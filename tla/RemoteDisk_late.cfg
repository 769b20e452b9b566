SPECIFICATION Spec
CONSTANTS
  c1 = c1
  c2 = c2
  Clients = {c1, c2}
  Bufs = {n1, n2}
  MaxBlk = 1
  Values = {1, 2}
  Zero = 0
  Junk = Junk
  NULL = NULL
  RD_RETRIES = 2
  LateReplies = TRUE
  MaxCalls = 5
  Loads <- MCLoads
PROPERTY ReplyMatches
CHECK_DEADLOCK FALSE
