CONSTANTS
  null = null
  main = main
  child = child
  third = third
  unused = unused
  FRAME0 = 1
  NFRAMES_D = 6
  NFRAMES_E1 = 1
  NFRAMES_E2 = 2
  Pid <- TwoUsers
  NULLPROC = null
  PteRef <- MCPteRef
  FR_PTEUNUSED = unused
  Page = {1, 2}
  Prio <- SamePrio
  NIdentity = 1
  Calls <- Return
  TlbCaches = FALSE
  ErrBits = {0}
  Val = {}
  MaxRef = 3
  MaxCreate = 2
SPECIFICATION Spec
CHECK_DEADLOCK FALSE
PROPERTIES
  MapsFaultingPage
