CONSTANTS
  null = null
  main = main
  child = child
  third = third
  unused = unused
  FRAME0 = 1
  NFRAMES_D = 6
  NFRAMES_E1 = 2
  NFRAMES_E2 = 3
  Pid <- TwoUsers
  NULLPROC = null
  PteRef <- MCPteRef
  FR_PTEUNUSED = unused
  Page = {1, 2}
  Prio <- SamePrio
  NIdentity = 1
  Calls <- Return
  TlbCaches = FALSE
  ErrBits = {0}
  Val = {1}
  MaxRef = 3
  MaxCreate = 2
SPECIFICATION Spec
VIEW Seen
CHECK_DEADLOCK FALSE
INVARIANTS
  DataIntegrity
  RefcntExact
