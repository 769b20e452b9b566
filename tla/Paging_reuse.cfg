CONSTANTS
  null = null
  main = main
  child = child
  third = third
  unused = unused
  FRAME0 = 1
  NFRAMES_D = 6
  NFRAMES_E1 = 1
  NFRAMES_E2 = 2
  Pid <- ThreeUsers
  NULLPROC = null
  PteRef <- MCPteRef
  FR_PTEUNUSED = unused
  Page = {1}
  Prio <- SamePrio
  NIdentity = 1
  Calls <- Both
  TlbCaches = TRUE
  ErrBits = {0, 1}
  Val = {1}
  MaxRef = 3
  MaxCreate = 5
SPECIFICATION Spec
VIEW Seen
SYMMETRY Children
CHECK_DEADLOCK FALSE
INVARIANTS
  NothingStale
  PanicMeansShort
  DFramesOwned
