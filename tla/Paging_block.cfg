CONSTANTS
  null = null
  main = main
  child = child
  third = third
  unused = unused
  FRAME0 = 1
  NFRAMES_D = 8
  NFRAMES_E1 = 1
  NFRAMES_E2 = 1
  Pid <- ThreeUsers
  NULLPROC = null
  PteRef <- MCPteRef
  FR_PTEUNUSED = unused
  Page = {1, 2}
  Prio <- SamePrio
  NIdentity = 1
  Calls <- Manage
  TlbCaches = FALSE
  ErrBits = {0}
  Val = {}
  MaxRef = 3
  MaxCreate = 3
SPECIFICATION Spec
SYMMETRY Children
CHECK_DEADLOCK FALSE
INVARIANTS
  NoLostWakeup
  BlockedQueued
  SchedulerSound
