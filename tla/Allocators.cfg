SPECIFICATION MCSpec
CONSTANTS
  FRAME0 = 1
  NFRAMES_D = 1
  NFRAMES_E1 = 3
  NFRAMES_E2 = 3
  NULLPROC = null
  Pid = {null}
  FR_PTEUNUSED = unused
  PteRef = {unused}
  MAXHSIZE = 5
  Beyond = FALSE
  Procs = {p1, p2}
  HEAP = 4
  NBPOOLS = 2
  NSEM = 1
INVARIANTS
  PushRoom
  FreeStackSound
  NoFrameLost
  EvictExact
  HeapSound
  PoolsSound
PROPERTIES
  EvictFifo
  ImplementsFrameMgmt
  ImplementsHeap
  ImplementsMemory
