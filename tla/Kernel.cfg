\* The process manager: four workloads, the null process and three users.
SPECIFICATION Spec
CONSTANTS
  NPROC = 4
  NSEM = 1
  QUANTUM = 2
  MaxCount = 1
  Loads <- All
INVARIANTS
  QueuesSound
  SemaphoresExact
  DelayExact
  NoMessageMissed
  HighestRuns
PROPERTIES
  NoStarvation
  TimedWaitsEnd
\* xdone halts the machine.
CHECK_DEADLOCK FALSE
