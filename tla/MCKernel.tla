------------------------------ MODULE MCKernel ------------------------------
(***************************************************************************)
(* Kernel for TLC: the null process and three users, and the workloads.     *)
(***************************************************************************)
EXTENDS Kernel

Main == {1}
Children == {2, 3}

\* main creates children and semaphores, and deletes, resets and kills; they
\* wait, signal and exit.
Semaphores ==
  [calls |-> (Main \X {"create", "resume", "semcreate", "semdelete", "semreset",
                       "wait", "signal", "kill"})
             \cup (Children \X {"wait", "signal", "exit"}),
   prios |-> {1, 2}, delays |-> {}]

\* Sleepers and timed receives; they are sent messages and killed.
Timed ==
  [calls |-> (Main \X {"create", "resume", "sleep", "send", "kill"})
             \cup (Children \X {"sleep", "recvtime"}),
   prios |-> {1}, delays |-> {1, 2}]

\* Timed receives of no ticks, while others sleep.
NoWait ==
  [calls |-> (Main \X {"create", "resume", "sleep"}) \cup (Children \X {"recvtime"}),
   prios |-> {1}, delays |-> {0, 2}]

\* Priorities that change, yields, suspension and death.
Managed ==
  [calls |-> (Main \X {"create", "resume", "suspend", "chprio", "receive", "recvclr"})
             \cup (Children \X {"yield", "exit"}),
   prios |-> {1, 2}, delays |-> {}]

All == {Semaphores, Timed, NoWait, Managed}
=============================================================================
