------------------------------ MODULE MCPaging ------------------------------
(***************************************************************************)
(* Paging for TLC: the processes and workloads of the configurations.      *)
(***************************************************************************)
EXTENDS Paging, TLC

CONSTANTS null, main, child, third, unused

MCPteRef == [pt : RegionFrames("D"), page : Page] \cup {unused}

TwoUsers == {null, main, child}
ThreeUsers == {null, main, child, third}

Others == Pid \ {null, main}

\* The workloads tell the children apart in nothing.
Children == Permutations({child, third})

\* A view for TLC: what a frame holds that no program has written into, or that
\* belongs to nobody, is compared with nothing and decides nothing.  (The last
\* component makes TLC evaluate vm.mem before it stores the state.)
Told(f) == /\ vm.fm.state[f] = "USED" /\ vm.fm.pte[f] # unused
           /\ expect[vm.fm.pid[f]][vm.fm.pte[f].page] # None

Seen == <<vm.fm, vm.dmem, vm.status, {<<f, vm.mem[f]>> : f \in {e \in EFrame : Told(e)}},
          sys, pc, prpd, pralloc, pgfaddr, tlb, prcount, prparent, prhasmsg,
          ncreate, expect, vm.mem = vm.mem>>

\* Users of one priority above the null process.
SamePrio == [p \in Pid |-> IF p = null THEN 0 ELSE 1]

\* The null process creates the first process, and runs when no other does.
Boot == {null} \X {"create", "clock"}

\* main and its child use their heaps.
Share == Boot \cup ({main} \X {"create", "heap", "clock"})
              \cup (Others \X {"heap", "clock"})

\* The child exits as well, and may be created again.
Reuse == Share \cup (Others \X {"exit"})

\* The child returns pages to its heap as well.
Return == Share \cup (Others \X {"vmhfreemem"})

\* Children that exit and that return pages.
Both == Reuse \cup (Others \X {"vmhfreemem"})

\* main kills its children and waits for them to die; they use and return
\* pages, exit, and touch pages they do not have.
Manage == Boot \cup ({main} \X {"create", "kill", "receive"})
               \cup (Others \X {"heap", "vmhfreemem", "exit", "segfault", "clock"})
=============================================================================
