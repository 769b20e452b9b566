------------------------------ MODULE FrameMgmt ------------------------------
(***************************************************************************)
(* The frame allocator of system/framemgmt.c on its own: the inverted page *)
(* table, one stack of free frames per region and the queue of used E1     *)
(* frames, driven by the two sequences of calls its clients make.          *)
(*                                                                         *)
(*   Allocate   getfreeframe(r) followed by invtakeframe on the frame it   *)
(*              returned: newpd, newpt, mapfreeframe, evictframe           *)
(*   Release    invfreeframe(f) on any frame of the table: kill gives up   *)
(*              every frame of a process, evictframe, restoreframe,        *)
(*              swapframe and vmhfreemem one frame each, used or not       *)
(***************************************************************************)
EXTENDS Frames

VARIABLE fm

Init == fm = init_invpt

\* A caller that gets SYSERR from getfreeframe gives up, and evictframe, alone
\* of the four, does not look at the result of invtakeframe.
Allocate(r, pid, pte) ==
  /\ hasfreeframe(fm, r)
  /\ fm' = invtakeframe(PopFree(fm, r), FreeFrame(fm, r), pid, pte)

Release(f) == fm' = invfreeframe(fm, f)

Next ==
  \/ \E r \in Region, pid \in Pid, pte \in PteRef : Allocate(r, pid, pte)
  \/ \E f \in Frame : Release(f)

Spec == Init /\ [][Next]_fm

-----------------------------------------------------------------------------
Injective(s) == \A i, j \in 1 .. Len(s) : s[i] = s[j] => i = j

\* The table, the stacks and the queue have their types, and every stack
\* stays within its array (framemgmt.c:15-22, 158-174, 261-302).
TypeOK == FrameTableOK(fm)

\* The stack of a region lists distinct frames, all of them FREE, so
\* getfreeframe never returns a frame that a page or a table still occupies,
\* whatever the order in which frames were given up.
FreeStackSound ==
  \A r \in Region :
    /\ Injective(fm.free[r])
    /\ \A f \in ToSet(fm.free[r]) : fm.state[f] = "FREE"

\* The frames that invtakeframe can take: those its bound test lets through.
Takeable(f) == f < NFRAMES

\* No frame that can be taken is ever lost: it is in use or on its stack.
NoFrameLost ==
  \A f \in Frame :
    (Takeable(f) /\ fm.state[f] = "FREE") => f \in ToSet(fm.free[fidxtoregion(f)])

\* The queue evictframe takes its victims from holds the used frames of E1,
\* each exactly once (framemgmt.c:25-72).
EvictExact ==
  /\ ToSet(fm.used) = UsedFrames(fm, "E1")
  /\ Injective(fm.used)

\* Giving up a used frame finds room on its stack: the three "stack is full"
\* errors of invfreeframe (framemgmt.c:263-267, 274-278, 288-292) never fire,
\* so the callers that ignore its result lose nothing.
PushRoom == \A f \in Frame : fm.state[f] = "USED" => ~ StackFull(fm, fidxtoregion(f))

\* Victims leave in the order they came (framemgmt.c:53 "in FIFO"): a step
\* removes one frame from the queue or appends one, and never reorders it.
FifoStep ==
  \/ fm'.used = fm.used
  \/ \E f \in Frame : fm'.used = Append(fm.used, f)
  \/ \E i \in 1 .. Len(fm.used) : fm'.used = RemoveAt(fm.used, i)

EvictFifo == [][FifoStep]_fm
=============================================================================
