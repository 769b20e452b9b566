------------------------------- MODULE Frames -------------------------------
(***************************************************************************)
(* The inverted page table and the free-frame stacks of                    *)
(* system/framemgmt.c, as operators on one record:                         *)
(*                                                                         *)
(*   fm.state, fm.pid, fm.pte   invpt[].fr_state, fr_pid, fr_pte           *)
(*   fm.refcnt                  invpt[].fr_refcnt                          *)
(*   fm.free                    frstackD/E1/E2 from frspD/E1/E2 on, the    *)
(*                              part of the array that holds free frames,  *)
(*                              the top of the stack first                 *)
(*   fm.used                    the list evicthead .. evicttail, oldest    *)
(*                              first (module InvPt shows that the linked  *)
(*                              list of the code is this queue)            *)
(*                                                                         *)
(* Every function of framemgmt.c runs with interrupts disabled, so a call  *)
(* is one operator application; callers chain them as the code does.       *)
(***************************************************************************)
EXTENDS Integers, SequencesExt

CONSTANTS
  FRAME0,        \* index of the first frame of the table (1024)
  NFRAMES_D,     \* frames of region D: page directories and tables (1000)
  NFRAMES_E1,    \* frames of region E1: resident heap pages (1024)
  NFRAMES_E2,    \* frames of region E2: evicted heap pages (1048)
  Pid,           \* process identifiers
  NULLPROC,      \* the null process, which also owns the shared page tables
  PteRef,        \* references to page table entries (pt_t pointers)
  FR_PTEUNUSED   \* the reference stored when a frame has no entry

ASSUME FramesAssumption ==
  /\ FRAME0 \in Nat \ {0}
  /\ NFRAMES_D \in Nat \ {0}
  /\ NFRAMES_E1 \in Nat \ {0}
  /\ NFRAMES_E2 \in Nat \ {0}
  /\ NULLPROC \in Pid
  /\ FR_PTEUNUSED \in PteRef

SYSERR == -1

Region == {"D", "E1", "E2"}

FRAME0_D  == FRAME0
FRAME0_E1 == FRAME0 + NFRAMES_D
FRAME0_E2 == FRAME0 + NFRAMES_D + NFRAMES_E1
FRAME0_F  == FRAME0 + NFRAMES_D + NFRAMES_E1 + NFRAMES_E2
NFRAMES   == NFRAMES_D + NFRAMES_E1 + NFRAMES_E2

Frame == FRAME0 .. FRAME0_F - 1

RegionSize(r) == CASE r = "D"  -> NFRAMES_D
                   [] r = "E1" -> NFRAMES_E1
                   [] r = "E2" -> NFRAMES_E2

RegionBase(r) == CASE r = "D"  -> FRAME0_D
                   [] r = "E1" -> FRAME0_E1
                   [] r = "E2" -> FRAME0_E2

RegionFrames(r) == RegionBase(r) .. RegionBase(r) + RegionSize(r) - 1

fidxtoregion(f) == CHOOSE r \in Region : f \in RegionFrames(r)

-----------------------------------------------------------------------------

\* fr_pid and fr_pte are not set here: they start as the zero of the BSS, that
\* is as NULLPROC and a reference nothing reads before invtakeframe sets it.
init_invpt ==
  [state  |-> [f \in Frame |-> "FREE"],
   pid    |-> [f \in Frame |-> NULLPROC],
   pte    |-> [f \in Frame |-> FR_PTEUNUSED],
   refcnt |-> [f \in Frame |-> 0],
   free   |-> [r \in Region |-> [i \in 1 .. RegionSize(r) |-> RegionBase(r) + i - 1]],
   used   |-> << >>]

hasfreeframe(fm, r) == fm.free[r] # << >>

hasusedframeE1(fm) == fm.used # << >>

\* getfreeframe pops the stack of r: its result, and the table after the pop.
FreeFrame(fm, r) ==
  IF fm.free[r] # << >> THEN Head(fm.free[r]) ELSE SYSERR

\* Mutant: the frame on top is read and the stack pointer stays.
PopFree_NoPop(fm, r) == fm

PopFree(fm, r) ==
  IF fm.free[r] # << >> THEN [fm EXCEPT !.free[r] = Tail(@)] ELSE fm

getusedframeE1(fm) == IF fm.used = << >> THEN SYSERR ELSE Head(fm.used)

\* The bound is the one the code tests: a frame number, which starts at
\* FRAME0, is compared with the number of entries.
CanTake(fm, f) == f >= 0 /\ f < NFRAMES /\ fm.state[f] = "FREE"

\* Mutant: the frame becomes the next victim.
invtakeframe_AtHead(fm, f, pid, pte) ==
  IF CanTake(fm, f)
  THEN [fm EXCEPT !.state[f] = "USED", !.pid[f] = pid, !.pte[f] = pte,
                  !.used = IF fidxtoregion(f) = "E1" THEN <<f>> \o @ ELSE @]
  ELSE fm

invtakeframe(fm, f, pid, pte) ==
  IF CanTake(fm, f)
  THEN [fm EXCEPT !.state[f] = "USED", !.pid[f] = pid, !.pte[f] = pte,
                  !.used = IF fidxtoregion(f) = "E1" THEN Append(@, f) ELSE @]
  ELSE fm

\* __remove_from_used_ll
RemoveUsed(used, f) == RemoveAt(used, CHOOSE i \in 1 .. Len(used) : used[i] = f)

\* The stack pointer is at 0: the array has no place left for a frame.
StackFull(fm, r) == Len(fm.free[r]) = RegionSize(r)

\* Mutant: a frame that is free already is pushed once more.
invfreeframe_NoCheck(fm, f) ==
  LET r == fidxtoregion(f) IN
  IF StackFull(fm, r)
  THEN fm
  ELSE [fm EXCEPT !.state[f] = "FREE",
                  !.free[r] = <<f>> \o @,
                  !.used = IF Contains(@, f) THEN RemoveUsed(@, f) ELSE @]

\* Mutant: the frame is marked free and not pushed.
invfreeframe_NoPush(fm, f) ==
  IF fm.state[f] = "FREE"
  THEN fm
  ELSE [fm EXCEPT !.state[f] = "FREE",
                  !.used = IF fidxtoregion(f) = "E1" THEN RemoveUsed(@, f) ELSE @]

\* Mutant: the frame stays in the queue of victims.
invfreeframe_StaysQueued(fm, f) ==
  LET r == fidxtoregion(f) IN
  IF fm.state[f] = "FREE" \/ StackFull(fm, r)
  THEN fm
  ELSE [fm EXCEPT !.state[f] = "FREE",
                  !.free[r] = <<f>> \o @]

invfreeframe(fm, f) ==
  LET r == fidxtoregion(f) IN
  IF fm.state[f] = "FREE" \/ StackFull(fm, r)
  THEN fm
  ELSE [fm EXCEPT !.state[f] = "FREE",
                  !.free[r] = <<f>> \o @,
                  !.used = IF r = "E1" THEN RemoveUsed(@, f) ELSE @]

-----------------------------------------------------------------------------
UsedFrames(fm, r) == {f \in RegionFrames(r) : fm.state[f] = "USED"}

FrameTable ==
  [state  : [Frame -> {"FREE", "USED"}],
   pid    : [Frame -> Pid],
   pte    : [Frame -> PteRef],
   refcnt : [Frame -> Int],
   free   : [Region -> Seq(Frame)],
   used   : Seq(Frame)]

FrameTableOK(fm) ==
  /\ fm \in FrameTable
  /\ \A r \in Region : /\ ToSet(fm.free[r]) \subseteq RegionFrames(r)
                       /\ Len(fm.free[r]) <= RegionSize(r)
=============================================================================
