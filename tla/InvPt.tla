-------------------------------- MODULE InvPt --------------------------------
(***************************************************************************)
(* The data structures of system/framemgmt.c as the code keeps them: the   *)
(* arrays frstackD, frstackE1 and frstackE2 with their stack pointers, and  *)
(* the doubly linked list of used E1 frames that runs through the entries   *)
(* of the inverted page table.  FrameMgmt is the specification it is shown  *)
(* to implement: Frames represents a stack by its live part, and the list   *)
(* by the sequence of its frames.                                           *)
(***************************************************************************)
EXTENDS Frames

NoFrame == -1 \* the null pointer: no frame

VARIABLES
  invpt,       \* fr_state, fr_pid, fr_pte, fr_next and fr_prev of each frame
  evicthead,
  evicttail,
  frstack,     \* the array of each region
  frsp         \* index of the top; the arrays are indexed from 0

invptvars == <<invpt, evicthead, evicttail, frstack, frsp>>

E1Frame == RegionFrames("E1")

InvptInit ==
  /\ invpt = [f \in Frame |-> [fr_state |-> "FREE", fr_pid |-> NULLPROC,
                               fr_pte |-> FR_PTEUNUSED, fr_next |-> NoFrame, fr_prev |-> NoFrame]]
  /\ evicthead = NoFrame
  /\ evicttail = NoFrame
  /\ frstack = [r \in Region |-> [i \in 0 .. RegionSize(r) - 1 |-> i + RegionBase(r)]]
  /\ frsp = [r \in Region |-> 0]

-----------------------------------------------------------------------------
\* Mutant: the list is joined at its head.
insert_to_used_ll_AtHead(f, used) ==
  /\ invpt' = [e \in Frame |->
                 IF e = f THEN [used EXCEPT !.fr_prev = NoFrame, !.fr_next = evicthead]
                 ELSE IF e = evicthead THEN [invpt[e] EXCEPT !.fr_prev = f]
                 ELSE invpt[e]]
  /\ evicthead' = f
  /\ evicttail' = IF evicttail = NoFrame THEN f ELSE evicttail

\* __insert_to_used_ll, with used the other fields of the entry of f.
insert_to_used_ll(f, used) ==
  /\ invpt' = [e \in Frame |->
                 IF e = f THEN [used EXCEPT !.fr_prev = evicttail, !.fr_next = NoFrame]
                 ELSE IF e = evicttail THEN [invpt[e] EXCEPT !.fr_next = f]
                 ELSE invpt[e]]
  /\ evicttail' = f
  /\ evicthead' = IF evicthead = NoFrame THEN f ELSE evicthead

\* __remove_from_used_ll and the store to fr_state that ends invfreeframe.  A
\* frame has two neighbours, which are never the same.
remove_from_used_ll(f) ==
  LET p == invpt[f].fr_prev
      n == invpt[f].fr_next
  IN
  /\ invpt' = [e \in Frame |->
                 IF e = f THEN [invpt[f] EXCEPT !.fr_state = "FREE",
                                                !.fr_next = NoFrame, !.fr_prev = NoFrame]
                 ELSE IF e = p THEN [invpt[e] EXCEPT !.fr_next = n]
                 ELSE IF e = n THEN [invpt[e] EXCEPT !.fr_prev = p]
                 ELSE invpt[e]]
  /\ evicthead' = IF f = evicthead THEN n ELSE evicthead
  /\ evicttail' = IF f = evicttail THEN p ELSE evicttail

-----------------------------------------------------------------------------
\* getfreeframe, then invtakeframe on what it returned.
InvptAllocate(r, pid, pte) ==
  LET f    == frstack[r][frsp[r]]
      used == [invpt[f] EXCEPT !.fr_state = "USED", !.fr_pid = pid, !.fr_pte = pte]
  IN
  /\ frsp[r] # RegionSize(r)
  /\ frsp' = [frsp EXCEPT ![r] = @ + 1]
  /\ UNCHANGED frstack
  /\ \/ /\ (f >= NFRAMES \/ invpt[f].fr_state # "FREE")
        /\ UNCHANGED <<invpt, evicthead, evicttail>>
     \/ /\ f < NFRAMES /\ invpt[f].fr_state = "FREE"
        /\ IF fidxtoregion(f) = "E1" THEN insert_to_used_ll(f, used)
           ELSE invpt' = [invpt EXCEPT ![f] = used] /\ UNCHANGED <<evicthead, evicttail>>

\* frstack[--frsp] = frame_num
push(r, f) ==
  /\ frstack' = [frstack EXCEPT ![r][frsp[r] - 1] = f]
  /\ frsp' = [frsp EXCEPT ![r] = @ - 1]

\* invfreeframe on a used frame that finds room on its stack; on any other it
\* changes nothing.
InvptRelease(f) ==
  LET r == fidxtoregion(f) IN
  /\ invpt[f].fr_state = "USED" /\ frsp[r] # 0
  /\ push(r, f)
  /\ IF r = "E1" THEN remove_from_used_ll(f)
     ELSE /\ invpt' = [invpt EXCEPT ![f].fr_state = "FREE"]
          /\ UNCHANGED <<evicthead, evicttail>>

InvptNext ==
  \/ \E r \in Region, pid \in Pid, pte \in PteRef : InvptAllocate(r, pid, pte)
  \/ \E f \in Frame : InvptRelease(f)

InvptSpec == InvptInit /\ [][InvptNext]_invptvars

-----------------------------------------------------------------------------
\* The list read from one end, cut off after as many hops as E1 has frames.
Walk(from, Field(_)) ==
  LET walk[n \in 0 .. NFRAMES_E1] ==
        IF n = 0 THEN << >>
        ELSE LET w == walk[n - 1]
                 p == IF w = << >> THEN from ELSE Field(w[Len(w)])
             IN IF Len(w) < n - 1 \/ p = NoFrame THEN w ELSE Append(w, p)
  IN walk[NFRAMES_E1]

Queue == Walk(evicthead, LAMBDA f : invpt[f].fr_next)

\* Both directions of the list tell the same story, and a frame that is not in
\* it points nowhere, whatever order frames are given up in
\* (framemgmt.c:25-72).
ListSound ==
  /\ Walk(evicttail, LAMBDA f : invpt[f].fr_prev) = Reverse(Queue)
  /\ \A f \in Frame \ ToSet(Queue) : invpt[f].fr_next = NoFrame /\ invpt[f].fr_prev = NoFrame

\* What the variable fm of FrameMgmt is: the live part of each array is a stack.
tables ==
      [state  |-> [f \in Frame |-> invpt[f].fr_state],
       pid    |-> [f \in Frame |-> invpt[f].fr_pid],
       pte    |-> [f \in Frame |-> invpt[f].fr_pte],
       refcnt |-> [f \in Frame |-> 0],
       free   |-> [r \in Region |-> [i \in 1 .. RegionSize(r) - frsp[r] |->
                                       frstack[r][frsp[r] + i - 1]]],
       used   |-> Queue]

FrameTables == INSTANCE FrameMgmt WITH fm <- tables

\* The arrays and the linked list, read as the stacks and the queue of
\* FrameMgmt, take only steps that FrameMgmt takes (framemgmt.c:99-310).
ImplementsFrameMgmt == FrameTables!Spec
=============================================================================
