------------------------------ MODULE HeapSpec ------------------------------
(***************************************************************************)
(* What a virtual heap promises to the process that owns it: runs of        *)
(* consecutive pages that overlap nothing it already holds, for as long as  *)
(* there is such a run, and that any part of what it holds can be returned. *)
(***************************************************************************)
EXTENDS Naturals

CONSTANT MAXHSIZE     \* pages of a heap, numbered from 0

VARIABLES
  owned,     \* pages the process holds
  reply      \* the last request, <<m>> or <<b, m>>, and the pages that it
             \* handed over, none if it failed

Page == 0 .. MAXHSIZE - 1

Run(b, m) == b .. b + m - 1

\* The runs of m pages of which the process holds none.
FreeRuns(m) == LET free == Page \ owned IN {b \in Page : Run(b, m) \subseteq free}

Init == owned = {} /\ reply = << << >>, {} >>

Get(m) == m > 0 /\ \E b \in Page :
  /\ reply' = << <<m>>, Run(b, m) >>
  /\ b \in FreeRuns(m)
  /\ owned' = owned \cup Run(b, m)

GetFails(m) ==
  /\ reply' = << <<m>>, {} >>
  /\ m = 0 \/ FreeRuns(m) = {}
  /\ UNCHANGED owned

Return(b, m) ==
  /\ reply' = << <<b, m>>, Run(b, m) >>
  /\ m > 0 /\ Run(b, m) \subseteq owned
  /\ owned' = owned \ Run(b, m)

ReturnFails(b, m) ==
  /\ reply' = << <<b, m>>, {} >>
  /\ m = 0 \/ ~ (Run(b, m) \subseteq owned)
  /\ UNCHANGED owned

Next == \E m \in 0 .. MAXHSIZE :
  \/ Get(m) \/ GetFails(m)
  \/ \E b \in 0 .. MAXHSIZE : Return(b, m) \/ ReturnFails(b, m)

Spec == Init /\ [][Next]_<<owned, reply>>
=============================================================================
