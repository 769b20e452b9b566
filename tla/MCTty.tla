---- MODULE MCTty ----
(***************************************************************************)
(* The console for TLC, with writers only: what the output handler sends.  *)
(***************************************************************************)
EXTENDS Tty
NoTyping == {[keys |-> 0, reads |-> 0, writes |-> 4]}
====
