---- MODULE BlockStore ----
(***************************************************************************)
(* What a disk promises to the processes that use it: a read returns what  *)
(* was last written to the block, and a block keeps its contents until the *)
(* next write.  A block that nobody wrote may read as anything.  Blocks    *)
(* may be lost only when the disk does not exist, which no call reports,   *)
(* or somebody has asked for it to be deleted.                             *)
(***************************************************************************)
EXTENDS Naturals
CONSTANTS Clients,      \* the processes that use the disk
          Blocks,       \* block numbers
          Values,       \* contents of a block that somebody wrote
          Zero, Junk    \* what a block that nobody wrote may read as
VARIABLES store,        \* what each block contains
          last,         \* the last call of each process that has taken effect
          doomed        \* does the disk not exist, or is it being deleted?

None == [op |-> "none", blk |-> 0, val |-> Zero]

\* What may be lost in a step.
Losses == IF doomed THEN SUBSET Blocks ELSE {{}}
Without(lost) == [b \in Blocks |-> IF b \in lost THEN Zero ELSE store[b]]

Write(c, b, v) == /\ \E lost \in Losses : store' = [Without(lost) EXCEPT ![b] = v]
                  /\ last' = [last EXCEPT ![c] = [op |-> "write", blk |-> b, val |-> v]]

Contents(b) == IF store[b] = Zero THEN {Zero, Junk} ELSE {store[b]}
Read(c, b) == /\ \E v \in Contents(b) : last' = [last EXCEPT ![c] = [op |-> "read", blk |-> b, val |-> v]]
              /\ UNCHANGED store

Erase == /\ \E lost \in Losses : store' = Without(lost)
         /\ UNCHANGED last

Init == /\ store = [b \in Blocks |-> Zero]
        /\ last = [c \in Clients |-> None]
        /\ doomed \in BOOLEAN

Next == /\ \/ \E c \in Clients, b \in Blocks, v \in Values : Write(c, b, v)
           \/ \E c \in Clients, b \in Blocks : Read(c, b)
           \/ Erase
        /\ doomed' \in BOOLEAN

Spec == Init /\ [][Next]_<<store, last>>
====
