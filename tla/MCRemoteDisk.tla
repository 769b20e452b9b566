---- MODULE MCRemoteDisk ----
(* RemoteDisk with one client that does everything to its disk, or to one that *)
(* the server refuses, or two clients with a block each.                       *)
EXTENDS RemoteDisk, TLC
CONSTANTS c1, c2
Nothing == [ops |-> {}, blocks |-> {}, ids |-> {}]
Everything(id) == [ops |-> {"open", "read", "write", "close", "delete"}, blocks |-> Blocks, ids |-> {id}]
MCLoads ==
  {c1 :> Everything("disk") @@ c2 :> Nothing,
   c1 :> Everything("a/b") @@ c2 :> Nothing,
   c1 :> [ops |-> {"open", "write", "read"}, blocks |-> {0}, ids |-> {"disk"}] @@ c2 :> [ops |-> {"write", "read"}, blocks |-> {1}, ids |-> {}],
   c1 :> [ops |-> {"open", "badopen", "write", "sync"}, blocks |-> {0}, ids |-> {"disk"}] @@ c2 :> [ops |-> {"write"}, blocks |-> {1}, ids |-> {}]}
====
