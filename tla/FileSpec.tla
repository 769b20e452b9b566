---- MODULE FileSpec ----
(***************************************************************************)
(* What the local file system promises: a file is a sequence of bytes, and *)
(* who has it open reads and writes it at a position of his own, which is  *)
(* never behind its end.                                                   *)
(***************************************************************************)
EXTENDS Integers, Sequences
CONSTANTS Names, Devices, Bytes, EOF, NULL
VARIABLES content,      \* of every file that exists
          open,         \* the name and the position of each open file
          got           \* what the call returned, when it was lflgetc
vars == <<content, open, got>>
Init == /\ content = [n \in Names |-> NULL]
        /\ open = [v \in Devices |-> NULL]
        /\ got = NULL

IsOpen(v) == open[v] # NULL
OfFile(v) == content[open[v].name]
Moves(v) == open' = [open EXCEPT ![v].pos = @ + 1]

Open(v, n) == /\ ~IsOpen(v) /\ ~\E w \in Devices : IsOpen(w) /\ open[w].name = n
              /\ open' = [open EXCEPT ![v] = [name |-> n, pos |-> 0]]
              /\ content' = IF content[n] = NULL THEN [content EXCEPT ![n] = <<>>] ELSE content
              /\ got' = NULL
Put(v, c) == /\ IsOpen(v) /\ Moves(v) /\ got' = NULL
             /\ content' = [content EXCEPT ![open[v].name] =
                               IF open[v].pos = Len(@) THEN Append(@, c) ELSE [@ EXCEPT ![open[v].pos + 1] = c]]
Get(v) == /\ IsOpen(v) /\ UNCHANGED content
          /\ \/ Moves(v) /\ open[v].pos < Len(OfFile(v)) /\ got' = OfFile(v)[open[v].pos + 1]
             \/ UNCHANGED open /\ got' = EOF /\ open[v].pos = Len(OfFile(v))
Seek(v) == /\ IsOpen(v) /\ got' = NULL /\ UNCHANGED content
           /\ \E o \in 0 .. Len(OfFile(v)) : open' = [open EXCEPT ![v].pos = o]
Truncate(v) == /\ IsOpen(v) /\ got' = NULL
               /\ open' = [open EXCEPT ![v].pos = 0]
               /\ content' = [content EXCEPT ![open[v].name] = <<>>]
Close(v) == IsOpen(v) /\ open' = [open EXCEPT ![v] = NULL] /\ got' = NULL /\ UNCHANGED content

Next == \E v \in Devices : \/ \E n \in Names : Open(v, n)
                           \/ \E c \in Bytes : Put(v, c)
                           \/ Seek(v) \/ Get(v) \/ Truncate(v) \/ Close(v)
Spec == Init /\ [][Next]_vars
====
