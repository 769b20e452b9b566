---- MODULE RemoteFs ----
(***************************************************************************)
(* Remote files (device/rfs): pseudo-devices with a name, a mode and a     *)
(* position, and an exchange of a request and a reply (rfscomm) under one  *)
(* mutex for all of them, so that there is at most one call at a time and  *)
(* who makes it does not matter.  The server is not in the repository: it  *)
(* keeps files and, as rdserver does, leaves requests alone that are older *)
(* than the last.  A message may be lost, repeated and late: the wire is   *)
(* the set of all that was sent.                                           *)
(***************************************************************************)
EXTENDS Integers, Sequences, SequencesExt, FiniteSets, FiniteSetsExt
CONSTANTS Names,
          Nrfl,         \* pseudo-devices
          RF_RETRIES,
          Modes,        \* mode strings that callers use, as sequences of letters
          Chunks,       \* what callers write
          RfMaxCalls,   \* bound on the exchanges
          NULL
VARIABLES rfltab,       \* struct rflcblk
          rfseq,        \* Rf_data.rf_seq
          rfcomm,       \* the exchange in progress, or NULL
          rfwire,       \* requests and replies that were sent
          files,        \* the server: contents of each file or NULL, last number
          sure,         \* what the files are, by the calls that succeeded
          doubt,        \* files for which a call timed out since the last reply
          got           \* what the last rflread returned, and what it should have
rfvars == <<rfltab, rfseq, rfcomm, rfwire, files, sure, doubt, got>>

\* What the constants have to be.
RemoteFsAssumption == /\ Nrfl \in Nat \ {0} /\ RF_RETRIES \in Nat \ {0} /\ RfMaxCalls \in Nat
                      /\ \A c \in Chunks : Len(c) > 0
Devs == 0 .. Nrfl - 1

rfsinit == /\ rfltab = [d \in Devs |-> [used |-> FALSE, name |-> NULL, mode |-> {}, pos |-> 0]]
           /\ rfseq = 1 /\ rfcomm = NULL
           /\ rfwire = [req |-> {}, rep |-> {}]
           /\ files = [file |-> [n \in Names |-> NULL], seq |-> 0]
           /\ sure = [n \in Names |-> NULL] /\ doubt = {}
           /\ got = [data |-> <<>>, want |-> <<>>]

\* A letter may be there once, and not both "o" (old) and "n" (new); neither
\* "r" nor "w" is both.
ValidMode(s) == IsInjective(s) /\ ~{"o", "n"} \subseteq ToSet(s)
rfsgetmode(s) == ToSet(s) \cup IF ToSet(s) \cap {"r", "w"} = {} THEN {"r", "w"} ELSE {}

(***************************************************************************)
(* Files.                                                                  *)
(***************************************************************************)
\* Bytes that were skipped, as after a truncation, are 0.
Stored(f, pos, data) == [i \in 1 .. Max({Len(f), pos + Len(data)}) |->
                           IF i \in pos + 1 .. pos + Len(data) THEN data[i - pos]
                           ELSE IF i <= Len(f) THEN f[i] ELSE 0]
Slice(f, pos, count) == SubSeq(f, pos + 1, Min({pos + count, Len(f)}))

\* What request m makes of the file f, and whether it can be done.
Possible(m, f) == CASE m.op = "open" -> ~("n" \in m.mode /\ f # NULL) /\ ~("o" \in m.mode /\ f = NULL)
                    [] OTHER -> f # NULL
After(m, f) == CASE m.op = "open" -> IF f = NULL THEN <<>> ELSE f
                 [] m.op = "write" -> Stored(f, m.pos, m.data)
                 [] m.op = "trunc" -> <<>>
                 [] m.op = "delete" -> NULL
                 [] m.op = "read" -> f

\* The server.
Serve == /\ \E m \in rfwire.req :
              LET f == files.file[m.name]
                  ok == Possible(m, f)
              IN /\ m.seq >= files.seq
                 /\ files' = [file |-> IF ok THEN [files.file EXCEPT ![m.name] = After(m, f)] ELSE files.file,
                              seq |-> m.seq]
                 /\ rfwire' = [rfwire EXCEPT !.rep = @ \cup
                        {[op |-> m.op, seq |-> m.seq, ok |-> ok,
                          data |-> IF ok /\ m.op = "read" THEN Slice(f, m.pos, m.count) ELSE <<>>]}]
         /\ UNCHANGED <<rfltab, rfseq, rfcomm, sure, doubt, got>>

(***************************************************************************)
(* rfscomm.                                                                *)
(***************************************************************************)
Request(op, d, n) == [op |-> op, dev |-> d, name |-> n, seq |-> rfseq, mode |-> {}, pos |-> 0, count |-> 0, data |-> <<>>]
Exchange(m) == /\ rfcomm = NULL /\ rfseq <= RfMaxCalls
               /\ rfseq' = rfseq + 1
               /\ rfcomm' = [msg |-> m, left |-> RF_RETRIES, at |-> "send"]
               /\ UNCHANGED <<rfwire, files, sure, doubt, got>>
RfIn(at) == rfcomm # NULL /\ rfcomm.at = at

Transmit == /\ RfIn("send") /\ rfcomm.left > 0
            /\ rfwire' = [rfwire EXCEPT !.req = @ \cup {rfcomm.msg}]
            /\ rfcomm' = [rfcomm EXCEPT !.left = @ - 1, !.at = "recv"]
            /\ UNCHANGED <<rfltab, rfseq, files, sure, doubt, got>>

\* As rdscomm, which looks at the kind of the reply only.
Accepts_AnySeq(r) == r.op = rfcomm.msg.op
Accepts(r) == r.seq = rfcomm.msg.seq /\ r.op = rfcomm.msg.op

\* Nothing, or the reply to something else, arrives: the next attempt.
Again == /\ RfIn("recv")
         /\ rfcomm' = [rfcomm EXCEPT !.at = "send"]
         /\ UNCHANGED <<rfltab, rfseq, rfwire, files, sure, doubt, got>>

\* The attempts are used up.
GiveUp == /\ RfIn("send") /\ rfcomm.left = 0
          /\ rfcomm' = NULL
          /\ doubt' = doubt \cup {rfcomm.msg.name}
          /\ UNCHANGED <<rfltab, rfseq, rfwire, files, sure, got>>

(***************************************************************************)
(* The calls, up to the exchange.                                          *)
(***************************************************************************)
Free == {d \in Devs : ~rfltab[d].used}
\* Name and mode go into the first free entry before the server is asked; after
\* a failure they stay there, where nobody uses them.
rfsopen(n, s) == /\ ValidMode(s) /\ Free # {}
                 /\ LET d == Min(Free) IN
                    /\ rfltab' = [rfltab EXCEPT ![d].name = n, ![d].mode = rfsgetmode(s)]
                    /\ Exchange([Request("open", d, n) EXCEPT !.mode = rfsgetmode(s)])
rflread(d, count) == /\ rfltab[d].used /\ "r" \in rfltab[d].mode
                     /\ Exchange([Request("read", d, rfltab[d].name) EXCEPT !.pos = rfltab[d].pos, !.count = count])
                     /\ UNCHANGED rfltab
rflwrite(d, data) == /\ rfltab[d].used /\ "w" \in rfltab[d].mode
                     /\ Exchange([Request("write", d, rfltab[d].name) EXCEPT !.pos = rfltab[d].pos, !.data = data])
                     /\ UNCHANGED rfltab
\* rfscontrol: a request with a name only, for any device.
rfsndmsg(op, n) == Exchange(Request(op, 0, n)) /\ UNCHANGED rfltab

rflseek(d, pos) == /\ rfcomm = NULL /\ rfltab[d].used
                   /\ rfltab' = [rfltab EXCEPT ![d].pos = pos]
                   /\ UNCHANGED <<rfseq, rfcomm, rfwire, files, sure, doubt, got>>
rflclose(d) == /\ rfcomm = NULL /\ rfltab[d].used
               /\ rfltab' = [rfltab EXCEPT ![d].used = FALSE]
               /\ UNCHANGED <<rfseq, rfcomm, rfwire, files, sure, doubt, got>>

(***************************************************************************)
(* The calls, after the reply r.                                           *)
(***************************************************************************)
Moves(d, n) == [rfltab EXCEPT ![d].pos = @ + n]
Returns(m, r) ==
    CASE ~r.ok -> rfltab
      [] r.ok /\ m.op = "open" -> [rfltab EXCEPT ![m.dev].pos = 0, ![m.dev].used = TRUE]
      [] r.ok /\ m.op = "read" -> Moves(m.dev, Len(r.data))
      [] r.ok /\ m.op = "write" -> Moves(m.dev, Len(m.data))
      [] r.ok /\ m.op \in {"trunc", "delete"} -> rfltab
\* A reply means that the server has left older requests behind.
Receive == /\ RfIn("recv")
           /\ \E r \in rfwire.rep :
                LET m == rfcomm.msg IN
                /\ Accepts(r)
                /\ rfltab' = Returns(m, r)
                /\ sure' = [n \in Names |-> IF n \in doubt \/ (n = m.name /\ ~r.ok) THEN files.file[n]
                                            ELSE IF n = m.name THEN After(m, sure[n]) ELSE sure[n]]
                /\ got' = IF r.ok /\ m.op = "read" /\ m.name \notin doubt
                          THEN [data |-> r.data, want |-> Slice(sure[m.name], m.pos, m.count)] ELSE got
           /\ doubt' = {}
           /\ rfcomm' = NULL
           /\ UNCHANGED <<rfseq, rfwire, files>>

RfNext == \/ Serve \/ Transmit \/ Again \/ GiveUp \/ Receive
          \/ \E n \in Names : \/ \E s \in Modes : rfsopen(n, s)
                              \/ \E op \in {"trunc", "delete"} : rfsndmsg(op, n)
          \/ \E d \in Devs : \/ \E count \in {Len(c) : c \in Chunks} : rflread(d, count)
                             \/ \E c \in Chunks : rflwrite(d, c)
                             \/ rflseek(d, 0)
                             \/ rflclose(d)
RfSpec == rfsinit /\ [][RfNext]_rfvars

(***************************************************************************)
(* Properties.                                                             *)
(***************************************************************************)
\* The files on the server are what the calls that succeeded made of them, and
\* what they read: no loss, repetition or delay of a message does a write twice,
\* drops one that was acknowledged, or answers a read with the data of another.
\* A file is in doubt from a call that timed out to the next reply.
RemoteFilesKept ==
    /\ \A n \in Names \ doubt : (rfcomm = NULL \/ rfcomm.msg.name # n) => files.file[n] = sure[n]
    /\ got.data = got.want
====
