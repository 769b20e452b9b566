---- MODULE Tty ----
(***************************************************************************)
(* The terminal (device/tty/*.c): rings of characters between the handler  *)
(* of the UART's interrupts and the processes that read and write.  The    *)
(* line is in cooked mode, where it starts.  Of the echo only its length   *)
(* matters.  Reads and writes go on with interrupts disabled, and a        *)
(* character is a step: a call can wait after any of them.                 *)
(***************************************************************************)
EXTENDS Integers, Sequences, SequencesExt, FiniteSets
CONSTANTS Readers, Writers,
          Text,         \* printable characters
          TY_IBUFLEN, TY_OBUFLEN, TY_EBUFLEN,
          UART_FIFO_SIZE,
          Budgets,      \* bounds: how many keys, calls of ttyread and of ttywrite
          NULL
VARIABLES ibuf, obuf,   \* the rings: characters, head and tail
          isem, osem,   \* tyisem and tyosem
          cursor,       \* tyicursor
          echo,         \* characters in the echo ring
          opts,         \* tyiecho, and tyoheld
          ier,          \* are output interrupts enabled?
          rd, wr,       \* what each reader still wants, each writer still has to put
          ahead, line,  \* typed and not yet read: full lines, the present line
          owed,         \* put and not yet sent
          slips,        \* what the handlers got wrong: see Slips and Early
          left          \* what is left of the budget
ttyvars == <<ibuf, obuf, isem, osem, cursor, echo, opts, ier, rd, wr, ahead, line, owed, slips, left>>
inputs == <<ibuf, isem, cursor, ahead, line, rd>>
outputs == <<obuf, osem, owed, wr>>

\* What the constants have to be.
TtyAssumption == /\ TY_IBUFLEN \in Nat \ {0} /\ TY_OBUFLEN \in Nat \ {0} /\ TY_EBUFLEN \in Nat \ {0}
                 /\ UART_FIFO_SIZE \in 1 .. TY_OBUFLEN
Keys == Text \cup {"erase", "kill", "newline", "eof", "start", "stop"}
Ring(n) == [buf |-> [i \in 0 .. n - 1 |-> NULL], head |-> 0, tail |-> 0]
Stored(r, c, n) == [r EXCEPT !.buf[r.tail] = c, !.tail = (@ + 1) % n]
Advanced(r, k, n) == [r EXCEPT !.head = (@ + k) % n]

ttyinit == /\ ibuf = Ring(TY_IBUFLEN) /\ obuf = Ring(TY_OBUFLEN)
           /\ isem = [count |-> 0, queue |-> <<>>] /\ osem = [count |-> TY_OBUFLEN, queue |-> <<>>]
           /\ cursor = 0 /\ echo = 0
           /\ opts = [tyiecho |-> TRUE, tyoheld |-> FALSE]
           /\ ier = TRUE
           /\ rd = [p \in Readers |-> [left |-> 0, first |-> TRUE, waits |-> FALSE]]
           /\ wr = [p \in Writers |-> [left |-> <<>>, waits |-> FALSE]]
           /\ ahead = <<>> /\ line = <<>> /\ owed = <<>> /\ slips = {}
           /\ left \in Budgets

Waits(s, p) == [count |-> s.count - 1, queue |-> IF s.count <= 0 THEN Append(s.queue, p) ELSE s.queue]
\* signaln
Signals(s, n) == [count |-> s.count + n, queue |-> SubSeq(s.queue, n + 1, Len(s.queue))]
IsBlocked(s, p) == p \in ToSet(s.queue)

(***************************************************************************)
(* ttyhandle_in: one character arrives.                                    *)
(***************************************************************************)
Full == (IF isem.count < 0 THEN 0 ELSE isem.count) + cursor >= TY_IBUFLEN - 1
\* The handler stores a newline in a full ring, and any character when two readers
\* are awake whose characters the semaphore no longer counts; it does not wrap the
\* tail behind an end of file, and where killing a line should wrap the tail it
\* moves the head. The last two leave a pointer outside the ring, and what the
\* next character does is undefined.
Slips(c) == LET stores == ibuf'.buf # ibuf.buf \/ ibuf'.tail # ibuf.tail
            IN (IF c \notin {"erase", "kill"} /\ stores /\ Len(ahead) + Len(line) >= TY_IBUFLEN THEN {"full"} ELSE {})
               \cup (IF c = "eof" /\ ibuf'.tail = TY_IBUFLEN THEN {"eof"} ELSE {})
               \cup (IF c = "kill" /\ ibuf.tail < cursor THEN {"kill"} ELSE {})
InRing == ibuf.tail \in 0 .. TY_IBUFLEN - 1 /\ ibuf.head \in 0 .. TY_IBUFLEN - 1

\* eputc puts n characters into the echo ring, and ttykickout.
Echoes(n) == /\ echo' = (echo + n) % TY_EBUFLEN
             /\ ier' = (ier \/ n > 0)
Echoed(c) == IF ~opts.tyiecho THEN 0 ELSE IF c = "erase" THEN 3 ELSE IF c \in Text THEN 1 ELSE 2
Starts == opts' = [opts EXCEPT !.tyoheld = FALSE]

Flow(c) == /\ c \in {"start", "stop"}
           /\ opts' = [opts EXCEPT !.tyoheld = (c = "stop")]
           /\ ier' = (ier \/ c = "start")
           /\ UNCHANGED <<inputs, echo>>
Kill(c) == /\ c = "kill" /\ Starts
           /\ ibuf' = [ibuf EXCEPT !.tail = @ - cursor, !.head = IF ibuf.tail < cursor THEN @ + TY_IBUFLEN ELSE @]
           /\ cursor' = 0 /\ line' = <<>>
           /\ Echoes(2)
           /\ UNCHANGED <<isem, ahead, rd>>
BeforeTail_Zero(i) == IF i = 0 THEN 0 ELSE i - 1
BeforeTail(i) == IF i = 0 THEN TY_IBUFLEN - 1 ELSE i - 1
Erase(c) == /\ c = "erase" /\ Starts
            /\ IF cursor = 0 THEN UNCHANGED <<ibuf, cursor, line, echo, ier>>
               ELSE /\ cursor' = cursor - 1
                    /\ ibuf' = [ibuf EXCEPT !.tail = BeforeTail(@)]
                    /\ line' = SubSeq(line, 1, Len(line) - 1)
                    /\ Echoes(Echoed(c))
            /\ UNCHANGED <<isem, ahead, rd>>
EndOfLine(c) == /\ c = "newline" /\ Starts
                /\ ibuf' = Stored(ibuf, c, TY_IBUFLEN)
                /\ isem' = Signals(isem, cursor + 1)
                /\ cursor' = 0
                /\ ahead' = ahead \o line \o <<c>> /\ line' = <<>>
                /\ Echoes(Echoed(c))
                /\ UNCHANGED rd
Bell(c) == /\ c \in Text \cup {"eof"} /\ Full /\ Starts
           /\ Echoes(1)
           /\ UNCHANGED inputs
Eof(c) == /\ c = "eof" /\ ~Full /\ Starts
          /\ IF cursor # 0 THEN UNCHANGED <<ibuf, isem, ahead>>
             ELSE /\ ibuf' = [ibuf EXCEPT !.buf[ibuf.tail] = c, !.tail = @ + 1]
                  /\ isem' = Signals(isem, 1)
                  /\ ahead' = Append(ahead, c)
          /\ Echoes(Echoed(c))
          /\ UNCHANGED <<cursor, line, rd>>
Insert(c) == /\ c \in Text /\ ~Full /\ Starts
             /\ cursor' = cursor + 1
             /\ ibuf' = Stored(ibuf, c, TY_IBUFLEN)
             /\ line' = Append(line, c)
             /\ Echoes(Echoed(c))
             /\ UNCHANGED <<isem, ahead, rd>>
ttyhandle_in(c) == /\ Flow(c) \/ Kill(c) \/ Erase(c) \/ EndOfLine(c) \/ Bell(c) \/ Eof(c) \/ Insert(c)
                   /\ slips' = slips \cup Slips(c)
                   /\ UNCHANGED outputs

(***************************************************************************)
(* ttyread, of a line or so many characters, and ttygetc.                  *)
(***************************************************************************)
ttyread(p, count) == /\ rd[p].left = 0
                     /\ rd' = [rd EXCEPT ![p] = [left |-> count, first |-> TRUE, waits |-> FALSE]]
                     /\ UNCHANGED <<ibuf, isem, cursor, ahead, line>>
Takes(p) == LET c == ibuf.buf[ibuf.head] IN
            /\ ibuf' = Advanced(ibuf, 1, TY_IBUFLEN)
            /\ ahead' = Tail(ahead)
            /\ rd' = [rd EXCEPT ![p] = [left |-> IF c = "newline" \/ (c = "eof" /\ @.first) THEN 0 ELSE @.left - 1,
                                        first |-> FALSE, waits |-> FALSE]]
            /\ UNCHANGED <<cursor, line>>
ttygetc(p) == /\ rd[p].left > 0 /\ ~rd[p].waits
              /\ isem' = Waits(isem, p)
              /\ IF isem.count > 0 THEN Takes(p)
                 ELSE rd' = [rd EXCEPT ![p].waits = TRUE] /\ UNCHANGED <<ibuf, cursor, ahead, line>>
Gets(p) == rd[p].waits /\ ~IsBlocked(isem, p) /\ Takes(p) /\ UNCHANGED isem

(***************************************************************************)
(* ttywrite and ttyputc.  A newline is put as two characters.              *)
(***************************************************************************)
Crlf(c) == IF c = "newline" THEN <<"return", "newline">> ELSE <<c>>
ttywrite(p, c) == /\ wr[p].left = <<>>
                  /\ wr' = [wr EXCEPT ![p].left = Crlf(c)]
                  /\ UNCHANGED <<obuf, osem, owed, ier>>
Kicked == ier' = TRUE
Puts(p) == LET c == Head(wr[p].left) IN
           /\ obuf' = Stored(obuf, c, TY_OBUFLEN)
           /\ owed' = Append(owed, c)
           /\ wr' = [wr EXCEPT ![p] = [left |-> Tail(@.left), waits |-> FALSE]]
           /\ Kicked
ttyputc(p) == /\ wr[p].left # <<>> /\ ~wr[p].waits
              /\ osem' = Waits(osem, p)
              /\ IF osem.count > 0 THEN Puts(p)
                 ELSE wr' = [wr EXCEPT ![p].waits = TRUE] /\ UNCHANGED <<obuf, owed, ier>>
PutsLate(p) == wr[p].waits /\ ~IsBlocked(osem, p) /\ Puts(p) /\ UNCHANGED osem

(***************************************************************************)
(* ttyhandle_out: the UART can take a burst.  The semaphore counts as      *)
(* queued what a writer waits to put, and what one that was woken has not  *)
(* put yet.                                                                *)
(***************************************************************************)
Min2(a, b) == IF a <= b THEN a ELSE b
Burst == Min2(UART_FIFO_SIZE - Min2(UART_FIFO_SIZE, echo), TY_OBUFLEN - osem.count)
TurnsOff == echo = 0 /\ osem.count >= TY_OBUFLEN
Early == ~TurnsOff /\ Burst > Len(owed)
Sends == /\ echo' = echo - Min2(UART_FIFO_SIZE, echo)
         /\ obuf' = Advanced(obuf, Burst, TY_OBUFLEN)
         /\ osem' = Signals(osem, Burst)
         /\ owed' = SubSeq(owed, Burst + 1, Len(owed))
         /\ UNCHANGED ier
ttyhandle_out == /\ ier /\ ~opts.tyoheld
                 /\ IF TurnsOff THEN ier' = FALSE /\ UNCHANGED <<echo, obuf, osem, owed>> ELSE Sends
                 /\ slips' = IF Early THEN slips \cup {"early"} ELSE slips
                 /\ UNCHANGED wr

\* TC_ECHO and TC_NOECHO.
ttycontrol == opts' = [opts EXCEPT !.tyiecho = ~@]

Spends(what) == left[what] > 0 /\ left' = [left EXCEPT ![what] = @ - 1]
InputOnly == UNCHANGED <<outputs, echo, opts, ier, slips>>
OutputOnly == UNCHANGED <<inputs, opts>>
TtyNext ==
    \/ ttyhandle_out /\ OutputOnly /\ UNCHANGED left
    \/ \E c \in Keys : InRing /\ ttyhandle_in(c) /\ Spends("keys")
    \/ ttycontrol /\ UNCHANGED <<inputs, outputs, echo, ier, slips>> /\ Spends("keys")
    \/ \E p \in Readers : \/ InRing /\ ttygetc(p) /\ InputOnly /\ UNCHANGED left
                          \/ InRing /\ Gets(p) /\ InputOnly /\ UNCHANGED left
                          \/ \E n \in 1 .. TY_IBUFLEN : ttyread(p, n) /\ InputOnly /\ Spends("reads")
    \/ \E p \in Writers : \/ ttyputc(p) /\ OutputOnly /\ UNCHANGED <<echo, slips, left>>
                          \/ PutsLate(p) /\ OutputOnly /\ UNCHANGED <<echo, slips, left>>
                          \/ \E c \in Text \cup {"newline"} :
                                 ttywrite(p, c) /\ OutputOnly /\ UNCHANGED <<echo, slips>> /\ Spends("writes")
TtySpec == ttyinit /\ [][TtyNext]_ttyvars

(***************************************************************************)
(* Properties.                                                             *)
(***************************************************************************)
Holds(r, n, s) == /\ r.tail = (r.head + Len(s)) % n
                  /\ \A k \in DOMAIN s : r.buf[(r.head + k - 1) % n] = s[k]

\* Until the handler stores into a full ring or a pointer leaves the ring, the
\* input ring holds what was typed, as it was edited. Whatever happens, readers
\* take it in order, each is woken for a character of its own, and none is left
\* asleep while there are characters for it.
TypedIsKept == /\ slips \subseteq {"early"} => Holds(ibuf, TY_IBUFLEN, ahead \o line)
               /\ Len(line) = cursor
               /\ isem.count = Len(ahead) - Cardinality({p \in Readers : rd[p].waits})

\* Until the handler sends what a writer has not put yet (SendsQueued), the UART
\* gets the characters in the order in which writers put them, each once, and
\* output interrupts stay enabled while any are left.
PutIsSent == "early" \notin slips =>
                 /\ Holds(obuf, TY_OBUFLEN, owed)
                 /\ osem.count = TY_OBUFLEN - Len(owed) - Cardinality({p \in Writers : wr[p].waits})
                 /\ owed # <<>> => ier

\* What ttyhandle_out.c:53-54 says: the handler transmits characters from the
\* output queue while it is nonempty, that is, no more than are in it. The code
\* does otherwise: a writer that the last burst woke counts as having put its
\* character, and when it has not run by the next burst the handler sends what
\* its slot held before.
SendsQueued == [][obuf'.head # obuf.head => ~Early]_ttyvars
====
