---- MODULE Ports ----
(***************************************************************************)
(* Ports (system/pt*.c): bounded queues of messages, each with a semaphore *)
(* for its senders and one for its receivers.  A port may be reset or      *)
(* deleted, and created again, while processes wait for it; ptseq tells    *)
(* them.  All calls run with interrupts disabled and lose the processor    *)
(* only where they wait or wake somebody.                                  *)
(***************************************************************************)
EXTENDS Integers, Sequences, SequencesExt, FiniteSets
CONSTANTS PortUsers, NPORTS, Nodes,
          Counts,       \* the sizes that ports are created with
          MaxSeq,       \* bound on ptseq: how often ports are made and cleared
          NULL
VARIABLES porttab,      \* struct ptentry, with its two semaphores
          ptnextid,
          ptfree,       \* the free nodes, in order
          ptmsg,        \* per node: the life of the port in which its sender called
          ptpc,         \* where each process is in its call
          ptcpu         \* who runs with interrupts disabled, or NULL
ptvars == <<porttab, ptnextid, ptfree, ptmsg, ptpc, ptcpu>>

\* What the constants have to be.
ASSUME PortAssumption == /\ NPORTS \in Nat \ {0} /\ MaxSeq \in Nat /\ Counts \subseteq Nat
                         /\ IsFiniteSet(Nodes) /\ IsFiniteSet(PortUsers)
PortIds == 0 .. NPORTS - 1
PtIdle == [at |-> "idle", port |-> 0, seq |-> 0, new |-> NULL]
Sem(count) == [count |-> count, queue |-> <<>>]

ptinit == /\ porttab = [i \in PortIds |-> [state |-> "PT_FREE", seq |-> 0, max |-> 0, queue |-> <<>>,
                                           ssem |-> Sem(0), rsem |-> Sem(0)]]
          /\ ptnextid = 0
          /\ ptfree = SetToSeq(Nodes)
          /\ ptmsg = [n \in Nodes |-> 0]
          /\ ptpc = [p \in PortUsers |-> PtIdle]
          /\ ptcpu = NULL

SemWait(s, p) == [count |-> s.count - 1, queue |-> IF s.count <= 0 THEN Append(s.queue, p) ELSE s.queue]
SemSignal(s) == [count |-> s.count + 1, queue |-> IF s.count < 0 THEN Tail(s.queue) ELSE s.queue]
Sleeps(p) == \E i \in PortIds : p \in ToSet(porttab[i].ssem.queue) \cup ToSet(porttab[i].rsem.queue)
PtAt(p, at) == ptpc[p].at = at /\ ptcpu \in {NULL, p} /\ ~Sleeps(p)
Port(p) == porttab[ptpc[p].port]

(***************************************************************************)
(* ptcreate takes the first free entry from ptnextid on.                   *)
(***************************************************************************)
Created(e, count) == [e EXCEPT !.state = "PT_ALLOC", !.ssem = Sem(count), !.rsem = Sem(0),
                               !.queue = <<>>, !.seq = @ + 1, !.max = count]
ptcreate(p, count) ==
    /\ PtAt(p, "idle")
    /\ \E k \in PortIds :
          LET i == (ptnextid + k) % NPORTS IN
          /\ porttab[i].state = "PT_FREE" /\ porttab[i].seq < MaxSeq
          /\ \A j \in 0 .. k - 1 : porttab[(ptnextid + j) % NPORTS].state # "PT_FREE"
          /\ porttab' = [porttab EXCEPT ![i] = Created(@, count)]
          /\ ptnextid' = (i + 1) % NPORTS
    /\ UNCHANGED <<ptfree, ptmsg, ptpc, ptcpu>>

(***************************************************************************)
(* ptsend and ptrecv wait, and look at the state and the life of the port  *)
(* again when they have waited.                                            *)
(***************************************************************************)
Calls(p, i, at, sem) ==
    /\ PtAt(p, "idle") /\ porttab[i].state = "PT_ALLOC"
    /\ ptpc' = [ptpc EXCEPT ![p] = [PtIdle EXCEPT !.at = at, !.port = i, !.seq = porttab[i].seq]]
    /\ ptcpu' = IF sem.count > 0 THEN p ELSE NULL
    /\ UNCHANGED <<ptnextid, ptfree, ptmsg>>
ptsend(p, i) == /\ Calls(p, i, "send", porttab[i].ssem)
                /\ porttab' = [porttab EXCEPT ![i].ssem = SemWait(@, p)]
ptrecv(p, i) == /\ Calls(p, i, "receive", porttab[i].rsem)
                /\ porttab' = [porttab EXCEPT ![i].rsem = SemWait(@, p)]

SameLife(p) == Port(p).state = "PT_ALLOC" /\ Port(p).seq = ptpc[p].seq

PtReturns(p) == ptpc' = [ptpc EXCEPT ![p] = PtIdle] /\ ptcpu' = NULL /\ UNCHANGED ptnextid
Refused(p) == /\ PtAt(p, "send") \/ PtAt(p, "receive")
              /\ ~SameLife(p)
              /\ PtReturns(p)
              /\ UNCHANGED <<porttab, ptfree, ptmsg>>

\* ptsend panics without a free node: the sizes of the ports add up to less.
SendEnds(p) == /\ PtAt(p, "send") /\ SameLife(p) /\ ptfree # <<>>
               /\ porttab' = [porttab EXCEPT ![ptpc[p].port].queue = Append(@, Head(ptfree)),
                                             ![ptpc[p].port].rsem = SemSignal(@)]
               /\ ptmsg' = [ptmsg EXCEPT ![Head(ptfree)] = ptpc[p].seq]
               /\ ptfree' = Tail(ptfree)
               /\ PtReturns(p)

\* ptrecv does not look whether there is a message: PortCounts says there is.
RecvEnds(p) == /\ PtAt(p, "receive") /\ SameLife(p)
               /\ porttab' = [porttab EXCEPT ![ptpc[p].port].queue = Tail(@),
                                             ![ptpc[p].port].ssem = SemSignal(@)]
               /\ ptfree' = <<Head(Port(p).queue)>> \o ptfree
               /\ PtReturns(p)
               /\ UNCHANGED ptmsg

(***************************************************************************)
(* ptdelete and ptreset.  The port is in limbo while the two semaphores    *)
(* are reset or deleted, which may run those who waited.                   *)
(***************************************************************************)
Limbo_SameLife(e, new) == [e EXCEPT !.state = "PT_LIMBO", !.queue = IF new = "PT_ALLOC" THEN <<>> ELSE @,
                                    !.ssem = Sem(IF new = "PT_ALLOC" THEN e.max ELSE 0)]
Limbo(e, new) == [e EXCEPT !.state = "PT_LIMBO", !.seq = @ + 1,
                           !.queue = IF new = "PT_ALLOC" THEN <<>> ELSE @,
                           !.ssem = Sem(IF new = "PT_ALLOC" THEN e.max ELSE 0)]
ptclear(p, i, new) ==
    /\ PtAt(p, "idle") /\ porttab[i].state = "PT_ALLOC" /\ porttab[i].seq < MaxSeq
    /\ porttab' = [porttab EXCEPT ![i] = Limbo(@, new)]
    /\ ptfree' = porttab[i].queue \o ptfree
    /\ ptpc' = [ptpc EXCEPT ![p] = [PtIdle EXCEPT !.at = "limbo", !.port = i, !.new = new]]
    /\ ptcpu' = IF porttab[i].ssem.queue = <<>> THEN p ELSE NULL
    /\ UNCHANGED <<ptnextid, ptmsg>>

Cleared(p) == /\ PtAt(p, "limbo")
              /\ porttab' = [porttab EXCEPT ![ptpc[p].port].rsem = Sem(0)]
              /\ ptpc' = [ptpc EXCEPT ![p].at = "cleared"]
              /\ ptcpu' = IF Port(p).rsem.queue = <<>> THEN p ELSE NULL
              /\ UNCHANGED <<ptnextid, ptfree, ptmsg>>

ClearEnds(p) == /\ PtAt(p, "cleared")
                /\ porttab' = [porttab EXCEPT ![ptpc[p].port].state = ptpc[p].new]
                /\ ptnextid' = IF ptpc[p].new = "PT_FREE" THEN ptpc[p].port ELSE ptnextid
                /\ ptpc' = [ptpc EXCEPT ![p] = PtIdle]
                /\ ptcpu' = NULL
                /\ UNCHANGED <<ptfree, ptmsg>>

PtNext == \E p \in PortUsers :
            \/ Refused(p) \/ SendEnds(p) \/ RecvEnds(p) \/ Cleared(p) \/ ClearEnds(p)
            \/ \E c \in Counts : ptcreate(p, c)
            \/ \E i \in PortIds : \/ ptsend(p, i) \/ ptrecv(p, i)
                                  \/ \E new \in {"PT_FREE", "PT_ALLOC"} : ptclear(p, i, new)
PtSpec == ptinit /\ [][PtNext]_ptvars

(***************************************************************************)
(* Properties.                                                             *)
(***************************************************************************)
InLife(i, at) == {p \in PortUsers : ptpc[p].at = at /\ ptpc[p].port = i /\ ptpc[p].seq = porttab[i].seq}
Live == {i \in PortIds : porttab[i].state = "PT_ALLOC"}

\* The two counts of a port agree with its queue and with those who have waited
\* but not yet run, across resets and deletions: so a receiver never takes from
\* an empty list, and a port never holds more than its size.
PortCounts == \A i \in Live :
    LET e == porttab[i] IN
    /\ e.rsem.count = Len(e.queue) - Cardinality(InLife(i, "receive"))
    /\ e.ssem.count = e.max - Len(e.queue) - Cardinality(InLife(i, "send"))

\* Every node is free or in one port, and a port holds messages of its present
\* life only: what was sent before a reset is not received after it.
PortMessages ==
    /\ \A n \in Nodes : Cardinality({k \in DOMAIN ptfree : ptfree[k] = n})
            + Cardinality({x \in Live \X (1 .. Cardinality(Nodes)) :
                             x[2] <= Len(porttab[x[1]].queue) /\ porttab[x[1]].queue[x[2]] = n}) = 1
    /\ \A i \in Live : \A n \in ToSet(porttab[i].queue) : ptmsg[n] = porttab[i].seq

\* A port never loses, invents or mixes up messages, across resets.
PortsSound == PortCounts /\ PortMessages
====
