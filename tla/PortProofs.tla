---------------------------- MODULE PortProofs -----------------------------
(***************************************************************************)
(* Ports keep their messages and their counts, across resets and           *)
(* deletions: proofs about Ports, for any number of ports, processes and   *)
(* nodes, and any bound on the sequence numbers.                           *)
(***************************************************************************)
EXTENDS Ports, ListLemmas

-----------------------------------------------------------------------------
(* The inductive invariant.                                                 *)

Semaphore == [count : Int, queue : Seq(PortUsers)]
Entry == [state : {"PT_FREE", "PT_LIMBO", "PT_ALLOC"}, seq : Nat, max : Nat, queue : Seq(Nodes),
          ssem : Semaphore, rsem : Semaphore]
Call == [at : {"idle", "send", "receive", "limbo", "cleared"}, port : PortIds, seq : Nat,
         new : {NULL, "PT_FREE", "PT_ALLOC"}]

PortTypes == /\ porttab \in [PortIds -> Entry] /\ ptnextid \in PortIds
             /\ ptfree \in Seq(Nodes) /\ ptmsg \in [Nodes -> Nat]
             /\ ptpc \in [PortUsers -> Call]

Waits(p) == ptpc[p].at \in {"send", "receive"}
Clears(p) == ptpc[p].at \in {"limbo", "cleared"}

\* A call knows a life of its port that has begun, and one that is over unless
\* the port is allocated.
LivesKnown == \A p \in PortUsers : Waits(p) =>
  LET e == porttab[ptpc[p].port] IN
  ptpc[p].seq <= e.seq /\ (e.state # "PT_ALLOC" => ptpc[p].seq # e.seq)

\* A port that is cleared is cleared by one process; a reset leaves it empty.
Emptied(e, at) == /\ e.queue = << >> /\ e.ssem = Sem(e.max)
                  /\ at = "cleared" => e.rsem = Sem(0)
OneClears ==
  /\ \A p, q \in PortUsers : Clears(p) /\ Clears(q) /\ ptpc[p].port = ptpc[q].port => p = q
  /\ \A p \in PortUsers : Clears(p) =>
       LET e == porttab[ptpc[p].port] IN
       /\ e.state = "PT_LIMBO" /\ ptpc[p].new \in {"PT_FREE", "PT_ALLOC"}
       /\ ptpc[p].new = "PT_ALLOC" => Emptied(e, ptpc[p].at)

\* Who waits on a semaphore of a live port is in the call that waits there, in
\* this life, and as many wait as the count says.
SemSound(s, G, n) ==
  /\ NoRepeats(s.queue) /\ Members(s.queue) \subseteq G
  /\ Len(s.queue) = IF s.count < 0 THEN - s.count ELSE 0
  /\ s.count = n - Cardinality(G)
EntrySound(e, S, R) ==
  /\ SemSound(e.ssem, S, e.max - Len(e.queue))
  /\ SemSound(e.rsem, R, Len(e.queue))
SemsInv == \A i \in Live : EntrySound(porttab[i], InLife(i, "send"), InLife(i, "receive"))

\* Every node is free or in the queue of one live port, once.
NodesInv ==
  /\ NoRepeats(ptfree)
  /\ \A i \in Live : /\ NoRepeats(porttab[i].queue)
                     /\ Members(porttab[i].queue) \cap Members(ptfree) = {}
                     /\ \A n \in Members(porttab[i].queue) : ptmsg[n] = porttab[i].seq
  /\ \A i, j \in Live : i # j => Members(porttab[i].queue) \cap Members(porttab[j].queue) = {}
  /\ Nodes = Members(ptfree) \cup UNION {Members(porttab[i].queue) : i \in Live}

PtInv == PortTypes /\ LivesKnown /\ OneClears /\ SemsInv /\ NodesInv

\* The fields of an entry.
LEMMA EntryType ==
  ASSUME NEW e \in Entry
  PROVE  /\ e.state \in {"PT_FREE", "PT_LIMBO", "PT_ALLOC"} /\ e.seq \in Nat /\ e.max \in Nat
         /\ e.queue \in Seq(Nodes) /\ e.ssem \in Semaphore /\ e.rsem \in Semaphore
         /\ Len(e.queue) \in Nat
  BY DEF Entry

\* The same for a semaphore.
LEMMA SemType ==
  ASSUME NEW s \in Semaphore
  PROVE  s.count \in Int /\ s.queue \in Seq(PortUsers) /\ Len(s.queue) \in Nat
  BY DEF Semaphore

\* A semaphore on which nobody waits.
LEMMA SemNew ==
  ASSUME NEW n \in Int
  PROVE  /\ Sem(n) \in Semaphore /\ Sem(n).count = n /\ Sem(n).queue = << >>
         /\ n >= 0 => SemSound(Sem(n), {}, n)
<1>1. Sem(n) \in Semaphore /\ Sem(n).count = n /\ Sem(n).queue = << >>
  BY DEF Sem, Semaphore
<1>2. NoRepeats(<< >>) /\ Members(<< >>) = {} /\ Len(<< >>) = 0
  BY DEF NoRepeats, Members
<1>3. Cardinality({}) = 0
  BY FS_EmptySet
<1>4. n >= 0 => SemSound(Sem(n), {}, n)
  BY <1>1, <1>2, <1>3 DEF SemSound
<1> QED
  BY <1>1, <1>4

\* A process begins to wait.
LEMMA SemWaits ==
  ASSUME NEW s \in Semaphore, NEW G, NEW n \in Int, SemSound(s, G, n), IsFiniteSet(G),
         NEW p \in PortUsers, p \notin G
  PROVE  SemWait(s, p) \in Semaphore /\ SemSound(SemWait(s, p), G \cup {p}, n)
<1>1. PICK k \in Int, q \in Seq(PortUsers) : k = s.count /\ q = s.queue
  BY SemType
<1>2. PICK r : r = IF k <= 0 THEN Append(q, p) ELSE q
  OBVIOUS
<1>3. SemWait(s, p) = [count |-> k - 1, queue |-> r]
  BY <1>1, <1>2 DEF SemWait
<1>4. /\ NoRepeats(q) /\ Members(q) \subseteq G /\ Len(q) \in Nat
      /\ Len(q) = IF k < 0 THEN - k ELSE 0
      /\ k = n - Cardinality(G)
  BY <1>1 DEF SemSound
<1>5. /\ Append(q, p) \in Seq(PortUsers) /\ NoRepeats(Append(q, p))
      /\ Members(Append(q, p)) = Members(q) \cup {p}
      /\ Len(Append(q, p)) = Len(q) + 1
  <2>1. p \notin Members(q)
    BY <1>4
  <2> QED
    BY <1>4, <2>1, AppendMembers
<1>6. /\ r \in Seq(PortUsers) /\ NoRepeats(r) /\ Members(r) \subseteq G \cup {p}
      /\ Len(r) = IF k - 1 < 0 THEN - (k - 1) ELSE 0
  BY <1>2, <1>4, <1>5
<1>7. k - 1 = n - Cardinality(G \cup {p})
  <2>1. Cardinality(G \cup {p}) = Cardinality(G) + 1 /\ Cardinality(G) \in Nat
    BY FS_AddElement, FS_CardinalityType
  <2> QED
    BY <1>4, <2>1
<1>8. PICK w : w = SemWait(s, p)
  OBVIOUS
<1>9. w \in Semaphore /\ w.count = k - 1 /\ w.queue = r
  BY <1>3, <1>6, <1>8 DEF Semaphore
<1> QED
  BY <1>6, <1>7, <1>8, <1>9 DEF SemSound

\* A process that is not in the queue leaves the call: there is something left
\* of what it waited for, because as many wait as the count says.
LEMMA SemLeaves ==
  ASSUME NEW s \in Semaphore, NEW G, NEW n \in Int, SemSound(s, G, n), IsFiniteSet(G),
         NEW p \in G, p \notin Members(s.queue)
  PROVE  n > 0 /\ SemSound(s, G \ {p}, n - 1)
<1>1. PICK k \in Int, q \in Seq(PortUsers) : k = s.count /\ q = s.queue
  BY SemType
<1>2. /\ NoRepeats(q) /\ Members(q) \subseteq G /\ Len(q) \in Nat
      /\ Len(q) = IF k < 0 THEN - k ELSE 0
      /\ k = n - Cardinality(G)
  BY <1>1 DEF SemSound
<1>3. /\ Cardinality(G \ {p}) = Cardinality(G) - 1 /\ Cardinality(G) \in Nat
      /\ IsFiniteSet(G \ {p})
  BY FS_RemoveElement, FS_CardinalityType
<1>4. Len(q) <= Cardinality(G) - 1
  <2>1. Members(q) \in SUBSET (G \ {p}) /\ Cardinality(Members(q)) = Len(q)
    BY <1>1, <1>2, ListCount
  <2>2. Cardinality(Members(q)) <= Cardinality(G \ {p})
    BY <1>3, <2>1, FS_Subset
  <2> QED
    BY <1>3, <2>1, <2>2
<1>5. n > 0
  BY <1>2, <1>3, <1>4
<1>6. k = n - 1 - Cardinality(G \ {p})
  BY <1>2, <1>3
<1> QED
  BY <1>1, <1>2, <1>5, <1>6 DEF SemSound

\* A signal wakes the first that waits.
LEMMA SemSignals ==
  ASSUME NEW s \in Semaphore, NEW G, NEW n \in Int, SemSound(s, G, n), IsFiniteSet(G)
  PROVE  SemSignal(s) \in Semaphore /\ SemSound(SemSignal(s), G, n + 1)
<1>1. PICK k \in Int, q \in Seq(PortUsers) : k = s.count /\ q = s.queue
  BY SemType
<1>2. PICK r : r = IF k < 0 THEN Tail(q) ELSE q
  OBVIOUS
<1>3. SemSignal(s) = [count |-> k + 1, queue |-> r]
  BY <1>1, <1>2 DEF SemSignal
<1>4. /\ NoRepeats(q) /\ Members(q) \subseteq G /\ Len(q) \in Nat
      /\ Len(q) = IF k < 0 THEN - k ELSE 0
      /\ k = n - Cardinality(G) /\ Cardinality(G) \in Nat
  BY <1>1, FS_CardinalityType DEF SemSound
<1>5. /\ r \in Seq(PortUsers) /\ NoRepeats(r) /\ Members(r) \subseteq G
      /\ Len(r) = IF k + 1 < 0 THEN - (k + 1) ELSE 0
  <2>1. CASE k < 0
    <3>1. q # << >>
      BY <1>4, <2>1
    <3>2. /\ Tail(q) \in Seq(PortUsers) /\ NoRepeats(Tail(q)) /\ Len(Tail(q)) = Len(q) - 1
          /\ Members(Tail(q)) \subseteq Members(q)
      BY <1>4, <3>1, TailMembers
    <3> QED
      BY <1>2, <1>4, <2>1, <3>2
  <2>2. CASE ~ (k < 0)
    BY <1>2, <1>4, <2>2
  <2> QED
    BY <2>1, <2>2
<1>6. PICK w : w = SemSignal(s)
  OBVIOUS
<1>7. w \in Semaphore /\ w.count = k + 1 /\ w.queue = r
  BY <1>3, <1>5, <1>6 DEF Semaphore
<1>8. w.count = (n + 1) - Cardinality(G)
  BY <1>4, <1>7
<1>9. Len(w.queue) = IF w.count < 0 THEN - w.count ELSE 0
  BY <1>5, <1>7
<1> QED
  BY <1>5, <1>6, <1>7, <1>8, <1>9 DEF SemSound

-----------------------------------------------------------------------------
(* A step changes the entry of one port and the call of one process.        *)

\* How the life of the port goes on.
Follows(e, f) ==
  \/ f.seq = e.seq + 1
  \/ f.seq = e.seq /\ (f.state = e.state \/ e.state # "PT_ALLOC")

\* p, which is busy with port i, has call c when the entry of i is f.
Busy(p, i, c, f) ==
  /\ c.at \in {"send", "receive"} => c.port = i /\ c.seq = f.seq /\ f.state = "PT_ALLOC"
  /\ c.at \in {"limbo", "cleared"} =>
       /\ c.port = i /\ f.state = "PT_LIMBO" /\ c.new \in {"PT_FREE", "PT_ALLOC"}
       /\ c.new = "PT_ALLOC" => Emptied(f, c.at)

Changes(p, i, c, f) ==
  /\ porttab' = [porttab EXCEPT ![i] = f] /\ ptpc' = [ptpc EXCEPT ![p] = c]
  /\ Follows(porttab[i], f)
  /\ Busy(p, i, c, f)
  /\ Waits(p) => ptpc[p].port = i \/ ~ SameLife(p)
  /\ \/ \A q \in PortUsers : Clears(q) /\ ptpc[q].port = i => q = p
     \/ f = porttab[i] /\ c.at \notin {"limbo", "cleared"}

\* What is left alone, and what is kept.
LEMMA ChangeSound ==
  ASSUME PtInv, NEW p \in PortUsers, NEW i \in PortIds, NEW c \in Call, NEW f \in Entry,
         Changes(p, i, c, f)
  PROVE  /\ porttab' \in [PortIds -> Entry] /\ ptpc' \in [PortUsers -> Call]
         /\ \A j \in PortIds : porttab'[j] = IF j = i THEN f ELSE porttab[j]
         /\ LivesKnown' /\ OneClears'
         /\ \A j \in PortIds : j # i /\ j \in Live =>
              InLife(j, "send")' = InLife(j, "send") /\ InLife(j, "receive")' = InLife(j, "receive")
         /\ i \in Live /\ f.seq = porttab[i].seq => \A at \in {"send", "receive"} :
              InLife(i, at)' = IF c.at = at THEN InLife(i, at) \cup {p} ELSE InLife(i, at) \ {p}
         /\ i \notin Live \/ f.seq # porttab[i].seq =>
              (c.at \notin {"send", "receive"} => InLife(i, "send")' = {} /\ InLife(i, "receive")' = {})
<1>1. /\ porttab \in [PortIds -> Entry] /\ ptpc \in [PortUsers -> Call]
      /\ LivesKnown /\ OneClears
  BY DEF PtInv, PortTypes
<1>2. /\ porttab' \in [PortIds -> Entry] /\ ptpc' \in [PortUsers -> Call]
      /\ \A j \in PortIds : porttab'[j] = IF j = i THEN f ELSE porttab[j]
      /\ \A q \in PortUsers : ptpc'[q] = IF q = p THEN c ELSE ptpc[q]
  BY <1>1 DEF Changes
<1>3. \A q \in PortUsers : /\ ptpc[q].port \in PortIds /\ ptpc[q].seq \in Nat
                           /\ ptpc'[q].port \in PortIds
  BY <1>1, <1>2 DEF Call
<1>4. \A j \in PortIds : porttab[j].seq \in Nat
  BY <1>1, EntryType
<1>5. f.seq \in Nat /\ f.seq >= porttab[i].seq
  BY <1>4, EntryType DEF Changes, Follows
<1>6. LivesKnown'
  <2> SUFFICES ASSUME NEW q \in PortUsers, Waits(q)'
               PROVE  /\ ptpc'[q].seq <= porttab'[ptpc'[q].port].seq
                      /\ porttab'[ptpc'[q].port].state # "PT_ALLOC" =>
                           ptpc'[q].seq # porttab'[ptpc'[q].port].seq
    BY DEF LivesKnown
  <2>1. CASE q = p
    <3>1. ptpc'[q] = c /\ c.at \in {"send", "receive"}
      BY <1>2, <2>1 DEF Waits
    <3>2. c.port = i /\ c.seq = f.seq /\ f.state = "PT_ALLOC"
      BY <3>1 DEF Changes, Busy
    <3> QED
      BY <1>2, <1>5, <3>1, <3>2
  <2>2. CASE q # p
    <3>1. ptpc'[q] = ptpc[q] /\ Waits(q)
      BY <1>2, <2>2 DEF Waits
    <3>2. PICK e : e = porttab[ptpc[q].port]
      OBVIOUS
    <3>3. ptpc[q].seq <= e.seq /\ (e.state # "PT_ALLOC" => ptpc[q].seq # e.seq)
      BY <1>1, <3>1, <3>2 DEF LivesKnown
    <3>4. CASE ptpc[q].port # i
      BY <1>2, <1>3, <3>1, <3>2, <3>3, <3>4
    <3>5. CASE ptpc[q].port = i
      <4>1. porttab'[ptpc'[q].port] = f /\ e = porttab[i]
        BY <1>2, <3>1, <3>2, <3>5
      <4>2. CASE f.seq = e.seq + 1
        BY <1>3, <1>4, <3>1, <3>3, <4>1, <4>2
      <4>3. CASE f.seq = e.seq /\ (f.state = e.state \/ e.state # "PT_ALLOC")
        BY <3>1, <3>3, <4>1, <4>3
      <4> QED
        BY <4>1, <4>2, <4>3 DEF Changes, Follows
    <3> QED
      BY <3>4, <3>5
  <2> QED
    BY <2>1, <2>2
<1>7. OneClears'
  <2>1. ASSUME NEW q \in PortUsers, q # p, Clears(q)'
        PROVE  /\ Clears(q) /\ ptpc'[q] = ptpc[q]
               /\ ptpc[q].port # i \/ (f = porttab[i] /\ c.at \notin {"limbo", "cleared"})
    BY <1>2, <2>1 DEF Clears, Changes
  <2>2. ASSUME Clears(p)'
        PROVE  /\ ptpc'[p] = c /\ c.port = i /\ f.state = "PT_LIMBO" /\ c.new \in {"PT_FREE", "PT_ALLOC"}
               /\ c.at \in {"limbo", "cleared"}
               /\ c.new = "PT_ALLOC" => Emptied(f, c.at)
    BY <1>2, <2>2 DEF Clears, Changes, Busy
  <2>3. ASSUME NEW q \in PortUsers, NEW r \in PortUsers, Clears(q)', Clears(r)', ptpc'[q].port = ptpc'[r].port
        PROVE  q = r
    BY <1>1, <2>1, <2>2, <2>3 DEF OneClears
  <2>4. ASSUME NEW q \in PortUsers, Clears(q)'
        PROVE  LET e == porttab'[ptpc'[q].port] IN
               /\ e.state = "PT_LIMBO" /\ ptpc'[q].new \in {"PT_FREE", "PT_ALLOC"}
               /\ ptpc'[q].new = "PT_ALLOC" => Emptied(e, ptpc'[q].at)
    <3>1. CASE q = p
      BY <1>2, <2>2, <2>4, <3>1
    <3>2. CASE q # p
      <4>1. Clears(q) /\ ptpc'[q] = ptpc[q] /\ porttab'[ptpc[q].port] = porttab[ptpc[q].port]
        BY <1>2, <1>3, <2>1, <2>4, <3>2
      <4> QED
        BY <1>1, <4>1 DEF OneClears
    <3> QED
      BY <3>1, <3>2
  <2> QED
    BY <2>3, <2>4 DEF OneClears, Emptied
<1>8. ASSUME NEW j \in PortIds, j # i, j \in Live, NEW at \in {"send", "receive"}
      PROVE  InLife(j, at)' = InLife(j, at)
  <2>1. porttab'[j] = porttab[j]
    BY <1>2, <1>8
  <2>2. ~ (c.at = at /\ c.port = j)
    BY <1>8 DEF Changes, Busy
  <2>3. p \notin InLife(j, at)
    BY <1>8 DEF InLife, Changes, Waits, SameLife, Port, Live
  <2> QED
    BY <1>2, <2>1, <2>2, <2>3 DEF InLife
<1>9. ASSUME i \in Live, f.seq = porttab[i].seq, NEW at \in {"send", "receive"}
      PROVE  InLife(i, at)' = IF c.at = at THEN InLife(i, at) \cup {p} ELSE InLife(i, at) \ {p}
  <2>1. porttab'[i] = f
    BY <1>2
  <2>2. c.at = at => c.port = i /\ c.seq = f.seq
    BY DEF Changes, Busy
  <2> QED
    BY <1>2, <1>9, <2>1, <2>2 DEF InLife
<1>10. ASSUME i \notin Live \/ f.seq # porttab[i].seq, c.at \notin {"send", "receive"},
              NEW at \in {"send", "receive"}
       PROVE  InLife(i, at)' = {}
  <2> SUFFICES ASSUME NEW q \in InLife(i, at)' PROVE FALSE
    OBVIOUS
  <2>1. q \in PortUsers /\ ptpc'[q].at = at /\ ptpc'[q].port = i /\ ptpc'[q].seq = f.seq
    BY <1>2 DEF InLife
  <2>2. q # p /\ ptpc'[q] = ptpc[q]
    BY <1>2, <1>10, <2>1
  <2>3. Waits(q) /\ ptpc[q].port = i /\ ptpc[q].seq = f.seq
    BY <2>1, <2>2 DEF Waits
  <2>4. f.seq <= porttab[i].seq /\ (porttab[i].state # "PT_ALLOC" => f.seq # porttab[i].seq)
    BY <1>1, <2>1, <2>3 DEF LivesKnown
  <2>5. f.seq = porttab[i].seq
    BY <1>4, <1>5, <2>4
  <2> QED
    BY <1>10, <2>4, <2>5 DEF Live
<1> QED
  BY <1>2, <1>6, <1>7, <1>8, <1>9, <1>10

\* The semaphores, if those of the port that changes are right.
LEMMA SemsKept ==
  ASSUME PtInv, NEW p \in PortUsers, NEW i \in PortIds, NEW c \in Call, NEW f \in Entry,
         Changes(p, i, c, f),
         f.state = "PT_ALLOC" => EntrySound(f, InLife(i, "send")', InLife(i, "receive")')
  PROVE  SemsInv'
<1> SUFFICES ASSUME NEW j \in Live'
             PROVE  EntrySound(porttab'[j], InLife(j, "send")', InLife(j, "receive")')
  BY DEF SemsInv, EntrySound, SemSound
<1>1. j \in PortIds /\ porttab'[j].state = "PT_ALLOC"
      /\ porttab'[j] = IF j = i THEN f ELSE porttab[j]
  BY ChangeSound DEF Live, PortIds
<1>2. CASE j = i
  BY <1>1, <1>2
<1>3. CASE j # i
  <2>1. j \in Live /\ porttab'[j] = porttab[j]
    BY <1>1, <1>3 DEF Live
  <2>2. InLife(j, "send")' = InLife(j, "send") /\ InLife(j, "receive")' = InLife(j, "receive")
    BY <1>1, <1>3, <2>1, ChangeSound
  <2> QED
    BY <2>1, <2>2 DEF PtInv, SemsInv
<1> QED
  BY <1>2, <1>3

\* A set of processes is finite.
LEMMA InLifeFinite == ASSUME NEW i, NEW at PROVE IsFiniteSet(InLife(i, at))
<1>1. InLife(i, at) \in SUBSET PortUsers /\ IsFiniteSet(PortUsers)
  BY PortAssumption DEF InLife
<1> QED
  BY <1>1, FS_Subset

\* The nodes, when no queue of a live port changes.
LEMMA NodesKept ==
  ASSUME NodesInv, UNCHANGED <<ptfree, ptmsg>>, Live' = Live,
         \A j \in Live : porttab'[j].queue = porttab[j].queue /\ porttab'[j].seq = porttab[j].seq
  PROVE  NodesInv'
BY DEF NodesInv

\* The semaphores of the port and the calls there, as long as the port is live.
LEMMA LivePort ==
  ASSUME PtInv, NEW i \in Live
  PROVE  /\ i \in PortIds /\ porttab[i] \in Entry /\ porttab[i].state = "PT_ALLOC"
         /\ EntrySound(porttab[i], InLife(i, "send"), InLife(i, "receive"))
         /\ \A q \in PortUsers : Clears(q) => ptpc[q].port # i
<1>1. i \in PortIds /\ porttab[i].state = "PT_ALLOC" /\ porttab[i] \in Entry
  BY DEF Live, PtInv, PortTypes
<1> QED
  BY <1>1 DEF PtInv, SemsInv, OneClears

\* A process outside the calls.
LEMMA IdleCall == PtIdle \in Call /\ PtIdle.at = "idle"
BY PortAssumption DEF PtIdle, Call, PortIds

\* ptcreate
LEMMA CreateKeeps ==
  ASSUME PtInv, NEW p \in PortUsers, NEW count \in Counts, ptcreate(p, count)
  PROVE  PtInv'
<1>1. PICK k \in PortIds : LET i == (ptnextid + k) % NPORTS IN
          /\ porttab[i].state = "PT_FREE"
          /\ porttab' = [porttab EXCEPT ![i] = Created(@, count)]
          /\ ptnextid' = (i + 1) % NPORTS
  BY DEF ptcreate
<1>2. PICK i : i = (ptnextid + k) % NPORTS
  OBVIOUS
<1>3. NPORTS \in Nat \ {0} /\ ptnextid \in PortIds /\ count \in Nat /\ count \in Int /\ count >= 0
  BY PortAssumption DEF PtInv, PortTypes
<1>4. i \in PortIds /\ (i + 1) % NPORTS \in PortIds
  <2>1. ptnextid + k \in Nat
    BY <1>3 DEF PortIds
  <2>2. i \in 0 .. NPORTS - 1
    BY <1>2, <1>3, <2>1
  <2>3. i + 1 \in Nat
    BY <2>2
  <2>4. (i + 1) % NPORTS \in 0 .. NPORTS - 1
    BY <1>3, <2>3
  <2> QED
    BY <2>2, <2>4 DEF PortIds
<1>5. PICK e \in Entry : e = porttab[i]
  BY <1>4 DEF PtInv, PortTypes
<1>6. PICK f : f = Created(e, count)
  OBVIOUS
<1>7. /\ f \in Entry /\ f.state = "PT_ALLOC" /\ f.seq = e.seq + 1 /\ f.max = count
      /\ f.queue = << >> /\ f.ssem = Sem(count) /\ f.rsem = Sem(0)
  <2>1. e.seq + 1 \in Nat /\ Sem(count) \in Semaphore /\ Sem(0) \in Semaphore
    BY <1>3, EntryType, SemNew
  <2>2. f = [state |-> "PT_ALLOC", seq |-> e.seq + 1, max |-> count, queue |-> << >>,
             ssem |-> Sem(count), rsem |-> Sem(0)]
    BY <1>6 DEF Created, Entry
  <2> QED
    BY <1>3, <2>1, <2>2 DEF Entry
<1>8. e.state = "PT_FREE" /\ porttab' = [porttab EXCEPT ![i] = f] /\ ptnextid' = (i + 1) % NPORTS
      /\ UNCHANGED <<ptfree, ptmsg, ptpc>> /\ ptpc[p].at = "idle"
  BY <1>1, <1>2, <1>5, <1>6 DEF ptcreate, PtAt
<1>9. PICK c \in Call : c = ptpc[p]
  BY DEF PtInv, PortTypes
<1>10. Changes(p, i, c, f)
  <2>1. ptpc' = [ptpc EXCEPT ![p] = c]
    BY <1>8, <1>9 DEF PtInv, PortTypes
  <2>2. \A q \in PortUsers : ~ (Clears(q) /\ ptpc[q].port = i)
    BY <1>5, <1>8 DEF PtInv, OneClears
  <2> QED
    BY <1>5, <1>7, <1>8, <1>9, <2>1, <2>2 DEF Changes, Follows, Busy, Waits
<1>11. InLife(i, "send")' = {} /\ InLife(i, "receive")' = {}
  BY <1>4, <1>5, <1>7, <1>8, <1>9, <1>10, ChangeSound DEF Live
<1>12. EntrySound(f, {}, {})
  <2>1. Len(f.queue) = 0 /\ f.max - 0 = count
    BY <1>3, <1>7
  <2>2. SemSound(Sem(count), {}, count) /\ SemSound(Sem(0), {}, 0)
    BY <1>3, SemNew
  <2> QED
    BY <1>7, <2>1, <2>2 DEF EntrySound
<1>13. SemsInv'
  BY <1>4, <1>7, <1>10, <1>11, <1>12, SemsKept
<1>14. /\ porttab' \in [PortIds -> Entry] /\ ptpc' \in [PortUsers -> Call]
       /\ \A j \in PortIds : porttab'[j] = IF j = i THEN f ELSE porttab[j]
       /\ LivesKnown' /\ OneClears'
  BY <1>4, <1>7, <1>10, ChangeSound
<1>15. PortTypes'
  BY <1>4, <1>8, <1>14 DEF PtInv, PortTypes
<1>16. Live' = Live \cup {i} /\ i \notin Live
  BY <1>4, <1>5, <1>7, <1>8, <1>14 DEF Live, PortIds
<1>17. NodesInv'
  <2>1. Members(porttab'[i].queue) = {} /\ NoRepeats(porttab'[i].queue)
    <3>1. porttab'[i].queue = << >>
      BY <1>4, <1>7, <1>14
    <3> QED
      BY <3>1 DEF Members, NoRepeats
  <2>2. \A j \in Live : porttab'[j] = porttab[j]
    BY <1>14, <1>16 DEF Live
  <2> QED
    BY <1>8, <1>16, <2>1, <2>2 DEF PtInv, NodesInv
<1> QED
  BY <1>13, <1>14, <1>15, <1>17 DEF PtInv

\* ptsend and ptrecv, until they have waited.
LEMMA CallKeeps ==
  ASSUME PtInv, NEW p \in PortUsers, NEW i \in PortIds, ptsend(p, i) \/ ptrecv(p, i)
  PROVE  PtInv'
<1>1. i \in Live /\ ptpc[p].at = "idle" /\ UNCHANGED <<ptnextid, ptfree, ptmsg>>
  BY DEF ptsend, ptrecv, Calls, Live, PtAt
<1>2. PICK e \in Entry : e = porttab[i]
  BY <1>1, LivePort
<1>3. /\ e.state = "PT_ALLOC" /\ EntrySound(e, InLife(i, "send"), InLife(i, "receive"))
      /\ e.ssem \in Semaphore /\ e.rsem \in Semaphore /\ e.seq \in Nat
      /\ e.max - Len(e.queue) \in Int /\ Len(e.queue) \in Int
  BY <1>1, <1>2, LivePort, EntryType
<1>4. PICK at : at = IF ptsend(p, i) THEN "send" ELSE "receive"
  OBVIOUS
<1>5. PICK f : f = IF ptsend(p, i) THEN [e EXCEPT !.ssem = SemWait(@, p)] ELSE [e EXCEPT !.rsem = SemWait(@, p)]
  OBVIOUS
<1>6. PICK c : c = [PtIdle EXCEPT !.at = at, !.port = i, !.seq = e.seq]
  OBVIOUS
<1>7. c \in Call /\ c.at = at /\ c.port = i /\ c.seq = e.seq /\ at \in {"send", "receive"}
  BY <1>3, <1>4, <1>6, IdleCall DEF Call
<1>8. porttab' = [porttab EXCEPT ![i] = f] /\ ptpc' = [ptpc EXCEPT ![p] = c]
  <2>1. CASE ptsend(p, i)
    BY <1>2, <1>4, <1>5, <1>6, <2>1 DEF ptsend, Calls, PtInv, PortTypes
  <2>2. CASE ~ ptsend(p, i)
    BY <1>2, <1>4, <1>5, <1>6, <2>2 DEF ptrecv, Calls, PtInv, PortTypes
  <2> QED
    BY <2>1, <2>2
<1>9. \A x \in {"send", "receive"} : p \notin InLife(i, x) /\ IsFiniteSet(InLife(i, x))
  BY <1>1, InLifeFinite DEF InLife
<1>10. /\ SemWait(e.ssem, p) \in Semaphore /\ SemWait(e.rsem, p) \in Semaphore
       /\ SemSound(SemWait(e.ssem, p), InLife(i, "send") \cup {p}, e.max - Len(e.queue))
       /\ SemSound(SemWait(e.rsem, p), InLife(i, "receive") \cup {p}, Len(e.queue))
  BY <1>3, <1>9, SemWaits DEF EntrySound
<1>11. /\ f \in Entry /\ f.state = e.state /\ f.seq = e.seq /\ f.max = e.max /\ f.queue = e.queue
       /\ at = "send" => f.ssem = SemWait(e.ssem, p) /\ f.rsem = e.rsem
       /\ at = "receive" => f.rsem = SemWait(e.rsem, p) /\ f.ssem = e.ssem
  <2>1. CASE ptsend(p, i)
    <3>1. f = [e EXCEPT !.ssem = SemWait(@, p)] /\ at = "send"
      BY <1>4, <1>5, <2>1
    <3> QED
      BY <1>10, <3>1 DEF Entry
  <2>2. CASE ~ ptsend(p, i)
    <3>1. f = [e EXCEPT !.rsem = SemWait(@, p)] /\ at = "receive"
      BY <1>4, <1>5, <2>2
    <3> QED
      BY <1>10, <3>1 DEF Entry
  <2> QED
    BY <2>1, <2>2
<1>12. Changes(p, i, c, f)
  BY <1>1, <1>2, <1>3, <1>7, <1>8, <1>11, LivePort DEF Changes, Follows, Busy, Waits
<1>13. \A x \in {"send", "receive"} :
         InLife(i, x)' = IF x = at THEN InLife(i, x) \cup {p} ELSE InLife(i, x) \ {p}
  BY <1>1, <1>2, <1>7, <1>11, <1>12, ChangeSound
<1>14. \A x \in {"send", "receive"} : InLife(i, x) \ {p} = InLife(i, x)
  BY <1>9
<1>15. EntrySound(f, InLife(i, "send")', InLife(i, "receive")')
  BY <1>3, <1>7, <1>10, <1>11, <1>13, <1>14 DEF EntrySound
<1>16. SemsInv'
  BY <1>7, <1>11, <1>12, <1>15, SemsKept
<1>17. /\ porttab' \in [PortIds -> Entry] /\ ptpc' \in [PortUsers -> Call]
       /\ \A j \in PortIds : porttab'[j] = IF j = i THEN f ELSE porttab[j]
       /\ LivesKnown' /\ OneClears'
  BY <1>7, <1>11, <1>12, ChangeSound
<1>18. PortTypes'
  BY <1>1, <1>17 DEF PtInv, PortTypes
<1>19. Live' = Live
  BY <1>2, <1>11, <1>17 DEF Live, PortIds
<1>20. NodesInv'
  BY <1>1, <1>2, <1>11, <1>17, <1>19, NodesKept DEF PtInv, Live
<1> QED
  BY <1>16, <1>17, <1>18, <1>20 DEF PtInv

\* ptsend and ptrecv fail when the port has been cleared meanwhile.
LEMMA RefusedKeeps ==
  ASSUME PtInv, NEW p \in PortUsers, Refused(p)
  PROVE  PtInv'
<1>1. /\ ptpc[p].at \in {"send", "receive"} /\ ~ SameLife(p) /\ ptpc' = [ptpc EXCEPT ![p] = PtIdle]
      /\ UNCHANGED <<porttab, ptnextid, ptfree, ptmsg>>
  BY DEF Refused, PtAt, PtReturns
<1>2. PICK i \in PortIds : i = ptpc[p].port
  BY DEF PtInv, PortTypes, Call
<1>3. PICK f \in Entry : f = porttab[i]
  BY DEF PtInv, PortTypes
<1>4. Changes(p, i, PtIdle, f)
  <2>1. porttab' = [porttab EXCEPT ![i] = f]
    BY <1>1, <1>3 DEF PtInv, PortTypes
  <2> QED
    BY <1>1, <1>2, <1>3, <2>1, IdleCall DEF Changes, Follows, Busy
<1>5. /\ porttab' \in [PortIds -> Entry] /\ ptpc' \in [PortUsers -> Call]
      /\ LivesKnown' /\ OneClears'
  BY <1>4, ChangeSound, IdleCall
<1>6. f.state = "PT_ALLOC" => EntrySound(f, InLife(i, "send")', InLife(i, "receive")')
  <2> SUFFICES ASSUME f.state = "PT_ALLOC"
               PROVE  EntrySound(f, InLife(i, "send")', InLife(i, "receive")')
    OBVIOUS
  <2>1. i \in Live /\ \A at \in {"send", "receive"} : p \notin InLife(i, at)
    BY <1>1, <1>2, <1>3 DEF Live, InLife, SameLife, Port
  <2>2. \A at \in {"send", "receive"} : InLife(i, at)' = InLife(i, at) \ {p}
    BY <1>3, <1>4, <2>1, ChangeSound, IdleCall
  <2>3. \A at \in {"send", "receive"} : InLife(i, at)' = InLife(i, at)
    BY <2>1, <2>2
  <2> QED
    BY <1>3, <2>1, <2>3, LivePort
<1>7. SemsInv'
  BY <1>4, <1>6, SemsKept, IdleCall
<1>8. PortTypes'
  BY <1>1, <1>5 DEF PtInv, PortTypes
<1>9. NodesInv'
  BY <1>1, NodesKept DEF PtInv, Live
<1> QED
  BY <1>5, <1>7, <1>8, <1>9 DEF PtInv

\* Who has waited is in its call in this life of the port, and not in a queue.
LEMMA Awake ==
  ASSUME PtInv, NEW p \in PortUsers, NEW at \in {"send", "receive"}, PtAt(p, at), SameLife(p)
  PROVE  \E i \in Live :
           /\ i = ptpc[p].port /\ ptpc[p].seq = porttab[i].seq
           /\ p \in InLife(i, at) /\ \A x \in {"send", "receive"} : x # at => p \notin InLife(i, x)
           /\ p \notin Members(porttab[i].ssem.queue) /\ p \notin Members(porttab[i].rsem.queue)
<1>1. PICK i \in PortIds : i = ptpc[p].port
  BY DEF PtInv, PortTypes, Call
<1>2. i \in Live /\ ptpc[p].at = at /\ ptpc[p].seq = porttab[i].seq
  BY <1>1 DEF PtAt, SameLife, Port, Live
<1>3. p \in InLife(i, at) /\ \A x \in {"send", "receive"} : x # at => p \notin InLife(i, x)
  BY <1>1, <1>2 DEF InLife
<1>4. PICK e \in Entry : e = porttab[i]
  BY DEF PtInv, PortTypes
<1>5. ToSet(e.ssem.queue) = Members(e.ssem.queue) /\ ToSet(e.rsem.queue) = Members(e.rsem.queue)
  BY EntryType, SemType DEF ToSet, Members
<1>6. p \notin ToSet(e.ssem.queue) /\ p \notin ToSet(e.rsem.queue)
  BY <1>4 DEF PtAt, Sleeps
<1> QED
  BY <1>1, <1>2, <1>3, <1>4, <1>5, <1>6

\* ptsend, when the port is still the same.
LEMMA SendKeeps ==
  ASSUME PtInv, NEW p \in PortUsers, SendEnds(p)
  PROVE  PtInv'
<1>1. PICK i \in Live :
           /\ i = ptpc[p].port /\ ptpc[p].seq = porttab[i].seq
           /\ p \in InLife(i, "send") /\ p \notin InLife(i, "receive")
           /\ p \notin Members(porttab[i].ssem.queue)
  BY Awake DEF SendEnds
<1>2. PICK e \in Entry : e = porttab[i]
  BY LivePort
<1>3. /\ e.state = "PT_ALLOC" /\ EntrySound(e, InLife(i, "send"), InLife(i, "receive"))
      /\ e.ssem \in Semaphore /\ e.rsem \in Semaphore /\ e.seq \in Nat /\ e.max \in Nat
      /\ e.queue \in Seq(Nodes) /\ Len(e.queue) \in Int /\ e.max - Len(e.queue) \in Int
      /\ IsFiniteSet(InLife(i, "send")) /\ IsFiniteSet(InLife(i, "receive"))
  BY <1>2, LivePort, EntryType, InLifeFinite
<1>4. PICK h : h = Head(ptfree)
  OBVIOUS
<1>5. /\ Tail(ptfree) \in Seq(Nodes) /\ NoRepeats(Tail(ptfree))
      /\ Members(Tail(ptfree)) = Members(ptfree) \ {h} /\ h \in Members(ptfree) /\ h \in Nodes
  <2>1. ptfree \in Seq(Nodes) /\ ptfree # << >> /\ NoRepeats(ptfree)
    BY DEF SendEnds, PtInv, PortTypes, NodesInv
  <2>2. Members(ptfree) \subseteq Nodes
    BY <2>1 DEF Members
  <2> QED
    BY <1>4, <2>1, <2>2, TailMembers
<1>6. h \notin Members(e.queue)
  BY <1>2, <1>5 DEF PtInv, NodesInv
<1>7. /\ Append(e.queue, h) \in Seq(Nodes) /\ NoRepeats(Append(e.queue, h))
      /\ Members(Append(e.queue, h)) = Members(e.queue) \cup {h}
      /\ Len(Append(e.queue, h)) = Len(e.queue) + 1
  <2>1. NoRepeats(e.queue)
    BY <1>2 DEF PtInv, NodesInv
  <2> QED
    BY <1>3, <1>5, <1>6, <2>1, AppendMembers
<1>8. /\ SemSound(e.ssem, InLife(i, "send") \ {p}, (e.max - Len(e.queue)) - 1)
      /\ SemSignal(e.rsem) \in Semaphore
      /\ SemSound(SemSignal(e.rsem), InLife(i, "receive"), Len(e.queue) + 1)
  BY <1>1, <1>2, <1>3, SemLeaves, SemSignals DEF EntrySound
<1>9. PICK f : f = [e EXCEPT !.queue = Append(@, h), !.rsem = SemSignal(@)]
  OBVIOUS
<1>10. /\ f \in Entry /\ f.state = e.state /\ f.seq = e.seq /\ f.max = e.max
       /\ f.queue = Append(e.queue, h) /\ f.rsem = SemSignal(e.rsem) /\ f.ssem = e.ssem
  BY <1>7, <1>8, <1>9 DEF Entry
<1>11. /\ porttab' = [porttab EXCEPT ![i] = f] /\ ptpc' = [ptpc EXCEPT ![p] = PtIdle]
       /\ ptfree' = Tail(ptfree) /\ ptmsg' = [ptmsg EXCEPT ![h] = e.seq] /\ ptnextid' = ptnextid
  <2>1. porttab' = [porttab EXCEPT ![i].queue = Append(@, h), ![i].rsem = SemSignal(@)]
    BY <1>1, <1>4 DEF SendEnds
  <2>2. porttab' = [porttab EXCEPT ![i] = f]
    BY <1>2, <1>9, <2>1 DEF PtInv, PortTypes
  <2> QED
    BY <1>1, <1>2, <1>4, <2>2 DEF SendEnds, PtReturns
<1>12. Changes(p, i, PtIdle, f)
  BY <1>1, <1>2, <1>3, <1>10, <1>11, LivePort, IdleCall DEF Changes, Follows, Busy
<1>13. InLife(i, "send")' = InLife(i, "send") \ {p} /\ InLife(i, "receive")' = InLife(i, "receive")
  <2>1. i \in PortIds
    BY DEF Live
  <2>2. \A x \in {"send", "receive"} : InLife(i, x)' = InLife(i, x) \ {p}
    BY <1>2, <1>10, <1>12, <2>1, ChangeSound, IdleCall
  <2> QED
    BY <1>1, <2>2
<1>14. EntrySound(f, InLife(i, "send")', InLife(i, "receive")')
  <2>1. f.max - Len(f.queue) = (e.max - Len(e.queue)) - 1
    BY <1>3, <1>7, <1>10
  <2> QED
    BY <1>7, <1>8, <1>10, <1>13, <2>1 DEF EntrySound
<1>15. SemsInv'
  BY <1>10, <1>12, <1>14, SemsKept, IdleCall DEF Live
<1>16. /\ porttab' \in [PortIds -> Entry] /\ ptpc' \in [PortUsers -> Call]
       /\ \A j \in PortIds : porttab'[j] = IF j = i THEN f ELSE porttab[j]
       /\ LivesKnown' /\ OneClears'
  BY <1>10, <1>12, ChangeSound, IdleCall DEF Live
<1>17. PortTypes'
  BY <1>3, <1>5, <1>11, <1>16 DEF PtInv, PortTypes
<1>18. Live' = Live
  BY <1>2, <1>10, <1>16 DEF Live, PortIds
<1>19. NodesInv'
  <2>1. \A j \in Live : j # i => porttab'[j] = porttab[j] /\ h \notin Members(porttab[j].queue)
    BY <1>5, <1>16 DEF PtInv, NodesInv, Live
  <2>2. porttab'[i].queue = Append(e.queue, h) /\ porttab'[i].seq = e.seq
    BY <1>10, <1>16 DEF Live
  <2>3. \A n \in Nodes : ptmsg'[n] = IF n = h THEN e.seq ELSE ptmsg[n]
    BY <1>11 DEF PtInv, PortTypes
  <2>4. \A j \in Live : /\ NoRepeats(porttab'[j].queue)
                        /\ Members(porttab'[j].queue) =
                             IF j = i THEN Members(e.queue) \cup {h} ELSE Members(porttab[j].queue)
    BY <1>7, <2>1, <2>2 DEF PtInv, NodesInv
  <2>5. \A j \in Live : Members(porttab[j].queue) \subseteq Nodes
    BY DEF PtInv, NodesInv
  <2>6. ASSUME NEW j \in Live, NEW n \in Members(porttab'[j].queue)
        PROVE  ptmsg'[n] = porttab'[j].seq
    <3>1. CASE j = i
      <4>1. n = h \/ (n \in Members(e.queue) /\ n # h /\ n \in Nodes)
        BY <1>2, <1>6, <2>4, <2>5, <3>1
      <4> QED
        BY <1>2, <1>5, <2>2, <2>3, <3>1, <4>1 DEF PtInv, NodesInv
    <3>2. CASE j # i
      <4>1. n \in Members(porttab[j].queue) /\ n # h /\ n \in Nodes
        BY <2>1, <2>4, <2>5, <3>2
      <4> QED
        BY <2>1, <2>3, <3>2, <4>1 DEF PtInv, NodesInv
    <3> QED
      BY <3>1, <3>2
  <2>7. Nodes = (Members(ptfree) \ {h}) \cup UNION {Members(porttab'[j].queue) : j \in Live}
    <3>1. Nodes = Members(ptfree) \cup UNION {Members(porttab[j].queue) : j \in Live}
      BY DEF PtInv, NodesInv
    <3> QED
      BY <1>2, <1>5, <2>4, <3>1
  <2>8. \A j \in Live : Members(porttab'[j].queue) \cap (Members(ptfree) \ {h}) = {}
    BY <1>2, <2>4 DEF PtInv, NodesInv
  <2>9. \A j, k \in Live : j # k => Members(porttab'[j].queue) \cap Members(porttab'[k].queue) = {}
    BY <1>2, <2>1, <2>4 DEF PtInv, NodesInv
  <2> QED
    BY <1>5, <1>11, <1>18, <2>4, <2>6, <2>7, <2>8, <2>9 DEF NodesInv
<1> QED
  BY <1>15, <1>16, <1>17, <1>19 DEF PtInv

\* ptrecv, when the port is still the same: there is a message.
LEMMA ReceiveKeeps ==
  ASSUME PtInv, NEW p \in PortUsers, RecvEnds(p)
  PROVE  PtInv' /\ Port(p).queue # << >>
<1>1. PICK i \in Live :
           /\ i = ptpc[p].port /\ ptpc[p].seq = porttab[i].seq
           /\ p \in InLife(i, "receive") /\ p \notin InLife(i, "send")
           /\ p \notin Members(porttab[i].rsem.queue)
  BY Awake DEF RecvEnds
<1>2. PICK e \in Entry : e = porttab[i]
  BY LivePort
<1>3. /\ e.state = "PT_ALLOC" /\ EntrySound(e, InLife(i, "send"), InLife(i, "receive"))
      /\ e.ssem \in Semaphore /\ e.rsem \in Semaphore /\ e.seq \in Nat /\ e.max \in Nat
      /\ e.queue \in Seq(Nodes) /\ Len(e.queue) \in Int /\ e.max - Len(e.queue) \in Int
      /\ IsFiniteSet(InLife(i, "send")) /\ IsFiniteSet(InLife(i, "receive"))
  BY <1>2, LivePort, EntryType, InLifeFinite
<1>4. /\ Len(e.queue) > 0
      /\ SemSound(e.rsem, InLife(i, "receive") \ {p}, Len(e.queue) - 1)
      /\ SemSignal(e.ssem) \in Semaphore
      /\ SemSound(SemSignal(e.ssem), InLife(i, "send"), (e.max - Len(e.queue)) + 1)
  BY <1>1, <1>2, <1>3, SemLeaves, SemSignals DEF EntrySound
<1>5. PICK h : h = Head(e.queue)
  OBVIOUS
<1>6. /\ Tail(e.queue) \in Seq(Nodes) /\ NoRepeats(Tail(e.queue)) /\ Len(Tail(e.queue)) = Len(e.queue) - 1
      /\ Members(Tail(e.queue)) = Members(e.queue) \ {h} /\ h \in Members(e.queue) /\ h \in Nodes
      /\ e.queue # << >>
  <2>1. e.queue # << >> /\ NoRepeats(e.queue)
    BY <1>2, <1>4 DEF PtInv, NodesInv
  <2>2. Members(e.queue) \subseteq Nodes
    BY <1>3 DEF Members
  <2> QED
    BY <1>3, <1>5, <2>1, <2>2, TailMembers
<1>7. /\ <<h>> \o ptfree \in Seq(Nodes) /\ NoRepeats(<<h>> \o ptfree)
      /\ Members(<<h>> \o ptfree) = Members(ptfree) \cup {h}
  <2>1. ptfree \in Seq(Nodes) /\ NoRepeats(ptfree) /\ h \notin Members(ptfree)
    BY <1>2, <1>6 DEF PtInv, PortTypes, NodesInv
  <2> QED
    BY <1>6, <2>1, ConsMembers
<1>9. PICK f : f = [e EXCEPT !.queue = Tail(@), !.ssem = SemSignal(@)]
  OBVIOUS
<1>10. /\ f \in Entry /\ f.state = e.state /\ f.seq = e.seq /\ f.max = e.max
       /\ f.queue = Tail(e.queue) /\ f.ssem = SemSignal(e.ssem) /\ f.rsem = e.rsem
  BY <1>4, <1>6, <1>9 DEF Entry
<1>11. /\ porttab' = [porttab EXCEPT ![i] = f] /\ ptpc' = [ptpc EXCEPT ![p] = PtIdle]
       /\ ptfree' = <<h>> \o ptfree /\ ptmsg' = ptmsg /\ ptnextid' = ptnextid
       /\ Port(p).queue = e.queue
  <2>1. porttab' = [porttab EXCEPT ![i].queue = Tail(@), ![i].ssem = SemSignal(@)]
    BY <1>1 DEF RecvEnds
  <2>2. porttab' = [porttab EXCEPT ![i] = f]
    BY <1>2, <1>9, <2>1 DEF PtInv, PortTypes
  <2>3. Port(p).queue = e.queue
    BY <1>1, <1>2 DEF Port
  <2> QED
    BY <1>5, <2>2, <2>3 DEF RecvEnds, PtReturns
<1>12. Changes(p, i, PtIdle, f)
  BY <1>1, <1>2, <1>3, <1>10, <1>11, LivePort, IdleCall DEF Changes, Follows, Busy
<1>13. InLife(i, "receive")' = InLife(i, "receive") \ {p} /\ InLife(i, "send")' = InLife(i, "send")
  <2>1. i \in PortIds
    BY DEF Live
  <2>2. \A x \in {"send", "receive"} : InLife(i, x)' = InLife(i, x) \ {p}
    BY <1>2, <1>10, <1>12, <2>1, ChangeSound, IdleCall
  <2> QED
    BY <1>1, <2>2
<1>14. EntrySound(f, InLife(i, "send")', InLife(i, "receive")')
  <2>1. f.max - Len(f.queue) = (e.max - Len(e.queue)) + 1
    BY <1>3, <1>6, <1>10
  <2> QED
    BY <1>4, <1>6, <1>10, <1>13, <2>1 DEF EntrySound
<1>15. SemsInv'
  BY <1>10, <1>12, <1>14, SemsKept, IdleCall DEF Live
<1>16. /\ porttab' \in [PortIds -> Entry] /\ ptpc' \in [PortUsers -> Call]
       /\ \A j \in PortIds : porttab'[j] = IF j = i THEN f ELSE porttab[j]
       /\ LivesKnown' /\ OneClears'
  BY <1>10, <1>12, ChangeSound, IdleCall DEF Live
<1>17. PortTypes'
  BY <1>3, <1>7, <1>11, <1>16 DEF PtInv, PortTypes
<1>18. Live' = Live
  BY <1>2, <1>10, <1>16 DEF Live, PortIds
<1>19. NodesInv'
  <2>1. \A j \in Live : j # i => porttab'[j] = porttab[j] /\ h \notin Members(porttab[j].queue)
    BY <1>2, <1>6, <1>16 DEF PtInv, NodesInv, Live
  <2>2. porttab'[i].queue = Tail(e.queue) /\ porttab'[i].seq = e.seq
    BY <1>10, <1>16 DEF Live
  <2>3. \A j \in Live : /\ NoRepeats(porttab'[j].queue)
                        /\ Members(porttab'[j].queue) = Members(porttab[j].queue) \ {h}
    BY <1>2, <1>6, <2>1, <2>2 DEF PtInv, NodesInv
  <2>4. \A j \in Live : \A n \in Members(porttab'[j].queue) : ptmsg[n] = porttab'[j].seq
    BY <1>2, <2>1, <2>2, <2>3 DEF PtInv, NodesInv
  <2>5. Nodes = (Members(ptfree) \cup {h}) \cup UNION {Members(porttab'[j].queue) : j \in Live}
    <3>1. Nodes = Members(ptfree) \cup UNION {Members(porttab[j].queue) : j \in Live}
      BY DEF PtInv, NodesInv
    <3>2. \A n : n \in UNION {Members(porttab'[j].queue) : j \in Live} <=>
               n # h /\ n \in UNION {Members(porttab[j].queue) : j \in Live}
      BY <2>3
    <3>3. h \in UNION {Members(porttab[j].queue) : j \in Live}
      BY <1>2, <1>6
    <3> QED
      BY <3>1, <3>2, <3>3
  <2>6. \A j \in Live : Members(porttab'[j].queue) \cap (Members(ptfree) \cup {h}) = {}
    BY <2>3 DEF PtInv, NodesInv
  <2>7. \A j, k \in Live : j # k => Members(porttab'[j].queue) \cap Members(porttab'[k].queue) = {}
    BY <2>3 DEF PtInv, NodesInv
  <2> QED
    BY <1>7, <1>11, <1>18, <2>3, <2>4, <2>5, <2>6, <2>7 DEF NodesInv
<1> QED
  BY <1>6, <1>11, <1>15, <1>16, <1>17, <1>19 DEF PtInv

\* ptreset and ptdelete take the port out of use and its messages back.
LEMMA ClearKeeps ==
  ASSUME PtInv, NEW p \in PortUsers, NEW i \in PortIds, NEW new \in {"PT_FREE", "PT_ALLOC"},
         ptclear(p, i, new)
  PROVE  PtInv'
<1>1. i \in Live /\ ptpc[p].at = "idle" /\ UNCHANGED <<ptnextid, ptmsg>>
  BY DEF ptclear, PtAt, Live
<1>2. PICK e \in Entry : e = porttab[i]
  BY <1>1, LivePort
<1>3. /\ e.state = "PT_ALLOC" /\ e.seq \in Nat /\ e.max \in Nat /\ e.queue \in Seq(Nodes)
      /\ \A q \in PortUsers : Clears(q) => ptpc[q].port # i
  BY <1>1, <1>2, LivePort, EntryType
<1>20. PICK q, t : q = (IF new = "PT_ALLOC" THEN << >> ELSE e.queue)
                  /\ t = Sem(IF new = "PT_ALLOC" THEN e.max ELSE 0)
  OBVIOUS
<1>21. q \in Seq(Nodes) /\ t \in Semaphore /\ e.seq + 1 \in Nat
  BY <1>3, <1>20, SemNew
<1>4. PICK f : f = [e EXCEPT !.state = "PT_LIMBO", !.seq = @ + 1, !.queue = q, !.ssem = t]
  OBVIOUS
<1>22. f = [state |-> "PT_LIMBO", seq |-> e.seq + 1, max |-> e.max, queue |-> q,
            ssem |-> t, rsem |-> e.rsem]
  BY <1>4 DEF Entry
<1>5. /\ f \in Entry /\ f.state = "PT_LIMBO" /\ f.seq = e.seq + 1 /\ f.max = e.max
      /\ new = "PT_ALLOC" => f.queue = << >> /\ f.ssem = Sem(e.max)
  BY <1>3, <1>20, <1>21, <1>22, EntryType DEF Entry
<1>6. PICK c : c = [PtIdle EXCEPT !.at = "limbo", !.port = i, !.new = new]
  OBVIOUS
<1>7. c \in Call /\ c.at = "limbo" /\ c.port = i /\ c.new = new
  BY <1>6, IdleCall DEF Call
<1>8. /\ porttab' = [porttab EXCEPT ![i] = f] /\ ptpc' = [ptpc EXCEPT ![p] = c]
      /\ ptfree' = e.queue \o ptfree
  <2>1. porttab' = [porttab EXCEPT ![i] = Limbo(e, new)]
    BY <1>2 DEF ptclear
  <2>2. f = Limbo(e, new)
    BY <1>4, <1>20 DEF Limbo
  <2>3. porttab' = [porttab EXCEPT ![i] = f]
    BY <2>1, <2>2
  <2> QED
    BY <1>2, <1>6, <2>3 DEF ptclear
<1>9. Changes(p, i, c, f)
  <2>1. Emptied(f, c.at) \/ new # "PT_ALLOC"
    BY <1>5, <1>7 DEF Emptied
  <2> QED
    BY <1>1, <1>2, <1>3, <1>5, <1>7, <1>8, <2>1 DEF Changes, Follows, Busy, Waits
<1>10. SemsInv'
  BY <1>5, <1>7, <1>9, SemsKept
<1>11. /\ porttab' \in [PortIds -> Entry] /\ ptpc' \in [PortUsers -> Call]
       /\ \A j \in PortIds : porttab'[j] = IF j = i THEN f ELSE porttab[j]
       /\ LivesKnown' /\ OneClears'
  BY <1>5, <1>7, <1>9, ChangeSound
<1>12. /\ e.queue \o ptfree \in Seq(Nodes) /\ NoRepeats(e.queue \o ptfree)
       /\ Members(e.queue \o ptfree) = Members(e.queue) \cup Members(ptfree)
  <2>1. /\ ptfree \in Seq(Nodes) /\ NoRepeats(e.queue) /\ NoRepeats(ptfree)
        /\ Members(e.queue) \cap Members(ptfree) = {}
    BY <1>1, <1>2 DEF PtInv, PortTypes, NodesInv
  <2> QED
    BY <1>3, <2>1, ConcatMembers
<1>13. PortTypes'
  BY <1>1, <1>8, <1>11, <1>12 DEF PtInv, PortTypes
<1>14. Live' = Live \ {i} /\ \A j \in Live' : porttab'[j] = porttab[j]
  BY <1>5, <1>11 DEF Live, PortIds
<1>15. NodesInv'
  <2>1. Nodes = Members(ptfree') \cup UNION {Members(porttab'[j].queue) : j \in Live'}
    <3>1. Nodes = Members(ptfree) \cup UNION {Members(porttab[j].queue) : j \in Live}
      BY DEF PtInv, NodesInv
    <3>2. UNION {Members(porttab[j].queue) : j \in Live}
           = Members(e.queue) \cup UNION {Members(porttab'[j].queue) : j \in Live'}
      BY <1>1, <1>2, <1>14
    <3> QED
      BY <1>8, <1>12, <3>1, <3>2
  <2>2. \A j \in Live' : j \in Live /\ j # i
    BY <1>14
  <2>3. \A j \in Live' : /\ NoRepeats(porttab'[j].queue)
                         /\ Members(porttab'[j].queue) \cap Members(ptfree') = {}
                         /\ \A n \in Members(porttab'[j].queue) : ptmsg'[n] = porttab'[j].seq
    <3> SUFFICES ASSUME NEW j \in Live'
                 PROVE  /\ NoRepeats(porttab[j].queue)
                        /\ Members(porttab[j].queue) \cap Members(ptfree') = {}
                        /\ \A n \in Members(porttab[j].queue) : ptmsg[n] = porttab[j].seq
      BY <1>1, <1>14
    <3>1. j \in Live /\ Members(porttab[j].queue) \cap Members(e.queue) = {}
      BY <1>1, <1>2, <2>2 DEF PtInv, NodesInv
    <3>2. Members(ptfree') = Members(e.queue) \cup Members(ptfree)
      BY <1>8, <1>12
    <3> QED
      BY <3>1, <3>2 DEF PtInv, NodesInv
  <2>4. \A j, k \in Live' : j # k => Members(porttab'[j].queue) \cap Members(porttab'[k].queue) = {}
    BY <1>14, <2>2 DEF PtInv, NodesInv
  <2> QED
    BY <1>8, <1>12, <2>1, <2>3, <2>4 DEF NodesInv
<1> QED
  BY <1>10, <1>11, <1>13, <1>15 DEF PtInv

\* The port that p clears is out of use, and its own.
LEMMA Clearing ==
  ASSUME PtInv, NEW p \in PortUsers, Clears(p)
  PROVE  \E i \in PortIds :
           /\ i = ptpc[p].port /\ porttab[i] \in Entry /\ ptpc[p] \in Call
           /\ porttab[i].state = "PT_LIMBO" /\ i \notin Live
           /\ ptpc[p].new \in {"PT_FREE", "PT_ALLOC"}
           /\ ptpc[p].new = "PT_ALLOC" => Emptied(porttab[i], ptpc[p].at)
           /\ \A q \in PortUsers : Clears(q) /\ ptpc[q].port = i => q = p
<1>1. PICK i \in PortIds : i = ptpc[p].port
  BY DEF PtInv, PortTypes, Call
<1>2. porttab[i] \in Entry /\ ptpc[p] \in Call
  BY DEF PtInv, PortTypes
<1>3. /\ porttab[i].state = "PT_LIMBO" /\ ptpc[p].new \in {"PT_FREE", "PT_ALLOC"}
      /\ ptpc[p].new = "PT_ALLOC" => Emptied(porttab[i], ptpc[p].at)
      /\ \A q \in PortUsers : Clears(q) /\ ptpc[q].port = i => q = p
  BY <1>1 DEF PtInv, OneClears
<1> QED
  BY <1>1, <1>2, <1>3 DEF Live

\* The second semaphore of the port is reset or deleted.
LEMMA ClearedKeeps ==
  ASSUME PtInv, NEW p \in PortUsers, Cleared(p)
  PROVE  PtInv'
<1>1. ptpc[p].at = "limbo" /\ UNCHANGED <<ptnextid, ptfree, ptmsg>> /\ Clears(p)
  BY DEF Cleared, PtAt, Clears
<1>2. PICK i \in PortIds :
           /\ i = ptpc[p].port /\ porttab[i] \in Entry /\ ptpc[p] \in Call
           /\ porttab[i].state = "PT_LIMBO" /\ i \notin Live
           /\ ptpc[p].new \in {"PT_FREE", "PT_ALLOC"}
           /\ ptpc[p].new = "PT_ALLOC" => Emptied(porttab[i], ptpc[p].at)
           /\ \A q \in PortUsers : Clears(q) /\ ptpc[q].port = i => q = p
  BY <1>1, Clearing
<1>3. PICK e \in Entry, d \in Call : e = porttab[i] /\ d = ptpc[p]
  BY <1>2
<1>4. PICK f : f = [e EXCEPT !.rsem = Sem(0)]
  OBVIOUS
<1>5. /\ f \in Entry /\ f.state = "PT_LIMBO" /\ f.seq = e.seq /\ f.max = e.max
      /\ f.queue = e.queue /\ f.ssem = e.ssem /\ f.rsem = Sem(0)
  <2>1. Sem(0) \in Semaphore
    BY SemNew
  <2> QED
    BY <1>2, <1>3, <1>4, <2>1 DEF Entry
<1>6. PICK c : c = [d EXCEPT !.at = "cleared"]
  OBVIOUS
<1>7. c \in Call /\ c.at = "cleared" /\ c.port = i /\ c.new = d.new
  BY <1>2, <1>3, <1>6 DEF Call
<1>8. porttab' = [porttab EXCEPT ![i] = f] /\ ptpc' = [ptpc EXCEPT ![p] = c]
  <2>1. porttab' = [porttab EXCEPT ![i].rsem = Sem(0)] /\ ptpc' = [ptpc EXCEPT ![p].at = "cleared"]
    BY <1>2 DEF Cleared
  <2> QED
    BY <1>3, <1>4, <1>6, <2>1 DEF PtInv, PortTypes
<1>9. Changes(p, i, c, f)
  <2>1. Emptied(f, c.at) \/ c.new # "PT_ALLOC"
    BY <1>2, <1>3, <1>5, <1>7 DEF Emptied
  <2>2. ~ Waits(p)
    BY <1>1 DEF Waits
  <2> QED
    BY <1>2, <1>3, <1>5, <1>7, <1>8, <2>1, <2>2 DEF Changes, Follows, Busy
<1>10. SemsInv'
  BY <1>5, <1>7, <1>9, SemsKept
<1>11. /\ porttab' \in [PortIds -> Entry] /\ ptpc' \in [PortUsers -> Call]
       /\ \A j \in PortIds : porttab'[j] = IF j = i THEN f ELSE porttab[j]
       /\ LivesKnown' /\ OneClears'
  BY <1>5, <1>7, <1>9, ChangeSound
<1>12. PortTypes'
  BY <1>1, <1>11 DEF PtInv, PortTypes
<1>13. Live' = Live /\ \A j \in Live : porttab'[j] = porttab[j]
  BY <1>2, <1>5, <1>11 DEF Live, PortIds
<1>14. NodesInv'
  BY <1>1, <1>13, NodesKept DEF PtInv
<1> QED
  BY <1>10, <1>11, <1>12, <1>14 DEF PtInv

\* The port is free, or in use and empty.
LEMMA ClearEndsKeeps ==
  ASSUME PtInv, NEW p \in PortUsers, ClearEnds(p)
  PROVE  PtInv'
<1>1. ptpc[p].at = "cleared" /\ UNCHANGED <<ptfree, ptmsg>> /\ Clears(p)
  BY DEF ClearEnds, PtAt, Clears
<1>2. PICK i \in PortIds :
           /\ i = ptpc[p].port /\ porttab[i] \in Entry /\ ptpc[p] \in Call
           /\ porttab[i].state = "PT_LIMBO" /\ i \notin Live
           /\ ptpc[p].new \in {"PT_FREE", "PT_ALLOC"}
           /\ ptpc[p].new = "PT_ALLOC" => Emptied(porttab[i], ptpc[p].at)
           /\ \A q \in PortUsers : Clears(q) /\ ptpc[q].port = i => q = p
  BY <1>1, Clearing
<1>3. PICK e \in Entry, new \in {"PT_FREE", "PT_ALLOC"} : e = porttab[i] /\ new = ptpc[p].new
  BY <1>2
<1>4. PICK f : f = [e EXCEPT !.state = new]
  OBVIOUS
<1>5. /\ f \in Entry /\ f.state = new /\ f.seq = e.seq /\ f.max = e.max
      /\ f.queue = e.queue /\ f.ssem = e.ssem /\ f.rsem = e.rsem
  BY <1>4 DEF Entry
<1>6. porttab' = [porttab EXCEPT ![i] = f] /\ ptpc' = [ptpc EXCEPT ![p] = PtIdle]
      /\ ptnextid' \in PortIds
  <2>1. porttab' = [porttab EXCEPT ![i].state = new]
    BY <1>2, <1>3 DEF ClearEnds
  <2>2. ptnextid' \in PortIds
    BY <1>2 DEF ClearEnds, PtInv, PortTypes
  <2> QED
    BY <1>3, <1>4, <2>1, <2>2 DEF ClearEnds, PtInv, PortTypes
<1>7. Changes(p, i, PtIdle, f)
  <2>1. ~ Waits(p)
    BY <1>1 DEF Waits
  <2> QED
    BY <1>2, <1>3, <1>5, <1>6, <2>1, IdleCall DEF Changes, Follows, Busy
<1>8. InLife(i, "send")' = {} /\ InLife(i, "receive")' = {}
  BY <1>2, <1>5, <1>7, ChangeSound, IdleCall
<1>9. new = "PT_ALLOC" => f.queue = << >> /\ f.ssem = Sem(f.max) /\ f.rsem = Sem(0)
  BY <1>1, <1>2, <1>3, <1>5 DEF Emptied
<1>10. f.state = "PT_ALLOC" => EntrySound(f, {}, {})
  <2> SUFFICES ASSUME f.state = "PT_ALLOC" PROVE EntrySound(f, {}, {})
    OBVIOUS
  <2>1. f.max \in Nat /\ f.max \in Int
    BY <1>5, EntryType
  <2>2. Len(f.queue) = 0 /\ f.max - 0 = f.max
    BY <1>5, <1>9, <2>1
  <2>3. SemSound(Sem(f.max), {}, f.max) /\ SemSound(Sem(0), {}, 0)
    BY <2>1, SemNew
  <2> QED
    BY <1>5, <1>9, <2>2, <2>3 DEF EntrySound
<1>11. SemsInv'
  BY <1>5, <1>7, <1>8, <1>10, SemsKept, IdleCall
<1>12. /\ porttab' \in [PortIds -> Entry] /\ ptpc' \in [PortUsers -> Call]
       /\ \A j \in PortIds : porttab'[j] = IF j = i THEN f ELSE porttab[j]
       /\ LivesKnown' /\ OneClears'
  BY <1>5, <1>7, ChangeSound, IdleCall
<1>13. PortTypes'
  BY <1>1, <1>6, <1>12 DEF PtInv, PortTypes
<1>14. /\ Live' = IF new = "PT_ALLOC" THEN Live \cup {i} ELSE Live
       /\ \A j \in Live : porttab'[j] = porttab[j]
  BY <1>2, <1>5, <1>12 DEF Live, PortIds
<1>15. NodesInv'
  <2>1. CASE new # "PT_ALLOC"
    BY <1>1, <1>14, <2>1, NodesKept DEF PtInv
  <2>2. CASE new = "PT_ALLOC"
    <3>1. porttab'[i].queue = << >>
      BY <1>5, <1>9, <1>12, <2>2
    <3>2. Members(porttab'[i].queue) = {} /\ NoRepeats(porttab'[i].queue)
      BY <3>1 DEF Members, NoRepeats
    <3> QED
      BY <1>1, <1>2, <1>14, <2>2, <3>2 DEF PtInv, NodesInv
  <2> QED
    BY <2>1, <2>2
<1> QED
  BY <1>11, <1>12, <1>13, <1>15 DEF PtInv

-----------------------------------------------------------------------------
(* Every reachable state.                                                   *)

\* At first all ports and nodes are free.
LEMMA PtInitInv == ASSUME ptinit PROVE PtInv
<1>1. /\ \A i \in PortIds : porttab[i].state = "PT_FREE" /\ porttab[i] \in Entry
      /\ porttab \in [PortIds -> Entry]
  <2>1. PICK e : e = [state |-> "PT_FREE", seq |-> 0, max |-> 0, queue |-> << >>,
                      ssem |-> Sem(0), rsem |-> Sem(0)]
    OBVIOUS
  <2>2. e \in Entry /\ e.state = "PT_FREE"
    <3>1. Sem(0) \in Semaphore
      BY SemNew
    <3> QED
      BY <2>1, <3>1 DEF Entry
  <2>3. porttab = [i \in PortIds |-> e]
    BY <2>1 DEF ptinit
  <2> QED
    BY <2>2, <2>3
<1>2. ptnextid \in PortIds
  BY PortAssumption DEF ptinit, PortIds
<1>3. ptfree \in Seq(Nodes) /\ NoRepeats(ptfree) /\ Members(ptfree) = Nodes
  <2>1. PICK n \in Nat : ExistsBijection(1 .. n, Nodes)
    BY PortAssumption, FS_NatBijection
  <2>2. PICK g : g \in Bijection(1 .. n, Nodes)
    BY <2>1 DEF ExistsBijection
  <2>3. /\ g \in [1 .. n -> Nodes] /\ \A x, y \in 1 .. n : g[x] = g[y] => x = y
        /\ \A m \in Nodes : \E x \in 1 .. n : g[x] = m
    BY <2>2 DEF Bijection, Injection, Surjection, IsInjective
  <2>4. Cardinality(Nodes) = n
    BY <2>1, FS_CountingElements
  <2>5. \E f \in [1 .. Cardinality(Nodes) -> Nodes] : IsInjective(f)
    BY <2>3, <2>4 DEF IsInjective
  <2>6. ptfree \in [1 .. n -> Nodes] /\ IsInjective(ptfree)
    BY <2>4, <2>5 DEF ptinit, SetToSeq
  <2>7. ptfree \in Seq(Nodes) /\ Len(ptfree) = n
    BY <2>6
  <2>8. ptfree \in Injection(1 .. n, Nodes)
    BY <2>6 DEF Injection
  <2>9. IsFiniteSet(1 .. n) /\ Cardinality(1 .. n) = n
    BY <2>1, FS_Interval
  <2>10. ptfree \in Surjection(1 .. n, Nodes)
    BY <2>4, <2>8, <2>9, PortAssumption, FS_Injection
  <2>11. Members(ptfree) = Nodes
    BY <2>6, <2>7, <2>10 DEF Surjection, Members
  <2>12. NoRepeats(ptfree)
    BY <2>6, <2>7 DEF IsInjective, NoRepeats
  <2> QED
    BY <2>7, <2>11, <2>12
<1>4. ptmsg \in [Nodes -> Nat] /\ ptpc \in [PortUsers -> Call]
      /\ \A p \in PortUsers : ptpc[p].at = "idle"
  BY IdleCall DEF ptinit
<1>5. Live = {}
  BY <1>1 DEF Live
<1>6. PortTypes
  BY <1>1, <1>2, <1>3, <1>4 DEF PortTypes
<1>7. LivesKnown /\ OneClears
  BY <1>4 DEF LivesKnown, OneClears, Waits, Clears
<1>8. SemsInv /\ NodesInv
  BY <1>3, <1>5 DEF SemsInv, NodesInv
<1> QED
  BY <1>6, <1>7, <1>8 DEF PtInv

\* Every call keeps the invariant.
LEMMA PtStep == ASSUME PtInv, [PtNext]_ptvars PROVE PtInv'
<1>1. CASE UNCHANGED ptvars
  <2>1. UNCHANGED <<porttab, ptnextid, ptfree, ptmsg, ptpc>>
    BY <1>1 DEF ptvars
  <2>2. Live' = Live /\ \A i, at : InLife(i, at)' = InLife(i, at)
    BY <2>1 DEF Live, InLife
  <2>3. PortTypes' /\ LivesKnown' /\ OneClears'
    BY <2>1 DEF PtInv, PortTypes, LivesKnown, OneClears, Waits, Clears, Emptied
  <2>4. SemsInv' /\ NodesInv'
    BY <2>1, <2>2 DEF PtInv, SemsInv, EntrySound, SemSound, NodesInv
  <2> QED
    BY <2>3, <2>4 DEF PtInv
<1>2. ASSUME NEW p \in PortUsers, Refused(p) \/ SendEnds(p) \/ RecvEnds(p) \/ Cleared(p) \/ ClearEnds(p)
      PROVE  PtInv'
  BY <1>2, RefusedKeeps, SendKeeps, ReceiveKeeps, ClearedKeeps, ClearEndsKeeps
<1>3. ASSUME NEW p \in PortUsers, NEW c \in Counts, ptcreate(p, c)
      PROVE  PtInv'
  BY <1>3, CreateKeeps
<1>4. ASSUME NEW p \in PortUsers, NEW i \in PortIds, ptsend(p, i) \/ ptrecv(p, i)
      PROVE  PtInv'
  BY <1>4, CallKeeps
<1>5. ASSUME NEW p \in PortUsers, NEW i \in PortIds, NEW new \in {"PT_FREE", "PT_ALLOC"}, ptclear(p, i, new)
      PROVE  PtInv'
  BY <1>5, ClearKeeps
<1> QED
  BY <1>1, <1>2, <1>3, <1>4, <1>5 DEF PtNext

\* The invariant says what PortsSound says.
LEMMA PtInvSound == ASSUME PtInv PROVE PortsSound
<1>1. PortCounts
  BY DEF PtInv, SemsInv, EntrySound, SemSound, PortCounts
<1>2. \A i \in Live : porttab[i].queue \in Seq(Nodes) /\ Len(porttab[i].queue) \in Nat
  BY EntryType DEF PtInv, PortTypes, Live
<1>3. ASSUME NEW i \in Live, NEW n \in ToSet(porttab[i].queue) PROVE ptmsg[n] = porttab[i].seq
  <2>1. ToSet(porttab[i].queue) = Members(porttab[i].queue)
    BY <1>2 DEF ToSet, Members
  <2> QED
    BY <2>1 DEF PtInv, NodesInv
<1>4. ASSUME NEW n \in Nodes
      PROVE  Cardinality({k \in DOMAIN ptfree : ptfree[k] = n})
               + Cardinality({x \in Live \X (1 .. Cardinality(Nodes)) :
                   x[2] <= Len(porttab[x[1]].queue) /\ porttab[x[1]].queue[x[2]] = n}) = 1
  <2> DEFINE A == {k \in DOMAIN ptfree : ptfree[k] = n}
             B == {x \in Live \X (1 .. Cardinality(Nodes)) :
                     x[2] <= Len(porttab[x[1]].queue) /\ porttab[x[1]].queue[x[2]] = n}
  <2>1. DOMAIN ptfree = 1 .. Len(ptfree) /\ NoRepeats(ptfree)
    BY DEF PtInv, PortTypes, NodesInv
  <2>2. \A x \in B : x \in Live \X Nat /\ n \in Members(porttab[x[1]].queue)
    <3> SUFFICES ASSUME NEW x \in B PROVE x \in Live \X Nat /\ n \in Members(porttab[x[1]].queue)
      OBVIOUS
    <3>1. x[1] \in Live /\ x[2] \in 1 .. Cardinality(Nodes) /\ x \in Live \X (1 .. Cardinality(Nodes))
          /\ x[2] <= Len(porttab[x[1]].queue) /\ porttab[x[1]].queue[x[2]] = n
      OBVIOUS
    <3>2. x[2] \in 1 .. Len(porttab[x[1]].queue)
      BY <1>2, <3>1
    <3> QED
      BY <3>1, <3>2 DEF Members
  <2>3. CASE n \in Members(ptfree)
    <3>1. PICK k \in 1 .. Len(ptfree) : ptfree[k] = n
      BY <2>3 DEF Members
    <3>2. A = {k}
      BY <2>1, <3>1 DEF NoRepeats
    <3>3. B = {}
      BY <2>2, <2>3 DEF PtInv, NodesInv
    <3>4. Cardinality(A) = 1 /\ Cardinality(B) = 0
      BY <3>2, <3>3, FS_Singleton, FS_EmptySet
    <3> HIDE DEF A, B
    <3>5. Cardinality(A) + Cardinality(B) = 1
      BY <3>4
    <3> QED
      BY <3>5 DEF A, B
  <2>4. CASE n \notin Members(ptfree)
    <3>1. A = {}
      BY <2>1, <2>4 DEF Members
    <3>2. PICK i \in Live : n \in Members(porttab[i].queue)
      BY <2>4 DEF PtInv, NodesInv
    <3>3. PICK k \in 1 .. Len(porttab[i].queue) : porttab[i].queue[k] = n
      BY <3>2 DEF Members
    <3>4. NoRepeats(porttab[i].queue) /\ \A j \in Live : n \in Members(porttab[j].queue) => j = i
      BY <3>2 DEF PtInv, NodesInv
    <3>5. Len(porttab[i].queue) <= Cardinality(Nodes) /\ Cardinality(Nodes) \in Nat
      <4>1. Members(porttab[i].queue) \in SUBSET Nodes
        BY <1>2 DEF Members
      <4>2. Cardinality(Members(porttab[i].queue)) = Len(porttab[i].queue)
        BY <1>2, <3>4, ListCount
      <4>3. IsFiniteSet(Nodes)
        BY PortAssumption
      <4> QED
        BY <4>1, <4>2, <4>3, FS_Subset, FS_CardinalityType
    <3>6. <<i, k>> \in B
      BY <1>2, <3>3, <3>5
    <3>7. ASSUME NEW x \in B PROVE x = <<i, k>>
      <4>1. x = <<x[1], x[2]>> /\ x[1] \in Live /\ x[2] \in 1 .. Cardinality(Nodes)
            /\ x[2] <= Len(porttab[x[1]].queue) /\ porttab[x[1]].queue[x[2]] = n
        OBVIOUS
      <4>2. x[1] = i
        BY <2>2, <3>4, <4>1
      <4>3. x[2] \in 1 .. Len(porttab[i].queue) /\ porttab[i].queue[x[2]] = n
        BY <1>2, <4>1, <4>2
      <4>4. x[2] = k
        BY <3>3, <3>4, <4>3 DEF NoRepeats
      <4> QED
        BY <4>1, <4>2, <4>4
    <3>8. B = {<<i, k>>}
      BY <3>6, <3>7
    <3>9. Cardinality(A) = 0 /\ Cardinality(B) = 1
      BY <3>1, <3>8, FS_Singleton, FS_EmptySet
    <3> HIDE DEF A, B
    <3>10. Cardinality(A) + Cardinality(B) = 1
      BY <3>9
    <3> QED
      BY <3>10 DEF A, B
  <2> QED
    BY <2>3, <2>4
<1> QED
  BY <1>1, <1>3, <1>4 DEF PortsSound, PortMessages

\* A port never loses, invents or mixes up messages (ptcreate.c to ptreset.c),
\* however often it is reset, deleted and created again while processes wait.
THEOREM PortsStaySound == PtSpec => []PortsSound
<1>1. ptinit => PtInv
  BY PtInitInv
<1>2. PtInv /\ [PtNext]_ptvars => PtInv'
  BY PtStep
<1>3. PtInv => PortsSound
  BY PtInvSound
<1> QED
  BY <1>1, <1>2, <1>3, PTL DEF PtSpec

\* ptrecv does not look whether there is a message, and need not: whoever gets
\* past the semaphore in the same life of the port finds one (ptrecv.c).
AlwaysMessage == \A p \in PortUsers : PtAt(p, "receive") /\ SameLife(p) => Port(p).queue # << >>

\* In every reachable state, for any number of ports, nodes and processes, whoever
\* got past a port's semaphore in the same life of the port finds a message there.
THEOREM ReceivesMessage == PtSpec => []AlwaysMessage
<1>1. ptinit => PtInv
  BY PtInitInv
<1>2. PtInv /\ [PtNext]_ptvars => PtInv'
  BY PtStep
<1>3. PtInv => AlwaysMessage
  <2> SUFFICES ASSUME PtInv, NEW p \in PortUsers, PtAt(p, "receive"), SameLife(p)
               PROVE  Port(p).queue # << >>
    BY DEF AlwaysMessage
  <2>1. PICK i \in Live : /\ i = ptpc[p].port
                          /\ p \in InLife(i, "receive") /\ p \notin Members(porttab[i].rsem.queue)
    BY Awake
  <2>2. PICK e \in Entry : e = porttab[i]
    BY LivePort
  <2>3. EntrySound(e, InLife(i, "send"), InLife(i, "receive")) /\ e.rsem \in Semaphore
        /\ Len(e.queue) \in Int /\ IsFiniteSet(InLife(i, "receive"))
    BY <2>2, LivePort, EntryType, InLifeFinite
  <2>4. Len(e.queue) > 0
    BY <2>1, <2>2, <2>3, SemLeaves DEF EntrySound
  <2>5. e.queue # << >>
    BY <2>4
  <2> QED
    BY <2>1, <2>2, <2>5 DEF Port
<1> QED
  BY <1>1, <1>2, <1>3, PTL DEF PtSpec
=============================================================================
