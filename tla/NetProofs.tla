------------------------------ MODULE NetProofs ------------------------------
(***************************************************************************)
(* Theorems about the network (Net): a buffer of the pool is in one place,  *)
(* a packet leaves to its next hop, nobody sleeps over a packet and no      *)
(* address stays pending without the process that asked for it.             *)
(*                                                                         *)
(* A handler works on behalf of a process that is on its way from one place *)
(* of its program to the next.  The invariant is therefore stated for a     *)
(* state n in the middle of a handler: P has the processes on their way,    *)
(* whose records say nothing, and H the buffers that the handler has in     *)
(* hand.  Between two steps both are empty.                                 *)
(***************************************************************************)
EXTENDS Net, ListLemmas

-----------------------------------------------------------------------------
(* The invariant.                                                           *)

NetFields == {"free", "waiting", "pkt", "arp", "udp", "icmp", "oq", "proc", "owner", "valid",
              "arrived", "evicted", "misdirected", "bad", "overtaken"}
ProcFields == {"at", "buf", "got", "todo", "slot", "tries", "msg", "timeout"}
UdpFields == {"state", "key", "queue", "pid"}
IcmpFields == {"state", "remip", "queue", "head", "tail", "count", "pid"}
ArpFields == {"state", "addr", "hw", "pid"}
OqFields == {"buf", "head", "tail", "sem"}

\* Where a process waits for a buffer, and where it holds one.
Wanting == {"waitbuf", "echo", "send"}
Holding == {"read", "echo", "arp"}
Others(P) == Procs \ P
MaybeBuf == Bufs \cup {NULL}

IsNet(n) ==
  /\ DOMAIN n = NetFields
  /\ n.free \in SUBSET Bufs /\ n.waiting \in Seq(Procs) /\ DOMAIN n.pkt = Bufs /\ DOMAIN n.owner = Clients
  /\ n.evicted \in BOOLEAN /\ n.misdirected \in BOOLEAN /\ n.bad \in BOOLEAN /\ n.overtaken \in BOOLEAN
IsQueue(Q) ==
  /\ DOMAIN Q = OqFields /\ Q.buf \in [0 .. IP_OQSIZ - 1 -> MaybeBuf]
  /\ Q.head \in 0 .. IP_OQSIZ - 1 /\ Q.tail \in 0 .. IP_OQSIZ - 1 /\ Q.sem \in Int

\* The records of the processes, and the buffers that they have.
Holds(r) ==
  /\ IF r.at \in Holding THEN r.buf \in Bufs ELSE r.buf = NULL
  /\ r.got \in MaybeBuf
  /\ r.got # NULL => r.at \in Wanting
Held(R, P) ==
  /\ DOMAIN R = Procs
  /\ \A q \in Procs : DOMAIN R[q] = ProcFields /\ R[q].msg \in BOOLEAN
  /\ \A q \in P : q \in Procs /\ R[q].at # "blocked"
  /\ \A q \in Others(P) : Holds(R[q])

\* Who waits for a buffer is in the list of the pool.
Wants(R, P, q) == q \in Others(P) /\ R[q].at \in Wanting /\ R[q].got = NULL
Waiters(W, R, P) == NoRepeats(W) /\ \A q \in Procs : q \in Members(W) <=> Wants(R, P, q)

\* Who waits for a packet and who waits for an address: the table and the
\* process know of each other.
At(R, P, q, at) == q \in Others(P) /\ R[q].at = at
UdpWaits(U, R, O, P, q) ==
  LET s == R[q].slot IN
  /\ q \in Clients /\ s \in UdpSlots /\ <<"udp", s>> \in O[q]
  /\ IF R[q].msg THEN U[s].state = "used" /\ U[s].queue # << >> ELSE U[s].state = "recv" /\ U[s].pid = q
UdpShape(U) ==
  /\ DOMAIN U = UdpSlots
  /\ \A s \in UdpSlots : DOMAIN U[s] = UdpFields /\ U[s].queue \in Seq(Bufs)
UdpSide(U, R, O, P) ==
  /\ UdpShape(U)
  /\ \A s \in UdpSlots : U[s].state = "recv" =>
       At(R, P, U[s].pid, "udp") /\ R[U[s].pid].slot = s /\ ~ R[U[s].pid].msg /\ U[s].queue = << >>
  /\ \A q \in Procs : At(R, P, q, "udp") => UdpWaits(U, R, O, P, q)
  /\ \A s \in UdpSlots : U[s].state = "free" => U[s].queue = << >> /\ \A q \in Clients : <<"udp", s>> \notin O[q]
  /\ \A s \in UdpSlots, q \in Clients, r \in Clients : <<"udp", s>> \in O[q] /\ <<"udp", s>> \in O[r] => q = r

IcmpShape(I) ==
  /\ DOMAIN I = IcmpSlots
  /\ \A s \in IcmpSlots :
       /\ DOMAIN I[s] = IcmpFields /\ I[s].queue \in [0 .. ICMP_QSIZ - 1 -> MaybeBuf]
       /\ I[s].head \in Int /\ I[s].tail \in 0 .. ICMP_QSIZ - 1 /\ I[s].count \in Int
IcmpSide(I, R, O, P) ==
  /\ IcmpShape(I)
  /\ \A s \in IcmpSlots : I[s].state = "recv" =>
       At(R, P, I[s].pid, "icmp") /\ R[I[s].pid].slot = s /\ ~ R[I[s].pid].msg
  /\ \A q \in Procs : At(R, P, q, "icmp") =>
       q \in Clients /\ R[q].slot \in IcmpSlots /\ <<"icmp", R[q].slot>> \in O[q]
  /\ \A s \in IcmpSlots : I[s].state = "free" => \A q \in Clients : <<"icmp", s>> \notin O[q]
  /\ \A s \in IcmpSlots, q \in Clients, r \in Clients : <<"icmp", s>> \in O[q] /\ <<"icmp", s>> \in O[r] => q = r

ArpSide(A, R, P) ==
  /\ DOMAIN A = ArpSlots /\ \A s \in ArpSlots : DOMAIN A[s] = ArpFields
  /\ \A s \in ArpSlots : A[s].state = "pending" =>
       At(R, P, A[s].pid, "arp") /\ R[A[s].pid].slot = s /\ ~ R[A[s].pid].msg
  /\ \A q \in Procs : At(R, P, q, "arp") =>
       R[q].slot \in ArpSlots /\ (~ R[q].msg => A[R[q].slot].state = "pending" /\ A[R[q].slot].pid = q)
  /\ \A s \in ArpSlots : A[s].state = "resolved" => A[s].hw = A[s].addr

\* What is true of every state, whatever happened to the two queues.
Core(n, P) ==
  /\ IsNet(n) /\ IsQueue(n.oq) /\ (n.misdirected => n.evicted)
  /\ Held(n.proc, P) /\ Waiters(n.waiting, n.proc, P)
  /\ UdpSide(n.udp, n.proc, n.owner, P) /\ IcmpSide(n.icmp, n.proc, n.owner, P) /\ ArpSide(n.arp, n.proc, P)

\* The two queues are rings: c buffers from the head to the tail.
Off(h, j, N) == IF j >= h THEN j - h ELSE (j - h) + N
Wrap(j, N) == IF j >= N THEN j - N ELSE j
Ring(buf, N, h, t, c) ==
  /\ c \in 0 .. N /\ t = Wrap(h + c, N)
  /\ \A j \in 0 .. N - 1 : buf[j] # NULL <=> Off(h, j, N) < c
InOq(Q, R, P) == (IF Q.sem = -1 THEN 0 ELSE Q.sem) + (IF At(R, P, "ipout", "take") THEN 1 ELSE 0)
Output(Q, R, P) ==
  /\ Q.sem \in -1 .. IP_OQSIZ /\ (Q.sem = -1 <=> At(R, P, "ipout", "blocked"))
  /\ Ring(Q.buf, IP_OQSIZ, Q.head, Q.tail, InOq(Q, R, P))
Reply(e) ==
  /\ e.head \in 0 .. ICMP_QSIZ
  /\ Ring(e.queue, ICMP_QSIZ, Wrap(e.head, ICMP_QSIZ), e.tail, e.count)
  /\ e.state = "free" => e.count = 0
Replies(I) == \A s \in IcmpSlots : Reply(I[s])

\* The entry that a process waits for is that of the next hop of its packet.
Routed(A, r, K) ==
  /\ A[r.slot].addr = NextHop(K[r.buf].dst)
  /\ r.msg => A[r.slot].state = "resolved"
Routes(A, R, K, ev, P) == ev \/ \A q \in Procs : At(R, P, q, "arp") => Routed(A, R[q], K)

\* Buffer b is in place l, r: in one only.
AtPool(F, H, b, l, r) == r = 0 /\ ((l = "free" /\ b \in F) \/ (l = "hand" /\ b \in H))
AtProc(R, P, b, l, r) == r \in Others(P) /\ ((l = "buf" /\ R[r].buf = b) \/ (l = "got" /\ R[r].got = b))
AtUdp(U, b, l, r) == l = "udp" /\ r \in UdpSlots /\ b \in Members(U[r].queue)
AtIcmp(I, b, l, r) == l = "icmp" /\ r \in IcmpSlots /\ \E i \in 0 .. ICMP_QSIZ - 1 : I[r].queue[i] = b
AtOut(Q, b, l, r) == l = "out" /\ r = 0 /\ \E i \in 0 .. IP_OQSIZ - 1 : Q.buf[i] = b
IsAt(n, P, H, b, l, r) ==
  \/ AtPool(n.free, H, b, l, r) \/ AtProc(n.proc, P, b, l, r)
  \/ AtUdp(n.udp, b, l, r) \/ AtIcmp(n.icmp, b, l, r) \/ AtOut(n.oq, b, l, r)
OnlyAt(n, P, H, b, k, q) == \A l, r : IsAt(n, P, H, b, l, r) <=> l = k /\ r = q
\* No queue has a buffer twice.
Injective(buf, N) == \A i, j \in 0 .. N - 1 : buf[i] = buf[j] /\ buf[i] # NULL => i = j
Distinct(n) ==
  /\ \A s \in UdpSlots : NoRepeats(n.udp[s].queue)
  /\ \A s \in IcmpSlots : Injective(n.icmp[s].queue, ICMP_QSIZ)
  /\ Injective(n.oq.buf, IP_OQSIZ)
Sited(n, P, H) == Distinct(n) /\ \A b \in Bufs : \E k, q : OnlyAt(n, P, H, b, k, q)

\* What is true as long as the two queues are used as they should be.
Good(n, P, H) ==
  /\ Output(n.oq, n.proc, P) /\ Replies(n.icmp) /\ Routes(n.arp, n.proc, n.pkt, n.evicted, P)
  /\ Sited(n, P, H)
Sound(n, P, H) == Core(n, P) /\ H \in SUBSET Bufs /\ (n.bad \/ n.overtaken \/ Good(n, P, H))
NetInv == Sound(net, {}, {})

-----------------------------------------------------------------------------
(* Small facts.                                                             *)

\* The first slot of a set of slots is one of them.
LEMMA FirstIn ==
  ASSUME NEW S, S \subseteq Nat, S # {}
  PROVE  First(S) \in S
BY LeastNat DEF First

\* A free buffer is one.
LEMMA FreeBufIn ==
  ASSUME NEW n, n.free \in SUBSET Bufs, n.free # {}
  PROVE  FreeBuf(n) \in n.free /\ FreeBuf(n) \in Bufs
BY DEF FreeBuf

\* The next place of a ring.
LEMMA NextPlace ==
  ASSUME NEW N \in Nat \ {0}, NEW x \in 0 .. N - 1
  PROVE  (x + 1) % N = Wrap(x + 1, N) /\ Wrap(x + 1, N) \in 0 .. N - 1
<1>1. (x + 1) % N = IF x = N - 1 THEN 0 ELSE x + 1
  OBVIOUS
<1> QED
  BY <1>1 DEF Wrap

\* A place counted from any head.
LEMMA WrapPlace ==
  ASSUME NEW N \in Nat \ {0}, NEW x \in 0 .. 2 * N - 1
  PROVE  x % N = Wrap(x, N) /\ Wrap(x, N) \in 0 .. N - 1
<1>1. x % N = IF x >= N THEN x - N ELSE x
  OBVIOUS
<1> QED
  BY <1>1 DEF Wrap

\* An array with another element.
Put(buf, t, x) == [buf EXCEPT ![t] = x]

\* A buffer is put at the tail of a ring: the place is empty unless it is full.
LEMMA RingPut ==
  ASSUME NEW N \in Nat \ {0}, NEW h \in 0 .. N - 1, NEW t \in 0 .. N - 1, NEW c \in 0 .. N, NEW x, x # NULL,
         NEW buf, DOMAIN buf = 0 .. N - 1, Ring(buf, N, h, t, c),
         NEW w, w = Put(buf, t, x)
  PROVE  /\ buf[t] = NULL <=> c < N
         /\ c < N => Ring(w, N, h, Wrap(t + 1, N), c + 1)
<1> USE DEF Put
<1>1. c \in 0 .. N /\ t = Wrap(h + c, N) /\ \A j \in 0 .. N - 1 : buf[j] # NULL <=> Off(h, j, N) < c
  BY DEF Ring
<1>2. t \in 0 .. N - 1 /\ Off(h, t, N) = IF c = N THEN 0 ELSE c
  BY <1>1 DEF Wrap, Off
<1>3. buf[t] = NULL <=> c < N
  BY <1>1, <1>2
<1>4. ASSUME c < N
      PROVE  Ring(w, N, h, Wrap(t + 1, N), c + 1)
  <2>1. c + 1 \in 0 .. N /\ Wrap(t + 1, N) = Wrap(h + c + 1, N)
    BY <1>1, <1>4 DEF Wrap
  <2>2. ASSUME NEW j \in 0 .. N - 1
        PROVE  w[j] # NULL <=> Off(h, j, N) < c + 1
    <3>1. CASE j = t
      BY <1>1, <1>2, <1>4, <3>1
    <3>2. CASE j # t
      <4>1. Off(h, j, N) # c /\ Off(h, j, N) \in Int
        BY <1>1, <1>2, <1>4, <3>2 DEF Off, Wrap
      <4> QED
        BY <1>1, <3>2, <4>1
    <3> QED
      BY <3>1, <3>2
  <2>3. h + (c + 1) = h + c + 1
    BY <1>1
  <2> QED
    BY <2>1, <2>2, <2>3 DEF Ring
<1> QED
  BY <1>2, <1>3, <1>4

\* A buffer is taken from the head.
LEMMA RingGet ==
  ASSUME NEW N \in Nat \ {0}, NEW h \in 0 .. N - 1, NEW t \in 0 .. N - 1, NEW c \in 1 .. N,
         NEW buf, DOMAIN buf = 0 .. N - 1, Ring(buf, N, h, t, c),
         NEW w, w = Put(buf, h, NULL)
  PROVE  /\ buf[h] # NULL
         /\ Ring(w, N, Wrap(h + 1, N), t, c - 1)
<1> USE DEF Put
<1>1. c \in 1 .. N /\ t = Wrap(h + c, N) /\ \A j \in 0 .. N - 1 : buf[j] # NULL <=> Off(h, j, N) < c
  BY DEF Ring
<1>2. buf[h] # NULL
  BY <1>1 DEF Off
<1> DEFINE g == Wrap(h + 1, N)
<1>3. c - 1 \in 0 .. N /\ t = Wrap(g + (c - 1), N)
  BY <1>1 DEF Wrap
<1>4. ASSUME NEW j \in 0 .. N - 1
      PROVE  w[j] # NULL <=> Off(g, j, N) < c - 1
  <2>1. CASE j = h
    BY <1>1, <2>1 DEF Off, Wrap
  <2>2. CASE j # h
    <3>1. Off(g, j, N) = Off(h, j, N) - 1 /\ Off(h, j, N) \in Int
      BY <2>2 DEF Off, Wrap
    <3> QED
      BY <1>1, <2>2, <3>1
  <2> QED
    BY <2>1, <2>2
<1> QED
  BY <1>2, <1>3, <1>4 DEF Ring

-----------------------------------------------------------------------------
(* Processes that do not wait for a message may change without notice.      *)

SameAt(k, R, P, R2, P2) == \A q \in Procs :
  /\ At(R, P, q, k) <=> At(R2, P2, q, k)
  /\ At(R, P, q, k) => R2[q].slot = R[q].slot /\ R2[q].msg = R[q].msg /\ R2[q].buf = R[q].buf
Quiet(R, P, R2, P2) ==
  /\ SameAt("udp", R, P, R2, P2) /\ SameAt("icmp", R, P, R2, P2) /\ SameAt("arp", R, P, R2, P2)

\* If nobody who waits for a packet changes, the table and the processes still
\* know of each other.
LEMMA QuietUdp ==
  ASSUME NEW U, NEW R, NEW O, NEW P, NEW R2, NEW P2, SameAt("udp", R, P, R2, P2), UdpSide(U, R, O, P)
  PROVE  UdpSide(U, R2, O, P2)
<1>1. \A q : At(R, P, q, "udp") => q \in Procs
  BY DEF At, Others
<1> QED
  BY <1>1 DEF SameAt, UdpSide, UdpWaits

\* The same for those who wait for a reply.
LEMMA QuietIcmp ==
  ASSUME NEW I, NEW R, NEW O, NEW P, NEW R2, NEW P2, SameAt("icmp", R, P, R2, P2), IcmpSide(I, R, O, P)
  PROVE  IcmpSide(I, R2, O, P2)
<1>1. \A q : At(R, P, q, "icmp") => q \in Procs
  BY DEF At, Others
<1> QED
  BY <1>1 DEF SameAt, IcmpSide

\* The same for those who wait for an address.
LEMMA QuietArp ==
  ASSUME NEW A, NEW R, NEW P, NEW R2, NEW P2, SameAt("arp", R, P, R2, P2), ArpSide(A, R, P)
  PROVE  ArpSide(A, R2, P2)
<1>1. \A q : At(R, P, q, "arp") => q \in Procs
  BY DEF At, Others
<1> QED
  BY <1>1 DEF SameAt, ArpSide

\* Their packets keep their routes as well.
LEMMA QuietRoutes ==
  ASSUME NEW A, NEW R, NEW K, NEW ev, NEW P, NEW R2, NEW P2, SameAt("arp", R, P, R2, P2), Routes(A, R, K, ev, P)
  PROVE  Routes(A, R2, K, ev, P2)
BY DEF SameAt, Routes, Routed

\* Nobody's packet changes but b, which nobody holds who waits for an address.
LEMMA PacketRoutes ==
  ASSUME NEW A, NEW R, NEW K, NEW ev, NEW P, NEW b, NEW k, DOMAIN K = Bufs,
         \A q \in Procs : At(R, P, q, "arp") => R[q].buf \in Bufs /\ R[q].buf # b,
         Routes(A, R, K, ev, P)
  PROVE  Routes(A, R, [K EXCEPT ![b] = k], ev, P)
BY DEF Routes, Routed

\* What one process does that waits for no message before or after.
LEMMA QuietChange ==
  ASSUME NEW R, NEW P, NEW R2, NEW P2, NEW p \in Procs,
         \A q \in Procs \ {p} : R2[q] = R[q] /\ (q \in P <=> q \in P2),
         p \in P \/ R[p].at \notin {"udp", "icmp", "arp"},
         p \in P2 \/ R2[p].at \notin {"udp", "icmp", "arp"}
  PROVE  Quiet(R, P, R2, P2)
<1> SUFFICES ASSUME NEW q \in Procs, NEW k \in {"udp", "icmp", "arp"}
             PROVE  /\ At(R, P, q, k) <=> At(R2, P2, q, k)
                    /\ At(R, P, q, k) => R2[q].slot = R[q].slot /\ R2[q].msg = R[q].msg /\ R2[q].buf = R[q].buf
  BY DEF Quiet, SameAt
<1>1. CASE q = p
  BY <1>1 DEF At, Others
<1>2. CASE q # p
  BY <1>2 DEF At, Others
<1> QED
  BY <1>1, <1>2

\* A buffer moves from one place to another, and all others stay.
LEMMA Moved ==
  ASSUME NEW n, NEW P, NEW H, NEW m, NEW P2, NEW H2, NEW b, NEW k, NEW q,
         Sited(n, P, H), Distinct(m),
         \A c \in Bufs \ {b} : \A l, r : IsAt(m, P2, H2, c, l, r) <=> IsAt(n, P, H, c, l, r),
         OnlyAt(m, P2, H2, b, k, q)
  PROVE  Sited(m, P2, H2)
<1> SUFFICES ASSUME NEW c \in Bufs
             PROVE  \E l, r : OnlyAt(m, P2, H2, c, l, r)
  BY DEF Sited
<1>1. CASE c = b
  BY <1>1
<1>2. CASE c # b
  <2>1. PICK l, r : OnlyAt(n, P, H, c, l, r)
    BY DEF Sited
  <2>2. OnlyAt(m, P2, H2, c, l, r)
    BY <1>2, <2>1 DEF OnlyAt
  <2> QED
    BY <2>2
<1> QED
  BY <1>1, <1>2

\* A buffer that is in a place is in no other.
LEMMA Only ==
  ASSUME NEW n, NEW P, NEW H, NEW b \in Bufs, NEW k, NEW q, Sited(n, P, H), IsAt(n, P, H, b, k, q)
  PROVE  OnlyAt(n, P, H, b, k, q)
<1>1. PICK l, r : OnlyAt(n, P, H, b, l, r)
  BY DEF Sited
<1> QED
  BY <1>1 DEF OnlyAt

\* What is in hand is not in a record or a table.
LEMMA InHand ==
  ASSUME NEW n, NEW P, NEW H, NEW b, OnlyAt(n, P, H, b, "hand", 0)
  PROVE  \A l, r : /\ ~ AtProc(n.proc, P, b, l, r) /\ ~ AtUdp(n.udp, b, l, r)
                   /\ ~ AtIcmp(n.icmp, b, l, r) /\ ~ AtOut(n.oq, b, l, r)
<1> SUFFICES ASSUME NEW l, NEW r
             PROVE  /\ ~ AtProc(n.proc, P, b, l, r) /\ ~ AtUdp(n.udp, b, l, r)
                    /\ ~ AtIcmp(n.icmp, b, l, r) /\ ~ AtOut(n.oq, b, l, r)
  OBVIOUS
<1>1. IsAt(n, P, H, b, l, r) => l = "hand"
  BY DEF OnlyAt
<1> QED
  BY <1>1 DEF IsAt, AtProc, AtUdp, AtIcmp, AtOut

\* Nobody waits for an address with a buffer that is in hand or free.
LEMMA NotInArp ==
  ASSUME NEW n, NEW P, NEW H, NEW b \in Bufs, NEW k, Sited(n, P, H), OnlyAt(n, P, H, b, k, 0), k # "buf",
         Held(n.proc, P)
  PROVE  \A q \in Procs : At(n.proc, P, q, "arp") => n.proc[q].buf \in Bufs /\ n.proc[q].buf # b
<1> SUFFICES ASSUME NEW q \in Procs, At(n.proc, P, q, "arp")
             PROVE  n.proc[q].buf \in Bufs /\ n.proc[q].buf # b
  OBVIOUS
<1>1. n.proc[q].buf \in Bufs /\ q \in Others(P)
  BY DEF At, Held, Holds, Holding
<1>2. n.proc[q].buf = b => IsAt(n, P, H, b, "buf", q)
  BY <1>1 DEF IsAt, AtProc
<1> QED
  BY <1>1, <1>2 DEF OnlyAt

-----------------------------------------------------------------------------
(* The pool.                                                                *)

\* A buffer is put back, or given to the process that waits for it longest.
LEMMA Frees ==
  ASSUME NEW n, NEW P, NEW H, NEW b \in H, Sound(n, P, H)
  PROVE  Sound(freebuf(n, b), P, H \ {b})
<1>1. Core(n, P) /\ IsNet(n) /\ Held(n.proc, P) /\ Waiters(n.waiting, n.proc, P) /\ b \in Bufs /\ H \in SUBSET Bufs
  BY DEF Sound, Core
<1>2. b # NULL
  BY <1>1, NetAssumption
<1>3. PICK G : G = H \ {b}
  OBVIOUS
<1>4. G \in SUBSET Bufs /\ b \notin G
  BY <1>1, <1>3
<1>5. PICK W : W = n.waiting
  OBVIOUS
<1>6. W \in Seq(Procs) /\ NoRepeats(W) /\ \A q \in Procs : q \in Members(W) <=> Wants(n.proc, P, q)
  BY <1>1, <1>5 DEF IsNet, Waiters
<1>7. ASSUME Sited(n, P, H)
      PROVE  OnlyAt(n, P, H, b, "hand", 0)
  <2>1. IsAt(n, P, H, b, "hand", 0)
    BY DEF IsAt, AtPool
  <2> QED
    BY <1>1, <1>7, <2>1, Only
<1>8. ASSUME NEW R, Quiet(n.proc, P, R, P), Good(n, P, H)
      PROVE  Routes(n.arp, R, [n.pkt EXCEPT ![b] = NULL], n.evicted, P)
  <2>1. Routes(n.arp, n.proc, [n.pkt EXCEPT ![b] = NULL], n.evicted, P)
    BY <1>1, <1>7, <1>8, NotInArp, PacketRoutes DEF Good, IsNet
  <2> QED
    BY <1>8, <2>1, QuietRoutes DEF Quiet
<1>9. CASE W = << >>
  <2>1. PICK m : m = freebuf(n, b)
    OBVIOUS
  <2>2. /\ DOMAIN m = NetFields /\ m.free = n.free \cup {b} /\ m.pkt = [n.pkt EXCEPT ![b] = NULL]
        /\ m.waiting = n.waiting /\ m.proc = n.proc /\ m.owner = n.owner
        /\ m.arp = n.arp /\ m.udp = n.udp /\ m.icmp = n.icmp /\ m.oq = n.oq
        /\ m.evicted = n.evicted /\ m.misdirected = n.misdirected /\ m.bad = n.bad /\ m.overtaken = n.overtaken
    BY <1>1, <1>5, <1>9, <2>1 DEF freebuf, IsNet, NetFields
  <2>3. Core(m, P)
    BY <1>1, <2>2 DEF Core, IsNet
  <2>4. ASSUME Good(n, P, H)
        PROVE  Good(m, P, G)
    <3>1. Sited(n, P, H) /\ Distinct(n) /\ OnlyAt(n, P, H, b, "hand", 0)
      BY <1>7, <2>4 DEF Good, Sited
    <3>2. Distinct(m)
      BY <2>2, <3>1 DEF Distinct
    <3>3. \A c \in Bufs \ {b} : \A l, r : IsAt(m, P, G, c, l, r) <=> IsAt(n, P, H, c, l, r)
      BY <1>3, <2>2 DEF IsAt, AtPool
    <3>4. OnlyAt(m, P, G, b, "free", 0)
      <4>1. \A l, r : AtPool(m.free, G, b, l, r) <=> l = "free" /\ r = 0
        BY <1>4, <2>2 DEF AtPool
      <4>2. \A l, r : /\ ~ AtProc(n.proc, P, b, l, r) /\ ~ AtUdp(n.udp, b, l, r)
                      /\ ~ AtIcmp(n.icmp, b, l, r) /\ ~ AtOut(n.oq, b, l, r)
        BY <3>1, InHand
      <4>3. \A l, r : IsAt(m, P, G, b, l, r) <=> AtPool(m.free, G, b, l, r)
        BY <2>2, <4>2 DEF IsAt
      <4> QED
        BY <4>1, <4>3 DEF OnlyAt
    <3>5. Sited(m, P, G)
      BY <3>1, <3>2, <3>3, <3>4, Moved
    <3>6. Routes(m.arp, m.proc, m.pkt, m.evicted, P)
      <4>1. Routes(n.arp, n.proc, [n.pkt EXCEPT ![b] = NULL], n.evicted, P)
        BY ZenonT(40), <1>1, <3>1, <2>4, NotInArp, PacketRoutes DEF Good, IsNet
      <4> QED
        BY <2>2, <4>1
    <3> QED
      BY <2>2, <2>4, <3>5, <3>6 DEF Good
  <2> QED
    BY <1>3, <1>4, <2>1, <2>2, <2>3, <2>4 DEF Sound
<1>10. CASE W # << >>
  <2>1. PICK m : m = freebuf(n, b)
    OBVIOUS
  <2>2. PICK h : h = Head(W)
    OBVIOUS
  <2>3. /\ h \in Procs /\ Wants(n.proc, P, h) /\ Tail(W) \in Seq(Procs) /\ NoRepeats(Tail(W))
        /\ Members(Tail(W)) = Members(W) \ {h}
    <3>1. h \in Members(W) /\ h \in Procs
      BY <1>6, <1>10, <2>2, TailMembers
    <3> QED
      BY <1>6, <1>10, <2>2, <3>1, TailMembers
  <2>4. /\ DOMAIN m = NetFields /\ m.free = n.free /\ m.pkt = [n.pkt EXCEPT ![b] = NULL]
        /\ m.waiting = Tail(W) /\ m.proc = [n.proc EXCEPT ![h] = [n.proc[h] EXCEPT !.got = b]] /\ m.owner = n.owner
        /\ m.arp = n.arp /\ m.udp = n.udp /\ m.icmp = n.icmp /\ m.oq = n.oq
        /\ m.evicted = n.evicted /\ m.misdirected = n.misdirected /\ m.bad = n.bad /\ m.overtaken = n.overtaken
    BY <1>1, <1>5, <1>10, <2>1, <2>2 DEF freebuf, IsNet, NetFields
  <2>5. PICK R : R = m.proc
    OBVIOUS
  <2>6. /\ DOMAIN R = Procs
        /\ \A q \in Procs \ {h} : R[q] = n.proc[q]
        /\ DOMAIN R[h] = ProcFields /\ R[h].got = b /\ R[h].at = n.proc[h].at /\ R[h].buf = n.proc[h].buf
        /\ R[h].msg = n.proc[h].msg
    BY <1>1, <2>3, <2>4, <2>5 DEF Held, ProcFields
  <2>7. h \in Others(P) /\ n.proc[h].at \in Wanting /\ n.proc[h].got = NULL
    BY <2>3 DEF Wants
  <2>8. Quiet(n.proc, P, R, P)
    BY <2>3, <2>6, <2>7, QuietChange DEF Wanting
  <2>9. Held(R, P)
    <3>1. \A q \in Others(P) : Holds(R[q])
      BY <1>1, <1>2, <2>6, <2>7 DEF Held, Holds, MaybeBuf, Others
    <3>2. \A q \in P : q \in Procs /\ R[q].at # "blocked"
      BY <1>1, <2>6, <2>7 DEF Held, Others
    <3> QED
      BY <1>1, <2>6, <3>1, <3>2 DEF Held
  <2>10. Waiters(Tail(W), R, P)
    <3>1. \A q \in Procs : Wants(R, P, q) <=> Wants(n.proc, P, q) /\ q # h
      BY <1>2, <2>6, <2>7 DEF Wants
    <3> QED
      BY <1>6, <2>3, <3>1 DEF Waiters
  <2>11. Core(m, P)
    <3>1. IsNet(m)
      BY <1>1, <2>3, <2>4 DEF IsNet
    <3>2. UdpSide(m.udp, R, m.owner, P) /\ IcmpSide(m.icmp, R, m.owner, P) /\ ArpSide(m.arp, R, P)
      BY <1>1, <2>4, <2>8, QuietUdp, QuietIcmp, QuietArp DEF Core, Quiet
    <3> QED
      BY <1>1, <2>4, <2>5, <2>9, <2>10, <3>1, <3>2 DEF Core
  <2>12. ASSUME Good(n, P, H)
         PROVE  Good(m, P, G)
    <3>1. Sited(n, P, H) /\ Distinct(n) /\ OnlyAt(n, P, H, b, "hand", 0)
      BY <1>7, <2>12 DEF Good, Sited
    <3>2. Distinct(m)
      BY <2>4, <3>1 DEF Distinct
    <3>3. \A c \in Bufs \ {b} : \A l, r : IsAt(m, P, G, c, l, r) <=> IsAt(n, P, H, c, l, r)
      <4>1. NULL \notin Bufs
        BY NetAssumption
      <4>2. \A c \in Bufs \ {b} : \A l, r : AtProc(R, P, c, l, r) <=> AtProc(n.proc, P, c, l, r)
        BY <2>6, <2>7, <4>1 DEF AtProc, Others
      <4> QED
        BY <1>3, <2>4, <2>5, <4>2 DEF IsAt, AtPool
    <3>4. OnlyAt(m, P, G, b, "got", h)
      <4>1. \A l, r : AtProc(R, P, b, l, r) <=> AtProc(n.proc, P, b, l, r) \/ (l = "got" /\ r = h)
        BY <1>2, <2>6, <2>7 DEF AtProc, Others
      <4>2. \A l, r : ~ AtPool(m.free, G, b, l, r)
        <5>1. b \notin n.free
          BY <3>1 DEF OnlyAt, IsAt, AtPool
        <5> QED
          BY <1>4, <2>4, <5>1 DEF AtPool
      <4>3. \A l, r : /\ ~ AtProc(n.proc, P, b, l, r) /\ ~ AtUdp(n.udp, b, l, r)
                      /\ ~ AtIcmp(n.icmp, b, l, r) /\ ~ AtOut(n.oq, b, l, r)
        BY <3>1, InHand
      <4>4. \A l, r : IsAt(m, P, G, b, l, r) <=> AtProc(R, P, b, l, r)
        BY <2>4, <2>5, <4>2, <4>3 DEF IsAt
      <4> QED
        BY <4>1, <4>3, <4>4 DEF OnlyAt
    <3>5. Sited(m, P, G)
      BY <3>1, <3>2, <3>3, <3>4, Moved
    <3>6. Routes(m.arp, m.proc, m.pkt, m.evicted, P)
      BY <1>8, <2>4, <2>5, <2>8, <2>12
    <3>7. Output(m.oq, m.proc, P)
      <4>1. At(R, P, "ipout", "take") <=> At(n.proc, P, "ipout", "take")
        BY <2>6, <2>7 DEF At, Wanting, Others
      <4>2. At(R, P, "ipout", "blocked") <=> At(n.proc, P, "ipout", "blocked")
        BY <2>6, <2>7 DEF At, Wanting, Others
      <4> QED
        BY <2>4, <2>5, <2>12, <4>1, <4>2 DEF Good, Output, InOq
    <3> QED
      BY <2>4, <2>12, <3>5, <3>6, <3>7 DEF Good
  <2> QED
    BY <1>3, <1>4, <2>1, <2>4, <2>11, <2>12 DEF Sound
<1> QED
  BY <1>9, <1>10

-----------------------------------------------------------------------------
(* One process turns to something else, or starts or ends on its way.       *)

\* All but the processes and the list of those that wait for a buffer.
Rest(n, m) ==
  /\ DOMAIN m = NetFields /\ m.free = n.free /\ m.pkt = n.pkt /\ m.owner = n.owner
  /\ m.arp = n.arp /\ m.udp = n.udp /\ m.icmp = n.icmp /\ m.oq = n.oq
  /\ m.evicted = n.evicted /\ m.misdirected = n.misdirected /\ m.bad = n.bad /\ m.overtaken = n.overtaken

\* Only the record of p is another, and whether it is on its way.
OnlyOf(R, P, R2, P2, p) ==
  /\ DOMAIN R2 = Procs /\ DOMAIN R2[p] = ProcFields /\ R2[p].msg \in BOOLEAN
  /\ \A q \in Procs \ {p} : R2[q] = R[q] /\ (q \in P <=> q \in P2)
  /\ P2 \in SUBSET Procs
  /\ IF p \in P2 THEN R2[p].at # "blocked" ELSE Holds(R2[p])

\* The buffers in hand and those of p.
Cell(R, P, H, p, b, l, r) == AtPool({}, H, b, l, r) \/ (r = p /\ AtProc(R, P, b, l, r))
Keeps(R, P, H, R2, P2, H2, p) == \A b \in Bufs :
  /\ (\A l, r : ~ Cell(R, P, H, p, b, l, r)) => (\A l, r : ~ Cell(R2, P2, H2, p, b, l, r))
  /\ (\E k, q : \A l, r : Cell(R, P, H, p, b, l, r) <=> l = k /\ r = q) =>
     (\E k, q : \A l, r : Cell(R2, P2, H2, p, b, l, r) <=> l = k /\ r = q)

\* The pool, the queues and the tables have the same buffers.
SamePlaces(n, m) ==
  /\ m.free = n.free /\ m.oq.buf = n.oq.buf
  /\ \A s \in UdpSlots : m.udp[s].queue = n.udp[s].queue
  /\ \A s \in IcmpSlots : m.icmp[s].queue = n.icmp[s].queue

\* When one process changes and keeps its buffers or leaves them in hand, every
\* buffer is still in one place.
LEMMA TurnSited ==
  ASSUME NEW n, NEW P, NEW H, NEW m, NEW P2, NEW H2, NEW p \in Procs, SamePlaces(n, m),
         OnlyOf(n.proc, P, m.proc, P2, p), Keeps(n.proc, P, H, m.proc, P2, H2, p), Sited(n, P, H)
  PROVE  Sited(m, P2, H2)
<1>1. Distinct(m)
  BY DEF Sited, Distinct, SamePlaces
<1> DEFINE Far(b, l, r) == \/ AtPool(n.free, {}, b, l, r) \/ (r # p /\ AtProc(n.proc, P, b, l, r))
                           \/ AtUdp(n.udp, b, l, r) \/ AtIcmp(n.icmp, b, l, r) \/ AtOut(n.oq, b, l, r)
<1>2. \A b, l, r : IsAt(n, P, H, b, l, r) <=> Far(b, l, r) \/ Cell(n.proc, P, H, p, b, l, r)
  BY DEF IsAt, Cell, AtPool
<1>3. \A b, l, r : IsAt(m, P2, H2, b, l, r) <=> Far(b, l, r) \/ Cell(m.proc, P2, H2, p, b, l, r)
  <2>1. \A b, l, r : r # p => (AtProc(m.proc, P2, b, l, r) <=> AtProc(n.proc, P, b, l, r))
    BY DEF OnlyOf, AtProc, Others
  <2>2. \A b, l, r : /\ AtUdp(m.udp, b, l, r) <=> AtUdp(n.udp, b, l, r)
                     /\ AtIcmp(m.icmp, b, l, r) <=> AtIcmp(n.icmp, b, l, r)
                     /\ AtOut(m.oq, b, l, r) <=> AtOut(n.oq, b, l, r)
                     /\ AtPool(m.free, {}, b, l, r) <=> AtPool(n.free, {}, b, l, r)
    BY DEF SamePlaces, AtUdp, AtIcmp, AtOut, AtPool
  <2>3. \A b, l, r : IsAt(m, P2, H2, b, l, r) <=>
                       \/ AtPool(m.free, {}, b, l, r) \/ (r # p /\ AtProc(m.proc, P2, b, l, r))
                       \/ AtUdp(m.udp, b, l, r) \/ AtIcmp(m.icmp, b, l, r) \/ AtOut(m.oq, b, l, r)
                       \/ Cell(m.proc, P2, H2, p, b, l, r)
    BY DEF IsAt, Cell, AtPool
  <2> QED
    BY <2>1, <2>2, <2>3
<1> HIDE DEF Far
<1> SUFFICES ASSUME NEW b \in Bufs
             PROVE  \E k, q : OnlyAt(m, P2, H2, b, k, q)
  BY <1>1 DEF Sited
<1>4. PICK k, q : \A l, r : IsAt(n, P, H, b, l, r) <=> l = k /\ r = q
  BY DEF Sited, OnlyAt
<1>5. CASE Cell(n.proc, P, H, p, b, k, q)
  <2>1. Far(b, k, q) => FALSE
    <3>1. CASE q = p
      BY <1>5, <3>1 DEF Far, Cell, AtPool, AtProc, AtUdp, AtIcmp, AtOut
    <3>2. CASE q # p
      BY <1>5, <3>2 DEF Far, Cell, AtPool, AtProc, AtUdp, AtIcmp, AtOut
    <3> QED
      BY <3>1, <3>2
  <2>2. \A l, r : Cell(n.proc, P, H, p, b, l, r) <=> l = k /\ r = q
    BY <1>2, <1>4, <1>5
  <2>3. PICK k2, q2 : \A l, r : Cell(m.proc, P2, H2, p, b, l, r) <=> l = k2 /\ r = q2
    <3>1. \E l1, r1 : \A l, r : Cell(n.proc, P, H, p, b, l, r) <=> l = l1 /\ r = r1
      BY <2>2
    <3> QED
      BY <3>1 DEF Keeps
  <2>4. \A l, r : ~ Far(b, l, r)
    BY <1>2, <1>4, <2>1
  <2> QED
    BY <1>3, <2>3, <2>4 DEF OnlyAt
<1>6. CASE ~ Cell(n.proc, P, H, p, b, k, q)
  <2>1. \A l, r : ~ Cell(n.proc, P, H, p, b, l, r)
    BY <1>2, <1>4, <1>6
  <2>2. \A l, r : ~ Cell(m.proc, P2, H2, p, b, l, r)
    BY <2>1 DEF Keeps
  <2> QED
    BY <1>2, <1>3, <1>4, <2>1, <2>2 DEF OnlyAt
<1> QED
  BY <1>5, <1>6

\* What a turn of p has to keep.
LEMMA Turns ==
  ASSUME NEW n, NEW P, NEW H, NEW m, NEW P2, NEW H2 \in SUBSET Bufs, NEW p \in Procs, Sound(n, P, H),
         Rest(n, m), m.waiting \in Seq(Procs), Waiters(m.waiting, m.proc, P2),
         OnlyOf(n.proc, P, m.proc, P2, p), Keeps(n.proc, P, H, m.proc, P2, H2, p),
         Quiet(n.proc, P, m.proc, P2),
         At(m.proc, P2, "ipout", "take") <=> At(n.proc, P, "ipout", "take"),
         At(m.proc, P2, "ipout", "blocked") <=> At(n.proc, P, "ipout", "blocked")
  PROVE  Sound(m, P2, H2)
<1>1. Core(n, P)
  BY DEF Sound
<1>2. IsNet(m)
  BY <1>1 DEF Core, IsNet, Rest
<1>3. Held(m.proc, P2)
  BY <1>1 DEF Core, Held, OnlyOf, Others
<1>4. UdpSide(m.udp, m.proc, m.owner, P2) /\ IcmpSide(m.icmp, m.proc, m.owner, P2) /\ ArpSide(m.arp, m.proc, P2)
  BY <1>1, QuietUdp, QuietIcmp, QuietArp DEF Core, Quiet, Rest
<1>5. Core(m, P2)
  BY <1>1, <1>2, <1>3, <1>4 DEF Core, Rest
<1>6. ASSUME Good(n, P, H)
      PROVE  Good(m, P2, H2)
  <2>1. Sited(m, P2, H2)
    BY <1>6, TurnSited DEF Good, Rest, SamePlaces
  <2>2. Routes(m.arp, m.proc, m.pkt, m.evicted, P2)
    BY <1>6, QuietRoutes DEF Good, Quiet, Rest
  <2>3. Output(m.oq, m.proc, P2)
    BY <1>6 DEF Good, Output, InOq, Rest
  <2> QED
    BY <1>6, <2>1, <2>2, <2>3 DEF Good, Rest
<1> QED
  BY <1>5, <1>6 DEF Sound, Rest

\* The same places.
LEMMA SameCells ==
  ASSUME NEW R, NEW P, NEW H, NEW R2, NEW P2, NEW H2, NEW p,
         \A b \in Bufs : \A l, r : Cell(R2, P2, H2, p, b, l, r) <=> Cell(R, P, H, p, b, l, r)
  PROVE  Keeps(R, P, H, R2, P2, H2, p)
<1> SUFFICES ASSUME NEW b \in Bufs
             PROVE  /\ (\A l, r : ~ Cell(R, P, H, p, b, l, r)) => (\A l, r : ~ Cell(R2, P2, H2, p, b, l, r))
                    /\ (\E k, q : \A l, r : Cell(R, P, H, p, b, l, r) <=> l = k /\ r = q) =>
                       (\E k, q : \A l, r : Cell(R2, P2, H2, p, b, l, r) <=> l = k /\ r = q)
  BY Zenon DEF Keeps
<1>1. \A l, r : Cell(R2, P2, H2, p, b, l, r) <=> Cell(R, P, H, p, b, l, r)
  OBVIOUS
<1> QED
  BY <1>1

\* One place before, one place after, or none.
CellMoves(R, P, H, R2, P2, H2, p, b) ==
  \/ \A l, r : Cell(R2, P2, H2, p, b, l, r) <=> Cell(R, P, H, p, b, l, r)
  \/ /\ \E l, r : Cell(R, P, H, p, b, l, r)
     /\ \E k, q : \A l, r : Cell(R2, P2, H2, p, b, l, r) <=> l = k /\ r = q
OnlyCell(R, P, H, p, b, k, q) == \A l, r : Cell(R, P, H, p, b, l, r) <=> l = k /\ r = q

\* A buffer that was in a place of p and has one place there after has moved.
LEMMA CellMoved ==
  ASSUME NEW R, NEW P, NEW H, NEW R2, NEW P2, NEW H2, NEW p, NEW b, NEW x, NEW y, NEW k, NEW q,
         Cell(R, P, H, p, b, x, y), OnlyCell(R2, P2, H2, p, b, k, q)
  PROVE  CellMoves(R, P, H, R2, P2, H2, p, b)
BY DEF CellMoves, OnlyCell

\* If every buffer stays where it was with p or moves, p keeps its buffers.
LEMMA OtherCells ==
  ASSUME NEW R, NEW P, NEW H, NEW R2, NEW P2, NEW H2, NEW p,
         \A b \in Bufs : CellMoves(R, P, H, R2, P2, H2, p, b)
  PROVE  Keeps(R, P, H, R2, P2, H2, p)
<1> SUFFICES ASSUME NEW b \in Bufs
             PROVE  /\ (\A l, r : ~ Cell(R, P, H, p, b, l, r)) => (\A l, r : ~ Cell(R2, P2, H2, p, b, l, r))
                    /\ (\E k, q : \A l, r : Cell(R, P, H, p, b, l, r) <=> l = k /\ r = q) =>
                       (\E k, q : \A l, r : Cell(R2, P2, H2, p, b, l, r) <=> l = k /\ r = q)
  BY Zenon DEF Keeps
<1>1. CASE \A l, r : Cell(R2, P2, H2, p, b, l, r) <=> Cell(R, P, H, p, b, l, r)
  BY <1>1
<1>2. CASE /\ \E l, r : Cell(R, P, H, p, b, l, r)
           /\ \E k, q : \A l, r : Cell(R2, P2, H2, p, b, l, r) <=> l = k /\ r = q
  BY <1>2
<1> QED
  BY <1>1, <1>2, Zenon DEF CellMoves

\* The record of a process at home.
LEMMA HomeShape ==
  ASSUME NEW p
  PROVE  /\ DOMAIN Home(p) = ProcFields /\ Home(p).at \in {"getbuf", "wait", "idle"}
         /\ Home(p).buf = NULL /\ Home(p).got = NULL /\ Home(p).msg = FALSE
BY DEF Home, ProcFields

\* A process ends on its way.
LEMMA Ends ==
  ASSUME NEW n, NEW H, NEW p \in Procs, Sound(n, {p}, H)
  PROVE  Sound(Done(n, p), {}, H)
<1>1. PICK m : m = Done(n, p)
  OBVIOUS
<1>2. PICK r : r = Home(p)
  OBVIOUS
<1>3. Core(n, {p}) /\ IsNet(n) /\ Held(n.proc, {p}) /\ H \in SUBSET Bufs
  BY DEF Sound, Core
<1>4. /\ DOMAIN r = ProcFields /\ r.at \in {"getbuf", "wait", "idle"}
      /\ r.buf = NULL /\ r.got = NULL /\ r.msg = FALSE
  BY <1>2, HomeShape
<1>5. /\ Rest(n, m) /\ m.waiting = n.waiting
      /\ m.proc = [n.proc EXCEPT ![p] = r]
  BY <1>1, <1>2, <1>3 DEF Done, Rest, IsNet, NetFields
<1>6. PICK R : R = m.proc
  OBVIOUS
<1>7. DOMAIN R = Procs /\ R[p] = r /\ \A q \in Procs \ {p} : R[q] = n.proc[q]
  BY <1>3, <1>5, <1>6 DEF Held
<1>8. OnlyOf(n.proc, {p}, R, {}, p)
  BY <1>4, <1>7 DEF OnlyOf, Holds, Holding, MaybeBuf
<1>9. m.waiting \in Seq(Procs) /\ Waiters(m.waiting, R, {})
  <2>1. \A q \in Procs : Wants(R, {}, q) <=> Wants(n.proc, {p}, q)
    BY <1>4, <1>7 DEF Wants, Wanting, Others
  <2> QED
    BY <1>3, <1>5, <2>1 DEF Core, Waiters, IsNet
<1>10. Keeps(n.proc, {p}, H, R, {}, H, p)
  <2>1. NULL \notin Bufs
    BY NetAssumption
  <2>2. ASSUME NEW b \in Bufs
        PROVE  \A l, s : Cell(R, {}, H, p, b, l, s) <=> Cell(n.proc, {p}, H, p, b, l, s)
    BY <1>4, <1>7, <2>1 DEF Cell, AtProc, Others
  <2> QED
    BY <2>2, SameCells
<1>11. Quiet(n.proc, {p}, R, {})
  BY <1>4, <1>7, QuietChange
<1>12. /\ At(R, {}, "ipout", "take") <=> At(n.proc, {p}, "ipout", "take")
       /\ At(R, {}, "ipout", "blocked") <=> At(n.proc, {p}, "ipout", "blocked")
  BY <1>4, <1>7 DEF At, Others
<1> QED
  BY <1>1, <1>3, <1>5, <1>6, <1>8, <1>9, <1>10, <1>11, <1>12, Turns

\* A process on its way whom no table knows.
LEMMA UdpLeft ==
  ASSUME NEW U, NEW R, NEW O, NEW p, UdpSide(U, R, O, {}), R[p].at = "udp" => R[p].msg
  PROVE  UdpSide(U, R, O, {p})
<1>1. \A q \in Procs : At(R, {p}, q, "udp") => At(R, {}, q, "udp")
  BY DEF At, Others
<1>2. \A s \in UdpSlots : U[s].state = "recv" => U[s].pid # p
  BY DEF UdpSide, At
<1>3. \A s \in UdpSlots : U[s].state = "recv" => At(R, {p}, U[s].pid, "udp")
  BY <1>2 DEF UdpSide, At, Others
<1> QED
  BY <1>1, <1>3 DEF UdpSide, UdpWaits

\* A process that goes on its way no longer waits for a reply.
LEMMA IcmpLeft ==
  ASSUME NEW I, NEW R, NEW O, NEW p, IcmpSide(I, R, O, {}), R[p].at = "icmp" => R[p].msg
  PROVE  IcmpSide(I, R, O, {p})
<1>1. \A q \in Procs : At(R, {p}, q, "icmp") => At(R, {}, q, "icmp")
  BY DEF At, Others
<1>2. \A s \in IcmpSlots : I[s].state = "recv" => I[s].pid # p
  BY DEF IcmpSide, At
<1>3. \A s \in IcmpSlots : I[s].state = "recv" => At(R, {p}, I[s].pid, "icmp")
  BY <1>2 DEF IcmpSide, At, Others
<1> QED
  BY <1>1, <1>3 DEF IcmpSide

\* A process that goes on its way no longer waits for an address.
LEMMA ArpLeft ==
  ASSUME NEW A, NEW R, NEW p, ArpSide(A, R, {}), R[p].at = "arp" => R[p].msg
  PROVE  ArpSide(A, R, {p})
<1>1. \A q \in Procs : At(R, {p}, q, "arp") => At(R, {}, q, "arp")
  BY DEF At, Others
<1>2. \A s \in ArpSlots : A[s].state = "pending" => A[s].pid # p
  BY DEF ArpSide, At
<1>3. \A s \in ArpSlots : A[s].state = "pending" => At(R, {p}, A[s].pid, "arp")
  BY <1>2 DEF ArpSide, At, Others
<1> QED
  BY <1>1, <1>3 DEF ArpSide

\* What a change of the tables leaves alone.
SameBut(n, m) ==
  /\ DOMAIN m = NetFields /\ m.free = n.free /\ m.pkt = n.pkt /\ m.oq = n.oq
  /\ m.waiting = n.waiting /\ m.proc = n.proc
  /\ m.evicted = n.evicted /\ m.misdirected = n.misdirected /\ m.bad = n.bad /\ m.overtaken = n.overtaken

\* The buffers of p are in hand when it is on its way and the tables agree.
LEMMA Goes ==
  ASSUME NEW n, NEW m, NEW H, NEW p \in Procs, Sound(n, {}, {}), Good(n, {}, {}), SameBut(n, m), m.owner = n.owner,
         n.proc[p].at \notin {"take", "blocked"},
         n.proc[p].at \in Wanting => n.proc[p].got # NULL,
         H = {b \in Bufs : b = n.proc[p].buf \/ b = n.proc[p].got},
         SamePlaces(n, m), Replies(m.icmp),
         UdpSide(m.udp, n.proc, n.owner, {p}), IcmpSide(m.icmp, n.proc, n.owner, {p}), ArpSide(m.arp, n.proc, {p}),
         Routes(m.arp, n.proc, n.pkt, n.evicted, {p})
  PROVE  Sound(m, {p}, H)
<1>1. Core(n, {}) /\ IsNet(n) /\ Held(n.proc, {}) /\ H \in SUBSET Bufs
  BY DEF Sound, Core
<1>2. PICK R : R = n.proc
  OBVIOUS
<1>3. DOMAIN R = Procs /\ (\A q \in Procs : Holds(R[q]) /\ DOMAIN R[q] = ProcFields /\ R[q].msg \in BOOLEAN)
  BY <1>1, <1>2 DEF Held, Others
<1>4. Held(R, {p})
  BY <1>2, <1>3 DEF Held, Others
<1>5. Waiters(n.waiting, R, {p})
  <2>1. \A q \in Procs : Wants(R, {}, q) <=> Wants(R, {p}, q)
    BY <1>2 DEF Wants, Others
  <2> QED
    BY <1>1, <1>2, <2>1 DEF Core, Waiters
<1>6. Core(m, {p})
  BY <1>1, <1>2, <1>4, <1>5 DEF Core, IsNet, SameBut
<1>7. Output(n.oq, R, {p})
  <2>1. /\ At(R, {p}, "ipout", "take") <=> At(n.proc, {}, "ipout", "take")
        /\ At(R, {p}, "ipout", "blocked") <=> At(n.proc, {}, "ipout", "blocked")
    BY <1>2 DEF At, Others
  <2> QED
    BY <2>1 DEF Good, Output, InOq
<1>8. Sited(m, {p}, H)
  <2>1. OnlyOf(n.proc, {}, m.proc, {p}, p)
    BY <1>2, <1>3 DEF OnlyOf, SameBut
  <2>2. Keeps(R, {}, {}, R, {p}, H, p)
    <3>0. PICK E, Q : E = {} /\ Q = {p}
      OBVIOUS
    <3> SUFFICES ASSUME NEW b \in Bufs
                 PROVE  CellMoves(R, E, E, R, Q, H, p, b)
      <4> HIDE <3>0
      <4>1. Keeps(R, E, E, R, Q, H, p)
        BY OtherCells
      <4> QED
        BY <3>0, <4>1
    <3>1. \A l, r : Cell(R, E, E, p, b, l, r) <=> r = p /\ ((l = "buf" /\ R[p].buf = b) \/ (l = "got" /\ R[p].got = b))
      BY <3>0 DEF Cell, AtPool, AtProc, Others
    <3>2. \A l, r : Cell(R, Q, H, p, b, l, r) <=> l = "hand" /\ r = 0 /\ (R[p].buf = b \/ R[p].got = b)
      BY <1>2, <3>0 DEF Cell, AtPool, AtProc, Others
    <3>3. CASE R[p].buf = b \/ R[p].got = b
      <4>1. \E l, r : Cell(R, E, E, p, b, l, r)
        BY <3>1, <3>3
      <4>2. \A l, r : Cell(R, Q, H, p, b, l, r) <=> l = "hand" /\ r = 0
        BY <3>2, <3>3
      <4> QED
        BY <4>1, <4>2 DEF CellMoves
    <3>4. CASE ~ (R[p].buf = b \/ R[p].got = b)
      <4>1. \A l, r : ~ Cell(R, E, E, p, b, l, r) /\ ~ Cell(R, Q, H, p, b, l, r)
        BY <3>1, <3>2, <3>4
      <4> QED
        BY <4>1 DEF CellMoves
    <3> QED
      BY <3>3, <3>4
  <2>3. m.proc = R /\ n.proc = R
    BY <1>2 DEF SameBut
  <2> QED
    BY <2>1, <2>2, <2>3, TurnSited DEF Good
<1> QED
  BY <1>1, <1>2, <1>6, <1>7, <1>8 DEF Sound, Good, SameBut

\* A process goes that waited for nothing or has what it waited for.
LEMMA Departs ==
  ASSUME NEW n, NEW H, NEW p \in Procs, Sound(n, {}, {}),
         n.proc[p].at \notin {"take", "blocked"},
         n.proc[p].at \in {"udp", "icmp", "arp"} => n.proc[p].msg,
         n.proc[p].at \in Wanting => n.proc[p].got # NULL,
         H = {b \in Bufs : b = n.proc[p].buf \/ b = n.proc[p].got},
         Good(n, {}, {})
  PROVE  Sound(n, {p}, H)
<1>1. SameBut(n, n) /\ SamePlaces(n, n)
  BY DEF SameBut, SamePlaces, Sound, Core, IsNet
<1>2. UdpSide(n.udp, n.proc, n.owner, {p}) /\ IcmpSide(n.icmp, n.proc, n.owner, {p}) /\ ArpSide(n.arp, n.proc, {p})
  BY UdpLeft, IcmpLeft, ArpLeft DEF Sound, Core
<1>3. Routes(n.arp, n.proc, n.pkt, n.evicted, {p})
  BY DEF Good, Routes, At, Others
<1> QED
  BY <1>1, <1>2, <1>3, Goes DEF Good

\* Between two steps, as long as the queues are used as they should be.
Steady(n) == Sound(n, {}, {}) /\ ~ n.bad /\ ~ n.overtaken

\* What is known of the network between two steps.
LEMMA SteadyGood ==
  ASSUME NEW n, Steady(n)
  PROVE  Sound(n, {}, {}) /\ Good(n, {}, {}) /\ Core(n, {}) /\ IsNet(n) /\ Held(n.proc, {})
BY DEF Steady, Sound, Core

\* The wait at an endpoint has ended.
UdpBack(n, m, p, s) ==
  /\ p \in Clients /\ s \in UdpSlots /\ <<"udp", s>> \in m.owner[p]
  /\ n.proc[p].msg => n.udp[s].queue # << >>
  /\ m.udp[s].queue = n.udp[s].queue
UdpUsed(n, s) == [n EXCEPT !.udp[s].state = "used"]
IcmpUsed(n, s) == [n EXCEPT !.icmp[s].state = "used"]

\* The wait for a packet ends: the endpoint knows of nobody any more.
LEMMA UdpReturns ==
  ASSUME NEW n, NEW p \in Procs, NEW s, NEW m, NEW E, E = {}, Steady(n),
         n.proc[p].at = "udp", s = n.proc[p].slot, m = UdpUsed(n, s)
  PROVE  Sound(m, {p}, E) /\ UdpBack(n, m, p, s)
<1>0. Sound(n, {}, {}) /\ Good(n, {}, {})
  BY SteadyGood
<1> USE <1>0 DEF UdpUsed
<1>1. Core(n, {}) /\ IsNet(n) /\ Held(n.proc, {})
  BY DEF Sound, Core
<1>2. PICK R : R = n.proc
  OBVIOUS
<1>3. PICK U : U = m.udp
  OBVIOUS
<1>4. UdpSide(n.udp, R, n.owner, {}) /\ UdpShape(n.udp)
  BY <1>1, <1>2 DEF Core, UdpSide
<1>5. UdpWaits(n.udp, R, n.owner, {}, p)
  BY <1>2, <1>4 DEF UdpSide, At, Others
<1>6. p \in Clients /\ s \in UdpSlots /\ <<"udp", s>> \in n.owner[p] /\ (n.proc[p].msg => n.udp[s].queue # << >>)
  BY <1>2, <1>5 DEF UdpWaits
<1>7. /\ SameBut(n, m) /\ m.owner = n.owner /\ m.arp = n.arp /\ m.icmp = n.icmp
      /\ U = [n.udp EXCEPT ![s] = [n.udp[s] EXCEPT !.state = "used"]]
  BY <1>1, <1>3 DEF IsNet, NetFields, SameBut
<1>8. /\ DOMAIN U = UdpSlots /\ DOMAIN U[s] = UdpFields
      /\ U[s].state = "used" /\ U[s].queue = n.udp[s].queue
      /\ \A t \in UdpSlots \ {s} : U[t] = n.udp[t]
  BY <1>4, <1>6, <1>7 DEF UdpShape, UdpFields
<1>9. UdpSide(U, R, m.owner, {p})
  <2>1. UdpShape(U)
    BY <1>4, <1>6, <1>8 DEF UdpShape
  <2>2. ASSUME NEW t \in UdpSlots, U[t].state = "recv"
        PROVE  At(R, {p}, U[t].pid, "udp") /\ R[U[t].pid].slot = t /\ ~ R[U[t].pid].msg /\ U[t].queue = << >>
    <3>1. t # s /\ U[t] = n.udp[t]
      BY <1>8, <2>2
    <3>2. At(R, {}, U[t].pid, "udp") /\ R[U[t].pid].slot = t /\ ~ R[U[t].pid].msg /\ U[t].queue = << >>
      BY <1>4, <2>2, <3>1 DEF UdpSide
    <3>3. U[t].pid # p
      BY <1>2, <3>1, <3>2
    <3> QED
      BY <3>2, <3>3 DEF At, Others
  <2>3. ASSUME NEW q \in Procs, At(R, {p}, q, "udp")
        PROVE  UdpWaits(U, R, m.owner, {p}, q)
    <3>1. UdpWaits(n.udp, R, n.owner, {}, q) /\ q # p
      BY <1>4, <2>3 DEF UdpSide, At, Others
    <3>2. R[q].slot # s
      BY <1>4, <1>6, <3>1 DEF UdpSide, UdpWaits
    <3> QED
      BY <1>7, <1>8, <3>1, <3>2 DEF UdpWaits
  <2>4. /\ \A t \in UdpSlots : U[t].state = "free" => U[t].queue = << >> /\ \A q \in Clients : <<"udp", t>> \notin m.owner[q]
        /\ \A t \in UdpSlots, q \in Clients, r \in Clients : <<"udp", t>> \in m.owner[q] /\ <<"udp", t>> \in m.owner[r] => q = r
    BY <1>4, <1>7, <1>8 DEF UdpSide
  <2> QED
    BY <2>1, <2>2, <2>3, <2>4 DEF UdpSide
<1>10. IcmpSide(n.icmp, n.proc, n.owner, {p}) /\ ArpSide(n.arp, n.proc, {p})
  BY <1>1, IcmpLeft, ArpLeft DEF Core
<1>11. Routes(n.arp, n.proc, n.pkt, n.evicted, {p})
  BY DEF Good, Routes, At, Others
<1>12. SamePlaces(n, m)
  <2>1. \A t \in UdpSlots : U[t].queue = n.udp[t].queue
    BY <1>8
  <2> QED
    BY <1>3, <1>7, <2>1 DEF SamePlaces, SameBut
<1>13. E = {b \in Bufs : b = n.proc[p].buf \/ b = n.proc[p].got}
  BY <1>1, NetAssumption DEF Held, Holds, Others, Holding, Wanting
<1>14. Sound(m, {p}, E)
  BY <1>2, <1>3, <1>7, <1>9, <1>10, <1>11, <1>12, <1>13, Goes DEF Good, Wanting
<1> QED
  BY <1>3, <1>6, <1>7, <1>8, <1>14 DEF UdpBack

\* A process waits for a buffer, with the packet that it has, if it has one.
LEMMA Queues ==
  ASSUME NEW n, NEW P, NEW H, NEW p \in Procs, NEW r, NEW m, Sound(n, P, H),
         \/ P = {p}
         \/ P = {} /\ n.proc[p].at \in {"getbuf", "idle"},
         DOMAIN r = ProcFields, r.at \in Wanting, r.got = NULL, r.msg \in BOOLEAN,
         IF r.at = "echo" THEN P = {p} /\ H = {r.buf} ELSE r.buf = NULL /\ H = {},
         Rest(n, m), m.waiting = Append(n.waiting, p), m.proc = [n.proc EXCEPT ![p] = r]
  PROVE  Sound(m, {}, {})
<1>1. Core(n, P) /\ IsNet(n) /\ Held(n.proc, P) /\ H \in SUBSET Bufs
  BY DEF Sound, Core
<1>2. PICK R : R = m.proc
  OBVIOUS
<1>3. DOMAIN R = Procs /\ R[p] = r /\ \A q \in Procs \ {p} : R[q] = n.proc[q]
  BY <1>1, <1>2 DEF Held
<1>4. NULL \notin Bufs
  BY NetAssumption
<1>5. P = {} => n.proc[p].buf = NULL /\ n.proc[p].got = NULL
  BY <1>1 DEF Held, Holds, Others, Holding, Wanting
<1>6. r.at = "echo" => r.buf \in Bufs
  BY <1>1
<1>7. OnlyOf(n.proc, P, R, {}, p)
  BY <1>3, <1>6 DEF OnlyOf, Holds, Holding, Wanting, MaybeBuf
<1>8. m.waiting \in Seq(Procs) /\ Waiters(m.waiting, R, {})
  <2>1. PICK W : W = n.waiting
    OBVIOUS
  <2>2. W \in Seq(Procs) /\ NoRepeats(W) /\ \A q \in Procs : q \in Members(W) <=> Wants(n.proc, P, q)
    BY <1>1, <2>1 DEF Core, IsNet, Waiters
  <2>3. ~ Wants(n.proc, P, p)
    BY DEF Wants, Others, Wanting
  <2>4. \A q \in Procs : Wants(R, {}, q) <=> q = p \/ Wants(n.proc, P, q)
    BY <1>3 DEF Wants, Others
  <2>5. /\ Append(W, p) \in Seq(Procs) /\ Members(Append(W, p)) = Members(W) \cup {p}
        /\ NoRepeats(Append(W, p))
    BY <2>2, <2>3, AppendMembers
  <2> QED
    BY <2>1, <2>2, <2>4, <2>5 DEF Waiters
<1>9. Keeps(n.proc, P, H, R, {}, {}, p)
  <2>0. PICK E : E = {}
    OBVIOUS
  <2> SUFFICES ASSUME NEW b \in Bufs
               PROVE  CellMoves(n.proc, P, H, R, E, E, p, b)
    BY <2>0, OtherCells
  <2>1. \A l, q : Cell(n.proc, P, H, p, b, l, q) <=> l = "hand" /\ q = 0 /\ b \in H
    BY <1>4, <1>5 DEF Cell, AtPool, AtProc, Others
  <2>2. \A l, q : Cell(R, E, E, p, b, l, q) <=> l = "buf" /\ q = p /\ b \in H
    BY <1>3, <1>4, <2>0 DEF Cell, AtPool, AtProc, Others
  <2>3. CASE b \in H
    <3>1. Cell(n.proc, P, H, p, b, "hand", 0)
      BY <2>1, <2>3
    <3>2. OnlyCell(R, E, E, p, b, "buf", p)
      BY <2>2, <2>3 DEF OnlyCell
    <3> QED
      BY <3>1, <3>2, CellMoved
  <2>4. CASE b \notin H
    BY <2>1, <2>2, <2>4 DEF CellMoves
  <2> QED
    BY <2>3, <2>4
<1>10. Quiet(n.proc, P, R, {})
  <2>1. p \in P \/ n.proc[p].at \notin {"udp", "icmp", "arp"}
    OBVIOUS
  <2>2. R[p].at \notin {"udp", "icmp", "arp"}
    BY <1>3 DEF Wanting
  <2>3. \A q \in Procs \ {p} : R[q] = n.proc[q] /\ (q \in P <=> q \in {})
    BY <1>3
  <2> QED
    BY <2>1, <2>2, <2>3, QuietChange
<1>11. /\ At(R, {}, "ipout", "take") <=> At(n.proc, P, "ipout", "take")
       /\ At(R, {}, "ipout", "blocked") <=> At(n.proc, P, "ipout", "blocked")
  BY <1>3 DEF At, Others, Wanting
<1> QED
  BY <1>1, <1>2, <1>7, <1>8, <1>9, <1>10, <1>11, Turns

\* A buffer is taken from the pool.
Drawn(n, m, b) ==
  /\ DOMAIN m = NetFields /\ m.free = n.free \ {b} /\ (m.pkt = n.pkt \/ \E k : m.pkt = [n.pkt EXCEPT ![b] = k])
  /\ m.waiting = n.waiting /\ m.proc = n.proc /\ m.owner = n.owner
  /\ m.arp = n.arp /\ m.udp = n.udp /\ m.icmp = n.icmp /\ m.oq = n.oq
  /\ m.evicted = n.evicted /\ m.misdirected = n.misdirected /\ m.bad = n.bad /\ m.overtaken = n.overtaken

\* A buffer is taken from the pool: it is in hand.
LEMMA Draws ==
  ASSUME NEW n, NEW P, NEW H, NEW b \in n.free, NEW m, Sound(n, P, H), Drawn(n, m, b)
  PROVE  Sound(m, P, H \cup {b})
<1>1. Core(n, P) /\ IsNet(n) /\ Held(n.proc, P) /\ b \in Bufs /\ H \in SUBSET Bufs
  BY DEF Sound, Core, IsNet
<1>3. /\ DOMAIN m = NetFields /\ m.free = n.free \ {b}
      /\ m.waiting = n.waiting /\ m.proc = n.proc /\ m.owner = n.owner
      /\ m.arp = n.arp /\ m.udp = n.udp /\ m.icmp = n.icmp /\ m.oq = n.oq
      /\ m.evicted = n.evicted /\ m.misdirected = n.misdirected /\ m.bad = n.bad /\ m.overtaken = n.overtaken
  BY DEF Drawn
<1>2. DOMAIN m.pkt = Bufs
  BY <1>1 DEF Drawn, IsNet
<1>4. Core(m, P)
  BY <1>1, <1>2, <1>3 DEF Core, IsNet
<1>5. ASSUME Good(n, P, H)
      PROVE  Good(m, P, H \cup {b})
  <2>1. Sited(n, P, H) /\ Distinct(n) /\ OnlyAt(n, P, H, b, "free", 0)
    <3>1. IsAt(n, P, H, b, "free", 0)
      BY DEF IsAt, AtPool
    <3> QED
      BY <1>1, <1>5, <3>1, Only DEF Good, Sited
  <2>2. Distinct(m)
    BY <1>3, <2>1 DEF Distinct
  <2>3. \A c \in Bufs \ {b} : \A l, r : IsAt(m, P, H \cup {b}, c, l, r) <=> IsAt(n, P, H, c, l, r)
    BY <1>3 DEF IsAt, AtPool
  <2>4. OnlyAt(m, P, H \cup {b}, b, "hand", 0)
    <3>1. \A l, r : AtPool(m.free, H \cup {b}, b, l, r) <=> l = "hand" /\ r = 0
      BY <1>3 DEF AtPool
    <3>2. ASSUME NEW l, NEW r
          PROVE  /\ ~ AtProc(n.proc, P, b, l, r) /\ ~ AtUdp(n.udp, b, l, r)
                 /\ ~ AtIcmp(n.icmp, b, l, r) /\ ~ AtOut(n.oq, b, l, r)
      <4>1. IsAt(n, P, H, b, l, r) => l = "free"
        BY <2>1 DEF OnlyAt
      <4> QED
        BY <4>1 DEF IsAt, AtProc, AtUdp, AtIcmp, AtOut
    <3>3. \A l, r : IsAt(m, P, H \cup {b}, b, l, r) <=> AtPool(m.free, H \cup {b}, b, l, r)
      BY <1>3, <3>2 DEF IsAt
    <3> QED
      BY <3>1, <3>3 DEF OnlyAt
  <2>5. Sited(m, P, H \cup {b})
    BY <2>1, <2>2, <2>3, <2>4, Moved
  <2>6. Routes(m.arp, m.proc, m.pkt, m.evicted, P)
    <3>1. \A q \in Procs : At(n.proc, P, q, "arp") => n.proc[q].buf \in Bufs /\ n.proc[q].buf # b
      BY <1>1, <2>1, NotInArp
    <3>2. Routes(n.arp, n.proc, n.pkt, n.evicted, P) /\ DOMAIN n.pkt = Bufs
      BY <1>1, <1>5 DEF Good, IsNet
    <3>3. CASE m.pkt = n.pkt
      BY <1>3, <3>2, <3>3
    <3>4. CASE \E k : m.pkt = [n.pkt EXCEPT ![b] = k]
      <4>1. PICK k : m.pkt = [n.pkt EXCEPT ![b] = k]
        BY <3>4
      <4>2. Routes(n.arp, n.proc, [n.pkt EXCEPT ![b] = k], n.evicted, P)
        BY <3>1, <3>2, PacketRoutes
      <4> QED
        BY <1>3, <4>1, <4>2
    <3> QED
      BY <3>3, <3>4 DEF Drawn
  <2> QED
    BY <1>3, <1>5, <2>5, <2>6 DEF Good
<1> QED
  BY <1>1, <1>3, <1>4, <1>5 DEF Sound

\* A buffer is taken from the pool for a packet.
LEMMA Takes ==
  ASSUME NEW n, NEW P, NEW H, NEW b \in n.free, NEW k, Sound(n, P, H)
  PROVE  Sound(Take(n, b, k), P, H \cup {b}) /\ Take(n, b, k).proc = n.proc /\ Take(n, b, k).pkt[b] = k
<1>1. Core(n, P) /\ IsNet(n) /\ b \in Bufs
  BY DEF Sound, Core, IsNet
<1>2. PICK m : m = Take(n, b, k)
  OBVIOUS
<1>3. Drawn(n, m, b) /\ m.pkt = [n.pkt EXCEPT ![b] = k]
  BY <1>1, <1>2 DEF Take, IsNet, NetFields, Drawn
<1>4. m.pkt[b] = k
  BY <1>1, <1>3 DEF IsNet
<1>5. Sound(m, P, H \cup {b})
  BY <1>3, Draws
<1> QED
  BY <1>2, <1>3, <1>4, <1>5 DEF Drawn

\* The packet in a buffer in hand is another.
LEMMA Fills ==
  ASSUME NEW n, NEW P, NEW H, NEW b \in H, NEW k, NEW m, Sound(n, P, H),
         Rest([n EXCEPT !.pkt[b] = k], m), m.waiting = n.waiting, m.proc = n.proc
  PROVE  Sound(m, P, H) /\ m.pkt[b] = k
<1>1. Core(n, P) /\ IsNet(n) /\ Held(n.proc, P) /\ b \in Bufs /\ H \in SUBSET Bufs
  BY DEF Sound, Core
<1>2. /\ DOMAIN m = NetFields /\ m.free = n.free /\ m.pkt = [n.pkt EXCEPT ![b] = k]
      /\ m.waiting = n.waiting /\ m.proc = n.proc /\ m.owner = n.owner
      /\ m.arp = n.arp /\ m.udp = n.udp /\ m.icmp = n.icmp /\ m.oq = n.oq
      /\ m.evicted = n.evicted /\ m.misdirected = n.misdirected /\ m.bad = n.bad /\ m.overtaken = n.overtaken
  BY <1>1 DEF Rest, IsNet, NetFields
<1>3. Core(m, P)
  BY <1>1, <1>2 DEF Core, IsNet
<1>4. ASSUME Good(n, P, H)
      PROVE  Good(m, P, H)
  <2>1. OnlyAt(n, P, H, b, "hand", 0)
    <3>1. IsAt(n, P, H, b, "hand", 0)
      BY DEF IsAt, AtPool
    <3> QED
      BY <1>1, <1>4, <3>1, Only DEF Good
  <2>2. Sited(m, P, H)
    BY <1>2, <1>4 DEF Good, Sited, Distinct, OnlyAt, IsAt
  <2>3. Routes(m.arp, m.proc, m.pkt, m.evicted, P)
    <3>1. \A q \in Procs : At(n.proc, P, q, "arp") => n.proc[q].buf \in Bufs /\ n.proc[q].buf # b
      BY <1>1, <1>4, <2>1, NotInArp DEF Good
    <3>2. Routes(n.arp, n.proc, [n.pkt EXCEPT ![b] = k], n.evicted, P)
      BY <1>1, <1>4, <3>1, PacketRoutes DEF Good, IsNet
    <3> QED
      BY <1>2, <3>2
  <2> QED
    BY <1>2, <1>4, <2>2, <2>3 DEF Good
<1> QED
  BY <1>1, <1>2, <1>3, <1>4 DEF Sound, IsNet

-----------------------------------------------------------------------------
(* A packet leaves, and the cache of addresses.                             *)

\* What freebuf leaves alone.
LEMMA FreeKeeps ==
  ASSUME NEW n, NEW b, DOMAIN n = NetFields
  PROVE  LET m == freebuf(n, b) IN
         /\ DOMAIN m = NetFields
         /\ m.owner = n.owner /\ m.arp = n.arp /\ m.udp = n.udp /\ m.icmp = n.icmp /\ m.oq = n.oq
         /\ m.evicted = n.evicted /\ m.misdirected = n.misdirected /\ m.bad = n.bad /\ m.overtaken = n.overtaken
BY DEF freebuf, NetFields

\* A note that does not matter to buffers.
LEMMA Marks ==
  ASSUME NEW n, NEW P, NEW H, NEW m, Sound(n, P, H), m.misdirected \in BOOLEAN, m.misdirected => n.evicted,
         Rest([n EXCEPT !.misdirected = m.misdirected], m), m.waiting = n.waiting, m.proc = n.proc
  PROVE  Sound(m, P, H)
<1>1. Core(n, P) /\ IsNet(n)
  BY DEF Sound, Core
<1>2. /\ DOMAIN m = NetFields /\ m.free = n.free /\ m.pkt = n.pkt
      /\ m.waiting = n.waiting /\ m.proc = n.proc /\ m.owner = n.owner
      /\ m.arp = n.arp /\ m.udp = n.udp /\ m.icmp = n.icmp /\ m.oq = n.oq
      /\ m.evicted = n.evicted /\ m.bad = n.bad /\ m.overtaken = n.overtaken
  BY <1>1 DEF Rest, IsNet, NetFields
<1>3. Core(m, P)
  BY <1>1, <1>2 DEF Core, IsNet
<1>4. Good(n, P, H) => Good(m, P, H)
  <2>1. Sited(n, P, H) => Sited(m, P, H)
    BY <1>2 DEF Sited, Distinct, OnlyAt, IsAt
  <2> QED
    BY <1>2, <2>1 DEF Good
<1> QED
  BY <1>2, <1>3, <1>4 DEF Sound

\* The packet in b leaves, and its process ends on its way.
LEMMA Leaves ==
  ASSUME NEW n, NEW p \in Procs, NEW b, NEW hop, NEW hw, Sound(n, {p}, {b}), hw # hop => n.evicted
  PROVE  Sound(ip_out(n, p, b, hop, hw), {}, {})
<1>1. PICK m : m = freebuf(n, b)
  OBVIOUS
<1>2. DOMAIN n = NetFields /\ n.misdirected \in BOOLEAN /\ (n.misdirected => n.evicted)
  BY DEF Sound, Core, IsNet
<1>3. Sound(m, {p}, {})
  <2>1. Sound(m, {p}, {b} \ {b})
    BY <1>1, Frees
  <2> QED
    BY <2>1
<1>4. DOMAIN m = NetFields /\ m.evicted = n.evicted /\ m.misdirected = n.misdirected
  BY <1>1, <1>2, FreeKeeps
<1>5. PICK w : w = [m EXCEPT !.misdirected = @ \/ hw # hop]
  OBVIOUS
<1>6. /\ Rest([m EXCEPT !.misdirected = w.misdirected], w) /\ w.waiting = m.waiting /\ w.proc = m.proc
      /\ w.misdirected = (m.misdirected \/ hw # hop)
  BY <1>4, <1>5 DEF Rest, NetFields
<1>7. Sound(w, {p}, {})
  BY <1>2, <1>3, <1>4, <1>6, Marks
<1> QED
  BY <1>1, <1>5, <1>7, Ends DEF ip_out

\* The packet in b is thrown away, and its process ends on its way.
LEMMA Drops ==
  ASSUME NEW n, NEW p \in Procs, NEW b, Sound(n, {p}, {b})
  PROVE  Sound(Done(freebuf(n, b), p), {}, {})
<1>1. Sound(freebuf(n, b), {p}, {b} \ {b})
  BY Frees
<1>2. {b} \ {b} = {}
  OBVIOUS
<1> QED
  BY <1>1, <1>2, Ends

\* An entry that nobody waits for is given to another address.
LEMMA EntryRoutes ==
  ASSUME NEW n, NEW P, NEW s \in ArpSlots, NEW e, NEW A, NEW ev, P \in SUBSET Procs,
         ArpSide(n.arp, n.proc, P), n.arp[s].state # "pending", n.evicted \in BOOLEAN,
         A = [n.arp EXCEPT ![s] = e], ev = (n.evicted \/ Unread(n, s)),
         Routes(n.arp, n.proc, n.pkt, n.evicted, P)
  PROVE  Routes(A, n.proc, n.pkt, ev, P)
<1> SUFFICES ASSUME ~ ev, NEW q \in Procs, At(n.proc, P, q, "arp")
             PROVE  Routed(A, n.proc[q], n.pkt)
  BY DEF Routes
<1>1. Routed(n.arp, n.proc[q], n.pkt) /\ n.proc[q].slot # s /\ n.proc[q].slot \in ArpSlots
  BY DEF Routes, Unread, At, ArpSide
<1>2. A[n.proc[q].slot] = n.arp[n.proc[q].slot]
  BY <1>1 DEF ArpSide
<1> QED
  BY <1>1, <1>2 DEF Routed

\* Where arp_alloc finds an entry.
LEMMA AllocEntry ==
  ASSUME NEW n, arp_alloc(n) # {}
  PROVE  First(arp_alloc(n)) \in ArpSlots /\ n.arp[First(arp_alloc(n))].state # "pending"
<1>1. arp_alloc(n) \subseteq ArpSlots /\ ArpSlots \subseteq Nat
  BY NetAssumption DEF arp_alloc, InState, ArpSlots
<1>2. First(arp_alloc(n)) \in arp_alloc(n)
  BY <1>1, FirstIn
<1> QED
  BY <1>1, <1>2 DEF arp_alloc, InState

\* The entry for an address.
LEMMA CachedEntry ==
  ASSUME NEW n, NEW ip, Cached(n, ip) # {}
  PROVE  LET s == First(Cached(n, ip)) IN
         s \in ArpSlots /\ n.arp[s].state # "free" /\ n.arp[s].addr = ip
<1>1. Cached(n, ip) \subseteq ArpSlots /\ ArpSlots \subseteq Nat
  BY NetAssumption DEF Cached, ArpSlots
<1>2. First(Cached(n, ip)) \in Cached(n, ip)
  BY <1>1, FirstIn
<1> QED
  BY <1>1, <1>2 DEF Cached

\* The process waits for the address, with its packet.
LEMMA Asks ==
  ASSUME NEW n, NEW p \in Procs, NEW b, NEW hop, Sound(n, {p}, {b}), hop = NextHop(n.pkt[b].dst),
         NEW s \in ArpSlots, n.arp[s].state # "pending"
  PROVE  Sound(Receives(NewEntry(n, s, [state |-> "pending", addr |-> hop, hw |-> NULL, pid |-> p]),
                        p, "arp", s, b, 1), {}, {})
<1>1. PICK e : e = [state |-> "pending", addr |-> hop, hw |-> NULL, pid |-> p]
  OBVIOUS
<1>2. e.state = "pending" /\ e.addr = hop /\ e.pid = p /\ DOMAIN e = ArpFields
  BY <1>1 DEF ArpFields
<1>3. PICK m : m = Receives(NewEntry(n, s, e), p, "arp", s, b, 1)
  OBVIOUS
<1>4. PICK r : r = [Home(p) EXCEPT !.at = "arp", !.slot = s, !.buf = b, !.tries = 1]
  OBVIOUS
<1>5. DOMAIN r = ProcFields /\ r.at = "arp" /\ r.slot = s /\ r.buf = b /\ r.got = NULL /\ r.msg = FALSE
  BY <1>4, HomeShape DEF ProcFields
<1>6. Core(n, {p}) /\ IsNet(n) /\ Held(n.proc, {p}) /\ ArpSide(n.arp, n.proc, {p}) /\ b \in Bufs
  BY DEF Sound, Core
<1>7. /\ DOMAIN m = NetFields /\ m.free = n.free /\ m.pkt = n.pkt
      /\ m.waiting = n.waiting /\ m.proc = [n.proc EXCEPT ![p] = r] /\ m.owner = n.owner
      /\ m.arp = [n.arp EXCEPT ![s] = e] /\ m.udp = n.udp /\ m.icmp = n.icmp /\ m.oq = n.oq
      /\ m.evicted = (n.evicted \/ Unread(n, s)) /\ m.misdirected = n.misdirected
      /\ m.bad = n.bad /\ m.overtaken = n.overtaken
  BY <1>3, <1>4, <1>6 DEF Receives, NewEntry, IsNet, NetFields
<1>8. PICK R : R = m.proc
  OBVIOUS
<1>9. DOMAIN R = Procs /\ R[p] = r /\ \A q \in Procs \ {p} : R[q] = n.proc[q]
  BY <1>6, <1>7, <1>8 DEF Held
<1>10. PICK A : A = m.arp
  OBVIOUS
<1>11. DOMAIN A = ArpSlots /\ A[s] = e /\ \A t \in ArpSlots \ {s} : A[t] = n.arp[t]
  BY <1>6, <1>7, <1>10 DEF ArpSide
<1>12. OnlyOf(n.proc, {p}, R, {}, p)
  BY <1>5, <1>6, <1>9 DEF OnlyOf, Holds, Holding, Wanting, MaybeBuf
<1>13. Held(R, {})
  BY <1>6, <1>12 DEF Held, OnlyOf, Others
<1>14. Waiters(m.waiting, R, {})
  <2>1. \A q \in Procs : Wants(R, {}, q) <=> Wants(n.proc, {p}, q)
    BY <1>5, <1>9 DEF Wants, Wanting, Others
  <2> QED
    BY <1>6, <1>7, <2>1 DEF Core, Waiters
<1>15. SameAt("udp", n.proc, {p}, R, {}) /\ SameAt("icmp", n.proc, {p}, R, {})
  BY <1>5, <1>9 DEF SameAt, At, Others
<1>16. \A q \in Procs : At(R, {}, q, "arp") <=> q = p \/ At(n.proc, {p}, q, "arp")
  BY <1>5, <1>9 DEF At, Others
<1>17. ArpSide(A, R, {})
  <2>1. ASSUME NEW t \in ArpSlots, A[t].state = "pending"
        PROVE  At(R, {}, A[t].pid, "arp") /\ R[A[t].pid].slot = t /\ ~ R[A[t].pid].msg
    <3>1. CASE t = s
      BY <1>2, <1>5, <1>9, <1>11, <1>16, <3>1
    <3>2. CASE t # s
      <4>1. At(n.proc, {p}, A[t].pid, "arp") /\ n.proc[A[t].pid].slot = t /\ ~ n.proc[A[t].pid].msg
        BY <1>6, <1>11, <2>1, <3>2 DEF ArpSide
      <4>2. A[t].pid \in Procs \ {p}
        BY <4>1 DEF At, Others
      <4> QED
        BY <1>9, <1>16, <4>1, <4>2
    <3> QED
      BY <3>1, <3>2
  <2>2. ASSUME NEW q \in Procs, At(R, {}, q, "arp")
        PROVE  R[q].slot \in ArpSlots /\ (~ R[q].msg => A[R[q].slot].state = "pending" /\ A[R[q].slot].pid = q)
    <3>1. CASE q = p
      BY <1>2, <1>5, <1>9, <1>11, <3>1
    <3>2. CASE q # p
      <4>1. /\ n.proc[q].slot \in ArpSlots
            /\ ~ n.proc[q].msg => n.arp[n.proc[q].slot].state = "pending" /\ n.arp[n.proc[q].slot].pid = q
        BY <1>6, <1>16, <2>2, <3>2 DEF ArpSide
      <4>2. R[q] = n.proc[q]
        BY <1>9, <3>2
      <4>3. CASE n.proc[q].msg
        BY <4>1, <4>2, <4>3
      <4>4. CASE ~ n.proc[q].msg
        <5>1. n.proc[q].slot # s
          BY <4>1, <4>4
        <5> QED
          BY <1>11, <4>1, <4>2, <4>4, <5>1
      <4> QED
        BY <4>3, <4>4
    <3> QED
      BY <3>1, <3>2
  <2> QED
    BY <1>2, <1>6, <1>11, <2>1, <2>2 DEF ArpSide
<1>18. Core(m, {})
  <2>1. IsNet(m)
    BY <1>6, <1>7 DEF IsNet
  <2>2. UdpSide(m.udp, R, m.owner, {}) /\ IcmpSide(m.icmp, R, m.owner, {})
    BY <1>6, <1>7, <1>15, QuietUdp, QuietIcmp DEF Core
  <2> QED
    BY <1>6, <1>7, <1>8, <1>10, <1>13, <1>14, <1>17, <2>1, <2>2 DEF Core
<1>19. ASSUME Good(n, {p}, {b})
       PROVE  Good(m, {}, {})
  <2>0. PICK E : E = {}
    OBVIOUS
  <2>1. Keeps(n.proc, {p}, {b}, R, E, E, p)
    <3>0. PICK P : P = {p}
      OBVIOUS
    <3>00. PICK H : H = {b}
      OBVIOUS
    <3> SUFFICES ASSUME NEW c \in Bufs
                 PROVE  CellMoves(n.proc, P, H, R, E, E, p, c)
      BY <3>0, <3>00, OtherCells
    <3>1. \A l, q : Cell(n.proc, P, H, p, c, l, q) <=> l = "hand" /\ q = 0 /\ c = b
      BY <3>0, <3>00 DEF Cell, AtPool, AtProc, Others
    <3>2. \A l, q : Cell(R, E, E, p, c, l, q) <=> l = "buf" /\ q = p /\ c = b
      BY <1>5, <1>9, <2>0, NetAssumption DEF Cell, AtPool, AtProc, Others
    <3>3. CASE c = b
      <4>1. Cell(n.proc, P, H, p, c, "hand", 0) /\ OnlyCell(R, E, E, p, c, "buf", p)
        BY <3>1, <3>2, <3>3 DEF OnlyCell
      <4> QED
        BY <4>1, CellMoved
    <3>4. CASE c # b
      BY <3>1, <3>2, <3>4 DEF CellMoves
    <3> QED
      BY <3>3, <3>4
  <2>2. Sited(m, {}, {})
    <3>1. SamePlaces(n, m)
      BY <1>7 DEF SamePlaces
    <3> QED
      BY <1>8, <1>12, <1>19, <2>0, <2>1, <3>1, TurnSited DEF Good
  <2>3. Routes(A, R, m.pkt, m.evicted, {})
    <3>1. Routes(A, n.proc, n.pkt, m.evicted, {p})
      <4>1. PICK P : P = {p}
        OBVIOUS
      <4>2. /\ P \in SUBSET Procs /\ ArpSide(n.arp, n.proc, P) /\ n.evicted \in BOOLEAN
            /\ Routes(n.arp, n.proc, n.pkt, n.evicted, P)
        BY <1>6, <1>19, <4>1 DEF Good, IsNet
      <4>3. A = [n.arp EXCEPT ![s] = e] /\ m.evicted = (n.evicted \/ Unread(n, s))
        BY <1>7, <1>10
      <4>4. Routes(A, n.proc, n.pkt, m.evicted, P)
        BY <4>2, <4>3, EntryRoutes
      <4> QED
        BY <4>1, <4>4
    <3>2. Routed(A, R[p], n.pkt)
      BY <1>2, <1>5, <1>9, <1>11 DEF Routed
    <3> QED
      BY <1>7, <1>9, <1>16, <3>1, <3>2 DEF Routes
  <2>4. Output(m.oq, R, {})
    <3>1. /\ At(R, {}, "ipout", "take") <=> At(n.proc, {p}, "ipout", "take")
          /\ At(R, {}, "ipout", "blocked") <=> At(n.proc, {p}, "ipout", "blocked")
      BY <1>5, <1>9 DEF At, Others
    <3> QED
      BY <1>7, <1>19, <3>1 DEF Good, Output, InOq
  <2> QED
    BY <1>7, <1>8, <1>10, <1>19, <2>2, <2>3, <2>4 DEF Good
<1> QED
  BY <1>1, <1>3, <1>7, <1>18, <1>19 DEF Sound

\* The packet in b is for the host hop.
LEMMA Resolves ==
  ASSUME NEW n, NEW p \in Procs, NEW b, NEW hop, Sound(n, {p}, {b}), hop = NextHop(n.pkt[b].dst)
  PROVE  Sound(arp_resolve(n, p, b, hop), {}, {})
<1>1. CASE Cached(n, hop) # {}
  <2>1. PICK s : s = First(Cached(n, hop))
    OBVIOUS
  <2>2. s \in ArpSlots /\ n.arp[s].addr = hop
    BY <1>1, <2>1, CachedEntry
  <2>3. CASE n.arp[s].state = "resolved"
    <3>1. n.arp[s].hw = hop
      BY <2>2, <2>3 DEF Sound, Core, ArpSide
    <3>2. Sound(ip_out(n, p, b, hop, n.arp[s].hw), {}, {})
      BY <3>1, Leaves
    <3> QED
      BY <1>1, <2>1, <2>3, <3>2 DEF arp_resolve
  <2>4. CASE n.arp[s].state # "resolved"
    BY <1>1, <2>1, <2>4, Drops DEF arp_resolve
  <2> QED
    BY <2>3, <2>4
<1>2. CASE Cached(n, hop) = {} /\ arp_alloc(n) = {}
  BY <1>2, Drops DEF arp_resolve
<1>3. CASE Cached(n, hop) = {} /\ arp_alloc(n) # {}
  <2>1. PICK s : s = First(arp_alloc(n))
    OBVIOUS
  <2>2. s \in ArpSlots /\ n.arp[s].state # "pending"
    BY <1>3, <2>1, AllocEntry
  <2>3. Sound(Receives(NewEntry(n, s, [state |-> "pending", addr |-> hop, hw |-> NULL, pid |-> p]),
                       p, "arp", s, b, 1), {}, {})
    BY <2>2, Asks
  <2> QED
    BY <1>3, <2>1, <2>3 DEF arp_resolve
<1> QED
  BY <1>1, <1>2, <1>3

\* A host that sent a request has an entry.
LEMMA NewEntries ==
  ASSUME NEW n, NEW P, NEW H, Sound(n, P, H), NEW s \in ArpSlots, n.arp[s].state # "pending",
         NEW e, DOMAIN e = ArpFields, e.state = "resolved", e.hw = e.addr
  PROVE  Sound(NewEntry(n, s, e), P, H)
<1>1. PICK m : m = NewEntry(n, s, e)
  OBVIOUS
<1>2. Core(n, P) /\ IsNet(n) /\ Held(n.proc, P) /\ ArpSide(n.arp, n.proc, P)
  BY DEF Sound, Core
<1>3. /\ DOMAIN m = NetFields /\ m.free = n.free /\ m.pkt = n.pkt
      /\ m.waiting = n.waiting /\ m.proc = n.proc /\ m.owner = n.owner
      /\ m.arp = [n.arp EXCEPT ![s] = e] /\ m.udp = n.udp /\ m.icmp = n.icmp /\ m.oq = n.oq
      /\ m.evicted = (n.evicted \/ Unread(n, s)) /\ m.misdirected = n.misdirected
      /\ m.bad = n.bad /\ m.overtaken = n.overtaken
  BY <1>1, <1>2 DEF NewEntry, IsNet, NetFields
<1>4. PICK A : A = m.arp
  OBVIOUS
<1>5. DOMAIN A = ArpSlots /\ A[s] = e /\ \A t \in ArpSlots \ {s} : A[t] = n.arp[t]
  BY <1>2, <1>3, <1>4 DEF ArpSide
<1>6. ArpSide(A, n.proc, P)
  <2>1. \A t \in ArpSlots : A[t].state = "pending" => A[t] = n.arp[t]
    BY <1>5
  <2>2. \A q \in Procs : At(n.proc, P, q, "arp") /\ ~ n.proc[q].msg => n.proc[q].slot # s
    BY <1>2 DEF ArpSide
  <2>3. \A t \in ArpSlots : A[t].state = "pending" =>
          At(n.proc, P, A[t].pid, "arp") /\ n.proc[A[t].pid].slot = t /\ ~ n.proc[A[t].pid].msg
    BY <1>2, <2>1 DEF ArpSide
  <2>4. \A q \in Procs : At(n.proc, P, q, "arp") =>
          n.proc[q].slot \in ArpSlots /\
          (~ n.proc[q].msg => A[n.proc[q].slot].state = "pending" /\ A[n.proc[q].slot].pid = q)
    BY <1>2, <1>5, <2>2 DEF ArpSide
  <2>5. \A t \in ArpSlots : DOMAIN A[t] = ArpFields /\ (A[t].state = "resolved" => A[t].hw = A[t].addr)
    BY <1>2, <1>5 DEF ArpSide
  <2> QED
    BY <1>5, <2>3, <2>4, <2>5 DEF ArpSide
<1>7. Core(m, P)
  BY <1>2, <1>3, <1>4, <1>6 DEF Core, IsNet
<1>8. ASSUME Good(n, P, H)
      PROVE  Good(m, P, H)
  <2>1. Routes(A, n.proc, n.pkt, m.evicted, P)
    <3>1. P \in SUBSET Procs /\ n.evicted \in BOOLEAN /\ Routes(n.arp, n.proc, n.pkt, n.evicted, P)
      BY <1>2, <1>8 DEF Good, IsNet, Held
    <3>2. A = [n.arp EXCEPT ![s] = e] /\ m.evicted = (n.evicted \/ Unread(n, s))
      BY <1>3, <1>4
    <3> QED
      BY <1>2, <3>1, <3>2, EntryRoutes
  <2>2. Sited(m, P, H)
    BY <1>3, <1>8 DEF Good, Sited, Distinct, OnlyAt, IsAt
  <2> QED
    BY <1>3, <1>4, <1>8, <2>1, <2>2 DEF Good
<1> QED
  BY <1>1, <1>3, <1>7, <1>8 DEF Sound

\* The address of a host that has an entry becomes known.
LEMMA Learns ==
  ASSUME NEW n, NEW P, NEW H, Sound(n, P, H), NEW a \in ArpArrivals
  PROVE  Sound(Learn(n, a), P, H)
<1>1. CASE Cached(n, a.from) = {}
  BY <1>1 DEF Learn
<1>2. CASE Cached(n, a.from) # {}
  <2>1. PICK s : s = First(Cached(n, a.from))
    OBVIOUS
  <2>2. s \in ArpSlots /\ n.arp[s].state # "free" /\ n.arp[s].addr = a.from
    BY <1>2, <2>1, CachedEntry
  <2>3. Core(n, P) /\ IsNet(n) /\ Held(n.proc, P) /\ ArpSide(n.arp, n.proc, P)
    BY DEF Sound, Core
  <2>4. a.hw = a.from
    BY NetAssumption
  <2>5. PICK k : k = [n EXCEPT !.arp[s].hw = a.hw]
    OBVIOUS
  <2>6. PICK B : B = k.arp
    OBVIOUS
  <2>7. /\ DOMAIN k = NetFields /\ k.free = n.free /\ k.pkt = n.pkt
        /\ k.waiting = n.waiting /\ k.proc = n.proc /\ k.owner = n.owner
        /\ B = [n.arp EXCEPT ![s] = [n.arp[s] EXCEPT !.hw = a.hw]]
        /\ k.udp = n.udp /\ k.icmp = n.icmp /\ k.oq = n.oq
        /\ k.evicted = n.evicted /\ k.misdirected = n.misdirected
        /\ k.bad = n.bad /\ k.overtaken = n.overtaken
    BY <2>3, <2>5, <2>6 DEF IsNet, NetFields
  <2>8. /\ DOMAIN B = ArpSlots /\ (\A t \in ArpSlots : DOMAIN B[t] = ArpFields)
        /\ B[s].hw = a.hw /\ B[s].state = n.arp[s].state /\ B[s].addr = a.from /\ B[s].pid = n.arp[s].pid
        /\ \A t \in ArpSlots \ {s} : B[t] = n.arp[t]
    BY <2>2, <2>3, <2>7 DEF ArpSide, ArpFields
  <2>9. CASE n.arp[s].state # "pending"
    <3>1. Learn(n, a) = k
      BY <1>2, <2>1, <2>5, <2>9 DEF Learn
    <3>2. \A t \in ArpSlots : B[t].state = n.arp[t].state /\ B[t].pid = n.arp[t].pid /\ B[t].addr = n.arp[t].addr
      BY <2>2, <2>8
    <3>3. ArpSide(B, n.proc, P)
      BY <2>2, <2>3, <2>4, <2>8, <3>2 DEF ArpSide
    <3>4. Core(k, P)
      BY <2>3, <2>6, <2>7, <3>3 DEF Core, IsNet
    <3>5. Good(n, P, H) => Good(k, P, H)
      <4>1. Routes(n.arp, n.proc, n.pkt, n.evicted, P) => Routes(B, n.proc, n.pkt, n.evicted, P)
        <5>1. \A q \in Procs : At(n.proc, P, q, "arp") => n.proc[q].slot \in ArpSlots
          BY <2>3 DEF ArpSide
        <5>2. \A q \in Procs : At(n.proc, P, q, "arp") /\ Routed(n.arp, n.proc[q], n.pkt) => Routed(B, n.proc[q], n.pkt)
          BY <3>2, <5>1 DEF Routed
        <5> QED
          BY <5>2 DEF Routes
      <4>2. Sited(n, P, H) => Sited(k, P, H)
        BY <2>7 DEF Sited, Distinct, OnlyAt, IsAt
      <4> QED
        BY <2>6, <2>7, <4>1, <4>2 DEF Good
    <3> QED
      BY <2>7, <3>1, <3>4, <3>5 DEF Sound
  <2>10. CASE n.arp[s].state = "pending"
    <3>1. PICK p : p = n.arp[s].pid
      OBVIOUS
    <3>2. /\ At(n.proc, P, p, "arp") /\ n.proc[p].slot = s /\ ~ n.proc[p].msg
          /\ p \in Procs /\ p \notin P /\ n.proc[p].at = "arp"
      BY <2>2, <2>3, <2>10, <3>1 DEF ArpSide, At, Others
    <3>3. PICK m : m = Learn(n, a)
      OBVIOUS
    <3>4. m = send([k EXCEPT !.arp[s].state = "resolved"], p)
      BY <1>2, <2>1, <2>5, <2>10, <3>1, <3>3 DEF Learn
    <3>5. PICK j : j = [k EXCEPT !.arp[s].state = "resolved"]
      OBVIOUS
    <3>6. /\ DOMAIN j = NetFields /\ j.free = n.free /\ j.pkt = n.pkt
          /\ j.waiting = n.waiting /\ j.proc = n.proc /\ j.owner = n.owner
          /\ j.arp = [B EXCEPT ![s] = [B[s] EXCEPT !.state = "resolved"]]
          /\ j.udp = n.udp /\ j.icmp = n.icmp /\ j.oq = n.oq
          /\ j.evicted = n.evicted /\ j.misdirected = n.misdirected
          /\ j.bad = n.bad /\ j.overtaken = n.overtaken
      BY <2>6, <2>7, <3>5 DEF NetFields
    <3>7. m = [j EXCEPT !.proc[p].msg = TRUE]
      BY <3>2, <3>4, <3>5, <3>6 DEF send
    <3>8. /\ DOMAIN m = NetFields /\ m.free = n.free /\ m.pkt = n.pkt
          /\ m.waiting = n.waiting /\ m.proc = [n.proc EXCEPT ![p] = [n.proc[p] EXCEPT !.msg = TRUE]]
          /\ m.owner = n.owner /\ m.arp = j.arp
          /\ m.udp = n.udp /\ m.icmp = n.icmp /\ m.oq = n.oq
          /\ m.evicted = n.evicted /\ m.misdirected = n.misdirected
          /\ m.bad = n.bad /\ m.overtaken = n.overtaken
      BY <3>6, <3>7 DEF NetFields
    <3>9. PICK A : A = m.arp
      OBVIOUS
    <3>10. /\ DOMAIN A = ArpSlots /\ (\A t \in ArpSlots : DOMAIN A[t] = ArpFields)
           /\ A[s].hw = a.hw /\ A[s].state = "resolved" /\ A[s].addr = a.from /\ A[s].pid = p
           /\ \A t \in ArpSlots \ {s} : A[t] = n.arp[t]
      BY <2>2, <2>8, <3>1, <3>6, <3>8, <3>9 DEF ArpFields
    <3>11. PICK R : R = m.proc
      OBVIOUS
    <3>12. /\ DOMAIN R = Procs /\ (\A q \in Procs \ {p} : R[q] = n.proc[q])
           /\ DOMAIN R[p] = ProcFields /\ R[p].msg = TRUE /\ R[p].at = "arp" /\ R[p].slot = s
           /\ R[p].buf = n.proc[p].buf /\ R[p].got = n.proc[p].got
      BY <2>3, <3>2, <3>8, <3>11 DEF Held, ProcFields
    <3>13. OnlyOf(n.proc, P, R, P, p)
      BY <2>3, <3>2, <3>12 DEF OnlyOf, Held, Holds, Others
    <3>14. Held(R, P)
      BY <2>3, <3>2, <3>12, <3>13 DEF Held, OnlyOf, Others
    <3>15. Waiters(m.waiting, R, P)
      <4>1. \A q \in Procs : Wants(R, P, q) <=> Wants(n.proc, P, q)
        BY <3>2, <3>12 DEF Wants
      <4> QED
        BY <2>3, <3>8, <4>1 DEF Core, Waiters
    <3>16. SameAt("udp", n.proc, P, R, P) /\ SameAt("icmp", n.proc, P, R, P)
      BY <3>2, <3>12 DEF SameAt, At
    <3>17. \A q \in Procs : At(R, P, q, "arp") <=> At(n.proc, P, q, "arp")
      BY <3>2, <3>12 DEF At
    <3>18. ArpSide(A, R, P)
      <4>1. ASSUME NEW t \in ArpSlots, A[t].state = "pending"
            PROVE  At(R, P, A[t].pid, "arp") /\ R[A[t].pid].slot = t /\ ~ R[A[t].pid].msg
        <5>1. t # s /\ A[t] = n.arp[t]
          BY <3>10, <4>1
        <5>2. At(n.proc, P, A[t].pid, "arp") /\ n.proc[A[t].pid].slot = t /\ ~ n.proc[A[t].pid].msg
          BY <2>3, <4>1, <5>1 DEF ArpSide
        <5>3. A[t].pid \in Procs /\ A[t].pid # p
          BY <3>2, <5>1, <5>2 DEF At, Others
        <5> QED
          BY <3>12, <3>17, <5>2, <5>3
      <4>2. ASSUME NEW q \in Procs, At(R, P, q, "arp")
            PROVE  R[q].slot \in ArpSlots /\ (~ R[q].msg => A[R[q].slot].state = "pending" /\ A[R[q].slot].pid = q)
        <5>1. CASE q = p
          BY <2>2, <3>12, <5>1
        <5>2. CASE q # p
          <6>1. /\ n.proc[q].slot \in ArpSlots
                /\ ~ n.proc[q].msg => n.arp[n.proc[q].slot].state = "pending" /\ n.arp[n.proc[q].slot].pid = q
            BY <2>3, <3>17, <4>2, <5>2 DEF ArpSide
          <6>2. R[q] = n.proc[q]
            BY <3>12, <5>2
          <6>3. CASE n.proc[q].slot = s
            BY <3>1, <5>2, <6>1, <6>2, <6>3
          <6>4. CASE n.proc[q].slot # s
            BY <3>10, <6>1, <6>2, <6>4
          <6> QED
            BY <6>3, <6>4
        <5> QED
          BY <5>1, <5>2
      <4>3. \A t \in ArpSlots : A[t].state = "resolved" => A[t].hw = A[t].addr
        BY <2>3, <2>4, <3>10 DEF ArpSide
      <4> QED
        BY <3>10, <4>1, <4>2, <4>3 DEF ArpSide
    <3>19. Core(m, P)
      <4>1. IsNet(m)
        BY <2>3, <3>8 DEF IsNet
      <4>2. UdpSide(m.udp, R, m.owner, P) /\ IcmpSide(m.icmp, R, m.owner, P)
        BY <2>3, <3>8, <3>16, QuietUdp, QuietIcmp DEF Core
      <4> QED
        BY <2>3, <3>8, <3>9, <3>11, <3>14, <3>15, <3>18, <4>1, <4>2 DEF Core
    <3>20. ASSUME Good(n, P, H)
           PROVE  Good(m, P, H)
      <4>1. Keeps(n.proc, P, H, R, P, H, p)
        <5>1. ASSUME NEW b \in Bufs
              PROVE  \A l, r : Cell(R, P, H, p, b, l, r) <=> Cell(n.proc, P, H, p, b, l, r)
          BY <3>12 DEF Cell, AtProc
        <5> QED
          BY <5>1, SameCells
      <4>2. Sited(m, P, H)
        <5>1. SamePlaces(n, m)
          BY <3>8 DEF SamePlaces
        <5> QED
          BY <3>2, <3>11, <3>13, <3>20, <4>1, <5>1, TurnSited DEF Good
      <4>3. Routes(A, R, m.pkt, m.evicted, P)
        <5> SUFFICES ASSUME ~ n.evicted, NEW q \in Procs, At(R, P, q, "arp")
                     PROVE  Routed(A, R[q], n.pkt)
          BY <3>8 DEF Routes
        <5>1. Routed(n.arp, n.proc[q], n.pkt)
          BY <3>17, <3>20 DEF Good, Routes
        <5>2. R[q].slot = n.proc[q].slot /\ R[q].buf = n.proc[q].buf /\ R[q].slot \in ArpSlots
          BY <3>12, <3>18, <3>2 DEF ArpSide
        <5>3. A[R[q].slot].addr = n.arp[R[q].slot].addr
          BY <2>2, <3>10, <5>2
        <5>4. R[q].msg => A[R[q].slot].state = "resolved"
          <6>1. CASE R[q].slot = s
            BY <3>10, <6>1
          <6>2. CASE R[q].slot # s
            BY <3>2, <3>10, <3>12, <5>1, <5>2, <6>2 DEF Routed
          <6> QED
            BY <6>1, <6>2
        <5> QED
          BY <5>1, <5>2, <5>3, <5>4 DEF Routed
      <4>4. Output(m.oq, R, P)
        <5>1. /\ At(R, P, "ipout", "take") <=> At(n.proc, P, "ipout", "take")
              /\ At(R, P, "ipout", "blocked") <=> At(n.proc, P, "ipout", "blocked")
          BY <3>2, <3>12 DEF At, Others
        <5> QED
          BY <3>8, <3>20, <5>1 DEF Good, Output, InOq
      <4> QED
        BY <3>8, <3>9, <3>11, <3>20, <4>2, <4>3, <4>4 DEF Good
    <3> QED
      BY <3>3, <3>8, <3>19, <3>20 DEF Sound
  <2> QED
    BY <2>9, <2>10
<1> QED
  BY <1>1, <1>2

\* An ARP packet arrives.
LEMMA ArpIn ==
  ASSUME NEW n, NEW P, NEW H, Sound(n, P, H), NEW a \in ArpArrivals
  PROVE  Sound(arp_in(n, a), P, H)
<1>1. CASE Adds(n, a) /\ arp_alloc(n) # {}
  <2>1. PICK e : e = [state |-> "resolved", addr |-> a.from, hw |-> a.hw, pid |-> NULL]
    OBVIOUS
  <2>2. DOMAIN e = ArpFields /\ e.state = "resolved" /\ e.hw = e.addr
    BY <2>1, NetAssumption DEF ArpFields
  <2>3. First(arp_alloc(n)) \in ArpSlots /\ n.arp[First(arp_alloc(n))].state # "pending"
    BY <1>1, AllocEntry
  <2>4. Sound(NewEntry(n, First(arp_alloc(n)), e), P, H)
    BY <2>2, <2>3, NewEntries
  <2> QED
    BY <1>1, <2>1, <2>4 DEF arp_in
<1>2. CASE ~ (Adds(n, a) /\ arp_alloc(n) # {})
  BY <1>2, Learns DEF arp_in
<1> QED
  BY <1>1, <1>2

-----------------------------------------------------------------------------
(* The output queue and the queues of the endpoints.                        *)

In(buf, N, x) == \E i \in 0 .. N - 1 : buf[i] = x

\* A buffer is put into an array at a place without one.
LEMMA ArrayPut ==
  ASSUME NEW N \in Nat, NEW t \in 0 .. N - 1, NEW buf, DOMAIN buf = 0 .. N - 1, Injective(buf, N),
         buf[t] = NULL, NEW x, ~ In(buf, N, x)
  PROVE  /\ Injective([buf EXCEPT ![t] = x], N)
         /\ \A c \in Bufs : In([buf EXCEPT ![t] = x], N, c) <=> c = x \/ In(buf, N, c)
<1>1. PICK w : w = [buf EXCEPT ![t] = x]
  OBVIOUS
<1>2. w[t] = x /\ \A i \in 0 .. N - 1 : i # t => w[i] = buf[i]
  BY <1>1
<1>3. Injective(w, N)
  BY <1>2 DEF Injective, In
<1>4. ASSUME NEW c \in Bufs
      PROVE  In(w, N, c) <=> c = x \/ In(buf, N, c)
  BY <1>2, NetAssumption DEF In
<1> QED
  BY <1>1, <1>3, <1>4

\* A buffer is taken from an array.
LEMMA ArrayGet ==
  ASSUME NEW N \in Nat, NEW h \in 0 .. N - 1, NEW buf, DOMAIN buf = 0 .. N - 1, Injective(buf, N),
         buf[h] # NULL
  PROVE  /\ Injective([buf EXCEPT ![h] = NULL], N)
         /\ \A c \in Bufs : In([buf EXCEPT ![h] = NULL], N, c) <=> c # buf[h] /\ In(buf, N, c)
<1>1. PICK w : w = [buf EXCEPT ![h] = NULL]
  OBVIOUS
<1>2. w[h] = NULL /\ \A i \in 0 .. N - 1 : i # h => w[i] = buf[i]
  BY <1>1
<1>3. Injective(w, N)
  BY <1>2 DEF Injective
<1>4. ASSUME NEW c \in Bufs
      PROVE  In(w, N, c) <=> c # buf[h] /\ In(buf, N, c)
  <2>1. c # NULL
    BY NetAssumption
  <2> QED
    BY <1>2, <2>1 DEF In, Injective
<1> QED
  BY <1>1, <1>3, <1>4

\* The output queue is a ring.
OutRing(B, h, t, c) ==
  /\ h \in 0 .. IP_OQSIZ - 1 /\ t \in 0 .. IP_OQSIZ - 1 /\ DOMAIN B = 0 .. IP_OQSIZ - 1
  /\ Ring(B, IP_OQSIZ, h, t, c)
OutSlot(t) == Wrap(t + 1, IP_OQSIZ)

\* The tail of the output queue, which is empty unless the queue is full.
LEMMA TailPut ==
  ASSUME NEW B, NEW head, NEW tail, NEW c, NEW b, b # NULL, OutRing(B, head, tail, c),
         NEW w, w = Put(B, tail, b)
  PROVE  /\ c \in Int /\ (B[tail] = NULL <=> c < IP_OQSIZ)
         /\ c < IP_OQSIZ => OutRing(w, head, OutSlot(tail), c + 1)
<1> USE DEF OutRing
<1>1. PICK N \in Nat \ {0} : N = IP_OQSIZ
  BY NetAssumption
<1>2. /\ DOMAIN B = 0 .. N - 1 /\ Ring(B, N, head, tail, c)
      /\ head \in 0 .. N - 1 /\ tail \in 0 .. N - 1 /\ c \in 0 .. N
  BY <1>1 DEF Ring
<1>3. /\ B[tail] = NULL <=> c < N
      /\ c < N => Ring(w, N, head, Wrap(tail + 1, N), c + 1)
  BY <1>2, RingPut
<1>4. DOMAIN w = 0 .. N - 1 /\ Wrap(tail + 1, N) \in 0 .. N - 1
  BY <1>1, <1>2, NextPlace DEF Put
<1>5. Wrap(tail + 1, N) = OutSlot(tail)
  BY <1>1 DEF OutSlot
<1> QED
  BY <1>1, <1>2, <1>3, <1>4, <1>5

\* A packet is put into the output queue.
LEMMA Enqueues ==
  ASSUME NEW n, NEW P, NEW H, NEW b \in H, Sound(n, P, H)
  PROVE  Sound(ip_enqueue(n, b), P, H \ {b})
<1>1. CASE n.oq.sem >= IP_OQSIZ
  BY <1>1, Frees DEF ip_enqueue
<1>2. CASE ~ (n.oq.sem >= IP_OQSIZ)
  <2>1. Core(n, P) /\ IsNet(n) /\ Held(n.proc, P) /\ IsQueue(n.oq) /\ b \in Bufs /\ H \in SUBSET Bufs /\ b # NULL
    BY NetAssumption DEF Sound, Core
  <2>2. PICK m : m = ip_enqueue(n, b)
    OBVIOUS
  <2>3. PICK Q : Q = m.oq
    OBVIOUS
  <2>4. PICK sem \in Int, head \in 0 .. IP_OQSIZ - 1, tail \in 0 .. IP_OQSIZ - 1 :
          sem = n.oq.sem /\ head = n.oq.head /\ tail = n.oq.tail
    BY <2>1 DEF IsQueue
  <2>5. PICK k : k = [n EXCEPT !.oq.buf[tail] = b, !.oq.tail = (@ + 1) % IP_OQSIZ, !.oq.sem = @ + 1,
                               !.overtaken = @ \/ n.oq.buf[tail] # NULL]
    OBVIOUS
  <2>6. /\ DOMAIN k = NetFields /\ k.free = n.free /\ k.pkt = n.pkt
        /\ k.waiting = n.waiting /\ k.proc = n.proc /\ k.owner = n.owner
        /\ k.arp = n.arp /\ k.udp = n.udp /\ k.icmp = n.icmp
        /\ k.evicted = n.evicted /\ k.misdirected = n.misdirected /\ k.bad = n.bad
        /\ k.overtaken = (n.overtaken \/ n.oq.buf[tail] # NULL)
        /\ DOMAIN k.oq = OqFields /\ k.oq.buf = [n.oq.buf EXCEPT ![tail] = b] /\ k.oq.head = head
        /\ k.oq.tail = (tail + 1) % IP_OQSIZ /\ k.oq.sem = sem + 1
    BY <2>1, <2>4, <2>5 DEF IsNet, NetFields, IsQueue, OqFields
  <2>7. m = IF n.proc["ipout"].at = "blocked" THEN [k EXCEPT !.proc["ipout"].at = "take"] ELSE k
    BY <1>2, <2>2, <2>4, <2>5 DEF ip_enqueue
  <2>8. PICK R : R = m.proc
    OBVIOUS
  <2>9. "ipout" \in Procs
    BY DEF Procs
  <2>10. /\ DOMAIN m = NetFields /\ m.free = n.free /\ m.pkt = n.pkt
         /\ m.waiting = n.waiting /\ m.owner = n.owner
         /\ m.arp = n.arp /\ m.udp = n.udp /\ m.icmp = n.icmp /\ m.oq = k.oq
         /\ m.evicted = n.evicted /\ m.misdirected = n.misdirected /\ m.bad = n.bad
         /\ m.overtaken = (n.overtaken \/ n.oq.buf[tail] # NULL)
         /\ R = IF n.proc["ipout"].at = "blocked"
                THEN [n.proc EXCEPT !["ipout"] = [n.proc["ipout"] EXCEPT !.at = "take"]] ELSE n.proc
    BY <2>6, <2>7, <2>8 DEF NetFields
  <2>11. /\ DOMAIN R = Procs /\ (\A q \in Procs \ {"ipout"} : R[q] = n.proc[q])
         /\ DOMAIN R["ipout"] = ProcFields
         /\ R["ipout"].at = IF n.proc["ipout"].at = "blocked" THEN "take" ELSE n.proc["ipout"].at
         /\ R["ipout"].buf = n.proc["ipout"].buf /\ R["ipout"].got = n.proc["ipout"].got
         /\ R["ipout"].msg = n.proc["ipout"].msg /\ R["ipout"].slot = n.proc["ipout"].slot
    <3>1. CASE n.proc["ipout"].at = "blocked"
      BY <2>1, <2>9, <2>10, <3>1 DEF Held, ProcFields
    <3>2. CASE n.proc["ipout"].at # "blocked"
      BY <2>1, <2>9, <2>10, <3>2 DEF Held, ProcFields
    <3> QED
      BY <3>1, <3>2
  <2>12. "ipout" \in P => n.proc["ipout"].at # "blocked"
    BY <2>1 DEF Held
  <2>13. OnlyOf(n.proc, P, R, P, "ipout")
    BY <2>1, <2>9, <2>11, <2>12 DEF OnlyOf, Held, Holds, Others, Holding, Wanting
  <2>14. Held(R, P)
    BY <2>1, <2>9, <2>11, <2>13 DEF Held, OnlyOf, Others
  <2>15. Waiters(m.waiting, R, P)
    <3>1. \A q \in Procs : Wants(R, P, q) <=> Wants(n.proc, P, q)
      BY <2>9, <2>11 DEF Wants, Wanting
    <3> QED
      BY <2>1, <2>10, <3>1 DEF Core, Waiters
  <2>16. Quiet(n.proc, P, R, P)
    <3>1. CASE n.proc["ipout"].at = "blocked"
      BY <2>9, <2>11, <3>1, QuietChange
    <3>2. CASE n.proc["ipout"].at # "blocked"
      <4>1. R = n.proc
        BY <2>10, <3>2
      <4> QED
        BY <4>1 DEF Quiet, SameAt
    <3> QED
      BY <3>1, <3>2
  <2>17. (tail + 1) % IP_OQSIZ = Wrap(tail + 1, IP_OQSIZ) /\ Wrap(tail + 1, IP_OQSIZ) \in 0 .. IP_OQSIZ - 1
    BY NextPlace, NetAssumption
  <2>18. Core(m, P)
    <3>1. IsNet(m) /\ IsQueue(m.oq)
      <4>1. IsNet(m)
        BY <2>1, <2>10 DEF IsNet
      <4>2. k.oq.buf \in [0 .. IP_OQSIZ - 1 -> MaybeBuf]
        BY <2>1, <2>6 DEF IsQueue, MaybeBuf
      <4>3. sem + 1 \in Int
        OBVIOUS
      <4> QED
        BY <2>6, <2>10, <2>17, <4>1, <4>2, <4>3 DEF IsQueue
    <3>2. UdpSide(m.udp, R, m.owner, P) /\ IcmpSide(m.icmp, R, m.owner, P) /\ ArpSide(m.arp, R, P)
      BY <2>1, <2>10, <2>16, QuietUdp, QuietIcmp, QuietArp DEF Core, Quiet
    <3> QED
      BY <2>1, <2>8, <2>10, <2>14, <2>15, <3>1, <3>2 DEF Core
  <2>19. ASSUME Good(n, P, H), n.oq.buf[tail] = NULL
         PROVE  Good(m, P, H \ {b})
    <3>0. PICK G : G = H \ {b}
      OBVIOUS
    <3>1. /\ Sited(n, P, H) /\ Distinct(n) /\ OnlyAt(n, P, H, b, "hand", 0)
      <4>1. IsAt(n, P, H, b, "hand", 0)
        BY DEF IsAt, AtPool
      <4> QED
        BY <2>1, <2>19, <4>1, Only DEF Good, Sited
    <3>2. \A l, r : /\ ~ AtProc(n.proc, P, b, l, r) /\ ~ AtUdp(n.udp, b, l, r)
                    /\ ~ AtIcmp(n.icmp, b, l, r) /\ ~ AtOut(n.oq, b, l, r)
      BY <3>1, InHand
    <3>3. ~ In(n.oq.buf, IP_OQSIZ, b)
      <4>1. ~ AtOut(n.oq, b, "out", 0)
        BY <3>2
      <4> QED
        BY <4>1 DEF AtOut, In
    <3>4. /\ Injective(k.oq.buf, IP_OQSIZ)
          /\ \A c \in Bufs : In(k.oq.buf, IP_OQSIZ, c) <=> c = b \/ In(n.oq.buf, IP_OQSIZ, c)
      <4>1. PICK B : B = n.oq.buf
        OBVIOUS
      <4>2. DOMAIN B = 0 .. IP_OQSIZ - 1 /\ Injective(B, IP_OQSIZ) /\ B[tail] = NULL /\ ~ In(B, IP_OQSIZ, b)
        BY <2>1, <2>19, <3>1, <3>3, <4>1 DEF IsQueue, Distinct
      <4>3. k.oq.buf = [B EXCEPT ![tail] = b] /\ IP_OQSIZ \in Nat
        BY <2>6, <4>1, NetAssumption
      <4> QED
        BY <4>1, <4>2, <4>3, ArrayPut
    <3>5. Distinct(m)
      BY <2>10, <3>1, <3>4 DEF Distinct
    <3>6. \A c \in Bufs : \A l, r : AtProc(R, P, c, l, r) <=> AtProc(n.proc, P, c, l, r)
      <4>1. \A q \in Procs : R[q].buf = n.proc[q].buf /\ R[q].got = n.proc[q].got
        BY <2>9, <2>11
      <4> QED
        BY <4>1 DEF AtProc, Others
    <3>7. \A c \in Bufs : \A l, r : AtOut(m.oq, c, l, r) <=> l = "out" /\ r = 0 /\ (c = b \/ In(n.oq.buf, IP_OQSIZ, c))
      BY <2>10, <3>4 DEF AtOut, In
    <3>8. \A c \in Bufs \ {b} : \A l, r : IsAt(m, P, G, c, l, r) <=> IsAt(n, P, H, c, l, r)
      <4>1. \A c \in Bufs \ {b} : \A l, r : AtOut(m.oq, c, l, r) <=> AtOut(n.oq, c, l, r)
        BY <3>7 DEF AtOut, In
      <4>2. \A c \in Bufs \ {b} : \A l, r : AtPool(m.free, G, c, l, r) <=> AtPool(n.free, H, c, l, r)
        BY <2>10, <3>0 DEF AtPool
      <4> QED
        BY <2>8, <2>10, <3>6, <4>1, <4>2 DEF IsAt
    <3>9. OnlyAt(m, P, G, b, "out", 0)
      <4>1. \A l, r : AtOut(m.oq, b, l, r) <=> l = "out" /\ r = 0
        BY <2>1, <3>7
      <4>2. \A l, r : ~ AtPool(m.free, G, b, l, r)
        <5>1. b \notin n.free
          BY <3>1 DEF OnlyAt, IsAt, AtPool
        <5> QED
          BY <2>10, <3>0, <5>1 DEF AtPool
      <4>3. \A l, r : IsAt(m, P, G, b, l, r) <=> AtOut(m.oq, b, l, r)
        BY <2>1, <2>8, <2>10, <3>2, <3>6, <4>2 DEF IsAt
      <4> QED
        BY <4>1, <4>3 DEF OnlyAt
    <3>10. Sited(m, P, G)
      BY <3>1, <3>5, <3>8, <3>9, Moved
    <3>11. Routes(m.arp, R, m.pkt, m.evicted, P)
      BY <2>10, <2>16, <2>19, QuietRoutes DEF Good, Quiet
    <3>12. Output(m.oq, R, P)
      <4>1. PICK c : c = InOq(n.oq, n.proc, P)
        OBVIOUS
      <4>2. /\ sem \in -1 .. IP_OQSIZ /\ (sem = -1 <=> At(n.proc, P, "ipout", "blocked"))
            /\ Ring(n.oq.buf, IP_OQSIZ, head, tail, c)
        BY <2>4, <2>19, <4>1 DEF Good, Output
      <4>3. c < IP_OQSIZ /\ Ring(k.oq.buf, IP_OQSIZ, head, Wrap(tail + 1, IP_OQSIZ), c + 1)
        <5>1. PICK B : B = n.oq.buf
          OBVIOUS
        <5>2. B[tail] = NULL /\ OutRing(B, head, tail, c)
          BY <2>1, <2>19, <4>2, <5>1 DEF IsQueue, OutRing
        <5>3. PICK w : w = Put(B, tail, b)
          OBVIOUS
        <5>4. b # NULL
          BY <2>1
        <5>5. /\ c \in Int /\ (B[tail] = NULL <=> c < IP_OQSIZ)
              /\ c < IP_OQSIZ => OutRing(w, head, OutSlot(tail), c + 1)
          BY <5>2, <5>3, <5>4, TailPut
        <5>6. k.oq.buf = w
          BY <2>6, <5>1, <5>3 DEF Put
        <5> QED
          BY <5>2, <5>5, <5>6 DEF OutRing, OutSlot
      <4>4. /\ sem + 1 \in -1 .. IP_OQSIZ /\ ~ At(R, P, "ipout", "blocked") /\ sem + 1 # -1
            /\ c \in Int /\ InOq(m.oq, R, P) = c + 1
        <5>1. sem + 1 \in -1 .. IP_OQSIZ /\ sem + 1 # -1
          BY <1>2, <2>4, <4>2, NetAssumption
        <5>2. At(n.proc, P, "ipout", "blocked") =>
                At(R, P, "ipout", "take") /\ ~ At(n.proc, P, "ipout", "take")
          BY <2>11 DEF At
        <5>3. ~ At(n.proc, P, "ipout", "blocked") =>
                (At(R, P, "ipout", "take") <=> At(n.proc, P, "ipout", "take"))
          BY <2>11, <2>12 DEF At, Others
        <5>4. ~ At(R, P, "ipout", "blocked")
          BY <2>11 DEF At
        <5>5. m.oq.sem = sem + 1
          BY <2>6, <2>10
        <5>6. CASE sem = -1
          BY <2>4, <4>1, <4>2, <5>1, <5>2, <5>4, <5>5, <5>6 DEF InOq
        <5>7. CASE sem # -1
          BY <2>4, <4>1, <4>2, <5>1, <5>3, <5>4, <5>5, <5>7 DEF InOq
        <5> QED
          BY <5>6, <5>7
      <4> QED
        BY <2>6, <2>10, <2>17, <4>3, <4>4 DEF Output
    <3> QED
      BY <2>8, <2>10, <2>19, <3>0, <3>10, <3>11, <3>12 DEF Good
  <2> QED
    BY <2>1, <2>2, <2>10, <2>18, <2>19 DEF Sound
<1> QED
  BY <1>1, <1>2

-----------------------------------------------------------------------------
(* The endpoints.                                                           *)

\* The places of the tables, and records with the same buffers.
Tables(n, b, l, r) == AtUdp(n.udp, b, l, r) \/ AtIcmp(n.icmp, b, l, r) \/ AtOut(n.oq, b, l, r)
SameRecords(R, S) == \A q \in Procs : S[q].buf = R[q].buf /\ S[q].got = R[q].got
TablesGain(n, m, b, k, q) == \A c \in Bufs : \A l, r : Tables(m, c, l, r) <=> Tables(n, c, l, r) \/ (c = b /\ l = k /\ r = q)
TablesLose(n, m, b) == \A c \in Bufs : \A l, r : Tables(m, c, l, r) <=> Tables(n, c, l, r) /\ c # b

\* A buffer in hand is put into a table.
LEMMA Placed ==
  ASSUME NEW n, NEW P, NEW H, NEW m, NEW b \in H, b \in Bufs, NEW k, NEW q, NEW G, G = H \ {b},
         Sited(n, P, H), Distinct(m), m.free = n.free, SameRecords(n.proc, m.proc),
         TablesGain(n, m, b, k, q)
  PROVE  Sited(m, P, G)
<1> USE DEF TablesGain
<1>1. OnlyAt(n, P, H, b, "hand", 0)
  <2>1. IsAt(n, P, H, b, "hand", 0)
    BY DEF IsAt, AtPool
  <2> QED
    BY <2>1, Only
<1>2. \A l, r : ~ AtProc(n.proc, P, b, l, r) /\ ~ Tables(n, b, l, r)
  BY <1>1, InHand DEF Tables
<1>3. \A c \in Bufs : \A l, r : AtProc(m.proc, P, c, l, r) <=> AtProc(n.proc, P, c, l, r)
  BY DEF AtProc, Others, SameRecords
<1>4. \A c \in Bufs \ {b} : \A l, r : IsAt(m, P, G, c, l, r) <=> IsAt(n, P, H, c, l, r)
  <2>1. \A c \in Bufs \ {b} : \A l, r : AtPool(m.free, G, c, l, r) <=> AtPool(n.free, H, c, l, r)
    BY DEF AtPool
  <2>2. \A c \in Bufs \ {b} : \A l, r : Tables(m, c, l, r) <=> Tables(n, c, l, r)
    OBVIOUS
  <2> QED
    BY <1>3, <2>1, <2>2 DEF IsAt, Tables
<1>5. OnlyAt(m, P, G, b, k, q)
  <2>1. b \notin n.free
    BY <1>1 DEF OnlyAt, IsAt, AtPool
  <2>2. \A l, r : ~ AtPool(m.free, G, b, l, r)
    BY <2>1 DEF AtPool
  <2>3. \A l, r : IsAt(m, P, G, b, l, r) <=> Tables(m, b, l, r)
    BY <1>2, <1>3, <2>2 DEF IsAt, Tables
  <2> QED
    BY <1>2, <2>3 DEF OnlyAt
<1> QED
  BY <1>4, <1>5, Moved

\* A buffer is taken from a table.
LEMMA Removed ==
  ASSUME NEW n, NEW P, NEW H, NEW m, NEW b \in Bufs, NEW k, NEW q, NEW G, G = H \cup {b}, Tables(n, b, k, q),
         Sited(n, P, H), Distinct(m), m.free = n.free, SameRecords(n.proc, m.proc),
         TablesLose(n, m, b)
  PROVE  Sited(m, P, G) /\ b \notin H
<1> USE DEF TablesLose
<1>1. OnlyAt(n, P, H, b, k, q)
  <2>1. IsAt(n, P, H, b, k, q)
    BY DEF IsAt, Tables
  <2> QED
    BY <2>1, Only
<1>2. k \in {"udp", "icmp", "out"}
  BY DEF Tables, AtUdp, AtIcmp, AtOut
<1>3. \A l, r : ~ AtProc(n.proc, P, b, l, r) /\ ~ AtPool(n.free, H, b, l, r)
  <2>1. \A l, r : IsAt(n, P, H, b, l, r) => l \in {"udp", "icmp", "out"}
    BY <1>1, <1>2 DEF OnlyAt
  <2>2. \A l, r : AtProc(n.proc, P, b, l, r) => l \notin {"udp", "icmp", "out"}
    BY DEF AtProc
  <2>3. \A l, r : AtPool(n.free, H, b, l, r) => l \notin {"udp", "icmp", "out"}
    BY DEF AtPool
  <2>4. \A l, r : AtProc(n.proc, P, b, l, r) \/ AtPool(n.free, H, b, l, r) => IsAt(n, P, H, b, l, r)
    BY DEF IsAt
  <2> QED
    BY <2>1, <2>2, <2>3, <2>4
<1>4. b \notin n.free /\ b \notin H
  BY <1>3 DEF AtPool
<1>5. \A c \in Bufs : \A l, r : AtProc(m.proc, P, c, l, r) <=> AtProc(n.proc, P, c, l, r)
  BY DEF AtProc, Others, SameRecords
<1>6. \A c \in Bufs \ {b} : \A l, r : IsAt(m, P, G, c, l, r) <=> IsAt(n, P, H, c, l, r)
  <2>1. \A c \in Bufs \ {b} : \A l, r : AtPool(m.free, G, c, l, r) <=> AtPool(n.free, H, c, l, r)
    BY DEF AtPool
  <2>2. \A c \in Bufs \ {b} : \A l, r : Tables(m, c, l, r) <=> Tables(n, c, l, r)
    OBVIOUS
  <2> QED
    BY <1>5, <2>1, <2>2 DEF IsAt, Tables
<1>7. OnlyAt(m, P, G, b, "hand", 0)
  <2>1. \A l, r : AtPool(m.free, G, b, l, r) <=> l = "hand" /\ r = 0
    BY <1>4 DEF AtPool
  <2>2. \A l, r : ~ Tables(m, b, l, r)
    OBVIOUS
  <2> QED
    BY <1>3, <1>5, <2>1, <2>2 DEF OnlyAt, IsAt, Tables
<1> QED
  BY <1>4, <1>6, <1>7, Moved

\* Only the fields of a state matter.
LEMMA SameFields ==
  ASSUME NEW n, NEW P, NEW H, NEW m, Sound(n, P, H), Rest(n, m), m.waiting = n.waiting, m.proc = n.proc
  PROVE  Sound(m, P, H)
<1>1. IsNet(n) /\ Core(n, P)
  BY DEF Sound, Core
<1>2. Rest([n EXCEPT !.misdirected = m.misdirected], m)
  BY <1>1 DEF Rest, IsNet, NetFields
<1>3. m.misdirected \in BOOLEAN /\ (m.misdirected => n.evicted)
  BY <1>1 DEF Rest, IsNet, Core
<1> QED
  BY <1>2, <1>3, Marks

\* The first packet of an endpoint of p is in hand.
LEMMA UdpTaken ==
  ASSUME NEW n, NEW p \in Clients, NEW s \in UdpSlots, NEW H, NEW P, P = {p}, Sound(n, P, H),
         <<"udp", s>> \in n.owner[p], n.udp[s].queue # << >>, NEW k,
         k = [n EXCEPT !.udp[s].queue = Tail(@)]
  PROVE  /\ Sound(k, P, H \cup {Head(n.udp[s].queue)}) /\ Head(n.udp[s].queue) \in Bufs
         /\ n.bad \/ n.overtaken \/ Head(n.udp[s].queue) \notin H
<1>1. Core(n, P) /\ IsNet(n) /\ H \in SUBSET Bufs
  BY DEF Sound, Core
<1>2. PICK U, b, L : U = k.udp /\ b = Head(n.udp[s].queue) /\ L = n.udp[s].queue
  OBVIOUS
<1>3. UdpSide(n.udp, n.proc, n.owner, P) /\ UdpShape(n.udp) /\ L \in Seq(Bufs) /\ L # << >>
  BY <1>1, <1>2 DEF Core, UdpSide, UdpShape
<1>4. b \in Bufs /\ Tail(L) \in Seq(Bufs) /\ b = Head(L)
  BY <1>2, <1>3
<1>5. /\ SameBut(n, k) /\ k.owner = n.owner /\ k.arp = n.arp /\ k.icmp = n.icmp
      /\ U = [n.udp EXCEPT ![s] = [n.udp[s] EXCEPT !.queue = Tail(L)]]
  BY <1>1, <1>2 DEF IsNet, NetFields, SameBut
<1>6. /\ DOMAIN U = UdpSlots /\ DOMAIN U[s] = UdpFields
      /\ U[s].queue = Tail(L) /\ U[s].state = n.udp[s].state
      /\ \A t \in UdpSlots \ {s} : U[t] = n.udp[t]
  BY <1>3, <1>5 DEF UdpShape, UdpFields
<1>7. UdpSide(U, n.proc, n.owner, P)
  <2>1. UdpShape(U)
    BY <1>3, <1>4, <1>6 DEF UdpShape
  <2>2. n.udp[s].state \notin {"recv", "free"}
    BY <1>2, <1>3 DEF UdpSide
  <2>3. \A t \in UdpSlots : U[t].state = "recv" =>
          At(n.proc, P, U[t].pid, "udp") /\ n.proc[U[t].pid].slot = t /\ ~ n.proc[U[t].pid].msg /\ U[t].queue = << >>
    BY <1>3, <1>6, <2>2 DEF UdpSide
  <2>4. ASSUME NEW q \in Procs, At(n.proc, P, q, "udp")
        PROVE  UdpWaits(U, n.proc, n.owner, P, q)
    <3>1. UdpWaits(n.udp, n.proc, n.owner, P, q) /\ q # p
      BY <1>3, <2>4 DEF UdpSide, At, Others
    <3>2. n.proc[q].slot # s
      BY <1>3, <3>1 DEF UdpSide, UdpWaits
    <3> QED
      BY <1>6, <3>1, <3>2 DEF UdpWaits
  <2>5. /\ \A t \in UdpSlots : U[t].state = "free" => U[t].queue = << >> /\ \A q \in Clients : <<"udp", t>> \notin n.owner[q]
        /\ \A t \in UdpSlots, q \in Clients, r \in Clients : <<"udp", t>> \in n.owner[q] /\ <<"udp", t>> \in n.owner[r] => q = r
    BY <1>3, <1>6, <2>2 DEF UdpSide
  <2> QED
    BY <2>1, <2>3, <2>4, <2>5 DEF UdpSide
<1>8. Core(k, P)
  BY <1>1, <1>2, <1>5, <1>7 DEF Core, IsNet, SameBut
<1>9. PICK G : G = H \cup {b}
  OBVIOUS
<1>10. ASSUME Good(n, P, H)
       PROVE  Good(k, P, G) /\ b \notin H
  <2>1. Sited(n, P, H) /\ Distinct(n) /\ NoRepeats(L)
    BY <1>2, <1>10 DEF Good, Sited, Distinct
  <2>2. /\ NoRepeats(Tail(L)) /\ Members(Tail(L)) = Members(L) \ {b} /\ b \in Members(L)
    BY <1>3, <1>4, <2>1, TailMembers
  <2>3. Distinct(k)
    BY <1>2, <1>5, <1>6, <2>1, <2>2 DEF Distinct, SameBut
  <2>4. AtUdp(n.udp, b, "udp", s)
    BY <1>2, <2>2 DEF AtUdp
  <2>5. \A l, r : Tables(n, b, l, r) <=> l = "udp" /\ r = s
    <3>1. IsAt(n, P, H, b, "udp", s)
      BY <2>4 DEF IsAt
    <3>2. OnlyAt(n, P, H, b, "udp", s)
      BY <1>4, <2>1, <3>1, Only
    <3> QED
      BY <2>4, <3>2 DEF OnlyAt, IsAt, Tables
  <2>6. TablesLose(n, k, b)
    <3> SUFFICES ASSUME NEW c \in Bufs, NEW l, NEW r
                 PROVE  Tables(k, c, l, r) <=> Tables(n, c, l, r) /\ c # b
      BY DEF TablesLose
    <3>1. AtUdp(U, c, l, r) <=> AtUdp(n.udp, c, l, r) /\ (r = s => c # b)
      BY <1>2, <1>6, <2>2 DEF AtUdp
    <3>2. Tables(k, c, l, r) <=> AtUdp(U, c, l, r) \/ AtIcmp(n.icmp, c, l, r) \/ AtOut(n.oq, c, l, r)
      BY <1>2, <1>5 DEF Tables, SameBut
    <3>3. AtIcmp(n.icmp, c, l, r) \/ AtOut(n.oq, c, l, r) => l # "udp"
      BY DEF AtIcmp, AtOut
    <3> QED
      BY <2>5, <3>1, <3>2, <3>3 DEF Tables
  <2>7. SameRecords(n.proc, k.proc) /\ k.free = n.free /\ Tables(n, b, "udp", s)
    BY <1>5, <2>5 DEF SameRecords, SameBut
  <2>8. Sited(k, P, G) /\ b \notin H
    <3>1. PICK j : j = k
      OBVIOUS
    <3>2. Sited(n, P, H) /\ Distinct(j) /\ TablesLose(n, j, b) /\ SameRecords(n.proc, j.proc) /\ j.free = n.free
      BY <2>1, <2>3, <2>6, <2>7, <3>1
    <3>3. Sited(j, P, G) /\ b \notin H
      BY <1>4, <1>9, <2>7, <3>2, Removed, Zenon
    <3> QED
      BY <3>1, <3>3
  <2> QED
    BY <1>5, <1>10, <2>8 DEF Good, SameBut
<1> QED
  BY <1>1, <1>2, <1>4, <1>5, <1>8, <1>9, <1>10 DEF Sound, SameBut

Alone(P, p) == P = {p}
UdpFreed(n, s) == [freebuf(n, Head(n.udp[s].queue)) EXCEPT !.udp[s].queue = Tail(@)]

\* The first packet of an endpoint of p is freed.
LEMMA UdpDrops ==
  ASSUME NEW n, NEW p \in Clients, NEW s \in UdpSlots, NEW E, NEW P, Alone(P, p), Sound(n, P, E),
         <<"udp", s>> \in n.owner[p], n.udp[s].queue # << >>, ~ n.bad, ~ n.overtaken, NEW m,
         m = UdpFreed(n, s)
  PROVE  /\ Sound(m, P, E) /\ m.owner = n.owner /\ m.udp[s].queue = Tail(n.udp[s].queue)
         /\ m.bad = n.bad /\ m.overtaken = n.overtaken
<1>1. PICK b : b = Head(n.udp[s].queue)
  OBVIOUS
<1>16. PICK k : k = [n EXCEPT !.udp[s].queue = Tail(@)]
  OBVIOUS
<1>17. PICK j : j = freebuf(k, b)
  OBVIOUS
<1>2. Core(n, P) /\ IsNet(n) /\ DOMAIN n = NetFields /\ DOMAIN n.udp = UdpSlots /\ DOMAIN n.udp[s] = UdpFields
  BY DEF Sound, Core, IsNet, UdpSide, UdpShape
<1>3. PICK B : B = E \cup {b}
  OBVIOUS
<1>4. Sound(k, P, B) /\ b \in B
  BY <1>1, <1>3, <1>16, UdpTaken DEF Alone
<1>5. B \ {b} = E
  <2>1. b \notin E
    BY <1>1, <1>16, UdpTaken DEF Alone
  <2> QED
    BY <1>3, <2>1
<1>6. Sound(j, P, E)
  BY <1>4, <1>5, <1>17, Frees
<1>7. /\ DOMAIN k = NetFields /\ k.waiting = n.waiting /\ k.proc = n.proc /\ k.pkt = n.pkt /\ k.free = n.free
      /\ k.owner = n.owner /\ k.arp = n.arp /\ k.icmp = n.icmp /\ k.oq = n.oq
      /\ k.udp = [n.udp EXCEPT ![s] = [n.udp[s] EXCEPT !.queue = Tail(n.udp[s].queue)]]
      /\ k.evicted = n.evicted /\ k.misdirected = n.misdirected /\ k.bad = n.bad /\ k.overtaken = n.overtaken
  BY <1>2, <1>16 DEF NetFields
<1>8. PICK f : f = freebuf(n, b)
  OBVIOUS
<1>9. /\ f.free = j.free /\ f.waiting = j.waiting /\ f.proc = j.proc /\ f.pkt = j.pkt
  BY <1>2, <1>7, <1>8, <1>17 DEF freebuf, NetFields
<1>10. /\ DOMAIN f = NetFields
       /\ f.owner = n.owner /\ f.arp = n.arp /\ f.udp = n.udp /\ f.icmp = n.icmp /\ f.oq = n.oq
       /\ f.evicted = n.evicted /\ f.misdirected = n.misdirected /\ f.bad = n.bad /\ f.overtaken = n.overtaken
  BY <1>2, <1>8, FreeKeeps
<1>11. /\ DOMAIN j = NetFields
       /\ j.owner = k.owner /\ j.arp = k.arp /\ j.udp = k.udp /\ j.icmp = k.icmp /\ j.oq = k.oq
       /\ j.evicted = k.evicted /\ j.misdirected = k.misdirected /\ j.bad = k.bad /\ j.overtaken = k.overtaken
  BY <1>7, <1>17, FreeKeeps
<1>12. m = [f EXCEPT !.udp[s].queue = Tail(@)]
  BY <1>1, <1>8 DEF UdpFreed
<1>13. /\ DOMAIN m = NetFields /\ m.waiting = f.waiting /\ m.proc = f.proc /\ m.pkt = f.pkt /\ m.free = f.free
       /\ m.owner = f.owner /\ m.arp = f.arp /\ m.icmp = f.icmp /\ m.oq = f.oq
       /\ m.udp = [f.udp EXCEPT ![s] = [f.udp[s] EXCEPT !.queue = Tail(f.udp[s].queue)]]
       /\ m.evicted = f.evicted /\ m.misdirected = f.misdirected /\ m.bad = f.bad /\ m.overtaken = f.overtaken
  BY <1>10, <1>12 DEF NetFields
<1>14. Rest(j, m) /\ m.waiting = j.waiting /\ m.proc = j.proc
  BY <1>7, <1>9, <1>10, <1>11, <1>13 DEF Rest
<1>15. m.udp[s].queue = Tail(n.udp[s].queue)
  <2>1. n.udp[s].queue = f.udp[s].queue /\ s \in DOMAIN f.udp /\ "queue" \in DOMAIN f.udp[s]
    BY <1>2, <1>10 DEF UdpFields
  <2> QED
    BY <1>13, <2>1
<1> QED
  BY <1>6, <1>10, <1>13, <1>14, <1>15, SameFields

\* Process p leaves udp_recv with the first packet of its endpoint.
LEMMA UdpDequeues ==
  ASSUME NEW n, NEW p \in Clients, NEW s \in UdpSlots, NEW E, NEW P, Alone(P, p), Sound(n, P, E),
         <<"udp", s>> \in n.owner[p], n.udp[s].queue # << >>, ~ n.bad, ~ n.overtaken
  PROVE  Sound(Dequeued(n, p, s), {}, E)
<1>1. PICK m : m = UdpFreed(n, s)
  OBVIOUS
<1>2. Sound(m, P, E)
  BY <1>1, UdpDrops
<1>3. p \in Procs
  BY DEF Procs
<1>4. Sound(Done(m, p), {}, E)
  BY <1>2, <1>3, Ends DEF Alone
<1> QED
  BY <1>1, <1>4 DEF Dequeued, UdpFreed

\* A packet is put into the queue of an endpoint.
LEMMA UdpPut ==
  ASSUME NEW n, NEW P, NEW H, NEW b \in H, NEW m, NEW s \in UdpSlots, NEW U, Sited(n, P, H), UdpShape(n.udp),
         H \in SUBSET Bufs, U = m.udp, \A t \in UdpSlots \ {s} : U[t].queue = n.udp[t].queue,
         U[s].queue = Append(n.udp[s].queue, b), m.icmp = n.icmp, m.oq = n.oq, m.free = n.free,
         SameRecords(n.proc, m.proc)
  PROVE  Sited(m, P, H \ {b})
<1>1. PICK L : L = n.udp[s].queue
  OBVIOUS
<1>2. L \in Seq(Bufs) /\ b \in Bufs
  BY <1>1 DEF UdpShape
<1>3. /\ Members(Append(L, b)) = Members(L) \cup {b}
      /\ NoRepeats(L) /\ b \notin Members(L) => NoRepeats(Append(L, b))
  BY <1>2, AppendMembers
<1>4. OnlyAt(n, P, H, b, "hand", 0)
  <2>1. IsAt(n, P, H, b, "hand", 0)
    BY DEF IsAt, AtPool
  <2> QED
    BY <1>2, <2>1, Only
<1>5. b \notin Members(L)
  <2>1. ~ AtUdp(n.udp, b, "udp", s)
    BY <1>4, InHand
  <2> QED
    BY <1>1, <2>1 DEF AtUdp
<1>6. Distinct(m)
  <2>1. \A t \in UdpSlots : NoRepeats(U[t].queue)
    BY <1>1, <1>3, <1>5 DEF Sited, Distinct
  <2> QED
    BY <2>1 DEF Sited, Distinct
<1>7. TablesGain(n, m, b, "udp", s)
  <2> SUFFICES ASSUME NEW c \in Bufs, NEW l, NEW r
               PROVE  Tables(m, c, l, r) <=> Tables(n, c, l, r) \/ (c = b /\ l = "udp" /\ r = s)
    BY DEF TablesGain
  <2>1. AtUdp(U, c, l, r) <=> AtUdp(n.udp, c, l, r) \/ (c = b /\ l = "udp" /\ r = s)
    BY <1>1, <1>3 DEF AtUdp
  <2> QED
    BY <2>1 DEF Tables
<1>8. PICK G : G = H \ {b}
  OBVIOUS
<1>9. Sited(m, P, G)
  BY <1>2, <1>6, <1>7, <1>8, Placed, Zenon
<1> QED
  BY <1>8, <1>9

\* An endpoint has one owner, so only one process waits at it.
LEMMA UdpOwner ==
  ASSUME NEW U, NEW R, NEW O, NEW P, UdpSide(U, R, O, P), NEW p \in Procs, NEW q \in Procs,
         At(R, P, p, "udp"), At(R, P, q, "udp"), R[p].slot = R[q].slot
  PROVE  p = q
<1>1. UdpWaits(U, R, O, P, p) /\ UdpWaits(U, R, O, P, q)
  BY DEF UdpSide
<1>2. /\ p \in Clients /\ q \in Clients /\ R[p].slot \in UdpSlots
      /\ <<"udp", R[p].slot>> \in O[p] /\ <<"udp", R[p].slot>> \in O[q]
  BY <1>1 DEF UdpWaits
<1> QED
  BY <1>2 DEF UdpSide

\* A UDP packet has arrived in b.
LEMMA UdpIn ==
  ASSUME NEW n, NEW P, NEW H, NEW b \in H, Sound(n, P, H)
  PROVE  Sound(udp_in(n, b), P, H \ {b})
<1>1. CASE Receiver(n, n.pkt[b]) = {}
  BY <1>1, Frees DEF udp_in
<1>2. CASE Receiver(n, n.pkt[b]) # {}
  <2>1. PICK s : s = First(Receiver(n, n.pkt[b]))
    OBVIOUS
  <2>2. s \in UdpSlots /\ n.udp[s].state # "free"
    <3>1. Receiver(n, n.pkt[b]) \subseteq Nat
      BY NetAssumption DEF Receiver, UdpSlots
    <3> QED
      BY <1>2, <2>1, <3>1, FirstIn DEF Receiver
  <2>3. Core(n, P) /\ IsNet(n) /\ Held(n.proc, P) /\ UdpSide(n.udp, n.proc, n.owner, P) /\ UdpShape(n.udp) /\ H \in SUBSET Bufs
    BY DEF Sound, Core, UdpSide
  <2>4. PICK k : k = [n EXCEPT !.udp[s].queue = Append(@, b)]
    OBVIOUS
  <2>5. PICK L : L = Append(n.udp[s].queue, b)
    OBVIOUS
  <2>6. /\ DOMAIN k = NetFields /\ k.free = n.free /\ k.pkt = n.pkt
        /\ k.waiting = n.waiting /\ k.proc = n.proc /\ k.owner = n.owner
        /\ k.udp = [n.udp EXCEPT ![s] = [n.udp[s] EXCEPT !.queue = L]]
        /\ k.arp = n.arp /\ k.icmp = n.icmp /\ k.oq = n.oq
        /\ k.evicted = n.evicted /\ k.misdirected = n.misdirected
        /\ k.bad = n.bad /\ k.overtaken = n.overtaken
    BY <2>3, <2>4, <2>5 DEF IsNet, NetFields
  <2>7. PICK B : B = k.udp
    OBVIOUS
  <2>8. /\ DOMAIN B = UdpSlots /\ (\A t \in UdpSlots : DOMAIN B[t] = UdpFields)
        /\ B[s].queue = L /\ B[s].state = n.udp[s].state /\ B[s].pid = n.udp[s].pid
        /\ \A t \in UdpSlots \ {s} : B[t] = n.udp[t]
    BY <2>2, <2>3, <2>6, <2>7 DEF UdpShape, UdpFields
  <2>9. L \in Seq(Bufs) /\ L # << >>
    BY <2>2, <2>3, <2>5 DEF UdpShape
  <2>10. PICK m : m = udp_in(n, b)
    OBVIOUS
  <2>11. m = Wakes(k, s)
    BY <1>2, <2>1, <2>4, <2>10 DEF udp_in
  <2>12. CASE n.udp[s].state # "recv"
    <3>1. m = k
      BY <2>7, <2>8, <2>11, <2>12 DEF Wakes
    <3>2. UdpSide(B, n.proc, n.owner, P)
      <4>1. UdpShape(B)
        BY <2>2, <2>3, <2>8, <2>9 DEF UdpShape
      <4>2. \A t \in UdpSlots : B[t].state = "recv" =>
              At(n.proc, P, B[t].pid, "udp") /\ n.proc[B[t].pid].slot = t /\ ~ n.proc[B[t].pid].msg /\ B[t].queue = << >>
        BY <2>3, <2>8, <2>12 DEF UdpSide
      <4>3. \A q \in Procs : At(n.proc, P, q, "udp") => UdpWaits(B, n.proc, n.owner, P, q)
        <5> SUFFICES ASSUME NEW q \in Procs, At(n.proc, P, q, "udp")
                     PROVE  UdpWaits(B, n.proc, n.owner, P, q)
          OBVIOUS
        <5>1. UdpWaits(n.udp, n.proc, n.owner, P, q)
          BY <2>3 DEF UdpSide
        <5> QED
          BY <2>8, <2>9, <5>1 DEF UdpWaits
      <4>4. /\ \A t \in UdpSlots : B[t].state = "free" => B[t].queue = << >> /\ \A q \in Clients : <<"udp", t>> \notin n.owner[q]
            /\ \A t \in UdpSlots, q \in Clients, r \in Clients : <<"udp", t>> \in n.owner[q] /\ <<"udp", t>> \in n.owner[r] => q = r
        BY <2>2, <2>3, <2>8 DEF UdpSide
      <4> QED
        BY <4>1, <4>2, <4>3, <4>4 DEF UdpSide
    <3>3. Core(k, P)
      BY <2>3, <2>6, <2>7, <3>2 DEF Core, IsNet
    <3>4. Good(n, P, H) => Good(k, P, H \ {b})
      <4>1. SameRecords(n.proc, k.proc)
        BY <2>6 DEF SameRecords
      <4>2. \A t \in UdpSlots \ {s} : B[t].queue = n.udp[t].queue
        BY <2>8
      <4>3. ASSUME Sited(n, P, H)
            PROVE  Sited(k, P, H \ {b})
        <5>1. B[s].queue = Append(n.udp[s].queue, b)
          BY <2>5, <2>8
        <5>2. k.icmp = n.icmp /\ k.oq = n.oq /\ k.free = n.free
          BY <2>6
        <5>3. UdpShape(n.udp) /\ H \in SUBSET Bufs
          BY <2>3
        <5> QED
          BY <2>2, <2>7, <4>1, <4>2, <4>3, <5>1, <5>2, <5>3, UdpPut
      <4> QED
        BY <2>6, <4>3 DEF Good
    <3> QED
      BY <2>3, <2>6, <2>10, <3>1, <3>3, <3>4 DEF Sound
  <2>13. CASE n.udp[s].state = "recv"
    <3>1. PICK p : p = n.udp[s].pid
      OBVIOUS
    <3>2. /\ At(n.proc, P, p, "udp") /\ n.proc[p].slot = s /\ ~ n.proc[p].msg
          /\ p \in Procs /\ p \notin P /\ n.proc[p].at = "udp"
      BY <2>2, <2>3, <2>13, <3>1 DEF UdpSide, At, Others
    <3>3. PICK j : j = [k EXCEPT !.udp[s].state = "used"]
      OBVIOUS
    <3>4. m = send(j, p)
      BY <2>7, <2>8, <2>11, <2>13, <3>1, <3>3 DEF Wakes
    <3>5. /\ DOMAIN j = NetFields /\ j.free = n.free /\ j.pkt = n.pkt
          /\ j.waiting = n.waiting /\ j.proc = n.proc /\ j.owner = n.owner
          /\ j.udp = [B EXCEPT ![s] = [B[s] EXCEPT !.state = "used"]]
          /\ j.arp = n.arp /\ j.icmp = n.icmp /\ j.oq = n.oq
          /\ j.evicted = n.evicted /\ j.misdirected = n.misdirected
          /\ j.bad = n.bad /\ j.overtaken = n.overtaken
      BY <2>6, <2>7, <3>3 DEF NetFields
    <3>6. m = [j EXCEPT !.proc[p].msg = TRUE]
      BY <3>2, <3>4, <3>5 DEF send
    <3>7. /\ DOMAIN m = NetFields /\ m.free = n.free /\ m.pkt = n.pkt
          /\ m.waiting = n.waiting /\ m.proc = [n.proc EXCEPT ![p] = [n.proc[p] EXCEPT !.msg = TRUE]]
          /\ m.owner = n.owner /\ m.udp = j.udp
          /\ m.arp = n.arp /\ m.icmp = n.icmp /\ m.oq = n.oq
          /\ m.evicted = n.evicted /\ m.misdirected = n.misdirected
          /\ m.bad = n.bad /\ m.overtaken = n.overtaken
      BY <3>5, <3>6 DEF NetFields
    <3>8. PICK A, R : A = m.udp /\ R = m.proc
      OBVIOUS
    <3>9. /\ DOMAIN A = UdpSlots /\ (\A t \in UdpSlots : DOMAIN A[t] = UdpFields)
          /\ A[s].queue = L /\ A[s].state = "used" /\ A[s].pid = p
          /\ \A t \in UdpSlots \ {s} : A[t] = n.udp[t]
      BY <2>2, <2>8, <3>1, <3>5, <3>7, <3>8 DEF UdpFields
    <3>10. /\ DOMAIN R = Procs /\ (\A q \in Procs \ {p} : R[q] = n.proc[q])
           /\ DOMAIN R[p] = ProcFields /\ R[p].msg = TRUE /\ R[p].at = "udp" /\ R[p].slot = s
           /\ R[p].buf = n.proc[p].buf /\ R[p].got = n.proc[p].got
      BY <2>3, <3>2, <3>7, <3>8 DEF Held, ProcFields
    <3>11. Held(R, P)
      <4>1. OnlyOf(n.proc, P, R, P, p)
        BY <2>3, <3>2, <3>10 DEF OnlyOf, Held, Holds, Others
      <4> QED
        BY <2>3, <3>2, <3>10, <4>1 DEF Held, OnlyOf, Others
    <3>12. Waiters(m.waiting, R, P)
      <4>1. \A q \in Procs : Wants(R, P, q) <=> Wants(n.proc, P, q)
        BY <3>2, <3>10 DEF Wants
      <4> QED
        BY <2>3, <3>7, <4>1 DEF Core, Waiters
    <3>13. SameAt("arp", n.proc, P, R, P) /\ SameAt("icmp", n.proc, P, R, P)
      BY <3>2, <3>10 DEF SameAt, At
    <3>14. \A q \in Procs : At(R, P, q, "udp") <=> At(n.proc, P, q, "udp")
      BY <3>2, <3>10 DEF At
    <3>15. UdpSide(A, R, n.owner, P)
      <4>1. UdpShape(A)
        BY <2>2, <2>3, <2>9, <3>9 DEF UdpShape
      <4>2. ASSUME NEW t \in UdpSlots, A[t].state = "recv"
            PROVE  At(R, P, A[t].pid, "udp") /\ R[A[t].pid].slot = t /\ ~ R[A[t].pid].msg /\ A[t].queue = << >>
        <5>1. t # s /\ A[t] = n.udp[t]
          BY <3>9, <4>2
        <5>2. At(n.proc, P, A[t].pid, "udp") /\ n.proc[A[t].pid].slot = t /\ ~ n.proc[A[t].pid].msg /\ A[t].queue = << >>
          BY <2>3, <4>2, <5>1 DEF UdpSide
        <5>3. A[t].pid \in Procs /\ A[t].pid # p
          BY <3>2, <5>1, <5>2 DEF At, Others
        <5> QED
          BY <3>10, <3>14, <5>2, <5>3
      <4>3. ASSUME NEW q \in Procs, At(R, P, q, "udp")
            PROVE  UdpWaits(A, R, n.owner, P, q)
        <5>1. UdpWaits(n.udp, n.proc, n.owner, P, q)
          BY <2>3, <3>14, <4>3 DEF UdpSide
        <5>2. CASE q = p
          BY <2>9, <3>2, <3>9, <3>10, <5>1, <5>2 DEF UdpWaits
        <5>3. CASE q # p
          <6>1. n.proc[q].slot # s
            BY <2>3, <3>2, <3>14, <4>3, <5>3, UdpOwner
          <6> QED
            BY <3>9, <3>10, <5>1, <5>3, <6>1 DEF UdpWaits
        <5> QED
          BY <5>2, <5>3
      <4>4. /\ \A t \in UdpSlots : A[t].state = "free" => A[t].queue = << >> /\ \A q \in Clients : <<"udp", t>> \notin n.owner[q]
            /\ \A t \in UdpSlots, q \in Clients, r \in Clients : <<"udp", t>> \in n.owner[q] /\ <<"udp", t>> \in n.owner[r] => q = r
        BY <2>2, <2>3, <3>9 DEF UdpSide
      <4> QED
        BY <4>1, <4>2, <4>3, <4>4 DEF UdpSide
    <3>16. Core(m, P)
      <4>1. IsNet(m)
        BY <2>3, <3>7 DEF IsNet
      <4>2. ArpSide(m.arp, R, P) /\ IcmpSide(m.icmp, R, m.owner, P)
        BY <2>3, <3>7, <3>13, QuietArp, QuietIcmp DEF Core
      <4> QED
        BY <2>3, <3>7, <3>8, <3>11, <3>12, <3>15, <4>1, <4>2 DEF Core
    <3>17. ASSUME Good(n, P, H)
           PROVE  Good(m, P, H \ {b})
      <4>1. Sited(m, P, H \ {b})
        <5>1. SameRecords(n.proc, m.proc)
          BY <3>8, <3>10 DEF SameRecords
        <5>2. (\A t \in UdpSlots \ {s} : A[t].queue = n.udp[t].queue) /\ A[s].queue = Append(n.udp[s].queue, b)
          BY <2>5, <3>9
        <5>3. Sited(n, P, H)
          BY <3>17 DEF Good
        <5> QED
          BY <2>2, <2>3, <3>7, <3>8, <5>1, <5>2, <5>3, UdpPut
      <4>2. Routes(m.arp, R, m.pkt, m.evicted, P)
        BY <3>7, <3>13, <3>17, QuietRoutes DEF Good
      <4>3. Output(m.oq, R, P)
        <5>1. /\ At(R, P, "ipout", "take") <=> At(n.proc, P, "ipout", "take")
              /\ At(R, P, "ipout", "blocked") <=> At(n.proc, P, "ipout", "blocked")
          BY <3>2, <3>10 DEF At, Others
        <5> QED
          BY <3>7, <3>17, <5>1 DEF Good, Output, InOq
      <4> QED
        BY <3>7, <3>8, <3>17, <4>1, <4>2, <4>3 DEF Good
    <3> QED
      BY <2>3, <2>10, <3>7, <3>16, <3>17 DEF Sound
  <2> QED
    BY <2>12, <2>13
<1> QED
  BY <1>1, <1>2

\* The shape of an ICMP endpoint.
IcmpEntry(e) ==
  /\ DOMAIN e = IcmpFields /\ e.queue \in [0 .. ICMP_QSIZ - 1 -> MaybeBuf]
  /\ e.head \in Int /\ e.tail \in 0 .. ICMP_QSIZ - 1 /\ e.count \in Int
Entered(e, f, b) ==
  /\ f.queue = Put(e.queue, e.tail, b) /\ f.head = e.head /\ f.tail = Wrap(e.tail + 1, ICMP_QSIZ)
  /\ f.count = e.count + 1 /\ f.state # "free"

\* A reply is put behind the others: there is a place unless the queue is full.
LEMMA ReplyPut ==
  ASSUME NEW e, NEW f, NEW b, b # NULL, IcmpEntry(e), Reply(e), e.count # ICMP_QSIZ, Entered(e, f, b)
  PROVE  Reply(f) /\ e.queue[e.tail] = NULL
<1>1. PICK N \in Nat \ {0} : N = ICMP_QSIZ
  BY NetAssumption
<1>2. PICK h, c, t, B : h = Wrap(e.head, N) /\ c = e.count /\ t = e.tail /\ B = e.queue
  OBVIOUS
<1>3. /\ DOMAIN B = 0 .. N - 1 /\ Ring(B, N, h, t, c)
      /\ h \in 0 .. N - 1 /\ t \in 0 .. N - 1 /\ c \in 0 .. N /\ c < N
  <2>1. e.head \in 0 .. N
    BY <1>1 DEF Reply
  <2>2. h \in 0 .. N - 1
    BY <1>2, <2>1 DEF Wrap
  <2>3. Ring(B, N, h, t, c)
    BY <1>1, <1>2 DEF Reply
  <2>4. DOMAIN B = 0 .. N - 1 /\ t \in 0 .. N - 1 /\ c # N
    BY <1>1, <1>2 DEF IcmpEntry
  <2>5. c \in 0 .. N
    BY <2>3 DEF Ring
  <2> QED
    BY <2>2, <2>3, <2>4, <2>5
<1>4. PICK w : w = Put(B, t, b)
  OBVIOUS
<1>5. B[t] = NULL /\ Ring(w, N, h, Wrap(t + 1, N), c + 1)
  BY <1>3, <1>4, RingPut
<1> QED
  BY <1>1, <1>2, <1>4, <1>5 DEF Reply, Entered

\* The queue of an ICMP endpoint has another packet.
LEMMA IcmpPut ==
  ASSUME NEW n, NEW P, NEW H, NEW b \in H, NEW m, NEW s \in IcmpSlots, NEW I, Sited(n, P, H), IcmpShape(n.icmp),
         H \in SUBSET Bufs, I = m.icmp, \A t \in IcmpSlots \ {s} : I[t].queue = n.icmp[t].queue,
         I[s].queue = Put(n.icmp[s].queue, n.icmp[s].tail, b), n.icmp[s].queue[n.icmp[s].tail] = NULL,
         m.udp = n.udp, m.oq = n.oq, m.free = n.free, SameRecords(n.proc, m.proc)
  PROVE  Sited(m, P, H \ {b})
<1>1. PICK B, t : B = n.icmp[s].queue /\ t = n.icmp[s].tail
  OBVIOUS
<1>2. DOMAIN B = 0 .. ICMP_QSIZ - 1 /\ t \in 0 .. ICMP_QSIZ - 1 /\ b \in Bufs /\ B[t] = NULL /\ ICMP_QSIZ \in Nat
  BY <1>1, NetAssumption DEF IcmpShape
<1>3. OnlyAt(n, P, H, b, "hand", 0)
  <2>1. IsAt(n, P, H, b, "hand", 0)
    BY DEF IsAt, AtPool
  <2> QED
    BY <1>2, <2>1, Only
<1>4. ~ In(B, ICMP_QSIZ, b)
  <2>1. ~ AtIcmp(n.icmp, b, "icmp", s)
    BY <1>3, InHand
  <2> QED
    BY <1>1, <2>1 DEF AtIcmp, In
<1>5. Injective(B, ICMP_QSIZ)
  BY <1>1 DEF Sited, Distinct
<1>6. PICK W : W = Put(B, t, b)
  OBVIOUS
<1>7. Injective(W, ICMP_QSIZ) /\ \A c \in Bufs : In(W, ICMP_QSIZ, c) <=> c = b \/ In(B, ICMP_QSIZ, c)
  BY <1>2, <1>4, <1>5, <1>6, ArrayPut DEF Put
<1>8. Distinct(m)
  <2>1. \A u \in IcmpSlots : Injective(I[u].queue, ICMP_QSIZ)
    BY <1>1, <1>6, <1>7 DEF Sited, Distinct
  <2> QED
    BY <2>1 DEF Sited, Distinct
<1>9. TablesGain(n, m, b, "icmp", s)
  <2> SUFFICES ASSUME NEW c \in Bufs, NEW l, NEW r
               PROVE  Tables(m, c, l, r) <=> Tables(n, c, l, r) \/ (c = b /\ l = "icmp" /\ r = s)
    BY DEF TablesGain
  <2>1. AtIcmp(I, c, l, r) <=> AtIcmp(n.icmp, c, l, r) \/ (c = b /\ l = "icmp" /\ r = s)
    <3>1. \A J : AtIcmp(J, c, l, r) <=> l = "icmp" /\ r \in IcmpSlots /\ In(J[r].queue, ICMP_QSIZ, c)
      BY DEF AtIcmp, In
    <3>2. CASE r = s
      BY <1>1, <1>6, <1>7, <3>1, <3>2
    <3>3. CASE r # s
      <4>1. r \in IcmpSlots => I[r].queue = n.icmp[r].queue
        BY <3>3
      <4> QED
        BY <3>1, <3>3, <4>1
    <3> QED
      BY <3>2, <3>3
  <2> QED
    BY <2>1 DEF Tables
<1>10. PICK G : G = H \ {b}
  OBVIOUS
<1>11. Sited(m, P, G)
  BY <1>2, <1>8, <1>9, <1>10, Placed, Zenon
<1> QED
  BY <1>10, <1>11

\* What echo_reply leaves alone.
ButIcmp(n, m) ==
  /\ DOMAIN m = NetFields /\ m.free = n.free /\ m.pkt = n.pkt /\ m.waiting = n.waiting
  /\ m.owner = n.owner /\ m.arp = n.arp /\ m.udp = n.udp /\ m.oq = n.oq
  /\ m.evicted = n.evicted /\ m.misdirected = n.misdirected /\ m.overtaken = n.overtaken

\* An echo reply has arrived in b.
LEMMA ReplyIn ==
  ASSUME NEW n, NEW P, NEW H, NEW b \in H, Sound(n, P, H)
  PROVE  Sound(echo_reply(n, b), P, H \ {b})
<1>1. PICK s : s = n.pkt[b].ident
  OBVIOUS
<1>2. CASE s \notin IcmpSlots \/ n.icmp[s].state = "free" \/ n.icmp[s].remip # n.pkt[b].src
  BY <1>1, <1>2, Frees DEF echo_reply
<1>3. CASE ~ (s \notin IcmpSlots \/ n.icmp[s].state = "free" \/ n.icmp[s].remip # n.pkt[b].src)
  <2>1. s \in IcmpSlots /\ n.icmp[s].state # "free"
    BY <1>3
  <2>2. /\ Core(n, P) /\ IsNet(n) /\ Held(n.proc, P) /\ IcmpSide(n.icmp, n.proc, n.owner, P)
        /\ IcmpShape(n.icmp) /\ H \in SUBSET Bufs
    BY DEF Sound, Core, IcmpSide
  <2>3. b \in Bufs /\ b # NULL
    BY <2>2, NetAssumption
  <2>4. PICK e : e = n.icmp[s]
    OBVIOUS
  <2>5. IcmpEntry(e)
    BY <2>1, <2>2, <2>4 DEF IcmpShape, IcmpEntry
  <2>6. PICK d : d = Enqueued(e, b)
    OBVIOUS
  <2>7. /\ DOMAIN d = IcmpFields /\ d.queue = Put(e.queue, e.tail, b) /\ d.head = e.head
        /\ d.tail = (e.tail + 1) % ICMP_QSIZ /\ d.count = e.count + 1 /\ d.pid = e.pid
        /\ d.state = IF e.state = "recv" THEN "used" ELSE e.state
    BY <2>5, <2>6 DEF Enqueued, IcmpEntry, IcmpFields, Put
  <2>8. /\ (e.tail + 1) % ICMP_QSIZ = Wrap(e.tail + 1, ICMP_QSIZ)
        /\ Wrap(e.tail + 1, ICMP_QSIZ) \in 0 .. ICMP_QSIZ - 1
    <3>1. ICMP_QSIZ \in Nat \ {0} /\ e.tail \in 0 .. ICMP_QSIZ - 1
      BY <2>5, NetAssumption DEF IcmpEntry
    <3> QED
      BY <3>1, NextPlace
  <2>9. IcmpEntry(d)
    <3>1. Put(e.queue, e.tail, b) \in [0 .. ICMP_QSIZ - 1 -> MaybeBuf]
      BY <2>3, <2>5 DEF IcmpEntry, Put, MaybeBuf
    <3>2. d.count \in Int /\ d.head \in Int
      BY <2>5, <2>7 DEF IcmpEntry
    <3> QED
      BY <2>7, <2>8, <3>1, <3>2 DEF IcmpEntry
  <2>10. PICK j : j = [n EXCEPT !.icmp[s] = d, !.bad = @ \/ e.count = ICMP_QSIZ]
    OBVIOUS
  <2>11. ButIcmp(n, j) /\ j.proc = n.proc /\ j.bad = (n.bad \/ e.count = ICMP_QSIZ) /\ j.icmp = [n.icmp EXCEPT ![s] = d]
    BY <2>2, <2>10 DEF IsNet, NetFields, ButIcmp
  <2>12. PICK m : m = echo_reply(n, b)
    OBVIOUS
  <2>13. m = IF e.state = "recv" THEN send(j, e.pid) ELSE j
    BY <1>1, <1>3, <2>4, <2>6, <2>10, <2>12 DEF echo_reply
  <2>14. PICK I : I = j.icmp
    OBVIOUS
  <2>15. DOMAIN I = IcmpSlots /\ I[s] = d /\ \A t \in IcmpSlots \ {s} : I[t] = n.icmp[t]
    BY <2>1, <2>2, <2>11, <2>14 DEF IcmpShape
  <2>16. IcmpShape(I)
    <3>1. \A t \in IcmpSlots : IcmpEntry(I[t])
      BY <2>2, <2>9, <2>15 DEF IcmpShape, IcmpEntry
    <3> QED
      BY <2>15, <3>1 DEF IcmpShape, IcmpEntry
  <2>17. /\ m.icmp = I /\ ButIcmp(n, m) /\ m.bad = j.bad
         /\ DOMAIN m.proc = Procs
         /\ \A q \in Procs :
              /\ DOMAIN m.proc[q] = ProcFields /\ m.proc[q].at = n.proc[q].at /\ m.proc[q].buf = n.proc[q].buf
              /\ m.proc[q].got = n.proc[q].got /\ m.proc[q].slot = n.proc[q].slot
              /\ m.proc[q].msg = IF q = e.pid /\ e.state = "recv" THEN TRUE ELSE n.proc[q].msg
    <3>1. DOMAIN n.proc = Procs /\ \A q \in Procs : DOMAIN n.proc[q] = ProcFields
      BY <2>2 DEF Held
    <3>2. CASE e.state # "recv"
      BY <2>11, <2>13, <2>14, <3>1, <3>2
    <3>3. CASE e.state = "recv"
      <4>1. At(n.proc, P, e.pid, "icmp") /\ e.pid \in Procs /\ n.proc[e.pid].at = "icmp"
        BY <2>1, <2>2, <2>4, <3>3 DEF IcmpSide, At, Others
      <4>2. m = [j EXCEPT !.proc[e.pid].msg = TRUE]
        BY <2>11, <2>13, <3>3, <4>1 DEF send
      <4>3. /\ m.proc = [n.proc EXCEPT ![e.pid] = [n.proc[e.pid] EXCEPT !.msg = TRUE]]
            /\ m.icmp = j.icmp /\ m.bad = j.bad /\ ButIcmp(j, m)
        BY <2>11, <4>2 DEF ButIcmp, NetFields
      <4>4. ButIcmp(n, m)
        BY <2>11, <4>3 DEF ButIcmp
      <4>5. DOMAIN m.proc = Procs /\ \A q \in Procs \ {e.pid} : m.proc[q] = n.proc[q]
        BY <3>1, <4>1, <4>3
      <4>6. m.proc[e.pid] = [n.proc[e.pid] EXCEPT !.msg = TRUE]
        BY <3>1, <4>1, <4>3
      <4>7. \A q \in Procs :
              /\ DOMAIN m.proc[q] = ProcFields /\ m.proc[q].at = n.proc[q].at /\ m.proc[q].buf = n.proc[q].buf
              /\ m.proc[q].got = n.proc[q].got /\ m.proc[q].slot = n.proc[q].slot
              /\ m.proc[q].msg = IF q = e.pid THEN TRUE ELSE n.proc[q].msg
        <5>1. /\ DOMAIN m.proc[e.pid] = ProcFields /\ m.proc[e.pid].msg = TRUE
              /\ m.proc[e.pid].at = n.proc[e.pid].at /\ m.proc[e.pid].buf = n.proc[e.pid].buf
              /\ m.proc[e.pid].got = n.proc[e.pid].got /\ m.proc[e.pid].slot = n.proc[e.pid].slot
          BY <3>1, <4>1, <4>6 DEF ProcFields
        <5> QED
          BY <3>1, <4>5, <5>1
      <4> QED
        BY <2>14, <3>3, <4>3, <4>4, <4>5, <4>7
    <3> QED
      BY <3>2, <3>3
  <2>18. PICK R : R = m.proc
    OBVIOUS
  <2>19. /\ DOMAIN R = Procs
         /\ \A q \in Procs : /\ DOMAIN R[q] = ProcFields /\ R[q].at = n.proc[q].at /\ R[q].buf = n.proc[q].buf
                             /\ R[q].got = n.proc[q].got /\ R[q].slot = n.proc[q].slot
                             /\ R[q].msg = IF q = e.pid /\ e.state = "recv" THEN TRUE ELSE n.proc[q].msg
    BY <2>17, <2>18
  <2>20. Held(R, P)
    BY <2>2, <2>19 DEF Held, Holds, Others
  <2>21. Waiters(m.waiting, R, P)
    <3>1. \A q \in Procs : Wants(R, P, q) <=> Wants(n.proc, P, q)
      BY <2>19 DEF Wants
    <3> QED
      BY <2>2, <2>17, <3>1 DEF Core, Waiters, ButIcmp
  <2>22. \A q \in Procs : \A k : At(R, P, q, k) <=> At(n.proc, P, q, k)
    BY <2>19 DEF At
  <2>23. e.state = "recv" => At(n.proc, P, e.pid, "icmp")
    BY <2>1, <2>2, <2>4 DEF IcmpSide
  <2>24. SameAt("udp", n.proc, P, R, P) /\ SameAt("arp", n.proc, P, R, P)
    BY <2>19, <2>22, <2>23 DEF SameAt, At
  <2>25. IcmpSide(I, R, n.owner, P)
    <3>1. ASSUME NEW t \in IcmpSlots, I[t].state = "recv"
          PROVE  At(R, P, I[t].pid, "icmp") /\ R[I[t].pid].slot = t /\ ~ R[I[t].pid].msg
      <4>1. t # s /\ I[t] = n.icmp[t]
        BY <2>7, <2>15, <3>1
      <4>2. At(n.proc, P, I[t].pid, "icmp") /\ n.proc[I[t].pid].slot = t /\ ~ n.proc[I[t].pid].msg
        BY <2>2, <3>1, <4>1 DEF IcmpSide
      <4>3. I[t].pid \in Procs
        BY <4>2 DEF At, Others
      <4>4. e.state = "recv" => e.pid # I[t].pid
        BY <2>1, <2>2, <2>4, <4>1, <4>2 DEF IcmpSide
      <4> QED
        BY <2>19, <2>22, <4>2, <4>3, <4>4
    <3>2. \A q \in Procs : At(R, P, q, "icmp") => q \in Clients /\ R[q].slot \in IcmpSlots /\ <<"icmp", R[q].slot>> \in n.owner[q]
      BY <2>2, <2>19, <2>22 DEF IcmpSide
    <3>3. \A t \in IcmpSlots : I[t].state = "free" => \A q \in Clients : <<"icmp", t>> \notin n.owner[q]
      <4>1. I[s].state # "free"
        BY <2>1, <2>4, <2>7, <2>15
      <4> QED
        BY <2>2, <2>15, <4>1 DEF IcmpSide
    <3>4. \A t \in IcmpSlots, q \in Clients, r \in Clients :
            <<"icmp", t>> \in n.owner[q] /\ <<"icmp", t>> \in n.owner[r] => q = r
      BY <2>2 DEF IcmpSide
    <3> QED
      BY <2>16, <3>1, <3>2, <3>3, <3>4 DEF IcmpSide
  <2>26. Core(m, P)
    <3>1. IsNet(m) /\ IsQueue(m.oq)
      BY <2>2, <2>11, <2>17 DEF IsNet, ButIcmp, Core
    <3>2. UdpSide(m.udp, R, m.owner, P) /\ ArpSide(m.arp, R, P)
      BY <2>2, <2>17, <2>24, QuietUdp, QuietArp DEF Core, ButIcmp
    <3> QED
      BY <2>2, <2>17, <2>18, <2>20, <2>21, <2>25, <3>1, <3>2 DEF Core, ButIcmp
  <2>27. ASSUME Good(n, P, H), e.count # ICMP_QSIZ
         PROVE  Good(m, P, H \ {b})
    <3>1. Reply(d) /\ e.queue[e.tail] = NULL
      <4>1. Reply(e) /\ Entered(e, d, b)
        BY <2>1, <2>4, <2>7, <2>8, <2>27 DEF Good, Replies, Entered
      <4> QED
        BY <2>3, <2>5, <2>27, <4>1, ReplyPut
    <3>2. Replies(m.icmp)
      BY <2>15, <2>17, <2>27, <3>1 DEF Good, Replies
    <3>3. Sited(m, P, H \ {b})
      <4>1. Sited(n, P, H) /\ SameRecords(n.proc, m.proc)
        BY <2>17, <2>27 DEF Good, SameRecords
      <4>2. \A t \in IcmpSlots \ {s} : I[t].queue = n.icmp[t].queue
        BY <2>15
      <4>3. I[s].queue = Put(n.icmp[s].queue, n.icmp[s].tail, b) /\ n.icmp[s].queue[n.icmp[s].tail] = NULL
        BY <2>4, <2>7, <2>15, <3>1
      <4>4. I = m.icmp /\ m.udp = n.udp /\ m.oq = n.oq /\ m.free = n.free
        BY <2>17 DEF ButIcmp
      <4>5. IcmpShape(n.icmp) /\ H \in SUBSET Bufs
        BY <2>2
      <4> QED
        BY <2>1, <4>1, <4>2, <4>3, <4>4, <4>5, IcmpPut
    <3>4. Routes(m.arp, R, m.pkt, m.evicted, P)
      BY <2>17, <2>24, <2>27, QuietRoutes DEF Good, ButIcmp
    <3>5. Output(m.oq, R, P)
      <4>1. "ipout" \in Procs
        BY DEF Procs
      <4>2. /\ At(R, P, "ipout", "take") <=> At(n.proc, P, "ipout", "take")
            /\ At(R, P, "ipout", "blocked") <=> At(n.proc, P, "ipout", "blocked")
        BY <2>22, <4>1
      <4> QED
        BY <2>17, <2>27, <4>2 DEF Good, Output, InOq, ButIcmp
    <3> QED
      BY <2>18, <3>2, <3>3, <3>4, <3>5 DEF Good
  <2> QED
    BY <2>2, <2>11, <2>12, <2>17, <2>26, <2>27 DEF Sound, ButIcmp
<1> QED
  BY <1>2, <1>3

-----------------------------------------------------------------------------
(* IP.                                                                      *)

\* The answer in f is put into the output queue and the request in b freed.
LEMMA Replied ==
  ASSUME NEW n, NEW p \in Procs, NEW H, NEW b \in H, NEW f \in H, b # f, Sound(n, {p}, H)
  PROVE  Sound(Done(freebuf(ip_enqueue(n, f), b), p), {}, (H \ {f}) \ {b})
<1>1. PICK P : P = {p}
  OBVIOUS
<1>2. PICK m : m = ip_enqueue(n, f)
  OBVIOUS
<1>3. PICK G : G = H \ {f}
  OBVIOUS
<1>4. Sound(m, P, G) /\ b \in G
  BY <1>1, <1>2, <1>3, Enqueues
<1>5. Sound(freebuf(m, b), P, G \ {b})
  BY <1>4, Frees
<1> QED
  BY <1>1, <1>2, <1>3, <1>5, Ends

\* Process p handles the packet in b.
Handles(n, p, b) == Sound(n, {p}, {b}) /\ ~ n.bad /\ ~ n.overtaken /\ n.proc[p].got = NULL

\* An echo request is answered at once, in a free buffer.
LEMMA AnswersNow ==
  ASSUME NEW n, NEW p \in Procs, NEW b, Handles(n, p, b), NEW f \in n.free, NEW k
  PROVE  Sound(Answers(n, p, b, f, k), {}, {})
<1>1. PICK P, H, m : P = {p} /\ H = {b} /\ m = Take(n, f, k)
  OBVIOUS
<1>2. Sound(n, P, H) /\ b \in H /\ b \in Bufs /\ Good(n, P, H)
  BY <1>1 DEF Handles, Sound
<1>3. b # f
  <2>1. IsAt(n, P, H, b, "hand", 0)
    BY <1>2 DEF IsAt, AtPool
  <2>2. OnlyAt(n, P, H, b, "hand", 0)
    BY <1>2, <2>1, Only DEF Good
  <2> QED
    BY <2>2 DEF OnlyAt, IsAt, AtPool
<1>4. PICK G : G = H \cup {f}
  OBVIOUS
<1>5. Sound(m, P, G)
  BY <1>1, <1>2, <1>4, Takes
<1>6. PICK E : E = (G \ {f}) \ {b}
  OBVIOUS
<1>7. Sound(Done(freebuf(ip_enqueue(m, f), b), p), {}, E)
  BY <1>1, <1>3, <1>4, <1>5, <1>6, Replied
<1>8. E = {}
  BY <1>1, <1>4, <1>6
<1> QED
  BY <1>1, <1>7, <1>8 DEF Answers

\* An ICMP packet has arrived in b.
LEMMA IcmpIn ==
  ASSUME NEW n, NEW p \in Procs, NEW b, Handles(n, p, b)
  PROVE  Sound(icmp_in(n, p, b), {}, {})
<1>1. PICK k : k = n.pkt[b]
  OBVIOUS
<1>2. CASE k.type = "reply"
  <2>1. PICK P, H : P = {p} /\ H = {b}
    OBVIOUS
  <2>2. Sound(echo_reply(n, b), P, H \ {b})
    BY <2>1, ReplyIn DEF Handles
  <2>3. Sound(Done(echo_reply(n, b), p), {}, H \ {b})
    BY <2>1, <2>2, Ends
  <2>4. H \ {b} = {}
    BY <2>1
  <2> QED
    BY <1>1, <1>2, <2>3, <2>4 DEF icmp_in
<1>3. CASE k.type = "request" /\ n.free # {}
  <2>1. FreeBuf(n) \in n.free
    BY <1>3, FreeBufIn DEF Handles, Sound, Core, IsNet
  <2> QED
    BY <1>1, <1>3, <2>1, AnswersNow DEF icmp_in
<1>4. CASE k.type = "request" /\ n.free = {}
  <2>1. PICK m : m = icmp_in(n, p, b)
    OBVIOUS
  <2>2. m = [WaitsForBuf(n, p, "echo", EchoReply(k)) EXCEPT !.proc[p].buf = b]
    BY <1>1, <1>4, <2>1 DEF icmp_in
  <2>3. IsNet(n) /\ DOMAIN n.proc = Procs /\ DOMAIN n.proc[p] = ProcFields /\ n.proc[p].msg \in BOOLEAN
    BY DEF Handles, Sound, Core, Held
  <2>4. PICK r : r = m.proc[p]
    OBVIOUS
  <2>5. /\ Rest(n, m) /\ m.waiting = Append(n.waiting, p)
        /\ m.proc = [n.proc EXCEPT ![p] = [n.proc[p] EXCEPT !.at = "echo", !.todo = EchoReply(k), !.buf = b]]
    BY <2>2, <2>3 DEF WaitsForBuf, Rest, IsNet, NetFields, ProcFields
  <2>6. /\ DOMAIN r = ProcFields /\ r.at = "echo" /\ r.got = NULL /\ r.msg \in BOOLEAN /\ r.buf = b
        /\ m.proc = [n.proc EXCEPT ![p] = r]
    BY <2>3, <2>4, <2>5 DEF ProcFields, Handles
  <2>7. PICK P, H : P = {p} /\ H = {b}
    OBVIOUS
  <2>8. Sound(n, P, H) /\ H = {r.buf} /\ r.at \in Wanting
    BY <2>6, <2>7 DEF Handles, Wanting
  <2>9. Sound(m, {}, {})
    BY <2>5, <2>6, <2>7, <2>8, Queues
  <2> QED
    BY <2>1, <2>9
<1>5. CASE k.type \notin {"reply", "request"}
  <2>1. icmp_in(n, p, b) = Done(freebuf(n, b), p)
    BY <1>1, <1>5 DEF icmp_in
  <2> QED
    BY <2>1, Drops DEF Handles
<1> QED
  BY <1>2, <1>3, <1>4, <1>5

\* The packet in b is for this host.
LEMMA IpLocal ==
  ASSUME NEW n, NEW p \in Procs, NEW b, Handles(n, p, b)
  PROVE  Sound(ip_local(n, p, b), {}, {})
<1>1. CASE n.pkt[b].proto = "udp"
  <2>1. PICK P, H : P = {p} /\ H = {b}
    OBVIOUS
  <2>2. Sound(udp_in(n, b), P, H \ {b})
    BY <2>1, UdpIn DEF Handles
  <2>3. Sound(Done(udp_in(n, b), p), {}, H \ {b})
    BY <2>1, <2>2, Ends
  <2>4. H \ {b} = {}
    BY <2>1
  <2> QED
    BY <1>1, <2>3, <2>4 DEF ip_local
<1>2. CASE n.pkt[b].proto = "icmp"
  BY <1>2, IcmpIn DEF ip_local
<1>3. CASE n.pkt[b].proto \notin {"udp", "icmp"}
  <2>1. ip_local(n, p, b) = Done(freebuf(n, b), p)
    BY <1>3 DEF ip_local
  <2> QED
    BY <2>1, Drops DEF Handles
<1> QED
  BY <1>1, <1>2, <1>3

\* The packet in b goes to its next hop.
LEMMA Forwards ==
  ASSUME NEW n, NEW p \in Procs, NEW b, Handles(n, p, b)
  PROVE  Sound(ToNext(n, p, b), {}, {})
<1>1. PICK hop : hop = NextHop(n.pkt[b].dst)
  OBVIOUS
<1>2. CASE hop = NULL
  BY <1>1, <1>2, Drops DEF ToNext, Handles
<1>3. CASE hop # NULL
  BY <1>1, <1>3, Resolves DEF ToNext, Handles
<1> QED
  BY <1>2, <1>3

\* Process p sends the packet in b.
LEMMA IpSend ==
  ASSUME NEW n, NEW p \in Procs, NEW b, Handles(n, p, b)
  PROVE  Sound(ip_send(n, p, b), {}, {})
<1>1. ip_send(n, p, b) \in {ip_local(n, p, b), ip_out(n, p, b, BCAST, BCAST), ToNext(n, p, b)}
  BY DEF ip_send
<1>2. Sound(ip_out(n, p, b, BCAST, BCAST), {}, {})
  BY Leaves DEF Handles
<1> QED
  BY <1>1, <1>2, IpLocal, Forwards

\* An IP packet has arrived in b.
LEMMA IpIn ==
  ASSUME NEW n, NEW p \in Procs, NEW b, Handles(n, p, b)
  PROVE  Sound(ip_in(n, p, b), {}, {})
<1>1. ip_in(n, p, b) \in {ip_local(n, p, b), Done(freebuf(n, b), p)}
  BY DEF ip_in
<1> QED
  BY <1>1, IpLocal, Drops DEF Handles

-----------------------------------------------------------------------------
(* Where the way of a process ends.                                         *)

\* What a change of the tables and of one process leaves alone.
SameRest(n, m) ==
  /\ DOMAIN m = NetFields /\ m.free = n.free /\ m.pkt = n.pkt /\ m.oq = n.oq /\ m.waiting = n.waiting
  /\ m.owner = n.owner
  /\ m.evicted = n.evicted /\ m.misdirected = n.misdirected /\ m.bad = n.bad /\ m.overtaken = n.overtaken

\* The process is where it does not wait for a buffer, with the one in hand.
Stops(r, H) ==
  /\ DOMAIN r = ProcFields /\ r.msg \in BOOLEAN /\ Holds(r) /\ r.got = NULL
  /\ r.at \notin Wanting \cup {"take", "blocked"}
  /\ H = {b \in Bufs : b = r.buf}

\* A process comes to where it does not wait for a buffer, and nothing is in hand.
LEMMA Comes ==
  ASSUME NEW n, NEW m, NEW P, NEW H, NEW p \in Procs, NEW r, NEW E, E = {}, Alone(P, p), Sound(n, P, H),
         SameRest(n, m), m.proc = [n.proc EXCEPT ![p] = r], Stops(r, H), SamePlaces(n, m),
         Replies(n.icmp) => Replies(m.icmp),
         UdpSide(m.udp, m.proc, m.owner, E), IcmpSide(m.icmp, m.proc, m.owner, E), ArpSide(m.arp, m.proc, E),
         Routes(n.arp, n.proc, n.pkt, n.evicted, P) => Routes(m.arp, m.proc, m.pkt, m.evicted, E)
  PROVE  Sound(m, E, E)
<1>1. Core(n, P) /\ IsNet(n) /\ Held(n.proc, P) /\ H \in SUBSET Bufs
  BY DEF Sound, Core
<1>2. PICK R : R = m.proc
  OBVIOUS
<1>3. DOMAIN R = Procs /\ R[p] = r /\ \A q \in Procs \ {p} : R[q] = n.proc[q]
  BY <1>1, <1>2 DEF Held
<1>4. \A q \in Procs : (q \in P <=> q = p) /\ q \notin E
  BY DEF Alone
<1>5. OnlyOf(n.proc, P, R, E, p)
  BY <1>3, <1>4 DEF OnlyOf, Stops
<1>6. Held(R, E)
  BY <1>1, <1>5 DEF Held, OnlyOf, Others
<1>7. Waiters(m.waiting, R, E)
  <2>1. \A q \in Procs : Wants(R, E, q) <=> Wants(n.proc, P, q)
    BY <1>3, <1>4 DEF Wants, Others, Stops
  <2> QED
    BY <1>1, <2>1 DEF Core, Waiters, SameRest
<1>8. Core(m, E)
  BY <1>1, <1>2, <1>6, <1>7 DEF Core, IsNet, SameRest
<1>9. ASSUME Good(n, P, H)
      PROVE  Good(m, E, E)
  <2>1. Keeps(n.proc, P, H, R, E, E, p)
    <3> SUFFICES ASSUME NEW c \in Bufs
                 PROVE  CellMoves(n.proc, P, H, R, E, E, p, c)
      BY OtherCells
    <3>1. \A l, q : Cell(n.proc, P, H, p, c, l, q) <=> l = "hand" /\ q = 0 /\ c = r.buf
      BY <1>4 DEF Cell, AtPool, AtProc, Others, Stops
    <3>2. \A l, q : Cell(R, E, E, p, c, l, q) <=> l = "buf" /\ q = p /\ c = r.buf
      <4>1. c # r.got
        BY NetAssumption DEF Stops
      <4>2. \A l, q : ~ AtPool({}, E, c, l, q)
        BY DEF AtPool
      <4>3. \A l, q : q = p /\ AtProc(R, E, c, l, q) <=> l = "buf" /\ q = p /\ c = r.buf
        BY <1>3, <1>4, <4>1 DEF AtProc, Others
      <4> QED
        BY <4>2, <4>3 DEF Cell
    <3>3. CASE c = r.buf
      <4>1. Cell(n.proc, P, H, p, c, "hand", 0) /\ OnlyCell(R, E, E, p, c, "buf", p)
        BY <3>1, <3>2, <3>3 DEF OnlyCell
      <4> QED
        BY <4>1, CellMoved
    <3>4. CASE c # r.buf
      BY <3>1, <3>2, <3>4 DEF CellMoves
    <3> QED
      BY <3>3, <3>4
  <2>2. Sited(m, E, E)
    BY <1>2, <1>5, <1>9, <2>1, TurnSited DEF Good
  <2>3. Output(m.oq, R, E)
    <3>1. /\ At(R, E, "ipout", "take") <=> At(n.proc, P, "ipout", "take")
          /\ At(R, E, "ipout", "blocked") <=> At(n.proc, P, "ipout", "blocked")
      BY <1>3, <1>4 DEF At, Others, Stops
    <3> QED
      BY <1>9, <3>1 DEF Good, Output, InOq, SameRest
  <2> QED
    BY <1>2, <1>9, <2>2, <2>3 DEF Good
<1> QED
  BY <1>8, <1>9 DEF Sound, SameRest

\* The endpoint knows who waits at it.
UdpAsked(n, p, s) == [n EXCEPT !.udp[s].state = "recv", !.udp[s].pid = p]
IcmpAsked(n, p, s) == [n EXCEPT !.icmp[s].state = "recv", !.icmp[s].pid = p]

\* A process waits for a packet at its endpoint.
LEMMA UdpAsks ==
  ASSUME NEW n, NEW p \in Clients, NEW s \in UdpSlots, NEW E, E = {}, NEW P, Alone(P, p), Sound(n, P, E),
         <<"udp", s>> \in n.owner[p], n.udp[s].state = "used", n.udp[s].queue = << >>
  PROVE  Sound(Receives(UdpAsked(n, p, s), p, "udp", s, NULL, 0), E, E)
<1>1. PICK k : k = UdpAsked(n, p, s)
  OBVIOUS
<1>2. PICK m : m = Receives(k, p, "udp", s, NULL, 0)
  OBVIOUS
<1>3. PICK r : r = [Home(p) EXCEPT !.at = "udp", !.slot = s, !.buf = NULL, !.tries = 0]
  OBVIOUS
<1>4. DOMAIN r = ProcFields /\ r.at = "udp" /\ r.slot = s /\ r.buf = NULL /\ r.got = NULL /\ r.msg = FALSE
  BY <1>3, HomeShape DEF ProcFields
<1>5. /\ Core(n, P) /\ IsNet(n) /\ Held(n.proc, P) /\ UdpSide(n.udp, n.proc, n.owner, P) /\ UdpShape(n.udp)
      /\ p \in Procs
  BY DEF Sound, Core, UdpSide, Procs
<1>6. /\ DOMAIN k = NetFields /\ k.free = n.free /\ k.pkt = n.pkt /\ k.waiting = n.waiting /\ k.proc = n.proc
      /\ k.owner = n.owner /\ k.arp = n.arp /\ k.icmp = n.icmp /\ k.oq = n.oq
      /\ k.udp = [n.udp EXCEPT ![s] = [n.udp[s] EXCEPT !.state = "recv", !.pid = p]]
      /\ k.evicted = n.evicted /\ k.misdirected = n.misdirected /\ k.bad = n.bad /\ k.overtaken = n.overtaken
  BY <1>1, <1>5 DEF UdpAsked, IsNet, NetFields, UdpShape, UdpFields
<1>7. m = [k EXCEPT !.proc[p] = r]
  BY <1>2, <1>3 DEF Receives
<1>8. SameRest(n, m) /\ m.proc = [n.proc EXCEPT ![p] = r] /\ m.arp = n.arp /\ m.icmp = n.icmp /\ m.udp = k.udp
  BY <1>6, <1>7 DEF SameRest, NetFields
<1>9. PICK U, R : U = m.udp /\ R = m.proc
  OBVIOUS
<1>10. /\ DOMAIN U = UdpSlots /\ DOMAIN U[s] = UdpFields
       /\ U[s].state = "recv" /\ U[s].pid = p /\ U[s].queue = << >>
       /\ \A t \in UdpSlots \ {s} : U[t] = n.udp[t]
  BY <1>5, <1>6, <1>8, <1>9 DEF UdpShape, UdpFields
<1>11. DOMAIN R = Procs /\ R[p] = r /\ \A q \in Procs \ {p} : R[q] = n.proc[q]
  BY <1>5, <1>8, <1>9 DEF Held
<1>12. \A q : (q \in Others(P) <=> q \in Procs /\ q # p) /\ (q \in Others(E) <=> q \in Procs)
  BY DEF Alone, Others
<1>13. UdpSide(U, R, n.owner, E)
  <2>1. UdpShape(U)
    BY <1>5, <1>10 DEF UdpShape
  <2>2. ASSUME NEW t \in UdpSlots, U[t].state = "recv"
        PROVE  At(R, E, U[t].pid, "udp") /\ R[U[t].pid].slot = t /\ ~ R[U[t].pid].msg /\ U[t].queue = << >>
    <3>1. CASE t = s
      BY <1>4, <1>5, <1>10, <1>11, <1>12, <3>1 DEF At
    <3>2. CASE t # s
      <4>1. /\ At(n.proc, P, U[t].pid, "udp") /\ n.proc[U[t].pid].slot = t /\ ~ n.proc[U[t].pid].msg
            /\ U[t].queue = << >>
        BY <1>5, <1>10, <2>2, <3>2 DEF UdpSide
      <4> QED
        BY <1>11, <1>12, <4>1 DEF At
    <3> QED
      BY <3>1, <3>2
  <2>3. ASSUME NEW q \in Procs, At(R, E, q, "udp")
        PROVE  UdpWaits(U, R, n.owner, E, q)
    <3>1. CASE q = p
      BY <1>4, <1>10, <1>11, <3>1 DEF UdpWaits
    <3>2. CASE q # p
      <4>1. R[q] = n.proc[q] /\ UdpWaits(n.udp, n.proc, n.owner, P, q)
        BY <1>5, <1>11, <1>12, <2>3, <3>2 DEF UdpSide, At
      <4>2. n.proc[q].slot # s
        BY <1>5, <3>2, <4>1 DEF UdpSide, UdpWaits
      <4> QED
        BY <1>10, <4>1, <4>2 DEF UdpWaits
    <3> QED
      BY <3>1, <3>2
  <2>4. /\ \A t \in UdpSlots : U[t].state = "free" => U[t].queue = << >> /\ \A q \in Clients : <<"udp", t>> \notin n.owner[q]
        /\ \A t \in UdpSlots, q \in Clients, u \in Clients : <<"udp", t>> \in n.owner[q] /\ <<"udp", t>> \in n.owner[u] => q = u
    BY <1>5, <1>10 DEF UdpSide
  <2> QED
    BY <2>1, <2>2, <2>3, <2>4 DEF UdpSide
<1>14. SameAt("icmp", n.proc, P, R, E) /\ SameAt("arp", n.proc, P, R, E)
  BY <1>4, <1>11, <1>12 DEF SameAt, At
<1>15. IcmpSide(m.icmp, R, m.owner, E) /\ ArpSide(m.arp, R, E)
  BY <1>5, <1>8, <1>14, QuietIcmp, QuietArp DEF Core, SameRest
<1>16. Routes(n.arp, n.proc, n.pkt, n.evicted, P) => Routes(m.arp, R, m.pkt, m.evicted, E)
  BY <1>8, <1>14, QuietRoutes DEF SameRest
<1>17. SamePlaces(n, m)
  <2>1. \A t \in UdpSlots : U[t].queue = n.udp[t].queue
    BY <1>10
  <2> QED
    BY <1>8, <1>9, <2>1 DEF SamePlaces, SameRest
<1>18. Stops(r, E)
  BY <1>4, NetAssumption DEF Stops, Holds, Holding, Wanting, MaybeBuf
<1>19. m.owner = n.owner
  BY <1>8 DEF SameRest
<1>20. Sound(m, E, E)
  BY <1>5, <1>8, <1>9, <1>13, <1>15, <1>16, <1>17, <1>18, <1>19, Comes
<1> QED
  BY <1>1, <1>2, <1>20

\* A process waits for a reply at its endpoint.
LEMMA IcmpAsks ==
  ASSUME NEW n, NEW p \in Clients, NEW s \in IcmpSlots, NEW E, E = {}, NEW P, Alone(P, p), Sound(n, P, E),
         <<"icmp", s>> \in n.owner[p], n.icmp[s].state = "used"
  PROVE  Sound(Receives(IcmpAsked(n, p, s), p, "icmp", s, NULL, 0), E, E)
<1>1. PICK k : k = IcmpAsked(n, p, s)
  OBVIOUS
<1>2. PICK m : m = Receives(k, p, "icmp", s, NULL, 0)
  OBVIOUS
<1>3. PICK r : r = [Home(p) EXCEPT !.at = "icmp", !.slot = s, !.buf = NULL, !.tries = 0]
  OBVIOUS
<1>4. DOMAIN r = ProcFields /\ r.at = "icmp" /\ r.slot = s /\ r.buf = NULL /\ r.got = NULL /\ r.msg = FALSE
  BY <1>3, HomeShape DEF ProcFields
<1>5. /\ Core(n, P) /\ IsNet(n) /\ Held(n.proc, P) /\ IcmpSide(n.icmp, n.proc, n.owner, P) /\ IcmpShape(n.icmp)
      /\ p \in Procs
  BY DEF Sound, Core, IcmpSide, Procs
<1>6. /\ DOMAIN k = NetFields /\ k.free = n.free /\ k.pkt = n.pkt /\ k.waiting = n.waiting /\ k.proc = n.proc
      /\ k.owner = n.owner /\ k.arp = n.arp /\ k.udp = n.udp /\ k.oq = n.oq
      /\ k.icmp = [n.icmp EXCEPT ![s] = [n.icmp[s] EXCEPT !.state = "recv", !.pid = p]]
      /\ k.evicted = n.evicted /\ k.misdirected = n.misdirected /\ k.bad = n.bad /\ k.overtaken = n.overtaken
  BY <1>1, <1>5 DEF IcmpAsked, IsNet, NetFields, IcmpShape, IcmpFields
<1>7. m = [k EXCEPT !.proc[p] = r]
  BY <1>2, <1>3 DEF Receives
<1>8. SameRest(n, m) /\ m.proc = [n.proc EXCEPT ![p] = r] /\ m.arp = n.arp /\ m.udp = n.udp /\ m.icmp = k.icmp
  BY <1>6, <1>7 DEF SameRest, NetFields
<1>9. PICK I, R : I = m.icmp /\ R = m.proc
  OBVIOUS
<1>10. /\ DOMAIN I = IcmpSlots /\ DOMAIN I[s] = IcmpFields /\ I[s].state = "recv" /\ I[s].pid = p
       /\ I[s].queue = n.icmp[s].queue /\ I[s].head = n.icmp[s].head /\ I[s].tail = n.icmp[s].tail
       /\ I[s].count = n.icmp[s].count
       /\ \A t \in IcmpSlots \ {s} : I[t] = n.icmp[t]
  BY <1>5, <1>6, <1>8, <1>9 DEF IcmpShape, IcmpFields
<1>11. DOMAIN R = Procs /\ R[p] = r /\ \A q \in Procs \ {p} : R[q] = n.proc[q]
  BY <1>5, <1>8, <1>9 DEF Held
<1>12. \A q : (q \in Others(P) <=> q \in Procs /\ q # p) /\ (q \in Others(E) <=> q \in Procs)
  BY DEF Alone, Others
<1>13. IcmpSide(I, R, n.owner, E)
  <2>1. IcmpShape(I)
    <3>1. \A t \in IcmpSlots : IcmpEntry(n.icmp[t])
      BY <1>5 DEF IcmpShape, IcmpEntry
    <3>2. \A t \in IcmpSlots : IcmpEntry(I[t])
      BY <1>10, <3>1 DEF IcmpEntry
    <3> QED
      BY <1>10, <3>2 DEF IcmpShape, IcmpEntry
  <2>2. ASSUME NEW t \in IcmpSlots, I[t].state = "recv"
        PROVE  At(R, E, I[t].pid, "icmp") /\ R[I[t].pid].slot = t /\ ~ R[I[t].pid].msg
    <3>1. CASE t = s
      BY <1>4, <1>5, <1>10, <1>11, <1>12, <3>1 DEF At
    <3>2. CASE t # s
      <4>1. At(n.proc, P, I[t].pid, "icmp") /\ n.proc[I[t].pid].slot = t /\ ~ n.proc[I[t].pid].msg
        BY <1>5, <1>10, <2>2, <3>2 DEF IcmpSide
      <4> QED
        BY <1>11, <1>12, <4>1 DEF At
    <3> QED
      BY <3>1, <3>2
  <2>3. ASSUME NEW q \in Procs, At(R, E, q, "icmp")
        PROVE  q \in Clients /\ R[q].slot \in IcmpSlots /\ <<"icmp", R[q].slot>> \in n.owner[q]
    <3>1. CASE q = p
      BY <1>4, <1>11, <3>1
    <3>2. CASE q # p
      BY <1>5, <1>11, <1>12, <2>3, <3>2 DEF IcmpSide, At
    <3> QED
      BY <3>1, <3>2
  <2>4. \A t \in IcmpSlots : I[t].state = "free" => \A q \in Clients : <<"icmp", t>> \notin n.owner[q]
    BY <1>5, <1>10 DEF IcmpSide
  <2>5. \A t \in IcmpSlots, q \in Clients, u \in Clients :
          <<"icmp", t>> \in n.owner[q] /\ <<"icmp", t>> \in n.owner[u] => q = u
    BY <1>5 DEF IcmpSide
  <2> QED
    BY <2>1, <2>2, <2>3, <2>4, <2>5 DEF IcmpSide
<1>14. SameAt("udp", n.proc, P, R, E) /\ SameAt("arp", n.proc, P, R, E)
  BY <1>4, <1>11, <1>12 DEF SameAt, At
<1>15. UdpSide(m.udp, R, m.owner, E) /\ ArpSide(m.arp, R, E)
  BY <1>5, <1>8, <1>14, QuietUdp, QuietArp DEF Core, SameRest
<1>16. Routes(n.arp, n.proc, n.pkt, n.evicted, P) => Routes(m.arp, R, m.pkt, m.evicted, E)
  BY <1>8, <1>14, QuietRoutes DEF SameRest
<1>17. SamePlaces(n, m)
  <2>1. \A t \in IcmpSlots : I[t].queue = n.icmp[t].queue
    BY <1>10
  <2> QED
    BY <1>8, <1>9, <2>1 DEF SamePlaces, SameRest
<1>18. Stops(r, E)
  BY <1>4, NetAssumption DEF Stops, Holds, Holding, Wanting, MaybeBuf
<1>19. Replies(n.icmp) => Replies(m.icmp)
  BY <1>9, <1>10 DEF Replies, Reply
<1>20. m.owner = n.owner
  BY <1>8 DEF SameRest
<1>21. Sound(m, E, E)
  BY <1>5, <1>8, <1>9, <1>13, <1>15, <1>16, <1>17, <1>18, <1>19, <1>20, Comes
<1> QED
  BY <1>1, <1>2, <1>21

\* The wait for a reply ends.
LEMMA IcmpReturns ==
  ASSUME NEW n, NEW p \in Procs, NEW s, NEW m, NEW E, E = {}, Steady(n),
         n.proc[p].at = "icmp", s = n.proc[p].slot, m = IcmpUsed(n, s)
  PROVE  /\ Sound(m, {p}, E) /\ p \in Clients /\ s \in IcmpSlots /\ <<"icmp", s>> \in m.owner[p]
         /\ m.icmp[s].state = "used" /\ m.bad = n.bad /\ m.overtaken = n.overtaken
<1>0. Sound(n, {}, {}) /\ Good(n, {}, {})
  BY SteadyGood
<1> USE <1>0 DEF IcmpUsed
<1>1. Core(n, {}) /\ IsNet(n) /\ Held(n.proc, {})
  BY DEF Sound, Core
<1>2. PICK R : R = n.proc
  OBVIOUS
<1>3. PICK I : I = m.icmp
  OBVIOUS
<1>4. IcmpSide(n.icmp, R, n.owner, {}) /\ IcmpShape(n.icmp)
  BY <1>1, <1>2 DEF Core, IcmpSide
<1>5. p \in Clients /\ s \in IcmpSlots /\ <<"icmp", s>> \in n.owner[p]
  BY <1>2, <1>4 DEF IcmpSide, At, Others
<1>6. /\ SameBut(n, m) /\ m.owner = n.owner /\ m.arp = n.arp /\ m.udp = n.udp
      /\ I = [n.icmp EXCEPT ![s] = [n.icmp[s] EXCEPT !.state = "used"]]
  BY <1>1, <1>3 DEF IsNet, NetFields, SameBut
<1>7. /\ DOMAIN I = IcmpSlots /\ DOMAIN I[s] = IcmpFields /\ I[s].state = "used"
      /\ I[s].queue = n.icmp[s].queue /\ I[s].head = n.icmp[s].head /\ I[s].tail = n.icmp[s].tail
      /\ I[s].count = n.icmp[s].count
      /\ \A t \in IcmpSlots \ {s} : I[t] = n.icmp[t]
  BY <1>4, <1>5, <1>6 DEF IcmpShape, IcmpFields
<1>8. IcmpSide(I, R, m.owner, {p})
  <2>1. IcmpShape(I)
    <3>1. \A t \in IcmpSlots : IcmpEntry(n.icmp[t])
      BY <1>4 DEF IcmpShape, IcmpEntry
    <3>2. \A t \in IcmpSlots : IcmpEntry(I[t])
      BY <1>7, <3>1 DEF IcmpEntry
    <3> QED
      BY <1>7, <3>2 DEF IcmpShape, IcmpEntry
  <2>2. ASSUME NEW t \in IcmpSlots, I[t].state = "recv"
        PROVE  At(R, {p}, I[t].pid, "icmp") /\ R[I[t].pid].slot = t /\ ~ R[I[t].pid].msg
    <3>1. t # s /\ I[t] = n.icmp[t]
      BY <1>7, <2>2
    <3>2. At(R, {}, I[t].pid, "icmp") /\ R[I[t].pid].slot = t /\ ~ R[I[t].pid].msg
      BY <1>4, <2>2, <3>1 DEF IcmpSide
    <3>3. I[t].pid # p
      BY <1>2, <3>1, <3>2
    <3> QED
      BY <3>2, <3>3 DEF At, Others
  <2>3. \A q \in Procs : At(R, {p}, q, "icmp") =>
          q \in Clients /\ R[q].slot \in IcmpSlots /\ <<"icmp", R[q].slot>> \in m.owner[q]
    BY <1>4, <1>6 DEF IcmpSide, At, Others
  <2>4. \A t \in IcmpSlots : I[t].state = "free" => \A q \in Clients : <<"icmp", t>> \notin m.owner[q]
    BY <1>4, <1>6, <1>7 DEF IcmpSide
  <2>5. \A t \in IcmpSlots, q \in Clients, u \in Clients :
          <<"icmp", t>> \in m.owner[q] /\ <<"icmp", t>> \in m.owner[u] => q = u
    BY <1>4, <1>6 DEF IcmpSide
  <2> QED
    BY <2>1, <2>2, <2>3, <2>4, <2>5 DEF IcmpSide
<1>9. UdpSide(n.udp, n.proc, n.owner, {p}) /\ ArpSide(n.arp, n.proc, {p})
  BY <1>1, UdpLeft, ArpLeft DEF Core
<1>10. Routes(n.arp, n.proc, n.pkt, n.evicted, {p})
  BY DEF Good, Routes, At, Others
<1>11. SamePlaces(n, m)
  <2>1. \A t \in IcmpSlots : I[t].queue = n.icmp[t].queue
    BY <1>7
  <2> QED
    BY <1>3, <1>6, <2>1 DEF SamePlaces, SameBut
<1>12. E = {b \in Bufs : b = n.proc[p].buf \/ b = n.proc[p].got}
  BY <1>1, NetAssumption DEF Held, Holds, Others, Holding, Wanting
<1>13. Replies(m.icmp)
  <2>1. \A t \in IcmpSlots : Reply(n.icmp[t])
    BY DEF Good, Replies
  <2>2. Reply(I[s])
    BY <1>5, <1>7, <2>1 DEF Reply
  <2> QED
    BY <1>3, <1>7, <2>1, <2>2 DEF Replies
<1>14. Sound(m, {p}, E)
  BY <1>2, <1>3, <1>6, <1>8, <1>9, <1>10, <1>11, <1>12, <1>13, Goes DEF Wanting
<1> QED
  BY <1>3, <1>5, <1>6, <1>7, <1>14 DEF SameBut

\* The wait for an address is given up: nobody waits for it any more.
LEMMA GivesUp ==
  ASSUME NEW n, NEW p \in Procs, NEW s, NEW m, NEW H, H = {n.proc[p].buf}, Sound(n, {}, {}), Good(n, {}, {}),
         n.proc[p].at = "arp", ~ n.proc[p].msg, s = n.proc[p].slot, m = Invalidated(n, s)
  PROVE  Sound(m, {p}, H)
<1>1. Core(n, {}) /\ IsNet(n) /\ Held(n.proc, {})
  BY DEF Sound, Core
<1>2. PICK R : R = n.proc
  OBVIOUS
<1>3. PICK A : A = m.arp
  OBVIOUS
<1>4. ArpSide(n.arp, R, {})
  BY <1>1, <1>2 DEF Core
<1>5. s \in ArpSlots /\ n.arp[s].state = "pending" /\ n.arp[s].pid = p
  BY <1>2, <1>4 DEF ArpSide, At, Others
<1>6. /\ SameBut(n, m) /\ m.owner = n.owner /\ m.icmp = n.icmp /\ m.udp = n.udp
      /\ A = [n.arp EXCEPT ![s] = [n.arp[s] EXCEPT !.state = "free"]]
  BY <1>1, <1>3 DEF IsNet, NetFields, SameBut, Invalidated
<1>7. /\ DOMAIN A = ArpSlots /\ DOMAIN A[s] = ArpFields /\ A[s].state = "free"
      /\ \A t \in ArpSlots \ {s} : A[t] = n.arp[t]
  BY <1>4, <1>5, <1>6 DEF ArpSide, ArpFields
<1>8. \A q \in Procs \ {p} : At(R, {p}, q, "arp") => R[q].slot \in ArpSlots /\ (R[q].msg \/ R[q].slot # s)
  BY <1>4, <1>5 DEF ArpSide, At, Others
<1>9. ArpSide(A, R, {p})
  <2>1. ASSUME NEW t \in ArpSlots, A[t].state = "pending"
        PROVE  At(R, {p}, A[t].pid, "arp") /\ R[A[t].pid].slot = t /\ ~ R[A[t].pid].msg
    <3>1. t # s /\ A[t] = n.arp[t]
      BY <1>7, <2>1
    <3>2. At(R, {}, A[t].pid, "arp") /\ R[A[t].pid].slot = t /\ ~ R[A[t].pid].msg
      BY <1>4, <2>1, <3>1 DEF ArpSide
    <3>3. A[t].pid # p
      BY <1>2, <3>1, <3>2
    <3> QED
      BY <3>2, <3>3 DEF At, Others
  <2>2. ASSUME NEW q \in Procs, At(R, {p}, q, "arp")
        PROVE  R[q].slot \in ArpSlots /\ (~ R[q].msg => A[R[q].slot].state = "pending" /\ A[R[q].slot].pid = q)
    <3>1. q # p /\ At(R, {}, q, "arp")
      BY <2>2 DEF At, Others
    <3>2. /\ R[q].slot \in ArpSlots
          /\ ~ R[q].msg => n.arp[R[q].slot].state = "pending" /\ n.arp[R[q].slot].pid = q
      BY <1>4, <3>1 DEF ArpSide
    <3> QED
      BY <1>7, <1>8, <2>2, <3>1, <3>2
  <2>3. \A t \in ArpSlots : DOMAIN A[t] = ArpFields /\ (A[t].state = "resolved" => A[t].hw = A[t].addr)
    BY <1>4, <1>7 DEF ArpSide
  <2>4. DOMAIN A = ArpSlots
    BY <1>7
  <2> QED
    BY <2>1, <2>2, <2>3, <2>4 DEF ArpSide
<1>10. UdpSide(n.udp, n.proc, n.owner, {p}) /\ IcmpSide(n.icmp, n.proc, n.owner, {p})
  BY <1>1, UdpLeft, IcmpLeft DEF Core
<1>11. Routes(A, R, n.pkt, n.evicted, {p})
  <2> SUFFICES ASSUME ~ n.evicted, NEW q \in Procs, At(R, {p}, q, "arp")
               PROVE  Routed(A, R[q], n.pkt)
    BY DEF Routes
  <2>1. q # p /\ At(R, {}, q, "arp")
    BY DEF At, Others
  <2>2. Routed(n.arp, R[q], n.pkt)
    BY <1>2, <2>1 DEF Good, Routes
  <2>3. R[q].slot # s
    <3>1. CASE R[q].msg
      BY <1>5, <2>2, <3>1 DEF Routed
    <3>2. CASE ~ R[q].msg
      BY <1>8, <2>1, <3>2
    <3> QED
      BY <3>1, <3>2
  <2> QED
    BY <1>7, <1>8, <2>1, <2>2, <2>3 DEF Routed
<1>12. SamePlaces(n, m)
  BY <1>6 DEF SamePlaces, SameBut
<1>13. H = {b \in Bufs : b = n.proc[p].buf \/ b = n.proc[p].got}
  BY <1>1, NetAssumption DEF Held, Holds, Others, Holding, Wanting
<1> QED
  BY <1>2, <1>3, <1>6, <1>9, <1>10, <1>11, <1>12, <1>13, Goes DEF Wanting, Good

\* d is the endpoint e without its first reply.
First1(e) == e.queue[Wrap(e.head, ICMP_QSIZ)]
NextReply(e, d) ==
  /\ DOMAIN d = IcmpFields /\ d.state = e.state /\ d.pid = e.pid /\ d.tail = e.tail
  /\ d.queue = Put(e.queue, Wrap(e.head, ICMP_QSIZ), NULL) /\ d.count = e.count - 1
  /\ d.head \in 0 .. ICMP_QSIZ /\ Wrap(d.head, ICMP_QSIZ) = Wrap(Wrap(e.head, ICMP_QSIZ) + 1, ICMP_QSIZ)

\* The first reply is a buffer, and the queue without it is a ring.
LEMMA ReplyGet ==
  ASSUME NEW e, NEW d, IcmpEntry(e), Reply(e), e.count # 0, NextReply(e, d)
  PROVE  /\ Reply(d) /\ IcmpEntry(d) /\ First1(e) # NULL /\ First1(e) \in Bufs
         /\ Wrap(e.head, ICMP_QSIZ) \in 0 .. ICMP_QSIZ - 1
<1>1. PICK N \in Nat \ {0} : N = ICMP_QSIZ
  BY NetAssumption
<1>2. PICK h, c, t, B : h = Wrap(e.head, N) /\ c = e.count /\ t = e.tail /\ B = e.queue
  OBVIOUS
<1>3. /\ DOMAIN B = 0 .. N - 1 /\ Ring(B, N, h, t, c)
      /\ h \in 0 .. N - 1 /\ t \in 0 .. N - 1 /\ c \in 1 .. N
  <2>1. e.head \in 0 .. N
    BY <1>1 DEF Reply
  <2>2. h \in 0 .. N - 1
    BY <1>2, <2>1 DEF Wrap
  <2>3. Ring(B, N, h, t, c)
    BY <1>1, <1>2 DEF Reply
  <2>4. DOMAIN B = 0 .. N - 1 /\ t \in 0 .. N - 1 /\ c # 0
    BY <1>1, <1>2 DEF IcmpEntry
  <2>5. c \in 0 .. N
    BY <2>3 DEF Ring
  <2> QED
    BY <2>2, <2>3, <2>4, <2>5
<1>4. PICK w : w = Put(B, h, NULL)
  OBVIOUS
<1>5. B[h] # NULL /\ Ring(w, N, Wrap(h + 1, N), t, c - 1)
  BY <1>3, <1>4, RingGet
<1>6. Reply(d)
  <2>1. e.state # "free"
    BY <1>2, <1>3 DEF Reply
  <2>2. Ring(d.queue, N, Wrap(d.head, N), d.tail, d.count)
    BY <1>1, <1>2, <1>4, <1>5 DEF NextReply
  <2> QED
    BY <1>1, <2>1, <2>2 DEF Reply, NextReply
<1>7. IcmpEntry(d)
  <2>1. Put(e.queue, Wrap(e.head, ICMP_QSIZ), NULL) \in [0 .. ICMP_QSIZ - 1 -> MaybeBuf]
    BY DEF IcmpEntry, Put, MaybeBuf
  <2>2. d.head \in Int /\ d.count \in Int
    BY DEF NextReply, IcmpEntry
  <2> QED
    BY <2>1, <2>2 DEF NextReply, IcmpEntry
<1>8. First1(e) = B[h] /\ B \in [0 .. ICMP_QSIZ - 1 -> MaybeBuf]
  BY <1>1, <1>2 DEF First1, IcmpEntry
<1> QED
  BY <1>1, <1>2, <1>3, <1>5, <1>6, <1>7, <1>8 DEF MaybeBuf

\* The first reply of an endpoint is in hand.
LEMMA IcmpTaken ==
  ASSUME NEW n, NEW s \in IcmpSlots, NEW H, NEW P, Sound(n, P, H), ~ n.bad, ~ n.overtaken,
         n.icmp[s].count # 0, NEW d, NextReply(n.icmp[s], d), NEW k, SameBut(n, k), k.owner = n.owner,
         k.arp = n.arp, k.udp = n.udp, k.icmp = [n.icmp EXCEPT ![s] = d]
  PROVE  /\ Sound(k, P, H \cup {First1(n.icmp[s])}) /\ First1(n.icmp[s]) \in Bufs /\ First1(n.icmp[s]) \notin H
<1>1. /\ Core(n, P) /\ IsNet(n) /\ H \in SUBSET Bufs /\ Good(n, P, H)
      /\ IcmpSide(n.icmp, n.proc, n.owner, P) /\ IcmpShape(n.icmp)
  BY DEF Sound, Core, IcmpSide
<1>2. PICK e, b, h, I : e = n.icmp[s] /\ b = First1(e) /\ h = Wrap(e.head, ICMP_QSIZ) /\ I = k.icmp
  OBVIOUS
<1>3. IcmpEntry(e) /\ Reply(e)
  BY <1>1, <1>2 DEF IcmpShape, IcmpEntry, Good, Replies
<1>4. Reply(d) /\ IcmpEntry(d) /\ b \in Bufs /\ b # NULL /\ h \in 0 .. ICMP_QSIZ - 1
  BY <1>2, <1>3, ReplyGet
<1>5. DOMAIN I = IcmpSlots /\ I[s] = d /\ \A t \in IcmpSlots \ {s} : I[t] = n.icmp[t]
  BY <1>1, <1>2 DEF IcmpShape
<1>6. d.state = e.state /\ d.pid = e.pid /\ d.queue = Put(e.queue, h, NULL)
  BY <1>2 DEF NextReply
<1>7. IcmpSide(I, n.proc, n.owner, P)
  <2>1. IcmpShape(I)
    <3>1. \A t \in IcmpSlots : IcmpEntry(I[t])
      BY <1>1, <1>4, <1>5 DEF IcmpShape, IcmpEntry
    <3> QED
      BY <1>5, <3>1 DEF IcmpShape, IcmpEntry
  <2>2. \A t \in IcmpSlots : I[t].state = n.icmp[t].state /\ I[t].pid = n.icmp[t].pid
    BY <1>2, <1>5, <1>6
  <2> QED
    BY <1>1, <2>1, <2>2 DEF IcmpSide
<1>8. Core(k, P)
  BY <1>1, <1>2, <1>7 DEF Core, IsNet, SameBut
<1>9. PICK G : G = H \cup {b}
  OBVIOUS
<1>10. Sited(n, P, H) /\ Distinct(n) /\ DOMAIN e.queue = 0 .. ICMP_QSIZ - 1 /\ Injective(e.queue, ICMP_QSIZ) /\ e.queue[h] = b
  BY <1>1, <1>2, <1>3 DEF Good, Sited, Distinct, IcmpEntry, First1
<1>11. /\ Injective(d.queue, ICMP_QSIZ)
       /\ \A c \in Bufs : In(d.queue, ICMP_QSIZ, c) <=> c # b /\ In(e.queue, ICMP_QSIZ, c)
  <2>1. PICK B : B = e.queue
    OBVIOUS
  <2>2. DOMAIN B = 0 .. ICMP_QSIZ - 1 /\ Injective(B, ICMP_QSIZ) /\ B[h] # NULL /\ ICMP_QSIZ \in Nat
    BY <1>4, <1>10, <2>1, NetAssumption
  <2>3. d.queue = [B EXCEPT ![h] = NULL] /\ b = B[h]
    BY <1>6, <1>10, <2>1 DEF Put
  <2> QED
    BY <1>4, <2>1, <2>2, <2>3, ArrayGet
<1>12. Distinct(k)
  <2>1. \A t \in IcmpSlots : Injective(I[t].queue, ICMP_QSIZ)
    BY <1>5, <1>10, <1>11 DEF Distinct
  <2> QED
    BY <1>2, <1>10, <2>1 DEF Distinct, SameBut
<1>13. \A J, c, l, r : AtIcmp(J, c, l, r) <=> l = "icmp" /\ r \in IcmpSlots /\ In(J[r].queue, ICMP_QSIZ, c)
  BY DEF AtIcmp, In
<1>14. AtIcmp(n.icmp, b, "icmp", s)
  BY <1>2, <1>4, <1>10 DEF AtIcmp
<1>15. \A l, r : Tables(n, b, l, r) <=> l = "icmp" /\ r = s
  <2>1. IsAt(n, P, H, b, "icmp", s)
    BY <1>14 DEF IsAt
  <2>2. OnlyAt(n, P, H, b, "icmp", s)
    BY <1>4, <1>10, <2>1, Only
  <2> QED
    BY <1>14, <2>2 DEF OnlyAt, IsAt, Tables
<1>16. TablesLose(n, k, b)
  <2> SUFFICES ASSUME NEW c \in Bufs, NEW l, NEW r
               PROVE  Tables(k, c, l, r) <=> Tables(n, c, l, r) /\ c # b
    BY DEF TablesLose
  <2>1. AtIcmp(I, c, l, r) <=> AtIcmp(n.icmp, c, l, r) /\ (r = s => c # b)
    <3>1. CASE r = s
      BY <1>2, <1>5, <1>11, <1>13, <3>1
    <3>2. CASE r # s
      <4>1. r \in IcmpSlots => I[r].queue = n.icmp[r].queue
        BY <1>5, <3>2
      <4> QED
        BY <1>13, <3>2, <4>1
    <3> QED
      BY <3>1, <3>2
  <2>2. Tables(k, c, l, r) <=> AtUdp(n.udp, c, l, r) \/ AtIcmp(I, c, l, r) \/ AtOut(n.oq, c, l, r)
    BY <1>2 DEF Tables, SameBut
  <2>3. AtUdp(n.udp, c, l, r) \/ AtOut(n.oq, c, l, r) => l # "icmp"
    BY DEF AtUdp, AtOut
  <2> QED
    BY <1>15, <2>1, <2>2, <2>3 DEF Tables
<1>17. SameRecords(n.proc, k.proc) /\ k.free = n.free /\ Tables(n, b, "icmp", s)
  BY <1>15 DEF SameRecords, SameBut
<1>18. Sited(k, P, G) /\ b \notin H
  <2>1. PICK j : j = k
    OBVIOUS
  <2>2. Sited(n, P, H) /\ Distinct(j) /\ TablesLose(n, j, b) /\ SameRecords(n.proc, j.proc) /\ j.free = n.free
    BY <1>10, <1>12, <1>16, <1>17, <2>1
  <2>3. Sited(j, P, G) /\ b \notin H
    BY <1>4, <1>9, <1>17, <2>2, Removed, Zenon
  <2> QED
    BY <2>1, <2>3
<1>19. Replies(k.icmp)
  BY <1>1, <1>2, <1>4, <1>5 DEF Good, Replies
<1>20. Good(k, P, G)
  BY <1>1, <1>18, <1>19 DEF Good, SameBut
<1> QED
  BY <1>1, <1>2, <1>4, <1>8, <1>9, <1>18, <1>20 DEF Sound, SameBut

\* A buffer is freed while the tables change elsewhere.
SamePool(n, m) == m.free = n.free /\ m.waiting = n.waiting /\ m.proc = n.proc /\ m.pkt = n.pkt
SameTables(n, m) ==
  /\ DOMAIN m = NetFields /\ m.owner = n.owner /\ m.arp = n.arp /\ m.udp = n.udp /\ m.icmp = n.icmp /\ m.oq = n.oq
  /\ m.evicted = n.evicted /\ m.misdirected = n.misdirected /\ m.bad = n.bad /\ m.overtaken = n.overtaken

\* It is the same as freeing the buffer first and changing the tables then.
LEMMA FreesAs ==
  ASSUME NEW n, NEW k, NEW m, NEW b, NEW P, NEW H, NEW G, Sound(k, P, G), b \in G, H = G \ {b},
         DOMAIN n = NetFields, SamePool(n, k), SamePool(freebuf(n, b), m), SameTables(k, m)
  PROVE  Sound(m, P, H)
<1>1. PICK j : j = freebuf(k, b)
  OBVIOUS
<1>2. Sound(j, P, H)
  BY <1>1, Frees
<1>3. DOMAIN k = NetFields
  BY DEF Sound, Core, IsNet
<1>4. SameTables(k, j)
  BY <1>1, <1>3, FreeKeeps DEF SameTables
<1>5. SamePool(freebuf(n, b), j)
  BY <1>1, <1>3 DEF SamePool, freebuf, NetFields
<1>6. Rest(j, m) /\ m.waiting = j.waiting /\ m.proc = j.proc
  BY <1>4, <1>5 DEF SamePool, SameTables, Rest
<1> QED
  BY <1>2, <1>6, SameFields

\* The endpoint s is d, and it was used as it should not be.
Spoilt(n, m, s, d) ==
  /\ DOMAIN m = NetFields /\ m.free = n.free /\ m.pkt = n.pkt /\ m.oq = n.oq /\ m.waiting = n.waiting
  /\ m.proc = n.proc /\ m.owner = n.owner /\ m.arp = n.arp /\ m.udp = n.udp /\ m.bad = TRUE
  /\ m.evicted = n.evicted /\ m.misdirected = n.misdirected /\ m.overtaken = n.overtaken
  /\ DOMAIN m.icmp = DOMAIN n.icmp /\ m.icmp[s] = d /\ \A t \in IcmpSlots \ {s} : m.icmp[t] = n.icmp[t]
  /\ d.state = n.icmp[s].state /\ d.pid = n.icmp[s].pid

\* What is not there is taken: the queues are used as they should not be.
LEMMA Spoils ==
  ASSUME NEW n, NEW s \in IcmpSlots, NEW H, NEW P, Sound(n, P, H), NEW d, NEW m, Spoilt(n, m, s, d),
         IcmpEntry(d)
  PROVE  Sound(m, P, H)
<1>1. Core(n, P) /\ IsNet(n) /\ H \in SUBSET Bufs /\ IcmpSide(n.icmp, n.proc, n.owner, P) /\ IcmpShape(n.icmp)
  BY DEF Sound, Core, IcmpSide
<1>2. PICK I : I = m.icmp
  OBVIOUS
<1>3. DOMAIN I = IcmpSlots /\ I[s] = d /\ \A t \in IcmpSlots \ {s} : I[t] = n.icmp[t]
  BY <1>1, <1>2 DEF IcmpShape, Spoilt
<1>4. IcmpShape(I)
  <2>1. \A t \in IcmpSlots : IcmpEntry(I[t])
    BY <1>1, <1>3 DEF IcmpShape, IcmpEntry
  <2> QED
    BY <1>3, <2>1 DEF IcmpShape, IcmpEntry
<1>5. \A t \in IcmpSlots : I[t].state = n.icmp[t].state /\ I[t].pid = n.icmp[t].pid
  BY <1>3 DEF Spoilt
<1>6. IcmpSide(I, n.proc, n.owner, P)
  <2>1. PICK J, R, O : J = n.icmp /\ R = n.proc /\ O = n.owner
    OBVIOUS
  <2>2. IcmpSide(J, R, O, P) /\ \A t \in IcmpSlots : I[t].state = J[t].state /\ I[t].pid = J[t].pid
    BY <1>1, <1>5, <2>1
  <2>3. IcmpSide(I, R, O, P)
    BY <1>4, <2>2 DEF IcmpSide
  <2> QED
    BY <2>1, <2>3
<1>7. Core(m, P)
  BY <1>1, <1>2, <1>6 DEF Core, IsNet, Spoilt
<1> QED
  BY <1>1, <1>7 DEF Sound, Spoilt

\* Process p leaves icmp_recv.
LEMMA IcmpDequeues ==
  ASSUME NEW n, NEW p \in Clients, NEW s \in IcmpSlots, NEW E, NEW P, Alone(P, p), Sound(n, P, E),
         ~ n.bad, ~ n.overtaken
  PROVE  Sound(IcmpDequeued(n, p, s), {}, E)
<1>1. /\ Core(n, P) /\ IsNet(n) /\ Good(n, P, E) /\ IcmpShape(n.icmp) /\ p \in Procs
  BY DEF Sound, Core, IcmpSide, Procs
<1>2. PICK e : e = n.icmp[s]
  OBVIOUS
<1>3. IcmpEntry(e) /\ Reply(e)
  BY <1>1, <1>2 DEF IcmpShape, IcmpEntry, Good, Replies
<1>4. PICK head \in Int, count \in Int : head = e.head /\ count = e.count
  BY <1>3 DEF IcmpEntry
<1>5. PICK m : m = [n EXCEPT !.icmp[s].head = IcmpNext(@), !.icmp[s].count = @ - 1]
  OBVIOUS
<1>6. /\ DOMAIN m = NetFields /\ SamePool(n, m) /\ m.owner = n.owner /\ m.arp = n.arp /\ m.udp = n.udp /\ m.oq = n.oq
      /\ m.icmp = [n.icmp EXCEPT ![s] = [e EXCEPT !.head = IcmpNext(head), !.count = count - 1]]
      /\ m.evicted = n.evicted /\ m.misdirected = n.misdirected /\ m.bad = n.bad /\ m.overtaken = n.overtaken
  BY <1>1, <1>2, <1>3, <1>4, <1>5 DEF IsNet, NetFields, SamePool, IcmpShape, IcmpEntry, IcmpFields
<1>7. PICK ok : ok = (head \in 0 .. ICMP_QSIZ - 1 /\ count > 0 /\ e.queue[head] # NULL)
  OBVIOUS
<1>8. /\ ok => IcmpDequeued(n, p, s) = Done([freebuf(m, e.queue[head]) EXCEPT !.icmp[s].queue[head] = NULL], p)
      /\ ~ ok => IcmpDequeued(n, p, s) = Done([m EXCEPT !.bad = TRUE], p)
  <2> DEFINE x == n.icmp[s]
             y == [n EXCEPT !.icmp[s].head = IcmpNext(@), !.icmp[s].count = @ - 1]
             z == IF x.head \in 0 .. ICMP_QSIZ - 1 /\ x.count > 0 /\ x.queue[x.head] # NULL
                  THEN [freebuf(y, x.queue[x.head]) EXCEPT !.icmp[s].queue[x.head] = NULL]
                  ELSE [y EXCEPT !.bad = TRUE]
  <2>1. IcmpDequeued(n, p, s) = Done(z, p)
    BY Zenon DEF IcmpDequeued
  <2>2. x = e /\ y = m
    BY <1>2, <1>5
  <2> HIDE DEF x, y
  <2>3. /\ ok => z = [freebuf(m, e.queue[head]) EXCEPT !.icmp[s].queue[head] = NULL]
        /\ ~ ok => z = [m EXCEPT !.bad = TRUE]
    BY <1>4, <1>7, <2>2
  <2> HIDE DEF z
  <2> QED
    BY <2>1, <2>3
<1>9. IcmpNext(head) \in Int
  BY DEF IcmpNext
<1>10. CASE ~ ok
  <2>1. PICK d, j : d = [e EXCEPT !.head = IcmpNext(head), !.count = count - 1] /\ j = [m EXCEPT !.bad = TRUE]
    OBVIOUS
  <2>2. IcmpEntry(d) /\ d.state = e.state /\ d.pid = e.pid
    <3>1. /\ DOMAIN d = IcmpFields /\ d.queue = e.queue /\ d.tail = e.tail /\ d.head = IcmpNext(head)
          /\ d.count = count - 1 /\ d.state = e.state /\ d.pid = e.pid
      BY <1>3, <2>1 DEF IcmpEntry, IcmpFields
    <3> QED
      BY <1>3, <1>9, <3>1 DEF IcmpEntry
  <2>3. /\ DOMAIN j = NetFields /\ SamePool(n, j) /\ j.owner = n.owner /\ j.arp = n.arp /\ j.udp = n.udp /\ j.oq = n.oq
        /\ j.icmp = [n.icmp EXCEPT ![s] = d]
        /\ j.evicted = n.evicted /\ j.misdirected = n.misdirected /\ j.bad = TRUE /\ j.overtaken = n.overtaken
    BY <1>6, <2>1 DEF NetFields, SamePool
  <2>4. Sound(j, P, E)
    <3>1. DOMAIN n.icmp = IcmpSlots /\ n.icmp[s] = e
      BY <1>1, <1>2 DEF IcmpShape
    <3>2. DOMAIN j.icmp = DOMAIN n.icmp /\ j.icmp[s] = d /\ \A t \in IcmpSlots \ {s} : j.icmp[t] = n.icmp[t]
      BY <2>3, <3>1
    <3>3. Spoilt(n, j, s, d) /\ IcmpEntry(d)
      BY <2>2, <2>3, <3>1, <3>2 DEF Spoilt, SamePool
    <3> QED
      BY <3>3, Spoils
  <2>5. Sound(Done(j, p), {}, E)
    BY <1>1, <2>4, Ends DEF Alone
  <2> QED
    BY <1>8, <1>10, <2>1, <2>5
<1>11. CASE ok
  <2>1. head \in 0 .. ICMP_QSIZ - 1 /\ count > 0 /\ e.queue[head] # NULL
    BY <1>7, <1>11
  <2>2. Wrap(head, ICMP_QSIZ) = head /\ Wrap(e.head, ICMP_QSIZ) = head
    BY <1>4, <2>1, NetAssumption DEF Wrap
  <2>3. PICK b, d : b = e.queue[head] /\ d = [e EXCEPT !.head = IcmpNext(head), !.count = count - 1, !.queue = Put(@, head, NULL)]
    OBVIOUS
  <2>4. /\ DOMAIN d = IcmpFields /\ d.queue = Put(e.queue, head, NULL) /\ d.tail = e.tail /\ d.head = IcmpNext(head)
        /\ d.count = count - 1 /\ d.state = e.state /\ d.pid = e.pid
    BY <1>3, <2>3 DEF IcmpEntry, IcmpFields
  <2>5. IcmpNext(head) \in 0 .. ICMP_QSIZ /\ Wrap(IcmpNext(head), ICMP_QSIZ) = Wrap(head + 1, ICMP_QSIZ)
    BY <2>1, NetAssumption DEF IcmpNext, Wrap
  <2>6. NextReply(e, d) /\ First1(e) = b
    BY <1>4, <2>2, <2>3, <2>4, <2>5 DEF NextReply, First1
  <2>7. PICK k : k = [n EXCEPT !.icmp[s] = d]
    OBVIOUS
  <2>8. SameBut(n, k) /\ k.owner = n.owner /\ k.arp = n.arp /\ k.udp = n.udp /\ k.icmp = [n.icmp EXCEPT ![s] = d]
    BY <1>1, <2>7 DEF IsNet, NetFields, SameBut
  <2>9. n.icmp[s].count # 0 /\ NextReply(n.icmp[s], d) /\ First1(n.icmp[s]) = b
    BY <1>2, <1>4, <2>1, <2>6
  <2>10. PICK G : G = E \cup {b}
    OBVIOUS
  <2>11. Sound(k, P, G) /\ b \notin E
    BY <2>8, <2>9, <2>10, IcmpTaken
  <2>12. PICK f : f = freebuf(m, b)
    OBVIOUS
  <2>13. PICK j : j = [f EXCEPT !.icmp[s].queue[head] = NULL]
    OBVIOUS
  <2>14. SameTables(m, f)
    BY <1>6, <2>12, FreeKeeps DEF SameTables
  <2>15. /\ DOMAIN j = NetFields /\ SamePool(f, j) /\ j.owner = n.owner /\ j.arp = n.arp /\ j.udp = n.udp /\ j.oq = n.oq
         /\ j.evicted = n.evicted /\ j.misdirected = n.misdirected /\ j.bad = n.bad /\ j.overtaken = n.overtaken
         /\ j.icmp = [m.icmp EXCEPT ![s] = [m.icmp[s] EXCEPT !.queue = Put(@, head, NULL)]]
    BY <1>6, <2>13, <2>14 DEF SameTables, SamePool, NetFields, Put
  <2>16. j.icmp = [n.icmp EXCEPT ![s] = d]
    <3>1. m.icmp[s] = [e EXCEPT !.head = IcmpNext(head), !.count = count - 1] /\ DOMAIN n.icmp = IcmpSlots
      BY <1>1, <1>6 DEF IcmpShape
    <3>2. d = [m.icmp[s] EXCEPT !.queue = Put(@, head, NULL)]
      BY <1>3, <2>3, <3>1 DEF IcmpEntry, IcmpFields
    <3> QED
      BY <1>6, <2>15, <3>1, <3>2
  <2>17. SameTables(k, j)
    BY <2>8, <2>15, <2>16 DEF SameTables, SameBut
  <2>18. SamePool(m, k)
    BY <1>6, <2>8 DEF SamePool, SameBut
  <2>19. b \in G /\ E = G \ {b}
    BY <2>10, <2>11
  <2>20. Sound(j, P, E)
    BY <1>6, <2>11, <2>12, <2>15, <2>17, <2>18, <2>19, FreesAs
  <2>21. Sound(Done(j, p), {}, E)
    BY <1>1, <2>20, Ends DEF Alone
  <2> QED
    BY <1>8, <1>11, <2>3, <2>12, <2>13, <2>21
<1> QED
  BY <1>10, <1>11

-----------------------------------------------------------------------------
(* The ways of the processes, from one place to the next.                   *)

\* A process goes, with the buffers that it has.
LEMMA Goes1 ==
  ASSUME NEW n, NEW p \in Procs, NEW H, Steady(n), n.proc[p].at \notin {"take", "blocked"},
         n.proc[p].at \in {"udp", "icmp", "arp"} => n.proc[p].msg,
         n.proc[p].at \in Wanting => n.proc[p].got # NULL,
         H = {b \in Bufs : b = n.proc[p].buf \/ b = n.proc[p].got}
  PROVE  Sound(n, {p}, H)
BY SteadyGood, Departs

\* A process that does not wait for a buffer goes, with the one that it holds.
LEMMA GoesWith ==
  ASSUME NEW n, NEW p \in Procs, NEW b, NEW H, Steady(n), n.proc[p].at \in {"read", "arp"},
         n.proc[p].at = "arp" => n.proc[p].msg, b = n.proc[p].buf, H = {b}
  PROVE  Sound(n, {p}, H) /\ n.proc[p].got = NULL /\ b \in Bufs
<1>1. n.proc[p].got = NULL /\ b \in Bufs
  BY SteadyGood, NetAssumption DEF Held, Holds, Others, Holding, Wanting
<1>2. H = {c \in Bufs : c = n.proc[p].buf \/ c = n.proc[p].got}
  BY <1>1, NetAssumption
<1>3. Sound(n, {p}, H)
  BY <1>2, Goes1 DEF Wanting
<1> QED
  BY <1>1, <1>3

\* A process goes with the buffer that it waited for.
LEMMA GoesGot ==
  ASSUME NEW n, NEW p \in Procs, NEW b, NEW H, Steady(n), n.proc[p].at \in {"waitbuf", "send"},
         b = n.proc[p].got, b # NULL, H = {b}
  PROVE  Sound(n, {p}, H) /\ b \in Bufs
<1>1. n.proc[p].buf = NULL /\ b \in Bufs
  BY SteadyGood DEF Held, Holds, Others, Holding, Wanting, MaybeBuf
<1>2. H = {c \in Bufs : c = n.proc[p].buf \/ c = n.proc[p].got}
  BY <1>1, NetAssumption
<1>3. Sound(n, {p}, H)
  BY <1>2, Goes1 DEF Wanting
<1> QED
  BY <1>1, <1>3

\* A process goes that has no buffer.
LEMMA GoesEmpty ==
  ASSUME NEW n, NEW p \in Procs, NEW E, E = {}, Steady(n), n.proc[p].at \in {"getbuf", "idle"}
  PROVE  Sound(n, {p}, E) /\ n.proc[p].got = NULL /\ n.proc[p].buf = NULL
<1>1. n.proc[p].buf = NULL /\ n.proc[p].got = NULL
  BY SteadyGood DEF Held, Holds, Others, Holding, Wanting, MaybeBuf
<1>2. E = {c \in Bufs : c = n.proc[p].buf \/ c = n.proc[p].got}
  BY <1>1, NetAssumption
<1>3. Sound(n, {p}, E)
  BY <1>2, Goes1 DEF Wanting
<1> QED
  BY <1>1, <1>3

\* A process comes to a place where it waits for no message.
LEMMA Parks ==
  ASSUME NEW n, NEW m, NEW P, NEW H, NEW p \in Procs, NEW r, NEW E, E = {}, Alone(P, p), Sound(n, P, H),
         Stops(r, H), r.at \notin {"udp", "icmp", "arp"}, Rest(n, m), m.waiting = n.waiting,
         m.proc = [n.proc EXCEPT ![p] = r]
  PROVE  Sound(m, E, E)
<1>1. Core(n, P) /\ Held(n.proc, P)
  BY DEF Sound, Core
<1>2. PICK R : R = m.proc
  OBVIOUS
<1>3. DOMAIN R = Procs /\ R[p] = r /\ \A q \in Procs \ {p} : R[q] = n.proc[q]
  BY <1>1, <1>2 DEF Held
<1>4. p \in P /\ \A q \in Procs : (q \in P <=> q = p) /\ q \notin E
  BY DEF Alone
<1>5. Quiet(n.proc, P, R, E)
  BY <1>3, <1>4, QuietChange
<1>6. UdpSide(m.udp, R, m.owner, E) /\ IcmpSide(m.icmp, R, m.owner, E) /\ ArpSide(m.arp, R, E)
  BY <1>1, <1>5, QuietUdp, QuietIcmp, QuietArp DEF Core, Quiet, Rest
<1>7. Routes(n.arp, n.proc, n.pkt, n.evicted, P) => Routes(m.arp, R, m.pkt, m.evicted, E)
  BY <1>5, QuietRoutes DEF Quiet, Rest
<1>8. SameRest(n, m) /\ SamePlaces(n, m) /\ (Replies(n.icmp) => Replies(m.icmp))
  BY DEF Rest, SameRest, SamePlaces
<1> QED
  BY <1>2, <1>6, <1>7, <1>8, Comes

\* The record of a process on its way says nothing.
LEMMA OnWay ==
  ASSUME NEW n, NEW m, NEW P, NEW H, NEW p \in Procs, NEW r, Alone(P, p), Sound(n, P, H),
         DOMAIN r = ProcFields, r.msg \in BOOLEAN, r.at # "blocked", Rest(n, m), m.waiting = n.waiting,
         m.proc = [n.proc EXCEPT ![p] = r]
  PROVE  Sound(m, P, H)
<1>1. Core(n, P) /\ Held(n.proc, P) /\ H \in SUBSET Bufs
  BY DEF Sound, Core
<1>2. PICK R : R = m.proc
  OBVIOUS
<1>3. DOMAIN R = Procs /\ R[p] = r /\ \A q \in Procs \ {p} : R[q] = n.proc[q]
  BY <1>1, <1>2 DEF Held
<1>4. p \in P /\ \A q \in Procs : q \in P <=> q = p
  BY DEF Alone
<1>5. Quiet(n.proc, P, R, P)
  BY <1>3, <1>4, QuietChange
<1>6. OnlyOf(n.proc, P, R, P, p)
  BY <1>3, <1>4 DEF OnlyOf, Alone
<1>7. Keeps(n.proc, P, H, R, P, H, p)
  <2>1. \A b \in Bufs : \A l, q : Cell(R, P, H, p, b, l, q) <=> Cell(n.proc, P, H, p, b, l, q)
    BY <1>4 DEF Cell, AtProc, Others
  <2> QED
    BY <2>1, SameCells
<1>8. Waiters(m.waiting, R, P) /\ m.waiting \in Seq(Procs)
  <2>1. \A q \in Procs : Wants(R, P, q) <=> Wants(n.proc, P, q)
    BY <1>3, <1>4 DEF Wants, Others
  <2> QED
    BY <1>1, <2>1 DEF Core, Waiters, IsNet
<1>9. /\ At(R, P, "ipout", "take") <=> At(n.proc, P, "ipout", "take")
      /\ At(R, P, "ipout", "blocked") <=> At(n.proc, P, "ipout", "blocked")
  BY <1>3, <1>4 DEF At, Others
<1> QED
  BY <1>1, <1>2, <1>5, <1>6, <1>7, <1>8, <1>9, Turns

\* A process stays where it is, with what it has.
LEMMA Stays ==
  ASSUME NEW n, NEW m, NEW p \in Procs, NEW r, NEW E, E = {}, Sound(n, E, E),
         DOMAIN r = ProcFields, r.msg = n.proc[p].msg, r.at = n.proc[p].at, r.buf = n.proc[p].buf,
         r.got = n.proc[p].got, r.slot = n.proc[p].slot, Rest(n, m), m.waiting = n.waiting,
         m.proc = [n.proc EXCEPT ![p] = r]
  PROVE  Sound(m, E, E)
<1>1. Core(n, E) /\ Held(n.proc, E) /\ E \in SUBSET Bufs
  BY DEF Sound, Core
<1>2. PICK R : R = m.proc
  OBVIOUS
<1>3. DOMAIN R = Procs /\ R[p] = r /\ \A q \in Procs \ {p} : R[q] = n.proc[q]
  BY <1>1, <1>2 DEF Held
<1>4. \A q \in Procs : /\ R[q].at = n.proc[q].at /\ R[q].buf = n.proc[q].buf /\ R[q].got = n.proc[q].got
                       /\ R[q].msg = n.proc[q].msg /\ R[q].slot = n.proc[q].slot
  BY <1>3
<1>5. Quiet(n.proc, E, R, E)
  BY <1>4 DEF Quiet, SameAt, At
<1>6. OnlyOf(n.proc, E, R, E, p)
  <2>1. Holds(R[p]) /\ R[p].msg \in BOOLEAN
    BY <1>1, <1>3 DEF Held, Holds, Others
  <2> QED
    BY <1>3, <2>1 DEF OnlyOf
<1>7. Keeps(n.proc, E, E, R, E, E, p)
  <2>1. \A b \in Bufs : \A l, q : Cell(R, E, E, p, b, l, q) <=> Cell(n.proc, E, E, p, b, l, q)
    BY <1>4 DEF Cell, AtProc, Others
  <2> QED
    BY <2>1, SameCells
<1>8. Waiters(m.waiting, R, E) /\ m.waiting \in Seq(Procs)
  <2>1. \A q \in Procs : Wants(R, E, q) <=> Wants(n.proc, E, q)
    BY <1>4 DEF Wants, Others
  <2> QED
    BY <1>1, <2>1 DEF Core, Waiters, IsNet
<1>9. /\ At(R, E, "ipout", "take") <=> At(n.proc, E, "ipout", "take")
      /\ At(R, E, "ipout", "blocked") <=> At(n.proc, E, "ipout", "blocked")
  BY <1>4 DEF At, Others
<1> QED
  BY <1>1, <1>2, <1>5, <1>6, <1>7, <1>8, <1>9, Turns

\* A process waits for a buffer and has none.
LEMMA WaitsAtHome ==
  ASSUME NEW n, NEW p \in Procs, NEW at \in {"waitbuf", "send"}, NEW k, Steady(n),
         n.proc[p].at \in {"getbuf", "idle"}
  PROVE  Sound(WaitsForBuf(n, p, at, k), {}, {})
<1>1. IsNet(n) /\ DOMAIN n.proc = Procs /\ DOMAIN n.proc[p] = ProcFields /\ n.proc[p].msg \in BOOLEAN
  BY SteadyGood DEF Held
<1>2. PICK E : E = {}
  OBVIOUS
<1>3. n.proc[p].buf = NULL /\ n.proc[p].got = NULL
  BY <1>2, GoesEmpty
<1>4. PICK m : m = WaitsForBuf(n, p, at, k)
  OBVIOUS
<1>5. PICK r : r = [n.proc[p] EXCEPT !.at = at, !.todo = k]
  OBVIOUS
<1>6. Rest(n, m) /\ m.waiting = Append(n.waiting, p) /\ m.proc = [n.proc EXCEPT ![p] = r]
  BY <1>1, <1>4, <1>5 DEF WaitsForBuf, Rest, IsNet, NetFields, ProcFields
<1>7. DOMAIN r = ProcFields /\ r.at = at /\ r.got = NULL /\ r.buf = NULL /\ r.msg \in BOOLEAN
  BY <1>1, <1>3, <1>5 DEF ProcFields
<1>8. Sound(n, E, E) /\ r.at \in Wanting /\ r.at # "echo"
  BY <1>2, <1>7 DEF Wanting, Steady
<1> QED
  BY <1>2, <1>4, <1>6, <1>7, <1>8, Queues

\* An echo request is answered, in the buffer that came for it.
LEMMA AnswersLater ==
  ASSUME NEW n, NEW p \in Procs, Steady(n), n.proc[p].at = "echo", n.proc[p].got # NULL, NEW k
  PROVE  Sound(Answers(n, p, n.proc[p].buf, n.proc[p].got, k), {}, {})
<1>1. PICK b, f, E : b = n.proc[p].buf /\ f = n.proc[p].got /\ E = {}
  OBVIOUS
<1>2. b \in Bufs /\ f \in Bufs
  BY <1>1, SteadyGood DEF Held, Holds, Others, Holding, MaybeBuf
<1>3. Sited(n, E, E) /\ IsNet(n)
  BY <1>1, SteadyGood DEF Good
<1>4. OnlyAt(n, E, E, b, "buf", p) /\ OnlyAt(n, E, E, f, "got", p)
  <2>1. IsAt(n, E, E, b, "buf", p) /\ IsAt(n, E, E, f, "got", p)
    BY <1>1 DEF IsAt, AtProc, Others
  <2> QED
    BY <1>2, <1>3, <2>1, Only
<1>5. b # f
  BY <1>4 DEF OnlyAt
<1>6. f \notin n.free
  BY <1>4 DEF OnlyAt, IsAt, AtPool
<1>7. PICK H : H = {c \in Bufs : c = n.proc[p].buf \/ c = n.proc[p].got}
  OBVIOUS
<1>8. Sound(n, {p}, H)
  BY <1>7, Goes1
<1>9. b \in H /\ f \in H /\ (H \ {f}) \ {b} = {}
  BY <1>1, <1>2, <1>7
<1>10. PICK m : m = Take(n, f, k)
  OBVIOUS
<1>11. Rest([n EXCEPT !.pkt[f] = k], m) /\ m.waiting = n.waiting /\ m.proc = n.proc
  BY <1>3, <1>6, <1>10 DEF Take, Rest, IsNet, NetFields
<1>12. Sound(m, {p}, H)
  <2>1. PICK P : P = {p}
    OBVIOUS
  <2> QED
    BY <1>8, <1>9, <1>11, <2>1, Fills
<1>13. Sound(Done(freebuf(ip_enqueue(m, f), b), p), {}, (H \ {f}) \ {b})
  BY <1>5, <1>9, <1>12, Replied
<1> QED
  BY <1>1, <1>9, <1>10, <1>13 DEF Answers

\* Process p sends a packet that it made.
LEMMA SendsOut ==
  ASSUME NEW n, NEW p \in Procs, NEW k, Steady(n), n.proc[p].at = "idle", n.free # {}
  PROVE  Sound(ip_send(Take(n, FreeBuf(n), k), p, FreeBuf(n)), {}, {})
<1>1. PICK b, E, P, m : b = FreeBuf(n) /\ E = {} /\ P = {p} /\ m = Take(n, FreeBuf(n), k)
  OBVIOUS
<1>2. b \in n.free /\ IsNet(n)
  BY <1>1, SteadyGood, FreeBufIn DEF IsNet
<1>3. Sound(n, P, E) /\ n.proc[p].got = NULL
  BY <1>1, GoesEmpty
<1>4. Sound(m, P, E \cup {b}) /\ m.proc = n.proc
  BY <1>1, <1>2, <1>3, Takes
<1>5. ~ m.bad /\ ~ m.overtaken
  BY <1>1, <1>2 DEF Take, IsNet, NetFields, Steady
<1>6. E \cup {b} = {b}
  BY <1>1
<1>7. Handles(m, p, b)
  BY <1>1, <1>3, <1>4, <1>5, <1>6 DEF Handles
<1> QED
  BY <1>1, <1>7, IpSend

\* Process p sends the packet that waited with it for a buffer.
LEMMA SendsLater ==
  ASSUME NEW n, NEW p \in Procs, Steady(n), n.proc[p].at = "send", n.proc[p].got # NULL, NEW b,
         b = n.proc[p].got, NEW k
  PROVE  Sound(ip_send([Done(n, p) EXCEPT !.pkt[b] = k], p, b), {}, {})
<1>1. PICK P, H : P = {p} /\ H = {b}
  OBVIOUS
<1>2. Sound(n, P, H) /\ b \in H
  BY <1>1, GoesGot
<1>3. IsNet(n) /\ DOMAIN n.proc = Procs
  BY SteadyGood DEF Held
<1>4. PICK m, r : m = Done(n, p) /\ r = Home(p)
  OBVIOUS
<1>5. Rest(n, m) /\ m.waiting = n.waiting /\ m.proc = [n.proc EXCEPT ![p] = r]
  BY <1>3, <1>4 DEF Done, Rest, IsNet, NetFields
<1>6. DOMAIN r = ProcFields /\ r.msg \in BOOLEAN /\ r.at # "blocked" /\ r.got = NULL
  BY <1>4, HomeShape
<1>7. Sound(m, P, H)
  BY <1>1, <1>2, <1>5, <1>6, OnWay DEF Alone
<1>8. PICK j : j = [m EXCEPT !.pkt[b] = k]
  OBVIOUS
<1>9. Rest([m EXCEPT !.pkt[b] = k], j) /\ j.waiting = m.waiting /\ j.proc = m.proc
  <2>1. DOMAIN m = NetFields
    BY <1>5 DEF Rest
  <2> QED
    BY <1>8, <2>1 DEF Rest, NetFields
<1>10. Sound(j, P, H)
  <2>1. PICK i, c, x : i = m /\ c = b /\ x = k
    OBVIOUS
  <2>2. c \in H /\ Sound(i, P, H) /\ Rest([i EXCEPT !.pkt[c] = x], j) /\ j.waiting = i.waiting /\ j.proc = i.proc
    BY <1>2, <1>7, <1>9, <2>1
  <2> QED
    BY <2>2, Fills, Zenon
<1>11. j.bad = n.bad /\ j.overtaken = n.overtaken
  <2>1. DOMAIN m = NetFields
    BY <1>5 DEF Rest
  <2> QED
    BY <1>5, <1>8, <2>1 DEF Rest, NetFields
<1>12. Handles(j, p, b)
  BY <1>1, <1>3, <1>5, <1>6, <1>9, <1>10, <1>11 DEF Handles, Steady
<1> QED
  BY <1>4, <1>8, <1>12, IpSend

\* The buffer that netin reads into.
LEMMA Reading ==
  ASSUME NEW n, NEW m, Steady(n), n.proc["netin"].at = "read", NEW b, b = n.proc["netin"].buf,
         m = [n EXCEPT !.arrived = @ + 1]
  PROVE  /\ Sound(m, {"netin"}, {b}) /\ b \in Bufs /\ m.proc = n.proc /\ m.bad = n.bad /\ m.overtaken = n.overtaken
         /\ n.proc["netin"].got = NULL /\ DOMAIN m = NetFields
<1>1. "netin" \in Procs
  BY DEF Procs
<1>2. PICK P, H : P = {"netin"} /\ H = {b}
  OBVIOUS
<1>3. Sound(n, P, H) /\ n.proc["netin"].got = NULL /\ b \in Bufs
  BY <1>1, <1>2, GoesWith
<1>4. Rest(n, m) /\ m.waiting = n.waiting /\ m.proc = n.proc
  BY SteadyGood DEF IsNet, Rest, NetFields
<1>5. Sound(m, P, H)
  BY <1>3, <1>4, SameFields
<1> QED
  BY <1>2, <1>3, <1>4, <1>5 DEF Rest

-----------------------------------------------------------------------------
(* The steps of netin.                                                      *)

\* netin asks the pool for a buffer and gets it, or waits.
LEMMA GetBufKeeps ==
  ASSUME NetInv, GetBuf
  PROVE  NetInv'
<1>1. Steady(net) /\ net.proc["netin"].at = "getbuf" /\ "netin" \in Procs
  BY DEF GetBuf, Step, Steady, NetInv, Procs
<1>2. CASE net.free = {}
  <2>1. net' = WaitsForBuf(net, "netin", "waitbuf", NULL)
    BY <1>2 DEF GetBuf, Step
  <2>2. Sound(WaitsForBuf(net, "netin", "waitbuf", NULL), {}, {})
    BY <1>1, WaitsAtHome
  <2> QED
    BY <2>1, <2>2 DEF NetInv
<1>3. CASE net.free # {}
  <2>1. PICK n, m, b, p : /\ n = net /\ m = net' /\ b = FreeBuf(net) /\ p = "netin"
    OBVIOUS
  <2>2. m = [n EXCEPT !.free = @ \ {b}, !.proc[p] = [@ EXCEPT !.at = "read", !.buf = b]]
    BY <1>3, <2>1 DEF GetBuf, Step
  <2>3. IsNet(n) /\ DOMAIN n.proc = Procs /\ DOMAIN n.proc[p] = ProcFields /\ n.proc[p].msg \in BOOLEAN
    BY <1>1, <2>1, SteadyGood DEF Held
  <2>4. b \in n.free /\ b \in Bufs
    BY <1>3, <2>1, <2>3, FreeBufIn DEF IsNet
  <2>5. PICK P, E : P = {p} /\ E = {}
    OBVIOUS
  <2>6. Sound(n, P, E) /\ n.proc[p].got = NULL
    BY <1>1, <2>1, <2>5, GoesEmpty
  <2>7. PICK k : k = [n EXCEPT !.free = @ \ {b}]
    OBVIOUS
  <2>8. Drawn(n, k, b) /\ DOMAIN k = NetFields
    BY <2>3, <2>7 DEF Drawn, IsNet, NetFields
  <2>9. Sound(k, P, E \cup {b})
    BY <2>4, <2>6, <2>8, Draws
  <2>10. PICK r, H : r = [n.proc[p] EXCEPT !.at = "read", !.buf = b] /\ H = E \cup {b}
    OBVIOUS
  <2>11. Rest(k, m) /\ m.waiting = k.waiting /\ m.proc = [k.proc EXCEPT ![p] = r]
    BY <2>2, <2>3, <2>7, <2>8, <2>10 DEF Rest, IsNet, NetFields
  <2>12. DOMAIN r = ProcFields /\ r.at = "read" /\ r.buf = b /\ r.got = NULL /\ r.msg \in BOOLEAN
    BY <2>3, <2>6, <2>10 DEF ProcFields
  <2>13. Stops(r, H) /\ r.at \notin {"udp", "icmp", "arp"}
    BY <2>4, <2>5, <2>10, <2>12 DEF Stops, Holds, Holding, Wanting, MaybeBuf
  <2>14. Sound(m, E, E)
    BY <1>1, <2>1, <2>5, <2>9, <2>10, <2>11, <2>13, Parks DEF Alone
  <2> QED
    BY <2>1, <2>5, <2>14 DEF NetInv
<1> QED
  BY <1>2, <1>3

\* netin has got the buffer that it waited for.
LEMMA HasBufKeeps ==
  ASSUME NetInv, HasBuf
  PROVE  NetInv'
<1>1. PICK n, m, b, p : n = net /\ m = net' /\ b = net.proc["netin"].got /\ p = "netin"
  OBVIOUS
<1>2. /\ Steady(n) /\ n.proc[p].at = "waitbuf" /\ b = n.proc[p].got /\ b # NULL /\ p \in Procs
      /\ m = [n EXCEPT !.proc[p] = [Home(p) EXCEPT !.at = "read", !.buf = b]]
  BY <1>1 DEF HasBuf, Step, Steady, NetInv, Procs
<1>3. IsNet(n) /\ DOMAIN n.proc = Procs
  BY <1>2, SteadyGood DEF Held
<1>4. PICK P, H, E : P = {p} /\ H = {b} /\ E = {}
  OBVIOUS
<1>5. Sound(n, P, H) /\ b \in Bufs
  BY <1>2, <1>4, GoesGot
<1>6. PICK r : r = [Home(p) EXCEPT !.at = "read", !.buf = b]
  OBVIOUS
<1>7. Rest(n, m) /\ m.waiting = n.waiting /\ m.proc = [n.proc EXCEPT ![p] = r]
  BY <1>2, <1>3, <1>6 DEF Rest, IsNet, NetFields
<1>8. DOMAIN r = ProcFields /\ r.at = "read" /\ r.buf = b /\ r.got = NULL /\ r.msg = FALSE
  BY <1>6, HomeShape DEF ProcFields
<1>9. Stops(r, H) /\ r.at \notin {"udp", "icmp", "arp"}
  BY <1>4, <1>5, <1>8 DEF Stops, Holds, Holding, Wanting, MaybeBuf
<1>10. Sound(m, E, E)
  BY ZenonT(40), <1>2, <1>4, <1>5, <1>7, <1>9, Parks DEF Alone
<1> QED
  BY <1>1, <1>4, <1>10 DEF NetInv

\* What every arrival has in common.
LEMMA Arrived ==
  ASSUME NetInv, Reads, ~ net.overtaken, ~ net.bad
  PROVE  /\ Handles(Read, "netin", net.proc["netin"].buf) /\ net.proc["netin"].buf \in Bufs
         /\ DOMAIN Read = NetFields /\ "netin" \in Procs
<1>1. Steady(net) /\ net.proc["netin"].at = "read"
  BY DEF Reads, Steady, NetInv
<1>2. PICK n, m, b : n = net /\ m = Read /\ b = net.proc["netin"].buf
  OBVIOUS
<1>3. /\ Sound(m, {"netin"}, {b}) /\ b \in Bufs /\ m.proc = n.proc /\ m.bad = n.bad /\ m.overtaken = n.overtaken
      /\ n.proc["netin"].got = NULL /\ DOMAIN m = NetFields
  BY <1>1, <1>2, Reading DEF Read
<1> QED
  BY <1>1, <1>2, <1>3 DEF Handles, Steady, Procs

\* An ARP message arrives.
LEMMA ArpArrivesKeeps ==
  ASSUME NetInv, ArpArrives
  PROVE  NetInv'
<1>1. PICK a \in ArpArrivals :
        Reads /\ Step(Done(freebuf(arp_in(Read, a), net.proc["netin"].buf), "netin"))
  BY DEF ArpArrives
<1>2. PICK n, b, P, H : n = Read /\ b = net.proc["netin"].buf /\ P = {"netin"} /\ H = {b}
  OBVIOUS
<1>3. Sound(n, P, H) /\ "netin" \in Procs
  BY <1>1, <1>2, Arrived DEF Handles, Step
<1>4. Sound(arp_in(n, a), P, H)
  BY <1>3, ArpIn
<1>5. Sound(Done(freebuf(arp_in(n, a), b), "netin"), {}, {})
  BY <1>2, <1>3, <1>4, Drops
<1> QED
  BY <1>1, <1>2, <1>5 DEF Step, NetInv

\* An IP packet arrives.
LEMMA IpArrivesKeeps ==
  ASSUME NetInv, IpArrives
  PROVE  NetInv'
<1>1. PICK k \in Arrivals :
        Reads /\ Step(ip_in([Read EXCEPT !.pkt[net.proc["netin"].buf] = k], "netin", net.proc["netin"].buf))
  BY DEF IpArrives
<1>2. PICK n, b, P, H : n = Read /\ b = net.proc["netin"].buf /\ P = {"netin"} /\ H = {b}
  OBVIOUS
<1>3. Handles(n, "netin", b) /\ Sound(n, P, H) /\ "netin" \in Procs /\ DOMAIN n = NetFields
  BY <1>1, <1>2, Arrived DEF Handles, Step
<1>4. PICK m : m = [n EXCEPT !.pkt[b] = k]
  OBVIOUS
<1>5. /\ Rest([n EXCEPT !.pkt[b] = k], m) /\ m.waiting = n.waiting /\ m.proc = n.proc
      /\ m.bad = n.bad /\ m.overtaken = n.overtaken
  BY <1>3, <1>4 DEF Rest, NetFields
<1>6. Sound(m, P, H)
  BY <1>2, <1>3, <1>5, Fills
<1>7. Handles(m, "netin", b)
  BY <1>2, <1>3, <1>5, <1>6 DEF Handles
<1>8. Sound(ip_in(m, "netin", b), {}, {})
  BY <1>3, <1>7, IpIn
<1> QED
  BY <1>1, <1>2, <1>4, <1>8 DEF Step, NetInv

\* A frame of another type arrives.
LEMMA OtherArrivesKeeps ==
  ASSUME NetInv, OtherArrives
  PROVE  NetInv'
<1>1. Reads /\ Step(Done(freebuf(Read, net.proc["netin"].buf), "netin"))
  BY DEF OtherArrives
<1>2. Handles(Read, "netin", net.proc["netin"].buf) /\ "netin" \in Procs
  BY <1>1, Arrived DEF Step
<1>3. Sound(Done(freebuf(Read, net.proc["netin"].buf), "netin"), {}, {})
  BY <1>2, Drops DEF Handles
<1> QED
  BY <1>1, <1>3 DEF Step, NetInv

-----------------------------------------------------------------------------
(* The steps of a process that waited.                                      *)

\* The answer to an ARP request has come, and the packet leaves.
LEMMA ResolvedKeeps ==
  ASSUME NetInv, NEW p \in Procs, Resolved(p)
  PROVE  NetInv'
<1>1. PICK n, r, b, hop, hw : /\ n = net /\ r = net.proc[p] /\ b = net.proc[p].buf
                              /\ hop = NextHop(net.pkt[b].dst) /\ hw = net.arp[net.proc[p].slot].hw
  OBVIOUS
<1>2. Steady(n) /\ n.proc[p].at = "arp" /\ n.proc[p].msg /\ net' = ip_out(n, p, b, hop, hw)
  BY <1>1 DEF Resolved, Ready, Step, Steady, NetInv
<1>3. PICK P, H : P = {p} /\ H = {b}
  OBVIOUS
<1>4. Sound(n, P, H)
  BY <1>1, <1>2, <1>3, GoesWith
<1>5. hw # hop => n.evicted
  <2> SUFFICES ASSUME ~ n.evicted
               PROVE  hw = hop
    OBVIOUS
  <2>1. At(n.proc, {}, p, "arp") /\ ArpSide(n.arp, n.proc, {}) /\ Routes(n.arp, n.proc, n.pkt, n.evicted, {})
    BY <1>2, SteadyGood DEF At, Others, Core, Good
  <2>2. Routed(n.arp, n.proc[p], n.pkt) /\ n.proc[p].slot \in ArpSlots
    BY <2>1 DEF Routes, ArpSide
  <2> QED
    BY <1>1, <1>2, <2>1, <2>2 DEF Routed, ArpSide
<1>6. Sound(ip_out(n, p, b, hop, hw), {}, {})
  BY <1>3, <1>4, <1>5, Leaves
<1> QED
  BY <1>2, <1>6 DEF NetInv

\* No answer in time: the request is sent once more.
LEMMA TriesAgainKeeps ==
  ASSUME NetInv, NEW p \in Procs, TriesAgain(p)
  PROVE  NetInv'
<1>1. PICK n, m, o, E : n = net /\ m = net' /\ o = net.proc[p] /\ E = {}
  OBVIOUS
<1>2. Steady(n) /\ o.at = "arp" /\ ~ o.msg /\ m = Receives(n, p, "arp", o.slot, o.buf, o.tries + 1)
  BY <1>1 DEF TriesAgain, Ready, Step, Steady, NetInv
<1>3. IsNet(n) /\ DOMAIN n.proc = Procs /\ o.msg \in BOOLEAN /\ o.got = NULL
  BY <1>1, <1>2, SteadyGood DEF Held, Holds, Others, Wanting
<1>4. PICK r : r = [Home(p) EXCEPT !.at = "arp", !.slot = o.slot, !.buf = o.buf, !.tries = o.tries + 1]
  OBVIOUS
<1>5. Rest(n, m) /\ m.waiting = n.waiting /\ m.proc = [n.proc EXCEPT ![p] = r]
  BY <1>2, <1>3, <1>4 DEF Receives, Rest, IsNet, NetFields
<1>6. DOMAIN r = ProcFields /\ r.at = "arp" /\ r.slot = o.slot /\ r.buf = o.buf /\ r.msg = FALSE /\ r.got = NULL
  BY <1>4, HomeShape DEF ProcFields
<1>7. Sound(n, E, E) /\ o = n.proc[p] /\ o.msg = FALSE
  BY <1>1, <1>2, <1>3 DEF Steady
<1>8. Sound(m, E, E)
  <2>1. /\ r.msg = n.proc[p].msg /\ r.at = n.proc[p].at /\ r.buf = n.proc[p].buf
        /\ r.got = n.proc[p].got /\ r.slot = n.proc[p].slot /\ DOMAIN r = ProcFields
    BY <1>2, <1>3, <1>6, <1>7
  <2>2. E = {} /\ Sound(n, E, E)
    BY <1>1, <1>7
  <2> QED
    BY <1>5, <2>1, <2>2, Stays
<1> QED
  BY <1>1, <1>8 DEF NetInv

\* The time of a wait is over.
LEMMA TimeoutKeeps ==
  ASSUME NetInv, NEW p \in Procs, Timeout(p)
  PROVE  NetInv'
<1>1. PICK n, m, o, E : n = net /\ m = net' /\ o = net.proc[p] /\ E = {}
  OBVIOUS
<1>2. Steady(n) /\ m = [n EXCEPT !.proc[p].timeout = TRUE]
  BY <1>1 DEF Timeout, Step, Steady, NetInv
<1>3. IsNet(n) /\ DOMAIN n.proc = Procs /\ DOMAIN o = ProcFields
  BY <1>1, <1>2, SteadyGood DEF Held
<1>4. PICK r : r = [o EXCEPT !.timeout = TRUE]
  OBVIOUS
<1>5. Rest(n, m) /\ m.waiting = n.waiting /\ m.proc = [n.proc EXCEPT ![p] = r]
  BY <1>1, <1>2, <1>3, <1>4 DEF Rest, IsNet, NetFields
<1>6. /\ DOMAIN r = ProcFields /\ r.at = o.at /\ r.slot = o.slot /\ r.buf = o.buf /\ r.msg = o.msg
      /\ r.got = o.got
  BY <1>3, <1>4 DEF ProcFields
<1>7. Sound(n, E, E) /\ o = n.proc[p]
  BY <1>1, <1>2 DEF Steady
<1>8. Sound(m, E, E)
  BY <1>1, <1>5, <1>6, <1>7, Stays
<1> QED
  BY <1>1, <1>8 DEF NetInv

\* No answer to the last request: the entry and the packet are given up.
LEMMA UnresolvedKeeps ==
  ASSUME NetInv, NEW p \in Procs, Unresolved(p)
  PROVE  NetInv'
<1>1. PICK n, b, s : n = net /\ b = net.proc[p].buf /\ s = net.proc[p].slot
  OBVIOUS
<1>2. Steady(n) /\ n.proc[p].at = "arp" /\ ~ n.proc[p].msg /\ net' = Done(freebuf(Invalidated(n, s), b), p)
  BY <1>1 DEF Unresolved, Ready, Step, Steady, NetInv
<1>3. PICK m, H : m = Invalidated(n, s) /\ H = {b}
  OBVIOUS
<1>4. Sound(m, {p}, H)
  BY <1>1, <1>2, <1>3, SteadyGood, GivesUp
<1>5. Sound(Done(freebuf(m, b), p), {}, {})
  BY <1>3, <1>4, Drops
<1> QED
  BY <1>2, <1>3, <1>5 DEF NetInv

\* The buffer for the reply to an echo request has come.
LEMMA EchoesKeeps ==
  ASSUME NetInv, NEW p \in Procs, Echoes(p)
  PROVE  NetInv'
<1>1. Steady(net) /\ net.proc[p].at = "echo" /\ net.proc[p].got # NULL
  BY DEF Echoes, Step, Steady, NetInv
<1>2. net' = Answers(net, p, net.proc[p].buf, net.proc[p].got, net.proc[p].todo)
  BY DEF Echoes, Step
<1>3. PICK n, k : n = net /\ k = net.proc[p].todo
  OBVIOUS
<1>4. Sound(Answers(n, p, n.proc[p].buf, n.proc[p].got, k), {}, {})
  BY <1>1, <1>3, AnswersLater
<1> QED
  BY <1>2, <1>3, <1>4 DEF NetInv

\* A client has got the buffer that it waited for, and sends its packet.
LEMMA SendsNowKeeps ==
  ASSUME NetInv, NEW p \in Clients, SendsNow(p)
  PROVE  NetInv'
<1>1. PICK n, b, k : n = net /\ b = net.proc[p].got /\ k = net.proc[p].todo
  OBVIOUS
<1>2. /\ Steady(n) /\ n.proc[p].at = "send" /\ n.proc[p].got # NULL /\ b = n.proc[p].got /\ p \in Procs
      /\ net' = ip_send([Done(n, p) EXCEPT !.pkt[b] = k], p, b)
  BY <1>1 DEF SendsNow, Step, Steady, NetInv, Procs
<1>3. Sound(ip_send([Done(n, p) EXCEPT !.pkt[b] = k], p, b), {}, {})
  BY <1>2, SendsLater
<1> QED
  BY <1>2, <1>3 DEF NetInv

\* udp_recv is back, with a packet or without one.
LEMMA ReceivedKeeps ==
  ASSUME NetInv, NEW p \in Clients, Received(p)
  PROVE  NetInv'
<1>1. PICK n, s, m, E, P : /\ n = net /\ s = net.proc[p].slot /\ m = [net EXCEPT !.udp[net.proc[p].slot].state = "used"]
                           /\ E = {} /\ P = {p}
  OBVIOUS
<1>2. Steady(n) /\ n.proc[p].at = "udp" /\ net' = (IF n.proc[p].msg THEN Dequeued(m, p, s) ELSE Done(m, p))
  BY <1>1 DEF Received, Ready, Step, Steady, NetInv
<1>3. p \in Procs /\ m = UdpUsed(n, s) /\ s = n.proc[p].slot
  BY <1>1 DEF Procs, UdpUsed
<1>4. /\ Sound(m, {p}, E) /\ s \in UdpSlots /\ <<"udp", s>> \in m.owner[p]
      /\ n.proc[p].msg => n.udp[s].queue # << >>
      /\ m.udp[s].queue = n.udp[s].queue
  <2>1. E = {}
    BY <1>1
  <2> QED
    <3>1. Sound(m, {p}, E) /\ UdpBack(n, m, p, s)
      BY <1>2, <1>3, <2>1, UdpReturns
    <3> QED
      BY <3>1 DEF UdpBack
<1>5. ~ m.bad /\ ~ m.overtaken
  BY <1>2, <1>3, SteadyGood DEF IsNet, NetFields, Steady, UdpUsed
<1>6. CASE n.proc[p].msg
  <2>1. Sound(Dequeued(m, p, s), {}, E)
    BY <1>1, <1>4, <1>5, <1>6, UdpDequeues DEF Alone
  <2> QED
    BY <1>1, <1>2, <1>6, <2>1 DEF NetInv
<1>7. CASE ~ n.proc[p].msg
  <2>1. Sound(Done(m, p), {}, E)
    BY <1>3, <1>4, Ends
  <2> QED
    BY <1>1, <1>2, <1>7, <2>1 DEF NetInv
<1> QED
  BY <1>6, <1>7

\* icmp_recv is back, with a reply or without one.
LEMMA IcmpReceivedKeeps ==
  ASSUME NetInv, NEW p \in Clients, IcmpReceived(p)
  PROVE  NetInv'
<1>1. PICK n, s, m, E, P : /\ n = net /\ s = net.proc[p].slot /\ m = [net EXCEPT !.icmp[net.proc[p].slot].state = "used"]
                           /\ E = {} /\ P = {p}
  OBVIOUS
<1>2. Steady(n) /\ n.proc[p].at = "icmp" /\ net' = (IF n.proc[p].msg THEN IcmpDequeued(m, p, s) ELSE Done(m, p))
  BY <1>1 DEF IcmpReceived, Ready, Step, Steady, NetInv
<1>3. p \in Procs /\ m = IcmpUsed(n, s) /\ s = n.proc[p].slot
  BY <1>1 DEF Procs, IcmpUsed
<1>4. Sound(m, {p}, E) /\ s \in IcmpSlots /\ m.bad = n.bad /\ m.overtaken = n.overtaken
  <2>1. E = {}
    BY <1>1
  <2> QED
    BY ZenonT(40), <1>2, <1>3, <2>1, IcmpReturns
<1>5. CASE n.proc[p].msg
  <2>1. Sound(IcmpDequeued(m, p, s), {}, E)
    BY <1>1, <1>2, <1>4, IcmpDequeues DEF Alone, Steady
  <2> QED
    BY <1>1, <1>2, <1>5, <2>1 DEF NetInv
<1>6. CASE ~ n.proc[p].msg
  <2>1. Sound(Done(m, p), {}, E)
    BY <1>3, <1>4, Ends
  <2> QED
    BY <1>1, <1>2, <1>6, <2>1 DEF NetInv
<1> QED
  BY <1>5, <1>6

-----------------------------------------------------------------------------
(* The steps of ipout.                                                      *)

\* ipout waits at the semaphore of its queue, or comes by.
LEMMA WaitsKeeps ==
  ASSUME NetInv, Waits
  PROVE  NetInv'
<1>1. PICK n, m, o, p, E : n = net /\ m = net' /\ o = net.proc["ipout"] /\ p = "ipout" /\ E = {}
  OBVIOUS
<1>2. /\ Steady(n) /\ o.at = "wait" /\ p \in Procs /\ o = n.proc[p] /\ p = "ipout"
      /\ m = [n EXCEPT !.oq.sem = @ - 1, !.proc[p].at = IF n.oq.sem > 0 THEN "take" ELSE "blocked"]
  BY <1>1 DEF Waits, Step, Steady, NetInv, Procs
<1>3. /\ Core(n, E) /\ Good(n, E, E) /\ IsNet(n) /\ IsQueue(n.oq) /\ Held(n.proc, E)
      /\ DOMAIN n.proc = Procs /\ DOMAIN o = ProcFields
  BY <1>1, <1>2, SteadyGood DEF Held, Core
<1>4. PICK sem \in Int, at \in {"take", "blocked"} : sem = n.oq.sem /\ at = IF sem > 0 THEN "take" ELSE "blocked"
  BY <1>3 DEF IsQueue
<1>5. PICK Q, R : Q = m.oq /\ R = m.proc
  OBVIOUS
<1>6. SameRest([n EXCEPT !.oq = Q], m) /\ m.arp = n.arp /\ m.udp = n.udp /\ m.icmp = n.icmp /\ DOMAIN m = NetFields
  BY <1>2, <1>3, <1>5 DEF SameRest, IsNet, NetFields
<1>7. /\ DOMAIN Q = OqFields /\ Q.buf = n.oq.buf /\ Q.head = n.oq.head /\ Q.tail = n.oq.tail /\ Q.sem = sem - 1
      /\ R = [n.proc EXCEPT ![p] = [o EXCEPT !.at = at]]
  BY <1>2, <1>3, <1>4, <1>5 DEF IsNet, NetFields, IsQueue, OqFields
<1>8. /\ DOMAIN R = Procs /\ (\A q \in Procs \ {p} : R[q] = n.proc[q])
      /\ DOMAIN R[p] = ProcFields /\ R[p].at = at /\ R[p].buf = o.buf /\ R[p].got = o.got
      /\ R[p].msg = o.msg
  BY <1>2, <1>3, <1>7 DEF ProcFields
<1>9. \A q \in Procs : q \in Others(E) /\ q \notin E
  BY <1>1 DEF Others
<1>10. at \in {"take", "blocked"}
  BY <1>4
<1>11. OnlyOf(n.proc, E, R, E, p) /\ Held(R, E)
  <2>1. Holds(R[p]) /\ R[p].msg \in BOOLEAN
    BY <1>2, <1>3, <1>8, <1>9, <1>10 DEF Held, Holds, Holding, Wanting
  <2>2. OnlyOf(n.proc, E, R, E, p)
    BY <1>1, <1>2, <1>8, <1>9, <2>1 DEF OnlyOf
  <2>3. Held(R, E)
    BY <1>1, <1>2, <1>3, <1>8, <1>9, <2>1 DEF Held, Others
  <2> QED
    BY <2>2, <2>3
<1>12. Quiet(n.proc, E, R, E)
  <2>1. n.proc[p].at \notin {"udp", "icmp", "arp"} /\ R[p].at \notin {"udp", "icmp", "arp"}
    BY <1>2, <1>8, <1>10
  <2>2. \A q \in Procs \ {p} : R[q] = n.proc[q] /\ (q \in E <=> q \in E)
    BY <1>8
  <2> QED
    BY <1>2, <2>1, <2>2, QuietChange
<1>13. Waiters(m.waiting, R, E)
  <2>1. \A q \in Procs : Wants(R, E, q) <=> Wants(n.proc, E, q)
    BY <1>2, <1>8, <1>10 DEF Wants, Wanting
  <2>2. m.waiting = n.waiting
    BY <1>2, <1>3 DEF IsNet, NetFields
  <2> QED
    BY <1>3, <2>1, <2>2 DEF Core, Waiters
<1>14. /\ m.free = n.free /\ m.pkt = n.pkt /\ m.waiting = n.waiting /\ m.owner = n.owner
       /\ m.evicted = n.evicted /\ m.misdirected = n.misdirected /\ m.bad = n.bad /\ m.overtaken = n.overtaken
  BY <1>2, <1>3 DEF IsNet, NetFields
<1>15. UdpSide(m.udp, R, m.owner, E) /\ IcmpSide(m.icmp, R, m.owner, E) /\ ArpSide(m.arp, R, E)
  BY <1>3, <1>6, <1>12, <1>14, QuietUdp, QuietIcmp, QuietArp DEF Core, Quiet
<1>16. IsNet(m) /\ IsQueue(Q)
  BY <1>3, <1>6, <1>7, <1>14 DEF IsNet, IsQueue
<1>17. Core(m, E)
  BY <1>3, <1>5, <1>11, <1>13, <1>14, <1>15, <1>16 DEF Core
<1>18. Output(Q, R, E)
  <2>1. /\ At(R, E, "ipout", "take") <=> at = "take"
        /\ At(R, E, "ipout", "blocked") <=> at = "blocked"
    BY <1>2, <1>8, <1>9 DEF At
  <2>2. ~ At(n.proc, E, "ipout", "take") /\ ~ At(n.proc, E, "ipout", "blocked")
    BY <1>2 DEF At
  <2>3. /\ sem \in -1 .. IP_OQSIZ /\ sem # -1
        /\ Ring(n.oq.buf, IP_OQSIZ, n.oq.head, n.oq.tail, InOq(n.oq, n.proc, E))
    BY <1>3, <1>4, <2>2 DEF Good, Output
  <2>4. InOq(n.oq, n.proc, E) = sem
    BY <1>4, <2>2, <2>3 DEF InOq
  <2>5. IP_OQSIZ \in Int
    BY NetAssumption
  <2>6. sem - 1 \in -1 .. IP_OQSIZ /\ (sem - 1 = -1 <=> at = "blocked")
    BY <1>4, <2>3, <2>5
  <2>7. InOq(Q, R, E) = sem
    <3>1. CASE sem > 0
      BY <1>4, <1>7, <2>1, <3>1 DEF InOq
    <3>2. CASE sem = 0
      BY <1>4, <1>7, <2>1, <3>2 DEF InOq
    <3> QED
      BY <2>3, <2>5, <3>1, <3>2
  <2> QED
    BY <1>7, <2>1, <2>3, <2>4, <2>6, <2>7 DEF Output
<1>19. Sited(m, E, E)
  <2>1. SamePlaces(n, m)
    BY <1>5, <1>6, <1>7, <1>14 DEF SamePlaces
  <2>2. Keeps(n.proc, E, E, R, E, E, p)
    <3>1. \A b \in Bufs : \A l, q : Cell(R, E, E, p, b, l, q) <=> Cell(n.proc, E, E, p, b, l, q)
      BY <1>2, <1>8 DEF Cell, AtProc
    <3> QED
      BY <3>1, SameCells
  <2>3. OnlyOf(n.proc, E, m.proc, E, p) /\ Keeps(n.proc, E, E, m.proc, E, E, p) /\ Sited(n, E, E) /\ p \in Procs
    BY <1>2, <1>3, <1>5, <1>11, <2>2 DEF Good
  <2> QED
    BY <2>1, <2>3, TurnSited
<1>20. Good(m, E, E)
  <2>1. Routes(m.arp, R, m.pkt, m.evicted, E)
    BY <1>3, <1>6, <1>12, <1>14, QuietRoutes DEF Good, Quiet
  <2> QED
    BY <1>3, <1>5, <1>6, <1>18, <1>19, <2>1 DEF Good
<1>21. Sound(m, E, E)
  BY <1>1, <1>17, <1>20 DEF Sound
<1> QED
  BY <1>1, <1>21 DEF NetInv

\* The head of the output queue, which is not empty.
LEMMA HeadGet ==
  ASSUME NEW B, NEW head, NEW tail, NEW c, OutRing(B, head, tail, c), c # 0, NEW w, w = Put(B, head, NULL)
  PROVE  /\ c \in Int /\ B[head] # NULL /\ OutRing(w, OutSlot(head), tail, c - 1)
<1> USE DEF OutRing
<1>1. PICK N \in Nat \ {0} : N = IP_OQSIZ
  BY NetAssumption
<1>2. /\ DOMAIN B = 0 .. N - 1 /\ Ring(B, N, head, tail, c)
      /\ head \in 0 .. N - 1 /\ tail \in 0 .. N - 1
  BY <1>1
<1>3. c \in 1 .. N
  BY <1>2 DEF Ring
<1>4. B[head] # NULL /\ Ring(w, N, Wrap(head + 1, N), tail, c - 1)
  BY <1>2, <1>3, RingGet
<1>5. Wrap(head + 1, N) \in 0 .. N - 1 /\ DOMAIN w = 0 .. N - 1
  BY <1>2 DEF Wrap, Put
<1> QED
  BY <1>1, <1>2, <1>3, <1>4, <1>5 DEF OutSlot

\* The packet at the head of the output queue is in hand.
LEMMA OutTaken ==
  ASSUME NEW n, NEW p, p = "ipout", NEW P, Alone(P, p), NEW E, E = {}, NEW Q, Steady(n), n.proc[p].at = "take",
         NEW b, b = n.oq.buf[n.oq.head], NEW m, SameRest([n EXCEPT !.oq = Q], m), m.proc = n.proc, m.arp = n.arp,
         m.udp = n.udp, m.icmp = n.icmp, Q = [n.oq EXCEPT !.buf = Put(@, n.oq.head, NULL), !.head = OutSlot(@)],
         NEW H, H = {b}
  PROVE  Sound(m, P, H) /\ n.proc[p].got = NULL
<1>1. /\ Core(n, {}) /\ Good(n, {}, {}) /\ IsNet(n) /\ IsQueue(n.oq) /\ Held(n.proc, {})
      /\ p \in Procs /\ \A q \in Procs : q \in P <=> q = p
  BY SteadyGood DEF Core, Alone, Procs
<1>2. PICK R : R = n.proc
  OBVIOUS
<1>3. R[p].buf = NULL /\ R[p].got = NULL
  BY <1>1, <1>2 DEF Held, Others, Holds, Holding, Wanting
<1>4. /\ DOMAIN m = NetFields /\ m.free = n.free /\ m.pkt = n.pkt /\ m.oq = Q /\ m.waiting = n.waiting
      /\ m.owner = n.owner /\ m.evicted = n.evicted /\ m.misdirected = n.misdirected
      /\ m.bad = n.bad /\ m.overtaken = n.overtaken
  BY <1>1 DEF SameRest, IsNet, NetFields
<1>5. PICK head \in 0 .. IP_OQSIZ - 1, tail \in 0 .. IP_OQSIZ - 1, sem \in Int, B \in [0 .. IP_OQSIZ - 1 -> MaybeBuf] :
        head = n.oq.head /\ tail = n.oq.tail /\ sem = n.oq.sem /\ B = n.oq.buf
  BY <1>1 DEF IsQueue
<1>6. /\ DOMAIN Q = OqFields /\ Q.buf = Put(B, head, NULL) /\ Q.head = OutSlot(head) /\ Q.tail = tail
      /\ Q.sem = sem
  BY <1>1, <1>5 DEF IsQueue, OqFields
<1>7. At(R, {}, "ipout", "take") /\ ~ At(R, {}, "ipout", "blocked")
  BY <1>1, <1>2 DEF At, Others
<1>8. Output(n.oq, R, {})
  BY <1>1, <1>2 DEF Good
<1>9. sem \in 0 .. IP_OQSIZ /\ InOq(n.oq, R, {}) = sem + 1
  <2>1. sem \in -1 .. IP_OQSIZ /\ sem # -1
    BY <1>5, <1>7, <1>8 DEF Output
  <2> QED
    BY <1>5, <1>7, <2>1, NetAssumption DEF InOq
<1>10. OutRing(B, head, tail, sem + 1)
  BY <1>1, <1>5, <1>8, <1>9 DEF Output, OutRing, IsQueue
<1>11. B[head] # NULL /\ OutRing(Q.buf, OutSlot(head), tail, sem)
  <2>1. PICK c : c = sem + 1
    OBVIOUS
  <2>2. c # 0 /\ OutRing(B, head, tail, c) /\ c - 1 = sem
    BY <1>9, <1>10, <2>1
  <2> QED
    BY <1>6, <2>2, HeadGet
<1>12. b \in Bufs /\ b = B[head]
  BY <1>1, <1>5, <1>11 DEF IsQueue, MaybeBuf
<1>13. Output(Q, R, P)
  <2>1. ~ At(R, P, "ipout", "take") /\ ~ At(R, P, "ipout", "blocked")
    BY <1>1 DEF At, Others
  <2>2. InOq(Q, R, P) = sem /\ sem # -1
    BY <1>6, <1>9, <2>1 DEF InOq
  <2>3. sem \in -1 .. IP_OQSIZ
    BY <1>9, NetAssumption
  <2> QED
    BY <1>6, <1>11, <2>1, <2>2, <2>3 DEF Output, OutRing
<1>14. OnlyOf(R, {}, R, P, p) /\ Held(R, P)
  BY <1>1, <1>2 DEF OnlyOf, Held, Others, Alone
<1>15. Quiet(R, {}, R, P)
  BY <1>1, <1>2, QuietChange
<1>16. Waiters(n.waiting, R, P)
  <2>1. \A q \in Procs : Wants(R, P, q) <=> Wants(R, {}, q)
    BY <1>1, <1>2 DEF Wants, Wanting, Others
  <2> QED
    BY <1>1, <1>2, <2>1 DEF Core, Waiters
<1>17. UdpSide(n.udp, R, n.owner, P) /\ IcmpSide(n.icmp, R, n.owner, P) /\ ArpSide(n.arp, R, P)
  BY <1>1, <1>2, <1>15, QuietUdp, QuietIcmp, QuietArp DEF Core, Quiet
<1>18. IsQueue(Q)
  <2>1. Put(B, head, NULL) \in [0 .. IP_OQSIZ - 1 -> MaybeBuf]
    BY <1>1, <1>5 DEF IsQueue, Put, MaybeBuf
  <2>2. OutSlot(head) \in 0 .. IP_OQSIZ - 1
    BY <1>11 DEF OutRing
  <2> QED
    BY <1>6, <2>1, <2>2 DEF IsQueue
<1>19. Core(m, P)
  BY <1>1, <1>2, <1>4, <1>14, <1>16, <1>17, <1>18 DEF Core, IsNet
<1>20. Sited(n, P, E)
  <2>1. Keeps(R, {}, {}, R, P, E, p)
    <3>1. \A c \in Bufs : \A l, q : Cell(R, P, E, p, c, l, q) <=> Cell(R, {}, {}, p, c, l, q)
      BY <1>1, <1>3, NetAssumption DEF Cell, AtProc, Others
    <3> QED
      BY <3>1, SameCells
  <2>2. SamePlaces(n, n)
    BY DEF SamePlaces
  <2>3. PICK F : F = {}
    OBVIOUS
  <2>4. OnlyOf(n.proc, F, n.proc, P, p) /\ Keeps(n.proc, F, F, n.proc, P, E, p) /\ Sited(n, F, F)
    BY <1>1, <1>2, <1>14, <2>1, <2>3 DEF Good
  <2> QED
    BY <1>1, <2>2, <2>4, TurnSited
<1>21. /\ Injective(Q.buf, IP_OQSIZ) /\ Injective(B, IP_OQSIZ)
       /\ \A c \in Bufs : In(Q.buf, IP_OQSIZ, c) <=> c # b /\ In(B, IP_OQSIZ, c)
  <2>1. DOMAIN B = 0 .. IP_OQSIZ - 1 /\ Injective(B, IP_OQSIZ) /\ IP_OQSIZ \in Nat
    BY <1>1, <1>5, NetAssumption DEF Good, Sited, Distinct, IsQueue
  <2>2. Q.buf = [B EXCEPT ![head] = NULL]
    BY <1>6 DEF Put
  <2> QED
    <3>1. PICK C, w : C = B /\ w = [B EXCEPT ![head] = NULL]
      OBVIOUS
    <3>2. DOMAIN C = 0 .. IP_OQSIZ - 1 /\ Injective(C, IP_OQSIZ) /\ C[head] # NULL
      BY <1>11, <2>1, <3>1
    <3>3. /\ Injective([C EXCEPT ![head] = NULL], IP_OQSIZ)
          /\ \A c \in Bufs : In([C EXCEPT ![head] = NULL], IP_OQSIZ, c) <=> c # C[head] /\ In(C, IP_OQSIZ, c)
      BY <2>1, <3>2, ArrayGet, Zenon
    <3>4. [C EXCEPT ![head] = NULL] = Q.buf
      BY <2>2, <3>1
    <3> QED
      BY <1>12, <2>1, <3>1, <3>3, <3>4
<1>22. Distinct(m)
  BY <1>4, <1>20, <1>21 DEF Distinct, Sited
<1>23. \A J, c, l, r : AtOut(J, c, l, r) <=> l = "out" /\ r = 0 /\ In(J.buf, IP_OQSIZ, c)
  BY DEF AtOut, In
<1>24. AtOut(n.oq, b, "out", 0)
  BY <1>5, <1>12 DEF AtOut
<1>25. \A l, r : Tables(n, b, l, r) <=> l = "out" /\ r = 0
  <2>1. IsAt(n, P, E, b, "out", 0)
    BY <1>24 DEF IsAt
  <2>2. OnlyAt(n, P, E, b, "out", 0)
    BY <1>12, <1>20, <2>1, Only
  <2> QED
    BY <1>24, <2>2 DEF OnlyAt, IsAt, Tables
<1>26. TablesLose(n, m, b)
  <2> SUFFICES ASSUME NEW c \in Bufs, NEW l, NEW r
               PROVE  Tables(m, c, l, r) <=> Tables(n, c, l, r) /\ c # b
    BY DEF TablesLose
  <2>1. AtOut(Q, c, l, r) <=> AtOut(n.oq, c, l, r) /\ c # b
    BY <1>5, <1>21, <1>23
  <2>2. Tables(m, c, l, r) <=> AtUdp(n.udp, c, l, r) \/ AtIcmp(n.icmp, c, l, r) \/ AtOut(Q, c, l, r)
    BY <1>4 DEF Tables
  <2>3. AtUdp(n.udp, c, l, r) \/ AtIcmp(n.icmp, c, l, r) => l # "out"
    BY DEF AtUdp, AtIcmp
  <2> QED
    BY <1>25, <2>1, <2>2, <2>3 DEF Tables
<1>27. Sited(m, P, H)
  <2>1. PICK j, i : j = m /\ i = n
    OBVIOUS
  <2>2. /\ Sited(i, P, E) /\ Distinct(j) /\ TablesLose(i, j, b) /\ SameRecords(i.proc, j.proc) /\ j.free = i.free
        /\ Tables(i, b, "out", 0) /\ H = E \cup {b}
    BY <1>4, <1>20, <1>22, <1>25, <1>26, <2>1 DEF SameRecords
  <2> QED
    BY <1>12, <2>1, <2>2, Removed, Zenon
<1>28. Routes(n.arp, R, n.pkt, n.evicted, P)
  BY <1>1, <1>2, <1>15, QuietRoutes DEF Good, Quiet
<1>29. Good(m, P, H)
  BY <1>1, <1>2, <1>4, <1>13, <1>27, <1>28 DEF Good
<1> QED
  BY <1>2, <1>3, <1>12, <1>19, <1>29 DEF Sound

\* ipout takes a packet from its queue and sends it.
LEMMA IpoutKeeps ==
  ASSUME NetInv, ipout
  PROVE  NetInv'
<1>1. PICK n, p, b, P, E, H : n = net /\ p = "ipout" /\ b = net.oq.buf[net.oq.head] /\ P = {p} /\ E = {} /\ H = {b}
  OBVIOUS
<1>2. PICK Q : Q = [n.oq EXCEPT !.buf = Put(@, n.oq.head, NULL), !.head = OutSlot(@)]
  OBVIOUS
<1>3. PICK m : m = [n EXCEPT !.oq.buf[n.oq.head] = NULL, !.oq.head = (@ + 1) % IP_OQSIZ]
  OBVIOUS
<1>4. Steady(n) /\ n.proc[p].at = "take" /\ p \in Procs
  BY <1>1 DEF ipout, Step, Steady, NetInv, Procs
<1>5. IsNet(n) /\ IsQueue(n.oq)
  BY <1>4, SteadyGood DEF Core
<1>6. /\ SameRest([n EXCEPT !.oq = Q], m) /\ m.proc = n.proc /\ m.arp = n.arp
      /\ m.udp = n.udp /\ m.icmp = n.icmp /\ m.bad = n.bad /\ m.overtaken = n.overtaken
  <2>1. (n.oq.head + 1) % IP_OQSIZ = OutSlot(n.oq.head)
    BY <1>5, NextPlace, NetAssumption DEF IsQueue, OutSlot
  <2>2. Q = [n.oq EXCEPT !.buf = [n.oq.buf EXCEPT ![n.oq.head] = NULL], !.head = (n.oq.head + 1) % IP_OQSIZ]
    BY <1>2, <1>5, <2>1 DEF IsQueue, OqFields, Put
  <2>3. m = [n EXCEPT !.oq = Q]
    BY <1>3, <1>5, <2>2 DEF IsNet, NetFields, IsQueue, OqFields
  <2> QED
    BY <1>5, <2>3 DEF IsNet, NetFields, SameRest
<1>7. Sound(m, P, H) /\ n.proc[p].got = NULL
  BY ZenonT(40), <1>1, <1>2, <1>4, <1>6, OutTaken DEF Alone
<1>8. Handles(m, p, b)
  BY <1>1, <1>4, <1>6, <1>7 DEF Handles, Steady
<1>9. net' \in {Done(freebuf(m, b), p), ip_local(m, p, b), ToNext(m, p, b)}
  BY <1>1, <1>3 DEF ipout, Step
<1>10. Sound(Done(freebuf(m, b), p), {}, {}) /\ Sound(ip_local(m, p, b), {}, {}) /\ Sound(ToNext(m, p, b), {}, {})
  BY <1>4, <1>8, Drops, IpLocal, Forwards DEF Handles
<1> QED
  BY <1>9, <1>10 DEF NetInv

-----------------------------------------------------------------------------
(* The calls of the clients.                                                *)

\* What every call has in common.
LEMMA Calls ==
  ASSUME NetInv, NEW p \in Clients, NEW m, Call(p, m)
  PROVE  /\ Steady(net) /\ net.proc[p].at = "idle" /\ p \in Procs
         /\ net' = m
BY DEF NetInv, Call, Steady, Procs

\* udp_send, udp_sendto and icmp_send.
LEMMA SendsKeeps ==
  ASSUME NetInv, NEW p \in Clients, NEW k, Sends(p, k)
  PROVE  NetInv'
<1>1. PICK n : n = net
  OBVIOUS
<1>2. /\ Steady(n) /\ n.proc[p].at = "idle" /\ p \in Procs
      /\ net' = IF n.free = {} THEN WaitsForBuf(n, p, "send", k) ELSE ip_send(Take(n, FreeBuf(n), k), p, FreeBuf(n))
  BY <1>1 DEF Sends, Calls, NetInv, Call, Steady, Procs
<1>3. CASE n.free = {}
  BY <1>2, <1>3, WaitsAtHome DEF NetInv
<1>4. CASE n.free # {}
  BY <1>2, <1>4, SendsOut DEF NetInv
<1> QED
  BY <1>3, <1>4

\* udp_recv takes the first packet, or waits for one.
LEMMA UdpRecvKeeps ==
  ASSUME NetInv, NEW p \in Clients, NEW s \in UdpSlots, udp_recv(p, s)
  PROVE  NetInv'
<1>1. PICK n, E, P : n = net /\ E = {} /\ P = {p}
  OBVIOUS
<1>2. /\ Steady(n) /\ n.proc[p].at = "idle" /\ p \in Procs /\ <<"udp", s>> \in n.owner[p] /\ n.udp[s].state = "used"
      /\ net' = IF n.udp[s].queue # <<>> THEN Dequeued(n, p, s)
                ELSE Receives(UdpAsked(n, p, s), p, "udp", s, NULL, 0)
  BY <1>1 DEF udp_recv, Owns, UdpAsked, NetInv, Call, Steady, Procs
<1>3. Sound(n, P, E)
  BY <1>1, <1>2, GoesEmpty
<1>4. CASE n.udp[s].queue # << >>
  <2>1. Sound(Dequeued(n, p, s), {}, E)
    BY <1>1, <1>2, <1>3, <1>4, UdpDequeues DEF Alone, Steady
  <2> QED
    BY <1>1, <1>2, <1>4, <2>1 DEF NetInv
<1>5. CASE n.udp[s].queue = << >>
  <2>1. Sound(Receives(UdpAsked(n, p, s), p, "udp", s, NULL, 0), E, E)
    BY <1>1, <1>2, <1>3, <1>5, UdpAsks DEF Alone
  <2> QED
    BY <1>1, <1>2, <1>5, <2>1 DEF NetInv
<1> QED
  BY <1>4, <1>5

\* icmp_recv takes the first reply, or waits for one.
LEMMA IcmpRecvKeeps ==
  ASSUME NetInv, NEW p \in Clients, NEW s \in IcmpSlots, icmp_recv(p, s)
  PROVE  NetInv'
<1>1. PICK n, E, P : n = net /\ E = {} /\ P = {p}
  OBVIOUS
<1>2. /\ Steady(n) /\ n.proc[p].at = "idle" /\ p \in Procs /\ <<"icmp", s>> \in n.owner[p] /\ n.icmp[s].state = "used"
      /\ net' = IF n.icmp[s].count # 0 THEN IcmpDequeued(n, p, s)
                ELSE Receives(IcmpAsked(n, p, s), p, "icmp", s, NULL, 0)
  BY <1>1 DEF icmp_recv, Owns, IcmpAsked, NetInv, Call, Steady, Procs
<1>3. Sound(n, P, E)
  BY <1>1, <1>2, GoesEmpty
<1>4. CASE n.icmp[s].count # 0
  <2>1. Sound(IcmpDequeued(n, p, s), {}, E)
    BY <1>1, <1>2, <1>3, IcmpDequeues DEF Alone, Steady
  <2> QED
    BY <1>1, <1>2, <1>4, <2>1 DEF NetInv
<1>5. CASE n.icmp[s].count = 0
  <2>1. Sound(Receives(IcmpAsked(n, p, s), p, "icmp", s, NULL, 0), E, E)
    BY <1>1, <1>2, <1>3, IcmpAsks DEF Alone
  <2> QED
    BY <1>1, <1>2, <1>5, <2>1 DEF NetInv
<1> QED
  BY <1>4, <1>5

\* The endpoints and their owners are others, and the packets where they were.
LEMMA Registers ==
  ASSUME NEW n, NEW m, NEW P, NEW H, Sound(n, P, H), SameBut(n, m), m.arp = n.arp, DOMAIN m.owner = Clients,
         UdpSide(m.udp, n.proc, m.owner, P), IcmpSide(m.icmp, n.proc, m.owner, P),
         Good(n, P, H) => SamePlaces(n, m) /\ Replies(m.icmp)
  PROVE  Sound(m, P, H)
<1>1. Core(n, P) /\ IsNet(n) /\ H \in SUBSET Bufs
  BY DEF Sound, Core
<1>2. IsNet(m)
  BY <1>1 DEF SameBut, IsNet
<1>3. Core(m, P)
  BY <1>1, <1>2 DEF Core, SameBut
<1>4. ASSUME Good(n, P, H)
      PROVE  Good(m, P, H)
  <2>1. SamePlaces(n, m) /\ Replies(m.icmp)
    BY <1>4
  <2>2. Distinct(m)
    BY <1>4, <2>1 DEF SamePlaces, Distinct, Good, Sited
  <2>3. \A b, l, r : IsAt(m, P, H, b, l, r) <=> IsAt(n, P, H, b, l, r)
    <3>1. m.free = n.free /\ m.proc = n.proc /\ m.oq = n.oq
      BY DEF SameBut
    <3>2. \A b, l, r : AtUdp(m.udp, b, l, r) <=> AtUdp(n.udp, b, l, r)
      BY <2>1 DEF AtUdp, SamePlaces
    <3>3. \A b, l, r : AtIcmp(m.icmp, b, l, r) <=> AtIcmp(n.icmp, b, l, r)
      BY <2>1 DEF AtIcmp, SamePlaces
    <3> QED
      BY <3>1, <3>2, <3>3 DEF IsAt
  <2>4. Sited(m, P, H)
    <3> SUFFICES ASSUME NEW b \in Bufs
                 PROVE  \E k, q : OnlyAt(m, P, H, b, k, q)
      BY <2>2 DEF Sited
    <3>1. PICK k, q : OnlyAt(n, P, H, b, k, q)
      BY <1>4 DEF Good, Sited
    <3>2. OnlyAt(m, P, H, b, k, q)
      BY <2>3, <3>1 DEF OnlyAt
    <3> QED
      BY <3>2
  <2> QED
    BY <1>4, <2>1, <2>4 DEF Good, SameBut
<1> QED
  BY <1>1, <1>3, <1>4 DEF Sound, SameBut

\* Who owns what: the endpoints of the other table do not matter.
OwnsSame(t, O, O2) == \A q \in Clients : \A s : <<t, s>> \in O2[q] <=> <<t, s>> \in O[q]

\* The UDP table is as sound when an ICMP endpoint changes hands.
LEMMA UdpOwners ==
  ASSUME NEW U, NEW R, NEW O, NEW O2, NEW P, UdpSide(U, R, O, P), OwnsSame("udp", O, O2)
  PROVE  UdpSide(U, R, O2, P)
BY DEF UdpSide, UdpWaits, OwnsSame

\* The ICMP table is as sound when a UDP endpoint changes hands.
LEMMA IcmpOwners ==
  ASSUME NEW I, NEW R, NEW O, NEW O2, NEW P, IcmpSide(I, R, O, P), OwnsSame("icmp", O, O2)
  PROVE  IcmpSide(I, R, O2, P)
BY DEF IcmpSide, OwnsSame

\* An endpoint is given to p, or taken from it.
Gains(O, O2, p, x) == O2 = [O EXCEPT ![p] = @ \cup {x}]
Loses(O, O2, p, x) == O2 = [O EXCEPT ![p] = @ \ {x}]

\* Who has what after an endpoint is given to p.
LEMMA GainsShape ==
  ASSUME NEW O, DOMAIN O = Clients, NEW O2, NEW p \in Clients, NEW t, NEW s, Gains(O, O2, p, <<t, s>>)
  PROVE  /\ DOMAIN O2 = Clients
         /\ \A q \in Clients : \A u, i : <<u, i>> \in O2[q] <=> <<u, i>> \in O[q] \/ (q = p /\ u = t /\ i = s)
BY DEF Gains

\* Who has what after an endpoint is taken from p.
LEMMA LosesShape ==
  ASSUME NEW O, DOMAIN O = Clients, NEW O2, NEW p \in Clients, NEW t, NEW s, Loses(O, O2, p, <<t, s>>)
  PROVE  /\ DOMAIN O2 = Clients
         /\ \A q \in Clients : \A u, i : <<u, i>> \in O2[q] <=> <<u, i>> \in O[q] /\ ~ (q = p /\ u = t /\ i = s)
BY DEF Loses

\* A free endpoint becomes that of p.
LEMMA UdpRegisterKeeps ==
  ASSUME NetInv, NEW p \in Clients, NEW key, udp_register(p, key)
  PROVE  NetInv'
<1>1. PICK n, m, s, d, E : /\ n = net /\ m = net' /\ s = First({t \in UdpSlots : net.udp[t].state = "free"}) /\ E = {}
                           /\ d = [state |-> "used", key |-> key, queue |-> <<>>, pid |-> NULL]
  OBVIOUS
<1>2. /\ Steady(n) /\ {t \in UdpSlots : n.udp[t].state = "free"} # {}
      /\ m = [n EXCEPT !.udp[s] = d, !.owner[p] = @ \cup {<<"udp", s>>}]
  BY <1>1 DEF udp_register, NetInv, Call, Steady
<1>3. s \in UdpSlots /\ n.udp[s].state = "free"
  <2>1. {t \in UdpSlots : n.udp[t].state = "free"} \subseteq Nat
    BY DEF UdpSlots
  <2>2. s \in {t \in UdpSlots : n.udp[t].state = "free"}
    BY <1>1, <1>2, <2>1, FirstIn
  <2> QED
    BY <2>2
<1>4. PICK U, R, O, O2 : U = m.udp /\ R = n.proc /\ O = n.owner /\ O2 = m.owner
  OBVIOUS
<1>5. /\ Core(n, E) /\ IsNet(n) /\ Sound(n, E, E) /\ UdpSide(n.udp, R, O, E) /\ IcmpSide(n.icmp, R, O, E)
      /\ UdpShape(n.udp) /\ DOMAIN O = Clients
  <2>1. Core(n, E) /\ IsNet(n) /\ Sound(n, E, E)
    BY <1>1, <1>2, SteadyGood
  <2>2. UdpSide(n.udp, R, O, E) /\ IcmpSide(n.icmp, R, O, E)
    BY <1>4, <2>1 DEF Core
  <2>3. UdpShape(n.udp) /\ DOMAIN O = Clients
    BY <1>4, <2>1, <2>2 DEF UdpSide, IsNet
  <2> QED
    BY <2>1, <2>2, <2>3
<1>6. /\ SameBut(n, m) /\ m.arp = n.arp /\ m.icmp = n.icmp
      /\ U = [n.udp EXCEPT ![s] = d] /\ Gains(O, O2, p, <<"udp", s>>)
  BY <1>2, <1>4, <1>5 DEF IsNet, NetFields, SameBut, Gains
<1>7. /\ DOMAIN U = UdpSlots /\ DOMAIN U[s] = UdpFields /\ U[s].state = "used" /\ U[s].queue = << >>
      /\ \A t \in UdpSlots \ {s} : U[t] = n.udp[t]
  BY <1>1, <1>3, <1>5, <1>6 DEF UdpShape, UdpFields
<1>8. /\ DOMAIN O2 = Clients
      /\ \A q \in Clients : \A u, i : <<u, i>> \in O2[q] <=> <<u, i>> \in O[q] \/ (q = p /\ u = "udp" /\ i = s)
  BY <1>5, <1>6, GainsShape
<1>9. n.udp[s].queue = << >> /\ \A q \in Clients : <<"udp", s>> \notin O[q]
  BY <1>3, <1>5 DEF UdpSide
<1>10. UdpSide(U, R, O2, E)
  <2>1. UdpShape(U)
    <3>1. \A t \in UdpSlots \ {s} : DOMAIN U[t] = UdpFields /\ U[t].queue \in Seq(Bufs)
      BY <1>5, <1>7 DEF UdpShape
    <3>2. << >> \in Seq(Bufs)
      OBVIOUS
    <3>3. DOMAIN U[s] = UdpFields /\ U[s].queue \in Seq(Bufs)
      BY <1>7, <3>2
    <3> QED
      BY <1>7, <3>1, <3>3 DEF UdpShape
  <2>2. \A t \in UdpSlots : U[t].state = "recv" =>
          At(R, E, U[t].pid, "udp") /\ R[U[t].pid].slot = t /\ ~ R[U[t].pid].msg /\ U[t].queue = << >>
    BY <1>5, <1>7 DEF UdpSide
  <2>3. ASSUME NEW q \in Procs, At(R, E, q, "udp")
        PROVE  UdpWaits(U, R, O2, E, q)
    <3>1. UdpWaits(n.udp, R, O, E, q)
      BY <1>5, <2>3 DEF UdpSide
    <3>2. q \in Clients /\ R[q].slot \in UdpSlots /\ <<"udp", R[q].slot>> \in O[q]
      BY <3>1 DEF UdpWaits
    <3>3. R[q].slot # s
      BY <1>9, <3>2
    <3>4. <<"udp", R[q].slot>> \in O2[q] /\ U[R[q].slot] = n.udp[R[q].slot]
      BY <1>7, <1>8, <3>2, <3>3
    <3> QED
      BY <3>1, <3>2, <3>4 DEF UdpWaits
  <2>4. ASSUME NEW t \in UdpSlots, U[t].state = "free"
        PROVE  U[t].queue = << >> /\ \A q \in Clients : <<"udp", t>> \notin O2[q]
    <3>1. t # s /\ n.udp[t] = U[t]
      BY <1>7, <2>4
    <3>2. n.udp[t].queue = << >> /\ \A q \in Clients : <<"udp", t>> \notin O[q]
      BY <1>5, <2>4, <3>1 DEF UdpSide
    <3> QED
      BY <1>8, <3>1, <3>2
  <2>5. \A t \in UdpSlots, q \in Clients, r \in Clients : <<"udp", t>> \in O2[q] /\ <<"udp", t>> \in O2[r] => q = r
    BY <1>5, <1>8, <1>9 DEF UdpSide
  <2> QED
    BY <2>1, <2>2, <2>3, <2>4, <2>5 DEF UdpSide
<1>11. IcmpSide(m.icmp, R, O2, E)
  <2>1. OwnsSame("icmp", O, O2)
    BY <1>8 DEF OwnsSame
  <2> QED
    BY <1>5, <1>6, <2>1, IcmpOwners
<1>12. SamePlaces(n, m)
  <2>1. \A t \in UdpSlots : U[t].queue = n.udp[t].queue
    BY <1>7, <1>9
  <2> QED
    BY <1>4, <1>6, <2>1 DEF SamePlaces, SameBut
<1>13. Good(n, E, E) => Replies(m.icmp)
  BY <1>6 DEF Good
<1>14. Sound(m, E, E)
  BY <1>4, <1>5, <1>6, <1>8, <1>10, <1>11, <1>12, <1>13, Registers
<1> QED
  BY <1>1, <1>14 DEF NetInv

\* An ICMP endpoint without replies.
NoReplies == [i \in 0 .. ICMP_QSIZ - 1 |-> NULL]
Blank(d) ==
  DOMAIN d = IcmpFields /\ d.queue = NoReplies /\ d.head = 0 /\ d.tail = 0 /\ d.count = 0

\* An endpoint without replies is in order.
LEMMA BlankEntry ==
  ASSUME NEW d, Blank(d)
  PROVE  Reply(d) /\ IcmpEntry(d)
<1>1. PICK N \in Nat \ {0} : N = ICMP_QSIZ
  BY NetAssumption
<1>2. Ring(d.queue, N, 0, 0, 0)
  BY <1>1 DEF Ring, Wrap, Off, Blank, NoReplies
<1>3. Wrap(0, N) = 0 /\ 0 \in 0 .. N /\ 0 \in 0 .. N - 1
  BY DEF Wrap
<1>4. Reply(d)
  BY <1>1, <1>2, <1>3 DEF Reply, Blank
<1>5. IcmpEntry(d)
  BY <1>1, <1>3 DEF IcmpEntry, Blank, NoReplies, MaybeBuf
<1> QED
  BY <1>4, <1>5

\* An endpoint that counts no reply has none.
LEMMA NoneLeft ==
  ASSUME NEW e, IcmpEntry(e), Reply(e), e.count = 0
  PROVE  e.queue = NoReplies
<1>1. PICK N \in Nat \ {0} : N = ICMP_QSIZ
  BY NetAssumption
<1>2. PICK h : h = Wrap(e.head, N)
  OBVIOUS
<1>3. h \in 0 .. N - 1
  BY <1>1, <1>2 DEF Reply, Wrap
<1>4. \A j \in 0 .. N - 1 : ~ (Off(h, j, N) < 0)
  BY <1>3 DEF Off
<1>5. \A j \in 0 .. N - 1 : e.queue[j] = NULL
  BY <1>1, <1>2, <1>4 DEF Reply, Ring
<1> QED
  BY <1>1, <1>5 DEF IcmpEntry, NoReplies

\* The table of ICMP endpoints with a new one at s.
Renewed(I, J, s, d) == J = [I EXCEPT ![s] = d]

\* Only the endpoint at s changes, and it has no replies.
LEMMA IcmpSet ==
  ASSUME NEW I, NEW J, NEW s \in IcmpSlots, NEW d, Blank(d), IcmpShape(I), Renewed(I, J, s, d)
  PROVE  /\ IcmpShape(J) /\ J[s] = d /\ \A t \in IcmpSlots \ {s} : J[t] = I[t]
         /\ Replies(I) => Replies(J)
         /\ I[s].queue = NoReplies => \A t \in IcmpSlots : J[t].queue = I[t].queue
<1>1. DOMAIN J = IcmpSlots /\ J[s] = d /\ \A t \in IcmpSlots \ {s} : J[t] = I[t]
  BY DEF IcmpShape, Renewed
<1>2. Reply(d) /\ IcmpEntry(d) /\ d.queue = NoReplies
  BY BlankEntry DEF Blank
<1>3. IcmpShape(J)
  <2>1. \A t \in IcmpSlots : IcmpEntry(J[t])
    BY <1>1, <1>2 DEF IcmpShape, IcmpEntry
  <2> QED
    BY <1>1, <2>1 DEF IcmpShape, IcmpEntry
<1>4. Replies(I) => Replies(J)
  BY <1>1, <1>2 DEF Replies
<1>5. I[s].queue = NoReplies => \A t \in IcmpSlots : J[t].queue = I[t].queue
  BY <1>1, <1>2
<1> QED
  BY <1>1, <1>3, <1>4, <1>5

\* A free ICMP endpoint becomes that of p.
LEMMA IcmpRegisterKeeps ==
  ASSUME NetInv, NEW p \in Clients, NEW ip, icmp_register(p, ip)
  PROVE  NetInv'
<1>1. PICK n, m, s, d, E : /\ n = net /\ m = net' /\ s = First({t \in IcmpSlots : net.icmp[t].state = "free"}) /\ E = {}
                           /\ d = [icmp_init[0] EXCEPT !.state = "used", !.remip = ip]
  OBVIOUS
<1>2. /\ Steady(n) /\ {t \in IcmpSlots : n.icmp[t].state = "free"} # {}
      /\ m = [n EXCEPT !.icmp[s] = d, !.owner[p] = @ \cup {<<"icmp", s>>}]
  BY <1>1 DEF icmp_register, NetInv, Call, Steady
<1>3. s \in IcmpSlots /\ n.icmp[s].state = "free"
  <2>1. {t \in IcmpSlots : n.icmp[t].state = "free"} \subseteq Nat
    BY DEF IcmpSlots
  <2>2. s \in {t \in IcmpSlots : n.icmp[t].state = "free"}
    BY <1>1, <1>2, <2>1, FirstIn
  <2> QED
    BY <2>2
<1>4. PICK I, R, O, O2 : I = m.icmp /\ R = n.proc /\ O = n.owner /\ O2 = m.owner
  OBVIOUS
<1>5. /\ Core(n, E) /\ IsNet(n) /\ Sound(n, E, E) /\ UdpSide(n.udp, R, O, E) /\ IcmpSide(n.icmp, R, O, E)
      /\ IcmpShape(n.icmp) /\ DOMAIN O = Clients /\ Good(n, E, E)
  <2>1. Core(n, E) /\ IsNet(n) /\ Sound(n, E, E) /\ Good(n, E, E)
    BY <1>1, <1>2, SteadyGood
  <2> QED
    BY <1>4, <2>1 DEF Core, IcmpSide, IsNet
<1>6. /\ SameBut(n, m) /\ m.arp = n.arp /\ m.udp = n.udp
      /\ I = [n.icmp EXCEPT ![s] = d] /\ Gains(O, O2, p, <<"icmp", s>>)
  BY <1>2, <1>4, <1>5 DEF IsNet, NetFields, SameBut, Gains
<1>7. Blank(d) /\ d.state = "used"
  <2>1. 0 \in IcmpSlots
    BY NetAssumption DEF IcmpSlots
  <2> QED
    BY <1>1, <2>1 DEF Blank, icmp_init, IcmpFields, NoReplies
<1>8. /\ DOMAIN O2 = Clients
      /\ \A q \in Clients : \A u, i : <<u, i>> \in O2[q] <=> <<u, i>> \in O[q] \/ (q = p /\ u = "icmp" /\ i = s)
  BY <1>5, <1>6, GainsShape
<1>9. n.icmp[s].queue = NoReplies /\ \A q \in Clients : <<"icmp", s>> \notin O[q]
  <2>1. \A q \in Clients : <<"icmp", s>> \notin O[q]
    BY <1>3, <1>5 DEF IcmpSide
  <2>2. IcmpEntry(n.icmp[s]) /\ Reply(n.icmp[s])
    BY <1>3, <1>5 DEF IcmpShape, IcmpEntry, Good, Replies
  <2>3. n.icmp[s].count = 0
    BY <1>3, <2>2 DEF Reply
  <2> QED
    BY <2>1, <2>2, <2>3, NoneLeft
<1>10. /\ IcmpShape(I) /\ I[s].state = "used" /\ \A t \in IcmpSlots \ {s} : I[t] = n.icmp[t]
       /\ Replies(I) /\ \A t \in IcmpSlots : I[t].queue = n.icmp[t].queue
  <2>1. PICK J : J = n.icmp
    OBVIOUS
  <2>2. Replies(J) /\ IcmpShape(J) /\ J[s].queue = NoReplies /\ Renewed(J, I, s, d)
    BY <1>5, <1>6, <1>9, <2>1 DEF Good, Renewed
  <2>3. /\ IcmpShape(I) /\ I[s] = d /\ \A t \in IcmpSlots \ {s} : I[t] = J[t]
        /\ Replies(I) /\ \A t \in IcmpSlots : I[t].queue = J[t].queue
    BY <1>3, <1>7, <2>2, IcmpSet
  <2> QED
    BY <1>7, <2>1, <2>3
<1>11. IcmpSide(I, R, O2, E)
  <2>1. ASSUME NEW t \in IcmpSlots, I[t].state = "recv"
        PROVE  At(R, E, I[t].pid, "icmp") /\ R[I[t].pid].slot = t /\ ~ R[I[t].pid].msg
    <3>1. I[t] = n.icmp[t]
      BY <1>10, <2>1
    <3> QED
      BY <1>5, <2>1, <3>1 DEF IcmpSide
  <2>2. ASSUME NEW q \in Procs, At(R, E, q, "icmp")
        PROVE  q \in Clients /\ R[q].slot \in IcmpSlots /\ <<"icmp", R[q].slot>> \in O2[q]
    <3>1. q \in Clients /\ R[q].slot \in IcmpSlots /\ <<"icmp", R[q].slot>> \in O[q]
      BY <1>5, <2>2 DEF IcmpSide
    <3> QED
      BY <1>8, <3>1
  <2>3. ASSUME NEW t \in IcmpSlots, I[t].state = "free"
        PROVE  \A q \in Clients : <<"icmp", t>> \notin O2[q]
    <3>1. t # s /\ I[t] = n.icmp[t]
      BY <1>10, <2>3
    <3>2. \A q \in Clients : <<"icmp", t>> \notin O[q]
      BY <1>5, <2>3, <3>1 DEF IcmpSide
    <3> QED
      BY <1>8, <3>1, <3>2
  <2>4. \A t \in IcmpSlots, q \in Clients, r \in Clients : <<"icmp", t>> \in O2[q] /\ <<"icmp", t>> \in O2[r] => q = r
    BY <1>5, <1>8, <1>9 DEF IcmpSide
  <2> QED
    BY <1>10, <2>1, <2>2, <2>3, <2>4 DEF IcmpSide
<1>12. UdpSide(m.udp, R, O2, E)
  <2>1. OwnsSame("udp", O, O2)
    BY <1>8 DEF OwnsSame
  <2> QED
    BY <1>5, <1>6, <2>1, UdpOwners
<1>13. SamePlaces(n, m)
  BY <1>4, <1>6, <1>10 DEF SamePlaces, SameBut
<1>14. Sound(m, E, E)
  BY <1>4, <1>5, <1>6, <1>8, <1>10, <1>11, <1>12, <1>13, Registers
<1> QED
  BY <1>1, <1>14 DEF NetInv

-----------------------------------------------------------------------------
(* Where a queue is drained.                                                *)

\* The states in which the packets of a list have been freed, one by one.
FreedBy(f, n, bs, N) ==
  /\ f[0] = n
  /\ \A i \in 0 .. N - 1 : f[i + 1] = freebuf(f[i], bs[i + 1])
  /\ Drained(n, bs) = f[N]

\* What Drained computes has these states.
LEMMA DrainedShape ==
  ASSUME NEW n, NEW bs, Len(bs) \in Nat
  PROVE  \E f : FreedBy(f, n, bs, Len(bs))
<1> DEFINE N == Len(bs)
           Is(f, k) == f = [i \in 0 .. k |-> IF i = 0 THEN n ELSE freebuf(f[i - 1], bs[i])]
           T == {k \in 0 .. N : \E f : Is(f, k)}
<1>1. 0 \in T
  <2>1. Is([i \in 0 .. 0 |-> n], 0) /\ 0 \in 0 .. N
    OBVIOUS
  <2> HIDE DEF Is
  <2> QED
    BY <2>1
<1>2. ASSUME NEW k \in 0 .. N - 1, k \in T
      PROVE  k + 1 \in T
  <2>1. PICK f : Is(f, k)
    BY <1>2
  <2> DEFINE g == [i \in 0 .. k + 1 |-> IF i = k + 1 THEN freebuf(f[k], bs[k + 1]) ELSE f[i]]
  <2>2. \A i \in 0 .. k + 1 : g[i] = IF i = 0 THEN n ELSE freebuf(g[i - 1], bs[i])
    <3> SUFFICES ASSUME NEW i \in 0 .. k + 1
                 PROVE  g[i] = IF i = 0 THEN n ELSE freebuf(g[i - 1], bs[i])
      OBVIOUS
    <3>1. CASE i = k + 1
      BY <3>1
    <3>2. CASE i \in 0 .. k
      BY <2>1, <3>2
    <3> QED
      BY <3>1, <3>2
  <2>3. Is(g, k + 1)
    BY <2>2
  <2>4. k + 1 \in 0 .. N
    OBVIOUS
  <2> QED
    BY <2>3, <2>4
<1>3. N \in 0 .. N
  OBVIOUS
<1> HIDE DEF T
<1>4. 0 .. N \subseteq T
  BY <1>1, <1>2, InductTo
<1> USE DEF T
<1>5. \E f : Is(f, N)
  BY <1>3, <1>4
<1> DEFINE freed == CHOOSE f : Is(f, N)
<1>6. Is(freed, N)
  BY <1>5
<1>7. Drained(n, bs) = freed[N]
  BY DEF Drained
<1> HIDE DEF freed
<1>8. freed[0] = n
  BY <1>6
<1>9. \A i \in 0 .. N - 1 : freed[i + 1] = freebuf(freed[i], bs[i + 1])
  <2> SUFFICES ASSUME NEW i \in 0 .. N - 1
               PROVE  freed[i + 1] = freebuf(freed[i], bs[i + 1])
    OBVIOUS
  <2>1. i + 1 \in 0 .. N /\ i + 1 # 0 /\ (i + 1) - 1 = i
    OBVIOUS
  <2> QED
    BY <1>6, <2>1
<1>10. FreedBy(freed, n, bs, Len(bs))
  BY <1>7, <1>8, <1>9 DEF FreedBy
<1> QED
  BY <1>10

\* A process on its way does not wait for a buffer.
LEMMA FreePasses ==
  ASSUME NEW n, NEW P, NEW H, NEW b, NEW p \in Procs, Alone(P, p), Sound(n, P, H)
  PROVE  freebuf(n, b).proc[p] = n.proc[p]
<1>1. CASE n.waiting = << >>
  BY <1>1 DEF freebuf, Sound, Core, IsNet, NetFields
<1>2. CASE n.waiting # << >>
  <2>1. IsNet(n) /\ DOMAIN n.proc = Procs /\ Waiters(n.waiting, n.proc, P) /\ n.waiting \in Seq(Procs)
    BY DEF Sound, Core, Held, IsNet
  <2>2. Head(n.waiting) \in Members(n.waiting) /\ Head(n.waiting) \in Procs
    BY <1>2, <2>1 DEF Members
  <2>3. Head(n.waiting) # p
    BY <2>1, <2>2 DEF Waiters, Wants, Others, Alone
  <2> QED
    BY <1>2, <2>1, <2>2, <2>3 DEF freebuf, IsNet, NetFields
<1> QED
  BY <1>1, <1>2

\* The state with other tables, and what takes a packet out of them.
Slot(x, U, I) == [x EXCEPT !.udp = U, !.icmp = I]
Gives(n, P, E, b, U, I, U2, I2) ==
  \A x : Sound(Slot(x, U, I), P, E) /\ SameTables(n, x) =>
         Sound(Slot(x, U2, I2), P, E \cup {b}) /\ b \notin E

\* Only the tables of the endpoints change.
LEMMA SlotShape ==
  ASSUME NEW x, NEW U, NEW I, DOMAIN x = NetFields
  PROVE  LET m == Slot(x, U, I) IN
         /\ DOMAIN m = NetFields /\ SamePool(x, m) /\ m.owner = x.owner /\ m.arp = x.arp /\ m.oq = x.oq
         /\ m.udp = U /\ m.icmp = I
         /\ m.evicted = x.evicted /\ m.misdirected = x.misdirected /\ m.bad = x.bad /\ m.overtaken = x.overtaken
BY DEF Slot, NetFields, SamePool

\* State x has the tables of n but for those of the endpoints, which are U and I.
Amid(n, x, U, I, P, E, p) ==
  Sound(Slot(x, U, I), P, E) /\ SameTables(n, x) /\ x.proc[p] = n.proc[p]

\* One packet of the list is freed.
LEMMA DrainsOne ==
  ASSUME NEW n, NEW x, NEW p \in Procs, NEW P, Alone(P, p), NEW E, NEW b, NEW U, NEW I, NEW U2, NEW I2,
         Gives(n, P, E, b, U, I, U2, I2), DOMAIN n = NetFields, Amid(n, x, U, I, P, E, p)
  PROVE  Amid(n, freebuf(x, b), U2, I2, P, E, p)
<1>0. SameTables(n, x) /\ Sound(Slot(x, U, I), P, E) /\ x.proc[p] = n.proc[p]
  BY DEF Amid
<1>1. PICK y, k, m, G : y = freebuf(x, b) /\ k = Slot(x, U2, I2) /\ m = Slot(freebuf(x, b), U2, I2) /\ G = E \cup {b}
  OBVIOUS
<1>2. Sound(k, P, G) /\ b \notin E
  BY <1>0, <1>1 DEF Gives
<1>3. b \in G /\ E = G \ {b}
  BY <1>1, <1>2
<1>4. DOMAIN x = NetFields
  BY <1>0 DEF SameTables
<1>5. SameTables(n, y) /\ DOMAIN y = NetFields
  BY <1>0, <1>1, <1>4, FreeKeeps DEF SameTables
<1>6. SamePool(x, k) /\ SamePool(freebuf(x, b), m)
  BY <1>1, <1>4, <1>5, SlotShape
<1>7. SameTables(k, m)
  <2>1. SameTables(x, y)
    BY <1>1, <1>4, FreeKeeps DEF SameTables
  <2>2. k = Slot(x, U2, I2) /\ m = Slot(y, U2, I2)
    BY <1>1
  <2> QED
    BY <1>4, <1>5, <2>1, <2>2, SlotShape DEF SameTables
<1>8. Sound(m, P, E)
  BY <1>2, <1>3, <1>4, <1>6, <1>7, FreesAs
<1>9. y.proc[p] = x.proc[p]
  <2>1. PICK j : j = Slot(x, U, I)
    OBVIOUS
  <2>2. SamePool(x, j) /\ Sound(j, P, E) /\ DOMAIN j = NetFields
    BY <1>0, <1>4, <2>1, SlotShape
  <2>3. freebuf(j, b).proc[p] = j.proc[p]
    BY <2>2, FreePasses
  <2>4. freebuf(j, b).proc = freebuf(x, b).proc
    BY <1>4, <2>2 DEF freebuf, SamePool, NetFields
  <2> QED
    BY <1>1, <2>2, <2>3, <2>4 DEF SamePool
<1> QED
  BY <1>0, <1>1, <1>5, <1>8, <1>9 DEF Amid

\* All packets of the list are freed.
AllGive(n, P, E, bs, N, U, I) ==
  \A i \in 0 .. N - 1 : Gives(n, P, E, bs[i + 1], U[i], I[i], U[i + 1], I[i + 1])

\* When each packet of a list comes out of the tables in turn and is freed, the
\* state is sound at the end.
LEMMA Drains ==
  ASSUME NEW n, NEW p \in Procs, NEW P, Alone(P, p), NEW E, NEW bs, NEW N \in Nat, N = Len(bs), NEW U, NEW I,
         DOMAIN n = NetFields, Sound(Slot(n, U[0], I[0]), P, E), AllGive(n, P, E, bs, N, U, I)
  PROVE  Amid(n, Drained(n, bs), U[N], I[N], P, E, p)
<1>1. PICK f : FreedBy(f, n, bs, N)
  <2>1. \E f : FreedBy(f, n, bs, Len(bs))
    BY DrainedShape
  <2> QED
    BY <2>1
<1> DEFINE T == {i \in 0 .. N : Amid(n, f[i], U[i], I[i], P, E, p)}
<1>2. 0 \in T
  <2>1. SameTables(n, n)
    BY DEF SameTables
  <2>2. f[0] = n
    BY <1>1 DEF FreedBy
  <2> QED
    BY <2>1, <2>2 DEF Amid
<1>3. ASSUME NEW i \in 0 .. N - 1, i \in T
      PROVE  i + 1 \in T
  <2>1. PICK x, b, V, J, V2, J2 : /\ x = f[i] /\ b = bs[i + 1] /\ V = U[i] /\ J = I[i]
                                  /\ V2 = U[i + 1] /\ J2 = I[i + 1]
    OBVIOUS
  <2>2. Gives(n, P, E, b, V, J, V2, J2) /\ Amid(n, x, V, J, P, E, p)
    BY <1>3, <2>1 DEF AllGive
  <2>3. Amid(n, freebuf(x, b), V2, J2, P, E, p)
    BY <2>2, DrainsOne
  <2>4. f[i + 1] = freebuf(x, b)
    BY <1>1, <2>1 DEF FreedBy
  <2>5. i + 1 \in 0 .. N
    OBVIOUS
  <2> QED
    BY <2>1, <2>3, <2>4, <2>5
<1>4. N \in 0 .. N
  OBVIOUS
<1> HIDE DEF T
<1>5. 0 .. N \subseteq T
  BY <1>2, <1>3, InductTo
<1> USE DEF T
<1> QED
  BY <1>1, <1>4, <1>5 DEF FreedBy

\* The parts of a list without its first i members.
CutAt(S, q, N, i) == LET t == SubSeq(q, i + 1, N) IN
  t \in Seq(S) /\ t # << >> /\ Head(t) = q[i + 1] /\ Tail(t) = SubSeq(q, i + 2, N)
Cuts(S, q, N) ==
  /\ SubSeq(q, 1, N) = q /\ SubSeq(q, N + 1, N) = << >>
  /\ \A i \in 0 .. N - 1 : CutAt(S, q, N, i)

\* A list is cut at its head, one member at a time.
LEMMA CutAnywhere ==
  ASSUME NEW S, NEW q \in Seq(S), NEW N \in Nat, N = Len(q)
  PROVE  Cuts(S, q, N)
<1>1. SubSeq(q, 1, N) = q /\ SubSeq(q, N + 1, N) = << >>
  OBVIOUS
<1>2. ASSUME NEW i \in 0 .. N - 1
      PROVE  CutAt(S, q, N, i)
  <2>1. PICK t, u : t = SubSeq(q, i + 1, N) /\ u = SubSeq(q, i + 2, N)
    OBVIOUS
  <2>2. t \in Seq(S) /\ Len(t) = N - i /\ \A j \in 1 .. N - i : t[j] = q[i + j]
    BY SMTT(20), <2>1
  <2>3. u \in Seq(S) /\ Len(u) = (N - i) - 1 /\ \A j \in 1 .. (N - i) - 1 : u[j] = q[i + (j + 1)]
    BY <2>1
  <2>4. PICK k \in Nat \ {0} : k = N - i
    <3>1. N - i \in Nat \ {0}
      OBVIOUS
    <3> QED
      BY <3>1
  <2>5. t # << >> /\ Head(t) = q[i + 1]
    BY <2>2
  <2>6. Tail(t) \in Seq(S) /\ Len(Tail(t)) = k - 1 /\ \A j \in 1 .. k - 1 : Tail(t)[j] = t[j + 1]
    <3>1. Len(t) = k
      BY <2>2, <2>4
    <3>2. t \in Seq(S)
      BY <2>2
    <3>3. Tail(t) \in Seq(S) /\ Len(Tail(t)) = k - 1
      BY <3>1, <3>2
    <3>4. ASSUME NEW j \in 1 .. k - 1
          PROVE  Tail(t)[j] = t[j + 1]
      BY <3>1, <3>2
    <3> QED
      BY <3>3, <3>4
  <2>7. \A j \in 1 .. k - 1 : t[j + 1] = u[j]
    BY <2>2, <2>3, <2>4
  <2>8. Tail(t) = u
    <3>1. Len(u) = k - 1 /\ u \in Seq(S)
      BY <2>3, <2>4
    <3>2. \A j \in 1 .. k - 1 : Tail(t)[j] = u[j]
      BY <2>6, <2>7
    <3> QED
      BY <2>6, <3>1, <3>2
  <2> QED
    BY <2>1, <2>2, <2>5, <2>8 DEF CutAt
<1> QED
  BY <1>1, <1>2 DEF Cuts

\* The table W of UDP endpoints is V without the first packet of s.
Shorter(V, W, s) ==
  /\ V[s].queue # << >> /\ DOMAIN V = UdpSlots /\ DOMAIN V[s] = UdpFields
  /\ W = [V EXCEPT ![s] = [V[s] EXCEPT !.queue = Tail(V[s].queue)]]

\* One packet is taken out of the queue of an endpoint of p.
LEMMA UdpGives ==
  ASSUME NEW n, NEW p \in Clients, NEW s \in UdpSlots, NEW P, Alone(P, p), NEW E, NEW V, NEW W, NEW J, NEW b,
         ~ n.bad, ~ n.overtaken, <<"udp", s>> \in n.owner[p], Shorter(V, W, s), b = Head(V[s].queue)
  PROVE  Gives(n, P, E, b, V, J, W, J)
<1> SUFFICES ASSUME NEW x, Sound(Slot(x, V, J), P, E), SameTables(n, x)
             PROVE  Sound(Slot(x, W, J), P, E \cup {b}) /\ b \notin E
  BY DEF Gives
<1>1. PICK y, z, G : y = Slot(x, V, J) /\ z = Slot(x, W, J) /\ G = E \cup {b}
  OBVIOUS
<1>2. PICK k : k = [y EXCEPT !.udp[s].queue = Tail(@)]
  OBVIOUS
<1>3. /\ DOMAIN x = NetFields /\ x.owner = n.owner /\ x.bad = n.bad /\ x.overtaken = n.overtaken
  BY DEF SameTables
<1>4. /\ DOMAIN y = NetFields /\ SamePool(x, y) /\ y.owner = x.owner /\ y.arp = x.arp /\ y.oq = x.oq
      /\ y.udp = V /\ y.icmp = J
      /\ y.evicted = x.evicted /\ y.misdirected = x.misdirected /\ y.bad = x.bad /\ y.overtaken = x.overtaken
  BY <1>1, <1>3, SlotShape
<1>5. /\ DOMAIN z = NetFields /\ SamePool(x, z) /\ z.owner = x.owner /\ z.arp = x.arp /\ z.oq = x.oq
      /\ z.udp = W /\ z.icmp = J
      /\ z.evicted = x.evicted /\ z.misdirected = x.misdirected /\ z.bad = x.bad /\ z.overtaken = x.overtaken
  BY <1>1, <1>3, SlotShape
<1>6. Sound(k, P, E \cup {b}) /\ b \notin E
  <2>1. Sound(y, P, E) /\ <<"udp", s>> \in y.owner[p] /\ y.udp[s].queue # << >> /\ b = Head(y.udp[s].queue)
    BY <1>1, <1>3, <1>4 DEF Shorter
  <2>2. ~ y.bad /\ ~ y.overtaken
    BY <1>3, <1>4
  <2>3. P = {p}
    BY DEF Alone
  <2> QED
    BY <1>2, <2>1, <2>2, <2>3, UdpTaken
<1>7. Rest(k, z) /\ k.waiting = z.waiting /\ k.proc = z.proc
  <2>1. /\ DOMAIN k = NetFields /\ SamePool(y, k) /\ k.owner = y.owner /\ k.arp = y.arp /\ k.oq = y.oq
        /\ k.icmp = y.icmp
        /\ k.evicted = y.evicted /\ k.misdirected = y.misdirected /\ k.bad = y.bad /\ k.overtaken = y.overtaken
        /\ k.udp = [y.udp EXCEPT ![s] = [y.udp[s] EXCEPT !.queue = Tail(y.udp[s].queue)]]
    BY <1>2, <1>4 DEF NetFields, SamePool
  <2>2. k.udp = z.udp
    BY <1>4, <1>5, <2>1 DEF Shorter
  <2> QED
    BY <1>4, <1>5, <2>1, <2>2 DEF Rest, SamePool
<1>8. Sound(z, P, G)
  BY <1>1, <1>6, <1>7, SameFields
<1> QED
  BY <1>1, <1>6, <1>8

\* A client that did not wait goes on where it is.
LEMMA Idles ==
  ASSUME NEW n, NEW m, NEW p \in Procs, NEW P, NEW E, E = {}, Alone(P, p), Sound(m, P, E), Steady(n),
         n.proc[p].at = "idle", m.proc[p] = n.proc[p]
  PROVE  Sound(m, E, E)
<1>1. PICK r : r = n.proc[p]
  OBVIOUS
<1>2. Core(n, {}) /\ Core(m, P)
  BY SteadyGood DEF Sound
<1>3. DOMAIN r = ProcFields /\ r.msg \in BOOLEAN /\ Holds(r)
  BY <1>1, <1>2 DEF Core, Held, Others
<1>4. r.at = "idle" /\ r.buf = NULL /\ r.got = NULL
  BY <1>1, <1>3 DEF Holds, Holding, Wanting, MaybeBuf
<1>5. PICK R : R = m.proc
  OBVIOUS
<1>6. /\ IsNet(m) /\ DOMAIN m = NetFields /\ DOMAIN R = Procs /\ R[p] = r /\ Waiters(m.waiting, R, P)
      /\ m.waiting \in Seq(Procs)
  BY <1>1, <1>2, <1>5 DEF Core, IsNet, Held
<1>7. \A q \in Procs : (q \in P <=> q = p) /\ q \notin E
  BY DEF Alone
<1>8. Rest(m, m) /\ E \in SUBSET Bufs
  BY <1>6 DEF Rest
<1>9. Waiters(m.waiting, R, E)
  <2>1. \A q \in Procs : Wants(R, E, q) <=> Wants(R, P, q)
    BY <1>4, <1>6, <1>7 DEF Wants, Others, Wanting
  <2> QED
    BY <1>6, <2>1 DEF Waiters
<1>10. OnlyOf(R, P, R, E, p)
  BY <1>3, <1>6, <1>7 DEF OnlyOf
<1>11. Keeps(R, P, E, R, E, E, p)
  <2> SUFFICES ASSUME NEW c \in Bufs
               PROVE  CellMoves(R, P, E, R, E, E, p, c)
    BY OtherCells
  <2>1. c # NULL
    BY NetAssumption
  <2>2. \A l, q : ~ Cell(R, P, E, p, c, l, q)
    BY <1>7 DEF Cell, AtPool, AtProc, Others
  <2>3. \A l, q : ~ Cell(R, E, E, p, c, l, q)
    BY <1>4, <1>6, <2>1 DEF Cell, AtPool, AtProc
  <2> QED
    BY <2>2, <2>3 DEF CellMoves
<1>12. Quiet(R, P, R, E)
  BY <1>4, <1>6, <1>7, QuietChange
<1>13. /\ At(R, E, "ipout", "take") <=> At(R, P, "ipout", "take")
       /\ At(R, E, "ipout", "blocked") <=> At(R, P, "ipout", "blocked")
  BY <1>4, <1>6, <1>7 DEF At, Others
<1> QED
  BY <1>5, <1>6, <1>8, <1>9, <1>10, <1>11, <1>12, <1>13, Turns

\* The table W of UDP endpoints is V without the endpoint s.
UdpClosed(V, W, s) == W = [V EXCEPT ![s] = [V[s] EXCEPT !.state = "free", !.queue = << >>]]

\* Nobody is left that waits at an endpoint that its owner gives up.
LEMMA UdpCloses ==
  ASSUME NEW p \in Clients, NEW s \in UdpSlots, NEW P, Alone(P, p), NEW V, NEW W, NEW R, NEW O, NEW O2,
         UdpSide(V, R, O, P), UdpClosed(V, W, s), DOMAIN O = Clients, <<"udp", s>> \in O[p],
         Loses(O, O2, p, <<"udp", s>>)
  PROVE  UdpSide(W, R, O2, P)
<1>1. /\ UdpShape(V) /\ DOMAIN V = UdpSlots /\ DOMAIN V[s] = UdpFields
  BY DEF UdpSide, UdpShape
<1>2. /\ DOMAIN W = UdpSlots /\ DOMAIN W[s] = UdpFields /\ W[s].state = "free" /\ W[s].queue = << >>
      /\ \A t \in UdpSlots \ {s} : W[t] = V[t]
  BY <1>1 DEF UdpClosed, UdpFields
<1>3. \A q \in Clients : \A u, i : <<u, i>> \in O2[q] <=> <<u, i>> \in O[q] /\ ~ (q = p /\ u = "udp" /\ i = s)
  BY DEF Loses
<1>4. UdpShape(W)
  <2>1. << >> \in Seq(Bufs)
    OBVIOUS
  <2>2. \A t \in UdpSlots : DOMAIN W[t] = UdpFields /\ W[t].queue \in Seq(Bufs)
    BY <1>1, <1>2, <2>1 DEF UdpShape
  <2> QED
    BY <1>2, <2>2 DEF UdpShape
<1>5. \A t \in UdpSlots : W[t].state = "recv" =>
        At(R, P, W[t].pid, "udp") /\ R[W[t].pid].slot = t /\ ~ R[W[t].pid].msg /\ W[t].queue = << >>
  BY <1>2 DEF UdpSide
<1>6. ASSUME NEW q \in Procs, At(R, P, q, "udp")
      PROVE  UdpWaits(W, R, O2, P, q)
  <2>1. UdpWaits(V, R, O, P, q) /\ q # p
    BY <1>6 DEF UdpSide, At, Others, Alone
  <2>2. q \in Clients /\ R[q].slot \in UdpSlots /\ <<"udp", R[q].slot>> \in O[q]
    BY <2>1 DEF UdpWaits
  <2>3. R[q].slot # s
    BY <2>1, <2>2 DEF UdpSide
  <2>4. <<"udp", R[q].slot>> \in O2[q] /\ W[R[q].slot] = V[R[q].slot]
    BY <1>2, <1>3, <2>2, <2>3
  <2> QED
    BY <2>1, <2>2, <2>4 DEF UdpWaits
<1>7. ASSUME NEW t \in UdpSlots, W[t].state = "free"
      PROVE  W[t].queue = << >> /\ \A q \in Clients : <<"udp", t>> \notin O2[q]
  <2>1. CASE t = s
    <3>1. \A q \in Clients : <<"udp", s>> \in O[q] => q = p
      BY DEF UdpSide
    <3> QED
      BY <1>2, <1>3, <2>1, <3>1
  <2>2. CASE t # s
    <3>1. V[t] = W[t]
      BY <1>2, <2>2
    <3>2. V[t].queue = << >> /\ \A q \in Clients : <<"udp", t>> \notin O[q]
      BY <1>7, <3>1 DEF UdpSide
    <3> QED
      BY <1>3, <3>1, <3>2
  <2> QED
    BY <2>1, <2>2
<1>8. \A t \in UdpSlots, q \in Clients, r \in Clients : <<"udp", t>> \in O2[q] /\ <<"udp", t>> \in O2[r] => q = r
  BY <1>3 DEF UdpSide
<1> QED
  BY <1>4, <1>5, <1>6, <1>7, <1>8 DEF UdpSide

\* Two tables of UDP endpoints that look the same.
LEMMA UdpSame ==
  ASSUME NEW V, NEW W, NEW R, NEW O, NEW P, UdpSide(V, R, O, P), DOMAIN W = UdpSlots,
         \A t \in UdpSlots : /\ DOMAIN W[t] = UdpFields /\ W[t].state = V[t].state /\ W[t].pid = V[t].pid
                             /\ W[t].queue = V[t].queue
  PROVE  UdpSide(W, R, O, P)
<1>1. UdpShape(W)
  BY DEF UdpSide, UdpShape
<1> QED
  BY <1>1 DEF UdpSide, UdpWaits

\* W is the table V of UDP endpoints with the queue t at s.
UdpCut(V, W, s, t) ==
  /\ DOMAIN W = UdpSlots /\ DOMAIN W[s] = UdpFields /\ W[s].queue = t
  /\ W = [V EXCEPT ![s] = [V[s] EXCEPT !.queue = t]]

\* udp_release: the packets of the endpoint go back to the pool.
LEMMA UdpReleaseKeeps ==
  ASSUME NetInv, NEW p \in Clients, NEW s \in UdpSlots, udp_release(p, s)
  PROVE  NetInv'
<1>1. PICK n, m, P, E, q, f : n = net /\ m = net' /\ P = {p} /\ E = {} /\ q = net.udp[s].queue /\ f = Drained(net, q)
  OBVIOUS
<1>2. /\ Steady(n) /\ n.proc[p].at = "idle" /\ p \in Procs /\ <<"udp", s>> \in n.owner[p] /\ n.udp[s].state # "free"
      /\ m = [f EXCEPT !.udp[s] = [@ EXCEPT !.state = "free", !.queue = <<>>], !.owner[p] = @ \ {<<"udp", s>>}]
  BY <1>1 DEF udp_release, Owns, NetInv, Call, Steady, Procs
<1>3. Sound(n, P, E) /\ Alone(P, p)
  BY <1>1, <1>2, GoesEmpty DEF Alone
<1>4. Core(n, P) /\ IsNet(n) /\ DOMAIN n = NetFields /\ UdpSide(n.udp, n.proc, n.owner, P) /\ UdpShape(n.udp)
  BY <1>3 DEF Sound, Core, IsNet, UdpSide
<1>5. DOMAIN n.udp = UdpSlots /\ DOMAIN n.udp[s] = UdpFields /\ q \in Seq(Bufs) /\ DOMAIN n.owner = Clients
  BY <1>1, <1>4 DEF UdpShape, IsNet
<1>6. PICK N \in Nat : N = Len(q)
  BY <1>5
<1>7. PICK V : V = n.udp
  OBVIOUS
<1>8. PICK U, I : /\ U = [i \in 0 .. N |-> [V EXCEPT ![s] = [V[s] EXCEPT !.queue = SubSeq(q, i + 1, N)]]]
                  /\ I = [i \in 0 .. N |-> n.icmp]
  OBVIOUS
<1>9. \A i \in 0 .. N : UdpCut(V, U[i], s, SubSeq(q, i + 1, N)) /\ I[i] = n.icmp
  <2> SUFFICES ASSUME NEW i \in 0 .. N
               PROVE  UdpCut(V, U[i], s, SubSeq(q, i + 1, N)) /\ I[i] = n.icmp
    OBVIOUS
  <2>1. PICK W, t : W = U[i] /\ t = SubSeq(q, i + 1, N)
    OBVIOUS
  <2>2. W = [V EXCEPT ![s] = [V[s] EXCEPT !.queue = t]] /\ I[i] = n.icmp
    BY <1>8, <2>1
  <2>3. UdpCut(V, W, s, t)
    BY <1>5, <1>7, <2>2 DEF UdpFields, UdpCut
  <2> QED
    BY <2>1, <2>2, <2>3
<1>32. 0 \in 0 .. N /\ N \in 0 .. N
  OBVIOUS
<1>10. Cuts(Bufs, q, N)
  BY <1>5, <1>6, CutAnywhere
<1>11. AllGive(n, P, E, q, N, U, I)
  <2> SUFFICES ASSUME NEW i \in 0 .. N - 1
               PROVE  Gives(n, P, E, q[i + 1], U[i], I[i], U[i + 1], I[i + 1])
    BY DEF AllGive
  <2>1. PICK A, B, J, b : A = U[i] /\ B = U[i + 1] /\ J = n.icmp /\ b = q[i + 1]
    OBVIOUS
  <2>2. i \in 0 .. N /\ i + 1 \in 0 .. N /\ (i + 1) + 1 = i + 2
    OBVIOUS
  <2>3. I[i] = J /\ I[i + 1] = J
    BY <1>9, <2>1, <2>2
  <2>4. PICK t : t = SubSeq(q, i + 1, N)
    OBVIOUS
  <2>5. t # << >> /\ Head(t) = b /\ Tail(t) = SubSeq(q, i + 2, N)
    BY <1>10, <2>1, <2>4 DEF Cuts, CutAt
  <2>10. UdpCut(V, A, s, t) /\ UdpCut(V, B, s, Tail(t))
    BY <1>9, <2>1, <2>2, <2>4, <2>5
  <2>6. /\ DOMAIN A = UdpSlots /\ DOMAIN A[s] = UdpFields /\ A[s].queue = t
        /\ A = [V EXCEPT ![s] = [V[s] EXCEPT !.queue = t]]
        /\ B = [V EXCEPT ![s] = [V[s] EXCEPT !.queue = Tail(t)]]
    BY <2>10 DEF UdpCut
  <2>7. B = [A EXCEPT ![s] = [A[s] EXCEPT !.queue = Tail(t)]]
    BY <1>5, <1>7, <2>6 DEF UdpFields
  <2>8. Shorter(A, B, s) /\ b = Head(A[s].queue)
    BY <2>5, <2>6, <2>7 DEF Shorter
  <2>9. Gives(n, P, E, b, A, J, B, J)
    BY <1>2, <1>3, <2>8, UdpGives DEF Steady
  <2> QED
    BY <2>1, <2>3, <2>9
<1>12. Sound(Slot(n, U[0], I[0]), P, E)
  <2>1. PICK W, t, J, y : W = U[0] /\ t = SubSeq(q, 1, N) /\ J = I[0] /\ y = Slot(n, W, J)
    OBVIOUS
  <2>2. UdpCut(V, W, s, t) /\ J = n.icmp
    BY <1>9, <1>32, <2>1
  <2>3. t = V[s].queue
    BY <1>1, <1>7, <1>10, <2>1 DEF Cuts
  <2>4. /\ DOMAIN W = UdpSlots
        /\ \A k \in UdpSlots : /\ DOMAIN W[k] = UdpFields /\ W[k].state = V[k].state /\ W[k].pid = V[k].pid
                               /\ W[k].queue = V[k].queue
    BY <1>4, <1>5, <1>7, <2>2, <2>3 DEF UdpCut, UdpShape, UdpFields
  <2>5. UdpSide(W, n.proc, n.owner, P)
    BY <1>4, <1>7, <2>4, UdpSame
  <2>6. /\ SameBut(n, y) /\ y.arp = n.arp /\ y.owner = n.owner /\ y.udp = W /\ y.icmp = n.icmp
    BY <1>4, <2>1, <2>2, SlotShape DEF SameBut, SamePool
  <2>7. SamePlaces(n, y)
    BY <1>7, <2>4, <2>6 DEF SamePlaces, SameBut
  <2>8. IcmpSide(n.icmp, n.proc, n.owner, P)
    BY <1>4 DEF Core
  <2>9. Good(n, P, E) => Replies(y.icmp)
    BY <2>6 DEF Good
  <2>10. Sound(y, P, E)
    BY <1>3, <1>5, <2>5, <2>6, <2>7, <2>8, <2>9, Registers
  <2> QED
    BY <2>1, <2>10
<1>13. Amid(n, f, U[N], I[N], P, E, p)
  BY <1>1, <1>2, <1>3, <1>4, <1>6, <1>11, <1>12, Drains
<1>14. PICK y : y = Slot(f, U[N], I[N])
  OBVIOUS
<1>15. Sound(y, P, E) /\ SameTables(n, f) /\ f.proc[p] = n.proc[p] /\ DOMAIN f = NetFields
  BY <1>13, <1>14 DEF Amid, SameTables
<1>16. /\ DOMAIN y = NetFields /\ SamePool(f, y) /\ y.owner = n.owner /\ y.arp = n.arp /\ y.oq = n.oq
       /\ y.udp = U[N] /\ y.icmp = n.icmp
       /\ y.evicted = f.evicted /\ y.misdirected = f.misdirected /\ y.bad = f.bad /\ y.overtaken = f.overtaken
  <2>1. PICK X, J : X = U[N] /\ J = I[N] /\ J = n.icmp
    BY <1>9, <1>32
  <2>2. y = Slot(f, X, J)
    BY <1>14, <2>1
  <2>3. /\ DOMAIN y = NetFields /\ SamePool(f, y) /\ y.owner = f.owner /\ y.arp = f.arp /\ y.oq = f.oq
        /\ y.udp = X /\ y.icmp = J
        /\ y.evicted = f.evicted /\ y.misdirected = f.misdirected /\ y.bad = f.bad /\ y.overtaken = f.overtaken
    BY <1>15, <2>2, SlotShape
  <2> QED
    BY <1>15, <2>1, <2>3 DEF SameTables
<1>17. PICK O2 : O2 = m.owner
  OBVIOUS
<1>18. /\ SameBut(f, m) /\ m.arp = f.arp /\ m.icmp = f.icmp
       /\ m.udp = [f.udp EXCEPT ![s] = [f.udp[s] EXCEPT !.state = "free", !.queue = <<>>]]
       /\ Loses(f.owner, O2, p, <<"udp", s>>)
  BY <1>2, <1>15, <1>17 DEF NetFields, SameBut, Loses
<1>19. SameBut(y, m) /\ m.arp = y.arp /\ m.icmp = y.icmp /\ Loses(n.owner, O2, p, <<"udp", s>>) /\ y.owner = n.owner
  BY <1>15, <1>16, <1>18 DEF SameBut, SamePool, SameTables
<1>20. PICK W : W = m.udp
  OBVIOUS
<1>21. UdpClosed(y.udp, W, s) /\ y.udp[s].queue = << >> /\ DOMAIN y.udp = UdpSlots
  <2>1. f.udp = V
    BY <1>7, <1>15 DEF SameTables
  <2>2. /\ W = [V EXCEPT ![s] = [V[s] EXCEPT !.state = "free", !.queue = <<>>]]
    BY <1>18, <1>20, <2>1
  <2>3. /\ y.udp = [V EXCEPT ![s] = [V[s] EXCEPT !.queue = << >>]] /\ y.udp[s].queue = << >>
        /\ DOMAIN y.udp = UdpSlots
    <3>1. PICK X, t : X = U[N] /\ t = SubSeq(q, N + 1, N)
      OBVIOUS
    <3>2. UdpCut(V, X, s, t)
      BY <1>9, <1>32, <3>1
    <3>3. t = << >>
      BY <1>10, <3>1 DEF Cuts
    <3> QED
      BY <1>16, <3>1, <3>2, <3>3 DEF UdpCut
  <2>4. W = [y.udp EXCEPT ![s] = [y.udp[s] EXCEPT !.state = "free", !.queue = <<>>]]
    BY <1>5, <1>7, <2>2, <2>3 DEF UdpFields
  <2> QED
    BY <2>3, <2>4 DEF UdpClosed
<1>22. UdpSide(y.udp, y.proc, n.owner, P) /\ IcmpSide(y.icmp, y.proc, n.owner, P)
  BY <1>15, <1>16 DEF Sound, Core
<1>23. UdpSide(W, y.proc, O2, P)
  BY <1>2, <1>3, <1>5, <1>19, <1>21, <1>22, UdpCloses
<1>31. /\ DOMAIN O2 = Clients
       /\ \A i \in Clients : \A u, k : <<u, k>> \in O2[i] <=> <<u, k>> \in n.owner[i] /\ ~ (i = p /\ u = "udp" /\ k = s)
  <2>1. PICK O : O = n.owner
    OBVIOUS
  <2>2. DOMAIN O = Clients /\ Loses(O, O2, p, <<"udp", s>>)
    BY <1>5, <1>19, <2>1
  <2> QED
    BY <2>1, <2>2 DEF Loses
<1>24. IcmpSide(m.icmp, y.proc, O2, P)
  <2>1. OwnsSame("icmp", n.owner, O2)
    BY <1>31 DEF OwnsSame
  <2> QED
    BY <1>19, <1>22, <2>1, IcmpOwners
<1>25. SamePlaces(y, m)
  <2>1. \A t \in UdpSlots : W[t].queue = y.udp[t].queue
    BY <1>21 DEF UdpClosed
  <2> QED
    BY <1>19, <1>20, <2>1 DEF SamePlaces, SameBut
<1>26. Good(y, P, E) => Replies(m.icmp)
  BY <1>19 DEF Good
<1>27. DOMAIN m.owner = Clients
  BY <1>17, <1>31
<1>28. Sound(m, P, E)
  BY <1>15, <1>17, <1>19, <1>20, <1>23, <1>24, <1>25, <1>26, <1>27, Registers
<1>29. m.proc[p] = n.proc[p]
  BY <1>15, <1>18 DEF SameBut
<1>30. Sound(m, E, E)
  BY <1>1, <1>2, <1>3, <1>28, <1>29, Idles
<1> QED
  BY <1>1, <1>30 DEF NetInv

-----------------------------------------------------------------------------
(* The release of an ICMP endpoint.                                         *)

\* The endpoint e when its first i replies are gone.
After(e, i) == LET h == Wrap(e.head, ICMP_QSIZ) IN
  [e EXCEPT !.queue = [j \in 0 .. ICMP_QSIZ - 1 |-> IF Off(h, j, ICMP_QSIZ) < i THEN NULL ELSE e.queue[j]],
            !.head = Wrap(h + i, ICMP_QSIZ), !.count = e.count - i]
AfterShape(e, d, i) == LET h == Wrap(e.head, ICMP_QSIZ) IN
  /\ DOMAIN d = IcmpFields /\ d.state = e.state /\ d.pid = e.pid /\ d.tail = e.tail
  /\ d.queue = [j \in 0 .. ICMP_QSIZ - 1 |-> IF Off(h, j, ICMP_QSIZ) < i THEN NULL ELSE e.queue[j]]
  /\ d.head = Wrap(h + i, ICMP_QSIZ) /\ d.count = e.count - i

\* Its fields.
LEMMA AfterFields ==
  ASSUME NEW e, NEW i, IcmpEntry(e)
  PROVE  AfterShape(e, After(e, i), i)
<1>1. DOMAIN e = IcmpFields
  BY DEF IcmpEntry
<1> QED
  BY <1>1 DEF After, AfterShape, IcmpFields

\* One reply more is gone: the one that the release takes.
LEMMA AfterNext ==
  ASSUME NEW e, IcmpEntry(e), Reply(e), ~ Strays(e), NEW i \in 0 .. e.count - 1, NEW d, NEW k,
         AfterShape(e, d, i), AfterShape(e, k, i + 1)
  PROVE  NextReply(d, k) /\ d.count # 0 /\ First1(d) = InQueue(e)[i + 1]
<1>1. PICK Q \in Nat \ {0} : Q = ICMP_QSIZ
  BY NetAssumption
<1>2. PICK h, c : h = Wrap(e.head, Q) /\ c = e.count
  OBVIOUS
<1>3. e.head \in 0 .. Q /\ c \in 0 .. Q /\ i \in Nat /\ i < c
  BY <1>1, <1>2 DEF Reply, Ring
<1>4. h \in 0 .. Q - 1
  BY <1>2, <1>3 DEF Wrap
<1>5. PICK a, q : a = Wrap(h + i, Q) /\ q = e.queue
  OBVIOUS
<1>6. /\ a \in 0 .. Q - 1 /\ Off(h, a, Q) = i /\ \A j \in 0 .. Q - 1 : Off(h, j, Q) = i => j = a
  BY <1>3, <1>4, <1>5 DEF Wrap, Off
<1>7. /\ DOMAIN d = IcmpFields /\ d.state = e.state /\ d.pid = e.pid /\ d.tail = e.tail
      /\ d.queue = [j \in 0 .. Q - 1 |-> IF Off(h, j, Q) < i THEN NULL ELSE q[j]]
      /\ d.head = a /\ d.count = c - i
  BY <1>1, <1>2, <1>5 DEF AfterShape
<1>8. /\ DOMAIN k = IcmpFields /\ k.state = e.state /\ k.pid = e.pid /\ k.tail = e.tail
      /\ k.queue = [j \in 0 .. Q - 1 |-> IF Off(h, j, Q) < i + 1 THEN NULL ELSE q[j]]
      /\ k.head = Wrap(h + (i + 1), Q) /\ k.count = c - (i + 1)
  BY <1>1, <1>2, <1>5 DEF AfterShape
<1>9. Wrap(d.head, Q) = a
  BY <1>6, <1>7 DEF Wrap
<1>10. k.queue = Put(d.queue, a, NULL)
  <2>1. \A j \in 0 .. Q - 1 : Off(h, j, Q) \in Int
    BY <1>4 DEF Off
  <2>2. \A j \in 0 .. Q - 1 : Off(h, j, Q) < i + 1 <=> Off(h, j, Q) < i \/ j = a
    BY <1>3, <1>6, <2>1
  <2>3. \A j \in 0 .. Q - 1 : k.queue[j] = Put(d.queue, a, NULL)[j]
    BY <1>6, <1>7, <1>8, <2>2 DEF Put
  <2> QED
    BY <1>7, <1>8, <2>3 DEF Put
<1>11. k.head \in 0 .. Q /\ Wrap(k.head, Q) = Wrap(a + 1, Q)
  <2>1. PICK z \in Nat : z = h + i
    BY <1>3, <1>4
  <2>2. z \in 0 .. 2 * Q - 2 /\ a = Wrap(z, Q) /\ k.head = Wrap(z + 1, Q)
    <3>1. h + (i + 1) = z + 1
      BY <1>3, <1>4, <2>1
    <3> QED
      BY <1>3, <1>4, <1>5, <1>8, <2>1, <3>1
  <2>3. Wrap(z + 1, Q) \in 0 .. Q - 1 /\ Wrap(Wrap(z + 1, Q), Q) = Wrap(Wrap(z, Q) + 1, Q)
    BY <2>2 DEF Wrap
  <2> QED
    BY <2>2, <2>3
<1>12. k.count = d.count - 1 /\ d.count # 0
  BY <1>3, <1>7, <1>8
<1>13. NextReply(d, k)
  BY <1>1, <1>7, <1>8, <1>9, <1>10, <1>11, <1>12 DEF NextReply
<1>14. First1(d) = q[a]
  BY <1>1, <1>3, <1>6, <1>7, <1>9 DEF First1
<1>15. InQueue(e)[i + 1] = q[a]
  <2>1. i + 1 \in 1 .. c
    BY <1>3
  <2>2. PICK S, v : S = ICMP_SLOTS /\ v = e.head
    OBVIOUS
  <2>3. S \in Nat /\ Q <= S /\ v \in 0 .. Q
    BY <1>1, <1>3, <2>2, NetAssumption
  <2>4. \A j \in 1 .. c : Walk(e)[j] = (v + j - 1) % S
    BY <1>2, <2>2 DEF Walk
  <2>5. InQueue(e)[i + 1] = q[(v + i) % S]
    <3>1. InQueue(e)[i + 1] = q[Walk(e)[i + 1]] /\ Walk(e)[i + 1] = (v + (i + 1) - 1) % S
      BY <1>2, <1>5, <2>1, <2>4 DEF InQueue
    <3>2. v + (i + 1) - 1 = v + i
      BY <1>3, <2>3
    <3> QED
      BY <3>1, <3>2
  <2>6. \A j \in 1 .. c : (v + j - 1) % S < Q
    <3> SUFFICES ASSUME NEW j \in 1 .. c PROVE (v + j - 1) % S < Q
      OBVIOUS
    <3>1. ~ ((v + j - 1) % S >= Q)
      BY <1>1, <1>2, <2>4 DEF Strays
    <3>2. PICK z \in Nat : z = v + j - 1
      BY <1>3, <2>3
    <3>3. z % S \in Int
      BY <1>1, <2>3
    <3> QED
      BY <1>1, <3>1, <3>2, <3>3
  <2>7. (v + i) % S = a
    <3>1. CASE S = Q /\ v = Q
      <4>1. h = 0
        BY <1>2, <2>2, <3>1 DEF Wrap
      <4>2. a = i
        BY <1>3, <1>5, <4>1 DEF Wrap
      <4>3. (Q + i) % Q = i
        BY <1>3
      <4> QED
        BY <3>1, <4>2, <4>3
    <3>2. CASE S = Q /\ v < Q
      <4>1. h = v
        BY <1>2, <2>2, <2>3, <3>2 DEF Wrap
      <4>2. (v + i) % Q = Wrap(v + i, Q)
        BY <1>3, <2>3, <3>2 DEF Wrap
      <4> QED
        BY <1>5, <3>2, <4>1, <4>2
    <3>3. CASE Q < S
      <4>1. \A j \in 1 .. c : v + j - 1 < S => v + j - 1 < Q
        <5> SUFFICES ASSUME NEW j \in 1 .. c, v + j - 1 < S PROVE v + j - 1 < Q
          OBVIOUS
        <5>1. PICK z \in Nat : z = v + j - 1
          BY <1>3, <2>3
        <5>2. z < S => z % S = z
          BY <2>3, <3>3
        <5> QED
          BY <2>6, <5>1, <5>2
      <4>2. v < Q
        <5>1. 1 \in 1 .. c /\ v + 1 - 1 = v /\ v < S
          BY <1>3, <2>3, <3>3
        <5> QED
          BY <4>1, <5>1
      <4>3. v + i < Q
        <5> SUFFICES ASSUME v + i >= Q PROVE FALSE
          BY <1>1, <1>3, <2>3
        <5>1. PICK j \in Int : j = Q - v + 1
          BY <2>3, <1>1
        <5>2. j \in 1 .. c /\ v + j - 1 = Q
          BY <1>1, <1>3, <2>3, <4>2, <5>1
        <5> QED
          BY <1>1, <3>3, <4>1, <5>2
      <4>4. h = v /\ a = v + i
        BY <1>2, <1>3, <1>5, <2>2, <2>3, <4>2, <4>3 DEF Wrap
      <4>5. (v + i) % S = v + i
        <5>1. PICK z \in Nat : z = v + i
          BY <1>3, <2>3
        <5> QED
          BY <2>3, <3>3, <4>3, <5>1, <1>1
      <4> QED
        BY <4>4, <4>5
    <3> QED
      BY <1>1, <2>3, <3>1, <3>2, <3>3
  <2> QED
    BY <2>5, <2>7
<1> QED
  BY <1>12, <1>13, <1>14, <1>15

\* At first all replies are there, at the end none.
LEMMA AfterEnds ==
  ASSUME NEW e, IcmpEntry(e), Reply(e), NEW d, NEW k, AfterShape(e, d, 0), AfterShape(e, k, e.count)
  PROVE  /\ e.count \in Nat /\ d.queue = e.queue /\ IcmpEntry(d) /\ Reply(d)
         /\ k.queue = NoReplies
<1>1. PICK Q \in Nat \ {0} : Q = ICMP_QSIZ
  BY NetAssumption
<1>2. PICK h, c, q : h = Wrap(e.head, Q) /\ c = e.count /\ q = e.queue
  OBVIOUS
<1>3. /\ e.head \in 0 .. Q /\ c \in 0 .. Q /\ Ring(q, Q, h, e.tail, c) /\ (e.state = "free" => c = 0)
      /\ q \in [0 .. Q - 1 -> MaybeBuf] /\ e.tail \in 0 .. Q - 1
  BY <1>1, <1>2 DEF Reply, Ring, IcmpEntry
<1>4. h \in 0 .. Q - 1 /\ Wrap(h, Q) = h
  BY <1>2, <1>3 DEF Wrap
<1>5. \A j \in 0 .. Q - 1 : ~ (Off(h, j, Q) < 0)
  BY <1>4 DEF Off
<1>6. d.queue = q
  <2>1. d.queue = [j \in 0 .. Q - 1 |-> IF Off(h, j, Q) < 0 THEN NULL ELSE q[j]]
    BY <1>1, <1>2 DEF AfterShape
  <2>2. \A j \in 0 .. Q - 1 : d.queue[j] = q[j]
    BY <1>5, <2>1
  <2> QED
    BY <1>3, <2>1, <2>2
<1>7. /\ DOMAIN d = IcmpFields /\ d.state = e.state /\ d.tail = e.tail /\ d.head = h /\ d.count = c
  BY <1>1, <1>2, <1>3, <1>4 DEF AfterShape
<1>8. Reply(d)
  BY <1>1, <1>3, <1>4, <1>6, <1>7 DEF Reply
<1>9. IcmpEntry(d)
  BY <1>1, <1>3, <1>4, <1>6, <1>7 DEF IcmpEntry
<1>10. k.queue = NoReplies
  <2>1. k.queue = [j \in 0 .. Q - 1 |-> IF Off(h, j, Q) < c THEN NULL ELSE q[j]]
    BY <1>1, <1>2 DEF AfterShape
  <2>2. \A j \in 0 .. Q - 1 : ~ (Off(h, j, Q) < c) => q[j] = NULL
    BY <1>3 DEF Ring
  <2> QED
    BY <1>1, <2>1, <2>2 DEF NoReplies
<1> QED
  BY <1>2, <1>3, <1>6, <1>8, <1>9, <1>10

\* The first reply is taken out of an endpoint.
LEMMA IcmpGives ==
  ASSUME NEW n, NEW s \in IcmpSlots, NEW P, NEW E, NEW V, NEW I, NEW J, NEW d, NEW b,
         ~ n.bad, ~ n.overtaken, I[s].count # 0, NextReply(I[s], d), b = First1(I[s]), Renewed(I, J, s, d)
  PROVE  Gives(n, P, E, b, V, I, V, J)
<1> SUFFICES ASSUME NEW x, Sound(Slot(x, V, I), P, E), SameTables(n, x)
             PROVE  Sound(Slot(x, V, J), P, E \cup {b}) /\ b \notin E
  BY DEF Gives
<1>1. PICK y, z, G : y = Slot(x, V, I) /\ z = Slot(x, V, J) /\ G = E \cup {b}
  OBVIOUS
<1>2. /\ DOMAIN x = NetFields /\ x.owner = n.owner /\ x.bad = n.bad /\ x.overtaken = n.overtaken
  BY DEF SameTables
<1>3. /\ DOMAIN y = NetFields /\ SamePool(x, y) /\ y.owner = x.owner /\ y.arp = x.arp /\ y.oq = x.oq
      /\ y.udp = V /\ y.icmp = I
      /\ y.evicted = x.evicted /\ y.misdirected = x.misdirected /\ y.bad = x.bad /\ y.overtaken = x.overtaken
  BY <1>1, <1>2, SlotShape
<1>4. /\ DOMAIN z = NetFields /\ SamePool(x, z) /\ z.owner = x.owner /\ z.arp = x.arp /\ z.oq = x.oq
      /\ z.udp = V /\ z.icmp = J
      /\ z.evicted = x.evicted /\ z.misdirected = x.misdirected /\ z.bad = x.bad /\ z.overtaken = x.overtaken
  BY <1>1, <1>2, SlotShape
<1>5. SameBut(y, z) /\ z.owner = y.owner /\ z.arp = y.arp /\ z.udp = y.udp
  BY <1>3, <1>4 DEF SameBut, SamePool
<1>6. /\ y.icmp[s].count # 0 /\ NextReply(y.icmp[s], d) /\ b = First1(y.icmp[s])
      /\ z.icmp = [y.icmp EXCEPT ![s] = d] /\ ~ y.bad /\ ~ y.overtaken /\ Sound(y, P, E)
  BY <1>1, <1>2, <1>3, <1>4 DEF Renewed
<1>7. Sound(z, P, E \cup {b}) /\ b \notin E
  BY <1>5, <1>6, IcmpTaken
<1> QED
  BY <1>1, <1>7

\* Nobody is left that waits at an endpoint that its owner gives up.
LEMMA IcmpCloses ==
  ASSUME NEW p \in Clients, NEW s \in IcmpSlots, NEW P, Alone(P, p), NEW I, NEW J, NEW R, NEW O, NEW O2, NEW d,
         IcmpSide(I, R, O, P), Renewed(I, J, s, d), Blank(d), d.state = "free", DOMAIN O = Clients,
         <<"icmp", s>> \in O[p], Loses(O, O2, p, <<"icmp", s>>)
  PROVE  IcmpSide(J, R, O2, P)
<1>1. IcmpShape(I)
  BY DEF IcmpSide
<1>2. IcmpShape(J) /\ J[s] = d /\ \A t \in IcmpSlots \ {s} : J[t] = I[t]
  BY <1>1, IcmpSet
<1>3. \A q \in Clients : \A u, i : <<u, i>> \in O2[q] <=> <<u, i>> \in O[q] /\ ~ (q = p /\ u = "icmp" /\ i = s)
  BY DEF Loses
<1>4. \A t \in IcmpSlots : J[t].state = "recv" =>
        At(R, P, J[t].pid, "icmp") /\ R[J[t].pid].slot = t /\ ~ R[J[t].pid].msg
  BY <1>2 DEF IcmpSide
<1>5. ASSUME NEW q \in Procs, At(R, P, q, "icmp")
      PROVE  q \in Clients /\ R[q].slot \in IcmpSlots /\ <<"icmp", R[q].slot>> \in O2[q]
  <2>1. q \in Clients /\ R[q].slot \in IcmpSlots /\ <<"icmp", R[q].slot>> \in O[q] /\ q # p
    BY <1>5 DEF IcmpSide, At, Others, Alone
  <2> QED
    BY <1>3, <2>1
<1>6. ASSUME NEW t \in IcmpSlots, J[t].state = "free"
      PROVE  \A q \in Clients : <<"icmp", t>> \notin O2[q]
  <2>1. CASE t = s
    <3>1. \A q \in Clients : <<"icmp", s>> \in O[q] => q = p
      BY DEF IcmpSide
    <3> QED
      BY <1>3, <2>1, <3>1
  <2>2. CASE t # s
    <3>1. \A q \in Clients : <<"icmp", t>> \notin O[q]
      BY <1>2, <1>6, <2>2 DEF IcmpSide
    <3> QED
      BY <1>3, <3>1
  <2> QED
    BY <2>1, <2>2
<1>7. \A t \in IcmpSlots, q \in Clients, r \in Clients : <<"icmp", t>> \in O2[q] /\ <<"icmp", t>> \in O2[r] => q = r
  BY <1>3 DEF IcmpSide
<1> QED
  BY <1>2, <1>4, <1>5, <1>6, <1>7 DEF IcmpSide

\* Two tables of ICMP endpoints that look the same.
LEMMA IcmpSame ==
  ASSUME NEW I, NEW J, NEW R, NEW O, NEW P, IcmpSide(I, R, O, P), DOMAIN J = IcmpSlots,
         \A t \in IcmpSlots : IcmpEntry(J[t]) /\ J[t].state = I[t].state /\ J[t].pid = I[t].pid
  PROVE  IcmpSide(J, R, O, P)
<1>1. IcmpShape(J)
  BY DEF IcmpEntry, IcmpShape
<1> QED
  BY <1>1 DEF IcmpSide

\* J is the table I of ICMP endpoints without the first i replies at s.
IcmpCut(I, J, s, i) == Renewed(I, J, s, After(I[s], i))

\* Only the endpoint at s changes, and it has the rest of the replies.
LEMMA IcmpCutShape ==
  ASSUME NEW I, NEW J, NEW s \in IcmpSlots, NEW i, DOMAIN I = IcmpSlots, IcmpEntry(I[s]), IcmpCut(I, J, s, i)
  PROVE  DOMAIN J = IcmpSlots /\ AfterShape(I[s], J[s], i) /\ \A t \in IcmpSlots \ {s} : J[t] = I[t]
<1>1. PICK d : d = After(I[s], i)
  OBVIOUS
<1>2. AfterShape(I[s], d, i)
  BY <1>1, AfterFields
<1>3. J = [I EXCEPT ![s] = d]
  BY <1>1 DEF IcmpCut, Renewed
<1> QED
  BY <1>2, <1>3

\* One reply more is gone from the table.
LEMMA IcmpCutNext ==
  ASSUME NEW n, NEW P, NEW E, NEW V, NEW I, NEW J, NEW K, NEW s \in IcmpSlots, NEW i \in 0 .. I[s].count - 1, NEW b,
         ~ n.bad, ~ n.overtaken, DOMAIN I = IcmpSlots, IcmpEntry(I[s]), Reply(I[s]), ~ Strays(I[s]),
         IcmpCut(I, J, s, i), IcmpCut(I, K, s, i + 1), b = InQueue(I[s])[i + 1]
  PROVE  Gives(n, P, E, b, V, J, V, K)
<1>1. PICK e, d, k : e = I[s] /\ d = J[s] /\ k = After(e, i + 1)
  OBVIOUS
<1>2. AfterShape(e, d, i) /\ AfterShape(e, k, i + 1)
  BY <1>1, IcmpCutShape, AfterFields
<1>3. NextReply(d, k) /\ d.count # 0 /\ First1(d) = b
  BY <1>1, <1>2, AfterNext
<1>4. Renewed(J, K, s, k)
  BY <1>1 DEF IcmpCut, Renewed
<1> QED
  BY <1>1, <1>3, <1>4, IcmpGives

\* icmp_release when the walk strays behind the queue.
LEMMA IcmpReleaseStrays ==
  ASSUME NetInv, NEW p \in Clients, NEW s \in IcmpSlots, icmp_release(p, s), Strays(net.icmp[s])
  PROVE  NetInv'
<1>1. PICK n, m, P, d : n = net /\ m = net' /\ P = {} /\ d = n.icmp[s]
  OBVIOUS
<1>2. Sound(n, P, P) /\ m = [n EXCEPT !.bad = TRUE]
  BY <1>1 DEF icmp_release, Call, NetInv
<1>3. DOMAIN n = NetFields /\ IcmpShape(n.icmp)
  BY <1>2 DEF Sound, Core, IsNet, IcmpSide
<1>4. IcmpEntry(d)
  BY <1>1, <1>3 DEF IcmpShape, IcmpEntry
<1>5. m.icmp = n.icmp
  BY <1>2, <1>3 DEF NetFields
<1>6. Spoilt(n, m, s, d)
  BY <1>1, <1>2, <1>3, <1>5 DEF Spoilt, NetFields
<1> QED
  BY <1>1, <1>2, <1>4, <1>6, Spoils DEF NetInv

\* icmp_release when all the replies are in the queue: they go back to the pool.
LEMMA IcmpReleaseInside ==
  ASSUME NetInv, NEW p \in Clients, NEW s \in IcmpSlots, icmp_release(p, s), ~ Strays(net.icmp[s])
  PROVE  NetInv'
<1>1. PICK n, m, P, E, q, f : /\ n = net /\ m = net' /\ P = {p} /\ E = {} /\ q = InQueue(net.icmp[s])
                              /\ f = Drained(net, q)
  OBVIOUS
<1>2. PICK d : d = icmp_init[0]
  OBVIOUS
<1>3. /\ Steady(n) /\ n.proc[p].at = "idle" /\ p \in Procs /\ <<"icmp", s>> \in n.owner[p]
      /\ m = [f EXCEPT !.icmp[s] = d, !.owner[p] = @ \ {<<"icmp", s>>}]
  BY <1>1, <1>2 DEF icmp_release, Owns, NetInv, Call, Steady, Procs
<1>4. Sound(n, P, E) /\ Alone(P, p)
  BY <1>1, <1>3, GoesEmpty DEF Alone
<1>5. /\ Core(n, P) /\ IsNet(n) /\ DOMAIN n = NetFields /\ IcmpSide(n.icmp, n.proc, n.owner, P)
      /\ UdpSide(n.udp, n.proc, n.owner, P) /\ IcmpShape(n.icmp) /\ Good(n, P, E)
  BY <1>3, <1>4 DEF Sound, Core, IsNet, IcmpSide, Steady
<1>6. PICK I, e, V : I = n.icmp /\ e = n.icmp[s] /\ V = n.udp
  OBVIOUS
<1>7. /\ DOMAIN I = IcmpSlots /\ e = I[s] /\ IcmpEntry(e) /\ Reply(e) /\ DOMAIN n.owner = Clients
      /\ \A t \in IcmpSlots : IcmpEntry(I[t]) /\ Reply(I[t])
  BY <1>5, <1>6 DEF IcmpShape, IcmpEntry, Good, Replies, IsNet
<1>8. PICK N \in Nat : N = e.count /\ N = Len(q)
  <2>1. e.count \in Nat
    BY <1>7 DEF Reply, Ring
  <2>2. Len(q) = e.count
    BY <1>1, <1>6, <2>1 DEF InQueue
  <2> QED
    BY <2>1, <2>2
<1>9. PICK U, J : /\ U = [i \in 0 .. N |-> V]
                  /\ J = [i \in 0 .. N |-> [I EXCEPT ![s] = After(I[s], i)]]
  OBVIOUS
<1>10. /\ 0 \in 0 .. N /\ N \in 0 .. N
       /\ \A i \in 0 .. N : U[i] = V /\ IcmpCut(I, J[i], s, i)
  BY <1>9 DEF IcmpCut, Renewed
<1>11. AllGive(n, P, E, q, N, U, J)
  <2> SUFFICES ASSUME NEW i \in 0 .. N - 1
               PROVE  Gives(n, P, E, q[i + 1], U[i], J[i], U[i + 1], J[i + 1])
    BY DEF AllGive
  <2>1. PICK A, B, b : A = J[i] /\ B = J[i + 1] /\ b = q[i + 1]
    OBVIOUS
  <2>2. i \in 0 .. N /\ i + 1 \in 0 .. N /\ i \in 0 .. I[s].count - 1
    BY <1>7, <1>8
  <2>3. U[i] = V /\ U[i + 1] = V /\ IcmpCut(I, A, s, i) /\ IcmpCut(I, B, s, i + 1)
    BY <1>10, <2>1, <2>2
  <2>4. b = InQueue(I[s])[i + 1]
    BY <1>1, <1>6, <2>1
  <2>5. Gives(n, P, E, b, V, A, V, B)
    BY <1>1, <1>3, <1>6, <1>7, <2>2, <2>3, <2>4, IcmpCutNext DEF Steady
  <2> QED
    BY <2>1, <2>3, <2>5
<1>12. PICK A, B : A = J[0] /\ B = J[N]
  OBVIOUS
<1>13. IcmpCut(I, A, s, 0) /\ IcmpCut(I, B, s, N) /\ U[0] = V /\ U[N] = V
  BY <1>10, <1>12
<1>14. /\ DOMAIN A = IcmpSlots /\ AfterShape(e, A[s], 0) /\ \A t \in IcmpSlots \ {s} : A[t] = I[t]
  <2>1. DOMAIN I = IcmpSlots /\ IcmpEntry(I[s]) /\ IcmpCut(I, A, s, 0) /\ e = I[s]
    BY <1>7, <1>13
  <2> QED
    BY <2>1, IcmpCutShape
<1>15. /\ DOMAIN B = IcmpSlots /\ AfterShape(e, B[s], e.count) /\ \A t \in IcmpSlots \ {s} : B[t] = I[t]
  <2>1. DOMAIN I = IcmpSlots /\ IcmpEntry(I[s]) /\ IcmpCut(I, B, s, N) /\ e = I[s] /\ N = e.count
    BY <1>7, <1>8, <1>13
  <2> QED
    BY <2>1, IcmpCutShape
<1>16. A[s].queue = e.queue /\ IcmpEntry(A[s]) /\ Reply(A[s]) /\ B[s].queue = NoReplies
  BY <1>7, <1>14, <1>15, AfterEnds
<1>17. Sound(Slot(n, U[0], J[0]), P, E)
  <2>1. PICK y : y = Slot(n, V, A)
    OBVIOUS
  <2>2. \A t \in IcmpSlots : /\ IcmpEntry(A[t]) /\ Reply(A[t]) /\ A[t].state = I[t].state /\ A[t].pid = I[t].pid
                             /\ A[t].queue = I[t].queue
    BY <1>7, <1>14, <1>16 DEF AfterShape
  <2>3. IcmpSide(A, n.proc, n.owner, P)
    BY <1>5, <1>6, <1>14, <2>2, IcmpSame
  <2>4. SameBut(n, y) /\ y.arp = n.arp /\ y.owner = n.owner /\ y.udp = n.udp /\ y.icmp = A
    BY <1>5, <1>6, <2>1, SlotShape DEF SameBut, SamePool
  <2>5. SamePlaces(n, y) /\ Replies(y.icmp)
    BY <1>6, <2>2, <2>4 DEF SamePlaces, SameBut, Replies
  <2>6. Sound(y, P, E)
    BY <1>4, <1>5, <1>7, <2>3, <2>4, <2>5, Registers
  <2> QED
    BY <1>12, <1>13, <2>1, <2>6
<1>18. Amid(n, f, U[N], J[N], P, E, p)
  BY <1>1, <1>3, <1>4, <1>5, <1>8, <1>11, <1>17, Drains
<1>19. PICK y : y = Slot(f, V, B)
  OBVIOUS
<1>20. Sound(y, P, E) /\ SameTables(n, f) /\ f.proc[p] = n.proc[p] /\ DOMAIN f = NetFields
  BY <1>12, <1>13, <1>18, <1>19 DEF Amid, SameTables
<1>21. /\ DOMAIN y = NetFields /\ SamePool(f, y) /\ y.owner = n.owner /\ y.arp = n.arp /\ y.oq = n.oq
       /\ y.udp = n.udp /\ y.icmp = B
       /\ y.evicted = f.evicted /\ y.misdirected = f.misdirected /\ y.bad = f.bad /\ y.overtaken = f.overtaken
  <2>1. /\ DOMAIN y = NetFields /\ SamePool(f, y) /\ y.owner = f.owner /\ y.arp = f.arp /\ y.oq = f.oq
        /\ y.udp = V /\ y.icmp = B
        /\ y.evicted = f.evicted /\ y.misdirected = f.misdirected /\ y.bad = f.bad /\ y.overtaken = f.overtaken
    BY <1>19, <1>20, SlotShape
  <2> QED
    BY <1>6, <1>20, <2>1 DEF SameTables
<1>22. PICK O2, K : O2 = m.owner /\ K = m.icmp
  OBVIOUS
<1>23. /\ SameBut(f, m) /\ m.arp = f.arp /\ m.udp = f.udp /\ K = [f.icmp EXCEPT ![s] = d]
       /\ Loses(f.owner, O2, p, <<"icmp", s>>)
  BY <1>3, <1>20, <1>22 DEF NetFields, SameBut, Loses
<1>24. /\ SameBut(y, m) /\ m.arp = y.arp /\ m.udp = y.udp /\ Loses(n.owner, O2, p, <<"icmp", s>>)
       /\ y.owner = n.owner /\ K = [I EXCEPT ![s] = d]
  BY <1>6, <1>20, <1>21, <1>23 DEF SameBut, SamePool, SameTables
<1>25. Renewed(B, K, s, d)
  <2>1. B = [I EXCEPT ![s] = After(I[s], N)]
    BY <1>13 DEF IcmpCut, Renewed
  <2>2. K = [B EXCEPT ![s] = d]
    BY <1>7, <1>24, <2>1
  <2> QED
    BY <2>2 DEF Renewed
<1>26. Blank(d) /\ d.state = "free"
  <2>1. 0 \in IcmpSlots
    BY NetAssumption DEF IcmpSlots
  <2> QED
    BY <1>2, <2>1 DEF Blank, icmp_init, IcmpFields, NoReplies
<1>27. UdpSide(y.udp, y.proc, n.owner, P) /\ IcmpSide(B, y.proc, n.owner, P)
  BY <1>20, <1>21 DEF Sound, Core
<1>28. IcmpShape(B)
  BY <1>27 DEF IcmpSide
<1>29. /\ \A t \in IcmpSlots : K[t].queue = B[t].queue
       /\ Replies(B) => Replies(K)
  <2>1. K[s] = d /\ \A t \in IcmpSlots \ {s} : K[t] = B[t]
    BY <1>15, <1>25 DEF Renewed
  <2>2. \A t \in IcmpSlots : K[t].queue = B[t].queue
    BY <1>16, <1>26, <2>1 DEF Blank
  <2>3. Replies(B) => Replies(K)
    <3>1. Reply(d)
      BY <1>26, BlankEntry
    <3> QED
      BY <2>1, <3>1 DEF Replies
  <2> QED
    BY <2>2, <2>3
<1>30. IcmpSide(K, y.proc, O2, P)
  BY <1>3, <1>4, <1>7, <1>24, <1>25, <1>26, <1>27, IcmpCloses
<1>31. /\ DOMAIN O2 = Clients
       /\ \A i \in Clients : \A u, k : <<u, k>> \in O2[i] <=> <<u, k>> \in n.owner[i] /\ ~ (i = p /\ u = "icmp" /\ k = s)
  <2>1. PICK O : O = n.owner
    OBVIOUS
  <2>2. DOMAIN O = Clients /\ Loses(O, O2, p, <<"icmp", s>>)
    BY <1>7, <1>24, <2>1
  <2> QED
    BY <2>1, <2>2 DEF Loses
<1>32. UdpSide(m.udp, y.proc, O2, P)
  <2>1. OwnsSame("udp", n.owner, O2)
    BY <1>31 DEF OwnsSame
  <2> QED
    BY <1>24, <1>27, <2>1, UdpOwners
<1>33. SamePlaces(y, m)
  BY <1>21, <1>22, <1>24, <1>29 DEF SamePlaces, SameBut
<1>34. Good(y, P, E) => Replies(m.icmp)
  BY <1>21, <1>22, <1>29 DEF Good
<1>35. DOMAIN m.owner = Clients
  BY <1>22, <1>31
<1>36. Sound(m, P, E)
  BY <1>20, <1>22, <1>24, <1>30, <1>32, <1>33, <1>34, <1>35, Registers
<1>37. m.proc[p] = n.proc[p]
  BY <1>20, <1>23 DEF SameBut
<1>38. Sound(m, E, E)
  BY <1>1, <1>3, <1>4, <1>36, <1>37, Idles
<1> QED
  BY <1>1, <1>38 DEF NetInv

\* icmp_release.
LEMMA IcmpReleaseKeeps ==
  ASSUME NetInv, NEW p \in Clients, NEW s \in IcmpSlots, icmp_release(p, s)
  PROVE  NetInv'
BY IcmpReleaseStrays, IcmpReleaseInside

-----------------------------------------------------------------------------
(* The invariant holds.                                                     *)

\* The state in which the network starts.
IsStart(n) ==
  /\ DOMAIN n = NetFields /\ n.free = Bufs /\ n.waiting = << >> /\ DOMAIN n.pkt = Bufs
  /\ n.arp = arp_init /\ n.udp = udp_init /\ n.icmp = icmp_init
  /\ DOMAIN n.oq = OqFields /\ n.oq.buf = [i \in 0 .. IP_OQSIZ - 1 |-> NULL]
  /\ n.oq.head = 0 /\ n.oq.tail = 0 /\ n.oq.sem = 0
  /\ n.proc = [p \in Procs |-> Home(p)] /\ n.owner = [p \in Clients |-> {}]
  /\ ~ n.evicted /\ ~ n.misdirected /\ ~ n.bad /\ ~ n.overtaken
  /\ n.evicted \in BOOLEAN /\ n.misdirected \in BOOLEAN /\ n.bad \in BOOLEAN /\ n.overtaken \in BOOLEAN

\* At the start all buffers are free and nobody waits.
LEMMA Starts ==
  ASSUME NEW n, IsStart(n), NEW E, E = {}
  PROVE  Sound(n, E, E)
<1>1. PICK R, A, U, I, Q, O : R = n.proc /\ A = n.arp /\ U = n.udp /\ I = n.icmp /\ Q = n.oq /\ O = n.owner
  OBVIOUS
<1>2. /\ DOMAIN R = Procs
      /\ \A p \in Procs : /\ DOMAIN R[p] = ProcFields /\ R[p].at \in {"getbuf", "wait", "idle"}
                          /\ R[p].buf = NULL /\ R[p].got = NULL /\ R[p].msg = FALSE
  <2>1. DOMAIN R = Procs /\ \A p \in Procs : R[p] = Home(p)
    BY <1>1 DEF IsStart
  <2> QED
    BY <2>1, HomeShape
<1>3. IsNet(n)
  BY DEF IsStart, IsNet, NetFields
<1>4. IsQueue(Q)
  <2>1. 0 \in 0 .. IP_OQSIZ - 1 /\ 0 \in Int
    BY NetAssumption
  <2>2. Q.buf \in [0 .. IP_OQSIZ - 1 -> MaybeBuf]
    BY <1>1 DEF IsStart, MaybeBuf
  <2> QED
    BY <1>1, <2>1, <2>2 DEF IsStart, IsQueue
<1>5. Held(R, E)
  BY <1>2, NetAssumption DEF Held, Holds, Holding, Wanting, Others, MaybeBuf
<1>6. Waiters(n.waiting, R, E)
  <2>1. n.waiting = << >>
    BY DEF IsStart
  <2>2. NoRepeats(<< >>) /\ \A q : q \notin Members(<< >>)
    BY DEF NoRepeats, Members
  <2>3. \A q \in Procs : ~ Wants(R, E, q)
    BY <1>2 DEF Wants, Wanting
  <2> QED
    BY <2>1, <2>2, <2>3 DEF Waiters
<1>7. \A q \in Procs : ~ At(R, E, q, "udp") /\ ~ At(R, E, q, "icmp") /\ ~ At(R, E, q, "arp")
  BY <1>2 DEF At
<1>8. \A q \in Clients : O[q] = {}
  BY <1>1 DEF IsStart
<1>9. UdpSide(U, R, O, E)
  <2>1. /\ DOMAIN U = UdpSlots
        /\ \A s \in UdpSlots : DOMAIN U[s] = UdpFields /\ U[s].queue = << >> /\ U[s].state = "free"
    BY <1>1 DEF IsStart, udp_init, UdpFields
  <2>2. << >> \in Seq(Bufs)
    OBVIOUS
  <2>3. UdpShape(U)
    BY <2>1, <2>2 DEF UdpShape
  <2> QED
    BY <1>7, <1>8, <2>1, <2>3 DEF UdpSide
<1>10. DOMAIN I = IcmpSlots /\ \A s \in IcmpSlots : Blank(I[s]) /\ I[s].state = "free"
  <2>1. DOMAIN I = IcmpSlots
    BY <1>1 DEF IsStart, icmp_init
  <2>2. ASSUME NEW s \in IcmpSlots
        PROVE  Blank(I[s]) /\ I[s].state = "free"
    <3>1. I[s] = [state |-> "free", remip |-> NULL, queue |-> NoReplies,
                  head |-> 0, tail |-> 0, count |-> 0, pid |-> NULL]
      BY <1>1 DEF IsStart, icmp_init, NoReplies
    <3> QED
      BY <3>1 DEF Blank, IcmpFields
  <2> QED
    BY <2>1, <2>2
<1>11. \A s \in IcmpSlots : Reply(I[s]) /\ IcmpEntry(I[s])
  BY <1>10, BlankEntry
<1>12. IcmpSide(I, R, O, E)
  <2>1. IcmpShape(I)
    BY <1>10, <1>11 DEF IcmpShape, IcmpEntry
  <2> QED
    BY <1>7, <1>8, <1>10, <2>1 DEF IcmpSide
<1>13. ArpSide(A, R, E)
  <2>1. DOMAIN A = ArpSlots /\ \A s \in ArpSlots : DOMAIN A[s] = ArpFields /\ A[s].state = "free"
    BY <1>1 DEF IsStart, arp_init, NoEntry, ArpFields
  <2> QED
    BY <1>7, <2>1 DEF ArpSide
<1>14. Core(n, E)
  <2>1. ~ n.misdirected
    BY DEF IsStart
  <2> QED
    BY <1>1, <1>3, <1>4, <1>5, <1>6, <1>9, <1>12, <1>13, <2>1 DEF Core
<1>15. Output(Q, R, E)
  <2>1. PICK N \in Nat \ {0} : N = IP_OQSIZ
    BY NetAssumption
  <2>2. ~ At(R, E, "ipout", "take") /\ ~ At(R, E, "ipout", "blocked")
    BY <1>2 DEF At, Others, Procs
  <2>3. Q.sem = 0 /\ Q.head = 0 /\ Q.tail = 0 /\ \A j \in 0 .. N - 1 : Q.buf[j] = NULL
    BY <1>1, <2>1 DEF IsStart
  <2>4. Ring(Q.buf, N, 0, 0, 0)
    BY <2>3 DEF Ring, Wrap, Off
  <2>5. InOq(Q, R, E) = 0
    BY <2>2, <2>3 DEF InOq
  <2>6. 0 \in -1 .. N /\ 0 # -1
    OBVIOUS
  <2> QED
    BY <2>1, <2>2, <2>3, <2>4, <2>5, <2>6 DEF Output
<1>16. Replies(I) /\ Routes(A, R, n.pkt, n.evicted, E)
  BY <1>7, <1>11 DEF Replies, Routes
<1>17. Sited(n, E, E)
  <2>1. Distinct(n)
    <3>1. NoRepeats(<< >>)
      BY DEF NoRepeats
    <3>2. \A s \in UdpSlots : n.udp[s].queue = << >>
      BY DEF IsStart, udp_init
    <3>3. \A s \in IcmpSlots : \A i \in 0 .. ICMP_QSIZ - 1 : n.icmp[s].queue[i] = NULL
      <4>1. \A s \in IcmpSlots : n.icmp[s].queue = NoReplies
        BY <1>1, <1>10 DEF Blank
      <4>2. \A i \in 0 .. ICMP_QSIZ - 1 : NoReplies[i] = NULL
        BY DEF NoReplies
      <4> QED
        BY <4>1, <4>2
    <3>4. \A i \in 0 .. IP_OQSIZ - 1 : n.oq.buf[i] = NULL
      BY DEF IsStart
    <3> QED
      BY <3>1, <3>2, <3>3, <3>4 DEF Distinct, Injective
  <2>2. ASSUME NEW b \in Bufs
        PROVE  OnlyAt(n, E, E, b, "free", 0)
    <3>1. b # NULL
      BY NetAssumption
    <3>2. \A l, r : AtPool(n.free, E, b, l, r) <=> l = "free" /\ r = 0
      BY DEF AtPool, IsStart
    <3>3. \A l, r : ~ AtProc(R, E, b, l, r)
      BY <1>2, <3>1 DEF AtProc, Others
    <3>4. \A l, r : ~ AtUdp(U, b, l, r)
      BY <1>1 DEF AtUdp, IsStart, udp_init, Members
    <3>5. \A l, r : ~ AtIcmp(I, b, l, r)
      BY <1>10, <3>1 DEF AtIcmp, Blank, NoReplies
    <3>6. \A l, r : ~ AtOut(Q, b, l, r)
      BY <1>1, <3>1 DEF AtOut, IsStart
    <3> QED
      BY <1>1, <3>2, <3>3, <3>4, <3>5, <3>6 DEF OnlyAt, IsAt
  <2> QED
    BY <2>1, <2>2 DEF Sited
<1> QED
  BY <1>1, <1>14, <1>15, <1>16, <1>17 DEF Sound, Good

\* The invariant holds at the start.
LEMMA InitKeeps ==
  ASSUME Init
  PROVE  NetInv
<1>1. PICK n, E : n = net /\ E = {}
  OBVIOUS
<1>2. IsStart(n)
  <2>1. PICK v, F, T, A, U, I, R, O :
          /\ n = [free |-> F, waiting |-> <<>>, pkt |-> T, arp |-> A, udp |-> U, icmp |-> I,
                  oq |-> [buf |-> [i \in 0 .. IP_OQSIZ - 1 |-> NULL], head |-> 0, tail |-> 0, sem |-> 0],
                  proc |-> R, owner |-> O, valid |-> v, arrived |-> 0,
                  evicted |-> FALSE, misdirected |-> FALSE, bad |-> FALSE, overtaken |-> FALSE]
          /\ F = Bufs /\ T = [b \in Bufs |-> NULL] /\ A = arp_init /\ U = udp_init /\ I = icmp_init
          /\ R = [p \in Procs |-> Home(p)] /\ O = [p \in Clients |-> {}]
    BY <1>1 DEF Init, net_init
  <2>2. /\ DOMAIN n = NetFields /\ n.free = F /\ n.waiting = <<>> /\ n.pkt = T /\ n.arp = A /\ n.udp = U /\ n.icmp = I
        /\ n.proc = R /\ n.owner = O
        /\ n.evicted = FALSE /\ n.misdirected = FALSE /\ n.bad = FALSE /\ n.overtaken = FALSE
    BY <2>1 DEF NetFields
  <2>3. n.oq = [buf |-> [i \in 0 .. IP_OQSIZ - 1 |-> NULL], head |-> 0, tail |-> 0, sem |-> 0]
    BY <2>1
  <2>4. /\ DOMAIN n.oq = OqFields /\ n.oq.buf = [i \in 0 .. IP_OQSIZ - 1 |-> NULL]
        /\ n.oq.head = 0 /\ n.oq.tail = 0 /\ n.oq.sem = 0
    BY <2>3 DEF OqFields
  <2>5. DOMAIN n.pkt = Bufs
    BY <2>1, <2>2
  <2> QED
    BY <2>1, <2>2, <2>4, <2>5 DEF IsStart
<1>3. Sound(n, E, E)
  BY <1>1, <1>2, Starts
<1> QED
  BY <1>1, <1>3 DEF NetInv

\* Every step keeps the invariant.
LEMMA NextKeeps ==
  ASSUME NetInv, [Next]_vars
  PROVE  NetInv'
<1>1. CASE UNCHANGED vars
  BY <1>1 DEF vars, NetInv
<1>2. CASE GetBuf
  BY <1>2, GetBufKeeps
<1>3. CASE HasBuf
  BY <1>3, HasBufKeeps
<1>4. CASE ArpArrives
  BY <1>4, ArpArrivesKeeps
<1>5. CASE IpArrives
  BY <1>5, IpArrivesKeeps
<1>6. CASE OtherArrives
  BY <1>6, OtherArrivesKeeps
<1>7. CASE Waits
  BY <1>7, WaitsKeeps
<1>8. CASE ipout
  BY <1>8, IpoutKeeps
<1>9. ASSUME NEW p \in Procs, Resolved(p) \/ TriesAgain(p) \/ Unresolved(p) \/ Echoes(p) \/ Timeout(p)
      PROVE  NetInv'
  BY <1>9, ResolvedKeeps, TriesAgainKeeps, UnresolvedKeeps, EchoesKeeps, TimeoutKeeps
<1>10. ASSUME NEW p \in Clients, Received(p) \/ IcmpReceived(p) \/ SendsNow(p)
       PROVE  NetInv'
  BY <1>10, ReceivedKeeps, IcmpReceivedKeeps, SendsNowKeeps
<1>11. ASSUME NEW p \in Clients, NEW key \in Endpoint, udp_register(p, key)
       PROVE  NetInv'
  BY <1>11, UdpRegisterKeeps
<1>12. ASSUME NEW p \in Clients, NEW s \in UdpSlots, udp_recv(p, s) \/ udp_release(p, s)
       PROVE  NetInv'
  BY <1>12, UdpRecvKeeps, UdpReleaseKeeps
<1>13. ASSUME NEW p \in Clients, NEW s \in UdpSlots, udp_send(p, s)
       PROVE  NetInv'
  BY <1>13, SendsKeeps DEF udp_send
<1>14. ASSUME NEW p \in Clients, NEW s \in UdpSlots, NEW ip \in Dests, udp_sendto(p, s, ip)
       PROVE  NetInv'
  BY <1>14, SendsKeeps DEF udp_sendto
<1>15. ASSUME NEW p \in Clients, NEW ip \in Pings, icmp_register(p, ip)
       PROVE  NetInv'
  BY <1>15, IcmpRegisterKeeps
<1>16. ASSUME NEW p \in Clients, NEW s \in IcmpSlots, icmp_recv(p, s) \/ icmp_release(p, s)
       PROVE  NetInv'
  BY <1>16, IcmpRecvKeeps, IcmpReleaseKeeps
<1>17. ASSUME NEW p \in Clients, NEW s \in IcmpSlots, icmp_send(p, s)
       PROVE  NetInv'
  BY <1>17, SendsKeeps DEF icmp_send
<1> QED
  BY <1>1, <1>2, <1>3, <1>4, <1>5, <1>6, <1>7, <1>8, <1>9, <1>10, <1>11, <1>12, <1>13, <1>14, <1>15, <1>16, <1>17
     DEF Next

\* The invariant is one.
LEMMA Invariant == Spec => []NetInv
<1>1. Init => NetInv
  BY InitKeeps
<1>2. NetInv /\ [Next]_vars => NetInv'
  BY NextKeeps
<1> QED
  BY <1>1, <1>2, PTL DEF Spec

-----------------------------------------------------------------------------
(* What it says.                                                            *)

\* A buffer that is in one place has one of the places that BuffersOnce counts.
LEMMA OnePlace ==
  ASSUME NEW E, E = {}, Sited(net, E, E), Core(net, E), NEW b \in Bufs
  PROVE  Cardinality(Places(b)) = 1
<1>1. PICK n, F, R, U, I, Q : n = net /\ F = n.free /\ R = n.proc /\ U = n.udp /\ I = n.icmp /\ Q = n.oq
  OBVIOUS
<1>2. PICK k, q : OnlyAt(n, E, E, b, k, q)
  BY <1>1 DEF Sited
<1>3. \A l, r : AtPool(F, E, b, l, r) \/ AtProc(R, E, b, l, r) \/ AtUdp(U, b, l, r) \/ AtIcmp(I, b, l, r) \/ AtOut(Q, b, l, r)
               <=> l = k /\ r = q
  BY <1>1, <1>2 DEF OnlyAt, IsAt
<1>4. Distinct(n) /\ UdpShape(U)
  BY <1>1 DEF Sited, Core, UdpSide
<1> DEFINE
      A == {<<"free">> : x \in net.free \cap {b}}
      B == {<<"process", p>> : p \in {z \in Procs : b \in {net.proc[z].buf, net.proc[z].got}}}
      C == UNION {{<<"udp", s, i>> : i \in {j \in DOMAIN net.udp[s].queue : net.udp[s].queue[j] = b}} : s \in UdpSlots}
      D == UNION {{<<"icmp", s, i>> : i \in {j \in 0 .. ICMP_QSIZ - 1 : net.icmp[s].queue[j] = b}} : s \in IcmpSlots}
      O == {<<"output", i>> : i \in {j \in 0 .. IP_OQSIZ - 1 : net.oq.buf[j] = b}}
<1>6. Places(b) = A \cup B \cup C \cup D \cup O
  BY DEF Places
<1>7. \A x : x \in A <=> x = <<"free">> /\ b \in F
  BY <1>1
<1>8. \A x : x \in B <=> \E p \in Procs : x = <<"process", p>> /\ (R[p].buf = b \/ R[p].got = b)
  BY <1>1
<1>9. \A x : x \in C <=> \E s \in UdpSlots : \E i \in DOMAIN U[s].queue : x = <<"udp", s, i>> /\ U[s].queue[i] = b
  BY <1>1
<1>10. \A x : x \in D <=> \E s \in IcmpSlots, i \in 0 .. ICMP_QSIZ - 1 : x = <<"icmp", s, i>> /\ I[s].queue[i] = b
  BY <1>1
<1>11. \A x : x \in O <=> \E i \in 0 .. IP_OQSIZ - 1 : x = <<"output", i>> /\ Q.buf[i] = b
  BY <1>1
<1> HIDE DEF A, B, C, D, O
<1>12. \A s \in UdpSlots : b \in Members(U[s].queue) <=> \E i \in DOMAIN U[s].queue : U[s].queue[i] = b
  BY <1>4 DEF UdpShape, Members
<1>13. b # NULL
  BY NetAssumption
<1>14. b \in F => k = "free"
  BY <1>3 DEF AtPool
<1>15. \A p \in Procs : R[p].buf = b \/ R[p].got = b => k \in {"buf", "got"} /\ q = p
  <2>1. \A p \in Procs : (R[p].buf = b => AtProc(R, E, b, "buf", p)) /\ (R[p].got = b => AtProc(R, E, b, "got", p))
    BY DEF AtProc, Others
  <2> QED
    BY <1>3, <2>1
<1>16. \A s \in UdpSlots : \A i \in DOMAIN U[s].queue : U[s].queue[i] = b => k = "udp" /\ q = s
  BY <1>3, <1>12 DEF AtUdp
<1>17. \A s \in IcmpSlots, i \in 0 .. ICMP_QSIZ - 1 : I[s].queue[i] = b => k = "icmp" /\ q = s
  BY <1>3 DEF AtIcmp
<1>18. \A i \in 0 .. IP_OQSIZ - 1 : Q.buf[i] = b => k = "out"
  BY <1>3 DEF AtOut
<1>19. \/ k = "free" /\ b \in F
       \/ k \in {"buf", "got"} /\ q \in Procs /\ (R[q].buf = b \/ R[q].got = b)
       \/ k = "udp" /\ q \in UdpSlots /\ b \in Members(U[q].queue)
       \/ k = "icmp" /\ q \in IcmpSlots /\ \E i \in 0 .. ICMP_QSIZ - 1 : I[q].queue[i] = b
       \/ k = "out" /\ \E i \in 0 .. IP_OQSIZ - 1 : Q.buf[i] = b
  BY <1>3 DEF AtPool, AtProc, AtUdp, AtIcmp, AtOut, Others
<1>20. \E x : Places(b) = {x}
  <2>1. CASE k = "free" /\ b \in F
    <3>1. A = {<<"free">>} /\ B = {} /\ C = {} /\ D = {} /\ O = {}
      BY <1>7, <1>8, <1>9, <1>10, <1>11, <1>15, <1>16, <1>17, <1>18, <2>1
    <3> QED
      BY <1>6, <3>1
  <2>2. CASE k \in {"buf", "got"} /\ q \in Procs /\ (R[q].buf = b \/ R[q].got = b)
    <3>1. A = {} /\ B = {<<"process", q>>} /\ C = {} /\ D = {} /\ O = {}
      BY <1>7, <1>8, <1>9, <1>10, <1>11, <1>14, <1>15, <1>16, <1>17, <1>18, <2>2
    <3> QED
      BY <1>6, <3>1
  <2>3. CASE k = "udp" /\ q \in UdpSlots /\ b \in Members(U[q].queue)
    <3>1. PICK i \in DOMAIN U[q].queue : U[q].queue[i] = b
      BY <1>12, <2>3
    <3>2. \A j \in DOMAIN U[q].queue : U[q].queue[j] = b => j = i
      BY <1>1, <1>4, <2>3, <3>1 DEF Distinct, NoRepeats, UdpShape
    <3>3. C = {<<"udp", q, i>>}
      <4>1. \A x \in C : x = <<"udp", q, i>>
        BY <1>9, <1>16, <3>2
      <4>2. <<"udp", q, i>> \in C
        BY <1>9, <2>3, <3>1
      <4> QED
        BY <4>1, <4>2
    <3>4. A = {} /\ B = {} /\ D = {} /\ O = {}
      BY <1>7, <1>8, <1>10, <1>11, <1>14, <1>15, <1>17, <1>18, <2>3
    <3> QED
      BY <1>6, <3>3, <3>4
  <2>4. CASE k = "icmp" /\ q \in IcmpSlots /\ \E i \in 0 .. ICMP_QSIZ - 1 : I[q].queue[i] = b
    <3>1. PICK i \in 0 .. ICMP_QSIZ - 1 : I[q].queue[i] = b
      BY <2>4
    <3>2. \A j \in 0 .. ICMP_QSIZ - 1 : I[q].queue[j] = b => j = i
      BY <1>1, <1>4, <1>13, <2>4, <3>1 DEF Distinct, Injective
    <3>3. D = {<<"icmp", q, i>>}
      <4>1. \A x \in D : x = <<"icmp", q, i>>
        BY <1>10, <1>17, <3>2
      <4>2. <<"icmp", q, i>> \in D
        BY <1>10, <2>4, <3>1
      <4> QED
        BY <4>1, <4>2
    <3>4. A = {} /\ B = {} /\ C = {} /\ O = {}
      BY <1>7, <1>8, <1>9, <1>11, <1>14, <1>15, <1>16, <1>18, <2>4
    <3> QED
      BY <1>6, <3>3, <3>4
  <2>5. CASE k = "out" /\ \E i \in 0 .. IP_OQSIZ - 1 : Q.buf[i] = b
    <3>1. PICK i \in 0 .. IP_OQSIZ - 1 : Q.buf[i] = b
      BY <2>5
    <3>2. \A j \in 0 .. IP_OQSIZ - 1 : Q.buf[j] = b => j = i
      BY <1>1, <1>4, <1>13, <3>1 DEF Distinct, Injective
    <3>3. O = {<<"output", i>>}
      <4>1. \A x \in O : x = <<"output", i>>
        BY <1>11, <3>2
      <4>2. <<"output", i>> \in O
        BY <1>11, <3>1
      <4> QED
        BY <4>1, <4>2
    <3>4. A = {} /\ B = {} /\ C = {} /\ D = {}
      BY <1>7, <1>8, <1>9, <1>10, <1>14, <1>15, <1>16, <1>17, <2>5
    <3> QED
      BY <1>6, <3>3, <3>4
  <2> QED
    BY <1>19, <2>1, <2>2, <2>3, <2>4, <2>5
<1> QED
  BY <1>20, FS_Singleton

\* For every number of buffers, clients, endpoints and slots, every packet that
\* may arrive and every order of the handlers and the calls: a buffer of the pool
\* is in one place, once, until a reply is stored into a full ICMP queue, one is
\* taken or freed behind the end of such a queue, or the output queue is filled
\* between the wait of ipout and its taking.  With ICMP_SLOTS = ICMP_QSIZ the
\* second never happens; with the 10 and the 8 of icmp.h the theorem speaks of
\* the first eight replies of each endpoint.
THEOREM BuffersAreOnce == Spec => []BuffersOnce
<1>1. NetInv => BuffersOnce
  BY OnePlace DEF NetInv, Sound, Good, BuffersOnce
<1> QED
  BY <1>1, Invariant, PTL

\* A packet leaves with the Ethernet address of its next hop, unless the entry
\* of the cache was reused between the answer and the process that asked for it.
THEOREM PacketsLeaveToNextHop == Spec => []ToNextHop
<1>1. NetInv => ToNextHop
  BY DEF NetInv, Sound, Core, ToNextHop
<1> QED
  BY <1>1, Invariant, PTL

\* A process that waits in udp_recv without a message has an empty queue, and
\* the endpoint has its name for the next packet.
THEOREM NobodySleepsOverPacket == Spec => []NoSleepOverPacket
<1>1. NetInv => NoSleepOverPacket
  <2> SUFFICES ASSUME NetInv, NEW p \in Procs, net.proc[p].at = "udp", ~ net.proc[p].msg
               PROVE  LET e == net.udp[net.proc[p].slot] IN e.queue = << >> /\ e.state = "recv" /\ e.pid = p
    BY DEF NoSleepOverPacket
  <2>1. PICK E : E = {}
    OBVIOUS
  <2>2. UdpSide(net.udp, net.proc, net.owner, E) /\ At(net.proc, E, p, "udp")
    BY <2>1 DEF NetInv, Sound, Core, At, Others
  <2>3. UdpWaits(net.udp, net.proc, net.owner, E, p)
    BY <2>2 DEF UdpSide
  <2> QED
    BY <2>2, <2>3 DEF UdpWaits, UdpSide
<1> QED
  BY <1>1, Invariant, PTL

\* An entry of the ARP cache that is pending has the process that asked for it,
\* which waits there: nobody else may wait for that address.
THEOREM PendingEntriesHaveWaiter == Spec => []PendingHasWaiter
<1>1. NetInv => PendingHasWaiter
  <2> SUFFICES ASSUME NetInv, NEW s \in ArpSlots, net.arp[s].state = "pending"
               PROVE  LET r == net.proc[net.arp[s].pid] IN r.at = "arp" /\ r.slot = s /\ ~ r.msg
    BY DEF PendingHasWaiter
  <2>1. PICK E : E = {}
    OBVIOUS
  <2>2. ArpSide(net.arp, net.proc, E)
    BY <2>1 DEF NetInv, Sound, Core
  <2> QED
    BY <2>2 DEF ArpSide, At
<1> QED
  BY <1>1, Invariant, PTL
=============================================================================
