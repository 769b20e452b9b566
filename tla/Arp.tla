---- MODULE Arp ----
(***************************************************************************)
(* The ARP cache (net/arp.c).                                              *)
(***************************************************************************)
EXTENDS NetBase

ArpSlots == 0 .. ARP_SIZ - 1
NoEntry == [state |-> "free", addr |-> NULL, hw |-> NULL, pid |-> NULL]
arp_init == [s \in ArpSlots |-> NoEntry]

\* The first entry of the cache for the address: at most one, in truth.
Cached_Any(n, ip) == {s \in ArpSlots : n.arp[s].state # "free"}
Cached(n, ip) == {s \in ArpSlots : n.arp[s].state # "free" /\ n.arp[s].addr = ip}
First(slots) == CHOOSE s \in slots : \A t \in slots : s <= t
InState(n, st) == {s \in ArpSlots : n.arp[s].state = st}

\* A free entry or else a resolved one, whoever has yet to read it.
arp_alloc(n) == IF InState(n, "free") # {} THEN InState(n, "free") ELSE InState(n, "resolved")

\* The process whose answer is thrown away has not read it.
Unread(n, s) == \E p \in Procs : n.proc[p].at = "arp" /\ n.proc[p].slot = s
NewEntry(n, s, e) == [n EXCEPT !.arp[s] = e, !.evicted = @ \/ Unread(n, s)]

(***************************************************************************)
(* arp_resolve: process p sends the packet in b to hop.                    *)
(***************************************************************************)
arp_resolve(n, p, b, hop) ==
    IF Cached(n, hop) # {}
    THEN LET e == n.arp[First(Cached(n, hop))] IN
         IF e.state = "resolved" THEN ip_out(n, p, b, hop, e.hw) ELSE Done(freebuf(n, b), p)
    ELSE IF arp_alloc(n) = {} THEN Done(freebuf(n, b), p)
    ELSE LET s == First(arp_alloc(n)) IN
         Receives(NewEntry(n, s, [state |-> "pending", addr |-> hop, hw |-> NULL, pid |-> p]),
                  p, "arp", s, b, 1)

\* Back from recvtime.  The entry is read without another look at its state.
Resolved(p) == LET r == net.proc[p] IN
    /\ Ready(p, "arp") /\ r.msg
    /\ Step(ip_out(net, p, r.buf, NextHop(net.pkt[r.buf].dst), net.arp[r.slot].hw))

TriesAgain(p) == LET r == net.proc[p] IN
    /\ Ready(p, "arp") /\ ~r.msg /\ r.tries < ARP_RETRY
    /\ Step(Receives(net, p, "arp", r.slot, r.buf, r.tries + 1))

Invalidated_Not(n, s) == n
Invalidated(n, s) == [n EXCEPT !.arp[s].state = "free"]
Unresolved(p) == LET r == net.proc[p] IN
    /\ Ready(p, "arp") /\ ~r.msg /\ r.tries = ARP_RETRY
    /\ Step(Done(freebuf(Invalidated(net, r.slot), r.buf), p))

(***************************************************************************)
(* arp_in: an ARP packet from the host a.from with Ethernet address a.hw.  *)
(***************************************************************************)
Learn(n, a) ==
    IF Cached(n, a.from) = {} THEN n
    ELSE LET s == First(Cached(n, a.from))
             m == [n EXCEPT !.arp[s].hw = a.hw]
         IN IF n.arp[s].state = "pending" THEN send([m EXCEPT !.arp[s].state = "resolved"], n.arp[s].pid) ELSE m
\* A request for this host's address adds the sender and is answered.
Adds(n, a) == n.valid /\ a.op = "request" /\ a.target = ME /\ Cached(n, a.from) = {}
arp_in(n, a) ==
    IF Adds(n, a) /\ arp_alloc(n) # {}
    THEN NewEntry(n, First(arp_alloc(n)), [state |-> "resolved", addr |-> a.from, hw |-> a.hw, pid |-> NULL])
    ELSE Learn(n, a)
====
