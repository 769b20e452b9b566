---- MODULE Endpoints ----
(***************************************************************************)
(* The tables of UDP endpoints (net/udp.c) and of ICMP endpoints           *)
(* (net/icmp.c): who may receive what, and the queue of packets of each.   *)
(***************************************************************************)
EXTENDS Arp
CONSTANTS Endpoint              \* what udp_register may be asked for: [remip, remport, locport]

\* A client uses the endpoints that it registered.
Owns(p, table, s) == <<table, s>> \in net.owner[p]

(***************************************************************************)
(* UDP.                                                                    *)
(***************************************************************************)
UdpSlots == 0 .. UDP_SLOTS - 1
udp_init == [s \in UdpSlots |-> [state |-> "free", key |-> NULL, queue |-> <<>>, pid |-> NULL]]

Matches(key, k) == /\ k.dport = key.locport
                   /\ key.remport \in {0, k.sport}
                   /\ key.remip \in {NULL, k.src}
\* A full queue passes the packet on to the next endpoint that it matches.
Receiver(n, k) == {s \in UdpSlots : /\ n.udp[s].state # "free" /\ Matches(n.udp[s].key, k)
                                    /\ Len(n.udp[s].queue) < UDP_QSIZ}
Wakes_Not(n, s) == n
Wakes(n, s) == IF n.udp[s].state = "recv" THEN send([n EXCEPT !.udp[s].state = "used"], n.udp[s].pid) ELSE n
udp_in(n, b) ==
    IF Receiver(n, n.pkt[b]) = {} THEN freebuf(n, b)
    ELSE LET s == First(Receiver(n, n.pkt[b])) IN Wakes([n EXCEPT !.udp[s].queue = Append(@, b)], s)

udp_register(p, key) ==
    LET unused == {s \in UdpSlots : net.udp[s].state = "free"} IN
    /\ \A s \in UdpSlots \ unused : net.udp[s].key # key
    /\ unused # {}
    /\ Call(p, [net EXCEPT !.udp[First(unused)] = [state |-> "used", key |-> key, queue |-> <<>>, pid |-> NULL],
                          !.owner[p] = @ \cup {<<"udp", First(unused)>>}])

Dequeued(n, p, s) == Done([freebuf(n, Head(n.udp[s].queue)) EXCEPT !.udp[s].queue = Tail(@)], p)

\* udp_recv and udp_recvaddr.
udp_recv(p, s) ==
    /\ Owns(p, "udp", s) /\ net.udp[s].state = "used"
    /\ Call(p, IF net.udp[s].queue # <<>> THEN Dequeued(net, p, s)
              ELSE Receives([net EXCEPT !.udp[s].state = "recv", !.udp[s].pid = p], p, "udp", s, NULL, 0))
Received(p) == LET s == net.proc[p].slot
                   m == [net EXCEPT !.udp[s].state = "used"]
               IN /\ Ready(p, "udp")
                  /\ Step(IF net.proc[p].msg THEN Dequeued(m, p, s) ELSE Done(m, p))

Drained_Not(n, bs) == n
Drained(n, bs) == LET f[i \in 0 .. Len(bs)] == IF i = 0 THEN n ELSE freebuf(f[i - 1], bs[i]) IN f[Len(bs)]
udp_release(p, s) ==
    /\ Owns(p, "udp", s) /\ net.udp[s].state # "free"
    /\ Call(p, [Drained(net, net.udp[s].queue)
               EXCEPT !.udp[s] = [@ EXCEPT !.state = "free", !.queue = <<>>], !.owner[p] = @ \ {<<"udp", s>>}])

(***************************************************************************)
(* ICMP.  The queue is kept as the code keeps it: the head wraps at        *)
(* ICMP_SLOTS and the tail at ICMP_QSIZ, and nobody looks at iccount.      *)
(***************************************************************************)
IcmpSlots == 0 .. ICMP_SLOTS - 1
icmp_init == [s \in IcmpSlots |-> [state |-> "free", remip |-> NULL, queue |-> [i \in 0 .. ICMP_QSIZ - 1 |-> NULL],
                                   head |-> 0, tail |-> 0, count |-> 0, pid |-> NULL]]
Enqueued(e, b) == [e EXCEPT !.queue[e.tail] = b, !.tail = (@ + 1) % ICMP_QSIZ, !.count = @ + 1,
                            !.state = IF @ = "recv" THEN "used" ELSE @]
echo_reply(n, b) ==
    LET s == n.pkt[b].ident
        e == n.icmp[s]
        m == [n EXCEPT !.icmp[s] = Enqueued(e, b), !.bad = @ \/ e.count = ICMP_QSIZ]
    IN IF s \notin IcmpSlots \/ e.state = "free" \/ e.remip # n.pkt[b].src THEN freebuf(n, b)
       ELSE IF e.state = "recv" THEN send(m, e.pid) ELSE m

icmp_register(p, ip) ==
    LET unused == {s \in IcmpSlots : net.icmp[s].state = "free"} IN
    /\ \A s \in IcmpSlots \ unused : net.icmp[s].remip # ip
    /\ unused # {}
    /\ Call(p, [net EXCEPT !.icmp[First(unused)] = [icmp_init[0] EXCEPT !.state = "used", !.remip = ip],
                          !.owner[p] = @ \cup {<<"icmp", First(unused)>>}])

IcmpNext(i) == IF i + 1 >= ICMP_SLOTS THEN 0 ELSE i + 1
\* Behind the queue there is no packet: what is taken is then anything.
IcmpDequeued(n, p, s) ==
    LET e == n.icmp[s]
        m == [n EXCEPT !.icmp[s].head = IcmpNext(@), !.icmp[s].count = @ - 1]
    IN Done(IF e.head \in 0 .. ICMP_QSIZ - 1 /\ e.count > 0 /\ e.queue[e.head] # NULL
            THEN [freebuf(m, e.queue[e.head]) EXCEPT !.icmp[s].queue[e.head] = NULL]
            ELSE [m EXCEPT !.bad = TRUE], p)
icmp_recv(p, s) ==
    /\ Owns(p, "icmp", s) /\ net.icmp[s].state = "used"
    /\ Call(p, IF net.icmp[s].count # 0 THEN IcmpDequeued(net, p, s)
              ELSE Receives([net EXCEPT !.icmp[s].state = "recv", !.icmp[s].pid = p], p, "icmp", s, NULL, 0))
IcmpReceived(p) == LET s == net.proc[p].slot
                       m == [net EXCEPT !.icmp[s].state = "used"]
                   IN /\ Ready(p, "icmp")
                      /\ Step(IF net.proc[p].msg THEN IcmpDequeued(m, p, s) ELSE Done(m, p))

\* As many buffers as iccount says are freed, from the head on, which wraps at
\* ICMP_SLOTS here too: a walk that strays behind the queue frees anything.
Walk(e) == [i \in 1 .. e.count |-> (e.head + i - 1) % ICMP_SLOTS]
Strays(e) == \E i \in 1 .. e.count : Walk(e)[i] >= ICMP_QSIZ
InQueue(e) == [i \in 1 .. e.count |-> e.queue[Walk(e)[i]]]
icmp_release(p, s) ==
    /\ Owns(p, "icmp", s) /\ net.icmp[s].state = "used"
    /\ Call(p, IF Strays(net.icmp[s]) THEN [net EXCEPT !.bad = TRUE]
               ELSE [Drained(net, InQueue(net.icmp[s])) EXCEPT !.icmp[s] = icmp_init[0],
                                                               !.owner[p] = @ \ {<<"icmp", s>>}])
====
