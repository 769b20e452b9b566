---- MODULE Net ----
(***************************************************************************)
(* IP (net/ip.c), the process netin (net/net.c) and the process ipout, and *)
(* the clients of UDP and ICMP, over the ARP cache and the endpoints.      *)
(***************************************************************************)
EXTENDS Endpoints
CONSTANTS Arrivals,             \* IP packets that may arrive
          ArpArrivals,          \* ARP packets that may arrive
          Pings, Dests,         \* whom icmp_send and udp_sendto may be given
          Valid,                \* what NetData.ipvalid may be
          MaxArrivals           \* bound on the packets that arrive
\* The sizes of the tables and queues are positive where the code divides by
\* them, and an Ethernet address is named by the host that has it.
ASSUME NetAssumption ==
    /\ NULL \notin Bufs /\ "netin" \notin Clients /\ "ipout" \notin Clients
    /\ ARP_SIZ \in Nat /\ UDP_SLOTS \in Nat /\ ICMP_SLOTS \in Nat
    /\ ICMP_QSIZ \in 1 .. ICMP_SLOTS /\ IP_OQSIZ \in Nat \ {0}
    /\ \A a \in ArpArrivals : a.hw = a.from

net_init == \E v \in Valid :
    net = [free |-> Bufs, waiting |-> <<>>, pkt |-> [b \in Bufs |-> NULL],
           arp |-> arp_init, udp |-> udp_init, icmp |-> icmp_init,
           oq |-> [buf |-> [i \in 0 .. IP_OQSIZ - 1 |-> NULL], head |-> 0, tail |-> 0, sem |-> 0],
           proc |-> [p \in Procs |-> Home(p)], owner |-> [p \in Clients |-> {}], valid |-> v,
           arrived |-> 0,
           \* What went wrong: an entry of the cache reused before it was read, a packet
           \* sent to another Ethernet address, an ICMP queue and the output queue used
           \* without a check.
           evicted |-> FALSE, misdirected |-> FALSE, bad |-> FALSE, overtaken |-> FALSE]

(***************************************************************************)
(* The output queue.  ipout takes a packet some time after its wait; a     *)
(* packet put into the queue meanwhile may have the place of that packet.  *)
(***************************************************************************)
ip_enqueue_NoSignal(n, b) ==
    IF n.oq.sem >= IP_OQSIZ THEN freebuf(n, b)
    ELSE [n EXCEPT !.oq.buf[n.oq.tail] = b, !.oq.tail = (@ + 1) % IP_OQSIZ, !.oq.sem = @ + 1]
ip_enqueue(n, b) ==
    IF n.oq.sem >= IP_OQSIZ THEN freebuf(n, b)
    ELSE LET m == [n EXCEPT !.oq.buf[n.oq.tail] = b, !.oq.tail = (@ + 1) % IP_OQSIZ, !.oq.sem = @ + 1,
                            !.overtaken = @ \/ n.oq.buf[n.oq.tail] # NULL]
         IN IF n.proc["ipout"].at = "blocked" THEN [m EXCEPT !.proc["ipout"].at = "take"] ELSE m

(***************************************************************************)
(* ip_local, which takes the buffer b from process p.                      *)
(***************************************************************************)
EchoReply(k) == [k EXCEPT !.src = ME, !.dst = k.src, !.type = "reply"]
Answers(n, p, b, f, reply) == Done(freebuf(ip_enqueue(Take(n, f, reply), f), b), p)
icmp_in(n, p, b) ==
    LET k == n.pkt[b] IN
    CASE k.type = "reply" -> Done(echo_reply(n, b), p)
      [] k.type = "request" /\ n.free # {} -> Answers(n, p, b, FreeBuf(n), EchoReply(k))
      [] k.type = "request" /\ n.free = {} -> [WaitsForBuf(n, p, "echo", EchoReply(k)) EXCEPT !.proc[p].buf = b]
      [] OTHER -> Done(freebuf(n, b), p)
ip_local(n, p, b) ==
    CASE n.pkt[b].proto = "udp" -> Done(udp_in(n, b), p)
      [] n.pkt[b].proto = "icmp" -> icmp_in(n, p, b)
      [] OTHER -> Done(freebuf(n, b), p)

\* icmp_mkpkt has the buffer that it waited for.
Echoes(p) == LET r == net.proc[p] IN
    /\ Runs(p) /\ r.at = "echo" /\ r.got # NULL
    /\ Step(Answers(net, p, r.buf, r.got, r.todo))

ToNext(n, p, b) == LET hop == NextHop(n.pkt[b].dst) IN
    IF hop = NULL THEN Done(freebuf(n, b), p) ELSE arp_resolve(n, p, b, hop)

ip_send(n, p, b) ==
    CASE n.pkt[b].dst = ME -> ip_local(n, p, b)
      [] n.pkt[b].dst = BCAST -> ip_out(n, p, b, BCAST, BCAST)
      [] OTHER -> ToNext(n, p, b)

ip_in(n, p, b) ==
    LET k == n.pkt[b] IN
    IF k.ok /\ (k.dst = BCAST \/ (n.valid /\ k.dst = ME) \/ (~n.valid /\ k.proto = "udp"))
    THEN ip_local(n, p, b) ELSE Done(freebuf(n, b), p)

(***************************************************************************)
(* netin.                                                                  *)
(***************************************************************************)
GetBuf == /\ net.proc["netin"].at = "getbuf"
          /\ Step(IF net.free = {} THEN WaitsForBuf(net, "netin", "waitbuf", NULL)
                    ELSE [net EXCEPT !.free = @ \ {FreeBuf(net)},
                                     !.proc["netin"] = [@ EXCEPT !.at = "read", !.buf = FreeBuf(net)]])
HasBuf == LET r == net.proc["netin"] IN
    /\ r.at = "waitbuf" /\ r.got # NULL
    /\ Step([net EXCEPT !.proc["netin"] = [Home("netin") EXCEPT !.at = "read", !.buf = r.got]])

Reads == net.proc["netin"].at = "read" /\ net.arrived < MaxArrivals
Read == [net EXCEPT !.arrived = @ + 1]
ArpArrives == \E a \in ArpArrivals :
    Reads /\ Step(Done(freebuf(arp_in(Read, a), net.proc["netin"].buf), "netin"))
IpArrives == \E k \in Arrivals :
    LET b == net.proc["netin"].buf IN
    Reads /\ Step(ip_in([Read EXCEPT !.pkt[b] = k], "netin", b))
\* IPv6 and all other types.
OtherArrives == Reads /\ Step(Done(freebuf(Read, net.proc["netin"].buf), "netin"))

(***************************************************************************)
(* ipout.                                                                  *)
(***************************************************************************)
Waits == /\ net.proc["ipout"].at = "wait"
         /\ Step([net EXCEPT !.oq.sem = @ - 1, !.proc["ipout"].at = IF net.oq.sem > 0 THEN "take" ELSE "blocked"])
ipout == /\ net.proc["ipout"].at = "take"
         /\ LET b == net.oq.buf[net.oq.head]
                n == [net EXCEPT !.oq.buf[net.oq.head] = NULL, !.oq.head = (@ + 1) % IP_OQSIZ]
            IN Step(CASE net.pkt[b].dst = BCAST -> Done(freebuf(n, b), "ipout")
                        [] net.pkt[b].dst = ME -> ip_local(n, "ipout", b)
                        [] OTHER -> ToNext(n, "ipout", b))

(***************************************************************************)
(* The clients.                                                            *)
(***************************************************************************)
Sends(p, k) == Call(p, IF net.free = {} THEN WaitsForBuf(net, p, "send", k)
                      ELSE LET b == FreeBuf(net) IN ip_send(Take(net, b, k), p, b))
SendsNow(p) == LET r == net.proc[p] IN
    /\ Runs(p) /\ r.at = "send" /\ r.got # NULL
    /\ Step(ip_send([Done(net, p) EXCEPT !.pkt[r.got] = r.todo], p, r.got))

UdpPacket(s, ip, port) == [proto |-> "udp", src |-> ME, dst |-> ip, sport |-> net.udp[s].key.locport, dport |-> port,
                           type |-> NULL, ident |-> NULL, ok |-> TRUE]
udp_send(p, s) == /\ Owns(p, "udp", s) /\ net.udp[s].state # "free" /\ net.udp[s].key.remip # NULL
                  /\ Sends(p, UdpPacket(s, net.udp[s].key.remip, net.udp[s].key.remport))
udp_sendto(p, s, ip) == /\ Owns(p, "udp", s) /\ net.udp[s].state # "free"
                        /\ Sends(p, UdpPacket(s, ip, 1))
icmp_send(p, s) == /\ Owns(p, "icmp", s)
                   /\ Sends(p, [proto |-> "icmp", src |-> ME, dst |-> net.icmp[s].remip, sport |-> NULL, dport |-> NULL,
                                type |-> "request", ident |-> s, ok |-> TRUE])

Init == net_init /\ calls = 0
Next == \/ GetBuf \/ HasBuf \/ ArpArrives \/ IpArrives \/ OtherArrives
        \/ Waits \/ ipout
        \/ \E p \in Procs : Resolved(p) \/ TriesAgain(p) \/ Unresolved(p) \/ Echoes(p) \/ Timeout(p)
        \/ \E p \in Clients : \/ Received(p) \/ IcmpReceived(p) \/ SendsNow(p)
                              \/ \E key \in Endpoint : udp_register(p, key)
                              \/ \E s \in UdpSlots : \/ udp_recv(p, s) \/ udp_send(p, s) \/ udp_release(p, s)
                                                     \/ \E ip \in Dests : udp_sendto(p, s, ip)
                              \/ \E ip \in Pings : icmp_register(p, ip)
                              \/ \E s \in IcmpSlots : icmp_recv(p, s) \/ icmp_release(p, s) \/ icmp_send(p, s)
vars == <<net, calls>>

\* The processes of the network run, and the clock ends every wait for a message.
Fairness == /\ WF_vars(Waits \/ ipout \/ Resolved("ipout") \/ TriesAgain("ipout") \/ Unresolved("ipout"))
            /\ WF_vars(Timeout("ipout"))
Spec == Init /\ [][Next]_vars /\ Fairness

(***************************************************************************)
(* Properties.                                                             *)
(***************************************************************************)
InOutput(b) == \E i \in 0 .. IP_OQSIZ - 1 : net.oq.buf[i] = b
Places(b) ==
    {<<"free">> : x \in net.free \cap {b}}
    \cup {<<"process", p>> : p \in {q \in Procs : b \in {net.proc[q].buf, net.proc[q].got}}}
    \cup (UNION {{<<"udp", s, i>> : i \in {j \in DOMAIN net.udp[s].queue : net.udp[s].queue[j] = b}} : s \in UdpSlots})
    \cup (UNION {{<<"icmp", s, i>> : i \in {j \in 0 .. ICMP_QSIZ - 1 : net.icmp[s].queue[j] = b}} : s \in IcmpSlots})
    \cup {<<"output", i>> : i \in {j \in 0 .. IP_OQSIZ - 1 : net.oq.buf[j] = b}}

\* A buffer is always in one place: no path of a packet through the handlers,
\* taken by whom it may be, loses a buffer of the pool or frees it twice, until
\* one of these happens, after which nothing is said:
\*   - a reply is stored into a full ICMP queue (icmp_in looks at no count);
\*   - icmp_recv takes, or icmp_release frees, what is behind the end of an
\*     ICMP queue, since the head wraps at ICMP_SLOTS and the tail at ICMP_QSIZ:
\*     with the 10 and the 8 of icmp.h that is the ninth reply of an endpoint;
\*   - ip_enqueue fills the output queue, and overwrites the packet that ipout
\*     has waited for and not taken yet.
BuffersOnce == net.bad \/ net.overtaken \/ \A b \in Bufs : Cardinality(Places(b)) = 1

\* A packet leaves with the Ethernet address of its next hop, unless the cache
\* entry was reused while the process that asked for it was still to run.
ToNextHop == net.misdirected => net.evicted

\* Nobody sleeps through a packet: a process that waits in udp_recv without a
\* message has an empty queue, and the next packet for it finds its name.
NoSleepOverPacket ==
    \A p \in Procs : net.proc[p].at = "udp" /\ ~net.proc[p].msg =>
        LET e == net.udp[net.proc[p].slot] IN e.queue = <<>> /\ e.state = "recv" /\ e.pid = p

\* An entry of the ARP cache that is pending has its process: one that gave up
\* does not leave the address unusable for everybody ("only one process can be
\* waiting at a time").
PendingHasWaiter ==
    \A s \in ArpSlots : net.arp[s].state = "pending" =>
        LET r == net.proc[net.arp[s].pid] IN r.at = "arp" /\ r.slot = s /\ ~r.msg

\* A packet does not stay in the output queue: no unresolved address stops
\* ipout for ever.
OutputDrains == \A b \in Bufs : InOutput(b) ~> ~InOutput(b) \/ net.overtaken \/ net.bad
====
