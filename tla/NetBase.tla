---- MODULE NetBase ----
(***************************************************************************)
(* What the protocols of net/ share: the packets, the pool of buffers and  *)
(* the processes that handle packets.  A handler is a function from the    *)
(* state of the network code to the next: arp_in, ip_in, udp_in and        *)
(* icmp_in run to their end with interrupts disabled, whoever calls them;  *)
(* a process loses the processor where it waits for a buffer, a message or *)
(* a semaphore.  An Ethernet address is named by the host that has it.     *)
(***************************************************************************)
EXTENDS Integers, Sequences, FiniteSets, SequencesExt
CONSTANTS Clients,              \* the processes that call udp_* and icmp_*
          Bufs,                 \* the buffers of netbufpool
          Hosts,                \* hosts of the local network
          ME, BCAST, FAR,       \* this host, the broadcast address, a host behind the router
          ROUTER,               \* NetData.iprouter, a host, or NULL
          ARP_SIZ, ARP_RETRY, UDP_SLOTS, UDP_QSIZ, ICMP_SLOTS, ICMP_QSIZ, IP_OQSIZ,
          MaxCalls,             \* bound on the calls of all clients
          NULL
VARIABLES net,                  \* the state of the network code
          calls                 \* how many calls the clients made
Procs == Clients \cup {"netin", "ipout"}

(***************************************************************************)
(* Processes.  recvtime ends when the process has a message or when its    *)
(* time has passed, and looks for a message first when it runs again.      *)
(***************************************************************************)
Home(p) == [at |-> CASE p = "netin" -> "getbuf" [] p = "ipout" -> "wait" [] OTHER -> "idle",
            buf |-> NULL, got |-> NULL, todo |-> NULL, slot |-> NULL, tries |-> 0,
            msg |-> FALSE, timeout |-> FALSE]
\* netin and ipout have the priority NETPRIO: a client runs while both wait.
Blocked(p) == LET r == net.proc[p] IN
    \/ r.at \in {"read", "blocked"}
    \/ r.at \in {"waitbuf", "echo"} /\ r.got = NULL
    \/ r.at = "arp" /\ ~r.msg /\ ~r.timeout
Runs(p) == p \in Clients => Blocked("netin") /\ Blocked("ipout")
\* What happens after one of the two queues was used without a check is anything.
Step(n) == ~net.overtaken /\ ~net.bad /\ net' = n /\ UNCHANGED calls
Call(p, n) == /\ ~net.overtaken /\ ~net.bad /\ net' = n
              /\ Runs(p) /\ net.proc[p].at = "idle" /\ calls < MaxCalls /\ calls' = calls + 1
Done(n, p) == [n EXCEPT !.proc[p] = Home(p)]
Receives(n, p, at, slot, b, tries) ==
    [n EXCEPT !.proc[p] = [Home(p) EXCEPT !.at = at, !.slot = slot, !.buf = b, !.tries = tries]]
send(n, p) == IF n.proc[p].at \in {"arp", "udp", "icmp"} THEN [n EXCEPT !.proc[p].msg = TRUE] ELSE n
Ready(p, at) == Runs(p) /\ net.proc[p].at = at /\ (net.proc[p].msg \/ net.proc[p].timeout)
Timeout(p) == /\ net.proc[p].at \in {"arp", "udp", "icmp"}
              /\ ~net.proc[p].msg /\ ~net.proc[p].timeout
              /\ Step([net EXCEPT !.proc[p].timeout = TRUE])

(***************************************************************************)
(* The pool.  Who waits for a buffer has the next one that is freed.       *)
(***************************************************************************)
freebuf(n, b) == IF n.waiting = <<>> THEN [n EXCEPT !.free = @ \cup {b}, !.pkt[b] = NULL]
                 ELSE [n EXCEPT !.waiting = Tail(@), !.proc[Head(n.waiting)].got = b, !.pkt[b] = NULL]
FreeBuf(n) == CHOOSE b \in Bufs : b \in n.free
Take(n, b, pkt) == [n EXCEPT !.free = @ \ {b}, !.pkt[b] = pkt]
WaitsForBuf(n, p, at, pkt) == [n EXCEPT !.waiting = Append(@, p), !.proc[p].at = at, !.proc[p].todo = pkt]

(***************************************************************************)
(* What leaves on the Ethernet: a packet for host hop with Ethernet        *)
(* address hw, which frees its buffer.                                     *)
(***************************************************************************)
ip_out(n, p, b, hop, hw) == Done([freebuf(n, b) EXCEPT !.misdirected = @ \/ hw # hop], p)

IsLocal(ip) == ip \in Hosts \cup {ME}
NextHop(ip) == IF IsLocal(ip) THEN ip ELSE ROUTER
====
