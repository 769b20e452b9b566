---- MODULE NetBoot ----
(***************************************************************************)
(* How the host gets its address, with DHCP (net/dhcp.c), and then a file, *)
(* with TFTP (net/tftp.c).  A message that was sent may arrive any number  *)
(* of times, in any order, or not at all: the network is the set of what   *)
(* was sent.                                                               *)
(***************************************************************************)
EXTENDS Integers, Sequences
CONSTANTS Servers, Addresses,           \* DHCP servers, what they may offer
          DHCP_RETRY, TFTP_MAXRETRIES,
          Ports,                        \* ports of a TFTP server, TFTP_PORT among them
          TFTP_PORT,
          File,                         \* the blocks of the file, the last one is shorter
          Rooms,                        \* how many blocks the caller may have room for
          NULL
VARIABLES dhcp,         \* getlocalip: where it is, its counters, the message it sends
          netdata,      \* NetData: valid, ipucast, bootserver
          tftp,         \* tftpget_mb: where it is, its counters, what it has
          wire,         \* what was sent
          leases        \* which addresses the servers gave, and to which host
vars == <<dhcp, netdata, tftp, wire, leases>>

(***************************************************************************)
(* Messages.                                                               *)
(***************************************************************************)
discover == [kind |-> "discover", srv |-> NULL, ip |-> NULL]
request(srv, ip) == [kind |-> "request", srv |-> srv, ip |-> ip]
\* host: the host that the message is for, which may be this one, its twin, whose
\* MAC address begins with the same four bytes, or another; id: is the option with
\* the server's address there, and within the length of the message sent.
Reply(kind, srv, ip, host, id) == [kind |-> kind, srv |-> srv, ip |-> ip, host |-> host, id |-> id]
Replies == {m \in wire : m.kind \in {"offer", "ack", "nak"}}
RRQ == [kind |-> "rrq", port |-> TFTP_PORT, blk |-> 0]
ACK(port, blk) == [kind |-> "tack", port |-> port, blk |-> blk]
DATA(port, blk) == [kind |-> "data", port |-> port, blk |-> blk]
ERROR(port) == [kind |-> "error", port |-> port, blk |-> 0]

Init == /\ dhcp = [at |-> "send", i |-> 0, j |-> 0, snd |-> discover, slot |-> TRUE]
        /\ netdata = [valid |-> FALSE, ip |-> NULL, boot |-> NULL]
        /\ \E r \in Rooms : tftp = [at |-> "idle", i |-> 0, expected |-> 1, port |-> TFTP_PORT, msg |-> RRQ,
                                  got |-> <<>>, slot |-> FALSE, room |-> r]
        /\ \E s \in Servers, ip \in Addresses :
              \/ \E host \in {"twin", "other"} :
                    wire = {Reply("ack", s, ip, host, "near")} /\ leases = {<<s, host, ip>>}
              \/ wire = {Reply("offer", s, ip, "twin", "near")} /\ leases = {}

(***************************************************************************)
(* getlocalip.                                                             *)
(***************************************************************************)
dhcp_send == /\ dhcp.at = "send"
             /\ wire' = wire \cup {dhcp.snd}
             /\ dhcp' = [dhcp EXCEPT !.at = "recv", !.j = 0]
             /\ UNCHANGED <<netdata, tftp, leases>>

\* The next turn of the inner loop, of the outer one, or the end of both.
Continue(d) == CASE d.j < 2 -> [d EXCEPT !.j = @ + 1]
                 [] d.j = 2 /\ d.i + 1 < DHCP_RETRY -> [d EXCEPT !.at = "send", !.j = 0, !.i = @ + 1]
                 [] OTHER -> [d EXCEPT !.at = "failed", !.slot = FALSE]
\* The xid is four bytes of the MAC address, so twins have the same. Nobody looks
\* at dc_chaddr, the whole address.
xid(host) == IF host = "other" THEN "other" ELSE "us"
Mine(m) == xid(m.host) = xid("us")
Skips(m) == ~Mine(m) \/ m.kind = "nak"

NoAnswer == /\ dhcp.at = "recv"
            /\ dhcp' = Continue(dhcp)
            /\ UNCHANGED <<netdata, tftp, wire, leases>>
Skipped == /\ dhcp.at = "recv" /\ \E m \in Replies : Skips(m)
           /\ dhcp' = Continue(dhcp)
           /\ UNCHANGED <<netdata, tftp, wire, leases>>

\* An offer without a server is an error, which keeps the UDP slot.
Offered == /\ dhcp.at = "recv"
           /\ \E m \in Replies :
                 /\ m.kind = "offer" /\ ~Skips(m)
                 /\ IF m.id = "none" THEN dhcp' = [dhcp EXCEPT !.at = "failed"] /\ UNCHANGED wire
                    ELSE /\ dhcp' = Continue([dhcp EXCEPT !.snd = request(m.srv, m.ip)])
                         /\ wire' = wire \cup {request(m.srv, m.ip)}
           /\ UNCHANGED <<netdata, tftp, leases>>

\* The server's address is looked for in as many bytes as were sent.
dhcp_get_opt_val(m) == IF m.id = "near" THEN m.srv ELSE NULL
IsAck(m) == m.kind = "ack" /\ Mine(m)
Acked == /\ dhcp.at = "recv"
         /\ \E m \in Replies :
               /\ IsAck(m)
               /\ netdata' = [valid |-> TRUE, ip |-> m.ip, boot |-> dhcp_get_opt_val(m)]
               /\ dhcp' = [dhcp EXCEPT !.at = IF dhcp_get_opt_val(m) = NULL THEN "failed" ELSE "done", !.slot = FALSE]
         /\ UNCHANGED <<tftp, wire, leases>>

(***************************************************************************)
(* The DHCP servers.                                                       *)
(***************************************************************************)
Listens == dhcp.at \in {"send", "recv"}
Offer == Listens /\ \E s \in Servers, ip \in Addresses, id \in {"near", "none"} :
           /\ discover \in wire
           /\ wire' = wire \cup {Reply("offer", s, ip, "us", id)}
           /\ UNCHANGED <<dhcp, netdata, tftp, leases>>
Grant == Listens /\ \E s \in Servers, ip \in Addresses, id \in {"near", "far"} :
           /\ request(s, ip) \in wire
           /\ leases' = leases \cup {<<s, "us", ip>>}
           /\ wire' = wire \cup {Reply("ack", s, ip, "us", id)}
           /\ UNCHANGED <<dhcp, netdata, tftp>>
Refuse == Listens /\ \E s \in Servers, ip \in Addresses :
           /\ request(s, ip) \in wire
           /\ wire' = wire \cup {Reply("nak", s, ip, "us", "near")}
           /\ UNCHANGED <<dhcp, netdata, tftp, leases>>

(***************************************************************************)
(* tftpget_mb and tftp_send1.                                              *)
(***************************************************************************)
\* The answers of DHCP reach nobody any more.
Begins == /\ dhcp.at = "done" /\ tftp.at = "idle"
          /\ tftp' = [tftp EXCEPT !.at = "send", !.slot = TRUE]
          /\ wire' = {}
          /\ dhcp' = [dhcp EXCEPT !.i = 0, !.j = 0, !.snd = NULL]
          /\ UNCHANGED <<netdata, leases>>
tftp_send1 == /\ tftp.at = "send"
              /\ wire' = wire \cup {[tftp.msg EXCEPT !.port = tftp.port]}
              /\ tftp' = [tftp EXCEPT !.at = "recv"]
              /\ UNCHANGED <<dhcp, netdata, leases>>

Ends(t, how) == [t EXCEPT !.at = how, !.slot = FALSE]
tftp_timeout == /\ tftp.at = "recv"
                /\ tftp' = IF tftp.i + 1 < TFTP_MAXRETRIES THEN [tftp EXCEPT !.at = "send", !.i = @ + 1]
                           ELSE Ends(tftp, "failed")
                /\ UNCHANGED <<dhcp, netdata, wire, leases>>

Expected_Any(m) == m.kind = "data"
Expected(m) == m.kind = "data" /\ m.blk = tftp.expected
\* Whatever comes from the server's address sets the port.
Ignored(m) == /\ m.kind = "data" /\ ~Expected(m)
              /\ tftp' = [tftp EXCEPT !.port = m.port] /\ UNCHANGED wire
Failed(m) == /\ m.kind = "error"
             /\ tftp' = Ends(tftp, "failed") /\ UNCHANGED wire
\* The caller's buffers are full: what there is, is the result.
Overflows(m) == /\ Expected(m) /\ Len(tftp.got) = tftp.room
                /\ tftp' = Ends(tftp, "truncated") /\ UNCHANGED wire
Block(m) == /\ Expected(m) /\ Len(tftp.got) < tftp.room
            /\ LET ack == ACK(m.port, tftp.expected)
                   t == [tftp EXCEPT !.port = m.port, !.got = Append(@, File[m.blk]), !.i = 0, !.msg = ack]
               IN IF m.blk = Len(File)
                  THEN tftp' = Ends(t, "done") /\ wire' = wire \cup {ack}
                  ELSE tftp' = [t EXCEPT !.at = "send", !.expected = @ + 1] /\ UNCHANGED wire
TftpGets == /\ tftp.at = "recv"
            /\ \E m \in wire : Ignored(m) \/ Failed(m) \/ Overflows(m) \/ Block(m)
            /\ UNCHANGED <<dhcp, netdata, leases>>

\* The server: every copy of the request may start a transfer, with a port of its own.
Serve == /\ tftp.at \in {"send", "recv"}
         /\ \/ RRQ \in wire /\ \E p \in Ports \ {TFTP_PORT} : wire' = wire \cup {DATA(p, 1)}
            \/ \E p \in Ports, n \in 1 .. Len(File) - 1 : ACK(p, n) \in wire /\ wire' = wire \cup {DATA(p, n + 1)}
            \/ RRQ \in wire /\ wire' = wire \cup {ERROR(TFTP_PORT)}
         /\ UNCHANGED <<dhcp, netdata, tftp, leases>>

Next == \/ dhcp_send \/ NoAnswer \/ Skipped \/ Offered \/ Acked
        \/ Offer \/ Grant \/ Refuse
        \/ Begins \/ tftp_send1 \/ tftp_timeout \/ TftpGets \/ Serve
Spec == Init /\ [][Next]_vars

(***************************************************************************)
(* Properties.                                                             *)
(***************************************************************************)
\* The address in use is one that a server gave to this host, however often an
\* offer or an answer is repeated, or to a twin: an answer to a host with another
\* xid is not taken for one to this host, an answer to a twin may be (dhcp.c:49
\* calls the xid unique).
AddressGranted == netdata.valid => \E s \in Servers, host \in {"us", "twin"} : <<s, host, netdata.ip>> \in leases

\* What was stored so far is the beginning of the file, and all of it when
\* tftpget_mb is done, although every block may arrive late and repeatedly.
FileInOrder == /\ tftp.got = SubSeq(File, 1, Len(tftp.got))
               /\ tftp.at = "done" => tftp.got = File

BootsRight == AddressGranted /\ FileInOrder
====
