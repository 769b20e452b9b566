---- MODULE MCNet ----
\* Two clients: one endpoint for anybody and one for a peer; pings to a host.
EXTENDS Net
CONSTANTS h1, h2
Ip(proto, src, type, dport) == [proto |-> proto, src |-> src, dst |-> ME, sport |-> 1, dport |-> dport,
                                type |-> type, ident |-> 0, ok |-> TRUE]
MCEndpoint == {[remip |-> NULL, remport |-> 0, locport |-> 5], [remip |-> h1, remport |-> 1, locport |-> 5]}
MCArrivals == {Ip("udp", h1, NULL, 5), Ip("icmp", h1, "request", NULL), Ip("icmp", h1, "reply", NULL),
               [Ip("other", h2, NULL, NULL) EXCEPT !.dst = BCAST], [Ip("udp", h2, NULL, 5) EXCEPT !.dst = FAR]}
MCArpArrivals == {[op |-> "reply", from |-> h1, hw |-> h1, target |-> ME],
                  [op |-> "request", from |-> h2, hw |-> h2, target |-> ME]}
====
