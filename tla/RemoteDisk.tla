---- MODULE RemoteDisk ----
(***************************************************************************)
(* The remote disk (device/rds): a queue of requests, a cache and a free   *)
(* list over one pool of buffers; a process of high priority (rdsprocess)  *)
(* that carries the requests to a server; the exchange of a request and a  *)
(* reply over UDP (rdscomm); and the server itself (rdserver).  The code   *)
(* between two waits is one step: rdsprocess has priority RD_PRIO, and the *)
(* functions that clients call are not preempted half way through a list.  *)
(* rdsinit no longer creates rdsprocess; it runs here, or every read waits *)
(* for ever.                                                               *)
(***************************************************************************)
EXTENDS Integers, Sequences, FiniteSets, SequencesExt
CONSTANTS Clients,      \* processes that use the disk
          Bufs,         \* the RD_BUFFS buffers
          MaxBlk,       \* blocks are 0 .. MaxBlk
          Values,       \* contents of a written block
          Zero,         \* contents of a block in a hole of the file
          Junk,         \* what a reply without data leaves in resp.rd_data
          NULL,
          RD_RETRIES,
          LateReplies,  \* may a reply take longer than RD_TIMEOUT?
          MaxCalls,     \* bound on the calls of all clients
          Loads         \* workloads: client -> [ops, blocks, ids] it uses
VARIABLES rd,           \* struct rdscblk: state, lists, semaphores
          buf,          \* struct rdbuff, without its links
          comm,         \* the exchange in progress, or NULL
          net,          \* requests and replies on the wire
          srv,          \* the server: last sequence number, open, the file
          pc,           \* where each client is
          mail,         \* the message of each client, or NULL
          last,         \* its last read or write that has taken effect
          status,       \* "up", "panic", or "wild": see Exchange
          calls, load
vars == <<rd, buf, comm, net, srv, pc, mail, last, status, calls, load>>

ASSUME DiskAssumption == /\ IsFiniteSet(Bufs) /\ Bufs # {}
                         /\ MaxBlk \in Nat /\ RD_RETRIES \in Nat \ {0}
                         /\ LateReplies \in BOOLEAN
Blocks == 0 .. MaxBlk
Comproc == "rdsprocess"
Idle == [at |-> "idle", op |-> NULL, blk |-> NULL, val |-> NULL]
NoBuf == [op |-> NULL, refcnt |-> 0, blk |-> NULL, valid |-> FALSE, pid |-> NULL, data |-> Zero]

Init == /\ rd = [state |-> "free", id |-> "", seq |-> 1, queue |-> <<>>, cache |-> <<>>,
                 free |-> SetToSeq(Bufs), avail |-> Cardinality(Bufs), waiters |-> <<>>, req |-> 0]
        /\ buf = [n \in Bufs |-> NoBuf]
        /\ comm = NULL
        /\ net = [req |-> {}, rep |-> {}, in |-> <<>>]
        /\ srv = [seq |-> 0, open |-> FALSE, exists |-> FALSE, size |-> 0, file |-> [b \in Blocks |-> Zero]]
        /\ pc = [c \in Clients |-> Idle]
        /\ mail = [c \in Clients |-> NULL]
        /\ last = [c \in Clients |-> [op |-> "none", blk |-> 0, val |-> Zero]]
        /\ status = "up" /\ calls = 0 /\ load \in Loads

(***************************************************************************)
(* The exchange with the server.                                           *)
(***************************************************************************)
Message(op, id, blk, val) == [op |-> op, id |-> id, seq |-> rd.seq, blk |-> blk, val |-> val]

\* One UDP slot serves all: a second process that enters rdscomm gets SYSERR
\* from udp_recv, or takes the reply of the first.  What follows is not
\* modelled ("wild").
Exchange(who, d, msg) ==
    /\ rd' = [d EXCEPT !.seq = @ + 1]
    /\ IF comm = NULL
       THEN /\ comm' = [who |-> who, msg |-> msg, left |-> RD_RETRIES, xmit |-> TRUE, at |-> "send", ok |-> FALSE, val |-> Zero]
            /\ UNCHANGED status
       ELSE status' = "wild" /\ UNCHANGED comm

InComm(at) == status = "up" /\ comm # NULL /\ comm.at = at

Transmit == /\ InComm("send") /\ comm.left > 0
            /\ net' = IF comm.xmit THEN [net EXCEPT !.req = @ \cup {comm.msg}] ELSE net
            /\ comm' = [comm EXCEPT !.left = @ - 1, !.xmit = TRUE, !.at = "recv"]
            /\ UNCHANGED <<rd, buf, srv, pc, mail, last, status, calls, load>>

GiveUp == /\ InComm("send") /\ comm.left = 0
          /\ comm' = [comm EXCEPT !.at = "done"]
          /\ UNCHANGED <<rd, buf, net, srv, pc, mail, last, status, calls, load>>

Timeout == /\ InComm("recv") /\ net.in = <<>>
           /\ LateReplies \/ (net.req = {} /\ net.rep = {})
           /\ comm' = [comm EXCEPT !.at = "send"]
           /\ UNCHANGED <<rd, buf, net, srv, pc, mail, last, status, calls, load>>

\* A reply with a lower number falls through to the test of its type.
Accepts(r) == r.seq <= comm.msg.seq /\ r.op = comm.msg.op

Receive == /\ InComm("recv") /\ net.in # <<>>
           /\ LET r == Head(net.in) IN
              comm' = IF Accepts(r) THEN [comm EXCEPT !.at = "done", !.ok = r.ok, !.val = r.val]
                      ELSE [comm EXCEPT !.at = "send", !.xmit = ~(r.seq < comm.msg.seq)]
           /\ net' = [net EXCEPT !.in = Tail(@)]
           /\ UNCHANGED <<rd, buf, srv, pc, mail, last, status, calls, load>>

(***************************************************************************)
(* The network and the server.                                             *)
(***************************************************************************)
Lose == /\ status = "up"
        /\ \/ \E m \in net.req : net' = [net EXCEPT !.req = @ \ {m}]
           \/ \E r \in net.rep : net' = [net EXCEPT !.rep = @ \ {r}]
        /\ UNCHANGED <<rd, buf, comm, srv, pc, mail, last, status, calls, load>>

Deliver == /\ status = "up"
           /\ \E r \in net.rep : net' = [net EXCEPT !.rep = @ \ {r}, !.in = Append(@, r)]
           /\ UNCHANGED <<rd, buf, comm, srv, pc, mail, last, status, calls, load>>

sndok(m, val) == [op |-> m.op, seq |-> m.seq, ok |-> TRUE, val |-> val]
\* snderr stores htonl(1) in 16 bits: the status is 0 when the server runs on a
\* little-endian host, and the reply a success to the client. It has no data.
snderr(m) == [op |-> m.op, seq |-> m.seq, ok |-> TRUE, val |-> Junk]

\* Number 1 means that the client has started anew.
LastSeq(m) == IF m.seq = 1 THEN 0 ELSE srv.seq
Ignored(m) == m.seq # 0 /\ m.seq < LastSeq(m)

\* A name with a slash could lead out of the directory of the disks. The client
\* takes such a disk for open: every write to it is lost.
BadId(m) == m.id = "a/b"

\* Each handler gives the new state of the server and the reply.
rdofile(s) == [s EXCEPT !.open = TRUE, !.exists = TRUE]

rdopen(m) == [srv |-> rdofile(srv), reply |-> sndok(m, Zero)]

rdread(m) == [srv |-> srv,
              reply |-> IF srv.open /\ m.blk < srv.size THEN sndok(m, srv.file[m.blk]) ELSE snderr(m)]

rdwrite(m) == IF ~srv.open THEN [srv |-> srv, reply |-> snderr(m)]
              ELSE [srv |-> [srv EXCEPT !.file[m.blk] = m.val, !.size = IF @ <= m.blk THEN m.blk + 1 ELSE @],
                    reply |-> sndok(m, Zero)]

rddelete(m) == [srv |-> [srv EXCEPT !.open = FALSE, !.exists = FALSE, !.size = 0, !.file = [b \in Blocks |-> Zero]],
                reply |-> IF srv.exists THEN sndok(m, Zero) ELSE snderr(m)]

Handled(m) == CASE BadId(m) -> [srv |-> srv, reply |-> snderr(m)]
                [] ~BadId(m) /\ m.op = "open" -> rdopen(m)
                [] ~BadId(m) /\ m.op = "read" -> rdread(m)
                [] ~BadId(m) /\ m.op = "write" -> rdwrite(m)
                [] ~BadId(m) /\ m.op = "delete" -> rddelete(m)

Serve == /\ status = "up"
         /\ \E m \in net.req :
               IF Ignored(m)
               THEN /\ srv' = [srv EXCEPT !.seq = LastSeq(m)]
                    /\ net' = [net EXCEPT !.req = @ \ {m}]
               ELSE /\ srv' = [Handled(m).srv EXCEPT !.seq = m.seq]
                    /\ net' = [net EXCEPT !.req = @ \ {m}, !.rep = @ \cup {Handled(m).reply}]
         /\ UNCHANGED <<rd, buf, comm, pc, mail, last, status, calls, load>>

(***************************************************************************)
(* Buffers.                                                                *)
(***************************************************************************)
SignalAvail_Not(d) == d
\* signal(rd_availsem): the first waiter has the buffer, and has yet to run.
SignalAvail(d) == [d EXCEPT !.avail = @ + 1, !.waiters = IF @ = <<>> THEN @ ELSE Tail(@)]
Woken(d, p) == IF d.waiters = <<>> THEN p ELSE [p EXCEPT ![Head(d.waiters)].at = "granted"]

Unlink(list, n) == SelectSeq(list, LAMBDA m : m # n)
Reusable(list) == {i \in DOMAIN list : buf[list[i]].refcnt <= 0}
FirstFor(list, b) == SelectInSeq(list, LAMBDA n : buf[n].blk = b)
LastFor(list, b) == SelectLastInSeq(list, LAMBDA n : buf[n].blk = b)

\* rdsbufalloc after its wait: the head of the free list, or the oldest in the
\* cache that nobody reads; NULL is the panic.
rdsbufalloc == IF rd.free # <<>> THEN Head(rd.free)
               ELSE IF Reusable(rd.cache) = {} THEN NULL
               ELSE rd.cache[CHOOSE i \in Reusable(rd.cache) : \A j \in Reusable(rd.cache) : j <= i]

Without(n) == [rd EXCEPT !.free = Unlink(@, n), !.cache = Unlink(@, n)]

(***************************************************************************)
(* Calls of clients.  A call that needs a buffer waits for rd_availsem.    *)
(***************************************************************************)
Calls(c, op) == /\ status = "up" /\ pc[c].at = "idle" /\ op \in load[c].ops
                /\ calls < MaxCalls /\ calls' = calls + 1
                /\ UNCHANGED <<srv, load>>

Done(c, op, b, v) == [last EXCEPT ![c] = [op |-> op, blk |-> b, val |-> v]]

NeedsBuffer(c, op, b, v) ==
    /\ rd' = [rd EXCEPT !.avail = @ - 1, !.waiters = IF rd.avail > 0 THEN @ ELSE Append(@, c)]
    /\ pc' = [pc EXCEPT ![c] = [at |-> IF rd.avail > 0 THEN "granted" ELSE "avail", op |-> op, blk |-> b, val |-> v]]

\* An ID that is empty or too long is refused, and the state stays RD_PEND.
rdsopen(c, id) ==
              /\ Calls(c, "open") /\ rd.state = "free" /\ id \in load[c].ids
              /\ Exchange(c, [rd EXCEPT !.state = "pend", !.id = id], Message("open", id, NULL, NULL))
              /\ pc' = [pc EXCEPT ![c] = [Idle EXCEPT !.at = "opening"]]
              /\ UNCHANGED <<buf, net, mail, last>>

OpenRefused(c) == /\ Calls(c, "badopen") /\ rd.state = "free"
                  /\ rd' = [rd EXCEPT !.state = "pend"]
                  /\ UNCHANGED <<buf, comm, net, pc, mail, last, status>>

OpenEnds(c) == /\ InComm("done") /\ comm.who = c /\ pc[c].at = "opening"
               /\ rd' = [rd EXCEPT !.state = IF comm.ok THEN "open" ELSE "free"]
               /\ comm' = NULL /\ pc' = [pc EXCEPT ![c] = Idle]
               /\ UNCHANGED <<buf, net, srv, mail, last, status, calls, load>>

CacheHit(b) == LET i == FirstFor(rd.cache, b) IN i # 0 /\ buf[rd.cache[i]].valid
QueueHit(b) == LET i == LastFor(rd.queue, b) IN i # 0 /\ buf[rd.queue[i]].op = "write"

rdsread(c, b) ==
    /\ Calls(c, "read") /\ rd.state = "open" /\ b \in load[c].blocks
    /\ \/ /\ CacheHit(b)
          /\ last' = Done(c, "read", b, buf[rd.cache[FirstFor(rd.cache, b)]].data)
          /\ UNCHANGED <<rd, pc>>
       \/ /\ ~CacheHit(b) /\ QueueHit(b)
          /\ last' = Done(c, "read", b, buf[rd.queue[LastFor(rd.queue, b)]].data)
          /\ UNCHANGED <<rd, pc>>
       \/ /\ ~CacheHit(b) /\ ~QueueHit(b)
          /\ NeedsBuffer(c, "read", b, Zero)
          /\ UNCHANGED last
    /\ UNCHANGED <<buf, comm, net, mail, status>>

Copy_Never(b) == 0
\* The cached copy that rdswrite uses again, or 0.
Copy(b) == LET i == FirstFor(rd.cache, b) IN
           IF i # 0 /\ buf[rd.cache[i]].refcnt <= 0 THEN i ELSE 0

Retaken_Not(d) == d
\* semreset to one less; it refuses a negative count.
Retaken(d) == IF d.avail > 0 THEN [d EXCEPT !.avail = @ - 1] ELSE d

WriteRequest(c, b, v) == [op |-> "write", refcnt |-> 0, blk |-> b, valid |-> TRUE, pid |-> c, data |-> v]

rdswrite(c, b, v) ==
    /\ Calls(c, "write") /\ rd.state = "open" /\ b \in load[c].blocks
    /\ LET queued == {i \in DOMAIN rd.queue : buf[rd.queue[i]].op = "write" /\ buf[rd.queue[i]].blk = b}
           i == Copy(b)
       IN \/ /\ queued # {}
             /\ \E q \in queued : /\ \A j \in queued : q <= j
                                  /\ buf' = [buf EXCEPT ![rd.queue[q]].data = v]
             /\ last' = Done(c, "write", b, v)
             /\ UNCHANGED <<rd, pc>>
          \/ /\ queued = {} /\ i # 0
             /\ LET n == rd.cache[i] IN
                /\ buf' = [buf EXCEPT ![n] = WriteRequest(c, b, v)]
                /\ rd' = Retaken([Without(n) EXCEPT !.queue = Append(@, n), !.req = @ + 1])
             /\ last' = Done(c, "write", b, v)
             /\ UNCHANGED pc
          \/ /\ queued = {} /\ i = 0
             /\ NeedsBuffer(c, "write", b, v)
             /\ UNCHANGED <<buf, last>>
    /\ UNCHANGED <<comm, net, mail, status>>

\* rdscontrol(RDS_CTL_SYNC)
Sync(c) == /\ Calls(c, "sync") /\ rd.state = "open"
           /\ NeedsBuffer(c, "sync", 0, Zero)
           /\ UNCHANGED <<buf, comm, net, mail, last, status>>

\* The rest of the three calls, with a buffer in hand.  SYNC resumes a process
\* that is not suspended instead of signalling rd_reqsem.
Request(c) ==
    /\ status = "up" /\ pc[c].at = "granted"
    /\ LET n == rdsbufalloc
           w == pc[c].op = "write"
           s == pc[c].op = "sync"
       IN IF n = NULL
          THEN status' = "panic" /\ UNCHANGED <<rd, buf, pc, mail, last>>
          ELSE /\ buf' = [buf EXCEPT ![n] = IF w THEN WriteRequest(c, pc[c].blk, pc[c].val)
                                            ELSE [op |-> pc[c].op, refcnt |-> 1, blk |-> pc[c].blk, valid |-> FALSE,
                                                  pid |-> c, data |-> buf[n].data]]
               /\ rd' = [Without(n) EXCEPT !.queue = Append(@, n), !.req = IF s THEN @ ELSE @ + 1]
               /\ pc' = [pc EXCEPT ![c] = IF w THEN Idle ELSE [@ EXCEPT !.at = "receive"]]
               /\ mail' = IF w THEN mail ELSE [mail EXCEPT ![c] = NULL]
               /\ last' = IF w THEN Done(c, "write", pc[c].blk, pc[c].val) ELSE last
               /\ UNCHANGED status
    /\ UNCHANGED <<comm, net, srv, calls, load>>

\* The loop that looks for an older copy in the cache never advances: unless
\* the buffer is the newest in the cache, the process does not leave it.
ReadEnds(c) ==
    /\ status = "up" /\ pc[c].at = "receive" /\ pc[c].op = "read" /\ mail[c] # NULL
    /\ LET n == mail[c]
           unread == buf[n].refcnt <= 1
       IN /\ buf' = [buf EXCEPT ![n].refcnt = @ - 1]
          /\ IF unread /\ Head(rd.cache) # n
             THEN pc' = [pc EXCEPT ![c].at = "spins"] /\ UNCHANGED last
             ELSE /\ pc' = [pc EXCEPT ![c] = Idle]
                  /\ last' = Done(c, "read", pc[c].blk, buf[n].data)
    /\ mail' = [mail EXCEPT ![c] = NULL]
    /\ UNCHANGED <<rd, comm, net, srv, status, calls, load>>

SyncEnds(c) == /\ status = "up" /\ pc[c].at = "receive" /\ pc[c].op = "sync" /\ mail[c] # NULL
               /\ pc' = [pc EXCEPT ![c] = Idle] /\ mail' = [mail EXCEPT ![c] = NULL]
               /\ UNCHANGED <<rd, buf, comm, net, srv, last, status, calls, load>>

\* rdsclose; the device must have nothing to do.
CanClose == rd.state = "open" /\ rd.queue = <<>>
Closed == [rd EXCEPT !.state = "free", !.cache = <<>>, !.free = Reverse(rd.cache) \o @]
Invalid == [n \in Bufs |-> IF n \in Range(rd.cache) THEN [buf[n] EXCEPT !.valid = FALSE] ELSE buf[n]]

rdsclose(c) == /\ Calls(c, "close") /\ CanClose
               /\ rd' = Closed /\ buf' = Invalid
               /\ UNCHANGED <<comm, net, pc, mail, last, status>>

\* rdscontrol(RDS_CTL_DEL) does not wait for requests that are queued.
Delete(c) == /\ Calls(c, "delete") /\ rd.state = "open"
             /\ Exchange(c, rd, Message("delete", rd.id, NULL, NULL))
             /\ pc' = [pc EXCEPT ![c] = [Idle EXCEPT !.at = "deleting"]]
             /\ UNCHANGED <<buf, net, mail, last>>

DeleteEnds(c) == /\ InComm("done") /\ comm.who = c /\ pc[c].at = "deleting"
                 /\ IF comm.ok /\ CanClose THEN rd' = Closed /\ buf' = Invalid
                    ELSE UNCHANGED <<rd, buf>>
                 /\ comm' = NULL /\ pc' = [pc EXCEPT ![c] = Idle]
                 /\ UNCHANGED <<net, srv, mail, last, status, calls, load>>

(***************************************************************************)
(* rdsprocess.                                                             *)
(***************************************************************************)
Communicates == comm # NULL /\ comm.who = Comproc
Takes(op) == /\ status = "up" /\ rd.req > 0 /\ ~Communicates
             /\ rd.queue # <<>> /\ buf[Head(rd.queue)].op = op
             /\ UNCHANGED <<net, srv, last, calls, load>>

\* The request stays at the head of the queue until the data is there.
Fetch == /\ Takes("read")
         /\ Exchange(Comproc, [rd EXCEPT !.req = @ - 1], Message("read", rd.id, buf[Head(rd.queue)].blk, NULL))
         /\ UNCHANGED <<buf, pc, mail>>

Store == /\ Takes("write")
         /\ LET n == Head(rd.queue) IN
            /\ Exchange(Comproc, SignalAvail([rd EXCEPT !.req = @ - 1, !.queue = Tail(@), !.cache = <<n>> \o @]),
                        Message("write", rd.id, buf[n].blk, buf[n].data))
            /\ buf' = [buf EXCEPT ![n].refcnt = 0]
         /\ pc' = Woken(rd, pc)
         /\ UNCHANGED mail

SyncDone == /\ Takes("sync")
            /\ LET n == Head(rd.queue) IN
               /\ mail' = [mail EXCEPT ![buf[n].pid] = "OK"]
               /\ rd' = SignalAvail([rd EXCEPT !.req = @ - 1, !.queue = Tail(@), !.free = <<n>> \o @])
            /\ pc' = Woken(rd, pc)
            /\ UNCHANGED <<buf, comm, status>>

\* Another request for the block, whatever it asks for, is lasted as well,
\* and unlinked with the links of the wrong buffer: the lists are then broken.
FetchEnds ==
    /\ InComm("done") /\ comm.who = Comproc /\ comm.msg.op = "read"
    /\ comm' = NULL
    /\ LET n == Head(rd.queue) IN
       IF ~comm.ok THEN status' = "panic" /\ UNCHANGED <<rd, buf, pc, mail>>
       ELSE /\ status' = IF FirstFor(Tail(rd.queue), buf[n].blk) # 0 THEN "wild" ELSE status
            /\ rd' = SignalAvail([rd EXCEPT !.queue = Tail(@), !.cache = <<n>> \o @])
            /\ pc' = Woken(rd, pc)
            /\ buf' = [buf EXCEPT ![n].data = comm.val, ![n].refcnt = 1]
            /\ mail' = [mail EXCEPT ![buf[n].pid] = n]
    /\ UNCHANGED <<net, srv, last, calls, load>>

StoreEnds == /\ InComm("done") /\ comm.who = Comproc /\ comm.msg.op = "write"
             /\ IF comm.ok THEN comm' = NULL /\ UNCHANGED status
                ELSE status' = "panic" /\ UNCHANGED comm
             /\ UNCHANGED <<rd, buf, net, srv, pc, mail, last, calls, load>>

ClientNext(c) == \/ \E id \in load[c].ids : rdsopen(c, id)
                 \/ OpenRefused(c) \/ OpenEnds(c)
                 \/ \E b \in Blocks : rdsread(c, b)
                 \/ \E b \in Blocks, v \in Values : rdswrite(c, b, v)
                 \/ Sync(c) \/ Request(c) \/ ReadEnds(c) \/ SyncEnds(c)
                 \/ rdsclose(c) \/ Delete(c) \/ DeleteEnds(c)
ProcessNext == Fetch \/ Store \/ SyncDone \/ FetchEnds \/ StoreEnds
ExchangeNext == Transmit \/ GiveUp \/ Timeout \/ Receive
Next == \/ \E c \in Clients : ClientNext(c)
        \/ ProcessNext \/ ExchangeNext \/ Lose \/ Deliver \/ Serve

\* Nobody has to call; what has begun goes on, and the wire and the server do
\* not keep a packet for ever.
Fairness == /\ \A c \in Clients : WF_vars(OpenEnds(c) \/ Request(c) \/ ReadEnds(c) \/ SyncEnds(c) \/ DeleteEnds(c))
            /\ WF_vars(ProcessNext) /\ WF_vars(ExchangeNext)
            /\ WF_vars(Deliver) /\ WF_vars(Serve)
Spec == Init /\ [][Next]_vars /\ Fairness

(***************************************************************************)
(* Properties.                                                             *)
(***************************************************************************)
\* Does one client have the disk to itself?
Alone == \E c \in Clients : \A d \in Clients \ {c} : load[d].ops = {}

\* Every buffer is in one list.  While one client has the disk to itself,
\* rd_availsem counts those that rdsbufalloc may take, the free ones and the
\* cached ones, less the one that the client was given and has yet to take:
\* rdswrite, which takes a cached buffer behind the back of the semaphore, and
\* rdsclose keep the two in step.
BuffersSound ==
    status = "up" =>
       LET all == rd.queue \o rd.cache \o rd.free
           granted == {c \in Clients : pc[c].at = "granted"}
       IN /\ IsInjective(all) /\ Range(all) = Bufs
          /\ Alone => Len(rd.cache) + Len(rd.free) = (IF rd.avail > 0 THEN rd.avail ELSE 0) + Cardinality(granted)
          /\ rd.avail < 0 => -rd.avail = Len(rd.waiters)

\* The reply that rdscomm takes is the reply to this request.  When replies may
\* be late it takes the reply to an earlier request of the same type.
ReplyMatches == [][comm # NULL /\ comm.at = "recv" /\ comm'.at = "done" => Head(net.in).seq = comm.msg.seq]_vars

\* The last write to a block is in the queue, or in the cache, or on its way, or
\* in the file.
Current(b) ==
    LET i == SelectLastInSeq(rd.queue, LAMBDA n : buf[n].blk = b /\ buf[n].op = "write") IN
    IF i # 0 THEN buf[rd.queue[i]].data
    ELSE IF CacheHit(b) THEN buf[rd.cache[FirstFor(rd.cache, b)]].data
    ELSE IF comm # NULL /\ comm.msg.op = "write" /\ comm.msg.blk = b THEN comm.msg.val
    ELSE srv.file[b]

\* The queue, the cache, the exchange and the server together are a disk: a
\* read returns the last write whichever of them it comes from. What was refused
\* is a success to the client (snderr), so that a block which nobody wrote, or
\* which is lost because the server has no such disk, may read as anything.
Doomed == ~srv.exists \/ (comm # NULL /\ comm.msg.op = "delete")
Disk == INSTANCE BlockStore WITH store <- [b \in Blocks |-> Current(b)], doomed <- Doomed
ImplementsDisk == Disk!Spec

\* An open, a read or a write that has begun ends, or the kernel panics, however
\* many packets are lost, if the client has the disk to itself.
CallsEnd == \A c \in Clients :
    (pc[c].at # "idle" /\ Alone)
        ~> (pc[c].at = "idle" \/ status # "up")
====
