------------------------------- MODULE Kernel -------------------------------
(***************************************************************************)
(* The process manager: scheduling, creation and death, suspension,         *)
(* semaphores, messages, sleeping and the clock.                            *)
(*                                                                         *)
(* A system call runs with interrupts disabled up to the point where it     *)
(* calls resched, so it is one action up to there.  Most calls have nothing *)
(* left to do when their caller runs again; pc says which ones do.  A call  *)
(* that returns SYSERR changes nothing and is no action.                    *)
(*                                                                         *)
(* Deferred rescheduling (resched_cntl) is used around loops that ready     *)
(* several processes: they are all readied first, then there is one resched *)
(* if there was a reason for one.  Frames and heaps are in Paging; here no  *)
(* process is blocked for a frame.                                          *)
(***************************************************************************)
EXTENDS Integers, SequencesExt

CONSTANTS
  NPROC,      \* entries of the process table; 0 is the null process
  NSEM,       \* entries of the semaphore table
  QUANTUM,    \* ticks of a time slice
  MaxCount,   \* bound on semaphore counts
  Loads       \* workloads, one of which the processes follow

\* A workload has the calls each process makes, the priorities it gives to
\* others and the delays it asks for.  The null process makes no calls: nulluser
\* ends in an empty loop.
ASSUME KernelAssumption ==
  /\ NPROC \in Nat \ {0, 1} /\ NSEM \in Nat /\ QUANTUM \in Nat \ {0}
  /\ MaxCount \in Nat
  /\ \A l \in Loads : /\ l.calls \subseteq (1 .. NPROC - 1) \X STRING
                       /\ l.prios \subseteq Nat \ {0} /\ l.delays \subseteq Nat

VARIABLES
  k,        \* the kernel's tables
  pc,       \* what each process has left of an interrupted call
  halted,   \* xdone
  load,     \* the workload
  due       \* history: ticks that each sleeper has asked for and not yet slept

vars == <<k, pc, halted, load, due>>

Pid == 0 .. NPROC - 1
User == 1 .. NPROC - 1
Sem == 0 .. NSEM - 1
NULLPROC == 0

-----------------------------------------------------------------------------
(* Queues of processes with a key.                                          *)

Entry(p, key) == [pid |-> p, key |-> key]

\* Where p is on a list.
Place(list, p) == CHOOSE i \in 1 .. Len(list) : list[i].pid = p

\* getitem.
Without(list, p) == RemoveAt(list, Place(list, p))

\* getitem, on the queue of a semaphore, where processes have no key.
Left(queue, p) == RemoveAt(queue, CHOOSE i \in 1 .. Len(queue) : queue[i] = p)

\* Where a loop down a list stops: at the first of the places, or at its end.
First(list, places) == Min(places \cup {Len(list) + 1})

\* Mutant: before the processes of the same priority.
insert_BeforeEquals(list, p, key) ==
  LET n == Cardinality({i \in 1 .. Len(list) : list[i].key > key})
  IN InsertAt(list, n + 1, Entry(p, key))

\* insert: descending, after the processes of the same priority.
insert(list, p, key) ==
  LET n == Cardinality({i \in 1 .. Len(list) : list[i].key >= key})
  IN InsertAt(list, n + 1, Entry(p, key))

\* The delays of the processes of a delta list, and of the i-th of them.
Delays(list) ==
  LET sum[j \in 0 .. Len(list)] == IF j = 0 THEN 0 ELSE sum[j - 1] + list[j].key IN sum
Delay(list, i) == Delays(list)[i]

\* Mutant: the next one's key stays as it is.
insertd_KeepsNext(list, p, delay) ==
  LET i == First(list, {j \in 1 .. Len(list) : Delay(list, j) > delay})
  IN InsertAt(list, i, Entry(p, delay - Delay(list, i - 1)))

\* insertd: behind those that wake no later; the next one's key gets smaller.
insertd(list, p, delay) ==
  LET i   == First(list, {j \in 1 .. Len(list) : Delay(list, j) > delay})
      key == delay - Delay(list, i - 1)
  IN InsertAt([j \in 1 .. Len(list) |->
                 IF j = i THEN [list[j] EXCEPT !.key = @ - key] ELSE list[j]],
              i, Entry(p, key))

\* Mutant: the process behind does not get the delay.
unsleep_KeepsNext(list, p) == Without(list, p)

\* unsleep: the process behind gets the delay.
unsleep(list, p) ==
  LET i == Place(list, p) IN
  RemoveAt([j \in 1 .. Len(list) |->
              IF j = i + 1 THEN [list[j] EXCEPT !.key = @ + list[i].key] ELSE list[j]], i)

-----------------------------------------------------------------------------
(* The scheduler, on the tables s.                                          *)

\* prsem is read in PR_WAIT only, so the model clears it here.
MakeReady(s, p) ==
  [s EXCEPT !.prstate[p] = "READY", !.prsem[p] = -1,
            !.readylist = insert(@, p, s.prprio[p])]

Dispatch(s) == LET p == Head(s.readylist).pid IN
  [s EXCEPT !.readylist = Tail(@), !.currpid = p, !.prstate[p] = "CURR",
            !.preempt = QUANTUM]

resched(s) ==
  LET p == s.currpid IN
  IF s.prstate[p] # "CURR" THEN Dispatch(s)
  ELSE IF s.readylist = << >> \/ s.prprio[p] > Head(s.readylist).key THEN s
  ELSE Dispatch(MakeReady(s, p))

ready(s, p) == resched(MakeReady(s, p))

MakeAllReady(s, ps) ==
  LET made[i \in 0 .. Len(ps)] == IF i = 0 THEN s ELSE MakeReady(made[i - 1], ps[i])
  IN made[Len(ps)]

\* Mutant: the end of the deferral does not look at Defer.attempt.
ReadyAll_NoAttempt(s, ps) == MakeAllReady(s, ps)

\* ready for each of ps between DEFER_START and DEFER_STOP.
ReadyAll(s, ps) ==
  IF ps = << >> THEN s ELSE resched(MakeAllReady(s, ps))

\* A state for the current process in which it does not run.
Blocked(s, state) == [s EXCEPT !.prstate[s.currpid] = state]

\* Mutant: a process in a timed receive is left where it is.
send_NotTimed(s, p) ==
  IF s.prstate[p] = "FREE" \/ s.prhasmsg[p] THEN s
  ELSE LET s1 == [s EXCEPT !.prhasmsg[p] = TRUE] IN
       IF s.prstate[p] = "RECV" THEN ready(s1, p) ELSE s1

\* send: one message at most; who waits for it becomes ready.
send(s, p) ==
  IF s.prstate[p] = "FREE" \/ s.prhasmsg[p] THEN s
  ELSE LET s1 == [s EXCEPT !.prhasmsg[p] = TRUE] IN
       IF s.prstate[p] = "RECV" THEN ready(s1, p)
       ELSE IF s.prstate[p] = "RECTIM"
            THEN ready([s1 EXCEPT !.sleepq = unsleep(@, p)], p)
       ELSE s1

\* Mutant: a process that is ready stays on the ready list.
Removed_StaysReady(s, p) ==
  CASE s.prstate[p] \in {"SLEEP", "RECTIM"} -> [s EXCEPT !.sleepq = unsleep(@, p)]
    [] s.prstate[p] = "WAIT" -> LET sem == s.prsem[p] IN
         [s EXCEPT !.scount[sem] = @ + 1, !.squeue[sem] = Left(@, p)]
    [] OTHER -> s

\* Mutant: the count of the semaphore stays as it is.
Removed_NoCount(s, p) ==
  CASE s.prstate[p] \in {"SLEEP", "RECTIM"} -> [s EXCEPT !.sleepq = unsleep(@, p)]
    [] s.prstate[p] = "WAIT" -> [s EXCEPT !.squeue[s.prsem[p]] = Left(@, p)]
    [] s.prstate[p] = "READY" -> [s EXCEPT !.readylist = Without(@, p)]
    [] OTHER -> s

\* The switch on prstate in kill: p leaves the queue it is in.
Removed(s, p) ==
  CASE s.prstate[p] \in {"SLEEP", "RECTIM"} -> [s EXCEPT !.sleepq = unsleep(@, p)]
    [] s.prstate[p] = "WAIT" -> LET sem == s.prsem[p] IN
         [s EXCEPT !.scount[sem] = @ + 1, !.squeue[sem] = Left(@, p)]
    [] s.prstate[p] = "READY" -> [s EXCEPT !.readylist = Without(@, p)]
    [] OTHER -> s

\* The fields of a free entry are never read before create has set them all,
\* so the model clears them here.
Freed(s, p) ==
  [Removed(s, p) EXCEPT !.prstate[p] = "FREE", !.prhasmsg[p] = FALSE,
                        !.prprio[p] = 0, !.prsem[p] = -1, !.prparent[p] = NULLPROC]

-----------------------------------------------------------------------------
InUser == [at |-> "user"]
At(at, arg) == [at |-> at, arg |-> arg]

me == k.currpid

\* The current process makes a system call.
Calling(call) == ~ halted /\ pc[me] = InUser /\ <<me, call>> \in load.calls

Sleepers(s) == {s.sleepq[i].pid : i \in 1 .. Len(s.sleepq)}

\* The tables after a call are s, ticks more have passed for those asleep, and
\* the caller, if it does not run any more, has left at still to do.
Goes(s, at, ticks) == \E t \in {s} :
  /\ k' = t
  /\ pc' = IF t.currpid = me THEN pc ELSE [pc EXCEPT ![me] = at]
  /\ due' = [p \in Pid |-> IF p \notin Sleepers(t) \/ due[p] < ticks THEN 0
                           ELSE due[p] - ticks]
  /\ UNCHANGED <<halted, load>>

\* A call with nothing left to do after it has switched.
Does(s) == Goes(s, InUser, 0)

\* sysinit and nulluser, and the startup process that nulluser has created and
\* resumed.
Init ==
  /\ load \in Loads
  /\ \E prio \in load.prios :
       k = [prstate |-> [p \in Pid |-> CASE p = 0 -> "READY" [] p = 1 -> "CURR"
                                       [] OTHER -> "FREE"],
            prprio |-> [p \in Pid |-> IF p = 1 THEN prio ELSE 0],
            prsem |-> [p \in Pid |-> -1],
            prparent |-> [p \in Pid |-> NULLPROC],
            prhasmsg |-> [p \in Pid |-> FALSE],
            prcount |-> 2, nextpid |-> 2 % NPROC,
            readylist |-> <<Entry(NULLPROC, 0)>>, currpid |-> 1,
            sleepq |-> << >>, preempt |-> QUANTUM,
            sstate |-> [s \in Sem |-> "FREE"], scount |-> [s \in Sem |-> 0],
            squeue |-> [s \in Sem |-> << >>], nextsem |-> 0]
  /\ pc = [p \in Pid |-> InUser]
  /\ halted = FALSE
  /\ due = [p \in Pid |-> 0]

-----------------------------------------------------------------------------
(* Processes.                                                               *)

\* The first entry from next on, going round, with the given state.
FirstFree(state, next, n) ==
  LET at(i) == (next + i) % n IN
  at(CHOOSE i \in 0 .. n - 1 :
       state[at(i)] = "FREE" /\ \A j \in 0 .. i - 1 : state[at(j)] # "FREE")

\* newpid leaves nextpid one past the entry, NPROC included.
create ==
  /\ Calling("create") /\ \E p \in Pid : k.prstate[p] = "FREE"
  /\ \E prio \in load.prios :
       LET p == FirstFree(k.prstate, k.nextpid, NPROC) IN
       Does([k EXCEPT !.prstate[p] = "SUSP", !.prprio[p] = prio,
                      !.prparent[p] = me, !.prhasmsg[p] = FALSE,
                      !.prcount = @ + 1, !.nextpid = (p + 1) % NPROC])

resume(p) == Calling("resume") /\ k.prstate[p] = "SUSP" /\ Does(ready(k, p))

suspend(p) ==
  /\ Calling("suspend") /\ p # NULLPROC
  /\ \/ /\ k.prstate[p] = "READY"
        /\ Does([k EXCEPT !.readylist = Without(@, p), !.prstate[p] = "SUSP"])
     \/ /\ k.prstate[p] = "CURR"
        /\ Does(resched(Blocked(k, "SUSP")))

\* chprio: the ready list keeps the key that the process had.
chprio(p, prio) ==
  /\ Calling("chprio") /\ k.prstate[p] # "FREE"
  /\ Does([k EXCEPT !.prprio[p] = prio])

yield == Calling("yield") /\ Does(resched(k))

\* kill up to its send, during which the parent may run.
kill(p) ==
  /\ Calling("kill") \/ (Calling("exit") /\ p = me)
  /\ p # NULLPROC /\ k.prstate[p] # "FREE"
  /\ LET s == [k EXCEPT !.prcount = @ - 1] IN
     IF s.prcount <= 1
     THEN k' = s /\ halted' = TRUE /\ UNCHANGED <<pc, load, due>>
     ELSE /\ k' = send(s, s.prparent[p])
          /\ pc' = [pc EXCEPT ![me] = At("kill", p)]
          /\ due' = [q \in Pid |-> IF q \in Sleepers(k') THEN due[q] ELSE 0]
          /\ UNCHANGED <<halted, load>>

\* The rest of it, on whatever the victim is by now.
KillEnds ==
  /\ ~ halted /\ pc[me].at = "kill"
  /\ LET p == pc[me].arg IN
     /\ k' = IF p = me THEN resched(Freed(k, p)) ELSE Freed(k, p)
     /\ pc' = [pc EXCEPT ![me] = InUser, ![p] = InUser]
     /\ due' = [due EXCEPT ![p] = 0]
     /\ UNCHANGED <<halted, load>>

-----------------------------------------------------------------------------
(* Semaphores.                                                              *)

wait(s) ==
  /\ Calling("wait") /\ k.sstate[s] = "USED"
  /\ LET k1 == [k EXCEPT !.scount[s] = @ - 1] IN
     Does(IF k1.scount[s] >= 0 THEN k1
          ELSE resched([Blocked(k1, "WAIT") EXCEPT !.prsem[me] = s,
                                                   !.squeue[s] = Append(@, me)]))

\* The processes that n signals release.
Released(s, n) == Min({n, IF k.scount[s] < 0 THEN -k.scount[s] ELSE 0})

signaln(s, n) ==
  /\ Calling("signal") /\ k.sstate[s] = "USED" /\ k.scount[s] + n <= MaxCount
  /\ LET r == Released(s, n) IN
     Does(ReadyAll([k EXCEPT !.scount[s] = @ + n,
                             !.squeue[s] = SubSeq(@, r + 1, Len(@))],
                   SubSeq(k.squeue[s], 1, r)))

\* semcreate; newsem leaves nextsem one past the entry.
semcreate(n) ==
  /\ Calling("semcreate") /\ \E s \in Sem : k.sstate[s] = "FREE"
  /\ LET s == FirstFree(k.sstate, k.nextsem, NSEM) IN
     Does([k EXCEPT !.sstate[s] = "USED", !.scount[s] = n,
                    !.nextsem = (s + 1) % NSEM])

\* The count of a free semaphore is never read: it is 0 in the model.
semdelete(s) ==
  /\ Calling("semdelete") /\ k.sstate[s] = "USED"
  /\ Does(ReadyAll([k EXCEPT !.sstate[s] = "FREE", !.scount[s] = 0, !.squeue[s] = << >>],
                   k.squeue[s]))

semreset(s, n) ==
  /\ Calling("semreset") /\ k.sstate[s] = "USED"
  /\ Does(ReadyAll([k EXCEPT !.scount[s] = n, !.squeue[s] = << >>], k.squeue[s]))

-----------------------------------------------------------------------------
(* Messages.                                                                *)

Send(p) ==
  /\ Calling("send") /\ k.prstate[p] # "FREE" /\ ~ k.prhasmsg[p]
  /\ Does(send(k, p))

\* receive and recvtime without a message at hand.
receive ==
  /\ Calling("receive") /\ ~ k.prhasmsg[me]
  /\ Goes(resched(Blocked(k, "RECV")), At("receive", me), 0)

recvtime(maxwait) ==
  /\ Calling("recvtime") /\ ~ k.prhasmsg[me]
  /\ k' = resched([Blocked(k, "RECTIM") EXCEPT !.sleepq = insertd(@, me, maxwait)])
  /\ pc' = [pc EXCEPT ![me] = At("receive", me)]
  /\ due' = [due EXCEPT ![me] = maxwait]
  /\ UNCHANGED <<halted, load>>

\* The end of both, and recvclr: the message, if any, is taken.
TakeMessage ==
  /\ \/ ~ halted /\ pc[me].at = "receive"
     \/ k.prhasmsg[me] /\ (Calling("receive") \/ Calling("recvtime") \/ Calling("recvclr"))
  /\ k' = [k EXCEPT !.prhasmsg[me] = FALSE]
  /\ pc' = [pc EXCEPT ![me] = InUser]
  /\ UNCHANGED <<halted, load, due>>

-----------------------------------------------------------------------------
(* Time.                                                                    *)

\* sleepms; a delay of 0 is a yield.
sleepms(delay) ==
  /\ Calling("sleep") /\ delay > 0
  /\ k' = resched([Blocked(k, "SLEEP") EXCEPT !.sleepq = insertd(@, me, delay)])
  /\ due' = [due EXCEPT ![me] = delay]
  /\ UNCHANGED <<pc, halted, load>>

\* How many processes wakeup takes off the list: those before the first delay.
Expired(list) ==
  Cardinality({i \in 1 .. Len(list) : \A j \in 1 .. i : list[j].key <= 0})

\* The loop of wakeup, on the list after the first delay was decremented.
wakeup(s) ==
  LET n == Expired(s.sleepq) IN
  MakeAllReady([s EXCEPT !.sleepq = SubSeq(@, n + 1, Len(@))],
               [i \in 1 .. n |-> s.sleepq[i].pid])

\* The preemption counter, at the end of clkhandler.
Preempt(s) ==
  IF s.preempt > 1 THEN [s EXCEPT !.preempt = @ - 1]
  ELSE resched([s EXCEPT !.preempt = QUANTUM])

\* clkhandler.  At the end of the deferral in wakeup the interrupted process may
\* be switched away; it does the rest when it runs again.
clkhandler ==
  /\ ~ halted /\ pc[me] = InUser
  /\ \E ticked \in {IF k.sleepq = << >> THEN k ELSE [k EXCEPT !.sleepq[1].key = @ - 1]} :
     \E woken \in {wakeup(ticked)} :
     \E s \in {IF woken = ticked THEN woken ELSE resched(woken)} :
       IF s.currpid = me THEN Goes(Preempt(s), InUser, 1)
       ELSE Goes(s, At("clock", me), 1)

ClockEnds ==
  /\ ~ halted /\ pc[me].at = "clock"
  /\ k' = Preempt(k)
  /\ pc' = [pc EXCEPT ![me] = InUser]
  /\ UNCHANGED <<halted, load, due>>

-----------------------------------------------------------------------------
Next ==
  \/ create \/ yield \/ receive \/ TakeMessage
  \/ clkhandler \/ ClockEnds \/ KillEnds
  \/ \E p \in Pid : \/ resume(p) \/ suspend(p) \/ kill(p) \/ Send(p)
                    \/ \E prio \in load.prios : chprio(p, prio)
  \/ \E s \in Sem : \/ wait(s) \/ semdelete(s)
                    \/ \E n \in 1 .. NPROC - 1 : signaln(s, n)
                    \/ \E n \in 0 .. MaxCount : semreset(s, n)
  \/ \E n \in 0 .. MaxCount : semcreate(n)
  \/ \E d \in load.delays : recvtime(d) \/ sleepms(d)

\* The processor goes on with a call that is not over, and a clock interrupt
\* that comes while interrupts are disabled stays pending until they are not.
Fairness ==
  /\ WF_vars(KillEnds \/ ClockEnds \/ (pc[me].at = "receive" /\ TakeMessage))
  /\ SF_vars(clkhandler)

Spec == Init /\ [][Next]_vars /\ Fairness

-----------------------------------------------------------------------------
State == {"FREE", "CURR", "READY", "SUSP", "RECV", "RECTIM", "SLEEP", "WAIT"}

Entries == [pid : Pid, key : Int]

\* Every field has its type; nothing runs below the bounds of the tables.
TypeOK ==
  /\ k.prstate \in [Pid -> State] /\ k.prprio \in [Pid -> Nat]
  /\ k.prsem \in [Pid -> Sem \cup {-1}] /\ k.prparent \in [Pid -> Pid]
  /\ k.prhasmsg \in [Pid -> BOOLEAN] /\ k.prcount \in 1 .. NPROC
  /\ k.nextpid \in Pid /\ k.currpid \in Pid /\ k.preempt \in 1 .. QUANTUM
  /\ k.readylist \in Seq(Entries) /\ k.sleepq \in Seq(Entries)
  /\ k.sstate \in [Sem -> {"FREE", "USED"}] /\ k.scount \in [Sem -> -NPROC .. MaxCount]
  /\ k.squeue \in [Sem -> Seq(User)] /\ k.nextsem \in Sem \cup {0}
  /\ pc \in [Pid -> {InUser} \cup {At(a, p) : a \in {"kill", "receive", "clock"}, p \in Pid}]
  /\ halted \in BOOLEAN /\ load \in Loads /\ due \in [Pid -> Nat]

Ready == <<"ready", 0>>
Asleep == <<"sleep", 0>>
On(sem) == <<"sem", sem>>

\* The queues that p is on, with its position there.
Places(p) ==
  {<<Ready, i>> : i \in {j \in 1 .. Len(k.readylist) : k.readylist[j].pid = p}}
  \cup {<<Asleep, i>> : i \in {j \in 1 .. Len(k.sleepq) : k.sleepq[j].pid = p}}
  \cup UNION {{<<On(s), i>> : i \in {j \in 1 .. Len(k.squeue[s]) : k.squeue[s][j] = p}}
              : s \in Sem}

\* The queue that its state calls for.
Home(p) ==
  CASE k.prstate[p] = "READY" -> {Ready}
    [] k.prstate[p] \in {"SLEEP", "RECTIM"} -> {Asleep}
    [] k.prstate[p] = "WAIT" -> {On(k.prsem[p])}
    [] OTHER -> {}

\* queuetab has one node per process, so a process may be on one queue at most,
\* and kill, suspend, send and semdelete rely on its being on the one that
\* prstate says; the ready list is in the order dequeue relies on.
QueuesSound ==
  /\ \A p \in Pid : /\ {place[1] : place \in Places(p)} = Home(p)
                    /\ Cardinality(Places(p)) <= 1
                    /\ k.prstate[p] = "CURR" <=> p = me
  /\ \A i, j \in 1 .. Len(k.readylist) :
       i < j => k.readylist[i].key >= k.readylist[j].key

\* A negative count is the number of processes that wait, whoever was killed,
\* released or reset in between (wait.c:29-35, kill.c:55-61); a semaphore that
\* is free or positive has nobody waiting.
SemaphoresExact ==
  \A s \in Sem :
    /\ Len(k.squeue[s]) = (IF k.scount[s] < 0 THEN -k.scount[s] ELSE 0)
    /\ k.sstate[s] = "FREE" => k.squeue[s] = << >>

\* The delta list adds up: the delays up to a process make what it still has to
\* sleep, whatever was inserted, removed or woken before it.  A recvtime of 0
\* ticks uses up one tick of everybody behind it; then nobody wakes early.
DelayExact ==
  \A i \in 1 .. Len(k.sleepq) :
    LET left == Delay(k.sleepq, i)
        p    == k.sleepq[i].pid
    IN IF 0 \in load.delays THEN left >= due[p] ELSE left = due[p] /\ left > 0

\* Nobody waits for a message with one at hand (send.c:28-38, recvtime.c:25-37).
NoMessageMissed ==
  \A p \in Pid : k.prstate[p] \in {"RECV", "RECTIM"} => ~ k.prhasmsg[p]

Makes(call) == \E p \in User : <<p, call>> \in load.calls

\* resched.c:8 "Reschedule processor to highest priority eligible process": no
\* process that is ready has a priority above the one that runs, also after
\* the loops that defer rescheduling.  chprio does not reschedule.
HighestRuns ==
  ~ Makes("chprio") /\ k.readylist # << >> => k.prprio[me] >= Head(k.readylist).key

\* Processes of one priority take turns: the clock preempts whoever runs and
\* puts it behind those that are ready.
NoStarvation ==
  \A p \in User :
    k.prstate[p] = "READY" /\ Cardinality(load.prios) = 1
      ~> k.prstate[p] # "READY" \/ halted

\* Who sleeps or waits for a limited time wakes up (sleep.c:39-47,
\* recvtime.c:25-31), unless others call recvtime with 0 again and again: each
\* of these calls takes the next tick from all who sleep.
TimedWaitsEnd ==
  \A p \in User :
    k.prstate[p] \in {"SLEEP", "RECTIM"} /\ 0 \notin load.delays
      ~> k.prstate[p] \notin {"SLEEP", "RECTIM"} \/ halted
=============================================================================
