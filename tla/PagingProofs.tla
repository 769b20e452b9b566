---------------------------- MODULE PagingProofs ----------------------------
(***************************************************************************)
(* Demand paging for every number of processes, pages and frames: types,    *)
(* scheduler and queue of blocked processes whatever the workload, and the  *)
(* frames of region D and the wakeups if processes end by themselves.       *)
(* First the lemmas: what the operators of Paging do, the scheduler's on    *)
(* its lists, and those of the fault handler on page tables and frames;     *)
(* then the steps and the theorems.                                         *)
(***************************************************************************)
EXTENDS Paging, FrameLemmas


-----------------------------------------------------------------------------
(* The ready list.                                                          *)

SysType == [prstate : [Pid -> ProcState], readylist : Seq(Pid), currpid : Pid,
            fbqueue : Seq(User)]

\* The processes of a list are there once each, by falling priority.
ByPriority(list) ==
  \A i, j \in 1 .. Len(list) :
    i < j => list[i] # list[j] /\ Prio[list[i]] >= Prio[list[j]]

\* A ready list in strict order has nobody twice.
LEMMA ByPriorityOnce ==
  ASSUME NEW list \in Seq(Pid), ByPriority(list)
  PROVE  NoRepeats(list)
<1> SUFFICES ASSUME NEW i \in 1 .. Len(list), NEW j \in 1 .. Len(list), list[i] = list[j], i # j
             PROVE  FALSE
  BY DEF NoRepeats
<1>1. CASE i < j
  BY <1>1 DEF ByPriority
<1>2. CASE j < i
  BY <1>2 DEF ByPriority
<1> QED
  BY <1>1, <1>2

\* The two names of a sequence's members.
LEMMA ToSetMembers ==
  ASSUME NEW S, NEW s \in Seq(S)
  PROVE  Members(s) = ToSet(s)
BY DEF Members, ToSet

\* What is at a place of a sequence is one of its members.
LEMMA ElementOf ==
  ASSUME NEW S, NEW s \in Seq(S), NEW i \in 1 .. Len(s)
  PROVE  s[i] \in ToSet(s)
BY DEF ToSet

\* Priorities are natural numbers.
LEMMA PrioNat == \A p \in Pid : Prio[p] \in Nat
BY PagingAssumption

\* The null process is a process and no user.
LEMMA NullProc == NULLPROC \in Pid /\ User \subseteq Pid /\ NULLPROC \notin User
BY FramesAssumption DEF User

\* insert of any process, on the list or not: the others stay where they are.
LEMMA InsertType ==
  ASSUME NEW list \in Seq(Pid), NEW p \in Pid
  PROVE  LET t == insert(list, p)
             n == Cardinality({i \in 1 .. Len(list) : Prio[list[i]] >= Prio[p]})
         IN  /\ t \in Seq(Pid) /\ Len(t) = Len(list) + 1 /\ n \in 0 .. Len(list)
             /\ \A j \in 1 .. Len(t) :
                  t[j] = IF j < n + 1 THEN list[j] ELSE IF j = n + 1 THEN p ELSE list[j - 1]
<1> DEFINE P == {i \in 1 .. Len(list) : Prio[list[i]] >= Prio[p]}
           n == Cardinality(P)
           m == n + 1
<1>1. n \in 0 .. Len(list)
  <2> DEFINE N == Len(list)
  <2>1. N \in Nat /\ P \subseteq 1 .. N
    OBVIOUS
  <2> HIDE DEF N, P
  <2>2. IsFiniteSet(1 .. N) /\ Cardinality(1 .. N) = N
    BY <2>1, FS_Interval
  <2>3. IsFiniteSet(P) /\ Cardinality(P) <= N
    BY <2>1, <2>2, FS_Subset
  <2>4. Cardinality(P) \in Nat
    BY <2>3, FS_CardinalityType
  <2> QED
    BY <2>1, <2>3, <2>4 DEF N
<1>2. insert(list, p) = InsertAt(list, m, p)
  BY DEF insert
<1> HIDE DEF n
<1>3. m \in 1 .. Len(list) + 1
  BY <1>1
<1> HIDE DEF m
<1>4. list \in Seq(Pid) /\ p \in Pid
  OBVIOUS
<1>5. Inserted(InsertAt(list, m, p), Pid, list, m, p)
  BY <1>3, <1>4, InsertShape
<1> QED
  BY <1>1, <1>2, <1>5 DEF m, n, Inserted

\* insert.c:9-36 adds the process to the list.
LEMMA InsertSet ==
  ASSUME NEW list \in Seq(Pid), NEW p \in Pid
  PROVE  ToSet(insert(list, p)) = ToSet(list) \cup {p}
<1> DEFINE n == Cardinality({i \in 1 .. Len(list) : Prio[list[i]] >= Prio[p]})
           t == insert(list, p)
<1>1. /\ t \in Seq(Pid) /\ Len(t) = Len(list) + 1 /\ n \in 0 .. Len(list)
      /\ \A j \in 1 .. Len(t) :
           t[j] = IF j < n + 1 THEN list[j] ELSE IF j = n + 1 THEN p ELSE list[j - 1]
  BY InsertType
<1> HIDE DEF n, t
<1>3. n + 1 \in 1 .. Len(list) + 1
  BY <1>1
<1>4. ASSUME NEW j \in 1 .. Len(t)
      PROVE  t[j] \in ToSet(list) \cup {p}
  <2>1. CASE j > n + 1
    <3>1. j - 1 \in 1 .. Len(list) /\ t[j] = list[j - 1]
      BY <1>1, <2>1
    <3> QED
      BY <3>1 DEF ToSet
  <2>2. CASE j <= n + 1
    BY <1>1, <2>2 DEF ToSet
  <2> QED
    BY <1>1, <2>1, <2>2
<1>5. p \in ToSet(t)
  <2>1. t[n + 1] = p /\ n + 1 \in 1 .. Len(t)
    BY <1>1, <1>3
  <2> QED
    BY <1>1, <2>1, SMTT(30) DEF ToSet
<1>6. ASSUME NEW i \in 1 .. Len(list)
      PROVE  list[i] \in ToSet(t)
  <2>1. CASE i <= n
    <3>1. t[i] = list[i] /\ i \in 1 .. Len(t)
      BY <1>1, <2>1
    <3> QED
      BY <1>1, <3>1, ElementOf
  <2>2. CASE i > n
    <3>1. t[i + 1] = list[i] /\ i + 1 \in 1 .. Len(t)
      BY <1>1, <2>2
    <3> QED
      BY <1>1, <3>1, ElementOf
  <2> QED
    BY <1>1, <2>1, <2>2
<1>7. ToSet(t) \subseteq ToSet(list) \cup {p}
  BY <1>1, <1>4 DEF ToSet
<1>8. ToSet(list) \subseteq ToSet(t)
  BY <1>6 DEF ToSet
<1> QED
  BY <1>5, <1>7, <1>8 DEF t

\* The processes of a list that go before p are the first ones.
LEMMA InsertBehind ==
  ASSUME NEW list \in Seq(Pid), ByPriority(list), NEW p \in Pid,
         NEW n, n = Cardinality({i \in 1 .. Len(list) : Prio[list[i]] >= Prio[p]})
  PROVE  \A i \in 1 .. Len(list) : Prio[list[i]] >= Prio[p] <=> i <= n
<1> DEFINE P == {i \in 1 .. Len(list) : Prio[list[i]] >= Prio[p]}
<1>1. P \in SUBSET (1 .. Len(list)) /\ Len(list) \in Nat
  OBVIOUS
<1>2. \A i \in P : \A j \in 1 .. i : j \in P
  <2> SUFFICES ASSUME NEW i \in P, NEW j \in 1 .. i, j # i
               PROVE  Prio[list[j]] >= Prio[p]
    OBVIOUS
  <2>1. Prio[list[j]] >= Prio[list[i]] /\ Prio[list[i]] >= Prio[p]
    BY DEF ByPriority
  <2>2. Prio[list[j]] \in Nat /\ Prio[list[i]] \in Nat /\ Prio[p] \in Nat
    BY PrioNat
  <2> QED
    BY <2>1, <2>2
<1>3. n = Cardinality(P)
  OBVIOUS
<1> HIDE DEF P
<1>4. n \in 0 .. Len(list) /\ P = 1 .. n
  BY <1>1, <1>2, <1>3, FirstPlaces
<1> QED
  BY <1>4 DEF P

\* insert (insert.c:9-36) keeps the list by priority.
LEMMA InsertList ==
  ASSUME NEW list \in Seq(Pid), ByPriority(list), NEW p \in Pid, p \notin ToSet(list)
  PROVE  LET t == insert(list, p) IN
         t \in Seq(Pid) /\ ToSet(t) = ToSet(list) \cup {p} /\ ByPriority(t)
<1> DEFINE n == Cardinality({i \in 1 .. Len(list) : Prio[list[i]] >= Prio[p]})
           t == insert(list, p)
<1>1. /\ t \in Seq(Pid) /\ Len(t) = Len(list) + 1 /\ n \in 0 .. Len(list)
      /\ \A j \in 1 .. Len(t) :
           t[j] = IF j < n + 1 THEN list[j] ELSE IF j = n + 1 THEN p ELSE list[j - 1]
  BY InsertType
<1>2. \A i \in 1 .. Len(list) : Prio[list[i]] >= Prio[p] <=> i <= n
  BY InsertBehind
<1> HIDE DEF n, t
<1>5. ToSet(t) = ToSet(list) \cup {p}
  BY InsertSet DEF t
<1>6. \A i \in 1 .. Len(list) : list[i] # p /\ list[i] \in Pid /\ Prio[list[i]] \in Nat
  BY PrioNat DEF ToSet
<1>7. Prio[p] \in Nat
  BY PrioNat
<1>8. ASSUME NEW i \in 1 .. Len(t), NEW j \in 1 .. Len(t), i < j
      PROVE  t[i] # t[j] /\ Prio[t[i]] >= Prio[t[j]]
  <2>1. CASE j < n + 1
    <3>1. i \in 1 .. Len(list) /\ j \in 1 .. Len(list) /\ t[i] = list[i] /\ t[j] = list[j]
      BY <1>1, <1>8, <2>1
    <3> QED
      BY <1>8, <3>1 DEF ByPriority
  <2>2. CASE j = n + 1
    <3>1. i \in 1 .. Len(list) /\ i <= n /\ t[i] = list[i] /\ t[j] = p
      BY <1>1, <1>8, <2>2
    <3> QED
      BY <1>2, <1>6, <3>1
  <2>3. CASE j > n + 1
    <3>1. j - 1 \in 1 .. Len(list) /\ ~ (j - 1 <= n) /\ t[j] = list[j - 1]
      BY <1>1, <2>3
    <3>2. CASE i < n + 1
      <4>1. i \in 1 .. Len(list) /\ t[i] = list[i] /\ i < j - 1
        BY <1>1, <2>3, <3>2
      <4> QED
        BY <3>1, <4>1 DEF ByPriority
    <3>3. CASE i = n + 1
      <4>1. t[i] = p
        BY <1>1, <3>3
      <4> QED
        BY <1>2, <1>6, <1>7, <3>1, <4>1
    <3>4. CASE i > n + 1
      <4>1. i - 1 \in 1 .. Len(list) /\ t[i] = list[i - 1] /\ i - 1 < j - 1
        BY <1>1, <1>8, <3>4
      <4> QED
        BY <3>1, <4>1 DEF ByPriority
    <3> QED
      BY <1>1, <3>2, <3>3, <3>4
  <2> QED
    BY <1>1, <2>1, <2>2, <2>3
<1> QED
  BY <1>1, <1>5, <1>8 DEF ByPriority, t

-----------------------------------------------------------------------------
(* The scheduler.                                                           *)

Runnable == {"READY", "CURR"}

\* SchedulerSound, of a state in which the current process may have given up
\* the processor; and the null process never does that for good.
Sched(s) ==
  /\ s \in SysType
  /\ ToSet(s.readylist) = {p \in Pid : s.prstate[p] = "READY"}
  /\ ByPriority(s.readylist)
  /\ \A p \in Pid : s.prstate[p] = "CURR" => p = s.currpid
  /\ s.prstate[NULLPROC] \in Runnable

Running(s) == Sched(s) /\ s.prstate[s.currpid] = "CURR"

\* Rescheduling only moves processes between READY and CURR.
SameBut(s, t) ==
  \A p \in Pid : t.prstate[p] = s.prstate[p]
                \/ (t.prstate[p] \in Runnable /\ s.prstate[p] \in Runnable)

\* The types of the scheduler's tables, one by one.
LEMMA SysFacts ==
  ASSUME NEW s \in SysType
  PROVE  /\ s.prstate \in [Pid -> ProcState] /\ s.readylist \in Seq(Pid)
         /\ s.currpid \in Pid /\ s.fbqueue \in Seq(User)
BY DEF SysType

\* ready.c:19-26 keeps the types; what it changes.
LEMMA ReadyType ==
  ASSUME NEW s \in SysType, NEW p \in Pid
  PROVE  LET t == Ready(s, p) IN
         /\ t \in SysType /\ t.readylist # << >>
         /\ t.readylist = insert(s.readylist, p)
         /\ t.prstate = [s.prstate EXCEPT ![p] = "READY"]
         /\ t.currpid = s.currpid /\ t.fbqueue = s.fbqueue
<1> DEFINE list == insert(s.readylist, p)
           states == [s.prstate EXCEPT ![p] = "READY"]
<1>1. s.readylist \in Seq(Pid) /\ s.prstate \in [Pid -> ProcState]
  BY SysFacts
<1>2. list \in Seq(Pid) /\ list # << >>
  <2>1. list \in Seq(Pid) /\ Len(list) = Len(s.readylist) + 1
    BY <1>1, InsertType
  <2> HIDE DEF list
  <2> QED
    BY <1>1, <2>1
<1>3. states \in [Pid -> ProcState]
  BY <1>1 DEF ProcState
<1>4. Ready(s, p) = [s EXCEPT !.prstate = states, !.readylist = list]
  BY DEF Ready
<1> HIDE DEF list, states
<1> QED
  BY <1>2, <1>3, <1>4 DEF SysType, list, states

\* ready (ready.c:11-29), of a process that is not ready.
LEMMA ReadySched ==
  ASSUME NEW s, Sched(s), NEW p \in Pid, s.prstate[p] # "READY"
  PROVE  LET t == Ready(s, p) IN
         /\ Sched(t) /\ t.prstate = [s.prstate EXCEPT ![p] = "READY"]
         /\ t.currpid = s.currpid /\ t.fbqueue = s.fbqueue
<1> DEFINE t == Ready(s, p)
<1>1. s \in SysType
  BY DEF Sched
<1>2. /\ t \in SysType /\ t.readylist = insert(s.readylist, p)
      /\ t.prstate = [s.prstate EXCEPT ![p] = "READY"]
      /\ t.currpid = s.currpid /\ t.fbqueue = s.fbqueue
  BY <1>1, ReadyType
<1>3. s.readylist \in Seq(Pid) /\ s.prstate \in [Pid -> ProcState]
  BY <1>1, SysFacts
<1>4. p \notin ToSet(s.readylist) /\ ByPriority(s.readylist)
  BY DEF Sched
<1> HIDE DEF t
<1>5. ToSet(t.readylist) = ToSet(s.readylist) \cup {p} /\ ByPriority(t.readylist)
  BY <1>2, <1>3, <1>4, InsertList
<1>6. ToSet(t.readylist) = {q \in Pid : t.prstate[q] = "READY"}
  BY <1>2, <1>3, <1>5 DEF Sched
<1>7. \A q \in Pid : t.prstate[q] = "CURR" => q = t.currpid
  BY <1>2, <1>3 DEF Sched
<1>8. t.prstate[NULLPROC] \in Runnable
  BY <1>2, <1>3, NullProc DEF Sched, Runnable
<1> QED
  BY <1>2, <1>5, <1>6, <1>7, <1>8 DEF Sched, t

\* The end of resched (resched.c:38-50), whatever the ready list holds.
LEMMA DispatchType ==
  ASSUME NEW s \in SysType, s.readylist # << >>
  PROVE  LET t == Dispatch(s) IN
         /\ t \in SysType /\ t.fbqueue = s.fbqueue
         /\ t.readylist = Tail(s.readylist) /\ t.currpid = Head(s.readylist)
         /\ t.currpid \in Pid
         /\ t.prstate = [s.prstate EXCEPT ![Head(s.readylist)] = "CURR"]
<1> DEFINE p == Head(s.readylist)
           list == Tail(s.readylist)
           states == [s.prstate EXCEPT ![p] = "CURR"]
<1>1. s.readylist \in Seq(Pid) /\ s.prstate \in [Pid -> ProcState]
  BY SysFacts
<1>2. p \in Pid /\ list \in Seq(Pid)
  BY <1>1
<1>3. states \in [Pid -> ProcState]
  BY <1>1 DEF ProcState
<1>4. Dispatch(s) = [s EXCEPT !.readylist = list, !.currpid = p, !.prstate = states]
  BY DEF Dispatch
<1> HIDE DEF list, states, p
<1> QED
  BY <1>2, <1>3, <1>4 DEF SysType, list, states, p

\* resched.c:38-50: the first of the ready list gets the processor.
LEMMA DispatchSched ==
  ASSUME NEW s, Sched(s), s.prstate[s.currpid] # "CURR"
  PROVE  LET t == Dispatch(s) IN
         Running(t) /\ SameBut(s, t) /\ t.fbqueue = s.fbqueue
<1> DEFINE t == Dispatch(s)
           p == Head(s.readylist)
           list == s.readylist
           r == Tail(list)
<1>1. /\ s \in SysType /\ list \in Seq(Pid) /\ s.prstate \in [Pid -> ProcState]
      /\ s.currpid \in Pid /\ ByPriority(list)
      /\ ToSet(list) = {q \in Pid : s.prstate[q] = "READY"}
      /\ \A q \in Pid : s.prstate[q] # "CURR"
  BY SysFacts DEF Sched
<1>2. list # << >>
  <2>1. s.prstate[NULLPROC] = "READY"
    BY <1>1, NullProc DEF Sched, Runnable
  <2>2. NULLPROC \in ToSet(list)
    BY <1>1, <2>1, NullProc
  <2> QED
    BY <2>2 DEF ToSet
<1>3. /\ t \in SysType /\ t.fbqueue = s.fbqueue
      /\ t.readylist = r /\ t.currpid = p
      /\ t.currpid \in Pid
      /\ t.prstate = [s.prstate EXCEPT ![p] = "CURR"]
  BY <1>1, <1>2, DispatchType
<1> HIDE DEF t, list
<1>4. p = list[1] /\ p \in ToSet(list)
  BY <1>1, <1>2 DEF ToSet, list
<1>5. /\ r \in Seq(Pid) /\ Len(r) = Len(list) - 1 /\ Len(list) \in Nat \ {0}
      /\ \A i \in 1 .. Len(r) : r[i] = list[i + 1]
  BY <1>1, <1>2
<1> HIDE DEF p, r
<1>6. ByPriority(t.readylist)
  <2> SUFFICES ASSUME NEW i \in 1 .. Len(r), NEW j \in 1 .. Len(r), i < j
               PROVE  r[i] # r[j] /\ Prio[r[i]] >= Prio[r[j]]
    BY <1>3 DEF ByPriority
  <2>1. i + 1 \in 1 .. Len(list) /\ j + 1 \in 1 .. Len(list) /\ i + 1 < j + 1
    BY <1>5
  <2> QED
    BY <1>1, <1>5, <2>1 DEF ByPriority
<1>7. ToSet(r) = ToSet(list) \ {p}
  <2>1. NoRepeats(list)
    BY <1>1, ByPriorityOnce
  <2>2. ASSUME NEW i \in 1 .. Len(r)
        PROVE  r[i] \in ToSet(list) /\ r[i] # p
    <3>1. i + 1 \in 1 .. Len(list) /\ 1 \in 1 .. Len(list) /\ i + 1 # 1
      BY <1>5
    <3> QED
      BY <1>4, <1>5, <2>1, <3>1 DEF NoRepeats, ToSet
  <2>3. ASSUME NEW i \in 1 .. Len(list), list[i] # p
        PROVE  list[i] \in ToSet(r)
    <3>1. i - 1 \in 1 .. Len(r) /\ r[i - 1] = list[i]
      BY <1>4, <1>5, <2>3
    <3>2. r[i - 1] \in ToSet(r)
      BY <1>5, <3>1 DEF ToSet
    <3> QED
      BY <3>1, <3>2
  <2>4. ToSet(r) \subseteq ToSet(list) \ {p}
    BY <1>5, <2>2 DEF ToSet
  <2>5. ToSet(list) \ {p} \subseteq ToSet(r)
    BY <1>1, <2>3 DEF ToSet
  <2> QED
    BY <2>4, <2>5
<1>8. p \in Pid /\ s.prstate[p] = "READY"
  BY <1>1, <1>4
<1>9. ToSet(t.readylist) = {q \in Pid : t.prstate[q] = "READY"}
  BY <1>1, <1>3, <1>7, <1>8
<1>10. \A q \in Pid : t.prstate[q] = "CURR" => q = t.currpid
  BY <1>1, <1>3
<1>11. SameBut(s, t) /\ t.prstate[NULLPROC] \in Runnable
  BY <1>1, <1>3, <1>8, NullProc DEF SameBut, Runnable, Sched
<1>12. t.prstate[t.currpid] = "CURR"
  BY <1>1, <1>3, <1>8
<1> QED
  BY <1>3, <1>6, <1>9, <1>10, <1>11, <1>12 DEF Running, Sched, t

\* resched (resched.c:11-50) leaves a process running, and nobody where he was
\* not but between READY and CURR.
LEMMA reschedSched ==
  ASSUME NEW s, Sched(s)
  PROVE  LET t == resched(s) IN
         Running(t) /\ SameBut(s, t) /\ t.fbqueue = s.fbqueue
<1> DEFINE p == s.currpid
<1>1. CASE s.prstate[p] # "CURR"
  BY <1>1, DispatchSched DEF resched
<1>2. CASE s.prstate[p] = "CURR" /\ (s.readylist = << >> \/ Prio[p] > Prio[Head(s.readylist)])
  <2>1. resched(s) = s
    BY <1>2 DEF resched
  <2> QED
    BY <1>2, <2>1 DEF Running, SameBut
<1>3. CASE s.prstate[p] = "CURR" /\ ~ (s.readylist = << >> \/ Prio[p] > Prio[Head(s.readylist)])
  <2> DEFINE u == Ready(s, p)
  <2>1. resched(s) = Dispatch(u)
    BY <1>3 DEF resched
  <2>2. p \in Pid /\ s.prstate \in [Pid -> ProcState]
    BY SysFacts DEF Sched
  <2>3. /\ Sched(u) /\ u.prstate = [s.prstate EXCEPT ![p] = "READY"]
        /\ u.currpid = p /\ u.fbqueue = s.fbqueue
    BY <1>3, <2>2, ReadySched
  <2> HIDE DEF u
  <2>4. u.prstate[u.currpid] # "CURR"
    BY <2>2, <2>3
  <2>5. Running(Dispatch(u)) /\ SameBut(u, Dispatch(u)) /\ Dispatch(u).fbqueue = u.fbqueue
    BY <2>3, <2>4, DispatchSched
  <2>6. SameBut(s, Dispatch(u))
    BY <1>3, <2>2, <2>3, <2>5 DEF SameBut, Runnable
  <2> QED
    BY <2>1, <2>3, <2>5, <2>6
<1> QED
  BY <1>1, <1>2, <1>3

\* resched of any state in which whoever is on the ready list is ready.
LEMMA reschedType ==
  ASSUME NEW s \in SysType, s.readylist # << >>,
         \A p \in ToSet(s.readylist) : s.prstate[p] = "READY"
  PROVE  LET t == resched(s) IN
         t \in SysType /\ SameBut(s, t) /\ t.fbqueue = s.fbqueue
<1>1. ASSUME NEW u \in SysType, u.readylist # << >>,
             \A p \in ToSet(u.readylist) : u.prstate[p] = "READY"
      PROVE  Dispatch(u) \in SysType /\ SameBut(u, Dispatch(u)) /\ Dispatch(u).fbqueue = u.fbqueue
  <2> DEFINE t == Dispatch(u)
             q == Head(u.readylist)
  <2>1. t \in SysType /\ t.fbqueue = u.fbqueue /\ t.prstate = [u.prstate EXCEPT ![q] = "CURR"]
    BY <1>1, DispatchType
  <2>2. u.readylist \in Seq(Pid) /\ u.prstate \in [Pid -> ProcState]
    BY SysFacts
  <2>3. q \in ToSet(u.readylist) /\ q \in Pid
    BY <1>1, <2>2 DEF ToSet
  <2>4. u.prstate[q] = "READY"
    BY <1>1, <2>3
  <2> HIDE DEF t, q
  <2>5. SameBut(u, t)
    BY <2>1, <2>2, <2>3, <2>4 DEF SameBut, Runnable
  <2> QED
    BY <2>1, <2>5 DEF t
<1> DEFINE p == s.currpid
<1>2. CASE s.prstate[p] # "CURR"
  BY <1>1, <1>2 DEF resched
<1>3. CASE s.prstate[p] = "CURR" /\ (s.readylist = << >> \/ Prio[p] > Prio[Head(s.readylist)])
  <2>1. resched(s) = s
    BY <1>3 DEF resched
  <2> QED
    BY <2>1 DEF SameBut
<1>4. CASE s.prstate[p] = "CURR" /\ ~ (s.readylist = << >> \/ Prio[p] > Prio[Head(s.readylist)])
  <2> DEFINE u == Ready(s, p)
  <2>1. resched(s) = Dispatch(u)
    BY <1>4 DEF resched
  <2>2. p \in Pid /\ s.prstate \in [Pid -> ProcState] /\ s.readylist \in Seq(Pid)
    BY SysFacts
  <2>3. /\ u \in SysType /\ u.readylist # << >> /\ u.readylist = insert(s.readylist, p)
        /\ u.prstate = [s.prstate EXCEPT ![p] = "READY"] /\ u.fbqueue = s.fbqueue
    BY <2>2, ReadyType
  <2>4. ToSet(u.readylist) = ToSet(s.readylist) \cup {p}
    BY <2>2, <2>3, InsertSet
  <2> HIDE DEF u
  <2>5. \A q \in ToSet(u.readylist) : u.prstate[q] = "READY"
    <3>1. ToSet(s.readylist) \subseteq Pid
      BY <2>2 DEF ToSet
    <3> QED
      BY <2>2, <2>3, <2>4, <3>1
  <2>6. Dispatch(u) \in SysType /\ SameBut(u, Dispatch(u)) /\ Dispatch(u).fbqueue = u.fbqueue
    BY <1>1, <2>3, <2>5
  <2>7. SameBut(s, Dispatch(u))
    BY <1>4, <2>2, <2>3, <2>6 DEF SameBut, Runnable
  <2> QED
    BY <2>1, <2>3, <2>6, <2>7
<1> QED
  BY <1>2, <1>3, <1>4

\* getitem (getitem.c:47-58), of a process that has just died.
LEMMA getitemSched ==
  ASSUME NEW s, Running(s), NEW p \in User
  PROVE  LET u == [s EXCEPT !.prstate[p] = "FREE"]
             t == getitem(u, p)
         IN  /\ Sched(t) /\ t.prstate = [s.prstate EXCEPT ![p] = "FREE"]
             /\ t.currpid = s.currpid /\ t.fbqueue = s.fbqueue
             /\ p # s.currpid => Running(t)
<1> DEFINE states == [s.prstate EXCEPT ![p] = "FREE"]
           list == s.readylist
           u == [s EXCEPT !.prstate = states]
           t == getitem(u, p)
<1>1. /\ s \in SysType /\ s.prstate \in [Pid -> ProcState] /\ list \in Seq(Pid)
      /\ p \in Pid /\ p # NULLPROC /\ ByPriority(list)
      /\ ToSet(list) = {q \in Pid : s.prstate[q] = "READY"}
  BY SysFacts, NullProc DEF Running, Sched
<1>2. states \in [Pid -> ProcState]
  BY <1>1 DEF ProcState
<1> HIDE DEF states, list
<1>3. /\ u \in SysType /\ u.prstate = states /\ u.readylist = list
      /\ u.currpid = s.currpid /\ u.fbqueue = s.fbqueue
  BY <1>1, <1>2 DEF SysType, list
<1> HIDE DEF u
<1>4. \E left \in Seq(Pid) : /\ t = [u EXCEPT !.readylist = left]
                             /\ ToSet(left) = ToSet(list) \ {p} /\ ByPriority(left)
  <2>1. CASE ~ Contains(list, p)
    <3>1. t = [u EXCEPT !.readylist = list]
      BY <1>3, <2>1 DEF getitem, SysType
    <3>2. p \notin ToSet(list)
      BY <1>1, <2>1 DEF Contains, ToSet
    <3> QED
      BY <1>1, <3>1, <3>2
  <2>2. CASE Contains(list, p)
    <3> DEFINE i == CHOOSE j \in 1 .. Len(list) : list[j] = p
               left == RemoveAt(list, i)
    <3>1. i \in 1 .. Len(list) /\ list[i] = p
      BY <2>2 DEF Contains
    <3>2. t = [u EXCEPT !.readylist = left]
      BY <1>3, <2>2 DEF getitem
    <3> HIDE DEF i
    <3>3. /\ left \in Seq(Pid) /\ Len(left) = Len(list) - 1
          /\ \A j \in 1 .. Len(left) : left[j] = IF j < i THEN list[j] ELSE list[j + 1]
      BY <1>1, <3>1, RemoveShape
    <3>4. NoRepeats(list)
      BY <1>1, ByPriorityOnce
    <3> HIDE DEF left
    <3>5. Members(left) = Members(list) \ {p}
      BY <1>1, <3>1, <3>3, <3>4, RemoveMembers
    <3>6. ToSet(left) = ToSet(list) \ {p}
      BY <1>1, <3>3, <3>5, ToSetMembers
    <3>7. ByPriority(left)
      <4> SUFFICES ASSUME NEW a \in 1 .. Len(left), NEW b \in 1 .. Len(left), a < b
                   PROVE  left[a] # left[b] /\ Prio[left[a]] >= Prio[left[b]]
        BY DEF ByPriority
      <4>1. PICK c \in 1 .. Len(list) : left[a] = list[c] /\ c = IF a < i THEN a ELSE a + 1
        BY <1>1, <3>1, <3>3
      <4>2. PICK d \in 1 .. Len(list) : left[b] = list[d] /\ d = IF b < i THEN b ELSE b + 1
        BY <1>1, <3>1, <3>3
      <4>3. c < d
        BY <3>1, <4>1, <4>2
      <4> QED
        BY <1>1, <4>1, <4>2, <4>3 DEF ByPriority
    <3> QED
      BY <3>2, <3>3, <3>6, <3>7
  <2> QED
    BY <2>1, <2>2
<1>5. PICK left \in Seq(Pid) : /\ t = [u EXCEPT !.readylist = left]
                               /\ ToSet(left) = ToSet(list) \ {p} /\ ByPriority(left)
  BY <1>4
<1> HIDE DEF t
<1>6. /\ t \in SysType /\ t.prstate = states /\ t.readylist = left
      /\ t.currpid = s.currpid /\ t.fbqueue = s.fbqueue
  BY <1>3, <1>5 DEF SysType
<1>7. ToSet(left) = {q \in Pid : states[q] = "READY"}
  BY <1>1, <1>5 DEF states
<1>8. \A q \in Pid : states[q] = "CURR" => q = s.currpid
  BY <1>1 DEF states, Running, Sched
<1>9. states[NULLPROC] \in Runnable
  BY <1>1, NullProc DEF states, Running, Sched
<1>10. Sched(t)
  BY <1>5, <1>6, <1>7, <1>8, <1>9 DEF Sched
<1>11. p # s.currpid => t.prstate[t.currpid] = "CURR"
  BY <1>1, <1>6, SysFacts DEF Running, states
<1> QED
  BY <1>6, <1>10, <1>11 DEF Running, t, u, states

\* The tables after each process of the list has been made ready.
LEMMA MadeShape ==
  ASSUME NEW s, NEW ps, Len(ps) \in Nat
  PROVE  \E made : /\ made[0] = s
                   /\ \A i \in 1 .. Len(ps) : made[i] = Ready(made[i - 1], ps[i])
                   /\ ReadyAll(s, ps) = made[Len(ps)]
<1> DEFINE N == Len(ps)
           Is(f, n) == f = [i \in 0 .. n |-> IF i = 0 THEN s ELSE Ready(f[i - 1], ps[i])]
           T == {n \in 0 .. N : \E f : Is(f, n)}
<1>1. 0 \in T
  <2>1. Is([i \in 0 .. 0 |-> s], 0) /\ 0 \in 0 .. N
    OBVIOUS
  <2> HIDE DEF Is
  <2> QED
    BY <2>1
<1>2. ASSUME NEW n \in 0 .. N - 1, n \in T
      PROVE  n + 1 \in T
  <2>1. PICK f : Is(f, n)
    BY <1>2
  <2> DEFINE g == [i \in 0 .. n + 1 |-> IF i = n + 1 THEN Ready(f[n], ps[n + 1]) ELSE f[i]]
  <2>2. \A i \in 0 .. n + 1 : g[i] = IF i = 0 THEN s ELSE Ready(g[i - 1], ps[i])
    <3> SUFFICES ASSUME NEW i \in 0 .. n + 1
                 PROVE  g[i] = IF i = 0 THEN s ELSE Ready(g[i - 1], ps[i])
      OBVIOUS
    <3>1. CASE i = n + 1
      BY <3>1
    <3>2. CASE i \in 0 .. n
      BY <2>1, <3>2
    <3> QED
      BY <3>1, <3>2
  <2>3. Is(g, n + 1)
    BY <2>2
  <2>4. n + 1 \in 0 .. N
    OBVIOUS
  <2> QED
    BY <2>3, <2>4
<1>3. N \in 0 .. N
  OBVIOUS
<1> HIDE DEF T
<1>4. 0 .. N \subseteq T
  BY <1>1, <1>2, InductTo
<1> USE DEF T
<1>5. \E f : Is(f, N)
  BY <1>3, <1>4
<1> DEFINE made == CHOOSE f : Is(f, N)
<1>6. Is(made, N)
  BY <1>5
<1>7. ReadyAll(s, ps) = made[N]
  BY DEF ReadyAll
<1> HIDE DEF made
<1>8. made[0] = s /\ \A i \in 1 .. N : made[i] = Ready(made[i - 1], ps[i])
  BY <1>6
<1> QED
  BY <1>7, <1>8

\* The calls of ready in the loop of framewakeup (frameblock.c:71-76), whoever
\* they are for; if each is for another process that is not ready, the
\* scheduler's tables stay in order.
LEMMA ReadyAllSched ==
  ASSUME NEW s, Sched(s), NEW ps \in Seq(Pid)
  PROVE  LET t == ReadyAll(s, ps) IN
         /\ t \in SysType /\ t.currpid = s.currpid /\ t.fbqueue = s.fbqueue
         /\ ps # << >> => t.readylist # << >>
         /\ \A q \in ToSet(t.readylist) : t.prstate[q] = "READY"
         /\ \A q \in Pid : t.prstate[q] = IF q \in ToSet(ps) THEN "READY" ELSE s.prstate[q]
         /\ (NoRepeats(ps) /\ \A q \in ToSet(ps) : s.prstate[q] # "READY") => Sched(t)
<1> DEFINE N == Len(ps)
           M(n) == {ps[i] : i \in 1 .. n}
           Fresh == NoRepeats(ps) /\ \A q \in ToSet(ps) : s.prstate[q] # "READY"
<1>1. PICK made : /\ made[0] = s
                  /\ \A i \in 1 .. N : made[i] = Ready(made[i - 1], ps[i])
                  /\ ReadyAll(s, ps) = made[N]
  BY MadeShape
<1> DEFINE Good(n) == /\ made[n] \in SysType
                      /\ made[n].currpid = s.currpid /\ made[n].fbqueue = s.fbqueue
                      /\ n > 0 => made[n].readylist # << >>
                      /\ \A q \in ToSet(made[n].readylist) : made[n].prstate[q] = "READY"
                      /\ \A q \in Pid : made[n].prstate[q] = IF q \in M(n) THEN "READY"
                                                           ELSE s.prstate[q]
                      /\ Fresh => Sched(made[n])
           T == {n \in 0 .. N : Good(n)}
<1>2. 0 \in T
  <2>1. M(0) = {}
    OBVIOUS
  <2>2. s \in SysType /\ \A q \in ToSet(s.readylist) : s.prstate[q] = "READY"
    BY DEF Sched
  <2>3. Good(0)
    BY <1>1, <2>1, <2>2
  <2> HIDE DEF Good
  <2> QED
    BY <2>3
<1>3. ASSUME NEW n \in 0 .. N - 1, n \in T
      PROVE  n + 1 \in T
  <2> DEFINE u == made[n]
             t == made[n + 1]
             p == ps[n + 1]
  <2>1. Good(n)
    BY <1>3
  <2>2. n + 1 \in 1 .. N /\ n + 1 - 1 = n /\ p \in Pid
    OBVIOUS
  <2>3. t = Ready(u, p)
    BY <1>1, <2>2
  <2>4. p \in ToSet(ps) /\ (Fresh => p \notin M(n))
    BY <2>2 DEF ToSet, NoRepeats
  <2>5. M(n + 1) = M(n) \cup {p}
    <3>1. \A i \in 1 .. n + 1 : i = n + 1 \/ i \in 1 .. n
      OBVIOUS
    <3> QED
      BY <2>2, <3>1
  <2>6. u \in SysType /\ u.prstate \in [Pid -> ProcState] /\ u.readylist \in Seq(Pid)
    BY <2>1, SysFacts
  <2>7. \A q \in Pid : u.prstate[q] = IF q \in M(n) THEN "READY" ELSE s.prstate[q]
    BY <2>1
  <2>8. \A q \in ToSet(u.readylist) : u.prstate[q] = "READY"
    BY <2>1
  <2>9. Fresh => Sched(u)
    BY <2>1
  <2>10. u.currpid = s.currpid /\ u.fbqueue = s.fbqueue
    BY <2>1
  <2> HIDE DEF M, p, u, t, Fresh
  <2>11. /\ t \in SysType /\ t.readylist # << >> /\ t.readylist = insert(u.readylist, p)
         /\ t.prstate = [u.prstate EXCEPT ![p] = "READY"]
         /\ t.currpid = u.currpid /\ t.fbqueue = u.fbqueue
    BY <2>2, <2>3, <2>6, ReadyType
  <2>12. ToSet(t.readylist) = ToSet(u.readylist) \cup {p}
    BY <2>2, <2>6, <2>11, InsertSet
  <2>13. \A q \in ToSet(t.readylist) : t.prstate[q] = "READY"
    <3>1. ToSet(u.readylist) \subseteq Pid
      BY <2>6 DEF ToSet
    <3> QED
      BY <2>2, <2>6, <2>8, <2>11, <2>12, <3>1
  <2>14. \A q \in Pid : t.prstate[q] = IF q \in M(n + 1) THEN "READY" ELSE s.prstate[q]
    BY <2>2, <2>5, <2>6, <2>7, <2>11
  <2>15. ASSUME Fresh
         PROVE  Sched(t)
    <3>1. u.prstate[p] # "READY"
      BY <2>2, <2>4, <2>7, <2>15 DEF Fresh
    <3> QED
      BY <2>2, <2>3, <2>9, <2>15, <3>1, ReadySched
  <2>16. Good(n + 1)
    BY <2>10, <2>11, <2>13, <2>14, <2>15 DEF t
  <2> HIDE DEF Good
  <2> QED
    BY <2>2, <2>16
<1> HIDE DEF T
<1>4. 0 .. N \subseteq T
  BY <1>2, <1>3, InductTo
<1>5. Good(N)
  <2>1. N \in 0 .. N
    OBVIOUS
  <2> HIDE DEF Good
  <2> QED
    BY <1>4, <2>1 DEF T
<1>6. M(N) = ToSet(ps)
  BY DEF ToSet
<1>7. ps # << >> => N > 0
  OBVIOUS
<1> QED
  BY <1>1, <1>5, <1>6, <1>7

\* framewakeup (frameblock.c:64-79).
LEMMA framewakeupSched ==
  ASSUME NEW v, NEW s, Running(s)
  PROVE  LET t == framewakeup(v, s)
             w == ~ bothfull(v) /\ s.fbqueue # << >>
         IN  /\ t \in SysType
             /\ WakesBlocked(v, s) => Running(t)
             /\ t.fbqueue = IF w THEN << >> ELSE s.fbqueue
             /\ \A q \in Pid :
                  IF w /\ q \in ToSet(s.fbqueue) THEN t.prstate[q] \in Runnable
                  ELSE t.prstate[q] = s.prstate[q]
                       \/ (t.prstate[q] \in Runnable /\ s.prstate[q] \in Runnable)
<1> DEFINE t == framewakeup(v, s)
           ps == s.fbqueue
<1>1. /\ s \in SysType /\ Sched(s) /\ ps \in Seq(User) /\ ps \in Seq(Pid)
  BY SysFacts, NullProc DEF Running, Sched
<1>2. CASE bothfull(v) \/ ps = << >>
  <2>1. t = s
    BY <1>2 DEF framewakeup, Woken
  <2> QED
    BY <1>1, <1>2, <2>1
<1>3. CASE ~ bothfull(v) /\ ps # << >>
  <2> DEFINE u == ReadyAll(s, ps)
             a == [u EXCEPT !.fbqueue = SubSeq(@, Len(ps) + 1, Len(@))]
  <2>1. Woken(v, s) = ps /\ t = resched(a)
    BY <1>3 DEF framewakeup, Woken
  <2>2. /\ u \in SysType /\ u.currpid = s.currpid /\ u.fbqueue = ps
        /\ u.readylist # << >>
        /\ \A q \in ToSet(u.readylist) : u.prstate[q] = "READY"
        /\ \A q \in Pid : u.prstate[q] = IF q \in ToSet(ps) THEN "READY" ELSE s.prstate[q]
        /\ (NoRepeats(ps) /\ \A q \in ToSet(ps) : s.prstate[q] # "READY") => Sched(u)
    BY <1>1, <1>3, ReadyAllSched
  <2> HIDE DEF u
  <2>3. SubSeq(ps, Len(ps) + 1, Len(ps)) = << >>
    BY <1>1
  <2>4. a = [u EXCEPT !.fbqueue = << >>]
    BY <2>2, <2>3
  <2> HIDE DEF a
  <2>5. /\ a \in SysType /\ a.prstate = u.prstate /\ a.readylist = u.readylist
        /\ a.currpid = u.currpid /\ a.fbqueue = << >>
    <3>1. << >> \in Seq(User)
      OBVIOUS
    <3> QED
      BY <2>2, <2>4, <3>1 DEF SysType
  <2>6. t \in SysType /\ SameBut(a, t) /\ t.fbqueue = << >>
    BY <2>1, <2>2, <2>5, reschedType
  <2>7. ASSUME WakesBlocked(v, s)
        PROVE  Running(t)
    <3>1. \A i \in 1 .. Len(ps) : s.prstate[ps[i]] = "FRAME"
      BY <2>1, <2>7 DEF WakesBlocked
    <3>2. NoRepeats(ps)
      BY <2>1, <2>7 DEF WakesBlocked, NoRepeats
    <3>3. \A q \in ToSet(ps) : s.prstate[q] # "READY"
      BY <1>1, <3>1 DEF ToSet
    <3>4. Sched(a)
      BY <2>2, <2>5, <3>2, <3>3 DEF Sched
    <3> QED
      BY <2>1, <3>4, reschedSched
  <2> HIDE DEF t
  <2>8. \A q \in Pid : t.prstate[q] = a.prstate[q]
                    \/ (t.prstate[q] \in Runnable /\ a.prstate[q] \in Runnable)
    BY <2>6 DEF SameBut
  <2>9. \A q \in Pid : IF q \in ToSet(ps) THEN t.prstate[q] \in Runnable
                       ELSE t.prstate[q] = s.prstate[q]
                            \/ (t.prstate[q] \in Runnable /\ s.prstate[q] \in Runnable)
    BY <2>2, <2>5, <2>8 DEF Runnable
  <2> QED
    BY <1>3, <2>6, <2>7, <2>9 DEF t
<1> QED
  BY <1>2, <1>3

\* A sequence has no more members than it is long.
LEMMA FewMembers ==
  ASSUME NEW S, NEW s \in Seq(S)
  PROVE  IsFiniteSet(ToSet(s)) /\ Cardinality(ToSet(s)) <= Len(s)
<1>1. s \in Surjection(1 .. Len(s), Members(s))
  <2>1. s \in [1 .. Len(s) -> Members(s)]
    BY DEF Members
  <2> QED
    BY <2>1 DEF Members, Surjection
<1>2. IsFiniteSet(1 .. Len(s)) /\ Cardinality(1 .. Len(s)) = Len(s)
  <2>1. 1 \in Int /\ Len(s) \in Int /\ Len(s) >= 0
    OBVIOUS
  <2>2. /\ IsFiniteSet(1 .. Len(s))
        /\ Cardinality(1 .. Len(s)) = IF 1 > Len(s) THEN 0 ELSE Len(s) - 1 + 1
    BY <2>1, FS_Interval
  <2> QED
    BY <2>1, <2>2
<1> QED
  BY <1>1, <1>2, FS_Surjection, ToSetMembers

\* There are one user process less than slots in the ring.
LEMMA FewUsers ==
  /\ NPROC \in Nat \ {0} /\ IsFiniteSet(User) /\ Cardinality(User) = NPROC - 1
<1>1. IsFiniteSet(Pid) /\ NULLPROC \in Pid /\ User = Pid \ {NULLPROC}
  BY PagingAssumption, NullProc DEF User
<1>2. NPROC \in Nat /\ IsFiniteSet(User) /\ Cardinality(User) = NPROC - 1
  BY <1>1, FS_CardinalityType, FS_RemoveElement DEF NPROC
<1>3. Cardinality(User) \in Nat
  BY <1>2, FS_CardinalityType
<1> QED
  BY <1>2, <1>3

\* The ring has room for a process if the others are in it at most once.
LEMMA RingRoom ==
  ASSUME NEW q \in Seq(User), NoRepeats(q), NEW p \in User, p \notin ToSet(q)
  PROVE  insert_fbqueue(q, p) = Append(q, p)
<1>1. IsFiniteSet(ToSet(q)) /\ Cardinality(ToSet(q)) = Len(q)
  BY ListCount, ToSetMembers
<1>2. ToSet(q) \subseteq User
  BY DEF ToSet
<1>3. Cardinality(ToSet(q)) <= Cardinality(User)
  BY <1>2, FewUsers, FS_Subset
<1>4. Len(q) # NPROC
  BY <1>1, <1>3, FewUsers
<1> QED
  BY <1>4 DEF insert_fbqueue

\* frameblock (frameblock.c:42-58), by a user process.
LEMMA frameblockSched ==
  ASSUME NEW s, Running(s), s.currpid \in User
  PROVE  LET t == frameblock(s) IN
         /\ Running(t) /\ t.fbqueue = insert_fbqueue(s.fbqueue, s.currpid)
         /\ t.prstate[s.currpid] = "FRAME"
         /\ \A q \in Pid \ {s.currpid} :
              t.prstate[q] = s.prstate[q]
              \/ (t.prstate[q] \in Runnable /\ s.prstate[q] \in Runnable)
<1> DEFINE p == s.currpid
           u == [s EXCEPT !.fbqueue = insert_fbqueue(@, p), !.prstate[p] = "FRAME"]
           states == [s.prstate EXCEPT ![p] = "FRAME"]
           queue == insert_fbqueue(s.fbqueue, p)
           t == frameblock(s)
<1>1. /\ s \in SysType /\ s.prstate \in [Pid -> ProcState] /\ p \in Pid /\ p # NULLPROC
      /\ s.fbqueue \in Seq(User) /\ s.prstate[p] = "CURR"
  BY SysFacts, NullProc DEF Running, Sched
<1>2. states \in [Pid -> ProcState] /\ queue \in Seq(User)
  <2>1. states \in [Pid -> ProcState]
    BY <1>1 DEF ProcState
  <2>2. <<p>> \in Seq(User) /\ Append(s.fbqueue, p) \in Seq(User)
    BY <1>1
  <2> QED
    BY <2>1, <2>2 DEF insert_fbqueue
<1>3. u = [s EXCEPT !.fbqueue = queue, !.prstate = states] /\ t = resched(u)
  BY DEF frameblock
<1> HIDE DEF states, queue, p, u
<1>4. /\ u \in SysType /\ u.prstate = states /\ u.readylist = s.readylist
      /\ u.currpid = s.currpid /\ u.fbqueue = queue
  BY <1>1, <1>2, <1>3 DEF SysType
<1>5. Sched(u)
  <2>1. ToSet(u.readylist) = {q \in Pid : u.prstate[q] = "READY"}
    BY <1>1, <1>4 DEF states, Running, Sched
  <2>2. \A q \in Pid : u.prstate[q] = "CURR" => q = u.currpid
    BY <1>1, <1>4 DEF states, Running, Sched
  <2>3. u.prstate[NULLPROC] \in Runnable
    BY <1>1, <1>4, NullProc DEF states, Running, Sched
  <2> QED
    BY <1>4, <2>1, <2>2, <2>3 DEF Running, Sched
<1>6. Running(t) /\ SameBut(u, t) /\ t.fbqueue = queue
  BY <1>3, <1>4, <1>5, reschedSched
<1> HIDE DEF t
<1>7. t.prstate[p] = "FRAME"
  BY <1>1, <1>4, <1>6 DEF states, SameBut, Runnable
<1>8. \A q \in Pid \ {p} : t.prstate[q] = s.prstate[q]
                          \/ (t.prstate[q] \in Runnable /\ s.prstate[q] \in Runnable)
  BY <1>1, <1>4, <1>6 DEF states, SameBut
<1> QED
  BY <1>6, <1>7, <1>8 DEF t, queue, p

\* A process that is not on the ready list gets a state in which it waits.
LEMMA StateSched ==
  ASSUME NEW s, Sched(s), NEW p \in User, s.prstate[p] # "READY",
         NEW x \in ProcState \ Runnable
  PROVE  LET t == [s EXCEPT !.prstate[p] = x] IN
         /\ Sched(t) /\ t.prstate = [s.prstate EXCEPT ![p] = x]
         /\ t.currpid = s.currpid /\ t.fbqueue = s.fbqueue /\ t.readylist = s.readylist
<1> DEFINE states == [s.prstate EXCEPT ![p] = x]
           t == [s EXCEPT !.prstate = states]
<1>1. /\ s \in SysType /\ s.prstate \in [Pid -> ProcState] /\ p \in Pid /\ p # NULLPROC
  BY SysFacts, NullProc DEF Sched
<1>2. states \in [Pid -> ProcState]
  BY <1>1
<1> HIDE DEF states
<1>3. /\ t \in SysType /\ t.prstate = states /\ t.readylist = s.readylist
      /\ t.currpid = s.currpid /\ t.fbqueue = s.fbqueue
  BY <1>1, <1>2 DEF SysType
<1> HIDE DEF t
<1>4. ToSet(t.readylist) = {q \in Pid : t.prstate[q] = "READY"}
  BY <1>1, <1>3 DEF states, Sched, Runnable
<1>5. \A q \in Pid : t.prstate[q] = "CURR" => q = t.currpid
  BY <1>1, <1>3 DEF states, Sched, Runnable
<1>6. t.prstate[NULLPROC] \in Runnable
  BY <1>1, <1>3, NullProc DEF states, Sched
<1> QED
  BY <1>3, <1>4, <1>5, <1>6 DEF Sched, t, states

-----------------------------------------------------------------------------
(* The memory.                                                              *)

Content == [kind : {"pd", "pt"}, heap : DFrame \cup {None}, pte : [Page -> Pte]]
Cell == Pid \X (Page \cup {None}) \X (Val \cup {None})
VmType == [fm : FrameTable, dmem : [DFrame -> Content], mem : [EFrame -> Cell],
           status : Status]

\* An entry that is present names a frame of E1, one that is swapped of E2.
Based(e) == /\ e.st = "present" => e.base \in RegionFrames("E1")
            /\ e.st = "swapped" => e.base \in RegionFrames("E2")

VmOK(v) == /\ v \in VmType /\ InOrder(v.fm)
           /\ \A d \in DFrame, g \in Page : Based(v.dmem[d].pte[g])

\* How the regions lie: D below E1 below E2, E1 within the table of NFRAMES
\* entries.
LEMMA FrameFacts ==
  /\ DFrame \subseteq Frame /\ EFrame \subseteq Frame /\ Frame \subseteq Nat \ {0}
  /\ "D" \in Region /\ "E1" \in Region /\ "E2" \in Region
  /\ RegionFrames("E1") \subseteq EFrame /\ RegionFrames("E2") \subseteq EFrame
  /\ \A f \in RegionFrames("E1") : f \notin RegionFrames("E2")
  /\ \A f \in EFrame : f \notin DFrame
  /\ \A f \in DFrame : f < NFRAMES
  /\ \A f \in RegionFrames("E1") : f < NFRAMES
<1>1. /\ "D" \in Region /\ "E1" \in Region /\ "E2" \in Region
      /\ "D" # "E1" /\ "D" # "E2" /\ "E1" # "E2"
  BY DEF Region
<1>2. /\ RegionFrames("D") \subseteq Frame /\ RegionFrames("E1") \subseteq Frame
      /\ RegionFrames("E2") \subseteq Frame
  BY <1>1, RegionShape
<1>3. \A f \in RegionFrames("E1") : f \notin RegionFrames("E2") /\ f \notin RegionFrames("D")
  BY <1>1, RegionUnique
<1>4. \A f \in RegionFrames("E2") : f \notin RegionFrames("D")
  BY <1>1, RegionUnique
<1>5. Frame \subseteq Nat \ {0}
  BY FramesAssumption DEF Frame, FRAME0_F
<1>6. /\ \A f \in RegionFrames("D") : f < NFRAMES
      /\ \A f \in RegionFrames("E1") : f < NFRAMES
  BY FramesAssumption, PagingAssumption
     DEF RegionFrames, RegionBase, RegionSize, FRAME0_D, FRAME0_E1, FRAME0_E2, NFRAMES
<1> QED
  BY <1>1, <1>2, <1>3, <1>4, <1>5, <1>6 DEF DFrame, EFrame

\* References to entries of page tables.
LEMMA RefFacts ==
  /\ FR_PTEUNUSED \in PteRef
  /\ \A d \in DFrame, g \in Page : [pt |-> d, page |-> g] \in PteRef
                                   /\ [pt |-> d, page |-> g] # FR_PTEUNUSED
  /\ \A ref \in PteRef : ref # FR_PTEUNUSED =>
       /\ ref.pt \in DFrame /\ ref.page \in Page
       /\ ref = [pt |-> ref.pt, page |-> ref.page]
BY FramesAssumption, PagingAssumption DEF DFrame

\* The types of the memory and its tables, one by one.
LEMMA VmFacts ==
  ASSUME NEW v \in VmType
  PROVE  /\ v.fm \in FrameTable /\ v.dmem \in [DFrame -> Content]
         /\ v.mem \in [EFrame -> Cell] /\ v.status \in Status
         /\ \A d \in DFrame : /\ v.dmem[d].kind \in {"pd", "pt"}
                              /\ v.dmem[d].heap \in DFrame \cup {None}
                              /\ v.dmem[d].pte \in [Page -> Pte]
         /\ \A d \in DFrame, g \in Page : v.dmem[d].pte[g] \in Pte
<1>1. /\ v.fm \in FrameTable /\ v.dmem \in [DFrame -> Content]
      /\ v.mem \in [EFrame -> Cell] /\ v.status \in Status
  BY DEF VmType
<1>2. \A d \in DFrame : /\ v.dmem[d].kind \in {"pd", "pt"}
                        /\ v.dmem[d].heap \in DFrame \cup {None}
                        /\ v.dmem[d].pte \in [Page -> Pte]
  BY <1>1 DEF Content
<1> QED
  BY <1>1, <1>2

\* An entry is its two fields.
LEMMA PteFacts ==
  ASSUME NEW e \in Pte
  PROVE  /\ e.st \in {"absent", "present", "swapped"} /\ e.base \in EFrame \cup {None}
         /\ e = [st |-> e.st, base |-> e.base]
BY DEF Pte

\* The table gets the value t.
LEMMA FmShape ==
  ASSUME NEW v \in VmType, NEW t \in FrameTable
  PROVE  LET w == [v EXCEPT !.fm = t] IN
         /\ w \in VmType /\ w.fm = t /\ w.dmem = v.dmem /\ w.mem = v.mem
         /\ w.status = v.status
BY DEF VmType

\* The memory of frames of E1 and E2 gets the value m.
LEMMA MemShape ==
  ASSUME NEW v \in VmType, NEW m \in [EFrame -> Cell]
  PROVE  LET w == [v EXCEPT !.mem = m] IN
         /\ w \in VmType /\ w.fm = v.fm /\ w.dmem = v.dmem /\ w.mem = m
         /\ w.status = v.status
BY DEF VmType

\* The status gets the value x.
LEMMA StatusShape ==
  ASSUME NEW v \in VmType, NEW x \in Status
  PROVE  LET w == [v EXCEPT !.status = x] IN
         /\ w \in VmType /\ w.fm = v.fm /\ w.dmem = v.dmem /\ w.mem = v.mem
         /\ w.status = x
BY DEF VmType

\* A change of the contents of region D and of nothing else.
LEMMA DmemShape ==
  ASSUME NEW v \in VmType, NEW m \in [DFrame -> Content]
  PROVE  LET w == [v EXCEPT !.dmem = m] IN
         /\ w \in VmType /\ w.fm = v.fm /\ w.dmem = m /\ w.mem = v.mem
         /\ w.status = v.status
BY DEF VmType

\* The frames of D in w are those in v after a store of e into entry g of d.
Wrote(v, w, d, g, e) ==
  /\ \A x \in DFrame : w.dmem[x].kind = v.dmem[x].kind /\ w.dmem[x].heap = v.dmem[x].heap
  /\ IF v.dmem[d].kind = "pt"
     THEN /\ w.status = v.status
          /\ \A x \in DFrame, h \in Page :
               w.dmem[x].pte[h] = IF x = d /\ h = g THEN e ELSE v.dmem[x].pte[h]
     ELSE /\ w.status = "wild"
          /\ \A x \in DFrame, h \in Page : w.dmem[x].pte[h] = v.dmem[x].pte[h]

\* A store to one entry of one page table (pgfutil.c:33-37).
LEMMA SetPteShape ==
  ASSUME NEW v \in VmType, NEW d \in DFrame, NEW g \in Page,
         NEW st \in {"absent", "present", "swapped"}, NEW b \in EFrame \cup {None}
  PROVE  LET w == SetPte(v, [pt |-> d, page |-> g], st, b) IN
         /\ w \in VmType /\ Wrote(v, w, d, g, [st |-> st, base |-> b])
         /\ w.fm = v.fm /\ w.mem = v.mem
<1> DEFINE ref == [pt |-> d, page |-> g]
           w == SetPte(v, ref, st, b)
           e == [st |-> st, base |-> b]
<1>1. CASE v.dmem[d].kind = "pt"
  <2> DEFINE ptes == [v.dmem[d].pte EXCEPT ![g] = e]
             c == [v.dmem[d] EXCEPT !.pte = ptes]
             m == [v.dmem EXCEPT ![d] = c]
  <2>1. w = [v EXCEPT !.dmem = m]
    BY <1>1 DEF SetPte
  <2>2. /\ v.dmem \in [DFrame -> Content] /\ v.dmem[d] \in Content
        /\ v.dmem[d].pte \in [Page -> Pte]
    BY VmFacts
  <2>3. e \in Pte
    BY DEF Pte
  <2>4. /\ ptes \in [Page -> Pte]
        /\ \A h \in Page : ptes[h] = IF h = g THEN e ELSE v.dmem[d].pte[h]
    BY <2>2, <2>3
  <2> HIDE DEF e, ptes
  <2>5. c \in Content /\ c.kind = v.dmem[d].kind /\ c.heap = v.dmem[d].heap /\ c.pte = ptes
    BY <2>2, <2>4 DEF Content
  <2> HIDE DEF c
  <2>6. /\ m \in [DFrame -> Content]
        /\ \A x \in DFrame : m[x] = IF x = d THEN c ELSE v.dmem[x]
    BY <2>2, <2>5
  <2> HIDE DEF m, w
  <2>7. /\ w \in VmType /\ w.fm = v.fm /\ w.dmem = m /\ w.mem = v.mem
        /\ w.status = v.status
    BY <2>1, <2>6, DmemShape
  <2>8. Wrote(v, w, d, g, e)
    BY <1>1, <2>4, <2>5, <2>6, <2>7 DEF Wrote
  <2> QED
    BY <2>7, <2>8 DEF w, e
<1>2. CASE v.dmem[d].kind # "pt"
  <2>1. w = [v EXCEPT !.status = "wild"]
    BY <1>2 DEF SetPte
  <2>2. "wild" \in Status
    BY DEF Status
  <2> HIDE DEF w
  <2>3. /\ w \in VmType /\ w.fm = v.fm /\ w.dmem = v.dmem /\ w.mem = v.mem
        /\ w.status = "wild"
    BY <2>1, <2>2, StatusShape
  <2> QED
    BY <1>2, <2>3 DEF Wrote, w
<1> QED
  BY <1>1, <1>2

\* A store of an entry that names a frame of the right region keeps the memory
\* in order.
LEMMA WroteOK ==
  ASSUME NEW v, VmOK(v), NEW w \in VmType, InOrder(w.fm), NEW d \in DFrame, NEW g \in Page,
         NEW e \in Pte, Based(e), Wrote(v, w, d, g, e)
  PROVE  VmOK(w)
<1>2. \A x \in DFrame, h \in Page : w.dmem[x].pte[h] = e \/ w.dmem[x].pte[h] = v.dmem[x].pte[h]
  BY DEF Wrote
<1>3. \A x \in DFrame, h \in Page : Based(v.dmem[x].pte[h])
  BY DEF VmOK
<1>4. \A x \in DFrame, h \in Page : Based(w.dmem[x].pte[h])
  BY <1>2, <1>3
<1> QED
  BY <1>4 DEF VmOK

\* Everything but the frame table is as in v.
LEMMA FmOK ==
  ASSUME NEW v, VmOK(v), NEW t, InOrder(t)
  PROVE  LET w == [v EXCEPT !.fm = t] IN
         /\ VmOK(w) /\ w.fm = t /\ w.dmem = v.dmem /\ w.mem = v.mem
         /\ w.status = v.status
<1>1. v \in VmType /\ t \in FrameTable
  BY DEF VmOK, InOrder
<1> QED
  BY <1>1, FmShape DEF VmOK

-----------------------------------------------------------------------------
(* Page directories and page tables.                                        *)

\* getfreeframe finds a frame of D if there is one.
LEMMA NewDFrameShape ==
  ASSUME NEW v, VmOK(v)
  PROVE  IF v.fm.free["D"] = << >> THEN NewDFrame(v) = SYSERR
         ELSE /\ NewDFrame(v) = Head(v.fm.free["D"]) /\ NewDFrame(v) \in DFrame
              /\ v.fm.state[NewDFrame(v)] = "FREE"
<1>1. CASE v.fm.free["D"] = << >>
  BY <1>1 DEF NewDFrame, FreeFrame
<1>2. CASE v.fm.free["D"] # << >>
  <2> DEFINE f == Head(v.fm.free["D"])
  <2>1. /\ FreeFrame(v.fm, "D") = f /\ f \in RegionFrames("D") /\ f \in Nat
        /\ v.fm.state[f] = "FREE"
    BY <1>2, TopOfStack, FrameFacts DEF VmOK
  <2> HIDE DEF f
  <2>2. CanTake(v.fm, f) /\ f # SYSERR
    BY <2>1, FrameFacts DEF CanTake, DFrame, SYSERR
  <2> QED
    BY <1>2, <2>1, <2>2 DEF NewDFrame, DFrame, f
<1> QED
  BY <1>1, <1>2

\* newpd and newpt (pagingmgmt.c:24-91): no frame, or an empty page directory or
\* page table in the frame on top of the stack.
LEMMA NewDShape ==
  ASSUME NEW v, VmOK(v), NEW pid \in Pid, NEW kind \in {"pd", "pt"}
  PROVE  LET w == NewD(v, pid, kind)
             f == NewDFrame(v)
         IN  /\ VmOK(w) /\ w.mem = v.mem /\ w.status = v.status
             /\ f = SYSERR => w = v
             /\ f # SYSERR => /\ w.dmem = [v.dmem EXCEPT ![f] = DContent(kind)]
                              /\ Took(v.fm, w.fm, "D", f, pid, FR_PTEUNUSED)
<1> DEFINE w == NewD(v, pid, kind)
           f == NewDFrame(v)
<1>1. CASE f = SYSERR
  <2>1. v.fm.free["D"] = << >>
    BY <1>1, NewDFrameShape, FrameFacts DEF SYSERR
  <2>2. w = [v EXCEPT !.fm = v.fm]
    BY <1>1, <2>1 DEF NewD, PopFree
  <2>3. w = v
    BY <2>2 DEF VmOK, VmType
  <2> QED
    BY <1>1, <2>3
<1>2. CASE f # SYSERR
  <2> DEFINE t == invtakeframe(PopFree(v.fm, "D"), f, pid, FR_PTEUNUSED)
             c == DContent(kind)
             m == [v.dmem EXCEPT ![f] = c]
             u == [v EXCEPT !.fm = t]
  <2>1. v.fm.free["D"] # << >> /\ f = FreeFrame(v.fm, "D") /\ f \in DFrame
    BY <1>2, NewDFrameShape DEF FreeFrame
  <2>2. InOrder(t) /\ Took(v.fm, t, "D", f, pid, FR_PTEUNUSED)
    BY <2>1, Take, FrameFacts, RefFacts DEF VmOK
  <2>3. w = [u EXCEPT !.dmem = m]
    BY <1>2, <2>1 DEF NewD
  <2>4. c \in Content /\ \A g \in Page : Based(c.pte[g])
    BY DEF DContent, NoPte, Content, Pte, Based
  <2> HIDE DEF f, t, c
  <2>5. VmOK(u) /\ u.fm = t /\ u.dmem = v.dmem /\ u.mem = v.mem /\ u.status = v.status
    BY <2>2, FmOK
  <2> HIDE DEF u
  <2>6. v.dmem \in [DFrame -> Content]
    BY VmFacts DEF VmOK
  <2>7. m \in [DFrame -> Content] /\ \A x \in DFrame : m[x] = IF x = f THEN c ELSE v.dmem[x]
    BY <2>1, <2>4, <2>6
  <2> HIDE DEF w
  <2>8. w \in VmType /\ w.fm = t /\ w.dmem = m /\ w.mem = v.mem /\ w.status = v.status
    BY <2>3, <2>5, <2>7, DmemShape DEF VmOK
  <2>9. VmOK(w)
    BY <2>2, <2>4, <2>7, <2>8 DEF VmOK
  <2> QED
    BY <1>2, <2>2, <2>8, <2>9 DEF w, f, c
<1> QED
  BY <1>1, <1>2


-----------------------------------------------------------------------------
(* pgfutil.c, on a directory in d that leads to the page table in pt.        *)

\* A free frame f of E1 becomes page g (pgfutil.c:17-41).
MappedTo(v, w, pid, d, g, f) ==
  /\ Took(v.fm, w.fm, "E1", f, pid, PteRefOf(v, d, g))
  /\ Wrote(v, w, v.dmem[d].heap, g, [st |-> "present", base |-> f])

\* mapfreeframe (pgfutil.c:17-41) does nothing if E1 is full, else it maps
\* the first free frame.
LEMMA mapfreeframeShape ==
  ASSUME NEW v, VmOK(v), NEW pid \in Pid, NEW d \in DFrame, v.dmem[d].heap \in DFrame,
         NEW g \in Page
  PROVE  LET w == mapfreeframe(v, pid, d, g) IN
         /\ VmOK(w) /\ w.mem = v.mem
         /\ e1full(v) => w = v
         /\ ~ e1full(v) => MappedTo(v, w, pid, d, g, FreeFrame(v.fm, "E1"))
<1> DEFINE w == mapfreeframe(v, pid, d, g)
           f == FreeFrame(v.fm, "E1")
           pt == v.dmem[d].heap
           ref == [pt |-> pt, page |-> g]
<1>1. CASE e1full(v)
  <2>1. f = SYSERR
    BY <1>1 DEF e1full, hasfreeframe, FreeFrame
  <2>2. w = v
    BY <2>1 DEF mapfreeframe
  <2> QED
    BY <1>1, <2>2
<1>2. CASE ~ e1full(v)
  <2> DEFINE t == invtakeframe(PopFree(v.fm, "E1"), f, pid, ref)
             u == [v EXCEPT !.fm = t]
             e == [st |-> "present", base |-> f]
  <2>1. v.fm.free["E1"] # << >>
    BY <1>2 DEF e1full, hasfreeframe
  <2>2. f \in RegionFrames("E1") /\ f \in EFrame /\ f # SYSERR
    <3>1. f \in RegionFrames("E1") /\ f \in Nat
      BY <2>1, TopOfStack, FrameFacts DEF VmOK
    <3> QED
      BY <3>1, FrameFacts DEF SYSERR
  <2>3. InOrder(t) /\ Took(v.fm, t, "E1", f, pid, ref)
    BY <2>1, Take, FrameFacts, RefFacts DEF VmOK
  <2>4. w = SetPte(u, ref, "present", f) /\ PteRefOf(v, d, g) = ref
    BY <2>2 DEF mapfreeframe, PteRefOf
  <2> HIDE DEF t, f, w, pt
  <2>5. VmOK(u) /\ u.fm = t /\ u.dmem = v.dmem /\ u.mem = v.mem /\ u.status = v.status
    BY <2>3, FmOK
  <2> HIDE DEF u
  <2>6. pt \in DFrame /\ u \in VmType
    BY <2>5 DEF pt, VmOK
  <2>7. w \in VmType /\ Wrote(u, w, pt, g, e) /\ w.fm = t /\ w.mem = v.mem
    BY <2>2, <2>4, <2>5, <2>6, SetPteShape
  <2>8. e \in Pte /\ Based(e)
    BY <2>2 DEF Pte, Based
  <2>9. VmOK(w)
    BY <2>3, <2>5, <2>6, <2>7, <2>8, WroteOK
  <2>10. Wrote(v, w, pt, g, e)
    BY <2>5, <2>7 DEF Wrote
  <2> QED
    BY <1>2, <2>3, <2>4, <2>7, <2>9, <2>10 DEF MappedTo, w, f, pt
<1> QED
  BY <1>1, <1>2

\* The copy of a frame of E1 or E2 into another one.
LEMMA CopyFrameShape ==
  ASSUME NEW v \in VmType, NEW src \in EFrame, NEW dest \in EFrame
  PROVE  LET w == CopyFrame(v, src, dest) IN
         /\ w \in VmType /\ w.fm = v.fm /\ w.dmem = v.dmem /\ w.status = v.status
         /\ w.mem = [v.mem EXCEPT ![dest] = v.mem[src]]
<1> DEFINE m == [v.mem EXCEPT ![dest] = v.mem[src]]
           w == CopyFrame(v, src, dest)
<1>1. m \in [EFrame -> Cell]
  <2>1. v.mem \in [EFrame -> Cell]
    BY VmFacts
  <2> QED
    BY <2>1
<1>2. w = [v EXCEPT !.mem = m]
  BY DEF CopyFrame
<1> HIDE DEF m, w
<1>3. w \in VmType /\ w.fm = v.fm /\ w.dmem = v.dmem /\ w.mem = m /\ w.status = v.status
  BY <1>1, <1>2, MemShape
<1> QED
  BY <1>3 DEF m, w

\* A frame of E1 or E2 is given up, if it is in use.
LEMMA GiveShape ==
  ASSUME NEW t, InOrder(t), NEW r \in Region, NEW f \in RegionFrames(r)
  PROVE  LET u == invfreeframe(t, f) IN
         /\ InOrder(u)
         /\ t.state[f] = "FREE" => u = t
         /\ t.state[f] # "FREE" => Gave(t, u, r, f)
<1>1. t.state[f] \in {"FREE", "USED"}
  BY InOrderFacts, RegionShape
<1> QED
  BY <1>1, Give, GiveFree

\* The victim goes to the frame dest of E2 (pgfutil.c:102-149).
EvictedTo(v, w, victim, dest) ==
  /\ victim \in RegionFrames("E1") /\ v.fm.state[victim] = "USED"
  /\ \E t : /\ InOrder(t) /\ Took(v.fm, t, "E2", dest, v.fm.pid[victim], v.fm.pte[victim])
            /\ Gave(t, w.fm, "E1", victim)
  /\ w.mem = [v.mem EXCEPT ![dest] = v.mem[victim]]
  /\ v.fm.pte[victim] = FR_PTEUNUSED => w.dmem = v.dmem /\ w.status = v.status
  /\ v.fm.pte[victim] # FR_PTEUNUSED =>
       Wrote(v, w, v.fm.pte[victim].pt, v.fm.pte[victim].page,
             [st |-> "swapped", base |-> dest])

\* evictframe (pgfutil.c:102-149) does nothing if there is no victim or no
\* room in E2, else it moves the oldest page of E1 there.
LEMMA evictframeShape ==
  ASSUME NEW v, VmOK(v)
  PROVE  LET w == evictframe(v) IN
         /\ VmOK(w)
         /\ v.fm.used = << >> \/ e2full(v) => w = v
         /\ ~ (v.fm.used = << >> \/ e2full(v)) =>
              EvictedTo(v, w, Head(v.fm.used), FreeFrame(v.fm, "E2"))
<1> DEFINE w == evictframe(v)
           victim == getusedframeE1(v.fm)
           dest == FreeFrame(v.fm, "E2")
<1>0. InOrder(v.fm) /\ v \in VmType
  BY DEF VmOK
<1>1. CASE v.fm.used = << >> \/ e2full(v)
  <2>1. victim = SYSERR \/ dest = SYSERR
    BY <1>1 DEF e2full, hasfreeframe, FreeFrame, getusedframeE1
  <2>2. w = v
    BY <2>1 DEF evictframe
  <2> QED
    BY <1>1, <2>2
<1>2. CASE ~ (v.fm.used = << >> \/ e2full(v))
  <2> DEFINE own == v.fm.pid[victim]
             ref == v.fm.pte[victim]
             t == invtakeframe(PopFree(v.fm, "E2"), dest, own, ref)
             v1 == [v EXCEPT !.fm = t]
             v2 == CopyFrame(v1, victim, dest)
             v3 == MarkSwapped(v2, ref, dest)
             u == invfreeframe(v3.fm, victim)
             e == [st |-> "swapped", base |-> dest]
  <2>1. v.fm.free["E2"] # << >>
    BY <1>2 DEF e2full, hasfreeframe
  <2>2. dest \in RegionFrames("E2") /\ dest \in EFrame /\ dest # SYSERR /\ dest \in Frame
    <3>1. dest \in RegionFrames("E2") /\ dest \in Nat
      BY <1>0, <2>1, TopOfStack, FrameFacts
    <3> QED
      BY <3>1, FrameFacts DEF SYSERR
  <2>3. victim = Head(v.fm.used)
    BY <1>2 DEF getusedframeE1
  <2>4. /\ victim \in RegionFrames("E1") /\ v.fm.state[victim] = "USED" /\ victim # SYSERR
        /\ victim \in EFrame /\ victim \in Frame
    <3>1. victim \in ToSet(v.fm.used)
      BY <1>0, <1>2, <2>3, TailSound, InOrderFacts
    <3>2. victim \in UsedFrames(v.fm, "E1")
      BY <1>0, <3>1, InOrderFacts
    <3>3. victim \in RegionFrames("E1") /\ v.fm.state[victim] = "USED"
      BY <3>2 DEF UsedFrames
    <3>4. victim \in Frame /\ victim \in Nat
      BY <3>3, FrameFacts
    <3> QED
      BY <3>3, <3>4, FrameFacts DEF SYSERR
  <2>5. own \in Pid /\ ref \in PteRef
    BY <1>0, <2>4, InOrderFacts
  <2> HIDE DEF own, ref
  <2>6. InOrder(t) /\ Took(v.fm, t, "E2", dest, own, ref)
    BY <1>0, <2>1, <2>5, Take, FrameFacts
  <2>7. w = [v3 EXCEPT !.fm = u]
    BY <2>2, <2>4 DEF evictframe, own, ref
  <2> HIDE DEF t, dest, victim, w, u
  <2>8. VmOK(v1) /\ v1.fm = t /\ v1.dmem = v.dmem /\ v1.mem = v.mem /\ v1.status = v.status
    BY <2>6, FmOK
  <2> HIDE DEF v1
  <2>9. /\ v2 \in VmType /\ v2.fm = t /\ v2.dmem = v.dmem /\ v2.status = v.status
        /\ v2.mem = [v.mem EXCEPT ![dest] = v.mem[victim]]
    <3>1. v1 \in VmType /\ victim \in EFrame /\ dest \in EFrame
      BY <2>2, <2>4, <2>8 DEF VmOK
    <3> QED
      BY <2>8, <3>1, CopyFrameShape
  <2> HIDE DEF v2
  <2>10. VmOK(v2)
    BY <2>6, <2>8, <2>9 DEF VmOK
  <2>11. e \in Pte /\ Based(e)
    BY <2>2 DEF Pte, Based
  <2>14. t.state[victim] = "USED"
    <3>1. victim # dest
      BY <2>2, <2>4, FrameFacts
    <3>2. v.fm.state \in [Frame -> {"FREE", "USED"}]
      BY <1>0, InOrderFacts
    <3> QED
      BY <2>2, <2>4, <2>6, <3>1, <3>2 DEF Took
  <2>12. CASE ref = FR_PTEUNUSED
    <3>1. v3 = v2
      BY <2>12 DEF MarkSwapped
    <3> HIDE DEF v3
    <3>2. v3.fm = t /\ t.state[victim] = "USED"
      BY <2>9, <2>14, <3>1
    <3>3. InOrder(u) /\ Gave(t, u, "E1", victim)
      BY <2>4, <2>6, <3>2, Give, FrameFacts DEF u
    <3>4. VmOK(w) /\ w.fm = u /\ w.dmem = v.dmem /\ w.mem = v2.mem /\ w.status = v.status
      BY <2>7, <2>9, <2>10, <3>1, <3>3, FmOK
    <3>5. EvictedTo(v, w, victim, dest)
      BY <2>4, <2>6, <2>9, <2>12, <3>3, <3>4 DEF EvictedTo, own, ref
    <3> QED
      BY <1>2, <2>3, <3>4, <3>5 DEF w, dest
  <2>13. CASE ref # FR_PTEUNUSED
    <3>1. ref.pt \in DFrame /\ ref.page \in Page /\ ref = [pt |-> ref.pt, page |-> ref.page]
      BY <2>5, <2>13, RefFacts
    <3>2. v3 = SetPte(v2, [pt |-> ref.pt, page |-> ref.page], "swapped", dest)
      BY <2>13, <3>1 DEF MarkSwapped
    <3> HIDE DEF v3
    <3>3. v3 \in VmType /\ Wrote(v2, v3, ref.pt, ref.page, e) /\ v3.fm = t /\ v3.mem = v2.mem
      BY <2>2, <2>9, <3>1, <3>2, SetPteShape
    <3>4. VmOK(v3)
      BY <2>6, <2>10, <2>11, <3>1, <3>3, WroteOK
    <3>6. InOrder(u) /\ Gave(t, u, "E1", victim)
      BY <2>4, <2>6, <2>14, <3>3, Give, FrameFacts DEF u
    <3>7. VmOK(w) /\ w.fm = u /\ w.dmem = v3.dmem /\ w.mem = v2.mem /\ w.status = v3.status
      BY <2>7, <3>3, <3>4, <3>6, FmOK
    <3>8. Wrote(v, w, ref.pt, ref.page, e)
      BY <2>9, <3>3, <3>7 DEF Wrote
    <3>9. EvictedTo(v, w, victim, dest)
      BY <2>4, <2>6, <2>9, <2>13, <3>6, <3>7, <3>8 DEF EvictedTo, own, ref
    <3> QED
      BY <1>2, <2>3, <3>7, <3>9 DEF w, dest
  <2> QED
    BY <2>12, <2>13
<1> QED
  BY <1>1, <1>2

\* The page in frame src of E2 comes back into f (pgfutil.c:58-86).
RestoredTo(v, w, pid, d, g, src, f) ==
  /\ \E t : /\ InOrder(t) /\ Took(v.fm, t, "E1", f, pid, PteRefOf(v, d, g))
            /\ IF v.fm.state[src] = "FREE" THEN w.fm = t ELSE Gave(t, w.fm, "E2", src)
  /\ w.mem = [v.mem EXCEPT ![f] = v.mem[src]]
  /\ Wrote(v, w, v.dmem[d].heap, g, [st |-> "present", base |-> f])

\* restoreframe (pgfutil.c:58-86) does nothing if E1 is full, else it moves
\* the page back.
LEMMA restoreframeShape ==
  ASSUME NEW v, VmOK(v), NEW pid \in Pid, NEW d \in DFrame, v.dmem[d].heap \in DFrame,
         NEW g \in Page, getpte(v, d, g).base \in RegionFrames("E2")
  PROVE  LET w == restoreframe(v, pid, d, g) IN
         /\ VmOK(w)
         /\ e1full(v) => w = v
         /\ ~ e1full(v) => RestoredTo(v, w, pid, d, g, getpte(v, d, g).base,
                                      FreeFrame(v.fm, "E1"))
<1> DEFINE w == restoreframe(v, pid, d, g)
           f == FreeFrame(v.fm, "E1")
           src == getpte(v, d, g).base
<1>1. CASE e1full(v)
  <2>1. f = SYSERR
    BY <1>1 DEF e1full, hasfreeframe, FreeFrame
  <2>2. w = v
    BY <2>1 DEF restoreframe
  <2> QED
    BY <1>1, <2>2
<1>2. CASE ~ e1full(v)
  <2> DEFINE v1 == mapfreeframe(v, pid, d, g)
             v2 == CopyFrame(v1, src, f)
             u == invfreeframe(v2.fm, src)
  <2>1. v.fm.free["E1"] # << >>
    BY <1>2 DEF e1full, hasfreeframe
  <2>2. f \in RegionFrames("E1") /\ f \in EFrame /\ f # SYSERR
    <3>1. f \in RegionFrames("E1") /\ f \in Nat
      BY <2>1, TopOfStack, FrameFacts DEF VmOK
    <3> QED
      BY <3>1, FrameFacts DEF SYSERR
  <2>3. src \in EFrame /\ src \in RegionFrames("E2") /\ src # f /\ src \in Frame
    BY <2>2, FrameFacts
  <2>4. w = [v2 EXCEPT !.fm = u]
    BY <2>2 DEF restoreframe
  <2>5. VmOK(v1) /\ v1.mem = v.mem /\ MappedTo(v, v1, pid, d, g, f)
    BY <1>2, mapfreeframeShape
  <2> HIDE DEF v1, f, src, w
  <2>6. v1 \in VmType
    BY <2>5 DEF VmOK
  <2>7. /\ v2 \in VmType /\ v2.fm = v1.fm /\ v2.dmem = v1.dmem /\ v2.status = v1.status
        /\ v2.mem = [v1.mem EXCEPT ![f] = v1.mem[src]]
    <3>1. v1 \in VmType /\ src \in EFrame /\ f \in EFrame
      BY <2>2, <2>3, <2>6
    <3> QED
      BY <3>1, CopyFrameShape
  <2> HIDE DEF v2
  <2>8. VmOK(v2)
    BY <2>5, <2>7 DEF VmOK
  <2>9. InOrder(v2.fm) /\ v2.fm.state[src] = v.fm.state[src]
    <3>1. v.fm.state \in [Frame -> {"FREE", "USED"}]
      BY InOrderFacts DEF VmOK
    <3>2. v2.fm.state[src] = v.fm.state[src]
      BY <2>3, <2>5, <2>7, <3>1 DEF MappedTo, Took
    <3> QED
      BY <2>8, <3>2 DEF VmOK
  <2>10. /\ InOrder(u)
         /\ v.fm.state[src] = "FREE" => u = v1.fm
         /\ v.fm.state[src] # "FREE" => Gave(v1.fm, u, "E2", src)
    BY <2>3, <2>7, <2>9, GiveShape, FrameFacts
  <2> HIDE DEF u
  <2>11. /\ VmOK(w) /\ w.fm = u /\ w.dmem = v1.dmem /\ w.status = v1.status
         /\ w.mem = [v.mem EXCEPT ![f] = v.mem[src]]
    BY <2>4, <2>5, <2>7, <2>8, <2>10, FmOK
  <2>12. Wrote(v, w, v.dmem[d].heap, g, [st |-> "present", base |-> f])
    BY <2>5, <2>11 DEF MappedTo, Wrote
  <2>13. RestoredTo(v, w, pid, d, g, src, f)
    BY <2>5, <2>10, <2>11, <2>12 DEF RestoredTo, MappedTo, VmOK
  <2> QED
    BY <1>2, <2>11, <2>13 DEF w, f, src
<1> QED
  BY <1>1, <1>2

\* The page in frame src of E2 changes places with a victim (pgfutil.c:168-201):
\* src is given up, the victim evicted, and the page copied to its new frame.
LEMMA swapframeShape ==
  ASSUME NEW v, VmOK(v), NEW pid \in Pid, NEW d \in DFrame, v.dmem[d].heap \in DFrame,
         NEW g \in Page, getpte(v, d, g).base \in RegionFrames("E2")
  PROVE  LET w == swapframe(v, pid, d, g)
             src == getpte(v, d, g).base
             v0 == [v EXCEPT !.fm = invfreeframe(@, src)]
             v1 == evictframe(v0)
             f == FreeFrame(v1.fm, "E1")
         IN  /\ VmOK(w) /\ VmOK(v0) /\ VmOK(v1)
             /\ v0.dmem = v.dmem /\ v0.mem = v.mem /\ v0.status = v.status
             /\ IF v.fm.state[src] = "FREE" THEN v0.fm = v.fm ELSE Gave(v.fm, v0.fm, "E2", src)
             /\ e1full(v1) => w = [v1 EXCEPT !.status = "nowhere"]
             /\ ~ e1full(v1) => /\ MappedTo(v1, w, pid, d, g, f)
                                /\ w.mem = [v1.mem EXCEPT ![f] = v.mem[src]]
<1> DEFINE w == swapframe(v, pid, d, g)
           src == getpte(v, d, g).base
           t == invfreeframe(v.fm, src)
           v0 == [v EXCEPT !.fm = t]
           v1 == evictframe(v0)
           f == FreeFrame(v1.fm, "E1")
<1>1. src \in EFrame /\ src \in RegionFrames("E2")
  BY FrameFacts
<1>2. InOrder(v.fm) /\ v \in VmType
  BY DEF VmOK
<1> HIDE DEF src
<1>3. /\ InOrder(t)
      /\ v.fm.state[src] = "FREE" => t = v.fm
      /\ v.fm.state[src] # "FREE" => Gave(v.fm, t, "E2", src)
  BY <1>1, <1>2, GiveShape, FrameFacts
<1> HIDE DEF t
<1>4. VmOK(v0) /\ v0.fm = t /\ v0.dmem = v.dmem /\ v0.mem = v.mem /\ v0.status = v.status
  BY <1>3, FmOK
<1> HIDE DEF v0
<1>5. /\ VmOK(v1)
      /\ v0.fm.used = << >> \/ e2full(v0) => v1 = v0
      /\ ~ (v0.fm.used = << >> \/ e2full(v0)) =>
           EvictedTo(v0, v1, Head(v0.fm.used), FreeFrame(v0.fm, "E2"))
  BY <1>4, evictframeShape, SMTT(30)
<1> HIDE DEF v1
<1>6. v1.dmem[d].heap = v.dmem[d].heap /\ v1.dmem[d].heap \in DFrame
  BY <1>4, <1>5 DEF EvictedTo, Wrote
<1>7. VmOK(w) /\ /\ e1full(v1) => w = [v1 EXCEPT !.status = "nowhere"]
                 /\ ~ e1full(v1) => /\ MappedTo(v1, w, pid, d, g, f)
                                    /\ w.mem = [v1.mem EXCEPT ![f] = v.mem[src]]
  <2>1. CASE e1full(v1)
    <3>1. f = SYSERR
      BY <2>1 DEF e1full, hasfreeframe, FreeFrame
    <3>2. w = [v1 EXCEPT !.status = "nowhere"]
      BY <3>1 DEF swapframe, v1, v0, t, src
    <3>3. v1 \in VmType /\ "nowhere" \in Status
      BY <1>5 DEF VmOK, Status
    <3> HIDE DEF w
    <3>4. w \in VmType /\ w.fm = v1.fm /\ w.dmem = v1.dmem
      BY <3>2, <3>3, StatusShape
    <3>5. VmOK(w)
      BY <1>5, <3>4 DEF VmOK
    <3> QED
      BY <2>1, <3>2, <3>5
  <2>2. CASE ~ e1full(v1)
    <3> DEFINE u == mapfreeframe(v1, pid, d, g)
               m == [u.mem EXCEPT ![f] = v.mem[src]]
    <3>1. v1.fm.free["E1"] # << >>
      BY <2>2 DEF e1full, hasfreeframe
    <3>2. f \in EFrame /\ f # SYSERR
      <4>1. f \in RegionFrames("E1") /\ f \in Nat
        BY <1>5, <3>1, TopOfStack, FrameFacts DEF VmOK
      <4> QED
        BY <4>1, FrameFacts DEF SYSERR
    <3>3. w = [u EXCEPT !.mem = m]
      BY <3>2 DEF swapframe, v1, v0, t, src
    <3>4. VmOK(u) /\ u.mem = v1.mem /\ MappedTo(v1, u, pid, d, g, f)
      BY <1>5, <1>6, <2>2, mapfreeframeShape
    <3> HIDE DEF u, f
    <3>5. u \in VmType /\ v.mem \in [EFrame -> Cell] /\ u.mem \in [EFrame -> Cell]
      BY <1>2, <3>4, VmFacts DEF VmOK
    <3>6. m \in [EFrame -> Cell]
      BY <1>1, <3>2, <3>5
    <3> HIDE DEF m, w
    <3>7. w \in VmType /\ w.fm = u.fm /\ w.dmem = u.dmem /\ w.mem = m /\ w.status = u.status
      BY <3>3, <3>5, <3>6, MemShape
    <3>8. VmOK(w)
      BY <3>4, <3>7 DEF VmOK
    <3>9. MappedTo(v1, w, pid, d, g, f)
      BY <3>4, <3>7 DEF MappedTo, Wrote
    <3> QED
      BY <2>2, <3>4, <3>7, <3>8, <3>9 DEF m
  <2> QED
    BY <2>1, <2>2
<1>8. v0 = [v EXCEPT !.fm = invfreeframe(@, src)]
  BY DEF v0, t
<1> QED
  BY <1>3, <1>4, <1>5, <1>7, <1>8 DEF v1, src, t

-----------------------------------------------------------------------------
(* What these calls keep of region D.                                       *)

\* The frames of region D hold what they held, and for the same processes.
KeepsD(v, w) ==
  /\ \A x \in DFrame : /\ w.dmem[x].kind = v.dmem[x].kind /\ w.dmem[x].heap = v.dmem[x].heap
                       /\ w.fm.state[x] = v.fm.state[x] /\ w.fm.pid[x] = v.fm.pid[x]
  /\ w.fm.free["D"] = v.fm.free["D"]
  /\ w.status \in {v.status, "wild", "nowhere"}

\* Of regions other than r, and of D, nothing that matters changes.
OnlyIn(t, u, r) ==
  /\ \A x \in DFrame : /\ u.state[x] = t.state[x] /\ u.pid[x] = t.pid[x]
                       /\ u.refcnt[x] = t.refcnt[x]
  /\ \A q \in Region : q # r => u.free[q] = t.free[q]

\* A call on a frame of E1 or E2.
LEMMA TookKeeps ==
  ASSUME NEW t, InOrder(t), NEW u, NEW r \in {"E1", "E2"}, NEW f, NEW pid, NEW pte,
         Took(t, u, r, f, pid, pte)
  PROVE  /\ OnlyIn(t, u, r)
         /\ u.free[r] = Tail(t.free[r])
<1>1. f \notin DFrame /\ DFrame \subseteq Frame /\ r \in Region
  BY FrameFacts DEF Took, EFrame
<1>2. /\ t.state \in [Frame -> {"FREE", "USED"}] /\ t.pid \in [Frame -> Pid]
      /\ t.free \in [Region -> Seq(Frame)]
  BY InOrderFacts
<1> QED
  BY <1>1, <1>2 DEF Took, OnlyIn

\* A frame given up in E1 or E2 leaves region D alone and its own stack with
\* something on it.
LEMMA GaveKeeps ==
  ASSUME NEW t, InOrder(t), NEW u, NEW r \in {"E1", "E2"}, NEW f, Gave(t, u, r, f)
  PROVE  /\ OnlyIn(t, u, r)
         /\ u.free[r] = <<f>> \o t.free[r] /\ u.free[r] # << >>
<1>1. f \notin DFrame /\ DFrame \subseteq Frame /\ r \in Region /\ f \in Frame
  BY FrameFacts DEF Gave, EFrame
<1>2. /\ t.state \in [Frame -> {"FREE", "USED"}] /\ t.pid \in [Frame -> Pid]
      /\ t.free \in [Region -> Seq(Frame)] /\ t.free[r] \in Seq(Frame)
  BY <1>1, InOrderFacts
<1>3. <<f>> \o t.free[r] # << >>
  BY <1>1, <1>2
<1> QED
  BY <1>1, <1>2, <1>3 DEF Gave, OnlyIn

\* Mapping a page leaves region D alone and takes a frame of E1.
LEMMA MappedKeeps ==
  ASSUME NEW v, VmOK(v), NEW w, NEW pid, NEW d, NEW g, NEW f, MappedTo(v, w, pid, d, g, f)
  PROVE  KeepsD(v, w) /\ w.fm.free["E1"] = Tail(v.fm.free["E1"])
         /\ w.fm.free["E2"] = v.fm.free["E2"]
<1>1. OnlyIn(v.fm, w.fm, "E1") /\ w.fm.free["E1"] = Tail(v.fm.free["E1"])
  BY TookKeeps DEF VmOK, MappedTo
<1> QED
  BY <1>1 DEF MappedTo, Wrote, KeepsD, OnlyIn, Region

\* An eviction moves a page to E2 and frees its frame of E1.
LEMMA EvictedKeeps ==
  ASSUME NEW v, VmOK(v), NEW w, NEW a, NEW b, EvictedTo(v, w, a, b)
  PROVE  KeepsD(v, w) /\ w.fm.free["E1"] = <<a>> \o v.fm.free["E1"]
         /\ w.fm.free["E1"] # << >> /\ w.fm.free["E2"] = Tail(v.fm.free["E2"])
<1>1. PICK t : /\ InOrder(t) /\ Took(v.fm, t, "E2", b, v.fm.pid[a], v.fm.pte[a])
               /\ Gave(t, w.fm, "E1", a)
  BY DEF EvictedTo
<1>2. /\ OnlyIn(v.fm, t, "E2")
      /\ t.free["E2"] = Tail(v.fm.free["E2"])
  BY <1>1, TookKeeps DEF VmOK
<1>3. /\ OnlyIn(t, w.fm, "E1")
      /\ w.fm.free["E1"] = <<a>> \o t.free["E1"] /\ w.fm.free["E1"] # << >>
  BY <1>1, GaveKeeps
<1>4. /\ \A x \in DFrame : w.dmem[x].kind = v.dmem[x].kind /\ w.dmem[x].heap = v.dmem[x].heap
      /\ w.status \in {v.status, "wild"}
  BY DEF EvictedTo, Wrote
<1> QED
  BY <1>2, <1>3, <1>4 DEF KeepsD, OnlyIn, Region

\* No step leaves region D alone.
LEMMA KeepsDSame ==
  ASSUME NEW v
  PROVE  KeepsD(v, v)
BY DEF KeepsD

\* evictframe leaves region D alone; if it frees a frame of E1 it took one of
\* E2.
LEMMA evictframeKeeps ==
  ASSUME NEW v, VmOK(v)
  PROVE  LET w == evictframe(v) IN
         /\ VmOK(w) /\ KeepsD(v, w)
         /\ e1full(v) /\ ~ e1full(w) => w.fm.free["E1"] = <<Head(v.fm.used)>>
                                        /\ w.fm.free["E2"] = Tail(v.fm.free["E2"])
<1> DEFINE w == evictframe(v)
<1>1. CASE v.fm.used = << >> \/ e2full(v)
  <2>1. w = v
    BY <1>1, evictframeShape
  <2> QED
    BY <2>1, KeepsDSame
<1>2. CASE ~ (v.fm.used = << >> \/ e2full(v))
  <2> DEFINE a == Head(v.fm.used)
             b == FreeFrame(v.fm, "E2")
  <2>1. VmOK(w) /\ EvictedTo(v, w, a, b)
    BY <1>2, evictframeShape
  <2> HIDE DEF w, a, b
  <2>2. /\ KeepsD(v, w) /\ w.fm.free["E1"] = <<a>> \o v.fm.free["E1"]
        /\ w.fm.free["E2"] = Tail(v.fm.free["E2"])
    BY <2>1, EvictedKeeps
  <2>3. ASSUME e1full(v)
        PROVE  w.fm.free["E1"] = <<a>>
    <3>1. v.fm.free["E1"] = << >>
      BY <2>3 DEF e1full, hasfreeframe
    <3>2. <<a>> \o << >> = <<a>>
      OBVIOUS
    <3> QED
      BY <2>2, <3>1, <3>2
  <2> QED
    BY <2>1, <2>2, <2>3 DEF w, a
<1> QED
  BY <1>1, <1>2

\* Two steps that leave region D alone make one.
LEMMA KeepsDTrans ==
  ASSUME NEW u, NEW v, NEW w, KeepsD(u, v), KeepsD(v, w)
  PROVE  KeepsD(u, w)
BY DEF KeepsD

\* mapfreeframe leaves region D alone.
LEMMA mapfreeframeKeeps ==
  ASSUME NEW v, VmOK(v), NEW pid \in Pid, NEW d \in DFrame, v.dmem[d].heap \in DFrame,
         NEW g \in Page
  PROVE  LET w == mapfreeframe(v, pid, d, g) IN VmOK(w) /\ KeepsD(v, w)
<1> DEFINE w == mapfreeframe(v, pid, d, g)
<1>1. /\ VmOK(w)
      /\ e1full(v) => w = v
      /\ ~ e1full(v) => MappedTo(v, w, pid, d, g, FreeFrame(v.fm, "E1"))
  BY mapfreeframeShape
<1> HIDE DEF w
<1>2. KeepsD(v, w)
  BY <1>1, MappedKeeps, KeepsDSame
<1> QED
  BY <1>1, <1>2 DEF w

\* restoreframe leaves region D alone.
LEMMA restoreframeKeeps ==
  ASSUME NEW v, VmOK(v), NEW pid \in Pid, NEW d \in DFrame, v.dmem[d].heap \in DFrame,
         NEW g \in Page, getpte(v, d, g).base \in RegionFrames("E2")
  PROVE  LET w == restoreframe(v, pid, d, g) IN VmOK(w) /\ KeepsD(v, w)
<1> DEFINE w == restoreframe(v, pid, d, g)
           f == FreeFrame(v.fm, "E1")
           src == getpte(v, d, g).base
<1>1. /\ VmOK(w)
      /\ e1full(v) => w = v
      /\ ~ e1full(v) => RestoredTo(v, w, pid, d, g, src, f)
  BY restoreframeShape
<1> HIDE DEF w, f, src
<1>2. CASE e1full(v)
  <2>1. VmOK(w) /\ KeepsD(v, w)
    BY <1>1, <1>2, KeepsDSame
  <2> QED
    BY <2>1 DEF w
<1>3. CASE ~ e1full(v)
  <2>1. PICK t : /\ InOrder(t) /\ Took(v.fm, t, "E1", f, pid, PteRefOf(v, d, g))
                 /\ IF v.fm.state[src] = "FREE" THEN w.fm = t ELSE Gave(t, w.fm, "E2", src)
    BY <1>1, <1>3 DEF RestoredTo
  <2>2. OnlyIn(v.fm, t, "E1")
    BY <2>1, TookKeeps DEF VmOK
  <2>3. w.fm = t \/ OnlyIn(t, w.fm, "E2")
    BY <2>1, GaveKeeps
  <2>4. /\ \A x \in DFrame : w.dmem[x].kind = v.dmem[x].kind /\ w.dmem[x].heap = v.dmem[x].heap
        /\ w.status \in {v.status, "wild"}
    BY <1>1, <1>3 DEF RestoredTo, Wrote
  <2>5. KeepsD(v, w)
    BY <2>2, <2>3, <2>4 DEF KeepsD, OnlyIn, Region
  <2> QED
    BY <1>1, <2>5 DEF w
<1> QED
  BY <1>2, <1>3

\* When both regions are full before, they are afterwards: the frame that the
\* page leaves takes the victim, and the victim's frame the page.  Otherwise
\* the copy went nowhere.
LEMMA swapframeKeeps ==
  ASSUME NEW v, VmOK(v), NEW pid \in Pid, NEW d \in DFrame, v.dmem[d].heap \in DFrame,
         NEW g \in Page, getpte(v, d, g).base \in RegionFrames("E2")
  PROVE  LET w == swapframe(v, pid, d, g) IN
         /\ VmOK(w) /\ KeepsD(v, w)
         /\ bothfull(v) => bothfull(w) \/ w.status = "nowhere"
<1> DEFINE w == swapframe(v, pid, d, g)
           src == getpte(v, d, g).base
           v0 == [v EXCEPT !.fm = invfreeframe(@, src)]
           v1 == evictframe(v0)
           f == FreeFrame(v1.fm, "E1")
<1>1. /\ VmOK(w) /\ VmOK(v0) /\ VmOK(v1)
      /\ v0.dmem = v.dmem /\ v0.mem = v.mem /\ v0.status = v.status
      /\ IF v.fm.state[src] = "FREE" THEN v0.fm = v.fm ELSE Gave(v.fm, v0.fm, "E2", src)
      /\ e1full(v1) => w = [v1 EXCEPT !.status = "nowhere"]
      /\ ~ e1full(v1) => /\ MappedTo(v1, w, pid, d, g, f)
                         /\ w.mem = [v1.mem EXCEPT ![f] = v.mem[src]]
  BY swapframeShape
<1>2. /\ KeepsD(v0, v1)
      /\ e1full(v0) /\ ~ e1full(v1) => v1.fm.free["E1"] = <<Head(v0.fm.used)>>
                                        /\ v1.fm.free["E2"] = Tail(v0.fm.free["E2"])
  BY <1>1, evictframeKeeps
<1> HIDE DEF w, v0, v1, src, f
<1>3. KeepsD(v, v0)
  <2>1. CASE v.fm.state[src] = "FREE"
    BY <1>1, <2>1 DEF KeepsD
  <2>2. CASE v.fm.state[src] # "FREE"
    <3>1. Gave(v.fm, v0.fm, "E2", src) /\ InOrder(v.fm)
      BY <1>1, <2>2 DEF VmOK
    <3>2. OnlyIn(v.fm, v0.fm, "E2")
      BY <3>1, GaveKeeps
    <3> QED
      BY <1>1, <3>2 DEF KeepsD, OnlyIn, Region
  <2> QED
    BY <2>1, <2>2
<1>4. ASSUME bothfull(v)
      PROVE  e1full(v0) /\ (v0.fm.free["E2"] = << >> \/ v0.fm.free["E2"] = <<src>>)
  <2>1. v.fm.free["E1"] = << >> /\ v.fm.free["E2"] = << >>
    BY <1>4 DEF bothfull, e1full, e2full, hasfreeframe
  <2>2. CASE v.fm.state[src] = "FREE"
    BY <1>1, <2>1, <2>2 DEF e1full, hasfreeframe
  <2>3. CASE v.fm.state[src] # "FREE"
    <3>1. Gave(v.fm, v0.fm, "E2", src) /\ InOrder(v.fm)
      BY <1>1, <2>3 DEF VmOK
    <3>2. OnlyIn(v.fm, v0.fm, "E2") /\ v0.fm.free["E2"] = <<src>> \o v.fm.free["E2"]
      BY <3>1, GaveKeeps
    <3>3. <<src>> \o << >> = <<src>>
      OBVIOUS
    <3> QED
      BY <2>1, <3>2, <3>3 DEF e1full, hasfreeframe, Region, OnlyIn
  <2> QED
    BY <2>2, <2>3
<1>5. CASE e1full(v1)
  <2>1. v1 \in VmType /\ "nowhere" \in Status
    BY <1>1 DEF VmOK, Status
  <2>2. w.fm = v1.fm /\ w.dmem = v1.dmem /\ w.status = "nowhere"
    <3>1. w = [v1 EXCEPT !.status = "nowhere"]
      BY <1>1, <1>5
    <3> QED
      BY <2>1, <3>1, StatusShape
  <2>3. KeepsD(v1, w)
    BY <2>2 DEF KeepsD
  <2> QED
    BY <1>1, <1>2, <1>3, <2>2, <2>3, KeepsDTrans DEF w
<1>6. CASE ~ e1full(v1)
  <2>1. KeepsD(v1, w) /\ w.fm.free["E1"] = Tail(v1.fm.free["E1"])
        /\ w.fm.free["E2"] = v1.fm.free["E2"]
    BY <1>1, <1>6, MappedKeeps
  <2>2. ASSUME bothfull(v)
        PROVE  bothfull(w)
    <3>1. /\ v1.fm.free["E1"] = <<Head(v0.fm.used)>>
          /\ v1.fm.free["E2"] = Tail(v0.fm.free["E2"])
      BY <1>2, <1>4, <1>6, <2>2
    <3>2. Tail(v1.fm.free["E1"]) = << >>
      BY <3>1
    <3>3. v0.fm.free["E2"] = <<src>> \/ v0.fm.free["E2"] = << >>
      BY <1>4, <2>2
    <3>4. v0.fm.free["E2"] = << >> => v1 = v0
      BY <1>1, evictframeShape DEF e2full, hasfreeframe, v1
    <3>5. v1.fm.free["E2"] = << >>
      <4>1. CASE v0.fm.free["E2"] = << >>
        BY <1>4, <1>6, <2>2, <3>4, <4>1
      <4>2. CASE v0.fm.free["E2"] = <<src>>
        <5>1. Tail(<<src>>) = << >>
          OBVIOUS
        <5> QED
          BY <3>1, <4>2, <5>1
      <4> QED
        BY <3>3, <4>1, <4>2
    <3> QED
      BY <2>1, <3>2, <3>5 DEF bothfull, e1full, e2full, hasfreeframe
  <2> QED
    BY <1>1, <1>2, <1>3, <2>1, <2>2, KeepsDTrans DEF w
<1> QED
  BY <1>5, <1>6

-----------------------------------------------------------------------------
(* pgfhandler.c and vmhfreemem.c, by the process that runs.                 *)

\* The count of frame h gets the value n.
Counted(v, h, n) == [v EXCEPT !.fm.refcnt[h] = n]

\* A change of a page table's count of present pages and of nothing else.
LEMMA CountedShape ==
  ASSUME NEW v, VmOK(v), NEW h \in Frame, NEW n \in Int
  PROVE  LET w == Counted(v, h, n) IN
         /\ VmOK(w) /\ w.dmem = v.dmem /\ w.mem = v.mem /\ w.status = v.status
         /\ w.fm.state = v.fm.state /\ w.fm.pid = v.fm.pid /\ w.fm.pte = v.fm.pte
         /\ w.fm.free = v.fm.free /\ w.fm.used = v.fm.used
         /\ \A x \in Frame : w.fm.refcnt[x] = IF x = h THEN n ELSE v.fm.refcnt[x]
<1> DEFINE c == [v.fm.refcnt EXCEPT ![h] = n]
           t == [v.fm EXCEPT !.refcnt = c]
           w == [v EXCEPT !.fm = t]
<1>1. InOrder(v.fm) /\ v.fm \in FrameTable /\ v.fm.refcnt \in [Frame -> Int]
  BY InOrderFacts DEF VmOK, InOrder
<1>2. c \in [Frame -> Int] /\ \A x \in Frame : c[x] = IF x = h THEN n ELSE v.fm.refcnt[x]
  BY <1>1
<1>3. Counted(v, h, n) = w
  BY DEF Counted
<1> HIDE DEF c
<1>4. /\ t \in FrameTable /\ t.state = v.fm.state /\ t.pid = v.fm.pid /\ t.pte = v.fm.pte
      /\ t.free = v.fm.free /\ t.used = v.fm.used /\ t.refcnt = c
  BY <1>1, <1>2 DEF FrameTable
<1> HIDE DEF t
<1>5. InOrder(t)
  BY <1>1, <1>4 DEF InOrder, UsedFrames
<1>6. VmOK(w) /\ w.fm = t /\ w.dmem = v.dmem /\ w.mem = v.mem /\ w.status = v.status
  BY <1>5, FmOK
<1> HIDE DEF w
<1> QED
  BY <1>2, <1>3, <1>4, <1>6

\* The first touch of a page (pgfhandler.c:107-121) leaves region D alone.
LEMMA NewPageKeeps ==
  ASSUME NEW v, VmOK(v), me \in Pid, mypd \in DFrame, v.dmem[mypd].heap \in DFrame,
         NEW g \in Page
  PROVE  LET w == NewPage(v, g) IN VmOK(w) /\ KeepsD(v, w)
<1> DEFINE u == IF e1full(v) THEN evictframe(v) ELSE v
           v1 == mapfreeframe(u, me, mypd, g)
           h == v1.dmem[mypd].heap
           n == v1.fm.refcnt[h] + 1
           w == Counted(v1, h, n)
<1>1. VmOK(u) /\ KeepsD(v, u)
  BY evictframeKeeps, KeepsDSame
<1> HIDE DEF u
<1>2. u.dmem[mypd].heap \in DFrame
  BY <1>1 DEF KeepsD
<1>3. VmOK(v1) /\ KeepsD(u, v1)
  BY <1>1, <1>2, mapfreeframeKeeps
<1> HIDE DEF v1
<1>4. h \in DFrame /\ h \in Frame
  BY <1>2, <1>3, FrameFacts DEF KeepsD
<1>5. n \in Int
  <2>1. v1.fm.refcnt \in [Frame -> Int]
    BY <1>3, InOrderFacts DEF VmOK
  <2> QED
    BY <1>4, <2>1
<1>6. NewPage(v, g) = w
  BY DEF NewPage, Counted, v1, u
<1> HIDE DEF h, n
<1>7. /\ VmOK(w) /\ w.dmem = v1.dmem /\ w.status = v1.status
      /\ w.fm.state = v1.fm.state /\ w.fm.pid = v1.fm.pid /\ w.fm.free = v1.fm.free
  <2>1. VmOK(v1) /\ h \in Frame /\ n \in Int
    BY <1>3, <1>4, <1>5
  <2> QED
    BY <2>1, CountedShape
<1> HIDE DEF w
<1>8. KeepsD(v, v1)
  BY <1>1, <1>3, KeepsDTrans
<1>9. KeepsD(v, w)
  BY <1>7, <1>8 DEF KeepsD
<1> QED
  BY <1>6, <1>7, <1>9

\* An eviction leaves an entry that is swapped so.
LEMMA evictframeSwapped ==
  ASSUME NEW v, VmOK(v), NEW d \in DFrame, NEW g \in Page, v.dmem[d].pte[g].st = "swapped"
  PROVE  evictframe(v).dmem[d].pte[g].st = "swapped"
<1> DEFINE w == evictframe(v)
           a == Head(v.fm.used)
           b == FreeFrame(v.fm, "E2")
<1>1. w = v \/ EvictedTo(v, w, a, b)
  BY evictframeShape
<1> HIDE DEF w, a, b
<1>2. CASE w = v
  BY <1>2 DEF w
<1>3. CASE EvictedTo(v, w, a, b)
  BY <1>3 DEF EvictedTo, Wrote, w
<1> QED
  BY <1>1, <1>2, <1>3

\* A touch of a swapped page (pgfhandler.c:82-93) leaves region D alone, and
\* E1 or E2 full if both were.
LEMMA OldPageKeeps ==
  ASSUME NEW v, VmOK(v), me \in Pid, mypd \in DFrame, v.dmem[mypd].heap \in DFrame,
         NEW g \in Page, getpte(v, mypd, g).st = "swapped"
  PROVE  LET w == OldPage(v, g) IN
         /\ VmOK(w) /\ KeepsD(v, w)
         /\ bothfull(v) => bothfull(w) \/ w.status = "nowhere"
<1>1. getpte(v, mypd, g).base \in RegionFrames("E2")
  BY DEF getpte, VmOK, Based
<1>2. CASE bothfull(v)
  <2>1. OldPage(v, g) = swapframe(v, me, mypd, g)
    BY <1>2 DEF OldPage
  <2> QED
    BY <1>1, <1>2, <2>1, swapframeKeeps
<1>3. CASE ~ bothfull(v)
  <2> DEFINE u == IF e1full(v) THEN evictframe(v) ELSE v
  <2>1. VmOK(u) /\ KeepsD(v, u)
    BY evictframeKeeps, KeepsDSame
  <2>2. \A d \in DFrame : v.dmem[d].pte[g].st = "swapped" => u.dmem[d].pte[g].st = "swapped"
    BY evictframeSwapped
  <2>3. OldPage(v, g) = restoreframe(u, me, mypd, g)
    BY <1>3 DEF OldPage
  <2> HIDE DEF u
  <2>4. u.dmem[mypd].heap = v.dmem[mypd].heap /\ u.dmem[mypd].heap \in DFrame
    BY <2>1 DEF KeepsD
  <2>5. getpte(u, mypd, g).base \in RegionFrames("E2")
    BY <2>1, <2>2, <2>4 DEF getpte, VmOK, Based
  <2> DEFINE w == restoreframe(u, me, mypd, g)
  <2>6. VmOK(w) /\ KeepsD(u, w)
    BY <2>1, <2>4, <2>5, restoreframeKeeps
  <2> HIDE DEF w
  <2>7. KeepsD(v, w)
    BY <2>1, <2>6, KeepsDTrans
  <2> QED
    BY <1>3, <2>3, <2>6, <2>7 DEF w
<1> QED
  BY <1>2, <1>3

\* The entry of page g leads nowhere, its page table counts one page less, and
\* its frame is given up, if it is in use (vmhfreemem.c:31-55).
DeallocatedTo(v, w, h, g, b) ==
  /\ Wrote(v, w, h, g, NoPte) /\ w.mem = v.mem
  /\ \E r \in {"E1", "E2"} : \E t :
       /\ b \in RegionFrames(r) /\ InOrder(t)
       /\ t.state = v.fm.state /\ t.pid = v.fm.pid /\ t.pte = v.fm.pte /\ t.free = v.fm.free
       /\ \A x \in Frame : t.refcnt[x] = IF x = h THEN v.fm.refcnt[h] - 1 ELSE v.fm.refcnt[x]
       /\ t.state[b] = "FREE" => w.fm = t
       /\ t.state[b] # "FREE" => Gave(t, w.fm, r, b)

\* One page of vmhfreemem.
LEMMA DeallocatedShape ==
  ASSUME NEW v, VmOK(v), NEW d \in DFrame, v.dmem[d].heap \in DFrame, NEW g \in Page
  PROVE  LET w == set_pages_deallocated(v, d, g) IN
         /\ VmOK(w)
         /\ getpte(v, d, g).st = "absent" => w = v
         /\ getpte(v, d, g).st # "absent" =>
              DeallocatedTo(v, w, v.dmem[d].heap, g, getpte(v, d, g).base)
<1> DEFINE e == getpte(v, d, g)
           h == v.dmem[d].heap
           ref == [pt |-> h, page |-> g]
           w == set_pages_deallocated(v, d, g)
<1>0. e \in Pte /\ Based(e) /\ e.st \in {"absent", "present", "swapped"}
  BY VmFacts, PteFacts DEF VmOK, getpte
<1>1. CASE e.st = "absent"
  BY <1>1 DEF set_pages_deallocated
<1>2. CASE e.st # "absent"
  <2> DEFINE v1 == SetPte(v, ref, "absent", None)
             n == v1.fm.refcnt[h] - 1
             v2 == Counted(v1, h, n)
             t == invfreeframe(v2.fm, e.base)
  <2>1. \E r \in {"E1", "E2"} : e.base \in RegionFrames(r)
    BY <1>0, <1>2 DEF Based
  <2>2. PICK r \in {"E1", "E2"} : e.base \in RegionFrames(r)
    BY <2>1
  <2>3. w = [v2 EXCEPT !.fm = t]
    BY <1>2 DEF set_pages_deallocated, PteRefOf, Counted
  <2> HIDE DEF w, e, t
  <2>4. /\ v1 \in VmType /\ Wrote(v, v1, h, g, [st |-> "absent", base |-> None])
        /\ v1.fm = v.fm /\ v1.mem = v.mem
    BY SetPteShape DEF VmOK
  <2> HIDE DEF v1
  <2>5. [st |-> "absent", base |-> None] \in Pte /\ Based([st |-> "absent", base |-> None])
    BY DEF Pte, Based
  <2>6. VmOK(v1) /\ h \in Frame
    <3>1. InOrder(v1.fm)
      BY <2>4 DEF VmOK
    <3> QED
      BY <2>4, <2>5, <3>1, WroteOK, FrameFacts
  <2>7. n \in Int /\ n = v.fm.refcnt[h] - 1
    <3>1. v1.fm.refcnt \in [Frame -> Int]
      BY <2>6, InOrderFacts DEF VmOK
    <3> QED
      BY <2>4, <2>6, <3>1
  <2> HIDE DEF n
  <2>8. /\ VmOK(v2) /\ v2.dmem = v1.dmem /\ v2.mem = v1.mem /\ v2.status = v1.status
        /\ v2.fm.state = v1.fm.state /\ v2.fm.pid = v1.fm.pid /\ v2.fm.free = v1.fm.free
        /\ v2.fm.pte = v1.fm.pte
        /\ \A x \in Frame : v2.fm.refcnt[x] = IF x = h THEN n ELSE v1.fm.refcnt[x]
    <3>1. VmOK(v1) /\ h \in Frame /\ n \in Int
      BY <2>6, <2>7
    <3> HIDE DEF h
    <3> QED
      BY <3>1, CountedShape
  <2> HIDE DEF v2
  <2>10. /\ InOrder(t) /\ InOrder(v2.fm) /\ r \in Region
         /\ v2.fm.state[e.base] = "FREE" => t = v2.fm
         /\ v2.fm.state[e.base] # "FREE" => Gave(v2.fm, t, r, e.base)
    <3>1. InOrder(v2.fm) /\ r \in Region
      BY <2>8, FrameFacts DEF VmOK
    <3> QED
      BY <2>2, <3>1, GiveShape DEF t
  <2>12. VmOK(w) /\ w.fm = t /\ w.dmem = v2.dmem /\ w.status = v2.status /\ w.mem = v2.mem
    BY <2>3, <2>8, <2>10, FmOK
  <2>13. Wrote(v, w, h, g, NoPte) /\ w.mem = v.mem
    BY <2>4, <2>8, <2>12 DEF Wrote, NoPte
  <2>14. /\ v2.fm.state = v.fm.state /\ v2.fm.pid = v.fm.pid /\ v2.fm.pte = v.fm.pte
         /\ v2.fm.free = v.fm.free
         /\ \A x \in Frame : v2.fm.refcnt[x] = IF x = h THEN v.fm.refcnt[h] - 1 ELSE v.fm.refcnt[x]
    BY <2>4, <2>7, <2>8
  <2>15. DeallocatedTo(v, w, h, g, e.base)
    <3> HIDE DEF h
    <3> QED
      BY <2>2, <2>10, <2>12, <2>13, <2>14 DEF DeallocatedTo
  <2> QED
    BY <1>2, <2>12, <2>15 DEF w, e
<1> QED
  BY <1>1, <1>2

\* One page of vmhfreemem leaves region D alone.
LEMMA DeallocatedKeeps ==
  ASSUME NEW v, VmOK(v), NEW d \in DFrame, v.dmem[d].heap \in DFrame, NEW g \in Page
  PROVE  LET w == set_pages_deallocated(v, d, g) IN VmOK(w) /\ KeepsD(v, w)
<1> DEFINE w == set_pages_deallocated(v, d, g)
           h == v.dmem[d].heap
           b == getpte(v, d, g).base
<1>1. /\ VmOK(w)
      /\ getpte(v, d, g).st = "absent" => w = v
      /\ getpte(v, d, g).st # "absent" => DeallocatedTo(v, w, h, g, b)
  BY DeallocatedShape
<1> HIDE DEF w, h, b
<1>2. CASE w = v
  BY <1>1, <1>2, KeepsDSame DEF w
<1>3. CASE DeallocatedTo(v, w, h, g, b)
  <2>5. PICK r \in {"E1", "E2"} : \E t :
          /\ InOrder(t) /\ t.state = v.fm.state /\ t.pid = v.fm.pid /\ t.free = v.fm.free
          /\ t.state[b] = "FREE" => w.fm = t
          /\ t.state[b] # "FREE" => Gave(t, w.fm, r, b)
    BY <1>3 DEF DeallocatedTo
  <2>1. PICK t :
          /\ InOrder(t) /\ t.state = v.fm.state /\ t.pid = v.fm.pid /\ t.free = v.fm.free
          /\ t.state[b] = "FREE" => w.fm = t
          /\ t.state[b] # "FREE" => Gave(t, w.fm, r, b)
    BY <2>5
  <2>2. w.fm = t \/ OnlyIn(t, w.fm, r)
    BY <2>1, GaveKeeps
  <2>3. w.fm.free["D"] = v.fm.free["D"]
        /\ \A x \in DFrame : w.fm.state[x] = v.fm.state[x] /\ w.fm.pid[x] = v.fm.pid[x]
    BY <2>1, <2>2 DEF OnlyIn, Region
  <2>4. KeepsD(v, w)
    BY <1>3, <2>3 DEF KeepsD, Wrote, DeallocatedTo
  <2> QED
    BY <1>1, <2>4 DEF w
<1> QED
  BY <1>1, <1>2, <1>3

\* The frame f of D becomes an empty page table that the directory in d leads to.
GotTable(v, w, pid, d, f) ==
  /\ Took(v.fm, w.fm, "D", f, pid, FR_PTEUNUSED)
  /\ f \in DFrame /\ v.fm.state[f] = "FREE"
  /\ \A x \in DFrame :
       /\ w.dmem[x].kind = IF x = f THEN "pt" ELSE v.dmem[x].kind
       /\ w.dmem[x].heap = IF x = d THEN f ELSE IF x = f THEN None ELSE v.dmem[x].heap
       /\ \A g \in Page : w.dmem[x].pte[g] = IF x = f THEN NoPte ELSE v.dmem[x].pte[g]
  /\ w.mem = v.mem /\ w.status = v.status

\* __pde_inv_check (pgfhandler.c:12-25).
LEMMA WithPageTableShape ==
  ASSUME NEW v, VmOK(v), me \in Pid, mypd \in DFrame
  PROVE  LET w == WithPageTable(v) IN
         /\ VmOK(w)
         /\ \/ w = v /\ v.dmem[mypd].heap # None
            \/ /\ v.dmem[mypd].heap = None
               /\ \/ /\ v.fm.free["D"] = << >> /\ w.status = "panic"
                     /\ w.fm = v.fm /\ w.dmem = v.dmem
                  \/ \E f : GotTable(v, w, me, mypd, f)
<1> DEFINE w == WithPageTable(v)
           f == NewDFrame(v)
<1>0. v \in VmType
  BY DEF VmOK
<1>1. CASE v.dmem[mypd].heap # None
  BY <1>1 DEF WithPageTable
<1>2. CASE v.dmem[mypd].heap = None /\ f = SYSERR
  <2>1. w = [v EXCEPT !.status = "panic"]
    BY <1>2 DEF WithPageTable
  <2>2. "panic" \in Status
    BY DEF Status
  <2> HIDE DEF w
  <2>3. w \in VmType /\ w.fm = v.fm /\ w.dmem = v.dmem /\ w.status = "panic"
    BY <1>0, <2>1, <2>2, StatusShape
  <2>4. v.fm.free["D"] = << >>
    BY <1>2, NewDFrameShape, FrameFacts DEF SYSERR
  <2> QED
    BY <1>2, <2>3, <2>4 DEF VmOK, w
<1>3. CASE v.dmem[mypd].heap = None /\ f # SYSERR
  <2> DEFINE u == newpt(v, me)
             c == [u.dmem[mypd] EXCEPT !.heap = f]
             m == [u.dmem EXCEPT ![mypd] = c]
  <2>1. w = [u EXCEPT !.dmem = m]
    BY <1>3 DEF WithPageTable
  <2>2. f \in DFrame /\ v.fm.state[f] = "FREE"
    BY <1>3, NewDFrameShape
  <2>3. /\ VmOK(u) /\ u.mem = v.mem /\ u.status = v.status
        /\ u.dmem = [v.dmem EXCEPT ![f] = DContent("pt")]
        /\ Took(v.fm, u.fm, "D", f, me, FR_PTEUNUSED)
    BY <1>3, NewDShape DEF newpt
  <2> HIDE DEF u, f, w
  <2>4. u \in VmType /\ u.dmem \in [DFrame -> Content] /\ u.dmem[mypd] \in Content
    BY <2>3, VmFacts DEF VmOK
  <2>5. c \in Content /\ c.kind = u.dmem[mypd].kind /\ c.heap = f /\ c.pte = u.dmem[mypd].pte
    BY <2>2, <2>4 DEF Content
  <2> HIDE DEF c
  <2>6. m \in [DFrame -> Content] /\ \A x \in DFrame : m[x] = IF x = mypd THEN c ELSE u.dmem[x]
    BY <2>4, <2>5
  <2> HIDE DEF m
  <2>7. w \in VmType /\ w.fm = u.fm /\ w.dmem = m /\ w.mem = u.mem /\ w.status = u.status
    BY <2>1, <2>4, <2>6, DmemShape
  <2>8. \A x \in DFrame : u.dmem[x] = IF x = f THEN DContent("pt") ELSE v.dmem[x]
    <3>1. v.dmem \in [DFrame -> Content]
      BY <1>0, VmFacts
    <3> QED
      BY <2>3, <3>1
  <2>9. /\ DContent("pt").kind = "pt" /\ DContent("pt").heap = None
        /\ \A g \in Page : DContent("pt").pte[g] = NoPte
    BY DEF DContent
  <2>10. \A x \in DFrame : /\ w.dmem[x].kind = u.dmem[x].kind /\ w.dmem[x].pte = u.dmem[x].pte
                           /\ w.dmem[x].heap = IF x = mypd THEN f ELSE u.dmem[x].heap
    BY <2>5, <2>6, <2>7
  <2>11. GotTable(v, w, me, mypd, f)
    BY <2>2, <2>3, <2>7, <2>8, <2>9, <2>10 DEF GotTable
  <2>12. VmOK(w)
    BY <2>3, <2>7, <2>10 DEF VmOK
  <2> QED
    BY <1>3, <2>11, <2>12 DEF w
<1> QED
  BY <1>1, <1>2, <1>3

-----------------------------------------------------------------------------
(* The loop of kill.                                                        *)

\* freed[f] is the table t when the loop has got to entry f.
Freed(freed, t, pid, a, b) ==
  /\ freed[a] = t
  /\ \A f \in a .. b - 1 :
       freed[f + 1] = IF freed[f].pid[f] = pid /\ freed[f].state[f] # "FREE"
                      THEN invfreeframe(freed[f], f) ELSE freed[f]

\* The loop of kill.c:28-34 from frame a to frame b, round by round.
LEMMA FreedShape ==
  ASSUME NEW t, NEW pid, NEW a \in Nat, NEW b \in Nat, a <= b
  PROVE  \E freed : Freed(freed, t, pid, a, b) /\ FreeFrames(t, pid, a, b) = freed[b]
<1> DEFINE Step(u, f) == IF u.pid[f] = pid /\ u.state[f] # "FREE" THEN invfreeframe(u, f) ELSE u
           Is(h, n) == h = [f \in a .. n |-> IF f = a THEN t ELSE Step(h[f - 1], f - 1)]
           T == {n \in 0 .. b - a : \E h : Is(h, a + n)}
<1>0. b - a \in Nat
  OBVIOUS
<1>1. 0 \in T
  <2>1. Is([f \in a .. a |-> t], a) /\ 0 \in 0 .. b - a /\ a + 0 = a
    OBVIOUS
  <2> HIDE DEF Is
  <2> QED
    BY <2>1
<1>2. ASSUME NEW n \in 0 .. b - a - 1, n \in T
      PROVE  n + 1 \in T
  <2> DEFINE m == a + n
  <2>1. PICK h : Is(h, m)
    BY <1>2
  <2> DEFINE k == [f \in a .. m + 1 |-> IF f = m + 1 THEN Step(h[m], m) ELSE h[f]]
  <2>0. m \in Nat /\ m >= a /\ m \in a .. m
    OBVIOUS
  <2>5. a + (n + 1) = m + 1 /\ n + 1 \in 0 .. b - a
    OBVIOUS
  <2> HIDE DEF Step, m
  <2>2. \A f \in a .. m + 1 : k[f] = IF f = a THEN t ELSE Step(k[f - 1], f - 1)
    <3> SUFFICES ASSUME NEW f \in a .. m + 1
                 PROVE  k[f] = IF f = a THEN t ELSE Step(k[f - 1], f - 1)
      OBVIOUS
    <3>1. CASE f = m + 1
      <4>1. k[f] = Step(h[m], m) /\ k[m] = h[m] /\ f - 1 = m /\ f # a
        BY <2>0, <3>1
      <4> QED
        BY <4>1
    <3>2. CASE f \in a .. m
      <4>1. h[f] = IF f = a THEN t ELSE Step(h[f - 1], f - 1)
        BY <2>1, <3>2
      <4>2. k[f] = h[f] /\ (f # a => k[f - 1] = h[f - 1])
        BY <2>0, <3>2
      <4> QED
        BY <4>1, <4>2
    <3> QED
      BY <2>0, <3>1, <3>2
  <2>3. Is(k, m + 1)
    BY <2>2
  <2> QED
    BY <2>3, <2>5
<1> HIDE DEF T
<1>4. 0 .. b - a \subseteq T
  BY <1>0, <1>1, <1>2, InductTo
<1>5. \E h : Is(h, b)
  <2>1. b - a \in T /\ a + (b - a) = b
    BY <1>0, <1>4, SMTT(30)
  <2> QED
    BY <2>1 DEF T
<1> DEFINE freed == CHOOSE h : Is(h, b)
<1>6. Is(freed, b)
  BY <1>5
<1>7. FreeFrames(t, pid, a, b) = freed[b]
  BY DEF FreeFrames
<1> HIDE DEF freed, Step
<1>8. \A f \in a .. b : freed[f] = IF f = a THEN t ELSE Step(freed[f - 1], f - 1)
  BY <1>6
<1>9. freed[a] = t
  BY <1>8
<1>10. \A f \in a .. b - 1 : freed[f + 1] = Step(freed[f], f)
  <2> SUFFICES ASSUME NEW f \in a .. b - 1
               PROVE  freed[f + 1] = Step(freed[f], f)
    OBVIOUS
  <2>1. f + 1 \in a .. b /\ f + 1 # a /\ (f + 1) - 1 = f
    OBVIOUS
  <2> QED
    BY <1>8, <2>1
<1> QED
  BY <1>7, <1>9, <1>10 DEF Step, Freed

\* u is the table t after every used frame of pid has been given up.
AllFreed(t, u, pid) ==
  /\ u.pid = t.pid /\ u.pte = t.pte /\ u.refcnt = t.refcnt
  /\ \A f \in Frame : u.state[f] = IF t.pid[f] = pid THEN "FREE" ELSE t.state[f]
  /\ \A r \in Region : \A f \in RegionFrames(r) :
       f \in ToSet(u.free[r]) <=>
         f \in ToSet(t.free[r]) \/ (t.state[f] = "USED" /\ t.pid[f] = pid)

\* kill frees the directory, the page table and the pages of pid
\* (kill.c:28-34), and no frame of anyone else.
LEMMA FreeAllShape ==
  ASSUME NEW t, InOrder(t), NEW pid \in Pid
  PROVE  LET u == FreeAll(t, pid) IN InOrder(u) /\ AllFreed(t, u, pid)
<1> DEFINE a == FRAME0
           N == FRAME0_F - FRAME0
<1>1. a \in Nat /\ N \in Nat /\ FRAME0_F = a + N /\ FRAME0_F \in Nat /\ Frame = a .. a + N - 1
  BY FramesAssumption DEF FRAME0_F, Frame
<1> DEFINE b == a + N
<1>10. b \in Nat /\ a <= b
  BY <1>1
<1>11. FreeAll(t, pid) = FreeFrames(t, pid, a, b)
  BY <1>1 DEF FreeAll
<1> HIDE DEF b, a
<1>12. PICK freed : Freed(freed, t, pid, a, b) /\ FreeFrames(t, pid, a, b) = freed[b]
  BY <1>1, <1>10, FreedShape
<1>2. freed[a] = t
  BY <1>12 DEF Freed
<1>3. FreeAll(t, pid) = freed[a + N]
  BY <1>11, <1>12 DEF b
<1> HIDE DEF N
<1> DEFINE Upto(u, m) ==
             /\ InOrder(u) /\ u.pid = t.pid /\ u.pte = t.pte /\ u.refcnt = t.refcnt
             /\ \A f \in Frame : u.state[f] = IF f < m /\ t.pid[f] = pid THEN "FREE"
                                              ELSE t.state[f]
             /\ \A r \in Region : \A f \in RegionFrames(r) :
                  f \in ToSet(u.free[r]) <=>
                    f \in ToSet(t.free[r])
                    \/ (f < m /\ t.state[f] = "USED" /\ t.pid[f] = pid)
           T == {n \in 0 .. N : Upto(freed[a + n], a + n)}
<1>4. 0 \in T
  <2>1. \A f \in Frame : ~ (f < a)
    BY <1>1
  <2>2. \A r \in Region : RegionFrames(r) \subseteq Frame
    BY RegionShape
  <2>3. Upto(t, a)
    BY <2>1, <2>2
  <2>4. a + 0 = a /\ 0 \in 0 .. N
    BY <1>1
  <2> HIDE DEF Upto
  <2> QED
    BY <1>2, <2>3, <2>4
<1>5. ASSUME NEW n \in 0 .. N - 1, n \in T
      PROVE  n + 1 \in T
  <2> DEFINE m == a + n
             u == freed[m]
             w == freed[m + 1]
  <2>1. m \in Frame /\ m \in a .. a + N - 1 /\ m \in Nat /\ a + (n + 1) = m + 1 /\ n + 1 \in 0 .. N
    BY <1>1
  <2>2. w = IF u.pid[m] = pid /\ u.state[m] # "FREE" THEN invfreeframe(u, m) ELSE u
    <3>1. m \in a .. b - 1
      <4>1. b - 1 = a + N - 1
        BY <1>1 DEF b
      <4> HIDE DEF m
      <4> QED
        BY <2>1, <4>1
    <3> QED
      BY <1>12, <3>1 DEF Freed
  <2>3. Upto(u, m)
    BY <1>5
  <2>4. Frame \subseteq Nat /\ \A r \in Region : RegionFrames(r) \subseteq Frame
    BY RegionShape, FrameNat
  <2>5. \A f \in Frame : t.state[f] \in {"FREE", "USED"} /\ u.state[f] \in {"FREE", "USED"}
    BY <2>3, InOrderFacts
  <2>6. \A f \in Frame : f < m + 1 <=> f < m \/ f = m
    BY <2>1, <2>4
  <2> HIDE DEF m, u, w
  <2>7. CASE u.pid[m] = pid /\ u.state[m] # "FREE"
    <3> DEFINE q == fidxtoregion(m)
    <3>1. q \in Region /\ m \in RegionFrames(q)
      BY <2>1, RegionOfFrame
    <3> HIDE DEF q
    <3>2. u.state[m] = "USED"
      BY <2>1, <2>5, <2>7
    <3>3. InOrder(w) /\ Gave(u, w, q, m)
      BY <2>2, <2>3, <2>7, <3>1, <3>2, Give
    <3>4. /\ w.pid = u.pid /\ w.pte = u.pte /\ w.refcnt = u.refcnt
          /\ \A f \in Frame : w.state[f] = IF f = m THEN "FREE" ELSE u.state[f]
      BY <2>3, <3>3, InOrderFacts DEF Gave
    <3>5. \A r \in Region : \A f \in RegionFrames(r) :
            f \in ToSet(w.free[r]) <=> f \in ToSet(u.free[r]) \/ f = m
      <4> SUFFICES ASSUME NEW r \in Region, NEW f \in RegionFrames(r)
                   PROVE  f \in ToSet(w.free[r]) <=> f \in ToSet(u.free[r]) \/ f = m
        OBVIOUS
      <4>1. u.free \in [Region -> Seq(Frame)]
        BY <2>3, InOrderFacts
      <4>2. CASE r = q
        <5>1. w.free[r] = <<m>> \o u.free[r]
          BY <3>1, <3>3, <4>1, <4>2 DEF Gave
        <5>2. ToSet(<<m>> \o u.free[r]) = ToSet(u.free[r]) \cup {m}
          BY <3>3, <4>2 DEF Gave
        <5> QED
          BY <5>1, <5>2
      <4>3. CASE r # q
        <5>1. w.free[r] = u.free[r]
          BY <3>1, <3>3, <4>1, <4>3 DEF Gave
        <5>2. f # m
          BY <3>1, <4>3, RegionUnique
        <5> QED
          BY <5>1, <5>2
      <4> QED
        BY <4>2, <4>3
    <3>6. t.pid[m] = pid /\ t.state[m] = "USED"
      BY <2>1, <2>3, <2>5, <2>7, <3>2
    <3>7. \A f \in Frame : w.state[f] = IF f < m + 1 /\ t.pid[f] = pid THEN "FREE"
                                        ELSE t.state[f]
      BY <2>3, <2>6, <3>4, <3>6
    <3>8. \A r \in Region : \A f \in RegionFrames(r) :
            f \in ToSet(w.free[r]) <=>
              f \in ToSet(t.free[r])
              \/ (f < m + 1 /\ t.state[f] = "USED" /\ t.pid[f] = pid)
      BY <2>3, <2>4, <2>6, <3>5, <3>6
    <3>9. Upto(w, m + 1)
      BY <2>3, <3>3, <3>4, <3>7, <3>8
    <3> HIDE DEF Upto
    <3> QED
      BY <2>1, <3>9 DEF w, m
  <2>8. CASE ~ (u.pid[m] = pid /\ u.state[m] # "FREE")
    <3>1. w = u
      BY <2>2, <2>8
    <3>2. ~ (t.pid[m] = pid /\ t.state[m] = "USED")
      BY <2>1, <2>3, <2>8, <1>1
    <3>3. \A f \in Frame : w.state[f] = IF f < m + 1 /\ t.pid[f] = pid THEN "FREE"
                                        ELSE t.state[f]
      BY <2>3, <2>5, <2>6, <3>1, <3>2
    <3>4. \A r \in Region : \A f \in RegionFrames(r) :
            f \in ToSet(w.free[r]) <=>
              f \in ToSet(t.free[r])
              \/ (f < m + 1 /\ t.state[f] = "USED" /\ t.pid[f] = pid)
      BY <2>3, <2>4, <2>6, <3>1, <3>2
    <3>5. Upto(w, m + 1)
      BY <2>3, <3>1, <3>3, <3>4
    <3> HIDE DEF Upto
    <3> QED
      BY <2>1, <3>5 DEF w, m
  <2> QED
    BY <2>7, <2>8
<1> HIDE DEF T
<1>6. 0 .. N \subseteq T
  BY <1>1, <1>4, <1>5, InductTo
<1>7. Upto(freed[a + N], a + N)
  <2>1. N \in 0 .. N
    BY <1>1
  <2> HIDE DEF Upto
  <2> QED
    BY <1>6, <2>1 DEF T
<1>8. \A f \in Frame : f < a + N
  BY <1>1
<1>9. \A r \in Region : RegionFrames(r) \subseteq Frame
  BY RegionShape
<1> QED
  BY <1>3, <1>7, <1>8, <1>9 DEF AllFreed

-----------------------------------------------------------------------------
(* init_paging (pagingmgmt.c): the shared page tables and the directory of   *)
(* the null process.                                                         *)

\* The memory while the system boots: the null process owns what is in use,
\* which is in D, and every other frame is on its stack.
Booted(v) ==
  /\ VmOK(v) /\ v.status = "up"
  /\ \A f \in Frame : v.fm.pid[f] = NULLPROC /\ v.fm.refcnt[f] = 0
  /\ \A r \in Region : \A f \in RegionFrames(r) :
       v.fm.state[f] = "FREE" <=> f \in ToSet(v.fm.free[r])
  /\ \A f \in EFrame : v.fm.state[f] = "FREE" /\ v.mem[f] = Blank
  /\ \A x \in DFrame : v.dmem[x].heap = None /\ \A g \in Page : v.dmem[x].pte[g] = NoPte

\* One directory or page table of the null process more (init_paging.c:41-65).
LEMMA BootStep ==
  ASSUME NEW v, Booted(v), NEW kind \in {"pd", "pt"}
  PROVE  Booted(NewD(v, NULLPROC, kind))
<1> DEFINE w == NewD(v, NULLPROC, kind)
           f == NewDFrame(v)
           c == DContent(kind)
<1>1. /\ VmOK(w) /\ w.mem = v.mem /\ w.status = v.status
      /\ f = SYSERR => w = v
      /\ f # SYSERR => /\ w.dmem = [v.dmem EXCEPT ![f] = c]
                       /\ Took(v.fm, w.fm, "D", f, NULLPROC, FR_PTEUNUSED)
  BY NewDShape, NullProc DEF Booted
<1>2. c.heap = None /\ \A g \in Page : c.pte[g] = NoPte
  BY DEF DContent
<1>3. f = SYSERR \/ f \in DFrame
  BY NewDFrameShape DEF Booted
<1> HIDE DEF f, c, w
<1>4. CASE f = SYSERR
  BY <1>1, <1>4 DEF w
<1>5. CASE f # SYSERR
  <2>1. /\ f \in DFrame /\ f < NFRAMES /\ f \in Frame
        /\ Took(v.fm, w.fm, "D", f, NULLPROC, FR_PTEUNUSED)
    BY <1>1, <1>3, <1>5, FrameFacts
  <2>2. /\ v.fm.state \in [Frame -> {"FREE", "USED"}] /\ v.fm.pid \in [Frame -> Pid]
        /\ v.fm.free \in [Region -> Seq(Frame)] /\ v.dmem \in [DFrame -> Content]
    BY InOrderFacts, VmFacts DEF Booted, VmOK
  <2>3. /\ \A x \in Frame : w.fm.state[x] = IF x = f THEN "USED" ELSE v.fm.state[x]
        /\ \A x \in Frame : w.fm.pid[x] = IF x = f THEN NULLPROC ELSE v.fm.pid[x]
        /\ w.fm.refcnt = v.fm.refcnt
    BY <2>1, <2>2 DEF Took
  <2>4. \A r \in Region : \A x \in RegionFrames(r) :
          x \in ToSet(w.fm.free[r]) <=> x \in ToSet(v.fm.free[r]) /\ x # f
    <3> SUFFICES ASSUME NEW r \in Region, NEW x \in RegionFrames(r)
                 PROVE  x \in ToSet(w.fm.free[r]) <=> x \in ToSet(v.fm.free[r]) /\ x # f
      OBVIOUS
    <3>1. CASE r = "D"
      <4>1. w.fm.free[r] = Tail(v.fm.free[r])
        BY <2>1, <2>2, <3>1 DEF Took
      <4>2. ToSet(Tail(v.fm.free[r])) = ToSet(v.fm.free[r]) \ {f}
        BY <2>1, <3>1 DEF Took
      <4> QED
        BY <4>1, <4>2
    <3>2. CASE r # "D"
      <4>1. w.fm.free[r] = v.fm.free[r]
        BY <2>1, <2>2, <3>2 DEF Took
      <4>2. x # f
        BY <2>1, <3>2, RegionUnique, FrameFacts DEF DFrame
      <4> QED
        BY <4>1, <4>2
    <3> QED
      BY <3>1, <3>2
  <2>5. \A r \in Region : RegionFrames(r) \subseteq Frame
    BY RegionShape
  <2>6. \A r \in Region : \A x \in RegionFrames(r) :
          w.fm.state[x] = "FREE" <=> x \in ToSet(w.fm.free[r])
    BY <2>3, <2>4, <2>5 DEF Booted
  <2>7. \A x \in EFrame : w.fm.state[x] = "FREE" /\ w.mem[x] = Blank
    BY <1>1, <2>1, <2>3, FrameFacts DEF Booted
  <2>8. \A x \in DFrame : w.dmem[x] = IF x = f THEN c ELSE v.dmem[x]
    BY <1>1, <1>5, <2>2
  <2>9. \A x \in DFrame : w.dmem[x].heap = None /\ \A g \in Page : w.dmem[x].pte[g] = NoPte
    BY <1>2, <2>8 DEF Booted
  <2>10. \A x \in Frame : w.fm.pid[x] = NULLPROC /\ w.fm.refcnt[x] = 0
    BY <2>3 DEF Booted
  <2>11. Booted(w)
    BY <1>1, <2>6, <2>7, <2>9, <2>10 DEF Booted
  <2> QED
    BY <2>11 DEF w
<1> QED
  BY <1>4, <1>5

\* After init_paging every frame in use is one of the null process's.
LEMMA InitBooted == Init => Booted(vm)
<1> SUFFICES ASSUME Init PROVE Booted(vm)
  OBVIOUS
<1> DEFINE c == DContent("pt")
           dm == [f \in DFrame |-> c]
           mm == [f \in EFrame |-> Blank]
           v0 == [fm |-> init_invpt, dmem |-> dm, mem |-> mm, status |-> "up"]
           N == NIdentity
           Is(h, n) == h = [i \in 0 .. n |-> IF i = 0 THEN v0 ELSE newpt(h[i - 1], NULLPROC)]
           T == {n \in 0 .. N : \E h : Is(h, n) /\ Booted(h[n])}
<1>0. N \in Nat
  BY PagingAssumption
<1>1. Booted(v0)
  <2>1. c \in Content /\ c.heap = None /\ \A g \in Page : c.pte[g] = NoPte
    BY DEF DContent, NoPte, Content, Pte
  <2>2. Blank \in Cell
    BY NullProc DEF Blank, Cell
  <2> HIDE DEF c
  <2>3. dm \in [DFrame -> Content] /\ \A f \in DFrame : dm[f] = c
    BY <2>1
  <2>4. mm \in [EFrame -> Cell] /\ \A f \in EFrame : mm[f] = Blank
    BY <2>2
  <2> HIDE DEF dm, mm
  <2>5. init_invpt \in FrameTable /\ "up" \in Status
    BY InitTable DEF InOrder, Status
  <2>6. /\ v0 \in VmType /\ v0.fm = init_invpt /\ v0.dmem = dm /\ v0.mem = mm
        /\ v0.status = "up"
    BY <2>3, <2>4, <2>5 DEF VmType
  <2> HIDE DEF v0
  <2>7. Based(NoPte)
    BY DEF Based, NoPte
  <2>8. VmOK(v0)
    BY <2>1, <2>3, <2>6, <2>7, InitTable DEF VmOK
  <2>9. \A r \in Region : RegionFrames(r) \subseteq Frame
    BY RegionShape
  <2> QED
    BY <2>1, <2>3, <2>4, <2>6, <2>8, <2>9, InitTable, FrameFacts DEF Booted
<1> HIDE DEF v0
<1>2. 0 \in T
  <2> DEFINE h == [i \in 0 .. 0 |-> v0]
  <2>1. Is(h, 0) /\ h[0] = v0 /\ 0 \in 0 .. N
    BY <1>0
  <2> HIDE DEF Is, h, N
  <2> QED
    BY <1>1, <2>1
<1>3. ASSUME NEW n \in 0 .. N - 1, n \in T
      PROVE  n + 1 \in T
  <2>1. PICK h : Is(h, n) /\ Booted(h[n])
    BY <1>3
  <2> DEFINE k == [i \in 0 .. n + 1 |-> IF i = n + 1 THEN newpt(h[n], NULLPROC) ELSE h[i]]
  <2>2. \A i \in 0 .. n + 1 : k[i] = IF i = 0 THEN v0 ELSE newpt(k[i - 1], NULLPROC)
    <3> SUFFICES ASSUME NEW i \in 0 .. n + 1
                 PROVE  k[i] = IF i = 0 THEN v0 ELSE newpt(k[i - 1], NULLPROC)
      OBVIOUS
    <3>1. CASE i = n + 1
      BY <3>1
    <3>2. CASE i \in 0 .. n
      BY <2>1, <3>2
    <3> QED
      BY <3>1, <3>2
  <2>3. Is(k, n + 1)
    BY <2>2
  <2>4. n + 1 \in 0 .. N /\ k[n + 1] = newpt(h[n], NULLPROC)
    BY <1>0
  <2>5. Booted(k[n + 1])
    BY <2>1, <2>4, BootStep DEF newpt
  <2> HIDE DEF Is, k
  <2> QED
    BY <2>3, <2>4, <2>5
<1> HIDE DEF T
<1>4. 0 .. N \subseteq T
  BY <1>0, <1>2, <1>3, InductTo
<1>5. \E h : Is(h, N)
  <2>1. N \in T
    BY <1>0, <1>4
  <2> HIDE DEF Is
  <2> QED
    BY <2>1 DEF T
<1> DEFINE pts == CHOOSE q : Is(q, N)
<1>6. Is(pts, N)
  <2> HIDE DEF Is
  <2> QED
    BY <1>5
<1> HIDE DEF pts
<1> DEFINE U == {n \in 0 .. N : Booted(pts[n])}
<1>7. \A i \in 0 .. N : pts[i] = IF i = 0 THEN v0 ELSE newpt(pts[i - 1], NULLPROC)
  <2> HIDE DEF N
  <2> QED
    BY <1>6
<1>8. 0 \in U
  BY <1>0, <1>1, <1>7
<1>9. ASSUME NEW n \in 0 .. N - 1, n \in U
      PROVE  n + 1 \in U
  <2>1. n + 1 \in 0 .. N /\ n + 1 # 0 /\ (n + 1) - 1 = n
    BY <1>0
  <2>2. pts[n + 1] = newpt(pts[n], NULLPROC)
    <3> HIDE DEF N
    <3> QED
      BY <2>1, <1>7
  <2>3. Booted(pts[n + 1])
    BY <1>9, <2>2, BootStep DEF newpt
  <2> QED
    BY <2>1, <2>3
<1> HIDE DEF U
<1>10. 0 .. N \subseteq U
  BY <1>0, <1>8, <1>9, InductTo
<1>11. Booted(pts[N])
  <2>1. N \in 0 .. N
    BY <1>0
  <2> HIDE DEF N
  <2> QED
    BY <1>10, <2>1 DEF U
<1>12. vm = newpd(pts[N], NULLPROC)
  BY DEF Init, v0, pts
<1> HIDE DEF N
<1> QED
  BY <1>11, <1>12, BootStep DEF newpd

-----------------------------------------------------------------------------
(* The inductive invariant, for every workload.                             *)

\* The types of what proc keeps of each process.
ProcType ==
  /\ prpd \in [Pid -> DFrame \cup {SYSERR}] /\ pralloc \in [Pid -> SUBSET Page]
  /\ prcount \in Int /\ ncreate \in 0 .. MaxCreate
  /\ prparent \in [Pid -> Pid] /\ prhasmsg \in [Pid -> BOOLEAN]
  /\ expect \in [Pid -> [Page -> Val \cup {None}]]

\* The parts about the code outside of proc: a process that waits for a frame
\* leaves the page of some fault in pgfaddr, and the null process waits for
\* nothing.
FlowType ==
  /\ pc \in [Pid -> Place] /\ pc[NULLPROC] = InUser
  /\ pgfaddr \in Page \cup {None}
  /\ \A p \in Pid : pc[p].at = "fblock" => pgfaddr \in Page
  /\ tlb \in [Page -> EFrame \cup {None}]

\* As long as no store went astray the scheduler's tables are in order.
SysOK == sys \in SysType /\ (vm.status # "wild" => Running(sys))

\* The memory, its tables and the scheduler, whatever the workload.
PInv == ProcType /\ FlowType /\ VmOK(vm) /\ SysOK

\* The members of Place, and what they say.
LEMMA PlaceFacts ==
  /\ InUser \in Place /\ At("recv", None) \in Place
  /\ \A g \in Page : At("fblock", g) \in Place /\ At("fblock", g).at = "fblock"
  /\ \A p \in User : /\ At("kill_sent", p) \in Place /\ At("kill_woken", p) \in Place
                     /\ At("kill_sent", p).at = "kill_sent" /\ At("kill_sent", p).arg = p
                     /\ At("kill_woken", p).at = "kill_woken" /\ At("kill_woken", p).arg = p
  /\ InUser.at = "user" /\ At("recv", None).at = "recv"
  /\ \A x \in Place : x.at \in {"kill_sent", "kill_woken"} => x.arg \in User
<1>1. /\ \A w : \A p : At(w, p).at = w /\ At(w, p).arg = p
      /\ InUser = At("user", None)
  BY DEF InUser, At
<1> HIDE DEF At
<1>2. ASSUME NEW x \in Place, x.at \in {"kill_sent", "kill_woken"}
      PROVE  x.arg \in User
  <2>1. CASE x \in {At(w, p) : w \in {"kill_sent", "kill_woken"}, p \in User}
    BY <1>1, <2>1
  <2>2. CASE x \in {InUser, At("recv", None)} \cup {At("fblock", g) : g \in Page}
    BY <1>1, <1>2, <2>2
  <2> QED
    BY <2>1, <2>2 DEF Place
<1>3. /\ InUser \in Place /\ At("recv", None) \in Place
      /\ \A g \in Page : At("fblock", g) \in Place
      /\ \A p \in User : At("kill_sent", p) \in Place /\ At("kill_woken", p) \in Place
  BY DEF Place
<1> QED
  BY <1>1, <1>2, <1>3

\* The processor runs a process whose directory it has loaded.
LEMMA RunsFacts ==
  ASSUME PInv, Runs
  PROVE  /\ vm.status = "up" /\ Running(sys) /\ Sched(sys) /\ sys \in SysType
         /\ me \in Pid /\ sys.prstate[me] = "CURR" /\ me = sys.currpid
         /\ mypd \in DFrame /\ mypd = prpd[me]
         /\ Mapped(vm, mypd) => vm.dmem[mypd].heap \in DFrame
<1>1. /\ vm.status = "up" /\ Running(sys) /\ Sched(sys) /\ sys \in SysType
      /\ mypd \in DFrame
  BY DEF PInv, SysOK, Runs, Running
<1>2. me \in Pid /\ sys.prstate[me] = "CURR"
  BY <1>1, SysFacts DEF me, Running
<1>3. vm.dmem[mypd].heap \in DFrame \cup {None}
  BY <1>1, VmFacts DEF PInv, VmOK
<1> QED
  BY <1>1, <1>2, <1>3 DEF me, mypd, Mapped

\* The null process neither kills nor waits nor uses a heap
LEMMA CallerFacts ==
  ASSUME NEW call, Calling(call), call \notin {"create", "clock"}
  PROVE  me # NULLPROC
BY PagingAssumption DEF Calling

\* A user program runs outside of all system calls.
LEMMA ProgramFacts ==
  ASSUME PInv, Program
  PROVE  Runs /\ me \in User /\ pc[me].at = "user"
<1>1. Runs /\ pc[me].at = "user" /\ me # NULLPROC
  BY DEF Program, Calling
<1> QED
  BY <1>1, RunsFacts DEF User

\* A step that keeps the parts of the invariant keeps it.
LEMMA SwitchStep ==
  ASSUME PInv, NEW s \in SysType, NEW kept \in [Page -> EFrame \cup {None}], Switch(s, kept)
  PROVE  sys' = s /\ tlb' \in [Page -> EFrame \cup {None}]
<1>1. NoTlb \in [Page -> EFrame \cup {None}]
  BY DEF NoTlb
<1> QED
  BY <1>1 DEF Switch

\* The frame at which the processor finds a page is one of E1 or E2.
LEMMA TranslateFacts ==
  ASSUME PInv, Program, NEW g \in Page
  PROVE  Translate(g) \in EFrame \cup {None}
<1>1. CASE tlb[g] # None
  BY <1>1 DEF Translate, PInv, FlowType
<1>2. CASE tlb[g] = None
  <2>1. CASE Mapped(vm, mypd) /\ getpte(vm, mypd, g).st = "present"
    <3>1. vm.dmem[mypd].heap \in DFrame
      BY <2>1, ProgramFacts, RunsFacts
    <3>2. Based(getpte(vm, mypd, g))
      BY <3>1 DEF getpte, PInv, VmOK
    <3>3. getpte(vm, mypd, g).base \in EFrame
      BY <2>1, <3>2, FrameFacts DEF Based
    <3> QED
      BY <1>2, <2>1, <3>3 DEF Translate
  <2>2. CASE ~ (Mapped(vm, mypd) /\ getpte(vm, mypd, g).st = "present")
    BY <1>2, <2>2 DEF Translate
  <2> QED
    BY <2>1, <2>2
<1> QED
  BY <1>1, <1>2

-----------------------------------------------------------------------------
(* Steps.                                                                   *)

\* A store to memory keeps the invariant.
LEMMA WriteStep ==
  ASSUME PInv, NEW g \in Page, NEW x \in Val, Write(g, x)
  PROVE  PInv'
<1> DEFINE f == Translate(g)
           m == [vm.mem EXCEPT ![f] = <<me, g, x>>]
<1>1. /\ Program /\ f \in EFrame /\ f # None
      /\ vm' = [vm EXCEPT !.mem = m]
      /\ expect' = [expect EXCEPT ![me][g] = x]
      /\ tlb' = IF TlbCaches THEN [tlb EXCEPT ![g] = f] ELSE tlb
      /\ UNCHANGED <<sys, pc, prpd, pralloc, pgfaddr, prcount, prparent, prhasmsg, ncreate>>
  BY TranslateFacts DEF Write
<1>2. me \in Pid
  BY <1>1, ProgramFacts, RunsFacts
<1>3. m \in [EFrame -> Cell]
  BY <1>2, VmFacts DEF Cell, PInv, VmOK
<1>4. VmOK(vm') /\ vm'.status = vm.status
  <2> HIDE DEF m
  <2>1. /\ vm' \in VmType /\ vm'.fm = vm.fm /\ vm'.dmem = vm.dmem
        /\ vm'.status = vm.status
    BY <1>1, <1>3, MemShape DEF PInv, VmOK
  <2> QED
    BY <2>1 DEF PInv, VmOK
<1>5. ProcType'
  BY <1>1, <1>2 DEF PInv, ProcType
<1>6. FlowType'
  BY <1>1 DEF PInv, FlowType
<1>7. SysOK'
  BY <1>1, <1>4 DEF PInv, SysOK
<1> QED
  BY <1>4, <1>5, <1>6, <1>7 DEF PInv

\* vmhgetmem.c:6-70 keeps the invariant.
LEMMA GetPageStep ==
  ASSUME PInv, NEW g \in Page, GetPage(g)
  PROVE  PInv'
<1>1. ProcType'
  BY ProgramFacts, RunsFacts DEF GetPage, PInv, ProcType
<1>2. FlowType' /\ VmOK(vm)' /\ SysOK'
  BY DEF GetPage, PInv, FlowType, SysOK
<1> QED
  BY <1>1, <1>2 DEF PInv

\* framewakeup: the memory w at the time, and what a stray wakeup makes of it.
LEMMA WakeStep ==
  ASSUME PInv, Runs, NEW w, VmOK(w), NEW kept \in [Page -> EFrame \cup {None}],
         vm' = IF WakesBlocked(w, sys) THEN w ELSE [w EXCEPT !.status = "wild"],
         Switch(framewakeup(w, sys), kept)
  PROVE  /\ VmOK(vm') /\ SysOK' /\ tlb' \in [Page -> EFrame \cup {None}]
         /\ vm'.fm = w.fm /\ vm'.dmem = w.dmem /\ vm'.status \in {w.status, "wild"}
<1> DEFINE s == framewakeup(w, sys)
<1>1. /\ s \in SysType
      /\ WakesBlocked(w, sys) => Running(s)
      /\ s.fbqueue = IF ~ bothfull(w) /\ sys.fbqueue # << >> THEN << >> ELSE sys.fbqueue
      /\ \A q \in Pid :
           IF ~ bothfull(w) /\ sys.fbqueue # << >> /\ q \in ToSet(sys.fbqueue)
           THEN s.prstate[q] \in Runnable
           ELSE s.prstate[q] = sys.prstate[q]
                \/ (s.prstate[q] \in Runnable /\ sys.prstate[q] \in Runnable)
  BY RunsFacts, framewakeupSched
<1>2. VmOK(vm') /\ vm'.fm = w.fm /\ vm'.dmem = w.dmem /\ vm'.status \in {w.status, "wild"}
      /\ (vm'.status # "wild" => WakesBlocked(w, sys))
  <2>1. CASE WakesBlocked(w, sys)
    BY <2>1
  <2>2. CASE ~ WakesBlocked(w, sys)
    <3>1. "wild" \in Status
      BY DEF Status
    <3>2. /\ vm' \in VmType /\ vm'.fm = w.fm /\ vm'.dmem = w.dmem /\ vm'.status = "wild"
      BY <2>2, <3>1, StatusShape DEF VmOK
    <3> QED
      BY <3>2 DEF VmOK
  <2> QED
    BY <2>1, <2>2
<1>3. s \in SysType /\ Switch(s, kept)
  BY <1>1
<1> HIDE DEF s
<1>4. sys' = s /\ tlb' \in [Page -> EFrame \cup {None}]
  BY <1>3, SwitchStep
<1>6. vm'.status # "wild" => Running(s)
  BY <1>1, <1>2
<1>7. SysOK'
  BY <1>3, <1>4, <1>6 DEF SysOK
<1> QED
  BY <1>2, <1>4, <1>7

\* vmhfreemem.c:65-150 keeps the invariant.
LEMMA FreePageStep ==
  ASSUME PInv, NEW g \in Page, FreePage(g)
  PROVE  PInv'
<1> DEFINE w == set_pages_deallocated(vm, mypd, g)
           kept == IF getpte(vm, mypd, g).st = "absent" THEN tlb ELSE invlpg(tlb, g)
<1>1. /\ Program /\ Mapped(vm, mypd)
      /\ pralloc' = [pralloc EXCEPT ![me] = @ \ {g}]
      /\ expect' = [expect EXCEPT ![me][g] = None]
      /\ vm' = IF WakesBlocked(w, sys) THEN w ELSE [w EXCEPT !.status = "wild"]
      /\ Switch(framewakeup(w, sys), kept)
      /\ UNCHANGED <<pc, prpd, pgfaddr, prcount, prparent, prhasmsg, ncreate>>
  BY DEF FreePage
<1>2. Runs /\ me \in Pid /\ mypd \in DFrame /\ vm.dmem[mypd].heap \in DFrame
  BY <1>1, ProgramFacts, RunsFacts
<1>3. VmOK(w)
  BY <1>2, DeallocatedKeeps DEF PInv
<1>4. kept \in [Page -> EFrame \cup {None}]
  BY DEF PInv, FlowType, invlpg
<1> HIDE DEF w, kept
<1>5. VmOK(vm') /\ SysOK' /\ tlb' \in [Page -> EFrame \cup {None}]
  BY <1>1, <1>2, <1>3, <1>4, WakeStep
<1>6. ProcType'
  BY <1>1, <1>2 DEF PInv, ProcType
<1>7. FlowType'
  BY <1>1, <1>5 DEF PInv, FlowType
<1> QED
  BY <1>5, <1>6, <1>7 DEF PInv

\* resched, of tables in which the current process may have given up the
\* processor.
LEMMA ReschedStep ==
  ASSUME PInv, NEW s, Sched(s), NEW kept \in [Page -> EFrame \cup {None}],
         Switch(resched(s), kept)
  PROVE  /\ Running(sys') /\ sys'.fbqueue = s.fbqueue /\ SameBut(s, sys') /\ SysOK'
         /\ tlb' \in [Page -> EFrame \cup {None}]
<1> DEFINE t == resched(s)
<1>1. Running(t) /\ SameBut(s, t) /\ t.fbqueue = s.fbqueue
  BY reschedSched
<1>2. t \in SysType /\ Switch(t, kept)
  BY <1>1 DEF Running, Sched
<1> HIDE DEF t
<1>3. sys' = t /\ tlb' \in [Page -> EFrame \cup {None}]
  BY <1>2, SwitchStep
<1>5. SysOK'
  BY <1>1, <1>2, <1>3 DEF SysOK
<1> QED
  BY <1>1, <1>3, <1>5

\* A step that changes nothing but the memory and the scheduler's tables, and
\* perhaps where processes go on from.
LEMMA FlowStep ==
  ASSUME PInv, UNCHANGED proc, pc' \in [Pid -> Place], pc'[NULLPROC] = InUser,
         VmOK(vm'), SysOK', tlb' \in [Page -> EFrame \cup {None}],
         \/ pgfaddr' \in Page
         \/ pgfaddr' = pgfaddr /\ \A p \in Pid : pc'[p].at = "fblock" => pc[p].at = "fblock"
  PROVE  PInv'
<1>1. ProcType'
  BY DEF PInv, ProcType, proc
<1>2. FlowType'
  BY DEF PInv, FlowType
<1> QED
  BY <1>1, <1>2 DEF PInv

-----------------------------------------------------------------------------
(* The page fault handler.                                                  *)

\* pgfhandler.c:50-55 keeps the invariant.
LEMMA FaultIgnoredStep ==
  ASSUME PInv, NEW g \in Page, FaultIgnored(g)
  PROVE  PInv'
<1>1. pgfaddr' = g /\ UNCHANGED <<vm, sys, pc, tlb, proc>>
  BY DEF FaultIgnored, Faults
<1>2. VmOK(vm') /\ SysOK' /\ UNCHANGED proc
  BY <1>1 DEF PInv, SysOK
<1>3. /\ pc' \in [Pid -> Place] /\ pc'[NULLPROC] = InUser
      /\ tlb' \in [Page -> EFrame \cup {None}]
  BY <1>1 DEF PInv, FlowType
<1> QED
  BY <1>1, <1>2, <1>3, FlowStep

\* __pde_inv_check, by the process that runs: there is a page table afterwards,
\* or the system has stopped.
LEMMA TableThere ==
  ASSUME PInv, Program
  PROVE  LET w == WithPageTable(vm) IN
         /\ VmOK(w) /\ w.status \in {"up", "panic"}
         /\ w.status # "panic" => w.dmem[mypd].heap \in DFrame
         /\ w.status = "panic" => vm.fm.free["D"] = << >> /\ w.fm = vm.fm /\ w.dmem = vm.dmem
         /\ \/ w.fm = vm.fm /\ w.dmem = vm.dmem
            \/ w.status = "up" /\ vm.dmem[mypd].heap = None
               /\ \E f : GotTable(vm, w, me, mypd, f)
<1> DEFINE w == WithPageTable(vm)
<1>1. Runs /\ me \in Pid /\ mypd \in DFrame /\ vm.status = "up"
  BY ProgramFacts, RunsFacts
<1>2. /\ VmOK(w)
      /\ \/ w = vm /\ vm.dmem[mypd].heap # None
         \/ /\ vm.dmem[mypd].heap = None
            /\ \/ /\ vm.fm.free["D"] = << >> /\ w.status = "panic"
                  /\ w.fm = vm.fm /\ w.dmem = vm.dmem
               \/ \E f : GotTable(vm, w, me, mypd, f)
  BY <1>1, WithPageTableShape DEF PInv
<1>3. CASE w = vm /\ vm.dmem[mypd].heap # None
  <2>1. vm.dmem[mypd].heap \in DFrame
    BY <1>1, <1>3, VmFacts DEF PInv, VmOK
  <2> QED
    BY <1>1, <1>2, <1>3, <2>1
<1>4. CASE /\ vm.dmem[mypd].heap = None
           /\ vm.fm.free["D"] = << >> /\ w.status = "panic"
           /\ w.fm = vm.fm /\ w.dmem = vm.dmem
  BY <1>2, <1>4
<1>5. CASE vm.dmem[mypd].heap = None /\ \E f : GotTable(vm, w, me, mypd, f)
  <2>1. PICK f : GotTable(vm, w, me, mypd, f)
    BY <1>5
  <2>2. w.status = "up" /\ w.dmem[mypd].heap \in DFrame
    BY <1>1, <2>1 DEF GotTable
  <2> QED
    BY <1>2, <1>5, <2>2
<1> QED
  BY <1>2, <1>3, <1>4, <1>5

\* What serving a fault makes of the memory.
LEMMA ServedFacts ==
  ASSUME PInv, NEW g \in Page, FaultServed(g)
  PROVE  /\ Program /\ pgfaddr' = g /\ UNCHANGED <<sys, pc, tlb, proc>>
         /\ VmOK(vm')
         /\ \/ vm' = WithPageTable(vm) /\ vm'.status = "panic"
            \/ /\ WithPageTable(vm).status # "panic" /\ KeepsD(WithPageTable(vm), vm')
               /\ bothfull(WithPageTable(vm)) => bothfull(vm') \/ vm'.status = "nowhere"
<1> DEFINE w == WithPageTable(vm)
<1>1. /\ Program /\ pgfaddr' = g /\ UNCHANGED <<sys, pc, tlb, proc>>
      /\ \/ w.status = "panic" /\ vm' = w
         \/ w.status # "panic" /\ getpte(w, mypd, g).st = "swapped" /\ vm' = OldPage(w, g)
         \/ w.status # "panic" /\ ~ bothfull(w) /\ vm' = NewPage(w, g)
  BY DEF FaultServed, Faults
<1>2. /\ VmOK(w) /\ w.status \in {"up", "panic"}
      /\ w.status # "panic" => w.dmem[mypd].heap \in DFrame
  BY <1>1, TableThere
<1>3. me \in Pid /\ mypd \in DFrame
  BY <1>1, ProgramFacts, RunsFacts
<1> HIDE DEF w
<1>4. CASE w.status = "panic" /\ vm' = w
  BY <1>1, <1>2, <1>4 DEF w
<1>5. CASE w.status # "panic" /\ getpte(w, mypd, g).st = "swapped" /\ vm' = OldPage(w, g)
  <2>1. VmOK(vm') /\ KeepsD(w, vm') /\ (bothfull(w) => bothfull(vm') \/ vm'.status = "nowhere")
    BY <1>2, <1>3, <1>5, OldPageKeeps
  <2> QED
    BY <1>1, <1>5, <2>1 DEF w
<1>6. CASE w.status # "panic" /\ ~ bothfull(w) /\ vm' = NewPage(w, g)
  <2>1. VmOK(vm') /\ KeepsD(w, vm')
    BY <1>2, <1>3, <1>6, NewPageKeeps
  <2> QED
    BY <1>1, <1>6, <2>1 DEF w
<1> QED
  BY <1>1, <1>4, <1>5, <1>6

\* pgfhandler.c:65-125 keeps the invariant.
LEMMA FaultServedStep ==
  ASSUME PInv, NEW g \in Page, FaultServed(g)
  PROVE  PInv'
<1>1. /\ pgfaddr' = g /\ UNCHANGED <<sys, pc, tlb, proc>> /\ VmOK(vm') /\ Program
  BY ServedFacts
<1>2. Running(sys) /\ UNCHANGED proc
  BY <1>1, ProgramFacts, RunsFacts
<1>3. SysOK'
  BY <1>1, <1>2 DEF PInv, SysOK
<1>4. /\ pc' \in [Pid -> Place] /\ pc'[NULLPROC] = InUser
      /\ tlb' \in [Page -> EFrame \cup {None}]
  BY <1>1 DEF PInv, FlowType
<1> QED
  BY <1>1, <1>2, <1>3, <1>4, FlowStep

\* frameblock, by a user process.
LEMMA BlockStep ==
  ASSUME PInv, Runs, me \in User, Switch(frameblock(sys), tlb)
  PROVE  /\ SysOK' /\ tlb' \in [Page -> EFrame \cup {None}] /\ Running(sys')
         /\ sys'.prstate[me] = "FRAME" /\ sys'.fbqueue = insert_fbqueue(sys.fbqueue, me)
         /\ \A q \in Pid \ {me} :
              sys'.prstate[q] = sys.prstate[q]
              \/ (sys'.prstate[q] \in Runnable /\ sys.prstate[q] \in Runnable)
<1> DEFINE s == frameblock(sys)
<1>1. /\ Running(s) /\ s.fbqueue = insert_fbqueue(sys.fbqueue, me) /\ s.prstate[me] = "FRAME"
      /\ \A q \in Pid \ {me} :
           s.prstate[q] = sys.prstate[q]
           \/ (s.prstate[q] \in Runnable /\ sys.prstate[q] \in Runnable)
  BY RunsFacts, frameblockSched
<1>2. s \in SysType /\ Switch(s, tlb) /\ tlb \in [Page -> EFrame \cup {None}]
  BY <1>1 DEF Running, Sched, PInv, FlowType
<1> HIDE DEF s
<1>3. sys' = s /\ tlb' \in [Page -> EFrame \cup {None}]
  BY <1>2, SwitchStep
<1>5. SysOK'
  BY <1>1, <1>2, <1>3 DEF SysOK
<1> QED
  BY <1>1, <1>3, <1>5

\* pgfhandler.c:94-105 and frameblock.c:42-58 keeps the invariant.
LEMMA FaultBlocksStep ==
  ASSUME PInv, NEW g \in Page, FaultBlocks(g)
  PROVE  PInv'
<1>1. /\ Program /\ pgfaddr' = g /\ vm' = WithPageTable(vm)
      /\ pc' = [pc EXCEPT ![me] = At("fblock", g)]
      /\ Switch(frameblock(sys), tlb) /\ UNCHANGED proc
  BY DEF FaultBlocks, Faults
<1>2. Runs /\ me \in User /\ VmOK(vm')
  BY <1>1, ProgramFacts, TableThere
<1>3. SysOK' /\ tlb' \in [Page -> EFrame \cup {None}]
  BY <1>1, <1>2, BlockStep
<1>4. pc' \in [Pid -> Place] /\ pc'[NULLPROC] = InUser
  BY <1>1, <1>2, PlaceFacts, NullProc DEF PInv, FlowType
<1> QED
  BY <1>1, <1>2, <1>3, <1>4, FlowStep

\* pgfhandler.c:100-121 behind frameblock keeps the invariant.
LEMMA FaultResumesStep ==
  ASSUME PInv, FaultResumes
  PROVE  PInv'
<1>1. /\ Runs /\ pc[me].at = "fblock" /\ pgfaddr' = pgfaddr /\ UNCHANGED proc
      /\ \/ Switch(frameblock(sys), tlb) /\ UNCHANGED <<vm, pc>>
         \/ /\ pc' = [pc EXCEPT ![me] = InUser] /\ UNCHANGED <<sys, tlb>>
            /\ \/ Mapped(vm, mypd) /\ vm' = NewPage(vm, pgfaddr)
               \/ vm' = [vm EXCEPT !.status = "wild"]
  BY DEF FaultResumes
<1>2. me \in User /\ me \in Pid /\ mypd \in DFrame /\ pgfaddr \in Page
  BY <1>1, RunsFacts, PlaceFacts DEF PInv, FlowType, User
<1>3. CASE Switch(frameblock(sys), tlb) /\ UNCHANGED <<vm, pc>>
  <2>1. SysOK' /\ tlb' \in [Page -> EFrame \cup {None}]
    BY <1>1, <1>2, <1>3, BlockStep
  <2>2. VmOK(vm') /\ pc' \in [Pid -> Place] /\ pc'[NULLPROC] = InUser
    BY <1>3 DEF PInv, FlowType
  <2> QED
    BY <1>1, <1>2, <2>1, <2>2, FlowStep
<1>4. CASE /\ pc' = [pc EXCEPT ![me] = InUser] /\ UNCHANGED <<sys, tlb>>
           /\ \/ Mapped(vm, mypd) /\ vm' = NewPage(vm, pgfaddr)
              \/ vm' = [vm EXCEPT !.status = "wild"]
  <2>1. VmOK(vm')
    <3>1. CASE Mapped(vm, mypd) /\ vm' = NewPage(vm, pgfaddr)
      BY <1>1, <1>2, <3>1, RunsFacts, NewPageKeeps DEF PInv
    <3>2. CASE vm' = [vm EXCEPT !.status = "wild"]
      <4>1. "wild" \in Status
        BY DEF Status
      <4>2. vm' \in VmType /\ vm'.fm = vm.fm /\ vm'.dmem = vm.dmem
        BY <3>2, <4>1, StatusShape DEF PInv, VmOK
      <4> QED
        BY <4>2 DEF PInv, VmOK
    <3> QED
      BY <1>4, <3>1, <3>2
  <2>2. SysOK'
    BY <1>1, <1>4, RunsFacts DEF PInv, SysOK
  <2>3. /\ pc' \in [Pid -> Place] /\ pc'[NULLPROC] = InUser
        /\ tlb' \in [Page -> EFrame \cup {None}]
    BY <1>4, PlaceFacts, NullProc DEF PInv, FlowType
  <2> QED
    BY <1>1, <1>2, <2>1, <2>2, <2>3, FlowStep
<1> QED
  BY <1>1, <1>3, <1>4

-----------------------------------------------------------------------------
(* kill.                                                                    *)

\* kill up to its send: what it does to the memory and to the scheduler.
LEMMA KillBeginFacts ==
  ASSUME PInv, Runs, me \in User, NEW pid \in User, KillBegin(pid)
  PROVE  /\ UNCHANGED <<prpd, pralloc, prparent, ncreate, expect>>
         /\ prcount' \in Int /\ prhasmsg' \in [Pid -> BOOLEAN]
         /\ VmOK(vm') /\ SysOK' /\ tlb' \in [Page -> EFrame \cup {None}]
         /\ vm'.dmem = vm.dmem
         /\ \/ vm'.fm = vm.fm /\ vm'.status = "done" /\ UNCHANGED <<sys, pc>>
            \/ /\ AllFreed(vm.fm, vm'.fm, pid) /\ vm'.status = "up"
               /\ pc' = [pc EXCEPT ![me] = At("kill_sent", pid)]
               /\ Running(sys')
               /\ \A q \in Pid : \/ sys'.prstate[q] = sys.prstate[q]
                                 \/ sys.prstate[q] = "RECV" /\ sys'.prstate[q] \in Runnable
                                 \/ /\ sys'.prstate[q] \in Runnable
                                    /\ sys.prstate[q] \in Runnable
<1> DEFINE parent == prparent[pid]
           told == sys.prstate[parent] # "FREE" /\ ~ prhasmsg[parent]
           fm == FreeAll(vm.fm, pid)
<1>1. /\ UNCHANGED <<prpd, pralloc, prparent, ncreate, expect>>
      /\ prcount' = prcount - 1 /\ prcount' \in Int
      /\ pid \in Pid /\ parent \in Pid
  BY NullProc DEF KillBegin, PInv, ProcType
<1>2. /\ vm.status = "up" /\ Running(sys) /\ Sched(sys)
      /\ sys.prstate \in [Pid -> ProcState] /\ tlb \in [Page -> EFrame \cup {None}]
  BY RunsFacts, SysFacts DEF PInv, FlowType
<1>3. CASE prcount - 1 <= 1
  <2>1. vm' = [vm EXCEPT !.status = "done"] /\ UNCHANGED <<sys, tlb, pc, prhasmsg>>
    BY <1>3 DEF KillBegin
  <2>2. "done" \in Status
    BY DEF Status
  <2>3. /\ vm' \in VmType /\ vm'.fm = vm.fm /\ vm'.dmem = vm.dmem /\ vm'.status = "done"
    BY <2>1, <2>2, StatusShape DEF PInv, VmOK
  <2>4. VmOK(vm')
    BY <2>3 DEF PInv, VmOK
  <2>5. SysOK' /\ prhasmsg' \in [Pid -> BOOLEAN]
    BY <1>2, <2>1 DEF PInv, SysOK, ProcType
  <2> QED
    BY <1>1, <1>2, <2>1, <2>3, <2>4, <2>5
<1>4. CASE ~ (prcount - 1 <= 1)
  <2>1. /\ vm' = [vm EXCEPT !.fm = fm]
        /\ pc' = [pc EXCEPT ![me] = At("kill_sent", pid)]
        /\ prhasmsg' = [prhasmsg EXCEPT ![parent] = @ \/ told]
        /\ Switch(IF told /\ sys.prstate[parent] = "RECV"
                  THEN resched(Ready(sys, parent)) ELSE sys, tlb)
    BY <1>4 DEF KillBegin
  <2>2. prhasmsg' \in [Pid -> BOOLEAN]
    <3>1. prhasmsg \in [Pid -> BOOLEAN] /\ told \in BOOLEAN
      BY DEF PInv, ProcType
    <3> HIDE DEF told
    <3> QED
      BY <2>1, <3>1
  <2>3. InOrder(fm) /\ AllFreed(vm.fm, fm, pid)
    BY <1>1, FreeAllShape DEF PInv, VmOK
  <2> HIDE DEF fm
  <2>4. /\ VmOK(vm') /\ vm'.fm = fm /\ vm'.dmem = vm.dmem /\ vm'.status = "up"
    BY <1>2, <2>1, <2>3, FmOK DEF PInv
  <2>5. CASE told /\ sys.prstate[parent] = "RECV"
    <3> DEFINE s == Ready(sys, parent)
    <3>1. /\ Sched(s) /\ s.prstate = [sys.prstate EXCEPT ![parent] = "READY"]
          /\ s.fbqueue = sys.fbqueue
      BY <1>1, <1>2, <2>5, ReadySched
    <3>2. Switch(resched(s), tlb)
      BY <2>1, <2>5
    <3> HIDE DEF s
    <3>4. /\ Running(sys') /\ SameBut(s, sys') /\ SysOK'
          /\ tlb' \in [Page -> EFrame \cup {None}]
      BY <1>2, <3>1, <3>2, ReschedStep
    <3>5. ASSUME NEW q \in Pid
          PROVE  \/ sys'.prstate[q] = sys.prstate[q]
                 \/ sys.prstate[q] = "RECV" /\ sys'.prstate[q] \in Runnable
                 \/ sys'.prstate[q] \in Runnable /\ sys.prstate[q] \in Runnable
      <4>1. s.prstate[q] = IF q = parent THEN "READY" ELSE sys.prstate[q]
        BY <1>2, <3>1
      <4> HIDE DEF parent
      <4> QED
        BY <2>5, <3>4, <4>1 DEF SameBut, Runnable
    <3> QED
      BY <1>1, <2>1, <2>2, <2>3, <2>4, <3>4, <3>5
  <2>6. CASE ~ (told /\ sys.prstate[parent] = "RECV")
    <3>1. Switch(sys, tlb)
      BY <2>1, <2>6
    <3>2. sys' = sys /\ tlb' = tlb
      BY <3>1 DEF Switch
    <3>3. SysOK'
      BY <1>2, <3>2 DEF PInv, SysOK
    <3> QED
      BY <1>1, <1>2, <2>1, <2>2, <2>3, <2>4, <3>2, <3>3
  <2> QED
    BY <2>5, <2>6
<1> QED
  BY <1>3, <1>4

\* The send in kill leaves the queue of frameblock as it is.
LEMMA KillBeginQueue ==
  ASSUME PInv, Runs, NEW pid \in User, KillBegin(pid)
  PROVE  sys'.fbqueue = sys.fbqueue
<1> DEFINE parent == prparent[pid]
           told == sys.prstate[parent] # "FREE" /\ ~ prhasmsg[parent]
           s == Ready(sys, parent)
<1>1. sys' = IF told /\ sys.prstate[parent] = "RECV" /\ ~ (prcount - 1 <= 1)
             THEN resched(s) ELSE sys
  BY DEF KillBegin, Switch
<1>2. CASE told /\ sys.prstate[parent] = "RECV" /\ ~ (prcount - 1 <= 1)
  <2>1. parent \in Pid /\ Sched(sys)
    BY RunsFacts, NullProc DEF PInv, ProcType
  <2>2. Sched(s) /\ s.fbqueue = sys.fbqueue
    BY <1>2, <2>1, ReadySched
  <2>3. sys' = resched(s)
    BY <1>1, <1>2
  <2> HIDE DEF s
  <2> QED
    BY <2>2, <2>3, reschedSched
<1>3. CASE ~ (told /\ sys.prstate[parent] = "RECV" /\ ~ (prcount - 1 <= 1))
  BY <1>1, <1>3
<1> QED
  BY <1>2, <1>3

\* kill.c:9-36, the frames go back: the invariant is kept.
LEMMA KillBeginStep ==
  ASSUME PInv, Runs, me \in User, NEW pid \in User, KillBegin(pid),
         pgfaddr' \in Page \/ pgfaddr' = pgfaddr
  PROVE  PInv'
<1>1. /\ UNCHANGED <<prpd, pralloc, prparent, ncreate, expect>>
      /\ prcount' \in Int /\ prhasmsg' \in [Pid -> BOOLEAN]
      /\ VmOK(vm') /\ SysOK' /\ tlb' \in [Page -> EFrame \cup {None}]
      /\ pc' = pc \/ pc' = [pc EXCEPT ![me] = At("kill_sent", pid)]
  BY KillBeginFacts
<1>2. ProcType'
  BY <1>1 DEF PInv, ProcType
<1>3. FlowType'
  <2>1. pc' \in [Pid -> Place] /\ pc'[NULLPROC] = InUser
    BY <1>1, PlaceFacts, NullProc DEF PInv, FlowType
  <2>2. \A p \in Pid : pc'[p].at = "fblock" => pc[p].at = "fblock"
    BY <1>1, PlaceFacts DEF PInv, FlowType
  <2>3. pgfaddr' \in Page \cup {None}
    BY DEF PInv, FlowType
  <2>4. \A p \in Pid : pc'[p].at = "fblock" => pgfaddr' \in Page
    BY <2>2 DEF PInv, FlowType
  <2> QED
    BY <1>1, <2>1, <2>3, <2>4 DEF FlowType
<1> QED
  BY <1>1, <1>2, <1>3 DEF PInv

\* pgfhandler.c:57-63, the caller is killed: the invariant is kept.
LEMMA SegFaultStep ==
  ASSUME PInv, NEW g \in Page, SegFault(g)
  PROVE  PInv'
<1>1. Program /\ pgfaddr' = g /\ KillBegin(me)
  BY DEF SegFault, Faults
<1>2. Runs /\ me \in User
  BY <1>1, ProgramFacts
<1> QED
  BY <1>1, <1>2, KillBeginStep

\* kill.c:9-36 called by exit or by another process keeps the invariant.
LEMMA KillStep ==
  ASSUME PInv, NEW pid \in User, Kill(pid)
  PROVE  PInv'
<1>1. /\ Calling("kill") \/ Calling("exit")
      /\ KillBegin(pid) /\ pgfaddr' = pgfaddr
  BY DEF Kill
<1>2. Runs /\ me # NULLPROC
  BY <1>1, CallerFacts DEF Calling
<1>3. me \in User
  BY <1>2, RunsFacts DEF User
<1> QED
  BY <1>1, <1>2, <1>3, KillBeginStep

\* Who is in kill is no null process, and knows whom it kills.
LEMMA KillerFacts ==
  ASSUME PInv, Runs, pc[me].at \in {"kill_sent", "kill_woken"}
  PROVE  me \in User /\ pc[me].arg \in User /\ pc[me] \in Place
<1>1. me \in Pid /\ pc[me] \in Place /\ me # NULLPROC
  BY RunsFacts, PlaceFacts DEF PInv, FlowType
<1> QED
  BY <1>1, PlaceFacts DEF User

\* framewakeup in kill.c:37-42 keeps the invariant.
LEMMA KillWakeStep ==
  ASSUME PInv, KillWake
  PROVE  PInv'
<1>1. /\ Runs /\ pc[me].at = "kill_sent"
      /\ pc' = [pc EXCEPT ![me] = At("kill_woken", @.arg)]
      /\ vm' = IF WakesBlocked(vm, sys) THEN vm ELSE [vm EXCEPT !.status = "wild"]
      /\ Switch(framewakeup(vm, sys), tlb)
      /\ UNCHANGED proc /\ pgfaddr' = pgfaddr
  BY DEF KillWake
<1>2. me \in User /\ pc[me].arg \in User
  BY <1>1, KillerFacts
<1>3. VmOK(vm) /\ tlb \in [Page -> EFrame \cup {None}]
  BY DEF PInv, FlowType
<1>4. VmOK(vm') /\ SysOK' /\ tlb' \in [Page -> EFrame \cup {None}]
  BY <1>1, <1>3, WakeStep
<1>5. /\ pc' \in [Pid -> Place] /\ pc'[NULLPROC] = InUser
      /\ \A p \in Pid : pc'[p].at = "fblock" => pc[p].at = "fblock"
  BY <1>1, <1>2, PlaceFacts, NullProc DEF PInv, FlowType
<1> QED
  BY <1>1, <1>4, <1>5, FlowStep

\* The rest of kill: what it does to the scheduler.
LEMMA KillFinishFacts ==
  ASSUME PInv, KillFinish
  PROVE  /\ Runs /\ me \in User /\ pc[me].arg \in User /\ pc[me].at = "kill_woken"
         /\ Running(sys') /\ SysOK' /\ tlb' \in [Page -> EFrame \cup {None}]
         /\ sys'.prstate[pc[me].arg] = "FREE"
         /\ \A q \in Pid \ {pc[me].arg} :
              sys'.prstate[q] = sys.prstate[q]
              \/ (sys'.prstate[q] \in Runnable /\ sys.prstate[q] \in Runnable)
<1> DEFINE pid == pc[me].arg
           u == [sys EXCEPT !.prstate[pid] = "FREE"]
           s == getitem(u, pid)
<1>1. /\ Runs /\ pc[me].at = "kill_woken"
      /\ Switch(IF pid = me THEN resched(s) ELSE s, tlb)
  BY DEF KillFinish
<1>2. me \in User /\ pid \in User /\ Running(sys) /\ me = sys.currpid
      /\ tlb \in [Page -> EFrame \cup {None}] /\ pid \in Pid /\ sys.prstate \in [Pid -> ProcState]
  BY <1>1, KillerFacts, RunsFacts, SysFacts, NullProc DEF PInv, FlowType
<1> HIDE DEF pid
<1>3. /\ Sched(s) /\ s.prstate = [sys.prstate EXCEPT ![pid] = "FREE"]
      /\ s.fbqueue = sys.fbqueue
      /\ pid # me => Running(s)
  BY <1>2, getitemSched
<1> HIDE DEF s
<1>5. /\ s.prstate[pid] = "FREE"
      /\ \A q \in Pid \ {pid} : s.prstate[q] = sys.prstate[q]
  BY <1>2, <1>3
<1>6. CASE pid = me
  <2>1. Switch(resched(s), tlb)
    BY <1>1, <1>6
  <2>2. /\ Running(sys') /\ SameBut(s, sys') /\ SysOK' /\ tlb' \in [Page -> EFrame \cup {None}]
    BY <1>2, <1>3, <2>1, ReschedStep
  <2>3. sys'.prstate[pid] = "FREE"
    BY <1>2, <1>5, <2>2 DEF SameBut, Runnable
  <2>4. \A q \in Pid \ {pid} :
          sys'.prstate[q] = sys.prstate[q]
          \/ (sys'.prstate[q] \in Runnable /\ sys.prstate[q] \in Runnable)
    BY <1>5, <2>2 DEF SameBut
  <2> QED
    BY <1>1, <1>2, <2>2, <2>3, <2>4 DEF pid
<1>7. CASE pid # me
  <2>1. Switch(s, tlb) /\ s \in SysType /\ Running(s)
    BY <1>1, <1>3, <1>7 DEF Sched
  <2>2. sys' = s /\ tlb' \in [Page -> EFrame \cup {None}]
    BY <1>2, <2>1, SwitchStep
  <2>4. SysOK'
    BY <2>1, <2>2 DEF SysOK
  <2> QED
    BY <1>1, <1>2, <1>5, <2>1, <2>2, <2>4 DEF pid
<1> QED
  BY <1>6, <1>7

\* The end of kill leaves the queue of frameblock as it is, with an entry of the
\* process that died if it was blocked.
LEMMA KillFinishQueue ==
  ASSUME PInv, KillFinish
  PROVE  sys'.fbqueue = sys.fbqueue
<1>1. Runs /\ pc[me].arg \in User /\ Running(sys)
  BY KillFinishFacts, RunsFacts
<1>2. PICK c \in User : c = pc[me].arg
  BY <1>1
<1> DEFINE u == [sys EXCEPT !.prstate[c] = "FREE"]
           s == getitem(u, c)
<1>3. Sched(s) /\ s.fbqueue = sys.fbqueue
  BY <1>1, getitemSched
<1>4. sys' = resched(s) \/ sys' = s
  BY <1>2 DEF KillFinish, Switch
<1> HIDE DEF s
<1> QED
  BY <1>3, <1>4, reschedSched

\* kill.c:44-69 keeps the invariant.
LEMMA KillFinishStep ==
  ASSUME PInv, KillFinish
  PROVE  PInv'
<1> DEFINE pid == pc[me].arg
<1>1. /\ me \in User /\ pid \in User /\ SysOK' /\ tlb' \in [Page -> EFrame \cup {None}]
  BY KillFinishFacts
<1>2. /\ pc' = [pc EXCEPT ![me] = InUser, ![pid] = InUser]
      /\ prpd' = [prpd EXCEPT ![pid] = SYSERR]
      /\ pralloc' = [pralloc EXCEPT ![pid] = {}]
      /\ prparent' = [prparent EXCEPT ![pid] = NULLPROC]
      /\ prhasmsg' = [prhasmsg EXCEPT ![pid] = FALSE]
      /\ expect' = [expect EXCEPT ![pid] = [g \in Page |-> None]]
      /\ UNCHANGED <<vm, prcount, ncreate, pgfaddr>>
  BY DEF KillFinish
<1> HIDE DEF pid
<1>3. ProcType'
  BY <1>1, <1>2, NullProc DEF PInv, ProcType
<1>4. /\ pc' \in [Pid -> Place] /\ pc'[NULLPROC] = InUser
      /\ \A p \in Pid : pc'[p].at = "fblock" => pc[p].at = "fblock"
  BY <1>1, <1>2, PlaceFacts, NullProc DEF PInv, FlowType
<1>5. FlowType'
  BY <1>1, <1>2, <1>4 DEF PInv, FlowType
<1>6. VmOK(vm')
  BY <1>2 DEF PInv
<1> QED
  BY <1>1, <1>3, <1>5, <1>6 DEF PInv

-----------------------------------------------------------------------------
(* create, resume, receive and the clock.                                   *)

\* newpd for the process that is created, and what becomes of its entry.
LEMMA CreateFacts ==
  ASSUME PInv, NEW pid \in User, Create(pid)
  PROVE  /\ Runs /\ sys.prstate[pid] = "FREE" /\ VmOK(vm') /\ vm'.status = "up"
         /\ vm'.mem = vm.mem
         /\ NewDFrame(vm) = SYSERR => vm' = vm
         /\ NewDFrame(vm) # SYSERR =>
              /\ NewDFrame(vm) \in DFrame
              /\ vm'.dmem = [vm.dmem EXCEPT ![NewDFrame(vm)] = DContent("pd")]
              /\ Took(vm.fm, vm'.fm, "D", NewDFrame(vm), pid, FR_PTEUNUSED)
         /\ prpd' = [prpd EXCEPT ![pid] = NewDFrame(vm)]
         /\ pc' = [pc EXCEPT ![pid] = InUser]
         /\ sys'.prstate = [sys.prstate EXCEPT ![pid] = "SUSP"]
         /\ Running(sys') /\ SysOK' /\ NewDFrame(vm) \in DFrame \cup {SYSERR}
<1> DEFINE s == [sys EXCEPT !.prstate[pid] = "SUSP"]
<1>1. /\ Calling("create") /\ sys.prstate[pid] = "FREE"
      /\ vm' = newpd(vm, pid) /\ sys' = s
      /\ prpd' = [prpd EXCEPT ![pid] = NewDFrame(vm)]
      /\ pc' = [pc EXCEPT ![pid] = InUser]
  BY DEF Create
<1>2. Runs /\ pid \in Pid
  BY <1>1, NullProc DEF Calling
<1>3. /\ vm.status = "up" /\ Running(sys) /\ Sched(sys) /\ me \in Pid /\ me = sys.currpid
      /\ sys.prstate[me] = "CURR" /\ sys.prstate \in [Pid -> ProcState]
  BY <1>2, RunsFacts, SysFacts
<1>4. /\ VmOK(vm') /\ vm'.mem = vm.mem /\ vm'.status = "up"
      /\ NewDFrame(vm) = SYSERR => vm' = vm
      /\ NewDFrame(vm) # SYSERR =>
           /\ vm'.dmem = [vm.dmem EXCEPT ![NewDFrame(vm)] = DContent("pd")]
           /\ Took(vm.fm, vm'.fm, "D", NewDFrame(vm), pid, FR_PTEUNUSED)
  BY <1>1, <1>2, <1>3, NewDShape DEF newpd, PInv
<1>5. NewDFrame(vm) \in DFrame \cup {SYSERR}
  BY NewDFrameShape DEF PInv
<1>6. "SUSP" \in ProcState \ Runnable
  BY DEF ProcState, Runnable
<1>7. /\ Sched(s) /\ s.prstate = [sys.prstate EXCEPT ![pid] = "SUSP"]
      /\ s.currpid = sys.currpid /\ s.fbqueue = sys.fbqueue
  BY <1>1, <1>3, <1>6, StateSched
<1> HIDE DEF s
<1>8. Running(s)
  BY <1>1, <1>3, <1>7 DEF Running
<1>10. SysOK'
  BY <1>1, <1>7, <1>8 DEF SysOK, Sched
<1> QED
  BY <1>1, <1>2, <1>4, <1>5, <1>7, <1>8, <1>10

\* create.c:13-105 keeps the invariant.
LEMMA CreateStep ==
  ASSUME PInv, NEW pid \in User, Create(pid)
  PROVE  PInv'
<1>1. /\ VmOK(vm') /\ SysOK' /\ NewDFrame(vm) \in DFrame \cup {SYSERR} /\ Runs
  BY CreateFacts
<1>2. /\ prpd' = [prpd EXCEPT ![pid] = NewDFrame(vm)]
      /\ pc' = [pc EXCEPT ![pid] = InUser]
      /\ pralloc' = [pralloc EXCEPT ![pid] = {}]
      /\ expect' = [expect EXCEPT ![pid] = [g \in Page |-> None]]
      /\ prcount' = prcount + 1
      /\ ncreate < MaxCreate /\ ncreate' = ncreate + 1
      /\ prparent' = [prparent EXCEPT ![pid] = me]
      /\ prhasmsg' = [prhasmsg EXCEPT ![pid] = FALSE]
      /\ UNCHANGED <<pgfaddr, tlb>>
  BY DEF Create
<1>3. pid \in Pid /\ me \in Pid
  BY <1>1, RunsFacts, NullProc
<1>4. MaxCreate \in Nat
  BY PagingAssumption
<1>5. ProcType'
  BY <1>1, <1>2, <1>3, <1>4 DEF PInv, ProcType
<1>6. /\ pc' \in [Pid -> Place] /\ pc'[NULLPROC] = InUser
      /\ \A p \in Pid : pc'[p].at = "fblock" => pc[p].at = "fblock"
  BY <1>2, <1>3, PlaceFacts, NullProc DEF PInv, FlowType
<1>7. FlowType'
  BY <1>2, <1>6 DEF PInv, FlowType
<1> QED
  BY <1>1, <1>5, <1>7 DEF PInv

\* resume.c:9-31 keeps the invariant.
LEMMA ResumeStep ==
  ASSUME PInv, NEW pid \in User, Resume(pid)
  PROVE  PInv' /\ Running(sys') /\ SameBut(Ready(sys, pid), sys')
<1> DEFINE s == Ready(sys, pid)
<1>1. /\ Runs /\ sys.prstate[pid] = "SUSP" /\ Switch(resched(s), tlb)
      /\ UNCHANGED <<vm, pc, pgfaddr, proc>>
  BY DEF Resume, Calling
<1>2. /\ Sched(sys) /\ pid \in Pid /\ tlb \in [Page -> EFrame \cup {None}]
  BY <1>1, RunsFacts, NullProc DEF PInv, FlowType
<1>3. /\ Sched(s) /\ s.prstate = [sys.prstate EXCEPT ![pid] = "READY"]
      /\ s.fbqueue = sys.fbqueue
  BY <1>1, <1>2, ReadySched
<1>4. UNCHANGED proc /\ SameBut(s, s)
  BY <1>1 DEF SameBut
<1> HIDE DEF s
<1>6. /\ Running(sys') /\ SameBut(s, sys') /\ SysOK'
      /\ tlb' \in [Page -> EFrame \cup {None}]
  BY <1>1, <1>2, <1>3, ReschedStep
<1>7. VmOK(vm') /\ pc' \in [Pid -> Place] /\ pc'[NULLPROC] = InUser
  BY <1>1 DEF PInv, FlowType
<1>8. PInv'
  BY <1>1, <1>4, <1>6, <1>7, FlowStep
<1> QED
  BY <1>6, <1>8 DEF s

\* receive.c:15-20 keeps the invariant.
LEMMA ReceiveWaitsStep ==
  ASSUME PInv, ReceiveWaits
  PROVE  /\ PInv' /\ Running(sys') /\ Runs
         /\ \A q \in Pid \ {me} :
              sys'.prstate[q] = sys.prstate[q]
              \/ (sys'.prstate[q] \in Runnable /\ sys.prstate[q] \in Runnable)
         /\ sys'.prstate[me] = "RECV"
<1> DEFINE s == [sys EXCEPT !.prstate[me] = "RECV"]
<1>1. /\ Calling("receive") /\ Runs
      /\ pc' = [pc EXCEPT ![me] = At("recv", None)]
      /\ Switch(resched(s), tlb)
      /\ UNCHANGED <<vm, pgfaddr, proc>>
  BY DEF ReceiveWaits, Calling
<1>2. /\ Sched(sys) /\ me \in Pid /\ sys.prstate[me] = "CURR" /\ me # NULLPROC
      /\ tlb \in [Page -> EFrame \cup {None}] /\ sys.prstate \in [Pid -> ProcState]
  BY <1>1, RunsFacts, SysFacts, CallerFacts DEF PInv, FlowType
<1>3. me \in User /\ "RECV" \in ProcState \ Runnable /\ "RECV" # "FRAME"
  BY <1>2 DEF User, ProcState, Runnable
<1>4. /\ Sched(s) /\ s.prstate = [sys.prstate EXCEPT ![me] = "RECV"]
      /\ s.fbqueue = sys.fbqueue
  BY <1>2, <1>3, StateSched
<1> HIDE DEF s
<1>6. /\ Running(sys') /\ SameBut(s, sys') /\ SysOK'
      /\ tlb' \in [Page -> EFrame \cup {None}]
  BY <1>1, <1>2, <1>4, ReschedStep
<1>7. /\ VmOK(vm') /\ pc' \in [Pid -> Place] /\ pc'[NULLPROC] = InUser
      /\ \A p \in Pid : pc'[p].at = "fblock" => pc[p].at = "fblock"
  BY <1>1, <1>2, PlaceFacts DEF PInv, FlowType
<1>8. UNCHANGED proc /\ pgfaddr' = pgfaddr
  BY <1>1
<1>9. PInv'
  BY <1>6, <1>7, <1>8, FlowStep
<1>10. /\ s.prstate[me] = "RECV"
       /\ \A q \in Pid \ {me} : s.prstate[q] = sys.prstate[q]
  BY <1>2, <1>4
<1> QED
  BY <1>1, <1>2, <1>6, <1>9, <1>10 DEF SameBut, Runnable

\* receive.c:21-24 keeps the invariant.
LEMMA ReceiveTakesStep ==
  ASSUME PInv, ReceiveTakes
  PROVE  PInv'
<1>1. /\ Runs /\ prhasmsg' = [prhasmsg EXCEPT ![me] = FALSE]
      /\ pc' = [pc EXCEPT ![me] = InUser]
      /\ UNCHANGED <<vm, sys, prpd, pralloc, pgfaddr, tlb, prcount, prparent,
                     ncreate, expect>>
  BY DEF ReceiveTakes, Calling
<1>2. me \in Pid
  BY <1>1, RunsFacts
<1>3. ProcType'
  BY <1>1 DEF PInv, ProcType
<1>4. /\ pc' \in [Pid -> Place] /\ pc'[NULLPROC] = InUser
      /\ \A p \in Pid : pc'[p].at = "fblock" => pc[p].at = "fblock"
  BY <1>1, <1>2, PlaceFacts, NullProc DEF PInv, FlowType
<1>5. FlowType' /\ VmOK(vm') /\ SysOK'
  BY <1>1, <1>4 DEF PInv, FlowType, SysOK
<1> QED
  BY <1>3, <1>5 DEF PInv

\* clkhandler.c:38-44, the processor is given away: the invariant is kept.
LEMMA ClockTickStep ==
  ASSUME PInv, ClockTick
  PROVE  PInv' /\ Running(sys') /\ SameBut(sys, sys') /\ Runs
<1>1. Runs /\ Switch(resched(sys), tlb) /\ UNCHANGED <<vm, pc, pgfaddr, proc>>
  BY DEF ClockTick, Calling
<1>2. Sched(sys) /\ tlb \in [Page -> EFrame \cup {None}]
  BY <1>1, RunsFacts DEF PInv, FlowType, SysOK
<1>3. /\ Running(sys') /\ SameBut(sys, sys') /\ SysOK'
      /\ tlb' \in [Page -> EFrame \cup {None}]
  BY <1>1, <1>2, ReschedStep
<1>4. UNCHANGED proc /\ VmOK(vm') /\ pc' \in [Pid -> Place] /\ pc'[NULLPROC] = InUser
  BY <1>1 DEF PInv, FlowType
<1>5. PInv'
  BY <1>1, <1>3, <1>4, FlowStep
<1> QED
  BY <1>1, <1>3, <1>5

-----------------------------------------------------------------------------
(* The theorems that hold for every workload.                               *)

\* init_paging and create of main establish the invariant.
LEMMA InitPInv == Init => PInv
<1> SUFFICES ASSUME Init PROVE PInv
  OBVIOUS
<1>1. VmOK(vm) /\ vm.status = "up"
  BY InitBooted DEF Booted
<1>2. ProcType
  <2>1. FRAME0_D + NIdentity \in DFrame
    BY FramesAssumption, PagingAssumption DEF DFrame, RegionFrames, RegionBase, RegionSize, FRAME0_D
  <2>2. MaxCreate \in Nat /\ NULLPROC \in Pid
    BY PagingAssumption, NullProc
  <2> QED
    BY <2>1, <2>2 DEF Init, ProcType
<1>3. FlowType
  <2>1. tlb \in [Page -> EFrame \cup {None}] /\ pgfaddr \in Page \cup {None}
    BY DEF Init, NoTlb
  <2>2. pc \in [Pid -> Place] /\ \A p \in Pid : pc[p] = InUser
    BY PlaceFacts DEF Init
  <2> QED
    BY <2>1, <2>2, PlaceFacts, NullProc DEF FlowType
<1>4. Running(sys)
  <2>1. /\ sys = [prstate |-> [p \in Pid |-> IF p = NULLPROC THEN "CURR" ELSE "FREE"],
                  readylist |-> << >>, currpid |-> NULLPROC, fbqueue |-> << >>]
    BY DEF Init
  <2>2. sys.prstate \in [Pid -> ProcState]
    BY <2>1 DEF ProcState
  <2>3. sys \in SysType
    BY <2>1, <2>2, NullProc DEF SysType
  <2>4. \A p \in Pid : sys.prstate[p] = IF p = NULLPROC THEN "CURR" ELSE "FREE"
    BY <2>1
  <2>5. sys.readylist = << >> /\ sys.currpid = NULLPROC
    BY <2>1
  <2>6. ToSet(sys.readylist) = {p \in Pid : sys.prstate[p] = "READY"}
    BY <2>4, <2>5 DEF ToSet
  <2>7. ByPriority(sys.readylist)
    BY <2>5 DEF ByPriority
  <2> QED
    BY <2>3, <2>4, <2>5, <2>6, <2>7, NullProc DEF Running, Sched, Runnable
<1>5. SysOK
  BY <1>4 DEF SysOK, Running, Sched
<1> QED
  BY <1>1, <1>2, <1>3, <1>5 DEF PInv

\* Every step keeps the invariant.
LEMMA NextPInv == PInv /\ [Next]_vars => PInv'
<1> SUFFICES ASSUME PInv, [Next]_vars
             PROVE  PInv'
  OBVIOUS
<1>1. ASSUME NEW g \in Page, \/ \E x \in Val : Write(g, x)
                             \/ GetPage(g) \/ FreePage(g)
                             \/ FaultIgnored(g) \/ SegFault(g)
                             \/ FaultServed(g) \/ FaultBlocks(g)
      PROVE  PInv'
  BY <1>1, WriteStep, GetPageStep, FreePageStep, FaultIgnoredStep, SegFaultStep,
     FaultServedStep, FaultBlocksStep
<1>2. ASSUME NEW pid \in User, Kill(pid) \/ Create(pid) \/ Resume(pid)
      PROVE  PInv'
  BY <1>2, KillStep, CreateStep, ResumeStep
<1>3. ASSUME KillWake \/ KillFinish \/ FaultResumes \/ ReceiveWaits \/ ReceiveTakes \/ ClockTick
      PROVE  PInv'
  BY <1>3, KillWakeStep, KillFinishStep, FaultResumesStep, ReceiveWaitsStep,
     ReceiveTakesStep, ClockTickStep
<1>4. CASE UNCHANGED vars
  BY <1>4 DEF vars, PInv, ProcType, FlowType, SysOK
<1> QED
  BY <1>1, <1>2, <1>3, <1>4 DEF Next

\* The invariant holds, whatever the workload.
LEMMA SpecPInv == Spec => []PInv
<1> QED
  BY InitPInv, NextPInv, PTL DEF Spec

\* Every variable has its type: no stack of free frames outgrows its array, an
\* entry that is present or swapped names a frame of E1 or E2, and the
\* processor never holds a translation to anything else.
THEOREM PagingTypes == Spec => []TypeOK
<1>1. PInv => TypeOK
  <2> SUFFICES ASSUME PInv PROVE TypeOK
    OBVIOUS
  <2>1. VmOK(vm) /\ InOrder(vm.fm)
    BY DEF PInv, VmOK
  <2>2. FrameTableOK(vm.fm)
    <3>1. \A r \in Region : /\ ToSet(vm.fm.free[r]) \subseteq RegionFrames(r)
                            /\ Len(vm.fm.free[r]) <= RegionSize(r)
      BY <2>1, Room, RegionShape, InOrderFacts
    <3> QED
      BY <2>1, <3>1 DEF InOrder, FrameTableOK
  <2>3. /\ vm.dmem \in [DFrame -> Content] /\ vm.mem \in [EFrame -> Cell]
        /\ vm.status \in Status
    BY <2>1, VmFacts DEF VmOK
  <2>4. /\ sys.prstate \in [Pid -> ProcState]
        /\ sys.readylist \in Seq(Pid) /\ sys.fbqueue \in Seq(User) /\ sys.currpid \in Pid
    BY SysFacts DEF PInv, SysOK
  <2>5. /\ vm.dmem \in [DFrame -> [kind : {"pd", "pt"}, heap : DFrame \cup {None},
                                  pte : [Page -> Pte]]]
        /\ vm.mem \in [EFrame -> Pid \X (Page \cup {None}) \X (Val \cup {None})]
    BY <2>3 DEF Content, Cell
  <2>6. pc \in [Pid -> Place]
    BY DEF PInv, FlowType
  <2>7. ProcType /\ pgfaddr \in Page \cup {None} /\ tlb \in [Page -> EFrame \cup {None}]
    BY DEF PInv, FlowType
  <2> QED
    BY <2>2, <2>3, <2>4, <2>5, <2>6, <2>7 DEF TypeOK, ProcType
<1> QED
  BY <1>1, SpecPInv, PTL

\* The two records the scheduler keeps of a process agree, whatever is created,
\* killed, blocked for a frame and woken, in whatever order (resched.c,
\* ready.c, frameblock.c:42-79, kill.c:28-92).
THEOREM PagingScheduler == Spec => []SchedulerSound
<1>1. PInv => SchedulerSound
  <2> SUFFICES ASSUME PInv, vm.status = "up"
               PROVE  /\ ToSet(sys.readylist) = {p \in Pid : sys.prstate[p] = "READY"}
                      /\ \A i, j \in 1 .. Len(sys.readylist) :
                           i < j => /\ sys.readylist[i] # sys.readylist[j]
                                    /\ Prio[sys.readylist[i]] >= Prio[sys.readylist[j]]
                      /\ \A p \in Pid : sys.prstate[p] = "CURR" <=> p = me
    BY DEF SchedulerSound
  <2>1. Running(sys)
    BY DEF PInv, SysOK
  <2> QED
    BY <2>1 DEF Running, Sched, ByPriority, me
<1> QED
  BY <1>1, SpecPInv, PTL

-----------------------------------------------------------------------------
(* The inductive invariant if no process kills another one.                 *)

\* Whoever is in kill kills itself.
Selves == \A p \in Pid : pc[p].at \in {"kill_sent", "kill_woken"} => pc[p].arg = p

\* Frame d of region D is in use and belongs to p.
Holds(v, d, p) == v.fm.state[d] = "USED" /\ v.fm.pid[d] = p

\* The directory of a process is in a frame of its own, and so is its page table.
Dirs(v) ==
  \A p \in User : Using(p) /\ prpd[p] \in DFrame =>
    /\ Holds(v, prpd[p], p) /\ v.dmem[prpd[p]].kind = "pd"
    /\ v.dmem[prpd[p]].heap # None =>
         Holds(v, v.dmem[prpd[p]].heap, p) /\ v.dmem[v.dmem[prpd[p]].heap].kind = "pt"

\* DFramesOwned, by processes that are past no loop of kill.
Owned(v) ==
  \A d \in DFrame : v.fm.state[d] = "USED" /\ v.fm.pid[d] # NULLPROC =>
    LET p == v.fm.pid[d] IN
    Using(p) /\ prpd[p] \in DFrame /\ (d = prpd[p] \/ d = v.dmem[prpd[p]].heap)

\* A free frame of D can be found.
Stacked(v) == \A d \in DFrame : v.fm.state[d] = "FREE" => d \in ToSet(v.fm.free["D"])

\* Region D belongs to the processes that use their heaps.
RegionD(v) == Dirs(v) /\ Owned(v) /\ Stacked(v)

\* The queue holds who waits for a frame, once each.
Waiters == /\ NoRepeats(sys.fbqueue)
           /\ \A p \in User : p \in ToSet(sys.fbqueue) <=> sys.prstate[p] = "FRAME"

\* Without a page table for the caller the handler found no frame free.
Short == vm.status = "panic" => vm.fm.free["D"] = << >>

\* All of it, for processes that end by themselves.
OInv == PInv /\ Selves /\ RegionD(vm) /\ Waiters /\ Short /\ NoLostWakeup

-----------------------------------------------------------------------------
(* What steps keep.                                                         *)

\* Who is blocked and in the queue stays so.
LEMMA WaitersSame ==
  ASSUME Waiters, sys \in SysType, sys'.fbqueue = sys.fbqueue,
         \A p \in User : (sys.prstate[p] = "FRAME") <=> (sys'.prstate[p] = "FRAME")
  PROVE  Waiters'
<1>1. ToSet(sys.fbqueue) \subseteq User
  BY SysFacts DEF ToSet
<1> QED
  BY <1>1 DEF Waiters

\* With nobody in the queue but who is blocked, no wakeup goes astray.
LEMMA NoneAstray ==
  ASSUME OInv, NEW w
  PROVE  WakesBlocked(w, sys)
<1>1. sys.fbqueue \in Seq(User)
  BY SysFacts DEF OInv, PInv, SysOK
<1>2. CASE bothfull(w)
  BY <1>2 DEF Woken, WakesBlocked
<1>3. CASE ~ bothfull(w)
  <2>1. Woken(w, sys) = sys.fbqueue
    BY <1>3 DEF Woken
  <2>2. \A i \in 1 .. Len(sys.fbqueue) : sys.fbqueue[i] \in ToSet(sys.fbqueue)
    BY <1>1, ElementOf
  <2>3. \A i \in 1 .. Len(sys.fbqueue) : sys.fbqueue[i] \in User
    BY <1>1
  <2> QED
    BY <2>1, <2>2, <2>3 DEF OInv, Waiters, WakesBlocked, NoRepeats
<1> QED
  BY <1>2, <1>3

\* Calls that leave region D alone.
LEMMA RegionDKept ==
  ASSUME NEW v, VmOK(v), RegionD(v), NEW w, KeepsD(v, w)
  PROVE  RegionD(w)
<1>0. \A x \in DFrame : v.dmem[x].heap \in DFrame \cup {None} /\ v.fm.pid[x] \in Pid
  <2>1. \A x \in DFrame : v.dmem[x].heap \in DFrame \cup {None}
    BY VmFacts DEF VmOK
  <2>2. \A x \in DFrame : v.fm.pid[x] \in Pid
    BY InOrderFacts, FrameFacts DEF VmOK
  <2> QED
    BY <2>1, <2>2
<1>1. \A x \in DFrame :
        /\ w.dmem[x].kind = v.dmem[x].kind /\ w.dmem[x].heap = v.dmem[x].heap
        /\ w.fm.state[x] = v.fm.state[x] /\ w.fm.pid[x] = v.fm.pid[x]
        /\ v.dmem[x].heap \in DFrame \cup {None} /\ v.fm.pid[x] \in Pid
  BY <1>0 DEF KeepsD
<1>2. w.fm.free["D"] = v.fm.free["D"]
  BY DEF KeepsD
<1>3. Dirs(w)
  <2> SUFFICES ASSUME NEW p \in User, Using(p), prpd[p] \in DFrame
               PROVE  /\ Holds(w, prpd[p], p) /\ w.dmem[prpd[p]].kind = "pd"
                      /\ w.dmem[prpd[p]].heap # None =>
                           /\ Holds(w, w.dmem[prpd[p]].heap, p)
                           /\ w.dmem[w.dmem[prpd[p]].heap].kind = "pt"
    BY DEF Dirs
  <2>1. /\ Holds(v, prpd[p], p) /\ v.dmem[prpd[p]].kind = "pd"
        /\ v.dmem[prpd[p]].heap # None =>
             Holds(v, v.dmem[prpd[p]].heap, p) /\ v.dmem[v.dmem[prpd[p]].heap].kind = "pt"
    BY DEF RegionD, Dirs
  <2>2. w.dmem[prpd[p]].heap = v.dmem[prpd[p]].heap
        /\ v.dmem[prpd[p]].heap \in DFrame \cup {None}
    BY <1>1
  <2> QED
    BY <1>1, <2>1, <2>2 DEF Holds
<1>4. Owned(w)
  BY <1>1 DEF RegionD, Owned
<1>5. Stacked(w)
  BY <1>1, <1>2 DEF RegionD, Stacked
<1> QED
  BY <1>3, <1>4, <1>5 DEF RegionD

\* The same processes use their heaps, with the same directories.
LEMMA RegionDSame ==
  ASSUME RegionD(vm'), prpd' = prpd, \A p \in Pid : Using(p)' <=> Using(p), VmOK(vm')
  PROVE  RegionD(vm)'
<1>1. \A d \in DFrame : vm'.fm.pid[d] \in Pid
  BY InOrderFacts, FrameFacts DEF VmOK
<1>2. Dirs(vm)'
  BY NullProc DEF RegionD, Dirs, Holds
<1>3. Owned(vm)'
  BY <1>1 DEF RegionD, Owned
<1>4. Stacked(vm)'
  BY DEF RegionD, Stacked
<1> QED
  BY <1>2, <1>3, <1>4 DEF RegionD

\* A step that blocks nobody and leaves no frame free where none was.
LEMMA WakeupSame ==
  ASSUME NoLostWakeup, vm.status = "up",
         bothfull(vm) => bothfull(vm') \/ vm'.status # "up",
         \A p \in User : sys'.prstate[p] = "FRAME" => sys.prstate[p] = "FRAME",
         \A k \in User : pc[k].at = "kill_sent" /\ sys.prstate[k] \in {"CURR", "READY"} =>
                           pc'[k].at = "kill_sent" /\ sys'.prstate[k] \in {"CURR", "READY"}
  PROVE  NoLostWakeup'
BY DEF NoLostWakeup

\* Nobody enters or leaves kill but who stays in it.
Elsewhere ==
  \A p \in Pid : \/ pc'[p] = pc[p]
                 \/ /\ pc[p].at \notin {"kill_sent", "kill_woken"}
                    /\ pc'[p].at \notin {"kill_sent", "kill_woken"}

\* Nobody is created, dies, is blocked for a frame or woken, and who is in
\* kill loses the processor at most to the scheduler.
Unmoved ==
  /\ \A p \in Pid : /\ (sys'.prstate[p] = "FREE") <=> (sys.prstate[p] = "FREE")
                    /\ (sys'.prstate[p] = "FRAME") <=> (sys.prstate[p] = "FRAME")
                    /\ pc[p].at = "kill_sent" /\ sys.prstate[p] \in Runnable =>
                         sys'.prstate[p] \in Runnable
  /\ sys'.fbqueue = sys.fbqueue

\* The same processes use their heaps.
SameUsers == \A p \in Pid : Using(p)' <=> Using(p)

\* A step of the scheduler only moves nobody in or out of the queue.
LEMMA SameButUnmoved ==
  ASSUME SameBut(sys, sys'), sys'.fbqueue = sys.fbqueue
  PROVE  Unmoved
BY DEF SameBut, Unmoved, Runnable

\* A step that none of that concerns, but for what it does to the memory.
LEMMA QuietStep ==
  ASSUME OInv, PInv', vm.status = "up", RegionD(vm'), prpd' = prpd, Elsewhere, Unmoved,
         bothfull(vm) => bothfull(vm') \/ vm'.status # "up",
         vm'.status = "panic" => vm'.fm.free["D"] = << >>
  PROVE  OInv' /\ SameUsers
<1>1. \A p \in Pid : Using(p)' <=> Using(p)
  BY DEF Using, Live, Elsewhere, Unmoved
<1>2. RegionD(vm)'
  BY <1>1, RegionDSame DEF PInv
<1>3. Selves'
  BY DEF OInv, Selves, Elsewhere
<1>4. Waiters'
  <2>1. Waiters /\ sys \in SysType /\ sys'.fbqueue = sys.fbqueue
        /\ \A p \in User : (sys.prstate[p] = "FRAME") <=> (sys'.prstate[p] = "FRAME")
    BY NullProc DEF OInv, PInv, SysOK, Unmoved
  <2> QED
    BY <2>1, WaitersSame
<1>5. Short'
  BY DEF Short
<1>6. NoLostWakeup'
  <2>1. \A p \in User : p \in Pid
    BY NullProc
  <2>2. \A p \in User : sys'.prstate[p] = "FRAME" => sys.prstate[p] = "FRAME"
    BY <2>1 DEF Unmoved
  <2>3. \A k \in User : pc[k].at = "kill_sent" /\ sys.prstate[k] \in {"CURR", "READY"} =>
                           pc'[k].at = "kill_sent" /\ sys'.prstate[k] \in {"CURR", "READY"}
    BY <2>1 DEF Unmoved, Elsewhere, Runnable
  <2> QED
    BY <2>2, <2>3, WakeupSame DEF OInv
<1> QED
  BY <1>1, <1>2, <1>3, <1>4, <1>5, <1>6 DEF OInv, SameUsers

-----------------------------------------------------------------------------
(* Frames of D are taken.                                                   *)

\* The table after a frame of D has been taken, frame by frame.
LEMMA TookD ==
  ASSUME NEW v, VmOK(v), NEW u, NEW f, NEW pid, NEW pte,
         Took(v.fm, u, "D", f, pid, pte)
  PROVE  /\ f \in DFrame /\ v.fm.state[f] = "FREE"
         /\ \A x \in DFrame : /\ u.state[x] = IF x = f THEN "USED" ELSE v.fm.state[x]
                              /\ u.pid[x] = IF x = f THEN pid ELSE v.fm.pid[x]
         /\ u.free["E1"] = v.fm.free["E1"] /\ u.free["E2"] = v.fm.free["E2"]
         /\ \A x \in DFrame : x # f /\ x \in ToSet(v.fm.free["D"]) => x \in ToSet(u.free["D"])
<1>1. /\ v.fm.state \in [Frame -> {"FREE", "USED"}] /\ v.fm.pid \in [Frame -> Pid]
      /\ v.fm.free \in [Region -> Seq(Frame)]
  BY InOrderFacts DEF VmOK
<1>2. /\ f \in DFrame /\ f < NFRAMES /\ DFrame \subseteq Frame
      /\ "D" \in Region /\ "E1" \in Region /\ "E2" \in Region
      /\ "D" # "E1" /\ "D" # "E2"
  BY FrameFacts DEF Took, DFrame
<1>3. /\ v.fm.state[f] = "FREE"
      /\ u.free = [v.fm.free EXCEPT !["D"] = Tail(@)]
      /\ ToSet(Tail(v.fm.free["D"])) = ToSet(v.fm.free["D"]) \ {f}
      /\ u.state = [v.fm.state EXCEPT ![f] = "USED"]
      /\ u.pid = [v.fm.pid EXCEPT ![f] = pid]
  BY <1>2 DEF Took
<1>4. /\ u.free["E1"] = v.fm.free["E1"] /\ u.free["E2"] = v.fm.free["E2"]
      /\ u.free["D"] = Tail(v.fm.free["D"])
  BY <1>1, <1>2, <1>3
<1>5. \A x \in DFrame : /\ u.state[x] = IF x = f THEN "USED" ELSE v.fm.state[x]
                        /\ u.pid[x] = IF x = f THEN pid ELSE v.fm.pid[x]
  BY <1>1, <1>2, <1>3
<1> QED
  BY <1>2, <1>3, <1>4, <1>5

\* A running program uses its heap.
LEMMA ProgramUses ==
  ASSUME PInv, Runs, pc[me].at \notin {"kill_sent", "kill_woken"}, me \in User
  PROVE  Using(me) /\ prpd[me] = mypd /\ mypd \in DFrame
BY RunsFacts DEF Using, Live

\* The page table that __pde_inv_check makes belongs to the process that runs.
LEMMA TableRegionD ==
  ASSUME OInv, Program
  PROVE  LET w == WithPageTable(vm) IN
         /\ RegionD(w) /\ VmOK(w)
         /\ bothfull(w) <=> bothfull(vm)
         /\ w.status \in {"up", "panic"}
         /\ w.status = "panic" => w.fm.free["D"] = << >>
<1> DEFINE w == WithPageTable(vm)
           v == vm
<1>1. /\ VmOK(w) /\ w.status \in {"up", "panic"}
      /\ w.status = "panic" => vm.fm.free["D"] = << >> /\ w.fm = vm.fm /\ w.dmem = vm.dmem
      /\ \/ w.fm = vm.fm /\ w.dmem = vm.dmem
         \/ w.status = "up" /\ vm.dmem[mypd].heap = None
            /\ \E f : GotTable(vm, w, me, mypd, f)
  BY TableThere DEF OInv
<1>2. CASE w.fm = vm.fm /\ w.dmem = vm.dmem
  <2>1. RegionD(w)
    BY <1>2 DEF OInv, RegionD, Dirs, Owned, Stacked, Holds
  <2>2. bothfull(w) <=> bothfull(vm)
    BY <1>2 DEF bothfull, e1full, e2full
  <2> QED
    BY <1>1, <1>2, <2>1, <2>2
<1>3. CASE w.status = "up" /\ vm.dmem[mypd].heap = None /\ \E f : GotTable(vm, w, me, mypd, f)
  <2>1. PICK f : GotTable(vm, w, me, mypd, f)
    BY <1>3
  <2> HIDE DEF w
  <2>2. /\ f \in DFrame /\ v.fm.state[f] = "FREE"
        /\ \A x \in DFrame : /\ w.fm.state[x] = IF x = f THEN "USED" ELSE v.fm.state[x]
                             /\ w.fm.pid[x] = IF x = f THEN me ELSE v.fm.pid[x]
        /\ w.fm.free["E1"] = v.fm.free["E1"] /\ w.fm.free["E2"] = v.fm.free["E2"]
        /\ \A x \in DFrame : x # f /\ x \in ToSet(v.fm.free["D"]) => x \in ToSet(w.fm.free["D"])
    <3>1. VmOK(vm) /\ Took(vm.fm, w.fm, "D", f, me, FR_PTEUNUSED)
      BY <2>1 DEF GotTable, OInv, PInv
    <3> QED
      BY <3>1, TookD, ZenonT(60)
  <2>3. \A x \in DFrame :
          /\ w.dmem[x].kind = IF x = f THEN "pt" ELSE v.dmem[x].kind
          /\ w.dmem[x].heap = IF x = mypd THEN f ELSE IF x = f THEN None ELSE v.dmem[x].heap
          /\ v.dmem[x].heap \in DFrame \cup {None}
    <3>1. \A x \in DFrame : v.dmem[x].heap \in DFrame \cup {None}
      BY VmFacts DEF OInv, PInv, VmOK
    <3> QED
      BY <2>1, <3>1 DEF GotTable
  <2>4. Using(me) /\ prpd[me] = mypd /\ mypd \in DFrame /\ me \in User
    BY ProgramFacts, ProgramUses DEF OInv
  <2>5. \A p \in User : Using(p) /\ prpd[p] \in DFrame =>
          /\ Holds(v, prpd[p], p) /\ v.dmem[prpd[p]].kind = "pd"
          /\ v.dmem[prpd[p]].heap # None =>
               Holds(v, v.dmem[prpd[p]].heap, p) /\ v.dmem[v.dmem[prpd[p]].heap].kind = "pt"
    BY DEF OInv, RegionD, Dirs
  <2>6. Holds(v, mypd, me)
    BY <2>4, <2>5
  <2>7. Dirs(w)
    <3> SUFFICES ASSUME NEW p \in User, Using(p), prpd[p] \in DFrame
                 PROVE  /\ Holds(w, prpd[p], p) /\ w.dmem[prpd[p]].kind = "pd"
                        /\ w.dmem[prpd[p]].heap # None =>
                             /\ Holds(w, w.dmem[prpd[p]].heap, p)
                             /\ w.dmem[w.dmem[prpd[p]].heap].kind = "pt"
      BY DEF Dirs
    <3>1. /\ Holds(v, prpd[p], p) /\ v.dmem[prpd[p]].kind = "pd"
          /\ v.dmem[prpd[p]].heap # None =>
               Holds(v, v.dmem[prpd[p]].heap, p) /\ v.dmem[v.dmem[prpd[p]].heap].kind = "pt"
      BY <2>5
    <3>2. prpd[p] # f /\ Holds(w, prpd[p], p) /\ w.dmem[prpd[p]].kind = "pd"
      BY <2>2, <2>3, <3>1 DEF Holds
    <3>3. CASE p = me
      BY <2>2, <2>3, <2>4, <3>2, <3>3 DEF Holds
    <3>4. CASE p # me
      <4>1. prpd[p] # mypd
        BY <2>6, <3>1, <3>4 DEF Holds
      <4>2. w.dmem[prpd[p]].heap = v.dmem[prpd[p]].heap
        BY <2>3, <3>2, <4>1
      <4>3. v.dmem[prpd[p]].heap # None => v.dmem[prpd[p]].heap \in DFrame \ {f}
        BY <2>2, <2>3, <3>1 DEF Holds
      <4> QED
        BY <2>2, <2>3, <3>1, <3>2, <4>2, <4>3 DEF Holds
    <3> QED
      BY <3>3, <3>4
  <2>8. Owned(w)
    <3> SUFFICES ASSUME NEW d \in DFrame, w.fm.state[d] = "USED", w.fm.pid[d] # NULLPROC
                 PROVE  /\ Using(w.fm.pid[d]) /\ prpd[w.fm.pid[d]] \in DFrame
                        /\ d = prpd[w.fm.pid[d]] \/ d = w.dmem[prpd[w.fm.pid[d]]].heap
      BY DEF Owned
    <3>1. CASE d = f
      BY <2>2, <2>3, <2>4, <3>1
    <3>2. CASE d # f
      <4> DEFINE p == v.fm.pid[d]
      <4>1. w.fm.pid[d] = p /\ v.fm.state[d] = "USED" /\ p # NULLPROC
        BY <2>2, <3>2
      <4>2. /\ Using(p) /\ prpd[p] \in DFrame
            /\ d = prpd[p] \/ d = v.dmem[prpd[p]].heap
        BY <4>1 DEF OInv, RegionD, Owned
      <4> HIDE DEF p
      <4>3. p \in User
        <5>1. p \in Pid
          BY InOrderFacts, FrameFacts DEF p, OInv, PInv, VmOK
        <5> QED
          BY <4>1, <5>1 DEF User
      <4>4. prpd[p] # f
        BY <2>2, <2>5, <4>2, <4>3 DEF Holds
      <4>5. d = v.dmem[prpd[p]].heap => prpd[p] # mypd
        BY <1>3, FrameFacts DEF None
      <4> QED
        BY <2>3, <4>1, <4>2, <4>4, <4>5
    <3> QED
      BY <3>1, <3>2
  <2>9. Stacked(w)
    BY <2>2 DEF OInv, RegionD, Stacked
  <2>10. bothfull(w) <=> bothfull(vm)
    BY <2>2 DEF bothfull, e1full, e2full, hasfreeframe
  <2>11. w.status # "panic"
    BY <1>3
  <2> QED
    BY <1>1, <2>7, <2>8, <2>9, <2>10, <2>11 DEF RegionD, w
<1> QED
  BY <1>1, <1>2, <1>3

-----------------------------------------------------------------------------
(* Steps.                                                                   *)

\* A step that does not touch the tables of the frames.
LEMMA SameMemory ==
  ASSUME OInv, PInv', vm.status = "up", vm'.fm = vm.fm, vm'.dmem = vm.dmem,
         vm'.status = "up", prpd' = prpd, Elsewhere, Unmoved
  PROVE  OInv' /\ SameUsers
<1>1. RegionD(vm')
  BY DEF OInv, RegionD, Dirs, Owned, Stacked, Holds
<1>2. bothfull(vm) => bothfull(vm')
  BY DEF bothfull, e1full, e2full
<1> QED
  BY <1>1, <1>2, QuietStep

\* A step that changes neither the scheduler's tables nor where processes are.
LEMMA StillFacts ==
  ASSUME UNCHANGED <<sys, pc>>
  PROVE  Elsewhere /\ Unmoved
BY DEF Elsewhere, Unmoved

\* A store to memory keeps the invariant for processes that end by themselves.
LEMMA WriteO ==
  ASSUME OInv, NEW g \in Page, NEW x \in Val, Write(g, x)
  PROVE  OInv' /\ SameUsers
<1>1. PInv' /\ Program /\ UNCHANGED <<sys, pc, prpd>>
  BY WriteStep DEF OInv, Write
<1>2. vm.status = "up"
  BY <1>1, ProgramFacts, RunsFacts DEF OInv
<1>3. PICK m : vm' = [vm EXCEPT !.mem = m]
  BY DEF Write
<1>4. vm'.fm = vm.fm /\ vm'.dmem = vm.dmem /\ vm'.status = vm.status
  BY <1>3 DEF OInv, PInv, VmOK, VmType
<1>5. Elsewhere /\ Unmoved
  BY <1>1, StillFacts
<1> QED
  BY <1>1, <1>2, <1>4, <1>5, SameMemory

\* A step of the caller that changes no table keeps the invariant.
LEMMA StillO ==
  ASSUME OInv, PInv', Runs, UNCHANGED <<vm, sys, pc, prpd>>
  PROVE  OInv' /\ SameUsers
<1>1. vm.status = "up"
  BY RunsFacts DEF OInv
<1>2. Elsewhere /\ Unmoved
  BY StillFacts
<1> QED
  BY <1>1, <1>2, SameMemory

\* vmhgetmem.c:6-70 keeps the invariant for processes that end by themselves.
LEMMA GetPageO ==
  ASSUME OInv, NEW g \in Page, GetPage(g) \/ FaultIgnored(g)
  PROVE  OInv' /\ SameUsers
<1>1. PInv' /\ Program /\ UNCHANGED <<vm, sys, pc, prpd>>
  BY GetPageStep, FaultIgnoredStep DEF OInv, GetPage, FaultIgnored, Faults, proc
<1> QED
  BY <1>1, StillO, ProgramFacts DEF OInv

\* resume.c:9-31 keeps the invariant for processes that end by themselves.
LEMMA ResumeO ==
  ASSUME OInv, NEW pid \in User, Resume(pid)
  PROVE  OInv' /\ SameUsers
<1> DEFINE s == Ready(sys, pid)
<1>1. PInv' /\ SameBut(s, sys') /\ Runs /\ sys.prstate[pid] = "SUSP"
      /\ UNCHANGED <<vm, pc, prpd>> /\ Switch(resched(s), tlb)
  BY ResumeStep DEF OInv, Resume, Calling, proc
<1>2. Sched(sys) /\ pid \in Pid /\ vm.status = "up" /\ sys.prstate \in [Pid -> ProcState]
  BY <1>1, RunsFacts, SysFacts, NullProc DEF OInv
<1>3. /\ Sched(s) /\ s.prstate = [sys.prstate EXCEPT ![pid] = "READY"]
      /\ s.fbqueue = sys.fbqueue
  BY <1>1, <1>2, ReadySched
<1>4. sys' = resched(s)
  BY <1>1 DEF Switch
<1> HIDE DEF s
<1>5. sys'.fbqueue = sys.fbqueue
  BY <1>3, <1>4, reschedSched
<1>6. \A q \in Pid : s.prstate[q] = IF q = pid THEN "READY" ELSE sys.prstate[q]
  BY <1>2, <1>3
<1>7. Unmoved
  BY <1>1, <1>2, <1>5, <1>6 DEF SameBut, Unmoved, Runnable
<1>8. Elsewhere
  BY <1>1 DEF Elsewhere
<1> QED
  BY <1>1, <1>2, <1>7, <1>8, SameMemory

\* receive.c:15-20 keeps the invariant for processes that end by themselves.
LEMMA ReceiveWaitsO ==
  ASSUME OInv, ReceiveWaits
  PROVE  OInv' /\ SameUsers
<1> DEFINE s == [sys EXCEPT !.prstate[me] = "RECV"]
<1>1. /\ PInv' /\ Runs /\ pc[me].at = "user"
      /\ pc' = [pc EXCEPT ![me] = At("recv", None)]
      /\ UNCHANGED <<vm, prpd>> /\ Switch(resched(s), tlb)
      /\ \A q \in Pid \ {me} :
           sys'.prstate[q] = sys.prstate[q]
           \/ (sys'.prstate[q] \in Runnable /\ sys.prstate[q] \in Runnable)
      /\ sys'.prstate[me] = "RECV"
  BY ReceiveWaitsStep DEF OInv, ReceiveWaits, Calling, proc
<1>2. me \in Pid /\ vm.status = "up" /\ sys.prstate[me] = "CURR" /\ Sched(sys)
      /\ me # NULLPROC
  BY <1>1, RunsFacts, CallerFacts DEF OInv, ReceiveWaits
<1>3. me \in User /\ "RECV" \in ProcState \ Runnable
  BY <1>2 DEF User, ProcState, Runnable
<1>4. Sched(s) /\ s.fbqueue = sys.fbqueue
  BY <1>2, <1>3, StateSched
<1>5. sys' = resched(s)
  BY <1>1 DEF Switch
<1> HIDE DEF s
<1>6. sys'.fbqueue = sys.fbqueue
  BY <1>4, <1>5, reschedSched
<1>7. Unmoved
  <2>1. \A p \in Pid : p # me \/ p = me
    OBVIOUS
  <2> QED
    BY <1>1, <1>2, <1>6 DEF Unmoved, Runnable
<1>8. Elsewhere
  BY <1>1, PlaceFacts DEF Elsewhere, OInv, PInv, FlowType
<1> QED
  BY <1>1, <1>2, <1>7, <1>8, SameMemory

\* receive.c:21-24 keeps the invariant for processes that end by themselves.
LEMMA ReceiveTakesO ==
  ASSUME OInv, ReceiveTakes
  PROVE  OInv' /\ SameUsers
<1>1. /\ PInv' /\ Runs /\ pc[me].at \in {"user", "recv"}
      /\ pc' = [pc EXCEPT ![me] = InUser] /\ UNCHANGED <<vm, sys, prpd>>
  BY ReceiveTakesStep DEF OInv, ReceiveTakes, Calling
<1>2. vm.status = "up"
  BY <1>1, RunsFacts DEF OInv
<1>3. Elsewhere
  BY <1>1, PlaceFacts DEF Elsewhere, OInv, PInv, FlowType
<1>4. Unmoved
  BY <1>1 DEF Unmoved
<1> QED
  BY <1>1, <1>2, <1>3, <1>4, SameMemory

\* clkhandler.c:38-44 keeps the invariant for processes that end by themselves.
LEMMA ClockTickO ==
  ASSUME OInv, ClockTick
  PROVE  OInv' /\ SameUsers
<1>1. /\ PInv' /\ Runs /\ SameBut(sys, sys') /\ UNCHANGED <<vm, pc, prpd>>
      /\ Switch(resched(sys), tlb)
  BY ClockTickStep DEF OInv, ClockTick, proc
<1>2. vm.status = "up" /\ Sched(sys)
  BY <1>1, RunsFacts DEF OInv
<1>3. sys' = resched(sys)
  BY <1>1 DEF Switch
<1>4. Unmoved
  BY <1>1, <1>2, <1>3, reschedSched, SameButUnmoved
<1>5. Elsewhere
  BY <1>1 DEF Elsewhere
<1> QED
  BY <1>1, <1>2, <1>4, <1>5, SameMemory

\* pgfhandler.c:65-125 keeps the invariant for processes that end by
\* themselves.
LEMMA FaultServedO ==
  ASSUME OInv, NEW g \in Page, FaultServed(g)
  PROVE  OInv' /\ SameUsers
<1> DEFINE w == WithPageTable(vm)
<1>1. /\ Program /\ UNCHANGED <<sys, pc, tlb, proc>> /\ PInv'
      /\ \/ vm' = w /\ vm'.status = "panic"
         \/ /\ w.status # "panic" /\ KeepsD(w, vm')
            /\ bothfull(w) => bothfull(vm') \/ vm'.status = "nowhere"
  BY ServedFacts, FaultServedStep DEF OInv
<1>2. /\ RegionD(w) /\ VmOK(w) /\ w.status \in {"up", "panic"}
      /\ bothfull(w) <=> bothfull(vm)
      /\ w.status = "panic" => w.fm.free["D"] = << >>
  BY <1>1, TableRegionD
<1> HIDE DEF w
<1>3. vm.status = "up" /\ prpd' = prpd /\ Elsewhere /\ Unmoved
  BY <1>1, ProgramFacts, RunsFacts, StillFacts DEF OInv, proc
<1>4. RegionD(vm')
  BY <1>1, <1>2, RegionDKept
<1>5. bothfull(vm) => bothfull(vm') \/ vm'.status # "up"
  BY <1>1, <1>2
<1>6. vm'.status = "panic" => vm'.fm.free["D"] = << >>
  BY <1>1, <1>2 DEF KeepsD
<1> QED
  BY <1>1, <1>3, <1>4, <1>5, <1>6, QuietStep

\* framewakeup wakes everyone who is blocked for a frame, unless there is none.
LEMMA WakeO ==
  ASSUME OInv, Runs, NEW w, VmOK(w), NEW kept,
         vm' = IF WakesBlocked(w, sys) THEN w ELSE [w EXCEPT !.status = "wild"],
         Switch(framewakeup(w, sys), kept)
  PROVE  /\ vm' = w /\ Waiters' /\ NoLostWakeup'
         /\ \A p \in Pid : (sys'.prstate[p] = "FREE") <=> (sys.prstate[p] = "FREE")
<1> DEFINE s == framewakeup(w, sys)
<1>1. vm' = w /\ sys' = s
  BY NoneAstray DEF Switch
<1>2. Running(sys)
  BY RunsFacts DEF OInv
<1>3. /\ s.fbqueue = IF ~ bothfull(w) /\ sys.fbqueue # << >> THEN << >> ELSE sys.fbqueue
      /\ \A q \in Pid :
           IF ~ bothfull(w) /\ sys.fbqueue # << >> /\ q \in ToSet(sys.fbqueue)
           THEN s.prstate[q] \in Runnable
           ELSE s.prstate[q] = sys.prstate[q]
                \/ (s.prstate[q] \in Runnable /\ sys.prstate[q] \in Runnable)
  BY <1>2, framewakeupSched
<1> HIDE DEF s
<1>4. /\ \A p \in ToSet(sys.fbqueue) : sys.prstate[p] = "FRAME"
      /\ sys.fbqueue \in Seq(User) /\ ToSet(sys.fbqueue) \subseteq User
  <2>1. sys.fbqueue \in Seq(User)
    BY <1>2, SysFacts DEF Running, Sched
  <2>2. ToSet(sys.fbqueue) \subseteq User
    BY <2>1 DEF ToSet
  <2> QED
    BY <2>1, <2>2 DEF OInv, Waiters
<1>5. \A p \in Pid : (s.prstate[p] = "FREE") <=> (sys.prstate[p] = "FREE")
  BY <1>3, <1>4 DEF Runnable
<1>6. CASE bothfull(w) \/ sys.fbqueue = << >>
  <2>1. s.fbqueue = sys.fbqueue
    BY <1>3, <1>6
  <2>2. \A p \in Pid : (sys.prstate[p] = "FRAME") <=> (s.prstate[p] = "FRAME")
    BY <1>3, <1>6 DEF Runnable
  <2>3. Waiters'
    BY <1>1, <2>1, <2>2, <1>4, NullProc DEF OInv, Waiters
  <2>4. sys.fbqueue = << >> => \A p \in User : sys.prstate[p] # "FRAME"
    BY DEF OInv, Waiters, ToSet
  <2>5. NoLostWakeup'
    BY <1>1, <1>6, <2>2, <2>4, NullProc DEF NoLostWakeup
  <2> QED
    BY <1>1, <1>5, <2>3, <2>5
<1>7. CASE ~ (bothfull(w) \/ sys.fbqueue = << >>)
  <2>1. s.fbqueue = << >>
    BY <1>3, <1>7
  <2>3. \A p \in User : s.prstate[p] # "FRAME"
    <3> SUFFICES ASSUME NEW p \in User, s.prstate[p] = "FRAME"
                 PROVE  FALSE
      OBVIOUS
    <3>1. sys.prstate[p] = "FRAME"
      BY <1>3, NullProc DEF Runnable
    <3>2. p \in ToSet(sys.fbqueue)
      BY <3>1 DEF OInv, Waiters
    <3> QED
      BY <1>3, <1>7, <3>2, NullProc DEF Runnable
  <2>2. Waiters'
    <3>1. ToSet(s.fbqueue) = {} /\ NoRepeats(s.fbqueue)
      BY <2>1 DEF NoRepeats, ToSet
    <3> QED
      BY <1>1, <2>3, <3>1 DEF Waiters
  <2>4. NoLostWakeup'
    BY <1>1, <2>3 DEF NoLostWakeup
  <2> QED
    BY <1>1, <1>5, <2>2, <2>4
<1> QED
  BY <1>6, <1>7

\* vmhfreemem.c:65-150 keeps the invariant for processes that end by
\* themselves.
LEMMA FreePageO ==
  ASSUME OInv, NEW g \in Page, FreePage(g)
  PROVE  OInv' /\ SameUsers
<1> DEFINE w == set_pages_deallocated(vm, mypd, g)
           kept == IF getpte(vm, mypd, g).st = "absent" THEN tlb ELSE invlpg(tlb, g)
<1>1. /\ Program /\ Mapped(vm, mypd) /\ PInv'
      /\ vm' = IF WakesBlocked(w, sys) THEN w ELSE [w EXCEPT !.status = "wild"]
      /\ Switch(framewakeup(w, sys), kept)
      /\ UNCHANGED <<pc, prpd>>
  BY FreePageStep DEF OInv, FreePage
<1>2. Runs /\ mypd \in DFrame /\ vm.dmem[mypd].heap \in DFrame /\ vm.status = "up" /\ VmOK(vm)
  BY <1>1, ProgramFacts, RunsFacts DEF OInv, PInv
<1>3. VmOK(w) /\ KeepsD(vm, w)
  BY <1>2, DeallocatedKeeps
<1> HIDE DEF w, kept
<1>4. /\ vm' = w /\ Waiters' /\ NoLostWakeup'
      /\ \A p \in Pid : (sys'.prstate[p] = "FREE") <=> (sys.prstate[p] = "FREE")
  BY <1>1, <1>2, <1>3, WakeO
<1>5. RegionD(vm') /\ VmOK(vm')
  BY <1>2, <1>3, <1>4, RegionDKept DEF OInv
<1>6. \A p \in Pid : Using(p)' <=> Using(p)
  BY <1>1, <1>4 DEF Using, Live
<1>7. RegionD(vm)'
  BY <1>1, <1>5, <1>6, RegionDSame
<1>8. Selves'
  BY <1>1 DEF OInv, Selves
<1>9. Short'
  BY <1>2, <1>3, <1>4 DEF Short, KeepsD
<1> QED
  BY <1>1, <1>4, <1>6, <1>7, <1>8, <1>9 DEF OInv, SameUsers

\* frameblock by a process that finds both regions full.
LEMMA BlockO ==
  ASSUME OInv, PInv', Runs, me \in User, pc[me].at \notin {"kill_sent", "kill_woken"},
         Switch(frameblock(sys), tlb), prpd' = prpd, Elsewhere, RegionD(vm'), bothfull(vm'),
         vm'.status # "panic"
  PROVE  OInv' /\ SameUsers
<1> DEFINE s == frameblock(sys)
<1>1. /\ Running(sys) /\ sys.prstate[me] = "CURR" /\ me \in Pid
      /\ sys.fbqueue \in Seq(User)
  BY RunsFacts, SysFacts DEF OInv
<1>2. /\ s.fbqueue = insert_fbqueue(sys.fbqueue, me) /\ s.prstate[me] = "FRAME"
      /\ \A q \in Pid \ {me} :
           s.prstate[q] = sys.prstate[q]
           \/ (s.prstate[q] \in Runnable /\ sys.prstate[q] \in Runnable)
  BY <1>1, frameblockSched DEF me
<1>3. sys' = s
  BY DEF Switch
<1> HIDE DEF s
<1>4. \A p \in Pid : (s.prstate[p] = "FREE") <=> (sys.prstate[p] = "FREE")
  BY <1>1, <1>2 DEF Runnable
<1>9. \A p \in Pid : Using(p)' <=> Using(p)
  BY <1>3, <1>4 DEF Using, Live, Elsewhere
<1>5. RegionD(vm)'
  BY <1>9, RegionDSame DEF PInv
<1>6. Selves'
  BY DEF OInv, Selves, Elsewhere
<1>7. Waiters'
  <2>1. me \notin ToSet(sys.fbqueue) /\ NoRepeats(sys.fbqueue)
    BY <1>1 DEF OInv, Waiters
  <2>2. Members(sys.fbqueue) = ToSet(sys.fbqueue) /\ s.fbqueue = Append(sys.fbqueue, me)
    BY <1>1, <1>2, <2>1, ToSetMembers, RingRoom
  <2>3. /\ NoRepeats(Append(sys.fbqueue, me)) /\ Append(sys.fbqueue, me) \in Seq(User)
        /\ Members(Append(sys.fbqueue, me)) = Members(sys.fbqueue) \cup {me}
    BY <1>1, <2>1, <2>2, AppendMembers
  <2>4. ToSet(Append(sys.fbqueue, me)) = ToSet(sys.fbqueue) \cup {me}
    BY <2>2, <2>3, ToSetMembers
  <2>5. \A p \in User : (s.prstate[p] = "FRAME") <=> p = me \/ sys.prstate[p] = "FRAME"
    BY <1>1, <1>2, NullProc DEF Runnable
  <2> QED
    BY <1>3, <2>2, <2>3, <2>4, <2>5 DEF OInv, Waiters
<1>8. Short' /\ NoLostWakeup'
  BY DEF Short, NoLostWakeup
<1> QED
  BY <1>5, <1>6, <1>7, <1>8, <1>9 DEF OInv, SameUsers

\* pgfhandler.c:94-105 and frameblock.c:42-58 keeps the invariant for
\* processes that end by themselves.
LEMMA FaultBlocksO ==
  ASSUME OInv, NEW g \in Page, FaultBlocks(g)
  PROVE  OInv' /\ SameUsers
<1>1. /\ Program /\ vm' = WithPageTable(vm) /\ PInv' /\ prpd' = prpd
      /\ pc' = [pc EXCEPT ![me] = At("fblock", g)]
      /\ Switch(frameblock(sys), tlb) /\ bothfull(vm') /\ vm'.status # "panic"
  BY FaultBlocksStep DEF OInv, FaultBlocks, Faults, proc
<1>2. Runs /\ me \in User /\ pc[me].at = "user" /\ RegionD(vm')
  BY <1>1, ProgramFacts, TableRegionD DEF OInv
<1>3. Elsewhere
  BY <1>1, <1>2, PlaceFacts DEF Elsewhere, OInv, PInv, FlowType
<1> QED
  BY <1>1, <1>2, <1>3, BlockO

\* pgfhandler.c:100-121 behind frameblock keeps the invariant for processes
\* that end by themselves.
LEMMA FaultResumesO ==
  ASSUME OInv, FaultResumes
  PROVE  OInv' /\ SameUsers
<1>1. /\ Runs /\ pc[me].at = "fblock" /\ prpd' = prpd /\ PInv'
      /\ \/ bothfull(vm) /\ Switch(frameblock(sys), tlb) /\ UNCHANGED <<vm, pc>>
         \/ /\ ~ bothfull(vm) /\ pc' = [pc EXCEPT ![me] = InUser] /\ UNCHANGED <<sys, tlb>>
            /\ \/ Mapped(vm, mypd) /\ vm' = NewPage(vm, pgfaddr)
               \/ vm' = [vm EXCEPT !.status = "wild"]
  BY FaultResumesStep DEF OInv, FaultResumes, proc
<1>2. /\ me \in Pid /\ mypd \in DFrame /\ vm.status = "up" /\ VmOK(vm) /\ pgfaddr \in Page
      /\ Mapped(vm, mypd) => vm.dmem[mypd].heap \in DFrame
  BY <1>1, RunsFacts DEF OInv, PInv, FlowType
<1>3. me \in User
  BY <1>1, <1>2, PlaceFacts DEF OInv, PInv, FlowType, User
<1>4. Elsewhere
  BY <1>1, PlaceFacts DEF Elsewhere, OInv, PInv, FlowType
<1>5. CASE bothfull(vm) /\ Switch(frameblock(sys), tlb) /\ UNCHANGED <<vm, pc>>
  <2>1. RegionD(vm') /\ bothfull(vm') /\ vm'.status # "panic"
    BY <1>2, <1>5 DEF OInv
  <2> QED
    BY <1>1, <1>3, <1>4, <1>5, <2>1, BlockO
<1>6. CASE /\ ~ bothfull(vm) /\ pc' = [pc EXCEPT ![me] = InUser] /\ UNCHANGED <<sys, tlb>>
           /\ \/ Mapped(vm, mypd) /\ vm' = NewPage(vm, pgfaddr)
              \/ vm' = [vm EXCEPT !.status = "wild"]
  <2>1. KeepsD(vm, vm')
    <3>1. CASE Mapped(vm, mypd) /\ vm' = NewPage(vm, pgfaddr)
      BY <1>2, <3>1, NewPageKeeps
    <3>2. CASE vm' = [vm EXCEPT !.status = "wild"]
      <4>1. "wild" \in Status /\ vm \in VmType
        BY <1>2 DEF Status, VmOK
      <4>2. vm'.fm = vm.fm /\ vm'.dmem = vm.dmem /\ vm'.status = "wild"
        BY <3>2, <4>1, StatusShape
      <4> QED
        BY <4>2 DEF KeepsD
    <3> QED
      BY <1>6, <3>1, <3>2
  <2>2. RegionD(vm')
    BY <1>2, <2>1, RegionDKept DEF OInv
  <2>3. vm'.status # "panic" /\ Unmoved
    BY <1>2, <1>6, <2>1 DEF KeepsD, Unmoved
  <2> QED
    BY <1>1, <1>2, <1>4, <1>6, <2>2, <2>3, QuietStep
<1> QED
  BY <1>1, <1>5, <1>6

-----------------------------------------------------------------------------
(* create and kill.                                                         *)

\* create.c:13-105 keeps the invariant for processes that end by themselves.
LEMMA CreateO ==
  ASSUME OInv, NEW pid \in User, Create(pid)
  PROVE  OInv'
<1> DEFINE f == NewDFrame(vm)
<1>1. /\ PInv' /\ Runs /\ sys.prstate[pid] = "FREE" /\ VmOK(vm') /\ vm'.status = "up"
      /\ f = SYSERR => vm' = vm
      /\ f # SYSERR => /\ f \in DFrame
                       /\ vm'.dmem = [vm.dmem EXCEPT ![f] = DContent("pd")]
                       /\ Took(vm.fm, vm'.fm, "D", f, pid, FR_PTEUNUSED)
      /\ prpd' = [prpd EXCEPT ![pid] = f]
      /\ pc' = [pc EXCEPT ![pid] = InUser]
      /\ sys'.prstate = [sys.prstate EXCEPT ![pid] = "SUSP"]
      /\ sys' = [sys EXCEPT !.prstate[pid] = "SUSP"]
      /\ f \in DFrame \cup {SYSERR}
  BY CreateFacts, CreateStep DEF OInv, Create
<1> HIDE DEF f
<1>2. /\ pid \in Pid /\ pid # NULLPROC /\ vm.status = "up" /\ VmOK(vm) /\ sys \in SysType
      /\ sys.prstate \in [Pid -> ProcState] /\ prpd \in [Pid -> DFrame \cup {SYSERR}]
      /\ pc \in [Pid -> Place]
  BY <1>1, RunsFacts, SysFacts, NullProc DEF OInv, PInv, ProcType, FlowType
<1>3. /\ \A q \in Pid : /\ sys'.prstate[q] = IF q = pid THEN "SUSP" ELSE sys.prstate[q]
                        /\ prpd'[q] = IF q = pid THEN f ELSE prpd[q]
                        /\ pc'[q] = IF q = pid THEN InUser ELSE pc[q]
      /\ sys'.fbqueue = sys.fbqueue
  BY <1>1, <1>2 DEF SysType
<1>4. /\ \A q \in Pid \ {pid} : Using(q)' <=> Using(q)
      /\ Using(pid)' /\ ~ Using(pid)
  BY <1>1, <1>2, <1>3, PlaceFacts DEF Using, Live
<1>5. Selves'
  BY <1>3, PlaceFacts DEF OInv, Selves
<1>6. Short'
  BY <1>1 DEF Short
<1>7. Waiters'
  <2>1. \A p \in User : (sys.prstate[p] = "FRAME") <=> (sys'.prstate[p] = "FRAME")
    BY <1>1, <1>3, NullProc
  <2> QED
    BY <1>2, <1>3, <2>1, WaitersSame DEF OInv
<1>8. NoLostWakeup'
  <2>1. bothfull(vm) => bothfull(vm')
    <3>1. CASE f = SYSERR
      BY <1>1, <3>1 DEF bothfull, e1full, e2full
    <3>2. CASE f # SYSERR
      <4>1. vm'.fm.free["E1"] = vm.fm.free["E1"] /\ vm'.fm.free["E2"] = vm.fm.free["E2"]
        BY <1>1, <1>2, <3>2, TookD
      <4> QED
        BY <4>1 DEF bothfull, e1full, e2full, hasfreeframe
    <3> QED
      BY <3>1, <3>2
  <2>2. \A p \in User : sys'.prstate[p] = "FRAME" => sys.prstate[p] = "FRAME"
    BY <1>3, NullProc
  <2>3. \A q \in User : pc[q].at = "kill_sent" /\ sys.prstate[q] \in {"CURR", "READY"} =>
                          pc'[q].at = "kill_sent" /\ sys'.prstate[q] \in {"CURR", "READY"}
    BY <1>1, <1>3, NullProc
  <2> QED
    BY <1>2, <2>1, <2>2, <2>3, WakeupSame DEF OInv
<1>9. RegionD(vm)'
  <2>1. \A p \in User : Using(p) /\ prpd[p] \in DFrame =>
          /\ Holds(vm, prpd[p], p) /\ vm.dmem[prpd[p]].kind = "pd"
          /\ vm.dmem[prpd[p]].heap # None =>
               /\ Holds(vm, vm.dmem[prpd[p]].heap, p)
               /\ vm.dmem[vm.dmem[prpd[p]].heap].kind = "pt"
    BY DEF OInv, RegionD, Dirs
  <2>2. \A d \in DFrame : vm.fm.state[d] = "USED" /\ vm.fm.pid[d] # NULLPROC =>
          /\ vm.fm.pid[d] \in User \ {pid}
          /\ Using(vm.fm.pid[d]) /\ prpd[vm.fm.pid[d]] \in DFrame
          /\ d = prpd[vm.fm.pid[d]] \/ d = vm.dmem[prpd[vm.fm.pid[d]]].heap
    <3>1. \A d \in DFrame : vm.fm.pid[d] \in Pid
      BY <1>2, InOrderFacts, FrameFacts DEF VmOK
    <3> QED
      BY <1>4, <3>1 DEF OInv, RegionD, Owned, User
  <2>3. \A d \in DFrame : vm.fm.state[d] = "FREE" => d \in ToSet(vm.fm.free["D"])
    BY DEF OInv, RegionD, Stacked
  <2>4. CASE f = SYSERR
    <3>1. vm' = vm /\ f \notin DFrame
      BY <1>1, <2>4, FrameFacts DEF SYSERR
    <3>2. Dirs(vm)'
      BY <1>3, <1>4, <2>1, <3>1, NullProc DEF Dirs, Holds
    <3>3. Owned(vm)'
      BY <1>3, <1>4, <2>2, <3>1, NullProc DEF Owned
    <3>4. Stacked(vm)'
      BY <2>3, <3>1 DEF Stacked
    <3> QED
      BY <3>2, <3>3, <3>4 DEF RegionD
  <2>5. CASE f # SYSERR
    <3>0. VmOK(vm) /\ Took(vm.fm, vm'.fm, "D", f, pid, FR_PTEUNUSED)
      BY <1>1, <1>2, <2>5
    <3>1. /\ f \in DFrame /\ vm.fm.state[f] = "FREE"
          /\ \A x \in DFrame : /\ vm'.fm.state[x] = IF x = f THEN "USED" ELSE vm.fm.state[x]
                               /\ vm'.fm.pid[x] = IF x = f THEN pid ELSE vm.fm.pid[x]
          /\ vm'.fm.free["E1"] = vm.fm.free["E1"] /\ vm'.fm.free["E2"] = vm.fm.free["E2"]
          /\ \A x \in DFrame : x # f /\ x \in ToSet(vm.fm.free["D"]) =>
                                 x \in ToSet(vm'.fm.free["D"])
      BY <3>0, TookD, ZenonT(60)
    <3>2. \A x \in DFrame :
            /\ vm'.dmem[x].kind = IF x = f THEN "pd" ELSE vm.dmem[x].kind
            /\ vm'.dmem[x].heap = IF x = f THEN None ELSE vm.dmem[x].heap
            /\ vm.dmem[x].heap \in DFrame \cup {None}
      <4>1. /\ vm.dmem \in [DFrame -> Content]
            /\ \A x \in DFrame : vm.dmem[x].heap \in DFrame \cup {None}
        BY <1>2, VmFacts DEF VmOK
      <4>2. DContent("pd").kind = "pd" /\ DContent("pd").heap = None
        BY DEF DContent
      <4>3. \A x \in DFrame : vm'.dmem[x] = IF x = f THEN DContent("pd") ELSE vm.dmem[x]
        BY <1>1, <2>5, <4>1
      <4> QED
        BY <4>1, <4>2, <4>3
    <3>3. Dirs(vm)'
      <4> SUFFICES ASSUME NEW p \in User, Using(p)', prpd'[p] \in DFrame
                   PROVE  /\ Holds(vm', prpd'[p], p) /\ vm'.dmem[prpd'[p]].kind = "pd"
                          /\ vm'.dmem[prpd'[p]].heap # None =>
                               /\ Holds(vm', vm'.dmem[prpd'[p]].heap, p)
                               /\ vm'.dmem[vm'.dmem[prpd'[p]].heap].kind = "pt"
        BY DEF Dirs, Holds
      <4>1. p \in Pid
        BY NullProc
      <4>2. CASE p = pid
        BY <1>3, <3>1, <3>2, <4>1, <4>2 DEF Holds
      <4>3. CASE p # pid
        <5> DEFINE d == prpd[p]
                   h == vm.dmem[d].heap
        <5>1. prpd'[p] = d /\ Using(p) /\ d \in DFrame
          BY <1>3, <1>4, <4>1, <4>3
        <5>2. /\ Holds(vm, d, p) /\ vm.dmem[d].kind = "pd"
              /\ h # None => Holds(vm, h, p) /\ vm.dmem[h].kind = "pt"
          BY <2>1, <5>1
        <5>3. h \in DFrame \cup {None}
          BY <3>2, <5>1
        <5> HIDE DEF d, h
        <5>4. d # f /\ Holds(vm', d, p) /\ vm'.dmem[d].kind = "pd" /\ vm'.dmem[d].heap = h
          BY <3>1, <3>2, <5>1, <5>2 DEF Holds, h
        <5>5. h # None => h # f /\ Holds(vm', h, p) /\ vm'.dmem[h].kind = "pt"
          BY <3>1, <3>2, <5>2, <5>3 DEF Holds
        <5> QED
          BY <5>1, <5>4, <5>5
      <4> QED
        BY <4>2, <4>3
    <3>4. Owned(vm)'
      <4> SUFFICES ASSUME NEW d \in DFrame, NEW p, p = vm'.fm.pid[d],
                          vm'.fm.state[d] = "USED", p # NULLPROC
                   PROVE  /\ Using(p)' /\ prpd'[p] \in DFrame
                          /\ d = prpd'[p] \/ d = vm'.dmem[prpd'[p]].heap
        BY DEF Owned
      <4>1. CASE d = f
        <5>1. p = pid
          BY <3>1, <4>1
        <5> QED
          BY <1>2, <1>3, <1>4, <3>1, <4>1, <5>1
      <4>2. CASE d # f
        <5>1. vm.fm.pid[d] = p /\ vm.fm.state[d] = "USED"
          BY <3>1, <4>2
        <5>2. /\ p \in User \ {pid} /\ Using(p) /\ prpd[p] \in DFrame
              /\ d = prpd[p] \/ d = vm.dmem[prpd[p]].heap
          BY <2>2, <5>1
        <5>3. p \in Pid /\ prpd'[p] = prpd[p] /\ Using(p)'
          BY <1>3, <1>4, <5>2, NullProc, SMTT(30)
        <5>4. prpd[p] # f
          BY <2>1, <3>1, <5>2 DEF Holds
        <5>5. vm'.dmem[prpd[p]].heap = vm.dmem[prpd[p]].heap
          BY <3>2, <5>2, <5>4
        <5> QED
          BY <5>2, <5>3, <5>5
      <4> QED
        BY <4>1, <4>2
    <3>5. Stacked(vm)'
      BY <2>3, <3>1 DEF Stacked
    <3> QED
      BY <3>3, <3>4, <3>5 DEF RegionD
  <2> QED
    BY <2>4, <2>5
<1> QED
  BY <1>1, <1>5, <1>6, <1>7, <1>8, <1>9 DEF OInv

\* kill up to its send, by the process that dies: its frames are free, and nobody
\* can lose them any more.
LEMMA KillBeginO ==
  ASSUME OInv, PInv', Runs, me \in User, pc[me].at = "user", KillBegin(me)
  PROVE  OInv'
<1>1. /\ prpd' = prpd /\ vm'.dmem = vm.dmem /\ VmOK(vm') /\ VmOK(vm)
      /\ \/ vm'.fm = vm.fm /\ vm'.status = "done" /\ UNCHANGED <<sys, pc>>
         \/ /\ AllFreed(vm.fm, vm'.fm, me) /\ vm'.status = "up"
            /\ pc' = [pc EXCEPT ![me] = At("kill_sent", me)]
            /\ Running(sys')
            /\ \A q \in Pid : \/ sys'.prstate[q] = sys.prstate[q]
                              \/ sys.prstate[q] = "RECV" /\ sys'.prstate[q] \in Runnable
                              \/ /\ sys'.prstate[q] \in Runnable
                                 /\ sys.prstate[q] \in Runnable
  BY KillBeginFacts DEF OInv, PInv
<1>2. /\ vm.status = "up" /\ me \in Pid /\ sys.prstate[me] = "CURR" /\ Sched(sys)
      /\ pc \in [Pid -> Place] /\ sys \in SysType
  BY RunsFacts DEF OInv, PInv, FlowType
<1>3. CASE vm'.fm = vm.fm /\ vm'.status = "done" /\ UNCHANGED <<sys, pc>>
  <2>1. RegionD(vm')
    BY <1>1, <1>3 DEF OInv, RegionD, Dirs, Owned, Stacked, Holds
  <2>2. Elsewhere /\ Unmoved
    BY <1>3, StillFacts
  <2> QED
    BY <1>1, <1>2, <1>3, <2>1, <2>2, QuietStep, SMTT(30)
<1>0. PICK c \in User : c = me
  OBVIOUS
<1>4. CASE /\ AllFreed(vm.fm, vm'.fm, me) /\ vm'.status = "up"
           /\ pc' = [pc EXCEPT ![me] = At("kill_sent", me)]
           /\ Running(sys')
           /\ \A q \in Pid : \/ sys'.prstate[q] = sys.prstate[q]
                             \/ sys.prstate[q] = "RECV" /\ sys'.prstate[q] \in Runnable
                             \/ sys'.prstate[q] \in Runnable /\ sys.prstate[q] \in Runnable
  <2>1. /\ \A q \in Pid \ {me} : pc'[q] = pc[q]
        /\ pc'[me].at = "kill_sent" /\ pc'[me].arg = me
    BY <1>2, <1>4, PlaceFacts
  <2>2. /\ \A q \in Pid : (sys'.prstate[q] = "FREE") <=> (sys.prstate[q] = "FREE")
        /\ \A q \in Pid : (sys'.prstate[q] = "FRAME") <=> (sys.prstate[q] = "FRAME")
        /\ sys'.prstate[me] \in Runnable
    BY <1>2, <1>4 DEF Runnable
  <2>3. ~ Using(c)' /\ \A q \in Pid : q # c => (Using(q)' <=> Using(q))
    BY <1>0, <1>2, <2>1, <2>2 DEF Using, Live
  <2>4. Selves'
    BY <2>1 DEF OInv, Selves
  <2>5. Short'
    BY <1>4 DEF Short
  <2>6. Waiters'
    <3>1. sys'.fbqueue = sys.fbqueue
      BY KillBeginQueue DEF OInv
    <3>2. \A p \in User : (sys.prstate[p] = "FRAME") <=> (sys'.prstate[p] = "FRAME")
      BY <2>2, NullProc DEF Runnable
    <3> QED
      BY <1>2, <3>1, <3>2, WaitersSame DEF OInv
  <2>7. NoLostWakeup'
    BY <2>1, <2>2 DEF NoLostWakeup, Runnable
  <2>8. RegionD(vm)'
    <3>1. /\ \A d \in DFrame : vm.fm.pid[d] \in Pid /\ vm'.fm.pid[d] = vm.fm.pid[d]
          /\ \A d \in DFrame : vm'.fm.state[d] = IF vm.fm.pid[d] = me THEN "FREE"
                                                 ELSE vm.fm.state[d]
          /\ \A d \in DFrame : vm.fm.state[d] \in {"FREE", "USED"}
          /\ \A d \in DFrame : d \in ToSet(vm'.fm.free["D"]) <=>
               d \in ToSet(vm.fm.free["D"]) \/ (vm.fm.state[d] = "USED" /\ vm.fm.pid[d] = me)
      <4>1. /\ vm.fm.pid \in [Frame -> Pid] /\ vm.fm.state \in [Frame -> {"FREE", "USED"}]
        BY <1>1, InOrderFacts DEF VmOK
      <4>2. /\ vm'.fm.pid = vm.fm.pid
            /\ \A d \in Frame : vm'.fm.state[d] = IF vm.fm.pid[d] = me THEN "FREE"
                                                  ELSE vm.fm.state[d]
            /\ \A r \in Region : \A d \in RegionFrames(r) : d \in ToSet(vm'.fm.free[r]) <=>
                 d \in ToSet(vm.fm.free[r]) \/ (vm.fm.state[d] = "USED" /\ vm.fm.pid[d] = me)
        BY <1>4 DEF AllFreed
      <4> QED
        BY <4>1, <4>2, FrameFacts DEF DFrame
    <3>2. Dirs(vm)'
      <4> SUFFICES ASSUME NEW p \in User, Using(p)', prpd'[p] \in DFrame
                   PROVE  /\ Holds(vm', prpd'[p], p) /\ vm'.dmem[prpd'[p]].kind = "pd"
                          /\ vm'.dmem[prpd'[p]].heap # None =>
                               /\ Holds(vm', vm'.dmem[prpd'[p]].heap, p)
                               /\ vm'.dmem[vm'.dmem[prpd'[p]].heap].kind = "pt"
        BY DEF Dirs, Holds
      <4> DEFINE d == prpd[p]
                 h == vm.dmem[d].heap
      <4>1. p \in Pid /\ p # me /\ Using(p) /\ d \in DFrame /\ prpd'[p] = d
        BY <1>0, <1>1, <2>3, NullProc
      <4>2. /\ Holds(vm, d, p) /\ vm.dmem[d].kind = "pd"
            /\ h # None => Holds(vm, h, p) /\ vm.dmem[h].kind = "pt"
        BY <4>1 DEF OInv, RegionD, Dirs
      <4>3. h \in DFrame \cup {None}
        BY <1>1, <4>1, VmFacts DEF VmOK
      <4>4. vm'.dmem[d].heap = h
        BY <1>1
      <4> HIDE DEF d, h
      <4> QED
        BY <1>1, <3>1, <4>1, <4>2, <4>3, <4>4 DEF Holds
    <3>3. Owned(vm)'
      <4> SUFFICES ASSUME NEW d \in DFrame, NEW p, p = vm'.fm.pid[d],
                          vm'.fm.state[d] = "USED", p # NULLPROC
                   PROVE  /\ Using(p)' /\ prpd'[p] \in DFrame
                          /\ d = prpd'[p] \/ d = vm'.dmem[prpd'[p]].heap
        BY DEF Owned
      <4>1. p = vm.fm.pid[d] /\ vm.fm.state[d] = "USED" /\ p \in Pid /\ p # me
        BY <3>1
      <4>2. /\ Using(p) /\ prpd[p] \in DFrame
            /\ d = prpd[p] \/ d = vm.dmem[prpd[p]].heap
        BY <4>1 DEF OInv, RegionD, Owned
      <4> QED
        BY <1>0, <1>1, <2>3, <4>1, <4>2
    <3>4. Stacked(vm)'
      BY <3>1 DEF Stacked, OInv, RegionD
    <3> QED
      BY <3>2, <3>3, <3>4 DEF RegionD
  <2> QED
    BY <2>4, <2>5, <2>6, <2>7, <2>8 DEF OInv
<1> QED
  BY <1>1, <1>3, <1>4

\* pgfhandler.c:57-63 keeps the invariant for processes that end by themselves.
LEMMA SegFaultO ==
  ASSUME OInv, NEW g \in Page, SegFault(g)
  PROVE  OInv'
<1>1. Program /\ KillBegin(me) /\ PInv'
  BY SegFaultStep DEF SegFault, Faults, OInv
<1>2. Runs /\ me \in User /\ pc[me].at = "user"
  BY <1>1, ProgramFacts DEF OInv
<1> QED
  BY <1>1, <1>2, KillBeginO

\* kill.c:9-36 called by exit or by another process keeps the invariant for
\* processes that end by themselves.
LEMMA KillO ==
  ASSUME OInv, SelfKills, NEW pid \in User, Kill(pid)
  PROVE  OInv'
<1>1. PInv' /\ KillBegin(pid) /\ (Calling("kill") \/ (Calling("exit") /\ pid = me))
  BY KillStep DEF OInv, Kill
<1>2. Runs /\ pc[me].at = "user"
  BY <1>1 DEF Calling
<1>3. ~ Calling("kill")
  BY <1>2, RunsFacts DEF OInv, SelfKills, Calling
<1>4. pid = me
  BY <1>1, <1>3
<1> QED
  BY <1>1, <1>2, <1>4, KillBeginO

\* framewakeup in kill.c:37-42 keeps the invariant for processes that end by
\* themselves.
LEMMA KillWakeO ==
  ASSUME OInv, KillWake
  PROVE  OInv' /\ SameUsers
<1>1. /\ Runs /\ pc[me].at = "kill_sent" /\ PInv'
      /\ pc' = [pc EXCEPT ![me] = At("kill_woken", @.arg)]
      /\ vm' = IF WakesBlocked(vm, sys) THEN vm ELSE [vm EXCEPT !.status = "wild"]
      /\ Switch(framewakeup(vm, sys), tlb)
      /\ prpd' = prpd
  BY KillWakeStep DEF OInv, KillWake, proc
<1>2. /\ me \in User /\ me \in Pid /\ pc[me].arg = me /\ pc \in [Pid -> Place]
      /\ VmOK(vm) /\ vm.status = "up"
  BY <1>1, RunsFacts, KillerFacts DEF OInv, Selves, PInv, FlowType
<1>3. /\ vm' = vm /\ Waiters' /\ NoLostWakeup'
      /\ \A p \in Pid : (sys'.prstate[p] = "FREE") <=> (sys.prstate[p] = "FREE")
  BY <1>1, <1>2, WakeO
<1>4. /\ \A q \in Pid \ {me} : pc'[q] = pc[q]
      /\ pc'[me].at = "kill_woken" /\ pc'[me].arg = me
  BY <1>1, <1>2, PlaceFacts
<1>5. \A p \in Pid : Using(p)' <=> Using(p)
  BY <1>1, <1>2, <1>3, <1>4 DEF Using, Live
<1>6. RegionD(vm)'
  BY <1>1, <1>2, <1>3, <1>5, RegionDSame DEF OInv
<1>7. Selves' /\ Short'
  BY <1>2, <1>3, <1>4 DEF OInv, Selves, Short
<1> QED
  BY <1>1, <1>3, <1>5, <1>6, <1>7 DEF OInv, SameUsers

\* The end of kill: by then the dead process holds no frame of D.
LEMMA KillFinishO ==
  ASSUME OInv, KillFinish
  PROVE  OInv' /\ SameUsers
<1>1. /\ PInv' /\ Runs /\ me \in User /\ pc[me].at = "kill_woken" /\ Running(sys')
      /\ sys'.prstate[pc[me].arg] = "FREE"
      /\ \A q \in Pid \ {pc[me].arg} :
           sys'.prstate[q] = sys.prstate[q]
           \/ (sys'.prstate[q] \in Runnable /\ sys.prstate[q] \in Runnable)
  BY KillFinishStep, KillFinishFacts DEF OInv
<1>2. /\ me \in Pid /\ pc[me].arg = me /\ sys.prstate[me] = "CURR" /\ Running(sys)
      /\ vm.status = "up" /\ pc \in [Pid -> Place] /\ sys \in SysType /\ me = sys.currpid
      /\ prpd \in [Pid -> DFrame \cup {SYSERR}] /\ VmOK(vm)
  BY <1>1, RunsFacts DEF OInv, Selves, PInv, FlowType, ProcType
<1>3. /\ vm' = vm /\ prpd' = [prpd EXCEPT ![me] = SYSERR]
      /\ pc' = [pc EXCEPT ![me] = InUser, ![me] = InUser]
  BY <1>2 DEF KillFinish
<1>4. /\ \A q \in Pid \ {me} : pc'[q] = pc[q] /\ prpd'[q] = prpd[q]
      /\ pc'[me].at = "user"
  BY <1>2, <1>3, PlaceFacts
<1>0. PICK c \in User : c = me
  BY <1>1
<1>5. /\ ~ Using(c) /\ ~ Using(c)' /\ \A q \in Pid : q # c => (Using(q)' <=> Using(q))
  BY <1>0, <1>1, <1>2, <1>4 DEF Using, Live, Runnable
<1>6. Selves' /\ Short'
  BY <1>2, <1>3, <1>4 DEF OInv, Selves, Short
<1>7. sys'.fbqueue = sys.fbqueue
  BY KillFinishQueue DEF OInv
<1>8. Waiters'
  <2>1. \A p \in User : (sys.prstate[p] = "FRAME") <=> (sys'.prstate[p] = "FRAME")
    BY <1>1, <1>2, NullProc DEF Runnable
  <2> QED
    BY <1>2, <1>7, <2>1, WaitersSame DEF OInv
<1>9. NoLostWakeup'
  <2>1. bothfull(vm) => bothfull(vm')
    BY <1>3
  <2>2. \A p \in User : sys'.prstate[p] = "FRAME" => sys.prstate[p] = "FRAME"
    BY <1>1, <1>2, NullProc DEF Runnable
  <2>3. \A q \in User : pc[q].at = "kill_sent" /\ sys.prstate[q] \in {"CURR", "READY"} =>
                          pc'[q].at = "kill_sent" /\ sys'.prstate[q] \in {"CURR", "READY"}
    BY <1>1, <1>2, <1>4, NullProc DEF Runnable
  <2> QED
    BY <1>2, <2>1, <2>2, <2>3, WakeupSame DEF OInv
<1>10. RegionD(vm)'
  <2>1. Dirs(vm)'
    <3> SUFFICES ASSUME NEW p \in User, Using(p)', prpd'[p] \in DFrame
                 PROVE  /\ Holds(vm', prpd'[p], p) /\ vm'.dmem[prpd'[p]].kind = "pd"
                        /\ vm'.dmem[prpd'[p]].heap # None =>
                             /\ Holds(vm', vm'.dmem[prpd'[p]].heap, p)
                             /\ vm'.dmem[vm'.dmem[prpd'[p]].heap].kind = "pt"
      BY DEF Dirs, Holds
    <3>1. p \in Pid \ {me} /\ Using(p) /\ prpd'[p] = prpd[p]
      BY <1>0, <1>4, <1>5, NullProc
    <3> QED
      BY <1>3, <3>1 DEF OInv, RegionD, Dirs
  <2>2. Owned(vm)'
    <3> SUFFICES ASSUME NEW d \in DFrame, NEW p, p = vm'.fm.pid[d],
                        vm'.fm.state[d] = "USED", p # NULLPROC
                 PROVE  /\ Using(p)' /\ prpd'[p] \in DFrame
                        /\ d = prpd'[p] \/ d = vm'.dmem[prpd'[p]].heap
      BY DEF Owned
    <3>1. p = vm.fm.pid[d] /\ vm.fm.state[d] = "USED" /\ p \in Pid
      BY <1>2, <1>3, InOrderFacts, FrameFacts DEF VmOK
    <3>2. /\ Using(p) /\ prpd[p] \in DFrame
          /\ d = prpd[p] \/ d = vm.dmem[prpd[p]].heap
      BY <3>1 DEF OInv, RegionD, Owned
    <3> QED
      BY <1>0, <1>3, <1>4, <1>5, <3>1, <3>2
  <2>3. Stacked(vm)'
    BY <1>3 DEF Stacked, OInv, RegionD
  <2> QED
    BY <2>1, <2>2, <2>3 DEF RegionD
<1>11. SameUsers
  BY <1>0, <1>5 DEF SameUsers
<1> QED
  BY <1>1, <1>6, <1>8, <1>9, <1>10, <1>11 DEF OInv

-----------------------------------------------------------------------------
(* The theorems about systems in which no process kills another one.        *)

\* init_paging establishes the stronger invariant.
LEMMA InitOInv == Init => OInv
<1> SUFFICES ASSUME Init PROVE OInv
  OBVIOUS
<1>1. PInv /\ Booted(vm)
  BY InitPInv, InitBooted
<1>2. /\ \A p \in Pid : pc[p] = InUser
      /\ \A p \in Pid : sys.prstate[p] = IF p = NULLPROC THEN "CURR" ELSE "FREE"
      /\ sys.fbqueue = << >>
  BY DEF Init
<1>3. Selves
  BY <1>2, PlaceFacts DEF Selves
<1>4. \A p \in User : ~ Using(p)
  BY <1>2, NullProc DEF Using, Live
<1>5. RegionD(vm)
  <2>1. Dirs(vm)
    BY <1>4 DEF Dirs
  <2>2. Owned(vm)
    BY <1>1, FrameFacts DEF Owned, Booted
  <2>3. Stacked(vm)
    BY <1>1, FrameFacts DEF Stacked, Booted, DFrame
  <2> QED
    BY <2>1, <2>2, <2>3 DEF RegionD
<1>6. Waiters
  <2>1. ToSet(sys.fbqueue) = {} /\ NoRepeats(sys.fbqueue)
    BY <1>2 DEF NoRepeats, ToSet
  <2> QED
    BY <1>2, <2>1, NullProc DEF Waiters
<1>7. Short
  BY <1>1 DEF Short, Booted
<1>8. NoLostWakeup
  BY <1>2, NullProc DEF NoLostWakeup
<1> QED
  BY <1>1, <1>3, <1>5, <1>6, <1>7, <1>8 DEF OInv

\* Every step keeps it if processes end by themselves.
LEMMA NextOInv ==
  ASSUME SelfKills
  PROVE  OInv /\ [Next]_vars => OInv'
<1> SUFFICES ASSUME OInv, [Next]_vars
             PROVE  OInv'
  OBVIOUS
<1>1. ASSUME NEW g \in Page, \/ \E x \in Val : Write(g, x)
                             \/ GetPage(g) \/ FreePage(g)
                             \/ FaultIgnored(g) \/ SegFault(g)
                             \/ FaultServed(g) \/ FaultBlocks(g)
      PROVE  OInv'
  BY <1>1, WriteO, GetPageO, FreePageO, SegFaultO, FaultServedO, FaultBlocksO
<1>2. ASSUME NEW pid \in User, Kill(pid) \/ Create(pid) \/ Resume(pid)
      PROVE  OInv'
  BY <1>2, KillO, CreateO, ResumeO
<1>3. ASSUME KillWake \/ KillFinish \/ FaultResumes \/ ReceiveWaits \/ ReceiveTakes \/ ClockTick
      PROVE  OInv'
  BY <1>3, KillWakeO, KillFinishO, FaultResumesO, ReceiveWaitsO, ReceiveTakesO, ClockTickO, SMTT(30)
<1>4. CASE UNCHANGED vars
  <2>1. PInv'
    BY <1>4, NextPInv DEF OInv
  <2> QED
    BY <1>4, <2>1 DEF vars, OInv, Selves, RegionD, Dirs, Owned, Stacked, Holds, Using, Live,
                      Waiters, Short, NoLostWakeup
<1> QED
  BY <1>1, <1>2, <1>3, <1>4 DEF Next

\* It holds if processes end by themselves.
LEMMA SpecOInv ==
  ASSUME SelfKills
  PROVE  Spec => []OInv
<1>1. OInv /\ [Next]_vars => OInv'
  BY NextOInv
<1> QED
  BY <1>1, InitOInv, PTL DEF Spec

\* A frame of D that is in use is the directory or the page table of a live
\* process, so that none leaks (kill.c:28-34, pagingmgmt.c:24-91), if processes
\* end by themselves.  A kill from outside lets its victim run on with its
\* frames given away: see the README.
THEOREM PagingDFrames == SelfKills => (Spec => []DFramesOwned)
<1>1. OInv => DFramesOwned
  BY DEF OInv, RegionD, Owned, DFramesOwned, Using
<1> SUFFICES ASSUME SelfKills PROVE Spec => []DFramesOwned
  OBVIOUS
<1>2. Spec => []OInv
  BY SpecOInv
<1> QED
  BY <1>1, <1>2, PTL

\* The handler panics only if live processes hold all frames of D
\* (pgfhandler.c:12-25), if processes end by themselves.
THEOREM PagingPanic == SelfKills => (Spec => []PanicMeansShort)
<1>1. OInv => PanicMeansShort
  <2> SUFFICES ASSUME OInv, vm.status = "panic", NEW d \in DFrame
               PROVE  vm.fm.state[d] = "USED" /\ Live(vm.fm.pid[d])
    BY DEF PanicMeansShort
  <2>1. vm.fm.free["D"] = << >> /\ VmOK(vm) /\ Running(sys)
    BY DEF OInv, Short, PInv, SysOK
  <2>2. d \notin ToSet(vm.fm.free["D"])
    BY <2>1 DEF ToSet
  <2>3. vm.fm.state[d] = "USED" /\ vm.fm.pid[d] \in Pid
    BY <2>1, <2>2, InOrderFacts, FrameFacts DEF OInv, RegionD, Stacked, VmOK
  <2>4. Live(NULLPROC)
    BY <2>1 DEF Running, Sched, Runnable, Live
  <2> QED
    BY <2>3, <2>4 DEF OInv, RegionD, Owned, Using
<1> SUFFICES ASSUME SelfKills PROVE Spec => []PanicMeansShort
  OBVIOUS
<1>2. Spec => []OInv
  BY SpecOInv
<1> QED
  BY <1>1, <1>2, PTL

\* A process waits for a frame only as long as there is none, or until the kill
\* that frees some gets the processor again (frameblock.c:42-79, kill.c:28-47),
\* if processes end by themselves.
THEOREM PagingWakeups == SelfKills => (Spec => []NoLostWakeup)
<1>1. OInv => NoLostWakeup
  BY DEF OInv
<1> SUFFICES ASSUME SelfKills PROVE Spec => []NoLostWakeup
  OBVIOUS
<1>2. Spec => []OInv
  BY SpecOInv
<1> QED
  BY <1>1, <1>2, PTL

-----------------------------------------------------------------------------
(* The queue of frameblock, for every workload.  Each entry belongs to a     *)
(* creation: a process that is blocked has an entry and is not awake, and a  *)
(* stale entry is that of a process which died blocked.                      *)

Wakeful(x) == x \notin {"FREE", "FRAME"}

Awake == {p \in User : Wakeful(sys.prstate[p])}

\* No more entries and processes awake than processes were created.
EntriesPaid == Len(sys.fbqueue) + Cardinality(Awake) <= ncreate

NoneForgotten == \A p \in User : sys.prstate[p] = "FRAME" => p \in ToSet(sys.fbqueue)

BInv == PInv /\ EntriesPaid /\ (ncreate <= NPROC => NoneForgotten)

\* Some of the user processes are finitely many.
LEMMA SomeUsers ==
  ASSUME NEW S \in SUBSET User
  PROVE  IsFiniteSet(S) /\ Cardinality(S) \in Nat
BY FewUsers, FS_Subset, FS_CardinalityType

\* The types of what EntriesPaid adds up.
LEMMA CountTypes ==
  ASSUME PInv
  PROVE  /\ sys.fbqueue \in Seq(User) /\ Len(sys.fbqueue) \in Nat /\ ncreate \in Nat
         /\ Awake \in SUBSET User /\ IsFiniteSet(Awake) /\ Cardinality(Awake) \in Nat
         /\ ToSet(sys.fbqueue) \in SUBSET User
<1>1. sys.fbqueue \in Seq(User)
  BY SysFacts DEF PInv, SysOK
<1>2. Len(sys.fbqueue) \in Nat /\ ToSet(sys.fbqueue) \in SUBSET User
  BY <1>1 DEF ToSet
<1>3. Awake \in SUBSET User
  BY DEF Awake
<1>4. IsFiniteSet(Awake) /\ Cardinality(Awake) \in Nat
  BY <1>3, SomeUsers
<1>5. ncreate \in Nat
  BY PagingAssumption DEF PInv, ProcType
<1> QED
  BY <1>1, <1>2, <1>3, <1>4, <1>5

\* A step that leaves the queue alone, blocks nobody and brings nobody back.
LEMMA QuietB ==
  ASSUME BInv, PInv', sys'.fbqueue = sys.fbqueue, ncreate' = ncreate,
         \A p \in User : \/ sys'.prstate[p] = sys.prstate[p] \/ sys'.prstate[p] = "FREE"
                         \/ Wakeful(sys'.prstate[p]) /\ Wakeful(sys.prstate[p])
  PROVE  BInv'
<1>1. Awake' \in SUBSET Awake
  BY DEF Awake, Wakeful
<1>2. Cardinality(Awake') \in Nat /\ Cardinality(Awake') <= Cardinality(Awake)
  BY <1>1, CountTypes, FS_Subset, FS_CardinalityType DEF BInv
<1>3. EntriesPaid'
  BY <1>2, CountTypes DEF BInv, EntriesPaid
<1>4. NoneForgotten => NoneForgotten'
  BY DEF NoneForgotten, Wakeful
<1> QED
  BY <1>3, <1>4 DEF BInv

\* A step that leaves the scheduler's tables alone.
LEMMA SameB ==
  ASSUME BInv, PInv', sys' = sys, ncreate' = ncreate
  PROVE  BInv'
BY QuietB

\* framewakeup keeps the count: it takes out as many entries as it wakes, or
\* more.
LEMMA WakeB ==
  ASSUME BInv, PInv', Runs, NEW w, NEW kept, Switch(framewakeup(w, sys), kept),
         ncreate' = ncreate
  PROVE  BInv'
<1> DEFINE s == framewakeup(w, sys)
           woke == ~ bothfull(w) /\ sys.fbqueue # << >>
<1>1. sys' = s /\ Running(sys)
  BY RunsFacts DEF Switch, BInv
<1>2. /\ s.fbqueue = IF woke THEN << >> ELSE sys.fbqueue
      /\ \A q \in Pid :
           IF woke /\ q \in ToSet(sys.fbqueue) THEN s.prstate[q] \in Runnable
           ELSE s.prstate[q] = sys.prstate[q]
                \/ (s.prstate[q] \in Runnable /\ sys.prstate[q] \in Runnable)
  BY <1>1, framewakeupSched
<1> HIDE DEF s, woke
<1>3. CASE ~ woke
  <2>1. \A p \in User : \/ sys'.prstate[p] = sys.prstate[p]
                        \/ Wakeful(sys'.prstate[p]) /\ Wakeful(sys.prstate[p])
    BY <1>1, <1>2, <1>3, NullProc DEF Runnable, Wakeful
  <2> QED
    BY <1>1, <1>2, <1>3, <2>1, QuietB
<1>4. CASE woke
  <2>1. sys'.fbqueue = << >>
    BY <1>1, <1>2, <1>4
  <2>2. \A p \in User : IF p \in ToSet(sys.fbqueue) THEN Wakeful(sys'.prstate[p])
                        ELSE \/ sys'.prstate[p] = sys.prstate[p]
                             \/ Wakeful(sys'.prstate[p]) /\ Wakeful(sys.prstate[p])
    BY <1>1, <1>2, <1>4, NullProc DEF Runnable, Wakeful
  <2>3. EntriesPaid'
    <3>1. Awake' \in SUBSET (Awake \cup ToSet(sys.fbqueue))
      BY <2>2 DEF Awake, Wakeful
    <3>2. IsFiniteSet(ToSet(sys.fbqueue)) /\ Cardinality(ToSet(sys.fbqueue)) <= Len(sys.fbqueue)
      BY CountTypes, FewMembers DEF BInv
    <3>3. Cardinality(Awake') \in Nat
      <4>1. Awake' \in SUBSET User
        BY DEF Awake
      <4> QED
        BY <4>1, SomeUsers
    <3> DEFINE A == Awake
               B == ToSet(sys.fbqueue)
               C == Awake'
    <3>4. /\ IsFiniteSet(A) /\ IsFiniteSet(B) /\ C \in SUBSET (A \cup B)
          /\ Cardinality(A) \in Nat
      BY <3>1, <3>2, CountTypes DEF BInv
    <3> HIDE DEF A, B, C
    <3>5. Cardinality(B) \in Nat /\ IsFiniteSet(A \cap B) /\ Cardinality(A \cap B) \in Nat
      BY <3>4, FS_CardinalityType, FS_Intersection
    <3>6. /\ IsFiniteSet(A \cup B)
          /\ Cardinality(A \cup B) = Cardinality(A) + Cardinality(B) - Cardinality(A \cap B)
      BY <3>4, FS_Union
    <3>7. Cardinality(C) <= Cardinality(A \cup B)
      BY <3>4, <3>6, FS_Subset
    <3>8. Cardinality(C) <= Cardinality(A) + Cardinality(B)
      BY <3>3, <3>4, <3>5, <3>6, <3>7 DEF C
    <3>9. Len(sys'.fbqueue) = 0
      BY <2>1
    <3> QED
      BY <1>1, <3>2, <3>3, <3>4, <3>5, <3>8, <3>9, CountTypes DEF BInv, EntriesPaid, A, B, C
  <2>4. NoneForgotten => NoneForgotten'
    BY <2>2 DEF NoneForgotten, Wakeful
  <2> QED
    BY <2>3, <2>4 DEF BInv
<1> QED
  BY <1>3, <1>4

\* frameblock keeps the count, and as long as fewer processes were created than
\* the ring has slots it has room.
LEMMA BlockB ==
  ASSUME BInv, PInv', Runs, me \in User, Switch(frameblock(sys), tlb), ncreate' = ncreate
  PROVE  BInv'
<1> DEFINE q == sys.fbqueue
<1>0. PICK c \in User : c = me
  OBVIOUS
<1>1. /\ sys'.fbqueue = insert_fbqueue(q, c) /\ sys'.prstate[c] = "FRAME"
      /\ \A p \in User \ {c} : \/ sys'.prstate[p] = sys.prstate[p]
                               \/ Wakeful(sys'.prstate[p]) /\ Wakeful(sys.prstate[p])
  BY <1>0, BlockStep, NullProc DEF BInv, Runnable, Wakeful
<1>2. c \in Awake
  BY <1>0, RunsFacts DEF BInv, Awake, Wakeful
<1>3. Awake' \in SUBSET (Awake \ {c})
  BY <1>1 DEF Awake, Wakeful
<1>4. Cardinality(Awake') \in Nat /\ Cardinality(Awake') <= Cardinality(Awake) - 1
  <2>1. /\ IsFiniteSet(Awake \ {c})
        /\ Cardinality(Awake \ {c}) = Cardinality(Awake) - 1
    BY <1>2, CountTypes, FS_RemoveElement DEF BInv
  <2>2. Cardinality(Awake') <= Cardinality(Awake \ {c})
    BY <1>3, <2>1, FS_Subset
  <2>3. Cardinality(Awake') \in Nat
    <3>1. Awake' \in SUBSET User
      BY DEF Awake
    <3> QED
      BY <3>1, SomeUsers
  <2>4. Cardinality(Awake) \in Nat
    BY CountTypes DEF BInv
  <2> QED
    BY <2>1, <2>2, <2>3, <2>4
<1>5. /\ q \in Seq(User) /\ Len(q) \in Nat /\ ncreate \in Nat /\ Cardinality(Awake) \in Nat
      /\ Len(q) + Cardinality(Awake) <= ncreate /\ ToSet(q) \in SUBSET User
  BY CountTypes DEF BInv, EntriesPaid
<1>6. NoneForgotten' = (\A p \in User : sys'.prstate[p] = "FRAME" => p \in ToSet(sys'.fbqueue))
  BY DEF NoneForgotten
<1>7. NPROC \in Nat \ {0}
  BY FewUsers
<1> HIDE DEF q
<1>8. CASE Len(q) = NPROC
  <2>1. insert_fbqueue(q, c) = <<c>>
    BY <1>8 DEF insert_fbqueue
  <2>2. Len(sys'.fbqueue) = 1
    BY <1>1, <2>1
  <2>3. EntriesPaid'
    BY <1>4, <1>5, <1>7, <1>8, <2>2 DEF EntriesPaid
  <2>4. ~ (ncreate <= NPROC)
    BY <1>4, <1>5, <1>7, <1>8
  <2> QED
    BY <2>3, <2>4 DEF BInv
<1>9. CASE Len(q) # NPROC
  <2>1. sys'.fbqueue = Append(q, c)
    BY <1>1, <1>9 DEF insert_fbqueue
  <2>2. Len(sys'.fbqueue) = Len(q) + 1
    BY <1>5, <2>1
  <2>3. EntriesPaid'
    BY <1>4, <1>5, <2>2 DEF EntriesPaid
  <2>4. ToSet(sys'.fbqueue) = ToSet(q) \cup {c}
    <3>1. /\ Append(q, c) \in Seq(User) /\ Members(Append(q, c)) = Members(q) \cup {c}
      BY <1>5, AppendMembers
    <3> QED
      BY <1>5, <2>1, <3>1, ToSetMembers
  <2>5. NoneForgotten => NoneForgotten'
    BY <1>1, <1>6, <2>4 DEF NoneForgotten, Wakeful, q
  <2> QED
    BY <2>3, <2>5 DEF BInv
<1> QED
  BY <1>8, <1>9

\* create.c:13-105 counts the process it makes.
LEMMA CreateB ==
  ASSUME BInv, PInv', NEW pid \in User, Create(pid)
  PROVE  BInv'
<1>1. /\ sys.prstate[pid] = "FREE" /\ sys'.prstate = [sys.prstate EXCEPT ![pid] = "SUSP"]
      /\ sys.prstate \in [Pid -> ProcState] /\ pid \in Pid /\ User \subseteq Pid
  BY CreateFacts, RunsFacts, SysFacts, NullProc DEF BInv
<1>2. sys'.fbqueue = sys.fbqueue /\ ncreate' = ncreate + 1
  BY SysFacts DEF Create, BInv, PInv, SysOK, SysType
<1>3. Awake' \in SUBSET (Awake \cup {pid})
  BY <1>1 DEF Awake, Wakeful
<1>4. Cardinality(Awake') \in Nat /\ Cardinality(Awake') <= Cardinality(Awake) + 1
  <2>1. IsFiniteSet(Awake) /\ Cardinality(Awake) \in Nat
    BY CountTypes DEF BInv
  <2> DEFINE A == Awake
             B == Awake'
  <2>2. IsFiniteSet(A) /\ Cardinality(A) \in Nat /\ B \in SUBSET (A \cup {pid})
    BY <1>3, <2>1
  <2> HIDE DEF A, B
  <2>3. /\ IsFiniteSet(A \cup {pid})
        /\ Cardinality(A \cup {pid}) = IF pid \in A THEN Cardinality(A) ELSE Cardinality(A) + 1
    BY <2>2, FS_AddElement
  <2>4. IsFiniteSet(B) /\ Cardinality(B) <= Cardinality(A \cup {pid})
    BY <2>2, <2>3, FS_Subset
  <2>5. Cardinality(B) \in Nat
    BY <2>4, FS_CardinalityType
  <2>6. Cardinality(B) <= Cardinality(A) + 1
    BY <2>2, <2>3, <2>4, <2>5
  <2> QED
    BY <2>5, <2>6 DEF A, B
<1>5. EntriesPaid'
  BY <1>2, <1>4, CountTypes DEF BInv, EntriesPaid
<1>6. NoneForgotten => NoneForgotten'
  BY <1>1, <1>2 DEF NoneForgotten
<1>7. ncreate' <= NPROC => ncreate <= NPROC
  BY <1>2, CountTypes, FewUsers DEF BInv
<1> QED
  BY <1>5, <1>6, <1>7 DEF BInv

\* resume, receive and the clock leave the queue as it is.
LEMMA ReschedB ==
  ASSUME BInv, PInv', ClockTick \/ ReceiveWaits \/ \E pid \in User : Resume(pid)
  PROVE  BInv'
<1>1. Runs /\ ncreate' = ncreate
  BY DEF ClockTick, ReceiveWaits, Resume, Calling, proc
<1>2. /\ Sched(sys) /\ sys.prstate[me] = "CURR" /\ sys.prstate \in [Pid -> ProcState]
      /\ me \in Pid
  BY <1>1, RunsFacts, SysFacts DEF BInv
<1>3. ASSUME NEW s, Sched(s), s.fbqueue = sys.fbqueue, sys' = resched(s),
             \A p \in User : \/ s.prstate[p] = sys.prstate[p]
                             \/ Wakeful(s.prstate[p]) /\ Wakeful(sys.prstate[p])
      PROVE  BInv'
  <2>1. sys'.fbqueue = sys.fbqueue /\ SameBut(s, sys')
    BY <1>3, reschedSched
  <2>2. \A p \in User : \/ sys'.prstate[p] = sys.prstate[p]
                        \/ Wakeful(sys'.prstate[p]) /\ Wakeful(sys.prstate[p])
    BY <1>3, <2>1, NullProc DEF SameBut, Runnable, Wakeful
  <2> QED
    BY <1>1, <2>1, <2>2, QuietB
<1>4. CASE ClockTick
  BY <1>2, <1>3, <1>4 DEF ClockTick, Switch
<1>5. CASE ReceiveWaits
  <2>1. Calling("receive") /\ me # NULLPROC /\ "RECV" \in ProcState \ Runnable
    BY <1>5, CallerFacts DEF ReceiveWaits, ProcState, Runnable
  <2>2. PICK c \in User : c = me
    BY <1>2, <2>1 DEF User
  <2> DEFINE s == [sys EXCEPT !.prstate[c] = "RECV"]
  <2>3. /\ Sched(s) /\ s.prstate = [sys.prstate EXCEPT ![c] = "RECV"]
        /\ s.fbqueue = sys.fbqueue
    BY <1>2, <2>1, <2>2, StateSched
  <2>4. sys' = resched(s)
    BY <1>5, <2>2 DEF ReceiveWaits, Switch
  <2> HIDE DEF s
  <2>5. \A p \in User : \/ s.prstate[p] = sys.prstate[p]
                        \/ Wakeful(s.prstate[p]) /\ Wakeful(sys.prstate[p])
    BY <1>2, <2>2, <2>3, NullProc DEF Wakeful
  <2> QED
    BY <1>3, <2>3, <2>4, <2>5
<1>6. ASSUME NEW pid \in User, Resume(pid)
      PROVE  BInv'
  <2> DEFINE s == Ready(sys, pid)
  <2>1. sys.prstate[pid] = "SUSP" /\ sys' = resched(s) /\ pid \in Pid
    BY <1>6, NullProc DEF Resume, Switch
  <2>2. /\ Sched(s) /\ s.prstate = [sys.prstate EXCEPT ![pid] = "READY"]
        /\ s.fbqueue = sys.fbqueue
    BY <1>2, <2>1, ReadySched
  <2> HIDE DEF s
  <2>3. \A p \in User : \/ s.prstate[p] = sys.prstate[p]
                        \/ Wakeful(s.prstate[p]) /\ Wakeful(sys.prstate[p])
    BY <1>2, <2>1, <2>2, NullProc DEF Wakeful
  <2> QED
    BY <1>3, <2>1, <2>2, <2>3
<1> QED
  BY <1>4, <1>5, <1>6

\* kill (kill.c:9-69): who dies blocked leaves an entry behind.
LEMMA KillB ==
  ASSUME BInv, PInv',
         \/ \E pid \in User : Kill(pid)
         \/ \E g \in Page : SegFault(g)
         \/ KillFinish
  PROVE  BInv'
<1>1. ASSUME NEW pid \in User, KillBegin(pid), Runs, me \in User
      PROVE  BInv'
  <2>1. ncreate' = ncreate /\ sys'.fbqueue = sys.fbqueue
    BY <1>1, KillBeginFacts, KillBeginQueue DEF BInv
  <2>2. \A q \in Pid : \/ sys'.prstate[q] = sys.prstate[q]
                       \/ sys.prstate[q] = "RECV" /\ sys'.prstate[q] \in Runnable
                       \/ sys'.prstate[q] \in Runnable /\ sys.prstate[q] \in Runnable
    BY <1>1, KillBeginFacts DEF BInv
  <2>3. \A p \in User : \/ sys'.prstate[p] = sys.prstate[p]
                        \/ Wakeful(sys'.prstate[p]) /\ Wakeful(sys.prstate[p])
    BY <2>2, NullProc DEF Runnable, Wakeful
  <2> QED
    BY <2>1, <2>3, QuietB
<1>2. ASSUME NEW pid \in User, Kill(pid)
      PROVE  BInv'
  <2>1. KillBegin(pid) /\ Runs /\ me \in User
    <3>1. KillBegin(pid) /\ (Calling("kill") \/ Calling("exit"))
      BY <1>2 DEF Kill
    <3>2. Runs /\ me # NULLPROC
      BY <3>1, CallerFacts DEF Calling
    <3> QED
      BY <3>1, <3>2, RunsFacts DEF User, BInv
  <2> QED
    BY <1>1, <2>1
<1>3. ASSUME NEW g \in Page, SegFault(g)
      PROVE  BInv'
  <2>1. KillBegin(me) /\ Runs /\ me \in User
    BY <1>3, ProgramFacts DEF SegFault, Faults, BInv
  <2>2. PICK c \in User : c = me
    BY <2>1
  <2> QED
    BY <1>1, <2>1, <2>2
<1>4. CASE KillFinish
  <2>1. PICK c \in User : c = pc[me].arg
    BY <1>4, KillFinishFacts DEF BInv
  <2>2. /\ sys'.fbqueue = sys.fbqueue /\ sys'.prstate[c] = "FREE"
        /\ \A q \in Pid \ {c} :
             sys'.prstate[q] = sys.prstate[q]
             \/ (sys'.prstate[q] \in Runnable /\ sys.prstate[q] \in Runnable)
    BY <1>4, <2>1, KillFinishFacts, KillFinishQueue DEF BInv
  <2>3. \A p \in User : \/ sys'.prstate[p] = sys.prstate[p] \/ sys'.prstate[p] = "FREE"
                        \/ Wakeful(sys'.prstate[p]) /\ Wakeful(sys.prstate[p])
    BY <2>2, NullProc DEF Runnable, Wakeful
  <2>4. ncreate' = ncreate
    BY <1>4 DEF KillFinish
  <2> QED
    BY <2>2, <2>3, <2>4, QuietB
<1> QED
  BY <1>2, <1>3, <1>4

\* Every step keeps the count.
LEMMA NextBInv == BInv /\ [Next]_vars => BInv'
<1> SUFFICES ASSUME BInv, [Next]_vars
             PROVE  BInv'
  OBVIOUS
<1>0. PInv'
  BY NextPInv DEF BInv
<1>1. ASSUME NEW g \in Page,
             \/ \E x \in Val : Write(g, x)
             \/ GetPage(g) \/ FaultIgnored(g) \/ FaultServed(g)
      PROVE  BInv'
  <2>1. sys' = sys /\ ncreate' = ncreate
    BY <1>1 DEF Write, GetPage, FaultIgnored, FaultServed, proc
  <2> QED
    BY <1>0, <2>1, SameB
<1>2. ASSUME NEW g \in Page, FreePage(g)
      PROVE  BInv'
  <2> DEFINE w == set_pages_deallocated(vm, mypd, g)
             kept == IF getpte(vm, mypd, g).st = "absent" THEN tlb ELSE invlpg(tlb, g)
  <2>1. Runs /\ Switch(framewakeup(w, sys), kept) /\ ncreate' = ncreate
    BY <1>2, ProgramFacts DEF FreePage, BInv
  <2> HIDE DEF w, kept
  <2> QED
    BY <1>0, <2>1, WakeB
<1>3. ASSUME NEW g \in Page, FaultBlocks(g)
      PROVE  BInv'
  <2>1. Program /\ Switch(frameblock(sys), tlb) /\ ncreate' = ncreate
    BY <1>3 DEF FaultBlocks, Faults, proc
  <2> QED
    BY <1>0, <2>1, ProgramFacts, BlockB DEF BInv
<1>4. CASE FaultResumes
  <2>1. /\ Runs /\ pc[me].at = "fblock" /\ ncreate' = ncreate
        /\ Switch(frameblock(sys), tlb) \/ sys' = sys
    BY <1>4 DEF FaultResumes, proc
  <2>2. me \in User
    BY <2>1, RunsFacts, PlaceFacts DEF BInv, PInv, FlowType, User
  <2> QED
    BY <1>0, <2>1, <2>2, BlockB, SameB
<1>5. CASE KillWake
  <2>1. Runs /\ Switch(framewakeup(vm, sys), tlb) /\ ncreate' = ncreate
    BY <1>5 DEF KillWake, proc
  <2> QED
    BY <1>0, <2>1, WakeB
<1>6. ASSUME NEW pid \in User, Create(pid)
      PROVE  BInv'
  BY <1>0, <1>6, CreateB
<1>7. CASE ReceiveTakes
  BY <1>0, <1>7, SameB DEF ReceiveTakes
<1>8. CASE UNCHANGED vars
  BY <1>0, <1>8, SameB DEF vars, proc
<1> QED
  BY <1>0, <1>1, <1>2, <1>3, <1>4, <1>5, <1>6, <1>7, <1>8, KillB, ReschedB DEF Next

\* Nobody is blocked, and nobody awake, when init_paging is done.
LEMMA InitBInv == Init => BInv
<1> SUFFICES ASSUME Init PROVE BInv
  OBVIOUS
<1>1. /\ PInv /\ ncreate = 0 /\ sys.fbqueue = << >>
      /\ \A p \in Pid : sys.prstate[p] = IF p = NULLPROC THEN "CURR" ELSE "FREE"
  BY InitPInv DEF Init
<1>2. Awake = {} /\ NoneForgotten
  BY <1>1, NullProc DEF Awake, Wakeful, NoneForgotten
<1>3. Cardinality({}) = 0
  BY FS_EmptySet
<1>4. EntriesPaid
  BY <1>1, <1>2, <1>3 DEF EntriesPaid
<1> QED
  BY <1>1, <1>2, <1>4 DEF BInv

\* The count holds.
LEMMA SpecBInv == Spec => []BInv
BY InitBInv, NextBInv, PTL DEF Spec

\* A process that is blocked for a frame is in the queue of frameblock, whatever
\* the processes do, until kills by others have left stale entries and more
\* processes were created than the ring has slots (frameblock.c:11-21, 42-58);
\* and for ever if processes end by themselves, as each is in the ring at most
\* once then.
THEOREM PagingBlocked == Spec => []BlockedQueued
<1>1. PInv => \A p : Contains(sys.fbqueue, p) <=> p \in ToSet(sys.fbqueue)
  BY DEF Contains, ToSet
<1>2. BInv => (ncreate <= NPROC => BlockedQueued)
  BY <1>1 DEF BInv, NoneForgotten, BlockedQueued
<1>3. CASE SelfKills
  <2>1. OInv => BlockedQueued
    BY <1>1 DEF OInv, Waiters, BlockedQueued
  <2>2. Spec => []OInv
    BY <1>3, SpecOInv
  <2> QED
    BY <2>1, <2>2, PTL
<1>4. CASE ~ SelfKills
  <2>1. BInv => BlockedQueued
    BY <1>2, <1>4 DEF BlockedQueued, Roomy
  <2> QED
    BY <2>1, SpecBInv, PTL
<1> QED
  BY <1>3, <1>4

=============================================================================
