---------------------------- MODULE KernelProofs ----------------------------
(***************************************************************************)
(* The queues, counts, messages and priorities of the process manager are   *)
(* right for every number of processes and semaphores and every workload.   *)
(* First the lemmas: what the operators of Kernel do to the tables, the     *)
(* lists of processes, the scheduler, and the calls that move one process;  *)
(* then the steps and the theorems.                                         *)
(***************************************************************************)
EXTENDS Kernel, ListLemmas


-----------------------------------------------------------------------------
(* Lists of processes.                                                      *)

Names(list) == [i \in 1 .. Len(list) |-> list[i].pid]
Pids(list) == Members(Names(list))
Distinct(list) == NoRepeats(Names(list))
Descending(list) == \A i, j \in 1 .. Len(list) : i < j => list[i].key >= list[j].key

\* An entry has the process and the key that it was made of.
LEMMA EntryShape ==
  ASSUME NEW p \in Pid, NEW key \in Int
  PROVE  Entry(p, key) \in Entries /\ Entry(p, key).pid = p /\ Entry(p, key).key = key
BY DEF Entry, Entries

\* The entries of a list have a process and a key.
LEMMA EntriesShape ==
  ASSUME NEW list \in Seq(Entries), NEW i \in 1 .. Len(list)
  PROVE  list[i] \in Entries /\ list[i].pid \in Pid /\ list[i].key \in Int
<1>1. list[i] \in Entries
  OBVIOUS
<1> QED
  BY <1>1 DEF Entries

\* Where insert puts an entry in a descending list.
LEMMA InsertPlace ==
  ASSUME NEW list \in Seq(Entries), Descending(list), NEW key \in Int
  PROVE  LET n == Cardinality({i \in 1 .. Len(list) : list[i].key >= key}) IN
         /\ n \in 0 .. Len(list)
         /\ \A i \in 1 .. n : list[i].key >= key
         /\ \A i \in n + 1 .. Len(list) : list[i].key < key
<1> DEFINE P == {i \in 1 .. Len(list) : list[i].key >= key}
<1>1. \A i \in P : \A j \in 1 .. i : j \in P
  <2> SUFFICES ASSUME NEW i \in P, NEW j \in 1 .. i
               PROVE  j \in P
    OBVIOUS
  <2>1. list[i].key \in Int /\ list[j].key \in Int /\ list[j].key >= list[i].key
    BY EntriesShape DEF Descending
  <2> QED
    BY <2>1
<1>2. P \in SUBSET (1 .. Len(list)) /\ Len(list) \in Nat
  OBVIOUS
<1>3. \A i \in 1 .. Len(list) : list[i].key \in Int
  BY EntriesShape
<1>4. \A i \in 1 .. Len(list) : i \in P <=> list[i].key >= key
  OBVIOUS
<1> HIDE DEF P
<1>5. Cardinality(P) \in 0 .. Len(list) /\ P = 1 .. Cardinality(P)
  BY <1>1, <1>2, FirstPlaces
<1>6. /\ \A i \in 1 .. Cardinality(P) : list[i].key >= key
      /\ \A i \in Cardinality(P) + 1 .. Len(list) : list[i].key < key
  BY <1>2, <1>3, <1>4, <1>5
<1> QED
  BY <1>5, <1>6 DEF P

\* The processes of a list, place by place.
LEMMA NamesShape ==
  ASSUME NEW list \in Seq(Entries)
  PROVE  /\ Names(list) \in Seq(Pid) /\ Len(Names(list)) = Len(list)
         /\ \A i \in 1 .. Len(list) : Names(list)[i] = list[i].pid
         /\ Pids(list) = {list[i].pid : i \in 1 .. Len(list)}
         /\ Pids(list) \subseteq Pid
         /\ Distinct(list) <=> \A i, j \in 1 .. Len(list) : list[i].pid = list[j].pid => i = j
<1>1. \A i \in 1 .. Len(list) : list[i].pid \in Pid
  BY EntriesShape
<1>2. Names(list) \in Seq(Pid) /\ Len(Names(list)) = Len(list)
  BY <1>1 DEF Names
<1>3. \A i \in 1 .. Len(list) : Names(list)[i] = list[i].pid
  BY DEF Names
<1>4. /\ Pids(list) = {list[i].pid : i \in 1 .. Len(list)}
      /\ Distinct(list) <=> \A i, j \in 1 .. Len(list) : list[i].pid = list[j].pid => i = j
  BY <1>2, <1>3 DEF Pids, Members, Distinct, NoRepeats
<1> QED
  BY <1>1, <1>2, <1>3, <1>4

\* t is the list with p inserted at i, whatever the keys have become.
LEMMA InsertPids ==
  ASSUME NEW list \in Seq(Entries), NEW i \in 1 .. Len(list) + 1, NEW p \in Pid,
         NEW t \in Seq(Entries), Len(t) = Len(list) + 1,
         \A j \in 1 .. Len(t) :
           t[j].pid = IF j < i THEN list[j].pid ELSE IF j = i THEN p ELSE list[j - 1].pid
  PROVE  /\ Pids(t) = Pids(list) \cup {p}
         /\ Distinct(list) /\ p \notin Pids(list) => Distinct(t)
<1> DEFINE a == Names(list)
           b == Names(t)
<1>1. /\ a \in Seq(Pid) /\ Len(a) = Len(list) /\ \A j \in 1 .. Len(list) : a[j] = list[j].pid
      /\ b \in Seq(Pid) /\ Len(b) = Len(t) /\ \A j \in 1 .. Len(t) : b[j] = t[j].pid
  BY NamesShape
<1> HIDE DEF a, b
<1>2. i \in 1 .. Len(a) + 1 /\ Len(b) = Len(a) + 1
  BY <1>1
<1>3. \A j \in 1 .. Len(b) : b[j] = IF j < i THEN a[j] ELSE IF j = i THEN p ELSE a[j - 1]
  <2> SUFFICES ASSUME NEW j \in 1 .. Len(b)
               PROVE  b[j] = IF j < i THEN a[j] ELSE IF j = i THEN p ELSE a[j - 1]
    OBVIOUS
  <2>1. b[j] = IF j < i THEN list[j].pid ELSE IF j = i THEN p ELSE list[j - 1].pid
    BY <1>1
  <2>2. CASE j < i
    BY <1>1, <2>1, <2>2
  <2>3. CASE j = i
    BY <2>1, <2>3
  <2>4. CASE j > i
    <3>1. j - 1 \in 1 .. Len(list)
      BY <1>1, <2>4
    <3> QED
      BY <1>1, <2>1, <2>4, <3>1, SMTT(30)
  <2> QED
    BY <2>2, <2>3, <2>4
<1>4. a \in Seq(Pid) /\ b \in Seq(Pid)
  BY <1>1
<1>5. Members(b) = Members(a) \cup {p} /\ (NoRepeats(a) /\ p \notin Members(a) => NoRepeats(b))
  BY <1>2, <1>3, <1>4, InsertMembers, ZenonT(30)
<1> QED
  BY <1>5 DEF Pids, Distinct, a, b

\* t is the list without its i-th process, whatever the keys have become.
LEMMA RemovePids ==
  ASSUME NEW list \in Seq(Entries), Distinct(list), NEW i \in 1 .. Len(list),
         NEW t \in Seq(Entries), Len(t) = Len(list) - 1,
         \A j \in 1 .. Len(t) :
           t[j].pid = IF j < i THEN list[j].pid ELSE list[j + 1].pid
  PROVE  Pids(t) = Pids(list) \ {list[i].pid} /\ Distinct(t)
<1> DEFINE a == Names(list)
           b == Names(t)
<1>1. /\ a \in Seq(Pid) /\ Len(a) = Len(list) /\ \A j \in 1 .. Len(list) : a[j] = list[j].pid
      /\ b \in Seq(Pid) /\ Len(b) = Len(t) /\ \A j \in 1 .. Len(t) : b[j] = t[j].pid
  BY NamesShape
<1>2. NoRepeats(a)
  BY DEF Distinct
<1> HIDE DEF a, b
<1>3. i \in 1 .. Len(a) /\ Len(b) = Len(a) - 1
  BY <1>1
<1>4. \A j \in 1 .. Len(b) : b[j] = IF j < i THEN a[j] ELSE a[j + 1]
  BY <1>1
<1>5. Members(b) = Members(a) \ {a[i]} /\ NoRepeats(b)
  BY <1>1, <1>2, <1>3, <1>4, RemoveMembers, SMTT(30)
<1> QED
  BY <1>1, <1>5 DEF Pids, Distinct, a, b

\* insert.c:9-36 on a list in descending order: one entry more, behind all
\* that have as high a key, and the list stays in order.
LEMMA InsertList ==
  ASSUME NEW list \in Seq(Entries), Descending(list), Distinct(list),
         NEW p \in Pid, p \notin Pids(list), NEW key \in Int
  PROVE  LET t == insert(list, p, key) IN
         /\ t \in Seq(Entries) /\ t # << >>
         /\ Pids(t) = Pids(list) \cup {p}
         /\ Distinct(t) /\ Descending(t)
         /\ \A i \in 1 .. Len(t) : t[i] = Entry(p, key) \/ \E j \in 1 .. Len(list) : t[i] = list[j]
<1> DEFINE n == Cardinality({i \in 1 .. Len(list) : list[i].key >= key})
           t == InsertAt(list, n + 1, Entry(p, key))
<1>1. t = insert(list, p, key)
  BY DEF insert
<1>2. /\ n \in 0 .. Len(list)
      /\ \A i \in 1 .. n : list[i].key >= key
      /\ \A i \in n + 1 .. Len(list) : list[i].key < key
  BY InsertPlace
<1> HIDE DEF n
<1>3. /\ t \in Seq(Entries) /\ Len(t) = Len(list) + 1
      /\ \A j \in 1 .. Len(t) :
           t[j] = IF j < n + 1 THEN list[j] ELSE IF j = n + 1 THEN Entry(p, key) ELSE list[j - 1]
  <2> DEFINE m == n + 1
  <2>1. m \in 1 .. Len(list) + 1
    BY <1>2
  <2> HIDE DEF m
  <2> DEFINE e == Entry(p, key)
  <2>2. e \in Entries
    BY EntryShape
  <2> HIDE DEF e
  <2>3. Inserted(InsertAt(list, m, e), Entries, list, m, e)
    BY <2>1, <2>2, InsertShape
  <2> QED
    BY <2>3 DEF e, m, Inserted
<1> HIDE DEF t
<1>4. \A i \in 1 .. Len(t) : t[i] = Entry(p, key) \/ \E j \in 1 .. Len(list) : t[i] = list[j]
  <2> SUFFICES ASSUME NEW i \in 1 .. Len(t), i # n + 1
               PROVE  \E j \in 1 .. Len(list) : t[i] = list[j]
    BY <1>2, <1>3
  <2>1. CASE i < n + 1
    BY <1>2, <1>3, <2>1
  <2>2. CASE i > n + 1
    <3>1. i - 1 \in 1 .. Len(list)
      BY <1>2, <1>3, <2>2
    <3> QED
      BY <1>2, <1>3, <2>2, <3>1
  <2> QED
    BY <1>2, <2>1, <2>2
<1>5. \A j \in 1 .. Len(t) :
        t[j].pid = IF j < n + 1 THEN list[j].pid ELSE IF j = n + 1 THEN p ELSE list[j - 1].pid
  BY <1>3, EntryShape
<1>6. Pids(t) = Pids(list) \cup {p} /\ Distinct(t)
  <2>1. n + 1 \in 1 .. Len(list) + 1
    BY <1>2
  <2> QED
    BY <1>3, <1>5, <2>1, InsertPids
<1>7. Descending(t)
  <2> SUFFICES ASSUME NEW i \in 1 .. Len(t), NEW j \in 1 .. Len(t), i < j
               PROVE  t[i].key >= t[j].key
    BY DEF Descending
  <2>1. CASE j < n + 1
    BY <1>2, <1>3, <2>1 DEF Descending
  <2>2. CASE i < n + 1 /\ j > n + 1
    <3>1. i \in 1 .. Len(list) /\ j - 1 \in 1 .. Len(list) /\ i < j - 1
      BY <1>2, <1>3, <2>2
    <3>2. list[i].key >= list[j - 1].key
      BY <3>1 DEF Descending
    <3> QED
      BY <1>2, <1>3, <2>2, <3>2
  <2>3. CASE i > n + 1
    <3>1. i - 1 \in 1 .. Len(list) /\ j - 1 \in 1 .. Len(list) /\ i - 1 < j - 1
      BY <1>2, <1>3, <2>3
    <3>2. list[i - 1].key >= list[j - 1].key
      BY <3>1 DEF Descending
    <3> QED
      BY <1>2, <1>3, <2>3, <3>2
  <2>4. CASE i = n + 1
    <3>1. j - 1 \in n + 1 .. Len(list) /\ t[j] = list[j - 1] /\ t[i] = Entry(p, key)
      BY <1>2, <1>3, <2>4
    <3>2. t[i].key = key
      BY <3>1, EntryShape
    <3>3. list[j - 1].key < key /\ list[j - 1].key \in Int
      BY <1>2, <3>1, EntriesShape
    <3> QED
      BY <3>1, <3>2, <3>3
  <2>5. CASE j = n + 1
    <3>1. i \in 1 .. n /\ t[i] = list[i] /\ t[j] = Entry(p, key)
      BY <1>2, <1>3, <2>5
    <3> QED
      BY <1>2, <3>1, EntryShape
  <2> QED
    BY <1>2, <2>1, <2>2, <2>3, <2>4, <2>5
<1> QED
  BY <1>1, <1>3, <1>4, <1>6, <1>7

\* The place of a process that is on the list.
LEMMA PlaceShape ==
  ASSUME NEW list \in Seq(Entries), NEW p \in Pids(list)
  PROVE  Place(list, p) \in 1 .. Len(list) /\ list[Place(list, p)].pid = p
BY NamesShape DEF Place

\* getitem.c:45-58: the entry leaves, the others keep their order.
LEMMA WithoutList ==
  ASSUME NEW list \in Seq(Entries), Distinct(list), NEW p \in Pids(list)
  PROVE  LET t == Without(list, p) IN
         /\ t \in Seq(Entries) /\ Pids(t) = Pids(list) \ {p} /\ Distinct(t)
         /\ Descending(list) => Descending(t)
         /\ \A i \in 1 .. Len(t) : \E j \in 1 .. Len(list) : j >= i /\ t[i] = list[j]
<1> DEFINE n == Place(list, p)
           t == RemoveAt(list, n)
<1>1. t = Without(list, p)
  BY DEF Without
<1>2. n \in 1 .. Len(list) /\ list[n].pid = p
  BY PlaceShape
<1> HIDE DEF n
<1>3. /\ t \in Seq(Entries) /\ Len(t) = Len(list) - 1
      /\ \A j \in 1 .. Len(t) : t[j] = IF j < n THEN list[j] ELSE list[j + 1]
  BY <1>2, RemoveShape, SMTT(30)
<1> HIDE DEF t
<1>4. Pids(t) = Pids(list) \ {p} /\ Distinct(t)
  <2>1. \A j \in 1 .. Len(t) : t[j].pid = IF j < n THEN list[j].pid ELSE list[j + 1].pid
    BY <1>3
  <2>2. t \in Seq(Entries) /\ Len(t) = Len(list) - 1
    BY <1>3
  <2> QED
    BY <1>2, <2>1, <2>2, RemovePids, SMTT(30)
<1>5. ASSUME NEW i \in 1 .. Len(t)
      PROVE  /\ i \in 1 .. Len(list) /\ i + 1 \in 1 .. Len(list)
             /\ t[i] = list[i] \/ t[i] = list[i + 1]
  BY <1>2, <1>3
<1>6. ASSUME Descending(list)
      PROVE  Descending(t)
  <2> SUFFICES ASSUME NEW i \in 1 .. Len(t), NEW j \in 1 .. Len(t), i < j
               PROVE  t[i].key >= t[j].key
    BY DEF Descending
  <2>1. CASE j < n
    BY <1>2, <1>3, <1>6, <2>1 DEF Descending
  <2>2. CASE j >= n /\ i < n
    <3>1. t[i] = list[i] /\ t[j] = list[j + 1]
      BY <1>2, <1>3, <2>2
    <3>2. i \in 1 .. Len(list) /\ j + 1 \in 1 .. Len(list) /\ i < j + 1
      BY <1>5
    <3> QED
      BY <1>6, <3>1, <3>2 DEF Descending
  <2>3. CASE i >= n
    <3>1. t[i] = list[i + 1] /\ t[j] = list[j + 1]
      BY <1>2, <1>3, <2>3
    <3>2. i + 1 \in 1 .. Len(list) /\ j + 1 \in 1 .. Len(list) /\ i + 1 < j + 1
      BY <1>5
    <3> QED
      BY <1>6, <3>1, <3>2 DEF Descending
  <2> QED
    BY <1>2, <2>1, <2>2, <2>3
<1>7. \A i \in 1 .. Len(t) : \E j \in 1 .. Len(list) : j >= i /\ t[i] = list[j]
  BY <1>5
<1> QED
  BY <1>1, <1>3, <1>4, <1>6, <1>7

\* getfirst: the first entry leaves.
LEMMA TailList ==
  ASSUME NEW list \in Seq(Entries), list # << >>, Distinct(list)
  PROVE  /\ Head(list) = list[1] /\ Head(list).pid \in Pids(list)
         /\ Head(list).key \in Int
         /\ Tail(list) \in Seq(Entries)
         /\ Pids(Tail(list)) = Pids(list) \ {Head(list).pid} /\ Distinct(Tail(list))
         /\ Descending(list) => Descending(Tail(list))
         /\ Len(Tail(list)) = Len(list) - 1
         /\ \A i \in 1 .. Len(Tail(list)) : Tail(list)[i] = list[i + 1]
<1> DEFINE t == Tail(list)
<1>1. /\ t \in Seq(Entries) /\ Len(t) = Len(list) - 1
      /\ \A j \in 1 .. Len(t) : t[j] = list[j + 1]
  BY HeadTailProperties
<1>2. 1 \in 1 .. Len(list) /\ Head(list) = list[1]
  OBVIOUS
<1>3. Head(list).pid \in Pids(list) /\ Head(list).key \in Int
  BY <1>2, NamesShape, EntriesShape
<1> HIDE DEF t
<1>4. Pids(t) = Pids(list) \ {list[1].pid} /\ Distinct(t)
  <2>1. \A j \in 1 .. Len(t) : t[j].pid = IF j < 1 THEN list[j].pid ELSE list[j + 1].pid
    BY <1>1
  <2> QED
    BY <1>1, <1>2, <2>1, RemovePids, SMTT(30)
<1>5. Descending(list) => Descending(t)
  BY <1>1 DEF Descending
<1> QED
  BY <1>1, <1>2, <1>3, <1>4, <1>5 DEF t

\* unsleep.c:37-44: the entry leaves and its key passes to the next one.
LEMMA UnsleepList ==
  ASSUME NEW list \in Seq(Entries), Distinct(list), NEW p \in Pids(list)
  PROVE  LET t == unsleep(list, p) IN
         /\ t \in Seq(Entries) /\ Pids(t) = Pids(list) \ {p} /\ Distinct(t)
         /\ Len(t) = Len(list) - 1
         /\ \A j \in 1 .. Len(t) :
              IF j < Place(list, p) THEN t[j] = list[j]
              ELSE /\ t[j].pid = list[j + 1].pid
                   /\ t[j].key = IF j = Place(list, p) THEN list[j + 1].key + list[j].key
                                 ELSE list[j + 1].key
<1> DEFINE n == Place(list, p)
           u == [j \in 1 .. Len(list) |->
                   IF j = n + 1 THEN [list[j] EXCEPT !.key = @ + list[n].key] ELSE list[j]]
           t == RemoveAt(u, n)
<1>1. t = unsleep(list, p)
  BY DEF unsleep
<1>2. n \in 1 .. Len(list) /\ list[n].pid = p
  BY PlaceShape
<1> HIDE DEF n
<1>3. \A j \in 1 .. Len(list) : list[j] \in Entries
  BY EntriesShape
<1>4. \A j \in 1 .. Len(list) :
        [list[j] EXCEPT !.key = @ + list[n].key] = Entry(list[j].pid, list[j].key + list[n].key)
  BY <1>3 DEF Entries, Entry
<1>5. /\ u \in Seq(Entries) /\ Len(u) = Len(list)
      /\ \A j \in 1 .. Len(list) :
           u[j] = IF j = n + 1 THEN Entry(list[j].pid, list[j].key + list[n].key) ELSE list[j]
  <2>1. \A j \in 1 .. Len(list) : Entry(list[j].pid, list[j].key + list[n].key) \in Entries
    BY <1>2, EntriesShape, EntryShape
  <2> QED
    BY <1>3, <1>4, <2>1
<1> HIDE DEF u
<1>6. /\ t \in Seq(Entries) /\ Len(t) = Len(list) - 1
      /\ \A j \in 1 .. Len(t) : t[j] = IF j < n THEN u[j] ELSE u[j + 1]
  BY <1>2, <1>5, RemoveShape, SMTT(30)
<1> HIDE DEF t
<1>7. \A j \in 1 .. Len(t) :
        IF j < n THEN t[j] = list[j]
        ELSE /\ t[j].pid = list[j + 1].pid
             /\ t[j].key = IF j = n THEN list[j + 1].key + list[j].key ELSE list[j + 1].key
  <2> SUFFICES ASSUME NEW j \in 1 .. Len(t)
               PROVE  IF j < n THEN t[j] = list[j]
                      ELSE /\ t[j].pid = list[j + 1].pid
                           /\ t[j].key = IF j = n THEN list[j + 1].key + list[j].key
                                         ELSE list[j + 1].key
    OBVIOUS
  <2>1. CASE j < n
    BY <1>2, <1>5, <1>6, <2>1
  <2>2. CASE j = n
    <3>1. t[j] = Entry(list[j + 1].pid, list[j + 1].key + list[j].key)
      BY <1>2, <1>5, <1>6, <2>2
    <3> QED
      BY <2>2, <3>1 DEF Entry
  <2>3. CASE j > n
    BY <1>2, <1>5, <1>6, <2>3
  <2> QED
    BY <1>2, <2>1, <2>2, <2>3
<1>8. Pids(t) = Pids(list) \ {p} /\ Distinct(t)
  <2>1. \A j \in 1 .. Len(t) : t[j].pid = IF j < n THEN list[j].pid ELSE list[j + 1].pid
    BY <1>7
  <2>2. t \in Seq(Entries) /\ Len(t) = Len(list) - 1
    BY <1>6
  <2> QED
    BY <1>2, <2>1, <2>2, RemovePids, SMTT(30)
<1> QED
  BY <1>1, <1>6, <1>7, <1>8 DEF n

\* The first of some places of a list, or the place behind its end.
LEMMA FirstShape ==
  ASSUME NEW list \in Seq(Entries), NEW places, places \subseteq 1 .. Len(list)
  PROVE  LET i == First(list, places) IN
         /\ i \in 1 .. Len(list) + 1
         /\ i \in places \/ i = Len(list) + 1
         /\ \A j \in places : i <= j
<1> DEFINE N == Len(list)
           T == places \cup {N + 1}
           i == First(list, places)
<1>1. N \in Nat
  OBVIOUS
<1>2. i = CHOOSE x \in T : \A y \in T : x <= y
  BY DEF First, Min
<1>3. places \subseteq 1 .. N
  OBVIOUS
<1> HIDE DEF N, i
<1>4. T \subseteq Nat /\ T # {} /\ T \subseteq 1 .. N + 1
  BY <1>1, <1>3
<1> HIDE DEF T
<1>5. \E x \in T : \A y \in T : x <= y
  BY <1>4, LeastNat
<1>6. i \in T /\ \A y \in T : i <= y
  BY <1>2, <1>5
<1> QED
  BY <1>4, <1>6 DEF T, N, i

\* A delta list has stayed as it is or lost one process.
Shorter(list, t) == t = list \/ \E p \in Pids(list) : t = unsleep(list, p)

\* The delays of a list add up its keys.
LEMMA DelaysShape ==
  ASSUME NEW list \in Seq(Entries)
  PROVE  /\ Delay(list, 0) = 0
         /\ \A i \in 1 .. Len(list) : Delay(list, i) = Delay(list, i - 1) + list[i].key
         /\ \A i \in 0 .. Len(list) : Delay(list, i) \in Int
<1> DEFINE N == Len(list)
           Is(f, n) == f = [i \in 0 .. n |-> IF i = 0 THEN 0 ELSE f[i - 1] + list[i].key]
           T == {n \in 0 .. N : \E f : Is(f, n)}
<1>1. 0 \in T
  <2>1. Is([i \in 0 .. 0 |-> 0], 0) /\ 0 \in 0 .. N
    OBVIOUS
  <2> HIDE DEF Is
  <2> QED
    BY <2>1
<1>2. ASSUME NEW n \in 0 .. N - 1, n \in T
      PROVE  n + 1 \in T
  <2>1. PICK f : Is(f, n)
    BY <1>2
  <2> DEFINE g == [i \in 0 .. n + 1 |-> IF i = n + 1 THEN f[n] + list[n + 1].key ELSE f[i]]
  <2>2. \A i \in 0 .. n + 1 : g[i] = IF i = 0 THEN 0 ELSE g[i - 1] + list[i].key
    <3> SUFFICES ASSUME NEW i \in 0 .. n + 1
                 PROVE  g[i] = IF i = 0 THEN 0 ELSE g[i - 1] + list[i].key
      OBVIOUS
    <3>1. CASE i = n + 1
      BY <3>1
    <3>2. CASE i # n + 1
      BY <2>1, <3>2
    <3> QED
      BY <3>1, <3>2
  <2>3. Is(g, n + 1)
    BY <2>2
  <2>4. n + 1 \in 0 .. N
    OBVIOUS
  <2> QED
    BY <2>3, <2>4
<1>3. N \in 0 .. N
  OBVIOUS
<1> HIDE DEF T
<1>4. 0 .. N \subseteq T
  BY <1>1, <1>2, InductTo
<1> USE DEF T
<1>5. \E f : Is(f, N)
  BY <1>3, <1>4
<1> DEFINE sum == CHOOSE f : Is(f, N)
<1>6. Is(sum, N)
  BY <1>5
<1>7. \A i : Delay(list, i) = sum[i]
  BY DEF Delay, Delays
<1> HIDE DEF sum
<1>8. sum[0] = 0 /\ \A i \in 1 .. N : sum[i] = sum[i - 1] + list[i].key
  BY <1>6
<1> DEFINE U == {n \in 0 .. N : sum[n] \in Int}
<1>9. 0 \in U
  BY <1>8
<1>10. ASSUME NEW n \in 0 .. N - 1, n \in U
       PROVE  n + 1 \in U
  <2>1. n + 1 \in 1 .. N /\ n + 1 - 1 = n
    OBVIOUS
  <2>2. list[n + 1].key \in Int
    BY <2>1, EntriesShape
  <2>3. sum[n + 1] = sum[n] + list[n + 1].key /\ sum[n] \in Int
    BY <1>8, <1>10, <2>1
  <2> QED
    BY <2>1, <2>2, <2>3
<1> HIDE DEF U
<1>11. 0 .. N \subseteq U
  BY <1>9, <1>10, InductTo
<1>12. \A i \in 0 .. N : sum[i] \in Int
  BY <1>11 DEF U
<1> QED
  BY <1>7, <1>8, <1>12

\* insertd puts p at i, before the first that wakes later.
InsertedAt(list, t, p, delay, i) ==
  LET key == delay - Delay(list, i - 1) IN
  /\ i \in 1 .. Len(list) + 1
  /\ t \in Seq(Entries) /\ Len(t) = Len(list) + 1
  /\ i <= Len(list) => Delay(list, i) > delay
  /\ \A j \in 1 .. i - 1 : Delay(list, j) <= delay
  /\ \A j \in 1 .. i - 1 : t[j] = list[j]
  /\ t[i] = Entry(p, key)
  /\ \A j \in i + 1 .. Len(t) :
       /\ t[j].pid = list[j - 1].pid
       /\ t[j].key = IF j = i + 1 THEN list[j - 1].key - key ELSE list[j - 1].key

\* insertd.c:22-39: where the new entry goes and which keys change.
LEMMA InsertdShape ==
  ASSUME NEW list \in Seq(Entries), NEW p \in Pid, NEW delay \in Int
  PROVE  \E i : InsertedAt(list, insertd(list, p, delay), p, delay, i)
<1> DEFINE places == {j \in 1 .. Len(list) : Delay(list, j) > delay}
           i == First(list, places)
           key == delay - Delay(list, i - 1)
           e == Entry(p, key)
           u == [j \in 1 .. Len(list) |->
                   IF j = i THEN [list[j] EXCEPT !.key = @ - key] ELSE list[j]]
           t == InsertAt(u, i, e)
<1>1. t = insertd(list, p, delay)
  BY DEF insertd
<1>2. places \in SUBSET (1 .. Len(list))
  OBVIOUS
<1>3. /\ i \in 1 .. Len(list) + 1
      /\ i \in places \/ i = Len(list) + 1
      /\ \A j \in places : i <= j
  BY <1>2, FirstShape
<1>4. /\ i <= Len(list) => Delay(list, i) > delay
      /\ \A j \in 1 .. i - 1 : Delay(list, j) <= delay
  <2>1. \A j \in 0 .. Len(list) : Delay(list, j) \in Int
    BY DelaysShape
  <2>2. \A j \in 1 .. Len(list) : j \in places <=> Delay(list, j) > delay
    OBVIOUS
  <2> HIDE DEF places, i
  <2>3. i <= Len(list) => i \in 1 .. Len(list) /\ i \in places
    BY <1>3
  <2>4. ASSUME NEW j \in 1 .. i - 1
        PROVE  Delay(list, j) <= delay
    <3>1. j \in 1 .. Len(list) /\ j \notin places
      BY <1>3
    <3> QED
      BY <2>1, <2>2, <3>1
  <2> QED
    BY <2>2, <2>3, <2>4
<1> HIDE DEF places, i
<1>5. key \in Int
  BY <1>3, DelaysShape
<1> HIDE DEF key
<1>6. e \in Entries
  BY <1>5, EntryShape
<1>7. \A j \in 1 .. Len(list) : list[j] \in Entries
  BY EntriesShape
<1>8. \A j \in 1 .. Len(list) :
        [list[j] EXCEPT !.key = @ - key] = Entry(list[j].pid, list[j].key - key)
  BY <1>7 DEF Entries, Entry
<1>9. /\ u \in Seq(Entries) /\ Len(u) = Len(list)
      /\ \A j \in 1 .. Len(list) :
           u[j] = IF j = i THEN Entry(list[j].pid, list[j].key - key) ELSE list[j]
  <2>1. \A j \in 1 .. Len(list) : Entry(list[j].pid, list[j].key - key) \in Entries
    BY <1>5, EntriesShape, EntryShape
  <2> QED
    BY <1>7, <1>8, <2>1
<1> HIDE DEF u, e
<1>10. /\ t \in Seq(Entries) /\ Len(t) = Len(list) + 1
       /\ \A j \in 1 .. Len(t) : t[j] = IF j < i THEN u[j] ELSE IF j = i THEN e ELSE u[j - 1]
  <2>1. i \in 1 .. Len(u) + 1
    BY <1>3, <1>9
  <2>2. Inserted(t, Entries, u, i, e)
    BY <1>6, <1>9, <2>1, InsertShape
  <2> HIDE DEF t
  <2> QED
    BY <1>9, <2>2 DEF Inserted
<1> HIDE DEF t
<1>11. \A j \in 1 .. i - 1 : t[j] = list[j]
  BY <1>3, <1>9, <1>10
<1>12. t[i] = Entry(p, key)
  BY <1>3, <1>10 DEF e
<1>13. ASSUME NEW j \in i + 1 .. Len(t)
       PROVE  /\ t[j].pid = list[j - 1].pid
              /\ t[j].key = IF j = i + 1 THEN list[j - 1].key - key ELSE list[j - 1].key
  <2>1. t[j] = u[j - 1] /\ j - 1 \in 1 .. Len(list)
    BY <1>3, <1>10
  <2>2. t[j] = IF j = i + 1 THEN Entry(list[j - 1].pid, list[j - 1].key - key) ELSE list[j - 1]
    BY <1>3, <1>9, <2>1
  <2> QED
    BY <1>3, <2>2 DEF Entry
<1>14. InsertedAt(list, t, p, delay, i)
  BY <1>3, <1>4, <1>10, <1>11, <1>12, <1>13 DEF InsertedAt, key
<1> QED
  BY <1>1, <1>14

\* insertd.c:9-42: one entry more, for the process that goes to sleep.
LEMMA InsertdList ==
  ASSUME NEW list \in Seq(Entries), Distinct(list), NEW p \in Pid, p \notin Pids(list),
         NEW delay \in Int
  PROVE  LET t == insertd(list, p, delay) IN
         t \in Seq(Entries) /\ Pids(t) = Pids(list) \cup {p} /\ Distinct(t)
<1> DEFINE t == insertd(list, p, delay)
<1>1. PICK i : InsertedAt(list, t, p, delay, i)
  BY InsertdShape
<1> HIDE DEF t
<1>2. i \in 1 .. Len(list) + 1 /\ t \in Seq(Entries) /\ Len(t) = Len(list) + 1
  BY <1>1 DEF InsertedAt
<1>3. ASSUME NEW j \in 1 .. Len(t)
      PROVE  t[j].pid = IF j < i THEN list[j].pid ELSE IF j = i THEN p ELSE list[j - 1].pid
  <2>1. CASE j < i
    <3>1. j \in 1 .. i - 1
      BY <1>2, <2>1
    <3> QED
      BY <1>1, <2>1, <3>1 DEF InsertedAt
  <2>2. CASE j = i
    BY <1>1, <2>2 DEF InsertedAt, Entry
  <2>3. CASE j > i
    <3>1. j \in i + 1 .. Len(t)
      BY <1>2, <2>3
    <3> QED
      BY <1>1, <1>2, <2>3, <3>1 DEF InsertedAt
  <2> QED
    BY <1>2, <2>1, <2>2, <2>3
<1>4. Pids(t) = Pids(list) \cup {p} /\ Distinct(t)
  BY <1>2, <1>3, InsertPids, SMTT(30)
<1> QED
  BY <1>2, <1>4 DEF t

\* A process that leaves the queue of a semaphore.
LEMMA LeftQueue ==
  ASSUME NEW queue \in Seq(Pid), NoRepeats(queue), NEW p \in Members(queue)
  PROVE  LET t == Left(queue, p) IN
         /\ t \in Seq(Pid) /\ Members(t) = Members(queue) \ {p} /\ NoRepeats(t)
         /\ Len(t) = Len(queue) - 1
<1> DEFINE n == CHOOSE i \in 1 .. Len(queue) : queue[i] = p
           t == RemoveAt(queue, n)
<1>1. t = Left(queue, p)
  BY DEF Left
<1>2. n \in 1 .. Len(queue) /\ queue[n] = p
  BY DEF Members
<1> HIDE DEF n
<1>3. /\ t \in Seq(Pid) /\ Len(t) = Len(queue) - 1
      /\ \A j \in 1 .. Len(t) : t[j] = IF j < n THEN queue[j] ELSE queue[j + 1]
  BY <1>2, RemoveShape, SMTT(30)
<1> HIDE DEF t
<1>4. Members(t) = Members(queue) \ {p} /\ NoRepeats(t)
  BY <1>2, <1>3, RemoveMembers, SMTT(90)
<1> QED
  BY <1>1, <1>3, <1>4

-----------------------------------------------------------------------------
(* The tables, and what the scheduler does to their fields.                 *)

Tables ==
  [prstate : [Pid -> State], prprio : [Pid -> Nat], prsem : [Pid -> Sem \cup {-1}],
   prparent : [Pid -> Pid], prhasmsg : [Pid -> BOOLEAN], prcount : Int, nextpid : Pid,
   readylist : Seq(Entries), currpid : Pid, sleepq : Seq(Entries), preempt : 1 .. QUANTUM,
   sstate : [Sem -> {"FREE", "USED"}], scount : [Sem -> Int], squeue : [Sem -> Seq(Pid)],
   nextsem : Sem \cup {0}]

\* The fields that rescheduling leaves alone.
Kept(s, t) ==
  /\ t.prprio = s.prprio /\ t.prparent = s.prparent /\ t.prhasmsg = s.prhasmsg
  /\ t.prcount = s.prcount /\ t.nextpid = s.nextpid /\ t.sleepq = s.sleepq
  /\ t.sstate = s.sstate /\ t.scount = s.scount /\ t.squeue = s.squeue
  /\ t.nextsem = s.nextsem

\* What ready.c:19-26 changes in the tables.
LEMMA MakeReadyFields ==
  ASSUME NEW s \in Tables, NEW p \in Pid
  PROVE  LET t == MakeReady(s, p) IN
         /\ Kept(s, t)
         /\ t.prstate = [s.prstate EXCEPT ![p] = "READY"]
         /\ t.prsem = [s.prsem EXCEPT ![p] = -1]
         /\ t.readylist = insert(s.readylist, p, s.prprio[p])
         /\ t.currpid = s.currpid /\ t.preempt = s.preempt
         /\ t.readylist \in Seq(Entries) => t \in Tables
BY DEF MakeReady, Tables, Kept, State

\* What resched.c:38-50 changes in the tables.
LEMMA DispatchFields ==
  ASSUME NEW s \in Tables, s.readylist # << >>
  PROVE  LET t == Dispatch(s)
             p == Head(s.readylist).pid
         IN
         /\ Kept(s, t)
         /\ t.prstate = [s.prstate EXCEPT ![p] = "CURR"]
         /\ t.prsem = s.prsem
         /\ t.readylist = Tail(s.readylist)
         /\ t.currpid = p
         /\ t \in Tables
<1>1. Head(s.readylist) \in Entries /\ Tail(s.readylist) \in Seq(Entries)
  BY DEF Tables
<1> DEFINE p == Head(s.readylist).pid
           rest == Tail(s.readylist)
<1>2. p \in Pid /\ rest \in Seq(Entries) /\ QUANTUM \in 1 .. QUANTUM
  BY <1>1, KernelAssumption DEF Entries
<1>3. Dispatch(s) = [s EXCEPT !.readylist = rest, !.currpid = p, !.prstate[p] = "CURR",
                              !.preempt = QUANTUM]
  BY DEF Dispatch, Tables
<1> HIDE DEF p, rest
<1> DEFINE t == Dispatch(s)
           states == [s.prstate EXCEPT ![p] = "CURR"]
<1>4. states \in [Pid -> State]
  BY <1>2 DEF Tables, State
<1>5. t = [s EXCEPT !.readylist = rest, !.currpid = p, !.prstate = states,
                    !.preempt = QUANTUM]
  BY <1>3
<1>6. t.prstate = states
  BY <1>5 DEF Tables
<1> HIDE DEF states, t
<1>7. /\ Kept(s, t) /\ t.prsem = s.prsem
      /\ t.readylist = rest
      /\ t.currpid = p
  BY <1>5 DEF Tables, Kept
<1>8. t \in Tables
  BY <1>2, <1>4, <1>5 DEF Tables
<1> QED
  BY <1>6, <1>7, <1>8 DEF p, rest, states, t

-----------------------------------------------------------------------------
(* Queues during a call.                                                    *)

Delayed == {"SLEEP", "RECTIM"}
Eligible == {"READY", "CURR"}
Stopped == Delayed \cup {"SUSP", "RECV", "WAIT"}

Waiters(s, sem) == {p \in Pid : s.prstate[p] = "WAIT" /\ s.prsem[p] = sem}
Sleeping(s) == {p \in Pid : s.prstate[p] \in Delayed}

\* Each process but those in out is on the queue that its state calls for, once
\* and on no other; those in out have left theirs and are not ready yet.  The
\* null process never blocks, so there is always a process to run.
Queued(s, out) ==
  /\ out \subseteq Pid /\ \A p \in out : s.prstate[p] \in Stopped
  /\ Pids(s.readylist) = {p \in Pid : s.prstate[p] = "READY"}
  /\ Distinct(s.readylist) /\ Descending(s.readylist)
  /\ Pids(s.sleepq) = Sleeping(s) \ out /\ Distinct(s.sleepq)
  /\ \A sem \in Sem : /\ Members(s.squeue[sem]) = Waiters(s, sem) \ out
                      /\ NoRepeats(s.squeue[sem])
  /\ \A p \in Pid : /\ s.prstate[p] = "CURR" => p = s.currpid
                    /\ s.prstate[p] = "WAIT" => s.prsem[p] \in Sem
  /\ s.prstate[NULLPROC] \in Eligible

\* The keys of the ready list are the priorities of its processes, and the
\* process that runs has the highest.
Keyed(s) ==
  \A i \in 1 .. Len(s.readylist) : s.readylist[i].key = s.prprio[s.readylist[i].pid]
Top(s) == s.readylist # << >> => s.prprio[s.currpid] >= Head(s.readylist).key

\* Processes have changed their state only so that they can run.
Moved(s, t) ==
  \A p \in Pid : \/ t.prstate[p] = s.prstate[p]
                 \/ s.prstate[p] # "FREE" /\ t.prstate[p] \in Eligible

\* The null process has an entry in the table.
LEMMA NullPid == NULLPROC \in Pid /\ Pid \subseteq Nat
BY KernelAssumption DEF NULLPROC, Pid

\* A process that was taken off its queue is made ready.
LEMMA MakeReadyQueued ==
  ASSUME NEW s \in Tables, NEW out, Queued(s, out), NEW p \in Pid,
         p \in out \/ s.prstate[p] \in {"SUSP", "RECV", "CURR"}
  PROVE  LET t == MakeReady(s, p) IN
         /\ t \in Tables /\ Kept(s, t) /\ t.currpid = s.currpid
         /\ Queued(t, out \ {p})
         /\ t.prstate = [s.prstate EXCEPT ![p] = "READY"]
         /\ t.readylist # << >>
         /\ Keyed(s) => Keyed(t)
<1> DEFINE t == MakeReady(s, p)
           list == s.readylist
           key == s.prprio[p]
<1>1. /\ list \in Seq(Entries) /\ key \in Int /\ s.prstate \in [Pid -> State]
      /\ s.prprio \in [Pid -> Nat] /\ s.prsem \in [Pid -> Sem \cup {-1}]
  BY DEF Tables
<1>2. s.prstate[p] # "READY" /\ p \notin Pids(list)
  BY DEF Queued, Eligible, Stopped, Delayed
<1>3. Descending(list) /\ Distinct(list)
  BY DEF Queued
<1> HIDE DEF list, key
<1>4. /\ insert(list, p, key) \in Seq(Entries) /\ insert(list, p, key) # << >>
      /\ Pids(insert(list, p, key)) = Pids(list) \cup {p}
      /\ Distinct(insert(list, p, key)) /\ Descending(insert(list, p, key))
      /\ \A i \in 1 .. Len(insert(list, p, key)) :
           \/ insert(list, p, key)[i] = Entry(p, key)
           \/ \E j \in 1 .. Len(list) : insert(list, p, key)[i] = list[j]
  BY <1>1, <1>2, <1>3, InsertList
<1>5. /\ Kept(s, t)
      /\ t.prstate = [s.prstate EXCEPT ![p] = "READY"]
      /\ t.prsem = [s.prsem EXCEPT ![p] = -1]
      /\ t.readylist = insert(list, p, key)
      /\ t.currpid = s.currpid
      /\ t \in Tables
  BY <1>4, MakeReadyFields DEF list, key
<1> HIDE DEF t
<1>6. /\ t.prstate[p] = "READY" /\ \A q \in Pid : q # p => t.prstate[q] = s.prstate[q]
      /\ \A q \in Pid : q # p => t.prsem[q] = s.prsem[q]
  BY <1>1, <1>5
<1>7. Queued(t, out \ {p})
  <2>1. out \ {p} \subseteq Pid /\ \A q \in out \ {p} : t.prstate[q] \in Stopped
    BY <1>6 DEF Queued
  <2>2. /\ Pids(t.readylist) = {q \in Pid : t.prstate[q] = "READY"}
        /\ Distinct(t.readylist) /\ Descending(t.readylist)
    <3>1. Pids(list) = {q \in Pid : s.prstate[q] = "READY"}
      BY DEF Queued, list
    <3> QED
      BY <1>4, <1>5, <1>6, <3>1
  <2>3. Pids(t.sleepq) = Sleeping(t) \ (out \ {p}) /\ Distinct(t.sleepq)
    <3>1. Sleeping(t) \ (out \ {p}) = Sleeping(s) \ out
      BY <1>6 DEF Sleeping, Delayed
    <3> QED
      BY <1>5, <3>1 DEF Queued, Kept
  <2>4. ASSUME NEW sem \in Sem
        PROVE  /\ Members(t.squeue[sem]) = Waiters(t, sem) \ (out \ {p})
               /\ NoRepeats(t.squeue[sem])
    <3>1. Waiters(t, sem) \ (out \ {p}) = Waiters(s, sem) \ out
      BY <1>6 DEF Waiters
    <3> QED
      BY <1>5, <3>1 DEF Queued, Kept
  <2>5. \A q \in Pid : /\ t.prstate[q] = "CURR" => q = t.currpid
                       /\ t.prstate[q] = "WAIT" => t.prsem[q] \in Sem
    BY <1>5, <1>6 DEF Queued
  <2>6. t.prstate[NULLPROC] \in Eligible
    BY <1>6, NullPid DEF Queued, Eligible, Stopped, Delayed
  <2> QED
    BY <2>1, <2>2, <2>3, <2>4, <2>5, <2>6 DEF Queued
<1>8. ASSUME Keyed(s)
      PROVE  Keyed(t)
  <2> SUFFICES ASSUME NEW i \in 1 .. Len(t.readylist)
               PROVE  t.readylist[i].key = s.prprio[t.readylist[i].pid]
    BY <1>5 DEF Keyed, Kept
  <2>1. CASE t.readylist[i] = Entry(p, key)
    BY <2>1, <1>1, EntryShape DEF key
  <2>2. CASE \E j \in 1 .. Len(list) : t.readylist[i] = list[j]
    BY <1>8, <2>2 DEF Keyed, list
  <2> QED
    BY <1>4, <1>5, <2>1, <2>2
<1> QED
  BY <1>4, <1>5, <1>7, <1>8 DEF t

\* The first process of the ready list becomes the one that runs.
LEMMA DispatchQueued ==
  ASSUME NEW s \in Tables, NEW out, Queued(s, out), s.prstate[s.currpid] # "CURR"
  PROVE  LET t == Dispatch(s) IN
         /\ t \in Tables /\ Kept(s, t) /\ Queued(t, out)
         /\ t.prstate[t.currpid] = "CURR"
         /\ Moved(s, t)
         /\ Keyed(s) => Keyed(t) /\ Top(t)
<1> DEFINE t == Dispatch(s)
           p == Head(s.readylist).pid
           list == s.readylist
<1>1. /\ list \in Seq(Entries) /\ s.prstate \in [Pid -> State]
      /\ s.prprio \in [Pid -> Nat] /\ s.prsem \in [Pid -> Sem \cup {-1}]
  BY DEF Tables
<1>2. /\ Descending(list) /\ Distinct(list)
      /\ Pids(list) = {q \in Pid : s.prstate[q] = "READY"}
  BY DEF Queued
<1>3. \A q \in Pid : s.prstate[q] # "CURR"
  BY DEF Queued
<1>4. list # << >>
  <2>1. NULLPROC \in Pids(list)
    BY <1>2, <1>3, NullPid DEF Queued, Eligible, Stopped, Delayed
  <2> QED
    BY <1>1, <2>1, NamesShape
<1>5. /\ Head(list) = list[1] /\ p \in Pids(list)
      /\ Head(list).key \in Int
      /\ Tail(list) \in Seq(Entries)
      /\ Pids(Tail(list)) = Pids(list) \ {p} /\ Distinct(Tail(list))
      /\ Descending(Tail(list))
      /\ Len(Tail(list)) = Len(list) - 1
      /\ \A i \in 1 .. Len(Tail(list)) : Tail(list)[i] = list[i + 1]
  BY <1>1, <1>2, <1>4, TailList
<1>6. /\ Kept(s, t)
      /\ t.prstate = [s.prstate EXCEPT ![p] = "CURR"]
      /\ t.prsem = s.prsem
      /\ t.readylist = Tail(list)
      /\ t.currpid = p
      /\ t \in Tables
  BY <1>4, DispatchFields
<1>7. p = list[1].pid
  BY <1>5
<1> HIDE DEF t, list, p
<1>8. p \in Pid /\ s.prstate[p] = "READY"
  BY <1>2, <1>5
<1>9. /\ t.prstate[p] = "CURR" /\ \A q \in Pid : q # p => t.prstate[q] = s.prstate[q]
  BY <1>1, <1>6, <1>8
<1>10. Queued(t, out)
  <2>1. out \subseteq Pid /\ \A q \in out : t.prstate[q] \in Stopped
    BY <1>8, <1>9 DEF Queued, Eligible, Stopped, Delayed
  <2>2. /\ Pids(t.readylist) = {q \in Pid : t.prstate[q] = "READY"}
        /\ Distinct(t.readylist) /\ Descending(t.readylist)
    BY <1>2, <1>5, <1>6, <1>9
  <2>3. Pids(t.sleepq) = Sleeping(t) \ out /\ Distinct(t.sleepq)
    <3>1. Sleeping(t) = Sleeping(s)
      BY <1>8, <1>9 DEF Sleeping, Delayed
    <3> QED
      BY <1>6, <3>1 DEF Queued, Kept
  <2>4. ASSUME NEW sem \in Sem
        PROVE  Members(t.squeue[sem]) = Waiters(t, sem) \ out /\ NoRepeats(t.squeue[sem])
    <3>1. Waiters(t, sem) = Waiters(s, sem)
      BY <1>6, <1>8, <1>9 DEF Waiters
    <3> QED
      BY <1>6, <3>1 DEF Queued, Kept
  <2>5. \A q \in Pid : /\ t.prstate[q] = "CURR" => q = t.currpid
                       /\ t.prstate[q] = "WAIT" => t.prsem[q] \in Sem
    BY <1>3, <1>6, <1>8, <1>9 DEF Queued
  <2>6. t.prstate[NULLPROC] \in Eligible
    BY <1>9, NullPid DEF Queued, Eligible, Stopped, Delayed
  <2> QED
    BY <2>1, <2>2, <2>3, <2>4, <2>5, <2>6 DEF Queued
<1>11. Moved(s, t)
  <2>1. s.prstate[p] # "FREE" /\ t.prstate[p] \in Eligible
    BY <1>8, <1>9 DEF Eligible
  <2> QED
    BY <1>9, <2>1 DEF Moved
<1>12. ASSUME Keyed(s)
       PROVE  Keyed(t) /\ Top(t)
  <2>1. \A i \in 1 .. Len(list) : list[i].key = s.prprio[list[i].pid]
    BY <1>12 DEF Keyed, list
  <2>2. Keyed(t)
    <3> SUFFICES ASSUME NEW i \in 1 .. Len(Tail(list))
                 PROVE  Tail(list)[i].key = s.prprio[Tail(list)[i].pid]
      BY <1>6 DEF Keyed, Kept
    <3>1. i + 1 \in 1 .. Len(list) /\ Tail(list)[i] = list[i + 1]
      BY <1>1, <1>5
    <3> QED
      BY <2>1, <3>1
  <2>3. ASSUME t.readylist # << >>
        PROVE  s.prprio[p] >= Head(t.readylist).key
    <3>1. Tail(list) # << >> /\ Head(Tail(list)) = Tail(list)[1] /\ Len(Tail(list)) >= 1
      BY <1>5, <1>6, <2>3
    <3>2. 1 \in 1 .. Len(list) /\ 2 \in 1 .. Len(list) /\ Tail(list)[1] = list[2]
      BY <1>1, <1>5, <3>1
    <3>3. list[1].key >= list[2].key
      BY <1>2, <3>2 DEF Descending
    <3> QED
      BY <1>6, <1>7, <2>1, <3>1, <3>2, <3>3
  <2> QED
    BY <1>6, <2>2, <2>3 DEF Top, Kept
<1> QED
  BY <1>6, <1>9, <1>10, <1>11, <1>12 DEF t

\* resched.c:11-50 leaves every process on the queue of its state.
LEMMA reschedQueued ==
  ASSUME NEW s \in Tables, NEW out, Queued(s, out)
  PROVE  LET t == resched(s) IN
         /\ t \in Tables /\ Kept(s, t) /\ Queued(t, out)
         /\ t.prstate[t.currpid] = "CURR"
         /\ Moved(s, t)
         /\ Keyed(s) => Keyed(t) /\ Top(t)
<1> DEFINE p == s.currpid
           t == resched(s)
<1>1. p \in Pid /\ s.prstate \in [Pid -> State]
  BY DEF Tables
<1>2. CASE s.prstate[p] # "CURR"
  BY <1>2, DispatchQueued DEF resched
<1>3. CASE s.prstate[p] = "CURR" /\ (s.readylist = << >> \/ s.prprio[p] > Head(s.readylist).key)
  <2>1. t = s
    BY <1>3 DEF resched
  <2>2. Top(s)
    <3>1. ASSUME s.readylist # << >>
          PROVE  s.prprio[p] \in Int /\ Head(s.readylist).key \in Int
      <4>1. s.readylist \in Seq(Entries) /\ s.prprio \in [Pid -> Nat]
        BY DEF Tables
      <4>2. Head(s.readylist) \in Entries
        BY <3>1, <4>1
      <4> QED
        BY <1>1, <4>1, <4>2 DEF Entries
    <3> QED
      BY <1>3, <3>1 DEF Top
  <2>3. Kept(s, s) /\ Moved(s, s)
    BY DEF Kept, Moved
  <2> HIDE DEF t
  <2> QED
    BY <1>3, <2>1, <2>2, <2>3 DEF t
<1>4. CASE s.prstate[p] = "CURR" /\ ~ (s.readylist = << >> \/ s.prprio[p] > Head(s.readylist).key)
  <2> DEFINE u == MakeReady(s, p)
  <2>1. /\ u \in Tables /\ Kept(s, u) /\ u.currpid = p
        /\ Queued(u, out \ {p})
        /\ u.prstate = [s.prstate EXCEPT ![p] = "READY"]
        /\ Keyed(s) => Keyed(u)
    BY <1>1, <1>4, MakeReadyQueued
  <2>2. out \ {p} = out
    BY <1>4 DEF Queued, Eligible, Stopped, Delayed
  <2>3. t = Dispatch(u)
    BY <1>4 DEF resched
  <2> HIDE DEF u, t
  <2>4. u.prstate[u.currpid] # "CURR"
    BY <1>1, <2>1
  <2>5. /\ t \in Tables /\ Kept(u, t) /\ Queued(t, out)
        /\ t.prstate[t.currpid] = "CURR"
        /\ Moved(u, t)
        /\ Keyed(u) => Keyed(t) /\ Top(t)
    BY <2>1, <2>2, <2>3, <2>4, DispatchQueued
  <2>6. Kept(s, t)
    BY <2>1, <2>5 DEF Kept
  <2>7. Moved(s, t)
    BY <1>1, <1>4, <2>1, <2>5 DEF Moved, Eligible
  <2> QED
    BY <2>1, <2>5, <2>6, <2>7 DEF t
<1> QED
  BY <1>2, <1>3, <1>4

\* The tables after each process of the list has been made ready.
LEMMA MadeShape ==
  ASSUME NEW s, NEW ps, Len(ps) \in Nat
  PROVE  \E made : /\ made[0] = s
                   /\ \A i \in 1 .. Len(ps) : made[i] = MakeReady(made[i - 1], ps[i])
                   /\ MakeAllReady(s, ps) = made[Len(ps)]
<1> DEFINE N == Len(ps)
           Is(f, n) == f = [i \in 0 .. n |-> IF i = 0 THEN s ELSE MakeReady(f[i - 1], ps[i])]
           T == {n \in 0 .. N : \E f : Is(f, n)}
<1>1. 0 \in T
  <2>1. Is([i \in 0 .. 0 |-> s], 0) /\ 0 \in 0 .. N
    OBVIOUS
  <2> HIDE DEF Is
  <2> QED
    BY <2>1
<1>2. ASSUME NEW n \in 0 .. N - 1, n \in T
      PROVE  n + 1 \in T
  <2>1. PICK f : Is(f, n)
    BY <1>2
  <2> DEFINE g == [i \in 0 .. n + 1 |-> IF i = n + 1 THEN MakeReady(f[n], ps[n + 1]) ELSE f[i]]
  <2>2. \A i \in 0 .. n + 1 : g[i] = IF i = 0 THEN s ELSE MakeReady(g[i - 1], ps[i])
    <3> SUFFICES ASSUME NEW i \in 0 .. n + 1
                 PROVE  g[i] = IF i = 0 THEN s ELSE MakeReady(g[i - 1], ps[i])
      OBVIOUS
    <3>1. CASE i = n + 1
      BY <3>1
    <3>2. CASE i \in 0 .. n
      BY <2>1, <3>2
    <3> QED
      BY <3>1, <3>2
  <2>3. Is(g, n + 1)
    BY <2>2
  <2>4. n + 1 \in 0 .. N
    OBVIOUS
  <2> QED
    BY <2>3, <2>4
<1>3. N \in 0 .. N
  OBVIOUS
<1> HIDE DEF T
<1>4. 0 .. N \subseteq T
  BY <1>1, <1>2, InductTo
<1> USE DEF T
<1>5. \E f : Is(f, N)
  BY <1>3, <1>4
<1> DEFINE made == CHOOSE f : Is(f, N)
<1>6. Is(made, N)
  BY <1>5
<1>7. MakeAllReady(s, ps) = made[N]
  BY DEF MakeAllReady
<1> HIDE DEF made
<1>8. made[0] = s /\ \A i \in 1 .. N : made[i] = MakeReady(made[i - 1], ps[i])
  BY <1>6
<1> QED
  BY <1>7, <1>8

\* So do the calls of ready in a loop that defers rescheduling.
LEMMA MakeAllReadyQueued ==
  ASSUME NEW s \in Tables, NEW out, Queued(s, out),
         NEW ps \in Seq(Pid), NoRepeats(ps), Members(ps) \subseteq out
  PROVE  LET t == MakeAllReady(s, ps) IN
         /\ t \in Tables /\ Kept(s, t) /\ t.currpid = s.currpid
         /\ Queued(t, out \ Members(ps))
         /\ \A q \in Pid : t.prstate[q] = IF q \in Members(ps) THEN "READY" ELSE s.prstate[q]
         /\ Keyed(s) => Keyed(t)
<1> DEFINE N == Len(ps)
           M(n) == {ps[i] : i \in 1 .. n}
<1>1. PICK made : /\ made[0] = s
                  /\ \A i \in 1 .. N : made[i] = MakeReady(made[i - 1], ps[i])
                  /\ MakeAllReady(s, ps) = made[N]
  BY MadeShape
<1> DEFINE Good(n) == /\ made[n] \in Tables /\ Kept(s, made[n]) /\ made[n].currpid = s.currpid
                      /\ Queued(made[n], out \ M(n))
                      /\ \A q \in Pid : made[n].prstate[q] = IF q \in M(n) THEN "READY"
                                                           ELSE s.prstate[q]
                      /\ Keyed(s) => Keyed(made[n])
           T == {n \in 0 .. N : Good(n)}
<1>2. 0 \in T
  <2>1. M(0) = {}
    OBVIOUS
  <2>2. Kept(s, s) /\ out \ {} = out
    BY DEF Kept
  <2>3. Good(0)
    BY <1>1, <2>1, <2>2
  <2> HIDE DEF Good
  <2> QED
    BY <2>3
<1>3. ASSUME NEW n \in 0 .. N - 1, n \in T
      PROVE  n + 1 \in T
  <2> DEFINE u == made[n]
             t == made[n + 1]
             p == ps[n + 1]
  <2>1. Good(n)
    BY <1>3
  <2>2. n + 1 \in 1 .. N /\ n + 1 - 1 = n /\ p \in Pid
    OBVIOUS
  <2>3. t = MakeReady(u, p)
    BY <1>1, <2>2
  <2>4. p \in out \ M(n)
    BY <2>2 DEF Members, NoRepeats
  <2>5. M(n + 1) = M(n) \cup {p}
    <3>1. \A i \in 1 .. n + 1 : i = n + 1 \/ i \in 1 .. n
      OBVIOUS
    <3> QED
      BY <2>2, <3>1
  <2> HIDE DEF M, p, u, t
  <2>6. /\ t \in Tables /\ Kept(u, t) /\ t.currpid = u.currpid
        /\ Queued(t, (out \ M(n)) \ {p})
        /\ t.prstate = [u.prstate EXCEPT ![p] = "READY"]
        /\ Keyed(u) => Keyed(t)
    <3>1. u \in Tables /\ Queued(u, out \ M(n))
      BY <2>1 DEF u
    <3> QED
      BY <2>2, <2>3, <2>4, <3>1, MakeReadyQueued
  <2>7. (out \ M(n)) \ {p} = out \ M(n + 1)
    BY <2>5
  <2>8. Kept(s, t)
    BY <2>1, <2>6 DEF Kept, u
  <2>9. ASSUME NEW q \in Pid
        PROVE  t.prstate[q] = IF q \in M(n + 1) THEN "READY" ELSE s.prstate[q]
    <3>1. u.prstate \in [Pid -> State]
      BY <2>1 DEF Tables, u
    <3>2. u.prstate[q] = IF q \in M(n) THEN "READY" ELSE s.prstate[q]
      BY <2>1 DEF u
    <3> QED
      BY <2>5, <2>6, <3>1, <3>2
  <2>10. Good(n + 1)
    BY <2>1, <2>6, <2>7, <2>8, <2>9 DEF u, t
  <2> HIDE DEF Good
  <2> QED
    BY <2>2, <2>10
<1> HIDE DEF T
<1>4. 0 .. N \subseteq T
  BY <1>2, <1>3, InductTo
<1>5. Good(N)
  <2>1. N \in 0 .. N
    OBVIOUS
  <2> HIDE DEF Good
  <2> QED
    BY <1>4, <2>1 DEF T
<1>6. M(N) = Members(ps)
  BY DEF Members
<1> QED
  BY <1>1, <1>5, <1>6

-----------------------------------------------------------------------------
(* The tables in the middle of a call, and after it.                        *)

\* SemaphoresExact and NoMessageMissed, of any tables.
Counts(s) ==
  \A sem \in Sem :
    /\ Len(s.squeue[sem]) = (IF s.scount[sem] < 0 THEN -s.scount[sem] ELSE 0)
    /\ s.sstate[sem] = "FREE" => s.squeue[sem] = << >>
Heard(s, out) ==
  \A p \in Pid \ out : s.prstate[p] \in {"RECV", "RECTIM"} => ~ s.prhasmsg[p]

\* Those in out are about to be made ready.  Priorities are looked at unless
\* somebody may change them.
Half(s, out, ranked) ==
  s \in Tables /\ Queued(s, out) /\ Counts(s) /\ Heard(s, out) /\ (ranked => Keyed(s))
Right(s, ranked) ==
  Half(s, {}, ranked) /\ s.prstate[s.currpid] = "CURR" /\ (ranked => Top(s))

\* After resched.c:11-50 the process with the highest priority runs.
LEMMA reschedRight ==
  ASSUME NEW s, NEW ranked \in BOOLEAN, Half(s, {}, ranked)
  PROVE  Right(resched(s), ranked) /\ Kept(s, resched(s)) /\ Moved(s, resched(s))
<1> DEFINE t == resched(s)
<1>1. /\ t \in Tables /\ Kept(s, t) /\ Queued(t, {})
      /\ t.prstate[t.currpid] = "CURR"
      /\ Moved(s, t)
      /\ Keyed(s) => Keyed(t) /\ Top(t)
  BY reschedQueued DEF Half
<1> HIDE DEF t
<1>2. Counts(t)
  BY <1>1 DEF Half, Counts, Kept
<1>3. Heard(t, {})
  BY <1>1 DEF Half, Heard, Kept, Moved, Eligible
<1>4. Right(t, ranked)
  BY <1>1, <1>2, <1>3 DEF Half, Right
<1> QED
  BY <1>1, <1>4 DEF t

\* A loop of calls of ready while rescheduling is deferred.
LEMMA MakeAllReadyHalf ==
  ASSUME NEW s, NEW ranked \in BOOLEAN, NEW ps \in Seq(Pid), NoRepeats(ps),
         Half(s, Members(ps), ranked)
  PROVE  LET t == MakeAllReady(s, ps) IN
         Half(t, {}, ranked) /\ Kept(s, t) /\ Moved(s, t)
<1> DEFINE t == MakeAllReady(s, ps)
           out == Members(ps)
<1>1. s \in Tables /\ Queued(s, out)
  BY DEF Half
<1>2. /\ t \in Tables /\ Kept(s, t)
      /\ Queued(t, out \ Members(ps))
      /\ \A q \in Pid : t.prstate[q] = IF q \in out THEN "READY" ELSE s.prstate[q]
      /\ Keyed(s) => Keyed(t)
  BY <1>1, MakeAllReadyQueued
<1>3. out \ Members(ps) = {}
  OBVIOUS
<1>4. \A q \in out : s.prstate[q] # "FREE"
  BY <1>1 DEF Queued, Stopped, Delayed
<1> HIDE DEF t, out
<1>5. Counts(t)
  BY <1>2 DEF Half, Counts, Kept
<1>6. Heard(t, {})
  BY <1>2 DEF Half, Heard, Kept, out
<1>7. Moved(s, t)
  BY <1>2, <1>4 DEF Moved, Eligible
<1>8. Half(t, {}, ranked)
  BY <1>2, <1>3, <1>5, <1>6 DEF Half
<1> QED
  BY <1>2, <1>7, <1>8 DEF t

\* ready.c:11-29 outside a deferral.
LEMMA readyRight ==
  ASSUME NEW s, NEW ranked \in BOOLEAN, NEW p \in Pid, Half(s, {p}, ranked)
  PROVE  Right(ready(s, p), ranked) /\ Kept(s, ready(s, p)) /\ Moved(s, ready(s, p))
<1> DEFINE u == MakeReady(s, p)
<1>1. s \in Tables /\ Queued(s, {p})
  BY DEF Half
<1>2. /\ u \in Tables /\ Kept(s, u) /\ Queued(u, {p} \ {p})
      /\ u.prstate = [s.prstate EXCEPT ![p] = "READY"]
      /\ Keyed(s) => Keyed(u)
  BY <1>1, MakeReadyQueued
<1>3. {p} \ {p} = {} /\ s.prstate \in [Pid -> State] /\ s.prstate[p] # "FREE"
  BY <1>1 DEF Tables, Queued, Stopped, Delayed
<1>4. ready(s, p) = resched(u)
  BY DEF ready
<1> HIDE DEF u
<1>5. Half(u, {}, ranked)
  BY <1>2, <1>3 DEF Half, Counts, Heard, Kept
<1>6. /\ Right(resched(u), ranked) /\ Kept(u, resched(u)) /\ Moved(u, resched(u))
  BY <1>5, reschedRight
<1>7. Kept(s, resched(u))
  BY <1>2, <1>6 DEF Kept
<1>8. Moved(s, resched(u))
  BY <1>2, <1>3, <1>6 DEF Moved, Eligible
<1> QED
  BY <1>4, <1>6, <1>7, <1>8

\* A loop of calls of ready between DEFER_START and DEFER_STOP.
LEMMA ReadyAllRight ==
  ASSUME NEW s, NEW ranked \in BOOLEAN, NEW ps \in Seq(Pid), NoRepeats(ps),
         Half(s, Members(ps), ranked),
         s.prstate[s.currpid] = "CURR", ranked => Top(s)
  PROVE  Right(ReadyAll(s, ps), ranked) /\ Kept(s, ReadyAll(s, ps)) /\ Moved(s, ReadyAll(s, ps))
<1>1. CASE ps = << >>
  <2>1. Members(ps) = {}
    BY <1>1 DEF Members
  <2>2. ReadyAll(s, ps) = s /\ Kept(s, s) /\ Moved(s, s)
    BY <1>1 DEF ReadyAll, Kept, Moved
  <2> QED
    BY <2>1, <2>2 DEF Right
<1>2. CASE ps # << >>
  <2> DEFINE u == MakeAllReady(s, ps)
             t == resched(u)
  <2>1. Half(u, {}, ranked) /\ Kept(s, u) /\ Moved(s, u)
    BY MakeAllReadyHalf
  <2> HIDE DEF u
  <2>2. Right(t, ranked) /\ Kept(u, t) /\ Moved(u, t)
    BY <2>1, reschedRight
  <2> HIDE DEF t
  <2>3. Kept(s, t) /\ Moved(s, t)
    <3>1. Kept(s, t)
      BY <2>1, <2>2 DEF Kept
    <3>2. Moved(s, t)
      BY <2>1, <2>2 DEF Moved, Eligible
    <3> QED
      BY <3>1, <3>2
  <2> QED
    BY <1>2, <2>2, <2>3 DEF ReadyAll, t, u
<1> QED
  BY <1>1, <1>2

-----------------------------------------------------------------------------
(* Calls that move one process.                                             *)

\* The queues that p is on, when all processes are on theirs.
LEMMA OnQueue ==
  ASSUME NEW s, Queued(s, {}), NEW p \in Pid
  PROVE  /\ p \in Pids(s.readylist) <=> s.prstate[p] = "READY"
         /\ p \in Pids(s.sleepq) <=> s.prstate[p] \in Delayed
         /\ \A sem \in Sem : p \in Members(s.squeue[sem])
                             <=> s.prstate[p] = "WAIT" /\ s.prsem[p] = sem
BY DEF Queued, Sleeping, Waiters

\* Only p has changed its state, and its queues accordingly.
OneMoved(s, t, p, out) ==
  /\ out = {} \/ out = {p}
  /\ \A q \in Pid : q # p => t.prstate[q] = s.prstate[q] /\ t.prsem[q] = s.prsem[q]
  /\ t.currpid = s.currpid
  /\ p \in out => t.prstate[p] \in Stopped
  /\ t.prstate[p] = "CURR" => p = t.currpid
  /\ t.prstate[p] = "WAIT" => t.prsem[p] \in Sem
  /\ p = NULLPROC => t.prstate[p] \in Eligible
  /\ Distinct(t.readylist) /\ Descending(t.readylist)
  /\ Pids(t.readylist) = IF t.prstate[p] = "READY" THEN Pids(s.readylist) \cup {p}
                         ELSE Pids(s.readylist) \ {p}
  /\ Distinct(t.sleepq)
  /\ Pids(t.sleepq) = IF t.prstate[p] \in Delayed /\ p \notin out
                      THEN Pids(s.sleepq) \cup {p} ELSE Pids(s.sleepq) \ {p}
  /\ \A sem \in Sem :
       /\ NoRepeats(t.squeue[sem])
       /\ Members(t.squeue[sem]) =
            IF t.prstate[p] = "WAIT" /\ t.prsem[p] = sem /\ p \notin out
            THEN Members(s.squeue[sem]) \cup {p} ELSE Members(s.squeue[sem]) \ {p}

\* A process is on the queue of its state only.
LEMMA OneQueued ==
  ASSUME NEW s, NEW t, Queued(s, {}), NEW p \in Pid, NEW out, OneMoved(s, t, p, out)
  PROVE  Queued(t, out)
<1>1. out \subseteq Pid /\ \A q \in out : t.prstate[q] \in Stopped
  BY DEF OneMoved
<1>2. Pids(t.readylist) = {q \in Pid : t.prstate[q] = "READY"}
  <2>1. Pids(s.readylist) = {q \in Pid : s.prstate[q] = "READY"}
    BY DEF Queued
  <2> QED
    BY <2>1 DEF OneMoved
<1>3. Pids(t.sleepq) = Sleeping(t) \ out
  <2>1. Pids(s.sleepq) = {q \in Pid : s.prstate[q] \in Delayed}
    BY DEF Queued, Sleeping
  <2> QED
    BY <2>1 DEF OneMoved, Sleeping
<1>4. ASSUME NEW sem \in Sem
      PROVE  Members(t.squeue[sem]) = Waiters(t, sem) \ out
  <2> DEFINE m == Members(s.squeue[sem])
             n == Members(t.squeue[sem])
  <2>1. m = {q \in Pid : s.prstate[q] = "WAIT" /\ s.prsem[q] = sem}
    BY DEF Queued, Waiters
  <2>2. n = IF t.prstate[p] = "WAIT" /\ t.prsem[p] = sem /\ p \notin out
            THEN m \cup {p} ELSE m \ {p}
    BY DEF OneMoved
  <2>3. \A q \in Pid : q # p => /\ t.prstate[q] = s.prstate[q] /\ t.prsem[q] = s.prsem[q]
                               /\ q \notin out
    BY DEF OneMoved
  <2> HIDE DEF m, n
  <2>4. \A q : q \in n <=> q \in Pid /\ t.prstate[q] = "WAIT" /\ t.prsem[q] = sem /\ q \notin out
    BY <2>1, <2>2, <2>3
  <2> QED
    BY <2>4 DEF Waiters, n
<1>5. \A q \in Pid : /\ t.prstate[q] = "CURR" => q = t.currpid
                     /\ t.prstate[q] = "WAIT" => t.prsem[q] \in Sem
  BY DEF Queued, OneMoved
<1>6. t.prstate[NULLPROC] \in Eligible
  BY NullPid DEF Queued, OneMoved
<1> QED
  BY <1>1, <1>2, <1>3, <1>4, <1>5, <1>6 DEF Queued, OneMoved

\* send.c:28-38, for a receiver in any state.
LEMMA sendRight ==
  ASSUME NEW s, NEW ranked \in BOOLEAN, Right(s, ranked), NEW p \in Pid
  PROVE  Right(send(s, p), ranked) /\ Moved(s, send(s, p)) /\ Shorter(s.sleepq, send(s, p).sleepq)
<1> DEFINE s1 == [s EXCEPT !.prhasmsg[p] = TRUE]
           s2 == [s1 EXCEPT !.sleepq = unsleep(@, p)]
<1>1. /\ s \in Tables /\ Queued(s, {}) /\ Counts(s) /\ Heard(s, {}) /\ (ranked => Keyed(s))
      /\ s.prstate[s.currpid] = "CURR" /\ (ranked => Top(s))
  BY DEF Right, Half
<1>2. /\ s.sleepq \in Seq(Entries) /\ Distinct(s.sleepq)
      /\ s.prhasmsg \in [Pid -> BOOLEAN]
  BY <1>1 DEF Tables, Queued
<1>3. /\ s1 \in Tables /\ s1.prhasmsg = [s.prhasmsg EXCEPT ![p] = TRUE]
      /\ s1.prstate = s.prstate /\ s1.prsem = s.prsem /\ s1.prprio = s.prprio
      /\ s1.readylist = s.readylist /\ s1.sleepq = s.sleepq /\ s1.squeue = s.squeue
      /\ s1.currpid = s.currpid /\ s1.scount = s.scount /\ s1.sstate = s.sstate
  BY <1>1 DEF Tables
<1> HIDE DEF s1
<1>4. Queued(s1, {}) /\ Counts(s1) /\ (ranked => Keyed(s1)) /\ (ranked => Top(s1)) /\ Heard(s1, {p})
  <2>1. Queued(s1, {})
    BY <1>1, <1>3 DEF Queued, Waiters, Sleeping
  <2> QED
    BY <1>1, <1>2, <1>3, <2>1 DEF Counts, Keyed, Top, Heard
<1>5. CASE s.prstate[p] = "FREE" \/ s.prhasmsg[p]
  BY <1>5 DEF send, Moved, Shorter
<1>6. CASE ~ (s.prstate[p] = "FREE" \/ s.prhasmsg[p]) /\ s.prstate[p] = "RECV"
  <2>1. Queued(s1, {p})
    <3>1. s1.prstate[p] = "RECV"
      BY <1>3, <1>6
    <3> QED
      BY <1>4, <3>1 DEF Queued, Waiters, Sleeping, Stopped, Delayed
  <2>2. Half(s1, {p}, ranked)
    BY <1>3, <1>4, <2>1 DEF Half
  <2>3. send(s, p) = ready(s1, p)
    BY <1>6 DEF send, s1
  <2>4. Right(ready(s1, p), ranked) /\ Kept(s1, ready(s1, p)) /\ Moved(s1, ready(s1, p))
    BY <2>2, readyRight
  <2> QED
    BY <1>3, <2>3, <2>4 DEF Moved, Kept, Shorter
<1>7. CASE ~ (s.prstate[p] = "FREE" \/ s.prhasmsg[p]) /\ s.prstate[p] = "RECTIM"
  <2>1. p \in Pids(s.sleepq)
    BY <1>1, <1>7, OnQueue DEF Delayed
  <2>2. /\ unsleep(s.sleepq, p) \in Seq(Entries)
        /\ Pids(unsleep(s.sleepq, p)) = Pids(s.sleepq) \ {p}
        /\ Distinct(unsleep(s.sleepq, p))
    BY <1>2, <2>1, UnsleepList
  <2>3. /\ s2 \in Tables /\ s2.prhasmsg = s1.prhasmsg
        /\ s2.prstate = s.prstate /\ s2.prsem = s.prsem /\ s2.prprio = s.prprio
        /\ s2.readylist = s.readylist /\ s2.sleepq = unsleep(s.sleepq, p) /\ s2.squeue = s.squeue
        /\ s2.currpid = s.currpid /\ s2.scount = s.scount /\ s2.sstate = s.sstate
    BY <1>3, <2>2 DEF Tables
  <2> HIDE DEF s2
  <2>4. Queued(s2, {p})
    <3>1. s2.prstate[p] = "RECTIM"
      BY <1>7, <2>3
    <3>2. /\ Distinct(s2.readylist) /\ Descending(s2.readylist)
          /\ Pids(s2.readylist) = Pids(s.readylist) \ {p}
      BY <1>1, <1>7, <2>3, OnQueue DEF Queued
    <3>3. \A sem \in Sem : /\ NoRepeats(s2.squeue[sem])
                           /\ Members(s2.squeue[sem]) = Members(s.squeue[sem]) \ {p}
      BY <1>1, <1>7, <2>3, OnQueue DEF Queued
    <3>4. p # NULLPROC /\ s2.prstate[p] \in Stopped
      BY <1>1, <1>7, <3>1 DEF Queued, Eligible, Stopped, Delayed
    <3>5. Distinct(s2.sleepq) /\ Pids(s2.sleepq) = Pids(s.sleepq) \ {p}
      BY <2>2, <2>3
    <3>6. s2.currpid = s.currpid /\ s2.prstate = s.prstate /\ s2.prsem = s.prsem
      BY <2>3
    <3>7. OneMoved(s, s2, p, {p})
      BY <3>1, <3>2, <3>3, <3>4, <3>5, <3>6 DEF OneMoved
    <3> QED
      BY <1>1, <3>7, OneQueued
  <2>5. Half(s2, {p}, ranked)
    BY <1>3, <1>4, <2>3, <2>4 DEF Half, Counts, Heard, Keyed
  <2>6. send(s, p) = ready(s2, p)
    BY <1>7 DEF send, s2, s1
  <2>7. Right(ready(s2, p), ranked) /\ Kept(s2, ready(s2, p)) /\ Moved(s2, ready(s2, p))
    BY <2>5, readyRight
  <2>8. send(s, p).sleepq = unsleep(s.sleepq, p)
    BY <2>3, <2>6, <2>7 DEF Kept
  <2> QED
    BY <2>1, <2>3, <2>6, <2>7, <2>8 DEF Moved, Shorter
<1>8. CASE /\ ~ (s.prstate[p] = "FREE" \/ s.prhasmsg[p])
           /\ s.prstate[p] # "RECV" /\ s.prstate[p] # "RECTIM"
  <2>1. send(s, p) = s1
    BY <1>8 DEF send, s1
  <2>2. Heard(s1, {})
    BY <1>3, <1>4, <1>8 DEF Heard
  <2> QED
    BY <1>1, <1>3, <1>4, <2>1, <2>2 DEF Right, Half, Moved, Shorter
<1> QED
  BY <1>5, <1>6, <1>7, <1>8

\* Every entry of t is one of the list, at the same place or behind it.
Behind(t, list) == \A i \in 1 .. Len(t) : \E j \in 1 .. Len(list) : j >= i /\ t[i] = list[j]

\* kill takes p off the queue it is on, and keeps the count of a semaphore.
LEMMA RemovedQueues ==
  ASSUME NEW s \in Tables, Queued(s, {}), Counts(s), NEW p \in Pid
  PROVE  LET t == Removed(s, p) IN
         /\ t \in Tables /\ t.prstate = s.prstate /\ t.prsem = s.prsem /\ t.prprio = s.prprio
         /\ t.prhasmsg = s.prhasmsg /\ t.currpid = s.currpid /\ t.sstate = s.sstate
         /\ Distinct(t.readylist) /\ Descending(t.readylist)
         /\ Pids(t.readylist) = Pids(s.readylist) \ {p} /\ Behind(t.readylist, s.readylist)
         /\ Distinct(t.sleepq) /\ Pids(t.sleepq) = Pids(s.sleepq) \ {p}
         /\ Shorter(s.sleepq, t.sleepq)
         /\ \A sem \in Sem : /\ NoRepeats(t.squeue[sem])
                             /\ Members(t.squeue[sem]) = Members(s.squeue[sem]) \ {p}
         /\ Counts(t)
<1> DEFINE t == Removed(s, p)
<1>1. /\ s.readylist \in Seq(Entries) /\ s.sleepq \in Seq(Entries)
      /\ s.squeue \in [Sem -> Seq(Pid)] /\ s.scount \in [Sem -> Int]
      /\ s.prstate \in [Pid -> State]
  BY DEF Tables
<1>2. /\ Distinct(s.readylist) /\ Descending(s.readylist) /\ Distinct(s.sleepq)
      /\ \A sem \in Sem : NoRepeats(s.squeue[sem])
  BY DEF Queued
<1>3. Behind(s.readylist, s.readylist)
  BY <1>1 DEF Behind
<1>4. CASE s.prstate[p] \in {"SLEEP", "RECTIM"}
  <2> DEFINE list == unsleep(s.sleepq, p)
  <2>1. p \in Pids(s.sleepq)
    BY <1>4, OnQueue DEF Delayed
  <2>2. list \in Seq(Entries) /\ Pids(list) = Pids(s.sleepq) \ {p} /\ Distinct(list)
    BY <1>1, <1>2, <2>1, UnsleepList
  <2>3. t = [s EXCEPT !.sleepq = list]
    BY <1>4 DEF Removed, Tables
  <2> HIDE DEF list, t
  <2>4. /\ t \in Tables /\ t.prstate = s.prstate /\ t.prsem = s.prsem /\ t.prprio = s.prprio
        /\ t.prhasmsg = s.prhasmsg /\ t.currpid = s.currpid /\ t.sstate = s.sstate
        /\ t.readylist = s.readylist /\ t.sleepq = list /\ t.squeue = s.squeue
        /\ t.scount = s.scount
    BY <2>2, <2>3 DEF Tables
  <2>5. /\ Pids(s.readylist) = Pids(s.readylist) \ {p}
        /\ \A sem \in Sem : Members(s.squeue[sem]) = Members(s.squeue[sem]) \ {p}
    BY <1>4, OnQueue
  <2>6. Counts(t)
    BY <2>4 DEF Counts
  <2> QED
    BY <1>2, <1>3, <2>1, <2>2, <2>4, <2>5, <2>6 DEF t, list, Shorter
<1>5. CASE s.prstate[p] = "WAIT"
  <2> DEFINE sem == s.prsem[p]
             queue == Left(s.squeue[sem], p)
  <2>1. sem \in Sem /\ p \in Members(s.squeue[sem])
    BY <1>5, OnQueue DEF Queued
  <2>2. /\ queue \in Seq(Pid) /\ Members(queue) = Members(s.squeue[sem]) \ {p}
        /\ NoRepeats(queue) /\ Len(queue) = Len(s.squeue[sem]) - 1
    BY <1>1, <1>2, <2>1, LeftQueue
  <2> DEFINE counts == [s.scount EXCEPT ![sem] = @ + 1]
             queues == [s.squeue EXCEPT ![sem] = queue]
  <2>3. t = [s EXCEPT !.scount = counts, !.squeue = queues]
    BY <1>5, <1>1, <2>1 DEF Removed, Tables
  <2>8. counts \in [Sem -> Int] /\ queues \in [Sem -> Seq(Pid)]
    BY <1>1, <2>1, <2>2
  <2> HIDE DEF sem, queue, t, counts, queues
  <2>4. /\ t \in Tables /\ t.prstate = s.prstate /\ t.prsem = s.prsem /\ t.prprio = s.prprio
        /\ t.prhasmsg = s.prhasmsg /\ t.currpid = s.currpid /\ t.sstate = s.sstate
        /\ t.readylist = s.readylist /\ t.sleepq = s.sleepq
        /\ t.squeue = queues /\ t.scount = counts
    BY <2>3, <2>8 DEF Tables
  <2>5. /\ Pids(s.readylist) = Pids(s.readylist) \ {p}
        /\ Pids(s.sleepq) = Pids(s.sleepq) \ {p}
        /\ \A s2 \in Sem : s2 # sem => Members(s.squeue[s2]) = Members(s.squeue[s2]) \ {p}
    BY <1>5, OnQueue DEF Delayed, sem
  <2>6. \A s2 \in Sem : /\ NoRepeats(t.squeue[s2])
                        /\ Members(t.squeue[s2]) = Members(s.squeue[s2]) \ {p}
    BY <1>1, <1>2, <2>1, <2>2, <2>4, <2>5 DEF queues
  <2>7. Counts(t)
    <3>1. Len(s.squeue[sem]) \in Nat /\ Len(s.squeue[sem]) # 0
      BY <1>1, <2>1 DEF Members
    <3>2. s.scount[sem] < 0 /\ Len(s.squeue[sem]) = - s.scount[sem] /\ s.scount[sem] \in Int
      BY <1>1, <2>1, <3>1 DEF Counts
    <3>3. t.scount[sem] = s.scount[sem] + 1 /\ t.squeue[sem] = queue
      BY <1>1, <2>1, <2>4 DEF counts, queues
    <3>4. /\ Len(t.squeue[sem]) = (IF t.scount[sem] < 0 THEN -t.scount[sem] ELSE 0)
          /\ t.sstate[sem] # "FREE"
      <4>1. s.sstate[sem] # "FREE"
        BY <2>1, <3>1 DEF Counts
      <4> QED
        BY <2>2, <2>4, <3>2, <3>3, <4>1
    <3>5. \A s2 \in Sem : s2 # sem => t.scount[s2] = s.scount[s2] /\ t.squeue[s2] = s.squeue[s2]
      BY <1>1, <2>4 DEF counts, queues
    <3> QED
      BY <2>4, <3>4, <3>5 DEF Counts
  <2> QED
    BY <1>2, <1>3, <2>4, <2>5, <2>6, <2>7 DEF t, Shorter
<1>6. CASE s.prstate[p] = "READY"
  <2> DEFINE list == Without(s.readylist, p)
  <2>1. p \in Pids(s.readylist)
    BY <1>6, OnQueue
  <2>2. /\ list \in Seq(Entries) /\ Pids(list) = Pids(s.readylist) \ {p} /\ Distinct(list)
        /\ Descending(list) /\ Behind(list, s.readylist)
    BY <1>1, <1>2, <2>1, WithoutList DEF Behind
  <2>3. t = [s EXCEPT !.readylist = list]
    BY <1>6 DEF Removed, Tables
  <2> HIDE DEF list, t
  <2>4. /\ t \in Tables /\ t.prstate = s.prstate /\ t.prsem = s.prsem /\ t.prprio = s.prprio
        /\ t.prhasmsg = s.prhasmsg /\ t.currpid = s.currpid /\ t.sstate = s.sstate
        /\ t.readylist = list /\ t.sleepq = s.sleepq /\ t.squeue = s.squeue
        /\ t.scount = s.scount
    BY <2>2, <2>3 DEF Tables
  <2>5. /\ Pids(s.sleepq) = Pids(s.sleepq) \ {p}
        /\ \A sem \in Sem : Members(s.squeue[sem]) = Members(s.squeue[sem]) \ {p}
    BY <1>6, OnQueue DEF Delayed
  <2>6. Counts(t)
    BY <2>4 DEF Counts
  <2> QED
    BY <1>2, <2>2, <2>4, <2>5, <2>6 DEF t, Shorter
<1>7. CASE s.prstate[p] \notin {"SLEEP", "RECTIM", "WAIT", "READY"}
  <2>1. t = s
    BY <1>7 DEF Removed
  <2>2. /\ Pids(s.readylist) = Pids(s.readylist) \ {p}
        /\ Pids(s.sleepq) = Pids(s.sleepq) \ {p}
        /\ \A sem \in Sem : Members(s.squeue[sem]) = Members(s.squeue[sem]) \ {p}
    BY <1>7, OnQueue DEF Delayed
  <2> QED
    BY <1>2, <1>3, <2>1, <2>2 DEF Shorter
<1> QED
  BY <1>4, <1>5, <1>6, <1>7

\* p is dead.
LEMMA FreedHalf ==
  ASSUME NEW s, NEW ranked \in BOOLEAN, Half(s, {}, ranked), NEW p \in User
  PROVE  LET t == Freed(s, p) IN
         /\ Half(t, {}, ranked) /\ t.currpid = s.currpid /\ Shorter(s.sleepq, t.sleepq)
         /\ t.prstate = [s.prstate EXCEPT ![p] = "FREE"]
         /\ ranked /\ Top(s) /\ p # s.currpid => Top(t)
<1> DEFINE u == Removed(s, p)
           t == Freed(s, p)
<1>1. /\ s \in Tables /\ Queued(s, {}) /\ Counts(s) /\ Heard(s, {}) /\ (ranked => Keyed(s))
      /\ p \in Pid /\ p # NULLPROC /\ NULLPROC \in Pid
  BY NullPid DEF Half, User, Pid, NULLPROC
<1>2. /\ u \in Tables /\ u.prstate = s.prstate /\ u.prsem = s.prsem /\ u.prprio = s.prprio
      /\ u.prhasmsg = s.prhasmsg /\ u.currpid = s.currpid /\ u.sstate = s.sstate
      /\ Distinct(u.readylist) /\ Descending(u.readylist)
      /\ Pids(u.readylist) = Pids(s.readylist) \ {p} /\ Behind(u.readylist, s.readylist)
      /\ Distinct(u.sleepq) /\ Pids(u.sleepq) = Pids(s.sleepq) \ {p}
      /\ \A sem \in Sem : /\ NoRepeats(u.squeue[sem])
                          /\ Members(u.squeue[sem]) = Members(s.squeue[sem]) \ {p}
      /\ Counts(u) /\ Shorter(s.sleepq, u.sleepq)
  BY <1>1, RemovedQueues
<1> HIDE DEF u
<1> DEFINE states == [u.prstate EXCEPT ![p] = "FREE"]
           msgs == [u.prhasmsg EXCEPT ![p] = FALSE]
           prios == [u.prprio EXCEPT ![p] = 0]
           sems == [u.prsem EXCEPT ![p] = -1]
           parents == [u.prparent EXCEPT ![p] = NULLPROC]
<1>3. t = [u EXCEPT !.prstate = states, !.prhasmsg = msgs, !.prprio = prios, !.prsem = sems,
                    !.prparent = parents]
  BY <1>2 DEF Freed, u, Tables
<1>4. /\ states \in [Pid -> State] /\ msgs \in [Pid -> BOOLEAN] /\ prios \in [Pid -> Nat]
      /\ sems \in [Pid -> Sem \cup {-1}] /\ parents \in [Pid -> Pid]
  BY <1>1, <1>2 DEF Tables, State
<1>5. /\ \A q \in Pid : q # p => /\ states[q] = s.prstate[q] /\ sems[q] = s.prsem[q]
                                /\ msgs[q] = s.prhasmsg[q] /\ prios[q] = s.prprio[q]
      /\ states[p] = "FREE"
  BY <1>1, <1>2 DEF Tables
<1>6. states = [s.prstate EXCEPT ![p] = "FREE"]
  BY <1>2
<1> HIDE DEF t, states, msgs, prios, sems, parents
<1>7. /\ t \in Tables /\ t.prstate = states /\ t.prsem = sems /\ t.prprio = prios
      /\ t.prhasmsg = msgs /\ t.currpid = u.currpid /\ t.sstate = u.sstate
      /\ t.readylist = u.readylist /\ t.sleepq = u.sleepq /\ t.squeue = u.squeue
      /\ t.scount = u.scount
  BY <1>2, <1>3, <1>4 DEF Tables
<1>8. Queued(t, {})
  <2>1. OneMoved(s, t, p, {})
    BY <1>1, <1>2, <1>5, <1>7 DEF OneMoved, Delayed
  <2> QED
    BY <1>1, <2>1, OneQueued
<1>9. Counts(t)
  BY <1>2, <1>7 DEF Counts
<1>10. Heard(t, {})
  BY <1>1, <1>5, <1>7 DEF Heard
<1>11. ASSUME ranked
       PROVE  Keyed(t)
  <2> SUFFICES ASSUME NEW i \in 1 .. Len(t.readylist)
               PROVE  t.readylist[i].key = t.prprio[t.readylist[i].pid]
    BY DEF Keyed
  <2>1. PICK j \in 1 .. Len(s.readylist) : t.readylist[i] = s.readylist[j]
    BY <1>2, <1>7 DEF Behind
  <2>2. s.readylist[j].key = s.prprio[s.readylist[j].pid]
    BY <1>1, <1>11 DEF Keyed
  <2>3. t.readylist[i].pid \in Pid /\ t.readylist[i].pid # p
    <3>1. t.readylist \in Seq(Entries)
      BY <1>7 DEF Tables
    <3>2. p \notin Pids(t.readylist)
      BY <1>2, <1>7
    <3> QED
      BY <3>1, <3>2, NamesShape
  <2> QED
    BY <1>5, <1>7, <2>1, <2>2, <2>3
<1>12. ASSUME ranked, Top(s), p # s.currpid
       PROVE  Top(t)
  <2> SUFFICES ASSUME t.readylist # << >>
               PROVE  t.prprio[t.currpid] >= Head(t.readylist).key
    BY DEF Top
  <2>1. /\ t.readylist \in Seq(Entries) /\ s.readylist \in Seq(Entries) /\ s.currpid \in Pid
        /\ s.prprio \in [Pid -> Nat]
    BY <1>1, <1>7 DEF Tables
  <2>2. 1 \in 1 .. Len(t.readylist) /\ Head(t.readylist) = t.readylist[1]
    BY <2>1
  <2>3. PICK j \in 1 .. Len(s.readylist) : t.readylist[1] = s.readylist[j]
    BY <1>2, <1>7, <2>2 DEF Behind
  <2>4. /\ s.readylist[1].key \in Int /\ s.readylist[j].key \in Int
        /\ s.readylist[1].key >= s.readylist[j].key
    <3>1. 1 \in 1 .. Len(s.readylist)
      BY <2>1, <2>3
    <3>2. s.readylist[1].key \in Int /\ s.readylist[j].key \in Int
      BY <2>1, <3>1, EntriesShape
    <3>3. j = 1 \/ 1 < j
      OBVIOUS
    <3> QED
      BY <1>1, <3>1, <3>2, <3>3 DEF Queued, Descending
  <2>5. s.readylist # << >> /\ Head(s.readylist) = s.readylist[1]
    BY <2>1, <2>3
  <2>6. s.prprio[s.currpid] >= s.readylist[1].key
    BY <1>12, <2>5 DEF Top
  <2>7. t.currpid = s.currpid /\ t.prprio[s.currpid] = s.prprio[s.currpid]
    BY <1>2, <1>5, <1>7, <1>12, <2>1
  <2>8. s.prprio[s.currpid] \in Nat
    BY <2>1
  <2> QED
    BY <2>2, <2>3, <2>4, <2>6, <2>7, <2>8
<1>13. Half(t, {}, ranked)
  BY <1>7, <1>8, <1>9, <1>10, <1>11 DEF Half
<1> QED
  BY <1>2, <1>6, <1>7, <1>12, <1>13 DEF t

\* Only p has moved, and the ready list has at most lost it.
LEMMA OneHalf ==
  ASSUME NEW s, NEW t \in Tables, NEW ranked \in BOOLEAN, Half(s, {}, ranked),
         NEW p \in Pid, NEW out, OneMoved(s, t, p, out),
         t.prprio = s.prprio, t.prhasmsg = s.prhasmsg, Behind(t.readylist, s.readylist),
         Counts(t), p \in out \/ t.prstate[p] \notin {"RECV", "RECTIM"} \/ ~ t.prhasmsg[p]
  PROVE  Half(t, out, ranked)
<1>1. Queued(s, {}) /\ Heard(s, {}) /\ (ranked => Keyed(s))
  BY DEF Half
<1>2. Queued(t, out)
  BY <1>1, OneQueued
<1>3. Heard(t, out)
  BY <1>1 DEF Heard, OneMoved
<1>4. Keyed(s) => Keyed(t)
  BY DEF Keyed, Behind
<1> QED
  BY <1>1, <1>2, <1>3, <1>4 DEF Half

\* The process that runs is on no queue.
LEMMA Running ==
  ASSUME NEW s, NEW ranked \in BOOLEAN, Right(s, ranked)
  PROVE  /\ s \in Tables /\ Half(s, {}, ranked) /\ Queued(s, {}) /\ Counts(s) /\ Heard(s, {})
         /\ s.currpid \in Pid /\ s.prstate[s.currpid] = "CURR"
         /\ \A q \in Pid : s.prstate[q] = "CURR" => q = s.currpid
         /\ Distinct(s.readylist) /\ Descending(s.readylist) /\ Distinct(s.sleepq)
         /\ s.currpid \notin Pids(s.readylist) /\ s.currpid \notin Pids(s.sleepq)
         /\ \A sem \in Sem : /\ NoRepeats(s.squeue[sem])
                             /\ s.currpid \notin Members(s.squeue[sem])
         /\ Behind(s.readylist, s.readylist)
<1>1. s \in Tables /\ Queued(s, {}) /\ s.prstate[s.currpid] = "CURR" /\ s.currpid \in Pid
  BY DEF Right, Half, Tables
<1>2. s.readylist \in Seq(Entries)
  BY <1>1 DEF Tables
<1>3. Behind(s.readylist, s.readylist)
  BY <1>2 DEF Behind
<1>4. /\ s.currpid \notin Pids(s.readylist) /\ s.currpid \notin Pids(s.sleepq)
      /\ \A sem \in Sem : s.currpid \notin Members(s.squeue[sem])
  BY <1>1, OnQueue DEF Delayed
<1> QED
  BY <1>1, <1>3, <1>4 DEF Right, Half, Queued

\* The caller stops, without a queue.
LEMMA BlockedRight ==
  ASSUME NEW s, NEW ranked \in BOOLEAN, Right(s, ranked), s.currpid # NULLPROC,
         NEW state \in {"SUSP", "RECV"},
         state = "RECV" => ~ s.prhasmsg[s.currpid]
  PROVE  /\ Right(resched(Blocked(s, state)), ranked)
         /\ resched(Blocked(s, state)).sleepq = s.sleepq
<1> DEFINE p == s.currpid
           t == Blocked(s, state)
           states == [s.prstate EXCEPT ![p] = state]
<1>1. /\ s \in Tables /\ Half(s, {}, ranked) /\ Queued(s, {}) /\ Counts(s)
      /\ p \in Pid /\ s.prstate[p] = "CURR" /\ p # NULLPROC
      /\ Distinct(s.readylist) /\ Descending(s.readylist) /\ Distinct(s.sleepq)
      /\ p \notin Pids(s.readylist) /\ p \notin Pids(s.sleepq)
      /\ \A sem \in Sem : NoRepeats(s.squeue[sem]) /\ p \notin Members(s.squeue[sem])
      /\ Behind(s.readylist, s.readylist)
  BY Running
<1>2. /\ states \in [Pid -> State] /\ states[p] = state
      /\ \A q \in Pid : q # p => states[q] = s.prstate[q]
  BY <1>1 DEF Tables, State
<1>3. t = [s EXCEPT !.prstate = states]
  BY DEF Blocked
<1> HIDE DEF t, states
<1>4. /\ t \in Tables /\ t.prstate = states /\ t.prsem = s.prsem /\ t.prprio = s.prprio
      /\ t.prhasmsg = s.prhasmsg /\ t.currpid = p /\ t.readylist = s.readylist
      /\ t.sleepq = s.sleepq /\ t.squeue = s.squeue /\ t.scount = s.scount
      /\ t.sstate = s.sstate
  BY <1>1, <1>2, <1>3 DEF Tables
<1>5. OneMoved(s, t, p, {})
  BY <1>1, <1>2, <1>4 DEF OneMoved, Delayed
<1>6. Counts(t)
  BY <1>1, <1>4 DEF Counts
<1>7. Half(t, {}, ranked)
  BY <1>1, <1>2, <1>4, <1>5, <1>6, OneHalf
<1> QED
  BY <1>4, <1>7, reschedRight DEF t, Kept

\* The caller goes to sleep.
LEMMA DelayedRight ==
  ASSUME NEW s, NEW ranked \in BOOLEAN, Right(s, ranked), s.currpid # NULLPROC,
         NEW state \in Delayed, NEW delay \in Int,
         state = "RECTIM" => ~ s.prhasmsg[s.currpid]
  PROVE  LET t == resched([Blocked(s, state) EXCEPT !.sleepq = insertd(@, s.currpid, delay)])
         IN  Right(t, ranked) /\ t.sleepq = insertd(s.sleepq, s.currpid, delay)
<1> DEFINE p == s.currpid
           list == insertd(s.sleepq, p, delay)
           t == [Blocked(s, state) EXCEPT !.sleepq = insertd(@, s.currpid, delay)]
           states == [s.prstate EXCEPT ![p] = state]
<1>1. /\ s \in Tables /\ Half(s, {}, ranked) /\ Queued(s, {}) /\ Counts(s)
      /\ p \in Pid /\ s.prstate[p] = "CURR" /\ p # NULLPROC
      /\ Distinct(s.readylist) /\ Descending(s.readylist) /\ Distinct(s.sleepq)
      /\ p \notin Pids(s.readylist) /\ p \notin Pids(s.sleepq)
      /\ \A sem \in Sem : NoRepeats(s.squeue[sem]) /\ p \notin Members(s.squeue[sem])
      /\ Behind(s.readylist, s.readylist)
  BY Running
<1>2. s.sleepq \in Seq(Entries)
  BY <1>1 DEF Tables
<1>3. list \in Seq(Entries) /\ Pids(list) = Pids(s.sleepq) \cup {p} /\ Distinct(list)
  BY <1>1, <1>2, InsertdList
<1>4. /\ states \in [Pid -> State] /\ states[p] = state
      /\ \A q \in Pid : q # p => states[q] = s.prstate[q]
  BY <1>1 DEF Tables, State, Delayed
<1>5. t = [s EXCEPT !.prstate = states, !.sleepq = list]
  BY <1>1 DEF Blocked, Tables
<1> HIDE DEF t, states, list
<1>6. /\ t \in Tables /\ t.prstate = states /\ t.prsem = s.prsem /\ t.prprio = s.prprio
      /\ t.prhasmsg = s.prhasmsg /\ t.currpid = p /\ t.readylist = s.readylist
      /\ t.sleepq = list /\ t.squeue = s.squeue /\ t.scount = s.scount
      /\ t.sstate = s.sstate
  BY <1>1, <1>3, <1>4, <1>5 DEF Tables
<1>7. OneMoved(s, t, p, {})
  BY <1>1, <1>3, <1>4, <1>6 DEF OneMoved, Delayed
<1>8. Counts(t)
  BY <1>1, <1>6 DEF Counts
<1>9. t.prstate[p] \notin {"RECV", "RECTIM"} \/ ~ t.prhasmsg[p]
  BY <1>4, <1>6 DEF Delayed
<1>10. Half(t, {}, ranked)
  BY <1>1, <1>6, <1>7, <1>8, <1>9, OneHalf
<1> QED
  BY <1>6, <1>10, reschedRight DEF t, list, Kept

\* A semaphore with processes that wait, or one that is about to.
LEMMA CountsOther ==
  ASSUME NEW s \in Tables, NEW t, Counts(s), NEW sem \in Sem,
         \A x \in Sem : x # sem => /\ t.squeue[x] = s.squeue[x]
                                   /\ t.scount[x] = s.scount[x]
                                   /\ t.sstate[x] = s.sstate[x],
         Len(t.squeue[sem]) = (IF t.scount[sem] < 0 THEN -t.scount[sem] ELSE 0),
         t.sstate[sem] = "FREE" => t.squeue[sem] = << >>
  PROVE  Counts(t)
BY DEF Counts

\* The caller waits for a semaphore whose count is used up.
LEMMA WaitRight ==
  ASSUME NEW s, NEW ranked \in BOOLEAN, Right(s, ranked), s.currpid # NULLPROC,
         NEW sem \in Sem, s.sstate[sem] = "USED", s.scount[sem] - 1 < 0
  PROVE  LET s1 == [s EXCEPT !.scount[sem] = @ - 1]
             t  == resched([Blocked(s1, "WAIT") EXCEPT !.prsem[s.currpid] = sem,
                              !.squeue[sem] = Append(@, s.currpid)])
         IN  Right(t, ranked) /\ t.sleepq = s.sleepq
<1> DEFINE p == s.currpid
           s1 == [s EXCEPT !.scount[sem] = @ - 1]
           t == [Blocked(s1, "WAIT") EXCEPT !.prsem[s.currpid] = sem,
                          !.squeue[sem] = Append(@, s.currpid)]
           states == [s.prstate EXCEPT ![p] = "WAIT"]
           sems == [s.prsem EXCEPT ![p] = sem]
           counts == [s.scount EXCEPT ![sem] = @ - 1]
           queue == Append(s.squeue[sem], p)
           queues == [s.squeue EXCEPT ![sem] = queue]
<1>1. /\ s \in Tables /\ Half(s, {}, ranked) /\ Queued(s, {}) /\ Counts(s)
      /\ p \in Pid /\ s.prstate[p] = "CURR" /\ p # NULLPROC
      /\ Distinct(s.readylist) /\ Descending(s.readylist) /\ Distinct(s.sleepq)
      /\ p \notin Pids(s.readylist) /\ p \notin Pids(s.sleepq)
      /\ \A x \in Sem : NoRepeats(s.squeue[x]) /\ p \notin Members(s.squeue[x])
      /\ Behind(s.readylist, s.readylist)
  BY Running
<1>2. /\ s.squeue \in [Sem -> Seq(Pid)] /\ s.scount \in [Sem -> Int]
      /\ s.prstate \in [Pid -> State] /\ s.prsem \in [Pid -> Sem \cup {-1}]
  BY <1>1 DEF Tables
<1>3. /\ queue \in Seq(Pid) /\ Members(queue) = Members(s.squeue[sem]) \cup {p}
      /\ NoRepeats(queue)
  BY <1>1, <1>2, AppendMembers
<1>4. Len(queue) = Len(s.squeue[sem]) + 1
  BY <1>1, <1>2
<1>5. /\ states \in [Pid -> State] /\ states[p] = "WAIT"
      /\ \A q \in Pid : q # p => states[q] = s.prstate[q]
  BY <1>1, <1>2 DEF State
<1>6. /\ sems \in [Pid -> Sem \cup {-1}] /\ sems[p] = sem
      /\ \A q \in Pid : q # p => sems[q] = s.prsem[q]
  BY <1>1, <1>2
<1>7. t = [s EXCEPT !.prstate = states, !.prsem = sems, !.scount = counts, !.squeue = queues]
  BY <1>1 DEF Blocked, Tables
<1> HIDE DEF t, states, sems, queue
<1>8. /\ queues \in [Sem -> Seq(Pid)] /\ queues[sem] = queue
      /\ \A x \in Sem : x # sem => queues[x] = s.squeue[x]
  BY <1>2, <1>3
<1>9. /\ counts \in [Sem -> Int] /\ counts[sem] = s.scount[sem] - 1
      /\ \A x \in Sem : x # sem => counts[x] = s.scount[x]
  BY <1>2
<1> HIDE DEF queues, counts
<1>10. /\ t \in Tables /\ t.prstate = states /\ t.prsem = sems /\ t.prprio = s.prprio
       /\ t.prhasmsg = s.prhasmsg /\ t.currpid = p /\ t.readylist = s.readylist
       /\ t.sleepq = s.sleepq /\ t.squeue = queues /\ t.scount = counts
       /\ t.sstate = s.sstate
  BY <1>1, <1>5, <1>6, <1>7, <1>8, <1>9 DEF Tables
<1>11. OneMoved(s, t, p, {})
  <2>1. ASSUME NEW x \in Sem
        PROVE  /\ NoRepeats(t.squeue[x])
               /\ Members(t.squeue[x]) =
                    IF t.prstate[p] = "WAIT" /\ t.prsem[p] = x /\ p \notin {}
                    THEN Members(s.squeue[x]) \cup {p} ELSE Members(s.squeue[x]) \ {p}
    BY <1>1, <1>3, <1>5, <1>6, <1>8, <1>10, SMTT(30)
  <2> QED
    BY <1>1, <1>5, <1>6, <1>10, <2>1 DEF OneMoved, Delayed
<1>12. Counts(t)
  <2>1. Len(s.squeue[sem]) = (IF s.scount[sem] < 0 THEN -s.scount[sem] ELSE 0)
    BY <1>1 DEF Counts
  <2>2. Len(t.squeue[sem]) = (IF t.scount[sem] < 0 THEN -t.scount[sem] ELSE 0)
    <3>1. s.scount[sem] \in Int /\ Len(s.squeue[sem]) = - s.scount[sem]
      BY <1>2, <2>1
    <3>2. t.scount[sem] = s.scount[sem] - 1 /\ Len(t.squeue[sem]) = Len(s.squeue[sem]) + 1
      BY <1>4, <1>8, <1>9, <1>10
    <3> QED
      BY <3>1, <3>2
  <2> QED
    BY <1>1, <1>8, <1>9, <1>10, <2>2, CountsOther
<1>13. Half(t, {}, ranked)
  BY <1>1, <1>5, <1>10, <1>11, <1>12, OneHalf
<1> QED
  BY <1>10, <1>13, reschedRight DEF t, s1, Kept

\* From s to t the first r processes that wait for sem, ps, leave its queue.
Releases(s, t, sem, r, ps) ==
  /\ t.prstate = s.prstate /\ t.prsem = s.prsem /\ t.prprio = s.prprio
  /\ t.prhasmsg = s.prhasmsg /\ t.currpid = s.currpid
  /\ t.readylist = s.readylist /\ t.sleepq = s.sleepq
  /\ \A x \in Sem : x # sem => /\ t.squeue[x] = s.squeue[x]
                               /\ t.scount[x] = s.scount[x]
                               /\ t.sstate[x] = s.sstate[x]
  /\ Cut(s.squeue[sem], r, ps, t.squeue[sem])
  /\ Len(t.squeue[sem]) = (IF t.scount[sem] < 0 THEN -t.scount[sem] ELSE 0)
  /\ t.sstate[sem] = "FREE" => t.squeue[sem] = << >>

\* The first r processes that wait for a semaphore are released (signaln.c:28-34,
\* semdelete.c:30-34, semreset.c:29-33).
LEMMA ReleasedRight ==
  ASSUME NEW s, NEW ranked \in BOOLEAN, Right(s, ranked), NEW sem \in Sem,
         NEW t \in Tables, NEW ps \in Seq(Pid), NEW r, Releases(s, t, sem, r, ps)
  PROVE  Right(ReadyAll(t, ps), ranked) /\ ReadyAll(t, ps).sleepq = s.sleepq
<1> USE DEF Releases
<1> DEFINE queue == s.squeue[sem]
           rest == t.squeue[sem]
           out == Members(ps)
<1>1. /\ s \in Tables /\ Half(s, {}, ranked) /\ Queued(s, {}) /\ Counts(s) /\ Heard(s, {})
      /\ s.prstate[s.currpid] = "CURR" /\ (ranked => Top(s) /\ Keyed(s))
  BY DEF Right, Half
<1>2. queue \in Seq(Pid) /\ NoRepeats(queue) /\ Members(queue) = Waiters(s, sem)
  BY <1>1 DEF Tables, Queued
<1>3. rest \in Seq(Pid) /\ Cut(queue, r, ps, rest)
  BY DEF Tables
<1> HIDE DEF queue, rest, out
<1>4. /\ Members(ps) \subseteq Members(queue) /\ NoRepeats(ps)
      /\ Members(rest) = Members(queue) \ Members(ps) /\ NoRepeats(rest)
  BY <1>2, <1>3, CutMembers
<1>5. out \subseteq Members(queue) /\ Members(rest) = Members(queue) \ out
  BY <1>4 DEF out
<1>6. \A q \in out : q \in Pid /\ s.prstate[q] = "WAIT" /\ s.prsem[q] = sem
  BY <1>2, <1>5 DEF Waiters
<1>7. Queued(t, out)
  <2>1. out \subseteq Pid /\ \A q \in out : t.prstate[q] \in Stopped
    BY <1>6 DEF Stopped
  <2>2. Pids(t.sleepq) = Sleeping(t) \ out
    <3>1. Sleeping(t) = Sleeping(s) /\ Pids(t.sleepq) = Sleeping(s) \ {}
      BY <1>1 DEF Queued, Sleeping
    <3> QED
      BY <1>6, <3>1 DEF Sleeping, Delayed
  <2>3. ASSUME NEW x \in Sem
        PROVE  Members(t.squeue[x]) = Waiters(t, x) \ out /\ NoRepeats(t.squeue[x])
    <3>1. Waiters(t, x) = Waiters(s, x)
      BY DEF Waiters
    <3>2. CASE x = sem
      BY <1>2, <1>4, <1>5, <3>1, <3>2 DEF rest
    <3>3. CASE x # sem
      <4>1. Members(t.squeue[x]) = Waiters(s, x) \ {} /\ NoRepeats(t.squeue[x])
        BY <1>1, <3>3 DEF Queued
      <4>2. \A q \in out : q \notin Waiters(s, x)
        BY <1>6, <3>3 DEF Waiters
      <4> QED
        BY <3>1, <4>1, <4>2
    <3> QED
      BY <3>2, <3>3
  <2> QED
    BY <1>1, <2>1, <2>2, <2>3 DEF Queued
<1>8. Counts(t)
  BY <1>1, CountsOther
<1>9. Heard(t, out) /\ (ranked => Keyed(t) /\ Top(t))
  BY <1>1 DEF Heard, Keyed, Top
<1>10. Half(t, out, ranked)
  BY <1>7, <1>8, <1>9 DEF Half
<1>11. Right(ReadyAll(t, ps), ranked) /\ Kept(t, ReadyAll(t, ps))
  BY <1>1, <1>4, <1>9, <1>10, ReadyAllRight DEF out
<1> QED
  BY <1>11 DEF Kept

\* The process that runs has the highest priority also when others leave the
\* ready list.
LEMMA TopBehind ==
  ASSUME NEW s \in Tables, NEW t \in Tables, Top(s), Descending(s.readylist),
         Behind(t.readylist, s.readylist), t.currpid = s.currpid,
         t.prprio[s.currpid] = s.prprio[s.currpid]
  PROVE  Top(t)
<1> SUFFICES ASSUME t.readylist # << >>
             PROVE  t.prprio[t.currpid] >= Head(t.readylist).key
  BY DEF Top
<1>1. /\ t.readylist \in Seq(Entries) /\ s.readylist \in Seq(Entries) /\ s.currpid \in Pid
      /\ s.prprio \in [Pid -> Nat]
  BY DEF Tables
<1>2. 1 \in 1 .. Len(t.readylist) /\ Head(t.readylist) = t.readylist[1]
  BY <1>1
<1>3. PICK j \in 1 .. Len(s.readylist) : t.readylist[1] = s.readylist[j]
  BY <1>2 DEF Behind
<1>4. /\ s.readylist[1].key \in Int /\ s.readylist[j].key \in Int
      /\ s.readylist[1].key >= s.readylist[j].key
  <2>1. 1 \in 1 .. Len(s.readylist) /\ j \in 1 .. Len(s.readylist)
    BY <1>1, <1>3
  <2>2. s.readylist[1].key \in Int /\ s.readylist[j].key \in Int
    BY <1>1, <2>1, EntriesShape
  <2>3. j = 1 \/ 1 < j
    OBVIOUS
  <2> QED
    BY <2>1, <2>2, <2>3 DEF Descending
<1>5. s.readylist # << >> /\ Head(s.readylist) = s.readylist[1]
  BY <1>1, <1>3
<1>6. s.prprio[s.currpid] >= s.readylist[1].key
  BY <1>5 DEF Top
<1>7. s.prprio[s.currpid] \in Nat
  BY <1>1
<1> QED
  BY <1>2, <1>3, <1>4, <1>6, <1>7

\* A process that is ready is suspended.
LEMMA SuspendedRight ==
  ASSUME NEW s, NEW ranked \in BOOLEAN, Right(s, ranked), NEW p \in Pid, p # NULLPROC,
         s.prstate[p] = "READY"
  PROVE  Right([s EXCEPT !.readylist = Without(@, p), !.prstate[p] = "SUSP"], ranked)
<1> DEFINE list == Without(s.readylist, p)
           states == [s.prstate EXCEPT ![p] = "SUSP"]
           t == [s EXCEPT !.readylist = Without(@, p), !.prstate[p] = "SUSP"]
<1>1. /\ s \in Tables /\ Half(s, {}, ranked) /\ Queued(s, {}) /\ Counts(s)
      /\ s.currpid \in Pid /\ s.prstate[s.currpid] = "CURR" /\ (ranked => Top(s))
      /\ Distinct(s.readylist) /\ Descending(s.readylist) /\ Distinct(s.sleepq)
      /\ \A sem \in Sem : NoRepeats(s.squeue[sem])
  BY Running DEF Right
<1>2. s.readylist \in Seq(Entries) /\ s.prstate \in [Pid -> State]
  BY <1>1 DEF Tables
<1>3. /\ p \in Pids(s.readylist) /\ p \notin Pids(s.sleepq)
      /\ \A sem \in Sem : p \notin Members(s.squeue[sem])
  BY <1>1, OnQueue DEF Delayed
<1>4. /\ list \in Seq(Entries) /\ Pids(list) = Pids(s.readylist) \ {p} /\ Distinct(list)
      /\ Descending(list) /\ Behind(list, s.readylist)
  BY <1>1, <1>2, <1>3, WithoutList DEF Behind
<1>5. /\ states \in [Pid -> State] /\ states[p] = "SUSP"
      /\ \A q \in Pid : q # p => states[q] = s.prstate[q]
  BY <1>2 DEF State
<1>6. t = [s EXCEPT !.readylist = list, !.prstate = states]
  BY <1>1 DEF Tables
<1> HIDE DEF t, states, list
<1>7. /\ t \in Tables /\ t.prstate = states /\ t.prsem = s.prsem /\ t.prprio = s.prprio
      /\ t.prhasmsg = s.prhasmsg /\ t.currpid = s.currpid /\ t.readylist = list
      /\ t.sleepq = s.sleepq /\ t.squeue = s.squeue /\ t.scount = s.scount
      /\ t.sstate = s.sstate
  BY <1>1, <1>4, <1>5, <1>6 DEF Tables
<1>8. OneMoved(s, t, p, {})
  BY <1>1, <1>3, <1>4, <1>5, <1>7 DEF OneMoved, Delayed
<1>9. Counts(t)
  BY <1>1, <1>7 DEF Counts
<1>10. Half(t, {}, ranked)
  BY <1>1, <1>4, <1>5, <1>7, <1>8, <1>9, OneHalf
<1>11. ranked => Top(t)
  BY <1>1, <1>4, <1>7, TopBehind
<1>12. t.prstate[t.currpid] = "CURR"
  BY <1>1, <1>5, <1>7
<1>13. Right(t, ranked)
  BY <1>10, <1>11, <1>12 DEF Right
<1> QED
  BY <1>13 DEF t

\* A process that is suspended resumes.
LEMMA ResumedRight ==
  ASSUME NEW s, NEW ranked \in BOOLEAN, Right(s, ranked), NEW p \in Pid,
         s.prstate[p] = "SUSP"
  PROVE  Right(ready(s, p), ranked) /\ ready(s, p).sleepq = s.sleepq
<1>1. s \in Tables /\ Queued(s, {}) /\ Counts(s) /\ Heard(s, {}) /\ (ranked => Keyed(s))
  BY DEF Right, Half
<1>2. Queued(s, {p})
  <2>1. p \notin Sleeping(s) /\ \A sem \in Sem : p \notin Waiters(s, sem)
    BY DEF Sleeping, Waiters, Delayed
  <2> QED
    BY <1>1, <2>1 DEF Queued, Stopped
<1>3. Half(s, {p}, ranked)
  BY <1>1, <1>2 DEF Half, Heard
<1> QED
  BY <1>3, readyRight DEF Kept

\* A new process, on a free entry.
LEMMA CreatedRight ==
  ASSUME NEW s, NEW ranked \in BOOLEAN, Right(s, ranked), NEW p \in Pid,
         s.prstate[p] = "FREE", NEW prio \in Nat
  PROVE  Right([s EXCEPT !.prstate[p] = "SUSP", !.prprio[p] = prio,
                         !.prparent[p] = s.currpid, !.prhasmsg[p] = FALSE,
                         !.prcount = @ + 1, !.nextpid = (p + 1) % NPROC], ranked)
<1> DEFINE states == [s.prstate EXCEPT ![p] = "SUSP"]
           prios == [s.prprio EXCEPT ![p] = prio]
           parents == [s.prparent EXCEPT ![p] = s.currpid]
           msgs == [s.prhasmsg EXCEPT ![p] = FALSE]
           next == (p + 1) % NPROC
           count == s.prcount + 1
           t == [s EXCEPT !.prstate[p] = "SUSP", !.prprio[p] = prio,
                          !.prparent[p] = s.currpid, !.prhasmsg[p] = FALSE,
                          !.prcount = @ + 1, !.nextpid = (p + 1) % NPROC]
<1>1. /\ s \in Tables /\ Queued(s, {}) /\ Counts(s) /\ Heard(s, {})
      /\ s.currpid \in Pid /\ s.prstate[s.currpid] = "CURR"
      /\ (ranked => Top(s) /\ Keyed(s))
      /\ Distinct(s.readylist) /\ Descending(s.readylist) /\ Distinct(s.sleepq)
      /\ \A sem \in Sem : NoRepeats(s.squeue[sem])
      /\ Behind(s.readylist, s.readylist)
  BY Running DEF Right, Half
<1>2. /\ p # NULLPROC /\ p \notin Pids(s.readylist) /\ p \notin Pids(s.sleepq)
      /\ \A sem \in Sem : p \notin Members(s.squeue[sem])
  BY <1>1, OnQueue DEF Delayed, Queued, Eligible
<1>3. next \in Pid
  BY KernelAssumption DEF Pid
<1>4. /\ s.prstate \in [Pid -> State] /\ s.prprio \in [Pid -> Nat]
      /\ s.prparent \in [Pid -> Pid] /\ s.prhasmsg \in [Pid -> BOOLEAN] /\ s.prcount \in Int
      /\ s.readylist \in Seq(Entries)
  BY <1>1 DEF Tables
<1>5. /\ states \in [Pid -> State] /\ prios \in [Pid -> Nat] /\ parents \in [Pid -> Pid]
      /\ msgs \in [Pid -> BOOLEAN] /\ count \in Int
  BY <1>1, <1>4 DEF State
<1>6. /\ states[p] = "SUSP" /\ msgs[p] = FALSE
      /\ \A q \in Pid : q # p => /\ states[q] = s.prstate[q] /\ prios[q] = s.prprio[q]
                                 /\ msgs[q] = s.prhasmsg[q]
  BY <1>4
<1>7. t = [s EXCEPT !.prstate = states, !.prprio = prios, !.prparent = parents,
                    !.prhasmsg = msgs, !.prcount = count, !.nextpid = next]
  BY <1>1 DEF Tables
<1> HIDE DEF t, states, prios, parents, msgs, count, next
<1>8. /\ t \in Tables /\ t.prstate = states /\ t.prsem = s.prsem /\ t.prprio = prios
      /\ t.prhasmsg = msgs /\ t.currpid = s.currpid /\ t.readylist = s.readylist
      /\ t.sleepq = s.sleepq /\ t.squeue = s.squeue /\ t.scount = s.scount
      /\ t.sstate = s.sstate
  BY <1>1, <1>3, <1>5, <1>7 DEF Tables
<1>9. Queued(t, {})
  <2>1. OneMoved(s, t, p, {})
    BY <1>1, <1>2, <1>6, <1>8 DEF OneMoved, Delayed
  <2> QED
    BY <1>1, <2>1, OneQueued
<1>10. Counts(t)
  BY <1>1, <1>8 DEF Counts
<1>11. Heard(t, {})
  BY <1>1, <1>6, <1>8 DEF Heard
<1>12. ASSUME ranked
       PROVE  Keyed(t) /\ Top(t)
  <2>1. ASSUME NEW i \in 1 .. Len(s.readylist)
        PROVE  s.readylist[i].key = prios[s.readylist[i].pid]
    <3>1. s.readylist[i].pid \in Pids(s.readylist) /\ s.readylist[i].pid \in Pid
      BY <1>4, NamesShape
    <3>2. s.readylist[i].pid # p
      BY <1>2, <3>1
    <3> QED
      BY <1>1, <1>6, <1>12, <3>1, <3>2 DEF Keyed
  <2>2. Keyed(t)
    BY <1>8, <2>1 DEF Keyed
  <2>3. s.currpid # p
    BY <1>1
  <2>4. Top(t)
    BY <1>1, <1>6, <1>8, <1>12, <2>3 DEF Top
  <2> QED
    BY <2>2, <2>4
<1>13. t.prstate[t.currpid] = "CURR"
  BY <1>1, <1>6, <1>8
<1>14. Right(t, ranked)
  BY <1>8, <1>9, <1>10, <1>11, <1>12, <1>13 DEF Right, Half
<1> QED
  BY <1>14 DEF t

-----------------------------------------------------------------------------
(* The clock.                                                               *)

\* wakeup.c:14-17: those before the first delay expire.
LEMMA ExpiredShape ==
  ASSUME NEW list \in Seq(Entries)
  PROVE  /\ Expired(list) \in 0 .. Len(list)
         /\ \A i \in 1 .. Expired(list) : list[i].key <= 0
         /\ Expired(list) < Len(list) => list[Expired(list) + 1].key > 0
<1> DEFINE N == Len(list)
           P == {i \in 1 .. N : \A j \in 1 .. i : list[j].key <= 0}
           n == Cardinality(P)
<1>1. N \in Nat /\ \A i \in 1 .. N : list[i].key \in Int
  BY EntriesShape
<1>2. \A i \in P : \A j \in 1 .. i : j \in P
  OBVIOUS
<1>3. P \in SUBSET (1 .. N)
  OBVIOUS
<1>4. \A i \in 1 .. N : i \in P <=> \A j \in 1 .. i : list[j].key <= 0
  OBVIOUS
<1>5. n = Expired(list)
  BY DEF Expired
<1> HIDE DEF P, N
<1>6. n \in 0 .. N /\ P = 1 .. n
  BY <1>1, <1>2, <1>3, FirstPlaces
<1> HIDE DEF n
<1>7. \A i \in 1 .. n : list[i].key <= 0
  BY <1>1, <1>4, <1>6
<1>8. ASSUME n < N
      PROVE  list[n + 1].key > 0
  <2>1. n + 1 \in 1 .. N /\ n + 1 \notin P
    BY <1>1, <1>6, <1>8
  <2>2. PICK j \in 1 .. n + 1 : ~ (list[j].key <= 0)
    BY <1>4, <2>1
  <2>3. j = n + 1
    BY <1>6, <1>7, <2>2
  <2> QED
    BY <1>1, <2>1, <2>2, <2>3
<1> QED
  BY <1>5, <1>6, <1>7, <1>8 DEF N

\* The processes that wakeup takes off the list become ready.
LEMMA WokenHalf ==
  ASSUME NEW s, NEW ranked \in BOOLEAN, Right(s, ranked)
  PROVE  LET t == wakeup(s)
             n == Expired(s.sleepq)
         IN
         /\ Half(t, {}, ranked)
         /\ t.sleepq = SubSeq(s.sleepq, n + 1, Len(s.sleepq))
<1> DEFINE n == Expired(s.sleepq)
           list == s.sleepq
           rest == SubSeq(list, n + 1, Len(list))
           ps == [i \in 1 .. n |-> list[i].pid]
           u == [s EXCEPT !.sleepq = rest]
           out == Members(ps)
           a == Names(list)
           b == Names(rest)
<1>1. /\ s \in Tables /\ Queued(s, {}) /\ Counts(s) /\ Heard(s, {}) /\ (ranked => Keyed(s))
  BY DEF Right, Half
<1>2. list \in Seq(Entries) /\ Distinct(list) /\ Pids(list) = Sleeping(s)
  BY <1>1 DEF Tables, Queued
<1>3. n \in 0 .. Len(list)
  BY <1>2, ExpiredShape
<1> HIDE DEF n
<1>4. /\ rest \in Seq(Entries) /\ Len(rest) = Len(list) - n
      /\ \A j \in 1 .. Len(rest) : rest[j] = list[j + n]
  BY <1>2, <1>3, DropShape
<1>5. /\ a \in Seq(Pid) /\ Len(a) = Len(list) /\ \A i \in 1 .. Len(list) : a[i] = list[i].pid
      /\ NoRepeats(a) /\ Members(a) = Sleeping(s)
  BY <1>2, NamesShape DEF Distinct, Pids
<1>6. /\ b \in Seq(Pid) /\ Len(b) = Len(rest) /\ \A i \in 1 .. Len(rest) : b[i] = rest[i].pid
  BY <1>4, NamesShape
<1> HIDE DEF a, b, rest
<1>7. ps \in Seq(Pid) /\ Len(ps) = n /\ \A i \in 1 .. n : ps[i] = a[i]
  <2>1. \A i \in 1 .. n : i \in 1 .. Len(list) /\ list[i].pid \in Pid
    BY <1>2, <1>3, EntriesShape
  <2> QED
    BY <1>3, <1>5, <2>1
<1> HIDE DEF ps
<1>8. Cut(a, n, ps, b)
  <2>1. ASSUME NEW j \in 1 .. Len(b)
        PROVE  b[j] = a[j + n]
    <3>1. j \in 1 .. Len(rest) /\ j + n \in 1 .. Len(list)
      BY <1>3, <1>4, <1>6
    <3> QED
      BY <1>4, <1>5, <1>6, <3>1
  <2> QED
    BY <1>3, <1>4, <1>5, <1>6, <1>7, <2>1 DEF Cut
<1>9. /\ Members(ps) \subseteq Members(a) /\ NoRepeats(ps)
      /\ Members(b) = Members(a) \ Members(ps) /\ NoRepeats(b)
  BY <1>5, <1>6, <1>7, <1>8, CutMembers
<1>10. Pids(rest) = Sleeping(s) \ out /\ Distinct(rest) /\ out \subseteq Sleeping(s)
  BY <1>5, <1>9 DEF Pids, Distinct, b
<1> HIDE DEF list, out
<1>11. /\ u \in Tables /\ u.prstate = s.prstate /\ u.prsem = s.prsem /\ u.prprio = s.prprio
       /\ u.prhasmsg = s.prhasmsg /\ u.currpid = s.currpid /\ u.readylist = s.readylist
       /\ u.sleepq = rest /\ u.squeue = s.squeue /\ u.scount = s.scount
       /\ u.sstate = s.sstate
  BY <1>1, <1>4 DEF Tables
<1> HIDE DEF u
<1>12. Queued(u, out)
  <2>1. \A q \in out : q \in Pid /\ s.prstate[q] \in Delayed
    BY <1>10 DEF Sleeping
  <2>2. \A sem \in Sem : Waiters(u, sem) = Waiters(s, sem) \ {} /\ Waiters(u, sem) \ out = Waiters(u, sem)
    BY <1>11, <2>1 DEF Waiters, Delayed
  <2>3. Sleeping(u) = Sleeping(s)
    BY <1>11 DEF Sleeping
  <2> QED
    BY <1>1, <1>10, <1>11, <2>1, <2>2, <2>3 DEF Queued, Stopped
<1>13. Half(u, out, ranked)
  BY <1>1, <1>11, <1>12 DEF Half, Counts, Heard, Keyed
<1>14. wakeup(s) = MakeAllReady(u, ps)
  BY DEF wakeup, u, ps, rest, n, list
<1>15. Half(MakeAllReady(u, ps), {}, ranked) /\ Kept(u, MakeAllReady(u, ps))
  BY <1>7, <1>9, <1>13, MakeAllReadyHalf DEF out
<1> QED
  BY <1>11, <1>14, <1>15 DEF Kept, rest, n, list

\* A tick of the clock, before anybody wakes.
LEMMA TickedRight ==
  ASSUME NEW s, NEW ranked \in BOOLEAN, Right(s, ranked), s.sleepq # << >>
  PROVE  LET t == [s EXCEPT !.sleepq[1].key = @ - 1] IN
         /\ Right(t, ranked)
         /\ t.sleepq \in Seq(Entries) /\ Len(t.sleepq) = Len(s.sleepq)
         /\ t.sleepq[1] = Entry(s.sleepq[1].pid, s.sleepq[1].key - 1)
         /\ \A i \in 2 .. Len(s.sleepq) : t.sleepq[i] = s.sleepq[i]
<1> DEFINE list == s.sleepq
           e == Entry(list[1].pid, list[1].key - 1)
           u == [list EXCEPT ![1].key = @ - 1]
           t == [s EXCEPT !.sleepq[1].key = @ - 1]
<1>1. /\ s \in Tables /\ Queued(s, {}) /\ Counts(s) /\ Heard(s, {}) /\ (ranked => Keyed(s))
      /\ s.prstate[s.currpid] = "CURR" /\ (ranked => Top(s))
  BY DEF Right, Half
<1>2. list \in Seq(Entries) /\ Distinct(list) /\ Pids(list) = Sleeping(s) /\ 1 \in 1 .. Len(list)
  BY <1>1 DEF Tables, Queued
<1>3. e \in Entries /\ e.pid = list[1].pid
  BY <1>2, EntriesShape, EntryShape
<1>4. \A i \in 1 .. Len(list) : list[i] \in Entries
  BY <1>2, EntriesShape
<1>5. u = [list EXCEPT ![1] = e]
  <2>1. [list[1] EXCEPT !.key = @ - 1] = e
    BY <1>2, <1>4 DEF Entries, Entry
  <2>2. u = [list EXCEPT ![1] = [list[1] EXCEPT !.key = @ - 1]]
    BY <1>2
  <2> QED
    BY <2>1, <2>2
<1>6. t = [s EXCEPT !.sleepq = u]
  BY <1>1, <1>2 DEF Tables
<1> HIDE DEF t, u, e
<1>7. /\ u \in Seq(Entries) /\ Len(u) = Len(list) /\ u[1] = e
      /\ \A i \in 2 .. Len(list) : u[i] = list[i]
  BY <1>2, <1>3, <1>5
<1>8. \A i \in 1 .. Len(list) : u[i].pid = list[i].pid
  <2>1. \A i \in 1 .. Len(list) : i = 1 \/ i \in 2 .. Len(list)
    OBVIOUS
  <2> QED
    BY <1>3, <1>7, <2>1
<1>9. Pids(u) = Pids(list) /\ Distinct(u)
  <2>1. Names(u) = Names(list)
    BY <1>7, <1>8 DEF Names
  <2> QED
    BY <1>2, <2>1 DEF Pids, Distinct
<1> HIDE DEF list
<1>10. /\ t \in Tables /\ t.prstate = s.prstate /\ t.prsem = s.prsem /\ t.prprio = s.prprio
       /\ t.prhasmsg = s.prhasmsg /\ t.currpid = s.currpid /\ t.readylist = s.readylist
       /\ t.sleepq = u /\ t.squeue = s.squeue /\ t.scount = s.scount
       /\ t.sstate = s.sstate
  BY <1>1, <1>6, <1>7 DEF Tables
<1>11. Queued(t, {})
  BY <1>1, <1>2, <1>9, <1>10 DEF Queued, Sleeping, Waiters
<1>12. Right(t, ranked)
  BY <1>1, <1>10, <1>11 DEF Right, Half, Counts, Heard, Keyed, Top
<1> QED
  BY <1>7, <1>10, <1>12 DEF t, u, e, list

\* Tables that differ only in fields that no list depends on.
LEMMA SameRight ==
  ASSUME NEW s, NEW ranked \in BOOLEAN, Right(s, ranked), NEW t \in Tables,
         t.prstate = s.prstate, t.prsem = s.prsem, t.prprio = s.prprio,
         t.currpid = s.currpid, t.readylist = s.readylist, t.sleepq = s.sleepq,
         t.squeue = s.squeue, Counts(t), Heard(t, {})
  PROVE  Right(t, ranked)
<1>1. Queued(s, {})
  BY DEF Right, Half
<1>2. Queued(t, {})
  BY <1>1 DEF Queued, Sleeping, Waiters
<1> QED
  BY <1>2 DEF Right, Half, Keyed, Top

\* clkhandler.c:41-44: the end of a time slice.
LEMMA PreemptRight ==
  ASSUME NEW s, NEW ranked \in BOOLEAN, Right(s, ranked)
  PROVE  Right(Preempt(s), ranked) /\ Preempt(s).sleepq = s.sleepq
<1>1. s \in Tables /\ Counts(s) /\ Heard(s, {}) /\ s.preempt \in 1 .. QUANTUM
  BY DEF Right, Half, Tables
<1>2. ASSUME NEW n \in 1 .. QUANTUM
      PROVE  /\ Right([s EXCEPT !.preempt = n], ranked)
             /\ [s EXCEPT !.preempt = n].sleepq = s.sleepq
  <2> DEFINE t == [s EXCEPT !.preempt = n]
  <2>1. /\ t \in Tables /\ t.prstate = s.prstate /\ t.prsem = s.prsem /\ t.prprio = s.prprio
        /\ t.prhasmsg = s.prhasmsg /\ t.currpid = s.currpid /\ t.readylist = s.readylist
        /\ t.sleepq = s.sleepq /\ t.squeue = s.squeue /\ t.scount = s.scount
        /\ t.sstate = s.sstate
    BY <1>1 DEF Tables
  <2> HIDE DEF t
  <2>2. Counts(t) /\ Heard(t, {})
    BY <1>1, <2>1 DEF Counts, Heard
  <2>3. Right(t, ranked)
    BY <2>1, <2>2, SameRight
  <2> QED
    BY <2>1, <2>3 DEF t
<1>3. CASE s.preempt > 1
  <2>1. s.preempt - 1 \in 1 .. QUANTUM
    BY <1>1, <1>3, KernelAssumption
  <2>2. Preempt(s) = [s EXCEPT !.preempt = s.preempt - 1]
    BY <1>3 DEF Preempt
  <2> QED
    BY <1>2, <2>1, <2>2
<1>4. CASE ~ (s.preempt > 1)
  <2> DEFINE t == [s EXCEPT !.preempt = QUANTUM]
  <2>1. QUANTUM \in 1 .. QUANTUM
    BY KernelAssumption
  <2>2. Right(t, ranked) /\ t.sleepq = s.sleepq
    BY <1>2, <2>1
  <2>3. Preempt(s) = resched(t)
    BY <1>4 DEF Preempt
  <2> HIDE DEF t
  <2>4. Right(resched(t), ranked) /\ Kept(t, resched(t))
    BY <2>2, reschedRight DEF Right
  <2> QED
    BY <2>2, <2>3, <2>4 DEF Kept
<1> QED
  BY <1>3, <1>4

-----------------------------------------------------------------------------
(* Delta lists.                                                             *)

Nonneg(list) == \A i \in 1 .. Len(list) : list[i].key >= 0

\* Who wakes when.
Times(list) == {<<list[i].pid, Delay(list, i)>> : i \in 1 .. Len(list)}

\* From m to M, b has the keys that a has d places on.
Shifted(a, b, m, M, d) ==
  /\ m \in Nat /\ M \in m .. Len(b) /\ d \in Int /\ m + d >= 0 /\ M + d <= Len(a)
  /\ \A j \in m + 1 .. M : \A i \in Int : i = j + d => b[j].key = a[i].key

\* If the keys of b are those that a has d places on, and the delay at m
\* differs by c, then so do all delays up to M.
LEMMA DelayShift ==
  ASSUME NEW a \in Seq(Entries), NEW b \in Seq(Entries), NEW m, NEW M, NEW d,
         Shifted(a, b, m, M, d), NEW c \in Int,
         NEW k0 \in Int, k0 = m + d, Delay(b, m) = Delay(a, k0) + c
  PROVE  \A j \in m .. M : \A i \in Int : i = j + d => Delay(b, j) = Delay(a, i) + c
<1>1. /\ m \in Nat /\ M \in m .. Len(b) /\ d \in Int /\ m + d >= 0 /\ M + d <= Len(a)
      /\ \A j \in m + 1 .. M : \A i \in Int : i = j + d => b[j].key = a[i].key
  BY DEF Shifted
<1> DEFINE N == M - m
           T == {n \in 0 .. N : Delay(b, m + n) = Delay(a, k0 + n) + c}
<1>2. N \in Nat
  BY <1>1
<1>3. 0 \in T
  BY <1>1, <1>2
<1>4. ASSUME NEW n \in 0 .. N - 1, n \in T
      PROVE  n + 1 \in T
  <2>1. PICK j \in Int : j = m + n + 1
    BY <1>1
  <2>2. PICK i \in Int : i = k0 + n + 1
    BY <1>1
  <2>3. /\ j \in m + 1 .. M /\ j \in 1 .. Len(b) /\ j - 1 = m + n /\ j = m + (n + 1)
    BY <1>1, <2>1
  <2>4. /\ i \in 1 .. Len(a) /\ i - 1 = k0 + n /\ i = k0 + (n + 1) /\ i - 1 \in 0 .. Len(a)
        /\ i = j + d
    BY <1>1, <2>1, <2>2
  <2>5. Delay(b, j) = Delay(b, j - 1) + b[j].key
    BY <2>3, DelaysShape
  <2>6. Delay(a, i) = Delay(a, i - 1) + a[i].key
    BY <2>4, DelaysShape
  <2>7. b[j].key = a[i].key /\ a[i].key \in Int
    BY <1>1, <2>3, <2>4, EntriesShape
  <2>8. Delay(b, j - 1) = Delay(a, i - 1) + c
    BY <1>4, <2>3, <2>4
  <2>9. Delay(a, i - 1) \in Int
    BY <2>4, DelaysShape
  <2>10. Delay(b, j) = Delay(a, i) + c
    BY <2>5, <2>6, <2>7, <2>8, <2>9
  <2>11. n + 1 \in 0 .. N
    BY <1>2
  <2> QED
    BY <2>3, <2>4, <2>10, <2>11
<1> HIDE DEF T
<1>5. 0 .. N \subseteq T
  BY <1>2, <1>3, <1>4, InductTo
<1> QED
  <2> SUFFICES ASSUME NEW j \in m .. M, NEW i \in Int, i = j + d
               PROVE  Delay(b, j) = Delay(a, i) + c
    OBVIOUS
  <2>1. j - m \in 0 .. N /\ m + (j - m) = j /\ k0 + (j - m) = i
    BY <1>1
  <2>2. j - m \in T
    BY <1>5, <2>1
  <2> QED
    BY <2>1, <2>2 DEF T

\* With keys that are not negative, delays grow along the list.
LEMMA DelaysGrow ==
  ASSUME NEW list \in Seq(Entries), Nonneg(list)
  PROVE  /\ \A i \in 0 .. Len(list) : Delay(list, i) >= 0
         /\ \A i \in 1 .. Len(list) : Delay(list, i) >= list[1].key
<1> DEFINE N == Len(list)
           T == {n \in 0 .. N : Delay(list, n) >= 0 /\ (n > 0 => Delay(list, n) >= list[1].key)}
<1>1. N \in Nat
  OBVIOUS
<1>2. 0 \in T
  BY DelaysShape
<1>3. ASSUME NEW n \in 0 .. N - 1, n \in T
      PROVE  n + 1 \in T
  <2>1. n + 1 \in 1 .. N /\ n + 1 - 1 = n /\ n \in 0 .. N /\ 1 \in 1 .. N
    OBVIOUS
  <2>2. Delay(list, n + 1) = Delay(list, n) + list[n + 1].key
    BY <2>1, DelaysShape
  <2>3. list[n + 1].key \in Int /\ list[n + 1].key >= 0 /\ list[1].key \in Int /\ list[1].key >= 0
    BY <2>1, EntriesShape DEF Nonneg
  <2>4. Delay(list, n) \in Int /\ Delay(list, n) >= 0 /\ (n > 0 => Delay(list, n) >= list[1].key)
        /\ (n = 0 => Delay(list, n) = 0)
    BY <1>3, <2>1, DelaysShape
  <2>5. Delay(list, n + 1) >= 0 /\ Delay(list, n + 1) >= list[1].key
    BY <2>2, <2>3, <2>4
  <2> QED
    BY <2>1, <2>5
<1> HIDE DEF T
<1>4. 0 .. N \subseteq T
  BY <1>1, <1>2, <1>3, InductTo
<1> QED
  BY <1>4 DEF T

\* A new delay leaves those of the others as they are.
LEMMA InsertdTimes ==
  ASSUME NEW list \in Seq(Entries), Nonneg(list), NEW p \in Pid, NEW delay \in Nat
  PROVE  LET t == insertd(list, p, delay) IN
         Nonneg(t) /\ Times(t) \subseteq Times(list) \cup {<<p, delay>>}
<1> DEFINE t == insertd(list, p, delay)
<1>1. PICK i : InsertedAt(list, t, p, delay, i)
  BY InsertdShape
<1> HIDE DEF t
<1> DEFINE N == Len(list)
           key == delay - Delay(list, i - 1)
<1>2. /\ i \in 1 .. N + 1 /\ t \in Seq(Entries) /\ Len(t) = N + 1 /\ N \in Nat
      /\ i <= N => Delay(list, i) > delay
      /\ \A j \in 1 .. i - 1 : Delay(list, j) <= delay
      /\ \A j \in 1 .. i - 1 : t[j] = list[j]
      /\ t[i] = Entry(p, key)
      /\ \A j \in i + 1 .. Len(t) :
           /\ t[j].pid = list[j - 1].pid
           /\ t[j].key = IF j = i + 1 THEN list[j - 1].key - key ELSE list[j - 1].key
  BY <1>1 DEF InsertedAt
<1>3. Delay(list, i - 1) \in Int /\ Delay(list, i - 1) <= delay /\ key \in Int /\ key >= 0
  <2>1. i - 1 \in 0 .. N /\ (i - 1 = 0 \/ i - 1 \in 1 .. i - 1)
    BY <1>2
  <2>2. Delay(list, i - 1) \in Int /\ (i - 1 = 0 => Delay(list, i - 1) = 0)
    BY <2>1, DelaysShape
  <2>3. i - 1 \in 1 .. i - 1 => Delay(list, i - 1) <= delay
    BY <1>2
  <2> QED
    BY <2>1, <2>2, <2>3
<1>4. t[i].key = key /\ t[i].pid = p
  BY <1>2, <1>3, EntryShape
<1>5. \A j \in 0 .. i - 1 : Delay(t, j) = Delay(list, j)
  <2>1. Shifted(list, t, 0, i - 1, 0)
    BY <1>2 DEF Shifted
  <2>2. Delay(t, 0) = Delay(list, 0) + 0 /\ 0 \in Int /\ 0 = 0 + 0
    BY <1>2, DelaysShape
  <2>3. \A j \in 0 .. i - 1 : \A k0 \in Int : k0 = j + 0 => Delay(t, j) = Delay(list, k0) + 0
    BY <1>2, <2>1, <2>2, DelayShift
  <2>4. \A j \in 0 .. i - 1 : j \in Int /\ j + 0 = j /\ Delay(list, j) \in Int
    BY <1>2, DelaysShape
  <2> QED
    BY <2>3, <2>4
<1>6. Delay(t, i) = delay
  <2>1. Delay(t, i) = Delay(t, i - 1) + t[i].key
    BY <1>2, DelaysShape
  <2>2. Delay(t, i - 1) = Delay(list, i - 1)
    BY <1>2, <1>5
  <2> QED
    BY <1>3, <1>4, <2>1, <2>2
<1>7. ASSUME i <= N
      PROVE  /\ Delay(list, i) = Delay(list, i - 1) + list[i].key
             /\ list[i].key \in Int /\ t[i + 1].key = list[i].key - key
             /\ Delay(t, i + 1) = Delay(list, i)
  <2>1. i \in 1 .. N /\ i + 1 \in 1 .. Len(t) /\ i + 1 - 1 = i /\ i + 1 \in i + 1 .. Len(t)
    BY <1>2, <1>7
  <2>2. Delay(list, i) = Delay(list, i - 1) + list[i].key /\ list[i].key \in Int
    BY <2>1, DelaysShape, EntriesShape
  <2>3. Delay(t, i + 1) = Delay(t, i) + t[i + 1].key
    <3>1. Delay(t, i + 1) = Delay(t, i + 1 - 1) + t[i + 1].key
      BY <1>2, <2>1, DelaysShape, SMTT(30)
    <3> QED
      BY <2>1, <3>1
  <2>4. t[i + 1].key = list[i].key - key
    BY <1>2, <2>1
  <2> QED
    BY <1>3, <1>6, <2>2, <2>3, <2>4
<1>8. \A j \in i + 1 .. N + 1 : Delay(t, j) = Delay(list, j - 1)
  <2>1. CASE i <= N
    <3>1. Shifted(list, t, i + 1, N + 1, -1)
      <4>1. \A j \in i + 1 + 1 .. N + 1 : \A k0 \in Int : k0 = j + -1 => t[j].key = list[k0].key
        <5> SUFFICES ASSUME NEW j \in i + 1 + 1 .. N + 1, NEW k0 \in Int, k0 = j + -1
                     PROVE  t[j].key = list[k0].key
          OBVIOUS
        <5>1. j \in i + 1 .. Len(t) /\ j # i + 1 /\ k0 = j - 1
          BY <1>2
        <5> QED
          BY <1>2, <5>1
      <4>2. i + 1 \in Nat /\ N + 1 \in i + 1 .. Len(t) /\ -1 \in Int /\ i + 1 + -1 >= 0
            /\ N + 1 + -1 <= Len(list)
        BY <1>2, <2>1
      <4> QED
        BY <4>1, <4>2 DEF Shifted
    <3>2. Delay(t, i + 1) = Delay(list, i) + 0 /\ i \in Int /\ i = i + 1 + -1
      <4>1. i \in Int /\ i + 1 + -1 = i /\ Delay(list, i) \in Int
        BY <1>2, <2>1, DelaysShape
      <4> QED
        BY <1>7, <2>1, <4>1
    <3>5. t \in Seq(Entries)
      BY <1>2
    <3>3. \A j \in i + 1 .. N + 1 : \A k0 \in Int : k0 = j + -1 => Delay(t, j) = Delay(list, k0) + 0
      <4> HIDE DEF N
      <4>1. -1 \in Int /\ 0 \in Int
        OBVIOUS
      <4> QED
        BY <3>1, <3>2, <3>5, <4>1, DelayShift
    <3>4. \A j \in i + 1 .. N + 1 : j - 1 \in Int /\ j + -1 = j - 1 /\ Delay(list, j - 1) \in Int
      BY <1>2, DelaysShape
    <3> QED
      BY <3>3, <3>4
  <2>2. CASE ~ (i <= N)
    BY <1>2, <2>2
  <2> QED
    BY <2>1, <2>2
<1> HIDE DEF key, N
<1>9. ASSUME NEW j \in 1 .. Len(t)
      PROVE  t[j].key >= 0 /\ <<t[j].pid, Delay(t, j)>> \in Times(list) \cup {<<p, delay>>}
  <2>1. CASE j < i
    <3>1. j \in 1 .. i - 1 /\ j \in 0 .. i - 1 /\ j \in 1 .. Len(list)
      BY <1>2, <2>1 DEF N
    <3>2. t[j] = list[j] /\ Delay(t, j) = Delay(list, j)
      BY <1>2, <1>5, <3>1
    <3> QED
      BY <3>1, <3>2 DEF Times, Nonneg
  <2>2. CASE j = i
    BY <1>3, <1>4, <1>6, <2>2
  <2>3. CASE j > i
    <3>1. j \in i + 1 .. N + 1 /\ j - 1 \in 1 .. Len(list) /\ j \in i + 1 .. Len(t)
      BY <1>2, <2>3 DEF N
    <3>2. t[j].pid = list[j - 1].pid /\ Delay(t, j) = Delay(list, j - 1)
      BY <1>2, <1>8, <3>1
    <3>3. t[j].key >= 0
      <4>1. CASE j = i + 1
        <5>1. i <= N /\ Delay(list, i) > delay
          BY <1>2, <3>1, <4>1
        <5>2. list[i].key - key >= 0
          BY <1>3, <1>7, <5>1 DEF key
        <5> QED
          BY <1>7, <4>1, <5>1, <5>2
      <4>2. CASE j # i + 1
        BY <1>2, <3>1, <4>2 DEF Nonneg
      <4> QED
        BY <4>1, <4>2
    <3> QED
      BY <3>1, <3>2, <3>3 DEF Times
  <2> QED
    BY <1>2, <2>1, <2>2, <2>3
<1> QED
  BY <1>9 DEF Nonneg, Times, t

\* Nor does a process that leaves.
LEMMA UnsleepTimes ==
  ASSUME NEW list \in Seq(Entries), Distinct(list), Nonneg(list), NEW p \in Pids(list)
  PROVE  LET t == unsleep(list, p) IN
         t \in Seq(Entries) /\ Nonneg(t) /\ Times(t) \subseteq Times(list)
<1> DEFINE t == unsleep(list, p)
           n == Place(list, p)
           N == Len(list)
<1>1. n \in 1 .. N /\ N \in Nat
  BY PlaceShape
<1>2. /\ t \in Seq(Entries) /\ Len(t) = N - 1
      /\ \A j \in 1 .. Len(t) :
           IF j < n THEN t[j] = list[j]
           ELSE /\ t[j].pid = list[j + 1].pid
                /\ t[j].key = IF j = n THEN list[j + 1].key + list[j].key
                              ELSE list[j + 1].key
  BY UnsleepList
<1> HIDE DEF t, n
<1>3. \A j \in 0 .. n - 1 : Delay(t, j) = Delay(list, j)
  <2>1. Shifted(list, t, 0, n - 1, 0)
    BY <1>1, <1>2, SMTT(30) DEF Shifted
  <2>2. Delay(t, 0) = Delay(list, 0) + 0 /\ 0 \in Int /\ 0 = 0 + 0
    BY <1>2, DelaysShape
  <2>3. \A j \in 0 .. n - 1 : \A k0 \in Int : k0 = j + 0 => Delay(t, j) = Delay(list, k0) + 0
    <3> HIDE DEF N
    <3>1. t \in Seq(Entries)
      BY <1>2
    <3> QED
      BY <2>1, <2>2, <3>1, DelayShift
  <2>4. \A j \in 0 .. n - 1 : j \in Int /\ j + 0 = j /\ Delay(list, j) \in Int
    BY <1>1, DelaysShape
  <2> QED
    BY <2>3, <2>4
<1>4. \A j \in n .. N - 1 : Delay(t, j) = Delay(list, j + 1)
  <2>1. CASE n <= N - 1
    <3>1. n \in 1 .. Len(t) /\ n \in 1 .. N /\ n + 1 \in 1 .. N /\ n + 1 - 1 = n /\ n - 1 \in 0 .. N
      BY <1>1, <1>2, <2>1
    <3>2. t[n].key = list[n + 1].key + list[n].key
      BY <1>2, <3>1
    <3>3. Delay(t, n) = Delay(t, n - 1) + t[n].key /\ Delay(t, n - 1) = Delay(list, n - 1)
      BY <1>2, <1>3, <3>1, DelaysShape, SMTT(30)
    <3>4. Delay(list, n) = Delay(list, n - 1) + list[n].key /\ Delay(list, n - 1) \in Int
          /\ Delay(list, n + 1) = Delay(list, n) + list[n + 1].key
      BY <3>1, DelaysShape
    <3>5. list[n].key \in Int /\ list[n + 1].key \in Int
      BY <3>1, EntriesShape
    <3>6. Delay(t, n) = Delay(list, n + 1) + 0 /\ n + 1 \in Int
      BY <3>1, <3>2, <3>3, <3>4, <3>5
    <3>7. Shifted(list, t, n, N - 1, 1)
      BY <1>1, <1>2, <2>1 DEF Shifted
    <3>8. \A j \in n .. N - 1 : \A i \in Int : i = j + 1 => Delay(t, j) = Delay(list, i) + 0
      <4> HIDE DEF N
      <4>1. 1 \in Int /\ 0 \in Int
        OBVIOUS
      <4> QED
        BY <1>2, <3>6, <3>7, <4>1, DelayShift
    <3>9. \A j \in n .. N - 1 : j + 1 \in Int /\ Delay(list, j + 1) \in Int
      BY <1>1, DelaysShape
    <3> QED
      BY <3>8, <3>9
  <2>2. CASE ~ (n <= N - 1)
    BY <1>1, <2>2
  <2> QED
    BY <2>1, <2>2
<1>5. ASSUME NEW j \in 1 .. Len(t)
      PROVE  t[j].key >= 0 /\ <<t[j].pid, Delay(t, j)>> \in Times(list)
  <2>1. CASE j < n
    <3>1. j \in 0 .. n - 1 /\ j \in 1 .. Len(list) /\ t[j] = list[j]
      BY <1>1, <1>2, <2>1
    <3> QED
      BY <1>3, <3>1 DEF Times, Nonneg
  <2>2. CASE ~ (j < n)
    <3>1. j \in n .. N - 1 /\ j \in 1 .. Len(list) /\ j + 1 \in 1 .. Len(list)
      BY <1>1, <1>2, <2>2
    <3>2. /\ t[j].pid = list[j + 1].pid
          /\ t[j].key = IF j = n THEN list[j + 1].key + list[j].key ELSE list[j + 1].key
      BY <1>2, <2>2
    <3>3. t[j].key >= 0
      <4>1. list[j].key \in Int /\ list[j + 1].key \in Int /\ list[j].key >= 0 /\ list[j + 1].key >= 0
        BY <3>1, EntriesShape DEF Nonneg
      <4> QED
        BY <3>2, <4>1
    <3>4. Delay(t, j) = Delay(list, j + 1)
      BY <1>4, <3>1
    <3> QED
      BY <3>1, <3>2, <3>3, <3>4 DEF Times
  <2> QED
    BY <2>1, <2>2
<1> QED
  BY <1>2, <1>5 DEF Nonneg, Times, t

\* A list that is shorter by at most one process says no more than before.
LEMMA ShorterTimes ==
  ASSUME NEW list \in Seq(Entries), Distinct(list), Nonneg(list), NEW t, Shorter(list, t)
  PROVE  t \in Seq(Entries) /\ Nonneg(t) /\ Times(t) \subseteq Times(list)
BY UnsleepTimes DEF Shorter

\* A tick: one less for each process that still sleeps, unless the first one
\* had nothing left.
LEMMA TickedTimes ==
  ASSUME NEW list \in Seq(Entries), list # << >>, Nonneg(list),
         NEW u \in Seq(Entries), Len(u) = Len(list),
         u[1] = Entry(list[1].pid, list[1].key - 1), \A i \in 2 .. Len(list) : u[i] = list[i]
  PROVE  LET t == SubSeq(u, Expired(u) + 1, Len(u)) IN
         /\ t \in Seq(Entries) /\ Nonneg(t)
         /\ \A x \in Times(t) : /\ x[2] \in Int /\ x[2] > 0
                                /\ \/ <<x[1], x[2] + 1>> \in Times(list)
                                   \/ x \in Times(list) /\ list[1].key = 0
<1> DEFINE n == Expired(u)
           t == SubSeq(u, n + 1, Len(u))
           N == Len(list)
<1>1. N \in Nat /\ N >= 1 /\ Len(u) = N
  OBVIOUS
<1>2. \A i \in 1 .. N : list[i].key \in Int /\ list[i].key >= 0
  BY EntriesShape DEF Nonneg
<1>3. u[1].key = list[1].key - 1 /\ u[1].pid = list[1].pid
  BY <1>1, <1>2, EntriesShape, EntryShape
<1>4. /\ n \in 0 .. N
      /\ \A i \in 1 .. n : u[i].key <= 0
      /\ n < N => u[n + 1].key > 0
  BY <1>1, ExpiredShape
<1> HIDE DEF n
<1>5. t \in Seq(Entries) /\ Len(t) = N - n /\ \A j \in 1 .. Len(t) : t[j] = u[j + n]
  BY <1>1, <1>4, DropShape
<1> HIDE DEF t, N
<1>6. \A j \in 1 .. N : Delay(u, j) = Delay(list, j) - 1
  <2>1. Shifted(list, u, 1, N, 0)
    BY <1>1 DEF Shifted, N
  <2>2. Delay(u, 1) = Delay(list, 1) + -1
    <3>1. Delay(u, 1) = Delay(u, 0) + u[1].key /\ Delay(u, 0) = 0
      BY <1>1, DelaysShape
    <3>2. Delay(list, 1) = Delay(list, 0) + list[1].key /\ Delay(list, 0) = 0
      BY <1>1, DelaysShape DEF N
    <3> QED
      BY <1>1, <1>2, <1>3, <3>1, <3>2
  <2>5. 1 \in Int /\ -1 \in Int /\ 1 = 1 + 0
    OBVIOUS
  <2>3. \A j \in 1 .. N : \A i \in Int : i = j + 0 => Delay(u, j) = Delay(list, i) + -1
    BY <2>1, <2>2, <2>5, DelayShift
  <2>4. \A j \in 1 .. N : j \in Int /\ j + 0 = j /\ Delay(list, j) \in Int
    BY <1>1, DelaysShape DEF N
  <2> QED
    BY <2>3, <2>4
<1>7. n > 0 => Delay(u, n) = u[1].key
  <2> DEFINE T == {j \in 0 .. n - 1 : Delay(u, j + 1) = u[1].key}
  <2>1. ASSUME n > 0
        PROVE  Delay(u, n) = u[1].key
    <3>1. 0 \in T
      <4>1. Delay(u, 1) = Delay(u, 0) + u[1].key /\ Delay(u, 0) = 0
        BY <1>1, DelaysShape
      <4> QED
        BY <1>1, <1>2, <1>3, <1>4, <2>1, <4>1
    <3>2. ASSUME NEW j \in 0 .. n - 1 - 1, j \in T
          PROVE  j + 1 \in T
      <4>1. j \in Nat /\ n \in Nat /\ n <= N /\ j + 2 <= n
        BY <1>1, <1>4, <3>2
      <4>2. PICK i \in Int : i = j + 2
        BY <4>1
      <4>3. i \in 1 .. N /\ i - 1 = j + 1 /\ i \in 2 .. N /\ i \in 1 .. n /\ i = j + 1 + 1
        BY <1>1, <4>1, <4>2
      <4>4. Delay(u, i) = Delay(u, i - 1) + u[i].key
        BY <1>1, <4>3, DelaysShape
      <4>5. u[i].key = 0
        <5>1. u[i] = list[i]
          BY <4>3 DEF N
        <5>2. u[i].key <= 0 /\ list[i].key \in Int /\ list[i].key >= 0
          BY <1>2, <1>4, <4>3
        <5> QED
          BY <5>1, <5>2
      <4>6. Delay(u, i - 1) = u[1].key /\ u[1].key \in Int
        <5>1. 1 \in 1 .. N
          BY <1>1
        <5> QED
          BY <1>2, <1>3, <3>2, <4>3, <5>1
      <4>7. Delay(u, i) = u[1].key
        BY <4>4, <4>5, <4>6
      <4>8. j + 1 \in 0 .. n - 1
        BY <4>1
      <4> QED
        BY <4>3, <4>7, <4>8
    <3> HIDE DEF T
    <3>3. 0 .. n - 1 \subseteq T
      <4>1. n - 1 \in Nat
        BY <1>1, <1>4, <2>1
      <4> QED
        BY <3>1, <3>2, <4>1, InductTo
    <3>4. n - 1 \in 0 .. n - 1 /\ n - 1 + 1 = n
      BY <1>4, <2>1
    <3> QED
      BY <3>3, <3>4 DEF T
  <2> QED
    BY <2>1
<1>8. Delay(u, n) \in Int /\ (Delay(u, n) = 0 \/ (Delay(u, n) = -1 /\ list[1].key = 0))
  <2>1. CASE n = 0
    BY <2>1, DelaysShape
  <2>2. CASE n > 0
    <3>1. u[1].key <= 0
      BY <1>4, <2>2
    <3> QED
      BY <1>1, <1>2, <1>3, <1>7, <2>2, <3>1
  <2> QED
    BY <1>4, <2>1, <2>2
<1>9. \A j \in 1 .. Len(t) : Delay(t, j) = Delay(u, j + n) - Delay(u, n)
  <2> DEFINE c == - Delay(u, n)
  <2>1. Shifted(u, t, 0, Len(t), n)
    BY <1>1, <1>4, <1>5 DEF Shifted
  <2>2. c \in Int /\ Delay(t, 0) = Delay(u, n) + c /\ n \in Int /\ n = 0 + n
    BY <1>1, <1>4, <1>5, <1>8, DelaysShape
  <2> HIDE DEF c
  <2>3. \A j \in 0 .. Len(t) : \A i \in Int : i = j + n => Delay(t, j) = Delay(u, i) + c
    BY <1>5, <2>1, <2>2, DelayShift
  <2>4. ASSUME NEW j \in 1 .. Len(t)
        PROVE  Delay(t, j) = Delay(u, j + n) - Delay(u, n)
    <3>1. j \in 0 .. Len(t) /\ j + n \in 0 .. Len(u) /\ j + n \in Int
      BY <1>1, <1>4, <1>5
    <3>2. Delay(u, j + n) \in Int
      BY <3>1, DelaysShape
    <3> QED
      BY <1>8, <2>3, <3>1, <3>2 DEF c
  <2> QED
    BY <2>4
<1>10. Nonneg(t) /\ (Len(t) > 0 => t[1].key > 0)
  <2>1. ASSUME NEW j \in 1 .. Len(t)
        PROVE  t[j].key >= 0
    <3>1. j + n \in 1 .. N /\ t[j] = u[j + n]
      BY <1>1, <1>4, <1>5
    <3>2. CASE j + n = 1
      BY <1>1, <1>2, <1>3, <1>4, <3>1, <3>2
    <3>3. CASE j + n # 1
      BY <1>2, <3>1, <3>3 DEF N
    <3> QED
      BY <3>2, <3>3
  <2>2. ASSUME Len(t) > 0
        PROVE  t[1].key > 0
    <3>1. t[1] = u[n + 1] /\ n < N
      <4>1. n \in Nat /\ n <= N /\ Len(t) = N - n
        BY <1>1, <1>4, <1>5
      <4>2. n < N /\ 1 \in 1 .. Len(t) /\ 1 + n = n + 1
        BY <1>1, <2>2, <4>1
      <4> QED
        BY <1>5, <4>2
    <3> QED
      BY <1>4, <3>1
  <2> QED
    BY <2>1, <2>2 DEF Nonneg
<1>11. ASSUME NEW x \in Times(t)
       PROVE  /\ x[2] \in Int /\ x[2] > 0
              /\ \/ <<x[1], x[2] + 1>> \in Times(list)
                 \/ x \in Times(list) /\ list[1].key = 0
  <2>1. PICK j \in 1 .. Len(t) : x = <<t[j].pid, Delay(t, j)>>
    BY DEF Times
  <2>2. j + n \in 1 .. N /\ j \in 0 .. Len(t) /\ Len(t) > 0
    BY <1>1, <1>4, <1>5
  <2>3. Delay(t, j) \in Int /\ Delay(t, j) > 0
    <3>1. Delay(t, j) \in Int /\ Delay(t, j) >= t[1].key /\ t[1].key > 0
      BY <1>5, <1>10, <2>2, DelaysShape, DelaysGrow
    <3>2. t[1].key \in Int
      BY <1>5, <2>2, EntriesShape
    <3> QED
      BY <3>1, <3>2
  <2>4. t[j].pid = list[j + n].pid
    <3>1. t[j] = u[j + n]
      BY <1>5
    <3>2. j + n = 1 \/ j + n \in 2 .. N
      BY <2>2
    <3> QED
      BY <1>3, <3>1, <3>2 DEF N
  <2>5. Delay(t, j) = Delay(list, j + n) - 1 - Delay(u, n) /\ Delay(list, j + n) \in Int
    BY <1>6, <1>9, <2>2, DelaysShape DEF N
  <2>6. <<list[j + n].pid, Delay(list, j + n)>> \in Times(list)
    BY <2>2 DEF Times, N
  <2>7. x[1] = t[j].pid /\ x[2] = Delay(t, j)
    BY <2>1
  <2>8. CASE Delay(u, n) = 0
    <3>1. x[2] + 1 = Delay(list, j + n)
      BY <2>5, <2>7, <2>8
    <3> QED
      BY <2>3, <2>4, <2>6, <2>7, <3>1
  <2>9. CASE Delay(u, n) = -1 /\ list[1].key = 0
    <3>1. Delay(t, j) = Delay(list, j + n)
      BY <2>5, <2>9
    <3> QED
      BY <2>1, <2>3, <2>4, <2>6, <2>7, <2>9, <3>1
  <2> QED
    BY <1>8, <2>8, <2>9
<1> QED
  BY <1>5, <1>10, <1>11 DEF t, n

-----------------------------------------------------------------------------
(* The inductive invariant.                                                 *)

\* What a process may have left of a call.
Rest == {InUser} \cup {At("clock", p) : p \in Pid}
        \cup {At("kill", p) : p \in User} \cup {At("receive", p) : p \in User}

\* Nobody changes priorities while they are in use.
Ranked == ~ Makes("chprio")

\* The tables are right and processes are where calls leave them.
KInv ==
  /\ Right(k, Ranked) /\ load \in Loads /\ pc \in [Pid -> Rest]
  /\ due \in [Pid -> Nat]

\* What a step does that lets nobody sleep and is no tick: at most one sleeper
\* leaves its list, and those that stay have as long to sleep as before.
Quiet ==
  /\ Shorter(k.sleepq, k'.sleepq) /\ load' = load
  /\ \A p \in Pids(k'.sleepq) : due'[p] = due[p]

\* Members of the sets that the invariant speaks of.
LEMMA RestFacts ==
  /\ InUser \in Rest /\ \A p \in Pid : At("clock", p) \in Rest
  /\ \A p \in User : At("kill", p) \in Rest /\ At("receive", p) \in Rest
  /\ \A p \in User : p \in Pid /\ p # NULLPROC
  /\ Ranked \in BOOLEAN
BY DEF Rest, User, Pid, NULLPROC, Ranked

\* What a call leaves to do to a process that was killed in it.
LEMMA VictimFacts ==
  ASSUME NEW rest \in Rest, rest.at = "kill"
  PROVE  rest.arg \in User
BY DEF Rest, InUser, At

\* Who makes a call.
LEMMA Caller ==
  ASSUME KInv
  PROVE  /\ me \in Pid
         /\ \A call : Calling(call) => me \in User /\ (call = "chprio" => ~ Ranked)
<1>1. me \in Pid
  BY DEF KInv, Right, Half, Tables, me
<1>2. ASSUME NEW call, Calling(call)
      PROVE  me \in User /\ (call = "chprio" => ~ Ranked)
  <2>1. <<me, call>> \in (1 .. NPROC - 1) \X STRING
    BY <1>2, KernelAssumption DEF KInv, Calling
  <2>2. me \in User
    BY <2>1 DEF User
  <2>3. <<me, call>> \in load.calls
    BY <1>2 DEF Calling
  <2> QED
    BY <2>2, <2>3 DEF Ranked, Makes
<1> QED
  BY <1>1, <1>2

\* A step whose tables are right.
LEMMA StepInv ==
  ASSUME KInv, Right(k', Ranked), pc' \in [Pid -> Rest], load' = load,
         due' \in [Pid -> Nat]
  PROVE  KInv'
<1>1. Ranked' <=> Ranked
  BY DEF Ranked, Makes
<1>2. Right(k', Ranked')
  <2>1. Ranked' = Ranked
    BY <1>1 DEF Ranked, Makes
  <2> QED
    BY <2>1
<1> QED
  BY <1>2 DEF KInv

\* A call after which the processor may have been switched, with what it leaves to do.
LEMMA GoesStep ==
  ASSUME KInv, NEW s, NEW at \in Rest, NEW ticks \in Nat, Goes(s, at, ticks), Right(s, Ranked)
  PROVE  KInv' /\ (ticks = 0 /\ Shorter(k.sleepq, s.sleepq) => Quiet)
<1>1. /\ k' = s /\ load' = load
      /\ due' = [p \in Pid |-> IF p \notin Sleepers(s) \/ due[p] < ticks THEN 0
                               ELSE due[p] - ticks]
  BY DEF Goes
<1>2. pc' = pc \/ pc' = [pc EXCEPT ![me] = at]
  BY DEF Goes
<1>3. pc' \in [Pid -> Rest] /\ due \in [Pid -> Nat]
  BY <1>2, Caller DEF KInv
<1>4. \A p \in Pid : due[p] \in Nat /\ due'[p] \in Nat
  BY <1>1, <1>3
<1>5. due' \in [Pid -> Nat]
  BY <1>1, <1>4
<1>6. KInv'
  BY <1>1, <1>3, <1>5, StepInv
<1>7. ASSUME ticks = 0, Shorter(k.sleepq, s.sleepq)
      PROVE  Quiet
  <2>1. s.sleepq \in Seq(Entries)
    BY DEF Right, Half, Tables
  <2>2. Pids(s.sleepq) = Sleepers(s) /\ Pids(s.sleepq) \subseteq Pid
    BY <2>1, NamesShape DEF Sleepers
  <2>3. \A p \in Pids(s.sleepq) : due'[p] = due[p]
    BY <1>1, <1>4, <1>7, <2>2
  <2> QED
    BY <1>1, <1>7, <2>3 DEF Quiet
<1> QED
  BY <1>6, <1>7

\* A call that leaves nothing to do.
LEMMA DoesStep ==
  ASSUME KInv, NEW s, Does(s), Right(s, Ranked), Shorter(k.sleepq, s.sleepq)
  PROVE  KInv' /\ Quiet
<1>1. 0 \in Nat /\ InUser \in Rest
  BY RestFacts
<1> QED
  BY <1>1, GoesStep DEF Does

-----------------------------------------------------------------------------
(* Steps.                                                                   *)

\* The search for a free entry, going round the table, finds one if there is one.
LEMMA FirstFreeShape ==
  ASSUME NEW n \in Nat \ {0}, NEW state, NEW next \in 0 .. n - 1,
         NEW p \in 0 .. n - 1, state[p] = "FREE"
  PROVE  FirstFree(state, next, n) \in 0 .. n - 1 /\ state[FirstFree(state, next, n)] = "FREE"
<1> DEFINE at(i) == (next + i) % n
           T == {i \in 0 .. n - 1 : state[at(i)] = "FREE"}
           Is(i) == state[at(i)] = "FREE" /\ \A j \in 0 .. i - 1 : state[at(j)] # "FREE"
<1>1. \E i \in 0 .. n - 1 : at(i) = p
  <2>1. CASE p >= next
    <3>1. p - next \in 0 .. n - 1 /\ next + (p - next) = p /\ p % n = p
      BY <2>1
    <3> QED
      BY <3>1
  <2>2. CASE p < next
    <3>1. p - next + n \in 0 .. n - 1 /\ next + (p - next + n) = p + n /\ (p + n) % n = p
      BY <2>2
    <3> QED
      BY <3>1
  <2> QED
    BY <2>1, <2>2
<1>2. \A i \in 0 .. n - 1 : at(i) \in 0 .. n - 1
  OBVIOUS
<1> HIDE DEF at
<1>3. T \subseteq Nat /\ T # {}
  BY <1>1
<1>4. PICK i \in T : \A j \in T : i <= j
  BY <1>3, LeastNat
<1>5. i \in 0 .. n - 1 /\ Is(i)
  <2>1. i \in 0 .. n - 1 /\ state[at(i)] = "FREE"
    OBVIOUS
  <2>2. ASSUME NEW j \in 0 .. i - 1
        PROVE  state[at(j)] # "FREE"
    <3>1. j \in 0 .. n - 1 /\ ~ (i <= j)
      BY <2>1
    <3> QED
      BY <1>4, <3>1
  <2> QED
    BY <2>1, <2>2
<1> DEFINE c == CHOOSE x \in 0 .. n - 1 : Is(x)
<1>6. c \in 0 .. n - 1 /\ Is(c)
  BY <1>5
<1>7. FirstFree(state, next, n) = at(c)
  BY DEF FirstFree, at
<1> QED
  BY <1>2, <1>6, <1>7

\* create.c:13-105: a free entry becomes a suspended process.
LEMMA CreateStep ==
  ASSUME KInv, create
  PROVE  KInv' /\ Quiet
<1>1. PICK q \in Pid : k.prstate[q] = "FREE"
  BY DEF create
<1>2. PICK prio \in load.prios :
        LET p == FirstFree(k.prstate, k.nextpid, NPROC) IN
        Does([k EXCEPT !.prstate[p] = "SUSP", !.prprio[p] = prio,
                       !.prparent[p] = me, !.prhasmsg[p] = FALSE,
                       !.prcount = @ + 1, !.nextpid = (p + 1) % NPROC])
  BY DEF create
<1> DEFINE p == FirstFree(k.prstate, k.nextpid, NPROC)
           s == [k EXCEPT !.prstate[p] = "SUSP", !.prprio[p] = prio,
                       !.prparent[p] = me, !.prhasmsg[p] = FALSE,
                       !.prcount = @ + 1, !.nextpid = (p + 1) % NPROC]
<1>3. NPROC \in Nat \ {0} /\ k.nextpid \in 0 .. NPROC - 1 /\ q \in 0 .. NPROC - 1
  BY KernelAssumption DEF KInv, Right, Half, Tables, Pid
<1>4. p \in Pid /\ k.prstate[p] = "FREE"
  BY <1>1, <1>3, FirstFreeShape DEF Pid
<1>5. prio \in Nat
  BY KernelAssumption DEF KInv
<1>6. Does(s)
  BY <1>2
<1> HIDE DEF p
<1>7. Right(s, Ranked)
  BY <1>4, <1>5, RestFacts, CreatedRight DEF KInv, me
<1>8. Shorter(k.sleepq, s.sleepq)
  BY DEF Shorter
<1> HIDE DEF s
<1> QED
  BY <1>6, <1>7, <1>8, DoesStep

\* resume.c:9-31.
LEMMA ResumeStep ==
  ASSUME KInv, NEW p \in Pid, resume(p)
  PROVE  KInv' /\ Quiet
<1>1. Right(ready(k, p), Ranked) /\ Shorter(k.sleepq, ready(k, p).sleepq)
  BY ResumedRight, RestFacts DEF resume, KInv, Shorter
<1> QED
  BY <1>1, DoesStep DEF resume

\* suspend.c:9-41: of a process that is ready or runs.
LEMMA SuspendStep ==
  ASSUME KInv, NEW p \in Pid, suspend(p)
  PROVE  KInv' /\ Quiet
<1> DEFINE s == [k EXCEPT !.readylist = Without(@, p), !.prstate[p] = "SUSP"]
<1>1. CASE k.prstate[p] = "READY" /\ Does(s)
  <2>1. Right(s, Ranked)
    BY <1>1, SuspendedRight, RestFacts DEF suspend, KInv
  <2>2. Shorter(k.sleepq, s.sleepq)
    BY DEF Shorter
  <2> HIDE DEF s
  <2> QED
    BY <1>1, <2>1, <2>2, DoesStep
<1>2. CASE k.prstate[p] = "CURR" /\ Does(resched(Blocked(k, "SUSP")))
  <2>1. k.currpid # NULLPROC
    BY Caller, RestFacts DEF suspend, me
  <2>2. /\ Right(resched(Blocked(k, "SUSP")), Ranked)
        /\ Shorter(k.sleepq, resched(Blocked(k, "SUSP")).sleepq)
    BY <2>1, BlockedRight, RestFacts DEF KInv, Shorter
  <2> QED
    BY <1>2, <2>2, DoesStep
<1> QED
  BY <1>1, <1>2 DEF suspend

\* Priorities change, while nothing is said about them.
LEMMA ChprioStep ==
  ASSUME KInv, NEW p \in Pid, NEW prio \in load.prios, chprio(p, prio)
  PROVE  KInv' /\ Quiet
<1> DEFINE prios == [k.prprio EXCEPT ![p] = prio]
           s == [k EXCEPT !.prprio[p] = prio]
<1>1. prio \in Nat
  BY KernelAssumption DEF KInv
<1>2. k \in Tables /\ Queued(k, {}) /\ Counts(k) /\ Heard(k, {}) /\ k.prstate[k.currpid] = "CURR"
  BY DEF KInv, Right, Half
<1>3. prios \in [Pid -> Nat]
  BY <1>1, <1>2 DEF Tables
<1>4. s = [k EXCEPT !.prprio = prios]
  OBVIOUS
<1> HIDE DEF prios, s
<1>5. /\ s \in Tables /\ s.prstate = k.prstate /\ s.prsem = k.prsem
      /\ s.prhasmsg = k.prhasmsg /\ s.currpid = k.currpid /\ s.readylist = k.readylist
      /\ s.sleepq = k.sleepq /\ s.squeue = k.squeue /\ s.scount = k.scount
      /\ s.sstate = k.sstate
  BY <1>2, <1>3, <1>4 DEF Tables
<1>6. Right(s, FALSE)
  BY <1>2, <1>5 DEF Right, Half, Queued, Sleeping, Waiters, Counts, Heard
<1>7. Ranked = FALSE
  BY Caller, RestFacts DEF chprio
<1>8. Does(s)
  BY DEF chprio, s
<1>9. Shorter(k.sleepq, s.sleepq)
  BY <1>5 DEF Shorter
<1> QED
  BY <1>6, <1>7, <1>8, <1>9, DoesStep

\* yield.c:9-17.
LEMMA YieldStep ==
  ASSUME KInv, yield
  PROVE  KInv' /\ Quiet
<1>1. Right(resched(k), Ranked) /\ Shorter(k.sleepq, resched(k).sleepq)
  BY reschedRight, RestFacts DEF KInv, Right, Kept, Shorter
<1> QED
  BY <1>1, DoesStep DEF yield

\* kill.c:9-42: up to the message to the parent.
LEMMA KillStep ==
  ASSUME KInv, NEW p \in Pid, kill(p)
  PROVE  KInv' /\ Quiet
<1> DEFINE s == [k EXCEPT !.prcount = @ - 1]
<1>1. k \in Tables /\ Counts(k) /\ Heard(k, {})
  BY DEF KInv, Right, Half
<1>2. k.prcount \in Int /\ k.prparent \in [Pid -> Pid]
  BY <1>1 DEF Tables
<1>3. /\ s \in Tables /\ s.prstate = k.prstate /\ s.prsem = k.prsem /\ s.prprio = k.prprio
      /\ s.prhasmsg = k.prhasmsg /\ s.currpid = k.currpid /\ s.readylist = k.readylist
      /\ s.sleepq = k.sleepq /\ s.squeue = k.squeue /\ s.scount = k.scount
      /\ s.sstate = k.sstate /\ s.prparent = k.prparent
  <2> DEFINE count == k.prcount - 1
  <2>1. s = [k EXCEPT !.prcount = count] /\ count \in Int
    BY <1>2
  <2> HIDE DEF count, s
  <2> QED
    BY <1>1, <2>1 DEF Tables
<1>4. p \in User
  BY KernelAssumption DEF kill, Pid, User, NULLPROC
<1>5. load' = load /\ (k' = s \/ k' = send(s, s.prparent[p]))
      /\ (pc' = pc \/ pc' = [pc EXCEPT ![me] = At("kill", p)])
  BY DEF kill
<1> HIDE DEF s
<1>6. Right(s, Ranked)
  <2>1. Counts(s) /\ Heard(s, {})
    BY <1>1, <1>3 DEF Counts, Heard
  <2> QED
    BY <1>3, <2>1, RestFacts, SameRight DEF KInv
<1>7. s.prparent[p] \in Pid
  BY <1>2, <1>3
<1>8. Right(k', Ranked)
  BY <1>5, <1>6, <1>7, RestFacts, sendRight
<1>9. pc' \in [Pid -> Rest]
  BY <1>4, <1>5, RestFacts DEF KInv
<1>10. Shorter(k.sleepq, k'.sleepq)
  BY <1>3, <1>5, <1>6, <1>7, RestFacts, sendRight DEF Shorter
<1>11. /\ due' \in [Pid -> Nat]
       /\ \A q \in Pids(k'.sleepq) : due'[q] = due[q]
  <2>1. \/ due' = due
        \/ due' = [q \in Pid |-> IF q \in Sleepers(k') THEN due[q] ELSE 0]
    BY DEF kill
  <2>2. due \in [Pid -> Nat]
    BY DEF KInv
  <2>3. k'.sleepq \in Seq(Entries)
    BY <1>8 DEF Right, Half, Tables
  <2>4. Pids(k'.sleepq) = Sleepers(k') /\ Pids(k'.sleepq) \subseteq Pid
    BY <2>3, NamesShape DEF Sleepers
  <2> QED
    BY <2>1, <2>2, <2>4
<1>12. Quiet
  BY <1>5, <1>10, <1>11 DEF Quiet
<1> QED
  BY <1>5, <1>8, <1>9, <1>11, <1>12, StepInv

\* kill.c:44-69: the victim leaves its queue and its entry becomes free.
LEMMA KillEndsStep ==
  ASSUME KInv, KillEnds
  PROVE  KInv' /\ Quiet
<1> DEFINE p == pc[me].arg
           s == Freed(k, p)
<1>1. me \in Pid /\ pc[me] \in Rest /\ pc[me].at = "kill"
  BY Caller DEF KInv, KillEnds
<1>2. p \in User /\ p \in Pid
  BY <1>1, VictimFacts, RestFacts
<1>3. Half(k, {}, Ranked) /\ k.prstate[k.currpid] = "CURR" /\ (Ranked => Top(k))
      /\ k.prstate \in [Pid -> State] /\ k.currpid \in Pid
  BY DEF KInv, Right, Half, Tables
<1>4. k' = (IF p = me THEN resched(s) ELSE s) /\ load' = load
      /\ pc' = [pc EXCEPT ![me] = InUser, ![p] = InUser] /\ due' = [due EXCEPT ![p] = 0]
  BY DEF KillEnds
<1> HIDE DEF p
<1>5. /\ Half(s, {}, Ranked) /\ s.currpid = k.currpid
      /\ s.prstate = [k.prstate EXCEPT ![p] = "FREE"] /\ Shorter(k.sleepq, s.sleepq)
      /\ Ranked /\ Top(k) /\ p # k.currpid => Top(s)
  BY <1>2, <1>3, RestFacts, FreedHalf
<1> HIDE DEF s
<1>10. s.sleepq \in Seq(Entries) /\ p \notin Pids(s.sleepq)
  BY <1>2, <1>3, <1>5 DEF Half, Queued, Sleeping, Delayed, Tables
<1>6. ASSUME p = me
      PROVE  Right(k', Ranked)
  BY <1>4, <1>5, <1>6, RestFacts, reschedRight
<1>7. ASSUME p # me
      PROVE  Right(k', Ranked)
  <2>1. s.prstate[s.currpid] = "CURR" /\ (Ranked => Top(s))
    BY <1>2, <1>3, <1>5, <1>7 DEF me
  <2>2. Right(s, Ranked)
    BY <1>5, <2>1 DEF Right
  <2> QED
    BY <1>4, <1>7, <2>2
<1>8. Right(k', Ranked)
  BY <1>6, <1>7
<1>9. pc' \in [Pid -> Rest]
  BY <1>1, <1>2, <1>4, RestFacts DEF KInv
<1>11. k'.sleepq = s.sleepq
  BY <1>4, <1>5, RestFacts, reschedRight DEF Kept
<1>12. due' \in [Pid -> Nat] /\ \A q \in Pids(s.sleepq) : due'[q] = due[q]
  <2>1. due \in [Pid -> Nat]
    BY DEF KInv
  <2>2. Pids(s.sleepq) \subseteq Pid
    BY <1>10, NamesShape
  <2> QED
    BY <1>2, <1>4, <1>10, <2>1, <2>2
<1>13. Quiet
  BY <1>4, <1>5, <1>11, <1>12 DEF Quiet
<1> QED
  BY <1>4, <1>8, <1>9, <1>12, <1>13, StepInv

\* wait.c:9-39: the caller passes or joins the queue.
LEMMA WaitStep ==
  ASSUME KInv, NEW s \in Sem, wait(s)
  PROVE  KInv' /\ Quiet
<1> DEFINE k1 == [k EXCEPT !.scount[s] = @ - 1]
           k2 == [Blocked(k1, "WAIT") EXCEPT !.prsem[me] = s, !.squeue[s] = Append(@, me)]
<1>1. k \in Tables /\ k.scount \in [Sem -> Int] /\ Counts(k) /\ Heard(k, {})
  BY DEF KInv, Right, Half, Tables
<1>2. me \in User /\ me # NULLPROC /\ k.sstate[s] = "USED"
  BY Caller, RestFacts DEF wait
<1>3. k1.scount[s] = k.scount[s] - 1
  BY <1>1 DEF Tables
<1>4. CASE k1.scount[s] >= 0
  <2> DEFINE counts == [k.scount EXCEPT ![s] = @ - 1]
  <2>1. k1 = [k EXCEPT !.scount = counts] /\ counts \in [Sem -> Int]
        /\ counts[s] = k.scount[s] - 1
        /\ \A x \in Sem : x # s => counts[x] = k.scount[x]
    BY <1>1
  <2>2. Does(k1)
    BY <1>4 DEF wait
  <2> HIDE DEF counts, k1
  <2>3. /\ k1 \in Tables /\ k1.prstate = k.prstate /\ k1.prsem = k.prsem /\ k1.prprio = k.prprio
        /\ k1.prhasmsg = k.prhasmsg /\ k1.currpid = k.currpid /\ k1.readylist = k.readylist
        /\ k1.sleepq = k.sleepq /\ k1.squeue = k.squeue /\ k1.scount = counts
        /\ k1.sstate = k.sstate
    BY <1>1, <2>1 DEF Tables
  <2>4. Len(k.squeue[s]) = 0 /\ (k.sstate[s] = "FREE" => k.squeue[s] = << >>)
    BY <1>1, <1>3, <1>4 DEF Counts
  <2>5. ~ (k1.scount[s] < 0)
    BY <1>1, <1>4, <2>1, <2>3
  <2>6. Counts(k1)
    <3>1. \A x \in Sem : x # s => /\ k1.squeue[x] = k.squeue[x]
                                  /\ k1.scount[x] = k.scount[x]
                                  /\ k1.sstate[x] = k.sstate[x]
      BY <2>1, <2>3
    <3>2. Len(k1.squeue[s]) = (IF k1.scount[s] < 0 THEN -k1.scount[s] ELSE 0)
      BY <2>3, <2>4, <2>5
    <3>3. k1.sstate[s] = "FREE" => k1.squeue[s] = << >>
      BY <2>3, <2>4
    <3> QED
      BY <1>1, <3>1, <3>2, <3>3, CountsOther
  <2>7. Heard(k1, {})
    BY <1>1, <2>3 DEF Heard
  <2>8. Right(k1, Ranked)
    BY <2>3, <2>6, <2>7, SameRight, RestFacts DEF KInv
  <2>9. Shorter(k.sleepq, k1.sleepq)
    BY <2>3 DEF Shorter
  <2> QED
    BY <2>2, <2>8, <2>9, DoesStep
<1>5. CASE ~ (k1.scount[s] >= 0)
  <2>1. Does(resched(k2))
    BY <1>5 DEF wait
  <2>2. k.scount[s] - 1 < 0
    BY <1>1, <1>3, <1>5
  <2>3. Right(resched(k2), Ranked) /\ Shorter(k.sleepq, resched(k2).sleepq)
    BY <1>2, <2>2, WaitRight, RestFacts DEF KInv, me, Shorter
  <2> HIDE DEF k2
  <2> QED
    BY <2>1, <2>3, DoesStep
<1> QED
  BY <1>4, <1>5

\* How many processes n signals release.
LEMMA ReleasedShape ==
  ASSUME NEW s, NEW n \in Nat, k.scount[s] \in Int
  PROVE  Released(s, n) = IF k.scount[s] >= 0 THEN 0
                          ELSE IF n <= - k.scount[s] THEN n ELSE - k.scount[s]
<1> DEFINE c == IF k.scount[s] < 0 THEN -k.scount[s] ELSE 0
<1>1. c \in Nat
  OBVIOUS
<1>2. Released(s, n) = CHOOSE x \in {n, c} : \A y \in {n, c} : x <= y
  BY DEF Released, Min
<1> HIDE DEF c
<1>3. \E x \in {n, c} : \A y \in {n, c} : x <= y
  BY <1>1
<1>4. Released(s, n) \in {n, c} /\ Released(s, n) <= n /\ Released(s, n) <= c
  BY <1>2, <1>3
<1> QED
  BY <1>1, <1>4 DEF c

\* signal.c and signaln.c:9-37: as many leave the queue as there are signals.
LEMMA SignalStep ==
  ASSUME KInv, NEW s \in Sem, NEW n \in 1 .. NPROC - 1, signaln(s, n)
  PROVE  KInv' /\ Quiet
<1> DEFINE r == Released(s, n)
           queue == k.squeue[s]
           rest == SubSeq(queue, r + 1, Len(queue))
           ps == SubSeq(queue, 1, r)
           counts == [k.scount EXCEPT ![s] = @ + n]
           queues == [k.squeue EXCEPT ![s] = rest]
           t == [k EXCEPT !.scount[s] = @ + n, !.squeue[s] = SubSeq(@, r + 1, Len(@))]
<1>1. /\ k \in Tables /\ k.scount \in [Sem -> Int] /\ k.squeue \in [Sem -> Seq(Pid)]
      /\ Counts(k) /\ k.sstate[s] = "USED" /\ n \in Nat
  <2>1. n \in Nat
    BY KernelAssumption
  <2> QED
    BY <2>1 DEF KInv, Right, Half, Tables, signaln
<1>2. queue \in Seq(Pid) /\ Len(queue) = (IF k.scount[s] < 0 THEN -k.scount[s] ELSE 0)
      /\ k.scount[s] \in Int
  BY <1>1 DEF Counts
<1>3. r = IF k.scount[s] >= 0 THEN 0
          ELSE IF n <= - k.scount[s] THEN n ELSE - k.scount[s]
  BY <1>1, <1>2, ReleasedShape
<1>4. Does(ReadyAll(t, ps))
  BY DEF signaln
<1>5. t = [k EXCEPT !.scount = counts, !.squeue = queues]
  BY <1>1 DEF Tables
<1> HIDE DEF r
<1>6. r \in 0 .. Len(queue) /\ Len(queue) - r = IF k.scount[s] + n < 0 THEN -(k.scount[s] + n) ELSE 0
  BY <1>1, <1>2, <1>3
<1>7. rest \in Seq(Pid) /\ Len(rest) = Len(queue) - r
      /\ \A j \in 1 .. Len(rest) : rest[j] = queue[j + r]
  BY <1>2, <1>6, DropShape
<1>8. ps \in Seq(Pid) /\ Len(ps) = r /\ \A j \in 1 .. r : ps[j] = queue[j]
  BY <1>2, <1>6, SMTT(30)
<1>9. /\ counts \in [Sem -> Int] /\ counts[s] = k.scount[s] + n
      /\ \A x \in Sem : x # s => counts[x] = k.scount[x]
  BY <1>1
<1> HIDE DEF t, rest, ps, counts
<1>10. /\ queues \in [Sem -> Seq(Pid)] /\ queues[s] = rest
       /\ \A x \in Sem : x # s => queues[x] = k.squeue[x]
  BY <1>1, <1>7
<1> HIDE DEF queues
<1>11. /\ t \in Tables /\ t.prstate = k.prstate /\ t.prsem = k.prsem /\ t.prprio = k.prprio
       /\ t.prhasmsg = k.prhasmsg /\ t.currpid = k.currpid /\ t.readylist = k.readylist
       /\ t.sleepq = k.sleepq /\ t.squeue = queues /\ t.scount = counts
       /\ t.sstate = k.sstate
  BY <1>1, <1>5, <1>9, <1>10 DEF Tables
<1>12. Right(k, Ranked)
  BY DEF KInv
<1>13. /\ t.squeue[s] = rest /\ t.scount[s] = k.scount[s] + n /\ t.sstate[s] # "FREE"
       /\ \A x \in Sem : x # s => /\ t.squeue[x] = k.squeue[x]
                                  /\ t.scount[x] = k.scount[x]
                                  /\ t.sstate[x] = k.sstate[x]
  BY <1>1, <1>9, <1>10, <1>11
<1>14. Len(t.squeue[s]) = (IF t.scount[s] < 0 THEN -t.scount[s] ELSE 0)
  BY <1>6, <1>7, <1>13
<1>15. Right(ReadyAll(t, ps), Ranked) /\ Shorter(k.sleepq, ReadyAll(t, ps).sleepq)
  <2>1. Cut(queue, r, ps, t.squeue[s])
    BY <1>6, <1>7, <1>8, <1>13 DEF Cut
  <2>2. Releases(k, t, s, r, ps)
    BY <1>11, <1>13, <1>14, <2>1 DEF Releases, queue
  <2> QED
    BY <1>8, <1>11, <1>12, <2>2, ReleasedRight, RestFacts DEF Shorter
<1> QED
  BY <1>4, <1>15, DoesStep

\* All who wait for s are released, and s has a count and a state of its own.
LEMMA AllReleasedRight ==
  ASSUME KInv, NEW s \in Sem, NEW n \in Nat, NEW state \in {"FREE", "USED"}
  PROVE  LET t == ReadyAll([k EXCEPT !.sstate[s] = state, !.scount[s] = n, !.squeue[s] = << >>],
                           k.squeue[s])
         IN  Right(t, Ranked) /\ Shorter(k.sleepq, t.sleepq)
<1> DEFINE queue == k.squeue[s]
           counts == [k.scount EXCEPT ![s] = n]
           queues == [k.squeue EXCEPT ![s] = << >>]
           states == [k.sstate EXCEPT ![s] = state]
           t == [k EXCEPT !.sstate[s] = state, !.scount[s] = n, !.squeue[s] = << >>]
<1>1. /\ k \in Tables /\ k.scount \in [Sem -> Int] /\ k.squeue \in [Sem -> Seq(Pid)]
      /\ k.sstate \in [Sem -> {"FREE", "USED"}] /\ Right(k, Ranked)
  BY DEF KInv, Right, Half, Tables
<1>2. queue \in Seq(Pid) /\ Len(queue) \in 0 .. Len(queue)
  BY <1>1
<1>3. t = [k EXCEPT !.sstate = states, !.scount = counts, !.squeue = queues]
  BY <1>1 DEF Tables
<1>4. /\ counts \in [Sem -> Int] /\ counts[s] = n
      /\ \A x \in Sem : x # s => counts[x] = k.scount[x]
  BY <1>1
<1>5. /\ queues \in [Sem -> Seq(Pid)] /\ queues[s] = << >>
      /\ \A x \in Sem : x # s => queues[x] = k.squeue[x]
  BY <1>1
<1>6. /\ states \in [Sem -> {"FREE", "USED"}]
      /\ \A x \in Sem : x # s => states[x] = k.sstate[x]
  BY <1>1
<1> HIDE DEF t, counts, queues, states
<1>7. /\ t \in Tables /\ t.prstate = k.prstate /\ t.prsem = k.prsem /\ t.prprio = k.prprio
      /\ t.prhasmsg = k.prhasmsg /\ t.currpid = k.currpid /\ t.readylist = k.readylist
      /\ t.sleepq = k.sleepq /\ t.squeue = queues /\ t.scount = counts
      /\ t.sstate = states
  BY <1>1, <1>3, <1>4, <1>5, <1>6 DEF Tables
<1>8. /\ t.squeue[s] \in Seq(Pid) /\ Len(t.squeue[s]) = Len(queue) - Len(queue)
      /\ \A j \in 1 .. Len(t.squeue[s]) : t.squeue[s][j] = queue[j + Len(queue)]
      /\ Len(t.squeue[s]) = (IF t.scount[s] < 0 THEN -t.scount[s] ELSE 0)
      /\ t.squeue[s] = << >>
  BY <1>2, <1>4, <1>5, <1>7
<1>9. \A x \in Sem : x # s => /\ t.squeue[x] = k.squeue[x]
                              /\ t.scount[x] = k.scount[x]
                              /\ t.sstate[x] = k.sstate[x]
  BY <1>4, <1>5, <1>6, <1>7
<1>10. Right(ReadyAll(t, queue), Ranked) /\ Shorter(k.sleepq, ReadyAll(t, queue).sleepq)
  <2>1. Cut(queue, Len(queue), queue, t.squeue[s])
    BY <1>2, <1>8 DEF Cut
  <2>2. Releases(k, t, s, Len(queue), queue)
    BY <1>7, <1>8, <1>9, <2>1, SMTT(30) DEF Releases, queue
  <2> QED
    BY <1>1, <1>2, <1>7, <2>2, ReleasedRight, RestFacts DEF Shorter
<1> QED
  BY <1>10 DEF t

\* semdelete.c:9-36: all leave the queue and the entry becomes free.
LEMMA SemdeleteStep ==
  ASSUME KInv, NEW s \in Sem, semdelete(s)
  PROVE  KInv' /\ Quiet
BY AllReleasedRight, DoesStep DEF semdelete

\* semreset.c:9-35: all leave the queue and the count is new.
LEMMA SemresetStep ==
  ASSUME KInv, NEW s \in Sem, NEW n \in 0 .. MaxCount, semreset(s, n)
  PROVE  KInv' /\ Quiet
<1> DEFINE t == [k EXCEPT !.scount[s] = n, !.squeue[s] = << >>]
<1>1. k \in Tables /\ k.sstate[s] = "USED" /\ k.sstate \in [Sem -> {"FREE", "USED"}]
  BY DEF KInv, Right, Half, Tables, semreset
<1>2. [k EXCEPT !.sstate[s] = "USED", !.scount[s] = n, !.squeue[s] = << >>] = t
  <2>1. [k.sstate EXCEPT ![s] = "USED"] = k.sstate
    BY <1>1
  <2> QED
    BY <1>1, <2>1 DEF Tables
<1>3. n \in Nat
  BY KernelAssumption, SMTT(30)
<1>4. /\ Right(ReadyAll(t, k.squeue[s]), Ranked)
      /\ Shorter(k.sleepq, ReadyAll(t, k.squeue[s]).sleepq)
  BY <1>2, <1>3, AllReleasedRight
<1> QED
  BY <1>4, DoesStep DEF semreset

\* semcreate.c:11-50: a free entry becomes a semaphore.
LEMMA SemcreateStep ==
  ASSUME KInv, NEW n \in 0 .. MaxCount, semcreate(n)
  PROVE  KInv' /\ Quiet
<1> DEFINE s == FirstFree(k.sstate, k.nextsem, NSEM)
           counts == [k.scount EXCEPT ![s] = n]
           states == [k.sstate EXCEPT ![s] = "USED"]
           next == (s + 1) % NSEM
           t == [k EXCEPT !.sstate[s] = "USED", !.scount[s] = n,
                          !.nextsem = (s + 1) % NSEM]
<1>1. PICK s0 \in Sem : k.sstate[s0] = "FREE"
  BY DEF semcreate
<1>2. NSEM \in Nat \ {0} /\ k.nextsem \in 0 .. NSEM - 1
  BY KernelAssumption DEF KInv, Right, Half, Tables, Sem
<1>3. s \in Sem /\ k.sstate[s] = "FREE"
  BY <1>1, <1>2, FirstFreeShape DEF Sem
<1>4. /\ k \in Tables /\ Counts(k) /\ Heard(k, {}) /\ k.scount \in [Sem -> Int]
      /\ k.sstate \in [Sem -> {"FREE", "USED"}] /\ Right(k, Ranked)
  BY DEF KInv, Right, Half, Tables
<1>5. Does(t)
  BY DEF semcreate
<1>6. next \in Sem
  BY <1>2, <1>3 DEF Sem
<1> HIDE DEF s
<1>7. t = [k EXCEPT !.sstate = states, !.scount = counts, !.nextsem = next]
  BY <1>4 DEF Tables
<1>8. n \in Nat
  BY KernelAssumption
<1>9. /\ counts \in [Sem -> Int] /\ counts[s] = n
      /\ \A x \in Sem : x # s => counts[x] = k.scount[x]
  BY <1>3, <1>4, <1>8
<1>10. /\ states \in [Sem -> {"FREE", "USED"}] /\ states[s] = "USED"
       /\ \A x \in Sem : x # s => states[x] = k.sstate[x]
  BY <1>3, <1>4
<1> HIDE DEF t, counts, states, next
<1>11. /\ t \in Tables /\ t.prstate = k.prstate /\ t.prsem = k.prsem /\ t.prprio = k.prprio
       /\ t.prhasmsg = k.prhasmsg /\ t.currpid = k.currpid /\ t.readylist = k.readylist
       /\ t.sleepq = k.sleepq /\ t.squeue = k.squeue /\ t.scount = counts
       /\ t.sstate = states
  BY <1>4, <1>6, <1>7, <1>9, <1>10 DEF Tables
<1>12. Counts(t)
  <2>1. k.squeue[s] = << >>
    BY <1>3, <1>4 DEF Counts
  <2>2. Len(t.squeue[s]) = (IF t.scount[s] < 0 THEN -t.scount[s] ELSE 0)
    BY <1>8, <1>9, <1>11, <2>1
  <2> QED
    BY <1>3, <1>4, <1>9, <1>10, <1>11, <2>2, CountsOther
<1>13. Heard(t, {})
  BY <1>4, <1>11 DEF Heard
<1>14. Right(t, Ranked)
  BY <1>4, <1>11, <1>12, <1>13, SameRight, RestFacts
<1>15. Shorter(k.sleepq, t.sleepq)
  BY <1>11 DEF Shorter
<1> QED
  BY <1>5, <1>14, <1>15, DoesStep

\* send.c:9-41.
LEMMA SendStep ==
  ASSUME KInv, NEW p \in Pid, Send(p)
  PROVE  KInv' /\ Quiet
<1>1. Right(send(k, p), Ranked) /\ Shorter(k.sleepq, send(k, p).sleepq)
  BY sendRight, RestFacts DEF KInv
<1> QED
  BY <1>1, DoesStep DEF Send

\* receive.c:9-20 without a message at hand.
LEMMA ReceiveStep ==
  ASSUME KInv, receive
  PROVE  KInv' /\ Quiet
<1>1. me \in User /\ me # NULLPROC /\ At("receive", me) \in Rest /\ ~ k.prhasmsg[me]
  BY Caller, RestFacts DEF receive
<1>2. /\ Right(resched(Blocked(k, "RECV")), Ranked)
      /\ Shorter(k.sleepq, resched(Blocked(k, "RECV")).sleepq)
  BY <1>1, BlockedRight, RestFacts DEF KInv, me, Shorter
<1> QED
  BY <1>1, <1>2, GoesStep DEF receive

\* recvtime.c:9-31 without a message at hand.
LEMMA RecvtimeStep ==
  ASSUME KInv, NEW d \in load.delays, recvtime(d)
  PROVE  KInv'
<1>1. me \in User /\ me # NULLPROC /\ At("receive", me) \in Rest /\ ~ k.prhasmsg[me]
  BY Caller, RestFacts DEF recvtime
<1>2. d \in Int /\ d \in Nat
  BY KernelAssumption DEF KInv
<1>3. Right(resched([Blocked(k, "RECTIM") EXCEPT !.sleepq = insertd(@, me, d)]), Ranked)
  BY <1>1, <1>2, DelayedRight, RestFacts DEF KInv, me, Delayed
<1>4. /\ k' = resched([Blocked(k, "RECTIM") EXCEPT !.sleepq = insertd(@, me, d)])
      /\ pc' = [pc EXCEPT ![me] = At("receive", me)] /\ load' = load
      /\ due' = [due EXCEPT ![me] = d]
  BY DEF recvtime
<1>5. pc' \in [Pid -> Rest] /\ due' \in [Pid -> Nat]
  BY <1>1, <1>2, <1>4 DEF KInv
<1> QED
  BY <1>3, <1>4, <1>5, StepInv

\* sleep.c:26-50.
LEMMA SleepStep ==
  ASSUME KInv, NEW d \in load.delays, sleepms(d)
  PROVE  KInv'
<1>1. me \in User /\ me # NULLPROC
  BY Caller, RestFacts DEF sleepms
<1>2. d \in Int /\ d \in Nat
  BY KernelAssumption DEF KInv
<1>3. Right(resched([Blocked(k, "SLEEP") EXCEPT !.sleepq = insertd(@, me, d)]), Ranked)
  BY <1>1, <1>2, DelayedRight, RestFacts DEF KInv, me, Delayed
<1>4. /\ k' = resched([Blocked(k, "SLEEP") EXCEPT !.sleepq = insertd(@, me, d)])
      /\ pc' = pc /\ load' = load
      /\ due' = [due EXCEPT ![me] = d]
  BY DEF sleepms
<1>5. pc' \in [Pid -> Rest] /\ due' \in [Pid -> Nat]
  BY <1>2, <1>4 DEF KInv
<1> QED
  BY <1>3, <1>4, <1>5, StepInv

\* The message is taken (receive.c:21-22, recvtime.c:36-41, recvclr.c:17-20).
LEMMA TakeStep ==
  ASSUME KInv, TakeMessage
  PROVE  KInv' /\ Quiet
<1> DEFINE msgs == [k.prhasmsg EXCEPT ![me] = FALSE]
           t == [k EXCEPT !.prhasmsg[me] = FALSE]
<1>1. /\ k \in Tables /\ Counts(k) /\ Heard(k, {}) /\ k.prhasmsg \in [Pid -> BOOLEAN]
      /\ Right(k, Ranked) /\ me \in Pid
  BY Caller DEF KInv, Right, Half, Tables
<1>2. k' = t /\ pc' = [pc EXCEPT ![me] = InUser] /\ load' = load
  BY DEF TakeMessage
<1>3. t = [k EXCEPT !.prhasmsg = msgs] /\ msgs \in [Pid -> BOOLEAN] /\ msgs[me] = FALSE
      /\ \A q \in Pid : q # me => msgs[q] = k.prhasmsg[q]
  BY <1>1
<1> HIDE DEF t, msgs
<1>4. /\ t \in Tables /\ t.prstate = k.prstate /\ t.prsem = k.prsem /\ t.prprio = k.prprio
      /\ t.prhasmsg = msgs /\ t.currpid = k.currpid /\ t.readylist = k.readylist
      /\ t.sleepq = k.sleepq /\ t.squeue = k.squeue /\ t.scount = k.scount
      /\ t.sstate = k.sstate
  BY <1>1, <1>3 DEF Tables
<1>5. Counts(t) /\ Heard(t, {})
  BY <1>1, <1>3, <1>4 DEF Counts, Heard
<1>6. Right(t, Ranked)
  BY <1>1, <1>4, <1>5, SameRight, RestFacts
<1>7. pc' \in [Pid -> Rest]
  BY <1>1, <1>2, RestFacts DEF KInv
<1>8. due' = due /\ due \in [Pid -> Nat]
  BY DEF TakeMessage, KInv
<1>9. Quiet
  BY <1>2, <1>4, <1>8 DEF Quiet, Shorter
<1> QED
  BY <1>2, <1>6, <1>7, <1>8, <1>9, StepInv

\* clkhandler.c:9-45: a tick, the processes it wakes and the time slice.
LEMMA ClockStep ==
  ASSUME KInv, clkhandler
  PROVE  KInv'
<1> DEFINE ticked == IF k.sleepq = << >> THEN k ELSE [k EXCEPT !.sleepq[1].key = @ - 1]
           woken == wakeup(ticked)
           s == IF woken = ticked THEN woken ELSE resched(woken)
<1>1. IF s.currpid = me THEN Goes(Preempt(s), InUser, 1) ELSE Goes(s, At("clock", me), 1)
  BY DEF clkhandler
<1>2. Right(k, Ranked) /\ Ranked \in BOOLEAN
  BY RestFacts DEF KInv
<1>3. Right(ticked, Ranked)
  BY <1>2, TickedRight
<1> HIDE DEF ticked
<1>4. Half(woken, {}, Ranked)
  BY <1>2, <1>3, WokenHalf
<1> HIDE DEF woken
<1>5. Right(s, Ranked)
  BY <1>2, <1>3, <1>4, reschedRight
<1> HIDE DEF s
<1>6. Right(Preempt(s), Ranked)
  BY <1>2, <1>5, PreemptRight
<1>7. InUser \in Rest /\ At("clock", me) \in Rest /\ 1 \in Nat
  BY Caller, RestFacts
<1> QED
  BY <1>1, <1>5, <1>6, <1>7, GoesStep

\* clkhandler.c:41-44 after the interrupted process was switched away.
LEMMA ClockEndsStep ==
  ASSUME KInv, ClockEnds
  PROVE  KInv' /\ Quiet
<1>1. k' = Preempt(k) /\ load' = load /\ pc' = [pc EXCEPT ![me] = InUser]
  BY DEF ClockEnds
<1>2. Right(Preempt(k), Ranked) /\ Preempt(k).sleepq = k.sleepq
  BY PreemptRight, RestFacts DEF KInv
<1>3. pc' \in [Pid -> Rest]
  BY <1>1, Caller, RestFacts DEF KInv
<1>4. due' = due /\ due \in [Pid -> Nat]
  BY DEF ClockEnds, KInv
<1>5. Quiet
  BY <1>1, <1>2, <1>4 DEF Quiet, Shorter
<1> QED
  BY <1>1, <1>2, <1>3, <1>4, <1>5, StepInv

-----------------------------------------------------------------------------
\* sysinit leaves tables that satisfy the invariant.
LEMMA InitInv ==
  ASSUME Init
  PROVE  KInv
<1> DEFINE e == Entry(NULLPROC, 0)
           list == <<e>>
<1>1. NPROC \in Nat /\ NPROC > 1 /\ QUANTUM \in 1 .. QUANTUM /\ load \in Loads
  BY KernelAssumption DEF Init
<1>2. 0 \in Pid /\ 1 \in Pid /\ NULLPROC = 0 /\ 2 % NPROC \in Pid
  BY <1>1 DEF Pid, NULLPROC
<1>3. PICK prio \in load.prios :
       k = [prstate |-> [p \in Pid |-> CASE p = 0 -> "READY" [] p = 1 -> "CURR"
                                       [] OTHER -> "FREE"],
            prprio |-> [p \in Pid |-> IF p = 1 THEN prio ELSE 0],
            prsem |-> [p \in Pid |-> -1],
            prparent |-> [p \in Pid |-> NULLPROC],
            prhasmsg |-> [p \in Pid |-> FALSE],
            prcount |-> 2, nextpid |-> 2 % NPROC,
            readylist |-> <<Entry(NULLPROC, 0)>>, currpid |-> 1,
            sleepq |-> << >>, preempt |-> QUANTUM,
            sstate |-> [s \in Sem |-> "FREE"], scount |-> [s \in Sem |-> 0],
            squeue |-> [s \in Sem |-> << >>], nextsem |-> 0]
  BY DEF Init
<1>4. prio \in Nat
  BY <1>1, KernelAssumption
<1>5. /\ k.prstate = [p \in Pid |-> IF p = 0 THEN "READY" ELSE IF p = 1 THEN "CURR" ELSE "FREE"]
      /\ k.prprio = [p \in Pid |-> IF p = 1 THEN prio ELSE 0]
      /\ k.prhasmsg = [p \in Pid |-> FALSE]
      /\ k.readylist = list /\ k.currpid = 1 /\ k.sleepq = << >>
      /\ k.scount = [s \in Sem |-> 0] /\ k.squeue = [s \in Sem |-> << >>]
  BY <1>3
<1>6. e \in Entries /\ e.pid = 0 /\ e.key = 0
  BY <1>2, EntryShape
<1> HIDE DEF e
<1>7. /\ list \in Seq(Entries) /\ Len(list) = 1 /\ list[1] = e /\ list # << >> /\ Head(list) = e
      /\ \A i \in 1 .. Len(list) : i = 1
  BY <1>6
<1> HIDE DEF list
<1>8. k \in Tables
  <2>1. [p \in Pid |-> IF p = 0 THEN "READY" ELSE IF p = 1 THEN "CURR" ELSE "FREE"] \in [Pid -> State]
    BY DEF State
  <2>2. \A p \in Pid : k.prstate[p] \in State
    BY <1>5, <2>1
  <2> QED
    BY <1>1, <1>2, <1>3, <1>4, <1>5, <1>7, <2>1 DEF Tables
<1>9. Queued(k, {})
  <2>1. Pids(k.readylist) = {p \in Pid : k.prstate[p] = "READY"}
    <3>1. Pids(list) = {0}
      BY <1>6, <1>7, NamesShape
    <3> QED
      BY <1>2, <1>5, <3>1
  <2>2. Distinct(k.readylist) /\ Descending(k.readylist)
    BY <1>5, <1>7, NamesShape DEF Descending
  <2>3. Len(Names(k.sleepq)) = 0
    BY <1>5 DEF Names
  <2>4. Pids(k.sleepq) = {} /\ Distinct(k.sleepq)
    BY <2>3 DEF Pids, Members, Distinct, NoRepeats
  <2>5. \A p \in Pid : k.prstate[p] \notin Delayed /\ k.prstate[p] # "WAIT"
    BY <1>5 DEF Delayed
  <2>6. \A sem \in Sem : Members(k.squeue[sem]) = {} /\ NoRepeats(k.squeue[sem])
    BY <1>5 DEF Members, NoRepeats
  <2>7. \A p \in Pid : k.prstate[p] = "CURR" => p = k.currpid
    BY <1>5
  <2>8. k.prstate[NULLPROC] \in Eligible
    BY <1>2, <1>5 DEF Eligible
  <2> QED
    BY <2>1, <2>2, <2>4, <2>5, <2>6, <2>7, <2>8 DEF Queued, Sleeping, Waiters
<1>10. Counts(k) /\ Heard(k, {})
  BY <1>5 DEF Counts, Heard
<1>11. Keyed(k) /\ Top(k) /\ k.prstate[k.currpid] = "CURR"
  BY <1>2, <1>4, <1>5, <1>6, <1>7 DEF Keyed, Top
<1>12. Right(k, Ranked)
  BY <1>8, <1>9, <1>10, <1>11 DEF Right, Half
<1>13. pc \in [Pid -> Rest] /\ due \in [Pid -> Nat]
  BY RestFacts DEF Init
<1> QED
  BY <1>1, <1>12, <1>13 DEF KInv

\* Every step keeps the invariant.
LEMMA NextInv ==
  ASSUME KInv, [Next]_vars
  PROVE  KInv'
<1>1. CASE create
  BY <1>1, CreateStep
<1>2. CASE yield
  BY <1>2, YieldStep
<1>3. CASE receive
  BY <1>3, ReceiveStep
<1>4. CASE TakeMessage
  BY <1>4, TakeStep
<1>5. CASE clkhandler
  BY <1>5, ClockStep
<1>6. CASE ClockEnds
  BY <1>6, ClockEndsStep
<1>7. CASE KillEnds
  BY <1>7, KillEndsStep
<1>8. ASSUME NEW p \in Pid, resume(p) PROVE KInv'
  BY <1>8, ResumeStep
<1>9. ASSUME NEW p \in Pid, suspend(p) PROVE KInv'
  BY <1>9, SuspendStep
<1>10. ASSUME NEW p \in Pid, kill(p) PROVE KInv'
  BY <1>10, KillStep
<1>11. ASSUME NEW p \in Pid, Send(p) PROVE KInv'
  BY <1>11, SendStep
<1>12. ASSUME NEW p \in Pid, NEW prio \in load.prios, chprio(p, prio) PROVE KInv'
  BY <1>12, ChprioStep
<1>13. ASSUME NEW s \in Sem, wait(s) PROVE KInv'
  BY <1>13, WaitStep
<1>14. ASSUME NEW s \in Sem, semdelete(s) PROVE KInv'
  BY <1>14, SemdeleteStep
<1>15. ASSUME NEW s \in Sem, NEW n \in 1 .. NPROC - 1, signaln(s, n) PROVE KInv'
  BY <1>15, SignalStep
<1>16. ASSUME NEW s \in Sem, NEW n \in 0 .. MaxCount, semreset(s, n) PROVE KInv'
  BY <1>16, SemresetStep
<1>17. ASSUME NEW n \in 0 .. MaxCount, semcreate(n) PROVE KInv'
  BY <1>17, SemcreateStep
<1>18. ASSUME NEW d \in load.delays, recvtime(d) PROVE KInv'
  BY <1>18, RecvtimeStep
<1>19. ASSUME NEW d \in load.delays, sleepms(d) PROVE KInv'
  BY <1>19, SleepStep
<1>20. CASE UNCHANGED vars
  BY <1>20 DEF vars, KInv, Ranked, Makes
<1> QED
  BY <1>1, <1>2, <1>3, <1>4, <1>5, <1>6, <1>7, <1>8, <1>9, <1>10, <1>11, <1>12, <1>13,
     <1>14, <1>15, <1>16, <1>17, <1>18, <1>19, <1>20 DEF Next

\* KInv holds throughout, for every workload.
THEOREM KernelInv == Spec => []KInv
<1>1. Init => KInv
  BY InitInv
<1>2. KInv /\ [Next]_vars => KInv'
  BY NextInv
<1> QED
  BY <1>1, <1>2, PTL DEF Spec
-----------------------------------------------------------------------------
(* What it says of the properties.                                          *)

\* A process that is ready, asleep or waits has one place, in the queue of its
\* state, and any other process has none.
LEMMA OnePlace ==
  ASSUME KInv, NEW p \in Pid
  PROVE  {place[1] : place \in Places(p)} = Home(p) /\ Cardinality(Places(p)) <= 1
<1> DEFINE R == {j \in 1 .. Len(k.readylist) : k.readylist[j].pid = p}
           S == {j \in 1 .. Len(k.sleepq) : k.sleepq[j].pid = p}
           W(s) == {j \in 1 .. Len(k.squeue[s]) : k.squeue[s][j] = p}
<1>1. /\ k \in Tables /\ Queued(k, {}) /\ k.readylist \in Seq(Entries)
      /\ k.sleepq \in Seq(Entries) /\ k.squeue \in [Sem -> Seq(Pid)]
  BY DEF KInv, Right, Half, Tables
<1>2. /\ Distinct(k.readylist) /\ Distinct(k.sleepq) /\ \A s \in Sem : NoRepeats(k.squeue[s])
      /\ k.prstate[p] = "WAIT" => k.prsem[p] \in Sem
  BY <1>1 DEF Queued
<1>3. (R # {} <=> k.prstate[p] = "READY") /\ \A i, j \in R : i = j
  <2>1. p \in Pids(k.readylist) <=> k.prstate[p] = "READY"
    BY <1>1, OnQueue
  <2>2. p \in Pids(k.readylist) <=> R # {}
    <3>1. Pids(k.readylist) = {k.readylist[i].pid : i \in 1 .. Len(k.readylist)}
      BY <1>1, NamesShape
    <3> QED
      BY <3>1
  <2>3. \A i, j \in 1 .. Len(k.readylist) : k.readylist[i].pid = k.readylist[j].pid => i = j
    BY <1>1, <1>2, NamesShape
  <2> QED
    BY <2>1, <2>2, <2>3
<1>4. (S # {} <=> k.prstate[p] \in Delayed) /\ \A i, j \in S : i = j
  BY <1>1, <1>2, NamesShape, OnQueue, SMTT(30)
<1>5. ASSUME NEW s \in Sem
      PROVE  /\ W(s) # {} <=> k.prstate[p] = "WAIT" /\ k.prsem[p] = s
             /\ \A i, j \in W(s) : i = j
  BY <1>1, <1>2, OnQueue DEF Members, NoRepeats
<1>6. \A x : x \in Places(p) <=> \/ \E i \in R : x = <<Ready, i>>
                                 \/ \E i \in S : x = <<Asleep, i>>
                                 \/ \E s \in Sem : \E i \in W(s) : x = <<On(s), i>>
  BY DEF Places
<1> HIDE DEF R, S, W
<1>7. CASE k.prstate[p] = "READY"
  <2>1. PICK i : i \in R
    BY <1>3, <1>7
  <2>2. S = {} /\ \A s \in Sem : W(s) = {}
    BY <1>4, <1>5, <1>7 DEF Delayed
  <2>3. Places(p) = {<<Ready, i>>}
    BY <1>3, <1>6, <2>1, <2>2
  <2>4. Home(p) = {Ready}
    BY <1>7 DEF Home
  <2>5. {place[1] : place \in Places(p)} = {Ready}
    BY <2>3
  <2> QED
    BY <2>3, <2>4, <2>5, FS_Singleton
<1>8. CASE k.prstate[p] \in Delayed
  <2>1. PICK i : i \in S
    BY <1>4, <1>8
  <2>2. R = {} /\ \A s \in Sem : W(s) = {}
    BY <1>3, <1>5, <1>8 DEF Delayed
  <2>3. Places(p) = {<<Asleep, i>>}
    BY <1>4, <1>6, <2>1, <2>2
  <2>4. Home(p) = {Asleep}
    BY <1>8 DEF Home, Delayed
  <2>5. {place[1] : place \in Places(p)} = {Asleep}
    BY <2>3
  <2> QED
    BY <2>3, <2>4, <2>5, FS_Singleton
<1>9. CASE k.prstate[p] = "WAIT"
  <2>1. k.prsem[p] \in Sem
    BY <1>2, <1>9
  <2>2. PICK i : i \in W(k.prsem[p])
    BY <1>5, <1>9, <2>1
  <2>3. R = {} /\ S = {} /\ \A s \in Sem : s # k.prsem[p] => W(s) = {}
    BY <1>3, <1>4, <1>5, <1>9 DEF Delayed
  <2>4. Places(p) = {<<On(k.prsem[p]), i>>}
    <3>1. ASSUME NEW x \in Places(p)
          PROVE  x = <<On(k.prsem[p]), i>>
      BY <1>5, <1>6, <2>1, <2>2, <2>3
    <3>2. <<On(k.prsem[p]), i>> \in Places(p)
      BY <1>6, <2>1, <2>2
    <3> QED
      BY <3>1, <3>2
  <2>5. Home(p) = {On(k.prsem[p])}
    BY <1>9 DEF Home
  <2> DEFINE home == On(k.prsem[p])
  <2>6. {place[1] : place \in Places(p)} = {home}
    <3> HIDE DEF home
    <3> QED
      BY <2>4 DEF home
  <2> QED
    <3>1. Cardinality({<<home, i>>}) = 1
      BY FS_Singleton
    <3> HIDE DEF home
    <3>2. Places(p) = {<<home, i>>} /\ Home(p) = {home}
      BY <2>4, <2>5 DEF home
    <3> QED
      BY <2>6, <3>1, <3>2
<1>10. CASE k.prstate[p] \notin {"READY", "SLEEP", "RECTIM", "WAIT"}
  <2>1. R = {} /\ S = {} /\ \A s \in Sem : W(s) = {}
    BY <1>3, <1>4, <1>5, <1>10 DEF Delayed
  <2>2. Places(p) = {}
    BY <1>6, <2>1
  <2>3. Home(p) = {}
    BY <1>10 DEF Home
  <2> QED
    BY <2>2, <2>3, FS_EmptySet
<1> QED
  BY <1>7, <1>8, <1>9, <1>10 DEF Delayed

\* Each process is on one queue at most, the one its state calls for; only the
\* process that runs is current; and the ready list is in the order of its keys
\* (insert.c, getitem.c, resched.c, kill.c).
THEOREM KernelQueues == Spec => []QueuesSound
<1>1. KInv => QueuesSound
  <2> SUFFICES ASSUME KInv
               PROVE  QueuesSound
    OBVIOUS
  <2>1. Queued(k, {}) /\ k.prstate[k.currpid] = "CURR"
    BY DEF KInv, Right, Half
  <2>2. \A p \in Pid : k.prstate[p] = "CURR" <=> p = me
    BY <2>1 DEF Queued, me
  <2>3. Descending(k.readylist)
    BY <2>1 DEF Queued
  <2> QED
    BY <2>2, <2>3, OnePlace DEF QueuesSound, Descending
<1> QED
  BY <1>1, KernelInv, PTL

\* A negative count is the number of processes that wait; nobody waits for a
\* semaphore that is free or positive (wait.c, signal.c, signaln.c, semdelete.c,
\* semreset.c, kill.c).
THEOREM KernelSemaphores == Spec => []SemaphoresExact
<1>1. KInv => SemaphoresExact
  BY DEF KInv, Right, Half, Counts, SemaphoresExact
<1> QED
  BY <1>1, KernelInv, PTL

\* Nobody waits for a message with one at hand (send.c, receive.c, recvtime.c).
THEOREM KernelMessages == Spec => []NoMessageMissed
<1>1. KInv => NoMessageMissed
  BY DEF KInv, Right, Half, Heard, NoMessageMissed
<1> QED
  BY <1>1, KernelInv, PTL

\* Unless priorities change, no process that is ready has a higher one than the
\* process that runs, also after the loops that defer rescheduling (resched.c).
THEOREM KernelPriorities == Spec => []HighestRuns
<1>1. KInv => HighestRuns
  BY DEF KInv, Right, Top, HighestRuns, Ranked, me
<1> QED
  BY <1>1, KernelInv, PTL
-----------------------------------------------------------------------------
(* Delays.                                                                  *)

\* What DelayExact says of a process p that has left ticks in the list.
Exact(p, left) == IF 0 \in load.delays THEN left >= due[p] ELSE left = due[p] /\ left > 0

\* The delta list has no negative delay, and its sums are what is due.
DInv ==
  /\ KInv /\ Nonneg(k.sleepq)
  /\ \A x \in Times(k.sleepq) : Exact(x[1], x[2])

\* The entries of Times.
LEMMA TimesShape ==
  ASSUME NEW list \in Seq(Entries)
  PROVE  \A x \in Times(list) : x[1] \in Pids(list) /\ x[1] \in Pid /\ x[2] \in Int
<1> SUFFICES ASSUME NEW x \in Times(list)
             PROVE  x[1] \in Pids(list) /\ x[1] \in Pid /\ x[2] \in Int
  OBVIOUS
<1>1. PICK i \in 1 .. Len(list) : x = <<list[i].pid, Delay(list, i)>>
  BY DEF Times
<1>2. i \in 0 .. Len(list)
  OBVIOUS
<1> QED
  BY <1>1, <1>2, NamesShape, DelaysShape

\* The delta list as KInv has it.
LEMMA SleepFacts ==
  ASSUME KInv
  PROVE  /\ k.sleepq \in Seq(Entries) /\ Distinct(k.sleepq) /\ me \notin Pids(k.sleepq)
         /\ due \in [Pid -> Nat]
BY Running, RestFacts DEF KInv, Right, Half, Tables, me

\* A quiet step leaves what is due and what the list says.
LEMMA QuietStep ==
  ASSUME DInv, KInv', Quiet
  PROVE  DInv'
<1>1. /\ k.sleepq \in Seq(Entries) /\ Distinct(k.sleepq) /\ Nonneg(k.sleepq)
      /\ Shorter(k.sleepq, k'.sleepq)
  BY SleepFacts DEF DInv, Quiet
<1>2. /\ k'.sleepq \in Seq(Entries) /\ Nonneg(k'.sleepq)
      /\ Times(k'.sleepq) \subseteq Times(k.sleepq)
  BY <1>1, ShorterTimes
<1>3. ASSUME NEW x \in Times(k'.sleepq)
      PROVE  Exact(x[1], x[2])'
  <2>1. due'[x[1]] = due[x[1]] /\ load' = load
    BY <1>2, TimesShape DEF Quiet
  <2>2. Exact(x[1], x[2])
    BY <1>2 DEF DInv
  <2> QED
    BY <2>1, <2>2 DEF Exact
<1>4. Nonneg(k.sleepq)' /\ \A x \in Times(k'.sleepq) : Exact(x[1], x[2])'
  BY <1>2, <1>3 DEF Nonneg
<1> QED
  BY <1>4 DEF DInv, Times

\* The caller sleeps for so many ticks, at least one unless others take ticks away.
LEMMA SleepsStep ==
  ASSUME DInv, KInv', NEW d \in Nat, 0 \in load.delays \/ d > 0,
         k'.sleepq = insertd(k.sleepq, me, d), due' = [due EXCEPT ![me] = d], load' = load
  PROVE  DInv'
<1>1. /\ k.sleepq \in Seq(Entries) /\ Nonneg(k.sleepq) /\ me \notin Pids(k.sleepq)
      /\ due \in [Pid -> Nat] /\ me \in Pid
  BY SleepFacts, Caller DEF DInv
<1>2. /\ Nonneg(k'.sleepq)
      /\ Times(k'.sleepq) \subseteq Times(k.sleepq) \cup {<<me, d>>}
  BY <1>1, InsertdTimes
<1>3. ASSUME NEW x \in Times(k'.sleepq)
      PROVE  Exact(x[1], x[2])'
  <2>1. CASE x \in Times(k.sleepq)
    <3>1. x[1] # me /\ x[1] \in Pid /\ Exact(x[1], x[2])
      BY <1>1, <2>1, TimesShape DEF DInv
    <3>2. due'[x[1]] = due[x[1]]
      BY <1>1, <3>1
    <3> QED
      BY <3>1, <3>2 DEF Exact
  <2>2. CASE x = <<me, d>>
    <3>1. x[1] = me /\ x[2] = d /\ due'[me] = d
      BY <1>1, <2>2
    <3> QED
      BY <3>1 DEF Exact
  <2> QED
    BY <1>2, <2>1, <2>2
<1>4. Nonneg(k.sleepq)' /\ \A x \in Times(k'.sleepq) : Exact(x[1], x[2])'
  BY <1>2, <1>3 DEF Nonneg
<1> QED
  BY <1>4 DEF DInv, Times

\* recvtime.c:25-32 puts its caller at the right place of the delta list.
LEMMA RecvtimeDelays ==
  ASSUME DInv, NEW d \in load.delays, recvtime(d)
  PROVE  DInv'
<1>1. KInv /\ KInv'
  BY RecvtimeStep DEF DInv
<1>2. me \in User /\ me # NULLPROC /\ ~ k.prhasmsg[me] /\ d \in Nat /\ d \in Int
  BY <1>1, Caller, RestFacts, KernelAssumption DEF recvtime, KInv
<1>3. k'.sleepq = insertd(k.sleepq, me, d)
  BY <1>1, <1>2, DelayedRight, RestFacts DEF KInv, me, Delayed, recvtime
<1>4. due' = [due EXCEPT ![me] = d] /\ load' = load
  BY DEF recvtime
<1>5. 0 \in load.delays \/ d > 0
  BY <1>2
<1> QED
  BY <1>1, <1>2, <1>3, <1>4, <1>5, SleepsStep

\* So does sleep.c:39-47.
LEMMA SleepDelays ==
  ASSUME DInv, NEW d \in load.delays, sleepms(d)
  PROVE  DInv'
<1>1. KInv /\ KInv'
  BY SleepStep DEF DInv
<1>2. me \in User /\ me # NULLPROC /\ d \in Nat /\ d \in Int /\ d > 0
  BY <1>1, Caller, RestFacts, KernelAssumption DEF sleepms, KInv
<1>3. k'.sleepq = insertd(k.sleepq, me, d)
  BY <1>1, <1>2, DelayedRight, RestFacts DEF KInv, me, Delayed, sleepms
<1>4. due' = [due EXCEPT ![me] = d] /\ load' = load
  BY DEF sleepms
<1> QED
  BY <1>1, <1>2, <1>3, <1>4, SleepsStep

\* A tick takes one from what is due and from what is left.
LEMMA TickDelays ==
  ASSUME DInv, KInv', load' = load, NEW u \in Seq(Entries),
         Nonneg(u), k'.sleepq = u,
         \A x \in Times(u) : /\ x[2] \in Int /\ x[2] > 0
                             /\ \/ <<x[1], x[2] + 1>> \in Times(k.sleepq)
                                \/ 0 \in load.delays /\ x \in Times(k.sleepq),
         due' = [p \in Pid |-> IF p \notin Pids(u) \/ due[p] < 1 THEN 0 ELSE due[p] - 1]
  PROVE  DInv'
<1>1. ASSUME NEW x \in Times(u)
      PROVE  Exact(x[1], x[2])'
  <2>1. x[1] \in Pids(u) /\ x[1] \in Pid /\ due[x[1]] \in Nat
    BY TimesShape, SleepFacts DEF DInv
  <2>2. due'[x[1]] = IF due[x[1]] < 1 THEN 0 ELSE due[x[1]] - 1
    BY <2>1
  <2>3. x[2] \in Int /\ x[2] > 0
    OBVIOUS
  <2>4. CASE <<x[1], x[2] + 1>> \in Times(k.sleepq)
    <3>1. Exact(<<x[1], x[2] + 1>>[1], <<x[1], x[2] + 1>>[2])
      BY <2>4 DEF DInv
    <3>2. IF 0 \in load.delays THEN x[2] + 1 >= due[x[1]] ELSE x[2] + 1 = due[x[1]]
      BY <3>1 DEF Exact
    <3>3. IF 0 \in load.delays THEN x[2] >= due'[x[1]] ELSE x[2] = due'[x[1]]
      BY <2>1, <2>2, <2>3, <3>2
    <3> QED
      BY <2>3, <3>3 DEF Exact
  <2>5. CASE 0 \in load.delays /\ x \in Times(k.sleepq)
    <3>1. Exact(x[1], x[2])
      BY <2>5 DEF DInv
    <3> QED
      BY <2>1, <2>2, <2>3, <2>5, <3>1 DEF Exact
  <2> QED
    BY <2>4, <2>5
<1>2. Nonneg(k.sleepq)' /\ \A x \in Times(k'.sleepq) : Exact(x[1], x[2])'
  BY <1>1 DEF Nonneg
<1> QED
  BY <1>2 DEF DInv, Times

\* clkhandler.c:28-36 and wakeup.c:13-18: a tick passes for all that sleep.
LEMMA ClockDelays ==
  ASSUME DInv, clkhandler
  PROVE  DInv'
<1> DEFINE list == k.sleepq
           ticked == IF k.sleepq = << >> THEN k ELSE [k EXCEPT !.sleepq[1].key = @ - 1]
           woken == wakeup(ticked)
           s == IF woken = ticked THEN woken ELSE resched(woken)
           u == ticked.sleepq
           rest == SubSeq(u, Expired(u) + 1, Len(u))
<1>1. IF s.currpid = me THEN Goes(Preempt(s), InUser, 1) ELSE Goes(s, At("clock", me), 1)
  BY DEF clkhandler
<1>2. Right(k, Ranked) /\ Ranked \in BOOLEAN /\ KInv /\ KInv' /\ list \in Seq(Entries)
      /\ Nonneg(list)
  BY RestFacts, ClockStep, SleepFacts DEF KInv, DInv
<1>3. Right(ticked, Ranked)
  BY <1>2, TickedRight
<1>4. list # << >> => /\ u \in Seq(Entries) /\ Len(u) = Len(list)
                      /\ u[1] = Entry(list[1].pid, list[1].key - 1)
                      /\ \A i \in 2 .. Len(list) : u[i] = list[i]
  BY <1>2, TickedRight
<1>5. list = << >> => u = << >>
  OBVIOUS
<1> HIDE DEF ticked
<1>6. Half(woken, {}, Ranked) /\ woken.sleepq = rest
  BY <1>2, <1>3, WokenHalf
<1> HIDE DEF woken
<1>7. Right(s, Ranked) /\ s.sleepq = rest
  <2>1. CASE woken = ticked
    BY <1>3, <1>6, <2>1
  <2>2. CASE woken # ticked
    BY <1>2, <1>6, <2>2, reschedRight DEF Kept
  <2> QED
    BY <2>1, <2>2
<1> HIDE DEF s
<1>8. Preempt(s).sleepq = rest
  BY <1>2, <1>7, PreemptRight
<1> HIDE DEF rest, u
<1>9. \E t \in {s, Preempt(s)} : \E at : Goes(t, at, 1)
  BY <1>1
<1>10. PICK t \in {s, Preempt(s)} : \E at : Goes(t, at, 1)
  BY <1>9
<1>11. /\ k'.sleepq = rest /\ load' = load
       /\ due' = [p \in Pid |-> IF p \notin Sleepers(k') \/ due[p] < 1 THEN 0 ELSE due[p] - 1]
  BY <1>7, <1>8, <1>10 DEF Goes
<1>12. rest \in Seq(Entries)
  BY <1>2, <1>11, SleepFacts DEF KInv, Right, Half, Tables
<1>13. Sleepers(k') = Pids(rest)
  BY <1>11, <1>12, NamesShape DEF Sleepers
<1>14. CASE list = << >>
  <2>1. rest = << >>
    <3>1. u = << >>
      BY <1>5, <1>14
    <3>2. u \in Seq(Entries) /\ Len(u) = 0
      BY <3>1
    <3>3. Expired(u) \in 0 .. Len(u)
      BY <3>2, ExpiredShape
    <3>4. Expired(u) = 0
      BY <3>2, <3>3
    <3> QED
      BY <3>1, <3>2, <3>4 DEF rest
  <2>2. Nonneg(rest) /\ Times(rest) = {}
    BY <2>1 DEF Nonneg, Times
  <2> QED
    BY <1>2, <1>11, <1>12, <1>13, <2>2, TickDelays
<1>15. CASE list # << >>
  <2>1. /\ Nonneg(rest)
        /\ \A x \in Times(rest) : /\ x[2] \in Int /\ x[2] > 0
                                  /\ \/ <<x[1], x[2] + 1>> \in Times(list)
                                     \/ x \in Times(list) /\ list[1].key = 0
    BY <1>2, <1>4, <1>15, TickedTimes DEF rest
  <2>2. list[1].key = 0 => 0 \in load.delays
    <3>1. 1 \in 1 .. Len(list) /\ 1 - 1 = 0
      BY <1>2, <1>15
    <3>2. <<list[1].pid, Delay(list, 1)>> \in Times(list)
      BY <3>1 DEF Times
    <3>3. Delay(list, 1) = list[1].key
      <4>1. Delay(list, 1) = Delay(list, 0) + list[1].key /\ Delay(list, 0) = 0
        BY <1>2, <3>1, DelaysShape
      <4>2. list[1].key \in Int
        BY <1>2, <3>1, EntriesShape
      <4> QED
        BY <4>1, <4>2
    <3>4. Exact(list[1].pid, list[1].key)
      BY <3>2, <3>3 DEF DInv
    <3> QED
      BY <3>4 DEF Exact
  <2>3. \A x \in Times(rest) : /\ x[2] \in Int /\ x[2] > 0
                               /\ \/ <<x[1], x[2] + 1>> \in Times(k.sleepq)
                                  \/ 0 \in load.delays /\ x \in Times(k.sleepq)
    BY <2>1, <2>2
  <2> QED
    BY <1>2, <1>11, <1>12, <1>13, <2>1, <2>3, TickDelays
<1> QED
  BY <1>14, <1>15

\* Nobody sleeps at first.
LEMMA InitDelays ==
  ASSUME Init
  PROVE  DInv
<1>1. k.sleepq = << >>
  BY DEF Init
<1>2. Nonneg(k.sleepq) /\ Times(k.sleepq) = {}
  BY <1>1 DEF Nonneg, Times
<1> QED
  BY <1>2, InitInv DEF DInv

\* Every step keeps the sums of the delta list.
LEMMA NextDelays ==
  ASSUME DInv, [Next]_vars
  PROVE  DInv'
<1>1. KInv
  BY DEF DInv
<1>2. ASSUME NEW d \in load.delays, recvtime(d) PROVE DInv'
  BY <1>2, RecvtimeDelays
<1>3. ASSUME NEW d \in load.delays, sleepms(d) PROVE DInv'
  BY <1>3, SleepDelays
<1>4. CASE clkhandler
  BY <1>4, ClockDelays
<1>5. CASE create \/ yield \/ receive \/ TakeMessage \/ ClockEnds \/ KillEnds
  BY <1>1, <1>5, CreateStep, YieldStep, ReceiveStep, TakeStep, ClockEndsStep, KillEndsStep,
     QuietStep
<1>6. ASSUME NEW p \in Pid, resume(p) \/ suspend(p) \/ kill(p) \/ Send(p) PROVE DInv'
  BY <1>1, <1>6, ResumeStep, SuspendStep, KillStep, SendStep, QuietStep
<1>7. ASSUME NEW p \in Pid, NEW prio \in load.prios, chprio(p, prio) PROVE DInv'
  BY <1>1, <1>7, ChprioStep, QuietStep
<1>8. ASSUME NEW s \in Sem, wait(s) \/ semdelete(s) PROVE DInv'
  BY <1>1, <1>8, WaitStep, SemdeleteStep, QuietStep
<1>9. ASSUME NEW s \in Sem, NEW n \in 1 .. NPROC - 1, signaln(s, n) PROVE DInv'
  BY <1>1, <1>9, SignalStep, QuietStep
<1>10. ASSUME NEW s \in Sem, NEW n \in 0 .. MaxCount, semreset(s, n) PROVE DInv'
  BY <1>1, <1>10, SemresetStep, QuietStep
<1>11. ASSUME NEW n \in 0 .. MaxCount, semcreate(n) PROVE DInv'
  BY <1>1, <1>11, SemcreateStep, QuietStep
<1>12. CASE UNCHANGED vars
  <2>1. KInv'
    BY <1>1, <1>12, NextInv
  <2>2. Quiet
    BY <1>12 DEF Quiet, Shorter, vars
  <2> QED
    BY <2>1, <2>2, QuietStep
<1> QED
  BY <1>2, <1>3, <1>4, <1>5, <1>6, <1>7, <1>8, <1>9, <1>10, <1>11, <1>12 DEF Next

\* The sums of the delta list are what each sleeper has still to sleep
\* (insertd.c:22-39, unsleep.c:37-44, clkhandler.c:28-36), for any delays.
THEOREM KernelDelays == Spec => []DelayExact
<1>1. Init => DInv
  BY InitDelays
<1>2. DInv /\ [Next]_vars => DInv'
  BY NextDelays
<1>3. DInv => DelayExact
  <2> SUFFICES ASSUME DInv, NEW i \in 1 .. Len(k.sleepq)
               PROVE  Exact(k.sleepq[i].pid, Delay(k.sleepq, i))
    BY DEF DelayExact, Exact
  <2>1. <<k.sleepq[i].pid, Delay(k.sleepq, i)>> \in Times(k.sleepq)
    BY DEF Times
  <2> QED
    BY <2>1 DEF DInv
<1> QED
  BY <1>1, <1>2, <1>3, PTL DEF Spec
=============================================================================
