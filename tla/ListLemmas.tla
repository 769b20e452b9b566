----------------------------- MODULE ListLemmas -----------------------------
(***************************************************************************)
(* Lemmas that the proofs about the modules share: induction over the       *)
(* natural numbers, with sets in the place of predicates, and what          *)
(* insertion, removal and cutting do to a list.                             *)
(***************************************************************************)
EXTENDS Integers, SequencesExt, SequenceTheorems, FiniteSetTheorems, TLAPS

-----------------------------------------------------------------------------
(* Natural numbers.                                                         *)

\* A set of natural numbers that is not empty has a least element, because the
\* intervals below its elements are finite sets, which inclusion orders well.
LEMMA LeastNat ==
  ASSUME NEW T, T \subseteq Nat, T # {}
  PROVE  \E x \in T : \A y \in T : x <= y
<1> DEFINE U == {0 .. n - 1 : n \in T}
<1>1. IsWellFoundedOn(StrictSubsetOrdering(Nat), FiniteSubsetsOf(Nat))
  BY FS_StrictSubsetOrderingWellFounded
<1>2. U \subseteq FiniteSubsetsOf(Nat)
  <2>1. \A n \in Nat : IsFiniteSet(0 .. n - 1) /\ 0 .. n - 1 \in SUBSET Nat
    BY FS_Interval
  <2> QED
    BY <2>1 DEF FiniteSubsetsOf
<1>3. U # {}
  OBVIOUS
<1> HIDE DEF U
<1>4. \E x \in U : \A y \in U : ~ (<<y, x>> \in StrictSubsetOrdering(Nat))
  BY <1>1, <1>2, <1>3, WFMin
<1> USE DEF U
<1>5. PICK m \in T :
        \A n \in T : ~ (<<0 .. n - 1, 0 .. m - 1>> \in StrictSubsetOrdering(Nat))
  BY <1>4
<1>6. ASSUME NEW n \in T, n < m
      PROVE  FALSE
  <2>1. 0 .. n - 1 \subseteq 0 .. m - 1 /\ n \in 0 .. m - 1 /\ n \notin 0 .. n - 1
    BY <1>6
  <2>2. 0 .. n - 1 \in SUBSET Nat /\ 0 .. m - 1 \in SUBSET Nat
    OBVIOUS
  <2>3. <<0 .. n - 1, 0 .. m - 1>> \in StrictSubsetOrdering(Nat)
    BY <2>1, <2>2 DEF StrictSubsetOrdering
  <2> QED
    BY <2>3, <1>5
<1> QED
  BY <1>6

\* A set that has 0, and n + 1 with every n, has all natural numbers.
LEMMA Induct ==
  ASSUME NEW S, 0 \in S, \A n \in Nat : n \in S => n + 1 \in S
  PROVE  Nat \subseteq S
<1>1. SUFFICES ASSUME Nat \ S # {}
               PROVE  FALSE
  OBVIOUS
<1>2. PICK m \in Nat \ S : \A y \in Nat \ S : m <= y
  BY <1>1, LeastNat
<1>3. m # 0 /\ m - 1 \in Nat /\ m - 1 \in S
  BY <1>2
<1> QED
  BY <1>2, <1>3

\* The same, up to a bound.
LEMMA InductTo ==
  ASSUME NEW N \in Nat, NEW S, 0 \in S, \A n \in 0 .. N - 1 : n \in S => n + 1 \in S
  PROVE  0 .. N \subseteq S
<1> DEFINE U == {n \in Nat : n <= N => n \in S}
<1>1. 0 \in U /\ \A n \in Nat : n \in U => n + 1 \in U
  OBVIOUS
<1> HIDE DEF U
<1>2. Nat \subseteq U
  BY <1>1, Induct
<1> QED
  BY <1>2 DEF U

-----------------------------------------------------------------------------
(* Lists.                                                                   *)

\* t is s with e before place i, place by place.
Inserted(t, S, s, i, e) ==
  /\ t \in Seq(S) /\ Len(t) = Len(s) + 1
  /\ \A j \in 1 .. Len(t) :
       t[j] = IF j < i THEN s[j] ELSE IF j = i THEN e ELSE s[j - 1]

\* What InsertAt returns.
LEMMA InsertShape ==
  ASSUME NEW S, NEW s \in Seq(S), NEW i \in 1 .. Len(s) + 1, NEW e \in S
  PROVE  Inserted(InsertAt(s, i, e), S, s, i, e)
<1> DEFINE a == SubSeq(s, 1, i - 1)
           b == SubSeq(s, i, Len(s))
           c == a \o <<e>>
           t == c \o b
<1>1. /\ a \in Seq(S) /\ Len(a) = i - 1
      /\ \A j \in 1 .. i - 1 : a[j] = s[j]
  OBVIOUS
<1>2. /\ b \in Seq(S) /\ Len(b) = Len(s) - i + 1
      /\ \A j \in 1 .. Len(s) - i + 1 : b[j] = s[j + i - 1]
  OBVIOUS
<1> HIDE DEF a, b
<1>3. /\ c \in Seq(S) /\ Len(c) = i
      /\ \A j \in 1 .. i : c[j] = IF j < i THEN s[j] ELSE e
  BY <1>1
<1> HIDE DEF c
<1>4. /\ t \in Seq(S) /\ Len(t) = Len(s) + 1
      /\ \A j \in 1 .. Len(t) :
           t[j] = IF j < i THEN s[j] ELSE IF j = i THEN e ELSE s[j - 1]
  <2>1. t \in Seq(S) /\ Len(t) = Len(s) + 1
    <3>1. t \in Seq(S) /\ Len(t) = Len(c) + Len(b)
      BY <1>2, <1>3, ConcatProperties
    <3> HIDE DEF t
    <3> QED
      BY <1>2, <1>3, <3>1
  <2>2. ASSUME NEW j \in 1 .. Len(t), j <= i
        PROVE  t[j] = IF j < i THEN s[j] ELSE e
    BY <1>2, <1>3, <2>1, <2>2
  <2>3. ASSUME NEW j \in 1 .. Len(t), j > i
        PROVE  t[j] = s[j - 1]
    <3>1. t[j] = b[j - i]
      BY <1>2, <1>3, <2>1, <2>3
    <3>2. j - i \in 1 .. Len(s) - i + 1
      BY <2>1, <2>3
    <3> QED
      BY <1>2, <3>1, <3>2, SMTT(30)
  <2> QED
    BY <2>1, <2>2, <2>3
<1>5. InsertAt(s, i, e) = t
  BY DEF InsertAt, a, b, c
<1> QED
  BY <1>4, <1>5 DEF Inserted

\* The removal of the element at place i, place by place.
LEMMA RemoveShape ==
  ASSUME NEW S, NEW s \in Seq(S), NEW i \in 1 .. Len(s)
  PROVE  LET t == RemoveAt(s, i) IN
         /\ t \in Seq(S) /\ Len(t) = Len(s) - 1
         /\ \A j \in 1 .. Len(t) : t[j] = IF j < i THEN s[j] ELSE s[j + 1]
<1> DEFINE a == SubSeq(s, 1, i - 1)
           b == SubSeq(s, i + 1, Len(s))
           t == a \o b
<1>1. /\ a \in Seq(S) /\ Len(a) = i - 1
      /\ \A j \in 1 .. i - 1 : a[j] = s[j]
  OBVIOUS
<1>2. /\ b \in Seq(S) /\ Len(b) = Len(s) - i
      /\ \A j \in 1 .. Len(s) - i : b[j] = s[j + i]
  OBVIOUS
<1>3. RemoveAt(s, i) = t
  BY DEF RemoveAt
<1> HIDE DEF a, b
<1>4. t \in Seq(S) /\ Len(t) = Len(s) - 1
  <2>1. t \in Seq(S) /\ Len(t) = Len(a) + Len(b)
    BY <1>1, <1>2, ConcatProperties
  <2> HIDE DEF t
  <2> QED
    BY <1>1, <1>2, <2>1
<1>5. ASSUME NEW j \in 1 .. Len(t), j < i
      PROVE  t[j] = s[j]
  BY <1>1, <1>2, <1>4, <1>5
<1>6. ASSUME NEW j \in 1 .. Len(t), ~ (j < i)
      PROVE  t[j] = s[j + 1]
  <2>1. t[j] = b[j - i + 1]
    BY <1>1, <1>2, <1>4, <1>6
  <2>2. j - i + 1 \in 1 .. Len(s) - i
    BY <1>4, <1>6
  <2> QED
    BY <1>2, <2>1, <2>2
<1> QED
  BY <1>3, <1>4, <1>5, <1>6

\* The list without its first n elements.
LEMMA DropShape ==
  ASSUME NEW S, NEW s \in Seq(S), NEW n \in 0 .. Len(s)
  PROVE  LET t == SubSeq(s, n + 1, Len(s)) IN
         /\ t \in Seq(S) /\ Len(t) = Len(s) - n
         /\ \A j \in 1 .. Len(t) : t[j] = s[j + n]
OBVIOUS

\* The places of a list that come before all others with a property are the
\* first ones, as many as there are.
LEMMA FirstPlaces ==
  ASSUME NEW N \in Nat, NEW P \in SUBSET (1 .. N),
         \A i \in P : \A j \in 1 .. i : j \in P
  PROVE  Cardinality(P) \in 0 .. N /\ P = 1 .. Cardinality(P)
<1> DEFINE T == {i \in 1 .. N + 1 : i \notin P}
<1>1. PICK m \in T : \A i \in T : m <= i
  <2>1. N + 1 \in T /\ T \subseteq Nat
    OBVIOUS
  <2> HIDE DEF T
  <2> QED
    BY <2>1, LeastNat
<1>2. P = 1 .. m - 1
  <2>1. m \in 1 .. N + 1 /\ m \notin P
    BY <1>1
  <2>2. ASSUME NEW i \in 1 .. m - 1
        PROVE  i \in P
    BY <1>1, <2>1
  <2>3. ASSUME NEW i \in P
        PROVE  i \in 1 .. m - 1
    BY <2>1
  <2> QED
    BY <2>2, <2>3
<1>3. Cardinality(1 .. m - 1) = m - 1
  BY <1>1, FS_Interval
<1> QED
  BY <1>1, <1>2, <1>3

-----------------------------------------------------------------------------
(* Lists without repetitions.                                               *)

Members(s) == {s[i] : i \in 1 .. Len(s)}
NoRepeats(s) == \A i, j \in 1 .. Len(s) : s[i] = s[j] => i = j

\* t is s with e inserted at i.
LEMMA InsertMembers ==
  ASSUME NEW S, NEW s \in Seq(S), NEW i \in 1 .. Len(s) + 1, NEW e \in S,
         NEW t \in Seq(S), Len(t) = Len(s) + 1,
         \A j \in 1 .. Len(t) :
           t[j] = IF j < i THEN s[j] ELSE IF j = i THEN e ELSE s[j - 1]
  PROVE  /\ Members(t) = Members(s) \cup {e}
         /\ NoRepeats(s) /\ e \notin Members(s) => NoRepeats(t)
<1>1. Members(t) = Members(s) \cup {e}
  <2>1. ASSUME NEW j \in 1 .. Len(t)
        PROVE  t[j] \in Members(s) \cup {e}
    <3>1. CASE j < i
      BY <3>1 DEF Members
    <3>2. CASE j = i
      BY <3>2
    <3>3. CASE j > i
      <4>1. j - 1 \in 1 .. Len(s) /\ t[j] = s[j - 1]
        BY <3>3
      <4> QED
        BY <4>1 DEF Members
    <3> QED
      BY <3>1, <3>2, <3>3
  <2>2. e \in Members(t)
    <3>1. i \in 1 .. Len(t) /\ t[i] = e
      OBVIOUS
    <3> QED
      BY <3>1 DEF Members
  <2>3. ASSUME NEW j \in 1 .. Len(s)
        PROVE  s[j] \in Members(t)
    <3>1. CASE j < i
      <4>1. j \in 1 .. Len(t) /\ t[j] = s[j]
        BY <3>1
      <4> QED
        BY <4>1 DEF Members
    <3>2. CASE j >= i
      <4>1. j + 1 \in 1 .. Len(t) /\ t[j + 1] = s[j]
        BY <3>2
      <4> QED
        BY <4>1 DEF Members
    <3> QED
      BY <3>1, <3>2
  <2> QED
    BY <2>1, <2>2, <2>3 DEF Members
<1>2. ASSUME NoRepeats(s), e \notin Members(s)
      PROVE  NoRepeats(t)
  <2> SUFFICES ASSUME NEW j \in 1 .. Len(t), NEW l \in 1 .. Len(t), t[j] = t[l], j < l
               PROVE  FALSE
    BY DEF NoRepeats
  <2>1. \A m \in 1 .. Len(s) : s[m] # e
    BY <1>2 DEF Members
  <2>2. CASE l < i
    BY <1>2, <2>2 DEF NoRepeats
  <2>3. CASE l = i
    BY <2>1, <2>3
  <2>4. CASE l > i
    <3>1. l - 1 \in 1 .. Len(s) /\ t[l] = s[l - 1]
      BY <2>4
    <3>2. CASE j < i
      BY <1>2, <2>4, <3>1, <3>2 DEF NoRepeats
    <3>3. CASE j = i
      BY <2>1, <3>1, <3>3
    <3>4. CASE j > i
      <4>1. j - 1 \in 1 .. Len(s) /\ t[j] = s[j - 1]
        BY <3>4
      <4>2. j - 1 # l - 1 /\ s[j - 1] = s[l - 1]
        BY <3>1, <4>1
      <4>3. \A a \in 1 .. Len(s), b \in 1 .. Len(s) : s[a] = s[b] => a = b
        BY <1>2 DEF NoRepeats
      <4> QED
        BY <3>1, <4>1, <4>2, <4>3
    <3> QED
      BY <3>2, <3>3, <3>4
  <2> QED
    BY <2>2, <2>3, <2>4
<1> QED
  BY <1>1, <1>2

\* t is s without its i-th element.
LEMMA RemoveMembers ==
  ASSUME NEW S, NEW s \in Seq(S), NoRepeats(s), NEW i \in 1 .. Len(s),
         NEW t \in Seq(S), Len(t) = Len(s) - 1,
         \A j \in 1 .. Len(t) : t[j] = IF j < i THEN s[j] ELSE s[j + 1]
  PROVE  /\ Members(t) = Members(s) \ {s[i]}
         /\ NoRepeats(t)
<1>1. ASSUME NEW j \in 1 .. Len(t)
      PROVE  t[j] \in Members(s) \ {s[i]}
  <2>1. CASE j < i
    BY <2>1 DEF Members, NoRepeats
  <2>2. CASE j >= i
    <3>1. j + 1 \in 1 .. Len(s) /\ j + 1 # i /\ t[j] = s[j + 1]
      BY <2>2
    <3> QED
      BY <3>1 DEF Members, NoRepeats
  <2> QED
    BY <2>1, <2>2
<1>2. ASSUME NEW j \in 1 .. Len(s), j # i
      PROVE  s[j] \in Members(t)
  <2>1. CASE j < i
    <3>1. j \in 1 .. Len(t) /\ t[j] = s[j]
      BY <2>1
    <3> QED
      BY <3>1 DEF Members
  <2>2. CASE j > i
    <3>1. j - 1 \in 1 .. Len(t) /\ t[j - 1] = s[j]
      BY <2>2
    <3> QED
      BY <3>1 DEF Members
  <2> QED
    BY <1>2, <2>1, <2>2
<1>3. NoRepeats(t)
  <2> SUFFICES ASSUME NEW j \in 1 .. Len(t), NEW l \in 1 .. Len(t), t[j] = t[l], j < l
               PROVE  FALSE
    BY DEF NoRepeats
  <2>1. CASE l < i
    BY <2>1, SMTT(30) DEF NoRepeats
  <2>2. CASE l >= i
    <3>1. l + 1 \in 1 .. Len(s) /\ t[l] = s[l + 1]
      BY <2>2
    <3>2. CASE j < i
      BY <3>1, <3>2 DEF NoRepeats
    <3>3. CASE j >= i
      <4>1. j + 1 \in 1 .. Len(s) /\ t[j] = s[j + 1]
        BY <3>3
      <4> QED
        BY <3>1, <4>1 DEF NoRepeats
    <3> QED
      BY <3>2, <3>3
  <2> QED
    BY <2>1, <2>2
<1> QED
  BY <1>1, <1>2, <1>3 DEF Members

\* t is s without its first n elements.
LEMMA DropMembers ==
  ASSUME NEW S, NEW s \in Seq(S), NoRepeats(s), NEW n \in 0 .. Len(s),
         NEW t \in Seq(S), Len(t) = Len(s) - n,
         \A j \in 1 .. Len(t) : t[j] = s[j + n]
  PROVE  /\ Members(t) = Members(s) \ {s[j] : j \in 1 .. n}
         /\ NoRepeats(t)
<1>1. ASSUME NEW j \in 1 .. Len(t)
      PROVE  t[j] \in Members(s) \ {s[l] : l \in 1 .. n}
  <2>1. j + n \in 1 .. Len(s) /\ \A l \in 1 .. n : l \in 1 .. Len(s) /\ l # j + n
    OBVIOUS
  <2> QED
    BY <2>1 DEF Members, NoRepeats
<1>2. ASSUME NEW j \in 1 .. Len(s), j > n
      PROVE  s[j] \in Members(t)
  <2>1. j - n \in 1 .. Len(t) /\ t[j - n] = s[j]
    BY <1>2
  <2> QED
    BY <2>1 DEF Members
<1>3. Members(t) = Members(s) \ {s[j] : j \in 1 .. n}
  <2>1. \A x \in Members(t) : x \in Members(s) \ {s[j] : j \in 1 .. n}
    BY <1>1 DEF Members
  <2>2. ASSUME NEW x \in Members(s), x \notin {s[j] : j \in 1 .. n}
        PROVE  x \in Members(t)
    <3>1. PICK j \in 1 .. Len(s) : x = s[j]
      BY DEF Members
    <3>2. j > n
      BY <2>2, <3>1
    <3> QED
      BY <1>2, <3>1, <3>2
  <2> QED
    BY <2>1, <2>2
<1>4. NoRepeats(t)
  <2> SUFFICES ASSUME NEW j \in 1 .. Len(t), NEW l \in 1 .. Len(t), t[j] = t[l]
               PROVE  j = l
    BY DEF NoRepeats
  <2>1. j + n \in 1 .. Len(s) /\ l + n \in 1 .. Len(s) /\ s[j + n] = s[l + n]
    OBVIOUS
  <2> QED
    BY <2>1 DEF NoRepeats
<1> QED
  BY <1>3, <1>4

\* The members after an element was added at the end.
LEMMA AppendMembers ==
  ASSUME NEW S, NEW s \in Seq(S), NEW e \in S
  PROVE  /\ Append(s, e) \in Seq(S)
         /\ Members(Append(s, e)) = Members(s) \cup {e}
         /\ NoRepeats(s) /\ e \notin Members(s) => NoRepeats(Append(s, e))
<1> DEFINE t == Append(s, e)
<1>1. t \in Seq(S) /\ Len(t) = Len(s) + 1
  OBVIOUS
<1>2. \A j \in 1 .. Len(t) :
        t[j] = IF j < Len(s) + 1 THEN s[j] ELSE IF j = Len(s) + 1 THEN e ELSE s[j - 1]
  OBVIOUS
<1> HIDE DEF t
<1>3. Len(s) + 1 \in 1 .. Len(s) + 1
  OBVIOUS
<1>4. Members(t) = Members(s) \cup {e} /\ (NoRepeats(s) /\ e \notin Members(s) => NoRepeats(t))
  BY <1>1, <1>2, <1>3, InsertMembers, SMTT(60)
<1> QED
  BY <1>1, <1>4 DEF t

\* s is cut into a and b, behind its first r elements.
Cut(s, r, a, b) ==
  /\ r \in 0 .. Len(s)
  /\ Len(a) = r /\ \A j \in 1 .. r : a[j] = s[j]
  /\ Len(b) = Len(s) - r /\ \A j \in 1 .. Len(b) : b[j] = s[j + r]

\* What the two parts of a sequence without repetitions share: nothing.
LEMMA CutMembers ==
  ASSUME NEW S, NEW s \in Seq(S), NEW a \in Seq(S), NEW b \in Seq(S), NEW r,
         NoRepeats(s), Cut(s, r, a, b)
  PROVE  /\ Members(a) \subseteq Members(s) /\ NoRepeats(a)
         /\ Members(b) = Members(s) \ Members(a) /\ NoRepeats(b)
<1> USE DEF Cut
<1>1. ASSUME NEW j \in 1 .. r
      PROVE  j \in 1 .. Len(s) /\ a[j] = s[j]
  OBVIOUS
<1>2. \A x : x \in Members(a) <=> \E j \in 1 .. r : x = s[j]
  BY <1>1 DEF Members
<1>3. Members(a) = {s[j] : j \in 1 .. r}
  BY <1>2
<1>4. Members(b) = Members(s) \ {s[j] : j \in 1 .. r} /\ NoRepeats(b)
  BY DropMembers, SMTT(30)
<1>5. NoRepeats(a)
  BY <1>1 DEF NoRepeats
<1>6. Members(a) \subseteq Members(s)
  BY <1>1, <1>2 DEF Members
<1> QED
  BY <1>3, <1>4, <1>5, <1>6

\* A list without repetitions is as long as it has members.
LEMMA ListCount ==
  ASSUME NEW S, NEW s \in Seq(S), NoRepeats(s)
  PROVE  IsFiniteSet(Members(s)) /\ Cardinality(Members(s)) = Len(s)
<1>1. s \in Bijection(1 .. Len(s), Members(s))
  <2>1. s \in [1 .. Len(s) -> Members(s)]
    BY DEF Members
  <2>2. s \in Injection(1 .. Len(s), Members(s))
    BY <2>1 DEF NoRepeats, Injection, IsInjective
  <2>3. s \in Surjection(1 .. Len(s), Members(s))
    BY <2>1 DEF Members, Surjection
  <2> QED
    BY <2>2, <2>3 DEF Bijection
<1>2. Len(s) \in Nat /\ ExistsBijection(1 .. Len(s), Members(s))
  BY <1>1 DEF ExistsBijection
<1> QED
  BY <1>2, FS_NatBijection, FS_CountingElements

\* The first member leaves a list.
LEMMA TailMembers ==
  ASSUME NEW S, NEW s \in Seq(S), s # << >>, NoRepeats(s)
  PROVE  /\ Tail(s) \in Seq(S) /\ Len(Tail(s)) = Len(s) - 1 /\ NoRepeats(Tail(s))
         /\ Members(Tail(s)) = Members(s) \ {Head(s)}
         /\ Head(s) \in Members(s)
<1>1. PICK t : t = Tail(s)
  OBVIOUS
<1>2. /\ t \in Seq(S) /\ Len(t) = Len(s) - 1 /\ 1 \in 0 .. Len(s) /\ 1 \in 1 .. Len(s)
      /\ \A j \in 1 .. Len(t) : t[j] = s[j + 1]
  BY <1>1
<1>3. Members(t) = Members(s) \ {s[j] : j \in 1 .. 1} /\ NoRepeats(t)
  BY <1>2, DropMembers
<1>4. \A j \in 1 .. 1 : j = 1
  OBVIOUS
<1>5. {s[j] : j \in 1 .. 1} = {s[1]} /\ Head(s) = s[1]
  BY <1>4
<1> QED
  BY <1>1, <1>2, <1>3, <1>5 DEF Members

\* A member comes first.
LEMMA ConsMembers ==
  ASSUME NEW S, NEW s \in Seq(S), NEW e \in S, NoRepeats(s), e \notin Members(s)
  PROVE  /\ <<e>> \o s \in Seq(S) /\ Len(<<e>> \o s) = Len(s) + 1 /\ NoRepeats(<<e>> \o s)
         /\ Members(<<e>> \o s) = Members(s) \cup {e}
<1>1. PICK t : t = <<e>> \o s
  OBVIOUS
<1>2. /\ t \in Seq(S) /\ Len(t) = Len(s) + 1 /\ Len(s) \in Nat
      /\ \A j \in 1 .. Len(t) : t[j] = IF j = 1 THEN e ELSE s[j - 1]
  BY <1>1
<1>3. NoRepeats(t)
  <2> SUFFICES ASSUME NEW i \in 1 .. Len(t), NEW j \in 1 .. Len(t), t[i] = t[j] PROVE i = j
    BY DEF NoRepeats
  <2>1. /\ i # 1 => i - 1 \in 1 .. Len(s) /\ t[i] = s[i - 1]
        /\ j # 1 => j - 1 \in 1 .. Len(s) /\ t[j] = s[j - 1]
        /\ i = 1 => t[i] = e
        /\ j = 1 => t[j] = e
    BY <1>2
  <2>2. /\ i # 1 => t[i] \in Members(s)
        /\ j # 1 => t[j] \in Members(s)
    BY <2>1 DEF Members
  <2>3. CASE i = 1 \/ j = 1
    BY <2>1, <2>2, <2>3
  <2>4. CASE i # 1 /\ j # 1
    <3>1. i - 1 = j - 1
      BY <2>1, <2>4 DEF NoRepeats
    <3> QED
      BY <3>1
  <2> QED
    BY <2>3, <2>4
<1>4. Members(t) = Members(s) \cup {e}
  <2>1. ASSUME NEW i \in 1 .. Len(t) PROVE t[i] \in Members(s) \cup {e}
    BY <1>2 DEF Members
  <2>2. ASSUME NEW i \in 1 .. Len(s) PROVE s[i] \in Members(t)
    <3>1. i + 1 \in 1 .. Len(t) /\ t[i + 1] = s[i]
      BY <1>2
    <3> QED
      BY <3>1 DEF Members
  <2>3. 1 \in 1 .. Len(t) /\ t[1] = e
    BY <1>2
  <2> QED
    BY <2>1, <2>2, <2>3 DEF Members
<1> QED
  BY <1>1, <1>2, <1>3, <1>4

\* One list follows another.
LEMMA ConcatMembers ==
  ASSUME NEW S, NEW s \in Seq(S), NEW t \in Seq(S), NoRepeats(s), NoRepeats(t),
         Members(s) \cap Members(t) = {}
  PROVE  s \o t \in Seq(S) /\ NoRepeats(s \o t) /\ Members(s \o t) = Members(s) \cup Members(t)
<1>1. PICK l \in Nat, m \in Nat : l = Len(s) /\ m = Len(t)
  OBVIOUS
<1>2. PICK u : u = s \o t
  OBVIOUS
<1>3. /\ u \in Seq(S) /\ Len(u) = l + m
      /\ \A j \in 1 .. l + m : u[j] = IF j <= l THEN s[j] ELSE t[j - l]
  BY <1>1, <1>2
<1>4. ASSUME NEW j \in 1 .. l + m
      PROVE  IF j <= l THEN j \in 1 .. l /\ u[j] = s[j] /\ u[j] \in Members(s)
             ELSE j - l \in 1 .. m /\ u[j] = t[j - l] /\ u[j] \in Members(t)
  <2>1. CASE j <= l
    BY <1>1, <1>3, <2>1 DEF Members
  <2>2. CASE ~ (j <= l)
    <3>1. j - l \in 1 .. m
      BY <2>2
    <3> QED
      BY <1>1, <1>3, <2>2, <3>1 DEF Members
  <2> QED
    BY <2>1, <2>2
<1>5. NoRepeats(u)
  <2> SUFFICES ASSUME NEW i \in 1 .. l + m, NEW j \in 1 .. l + m, u[i] = u[j] PROVE i = j
    BY <1>3 DEF NoRepeats
  <2>1. CASE i <= l /\ j <= l
    BY <1>1, <1>4, <2>1 DEF NoRepeats
  <2>2. CASE ~ (i <= l) /\ ~ (j <= l)
    <3>1. i - l = j - l
      BY <1>1, <1>4, <2>2 DEF NoRepeats
    <3> QED
      BY <3>1
  <2> QED
    BY <1>4, <2>1, <2>2
<1>6. Members(u) = Members(s) \cup Members(t)
  <2>1. \A x \in Members(u) : x \in Members(s) \cup Members(t)
    BY <1>3, <1>4 DEF Members
  <2>2. ASSUME NEW j \in 1 .. l PROVE s[j] \in Members(u)
    <3>1. j \in 1 .. l + m /\ j <= l
      OBVIOUS
    <3>2. u[j] = s[j]
      BY <1>3, <3>1
    <3> QED
      BY <1>3, <3>1, <3>2 DEF Members
  <2>3. ASSUME NEW j \in 1 .. m PROVE t[j] \in Members(u)
    <3>1. l + j \in 1 .. l + m /\ ~ (l + j <= l) /\ l + j - l = j
      OBVIOUS
    <3>2. u[l + j] = t[j]
      BY <1>3, <3>1
    <3> QED
      BY <1>3, <3>1, <3>2 DEF Members
  <2> QED
    BY <1>1, <2>1, <2>2, <2>3 DEF Members
<1> QED
  BY <1>2, <1>3, <1>5, <1>6
=============================================================================
