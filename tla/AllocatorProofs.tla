-------------------------- MODULE AllocatorProofs --------------------------
(***************************************************************************)
(* The allocators, for all values of the constants.  The free lists of      *)
(* vmhgetmem and vmhfreemem, and of getmem, getstk and freemem, implement   *)
(* the allocator of HeapSpec (VHeap, Memory); the buffer pools lose nothing *)
(* (Memory); the stacks of frames and the queue of victims are in order     *)
(* (FrameMgmt), and the arrays and links of system/framemgmt.c take only    *)
(* their steps (InvPt).                                                     *)
(***************************************************************************)
EXTENDS VHeap, Memory, FrameMgmt, InvPt, FrameLemmas

-----------------------------------------------------------------------------
(* Lists of blocks.                                                         *)

Blocks(N) == [base : 0 .. N - 1, len : 1 .. N]

\* The blocks of L lie within N pages, in order, and do not touch each other,
\* but that the i-th and the next may.
Ordered(L, N, i) ==
  /\ L \in Seq(Blocks(N))
  /\ \A x \in 1 .. Len(L) : L[x].base + L[x].len <= N
  /\ \A x, y \in 1 .. Len(L) :
       x < y => IF x = i /\ y = i + 1 THEN L[x].base + L[x].len <= L[y].base
                ELSE L[x].base + L[x].len < L[y].base

Whole(L, N) == Ordered(L, N, 0)

Cover(L) == UNION {L[x].base .. L[x].base + L[x].len - 1 : x \in 1 .. Len(L)}
Bases(L) == {L[x].base : x \in 1 .. Len(L)}

\* What the fields of a block are.
LEMMA BlockType ==
  ASSUME NEW N \in Nat, NEW L \in Seq(Blocks(N)), NEW x \in 1 .. Len(L)
  PROVE  /\ L[x] \in Blocks(N) /\ L[x].base \in 0 .. N - 1 /\ L[x].len \in 1 .. N
         /\ L[x].base \in Int /\ L[x].len \in Int
<1>1. PICK r : r = L[x]
  OBVIOUS
<1>2. r \in Blocks(N)
  BY <1>1
<1>3. r.base \in 0 .. N - 1 /\ r.len \in 1 .. N
  BY <1>2 DEF Blocks
<1> QED
  BY <1>1, <1>2, <1>3

\* A page is covered when it lies in one of the blocks.
LEMMA InCover ==
  ASSUME NEW N \in Nat, NEW L \in Seq(Blocks(N)), NEW p
  PROVE  p \in Cover(L) <=>
           p \in Int /\ \E x \in 1 .. Len(L) : L[x].base <= p /\ p < L[x].base + L[x].len
<1>1. \A x \in 1 .. Len(L) : L[x].base \in Int /\ L[x].len \in Int
  BY BlockType
<1>2. p \in Cover(L) <=> \E x \in 1 .. Len(L) : p \in L[x].base .. L[x].base + L[x].len - 1
  BY DEF Cover
<1> QED
  BY <1>1, <1>2

\* What is covered lies below N.
LEMMA CoverBelow ==
  ASSUME NEW N \in Nat, NEW L, NEW i, Ordered(L, N, i)
  PROVE  Cover(L) \subseteq 0 .. N - 1 /\ IsFiniteSet(Cover(L))
<1>1. ASSUME NEW p \in Cover(L) PROVE p \in 0 .. N - 1
  <2>1. L \in Seq(Blocks(N)) /\ \A x \in 1 .. Len(L) : L[x].base + L[x].len <= N
    BY DEF Ordered
  <2>2. PICK x \in 1 .. Len(L) : p \in Int /\ L[x].base <= p /\ p < L[x].base + L[x].len
    BY <2>1, InCover
  <2> QED
    BY <2>1, <2>2, BlockType
<1>2. IsFiniteSet(0 .. N - 1)
  BY FS_Interval
<1>3. Cover(L) \in SUBSET (0 .. N - 1)
  BY <1>1
<1> QED
  BY <1>2, <1>3, FS_Subset

\* A run of covered pages lies in one block: the blocks do not touch.
LEMMA RunInBlock ==
  ASSUME NEW N \in Nat, NEW L, Whole(L, N), NEW b \in Int, NEW m \in Int, m > 0,
         b .. b + m - 1 \subseteq Cover(L)
  PROVE  \E x \in 1 .. Len(L) : L[x].base <= b /\ b + m <= L[x].base + L[x].len
<1>1. /\ L \in Seq(Blocks(N)) /\ Len(L) \in Nat
      /\ \A x, y \in 1 .. Len(L) : x < y => L[x].base + L[x].len < L[y].base
  BY DEF Whole, Ordered
<1>2. \A x \in 1 .. Len(L) : L[x].base \in Int /\ L[x].len \in Int /\ L[x].len > 0
  BY <1>1, BlockType
<1>3. PICK x \in 1 .. Len(L) : L[x].base <= b /\ b < L[x].base + L[x].len
  BY <1>1, InCover
<1>4. SUFFICES ASSUME b + m > L[x].base + L[x].len PROVE FALSE
  BY <1>2, <1>3
<1> DEFINE e == L[x].base + L[x].len
<1>5. e \in b .. b + m - 1
  BY <1>2, <1>3, <1>4
<1>6. PICK y \in 1 .. Len(L) : L[y].base <= e /\ e < L[y].base + L[y].len
  BY <1>1, <1>5, InCover
<1>7. CASE x < y
  <2>1. e < L[y].base
    BY <1>1, <1>7
  <2> QED
    BY <1>2, <1>6, <2>1
<1>8. CASE y < x
  <2>1. L[y].base + L[y].len < L[x].base
    BY <1>1, <1>8
  <2> QED
    BY SMTT(20), <1>2, <1>3, <1>6, <2>1
<1>9. CASE x = y
  BY <1>2, <1>6, <1>9
<1> QED
  BY <1>7, <1>8, <1>9

-----------------------------------------------------------------------------
(* Taking pages from a block.                                               *)

\* m pages from b on lie in block x.
Within(b, m, x) == m > 0 /\ x.base <= b /\ b + m <= x.base + x.len

CutTo(L, i, b, m) == [L EXCEPT ![i] = [base |-> b, len |-> m]]

\* The list M is L with the b .. b + m - 1 that is left of block i.
WasCut(L, N, i, b, m, M) ==
  /\ Whole(M, N)
  /\ Cover(M) = (Cover(L) \ (L[i].base .. L[i].base + L[i].len - 1)) \cup (b .. b + m - 1)
  /\ Bases(M) \subseteq Bases(L) \cup {b}

\* A block of the list is cut down to a part of it.
LEMMA CutBlock ==
  ASSUME NEW N \in Nat, NEW L, Whole(L, N), NEW i \in 1 .. Len(L),
         NEW b \in Int, NEW m \in Int, Within(b, m, L[i]),
         NEW M, M = CutTo(L, i, b, m)
  PROVE  WasCut(L, N, i, b, m, M)
<1>12. m > 0 /\ L[i].base <= b /\ b + m <= L[i].base + L[i].len
  BY DEF Within
<1>13. M = [L EXCEPT ![i] = [base |-> b, len |-> m]]
  BY DEF CutTo
<1>1. /\ L \in Seq(Blocks(N)) /\ Len(L) \in Nat
      /\ \A x \in 1 .. Len(L) : L[x].base + L[x].len <= N
      /\ \A x, y \in 1 .. Len(L) : x < y => L[x].base + L[x].len < L[y].base
  BY DEF Whole, Ordered
<1>2. \A x \in 1 .. Len(L) : L[x] \in Blocks(N) /\ L[x].base \in 0 .. N - 1 /\ L[x].len \in 1 .. N
  BY <1>1, BlockType
<1>3. [base |-> b, len |-> m] \in Blocks(N)
  <2>1. PICK c \in Int, l \in Int : c = L[i].base /\ l = L[i].len /\ c >= 0
    BY <1>2
  <2>2. c <= b /\ b + m <= c + l /\ c + l <= N
    BY <1>1, <1>12, <2>1
  <2>3. b \in 0 .. N - 1 /\ m \in 1 .. N
    BY <1>12, <2>1, <2>2
  <2> QED
    BY <2>3 DEF Blocks
<1>4. /\ M \in Seq(Blocks(N)) /\ Len(M) = Len(L)
      /\ \A x \in 1 .. Len(L) : M[x] = IF x = i THEN [base |-> b, len |-> m] ELSE L[x]
  BY <1>1, <1>3, <1>13
<1>5. /\ M[i].base = b /\ M[i].len = m
      /\ \A x \in 1 .. Len(L) : x # i => M[x].base = L[x].base /\ M[x].len = L[x].len
  BY <1>4
<1>6. \A x \in 1 .. Len(M) : M[x].base + M[x].len <= N
  BY <1>1, <1>2, <1>4, <1>5, <1>12
<1>7. ASSUME NEW x \in 1 .. Len(M), NEW y \in 1 .. Len(M), x < y
      PROVE  M[x].base + M[x].len < M[y].base
  <2>1. L[x].base + L[x].len < L[y].base
    BY <1>1, <1>4, <1>7
  <2> QED
    <3>1. /\ L[x].base \in Int /\ L[x].len \in Int /\ L[y].base \in Int
          /\ L[i].base \in Int /\ L[i].len \in Int
      BY <1>2, <1>4
    <3>2. CASE x = i
      <4>1. M[x].base = b /\ M[x].len = m /\ M[y].base = L[y].base
        BY <1>4, <1>5, <1>7, <3>2
      <4>2. b + m < L[y].base
        BY <1>12, <2>1, <3>1, <3>2
      <4> QED
        BY <4>1, <4>2
    <3>3. CASE y = i
      <4>1. M[x].base = L[x].base /\ M[x].len = L[x].len /\ M[y].base = b
        BY <1>4, <1>5, <1>7, <3>3
      <4>2. L[x].base + L[x].len < b
        BY <1>12, <2>1, <3>1, <3>3
      <4> QED
        BY <4>1, <4>2
    <3>4. CASE x # i /\ y # i
      BY <1>4, <1>5, <2>1, <3>4
    <3> QED
      BY <3>2, <3>3, <3>4
<1>8. Whole(M, N)
  BY <1>4, <1>6, <1>7 DEF Whole, Ordered
<1>9. ASSUME NEW p \in Int
      PROVE  p \in Cover(M) <=> p \in (Cover(L) \ (L[i].base .. L[i].base + L[i].len - 1)) \cup (b .. b + m - 1)
  <2>1. p \in Cover(M) <=> \E x \in 1 .. Len(L) : M[x].base <= p /\ p < M[x].base + M[x].len
    BY <1>4, InCover
  <2>2. p \in Cover(L) <=> \E x \in 1 .. Len(L) : L[x].base <= p /\ p < L[x].base + L[x].len
    BY <1>1, InCover
  <2>3. \A x \in 1 .. Len(L) :
          x # i => ~ (/\ L[x].base <= p /\ p < L[x].base + L[x].len
                      /\ L[i].base <= p /\ p < L[i].base + L[i].len)
    <3> SUFFICES ASSUME NEW x \in 1 .. Len(L), x # i
                 PROVE  ~ (/\ L[x].base <= p /\ p < L[x].base + L[x].len
                           /\ L[i].base <= p /\ p < L[i].base + L[i].len)
      OBVIOUS
    <3>1. /\ L[x].base \in Int /\ L[x].len \in Int
          /\ L[i].base \in Int /\ L[i].len \in Int
      BY <1>2
    <3>2. CASE x < i
      <4>1. L[x].base + L[x].len < L[i].base
        BY <1>1, <3>2
      <4> QED
        BY <3>1, <4>1
    <3>3. CASE i < x
      <4>1. L[i].base + L[i].len < L[x].base
        BY <1>1, <3>3
      <4> QED
        BY <3>1, <4>1
    <3> QED
      BY <3>2, <3>3
  <2>4. p \in L[i].base .. L[i].base + L[i].len - 1 <=> L[i].base <= p /\ p < L[i].base + L[i].len
    BY SMTT(20), <1>2
  <2>5. p \in b .. b + m - 1 <=> M[i].base <= p /\ p < M[i].base + M[i].len
    BY <1>5
  <2> QED
    BY <1>2, <1>5, <1>12, <2>1, <2>2, <2>3, <2>4, <2>5
<1>10. Cover(M) \subseteq Int /\ Cover(L) \subseteq Int /\ b .. b + m - 1 \subseteq Int
  <2>1. \A p : p \in Cover(M) => p \in Int
    BY <1>4, InCover
  <2>2. \A p : p \in Cover(L) => p \in Int
    BY <1>1, InCover
  <2>3. Cover(M) \subseteq Int
    BY <2>1
  <2>4. Cover(L) \subseteq Int
    BY <2>2
  <2>5. b .. b + m - 1 \subseteq Int
    OBVIOUS
  <2> QED
    BY <2>3, <2>4, <2>5
<1>11. Bases(M) \subseteq Bases(L) \cup {b}
  BY <1>4, <1>5 DEF Bases
<1> QED
  BY <1>8, <1>9, <1>10, <1>11 DEF WasCut

\* A block is removed from the list.
LEMMA DropBlock ==
  ASSUME NEW N \in Nat, NEW L, Whole(L, N), NEW i \in 1 .. Len(L)
  PROVE  /\ Whole(RemoveAt(L, i), N)
         /\ Cover(RemoveAt(L, i)) = Cover(L) \ (L[i].base .. L[i].base + L[i].len - 1)
         /\ Bases(RemoveAt(L, i)) \subseteq Bases(L)
<1> DEFINE M == RemoveAt(L, i)
<1>1. /\ L \in Seq(Blocks(N)) /\ Len(L) \in Nat
      /\ \A x \in 1 .. Len(L) : L[x].base + L[x].len <= N
      /\ \A x, y \in 1 .. Len(L) : x < y => L[x].base + L[x].len < L[y].base
  BY DEF Whole, Ordered
<1>2. \A x \in 1 .. Len(L) : L[x].base \in 0 .. N - 1 /\ L[x].len \in 1 .. N
  BY <1>1, BlockType
<1>3. /\ M \in Seq(Blocks(N)) /\ Len(M) = Len(L) - 1
      /\ \A j \in 1 .. Len(M) : M[j] = IF j < i THEN L[j] ELSE L[j + 1]
  BY <1>1, RemoveShape
<1> HIDE DEF M
<1> DEFINE at(j) == IF j < i THEN j ELSE j + 1
<1>4. \A j \in 1 .. Len(M) : at(j) \in 1 .. Len(L) /\ at(j) # i /\ M[j] = L[at(j)]
  BY <1>1, <1>3
<1>5. \A x \in 1 .. Len(L) : x # i => \E j \in 1 .. Len(M) : at(j) = x
  <2> SUFFICES ASSUME NEW x \in 1 .. Len(L), x # i
               PROVE  \E j \in 1 .. Len(M) : at(j) = x
    OBVIOUS
  <2>1. CASE x < i
    <3>1. x \in 1 .. Len(M) /\ at(x) = x
      BY <1>1, <1>3, <2>1
    <3> QED
      BY <3>1
  <2>2. CASE x > i
    <3>1. x - 1 \in 1 .. Len(M) /\ at(x - 1) = x
      BY <1>1, <1>3, <2>2
    <3> QED
      BY <3>1
  <2> QED
    BY <2>1, <2>2
<1>6. \A x, y \in 1 .. Len(M) : x < y => at(x) < at(y)
  BY <1>1, <1>3
<1> HIDE DEF at
<1>7. Whole(M, N)
  BY SMTT(20), <1>1, <1>3, <1>4, <1>6 DEF Whole, Ordered
<1>8. ASSUME NEW p \in Int
      PROVE  p \in Cover(M) <=> p \in Cover(L) \ (L[i].base .. L[i].base + L[i].len - 1)
  <2>1. p \in Cover(M) <=> \E x \in 1 .. Len(M) : M[x].base <= p /\ p < M[x].base + M[x].len
    BY <1>3, InCover
  <2>2. p \in Cover(L) <=> \E x \in 1 .. Len(L) : L[x].base <= p /\ p < L[x].base + L[x].len
    BY <1>1, InCover
  <2>3. \A x \in 1 .. Len(L) :
          x # i => ~ (/\ L[x].base <= p /\ p < L[x].base + L[x].len
                      /\ L[i].base <= p /\ p < L[i].base + L[i].len)
    <3> SUFFICES ASSUME NEW x \in 1 .. Len(L), x # i
                 PROVE  ~ (/\ L[x].base <= p /\ p < L[x].base + L[x].len
                           /\ L[i].base <= p /\ p < L[i].base + L[i].len)
      OBVIOUS
    <3>1. /\ L[x].base \in Int /\ L[x].len \in Int
          /\ L[i].base \in Int /\ L[i].len \in Int
      BY <1>2
    <3>2. CASE x < i
      <4>1. L[x].base + L[x].len < L[i].base
        BY <1>1, <3>2
      <4> QED
        BY <3>1, <4>1
    <3>3. CASE i < x
      <4>1. L[i].base + L[i].len < L[x].base
        BY <1>1, <3>3
      <4> QED
        BY <3>1, <4>1
    <3> QED
      BY <3>2, <3>3
  <2>4. p \in L[i].base .. L[i].base + L[i].len - 1 <=> L[i].base <= p /\ p < L[i].base + L[i].len
    BY <1>2
  <2>5. p \in Cover(M) <=> \E x \in 1 .. Len(L) : x # i /\ L[x].base <= p /\ p < L[x].base + L[x].len
    BY <1>4, <1>5, <2>1
  <2> QED
    BY <2>2, <2>3, <2>4, <2>5
<1>9. Cover(M) \subseteq Int /\ Cover(L) \subseteq Int
  <2>1. \A p : p \in Cover(M) => p \in Int
    BY <1>3, InCover
  <2>2. \A p : p \in Cover(L) => p \in Int
    BY <1>1, InCover
  <2> QED
    BY <2>1, <2>2
<1>10. Bases(M) \subseteq Bases(L)
  BY <1>4 DEF Bases
<1> QED
  BY <1>7, <1>8, <1>9, <1>10 DEF M
-----------------------------------------------------------------------------
(* Giving pages back.                                                       *)

\* JoinNext when it has nothing to join, or joins.
LEMMA JoinOrdered ==
  ASSUME NEW N \in Nat, NEW L, NEW i \in 1 .. Len(L), Ordered(L, N, i)
  PROVE  /\ Whole(JoinNext(L, i), N)
         /\ Cover(JoinNext(L, i)) = Cover(L)
         /\ Bases(JoinNext(L, i)) \subseteq Bases(L)
<1>1. /\ L \in Seq(Blocks(N)) /\ Len(L) \in Nat
      /\ \A x \in 1 .. Len(L) : L[x].base + L[x].len <= N
      /\ \A x, y \in 1 .. Len(L) :
           x < y => IF x = i /\ y = i + 1 THEN L[x].base + L[x].len <= L[y].base
                    ELSE L[x].base + L[x].len < L[y].base
  BY DEF Ordered
<1>2. \A x \in 1 .. Len(L) : L[x] \in Blocks(N) /\ L[x].base \in 0 .. N - 1 /\ L[x].len \in 1 .. N
  BY <1>1, BlockType
<1>3. CASE ~ (i < Len(L) /\ L[i].base + L[i].len = L[i + 1].base)
  <2>1. JoinNext(L, i) = L
    BY <1>3 DEF JoinNext
  <2>2. ASSUME NEW x \in 1 .. Len(L), NEW y \in 1 .. Len(L), x < y
        PROVE  L[x].base + L[x].len < L[y].base
    <3>1. CASE x = i /\ y = i + 1
      <4>1. L[i].base + L[i].len <= L[i + 1].base
        BY <1>1, <2>2, <3>1
      <4>2. i < Len(L) /\ i + 1 \in 1 .. Len(L)
        BY <1>1, <3>1
      <4>3. L[i].base \in Int /\ L[i].len \in Int /\ L[i + 1].base \in Int
        BY <1>2, <4>2
      <4>4. L[i].base + L[i].len # L[i + 1].base
        BY <1>3, <4>2
      <4>5. L[i].base + L[i].len < L[i + 1].base
        BY <4>1, <4>3, <4>4
      <4> QED
        BY <3>1, <4>5
    <3>2. CASE ~ (x = i /\ y = i + 1)
      BY <1>1, <2>2, <3>2
    <3> QED
      BY <3>1, <3>2
  <2>3. Whole(L, N)
    BY <1>1, <2>2 DEF Whole, Ordered
  <2> QED
    BY <2>1, <2>3
<1>4. CASE i < Len(L) /\ L[i].base + L[i].len = L[i + 1].base
  <2> DEFINE m == L[i].len + L[i + 1].len
             M == [L EXCEPT ![i].len = @ + L[i + 1].len]
             R == RemoveAt(M, i + 1)
             at(j) == IF j <= i THEN j ELSE j + 1
  <2>1. JoinNext(L, i) = R
    BY <1>4 DEF JoinNext
  <2>2. i + 1 \in 1 .. Len(L) /\ i \in Nat
    BY <1>1, <1>4
  <2>3. L[i + 1].base + L[i + 1].len <= N /\ L[i + 1].base \in 0 .. N - 1 /\ L[i + 1].len \in 1 .. N
    BY <1>1, <1>2, <2>2
  <2>4. M = [L EXCEPT ![i] = [base |-> L[i].base, len |-> m]]
    <3>1. PICK r : r = L[i]
      OBVIOUS
    <3>2. r \in Blocks(N)
      BY <1>2, <3>1
    <3>3. [r EXCEPT !.len = @ + L[i + 1].len] = [base |-> r.base, len |-> r.len + L[i + 1].len]
      BY <3>2 DEF Blocks
    <3> QED
      BY <3>1, <3>3
  <2>5. [base |-> L[i].base, len |-> m] \in Blocks(N)
    <3>1. m \in 1 .. N
      BY SMTT(20), <1>1, <1>2, <1>4, <2>3
    <3> QED
      BY <1>2, <3>1 DEF Blocks
  <2>16. /\ m = L[i].len + L[i + 1].len /\ L[i + 1].base = L[i].base + L[i].len
         /\ L[i].base \in Int /\ L[i].len \in Int /\ L[i].len > 0
         /\ L[i + 1].base \in Int /\ L[i + 1].len \in Int /\ L[i + 1].len > 0
    BY <1>2, <1>4, <2>3
  <2> HIDE DEF m
  <2>6. /\ M \in Seq(Blocks(N)) /\ Len(M) = Len(L)
        /\ \A x \in 1 .. Len(L) : M[x] = IF x = i THEN [base |-> L[i].base, len |-> m] ELSE L[x]
    BY <1>1, <2>4, <2>5
  <2> HIDE DEF M
  <2>7. /\ R \in Seq(Blocks(N)) /\ Len(R) = Len(L) - 1
        /\ \A j \in 1 .. Len(R) : R[j] = IF j < i + 1 THEN M[j] ELSE M[j + 1]
    <3>1. LET t == RemoveAt(M, i + 1) IN
            /\ t \in Seq(Blocks(N)) /\ Len(t) = Len(M) - 1
            /\ \A j \in 1 .. Len(t) : t[j] = IF j < i + 1 THEN M[j] ELSE M[j + 1]
      BY <2>2, <2>6, RemoveShape
    <3> QED
      BY <2>6, <3>1
  <2> HIDE DEF R
  <2>8. \A j \in 1 .. Len(R) :
          /\ at(j) \in 1 .. Len(L) /\ at(j) # i + 1 /\ (at(j) = i <=> j = i)
          /\ R[j].base = L[at(j)].base
          /\ R[j].len = IF j = i THEN m ELSE L[at(j)].len
    <3> SUFFICES ASSUME NEW j \in 1 .. Len(R)
                 PROVE  /\ at(j) \in 1 .. Len(L) /\ at(j) # i + 1 /\ (at(j) = i <=> j = i)
                        /\ R[j].base = L[at(j)].base
                        /\ R[j].len = IF j = i THEN m ELSE L[at(j)].len
      OBVIOUS
    <3>1. at(j) \in 1 .. Len(L) /\ at(j) # i + 1 /\ (at(j) = i <=> j = i)
      BY <1>1, <2>2, <2>7
    <3>2. R[j] = M[at(j)]
      <4>1. CASE j <= i
        <5>1. j < i + 1 /\ at(j) = j
          BY <1>1, <4>1
        <5> QED
          BY <2>7, <5>1
      <4>2. CASE ~ (j <= i)
        <5>1. ~ (j < i + 1) /\ at(j) = j + 1
          BY <1>1, <4>2
        <5> QED
          BY <2>7, <5>1
      <4> QED
        BY <4>1, <4>2
    <3>3. M[at(j)] = IF j = i THEN [base |-> L[i].base, len |-> m] ELSE L[at(j)]
      BY <2>6, <3>1
    <3> QED
      BY <3>1, <3>2, <3>3
  <2>9. \A x \in 1 .. Len(L) : x # i + 1 => \E j \in 1 .. Len(R) : at(j) = x
    <3> SUFFICES ASSUME NEW x \in 1 .. Len(L), x # i + 1
                 PROVE  \E j \in 1 .. Len(R) : at(j) = x
      OBVIOUS
    <3>1. CASE x <= i
      <4>1. x \in 1 .. Len(R) /\ at(x) = x
        BY <1>1, <2>2, <2>7, <3>1
      <4> QED
        BY <4>1
    <3>2. CASE x > i
      <4>1. x - 1 \in 1 .. Len(R) /\ at(x - 1) = x
        BY <1>1, <2>2, <2>7, <3>2
      <4> QED
        BY <4>1
    <3> QED
      BY <3>1, <3>2
  <2>10. ASSUME NEW x \in 1 .. Len(R), NEW y \in 1 .. Len(R), x < y
         PROVE  R[x].base + R[x].len < R[y].base
    <3>1. at(x) < at(y) /\ at(x) \in 1 .. Len(L) /\ at(y) \in 1 .. Len(L)
      BY <2>2, <2>7, <2>8, <2>10, <1>1
    <3>2. CASE x = i
      <4>1. i + 1 < at(y)
        BY <2>2, <2>10, <3>2
      <4>2. L[i + 1].base + L[i + 1].len < L[at(y)].base
        BY <1>1, <2>2, <3>1, <4>1
      <4>3. R[x].base = L[i].base /\ R[x].len = m /\ R[y].base = L[at(y)].base
        BY <2>8, <3>2
      <4>4. L[at(y)].base \in Int
        BY <1>2, <3>1
      <4>5. L[i].base + m = L[i + 1].base + L[i + 1].len
        BY SMTT(20), <2>16
      <4> QED
        BY <4>2, <4>3, <4>5
    <3>3. CASE x # i
      <4>1. L[at(x)].base + L[at(x)].len < L[at(y)].base
        BY <1>1, <2>8, <3>1, <3>3
      <4> QED
        BY <2>8, <3>3, <4>1
    <3> QED
      BY <3>2, <3>3
  <2>11. ASSUME NEW x \in 1 .. Len(R) PROVE R[x].base + R[x].len <= N
    <3>1. CASE x = i
      <4>1. R[x].base = L[i].base /\ R[x].len = m
        BY <2>8, <3>1
      <4>2. L[i].base + m = L[i + 1].base + L[i + 1].len
        BY SMTT(20), <2>16
      <4> QED
        BY <2>3, <4>1, <4>2
    <3>2. CASE x # i
      BY <1>1, <2>8, <3>2
    <3> QED
      BY <3>1, <3>2
  <2>12. Whole(R, N)
    BY <1>1, <2>7, <2>10, <2>11 DEF Whole, Ordered
  <2>13. ASSUME NEW p \in Int PROVE p \in Cover(R) <=> p \in Cover(L)
    <3>1. p \in Cover(R) <=> \E x \in 1 .. Len(R) : R[x].base <= p /\ p < R[x].base + R[x].len
      BY <2>7, InCover
    <3>2. p \in Cover(L) <=> \E x \in 1 .. Len(L) : L[x].base <= p /\ p < L[x].base + L[x].len
      BY <1>1, InCover
    <3>3. ASSUME NEW x \in 1 .. Len(R), R[x].base <= p, p < R[x].base + R[x].len
          PROVE  p \in Cover(L)
      <4>1. CASE x = i
        <5>2. R[x].base = L[i].base /\ R[x].len = m
          BY <2>8, <4>1
        <5>3. L[i].base <= p /\ p < L[i].base + m
          BY <3>3, <5>2
        <5>1. \/ L[i].base <= p /\ p < L[i].base + L[i].len
              \/ L[i + 1].base <= p /\ p < L[i + 1].base + L[i + 1].len
          <6>1. CASE p < L[i].base + L[i].len
            BY <5>3, <6>1
          <6>2. CASE ~ (p < L[i].base + L[i].len)
            <7>1. L[i + 1].base <= p
              BY <2>16, <6>2
            <7>3. L[i].base + m = L[i + 1].base + L[i + 1].len
              BY SMTT(20), <2>16
            <7>2. p < L[i + 1].base + L[i + 1].len
              BY <5>3, <7>3
            <7> QED
              BY <7>1, <7>2
          <6> QED
            BY <6>1, <6>2
        <5> QED
          BY <2>2, <3>2, <5>1
      <4>2. CASE x # i
        BY <2>8, <3>2, <3>3, <4>2
      <4> QED
        BY <4>1, <4>2
    <3>4. ASSUME NEW x \in 1 .. Len(L), L[x].base <= p, p < L[x].base + L[x].len
          PROVE  p \in Cover(R)
      <4>1. i \in 1 .. Len(R)
        BY <1>1, <2>2, <2>7
      <4>2. R[i].base = L[i].base /\ R[i].len = m
        BY <2>8, <4>1
      <4>3. CASE x \in {i, i + 1}
        <5>2. L[i].base <= p /\ p < L[i].base + m
          <6>1. CASE x = i
            BY SMTT(20), <2>16, <3>4, <6>1
          <6>2. CASE x = i + 1
            <7>1. L[i + 1].base <= p /\ p < L[i + 1].base + L[i + 1].len
              BY <3>4, <6>2
            <7>2. L[i].base <= p
              <8>1. L[i].base \in Int /\ L[i + 1].base \in Int /\ L[i].base <= L[i + 1].base
                BY <2>16
              <8> QED
                BY <7>1, <8>1
            <7>3. L[i].base + m = L[i + 1].base + L[i + 1].len
              BY SMTT(20), <2>16
            <7> QED
              BY <7>1, <7>2, <7>3
          <6> QED
            BY <4>3, <6>1, <6>2
        <5>1. R[i].base <= p /\ p < R[i].base + R[i].len
          BY <4>2, <5>2
        <5> QED
          BY <3>1, <4>1, <5>1
      <4>4. CASE x \notin {i, i + 1}
        <5>1. PICK j \in 1 .. Len(R) : at(j) = x
          BY <2>9, <4>4
        <5>2. R[j].base = L[x].base /\ R[j].len = L[x].len
          BY <2>8, <4>4, <5>1
        <5> QED
          BY <3>1, <3>4, <5>2
      <4> QED
        BY <4>3, <4>4
    <3> QED
      BY <3>1, <3>2, <3>3, <3>4
  <2>14. Cover(R) \subseteq Int /\ Cover(L) \subseteq Int
    <3>1. \A p : p \in Cover(R) => p \in Int
      BY <2>7, InCover
    <3>2. \A p : p \in Cover(L) => p \in Int
      BY <1>1, InCover
    <3> QED
      BY <3>1, <3>2
  <2>15. Bases(R) \subseteq Bases(L)
    BY <2>8 DEF Bases
  <2> QED
    BY <2>1, <2>12, <2>13, <2>14, <2>15
<1> QED
  BY <1>3, <1>4

\* The list after pages b .. b + m - 1 were given back, with k blocks before.
Given(L, k, b, m) ==
  IF k > 0 /\ L[k].base + L[k].len = b
  THEN JoinNext([L EXCEPT ![k].len = @ + m], k)
  ELSE JoinNext(InsertAt(L, k + 1, [base |-> b, len |-> m]), k + 1)

\* The pages lie between the k-th block and the next.
Between(L, k, b, m) ==
  /\ k \in 0 .. Len(L)
  /\ k > 0 => L[k].base < b /\ L[k].base + L[k].len <= b
  /\ k < Len(L) => b + m <= L[k + 1].base

\* The first k blocks are those that start below b.
Splits(L, k, b) == k \in 0 .. Len(L) /\ \A x \in 1 .. Len(L) : L[x].base < b <=> x <= k

\* How many blocks start below an address says which do.
LEMMA FirstBlocks ==
  ASSUME NEW N \in Nat, NEW L, Whole(L, N), NEW b \in Int, NEW k,
         k = Cardinality({i \in 1 .. Len(L) : L[i].base < b})
  PROVE  Splits(L, k, b)
<1>4. /\ L \in Seq(Blocks(N)) /\ Len(L) \in Nat
      /\ \A x, y \in 1 .. Len(L) : x < y => L[x].base + L[x].len < L[y].base
  BY DEF Whole, Ordered
<1>5. \A x \in 1 .. Len(L) : L[x].base \in Int /\ L[x].len \in Int /\ L[x].len > 0
  BY <1>4, BlockType
<1> DEFINE P == {i \in 1 .. Len(L) : L[i].base < b}
<1>1. ASSUME NEW i \in P, NEW j \in 1 .. i PROVE j \in P
  <2>1. j \in 1 .. Len(L) /\ i \in 1 .. Len(L) /\ L[i].base < b /\ (j = i \/ j < i)
    BY <1>4
  <2>2. j = i \/ L[j].base + L[j].len < L[i].base
    BY <1>4, <2>1
  <2>3. L[j].base < b
    BY <1>5, <2>1, <2>2
  <2> QED
    BY <2>1, <2>3
<1>2. P \in SUBSET (1 .. Len(L)) /\ \A i \in P : \A j \in 1 .. i : j \in P
  BY <1>1
<1> HIDE DEF P
<1>3. Cardinality(P) \in 0 .. Len(L) /\ P = 1 .. Cardinality(P)
  BY <1>2, <1>4, FirstPlaces
<1>6. k = Cardinality(P)
  BY DEF P
<1>7. \A x \in 1 .. Len(L) : x \in P <=> x <= k
  BY <1>3, <1>4, <1>6
<1>8. \A x \in 1 .. Len(L) : x \in P <=> L[x].base < b
  BY DEF P
<1> QED
  BY <1>3, <1>6, <1>7, <1>8 DEF Splits

\* The pages run into the k-th block or into the next.
Clash(L, k, b, m) ==
  \/ k > 0 /\ b < L[k].base + L[k].len
  \/ k < Len(L) /\ b + m > L[k + 1].base

Misses(L, b, m) == Cover(L) \cap (b .. b + m - 1) = {}

\* Only if they do is one of them covered.
LEMMA ClashOrBetween ==
  ASSUME NEW N \in Nat, NEW L, Whole(L, N), NEW b \in Int, NEW m \in Nat, m # 0, NEW k,
         Splits(L, k, b)
  PROVE  IF Clash(L, k, b, m) THEN ~ Misses(L, b, m) ELSE Between(L, k, b, m) /\ Misses(L, b, m)
<1>1. m > 0 /\ m \in Int
  OBVIOUS
<1>4. /\ L \in Seq(Blocks(N)) /\ Len(L) \in Nat
      /\ \A x, y \in 1 .. Len(L) : x < y => L[x].base + L[x].len < L[y].base
  BY DEF Whole, Ordered
<1>5. \A x \in 1 .. Len(L) : L[x].base \in Int /\ L[x].len \in Int /\ L[x].len > 0
  BY <1>4, BlockType
<1>6. k \in 0 .. Len(L) /\ \A x \in 1 .. Len(L) : L[x].base < b <=> x <= k
  BY DEF Splits
<1>7. CASE k > 0 /\ b < L[k].base + L[k].len
  <2>1. k \in 1 .. Len(L) /\ L[k].base < b
    BY <1>4, <1>6, <1>7
  <2>2. L[k].base <= b /\ b < L[k].base + L[k].len
    BY <1>5, <1>7, <2>1
  <2>3. b \in Cover(L)
    BY <1>4, <2>1, <2>2, InCover
  <2>4. b \in b .. b + m - 1
    BY <1>1
  <2> QED
    BY <1>7, <2>3, <2>4 DEF Clash, Misses
<1>8. CASE k < Len(L) /\ b + m > L[k + 1].base
  <2>1. k + 1 \in 1 .. Len(L) /\ ~ (k + 1 <= k)
    BY <1>4, <1>6, <1>8
  <2>2. PICK c \in Int : c = L[k + 1].base
    BY <1>5, <2>1
  <2>3. ~ (c < b)
    BY <1>6, <2>1, <2>2
  <2>4. c \in b .. b + m - 1
    BY <1>1, <1>8, <2>2, <2>3
  <2>5. L[k + 1].base <= c /\ c < L[k + 1].base + L[k + 1].len
    BY <1>5, <2>1, <2>2
  <2>6. c \in Cover(L)
    BY <1>4, <2>1, <2>2, <2>5, InCover
  <2> QED
    BY <1>8, <2>4, <2>6 DEF Clash, Misses
<1>9. CASE ~ Clash(L, k, b, m)
  <2>2. /\ k > 0 => ~ (b < L[k].base + L[k].len)
        /\ k < Len(L) => ~ (b + m > L[k + 1].base)
    BY <1>9 DEF Clash
  <2>4. Between(L, k, b, m)
    <3>1. k > 0 => L[k].base < b /\ L[k].base + L[k].len <= b
      <4> SUFFICES ASSUME k > 0 PROVE L[k].base < b /\ L[k].base + L[k].len <= b
        OBVIOUS
      <4>1. k \in 1 .. Len(L) /\ L[k].base < b
        BY <1>4, <1>6
      <4> QED
        BY <1>5, <2>2, <4>1
    <3>2. k < Len(L) => b + m <= L[k + 1].base
      <4> SUFFICES ASSUME k < Len(L) PROVE b + m <= L[k + 1].base
        OBVIOUS
      <4>1. k + 1 \in 1 .. Len(L)
        BY <1>4, <1>6
      <4> QED
        BY <1>1, <1>5, <2>2, <4>1
    <3> QED
      BY <1>6, <3>1, <3>2 DEF Between
  <2>7. Misses(L, b, m)
    <3> SUFFICES ASSUME NEW p \in Cover(L), p \in b .. b + m - 1 PROVE FALSE
      BY DEF Misses
    <3>1. PICK x \in 1 .. Len(L) : p \in Int /\ L[x].base <= p /\ p < L[x].base + L[x].len
      BY <1>4, InCover
    <3>2. b <= p /\ p < b + m
      BY <1>1
    <3>3. CASE x <= k
      <4>1. k \in 1 .. Len(L) /\ L[k].base + L[k].len <= b /\ (x = k \/ x < k)
        BY <1>4, <1>6, <2>4, <3>3 DEF Between
      <4>2. x = k \/ L[x].base + L[x].len < L[k].base
        BY <1>4, <4>1
      <4>3. L[x].base + L[x].len <= b
        BY SMTT(20), <1>5, <4>1, <4>2
      <4> QED
        BY <1>5, <3>1, <3>2, <4>3
    <3>4. CASE ~ (x <= k)
      <4>1. k + 1 \in 1 .. Len(L) /\ k < Len(L) /\ (x = k + 1 \/ k + 1 < x)
        BY <1>4, <1>6, <3>4
      <4>2. b + m <= L[k + 1].base /\ (x = k + 1 \/ L[k + 1].base + L[k + 1].len < L[x].base)
        BY <1>4, <2>4, <4>1 DEF Between
      <4>3. PICK c \in Int, d \in Int, l \in Int : c = L[k + 1].base /\ l = L[k + 1].len /\ l > 0 /\ d = L[x].base
        BY <1>5, <4>1
      <4>4. b + m <= c
        BY <4>2, <4>3
      <4>5. c = d \/ c + l < d
        BY <4>2, <4>3
      <4>6. b + m <= d
        BY SMTT(20), <1>1, <4>3, <4>4, <4>5
      <4> QED
        BY <1>1, <3>1, <3>2, <4>3, <4>6
    <3> QED
      BY <3>3, <3>4
  <2> QED
    BY <1>9, <2>4, <2>7
<1> QED
  BY <1>7, <1>8, <1>9 DEF Clash

\* Pages that are given back between two blocks are covered, and the list
\* stays whole.
LEMMA GiveBlock ==
  ASSUME NEW N \in Nat, NEW L, Whole(L, N), NEW b \in Int, NEW m \in Int, NEW k,
         b >= 0, m > 0, b + m <= N, Between(L, k, b, m)
  PROVE  /\ Whole(Given(L, k, b, m), N)
         /\ Cover(Given(L, k, b, m)) = Cover(L) \cup (b .. b + m - 1)
         /\ Bases(Given(L, k, b, m)) \subseteq
              Bases(L) \cup (IF k > 0 /\ L[k].base + L[k].len = b THEN {} ELSE {b})
<1>1. /\ L \in Seq(Blocks(N)) /\ Len(L) \in Nat
      /\ \A x \in 1 .. Len(L) : L[x].base + L[x].len <= N
      /\ \A x, y \in 1 .. Len(L) : x < y => L[x].base + L[x].len < L[y].base
  BY DEF Whole, Ordered
<1>2. \A x \in 1 .. Len(L) : L[x] \in Blocks(N) /\ L[x].base \in 0 .. N - 1 /\ L[x].len \in 1 .. N
  BY <1>1, BlockType
<1>3. /\ k \in 0 .. Len(L)
      /\ k > 0 => L[k].base < b /\ L[k].base + L[k].len <= b
      /\ k < Len(L) => b + m <= L[k + 1].base
  BY DEF Between
<1>4. \A x \in 1 .. Len(L) : x > k => b + m <= L[x].base
  <2> SUFFICES ASSUME NEW x \in 1 .. Len(L), x > k PROVE b + m <= L[x].base
    OBVIOUS
  <2>1. k < Len(L) /\ k + 1 \in 1 .. Len(L) /\ (x = k + 1 \/ k + 1 < x)
    BY <1>1, <1>3
  <2>2. x = k + 1 \/ L[k + 1].base + L[k + 1].len < L[x].base
    BY <1>1, <2>1
  <2> QED
    BY <1>2, <1>3, <2>1, <2>2
<1>5. \A x \in 1 .. Len(L) : x <= k => L[x].base + L[x].len <= b
  <2> SUFFICES ASSUME NEW x \in 1 .. Len(L), x <= k PROVE L[x].base + L[x].len <= b
    OBVIOUS
  <2>1. k > 0 /\ k \in 1 .. Len(L) /\ (x = k \/ x < k)
    BY <1>1, <1>3
  <2>2. x = k \/ L[x].base + L[x].len < L[k].base
    BY <1>1, <2>1
  <2> QED
    BY <1>2, <1>3, <2>1, <2>2
<1>6. CASE k > 0 /\ L[k].base + L[k].len = b
  <2> DEFINE M == [L EXCEPT ![k].len = @ + m]
  <2>1. k \in 1 .. Len(L)
    BY <1>1, <1>3, <1>6
  <2>2. PICK r : r = [base |-> L[k].base, len |-> L[k].len + m]
    OBVIOUS
  <2>3. r \in Blocks(N) /\ r.base = L[k].base /\ r.len = L[k].len + m
    <3>1. L[k].len + m \in 1 .. N /\ L[k].base \in 0 .. N - 1
      BY <1>2, <1>6, <2>1
    <3> QED
      BY <2>2, <3>1 DEF Blocks
  <2>4. M = [L EXCEPT ![k] = r]
    <3>1. PICK q : q = L[k]
      OBVIOUS
    <3>2. q \in Blocks(N)
      BY <1>2, <2>1, <3>1
    <3>3. [q EXCEPT !.len = @ + m] = [base |-> q.base, len |-> q.len + m]
      BY <3>2 DEF Blocks
    <3> QED
      BY <2>2, <3>1, <3>3
  <2>16. Len(L) \in Nat /\ L \in [1 .. Len(L) -> Blocks(N)]
    BY <1>1
  <2>5. /\ M \in Seq(Blocks(N)) /\ Len(M) = Len(L)
        /\ \A x \in 1 .. Len(L) : M[x] = IF x = k THEN r ELSE L[x]
    <3> HIDE DEF M
    <3>1. PICK n \in Nat : n = Len(L)
      BY <2>16
    <3>2. M \in [1 .. n -> Blocks(N)] /\ \A x \in 1 .. n : M[x] = IF x = k THEN r ELSE L[x]
      BY <2>1, <2>3, <2>4, <2>16, <3>1
    <3>3. M \in Seq(Blocks(N)) /\ Len(M) = n
      BY <3>1, <3>2
    <3> QED
      BY <3>1, <3>2, <3>3
  <2> HIDE DEF M
  <2>6. \A x \in 1 .. Len(L) : /\ M[x].base = L[x].base
                               /\ M[x].len = IF x = k THEN L[k].len + m ELSE L[x].len
    BY <2>3, <2>5
  <2>7. ASSUME NEW x \in 1 .. Len(M), NEW y \in 1 .. Len(M), x < y
        PROVE  IF x = k /\ y = k + 1 THEN M[x].base + M[x].len <= M[y].base
               ELSE M[x].base + M[x].len < M[y].base
    <3>1. L[x].base + L[x].len < L[y].base
      BY <1>1, <2>5, <2>7
    <3>2. CASE x # k
      BY <2>5, <2>6, <3>1, <3>2
    <3>3. CASE x = k /\ y = k + 1
      <4>1. b + m <= L[y].base
        BY <1>4, <2>5, <2>7, <3>3
      <4>2. M[x].base = L[k].base /\ M[x].len = L[k].len + m /\ M[y].base = L[y].base
        BY <2>5, <2>6, <3>3
      <4>3. L[k].base \in Int /\ L[k].len \in Int
        BY <1>2, <2>1
      <4>5. L[k].base + (L[k].len + m) = (L[k].base + L[k].len) + m
        BY <4>3
      <4>4. M[x].base + M[x].len = b + m
        BY <1>6, <4>2, <4>5
      <4> QED
        BY <3>3, <4>1, <4>2, <4>4
    <3>4. CASE x = k /\ y # k + 1
      <4>1. k + 1 \in 1 .. Len(L) /\ k + 1 < y
        BY <1>1, <2>1, <2>5, <2>7, <3>4
      <4>2. b + m <= L[k + 1].base /\ L[k + 1].base + L[k + 1].len < L[y].base
        BY <1>1, <1>4, <2>1, <2>5, <4>1
      <4>3. M[x].base = L[k].base /\ M[x].len = L[k].len + m /\ M[y].base = L[y].base
        BY <2>5, <2>6, <3>4
      <4>4. /\ L[k].base \in Int /\ L[k].len \in Int /\ L[k + 1].base \in Int
            /\ L[k + 1].len \in Int /\ L[k + 1].len > 0 /\ L[y].base \in Int
        BY <1>2, <2>1, <2>5, <4>1
      <4>7. L[k].base + (L[k].len + m) = (L[k].base + L[k].len) + m
        BY <4>4
      <4>5. M[x].base + M[x].len = b + m
        BY <1>6, <4>3, <4>7
      <4>6. b + m < L[y].base
        BY <4>2, <4>4
      <4> QED
        BY <3>4, <4>3, <4>5, <4>6
    <3> QED
      BY <3>2, <3>3, <3>4
  <2>8. ASSUME NEW x \in 1 .. Len(M) PROVE M[x].base + M[x].len <= N
    BY SMTT(20), <1>1, <1>2, <1>6, <2>1, <2>5, <2>6
  <2>9. Ordered(M, N, k)
    BY <2>5, <2>7, <2>8 DEF Ordered
  <2>10. ASSUME NEW p \in Int PROVE p \in Cover(M) <=> p \in Cover(L) \/ (b <= p /\ p < b + m)
    <3>1. p \in Cover(M) <=> \E x \in 1 .. Len(L) : M[x].base <= p /\ p < M[x].base + M[x].len
      BY <2>5, InCover
    <3>2. p \in Cover(L) <=> \E x \in 1 .. Len(L) : L[x].base <= p /\ p < L[x].base + L[x].len
      BY <1>1, InCover
    <3>3. M[k].base <= p /\ p < M[k].base + M[k].len <=>
            (L[k].base <= p /\ p < L[k].base + L[k].len) \/ (b <= p /\ p < b + m)
      <4>1. M[k].base = L[k].base /\ M[k].len = L[k].len + m
        BY <2>1, <2>6
      <4>2. L[k].base \in Int /\ L[k].len \in Int /\ L[k].len > 0 /\ L[k].base + L[k].len = b
        BY <1>2, <1>6, <2>1
      <4> QED
        BY <4>1, <4>2
    <3> QED
      BY <2>1, <2>6, <3>1, <3>2, <3>3
  <2>11. Cover(M) = Cover(L) \cup (b .. b + m - 1)
    <3>1. \A p : p \in Cover(M) => p \in Int
      BY <2>5, InCover
    <3>2. \A p : p \in Cover(L) => p \in Int
      BY <1>1, InCover
    <3>3. \A p : p \in b .. b + m - 1 <=> p \in Int /\ b <= p /\ p < b + m
      OBVIOUS
    <3> QED
      BY <2>10, <3>1, <3>2, <3>3
  <2>12. Bases(M) = Bases(L)
    BY <2>5, <2>6 DEF Bases
  <2>13. Given(L, k, b, m) = JoinNext(M, k)
    BY <1>6 DEF Given, M
  <2>14. k \in 1 .. Len(M)
    BY <2>1, <2>5
  <2>15. /\ Whole(JoinNext(M, k), N) /\ Cover(JoinNext(M, k)) = Cover(M)
         /\ Bases(JoinNext(M, k)) \subseteq Bases(M)
    BY <2>9, <2>14, JoinOrdered
  <2> QED
    BY <2>11, <2>12, <2>13, <2>15
<1>7. CASE ~ (k > 0 /\ L[k].base + L[k].len = b)
  <2> DEFINE e == [base |-> b, len |-> m]
             M == InsertAt(L, k + 1, e)
             at(j) == IF j <= k THEN j ELSE j - 1
  <2>1. e \in Blocks(N) /\ e.base = b /\ e.len = m
    BY DEF Blocks
  <2>2. k + 1 \in 1 .. Len(L) + 1 /\ k \in Nat
    BY <1>1, <1>3
  <2>3. Inserted(M, Blocks(N), L, k + 1, e)
    BY <1>1, <2>1, <2>2, InsertShape
  <2> HIDE DEF e, M
  <2>4. /\ M \in Seq(Blocks(N)) /\ Len(M) = Len(L) + 1
        /\ \A j \in 1 .. Len(M) :
             M[j] = IF j < k + 1 THEN L[j] ELSE IF j = k + 1 THEN e ELSE L[j - 1]
    BY <2>3 DEF Inserted
  <2>5. /\ k + 1 \in 1 .. Len(M) /\ M[k + 1].base = b /\ M[k + 1].len = m
        /\ \A j \in 1 .. Len(M) : j # k + 1 => at(j) \in 1 .. Len(L) /\ M[j] = L[at(j)]
    BY <1>1, <2>1, <2>2, <2>4
  <2>6. ASSUME NEW x \in 1 .. Len(M), NEW y \in 1 .. Len(M), x < y
        PROVE  IF x = k + 1 /\ y = k + 1 + 1 THEN M[x].base + M[x].len <= M[y].base
               ELSE M[x].base + M[x].len < M[y].base
    <3>1. CASE x # k + 1 /\ y # k + 1
      <4>1. at(x) < at(y)
        BY <1>1, <2>2, <2>4, <2>6, <3>1
      <4>2. L[at(x)].base + L[at(x)].len < L[at(y)].base
        BY <1>1, <2>5, <3>1, <4>1
      <4> QED
        BY <2>5, <3>1, <4>2
    <3>2. CASE y = k + 1
      <4>1. x <= k /\ x \in 1 .. Len(L) /\ M[x] = L[x]
        BY <1>1, <2>2, <2>4, <2>6, <3>2
      <4>2. L[x].base + L[x].len <= b
        BY <1>5, <4>1
      <4>3. L[x].base + L[x].len # b
        <5>1. CASE x = k
          BY <1>7, <2>2, <4>1, <5>1
        <5>2. CASE x # k
          <6>1. k \in 1 .. Len(L) /\ x < k
            BY <1>1, <1>3, <4>1, <5>2
          <6>2. L[x].base + L[x].len < L[k].base /\ L[k].base < b
            BY <1>1, <1>3, <4>1, <6>1
          <6> QED
            BY <1>2, <4>1, <6>1, <6>2
        <5> QED
          BY <5>1, <5>2
      <4>4. L[x].base \in Int /\ L[x].len \in Int
        BY <1>2, <4>1
      <4>5. L[x].base + L[x].len < b
        BY <4>2, <4>3, <4>4
      <4>6. M[x].base + M[x].len < M[y].base
        BY <2>5, <3>2, <4>1, <4>5
      <4> QED
        BY <2>2, <4>1, <4>6
    <3>3. CASE x = k + 1
      <4>1. y > k + 1 /\ y - 1 \in 1 .. Len(L) /\ y - 1 > k /\ M[y] = L[y - 1]
        BY <1>1, <2>2, <2>4, <2>6, <3>3
      <4>2. b + m <= L[y - 1].base
        BY <1>4, <4>1
      <4>3. CASE y = k + 1 + 1
        BY <2>5, <3>3, <4>1, <4>2, <4>3
      <4>4. CASE y # k + 1 + 1
        <5>1. k + 1 \in 1 .. Len(L) /\ k + 1 < y - 1
          BY <1>1, <2>2, <4>1, <4>4
        <5>2. b + m <= L[k + 1].base /\ L[k + 1].base + L[k + 1].len < L[y - 1].base
          BY <1>1, <1>4, <2>2, <4>1, <5>1
        <5>3. L[k + 1].base \in Int /\ L[k + 1].len \in Int /\ L[k + 1].len > 0 /\ L[y - 1].base \in Int
          <6>1. /\ L[k + 1].base \in Int /\ L[k + 1].len \in Int /\ L[k + 1].len > 0
            BY <1>2, <5>1
          <6>2. L[y - 1].base \in Int
            BY <1>2, <4>1
          <6> QED
            BY <6>1, <6>2
        <5>4. b + m < L[y - 1].base
          BY SMTT(20), <5>2, <5>3
        <5>5. M[x].base + M[x].len < M[y].base
          BY <2>5, <3>3, <4>1, <5>4
        <5> QED
          BY <4>4, <5>5
      <4> QED
        BY <4>3, <4>4
    <3> QED
      BY <3>1, <3>2, <3>3
  <2>7. ASSUME NEW x \in 1 .. Len(M) PROVE M[x].base + M[x].len <= N
    BY <1>1, <2>5
  <2>8. Ordered(M, N, k + 1)
    BY <2>4, <2>6, <2>7 DEF Ordered
  <2>9. \A x \in 1 .. Len(L) : \E j \in 1 .. Len(M) : j # k + 1 /\ at(j) = x
    <3> SUFFICES ASSUME NEW x \in 1 .. Len(L) PROVE \E j \in 1 .. Len(M) : j # k + 1 /\ at(j) = x
      OBVIOUS
    <3>1. CASE x <= k
      <4>1. x \in 1 .. Len(M) /\ x # k + 1 /\ at(x) = x
        BY <1>1, <2>2, <2>4, <3>1
      <4> QED
        BY <4>1
    <3>2. CASE x > k
      <4>1. PICK j : j = x + 1
        OBVIOUS
      <4>2. j \in 1 .. Len(M) /\ j # k + 1
        BY <1>1, <2>2, <2>4, <3>2, <4>1
      <4>3. at(j) = x
        BY <1>1, <2>2, <3>2, <4>1
      <4> HIDE DEF at
      <4> QED
        BY <4>2, <4>3
    <3>3. x <= k \/ x > k
      BY <1>1, <2>2
    <3> QED
      BY <3>1, <3>2, <3>3
  <2> HIDE DEF at
  <2>10. ASSUME NEW p \in Int PROVE p \in Cover(M) <=> p \in Cover(L) \/ (b <= p /\ p < b + m)
    <3>1. p \in Cover(M) <=> \E x \in 1 .. Len(M) : M[x].base <= p /\ p < M[x].base + M[x].len
      BY <2>4, InCover
    <3>2. p \in Cover(L) <=> \E x \in 1 .. Len(L) : L[x].base <= p /\ p < L[x].base + L[x].len
      BY <1>1, InCover
    <3> QED
      BY <2>5, <2>9, <3>1, <3>2
  <2>11. Cover(M) = Cover(L) \cup (b .. b + m - 1)
    <3>1. \A p : p \in Cover(M) => p \in Int
      BY <2>4, InCover
    <3>2. \A p : p \in Cover(L) => p \in Int
      BY <1>1, InCover
    <3>3. \A p : p \in b .. b + m - 1 <=> p \in Int /\ b <= p /\ p < b + m
      OBVIOUS
    <3> QED
      BY <2>10, <3>1, <3>2, <3>3
  <2>12. Bases(M) \subseteq Bases(L) \cup {b}
    BY <2>5 DEF Bases
  <2>13. Given(L, k, b, m) = JoinNext(M, k + 1)
    BY <1>7 DEF Given, M, e
  <2>14. /\ Whole(JoinNext(M, k + 1), N) /\ Cover(JoinNext(M, k + 1)) = Cover(M)
         /\ Bases(JoinNext(M, k + 1)) \subseteq Bases(M)
    BY <2>5, <2>8, JoinOrdered
  <2> QED
    BY <1>7, <2>11, <2>12, <2>13, <2>14
<1> QED
  BY <1>6, <1>7

\* The list when block i has given up n pages at its low end: the block goes
\* when they are all it had.
TakenLow(L, i, n) ==
  IF L[i].len = n THEN RemoveAt(L, i)
  ELSE [L EXCEPT ![i] = [base |-> L[i].base + n, len |-> L[i].len - n]]

\* There are n pages in block x, and n is not 0.
Holds(x, n) == n > 0 /\ n <= x.len

\* A list gives up n pages at the low end of a block.
LEMMA TakeLow ==
  ASSUME NEW N \in Nat, NEW L, Whole(L, N), NEW i \in 1 .. Len(L), NEW n \in Int,
         Holds(L[i], n)
  PROVE  /\ Whole(TakenLow(L, i, n), N)
         /\ L[i].base .. L[i].base + n - 1 \subseteq Cover(L)
         /\ Cover(TakenLow(L, i, n)) = Cover(L) \ (L[i].base .. L[i].base + n - 1)
         /\ Bases(TakenLow(L, i, n)) \subseteq
              Bases(L) \cup (IF L[i].len > n THEN {L[i].base + n} ELSE {})
<1>0. n > 0 /\ n <= L[i].len
  BY DEF Holds
<1>1. L \in Seq(Blocks(N))
  BY DEF Whole, Ordered
<1>2. PICK b \in Int, l \in Int : b = L[i].base /\ l = L[i].len
  BY <1>1, BlockType
<1>3. b .. b + l - 1 \subseteq Cover(L)
  BY <1>2 DEF Cover
<1>4. b .. b + n - 1 \subseteq Cover(L)
  BY SMTT(20), <1>0, <1>2, <1>3
<1>5. CASE l = n
  BY ZenonT(40), <1>2, <1>4, <1>5, DropBlock DEF TakenLow
<1>6. CASE l # n
  <2>1. PICK c \in Int, m \in Int : c = b + n /\ m = l - n
    BY <1>2
  <2>2. PICK M : M = CutTo(L, i, c, m)
    OBVIOUS
  <2>7. n <= l /\ n > 0
    BY <1>0, <1>2
  <2>8. m > 0 /\ b <= c /\ c + m <= b + l /\ l > n
    BY <1>6, <2>1, <2>7
  <2>3. m > 0 /\ L[i].base <= c /\ c + m <= L[i].base + L[i].len /\ L[i].len > n
    BY <1>2, <2>8
  <2>4. /\ Whole(M, N)
        /\ Cover(M) = (Cover(L) \ (L[i].base .. L[i].base + L[i].len - 1)) \cup (c .. c + m - 1)
        /\ Bases(M) \subseteq Bases(L) \cup {c}
    <3>1. Within(c, m, L[i])
      BY <2>3 DEF Within
    <3>2. WasCut(L, N, i, c, m, M)
      BY <2>2, <3>1, CutBlock
    <3> QED
      BY <3>2 DEF WasCut
  <2>5. TakenLow(L, i, n) = M
    BY <1>2, <1>6, <2>1, <2>2 DEF TakenLow, CutTo
  <2>6. (Cover(L) \ (b .. b + l - 1)) \cup (c .. c + m - 1) = Cover(L) \ (b .. b + n - 1)
    <3>1. \A p : p \in b .. b + l - 1 <=> p \in b .. b + n - 1 \/ p \in c .. c + m - 1
      BY <2>1, <2>7, <2>8
    <3>2. \A p : ~ (p \in b .. b + n - 1 /\ p \in c .. c + m - 1)
      BY <1>2, <2>1
    <3> QED
      BY <1>3, <3>1, <3>2
  <2> QED
    BY <1>2, <1>4, <2>1, <2>3, <2>4, <2>5, <2>6
<1> QED
  BY <1>5, <1>6

-----------------------------------------------------------------------------
(* The virtual heap.                                                        *)

HInv ==
  /\ prmeminit \in BOOLEAN
  /\ ~ prmeminit => freelist = << >>
  /\ Whole(FreeList, MAXHSIZE)
  /\ Length = Cardinality(FreePages)
  /\ Bases(FreeList) \subseteq Marks
  /\ Page \ FreePages \subseteq Marks

\* The pages of the free list are those that its blocks cover.
LEMMA FreePagesCover == FreePages = Cover(FreeList)
  BY DEF FreePages, Cover, PagesOf, Run

\* At first there is no list, and all pages are free.
LEMMA HeapInit == VhInit => HInv /\ owned = {} /\ reply = << << >>, {} >>
<1> SUFFICES ASSUME VhInit PROVE HInv /\ owned = {} /\ reply = << << >>, {} >>
  OBVIOUS
<1>1. /\ prmeminit = FALSE /\ freelist = << >> /\ pralloc = {} /\ reply = << << >>, {} >>
      /\ MAXHSIZE \in Nat /\ MAXHSIZE > 0
  BY HeapAssumption DEF VhInit
<1>2. PICK r : r = [base |-> 0, len |-> MAXHSIZE]
  OBVIOUS
<1>3. FreeList = <<r>> /\ Length = MAXHSIZE /\ Marks = {0}
  BY <1>1, <1>2 DEF FreeList, Length, Marks, Block
<1>4. PICK L : L = <<r>>
  OBVIOUS
<1>5. r \in Blocks(MAXHSIZE) /\ r.base = 0 /\ r.len = MAXHSIZE
  BY <1>1, <1>2 DEF Blocks
<1>6. L \in Seq(Blocks(MAXHSIZE)) /\ Len(L) = 1 /\ L[1] = r
  BY <1>4, <1>5
<1>7. Whole(L, MAXHSIZE)
  BY <1>1, <1>5, <1>6 DEF Whole, Ordered
<1>8. Cover(L) = 0 .. MAXHSIZE - 1
  <2>1. \A p : p \in Cover(L) <=> p \in Int /\ \E x \in 1 .. Len(L) : L[x].base <= p /\ p < L[x].base + L[x].len
    BY <1>1, <1>6, InCover
  <2>3. \A x \in 1 .. Len(L) : L[x].base = 0 /\ L[x].len = MAXHSIZE
    BY <1>5, <1>6
  <2>4. 1 \in 1 .. Len(L)
    BY <1>6
  <2>2. \A p : p \in Cover(L) <=> p \in Int /\ 0 <= p /\ p < 0 + MAXHSIZE
    BY <2>1, <2>3, <2>4
  <2>5. \A p : p \in 0 .. MAXHSIZE - 1 <=> p \in Int /\ 0 <= p /\ p < 0 + MAXHSIZE
    BY <1>1
  <2> QED
    BY <2>2, <2>5
<1>9. Bases(L) = {0}
  BY <1>5, <1>6 DEF Bases
<1>10. FreePages = 0 .. MAXHSIZE - 1
  BY <1>3, <1>4, <1>8, FreePagesCover
<1>11. Cardinality(0 .. MAXHSIZE - 1) = MAXHSIZE
  BY <1>1, FS_Interval
<1> QED
  BY <1>1, <1>3, <1>4, <1>7, <1>9, <1>10, <1>11 DEF HInv, owned, Page

\* A call that fails leaves the heap as vmhinit makes it.
LEMMA HeapFails ==
  ASSUME HInv, NEW request, Fails(request)
  PROVE  HInv' /\ owned' = owned /\ reply' = <<request, {}>>
<1>1. FreeList' = FreeList /\ Length' = Length /\ Marks' = Marks /\ prmeminit'
  BY DEF Fails, FreeList, Length, Marks
<1>2. FreePages' = FreePages
  BY <1>1, FreePagesCover DEF FreePages
<1>3. Bases(FreeList)' = Bases(FreeList) /\ Whole(FreeList, MAXHSIZE)'
  BY <1>1 DEF Bases, HInv, Whole, Ordered
<1> QED
  BY <1>1, <1>2, <1>3 DEF HInv, owned, Fails

\* The runs of HeapSpec are the runs of pages that are free.
LEMMA FreeRunsAre ==
  ASSUME HInv, NEW m \in Nat
  PROVE  /\ FreePages \subseteq Page /\ IsFiniteSet(FreePages)
         /\ Allocator!FreeRuns(m) = {b \in Page : Run(b, m) \subseteq FreePages}
<1>1. FreePages \subseteq Page /\ IsFiniteSet(FreePages)
  BY HeapAssumption, CoverBelow, FreePagesCover DEF HInv, Whole, Page
<1>2. Page \ owned = FreePages
  BY <1>1 DEF owned
<1> QED
  BY <1>1, <1>2 DEF Allocator!FreeRuns, Allocator!Run, Allocator!Page, Run, Page

\* The number of pages left after m of them are taken.
LEMMA CountLess ==
  ASSUME NEW S, IsFiniteSet(S), NEW b \in Int, NEW m \in Nat, b .. b + m - 1 \subseteq S
  PROVE  Cardinality(S \ (b .. b + m - 1)) = Cardinality(S) - m
<1>1. Cardinality(b .. b + m - 1) = m
  BY FS_Interval
<1>2. S \cap (b .. b + m - 1) = b .. b + m - 1
  OBVIOUS
<1>3. Cardinality(S \ (b .. b + m - 1)) = Cardinality(S) - Cardinality(S \cap (b .. b + m - 1))
  BY FS_Difference
<1> QED
  BY <1>1, <1>2, <1>3

\* The number of pages after m of them are given back.
LEMMA CountMore ==
  ASSUME NEW S, IsFiniteSet(S), NEW b \in Int, NEW m \in Nat, S \cap (b .. b + m - 1) = {}
  PROVE  Cardinality(S \cup (b .. b + m - 1)) = Cardinality(S) + m
<1>1. Cardinality(b .. b + m - 1) = m /\ IsFiniteSet(b .. b + m - 1)
  BY FS_Interval
<1>2. Cardinality({}) = 0
  BY FS_EmptySet
<1>3. Cardinality(S \cup (b .. b + m - 1))
        = Cardinality(S) + Cardinality(b .. b + m - 1) - Cardinality(S \cap (b .. b + m - 1))
  BY <1>1, FS_Union
<1>4. Cardinality(S) \in Nat
  BY FS_CardinalityType
<1>5. Cardinality(S \cap (b .. b + m - 1)) = 0
  BY <1>2
<1> QED
  BY <1>1, <1>3, <1>4, <1>5

\* vmhgetmem takes a run of free pages, or fails for lack of one.
LEMMA HeapGets ==
  ASSUME HInv, NEW m \in 0 .. MAXHSIZE, vmhgetmem(m)
  PROVE  HInv' /\ (Allocator!Get(m) \/ Allocator!GetFails(m))
<1>1. CASE m = 0 \/ Length = 0 \/ Fits(m) = {}
  <2>1. Fails(<<m>>)
    BY <1>1 DEF vmhgetmem
  <2>2. HInv' /\ owned' = owned /\ reply' = << <<m>>, {} >>
    BY <2>1, HeapFails
  <2>3. ASSUME m # 0, Allocator!FreeRuns(m) # {} PROVE FALSE
    <3>1. PICK b \in Page : Run(b, m) \subseteq FreePages
      BY <2>3, FreeRunsAre
    <3>2. m > 0 /\ b .. b + m - 1 \subseteq Cover(FreeList) /\ b \in Int /\ m \in Int /\ MAXHSIZE \in Nat
      BY <2>3, <3>1, FreePagesCover, HeapAssumption DEF Run, Page
    <3>3. PICK L : L = FreeList
      OBVIOUS
    <3>4. Whole(L, MAXHSIZE)
      BY <3>3 DEF HInv
    <3>5. PICK x \in 1 .. Len(L) : L[x].base <= b /\ b + m <= L[x].base + L[x].len
      BY <3>2, <3>3, <3>4, RunInBlock
    <3>6. L[x].base \in Int /\ L[x].len \in Int
      BY <3>2, <3>4, BlockType DEF Whole, Ordered
    <3>7. x \in Fits(m)
      BY <3>2, <3>3, <3>5, <3>6 DEF Fits
    <3>8. Length = 0
      BY <1>1, <2>3, <3>7
    <3>9. FreePages = {}
      BY <3>8, FreeRunsAre, FS_EmptySet DEF HInv
    <3>10. b \in b .. b + m - 1
      BY <3>2
    <3> QED
      BY <3>2, <3>9, <3>10, FreePagesCover
  <2> QED
    BY <2>2, <2>3 DEF Allocator!GetFails
<1>2. CASE ~ (m = 0 \/ Length = 0 \/ Fits(m) = {})
  <2>1. PICK L : L = FreeList
    OBVIOUS
  <2>2. PICK i : i = First(Fits(m))
    OBVIOUS
  <2>3. Whole(L, MAXHSIZE) /\ MAXHSIZE \in Nat /\ m \in Int /\ m > 0 /\ m \in Nat
    BY <1>2, <2>1, HeapAssumption DEF HInv
  <2>4. L \in Seq(Blocks(MAXHSIZE))
    BY <2>3 DEF Whole, Ordered
  <2>5. i \in 1 .. Len(L) /\ L[i].len >= m
    <3>1. Fits(m) \subseteq 1 .. Len(L) /\ \A j \in Fits(m) : L[j].len >= m
      BY <2>1 DEF Fits
    <3>2. Fits(m) \subseteq Nat /\ Fits(m) # {}
      BY <1>2, <2>4, <3>1
    <3>3. \E x \in Fits(m) : \A y \in Fits(m) : x <= y
      BY <3>2, LeastNat
    <3>4. i \in Fits(m)
      BY <2>2, <3>3 DEF First
    <3> QED
      BY <3>1, <3>4
  <2>6. PICK b \in Int, l \in Int : b = L[i].base /\ l = L[i].len
    BY <2>3, <2>4, <2>5, BlockType
  <2>7. /\ freelist' = TakenLow(L, i, m)
        /\ prmeminit' = TRUE /\ mlength' = Length - m
        /\ pralloc' = Marks \cup Run(b, m) \cup LeftoverMark(L[i], m)
        /\ reply' = << <<m>>, Run(b, m) >>
    BY <1>2, <2>1, <2>2, <2>6 DEF vmhgetmem, TakenLow, Block
  <2>8. /\ Whole(freelist', MAXHSIZE)
        /\ b .. b + m - 1 \subseteq Cover(L)
        /\ Cover(freelist') = Cover(L) \ (b .. b + m - 1)
        /\ Bases(freelist') \subseteq Bases(L) \cup (IF l > m THEN {b + m} ELSE {})
    <3>1. Holds(L[i], m)
      BY <2>3, <2>5, <2>6 DEF Holds
    <3>2. /\ Whole(TakenLow(L, i, m), MAXHSIZE)
          /\ L[i].base .. L[i].base + m - 1 \subseteq Cover(L)
          /\ Cover(TakenLow(L, i, m)) = Cover(L) \ (L[i].base .. L[i].base + m - 1)
          /\ Bases(TakenLow(L, i, m)) \subseteq
               Bases(L) \cup (IF L[i].len > m THEN {L[i].base + m} ELSE {})
      BY <2>3, <2>5, <3>1, TakeLow
    <3> QED
      BY <2>6, <2>7, <3>2
  <2>9. FreeList' = freelist' /\ Length' = mlength' /\ Marks' = pralloc'
    BY <2>7 DEF FreeList, Length, Marks
  <2>10. FreePages = Cover(L) /\ FreePages' = FreePages \ Run(b, m)
    <3>1. FreePages' = Cover(FreeList)'
      BY DEF FreePages, Cover, PagesOf, Run
    <3>2. Cover(FreeList)' = Cover(freelist')
      BY <2>9 DEF Cover
    <3> QED
      BY <2>1, <2>8, <3>1, <3>2, FreePagesCover DEF Run
  <2>11. Run(b, m) = b .. b + m - 1
    BY DEF Run
  <2>12. FreePages \subseteq Page /\ IsFiniteSet(FreePages)
    BY <2>3, FreeRunsAre
  <2>13. Length' = Cardinality(FreePages')
    <3>1. b .. b + m - 1 \subseteq FreePages
      BY <2>8, <2>10
    <3>2. Cardinality(FreePages \ (b .. b + m - 1)) = Cardinality(FreePages) - m
      BY <2>3, <2>12, <3>1, CountLess
    <3> QED
      BY <2>7, <2>9, <2>10, <2>11, <3>2 DEF HInv
  <2>14. Bases(FreeList)' \subseteq Marks'
    <3>1. Bases(FreeList)' = Bases(freelist')
      BY <2>9 DEF Bases
    <3>2. LeftoverMark(L[i], m) = IF l > m THEN {b + m} ELSE {}
      BY <2>6 DEF LeftoverMark
    <3> QED
      BY <2>1, <2>7, <2>8, <2>9, <3>1, <3>2 DEF HInv
  <2>15. Page \ FreePages' \subseteq Marks'
    BY <2>7, <2>9, <2>10 DEF HInv
  <2>16. Whole(FreeList, MAXHSIZE)'
    BY <2>8, <2>9 DEF Whole, Ordered
  <2>17. HInv'
    BY <2>7, <2>13, <2>14, <2>15, <2>16 DEF HInv, Page
  <2>18. owned' = owned \cup Run(b, m)
    BY <2>8, <2>10, <2>11, <2>12 DEF owned, Page
  <2>19. b \in Page /\ b \in Allocator!FreeRuns(m)
    <3>1. b \in b .. b + m - 1
      BY <2>3, <2>6
    <3> QED
      BY <2>3, <2>8, <2>10, <2>11, <2>12, <3>1, FreeRunsAre
  <2>20. Allocator!Get(m)
    <3>1. Allocator!Run(b, m) = Run(b, m) /\ Allocator!Page = Page
      BY DEF Allocator!Run, Run, Allocator!Page, Page
    <3> QED
      BY <2>3, <2>7, <2>18, <2>19, <3>1 DEF Allocator!Get
  <2> QED
    BY <2>17, <2>20
<1> QED
  BY <1>1, <1>2

\* vmhfreemem gives back a run of pages that are held, or fails.
LEMMA HeapFrees ==
  ASSUME HInv, ~ Beyond, NEW b \in 0 .. MAXHSIZE, NEW m \in 0 .. MAXHSIZE, vmhfreemem(b, m)
  PROVE  HInv' /\ (Allocator!Return(b, m) \/ Allocator!ReturnFails(b, m))
<1>1. PICK L : L = FreeList
  OBVIOUS
<1>2. PICK k : k = Cardinality({i \in 1 .. Len(L) : L[i].base < b})
  OBVIOUS
<1>3. /\ Whole(L, MAXHSIZE) /\ MAXHSIZE \in Nat /\ MAXHSIZE > 0
      /\ m \in Int /\ m \in Nat /\ b \in Int /\ b >= 0
  BY <1>1, HeapAssumption DEF HInv
<1>4. /\ L \in Seq(Blocks(MAXHSIZE)) /\ Len(L) \in Nat
      /\ \A x, y \in 1 .. Len(L) : x < y => L[x].base + L[x].len < L[y].base
  BY <1>3 DEF Whole, Ordered
<1>5. \A x \in 1 .. Len(L) : L[x].base \in Int /\ L[x].len \in Int /\ L[x].len > 0
  BY <1>3, <1>4, BlockType
<1>6. Splits(L, k, b)
  BY <1>2, <1>3, FirstBlocks
<1>7. FreePages = Cover(L) /\ FreePages \subseteq Page /\ IsFiniteSet(FreePages) /\ owned = Page \ FreePages
  BY <1>1, <1>3, FreePagesCover, FreeRunsAre DEF owned
<1>8. Run(b, m) = b .. b + m - 1 /\ Allocator!Run(b, m) = Run(b, m)
  BY DEF Run, Allocator!Run
<1>9. Page \ FreePages \subseteq Marks /\ Bases(L) \subseteq Marks /\ Length = Cardinality(FreePages)
  BY <1>1 DEF HInv
<1>10. CASE m = 0 \/ (\E p \in Run(b, m) : ~ Marked(p)) \/ Overlaps(b, m, k)
  <2>1. Fails(<<b, m>>)
    BY <1>1, <1>2, <1>10 DEF vmhfreemem
  <2>2. HInv' /\ owned' = owned /\ reply' = << <<b, m>>, {} >>
    BY <2>1, HeapFails
  <2>3. ASSUME m # 0, Run(b, m) \subseteq owned PROVE FALSE
    <3>1. ASSUME NEW p \in Run(b, m) PROVE Marked(p)
      BY <1>7, <1>9, <2>3 DEF Marked
    <3>2. Overlaps(b, m, k)
      BY <1>10, <2>3, <3>1
    <3>3. Clash(L, k, b, m)
      BY <1>1, <3>2 DEF Overlaps, Clash
    <3>4. Run(b, m) \subseteq Page \ Cover(L) /\ ~ Misses(L, b, m)
      BY <1>3, <1>6, <1>7, <2>3, <3>3, ClashOrBetween
    <3> QED
      BY <1>8, <3>4 DEF Misses
  <2> QED
    BY <1>8, <2>2, <2>3 DEF Allocator!ReturnFails
<1>11. CASE ~ (m = 0 \/ (\E p \in Run(b, m) : ~ Marked(p)) \/ Overlaps(b, m, k))
  <2> DEFINE joined == k > 0 /\ L[k].base + L[k].len = b
  <2>1. m > 0 /\ \A p \in Run(b, m) : p \in Page /\ p \in Marks
    BY <1>3, <1>11 DEF Marked
  <2>3. /\ freelist' = Given(L, k, b, m)
        /\ prmeminit' = TRUE /\ mlength' = Length + m
        /\ pralloc' = Marks \ Unmarked(b, m, joined)
        /\ reply' = << <<b, m>>, Run(b, m) >>
    BY <1>1, <1>2, <1>11 DEF vmhfreemem, Given, Block
  <2>4. Between(L, k, b, m) /\ Cover(L) \cap (b .. b + m - 1) = {}
    <3>1. ~ Clash(L, k, b, m)
      BY <1>1, <1>11 DEF Overlaps, Clash
    <3> QED
      BY <1>3, <1>6, <2>1, <3>1, ClashOrBetween DEF Misses
  <2>5. b + m <= MAXHSIZE /\ Run(b, m) \subseteq Page
    <3>1. b + m - 1 \in Run(b, m)
      BY <1>3, <1>8, <2>1
    <3>2. b + m - 1 \in 0 .. MAXHSIZE - 1
      BY <2>1, <3>1 DEF Page
    <3> QED
      BY <1>3, <2>1, <3>2
  <2>6. /\ Whole(freelist', MAXHSIZE) /\ Cover(freelist') = Cover(L) \cup (b .. b + m - 1)
        /\ Bases(freelist') \subseteq Bases(L) \cup (IF joined THEN {} ELSE {b})
    BY <1>3, <2>1, <2>3, <2>4, <2>5, GiveBlock
  <2>8. FreeList' = freelist' /\ Length' = mlength' /\ Marks' = pralloc'
    BY <2>3 DEF FreeList, Length, Marks
  <2>9. FreePages' = FreePages \cup Run(b, m) /\ FreePages \cap Run(b, m) = {}
    <3>1. FreePages' = Cover(FreeList)'
      BY DEF FreePages, Cover, PagesOf, Run
    <3>2. Cover(FreeList)' = Cover(freelist')
      BY <2>8 DEF Cover
    <3> QED
      BY <1>7, <1>8, <2>4, <2>6, <3>1, <3>2
  <2>10. Length' = Cardinality(FreePages')
    <3>1. FreePages \cap (b .. b + m - 1) = {}
      BY <1>8, <2>9
    <3>2. Cardinality(FreePages \cup (b .. b + m - 1)) = Cardinality(FreePages) + m
      BY <1>3, <1>7, <3>1, CountMore
    <3> QED
      BY <1>8, <1>9, <2>3, <2>8, <2>9, <3>2
  <2>11. Marks' = Marks \ (IF joined THEN Run(b, m) ELSE Run(b, m) \ {b})
    BY <2>3, <2>8 DEF Unmarked
  <2>12. Bases(FreeList)' \subseteq Marks'
    <3>1. Bases(FreeList)' = Bases(freelist')
      BY <2>8 DEF Bases
    <3>2. Bases(L) \subseteq Cover(L)
      <4> SUFFICES ASSUME NEW x \in 1 .. Len(L) PROVE L[x].base \in Cover(L)
        BY DEF Bases
      <4>1. L[x].base <= L[x].base /\ L[x].base < L[x].base + L[x].len /\ L[x].base \in Int
        BY <1>5
      <4> QED
        BY <1>3, <1>4, <4>1, InCover
    <3>3. Bases(L) \cap Run(b, m) = {}
      BY <1>8, <2>4, <3>2
    <3>4. b \in Run(b, m)
      BY <1>3, <1>8, <2>1
    <3> HIDE DEF joined
    <3> QED
      BY <1>9, <2>1, <2>6, <2>11, <3>1, <3>3, <3>4
  <2>13. Page \ FreePages' \subseteq Marks'
    <3> HIDE DEF joined
    <3> QED
      BY <1>9, <2>9, <2>11
  <2>14. Whole(FreeList, MAXHSIZE)'
    BY <2>6, <2>8 DEF Whole, Ordered
  <2>15. HInv'
    BY <2>3, <2>10, <2>12, <2>13, <2>14 DEF HInv, Page
  <2>16. owned' = owned \ Run(b, m) /\ Run(b, m) \subseteq owned
    BY <1>7, <2>5, <2>9 DEF owned, Page
  <2> QED
    BY <1>8, <2>1, <2>3, <2>15, <2>16 DEF Allocator!Return
<1> QED
  BY <1>10, <1>11

\* Every call keeps the invariant and is a step of the allocator.
LEMMA HeapStep ==
  ASSUME HInv, ~ Beyond, [VhNext]_vhvars
  PROVE  HInv' /\ [Allocator!Next]_<<owned, reply>>
<1>1. ASSUME NEW m \in 0 .. MAXHSIZE, vmhgetmem(m)
      PROVE  HInv' /\ [Allocator!Next]_<<owned, reply>>
  BY <1>1, HeapGets DEF Allocator!Next
<1>2. ASSUME NEW m \in 0 .. MAXHSIZE, NEW b \in 0 .. MAXHSIZE, vmhfreemem(b, m)
      PROVE  HInv' /\ [Allocator!Next]_<<owned, reply>>
  BY <1>2, HeapFrees DEF Allocator!Next
<1>3. CASE UNCHANGED vhvars
  <2>1. UNCHANGED <<prmeminit, mlength, freelist, pralloc, reply>>
    BY <1>3 DEF vhvars
  <2>2. FreeList' = FreeList /\ Length' = Length /\ Marks' = Marks
    BY <2>1 DEF FreeList, Length, Marks
  <2>3. FreePages' = FreePages
    BY <2>2 DEF FreePages
  <2>4. Whole(FreeList, MAXHSIZE)' <=> Whole(FreeList, MAXHSIZE)
    BY <2>2 DEF Whole, Ordered
  <2>5. Bases(FreeList)' = Bases(FreeList)
    BY <2>2 DEF Bases
  <2> QED
    BY <2>1, <2>2, <2>3, <2>4, <2>5 DEF HInv, owned, Page
<1> QED
  BY <1>1, <1>2, <1>3 DEF VhNext

\* The invariant says what HeapSound says.
LEMMA HeapInvSound == HInv => HeapSound
<1> SUFFICES ASSUME HInv PROVE HeapSound
  OBVIOUS
<1>1. MAXHSIZE \in Nat /\ (~ prmeminit => freelist = << >>)
  BY HeapAssumption DEF HInv
<1>2. CASE ~ prmeminit
  BY <1>1, <1>2 DEF HeapSound, FreeListSound, NoSegFault
<1>3. CASE prmeminit
  <2>1. FreeList = freelist /\ Length = mlength /\ Marks = pralloc
    BY <1>3 DEF FreeList, Length, Marks
  <2>2. /\ Whole(freelist, MAXHSIZE) /\ mlength = Cardinality(FreePages)
        /\ Bases(freelist) \subseteq pralloc /\ Page \ FreePages \subseteq pralloc
    BY <2>1 DEF HInv
  <2>3. /\ freelist \in Seq(Blocks(MAXHSIZE))
        /\ \A x \in 1 .. Len(freelist) : freelist[x].base + freelist[x].len <= MAXHSIZE
        /\ \A x, y \in 1 .. Len(freelist) :
             x < y => freelist[x].base + freelist[x].len < freelist[y].base
    BY <2>2 DEF Whole, Ordered
  <2>4. ASSUME NEW i \in 1 .. Len(freelist)
        PROVE  freelist[i] \in [base : Page, len : 1 .. MAXHSIZE] /\ PagesOf(freelist[i]) \subseteq Page
    <3>1. freelist[i] \in Blocks(MAXHSIZE) /\ freelist[i].base \in 0 .. MAXHSIZE - 1
          /\ freelist[i].len \in 1 .. MAXHSIZE
      BY <1>1, <2>3, BlockType
    <3>2. PICK c \in Int, l \in Int : c = freelist[i].base /\ l = freelist[i].len
      BY <3>1
    <3>3. c >= 0 /\ c + l <= MAXHSIZE
      BY <1>1, <2>3, <3>1, <3>2
    <3>4. c .. c + l - 1 \subseteq 0 .. MAXHSIZE - 1
      BY <1>1, <3>3
    <3> QED
      BY <3>1, <3>2, <3>4 DEF Blocks, Page, PagesOf, Run
  <2>5. FreeListSound
    BY <2>2, <2>3, <2>4 DEF FreeListSound
  <2>6. NoSegFault
    BY <2>2 DEF NoSegFault, Bases
  <2> QED
    BY <2>5, <2>6 DEF HeapSound
<1> QED
  BY <1>2, <1>3

\* The free list of a virtual heap is whole and its nodes lie in pages that are
\* marked, whatever is requested and returned (vmhgetmem.c, vmhfreemem.c), if
\* the byte behind pralloc is 0.
THEOREM HeapStaysSound == ~ Beyond => (VhSpec => []HeapSound)
<1> SUFFICES ASSUME ~ Beyond PROVE VhSpec => []HeapSound
  OBVIOUS
<1>1. VhInit => HInv
  BY HeapInit
<1>2. HInv /\ [VhNext]_vhvars => HInv'
  BY HeapStep
<1>3. HInv => HeapSound
  BY HeapInvSound
<1> QED
  BY <1>1, <1>2, <1>3, PTL DEF VhSpec

\* Under the same condition the virtual heap keeps the promises of HeapSpec:
\* no page is handed out twice, a request fails only when no run of free pages
\* is long enough, and what is held can be returned, whole or in parts.
THEOREM HeapImplementation == ~ Beyond => (VhSpec => ImplementsHeap)
<1> SUFFICES ASSUME ~ Beyond PROVE VhSpec => ImplementsHeap
  OBVIOUS
<1>1. VhInit => HInv /\ Allocator!Init
  BY HeapInit DEF Allocator!Init
<1>2. HInv /\ [VhNext]_vhvars => HInv' /\ [Allocator!Next]_<<owned, reply>>
  BY HeapStep
<1> QED
  BY <1>1, <1>2, PTL DEF VhSpec, ImplementsHeap, Allocator!Spec
-----------------------------------------------------------------------------
(* Kernel memory.                                                           *)

TakenHigh(L, i, n) ==
  IF L[i].len = n THEN RemoveAt(L, i) ELSE [L EXCEPT ![i].len = @ - n]

\* Where the last n pages of a block begin.
TopAt(x, n) == x.base + x.len - n

\* A list gives up n pages at the high end of a block.
LEMMA TakeHigh ==
  ASSUME NEW N \in Nat, NEW L, Whole(L, N), NEW i \in 1 .. Len(L), NEW n \in Int,
         NEW c \in Int, Holds(L[i], n), c = TopAt(L[i], n)
  PROVE  /\ Whole(TakenHigh(L, i, n), N)
         /\ c .. c + n - 1 \subseteq Cover(L)
         /\ Cover(TakenHigh(L, i, n)) = Cover(L) \ (c .. c + n - 1)
<1>0. n > 0 /\ n <= L[i].len
  BY DEF Holds
<1>1. L \in Seq(Blocks(N))
  BY DEF Whole, Ordered
<1>2. PICK b \in Int, l \in Int : b = L[i].base /\ l = L[i].len
  BY <1>1, BlockType
<1>3. b .. b + l - 1 \subseteq Cover(L)
  BY <1>2 DEF Cover
<1>4. c = b + l - n /\ n <= l /\ n > 0
  BY <1>0, <1>2 DEF TopAt
<1>5. c .. c + n - 1 \subseteq Cover(L)
  BY <1>3, <1>4
<1>6. CASE l = n
  <2>1. c .. c + n - 1 = b .. b + l - 1
    BY <1>4, <1>6
  <2> QED
    BY <1>2, <1>5, <1>6, <2>1, DropBlock DEF TakenHigh
<1>7. CASE l # n
  <2>1. PICK m \in Int : m = l - n
    BY <1>2
  <2>2. PICK M : M = CutTo(L, i, b, m)
    OBVIOUS
  <2>3. m > 0 /\ b + m <= b + l /\ c = b + m /\ c + n = b + l
    BY <1>4, <1>7, <2>1
  <2>4. Within(b, m, L[i])
    BY <1>2, <2>3 DEF Within
  <2>5. /\ Whole(M, N)
        /\ Cover(M) = (Cover(L) \ (L[i].base .. L[i].base + L[i].len - 1)) \cup (b .. b + m - 1)
    BY <2>2, <2>4, CutBlock DEF WasCut
  <2>6. TakenHigh(L, i, n) = M
    <3>1. PICK q : q = L[i]
      OBVIOUS
    <3>2. q \in Blocks(N)
      BY <1>1, <3>1, BlockType
    <3>3. [q EXCEPT !.len = @ - n] = [base |-> b, len |-> m]
      BY <1>2, <2>1, <3>1, <3>2 DEF Blocks
    <3>4. TakenHigh(L, i, n) = [L EXCEPT ![i] = [q EXCEPT !.len = @ - n]]
      BY <1>2, <1>7, <3>1 DEF TakenHigh
    <3> QED
      BY <2>2, <3>3, <3>4 DEF CutTo
  <2>7. (Cover(L) \ (b .. b + l - 1)) \cup (b .. b + m - 1) = Cover(L) \ (c .. c + n - 1)
    <3>1. \A p : p \in b .. b + l - 1 <=> p \in c .. c + n - 1 \/ p \in b .. b + m - 1
      BY <2>3
    <3>2. \A p : ~ (p \in c .. c + n - 1 /\ p \in b .. b + m - 1)
      BY <2>3
    <3> QED
      BY <1>3, <3>1, <3>2
  <2> QED
    BY <1>2, <1>5, <2>5, <2>6, <2>7
<1> QED
  BY <1>6, <1>7

MList == Whole(memlist, HEAP)

\* What a request for memory, or its return, does to the free units.
Failed(request, cond) ==
  cond /\ answer' = <<request, {}>> /\ memlist' = memlist /\ FreeUnits' = FreeUnits

GotUnits(n) == n > 0 /\ \E b \in Units :
  /\ Extent(b, n) \subseteq FreeUnits
  /\ answer' = << <<n>>, Extent(b, n) >>
  /\ FreeUnits' = FreeUnits \ Extent(b, n)

GaveBack(b, n) ==
  /\ n > 0 /\ Extent(b, n) \subseteq Units /\ Extent(b, n) \cap FreeUnits = {}
  /\ answer' = << <<b, n>>, Extent(b, n) >>
  /\ FreeUnits' = FreeUnits \cup Extent(b, n)

NoRun(n) == n = 0 \/ \A b \in Units : ~ (Extent(b, n) \subseteq FreeUnits)

\* The free units are those that the list covers.
LEMMA FreeUnitsCover ==
  ASSUME MList
  PROVE  /\ FreeUnits = Cover(memlist) /\ FreeUnits \subseteq Units
         /\ memlist \in Seq(Blocks(HEAP)) /\ HEAP \in Nat
<1>1. memlist \in Seq(Blocks(HEAP)) /\ HEAP \in Nat
  BY MemoryAssumption DEF MList, Whole, Ordered
<1>2. DOMAIN memlist = 1 .. Len(memlist)
  BY <1>1
<1>3. FreeUnits = Cover(memlist)
  BY <1>2 DEF FreeUnits, Cover, Extent
<1>4. Cover(memlist) \subseteq 0 .. HEAP - 1
  BY <1>1, CoverBelow DEF MList, Whole
<1> QED
  BY <1>1, <1>3, <1>4 DEF Units

\* Without a large enough block there is no large enough run.
LEMMA NoFit ==
  ASSUME MList, NEW n \in 0 .. HEAP, n = 0 \/ FitsMem(n) = {}
  PROVE  NoRun(n)
<1> SUFFICES ASSUME n # 0, NEW b \in Units, Extent(b, n) \subseteq FreeUnits PROVE FALSE
  BY DEF NoRun
<1>1. n > 0 /\ n \in Int /\ b \in Int /\ HEAP \in Nat /\ b .. b + n - 1 \subseteq Cover(memlist)
  BY FreeUnitsCover DEF Units, Extent
<1>2. PICK x \in 1 .. Len(memlist) :
        memlist[x].base <= b /\ b + n <= memlist[x].base + memlist[x].len
  BY <1>1, RunInBlock DEF MList
<1>3. memlist[x].base \in Int /\ memlist[x].len \in Int /\ x \in DOMAIN memlist
  BY FreeUnitsCover, BlockType
<1>4. x \in FitsMem(n)
  BY <1>1, <1>2, <1>3 DEF FitsMem
<1> QED
  BY <1>1, <1>4

\* The free list gives up n units of block i that begin at b.
Cuts(i, b, n) == \/ b = memlist[i].base /\ memlist' = TakenLow(memlist, i, n)
                 \/ b = TopAt(memlist[i], n) /\ memlist' = TakenHigh(memlist, i, n)

\* getmem and getstk take a run of free units, or fail for lack of one.
LEMMA MemGets ==
  ASSUME MList, NEW n \in 0 .. HEAP, getmem(n) \/ getstk(n)
  PROVE  MList' /\ (GotUnits(n) \/ Failed(<<n>>, NoRun(n)))
<1>1. CASE n = 0 \/ FitsMem(n) = {}
  <2>1. answer' = << <<n>>, {} >> /\ memlist' = memlist
    BY <1>1 DEF getmem, getstk, Fail, Answers
  <2> QED
    BY <1>1, <2>1, NoFit DEF MList, Whole, Ordered, Failed, FreeUnits
<1>2. CASE ~ (n = 0 \/ FitsMem(n) = {})
  <2>1. /\ n > 0 /\ n \in Nat /\ HEAP \in Nat
        /\ memlist \in Seq(Blocks(HEAP)) /\ FreeUnits = Cover(memlist) /\ FreeUnits \subseteq Units
    BY <1>2, FreeUnitsCover
  <2>2. FitsMem(n) \subseteq 1 .. Len(memlist) /\ \A j \in FitsMem(n) : memlist[j].len >= n
    BY <2>1 DEF FitsMem
  <2>3. FitsMem(n) # {} /\ FitsMem(n) \subseteq Nat
    BY <1>2, <2>2
  <2>4. ASSUME NEW i \in FitsMem(n), NEW b, Cuts(i, b, n), answer' = << <<n>>, Extent(b, n) >>
        PROVE  MList' /\ GotUnits(n)
    <3>1. i \in 1 .. Len(memlist) /\ memlist[i].len >= n
      BY <2>2
    <3>2. b \in Int
      BY <2>1, <2>4, <3>1, BlockType DEF TopAt, Cuts
    <3>3. Whole(memlist', HEAP) /\ b .. b + n - 1 \subseteq Cover(memlist)
          /\ Cover(memlist') = Cover(memlist) \ (b .. b + n - 1)
      <4>1. Whole(memlist, HEAP) /\ n \in Int /\ Holds(memlist[i], n)
        <5>1. memlist[i].len \in Int
          BY <2>1, <3>1, BlockType
        <5> QED
          BY <2>1, <3>1, <5>1 DEF MList, Holds
      <4>2. CASE b = memlist[i].base /\ memlist' = TakenLow(memlist, i, n)
        <5>1. PICK L : L = memlist
          OBVIOUS
        <5>2. /\ Whole(TakenLow(L, i, n), HEAP)
              /\ L[i].base .. L[i].base + n - 1 \subseteq Cover(L)
              /\ Cover(TakenLow(L, i, n)) = Cover(L) \ (L[i].base .. L[i].base + n - 1)
          BY <2>1, <3>1, <4>1, <5>1, TakeLow
        <5> QED
          BY <4>2, <5>1, <5>2
      <4>3. CASE b = TopAt(memlist[i], n) /\ memlist' = TakenHigh(memlist, i, n)
        <5>1. PICK L : L = memlist
          OBVIOUS
        <5>2. /\ Whole(TakenHigh(L, i, n), HEAP)
              /\ b .. b + n - 1 \subseteq Cover(L)
              /\ Cover(TakenHigh(L, i, n)) = Cover(L) \ (b .. b + n - 1)
          BY <2>1, <3>1, <3>2, <4>1, <4>3, <5>1, TakeHigh
        <5> QED
          BY <4>3, <5>1, <5>2
      <4> QED
        BY <2>4, <4>2, <4>3 DEF Cuts
    <3>4. MList'
      BY <3>3 DEF MList, Whole, Ordered
    <3>5. FreeUnits' = Cover(memlist')
      <4>1. memlist' \in Seq(Blocks(HEAP))
        BY <3>3 DEF Whole, Ordered
      <4>2. DOMAIN memlist' = 1 .. Len(memlist')
        BY <4>1
      <4> QED
        BY <4>2 DEF FreeUnits, Cover, Extent
    <3>6. b \in b .. b + n - 1
      BY <2>1, <3>2
    <3> QED
      BY <2>1, <2>4, <3>3, <3>4, <3>5, <3>6 DEF GotUnits, Extent
  <2>5. CASE getmem(n)
    <3>1. \E x \in FitsMem(n) : \A y \in FitsMem(n) : x <= y
      BY <2>3, LeastNat
    <3>2. PICK i : i = Min(FitsMem(n))
      OBVIOUS
    <3>3. i \in FitsMem(n)
      BY <3>1, <3>2 DEF Min
    <3>4. memlist' = TakenLow(memlist, i, n) /\ answer' = << <<n>>, Extent(memlist[i].base, n) >>
      BY <1>2, <2>5, <3>2 DEF getmem, TakenLow, Without, Blk, Answers
    <3>5. PICK b : b = memlist[i].base
      OBVIOUS
    <3>6. answer' = << <<n>>, Extent(b, n) >> /\ Cuts(i, b, n)
      BY <3>4, <3>5 DEF Cuts
    <3> QED
      BY <2>4, <3>3, <3>6
  <2>6. CASE getstk(n)
    <3> DEFINE N == Len(memlist)
               T == {N - x : x \in FitsMem(n)}
    <3>1. N \in Nat /\ T \subseteq Nat /\ T # {}
      BY <2>1, <2>2, <2>3
    <3>2. PICK t \in T : \A y \in T : t <= y
      BY <3>1, LeastNat
    <3>3. PICK z \in FitsMem(n) : t = N - z
      BY <3>2
    <3>4. ASSUME NEW y \in FitsMem(n) PROVE z >= y
      <4>1. t <= N - y
        BY <3>2
      <4> QED
        BY <2>2, <3>1, <3>3, <4>1
    <3>5. PICK i : i = Max(FitsMem(n))
      OBVIOUS
    <3>6. i \in FitsMem(n)
      BY <3>4, <3>5 DEF Max
    <3>7. /\ memlist' = TakenHigh(memlist, i, n)
          /\ answer' = << <<n>>, Extent(TopAt(memlist[i], n), n) >>
      BY <1>2, <2>6, <3>5 DEF getstk, TakenHigh, Without, Answers, TopAt
    <3>8. PICK b : b = TopAt(memlist[i], n)
      OBVIOUS
    <3>9. answer' = << <<n>>, Extent(b, n) >> /\ Cuts(i, b, n)
      BY <3>7, <3>8 DEF Cuts
    <3> QED
      BY <2>4, <3>6, <3>9
  <2> QED
    BY <2>5, <2>6
<1> QED
  BY <1>1, <1>2
\* freemem gives back a run of which no unit is free, or fails.
LEMMA MemFrees ==
  ASSUME MList, NEW b \in Units, NEW n \in 0 .. HEAP, Extent(b, n) \subseteq Units, freemem(b, n)
  PROVE  MList' /\ (GaveBack(b, n) \/ Failed(<<b, n>>, n = 0 \/ ~ (Extent(b, n) \subseteq inuse)))
<1>1. PICK k : k = Before(b)
  OBVIOUS
<1>2. /\ memlist \in Seq(Blocks(HEAP)) /\ FreeUnits = Cover(memlist) /\ FreeUnits \subseteq Units
      /\ HEAP \in Nat /\ n \in Int /\ n \in Nat /\ b \in Int /\ b >= 0
  BY FreeUnitsCover DEF Units
<1>3. Splits(memlist, k, b)
  <2>1. k = Cardinality({i \in 1 .. Len(memlist) : memlist[i].base < b})
    <3>1. DOMAIN memlist = 1 .. Len(memlist)
      BY <1>2
    <3> QED
      BY <1>1, <3>1 DEF Before
  <2> QED
    BY <1>2, <2>1, FirstBlocks DEF MList
<1>4. Touches(b, n, k) <=> Clash(memlist, k, b, n)
  BY DEF Touches, Clash
<1>5. Extent(b, n) = b .. b + n - 1
  BY DEF Extent
<1>6. CASE n = 0 \/ Touches(b, n, k)
  <2>1. answer' = << <<b, n>>, {} >> /\ memlist' = memlist
    BY <1>1, <1>6 DEF freemem, Fail, Answers
  <2>2. n = 0 \/ ~ (Extent(b, n) \subseteq inuse)
    <3> SUFFICES ASSUME n # 0 PROVE ~ (Extent(b, n) \subseteq inuse)
      OBVIOUS
    <3>1. ~ Misses(memlist, b, n)
      BY <1>2, <1>3, <1>4, <1>6, ClashOrBetween DEF MList
    <3> QED
      BY <1>2, <1>5, <3>1 DEF Misses, inuse
  <2> QED
    BY <2>1, <2>2 DEF MList, Whole, Ordered, Failed, FreeUnits
<1>7. CASE ~ (n = 0 \/ Touches(b, n, k))
  <2>1. memlist' = Given(memlist, k, b, n) /\ answer' = << <<b, n>>, Extent(b, n) >>
    BY <1>1, <1>7 DEF freemem, Given, Join, JoinNext, Blk, Answers
  <2>2. n > 0 /\ Between(memlist, k, b, n) /\ Misses(memlist, b, n)
    BY <1>2, <1>3, <1>4, <1>7, ClashOrBetween DEF MList
  <2>3. b + n <= HEAP
    <3>1. b + n - 1 \in Extent(b, n)
      BY <1>2, <1>5, <2>2
    <3>2. b + n - 1 \in 0 .. HEAP - 1
      BY <3>1 DEF Units
    <3> QED
      BY <1>2, <3>2
  <2>4. Whole(memlist', HEAP) /\ Cover(memlist') = Cover(memlist) \cup (b .. b + n - 1)
    BY <1>2, <2>1, <2>2, <2>3, GiveBlock DEF MList
  <2>5. MList'
    BY <2>4 DEF MList, Whole, Ordered
  <2>6. FreeUnits' = Cover(memlist')
    <3>1. memlist' \in Seq(Blocks(HEAP))
      BY <2>4 DEF Whole, Ordered
    <3>2. DOMAIN memlist' = 1 .. Len(memlist')
      BY <3>1
    <3> QED
      BY <3>2 DEF FreeUnits, Cover, Extent
  <2>7. GaveBack(b, n)
    BY <1>2, <1>5, <2>1, <2>2, <2>4, <2>6 DEF GaveBack, Misses
  <2> QED
    BY <2>5, <2>7
<1> QED
  BY <1>6, <1>7

\* What the four outcomes are for HeapSpec.
LEMMA MemMaps ==
  ASSUME MList
  PROVE  /\ \A n \in 0 .. HEAP : GotUnits(n) => Heap!Get(n)
         /\ \A n \in 0 .. HEAP : Failed(<<n>>, NoRun(n)) => Heap!GetFails(n)
         /\ \A b \in Units, n \in 0 .. HEAP : GaveBack(b, n) => Heap!Return(b, n)
         /\ \A b \in Units, n \in 0 .. HEAP :
              Failed(<<b, n>>, n = 0 \/ ~ (Extent(b, n) \subseteq inuse)) => Heap!ReturnFails(b, n)
<1>1. Heap!Page = Units /\ FreeUnits \subseteq Units
  BY FreeUnitsCover DEF Heap!Page, Units
<1>2. \A b, n : Heap!Run(b, n) = Extent(b, n)
  BY DEF Heap!Run, Extent
<1>3. Units \ inuse = FreeUnits
  BY <1>1 DEF inuse
<1>4. \A n : Heap!FreeRuns(n) = {b \in Units : Extent(b, n) \subseteq FreeUnits}
  BY <1>1, <1>2, <1>3 DEF Heap!FreeRuns
<1>5. inuse' = Units \ FreeUnits'
  BY DEF inuse, Units
<1>6. ASSUME NEW n \in 0 .. HEAP, GotUnits(n) PROVE Heap!Get(n)
  <2>1. PICK b \in Units : /\ Extent(b, n) \subseteq FreeUnits
                           /\ answer' = << <<n>>, Extent(b, n) >>
                           /\ FreeUnits' = FreeUnits \ Extent(b, n)
    BY <1>6 DEF GotUnits
  <2>2. inuse' = inuse \cup Extent(b, n)
    BY <1>1, <1>5, <2>1 DEF inuse
  <2>3. b \in Heap!FreeRuns(n)
    BY <1>4, <2>1
  <2>4. n > 0
    BY <1>6 DEF GotUnits
  <2> QED
    BY <1>1, <1>2, <2>1, <2>2, <2>3, <2>4 DEF Heap!Get
<1>7. ASSUME NEW n \in 0 .. HEAP, Failed(<<n>>, NoRun(n)) PROVE Heap!GetFails(n)
  <2>1. inuse' = inuse
    BY <1>5, <1>7 DEF Failed, inuse
  <2>2. n = 0 \/ Heap!FreeRuns(n) = {}
    BY <1>4, <1>7 DEF Failed, NoRun
  <2> QED
    BY <1>7, <2>1, <2>2 DEF Failed, Heap!GetFails
<1>8. ASSUME NEW b \in Units, NEW n \in 0 .. HEAP, GaveBack(b, n) PROVE Heap!Return(b, n)
  <2>1. inuse' = inuse \ Extent(b, n) /\ Extent(b, n) \subseteq inuse
    BY <1>5, <1>8 DEF GaveBack, inuse
  <2> QED
    BY <1>2, <1>8, <2>1 DEF GaveBack, Heap!Return
<1>9. ASSUME NEW b \in Units, NEW n \in 0 .. HEAP,
             Failed(<<b, n>>, n = 0 \/ ~ (Extent(b, n) \subseteq inuse))
      PROVE  Heap!ReturnFails(b, n)
  <2>1. inuse' = inuse
    BY <1>5, <1>9 DEF Failed, inuse
  <2> QED
    BY <1>2, <1>9, <2>1 DEF Failed, Heap!ReturnFails
<1> QED
  BY <1>6, <1>7, <1>8, <1>9

\* What a step does to the free units, whoever takes it.
MemMoves ==
  \/ \E n \in 0 .. HEAP : (GotUnits(n) \/ Failed(<<n>>, NoRun(n))) /\ UNCHANGED <<buftab, bufs, getting>>
  \/ \E b \in Units, n \in 0 .. HEAP :
       /\ GaveBack(b, n) \/ Failed(<<b, n>>, n = 0 \/ ~ (Extent(b, n) \subseteq inuse))
       /\ Extent(b, n) \cap PoolMemory = {}
       /\ UNCHANGED <<buftab, bufs, getting>>
  \/ \E n \in 1 .. HEAP : mkbufpool(n) /\ (GotUnits(n) \/ Failed(<<n>>, NoRun(n)))
  \/ /\ UNCHANGED <<memlist, answer, FreeUnits>>
     /\ \/ UNCHANGED <<buftab, bufs, getting>>
        \/ \E p \in Procs : \/ Unlinks(p)
                             \/ \E i \in DOMAIN buftab : \/ getbuf(p, i)
                                                         \/ \E b \in bufs[p] \cap buftab[i].all : freebuf(p, b, i)

\* Every call keeps the list whole and moves units as MemMoves says.
LEMMA MemStep ==
  ASSUME MList, [MemNext]_memvars
  PROVE  MList' /\ MemMoves
<1>1. ASSUME NEW n \in 0 .. HEAP, getmem(n) \/ getstk(n), UNCHANGED <<buftab, bufs, getting>>
      PROVE  MList' /\ MemMoves
  BY <1>1, MemGets DEF MemMoves
<1>2. ASSUME NEW b \in Units, NEW n \in 0 .. HEAP, FreesMemory(b, n), UNCHANGED <<buftab, bufs, getting>>
      PROVE  MList' /\ MemMoves
  <2>1. Extent(b, n) \subseteq Units /\ Extent(b, n) \cap PoolMemory = {} /\ freemem(b, n)
    BY <1>2 DEF FreesMemory
  <2> QED
    BY <1>2, <2>1, MemFrees DEF MemMoves
<1>3. ASSUME NEW n \in 1 .. HEAP, mkbufpool(n)
      PROVE  MList' /\ MemMoves
  <2>1. n \in 0 .. HEAP /\ getmem(n)
    BY <1>3, MemoryAssumption DEF mkbufpool
  <2> QED
    BY <1>3, <2>1, MemGets DEF MemMoves
<1>4. ASSUME UNCHANGED <<memlist, answer>>
      PROVE  MList' /\ UNCHANGED <<memlist, answer, FreeUnits>>
  BY <1>4 DEF MList, Whole, Ordered, FreeUnits
<1>5. ASSUME NEW p \in Procs, Unlinks(p) PROVE MList' /\ MemMoves
  <2>1. UNCHANGED <<memlist, answer>>
    BY <1>5 DEF Unlinks
  <2> QED
    BY <1>4, <1>5, <2>1 DEF MemMoves
<1>6. ASSUME NEW p \in Procs, NEW i \in DOMAIN buftab,
             getbuf(p, i) \/ \E b \in bufs[p] \cap buftab[i].all : freebuf(p, b, i)
      PROVE  MList' /\ MemMoves
  <2>1. UNCHANGED <<memlist, answer>>
    BY <1>6 DEF getbuf, freebuf
  <2> QED
    BY <1>4, <1>6, <2>1 DEF MemMoves
<1>7. CASE UNCHANGED memvars
  <2>1. UNCHANGED <<memlist, answer>> /\ UNCHANGED <<buftab, bufs, getting>>
    BY <1>7 DEF memvars
  <2> QED
    BY <1>4, <2>1 DEF MemMoves
<1> QED
  BY <1>1, <1>2, <1>3, <1>5, <1>6, <1>7 DEF MemNext

\* At first the whole heap is free.
LEMMA MemInit == meminit => MList /\ FreeUnits = Units /\ inuse = {} /\ answer = << << >>, {} >>
<1> SUFFICES ASSUME meminit PROVE MList /\ FreeUnits = Units /\ inuse = {} /\ answer = << << >>, {} >>
  OBVIOUS
<1>1. PICK x : x = [base |-> 0, len |-> HEAP]
  OBVIOUS
<1>2. memlist = <<x>> /\ answer = << << >>, {} >>
  BY <1>1 DEF meminit, Blk
<1>3. HEAP \in Nat /\ HEAP > 0 /\ x \in Blocks(HEAP) /\ x.base = 0 /\ x.len = HEAP
  BY <1>1, MemoryAssumption DEF Blocks
<1>4. /\ memlist \in Seq(Blocks(HEAP)) /\ Len(memlist) = 1
      /\ \A j \in 1 .. Len(memlist) : j = 1 /\ memlist[j] = x
  BY <1>2, <1>3
<1>5. MList
  <2>1. \A j \in 1 .. Len(memlist) : memlist[j].base + memlist[j].len <= HEAP
    BY <1>3, <1>4
  <2>2. \A j, y \in 1 .. Len(memlist) : ~ (j < y)
    BY <1>4
  <2> QED
    BY <1>4, <2>1, <2>2 DEF MList, Whole, Ordered
<1>6. Cover(memlist) = Units
  <2>1. 1 \in 1 .. Len(memlist) /\ memlist[1] = x
    BY <1>4
  <2>2. ASSUME NEW q PROVE q \in Cover(memlist) <=> q \in x.base .. x.base + x.len - 1
    BY <1>4, <2>1 DEF Cover
  <2>3. x.base .. x.base + x.len - 1 = Units
    BY <1>3 DEF Units
  <2> QED
    BY <2>2, <2>3
<1> QED
  BY <1>2, <1>5, <1>6, FreeUnitsCover DEF inuse

\* Such a move is a step of the allocator of HeapSpec, or none.
LEMMA MemRefines ==
  ASSUME MList, MemMoves
  PROVE  [Heap!Next]_<<inuse, answer>>
<1>1. ASSUME NEW n \in 0 .. HEAP, GotUnits(n) \/ Failed(<<n>>, NoRun(n))
      PROVE  Heap!Next
  BY <1>1, MemMaps DEF Heap!Next
<1>2. ASSUME NEW b \in Units, NEW n \in 0 .. HEAP,
             GaveBack(b, n) \/ Failed(<<b, n>>, n = 0 \/ ~ (Extent(b, n) \subseteq inuse))
      PROVE  Heap!Next
  <2>1. b \in 0 .. HEAP
    BY MemoryAssumption DEF Units
  <2> QED
    BY <1>2, <2>1, MemMaps DEF Heap!Next
<1>3. ASSUME NEW n \in 1 .. HEAP PROVE n \in 0 .. HEAP
  BY MemoryAssumption
<1>4. ASSUME UNCHANGED <<answer, FreeUnits>> PROVE UNCHANGED <<inuse, answer>>
  BY <1>4 DEF inuse, Units
<1> QED
  BY <1>1, <1>2, <1>3, <1>4 DEF MemMoves

\* Kernel memory keeps the promises of HeapSpec (getmem.c, getstk.c, freemem.c,
\* mkbufpool.c): no unit is handed out twice, a request fails only when no run
\* of free units is long enough, and freemem takes back what is in use and
\* refuses the rest.
THEOREM MemoryImplementation == MemSpec => ImplementsMemory
<1>1. meminit => MList /\ Heap!Init
  BY MemInit DEF Heap!Init
<1>2. MList /\ [MemNext]_memvars => MList' /\ [Heap!Next]_<<inuse, answer>>
  BY MemStep, MemRefines
<1> QED
  BY <1>1, <1>2, PTL DEF MemSpec, ImplementsMemory, Heap!Spec
-----------------------------------------------------------------------------
(* Buffer pools.                                                            *)

Pool == [count : Int, queue : Seq(Procs), all : SUBSET Units, free : Seq(Units)]
Getters(i) == {p \in Procs : getting[p] = i}
Held == UNION {bufs[p] : p \in Procs}

PoolTypes == /\ buftab \in Seq(Pool)
             /\ bufs \in [Procs -> SUBSET Units]
             /\ getting \in [Procs -> Int]
             /\ \A p \in Procs : getting[p] # -1 => getting[p] \in 1 .. Len(buftab)

\* The list of free buffers, who waits and the count of a pool, G being the
\* processes in its getbuf.  Who waits is one of them, and as many wait as the
\* count says, so a buffer is left for whoever does not.
FreeSound(e) == NoRepeats(e.free) /\ Members(e.free) \subseteq e.all
QueueSound(e, G) ==
  /\ NoRepeats(e.queue) /\ Members(e.queue) \subseteq G
  /\ Len(e.queue) = IF e.count < 0 THEN - e.count ELSE 0
  /\ e.count = Len(e.free) - Cardinality(G)

PoolsInv == \A i \in 1 .. Len(buftab) : FreeSound(buftab[i]) /\ QueueSound(buftab[i], Getters(i))

\* Where the buffers are.
BufsInv ==
  /\ \A i \in 1 .. Len(buftab) :
       /\ buftab[i].all \cap FreeUnits = {}
       /\ buftab[i].all \cap Held = buftab[i].all \ Members(buftab[i].free)
  /\ \A i, j \in 1 .. Len(buftab) : i # j => buftab[i].all \cap buftab[j].all = {}
  /\ Held \subseteq PoolMemory
  /\ \A p, q \in Procs : p # q => bufs[p] \cap bufs[q] = {}

PInv == PoolTypes /\ PoolsInv /\ BufsInv

\* The fields of a pool.
LEMMA PoolType ==
  ASSUME NEW e \in Pool
  PROVE  /\ e.count \in Int /\ e.queue \in Seq(Procs) /\ e.all \in SUBSET Units /\ e.free \in Seq(Units)
         /\ Len(e.queue) \in Nat /\ Len(e.free) \in Nat
  BY DEF Pool

\* What a change of one pool leaves alone.
LEMMA PoolChanged ==
  ASSUME PoolTypes, NEW i \in 1 .. Len(buftab), NEW e \in Pool, e.all = buftab[i].all,
         buftab' = [buftab EXCEPT ![i] = e]
  PROVE  /\ buftab' \in Seq(Pool) /\ Len(buftab') = Len(buftab)
         /\ \A j \in 1 .. Len(buftab) : /\ buftab'[j] = IF j = i THEN e ELSE buftab[j]
                                        /\ buftab'[j].all = buftab[j].all
         /\ PoolMemory' = PoolMemory
<1>1. buftab' \in Seq(Pool) /\ Len(buftab') = Len(buftab)
      /\ \A j \in 1 .. Len(buftab) : buftab'[j] = IF j = i THEN e ELSE buftab[j]
  BY DEF PoolTypes
<1>2. \A j \in 1 .. Len(buftab) : buftab'[j].all = buftab[j].all
  BY <1>1
<1>3. DOMAIN buftab' = 1 .. Len(buftab) /\ DOMAIN buftab = 1 .. Len(buftab)
  BY <1>1 DEF PoolTypes
<1> QED
  BY <1>1, <1>2, <1>3 DEF PoolMemory

\* The processes in getbuf are finitely many.
LEMMA GettersFinite == ASSUME NEW i PROVE IsFiniteSet(Getters(i)) /\ Cardinality(Getters(i)) \in Nat
<1>1. Getters(i) \in SUBSET Procs /\ IsFiniteSet(Procs)
  BY MemoryAssumption DEF Getters
<1> QED
  BY <1>1, FS_Subset, FS_CardinalityType

\* Requests for memory take none of the buffers, nor do returns bring them back.
LEMMA PoolsApart ==
  ASSUME PInv, UNCHANGED <<buftab, bufs, getting>>, FreeUnits' \cap PoolMemory \subseteq FreeUnits
  PROVE  PInv'
<1>1. Held' = Held /\ PoolMemory' = PoolMemory /\ \A i : Getters(i)' = Getters(i)
  BY DEF Held, PoolMemory, Getters
<1>2. PoolTypes' /\ PoolsInv'
  BY <1>1 DEF PInv, PoolTypes, PoolsInv
<1>3. ASSUME NEW i \in 1 .. Len(buftab) PROVE buftab[i].all \cap FreeUnits' = {}
  <2>1. buftab[i].all \subseteq PoolMemory
    BY DEF PInv, PoolTypes, PoolMemory
  <2> QED
    BY <2>1 DEF PInv, BufsInv
<1>4. BufsInv'
  BY <1>1, <1>3 DEF PInv, BufsInv
<1> QED
  BY <1>2, <1>4 DEF PInv

\* getbuf: p takes a buffer or waits for one.
LEMMA BufAsked ==
  ASSUME PInv, UNCHANGED FreeUnits, NEW p \in Procs, NEW i \in 1 .. Len(buftab), getbuf(p, i)
  PROVE  PInv'
<1>1. PICK e : e = buftab[i]
  OBVIOUS
<1>2. /\ e \in Pool /\ FreeSound(e) /\ QueueSound(e, Getters(i)) /\ getting \in [Procs -> Int]
      /\ Len(buftab) \in Nat
  BY <1>1 DEF PInv, PoolsInv, PoolTypes
<1>3. PICK q : q = IF e.count > 0 THEN e.queue ELSE Append(e.queue, p)
  OBVIOUS
<1>4. PICK f : f = [e EXCEPT !.count = @ - 1, !.queue = q]
  OBVIOUS
<1>5. buftab' = [buftab EXCEPT ![i] = f] /\ getting' = [getting EXCEPT ![p] = i]
      /\ getting[p] = -1 /\ bufs' = bufs
  BY <1>1, <1>3, <1>4 DEF getbuf, PInv, PoolTypes
<1>6. p \notin Getters(i) /\ ~ (p \in Members(e.queue))
  BY <1>2, <1>5 DEF Getters, QueueSound
<1>7. /\ q \in Seq(Procs) /\ NoRepeats(q) /\ Members(q) \subseteq Getters(i) \cup {p}
      /\ Len(q) = IF e.count > 0 THEN Len(e.queue) ELSE Len(e.queue) + 1
  <2>1. e.queue \in Seq(Procs) /\ NoRepeats(e.queue) /\ Members(e.queue) \subseteq Getters(i)
    BY <1>2, PoolType DEF QueueSound
  <2>2. /\ Append(e.queue, p) \in Seq(Procs) /\ NoRepeats(Append(e.queue, p))
        /\ Members(Append(e.queue, p)) = Members(e.queue) \cup {p}
        /\ Len(Append(e.queue, p)) = Len(e.queue) + 1
    BY <1>6, <2>1, AppendMembers
  <2> QED
    BY <1>3, <2>1, <2>2
<1>8. /\ f \in Pool /\ f.count = e.count - 1 /\ f.queue = q
      /\ f.all = e.all /\ f.free = e.free
  <2>1. e.count - 1 \in Int
    BY <1>2, PoolType
  <2> QED
    BY <1>2, <1>4, <1>7, <2>1 DEF Pool
<1>9. /\ buftab' \in Seq(Pool) /\ Len(buftab') = Len(buftab) /\ PoolMemory' = PoolMemory
      /\ \A j \in 1 .. Len(buftab) : /\ buftab'[j] = IF j = i THEN f ELSE buftab[j]
                                     /\ buftab'[j].all = buftab[j].all
  BY <1>1, <1>5, <1>8, PoolChanged DEF PInv
<1>10. \A j \in 1 .. Len(buftab) : Getters(j)' = IF j = i THEN Getters(j) \cup {p} ELSE Getters(j)
  BY <1>2, <1>5 DEF Getters
<1>11. PoolTypes'
  BY <1>5, <1>9 DEF PInv, PoolTypes
<1>12. QueueSound(f, Getters(i) \cup {p})
  <2>1. Cardinality(Getters(i) \cup {p}) = Cardinality(Getters(i)) + 1 /\ Cardinality(Getters(i)) \in Nat
    BY <1>6, GettersFinite, FS_AddElement
  <2>2. f.count = Len(f.free) - Cardinality(Getters(i) \cup {p})
    BY SMTT(20), <1>2, <1>8, <2>1, PoolType DEF QueueSound
  <2>3. Len(q) = IF f.count < 0 THEN - f.count ELSE 0
    BY <1>2, <1>7, <1>8, PoolType DEF QueueSound
  <2> QED
    BY <1>7, <1>8, <2>2, <2>3 DEF QueueSound
<1>13. FreeSound(f)
  BY <1>2, <1>8 DEF FreeSound
<1>14. PoolsInv'
  <2>1. \A j \in 1 .. Len(buftab) : j # i => buftab'[j] = buftab[j] /\ Getters(j)' = Getters(j)
    BY <1>9, <1>10
  <2> QED
    BY <1>9, <1>10, <1>12, <1>13, <2>1 DEF PInv, PoolsInv
<1>15. BufsInv'
  <2>1. \A j \in 1 .. Len(buftab) : buftab'[j].free = buftab[j].free
    BY <1>1, <1>8, <1>9
  <2>2. Held' = Held
    BY <1>5 DEF Held
  <2> QED
    BY <1>5, <1>9, <2>1, <2>2 DEF PInv, BufsInv
<1> QED
  BY <1>11, <1>14, <1>15 DEF PInv

\* Whoever leaves the queue of a pool finds a buffer: if the list were empty,
\* as many would wait as are in getbuf, and p does not wait.
LEMMA BufLeft ==
  ASSUME PInv, NEW p \in Procs, getting[p] # -1, ~ Asleep(p)
  PROVE  buftab[getting[p]].free # << >>
<1>1. PICK i \in 1 .. Len(buftab) : i = getting[p]
  BY DEF PInv, PoolTypes
<1>2. PICK e : e = buftab[i]
  OBVIOUS
<1>3. e \in Pool /\ QueueSound(e, Getters(i))
  BY <1>2 DEF PInv, PoolsInv, PoolTypes
<1>4. p \in Getters(i) /\ p \notin Members(e.queue)
  <2>1. i \in DOMAIN buftab
    BY DEF PInv, PoolTypes
  <2>2. ToSet(e.queue) = Members(e.queue)
    BY <1>3, PoolType DEF ToSet, Members
  <2> QED
    BY <1>1, <1>2, <2>1, <2>2 DEF Asleep, Getters
<1>5. Cardinality(Getters(i) \ {p}) = Cardinality(Getters(i)) - 1
      /\ Cardinality(Getters(i)) \in Nat /\ IsFiniteSet(Getters(i) \ {p})
  BY <1>4, GettersFinite, FS_RemoveElement
<1>6. Members(e.queue) \in SUBSET (Getters(i) \ {p})
  BY <1>3, <1>4 DEF QueueSound
<1>7. Len(e.queue) <= Cardinality(Getters(i)) - 1
  <2>1. Cardinality(Members(e.queue)) = Len(e.queue)
    BY <1>3, PoolType, ListCount DEF QueueSound
  <2>2. Cardinality(Members(e.queue)) <= Cardinality(Getters(i) \ {p})
    BY <1>5, <1>6, FS_Subset
  <2> QED
    BY <1>5, <2>1, <2>2
<1>8. Len(e.free) # 0
  BY <1>3, <1>5, <1>7, PoolType DEF QueueSound
<1> QED
  BY <1>1, <1>2, <1>8

\* p takes the first free buffer.
LEMMA BufTaken ==
  ASSUME PInv, UNCHANGED FreeUnits, NEW p \in Procs, Unlinks(p)
  PROVE  PInv'
<1>1. PICK i \in 1 .. Len(buftab) : i = getting[p]
  BY DEF Unlinks, PInv, PoolTypes
<1>2. PICK e : e = buftab[i]
  OBVIOUS
<1>3. /\ e \in Pool /\ FreeSound(e) /\ QueueSound(e, Getters(i)) /\ getting \in [Procs -> Int]
      /\ Len(buftab) \in Nat /\ bufs \in [Procs -> SUBSET Units]
      /\ e.queue \in Seq(Procs) /\ e.free \in Seq(Units) /\ e.free # << >>
  BY <1>1, <1>2, BufLeft, PoolType DEF PInv, PoolsInv, PoolTypes, Unlinks
<1>4. PICK f : f = [e EXCEPT !.free = Tail(@)]
  OBVIOUS
<1>5. PICK h : h = Head(e.free)
  OBVIOUS
<1>6. /\ buftab' = [buftab EXCEPT ![i] = f] /\ getting' = [getting EXCEPT ![p] = -1]
      /\ bufs' = [bufs EXCEPT ![p] = @ \cup {h}]
  BY <1>1, <1>2, <1>4, <1>5 DEF Unlinks, Unlinked, PInv, PoolTypes
<1>7. /\ Tail(e.free) \in Seq(Units) /\ NoRepeats(Tail(e.free))
      /\ Len(Tail(e.free)) = Len(e.free) - 1
      /\ Members(Tail(e.free)) = Members(e.free) \ {h}
      /\ h \in Members(e.free)
  BY <1>3, <1>5, TailMembers DEF FreeSound
<1>8. /\ f \in Pool /\ f.count = e.count /\ f.queue = e.queue
      /\ f.all = e.all /\ f.free = Tail(e.free)
  BY <1>3, <1>4, <1>7 DEF Pool
<1>9. /\ buftab' \in Seq(Pool) /\ Len(buftab') = Len(buftab) /\ PoolMemory' = PoolMemory
      /\ \A j \in 1 .. Len(buftab) : /\ buftab'[j] = IF j = i THEN f ELSE buftab[j]
                                     /\ buftab'[j].all = buftab[j].all
  BY <1>2, <1>6, <1>8, PoolChanged DEF PInv
<1>10. \A j \in 1 .. Len(buftab) : Getters(j)' = IF j = i THEN Getters(j) \ {p} ELSE Getters(j)
  BY <1>1, <1>3, <1>6 DEF Getters
<1>11. h \in e.all /\ h \in Units
  BY <1>3, <1>7, PoolType DEF FreeSound
<1>12. PoolTypes'
  <2>1. bufs' \in [Procs -> SUBSET Units]
    BY <1>3, <1>6, <1>11
  <2>2. getting' \in [Procs -> Int]
    BY <1>3, <1>6
  <2>3. \A r \in Procs : getting'[r] # -1 => getting'[r] \in 1 .. Len(buftab')
    BY <1>3, <1>6, <1>9 DEF PInv, PoolTypes
  <2> QED
    BY <1>9, <2>1, <2>2, <2>3 DEF PoolTypes
<1>13. p \in Getters(i) /\ p \notin Members(e.queue)
  <2>1. i \in DOMAIN buftab
    BY DEF PInv, PoolTypes
  <2>2. ToSet(e.queue) = Members(e.queue)
    <3>1. PICK q : q = e.queue
      OBVIOUS
    <3>2. DOMAIN q = 1 .. Len(q)
      BY <1>3, <3>1
    <3>3. ToSet(q) = Members(q)
      BY <3>2 DEF ToSet, Members
    <3> QED
      BY <3>1, <3>3
  <2> QED
    BY <1>1, <1>2, <2>1, <2>2 DEF Asleep, Getters, Unlinks
<1>14. QueueSound(f, Getters(i) \ {p})
  <2>1. Cardinality(Getters(i) \ {p}) = Cardinality(Getters(i)) - 1 /\ Cardinality(Getters(i)) \in Nat
    BY <1>13, GettersFinite, FS_RemoveElement
  <2>2. f.count = Len(f.free) - Cardinality(Getters(i) \ {p})
    BY SMTT(20), <1>3, <1>7, <1>8, <2>1, PoolType DEF QueueSound
  <2> QED
    BY <1>3, <1>8, <1>13, <2>2 DEF QueueSound
<1>15. FreeSound(f)
  BY <1>3, <1>7, <1>8 DEF FreeSound
<1>16. PoolsInv'
  <2>1. \A j \in 1 .. Len(buftab) : j # i => buftab'[j] = buftab[j] /\ Getters(j)' = Getters(j)
    BY <1>9, <1>10
  <2> QED
    BY <1>9, <1>10, <1>14, <1>15, <2>1 DEF PInv, PoolsInv
<1>17. Held' = Held \cup {h}
  BY <1>3, <1>6 DEF Held
<1>18. h \notin Held
  BY <1>2, <1>7, <1>11 DEF PInv, BufsInv
<1>19. h \in PoolMemory
  BY <1>2, <1>11 DEF PInv, PoolTypes, PoolMemory
<1>20. ASSUME NEW j \in 1 .. Len(buftab)
       PROVE  buftab[j].all \cap Held' = buftab[j].all \ Members(buftab'[j].free)
  <2>1. CASE j = i
    <3>1. buftab'[j].free = Tail(e.free) /\ buftab[j] = e
      BY <1>2, <1>8, <1>9, <2>1
    <3>2. e.all \cap Held = e.all \ Members(e.free)
      BY <1>2 DEF PInv, BufsInv
    <3> QED
      BY <1>7, <1>17, <3>1, <3>2
  <2>2. CASE j # i
    <3>1. buftab'[j].free = buftab[j].free /\ h \notin buftab[j].all
      BY <1>2, <1>9, <1>11, <2>2 DEF PInv, BufsInv
    <3>2. buftab[j].all \cap Held = buftab[j].all \ Members(buftab[j].free)
      BY DEF PInv, BufsInv
    <3> QED
      BY <1>17, <3>1, <3>2
  <2> QED
    BY <2>1, <2>2
<1>21. ASSUME NEW x \in Procs, NEW y \in Procs, x # y
       PROVE  bufs'[x] \cap bufs'[y] = {}
  <2>1. h \notin bufs[x] /\ h \notin bufs[y] /\ bufs[x] \cap bufs[y] = {}
    BY <1>18, <1>21 DEF Held, PInv, BufsInv
  <2> QED
    BY <1>3, <1>6, <1>21, <2>1
<1>22. BufsInv'
  BY <1>9, <1>17, <1>19, <1>20, <1>21 DEF PInv, BufsInv
<1> QED
  BY <1>12, <1>16, <1>22 DEF PInv

\* freebuf: p gives b back, and who waits first is woken.
LEMMA BufGiven ==
  ASSUME PInv, UNCHANGED FreeUnits, NEW p \in Procs, NEW i \in 1 .. Len(buftab),
         NEW b \in bufs[p] \cap buftab[i].all, freebuf(p, b, i)
  PROVE  PInv'
<1>1. PICK e : e = buftab[i]
  OBVIOUS
<1>2. /\ e \in Pool /\ FreeSound(e) /\ QueueSound(e, Getters(i))
      /\ Len(buftab) \in Nat /\ bufs \in [Procs -> SUBSET Units]
      /\ e.queue \in Seq(Procs) /\ e.free \in Seq(Units) /\ e.count \in Int
      /\ Len(e.free) \in Nat /\ Len(e.queue) \in Nat
  BY <1>1, PoolType DEF PInv, PoolsInv, PoolTypes
<1>3. b \in e.all /\ b \in Held /\ b \in Units /\ b \notin Members(e.free)
  <2>1. b \in e.all /\ b \in Held /\ b \in Units
    BY <1>1, <1>2 DEF Held
  <2> QED
    BY <1>1, <2>1 DEF PInv, BufsInv
<1>4. PICK q : q = IF e.count < 0 THEN Tail(e.queue) ELSE e.queue
  OBVIOUS
<1>5. PICK t : t = <<b>> \o e.free
  OBVIOUS
<1>6. PICK f : f = [e EXCEPT !.free = t, !.count = @ + 1, !.queue = q]
  OBVIOUS
<1>7. /\ buftab' = [buftab EXCEPT ![i] = f] /\ getting' = getting
      /\ bufs' = [bufs EXCEPT ![p] = @ \ {b}]
  BY <1>1, <1>4, <1>5, <1>6 DEF freebuf, PInv, PoolTypes
<1>8. /\ t \in Seq(Units) /\ Len(t) = Len(e.free) + 1 /\ NoRepeats(t)
      /\ Members(t) = Members(e.free) \cup {b}
  BY <1>2, <1>3, <1>5, ConsMembers DEF FreeSound
<1>9. /\ q \in Seq(Procs) /\ NoRepeats(q) /\ Members(q) \subseteq Getters(i)
      /\ Len(q) = IF e.count < 0 THEN Len(e.queue) - 1 ELSE Len(e.queue)
  <2>1. NoRepeats(e.queue) /\ Members(e.queue) \subseteq Getters(i)
    BY <1>2 DEF QueueSound
  <2>2. CASE e.count < 0
    <3>1. Len(e.queue) # 0
      BY <1>2, <2>2 DEF QueueSound
    <3>2. e.queue # << >>
      BY <3>1
    <3> QED
      BY <1>2, <1>4, <2>1, <2>2, <3>2, TailMembers
  <2>3. CASE ~ (e.count < 0)
    BY <1>2, <1>4, <2>1, <2>3
  <2> QED
    BY <2>2, <2>3
<1>10. /\ f \in Pool /\ f.count = e.count + 1 /\ f.queue = q
       /\ f.all = e.all /\ f.free = t
  <2>1. e.count + 1 \in Int
    BY <1>2
  <2> QED
    BY <1>2, <1>6, <1>8, <1>9, <2>1 DEF Pool
<1>11. /\ buftab' \in Seq(Pool) /\ Len(buftab') = Len(buftab) /\ PoolMemory' = PoolMemory
       /\ \A j \in 1 .. Len(buftab) : /\ buftab'[j] = IF j = i THEN f ELSE buftab[j]
                                      /\ buftab'[j].all = buftab[j].all
  BY <1>1, <1>7, <1>10, PoolChanged DEF PInv
<1>12. \A j : Getters(j)' = Getters(j)
  BY <1>7 DEF Getters
<1>13. PoolTypes'
  <2>1. bufs' \in [Procs -> SUBSET Units]
    BY <1>2, <1>7
  <2> QED
    BY <1>7, <1>11, <2>1 DEF PInv, PoolTypes
<1>14. QueueSound(f, Getters(i))
  <2>1. Cardinality(Getters(i)) \in Nat
    BY GettersFinite
  <2>2. f.count = Len(f.free) - Cardinality(Getters(i))
    BY <1>2, <1>8, <1>10, <2>1 DEF QueueSound
  <2>3. Len(q) = IF f.count < 0 THEN - f.count ELSE 0
    BY <1>2, <1>9, <1>10 DEF QueueSound
  <2> QED
    BY <1>9, <1>10, <2>2, <2>3 DEF QueueSound
<1>15. FreeSound(f)
  BY <1>2, <1>3, <1>8, <1>10 DEF FreeSound
<1>16. PoolsInv'
  <2>1. \A j \in 1 .. Len(buftab) : j # i => buftab'[j] = buftab[j]
    BY <1>11
  <2> QED
    BY <1>11, <1>12, <1>14, <1>15, <2>1 DEF PInv, PoolsInv
<1>17. Held' = Held \ {b}
  <2>1. ASSUME NEW x \in Procs, b \in bufs[x] PROVE x = p
    BY <2>1 DEF PInv, BufsInv
  <2>2. \A x \in Procs : bufs'[x] = IF x = p THEN bufs[p] \ {b} ELSE bufs[x]
    BY <1>2, <1>7
  <2>3. \A x \in Procs : bufs'[x] = bufs[x] \ {b}
    BY <2>1, <2>2
  <2> QED
    BY <2>3 DEF Held
<1>18. ASSUME NEW j \in 1 .. Len(buftab)
       PROVE  buftab[j].all \cap Held' = buftab[j].all \ Members(buftab'[j].free)
  <2>1. CASE j = i
    <3>1. buftab'[j].free = t /\ buftab[j] = e
      BY <1>1, <1>10, <1>11, <2>1
    <3>2. e.all \cap Held = e.all \ Members(e.free)
      BY <1>1 DEF PInv, BufsInv
    <3> QED
      BY <1>8, <1>17, <3>1, <3>2
  <2>2. CASE j # i
    <3>1. buftab'[j].free = buftab[j].free /\ b \notin buftab[j].all
      BY <1>1, <1>3, <1>11, <2>2 DEF PInv, BufsInv
    <3>2. buftab[j].all \cap Held = buftab[j].all \ Members(buftab[j].free)
      BY DEF PInv, BufsInv
    <3> QED
      BY <1>17, <3>1, <3>2
  <2> QED
    BY <2>1, <2>2
<1>19. ASSUME NEW x \in Procs, NEW y \in Procs, x # y
       PROVE  bufs'[x] \cap bufs'[y] = {}
  <2>1. bufs[x] \cap bufs[y] = {}
    BY <1>19 DEF PInv, BufsInv
  <2> QED
    BY <1>2, <1>7, <2>1
<1>20. BufsInv'
  BY <1>11, <1>17, <1>18, <1>19 DEF PInv, BufsInv
<1> QED
  BY <1>13, <1>16, <1>20 DEF PInv

\* mkbufpool: the buffers of a new pool were free memory, so none of them is
\* held and none belongs to another pool.
LEMMA PoolMade ==
  ASSUME PInv, MList, NEW n \in 1 .. HEAP, mkbufpool(n), GotUnits(n)
  PROVE  PInv'
<1>1. PICK b \in Units : /\ Extent(b, n) \subseteq FreeUnits
                         /\ answer' = << <<n>>, Extent(b, n) >>
                         /\ FreeUnits' = FreeUnits \ Extent(b, n)
  BY DEF GotUnits
<1>2. UNCHANGED <<bufs, getting>>
  BY DEF mkbufpool
<1>3. /\ HEAP \in Nat /\ n \in Int /\ n > 0 /\ n \in Nat /\ b \in Int
      /\ buftab \in Seq(Pool) /\ Len(buftab) \in Nat
  BY MemoryAssumption DEF Units, PInv, PoolTypes
<1>4. CASE buftab' = buftab
  <2>1. FreeUnits' \cap PoolMemory \subseteq FreeUnits
    BY <1>1
  <2> QED
    BY <1>2, <1>4, <2>1, PoolsApart
<1>5. CASE buftab' # buftab
  <2>1. PICK t : t = [k \in 1 .. n |-> b + k - 1]
    OBVIOUS
  <2>2. PICK f : f = [count |-> n, queue |-> << >>, all |-> Extent(b, n), free |-> t]
    OBVIOUS
  <2>3. buftab' = Append(buftab, f)
    <3>1. b \in Extent(b, n) /\ \A y \in Extent(b, n) : b <= y
      BY <1>3 DEF Extent
    <3>2. Extent(b, n) \subseteq Int
      BY <1>3 DEF Extent
    <3>3. PICK m : m = Min(Extent(b, n))
      OBVIOUS
    <3>4. m = b
      <4>1. m \in Extent(b, n) /\ \A y \in Extent(b, n) : m <= y
        BY <3>1, <3>3 DEF Min
      <4> QED
        BY <1>3, <3>1, <3>2, <4>1
    <3>5. buftab' = Append(buftab, [count |-> n, queue |-> << >>, all |-> Extent(b, n),
                                    free |-> [k \in 1 .. n |-> m + k - 1]])
      BY <1>1, <1>5, <3>3 DEF mkbufpool
    <3> QED
      BY <2>1, <2>2, <3>4, <3>5
  <2>4. Extent(b, n) \subseteq Units /\ Extent(b, n) \cap PoolMemory = {} /\ Extent(b, n) \cap Held = {}
    <3>1. PoolMemory \cap FreeUnits = {}
      BY <1>3 DEF PInv, BufsInv, PoolMemory
    <3>2. Extent(b, n) \subseteq Units
      BY <1>1, FreeUnitsCover
    <3> QED
      BY <1>1, <3>1, <3>2 DEF PInv, BufsInv
  <2>5. \A k \in 1 .. n : t[k] \in Extent(b, n)
    BY <1>3, <2>1 DEF Extent
  <2>6. t \in Seq(Units) /\ Len(t) = n
    <3>1. t \in [1 .. n -> Units]
      BY <2>1, <2>4, <2>5
    <3> QED
      BY <1>3, <3>1
  <2>7. NoRepeats(t) /\ Members(t) = Extent(b, n)
    <3>1. \A x, y \in 1 .. n : b + x - 1 = b + y - 1 => x = y
      BY <1>3
    <3>2. ASSUME NEW u \in Extent(b, n) PROVE \E k \in 1 .. n : t[k] = u
      <4>1. u - b + 1 \in 1 .. n /\ b + (u - b + 1) - 1 = u
        BY <1>3 DEF Extent
      <4> QED
        BY <2>1, <4>1
    <3>3. Members(t) = Extent(b, n)
      BY <2>5, <2>6, <3>2 DEF Members
    <3>4. \A x, y \in 1 .. n : t[x] = t[y] => x = y
      BY <2>1, <3>1
    <3> QED
      BY <2>6, <3>3, <3>4 DEF NoRepeats
  <2>8. /\ f \in Pool /\ f.count = n /\ f.queue = << >>
        /\ f.all = Extent(b, n) /\ f.free = t
    BY <1>3, <2>2, <2>4, <2>6 DEF Pool
  <2>9. PICK l \in Nat : l = Len(buftab)
    BY <1>3
  <2>10. /\ buftab' \in Seq(Pool) /\ Len(buftab') = l + 1
         /\ \A j \in 1 .. l : buftab'[j] = buftab[j]
         /\ buftab'[l + 1] = f
    BY <1>3, <2>3, <2>8, <2>9
  <2>11. 1 .. l + 1 = (1 .. l) \cup {l + 1} /\ 1 .. l \subseteq 1 .. l + 1 /\ l + 1 \notin 1 .. l
    BY <2>9
  <2>12. Held' = Held /\ \A j : Getters(j)' = Getters(j)
    BY <1>2 DEF Held, Getters
  <2>13. PoolMemory' = PoolMemory \cup Extent(b, n)
    <3>1. DOMAIN buftab = 1 .. l /\ DOMAIN buftab' = 1 .. l + 1
      BY <1>3, <2>9, <2>10
    <3> QED
      BY <2>8, <2>10, <2>11, <3>1 DEF PoolMemory
  <2>14. Getters(l + 1) = {}
    <3>1. l + 1 # -1
      BY <2>9
    <3> QED
      BY <2>9, <2>11, <3>1 DEF Getters, PInv, PoolTypes
  <2>15. PoolTypes'
    BY <1>2, <2>9, <2>10, <2>11 DEF PInv, PoolTypes
  <2>16. FreeSound(f) /\ QueueSound(f, {})
    <3>1. Cardinality({}) = 0
      BY FS_EmptySet
    <3>2. NoRepeats(<< >>) /\ Members(<< >>) = {} /\ Len(<< >>) = 0
      BY DEF NoRepeats, Members
    <3>3. ~ (n < 0) /\ n = n - 0
      BY <1>3
    <3> QED
      BY <2>6, <2>7, <2>8, <3>1, <3>2, <3>3 DEF FreeSound, QueueSound
  <2>17. PoolsInv'
    BY <2>9, <2>10, <2>11, <2>12, <2>14, <2>16 DEF PInv, PoolsInv
  <2>18. ASSUME NEW j \in 1 .. l
         PROVE  /\ buftab[j].all \cap FreeUnits' = {} /\ buftab[j].all \cap Extent(b, n) = {}
                /\ buftab[j].all \cap Held = buftab[j].all \ Members(buftab[j].free)
    <3>1. buftab[j].all \subseteq PoolMemory
      BY <1>3, <2>9 DEF PoolMemory
    <3> QED
      BY <1>1, <2>4, <2>9, <3>1 DEF PInv, BufsInv
  <2>19. f.all \cap FreeUnits' = {} /\ f.all \cap Held = f.all \ Members(f.free)
    BY <1>1, <2>4, <2>7, <2>8
  <2>20. \A j \in 1 .. l + 1 :
           /\ buftab'[j].all \cap FreeUnits' = {}
           /\ buftab'[j].all \cap Held = buftab'[j].all \ Members(buftab'[j].free)
    BY <2>10, <2>11, <2>18, <2>19
  <2>21. ASSUME NEW x \in 1 .. l + 1, NEW y \in 1 .. l + 1, x # y
         PROVE  buftab'[x].all \cap buftab'[y].all = {}
    <3>1. CASE x \in 1 .. l /\ y \in 1 .. l
      BY <2>9, <2>10, <2>21, <3>1 DEF PInv, BufsInv
    <3>2. CASE x = l + 1 /\ y \in 1 .. l
      BY <2>8, <2>10, <2>18, <3>2
    <3>3. CASE y = l + 1 /\ x \in 1 .. l
      BY <2>8, <2>10, <2>18, <3>3
    <3> QED
      BY <2>11, <2>21, <3>1, <3>2, <3>3
  <2>22. BufsInv'
    BY <1>2, <2>10, <2>12, <2>13, <2>20, <2>21 DEF PInv, BufsInv
  <2> QED
    BY <2>15, <2>17, <2>22 DEF PInv
<1> QED
  BY <1>4, <1>5

\* Every move keeps the pools in order.
LEMMA PoolsStep == ASSUME PInv, MList, MemMoves PROVE PInv'
<1>1. ASSUME NEW n \in 0 .. HEAP, GotUnits(n) \/ Failed(<<n>>, NoRun(n)), UNCHANGED <<buftab, bufs, getting>>
      PROVE  PInv'
  BY <1>1, PoolsApart DEF GotUnits, Failed
<1>2. ASSUME NEW b \in Units, NEW n \in 0 .. HEAP,
             GaveBack(b, n) \/ Failed(<<b, n>>, n = 0 \/ ~ (Extent(b, n) \subseteq inuse)),
             Extent(b, n) \cap PoolMemory = {}, UNCHANGED <<buftab, bufs, getting>>
      PROVE  PInv'
  BY <1>2, PoolsApart DEF GaveBack, Failed
<1>3. ASSUME NEW n \in 1 .. HEAP, mkbufpool(n), GotUnits(n) \/ Failed(<<n>>, NoRun(n)) PROVE PInv'
  <2>1. CASE GotUnits(n)
    BY <1>3, <2>1, PoolMade
  <2>2. CASE Failed(<<n>>, NoRun(n))
    <3>1. answer'[2] = {} /\ FreeUnits' = FreeUnits
      BY <2>2 DEF Failed
    <3>2. UNCHANGED <<buftab, bufs, getting>>
      BY <1>3, <3>1 DEF mkbufpool
    <3> QED
      BY <3>1, <3>2, PoolsApart
  <2> QED
    BY <1>3, <2>1, <2>2
<1>4. DOMAIN buftab = 1 .. Len(buftab)
  BY DEF PInv, PoolTypes
<1>5. ASSUME UNCHANGED FreeUnits, UNCHANGED <<buftab, bufs, getting>> PROVE PInv'
  BY <1>5, PoolsApart
<1>6. ASSUME UNCHANGED FreeUnits, NEW p \in Procs, NEW i \in DOMAIN buftab,
             getbuf(p, i) \/ \E b \in bufs[p] \cap buftab[i].all : freebuf(p, b, i)
      PROVE  PInv'
  BY <1>4, <1>6, BufAsked, BufGiven
<1> QED
  BY <1>1, <1>2, <1>3, <1>5, <1>6, BufTaken DEF MemMoves

\* At first there are no pools.
LEMMA PoolsInit == ASSUME meminit PROVE PInv
<1>1. buftab = << >> /\ bufs = [p \in Procs |-> {}] /\ getting = [p \in Procs |-> -1]
  BY DEF meminit
<1>2. buftab \in Seq(Pool) /\ Len(buftab) = 0 /\ 1 .. Len(buftab) = {}
  BY <1>1
<1>3. Held = {}
  BY <1>1 DEF Held
<1> QED
  BY <1>1, <1>2, <1>3 DEF PInv, PoolTypes, PoolsInv, BufsInv

\* The invariant says what PoolsSound says.
LEMMA PoolsInvSound == ASSUME PInv PROVE PoolsSound
<1> SUFFICES ASSUME NEW i \in DOMAIN buftab
             PROVE  LET e == buftab[i] IN
                    /\ Cardinality(ToSet(e.free)) = Len(e.free)
                    /\ e.all \cap FreeUnits = {}
                    /\ \A b \in e.all : Cardinality({p \in Procs : b \in bufs[p]}) = IF b \in ToSet(e.free) THEN 0 ELSE 1
                    /\ e.count = Len(e.free) - Cardinality({p \in Procs : getting[p] = i})
  BY DEF PoolsSound
<1>1. PICK e : e = buftab[i]
  OBVIOUS
<1>2. i \in 1 .. Len(buftab)
  BY DEF PInv, PoolTypes
<1>3. /\ e \in Pool /\ FreeSound(e) /\ QueueSound(e, Getters(i)) /\ e.all \cap FreeUnits = {}
      /\ e.all \cap Held = e.all \ Members(e.free)
  BY <1>1, <1>2 DEF PInv, PoolsInv, PoolTypes, BufsInv
<1>4. ToSet(e.free) = Members(e.free)
  BY <1>3, PoolType DEF ToSet, Members
<1>5. Cardinality(Members(e.free)) = Len(e.free)
  BY <1>3, PoolType, ListCount DEF FreeSound
<1>6. ASSUME NEW b \in e.all
      PROVE  Cardinality({p \in Procs : b \in bufs[p]}) = IF b \in Members(e.free) THEN 0 ELSE 1
  <2> DEFINE H == {p \in Procs : b \in bufs[p]}
  <2>1. CASE b \in Members(e.free)
    <3>1. H = {}
      BY <1>3, <2>1 DEF Held
    <3> QED
      BY <2>1, <3>1, FS_EmptySet
  <2>2. CASE b \notin Members(e.free)
    <3>1. PICK p \in Procs : b \in bufs[p]
      BY <1>3, <2>2 DEF Held
    <3>2. H = {p}
      BY <3>1 DEF PInv, BufsInv
    <3> QED
      BY <2>2, <3>2, FS_Singleton
  <2> QED
    BY <2>1, <2>2
<1>7. e.count = Len(e.free) - Cardinality({p \in Procs : getting[p] = i})
  BY <1>3 DEF QueueSound, Getters
<1> QED
  BY <1>1, <1>3, <1>4, <1>5, <1>6, <1>7

\* The pools stay sound (mkbufpool.c, getbuf.c, freebuf.c): every buffer is in
\* its list once or with one process, and the count of the semaphore is the
\* number of free buffers less the processes that are in getbuf.
THEOREM PoolsStaySound == MemSpec => []PoolsSound
<1>1. meminit => MList /\ PInv
  BY MemInit, PoolsInit
<1>2. MList /\ PInv /\ [MemNext]_memvars => (MList /\ PInv)'
  BY MemStep, PoolsStep
<1>3. PInv => PoolsSound
  BY PoolsInvSound
<1> QED
  BY <1>1, <1>2, <1>3, PTL DEF MemSpec

-----------------------------------------------------------------------------
(* Frames.                                                                  *)

(* The inductive invariant.  EvictExact says that the frame invfreeframe     *)
(* takes off the queue is on it; FreeStackSound, that the frame it pushes is *)
(* not on the stack yet and that a popped frame is FREE; with the type of    *)
(* the stacks, a full stack holds every frame of its region, so none of them *)
(* can be in use.                                                            *)

Inv == TypeOK /\ FreeStackSound /\ NoFrameLost /\ EvictExact

\* The invariant says that the table is in order and that no frame is lost.
LEMMA InvInOrder == Inv <=> InOrder(fm) /\ NoFrameLost
<1>1. ASSUME Inv
      PROVE  InOrder(fm)
  BY <1>1 DEF Inv, TypeOK, FrameTableOK, FreeStackSound, EvictExact, InOrder,
     Injective, NoRepeats
<1>2. ASSUME InOrder(fm)
      PROVE  TypeOK /\ FreeStackSound /\ EvictExact
  <2>1. \A r \in Region : Len(fm.free[r]) \in 0 .. RegionSize(r) /\ RegionSize(r) \in Nat
    BY <1>2, Room, RegionShape
  <2>2. TypeOK
    BY <1>2, <2>1 DEF TypeOK, FrameTableOK, InOrder
  <2> QED
    BY <1>2, <2>2 DEF FreeStackSound, EvictExact, InOrder, Injective, NoRepeats
<1> QED
  BY <1>1, <1>2 DEF Inv

\* A region whose stack is full has no used frame: the stack holds as many
\* distinct frames as the region has.
LEMMA FullStack ==
  ASSUME Inv
  PROVE  PushRoom
BY InvInOrder, Room, RegionOfFrame DEF PushRoom

\* A call of getfreeframe followed by invtakeframe.
LEMMA AllocateStep ==
  ASSUME Inv, NEW r \in Region, NEW pid \in Pid, NEW pte \in PteRef,
         Allocate(r, pid, pte)
  PROVE  \E f \in RegionFrames(r) : InOrder(fm') /\ Took(fm, fm', r, f, pid, pte)
<1>1. fm.free[r] # << >>
  BY DEF Allocate, hasfreeframe
<1>2. InOrder(fm)
  BY InvInOrder
<1>3. InOrder(fm') /\ Took(fm, fm', r, FreeFrame(fm, r), pid, pte)
  BY <1>1, <1>2, Take DEF Allocate
<1> QED
  BY <1>3 DEF Took

\* What a call of invfreeframe changes: nothing, or one used frame is given up.
LEMMA ReleaseStep ==
  ASSUME Inv, NEW f \in Frame, Release(f), fm' # fm
  PROVE  \E r \in Region : InOrder(fm') /\ Gave(fm, fm', r, f)
<1>1. fidxtoregion(f) \in Region /\ f \in RegionFrames(fidxtoregion(f))
  BY RegionOfFrame
<1>2. InOrder(fm)
  BY InvInOrder
<1>3. fm.state[f] = "USED"
  BY <1>2, InOrderFacts, GiveFree DEF Release
<1> QED
  BY <1>1, <1>2, <1>3, Give DEF Release

-----------------------------------------------------------------------------
\* init_invpt (framemgmt.c:99-119) establishes the invariant.
LEMMA InitInv == Init => Inv
BY InvInOrder, InitTable, RegionOfFrame DEF Init, NoFrameLost

\* Getting a frame and taking it (pagingmgmt.c:24-47) keeps the invariant.
LEMMA AllocateInv ==
  ASSUME Inv, NEW r \in Region, NEW pid \in Pid, NEW pte \in PteRef,
         Allocate(r, pid, pte)
  PROVE  Inv'
<1>1. PICK f \in RegionFrames(r) : InOrder(fm') /\ Took(fm, fm', r, f, pid, pte)
  BY AllocateStep
<1>2. InOrder(fm) /\ f \in Frame
  BY InvInOrder, RegionShape
<1>3. fm'.free[r] = Tail(fm.free[r]) /\ \A q \in Region : q # r => fm'.free[q] = fm.free[q]
  BY <1>1, <1>2, InOrderFacts DEF Took
<1>4. ToSet(fm'.free[r]) = ToSet(fm.free[r]) \ {f}
  BY <1>1, <1>3 DEF Took
<1>5. fm'.state = IF f < NFRAMES THEN [fm.state EXCEPT ![f] = "USED"] ELSE fm.state
  BY <1>1 DEF Took
<1>6. NoFrameLost'
  <2> SUFFICES ASSUME NEW g \in Frame, g < NFRAMES, fm'.state[g] = "FREE"
               PROVE  g \in ToSet(fm'.free[fidxtoregion(g)])
    BY DEF NoFrameLost, Takeable
  <2>1. g # f /\ fm.state[g] = "FREE"
    BY <1>2, <1>5, InOrderFacts
  <2>2. g \in ToSet(fm.free[fidxtoregion(g)]) /\ fidxtoregion(g) \in Region
    BY <2>1, RegionOfFrame DEF Inv, NoFrameLost, Takeable
  <2> QED BY <1>3, <1>4, <2>1, <2>2
<1>7. (InOrder(fm) /\ NoFrameLost => Inv)'
  BY InvInOrder, PTL
<1> QED
  BY <1>1, <1>6, <1>7

\* Giving up a frame, used or not (framemgmt.c:247-310), keeps it.
LEMMA ReleaseInv ==
  ASSUME Inv, NEW f \in Frame, Release(f), fm' # fm
  PROVE  Inv'
<1>1. PICK r \in Region : InOrder(fm') /\ Gave(fm, fm', r, f)
  BY ReleaseStep
<1>2. InOrder(fm)
  BY InvInOrder
<1>3. fm'.free[r] = <<f>> \o fm.free[r] /\ \A q \in Region : q # r => fm'.free[q] = fm.free[q]
  BY <1>1, <1>2, InOrderFacts DEF Gave
<1>4. ToSet(fm'.free[r]) = ToSet(fm.free[r]) \cup {f} /\ fidxtoregion(f) = r
  BY <1>1, <1>3, RegionUnique DEF Gave
<1>5. fm'.state = [fm.state EXCEPT ![f] = "FREE"]
  BY <1>1 DEF Gave
<1>6. NoFrameLost'
  <2> SUFFICES ASSUME NEW g \in Frame, g < NFRAMES, fm'.state[g] = "FREE"
               PROVE  g \in ToSet(fm'.free[fidxtoregion(g)])
    BY DEF NoFrameLost, Takeable
  <2>1. CASE g = f
    BY <1>4, <2>1
  <2>2. CASE g # f
    <3>1. fm.state[g] = "FREE"
      BY <1>2, <1>5, <2>2, InOrderFacts
    <3>2. g \in ToSet(fm.free[fidxtoregion(g)]) /\ fidxtoregion(g) \in Region
      BY <3>1, RegionOfFrame DEF Inv, NoFrameLost, Takeable
    <3> QED BY <1>3, <1>4, <3>2
  <2> QED BY <2>1, <2>2
<1>7. (InOrder(fm) /\ NoFrameLost => Inv)'
  BY InvInOrder, PTL
<1> QED
  BY <1>1, <1>6, <1>7

\* Every step keeps the invariant.
LEMMA StepInv == Inv /\ [Next]_fm => Inv'
<1> SUFFICES ASSUME Inv, [Next]_fm PROVE Inv'
  OBVIOUS
<1>1. ASSUME NEW r \in Region, NEW pid \in Pid, NEW pte \in PteRef,
             Allocate(r, pid, pte)
      PROVE  Inv'
  BY <1>1, AllocateInv
<1>2. ASSUME NEW f \in Frame, Release(f), fm' # fm
      PROVE  Inv'
  BY <1>2, ReleaseInv
<1>3. CASE fm' = fm
  BY <1>3 DEF Inv, TypeOK, FreeStackSound, NoFrameLost, EvictExact
<1> QED
  BY <1>1, <1>2, <1>3 DEF Next

\* Every reachable state of the allocator satisfies the inductive invariant.
THEOREM Invariance == Spec => []Inv
<1> QED
  BY InitInv, StepInv, PTL DEF Spec

\* The table keeps its type and no stack pointer leaves its array.
THEOREM TypeCorrect == Spec => []TypeOK
<1>1. Inv => TypeOK
  BY DEF Inv
<1> QED
  BY <1>1, Invariance, PTL

\* A frame that getfreeframe returns is never one that is still in use.
THEOREM StacksSound == Spec => []FreeStackSound
<1>1. Inv => FreeStackSound
  BY DEF Inv
<1> QED
  BY <1>1, Invariance, PTL

\* A frame that invtakeframe can take is in use or can be allocated again.
THEOREM NothingLost == Spec => []NoFrameLost
<1>1. Inv => NoFrameLost
  BY DEF Inv
<1> QED
  BY <1>1, Invariance, PTL

\* The queue of victims is the set of used frames of E1, without repetition.
THEOREM VictimsExact == Spec => []EvictExact
<1>1. Inv => EvictExact
  BY DEF Inv
<1> QED
  BY <1>1, Invariance, PTL

\* invfreeframe always finds room for a used frame, in every region.
THEOREM RoomToFree == Spec => []PushRoom
<1>1. Inv => PushRoom
  BY FullStack DEF Inv
<1> QED
  BY <1>1, Invariance, PTL

\* The queue of victims is first in, first out.
THEOREM FirstInFirstOut == Spec => EvictFifo
<1>1. Inv /\ [Next]_fm => [FifoStep]_fm
  <2> SUFFICES ASSUME Inv, Next, fm' # fm PROVE FifoStep
    OBVIOUS
  <2>1. ASSUME NEW r \in Region, NEW pid \in Pid, NEW pte \in PteRef,
               Allocate(r, pid, pte)
        PROVE  FifoStep
    <3>1. PICK f \in RegionFrames(r) : Took(fm, fm', r, f, pid, pte)
      BY <2>1, AllocateStep
    <3>2. f \in Frame
      BY RegionShape
    <3> QED BY <3>1, <3>2 DEF FifoStep, Took
  <2>2. ASSUME NEW f \in Frame, Release(f)
        PROVE  FifoStep
    <3>1. PICK r \in Region : Gave(fm, fm', r, f)
      BY <2>2, ReleaseStep
    <3>2. CASE r = "E1"
      <4>1. f \in ToSet(fm.used) /\ fm.used \in Seq(Frame)
        BY <3>1, <3>2, InvInOrder, InOrderFacts DEF Gave, UsedFrames
      <4>2. \E k \in 1 .. Len(fm.used) : RemoveUsed(fm.used, f) = RemoveAt(fm.used, k)
        BY <4>1, RemoveUsedShape
      <4> QED BY <3>1, <3>2, <4>2 DEF FifoStep, Gave
    <3> QED BY <3>1, <3>2 DEF FifoStep, Gave
  <2> QED BY <2>1, <2>2 DEF Next
<1> QED
  BY <1>1, Invariance, PTL DEF Spec, EvictFifo

-----------------------------------------------------------------------------
(* InvPt: the list.                                                         *)

\* The links of tab thread the frames of q from head to tail, in both
\* directions, and no other frames.
Threads(q, tab, head, tail) ==
  /\ q \in Seq(Frame) /\ NoRepeats(q)
  /\ head = IF q = << >> THEN NoFrame ELSE q[1]
  /\ tail = IF q = << >> THEN NoFrame ELSE q[Len(q)]
  /\ \A i \in 1 .. Len(q) :
       /\ tab[q[i]].fr_next = IF i = Len(q) THEN NoFrame ELSE q[i + 1]
       /\ tab[q[i]].fr_prev = IF i = 1 THEN NoFrame ELSE q[i - 1]
  /\ \A f \in Frame \ ToSet(q) : tab[f].fr_next = NoFrame /\ tab[f].fr_prev = NoFrame

\* The link of f in one of the two directions.
Link(fwd, f) == IF fwd THEN invpt[f].fr_next ELSE invpt[f].fr_prev

\* What Walk makes of the links of one direction.
Walked(fwd, from) == IF fwd THEN Walk(from, LAMBDA f : invpt[f].fr_next)
                     ELSE Walk(from, LAMBDA f : invpt[f].fr_prev)

\* Following the links of one direction for long enough reads the whole list.
LEMMA WalkIs ==
  ASSUME NEW fwd \in BOOLEAN, NEW q \in Seq(Frame), NEW from, Len(q) <= NFRAMES_E1,
         from = IF q = << >> THEN NoFrame ELSE q[1],
         \A i \in 1 .. Len(q) : Link(fwd, q[i]) = IF i = Len(q) THEN NoFrame ELSE q[i + 1]
  PROVE  Walked(fwd, from) = q
<1> DEFINE N == NFRAMES_E1
           L(n) == IF n < Len(q) THEN n ELSE Len(q)
           Is(w) == w = [n \in 0 .. N |->
                          IF n = 0 THEN << >>
                          ELSE LET v == w[n - 1]
                                   p == IF v = << >> THEN from ELSE Link(fwd, v[Len(v)])
                               IN IF Len(v) < n - 1 \/ p = NoFrame THEN v ELSE Append(v, p)]
           walk == CHOOSE w : Is(w)
<1>1. Walked(fwd, from) = walk[N]
  <2>1. CASE fwd
    BY <2>1 DEF Walked, Walk, Link
  <2>2. CASE ~ fwd
    BY <2>2 DEF Walked, Walk, Link
  <2> QED
    BY <2>1, <2>2
<1>2. /\ q \in Seq(Frame) /\ Len(q) \in Nat /\ N \in Nat /\ NoFrame \notin Frame
      /\ from = IF q = << >> THEN NoFrame ELSE q[1]
      /\ \A i \in 1 .. Len(q) :
           /\ q[i] \in Frame
           /\ Link(fwd, q[i]) = IF i = Len(q) THEN NoFrame ELSE q[i + 1]
  BY FramesAssumption, FrameNat DEF NoFrame
<1> HIDE DEF N
<1> DEFINE Hop(v, n) == LET p == IF v = << >> THEN from ELSE Link(fwd, v[Len(v)])
                        IN IF Len(v) < n - 1 \/ p = NoFrame THEN v ELSE Append(v, p)
           G(n) == SubSeq(q, 1, L(n))
\* The walk is the part of q that n hops can reach.
<1>3. \A n \in Nat : /\ L(n) \in 0 .. Len(q) /\ G(n) \in Seq(Frame) /\ Len(G(n)) = L(n)
                     /\ \A i \in 1 .. L(n) : G(n)[i] = q[i]
  BY <1>2
<1>4. G(0) = << >>
  BY <1>2
<1>5. ASSUME NEW n \in Nat
      PROVE  G(n + 1) = Hop(G(n), n + 1)
  <2> DEFINE v == G(n)
             p == IF v = << >> THEN from ELSE Link(fwd, v[Len(v)])
  <2>1. /\ v \in Seq(Frame) /\ Len(v) = L(n) /\ L(n) \in 0 .. Len(q)
        /\ \A i \in 1 .. L(n) : v[i] = q[i]
    BY <1>3
  <2>2. CASE n < Len(q)
    <3>1. L(n) = n /\ L(n + 1) = n + 1 /\ ~ (Len(v) < (n + 1) - 1)
      BY <1>2, <2>1, <2>2
    <3>2. p = q[n + 1] /\ p \in Frame
      <4>1. q[n + 1] \in Frame
        BY <1>2, <2>2
      <4>2. CASE n = 0
        <5>1. v = << >> /\ q # << >>
          BY <1>2, <2>1, <2>2, <3>1, <4>2
        <5> QED
          BY <1>2, <4>1, <4>2, <5>1
      <4>3. CASE n # 0
        <5>1. v # << >> /\ n \in 1 .. Len(q) /\ n # Len(q) /\ v[Len(v)] = q[n]
          BY <1>2, <2>1, <2>2, <3>1, <4>3
        <5> HIDE DEF v
        <5> QED
          BY <1>2, <4>1, <5>1
      <4> QED
        BY <4>2, <4>3
    <3>3. G(n + 1) = Append(v, p)
      <4>1. /\ G(n + 1) \in Seq(Frame) /\ Len(G(n + 1)) = n + 1
            /\ \A i \in 1 .. n + 1 : G(n + 1)[i] = q[i]
        BY <1>3, <3>1
      <4>2. /\ Append(v, p) \in Seq(Frame) /\ Len(Append(v, p)) = n + 1
            /\ \A i \in 1 .. n + 1 : Append(v, p)[i] = q[i]
        BY <2>1, <3>1, <3>2
      <4> HIDE DEF G, v, p
      <4> QED
        BY <4>1, <4>2, SeqEqual
    <3> QED
      BY <1>2, <3>1, <3>2, <3>3
  <2>3. CASE ~ (n < Len(q))
    <3>1. L(n) = Len(q) /\ L(n + 1) = Len(q)
      BY <1>2, <2>3
    <3>2. Len(v) < (n + 1) - 1 \/ p = NoFrame
      <4>1. CASE n # Len(q)
        <5>1. Len(v) = Len(q)
          BY Zenon, <2>1, <3>1
        <5> HIDE DEF v, p, L
        <5>2. Len(q) < n
          BY <1>2, <2>3, <4>1
        <5> QED
          BY <1>2, <5>1, <5>2
      <4>2. CASE n = Len(q) /\ n = 0
        <5>1. v \in Seq(Frame) /\ q \in Seq(Frame) /\ Len(v) = 0 /\ Len(q) = 0
          BY <1>2, <2>1, <3>1, <4>2
        <5>2. v = << >> /\ q = << >>
          <6> HIDE DEF v
          <6> QED
            BY <5>1, EmptySeq
        <5> QED
          BY <1>2, <5>2
      <4>3. CASE n = Len(q) /\ n # 0
        <5>1. v # << >> /\ n \in 1 .. Len(q) /\ v[Len(v)] = q[Len(q)]
          BY <1>2, <2>1, <3>1, <4>3
        <5> HIDE DEF v
        <5> QED
          BY <1>2, <4>3, <5>1
      <4> QED
        BY <4>1, <4>2, <4>3
    <3> QED
      BY <3>1, <3>2
  <2> QED
    BY <2>2, <2>3
<1> HIDE DEF Hop
<1>6. \E w : Is(w)
  <2> DEFINE g == [n \in 0 .. N |-> G(n)]
  <2>1. \A n \in 0 .. N : g[n] = IF n = 0 THEN << >> ELSE Hop(g[n - 1], n)
    <3> SUFFICES ASSUME NEW n \in 0 .. N
                 PROVE  g[n] = IF n = 0 THEN << >> ELSE Hop(g[n - 1], n)
      OBVIOUS
    <3>1. CASE n = 0
      BY <1>2, <1>4, <3>1
    <3>2. CASE n # 0
      <4>1. n - 1 \in Nat /\ n - 1 \in 0 .. N /\ (n - 1) + 1 = n
        BY <1>2, <3>2
      <4>2. g[n] = G(n) /\ g[n - 1] = G(n - 1)
        BY <4>1
      <4> HIDE DEF G, g
      <4> QED
        BY <1>5, <3>2, <4>1, <4>2
    <3> QED
      BY <3>1, <3>2
  <2>2. Is(g)
    <3> HIDE DEF G
    <3> QED
      BY <2>1 DEF Hop
  <2> QED
    BY <2>2
<1>7. Is(walk)
  <2> HIDE DEF Is
  <2> QED
    BY <1>6
<1> HIDE DEF walk
<1>8. \A n \in 0 .. N : walk[n] = IF n = 0 THEN << >> ELSE Hop(walk[n - 1], n)
  BY <1>7 DEF Hop
<1> HIDE DEF Is, G
<1> DEFINE U == {n \in 0 .. N : walk[n] = G(n)}
<1>9. 0 \in U
  BY <1>2, <1>4, <1>8
<1>10. ASSUME NEW n \in 0 .. N - 1, n \in U
       PROVE  n + 1 \in U
  <2>1. n \in Nat /\ n + 1 \in 0 .. N /\ n + 1 # 0 /\ (n + 1) - 1 = n
    BY <1>2
  <2>2. walk[n + 1] = Hop(walk[n], n + 1) /\ walk[n] = G(n)
    BY <1>8, <1>10, <2>1
  <2> QED
    BY <1>5, <2>1, <2>2
<1> HIDE DEF U
<1>11. 0 .. N \subseteq U
  BY <1>2, <1>9, <1>10, InductTo
<1>12. walk[N] = G(N)
  <2>1. N \in 0 .. N
    BY <1>2
  <2> QED
    BY <1>11, <2>1 DEF U
<1>13. G(N) = q
  BY <1>2, <1>3 DEF N, G
<1> QED
  BY <1>1, <1>12, <1>13

\* Both ends are at the same list, which is Queue, and read from behind it is
\* the same list backwards.
LEMMA QueueIs ==
  ASSUME NEW q, Threads(q, invpt, evicthead, evicttail), Len(q) <= NFRAMES_E1
  PROVE  Queue = q /\ Walk(evicttail, LAMBDA f : invpt[f].fr_prev) = Reverse(q)
<1>1. /\ q \in Seq(Frame) /\ Len(q) \in Nat
      /\ \A i \in 1 .. Len(q) :
           /\ invpt[q[i]].fr_next = IF i = Len(q) THEN NoFrame ELSE q[i + 1]
           /\ invpt[q[i]].fr_prev = IF i = 1 THEN NoFrame ELSE q[i - 1]
      /\ evicthead = IF q = << >> THEN NoFrame ELSE q[1]
      /\ evicttail = IF q = << >> THEN NoFrame ELSE q[Len(q)]
  BY DEF Threads
<1>2. Walked(TRUE, evicthead) = q
  BY <1>1, WalkIs DEF Link
<1>3. PICK z : z = Reverse(q)
  OBVIOUS
<1>4. /\ z \in Seq(Frame) /\ Len(z) = Len(q)
      /\ \A i \in 1 .. Len(q) : z[i] = q[Len(q) - i + 1]
  BY <1>1, <1>3 DEF Reverse
<1>5. evicttail = IF z = << >> THEN NoFrame ELSE z[1]
  BY <1>1, <1>4, EmptySeq
<1>6. \A i \in 1 .. Len(z) : Link(FALSE, z[i]) = IF i = Len(z) THEN NoFrame ELSE z[i + 1]
  <2> SUFFICES ASSUME NEW i \in 1 .. Len(z)
               PROVE  Link(FALSE, z[i]) = IF i = Len(z) THEN NoFrame ELSE z[i + 1]
    OBVIOUS
  <2>1. PICK j : j = Len(q) - i + 1
    OBVIOUS
  <2>2. j \in 1 .. Len(q) /\ z[i] = q[j] /\ (j = 1 <=> i = Len(z))
    BY <1>1, <1>4, <2>1
  <2>3. Link(FALSE, z[i]) = IF j = 1 THEN NoFrame ELSE q[j - 1]
    BY <1>1, <2>2 DEF Link
  <2>4. j # 1 => z[i + 1] = q[j - 1]
    <3>1. j # 1 => i + 1 \in 1 .. Len(q) /\ Len(q) - (i + 1) + 1 = j - 1
      BY <1>1, <1>4, <2>1, <2>2
    <3> QED
      BY <1>4, <3>1
  <2> QED
    BY <2>2, <2>3, <2>4
<1>7. Walked(FALSE, evicttail) = z
  BY <1>1, <1>4, <1>5, <1>6, WalkIs
<1> QED
  BY <1>2, <1>3, <1>7 DEF Walked, Queue

\* The entries of the table.
Entry == [fr_state : {"FREE", "USED"}, fr_pid : Pid, fr_pte : PteRef,
          fr_next : Frame \cup {NoFrame}, fr_prev : Frame \cup {NoFrame}]

\* What a list says of the frame at one place, and who is at the ends.
LEMMA ThreadsFacts ==
  ASSUME NEW q, NEW tab, NEW head, NEW tail, Threads(q, tab, head, tail)
  PROVE  /\ q \in Seq(Frame) /\ Len(q) \in Nat /\ NoFrame \notin Frame
         /\ \A i \in 1 .. Len(q) : q[i] \in Frame /\ q[i] \in ToSet(q)
         /\ \A f \in ToSet(q) : \E i \in 1 .. Len(q) : q[i] = f
         /\ (q = << >>) <=> (Len(q) = 0)
<1>1. q \in Seq(Frame)
  BY DEF Threads
<1>2. NoFrame \notin Frame
  BY FrameNat DEF NoFrame
<1> QED
  BY <1>1, <1>2, EmptySeq DEF ToSet

\* __insert_to_used_ll (framemgmt.c:54-72) appends the frame.
LEMMA ThreadsInsert ==
  ASSUME NEW q, NEW tab \in [Frame -> Entry], NEW head, NEW tail, Threads(q, tab, head, tail),
         NEW f \in Frame \ ToSet(q), NEW used \in Entry, NEW u,
         u = [e \in Frame |->
                IF e = f THEN [used EXCEPT !.fr_prev = tail, !.fr_next = NoFrame]
                ELSE IF e = tail THEN [tab[e] EXCEPT !.fr_next = f]
                ELSE tab[e]]
  PROVE  Threads(Append(q, f), u, IF head = NoFrame THEN f ELSE head, f)
<1> DEFINE t == Append(q, f)
           n == Len(q)
<1>1. /\ q \in Seq(Frame) /\ n \in Nat /\ NoFrame \notin Frame
      /\ \A i \in 1 .. n : q[i] \in Frame /\ q[i] \in ToSet(q)
      /\ (q = << >>) <=> (n = 0)
  BY ThreadsFacts
<1>2. /\ t \in Seq(Frame) /\ Len(t) = n + 1
      /\ \A i \in 1 .. n + 1 : t[i] = IF i = n + 1 THEN f ELSE q[i]
      /\ t # << >>
  BY <1>1
<1>3. NoRepeats(q)
  BY DEF Threads
<1>4. NoRepeats(t) /\ ToSet(t) = ToSet(q) \cup {f}
  BY <1>1, <1>3, AppendSound
<1>5. /\ head = IF n = 0 THEN NoFrame ELSE q[1]
      /\ tail = IF n = 0 THEN NoFrame ELSE q[n]
      /\ \A i \in 1 .. n : /\ tab[q[i]].fr_next = IF i = n THEN NoFrame ELSE q[i + 1]
                           /\ tab[q[i]].fr_prev = IF i = 1 THEN NoFrame ELSE q[i - 1]
      /\ \A e \in Frame \ ToSet(q) : tab[e].fr_next = NoFrame /\ tab[e].fr_prev = NoFrame
  BY <1>1 DEF Threads
<1>6. \A e \in Frame :
        /\ u[e].fr_next = IF e = f THEN NoFrame ELSE IF e = tail THEN f ELSE tab[e].fr_next
        /\ u[e].fr_prev = IF e = f THEN tail ELSE tab[e].fr_prev
  BY DEF Entry
<1> HIDE DEF t
<1>7. (IF head = NoFrame THEN f ELSE head) = t[1]
  BY <1>1, <1>2, <1>5
<1>8. \A i \in 1 .. n + 1 : /\ u[t[i]].fr_next = IF i = n + 1 THEN NoFrame ELSE t[i + 1]
                            /\ u[t[i]].fr_prev = IF i = 1 THEN NoFrame ELSE t[i - 1]
  <2> SUFFICES ASSUME NEW i \in 1 .. n + 1
               PROVE  /\ u[t[i]].fr_next = IF i = n + 1 THEN NoFrame ELSE t[i + 1]
                      /\ u[t[i]].fr_prev = IF i = 1 THEN NoFrame ELSE t[i - 1]
    OBVIOUS
  <2>1. CASE i = n + 1
    <3>1. t[i] = f /\ (i # 1 => t[i - 1] = q[n])
      BY <1>1, <1>2, <2>1
    <3>2. u[f].fr_next = NoFrame /\ u[f].fr_prev = tail
      BY <1>6
    <3>3. i = 1 <=> n = 0
      BY <1>1, <2>1
    <3> QED
      BY <1>5, <2>1, <3>1, <3>2, <3>3
  <2>2. CASE i # n + 1
    <3>1. i \in 1 .. n /\ t[i] = q[i] /\ q[i] # f /\ (i # 1 => t[i - 1] = q[i - 1])
      BY <1>1, <1>2, <2>2
    <3>2. i # n => i + 1 \in 1 .. n /\ q[i] # q[n]
      BY <1>1, <1>3, <3>1 DEF NoRepeats
    <3>3. i + 1 \in 1 .. n + 1 /\ t[i + 1] = IF i = n THEN f ELSE q[i + 1]
      BY <1>1, <1>2, <3>1
    <3>4. /\ u[q[i]].fr_next = IF i = n THEN f ELSE tab[q[i]].fr_next
          /\ u[q[i]].fr_prev = tab[q[i]].fr_prev
      BY <1>1, <1>5, <1>6, <3>1, <3>2
    <3> QED
      BY <1>1, <1>5, <2>2, <3>1, <3>3, <3>4
  <2> QED
    BY <2>1, <2>2
<1>9. \A e \in Frame \ ToSet(t) : u[e].fr_next = NoFrame /\ u[e].fr_prev = NoFrame
  BY <1>1, <1>4, <1>5, <1>6
<1>10. f = t[n + 1]
  BY <1>1, <1>2
<1>11. /\ (IF head = NoFrame THEN f ELSE head) = IF t = << >> THEN NoFrame ELSE t[1]
       /\ f = IF t = << >> THEN NoFrame ELSE t[Len(t)]
  BY <1>2, <1>7, <1>10
<1>12. \A i \in 1 .. Len(t) : /\ u[t[i]].fr_next = IF i = Len(t) THEN NoFrame ELSE t[i + 1]
                              /\ u[t[i]].fr_prev = IF i = 1 THEN NoFrame ELSE t[i - 1]
  <2>1. Len(t) = n + 1
    BY <1>2
  <2> QED
    BY Zenon, <1>8, <2>1
<1>13. Threads(t, u, IF head = NoFrame THEN f ELSE head, f)
  BY Zenon, <1>2, <1>4, <1>9, <1>11, <1>12 DEF Threads
<1> QED
  BY <1>13 DEF t
\* The table u is tab without f between p and n, and f is FREE.
Unchained(u, tab, f, p, n) ==
  u = [e \in Frame |->
         IF e = f THEN [tab[f] EXCEPT !.fr_state = "FREE", !.fr_next = NoFrame, !.fr_prev = NoFrame]
         ELSE IF e = p THEN [tab[e] EXCEPT !.fr_next = n]
         ELSE IF e = n THEN [tab[e] EXCEPT !.fr_prev = p]
         ELSE tab[e]]

\* __remove_from_used_ll (framemgmt.c:25-51) takes the frame out, wherever it is.
LEMMA ThreadsRemove ==
  ASSUME NEW q, NEW tab \in [Frame -> Entry], NEW head, NEW tail, Threads(q, tab, head, tail),
         NEW f \in ToSet(q), NEW p, NEW n, p = tab[f].fr_prev, n = tab[f].fr_next, NEW u,
         Unchained(u, tab, f, p, n)
  PROVE  Threads(RemoveUsed(q, f), u, IF f = head THEN n ELSE head, IF f = tail THEN p ELSE tail)
<1>1. /\ q \in Seq(Frame) /\ Len(q) \in Nat /\ NoFrame \notin Frame
      /\ \A i \in 1 .. Len(q) : q[i] \in Frame /\ q[i] \in ToSet(q)
      /\ (q = << >>) <=> (Len(q) = 0)
      /\ f \in Frame
  BY ThreadsFacts
<1> DEFINE t == RemoveUsed(q, f)
           m == Len(q)
<1>2. NoRepeats(q)
  BY DEF Threads
<1>3. PICK k \in 1 .. m :
        /\ q[k] = f /\ t \in Seq(Frame) /\ Len(t) = m - 1
        /\ \A i \in 1 .. m - 1 : t[i] = IF i < k THEN q[i] ELSE q[i + 1]
  BY <1>1, RemoveUsedShape
<1>4. NoRepeats(t) /\ ToSet(t) = ToSet(q) \ {f}
  BY <1>1, <1>2, RemoveUsedSound
<1> HIDE DEF t
<1>5. /\ head = q[1] /\ tail = q[m]
      /\ \A i \in 1 .. m : /\ tab[q[i]].fr_next = IF i = m THEN NoFrame ELSE q[i + 1]
                           /\ tab[q[i]].fr_prev = IF i = 1 THEN NoFrame ELSE q[i - 1]
      /\ \A e \in Frame \ ToSet(q) : tab[e].fr_next = NoFrame /\ tab[e].fr_prev = NoFrame
  BY <1>1, <1>3 DEF Threads
<1>6. /\ p = IF k = 1 THEN NoFrame ELSE q[k - 1]
      /\ n = IF k = m THEN NoFrame ELSE q[k + 1]
  BY <1>3, <1>5
<1>7. \A i, j \in 1 .. m : q[i] = q[j] => i = j
  BY <1>2 DEF NoRepeats
<1>8. p # n \/ (p = NoFrame /\ n = NoFrame)
  BY <1>1, <1>6, <1>7
<1>9. \A e \in Frame :
        /\ u[e].fr_next = IF e = f THEN NoFrame ELSE IF e = p THEN n ELSE tab[e].fr_next
        /\ u[e].fr_prev = IF e = f THEN NoFrame ELSE IF e = n THEN p ELSE tab[e].fr_prev
  BY <1>1, <1>8 DEF Entry, Unchained
<1>10. Len(t) = m - 1 /\ ((t = << >>) <=> (m = 1)) /\ m \in Nat \ {0}
  BY <1>1, <1>3, EmptySeq
<1>11. (IF f = head THEN n ELSE head) = IF t = << >> THEN NoFrame ELSE t[1]
  <2>1. f = head <=> k = 1
    BY <1>3, <1>5, <1>7, <1>10
  <2>2. m # 1 => t[1] = IF k = 1 THEN q[2] ELSE q[1]
    BY <1>3, <1>10
  <2> QED
    BY <1>3, <1>5, <1>6, <1>10, <2>1, <2>2
<1>12. (IF f = tail THEN p ELSE tail) = IF t = << >> THEN NoFrame ELSE t[m - 1]
  <2>1. f = tail <=> k = m
    BY <1>3, <1>5, <1>7, <1>10
  <2>2. m # 1 => t[m - 1] = IF k = m THEN q[m - 1] ELSE q[m]
    BY <1>3, <1>10
  <2> QED
    BY <1>3, <1>5, <1>6, <1>10, <2>1, <2>2
<1>13. \A i \in 1 .. m - 1 :
         /\ u[t[i]].fr_next = IF i = m - 1 THEN NoFrame ELSE t[i + 1]
         /\ u[t[i]].fr_prev = IF i = 1 THEN NoFrame ELSE t[i - 1]
  <2> SUFFICES ASSUME NEW i \in 1 .. m - 1
               PROVE  /\ u[t[i]].fr_next = IF i = m - 1 THEN NoFrame ELSE t[i + 1]
                      /\ u[t[i]].fr_prev = IF i = 1 THEN NoFrame ELSE t[i - 1]
    OBVIOUS
  <2> DEFINE j == IF i < k THEN i ELSE i + 1
  <2>1. j \in 1 .. m /\ j # k /\ t[i] = q[j] /\ q[j] \in Frame /\ q[j] # f
    BY <1>1, <1>3, <1>7, <1>10
  <2>2. /\ q[j] = p <=> j = k - 1
        /\ q[j] = n <=> j = k + 1
    <3> HIDE DEF j
    <3>1. k # 1 => k - 1 \in 1 .. m /\ p = q[k - 1]
      BY <1>3, <1>6, <1>10
    <3>2. k # m => k + 1 \in 1 .. m /\ n = q[k + 1]
      BY <1>3, <1>6, <1>10
    <3>3. q[j] = p <=> j = k - 1
      <4>1. CASE k = 1
        BY <1>1, <1>6, <2>1, <4>1
      <4>2. CASE k # 1
        BY <1>7, <2>1, <3>1, <4>2
      <4> QED
        BY <4>1, <4>2
    <3>4. q[j] = n <=> j = k + 1
      <4>1. CASE k = m
        BY <1>1, <1>6, <2>1, <4>1
      <4>2. CASE k # m
        BY <1>7, <2>1, <3>2, <4>2
      <4> QED
        BY <4>1, <4>2
    <3> QED
      BY <3>3, <3>4
  <2>3. i # m - 1 => i + 1 \in 1 .. m - 1 /\ t[i + 1] = IF i + 1 < k THEN q[i + 1] ELSE q[(i + 1) + 1]
    <3> SUFFICES ASSUME i # m - 1
                 PROVE  /\ i + 1 \in 1 .. m - 1
                        /\ t[i + 1] = IF i + 1 < k THEN q[i + 1] ELSE q[(i + 1) + 1]
      OBVIOUS
    <3>1. i + 1 \in 1 .. m - 1
      BY <1>10
    <3> QED
      BY <1>3, <3>1
  <2>4. i # 1 => i - 1 \in 1 .. m - 1 /\ t[i - 1] = IF i - 1 < k THEN q[i - 1] ELSE q[i]
    BY <1>3, <1>10
  <2>5. /\ u[t[i]].fr_next = IF j = k - 1 THEN n ELSE tab[q[j]].fr_next
        /\ u[t[i]].fr_prev = IF j = k + 1 THEN p ELSE tab[q[j]].fr_prev
    BY <1>9, <2>1, <2>2
  <2>6. u[t[i]].fr_next = IF i = m - 1 THEN NoFrame ELSE t[i + 1]
    <3>1. tab[q[j]].fr_next = IF j = m THEN NoFrame ELSE q[j + 1]
      BY <1>5, <2>1
    <3>2. CASE i = m - 1
      <4>1. j = m \/ (j = m - 1 /\ k = m)
        BY <1>10, <3>2
      <4> QED
        BY <1>6, <1>10, <2>5, <3>1, <3>2, <4>1
    <3>3. CASE i # m - 1
      <4>1. CASE i = k - 1
        BY <1>6, <1>10, <2>3, <2>5, <3>3, <4>1
      <4>2. CASE i + 1 < k
        BY <1>10, <2>3, <2>5, <3>1, <3>3, <4>2
      <4>3. CASE k <= i
        BY <1>10, <2>3, <2>5, <3>1, <3>3, <4>3
      <4> QED
        BY <1>10, <4>1, <4>2, <4>3
    <3> QED
      BY <3>2, <3>3
  <2>7. u[t[i]].fr_prev = IF i = 1 THEN NoFrame ELSE t[i - 1]
    <3>1. tab[q[j]].fr_prev = IF j = 1 THEN NoFrame ELSE q[j - 1]
      BY <1>5, <2>1
    <3>2. CASE i = 1
      <4>1. j = 1 \/ (j = 2 /\ k = 1)
        BY <1>10, <3>2
      <4> QED
        BY <1>6, <1>10, <2>5, <3>1, <3>2, <4>1
    <3>3. CASE i # 1
      <4>1. CASE i = k
        BY <1>6, <1>10, <2>4, <2>5, <3>3, <4>1
      <4>2. CASE i < k
        BY <1>10, <2>4, <2>5, <3>1, <3>3, <4>2
      <4>3. CASE k < i
        BY <1>10, <2>4, <2>5, <3>1, <3>3, <4>3
      <4> QED
        BY <1>10, <4>1, <4>2, <4>3
    <3> QED
      BY <3>2, <3>3
  <2> QED
    BY <2>6, <2>7
<1>14. \A e \in Frame \ ToSet(t) : u[e].fr_next = NoFrame /\ u[e].fr_prev = NoFrame
  <2> SUFFICES ASSUME NEW e \in Frame \ ToSet(t)
               PROVE  u[e].fr_next = NoFrame /\ u[e].fr_prev = NoFrame
    OBVIOUS
  <2>1. CASE e = f
    BY <1>9, <2>1
  <2>2. CASE e # f
    <3>1. e \in Frame \ ToSet(q)
      BY <1>4, <2>2
    <3>2. e # p /\ e # n
      BY <1>1, <1>3, <1>6, <3>1
    <3> QED
      BY <1>5, <1>9, <2>2, <3>1, <3>2
  <2> QED
    BY <2>1, <2>2
<1>15. (IF f = tail THEN p ELSE tail) = IF t = << >> THEN NoFrame ELSE t[Len(t)]
  BY <1>3, <1>12
<1>16. \A i \in 1 .. Len(t) : /\ u[t[i]].fr_next = IF i = Len(t) THEN NoFrame ELSE t[i + 1]
                              /\ u[t[i]].fr_prev = IF i = 1 THEN NoFrame ELSE t[i - 1]
  BY <1>3, <1>13
<1>17. Threads(t, u, IF f = head THEN n ELSE head, IF f = tail THEN p ELSE tail)
  BY Zenon, <1>3, <1>4, <1>11, <1>14, <1>15, <1>16 DEF Threads
<1> QED
  BY <1>17 DEF t
-----------------------------------------------------------------------------
(* The tables.                                                              *)

\* The entries, the arrays and the stack pointers.
ArraysOK ==
  /\ invpt \in [Frame -> Entry]
  /\ \A r \in Region : frsp[r] \in 0 .. RegionSize(r)
  /\ frsp = [r \in Region |-> frsp[r]]
  /\ frstack = [r \in Region |-> frstack[r]]
  /\ \A r \in Region : frstack[r] \in [0 .. RegionSize(r) - 1 -> RegionFrames(r)]

\* The variables represent the table t, which is in order.
Represents(t) ==
  /\ InOrder(t)
  /\ t.state = [f \in Frame |-> invpt[f].fr_state]
  /\ t.pid = [f \in Frame |-> invpt[f].fr_pid]
  /\ t.pte = [f \in Frame |-> invpt[f].fr_pte]
  /\ t.refcnt = [f \in Frame |-> 0]
  /\ t.free = [r \in Region |-> [i \in 1 .. RegionSize(r) - frsp[r] |->
                                   frstack[r][frsp[r] + i - 1]]]
  /\ Threads(t.used, invpt, evicthead, evicttail)

\* The inductive invariant: the arrays and links are a table in order.
IInv == ArraysOK /\ Represents(tables)

\* A queue of frames of E1 is not longer than E1.
LEMMA QueueFits ==
  ASSUME NEW s \in Seq(Frame), NoRepeats(s), ToSet(s) \subseteq RegionFrames("E1")
  PROVE  Len(s) <= NFRAMES_E1
<1> DEFINE N == Len(s)
           b == FRAME0_E1
           n == NFRAMES_E1
           T == b .. b + n - 1
<1>1. n \in Nat /\ b \in Nat /\ N \in Nat /\ RegionFrames("E1") = T
  BY FramesAssumption DEF RegionFrames, RegionSize, RegionBase, FRAME0_E1
<1>2. IsFiniteSet(1 .. N) /\ Cardinality(1 .. N) = N
  <2> HIDE DEF N
  <2> QED
    BY <1>1, FS_Interval
<1> HIDE DEF b, n
<1>3. IsFiniteSet(T) /\ Cardinality(T) = n
  BY <1>1, FS_Interval
<1>4. s \in [1 .. N -> T]
  <2>1. \A i \in 1 .. N : s[i] \in ToSet(s)
    BY DEF ToSet
  <2>2. s = [i \in 1 .. N |-> s[i]]
    OBVIOUS
  <2> QED
    BY <1>1, <2>1, <2>2
<1> HIDE DEF T
<1>5. CASE N > n
  <2>1. \E i, j \in 1 .. N : i # j /\ s[i] = s[j]
    BY <1>1, <1>2, <1>3, <1>4, <1>5, FS_PigeonHole
  <2> QED
    BY <2>1 DEF NoRepeats
<1> QED
  BY <1>1, <1>5 DEF n

OneTable == \A t : Represents(t) => tables = t

\* Only one table is represented: the one that tables reads.
LEMMA TableIs == OneTable
<1> SUFFICES ASSUME NEW t, Represents(t) PROVE tables = t
  BY DEF OneTable
<1>1. /\ t.used \in Seq(Frame) /\ NoRepeats(t.used)
      /\ ToSet(t.used) = UsedFrames(t, "E1")
  BY InOrderFacts DEF Represents
<1>2. Queue = t.used
  BY <1>1, QueueFits, QueueIs DEF Represents, UsedFrames
<1>3. t = [state |-> t.state, pid |-> t.pid, pte |-> t.pte, refcnt |-> t.refcnt,
           free |-> t.free, used |-> t.used]
  <2>1. t \in FrameTable
    BY DEF Represents, InOrder
  <2> QED
    BY <2>1 DEF FrameTable
<1> QED
  BY <1>2, <1>3 DEF tables, Represents
\* A list stays what it is if no link changes.
LEMMA ThreadsSame ==
  ASSUME NEW q, NEW tab, NEW head, NEW tail, Threads(q, tab, head, tail), NEW u,
         \A f \in Frame : u[f].fr_next = tab[f].fr_next /\ u[f].fr_prev = tab[f].fr_prev
  PROVE  Threads(q, u, head, tail)
<1>1. \A i \in 1 .. Len(q) : q[i] \in Frame
  BY ThreadsFacts
<1> QED
  BY <1>1 DEF Threads

\* What the invariant says, part by part.
LEMMA IInvFacts ==
  ASSUME IInv
  PROVE  /\ InOrder(tables)
         /\ invpt \in [Frame -> Entry]
         /\ \A f \in Frame : /\ tables.state[f] = invpt[f].fr_state /\ tables.pid[f] = invpt[f].fr_pid
                             /\ tables.pte[f] = invpt[f].fr_pte
         /\ tables.state \in [Frame -> {"FREE", "USED"}] /\ tables.pid \in [Frame -> Pid]
         /\ tables.pte \in [Frame -> PteRef] /\ tables.refcnt = [f \in Frame |-> 0]
         /\ \A r \in Region :
              /\ frsp[r] \in 0 .. RegionSize(r) /\ RegionSize(r) \in Nat
              /\ frstack[r] \in [0 .. RegionSize(r) - 1 -> RegionFrames(r)]
              /\ tables.free[r] \in Seq(Frame) /\ Len(tables.free[r]) = RegionSize(r) - frsp[r]
              /\ \A i \in 1 .. RegionSize(r) - frsp[r] :
                   tables.free[r][i] = frstack[r][frsp[r] + i - 1]
         /\ tables.free \in [Region -> Seq(Frame)]
         /\ Threads(tables.used, invpt, evicthead, evicttail)
         /\ \A f \in Frame : f \in ToSet(tables.used) <=> f \in RegionFrames("E1") /\ tables.state[f] = "USED"
<1>1. /\ InOrder(tables) /\ invpt \in [Frame -> Entry] /\ tables.refcnt = [f \in Frame |-> 0]
      /\ Threads(tables.used, invpt, evicthead, evicttail)
      /\ \A f \in Frame : /\ tables.state[f] = invpt[f].fr_state /\ tables.pid[f] = invpt[f].fr_pid
                          /\ tables.pte[f] = invpt[f].fr_pte
  BY DEF IInv, Represents, ArraysOK
<1>2. /\ tables.state \in [Frame -> {"FREE", "USED"}] /\ tables.pid \in [Frame -> Pid]
      /\ tables.pte \in [Frame -> PteRef] /\ tables.free \in [Region -> Seq(Frame)]
      /\ ToSet(tables.used) = UsedFrames(tables, "E1")
  BY <1>1, InOrderFacts
<1>3. \A f \in Frame : f \in ToSet(tables.used) <=> f \in RegionFrames("E1") /\ tables.state[f] = "USED"
  BY <1>2 DEF UsedFrames
<1>4. ASSUME NEW r \in Region
      PROVE  /\ frsp[r] \in 0 .. RegionSize(r) /\ RegionSize(r) \in Nat
             /\ frstack[r] \in [0 .. RegionSize(r) - 1 -> RegionFrames(r)]
             /\ tables.free[r] \in Seq(Frame) /\ Len(tables.free[r]) = RegionSize(r) - frsp[r]
             /\ \A i \in 1 .. RegionSize(r) - frsp[r] :
                  tables.free[r][i] = frstack[r][frsp[r] + i - 1]
  <2>1. /\ frsp[r] \in 0 .. RegionSize(r) /\ RegionSize(r) \in Nat
        /\ frstack[r] \in [0 .. RegionSize(r) - 1 -> RegionFrames(r)]
    BY RegionShape DEF IInv, ArraysOK
  <2>2. tables.free[r] = [i \in 1 .. RegionSize(r) - frsp[r] |-> frstack[r][frsp[r] + i - 1]]
    BY DEF IInv, Represents
  <2>3. tables.free[r] \in Seq(Frame)
    BY <1>2
  <2>4. PICK n : n = RegionSize(r) - frsp[r]
    OBVIOUS
  <2>5. n \in Nat /\ tables.free[r] = [i \in 1 .. n |-> frstack[r][frsp[r] + i - 1]]
    BY <2>1, <2>2, <2>4
  <2>6. Len(tables.free[r]) = n
    BY <2>3, <2>5
  <2> QED
    BY <2>1, <2>3, <2>4, <2>5, <2>6
<1> QED
  BY <1>1, <1>2, <1>3, <1>4

-----------------------------------------------------------------------------
(* The steps.                                                               *)

\* init_invpt (framemgmt.c:99-119).
LEMMA InitIInv == InvptInit => IInv /\ tables = init_invpt
<1> SUFFICES ASSUME InvptInit PROVE IInv /\ tables = init_invpt
  OBVIOUS
<1>1. InOrder(init_invpt)
  BY InitTable
<1>2. Threads(<< >>, invpt, evicthead, evicttail)
  BY DEF InvptInit, Threads, NoRepeats
<1>3. ArraysOK
  <2>1. \A r \in Region : /\ RegionSize(r) \in Nat \ {0} /\ RegionBase(r) \in Nat \ {0}
                          /\ RegionFrames(r) = RegionBase(r) .. RegionBase(r) + RegionSize(r) - 1
    BY RegionShape DEF RegionFrames
  <2>2. invpt \in [Frame -> Entry]
    BY FramesAssumption DEF InvptInit, Entry
  <2>3. \A r \in Region : frstack[r] \in [0 .. RegionSize(r) - 1 -> RegionFrames(r)]
    <3> SUFFICES ASSUME NEW r \in Region
                 PROVE  frstack[r] \in [0 .. RegionSize(r) - 1 -> RegionFrames(r)]
      OBVIOUS
    <3>1. frstack[r] = [i \in 0 .. RegionSize(r) - 1 |-> i + RegionBase(r)]
      BY DEF InvptInit
    <3> QED
      BY <2>1, <3>1
  <2> QED
    BY <2>1, <2>2, <2>3 DEF InvptInit, ArraysOK
<1>4. \A r \in Region : [i \in 1 .. RegionSize(r) - frsp[r] |-> frstack[r][frsp[r] + i - 1]]
                        = [i \in 1 .. RegionSize(r) |-> RegionBase(r) + i - 1]
  <2> SUFFICES ASSUME NEW r \in Region
               PROVE  [i \in 1 .. RegionSize(r) - frsp[r] |-> frstack[r][frsp[r] + i - 1]]
                        = [i \in 1 .. RegionSize(r) |-> RegionBase(r) + i - 1]
    OBVIOUS
  <2>1. frsp[r] = 0 /\ frstack[r] = [i \in 0 .. RegionSize(r) - 1 |-> i + RegionBase(r)]
        /\ RegionSize(r) \in Nat /\ RegionBase(r) \in Nat
    BY RegionShape DEF InvptInit
  <2>2. RegionSize(r) - frsp[r] = RegionSize(r)
    BY <2>1
  <2>3. \A i \in 1 .. RegionSize(r) : frstack[r][frsp[r] + i - 1] = RegionBase(r) + i - 1
    BY <2>1
  <2> QED
    BY <2>2, <2>3
<1>5. Represents(init_invpt)
  BY <1>1, <1>2, <1>4 DEF Represents, init_invpt, InvptInit
<1> QED
  BY <1>3, <1>5, TableIs DEF IInv, OneTable
\* The stack of r after its pointer has moved and one place was written: the
\* arrays of all other regions are as before.
Stacks(t, sp, stack) ==
  t.free = [r \in Region |-> [i \in 1 .. RegionSize(r) - sp[r] |-> stack[r][sp[r] + i - 1]]]

\* Stack pointers, and the arrays of the regions.
Pointers(sp) == /\ \A q \in Region : sp[q] \in 0 .. RegionSize(q)
                /\ sp = [q \in Region |-> sp[q]]
Arrays(stack) == /\ stack = [q \in Region |-> stack[q]]
                 /\ \A q \in Region : stack[q] \in [0 .. RegionSize(q) - 1 -> RegionFrames(q)]

Pops(t, u, r) == t.free \in [Region -> Seq(Frame)] /\ u.free = [t.free EXCEPT ![r] = Tail(@)]
Pushes(t, u, r, f) == /\ t.free \in [Region -> Seq(Frame)]
                      /\ u.free = [t.free EXCEPT ![r] = <<f>> \o @]

\* getfreeframe (framemgmt.c:155-179): the pointer moves past the frame on top.
LEMMA Pop ==
  ASSUME NEW sp, NEW stack, NEW t, NEW u, NEW r \in Region,
         Pointers(sp), Stacks(t, sp, stack), sp[r] # RegionSize(r),
         Pops(t, u, r)
  PROVE  /\ Stacks(u, [sp EXCEPT ![r] = @ + 1], stack)
         /\ t.free[r] # << >> /\ Head(t.free[r]) = stack[r][sp[r]]
         /\ sp[r] + 1 \in 0 .. RegionSize(r)
<1> USE DEF Pops
<1> DEFINE S(z, q) == [i \in 1 .. RegionSize(q) - z[q] |-> stack[q][z[q] + i - 1]]
           w == [sp EXCEPT ![r] = @ + 1]
<1>1. PICK n, m : n = RegionSize(r) /\ m = sp[r]
  OBVIOUS
<1>2. n \in Nat /\ m \in 0 .. n /\ m # n
  BY <1>1, RegionShape DEF Pointers, Arrays
<1>3. t.free[r] = [i \in 1 .. n - m |-> stack[r][m + i - 1]] /\ t.free[r] \in Seq(Frame)
  <2>1. t.free[r] = [i \in 1 .. RegionSize(r) - sp[r] |-> stack[r][sp[r] + i - 1]]
    BY DEF Stacks
  <2> QED
    BY <1>1, <2>1
<1>4. Len(t.free[r]) = n - m
  BY <1>2, <1>3
<1>5. t.free[r] # << >> /\ Head(t.free[r]) = stack[r][m]
  <2>1. t.free[r][1] = stack[r][m + 1 - 1] /\ m + 1 - 1 = m
    BY <1>2, <1>3
  <2>2. t.free[r] # << >>
    BY <1>2, <1>4
  <2> QED
    BY <1>3, <2>1, <2>2
<1>6. Tail(t.free[r]) = [i \in 1 .. n - (m + 1) |-> stack[r][(m + 1) + i - 1]]
  <2>1. Tail(t.free[r]) = [i \in 1 .. (n - m) - 1 |-> t.free[r][i + 1]]
    <3> DEFINE l == t.free[r]
    <3>1. l \in Seq(Frame) /\ l # << >> /\ Len(l) = n - m
      BY <1>3, <1>4, <1>5
    <3> HIDE DEF l
    <3>2. /\ Tail(l) \in Seq(Frame) /\ Len(Tail(l)) = (n - m) - 1
          /\ \A i \in 1 .. (n - m) - 1 : Tail(l)[i] = l[i + 1]
      BY <3>1, HeadTailProperties
    <3> QED
      BY <3>2 DEF l
  <2>2. \A i \in 1 .. (n - m) - 1 : i + 1 \in 1 .. n - m /\ m + (i + 1) - 1 = (m + 1) + i - 1
    BY <1>2
  <2>3. \A i \in 1 .. (n - m) - 1 : t.free[r][i + 1] = stack[r][(m + 1) + i - 1]
    BY <1>3, <2>2
  <2>4. (n - m) - 1 = n - (m + 1)
    BY <1>2
  <2> QED
    BY <2>1, <2>3, <2>4
<1>7. w = [q \in Region |-> IF q = r THEN m + 1 ELSE sp[q]]
  BY <1>1 DEF Pointers
<1>8. u.free = [q \in Region |-> S(w, q)]
  <2>1. \A q \in Region : u.free[q] = IF q = r THEN Tail(t.free[r]) ELSE t.free[q]
    OBVIOUS
  <2>2. \A q \in Region : q # r => u.free[q] = S(w, q)
    <3> SUFFICES ASSUME NEW q \in Region, q # r PROVE u.free[q] = S(w, q)
      OBVIOUS
    <3>1. t.free[q] = S(sp, q)
      BY DEF Stacks
    <3>2. w[q] = sp[q]
      BY <1>7
    <3> HIDE DEF w
    <3> QED
      BY <2>1, <3>1, <3>2
  <2>3. u.free[r] = S(w, r)
    <3>1. w[r] = m + 1
      BY <1>7
    <3> HIDE DEF w
    <3> QED
      BY <1>1, <1>6, <2>1, <3>1
  <2>4. u.free = [q \in Region |-> u.free[q]]
    OBVIOUS
  <2> HIDE DEF S, w
  <2> QED
    BY <2>2, <2>3, <2>4
<1>9. Stacks(u, w, stack)
  BY Zenon, <1>8 DEF Stacks
<1> HIDE DEF w
<1>10. t.free[r] # << >> /\ Head(t.free[r]) = stack[r][sp[r]] /\ sp[r] + 1 \in 0 .. RegionSize(r)
  BY <1>1, <1>2, <1>5
<1> QED
  BY Zenon, <1>9, <1>10 DEF w

\* frstack[--frsp] = frame_num (framemgmt.c:268, 279, 293).
LEMMA Push ==
  ASSUME NEW sp, NEW stack, NEW t, NEW u, NEW r \in Region, NEW f \in RegionFrames(r),
         Pointers(sp), Arrays(stack), Stacks(t, sp, stack), sp[r] # 0,
         Pushes(t, u, r, f)
  PROVE  /\ Stacks(u, [sp EXCEPT ![r] = @ - 1], [stack EXCEPT ![r][sp[r] - 1] = f])
         /\ sp[r] - 1 \in 0 .. RegionSize(r)
         /\ [stack[r] EXCEPT ![sp[r] - 1] = f] \in [0 .. RegionSize(r) - 1 -> RegionFrames(r)]
<1> USE DEF Pushes
<1> DEFINE S(z, y, q) == [i \in 1 .. RegionSize(q) - z[q] |-> y[q][z[q] + i - 1]]
           w == [sp EXCEPT ![r] = @ - 1]
           x == [stack EXCEPT ![r][sp[r] - 1] = f]
<1>1. PICK n, m : n = RegionSize(r) /\ m = sp[r]
  OBVIOUS
<1>2. n \in Nat /\ m \in 0 .. n /\ m # 0 /\ stack[r] \in [0 .. n - 1 -> RegionFrames(r)]
  BY <1>1, RegionShape DEF Pointers, Arrays
<1>3. t.free[r] = [i \in 1 .. n - m |-> stack[r][m + i - 1]] /\ t.free[r] \in Seq(Frame)
  <2>1. t.free[r] = [i \in 1 .. RegionSize(r) - sp[r] |-> stack[r][sp[r] + i - 1]]
    BY DEF Stacks
  <2> QED
    BY <1>1, <2>1
<1>4. Len(t.free[r]) = n - m /\ f \in Frame
  BY <1>2, <1>3, RegionShape
<1>5. w = [q \in Region |-> IF q = r THEN m - 1 ELSE sp[q]]
      /\ x = [q \in Region |-> IF q = r THEN [stack[r] EXCEPT ![m - 1] = f] ELSE stack[q]]
  BY <1>1 DEF Pointers, Arrays
<1>6. \A j \in 0 .. n - 1 : x[r][j] = IF j = m - 1 THEN f ELSE stack[r][j]
  BY <1>2, <1>5
<1>7. <<f>> \o t.free[r] = [i \in 1 .. n - (m - 1) |-> x[r][(m - 1) + i - 1]]
  <2> DEFINE l == <<f>> \o t.free[r]
  <2>1. l \in Seq(Frame) /\ Len(l) = (n - m) + 1
        /\ \A i \in 1 .. (n - m) + 1 : l[i] = IF i = 1 THEN f ELSE t.free[r][i - 1]
    BY <1>2, <1>3, <1>4
  <2>2. (n - m) + 1 = n - (m - 1) /\ l = [i \in 1 .. (n - m) + 1 |-> l[i]]
    BY <1>2, <2>1
  <2> HIDE DEF l
  <2>3. ASSUME NEW i \in 1 .. n - (m - 1)
        PROVE  l[i] = x[r][(m - 1) + i - 1]
    <3>1. CASE i = 1
      <4>1. (m - 1) + i - 1 = m - 1 /\ m - 1 \in 0 .. n - 1
        BY <1>2, <3>1
      <4> QED
        BY <1>6, <2>1, <2>2, <3>1, <4>1
    <3>2. CASE i # 1
      <4>1. /\ (m - 1) + i - 1 \in 0 .. n - 1 /\ (m - 1) + i - 1 # m - 1
            /\ i - 1 \in 1 .. n - m /\ m + (i - 1) - 1 = (m - 1) + i - 1
        <5>1. /\ i \in Nat /\ 2 <= i /\ i <= n - (m - 1) /\ n \in Nat /\ m \in Nat
              /\ 1 <= m /\ m <= n
          BY <1>2, <3>2
        <5>2. (m - 1) + i - 1 \in 0 .. n - 1
          BY <5>1
        <5>3. (m - 1) + i - 1 # m - 1
          BY <5>1
        <5>4. i - 1 \in 1 .. n - m
          BY <5>1
        <5>5. m + (i - 1) - 1 = (m - 1) + i - 1
          BY <5>1
        <5> QED
          BY <5>2, <5>3, <5>4, <5>5
      <4>2. t.free[r][i - 1] = stack[r][(m - 1) + i - 1]
        BY <1>3, <4>1
      <4> QED
        BY <1>6, <2>1, <2>2, <3>2, <4>1, <4>2
    <3> QED
      BY <3>1, <3>2
  <2> QED
    BY <2>2, <2>3 DEF l
<1>8. u.free = [q \in Region |-> S(w, x, q)]
  <2>1. \A q \in Region : u.free[q] = IF q = r THEN <<f>> \o t.free[r] ELSE t.free[q]
    OBVIOUS
  <2>2. \A q \in Region : q # r => u.free[q] = S(w, x, q)
    <3> SUFFICES ASSUME NEW q \in Region, q # r PROVE u.free[q] = S(w, x, q)
      OBVIOUS
    <3>1. t.free[q] = S(sp, stack, q)
      BY DEF Stacks
    <3>2. w[q] = sp[q] /\ x[q] = stack[q]
      BY <1>5
    <3> HIDE DEF w, x
    <3> QED
      BY <2>1, <3>1, <3>2
  <2>3. u.free[r] = S(w, x, r)
    <3>1. w[r] = m - 1
      BY <1>5
    <3> HIDE DEF w, x
    <3> QED
      BY <1>1, <1>7, <2>1, <3>1
  <2>4. u.free = [q \in Region |-> u.free[q]]
    OBVIOUS
  <2> HIDE DEF S, w, x
  <2> QED
    BY <2>2, <2>3, <2>4
<1>9. [stack[r] EXCEPT ![sp[r] - 1] = f] \in [0 .. RegionSize(r) - 1 -> RegionFrames(r)]
  BY <1>1, <1>2
<1> QED
  BY <1>1, <1>2, <1>8, <1>9 DEF Stacks
\* After a step, the invariant holds of the table that is represented then.
LEMMA Becomes ==
  ASSUME NEW u, InOrder(u), ArraysOK',
         u.state = [f \in Frame |-> invpt'[f].fr_state],
         u.pid = [f \in Frame |-> invpt'[f].fr_pid],
         u.pte = [f \in Frame |-> invpt'[f].fr_pte],
         u.refcnt = [f \in Frame |-> 0],
         Stacks(u, frsp', frstack'),
         Threads(u.used, invpt', evicthead', evicttail')
  PROVE  IInv' /\ tables' = u
<1>1. Represents(u)'
  BY DEF Represents, Stacks
<1>2. OneTable'
  BY TableIs, PTL
<1>3. tables' = u
  BY <1>1, <1>2 DEF OneTable
<1>4. Represents(tables)'
  BY <1>1, <1>3
<1> QED
  BY <1>3, <1>4 DEF IInv

\* getfreeframe and invtakeframe (framemgmt.c:155-239).
LEMMA AllocateTables ==
  ASSUME IInv, NEW r \in Region, NEW pid \in Pid, NEW pte \in PteRef, InvptAllocate(r, pid, pte)
  PROVE  /\ IInv' /\ hasfreeframe(tables, r)
         /\ tables' = invtakeframe(PopFree(tables, r), FreeFrame(tables, r), pid, pte)
<1>1. PICK g : g = tables
  OBVIOUS
<1>2. /\ InOrder(g) /\ invpt \in [Frame -> Entry]
      /\ \A e \in Frame : /\ g.state[e] = invpt[e].fr_state /\ g.pid[e] = invpt[e].fr_pid
                          /\ g.pte[e] = invpt[e].fr_pte
      /\ g.state \in [Frame -> {"FREE", "USED"}] /\ g.pid \in [Frame -> Pid]
      /\ g.pte \in [Frame -> PteRef] /\ g.refcnt = [e \in Frame |-> 0]
      /\ g.free \in [Region -> Seq(Frame)]
      /\ Threads(g.used, invpt, evicthead, evicttail)
      /\ \A e \in Frame : e \in ToSet(g.used) <=> e \in RegionFrames("E1") /\ g.state[e] = "USED"
  BY <1>1, IInvFacts
<1>3. /\ \A q \in Region : frsp[q] \in 0 .. RegionSize(q)
      /\ frsp = [q \in Region |-> frsp[q]] /\ Stacks(g, frsp, frstack)
      /\ frstack = [q \in Region |-> frstack[q]]
      /\ \A q \in Region : frstack[q] \in [0 .. RegionSize(q) - 1 -> RegionFrames(q)]
  BY <1>1 DEF IInv, ArraysOK, Represents, Stacks
<1>4. /\ frsp[r] # RegionSize(r) /\ frsp' = [frsp EXCEPT ![r] = @ + 1] /\ frstack' = frstack
  BY DEF InvptAllocate
<1>5. g.free[r] # << >>
  <2>1. Len(g.free[r]) = RegionSize(r) - frsp[r] /\ frsp[r] \in 0 .. RegionSize(r) /\ RegionSize(r) \in Nat
    BY <1>1, IInvFacts
  <2> QED
    BY <1>4, <2>1
<1>6. PICK t : t = invtakeframe(PopFree(g, r), FreeFrame(g, r), pid, pte)
  OBVIOUS
<1>7. PICK f : f = FreeFrame(g, r)
  OBVIOUS
<1>8. InOrder(t) /\ Took(g, t, r, f, pid, pte)
  BY <1>2, <1>5, <1>6, <1>7, Take
<1>9. t.free = [g.free EXCEPT ![r] = Tail(@)]
  BY <1>8 DEF Took
<1>10. /\ Stacks(t, frsp', frstack') /\ Head(g.free[r]) = frstack[r][frsp[r]]
       /\ frsp[r] + 1 \in 0 .. RegionSize(r)
  <2>1. /\ Stacks(t, [frsp EXCEPT ![r] = @ + 1], frstack)
        /\ Head(g.free[r]) = frstack[r][frsp[r]] /\ frsp[r] + 1 \in 0 .. RegionSize(r)
    <3>1. PICK sp, stack : sp = frsp /\ stack = frstack
      OBVIOUS
    <3>2. Pointers(sp) /\ Stacks(g, sp, stack) /\ sp[r] # RegionSize(r)
      BY <1>3, <1>4, <3>1 DEF Pointers
    <3>3. /\ Stacks(t, [sp EXCEPT ![r] = @ + 1], stack)
          /\ Head(g.free[r]) = stack[r][sp[r]] /\ sp[r] + 1 \in 0 .. RegionSize(r)
      <4>1. Pops(g, t, r)
        BY <1>2, <1>9 DEF Pops
      <4> QED
        BY <3>2, <4>1, Pop
    <3> QED
      BY <3>1, <3>3
  <2> QED
    BY <1>4, <2>1
<1>11. /\ f = frstack[r][frsp[r]] /\ f \in RegionFrames(r) /\ f \in Frame
       /\ g.state[f] = "FREE" /\ fidxtoregion(f) = r
  BY <1>8, <1>10, RegionShape, RegionUnique DEF Took
<1>12. frsp' = [q \in Region |-> IF q = r THEN frsp[r] + 1 ELSE frsp[q]]
  BY <1>3, <1>4
<1>13. t.refcnt = [e \in Frame |-> 0]
  BY <1>2, <1>8 DEF Took
<1>14. CASE ~ (f < NFRAMES)
  <2>1. UNCHANGED <<invpt, evicthead, evicttail>>
    BY <1>11, <1>14 DEF InvptAllocate
  <2>2. ArraysOK'
    BY <1>2, <1>3, <1>4, <1>10, <1>12, <2>1 DEF ArraysOK
  <2>3. /\ t.state = g.state /\ t.pid = g.pid /\ t.pte = g.pte /\ t.used = g.used
    BY <1>8, <1>14 DEF Took
  <2>4. /\ t.state = [e \in Frame |-> invpt'[e].fr_state]
        /\ t.pid = [e \in Frame |-> invpt'[e].fr_pid]
        /\ t.pte = [e \in Frame |-> invpt'[e].fr_pte]
        /\ Threads(t.used, invpt', evicthead', evicttail')
    BY <1>2, <2>1, <2>3
  <2>5. IInv' /\ tables' = t
    BY <1>8, <1>10, <1>13, <2>2, <2>4, Becomes
  <2> QED
    BY <1>1, <1>5, <1>6, <2>5 DEF hasfreeframe
<1>15. CASE f < NFRAMES
  <2>1. PICK used : used = [invpt[f] EXCEPT !.fr_state = "USED", !.fr_pid = pid, !.fr_pte = pte]
    OBVIOUS
  <2>2. invpt[f].fr_state = "FREE" /\ invpt[f] \in Entry /\ used \in Entry
    <3>1. invpt[f].fr_state = "FREE" /\ invpt[f] \in Entry
      BY <1>2, <1>11
    <3>2. used \in Entry
      BY <2>1, <3>1 DEF Entry
    <3> QED
      BY <3>1, <3>2
  <2>3. /\ used.fr_state = "USED" /\ used.fr_pid = pid /\ used.fr_pte = pte
        /\ used.fr_next = invpt[f].fr_next /\ used.fr_prev = invpt[f].fr_prev
    BY <2>1, <2>2 DEF Entry
  <2>4. /\ r = "E1" =>
             /\ invpt' = [e \in Frame |->
                            IF e = f THEN [used EXCEPT !.fr_prev = evicttail, !.fr_next = NoFrame]
                            ELSE IF e = evicttail THEN [invpt[e] EXCEPT !.fr_next = f]
                            ELSE invpt[e]]
             /\ evicttail' = f /\ evicthead' = IF evicthead = NoFrame THEN f ELSE evicthead
        /\ r # "E1" => invpt' = [invpt EXCEPT ![f] = used] /\ UNCHANGED <<evicthead, evicttail>>
    <3>1. ~ (f >= NFRAMES \/ invpt[f].fr_state # "FREE")
      BY <1>11, <1>15, <2>2, FrameNat, FramesAssumption DEF NFRAMES
    <3>2. IF fidxtoregion(f) = "E1" THEN insert_to_used_ll(f, used)
          ELSE invpt' = [invpt EXCEPT ![f] = used] /\ UNCHANGED <<evicthead, evicttail>>
      BY Zenon, <1>11, <2>1, <3>1 DEF InvptAllocate
    <3> QED
      BY <1>11, <3>2 DEF insert_to_used_ll
  <2>5. /\ invpt' \in [Frame -> Entry]
        /\ \A e \in Frame :
             /\ invpt'[e].fr_state = IF e = f THEN "USED" ELSE invpt[e].fr_state
             /\ invpt'[e].fr_pid = IF e = f THEN pid ELSE invpt[e].fr_pid
             /\ invpt'[e].fr_pte = IF e = f THEN pte ELSE invpt[e].fr_pte
    <3>1. CASE r = "E1"
      <4>1. PICK q : q = g.used
        OBVIOUS
      <4>2. Threads(q, invpt, evicthead, evicttail)
        BY <1>2, <4>1
      <4>3. q \in Seq(Frame) /\ Len(q) \in Nat /\ ((q = << >>) <=> (Len(q) = 0))
            /\ \A i \in 1 .. Len(q) : q[i] \in Frame
        BY <4>2, ThreadsFacts
      <4>4. evicttail = IF q = << >> THEN NoFrame ELSE q[Len(q)]
        BY <4>2 DEF Threads
      <4>5. evicttail \in Frame \cup {NoFrame}
        BY <4>3, <4>4
      <4>6. PICK z : z = evicttail
        OBVIOUS
      <4>7. [used EXCEPT !.fr_prev = z, !.fr_next = NoFrame] \in Entry
        BY <2>2, <4>5, <4>6 DEF Entry
      <4>8. \A e \in Frame : invpt[e] \in Entry /\ [invpt[e] EXCEPT !.fr_next = f] \in Entry
        <5> SUFFICES ASSUME NEW e \in Frame
                     PROVE  invpt[e] \in Entry /\ [invpt[e] EXCEPT !.fr_next = f] \in Entry
          OBVIOUS
        <5>1. invpt[e] \in Entry
          BY <1>2
        <5> QED
          BY <1>11, <5>1 DEF Entry
      <4>9. invpt' \in [Frame -> Entry]
        BY <2>4, <3>1, <4>6, <4>7, <4>8
      <4>10. ASSUME NEW e \in Frame
             PROVE  /\ invpt'[e].fr_state = IF e = f THEN "USED" ELSE invpt[e].fr_state
                    /\ invpt'[e].fr_pid = IF e = f THEN pid ELSE invpt[e].fr_pid
                    /\ invpt'[e].fr_pte = IF e = f THEN pte ELSE invpt[e].fr_pte
        <5>1. invpt'[e] = IF e = f THEN [used EXCEPT !.fr_prev = z, !.fr_next = NoFrame]
                          ELSE IF e = z THEN [invpt[e] EXCEPT !.fr_next = f]
                          ELSE invpt[e]
          BY <2>4, <3>1, <4>6
        <5>2. CASE e = f
          BY <2>2, <2>3, <5>1, <5>2 DEF Entry
        <5>3. CASE e # f
          <6>1. invpt[e] \in Entry
            BY <4>8
          <6> QED
            BY <5>1, <5>3, <6>1 DEF Entry
        <5> QED
          BY <5>2, <5>3
      <4> QED
        BY <4>9, <4>10
    <3>2. CASE r # "E1"
      <4>1. invpt' = [invpt EXCEPT ![f] = used]
        BY <2>4, <3>2
      <4> QED
        BY <1>2, <1>11, <2>2, <2>3, <4>1
    <3> QED
      BY <3>1, <3>2
  <2>6. ArraysOK'
    BY <1>3, <1>4, <1>10, <1>12, <2>5 DEF ArraysOK
  <2>7. /\ t.state = [g.state EXCEPT ![f] = "USED"]
        /\ t.pid = [g.pid EXCEPT ![f] = pid] /\ t.pte = [g.pte EXCEPT ![f] = pte]
        /\ t.used = IF r = "E1" THEN Append(g.used, f) ELSE g.used
    BY <1>8, <1>15 DEF Took
  <2>8. /\ t.state = [e \in Frame |-> invpt'[e].fr_state]
        /\ t.pid = [e \in Frame |-> invpt'[e].fr_pid]
        /\ t.pte = [e \in Frame |-> invpt'[e].fr_pte]
    <3>1. /\ t.state = [e \in Frame |-> IF e = f THEN "USED" ELSE g.state[e]]
          /\ t.pid = [e \in Frame |-> IF e = f THEN pid ELSE g.pid[e]]
          /\ t.pte = [e \in Frame |-> IF e = f THEN pte ELSE g.pte[e]]
      BY <1>2, <2>7
    <3> QED
      BY <1>2, <2>5, <3>1
  <2>9. Threads(t.used, invpt', evicthead', evicttail')
    <3>1. CASE r = "E1"
      <4>1. /\ invpt' = [e \in Frame |->
                           IF e = f THEN [used EXCEPT !.fr_prev = evicttail, !.fr_next = NoFrame]
                           ELSE IF e = evicttail THEN [invpt[e] EXCEPT !.fr_next = f]
                           ELSE invpt[e]]
            /\ evicttail' = f /\ evicthead' = IF evicthead = NoFrame THEN f ELSE evicthead
        BY <2>4, <3>1
      <4>2. f \in Frame \ ToSet(g.used)
        BY <1>2, <1>11
      <4>3. Threads(Append(g.used, f), invpt', IF evicthead = NoFrame THEN f ELSE evicthead, f)
        <5>1. PICK q, tab, head, tail, u :
                q = g.used /\ tab = invpt /\ head = evicthead /\ tail = evicttail /\ u = invpt'
          OBVIOUS
        <5>2. /\ Threads(q, tab, head, tail) /\ tab \in [Frame -> Entry] /\ f \in Frame \ ToSet(q)
              /\ u = [e \in Frame |->
                        IF e = f THEN [used EXCEPT !.fr_prev = tail, !.fr_next = NoFrame]
                        ELSE IF e = tail THEN [tab[e] EXCEPT !.fr_next = f]
                        ELSE tab[e]]
          BY <1>2, <4>1, <4>2, <5>1
        <5>3. Threads(Append(q, f), u, IF head = NoFrame THEN f ELSE head, f)
          BY <2>2, <5>2, ThreadsInsert
        <5> QED
          BY <5>1, <5>3
      <4> QED
        BY <2>7, <3>1, <4>1, <4>3
    <3>2. CASE r # "E1"
      <4>1. \A e \in Frame : /\ invpt'[e].fr_next = invpt[e].fr_next
                             /\ invpt'[e].fr_prev = invpt[e].fr_prev
        <5>1. invpt' = [invpt EXCEPT ![f] = used]
          BY <2>4, <3>2
        <5> QED
          BY <1>2, <1>11, <2>3, <5>1
      <4> QED
        BY <1>2, <2>4, <2>7, <3>2, <4>1, ThreadsSame
    <3> QED
      BY <3>1, <3>2
  <2>10. IInv' /\ tables' = t
    BY <1>8, <1>10, <1>13, <2>6, <2>8, <2>9, Becomes
  <2> QED
    BY <1>1, <1>5, <1>6, <2>10 DEF hasfreeframe
<1> QED
  BY <1>14, <1>15
\* invfreeframe (framemgmt.c:247-310).
LEMMA ReleaseTables ==
  ASSUME IInv, NEW f \in Frame, InvptRelease(f)
  PROVE  IInv' /\ tables' = invfreeframe(tables, f)
<1>1. PICK g : g = tables
  OBVIOUS
<1>2. /\ InOrder(g) /\ invpt \in [Frame -> Entry]
      /\ \A e \in Frame : /\ g.state[e] = invpt[e].fr_state /\ g.pid[e] = invpt[e].fr_pid
                          /\ g.pte[e] = invpt[e].fr_pte
      /\ g.state \in [Frame -> {"FREE", "USED"}] /\ g.pid \in [Frame -> Pid]
      /\ g.pte \in [Frame -> PteRef] /\ g.refcnt = [e \in Frame |-> 0]
      /\ g.free \in [Region -> Seq(Frame)]
      /\ Threads(g.used, invpt, evicthead, evicttail)
      /\ \A e \in Frame : e \in ToSet(g.used) <=> e \in RegionFrames("E1") /\ g.state[e] = "USED"
  BY <1>1, IInvFacts
<1>3. Pointers(frsp) /\ Arrays(frstack) /\ Stacks(g, frsp, frstack)
  BY <1>1 DEF IInv, ArraysOK, Represents, Stacks, Pointers, Arrays
<1>4. PICK r : r = fidxtoregion(f)
  OBVIOUS
<1>5. r \in Region /\ f \in RegionFrames(r)
  BY <1>4, RegionOfFrame
<1>6. /\ invpt[f].fr_state = "USED" /\ frsp[r] # 0
      /\ frstack' = [frstack EXCEPT ![r][frsp[r] - 1] = f]
      /\ frsp' = [frsp EXCEPT ![r] = @ - 1]
      /\ IF r = "E1" THEN remove_from_used_ll(f)
         ELSE /\ invpt' = [invpt EXCEPT ![f].fr_state = "FREE"]
              /\ UNCHANGED <<evicthead, evicttail>>
  BY <1>4 DEF InvptRelease, push
<1>7. PICK t : t = invfreeframe(g, f)
  OBVIOUS
<1>8. InOrder(t) /\ Gave(g, t, r, f)
  BY <1>2, <1>5, <1>6, <1>7, Give
<1>9. /\ Stacks(t, frsp', frstack') /\ frsp[r] - 1 \in 0 .. RegionSize(r)
      /\ [frstack[r] EXCEPT ![frsp[r] - 1] = f] \in [0 .. RegionSize(r) - 1 -> RegionFrames(r)]
  <2>1. PICK sp, stack : sp = frsp /\ stack = frstack
    OBVIOUS
  <2>2. Pointers(sp) /\ Arrays(stack) /\ Stacks(g, sp, stack) /\ sp[r] # 0
    BY <1>3, <1>6, <2>1
  <2>3. Pushes(g, t, r, f)
    BY <1>2, <1>8 DEF Gave, Pushes
  <2>4. /\ Stacks(t, [sp EXCEPT ![r] = @ - 1], [stack EXCEPT ![r][sp[r] - 1] = f])
        /\ sp[r] - 1 \in 0 .. RegionSize(r)
        /\ [stack[r] EXCEPT ![sp[r] - 1] = f] \in [0 .. RegionSize(r) - 1 -> RegionFrames(r)]
    BY <1>5, <2>2, <2>3, Push
  <2> QED
    BY <1>6, <2>1, <2>4
<1>10. PICK p, n : p = invpt[f].fr_prev /\ n = invpt[f].fr_next
  OBVIOUS
<1>11. /\ p \in Frame \cup {NoFrame} /\ n \in Frame \cup {NoFrame} /\ invpt[f] \in Entry
       /\ \A e \in Frame : invpt[e] \in Entry
  BY <1>2, <1>10 DEF Entry
<1>12. r = "E1" =>
         /\ invpt' = [e \in Frame |->
                        IF e = f THEN [invpt[f] EXCEPT !.fr_state = "FREE", !.fr_next = NoFrame,
                                                       !.fr_prev = NoFrame]
                        ELSE IF e = p THEN [invpt[e] EXCEPT !.fr_next = n]
                        ELSE IF e = n THEN [invpt[e] EXCEPT !.fr_prev = p]
                        ELSE invpt[e]]
         /\ evicthead' = IF f = evicthead THEN n ELSE evicthead
         /\ evicttail' = IF f = evicttail THEN p ELSE evicttail
  BY <1>6, <1>10 DEF remove_from_used_ll
<1>13. r # "E1" => invpt' = [invpt EXCEPT ![f].fr_state = "FREE"] /\ UNCHANGED <<evicthead, evicttail>>
  BY <1>6
<1>14. /\ invpt' \in [Frame -> Entry]
       /\ \A e \in Frame :
            /\ invpt'[e].fr_state = IF e = f THEN "FREE" ELSE invpt[e].fr_state
            /\ invpt'[e].fr_pid = invpt[e].fr_pid /\ invpt'[e].fr_pte = invpt[e].fr_pte
  <2>1. CASE r = "E1"
    <3>1. \A e \in Frame : /\ [invpt[e] EXCEPT !.fr_next = n] \in Entry
                           /\ [invpt[e] EXCEPT !.fr_prev = p] \in Entry
      <4> SUFFICES ASSUME NEW e \in Frame
                   PROVE  /\ [invpt[e] EXCEPT !.fr_next = n] \in Entry
                          /\ [invpt[e] EXCEPT !.fr_prev = p] \in Entry
        OBVIOUS
      <4>1. invpt[e] \in Entry
        BY <1>11
      <4> QED
        BY <1>11, <4>1 DEF Entry
    <3>2. [invpt[f] EXCEPT !.fr_state = "FREE", !.fr_next = NoFrame, !.fr_prev = NoFrame] \in Entry
      BY <1>11 DEF Entry
    <3>3. invpt' \in [Frame -> Entry]
      BY <1>11, <1>12, <2>1, <3>1, <3>2
    <3>4. ASSUME NEW e \in Frame
          PROVE  /\ invpt'[e].fr_state = IF e = f THEN "FREE" ELSE invpt[e].fr_state
                 /\ invpt'[e].fr_pid = invpt[e].fr_pid /\ invpt'[e].fr_pte = invpt[e].fr_pte
      <4>1. invpt'[e] = IF e = f THEN [invpt[f] EXCEPT !.fr_state = "FREE", !.fr_next = NoFrame,
                                                       !.fr_prev = NoFrame]
                        ELSE IF e = p THEN [invpt[e] EXCEPT !.fr_next = n]
                        ELSE IF e = n THEN [invpt[e] EXCEPT !.fr_prev = p]
                        ELSE invpt[e]
        BY <1>12, <2>1
      <4>2. invpt[e] \in Entry
        BY <1>11
      <4> QED
        BY <1>11, <4>1, <4>2 DEF Entry
    <3> QED
      BY <3>3, <3>4
  <2>2. CASE r # "E1"
    <3>1. [invpt[f] EXCEPT !.fr_state = "FREE"] \in Entry
      BY <1>11 DEF Entry
    <3>2. \A e \in Frame : invpt'[e] = IF e = f THEN [invpt[f] EXCEPT !.fr_state = "FREE"] ELSE invpt[e]
      BY <1>2, <1>13, <2>2
    <3>3. invpt' \in [Frame -> Entry]
      BY <1>2, <1>13, <2>2, <3>1
    <3> QED
      BY <1>11, <3>2, <3>3 DEF Entry
  <2> QED
    BY <2>1, <2>2
<1>15. ArraysOK'
  <2>1. frsp' = [q \in Region |-> IF q = r THEN frsp[r] - 1 ELSE frsp[q]]
    BY <1>3, <1>6 DEF Pointers
  <2>2. frstack' = [q \in Region |-> IF q = r THEN [frstack[r] EXCEPT ![frsp[r] - 1] = f] ELSE frstack[q]]
    BY <1>3, <1>6 DEF Arrays
  <2> QED
    BY <1>3, <1>9, <1>14, <2>1, <2>2 DEF ArraysOK, Pointers, Arrays
<1>16. /\ t.state = [g.state EXCEPT ![f] = "FREE"] /\ t.pid = g.pid /\ t.pte = g.pte
       /\ t.refcnt = g.refcnt
       /\ t.used = IF r = "E1" THEN RemoveUsed(g.used, f) ELSE g.used
  BY <1>8 DEF Gave
<1>17. /\ t.state = [e \in Frame |-> invpt'[e].fr_state]
       /\ t.pid = [e \in Frame |-> invpt'[e].fr_pid]
       /\ t.pte = [e \in Frame |-> invpt'[e].fr_pte]
  <2>1. /\ t.state = [e \in Frame |-> IF e = f THEN "FREE" ELSE g.state[e]]
        /\ t.pid = [e \in Frame |-> g.pid[e]] /\ t.pte = [e \in Frame |-> g.pte[e]]
    BY <1>2, <1>16
  <2> QED
    BY <1>2, <1>14, <2>1
<1>18. Threads(t.used, invpt', evicthead', evicttail')
  <2>1. CASE r = "E1"
    <3>1. f \in ToSet(g.used)
      BY <1>2, <1>5, <1>6, <2>1
    <3>2. PICK q, tab, head, tail, u :
            q = g.used /\ tab = invpt /\ head = evicthead /\ tail = evicttail /\ u = invpt'
      OBVIOUS
    <3>3. /\ Threads(q, tab, head, tail) /\ tab \in [Frame -> Entry] /\ f \in ToSet(q)
          /\ p = tab[f].fr_prev /\ n = tab[f].fr_next
          /\ Unchained(u, tab, f, p, n)
      BY <1>2, <1>10, <1>12, <2>1, <3>1, <3>2 DEF Unchained
    <3>4. Threads(RemoveUsed(q, f), u, IF f = head THEN n ELSE head, IF f = tail THEN p ELSE tail)
      BY <3>3, ThreadsRemove
    <3> QED
      BY <1>12, <1>16, <2>1, <3>2, <3>4
  <2>2. CASE r # "E1"
    <3>1. \A e \in Frame : /\ invpt'[e].fr_next = invpt[e].fr_next
                           /\ invpt'[e].fr_prev = invpt[e].fr_prev
      BY <1>2, <1>11, <1>13, <2>2 DEF Entry
    <3> QED
      BY <1>2, <1>13, <1>16, <2>2, <3>1, ThreadsSame
  <2> QED
    BY <2>1, <2>2
<1>19. IInv' /\ tables' = t
  BY <1>2, <1>8, <1>9, <1>15, <1>16, <1>17, <1>18, Becomes
<1> QED
  BY <1>1, <1>7, <1>19

-----------------------------------------------------------------------------
(* The refinement.                                                          *)

\* The functions that FrameMgmt calls are the ones of Frames.
LEMMA SameFunctions ==
  /\ FrameTables!init_invpt = init_invpt /\ FrameTables!Region = Region /\ FrameTables!Frame = Frame
  /\ \A t, r : FrameTables!hasfreeframe(t, r) = hasfreeframe(t, r)
  /\ \A t, r, pid, pte : FrameTables!invtakeframe(FrameTables!PopFree(t, r), FrameTables!FreeFrame(t, r), pid, pte)
                           = invtakeframe(PopFree(t, r), FreeFrame(t, r), pid, pte)
  /\ \A t, f : FrameTables!invfreeframe(t, f) = invfreeframe(t, f)
<1> USE DEF FrameTables!Region, Region, FrameTables!FRAME0_D, FRAME0_D, FrameTables!FRAME0_E1, FRAME0_E1,
        FrameTables!FRAME0_E2, FRAME0_E2, FrameTables!FRAME0_F, FRAME0_F, FrameTables!NFRAMES, NFRAMES,
        FrameTables!SYSERR, SYSERR, FrameTables!RegionSize, RegionSize, FrameTables!RegionBase, RegionBase
<1>1. FrameTables!Frame = Frame /\ \A r : FrameTables!RegionFrames(r) = RegionFrames(r)
  BY DEF FrameTables!Frame, Frame, FrameTables!RegionFrames, RegionFrames
<1>2. \A f : FrameTables!fidxtoregion(f) = fidxtoregion(f)
  BY Zenon, <1>1 DEF FrameTables!fidxtoregion, fidxtoregion
<1>3. FrameTables!init_invpt = init_invpt
  BY <1>1 DEF FrameTables!init_invpt, init_invpt
<1>4. \A s, f : FrameTables!RemoveUsed(s, f) = RemoveUsed(s, f)
  BY DEF FrameTables!RemoveUsed, RemoveUsed, FrameTables!RemoveAt, RemoveAt
<1>5. \A t, f : FrameTables!CanTake(t, f) <=> CanTake(t, f)
  BY DEF FrameTables!CanTake, CanTake
<1>6. \A t, r, pid, pte : FrameTables!invtakeframe(FrameTables!PopFree(t, r), FrameTables!FreeFrame(t, r), pid, pte)
                             = invtakeframe(PopFree(t, r), FreeFrame(t, r), pid, pte)
  <2>1. \A t, f, pid, pte : FrameTables!invtakeframe(t, f, pid, pte) = invtakeframe(t, f, pid, pte)
    <3> SUFFICES ASSUME NEW t, NEW f, NEW pid, NEW pte
                 PROVE  FrameTables!invtakeframe(t, f, pid, pte) = invtakeframe(t, f, pid, pte)
      OBVIOUS
    <3>1. FrameTables!fidxtoregion(f) = fidxtoregion(f) /\ (FrameTables!CanTake(t, f) <=> CanTake(t, f))
      BY <1>2, <1>5
    <3>2. CASE CanTake(t, f)
      BY <3>1, <3>2 DEF FrameTables!invtakeframe, invtakeframe
    <3>3. CASE ~ CanTake(t, f)
      BY <3>1, <3>3 DEF FrameTables!invtakeframe, invtakeframe
    <3> QED
      BY <3>2, <3>3
  <2>2. \A t, r : FrameTables!PopFree(t, r) = PopFree(t, r)
    BY Zenon DEF FrameTables!PopFree, PopFree
  <2>3. \A t, r : FrameTables!FreeFrame(t, r) = FreeFrame(t, r)
    BY Zenon DEF FrameTables!FreeFrame, FreeFrame
  <2> QED
    BY Zenon, <2>1, <2>2, <2>3
<1>7. \A t, f : FrameTables!invfreeframe(t, f) = invfreeframe(t, f)
  <2>1. \A t, r : FrameTables!StackFull(t, r) <=> StackFull(t, r)
    BY Zenon DEF FrameTables!StackFull, StackFull
  <2> QED
    <3> SUFFICES ASSUME NEW t, NEW f PROVE FrameTables!invfreeframe(t, f) = invfreeframe(t, f)
      OBVIOUS
    <3>1. PICK r, u : r = fidxtoregion(f) /\ u = RemoveUsed(t.used, f)
      OBVIOUS
    <3>2. /\ FrameTables!fidxtoregion(f) = r /\ FrameTables!RemoveUsed(t.used, f) = u
          /\ FrameTables!StackFull(t, r) <=> StackFull(t, r)
      BY <1>2, <1>4, <2>1, <3>1
    <3>3. CASE t.state[f] = "FREE" \/ StackFull(t, r)
      BY <3>1, <3>2, <3>3 DEF FrameTables!invfreeframe, invfreeframe
    <3>4. CASE ~ (t.state[f] = "FREE" \/ StackFull(t, r))
      BY <3>1, <3>2, <3>4 DEF FrameTables!invfreeframe, invfreeframe
    <3> QED
      BY <3>3, <3>4
<1> QED
  BY <1>1, <1>3, <1>6, <1>7 DEF FrameTables!hasfreeframe, hasfreeframe

\* Every step keeps the invariant and is a step of FrameMgmt, or changes nothing
\* that FrameMgmt sees.
LEMMA TablesStep == IInv /\ [InvptNext]_invptvars => IInv' /\ [FrameTables!Next]_tables
<1> SUFFICES ASSUME IInv, [InvptNext]_invptvars PROVE IInv' /\ [FrameTables!Next]_tables
  OBVIOUS
<1>1. ASSUME NEW r \in Region, NEW pid \in Pid, NEW pte \in PteRef, InvptAllocate(r, pid, pte)
      PROVE  IInv' /\ FrameTables!Next
  <2>1. /\ IInv' /\ hasfreeframe(tables, r)
        /\ tables' = invtakeframe(PopFree(tables, r), FreeFrame(tables, r), pid, pte)
    BY <1>1, AllocateTables
  <2>2. FrameTables!Allocate(r, pid, pte)
    BY <2>1, SameFunctions DEF FrameTables!Allocate
  <2> QED
    BY <2>1, <2>2, SameFunctions DEF FrameTables!Next
<1>2. ASSUME NEW f \in Frame, InvptRelease(f)
      PROVE  IInv' /\ FrameTables!Next
  <2>1. IInv' /\ tables' = invfreeframe(tables, f)
    BY <1>2, ReleaseTables
  <2>2. FrameTables!Release(f)
    BY <2>1, SameFunctions DEF FrameTables!Release
  <2> QED
    BY <2>1, <2>2, SameFunctions DEF FrameTables!Next
<1>3. CASE UNCHANGED invptvars
  <2>1. /\ invpt' = invpt /\ evicthead' = evicthead /\ evicttail' = evicttail
        /\ frstack' = frstack /\ frsp' = frsp
    BY <1>3 DEF invptvars
  <2>2. tables' = tables
    BY <2>1 DEF tables, Queue, Walk
  <2>3. ArraysOK' /\ Represents(tables)'
    BY <2>1, <2>2 DEF IInv, ArraysOK, Represents
  <2> QED
    BY <2>2, <2>3 DEF IInv
<1> QED
  BY <1>1, <1>2, <1>3 DEF InvptNext

\* The arrays, stack pointers and links of framemgmt.c take only steps that the
\* stacks and the queue of FrameMgmt take, for every size of the regions.
THEOREM Implementation == InvptSpec => ImplementsFrameMgmt
<1>1. InvptInit => IInv /\ FrameTables!Init
  BY InitIInv, SameFunctions DEF FrameTables!Init
<1> QED
  BY <1>1, TablesStep, PTL DEF InvptSpec, ImplementsFrameMgmt, FrameTables!Spec

\* The list of used frames reads the same from both ends, and a frame that is
\* not in it points nowhere, in whatever order frames are given up, for every
\* size of the regions (framemgmt.c:25-72).
THEOREM ListTwoWays == InvptSpec => []ListSound
<1>1. InvptInit => IInv
  BY InitIInv
<1>2. IInv => ListSound
  <2> SUFFICES ASSUME IInv PROVE ListSound
    OBVIOUS
  <2>1. PICK q : q = tables.used
    OBVIOUS
  <2>2. Threads(q, invpt, evicthead, evicttail) /\ InOrder(tables)
    BY <2>1 DEF IInv, Represents
  <2>3. q \in Seq(Frame) /\ NoRepeats(q) /\ ToSet(q) = UsedFrames(tables, "E1")
    BY <2>1, <2>2, InOrderFacts
  <2>4. Len(q) <= NFRAMES_E1
    BY <2>3, QueueFits DEF UsedFrames
  <2>5. Queue = q /\ Walk(evicttail, LAMBDA f : invpt[f].fr_prev) = Reverse(q)
    BY <2>2, <2>4, QueueIs
  <2>6. \A f \in Frame \ ToSet(q) : invpt[f].fr_next = NoFrame /\ invpt[f].fr_prev = NoFrame
    BY <2>2 DEF Threads
  <2> QED
    BY <2>5, <2>6 DEF ListSound
<1> QED
  BY <1>1, <1>2, TablesStep, PTL DEF InvptSpec
=============================================================================
