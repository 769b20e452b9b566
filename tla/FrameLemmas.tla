---------------------------- MODULE FrameLemmas ----------------------------
(***************************************************************************)
(* What the calls of system/framemgmt.c do to a table that is in order,     *)
(* for every number of frames: the lemmas that the proofs about the frame   *)
(* allocator (AllocatorProofs) and about demand paging share.               *)
(***************************************************************************)
EXTENDS Frames, ListLemmas

-----------------------------------------------------------------------------
(* The regions partition the table.                                        *)

\* A region is a run of frame numbers behind 0.
LEMMA RegionShape ==
  ASSUME NEW r \in Region
  PROVE  /\ RegionSize(r) \in Nat \ {0}
         /\ RegionBase(r) \in Nat \ {0}
         /\ RegionFrames(r) \subseteq Frame
BY FramesAssumption DEF Region, RegionSize, RegionBase, RegionFrames, Frame,
   FRAME0_D, FRAME0_E1, FRAME0_E2, FRAME0_F

\* fidxtoregion (framemgmt.c:79-93) finds the region a frame is in.
LEMMA RegionUnique ==
  ASSUME NEW r \in Region, NEW f \in RegionFrames(r)
  PROVE  fidxtoregion(f) = r
<1>1. ASSUME NEW q \in Region, f \in RegionFrames(q)
      PROVE  q = r
  BY <1>1, FramesAssumption DEF Region, RegionFrames, RegionSize, RegionBase,
     FRAME0_D, FRAME0_E1, FRAME0_E2
<1> QED
  BY <1>1 DEF fidxtoregion

\* Every frame is in a region, the one fidxtoregion finds.
LEMMA RegionOfFrame ==
  ASSUME NEW f \in Frame
  PROVE  /\ fidxtoregion(f) \in Region
         /\ f \in RegionFrames(fidxtoregion(f))
<1>1. \E r \in Region : f \in RegionFrames(r)
  BY FramesAssumption DEF Frame, Region, RegionFrames, RegionSize, RegionBase,
     FRAME0_D, FRAME0_E1, FRAME0_E2, FRAME0_F
<1> QED
  BY <1>1 DEF fidxtoregion

\* Frame numbers are natural numbers.
LEMMA FrameNat == \A f \in Frame : f \in Nat
BY FramesAssumption DEF Frame, FRAME0_F

-----------------------------------------------------------------------------
(* Taking one element out of a queue without repetitions.                  *)

\* __remove_from_used_ll (framemgmt.c:25-51), place by place.
LEMMA RemoveUsedShape ==
  ASSUME NEW s \in Seq(Frame), NEW f \in ToSet(s)
  PROVE  \E k \in 1 .. Len(s) :
           /\ s[k] = f
           /\ RemoveUsed(s, f) = RemoveAt(s, k)
           /\ RemoveUsed(s, f) \in Seq(Frame)
           /\ Len(RemoveUsed(s, f)) = Len(s) - 1
           /\ \A i \in 1 .. Len(s) - 1 :
                RemoveUsed(s, f)[i] = IF i < k THEN s[i] ELSE s[i + 1]
<1> DEFINE k == CHOOSE i \in 1 .. Len(s) : s[i] = f
<1>1. k \in 1 .. Len(s) /\ s[k] = f
  BY DEF ToSet
<1>2. RemoveUsed(s, f) = RemoveAt(s, k)
  BY DEF RemoveUsed
<1> HIDE DEF k
<1> DEFINE t == RemoveAt(s, k)
           a == SubSeq(s, 1, k - 1)
           b == SubSeq(s, k + 1, Len(s))
<1>3. /\ a \in Seq(Frame) /\ Len(a) = k - 1
      /\ \A i \in 1 .. k - 1 : a[i] = s[i]
  BY <1>1
<1>4. /\ b \in Seq(Frame) /\ Len(b) = Len(s) - k
      /\ \A i \in 1 .. Len(s) - k : b[i] = s[i + k]
  BY <1>1
<1>5. t = a \o b
  BY DEF RemoveAt
<1> HIDE DEF t, a, b
<1>6. /\ t \in Seq(Frame) /\ Len(t) = Len(s) - 1
      /\ \A i \in 1 .. Len(s) - 1 : t[i] = IF i < k THEN s[i] ELSE s[i + 1]
  <2>1. t \in Seq(Frame) /\ Len(t) = Len(s) - 1
    BY <1>1, <1>3, <1>4, <1>5
  <2>2. ASSUME NEW i \in 1 .. Len(s) - 1, i < k
        PROVE  t[i] = s[i]
    BY <1>1, <1>3, <1>4, <1>5, <2>2
  <2>3. ASSUME NEW i \in 1 .. Len(s) - 1, ~(i < k)
        PROVE  t[i] = s[i + 1]
    <3>1. t[i] = b[i - (k - 1)]
      BY <1>1, <1>3, <1>4, <1>5, <2>3
    <3>2. i - (k - 1) \in 1 .. Len(s) - k /\ (i - (k - 1)) + k = i + 1
      BY <1>1, <2>3
    <3> QED BY <1>4, <3>1, <3>2
  <2> QED BY <2>1, <2>2, <2>3
<1> QED
  BY <1>1, <1>2, <1>6 DEF t

\* __remove_from_used_ll takes out one frame and no other.
LEMMA RemoveUsedSound ==
  ASSUME NEW s \in Seq(Frame), NEW f \in ToSet(s), NoRepeats(s)
  PROVE  /\ RemoveUsed(s, f) \in Seq(Frame)
         /\ NoRepeats(RemoveUsed(s, f))
         /\ ToSet(RemoveUsed(s, f)) = ToSet(s) \ {f}
<1> DEFINE t == RemoveUsed(s, f)
<1>1. PICK k \in 1 .. Len(s) :
        /\ s[k] = f
        /\ t \in Seq(Frame)
        /\ Len(t) = Len(s) - 1
        /\ \A i \in 1 .. Len(s) - 1 : t[i] = IF i < k THEN s[i] ELSE s[i + 1]
  BY RemoveUsedShape
<1> HIDE DEF t
<1>2. NoRepeats(t)
  BY <1>1 DEF NoRepeats
<1>3. ToSet(t) \subseteq ToSet(s) \ {f}
  <2> SUFFICES ASSUME NEW i \in 1 .. Len(t)
               PROVE  t[i] \in ToSet(s) /\ t[i] # f
    BY DEF ToSet
  <2>1. i \in 1 .. Len(s) - 1 /\ i \in 1 .. Len(s) /\ i + 1 \in 1 .. Len(s)
    BY <1>1
  <2> QED
    BY <1>1, <2>1, SMTT(30) DEF NoRepeats, ToSet
<1>4. ASSUME NEW g \in ToSet(s) \ {f}
      PROVE  g \in ToSet(t)
  <2>1. PICK j \in 1 .. Len(s) : s[j] = g
    BY DEF ToSet
  <2>2. j # k
    BY <1>1, <2>1
  <2>3. CASE j < k
    <3>1. j \in 1 .. Len(t) /\ t[j] = g
      BY <1>1, <2>1, <2>3
    <3> QED BY <3>1 DEF ToSet
  <2>4. CASE j > k
    <3>1. j - 1 \in 1 .. Len(t) /\ t[j - 1] = g
      BY <1>1, <2>1, <2>4
    <3> QED BY <3>1 DEF ToSet
  <2> QED BY <2>2, <2>3, <2>4
<1> QED
  BY <1>1, <1>2, <1>3, <1>4 DEF t

\* So does taking the first one.
LEMMA TailSound ==
  ASSUME NEW s \in Seq(Frame), s # << >>, NoRepeats(s)
  PROVE  /\ Head(s) \in ToSet(s) /\ Head(s) \in Frame
         /\ Tail(s) \in Seq(Frame) /\ Len(Tail(s)) = Len(s) - 1
         /\ NoRepeats(Tail(s))
         /\ ToSet(Tail(s)) = ToSet(s) \ {Head(s)}
<1> DEFINE t == Tail(s)
<1>1. /\ Len(s) \in Nat \ {0} /\ Head(s) = s[1] /\ t \in Seq(Frame)
      /\ Len(t) = Len(s) - 1 /\ \A i \in 1 .. Len(s) - 1 : t[i] = s[i + 1]
  OBVIOUS
<1> HIDE DEF t
<1>2. Head(s) \in ToSet(s) /\ Head(s) \in Frame
  BY <1>1 DEF ToSet
<1>3. NoRepeats(t)
  BY <1>1 DEF NoRepeats
<1>4. ToSet(t) \subseteq ToSet(s) \ {Head(s)}
  BY <1>1 DEF ToSet, NoRepeats
<1>5. ASSUME NEW g \in ToSet(s) \ {Head(s)}
      PROVE  g \in ToSet(t)
  <2>1. PICK j \in 1 .. Len(s) : s[j] = g
    BY DEF ToSet
  <2>2. j - 1 \in 1 .. Len(t) /\ t[j - 1] = g
    BY <1>1, <2>1
  <2> QED BY <1>1, <2>2 DEF ToSet
<1> QED
  BY <1>1, <1>2, <1>3, <1>4, <1>5 DEF t

\* Pushing a frame that is not there adds it once.
LEMMA PushSound ==
  ASSUME NEW s \in Seq(Frame), NEW f \in Frame \ ToSet(s), NoRepeats(s)
  PROVE  /\ <<f>> \o s \in Seq(Frame) /\ Len(<<f>> \o s) = Len(s) + 1
         /\ NoRepeats(<<f>> \o s)
         /\ ToSet(<<f>> \o s) = ToSet(s) \cup {f}
<1> DEFINE t == <<f>> \o s
<1>1. /\ t \in Seq(Frame) /\ Len(t) = Len(s) + 1 /\ Len(s) \in Nat
      /\ t[1] = f /\ \A i \in 1 .. Len(s) : t[i + 1] = s[i]
  OBVIOUS
<1> HIDE DEF t
<1>2. \A i \in 1 .. Len(t) : i # 1 => i - 1 \in 1 .. Len(s) /\ t[i] = s[i - 1]
  BY <1>1
<1>3. \A i \in 1 .. Len(s) : s[i] # f
  BY DEF ToSet
<1>4. NoRepeats(t)
  <2> SUFFICES ASSUME NEW i \in 1 .. Len(t), NEW j \in 1 .. Len(t), t[i] = t[j]
               PROVE  i = j
    BY DEF NoRepeats
  <2>1. CASE i = 1 \/ j = 1
    BY <1>1, <1>2, <1>3, <2>1
  <2>2. CASE i # 1 /\ j # 1
    <3>1. i - 1 = j - 1
      BY <1>2, <2>2 DEF NoRepeats
    <3> QED BY <3>1
  <2> QED BY <2>1, <2>2
<1>5. ToSet(t) \subseteq ToSet(s) \cup {f}
  <2> SUFFICES ASSUME NEW i \in 1 .. Len(t) PROVE t[i] \in ToSet(s) \cup {f}
    BY <1>1 DEF ToSet
  <2>1. CASE i = 1
    BY <1>1, <2>1
  <2>2. CASE i # 1
    BY <1>1, <1>2, <2>2 DEF ToSet
  <2> QED BY <2>1, <2>2
<1>6. ToSet(s) \subseteq ToSet(t)
  <2> SUFFICES ASSUME NEW j \in 1 .. Len(s) PROVE s[j] \in ToSet(t)
    BY DEF ToSet
  <2>1. j + 1 \in 1 .. Len(t) /\ t[j + 1] = s[j]
    BY <1>1
  <2> QED BY <2>1 DEF ToSet
<1>7. f \in ToSet(t)
  BY <1>1 DEF ToSet
<1> QED
  BY <1>1, <1>4, <1>5, <1>6, <1>7 DEF t

\* So does adding it at the end of the queue (framemgmt.c:54-72).
LEMMA AppendSound ==
  ASSUME NEW s \in Seq(Frame), NEW f \in Frame \ ToSet(s), NoRepeats(s)
  PROVE  /\ Append(s, f) \in Seq(Frame)
         /\ NoRepeats(Append(s, f))
         /\ ToSet(Append(s, f)) = ToSet(s) \cup {f}
<1> DEFINE t == Append(s, f)
<1>1. /\ t \in Seq(Frame) /\ Len(t) = Len(s) + 1 /\ Len(s) \in Nat
      /\ t[Len(s) + 1] = f /\ \A i \in 1 .. Len(s) : t[i] = s[i]
  OBVIOUS
<1> HIDE DEF t
<1>2. \A i \in 1 .. Len(s) : s[i] # f
  BY DEF ToSet
<1>3. NoRepeats(t)
  BY <1>1, <1>2 DEF NoRepeats
<1>4. ToSet(t) = ToSet(s) \cup {f}
  BY <1>1 DEF ToSet
<1> QED
  BY <1>1, <1>3, <1>4 DEF t

-----------------------------------------------------------------------------
(* The table.                                                               *)

\* A table in order: the stack of a region lists frames of the region, each
\* once and all of them FREE, and the queue of victims lists the used frames
\* of E1, each once.
InOrder(t) ==
  /\ t \in FrameTable
  /\ \A r \in Region :
       /\ NoRepeats(t.free[r]) /\ ToSet(t.free[r]) \subseteq RegionFrames(r)
       /\ \A f \in ToSet(t.free[r]) : t.state[f] = "FREE"
  /\ NoRepeats(t.used) /\ ToSet(t.used) = UsedFrames(t, "E1")

\* What a table in order has, part by part.
LEMMA InOrderFacts ==
  ASSUME NEW t, InOrder(t)
  PROVE  /\ t.state \in [Frame -> {"FREE", "USED"}]
         /\ t.pid \in [Frame -> Pid] /\ t.pte \in [Frame -> PteRef]
         /\ t.refcnt \in [Frame -> Int]
         /\ t.free \in [Region -> Seq(Frame)]
         /\ t.used \in Seq(Frame) /\ NoRepeats(t.used)
         /\ ToSet(t.used) = UsedFrames(t, "E1")
         /\ \A r \in Region :
              /\ t.free[r] \in Seq(Frame) /\ NoRepeats(t.free[r])
              /\ ToSet(t.free[r]) \subseteq RegionFrames(r)
              /\ \A f \in ToSet(t.free[r]) : t.state[f] = "FREE"
BY DEF InOrder, FrameTable

\* The stack of a region never holds more frames than its array has places,
\* and has one for every frame in use (framemgmt.c:260-302): it lists distinct
\* frames of the region, and not that one.
LEMMA Room ==
  ASSUME NEW t, InOrder(t), NEW r \in Region
  PROVE  /\ Len(t.free[r]) \in 0 .. RegionSize(r)
         /\ \A f \in RegionFrames(r) : t.state[f] = "USED" => ~ StackFull(t, r)
<1> DEFINE n == RegionSize(r)
           b == RegionBase(r)
           s == t.free[r]
           N == Len(s)
<1>1. n \in Nat \ {0} /\ b \in Nat /\ RegionFrames(r) = b .. b + n - 1
  BY RegionShape DEF RegionFrames
<1>2. /\ s \in Seq(Frame) /\ N \in Nat /\ NoRepeats(s)
      /\ ToSet(s) \subseteq RegionFrames(r) /\ \A f \in ToSet(s) : t.state[f] = "FREE"
  BY InOrderFacts
<1> HIDE DEF n, b, s
<1>3. IsFiniteSet(1 .. N) /\ Cardinality(1 .. N) = N
  BY <1>2, FS_Interval, SMTT(30)
<1>4. IsFiniteSet(b .. b + n - 1) /\ Cardinality(b .. b + n - 1) = n
  BY <1>1, FS_Interval
<1>5. ASSUME NEW T, IsFiniteSet(T), ToSet(s) \subseteq T
      PROVE  N <= Cardinality(T)
  <2>1. s \in [1 .. N -> T]
    <3>1. \A i \in 1 .. N : s[i] \in ToSet(s)
      BY <1>2 DEF ToSet
    <3>2. s = [i \in 1 .. N |-> s[i]]
      BY <1>2
    <3> QED BY <1>5, <3>1, <3>2
  <2>2. Cardinality(T) \in Nat
    BY <1>5, FS_CardinalityType
  <2>3. CASE N > Cardinality(T)
    <3>1. \E i, j \in 1 .. N : i # j /\ s[i] = s[j]
      BY <1>3, <1>5, <2>1, <2>3, FS_PigeonHole
    <3> QED BY <1>2, <3>1 DEF NoRepeats
  <2> QED BY <1>2, <2>2, <2>3
<1>6. N <= n
  BY <1>1, <1>2, <1>4, <1>5
<1>7. ASSUME NEW f \in RegionFrames(r), t.state[f] = "USED"
      PROVE  N <= n - 1
  <2> DEFINE T == RegionFrames(r) \ {f}
  <2>1. IsFiniteSet(T) /\ Cardinality(T) = n - 1
    <3> DEFINE S == b .. b + n - 1
    <3>1. T = S \ {f} /\ f \in S /\ IsFiniteSet(S) /\ Cardinality(S) = n
      BY <1>1, <1>4
    <3> HIDE DEF S, T
    <3> QED BY <3>1, FS_RemoveElement
  <2>2. ToSet(s) \subseteq T
    BY <1>2, <1>7
  <2> HIDE DEF T
  <2> QED BY <1>5, <2>1, <2>2
<1> QED
  BY <1>1, <1>2, <1>6, <1>7 DEF StackFull, n, s

-----------------------------------------------------------------------------
(* The calls.                                                               *)

\* u is the table t after getfreeframe has popped frame f of r and
\* invtakeframe has been asked to take it (framemgmt.c:155-239).
Took(t, u, r, f, pid, pte) ==
  /\ t.free[r] # << >> /\ f = Head(t.free[r]) /\ f \in ToSet(t.free[r])
  /\ f \in RegionFrames(r) /\ t.state[f] = "FREE"
  /\ u.free = [t.free EXCEPT ![r] = Tail(@)]
  /\ ToSet(Tail(t.free[r])) = ToSet(t.free[r]) \ {f}
  /\ u.refcnt = t.refcnt
  /\ f < NFRAMES => /\ u.state = [t.state EXCEPT ![f] = "USED"]
                    /\ u.pid = [t.pid EXCEPT ![f] = pid]
                    /\ u.pte = [t.pte EXCEPT ![f] = pte]
  /\ ~ (f < NFRAMES) => u.state = t.state /\ u.pid = t.pid /\ u.pte = t.pte
  /\ u.used = IF f < NFRAMES /\ r = "E1" THEN Append(t.used, f) ELSE t.used

\* u is the table t after invfreeframe has given up the used frame f of r
\* (framemgmt.c:247-310).
Gave(t, u, r, f) ==
  /\ f \in RegionFrames(r) /\ t.state[f] = "USED"
  /\ u.free = [t.free EXCEPT ![r] = <<f>> \o @]
  /\ ToSet(<<f>> \o t.free[r]) = ToSet(t.free[r]) \cup {f}
  /\ u.refcnt = t.refcnt /\ u.pid = t.pid /\ u.pte = t.pte
  /\ u.state = [t.state EXCEPT ![f] = "FREE"]
  /\ u.used = IF r = "E1" THEN RemoveUsed(t.used, f) ELSE t.used

\* A stack that is not empty yields a frame of its region, which is FREE.
LEMMA TopOfStack ==
  ASSUME NEW t, InOrder(t), NEW r \in Region, t.free[r] # << >>
  PROVE  /\ FreeFrame(t, r) = Head(t.free[r])
         /\ Head(t.free[r]) \in ToSet(t.free[r])
         /\ Head(t.free[r]) \in RegionFrames(r) /\ Head(t.free[r]) \in Frame
         /\ Head(t.free[r]) \in Nat
         /\ t.state[Head(t.free[r])] = "FREE"
<1>1. t.free[r] \in Seq(Frame) /\ NoRepeats(t.free[r])
  BY InOrderFacts
<1>2. Head(t.free[r]) \in ToSet(t.free[r]) /\ Head(t.free[r]) \in Frame
  BY <1>1, TailSound
<1> QED
  BY <1>2, InOrderFacts, FrameNat DEF FreeFrame

\* Taking the frame on top of a stack keeps the table in order, whether the
\* frame passes the bound test or not.
LEMMA Take ==
  ASSUME NEW t, InOrder(t), NEW r \in Region, t.free[r] # << >>,
         NEW pid \in Pid, NEW pte \in PteRef
  PROVE  LET u == invtakeframe(PopFree(t, r), FreeFrame(t, r), pid, pte)
         IN  InOrder(u) /\ Took(t, u, r, FreeFrame(t, r), pid, pte)
<1> DEFINE f == Head(t.free[r])
           g == PopFree(t, r)
           fr == [t.free EXCEPT ![r] = Tail(@)]
           u == invtakeframe(g, f, pid, pte)
<1>1. /\ t.free[r] \in Seq(Frame) /\ NoRepeats(t.free[r])
      /\ f \in ToSet(t.free[r]) /\ f \in RegionFrames(r) /\ f \in Frame /\ f \in Nat
      /\ t.state[f] = "FREE"
  BY TopOfStack, InOrderFacts
<1>2. FreeFrame(t, r) = f /\ g = [t EXCEPT !.free = fr]
  BY DEF FreeFrame, PopFree
<1>3. fidxtoregion(f) = r
  BY <1>1, RegionUnique
<1>4. /\ Tail(t.free[r]) \in Seq(Frame) /\ NoRepeats(Tail(t.free[r]))
      /\ ToSet(Tail(t.free[r])) = ToSet(t.free[r]) \ {f}
  BY <1>1, TailSound
<1>5. /\ fr \in [Region -> Seq(Frame)] /\ fr[r] = Tail(t.free[r])
      /\ \A q \in Region : q # r => fr[q] = t.free[q]
  BY <1>4, InOrderFacts
<1>6. t \in FrameTable
  BY DEF InOrder
<1> HIDE DEF f, fr
<1>7. /\ g \in FrameTable /\ g.free = fr /\ g.state = t.state /\ g.used = t.used
      /\ g.pid = t.pid /\ g.pte = t.pte /\ g.refcnt = t.refcnt
  <2> HIDE DEF g
  <2>1. g \in FrameTable
    BY <1>2, <1>5, <1>6 DEF FrameTable
  <2> QED BY <1>2, <1>6, <2>1 DEF FrameTable
<1>8. u = IF f < NFRAMES
          THEN [g EXCEPT !.state[f] = "USED", !.pid[f] = pid, !.pte[f] = pte,
                         !.used = IF r = "E1" THEN Append(@, f) ELSE @]
          ELSE g
  BY <1>1, <1>3, <1>7 DEF invtakeframe, CanTake
<1> HIDE DEF g, u
<1>9. /\ u \in FrameTable /\ u.free = fr /\ u.refcnt = t.refcnt
      /\ f < NFRAMES => /\ u.state = [t.state EXCEPT ![f] = "USED"]
                        /\ u.pid = [t.pid EXCEPT ![f] = pid]
                        /\ u.pte = [t.pte EXCEPT ![f] = pte]
      /\ ~ (f < NFRAMES) => u.state = t.state /\ u.pid = t.pid /\ u.pte = t.pte
      /\ u.used = IF f < NFRAMES /\ r = "E1" THEN Append(t.used, f) ELSE t.used
  <2>1. CASE ~ (f < NFRAMES)
    BY <1>7, <1>8, <2>1
  <2>2. CASE f < NFRAMES
    <3> DEFINE st == [g.state EXCEPT ![f] = "USED"]
               pi == [g.pid EXCEPT ![f] = pid]
               pt == [g.pte EXCEPT ![f] = pte]
               us == IF r = "E1" THEN Append(g.used, f) ELSE g.used
    <3>1. u = [g EXCEPT !.state = st, !.pid = pi, !.pte = pt, !.used = us]
      BY <1>8, <2>2
    <3>2. /\ st \in [Frame -> {"FREE", "USED"}] /\ pi \in [Frame -> Pid]
          /\ pt \in [Frame -> PteRef] /\ us \in Seq(Frame)
      BY <1>1, <1>7 DEF FrameTable
    <3> HIDE DEF st, pi, pt, us
    <3>3. u \in FrameTable
      BY <1>7, <3>1, <3>2 DEF FrameTable
    <3>4. /\ u.state = st /\ u.pid = pi /\ u.pte = pt /\ u.used = us
          /\ u.free = g.free /\ u.refcnt = g.refcnt
      BY <1>7, <3>1 DEF FrameTable
    <3> QED BY <1>7, <2>2, <3>3, <3>4 DEF st, pi, pt, us
  <2> QED BY <2>1, <2>2
<1>10. Took(t, u, r, f, pid, pte)
  BY <1>1, <1>4, <1>9 DEF Took, f, fr
<1>11. ASSUME NEW q \in Region
       PROVE  /\ NoRepeats(u.free[q]) /\ ToSet(u.free[q]) \subseteq RegionFrames(q)
              /\ \A h \in ToSet(u.free[q]) : u.state[h] = "FREE"
  <2>1. CASE q = r
    <3>1. \A h \in ToSet(t.free[r]) : h \in Frame /\ t.state[h] = "FREE"
      BY InOrderFacts, RegionShape
    <3>2. \A h \in ToSet(t.free[r]) : h # f => u.state[h] = "FREE"
      BY <1>9, <3>1, InOrderFacts
    <3>3. ToSet(t.free[r]) \subseteq RegionFrames(r)
      BY InOrderFacts
    <3>4. u.free[q] = Tail(t.free[r])
      BY <1>5, <1>9, <2>1
    <3> QED BY <1>4, <2>1, <3>2, <3>3, <3>4
  <2>2. CASE q # r
    <3>1. f \notin RegionFrames(q)
      BY <1>1, <1>3, <2>2, RegionUnique
    <3>2. u.free[q] = t.free[q] /\ \A h \in RegionFrames(q) : u.state[h] = t.state[h]
      BY <1>5, <1>9, <2>2, <3>1, RegionShape, InOrderFacts
    <3> QED BY <3>2, InOrderFacts
  <2> QED BY <2>1, <2>2
<1>12. NoRepeats(u.used) /\ ToSet(u.used) = UsedFrames(u, "E1")
  <2>1. CASE f < NFRAMES /\ r = "E1"
    <3>1. f \notin ToSet(t.used) /\ t.used \in Seq(Frame) /\ NoRepeats(t.used)
      BY <1>1, InOrderFacts DEF UsedFrames
    <3>2. NoRepeats(u.used) /\ ToSet(u.used) = ToSet(t.used) \cup {f}
      BY <1>1, <1>9, <2>1, <3>1, AppendSound
    <3>3. UsedFrames(u, "E1") = UsedFrames(t, "E1") \cup {f}
      BY <1>1, <1>9, <2>1, InOrderFacts, RegionShape, SMTT(30) DEF UsedFrames, Region
    <3> QED BY <3>2, <3>3, InOrderFacts
  <2>2. CASE ~ (f < NFRAMES /\ r = "E1")
    <3>1. r # "E1" => f \notin RegionFrames("E1")
      BY <1>1, <1>3, RegionUnique DEF Region
    <3>2. \A h \in RegionFrames("E1") : u.state[h] = t.state[h]
      BY <1>9, <2>2, <3>1, RegionShape, InOrderFacts DEF Region
    <3>3. UsedFrames(u, "E1") = UsedFrames(t, "E1")
      BY <3>2 DEF UsedFrames
    <3> QED BY <1>9, <2>2, <3>3, InOrderFacts
  <2> QED BY <2>1, <2>2
<1> QED
  BY <1>2, <1>9, <1>10, <1>11, <1>12 DEF InOrder, u, g

\* Giving up a frame that is free already changes nothing.
LEMMA GiveFree ==
  ASSUME NEW t, NEW f, t.state[f] = "FREE"
  PROVE  invfreeframe(t, f) = t
BY DEF invfreeframe

\* Giving up a used frame keeps the table in order.
LEMMA Give ==
  ASSUME NEW t, InOrder(t), NEW r \in Region, NEW f \in RegionFrames(r),
         t.state[f] = "USED"
  PROVE  LET u == invfreeframe(t, f) IN InOrder(u) /\ Gave(t, u, r, f)
<1> DEFINE u == invfreeframe(t, f)
           st == [t.state EXCEPT ![f] = "FREE"]
           fr == [t.free EXCEPT ![r] = <<f>> \o @]
           us == IF r = "E1" THEN RemoveUsed(t.used, f) ELSE t.used
<1>1. fidxtoregion(f) = r /\ f \in Frame /\ ~ StackFull(t, r)
  BY RegionUnique, RegionShape, Room
<1>2. u = [t EXCEPT !.state = st, !.free = fr, !.used = us]
  BY <1>1 DEF invfreeframe
<1>3. /\ t.free[r] \in Seq(Frame) /\ NoRepeats(t.free[r])
      /\ f \notin ToSet(t.free[r]) /\ t.free \in [Region -> Seq(Frame)]
  BY InOrderFacts
<1>4. /\ <<f>> \o t.free[r] \in Seq(Frame) /\ NoRepeats(<<f>> \o t.free[r])
      /\ ToSet(<<f>> \o t.free[r]) = ToSet(t.free[r]) \cup {f}
  BY <1>1, <1>3, PushSound
<1>5. /\ us \in Seq(Frame) /\ NoRepeats(us)
      /\ ToSet(us) = IF r = "E1" THEN ToSet(t.used) \ {f} ELSE ToSet(t.used)
  <2>1. CASE r = "E1"
    <3>1. f \in ToSet(t.used) /\ t.used \in Seq(Frame) /\ NoRepeats(t.used)
      BY <1>1, <2>1, InOrderFacts DEF UsedFrames
    <3> QED BY <2>1, <3>1, RemoveUsedSound
  <2>2. CASE r # "E1"
    BY <2>2, InOrderFacts
  <2> QED BY <2>1, <2>2
<1>6. st \in [Frame -> {"FREE", "USED"}]
  BY InOrderFacts
<1>7. /\ fr \in [Region -> Seq(Frame)] /\ fr[r] = <<f>> \o t.free[r]
      /\ \A q \in Region : q # r => fr[q] = t.free[q]
  BY <1>3, <1>4
<1>8. t \in FrameTable
  BY DEF InOrder
<1> HIDE DEF u, st, fr, us
<1>9. /\ u \in FrameTable /\ u.state = st /\ u.free = fr /\ u.used = us
      /\ u.pid = t.pid /\ u.pte = t.pte /\ u.refcnt = t.refcnt
  <2>1. u \in FrameTable
    BY <1>2, <1>5, <1>6, <1>7, <1>8 DEF FrameTable
  <2> QED BY <1>2, <1>8, <2>1 DEF FrameTable
<1>10. Gave(t, u, r, f)
  BY <1>4, <1>9 DEF Gave, st, fr, us
<1>11. ASSUME NEW q \in Region
       PROVE  /\ NoRepeats(u.free[q]) /\ ToSet(u.free[q]) \subseteq RegionFrames(q)
              /\ \A h \in ToSet(u.free[q]) : u.state[h] = "FREE"
  <2>1. \A h \in ToSet(t.free[q]) : h \in Frame /\ u.state[h] = "FREE"
    BY <1>9, InOrderFacts, RegionShape DEF st
  <2>2. CASE q = r
    <3>1. u.state[f] = "FREE"
      BY <1>1, <1>9, InOrderFacts DEF st
    <3> QED BY <1>4, <1>7, <1>9, <2>1, <2>2, <3>1, InOrderFacts
  <2>3. CASE q # r
    BY <1>7, <1>9, <2>1, <2>3, InOrderFacts
  <2> QED BY <2>2, <2>3
<1>12. ToSet(u.used) = UsedFrames(u, "E1")
  <2>1. r # "E1" => f \notin RegionFrames("E1")
    BY <1>1, RegionUnique DEF Region
  <2>2. UsedFrames(u, "E1") = IF r = "E1" THEN UsedFrames(t, "E1") \ {f}
                                          ELSE UsedFrames(t, "E1")
    BY <1>1, <1>9, <2>1, InOrderFacts, RegionShape DEF UsedFrames, Region, st
  <2> QED BY <1>5, <1>9, <2>2, InOrderFacts
<1> QED
  BY <1>5, <1>9, <1>10, <1>11, <1>12 DEF InOrder, u

-----------------------------------------------------------------------------
(* init_invpt (framemgmt.c:99-119): every frame is FREE and on its stack.     *)

\* At first every frame is FREE and on the stack of its region.
LEMMA InitTable ==
  /\ InOrder(init_invpt)
  /\ \A f \in Frame : /\ init_invpt.state[f] = "FREE" /\ init_invpt.pid[f] = NULLPROC
                      /\ init_invpt.refcnt[f] = 0
  /\ \A r \in Region : ToSet(init_invpt.free[r]) = RegionFrames(r)
<1> DEFINE t == init_invpt
           fr == [r \in Region |->
                    [i \in 1 .. RegionSize(r) |-> RegionBase(r) + i - 1]]
<1>1. t = [state |-> [f \in Frame |-> "FREE"], pid |-> [f \in Frame |-> NULLPROC],
           pte |-> [f \in Frame |-> FR_PTEUNUSED], refcnt |-> [f \in Frame |-> 0],
           free |-> fr, used |-> << >>]
  BY DEF init_invpt
<1>2. ASSUME NEW r \in Region
      PROVE  /\ fr[r] \in Seq(Frame) /\ Len(fr[r]) = RegionSize(r)
             /\ NoRepeats(fr[r]) /\ ToSet(fr[r]) = RegionFrames(r)
  <2> DEFINE n == RegionSize(r)
             b == RegionBase(r)
             s == [i \in 1 .. n |-> b + i - 1]
  <2>1. /\ n \in Nat /\ b \in Nat /\ RegionFrames(r) = b .. b + n - 1
        /\ b .. b + n - 1 \subseteq Frame /\ fr[r] = s
    BY RegionShape DEF RegionFrames
  <2> HIDE DEF n, b
  <2>2. \A i \in 1 .. n : s[i] = b + i - 1 /\ s[i] \in b .. b + n - 1
    BY <2>1
  <2>3. s \in Seq(Frame) /\ Len(s) = n
    BY <2>1, <2>2
  <2> HIDE DEF s
  <2>4. NoRepeats(s)
    BY <2>1, <2>2, <2>3 DEF NoRepeats
  <2>5. ToSet(s) \subseteq b .. b + n - 1
    BY <2>2, <2>3 DEF ToSet
  <2>6. ASSUME NEW f \in b .. b + n - 1
        PROVE  f \in ToSet(s)
    <3>1. f - b + 1 \in 1 .. n /\ s[f - b + 1] = f
      BY <2>1, <2>2
    <3> QED BY <2>3, <3>1 DEF ToSet
  <2> QED BY <2>1, <2>3, <2>4, <2>5, <2>6 DEF n
<1> HIDE DEF fr
<1>3. fr \in [Region -> Seq(Frame)]
  BY <1>2 DEF fr
<1> HIDE DEF t
<1>4. t.state = [f \in Frame |-> "FREE"] /\ t.free = fr /\ t.used = << >>
  BY <1>1
<1>5. t \in FrameTable
  BY <1>1, <1>3, FramesAssumption DEF FrameTable
<1>6. NoRepeats(t.used) /\ ToSet(t.used) = {}
  BY <1>4 DEF ToSet, NoRepeats
<1>7. UsedFrames(t, "E1") = {}
  BY <1>4, RegionShape DEF UsedFrames, Region
<1>8. \A r \in Region : \A f \in RegionFrames(r) : t.state[f] = "FREE"
  BY <1>4, RegionShape
<1>9. InOrder(t)
  BY <1>2, <1>4, <1>5, <1>6, <1>7, <1>8 DEF InOrder
<1> QED
  BY <1>1, <1>2, <1>4, <1>9 DEF t

=============================================================================
