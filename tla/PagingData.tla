----------------------------- MODULE PagingData -----------------------------
(***************************************************************************)
(* What the pages of a heap hold, for every number of processes, pages and  *)
(* frames: the page tables, the inverted page table, the TLB and the        *)
(* contents of frames agree, and each program reads what it wrote, if       *)
(* processes end by themselves and neither of two known defects strikes     *)
(* (Careful).                                                               *)
(***************************************************************************)
EXTENDS PagingProofs

-----------------------------------------------------------------------------
(* Page table entries and the frames they lead to.  L is the set of entries  *)
(* that count.                                                               *)

AllRefs == [pt : DFrame, page : Page]
Ent(v, r) == v.dmem[r.pt].pte[r.page]
Filled(v, r) == Ent(v, r).st # "absent"

\* A frame behind the bound of invtakeframe is free and on no stack.
Lost(v, f) == /\ v.fm.state[f] = "FREE" /\ f \in RegionFrames("E2")
              /\ f \notin ToSet(v.fm.free["E2"])

\* An entry leads to a frame that leads back to it, or to a lost one.
Down(v, L) ==
  \A r \in L : Filled(v, r) =>
    \/ v.fm.state[Ent(v, r).base] = "USED" /\ v.fm.pte[Ent(v, r).base] = r
    \/ Lost(v, Ent(v, r).base)

\* No two entries lead to the same frame.
Apart(v, L) ==
  \A r, s \in L : Filled(v, r) /\ Filled(v, s) /\ Ent(v, r).base = Ent(v, s).base => r = s

\* A used frame is that of an entry, and belongs to the owner of its page table.
Up(v, L) ==
  \A f \in EFrame : v.fm.state[f] = "USED" =>
    /\ v.fm.pte[f] \in L /\ v.fm.pid[f] = v.fm.pid[v.fm.pte[f].pt]
    /\ Ent(v, v.fm.pte[f]) = [st |-> IF f \in RegionFrames("E1") THEN "present" ELSE "swapped",
                              base |-> f]

Linked(v, L) == Down(v, L) /\ Apart(v, L) /\ Up(v, L)

\* Every page of L is where an entry says, with what it held.
Carried(v, w, L) ==
  \A r \in L : /\ Filled(w, r) <=> Filled(v, r)
               /\ Filled(v, r) => w.mem[Ent(w, r).base] = v.mem[Ent(v, r).base]

\* An entry that leads somewhere leads to a frame of E1 or E2.
LEMMA FilledFacts ==
  ASSUME NEW v, VmOK(v), NEW r \in AllRefs, Filled(v, r)
  PROVE  /\ Ent(v, r) \in Pte /\ Ent(v, r).base \in EFrame
         /\ Ent(v, r).st = "present" => Ent(v, r).base \in RegionFrames("E1")
         /\ Ent(v, r).st = "swapped" => Ent(v, r).base \in RegionFrames("E2")
  <1>1. r.pt \in DFrame /\ r.page \in Page
    BY DEF AllRefs
  <1>2. Ent(v, r) \in Pte
    BY <1>1, VmFacts DEF VmOK, Ent
  <1>3. Based(Ent(v, r))
    BY <1>1 DEF VmOK, Ent
  <1> QED
    BY <1>2, <1>3, PteFacts, FrameFacts DEF Filled, Based

\* An absent entry may be left out.
LEMMA AbsentOut ==
  ASSUME NEW v, VmOK(v), NEW L \in SUBSET AllRefs, NEW r \in L, Linked(v, L), ~ Filled(v, r)
  PROVE  Linked(v, L \ {r})
  <1>1. Down(v, L \ {r}) /\ Apart(v, L \ {r})
    BY DEF Linked, Down, Apart
  <1>2. ASSUME NEW f \in EFrame, v.fm.state[f] = "USED"
        PROVE  v.fm.pte[f] # r
    <2>1. Ent(v, v.fm.pte[f]) = [st |-> IF f \in RegionFrames("E1") THEN "present" ELSE "swapped",
                                 base |-> f]
      BY <1>2 DEF Linked, Up
    <2> QED
      BY <2>1 DEF Filled
  <1>3. Up(v, L \ {r})
    BY <1>2 DEF Linked, Up
  <1> QED
    BY <1>1, <1>3 DEF Linked

-----------------------------------------------------------------------------
(* What a call does to the frames of E1 and E2 and to the entries of L,      *)
(* frame by frame.                                                           *)

SameFrame(v, w, f) == /\ w.fm.state[f] = v.fm.state[f] /\ w.fm.pid[f] = v.fm.pid[f]
                      /\ w.fm.pte[f] = v.fm.pte[f]
SamePids(v, w) == \A d \in DFrame : w.fm.pid[d] = v.fm.pid[d]

\* The free frame f of E1 becomes the page of r.
Maps(v, w, L, r, f) ==
  /\ f \in RegionFrames("E1") /\ v.fm.state[f] = "FREE"
  /\ w.fm.state[f] = "USED" /\ w.fm.pid[f] = v.fm.pid[r.pt] /\ w.fm.pte[f] = r
  /\ \A x \in EFrame : x # f => SameFrame(v, w, x)
  /\ ToSet(w.fm.free["E2"]) = ToSet(v.fm.free["E2"])
  /\ \A s \in L : Ent(w, s) = IF s = r THEN [st |-> "present", base |-> f] ELSE Ent(v, s)
  /\ SamePids(v, w)

\* The frame f that r leads to is free.
Releases(v, w, L, r, f) ==
  /\ \A x \in EFrame : x # f => SameFrame(v, w, x)
  /\ w.fm.state[f] = "FREE"
  /\ ToSet(w.fm.free["E2"]) \subseteq ToSet(v.fm.free["E2"]) \cup {f}
  /\ \A s \in L \ {r} : Ent(w, s) = Ent(v, s)
  /\ SamePids(v, w)

\* The page in frame a of E1 goes to frame b of E2.
Moves(v, w, L, a, b) ==
  /\ a \in RegionFrames("E1") /\ v.fm.state[a] = "USED" /\ w.fm.state[a] = "FREE"
  /\ b \in RegionFrames("E2") /\ v.fm.state[b] = "FREE" /\ b \in ToSet(v.fm.free["E2"])
  /\ IF b < NFRAMES
     THEN w.fm.state[b] = "USED" /\ w.fm.pid[b] = v.fm.pid[a] /\ w.fm.pte[b] = v.fm.pte[a]
     ELSE w.fm.state[b] = "FREE"
  /\ \A x \in EFrame : x \notin {a, b} => SameFrame(v, w, x)
  /\ ToSet(w.fm.free["E2"]) = ToSet(v.fm.free["E2"]) \ {b}
  /\ \A s \in L : Ent(w, s) = IF s = v.fm.pte[a] THEN [st |-> "swapped", base |-> b] ELSE Ent(v, s)
  /\ SamePids(v, w)
  /\ w.mem = [v.mem EXCEPT ![b] = v.mem[a]]

\* Mapping a page (pgfutil.c:17-41) links its entry and frame.
LEMMA MapsLinked ==
  ASSUME NEW v, VmOK(v), NEW w, NEW L \in SUBSET AllRefs, NEW r \in L, NEW f,
         Linked(v, L \ {r}), Maps(v, w, L, r, f)
  PROVE  Linked(w, L)
  <1> USE DEF Maps
  <1>1. f \in EFrame /\ f \notin RegionFrames("E2") /\ r.pt \in DFrame
    BY FrameFacts DEF AllRefs
  <1>2. Ent(w, r) = [st |-> "present", base |-> f] /\ \A s \in L \ {r} : Ent(w, s) = Ent(v, s)
    OBVIOUS
  <1>3. ASSUME NEW s \in L \ {r}, Filled(v, s)
        PROVE  Ent(v, s).base \in EFrame /\ Ent(v, s).base # f
    <2>1. Ent(v, s).base \in EFrame
      BY <1>3, FilledFacts
    <2>2. v.fm.state[Ent(v, s).base] = "USED" \/ Lost(v, Ent(v, s).base)
      BY <1>3 DEF Linked, Down
    <2> QED
      BY <2>1, <2>2, <1>1 DEF Lost
  <1>4. Down(w, L)
    <2> SUFFICES ASSUME NEW s \in L, Filled(w, s)
                 PROVE  \/ w.fm.state[Ent(w, s).base] = "USED" /\ w.fm.pte[Ent(w, s).base] = s
                        \/ Lost(w, Ent(w, s).base)
      BY DEF Down
    <2>1. CASE s = r
      BY <2>1, <1>2
    <2>2. CASE s # r
      <3>1. Ent(w, s) = Ent(v, s) /\ Filled(v, s)
        BY <2>2, <1>2 DEF Filled
      <3>2. SameFrame(v, w, Ent(v, s).base)
        BY <2>2, <3>1, <1>3
      <3>3. \/ v.fm.state[Ent(v, s).base] = "USED" /\ v.fm.pte[Ent(v, s).base] = s
            \/ Lost(v, Ent(v, s).base)
        BY <2>2, <3>1 DEF Linked, Down
      <3> QED
        BY <3>1, <3>2, <3>3 DEF SameFrame, Lost
    <2> QED
      BY <2>1, <2>2
  <1>5. Apart(w, L)
    <2> SUFFICES ASSUME NEW s \in L, NEW t \in L, Filled(w, s), Filled(w, t),
                        Ent(w, s).base = Ent(w, t).base
                 PROVE  s = t
      BY DEF Apart
    <2>1. \A u \in L \ {r} : Filled(w, u) => Ent(w, u).base # f /\ Filled(v, u)
      BY <1>2, <1>3 DEF Filled
    <2>2. CASE s = r \/ t = r
      BY <2>1, <2>2, <1>2
    <2>3. CASE s # r /\ t # r
      BY <2>1, <2>3, <1>2 DEF Linked, Apart
    <2> QED
      BY <2>2, <2>3
  <1>6. Up(w, L)
    <2> SUFFICES ASSUME NEW x \in EFrame, w.fm.state[x] = "USED"
                 PROVE  /\ w.fm.pte[x] \in L /\ w.fm.pid[x] = w.fm.pid[w.fm.pte[x].pt]
                        /\ Ent(w, w.fm.pte[x]) =
                             [st |-> IF x \in RegionFrames("E1") THEN "present" ELSE "swapped",
                              base |-> x]
      BY DEF Up
    <2>1. CASE x = f
      BY <2>1, <1>1, <1>2 DEF SamePids
    <2>2. CASE x # f
      <3>1. SameFrame(v, w, x)
        BY <2>2
      <3>2. /\ v.fm.pte[x] \in L \ {r} /\ v.fm.pid[x] = v.fm.pid[v.fm.pte[x].pt]
            /\ Ent(v, v.fm.pte[x]) =
                 [st |-> IF x \in RegionFrames("E1") THEN "present" ELSE "swapped", base |-> x]
        BY <3>1 DEF SameFrame, Linked, Up
      <3>3. v.fm.pte[x].pt \in DFrame
        BY <3>2 DEF AllRefs
      <3> QED
        BY <3>1, <3>2, <3>3, <1>2 DEF SameFrame, SamePids
    <2> QED
      BY <2>1, <2>2
  <1> QED
    BY <1>4, <1>5, <1>6 DEF Linked

\* Giving up the frame of an entry unlinks the entry.
LEMMA ReleasesLinked ==
  ASSUME NEW v, VmOK(v), NEW w, NEW L \in SUBSET AllRefs, NEW r \in L,
         Linked(v, L), Filled(v, r), Releases(v, w, L, r, Ent(v, r).base)
  PROVE  Linked(w, L \ {r})
  <1> DEFINE f == Ent(v, r).base
  <1>1. /\ \A x \in EFrame : x # f => SameFrame(v, w, x)
        /\ w.fm.state[f] = "FREE"
        /\ ToSet(w.fm.free["E2"]) \subseteq ToSet(v.fm.free["E2"]) \cup {f}
        /\ \A s \in L \ {r} : Ent(w, s) = Ent(v, s)
        /\ SamePids(v, w)
    BY DEF Releases
  <1>2. \A s \in L \ {r} : Filled(v, s) => Ent(v, s).base # f
    BY DEF Linked, Apart
  <1> HIDE DEF f
  <1>3. \A s \in L \ {r} : Filled(w, s) => Filled(v, s)
    BY <1>1 DEF Filled
  <1>4. Down(w, L \ {r})
    <2> SUFFICES ASSUME NEW s \in L \ {r}, Filled(w, s)
                 PROVE  \/ w.fm.state[Ent(w, s).base] = "USED" /\ w.fm.pte[Ent(w, s).base] = s
                        \/ Lost(w, Ent(w, s).base)
      BY DEF Down
    <2>1. Filled(v, s) /\ Ent(w, s) = Ent(v, s) /\ Ent(v, s).base # f
      BY <1>1, <1>2, <1>3
    <2>2. Ent(v, s).base \in EFrame
      BY <2>1, FilledFacts
    <2>3. SameFrame(v, w, Ent(v, s).base)
      BY <2>1, <2>2, <1>1
    <2>4. \/ v.fm.state[Ent(v, s).base] = "USED" /\ v.fm.pte[Ent(v, s).base] = s
          \/ Lost(v, Ent(v, s).base)
      BY <2>1 DEF Linked, Down
    <2> QED
      BY <2>1, <2>3, <2>4, <1>1 DEF SameFrame, Lost
  <1>5. Apart(w, L \ {r})
    BY <1>1, <1>3 DEF Linked, Apart
  <1>6. Up(w, L \ {r})
    <2> SUFFICES ASSUME NEW x \in EFrame, w.fm.state[x] = "USED"
                 PROVE  /\ w.fm.pte[x] \in L \ {r} /\ w.fm.pid[x] = w.fm.pid[w.fm.pte[x].pt]
                        /\ Ent(w, w.fm.pte[x]) =
                             [st |-> IF x \in RegionFrames("E1") THEN "present" ELSE "swapped",
                              base |-> x]
      BY DEF Up
    <2>1. x # f /\ SameFrame(v, w, x)
      BY <1>1
    <2>2. /\ v.fm.pte[x] \in L /\ v.fm.pid[x] = v.fm.pid[v.fm.pte[x].pt]
          /\ Ent(v, v.fm.pte[x]) =
               [st |-> IF x \in RegionFrames("E1") THEN "present" ELSE "swapped", base |-> x]
      BY <2>1 DEF SameFrame, Linked, Up
    <2>3. v.fm.pte[x].pt \in DFrame /\ v.fm.pte[x] # r
      BY <2>1, <2>2 DEF AllRefs, f
    <2> QED
      BY <2>1, <2>2, <2>3, <1>1 DEF SameFrame, SamePids
  <1> QED
    BY <1>4, <1>5, <1>6 DEF Linked

\* An eviction (pgfutil.c:102-149) moves the page of the victim with all that
\* leads to it, and moves no other page.
LEMMA MovesLinked ==
  ASSUME NEW v, VmOK(v), NEW w, NEW L \in SUBSET AllRefs, NEW a, NEW b,
         Linked(v, L), Moves(v, w, L, a, b)
  PROVE  /\ Linked(w, L) /\ Carried(v, w, L)
         /\ \A s \in L : Filled(v, s) /\ Ent(v, s).base # a => Ent(w, s) = Ent(v, s)
  <1> USE DEF Moves
  <1> DEFINE r == v.fm.pte[a]
  <1>1. /\ a \in EFrame /\ b \in EFrame /\ a # b /\ a \notin RegionFrames("E2")
        /\ b \notin RegionFrames("E1")
    BY FrameFacts
  <1>2. r \in L /\ Ent(v, r) = [st |-> "present", base |-> a] /\ v.fm.pid[a] = v.fm.pid[r.pt]
    BY <1>1 DEF Linked, Up
  <1>3. Ent(w, r) = [st |-> "swapped", base |-> b] /\ \A s \in L \ {r} : Ent(w, s) = Ent(v, s)
    BY <1>2
  <1>4. IF b < NFRAMES
        THEN w.fm.state[b] = "USED" /\ w.fm.pid[b] = v.fm.pid[a] /\ w.fm.pte[b] = r
        ELSE w.fm.state[b] = "FREE"
    OBVIOUS
  <1> HIDE DEF r
  <1>5. ASSUME NEW s \in L \ {r}, Filled(v, s)
        PROVE  Ent(v, s).base \in EFrame \ {a, b}
    <2>1. Ent(v, s).base \in EFrame
      BY <1>5, FilledFacts
    <2>2. v.fm.state[Ent(v, s).base] = "USED" \/ Lost(v, Ent(v, s).base)
      BY <1>5 DEF Linked, Down
    <2>3. Ent(v, s).base # a
      BY <1>5, <1>2 DEF Linked, Apart, Filled
    <2> QED
      BY <2>1, <2>2, <2>3, <1>1 DEF Lost
  <1>6. \A s \in L \ {r} : Filled(w, s) <=> Filled(v, s)
    BY <1>3 DEF Filled
  <1>7. Down(w, L)
    <2> SUFFICES ASSUME NEW s \in L, Filled(w, s)
                 PROVE  \/ w.fm.state[Ent(w, s).base] = "USED" /\ w.fm.pte[Ent(w, s).base] = s
                        \/ Lost(w, Ent(w, s).base)
      BY DEF Down
    <2>1. CASE s = r
      BY <2>1, <1>3, <1>4 DEF Lost
    <2>2. CASE s # r
      <3>1. Ent(w, s) = Ent(v, s) /\ Filled(v, s)
        BY <2>2, <1>3 DEF Filled
      <3>2. Ent(v, s).base \in EFrame /\ SameFrame(v, w, Ent(v, s).base)
        BY <2>2, <3>1, <1>5
      <3>3. \/ v.fm.state[Ent(v, s).base] = "USED" /\ v.fm.pte[Ent(v, s).base] = s
            \/ Lost(v, Ent(v, s).base)
        BY <2>2, <3>1 DEF Linked, Down
      <3> QED
        BY <3>1, <3>2, <3>3 DEF SameFrame, Lost
    <2> QED
      BY <2>1, <2>2
  <1>8. Apart(w, L)
    <2> SUFFICES ASSUME NEW s \in L, NEW t \in L, Filled(w, s), Filled(w, t),
                        Ent(w, s).base = Ent(w, t).base
                 PROVE  s = t
      BY DEF Apart
    <2>1. \A u \in L \ {r} : Filled(w, u) => Ent(w, u).base # b /\ Filled(v, u)
      BY <1>3, <1>5, <1>6
    <2>2. CASE s = r \/ t = r
      BY <2>1, <2>2, <1>3
    <2>3. CASE s # r /\ t # r
      BY <2>1, <2>3, <1>3 DEF Linked, Apart
    <2> QED
      BY <2>2, <2>3
  <1>9. Up(w, L)
    <2> SUFFICES ASSUME NEW x \in EFrame, w.fm.state[x] = "USED"
                 PROVE  /\ w.fm.pte[x] \in L /\ w.fm.pid[x] = w.fm.pid[w.fm.pte[x].pt]
                        /\ Ent(w, w.fm.pte[x]) =
                             [st |-> IF x \in RegionFrames("E1") THEN "present" ELSE "swapped",
                              base |-> x]
      BY DEF Up
    <2>1. x # a
      OBVIOUS
    <2>2. CASE x = b
      <3>1. w.fm.pid[x] = v.fm.pid[r.pt] /\ w.fm.pte[x] = r
        BY <2>2, <1>2, <1>4
      <3>2. r.pt \in DFrame
        BY <1>2 DEF AllRefs
      <3> QED
        BY <2>2, <3>1, <3>2, <1>1, <1>2, <1>3 DEF SamePids
    <2>3. CASE x # b
      <3>1. SameFrame(v, w, x)
        BY <2>1, <2>3
      <3>2. /\ v.fm.pte[x] \in L /\ v.fm.pid[x] = v.fm.pid[v.fm.pte[x].pt]
            /\ Ent(v, v.fm.pte[x]) =
                 [st |-> IF x \in RegionFrames("E1") THEN "present" ELSE "swapped", base |-> x]
        BY <3>1 DEF SameFrame, Linked, Up
      <3>3. v.fm.pte[x].pt \in DFrame /\ v.fm.pte[x] # r
        BY <2>1, <3>2, <1>2 DEF AllRefs
      <3> QED
        BY <3>1, <3>2, <3>3, <1>3 DEF SameFrame, SamePids
    <2> QED
      BY <2>2, <2>3
  <1>10. Carried(v, w, L)
    <2>1. v.mem \in [EFrame -> Cell]
      BY VmFacts DEF VmOK
    <2>2. w.mem[b] = v.mem[a] /\ \A x \in EFrame \ {b} : w.mem[x] = v.mem[x]
      BY <2>1, <1>1
    <2>3. Filled(w, r) /\ Filled(v, r) /\ w.mem[Ent(w, r).base] = v.mem[Ent(v, r).base]
      BY <2>2, <1>2, <1>3 DEF Filled
    <2>4. \A s \in L \ {r} : Filled(v, s) => w.mem[Ent(w, s).base] = v.mem[Ent(v, s).base]
      BY <2>2, <1>3, <1>5
    <2> QED
      BY <2>3, <2>4, <1>6 DEF Carried
  <1>11. \A s \in L : Filled(v, s) /\ Ent(v, s).base # a => Ent(w, s) = Ent(v, s)
    BY <1>2, <1>3
  <1> QED
    BY <1>7, <1>8, <1>9, <1>10, <1>11 DEF Linked
-----------------------------------------------------------------------------
(* The calls of pgfutil.c as such steps.                                     *)

\* The entries of L are in page tables.
Tabled(v, L) == \A r \in L : v.dmem[r.pt].kind = "pt"

\* An absent entry may be put in.
LEMMA AbsentIn ==
  ASSUME NEW v, NEW L, NEW r \in L, Linked(v, L \ {r}), ~ Filled(v, r)
  PROVE  Linked(v, L)
  <1>1. Down(v, L) /\ Apart(v, L)
    BY DEF Linked, Down, Apart
  <1>2. Up(v, L)
    BY DEF Linked, Up
  <1> QED
    BY <1>1, <1>2 DEF Linked

\* Calls that leave region D alone leave page tables where they are.
LEMMA TabledKept ==
  ASSUME NEW v, NEW w, KeepsD(v, w), NEW L \in SUBSET AllRefs
  PROVE  Tabled(v, L) <=> Tabled(w, L)
  BY DEF KeepsD, Tabled, AllRefs

\* What a program last wrote moves twice as well as once.
LEMMA CarriedTrans ==
  ASSUME NEW u, NEW v, NEW w, NEW L, Carried(u, v, L), Carried(v, w, L)
  PROVE  Carried(u, w, L)
  BY DEF Carried

\* The counts of page tables do not matter.
LEMMA LinkedSame ==
  ASSUME NEW v, NEW w, NEW L, Linked(v, L), w.dmem = v.dmem, w.fm.state = v.fm.state,
         w.fm.pid = v.fm.pid, w.fm.pte = v.fm.pte, w.fm.free = v.fm.free
  PROVE  Linked(w, L)
  <1>1. \A r : Ent(w, r) = Ent(v, r) /\ (Filled(w, r) <=> Filled(v, r))
    BY DEF Ent, Filled
  <1>2. \A f : Lost(w, f) <=> Lost(v, f)
    BY DEF Lost
  <1>3. Down(w, L)
    BY <1>1, <1>2 DEF Linked, Down
  <1>4. Apart(w, L)
    BY <1>1 DEF Linked, Apart
  <1>5. Up(w, L)
    BY <1>1 DEF Linked, Up
  <1> QED
    BY <1>3, <1>4, <1>5 DEF Linked

\* Of the entries of L, r becomes e and no other changes.
Put(v, w, L, r, e) == \A s \in L : Ent(w, s) = IF s = r THEN e ELSE Ent(v, s)

\* A store to the entry r is one to no other entry.
LEMMA WroteEnt ==
  ASSUME NEW v, NEW w, NEW L \in SUBSET AllRefs, NEW r \in AllRefs, NEW e,
         v.dmem[r.pt].kind = "pt", Wrote(v, w, r.pt, r.page, e)
  PROVE  w.status = v.status /\ Put(v, w, L, r, e)
  <1>1. \A s \in L : s.pt \in DFrame /\ s.page \in Page
                     /\ (s = r <=> s.pt = r.pt /\ s.page = r.page)
    BY DEF AllRefs
  <1> QED
    BY <1>1 DEF Wrote, Ent, Put

\* mapfreeframe where E1 has a free frame.
LEMMA MappedMaps ==
  ASSUME NEW v, VmOK(v), NEW w, NEW d \in DFrame, NEW g \in Page, NEW f,
         v.dmem[d].heap \in DFrame, NEW L \in SUBSET AllRefs, Tabled(v, L),
         PteRefOf(v, d, g) \in L, MappedTo(v, w, v.fm.pid[v.dmem[d].heap], d, g, f)
  PROVE  Maps(v, w, L, PteRefOf(v, d, g), f) /\ w.status = v.status
  <1> DEFINE r == PteRefOf(v, d, g)
  <1>1. r \in AllRefs /\ r.pt = v.dmem[d].heap /\ r.page = g /\ v.dmem[r.pt].kind = "pt"
    BY DEF PteRefOf, Tabled
  <1>2. /\ Took(v.fm, w.fm, "E1", f, v.fm.pid[r.pt], r)
        /\ Wrote(v, w, r.pt, r.page, [st |-> "present", base |-> f])
    BY <1>1 DEF MappedTo
  <1> HIDE DEF r
  <1>3. w.status = v.status
        /\ \A s \in L : Ent(w, s) = IF s = r THEN [st |-> "present", base |-> f] ELSE Ent(v, s)
    <2> DEFINE e == [st |-> "present", base |-> f]
    <2>1. Wrote(v, w, r.pt, r.page, e)
      BY <1>2
    <2> HIDE DEF e
    <2>2. w.status = v.status /\ Put(v, w, L, r, e)
      BY Zenon, <1>1, <2>1, WroteEnt
    <2> QED
      BY <2>2 DEF e, Put
  <1>4. f \in RegionFrames("E1") /\ f < NFRAMES /\ v.fm.state[f] = "FREE" /\ f \in Frame
    BY <1>2, FrameFacts DEF Took
  <1>5. /\ v.fm.state \in [Frame -> {"FREE", "USED"}] /\ v.fm.pid \in [Frame -> Pid]
        /\ v.fm.pte \in [Frame -> PteRef] /\ v.fm.free \in [Region -> Seq(Frame)]
    BY InOrderFacts DEF VmOK
  <1>6. /\ w.fm.state = [v.fm.state EXCEPT ![f] = "USED"]
        /\ w.fm.pid = [v.fm.pid EXCEPT ![f] = v.fm.pid[r.pt]]
        /\ w.fm.pte = [v.fm.pte EXCEPT ![f] = r]
        /\ w.fm.free = [v.fm.free EXCEPT !["E1"] = Tail(@)]
    BY <1>2, <1>4 DEF Took
  <1>7. /\ w.fm.state[f] = "USED" /\ w.fm.pid[f] = v.fm.pid[r.pt] /\ w.fm.pte[f] = r
        /\ \A x \in Frame : x # f => SameFrame(v, w, x)
    BY <1>4, <1>5, <1>6 DEF SameFrame
  <1>8. w.fm.free["E2"] = v.fm.free["E2"]
    BY <1>5, <1>6, FrameFacts
  <1>9. SamePids(v, w)
    BY <1>4, <1>7, FrameFacts DEF SamePids, SameFrame
  <1> QED
    BY <1>3, <1>4, <1>7, <1>8, <1>9, FrameFacts DEF Maps, r

\* Mapping one page moves no other.
LEMMA MapsCarried ==
  ASSUME NEW v, VmOK(v), NEW w, NEW L \in SUBSET AllRefs, NEW r \in L, NEW f,
         Linked(v, L \ {r}), Maps(v, w, L, r, f),
         \A x \in EFrame \ {f} : w.mem[x] = v.mem[x]
  PROVE  Carried(v, w, L \ {r}) /\ \A s \in L \ {r} : Ent(w, s) = Ent(v, s)
  <1>1. \A s \in L \ {r} : Ent(w, s) = Ent(v, s)
    BY DEF Maps
  <1>2. ASSUME NEW s \in L \ {r}, Filled(v, s)
        PROVE  Ent(v, s).base \in EFrame \ {f}
    <2>1. Ent(v, s).base \in EFrame
      BY <1>2, FilledFacts
    <2>2. v.fm.state[Ent(v, s).base] = "USED" \/ Lost(v, Ent(v, s).base)
      BY <1>2 DEF Linked, Down
    <2> QED
      BY <2>1, <2>2, FrameFacts DEF Lost, Maps
  <1> QED
    BY <1>1, <1>2 DEF Carried, Filled

\* evictframe where it has a victim and a place for it.
LEMMA EvictedMoves ==
  ASSUME NEW v, VmOK(v), NEW w, NEW a, NEW b, NEW L \in SUBSET AllRefs, Tabled(v, L),
         Linked(v, L), EvictedTo(v, w, a, b)
  PROVE  Moves(v, w, L, a, b) /\ w.status = v.status
  <1> DEFINE r == v.fm.pte[a]
  <1>1. PICK t : /\ InOrder(t) /\ Took(v.fm, t, "E2", b, v.fm.pid[a], v.fm.pte[a])
                 /\ Gave(t, w.fm, "E1", a)
    BY DEF EvictedTo
  <1>2. /\ a \in RegionFrames("E1") /\ v.fm.state[a] = "USED" /\ a \in EFrame /\ a \in Frame
        /\ w.mem = [v.mem EXCEPT ![b] = v.mem[a]]
    BY FrameFacts DEF EvictedTo
  <1>3. r \in L /\ r \in AllRefs /\ v.dmem[r.pt].kind = "pt" /\ r # FR_PTEUNUSED
    <2>1. r \in L
      BY <1>2 DEF Linked, Up
    <2>2. r \in AllRefs /\ r.pt \in DFrame /\ r.page \in Page /\ r = [pt |-> r.pt, page |-> r.page]
      BY <2>1 DEF AllRefs
    <2> QED
      BY <2>1, <2>2, RefFacts DEF Tabled
  <1>4. Wrote(v, w, r.pt, r.page, [st |-> "swapped", base |-> b])
    BY <1>3 DEF EvictedTo
  <1>5. w.status = v.status
        /\ \A s \in L : Ent(w, s) = IF s = r THEN [st |-> "swapped", base |-> b] ELSE Ent(v, s)
    <2> DEFINE e == [st |-> "swapped", base |-> b]
    <2>1. Wrote(v, w, r.pt, r.page, e)
      BY <1>4
    <2> HIDE DEF e
    <2>2. w.status = v.status /\ Put(v, w, L, r, e)
      BY <1>3, <2>1, WroteEnt
    <2> QED
      BY <2>2 DEF e, Put
  <1>6. /\ v.fm.state \in [Frame -> {"FREE", "USED"}] /\ v.fm.pid \in [Frame -> Pid]
        /\ v.fm.pte \in [Frame -> PteRef] /\ v.fm.free \in [Region -> Seq(Frame)]
        /\ t.state \in [Frame -> {"FREE", "USED"}] /\ t.free \in [Region -> Seq(Frame)]
    BY <1>1, InOrderFacts DEF VmOK
  <1>7. /\ b \in RegionFrames("E2") /\ v.fm.state[b] = "FREE" /\ b \in ToSet(v.fm.free["E2"])
        /\ b \in Frame /\ b # a
    BY <1>1, <1>2, FrameFacts DEF Took
  <1>8. /\ IF b < NFRAMES
           THEN t.state[b] = "USED" /\ t.pid[b] = v.fm.pid[a] /\ t.pte[b] = r
           ELSE t.state[b] = "FREE"
        /\ \A x \in Frame \ {b} : t.state[x] = v.fm.state[x] /\ t.pid[x] = v.fm.pid[x]
                                  /\ t.pte[x] = v.fm.pte[x]
    BY <1>1, <1>6, <1>7 DEF Took
  <1>9. /\ w.fm.pid = t.pid /\ w.fm.pte = t.pte /\ w.fm.state = [t.state EXCEPT ![a] = "FREE"]
        /\ w.fm.free = [t.free EXCEPT !["E1"] = <<a>> \o @]
    BY <1>1 DEF Gave
  <1>10. /\ IF b < NFRAMES
            THEN w.fm.state[b] = "USED" /\ w.fm.pid[b] = v.fm.pid[a] /\ w.fm.pte[b] = r
            ELSE w.fm.state[b] = "FREE"
         /\ w.fm.state[a] = "FREE"
         /\ \A x \in Frame \ {a, b} : SameFrame(v, w, x)
    BY <1>2, <1>6, <1>7, <1>8, <1>9 DEF SameFrame
  <1>11. ToSet(w.fm.free["E2"]) = ToSet(v.fm.free["E2"]) \ {b}
    <2>1. w.fm.free["E2"] = t.free["E2"]
      BY <1>6, <1>9, FrameFacts
    <2>2. t.free["E2"] = Tail(v.fm.free["E2"])
          /\ ToSet(Tail(v.fm.free["E2"])) = ToSet(v.fm.free["E2"]) \ {b}
      BY <1>1, <1>6, FrameFacts DEF Took
    <2> QED
      BY <2>1, <2>2
  <1>12. SamePids(v, w)
    BY <1>2, <1>7, <1>10, FrameFacts DEF SamePids, SameFrame
  <1> QED
    BY <1>2, <1>5, <1>7, <1>10, <1>11, <1>12, FrameFacts DEF Moves

\* evictframe (pgfutil.c:102-149) moves the victim, if there is one, and no
\* other page, and every page keeps what it held.
LEMMA evictframeLinked ==
  ASSUME NEW v, VmOK(v), NEW L \in SUBSET AllRefs, Tabled(v, L), Linked(v, L)
  PROVE  LET w == evictframe(v) IN
         /\ VmOK(w) /\ KeepsD(v, w) /\ Tabled(w, L) /\ w.status = v.status
         /\ Linked(w, L) /\ Carried(v, w, L)
         /\ \A s \in L : Filled(v, s) /\ Ent(v, s).base # getusedframeE1(v.fm) => Ent(w, s) = Ent(v, s)
  <1> DEFINE w == evictframe(v)
  <1>1. VmOK(w) /\ KeepsD(v, w)
    BY evictframeKeeps
  <1>2. Tabled(w, L)
    BY <1>1, TabledKept
  <1>3. /\ v.fm.used = << >> \/ e2full(v) => w = v
        /\ ~ (v.fm.used = << >> \/ e2full(v)) =>
             EvictedTo(v, w, Head(v.fm.used), FreeFrame(v.fm, "E2"))
    BY evictframeShape
  <1> HIDE DEF w
  <1>4. CASE w = v
    <2>1. Carried(v, v, L)
      BY DEF Carried
    <2> QED
      BY <1>1, <1>2, <1>4, <2>1 DEF w
  <1>5. CASE ~ (v.fm.used = << >> \/ e2full(v))
    <2>1. getusedframeE1(v.fm) = Head(v.fm.used)
      BY <1>5 DEF getusedframeE1
    <2>2. EvictedTo(v, w, getusedframeE1(v.fm), FreeFrame(v.fm, "E2"))
      BY <1>3, <1>5, <2>1
    <2>3. Moves(v, w, L, getusedframeE1(v.fm), FreeFrame(v.fm, "E2")) /\ w.status = v.status
      BY <2>2, EvictedMoves
    <2>4. /\ Linked(w, L) /\ Carried(v, w, L)
          /\ \A s \in L : Filled(v, s) /\ Ent(v, s).base # getusedframeE1(v.fm) => Ent(w, s) = Ent(v, s)
      BY SMTT(30), <2>3, MovesLinked
    <2> QED
      BY <1>1, <1>2, <2>3, <2>4 DEF w
  <1> QED
    BY <1>3, <1>4, <1>5

\* mapfreeframe (pgfutil.c:17-41) by the owner of the page table, on an entry
\* that leads nowhere.
LEMMA mapfreeframeLinked ==
  ASSUME NEW v, VmOK(v), NEW pid \in Pid, NEW d \in DFrame, v.dmem[d].heap \in DFrame,
         pid = v.fm.pid[v.dmem[d].heap], NEW g \in Page, NEW L \in SUBSET AllRefs, Tabled(v, L),
         PteRefOf(v, d, g) \in L, Linked(v, L), ~ Filled(v, PteRefOf(v, d, g))
  PROVE  LET w == mapfreeframe(v, pid, d, g) IN
         /\ VmOK(w) /\ KeepsD(v, w) /\ w.status = v.status /\ Linked(w, L)
         /\ Carried(v, w, L \ {PteRefOf(v, d, g)})
         /\ \A s \in L \ {PteRefOf(v, d, g)} : Ent(w, s) = Ent(v, s)
  <1> DEFINE w == mapfreeframe(v, pid, d, g)
             r == PteRefOf(v, d, g)
             f == FreeFrame(v.fm, "E1")
  <1>1. VmOK(w) /\ KeepsD(v, w)
    BY mapfreeframeKeeps
  <1>2. w.mem = v.mem /\ (e1full(v) => w = v) /\ (~ e1full(v) => MappedTo(v, w, pid, d, g, f))
    BY mapfreeframeShape
  <1>3. Linked(v, L \ {r})
    BY AbsentOut
  <1> HIDE DEF w, f
  <1>4. CASE w = v
    BY <1>1, <1>4, Zenon DEF w, Carried
  <1>5. CASE MappedTo(v, w, pid, d, g, f)
    <2>1. Maps(v, w, L, r, f) /\ w.status = v.status
      BY <1>5, MappedMaps
    <2>2. Linked(w, L)
      BY <1>3, <2>1, MapsLinked
    <2>3. Carried(v, w, L \ {r}) /\ \A s \in L \ {r} : Ent(w, s) = Ent(v, s)
      BY <1>2, <1>3, <2>1, MapsCarried
    <2> QED
      BY <1>1, <2>1, <2>2, <2>3, Zenon DEF w
  <1> QED
    BY <1>2, <1>4, <1>5

\* The frame of E2 that the entry r names is given up, be it lost or not.
LEMMA GivenUp ==
  ASSUME NEW v, VmOK(v), NEW L \in SUBSET AllRefs, NEW r \in L, Linked(v, L),
         Ent(v, r).st = "swapped"
  PROVE  LET w == [v EXCEPT !.fm = invfreeframe(@, Ent(v, r).base)] IN
         /\ VmOK(w) /\ KeepsD(v, w) /\ w.dmem = v.dmem /\ w.mem = v.mem /\ w.status = v.status
         /\ Linked(w, L \ {r}) /\ w.fm.used = v.fm.used
  <1> DEFINE src == Ent(v, r).base
             w == [v EXCEPT !.fm = invfreeframe(@, src)]
  <1>1. Filled(v, r) /\ src \in RegionFrames("E2") /\ src \in EFrame /\ src \in Frame
    BY FilledFacts, FrameFacts DEF Filled
  <1>2. /\ InOrder(invfreeframe(v.fm, src))
        /\ v.fm.state[src] = "FREE" => invfreeframe(v.fm, src) = v.fm
        /\ v.fm.state[src] # "FREE" => Gave(v.fm, invfreeframe(v.fm, src), "E2", src)
    BY <1>1, GiveShape, FrameFacts DEF VmOK
  <1>3. /\ VmOK(w) /\ w.fm = invfreeframe(v.fm, src) /\ w.dmem = v.dmem /\ w.mem = v.mem
        /\ w.status = v.status
    BY <1>2, FmOK
  <1> HIDE DEF w, src
  <1>4. /\ v.fm.state \in [Frame -> {"FREE", "USED"}] /\ v.fm.free \in [Region -> Seq(Frame)]
    BY InOrderFacts DEF VmOK
  <1>5. \A s : Ent(w, s) = Ent(v, s)
    BY <1>3 DEF Ent
  <1>6. Releases(v, w, L, r, src) /\ KeepsD(v, w) /\ w.fm.used = v.fm.used
    <2>1. CASE v.fm.state[src] = "FREE"
      BY <1>2, <1>3, <1>5, <2>1, KeepsDSame DEF Releases, SameFrame, SamePids, KeepsD
    <2>2. CASE v.fm.state[src] # "FREE"
      <3>1. /\ w.fm.free = [v.fm.free EXCEPT !["E2"] = <<src>> \o @]
            /\ ToSet(<<src>> \o v.fm.free["E2"]) = ToSet(v.fm.free["E2"]) \cup {src}
            /\ w.fm.pid = v.fm.pid /\ w.fm.pte = v.fm.pte
            /\ w.fm.state = [v.fm.state EXCEPT ![src] = "FREE"] /\ w.fm.used = v.fm.used
        BY <1>2, <1>3, <2>2 DEF Gave
      <3>2. /\ ToSet(w.fm.free["E2"]) = ToSet(v.fm.free["E2"]) \cup {src}
            /\ w.fm.free["D"] = v.fm.free["D"]
        BY <1>4, <3>1, FrameFacts
      <3>3. w.fm.state[src] = "FREE" /\ \A x \in Frame \ {src} : w.fm.state[x] = v.fm.state[x]
        BY <1>1, <1>4, <3>1
      <3>4. Releases(v, w, L, r, src)
        BY <1>1, <1>5, <3>1, <3>2, <3>3, FrameFacts DEF Releases, SameFrame, SamePids
      <3>5. KeepsD(v, w)
        BY <1>1, <1>3, <3>1, <3>2, <3>3, FrameFacts DEF KeepsD
      <3> QED
        BY <3>1, <3>4, <3>5
    <2> QED
      BY <2>1, <2>2
  <1>7. Linked(w, L \ {r})
    <2>1. Releases(v, w, L, r, Ent(v, r).base)
      BY <1>6 DEF src
    <2> QED
      BY <1>1, <2>1, ReleasesLinked
  <1> QED
    BY <1>3, <1>6, <1>7 DEF w, src

\* restoreframe (pgfutil.c:58-86) moves the page back, if E1 has a frame.
LEMMA restoreframeLinked ==
  ASSUME NEW v, VmOK(v), NEW pid \in Pid, NEW d \in DFrame, v.dmem[d].heap \in DFrame,
         pid = v.fm.pid[v.dmem[d].heap], NEW g \in Page, NEW L \in SUBSET AllRefs, Tabled(v, L),
         PteRefOf(v, d, g) \in L, Linked(v, L), getpte(v, d, g).st = "swapped"
  PROVE  LET w == restoreframe(v, pid, d, g) IN
         /\ VmOK(w) /\ KeepsD(v, w) /\ w.status = v.status /\ Linked(w, L) /\ Carried(v, w, L)
         /\ \A s \in L \ {PteRefOf(v, d, g)} : Ent(w, s) = Ent(v, s)
  <1> DEFINE w == restoreframe(v, pid, d, g)
             r == PteRefOf(v, d, g)
             f == FreeFrame(v.fm, "E1")
             src == getpte(v, d, g).base
             u == [v EXCEPT !.fm = invfreeframe(@, src)]
  <1>1. getpte(v, d, g) = Ent(v, r) /\ r.pt = v.dmem[d].heap /\ r.page = g
    BY DEF PteRefOf, getpte, Ent
  <1>2. Filled(v, r) /\ src \in RegionFrames("E2") /\ src \in EFrame /\ src \in Frame
    <2>1. Ent(v, r).st = "swapped" /\ r \in AllRefs
      BY <1>1
    <2>2. Filled(v, r)
      BY <2>1 DEF Filled
    <2> QED
      BY <1>1, <2>1, <2>2, FilledFacts, FrameFacts
  <1>3. VmOK(w) /\ KeepsD(v, w)
    BY <1>2, restoreframeKeeps
  <1>4. (e1full(v) => w = v) /\ (~ e1full(v) => RestoredTo(v, w, pid, d, g, src, f))
    BY <1>2, restoreframeShape
  <1>5. /\ VmOK(u) /\ u.dmem = v.dmem /\ u.mem = v.mem /\ u.status = v.status
        /\ Linked(u, L \ {r})
    <2>1. src = Ent(v, r).base /\ Ent(v, r).st = "swapped" /\ r \in L
      BY <1>1
    <2> HIDE DEF src, r
    <2> QED
      BY <2>1, GivenUp
  <1>6. /\ InOrder(u.fm) /\ u.fm = invfreeframe(v.fm, src)
        /\ v.fm.state[src] = "FREE" => u.fm = v.fm
        /\ v.fm.state[src] # "FREE" => Gave(v.fm, u.fm, "E2", src)
    <2>1. /\ InOrder(invfreeframe(v.fm, src))
          /\ v.fm.state[src] = "FREE" => invfreeframe(v.fm, src) = v.fm
          /\ v.fm.state[src] # "FREE" => Gave(v.fm, invfreeframe(v.fm, src), "E2", src)
      BY <1>2, GiveShape, FrameFacts DEF VmOK
    <2>2. u.fm = invfreeframe(v.fm, src)
      BY <2>1, FmOK
    <2> QED
      BY <2>1, <2>2
  <1> HIDE DEF w, f, src, u, r
  <1>7. CASE w = v
    BY <1>3, <1>7, Zenon DEF w, Carried
  <1>8. CASE RestoredTo(v, w, pid, d, g, src, f)
    <2>1. PICK t : /\ InOrder(t) /\ Took(v.fm, t, "E1", f, pid, PteRefOf(v, d, g))
                   /\ IF v.fm.state[src] = "FREE" THEN w.fm = t ELSE Gave(t, w.fm, "E2", src)
      BY <1>8 DEF RestoredTo
    <2>2. /\ w.mem = [v.mem EXCEPT ![f] = v.mem[src]]
          /\ Wrote(v, w, r.pt, r.page, [st |-> "present", base |-> f])
      BY <1>1, <1>8 DEF RestoredTo
    <2>3. w.status = v.status
          /\ \A s \in L : Ent(w, s) = IF s = r THEN [st |-> "present", base |-> f] ELSE Ent(v, s)
      <3> DEFINE e == [st |-> "present", base |-> f]
      <3>1. Wrote(v, w, r.pt, r.page, e) /\ v.dmem[r.pt].kind = "pt" /\ r \in AllRefs
        BY <2>2 DEF Tabled, r
      <3> HIDE DEF e
      <3>2. w.status = v.status /\ Put(v, w, L, r, e)
        BY <3>1, WroteEnt
      <3> QED
        BY <3>2 DEF e, Put
    <2>4. f \in RegionFrames("E1") /\ f < NFRAMES /\ v.fm.state[f] = "FREE" /\ f \in Frame
          /\ f \in EFrame /\ f # src
      BY <1>2, <2>1, FrameFacts DEF Took
    <2>5. /\ v.fm.state \in [Frame -> {"FREE", "USED"}] /\ v.fm.pid \in [Frame -> Pid]
          /\ v.fm.pte \in [Frame -> PteRef] /\ v.fm.free \in [Region -> Seq(Frame)]
      BY InOrderFacts DEF VmOK
    <2>6. /\ t.state[f] = "USED" /\ t.pid[f] = pid /\ t.pte[f] = r
          /\ \A x \in Frame \ {f} : t.state[x] = v.fm.state[x] /\ t.pid[x] = v.fm.pid[x]
                                    /\ t.pte[x] = v.fm.pte[x]
          /\ t.free["E2"] = v.fm.free["E2"]
      BY <2>1, <2>4, <2>5, FrameFacts, SMTT(30) DEF Took, r
    <2>7. /\ t.state \in [Frame -> {"FREE", "USED"}] /\ t.free \in [Region -> Seq(Frame)]
          /\ u.fm.state \in [Frame -> {"FREE", "USED"}] /\ u.fm.free \in [Region -> Seq(Frame)]
      BY <1>6, <2>1, InOrderFacts
    <2>8. /\ u.fm.state[f] = "FREE" /\ w.fm.state[f] = "USED"
          /\ w.fm.pid[f] = pid /\ w.fm.pte[f] = r /\ u.fm.pid = v.fm.pid
          /\ \A x \in Frame \ {f} : SameFrame(u, w, x)
          /\ w.fm.free["E2"] = u.fm.free["E2"]
      <3>1. CASE v.fm.state[src] = "FREE"
        BY <1>6, <2>1, <2>4, <2>6, <3>1 DEF SameFrame
      <3>2. CASE v.fm.state[src] # "FREE"
        <4>1. /\ u.fm.pid = v.fm.pid /\ u.fm.pte = v.fm.pte
              /\ u.fm.state = [v.fm.state EXCEPT ![src] = "FREE"]
              /\ u.fm.free = [v.fm.free EXCEPT !["E2"] = <<src>> \o @]
          BY <1>6, <3>2 DEF Gave
        <4>2. /\ w.fm.pid = t.pid /\ w.fm.pte = t.pte
              /\ w.fm.state = [t.state EXCEPT ![src] = "FREE"]
              /\ w.fm.free = [t.free EXCEPT !["E2"] = <<src>> \o @]
          BY <2>1, <3>2 DEF Gave
        <4>3. w.fm.free["E2"] = u.fm.free["E2"]
          BY <2>5, <2>6, <2>7, <4>1, <4>2, FrameFacts
        <4>4. u.fm.state[f] = "FREE" /\ w.fm.state[f] = "USED"
          BY <1>2, <2>4, <2>5, <2>6, <2>7, <4>1, <4>2
        <4>5. \A x \in Frame \ {f} : SameFrame(u, w, x)
          BY <1>2, <2>4, <2>5, <2>6, <2>7, <4>1, <4>2 DEF SameFrame
        <4> QED
          BY <2>6, <4>1, <4>2, <4>3, <4>4, <4>5
      <3> QED
        BY <3>1, <3>2
    <2>9. Maps(u, w, L, r, f)
      <3>1. \A s \in L : Ent(u, s) = Ent(v, s)
        BY <1>5 DEF Ent
      <3>2. SamePids(u, w)
        BY <2>4, <2>8, FrameFacts DEF SamePids, SameFrame
      <3>3. pid = u.fm.pid[r.pt]
        BY <1>1, <2>8
      <3>4. \A x \in EFrame : x # f => SameFrame(u, w, x)
        BY <2>8, FrameFacts
      <3> QED
        BY <2>3, <2>4, <2>8, <3>1, <3>2, <3>3, <3>4 DEF Maps
    <2>10. r \in L
      BY DEF r
    <2>11. Linked(w, L)
      BY <1>5, <2>9, <2>10, MapsLinked
    <2>12. /\ w.mem[f] = v.mem[src] /\ \A x \in EFrame \ {f} : w.mem[x] = v.mem[x]
      <3>1. v.mem \in [EFrame -> Cell]
        BY VmFacts DEF VmOK
      <3> QED
        BY <2>2, <2>4, <3>1
    <2>13. Carried(u, w, L \ {r}) /\ \A s \in L \ {r} : Ent(w, s) = Ent(u, s)
      BY <1>5, <2>9, <2>10, <2>12, MapsCarried
    <2>14. \A s : Ent(u, s) = Ent(v, s) /\ (Filled(u, s) <=> Filled(v, s))
      BY <1>5 DEF Ent, Filled
    <2>15. Filled(w, r) /\ Ent(w, r).base = f /\ Ent(v, r).base = src
      BY <1>1, <2>3, <2>10 DEF Filled, src
    <2>16. Carried(v, w, L)
      BY <1>2, <1>5, <2>12, <2>13, <2>14, <2>15, Zenon DEF Carried
    <2> QED
      BY <1>3, <2>3, <2>11, <2>13, <2>14, <2>16, Zenon DEF w, r
  <1> QED
    BY <1>4, <1>7, <1>8

\* swapframe (pgfutil.c:168-201) lets the page and the victim change places, or
\* copies the page nowhere.
LEMMA swapframeLinked ==
  ASSUME NEW v, VmOK(v), NEW pid \in Pid, NEW d \in DFrame, v.dmem[d].heap \in DFrame,
         pid = v.fm.pid[v.dmem[d].heap], NEW g \in Page, NEW L \in SUBSET AllRefs, Tabled(v, L),
         PteRefOf(v, d, g) \in L, Linked(v, L), getpte(v, d, g).st = "swapped"
  PROVE  LET w == swapframe(v, pid, d, g) IN
         /\ VmOK(w) /\ KeepsD(v, w) /\ w.status \in {v.status, "nowhere"}
         /\ w.status # "nowhere" => Linked(w, L) /\ Carried(v, w, L)
         /\ \A s \in L \ {PteRefOf(v, d, g)} :
              Filled(v, s) /\ Ent(v, s).base # getusedframeE1(v.fm) => Ent(w, s) = Ent(v, s)
  <1> DEFINE w == swapframe(v, pid, d, g)
             r == PteRefOf(v, d, g)
             src == getpte(v, d, g).base
             v0 == [v EXCEPT !.fm = invfreeframe(@, src)]
             v1 == evictframe(v0)
             f == FreeFrame(v1.fm, "E1")
  <1>1. getpte(v, d, g) = Ent(v, r) /\ r.pt = v.dmem[d].heap /\ r.page = g /\ r \in L
    BY DEF PteRefOf, getpte, Ent
  <1>2. Filled(v, r) /\ src \in RegionFrames("E2") /\ src \in EFrame
    <2>1. Ent(v, r).st = "swapped" /\ r \in AllRefs
      BY <1>1
    <2>2. Filled(v, r)
      BY <2>1 DEF Filled
    <2> QED
      BY <1>1, <2>1, <2>2, FilledFacts, FrameFacts
  <1>3. VmOK(w) /\ KeepsD(v, w)
    BY <1>2, swapframeKeeps
  <1>4. /\ VmOK(v0) /\ VmOK(v1)
        /\ e1full(v1) => w = [v1 EXCEPT !.status = "nowhere"]
        /\ ~ e1full(v1) => /\ MappedTo(v1, w, pid, d, g, f)
                           /\ w.mem = [v1.mem EXCEPT ![f] = v.mem[src]]
    BY SMTT(30), <1>2, swapframeShape
  <1>5. /\ v0.dmem = v.dmem /\ v0.mem = v.mem /\ v0.status = v.status
        /\ Linked(v0, L \ {r}) /\ v0.fm.used = v.fm.used /\ KeepsD(v, v0)
    <2>1. src = Ent(v, r).base /\ Ent(v, r).st = "swapped" /\ r \in L
      BY <1>1
    <2> HIDE DEF src, r
    <2> QED
      BY <2>1, GivenUp
  <1>6. Tabled(v0, L) /\ Tabled(v0, L \ {r})
    BY <1>5 DEF Tabled
  <1>7. /\ KeepsD(v0, v1) /\ v1.status = v0.status
        /\ Linked(v1, L \ {r}) /\ Carried(v0, v1, L \ {r})
        /\ \A s \in L \ {r} : Filled(v0, s) /\ Ent(v0, s).base # getusedframeE1(v0.fm)
                                => Ent(v1, s) = Ent(v0, s)
    <2>1. L \ {r} \in SUBSET AllRefs
      OBVIOUS
    <2> HIDE DEF v0, r
    <2> QED
      BY <1>4, <1>5, <1>6, <2>1, evictframeLinked
  <1> HIDE DEF w, v0, v1, src, r, f
  <1>8. \A s : Ent(v0, s) = Ent(v, s) /\ (Filled(v0, s) <=> Filled(v, s))
    BY <1>5 DEF Ent, Filled
  <1>9. \A s \in L \ {r} : Filled(v, s) /\ Ent(v, s).base # getusedframeE1(v.fm) => Ent(v1, s) = Ent(v, s)
    BY <1>5, <1>7, <1>8 DEF getusedframeE1
  <1>10. Carried(v, v1, L \ {r})
    BY <1>5, <1>7, <1>8, Zenon DEF Carried
  <1>11. CASE e1full(v1)
    <2>1. w.status = "nowhere" /\ w.dmem = v1.dmem
      <3>1. v1 \in VmType /\ "nowhere" \in Status
        BY <1>4 DEF VmOK, Status
      <3>2. LET x == [v1 EXCEPT !.status = "nowhere"] IN x.status = "nowhere" /\ x.dmem = v1.dmem
        BY <3>1, StatusShape
      <3> QED
        BY <1>4, <1>11, <3>2
    <2>2. \A s : Ent(w, s) = Ent(v1, s)
      BY <2>1, Zenon DEF Ent
    <2> QED
      BY <1>3, <1>9, <2>1, <2>2, Zenon DEF w, r
  <1>12. CASE ~ e1full(v1)
    <2>1. KeepsD(v, v1)
      BY <1>5, <1>7, KeepsDTrans
    <2>2. /\ v1.dmem[d].heap = v.dmem[d].heap /\ PteRefOf(v1, d, g) = r
          /\ v1.fm.pid[v1.dmem[d].heap] = pid
      BY <2>1 DEF KeepsD, PteRefOf, r
    <2>3. Tabled(v1, L)
      BY <2>1, TabledKept
    <2>4. MappedTo(v1, w, v1.fm.pid[v1.dmem[d].heap], d, g, f)
          /\ w.mem = [v1.mem EXCEPT ![f] = v.mem[src]]
      BY <1>4, <1>12, <2>2
    <2>5. v1.dmem[d].heap \in DFrame /\ PteRefOf(v1, d, g) \in L
      BY <1>1, <2>2
    <2>6. Maps(v1, w, L, r, f) /\ w.status = v1.status
      <3>1. Maps(v1, w, L, PteRefOf(v1, d, g), f) /\ w.status = v1.status
        BY <1>4, <2>3, <2>4, <2>5, MappedMaps
      <3> QED
        BY <2>2, <3>1
    <2>7. Linked(w, L)
      BY <1>1, <1>4, <1>7, <2>6, MapsLinked
    <2>8. f \in EFrame /\ w.mem[f] = v.mem[src] /\ \A x \in EFrame \ {f} : w.mem[x] = v1.mem[x]
      <3>1. v1.mem \in [EFrame -> Cell]
        BY <1>4, VmFacts DEF VmOK
      <3>2. f \in EFrame
        BY <2>6, FrameFacts DEF Maps
      <3> QED
        BY <2>4, <3>1, <3>2
    <2>9. Carried(v1, w, L \ {r}) /\ \A s \in L \ {r} : Ent(w, s) = Ent(v1, s)
      BY <1>1, <1>4, <1>7, <2>6, <2>8, MapsCarried
    <2>10. Carried(v, w, L \ {r})
      BY <1>10, <2>9, CarriedTrans
    <2>11. Filled(w, r) /\ Ent(w, r).base = f /\ Ent(v, r).base = src
      BY <1>1, <2>6 DEF Filled, Maps, src
    <2>12. Carried(v, w, L)
      BY <1>2, <2>8, <2>10, <2>11 DEF Carried
    <2> QED
      BY <1>3, <1>5, <1>7, <1>9, <2>6, <2>7, <2>9, <2>12, Zenon DEF w, r
  <1> QED
    BY <1>11, <1>12

-----------------------------------------------------------------------------
(* pgfhandler.c and vmhfreemem.c as such steps, by the process that runs.    *)

\* The entry of page g of the process that runs is in a page table that it owns.
MyRef(v, L, g) == /\ me \in Pid /\ mypd \in DFrame /\ v.dmem[mypd].heap \in DFrame
                  /\ v.fm.pid[v.dmem[mypd].heap] = me
                  /\ PteRefOf(v, mypd, g) \in L

\* An eviction leaves that entry with its table and its owner.
LEMMA MyRefKept ==
  ASSUME NEW v, NEW w, KeepsD(v, w), NEW L, NEW g, MyRef(v, L, g)
  PROVE  MyRef(w, L, g) /\ PteRefOf(w, mypd, g) = PteRefOf(v, mypd, g)
  BY DEF KeepsD, MyRef, PteRefOf

\* The first touch of a page (pgfhandler.c:107-121) moves at most the victim of
\* an eviction, with what it holds.
LEMMA NewPageLinked ==
  ASSUME NEW v, VmOK(v), NEW g \in Page, NEW L \in SUBSET AllRefs, Tabled(v, L), MyRef(v, L, g),
         Linked(v, L), ~ Filled(v, PteRefOf(v, mypd, g))
  PROVE  LET w == NewPage(v, g) IN
         /\ VmOK(w) /\ KeepsD(v, w) /\ w.status = v.status /\ Linked(w, L)
         /\ Carried(v, w, L \ {PteRefOf(v, mypd, g)})
         /\ \A s \in L \ {PteRefOf(v, mypd, g)} :
              Filled(v, s) /\ (e1full(v) => Ent(v, s).base # getusedframeE1(v.fm))
                => Ent(w, s) = Ent(v, s)
  <1> DEFINE u == IF e1full(v) THEN evictframe(v) ELSE v
             r == PteRefOf(v, mypd, g)
             t == mapfreeframe(u, me, mypd, g)
             h == t.dmem[mypd].heap
             w == NewPage(v, g)
  <1>1. me \in Pid /\ mypd \in DFrame /\ v.dmem[mypd].heap \in DFrame
    BY DEF MyRef
  <1>2. VmOK(w) /\ KeepsD(v, w)
    BY <1>1, NewPageKeeps
  <1>3. /\ VmOK(u) /\ KeepsD(v, u) /\ u.status = v.status /\ Linked(u, L) /\ Carried(v, u, L)
        /\ \A s \in L : Filled(v, s) /\ (e1full(v) => Ent(v, s).base # getusedframeE1(v.fm))
                          => Ent(u, s) = Ent(v, s)
    <2>1. CASE e1full(v)
      BY <2>1, evictframeLinked
    <2>2. CASE ~ e1full(v)
      BY <2>2, KeepsDSame DEF Carried
    <2> QED
      BY <2>1, <2>2
  <1> HIDE DEF u, w
  <1>4. Tabled(u, L) /\ MyRef(u, L, g) /\ PteRefOf(u, mypd, g) = r /\ r \in L
    BY <1>3, TabledKept, MyRefKept DEF MyRef
  <1>5. ~ Filled(u, r)
    BY <1>3, <1>4 DEF Carried
  <1>6. /\ VmOK(t) /\ KeepsD(u, t) /\ t.status = u.status /\ Linked(t, L)
        /\ Carried(u, t, L \ {r})
        /\ \A s \in L \ {r} : Ent(t, s) = Ent(u, s)
    <2>1. /\ u.dmem[mypd].heap \in DFrame /\ me = u.fm.pid[u.dmem[mypd].heap]
          /\ PteRefOf(u, mypd, g) \in L
      BY <1>4 DEF MyRef
    <2>2. ~ Filled(u, PteRefOf(u, mypd, g))
      BY <1>4, <1>5
    <2>3. /\ VmOK(t) /\ KeepsD(u, t) /\ t.status = u.status /\ Linked(t, L)
          /\ Carried(u, t, L \ {PteRefOf(u, mypd, g)})
          /\ \A s \in L \ {PteRefOf(u, mypd, g)} : Ent(t, s) = Ent(u, s)
      BY ZenonT(60), <1>1, <1>3, <1>4, <2>1, <2>2, mapfreeframeLinked
    <2> QED
      BY <1>4, <2>3
  <1>7. w = Counted(t, h, t.fm.refcnt[h] + 1)
    BY DEF w, NewPage, u, Counted
  <1> HIDE DEF t
  <1>8. h \in Frame /\ t.fm.refcnt[h] + 1 \in Int
    <2>1. h \in DFrame
      BY <1>1, <1>3, <1>6 DEF KeepsD
    <2>2. h \in Frame
      BY <2>1, FrameFacts
    <2> QED
      BY <1>6, <2>2, InOrderFacts DEF VmOK
  <1>9. /\ w.dmem = t.dmem /\ w.mem = t.mem /\ w.status = t.status
        /\ w.fm.state = t.fm.state /\ w.fm.pid = t.fm.pid /\ w.fm.pte = t.fm.pte
        /\ w.fm.free = t.fm.free
    <2> DEFINE n == t.fm.refcnt[h] + 1
    <2>1. w = Counted(t, h, n) /\ h \in Frame /\ n \in Int /\ VmOK(t)
      BY <1>6, <1>7, <1>8
    <2> HIDE DEF n, h
    <2> QED
      BY <2>1, CountedShape
  <1>10. Linked(w, L)
    BY <1>6, <1>9, LinkedSame
  <1>11. \A s : Ent(w, s) = Ent(t, s) /\ (Filled(w, s) <=> Filled(t, s))
    BY <1>9 DEF Ent, Filled
  <1>12. Carried(v, w, L \ {r})
    <2>1. Carried(v, u, L \ {r})
      BY <1>3 DEF Carried
    <2>2. Carried(t, w, L \ {r})
      BY <1>9, <1>11 DEF Carried
    <2> QED
      BY <1>6, <2>1, <2>2, CarriedTrans
  <1>13. \A s \in L \ {r} : Filled(v, s) /\ (e1full(v) => Ent(v, s).base # getusedframeE1(v.fm))
                              => Ent(w, s) = Ent(v, s)
    BY <1>3, <1>6, <1>11
  <1> QED
    BY <1>2, <1>3, <1>6, <1>9, <1>10, <1>12, <1>13 DEF w

\* A touch of a swapped page (pgfhandler.c:82-93) moves it and at most the
\* victim of an eviction, with what they hold.
LEMMA OldPageLinked ==
  ASSUME NEW v, VmOK(v), NEW g \in Page, NEW L \in SUBSET AllRefs, Tabled(v, L), MyRef(v, L, g),
         Linked(v, L), getpte(v, mypd, g).st = "swapped"
  PROVE  LET w == OldPage(v, g) IN
         /\ VmOK(w) /\ KeepsD(v, w) /\ w.status \in {v.status, "nowhere"}
         /\ w.status # "nowhere" => Linked(w, L) /\ Carried(v, w, L)
         /\ \A s \in L \ {PteRefOf(v, mypd, g)} :
              Filled(v, s) /\ (e1full(v) => Ent(v, s).base # getusedframeE1(v.fm))
                => Ent(w, s) = Ent(v, s)
  <1> DEFINE u == IF e1full(v) THEN evictframe(v) ELSE v
             r == PteRefOf(v, mypd, g)
             w == OldPage(v, g)
  <1>1. /\ me \in Pid /\ mypd \in DFrame /\ v.dmem[mypd].heap \in DFrame /\ r \in L
        /\ me = v.fm.pid[v.dmem[mypd].heap]
    BY DEF MyRef
  <1>2. VmOK(w) /\ KeepsD(v, w)
    BY <1>1, OldPageKeeps
  <1>3. CASE bothfull(v)
    <2>1. w = swapframe(v, me, mypd, g) /\ e1full(v)
      BY <1>3 DEF OldPage, bothfull
    <2>2. LET x == swapframe(v, me, mypd, g) IN
          /\ VmOK(x) /\ KeepsD(v, x) /\ x.status \in {v.status, "nowhere"}
          /\ x.status # "nowhere" => Linked(x, L) /\ Carried(v, x, L)
          /\ \A s \in L \ {PteRefOf(v, mypd, g)} :
               Filled(v, s) /\ Ent(v, s).base # getusedframeE1(v.fm) => Ent(x, s) = Ent(v, s)
      BY <1>1, swapframeLinked
    <2> HIDE DEF w
    <2> QED
      BY <2>1, <2>2 DEF w
  <1>4. CASE ~ bothfull(v)
    <2>1. w = restoreframe(u, me, mypd, g)
      BY <1>4 DEF OldPage
    <2>2. /\ VmOK(u) /\ KeepsD(v, u) /\ u.status = v.status /\ Linked(u, L) /\ Carried(v, u, L)
          /\ \A s \in L : Filled(v, s) /\ (e1full(v) => Ent(v, s).base # getusedframeE1(v.fm))
                            => Ent(u, s) = Ent(v, s)
      <3>1. CASE e1full(v)
        BY <3>1, evictframeLinked
      <3>2. CASE ~ e1full(v)
        BY <3>2, KeepsDSame DEF Carried
      <3> QED
        BY <3>1, <3>2
    <2>3. getpte(u, mypd, g).st = "swapped"
      <3>1. v.dmem[v.dmem[mypd].heap].pte[g].st = "swapped"
        BY DEF getpte
      <3>2. u.dmem[v.dmem[mypd].heap].pte[g].st = "swapped"
        BY <1>1, <3>1, evictframeSwapped
      <3> QED
        BY <1>1, <2>2, <3>2 DEF getpte, KeepsD
    <2> HIDE DEF u, w
    <2>4. Tabled(u, L) /\ MyRef(u, L, g) /\ PteRefOf(u, mypd, g) = r
      BY <2>2, TabledKept, MyRefKept DEF MyRef
    <2>5. /\ u.dmem[mypd].heap \in DFrame /\ me = u.fm.pid[u.dmem[mypd].heap]
          /\ PteRefOf(u, mypd, g) \in L
      BY <2>4, Zenon DEF MyRef
    <2>6. /\ VmOK(w) /\ KeepsD(u, w) /\ w.status = u.status /\ Linked(w, L) /\ Carried(u, w, L)
          /\ \A s \in L \ {PteRefOf(u, mypd, g)} : Ent(w, s) = Ent(u, s)
      BY SMTT(30), <1>1, <2>1, <2>2, <2>3, <2>4, <2>5, restoreframeLinked
    <2>7. Carried(v, w, L)
      BY <2>2, <2>6, CarriedTrans
    <2> QED
      BY <1>2, <2>2, <2>4, <2>6, <2>7 DEF w
  <1> QED
    BY <1>3, <1>4

\* One page of vmhfreemem: its entry leads nowhere, and no other page moves.
LEMMA DeallocatedLinked ==
  ASSUME NEW v, VmOK(v), NEW g \in Page, NEW L \in SUBSET AllRefs, Tabled(v, L), MyRef(v, L, g),
         Linked(v, L)
  PROVE  LET w == set_pages_deallocated(v, mypd, g) IN
         /\ VmOK(w) /\ KeepsD(v, w) /\ w.status = v.status /\ Linked(w, L)
         /\ Carried(v, w, L \ {PteRefOf(v, mypd, g)})
         /\ ~ Filled(w, PteRefOf(v, mypd, g))
         /\ \A s \in L \ {PteRefOf(v, mypd, g)} : Ent(w, s) = Ent(v, s)
  <1> DEFINE r == PteRefOf(v, mypd, g)
             w == set_pages_deallocated(v, mypd, g)
             b == getpte(v, mypd, g).base
  <1>1. /\ mypd \in DFrame /\ v.dmem[mypd].heap \in DFrame /\ r \in L
        /\ r.pt = v.dmem[mypd].heap /\ r.page = g /\ getpte(v, mypd, g) = Ent(v, r)
    BY DEF MyRef, PteRefOf, getpte, Ent
  <1>2. VmOK(w) /\ KeepsD(v, w)
    BY <1>1, DeallocatedKeeps
  <1>3. /\ Ent(v, r).st = "absent" => w = v
        /\ Ent(v, r).st # "absent" => DeallocatedTo(v, w, r.pt, r.page, b)
    <2>1. /\ getpte(v, mypd, g).st = "absent" => w = v
          /\ getpte(v, mypd, g).st # "absent" => DeallocatedTo(v, w, v.dmem[mypd].heap, g, b)
      BY <1>1, DeallocatedShape
    <2> QED
      BY <1>1, <2>1
  <1>4. b = Ent(v, r).base
    BY <1>1
  <1> HIDE DEF w, r, b
  <1>5. CASE ~ Filled(v, r)
    <2>1. w = v
      BY <1>3, <1>5 DEF Filled
    <2> QED
      BY <1>2, <1>5, <2>1 DEF Carried, w, r
  <1>6. CASE Filled(v, r)
    <2>1. DeallocatedTo(v, w, r.pt, r.page, b)
      BY <1>3, <1>6 DEF Filled
    <2>2. Wrote(v, w, r.pt, r.page, NoPte) /\ w.mem = v.mem
      BY <2>1 DEF DeallocatedTo
    <2>3. w.status = v.status /\ Put(v, w, L, r, NoPte)
      <3>1. r \in AllRefs /\ v.dmem[r.pt].kind = "pt"
        BY <1>1 DEF Tabled
      <3> QED
        BY <2>2, <3>1, WroteEnt
    <2>4. (\A s \in L \ {r} : Ent(w, s) = Ent(v, s)) /\ Ent(w, r) = NoPte
      BY <1>1, <2>3 DEF Put
    <2>5a. PICK q \in {"E1", "E2"} : \E t :
            /\ b \in RegionFrames(q) /\ InOrder(t)
            /\ t.state = v.fm.state /\ t.pid = v.fm.pid /\ t.pte = v.fm.pte /\ t.free = v.fm.free
            /\ t.state[b] = "FREE" => w.fm = t
            /\ t.state[b] # "FREE" => Gave(t, w.fm, q, b)
      BY <2>1 DEF DeallocatedTo
    <2>5. PICK t :
            /\ b \in RegionFrames(q) /\ InOrder(t)
            /\ t.state = v.fm.state /\ t.pid = v.fm.pid /\ t.pte = v.fm.pte /\ t.free = v.fm.free
            /\ t.state[b] = "FREE" => w.fm = t
            /\ t.state[b] # "FREE" => Gave(t, w.fm, q, b)
      BY <2>5a
    <2>6. b \in EFrame /\ b \in Frame
      BY <2>5, FrameFacts
    <2>7. Releases(v, w, L, r, b)
      <3>1. CASE t.state[b] = "FREE"
        BY <2>4, <2>5, <3>1 DEF Releases, SameFrame, SamePids
      <3>2. CASE t.state[b] # "FREE"
        <4>1. /\ t.state \in [Frame -> {"FREE", "USED"}] /\ t.free \in [Region -> Seq(Frame)]
          BY <2>5, InOrderFacts
        <4>2. /\ w.fm.free = [t.free EXCEPT ![q] = <<b>> \o @]
              /\ ToSet(<<b>> \o t.free[q]) = ToSet(t.free[q]) \cup {b}
              /\ w.fm.pid = t.pid /\ w.fm.pte = t.pte
              /\ w.fm.state = [t.state EXCEPT ![b] = "FREE"]
          BY <2>5, <3>2 DEF Gave
        <4>3. w.fm.state[b] = "FREE" /\ \A x \in Frame \ {b} : w.fm.state[x] = v.fm.state[x]
          BY <2>5, <2>6, <4>1, <4>2
        <4>4. ToSet(w.fm.free["E2"]) \subseteq ToSet(v.fm.free["E2"]) \cup {b}
          <5>1. q \in Region /\ "E2" \in Region
            BY DEF Region
          <5>2. w.fm.free["E2"] = IF q = "E2" THEN <<b>> \o t.free["E2"] ELSE t.free["E2"]
            BY <4>1, <4>2, <5>1
          <5> QED
            BY <2>5, <4>2, <5>2
        <4> QED
          BY <2>4, <2>5, <4>2, <4>3, <4>4, FrameFacts DEF Releases, SameFrame, SamePids
      <3> QED
        BY <3>1, <3>2
    <2>8. Linked(w, L \ {r})
      BY <1>1, <1>4, <1>6, <2>7, ReleasesLinked
    <2>9. ~ Filled(w, r)
      BY <2>4 DEF Filled, NoPte
    <2>10. Linked(w, L)
      BY <1>1, <2>8, <2>9, AbsentIn
    <2>11. Carried(v, w, L \ {r})
      BY <2>2, <2>4 DEF Carried, Filled
    <2> QED
      BY <1>2, <2>3, <2>4, <2>9, <2>10, <2>11 DEF w, r
  <1> QED
    BY <1>5, <1>6

\* The page tables of the entries of L are in use.
InUse(v, L) == \A r \in L : v.fm.state[r.pt] = "USED"

\* No entry of L changes; those of N lead nowhere.
SameEnts(v, w, L) == \A r \in L : Ent(w, r) = Ent(v, r)
Empty(w, N) == \A r \in N : Ent(w, r) = NoPte

\* A page table that is made maps nothing, and no page moves.
LEMMA GotTableLinked ==
  ASSUME NEW v, VmOK(v), NEW w, NEW pid, NEW d, NEW f, NEW L \in SUBSET AllRefs,
         Linked(v, L), InUse(v, L), GotTable(v, w, pid, d, f),
         NEW N, N = [pt : {f}, page : Page]
  PROVE  /\ Linked(w, L \cup N) /\ Carried(v, w, L)
         /\ SameEnts(v, w, L) /\ Empty(w, N)
  <1>1. /\ \A r \in L : r.pt \in DFrame \ {f} /\ r.page \in Page
        /\ \A r \in N : r.pt = f /\ r.page \in Page
    BY DEF GotTable, AllRefs, InUse
  <1>2. (\A r \in L : Ent(w, r) = Ent(v, r)) /\ (\A r \in N : Ent(w, r) = NoPte)
    BY <1>1 DEF GotTable, Ent
  <1>3. Took(v.fm, w.fm, "D", f, pid, FR_PTEUNUSED) /\ f \in DFrame /\ f < NFRAMES /\ f \in Frame
        /\ w.mem = v.mem
    BY FrameFacts DEF GotTable
  <1>4. /\ \A x \in Frame \ {f} : SameFrame(v, w, x)
        /\ w.fm.free["E2"] = v.fm.free["E2"]
    <2>1. /\ v.fm.state \in [Frame -> {"FREE", "USED"}] /\ v.fm.pid \in [Frame -> Pid]
          /\ v.fm.pte \in [Frame -> PteRef] /\ v.fm.free \in [Region -> Seq(Frame)]
      BY InOrderFacts DEF VmOK
    <2>2. /\ w.fm.state = [v.fm.state EXCEPT ![f] = "USED"]
          /\ w.fm.pid = [v.fm.pid EXCEPT ![f] = pid]
          /\ w.fm.pte = [v.fm.pte EXCEPT ![f] = FR_PTEUNUSED]
          /\ w.fm.free = [v.fm.free EXCEPT !["D"] = Tail(@)]
      BY <1>3 DEF Took
    <2> QED
      BY <1>3, <2>1, <2>2, FrameFacts DEF SameFrame
  <1>5. \A x \in EFrame : SameFrame(v, w, x)
    BY <1>3, <1>4, FrameFacts
  <1>6. \A r \in L \cup N : Filled(w, r) => r \in L /\ Filled(v, r) /\ Ent(w, r) = Ent(v, r)
    BY <1>2 DEF Filled, NoPte
  <1>7. Down(w, L \cup N)
    <2> SUFFICES ASSUME NEW r \in L \cup N, Filled(w, r)
                 PROVE  \/ w.fm.state[Ent(w, r).base] = "USED" /\ w.fm.pte[Ent(w, r).base] = r
                        \/ Lost(w, Ent(w, r).base)
      BY DEF Down
    <2>1. r \in L /\ Filled(v, r) /\ Ent(w, r) = Ent(v, r)
      BY <1>6
    <2>2. SameFrame(v, w, Ent(v, r).base)
      BY <1>5, <2>1, FilledFacts
    <2>3. \/ v.fm.state[Ent(v, r).base] = "USED" /\ v.fm.pte[Ent(v, r).base] = r
          \/ Lost(v, Ent(v, r).base)
      BY <2>1 DEF Linked, Down
    <2> QED
      BY <1>4, <2>1, <2>2, <2>3 DEF SameFrame, Lost
  <1>8. Apart(w, L \cup N)
    BY <1>6 DEF Linked, Apart
  <1>9. Up(w, L \cup N)
    <2> SUFFICES ASSUME NEW x \in EFrame, w.fm.state[x] = "USED"
                 PROVE  /\ w.fm.pte[x] \in L /\ w.fm.pid[x] = w.fm.pid[w.fm.pte[x].pt]
                        /\ Ent(w, w.fm.pte[x]) =
                             [st |-> IF x \in RegionFrames("E1") THEN "present" ELSE "swapped",
                              base |-> x]
      BY DEF Up
    <2>1. SameFrame(v, w, x)
      BY <1>5
    <2>2. /\ v.fm.pte[x] \in L /\ v.fm.pid[x] = v.fm.pid[v.fm.pte[x].pt]
          /\ Ent(v, v.fm.pte[x]) =
               [st |-> IF x \in RegionFrames("E1") THEN "present" ELSE "swapped", base |-> x]
      BY <2>1 DEF SameFrame, Linked, Up
    <2>3. SameFrame(v, w, v.fm.pte[x].pt)
      BY <1>1, <1>4, <2>2, FrameFacts
    <2> QED
      BY <1>2, <2>1, <2>2, <2>3 DEF SameFrame
  <1>10. Carried(v, w, L)
    BY <1>2, <1>3 DEF Carried, Filled
  <1> QED
    BY <1>2, <1>7, <1>8, <1>9, <1>10 DEF Linked, SameEnts, Empty

\* kill (kill.c:28-34) takes a process's frames away and nobody else's.
LEMMA AllFreedLinked ==
  ASSUME NEW v, VmOK(v), NEW w, NEW pid, NEW L \in SUBSET AllRefs, Linked(v, L),
         AllFreed(v.fm, w.fm, pid), w.dmem = v.dmem, w.mem = v.mem
  PROVE  LET O == {r \in L : v.fm.pid[r.pt] # pid} IN
         Linked(w, O) /\ Carried(v, w, O)
  <1> DEFINE O == {r \in L : v.fm.pid[r.pt] # pid}
  <1>1. /\ w.fm.pid = v.fm.pid /\ w.fm.pte = v.fm.pte
        /\ \A f \in EFrame : w.fm.state[f] = IF v.fm.pid[f] = pid THEN "FREE" ELSE v.fm.state[f]
        /\ \A f \in RegionFrames("E2") :
             f \in ToSet(w.fm.free["E2"]) =>
               f \in ToSet(v.fm.free["E2"]) \/ v.fm.state[f] = "USED"
    BY FrameFacts DEF AllFreed
  <1>2. \A r : Ent(w, r) = Ent(v, r) /\ (Filled(w, r) <=> Filled(v, r))
    BY DEF Ent, Filled
  <1>3. \A r \in O : r \in L /\ v.fm.pid[r.pt] # pid
    OBVIOUS
  <1>4. \A r \in L : v.fm.pid[r.pt] # pid => r \in O
    OBVIOUS
  <1> HIDE DEF O
  <1>5. Down(w, O)
    <2> SUFFICES ASSUME NEW r \in O, Filled(v, r)
                 PROVE  \/ w.fm.state[Ent(v, r).base] = "USED" /\ w.fm.pte[Ent(v, r).base] = r
                        \/ Lost(w, Ent(v, r).base)
      BY <1>2 DEF Down
    <2>1. r \in L /\ v.fm.pid[r.pt] # pid /\ Ent(v, r).base \in EFrame
      BY <1>3, FilledFacts
    <2>2. CASE v.fm.state[Ent(v, r).base] = "USED" /\ v.fm.pte[Ent(v, r).base] = r
      <3>1. v.fm.pid[Ent(v, r).base] = v.fm.pid[r.pt]
        BY <2>1, <2>2 DEF Linked, Up
      <3> QED
        BY <1>1, <2>1, <2>2, <3>1
    <2>3. CASE Lost(v, Ent(v, r).base)
      BY <1>1, <2>1, <2>3 DEF Lost
    <2> QED
      BY <2>1, <2>2, <2>3 DEF Linked, Down
  <1>6. Apart(w, O)
    BY <1>2, <1>3 DEF Linked, Apart
  <1>7. Up(w, O)
    <2> SUFFICES ASSUME NEW x \in EFrame, w.fm.state[x] = "USED"
                 PROVE  /\ w.fm.pte[x] \in O /\ w.fm.pid[x] = w.fm.pid[w.fm.pte[x].pt]
                        /\ Ent(w, w.fm.pte[x]) =
                             [st |-> IF x \in RegionFrames("E1") THEN "present" ELSE "swapped",
                              base |-> x]
      BY DEF Up
    <2>1. v.fm.state[x] = "USED" /\ v.fm.pid[x] # pid
      BY <1>1
    <2>2. /\ v.fm.pte[x] \in L /\ v.fm.pid[x] = v.fm.pid[v.fm.pte[x].pt]
          /\ Ent(v, v.fm.pte[x]) =
               [st |-> IF x \in RegionFrames("E1") THEN "present" ELSE "swapped", base |-> x]
      BY <2>1 DEF Linked, Up
    <2> QED
      BY <1>1, <1>2, <1>4, <2>1, <2>2
  <1>8. Carried(v, w, O)
    BY <1>2 DEF Carried
  <1> QED
    BY <1>5, <1>6, <1>7, <1>8 DEF Linked, O
-----------------------------------------------------------------------------
(* The inductive invariant if no process kills another one and neither of    *)
(* two defects strikes.                                                      *)

\* The handler evicts a page.
Evicts == e1full(vm) /\ ((\E g \in Page : FaultServed(g)) \/ FaultResumes)

\* A process that comes back from frameblock finds its own page in pgfaddr
\* (pgfhandler.c:100-121 reads the global that later faults have set), and no
\* translation of the process that runs is that of the victim, which nobody
\* invalidates (pgfutil.c:102-149).
Careful ==
  /\ FaultResumes /\ ~ bothfull(vm) => pgfaddr = pc[me].arg
  /\ Evicts => \A g \in Page : tlb[g] # getusedframeE1(vm.fm)

\* The page tables of the processes that use their heaps, and their entries.
Tables(v) ==
  {t \in DFrame : \E p \in User : Using(p) /\ prpd[p] \in DFrame /\ t = v.dmem[prpd[p]].heap}
Refs(v) == [pt : Tables(v), page : Page]

\* Process p has a page table, and what leads to its page g is not absent.
HasTable(v, p) == prpd[p] \in DFrame /\ v.dmem[prpd[p]].heap \in DFrame
RefOf(v, p, g) == PteRefOf(v, prpd[p], g)

\* Pages hold what e says was written last.
Intact(v, e) ==
  \A p \in User, g \in Page : Using(p) /\ e[p][g] # None =>
    /\ HasTable(v, p) /\ Filled(v, RefOf(v, p, g))
    /\ v.mem[Ent(v, RefOf(v, p, g)).base] = <<p, g, e[p][g]>>

\* The page for which a process waits in frameblock leads nowhere yet.
Blocked(v, c) ==
  \A p \in User, g \in Page : Using(p) /\ c[p] = At("fblock", g) =>
    HasTable(v, p) /\ ~ Filled(v, RefOf(v, p, g))

\* The translations in t are those of the process that runs.
Translates(v, t) ==
  \A g \in Page : t[g] # None =>
    /\ me \in User /\ HasTable(v, me) /\ v.dmem[v.dmem[prpd[me]].heap].kind = "pt"
    /\ Ent(v, RefOf(v, me, g)) = [st |-> "present", base |-> t[g]]

Pages(v, e, c) == Linked(v, Refs(v)) /\ Intact(v, e) /\ Blocked(v, c)

DInv == /\ OInv /\ vm.status # "wild"
        /\ vm.status = "up" => Pages(vm, expect, pc)
        /\ Translates(vm, tlb)

-----------------------------------------------------------------------------
(* What steps keep.                                                          *)

\* The entries that count are in page tables in use, each of one process.
LEMMA RefsFacts ==
  ASSUME NEW v, VmOK(v), RegionD(v)
  PROVE  /\ Refs(v) \in SUBSET AllRefs /\ Tabled(v, Refs(v))
         /\ \A r \in Refs(v) : v.fm.state[r.pt] = "USED"
         /\ \A r \in Refs(v) :
              /\ v.fm.pid[r.pt] \in User /\ Using(v.fm.pid[r.pt])
              /\ HasTable(v, v.fm.pid[r.pt])
              /\ r.page \in Page /\ r = RefOf(v, v.fm.pid[r.pt], r.page)
         /\ \A p \in User, g \in Page : Using(p) /\ HasTable(v, p) =>
              /\ RefOf(v, p, g) \in Refs(v) /\ v.fm.pid[v.dmem[prpd[p]].heap] = p
              /\ v.dmem[v.dmem[prpd[p]].heap].kind = "pt"
  <1>1. ASSUME NEW r \in Refs(v)
        PROVE  /\ r.pt \in DFrame /\ r.page \in Page /\ r = [pt |-> r.pt, page |-> r.page]
               /\ \E p \in User : Using(p) /\ prpd[p] \in DFrame /\ r.pt = v.dmem[prpd[p]].heap
    BY DEF Refs, Tables
  <1>2. \A p \in User : Using(p) /\ HasTable(v, p) =>
          /\ v.fm.state[v.dmem[prpd[p]].heap] = "USED" /\ v.fm.pid[v.dmem[prpd[p]].heap] = p
          /\ v.dmem[v.dmem[prpd[p]].heap].kind = "pt"
    BY FrameFacts DEF HasTable, RegionD, Dirs, Holds, None
  <1>3. \A r \in Refs(v) :
          /\ v.fm.state[r.pt] = "USED" /\ v.dmem[r.pt].kind = "pt"
          /\ v.fm.pid[r.pt] \in User /\ Using(v.fm.pid[r.pt])
          /\ HasTable(v, v.fm.pid[r.pt])
          /\ r = RefOf(v, v.fm.pid[r.pt], r.page)
    <2> SUFFICES ASSUME NEW r \in Refs(v)
                 PROVE  /\ v.fm.state[r.pt] = "USED" /\ v.dmem[r.pt].kind = "pt"
                        /\ v.fm.pid[r.pt] \in User /\ Using(v.fm.pid[r.pt])
                        /\ HasTable(v, v.fm.pid[r.pt])
                        /\ r = RefOf(v, v.fm.pid[r.pt], r.page)
      OBVIOUS
    <2>1. PICK p \in User : Using(p) /\ prpd[p] \in DFrame /\ r.pt = v.dmem[prpd[p]].heap
      BY <1>1
    <2>2. HasTable(v, p)
      BY <1>1, <2>1 DEF HasTable
    <2>3. v.fm.state[r.pt] = "USED" /\ v.fm.pid[r.pt] = p /\ v.dmem[r.pt].kind = "pt"
      BY <1>2, <2>1, <2>2
    <2>4. r = RefOf(v, p, r.page)
      BY <1>1, <2>1 DEF RefOf, PteRefOf
    <2> QED
      BY <2>1, <2>2, <2>3, <2>4
  <1>4. \A p \in User, g \in Page : Using(p) /\ HasTable(v, p) => RefOf(v, p, g) \in Refs(v)
    BY DEF HasTable, RefOf, PteRefOf, Refs, Tables
  <1>5. Refs(v) \in SUBSET AllRefs
    BY <1>1 DEF AllRefs
  <1> QED
    BY <1>1, <1>2, <1>3, <1>4, <1>5 DEF Tabled

\* Calls that leave region D alone leave the entries that count where they are.
LEMMA RefsKept ==
  ASSUME NEW v, NEW w, KeepsD(v, w)
  PROVE  /\ Refs(w) = Refs(v)
         /\ \A p : /\ HasTable(w, p) <=> HasTable(v, p)
                   /\ \A g : HasTable(v, p) => RefOf(w, p, g) = RefOf(v, p, g)
  <1>1. \A p : prpd[p] \in DFrame => w.dmem[prpd[p]].heap = v.dmem[prpd[p]].heap
    BY DEF KeepsD
  <1>2. Tables(w) = Tables(v)
    BY <1>1 DEF Tables
  <1> QED
    BY <1>1, <1>2 DEF Refs, HasTable, RefOf, PteRefOf

\* A call that moves pages with what they hold keeps what was written, and an
\* absent entry so, but for the entry r.
LEMMA PagesMoved ==
  ASSUME NEW v, VmOK(v), RegionD(v), NEW w, KeepsD(v, w), NEW r, NEW e, NEW c,
         Intact(v, e), Blocked(v, c), Linked(w, Refs(v)), Carried(v, w, Refs(v) \ {r}),
         \A p \in User, g \in Page :
           Using(p) /\ (e[p][g] # None \/ c[p] = At("fblock", g)) => RefOf(v, p, g) # r
  PROVE  Pages(w, e, c)
  <1>1. /\ Refs(w) = Refs(v)
        /\ \A p : /\ HasTable(w, p) <=> HasTable(v, p)
                  /\ \A g : HasTable(v, p) => RefOf(w, p, g) = RefOf(v, p, g)
    BY RefsKept
  <1>2. \A p \in User, g \in Page : Using(p) /\ HasTable(v, p) => RefOf(v, p, g) \in Refs(v)
    BY RefsFacts
  <1>3. Intact(w, e)
    <2> SUFFICES ASSUME NEW p \in User, NEW g \in Page, Using(p), e[p][g] # None
                 PROVE  /\ HasTable(w, p) /\ Filled(w, RefOf(w, p, g))
                        /\ w.mem[Ent(w, RefOf(w, p, g)).base] = <<p, g, e[p][g]>>
      BY DEF Intact
    <2>1. /\ HasTable(v, p) /\ Filled(v, RefOf(v, p, g))
          /\ v.mem[Ent(v, RefOf(v, p, g)).base] = <<p, g, e[p][g]>>
      BY DEF Intact
    <2>2. RefOf(v, p, g) \in Refs(v) \ {r}
      BY <1>2, <2>1
    <2> QED
      BY <1>1, <2>1, <2>2 DEF Carried
  <1>4. Blocked(w, c)
    <2> SUFFICES ASSUME NEW p \in User, NEW g \in Page, Using(p), c[p] = At("fblock", g)
                 PROVE  HasTable(w, p) /\ ~ Filled(w, RefOf(w, p, g))
      BY DEF Blocked
    <2>1. HasTable(v, p) /\ ~ Filled(v, RefOf(v, p, g))
      BY DEF Blocked
    <2>2. RefOf(v, p, g) \in Refs(v) \ {r}
      BY <1>2, <2>1
    <2> QED
      BY <1>1, <2>1, <2>2 DEF Carried
  <1> QED
    BY <1>1, <1>3, <1>4 DEF Pages

\* The entries of the translations keep their frames.
LEMMA TranslatesKept ==
  ASSUME NEW v, NEW w, KeepsD(v, w), NEW t, Translates(v, t),
         \A g \in Page : t[g] # None =>
           /\ Filled(v, RefOf(v, me, g)) /\ Ent(v, RefOf(v, me, g)).base = t[g]
             => Ent(w, RefOf(v, me, g)) = Ent(v, RefOf(v, me, g))
  PROVE  Translates(w, t)
  <1> SUFFICES ASSUME NEW g \in Page, t[g] # None
               PROVE  /\ me \in User /\ HasTable(w, me)
                      /\ w.dmem[w.dmem[prpd[me]].heap].kind = "pt"
                      /\ Ent(w, RefOf(w, me, g)) = [st |-> "present", base |-> t[g]]
    BY DEF Translates
  <1>1. /\ me \in User /\ HasTable(v, me) /\ v.dmem[v.dmem[prpd[me]].heap].kind = "pt"
        /\ Ent(v, RefOf(v, me, g)) = [st |-> "present", base |-> t[g]]
    BY DEF Translates
  <1>2. HasTable(w, me) /\ RefOf(w, me, g) = RefOf(v, me, g)
    BY <1>1, RefsKept
  <1>3. w.dmem[w.dmem[prpd[me]].heap].kind = "pt"
    BY <1>1 DEF KeepsD, HasTable
  <1>4. Filled(v, RefOf(v, me, g)) /\ Ent(v, RefOf(v, me, g)).base = t[g]
    BY <1>1 DEF Filled
  <1> QED
    BY <1>1, <1>2, <1>3, <1>4

\* The same processes use the same page tables.
LEMMA PagesSame ==
  ASSUME NEW v, Pages(v, expect', pc'), v = vm', prpd' = prpd, \A p \in Pid : Using(p)' <=> Using(p)
  PROVE  Pages(vm, expect, pc)'
  <1>1. User \subseteq Pid
    BY NullProc
  <1>2. \A p \in User : Using(p)' <=> Using(p)
    BY <1>1
  <1>3. Refs(vm)' = Refs(v)
    BY <1>2 DEF Refs, Tables
  <1>4. Linked(vm, Refs(vm))'
    <2>1. Linked(v, Refs(v))
      BY DEF Pages
    <2> QED
      BY <1>3, <2>1
  <1>5. Intact(vm, expect)'
    BY <1>2, Zenon DEF Pages, Intact, HasTable, RefOf, PteRefOf, Filled, Ent
  <1>6. Blocked(vm, pc)'
    BY <1>2 DEF Pages, Blocked, HasTable, RefOf, PteRefOf, Filled, Ent
  <1> QED
    BY <1>4, <1>5, <1>6 DEF Pages

\* The TLB keeps its translations as long as the same process runs.
LEMMA SwitchTranslates ==
  ASSUME NEW v, v.dmem = vm'.dmem, NEW s, NEW kept, Switch(s, kept),
         s.currpid = sys.currpid => Translates(v, kept) /\ prpd' = prpd
  PROVE  Translates(vm, tlb)'
  <1>1. CASE s.currpid = sys.currpid
    <2>1. tlb' = kept /\ me' = me /\ Translates(v, kept) /\ prpd' = prpd
      BY <1>1 DEF Switch, me
    <2> QED
      BY <2>1 DEF Translates, HasTable, RefOf, PteRefOf, Ent
  <1>2. CASE s.currpid # sys.currpid
    <2>1. tlb' = NoTlb
      BY <1>2 DEF Switch
    <2>2. \A g \in Page : tlb'[g] = None
      BY <2>1 DEF NoTlb
    <2> QED
      BY <2>2 DEF Translates
  <1> QED
    BY <1>1, <1>2
-----------------------------------------------------------------------------
(* Steps.                                                                   *)

\* A step after which the same processes use their heaps.
LEMMA QuietData ==
  ASSUME OInv', SameUsers, prpd' = prpd, NEW v, v = vm', v.status # "wild",
         v.status = "up" => Pages(v, expect', pc'), Translates(vm, tlb)'
  PROVE  DInv'
  <1>1. (vm.status)' = v.status
    OBVIOUS
  <1>2. v.status = "up" => Pages(vm, expect, pc)'
    BY PagesSame DEF SameUsers
  <1> QED
    BY <1>1, <1>2 DEF DInv

\* A step that changes neither the memory nor what was written.
LEMMA StillData ==
  ASSUME DInv, OInv', SameUsers, UNCHANGED <<vm, prpd, expect>>, vm.status = "up",
         \A p \in User : pc'[p].at = "fblock" => pc'[p] = pc[p], Switch(sys', tlb)
  PROVE  DInv'
  <1>1. PICK v : v = vm
    OBVIOUS
  <1>2. PICK s : s = sys'
    OBVIOUS
  <1>3. Blocked(vm, pc')
    <2>1. \A g \in Page : At("fblock", g).at = "fblock"
      BY DEF At
    <2> QED
      BY <2>1 DEF DInv, Pages, Blocked
  <1>4. Pages(v, expect', pc')
    BY <1>1, <1>3 DEF DInv, Pages
  <1>5. v.dmem = vm'.dmem /\ Translates(v, tlb) /\ Switch(s, tlb)
    BY <1>1, <1>2 DEF DInv
  <1>6. Translates(vm, tlb)'
    BY <1>5, SwitchTranslates
  <1>7. v = vm' /\ v.status = "up"
    BY <1>1
  <1> QED
    BY <1>4, <1>6, <1>7, QuietData

\* What a processor that finds a page has found.
LEMMA TranslateEnt ==
  ASSUME DInv, Program, NEW g \in Page, Translate(g) # None
  PROVE  /\ me \in User /\ Using(me) /\ mypd = prpd[me] /\ HasTable(vm, me)
         /\ vm.dmem[vm.dmem[mypd].heap].kind = "pt"
         /\ Ent(vm, RefOf(vm, me, g)) = [st |-> "present", base |-> Translate(g)]
  <1>1. Runs /\ me \in User /\ pc[me].at = "user" /\ PInv
    BY ProgramFacts DEF DInv, OInv
  <1>2. Using(me) /\ prpd[me] = mypd /\ mypd \in DFrame
    BY <1>1, ProgramUses
  <1>3. CASE tlb[g] # None
    BY <1>1, <1>2, <1>3 DEF Translate, DInv, Translates, mypd
  <1>4. CASE tlb[g] = None
    <2>1. /\ Mapped(vm, mypd) /\ getpte(vm, mypd, g).st = "present"
          /\ Translate(g) = getpte(vm, mypd, g).base
      BY <1>4 DEF Translate
    <2>2. vm.dmem[mypd].heap \in DFrame /\ vm.dmem[vm.dmem[mypd].heap].kind = "pt"
      BY <1>1, <2>1, RunsFacts DEF Mapped
    <2>3. getpte(vm, mypd, g) \in Pte /\ Ent(vm, RefOf(vm, me, g)) = getpte(vm, mypd, g)
      <3>1. vm \in VmType
        BY <1>1 DEF PInv, VmOK
      <3> QED
        BY <1>2, <2>2, <3>1, VmFacts DEF getpte, Ent, RefOf, PteRefOf
    <2> QED
      BY <1>1, <1>2, <2>1, <2>2, <2>3, PteFacts DEF HasTable
  <1> QED
    BY <1>3, <1>4

\* A store to memory (Translate) changes one page, whose value is the one that
\* counts.
LEMMA WriteData ==
  ASSUME DInv, NEW g \in Page, NEW x \in Val, Write(g, x)
  PROVE  DInv'
  <1> DEFINE b == Translate(g)
             r == RefOf(vm, me, g)
  <1>1. OInv /\ Program /\ b # None /\ vm.status = "up"
    BY DEF DInv, Write, Program, Calling, Runs
  <1>2. /\ me \in User /\ Using(me) /\ mypd = prpd[me] /\ HasTable(vm, me)
        /\ vm.dmem[vm.dmem[mypd].heap].kind = "pt"
        /\ Ent(vm, r) = [st |-> "present", base |-> b]
    BY <1>1, TranslateEnt
  <1>3. /\ vm' = [vm EXCEPT !.mem[b] = <<me, g, x>>] /\ UNCHANGED <<sys, pc, prpd>>
        /\ expect' = [expect EXCEPT ![me][g] = x]
        /\ tlb' = tlb \/ tlb' = [tlb EXCEPT ![g] = b]
    BY DEF Write
  <1>4. VmOK(vm) /\ vm \in VmType /\ RegionD(vm) /\ expect \in [Pid -> [Page -> Val \cup {None}]]
        /\ tlb \in [Page -> EFrame \cup {None}]
    BY <1>1 DEF OInv, PInv, VmOK, ProcType, FlowType
  <1>5. Linked(vm, Refs(vm)) /\ Intact(vm, expect) /\ Blocked(vm, pc) /\ Translates(vm, tlb)
    BY <1>1 DEF DInv, Pages
  <1>6. vm'.fm = vm.fm /\ vm'.dmem = vm.dmem /\ vm'.status = "up"
    BY <1>1, <1>3, <1>4 DEF VmType
  <1>7. r \in Refs(vm) /\ Filled(vm, r) /\ b \in EFrame
    BY <1>2, <1>4, RefsFacts, FilledFacts DEF Filled
  <1>8. vm'.mem = [vm.mem EXCEPT ![b] = <<me, g, x>>] /\ vm.mem \in [EFrame -> Cell]
    BY <1>3, <1>4, VmFacts DEF VmType
  <1>9. PICK v : v = vm'
    OBVIOUS
  <1>10. /\ Refs(v) = Refs(vm)
         /\ \A p : HasTable(v, p) <=> HasTable(vm, p)
         /\ \A p, h : RefOf(v, p, h) = RefOf(vm, p, h)
         /\ \A s : Ent(v, s) = Ent(vm, s) /\ (Filled(v, s) <=> Filled(vm, s))
    BY <1>6, <1>9 DEF Refs, Tables, HasTable, RefOf, PteRefOf, Ent, Filled
  <1>11. Linked(v, Refs(v))
    BY <1>5, <1>6, <1>9, <1>10, LinkedSame
  <1>12. Blocked(v, pc')
    BY <1>3, <1>5, <1>10 DEF Blocked
  <1>13. Intact(v, expect')
    <2> SUFFICES ASSUME NEW p \in User, NEW h \in Page, Using(p), expect'[p][h] # None
                 PROVE  /\ HasTable(v, p) /\ Filled(v, RefOf(v, p, h))
                        /\ v.mem[Ent(v, RefOf(v, p, h)).base] = <<p, h, expect'[p][h]>>
      BY DEF Intact
    <2>1. CASE p = me /\ h = g
      <3>1. expect'[p][h] = x
        BY <1>2, <1>3, <1>4, <2>1, NullProc
      <3>2. v.mem[b] = <<me, g, x>>
        BY <1>7, <1>8, <1>9
      <3> QED
        BY <1>2, <1>7, <1>10, <2>1, <3>1, <3>2
    <2>2. CASE ~ (p = me /\ h = g)
      <3>1. expect'[p][h] = expect[p][h]
        BY <1>2, <1>3, <1>4, <2>2, NullProc
      <3>2. /\ HasTable(vm, p) /\ Filled(vm, RefOf(vm, p, h))
            /\ vm.mem[Ent(vm, RefOf(vm, p, h)).base] = <<p, h, expect[p][h]>>
        BY <1>5, <3>1 DEF Intact
      <3>3. RefOf(vm, p, h) \in Refs(vm) /\ RefOf(vm, p, h) # r
        <4>1. /\ RefOf(vm, p, h) \in Refs(vm) /\ vm.fm.pid[vm.dmem[prpd[p]].heap] = p
              /\ vm.fm.pid[vm.dmem[prpd[me]].heap] = me
          BY <1>2, <1>4, <3>2, RefsFacts
        <4>2. RefOf(vm, p, h).pt = vm.dmem[prpd[p]].heap /\ r.pt = vm.dmem[prpd[me]].heap
              /\ RefOf(vm, p, h).page = h /\ r.page = g
          BY DEF RefOf, PteRefOf
        <4> QED
          BY <2>2, <4>1, <4>2
      <3>4. Ent(vm, RefOf(vm, p, h)).base # b
        BY <1>2, <1>5, <1>7, <3>2, <3>3 DEF Linked, Apart
      <3>5. Ent(vm, RefOf(vm, p, h)).base \in EFrame
        <4>1. RefOf(vm, p, h) \in AllRefs
          BY <1>4, <3>3, RefsFacts
        <4> QED
          BY <1>4, <3>2, <4>1, FilledFacts
      <3>6. v.mem[Ent(vm, RefOf(vm, p, h)).base] = vm.mem[Ent(vm, RefOf(vm, p, h)).base]
        BY Zenon, <1>8, <1>9, <3>4, <3>5
      <3> QED
        BY <1>10, <3>1, <3>2, <3>6
    <2> QED
      BY <2>1, <2>2
  <1>14. Translates(vm, tlb)'
    <2>1. me' = me
      BY <1>3 DEF me
    <2>2. ASSUME NEW h \in Page, tlb'[h] # None
          PROVE  /\ HasTable(vm, me) /\ vm.dmem[vm.dmem[prpd[me]].heap].kind = "pt"
                 /\ Ent(vm, RefOf(vm, me, h)) = [st |-> "present", base |-> tlb'[h]]
      <3>1. CASE tlb'[h] = tlb[h]
        BY <1>5, <2>2, <3>1 DEF Translates
      <3>2. CASE h = g /\ tlb'[h] = b
        BY <1>2, <3>2
      <3> QED
        BY <1>3, <1>4, <3>1, <3>2
    <2> QED
      BY <1>2, <1>3, <1>6, <2>1, <2>2, Zenon DEF Translates, HasTable, RefOf, PteRefOf, Ent
  <1>15. OInv' /\ SameUsers
    BY <1>1, WriteO
  <1> QED
    <2>1. v.status # "wild" /\ Pages(v, expect', pc') /\ prpd' = prpd
      BY <1>3, <1>6, <1>9, <1>11, <1>12, <1>13 DEF Pages
    <2> QED
      BY <1>9, <1>14, <1>15, <2>1, QuietData

\* vmhgetmem.c:6-70 and a fault taken for a protection error move no page.
LEMMA GetPageData ==
  ASSUME DInv, NEW g \in Page, GetPage(g) \/ FaultIgnored(g)
  PROVE  DInv'
  <1>1. OInv' /\ SameUsers
    BY GetPageO DEF DInv
  <1>2. UNCHANGED <<vm, sys, pc, prpd, tlb, expect>> /\ vm.status = "up"
    BY DEF GetPage, FaultIgnored, Faults, Program, Calling, Runs, proc
  <1>3. Switch(sys', tlb)
    BY <1>2 DEF Switch
  <1> QED
    BY <1>1, <1>2, <1>3, StillData

\* The table of the scheduler after the step, once more.
LEMMA SwitchSame ==
  ASSUME NEW s, Switch(s, tlb)
  PROVE  Switch(sys', tlb)
  BY DEF Switch

\* resume.c:9-31 moves no page.
LEMMA ResumeData ==
  ASSUME DInv, NEW pid \in User, Resume(pid)
  PROVE  DInv'
  <1>1. OInv' /\ SameUsers
    BY ResumeO DEF DInv
  <1>2. UNCHANGED <<vm, pc, prpd, expect>> /\ vm.status = "up" /\ Switch(sys', tlb)
    BY DEF Resume, Calling, Runs, proc, Switch
  <1> QED
    BY <1>1, <1>2, StillData

\* receive.c:15-20 moves no page.
LEMMA ReceiveWaitsData ==
  ASSUME DInv, ReceiveWaits
  PROVE  DInv'
  <1>1. OInv' /\ SameUsers
    BY ReceiveWaitsO DEF DInv
  <1>2. /\ UNCHANGED <<vm, prpd, expect>> /\ vm.status = "up" /\ Switch(sys', tlb)
        /\ pc' = [pc EXCEPT ![me] = At("recv", None)]
    BY DEF ReceiveWaits, Calling, Runs, proc, Switch
  <1>3. \A p \in User : pc'[p].at = "fblock" => pc'[p] = pc[p]
    BY <1>2, PlaceFacts, NullProc DEF DInv, OInv, PInv, FlowType
  <1> QED
    BY <1>1, <1>2, <1>3, StillData

\* receive.c:21-24 moves no page.
LEMMA ReceiveTakesData ==
  ASSUME DInv, ReceiveTakes
  PROVE  DInv'
  <1>1. OInv' /\ SameUsers
    BY ReceiveTakesO DEF DInv
  <1>2. /\ UNCHANGED <<vm, sys, tlb, prpd, expect>> /\ vm.status = "up"
        /\ pc' = [pc EXCEPT ![me] = InUser]
    BY DEF ReceiveTakes, Calling, Runs
  <1>3. \A p \in User : pc'[p].at = "fblock" => pc'[p] = pc[p]
    BY <1>2, PlaceFacts, NullProc DEF DInv, OInv, PInv, FlowType
  <1>4. Switch(sys', tlb)
    BY <1>2 DEF Switch
  <1> QED
    BY <1>1, <1>2, <1>3, <1>4, StillData

\* clkhandler.c:38-44 moves no page.
LEMMA ClockTickData ==
  ASSUME DInv, ClockTick
  PROVE  DInv'
  <1>1. OInv' /\ SameUsers
    BY ClockTickO DEF DInv
  <1>2. UNCHANGED <<vm, pc, prpd, expect>> /\ vm.status = "up" /\ Switch(sys', tlb)
    BY DEF ClockTick, Calling, Runs, proc, Switch
  <1> QED
    BY <1>1, <1>2, StillData

\* framewakeup in kill.c:37-42 moves no page.
LEMMA KillWakeData ==
  ASSUME DInv, KillWake
  PROVE  DInv'
  <1>1. OInv' /\ SameUsers
    BY KillWakeO DEF DInv
  <1>2. WakesBlocked(vm, sys)
    BY NoneAstray DEF DInv
  <1>3. /\ UNCHANGED <<vm, prpd, expect>> /\ vm.status = "up" /\ Switch(sys', tlb)
        /\ pc' = [pc EXCEPT ![me] = At("kill_woken", @.arg)]
    BY <1>2 DEF KillWake, Runs, proc, Switch
  <1>4. \A p \in User : pc'[p].at = "fblock" => pc'[p] = pc[p]
    <2>1. At("kill_woken", pc[me].arg).at = "kill_woken"
      BY DEF At
    <2> QED
      BY <1>3, <2>1, NullProc DEF DInv, OInv, PInv, FlowType
  <1> QED
    BY <1>1, <1>3, <1>4, StillData

\* The entries of a process that runs count, if it has a page table.
LEMMA MyRefThere ==
  ASSUME NEW v, VmOK(v), RegionD(v), PInv, Runs, me \in User, Using(me), HasTable(v, me),
         NEW g \in Page
  PROVE  /\ MyRef(v, Refs(v), g) /\ PteRefOf(v, mypd, g) = RefOf(v, me, g)
         /\ getpte(v, mypd, g) = Ent(v, RefOf(v, me, g)) /\ getpte(v, mypd, g) \in Pte
         /\ Tabled(v, Refs(v)) /\ Refs(v) \in SUBSET AllRefs
  <1>1. me \in Pid /\ mypd \in DFrame /\ mypd = prpd[me]
    BY RunsFacts
  <1>2. v.dmem[mypd].heap \in DFrame /\ PteRefOf(v, mypd, g) = RefOf(v, me, g)
    BY <1>1 DEF HasTable, RefOf
  <1>3. RefOf(v, me, g) \in Refs(v) /\ v.fm.pid[v.dmem[prpd[me]].heap] = me
        /\ Tabled(v, Refs(v)) /\ Refs(v) \in SUBSET AllRefs
    BY RefsFacts
  <1>4. getpte(v, mypd, g) = Ent(v, RefOf(v, me, g))
    BY <1>1 DEF getpte, Ent, RefOf, PteRefOf
  <1>5. getpte(v, mypd, g) \in Pte
    BY <1>2, VmFacts DEF getpte, VmOK
  <1> QED
    BY <1>1, <1>2, <1>3, <1>4, <1>5 DEF MyRef

\* The entries of other pages are others, if nothing was written into page g.
LEMMA OtherRefs ==
  ASSUME NEW v, VmOK(v), RegionD(v), NEW e, NEW c, Intact(v, e), Blocked(v, c),
         me \in User, Using(me), HasTable(v, me), NEW g \in Page,
         e[me][g] = None, c[me] # At("fblock", g)
  PROVE  \A p \in User, h \in Page :
           Using(p) /\ (e[p][h] # None \/ c[p] = At("fblock", h)) => RefOf(v, p, h) # RefOf(v, me, g)
  <1> SUFFICES ASSUME NEW p \in User, NEW h \in Page, Using(p),
                      e[p][h] # None \/ c[p] = At("fblock", h),
                      RefOf(v, p, h) = RefOf(v, me, g)
               PROVE  FALSE
    OBVIOUS
  <1>1. HasTable(v, p)
    BY DEF Intact, Blocked
  <1>2. v.fm.pid[v.dmem[prpd[p]].heap] = p /\ v.fm.pid[v.dmem[prpd[me]].heap] = me
    BY <1>1, RefsFacts
  <1>3. v.dmem[prpd[p]].heap = v.dmem[prpd[me]].heap /\ h = g
    BY DEF RefOf, PteRefOf
  <1> QED
    BY <1>2, <1>3

\* vmhfreemem.c:65-150 takes away one page of the caller, with its translation.
LEMMA FreePageData ==
  ASSUME DInv, NEW g \in Page, FreePage(g)
  PROVE  DInv'
  <1>1. PICK w : w = set_pages_deallocated(vm, mypd, g)
    OBVIOUS
  <1>2. PICK kept : kept = IF getpte(vm, mypd, g).st = "absent" THEN tlb ELSE invlpg(tlb, g)
    OBVIOUS
  <1>3. PICK r : r = RefOf(vm, me, g)
    OBVIOUS
  <1>4. PICK e : e = expect'
    OBVIOUS
  <1>5. PICK c : c = pc'
    OBVIOUS
  <1>6. OInv /\ PInv /\ Program /\ VmOK(vm) /\ RegionD(vm) /\ vm.status = "up"
    BY DEF DInv, OInv, PInv, FreePage, Program, Calling, Runs
  <1>7. Runs /\ me \in User /\ Using(me) /\ pc[me].at = "user" /\ mypd = prpd[me] /\ mypd \in DFrame
    BY <1>6, ProgramFacts, ProgramUses
  <1>8. /\ e = [expect EXCEPT ![me][g] = None] /\ c = pc /\ prpd' = prpd
        /\ vm' = IF WakesBlocked(w, sys) THEN w ELSE [w EXCEPT !.status = "wild"]
        /\ Switch(framewakeup(w, sys), kept) /\ Mapped(vm, mypd)
    BY <1>1, <1>2, <1>4, <1>5 DEF FreePage
  <1>9. HasTable(vm, me)
    BY <1>6, <1>7, <1>8, RunsFacts DEF HasTable
  <1>10. /\ MyRef(vm, Refs(vm), g) /\ PteRefOf(vm, mypd, g) = r
         /\ getpte(vm, mypd, g) = Ent(vm, r) /\ Tabled(vm, Refs(vm)) /\ Refs(vm) \in SUBSET AllRefs
    BY <1>3, <1>6, <1>7, <1>9, MyRefThere
  <1>11. Linked(vm, Refs(vm)) /\ Intact(vm, expect) /\ Blocked(vm, pc) /\ Translates(vm, tlb)
    BY <1>6 DEF DInv, Pages
  <1>12. /\ VmOK(w) /\ KeepsD(vm, w) /\ w.status = vm.status /\ Linked(w, Refs(vm))
         /\ Carried(vm, w, Refs(vm) \ {r})
         /\ \A s \in Refs(vm) \ {r} : Ent(w, s) = Ent(vm, s)
    BY <1>1, <1>6, <1>10, <1>11, DeallocatedLinked
  <1>13. /\ \A p \in User, h \in Page : e[p][h] # None => e[p][h] = expect[p][h]
         /\ e[me][g] = None
    BY <1>6, <1>7, <1>8, NullProc DEF PInv, ProcType
  <1>14. Intact(vm, e) /\ Blocked(vm, c)
    BY <1>8, <1>11, <1>13 DEF Intact
  <1>15. Pages(w, e, c)
    <2>1. c[me] # At("fblock", g)
      BY <1>7, <1>8 DEF At
    <2>2. \A p \in User, h \in Page :
            Using(p) /\ (e[p][h] # None \/ c[p] = At("fblock", h)) => RefOf(vm, p, h) # r
      BY <1>3, <1>6, <1>7, <1>9, <1>13, <1>14, <2>1, OtherRefs
    <2>3. PICK v : v = vm
      OBVIOUS
    <2>4. /\ VmOK(v) /\ RegionD(v) /\ KeepsD(v, w) /\ Intact(v, e) /\ Blocked(v, c)
          /\ Linked(w, Refs(v)) /\ Carried(v, w, Refs(v) \ {r})
          /\ \A p \in User, h \in Page :
               Using(p) /\ (e[p][h] # None \/ c[p] = At("fblock", h)) => RefOf(v, p, h) # r
      BY <1>6, <1>12, <1>14, <2>2, <2>3
    <2> QED
      BY <2>4, PagesMoved
  <1>16. \A h \in Page : kept[h] # None => kept[h] = tlb[h] /\ RefOf(vm, me, h) # r
    <2> SUFFICES ASSUME NEW h \in Page, kept[h] # None
                 PROVE  kept[h] = tlb[h] /\ RefOf(vm, me, h) # r
      OBVIOUS
    <2>1. tlb \in [Page -> EFrame \cup {None}]
      BY <1>6 DEF PInv, FlowType
    <2>2. kept[h] = tlb[h] /\ (h = g => getpte(vm, mypd, g).st = "absent")
      BY <1>2, <2>1 DEF invlpg
    <2>3. h # g
      BY <1>3, <1>10, <1>11, <2>2 DEF Translates
    <2> QED
      BY <1>3, <2>2, <2>3 DEF RefOf, PteRefOf
  <1>17. Translates(w, kept)
    <2>1. Translates(vm, kept)
      BY <1>11, <1>16 DEF Translates
    <2>2. \A h \in Page : kept[h] # None => RefOf(vm, me, h) \in Refs(vm) \ {r}
      BY <1>6, <1>7, <1>9, <1>16, RefsFacts
    <2>3. \A h \in Page : kept[h] # None => Ent(w, RefOf(vm, me, h)) = Ent(vm, RefOf(vm, me, h))
      BY <1>12, <2>2
    <2> QED
      BY <1>12, <2>1, <2>3, TranslatesKept
  <1>18. vm' = w
    BY <1>6, <1>7, <1>8, <1>12, NoneAstray
  <1>19. Translates(vm, tlb)'
    <2>1. PICK s : s = framewakeup(w, sys)
      OBVIOUS
    <2>2. Switch(s, kept) /\ w.dmem = vm'.dmem
      BY <1>8, <1>18, <2>1
    <2> QED
      BY <1>8, <1>17, <2>2, SwitchTranslates
  <1>20. OInv' /\ SameUsers
    BY <1>6, FreePageO
  <1>21. w = vm' /\ w.status # "wild" /\ Pages(w, expect', pc')
    BY <1>4, <1>5, <1>6, <1>12, <1>15, <1>18
  <1> QED
    BY <1>8, <1>19, <1>20, <1>21, QuietData

\* __pde_inv_check (pgfhandler.c:12-25) moves no page, and afterwards the entries
\* of the caller count.
LEMMA TableData ==
  ASSUME DInv, Program, NEW w, w = WithPageTable(vm), w.status # "panic"
  PROVE  /\ VmOK(w) /\ RegionD(w) /\ w.status = "up" /\ HasTable(w, me)
         /\ Pages(w, expect, pc) /\ Translates(w, tlb)
         /\ e1full(w) <=> e1full(vm)
         /\ w.fm.used = vm.fm.used
         /\ \A g \in Page : Translate(g) = None =>
              tlb[g] = None /\ getpte(w, mypd, g).st # "present"
  <1>1. OInv /\ PInv /\ VmOK(vm) /\ RegionD(vm)
    BY DEF DInv, OInv, PInv
  <1>2. Runs /\ vm.status = "up" /\ me \in User /\ Using(me) /\ mypd = prpd[me] /\ mypd \in DFrame
    BY <1>1, ProgramFacts, ProgramUses DEF Runs
  <1>3. Pages(vm, expect, pc) /\ Translates(vm, tlb)
    BY <1>2 DEF DInv
  <1>4. VmOK(w) /\ RegionD(w) /\ w.status = "up"
    BY <1>1, TableRegionD
  <1>5. w.dmem[mypd].heap \in DFrame /\ HasTable(w, me)
    BY <1>1, <1>2, TableThere DEF HasTable
  <1>6. vm.dmem[mypd].heap \in DFrame \cup {None}
    BY <1>1, <1>2, VmFacts DEF VmOK
  <1>7. \A g \in Page : Translate(g) = None => tlb[g] = None
    BY DEF Translate
  <1>8. \/ w = vm /\ vm.dmem[mypd].heap # None
        \/ vm.dmem[mypd].heap = None /\ \E f : GotTable(vm, w, me, mypd, f)
    <2>1. me \in Pid
      BY <1>2, NullProc
    <2> QED
      BY <1>1, <1>2, <2>1, WithPageTableShape
  <1>9. CASE w = vm /\ vm.dmem[mypd].heap # None
    <2>1. vm.dmem[vm.dmem[mypd].heap].kind = "pt"
      BY <1>1, <1>2, <1>9 DEF RegionD, Dirs
    <2>2. \A g \in Page : Translate(g) = None => getpte(w, mypd, g).st # "present"
      <3> SUFFICES ASSUME NEW g \in Page, Translate(g) = None, getpte(w, mypd, g).st = "present"
                   PROVE  FALSE
        OBVIOUS
      <3>1. getpte(vm, mypd, g).base = None
        BY <1>9, <2>1 DEF Translate, Mapped
      <3>2. getpte(vm, mypd, g).base \in RegionFrames("E1") /\ None \notin RegionFrames("E1")
        <4>1. vm.dmem[mypd].heap \in DFrame
          BY <1>6, <1>9
        <4>2. Based(getpte(vm, mypd, g))
          BY <1>1, <4>1 DEF VmOK, getpte
        <4> QED
          BY <1>9, <4>2, FrameFacts DEF Based, None
      <3> QED
        BY <3>1, <3>2
    <2> QED
      BY <1>3, <1>4, <1>5, <1>7, <1>9, <2>2
  <1>10. CASE vm.dmem[mypd].heap = None /\ \E f : GotTable(vm, w, me, mypd, f)
    <2>1. PICK f : GotTable(vm, w, me, mypd, f)
      BY <1>10
    <2>2. /\ f \in DFrame /\ vm.fm.state[f] = "FREE" /\ w.mem = vm.mem
          /\ \A x \in DFrame :
               /\ w.dmem[x].kind = IF x = f THEN "pt" ELSE vm.dmem[x].kind
               /\ w.dmem[x].heap = IF x = mypd THEN f ELSE IF x = f THEN None ELSE vm.dmem[x].heap
      BY <2>1 DEF GotTable
    <2>3. None \notin DFrame
      BY FrameFacts DEF None
    <2>4. \A p \in User : Using(p) /\ prpd[p] \in DFrame =>
            vm.fm.state[prpd[p]] = "USED" /\ vm.fm.pid[prpd[p]] = p
      BY <1>1 DEF RegionD, Dirs, Holds
    <2>5. \A p \in User : Using(p) /\ prpd[p] \in DFrame /\ p # me =>
            w.dmem[prpd[p]].heap = vm.dmem[prpd[p]].heap
      <3> SUFFICES ASSUME NEW p \in User, Using(p), prpd[p] \in DFrame, p # me
                   PROVE  w.dmem[prpd[p]].heap = vm.dmem[prpd[p]].heap
        OBVIOUS
      <3>1. prpd[p] # f
        BY <2>2, <2>4
      <3>2. prpd[p] # mypd
        BY <1>2, <2>4
      <3> QED
        BY <2>2, <3>1, <3>2
    <2>6. w.dmem[mypd].heap = f /\ ~ HasTable(vm, me)
      BY <1>2, <1>10, <2>2, <2>3 DEF HasTable
    <2>7. \A p \in User : Using(p) /\ HasTable(vm, p) =>
            /\ p # me /\ HasTable(w, p)
            /\ \A g : RefOf(w, p, g) = RefOf(vm, p, g)
      BY <2>5, <2>6 DEF HasTable, RefOf, PteRefOf
    <2>8. Tables(w) = Tables(vm) \cup {f}
      <3>1. \A t \in DFrame : t \in Tables(w) => t \in Tables(vm) \cup {f}
        BY <1>2, <2>5, <2>6 DEF Tables
      <3>2. \A t \in DFrame : t \in Tables(vm) => t \in Tables(w)
        BY <1>2, <1>10, <2>3, <2>5 DEF Tables
      <3>3. f \in Tables(w)
        BY <1>2, <2>2, <2>6 DEF Tables
      <3> QED
        BY <3>1, <3>2, <3>3 DEF Tables
    <2>9. Refs(w) = Refs(vm) \cup [pt : {f}, page : Page]
      BY <2>8 DEF Refs
    <2>10. /\ Refs(vm) \in SUBSET AllRefs /\ \A r \in Refs(vm) : vm.fm.state[r.pt] = "USED"
           /\ \A p \in User, g \in Page : Using(p) /\ HasTable(vm, p) => RefOf(vm, p, g) \in Refs(vm)
      BY <1>1, RefsFacts
    <2>17. PICK N : N = [pt : {f}, page : Page]
      OBVIOUS
    <2>11. /\ Linked(w, Refs(w)) /\ Carried(vm, w, Refs(vm))
           /\ \A r \in Refs(vm) : Ent(w, r) = Ent(vm, r)
           /\ \A r \in N : Ent(w, r) = NoPte
      <3>1. PICK v : v = vm
        OBVIOUS
      <3>2. PICK d : d = mypd
        OBVIOUS
      <3>3. PICK q : q = me
        OBVIOUS
      <3>4. PICK L : L = Refs(vm)
        OBVIOUS
      <3>5. /\ VmOK(v) /\ L \in SUBSET AllRefs /\ Linked(v, L)
            /\ InUse(v, L) /\ GotTable(v, w, q, d, f) /\ N = [pt : {f}, page : Page]
        BY <1>1, <1>3, <2>1, <2>10, <2>17, <3>1, <3>2, <3>3, <3>4 DEF Pages, InUse
      <3>6. /\ Linked(w, L \cup N) /\ Carried(v, w, L)
            /\ SameEnts(v, w, L) /\ Empty(w, N)
        BY <3>5, GotTableLinked
      <3> QED
        BY <2>9, <2>17, <3>1, <3>4, <3>6 DEF SameEnts, Empty
    <2>12. Intact(w, expect)
      <3> SUFFICES ASSUME NEW p \in User, NEW g \in Page, Using(p), expect[p][g] # None
                   PROVE  /\ HasTable(w, p) /\ Filled(w, RefOf(w, p, g))
                          /\ w.mem[Ent(w, RefOf(w, p, g)).base] = <<p, g, expect[p][g]>>
        BY DEF Intact
      <3>1. /\ HasTable(vm, p) /\ Filled(vm, RefOf(vm, p, g))
            /\ vm.mem[Ent(vm, RefOf(vm, p, g)).base] = <<p, g, expect[p][g]>>
        BY <1>3 DEF Pages, Intact
      <3> QED
        BY <2>7, <2>10, <2>11, <3>1 DEF Carried
    <2>13. Blocked(w, pc)
      <3> SUFFICES ASSUME NEW p \in User, NEW g \in Page, Using(p), pc[p] = At("fblock", g)
                   PROVE  HasTable(w, p) /\ ~ Filled(w, RefOf(w, p, g))
        BY DEF Blocked
      <3>1. HasTable(vm, p) /\ ~ Filled(vm, RefOf(vm, p, g))
        BY <1>3 DEF Pages, Blocked
      <3> QED
        BY <2>7, <2>10, <2>11, <3>1 DEF Carried
    <2>14. Translates(w, tlb)
      BY <1>3, <2>6 DEF Translates
    <2>15. \A g \in Page : getpte(w, mypd, g).st = "absent"
      <3> SUFFICES ASSUME NEW g \in Page
                   PROVE  getpte(w, mypd, g).st = "absent"
        OBVIOUS
      <3>1. Ent(w, [pt |-> f, page |-> g]) = NoPte
        BY <2>11, <2>17
      <3> QED
        BY <2>6, <3>1 DEF getpte, Ent, NoPte
    <2>16. w.fm.used = vm.fm.used /\ (e1full(w) <=> e1full(vm))
      <3>1. Took(vm.fm, w.fm, "D", f, me, FR_PTEUNUSED)
        BY <2>1 DEF GotTable
      <3>2. w.fm.free["E1"] = vm.fm.free["E1"]
        BY <1>1, <3>1, TookD
      <3> QED
        BY <3>1, <3>2 DEF Took, e1full, hasfreeframe
    <2> QED
      BY <1>4, <1>5, <1>7, <2>11, <2>12, <2>13, <2>14, <2>15, <2>16 DEF Pages
  <1> QED
    BY <1>8, <1>9, <1>10

\* The handler serves a fault (pgfhandler.c:82-121): pages move with what they
\* hold, and the translations of the caller are not among those that move.
LEMMA ServedData ==
  ASSUME NEW w, VmOK(w), RegionD(w), w.status = "up", NEW e, NEW c, Pages(w, e, c),
         Translates(w, tlb), PInv, Runs, me \in User, Using(me), HasTable(w, me),
         \A h \in Page : c[me] # At("fblock", h),
         NEW g \in Page, tlb[g] = None,
         e1full(w) => \A h \in Page : tlb[h] # getusedframeE1(w.fm),
         NEW v,
         \/ getpte(w, mypd, g).st = "swapped" /\ v = OldPage(w, g)
         \/ getpte(w, mypd, g).st = "absent" /\ v = NewPage(w, g)
  PROVE  /\ v.status \in {"up", "nowhere"} /\ Translates(v, tlb)
         /\ v.status = "up" => Pages(v, e, c)
  <1>1. PICK r : r = RefOf(w, me, g)
    OBVIOUS
  <1>2. /\ MyRef(w, Refs(w), g) /\ PteRefOf(w, mypd, g) = r
        /\ getpte(w, mypd, g) = Ent(w, r) /\ Tabled(w, Refs(w)) /\ Refs(w) \in SUBSET AllRefs
    BY <1>1, MyRefThere
  <1>3. Linked(w, Refs(w)) /\ Intact(w, e) /\ Blocked(w, c)
    BY DEF Pages
  <1>4. \A h \in Page : tlb[h] # None =>
          /\ RefOf(w, me, h) \in Refs(w) \ {r} /\ Filled(w, RefOf(w, me, h))
          /\ e1full(w) => Ent(w, RefOf(w, me, h)).base # getusedframeE1(w.fm)
    <2> SUFFICES ASSUME NEW h \in Page, tlb[h] # None
                 PROVE  /\ RefOf(w, me, h) \in Refs(w) \ {r} /\ Filled(w, RefOf(w, me, h))
                        /\ e1full(w) => Ent(w, RefOf(w, me, h)).base # getusedframeE1(w.fm)
      OBVIOUS
    <2>1. RefOf(w, me, h) \in Refs(w)
      BY RefsFacts
    <2>2. Ent(w, RefOf(w, me, h)) = [st |-> "present", base |-> tlb[h]]
      BY DEF Translates
    <2>3. RefOf(w, me, h) # r
      BY <1>1 DEF RefOf, PteRefOf
    <2> QED
      BY <2>1, <2>2, <2>3 DEF Filled
  <1>5. CASE getpte(w, mypd, g).st = "swapped" /\ v = OldPage(w, g)
    <2>1. /\ KeepsD(w, v) /\ v.status \in {"up", "nowhere"}
          /\ v.status # "nowhere" => Linked(v, Refs(w)) /\ Carried(w, v, Refs(w))
          /\ \A s \in Refs(w) \ {r} :
               Filled(w, s) /\ (e1full(w) => Ent(w, s).base # getusedframeE1(w.fm))
                 => Ent(v, s) = Ent(w, s)
      BY <1>2, <1>3, <1>5, OldPageLinked
    <2>2. Translates(v, tlb)
      <3>1. \A h \in Page : tlb[h] # None => Ent(v, RefOf(w, me, h)) = Ent(w, RefOf(w, me, h))
        BY <1>4, <2>1
      <3> QED
        BY <2>1, <3>1, TranslatesKept
    <2>3. ASSUME v.status = "up"
          PROVE  Pages(v, e, c)
      <3>1. PICK x : x = [pt |-> None, page |-> None]
        OBVIOUS
      <3>2. Linked(v, Refs(w)) /\ Carried(w, v, Refs(w) \ {x})
        BY <2>1, <2>3 DEF Carried
      <3>3. \A p \in User, h \in Page : RefOf(w, p, h) # x
        <4>1. None \notin Page
          BY PagingAssumption DEF None
        <4> QED
          BY <3>1, <4>1 DEF RefOf, PteRefOf
      <3>4. /\ KeepsD(w, v) /\ Intact(w, e) /\ Blocked(w, c)
            /\ \A p \in User, h \in Page :
                 Using(p) /\ (e[p][h] # None \/ c[p] = At("fblock", h)) => RefOf(w, p, h) # x
        BY <1>3, <2>1, <3>3
      <3> QED
        BY <3>2, <3>4, PagesMoved
    <2> QED
      BY <2>1, <2>2, <2>3
  <1>6. CASE getpte(w, mypd, g).st = "absent" /\ v = NewPage(w, g)
    <2>1. ~ Filled(w, r)
      BY <1>2, <1>6 DEF Filled
    <2>2. /\ KeepsD(w, v) /\ v.status = "up" /\ Linked(v, Refs(w)) /\ Carried(w, v, Refs(w) \ {r})
          /\ \A s \in Refs(w) \ {r} :
               Filled(w, s) /\ (e1full(w) => Ent(w, s).base # getusedframeE1(w.fm))
                 => Ent(v, s) = Ent(w, s)
      BY <1>2, <1>3, <1>6, <2>1, NewPageLinked
    <2>3. Translates(v, tlb)
      <3>1. \A h \in Page : tlb[h] # None => Ent(v, RefOf(w, me, h)) = Ent(w, RefOf(w, me, h))
        BY <1>4, <2>2
      <3> QED
        BY <2>2, <3>1, TranslatesKept
    <2>4. e[me][g] = None
      BY <1>1, <1>3, <2>1 DEF Intact
    <2>5. \A p \in User, h \in Page :
            Using(p) /\ (e[p][h] # None \/ c[p] = At("fblock", h)) => RefOf(w, p, h) # r
      BY <1>1, <1>3, <2>4, OtherRefs
    <2>6. Pages(v, e, c)
      BY <1>3, <2>2, <2>5, PagesMoved
    <2> QED
      BY <2>2, <2>3, <2>6
  <1> QED
    BY <1>5, <1>6

\* pgfhandler.c:65-125: the page of the caller comes, and at most the victim of
\* an eviction goes.
LEMMA FaultServedData ==
  ASSUME DInv, Careful, NEW g \in Page, FaultServed(g)
  PROVE  DInv'
  <1>1. PICK w : w = WithPageTable(vm)
    OBVIOUS
  <1>2. PICK v : v = vm'
    OBVIOUS
  <1>3. OInv /\ PInv
    BY DEF DInv, OInv
  <1>4. /\ Program /\ Translate(g) = None /\ UNCHANGED <<sys, pc, tlb, prpd, expect>>
        /\ \/ w.status = "panic" /\ v = w
           \/ w.status # "panic" /\ getpte(w, mypd, g).st = "swapped" /\ v = OldPage(w, g)
           \/ w.status # "panic" /\ getpte(w, mypd, g).st # "swapped" /\ v = NewPage(w, g)
    BY <1>1, <1>2 DEF FaultServed, Faults, proc
  <1>5. Runs /\ me \in User /\ pc[me].at = "user" /\ Using(me)
    BY <1>3, <1>4, ProgramFacts, ProgramUses
  <1>6. OInv' /\ SameUsers
    BY <1>3, FaultServedO
  <1>7. /\ v.status # "wild" /\ Translates(v, tlb)
        /\ v.status = "up" => Pages(v, expect, pc)
    <2>1. CASE w.status = "panic" /\ v = w
      <3>1. w.dmem = vm.dmem
        BY <1>1, <1>3, <1>4, <2>1, TableThere
      <3>2. Translates(vm, tlb)
        BY DEF DInv
      <3> QED
        BY <2>1, <3>1, <3>2 DEF Translates, HasTable, RefOf, PteRefOf, Ent
    <2>2. CASE w.status # "panic"
      <3>1. /\ VmOK(w) /\ RegionD(w) /\ w.status = "up" /\ HasTable(w, me)
            /\ Pages(w, expect, pc) /\ Translates(w, tlb)
            /\ e1full(w) <=> e1full(vm)
            /\ w.fm.used = vm.fm.used
            /\ tlb[g] = None /\ getpte(w, mypd, g).st # "present"
        BY <1>1, <1>4, <2>2, TableData
      <3>2. e1full(w) => \A h \in Page : tlb[h] # getusedframeE1(w.fm)
        BY <3>1 DEF Careful, Evicts, getusedframeE1
      <3>3. \/ getpte(w, mypd, g).st = "swapped" /\ v = OldPage(w, g)
            \/ getpte(w, mypd, g).st = "absent" /\ v = NewPage(w, g)
        BY <1>3, <1>4, <1>5, <2>2, <3>1, MyRefThere, PteFacts
      <3>4. \A h \in Page : pc[me] # At("fblock", h)
        BY <1>5 DEF At
      <3>5. PICK e : e = expect
        OBVIOUS
      <3>6. PICK c : c = pc
        OBVIOUS
      <3>7. Pages(w, e, c) /\ \A h \in Page : c[me] # At("fblock", h)
        BY <3>1, <3>4, <3>5, <3>6
      <3>8. /\ v.status \in {"up", "nowhere"} /\ Translates(v, tlb)
            /\ v.status = "up" => Pages(v, e, c)
        BY <1>3, <1>5, <3>1, <3>2, <3>3, <3>7, ServedData
      <3> QED
        BY <3>5, <3>6, <3>8
    <2> QED
      BY <1>4, <2>1, <2>2
  <1>8. Translates(vm, tlb)'
    <2>1. PICK s : s = sys'
      OBVIOUS
    <2>2. Switch(s, tlb) /\ v.dmem = vm'.dmem
      BY <1>2, <1>4, <2>1 DEF Switch
    <2> QED
      BY <1>4, <1>7, <2>2, SwitchTranslates
  <1>9. v.status = "up" => Pages(v, expect', pc')
    BY <1>4, <1>7
  <1> QED
    BY <1>2, <1>4, <1>6, <1>7, <1>8, <1>9, QuietData

\* pgfhandler.c:94-105: the page for which the caller waits leads nowhere.
LEMMA FaultBlocksData ==
  ASSUME DInv, NEW g \in Page, FaultBlocks(g)
  PROVE  DInv'
  <1>1. PICK w : w = WithPageTable(vm)
    OBVIOUS
  <1>2. OInv /\ PInv
    BY DEF DInv, OInv
  <1>3. /\ Program /\ Translate(g) = None /\ UNCHANGED <<prpd, expect>>
        /\ w.status # "panic" /\ getpte(w, mypd, g).st # "swapped"
        /\ vm' = w /\ pc' = [pc EXCEPT ![me] = At("fblock", g)]
        /\ Switch(frameblock(sys), tlb)
    BY <1>1 DEF FaultBlocks, Faults, proc
  <1>4. Runs /\ me \in User /\ Using(me)
    BY <1>2, <1>3, ProgramFacts, ProgramUses
  <1>5. /\ VmOK(w) /\ RegionD(w) /\ w.status = "up" /\ HasTable(w, me)
        /\ Pages(w, expect, pc) /\ Translates(w, tlb)
        /\ getpte(w, mypd, g).st # "present"
    BY <1>1, <1>3, TableData
  <1>6. ~ Filled(w, RefOf(w, me, g))
    BY <1>2, <1>3, <1>4, <1>5, MyRefThere, PteFacts DEF Filled
  <1>7. Blocked(w, pc')
    <2> SUFFICES ASSUME NEW p \in User, NEW h \in Page, Using(p), pc'[p] = At("fblock", h)
                 PROVE  HasTable(w, p) /\ ~ Filled(w, RefOf(w, p, h))
      BY DEF Blocked
    <2>1. pc'[p] = IF p = me THEN At("fblock", g) ELSE pc[p]
      BY <1>2, <1>3, NullProc DEF PInv, FlowType
    <2>2. CASE p = me
      BY <1>5, <1>6, <2>1, <2>2 DEF At
    <2>3. CASE p # me
      BY <1>5, <2>1, <2>3 DEF Pages, Blocked
    <2> QED
      BY <2>2, <2>3
  <1>8. Pages(w, expect', pc')
    BY <1>3, <1>5, <1>7 DEF Pages
  <1>9. Translates(vm, tlb)'
    <2>1. PICK s : s = frameblock(sys)
      OBVIOUS
    <2>2. Switch(s, tlb) /\ w.dmem = vm'.dmem
      BY <1>3, <2>1
    <2> QED
      BY <1>3, <1>5, <2>2, SwitchTranslates
  <1>10. OInv' /\ SameUsers
    BY <1>2, FaultBlocksO
  <1> QED
    BY <1>3, <1>5, <1>8, <1>9, <1>10, QuietData

\* pgfhandler.c:100-121 behind frameblock, on the page of the process itself.
LEMMA FaultResumesData ==
  ASSUME DInv, Careful, FaultResumes
  PROVE  DInv'
  <1>1. OInv /\ PInv /\ VmOK(vm) /\ RegionD(vm)
    BY DEF DInv, OInv, PInv
  <1>2. Runs /\ pc[me].at = "fblock" /\ UNCHANGED <<prpd, expect>> /\ vm.status = "up"
    BY DEF FaultResumes, Runs, proc
  <1>3. pc \in [Pid -> Place] /\ pc[NULLPROC] = InUser /\ me \in Pid
    BY <1>1, <1>2, RunsFacts DEF PInv, FlowType
  <1>4. PICK g \in Page : pc[me] = At("fblock", g)
    BY <1>2, <1>3 DEF Place, At, InUser
  <1>5. me \in User /\ Using(me) /\ pc[me].arg = g
    <2>1. me \in User /\ pc[me].arg = g
      BY <1>2, <1>3, <1>4 DEF User, At, InUser
    <2>2. pc[me].at \notin {"kill_sent", "kill_woken"}
      BY <1>2
    <2> QED
      BY <1>1, <1>2, <2>1, <2>2, ProgramUses
  <1>6. OInv' /\ SameUsers
    BY <1>1, FaultResumesO
  <1>7. Pages(vm, expect, pc) /\ Translates(vm, tlb)
    BY <1>2 DEF DInv
  <1>8. CASE bothfull(vm)
    <2>1. UNCHANGED <<vm, pc>> /\ Switch(sys', tlb)
      BY <1>8 DEF FaultResumes, Switch
    <2> QED
      BY <1>2, <1>6, <2>1, StillData
  <1>9. CASE ~ bothfull(vm)
    <2>1. HasTable(vm, me) /\ ~ Filled(vm, RefOf(vm, me, g))
      BY <1>4, <1>5, <1>7 DEF Pages, Blocked
    <2>2. /\ getpte(vm, mypd, g).st = "absent" /\ vm.dmem[vm.dmem[prpd[me]].heap].kind = "pt"
      BY <1>1, <1>2, <1>5, <2>1, MyRefThere, RefsFacts DEF Filled
    <2>3. Mapped(vm, mypd)
      BY <2>1, <2>2, FrameFacts DEF Mapped, HasTable, mypd, None
    <2>4. PICK c : c = pc'
      OBVIOUS
    <2>5. PICK v : v = vm'
      OBVIOUS
    <2>6. pgfaddr = g
      BY <1>5, <1>9 DEF Careful
    <2>7. c = [pc EXCEPT ![me] = InUser] /\ v = NewPage(vm, g) /\ UNCHANGED <<sys, tlb>>
      BY <1>9, <2>3, <2>4, <2>5, <2>6 DEF FaultResumes
    <2>8. \A p \in User, h \in Page : c[p] = At("fblock", h) => pc[p] = At("fblock", h)
      BY <1>3, <2>7, NullProc DEF At, InUser
    <2>9. \A h \in Page : c[me] # At("fblock", h)
      BY <1>3, <2>7 DEF At, InUser
    <2>10. Pages(vm, expect, c)
      BY <1>7, <2>8 DEF Pages, Blocked
    <2>11. tlb[g] = None
      BY <1>7, <2>1 DEF Translates, Filled
    <2>12. e1full(vm) => \A h \in Page : tlb[h] # getusedframeE1(vm.fm)
      BY DEF Careful, Evicts
    <2>13. PICK w : w = vm
      OBVIOUS
    <2>14. PICK e : e = expect
      OBVIOUS
    <2>15. /\ VmOK(w) /\ RegionD(w) /\ w.status = "up" /\ Pages(w, e, c) /\ Translates(w, tlb)
           /\ HasTable(w, me) /\ v = NewPage(w, g) /\ getpte(w, mypd, g).st = "absent"
           /\ e1full(w) => \A h \in Page : tlb[h] # getusedframeE1(w.fm)
      BY <1>1, <1>2, <1>7, <2>1, <2>2, <2>7, <2>10, <2>12, <2>13, <2>14
    <2>16. /\ v.status \in {"up", "nowhere"} /\ Translates(v, tlb)
           /\ v.status = "up" => Pages(v, e, c)
      BY <1>1, <1>2, <1>5, <2>9, <2>11, <2>15, ServedData
    <2>17. Translates(vm, tlb)'
      <3>1. PICK s : s = sys'
        OBVIOUS
      <3>2. Switch(s, tlb) /\ v.dmem = vm'.dmem
        BY <2>5, <2>7, <3>1 DEF Switch
      <3> QED
        BY <1>2, <2>16, <3>2, SwitchTranslates
    <2>18. v.status = "up" => Pages(v, expect', pc')
      BY <1>2, <2>4, <2>14, <2>16
    <2> QED
      BY <1>2, <1>6, <2>5, <2>16, <2>17, <2>18, QuietData
  <1> QED
    BY <1>8, <1>9
-----------------------------------------------------------------------------
(* Processes come and go.                                                    *)

\* A process leaves the tables of E1 and E2 and the entries that count alone.
LEMMA LinkedElsewhere ==
  ASSUME NEW v, VmOK(v), NEW w, NEW L \in SUBSET AllRefs, Linked(v, L), SameEnts(v, w, L),
         \A r \in L : w.fm.pid[r.pt] = v.fm.pid[r.pt],
         \A x \in EFrame : SameFrame(v, w, x),
         w.fm.free["E2"] = v.fm.free["E2"]
  PROVE  Linked(w, L)
  <1>1. \A r \in L : Ent(w, r) = Ent(v, r) /\ (Filled(w, r) <=> Filled(v, r))
    BY DEF SameEnts, Filled
  <1>2. \A r \in L : Filled(v, r) => Ent(v, r).base \in EFrame
    BY FilledFacts
  <1>3. Down(w, L)
    BY <1>1, <1>2 DEF Linked, Down, Lost, SameFrame
  <1>4. Apart(w, L)
    BY <1>1 DEF Linked, Apart
  <1>5. Up(w, L)
    BY <1>1, SMTT(30) DEF Linked, Up, SameFrame
  <1> QED
    BY <1>3, <1>4, <1>5 DEF Linked

\* create.c:13-105: the new process has an empty heap in a frame that nobody
\* used, and whatever its predecessor left is out of reach.
LEMMA CreateData ==
  ASSUME DInv, NEW pid \in User, Create(pid)
  PROVE  DInv'
  <1>1. OInv /\ PInv /\ VmOK(vm) /\ RegionD(vm)
    BY DEF DInv, OInv, PInv
  <1>2. OInv'
    BY <1>1, CreateO
  <1>3. /\ Runs /\ sys.prstate[pid] = "FREE" /\ vm.status = "up" /\ vm'.status = "up"
        /\ vm'.mem = vm.mem
        /\ NewDFrame(vm) = SYSERR => vm' = vm
        /\ NewDFrame(vm) # SYSERR =>
             /\ NewDFrame(vm) \in DFrame
             /\ vm'.dmem = [vm.dmem EXCEPT ![NewDFrame(vm)] = DContent("pd")]
             /\ Took(vm.fm, vm'.fm, "D", NewDFrame(vm), pid, FR_PTEUNUSED)
        /\ prpd' = [prpd EXCEPT ![pid] = NewDFrame(vm)]
        /\ pc' = [pc EXCEPT ![pid] = InUser]
        /\ sys'.prstate = [sys.prstate EXCEPT ![pid] = "SUSP"]
    BY <1>1, CreateFacts DEF Runs
  <1>4. /\ expect' = [expect EXCEPT ![pid] = [g \in Page |-> None]] /\ tlb' = tlb
        /\ me' = me /\ pc[me].at = "user"
    BY DEF Create, Calling, me
  <1>5. me \in Pid /\ sys.prstate[me] = "CURR" /\ me # pid
    BY <1>1, <1>3, RunsFacts
  <1>6. /\ pc \in [Pid -> Place] /\ prpd \in [Pid -> DFrame \cup {SYSERR}]
        /\ expect \in [Pid -> [Page -> Val \cup {None}]] /\ sys.prstate \in [Pid -> ProcState]
    BY <1>1, SysFacts DEF PInv, FlowType, ProcType, SysOK
  <1>7. /\ \A p \in User \ {pid} : /\ Using(p)' <=> Using(p)
                                  /\ prpd'[p] = prpd[p] /\ pc'[p] = pc[p] /\ expect'[p] = expect[p]
        /\ ~ Using(pid) /\ prpd'[pid] = NewDFrame(vm)
        /\ pc'[pid] = InUser /\ \A g \in Page : expect'[pid][g] = None
    BY <1>3, <1>4, <1>6, NullProc DEF Using, Live
  <1>8. \A p \in User : Using(p) /\ prpd[p] \in DFrame => vm.fm.state[prpd[p]] = "USED"
    BY <1>1 DEF RegionD, Dirs, Holds
  <1>9. SYSERR \notin DFrame /\ None \notin DFrame
    BY FrameFacts DEF SYSERR, None
  <1>10. NewDFrame(vm) \in DFrame =>
           /\ vm.fm.state[NewDFrame(vm)] = "FREE" /\ vm'.dmem[NewDFrame(vm)].heap = None
           /\ \A x \in DFrame \ {NewDFrame(vm)} : vm'.dmem[x] = vm.dmem[x]
    <2>1. vm.dmem \in [DFrame -> Content]
      BY <1>1, VmFacts DEF VmOK
    <2>2. DContent("pd").heap = None
      BY DEF DContent
    <2>3. NewDFrame(vm) \in DFrame => vm.fm.state[NewDFrame(vm)] = "FREE"
      BY <1>3, <1>9 DEF Took
    <2> QED
      BY <1>3, <1>9, <2>1, <2>2, <2>3
  <1>11. \A x \in DFrame : vm.fm.state[x] = "USED" => vm'.dmem[x] = vm.dmem[x]
    BY <1>3, <1>9, <1>10
  <1>12. \A p \in User \ {pid} : Using(p) =>
           /\ HasTable(vm, p)' <=> HasTable(vm, p)
           /\ \A g : HasTable(vm, p) => RefOf(vm, p, g)' = RefOf(vm, p, g)
    BY <1>7, <1>8, <1>11 DEF HasTable, RefOf, PteRefOf
  <1>13. ~ (HasTable(vm, pid)')
    BY <1>3, <1>7, <1>9, <1>10 DEF HasTable
  <1>14. Refs(vm)' = Refs(vm)
    <2>1. ASSUME NEW t \in DFrame
          PROVE  t \in Tables(vm)' <=> t \in Tables(vm)
      <3>1. \A p \in User \ {pid} : Using(p) /\ prpd[p] \in DFrame =>
              vm'.dmem[prpd'[p]].heap = vm.dmem[prpd[p]].heap
        BY <1>7, <1>8, <1>11
      <3>2. prpd'[pid] \in DFrame => vm'.dmem[prpd'[pid]].heap = None
        BY <1>7, <1>10
      <3> QED
        BY <1>7, <1>9, <3>1, <3>2 DEF Tables
    <2>2. Tables(vm)' = Tables(vm)
      BY <2>1 DEF Tables
    <2> QED
      BY <2>2 DEF Refs
  <1>15. /\ Refs(vm) \in SUBSET AllRefs
         /\ \A r \in Refs(vm) : r.pt \in DFrame /\ vm.fm.state[r.pt] = "USED"
         /\ \A p \in User, g \in Page : Using(p) /\ HasTable(vm, p) => RefOf(vm, p, g) \in Refs(vm)
    BY <1>1, RefsFacts DEF AllRefs
  <1>16. \A r \in Refs(vm) : Ent(vm', r) = Ent(vm, r)
    BY <1>11, <1>15 DEF Ent
  <1>17. PICK v : v = vm'
    OBVIOUS
  <1>18. /\ \A x \in DFrame : vm.fm.state[x] = "USED" => v.fm.pid[x] = vm.fm.pid[x]
         /\ \A x \in EFrame : SameFrame(vm, v, x)
         /\ v.fm.free["E2"] = vm.fm.free["E2"]
    <2>1. CASE v = vm
      BY <2>1 DEF SameFrame
    <2>2. CASE NewDFrame(vm) # SYSERR
      <3>1. /\ vm.fm.state \in [Frame -> {"FREE", "USED"}] /\ vm.fm.pid \in [Frame -> Pid]
            /\ vm.fm.pte \in [Frame -> PteRef] /\ vm.fm.free \in [Region -> Seq(Frame)]
        BY <1>1, InOrderFacts DEF VmOK
      <3>2. /\ v.fm.state = [vm.fm.state EXCEPT ![NewDFrame(vm)] = "USED"]
            /\ v.fm.pid = [vm.fm.pid EXCEPT ![NewDFrame(vm)] = pid]
            /\ v.fm.pte = [vm.fm.pte EXCEPT ![NewDFrame(vm)] = FR_PTEUNUSED]
            /\ v.fm.free = [vm.fm.free EXCEPT !["D"] = Tail(@)]
        BY <1>3, <1>17, <2>2, FrameFacts DEF Took
      <3> QED
        BY <1>3, <1>10, <2>2, <3>1, <3>2, FrameFacts DEF SameFrame
    <2> QED
      BY <1>3, <1>17, <2>1, <2>2
  <1>19. Pages(vm, expect, pc) /\ Translates(vm, tlb)
    BY <1>3 DEF DInv
  <1>20. Linked(vm, Refs(vm))'
    <2>1. PICK u : u = vm
      OBVIOUS
    <2>2. PICK L : L = Refs(vm)
      OBVIOUS
    <2>3. /\ VmOK(u) /\ L \in SUBSET AllRefs /\ Linked(u, L) /\ SameEnts(u, v, L)
          /\ \A r \in L : v.fm.pid[r.pt] = u.fm.pid[r.pt]
          /\ \A x \in EFrame : SameFrame(u, v, x)
          /\ v.fm.free["E2"] = u.fm.free["E2"]
      BY <1>1, <1>15, <1>16, <1>17, <1>18, <1>19, <2>1, <2>2 DEF Pages, SameEnts
    <2>4. Linked(v, L)
      BY <2>3, LinkedElsewhere
    <2> QED
      BY <1>14, <1>17, <2>2, <2>4
  <1>21. Intact(vm, expect)'
    <2> SUFFICES ASSUME NEW p \in User, NEW g \in Page, Using(p)', expect'[p][g] # None
                 PROVE  /\ HasTable(vm, p)' /\ Filled(vm', RefOf(vm, p, g)')
                        /\ vm'.mem[Ent(vm', RefOf(vm, p, g)').base] = <<p, g, expect'[p][g]>>
      BY Zenon DEF Intact, Filled, Ent
    <2>1. p # pid /\ Using(p) /\ expect'[p][g] = expect[p][g]
      BY <1>7
    <2>2. /\ HasTable(vm, p) /\ Filled(vm, RefOf(vm, p, g))
          /\ vm.mem[Ent(vm, RefOf(vm, p, g)).base] = <<p, g, expect[p][g]>>
      BY <1>19, <2>1 DEF Pages, Intact
    <2>3. HasTable(vm, p)' /\ RefOf(vm, p, g)' = RefOf(vm, p, g) /\ RefOf(vm, p, g) \in Refs(vm)
      BY <1>12, <1>15, <2>1, <2>2
    <2>4. Ent(vm', RefOf(vm, p, g)') = Ent(vm, RefOf(vm, p, g))
      BY <1>16, <2>3
    <2> QED
      BY <1>3, <2>1, <2>2, <2>3, <2>4, Zenon DEF Filled
  <1>22. Blocked(vm, pc)'
    <2> SUFFICES ASSUME NEW p \in User, NEW g \in Page, Using(p)', pc'[p] = At("fblock", g)
                 PROVE  HasTable(vm, p)' /\ ~ Filled(vm', RefOf(vm, p, g)')
      BY DEF Blocked, Filled, Ent
    <2>1. p # pid /\ Using(p) /\ pc[p] = At("fblock", g)
      BY <1>7 DEF At, InUser
    <2>2. HasTable(vm, p) /\ ~ Filled(vm, RefOf(vm, p, g))
      BY <1>19, <2>1 DEF Pages, Blocked
    <2>3. HasTable(vm, p)' /\ RefOf(vm, p, g)' = RefOf(vm, p, g) /\ RefOf(vm, p, g) \in Refs(vm)
      BY <1>12, <1>15, <2>1, <2>2
    <2>4. Ent(vm', RefOf(vm, p, g)') = Ent(vm, RefOf(vm, p, g))
      BY <1>16, <2>3
    <2> QED
      BY <2>2, <2>3, <2>4 DEF Filled
  <1>23. Translates(vm, tlb)'
    <2> SUFFICES ASSUME NEW g \in Page, tlb'[g] # None
                 PROVE  /\ me' \in User /\ prpd'[me'] \in DFrame
                        /\ vm'.dmem[prpd'[me']].heap \in DFrame
                        /\ vm'.dmem[vm'.dmem[prpd'[me']].heap].kind = "pt"
                        /\ vm'.dmem[vm'.dmem[prpd'[me']].heap].pte[g]
                             = [st |-> "present", base |-> tlb'[g]]
      BY DEF Translates, HasTable, RefOf, PteRefOf, Ent
    <2>1. /\ me \in User /\ HasTable(vm, me) /\ vm.dmem[vm.dmem[prpd[me]].heap].kind = "pt"
          /\ Ent(vm, RefOf(vm, me, g)) = [st |-> "present", base |-> tlb[g]]
      BY <1>4, <1>19 DEF Translates
    <2>2. Using(me)
      BY <1>1, <1>3, <1>4, <2>1, ProgramUses
    <2>3. vm.dmem[prpd[me]].heap \in DFrame /\ vm.fm.state[vm.dmem[prpd[me]].heap] = "USED"
      BY <1>1, <1>9, <2>1, <2>2 DEF RegionD, Dirs, Holds, HasTable
    <2>4. /\ prpd'[me] = prpd[me] /\ vm'.dmem[prpd[me]] = vm.dmem[prpd[me]]
          /\ vm'.dmem[vm.dmem[prpd[me]].heap] = vm.dmem[vm.dmem[prpd[me]].heap]
      BY <1>5, <1>7, <1>8, <1>11, <2>1, <2>2, <2>3 DEF HasTable
    <2> QED
      BY <1>4, <2>1, <2>4 DEF HasTable, Ent, RefOf, PteRefOf
  <1> QED
    BY <1>2, <1>3, <1>20, <1>21, <1>22, <1>23 DEF DInv, Pages

\* kill up to its send (kill.c:9-36), by the process that dies: its page table
\* counts no more, and no page of another process moves.
LEMMA KillBeginData ==
  ASSUME DInv, OInv', Runs, me \in User, pc[me].at = "user", KillBegin(me)
  PROVE  DInv'
  <1>1. OInv /\ PInv /\ VmOK(vm) /\ RegionD(vm) /\ vm.status = "up" /\ me \in Pid
        /\ pc \in [Pid -> Place]
    BY NullProc DEF DInv, OInv, PInv, FlowType, Runs
  <1>2. Pages(vm, expect, pc) /\ Translates(vm, tlb)
    BY <1>1 DEF DInv
  <1>3. PICK q : q = me
    OBVIOUS
  <1>4. /\ UNCHANGED <<prpd, expect>> /\ vm'.dmem = vm.dmem /\ VmOK(vm')
        /\ \/ vm'.status = "done" /\ UNCHANGED <<sys, pc>>
           \/ /\ AllFreed(vm.fm, vm'.fm, q) /\ vm'.status = "up"
              /\ pc' = [pc EXCEPT ![me] = At("kill_sent", me)]
              /\ \A p \in Pid : \/ sys'.prstate[p] = sys.prstate[p]
                                \/ sys.prstate[p] = "RECV" /\ sys'.prstate[p] \in Runnable
                                \/ /\ sys'.prstate[p] \in Runnable
                                   /\ sys.prstate[p] \in Runnable
    BY <1>1, <1>3, KillBeginFacts
  <1>5. vm'.mem = vm.mem /\ Switch(sys', tlb)
    BY <1>1 DEF KillBegin, Switch, VmOK, VmType
  <1>6. Translates(vm, tlb)'
    <2>1. PICK s : s = sys'
      OBVIOUS
    <2>2. PICK v : v = vm
      OBVIOUS
    <2>3. v.dmem = vm'.dmem /\ Switch(s, tlb) /\ Translates(v, tlb)
      BY <1>2, <1>4, <1>5, <2>1, <2>2
    <2> QED
      BY <1>4, <2>3, SwitchTranslates
  <1>7. CASE vm'.status = "done"
    BY <1>6, <1>7 DEF DInv
  <1>8. CASE /\ AllFreed(vm.fm, vm'.fm, q) /\ vm'.status = "up"
             /\ pc' = [pc EXCEPT ![me] = At("kill_sent", me)]
             /\ \A p \in Pid : \/ sys'.prstate[p] = sys.prstate[p]
                               \/ sys.prstate[p] = "RECV" /\ sys'.prstate[p] \in Runnable
                               \/ sys'.prstate[p] \in Runnable /\ sys.prstate[p] \in Runnable
    <2>1. /\ \A p \in User \ {q} : pc'[p] = pc[p] /\ (Using(p)' <=> Using(p))
          /\ ~ (Using(q)')
      <3>1. /\ \A p \in User \ {q} : pc'[p] = pc[p]
            /\ pc'[q].at = "kill_sent" /\ pc'[q].arg = q
        BY <1>1, <1>3, <1>8, NullProc DEF At
      <3>2. \A p \in User : sys'.prstate[p] = "FREE" <=> sys.prstate[p] = "FREE"
        BY <1>8, NullProc DEF Runnable
      <3> QED
        BY <3>1, <3>2 DEF Using, Live
    <2>2. PICK O : O = {r \in Refs(vm) : vm.fm.pid[r.pt] # q}
      OBVIOUS
    <2>3. Refs(vm)' = O
      <3>1. \A p \in User : Using(p) /\ HasTable(vm, p) => vm.fm.pid[vm.dmem[prpd[p]].heap] = p
        <4> SUFFICES ASSUME NEW p \in User, Using(p), HasTable(vm, p)
                     PROVE  vm.fm.pid[vm.dmem[prpd[p]].heap] = p
          OBVIOUS
        <4>1. vm.dmem[prpd[p]].heap # None /\ prpd[p] \in DFrame
          BY FrameFacts DEF HasTable, None
        <4> QED
          BY <1>1, <4>1 DEF RegionD, Dirs, Holds
      <3>2. ASSUME NEW t \in DFrame
            PROVE  t \in Tables(vm)' <=> t \in Tables(vm) /\ vm.fm.pid[t] # q
        BY <1>4, <2>1, <3>1 DEF Tables, HasTable
      <3>3. Tables(vm)' = {t \in Tables(vm) : vm.fm.pid[t] # q}
        BY <3>2 DEF Tables
      <3>4. \A r \in [pt : Tables(vm), page : Page] :
              r \in [pt : {t \in Tables(vm) : vm.fm.pid[t] # q}, page : Page]
                <=> vm.fm.pid[r.pt] # q
        OBVIOUS
      <3> QED
        BY <2>2, <3>3, <3>4 DEF Refs
    <2>4. Linked(vm, Refs(vm))'
      <3>1. PICK v : v = vm
        OBVIOUS
      <3>2. PICK w : w = vm'
        OBVIOUS
      <3>3. PICK L : L = Refs(vm)
        OBVIOUS
      <3>4. /\ VmOK(v) /\ L \in SUBSET AllRefs /\ Linked(v, L) /\ AllFreed(v.fm, w.fm, q)
            /\ w.dmem = v.dmem /\ w.mem = v.mem /\ O = {r \in L : v.fm.pid[r.pt] # q}
        BY <1>1, <1>2, <1>4, <1>5, <1>8, <2>2, <3>1, <3>2, <3>3, RefsFacts DEF Pages
      <3>5. Linked(w, O)
        BY SMTT(30), <3>4, AllFreedLinked
      <3> QED
        BY <2>3, <3>2, <3>5
    <2>5. Intact(vm, expect)'
      <3> SUFFICES ASSUME NEW p \in User, NEW g \in Page, Using(p)', expect'[p][g] # None
                   PROVE  /\ HasTable(vm, p)' /\ Filled(vm', RefOf(vm, p, g)')
                          /\ vm'.mem[Ent(vm', RefOf(vm, p, g)').base] = <<p, g, expect'[p][g]>>
        BY Zenon DEF Intact, Filled, Ent
      <3>1. Using(p) /\ expect'[p][g] = expect[p][g]
        BY <1>4, <2>1
      <3>2. /\ HasTable(vm, p) /\ Filled(vm, RefOf(vm, p, g))
            /\ vm.mem[Ent(vm, RefOf(vm, p, g)).base] = <<p, g, expect[p][g]>>
        BY <1>2, <1>4, <3>1, Zenon DEF Pages, Intact
      <3>3. HasTable(vm, p)' /\ RefOf(vm, p, g)' = RefOf(vm, p, g)
        BY <1>4, <3>2, Zenon DEF HasTable, RefOf, PteRefOf
      <3> QED
        BY <1>4, <1>5, <3>1, <3>2, <3>3, Zenon DEF Filled, Ent
    <2>6. Blocked(vm, pc)'
      BY <1>2, <1>4, <2>1 DEF Pages, Blocked, HasTable, RefOf, PteRefOf, Filled, Ent
    <2> QED
      BY <1>6, <1>8, <2>4, <2>5, <2>6 DEF DInv, Pages
  <1> QED
    BY <1>4, <1>7, <1>8

\* pgfhandler.c:57-63, the caller is killed: the others keep their pages.
LEMMA SegFaultData ==
  ASSUME DInv, NEW g \in Page, SegFault(g)
  PROVE  DInv'
  <1>1. OInv /\ PInv /\ Program /\ KillBegin(me)
    BY DEF DInv, OInv, SegFault, Faults
  <1>2. Runs /\ me \in User /\ pc[me].at = "user" /\ OInv'
    BY <1>1, ProgramFacts, SegFaultO
  <1> QED
    BY <1>1, <1>2, KillBeginData

\* kill.c:9-36 called by exit: the others keep their pages.
LEMMA KillData ==
  ASSUME DInv, SelfKills, NEW pid \in User, Kill(pid)
  PROVE  DInv'
  <1>1. OInv /\ KillBegin(pid) /\ (Calling("kill") \/ (Calling("exit") /\ pid = me))
    BY DEF DInv, Kill
  <1>2. Runs /\ pc[me].at = "user" /\ OInv'
    BY <1>1, KillO DEF Calling
  <1>3. ~ Calling("kill")
    BY <1>1, <1>2, RunsFacts DEF OInv, SelfKills, Calling
  <1>4. pid = me
    BY <1>1, <1>3
  <1> QED
    BY <1>1, <1>2, <1>4, KillBeginData

\* kill.c:44-69: who ends uses its heap no more, and its translations go with
\* the switch to the next process.
LEMMA KillFinishData ==
  ASSUME DInv, KillFinish
  PROVE  DInv'
  <1>1. OInv /\ PInv /\ OInv' /\ SameUsers
    BY KillFinishO DEF DInv, OInv
  <1>2. /\ Runs /\ me \in User /\ pc[me].at = "kill_woken" /\ Running(sys')
        /\ sys'.prstate[pc[me].arg] = "FREE"
    BY <1>1, KillFinishFacts
  <1>3. pc[me].arg = me /\ me \in Pid /\ vm.status = "up"
    BY <1>1, <1>2, NullProc DEF OInv, Selves, Runs
  <1>4. /\ vm' = vm /\ prpd' = [prpd EXCEPT ![me] = SYSERR]
        /\ pc' = [pc EXCEPT ![me] = InUser]
        /\ expect' = [expect EXCEPT ![me] = [g \in Page |-> None]]
        /\ tlb' = IF sys'.currpid = sys.currpid THEN tlb ELSE NoTlb
    BY <1>3 DEF KillFinish, Switch
  <1>5. sys'.currpid # sys.currpid
    BY <1>2, <1>3 DEF Running, me
  <1>6. Translates(vm, tlb)'
    <2>1. \A g \in Page : tlb'[g] = None
      BY <1>4, <1>5 DEF NoTlb
    <2> QED
      BY <2>1 DEF Translates
  <1>14. PICK q : q = me
    OBVIOUS
  <1>7. ~ Using(q) /\ ~ (Using(q)') /\ \A p \in User : Using(p)' <=> Using(p)
    <2>1. ~ Using(q)
      BY <1>2, <1>3, <1>14 DEF Using
    <2>2. \A p \in User : Using(p)' <=> Using(p)
      BY <1>1, NullProc DEF SameUsers
    <2> QED
      BY <1>2, <1>14, <2>1, <2>2
  <1>8. /\ \A p \in User \ {q} : prpd'[p] = prpd[p] /\ pc'[p] = pc[p] /\ expect'[p] = expect[p]
    BY <1>1, <1>4, <1>14, NullProc DEF PInv, ProcType, FlowType
  <1>9. Pages(vm, expect, pc)
    BY <1>3 DEF DInv
  <1>10. Refs(vm)' = Refs(vm)
    <2>1. \A t \in DFrame : t \in Tables(vm)' <=> t \in Tables(vm)
      BY <1>4, <1>7, <1>8 DEF Tables
    <2>2. Tables(vm)' = Tables(vm)
      BY <2>1 DEF Tables
    <2> QED
      BY <2>2 DEF Refs
  <1>11. Linked(vm, Refs(vm))'
    BY <1>4, <1>9, <1>10 DEF Pages
  <1>12. Intact(vm, expect)'
    <2> SUFFICES ASSUME NEW p \in User, NEW g \in Page, Using(p)', expect'[p][g] # None
                 PROVE  /\ HasTable(vm, p)' /\ Filled(vm', RefOf(vm, p, g)')
                        /\ vm'.mem[Ent(vm', RefOf(vm, p, g)').base] = <<p, g, expect'[p][g]>>
      BY Zenon DEF Intact, Filled, Ent
    <2>1. Using(p) /\ expect'[p][g] = expect[p][g] /\ prpd'[p] = prpd[p]
      BY <1>7, <1>8
    <2>2. /\ HasTable(vm, p) /\ Filled(vm, RefOf(vm, p, g))
          /\ vm.mem[Ent(vm, RefOf(vm, p, g)).base] = <<p, g, expect[p][g]>>
      BY <1>9, <2>1, Zenon DEF Pages, Intact
    <2>3. HasTable(vm, p)' /\ RefOf(vm, p, g)' = RefOf(vm, p, g)
      BY <1>4, <2>1, <2>2, Zenon DEF HasTable, RefOf, PteRefOf
    <2> QED
      BY Zenon, <1>4, <2>1, <2>2, <2>3
  <1>13. Blocked(vm, pc)'
    BY <1>4, <1>7, <1>8, <1>9 DEF Pages, Blocked, HasTable, RefOf, PteRefOf, Filled, Ent
  <1> QED
    BY <1>1, <1>3, <1>4, <1>6, <1>11, <1>12, <1>13 DEF DInv, Pages
-----------------------------------------------------------------------------
(* The theorems about what pages hold.                                      *)

\* init_paging establishes the invariant.
LEMMA InitDInv == Init => DInv
  <1> SUFFICES ASSUME Init PROVE DInv
    OBVIOUS
  <1>1. OInv /\ Booted(vm)
    BY InitOInv, InitBooted
  <1>2. \A p \in User : ~ Using(p)
    BY NullProc DEF Init, Using, Live
  <1>3. \A g \in Page : tlb[g] = None
    BY DEF Init, NoTlb
  <1>4. Refs(vm) = {}
    BY <1>2 DEF Refs, Tables
  <1>5. \A f \in EFrame : vm.fm.state[f] = "FREE"
    BY <1>1 DEF Booted
  <1>6. Linked(vm, Refs(vm))
    BY <1>4, <1>5 DEF Linked, Down, Apart, Up
  <1> QED
    BY <1>1, <1>2, <1>3, <1>6 DEF DInv, Pages, Intact, Blocked, Translates, Booted

\* Every step keeps it if processes end by themselves and neither defect strikes.
LEMMA NextDInv ==
  ASSUME SelfKills
  PROVE  DInv /\ [Next]_vars /\ [Careful]_vars => DInv'
  <1> SUFFICES ASSUME DInv, [Next]_vars, [Careful]_vars
               PROVE  DInv'
    OBVIOUS
  <1>1. CASE UNCHANGED vars
    <2>1. OInv'
      BY <1>1, NextOInv DEF DInv
    <2>2. UNCHANGED <<vm, sys, pc, prpd, tlb, expect>>
      BY <1>1 DEF vars
    <2>3. SameUsers
      BY <2>2 DEF SameUsers, Using, Live
    <2>4. PICK v : v = vm
      OBVIOUS
    <2>5. v = vm' /\ v.status # "wild" /\ (v.status = "up" => Pages(v, expect', pc'))
      BY <2>2, <2>4, Zenon DEF DInv
    <2>6. Translates(vm, tlb)'
      BY <2>2 DEF DInv, Translates, HasTable, RefOf, PteRefOf, Ent, me
    <2> QED
      BY <2>1, <2>2, <2>3, <2>5, <2>6, QuietData
  <1>2. CASE Next /\ Careful
    <2>1. ASSUME NEW g \in Page, \/ \E x \in Val : Write(g, x)
                                 \/ GetPage(g) \/ FreePage(g)
                                 \/ FaultIgnored(g) \/ SegFault(g)
                                 \/ FaultServed(g) \/ FaultBlocks(g)
          PROVE  DInv'
      BY <1>2, <2>1, WriteData, GetPageData, FreePageData, SegFaultData, FaultServedData,
         FaultBlocksData
    <2>2. ASSUME NEW pid \in User, Kill(pid) \/ Create(pid) \/ Resume(pid)
          PROVE  DInv'
      BY <2>2, KillData, CreateData, ResumeData
    <2>3. ASSUME KillWake \/ KillFinish \/ FaultResumes \/ ReceiveWaits \/ ReceiveTakes \/ ClockTick
          PROVE  DInv'
      BY <1>2, <2>3, KillWakeData, KillFinishData, FaultResumesData, ReceiveWaitsData,
         ReceiveTakesData, ClockTickData, SMTT(30)
    <2> QED
      BY <1>2, <2>1, <2>2, <2>3 DEF Next
  <1>3. CASE Next /\ ~ Careful
    BY <1>1, <1>3
  <1> QED
    BY <1>1, <1>2, <1>3

\* It holds if processes end by themselves and neither defect strikes.
LEMMA SpecDInv ==
  ASSUME SelfKills
  PROVE  Spec /\ [][Careful]_vars => []DInv
  <1>1. DInv /\ [Next]_vars /\ [Careful]_vars => DInv'
    BY NextDInv
  <1> QED
    BY <1>1, InitDInv, PTL DEF Spec

\* What the invariant says of what programs read.
LEMMA DInvIntegrity == DInv => DataIntegrity
  <1> SUFFICES ASSUME DInv, vm.status = "up", NEW p \in User, NEW g \in Page,
                      Using(p), expect[p][g] # None
               PROVE  /\ HasHeap(p) /\ PteOf(p, g).st # "absent"
                      /\ vm.mem[PteOf(p, g).base] = <<p, g, expect[p][g]>>
    BY DEF DataIntegrity
  <1>1. VmOK(vm) /\ RegionD(vm)
    BY DEF DInv, OInv, PInv
  <1>2. /\ HasTable(vm, p) /\ Filled(vm, RefOf(vm, p, g))
        /\ vm.mem[Ent(vm, RefOf(vm, p, g)).base] = <<p, g, expect[p][g]>>
    BY DEF DInv, Pages, Intact
  <1>3. vm.dmem[vm.dmem[prpd[p]].heap].kind = "pt"
    BY <1>1, <1>2, RefsFacts
  <1>4. PteOf(p, g) = Ent(vm, RefOf(vm, p, g))
    BY DEF PteOf, getpte, Ent, RefOf, PteRefOf
  <1>5. None \notin DFrame
    BY FrameFacts DEF None
  <1> QED
    BY <1>2, <1>3, <1>4, <1>5 DEF HasHeap, Mapped, HasTable, Filled

\* What the invariant says of the two tables and of the translations.
LEMMA DInvTables == DInv => TablesAgree /\ TlbCoherent
  <1> SUFFICES ASSUME DInv PROVE TablesAgree /\ TlbCoherent
    OBVIOUS
  <1>1. VmOK(vm) /\ RegionD(vm)
    BY Zenon DEF DInv, OInv, PInv
  <1>2. TablesAgree
    <2> SUFFICES ASSUME vm.status = "up", NEW f \in EFrame, vm.fm.state[f] = "USED"
                 PROVE  /\ vm.fm.pte[f] # FR_PTEUNUSED /\ Live(vm.fm.pid[f])
                        /\ vm.dmem[prpd[vm.fm.pid[f]]].heap = vm.fm.pte[f].pt
                        /\ vm.dmem[vm.fm.pte[f].pt].pte[vm.fm.pte[f].page] =
                             [st |-> IF f \in RegionFrames("E1") THEN "present" ELSE "swapped",
                              base |-> f]
      BY Zenon DEF TablesAgree
    <2>1. PICK r : r = vm.fm.pte[f]
      OBVIOUS
    <2>2. /\ r \in Refs(vm) /\ vm.fm.pid[f] = vm.fm.pid[r.pt]
          /\ Ent(vm, r) = [st |-> IF f \in RegionFrames("E1") THEN "present" ELSE "swapped",
                           base |-> f]
      BY <2>1 DEF DInv, Pages, Linked, Up
    <2>3. Refs(vm) \in SUBSET AllRefs
          /\ Using(vm.fm.pid[r.pt]) /\ r = RefOf(vm, vm.fm.pid[r.pt], r.page)
      BY <1>1, <2>2, RefsFacts
    <2>4. r # FR_PTEUNUSED
      BY <2>2, <2>3, PagingAssumption DEF AllRefs, DFrame
    <2>5. r.pt = vm.dmem[prpd[vm.fm.pid[r.pt]]].heap
      BY <2>3 DEF RefOf, PteRefOf
    <2> QED
      BY <2>1, <2>2, <2>3, <2>4, <2>5, Zenon DEF Ent, Using
  <1>3. TlbCoherent
    BY DEF DInv, Translates, TlbCoherent, PteOf, getpte, Ent, RefOf, PteRefOf
  <1> QED
    BY <1>2, <1>3

\* Every page holds what its program last wrote there, however often it went to
\* E2 and came back (pgfutil.c:58-201, pgfhandler.c:81-115), if processes end by
\* themselves and neither of the two defects in Careful strikes.
THEOREM PagingDataIntegrity == SelfKills => (Spec /\ [][Careful]_vars => []DataIntegrity)
  <1> SUFFICES ASSUME SelfKills PROVE Spec /\ [][Careful]_vars => []DataIntegrity
    OBVIOUS
  <1>1. Spec /\ [][Careful]_vars => []DInv
    BY SpecDInv
  <1> QED
    BY <1>1, DInvIntegrity, PTL

\* Page tables, inverted page table and TLB agree, and no link, no datum and no
\* translation outlives its page, whatever exits, is freed and is created anew
\* (pgfutil.c:17-201, vmhfreemem.c:31-61, kill.c:28-34), if processes end by
\* themselves and neither of the two defects in Careful strikes.
THEOREM PagingNothingStale == SelfKills => (Spec /\ [][Careful]_vars => []NothingStale)
  <1> SUFFICES ASSUME SelfKills PROVE Spec /\ [][Careful]_vars => []NothingStale
    OBVIOUS
  <1>1. Spec /\ [][Careful]_vars => []DInv
    BY SpecDInv
  <1>2. DInv => NothingStale
    BY DInvIntegrity, DInvTables DEF NothingStale
  <1> QED
    BY <1>1, <1>2, PTL
=============================================================================
