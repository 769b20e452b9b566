---- MODULE Memory ----
(***************************************************************************)
(* Kernel memory (system/getmem.c, getstk.c, freemem.c) and the buffer     *)
(* pools cut from it (mkbufpool.c, getbuf.c, freebuf.c).  Addresses and    *)
(* lengths are in units of 8 bytes, to which requests are rounded; a       *)
(* buffer is one unit.  Only getbuf waits, with interrupts disabled.       *)
(***************************************************************************)
EXTENDS Integers, Sequences, SequencesExt, FiniteSetsExt
CONSTANTS Procs,
          HEAP,         \* units between minheap and maxheap
          NBPOOLS,
          NSEM          \* semaphores left for pools
VARIABLES memlist,      \* the free blocks, in the order of the list
          memlength,    \* memlist.mlength
          buftab,       \* pools: count of bpsem, who waits, free buffers in order; and all its buffers
          bufs,         \* the buffers that each process holds
          getting,      \* the pool that each process waits for or was woken for, or -1
          answer        \* the last request and the units it handed over, none if it failed
memvars == <<memlist, memlength, buftab, bufs, getting, answer>>

\* What the constants have to be.
ASSUME MemoryAssumption == HEAP \in Nat \ {0} /\ NBPOOLS \in Nat /\ NSEM \in Nat /\ IsFiniteSet(Procs)
Units == 0 .. HEAP - 1
Extent(b, n) == b .. b + n - 1
Blk(b, n) == [base |-> b, len |-> n]

meminit == /\ memlist = <<Blk(0, HEAP)>>
           /\ memlength = HEAP
           /\ buftab = <<>>
           /\ bufs = [p \in Procs |-> {}]
           /\ getting = [p \in Procs |-> -1]
           /\ answer = << <<>>, {} >>

(***************************************************************************)
(* getmem takes the low end of the first block that fits, getstk the high  *)
(* end of the last.                                                        *)
(***************************************************************************)
FitsMem(n) == {i \in DOMAIN memlist : memlist[i].len >= n}
Answers(request, units) == answer' = <<request, units>>
Fail(request) == Answers(request, {}) /\ UNCHANGED <<memlist, memlength>>
Without(i) == RemoveAt(memlist, i)

getmem(n) == IF n = 0 \/ FitsMem(n) = {} THEN Fail(<<n>>)
             ELSE LET i == Min(FitsMem(n))
                      b == memlist[i]
                  IN /\ memlist' = IF b.len = n THEN Without(i)
                                   ELSE [memlist EXCEPT ![i] = Blk(b.base + n, b.len - n)]
                     /\ memlength' = memlength - n
                     /\ Answers(<<n>>, Extent(b.base, n))

getstk(n) == IF n = 0 \/ FitsMem(n) = {} THEN Fail(<<n>>)
             ELSE LET i == Max(FitsMem(n))
                      b == memlist[i]
                  IN /\ memlist' = IF b.len = n THEN Without(i) ELSE [memlist EXCEPT ![i].len = @ - n]
                     /\ memlength' = memlength - n
                     /\ Answers(<<n>>, Extent(b.base + b.len - n, n))

\* freemem.  k blocks of the list start before the block that is freed.
Before(b) == Cardinality({i \in DOMAIN memlist : memlist[i].base < b})
Touches_PrevOnly(b, n, k) == k > 0 /\ b < memlist[k].base + memlist[k].len
Touches(b, n, k) == \/ k > 0 /\ b < memlist[k].base + memlist[k].len
                    \/ k < Len(memlist) /\ b + n > memlist[k + 1].base
Join(list, i) == IF i < Len(list) /\ list[i].base + list[i].len = list[i + 1].base
                 THEN RemoveAt([list EXCEPT ![i].len = @ + list[i + 1].len], i + 1) ELSE list
freemem(b, n) ==
    LET k == Before(b) IN
    IF n = 0 \/ Touches(b, n, k) THEN Fail(<<b, n>>)
    ELSE /\ memlength' = memlength + n
         /\ memlist' = IF k > 0 /\ memlist[k].base + memlist[k].len = b
                       THEN Join([memlist EXCEPT ![k].len = @ + n], k)
                       ELSE Join(InsertAt(memlist, k + 1, Blk(b, n)), k + 1)
         /\ Answers(<<b, n>>, Extent(b, n))

(***************************************************************************)
(* Buffer pools.  mkbufpool keeps the memory when semcreate fails.         *)
(***************************************************************************)
mkbufpool(n) ==
    /\ Len(buftab) < NBPOOLS /\ n > 0
    /\ getmem(n)
    /\ buftab' = IF answer'[2] = {} \/ Len(buftab) = NSEM THEN buftab
                 ELSE Append(buftab, [count |-> n, queue |-> <<>>, all |-> answer'[2],
                                      free |-> [k \in 1 .. n |-> Min(answer'[2]) + k - 1]])
    /\ UNCHANGED <<bufs, getting>>

Asleep(p) == \E i \in DOMAIN buftab : p \in ToSet(buftab[i].queue)
Unlinked_Not(list) == list
Unlinked(list) == Tail(list)
getbuf(p, i) == /\ getting[p] = -1
                /\ buftab' = [buftab EXCEPT ![i].count = @ - 1,
                                            ![i].queue = IF buftab[i].count > 0 THEN @ ELSE Append(@, p)]
                /\ getting' = [getting EXCEPT ![p] = i]
                /\ UNCHANGED <<memlist, memlength, bufs, answer>>
Unlinks(p) == /\ getting[p] # -1 /\ ~Asleep(p)
              /\ LET i == getting[p] IN
                 /\ bufs' = [bufs EXCEPT ![p] = @ \cup {Head(buftab[i].free)}]
                 /\ buftab' = [buftab EXCEPT ![i].free = Unlinked(@)]
              /\ getting' = [getting EXCEPT ![p] = -1]
              /\ UNCHANGED <<memlist, memlength, answer>>
freebuf(p, b, i) == /\ getting[p] = -1
                    /\ buftab' = [buftab EXCEPT ![i].free = <<b>> \o @, ![i].count = @ + 1,
                                                 ![i].queue = IF buftab[i].count < 0 THEN Tail(@) ELSE @]
                    /\ bufs' = [bufs EXCEPT ![p] = @ \ {b}]
                    /\ UNCHANGED <<memlist, memlength, getting, answer>>

PoolMemory == UNION {buftab[i].all : i \in DOMAIN buftab}
\* Whoever frees memory does not free the buffers of a pool.
FreesMemory(b, n) == Extent(b, n) \subseteq Units \ PoolMemory /\ freemem(b, n)

MemNext == \/ \E n \in 0 .. HEAP : (getmem(n) \/ getstk(n)) /\ UNCHANGED <<buftab, bufs, getting>>
           \/ \E b \in Units, n \in 0 .. HEAP : FreesMemory(b, n) /\ UNCHANGED <<buftab, bufs, getting>>
           \/ \E n \in 1 .. HEAP : mkbufpool(n)
           \/ \E p \in Procs : \/ Unlinks(p)
                               \/ \E i \in DOMAIN buftab : \/ getbuf(p, i)
                                                           \/ \E b \in bufs[p] \cap buftab[i].all : freebuf(p, b, i)
MemSpec == meminit /\ [][MemNext]_memvars

(***************************************************************************)
(* Properties.                                                             *)
(***************************************************************************)
FreeUnits == UNION {Extent(memlist[i].base, memlist[i].len) : i \in DOMAIN memlist}

\* Blocks, stacks and pools come from one heap that keeps the promises of
\* HeapSpec: nothing is handed out twice, a request fails only when no run of
\* free units is long enough, and what comes back is joined again.
inuse == Units \ FreeUnits
Heap == INSTANCE HeapSpec WITH MAXHSIZE <- HEAP, owned <- inuse, reply <- answer
ImplementsMemory == Heap!Spec

\* Each buffer of a pool is in its list once or with one process, no block of
\* free memory covers it, and the count of bpsem is right: who is woken in
\* getbuf finds a buffer, whoever calls getbuf and freebuf before it runs.
PoolsSound == \A i \in DOMAIN buftab :
    LET e == buftab[i] IN
    /\ Cardinality(ToSet(e.free)) = Len(e.free)
    /\ e.all \cap FreeUnits = {}
    /\ \A b \in e.all : Cardinality({p \in Procs : b \in bufs[p]}) = IF b \in ToSet(e.free) THEN 0 ELSE 1
    /\ e.count = Len(e.free) - Cardinality({p \in Procs : getting[p] = i})
====
