-------------------------------- MODULE VHeap --------------------------------
(***************************************************************************)
(* The virtual heap of one process: vmhinit, vmhgetmem and vmhfreemem.  The *)
(* free list is kept in the first words of its own blocks, pages that are   *)
(* subject to demand paging, so the page of a node has to stay marked in    *)
(* pralloc.  Addresses are pages counted from MINVHEAP.                     *)
(*                                                                         *)
(* The functions run with interrupts disabled and touch the heap of the     *)
(* process that calls them only, so a call is one step even when it blocks  *)
(* for a frame on its way.  What it does to the page tables is in Paging.   *)
(***************************************************************************)
EXTENDS Integers, SequencesExt

CONSTANTS
  MAXHSIZE,   \* pages of a heap
  Beyond      \* is the byte after pralloc, prstate of the next entry, nonzero?

\* What the constants have to be.
ASSUME HeapAssumption == MAXHSIZE \in Nat \ {0} /\ Beyond \in BOOLEAN

VARIABLES
  prmeminit,
  mlength,    \* prmemblk.mlength, in pages
  freelist,   \* the blocks from prmemblk.mnext on: start and length
  pralloc,    \* pages whose mark is set
  reply       \* the last request, <<m>> or <<b, m>>, and the pages that it
              \* handed over, none if it failed

vhvars == <<prmeminit, mlength, freelist, pralloc, reply>>

Page == 0 .. MAXHSIZE - 1
Run(b, m) == b .. b + m - 1
Block(b, m) == [base |-> b, len |-> m]

\* create
VhInit ==
  /\ prmeminit = FALSE
  /\ mlength = 0
  /\ freelist = << >>
  /\ pralloc = {}
  /\ reply = << << >>, {} >>

\* vmhinit: the state from which vmhgetmem and vmhfreemem go on.
FreeList == IF prmeminit THEN freelist ELSE <<Block(0, MAXHSIZE)>>
Length == IF prmeminit THEN mlength ELSE MAXHSIZE
Marks == IF prmeminit THEN pralloc ELSE pralloc \cup {0}

\* vmhinit alone, for the calls that fail.
Fails(request) ==
  /\ prmeminit' = TRUE
  /\ freelist' = FreeList /\ mlength' = Length /\ pralloc' = Marks
  /\ reply' = <<request, {}>>

-----------------------------------------------------------------------------
(* vmhgetmem                                                                *)

\* Mutant: a block has to be larger than the request.
Fits_Strictly(m) == {i \in 1 .. Len(FreeList) : FreeList[i].len > m}

\* The blocks that are large enough, of which the first is taken.
Fits(m) == {i \in 1 .. Len(FreeList) : FreeList[i].len >= m}

First(S) == CHOOSE i \in S : \A j \in S : i <= j

\* Mutant: the rest of a split block is not marked.
LeftoverMark_None(block, m) == {}

\* The mark of the page where the node of the rest of a split block lies.
LeftoverMark(block, m) == IF block.len > m THEN {block.base + m} ELSE {}

vmhgetmem(m) ==
  IF m = 0 \/ Length = 0 \/ Fits(m) = {} THEN Fails(<<m>>)
  ELSE LET i == First(Fits(m))
           b == FreeList[i]
       IN /\ prmeminit' = TRUE
          /\ freelist' = IF b.len = m THEN RemoveAt(FreeList, i)
                         ELSE [FreeList EXCEPT ![i] = Block(b.base + m, b.len - m)]
          /\ mlength' = Length - m
          /\ pralloc' = Marks \cup Run(b.base, m) \cup LeftoverMark(b, m)
          /\ reply' = << <<m>>, Run(b.base, m) >>

-----------------------------------------------------------------------------
(* vmhfreemem                                                               *)

Marked(p) == IF p \in Page THEN p \in Marks ELSE Beyond

\* The new block overlaps the k-th block, the last that starts before it, or
\* the one after.
Overlaps(b, m, k) ==
  \/ k > 0 /\ b < FreeList[k].base + FreeList[k].len
  \/ k < Len(FreeList) /\ b + m > FreeList[k + 1].base

\* Coalesce the i-th block with the next if adjacent.  The mark of the page
\* where the node of the next block lay is not cleared.
JoinNext(list, i) ==
  IF i < Len(list) /\ list[i].base + list[i].len = list[i + 1].base
  THEN RemoveAt([list EXCEPT ![i].len = @ + list[i + 1].len], i + 1)
  ELSE list

\* __set_pages_deallocated, with skipfirst for a new node.
Unmarked(b, m, joined) == IF joined THEN Run(b, m) ELSE Run(b, m) \ {b}

vmhfreemem(b, m) ==
  LET k      == Cardinality({i \in 1 .. Len(FreeList) : FreeList[i].base < b})
      joined == k > 0 /\ FreeList[k].base + FreeList[k].len = b
  IN
  IF m = 0 \/ (\E p \in Run(b, m) : ~ Marked(p)) \/ Overlaps(b, m, k) THEN Fails(<<b, m>>)
  ELSE /\ prmeminit' = TRUE
       /\ mlength' = Length + m
       /\ pralloc' = Marks \ Unmarked(b, m, joined)
       /\ freelist' = IF joined
                      THEN JoinNext([FreeList EXCEPT ![k].len = @ + m], k)
                      ELSE JoinNext(InsertAt(FreeList, k + 1, Block(b, m)), k + 1)
       /\ reply' = << <<b, m>>, Run(b, m) >>

\* Pages up to MAXVHEAP, which vmhfreemem's check of the address lets through.
VhNext == \E m \in 0 .. MAXHSIZE :
  \/ vmhgetmem(m)
  \/ \E b \in 0 .. MAXHSIZE : vmhfreemem(b, m)

VhSpec == VhInit /\ [][VhNext]_vhvars

-----------------------------------------------------------------------------
PagesOf(block) == Run(block.base, block.len)
FreePages == UNION {PagesOf(FreeList[i]) : i \in 1 .. Len(FreeList)}

\* The list is ordered, its blocks are not empty, lie within the heap and do
\* not even touch each other, so it cannot hold a run of pages in two pieces;
\* and prmemblk.mlength is the sum of their lengths.
FreeListSound ==
  /\ \A i \in 1 .. Len(freelist) :
       freelist[i] \in [base : Page, len : 1 .. MAXHSIZE] /\ PagesOf(freelist[i]) \subseteq Page
  /\ \A i, j \in 1 .. Len(freelist) :
       i < j => freelist[i].base + freelist[i].len < freelist[j].base
  /\ prmeminit => mlength = Cardinality(FreePages)

\* Following the free list, or using a page that vmhgetmem returned, never
\* runs into a page without a mark, at which pgfhandler would kill the process
\* (pgfhandler.c:57-63).
NoSegFault ==
  prmeminit =>
    /\ \A i \in 1 .. Len(freelist) : freelist[i].base \in pralloc
    /\ Page \ FreePages \subseteq pralloc

\* The heap can be used: its list is whole, and can be followed.
HeapSound == FreeListSound /\ NoSegFault

owned == Page \ FreePages
Allocator == INSTANCE HeapSpec

\* The heap keeps the promises of HeapSpec, with the pages that are on no free
\* block as those the process holds: it hands out the pages it says, fails
\* only for want of a large enough run, and takes back exactly what is held,
\* even though marks of pages that were nodes stay behind.
ImplementsHeap == Allocator!Spec
=============================================================================
