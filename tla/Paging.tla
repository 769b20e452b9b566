------------------------------- MODULE Paging -------------------------------
(***************************************************************************)
(* Demand paging of the virtual heap: page directories and page tables in  *)
(* region D, the page fault handler with its eviction and swapping, the     *)
(* queue of processes blocked for a frame, and the parts of process         *)
(* management that create, kill and switch the processes that use them.     *)
(*                                                                         *)
(* Interrupts are disabled in every handler, so a handler is one action up  *)
(* to the points where it may switch to another process: resched in         *)
(* frameblock, in the send and the framewakeup of kill, at the end of       *)
(* vmhfreemem and in receive.  pc[p] says where p goes on from.             *)
(*                                                                         *)
(* A heap is small enough for one page directory entry (index 4 of the      *)
(* directory), so a process has at most one page table of its own.          *)
(***************************************************************************)
EXTENDS Frames

CONSTANTS
  Page,        \* the pages of a virtual heap
  Prio,        \* prprio of every process
  NIdentity,   \* shared page tables that init_paging builds (5)
  Calls,       \* the workload: which process makes which system calls
  TlbCaches,   \* does the processor keep the translations it has used?
  ErrBits,     \* what pgfhandler may find in the bit pgferr.pgf_pres
  Val,         \* what programs write into a page
  MaxRef,      \* bound on fr_refcnt
  MaxCreate    \* bound on the number of processes created

ASSUME PagingAssumption ==
  /\ IsFiniteSet(Pid) /\ Prio \in [Pid -> Nat]
  /\ \A p \in Pid \ {NULLPROC} : Prio[p] > Prio[NULLPROC]
  /\ NIdentity \in Nat /\ NIdentity < NFRAMES_D
  /\ FRAME0_E2 <= NFRAMES
  /\ \A call \in Calls : call[1] = NULLPROC => call[2] \in {"create", "clock"}
  /\ TlbCaches \in BOOLEAN /\ ErrBits \subseteq {0, 1} /\ MaxRef \in Nat /\ MaxCreate \in Nat
  /\ Page \subseteq Nat \ {0} /\ IsFiniteSet(Page) /\ Val \subseteq Nat \ {0}
  /\ PteRef = [pt : RegionFrames("D"), page : Page] \cup {FR_PTEUNUSED}
  /\ FR_PTEUNUSED \notin [pt : RegionFrames("D"), page : Page]

DFrame == RegionFrames("D")
EFrame == RegionFrames("E1") \cup RegionFrames("E2")
User == Pid \ {NULLPROC}

None == 0       \* no frame, no page, no value: none of them is 0

VARIABLES
  vm,         \* fm: the frame table; dmem, mem: what is in the frames; status
  sys,        \* prstate, readylist, currpid of the scheduler, and fbqueue
  pc,         \* where each process goes on from
  prpd,       \* prpd of each process
  pralloc,    \* pages for which pralloc is set
  pgfaddr,    \* the global that pgfdisp sets: page of the last fault
  tlb,        \* translations the processor holds since CR3 was last loaded
  prcount, prparent, prhasmsg,
  ncreate,    \* processes created so far, for the bound only
  expect      \* history: the value each program last wrote into each page

vars == <<vm, sys, pc, prpd, pralloc, pgfaddr, tlb, prcount, prparent,
          prhasmsg, ncreate, expect>>

proc == <<prpd, pralloc, prcount, prparent, prhasmsg, ncreate, expect>>

-----------------------------------------------------------------------------
(* Page tables.  A frame of region D holds a directory (of which the heap's  *)
(* entry is kept: the page table it points to, or None) or a page table.     *)

Pte == [st : {"absent", "present", "swapped"}, base : EFrame \cup {None}]

NoPte == [st |-> "absent", base |-> None]

DContent(kind) == [kind |-> kind, heap |-> None, pte |-> [g \in Page |-> NoPte]]

\* newpd and newpt: the frame (or SYSERR), and the memory after the call.
NewDFrame(v) == LET f == FreeFrame(v.fm, "D") IN
  IF f # SYSERR /\ CanTake(v.fm, f) THEN f ELSE SYSERR

NewD(v, pid, kind) ==
  LET f == FreeFrame(v.fm, "D") IN
  IF NewDFrame(v) = SYSERR
  THEN [v EXCEPT !.fm = PopFree(@, "D")]
  ELSE [v EXCEPT !.fm = invtakeframe(PopFree(@, "D"), f, pid, FR_PTEUNUSED),
                 !.dmem[f] = DContent(kind)]

newpd(v, pid) == NewD(v, pid, "pd")
newpt(v, pid) == NewD(v, pid, "pt")

\* getpte on the heap page g of the process whose directory is in d.
PteRefOf(v, d, g) == [pt |-> v.dmem[d].heap, page |-> g]
getpte(v, d, g) == v.dmem[v.dmem[d].heap].pte[g]

\* The directory in d leads to a page table.
Mapped(v, d) ==
  v.dmem[d].heap # None /\ v.dmem[v.dmem[d].heap].kind = "pt"

\* A store through a reference that outlived its page table, into what is a
\* directory by now, breaks the address space of some process.
SetPte(v, ref, st, base) ==
  IF v.dmem[ref.pt].kind = "pt"
  THEN [v EXCEPT !.dmem[ref.pt].pte[ref.page] = [st |-> st, base |-> base]]
  ELSE [v EXCEPT !.status = "wild"]

\* Mutant: the two addresses of the copying loop change places.
CopyFrame_Swapped(v, src, dest) == [v EXCEPT !.mem[src] = v.mem[dest]]

\* The loop that copies a frame byte by byte.
CopyFrame(v, src, dest) == [v EXCEPT !.mem[dest] = v.mem[src]]

\* Step 5 of evictframe: the victim's entry names its frame of E2.
MarkSwapped(v, ref, dest) ==
  IF ref = FR_PTEUNUSED THEN v ELSE SetPte(v, ref, "swapped", dest)

e1full(v) == ~ hasfreeframe(v.fm, "E1")
e2full(v) == ~ hasfreeframe(v.fm, "E2")
bothfull(v) == e1full(v) /\ e2full(v)

-----------------------------------------------------------------------------
(* pgfutil.c                                                                *)

mapfreeframe(v, pid, d, g) ==
  LET f   == FreeFrame(v.fm, "E1")
      ref == PteRefOf(v, d, g)
  IN IF f = SYSERR THEN v
     ELSE SetPte([v EXCEPT !.fm = invtakeframe(PopFree(@, "E1"), f, pid, ref)],
                 ref, "present", f)

restoreframe(v, pid, d, g) ==
  LET src  == getpte(v, d, g).base
      dest == FreeFrame(v.fm, "E1")
      v1   == mapfreeframe(v, pid, d, g)
  IN IF dest = SYSERR THEN v
     ELSE [CopyFrame(v1, src, dest) EXCEPT !.fm = invfreeframe(@, src)]

evictframe(v) ==
  LET victim == getusedframeE1(v.fm)
      dest   == FreeFrame(v.fm, "E2")
      ref    == v.fm.pte[victim]
      v1     == [v EXCEPT !.fm = invtakeframe(PopFree(@, "E2"), dest,
                                              v.fm.pid[victim], ref)]
      v2     == MarkSwapped(CopyFrame(v1, victim, dest), ref, dest)
  IN IF victim = SYSERR \/ dest = SYSERR THEN v
     ELSE [v2 EXCEPT !.fm = invfreeframe(@, victim)]

\* When the eviction frees no frame of E1 the copy goes to the address of frame
\* SYSERR, which is mapped nowhere.
swapframe(v, pid, d, g) ==
  LET src  == getpte(v, d, g).base
      v1   == evictframe([v EXCEPT !.fm = invfreeframe(@, src)])
      dest == FreeFrame(v1.fm, "E1")
  IN IF dest = SYSERR THEN [v1 EXCEPT !.status = "nowhere"]
     ELSE [mapfreeframe(v1, pid, d, g) EXCEPT !.mem[dest] = v.mem[src]]

-----------------------------------------------------------------------------
(* The ready list and resched.                                              *)

\* insert: after every process whose key is not smaller.
insert(list, p) ==
  LET n == Cardinality({i \in 1 .. Len(list) : Prio[list[i]] >= Prio[p]})
  IN InsertAt(list, n + 1, p)

Ready(s, p) == [s EXCEPT !.prstate[p] = "READY", !.readylist = insert(@, p)]

Dispatch(s) == LET p == Head(s.readylist) IN
  [s EXCEPT !.readylist = Tail(@), !.currpid = p, !.prstate[p] = "CURR"]

\* Mutant: the head of the list is unlinked, whoever it is.
getitem_Head(s, p) ==
  IF Contains(s.readylist, p) THEN [s EXCEPT !.readylist = Tail(@)] ELSE s

\* getitem, for a process that is on the ready list if on any.
getitem(s, p) ==
  IF Contains(s.readylist, p)
  THEN [s EXCEPT !.readylist = RemoveAt(@, CHOOSE i \in 1 .. Len(@) : @[i] = p)]
  ELSE s

resched(s) ==
  LET p == s.currpid IN
  IF s.prstate[p] # "CURR" THEN Dispatch(s)
  ELSE IF s.readylist = << >> \/ Prio[p] > Prio[Head(s.readylist)] THEN s
  ELSE Dispatch(Ready(s, p))

\* Mutant: one free frame wakes one process.
Woken_First(v, s) ==
  IF bothfull(v) \/ s.fbqueue = << >> THEN << >> ELSE <<Head(s.fbqueue)>>

\* The processes framewakeup dequeues: it goes on as long as a frame is free,
\* and readying a process takes none.
Woken(v, s) == IF bothfull(v) THEN << >> ELSE s.fbqueue

\* ready for each of ps, with the rescheduling deferred.
ReadyAll(s, ps) ==
  LET made[i \in 0 .. Len(ps)] == IF i = 0 THEN s ELSE Ready(made[i - 1], ps[i])
  IN made[Len(ps)]

\* It readies them and reschedules once at the end.
framewakeup(v, s) ==
  LET w == Woken(v, s) IN
  IF w = << >> THEN s
  ELSE resched([ReadyAll(s, w)
                  EXCEPT !.fbqueue = SubSeq(@, Len(w) + 1, Len(@))])

\* Readying a process that waits for no frame puts it on the ready list though
\* it is free, or twice: what runs from then on is undefined.
WakesBlocked(v, s) ==
  /\ \A i \in 1 .. Len(Woken(v, s)) : s.prstate[Woken(v, s)[i]] = "FRAME"
  /\ \A i, j \in 1 .. Len(Woken(v, s)) :
       Woken(v, s)[i] = Woken(v, s)[j] => i = j

\* Mutant: the queue starts anew with the process that blocks.
frameblock_Restarts(s) ==
  resched([s EXCEPT !.fbqueue = <<s.currpid>>, !.prstate[s.currpid] = "FRAME"])

\* The ring of frameblock.c has a slot for each process, and nobody looks for
\* room: with all of them taken the tail comes round to the head, and the ring
\* holds one entry.
NPROC == Cardinality(Pid)

insert_fbqueue(q, p) == IF Len(q) = NPROC THEN <<p>> ELSE Append(q, p)

\* frameblock queues the current process and gives up the processor.
frameblock(s) ==
  resched([s EXCEPT !.fbqueue = insert_fbqueue(@, s.currpid),
                    !.prstate[s.currpid] = "FRAME"])

NoTlb == [g \in Page |-> None]

\* The state after a handler that may have switched: loading CR3 empties the
\* TLB; kept is what the TLB holds if it did not.
Switch(s, kept) ==
  /\ sys' = s
  /\ tlb' = IF s.currpid = sys.currpid THEN kept ELSE NoTlb

-----------------------------------------------------------------------------
At(at, arg) == [at |-> at, arg |-> arg]
InUser == At("user", None)

me == sys.currpid
mypd == prpd[me]

\* pdsw loads the directory of the process that runs.  If that frame holds no
\* directory any more, no address is mapped and the machine is lost.
Runs ==
  /\ vm.status = "up"
  /\ mypd \in DFrame /\ vm.dmem[mypd].kind = "pd"

Calling(call) == Runs /\ pc[me].at = "user" /\ <<me, call>> \in Calls

\* Programs that use their heap; the null process never does.
Program == Calling("heap") /\ me # NULLPROC

\* The frame at which the processor finds heap page g, or None.
Translate(g) ==
  IF tlb[g] # None THEN tlb[g]
  ELSE IF Mapped(vm, mypd) /\ getpte(vm, mypd, g).st = "present"
       THEN getpte(vm, mypd, g).base
       ELSE None

Blank == <<NULLPROC, None, None>>

\* init_paging, and the rest of the boot up to the null process.
Init ==
  /\ vm = LET v0 == [fm |-> init_invpt,
                     dmem |-> [f \in DFrame |-> DContent("pt")],
                     mem |-> [f \in EFrame |-> Blank],
                     status |-> "up"]
              pts[i \in 0 .. NIdentity] ==
                IF i = 0 THEN v0 ELSE newpt(pts[i - 1], NULLPROC)
          IN newpd(pts[NIdentity], NULLPROC)
  /\ prpd = [p \in Pid |-> IF p = NULLPROC THEN FRAME0_D + NIdentity ELSE SYSERR]
  /\ sys = [prstate |-> [p \in Pid |-> IF p = NULLPROC THEN "CURR" ELSE "FREE"],
            readylist |-> << >>, currpid |-> NULLPROC, fbqueue |-> << >>]
  /\ pc = [p \in Pid |-> InUser]
  /\ pralloc = [p \in Pid |-> {}]
  /\ pgfaddr = None
  /\ tlb = NoTlb
  /\ prcount = 1
  /\ ncreate = 0
  /\ prparent = [p \in Pid |-> NULLPROC]
  /\ prhasmsg = [p \in Pid |-> FALSE]
  /\ expect = [p \in Pid |-> [g \in Page |-> None]]

-----------------------------------------------------------------------------
(* Programs use their heaps.                                                *)

\* A store to an allocated page that the processor can translate.
Write(g, x) ==
  /\ Program /\ g \in pralloc[me] /\ Translate(g) # None
  /\ vm' = [vm EXCEPT !.mem[Translate(g)] = <<me, g, x>>]
  /\ expect' = [expect EXCEPT ![me][g] = x]
  /\ tlb' = IF TlbCaches THEN [tlb EXCEPT ![g] = Translate(g)] ELSE tlb
  /\ UNCHANGED <<sys, pc, prpd, pralloc, pgfaddr, prcount, prparent, prhasmsg, ncreate>>

\* vmhgetmem marks the pages it returns and maps none of them.
GetPage(g) ==
  /\ Program /\ g \notin pralloc[me]
  /\ pralloc' = [pralloc EXCEPT ![me] = @ \cup {g}]
  /\ UNCHANGED <<vm, sys, pc, prpd, pgfaddr, tlb, prcount, prparent, prhasmsg,
                 ncreate, expect>>

\* Mutant: the page goes and the table keeps its count.
set_pages_deallocated_NoCount(v, d, g) ==
  LET e  == getpte(v, d, g)
      v1 == SetPte(v, PteRefOf(v, d, g), "absent", None)
  IN IF e.st = "absent" THEN v
     ELSE [v1 EXCEPT !.fm = invfreeframe(@, e.base)]

\* One page of __set_pages_deallocated.  The base of an absent entry is never
\* read; None stands for what it keeps.
set_pages_deallocated(v, d, g) ==
  LET e  == getpte(v, d, g)
      pt == v.dmem[d].heap
      v1 == [SetPte(v, PteRefOf(v, d, g), "absent", None) EXCEPT !.fm.refcnt[pt] = @ - 1]
  IN IF e.st = "absent" THEN v
     ELSE [v1 EXCEPT !.fm = invfreeframe(@, e.base)]

invlpg(t, g) == [t EXCEPT ![g] = None]

\* vmhfreemem of one page, with its framewakeup.  By then vmhinit has stored
\* into the heap, so there is a page table.
FreePage(g) ==
  LET v1   == set_pages_deallocated(vm, mypd, g)
      kept == IF getpte(vm, mypd, g).st = "absent" THEN tlb ELSE invlpg(tlb, g)
  IN
  /\ Program /\ Calling("vmhfreemem")
  /\ g \in pralloc[me] /\ Mapped(vm, mypd)
  /\ pralloc' = [pralloc EXCEPT ![me] = @ \ {g}]
  /\ expect' = [expect EXCEPT ![me][g] = None]
  /\ vm' = IF WakesBlocked(v1, sys) THEN v1 ELSE [v1 EXCEPT !.status = "wild"]
  /\ Switch(framewakeup(v1, sys), kept)
  /\ UNCHANGED <<pc, prpd, pgfaddr, prcount, prparent, prhasmsg, ncreate>>

-----------------------------------------------------------------------------
(* kill                                                                     *)

\* The loop over the table from entry a up to entry b.
FreeFrames(fm, pid, a, b) ==
  LET freed[f \in a .. b] ==
        IF f = a THEN fm
        ELSE LET t == freed[f - 1] IN
             IF t.pid[f - 1] = pid /\ t.state[f - 1] # "FREE"
             THEN invfreeframe(t, f - 1) ELSE t
  IN freed[b]

\* Mutant: the loop leaves out region D.
FreeAll_SkipsD(fm, pid) == FreeFrames(fm, pid, FRAME0_E1, FRAME0_F)

\* Mutant: the loop ends before region E2.
FreeAll_SkipsE2(fm, pid) == FreeFrames(fm, pid, FRAME0, FRAME0_E2)

\* Every used frame of pid, its directory included.
FreeAll(fm, pid) == FreeFrames(fm, pid, FRAME0, FRAME0_F)

\* kill up to its send, which readies a parent that waits for a message and
\* may run it at once.  The last user process never gets that far.
KillBegin(pid) ==
  LET parent == prparent[pid]
      told   == sys.prstate[parent] # "FREE" /\ ~ prhasmsg[parent]
  IN
  /\ pid # NULLPROC /\ sys.prstate[pid] # "FREE"
  /\ prcount' = prcount - 1
  /\ IF prcount - 1 <= 1
     THEN /\ vm' = [vm EXCEPT !.status = "done"]
          /\ UNCHANGED <<sys, tlb, pc, prhasmsg>>
     ELSE /\ vm' = [vm EXCEPT !.fm = FreeAll(@, pid)]
          /\ pc' = [pc EXCEPT ![me] = At("kill_sent", pid)]
          /\ prhasmsg' = [prhasmsg EXCEPT ![parent] = @ \/ told]
          /\ Switch(IF told /\ sys.prstate[parent] = "RECV"
                    THEN resched(Ready(sys, parent)) ELSE sys, tlb)
  /\ UNCHANGED <<prpd, pralloc, prparent, ncreate, expect>>

\* userret kills the process that returns from its main function.
Kill(pid) ==
  /\ Calling("kill") \/ (Calling("exit") /\ pid = me)
  /\ KillBegin(pid)
  /\ UNCHANGED pgfaddr

\* close, freestk, then framewakeup.
KillWake ==
  /\ Runs /\ pc[me].at = "kill_sent"
  /\ pc' = [pc EXCEPT ![me] = At("kill_woken", @.arg)]
  /\ vm' = IF WakesBlocked(vm, sys) THEN vm ELSE [vm EXCEPT !.status = "wild"]
  /\ Switch(framewakeup(vm, sys), tlb)
  /\ UNCHANGED <<proc, pgfaddr>>

\* The switch on prstate; PR_WAIT, PR_SLEEP and PR_RECTIM are not in this model.
\* The fields of a free entry are never read before create has set them all, so
\* the model clears them here.
KillFinish ==
  LET pid == pc[me].arg
      s   == getitem([sys EXCEPT !.prstate[pid] = "FREE"], pid)
  IN
  /\ Runs /\ pc[me].at = "kill_woken"
  /\ pc' = [pc EXCEPT ![me] = InUser, ![pid] = InUser]
  /\ Switch(IF pid = me THEN resched(s) ELSE s, tlb)
  /\ prpd' = [prpd EXCEPT ![pid] = SYSERR]
  /\ pralloc' = [pralloc EXCEPT ![pid] = {}]
  /\ prparent' = [prparent EXCEPT ![pid] = NULLPROC]
  /\ prhasmsg' = [prhasmsg EXCEPT ![pid] = FALSE]
  /\ expect' = [expect EXCEPT ![pid] = [g \in Page |-> None]]
  /\ UNCHANGED <<vm, prcount, ncreate, pgfaddr>>

-----------------------------------------------------------------------------
(* pgfhandler                                                               *)

\* Serves a fault of the current process on the page in addr, with v the
\* memory after __pde_inv_check.
NewPage(v, addr) ==
  LET v1 == mapfreeframe(IF e1full(v) THEN evictframe(v) ELSE v, me, mypd, addr)
  IN [v1 EXCEPT !.fm.refcnt[v1.dmem[mypd].heap] = @ + 1]

\* Mutant: a page that comes back counts again.
OldPage_Counts(v, addr) ==
  LET v1 == IF bothfull(v) THEN swapframe(v, me, mypd, addr)
            ELSE restoreframe(IF e1full(v) THEN evictframe(v) ELSE v, me, mypd, addr)
  IN [v1 EXCEPT !.fm.refcnt[v1.dmem[mypd].heap] = @ + 1]

OldPage(v, addr) ==
  IF bothfull(v) THEN swapframe(v, me, mypd, addr)
  ELSE restoreframe(IF e1full(v) THEN evictframe(v) ELSE v, me, mypd, addr)

\* Mutant: pd_pres is not tested.
WithPageTable_Always(v) ==
  IF NewDFrame(v) = SYSERR THEN [v EXCEPT !.status = "panic"]
  ELSE [newpt(v, me) EXCEPT !.dmem[mypd].heap = NewDFrame(v)]

\* __pde_inv_check: a page table for the heap, or a panic.
WithPageTable(v) ==
  IF v.dmem[mypd].heap # None THEN v
  ELSE IF NewDFrame(v) = SYSERR THEN [v EXCEPT !.status = "panic"]
  ELSE [newpt(v, me) EXCEPT !.dmem[mypd].heap = NewDFrame(v)]

Faults(g) == Program /\ Translate(g) = None /\ pgfaddr' = g

\* The bit is set: the handler takes the fault for a protection error and
\* returns to the instruction that faulted.
FaultIgnored(g) ==
  /\ 1 \in ErrBits /\ Faults(g)
  /\ UNCHANGED <<vm, sys, pc, tlb, proc>>

\* The page was not allocated by vmhgetmem.
SegFault(g) ==
  /\ Calling("segfault")
  /\ 0 \in ErrBits /\ Faults(g) /\ g \notin pralloc[me]
  /\ KillBegin(me)

\* The page is allocated: it is in E2, or a frame can be had for it.
FaultServed(g) ==
  LET v == WithPageTable(vm) IN
  /\ 0 \in ErrBits /\ Faults(g) /\ g \in pralloc[me]
  /\ \/ v.status = "panic" /\ vm' = v
     \/ /\ v.status # "panic" /\ getpte(v, mypd, g).st = "swapped"
        /\ vm' = OldPage(v, g)
     \/ /\ v.status # "panic" /\ getpte(v, mypd, g).st # "swapped" /\ ~ bothfull(v)
        /\ v.fm.refcnt[v.dmem[mypd].heap] < MaxRef
        /\ vm' = NewPage(v, g)
  /\ UNCHANGED <<sys, pc, tlb, proc>>

\* A fresh page, and no frame in either region.
FaultBlocks(g) ==
  LET v == WithPageTable(vm) IN
  /\ 0 \in ErrBits /\ Faults(g) /\ g \in pralloc[me]
  /\ v.status # "panic" /\ bothfull(v) /\ getpte(v, mypd, g).st # "swapped"
  /\ vm' = v
  /\ pc' = [pc EXCEPT ![me] = At("fblock", g)]
  /\ Switch(frameblock(sys), tlb)
  /\ UNCHANGED proc

\* Back from frameblock: block again, or go on with the page pgfaddr names now.
FaultResumes ==
  /\ Runs /\ pc[me].at = "fblock"
  /\ IF bothfull(vm)
     THEN Switch(frameblock(sys), tlb) /\ UNCHANGED <<vm, pc>>
     ELSE /\ pc' = [pc EXCEPT ![me] = InUser]
          /\ IF Mapped(vm, mypd)
             THEN /\ vm.fm.refcnt[vm.dmem[mypd].heap] < MaxRef
                  /\ vm' = NewPage(vm, pgfaddr)
             ELSE vm' = [vm EXCEPT !.status = "wild"]
          /\ UNCHANGED <<sys, tlb>>
  /\ UNCHANGED <<pgfaddr, proc>>

-----------------------------------------------------------------------------
(* create, resume, receive and the clock.                                   *)

\* newpid takes some free entry.  The null process creates the first process
\* only, and nobody looks at the result of newpd.  A process that creates
\* others also resumes them.
Create(pid) ==
  /\ Calling("create") /\ (me = NULLPROC => prcount = 1)
  /\ sys.prstate[pid] = "FREE"
  /\ vm' = newpd(vm, pid)
  /\ prpd' = [prpd EXCEPT ![pid] = NewDFrame(vm)]
  /\ sys' = [sys EXCEPT !.prstate[pid] = "SUSP"]
  /\ pc' = [pc EXCEPT ![pid] = InUser]
  /\ pralloc' = [pralloc EXCEPT ![pid] = {}]
  /\ expect' = [expect EXCEPT ![pid] = [g \in Page |-> None]]
  /\ prcount' = prcount + 1
  /\ ncreate < MaxCreate /\ ncreate' = ncreate + 1
  /\ prparent' = [prparent EXCEPT ![pid] = me]
  /\ prhasmsg' = [prhasmsg EXCEPT ![pid] = FALSE]
  /\ UNCHANGED <<pgfaddr, tlb>>

Resume(pid) ==
  /\ Calling("create") /\ sys.prstate[pid] = "SUSP"
  /\ Switch(resched(Ready(sys, pid)), tlb)
  /\ UNCHANGED <<vm, pc, pgfaddr, proc>>

\* receive waits unless a message is there, and takes it.
ReceiveWaits ==
  /\ Calling("receive") /\ ~ prhasmsg[me]
  /\ pc' = [pc EXCEPT ![me] = At("recv", None)]
  /\ Switch(resched([sys EXCEPT !.prstate[me] = "RECV"]), tlb)
  /\ UNCHANGED <<vm, pgfaddr, proc>>

ReceiveTakes ==
  /\ \/ Runs /\ pc[me].at = "recv"
     \/ Calling("receive") /\ prhasmsg[me]
  /\ prhasmsg' = [prhasmsg EXCEPT ![me] = FALSE]
  /\ pc' = [pc EXCEPT ![me] = InUser]
  /\ UNCHANGED <<vm, sys, prpd, pralloc, pgfaddr, tlb, prcount, prparent,
                 ncreate, expect>>

\* clkhandler: the time slice is over.
ClockTick ==
  /\ Calling("clock")
  /\ Switch(resched(sys), tlb)
  /\ UNCHANGED <<vm, pc, pgfaddr, proc>>

Next ==
  \/ \E g \in Page : \/ \E x \in Val : Write(g, x)
                    \/ GetPage(g) \/ FreePage(g)
                    \/ FaultIgnored(g) \/ SegFault(g)
                    \/ FaultServed(g) \/ FaultBlocks(g)
  \/ \E pid \in User : Kill(pid) \/ Create(pid) \/ Resume(pid)
  \/ KillWake \/ KillFinish \/ FaultResumes
  \/ ReceiveWaits \/ ReceiveTakes \/ ClockTick

Spec == Init /\ [][Next]_vars

-----------------------------------------------------------------------------
Live(p) == sys.prstate[p] # "FREE"

\* A process that is past the loop of its own kill uses its heap no more.
Using(p) == /\ Live(p)
            /\ ~ (pc[p].at \in {"kill_sent", "kill_woken"} /\ pc[p].arg = p)
HasHeap(p) == prpd[p] \in DFrame /\ Mapped(vm, prpd[p])
PteOf(p, g) == getpte(vm, prpd[p], g)

Status == {"up", "done", "panic", "wild", "nowhere"}
ProcState == {"FREE", "SUSP", "READY", "CURR", "FRAME", "RECV"}

\* Where a process may go on from.
Place == {InUser, At("recv", None)}
           \cup {At("fblock", g) : g \in Page}
           \cup {At(w, p) : w \in {"kill_sent", "kill_woken"}, p \in User}

\* Every variable has its type; in particular a page table entry that is
\* present or swapped holds a frame of E1 or E2.
TypeOK ==
  /\ FrameTableOK(vm.fm)
  /\ vm.dmem \in [DFrame -> [kind : {"pd", "pt"}, heap : DFrame \cup {None},
                              pte : [Page -> Pte]]]
  /\ vm.mem \in [EFrame -> Pid \X (Page \cup {None}) \X (Val \cup {None})]
  /\ vm.status \in Status
  /\ sys.prstate \in [Pid -> ProcState]
  /\ sys.readylist \in Seq(Pid) /\ sys.fbqueue \in Seq(User) /\ sys.currpid \in Pid
  /\ pc \in [Pid -> Place]
  /\ prpd \in [Pid -> DFrame \cup {SYSERR}]
  /\ pralloc \in [Pid -> SUBSET Page] /\ pgfaddr \in Page \cup {None}
  /\ tlb \in [Page -> EFrame \cup {None}]
  /\ prcount \in Int /\ ncreate \in 0 .. MaxCreate
  /\ prparent \in [Pid -> Pid] /\ prhasmsg \in [Pid -> BOOLEAN]
  /\ expect \in [Pid -> [Page -> Val \cup {None}]]

\* What a program last wrote into a page is what it will read there, however
\* often the page was evicted to E2, restored or swapped in between
\* (pgfutil.c:58-201, pgfhandler.c:81-115).
DataIntegrity ==
  vm.status = "up" =>
    \A p \in User, g \in Page :
      Using(p) /\ expect[p][g] # None =>
        /\ HasHeap(p) /\ PteOf(p, g).st # "absent"
        /\ vm.mem[PteOf(p, g).base] = <<p, g, expect[p][g]>>

\* The page tables and the inverted page table agree: a used frame of E1 or E2
\* belongs to exactly the page whose entry its fr_pte names, and that entry
\* leads back to it, present from E1 and swapped from E2.
TablesAgree ==
  vm.status = "up" =>
    \A f \in EFrame : vm.fm.state[f] = "USED" =>
      LET ref == vm.fm.pte[f]
          own == vm.fm.pid[f]
      IN /\ ref # FR_PTEUNUSED /\ Live(own)
         /\ vm.dmem[prpd[own]].heap = ref.pt
         /\ vm.dmem[ref.pt].pte[ref.page] =
              [st |-> IF f \in RegionFrames("E1") THEN "present" ELSE "swapped",
               base |-> f]

\* Every translation in the TLB is that of the page table of the process that
\* runs.  An eviction by a process of several pages breaks this (README): here
\* it is about the invlpg of vmhfreemem and the loads of CR3.
TlbCoherent ==
  \A g \in Page : tlb[g] # None =>
    PteOf(me, g) = [st |-> "present", base |-> tlb[g]]

\* No link, no datum and no translation outlives its page, whatever exits, is
\* freed and is created anew.
NothingStale == DataIntegrity /\ TablesAgree /\ TlbCoherent

\* paging.h:99 calls fr_refcnt the "reference count": on a page table it is
\* the number of pages the table maps, up with each fresh page
\* (pgfhandler.c:117-121), down with each one returned (vmhfreemem.c:49-50), and
\* untouched by evictions and swaps.  Only tables in frames never used before
\* count right: nothing resets the field when a frame changes hands (README).
RefcntExact ==
  vm.status = "up" =>
    \A p \in User : Using(p) /\ HasHeap(p) =>
      vm.fm.refcnt[vm.dmem[prpd[p]].heap] =
        Cardinality({g \in Page : PteOf(p, g).st # "absent"})

\* While a process is blocked for a frame there is none to be had in E1 or E2:
\* every path that frees one wakes the queue before it lets go of the
\* processor, except a kill that its send has interrupted.
NoLostWakeup ==
  (\E p \in User : sys.prstate[p] = "FRAME") =>
    \/ bothfull(vm)
    \/ vm.status # "up"
    \/ \E k \in User : pc[k].at = "kill_sent" /\ sys.prstate[k] \in {"CURR", "READY"}

\* Processes end by themselves: when they exit, or touch a page they do not have.
SelfKills == \A p \in Pid : <<p, "kill">> \notin Calls

\* A process that is killed while it is blocked leaves its entry behind, so
\* kills by others may fill the ring and make it forget who is in it, but not
\* before more processes were created than it has slots.
Roomy == SelfKills \/ ncreate <= NPROC

\* Whoever is blocked for a frame is in the queue that framewakeup empties
\* (frameblock.c:11-21, 42-58), stale entries and unchecked ring or not.
BlockedQueued ==
  Roomy => \A p \in User : sys.prstate[p] = "FRAME" => Contains(sys.fbqueue, p)

\* The scheduler's two records of a process agree: the ready list holds the
\* READY processes, once each and by priority, and only currpid is PR_CURR.
SchedulerSound ==
  vm.status = "up" =>
    /\ ToSet(sys.readylist) = {p \in Pid : sys.prstate[p] = "READY"}
    /\ \A i, j \in 1 .. Len(sys.readylist) :
         i < j => /\ sys.readylist[i] # sys.readylist[j]
                  /\ Prio[sys.readylist[i]] >= Prio[sys.readylist[j]]
    /\ \A p \in Pid : sys.prstate[p] = "CURR" <=> p = me

\* The handler panics for want of a frame in region D only if live processes
\* hold all of them: what dead processes held can be used again.
PanicMeansShort ==
  vm.status = "panic" =>
    \A d \in DFrame : vm.fm.state[d] = "USED" /\ Live(vm.fm.pid[d])

\* Region D holds the directory and the page table of each live process and
\* nothing else: no frame of it leaks, in a workload whose processes end by
\* themselves.  The victim of another may run on behind the loop that frees its
\* frames, and what it takes then nobody frees (kill.c:28-42).
DFramesOwned ==
  \A d \in DFrame : vm.fm.state[d] = "USED" /\ vm.fm.pid[d] # NULLPROC =>
    LET p == vm.fm.pid[d] IN
    Live(p) /\ (d = prpd[p] \/ (prpd[p] \in DFrame /\ d = vm.dmem[prpd[p]].heap))

-----------------------------------------------------------------------------
(* What comments of the code say and the code does not do.                  *)

\* pgfutil.c:14 "Maps the E1 free frame to faulting page": a process that comes
\* back from frameblock leaves the handler with its own page present.
MapsFaultingPage ==
  [][\A p \in User, g \in Page :
       (pc[p] = At("fblock", g) /\ pc'[p] = InUser /\ sys'.prstate[p] = "CURR")
         => PteOf(p, g)'.st = "present"]_vars
=============================================================================
