---- MODULE BackingStore ----
(***************************************************************************)
(* The backing store (paging/*.c): a table of stores on the remote disk.   *)
(* allocate_bs and deallocate_bs run with interrupts disabled and wait for *)
(* bs_sem all the same; the others run with interrupts enabled and hold    *)
(* bs_sem while they look at the table.  A step goes from one point where  *)
(* the process may lose the processor to the next.                         *)
(***************************************************************************)
EXTENDS Integers, Sequences, FiniteSets
CONSTANTS Procs,
          MAX_BS_ENTRIES, MAX_PAGES_PER_BS, RD_PAGES_PER_BS,
          BLOCKS_PER_PAGE,      \* 8
          Values,               \* what a page may contain
          NULL,
          Sizes,                \* what allocate_bs is asked for
          MaxCalls              \* bound on the calls of all processes
VARIABLES bstab,        \* struct bs_entry
          sem,          \* bs_sem: is it free, and who waits
          init,         \* psinit: has it run, is bs_init_sem free, who waits
          disk,         \* the blocks of the remote disk
          pc,           \* where each process is in its call
          cpu,          \* who runs with interrupts disabled, or NULL
          owns,         \* the stores that allocate_bs gave to each process
          written,      \* what the owner of a store wrote to each page
          calls
vars == <<bstab, sem, init, disk, pc, cpu, owns, written, calls>>

\* What the constants have to be.
StoreAssumption == /\ MAX_BS_ENTRIES \in Nat /\ BLOCKS_PER_PAGE \in Nat \ {0}
                   /\ MAX_PAGES_PER_BS \in Nat /\ RD_PAGES_PER_BS \in Nat
                   /\ MAX_PAGES_PER_BS <= RD_PAGES_PER_BS
Stores == 0 .. MAX_BS_ENTRIES - 1
Pages == 0 .. MAX_PAGES_PER_BS - 1
Idle == [at |-> "idle", call |-> NULL, store |-> NULL, page |-> NULL, i |-> 0, arg |-> NULL]
At(p, at) == pc[p].at = at /\ cpu \in {NULL, p}
Goes(p, at) == [pc EXCEPT ![p].at = at]
Returns(p) == [pc EXCEPT ![p] = Idle]

rd_blk(bs_id, page) == (bs_id * RD_PAGES_PER_BS + page) * BLOCKS_PER_PAGE

Init == /\ bstab = [s \in Stores |-> [isopen |-> FALSE, isallocated |-> FALSE, usecount |-> 0, npages |-> 0]]
        /\ sem = [free |-> TRUE, queue |-> <<>>]
        /\ init = [active |-> FALSE, free |-> TRUE, queue |-> <<>>]
        /\ disk = [b \in 0 .. MAX_BS_ENTRIES * RD_PAGES_PER_BS * BLOCKS_PER_PAGE - 1 |-> NULL]
        /\ pc = [p \in Procs |-> Idle]
        /\ cpu = NULL
        /\ owns = [p \in Procs |-> {}]
        /\ written = [s \in Stores |-> [g \in Pages |-> NULL]]
        /\ calls = 0

Begin(p, call, s, g, arg) ==
    /\ At(p, "idle")
    /\ pc' = [pc EXCEPT ![p] = [at |-> call, call |-> call, store |-> s, page |-> g, i |-> 0, arg |-> arg]]

(***************************************************************************)
(* psinit.  Who waited while another opened the disk returns without a     *)
(* signal: a third one waits for ever.                                     *)
(***************************************************************************)
Allocate(p, n) == /\ Begin(p, IF init.active THEN "find" ELSE "psinit", 0, NULL, n)
                  /\ cpu' = p
                  /\ UNCHANGED <<bstab, sem, init, disk, owns, written>>

psinit(p) == /\ At(p, "psinit")
             /\ cpu' = NULL
             /\ IF init.free
                THEN init' = [init EXCEPT !.free = FALSE] /\ pc' = Goes(p, "opening")
                ELSE init' = [init EXCEPT !.queue = Append(@, p)] /\ pc' = Goes(p, "initwait")
             /\ UNCHANGED <<bstab, sem, disk, owns, written>>

DiskOpened(p) == /\ At(p, "opening")
                 /\ sem' = [free |-> TRUE, queue |-> <<>>]
                 /\ IF init.queue = <<>>
                    THEN init' = [init EXCEPT !.active = TRUE, !.free = TRUE] /\ pc' = Goes(p, "find")
                    ELSE /\ init' = [init EXCEPT !.active = TRUE, !.queue = Tail(@)]
                         /\ pc' = [pc EXCEPT ![p].at = "find", ![Head(init.queue)].at = "find"]
                 /\ UNCHANGED <<bstab, disk, cpu, owns, written>>

(***************************************************************************)
(* bs_sem.                                                                 *)
(***************************************************************************)
\* The first that waits has the semaphore; `old' is pc after the caller's step.
Signal == sem' = IF sem.queue = <<>> THEN [sem EXCEPT !.free = TRUE] ELSE [sem EXCEPT !.queue = Tail(@)]
Granted(old) == IF sem.queue = <<>> THEN old
                ELSE LET w == Head(sem.queue) IN
                     [old EXCEPT ![w].at = CASE pc[w].at = "wait_get" -> "get" [] pc[w].at = "wait_table" -> "table"
                                             [] pc[w].at = "wait_release" -> "release"]
\* A signal that wakes somebody may switch to him, whatever the interrupt mask.
KeepsCpu(p) == IF sem.queue = <<>> THEN p ELSE NULL

(***************************************************************************)
(* allocate_bs and get_bs.                                                 *)
(***************************************************************************)
Candidates(p) == {s \in Stores : s >= pc[p].store /\ ~bstab[s].isallocated}

NoneLeft(p) == /\ At(p, "find")
               /\ Candidates(p) = {} \/ pc[p].arg \notin 1 .. MAX_PAGES_PER_BS
               /\ pc' = Returns(p) /\ cpu' = NULL
               /\ UNCHANGED <<bstab, sem, init, disk, owns, written>>

Find(p) == /\ At(p, "find") /\ pc[p].arg \in 1 .. MAX_PAGES_PER_BS
           /\ \E s \in Candidates(p) :
                 /\ \A t \in Candidates(p) : s <= t
                 /\ IF sem.free THEN sem' = [sem EXCEPT !.free = FALSE] ELSE sem' = [sem EXCEPT !.queue = Append(@, p)]
                 /\ pc' = [pc EXCEPT ![p].store = s, ![p].at = IF sem.free THEN "get" ELSE "wait_get"]
                 /\ cpu' = IF sem.free THEN p ELSE NULL
           /\ UNCHANGED <<bstab, init, disk, owns, written>>

CanOpen_Always(s) == TRUE
CanOpen(s) == ~bstab[s].isopen

get_bs(p) == /\ At(p, "get")
             /\ LET s == pc[p].store IN
                IF CanOpen(s)
                THEN /\ bstab' = [bstab EXCEPT ![s].isopen = TRUE, ![s].npages = pc[p].arg]
                     /\ pc' = Granted(Goes(p, "allocated"))
                ELSE /\ pc' = Granted([pc EXCEPT ![p].at = "find", ![p].store = @ + 1])
                     /\ UNCHANGED bstab
             /\ Signal /\ cpu' = KeepsCpu(p)
             /\ UNCHANGED <<init, disk, owns, written>>

Allocated(p) == /\ At(p, "allocated")
                /\ bstab' = [bstab EXCEPT ![pc[p].store].isallocated = TRUE, ![pc[p].store].usecount = 0]
                /\ owns' = [owns EXCEPT ![p] = @ \cup {pc[p].store}]
                /\ written' = [written EXCEPT ![pc[p].store] = [g \in Pages |-> NULL]]
                /\ pc' = Returns(p) /\ cpu' = NULL
                /\ UNCHANGED <<sem, init, disk>>

(***************************************************************************)
(* deallocate_bs and release_bs.                                           *)
(***************************************************************************)
deallocate_bs(p, s) == /\ At(p, "idle") /\ s \in owns[p]
                       /\ bstab[s].isallocated /\ bstab[s].usecount <= 0
                       /\ pc' = [pc EXCEPT ![p] = [Idle EXCEPT !.call = "deallocate", !.store = s,
                                                   !.at = IF sem.free THEN "release" ELSE "wait_release"]]
                       /\ sem' = IF sem.free THEN [sem EXCEPT !.free = FALSE] ELSE [sem EXCEPT !.queue = Append(@, p)]
                       /\ cpu' = IF sem.free THEN p ELSE NULL
                       /\ owns' = [owns EXCEPT ![p] = @ \ {s}]
                       /\ UNCHANGED <<bstab, init, disk, written>>

release_bs(p) == /\ At(p, "release")
                 /\ bstab' = [bstab EXCEPT ![pc[p].store].isopen = FALSE, ![pc[p].store].npages = 0]
                 /\ pc' = Granted(Goes(p, "released"))
                 /\ Signal /\ cpu' = KeepsCpu(p)
                 /\ UNCHANGED <<init, disk, owns, written>>

Deallocated(p) == /\ At(p, "released")
                  /\ bstab' = [bstab EXCEPT ![pc[p].store].isallocated = FALSE, ![pc[p].store].usecount = 0]
                  /\ pc' = Returns(p) /\ cpu' = NULL
                  /\ UNCHANGED <<sem, init, disk, owns, written>>

(***************************************************************************)
(* open_bs, close_bs, read_bs and write_bs.                                *)
(***************************************************************************)
Enters(p, call, s, g, v) ==
    /\ At(p, "idle") /\ init.active
    /\ pc' = [pc EXCEPT ![p] = [at |-> IF sem.free THEN "table" ELSE "wait_table",
                                call |-> call, store |-> s, page |-> g, i |-> 0, arg |-> v]]
    /\ sem' = IF sem.free THEN [sem EXCEPT !.free = FALSE] ELSE [sem EXCEPT !.queue = Append(@, p)]
    /\ UNCHANGED <<bstab, init, disk, cpu, owns, written>>

Open(p, s) == Enters(p, "open", s, NULL, NULL)
Close(p, s) == Enters(p, "close", s, NULL, NULL)
\* A process reads and writes the stores that it was given.
Read(p, s, g) == s \in owns[p] /\ Enters(p, "read", s, g, NULL)
Write(p, s, g, v) == s \in owns[p] /\ Enters(p, "write", s, g, v)

UsesTable(p, call) == /\ At(p, "table") /\ pc[p].call = call
                      /\ Signal
                      /\ UNCHANGED <<init, disk, cpu, owns>>

open_bs(p) == /\ UsesTable(p, "open")
              /\ bstab' = IF bstab[pc[p].store].isallocated
                          THEN [bstab EXCEPT ![pc[p].store].usecount = @ + 1] ELSE bstab
              /\ pc' = Granted(Returns(p))
              /\ UNCHANGED written

close_bs(p) == /\ UsesTable(p, "close")
               /\ bstab' = IF bstab[pc[p].store].isallocated
                           THEN [bstab EXCEPT ![pc[p].store].usecount = @ - 1] ELSE bstab
               /\ pc' = Granted(Returns(p))
               /\ UNCHANGED written

HasPage(s, g) == bstab[s].isopen /\ g < bstab[s].npages

read_bs(p) == /\ UsesTable(p, "read")
              /\ pc' = Granted(IF HasPage(pc[p].store, pc[p].page) THEN Goes(p, "reading") ELSE Returns(p))
              /\ UNCHANGED <<bstab, written>>

write_bs(p) == /\ UsesTable(p, "write")
               /\ IF HasPage(pc[p].store, pc[p].page)
                  THEN /\ pc' = Granted(Goes(p, "writing"))
                       /\ written' = [written EXCEPT ![pc[p].store][pc[p].page] = pc[p].arg]
                  ELSE pc' = Granted(Returns(p)) /\ UNCHANGED written
               /\ UNCHANGED bstab

\* The blocks of a page go to the disk and come back one by one, without bs_sem.
Moves(p, at) == /\ At(p, at)
                /\ pc' = IF pc[p].i = BLOCKS_PER_PAGE - 1 THEN Returns(p) ELSE [pc EXCEPT ![p].i = @ + 1]
                /\ UNCHANGED <<bstab, sem, init, cpu, owns, written>>
ReadBlock(p) == Moves(p, "reading") /\ UNCHANGED disk
WriteBlock(p) == /\ Moves(p, "writing")
                 /\ disk' = [disk EXCEPT ![rd_blk(pc[p].store, pc[p].page) + pc[p].i] = pc[p].arg]

Step(p) == \/ psinit(p) \/ DiskOpened(p)
           \/ NoneLeft(p) \/ Find(p) \/ get_bs(p) \/ Allocated(p)
           \/ release_bs(p) \/ Deallocated(p)
           \/ open_bs(p) \/ close_bs(p) \/ read_bs(p) \/ write_bs(p)
           \/ ReadBlock(p) \/ WriteBlock(p)
Call(p) == \/ \E n \in Sizes : Allocate(p, n)
           \/ \E s \in Stores : \/ deallocate_bs(p, s) \/ Open(p, s) \/ Close(p, s)
                                \/ \E g \in Pages : Read(p, s, g) \/ \E v \in Values : Write(p, s, g, v)
Next == \E p \in Procs : \/ Step(p) /\ UNCHANGED calls
                         \/ Call(p) /\ calls < MaxCalls /\ calls' = calls + 1
Spec == Init /\ [][Next]_vars

(***************************************************************************)
(* Properties.                                                             *)
(***************************************************************************)
\* No two processes are given the same store, although a process that waits in
\* get_bs has interrupts disabled for itself only: isopen decides, not
\* isallocated.
StoreExclusive == \A p, q \in Procs : p # q => owns[p] \cap owns[q] = {}

\* Every block of a page that its owner wrote is on the disk, unless the owner
\* is about to write it: stores and pages do not overlap, and nobody else has
\* written there since.
PagesKept ==
    \A p \in Procs : \A s \in owns[p], g \in Pages, i \in 0 .. BLOCKS_PER_PAGE - 1 :
        \/ written[s][g] = NULL
        \/ pc[p].at = "writing" /\ pc[p].store = s /\ pc[p].page = g /\ pc[p].i <= i
        \/ disk[(s * RD_PAGES_PER_BS + g) * BLOCKS_PER_PAGE + i] = written[s][g]

\* A store keeps what its owner writes.
StoresKept == StoreExclusive /\ PagesKept
====
