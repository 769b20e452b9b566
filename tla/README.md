# Formal models of XINU with demand paging

TLA+ models of the Xinu kernel in `src/xinu-fall2022-paging`, an x86 teaching
kernel extended with a virtual heap per process, demand paging and swapping.
Paths below are relative to that directory, which PROJECT.json spells out.

## 1. The system

Xinu is one address space of C functions that run on one processor. Almost
every kernel function starts with `disable()` and ends with `restore(mask)`, so
it runs without interruption up to the points where it calls `resched`, which
switches to another process. The places where a function may lose the processor
half way are where the hard behaviours are; in devices and the network there are
also time-outs, lost messages and interrupts.

| component | state | operations | talks to |
|---|---|---|---|
| frame allocator (`system/framemgmt.c`) | inverted page table `invpt`, three arrays used as stacks of free frames with their pointers, a doubly linked FIFO list of used E1 frames inside `invpt` | `getfreeframe`, `invtakeframe`, `invfreeframe`, `getusedframeE1` | called by everything that maps memory |
| page tables (`pagingidx.c`, `pagingmgmt.c`, `init_paging.c`) | directories and tables in frames of region D | `newpd`, `newpt`, `getpde`, `getpte` | frame allocator; `create`, fault handler |
| fault handler (`pgfdisp.S`, `pgfhandler.c`, `pgfutil.c`) | `pgfaddr`, `pgferr`, frame contents, TLB | map, restore, evict, swap, kill, block | frame allocator, `frameblock`, `kill` |
| blocking for a frame (`frameblock.c`) | queue `fbqueue` | `frameblock`, `framewakeup` | scheduler; `vmhfreemem` and `kill` wake it |
| virtual heap (`vmhinit.c`, `vmhgetmem.c`, `vmhfreemem.c`) | per process: free list kept inside the paged heap, marks `pralloc` | get and return runs of pages | page tables, frame allocator, `framewakeup` |
| process manager (`create.c`, `kill.c`, `resched.c`, `ready.c`, ...) | process table, ready list, `currpid` | create, resume, suspend, kill, yield, chprio | everything |
| semaphores, messages (`wait.c`, `signal.c`, `send.c`, `receive.c`, ...) | semaphore table and queues, one message per process | wait, signal, send, receive | scheduler |
| clock and sleepers (`clkhandler.c`, `sleep.c`, `unsleep.c`, `wakeup.c`) | delta list, `clktime`, `preempt` | sleep, wake, preempt | scheduler, timed receive |
| ports (`ptcreate.c`, `ptsend.c`, ...) | port table, two semaphores a port, list of message nodes | create, send, receive, reset, delete | semaphores |
| memory and buffer pools (`getmem.c`, `freemem.c`, `mkbufpool.c`, ...) | list of free blocks, pools with a semaphore each | get, free | semaphores |
| backing store (`paging/*.c`) | `bstab`, `bs_sem` | allocate, open, read, write, close, release | remote disk |
| remote disk (`device/rds`) and its server (`rdserver`) | request queue, cache, free list, communication process; sequence number, one file | open, read, write, sync, delete, close | UDP, semaphores, messages |
| local file system (`device/lfs`) | directory, index blocks, data blocks, their free lists; per open file the index and data block it works on | open, getc, putc, seek, truncate, close | disk, mutexes |
| network (`net/net.c`, `ip.c`, `arp.c`, `udp.c`, `icmp.c`) | pool of buffers, ARP cache, UDP and ICMP tables, IP output queue | register, send, receive with timeout, release; `netin`, `ipout` | Ethernet, semaphores, timed receive |
| DHCP and TFTP (`net/dhcp.c`, `tftp.c`) | `NetData`, block expected next | get an address, get a file | UDP |
| terminal (`device/tty`) | input, output and echo rings, two semaphores | read, write, interrupt handlers | semaphores |
| remote files (`device/rfs`) | table of open files with their positions, sequence number, a mutex | open, read, write, seek, close, truncate, delete | UDP, a server that is not here |
| RAM disk, names (`device/ram`, `nam`) | blocks, prefixes | read, write, open | |
| Ethernet, SD card; shell, tests, start-up, configuration | descriptor rings, registers | | |

What makes each correct, and what is hard about it:

- *Frame allocator.* A frame is never handed out twice and never lost; victims
  leave in the order they came. Callers give frames up that are not in use, in
  any order, and ignore errors.
- *Demand paging.* A page reads back what was written to it, however often it
  moved between E1 and E2; no two pages share a frame; the inverted table and the
  page tables agree; the TLB agrees with both. Faults of one process move the
  pages of others, and the handler sleeps half way.
- *Blocking.* Nobody sleeps while a frame is free. `kill` runs the wake-up with a
  half-dead process in hand.
- *Virtual heap, kernel memory.* Nothing is handed out twice, what comes back is
  joined. The free list of the virtual heap lives in memory that itself faults.
- *Scheduler, semaphores, messages, clock.* Nobody is in two queues or in none;
  no lost wake-up; timed operations race with what they wait for.
- *Ports.* No message is lost, invented or received in a later life of its port,
  though ports are reset under processes that wait for them.
- *Remote disk.* Queue, cache, exchange and server together are one disk, in spite
  of lost, repeated and late messages.
- *Remote files.* A call that succeeds has happened once, and a read is answered with
  the file as it is, though requests and replies are lost, repeated and late.
- *Local file system.* A file is a sequence of bytes, and no block has two owners,
  although what is in memory and what is on disk differ most of the time.
- *Network.* No path loses a buffer; nobody sleeps through a packet or sends it to
  the wrong host; a silent host stops nobody else.
- *Terminal.* What was typed and edited is what is read; what is put is sent.

PROJECT.json lists all components with what is modelled of each, and all hazards
with the source line where they bite.

## 2. Modules

| module | models |
|---|---|
| `Frames` | the data and functions of `framemgmt.c` over sets and sequences: no state of its own |
| `FrameMgmt` | the frame allocator as a state machine, driven by the two sequences of calls its clients make |
| `InvPt` | `framemgmt.c` as written: arrays, stack pointers, links. It implements `FrameMgmt` |
| `ListLemmas`, `FrameLemmas` | what lists and the functions of `Frames` do |
| `Paging` | page tables, TLB, fault handler, eviction, restoring, swapping, blocking, and the processes that cause it all: create, resume, kill, exit, receive, clock |
| `PagingProofs`, `PagingData` | what the functions of `Paging` return and leave alone, and theorems about `Paging`; theorems about what pages hold |
| `Kernel` | processes, scheduling, semaphores, messages, sleeping and the clock |
| `KernelProofs` | lemmas and theorems about `Kernel` |
| `HeapSpec` | what an allocator of runs promises |
| `VHeap`, `Memory` | the virtual heap of one process; kernel memory and buffer pools. Both implement `HeapSpec` |
| `AllocatorProofs` | lemmas about lists of blocks and theorems about `VHeap`, `Memory`, `FrameMgmt` and `InvPt` |
| `Ports`, `BackingStore`, `NetBoot`, `Tty`, `RemoteFs` | ports; backing stores; DHCP and TFTP; the terminal; remote files |
| `PortProofs` | theorems about `Ports` |
| `BlockStore` | what a disk promises |
| `RemoteDisk` | the remote disk, the exchange over UDP and the server. It implements `BlockStore` |
| `NetBase`, `Arp`, `Endpoints`, `Net` | buffers, processes and time-outs of the network; the ARP cache; UDP and ICMP; IP, `netin` and `ipout`. Each extends the one before |
| `NetProofs` | theorems about `Net` |
| `FileSpec` | what a file system promises |
| `LocalFs` | the local file system. It implements `FileSpec` |
| `MCAllocators` | `FrameMgmt`, `InvPt`, `VHeap` and `Memory` side by side |
| `MCParts` | `Ports`, `BackingStore`, `NetBoot`, `Tty`, `RemoteFs` and `LocalFs` side by side |
| `MC...` | constants for TLC |

`Paging` extends `Frames`, so the functions that are proved about in
`FrameMgmt` are the very operators its handlers are made of. `VHeap` is separate:
its functions touch only the heap of the process that calls them, and all that
`Paging` needs of it is that a page gets marked or unmarked. `Kernel` has the
whole process manager, with no frames; `Paging` has a smaller one of its own,
without priorities and timeouts, because what matters there is who can run while a
fault handler waits. The other modules take from the scheduler what their own
correctness depends on: who is blocked, who is woken, and that a woken process runs
later than the one that woke it.

One convention holds everywhere: **an action goes from one point where the
processor can be lost to the next.** A function that runs with interrupts disabled
is one action up to its `wait`, `receive` or `resched`; what is left afterwards is
an action of its own, guarded by a program counter. Where functions run with
interrupts enabled but their shared state is covered by a mutex, the mutex is the
boundary (`LocalFs`, `BackingStore`), but for `lflclose`, which writes without one and
has a step at each point where the disk or the directory is between two states.

### Frames, FrameMgmt and InvPt

`FrameTable` is a record: `state`, `pid`, `pte`, `refcnt` are the fields of
`invpt`, `free[r]` is the stack of region r with its top last, and `used` the FIFO
list from `used_head` to `used_tail`. `InvPt` keeps what the C code keeps, and its
`tables` is the `FrameTable` that this stands for (`FrameTables` is `FrameMgmt` with
it): `free[r]` is the part of the array below the
pointer, and `used` the walk over the links. A client pops a frame and takes it in
one go (`Allocate`, in `InvPt` `InvptAllocate`); `Release` (`InvptRelease`) is `invfreeframe` on any frame, used or not, which
is what the loop of `kill` and the callers in `pgfutil.c` do.

As in the kernel the table starts at `FRAME0 > 0` while `invtakeframe` compares a
frame number with the number of entries. The last `FRAME0` frames of E2 can
therefore be popped from the stack and never be taken. `Paging` has such frames
too, and the pages evicted into them.

### Paging

- `vm` is one record so that the functions of the code compose as operators:
  `fm` (a `FrameTable`), `dmem` (directories and page tables in region D), `mem`
  (contents of E1 and E2), `status`. `status` is "up" until the kernel panics
  ("panic"), the last user process exits ("done"), or the code does something
  after which nothing can be said: a store through a stale pointer into a
  directory, or the readying of a process that is not blocked ("wild"), a copy to
  frame -1 ("nowhere"). From then on no action is enabled and the properties about
  contents say nothing.
- `sys` is the scheduler: `prstate`, `readylist`, `currpid`, `fbqueue`.
- `pc[p]` says in which half-way point of a handler p lost the processor:
  blocked for a frame ("fblock"), inside kill after `send` ("kill_sent") or after
  `framewakeup` ("kill_woken"), in `receive`.
- A content is a triple of owner, page and value, which is all that data integrity
  has to tell apart. The history variable `expect` is what a program wrote last.
- The base of an absent entry and the fields of a free process entry are dead data
  and set to one value, to keep the state space small.
- `tlb` exists only where `TlbCaches` is TRUE, in `paging_reuse`. With two pages of
  the running process in the TLB the missing invalidation (section 3) would break
  every property at once; with one page a process it does not happen.
- `fbqueue` is the ring of `frameblock.c` with `NPROC` slots, one a process, and as in
  the code nobody looks whether it is full: one entry too many, and the ring holds that
  one only (`insert_fbqueue`). Processes that are killed while they are blocked leave
  their entries behind.
- `Seen` of `MCPaging`, the view of two runs, drops the contents of frames that nobody
  has written; `Children` exchanges the two children, whom no workload tells apart.
- A heap has so few pages that one page table is enough; the real one has 1024
  pages, which is exactly one page table too.
- The workload `Calls` says which process makes which system calls. Anything not in
  it would add interleavings and no new code.

### Kernel

- `k` is one record with the process table, the ready list, the delta list
  `sleepq`, the semaphore table, `preempt`, and the two cursors `nextpid` and
  `nextsem`. A record again, so that `ready`, `resched`, `send`, `unsleep` and
  `wakeup` are operators from tables to tables which the calls compose as the code
  does: `send` in `kill`, `wakeup` and then the time slice in `clkhandler`.
- Queues are sequences of a process and its key instead of links in `queuetab`.
  `QueuesSound` is what makes that right: one node per process is enough only if a
  process is on one queue at most.
- `pc` holds what is left of a call: the rest of `kill` after `send`, of
  `clkhandler` after `wakeup`, of `receive` and `recvtime` after the wait.
- `DEFER_START` and `DEFER_STOP` enclose loops with no other call in them, so
  `ReadyAll` readies all and reschedules once, if there was any.
- `due` is a history variable: the ticks that each sleeper has asked for less those
  that have passed. The delta list is compared with it.
- `halted` is `xdone`. A call that fails leaves everything alone and is no action.
- A workload (`load`, chosen in `Init`) says which process makes which calls, with
  which priorities and delays.

### VHeap and Memory

Both are lists of free blocks ordered by address, and both implement `HeapSpec`:
`owned` (`inuse`) is what is on no list, and `reply` (`answer`) is the last request and the
units that changed hands, so the refinement compares every answer with what the
abstract heap may answer to that very request. In `VHeap` addresses are pages
counted from `MINVHEAP` and the variables are the fields of `struct procent`; in
`Memory` they are units of 8 bytes, to which the code rounds. `VHeap` reads a mark
behind `pralloc` as the constant `Beyond`: the run takes 0, the byte of a process
entry that is free.

`Memory` cuts buffer pools from the same heap, with one unit a buffer, and leaves the
wait in `getbuf` half way (`getting`). Callers free what they own: only the bounds
tests and the overlap tests of the code stand between them and the heap. A process
does not free a pool's memory with `freemem`.

### Ports

A port is one record, its two semaphores included; a semaphore is a count and a
queue. `ptclear` is three actions, because each `semdelete` in it readies those who
wait and lets them run while the port is in `PT_LIMBO`; `ptcpu` is the process that
then has interrupts disabled. `ptseq`, which tells a woken process that its port is
another one, is bounded by `MaxSeq` only as a counter of lives. `ptmsg` is history:
in which life of its port each message was sent.

### BackingStore

The table, `bs_sem` as a lock with a queue, the start of the page server under a
semaphore of its own, and the blocks of pages on the disk, moved one by one. `cpu` is
the process that runs with interrupts disabled: `allocate_bs` and `deallocate_bs` do
so and wait for `bs_sem` all the same, which is when others run. The disk is a
function from blocks to values: that the remote disk is one is what `RemoteDisk`
shows. In the paging system nothing calls these functions.

### RemoteDisk

- `rd` is `struct rdscblk`: lists as sequences, `avail` and `waiters` the semaphore
  `rd_availsem`, `req` the count of `rd_reqsem`. `buf` has the fields of `struct
  rdbuff` but its links.
- `comm` is the exchange that `rdscomm` has in progress, `net` what is on the wire:
  requests and replies that may be lost at any moment and are delivered in any order.
  A time-out may happen whenever nothing has arrived; with `LateReplies` FALSE only
  when nothing is on its way any more, which is what a server that answers within
  `RD_TIMEOUT` gives. `remote_late` shows why that matters.
- `srv` is the server with one disk: the last sequence number, the file and its size. It
  runs on a little-endian host, where the status of an error reply, `htonl(1)` in 16
  bits (`rdserver/snderr.c:43`), is 0: the client takes every error for a success. A read
  of a block that nobody wrote returns what the reply had left in the client's memory
  (`Junk`), a refused write is lost, and a disk that could not be opened loses all of them.
  `BlockStore` says what is left: a block that was written is read back, unless the disk
  is doomed (it does not exist, or was to be deleted).
- `rdsinit` has the creation of the communication process commented out
  (`rdsinit.c:95`), so the device as committed reads nothing at all. The model has
  the process, as `rdsprocess.c` describes it.
- `status` "wild": two processes in the one UDP slot of the device, or lists linked
  with the wrong neighbours (section 3). What happens then is not modelled.
- `ImplementsDisk`: `Current(b)` looks for the last write to block b in the queue,
  then in the cache, then on the wire, then on the server; that is the block of
  `BlockStore`, and `last` shows that a read returned it.

### Network

`net` is one record: pool, ARP cache, endpoints, output queue, and a record per
process that says in which wait it is and with which buffer. A handler is a function
from one such record to the next, so `ip_in`, `icmp_in`, `ip_local`, `ip_send` and
`arp_resolve` compose as the calls do; a wait inside ends the action. A packet is its
protocol, addresses, ports and whether it is valid. An ICMP queue is a ring whose head wraps
at `ICMP_SLOTS` and whose tail at `ICMP_QSIZ`; `Walk` goes along it as `icmp_release` does, and
`Strays` if that leaves the queue. `misdirected`, `evicted`, `bad` and
`overtaken` record the things that the code itself cannot see: an entry of the ARP
cache used for another host, one given away before it was read, an ICMP queue that was
overrun or left, the output queue filled under `ipout`. `netin` and `ipout` have priority `NETPRIO`; clients are assumed to have less,
so `netin` never waits behind them. Ethernet is where packets appear and vanish.

### NetBoot, LocalFs, Tty, RemoteFs

- `NetBoot`: the network is the set of all that was ever sent, which is loss,
  repetition and reordering at once. `leases` and the file are what the servers know. A
  DHCP message is for this host, for its twin or for another: the transaction ID is the
  first four bytes of the MAC address, so a host with the same four (the vendor's three
  and one more) has the same ID, and the code never looks at the whole address in a reply.
  `AddressGranted` can promise no more than that: the address was granted to this host
  or to a twin.
- `LocalFs`: `fs` is the disk (index blocks seven to a sector, data blocks), the
  directory in memory, and a control block per open file with its copies. The
  functions of the code are operators from state to state, down to `lfibput` with
  its read of the whole sector. `Contents` reads a file through the directory, the
  index blocks and the copies in control blocks; `FilesAreSequences` says that this
  is `FileSpec` at every step. The sizes are small: `LF_IBLEN` and `LF_BLKSIZ` are
  what makes a file of four bytes cross data and index blocks. What works under
  `lf_mutex` is part of one step. `lflclose` flushes without it and goes through
  `lflclose`, `CleansDir`, `ReadsSector` and `WritesSector`: the directory written and
  then marked clean, the sector of the index block read and then written. With `Overlap`
  others call in between; without, calls take turns with a close. Left out are the same race
  from the other side (a close that writes between the read and the write of a sector under
  `lf_mutex`), and `lflputc`, which sets the size of the file and marks the directory
  outside `lf_mutex` (`lflputc.c:51-54`) while a flush of another file may clear the mark.
- `Tty`: rings as functions with a head and a tail, `tyisem` and `tyosem` as counts
  with a queue. History: `ahead` and `line` are the lines and the characters of the
  present line as they were edited, `owed` the characters put and not yet sent.
  The handlers do what the code does, its errors included; `slips` records that they
  have made one (section 3): a character stored into a full ring ("full"), a tail left behind
  the end of the ring by an end of file ("eof"), a head moved instead of the tail when a
  line is killed ("kill"), a character sent that no writer has put yet ("early").
  `TypedIsKept` speaks of what the input ring holds until one of the first three, and of who
  waits for it at all times; `PutIsSent` until the fourth. After "eof" and "kill" a
  pointer is outside the ring, and input stops (`InRing`).
- `RemoteFs`: `rfltab` is the table of pseudo-devices, `rfcomm` the exchange in
  progress. `Rf_data.rf_mutex` is held from the check of the arguments to the reply,
  so there is at most one, and which process makes it does not matter. The network is
  a set as in `NetBoot`. The server is not in the repository: it is assumed to leave
  older requests alone, as `rdserver` does. A position goes into each request, so that
  doing one twice is as good as once. `sure` is what the calls that succeeded make of
  the files; after a call that timed out a file is in `doubt` until the next reply,
  behind which the server is known to ignore it.

`MCAllocators` and `MCParts` have a variable `part`, chosen in `MCInit`; the other
parts stay in their initial state (`MCAllocators`) or their variables NULL (`MCParts`). A
behaviour of such a specification is thus a behaviour of one part, and nothing is
multiplied.

## 3. Runs

| run | question | states |
|---|---|---|
| `allocators` | Do the stacks, the table and the queue of victims stay consistent under any order of calls, and do arrays and links implement them? Are virtual heap and kernel memory allocators of runs, and do pools lose no buffer? | 42 403 |
| `paging_share` | Two processes, two pages each, two frames of E1 and three of E2, pages returned by one of them: every way to evict, restore and swap. Contents, sharing, and the counts of page tables, up and down. | 303 519 |
| `paging_reuse` | Processes exit and are created anew, pages are returned, faults are ignored or served, there is a TLB, region D runs out. No stale link, translation or datum, no leak in D, and a panic only for good reason. | 315 754 |
| `paging_block` | Three processes block, free, exit, are killed at any point. No lost wake-up, nobody forgotten, a consistent scheduler. | 312 153 |
| `kernel` | Four workloads: queues, semaphore counts, delta list, messages, priorities; nobody starves or sleeps for ever. | 60 260 |
| `parts` | Six smaller parts, each by itself: the promises of ports, stores, DHCP with TFTP, the terminal, remote and local files. | 857 158 |
| `remote` | Is the remote disk a disk, are its buffers counted right, does every call end? | 246 671 |
| `net` | Is every buffer in one place, every packet sent where it should be, nobody asleep over a packet, and the output never stopped? | 261 135 |
| `paging_resume` (violated) | Does a process that blocked map its own page? | |
| `remote_late` (violated) | Is the reply that `rdscomm` returns the reply to its request? | |
| `files_overlap` (violated) | Does the write of an index block leave the others alone? | |
| `tty_out` (violated) | Are characters sent only that are in the output queue? | |

Bounds.

- *Paging.* Region sizes are the smallest at which every path runs: two frames of E1,
  so a victim may belong to the faulting process or to another; three of E2, one of
  which `invtakeframe` rejects, so eviction into a good frame, into a rejected one
  and into none all happen; four pages compete for them. `MaxCreate` bounds
  creations, and is large enough for an entry of the process table to be used twice.
  `MaxRef` bounds the reference count and is larger than the pages of a heap, so no
  live count reaches it. `paging_reuse` has one page a process, one frame of E1
  and two of E2, one of which is refused, and five creations, so that both entries of the
  children are used again and again. `paging_block` has two pages, one frame of E1, and of E2
  only the one that is refused, so a single page exhausts memory and blocking is common;
  with two frames of E2 its properties hold as well, over 3 089 513 states, which takes too
  long for a run. It has three users, the fewest for one to kill another while a third
  waits, and three creations, fewer than the ring has slots (section 4 has the theorem for
  more, and the list below what happens beyond). Deadlock checking is off: the system stops when the last
  process exits, on a panic, and when all wait for a frame.
- *Kernel.* The null process and three users: one that runs while two wait, so that
  queues have an order and the loops that defer rescheduling release more than one.
  Two priorities, one semaphore with counts up to 1, delays of one or two ticks and a
  time slice of `QUANTUM` = 2 ticks, its value in the source. No deadlock check:
  `xdone` stops the machine.
- *Allocators.* Three frames of E1, so that one is removed from the head, the middle and
  the tail of the list, and three of E2, of which one is rejected. Five pages of
  virtual heap and four units of kernel memory: three blocks with gaps in the first, two
  in the second, so that a block joins neighbours on either side, on both
  and on none. Room for two pools, one semaphore for them and two processes, so that a
  pool is refused for want of a semaphore and processes wait for a buffer.
- *Parts.* Two stores of two pages of two blocks,
  five calls; one port with two nodes and three processes, so that two wait while one
  resets it, through four lives; rings of two to four characters, so that each wraps
  and fills, with four keys and two reads, or two keys and three writes; two remote files
  and one device, two attempts and three exchanges: the reply or the repetition of the
  first may meet the second and the third. Local files: two names, two control blocks,
  four data bytes in two blocks of two, one byte
  pointer per index block, so that a file of three bytes has two index blocks and both
  share a sector; three characters put (four in `files_overlap`), so that blocks go from one
  file by way of the free lists to another, and never run out. Names, devices and bytes are
  alike and may be exchanged; the properties treat them alike. No deadlock check: bounded
  parts stop.
- *Remote disk.* Two buffers, so that the cache is full with a request in the queue;
  two blocks, one retry, five calls. Three workloads: one client with every call and
  both blocks, two clients with a block each, and one that synchronises while another
  writes.
- *Network.* Three buffers, two clients, one entry in the ARP cache, which therefore is
  given away, one place in the output queue and two in the ICMP queue with `ICMP_SLOTS` = 3,
  so that the head leaves the queue after two packets as it does after eight in the code; three packets
  that arrive and three calls of clients. The packets are one of each kind that the
  handlers tell apart.

Fairness.

- `Kernel`: weak fairness of what is left of a call, since the processor goes on with
  the process it runs; strong fairness of `clkhandler`, since the timer never stops
  and an interrupt that comes while a call has interrupts disabled stays pending
  until they are enabled. No process is assumed to make any call. `NoStarvation`
  speaks of workloads with one priority only, since the code lets a lower one starve.
- `RemoteDisk`: what a client has begun, the communication process and the exchange
  go on, and the wire and the server do not keep a packet for ever (they may lose
  every one). `CallsEnd` speaks of a client that has the disk to itself.
- `Net`: `ipout` runs, because nothing but `netin` has its priority and both block
  soon; and the clock ends its timed wait. The hosts need not answer.

### What the code does that its comments do not say

- `paging_resume`: `pgfaddr` is one global; it is overwritten while the process is
  blocked, so it maps somebody else's page number.
- `remote_late`: a reply with a lower sequence number clears `xmit` and falls through
  to the test of its type, so the late answer to one read becomes the answer to the
  next, of another block.
- `files_overlap`: `lflclose` flushes without `lf_mutex`. `lfibput` reads the sector of
  the index block, loses the processor to a call that puts another file's index block
  into the same sector, and writes the sector back without it: that file's data blocks
  have no owner. `lfibput.c:6` assumes that the mutex is held.
- `tty_out`: a writer that was woken and has not run counts as one that has put its
  character (`ttyhandle_out.c:57`), so the next burst sends what its slot held before.

Met on the way, without a run of their own:

- *Paging.* `invtakeframe` compares a frame number with a number of entries
  (`framemgmt.c:214`). `evictframe` does not invalidate the TLB for the victim
  (`pgfutil.c:138`). `framewakeup` in `kill` runs the process that is being killed,
  which may fault and get a page table of region D that nobody frees (`kill.c:42`):
  `DFramesOwned` does not hold in workloads where a process kills another, and
  `paging_reuse` has none. A process killed while it waits for a frame stays in
  `fbqueue`, and the ring has no check (`frameblock.c:17`): with one frame in each of E1 and
  E2, a third process that waits for a page, and main who creates a child and kills it
  while it waits, four times, the ring goes from third, child, child, child to child
  alone, and the third process is forgotten. It takes more creations than slots
  (`BlockedQueued`), and no comment says otherwise, so that there is no run of it. `kill` frees the directory of a
  process that is switched to once more. `pgfdisp` reads a saved register where the
  error code should be (`ErrBits` stands for it). A page table in a reused frame
  inherits the old reference count, and a process that comes back from `frameblock`
  counts a page that was another's: `RefcntExact` is checked without exits, and with
  frames enough that nobody blocks.
  Giving up a rejected frame in `swapframe` frees nothing.
- *Kernel.* `send` in `kill` runs the parent of the victim, which may kill it too;
  `prcount` goes down twice and the machine stops with a process left (`kill.c:24`). A
  `recvtime` of 0 goes to the front of the delta list and takes the next tick from all
  behind it: who sleeps wakes late, and never if somebody keeps calling it. That is
  why `DelayExact` is an inequality in the workload that has such calls, and
  `TimedWaitsEnd` leaves it out. `chprio` neither moves a process in the ready list
  nor reschedules, so `HighestRuns` leaves out the workload that has it.
- *Remote disk.* The loop at `rdsread.c:103` never advances: a reader whose block is
  not the newest in the cache spins for ever ("spins"). `rdsprocess.c:110-119` answers
  any request for the block that was read, a write too, and unlinks it with the links
  of the wrong buffer. Two processes may be in `rdscomm` with one UDP slot
  (`rdscontrol.c:91`). `RDS_CTL_SYNC` never signals `rd_reqsem` (`rdscontrol.c:65`), so
  it returns after somebody else's next request. A refused ID leaves `RD_PEND`
  (`rdsopen.c:31`). After a reboot, the server
  ignores the numbers of the new life until number 1 gets through
  (`rdserver.c:150`). Error replies of a server on a little-endian host are successes
  (section 2): a refused open or write counts as done, and a read behind the end of the disk
  returns what was in memory. `rdswrite` takes a cached buffer that a woken process counts
  on, and `rdsbufalloc` panics (`rdswrite.c:57`).
- *Backing store.* Nobody signals the third of three processes in `psinit`
  (`psinit.c:12`). `deallocate_bs` tests `usecount` and then waits
  (`deallocate_bs.c:25`). `close_bs` takes `usecount` below zero.
- *Network.* An ARP entry may be given to another host before the process that waited
  for it runs (`arp.c:148`): `ToNextHop` has the exception. The head of an ICMP queue
  wraps at `ICMP_SLOTS` = 10, its tail at `ICMP_QSIZ` = 8 (`icmp.c:201`, `icmp.c:340`), so that with
  the ninth reply of an endpoint the head leaves the queue, and `icmp_recv` and
  `icmp_release` take what is behind it; and `icmp_in` does not look for room
  (`icmp.c:86`), so a ninth reply to one who does not receive overwrites the first. The run
  has 3 and 2, meets both, and `BuffersOnce` says nothing afterwards. `ipout` takes a packet some time
  after its wait, when the place may have been filled again (`ip.c:370`), the third exception of
  `BuffersOnce`. Error paths of
  `ip_send` and `icmp_send` return with interrupts disabled (`ip.c:161`,
  `icmp.c:243`). `dhcp.c:49` calls the transaction ID unique, but it is four of the six
  bytes of the MAC address, so an answer to another host may be taken for one's own
  (section 2). `getlocalip` leaves its UDP slot registered on two error paths
  (`dhcp.c:124`, `dhcp.c:183`). A file longer than the caller's buffers is cut off
  without an error ("truncated").
- *Remote files.* Opening a new file, or deleting one, fails if the first reply was
  lost, although it was done: the second attempt is refused. The size of a file is
  returned without a look at the status or at the device's state (`rfscontrol.c:103`).
- *Local files.* `lfsopen` copies the name with `*to = *from++` (`lfsopen.c:161`), so every
  control block has the empty name, the test of `lfsopen.c:46-74` never matches, and a file may
  be opened twice, with two copies of its blocks. It looks for the file before it takes
  the mutex. A flush of one file may clear the mark that another's `lflputc` has just set
  (`lfflush.c:21-24`, `lflputc.c:51-54`). A new empty file is not marked as a change of the directory.
- *Ports, memory.* `semcreate`'s result is not looked at in `ptcreate`. `freemem`
  lets the address `maxheap` pass (`freemem.c:20`). `mkbufpool` does not give its
  memory back when no semaphore is left (`mkbufpool.c:39`).
- *Terminal.* Killing a line that crosses the end of the ring moves the head where it
  should wrap the tail ("kill", `ttyhandle_in.c:99`); a newline is stored in a full ring
  ("full", `:124`); the test for a full ring does not count the characters of readers that
  were woken and have not run ("full" too, `:137`); the tail is not wrapped behind an end
  of file ("eof", `:156`). The model takes all of these steps, and `slips` names them.

## 4. Proofs

A run shows a property for one small instance, a theorem for all values of the
constants that satisfy the assumptions. These are

- `FramesAssumption` (`Frames`): region sizes and `FRAME0` are positive naturals, `NULLPROC` is a process, `FR_PTEUNUSED` a reference;
- `HeapAssumption`: a heap has a page, and `Beyond` is a truth value;
- `MemoryAssumption`: the numbers of units, pools and semaphores are naturals, there is a
  unit, and there are finitely many processes;
- `PortAssumption`: there is a port, the sizes of ports and `MaxSeq` are naturals, and
  nodes and processes are finitely many;
- `NetAssumption`: clients are other processes than `netin` and `ipout`, `NULL` is no buffer,
  the sizes of tables are naturals and the two queues have a place, the ICMP queue no more places
  than there are slots (`icmp.h` has 8 and 10), and an ARP message names the address of its sender;
- `KernelAssumption`: there are a null process and users, `QUANTUM > 0`, a workload
  names calls of users, priorities above 0 and delays from 0 on;
- `PagingAssumption`: there are finitely many processes, whose priorities are naturals and the null process has the lowest (it
  has 0, and `create` refuses less than 1); `init_paging` leaves a frame of D free for
  its own; E1 ends inside of the table (`FRAME0_E2 <= NFRAMES`; in `paging.h` E2
  begins at 3048 and the table has 3072 entries, so that the frames `invtakeframe`
  refuses are in E2 only); the null process creates main and then idles; pages and
  values are numbers other than 0, which stands for none.

TLC evaluates all of them for the constants of the runs.

### Frame allocator

| theorem | says |
|---|---|
| `Invariance` | `Inv` holds in every reachable state |
| `TypeCorrect`, `StacksSound`, `NothingLost`, `VictimsExact` | its four conjuncts; the last three are invariants of run `allocators` |
| `RoomToFree` | the stack-full errors of `invfreeframe` cannot happen |
| `FirstInFirstOut` | the queue of victims is never reordered |
| `Implementation` | `ImplementsFrameMgmt`: arrays, pointers and links (`InvPt`) take only steps of `FrameMgmt` |
| `ListTwoWays` | `ListSound`: the list of used frames is the same read from either end |

`Inv == TypeOK /\ FreeStackSound /\ NoFrameLost /\ EvictExact` is inductive. None of
its parts is on its own: that a release keeps the stack injective needs that a used
frame is on no stack; that an allocation keeps the queue exact needs that a free
frame is in no queue. `RoomToFree` is a counting argument on top of it: the stack
holds distinct frames of its region, and the frame that is released is not among
them, so it is not full.

The lemmas `Take` and `Give` of `FrameLemmas` say what taking and giving up one frame
does to a table in order (`InOrder`, all of `Inv` but `NoFrameLost`). `Paging` calls
the same functions, so its proofs rest on the same two lemmas; `NoFrameLost` is not
among what they keep because a frame that `invtakeframe` refuses is lost there.

`Implementation` rests on `IInv`: the live part of each array is a stack, and the
links thread one sequence of frames, in both directions and with both ends right
(`Threads`). An insertion appends to that sequence, and a removal, at an end or in the
middle, takes the frame out of it (`ThreadsInsert`, `ThreadsRemove`). The queue
that the refinement maps to is what a walk along the links reads. That a walk of as
many hops as E1 has frames reads the whole sequence (`WalkIs`) takes an induction over
its hops, and the pigeonhole principle, by which no queue is longer
than E1. All functions of `FrameMgmt` are then the very operators of `Frames`, so that
the lemmas `Take` and `Give` serve here too.

### Virtual heap, kernel memory and buffer pools

| theorem | says | for |
|---|---|---|
| `HeapImplementation` | `ImplementsHeap`: every answer of `VHeap` is one that `HeapSpec` allows | `~Beyond` |
| `HeapStaysSound` | `HeapSound`: the free list is in order and lies in marked pages | `~Beyond` |
| `MemoryImplementation` | `ImplementsMemory`: the same of `Memory` | |
| `PoolsStaySound` | `PoolsSound`: no buffer is lost, and who is woken finds one | |

Both heaps are lists of blocks, in order, that do not touch (`Whole`). The lemmas are
about such lists: giving up one end of a block (`TakeLow`, `TakeHigh`), taking in a run
(`GiveBlock`, by way of a list in which the new block and the next still touch, which
`JoinOrdered` repairs), and the two that make the answers right. `RunInBlock` says that
a run of free pages lies in one block, so that a request that no block satisfies is one
that no run of free pages could. It takes an induction over the run, and is where blocks
that touch would hurt. `ClashOrBetween` says that the run to be returned either meets a
free block, when the overlap test of the code sees it, or lies between
two neighbours; the test looks at these two only.

`HInv` is that, with the length in `prmemblk` the number of free pages, and every page
that is held or holds a node marked. It speaks of `FreeList`, `Length` and `Marks`, which are
what `vmhinit` makes of them before any call. That a page given back must be held takes
both tests of `vmhfreemem`: a page between two free blocks is held, and
all held pages are marked. `~Beyond` says that the byte behind `pralloc`, the state of the
next process entry, is 0. The code lets a run end behind the heap, and if
the byte is not 0 it takes the run in: `HeapSpec` does not.

For pools, `PInv` says, on top of `MList`, that each buffer is in its list or with one process
(`FreeSound`, `BufsInv`) and that as many processes sleep in `getbuf` as the
count of the semaphore is below 0 (`QueueSound`). Who is in `getbuf` and awake is one of
more than those who sleep, so the list, whose length is the count plus all of them, is
not empty. `freebuf` keeps that when it wakes somebody, though others may call `getbuf`
before that one runs.

### Ports

| theorem | says |
|---|---|
| `PortsStaySound` | `PortsSound`: counts and list of each port agree, every node is free or in one port, and messages are of the present life |
| `ReceivesMessage` | whoever has passed the semaphore in the same life of the port finds a message, for which `ptrecv` does not look |

`PtInv` adds to the two parts of `PortsSound` (`SemsInv`, `NodesInv`)

- that no process remembers a life of its port later than the present one
  (`LivesKnown`), so that the next life begins with nobody in it;
- that those who sleep on a semaphore of a live port are in its present life, each once,
  and as many as its count is below 0 (`SemSound`). With the count equal to the length
  of the list less all receivers of this life, one of whom is awake, the list has a message;
- that a port in limbo has one process that clears it, and, if it is reset, a list and
  semaphores fit for the next life (`OneClears`, `Emptied`): between the two
  calls of `semdelete` others run, and may wake in their turn.

### Network

| theorem | says |
|---|---|
| `BuffersAreOnce` | `BuffersOnce`: a buffer of the pool is in one place, once, until an ICMP queue is overrun, its head leaves it, or the output queue is filled under `ipout` |
| `PacketsLeaveToNextHop` | `ToNextHop`: a packet goes to its next hop, unless its ARP entry was reused meanwhile |
| `NobodySleepsOverPacket` | `NoSleepOverPacket`: who waits in `udp_recv` has an empty queue and is known there |
| `PendingEntriesHaveWaiter` | `PendingHasWaiter`: a pending entry has the process that asked for it |

A handler is a chain of calls, and the invariant must hold between two of them as well.
`Sound(n, P, H)` therefore speaks of a state `n` in the middle of a handler: `P` are the
processes on their way, whose records say nothing yet, and `H` the buffers that the handler has
in hand. Each function of `Net` has one lemma: taking a buffer adds to `H`, `freebuf`
and the queues remove from it, and a wait ends the way of the process, with its buffers in its
record. Where a loop frees all packets of an endpoint (`udp_release`, `icmp_release`), `Drains`
goes through it packet by packet. `NetInv` is `Sound(net, {}, {})`.

`Sound` has two parts. `Core` holds whatever happens: who waits for a buffer is in the list of
the pool and not twice (`Waiters`); an endpoint or an ARP entry and the process that waits there
know of each other (`UdpSide`, `IcmpSide`, `ArpSide`). The last two theorems are read off it.
`Good` is claimed until a queue has been overwritten, where the runs and `Next` end: every buffer
has one place (`Sited`), the entry that a process waits for is that of its packet's next hop
unless an entry was reused unread (`Routes`, from which `ToNextHop`), the ICMP queues are
rings with as many packets as they count, wherever the head is as long as it is in the
queue, and the output queue has as many as its
semaphore says, one more if `ipout` is between its wait and the taking of the packet
(`Output`). That one is what makes `overtaken` possible.

### Process manager

| theorem | says |
|---|---|
| `KernelInv` | `KInv` holds in every reachable state, for every workload |
| `KernelQueues`, `KernelSemaphores`, `KernelMessages`, `KernelPriorities` | invariants of run `kernel` that follow from it |
| `KernelDelays` | the sums of the delta list are what the sleepers still have to sleep |

`KInv` says of the tables (`Right`): their types; every process is on exactly the
queue that its state calls for (`Queued`); a semaphore's count and its queue agree
(`Counts`); nobody waits for a message at hand (`Heard`); and, in workloads without
`chprio`, the keys in the ready list are the priorities of its processes and the
one that runs has the highest (`Keyed`, `Top`). `HighestRuns` alone is not
inductive: when a process blocks, the next one to run is the first of the ready
list, so that list must be in order and its keys must be true. Between `DEFER_START`
and `DEFER_STOP` the tables are only `Half` right: the processes that a loop has still
to make ready are on no queue (the set `out`), and a better process than the one that
runs may be ready. `ReadyAllRight` goes through such a loop round by round, and the
`resched` behind it makes the tables right again.

`KernelDelays` needs sums over the list. They are a recursive function
(`Delay(list, i)`), and `insertd`, `unsleep` and the tick of `clkhandler` are shown to
change the sum at every place of the list as they should: the entry that comes
in takes its delay from the next one, which is where an error of one would sit.

### Demand paging

| theorem | says | for |
|---|---|---|
| `PagingTypes` | every variable has its type; no stack outgrows its array, an entry that is present or swapped names a frame of E1 or E2 | every workload |
| `PagingScheduler` | `SchedulerSound` | every workload |
| `PagingBlocked` | `BlockedQueued`: who is blocked for a frame is in the ring, for ever under `SelfKills`, else until more processes were created than it has slots | every workload |
| `PagingDFrames` | `DFramesOwned`: region D does not leak | `SelfKills` |
| `PagingPanic` | `PanicMeansShort` | `SelfKills` |
| `PagingWakeups` | `NoLostWakeup` | `SelfKills` |
| `PagingDataIntegrity` | `DataIntegrity`: a page holds what was written last | `SelfKills`, `Careful` |
| `PagingNothingStale` | `NothingStale`: page tables, inverted page table and TLB agree | `SelfKills`, `Careful` |

`PInv`, the invariant for every workload, joins the types, a frame table in order with
page tables whose bases are in E1 if present and in E1 or E2 if swapped (`VmOK`), and
the tables of the scheduler. Those are right only as long as no stray `framewakeup` has
readied a process that is not blocked ("wild", section 2).

`PagingBlocked` has two halves. With kills by others the ring may hold entries of dead
processes, and it is a count that keeps it from running full: each entry is paid for by a
creation, since an entry and a process that neither waits nor is free never outnumber the
creations together (`EntriesPaid`): to put an entry into the ring a process must stop being
awake, to be awake again it must be woken, which empties the ring, or be created anew. So as long as
no more processes were created than there are slots, whoever blocks finds room
(`BInv`). Under `SelfKills` there are no such entries, each process is in the ring at most
once (`Waiters`), and there is always room (`RingRoom`).

`SelfKills` says that processes end by exit and by faults on pages they do not have,
and by nothing else. It is not there to make the proof easy: with a `kill` of another
process, the victim may be in the middle of something. It may be made to run by the
`framewakeup` of its own kill, fault, and get a page table that nobody frees
(`DFramesOwned`, `PanicMeansShort`); and a victim that waits for a frame stays in
`fbqueue`, so that a later wakeup readies a process that does not exist. Those are
errors of the code (section 3), found with workloads that have such kills; `paging_reuse`,
which checks `DFramesOwned` and `PanicMeansShort`, has none, and `paging_block`, which has them, leaves
these two out.

`OInv` is the invariant then. To `PInv` it adds

- `Selves`: who is in `kill` kills itself;
- `RegionD`, both ways: the directory of a process and its page table are frames of
  its own (`Dirs`), every frame of D in use is one of these (`Owned`), and a frame of D
  that is free is on the stack (`Stacked`). `DFramesOwned` is `Owned`; that `kill` gives
  up no frame of somebody else and `newpt` gets none that is in use needs the
  other two;
- `Waiters`: the ring holds those who are blocked, once each. With it `NoneAstray` shows
  that under `SelfKills` no wakeup goes astray;
- `Short`: after a panic the stack of D is empty, with `Stacked` and `Owned` what
  `PanicMeansShort` says;
- `NoLostWakeup`, which is inductive with the rest: if a step makes a frame free while
  somebody waits, it is a step of `kill`, and its `framewakeup` comes before anything
  that could take the processor from it for good.

The lemmas of `PagingProofs` are about the calls: what `mapfreeframe`, `evictframe`, `restoreframe`, a served
fault, the loop of `kill` and `vmhfreemem` do to the table (the `...Shape` lemmas) and
that all but `newpt`, `newpd` and `kill` leave region D alone (the `...Keeps` lemmas).

`PagingDataIntegrity` and `PagingNothingStale` (`PagingData`) are about behaviours whose
steps are `Careful`, a hypothesis about steps and not a guard of the model. It leaves out
the two defects that break these properties, each at the step where it strikes, and
nothing else:

- a process comes back from `frameblock` while a frame is free, but `pgfaddr`, which the
  handler still reads (`pgfhandler.c:100-121`), has been set by another fault since. If
  it finds no frame it may do so: it stores its address and waits again;
- the handler evicts a page that the running process has in the TLB, which nobody
  invalidates (`pgfutil.c:102-149`).

Run `paging_resume` shows the first; the second would break every property about
contents (section 3), so that in `paging_reuse`, the run with a TLB, no process has two
pages at a time. In the other runs about contents neither can strike. Evictions, restores, swaps, waiting, exits and the reuse of frames by new processes all
stay. `DInv`, the invariant, adds to `OInv`

- `Linked` for the entries of the page tables that are in use (`Refs`): an entry that is
  not absent leads to a used frame whose `fr_pte` is that entry and whose `fr_pid` is
  the process of the table (`Down`), no two entries lead to the same frame
  (`Apart`), and a used frame of E1 or E2 is led to by the entry in its `fr_pte`,
  present from E1 and swapped from E2 (`Up`). `TablesAgree` is `Up`; none of the three
  is inductive without the others;
- `Intact`: what `DataIntegrity` says, for the contents of the frames;
- `Blocked`: the page for which a process waits has a table and no frame yet, without which
  `FaultResumes` would map a page twice;
- `Translates`: the TLB holds entries of the running process only, and current ones.

A step changes few entries and few frames. `Maps`, `Releases` and `Moves` say what the
three kinds of change do (a frame for an absent entry, an entry and its frame given
up, a page from one frame to another), and `Carried` that all other entries keep their
contents, wherever they move; the lemmas on the calls, and the two loops that
unmap (`kill`, `vmhfreemem`), reduce to these.

### How, and what is left

The provers take no operator as an argument, so the induction theorems of the library
cannot be used. `ListLemmas` states induction over naturals with a set in the
place of a predicate (`LeastNat`, `InductTo`, `Induct`, proved from the well-founded
order of finite sets), which is how the loops of `kill`, `framewakeup` and
`signaln`, and the recursive functions they are written as, are dealt with.

Model-checked only:

- liveness (`kernel`, `remote`, `net`), which needs ENABLED;
- the refinements of `BlockStore` and `FileSpec`, `BuffersSound` of `remote` and `BlocksOwned` of `parts`.
  `LocalFs` walks its lists with
  RECURSIVE operators, which the prover does not accept;
- of `parts`, `StoresKept`, `BootsRight`, `ConsoleSound` and `RemoteFilesKept`: what they compare
  with is a history, of what was typed, written or sent, and no proof relates it to rings
  and messages yet;
- `RefcntExact` of `Paging`, which the code does not keep when a frame becomes a page
  table for the second time or a process waits for a frame, and its other properties where processes kill others.

## 5. Not modelled

- *Register-level drivers (`device/eth`, `sdmc`, `uart`, `gpio`, `spi`), start-up,
  interrupts (`clkinit`, `evec`).* Their effects are those of hardware.
- *Names, RAM disk, memory marks, shell, tests, `compile/`.* Sequential code without
  shared state, or tools of the build.
- *Parts of modelled components.* Raw and cbreak mode of the terminal; `lflread` and
  `lflwrite`, loops over `lflgetc` and `lflputc`, and crashes of the machine between two
  writes of the file system, from which it has no recovery; the server's table of
  several disks; directories and sizes of remote files; packet layout and checksums; `newqueue`, stacks, seconds of the clock.

## 6. Plan

1. `RemoteDisk`: `BuffersSound`, in the manner of `NetInv`.
2. `Paging`: `RefcntExact`, for behaviours in which no process ends or blocks.
3. `BackingStore` and `RemoteFs`: `StoresKept` and `RemoteFilesKept`.
