---- MODULE LocalFs ----
(***************************************************************************)
(* The local file system (device/lfs).  fs is its state: the disk, the     *)
(* copy of the directory in memory and a control block for each open file, *)
(* with the index block and the data block that it works on.  A helper is  *)
(* a function from one state to the next, so that a call reads as the code *)
(* does.  The calls of one file exclude each other with the file's mutex.  *)
(* lfsetup, lftruncate and lfsopen work under lf_mutex, and a call that    *)
(* needs them is one step.  lflclose flushes without lf_mutex: it takes a  *)
(* step up to each point where what the files share is between two states. *)
(***************************************************************************)
EXTENDS Integers, Sequences, FiniteSets
CONSTANTS Names, Devices, Bytes,
          LF_BLKSIZ, LF_IBLEN, LF_NUM_DIR_ENT,
          IBS,                  \* index blocks in a sector (7)
          ISECTORS, DBLKS,      \* sectors with index blocks, data blocks of the disk
          Overlap,              \* may a call begin while a file is being closed?
          MaxPuts,              \* bound: calls of lflputc
          EOF, NULL
VARIABLES fs,                   \* see above
          closing,              \* how far lflclose is with each file, and its dbuff
          got,                  \* what the call returned, when it was lflgetc
          puts                  \* calls of lflputc so far, for the bound only
vars == <<fs, closing, got, puts>>

LF_IDATA == LF_BLKSIZ * LF_IBLEN
ISector == 0 .. ISECTORS - 1
DBlocks == 0 .. DBLKS - 1
Offsets == 0 .. LF_BLKSIZ - 1
DFILL == NULL
ib2sect(ib) == ib \div IBS
ib2disp(ib) == ib % IBS
lfibclear(offset) == [next |-> NULL, offset |-> offset, dba |-> [i \in 0 .. LF_IBLEN - 1 |-> NULL]]
Data(bytes) == [next |-> NULL, bytes |-> bytes]
FreeData(next) == [next |-> next, bytes |-> [i \in Offsets |-> DFILL]]
Filled == [i \in Offsets |-> DFILL]

(***************************************************************************)
(* lfscreate: every index block and every data block is on its free list.  *)
(***************************************************************************)
NewDir == [dfree |-> 0, ifree |-> 0, files |-> <<>>]
lfscreate == [dir |-> NewDir,
              ib |-> [s \in ISector |-> [k \in 0 .. IBS - 1 |->
                        [lfibclear(0) EXCEPT !.next = IF s * IBS + k + 1 = ISECTORS * IBS THEN NULL ELSE s * IBS + k + 1]]],
              d |-> [b \in DBlocks |-> FreeData(IF b + 1 = DBLKS THEN NULL ELSE b + 1)]]
lflinit == [used |-> FALSE, entry |-> NULL, name |-> NULL, pos |-> 0, inum |-> NULL, ib |-> lfibclear(0), dnum |-> NULL,
            block |-> Filled, byte |-> LF_BLKSIZ, ibdirty |-> FALSE, dbdirty |-> FALSE]
lfsinit == [disk |-> lfscreate, dir |-> NewDir, present |-> FALSE, dirty |-> FALSE,
            fl |-> [v \in Devices |-> lflinit], panic |-> FALSE]
NotClosing == [at |-> "no", dbuff |-> NULL]
Init == fs = lfsinit /\ closing = [v \in Devices |-> NotClosing] /\ got = NULL /\ puts = 0

(***************************************************************************)
(* Blocks of the disk and the two free lists.                              *)
(***************************************************************************)
WriteDir(f) == [f EXCEPT !.disk.dir = f.dir]
Clean(f) == [f EXCEPT !.dirty = FALSE]
lfibget(f, n) == f.disk.ib[ib2sect(n)][ib2disp(n)]
lfibput(f, n, ib) == [f EXCEPT !.disk.ib[ib2sect(n)][ib2disp(n)] = ib]
lfiballoc(f) == Clean(WriteDir([f EXCEPT !.dir.ifree = lfibget(f, f.dir.ifree).next]))
lfdballoc(f) == Clean(WriteDir([f EXCEPT !.dir.dfree = f.disk.d[f.dir.dfree].next]))
lfdbfree_Lost(f, b) == WriteDir([f EXCEPT !.disk.d[b] = FreeData(f.dir.dfree)])
lfdbfree(f, b) == WriteDir([f EXCEPT !.dir.dfree = b, !.disk.d[b] = FreeData(f.dir.dfree)])

FlushData_Not(f, v) == [f EXCEPT !.fl[v].dbdirty = FALSE]
FlushData(f, v) == IF ~f.fl[v].dbdirty THEN f
                   ELSE [f EXCEPT !.disk.d[f.fl[v].dnum] = Data(f.fl[v].block), !.fl[v].dbdirty = FALSE]
FlushDir(f) == IF f.dirty THEN Clean(WriteDir(f)) ELSE f
FlushIndex(f, v) == IF f.fl[v].ibdirty THEN [lfibput(f, f.fl[v].inum, f.fl[v].ib) EXCEPT !.fl[v].ibdirty = FALSE] ELSE f
lfflush(f, v) == FlushIndex(FlushData(FlushDir(f), v), v)

(***************************************************************************)
(* lfsetup.                                                                *)
(***************************************************************************)
Entry(f, v) == f.dir.files[f.fl[v].entry]
Loads(f, v, n) == [f EXCEPT !.fl[v].ib = lfibget(f, n), !.fl[v].inum = n]
Extends(f, v, offset) == LET n == f.dir.ifree IN
    [lfiballoc(f) EXCEPT !.fl[v].ib = lfibclear(offset), !.fl[v].inum = n, !.fl[v].ibdirty = TRUE]

\* An index block of the file is in memory.
FirstIndex(f, v) ==
    LET c == f.fl[v] IN
    IF c.inum = NULL /\ Entry(f, v).ilist = NULL
    THEN [Extends(f, v, 0) EXCEPT !.dir.files[c.entry].ilist = f.dir.ifree]
    ELSE IF c.inum = NULL \/ c.pos < c.ib.offset THEN Loads(f, v, Entry(f, v).ilist) ELSE f

\* The next index block of the file, a new one at its end, whose number the one
\* before holds on disk at once.
NextIndex(f, v) ==
    LET c == f.fl[v]
        m == Extends(f, v, c.ib.offset + LF_IDATA)
    IN [IF c.ib.next # NULL THEN Loads(f, v, c.ib.next)
        ELSE lfibput(m, c.inum, [c.ib EXCEPT !.next = f.dir.ifree]) EXCEPT !.fl[v].dnum = NULL]
Covers(c) == c.pos - (c.pos % LF_IDATA) <= c.ib.offset
RECURSIVE Reaches(_, _)
Reaches(f, v) == IF Covers(f.fl[v]) THEN f ELSE Reaches(NextIndex(f, v), v)

DataBlock(f, v) ==
    LET c == f.fl[v]
        i == (c.pos % LF_IDATA) \div LF_BLKSIZ
        b == c.ib.dba[i]
    IN IF b = NULL THEN [lfdballoc(f) EXCEPT !.fl[v].block = Filled, !.fl[v].ib.dba[i] = f.dir.dfree,
                                             !.fl[v].ibdirty = TRUE, !.fl[v].dnum = f.dir.dfree]
       ELSE IF b # c.dnum THEN [f EXCEPT !.fl[v].block = f.disk.d[b].bytes, !.fl[v].dbdirty = FALSE, !.fl[v].dnum = b]
       ELSE f
Flushed(f, v) == IF f.fl[v].ibdirty \/ f.fl[v].dbdirty THEN lfflush(f, v) ELSE f
lfsetup(f, v) == LET m == DataBlock(Reaches(FirstIndex(Flushed(f, v), v), v), v)
                 IN [m EXCEPT !.fl[v].byte = m.fl[v].pos % LF_BLKSIZ]

\* What an allocation needs; without it the system panics.
NeedsIndex(f, v) == LET c == f.fl[v] IN
    \/ c.inum = NULL /\ Entry(f, v).ilist = NULL
    \/ c.pos = Entry(f, v).size /\ c.pos % LF_IDATA = 0
NeedsData(f, v) == f.fl[v].pos = Entry(f, v).size /\ f.fl[v].pos % LF_BLKSIZ = 0
Short(f, v) == \/ NeedsIndex(f, v) /\ f.dir.ifree = NULL
               \/ NeedsData(f, v) /\ f.dir.dfree = NULL
Outside(c) == c.byte >= LF_BLKSIZ
SetUp(f, v) == IF Outside(f.fl[v]) THEN lfsetup(f, v) ELSE f

(***************************************************************************)
(* The calls on an open file.                                              *)
(***************************************************************************)
Turn == Overlap \/ \A v \in Devices : closing[v] = NotClosing
Uses(v) == ~fs.panic /\ fs.fl[v].used /\ closing[v] = NotClosing /\ Turn
Grows(f, v) == IF f.fl[v].pos < Entry(f, v).size THEN f
               ELSE [f EXCEPT !.dir.files[f.fl[v].entry].size = @ + 1, !.dirty = TRUE]
Puts(f, v, ch) == [f EXCEPT !.fl[v].block[f.fl[v].byte] = ch, !.fl[v].byte = @ + 1,
                            !.fl[v].pos = @ + 1, !.fl[v].dbdirty = TRUE]

lflputc(v, ch) == /\ Uses(v) /\ fs.fl[v].pos <= Entry(fs, v).size /\ puts < MaxPuts
                  /\ fs' = IF Outside(fs.fl[v]) /\ Short(fs, v) THEN [fs EXCEPT !.panic = TRUE]
                           ELSE Puts(Grows(SetUp(fs, v), v), v, ch)
                  /\ puts' = puts + 1 /\ got' = NULL /\ UNCHANGED closing
lflgetc(v) == LET m == SetUp(fs, v) IN
    /\ Uses(v) /\ UNCHANGED <<closing, puts>>
    /\ IF fs.fl[v].pos >= Entry(fs, v).size THEN got' = EOF /\ UNCHANGED fs
       ELSE /\ got' = m.fl[v].block[m.fl[v].byte]
            /\ fs' = [m EXCEPT !.fl[v].byte = @ + 1, !.fl[v].pos = @ + 1]
lflseek(v, offset) == /\ Uses(v) /\ offset <= Entry(fs, v).size
                      /\ fs' = [fs EXCEPT !.fl[v].pos = offset, !.fl[v].byte = LF_BLKSIZ]
                      /\ got' = NULL /\ UNCHANGED <<closing, puts>>

(***************************************************************************)
(* lftruncate.  The index blocks go to the front of the free list, the     *)
(* last one points to the list as it was.                                  *)
(***************************************************************************)
FreeAll(f, ib) == LET Step(g, i) == IF ib.dba[i] = NULL THEN g ELSE lfdbfree(g, ib.dba[i])
                      free[i \in 0 .. LF_IBLEN] == IF i = 0 THEN f ELSE Step(free[i - 1], i - 1)
                  IN free[LF_IBLEN]
RECURSIVE Frees(_, _, _)
Frees(f, n, ifree) ==
    IF n = ifree THEN f
    ELSE LET ib == lfibget(f, n)
             next == IF ib.next = NULL THEN ifree ELSE ib.next
         IN Frees(lfibput(FreeAll(f, ib), n, [lfibclear(0) EXCEPT !.next = next]), next, ifree)
lftruncate(f, v) ==
    LET c == f.fl[v]
        m == Flushed(f, v)
        first == Entry(m, v).ilist
        e == [m EXCEPT !.fl[v] = [@ EXCEPT !.pos = 0, !.inum = NULL, !.dnum = NULL, !.byte = LF_BLKSIZ],
                       !.dir.files[c.entry] = [@ EXCEPT !.ilist = NULL, !.size = 0]]
    IN IF Entry(f, v).size = 0 THEN f
       ELSE [Frees(e, first, m.dir.ifree) EXCEPT !.dir.ifree = first, !.dirty = TRUE]
lflcontrol(v) == Uses(v) /\ fs' = lftruncate(fs, v) /\ got' = NULL /\ UNCHANGED <<closing, puts>>

(***************************************************************************)
(* lfsopen and lflclose.                                                   *)
(***************************************************************************)
Free(f) == {v \in Devices : ~f.fl[v].used}
\* lfname is compared, which the copy of the name leaves empty.
lfname(name) == ""
IsOpen(f, name) == \E v \in Devices : f.fl[v].used /\ f.fl[v].name = name
OpenNow(f) == {Entry(f, v).name : v \in {w \in Devices : f.fl[w].used}}
Found(dir, name) == {i \in DOMAIN dir.files : dir.files[i].name = name}
Created(dir, name) == [dir EXCEPT !.files = Append(@, [name |-> name, size |-> 0, ilist |-> NULL])]
Opened(dir, name) == IF Found(dir, name) # {} THEN dir ELSE Created(dir, name)

\* mode: "o", the file must exist, "n", it must not, or "", both will do.
lfsopen(v, name, mode) ==
    LET dir == IF fs.present THEN fs.dir ELSE fs.disk.dir
        i == CHOOSE j \in Found(Opened(dir, name), name) : TRUE
    IN /\ ~fs.panic /\ Turn /\ v \in Free(fs) /\ ~IsOpen(fs, name)
       /\ IF Found(dir, name) = {} THEN mode # "o" /\ Len(dir.files) < LF_NUM_DIR_ENT ELSE mode # "n"
       /\ fs' = [fs EXCEPT !.present = TRUE, !.dir = Opened(dir, name),
                           !.fl[v] = [lflinit EXCEPT !.used = TRUE, !.entry = i, !.name = lfname(name)]]
       /\ got' = NULL /\ UNCHANGED <<closing, puts>>

\* lflclose, which does what lfflush does: the directory is written here, and
\* marked as clean in a step of its own.
lflclose(v) == /\ Uses(v)
               /\ fs' = IF fs.dirty THEN WriteDir(fs) ELSE fs
               /\ closing' = [closing EXCEPT ![v].at = IF fs.dirty THEN "written" ELSE "clean"]
               /\ UNCHANGED <<got, puts>>
CleansDir(v) == /\ closing[v].at = "written"
                /\ fs' = Clean(fs) /\ closing' = [closing EXCEPT ![v].at = "clean"]
                /\ UNCHANGED <<got, puts>>

Closed(f, v) == /\ fs' = [f EXCEPT !.fl[v] = lflinit]
                /\ closing' = [closing EXCEPT ![v] = NotClosing]
                /\ got' = NULL /\ UNCHANGED puts
\* The data block is written.  lfibput reads the sector of the index block ...
ReadsSector(v) ==
    /\ closing[v].at = "clean"
    /\ IF ~fs.fl[v].ibdirty THEN Closed(FlushData(fs, v), v)
       ELSE /\ fs' = FlushData(fs, v)
            /\ closing' = [closing EXCEPT ![v] = [at |-> "read", dbuff |-> fs.disk.ib[ib2sect(fs.fl[v].inum)]]]
            /\ UNCHANGED <<got, puts>>
\* ... and writes it as it was, but for that index block.
WritesSector(v) ==
    LET n == fs.fl[v].inum IN
    /\ closing[v].at = "read"
    /\ Closed([fs EXCEPT !.disk.ib[ib2sect(n)] = [closing[v].dbuff EXCEPT ![ib2disp(n)] = fs.fl[v].ib]], v)

\* Nobody opens a file that is open: the code would not notice.
Next == \E v \in Devices : \/ \E n \in Names \ OpenNow(fs), mode \in {"", "o", "n"} : lfsopen(v, n, mode)
                           \/ \E ch \in Bytes : lflputc(v, ch)
                           \/ \E o \in 0 .. LF_BLKSIZ * DBLKS : lflseek(v, o)
                           \/ lflgetc(v) \/ lflcontrol(v)
                           \/ lflclose(v) \/ CleansDir(v) \/ ReadsSector(v) \/ WritesSector(v)
Spec == Init /\ [][Next]_vars

(***************************************************************************)
(* Properties.                                                             *)
(***************************************************************************)
\* The index block n and the data block b as the file system sees them: on disk,
\* or in the control block of the file that is open.
Index(n) == IF \E v \in Devices : fs.fl[v].used /\ fs.fl[v].inum = n
            THEN (CHOOSE c \in {fs.fl[v] : v \in Devices} : c.used /\ c.inum = n).ib ELSE lfibget(fs, n)
Block(b) == IF \E v \in Devices : fs.fl[v].used /\ fs.fl[v].dnum = b
            THEN (CHOOSE c \in {fs.fl[v] : v \in Devices} : c.used /\ c.dnum = b).block ELSE fs.disk.d[b].bytes
RECURSIVE ByteAt(_, _)
ByteAt(n, k) == IF n = NULL THEN NULL
                ELSE IF k >= LF_IDATA THEN ByteAt(Index(n).next, k - LF_IDATA)
                ELSE LET b == Index(n).dba[k \div LF_BLKSIZ] IN IF b = NULL THEN NULL ELSE Block(b)[k % LF_BLKSIZ]
Dir == IF fs.present THEN fs.dir ELSE fs.disk.dir
Contents == [n \in Names |-> IF Found(Dir, n) = {} THEN NULL
                             ELSE LET e == Dir.files[CHOOSE i \in Found(Dir, n) : TRUE]
                                  IN [k \in 1 .. e.size |-> ByteAt(e.ilist, k - 1)]]
Open == [v \in Devices |-> IF fs.fl[v].used THEN [name |-> Entry(fs, v).name, pos |-> fs.fl[v].pos] ELSE NULL]

\* The data blocks: every one is on the free list or in one index block of one
\* file. That is so when calls do not begin while a file is being closed;
\* otherwise index blocks are lost, and their data blocks with them (OneIndexBlock).
RECURSIVE FreeList(_)
FreeList(b) == IF b = NULL THEN {} ELSE {b} \cup FreeList(fs.disk.d[b].next)
RECURSIVE Indexes(_)
Indexes(n) == IF n = NULL THEN {} ELSE {n} \cup Indexes(Index(n).next)
RECURSIVE FreeIndexes(_)
FreeIndexes(n) == IF n = NULL THEN {} ELSE {n} \cup FreeIndexes(lfibget(fs, n).next)
FileIndexes == [i \in DOMAIN Dir.files |-> Indexes(Dir.files[i].ilist)]
Users(b) == {<<i, n, k>> \in UNION {{i} \X FileIndexes[i] \X (0 .. LF_IBLEN - 1) : i \in DOMAIN Dir.files} :
                Index(n).dba[k] = b}
BlocksOwned == \A b \in DBlocks : Cardinality(Users(b)) = IF b \in FreeList(Dir.dfree) THEN 0 ELSE 1

\* lfibput writes "an index block to disk given its ID": the index blocks that
\* share its sector stay as they are (lfibput.c:6).
OneIndexBlock == [][\A v \in Devices : closing[v].at = "read" /\ closing'[v] = NotClosing =>
                      \A n \in 0 .. ISECTORS * IBS - 1 :
                          n # fs.fl[v].inum => lfibget(fs', n) = lfibget(fs, n)]_vars
====
