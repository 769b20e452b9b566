---- MODULE MCParts ----
(***************************************************************************)
(* The smaller parts of the system for TLC, each by itself and none with   *)
(* the others: `part' says which one a behaviour is about.  The variables  *)
(* of the others do not change: those of Ports stay in their initial       *)
(* state, the others stay NULL.                                            *)
(***************************************************************************)
EXTENDS Ports, TLC
CONSTANTS Procs, MAX_BS_ENTRIES, MAX_PAGES_PER_BS, RD_PAGES_PER_BS, BLOCKS_PER_PAGE, Values, Sizes, MaxCalls,
          Servers, Addresses, DHCP_RETRY, TFTP_MAXRETRIES, Ports, TFTP_PORT, Rooms,
          Readers, Writers, Text, TY_IBUFLEN, TY_OBUFLEN, TY_EBUFLEN, UART_FIFO_SIZE,
          Names, Nrfl, RF_RETRIES, RfMaxCalls,
          FileNames, Devices, Bytes, LF_BLKSIZ, LF_IBLEN, LF_NUM_DIR_ENT, IBS, ISECTORS, DBLKS, MaxPuts, EOF
VARIABLES part,
          bstab, sem, init, disk, pc, cpu, owns, written, calls,
          dhcp, netdata, tftp, wire, leases,
          ibuf, obuf, isem, osem, cursor, echo, opts, ier, rd, wr, ahead, line, owed, slips, left,
          rfltab, rfseq, rfcomm, rfwire, files, sure, doubt, got,
          fs, closing, char, puts

Store == INSTANCE BackingStore
Boot == INSTANCE NetBoot WITH File <- <<1, 2, 3>>

\* Much typing and no writing, or the other way round.
Console == INSTANCE Tty WITH Budgets <- {[keys |-> 4, reads |-> 2, writes |-> 0],
                                         [keys |-> 2, reads |-> 0, writes |-> 3]}

\* Modes without a letter, for reading what is there and for writing anew.
Remote == INSTANCE RemoteFs WITH Modes <- {<<>>, <<"r", "o">>, <<"n", "w">>}, Chunks <- {<<1>>, <<2, 1>>}

\* While a file is being closed no other call begins: LocalFs_overlap.cfg has what
\* happens otherwise.
Files == INSTANCE LocalFs WITH Names <- FileNames, Overlap <- FALSE, got <- char
Exchange == Permutations(FileNames) \cup Permutations(Devices) \cup Permutations(Bytes)

ASSUME PartsAssumption == Store!StoreAssumption /\ Console!TtyAssumption /\ Remote!RemoteFsAssumption

storevars == <<bstab, sem, init, disk, pc, cpu, owns, written, calls>>
bootvars == <<dhcp, netdata, tftp, wire, leases>>
ttyvars == <<ibuf, obuf, isem, osem, cursor, echo, opts, ier, rd, wr, ahead, line, owed, slips, left>>
rfsvars == <<rfltab, rfseq, rfcomm, rfwire, files, sure, doubt, got>>
lfsvars == <<fs, closing, char, puts>>

NoStore == /\ bstab = NULL /\ sem = NULL /\ init = NULL /\ disk = NULL /\ pc = NULL /\ cpu = NULL
           /\ owns = NULL /\ written = NULL /\ calls = NULL
NoBoot == dhcp = NULL /\ netdata = NULL /\ tftp = NULL /\ wire = NULL /\ leases = NULL
NoConsole == /\ ibuf = NULL /\ obuf = NULL /\ isem = NULL /\ osem = NULL /\ cursor = NULL /\ echo = NULL
             /\ opts = NULL /\ ier = NULL /\ rd = NULL /\ wr = NULL /\ ahead = NULL /\ line = NULL
             /\ owed = NULL /\ slips = NULL /\ left = NULL
NoRemote == /\ rfltab = NULL /\ rfseq = NULL /\ rfcomm = NULL /\ rfwire = NULL /\ files = NULL
            /\ sure = NULL /\ doubt = NULL /\ got = NULL
NoFiles == fs = NULL /\ closing = NULL /\ char = NULL /\ puts = NULL

Is(name, I, NotI) == IF part = name THEN I ELSE NotI
Init == /\ part \in {"store", "ports", "boot", "console", "rfs", "files"}
        /\ ptinit
        /\ Is("store", Store!Init, NoStore)
        /\ Is("boot", Boot!Init, NoBoot)
        /\ Is("console", Console!ttyinit, NoConsole)
        /\ Is("rfs", Remote!rfsinit, NoRemote)
        /\ Is("files", Files!Init, NoFiles)

Next == \/ part = "ports" /\ PtNext /\ UNCHANGED <<part, storevars, bootvars, ttyvars, rfsvars, lfsvars>>
        \/ part = "store" /\ Store!Next /\ UNCHANGED <<part, ptvars, bootvars, ttyvars, rfsvars, lfsvars>>
        \/ part = "boot" /\ Boot!Next /\ UNCHANGED <<part, ptvars, storevars, ttyvars, rfsvars, lfsvars>>
        \/ part = "console" /\ Console!TtyNext /\ UNCHANGED <<part, ptvars, storevars, bootvars, rfsvars, lfsvars>>
        \/ part = "rfs" /\ Remote!RfNext /\ UNCHANGED <<part, ptvars, storevars, bootvars, ttyvars, lfsvars>>
        \/ part = "files" /\ Files!Next /\ UNCHANGED <<part, ptvars, storevars, bootvars, ttyvars, rfsvars>>
Spec == Init /\ [][Next]_<<part, ptvars, storevars, bootvars, ttyvars, rfsvars, lfsvars>>

\* What each part promises, stated in the module of the part; PortsSound is
\* checked as it stands in Ports.

\* No backing store has two owners, and each keeps what its owner writes.
StoresKept == part = "store" => Store!StoresKept
\* The address was granted to this host, or to a twin whose xid is the same; the
\* file arrives whole and in order.
BootsRight == part = "boot" => Boot!BootsRight
\* Readers get the lines that were typed, as they were edited, and what writers
\* put is sent, in order and once, until a handler overruns its ring.
ConsoleSound == part = "console" => Console!TypedIsKept /\ Console!PutIsSent
\* Remote files are what the calls that succeeded made of them, whatever is
\* lost, repeated or late.
RemoteFilesKept == part = "rfs" => Remote!RemoteFilesKept

\* Every data block of the local disk is free or belongs to one file, when calls
\* do not begin while a file is being closed.
BlocksOwned == part = "files" => Files!BlocksOwned

\* And local files are sequences of bytes: what was written is read, no write
\* shows in another file, and what is closed is found again when it is opened.
AsFiles == INSTANCE FileSpec WITH Names <- FileNames,
                                  content <- IF part = "files" THEN Files!Contents ELSE [n \in FileNames |-> NULL],
                                  open <- IF part = "files" THEN Files!Open ELSE [v \in Devices |-> NULL],
                                  got <- char
FilesAreSequences == AsFiles!Spec
====
