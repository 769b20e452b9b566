SPECIFICATION Spec
CONSTANTS
  NULL = NULL
  MAX_BS_ENTRIES = 2
  MAX_PAGES_PER_BS = 2
  RD_PAGES_PER_BS = 2
  BLOCKS_PER_PAGE = 2
  Values = {1, 2}
  Sizes = {0, 2}
  MaxCalls = 5
  Procs = {p1, p2}
  PortUsers = {p1, p2, p3}
  NPORTS = 1
  Nodes = {n1, n2}
  Counts = {1, 2}
  MaxSeq = 4
  Servers = {s1}
  Addresses = {a1, a2}
  DHCP_RETRY = 2
  TFTP_MAXRETRIES = 2
  Ports = {p0, p1, p2}
  TFTP_PORT = p0
  Rooms = {2, 3}
  Readers = {r1, r2}
  Writers = {w1, w2}
  Text = {a}
  TY_IBUFLEN = 3
  TY_OBUFLEN = 2
  TY_EBUFLEN = 4
  UART_FIFO_SIZE = 1
  Names = {n1, n2}
  Nrfl = 1
  RF_RETRIES = 2
  RfMaxCalls = 3
  FileNames = {x, y}
  Devices = {l0, l1}
  Bytes = {b1, b2}
  LF_BLKSIZ = 2
  LF_IBLEN = 1
  LF_NUM_DIR_ENT = 2
  IBS = 2
  ISECTORS = 1
  DBLKS = 2
  MaxPuts = 3
  EOF = EOF
INVARIANTS
  StoresKept
  PortsSound
  BootsRight
  ConsoleSound
  RemoteFilesKept
  BlocksOwned
PROPERTY FilesAreSequences
SYMMETRY Exchange
CHECK_DEADLOCK FALSE
