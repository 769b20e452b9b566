SPECIFICATION Spec
CONSTANTS
  Clients = {c1, c2}
  Bufs = {b1, b2, b3}
  h1 = h1
  h2 = h2
  Hosts = {h1, h2}
  ME = ME
  BCAST = BCAST
  FAR = FAR
  ROUTER = NULL
  ARP_SIZ = 1
  ARP_RETRY = 2
  UDP_SLOTS = 2
  UDP_QSIZ = 1
  ICMP_SLOTS = 3
  ICMP_QSIZ = 2
  IP_OQSIZ = 1
  NULL = NULL
  Endpoint <- MCEndpoint
  Arrivals <- MCArrivals
  ArpArrivals <- MCArpArrivals
  Pings = {h1}
  Dests = {h2, FAR, BCAST}
  Valid = {TRUE, FALSE}
  MaxArrivals = 3
  MaxCalls = 3
INVARIANTS BuffersOnce ToNextHop NoSleepOverPacket PendingHasWaiter
PROPERTY OutputDrains
CHECK_DEADLOCK FALSE
