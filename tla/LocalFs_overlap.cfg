SPECIFICATION Spec
CONSTANTS
  Names = {x, y}
  Devices = {l0, l1}
  Bytes = {b1, b2}
  LF_BLKSIZ = 2
  LF_IBLEN = 1
  LF_NUM_DIR_ENT = 2
  IBS = 2
  ISECTORS = 1
  DBLKS = 2
  Overlap = TRUE
  MaxPuts = 4
  EOF = EOF
  NULL = NULL
PROPERTY OneIndexBlock
SYMMETRY Exchange
CHECK_DEADLOCK FALSE
