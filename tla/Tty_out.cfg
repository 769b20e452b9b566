SPECIFICATION TtySpec
CONSTANTS
  NULL = NULL
  Readers = {}
  Writers = {w1, w2, w3}
  Text = {a}
  TY_IBUFLEN = 3
  TY_OBUFLEN = 2
  TY_EBUFLEN = 4
  UART_FIFO_SIZE = 1
  Budgets <- NoTyping
PROPERTY SendsQueued
CHECK_DEADLOCK FALSE
