CONSTANTS
  r1 = r1
  w1 = w1
  w2 = w2
  Reader = {r1}
  Writer = {w1, w2}
  Intr = Intr
  None = None
  INPUT_BUF_SIZE = 2
  UINT = 4
  UART_TX_BUF_SIZE = 2
  FIFO = 2
  MaxN = 2
  UINT64 = 6
CONSTRAINT OneSideBusy
SYMMETRY ConsoleSymmetry
SPECIFICATION Spec
INVARIANTS NoneStranded SentInOrder
PROPERTIES LineDiscipline
