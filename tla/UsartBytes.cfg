CONSTANTS
  FIFO_DEPTH = 2
  TX_DEPTH = 2
  Messages <- MCMessages
  Incoming <- MCIncoming
  LineModes = {"8N1"}
  LINE_8N1 = "8N1"
  Bauds = {}
  INITIAL_BAUD <- MCInitialBaud
  CLOCK = 100
  BRG_MAX = 3
SPECIFICATION Spec
INVARIANTS TypeOK BytesInOrder
PROPERTIES CallsReturn
