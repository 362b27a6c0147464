CONSTANTS
  MAX_STR_LEN = 4
  RESPONSE_TICKS = 2
  FIFO_DEPTH = 2
  Text = {"x"}
SPECIFICATION Spec
INVARIANTS TypeOK StoreInBounds ReplyIsString
PROPERTIES ErrorKept ImplementsLineReader
