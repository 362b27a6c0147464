CONSTANTS
  FIFO_DEPTH = 1
  TX_DEPTH = 1
  Messages = {}
  Incoming <- MCGood
  LineModes = {"8N1", "8E1"}
  LINE_8N1 = "8N1"
  Bauds = {1, 5, 25, 30}
  INITIAL_BAUD <- MCInitialBaud
  CLOCK = 100
  BRG_MAX = 3
SPECIFICATION Spec
INVARIANTS UsartsWork
PROPERTIES SettingsQuiet
