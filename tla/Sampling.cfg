CONSTANTS
  PAIRS = 4
  HORIZON = 3
  None = None
SPECIFICATION Spec
INVARIANTS TypeOK SumsMicrophone HistoryIsLatest NoFalseAlarm
PROPERTIES LoopsEnd
