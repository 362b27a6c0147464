CONSTANTS
  LINE = 2
  WAYS = 1
  LINES_PER_WAY = 2
  MEMORY = 3
  Ranges <- MCRanges
  MAX_STORES = 2
  MAX_CALLS = 2
SPECIFICATION Spec
INVARIANTS TypeOK LoadsSeeStores MaintenanceDone
CHECK_DEADLOCK FALSE
