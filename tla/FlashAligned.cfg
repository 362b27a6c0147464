CONSTANTS
  NUM_FILTERS = 2
  ROW_SIZE = 4
  PAGE_SIZE = 4
  START = 4
  MaxBoots = 3
  MaxFaults = 1
SPECIFICATION Spec
INVARIANTS OneCalibrationAtATime
PROPERTIES RestartKeepsCalibration
