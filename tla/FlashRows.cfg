CONSTANTS
  NUM_FILTERS = 3
  ROW_SIZE = 2
  PAGE_SIZE = 6
  START = 7
  MaxBoots = 2
  MaxFaults = 1
SPECIFICATION Spec
INVARIANTS TypeOK HealthyFlashNeverFails
PROPERTIES CalibrationEnds ImplementsCalibrationStore
