CONSTANTS
  ECC = FALSE
  Features <- MCFeatures
  Masks <- MCMasks
  Latches <- MCLatches
  MAX_CALLS = 3
SPECIFICATION Spec
INVARIANTS TypeOK SettingsTake PinsSettle
PROPERTIES InterruptDiscipline Progress
CHECK_DEADLOCK FALSE
