CONSTANTS
  ECC = FALSE
  Features <- MCFeatures
  Masks <- MCMasks
  Latches <- MCLatches
  MAX_CALLS = 1
SPECIFICATION Spec
INVARIANTS LockedAtRest
CHECK_DEADLOCK FALSE
