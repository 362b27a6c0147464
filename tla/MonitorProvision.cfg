CONSTANTS
  NUM_CHANNELS = 2
  MacBits <- MCMacBits
  TIMER_FREQ = 2
  RESPONSE_TIMEOUT = 1
  NUM_FILTERS = 1
  InitialProcedure = "FACTORY_RESET"
  MaxLate = 1
  MaxRestarts = 0
SPECIFICATION Spec
INVARIANTS ConfiguredAtJoin IdleMeansJoined
