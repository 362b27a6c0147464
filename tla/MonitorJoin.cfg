CONSTANTS
  NUM_CHANNELS = 1
  MacBits <- MCMacBits
  TIMER_FREQ = 2
  RESPONSE_TIMEOUT = 1
  NUM_FILTERS = 1
  InitialProcedure = "JOIN_WITH_CURRENT_CONFIG"
  MaxLate = 1
  MaxRestarts = 1
SPECIFICATION Spec
INVARIANTS TypeOK TimerQuiet ReplyIsFresh IdleMeansJoined
PROPERTIES LevelsSentOnce ErrorReported KeepsMonitoring ImplementsLifecycle
