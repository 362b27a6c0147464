------------------------------- MODULE Devcon -------------------------------
(* The device control service.                                             *)
EXTENDS Board

CONSTANT ECC   \* the configuration word's FECCCON makes CFGCON's field < 2

SYS_DEVCON_SystemUnlockOpen ==   \* mutant: interrupts are left on
  PLIB_DEVCON_SystemUnlock
SYS_DEVCON_SystemUnlock ==
  PLIB_INT_GetStateAndDisable \o PLIB_DEVCON_SystemUnlock \o IfFlagEnable

SYS_DEVCON_SystemLockEnables ==   \* mutant: PLIB_INT_Enable whatever int_flag is
  PLIB_INT_GetStateAndDisable \o PLIB_DEVCON_SystemLock \o Do("enable")
SYS_DEVCON_SystemLock ==
  PLIB_INT_GetStateAndDisable \o PLIB_DEVCON_SystemLock \o IfFlagEnable

SYS_DEVCON_Initialize   == Write("status", 1, "READY") \o Write("state", 1, "READY")
SYS_DEVCON_Reinitialize == Write("status", 1, "READY") \o Write("state", 1, "READY")
SYS_DEVCON_Deinitialize == Write("status", 1, "UNINITIALIZED")

SYS_DEVCON_JTAGEnable   == Write("jtag", 1, TRUE)
SYS_DEVCON_JTAGDisable  == Write("jtag", 1, FALSE)
SYS_DEVCON_TraceEnable  == IfExists("TraceOutput", Write("trace", 1, TRUE))
SYS_DEVCON_TraceDisable == IfExists("TraceOutput", Write("trace", 1, FALSE))

SYS_DEVCON_PowerModeEnter(pwrMode) ==
  IfExists("OnWaitAction",
           SYS_DEVCON_SystemUnlock \o Write("onWait", 1, pwrMode) \o SYS_DEVCON_SystemLock)
  \o Do("wait") \o Do("asleep")

\* Flash wait states for a system clock, in kHz: how many limits it is above.
Limits == IF ECC THEN <<60000, 120000, 200000>> ELSE <<74000, 140000, 200000>>
WaitStates(sysclk) ==
  LET above == Cardinality({i \in 1..3 : sysclk > Limits[i]})
  IN  IF above = 3 THEN 4 ELSE above

SYS_DEVCON_PerformanceConfig(sysclk) ==
  IfExists("WaitState",
           PLIB_INT_GetStateAndDisable \o Write("waitStates", 1, WaitStates(sysclk))
           \o IfFlagEnable)
  \o PLIB_INT_GetStateAndDisable
  \o IfExists("PrefetchEnable", Write("prefetch", 1, TRUE))
  \o IfFlagEnable
=============================================================================
