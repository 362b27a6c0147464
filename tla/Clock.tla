------------------------------- MODULE Clock -------------------------------
(* The clock service. Frequencies are in kHz.                              *)
EXTENDS Devcon

Buses == 1..8
References == 1..4

SYS_CLK_FREQ == 200000
SYS_CLK_BUS_PERIPHERAL ==
  [b \in Buses \ {6} |-> IF b = 7 THEN 200000 ELSE 100000]
SYS_CLK_BUS_REFERENCE_1 == 5120

\* The system clock the configuration words select: the 8 MHz internal oscillator,
\* divided by 1, through the PLL times 50 by 2.
FRC == 8000
SystemClock == ((FRC \div 1) * 50) \div 2

SYS_CLK_SystemFrequencyGet == SYS_CLK_FREQ
SYS_CLK_PeripheralFrequencyGet(bus) ==
  IF bus \in DOMAIN SYS_CLK_BUS_PERIPHERAL THEN SYS_CLK_BUS_PERIPHERAL[bus] ELSE 0
SYS_CLK_ReferenceFrequencyGet(ref) == IF ref = 1 THEN SYS_CLK_BUS_REFERENCE_1 ELSE 0

BusEncoded(b, divisor) ==   \* mutant: the register's encoding, divisor - 1
  Write("pbDiv", b, divisor - 1) \o Write("pbOn", b, TRUE)
Bus(b, divisor) == Write("pbDiv", b, divisor) \o Write("pbOn", b, TRUE)
Silence(r)      == Write("refOn", r, FALSE) \o Write("refOut", r, FALSE)

SYS_CLK_Initialize ==
  SYS_DEVCON_SystemUnlock
  \o Write("frcDiv", 1, 1)
  \o Bus(1, 2) \o Bus(2, 2) \o Bus(3, 2) \o Bus(4, 2) \o Bus(5, 2) \o Bus(7, 1) \o Bus(8, 2)
  \o Write("refBase", 1, "SYSCLK") \o Write("refDiv", 1, 19) \o Write("refTrim", 1, 272)
  \o Write("refOn", 1, TRUE) \o Write("refOut", 1, FALSE)
  \o Silence(2) \o Silence(3) \o Silence(4)
  \o SYS_DEVCON_SystemLock

SYS_CLK_SecondaryOscillatorIsEnabled == reg.sosc[1]
SYS_CLK_SecondaryOscillatorEnable ==
  IF SYS_CLK_SecondaryOscillatorIsEnabled THEN <<>>
  ELSE SYS_DEVCON_SystemUnlock \o Write("sosc", 1, TRUE) \o SYS_DEVCON_SystemLock
SYS_CLK_SecondaryOscillatorDisable ==
  IF SYS_CLK_SecondaryOscillatorIsEnabled
  THEN SYS_DEVCON_SystemUnlock \o Write("sosc", 1, FALSE) \o SYS_DEVCON_SystemLock
  ELSE <<>>
=============================================================================
