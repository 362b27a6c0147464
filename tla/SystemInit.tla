----------------------------- MODULE SystemInit -----------------------------
(***************************************************************************)
(* SYS_Initialize, from reset to the point where interrupts are on and the *)
(* application is ready; then clients call the clock, device control and   *)
(* ports services and the converter's driver while the timer interrupts.   *)
(***************************************************************************)
EXTENDS Clock, Ports, AdcDriver

CONSTANTS Features,   \* what a part may have
          Masks,      \* pins of PORTB, RN2903_MCLR's port, that a call is about
          Latches,    \* what the latches of the ports may hold at reset
          MAX_CALLS   \* bound on the calls after SYS_Initialize

ASSUME SystemAssumption ==
  /\ ECC \in BOOLEAN /\ MAX_CALLS \in Nat /\ Masks \subseteq SUBSET Bits
  /\ Latches \subseteq [Channels -> SUBSET Bits]

VARIABLES asked,    \* history: the registers, had each call done what it is for at once
          asFound,  \* history: the interrupt enable the client left
          calls     \* calls after SYS_Initialize

vars == <<boardVars, asked, asFound, calls>>

Drivers == {"flash", "timer", "usart0", "usart1", "interrupts"}
booted  == "app" \in ready
atRest  == booted /\ todo = <<>>

SYS_Initialize ==
  SYS_CLK_Initialize \o SYS_DEVCON_Initialize
  \o SYS_DEVCON_PerformanceConfig(SYS_CLK_SystemFrequencyGet)
  \o SYS_PORTS_Initialize \o DRV_ADC_Initialize
  \o Started("flash") \o Started("timer") \o Started("usart0") \o Started("usart1")
  \o Started("interrupts") \o Do("enable") \o Started("app")

\* The registers at reset: every pin an input and IOLOCK open, the latches whatever
\* they are, and the clocks divided by what the project asks for or not.
Found(divisor, latches) ==
  [frcDiv |-> <<divisor>>, pbDiv |-> [b \in Buses |-> divisor], pbOn |-> [b \in Buses |-> b < 7],
   refBase |-> <<"FRC">>, refDiv |-> <<0>>, refTrim |-> <<0>>,
   refOn |-> [r \in References |-> FALSE], refOut |-> [r \in References |-> TRUE],
   sosc |-> <<FALSE>>, onWait |-> <<"IDLE">>,
   status |-> <<"UNINITIALIZED">>, state |-> <<"INIT">>, jtag |-> <<FALSE>>, trace |-> <<FALSE>>,
   waitStates |-> <<7>>, prefetch |-> <<FALSE>>,
   odc |-> Zero, lat |-> latches, tris |-> [c \in Channels |-> Bits],
   ansel |-> [c \in Channels |-> Bits],
   cnOn |-> [c \in Channels \union {"all"} |-> FALSE],
   cnEn |-> [c \in Channels \union {"all"} |-> {}],
   cnPu |-> [c \in Channels \union {"all"} |-> {}], cnPd |-> Zero, cnInIdle |-> [all |-> FALSE],
   pps |-> [f \in DOMAIN Remapped |-> <<"none", 0>>], iolock |-> <<FALSE>>,
   adcSource |-> <<"none">>, adcCalibrated |-> <<FALSE>>, adcOn |-> <<FALSE>>,
   adcAnalog |-> <<FALSE>>, adcDigital |-> <<FALSE>>, adcTrigger |-> <<FALSE>>,
   adcSampling |-> <<FALSE>>, adcData |-> <<FALSE>>,
   vref |-> <<FALSE>>, noFault |-> <<FALSE>>, channelReady |-> <<FALSE>>]

\* What the hardware moves by itself; the rest are settings.
Flags == {"adcTrigger", "adcData", "vref", "noFault", "channelReady"}

\* What the project's configuration asks of SYS_Initialize.
Configured(found) ==
  [found EXCEPT
     !.frcDiv = <<1>>,
     !.pbDiv = [b \in Buses |-> IF b = 6 THEN @[6] ELSE IF b = 7 THEN 1 ELSE 2],
     !.pbOn = [b \in Buses |-> IF b = 6 THEN @[6] ELSE TRUE],
     !.refBase = <<"SYSCLK">>, !.refDiv = <<19>>, !.refTrim = <<272>>,
     !.refOn = [r \in References |-> r = 1], !.refOut = [r \in References |-> FALSE],
     !.status = <<"READY">>, !.state = <<"READY">>,
     !.waitStates = IF "WaitState" \in exists THEN <<2>> ELSE @,
     !.prefetch = IF "PrefetchEnable" \in exists THEN <<TRUE>> ELSE @,
     !.lat = Zero, !.tris = Input, !.ansel = Analog,
     !.cnOn = [c \in DOMAIN @ |-> c # "all"],
     !.cnPu = [c \in DOMAIN @ |-> IF c = "all" THEN {} ELSE PullUp[c]],
     !.pps = Remapped,
     !.adcSource = <<"software edge">>, !.adcOn = <<TRUE>>, !.adcAnalog = <<TRUE>>,
     !.adcCalibrated = IF "DEVADC0" \in exists THEN <<TRUE>> ELSE @]

Init ==
  /\ exists \in {Features, {}} /\ converter \in {"good", "refused", "fault"}
  /\ todo = SYS_Initialize /\ ready = {}
  /\ \E divisor \in {1, 2}, latches \in Latches : reg = Found(divisor, latches)
  /\ asked = Configured(reg)
  /\ key = "locked" /\ ie = FALSE /\ int_flag = FALSE /\ pending = FALSE
  /\ asFound = TRUE /\ calls = 0

-----------------------------------------------------------------------------
(* A client calls a service, and wants that of it.                         *)

Call(service, wanted) ==
  /\ atRest /\ calls < MAX_CALLS
  /\ todo' = service /\ asked' = wanted /\ calls' = calls + 1
  /\ UNCHANGED <<reg, key, ie, int_flag, pending, ready, converter, exists, asFound>>

\* What is wanted of a service the part may lack.
Where(feature, wanted) == IF feature \in exists THEN wanted ELSE asked

\* A part may have the pull-ups of a change notice and not the notice, or the reverse.
Noticed(pinNum, wanted) ==
  IF "PinChangeNotice" \in exists THEN [wanted EXCEPT !.cnEn["all"] = @ \union {pinNum}]
                                  ELSE wanted

ClockCall ==
  \/ Call(SYS_CLK_SecondaryOscillatorEnable, [asked EXCEPT !.sosc = <<TRUE>>])
  \/ Call(SYS_CLK_SecondaryOscillatorDisable, [asked EXCEPT !.sosc = <<FALSE>>])

DevconCall ==
  \/ Call(SYS_DEVCON_Reinitialize, [asked EXCEPT !.status = <<"READY">>])
  \/ Call(SYS_DEVCON_Deinitialize, [asked EXCEPT !.status = <<"UNINITIALIZED">>])
  \/ Call(SYS_DEVCON_JTAGEnable, [asked EXCEPT !.jtag = <<TRUE>>])
  \/ Call(SYS_DEVCON_JTAGDisable, [asked EXCEPT !.jtag = <<FALSE>>])
  \/ Call(SYS_DEVCON_TraceEnable, Where("TraceOutput", [asked EXCEPT !.trace = <<TRUE>>]))
  \/ Call(SYS_DEVCON_TraceDisable, Where("TraceOutput", [asked EXCEPT !.trace = <<FALSE>>]))
  \/ \E mode \in {"IDLE", "SLEEP"} :
       Call(SYS_DEVCON_PowerModeEnter(mode),
            Where("OnWaitAction", [asked EXCEPT !.onWait = <<mode>>]))
  \/ \E sysclk \in {50000, 100000, 250000} :
       Call(SYS_DEVCON_PerformanceConfig(sysclk),
            Where("WaitState", [asked EXCEPT !.waitStates = <<WaitStates(sysclk)>>]))

ConverterCall ==
  \/ Call(DRV_ADC_DeInitialize, [asked EXCEPT !.adcOn = <<FALSE>>])
  \/ Call(DRV_ADC0_Open, [asked EXCEPT !.adcDigital = <<TRUE>>])
  \/ Call(DRV_ADC0_Close, [asked EXCEPT !.adcDigital = <<FALSE>>])
  \/ Call(DRV_ADC_Start, asked)
  \/ Call(DRV_ADC_Stop, [asked EXCEPT !.adcSampling = <<FALSE>>])
  \/ DRV_ADC_SamplesAvailable /\ Call(DRV_ADC_SamplesRead, asked)

ChannelCall(c, mask) ==
  \/ Call(SYS_PORTS_Write(c, mask), [asked EXCEPT !.lat[c] = mask])
  \/ \E value \in Masks :
       Call(SYS_PORTS_Set(c, value, mask), [asked EXCEPT !.lat[c] = @ \union (value \intersect mask)])
  \/ Call(SYS_PORTS_Clear(c, mask), [asked EXCEPT !.lat[c] = @ \ mask])
  \/ Call(SYS_PORTS_Toggle(c, mask),
          [asked EXCEPT !.lat[c] = {b \in Bits : (b \in @) # (b \in mask)}])
  \/ Call(SYS_PORTS_DirectionSelect("INPUT", c, mask), [asked EXCEPT !.tris[c] = @ \union mask])
  \/ Call(SYS_PORTS_DirectionSelect("OUTPUT", c, mask), [asked EXCEPT !.tris[c] = @ \ mask])
  \/ Call(SYS_PORTS_OpenDrainEnable(c, mask),
          Where("PortsOpenDrain", [asked EXCEPT !.odc[c] = @ \union mask]))
  \/ Call(SYS_PORTS_OpenDrainDisable(c, mask),
          Where("PortsOpenDrain", [asked EXCEPT !.odc[c] = @ \ mask]))

NoticeCall(pinNum) ==
  \/ Call(SYS_PORTS_ChangeNotificationGlobalEnable,
          Where("ChangeNotice", [asked EXCEPT !.cnOn["all"] = TRUE]))
  \/ Call(SYS_PORTS_ChangeNotificationGlobalDisable,
          Where("ChangeNotice", [asked EXCEPT !.cnOn["all"] = FALSE]))
  \/ Call(SYS_PORTS_GlobalChangeNotificationDisable,
          Where("ChangeNotice", [asked EXCEPT !.cnOn["all"] = FALSE]))
  \/ Call(SYS_PORTS_ChangeNotificationEnable(pinNum, "ENABLE"),
          Noticed(pinNum, Where("ChangeNoticePullUp",
                                [asked EXCEPT !.cnPu["all"] = @ \union {pinNum}])))
  \/ Call(SYS_PORTS_ChangeNotificationEnable(pinNum, "DISABLE"),
          Noticed(pinNum, Where("ChangeNoticePullUp",
                                [asked EXCEPT !.cnPu["all"] = @ \ {pinNum}])))
  \/ Call(SYS_PORTS_ChangeNotificationDisable(pinNum),
          Where("PinChangeNotice", [asked EXCEPT !.cnEn["all"] = @ \ {pinNum}]))
  \/ Call(SYS_PORTS_ChangeNotificationInIdleModeEnable,
          Where("ChangeNoticeInIdle", [asked EXCEPT !.cnInIdle["all"] = TRUE]))
  \/ Call(SYS_PORTS_ChangeNotificationInIdleModeDisable,
          Where("ChangeNoticeInIdle", [asked EXCEPT !.cnInIdle["all"] = FALSE]))
  \/ Call(SYS_PORTS_ChangeNotificationPullUpEnable(pinNum),
          Where("ChangeNoticePullUp", [asked EXCEPT !.cnPu["all"] = @ \union {pinNum}]))
  \/ Call(SYS_PORTS_ChangeNotificationPullUpDisable(pinNum),
          Where("ChangeNoticePullUp", [asked EXCEPT !.cnPu["all"] = @ \ {pinNum}]))

PinCall(c, b) ==
  \/ Call(SYS_PORTS_PinModeSelect(c, b, "ANALOG"),
          Where("PinMode", [asked EXCEPT !.ansel[c] = @ \union {b}]))
  \/ Call(SYS_PORTS_PinModeSelect(c, b, "DIGITAL"),
          Where("PinMode", [asked EXCEPT !.ansel[c] = @ \ {b}]))
  \/ Call(SYS_PORTS_PinSet(c, b), [asked EXCEPT !.lat[c] = @ \union {b}])
  \/ Call(SYS_PORTS_PinClear(c, b), [asked EXCEPT !.lat[c] = @ \ {b}])
  \/ Call(SYS_PORTS_PinToggle(c, b),
          [asked EXCEPT !.lat[c] = IF b \in @ THEN @ \ {b} ELSE @ \union {b}])
  \/ Call(SYS_PORTS_PinWrite(c, b, TRUE), [asked EXCEPT !.lat[c] = @ \union {b}])
  \/ Call(SYS_PORTS_PinWrite(c, b, FALSE), [asked EXCEPT !.lat[c] = @ \ {b}])
  \/ Call(SYS_PORTS_PinDirectionSelect("OUTPUT", c, b), [asked EXCEPT !.tris[c] = @ \ {b}])
  \/ Call(SYS_PORTS_PinDirectionSelect("INPUT", c, b), [asked EXCEPT !.tris[c] = @ \union {b}])
  \/ Call(SYS_PORTS_PinOpenDrainEnable(c, b),
          Where("PortsOpenDrain", [asked EXCEPT !.odc[c] = @ \union {b}]))
  \/ Call(SYS_PORTS_PinOpenDrainDisable(c, b),
          Where("PortsOpenDrain", [asked EXCEPT !.odc[c] = @ \ {b}]))

RemapCall(pin) ==
  \/ Call(SYS_PORTS_RemapInput("SDI2", pin), Where("RemapInput", [asked EXCEPT !.pps["SDI2"] = pin]))
  \/ Call(SYS_PORTS_RemapOutput("SS2", pin), Where("RemapOutput", [asked EXCEPT !.pps["SS2"] = pin]))

\* SYS_INT_Enable, SYS_INT_Disable.
ClientInterrupts ==
  /\ atRest /\ calls < MAX_CALLS
  /\ ie' = ~ie /\ asFound' = ~ie /\ calls' = calls + 1
  /\ UNCHANGED <<todo, reg, key, int_flag, pending, ready, converter, exists, asked>>

Tick ==
  /\ booted /\ ~pending
  /\ pending' = TRUE
  /\ UNCHANGED <<todo, reg, key, ie, int_flag, ready, converter, exists, asked, asFound, calls>>

Runs      == Step /\ UNCHANGED <<asked, asFound, calls>>
Handler   == Interrupt /\ UNCHANGED <<asked, asFound, calls>>
Converter == ConverterGoesOn /\ UNCHANGED <<asked, asFound, calls>>

Next ==
  \/ Runs \/ Handler \/ Converter \/ Tick
  \/ ClockCall \/ DevconCall \/ ConverterCall \/ ClientInterrupts
  \/ \E mask \in Masks : ChannelCall("B", mask)
  \/ NoticeCall(3) \/ PinCall("B", 12) \/ RemapCall(<<"B", 3>>)

\* The processor goes on and takes its interrupts, the converter comes up.
\* Neither the timer nor a client needs ever to do anything.
Spec == Init /\ [][Next]_vars /\ WF_vars(Runs) /\ WF_vars(Handler) /\ WF_vars(Converter)

-----------------------------------------------------------------------------
(* Type invariant of the processor, the registers and the history.         *)
TypeOK ==
  /\ key \in {"locked", "first", "open"} /\ converter \in {"good", "refused", "fault"}
  /\ {ie, int_flag, pending, asFound} \subseteq BOOLEAN /\ calls \in 0..MAX_CALLS
  /\ exists \subseteq Features /\ ready \subseteq Drivers \union {"app"}
  /\ \A r \in {reg, asked} :
       /\ \A b \in Buses : r.pbDiv[b] \in 1..128
       /\ r.waitStates[1] \in 0..7 /\ r.status[1] \in {"UNINITIALIZED", "READY"}
       /\ \A f \in {"odc", "lat", "tris", "ansel", "cnEn", "cnPu", "cnPd"} :
            \A c \in Channels : r[f][c] \subseteq Bits
       /\ \A f \in DOMAIN r.pps : r.pps[f] \in (Channels \union {"none"}) \X Bits

\* Each peripheral bus, and the reference clock, has the frequency that the clock
\* service tells its callers: the divisors, trim and frequencies are constants that
\* nothing in the code ties together. A reference is divided by 2 (N + M / 512).
FrequenciesTrue ==
  /\ SYS_CLK_SystemFrequencyGet = SystemClock
  /\ \A b \in Buses \ {6} :
       reg.pbOn[b] /\ reg.pbDiv[b] * SYS_CLK_PeripheralFrequencyGet(b) = SystemClock
  /\ reg.refBase[1] = "SYSCLK" /\ reg.refOn[1]
  /\ SYS_CLK_ReferenceFrequencyGet(1) * (512 * reg.refDiv[1] + reg.refTrim[1])
       = SystemClock * 256

\* No interrupt makes a write behind SYSKEY fail, but for the one of IOLOCK in
\* SYS_PORTS_RemapInput and RemapOutput; and when a call returns, every setting is
\* what the calls so far asked for and no other pin or register has changed, a
\* remap whose write of IOLOCK was lost included, and the clocks run as the clock
\* service says.
SettingsTake ==
  /\ todo # <<>> /\ Now.op \in Accesses /\ Now.reg \in Protected \ {"iolock"} => key = "open"
  /\ atRest => /\ \A r \in DOMAIN reg \ Flags : reg[r] = asked[r]
               /\ FrequenciesTrue

\* Wait states and prefetching change with interrupts off only; a call leaves the
\* interrupt enable as it found it, however its pieces turn it off and on; and
\* interrupts are off until every driver an interrupt may reach is initialised.
InterruptDiscipline ==
  [][/\ reg'.waitStates # reg.waitStates \/ reg'.prefetch # reg.prefetch => ~ie
     /\ atRest' => ie' = asFound'
     /\ ie' => Drivers \subseteq ready']_vars

\* At no moment of SYS_Initialize does a pin drive a level that is not its
\* configured one, whatever its latch held; and afterwards every pin the project
\* assigns is digital, and an output or input as it must be.
PinsSettle ==
  /\ ~booted => \A c \in Channels : Bits \ reg.tris[c] \subseteq Bits \ reg.lat[c]
  /\ atRest /\ calls = 0 =>
       /\ \A f \in DOMAIN Remapped :
            /\ reg.pps[f] = Remapped[f]
            /\ reg.pps[f][2] \notin reg.ansel[reg.pps[f][1]]
       /\ \A f \in {"U1RX", "U2RX", "SDI2"} : reg.pps[f][2] \in reg.tris[reg.pps[f][1]]
       /\ \A pin \in {<<"B", 12>>} \union ({"A"} \X (0..3)) :   \* RN2903_MCLR, the LEDs
            pin[2] \notin reg.tris[pin[1]] \union reg.ansel[pin[1]]
       /\ 8 \in reg.tris["F"] \ reg.ansel["F"]                \* SWITCH_S4

\* With a converter that works the application is reached; every call returns,
\* unless it sleeps and no interrupt comes, and an interrupt wakes it, interrupts off
\* or not; and one that is requested is taken, unless the client keeps them off.
Progress ==
  /\ converter = "good" ~> booted
  /\ booted /\ todo # <<>> ~> todo = <<>> \/ (Asleep /\ ~pending)
  /\ Asleep /\ pending ~> todo = <<>>
  /\ pending ~> ~pending \/ ~asFound

\* "A system lock sequence is required after performing the action that required a
\* system lock sequence": between calls SYSKEY is locked.
LockedAtRest == atRest => key = "locked"
=============================================================================
