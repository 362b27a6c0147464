------------------------------- MODULE Board -------------------------------
(***************************************************************************)
(* The processor as the system services see it: registers, some of them    *)
(* behind the SYSKEY lock, the global interrupt enable, and one foreground *)
(* program, whose accesses to registers an interrupt can come between.     *)
(*                                                                         *)
(* A service is the sequence of the accesses it makes; a service that      *)
(* calls another is a concatenation.                                       *)
(***************************************************************************)
EXTENDS Integers, SequencesExt

VARIABLES todo,      \* what the foreground program is still to do; <<>>: between calls
          reg,       \* the registers: name, then index
          key,       \* SYSKEY: "locked", "first" key written, "open"
          ie,        \* global interrupt enable
          int_flag,  \* the local of that name, in whichever function has it
          pending,   \* the timer's interrupt is requested
          ready,     \* the drivers initialised
          converter, \* the analog converter: "good", or "refused", "fault"
          exists     \* what the build and the part have: PLIB_*_Exists*, DEVADC0

boardVars == <<todo, reg, key, ie, int_flag, pending, ready, converter, exists>>

Bits == 0..15

-----------------------------------------------------------------------------
(* Accesses.                                                               *)

Write(r, i, v)     == <<[op |-> "write", reg |-> r, at |-> i, value |-> v]>>
SetBits(r, i, v)   == <<[op |-> "set", reg |-> r, at |-> i, value |-> v]>>
ClearBits(r, i, v) == <<[op |-> "clear", reg |-> r, at |-> i, value |-> v]>>
Invert(r, i, v)    == <<[op |-> "invert", reg |-> r, at |-> i, value |-> v]>>
Accesses == {"write", "set", "clear", "invert"}

Do(operation) == <<[op |-> operation]>>
Await(r)      == <<[op |-> "await", reg |-> r]>>     \* while (!...);
Started(d)    == <<[op |-> "started", driver |-> d]>>

\* #if defined(...Exists...) and if (...Exists...(...)).
IfExists(feature, steps) == IF feature \in exists THEN steps ELSE <<>>

PLIB_INT_GetStateAndDisable == Do("disable")
IfFlagEnable                == Do("restore")   \* if (int_flag) PLIB_INT_Enable
PLIB_DEVCON_SystemUnlock    == Do("key1") \o Do("key2")
PLIB_DEVCON_SystemLock      == Do("lock")

\* Registers that take a write only while SYSKEY is open; IOLOCK is one of them, and
\* while it is set the pin selection takes no write.
Protected == {"frcDiv", "pbDiv", "pbOn", "refBase", "refDiv", "refTrim", "refOn",
              "refOut", "sosc", "onWait", "iolock"}
Ignored(r) ==
  \/ r \in Protected /\ key # "open"
  \/ r = "pps" /\ reg.iolock[1]

NewValue(s, old) ==
  CASE s.op = "write"  -> s.value
    [] s.op = "set"    -> old \union s.value
    [] s.op = "clear"  -> old \ s.value
    [] s.op = "invert" -> (old \ s.value) \union (s.value \ old)

-----------------------------------------------------------------------------
(* The processor.                                                          *)

Now == Head(todo)
Goes(s) == todo # <<>> /\ Now.op = s /\ todo' = Tail(todo) /\ UNCHANGED <<converter, exists>>

Access ==
  /\ todo # <<>> /\ Now.op \in Accesses
  /\ Goes(Now.op)
  /\ reg' = IF Ignored(Now.reg) THEN reg
            ELSE [reg EXCEPT ![Now.reg][Now.at] = NewValue(Now, @)]
  /\ UNCHANGED <<key, ie, int_flag, pending, ready>>

Disable ==
  /\ Goes("disable")
  /\ int_flag' = ie /\ ie' = FALSE
  /\ UNCHANGED <<reg, key, pending, ready>>

Restore ==
  /\ Goes("restore")
  /\ ie' = (ie \/ int_flag)
  /\ UNCHANGED <<reg, key, int_flag, pending, ready>>

Enable ==
  /\ Goes("enable")
  /\ ie' = TRUE
  /\ UNCHANGED <<reg, key, int_flag, pending, ready>>

\* The second key opens the lock only straight after the first.
Key ==
  /\ \/ Goes("key1") /\ key' = "first"
     \/ Goes("key2") /\ key' = IF key = "first" THEN "open" ELSE "locked"
     \/ Goes("lock") /\ key' = "locked"
  /\ UNCHANGED <<reg, ie, int_flag, pending, ready>>

BusyWait ==
  /\ todo # <<>> /\ Now.op = "await" /\ reg[Now.reg][1]
  /\ Goes("await")
  /\ UNCHANGED <<reg, key, ie, int_flag, pending, ready>>

\* A selection the converter accepts; one it refuses ends in while (1).
Select ==
  /\ Goes("select") /\ converter # "refused"
  /\ UNCHANGED <<reg, key, ie, int_flag, pending, ready>>

DriverStarts ==
  /\ todo # <<>> /\ Now.op = "started"
  /\ Goes("started")
  /\ ready' = ready \union {Now.driver}
  /\ UNCHANGED <<reg, key, ie, int_flag, pending>>

\* The instruction "wait": the processor falls asleep, whatever came just before.
Sleep ==
  /\ Goes("wait")
  /\ UNCHANGED <<reg, key, ie, int_flag, pending, ready>>

\* A requested interrupt wakes it, though it be one that cannot be taken.
Asleep == todo # <<>> /\ Now.op = "asleep"
Wake ==
  /\ Goes("asleep") /\ pending
  /\ UNCHANGED <<reg, key, ie, int_flag, pending, ready>>

Step == Access \/ Disable \/ Restore \/ Enable \/ Key \/ BusyWait \/ Select
        \/ DriverStarts \/ Sleep \/ Wake

\* An interrupt is taken: its handler's own accesses spoil a key half written, and
\* a processor that was asleep goes on after it.
Interrupt ==
  /\ ie /\ pending
  /\ pending' = FALSE
  /\ key' = IF key = "first" THEN "locked" ELSE key
  /\ todo' = IF Asleep THEN Tail(todo) ELSE todo
  /\ UNCHANGED <<reg, ie, int_flag, ready, converter, exists>>

\* The voltage reference comes up once the converter is on, and a channel once
\* its analog part is too; a result after a trigger.
ConverterGoesOn ==
  /\ \/ /\ reg.adcOn[1] /\ ~reg.vref[1]
        /\ reg' = [reg EXCEPT !.vref[1] = TRUE, !.noFault[1] = (converter # "fault")]
     \/ /\ reg.vref[1] /\ reg.adcAnalog[1] /\ ~reg.channelReady[1]
        /\ reg' = [reg EXCEPT !.channelReady[1] = TRUE]
     \/ /\ reg.channelReady[1] /\ reg.adcOn[1] /\ reg.adcDigital[1] /\ reg.adcTrigger[1]
        /\ reg' = [reg EXCEPT !.adcTrigger[1] = FALSE, !.adcData[1] = TRUE]
  /\ UNCHANGED <<todo, key, ie, int_flag, pending, ready, converter, exists>>
=============================================================================
