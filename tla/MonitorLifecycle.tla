-------------------------- MODULE MonitorLifecycle --------------------------
(***************************************************************************)
(* What the superloop promises, without modem, timer or flash: the order   *)
(* of the application's phases, and what a fault does to it.  A phase that *)
(* ends with a fault pending hands over to ERROR, which never ends; only   *)
(* boot and a short press of the button look past one.                     *)
(***************************************************************************)
VARIABLES phase,   \* the application state
          failed,  \* a fault is pending
          halted   \* the error handler has taken over for good

vars == <<phase, failed, halted>>

Phases == {"INIT", "WAIT_FOR_BUTTON_PRESS", "CALIBRATE", "JOIN", "IDLE",
           "MEASURE", "PROCESS", "TRANSMIT", "ERROR"}

\* What follows a phase that went well, where nobody is asked.
Successor == [CALIBRATE |-> "JOIN", JOIN |-> "IDLE", IDLE |-> "MEASURE",
              MEASURE |-> "PROCESS", PROCESS |-> "TRANSMIT", TRANSMIT |-> "IDLE"]

\* Phases in which something can go wrong: they talk, sample or write flash.
Fallible == {"INIT", "CALIBRATE", "JOIN", "MEASURE", "TRANSMIT"}

Init == phase = "INIT" /\ ~failed /\ ~halted

Fault == /\ phase \in Fallible /\ ~failed
         /\ failed' = TRUE /\ UNCHANGED <<phase, halted>>

Boot == /\ phase = "INIT" /\ phase' \in {"WAIT_FOR_BUTTON_PRESS", "ERROR"}
        /\ UNCHANGED <<failed, halted>>

Press == /\ phase = "WAIT_FOR_BUTTON_PRESS"
         /\ phase' \in {"JOIN", IF failed THEN "ERROR" ELSE "CALIBRATE"}
         /\ UNCHANGED <<failed, halted>>

Advance == /\ phase \in DOMAIN Successor
           /\ phase' = IF failed THEN "ERROR" ELSE Successor[phase]
           /\ UNCHANGED <<failed, halted>>

\* The network refused: the one fault found by the step that ends its phase.
Refused == /\ phase = "JOIN" /\ phase' = "ERROR"
           /\ failed' = TRUE /\ UNCHANGED halted

Halt == /\ phase = "ERROR" /\ ~halted
        /\ halted' = TRUE /\ UNCHANGED <<phase, failed>>

Next == Fault \/ Boot \/ Press \/ Advance \/ Refused \/ Halt

\* Boot and calibration may hang and the button may never be pressed; every other
\* phase ends.
Spec == /\ Init /\ [][Next]_vars
        /\ WF_vars(phase # "CALIBRATE" /\ (Advance \/ Refused)) /\ WF_vars(Halt)
=============================================================================
