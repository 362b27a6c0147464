-------------------------- MODULE CalibrationStore --------------------------
(***************************************************************************)
(* What calibrate() is promised of saveToFlash(), without pages, rows or   *)
(* addresses: flash changes only while a save is under way, and then a     *)
(* word is blank, broken or what was wanted, never anything else; a save   *)
(* that reports no error has stored every word wanted so far.              *)
(***************************************************************************)
CONSTANTS Index,        \* the words kept: the bias and one gain for each filter
          Cells,        \* what a word can hold
          Blank, Broken, Zero

VARIABLES stored,   \* the words in flash
          wanted,   \* the words the program means to keep, zero until it has one
          saving,   \* a save is under way
          failed    \* a save since power came on has failed

vars == <<stored, wanted, saving, failed>>

Init == /\ stored \in [Index -> Cells] /\ wanted = [i \in Index |-> Zero]
        /\ saving = FALSE /\ failed = FALSE

\* What can become of the words while a save is under way.
Changed == /\ stored' \in [Index -> Cells]
           /\ \A i \in Index : stored'[i] \in {stored[i], wanted[i], Blank, Broken}

Save == /\ ~saving /\ saving' = TRUE
        /\ \E i \in Index, c \in Cells : wanted' = [wanted EXCEPT ![i] = c]
        /\ UNCHANGED <<stored, failed>>

Change == saving /\ Changed /\ UNCHANGED <<wanted, saving, failed>>

Saved == /\ saving /\ saving' = FALSE
         /\ failed' = (failed \/ stored # wanted)
         /\ UNCHANGED <<stored, wanted>>

PowerLoss == /\ IF saving THEN Changed ELSE UNCHANGED stored
             /\ wanted' = [i \in Index |-> Zero]
             /\ saving' = FALSE /\ failed' = FALSE

Next == Save \/ Change \/ Saved \/ PowerLoss

Spec == Init /\ [][Next]_vars
=============================================================================
