---------------------------- MODULE SaveToFlash ----------------------------
(***************************************************************************)
(* saveToFlash() and its callers: calibrate(), which saves the bias and    *)
(* then each gain, and APP_Initialize(), which loads them again after a    *)
(* loss of power at any moment.  Addresses count 32-bit words.             *)
(***************************************************************************)
EXTENDS Integers

CONSTANTS NUM_FILTERS,
          ROW_SIZE, PAGE_SIZE,  \* of the flash, in words
          START,                \* APP_FLASH_DRV_START_ADDRESS
          MaxBoots,             \* bound: how often power comes on
          MaxFaults             \* bound: flash operations that fail

Index == 0 .. NUM_FILTERS      \* words of appFlashWriteString: bias, gains
END   == START + NUM_FILTERS + 1

RowStart(a)  == a - (a % ROW_SIZE)
RowEnd(a)    == RowStart(a + ROW_SIZE)
PageStart(a) == a - (a % PAGE_SIZE)
Words == PageStart(START) .. PageStart(START) + PAGE_SIZE - 1
Area  == START .. END - 1

(***************************************************************************)
(* appFlashReserveArea lies in one page, as 44 bytes at 0x9D020000 do: the *)
(* loop of APP_FLASH_ERASE steps by whole pages from an address that need  *)
(* not be the start of one, and would miss the last of several.  Pages are *)
(* made of whole rows.                                                     *)
(***************************************************************************)
ASSUME FlashAssumption ==
  /\ NUM_FILTERS \in Nat /\ START \in Nat /\ MaxBoots \in Nat \ {0} /\ MaxFaults \in Nat
  /\ ROW_SIZE \in Nat \ {0} /\ PAGE_SIZE \in Nat \ {0}
  /\ Area \subseteq Words
  /\ \A a \in Area : RowStart(a) .. RowEnd(a) - 1 \subseteq Words

VARIABLES
  calibrating, next,      \* calibrate() is running; the word it saves next
  flashStates,            \* appData.flashStates, "none" outside saveToFlash
  flashAddress, buffer,   \* flashAddress; bufferAddress, as an index
  string,                 \* appFlashWriteString
  ram,                    \* sensor_bias and filterBank[].gain
  error,
  flash,                  \* the page
  op, target,             \* operation under way; what it makes of which words
  boots, faults

callVars  == <<calibrating, next, string, ram>>
stateVars == <<flashStates, flashAddress, buffer, error>>
flashVars == <<flash, op, target>>
vars == <<callVars, stateVars, flashVars, boots, faults>>

\* Contents of a word.  A result carries the boot it was measured in and its index.
Erased == <<"erased">>
Garbage == <<"garbage">>
Zero == <<"zero">>
Result(b, i) == <<"result", b, i>>
Cells == {Erased, Garbage, Zero, <<"reserved">>}
           \union {Result(b, i) : b \in 0 .. MaxBoots, i \in Index}

Nothing == [w \in {} |-> Erased]
Busy == op # "none"

-----------------------------------------------------------------------------
\* The compiler's initial value of appFlashReserveArea is {0xFF, }.
Init ==
  /\ flash = [w \in Words |-> IF w = START THEN <<"reserved">>
                              ELSE IF w \in Area THEN Zero ELSE Erased]
  /\ ram = [i \in Index |-> flash[START + i]]
  /\ string = [i \in Index |-> Zero]
  /\ calibrating = FALSE /\ next = 0
  /\ flashStates = "none" /\ flashAddress = 0 /\ buffer = 0 /\ error = "NO_ERROR"
  /\ op = "none" /\ target = Nothing
  /\ boots = 1 /\ faults = 0

\* Once per boot: only init() leads to wait_for_button_press().  The bias is summed
\* up from zero; the sum counts as zero until it is a result.
CalibrateBegin ==
  /\ ~calibrating /\ next = 0
  /\ calibrating' = TRUE
  /\ ram' = [ram EXCEPT ![0] = Zero]
  /\ UNCHANGED <<next, string, stateVars, flashVars, boots, faults>>

SaveOneMore ==   \* mutant: i <= NUM_FILTERS
  /\ calibrating /\ flashStates = "none" /\ next <= NUM_FILTERS + 1
  /\ ram' = [ram EXCEPT ![next] = Result(boots, next)]
  /\ string' = [string EXCEPT ![next] = Result(boots, next)]
  /\ flashStates' = "START"
  /\ UNCHANGED <<calibrating, next, flashAddress, buffer, error, flashVars, boots, faults>>

\* A value is measured, kept in RAM and passed to saveToFlash.
Save ==
  /\ calibrating /\ flashStates = "none" /\ next \in Index
  /\ ram' = [ram EXCEPT ![next] = Result(boots, next)]
  /\ string' = [string EXCEPT ![next] = Result(boots, next)]
  /\ flashStates' = "START"
  /\ UNCHANGED <<calibrating, next, flashAddress, buffer, error, flashVars, boots, faults>>

CalibrateReturn ==
  /\ calibrating /\ flashStates = "none" /\ next \notin Index
  /\ calibrating' = FALSE
  /\ UNCHANGED <<next, string, ram, stateVars, flashVars, boots, faults>>

-----------------------------------------------------------------------------
(* The states of saveToFlash().                                            *)

Start ==
  /\ flashStates = "START" /\ flashStates' = "ERASE"
  /\ flashAddress' = START /\ buffer' = 0
  /\ UNCHANGED <<callVars, error, flashVars, boots, faults>>

ErasePage(a) ==
  /\ op' = "erase"
  /\ target' = [w \in PageStart(a) .. PageStart(a) + PAGE_SIZE - 1 |-> Erased]
  /\ UNCHANGED flash

EraseNoAdvance ==   \* mutant: flashAddress stays
  /\ flashStates = "ERASE" /\ ~Busy
  /\ IF flashAddress < END
     THEN ErasePage(flashAddress) /\ UNCHANGED <<flashAddress, flashStates>>
     ELSE /\ flashAddress' = START /\ flashStates' = "WRITE"
          /\ UNCHANGED flashVars
  /\ UNCHANGED <<callVars, buffer, error, boots, faults>>

Erase ==
  /\ flashStates = "ERASE" /\ ~Busy
  /\ IF flashAddress < END
     THEN /\ ErasePage(flashAddress)
          /\ flashAddress' = flashAddress + PAGE_SIZE /\ UNCHANGED flashStates
     ELSE /\ flashAddress' = START /\ flashStates' = "WRITE"
          /\ UNCHANGED flashVars
  /\ UNCHANGED <<callVars, buffer, error, boots, faults>>

\* Which words of the row buffer the row at flashAddress takes from the string.
FirstBufferIndexZero == 0   \* mutant: rows are taken to start where the area does
FirstBufferIndex == IF flashAddress = START THEN START - RowStart(START) ELSE 0
LastBufferIndex ==
  ROW_SIZE - (IF RowEnd(flashAddress) > END THEN RowEnd(flashAddress) - END ELSE 0)

\* The row buffer: the row as it is in flash, overlaid with words of the string.
RowBuffer ==
  LET row == RowStart(flashAddress)
  IN [w \in row .. row + ROW_SIZE - 1 |->
        IF w - row \in FirstBufferIndex .. LastBufferIndex - 1
        THEN string[buffer + (w - row) - FirstBufferIndex]
        ELSE flash[w]]

Write ==
  /\ flashStates = "WRITE" /\ ~Busy
  /\ IF flashAddress < END
     THEN LET count == LastBufferIndex - FirstBufferIndex
          IN /\ op' = "program" /\ target' = RowBuffer /\ UNCHANGED flash
             /\ flashAddress' = flashAddress + count /\ buffer' = buffer + count
             /\ UNCHANGED flashStates
     ELSE /\ flashStates' = "VERIFY"
          /\ UNCHANGED <<flashAddress, buffer, flashVars>>
  /\ UNCHANGED <<callVars, error, boots, faults>>

VerifyNothing ==   \* mutant: what was written is not compared
  /\ flashStates = "VERIFY" /\ ~Busy
  /\ flashStates' = "DONE"
  /\ UNCHANGED <<callVars, flashAddress, buffer, error, flashVars, boots, faults>>

Verify ==
  /\ flashStates = "VERIFY" /\ ~Busy
  /\ flashStates' = IF \A i \in Index : flash[START + i] = string[i]
                    THEN "DONE" ELSE "ERROR"
  /\ UNCHANGED <<callVars, flashAddress, buffer, error, flashVars, boots, faults>>

ReturnSilent ==   \* mutant: APP_FLASH_ERROR records nothing
  /\ flashStates \in {"DONE", "ERROR"} /\ flashStates' = "none"
  /\ next' = next + 1
  /\ UNCHANGED <<calibrating, string, ram, flashAddress, buffer, error, flashVars, boots, faults>>

\* Back in calibrate(), which goes on with the next word in any case.
Return ==
  /\ flashStates \in {"DONE", "ERROR"} /\ flashStates' = "none"
  /\ error' = IF flashStates = "ERROR" THEN "ERROR_WRITING_TO_FLASH" ELSE error
  /\ next' = next + 1
  /\ UNCHANGED <<calibrating, string, ram, flashAddress, buffer, flashVars, boots, faults>>

-----------------------------------------------------------------------------
(* The flash and its power.  Erasing sets all bits, programming clears some. *)

Programmed(old, new) == IF old \in {Erased, new} THEN new
                        ELSE IF new = Erased THEN old ELSE Garbage

\* What the operation under way makes of a word when it is carried out.
Outcome(w) == CASE op = "erase"   -> Erased
                [] op = "program" -> Programmed(flash[w], target[w])

OperationEnds ==
  /\ Busy
  /\ flash' = [w \in Words |-> IF w \in DOMAIN target THEN Outcome(w) ELSE flash[w]]
  /\ op' = "none" /\ target' = Nothing
  /\ UNCHANGED <<callVars, stateVars, boots, faults>>

\* Refused (a low voltage, a wrong key sequence) or spoiled.
OperationFails ==
  /\ Busy /\ faults < MaxFaults /\ faults' = faults + 1
  /\ flash' \in {flash, [w \in Words |-> IF w \in DOMAIN target THEN Garbage ELSE flash[w]]}
  /\ op' = "none" /\ target' = Nothing
  /\ UNCHANGED <<callVars, stateVars, boots>>

\* Each word the operation works on is as before, done, or neither.
Torn(w) == IF w \in DOMAIN target THEN {flash[w], Outcome(w), Garbage} ELSE {flash[w]}

PowerLossKeepsString ==   \* mutant: the string is loaded from flash as well
  /\ boots < MaxBoots /\ boots' = boots + 1
  /\ \E f \in [Words -> UNION {Torn(w) : w \in Words}] :
       /\ \A w \in Words : f[w] \in Torn(w)
       /\ flash' = f
  /\ op' = "none" /\ target' = Nothing
  /\ ram' = [i \in Index |-> flash'[START + i]] /\ string' = ram'
  /\ calibrating' = FALSE /\ next' = 0
  /\ flashStates' = "none" /\ flashAddress' = 0 /\ buffer' = 0 /\ error' = "NO_ERROR"
  /\ UNCHANGED faults

\* Power is lost and comes back: RAM is cleared and APP_Initialize loads the area.
PowerLoss ==
  /\ boots < MaxBoots /\ boots' = boots + 1
  /\ \E f \in [Words -> UNION {Torn(w) : w \in Words}] :
       /\ \A w \in Words : f[w] \in Torn(w)
       /\ flash' = f
  /\ op' = "none" /\ target' = Nothing
  /\ ram' = [i \in Index |-> flash'[START + i]]
  /\ string' = [i \in Index |-> Zero]
  /\ calibrating' = FALSE /\ next' = 0
  /\ flashStates' = "none" /\ flashAddress' = 0 /\ buffer' = 0 /\ error' = "NO_ERROR"
  /\ UNCHANGED faults

-----------------------------------------------------------------------------
\* The rest of the program leaves the flash alone.
Rest == ~calibrating /\ next > 0 /\ UNCHANGED vars

Processor == Save \/ CalibrateReturn \/ Start \/ Erase \/ Write \/ Verify \/ Return

Next == \/ CalibrateBegin \/ Processor \/ Rest
        \/ OperationEnds \/ OperationFails \/ PowerLoss

\* calibrate() is in one of its two measurements, of the bias and of all the gains.  Both
\* loops wait for samples, which stop for ever once SPI2 overflows (Sampling.tla).
Measuring == calibrating /\ flashStates = "none" /\ next \in {0, 1}

\* The program goes on, unless it waits for samples, and an operation of the flash ends:
\* its time is bounded.
Spec == Init /\ [][Next]_vars /\ WF_vars(~Measuring /\ Processor) /\ WF_vars(OperationEnds)

-----------------------------------------------------------------------------
(* Properties.                                                             *)

\* Every variable holds what the C variable it stands for can hold.
TypeOK ==
  /\ calibrating \in BOOLEAN /\ next \in 0 .. NUM_FILTERS + 1
  /\ flashStates \in {"none", "START", "ERASE", "WRITE", "VERIFY", "DONE", "ERROR"}
  /\ flashAddress \in Nat /\ buffer \in 0 .. NUM_FILTERS + 1
  /\ string \in [Index -> Cells] /\ ram \in [Index -> Cells]
  /\ error \in {"NO_ERROR", "ERROR_WRITING_TO_FLASH"}
  /\ flash \in [Words -> Cells]
  /\ op \in {"none", "erase", "program"}
  /\ DOMAIN target \subseteq Words /\ \A w \in DOMAIN target : target[w] \in Cells
  /\ boots \in 0 .. MaxBoots /\ faults \in 0 .. MaxFaults

\* As long as the flash does what it is told, no save fails: each erases all it
\* programs and the rows it programs put every word of the string in its place,
\* whatever the offsets of the area and whatever a loss of power left behind.
HealthyFlashNeverFails == faults = 0 => error = "NO_ERROR" /\ flashStates # "ERROR"

\* A flash that does what it is told never holds results of two calibrations together,
\* not even after one was cut off in the middle of an erase or of a row.
OneCalibrationAtATime ==
  faults = 0 =>
    \A b, c \in 1 .. MaxBoots, i, j \in Index :
      flash[START + i] = Result(b, i) /\ flash[START + j] = Result(c, j) => b = c

\* Power may be lost once calibrate() has returned without an error: APP_Initialize
\* then loads the bias and the gains that were in RAM, whatever failed on the way.
RestartKeepsCalibration ==
  [][boots' # boots /\ ~calibrating /\ error = "NO_ERROR" => ram' = ram]_vars

\* Every save ends, whatever fails in the flash, and so does calibrate(), unless power is
\* lost first or it waits for samples for ever: the loops of calibrate.c:18 and 37 have no
\* way out when SPI2 has stopped.
CalibrationEnds == calibrating ~> (~calibrating \/ []Measuring)

Store == INSTANCE CalibrationStore WITH
  Index <- Index, Blank <- Erased, Broken <- Garbage,
  stored <- [i \in Index |-> flash[START + i]], wanted <- string,
  saving <- flashStates # "none", failed <- error # "NO_ERROR"

\* Pages, rows and operations keep the promise of CalibrationStore.
ImplementsCalibrationStore == Store!Spec
=============================================================================
