------------------------- MODULE SaveToFlash_proof -------------------------
(***************************************************************************)
(* Proofs about saveToFlash() and calibrate()'s saves, for every number of *)
(* filters, every size of rows and pages, every place of the area in its   *)
(* page and any number of losses of power and failing operations.          *)
(***************************************************************************)
EXTENDS SaveToFlash, TLAPS

(***************************************************************************)
(* The inductive invariant.  None of the properties is inductive by itself: *)
(* what an erase or a row leaves in flash depends on which of them is under *)
(* way and how far flashAddress has come.                                   *)
(***************************************************************************)
Aligned(a) == a \in {START, END} \/ a % ROW_SIZE = 0

\* Where the state machine is, and in which call of it.
Place ==
  /\ boots > 0
  /\ flashStates # "none" => calibrating /\ next \in Index
  /\ ~calibrating => next \in {0, NUM_FILTERS + 1}
  /\ flashStates = "ERASE" => flashAddress \in {START, START + PAGE_SIZE} /\ buffer = 0
  /\ flashStates = "WRITE" => /\ flashAddress \in START .. END /\ Aligned(flashAddress)
                              /\ buffer = flashAddress - START

\* Which operation can be under way, and what it makes of the area.
Operation ==
  /\ op = "none" => DOMAIN target = {}
  /\ op = "erase" => /\ flashStates = "ERASE" /\ flashAddress # START
                     /\ DOMAIN target = Words
  /\ op = "program" => /\ flashStates = "WRITE"
                       /\ \A i \in Index : START + i \in DOMAIN target
                            => target[START + i] \in {string[i], flash[START + i]}

\* What a verification has found, and that an error is not forgotten.
Verified ==
  /\ flashStates = "DONE" => \A i \in Index : flash[START + i] = string[i]
  /\ flashStates = "ERROR" => \E i \in Index : flash[START + i] # string[i]
  /\ flashStates = "none" /\ next > 0 /\ error = "NO_ERROR"
       => \A i \in Index : flash[START + i] = string[i]

\* RAM and the string agree on the results of this calibration.
Kept ==
  /\ \A i \in Index : i < next \/ (i = next /\ flashStates # "none") => string[i] = ram[i]
  /\ ~calibrating /\ next = 0 => \A i \in Index : ram[i] = flash[START + i]
  /\ \A i \in Index : string[i] \in {Zero, Result(boots, i)}

\* How far the area has been written, if the flash does what it is told.
Written(i) ==
  IF START + i >= flashAddress
  THEN flash[START + i] = Erased /\ START + i \notin DOMAIN target
  ELSE IF START + i \in DOMAIN target
  THEN flash[START + i] = Erased /\ target[START + i] = string[i]
  ELSE flash[START + i] = string[i]

Healthy == faults = 0 =>
  /\ error = "NO_ERROR" /\ flashStates # "ERROR"
  /\ flashStates = "ERASE" /\ op = "none" /\ flashAddress # START
       => \A i \in Index : flash[START + i] = Erased
  /\ flashStates = "WRITE" => \A i \in Index : Written(i)
  /\ flashStates = "VERIFY" => \A i \in Index : flash[START + i] = string[i]

\* What is assumed of the constants as numbers.
LEMMA Numbers ==
  /\ NUM_FILTERS \in Nat /\ START \in Nat /\ MaxBoots \in Nat \ {0} /\ MaxFaults \in Nat
  /\ ROW_SIZE \in Nat \ {0} /\ PAGE_SIZE \in Nat \ {0}
BY FlashAssumption DEF FlashAssumption

USE Numbers

-----------------------------------------------------------------------------
(* Rows and pages.                                                         *)

\* Division with remainder.
LEMMA Division ==
  ASSUME NEW a \in Nat, NEW R \in Nat \ {0}
  PROVE  /\ a = R * (a \div R) + (a % R) /\ a % R \in 0 .. R - 1
         /\ a \div R \in Nat
OBVIOUS

\* What is left of a multiple of R and a remainder.
LEMMA RemainderUnique ==
  ASSUME NEW R \in Nat \ {0}, NEW q \in Nat, NEW r \in 0 .. R - 1
  PROVE  (R * q + r) % R = r
OBVIOUS

\* One row further on the offset in the row is the same.
LEMMA RemainderOfSum ==
  ASSUME NEW a \in Nat, NEW R \in Nat \ {0}
  PROVE  (a + R) % R = a % R
<1> DEFINE q == a \div R
           r == a % R
<1>1. a = R * q + r /\ r \in 0 .. R - 1 /\ q \in Nat
  BY Division
<1> HIDE DEF q, r
<1>2. a + R = R * (q + 1) + r /\ q + 1 \in Nat
  BY <1>1
<1>3. (R * (q + 1) + r) % R = r
  BY <1>1, <1>2, RemainderUnique
<1> QED BY <1>2, <1>3 DEF r

\* The start of a row is aligned.
LEMMA RemainderOfStart ==
  ASSUME NEW a \in Nat, NEW R \in Nat \ {0}
  PROVE  (a - (a % R)) % R = 0
<1> DEFINE q == a \div R
           r == a % R
<1>1. a = R * q + r /\ r \in 0 .. R - 1 /\ q \in Nat
  BY Division
<1> HIDE DEF q, r
<1>2. (R * q + 0) % R = 0
  BY <1>1, RemainderUnique
<1>3. a - r = R * q + 0
  BY <1>1
<1> QED BY <1>2, <1>3 DEF r

\* A row begins at most at its address, ends a row's length later, and lies in the page.
LEMMA Row ==
  ASSUME NEW a \in Area
  PROVE  /\ RowStart(a) \in Nat /\ RowStart(a) <= a /\ a < RowStart(a) + ROW_SIZE
         /\ RowEnd(a) = RowStart(a) + ROW_SIZE
         /\ RowEnd(a) % ROW_SIZE = 0
         /\ a % ROW_SIZE = 0 => RowStart(a) = a
         /\ RowStart(a) .. RowStart(a) + ROW_SIZE - 1 \subseteq Words
<1>1. a \in Nat
  BY DEF Area, END
<1>2. a % ROW_SIZE \in 0 .. ROW_SIZE - 1 /\ a = ROW_SIZE * (a \div ROW_SIZE) + (a % ROW_SIZE)
  /\ a \div ROW_SIZE \in Nat
  BY <1>1, Division
<1>3. ROW_SIZE * (a \div ROW_SIZE) \in Nat
  BY <1>2
<1>4. (a + ROW_SIZE) % ROW_SIZE = a % ROW_SIZE
  BY <1>1, RemainderOfSum
<1>5. RowStart(a) \in Nat /\ RowStart(a) <= a /\ a < RowStart(a) + ROW_SIZE
  BY <1>1, <1>2, <1>3 DEF RowStart
<1>6. RowEnd(a) = RowStart(a) + ROW_SIZE
  BY <1>1, <1>2, <1>4 DEF RowEnd, RowStart
<1>7. RowEnd(a) % ROW_SIZE = 0
  BY <1>1, RemainderOfStart DEF RowEnd, RowStart
<1>8. RowStart(a) .. RowEnd(a) - 1 \subseteq Words
  BY FlashAssumption DEF FlashAssumption
<1>9. a % ROW_SIZE = 0 => RowStart(a) = a
  BY <1>1 DEF RowStart
<1> QED BY <1>5, <1>6, <1>7, <1>8, <1>9

\* The area lies in the page that is erased, and one page ahead is behind it.
LEMMA Page == /\ PageStart(START) \in Int /\ START \in Nat /\ END \in Nat /\ START < END
              /\ START + PAGE_SIZE >= END
              /\ \A i \in Index : START + i \in Words /\ START + i \in Area
<1>1. START % PAGE_SIZE \in 0 .. PAGE_SIZE - 1
  BY Division
<1>2. PageStart(START) \in Int /\ PageStart(START) <= START
  BY <1>1 DEF PageStart
<1>3. END \in Nat /\ START < END
  BY DEF END
<1>4. END - 1 \in Area
  BY <1>3 DEF Area
<1>5. END - 1 <= PageStart(START) + PAGE_SIZE - 1
  <2>1. END - 1 \in Words
    BY <1>4, FlashAssumption DEF FlashAssumption
  <2> QED BY <1>2, <1>3, <2>1 DEF Words
<1>6. \A i \in Index : START + i \in Area
  BY DEF Index, Area, END
<1>7. START + PAGE_SIZE >= END
  BY <1>2, <1>3, <1>5
<1>8. \A i \in Index : START + i \in Words
  BY <1>6, FlashAssumption DEF FlashAssumption
<1> QED BY <1>2, <1>3, <1>6, <1>7, <1>8

(***************************************************************************)
(* The row buffer holds the words of the string that belong in the row and *)
(* otherwise what flash holds, and flashAddress moves to the next row or to *)
(* the end of the area.                                                    *)
(***************************************************************************)
LEMMA RowIsRight ==
  ASSUME flashAddress \in Area, Aligned(flashAddress), buffer = flashAddress - START
  PROVE  LET upto == flashAddress + (LastBufferIndex - FirstBufferIndex)
         IN  /\ DOMAIN RowBuffer \subseteq Words
             /\ \A w \in DOMAIN RowBuffer :
                  RowBuffer[w] = IF w \in Area THEN string[w - START] ELSE flash[w]
             /\ \A w \in Area : w \in DOMAIN RowBuffer <=> flashAddress <= w /\ w < upto
             /\ upto \in flashAddress + 1 .. END /\ Aligned(upto)
<1> DEFINE row == RowStart(flashAddress)
           first == FirstBufferIndex
           last == LastBufferIndex
           upto == flashAddress + (last - first)
<1>1. /\ row \in Nat /\ row <= flashAddress /\ flashAddress < row + ROW_SIZE
      /\ RowEnd(flashAddress) = row + ROW_SIZE /\ (row + ROW_SIZE) % ROW_SIZE = 0
      /\ flashAddress % ROW_SIZE = 0 => row = flashAddress
      /\ row .. row + ROW_SIZE - 1 \subseteq Words
  BY Row
<1>2. /\ flashAddress \in Nat /\ START \in Nat /\ END \in Nat
      /\ START <= flashAddress /\ flashAddress < END
  BY Page DEF Area
<1>3. first = IF flashAddress = START THEN START - row ELSE 0
  BY DEF FirstBufferIndex
<1>4. first \in Nat /\ row + first = flashAddress
  BY <1>1, <1>2, <1>3 DEF Aligned
<1>5. last = IF row + ROW_SIZE > END THEN END - row ELSE ROW_SIZE
  BY <1>1, <1>2 DEF LastBufferIndex
<1>6. last \in 0 .. ROW_SIZE /\ row + last <= END /\ first < last /\ upto = row + last
  <2> HIDE DEF row, first, last
  <2>1. last \in 0 .. ROW_SIZE /\ row + last <= END /\ flashAddress < row + last
    BY <1>1, <1>2, <1>5
  <2> QED BY <1>1, <1>2, <1>4, <2>1
<1>7. RowBuffer = [w \in row .. row + ROW_SIZE - 1 |->
                    IF w - row \in first .. last - 1
                    THEN string[buffer + (w - row) - first] ELSE flash[w]]
  BY DEF RowBuffer
<1>8. \A w \in row .. row + ROW_SIZE - 1 :
        w - row \in first .. last - 1 <=> flashAddress <= w /\ w < upto
  <2> HIDE DEF row, first, last
  <2> QED BY <1>1, <1>2, <1>4, <1>6
<1>9. \A w \in row .. row + ROW_SIZE - 1 : w \in Area <=> flashAddress <= w /\ w < upto
  <2> HIDE DEF row, first, last
  <2> SUFFICES ASSUME NEW w \in row .. row + ROW_SIZE - 1
               PROVE  w \in Area <=> flashAddress <= w /\ w < upto
    OBVIOUS
  <2>1. w \in Int /\ (w \in Area <=> START <= w /\ w < END)
    BY <1>1, <1>2 DEF Area
  <2>2. flashAddress = START \/ row = flashAddress
    BY <1>1, <1>2 DEF Aligned
  <2>3. w < END <=> w < upto
    BY <1>1, <1>2, <1>5, <1>6, <2>1
  <2> QED BY <1>1, <1>2, <2>1, <2>2, <2>3
<1>10. \A w \in row .. row + ROW_SIZE - 1 : buffer + (w - row) - first = w - START
  <2> HIDE DEF row, first, last
  <2> QED BY <1>1, <1>2, <1>4
<1>11. upto \in flashAddress + 1 .. END
  <2> HIDE DEF row, first, last
  <2> QED BY <1>1, <1>2, <1>4, <1>6
<1>12. Aligned(upto)
  <2> HIDE DEF row, first, last
  <2>1. upto = END \/ upto = row + ROW_SIZE
    BY <1>1, <1>2, <1>5, <1>6
  <2> QED BY <1>1, <2>1 DEF Aligned
<1>13. \A w \in Area : flashAddress <= w /\ w < upto => w \in row .. row + ROW_SIZE - 1
  <2> HIDE DEF row, first, last
  <2> QED BY <1>1, <1>2, <1>6 DEF Area
<1> HIDE DEF row, first, last
<1>14. DOMAIN RowBuffer = row .. row + ROW_SIZE - 1
  BY <1>7
<1>15. \A w \in DOMAIN RowBuffer :
         RowBuffer[w] = IF w \in Area THEN string[w - START] ELSE flash[w]
  BY <1>7, <1>8, <1>9, <1>10
<1>16. \A w \in Area : w \in DOMAIN RowBuffer <=> flashAddress <= w /\ w < upto
  BY <1>9, <1>13, <1>14
<1> QED BY <1>1, <1>11, <1>12, <1>14, <1>15, <1>16 DEF first, last

\* An address in the area is as far into it as the buffer index can count.
LEMMA Offset == ASSUME NEW a \in Nat, START <= a, a <= END
                PROVE  a - START \in 0 .. NUM_FILTERS + 1
BY DEF END

-----------------------------------------------------------------------------
(* Contents of words.                                                      *)

\* The four kinds of contents differ, and a result names its boot and its index.
LEMMA CellsDiffer ==
  /\ Erased # Garbage /\ Erased # Zero /\ Garbage # Zero
  /\ \A b \in Int, i \in Int : Result(b, i) \notin {Erased, Garbage, Zero, <<"reserved">>}
  /\ \A b, c, i, j \in Int : Result(b, i) = Result(c, j) => b = c /\ i = j
<1>1. /\ Erased[1] = "erased" /\ Garbage[1] = "garbage" /\ Zero[1] = "zero"
      /\ <<"reserved">>[1] = "reserved"
  BY DEF Erased, Garbage, Zero
<1>2. \A b, i : /\ Result(b, i)[1] = "result"
                /\ Result(b, i)[2] = b /\ Result(b, i)[3] = i
  BY DEF Result
<1>3. Erased # Garbage /\ Erased # Zero /\ Garbage # Zero
  BY <1>1
<1>4. \A b \in Int, i \in Int : Result(b, i) \notin {Erased, Garbage, Zero, <<"reserved">>}
  BY <1>1, <1>2
<1>5. \A b, c, i, j \in Int : Result(b, i) = Result(c, j) => b = c /\ i = j
  BY <1>2
<1> QED BY <1>3, <1>4, <1>5

\* The contents the actions write are contents a word can have.
LEMMA CellsKnown ==
  /\ Erased \in Cells /\ Garbage \in Cells /\ Zero \in Cells /\ <<"reserved">> \in Cells
  /\ \A b \in 0 .. MaxBoots, i \in Index : Result(b, i) \in Cells
BY DEF Cells

\* An operation makes of a word what it should, leaves it, or spoils it.
LEMMA OutcomeTyped ==
  ASSUME TypeOK, Busy, NEW w \in DOMAIN target
  PROVE  Outcome(w) \in Cells /\ Torn(w) \subseteq Cells
<1>1. flash[w] \in Cells /\ target[w] \in Cells
  BY DEF TypeOK
<1>2. op = "erase" => Outcome(w) = Erased
  BY DEF Outcome
<1>3. op = "program" => Outcome(w) = Programmed(flash[w], target[w])
  BY DEF Outcome
<1>4. Programmed(flash[w], target[w]) \in Cells
  BY <1>1, CellsKnown DEF Programmed
<1>5. Outcome(w) \in Cells
  BY <1>2, <1>3, <1>4, CellsKnown DEF TypeOK, Busy
<1> QED BY <1>1, <1>5, CellsKnown DEF Torn

\* Nor does cutting it off put anything else there.
LEMMA TornTyped ==
  ASSUME TypeOK, Operation, NEW w \in Words
  PROVE  Torn(w) \subseteq Cells
<1>1. CASE w \in DOMAIN target
  <2>1. Busy
    BY <1>1 DEF Busy, Operation
  <2> QED BY <1>1, <2>1, OutcomeTyped
<1>2. CASE w \notin DOMAIN target
  BY <1>2 DEF Torn, TypeOK
<1> QED BY <1>1, <1>2

\* What a word of the area can become while an operation is under way.
LEMMA TornArea ==
  ASSUME TypeOK, Operation, NEW i \in Index
  PROVE  /\ Torn(START + i) \subseteq {flash[START + i], string[i], Erased, Garbage}
         /\ ~Busy => Torn(START + i) = {flash[START + i]}
<1> DEFINE w == START + i
<1>1. w \in Words
  BY Page
<1>2. CASE w \in DOMAIN target
  <2>1. Busy
    BY <1>2 DEF Busy, Operation
  <2>2. CASE op = "erase"
    BY <2>2, <2>1, <1>2 DEF Torn, Outcome
  <2>3. CASE op = "program"
    <3>1. target[w] \in {string[i], flash[w]}
      BY <1>2, <2>3 DEF Operation
    <3>2. Outcome(w) = Programmed(flash[w], target[w])
      BY <2>3 DEF Outcome
    <3>3. Programmed(flash[w], target[w]) \in {flash[w], string[i], Erased, Garbage}
      BY <3>1 DEF Programmed
    <3> QED BY <1>2, <2>1, <3>2, <3>3 DEF Torn
  <2> QED BY <2>1, <2>2, <2>3 DEF TypeOK, Busy
<1>3. CASE w \notin DOMAIN target
  BY <1>3 DEF Torn
<1>4. ~Busy => w \notin DOMAIN target
  BY DEF Busy, Operation
<1> QED BY <1>2, <1>3, <1>4 DEF Torn

-----------------------------------------------------------------------------
(* Initial states and steps, one part of the invariant at a time.          *)

\* What one pass of APP_FLASH_WRITE does to the state, while rows are left.
LEMMA WriteARow ==
  ASSUME TypeOK, Place, Write, flashAddress < END
  PROVE  /\ flashStates = "WRITE" /\ ~Busy
         /\ op' = "program" /\ UNCHANGED <<flashStates, flash, callVars, error, boots, faults>>
         /\ flashAddress \in Area /\ Aligned(flashAddress) /\ buffer = flashAddress - START
         /\ flashAddress' \in flashAddress + 1 .. END /\ Aligned(flashAddress')
         /\ buffer' = flashAddress' - START
         /\ DOMAIN target' \subseteq Words
         /\ \A w \in DOMAIN target' :
              target'[w] = IF w \in Area THEN string[w - START] ELSE flash[w]
         /\ \A w \in Area : w \in DOMAIN target' <=> flashAddress <= w /\ w < flashAddress'
<1> DEFINE count == LastBufferIndex - FirstBufferIndex
<1>1. /\ flashStates = "WRITE" /\ ~Busy
      /\ op' = "program" /\ UNCHANGED <<flashStates, flash, callVars, error, boots, faults>>
      /\ target' = RowBuffer /\ flashAddress' = flashAddress + count
      /\ buffer' = buffer + count
  BY DEF Write
<1>2. flashAddress \in START .. END /\ Aligned(flashAddress) /\ buffer = flashAddress - START
  BY <1>1 DEF Place
<1>3. flashAddress \in Area
  BY <1>2, Page DEF Area
<1>4. flashAddress' \in flashAddress + 1 .. END /\ Aligned(flashAddress')
  BY <1>1, <1>2, <1>3, RowIsRight
<1>5. DOMAIN target' \subseteq Words
  BY <1>1, <1>2, <1>3, RowIsRight
<1>6. \A w \in DOMAIN target' :
        target'[w] = IF w \in Area THEN string[w - START] ELSE flash[w]
  BY <1>1, <1>2, <1>3, RowIsRight
<1>7. \A w \in Area : w \in DOMAIN target' <=> flashAddress <= w /\ w < flashAddress'
  BY <1>1, <1>2, <1>3, RowIsRight
<1>8. count \in Int
  <2>1. FirstBufferIndex \in Int
    BY <1>3, Row, Page DEF FirstBufferIndex
  <2>2. RowStart(flashAddress) \in Nat /\ RowEnd(flashAddress) = RowStart(flashAddress) + ROW_SIZE
    BY <1>3, Row
  <2>3. LastBufferIndex \in Int
    BY <2>2, Page DEF LastBufferIndex
  <2> QED BY <2>1, <2>3
<1>9. buffer' = flashAddress' - START
  <2> HIDE DEF count
  <2> QED BY <1>1, <1>2, <1>8, Page
<1> QED BY <1>1, <1>2, <1>3, <1>4, <1>5, <1>6, <1>7, <1>9

\* The program starts with every part of the invariant.
LEMMA InitIInv == Init => TypeOK /\ Place /\ Operation /\ Verified /\ Kept /\ Healthy
<1> SUFFICES ASSUME Init
             PROVE  TypeOK /\ Place /\ Operation /\ Verified /\ Kept /\ Healthy
  OBVIOUS
<1>1. flash \in [Words -> Cells]
  BY CellsKnown DEF Init
<1>2. ram \in [Index -> Cells]
  <2>1. \A i \in Index : flash[START + i] \in Cells
    BY <1>1, Page
  <2> QED BY <2>1 DEF Init
<1>3. TypeOK
  <2>1. string \in [Index -> Cells]
    BY CellsKnown DEF Init
  <2>2. DOMAIN target = {}
    BY DEF Init, Nothing
  <2>3. /\ calibrating = FALSE /\ next = 0 /\ flashStates = "none" /\ flashAddress = 0
        /\ buffer = 0 /\ error = "NO_ERROR" /\ op = "none" /\ boots = 1 /\ faults = 0
    BY DEF Init
  <2>4. /\ next \in 0 .. NUM_FILTERS + 1 /\ buffer \in 0 .. NUM_FILTERS + 1
        /\ boots \in 0 .. MaxBoots /\ faults \in 0 .. MaxFaults
    BY <2>3
  <2>5. DOMAIN target \subseteq Words /\ \A w \in DOMAIN target : target[w] \in Cells
    BY <2>2
  <2> QED BY <1>1, <1>2, <2>1, <2>3, <2>4, <2>5 DEF TypeOK
<1>4. Place
  BY DEF Init, Place
<1>5. Operation
  BY DEF Init, Operation, Nothing
<1>6. Verified
  BY DEF Init, Verified
<1>7. Kept
  BY DEF Init, Kept, Index
<1>8. Healthy
  BY DEF Init, Healthy
<1> QED BY <1>3, <1>4, <1>5, <1>6, <1>7, <1>8

\* The page after an operation that ended, failed or was cut off.
LEMMA FlashTyped ==
  ASSUME TypeOK, Operation, OperationEnds \/ OperationFails \/ PowerLoss
  PROVE  flash' \in [Words -> Cells]
<1>1. CASE OperationEnds
  <2>1. \A w \in DOMAIN target : Outcome(w) \in Cells
    BY <1>1, OutcomeTyped DEF OperationEnds
  <2>2. \A w \in Words : flash[w] \in Cells
    BY DEF TypeOK
  <2>3. flash' = [w \in Words |-> IF w \in DOMAIN target THEN Outcome(w) ELSE flash[w]]
    BY <1>1 DEF OperationEnds
  <2> QED BY <2>1, <2>2, <2>3
<1>2. CASE OperationFails
  BY <1>2, CellsKnown DEF OperationFails, TypeOK
<1>3. CASE PowerLoss
  <2>1. PICK f \in [Words -> UNION {Torn(w) : w \in Words}] :
          (\A w \in Words : f[w] \in Torn(w)) /\ flash' = f
    BY <1>3 DEF PowerLoss
  <2>2. \A w \in Words : f[w] \in Cells
    BY <2>1, TornTyped
  <2> QED BY <2>1, <2>2
<1> QED BY <1>1, <1>2, <1>3

\* The type invariant, kept by every step.
LEMMA TypeStep == TypeOK /\ Place /\ Operation /\ [Next]_vars => TypeOK'
<1> SUFFICES ASSUME TypeOK, Place, Operation, [Next]_vars
             PROVE  TypeOK'
  OBVIOUS
<1>1. CASE CalibrateBegin
  BY <1>1, CellsKnown DEF CalibrateBegin, stateVars, flashVars, TypeOK
<1>2. CASE Save
  <2>1. Result(boots, next) \in Cells /\ next \in Index
    BY <1>2, CellsKnown DEF Save, TypeOK
  <2> QED BY <1>2, <2>1 DEF Save, flashVars, TypeOK
<1>3. CASE CalibrateReturn
  BY <1>3 DEF CalibrateReturn, stateVars, flashVars, TypeOK
<1>4. CASE Start
  BY <1>4 DEF Start, callVars, flashVars, TypeOK
<1>5. CASE Erase
  <2>1. CASE flashAddress < END
    <3>1. flashAddress = START
      BY <1>5, <2>1, Page DEF Erase, Place
    <3>2. target' = [w \in Words |-> Erased] /\ op' = "erase" /\ UNCHANGED flash
      BY <1>5, <2>1, <3>1 DEF Erase, ErasePage, Words
    <3>3. DOMAIN target' \subseteq Words /\ \A w \in DOMAIN target' : target'[w] \in Cells
      BY <3>2, CellsKnown
    <3>4. flashAddress' \in Nat /\ UNCHANGED <<flashStates, callVars, buffer, error, boots, faults>>
      BY <1>5, <2>1 DEF Erase, TypeOK
    <3> QED BY <3>2, <3>3, <3>4 DEF callVars, TypeOK
  <2>2. CASE ~(flashAddress < END)
    BY <1>5, <2>2 DEF Erase, callVars, flashVars, TypeOK
  <2> QED BY <2>1, <2>2
<1>6. CASE Write
  <2>1. CASE flashAddress < END
    <3> USE <1>6, <2>1
    <3>1. /\ op' = "program" /\ UNCHANGED <<flashStates, flash, callVars, error, boots, faults>>
          /\ flashAddress \in Area /\ flashAddress' \in flashAddress + 1 .. END
          /\ buffer' = flashAddress' - START /\ DOMAIN target' \subseteq Words
      BY WriteARow
    <3>2. \A w \in DOMAIN target' :
              target'[w] = IF w \in Area THEN string[w - START] ELSE flash[w]
      BY WriteARow
    <3>3. \A w \in Area : w - START \in Index
      BY DEF Area, Index, END
    <3>4. \A w \in DOMAIN target' : target'[w] \in Cells
      BY <3>1, <3>2, <3>3 DEF TypeOK
    <3>5. flashAddress' \in Nat /\ buffer' \in 0 .. NUM_FILTERS + 1
      <4>1. flashAddress \in Nat /\ START <= flashAddress
        BY <3>1 DEF Area, TypeOK
      <4>2. flashAddress' \in Nat /\ START <= flashAddress' /\ flashAddress' <= END
        BY <3>1, <4>1, Page
      <4>3. flashAddress' - START \in 0 .. NUM_FILTERS + 1
        BY <4>2, Offset
      <4>4. buffer' = flashAddress' - START
        BY <3>1
      <4>5. buffer' \in 0 .. NUM_FILTERS + 1
        BY ONLY <4>3, <4>4
      <4> QED BY <4>2, <4>5
    <3> QED BY <3>1, <3>4, <3>5 DEF callVars, TypeOK
  <2>2. CASE ~(flashAddress < END)
    BY <1>6, <2>2 DEF Write, callVars, flashVars, TypeOK
  <2> QED BY <2>1, <2>2
<1>7. CASE Verify
  BY <1>7 DEF Verify, callVars, flashVars, TypeOK
<1>8. CASE Return
  BY <1>8 DEF Return, Place, Index, flashVars, TypeOK
<1>9. CASE OperationEnds
  <2>1. flash' \in [Words -> Cells]
    BY <1>9, FlashTyped
  <2> QED BY <1>9, <2>1 DEF OperationEnds, Nothing, callVars, stateVars, TypeOK
<1>10. CASE OperationFails
  <2>1. flash' \in [Words -> Cells]
    BY <1>10, FlashTyped
  <2> QED BY <1>10, <2>1 DEF OperationFails, Nothing, callVars, stateVars, TypeOK
<1>11. CASE PowerLoss
  <2>1. flash' \in [Words -> Cells]
    BY <1>11, FlashTyped
  <2>2. ram' \in [Index -> Cells] /\ string' \in [Index -> Cells]
    <3>1. \A i \in Index : flash'[START + i] \in Cells
      BY <2>1, Page
    <3> QED BY <1>11, <3>1, CellsKnown DEF PowerLoss
  <2>3. /\ calibrating' = FALSE /\ next' = 0 /\ flashStates' = "none" /\ flashAddress' = 0
        /\ buffer' = 0 /\ error' = "NO_ERROR" /\ op' = "none" /\ boots' = boots + 1
        /\ boots < MaxBoots /\ faults' = faults /\ DOMAIN target' = {}
    BY <1>11 DEF PowerLoss, Nothing
  <2>4. /\ next' \in 0 .. NUM_FILTERS + 1 /\ buffer' \in 0 .. NUM_FILTERS + 1
        /\ boots' \in 0 .. MaxBoots /\ faults' \in 0 .. MaxFaults
    BY <2>3 DEF TypeOK
  <2>5. DOMAIN target' \subseteq Words /\ \A w \in DOMAIN target' : target'[w] \in Cells'
    BY <2>3
  <2> QED BY <2>1, <2>2, <2>3, <2>4, <2>5 DEF TypeOK
<1>12. CASE UNCHANGED vars
  BY <1>12 DEF vars, callVars, stateVars, flashVars, TypeOK
<1> QED BY <1>1, <1>2, <1>3, <1>4, <1>5, <1>6, <1>7, <1>8, <1>9, <1>10, <1>11, <1>12
        DEF Next, Processor, Rest

\* The address and the buffer index advance together, one page or one row at a time.
LEMMA PlaceStep == TypeOK /\ Place /\ [Next]_vars => Place'
<1> SUFFICES ASSUME TypeOK, Place, [Next]_vars
             PROVE  Place'
  OBVIOUS
<1>1. CASE CalibrateBegin
  BY <1>1 DEF CalibrateBegin, stateVars, flashVars, Place
<1>2. CASE Save
  BY <1>2 DEF Save, flashVars, Place
<1>3. CASE CalibrateReturn
  BY <1>3 DEF CalibrateReturn, stateVars, flashVars, TypeOK, Place, Index
<1>4. CASE Start
  BY <1>4 DEF Start, callVars, flashVars, Place
<1>5. CASE Erase
  <2>1. CASE flashAddress < END
    <3>1. flashAddress = START
      BY <1>5, <2>1, Page DEF Erase, Place
    <3>2. flashAddress' = START + PAGE_SIZE /\ UNCHANGED <<flashStates, callVars, buffer, boots>>
      BY <1>5, <2>1, <3>1 DEF Erase
    <3> QED BY <1>5, <3>2 DEF Erase, callVars, Place
  <2>2. CASE ~(flashAddress < END)
    <3>1. flashStates = "ERASE" /\ flashStates' = "WRITE" /\ flashAddress' = START
          /\ UNCHANGED <<callVars, buffer, boots>>
      BY <1>5, <2>2 DEF Erase
    <3>2. START \in START .. END /\ buffer = START - START /\ Aligned(START)
      BY <3>1, Page DEF Place, Aligned
    <3> QED BY <3>1, <3>2 DEF callVars, Place
  <2> QED BY <2>1, <2>2
<1>6. CASE Write
  <2>1. CASE flashAddress < END
    <3>1. /\ UNCHANGED <<flashStates, callVars, boots>> /\ flashStates = "WRITE"
          /\ flashAddress \in Area /\ flashAddress' \in flashAddress + 1 .. END
          /\ Aligned(flashAddress') /\ buffer' = flashAddress' - START
      BY <1>6, <2>1, WriteARow
    <3>2. flashAddress' \in START .. END
      BY <3>1, Page DEF Area
    <3> QED BY <3>1, <3>2 DEF callVars, Place
  <2>2. CASE ~(flashAddress < END)
    BY <1>6, <2>2 DEF Write, callVars, Place
  <2> QED BY <2>1, <2>2
<1>7. CASE Verify
  BY <1>7 DEF Verify, callVars, Place
<1>8. CASE Return
  BY <1>8 DEF Return, Place
<1>9. CASE OperationEnds
  BY <1>9 DEF OperationEnds, callVars, stateVars, Place
<1>10. CASE OperationFails
  BY <1>10 DEF OperationFails, callVars, stateVars, Place
<1>11. CASE PowerLoss
  BY <1>11 DEF PowerLoss, TypeOK, Place
<1>12. CASE UNCHANGED vars
  BY <1>12 DEF vars, callVars, stateVars, Place
<1> QED BY <1>1, <1>2, <1>3, <1>4, <1>5, <1>6, <1>7, <1>8, <1>9, <1>10, <1>11, <1>12
        DEF Next, Processor, Rest

\* Only the two states that poll IsBusy start an operation, and each waits for it.
LEMMA OperationStep == TypeOK /\ Place /\ Operation /\ [Next]_vars => Operation'
<1> SUFFICES ASSUME TypeOK, Place, Operation, [Next]_vars
             PROVE  Operation'
  OBVIOUS
<1>1. CASE CalibrateBegin
  BY <1>1 DEF CalibrateBegin, stateVars, flashVars, Operation
<1>2. CASE Save
  <2>1. op = "none"
    BY <1>2 DEF Save, Operation, TypeOK
  <2> QED BY <1>2, <2>1 DEF Save, flashVars, Operation
<1>3. CASE CalibrateReturn
  BY <1>3 DEF CalibrateReturn, stateVars, flashVars, Operation
<1>4. CASE Start
  <2>1. op = "none"
    BY <1>4 DEF Start, Operation, TypeOK
  <2> QED BY <1>4, <2>1 DEF Start, flashVars, Operation
<1>5. CASE Erase
  <2>1. CASE flashAddress < END
    <3>1. flashAddress = START
      BY <1>5, <2>1, Page DEF Erase, Place
    <3>2. DOMAIN target' = Words /\ op' = "erase" /\ flashStates' = "ERASE"
      BY <1>5, <2>1, <3>1 DEF Erase, ErasePage, Words
    <3>3. flashAddress' = START + PAGE_SIZE
      BY <1>5, <2>1, <3>1 DEF Erase
    <3> QED BY <3>2, <3>3 DEF Operation
  <2>2. CASE ~(flashAddress < END)
    BY <1>5, <2>2 DEF Erase, flashVars, Busy, Operation
  <2> QED BY <2>1, <2>2
<1>6. CASE Write
  <2>1. CASE flashAddress < END
    <3>1. /\ op' = "program" /\ flashStates' = "WRITE" /\ UNCHANGED <<flash, callVars>>
      BY <1>6, <2>1, WriteARow
    <3>2. \A w \in DOMAIN target' :
             target'[w] = IF w \in Area THEN string[w - START] ELSE flash[w]
      BY <1>6, <2>1, WriteARow
    <3>3. \A i \in Index : (START + i) - START = i
      BY DEF Index
    <3>4. \A i \in Index : START + i \in DOMAIN target'
             => target'[START + i] \in {string'[i], flash'[START + i]}
      BY <3>1, <3>2, <3>3 DEF callVars
    <3> QED BY <3>1, <3>4 DEF Operation
  <2>2. CASE ~(flashAddress < END)
    BY <1>6, <2>2 DEF Write, flashVars, Busy, Operation
  <2> QED BY <2>1, <2>2
<1>7. CASE Verify
  BY <1>7 DEF Verify, flashVars, Busy, Operation
<1>8. CASE Return
  <2>1. op = "none"
    BY <1>8 DEF Return, Operation, TypeOK
  <2> QED BY <1>8, <2>1 DEF Return, flashVars, Operation
<1>9. CASE OperationEnds
  BY <1>9 DEF OperationEnds, Nothing, Operation
<1>10. CASE OperationFails
  BY <1>10 DEF OperationFails, Nothing, Operation
<1>11. CASE PowerLoss
  BY <1>11 DEF PowerLoss, Nothing, Operation
<1>12. CASE UNCHANGED vars
  BY <1>12 DEF vars, callVars, stateVars, flashVars, Operation
<1> QED BY <1>1, <1>2, <1>3, <1>4, <1>5, <1>6, <1>7, <1>8, <1>9, <1>10, <1>11, <1>12
        DEF Next, Processor, Rest

\* A save ends only after a comparison, and until the next one begins flash rests.
LEMMA VerifiedStep ==
  TypeOK /\ Place /\ Operation /\ Verified /\ [Next]_vars => Verified'
<1> SUFFICES ASSUME TypeOK, Place, Operation, Verified, [Next]_vars
             PROVE  Verified'
  OBVIOUS
<1>1. CASE CalibrateBegin
  BY <1>1 DEF CalibrateBegin, stateVars, flashVars, Verified
<1>2. CASE Save
  BY <1>2 DEF Save, flashVars, Verified
<1>3. CASE CalibrateReturn
  BY <1>3 DEF CalibrateReturn, stateVars, flashVars, Verified
<1>4. CASE Start
  BY <1>4 DEF Start, callVars, flashVars, Verified
<1>5. CASE Erase
  BY <1>5 DEF Erase, callVars, Verified
<1>6. CASE Write
  BY <1>6 DEF Write, callVars, Verified
<1>7. CASE Verify
  <2>1. UNCHANGED <<string, flash>> /\ flashStates' \in {"DONE", "ERROR"}
    BY <1>7 DEF Verify, callVars, flashVars
  <2>2. flashStates' = "DONE" => \A i \in Index : flash[START + i] = string[i]
    BY <1>7 DEF Verify
  <2>3. flashStates' = "ERROR" => ~ \A i \in Index : flash[START + i] = string[i]
    BY <1>7 DEF Verify
  <2> QED BY <2>1, <2>2, <2>3 DEF Verified
<1>8. CASE Return
  <2>1. UNCHANGED <<string, flash>> /\ flashStates' = "none"
    BY <1>8 DEF Return, flashVars
  <2>2. error' = "NO_ERROR" => flashStates = "DONE"
    BY <1>8 DEF Return
  <2> QED BY <2>1, <2>2 DEF Verified
<1>9. CASE OperationEnds
  BY <1>9 DEF OperationEnds, Busy, Operation, callVars, stateVars, Verified, TypeOK
<1>10. CASE OperationFails
  BY <1>10 DEF OperationFails, Busy, Operation, callVars, stateVars, Verified, TypeOK
<1>11. CASE PowerLoss
  BY <1>11 DEF PowerLoss, Verified
<1>12. CASE UNCHANGED vars
  BY <1>12 DEF vars, callVars, stateVars, flashVars, Verified
<1> QED BY <1>1, <1>2, <1>3, <1>4, <1>5, <1>6, <1>7, <1>8, <1>9, <1>10, <1>11, <1>12
        DEF Next, Processor, Rest

\* Each word saved is the word in RAM, and APP_Initialize makes RAM what flash is.
LEMMA KeptStep ==
  TypeOK /\ Place /\ Operation /\ Kept /\ [Next]_vars => Kept'
<1> SUFFICES ASSUME TypeOK, Place, Operation, Kept, [Next]_vars
             PROVE  Kept'
  OBVIOUS
<1>0. next \in Nat /\ \A i \in Index : i \in Nat
  BY DEF TypeOK, Index
<1>1. CASE CalibrateBegin
  <2>1. next = 0 /\ next' = 0 /\ calibrating' = TRUE /\ flashStates' = flashStates
        /\ UNCHANGED <<string, boots>>
    BY <1>1 DEF CalibrateBegin, stateVars
  <2>2. flashStates = "none"
    BY <1>1 DEF CalibrateBegin, Place
  <2> QED BY <1>0, <2>1, <2>2 DEF Kept
<1>2. CASE Save
  <2>1. /\ next \in Index /\ next' = next /\ boots' = boots /\ calibrating' = TRUE
        /\ flashStates = "none"
        /\ ram' = [ram EXCEPT ![next] = Result(boots, next)]
        /\ string' = [string EXCEPT ![next] = Result(boots, next)]
    BY <1>2 DEF Save, TypeOK
  <2>2. string \in [Index -> Cells] /\ ram \in [Index -> Cells]
    BY DEF TypeOK
  <2>3. \A i \in Index : i < next \/ i = next => string'[i] = ram'[i]
    BY <1>0, <2>1, <2>2 DEF Kept
  <2>4. \A i \in Index : string'[i] \in {Zero, Result(boots, i)}
    BY <2>1, <2>2 DEF Kept
  <2> QED BY <2>1, <2>3, <2>4 DEF Kept
<1>3. CASE CalibrateReturn
  BY <1>0, <1>3 DEF CalibrateReturn, stateVars, flashVars, Kept, Index
<1>4. CASE Start
  BY <1>4 DEF Start, callVars, flashVars, Kept
<1>5. CASE Erase
  BY <1>5 DEF Erase, callVars, Kept, Place
<1>6. CASE Write
  BY <1>6 DEF Write, callVars, Kept, Place
<1>7. CASE Verify
  BY <1>7 DEF Verify, callVars, flashVars, Kept
<1>8. CASE Return
  <2>1. /\ next' = next + 1 /\ flashStates' = "none" /\ flashStates # "none"
        /\ UNCHANGED <<calibrating, string, ram, boots>>
    BY <1>8 DEF Return
  <2>2. \A i \in Index : i < next + 1 => i < next \/ i = next
    BY <1>0
  <2> QED BY <1>0, <2>1, <2>2 DEF Kept
<1>9. CASE OperationEnds
  <2>1. calibrating
    BY <1>9 DEF OperationEnds, Busy, Operation, Place, TypeOK
  <2> QED BY <1>9, <2>1 DEF OperationEnds, callVars, stateVars, Kept
<1>10. CASE OperationFails
  <2>1. calibrating
    BY <1>10 DEF OperationFails, Busy, Operation, Place, TypeOK
  <2> QED BY <1>10, <2>1 DEF OperationFails, callVars, stateVars, Kept
<1>11. CASE PowerLoss
  <2>1. /\ ram' = [i \in Index |-> flash'[START + i]] /\ string' = [i \in Index |-> Zero]
        /\ next' = 0 /\ flashStates' = "none"
    BY <1>11 DEF PowerLoss
  <2> QED BY <1>0, <2>1 DEF Kept
<1>12. CASE UNCHANGED vars
  BY <1>12 DEF vars, callVars, stateVars, flashVars, Kept
<1> QED BY <1>1, <1>2, <1>3, <1>4, <1>5, <1>6, <1>7, <1>8, <1>9, <1>10, <1>11, <1>12
        DEF Next, Processor, Rest

\* A flash that obeys: erased as a whole, then filled from the front, row by row.
LEMMA HealthyStep ==
  TypeOK /\ Place /\ Operation /\ Healthy /\ [Next]_vars => Healthy'
<1> SUFFICES ASSUME TypeOK, Place, Operation, Healthy, [Next]_vars, faults' = 0
             PROVE  /\ error' = "NO_ERROR" /\ flashStates' # "ERROR"
                    /\ flashStates' = "ERASE" /\ op' = "none" /\ flashAddress' # START
                         => \A i \in Index : flash'[START + i] = Erased
                    /\ flashStates' = "WRITE" => \A i \in Index : Written(i)'
                    /\ flashStates' = "VERIFY"
                         => \A i \in Index : flash'[START + i] = string'[i]
  BY DEF Healthy
<1>0. \A i \in Index : START + i \in Area /\ START + i \in Words
                       /\ START + i \in Nat /\ (START + i) - START = i
  BY Page DEF Index
<1>1. CASE CalibrateBegin
  BY <1>1 DEF CalibrateBegin, stateVars, flashVars, Healthy, Written
<1>2. CASE Save
  BY <1>2 DEF Save, flashVars, Healthy
<1>3. CASE CalibrateReturn
  BY <1>3 DEF CalibrateReturn, stateVars, flashVars, Healthy, Written
<1>4. CASE Start
  BY <1>4 DEF Start, callVars, flashVars, Healthy
<1>5. CASE Erase
  <2>0. faults = 0 /\ error' = error /\ string' = string /\ ~Busy /\ flashStates = "ERASE"
    BY <1>5 DEF Erase, callVars
  <2>1. CASE flashAddress < END
    <3>1. op' = "erase" /\ flashStates' = "ERASE"
      BY <1>5, <2>1 DEF Erase, ErasePage
    <3> QED BY <2>0, <3>1 DEF Healthy
  <2>2. CASE ~(flashAddress < END)
    <3>1. flashStates' = "WRITE" /\ flashAddress' = START /\ UNCHANGED flashVars
      BY <1>5, <2>2 DEF Erase
    <3>2. op = "none" /\ DOMAIN target = {} /\ flashAddress # START
      BY <2>0, <2>2, Page DEF Busy, Operation
    <3>3. \A i \in Index : flash[START + i] = Erased
      BY <2>0, <3>2 DEF Healthy
    <3>4. \A i \in Index : Written(i)'
      <4>1. \A i \in Index : START + i >= START
        BY DEF Index
      <4>2. flash' = flash /\ DOMAIN target' = {}
        BY <3>1, <3>2 DEF flashVars
      <4> QED BY <3>1, <3>3, <4>1, <4>2 DEF Written
    <3> QED BY <2>0, <3>1, <3>4 DEF Healthy
  <2> QED BY <2>1, <2>2
<1>6. CASE Write
  <2>0. faults = 0 /\ error' = error /\ string' = string /\ ~Busy /\ flashStates = "WRITE"
    BY <1>6 DEF Write, callVars
  <2>1. op = "none" /\ DOMAIN target = {}
    BY <2>0 DEF Busy, Operation
  <2>2. \A i \in Index : flash[START + i] = IF START + i >= flashAddress THEN Erased ELSE string[i]
    BY <2>0, <2>1 DEF Healthy, Written
  <2>3. CASE flashAddress < END
    <3>1. /\ flashStates' = "WRITE" /\ UNCHANGED flash
          /\ flashAddress \in Area /\ flashAddress' \in flashAddress + 1 .. END
      BY <1>6, <2>3, WriteARow
    <3>2. \A w \in DOMAIN target' :
             target'[w] = IF w \in Area THEN string[w - START] ELSE flash[w]
      BY <1>6, <2>3, WriteARow
    <3>3. \A w \in Area : w \in DOMAIN target' <=> flashAddress <= w /\ w < flashAddress'
      BY <1>6, <2>3, WriteARow
    <3>4. flashAddress \in Nat /\ flashAddress' \in Nat /\ flashAddress < flashAddress'
      <4>1. flashAddress \in Nat
        BY DEF TypeOK
      <4> QED BY <3>1, <4>1, Page
    <3>5. ASSUME NEW i \in Index
          PROVE  Written(i)'
      <4> DEFINE w == START + i
      <4>1. w \in Area /\ w \in Nat /\ w - START = i
        BY <1>0
      <4>2. w \in DOMAIN target' <=> flashAddress <= w /\ w < flashAddress'
        BY <3>3, <4>1
      <4>3. w \in DOMAIN target' => target'[w] = string[i]
        BY <3>2, <4>1
      <4>4. flash'[w] = IF w >= flashAddress THEN Erased ELSE string[i]
        BY <2>2, <3>1
      <4> HIDE DEF w
      <4>5. CASE w >= flashAddress'
        BY <3>4, <4>1, <4>2, <4>4, <4>5 DEF Written, w
      <4>6. CASE w < flashAddress' /\ w >= flashAddress
        BY <2>0, <3>4, <4>1, <4>2, <4>3, <4>4, <4>6 DEF Written, w
      <4>7. CASE w < flashAddress
        BY <2>0, <3>4, <4>1, <4>2, <4>4, <4>7 DEF Written, w
      <4> QED BY <3>4, <4>1, <4>5, <4>6, <4>7
    <3> QED BY <2>0, <3>1, <3>5 DEF Healthy
  <2>4. CASE ~(flashAddress < END)
    <3>1. flashStates' = "VERIFY" /\ UNCHANGED flash
      BY <1>6, <2>4 DEF Write, flashVars
    <3>2. flashAddress \in Nat
      BY DEF TypeOK
    <3>3. \A i \in Index : START + i < flashAddress
      <4>1. \A w \in Area : w < END /\ w \in Int
        BY Page DEF Area
      <4> QED BY <1>0, <2>4, <3>2, <4>1, Page
    <3>4. \A i \in Index : flash[START + i] = string[i]
      BY <1>0, <2>2, <3>2, <3>3
    <3> QED BY <2>0, <3>1, <3>4 DEF Healthy
  <2> QED BY <2>3, <2>4
<1>7. CASE Verify
  BY <1>7 DEF Verify, callVars, flashVars, Healthy
<1>8. CASE Return
  BY <1>8 DEF Return, flashVars, Healthy
<1>9. CASE OperationEnds
  <2>0. /\ faults = 0 /\ op' = "none" /\ DOMAIN target' = {} /\ Busy
        /\ UNCHANGED <<flashStates, flashAddress, error, string>>
    BY <1>9 DEF OperationEnds, Nothing, callVars, stateVars
  <2>1. \A w \in Words : flash'[w] = IF w \in DOMAIN target THEN Outcome(w) ELSE flash[w]
    BY <1>9 DEF OperationEnds
  <2>2. CASE op = "erase"
    <3>1. flashStates = "ERASE" /\ \A w \in Words : flash'[w] = Outcome(w)
      BY <2>1, <2>2 DEF Operation
    <3>2. \A i \in Index : flash'[START + i] = Erased
      BY <1>0, <2>2, <3>1 DEF Outcome
    <3> QED BY <2>0, <3>1, <3>2 DEF Healthy
  <2>3. CASE op = "program"
    <3>1. flashStates = "WRITE"
      BY <2>3 DEF Operation
    <3>2. ASSUME NEW i \in Index
          PROVE  Written(i)'
      <4> DEFINE w == START + i
      <4>1. Written(i) /\ w \in Words
        BY <1>0, <2>0, <3>1 DEF Healthy
      <4>2. CASE w \in DOMAIN target /\ ~(w >= flashAddress)
        <5>1. flash[w] = Erased /\ target[w] = string[i]
          BY <4>1, <4>2 DEF Written
        <5>2. Outcome(w) = Programmed(flash[w], target[w])
          BY <2>3 DEF Outcome
        <5>3. flash'[w] = string[i]
          BY <2>1, <4>1, <4>2, <5>1, <5>2 DEF Programmed
        <5> QED BY <2>0, <4>2, <5>3 DEF Written
      <4>3. CASE w \notin DOMAIN target
        BY <2>0, <2>1, <4>1, <4>3 DEF Written
      <4>4. CASE w \in DOMAIN target /\ w >= flashAddress
        BY <4>1, <4>4 DEF Written
      <4> QED BY <4>2, <4>3, <4>4
    <3> QED BY <2>0, <3>1, <3>2 DEF Healthy
  <2> QED BY <2>0, <2>2, <2>3 DEF Busy, TypeOK
<1>10. CASE OperationFails
  BY <1>10 DEF OperationFails, TypeOK
<1>11. CASE PowerLoss
  BY <1>11 DEF PowerLoss
<1>12. CASE UNCHANGED vars
  BY <1>12 DEF vars, callVars, stateVars, flashVars, Healthy, Written
<1> QED BY <1>1, <1>2, <1>3, <1>4, <1>5, <1>6, <1>7, <1>8, <1>9, <1>10, <1>11, <1>12
        DEF Next, Processor, Rest

-----------------------------------------------------------------------------
(* The inductive invariant and what follows from it.                       *)

IInv == TypeOK /\ Place /\ Operation /\ Verified /\ Kept /\ Healthy

\* The invariant holds in every state of every behaviour.
LEMMA Invariance == Spec => []IInv
<1>1. Init => IInv
  BY InitIInv DEF IInv
<1>2. IInv /\ [Next]_vars => IInv'
  BY TypeStep, PlaceStep, OperationStep, VerifiedStep, KeptStep, HealthyStep DEF IInv
<1> QED BY <1>1, <1>2, PTL DEF Spec

\* Every variable of saveToFlash() keeps its type: the string is never left, whatever
\* the rows, and no save is made of a value that does not exist.
THEOREM TypeCorrect == Spec => []TypeOK
<1>1. IInv => TypeOK
  BY DEF IInv
<1> QED BY <1>1, Invariance, PTL

\* Without a failing operation saveToFlash() records no error, for every size of row and
\* page and every place of the area inside one page (FlashAssumption): what the loop of
\* helper_fcns.c:311-322 does with an area in several pages is not covered.
THEOREM HealthyNeverFails == Spec => []HealthyFlashNeverFails
<1>1. IInv => HealthyFlashNeverFails
  BY DEF IInv, Healthy, HealthyFlashNeverFails
<1> QED BY <1>1, Invariance, PTL

\* A calibration that ended without an error is the one the next boot loads.
THEOREM CalibrationKept == Spec => RestartKeepsCalibration
<1>1. IInv /\ [Next]_vars => [boots' # boots /\ ~calibrating /\ error = "NO_ERROR" => ram' = ram]_vars
  <2> SUFFICES ASSUME IInv, [Next]_vars, boots' # boots, ~calibrating, error = "NO_ERROR"
               PROVE  ram' = ram
    OBVIOUS
  <2>1. PowerLoss
    BY DEF Next, Processor, Rest, CalibrateBegin, Save, CalibrateReturn, Start, Erase, Write,
           Verify, Return, OperationEnds, OperationFails, vars
  <2>2. flashStates = "none" /\ next \in {0, NUM_FILTERS + 1} /\ ~Busy
    BY DEF IInv, Place, Operation, TypeOK, Busy
  <2>3. ram \in [Index -> Cells]
    BY DEF IInv, TypeOK
  <2>4. \A i \in Index : ram[i] = flash[START + i]
    <3>1. CASE next = 0
      BY <3>1 DEF IInv, Kept
    <3>2. CASE next = NUM_FILTERS + 1
      <4>1. \A i \in Index : string[i] = ram[i]
        BY <3>2 DEF IInv, Kept, Index
      <4>2. \A i \in Index : flash[START + i] = string[i]
        BY <2>2, <3>2 DEF IInv, Verified
      <4> QED BY <4>1, <4>2
    <3> QED BY <2>2, <3>1, <3>2
  <2>5. \A i \in Index : flash'[START + i] \in Torn(START + i)
    BY <2>1, Page DEF PowerLoss
  <2>6. \A i \in Index : flash'[START + i] = flash[START + i]
    BY <2>2, <2>5, TornArea DEF IInv
  <2>7. ram' = [i \in Index |-> flash'[START + i]]
    BY <2>1 DEF PowerLoss
  <2> QED BY <2>3, <2>4, <2>6, <2>7
<1> QED BY <1>1, Invariance, PTL DEF Spec, RestartKeepsCalibration

-----------------------------------------------------------------------------
(* Results of two calibrations never meet.                                 *)

\* While rows are written the area holds this calibration's words or none.
LEMMA WrittenIsString ==
  ASSUME IInv, faults = 0, flashStates = "WRITE", NEW i \in Index
  PROVE  flash[START + i] \in {Erased, string[i]}
BY DEF IInv, Healthy, Written

\* Words with results of one boot only satisfy the property.
LEMMA OneBootOnly ==
  ASSUME NEW page, NEW b \in Int,
         \A i \in Index : page[START + i] \in {Erased, Garbage, Zero, Result(b, i)}
  PROVE  \A c, d \in 1 .. MaxBoots, i, j \in Index :
           page[START + i] = Result(c, i) /\ page[START + j] = Result(d, j) => c = d
<1>1. \A i \in Index : i \in Int
  BY DEF Index
<1>2. \A c \in 1 .. MaxBoots : c \in Int
  OBVIOUS
<1>3. \A c \in 1 .. MaxBoots, i \in Index : page[START + i] = Result(c, i) => c = b
  BY <1>1, <1>2, CellsDiffer
<1> QED BY <1>3

\* Whatever ends or cuts off an operation leaves results of one boot.
LEMMA OneCalibrationStep ==
  IInv /\ IInv' /\ OneCalibrationAtATime /\ [Next]_vars => OneCalibrationAtATime'
<1> SUFFICES ASSUME IInv, IInv', OneCalibrationAtATime, [Next]_vars, faults' = 0
             PROVE  OneCalibrationAtATime'
  BY DEF OneCalibrationAtATime
<1>0. /\ boots \in Int /\ \A i \in Index : string[i] \in {Zero, Result(boots, i)}
      /\ faults = 0 /\ \A i \in Index : START + i \in Words
  <2>1. faults \in Nat /\ (faults' = faults \/ faults' = faults + 1)
    BY DEF IInv, TypeOK, Next, Processor, Rest, CalibrateBegin, Save, CalibrateReturn, Start,
           Erase, Write, Verify, Return, OperationEnds, OperationFails, PowerLoss, vars
  <2> QED BY <2>1, Page DEF IInv, TypeOK, Kept
<1>1. CASE UNCHANGED flash
  BY <1>0, <1>1 DEF OneCalibrationAtATime
<1>2. CASE OperationEnds
  <2>1. flashStates' = flashStates /\ Busy /\ string' = string
    BY <1>2 DEF OperationEnds, callVars, stateVars
  <2>2. CASE op = "program"
    <3>1. flashStates' = "WRITE"
      BY <2>1, <2>2 DEF IInv, Operation
    <3>2. \A i \in Index : flash'[START + i] \in {Erased, string'[i]}
      BY <3>1 DEF IInv, Healthy, Written
    <3>3. \A i \in Index : flash'[START + i] \in {Erased, Garbage, Zero, Result(boots, i)}
      BY <1>0, <2>1, <3>2
    <3> QED BY <1>0, <3>3, OneBootOnly DEF OneCalibrationAtATime
  <2>3. CASE op = "erase"
    <3>1. \A i \in Index : flash'[START + i] = Erased
      BY <1>0, <1>2, <2>3 DEF OperationEnds, IInv, Operation, Outcome
    <3> QED BY <1>0, <3>1, OneBootOnly DEF OneCalibrationAtATime
  <2> QED BY <2>1, <2>2, <2>3 DEF Busy, IInv, TypeOK
<1>3. CASE OperationFails
  BY <1>0, <1>3 DEF OperationFails
<1>4. CASE PowerLoss
  <2>1. \A i \in Index : flash'[START + i] \in Torn(START + i)
    BY <1>0, <1>4 DEF PowerLoss
  <2>2. CASE flashStates = "WRITE"
    <3>1. \A i \in Index : flash[START + i] \in {Erased, string[i]}
      BY <1>0, <2>2, WrittenIsString
    <3>2. \A i \in Index : flash'[START + i] \in {flash[START + i], string[i], Erased, Garbage}
      BY <2>1, TornArea DEF IInv
    <3>3. \A i \in Index : flash'[START + i] \in {Erased, Garbage, Zero, Result(boots, i)}
      BY <1>0, <3>1, <3>2
    <3> QED BY <1>0, <3>3, OneBootOnly DEF OneCalibrationAtATime
  <2>3. CASE flashStates # "WRITE"
    <3>1. op # "program"
      BY <2>3 DEF IInv, Operation
    <3>2. \A i \in Index : flash'[START + i] \in {flash[START + i], Erased, Garbage}
      <4>1. \A i \in Index : Torn(START + i) \subseteq {flash[START + i], Erased, Garbage}
        <5>1. CASE op = "none"
          BY <5>1 DEF IInv, Operation, Torn
        <5>2. CASE op = "erase"
          BY <5>2 DEF Torn, Outcome
        <5> QED BY <3>1, <5>1, <5>2 DEF IInv, TypeOK
      <4> QED BY <2>1, <4>1
    <3>3. \A i \in Index : i \in Int
      BY DEF Index
    <3>4. \A c \in 1 .. MaxBoots, i \in Index :
            flash'[START + i] = Result(c, i) => flash[START + i] = Result(c, i)
      BY <3>2, <3>3, CellsDiffer
    <3> QED BY <1>0, <3>4 DEF OneCalibrationAtATime
  <2> QED BY <2>2, <2>3
<1>5. UNCHANGED flash \/ OperationEnds \/ OperationFails \/ PowerLoss
  BY DEF Next, Processor, Rest, CalibrateBegin, Save, CalibrateReturn, Start, Erase,
         ErasePage, Write, Verify, Return, vars, flashVars
<1> QED BY <1>1, <1>2, <1>3, <1>4, <1>5

\* A flash that obeys never holds results of two calibrations, wherever power was lost.
THEOREM CalibrationsApart == Spec => []OneCalibrationAtATime
<1>1. Init => OneCalibrationAtATime
  <2> SUFFICES ASSUME Init
               PROVE  OneCalibrationAtATime
    OBVIOUS
  <2>1. \A i \in Index : flash[START + i] \in {Erased, Zero, <<"reserved">>}
    BY Page DEF Init
  <2>2. \A i \in Index, c \in 1 .. MaxBoots : i \in Int /\ c \in Int
    BY DEF Index
  <2>3. \A i \in Index, c \in 1 .. MaxBoots : flash[START + i] # Result(c, i)
    BY <2>1, <2>2, CellsDiffer
  <2> QED BY <2>3 DEF OneCalibrationAtATime
<1>2. OneCalibrationAtATime /\ IInv /\ IInv' /\ [Next]_vars => OneCalibrationAtATime'
  BY OneCalibrationStep
<1> QED BY <1>1, <1>2, Invariance, PTL DEF Spec

-----------------------------------------------------------------------------
(* The refinement of CalibrationStore.                                     *)

\* The area as CalibrationStore sees it.
stored == [i \in Index |-> flash[START + i]]

\* An operation that ends, fails or is cut off changes words as the abstract save may.
LEMMA AreaChanged ==
  ASSUME IInv, IInv',
         \A i \in Index : flash'[START + i] \in {flash[START + i], string[i], Erased, Garbage}
  PROVE  Store!Changed
<1>1. \A i \in Index : stored'[i] = flash'[START + i] /\ stored[i] = flash[START + i]
  BY DEF stored
<1>2. stored' \in [Index -> Cells]
  <2>1. \A i \in Index : flash'[START + i] \in Cells
    BY Page DEF IInv, TypeOK
  <2> QED BY <2>1 DEF stored
<1> QED BY <1>1, <1>2 DEF Store!Changed, stored

\* Every step is a step of the store or leaves it alone.
LEMMA StoreStep == IInv /\ IInv' /\ [Next]_vars => [Store!Next]_(Store!vars)
<1> SUFFICES ASSUME IInv, IInv', [Next]_vars
             PROVE  Store!Next \/ UNCHANGED Store!vars
  OBVIOUS
<1>0. ASSUME UNCHANGED <<flash, string, error>>, (flashStates # "none") = (flashStates' # "none")
      PROVE  UNCHANGED Store!vars
  BY <1>0 DEF Store!vars
<1>1. CASE Save
  <2>1. /\ UNCHANGED <<flash, error>> /\ flashStates = "none" /\ flashStates' = "START"
        /\ next \in Index /\ string' = [string EXCEPT ![next] = Result(boots, next)]
    BY <1>1 DEF Save, flashVars
  <2>2. Result(boots, next) \in Cells
    BY <2>1, CellsKnown DEF IInv, TypeOK
  <2>3. Store!Save
    BY <2>1, <2>2 DEF Store!Save
  <2> QED BY <2>3 DEF Store!Next
<1>2. CASE Return
  <2>1. UNCHANGED <<flash, string>> /\ flashStates \in {"DONE", "ERROR"} /\ flashStates' = "none"
    BY <1>2 DEF Return, flashVars
  <2>2. error' = IF flashStates = "ERROR" THEN "ERROR_WRITING_TO_FLASH" ELSE error
    BY <1>2 DEF Return
  <2>3. stored = string <=> flashStates = "DONE"
    <3>1. string = [i \in Index |-> string[i]]
      BY DEF IInv, TypeOK
    <3>2. flashStates = "DONE" => stored = string
      BY <3>1 DEF stored, IInv, Verified
    <3>3. flashStates = "ERROR" => stored # string
      BY DEF stored, IInv, Verified
    <3> QED BY <2>1, <3>2, <3>3
  <2>4. (error' # "NO_ERROR") = (error # "NO_ERROR" \/ stored # string)
    BY <2>1, <2>2, <2>3
  <2>5. Store!Saved
    BY <2>1, <2>4 DEF Store!Saved, stored
  <2> QED BY <2>5 DEF Store!Next
<1>3. CASE OperationEnds \/ OperationFails
  <2>1. /\ Busy /\ UNCHANGED <<string, error, flashStates>>
    BY <1>3 DEF OperationEnds, OperationFails, callVars, stateVars
  <2>2. flashStates # "none"
    BY <2>1 DEF Busy, IInv, Operation, TypeOK
  <2>3. \A i \in Index : flash'[START + i] \in {flash[START + i], string[i], Erased, Garbage}
    <3>1. CASE OperationEnds
      <4>1. \A i \in Index : flash'[START + i] \in Torn(START + i)
        BY <3>1, Page DEF OperationEnds, Torn
      <4> QED BY <4>1, TornArea DEF IInv
    <3>2. CASE OperationFails
      BY <3>2, Page DEF OperationFails, IInv, TypeOK
    <3> QED BY <1>3, <3>1, <3>2
  <2>4. Store!Changed
    BY <2>3, AreaChanged
  <2>5. Store!Change
    BY <2>1, <2>2, <2>4 DEF Store!Change
  <2> QED BY <2>5 DEF Store!Next
<1>4. CASE PowerLoss
  <2>1. /\ string' = [i \in Index |-> Zero] /\ flashStates' = "none" /\ error' = "NO_ERROR"
        /\ \A i \in Index : flash'[START + i] \in Torn(START + i)
    BY <1>4, Page DEF PowerLoss
  <2>2. \A i \in Index : flash'[START + i] \in {flash[START + i], string[i], Erased, Garbage}
    BY <2>1, TornArea DEF IInv
  <2>3. flashStates = "none" => stored' = stored
    <3>1. flashStates = "none" => ~Busy
      BY DEF IInv, Operation, TypeOK, Busy
    <3>2. flashStates = "none" => \A i \in Index : flash'[START + i] = flash[START + i]
      BY <2>1, <3>1, TornArea DEF IInv
    <3> QED BY <3>2 DEF stored
  <2>4. Store!Changed
    BY <2>2, AreaChanged
  <2>5. Store!PowerLoss
    BY <2>1, <2>3, <2>4 DEF Store!PowerLoss, stored
  <2> QED BY <2>5 DEF Store!Next
<1>5. CASE CalibrateBegin \/ CalibrateReturn
  BY <1>0, <1>5 DEF CalibrateBegin, CalibrateReturn, stateVars, flashVars
<1>6. CASE Start \/ Verify
  BY <1>0, <1>6 DEF Start, Verify, callVars, flashVars
<1>7. CASE Erase \/ Write
  <2>1. UNCHANGED <<flash, string, error>> /\ flashStates # "none" /\ flashStates' # "none"
    BY <1>7 DEF Erase, ErasePage, Write, callVars, flashVars
  <2> QED BY <1>0, <2>1
<1>8. CASE UNCHANGED vars
  BY <1>0, <1>8 DEF vars, callVars, stateVars, flashVars
<1> QED BY <1>1, <1>2, <1>3, <1>4, <1>5, <1>6, <1>7, <1>8 DEF Next, Processor, Rest

\* saveToFlash(), with its pages, rows and operations, is the store it promises to be.
THEOREM StoreImplemented == Spec => ImplementsCalibrationStore
<1>1. IInv /\ Init => Store!Init
  <2> SUFFICES ASSUME IInv, Init
               PROVE  Store!Init
    OBVIOUS
  <2>1. stored \in [Index -> Cells]
    BY Page DEF stored, IInv, TypeOK
  <2> QED BY <2>1 DEF Init, Store!Init, stored
<1>2. IInv /\ IInv' /\ [Next]_vars => [Store!Next]_(Store!vars)
  BY StoreStep
<1> QED BY <1>1, <1>2, Invariance, PTL DEF Spec, ImplementsCalibrationStore, Store!Spec
=============================================================================
