------------------------------ MODULE Sampling ------------------------------
(***************************************************************************)
(* The sampling loops of calibrate() and measure() word by word: SPI2, an  *)
(* I2S master, receives words of two channels in turn into one buffer; the *)
(* loops poll SPI2STAT and take every other word for the microphone's.     *)
(* Words are numbered from myI2S_init(): the microphone's are the even     *)
(* ones.  A sum is represented by the sequence of the words it is made of. *)
(***************************************************************************)
EXTENDS Naturals, Sequences

CONSTANTS PAIRS,     \* SAMPLE_T * TIMER_FREQ, samples of a measurement
          HORIZON,   \* MEASUREMENT_HISTORY_HORIZON
          None       \* no word: SPI2BUF empty, an entry never written

ASSUME SamplingAssumption ==
  /\ PAIRS \in Nat \ {0} /\ HORIZON \in Nat \ {0}
  /\ None \notin Nat

VARIABLES pc,               \* where the handler is; "rest" outside both
          loop,             \* the sampling loop entered last
          totalBytesRead,   \* the local count, of words
          sensor_bias, Leq, \* the words summed in them
          measurement_history, measurement_history_idx,
          error,            \* appData.error
          on, buf, rov,     \* SPI2: running, SPI2BUF (RBF), SPIROV
          word              \* the number of the word that comes next

sums    == <<sensor_bias, Leq>>
history == <<measurement_history, measurement_history_idx>>
spi     == <<on, buf, rov, word>>
vars    == <<pc, loop, totalBytesRead, sums, history, error, spi>>

Loops  == {"none", "bias", "gains", "measure"}
Errors == {"NO_ERROR", "I2S_RX_OVRFLW"}

-----------------------------------------------------------------------------
Init ==
  /\ pc = "rest" /\ loop = "none" /\ totalBytesRead = 0
  /\ sensor_bias = <<>> /\ Leq = <<>>
  /\ measurement_history = [i \in 0 .. HORIZON - 1 |-> None]
  /\ measurement_history_idx = 0
  /\ error = "NO_ERROR"
  /\ on = FALSE /\ buf = None /\ rov = FALSE /\ word = 0

myI2S_initKeepsBuf ==   \* mutant: rData = SPI2BUF is left out
  on' = TRUE /\ buf' = buf /\ rov' = FALSE /\ word' = 0
myI2S_initKeepsOverflow ==   \* mutant: SPI2STATCLR is left out
  on' = TRUE /\ buf' = None /\ rov' = rov /\ word' = 0
myI2S_init == on' = TRUE /\ buf' = None /\ rov' = FALSE /\ word' = 0

(* calibrate() runs at most once, before anything else samples.            *)
CalibrateBegin ==
  /\ pc = "rest" /\ loop = "none"
  /\ pc' = "poll" /\ loop' = "bias" /\ totalBytesRead' = 0
  /\ sensor_bias' = <<>>
  /\ myI2S_init
  /\ UNCHANGED <<Leq, history, error>>

\* The bias is saved; meanwhile nobody reads SPI2.
BiasSave ==
  /\ pc = "poll" /\ loop = "bias" /\ totalBytesRead = 2 * PAIRS
  /\ pc' = "save"
  /\ UNCHANGED <<loop, totalBytesRead, sums, history, error, spi>>

GainsBegin ==
  /\ pc = "save"
  /\ pc' = "poll" /\ loop' = "gains" /\ totalBytesRead' = 0
  /\ Leq' = <<>>
  /\ myI2S_init
  /\ UNCHANGED <<sensor_bias, history, error>>

\* An error of the last measurement has stopped the program.
MeasureBegin ==
  /\ pc = "rest" /\ error = "NO_ERROR"
  /\ pc' = "poll" /\ loop' = "measure" /\ totalBytesRead' = 0
  /\ Leq' = <<>> /\ measurement_history_idx' = 0
  /\ myI2S_init
  /\ UNCHANGED <<sensor_bias, measurement_history, error>>

Return ==
  /\ pc = "poll" /\ loop \in {"gains", "measure"} /\ totalBytesRead = 2 * PAIRS
  /\ pc' = "rest"
  /\ UNCHANGED <<loop, totalBytesRead, sums, history, error, spi>>

Halted == pc = "rest" /\ error # "NO_ERROR" /\ UNCHANGED vars

-----------------------------------------------------------------------------
TestOverflowNoClear ==   \* mutant: SPI2STATCLR is left out
  /\ pc = "poll" /\ loop = "measure" /\ totalBytesRead < 2 * PAIRS
  /\ pc' = "receive"
  /\ error' = IF rov THEN "I2S_RX_OVRFLW" ELSE error
  /\ UNCHANGED <<loop, totalBytesRead, sums, history, spi>>

(* measure() clears the overflow, and SPI2 goes on with either channel.    *)
TestOverflow ==
  /\ pc = "poll" /\ loop = "measure" /\ totalBytesRead < 2 * PAIRS
  /\ pc' = "receive"
  /\ rov' = FALSE /\ word' \in (IF rov THEN {word, word + 1} ELSE {word})
  /\ error' = IF rov THEN "I2S_RX_OVRFLW" ELSE error
  /\ UNCHANGED <<loop, totalBytesRead, sums, history, on, buf>>

\* measure() finds RBF clear.
NothingReceived ==
  /\ pc = "receive" /\ buf = None
  /\ pc' = "poll"
  /\ UNCHANGED <<loop, totalBytesRead, sums, history, error, spi>>

RecordNoWrap(w) ==   \* mutant: the index stays at the last entry
  /\ measurement_history' = [measurement_history EXCEPT ![measurement_history_idx] = w]
  /\ measurement_history_idx' = IF measurement_history_idx + 1 = HORIZON
                                THEN measurement_history_idx
                                ELSE measurement_history_idx + 1
RecordOneMore(w) ==   \* mutant: one entry too many
  /\ measurement_history' = [measurement_history EXCEPT ![measurement_history_idx] = w]
  /\ measurement_history_idx' = (measurement_history_idx + 1) % (HORIZON + 1)
Record(w) ==
  /\ measurement_history' = [measurement_history EXCEPT ![measurement_history_idx] = w]
  /\ measurement_history_idx' = (measurement_history_idx + 1) % HORIZON

(* The word in SPI2BUF; odd counts are the microphone's.                   *)
Sample(w) ==
  /\ sensor_bias' = IF loop = "bias" THEN Append(sensor_bias, w) ELSE sensor_bias
  /\ Leq' = IF loop # "bias" THEN Append(Leq, w) ELSE Leq
  /\ IF loop = "measure" THEN Record(w) ELSE UNCHANGED history

Receive ==
  /\ pc = IF loop = "measure" THEN "receive" ELSE "poll"
  /\ totalBytesRead < 2 * PAIRS /\ buf # None
  /\ pc' = "poll"
  /\ buf' = None /\ totalBytesRead' = totalBytesRead + 1
  /\ IF totalBytesRead' % 2 = 1 THEN Sample(buf) ELSE UNCHANGED <<sums, history>>
  /\ UNCHANGED <<loop, error, on, rov, word>>

(* SPI2 completes a word: one that finds the buffer full is lost, and as   *)
(* myI2S_init() leaves IGNROV 0 SPI2 stops until the flag is cleared.      *)
WordArrives ==
  /\ on /\ ~rov
  /\ word' = word + 1
  /\ IF buf = None THEN buf' = word /\ UNCHANGED rov
                   ELSE rov' = TRUE /\ UNCHANGED buf
  /\ UNCHANGED <<pc, loop, totalBytesRead, sums, history, error, on>>

\* calibrate() never clears the overflow: SPI2 has stopped, and it polls for ever.
Starved ==
  /\ pc = "poll" /\ loop # "measure" /\ totalBytesRead < 2 * PAIRS
  /\ buf = None /\ rov
  /\ UNCHANGED vars

Handlers == BiasSave \/ GainsBegin \/ Return \/ TestOverflow \/ NothingReceived \/ Receive
Next == CalibrateBegin \/ MeasureBegin \/ Handlers \/ WordArrives \/ Starved \/ Halted

Spec == Init /\ [][Next]_vars /\ WF_vars(Handlers) /\ WF_vars(WordArrives)

-----------------------------------------------------------------------------
(* The variables keep their types.                                         *)
TypeOK ==
  /\ pc \in {"rest", "poll", "receive", "save"} /\ loop \in Loops
  /\ totalBytesRead \in 0 .. 2 * PAIRS
  /\ sensor_bias \in Seq(Nat) /\ Leq \in Seq(Nat)
  /\ measurement_history \in [0 .. HORIZON - 1 -> Nat \union {None}]
  /\ measurement_history_idx \in 0 .. HORIZON - 1
  /\ error \in Errors
  /\ on \in BOOLEAN /\ rov \in BOOLEAN /\ word \in Nat
  /\ buf \in Nat \union {None}

\* A word has been lost since myI2S_init(): not read, and not in the buffer.
Received == totalBytesRead + (IF buf = None THEN 0 ELSE 1)
Lost     == word > Received

\* s is the first n samples of the microphone, each once and in order.
IsMicrophone(s, n) == Len(s) = n /\ \A i \in 1 .. n : s[i] = 2 * (i - 1)

Sum  == IF loop = "bias" THEN sensor_bias ELSE Leq
Done == loop # "none" /\ pc \in {"rest", "save"}

(* A loop that ends without an error has summed all samples of the         *)
(* microphone, none twice, none of the other channel, and as many as the   *)
(* sum is divided by: however late the loops poll, and whatever SPI2 was   *)
(* left with by the loop before (calibrate.c:18-27, measure.c:25-41).      *)
SumsMicrophone ==
  Done /\ error = "NO_ERROR" => IsMicrophone(Sum, PAIRS) /\ totalBytesRead \div 2 = PAIRS

(* After a measurement without an error measurement_history holds its last *)
(* HORIZON samples, the oldest at the index (measure.c:35-36).             *)
HistoryIsLatest ==
  Done /\ loop = "measure" /\ error = "NO_ERROR" =>
    /\ measurement_history_idx = PAIRS % HORIZON
    /\ \A k \in 0 .. PAIRS - 1 : k + HORIZON >= PAIRS => measurement_history[k % HORIZON] = 2 * k

(* An overflow is reported only if this measurement lost a word: those     *)
(* that nobody read between two measurements do not count (measure.c:26).  *)
NoFalseAlarm == error = "I2S_RX_OVRFLW" => Lost

(* A measurement ends, overflows or not: it lets SPI2 go on; a calibration *)
(* ends unless a word is lost, which stops SPI2 for good (measure.c:27,    *)
(* calibrate.c:18, 37).                                                    *)
LoopsEnd ==
  /\ loop = "measure" ~> pc = "rest"
  /\ loop \in {"bias", "gains"} ~> (pc = "rest" \/ Lost)
=============================================================================
