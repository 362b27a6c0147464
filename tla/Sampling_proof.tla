--------------------------- MODULE Sampling_proof ---------------------------
(***************************************************************************)
(* The sampling loops take the microphone's words and no others, for every *)
(* number of samples and every length of the history.                      *)
(***************************************************************************)
EXTENDS Sampling, SequenceTheorems, TLAPS

\* Where the handlers can be, and what SPI2 is before it has been started.
Place ==
  /\ loop # "measure" => error = "NO_ERROR"
  /\ pc = "receive" => loop = "measure" /\ totalBytesRead < 2 * PAIRS
  /\ pc = "save" => loop = "bias" /\ totalBytesRead = 2 * PAIRS
  /\ pc = "rest" /\ loop # "none" => loop # "bias" /\ totalBytesRead = 2 * PAIRS
  /\ loop = "none" => /\ pc = "rest" /\ totalBytesRead = 0 /\ Leq = <<>>
                      /\ ~on /\ buf = None /\ ~rov /\ word = 0

\* How many words SPI2 has completed, the one it discarded included.
Behind ==
  /\ word >= Received
  /\ rov \/ error = "I2S_RX_OVRFLW" => Lost

\* Without an error the words read are the first ones, and so is the next.
InStep ==
  error = "NO_ERROR" =>
    /\ ~rov => word = Received
    /\ buf # None => buf = totalBytesRead
    /\ IsMicrophone(Sum, (totalBytesRead + 1) \div 2)

\* The ring holds what was summed last.
Ring ==
  loop = "measure" =>
    /\ measurement_history_idx = Len(Leq) % HORIZON
    /\ \A k \in 1 .. Len(Leq) :
         k + HORIZON > Len(Leq) => measurement_history[(k - 1) % HORIZON] = Leq[k]

IInv == TypeOK /\ Place /\ Behind /\ InStep /\ Ring

-----------------------------------------------------------------------------
LEMMA ModInRange ==
  ASSUME NEW n \in Nat, NEW h \in Nat \ {0}
  PROVE  n % h \in Nat /\ n % h < h
<1>1. n % h < h
  BY SMT
<1>2. n % h \in Nat
  BY SMT
<1> QED BY <1>1, <1>2

LEMMA ModOf ==
  ASSUME NEW q \in Nat, NEW r \in Nat, NEW h \in Nat \ {0}, r < h
  PROVE  (h * q + r) % h = r
  BY SMT

LEMMA ModNext ==
  ASSUME NEW n \in Nat, NEW h \in Nat \ {0}
  PROVE  ((n % h) + 1) % h = (n + 1) % h
<1> DEFINE q == n \div h
           r == n % h
<1>1. n = h * q + r /\ q \in Nat
  BY SMT
<1>2. r \in Nat /\ r < h
  BY ModInRange
<1> HIDE DEF q, r
<1>3. CASE r + 1 < h
  <2>1. (h * q + (r + 1)) % h = r + 1
    BY <1>1, <1>2, <1>3, ModOf
  <2>2. n + 1 = h * q + (r + 1)
    BY <1>1, <1>2
  <2>3. (r + 1) % h = r + 1
    BY <1>2, <1>3
  <2> QED BY <2>1, <2>2, <2>3 DEF r
<1>4. CASE r + 1 = h
  <2>1. (h * (q + 1) + 0) % h = 0
    BY <1>1, ModOf
  <2>2. n + 1 = h * (q + 1) + 0
    BY <1>1, <1>2, <1>4
  <2>3. (r + 1) % h = 0
    BY <1>4
  <2> QED BY <2>1, <2>2, <2>3 DEF r
<1> QED BY <1>2, <1>3, <1>4

\* Numbers less than h apart have different remainders.
LEMMA ModApart ==
  ASSUME NEW a \in Nat, NEW b \in Nat, NEW h \in Nat \ {0}, a < b, b < a + h
  PROVE  a % h # b % h
<1> DEFINE p == a \div h
           q == b \div h
<1>1. /\ a = h * p + (a % h) /\ p \in Nat
      /\ b = h * q + (b % h) /\ q \in Nat
  BY SMT
<1>2. a % h \in Nat /\ b % h \in Nat
  BY ModInRange
<1> HIDE DEF p, q
<1>3. h * p \in Nat /\ h * q \in Nat
  BY <1>1
<1> SUFFICES ASSUME a % h = b % h PROVE FALSE
  OBVIOUS
<1>4. h * p < h * q /\ h * q < h * p + h
  BY <1>1, <1>2, <1>3
<1>5. CASE q <= p
  <2>1. h * p = h * q + h * (p - q) /\ h * (p - q) \in Nat
    BY <1>1, <1>5
  <2> QED BY <1>3, <1>4, <2>1
<1>6. CASE p + 1 <= q
  <2>1. h * q = h * (p + 1) + h * (q - (p + 1)) /\ h * (q - (p + 1)) \in Nat
    BY <1>1, <1>6
  <2>2. h * (p + 1) = h * p + h
    BY <1>1
  <2> QED BY <1>3, <1>4, <2>1, <2>2
<1> QED BY <1>1, <1>5, <1>6

-----------------------------------------------------------------------------
LEMMA InitIInv == Init => IInv
<1> SUFFICES ASSUME Init PROVE IInv
  OBVIOUS
<1> USE SamplingAssumption DEF SamplingAssumption, Init
<1>1. TypeOK
  BY DEF TypeOK, Loops, Errors
<1>2. Place /\ Behind /\ Ring
  BY DEF Place, Behind, Lost, Received, Ring
<1>3. (totalBytesRead + 1) \div 2 = 0
  BY SMT
<1>4. InStep
  BY <1>3 DEF InStep, IsMicrophone, Sum
<1> QED BY <1>1, <1>2, <1>4 DEF IInv

LEMMA TypeStep == TypeOK /\ [Next]_vars => TypeOK'
<1> SUFFICES ASSUME TypeOK, [Next]_vars PROVE TypeOK'
  OBVIOUS
<1> USE SamplingAssumption
    DEF SamplingAssumption, TypeOK, Loops, Errors, sums, history, spi
<1>1. CASE CalibrateBegin
  BY <1>1 DEF CalibrateBegin, myI2S_init
<1>2. CASE BiasSave
  BY <1>2 DEF BiasSave
<1>3. CASE GainsBegin
  <2>1. measurement_history' = measurement_history /\ <<>> \in Seq(Nat)
    BY <1>3 DEF GainsBegin
  <2> QED BY <1>3, <2>1 DEF GainsBegin, myI2S_init
<1>4. CASE MeasureBegin
  <2>1. measurement_history' = measurement_history /\ <<>> \in Seq(Nat)
    BY <1>4 DEF MeasureBegin
  <2>2. 0 \in 0 .. HORIZON - 1 /\ 0 \in 0 .. 2 * PAIRS
    OBVIOUS
  <2> QED BY <1>4, <2>1, <2>2 DEF MeasureBegin, myI2S_init
<1>5. CASE Return
  BY <1>5 DEF Return
<1>6. CASE TestOverflow
  <2>1. word' \in Nat
    BY <1>6 DEF TestOverflow
  <2>2. UNCHANGED <<loop, totalBytesRead, sums, history, on, buf>>
    BY <1>6 DEF TestOverflow
  <2> QED BY <1>6, <2>1, <2>2 DEF TestOverflow
<1>7. CASE NothingReceived
  BY <1>7 DEF NothingReceived
<1>8. CASE Receive
  <2>1. buf \in Nat /\ totalBytesRead + 1 \in 0 .. 2 * PAIRS
    BY <1>8 DEF Receive
  <2>2. /\ Append(sensor_bias, buf) \in Seq(Nat) /\ Append(Leq, buf) \in Seq(Nat)
        /\ (measurement_history_idx + 1) % HORIZON \in 0 .. HORIZON - 1
    BY <2>1, ModInRange
  <2>3. [measurement_history EXCEPT ![measurement_history_idx] = buf]
          \in [0 .. HORIZON - 1 -> Nat \union {None}]
    BY <2>1
  <2>4. sensor_bias' \in Seq(Nat) /\ Leq' \in Seq(Nat)
    BY <1>8, <2>2 DEF Receive, Sample
  <2>5. /\ measurement_history' \in [0 .. HORIZON - 1 -> Nat \union {None}]
        /\ measurement_history_idx' \in 0 .. HORIZON - 1
    BY <1>8, <2>2, <2>3 DEF Receive, Sample, Record
  <2> QED BY <1>8, <2>1, <2>4, <2>5 DEF Receive
<1>9. CASE WordArrives
  <2>1. word \in Nat /\ word' = word + 1
    BY <1>9 DEF WordArrives
  <2>2. buf' \in {buf, word} /\ rov' \in BOOLEAN
    BY <1>9 DEF WordArrives
  <2>3. word' \in Nat /\ buf' \in Nat \union {None}
    BY <2>1, <2>2
  <2>4. UNCHANGED <<pc, loop, totalBytesRead, sums, history, error, on>>
    BY <1>9 DEF WordArrives
  <2> QED BY <2>2, <2>3, <2>4
<1>10. CASE UNCHANGED vars
  BY <1>10 DEF vars
<1> QED BY <1>1, <1>2, <1>3, <1>4, <1>5, <1>6, <1>7, <1>8, <1>9, <1>10
        DEF Next, Handlers, Starved, Halted

LEMMA PlaceStep == TypeOK /\ Place /\ [Next]_vars => Place'
<1> SUFFICES ASSUME TypeOK, Place, [Next]_vars PROVE Place'
  OBVIOUS
<1> USE SamplingAssumption DEF SamplingAssumption, TypeOK, Place, sums, history, spi
<1>1. CASE CalibrateBegin
  BY <1>1 DEF CalibrateBegin, myI2S_init
<1>2. CASE BiasSave
  BY <1>2 DEF BiasSave
<1>3. CASE GainsBegin
  BY <1>3 DEF GainsBegin, myI2S_init
<1>4. CASE MeasureBegin
  BY <1>4 DEF MeasureBegin, myI2S_init
<1>5. CASE Return
  BY <1>5 DEF Return
<1>6. CASE TestOverflow
  BY <1>6 DEF TestOverflow
<1>7. CASE NothingReceived
  BY <1>7 DEF NothingReceived
<1>8. CASE Receive
  BY <1>8 DEF Receive
<1>9. CASE WordArrives
  BY <1>9 DEF WordArrives
<1>10. CASE UNCHANGED vars
  BY <1>10 DEF vars
<1> QED BY <1>1, <1>2, <1>3, <1>4, <1>5, <1>6, <1>7, <1>8, <1>9, <1>10
        DEF Next, Handlers, Starved, Halted

LEMMA BehindStep == TypeOK /\ Place /\ Behind /\ [Next]_vars => Behind'
<1> SUFFICES ASSUME TypeOK, Place, Behind, [Next]_vars PROVE Behind'
  OBVIOUS
<1> USE SamplingAssumption DEF SamplingAssumption, TypeOK, Place, Behind, Lost, Received, sums, history, spi
<1>1. CASE CalibrateBegin
  BY <1>1 DEF CalibrateBegin, myI2S_init
<1>2. CASE BiasSave
  BY <1>2 DEF BiasSave
<1>3. CASE GainsBegin
  BY <1>3 DEF GainsBegin, myI2S_init
<1>4. CASE MeasureBegin
  BY <1>4 DEF MeasureBegin, myI2S_init
<1>5. CASE Return
  BY <1>5 DEF Return
<1>6. CASE TestOverflow
  BY <1>6 DEF TestOverflow
<1>7. CASE NothingReceived
  BY <1>7 DEF NothingReceived
<1>8. CASE Receive
  BY <1>8 DEF Receive
<1>9. CASE WordArrives
  BY <1>9 DEF WordArrives
<1>10. CASE UNCHANGED vars
  BY <1>10 DEF vars
<1> QED BY <1>1, <1>2, <1>3, <1>4, <1>5, <1>6, <1>7, <1>8, <1>9, <1>10
        DEF Next, Handlers, Starved, Halted

LEMMA Halves ==
  ASSUME NEW n \in Nat
  PROVE  /\ (n + 1) % 2 = 1 => /\ ((n + 1) + 1) \div 2 = (n + 1) \div 2 + 1
                               /\ n = 2 * ((n + 1) \div 2)
         /\ (n + 1) % 2 # 1 => ((n + 1) + 1) \div 2 = (n + 1) \div 2
         /\ (n + 1) \div 2 \in Nat
  BY SMT

LEMMA HalfOfNone == (0 + 1) \div 2 = 0
  BY SMT

LEMMA NextSample ==
  ASSUME NEW s \in Seq(Nat), NEW n \in Nat, IsMicrophone(s, n)
  PROVE  IsMicrophone(Append(s, 2 * n), n + 1)
  BY DEF IsMicrophone

LEMMA InStepStep == TypeOK /\ Place /\ InStep /\ [Next]_vars => InStep'
<1> SUFFICES ASSUME TypeOK, Place, InStep, [Next]_vars, error' = "NO_ERROR"
             PROVE  /\ ~rov' => word' = Received'
                    /\ buf' # None => buf' = totalBytesRead'
                    /\ IsMicrophone(Sum', (totalBytesRead' + 1) \div 2)
  BY DEF InStep, IsMicrophone
<1> USE SamplingAssumption DEF SamplingAssumption, TypeOK, sums, history, spi
<1>0. IsMicrophone(<<>>, 0)
  BY DEF IsMicrophone
<1>1. CASE CalibrateBegin
  <2>1. Sum' = <<>> /\ totalBytesRead' = 0
    BY <1>1 DEF CalibrateBegin, Sum
  <2> QED BY <1>1, <1>0, <2>1, HalfOfNone DEF CalibrateBegin, myI2S_init, Received
<1>2. CASE BiasSave
  BY <1>2 DEF BiasSave, InStep, Received, Sum
<1>3. CASE GainsBegin
  <2>1. Sum' = <<>> /\ totalBytesRead' = 0
    BY <1>3 DEF GainsBegin, Sum
  <2> QED BY <1>3, <1>0, <2>1, HalfOfNone DEF GainsBegin, myI2S_init, Received
<1>4. CASE MeasureBegin
  <2>1. Sum' = <<>> /\ totalBytesRead' = 0
    BY <1>4 DEF MeasureBegin, Sum
  <2> QED BY <1>4, <1>0, <2>1, HalfOfNone DEF MeasureBegin, myI2S_init, Received
<1>5. CASE Return
  BY <1>5 DEF Return, InStep, Received, Sum
<1>6. CASE TestOverflow
  <2>1. ~rov
    BY <1>6 DEF TestOverflow
  <2>2. UNCHANGED <<loop, totalBytesRead, sums, buf, word, error>>
    BY <1>6, <2>1 DEF TestOverflow
  <2> QED BY <2>1, <2>2 DEF InStep, Received, Sum
<1>7. CASE NothingReceived
  BY <1>7 DEF NothingReceived, InStep, Received, Sum
<1>8. CASE Receive
  <2>1. /\ totalBytesRead \in Nat /\ buf = totalBytesRead
        /\ totalBytesRead' = totalBytesRead + 1 /\ buf' = None
        /\ UNCHANGED <<loop, rov, word>>
        /\ ~rov => word = totalBytesRead + 1
        /\ IsMicrophone(Sum, (totalBytesRead + 1) \div 2) /\ Sum \in Seq(Nat)
    BY <1>8 DEF Receive, InStep, Received, Sum
  <2>2. ~rov' => word' = Received'
    BY <2>1 DEF Received
  <2>3. CASE (totalBytesRead + 1) % 2 = 1
    <3>1. Sum' = Append(Sum, buf)
      BY <1>8, <2>1, <2>3 DEF Receive, Sample, Sum
    <3>2. IsMicrophone(Append(Sum, 2 * ((totalBytesRead + 1) \div 2)),
                       (totalBytesRead + 1) \div 2 + 1)
      BY <2>1, Halves, NextSample
    <3> QED BY <2>1, <2>2, <2>3, <3>1, <3>2, Halves
  <2>4. CASE (totalBytesRead + 1) % 2 # 1
    <3>1. Sum' = Sum
      BY <1>8, <2>1, <2>4 DEF Receive, Sum
    <3> QED BY <2>1, <2>2, <2>4, <3>1, Halves
  <2> QED BY <2>3, <2>4
<1>9. CASE WordArrives
  <2>1. /\ UNCHANGED <<loop, totalBytesRead, sums>>
        /\ word = Received /\ word' = word + 1
        /\ IsMicrophone(Sum, (totalBytesRead + 1) \div 2)
        /\ buf # None => buf = totalBytesRead
    BY <1>9 DEF WordArrives, InStep
  <2>2. IsMicrophone(Sum', (totalBytesRead' + 1) \div 2)
    BY <2>1 DEF Sum
  <2>3. CASE buf = None
    <3>1. buf' = word /\ word = totalBytesRead /\ word \in Nat /\ rov' = rov
      BY <1>9, <2>1, <2>3 DEF WordArrives, Received
    <3> QED BY <2>1, <2>2, <3>1 DEF Received
  <2>4. CASE buf # None
    <3>1. rov' = TRUE /\ buf' = buf
      BY <1>9, <2>4 DEF WordArrives
    <3> QED BY <2>1, <2>2, <2>4, <3>1
  <2> QED BY <2>3, <2>4
<1>10. CASE UNCHANGED vars
  BY <1>10 DEF vars, InStep, Received, Sum
<1> QED BY <1>1, <1>2, <1>3, <1>4, <1>5, <1>6, <1>7, <1>8, <1>9, <1>10
        DEF Next, Handlers, Starved, Halted

\* One more sample in the ring: it replaces the oldest.
LEMMA RingNext ==
  ASSUME NEW s \in Seq(Nat), NEW w \in Nat,
         NEW ring \in [0 .. HORIZON - 1 -> Nat \union {None}],
         \A k \in 1 .. Len(s) : k + HORIZON > Len(s) => ring[(k - 1) % HORIZON] = s[k],
         NEW k \in 1 .. Len(s) + 1, k + HORIZON > Len(s) + 1
  PROVE  [ring EXCEPT ![Len(s) % HORIZON] = w][(k - 1) % HORIZON] = Append(s, w)[k]
<1>1. /\ HORIZON \in Nat \ {0} /\ Len(s) \in Nat /\ k - 1 \in Nat
  BY SamplingAssumption DEF SamplingAssumption
<1>2. (k - 1) % HORIZON \in 0 .. HORIZON - 1
  <2> DEFINE r == (k - 1) % HORIZON
  <2>1. r \in Nat /\ r < HORIZON
    BY <1>1, ModInRange
  <2> HIDE DEF r
  <2>2. r \in 0 .. HORIZON - 1
    BY <1>1, <2>1
  <2> QED BY <2>2 DEF r
<1>3. CASE k = Len(s) + 1
  <2>1. Append(s, w)[k] = w
    BY <1>3, AppendProperties
  <2>2. (k - 1) % HORIZON = Len(s) % HORIZON
    BY <1>1, <1>3
  <2> DEFINE at == Len(s) % HORIZON
  <2>3. at \in 0 .. HORIZON - 1
    BY <1>2, <2>2
  <2> HIDE DEF at
  <2>4. [ring EXCEPT ![at] = w][at] = w
    BY <2>3
  <2> QED BY <2>1, <2>2, <2>4 DEF at
<1>4. CASE k \in 1 .. Len(s)
  <2>1. Append(s, w)[k] = s[k]
    BY <1>4
  <2>2. (k - 1) % HORIZON # Len(s) % HORIZON
    <3>1. k - 1 < Len(s) /\ Len(s) < (k - 1) + HORIZON
      BY <1>1, <1>4
    <3> QED BY <1>1, <3>1, ModApart
  <2>3. ring[(k - 1) % HORIZON] = s[k]
    BY <1>1, <1>4
  <2> QED BY <1>2, <2>1, <2>2, <2>3
<1> QED BY <1>1, <1>3, <1>4

LEMMA RingStep == TypeOK /\ Ring /\ [Next]_vars => Ring'
<1> SUFFICES ASSUME TypeOK, Ring, [Next]_vars, loop' = "measure"
             PROVE  /\ measurement_history_idx' = Len(Leq') % HORIZON
                    /\ \A k \in 1 .. Len(Leq') :
                         k + HORIZON > Len(Leq')
                           => measurement_history'[(k - 1) % HORIZON] = Leq'[k]
  BY DEF Ring
<1> USE SamplingAssumption DEF SamplingAssumption, sums, history, spi
<1>1. CASE CalibrateBegin
  BY <1>1 DEF CalibrateBegin
<1>2. CASE BiasSave
  BY <1>2 DEF BiasSave, Ring
<1>3. CASE GainsBegin
  BY <1>3 DEF GainsBegin
<1>4. CASE MeasureBegin
  <2>1. Leq' = <<>> /\ measurement_history_idx' = 0
    BY <1>4 DEF MeasureBegin
  <2>2. 0 % HORIZON = 0
    OBVIOUS
  <2> QED BY <2>1, <2>2
<1>5. CASE Return
  BY <1>5 DEF Return, Ring
<1>6. CASE TestOverflow
  BY <1>6 DEF TestOverflow, Ring
<1>7. CASE NothingReceived
  BY <1>7 DEF NothingReceived, Ring
<1>8. CASE Receive
  <2>1. loop = "measure" /\ buf \in Nat /\ Leq \in Seq(Nat)
    BY <1>8 DEF Receive, TypeOK
  <2>2. CASE totalBytesRead' % 2 = 1
    <3>1. /\ Leq' = Append(Leq, buf)
          /\ measurement_history' = [measurement_history EXCEPT ![measurement_history_idx] = buf]
          /\ measurement_history_idx' = (measurement_history_idx + 1) % HORIZON
      BY <1>8, <2>1, <2>2 DEF Receive, Sample, Record
    <3>2. measurement_history_idx = Len(Leq) % HORIZON /\ Len(Leq) \in Nat
      BY <2>1 DEF Ring
    <3>3. measurement_history_idx' = (Len(Leq) + 1) % HORIZON
      BY <3>1, <3>2, ModNext
    <3>4. Len(Leq') = Len(Leq) + 1
      BY <2>1, <3>1
    <3>5. measurement_history \in [0 .. HORIZON - 1 -> Nat \union {None}]
      BY DEF TypeOK
    <3>6. ASSUME NEW k \in 1 .. Len(Leq) + 1, k + HORIZON > Len(Leq) + 1
          PROVE  measurement_history'[(k - 1) % HORIZON] = Leq'[k]
      <4>1. \A i \in 1 .. Len(Leq) :
              i + HORIZON > Len(Leq) => measurement_history[(i - 1) % HORIZON] = Leq[i]
        BY <2>1 DEF Ring
      <4>2. [measurement_history EXCEPT ![Len(Leq) % HORIZON] = buf][(k - 1) % HORIZON]
              = Append(Leq, buf)[k]
        BY <2>1, <3>5, <3>6, <4>1, RingNext
      <4> QED BY <3>1, <3>2, <4>2
    <3> QED BY <3>3, <3>4, <3>6
  <2>3. CASE totalBytesRead' % 2 # 1
    BY <1>8, <2>1, <2>3 DEF Receive, Ring
  <2> QED BY <2>2, <2>3
<1>9. CASE WordArrives
  BY <1>9 DEF WordArrives, Ring
<1>10. CASE UNCHANGED vars
  BY <1>10 DEF vars, Ring
<1> QED BY <1>1, <1>2, <1>3, <1>4, <1>5, <1>6, <1>7, <1>8, <1>9, <1>10
        DEF Next, Handlers, Starved, Halted

-----------------------------------------------------------------------------
THEOREM Invariance == Spec => []IInv
<1>1. IInv /\ [Next]_vars => IInv'
  BY TypeStep, PlaceStep, BehindStep, InStepStep, RingStep DEF IInv
<1> QED BY <1>1, InitIInv, PTL DEF Spec

(* The variables keep their types, whatever the number of samples and the  *)
(* length of the history.                                                  *)
THEOREM TypeCorrect == Spec => []TypeOK
<1>1. IInv => TypeOK
  BY DEF IInv
<1> QED BY <1>1, Invariance, PTL

(* A loop that ends without an error has summed the samples of the         *)
(* microphone and nothing else (calibrate.c:18-27, measure.c:25-41).       *)
THEOREM SumsAreMicrophones == Spec => []SumsMicrophone
<1>1. IInv => SumsMicrophone
  <2> SUFFICES ASSUME IInv, Done, error = "NO_ERROR"
               PROVE  IsMicrophone(Sum, PAIRS) /\ totalBytesRead \div 2 = PAIRS
    BY DEF SumsMicrophone
  <2>1. totalBytesRead = 2 * PAIRS /\ PAIRS \in Nat
    BY SamplingAssumption DEF SamplingAssumption, IInv, Place, Done
  <2>2. (2 * PAIRS + 1) \div 2 = PAIRS /\ (2 * PAIRS) \div 2 = PAIRS
    BY <2>1
  <2> QED BY <2>1, <2>2 DEF IInv, InStep
<1> QED BY <1>1, Invariance, PTL

(* After a measurement without an error the ring holds the last samples    *)
(* (measure.c:35-36).                                                      *)
THEOREM HistoryIsRight == Spec => []HistoryIsLatest
<1>1. IInv => HistoryIsLatest
  <2> SUFFICES ASSUME IInv, Done, loop = "measure", error = "NO_ERROR"
               PROVE  /\ measurement_history_idx = PAIRS % HORIZON
                      /\ \A k \in 0 .. PAIRS - 1 : k + HORIZON >= PAIRS
                           => measurement_history[k % HORIZON] = 2 * k
    BY DEF HistoryIsLatest
  <2>1. totalBytesRead = 2 * PAIRS /\ PAIRS \in Nat /\ HORIZON \in Nat
    BY SamplingAssumption DEF SamplingAssumption, IInv, Place, Done
  <2>2. (2 * PAIRS + 1) \div 2 = PAIRS
    BY <2>1
  <2>3. Len(Leq) = PAIRS /\ \A i \in 1 .. PAIRS : Leq[i] = 2 * (i - 1)
    BY <2>1, <2>2 DEF IInv, InStep, Sum, IsMicrophone
  <2>4. measurement_history_idx = PAIRS % HORIZON
    BY <2>3 DEF IInv, Ring
  <2>5. ASSUME NEW k \in 0 .. PAIRS - 1, k + HORIZON >= PAIRS
        PROVE  measurement_history[k % HORIZON] = 2 * k
    <3>1. k + 1 \in 1 .. PAIRS /\ (k + 1) + HORIZON > PAIRS /\ (k + 1) - 1 = k
      BY <2>1, <2>5
    <3>2. measurement_history[((k + 1) - 1) % HORIZON] = Leq[k + 1]
      BY <2>3, <3>1 DEF IInv, Ring
    <3>3. Leq[k + 1] = 2 * k
      BY <2>3, <3>1
    <3> QED BY <3>1, <3>2, <3>3
  <2> QED BY <2>4, <2>5
<1> QED BY <1>1, Invariance, PTL

(* An overflow reported is one of this measurement (measure.c:26-29).      *)
THEOREM OverflowIsReal == Spec => []NoFalseAlarm
<1>1. IInv => NoFalseAlarm
  BY DEF IInv, Behind, NoFalseAlarm
<1> QED BY <1>1, Invariance, PTL
=============================================================================
