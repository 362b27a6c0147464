------------------------- MODULE UsartDriver_proof -------------------------
(***************************************************************************)
(* The USART driver moves bytes in order, runs both instances at their     *)
(* rates and sets them only at rest, for every depth of the FIFOs, every   *)
(* clock, and all messages and rates.                                      *)
(***************************************************************************)
EXTENDS UsartDriver, SequenceTheorems, TLAPS

\* What a call in progress relies on, and the type of the bytes due.
Place ==
  /\ pc = "send" => tx_count < Len(msg)
  /\ pc \in {"clear", "quiet", "set", "enable"} => handle \in USARTs
  /\ pc = "clear" => RXlength > 0
  /\ due \in [USARTs -> Seq(STRING)]

\* Only the USART whose setting is being changed may be stopped.
Enabled ==
  \A u \in USARTs : up[u] =>
    on[u] \/ (isEnabled /\ handle = u /\ pc \in {"quiet", "set", "enable"})

\* Where it can be told, a setting is changed at rest.
AtRest == pc = "set" /\ hasBusyStatus => ~on[handle] /\ ~stopping[handle]

IInv == TypeOK /\ Place /\ SentInOrder /\ ReceivedInOrder /\ RunsAtBaud /\ Enabled /\ AtRest

-----------------------------------------------------------------------------
(* FIFOs.                                                                  *)

LEMMA FifoIsSeq ==
  ASSUME NEW S, NEW n \in Nat, NEW s
  PROVE  s \in BoundedSeq(S, n) <=> s \in Seq(S) /\ Len(s) <= n
<1>1. ASSUME s \in BoundedSeq(S, n) PROVE s \in Seq(S) /\ Len(s) <= n
  <2>1. PICK m \in 0..n : s \in [1..m -> S]
    BY <1>1 DEF BoundedSeq, SeqOf
  <2>2. s \in Seq(S)
    BY <2>1
  <2>3. Len(s) = m
    BY <2>1, <2>2, LenProperties
  <2> QED BY <2>2, <2>3
<1>2. ASSUME s \in Seq(S), Len(s) <= n PROVE s \in BoundedSeq(S, n)
  <2>1. Len(s) \in 0..n /\ s \in [1..Len(s) -> S]
    BY <1>2, LenProperties
  <2> QED BY <2>1 DEF BoundedSeq, SeqOf
<1> QED BY <1>1, <1>2

LEMMA TailOf ==
  ASSUME NEW S, NEW s \in Seq(S), s # <<>>
  PROVE  Tail(s) \in Seq(S) /\ Len(Tail(s)) = Len(s) - 1 /\ Len(s) \in Nat \ {0}
  BY HeadTailProperties, EmptySeq, LenProperties

LEMMA TailOfConcat ==
  ASSUME NEW S, NEW s \in Seq(S), NEW t \in Seq(S), s # <<>>
  PROVE  Tail(s \o t) = Tail(s) \o t
<1>1. s \o t \in Seq(S) /\ Len(s \o t) = Len(s) + Len(t)
      /\ \A i \in 1 .. Len(s) + Len(t) :
           (s \o t)[i] = IF i <= Len(s) THEN s[i] ELSE t[i - Len(s)]
  BY ConcatProperties
<1>2. Len(s) \in Nat \ {0} /\ Len(t) \in Nat
  BY EmptySeq, LenProperties
<1>3. s \o t # <<>>
  BY <1>1, <1>2, EmptySeq
<1>4. /\ Tail(s) \in Seq(S) /\ Len(Tail(s)) = Len(s) - 1
      /\ \A i \in 1 .. Len(Tail(s)) : Tail(s)[i] = s[i + 1]
  BY HeadTailProperties
<1>5. /\ Tail(s \o t) \in Seq(S) /\ Len(Tail(s \o t)) = Len(s) + Len(t) - 1
      /\ \A i \in 1 .. Len(Tail(s \o t)) : Tail(s \o t)[i] = (s \o t)[i + 1]
  BY <1>1, <1>3, HeadTailProperties
<1>6. /\ Tail(s) \o t \in Seq(S) /\ Len(Tail(s) \o t) = Len(s) - 1 + Len(t)
      /\ \A i \in 1 .. Len(s) - 1 + Len(t) :
           (Tail(s) \o t)[i] = IF i <= Len(s) - 1 THEN Tail(s)[i] ELSE t[i - (Len(s) - 1)]
  BY <1>4, ConcatProperties
<1> SUFFICES ASSUME NEW i \in 1 .. Len(s) + Len(t) - 1
             PROVE  Tail(s \o t)[i] = (Tail(s) \o t)[i]
  BY <1>2, <1>5, <1>6, SeqEqual
<1>7. Tail(s \o t)[i] = (s \o t)[i + 1] /\ i + 1 \in 1 .. Len(s) + Len(t)
  BY <1>2, <1>5
<1>8. CASE i <= Len(s) - 1
  BY <1>1, <1>2, <1>4, <1>6, <1>7, <1>8
<1>9. CASE i > Len(s) - 1
  <2>1. ~(i + 1 <= Len(s)) /\ (i + 1) - Len(s) = i - (Len(s) - 1) /\ ~(i <= Len(s) - 1)
    BY <1>2, <1>9
  <2> QED BY <1>1, <1>2, <1>6, <1>7, <2>1
<1> QED BY <1>2, <1>8, <1>9

\* A byte written moves from what is still to be written to the FIFO.
LEMMA Written ==
  ASSUME NEW S, NEW t \in Seq(S), NEW m \in Seq(S), NEW n \in Nat, n < Len(m)
  PROVE  /\ m[n + 1] \in S /\ Append(t, m[n + 1]) \in Seq(S)
         /\ Len(Append(t, m[n + 1])) = Len(t) + 1
         /\ t \o SubSeq(m, n + 1, Len(m))
              = Append(t, m[n + 1]) \o SubSeq(m, (n + 1) + 1, Len(m))
<1>1. n + 1 \in 1 .. Len(m) /\ Len(m) \in (n + 1) .. Len(m) /\ Len(m) \in Nat
  BY LenProperties
<1>2. m[n + 1] \in S
  BY <1>1, ElementOfSeq
<1>3. /\ Append(t, m[n + 1]) \in Seq(S) /\ Len(Append(t, m[n + 1])) = Len(t) + 1
      /\ Append(t, m[n + 1]) = t \o <<m[n + 1]>>
  BY <1>2, AppendProperties, AppendIsConcat
<1>4. SubSeq(m, n + 1, Len(m)) = <<m[n + 1]>> \o SubSeq(m, (n + 1) + 1, Len(m))
  BY <1>1, SubSeqRecursiveFirst
<1>5. <<m[n + 1]>> \in Seq(S)
  BY <1>2
<1>6. SubSeq(m, (n + 1) + 1, Len(m)) \in Seq(S)
  <2>1. \A i \in ((n + 1) + 1) .. Len(m) : m[i] \in S
    BY <1>1, ElementOfSeq
  <2> QED BY <1>1, <2>1, SubSeqProperties
<1>7. \A x, y, z \in Seq(S) : x \o (y \o z) = (x \o y) \o z
  BY ConcatAssociative
<1>8. t \o (<<m[n + 1]>> \o SubSeq(m, (n + 1) + 1, Len(m)))
        = (t \o <<m[n + 1]>>) \o SubSeq(m, (n + 1) + 1, Len(m))
  BY <1>5, <1>6, <1>7, Zenon
<1> QED BY <1>2, <1>3, <1>4, <1>8

-----------------------------------------------------------------------------
(* The rate generator: two truncated divisions, of the clock by the rate   *)
(* and of that by the clocks to a bit.                                     *)

LEMMA Quotient ==
  ASSUME NEW c \in Nat, NEW b \in Nat \ {0}
  PROVE  c \div b \in Nat /\ b * (c \div b) <= c /\ c < b * (c \div b) + b
  BY SMT

LEMMA RateOf ==
  ASSUME NEW b \in Nat \ {0}, NEW k \in {4, 16}, NEW d \in Int,
         d = (CLOCK \div b) \div k - 1
  PROVE  k * b * (d + 1) <= CLOCK /\ CLOCK < k * b * (d + 2)
<1> CLOCK \in Nat
  BY UsartAssumption DEF UsartAssumption
<1> DEFINE x == CLOCK \div b
           q == x \div k
<1>1. x \in Nat /\ b * x <= CLOCK /\ CLOCK < b * x + b
  BY Quotient
<1>2. q \in Nat /\ k * q <= x /\ x < k * q + k
  BY <1>1, Quotient
<1>3. d + 1 = q /\ d + 2 = q + 1
  OBVIOUS
<1> HIDE DEF x, q
<1>4. k * q \in Nat /\ k * q + k \in Nat /\ x + 1 <= k * q + k
  BY <1>1, <1>2
<1>5. b * (k * q) <= b * x /\ b * (x + 1) <= b * (k * q + k)
  <2>1. ASSUME NEW y \in Nat, NEW z \in Nat, y <= z PROVE b * y <= b * z
    BY <2>1, SMT
  <2> QED BY <1>1, <1>2, <1>4, <2>1
<1>6. k * b * q = b * (k * q) /\ k * b * (q + 1) = b * (k * q + k) /\ b * (x + 1) = b * x + b
  BY <1>1, <1>2, SMT
<1> HIDE DEF x
<1>7. b * (k * q) \in Nat /\ b * x \in Nat /\ b * (k * q + k) \in Nat
  BY <1>1, <1>4
<1> QED BY <1>1, <1>3, <1>5, <1>6, <1>7

\* BaudSet's divisor, with four clocks to a bit or with sixteen, gives the rate.
AtRate(g, b) ==
  LET clocks == IF g.high THEN 4 ELSE 16
  IN  clocks * b * (g.divisor + 1) <= CLOCK /\ CLOCK < clocks * b * (g.divisor + 2)

LEMMA GeneratorOf ==
  ASSUME NEW b \in Nat \ {0}, Fits(DivisorHigh(b)) \/ Fits(DivisorLow(b))
  PROVE  /\ Generator(b) \in [high : BOOLEAN, divisor : 0 .. BRG_MAX]
         /\ AtRate(Generator(b), b)
<1>1. CLOCK \in Nat /\ BRG_MAX \in Nat
  BY UsartAssumption DEF UsartAssumption
<1>2. CLOCK \div b \in Nat
  BY <1>1, Quotient
<1>3. DivisorHigh(b) \in Int /\ DivisorLow(b) \in Int
  BY <1>2 DEF DivisorHigh, DivisorLow
<1>4. /\ 4 * b * (DivisorHigh(b) + 1) <= CLOCK /\ CLOCK < 4 * b * (DivisorHigh(b) + 2)
      /\ 16 * b * (DivisorLow(b) + 1) <= CLOCK /\ CLOCK < 16 * b * (DivisorLow(b) + 2)
  BY <1>3, RateOf DEF DivisorHigh, DivisorLow
<1>5. CASE Fits(DivisorHigh(b))
  <2>1. Generator(b) = [high |-> TRUE, divisor |-> DivisorHigh(b)]
    BY <1>5 DEF Generator
  <2> QED BY <1>1, <1>3, <1>4, <1>5, <2>1 DEF Fits, AtRate
<1>6. CASE ~Fits(DivisorHigh(b))
  <2>1. Generator(b) = [high |-> FALSE, divisor |-> DivisorLow(b)] /\ Fits(DivisorLow(b))
    BY <1>6 DEF Generator
  <2> QED BY <1>1, <1>3, <1>4, <2>1 DEF Fits, AtRate
<1> QED BY <1>5, <1>6

LEMMA InitialRate ==
  ASSUME NEW u \in USARTs
  PROVE  /\ INITIAL_BAUD[u] \in Nat \ {0} /\ Fits(DivisorHigh(INITIAL_BAUD[u]))
         /\ Generator(INITIAL_BAUD[u])
              = [high |-> TRUE, divisor |-> DivisorHigh(INITIAL_BAUD[u])]
         /\ Generator(INITIAL_BAUD[u]) \in [high : BOOLEAN, divisor : 0 .. BRG_MAX]
         /\ AtRate(Generator(INITIAL_BAUD[u]), INITIAL_BAUD[u])
<1>1. INITIAL_BAUD[u] \in Nat \ {0} /\ Fits(DivisorHigh(INITIAL_BAUD[u]))
  BY UsartAssumption DEF UsartAssumption
<1> QED BY <1>1, GeneratorOf DEF Generator

-----------------------------------------------------------------------------
(* Types.                                                                  *)

LEMMA Fifos ==
  ASSUME TypeOK, NEW u \in USARTs
  PROVE  /\ rx[u] \in Seq(Incoming) /\ Len(rx[u]) <= FIFO_DEPTH
         /\ tx[u] \in Seq(STRING) /\ Len(tx[u]) <= TX_DEPTH
         /\ FIFO_DEPTH \in Nat \ {0} /\ TX_DEPTH \in Nat \ {0}
         /\ \A s \in Seq(Incoming) : Len(s) <= FIFO_DEPTH =>
              [rx EXCEPT ![u] = s] \in [USARTs -> BoundedSeq(Incoming, FIFO_DEPTH)]
         /\ \A s \in Seq(STRING) : Len(s) <= TX_DEPTH =>
              /\ [tx EXCEPT ![u] = s] \in [USARTs -> Seq(STRING)]
              /\ \A v \in USARTs : Len([tx EXCEPT ![u] = s][v]) <= TX_DEPTH
<1>1. FIFO_DEPTH \in Nat \ {0} /\ TX_DEPTH \in Nat \ {0}
  BY UsartAssumption DEF UsartAssumption
<1>2. rx[u] \in BoundedSeq(Incoming, FIFO_DEPTH)
  BY DEF TypeOK
<1>3. rx[u] \in Seq(Incoming) /\ Len(rx[u]) <= FIFO_DEPTH
  BY <1>1, <1>2, FifoIsSeq
<1>4. ASSUME NEW s \in Seq(Incoming), Len(s) <= FIFO_DEPTH
      PROVE  [rx EXCEPT ![u] = s] \in [USARTs -> BoundedSeq(Incoming, FIFO_DEPTH)]
  <2>1. s \in BoundedSeq(Incoming, FIFO_DEPTH)
    BY <1>1, <1>4, FifoIsSeq
  <2> QED BY <2>1 DEF TypeOK
<1>5. ASSUME NEW s \in Seq(STRING), Len(s) <= TX_DEPTH
      PROVE  /\ [tx EXCEPT ![u] = s] \in [USARTs -> Seq(STRING)]
             /\ \A v \in USARTs : Len([tx EXCEPT ![u] = s][v]) <= TX_DEPTH
  BY <1>5 DEF TypeOK
<1> QED BY <1>1, <1>3, <1>4, <1>5 DEF TypeOK

LEMMA EmptiedFifos ==
  ASSUME TypeOK, NEW u \in USARTs
  PROVE  /\ [rx EXCEPT ![u] = <<>>] \in [USARTs -> BoundedSeq(Incoming, FIFO_DEPTH)]
         /\ [tx EXCEPT ![u] = <<>>] \in [USARTs -> Seq(STRING)]
         /\ \A v \in USARTs : Len([tx EXCEPT ![u] = <<>>][v]) <= TX_DEPTH
<1>1. /\ <<>> \in Seq(Incoming) /\ Len(<<>>) <= FIFO_DEPTH
      /\ <<>> \in Seq(STRING) /\ Len(<<>>) <= TX_DEPTH
  BY Fifos, EmptySeq
<1> QED BY <1>1, Fifos

LEMMA InitIInv == Init => IInv
<1> SUFFICES ASSUME Init PROVE IInv
  OBVIOUS
<1> USE DEF Init
<1>1. /\ FIFO_DEPTH \in Nat \ {0} /\ TX_DEPTH \in Nat \ {0} /\ LINE_8N1 \in LineModes
      /\ INITIAL_BAUD \in [USARTs -> Nat \ {0}]
  BY UsartAssumption DEF UsartAssumption
<1>2. /\ <<>> \in Seq(STRING) /\ <<>> \in Seq(Incoming) /\ Len(<<>>) = 0
      /\ <<>> \o <<>> = <<>>
  BY EmptySeq, ConcatEmptySeq
<1>3. <<>> \in BoundedSeq(Incoming, FIFO_DEPTH)
  <2>1. FIFO_DEPTH \in Nat /\ <<>> \in Seq(Incoming) /\ Len(<<>>) <= FIFO_DEPTH
    BY <1>1, <1>2
  <2> QED BY ONLY <2>1, FifoIsSeq
<1>4. TypeOK
  <2>1. setting \in Settings /\ handle \in Handles
    BY <1>1 DEF Settings, Handles
  <2>2. brg \in [USARTs -> [high : BOOLEAN, divisor : 0 .. BRG_MAX]]
    BY InitialRate
  <2>3. /\ rx \in [USARTs -> BoundedSeq(Incoming, FIFO_DEPTH)]
        /\ tx \in [USARTs -> Seq(STRING)] /\ \A u \in USARTs : Len(tx[u]) <= TX_DEPTH
    BY <1>1, <1>2, <1>3
  <2>4. msg \in Messages \union {<<>>} /\ tx_count \in 0 .. Len(msg)
    BY <1>2
  <2>5. RXlength \in 0 .. (FIFO_DEPTH + 1)
    BY <1>1
  <2>6. /\ isEnabled \in BOOLEAN /\ hasBusyStatus \in BOOLEAN
        /\ up \in [USARTs -> BOOLEAN] /\ on \in [USARTs -> BOOLEAN]
        /\ stopping \in [USARTs -> BOOLEAN] /\ oerr \in [USARTs -> BOOLEAN]
        /\ line \in [USARTs -> LineModes]
    BY <1>1, Zenon
  <2>7. baud \in [USARTs -> Nat] /\ \A u \in USARTs : baud[u] \in Rates \union {INITIAL_BAUD[u]}
    BY <1>1
  <2>8. pc \in {"rest", "send", "read", "clear", "quiet", "set", "enable"}
    OBVIOUS
  <2> QED BY ONLY <2>1, <2>2, <2>3, <2>4, <2>5, <2>6, <2>7, <2>8 DEF TypeOK
<1>5. Place /\ SentInOrder /\ ReceivedInOrder
  BY <1>2 DEF Place, SentInOrder, ReceivedInOrder
<1>6. RunsAtBaud
  BY InitialRate DEF RunsAtBaud, AtRate
<1>7. Enabled /\ AtRest
  BY DEF Enabled, AtRest
<1> QED BY <1>4, <1>5, <1>6, <1>7 DEF IInv

-----------------------------------------------------------------------------
(* The type invariant, by what a step may change together.                 *)

ClientOK ==
  /\ pc \in {"rest", "send", "read", "clear", "quiet", "set", "enable"}
  /\ handle \in Handles /\ msg \in Messages \union {<<>>} /\ tx_count \in 0 .. Len(msg)
  /\ RXlength \in 0 .. (FIFO_DEPTH + 1)
  /\ setting \in Settings

PowerOK ==
  /\ isEnabled \in BOOLEAN /\ hasBusyStatus \in BOOLEAN
  /\ up \in [USARTs -> BOOLEAN] /\ on \in [USARTs -> BOOLEAN]
  /\ stopping \in [USARTs -> BOOLEAN] /\ oerr \in [USARTs -> BOOLEAN]

RatesOK ==
  /\ line \in [USARTs -> LineModes]
  /\ brg \in [USARTs -> [high : BOOLEAN, divisor : 0 .. BRG_MAX]]
  /\ baud \in [USARTs -> Nat] /\ \A u \in USARTs : baud[u] \in Rates \union {INITIAL_BAUD[u]}

TransmitOK == tx \in [USARTs -> Seq(STRING)] /\ \A u \in USARTs : Len(tx[u]) <= TX_DEPTH
ReceiveOK  == rx \in [USARTs -> BoundedSeq(Incoming, FIFO_DEPTH)]

LEMMA TypeParts ==
  /\ TypeOK <=> ClientOK /\ PowerOK /\ RatesOK /\ TransmitOK /\ ReceiveOK
  /\ TypeOK' <=> ClientOK' /\ PowerOK' /\ RatesOK' /\ TransmitOK' /\ ReceiveOK'
<1>1. TypeOK <=> ClientOK /\ PowerOK /\ RatesOK /\ TransmitOK /\ ReceiveOK
  BY Zenon DEF TypeOK, ClientOK, PowerOK, RatesOK, TransmitOK, ReceiveOK
<1>2. TypeOK' <=> ClientOK' /\ PowerOK' /\ RatesOK' /\ TransmitOK' /\ ReceiveOK'
  BY Zenon DEF TypeOK, ClientOK, PowerOK, RatesOK, TransmitOK, ReceiveOK
<1> QED BY <1>1, <1>2

-----------------------------------------------------------------------------
(* The settings: Set changes them, with success or not, and so does the    *)
(* initialisation.                                                         *)

LEMMA WhoSets ==
  [Next]_vars => Set \/ (\E u \in USARTs : DRV_USARTn_Initialize(u)) \/ UNCHANGED settingVars
<1> SUFFICES ASSUME [Next]_vars, ~Set
             PROVE  (\E u \in USARTs : DRV_USARTn_Initialize(u)) \/ UNCHANGED settingVars
  OBVIOUS
<1>1. CASE UNCHANGED vars
  BY <1>1 DEF vars
<1>2. CASE Continue
  BY <1>2 DEF Continue, SendMsgLoop, PollRead, ErrorConditionClearLoop, SetWait, SetReturn
<1>3. CASE Call
  BY <1>3 DEF Call, SendMsg, Poll, SetBegin, _DRV_USART_ErrorConditionClear,
              DRV_USART_Initialize, DRV_USART_Deinitialize, DRV_USARTn_Deinitialize
<1>4. CASE \E u \in USARTs : Hardware(u)
  BY <1>4 DEF Hardware, ByteArrives, ByteLeaves, ComesToRest
<1> QED BY <1>1, <1>2, <1>3, <1>4 DEF Next

LEMMA RatesStep ==
  ClientOK /\ Place /\ RatesOK /\ RunsAtBaud /\ [Next]_vars => RatesOK' /\ RunsAtBaud'
<1> SUFFICES ASSUME ClientOK, Place, RatesOK, RunsAtBaud, [Next]_vars
             PROVE  RatesOK' /\ RunsAtBaud'
  OBVIOUS
<1> USE DEF RatesOK
<1>1. ASSUME NEW u \in USARTs, NEW b \in Nat \ {0}, b \in Rates \union {INITIAL_BAUD[u]},
             Generator(b) \in [high : BOOLEAN, divisor : 0 .. BRG_MAX],
             AtRate(Generator(b), b),
             brg' = [brg EXCEPT ![u] = Generator(b)], baud' = [baud EXCEPT ![u] = b]
      PROVE  /\ brg' \in [USARTs -> [high : BOOLEAN, divisor : 0 .. BRG_MAX]]
             /\ baud' \in [USARTs -> Nat]
             /\ \A v \in USARTs : baud'[v] \in Rates \union {INITIAL_BAUD[v]}
             /\ RunsAtBaud'
  <2> HIDE DEF RatesOK
  <2>1. /\ brg' \in [USARTs -> [high : BOOLEAN, divisor : 0 .. BRG_MAX]]
        /\ baud' \in [USARTs -> Nat]
        /\ \A v \in USARTs : baud'[v] \in Rates \union {INITIAL_BAUD[v]}
    BY <1>1 DEF RatesOK
  <2>2. ASSUME NEW v \in USARTs PROVE AtRate(brg'[v], baud'[v])
    <3>1. CASE v = u
      BY <1>1, <3>1 DEF RatesOK
    <3>2. CASE v # u
      <4>1. brg'[v] = brg[v] /\ baud'[v] = baud[v]
        BY <1>1, <3>2 DEF RatesOK
      <4> QED BY <4>1 DEF RunsAtBaud, AtRate
    <3> QED BY <3>1, <3>2
  <2> QED BY <2>1, <2>2 DEF RunsAtBaud, AtRate
<1>2. CASE UNCHANGED settingVars
  BY <1>2 DEF settingVars, RunsAtBaud
<1>3. CASE Set
  <2>1. handle \in USARTs /\ setting \in Settings
    BY <1>3 DEF Set, Place, ClientOK
  <2>2. CASE setting.kind = "line"
    <3>1. setting.value \in LineModes
      BY <2>1, <2>2 DEF Settings
    <3> QED BY <1>3, <2>1, <2>2, <3>1 DEF Set, RunsAtBaud
  <2>3. CASE setting.kind # "line" /\ setting.value \in Rates
    <3>1. /\ setting.value \in Nat \ {0}
          /\ Fits(DivisorHigh(setting.value)) \/ Fits(DivisorLow(setting.value))
      BY <2>3, UsartAssumption DEF UsartAssumption, Rates
    <3>2. /\ brg' = [brg EXCEPT ![handle] = Generator(setting.value)]
          /\ baud' = [baud EXCEPT ![handle] = setting.value] /\ line' = line
      BY <1>3, <2>3 DEF Set
    <3> QED BY <1>1, <2>1, <2>3, <3>1, <3>2, GeneratorOf
  <2>4. CASE setting.kind # "line" /\ setting.value \notin Rates
    BY <1>3, <2>4 DEF Set, RunsAtBaud
  <2> QED BY <2>2, <2>3, <2>4
<1>4. ASSUME NEW u \in USARTs, DRV_USARTn_Initialize(u) PROVE RatesOK' /\ RunsAtBaud'
  <2>1. LINE_8N1 \in LineModes
    BY UsartAssumption DEF UsartAssumption
  <2>2. line' \in [USARTs -> LineModes]
    BY <1>4, <2>1 DEF DRV_USARTn_Initialize
  <2> QED BY <1>1, <1>4, <2>2, InitialRate DEF DRV_USARTn_Initialize
<1> QED BY <1>2, <1>3, <1>4, WhoSets

-----------------------------------------------------------------------------
(* Transmission: sendMsg and the USART move bytes, a call that stops or    *)
(* initialises a USART drops all of them, and nothing else touches them.   *)

DueOK == due \in [USARTs -> Seq(STRING)]

Emptied(u) ==
  /\ pc = "rest"
  /\ tx' = [tx EXCEPT ![u] = <<>>] /\ due' = [due EXCEPT ![u] = <<>>]
  /\ rx' = [rx EXCEPT ![u] = <<>>] /\ pending' = [pending EXCEPT ![u] = <<>>]
  /\ pc' \notin {"send", "read"}

LEMMA WhoEmpties ==
  /\ \A u \in USARTs : DRV_USART_Initialize(u) \/ DRV_USART_Deinitialize(u) => Emptied(u)
  /\ SetBegin => (\E u \in USARTs : Emptied(u)) \/ (pc' = "set" /\ UNCHANGED <<powerVars, fifoVars>>)
BY DEF Emptied, DRV_USART_Initialize, DRV_USART_Deinitialize, DRV_USARTn_Initialize,
       DRV_USARTn_Deinitialize, Disable, SetBegin, Stop, clientVars

LEMMA WhoSends ==
  [Next]_vars =>
    \/ SendMsg \/ SendMsgLoop
    \/ \E u \in USARTs : ByteLeaves(u) \/ Emptied(u)
    \/ /\ UNCHANGED <<tx, due>> /\ (pc' = "send" <=> pc = "send")
       /\ pc = "send" => UNCHANGED <<handle, msg, tx_count>>
<1> SUFFICES ASSUME [Next]_vars, ~SendMsg, ~SendMsgLoop,
                    ~\E u \in USARTs : ByteLeaves(u) \/ Emptied(u)
             PROVE  /\ UNCHANGED <<tx, due>> /\ (pc' = "send" <=> pc = "send")
                    /\ pc = "send" => UNCHANGED <<handle, msg, tx_count>>
  OBVIOUS
<1> USE DEF clientVars, fifoVars
<1>1. CASE UNCHANGED vars
  BY <1>1 DEF vars
<1>2. CASE Continue
  BY <1>2 DEF Continue, PollRead, ErrorConditionClearLoop, SetWait, Set, SetReturn
<1>3. CASE Poll \/ \E u \in USARTs : _DRV_USART_ErrorConditionClear(u)
  BY <1>3 DEF Poll, _DRV_USART_ErrorConditionClear
<1>4. CASE SetBegin
  BY <1>4, WhoEmpties DEF SetBegin
<1>5. CASE \E u \in USARTs : DRV_USART_Initialize(u) \/ DRV_USART_Deinitialize(u)
  BY <1>5, WhoEmpties
<1>6. CASE \E u \in USARTs : Hardware(u)
  BY <1>6 DEF Hardware, ByteArrives, ComesToRest
<1> QED BY <1>1, <1>2, <1>3, <1>4, <1>5, <1>6 DEF Next, Call

LEMMA MsgIsSeq ==
  TypeOK => msg \in Seq(STRING) /\ Len(msg) \in Nat /\ tx_count \in Nat /\ tx_count <= Len(msg)
<1> SUFFICES ASSUME TypeOK
             PROVE  msg \in Seq(STRING) /\ Len(msg) \in Nat
                    /\ tx_count \in Nat /\ tx_count <= Len(msg)
  OBVIOUS
<1>1. <<>> \in Seq(STRING)
  BY EmptySeq
<1>2. Messages \subseteq Seq(STRING)
  BY UsartAssumption DEF UsartAssumption
<1>3. msg \in Messages \union {<<>>} /\ tx_count \in 0 .. Len(msg)
  BY Zenon DEF TypeOK
<1>4. msg \in Seq(STRING)
  BY <1>1, <1>2, <1>3, Zenon
<1>5. Len(msg) \in Nat
  BY <1>4, LenProperties
<1> QED BY <1>3, <1>4, <1>5

\* What sendMsg has still to write.
LEMMA Remaining ==
  ASSUME TypeOK, NEW v
  PROVE  (IF pc = "send" /\ Instance(handle) = v
          THEN SubSeq(msg, tx_count + 1, Len(msg)) ELSE <<>>) \in Seq(STRING)
<1>1. <<>> \in Seq(STRING) /\ msg \in Seq(STRING) /\ Len(msg) \in Nat /\ tx_count \in Nat
  BY MsgIsSeq, EmptySeq
<1>2. \A i \in tx_count + 1 .. Len(msg) : msg[i] \in STRING
  BY <1>1, ElementOfSeq
<1>3. SubSeq(msg, tx_count + 1, Len(msg)) \in Seq(STRING)
  BY <1>1, <1>2, SubSeqProperties
<1> QED BY <1>1, <1>3

LEMMA TransmitStep ==
  IInv /\ [Next]_vars => TransmitOK' /\ DueOK' /\ SentInOrder'
<1> SUFFICES ASSUME IInv, [Next]_vars PROVE TransmitOK' /\ DueOK' /\ SentInOrder'
  OBVIOUS
<1>1. TypeOK /\ TransmitOK /\ DueOK /\ SentInOrder
  BY TypeParts DEF IInv, Place, DueOK
<1>2. CASE UNCHANGED <<tx, due>> /\ (pc' = "send" <=> pc = "send")
           /\ (pc = "send" => UNCHANGED <<handle, msg, tx_count>>)
  BY <1>1, <1>2 DEF TransmitOK, DueOK, SentInOrder
<1>3. ASSUME NEW u \in USARTs, Emptied(u) PROVE TransmitOK' /\ DueOK' /\ SentInOrder'
  <2>1. <<>> \in Seq(STRING) /\ <<>> \o <<>> = <<>>
    BY EmptySeq, ConcatEmptySeq
  <2>2. TransmitOK'
    BY <1>1, <1>3, EmptiedFifos DEF TransmitOK, Emptied
  <2>3. DueOK'
    BY <1>1, <1>3, <2>1 DEF DueOK, Emptied
  <2>4. ASSUME NEW v \in USARTs PROVE due'[v] = tx'[v] \o <<>>
    <3>1. due[v] = tx[v] \o <<>>
      BY <1>1, <1>3 DEF SentInOrder, Emptied
    <3> QED BY <1>1, <1>3, <2>1, <3>1 DEF TransmitOK, DueOK, Emptied
  <2> QED BY <1>3, <2>2, <2>3, <2>4 DEF SentInOrder, Emptied
<1>4. ASSUME NEW u \in USARTs, ByteLeaves(u) PROVE TransmitOK' /\ DueOK' /\ SentInOrder'
  <2> DEFINE rest(v) == IF pc = "send" /\ Instance(handle) = v
                        THEN SubSeq(msg, tx_count + 1, Len(msg)) ELSE <<>>
  <2>1. /\ tx[u] \in Seq(STRING) /\ tx[u] # <<>> /\ Len(tx[u]) <= TX_DEPTH
        /\ Tail(tx[u]) \in Seq(STRING) /\ Len(Tail(tx[u])) = Len(tx[u]) - 1
        /\ Len(tx[u]) \in Nat \ {0} /\ TX_DEPTH \in Nat \ {0}
    BY <1>1, <1>4, TailOf, Fifos DEF ByteLeaves
  <2>2. TransmitOK'
    <3>1. Len(Tail(tx[u])) <= TX_DEPTH
      BY <2>1
    <3> QED BY <1>1, <1>4, <2>1, <3>1, Fifos DEF TransmitOK, ByteLeaves
  <2>3. \A v \in USARTs : due[v] = tx[v] \o rest(v) /\ rest(v) \in Seq(STRING)
    BY <1>1, Remaining DEF SentInOrder
  <2> HIDE DEF rest
  <2>4. Tail(due[u]) = Tail(tx[u]) \o rest(u) /\ Tail(due[u]) \in Seq(STRING)
    <3>1. Tail(tx[u] \o rest(u)) = Tail(tx[u]) \o rest(u)
      BY <2>1, <2>3, TailOfConcat, Zenon
    <3>2. Tail(tx[u]) \o rest(u) \in Seq(STRING)
      BY <2>1, <2>3, ConcatProperties, Zenon
    <3> QED BY <2>3, <3>1, <3>2
  <2>5. DueOK'
    BY <1>1, <1>4, <2>4 DEF DueOK, ByteLeaves
  <2>6. \A v \in USARTs : due'[v] = tx'[v] \o rest(v)
    BY <1>1, <1>4, <2>3, <2>4 DEF TransmitOK, DueOK, ByteLeaves
  <2>7. SentInOrder'
    BY <1>4, <2>6 DEF SentInOrder, ByteLeaves, clientVars, rest
  <2> QED BY <2>2, <2>5, <2>7
<1>5. CASE SendMsg
  <2>1. PICK h \in Handles, m \in Messages :
          pc' = "send" /\ handle' = h /\ msg' = m /\ due' = Owe(h, m) /\ tx_count' = 0
    BY <1>5 DEF SendMsg
  <2>2. tx' = tx /\ pc = "rest"
    BY <1>5 DEF SendMsg
  <2>3. m \in Seq(STRING) /\ SubSeq(m, 0 + 1, Len(m)) = m
    <3>1. m \in Seq(STRING)
      BY UsartAssumption DEF UsartAssumption
    <3> QED BY <3>1, SubSeqFull
  <2>4. \A v \in USARTs : due[v] = tx[v]
    <3>1. \A v \in USARTs : due[v] = tx[v] \o <<>>
      BY <1>1, <2>2 DEF SentInOrder
    <3> QED BY <1>1, <3>1, ConcatEmptySeq DEF TransmitOK
  <2>5. ASSUME NEW v \in USARTs
        PROVE  due'[v] \in Seq(STRING)
               /\ due'[v] = tx'[v] \o (IF Instance(h) = v THEN m ELSE <<>>)
    <3>1. tx[v] \in Seq(STRING) /\ tx[v] \o m \in Seq(STRING) /\ tx[v] \o <<>> = tx[v]
      BY <1>1, <2>3, ConcatProperties, ConcatEmptySeq DEF TransmitOK
    <3> QED BY <2>1, <2>2, <2>4, <3>1 DEF Owe
  <2>6. DueOK'
    BY <2>1, <2>5 DEF DueOK, Owe
  <2>7. SentInOrder'
    BY <2>1, <2>3, <2>5 DEF SentInOrder
  <2> QED BY <1>1, <2>2, <2>6, <2>7 DEF TransmitOK
<1>6. CASE SendMsgLoop
  <2> DEFINE i == Instance(handle)
             rest(n) == IF n = Len(msg) THEN <<>> ELSE SubSeq(msg, n + 1, Len(msg))
  <2>1. /\ pc = "send" /\ msg \in Seq(STRING) /\ Len(msg) \in Nat /\ tx_count \in Nat
        /\ tx_count < Len(msg) /\ due' = due /\ handle' = handle /\ msg' = msg
        /\ pc' = IF tx_count' = Len(msg) THEN "rest" ELSE "send"
    BY <1>1, <1>6, MsgIsSeq DEF SendMsgLoop, IInv, Place
  <2>2. CASE DRV_USART_TransmitBufferIsFull(handle)
    <3>1. tx' = tx /\ tx_count' = tx_count
      BY <1>6, <2>2 DEF SendMsgLoop
    <3>2. pc' = "send"
      BY <2>1, <3>1
    <3> QED BY <1>1, <2>1, <3>1, <3>2, Zenon DEF TransmitOK, DueOK, SentInOrder
  <2>3. CASE ~DRV_USART_TransmitBufferIsFull(handle)
    <3> DEFINE b == msg[tx_count + 1]
    <3>1. tx_count' = tx_count + 1 /\ DRV_USART_WriteByte(handle, b)
      BY <1>6, <2>3 DEF SendMsgLoop
    <3>2. SubSeq(msg, tx_count' + 1, Len(msg)) = rest(tx_count')
      BY <2>1, <3>1, SubSeqEmpty
    <3>3. CASE ~Valid(handle)
      <4>1. tx' = tx
        BY <3>1, <3>3 DEF DRV_USART_WriteByte
      <4>2. \A v \in USARTs : i # v
        BY <3>3 DEF Valid
      <4> QED BY <1>1, <2>1, <4>1, <4>2 DEF TransmitOK, DueOK, SentInOrder
    <3>4. CASE Valid(handle)
      <4>1. i \in USARTs /\ tx[i] \in Seq(STRING) /\ Len(tx[i]) <= TX_DEPTH
            /\ Len(tx[i]) \in Nat /\ TX_DEPTH \in Nat \ {0}
        BY <1>1, <3>4, Fifos, LenProperties DEF Valid
      <4>2. tx' = [tx EXCEPT ![i] = Append(tx[i], b)] /\ Len(tx[i]) < TX_DEPTH
        BY <2>3, <3>1, <3>4, <4>1 DEF DRV_USART_WriteByte, WriteByte,
              DRV_USART_TransmitBufferIsFull, TransmitBufferIsFull
      <4>3. /\ Append(tx[i], b) \in Seq(STRING) /\ Len(Append(tx[i], b)) = Len(tx[i]) + 1
            /\ tx[i] \o SubSeq(msg, tx_count + 1, Len(msg))
                 = Append(tx[i], b) \o SubSeq(msg, (tx_count + 1) + 1, Len(msg))
        <5>1. \A t, m \in Seq(STRING), n \in Nat : n < Len(m) =>
                /\ Append(t, m[n + 1]) \in Seq(STRING)
                /\ Len(Append(t, m[n + 1])) = Len(t) + 1
                /\ t \o SubSeq(m, n + 1, Len(m))
                     = Append(t, m[n + 1]) \o SubSeq(m, (n + 1) + 1, Len(m))
          BY Written
        <5> QED BY <2>1, <4>1, <5>1, Zenon
      <4>4. Len(Append(tx[i], b)) <= TX_DEPTH
        BY <4>1, <4>2, <4>3
      <4> HIDE DEF b
      <4>5. TransmitOK'
        BY <1>1, <4>1, <4>2, <4>3, <4>4, Fifos DEF TransmitOK
      <4>6. ASSUME NEW v \in USARTs
            PROVE  due'[v] = tx'[v] \o (IF pc' = "send" /\ Instance(handle') = v
                              THEN SubSeq(msg', tx_count' + 1, Len(msg')) ELSE <<>>)
        <5>1. due[v] = tx[v] \o (IF i = v THEN SubSeq(msg, tx_count + 1, Len(msg)) ELSE <<>>)
          BY <1>1, <2>1 DEF SentInOrder
        <5>2. (IF pc' = "send" /\ Instance(handle') = v
               THEN SubSeq(msg', tx_count' + 1, Len(msg')) ELSE <<>>)
               = IF i = v THEN SubSeq(msg, (tx_count + 1) + 1, Len(msg)) ELSE <<>>
          BY <2>1, <3>1, <3>2
        <5> HIDE DEF i
        <5>3. CASE i = v
          BY <1>1, <2>1, <4>1, <4>2, <4>3, <5>1, <5>2, <5>3 DEF TransmitOK
        <5>4. CASE i # v
          <6>1. tx'[v] = tx[v]
            BY <1>1, <4>1, <4>2, <5>4 DEF TransmitOK
          <6> QED BY <2>1, <5>1, <5>2, <5>4, <6>1
        <5> QED BY <5>3, <5>4
      <4>7. SentInOrder'
        BY <4>6 DEF SentInOrder
      <4> QED BY <1>1, <2>1, <4>5, <4>7 DEF DueOK
    <3> QED BY <3>3, <3>4
  <2> QED BY <2>2, <2>3
<1> QED BY <1>2, <1>3, <1>4, <1>5, <1>6, WhoSends

-----------------------------------------------------------------------------
(* Reception: the USART puts bytes into the FIFO, waitForResponse and the  *)
(* clearing of errors take them out, one at a time or all.                 *)

Discarded ==   \* an overrun or a bad byte is cleared
  \/ \E u \in USARTs :
       rx' = [rx EXCEPT ![u] = <<>>] /\ pending' = [pending EXCEPT ![u] = <<>>]
  \/ /\ pc = "clear" /\ rx[handle] # <<>>
     /\ rx' = [rx EXCEPT ![handle] = Tail(rx[handle])]
     /\ pending' = [pending EXCEPT ![handle] = Tail(pending[handle])]

LEMMA WhoReceives ==
  [Next]_vars =>
    \/ PollRead \/ \E u \in USARTs : ByteArrives(u)
    \/ Discarded /\ pc' # "read"
    \/ /\ UNCHANGED <<rx, pending>>
       /\ pc' = "read" => Poll \/ (pc = "read" /\ UNCHANGED handle)
<1> SUFFICES ASSUME [Next]_vars, ~PollRead, ~\E u \in USARTs : ByteArrives(u)
             PROVE  \/ Discarded /\ pc' # "read"
                    \/ /\ UNCHANGED <<rx, pending>>
                       /\ pc' = "read" => Poll \/ (pc = "read" /\ UNCHANGED handle)
  OBVIOUS
<1> USE DEF clientVars, fifoVars
<1>1. CASE UNCHANGED vars
  BY <1>1 DEF vars
<1>2. CASE SendMsgLoop \/ SetWait \/ Set \/ SetReturn
  BY <1>2 DEF SendMsgLoop, SetWait, Set, SetReturn
<1>3. CASE ErrorConditionClearLoop
  <2>1. CASE ParityOrFraming(handle)
    BY <1>3, <2>1 DEF ErrorConditionClearLoop, ParityOrFraming, ReadByte, Discarded
  <2>2. CASE ~ParityOrFraming(handle)
    BY <1>3, <2>2 DEF ErrorConditionClearLoop
  <2> QED BY <2>1, <2>2
<1>4. CASE SendMsg \/ Poll
  BY <1>4 DEF SendMsg, Poll
<1>5. CASE SetBegin
  BY <1>5, WhoEmpties DEF SetBegin, Emptied, Discarded
<1>6. ASSUME NEW u \in USARTs, _DRV_USART_ErrorConditionClear(u)
      PROVE  (Discarded \/ UNCHANGED <<rx, pending>>) /\ pc' # "read"
  BY <1>6 DEF _DRV_USART_ErrorConditionClear, Discarded
<1>7. CASE \E u \in USARTs : DRV_USART_Initialize(u) \/ DRV_USART_Deinitialize(u)
  BY <1>7, WhoEmpties DEF Emptied, Discarded
<1>8. CASE \E u \in USARTs : Hardware(u)
  BY <1>8 DEF Hardware, ByteLeaves, ComesToRest
<1> QED BY <1>1, <1>2, <1>3, <1>4, <1>5, <1>6, <1>7, <1>8 DEF Next, Continue, Call

LEMMA ReceiveStep ==
  IInv /\ [Next]_vars => ReceiveOK' /\ ReceivedInOrder'
<1> SUFFICES ASSUME IInv, [Next]_vars PROVE ReceiveOK' /\ ReceivedInOrder'
  OBVIOUS
<1>1. TypeOK /\ ReceiveOK /\ pending = rx
      /\ (pc = "read" /\ Valid(handle) => rx[Instance(handle)] # <<>>)
  BY TypeParts DEF IInv, ReceivedInOrder
<1>2. CASE /\ UNCHANGED <<rx, pending>>
           /\ pc' = "read" => Poll \/ (pc = "read" /\ UNCHANGED handle)
  <2>1. CASE pc' = "read" /\ Poll
    BY <1>1, <1>2, <2>1 DEF Poll, ReceiveOK, ReceivedInOrder,
          DRV_USART_ReceiverBufferIsEmpty, ReceiverBufferIsEmpty, Valid
  <2>2. CASE pc' # "read" \/ (pc = "read" /\ UNCHANGED handle)
    BY <1>1, <1>2, <2>2 DEF ReceiveOK, ReceivedInOrder, Valid
  <2> QED BY <1>2, <2>1, <2>2
<1>3. CASE Discarded /\ pc' # "read"
  <2>0. PICK u \in USARTs : \E s :
          /\ rx' = [rx EXCEPT ![u] = s] /\ pending' = [pending EXCEPT ![u] = s]
          /\ s = <<>> \/ (rx[u] # <<>> /\ s = Tail(rx[u]))
    BY <1>1, <1>3 DEF Discarded, IInv, Place
  <2>1. PICK s : /\ rx' = [rx EXCEPT ![u] = s] /\ pending' = [pending EXCEPT ![u] = s]
                 /\ s = <<>> \/ (rx[u] # <<>> /\ s = Tail(rx[u]))
    BY <2>0
  <2>2. s \in Seq(Incoming) /\ Len(s) <= FIFO_DEPTH
    <3>1. CASE s = <<>>
      BY <1>1, <3>1, EmptySeq, Fifos
    <3>2. CASE rx[u] # <<>> /\ s = Tail(rx[u])
      BY <1>1, <3>2, TailOf, Fifos
    <3> QED BY <2>1, <3>1, <3>2
  <2>3. [rx EXCEPT ![u] = s] \in [USARTs -> BoundedSeq(Incoming, FIFO_DEPTH)]
    BY <1>1, <2>2, Fifos
  <2>4. pending' = rx'
    BY <1>1, <2>1
  <2>5. ReceiveOK'
    BY <2>1, <2>3 DEF ReceiveOK
  <2>6. ReceivedInOrder'
    BY <1>3, <2>4 DEF ReceivedInOrder
  <2> QED BY <2>5, <2>6
<1>4. ASSUME NEW u \in USARTs, ByteArrives(u) PROVE ReceiveOK' /\ ReceivedInOrder'
  <2>1. handle' = handle /\ pc' = pc
    BY <1>4 DEF ByteArrives, clientVars
  <2>2. CASE UNCHANGED <<rx, pending>>
    BY <1>1, <2>1, <2>2 DEF ReceiveOK, ReceivedInOrder, Valid
  <2>3. CASE ~UNCHANGED <<rx, pending>>
    <3>1. PICK b \in Incoming :
            /\ Len(rx[u]) < FIFO_DEPTH
            /\ rx' = [rx EXCEPT ![u] = Append(rx[u], b)]
            /\ pending' = [pending EXCEPT ![u] = Append(pending[u], b)]
      BY <1>4, <2>3 DEF ByteArrives
    <3>2. /\ Append(rx[u], b) \in Seq(Incoming) /\ Append(rx[u], b) # <<>>
          /\ Len(Append(rx[u], b)) = Len(rx[u]) + 1
          /\ Len(rx[u]) \in Nat /\ FIFO_DEPTH \in Nat
      BY <1>1, Fifos, AppendProperties, LenProperties
    <3>3. Len(Append(rx[u], b)) <= FIFO_DEPTH
      BY <3>1, <3>2
    <3>4. ReceiveOK'
      BY <1>1, <3>1, <3>2, <3>3, Fifos DEF ReceiveOK
    <3>5. \A v \in USARTs : rx[v] # <<>> => rx'[v] # <<>>
      BY <1>1, <3>1, <3>2 DEF ReceiveOK
    <3>6. pending' = rx'
      BY <1>1, <3>1
    <3>7. pc' = "read" /\ Valid(handle') => rx'[Instance(handle')] # <<>>
      BY <1>1, <2>1, <3>5 DEF Valid
    <3> QED BY <3>4, <3>6, <3>7 DEF ReceivedInOrder
  <2> QED BY <2>2, <2>3
<1>5. CASE PollRead
  <2> DEFINE i == Instance(handle)
  <2>1. /\ DRV_USART_ReadByte(handle) /\ pc = "read" /\ pc' = "rest"
        /\ pending' = [u \in USARTs |-> IF u = i /\ rx[u] # <<>> THEN Tail(rx[u]) ELSE rx[u]]
    BY <1>1, <1>5 DEF PollRead
  <2>2. CASE Valid(handle)
    <3>1. i \in USARTs /\ rx[i] # <<>> /\ rx' = [rx EXCEPT ![i] = Tail(rx[i])]
      BY <1>1, <2>1, <2>2 DEF Valid, DRV_USART_ReadByte, ReadByte
    <3>2. Tail(rx[i]) \in Seq(Incoming) /\ Len(Tail(rx[i])) <= FIFO_DEPTH
      BY <1>1, <3>1, TailOf, Fifos
    <3>3. ReceiveOK'
      BY <1>1, <3>1, <3>2, Fifos DEF ReceiveOK
    <3> HIDE DEF i
    <3>4. pending' = rx'
      BY <1>1, <2>1, <3>1 DEF ReceiveOK
    <3> QED BY <2>1, <3>3, <3>4 DEF ReceivedInOrder
  <2>3. CASE ~Valid(handle)
    <3>1. rx' = rx /\ i \notin USARTs
      BY <2>1, <2>3 DEF Valid, DRV_USART_ReadByte
    <3> HIDE DEF i
    <3>2. pending' = rx
      BY <1>1, <2>1, <3>1 DEF ReceiveOK
    <3> QED BY <1>1, <2>1, <3>1, <3>2 DEF ReceiveOK, ReceivedInOrder
  <2> QED BY <2>2, <2>3
<1> QED BY <1>2, <1>3, <1>4, <1>5, WhoReceives

-----------------------------------------------------------------------------
(* The client, one step per call and per step of a call.                   *)

ClientPlace ==
  /\ ClientOK
  /\ pc = "send" => tx_count < Len(msg)
  /\ pc \in {"clear", "quiet", "set", "enable"} => handle \in USARTs
  /\ pc = "clear" => RXlength > 0

LEMMA ClientStep ==
  TypeOK /\ ClientPlace /\ [Next]_vars => ClientPlace'
<1> SUFFICES ASSUME TypeOK, ClientPlace, [Next]_vars PROVE ClientPlace'
  OBVIOUS
<1>1. FIFO_DEPTH \in Nat \ {0}
  BY UsartAssumption DEF UsartAssumption
<1>2. Len(msg) \in Nat /\ tx_count \in Nat /\ tx_count <= Len(msg)
  BY MsgIsSeq
<1> USE DEF ClientPlace, ClientOK
<1>3. CASE UNCHANGED clientVars
  BY <1>3 DEF clientVars
<1>4. CASE UNCHANGED vars \/ \E u \in USARTs : Hardware(u)
  BY <1>3, <1>4 DEF vars, Hardware, ByteArrives, ByteLeaves, ComesToRest
<1>5. CASE \E u \in USARTs : DRV_USART_Initialize(u) \/ DRV_USART_Deinitialize(u)
  BY <1>3, <1>5 DEF DRV_USART_Initialize, DRV_USART_Deinitialize
<1>6. CASE SendMsg
  <2>1. PICK h \in Handles, m \in Messages : handle' = h /\ msg' = m
    BY <1>6 DEF SendMsg
  <2>2. m \in Seq(STRING) /\ m # <<>>
    BY UsartAssumption DEF UsartAssumption
  <2>3. Len(m) \in Nat \ {0}
    BY <2>2, EmptySeq
  <2>4. /\ pc' = "send" /\ tx_count' = 0 /\ RXlength' = RXlength /\ setting' = setting
    BY <1>6 DEF SendMsg
  <2> QED BY <2>1, <2>3, <2>4
<1>7. CASE SendMsgLoop
  <2>1. /\ tx_count' \in {tx_count, tx_count + 1}
        /\ pc' = IF tx_count' = Len(msg) THEN "rest" ELSE "send"
        /\ tx_count < Len(msg) /\ UNCHANGED <<handle, msg, RXlength, setting>>
    BY <1>7 DEF SendMsgLoop
  <2> QED BY <1>2, <2>1
<1>8. CASE Poll
  BY <1>8 DEF Poll
<1>9. CASE PollRead
  BY <1>9 DEF PollRead
<1>10. ASSUME NEW u \in USARTs, _DRV_USART_ErrorConditionClear(u) PROVE ClientPlace'
  <2>1. u \in Handles
    BY DEF Handles
  <2> QED BY <1>1, <1>10, <2>1 DEF _DRV_USART_ErrorConditionClear
<1>11. CASE ErrorConditionClearLoop
  <2>1. /\ pc = "clear" /\ UNCHANGED <<handle, msg, tx_count, setting>>
        /\ \/ RXlength' = RXlength - 1 /\ pc' = IF RXlength' = 0 THEN "rest" ELSE "clear"
           \/ RXlength' = RXlength /\ pc' = "rest"
    BY <1>11 DEF ErrorConditionClearLoop, Limit
  <2> QED BY <1>1, <2>1
<1>12. CASE SetBegin
  <2>1. \A u \in USARTs : u \in Handles
    BY DEF Handles
  <2>2. /\ handle' \in USARTs /\ setting' \in Settings /\ pc' \in {"quiet", "set"}
        /\ UNCHANGED <<msg, tx_count, RXlength>>
    BY <1>12 DEF SetBegin
  <2> QED BY <2>1, <2>2
<1>13. CASE SetWait
  BY <1>13 DEF SetWait
<1>14. CASE Set
  BY <1>14 DEF Set
<1>15. CASE SetReturn
  BY <1>15 DEF SetReturn
<1> QED
  BY <1>4, <1>5, <1>6, <1>7, <1>8, <1>9, <1>10, <1>11, <1>12, <1>13, <1>14, <1>15
  DEF Next, Continue, Call

-----------------------------------------------------------------------------
(* Which USARTs run: those that are up, but for the one being set.         *)

PowerPlace == PowerOK /\ Enabled /\ AtRest

LEMMA WhoSwitches ==
  [Next]_vars =>
    \/ SetBegin \/ SetWait \/ SetReturn
    \/ \E u \in USARTs : ComesToRest(u) \/ DRV_USART_Initialize(u) \/ DRV_USART_Deinitialize(u)
    \/ /\ UNCHANGED <<powerVars, isEnabled, hasBusyStatus>>
       /\ \/ pc' \in {"rest", "send", "read", "clear"} /\ pc \notin {"quiet", "set", "enable"}
          \/ UNCHANGED <<pc, handle>>
          \/ Set
<1> SUFFICES ASSUME [Next]_vars, ~SetBegin, ~SetWait, ~SetReturn, ~Set,
                    ~\E u \in USARTs : \/ ComesToRest(u) \/ DRV_USART_Initialize(u)
                                       \/ DRV_USART_Deinitialize(u)
             PROVE  /\ UNCHANGED <<powerVars, isEnabled, hasBusyStatus>>
                    /\ \/ pc' \in {"rest", "send", "read", "clear"}
                          /\ pc \notin {"quiet", "set", "enable"}
                       \/ UNCHANGED <<pc, handle>>
  BY DEF Set
<1> USE DEF clientVars
<1>1. CASE UNCHANGED vars
  BY <1>1 DEF vars
<1>2. CASE SendMsgLoop \/ PollRead \/ ErrorConditionClearLoop
  BY <1>2 DEF SendMsgLoop, PollRead, ErrorConditionClearLoop
<1>3. CASE SendMsg \/ Poll \/ \E u \in USARTs : _DRV_USART_ErrorConditionClear(u)
  BY <1>3 DEF SendMsg, Poll, _DRV_USART_ErrorConditionClear
<1>4. CASE \E u \in USARTs : Hardware(u)
  BY <1>4 DEF Hardware, ByteArrives, ByteLeaves
<1> QED BY <1>1, <1>2, <1>3, <1>4 DEF Next, Continue, Call

LEMMA WhoOverruns ==
  [Next]_vars =>
    oerr' = oerr \/ \E u \in USARTs, b \in BOOLEAN : oerr' = [oerr EXCEPT ![u] = b]
<1> SUFFICES ASSUME [Next]_vars
             PROVE  oerr' = oerr \/ \E u \in USARTs, b \in BOOLEAN : oerr' = [oerr EXCEPT ![u] = b]
  OBVIOUS
<1> USE DEF clientVars, fifoVars
<1>1. CASE UNCHANGED vars
  BY <1>1 DEF vars
<1>2. CASE Continue
  BY <1>2 DEF Continue, SendMsgLoop, PollRead, ErrorConditionClearLoop, SetWait, Set, SetReturn
<1>3. CASE SendMsg \/ Poll
  BY <1>3 DEF SendMsg, Poll
<1>4. CASE SetBegin
  BY <1>4, Zenon DEF SetBegin, Stop, Disable
<1>5. ASSUME NEW u \in USARTs,
             \/ _DRV_USART_ErrorConditionClear(u)
             \/ DRV_USART_Initialize(u) \/ DRV_USART_Deinitialize(u)
      PROVE  oerr' = [oerr EXCEPT ![u] = FALSE]
  BY <1>5, Zenon DEF _DRV_USART_ErrorConditionClear, DRV_USART_Initialize, DRV_USARTn_Initialize,
              DRV_USART_Deinitialize, DRV_USARTn_Deinitialize, Disable
<1>6. ASSUME NEW u \in USARTs, Hardware(u)
      PROVE  oerr' = oerr \/ oerr' = [oerr EXCEPT ![u] = TRUE]
  BY <1>6, Zenon DEF Hardware, ByteArrives, ByteLeaves, ComesToRest
<1> QED BY <1>1, <1>2, <1>3, <1>4, <1>5, <1>6, Zenon DEF Next, Call

LEMMA PowerStep ==
  ClientPlace /\ PowerPlace /\ [Next]_vars => PowerPlace'
<1> SUFFICES ASSUME ClientPlace, PowerPlace, [Next]_vars PROVE PowerPlace'
  OBVIOUS
<1> USE DEF PowerPlace, PowerOK
<1>1. oerr' \in [USARTs -> BOOLEAN]
  BY WhoOverruns, Zenon
<1>2. pc \in {"quiet", "set", "enable"} => handle \in USARTs
  BY DEF ClientPlace
<1>3. CASE /\ UNCHANGED <<powerVars, isEnabled, hasBusyStatus>>
           /\ \/ /\ pc' \in {"rest", "send", "read", "clear"}
                 /\ pc \notin {"quiet", "set", "enable"}
              \/ UNCHANGED <<pc, handle>>
              \/ Set
  <2>1. PowerOK'
    BY <1>1, <1>3 DEF powerVars
  <2>2. Enabled' /\ AtRest'
    BY <1>3 DEF powerVars, Enabled, AtRest, Set
  <2> QED BY <2>1, <2>2
<1>4. CASE SetBegin
  <2>1. PICK u \in USARTs :
          /\ handle' = u /\ isEnabled' = (hasBusyStatus /\ ModuleIsBusy(u))
          /\ IF isEnabled' THEN Stop(u) /\ pc' = "quiet"
             ELSE pc' = "set" /\ UNCHANGED <<powerVars, fifoVars>>
    BY <1>4 DEF SetBegin
  <2>2. /\ hasBusyStatus' = hasBusyStatus /\ pc = "rest"
        /\ up' = up /\ isEnabled' \in BOOLEAN
        /\ \/ /\ isEnabled' /\ pc' = "quiet" /\ on' = [on EXCEPT ![u] = FALSE]
              /\ stopping' = [stopping EXCEPT ![u] = on[u] \/ stopping[u]]
           \/ /\ ~(hasBusyStatus /\ ModuleIsBusy(u)) /\ pc' = "set"
              /\ on' = on /\ stopping' = stopping
    BY <1>4, <2>1, Zenon DEF SetBegin, Stop, Disable, powerVars
  <2>3. PowerOK'
    BY <1>1, <2>2, Zenon
  <2>4. Enabled'
    BY <2>1, <2>2 DEF Enabled
  <2>5. AtRest'
    BY <2>1, <2>2 DEF AtRest, ModuleIsBusy
  <2> QED BY <2>3, <2>4, <2>5
<1>5. CASE SetWait
  <2>1. /\ pc = "quiet" /\ pc' = IF ModuleIsBusy(handle) THEN "quiet" ELSE "set"
        /\ UNCHANGED <<handle, powerVars, isEnabled, hasBusyStatus>>
    BY <1>5 DEF SetWait
  <2>2. PowerOK'
    BY <1>1, <2>1 DEF powerVars
  <2>3. Enabled' /\ AtRest'
    BY <2>1 DEF powerVars, Enabled, AtRest, ModuleIsBusy
  <2> QED BY <2>2, <2>3
<1>6. CASE SetReturn
  <2>1. /\ pc = "enable" /\ pc' = "rest" /\ UNCHANGED <<up, stopping, isEnabled, hasBusyStatus>>
        /\ on' = IF isEnabled THEN [on EXCEPT ![handle] = TRUE] ELSE on
    BY <1>6 DEF SetReturn
  <2>2. PowerOK'
    BY <1>1, <2>1, Zenon
  <2>3. Enabled' /\ AtRest'
    BY <1>2, <2>1 DEF Enabled, AtRest
  <2> QED BY <2>2, <2>3
<1>7. ASSUME NEW u \in USARTs, ComesToRest(u) PROVE PowerPlace'
  <2>1. /\ stopping' = [stopping EXCEPT ![u] = FALSE]
        /\ UNCHANGED <<pc, handle, isEnabled, hasBusyStatus, up, on>>
    BY <1>7 DEF ComesToRest, clientVars
  <2>2. PowerOK'
    BY <1>1, <2>1, Zenon
  <2>3. Enabled' /\ AtRest'
    BY <1>2, <2>1 DEF Enabled, AtRest
  <2> QED BY <2>2, <2>3
<1>8. ASSUME NEW u \in USARTs, DRV_USART_Initialize(u) \/ DRV_USART_Deinitialize(u)
      PROVE  PowerPlace'
  <2>1. PICK b \in BOOLEAN, d \in BOOLEAN :
          /\ up' = [up EXCEPT ![u] = b] /\ on' = [on EXCEPT ![u] = b]
          /\ stopping' = [stopping EXCEPT ![u] = d]
    BY <1>8, Zenon DEF DRV_USART_Initialize, DRV_USART_Deinitialize, DRV_USARTn_Initialize,
                DRV_USARTn_Deinitialize, Disable
  <2>2. pc = "rest" /\ UNCHANGED <<pc, handle, isEnabled, hasBusyStatus>>
    BY <1>8 DEF DRV_USART_Initialize, DRV_USART_Deinitialize, clientVars
  <2>3. PowerOK'
    BY <1>1, <2>1, <2>2, Zenon
  <2>4. Enabled' /\ AtRest'
    BY <2>1, <2>2 DEF Enabled, AtRest
  <2> QED BY <2>3, <2>4
<1> QED BY <1>3, <1>4, <1>5, <1>6, <1>7, <1>8, WhoSwitches

-----------------------------------------------------------------------------
(* The invariant is inductive, and what it gives.                          *)

LEMMA NextIInv == IInv /\ [Next]_vars => IInv'
<1> SUFFICES ASSUME IInv, [Next]_vars PROVE IInv'
  OBVIOUS
<1>1. /\ TypeOK /\ ClientOK /\ RatesOK /\ RunsAtBaud /\ Place
      /\ ClientPlace /\ PowerPlace
  BY TypeParts DEF IInv, Place, ClientPlace, PowerPlace
<1>2. TransmitOK' /\ DueOK' /\ SentInOrder'
  BY TransmitStep
<1>3. ReceiveOK' /\ ReceivedInOrder'
  BY ReceiveStep
<1>4. RatesOK' /\ RunsAtBaud'
  BY <1>1, RatesStep
<1>5. ClientPlace' /\ PowerPlace'
  BY <1>1, ClientStep, PowerStep
<1>6. TypeOK'
  BY <1>2, <1>3, <1>4, <1>5, TypeParts DEF ClientPlace, PowerPlace
<1>7. Place'
  BY <1>2, <1>5 DEF Place, ClientPlace, DueOK
<1> QED BY <1>2, <1>3, <1>4, <1>5, <1>6, <1>7 DEF IInv, PowerPlace

LEMMA InvariantHolds == Spec => []IInv
BY InitIInv, NextIInv, PTL DEF Spec

\* Between calls the transfer status says what is due and pending on each line.
LEMMA StatusIsTrue ==
  IInv => (pc = "rest" => \A h \in USARTs :
    /\ "TRANSMIT_EMPTY" \in DRV_USART_TransferStatus(h) <=> due[h] = <<>>
    /\ "RECEIVER_DATA_PRESENT" \in DRV_USART_TransferStatus(h) <=> pending[h] # <<>>)
<1> SUFFICES ASSUME IInv, pc = "rest", NEW h \in USARTs
             PROVE  /\ "TRANSMIT_EMPTY" \in DRV_USART_TransferStatus(h) <=> due[h] = <<>>
                    /\ "RECEIVER_DATA_PRESENT" \in DRV_USART_TransferStatus(h)
                          <=> pending[h] # <<>>
  OBVIOUS
<1>1. Instance(h) = h /\ Valid(h)
  BY DEF Instance, Valid, USARTs
<1>2. DRV_USART_TransferStatus(h) = TransferStatus(h)
  BY <1>1 DEF DRV_USART_TransferStatus
<1>3. due[h] = tx[h] /\ pending[h] = rx[h]
  <2>1. due[h] = tx[h] \o <<>> /\ pending[h] = rx[h] /\ tx[h] \in Seq(STRING)
    BY Fifos DEF IInv, SentInOrder, ReceivedInOrder
  <2> QED BY <2>1, ConcatEmptySeq
<1>4. /\ "TRANSMIT_EMPTY" \in TransferStatus(h) <=> tx[h] = <<>>
      /\ "RECEIVER_DATA_PRESENT" \in TransferStatus(h) <=> rx[h] # <<>>
  BY DEF TransferStatus
<1> QED BY <1>2, <1>3, <1>4

\* The driver's state keeps its type: no FIFO holds more than its depth and no
\* divisor exceeds its register, whatever the rates and messages.
THEOREM TypeCorrect == Spec => []TypeOK
<1>1. IInv => TypeOK
  BY DEF IInv
<1> QED BY <1>1, InvariantHolds, PTL

\* Bytes reach the line, and the client, in order and once, on the line they
\* belong to, for FIFOs of any depth and messages of any length.
THEOREM BytesKeepOrder == Spec => []BytesInOrder
<1>1. IInv => BytesInOrder
  BY StatusIsTrue DEF IInv, BytesInOrder
<1> QED BY <1>1, InvariantHolds, PTL

\* Both USARTs run at the rates set for them, and between calls those that are
\* initialised are enabled, for every clock, width of the divisor and rate.
THEOREM UsartsKeepWorking == Spec => []UsartsWork
<1>1. IInv => UsartsWork
  BY DEF IInv, UsartsWork, Enabled
<1> QED BY <1>1, InvariantHolds, PTL

\* BaudSet and LineControlSet write the registers of a USART at rest, where the
\* build can tell.
THEOREM SettingsAreQuiet == Spec => SettingsQuiet
<1>1. IInv => (pc = "set" /\ hasBusyStatus => ~on[handle] /\ ~stopping[handle])
  BY DEF IInv, AtRest
<1> QED BY <1>1, InvariantHolds, PTL DEF SettingsQuiet
=============================================================================
