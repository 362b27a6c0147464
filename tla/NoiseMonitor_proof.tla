------------------------- MODULE NoiseMonitor_proof -------------------------
(***************************************************************************)
(* Proofs about the superloop: its variables keep their types, the timer   *)
(* runs only while something waits for it, and each step of it is allowed  *)
(* by MonitorLifecycle.  They hold for every timer frequency, timeout and  *)
(* number of channels, and for however often the modem restarts.  The      *)
(* second half is about what it and the modem say to each other.           *)
(***************************************************************************)
EXTENDS NoiseMonitor, SequenceTheorems, TLAPS

(***************************************************************************)
(* Which handler can be at which point: the part of the invariant that     *)
(* ties the place in the code to appData.state.                            *)
(***************************************************************************)
Talking == appState \in {"JOIN", "TRANSMIT"} /\ script # <<>>

Place ==
  /\ pc = "pause" => appState \in {"INIT", "IDLE"}
  /\ pc \in {"press", "hold"} => appState = "WAIT_FOR_BUTTON_PRESS"
  /\ pc \in {"save", "starved"} => appState = "CALIBRATE"
  /\ pc = "sample" => appState = "MEASURE"
  /\ pc = "halted" => appState = "ERROR"
  /\ pc = "send" => Talking
  /\ pc \in {"wait", "answered"} =>
       IF awaiting = "banner" THEN appState = "INIT" ELSE Talking
  /\ pc = "return" => appState \in {"JOIN", "TRANSMIT"}

-----------------------------------------------------------------------------
(* Types of the operators the actions are built from.                      *)

\* A function on 1..n is a sequence of length n.
LEMMA FunctionIsSeq ==
  ASSUME NEW T, NEW n \in Nat, NEW g \in [1 .. n -> T]
  PROVE  g \in Seq(T) /\ Len(g) = n
<1>1. g \in Seq(T)
  BY SeqDef
<1>2. DOMAIN g = 1 .. n /\ DOMAIN g = 1 .. Len(g) /\ Len(g) \in Nat
  BY <1>1, LenProperties
<1>3. Len(g) = n
  BY <1>2
<1> QED BY <1>1, <1>3

\* A marked sequence of lines is a sequence of tagged lines.
LEMMA MarkType ==
  ASSUME NEW S, \A x \in S : x.text \in Texts \union {"", "partial"} /\ x.char7 \in Int,
         NEW lines \in Seq(S), NEW f \in BOOLEAN
  PROVE  Mark(lines, f) \in Seq(Tagged) /\ Len(Mark(lines, f)) = Len(lines)
<1>1. DOMAIN lines = 1 .. Len(lines) /\ Len(lines) \in Nat
  BY LenProperties
<1>2. ASSUME NEW i \in 1 .. Len(lines)
      PROVE  [text |-> lines[i].text, char7 |-> lines[i].char7, fresh |-> f] \in Tagged
  <2>1. lines[i] \in S
    BY ElementOfSeq
  <2>2. lines[i].text \in Texts \union {"", "partial"} /\ lines[i].char7 \in Int
    BY <2>1
  <2> QED BY <2>2 DEF Tagged
<1>3. Mark(lines, f) = [i \in 1 .. Len(lines) |->
        [text |-> lines[i].text, char7 |-> lines[i].char7, fresh |-> f]]
  BY <1>1 DEF Mark
<1> DEFINE g == [i \in 1 .. Len(lines) |->
        [text |-> lines[i].text, char7 |-> lines[i].char7, fresh |-> f]]
<1>4. g \in [1 .. Len(lines) -> Tagged]
  BY <1>2
<1> HIDE DEF g
<1>5. g \in Seq(Tagged) /\ Len(g) = Len(lines)
  BY <1>1, <1>4, FunctionIsSeq
<1>6. Mark(lines, f) = g
  BY <1>3 DEF g
<1> QED BY <1>5, <1>6

\* Every line the modem says is a line, and a single one or a pair is a reply.
LEMMA LinesType ==
  /\ \A t \in Texts : Line(t) \in Lines
  /\ \A j \in BOOLEAN, b \in MacBits : StatusLine(j, b) \in Lines
<1>1. \A t \in Texts : Char7[t] \in Int
  BY DEF Texts, Char7, Untouched
<1>2. "status" \in Texts
  BY DEF Texts, Char7
<1>3. \A b \in MacBits : b \in Int
  BY Rn2903Assumption DEF Rn2903Assumption
<1> QED BY <1>1, <1>2, <1>3 DEF Line, Lines, StatusLine

AnswerSet == [modem : Modem, replies : Seq(Lines)]

LEMMA OneType ==
  ASSUME NEW m \in Modem, NEW t \in Texts
  PROVE  One(m, t) \subseteq AnswerSet /\ OkThen(m, t) \subseteq AnswerSet
<1>1. Line(t) \in Lines /\ Line("ok") \in Lines
  BY LinesType DEF Texts, Char7
<1>2. <<Line(t)>> \in Seq(Lines) /\ <<Line("ok"), Line(t)>> \in Seq(Lines)
  BY <1>1
<1>3. Says(m, <<Line(t)>>) \in AnswerSet /\ Says(m, <<Line("ok"), Line(t)>>) \in AnswerSet
  BY <1>2 DEF Says, AnswerSet
<1> QED BY <1>3 DEF One, OkThen

\* The modem's answer leaves a modem, and its replies are lines.
LEMMA AnswersType ==
  ASSUME NEW m \in Modem, NEW c \in Commands, NEW arg
  PROVE  Answers(m, c, arg) \subseteq AnswerSet
<1>1. {"banner", "hweui", "ok", "invalid_param", "accepted", "denied", "no_free_ch",
       "mac_tx_ok", "mac_err", "not_joined"} \subseteq Texts
  BY DEF Texts, Char7
<1>2. \A x \in Modem : Restart(x) \in Modem
  BY DEF Restart, Modem, Params
<1>3. CASE c = Cmd("factoryRESET")
  <2>1. [m EXCEPT !.saved = {}] \in Modem
    BY DEF Modem
  <2> QED BY <1>1, <1>2, <1>3, <2>1, OneType DEF Answers, Cmd
<1>4. CASE c = Cmd("reset")
  BY <1>1, <1>2, <1>4, OneType DEF Answers, Cmd
<1>5. CASE c = Cmd("get hweui")
  BY <1>1, <1>5, OneType DEF Answers, Cmd
<1>6. CASE c = Cmd("save")
  <2>1. [m EXCEPT !.saved = m.live \intersect SavedParams] \in Modem
    BY DEF Modem
  <2> QED BY <1>1, <1>6, <2>1, OneType DEF Answers, Cmd
<1>7. ASSUME NEW p \in Params, c = Set(p)
      PROVE  Answers(m, c, arg) \subseteq AnswerSet
  <2>1. Answers(m, c, arg) = SetAnswers(m, p, arg)
    BY <1>7 DEF Answers, Set
  <2>2. [m EXCEPT !.live = m.live \union {p}] \in Modem
    BY DEF Modem
  <2> QED BY <1>1, <2>1, <2>2, OneType DEF SetAnswers
<1>8. CASE c = Cmd("join")
  <2>1. [m EXCEPT !.joined = TRUE] \in Modem /\ [m EXCEPT !.joined = FALSE] \in Modem
    BY DEF Modem
  <2>2. JoinAnswers(m) \subseteq AnswerSet
    BY <1>1, <2>1, OneType DEF JoinAnswers
  <2> QED BY <1>8, <2>2 DEF Answers, Cmd
<1>9. CASE c = Cmd("status")
  <2>1. \A b \in MacBits : Says(m, <<StatusLine(m.joined, b)>>) \in AnswerSet
    <3> SUFFICES ASSUME NEW b \in MacBits
                 PROVE  Says(m, <<StatusLine(m.joined, b)>>) \in AnswerSet
      OBVIOUS
    <3>1. StatusLine(m.joined, b) \in Lines
      BY LinesType DEF Modem
    <3>2. <<StatusLine(m.joined, b)>> \in Seq(Lines)
      BY <3>1
    <3> QED BY <3>2 DEF Says, AnswerSet
  <2>2. Answers(m, c, arg) = {Says(m, <<StatusLine(m.joined, b)>>) : b \in MacBits}
    BY <1>9 DEF Answers, Cmd
  <2> QED BY <2>1, <2>2
<1>10. CASE c = Cmd("tx")
  <2>1. TxAnswers(m) \subseteq AnswerSet
    BY <1>1, OneType DEF TxAnswers
  <2> QED BY <1>10, <2>1 DEF Answers, Cmd
<1> QED BY <1>3, <1>4, <1>5, <1>6, <1>7, <1>8, <1>9, <1>10 DEF Commands, Verbs

\* The loops of join() over parameters and channels, as sequences of commands.
LEMMA ScriptParts ==
  /\ SetEach(SavedNames) \in Seq(Commands) /\ Len(SetEach(SavedNames)) = 8
  /\ \A i \in 1 .. 8 : SetEach(SavedNames)[i] = Set(Param(SavedNames[i]))
  /\ SetEach(UnsavedNames) \in Seq(Commands) /\ Len(SetEach(UnsavedNames)) = 17
  /\ \A i \in 1 .. 17 : SetEach(UnsavedNames)[i] = Set(Param(UnsavedNames[i]))
  /\ ChannelCmds \in Seq(Commands) /\ Len(ChannelCmds) = 2 * NUM_CHANNELS
<1>1. \A q \in Params : Set(q) \in Commands
  BY DEF Commands
<1>2. ASSUME NEW n \in Nat, NEW g \in [1 .. n -> Commands]
      PROVE  g \in Seq(Commands) /\ Len(g) = n
  BY <1>2, FunctionIsSeq
<1>3. /\ SetEach(SavedNames) \in Seq(Commands) /\ Len(SetEach(SavedNames)) = 8
      /\ \A i \in 1 .. 8 : SetEach(SavedNames)[i] = Set(Param(SavedNames[i]))
  <2>1. \A i \in 1 .. 8 : Param(SavedNames[i]) \in Params
    <3>1. DOMAIN SavedNames = 1 .. 8
      BY DEF SavedNames
    <3> QED BY <3>1 DEF SavedParams, Params, Range
  <2>2. SetEach(SavedNames) = [i \in 1 .. 8 |-> Set(Param(SavedNames[i]))]
    BY DEF SetEach, SavedNames
  <2> DEFINE g == [i \in 1 .. 8 |-> Set(Param(SavedNames[i]))]
  <2>3. g \in [1 .. 8 -> Commands]
    BY <1>1, <2>1
  <2>5. \A i \in 1 .. 8 : g[i] = Set(Param(SavedNames[i]))
    OBVIOUS
  <2>6. SetEach(SavedNames) = g
    BY <2>2
  <2> HIDE DEF g
  <2>4. g \in Seq(Commands) /\ Len(g) = 8
    BY <1>2, <2>3
  <2> QED BY <2>4, <2>5, <2>6
<1>4. /\ SetEach(UnsavedNames) \in Seq(Commands) /\ Len(SetEach(UnsavedNames)) = 17
      /\ \A i \in 1 .. 17 : SetEach(UnsavedNames)[i] = Set(Param(UnsavedNames[i]))
  <2>1. \A i \in 1 .. 17 : Param(UnsavedNames[i]) \in Params
    <3>1. DOMAIN UnsavedNames = 1 .. 17
      BY DEF UnsavedNames
    <3> QED BY <3>1 DEF UnsavedParams, Params, Range
  <2>2. SetEach(UnsavedNames) = [i \in 1 .. 17 |-> Set(Param(UnsavedNames[i]))]
    BY DEF SetEach, UnsavedNames
  <2> DEFINE g == [i \in 1 .. 17 |-> Set(Param(UnsavedNames[i]))]
  <2>3. g \in [1 .. 17 -> Commands]
    BY <1>1, <2>1
  <2>5. \A i \in 1 .. 17 : g[i] = Set(Param(UnsavedNames[i]))
    OBVIOUS
  <2>6. SetEach(UnsavedNames) = g
    BY <2>2
  <2> HIDE DEF g
  <2>4. g \in Seq(Commands) /\ Len(g) = 17
    BY <1>2, <2>3
  <2> QED BY <2>4, <2>5, <2>6
<1>5. ChannelCmds \in Seq(Commands) /\ Len(ChannelCmds) = 2 * NUM_CHANNELS
  <2> DEFINE param(k) == <<IF k % 2 = 1 THEN "drrange" ELSE "status", (k - 1) \div 2>>
  <2>1. ASSUME NEW k \in 1 .. 2 * NUM_CHANNELS PROVE param(k) \in Params
    <3>1. (k - 1) \div 2 \in 0 .. NUM_CHANNELS - 1
      BY Rn2903Assumption DEF Rn2903Assumption
    <3> QED BY <3>1 DEF Params, SavedParams
  <2> DEFINE g == [k \in 1 .. 2 * NUM_CHANNELS |-> Set(param(k))]
  <2>2. ChannelCmds = g
    BY DEF ChannelCmds
  <2>3. g \in [1 .. 2 * NUM_CHANNELS -> Commands]
    <3> HIDE DEF param
    <3> QED BY <1>1, <2>1
  <2>4. 2 * NUM_CHANNELS \in Nat
    BY Rn2903Assumption DEF Rn2903Assumption
  <2> HIDE DEF g
  <2> QED BY <1>2, <2>2, <2>3, <2>4
<1> QED BY <1>3, <1>4, <1>5

\* The commands of each join procedure are commands, and there is at least one.
LEMMA ScriptType ==
  ASSUME NEW p \in JoinProcedures
  PROVE  Script(p) \in Seq(Commands) /\ Script(p) # <<>>
<1>1. \A v \in Verbs : Cmd(v) \in Commands
  BY DEF Commands
<1>2. \A q \in Params : Set(q) \in Commands
  BY DEF Commands
<1>3. /\ SetEach(SavedNames) \in Seq(Commands) /\ SetEach(UnsavedNames) \in Seq(Commands)
      /\ ChannelCmds \in Seq(Commands)
  BY ScriptParts
<1>13. <<Cmd("factoryRESET")>> # <<>>
  OBVIOUS
<1>14. \A x \in Commands : <<x>> \in Seq(Commands)
  OBVIOUS
<1>15. \A x, y \in Commands : <<x, y>> \in Seq(Commands) /\ Len(<<x, y>>) = 2
  OBVIOUS
<1>16. /\ Cmd("get hweui") \in Commands /\ Cmd("factoryRESET") \in Commands
       /\ Cmd("save") \in Commands /\ Cmd("reset") \in Commands
       /\ Cmd("join") \in Commands /\ Cmd("status") \in Commands
  BY <1>1 DEF Verbs
<1>6. /\ <<Cmd("get hweui")>> \in Seq(Commands) /\ <<Cmd("factoryRESET")>> \in Seq(Commands)
      /\ <<Cmd("save"), Cmd("reset")>> \in Seq(Commands)
      /\ <<Cmd("join"), Cmd("status")>> \in Seq(Commands)
      /\ Len(<<Cmd("join"), Cmd("status")>>) = 2
  BY <1>14, <1>15, <1>16, Zenon
<1>7. Param("dr") \in Params
  <2>1. 2 \in DOMAIN UnsavedNames /\ UnsavedNames[2] = "dr"
    BY DEF UnsavedNames
  <2> QED BY <2>1 DEF Params, UnsavedParams, Range
<1>8. /\ <<Cmd("reset"), Set(Param("dr")), Cmd("join"), Cmd("status")>> \in Seq(Commands)
      /\ <<Cmd("reset"), Set(Param("dr")), Cmd("join"), Cmd("status")>> # <<>>
  <2>1. /\ Cmd("reset") \in Commands /\ Cmd("join") \in Commands
        /\ Cmd("status") \in Commands /\ Set(Param("dr")) \in Commands
    BY <1>1, <1>2, <1>7 DEF Verbs
  <2> QED BY <2>1
<1>9. SetAllAndSave \in Seq(Commands) /\ SetAllAndSave # <<>>
  <2> DEFINE a == <<Cmd("get hweui")>>
             b == SetEach(SavedNames)
             c == ChannelCmds
             d == <<Cmd("save"), Cmd("reset")>>
             e == SetEach(UnsavedNames)
             f == <<Cmd("join"), Cmd("status")>>
  <2>1. a \in Seq(Commands) /\ Len(a) = 1
    BY <1>6
  <2>2. f \in Seq(Commands) /\ Len(f) = 2
    BY <1>6
  <2>3. SetAllAndSave = a \o b \o c \o d \o e \o f
    BY DEF SetAllAndSave
  <2>4. /\ b \in Seq(Commands) /\ c \in Seq(Commands) /\ d \in Seq(Commands)
        /\ e \in Seq(Commands)
    BY <1>3, <1>6
  <2> HIDE DEF a, b, c, d, e, f
  <2> DEFINE h == a \o b \o c \o d \o e
  <2>5. h \in Seq(Commands)
    BY <2>1, <2>4
  <2> HIDE DEF h
  <2>8. h \o f \in Seq(Commands)
    BY <2>2, <2>5
  <2>11. Len(h \o f) = Len(h) + Len(f)
    BY <2>2, <2>5, ConcatProperties
  <2>9. Len(h \o f) = Len(h) + 2
    BY <2>2, <2>11
  <2>10. Len(h) \in Nat
    BY <2>5, LenProperties
  <2>6. h \o f \in Seq(Commands) /\ Len(h \o f) = Len(h) + 2 /\ Len(h) \in Nat
    BY <2>8, <2>9, <2>10
  <2>7. h \o f # <<>>
    BY <2>2, <2>6, EmptySeq
  <2> QED BY <2>3, <2>6, <2>7 DEF h
<1>10. CASE p = "FACTORY_RESET"
  BY <1>6, <1>13, <1>10 DEF Script
<1>11. CASE p = "SET_ALL_PARAMS_AND_SAVE"
  BY <1>9, <1>11 DEF Script
<1>12. CASE p = "JOIN_WITH_CURRENT_CONFIG"
  BY <1>8, <1>12 DEF Script
<1> QED BY <1>10, <1>11, <1>12 DEF JoinProcedures

-----------------------------------------------------------------------------
(* The inductive invariant: types, the place in the code, the timer.       *)

IInv == TypeOK /\ Place /\ TimerQuiet

LEMMA TypeInit == Init => TypeOK
<1> SUFFICES ASSUME Init PROVE TypeOK
  OBVIOUS
<1>1. InitialProcedure \in JoinProcedures /\ MaxRestarts \in Nat /\ NUM_FILTERS \in Nat \ {0}
  BY MonitorAssumption DEF MonitorAssumption
<1>2. script \in Seq(Commands) /\ fifo \in Seq(Tagged) /\ wire \in Seq(Tagged)
  BY EmptySeq DEF Init
<1>3. cmd \in Commands
  BY DEF Init, Commands, Verbs
<1>4. modem \in Modem
  <2>1. PICK s \in {{}, SavedParams} : modem = [joined |-> FALSE, live |-> s, saved |-> s]
    BY DEF Init
  <2>2. s \in SUBSET SavedParams /\ s \in SUBSET Params
    BY <2>1 DEF Params
  <2> QED BY <2>1, <2>2 DEF Modem
<1>5. rxBuf \in Tagged
  <2>1. rxBuf = [text |-> "", char7 |-> 0, fresh |-> FALSE]
    BY DEF Init
  <2>2. "" \in Texts \union {"", "partial"} /\ 0 \in Int /\ FALSE \in BOOLEAN
    OBVIOUS
  <2> QED BY <2>1, <2>2 DEF Tagged
<1>6. leq \in [holds : {"nothing", "sum", "level"}, sent : BOOLEAN]
  BY DEF Init
<1>7. /\ appState \in AppStates /\ error \in Errors /\ joinProcedure \in JoinProcedures
      /\ pc \in Points /\ awaiting \in {"banner", "first", "second"}
      /\ savesLeft \in 0 .. NUM_FILTERS + 1
      /\ timerOpen \in BOOLEAN /\ timerOn \in BOOLEAN /\ periods \in Nat
      /\ rxDead \in BOOLEAN /\ restarts \in 0 .. MaxRestarts
  <2>1. /\ appState = "INIT" /\ error = "NO_ERROR" /\ joinProcedure = InitialProcedure
        /\ pc = "dispatch" /\ awaiting = "banner" /\ savesLeft = 0
        /\ timerOpen = FALSE /\ timerOn = FALSE /\ periods = 0
        /\ rxDead = FALSE /\ restarts = 0
    BY DEF Init
  <2>2. appState \in AppStates /\ error \in Errors /\ pc \in Points
    BY <2>1 DEF AppStates, Errors, Points
  <2>3. 0 \in 0 .. NUM_FILTERS + 1 /\ 0 \in 0 .. MaxRestarts
    BY <1>1
  <2> QED BY <1>1, <2>1, <2>2, <2>3
<1> QED BY <1>2, <1>3, <1>4, <1>5, <1>6, <1>7 DEF TypeOK

\* Steps that leave the script, the line and the modem alone.
LEMMA TypeSimple ==
  ASSUME TypeOK, UNCHANGED <<script, cmd, lineVars, modemVars>>,
         \/ InitBegin \/ InitReturn \/ PressBegin \/ Pressed \/ ShortPress \/ LongPress
         \/ CalibrateBegin \/ SaveToFlash \/ CalibrateReturn \/ WaitAgain
         \/ FactoryResetReturn \/ JoinReturn \/ IdleBegin \/ IdleReturn \/ MeasureBegin
         \/ I2sOverflow \/ I2sStops \/ MeasureReturn \/ Process \/ TransmitReturn \/ ErrorHandler
         \/ TimerCallback \/ UNCHANGED vars
  PROVE  TypeOK'
<1>1. NUM_FILTERS \in Nat \ {0}
  BY MonitorAssumption DEF MonitorAssumption
<1>2. /\ script' \in Seq(Commands) /\ cmd' \in Commands
      /\ rxBuf' \in Tagged /\ fifo' \in Seq(Tagged) /\ wire' \in Seq(Tagged)
      /\ rxDead' \in BOOLEAN /\ modem' \in Modem /\ restarts' \in 0 .. MaxRestarts
  BY DEF TypeOK, lineVars, modemVars
<1> USE <1>1, <1>2 DEF TypeOK, appVars, callVars, timerVars, TimerSetup, TimerStop, IfOK, OK,
                       AppStates, Points
<1>3. CASE InitBegin
  BY <1>3 DEF InitBegin
<1>4. CASE InitReturn
  BY <1>4 DEF InitReturn
<1>5. CASE PressBegin
  BY <1>5 DEF PressBegin
<1>6. CASE Pressed
  BY <1>6 DEF Pressed
<1>7. CASE ShortPress
  BY <1>7 DEF ShortPress
<1>8. CASE LongPress
  BY <1>8 DEF LongPress
<1>9. CASE CalibrateBegin
  BY <1>9 DEF CalibrateBegin
<1>10. CASE SaveToFlash
  BY <1>10 DEF SaveToFlash, Errors
<1>11. CASE CalibrateReturn
  BY <1>11 DEF CalibrateReturn
<1>12. CASE WaitAgain
  BY <1>12 DEF WaitAgain
<1>13. CASE FactoryResetReturn
  BY <1>13 DEF FactoryResetReturn, JoinProcedures
<1>14. CASE JoinReturn
  BY <1>14 DEF JoinReturn, Errors
<1>15. CASE IdleBegin
  BY <1>15 DEF IdleBegin
<1>16. CASE IdleReturn
  BY <1>16 DEF IdleReturn
<1>17. CASE MeasureBegin
  BY <1>17 DEF MeasureBegin
<1>18. CASE I2sOverflow
  BY <1>18 DEF I2sOverflow, Errors
<1>19. CASE MeasureReturn
  BY <1>19 DEF MeasureReturn
<1>20. CASE Process
  BY <1>20 DEF Process
<1>21. CASE TransmitReturn
  BY <1>21 DEF TransmitReturn
<1>22. CASE ErrorHandler
  BY <1>22 DEF ErrorHandler
<1>23. CASE TimerCallback
  BY <1>23 DEF TimerCallback
<1>24. CASE I2sStops
  BY <1>24 DEF I2sStops
<1>25. CASE UNCHANGED vars
  BY <1>25 DEF vars
<1> QED BY <1>3, <1>4, <1>5, <1>6, <1>7, <1>8, <1>9, <1>10, <1>11, <1>12, <1>13, <1>14,
           <1>15, <1>16, <1>17, <1>18, <1>19, <1>20, <1>21, <1>22, <1>23, <1>24,
           <1>25

\* Steps of the serial line, the modem, and the conversation with it.
LEMMA TypeLine ==
  ASSUME TypeOK, Place,
         \/ InitReleaseModem \/ SendMsg \/ WaitLine \/ WaitTimeout \/ WaitOverlong
         \/ SendMsgReturn \/ JoinBegin \/ TransmitBegin \/ Arrive \/ Lose \/ ModemRestart
  PROVE  TypeOK'
<1> USE DEF appVars, callVars, timerVars, lineVars, modemVars, TimerSetup, TimerStop
<1>1. \A m \in Modem : Restart(m) \in Modem
  BY DEF Restart, Modem, Params
<1>2. \A f \in BOOLEAN : Mark(<<Line("banner")>>, f) \in Seq(Tagged)
  <2>1. "banner" \in Texts
    BY DEF Texts, Char7
  <2>2. <<Line("banner")>> \in Seq(Lines)
    BY <2>1, LinesType
  <2> QED BY <2>2, MarkType DEF Lines
<1>3. \A q \in Seq(Tagged), f \in BOOLEAN : Mark(q, f) \in Seq(Tagged)
  BY MarkType DEF Tagged
<1>4. \A q \in Seq(Tagged) : q # <<>> => Head(q) \in Tagged /\ Tail(q) \in Seq(Tagged)
  BY HeadTailProperties
<1>5. \A c \in {rxBuf.char7, 48, 49} :
        [text |-> "partial", char7 |-> c, fresh |-> FALSE] \in Tagged
  <2>4. rxBuf \in Tagged
    BY DEF TypeOK
  <2>5. rxBuf.char7 \in Int
    BY <2>4 DEF Tagged
  <2>1. rxBuf.char7 \in Int /\ 48 \in Int /\ 49 \in Int
    BY <2>5
  <2>2. "partial" \in Texts \union {"", "partial"}
    OBVIOUS
  <2> SUFFICES ASSUME NEW c \in {rxBuf.char7, 48, 49}
               PROVE  [text |-> "partial", char7 |-> c, fresh |-> FALSE] \in Tagged
    OBVIOUS
  <2>3. c \in Int
    BY <2>1
  <2> QED BY <2>2, <2>3 DEF Tagged
<1>6. CASE InitReleaseModem
  <2>1. wire' \in Seq(Tagged)
    BY <1>2, <1>6 DEF InitReleaseModem
  <2>2. modem' \in Modem
    BY <1>1, <1>6 DEF InitReleaseModem, TypeOK
  <2> QED BY <1>6, <2>1, <2>2 DEF InitReleaseModem, TypeOK, Points
<1>7. CASE SendMsg
  <2>1. script # <<>>
    BY <1>7 DEF SendMsg, Place, Talking
  <2>2. cmd' \in Commands
    BY <1>7, <2>1, HeadTailProperties DEF SendMsg, TypeOK
  <2>3. PICK a \in Answers(modem, cmd', rxBuf.text) :
          modem' = a.modem /\ wire' = Late \o Mark(a.replies, TRUE)
    BY <1>7 DEF SendMsg
  <2>4. a.modem \in Modem /\ a.replies \in Seq(Lines)
    <3>1. Answers(modem, cmd', rxBuf.text) \subseteq AnswerSet
      BY <2>2, AnswersType DEF TypeOK
    <3>2. a \in AnswerSet
      BY <3>1
    <3> QED BY <3>2 DEF AnswerSet
  <2>5. Mark(a.replies, TRUE) \in Seq(Tagged)
    BY <2>4, MarkType DEF Lines
  <2>6. Late \in Seq(Tagged)
    <3>1. Mark(wire, FALSE) \in Seq(Tagged)
      BY <1>3 DEF TypeOK
    <3>2. <<>> \in Seq(Tagged)
      BY EmptySeq
    <3> QED BY <3>1, <3>2 DEF Late
  <2>7. wire' \in Seq(Tagged)
    BY <2>3, <2>5, <2>6, ConcatProperties
  <2>8. fifo' \in Seq(Tagged)
    BY <1>3, <1>7 DEF SendMsg, TypeOK
  <2>9. rxBuf' \in Tagged
    BY <1>7 DEF SendMsg, TypeOK, Tagged
  <2>10. leq' \in [holds : {"nothing", "sum", "level"}, sent : BOOLEAN]
    <3>1. leq' = [leq EXCEPT !.sent = leq.sent \/ cmd'.verb = "tx"]
      BY <1>7 DEF SendMsg
    <3>2. (leq.sent \/ cmd'.verb = "tx") \in BOOLEAN
      OBVIOUS
    <3>3. leq \in [holds : {"nothing", "sum", "level"}, sent : BOOLEAN]
      BY DEF TypeOK
    <3> QED BY <3>1, <3>2, <3>3
  <2> QED BY <1>7, <2>2, <2>3, <2>4, <2>7, <2>8, <2>9, <2>10 DEF SendMsg, TypeOK, Points
<1>8. CASE WaitLine
  <2>1. Head(fifo) \in Tagged /\ fifo' \in Seq(Tagged)
    BY <1>4, <1>8 DEF WaitLine, TypeOK
  <2>2. rxBuf' \in Tagged
    BY <1>8, <2>1 DEF WaitLine, TypeOK, Tagged
  <2> QED BY <1>8, <2>1, <2>2 DEF WaitLine, TypeOK, Points
<1>9. CASE WaitTimeout
  <2>1. rxBuf' \in Tagged
    BY <1>5, <1>9 DEF WaitTimeout, Remains, Partial, TypeOK
  <2>2. fifo' \in Seq(Tagged)
    <3>1. CASE fifo' = fifo
      BY <3>1 DEF TypeOK
    <3>2. CASE fifo # <<>> /\ fifo' = <<[Head(fifo) EXCEPT !.text = "partial"]>> \o Tail(fifo)
      <4>1. Head(fifo) \in Tagged /\ Tail(fifo) \in Seq(Tagged)
        BY <1>4, <3>2 DEF TypeOK
      <4>2. [Head(fifo) EXCEPT !.text = "partial"] \in Tagged
        BY <4>1 DEF Tagged
      <4>3. <<[Head(fifo) EXCEPT !.text = "partial"]>> \in Seq(Tagged)
        BY <4>2
      <4> QED BY <3>2, <4>1, <4>3, ConcatProperties
    <3> QED BY <1>9, <3>1, <3>2 DEF WaitTimeout, PartlyRead
  <2> QED BY <1>9, <2>1, <2>2 DEF WaitTimeout, TypeOK, Points, Errors
<1>10. CASE WaitOverlong
  <2>1. rxBuf' \in Tagged
    BY <1>5, <1>10 DEF WaitOverlong, Partial
  <2> QED BY <1>10, <2>1 DEF WaitOverlong, TypeOK, Points, Errors
<1>11. CASE SendMsgReturn
  <2>1. script # <<>>
    BY <1>11 DEF SendMsgReturn, Place, Talking
  <2>2. script' \in Seq(Commands)
    BY <1>11, <2>1, HeadTailProperties DEF SendMsgReturn, TypeOK
  <2> QED BY <1>11, <2>2 DEF SendMsgReturn, TypeOK, Points
<1>12. CASE JoinBegin
  <2>1. script' \in Seq(Commands)
    BY <1>12, ScriptType DEF JoinBegin, TypeOK
  <2> QED BY <1>12, <2>1 DEF JoinBegin, TypeOK, Points
<1>13. CASE TransmitBegin
  <2>1. Cmd("tx") \in Commands
    BY DEF Commands, Verbs
  <2>2. script' \in Seq(Commands)
    BY <1>13, <2>1 DEF TransmitBegin
  <2> QED BY <1>13, <2>2 DEF TransmitBegin, TypeOK, Points
<1>14. CASE Arrive
  <2>1. Head(wire) \in Tagged /\ wire' \in Seq(Tagged)
    BY <1>4, <1>14 DEF Arrive, TypeOK
  <2>2. Append(fifo, Head(wire)) \in Seq(Tagged)
    BY <2>1, AppendProperties DEF TypeOK
  <2>3. fifo' \in Seq(Tagged) /\ rxDead' \in BOOLEAN
    BY <1>14, <2>2 DEF Arrive, TypeOK
  <2> QED BY <1>14, <2>1, <2>3 DEF Arrive, TypeOK
<1>15. CASE Lose
  <2>1. wire' \in Seq(Tagged)
    BY <1>4, <1>15 DEF Lose, TypeOK
  <2> QED BY <1>15, <2>1 DEF Lose, TypeOK
<1>16. CASE ModemRestart
  <2>1. wire' \in Seq(Tagged)
    BY <1>2, <1>16, ConcatProperties DEF ModemRestart, TypeOK
  <2>2. modem' \in Modem
    BY <1>1, <1>16 DEF ModemRestart, TypeOK
  <2>3. restarts' \in 0 .. MaxRestarts
    BY <1>16, MonitorAssumption DEF ModemRestart, TypeOK, MonitorAssumption
  <2> QED BY <1>16, <2>1, <2>2, <2>3 DEF ModemRestart, TypeOK
<1> QED BY <1>6, <1>7, <1>8, <1>9, <1>10, <1>11, <1>12, <1>13, <1>14, <1>15, <1>16

LEMMA TypeStep == TypeOK /\ Place /\ [Next]_vars => TypeOK'
<1> SUFFICES ASSUME TypeOK, Place, [Next]_vars PROVE TypeOK'
  OBVIOUS
<1>1. CASE \/ InitReleaseModem \/ SendMsg \/ WaitLine \/ WaitTimeout \/ WaitOverlong
           \/ SendMsgReturn \/ JoinBegin \/ TransmitBegin \/ Arrive \/ Lose \/ ModemRestart
  BY <1>1, TypeLine
<1>2. CASE \/ InitBegin \/ InitReturn \/ PressBegin \/ Pressed \/ ShortPress \/ LongPress
           \/ CalibrateBegin \/ SaveToFlash \/ CalibrateReturn \/ WaitAgain
           \/ FactoryResetReturn \/ JoinReturn \/ IdleBegin \/ IdleReturn \/ MeasureBegin
           \/ I2sOverflow \/ I2sStops \/ MeasureReturn \/ Process \/ TransmitReturn \/ ErrorHandler
           \/ TimerCallback \/ UNCHANGED vars
  <2>1. UNCHANGED <<script, cmd, lineVars, modemVars>>
    BY <1>2 DEF callVars, vars, InitBegin, InitReturn, PressBegin, Pressed, ShortPress,
       LongPress, CalibrateBegin, SaveToFlash, CalibrateReturn, WaitAgain,
       FactoryResetReturn, JoinReturn, IdleBegin, IdleReturn, MeasureBegin, I2sOverflow,
       I2sStops, MeasureReturn, Process, TransmitReturn, ErrorHandler, TimerCallback
  <2> QED BY <1>2, <2>1, TypeSimple
<1> QED BY <1>1, <1>2 DEF Next, Processor, Environment, PauseHangs, Starved, Halted

\* The place in the code follows appData.state through every step.
LEMMA PlaceStep == TypeOK /\ Place /\ [Next]_vars => Place'
<1> SUFFICES ASSUME TypeOK, Place, [Next]_vars PROVE Place'
  OBVIOUS
<1> USE DEF TypeOK, Place, Talking, appVars, callVars, timerVars, lineVars, modemVars
<1>1. CASE InitBegin
  BY <1>1 DEF InitBegin
<1>2. CASE InitReleaseModem
  BY <1>2 DEF InitReleaseModem
<1>3. CASE InitReturn
  BY <1>3 DEF InitReturn
<1>4. CASE PressBegin
  BY <1>4 DEF PressBegin
<1>5. CASE Pressed
  BY <1>5 DEF Pressed
<1>6. CASE ShortPress
  BY <1>6 DEF ShortPress
<1>7. CASE LongPress
  BY <1>7 DEF LongPress
<1>8. CASE CalibrateBegin
  BY <1>8 DEF CalibrateBegin
<1>9. CASE SaveToFlash
  BY <1>9 DEF SaveToFlash
<1>10. CASE CalibrateReturn
  BY <1>10 DEF CalibrateReturn
<1>11. CASE SendMsg
  BY <1>11 DEF SendMsg
<1>12. CASE WaitLine
  BY <1>12 DEF WaitLine
<1>13. CASE WaitTimeout
  BY <1>13 DEF WaitTimeout
<1>14. CASE WaitOverlong
  BY <1>14 DEF WaitOverlong
<1>15. CASE WaitAgain
  BY <1>15 DEF WaitAgain, OutcomeToCome
<1>16. CASE SendMsgReturn
  BY <1>16 DEF SendMsgReturn
<1>17. CASE JoinBegin
  BY <1>17, ScriptType DEF JoinBegin
<1>18. CASE FactoryResetReturn
  BY <1>18 DEF FactoryResetReturn
<1>19. CASE JoinReturn
  BY <1>19 DEF JoinReturn
<1>20. CASE IdleBegin
  BY <1>20 DEF IdleBegin
<1>21. CASE IdleReturn
  BY <1>21 DEF IdleReturn
<1>22. CASE MeasureBegin
  BY <1>22 DEF MeasureBegin
<1>23. CASE I2sOverflow
  BY <1>23 DEF I2sOverflow
<1>24. CASE MeasureReturn
  BY <1>24 DEF MeasureReturn
<1>25. CASE Process
  BY <1>25 DEF Process
<1>26. CASE TransmitBegin
  BY <1>26 DEF TransmitBegin
<1>27. CASE TransmitReturn
  BY <1>27 DEF TransmitReturn
<1>28. CASE ErrorHandler
  BY <1>28 DEF ErrorHandler
<1>29. CASE TimerCallback
  BY <1>29 DEF TimerCallback
<1>30. CASE Arrive
  BY <1>30 DEF Arrive
<1>31. CASE Lose
  BY <1>31 DEF Lose
<1>32. CASE ModemRestart
  BY <1>32 DEF ModemRestart
<1>33. CASE I2sStops
  BY <1>33 DEF I2sStops
<1>34. CASE UNCHANGED vars
  BY <1>34 DEF vars
<1> QED BY <1>1, <1>2, <1>3, <1>4, <1>5, <1>6, <1>7, <1>8, <1>9, <1>10, <1>11, <1>12,
           <1>13, <1>14, <1>15, <1>16, <1>17, <1>18, <1>19, <1>20, <1>21, <1>22, <1>23,
           <1>24, <1>25, <1>26, <1>27, <1>28, <1>29, <1>30, <1>31, <1>32, <1>33,
           <1>34
           DEF Next, Processor, Environment, PauseHangs, Starved, Halted, vars

\* Every way out of a timed wait stops the timer and clears the count.
LEMMA TimerStep == TimerQuiet /\ [Next]_vars => TimerQuiet'
<1> SUFFICES ASSUME TimerQuiet, [Next]_vars PROVE TimerQuiet'
  OBVIOUS
<1> USE DEF TimerQuiet, TimerSetup, TimerStop, appVars, callVars, timerVars, lineVars, modemVars
<1>1. CASE InitBegin
  BY <1>1 DEF InitBegin
<1>2. CASE InitReleaseModem
  BY <1>2 DEF InitReleaseModem
<1>3. CASE InitReturn
  BY <1>3 DEF InitReturn
<1>4. CASE PressBegin
  BY <1>4 DEF PressBegin
<1>5. CASE Pressed
  BY <1>5 DEF Pressed
<1>6. CASE ShortPress
  BY <1>6 DEF ShortPress
<1>7. CASE LongPress
  BY <1>7 DEF LongPress
<1>8. CASE CalibrateBegin
  BY <1>8 DEF CalibrateBegin
<1>9. CASE SaveToFlash
  BY <1>9 DEF SaveToFlash
<1>10. CASE CalibrateReturn
  BY <1>10 DEF CalibrateReturn
<1>11. CASE SendMsg
  BY <1>11 DEF SendMsg
<1>12. CASE WaitLine
  BY <1>12 DEF WaitLine
<1>13. CASE WaitTimeout
  BY <1>13 DEF WaitTimeout
<1>14. CASE WaitOverlong
  BY <1>14 DEF WaitOverlong
<1>15. CASE WaitAgain
  BY <1>15 DEF WaitAgain
<1>16. CASE SendMsgReturn
  BY <1>16 DEF SendMsgReturn
<1>17. CASE JoinBegin
  BY <1>17 DEF JoinBegin
<1>18. CASE FactoryResetReturn
  BY <1>18 DEF FactoryResetReturn
<1>19. CASE JoinReturn
  BY <1>19 DEF JoinReturn
<1>20. CASE IdleBegin
  BY <1>20 DEF IdleBegin
<1>21. CASE IdleReturn
  BY <1>21 DEF IdleReturn
<1>22. CASE MeasureBegin
  BY <1>22 DEF MeasureBegin
<1>23. CASE I2sOverflow
  BY <1>23 DEF I2sOverflow
<1>24. CASE MeasureReturn
  BY <1>24 DEF MeasureReturn
<1>25. CASE Process
  BY <1>25 DEF Process
<1>26. CASE TransmitBegin
  BY <1>26 DEF TransmitBegin
<1>27. CASE TransmitReturn
  BY <1>27 DEF TransmitReturn
<1>28. CASE ErrorHandler
  BY <1>28 DEF ErrorHandler
<1>29. CASE TimerCallback
  BY <1>29 DEF TimerCallback
<1>30. CASE Arrive
  BY <1>30 DEF Arrive
<1>31. CASE Lose
  BY <1>31 DEF Lose
<1>32. CASE ModemRestart
  BY <1>32 DEF ModemRestart
<1>33. CASE I2sStops
  BY <1>33 DEF I2sStops
<1>34. CASE UNCHANGED vars
  BY <1>34 DEF vars
<1> QED BY <1>1, <1>2, <1>3, <1>4, <1>5, <1>6, <1>7, <1>8, <1>9, <1>10, <1>11, <1>12,
           <1>13, <1>14, <1>15, <1>16, <1>17, <1>18, <1>19, <1>20, <1>21, <1>22, <1>23,
           <1>24, <1>25, <1>26, <1>27, <1>28, <1>29, <1>30, <1>31, <1>32, <1>33,
           <1>34
           DEF Next, Processor, Environment, PauseHangs, Starved, Halted, vars

\* A step of the superloop is a step of MonitorLifecycle, or changes nothing of it.
LEMMA LifecycleStep ==
  TypeOK /\ Place /\ [Next]_vars => [Lifecycle!Next]_(Lifecycle!vars)
<1> SUFFICES ASSUME TypeOK, Place, [Next]_vars
             PROVE  Lifecycle!Next \/ UNCHANGED Lifecycle!vars
  OBVIOUS
<1> USE DEF TypeOK, Place, Talking, OK, IfOK, appVars, callVars, timerVars, lineVars,
            modemVars, Lifecycle!Next, Lifecycle!vars, Lifecycle!Fault, Lifecycle!Boot,
            Lifecycle!Press, Lifecycle!Advance, Lifecycle!Refused, Lifecycle!Halt,
            Lifecycle!Successor, Lifecycle!Fallible
<1>1. CASE InitBegin
  BY <1>1 DEF InitBegin
<1>2. CASE InitReleaseModem
  BY <1>2 DEF InitReleaseModem
<1>3. CASE InitReturn
  BY <1>3 DEF InitReturn
<1>4. CASE PressBegin
  BY <1>4 DEF PressBegin
<1>5. CASE Pressed
  BY <1>5 DEF Pressed
<1>6. CASE ShortPress
  BY <1>6 DEF ShortPress
<1>7. CASE LongPress
  BY <1>7 DEF LongPress
<1>8. CASE CalibrateBegin
  BY <1>8 DEF CalibrateBegin
<1>9. CASE SaveToFlash
  BY <1>9 DEF SaveToFlash
<1>10. CASE CalibrateReturn
  BY <1>10 DEF CalibrateReturn
<1>11. CASE SendMsg
  BY <1>11 DEF SendMsg
<1>12. CASE WaitLine
  BY <1>12 DEF WaitLine
<1>13. CASE WaitTimeout
  BY <1>13 DEF WaitTimeout
<1>14. CASE WaitOverlong
  BY <1>14 DEF WaitOverlong
<1>15. CASE WaitAgain
  BY <1>15 DEF WaitAgain
<1>16. CASE SendMsgReturn
  BY <1>16 DEF SendMsgReturn
<1>17. CASE JoinBegin
  BY <1>17 DEF JoinBegin
<1>18. CASE FactoryResetReturn
  BY <1>18 DEF FactoryResetReturn
<1>19. CASE JoinReturn
  BY <1>19 DEF JoinReturn
<1>20. CASE IdleBegin
  BY <1>20 DEF IdleBegin
<1>21. CASE IdleReturn
  BY <1>21 DEF IdleReturn
<1>22. CASE MeasureBegin
  BY <1>22 DEF MeasureBegin
<1>23. CASE I2sOverflow
  BY <1>23 DEF I2sOverflow
<1>24. CASE MeasureReturn
  BY <1>24 DEF MeasureReturn
<1>25. CASE Process
  BY <1>25 DEF Process
<1>26. CASE TransmitBegin
  BY <1>26 DEF TransmitBegin
<1>27. CASE TransmitReturn
  BY <1>27 DEF TransmitReturn
<1>28. CASE ErrorHandler
  BY <1>28 DEF ErrorHandler
<1>29. CASE TimerCallback
  BY <1>29 DEF TimerCallback
<1>30. CASE Arrive
  BY <1>30 DEF Arrive
<1>31. CASE Lose
  BY <1>31 DEF Lose
<1>32. CASE ModemRestart
  BY <1>32 DEF ModemRestart
<1>33. CASE I2sStops
  BY <1>33 DEF I2sStops
<1>34. CASE UNCHANGED vars
  BY <1>34 DEF vars
<1> QED BY <1>1, <1>2, <1>3, <1>4, <1>5, <1>6, <1>7, <1>8, <1>9, <1>10, <1>11, <1>12,
           <1>13, <1>14, <1>15, <1>16, <1>17, <1>18, <1>19, <1>20, <1>21, <1>22, <1>23,
           <1>24, <1>25, <1>26, <1>27, <1>28, <1>29, <1>30, <1>31, <1>32, <1>33,
           <1>34
           DEF Next, Processor, Environment, PauseHangs, Starved, Halted, vars

-----------------------------------------------------------------------------
(* The theorems.                                                           *)

LEMMA Invariance == Spec => []IInv
<1>1. Init => IInv
  <2> SUFFICES ASSUME Init PROVE Place /\ TimerQuiet
    BY TypeInit DEF IInv
  <2>1. pc = "dispatch" /\ timerOn = FALSE /\ periods = 0
    BY DEF Init
  <2> QED BY <2>1 DEF Place, TimerQuiet
<1>2. IInv /\ [Next]_vars => IInv'
  BY TypeStep, PlaceStep, TimerStep DEF IInv
<1> QED BY <1>1, <1>2, PTL DEF Spec

\* Every variable holds what the C variable it stands for can hold, for every timer
\* frequency, timeout and number of channels and filters.
THEOREM TypeCorrect == Spec => []TypeOK
<1>1. IInv => TypeOK
  BY DEF IInv
<1> QED BY <1>1, Invariance, PTL

\* timer_40k runs only while pause_s(), waitForResponse() or wait_for_button_press()
\* counts its interrupts, and each of them starts counting at zero.
THEOREM TimerIsQuiet == Spec => []TimerQuiet
<1>1. IInv => TimerQuiet
  BY DEF IInv
<1> QED BY <1>1, Invariance, PTL

\* A handler is where appData.state says: APP_Tasks never returns into the middle of
\* another state's handler, and only join() and transmit() hold commands to send.
THEOREM PlaceCorrect == Spec => []Place
<1>1. IInv => Place
  BY DEF IInv
<1> QED BY <1>1, Invariance, PTL

\* The safety part of ImplementsLifecycle: the phases follow each other, a recorded
\* error leads to ERROR and ERROR never ends, as MonitorLifecycle says.
THEOREM LifecycleImplemented == Spec => Lifecycle!Init /\ [][Lifecycle!Next]_(Lifecycle!vars)
<1>1. Init => Lifecycle!Init
  BY DEF Init, Lifecycle!Init, OK
<1>2. IInv /\ [Next]_vars => [Lifecycle!Next]_(Lifecycle!vars)
  BY LifecycleStep DEF IInv
<1> QED BY <1>1, <1>2, Invariance, PTL DEF Spec

-----------------------------------------------------------------------------
(***************************************************************************)
(* Proofs about what the superloop and the modem say to each other.  Lines *)
(* may be late or lost and nothing discards old ones, and yet, as long as  *)
(* no error is recorded and the modem has not restarted by itself, every   *)
(* reply answers the command sent last: the reply a wait gave up on leaves *)
(* an error behind.  From that follow the promises of join() and           *)
(* transmit(), for every number of channels, timeout and delay.            *)
(***************************************************************************)

\* Without these two nothing is promised of the conversation.
Undisturbed == OK /\ restarts = 0

\* The handler of JOIN or TRANSMIT is between its first command and its return.
InTouch == \/ pc \in {"send", "return"}
           \/ pc \in {"wait", "answered"} /\ awaiting # "banner"

\* All commands of the handler that is running, and how many of them it has sent.
Asked == IF appState = "TRANSMIT" THEN <<Cmd("tx")>> ELSE Script(joinProcedure)
Done == Len(Asked) - Len(script) + (IF pc \in {"wait", "answered"} THEN 1 ELSE 0)

\* script is the end of Asked, cmd the last one sent of the rest.
Order ==
  InTouch =>
    /\ pc = "return" => script = <<>>
    /\ Len(script) <= Len(Asked)
    /\ \A i \in 1 .. Len(script) : script[i] = Asked[Len(Asked) - Len(script) + i]
    /\ Done >= 1 => /\ cmd = Asked[Done] /\ awaiting # "banner"
                    /\ awaiting = "second" => cmd.verb \in TwoReplies

\* Lines the modem has said and waitForResponse() has not returned.
Waiting  == Range(fifo) \union Range(wire)
OnTheWay == Len(fifo) + Len(wire)
NextLine == IF fifo # <<>> THEN Head(fifo) ELSE Head(wire)

\* What joined() computes of a line is whether the modem has joined.
Tells(line) == line.char7 \in Nat /\ (line.char7 % 2 = 1 <=> modem.joined)

\* A line answers the command sent last.
Answering(line) ==
  /\ line.fresh
  /\ awaiting = "first" /\ cmd.verb = "status" => Tells(line)
  /\ awaiting = "first" /\ cmd.verb = "get hweui" => line.text = "hweui"

\* What is on the way is the reply awaited, or the two replies, or less than that.
Count ==
  /\ pc \notin {"wait", "answered"} => OnTheWay = 0
  /\ pc = "wait" =>
       \/ OnTheWay <= 1
       \/ /\ OnTheWay = 2 /\ awaiting = "first"
          /\ cmd.verb \in TwoReplies /\ NextLine.text = "ok"
  /\ pc = "answered" => IF OutcomeToCome THEN OnTheWay <= 1 ELSE OnTheWay = 0

Heard == pc = "answered" \/ (pc \in {"send", "return"} /\ Done >= 1)

Conversation ==
  Undisturbed => /\ \A line \in Waiting : Answering(line)
                 /\ Heard => Answering(rxBuf)
                 /\ Count

\* Up to the transmission, Leq holds levels that have not been sent.
Levels ==
  /\ pc = "sample" => ~leq.sent
  /\ appState = "PROCESS" \/ (appState = "TRANSMIT" /\ pc \in {"dispatch", "send"})
       => leq.holds = "level" /\ ~leq.sent

\* After the first n commands of SetAllAndSave the modem m holds the parameters that
\* they set, those set before the reset too: the save comes before it.
SavePoint == 2 * NUM_CHANNELS + 10
SetUpTo(n, m) ==
  /\ \A i \in 1 .. n :
       SetAllAndSave[i].verb = "set" => SetAllAndSave[i].param \in m.live
  /\ n >= SavePoint => SavedParams \subseteq m.saved

Configured ==
  (/\ InTouch /\ Undisturbed
   /\ appState = "JOIN" /\ joinProcedure = "SET_ALL_PARAMS_AND_SAVE")
    => SetUpTo(Done, modem)

\* init() finds no command sent yet: what it waits for is not the reply to a join.
Boot == appState = "INIT" => cmd = Cmd("status")

-----------------------------------------------------------------------------
(* Steps that have nothing to do with the conversation.                    *)

Connected == {"IDLE", "MEASURE", "PROCESS", "TRANSMIT"}

\* A step of a handler that does not talk to the modem: it leaves the line and the
\* modem alone, clears no error, and does not get onto the network.
Elsewhere ==
  /\ UNCHANGED <<script, cmd, awaiting, lineVars, modemVars, joinProcedure>>
  /\ OK' => OK
  /\ appState' \in Connected => appState \in Connected
  /\ \/ pc' = pc /\ appState' = appState
     \/ /\ pc \notin {"send", "wait", "answered", "return"}
        /\ pc' \notin {"send", "wait", "answered", "return"}

LEMMA ElsewhereSteps ==
  ASSUME TypeOK, Place,
         \/ InitBegin \/ PressBegin \/ Pressed \/ ShortPress \/ LongPress
         \/ CalibrateBegin \/ SaveToFlash \/ CalibrateReturn \/ IdleBegin \/ IdleReturn
         \/ MeasureBegin \/ I2sOverflow \/ I2sStops \/ MeasureReturn \/ Process
         \/ ErrorHandler \/ TimerCallback \/ UNCHANGED vars
  PROVE  Elsewhere
<1> USE DEF Elsewhere, Connected, OK, IfOK, TypeOK, Place, appVars, callVars, timerVars,
            lineVars, modemVars
<1>1. CASE InitBegin
  BY <1>1 DEF InitBegin
<1>2. CASE PressBegin
  BY <1>2 DEF PressBegin
<1>3. CASE Pressed
  BY <1>3 DEF Pressed
<1>4. CASE ShortPress
  BY <1>4 DEF ShortPress
<1>5. CASE LongPress
  BY <1>5 DEF LongPress
<1>6. CASE CalibrateBegin
  BY <1>6 DEF CalibrateBegin
<1>7. CASE SaveToFlash
  BY <1>7 DEF SaveToFlash
<1>8. CASE CalibrateReturn
  BY <1>8 DEF CalibrateReturn
<1>9. CASE IdleBegin
  BY <1>9 DEF IdleBegin
<1>10. CASE IdleReturn
  BY <1>10 DEF IdleReturn
<1>11. CASE MeasureBegin
  BY <1>11 DEF MeasureBegin
<1>12. CASE I2sOverflow
  BY <1>12 DEF I2sOverflow
<1>13. CASE I2sStops
  BY <1>13 DEF I2sStops
<1>14. CASE MeasureReturn
  BY <1>14 DEF MeasureReturn
<1>15. CASE Process
  BY <1>15 DEF Process
<1>16. CASE ErrorHandler
  BY <1>16 DEF ErrorHandler
<1>17. CASE TimerCallback
  BY <1>17 DEF TimerCallback
<1>18. CASE UNCHANGED vars
  BY <1>18 DEF vars
<1> QED BY <1>1, <1>2, <1>3, <1>4, <1>5, <1>6, <1>7, <1>8, <1>9, <1>10, <1>11, <1>12,
           <1>13, <1>14, <1>15, <1>16, <1>17, <1>18

\* The others, in the groups the proofs below take them in.
Gave == WaitTimeout \/ WaitOverlong
OnLine == Arrive \/ Lose
Begins == JoinBegin \/ TransmitBegin
Returns == InitReturn \/ FactoryResetReturn \/ JoinReturn \/ TransmitReturn

LEMMA StepKinds ==
  ASSUME TypeOK, Place, [Next]_vars
  PROVE  \/ Elsewhere \/ InitReleaseModem \/ SendMsg \/ WaitLine \/ Gave \/ WaitAgain
         \/ SendMsgReturn \/ Begins \/ Returns \/ OnLine \/ ModemRestart
<1>1. CASE \/ InitBegin \/ PressBegin \/ Pressed \/ ShortPress \/ LongPress
           \/ CalibrateBegin \/ SaveToFlash \/ CalibrateReturn \/ IdleBegin \/ IdleReturn
           \/ MeasureBegin \/ I2sOverflow \/ I2sStops \/ MeasureReturn \/ Process
           \/ ErrorHandler \/ TimerCallback \/ UNCHANGED vars
  BY <1>1, ElsewhereSteps
<1>2. CASE \/ InitReleaseModem \/ SendMsg \/ WaitLine \/ WaitTimeout \/ WaitOverlong
           \/ WaitAgain \/ SendMsgReturn \/ JoinBegin \/ TransmitBegin \/ InitReturn
           \/ FactoryResetReturn \/ JoinReturn \/ TransmitReturn \/ Arrive \/ Lose
           \/ ModemRestart
  BY <1>2 DEF Gave, OnLine, Begins, Returns
<1> QED BY <1>1, <1>2 DEF Next, Processor, Environment, PauseHangs, Starved, Halted

-----------------------------------------------------------------------------
(* The order of the commands.                                              *)

LEMMA AskedType ==
  ASSUME TypeOK
  PROVE  Asked \in Seq(Commands) /\ Len(Asked) \in Nat
<1>1. Cmd("tx") \in Commands
  BY DEF Commands, Verbs
<1>2. <<Cmd("tx")>> \in Seq(Commands)
  BY <1>1
<1>3. Script(joinProcedure) \in Seq(Commands)
  BY ScriptType DEF TypeOK
<1>4. Asked \in Seq(Commands)
  BY <1>2, <1>3 DEF Asked
<1> QED BY <1>4, LenProperties

LEMMA OrderStep ==
  ASSUME TypeOK, Place, Order, [Next]_vars
  PROVE  Order'
<1>1. Asked \in Seq(Commands) /\ Len(Asked) \in Nat /\ Len(script) \in Nat
  BY AskedType, LenProperties DEF TypeOK
<1>2. ASSUME UNCHANGED <<appState, joinProcedure, script, cmd, awaiting>>,
             \/ pc' = pc
             \/ pc \in {"wait", "answered"} /\ pc' \in {"wait", "answered"}
      PROVE  Order'
  <2>1. Asked' = Asked
    BY <1>2 DEF Asked
  <2>2. Done' = Done
    BY <1>2, <2>1 DEF Done
  <2>3. InTouch' => InTouch
    BY <1>2 DEF InTouch
  <2> QED BY <1>2, <2>1, <2>2, <2>3 DEF Order
<1>3. ASSUME ~InTouch' PROVE Order'
  BY <1>3 DEF Order
<1>4. CASE Elsewhere
  <2>1. CASE pc' = pc /\ appState' = appState
    BY <1>2, <1>4, <2>1 DEF Elsewhere
  <2>2. CASE pc' \notin {"send", "wait", "answered", "return"}
    BY <1>3, <2>2 DEF InTouch
  <2> QED BY <1>4, <2>1, <2>2 DEF Elsewhere
<1>5. CASE InitReleaseModem
  BY <1>3, <1>5 DEF InitReleaseModem, InTouch
<1>6. CASE SendMsg
  <2>1. Asked' = Asked
    BY <1>6 DEF SendMsg, Asked, appVars
  <2>2. InTouch /\ script # <<>> /\ UNCHANGED script /\ pc = "send" /\ pc' = "wait"
    BY <1>6 DEF SendMsg, InTouch, Place, Talking
  <2>3. Len(script) \in Nat \ {0}
    BY <2>2, EmptySeq DEF TypeOK
  <2>4. Done' = Len(Asked) - Len(script) + 1
    BY <2>1, <2>2 DEF Done
  <2>5. script[1] = Asked[Len(Asked) - Len(script) + 1]
    BY <2>2, <2>3 DEF Order
  <2>6. cmd' = script[1]
    BY <1>6, <2>2 DEF SendMsg
  <2>7. awaiting' = "first"
    BY <1>6 DEF SendMsg
  <2> QED BY <2>1, <2>2, <2>4, <2>5, <2>6, <2>7 DEF Order
<1>7. CASE WaitLine
  BY <1>2, <1>7 DEF WaitLine, appVars, callVars
<1>8. CASE Gave
  BY <1>2, <1>8 DEF Gave, WaitTimeout, WaitOverlong, appVars, callVars
<1>9. CASE WaitAgain
  <2>1. Asked' = Asked /\ Done' = Done
    BY <1>9 DEF WaitAgain, Asked, Done, appVars
  <2>2. /\ InTouch /\ awaiting = "first" /\ cmd.verb \in TwoReplies /\ awaiting' = "second"
        /\ UNCHANGED <<script, cmd>> /\ pc' = "wait"
    BY <1>9 DEF WaitAgain, OutcomeToCome, InTouch
  <2> QED BY <2>1, <2>2 DEF Order
<1>10. CASE SendMsgReturn
  <2>1. /\ Asked' = Asked /\ InTouch /\ UNCHANGED <<cmd, awaiting>>
        /\ awaiting # "banner" /\ pc = "answered" /\ script # <<>>
    BY <1>10 DEF SendMsgReturn, Asked, InTouch, appVars, Place, Talking
  <2>2. script' = Tail(script) /\ pc' = IF script' = <<>> THEN "return" ELSE "send"
    BY <1>10 DEF SendMsgReturn
  <2>3. /\ script' \in Seq(Commands) /\ Len(script') = Len(script) - 1
        /\ \A i \in 1 .. Len(script') : script'[i] = script[i + 1]
    BY <2>1, <2>2, HeadTailProperties DEF TypeOK
  <2>4. Done' = Done /\ Done = Len(Asked) - Len(script) + 1
    BY <1>1, <2>1, <2>2, <2>3 DEF Done
  <2>5. /\ Len(script) <= Len(Asked)
        /\ \A i \in 1 .. Len(script) : script[i] = Asked[Len(Asked) - Len(script) + i]
        /\ Done >= 1 => cmd = Asked[Done] /\ (awaiting = "second" => cmd.verb \in TwoReplies)
    BY <2>1 DEF Order
  <2>6. Len(script') <= Len(Asked)
    BY <1>1, <2>3, <2>5
  <2>7. ASSUME NEW i \in 1 .. Len(script')
        PROVE  script'[i] = Asked'[Len(Asked') - Len(script') + i]
    <3>1. i + 1 \in 1 .. Len(script)
      BY <1>1, <2>3
    <3>2. Len(Asked) - Len(script) + (i + 1) = Len(Asked) - Len(script') + i
      BY <1>1, <2>3
    <3> QED BY <2>1, <2>3, <2>5, <3>1, <3>2
  <2>8. pc' = "return" => script' = <<>>
    BY <2>2
  <2> QED BY <2>1, <2>4, <2>5, <2>6, <2>7, <2>8 DEF Order
<1>11. CASE Begins
  <2>1. script' = Asked' /\ pc' = "send"
    BY <1>11 DEF Begins, JoinBegin, TransmitBegin, Asked, appVars
  <2>2. Done' = 0 /\ Len(script') \in Nat
    <3>1. Asked' = Asked
      BY <1>11 DEF Begins, JoinBegin, TransmitBegin, Asked, appVars
    <3> QED BY <1>1, <2>1, <3>1 DEF Done
  <2>3. /\ Len(script') <= Len(Asked')
        /\ \A i \in 1 .. Len(script') : script'[i] = Asked'[Len(Asked') - Len(script') + i]
    BY <2>1, <2>2
  <2> QED BY <2>1, <2>2, <2>3 DEF Order
<1>12. CASE Returns
  BY <1>3, <1>12 DEF Returns, InitReturn, FactoryResetReturn, JoinReturn, TransmitReturn, InTouch
<1>13. CASE OnLine
  BY <1>2, <1>13 DEF OnLine, Arrive, Lose, appVars, callVars
<1>14. CASE ModemRestart
  BY <1>2, <1>14 DEF ModemRestart, appVars, callVars
<1> QED BY <1>4, <1>5, <1>6, <1>7, <1>8, <1>9, <1>10, <1>11, <1>12, <1>13, <1>14, StepKinds

-----------------------------------------------------------------------------
(* Lines on the way.                                                       *)

LEMMA TailRange ==
  ASSUME NEW S, NEW q \in Seq(S), q # <<>>
  PROVE  /\ Head(q) \in Range(q) /\ Range(Tail(q)) \subseteq Range(q)
         /\ Len(q) \in Nat \ {0} /\ Len(Tail(q)) = Len(q) - 1
<1>1. Len(q) \in Nat \ {0}
  BY EmptySeq
<1>2. /\ Tail(q) \in Seq(S) /\ Len(Tail(q)) = Len(q) - 1
      /\ \A i \in 1 .. Len(Tail(q)) : Tail(q)[i] = q[i + 1]
  BY HeadTailProperties
<1>3. /\ Range(q) = {q[i] : i \in 1 .. Len(q)}
      /\ Range(Tail(q)) = {Tail(q)[i] : i \in 1 .. Len(Tail(q))}
  BY <1>2, RangeEquality
<1>4. Head(q) = q[1]
  BY <1>1
<1>5. \A i \in 1 .. Len(Tail(q)) : i + 1 \in 1 .. Len(q)
  BY <1>1, <1>2
<1> QED BY <1>1, <1>2, <1>3, <1>4, <1>5

LEMMA AppendRange ==
  ASSUME NEW S, NEW q \in Seq(S), NEW e \in S
  PROVE  Range(Append(q, e)) \subseteq Range(q) \union {e}
<1>1. /\ Append(q, e) \in Seq(S) /\ Len(Append(q, e)) = Len(q) + 1
      /\ \A i \in 1 .. Len(q) : Append(q, e)[i] = q[i]
      /\ Append(q, e)[Len(q) + 1] = e
  BY AppendProperties
<1>2. Range(q) = {q[i] : i \in 1 .. Len(q)}
  BY RangeEquality
<1>3. Range(Append(q, e)) = {Append(q, e)[i] : i \in 1 .. Len(q) + 1}
  BY <1>1, RangeEquality
<1>4. Len(q) \in Nat
  BY LenProperties
<1>5. \A i \in 1 .. Len(q) + 1 : i \in 1 .. Len(q) \/ i = Len(q) + 1
  BY <1>4
<1> QED BY <1>1, <1>2, <1>3, <1>5

LEMMA LengthsType ==
  ASSUME TypeOK
  PROVE  Len(fifo) \in Nat /\ Len(wire) \in Nat /\ OnTheWay \in Nat
<1>1. fifo \in Seq(Tagged) /\ wire \in Seq(Tagged)
  BY DEF TypeOK
<1>2. Len(fifo) \in Nat /\ Len(wire) \in Nat
  BY <1>1, LenProperties
<1> QED BY <1>2 DEF OnTheWay

\* On the line, lines get lost and none appear; while none is lost the next one
\* to be read stays the next one.
LEMMA LineMoves ==
  ASSUME TypeOK, OnLine
  PROVE  /\ Waiting' \subseteq Waiting
         /\ OnTheWay' <= OnTheWay
         /\ OnTheWay' = OnTheWay => NextLine' = NextLine
<1>1. fifo \in Seq(Tagged) /\ wire \in Seq(Tagged) /\ wire # <<>> /\ wire' = Tail(wire)
  BY DEF TypeOK, OnLine, Arrive, Lose
<1>2. /\ Head(wire) \in Range(wire) /\ Range(Tail(wire)) \subseteq Range(wire)
      /\ Len(wire) \in Nat \ {0} /\ Len(Tail(wire)) = Len(wire) - 1
  BY <1>1, TailRange
<1>3. Head(wire) \in Tagged
  BY <1>1, HeadTailProperties
<1>4. Len(fifo) \in Nat
  BY LengthsType
<1>5. CASE fifo' = fifo
  BY <1>1, <1>2, <1>4, <1>5 DEF Waiting, OnTheWay
<1>6. CASE fifo' = Append(fifo, Head(wire))
  <2>1. Waiting' \subseteq Waiting
    <3>1. Range(fifo') \subseteq Range(fifo) \union {Head(wire)}
      BY <1>1, <1>3, <1>6, AppendRange
    <3> QED BY <1>1, <1>2, <3>1 DEF Waiting
  <2>2. OnTheWay' = OnTheWay
    <3>1. Len(fifo') = Len(fifo) + 1
      BY <1>1, <1>3, <1>6, AppendProperties
    <3> QED BY <1>1, <1>2, <1>4, <3>1 DEF OnTheWay
  <2>3. NextLine' = NextLine
    <3>1. fifo' # <<>> /\ Head(fifo') = IF fifo = <<>> THEN Head(wire) ELSE Head(fifo)
      BY <1>1, <1>3, <1>6, AppendProperties, HeadTailAppend
    <3> QED BY <3>1 DEF NextLine
  <2>4. OnTheWay \in Nat
    BY LengthsType
  <2> QED BY <2>1, <2>2, <2>3, <2>4
<1> QED BY <1>5, <1>6 DEF OnLine, Arrive, Lose

\* Nothing is on the way when none are counted.
LEMMA NothingOnTheWay ==
  ASSUME TypeOK, OnTheWay = 0
  PROVE  fifo = <<>> /\ wire = <<>>
<1>1. Len(fifo) = 0 /\ Len(wire) = 0
  BY LengthsType DEF OnTheWay
<1>2. fifo \in Seq(Tagged) /\ wire \in Seq(Tagged)
  BY DEF TypeOK
<1> QED BY <1>1, <1>2, EmptySeq

LEMMA EmptyRange ==
  Range(<<>>) = {}
BY DEF Range

-----------------------------------------------------------------------------
(* What the modem answers.                                                 *)

\* One reply, or "ok" and the outcome to a command that has two; no other reply to
\* a status or a request for the hweui than what was asked.
Reply(lines, m, x, c) ==
  /\ x \in Modem /\ lines \in Seq(Lines)
  /\ \/ Len(lines) = 1
     \/ Len(lines) = 2 /\ c.verb \in TwoReplies /\ lines[1].text = "ok"
  /\ c.verb = "status" =>
       /\ x = m /\ Len(lines) = 1
       /\ lines[1].char7 \in Nat /\ (lines[1].char7 % 2 = 1 <=> m.joined)
  /\ c.verb = "get hweui" => Len(lines) = 1 /\ lines[1].text = "hweui"
  /\ c.verb = "tx" => x = m

LEMMA RepliesTo ==
  ASSUME NEW m \in Modem, NEW c \in Commands, NEW arg, NEW a \in Answers(m, c, arg)
  PROVE  Reply(a.replies, m, a.modem, c)
<1> USE DEF Reply
<1>1. a.modem \in Modem /\ a.replies \in Seq(Lines)
  <2>1. a \in AnswerSet
    BY AnswersType
  <2> QED BY <2>1 DEF AnswerSet
<1>2. ASSUME NEW x, NEW t, a \in One(x, t)
      PROVE  Len(a.replies) = 1 /\ a.modem = x /\ a.replies[1].text = t
  BY <1>2 DEF One, Says, Line
<1>3. ASSUME NEW x, NEW t, a \in OkThen(x, t)
      PROVE  Len(a.replies) = 2 /\ a.modem = x /\ a.replies[1].text = "ok"
  BY <1>3 DEF OkThen, Says, Line
<1>4. CASE c = Cmd("factoryRESET")
  <2>1. c.verb = "factoryRESET" /\ a \in One(Restart([m EXCEPT !.saved = {}]), "banner")
    BY <1>4 DEF Answers, Cmd
  <2> QED BY <1>1, <1>2, <2>1
<1>10. CASE c = Cmd("reset")
  BY <1>1, <1>2, <1>10 DEF Answers, Cmd
<1>11. CASE c = Cmd("save")
  BY <1>1, <1>2, <1>11 DEF Answers, Cmd
<1>5. CASE c = Cmd("get hweui")
  BY <1>1, <1>2, <1>5 DEF Answers, Cmd
<1>6. ASSUME NEW p \in Params, c = Set(p)
      PROVE  c.verb = "set" /\ Len(a.replies) = 1
  <2>1. c.verb = "set" /\ a \in SetAnswers(m, p, arg)
    BY <1>6 DEF Answers, Set
  <2> QED BY <1>2, <2>1 DEF SetAnswers
<1>7. CASE c = Cmd("join")
  <2>1. c.verb = "join" /\ a \in JoinAnswers(m)
    BY <1>7 DEF Answers, Cmd
  <2>2. Len(a.replies) = 1 \/ (Len(a.replies) = 2 /\ a.replies[1].text = "ok")
    BY <1>2, <1>3, <2>1 DEF JoinAnswers
  <2> QED BY <1>1, <2>1, <2>2 DEF TwoReplies
<1>8. CASE c = Cmd("tx")
  <2>1. c.verb = "tx" /\ a \in TxAnswers(m)
    BY <1>8 DEF Answers, Cmd
  <2>2. /\ Len(a.replies) = 1 \/ (Len(a.replies) = 2 /\ a.replies[1].text = "ok")
        /\ a.modem = m
    BY <1>2, <1>3, <2>1 DEF TxAnswers
  <2> QED BY <1>1, <2>1, <2>2 DEF TwoReplies
<1>9. CASE c = Cmd("status")
  <2>1. PICK b \in MacBits : a = Says(m, <<StatusLine(m.joined, b)>>)
    BY <1>9 DEF Answers, Cmd
  <2>2. /\ a.modem = m /\ Len(a.replies) = 1
        /\ a.replies[1].char7 = 48 + 2 * b + (IF m.joined THEN 1 ELSE 0)
    BY <2>1 DEF Says, StatusLine
  <2>3. b \in 0 .. 4 /\ m.joined \in BOOLEAN
    BY Rn2903Assumption DEF Rn2903Assumption, Modem
  <2>4. a.replies[1].char7 \in Nat /\ (a.replies[1].char7 % 2 = 1 <=> m.joined)
    BY <2>2, <2>3
  <2> QED BY <1>1, <1>9, <2>2, <2>4 DEF Cmd
<1> QED BY <1>1, <1>4, <1>5, <1>6, <1>7, <1>8, <1>9, <1>10, <1>11 DEF Commands, Verbs

-----------------------------------------------------------------------------
(* One conversation at a time.                                             *)

\* Errors are kept, and the modem does not take a restart back; a wait that gives
\* up records an error.
LEMMA UndisturbedBefore ==
  ASSUME TypeOK, Place, [Next]_vars, Undisturbed'
  PROVE  Undisturbed /\ ~Gave /\ ~ModemRestart
<1>3. ~ModemRestart
  <2>1. ModemRestart => restarts' = restarts + 1
    BY DEF ModemRestart
  <2>2. restarts \in Nat
    BY MonitorAssumption DEF TypeOK, MonitorAssumption
  <2> QED BY <2>1, <2>2 DEF Undisturbed
<1> USE DEF Undisturbed, OK, appVars, modemVars
<1>1. CASE Elsewhere
  <2>1. Undisturbed
    BY <1>1 DEF Elsewhere
  <2>2. ~Gave
    BY DEF Gave, WaitTimeout, WaitOverlong
  <2>3. ~ModemRestart
    BY <1>3
  <2> QED BY <2>1, <2>2, <2>3
<1>2. ~Gave
  BY DEF Gave, WaitTimeout, WaitOverlong
<1>4. CASE InitReleaseModem
  BY <1>2, <1>3, <1>4 DEF InitReleaseModem
<1>5. CASE SendMsg
  BY <1>2, <1>3, <1>5 DEF SendMsg
<1>6. CASE WaitLine
  BY <1>2, <1>3, <1>6 DEF WaitLine
<1>7. CASE WaitAgain \/ SendMsgReturn
  BY <1>2, <1>3, <1>7 DEF WaitAgain, SendMsgReturn
<1>8. CASE Begins
  BY <1>2, <1>3, <1>8 DEF Begins, JoinBegin, TransmitBegin
<1>9. CASE Returns
  BY <1>2, <1>3, <1>9 DEF Returns, InitReturn, FactoryResetReturn, JoinReturn, TransmitReturn
<1>10. CASE OnLine
  BY <1>2, <1>3, <1>10 DEF OnLine, Arrive, Lose
<1> QED BY <1>1, <1>2, <1>3, <1>4, <1>5, <1>6, <1>7, <1>8, <1>9, <1>10, StepKinds

\* Marking lines as fresh changes nothing else of them.
LEMMA MarkedLines ==
  ASSUME NEW lines \in Seq(Lines)
  PROVE  /\ Mark(lines, TRUE) \in Seq(Tagged) /\ Len(Mark(lines, TRUE)) = Len(lines)
         /\ \A i \in 1 .. Len(lines) :
              /\ Mark(lines, TRUE)[i].text = lines[i].text
              /\ Mark(lines, TRUE)[i].char7 = lines[i].char7
         /\ \A i \in 1 .. Len(lines) : Mark(lines, TRUE)[i].fresh
<1>0. PICK f \in BOOLEAN : f = TRUE
  OBVIOUS
<1> DEFINE w == Mark(lines, f)
<1>1. w \in Seq(Tagged) /\ Len(w) = Len(lines)
  BY MarkType DEF Lines
<1>2. DOMAIN lines = 1 .. Len(lines)
  BY LenProperties
<1>3. \A i \in 1 .. Len(lines) :
        w[i] = [text |-> lines[i].text, char7 |-> lines[i].char7, fresh |-> f]
  BY <1>2 DEF Mark
<1> HIDE DEF w
<1>4. ASSUME NEW i \in 1 .. Len(lines)
      PROVE  w[i].text = lines[i].text /\ w[i].char7 = lines[i].char7 /\ (f => w[i].fresh)
  <2>1. w[i] = [text |-> lines[i].text, char7 |-> lines[i].char7, fresh |-> f]
    BY <1>3
  <2> QED BY <2>1
<1>5. \A i \in 1 .. Len(lines) : w[i].fresh
  BY <1>0, <1>4
<1>6. w = Mark(lines, TRUE)
  BY <1>0 DEF w
<1> QED BY <1>1, <1>4, <1>5, <1>6

\* What is on the line, w, when c was sent and left the modem as m.
Replies(w, c, m) ==
  /\ w \in Seq(Tagged)
  /\ \A i \in 1 .. Len(w) : w[i].fresh
  /\ Len(w) = 1 \/ (Len(w) = 2 /\ c.verb \in TwoReplies /\ w[1].text = "ok")
  /\ c.verb = "status" =>
       Len(w) = 1 /\ w[1].char7 \in Nat /\ (w[1].char7 % 2 = 1 <=> m.joined)
  /\ c.verb = "get hweui" => Len(w) = 1 /\ w[1].text = "hweui"

LEMMA RepliesMarked ==
  ASSUME NEW m, NEW x, NEW c, NEW lines, Reply(lines, m, x, c)
  PROVE  Replies(Mark(lines, TRUE), c, x)
<1>1. lines \in Seq(Lines) /\ Len(lines) \in {1, 2}
  BY DEF Reply
<1> DEFINE w == Mark(lines, TRUE)
<1>2. /\ w \in Seq(Tagged) /\ Len(w) = Len(lines)
      /\ \A i \in 1 .. Len(lines) : w[i].text = lines[i].text /\ w[i].char7 = lines[i].char7
  BY <1>1, MarkedLines
<1>7. \A i \in 1 .. Len(lines) : w[i].fresh
  BY <1>1, MarkedLines
<1> HIDE DEF w
<1>3. /\ w[1].text = lines[1].text /\ w[1].char7 = lines[1].char7
      /\ \A i \in 1 .. Len(w) : w[i].fresh
  <2>1. 1 \in 1 .. Len(lines)
    BY <1>1
  <2> QED BY <1>2, <1>7, <2>1
<1>5. /\ \/ Len(w) = 1
         \/ Len(w) = 2 /\ c.verb \in TwoReplies /\ w[1].text = "ok"
      /\ c.verb = "get hweui" => Len(w) = 1 /\ w[1].text = "hweui"
  BY <1>2, <1>3 DEF Reply
<1>6. c.verb = "status" =>
        Len(w) = 1 /\ w[1].char7 \in Nat /\ (w[1].char7 % 2 = 1 <=> x.joined)
  BY <1>2, <1>3 DEF Reply
<1>4. Replies(w, c, x)
  BY <1>2, <1>3, <1>5, <1>6 DEF Replies
<1> QED BY <1>4 DEF w

\* A command goes out over a silent line, and the line then holds its replies.
LEMMA SentOverSilence ==
  ASSUME TypeOK, Place, Conversation, Undisturbed, SendMsg
  PROVE  fifo' = <<>> /\ Replies(wire', cmd', modem')
<1>1. pc = "send" /\ script # <<>>
  BY DEF SendMsg, Place, Talking
<1>2. cmd' \in Commands
  BY <1>1, HeadTailProperties DEF SendMsg, TypeOK
<1>3. fifo = <<>> /\ wire = <<>>
  <2>1. OnTheWay = 0
    BY <1>1 DEF Conversation, Count
  <2> QED BY <2>1, NothingOnTheWay
<1>4. \A q \in Seq(Tagged), f \in BOOLEAN : q = <<>> => Mark(q, f) = <<>>
  <2> SUFFICES ASSUME NEW q \in Seq(Tagged), NEW f \in BOOLEAN, q = <<>>
               PROVE  Mark(q, f) = <<>>
    OBVIOUS
  <2>1. Mark(q, f) \in Seq(Tagged) /\ Len(Mark(q, f)) = Len(q)
    BY MarkType DEF Tagged
  <2> QED BY <2>1, EmptySeq
<1>5. fifo' = <<>> /\ Late = <<>>
  <2>1. fifo \in Seq(Tagged) /\ wire \in Seq(Tagged)
    BY DEF TypeOK
  <2>2. fifo' = Mark(fifo, FALSE)
    BY DEF SendMsg
  <2> QED BY <1>3, <1>4, <2>1, <2>2 DEF Late
<1>6. PICK m \in Modem, c \in Commands, arg \in {rxBuf.text} : m = modem /\ c = cmd'
  BY <1>2 DEF TypeOK
<1>7. PICK a \in Answers(m, c, arg) :
        modem' = a.modem /\ wire' = Late \o Mark(a.replies, TRUE)
  BY <1>6 DEF SendMsg
<1>8. Replies(Mark(a.replies, TRUE), c, a.modem)
  BY RepliesTo, RepliesMarked
<1>9. wire' = Mark(a.replies, TRUE)
  <2>1. Mark(a.replies, TRUE) \in Seq(Tagged)
    BY <1>8 DEF Replies
  <2> QED BY <1>5, <1>7, <2>1, ConcatEmptySeq
<1> QED BY <1>5, <1>6, <1>7, <1>8, <1>9

\* While the command, the wait and the modem stay, lines that remain keep answering.
LEMMA StillAnswering ==
  ASSUME \A line \in Waiting : Answering(line),
         UNCHANGED <<cmd, awaiting, modem>>, Waiting' \subseteq Waiting
  PROVE  \A line \in Waiting' : Answering(line)'
BY DEF Answering, Tells

\* SendMsg: the replies answer the command, and are the only lines on the way.
LEMMA ConversationSend ==
  ASSUME TypeOK, Place, Conversation, Undisturbed, SendMsg
  PROVE  Conversation'
<1>1. pc' = "wait" /\ awaiting' = "first"
  BY DEF SendMsg
<1>2. fifo' = <<>> /\ Replies(wire', cmd', modem')
  BY SentOverSilence
<1>3. Len(wire') \in {1, 2}
  BY <1>2 DEF Replies
<1>4. /\ Waiting' = {wire'[i] : i \in 1 .. Len(wire')}
      /\ OnTheWay' = Len(wire')
      /\ NextLine' = wire'[1]
  <2>1. Range(fifo') = {} /\ Len(fifo') = 0
    BY <1>2, EmptyRange
  <2>2. wire' \in Seq(Tagged)
    BY <1>2 DEF Replies
  <2>3. Range(wire') = {wire'[i] : i \in 1 .. Len(wire')}
    BY <2>2, RangeEquality
  <2>4. NextLine' = wire'[1]
    BY <1>2, <1>3, <2>2 DEF NextLine
  <2> QED BY <1>3, <2>1, <2>3, <2>4 DEF Waiting, OnTheWay
<1>5. ASSUME NEW line \in Waiting' PROVE Answering(line)'
  <2>1. PICK i \in 1 .. Len(wire') : line = wire'[i]
    BY <1>4
  <2>2. line.fresh
    BY <1>2, <2>1 DEF Replies
  <2>3. Len(wire') = 1 => line = wire'[1]
    BY <2>1
  <2>4. cmd'.verb = "status" => Tells(line)'
    BY <1>2, <2>3 DEF Replies, Tells
  <2>5. cmd'.verb = "get hweui" => line.text = "hweui"
    BY <1>2, <2>3 DEF Replies
  <2> QED BY <2>2, <2>4, <2>5 DEF Answering
<1>6. ~Heard'
  BY <1>1 DEF Heard
<1>7. Count'
  <2>1. OnTheWay' = 1 \/ (OnTheWay' = 2 /\ cmd'.verb \in TwoReplies /\ NextLine'.text = "ok")
    BY <1>2, <1>4 DEF Replies
  <2> QED BY <1>1, <2>1 DEF Count
<1> QED BY <1>5, <1>6, <1>7 DEF Conversation

\* WaitLine takes the next line; of two replies the outcome remains.
LEMMA ConversationLine ==
  ASSUME TypeOK, Place, Conversation, Undisturbed, WaitLine
  PROVE  Conversation'
<1>1. /\ pc = "wait" /\ fifo # <<>> /\ fifo' = Tail(fifo) /\ pc' = "answered"
      /\ UNCHANGED <<cmd, awaiting, wire, modem>>
      /\ rxBuf' = [Head(fifo) EXCEPT !.char7 = IF @ = Untouched THEN rxBuf.char7 ELSE @]
  BY DEF WaitLine, callVars, modemVars
<1>2. fifo \in Seq(Tagged) /\ Head(fifo) \in Tagged
  BY <1>1, HeadTailProperties DEF TypeOK
<1>3. /\ Head(fifo) \in Range(fifo) /\ Range(fifo') \subseteq Range(fifo)
      /\ Len(fifo) \in Nat \ {0} /\ Len(fifo') = Len(fifo) - 1
  BY <1>1, <1>2, TailRange
<1>4. \A line \in Waiting' : Answering(line)'
  <2>1. Waiting' \subseteq Waiting
    BY <1>1, <1>3 DEF Waiting
  <2> QED BY <1>1, <2>1, StillAnswering DEF Conversation
<1>5. Answering(Head(fifo))
  BY <1>3 DEF Conversation, Waiting
<1>6. /\ rxBuf'.text = Head(fifo).text /\ rxBuf'.fresh = Head(fifo).fresh
      /\ Head(fifo).char7 # Untouched => rxBuf'.char7 = Head(fifo).char7
  BY <1>1, <1>2 DEF Tagged
<1>7. Answering(rxBuf)'
  <2>1. Tells(Head(fifo)) => Tells(rxBuf)'
    BY <1>1, <1>6 DEF Tells, Untouched
  <2> QED BY <1>1, <1>5, <1>6, <2>1 DEF Answering
<1>8. OnTheWay' = OnTheWay - 1 /\ OnTheWay \in Nat
  BY <1>1, <1>3, LengthsType DEF OnTheWay
<1>9. Count'
  <2>1. CASE OnTheWay <= 1
    BY <1>1, <1>3, <1>8, <2>1, LengthsType DEF Count, OnTheWay
  <2>2. CASE /\ OnTheWay = 2 /\ awaiting = "first"
             /\ cmd.verb \in TwoReplies /\ NextLine.text = "ok"
    <3>1. rxBuf'.text = "ok"
      BY <1>1, <1>6, <2>2 DEF NextLine
    <3>2. OutcomeToCome'
      BY <1>1, <2>2, <3>1 DEF OutcomeToCome
    <3> QED BY <1>1, <1>8, <2>2, <3>2 DEF Count
  <2> QED BY <1>1, <2>1, <2>2 DEF Conversation, Count
<1> QED BY <1>4, <1>7, <1>9 DEF Conversation

LEMMA ConversationStep ==
  ASSUME TypeOK, Place, Order, Conversation, [Next]_vars
  PROVE  Conversation'
<1> SUFFICES ASSUME Undisturbed'
             PROVE  /\ \A line \in Waiting' : Answering(line)'
                    /\ Heard' => Answering(rxBuf)'
                    /\ Count'
  BY DEF Conversation
<1>1. Undisturbed /\ ~Gave /\ ~ModemRestart
  BY UndisturbedBefore
<1>2. /\ \A line \in Waiting : Answering(line)
      /\ Heard => Answering(rxBuf)
      /\ Count
  BY <1>1 DEF Conversation
<1>3. ASSUME UNCHANGED <<cmd, awaiting, modem, rxBuf>>, Waiting' \subseteq Waiting,
             Heard' => Heard, Count'
      PROVE  Conversation'
  <2>1. \A line \in Waiting' : Answering(line)'
    BY <1>2, <1>3, StillAnswering
  <2>2. Answering(rxBuf) => Answering(rxBuf)'
    BY <1>3 DEF Answering, Tells
  <2> QED BY <1>2, <1>3, <2>1, <2>2 DEF Conversation
<1>4. CASE Elsewhere
  <2>1. UNCHANGED <<script, cmd, awaiting, rxBuf, fifo, wire, modem, joinProcedure>>
    BY <1>4 DEF Elsewhere, lineVars, modemVars
  <2>2. Waiting' = Waiting /\ OnTheWay' = OnTheWay /\ NextLine' = NextLine
    BY <2>1 DEF Waiting, OnTheWay, NextLine
  <2>3. CASE pc' = pc /\ appState' = appState
    <3>1. Heard' = Heard
      BY <2>1, <2>3 DEF Heard, Done, Asked
    <3>2. Count'
      BY <1>2, <2>1, <2>2, <2>3 DEF Count, OutcomeToCome
    <3> QED BY <1>3, <2>1, <2>2, <3>1, <3>2 DEF Conversation
  <2>4. CASE /\ pc \notin {"send", "wait", "answered", "return"}
             /\ pc' \notin {"send", "wait", "answered", "return"}
    <3>1. ~Heard' /\ Count'
      BY <1>2, <2>2, <2>4 DEF Heard, Count
    <3> QED BY <1>3, <2>1, <2>2, <3>1 DEF Conversation
  <2> QED BY <1>4, <2>3, <2>4 DEF Elsewhere
<1>5. CASE InitReleaseModem
  <2>1. /\ pc = "pause" /\ pc' = "wait" /\ awaiting' = "banner" /\ fifo' = fifo
        /\ wire' = Mark(<<Line("banner")>>, TRUE)
    BY <1>5 DEF InitReleaseModem
  <2>2. fifo = <<>>
    BY <1>2, <2>1, NothingOnTheWay DEF Count
  <2>3. <<Line("banner")>> \in Seq(Lines) /\ Len(<<Line("banner")>>) = 1
    <3>1. "banner" \in Texts
      BY DEF Texts, Char7
    <3>2. Line("banner") \in Lines
      BY <3>1, LinesType
    <3> QED BY <3>2
  <2>7. wire' \in Seq(Tagged) /\ Len(wire') = 1 /\ wire'[1].fresh
    <3>1. PICK lines \in Seq(Lines) : lines = <<Line("banner")>> /\ Len(lines) = 1
      BY <2>3
    <3>2. /\ Mark(lines, TRUE) \in Seq(Tagged) /\ Len(Mark(lines, TRUE)) = 1
          /\ Mark(lines, TRUE)[1].fresh
      <4>1. 1 \in 1 .. Len(lines)
        BY <3>1
      <4> QED BY <3>1, <4>1, MarkedLines
    <3> QED BY <2>1, <3>1, <3>2
  <2>4. Len(wire') = 1 /\ wire'[1].fresh /\ Range(wire') = {wire'[1]}
    <3>1. Range(wire') = {wire'[i] : i \in 1 .. 1}
      BY <2>7, RangeEquality
    <3> QED BY <2>7, <3>1
  <2>5. OnTheWay' = 1 /\ Waiting' = {wire'[1]}
    <3>1. Range(fifo') = {} /\ Len(fifo') = 0
      BY <2>1, <2>2, EmptyRange
    <3> QED BY <2>4, <3>1 DEF OnTheWay, Waiting
  <2>6. \A line \in Waiting' : Answering(line)'
    BY <2>1, <2>4, <2>5 DEF Answering
  <2>8. ~Heard'
    BY <2>1 DEF Heard
  <2>9. Count'
    BY <2>1, <2>5 DEF Count
  <2> QED BY <2>6, <2>8, <2>9
<1>6. CASE SendMsg
  BY <1>1, <1>6, ConversationSend DEF Conversation
<1>7. CASE WaitLine
  BY <1>1, <1>7, ConversationLine DEF Conversation
<1>8. CASE WaitAgain
  <2>1. /\ pc = "answered" /\ OutcomeToCome /\ pc' = "wait" /\ awaiting' = "second"
        /\ UNCHANGED <<fifo, wire>>
    BY <1>8 DEF WaitAgain, lineVars
  <2>2. Waiting' = Waiting /\ OnTheWay' = OnTheWay
    BY <2>1 DEF Waiting, OnTheWay
  <2>3. \A line \in Waiting' : Answering(line)'
    BY <1>2, <2>1, <2>2 DEF Answering
  <2> QED BY <1>2, <2>1, <2>2, <2>3 DEF Heard, Count
<1>9. CASE SendMsgReturn
  <2>1. /\ pc = "answered" /\ ~OutcomeToCome /\ pc' \in {"send", "return"}
        /\ UNCHANGED <<cmd, awaiting, modem, rxBuf, fifo, wire>>
    BY <1>9 DEF SendMsgReturn, lineVars, modemVars
  <2>2. Waiting' = Waiting /\ OnTheWay' = OnTheWay
    BY <2>1 DEF Waiting, OnTheWay
  <2>3. Heard /\ Count'
    BY <1>2, <2>1, <2>2 DEF Heard, Count
  <2> QED BY <1>3, <2>1, <2>2, <2>3 DEF Conversation
<1>10. CASE Begins
  <2>1. /\ pc = "dispatch" /\ pc' = "send" /\ script' = Asked' /\ Asked' = Asked
        /\ UNCHANGED <<cmd, awaiting, modem, rxBuf, fifo, wire>>
    BY <1>10 DEF Begins, JoinBegin, TransmitBegin, Asked, appVars, lineVars, modemVars
  <2>2. Waiting' = Waiting /\ OnTheWay' = OnTheWay
    BY <2>1 DEF Waiting, OnTheWay
  <2>3. Len(Asked) \in Nat
    BY AskedType
  <2>4. ~Heard' /\ Count'
    BY <1>2, <2>1, <2>2, <2>3 DEF Heard, Count, Done
  <2> QED BY <1>3, <2>1, <2>2, <2>4 DEF Conversation
<1>11. CASE Returns
  <2>1. /\ \/ pc = "return"
           \/ pc = "answered" /\ awaiting = "banner"
        /\ UNCHANGED <<cmd, awaiting, modem, rxBuf, fifo, wire>>
    BY <1>11 DEF Returns, InitReturn, FactoryResetReturn, JoinReturn, TransmitReturn,
       callVars, lineVars, modemVars
  <2>4. pc' = "dispatch"
    BY <1>11 DEF Returns, InitReturn, FactoryResetReturn, JoinReturn, TransmitReturn
  <2>2. Waiting' = Waiting /\ OnTheWay' = OnTheWay
    BY <2>1 DEF Waiting, OnTheWay
  <2>3. ~Heard' /\ Count'
    BY <1>2, <2>1, <2>2, <2>4 DEF Heard, Count, OutcomeToCome
  <2> QED BY <1>3, <2>1, <2>2, <2>3 DEF Conversation
<1>12. CASE OnLine
  <2>1. UNCHANGED <<appState, joinProcedure, script, pc, cmd, awaiting, modem, rxBuf>>
    BY <1>12 DEF OnLine, Arrive, Lose, appVars, callVars, modemVars
  <2>2. /\ Waiting' \subseteq Waiting /\ OnTheWay' <= OnTheWay
        /\ OnTheWay' = OnTheWay => NextLine' = NextLine
    BY <1>12, LineMoves
  <2>3. Heard' = Heard
    BY <2>1 DEF Heard, Done, Asked
  <2>4. OnTheWay \in Nat /\ OnTheWay' \in Nat
    <3>1. fifo' \in Seq(Tagged) /\ wire' \in Seq(Tagged)
      BY TypeStep DEF TypeOK
    <3>2. Len(fifo') \in Nat /\ Len(wire') \in Nat
      BY <3>1, LenProperties
    <3> QED BY <3>2, LengthsType DEF OnTheWay
  <2>5. Count'
    BY <1>2, <2>1, <2>2, <2>4 DEF Count, OutcomeToCome
  <2> QED BY <1>3, <2>1, <2>2, <2>3, <2>5 DEF Conversation
<1> QED BY <1>1, <1>4, <1>5, <1>6, <1>7, <1>8, <1>9, <1>10, <1>11, <1>12, StepKinds

-----------------------------------------------------------------------------
(* The commands of SET_ALL_PARAMS_AND_SAVE, one by one.                    *)

\* u is s, of length k, and then t, of length l.
Joins(u, s, t, k, l) ==
  /\ u \in Seq(Commands) /\ Len(u) = k + l
  /\ \A i \in 1 .. k : u[i] = s[i]
  /\ \A i \in 1 .. l : u[k + i] = t[i]

LEMMA Concatenated ==
  ASSUME NEW s \in Seq(Commands), NEW t \in Seq(Commands), NEW k \in Nat, NEW l \in Nat,
         Len(s) = k, Len(t) = l
  PROVE  Joins(s \o t, s, t, k, l)
<1> DEFINE u == s \o t
<1>1. /\ u \in Seq(Commands) /\ Len(u) = Len(s) + Len(t)
      /\ \A i \in 1 .. Len(s) + Len(t) : u[i] = IF i <= Len(s) THEN s[i] ELSE t[i - Len(s)]
  BY ConcatProperties
<1> HIDE DEF u
<1>2. \A i \in 1 .. k : u[i] = s[i]
  BY <1>1
<1>3. ASSUME NEW i \in 1 .. l PROVE u[k + i] = t[i]
  <2>1. k + i \in 1 .. Len(s) + Len(t) /\ ~(k + i <= Len(s)) /\ (k + i) - Len(s) = i
    OBVIOUS
  <2> QED BY <1>1, <2>1
<1>4. Joins(u, s, t, k, l)
  BY <1>1, <1>2, <1>3 DEF Joins
<1> QED BY <1>4 DEF u

LEMMA SetAllCommands ==
  /\ SetAllAndSave \in Seq(Commands) /\ Len(SetAllAndSave) = 2 * NUM_CHANNELS + 30
  /\ SetAllAndSave[1] = Cmd("get hweui")
  /\ \A i \in 1 .. 8 : SetAllAndSave[1 + i] = Set(Param(SavedNames[i]))
  /\ \A i \in 1 .. 2 * NUM_CHANNELS : SetAllAndSave[9 + i] = ChannelCmds[i]
  /\ SetAllAndSave[2 * NUM_CHANNELS + 10] = Cmd("save")
  /\ SetAllAndSave[2 * NUM_CHANNELS + 11] = Cmd("reset")
  /\ \A i \in 1 .. 17 : SetAllAndSave[2 * NUM_CHANNELS + 11 + i] = Set(Param(UnsavedNames[i]))
  /\ SetAllAndSave[2 * NUM_CHANNELS + 29] = Cmd("join")
  /\ SetAllAndSave[2 * NUM_CHANNELS + 30] = Cmd("status")
<1> DEFINE a == <<Cmd("get hweui")>>
           b == SetEach(SavedNames)
           c == ChannelCmds
           d == <<Cmd("save"), Cmd("reset")>>
           e == SetEach(UnsavedNames)
           f == <<Cmd("join"), Cmd("status")>>
           n == NUM_CHANNELS
<1>1. n \in Nat
  BY Rn2903Assumption DEF Rn2903Assumption
<1>2. /\ Cmd("get hweui") \in Commands /\ Cmd("save") \in Commands /\ Cmd("reset") \in Commands
      /\ Cmd("join") \in Commands /\ Cmd("status") \in Commands
  BY DEF Commands, Verbs
<1>3. \A x, y \in Commands : /\ <<x>> \in Seq(Commands) /\ Len(<<x>>) = 1 /\ <<x>>[1] = x
                             /\ <<x, y>> \in Seq(Commands) /\ Len(<<x, y>>) = 2
                             /\ <<x, y>>[1] = x /\ <<x, y>>[2] = y
  OBVIOUS
<1>4. /\ a \in Seq(Commands) /\ Len(a) = 1 /\ a[1] = Cmd("get hweui")
      /\ d \in Seq(Commands) /\ Len(d) = 2 /\ d[1] = Cmd("save") /\ d[2] = Cmd("reset")
      /\ f \in Seq(Commands) /\ Len(f) = 2 /\ f[1] = Cmd("join") /\ f[2] = Cmd("status")
  BY <1>2, <1>3, Zenon
<1>5. /\ b \in Seq(Commands) /\ Len(b) = 8
      /\ \A i \in 1 .. 8 : b[i] = Set(Param(SavedNames[i]))
      /\ e \in Seq(Commands) /\ Len(e) = 17
      /\ \A i \in 1 .. 17 : e[i] = Set(Param(UnsavedNames[i]))
      /\ c \in Seq(Commands) /\ Len(c) = 2 * n
  BY ScriptParts
<1>6. SetAllAndSave = a \o b \o c \o d \o e \o f
  BY DEF SetAllAndSave
<1>7. \A i \in 1 .. 2 * n : c[i] = ChannelCmds[i]
  OBVIOUS
<1> HIDE DEF a, b, c, d, e, f, n
<1> DEFINE ab == a \o b
           abc == ab \o c
           abcd == abc \o d
           abcde == abcd \o e
           all == abcde \o f
<1>8. Joins(ab, a, b, 1, 8)
  <2>1. /\ a \in Seq(Commands) /\ Len(a) = 1 /\ 1 \in Nat
        /\ b \in Seq(Commands) /\ Len(b) = 8 /\ 8 \in Nat
    BY <1>4, <1>5 DEF Joins
  <2> QED BY <2>1, Concatenated
<1> HIDE DEF ab
<1>9. Joins(abc, ab, c, 9, 2 * n)
  <2>1. /\ ab \in Seq(Commands) /\ Len(ab) = 9 /\ 9 \in Nat
        /\ c \in Seq(Commands) /\ Len(c) = 2 * n /\ 2 * n \in Nat
    BY <1>1, <1>5, <1>8 DEF Joins
  <2> QED BY <2>1, Concatenated
<1> HIDE DEF abc
<1>10. Joins(abcd, abc, d, 9 + 2 * n, 2)
  <2>1. /\ abc \in Seq(Commands) /\ Len(abc) = 9 + 2 * n /\ 9 + 2 * n \in Nat
        /\ d \in Seq(Commands) /\ Len(d) = 2 /\ 2 \in Nat
    <3>1. /\ d \in Seq(Commands) /\ Len(d) = 2
      BY <1>4, Zenon
    <3> QED BY <1>1, <1>9, <3>1 DEF Joins
  <2> QED BY <2>1, Concatenated
<1> HIDE DEF abcd
<1>11. Joins(abcde, abcd, e, 11 + 2 * n, 17)
  <2>1. /\ abcd \in Seq(Commands) /\ Len(abcd) = 11 + 2 * n /\ 11 + 2 * n \in Nat
        /\ e \in Seq(Commands) /\ Len(e) = 17 /\ 17 \in Nat
    BY <1>1, <1>5, <1>10 DEF Joins
  <2> QED BY <2>1, Concatenated
<1> HIDE DEF abcde
<1>12. Joins(all, abcde, f, 28 + 2 * n, 2)
  <2>1. /\ abcde \in Seq(Commands) /\ Len(abcde) = 28 + 2 * n /\ 28 + 2 * n \in Nat
        /\ f \in Seq(Commands) /\ Len(f) = 2 /\ 2 \in Nat
    <3>1. /\ f \in Seq(Commands) /\ Len(f) = 2
      BY <1>4, Zenon
    <3> QED BY <1>1, <1>11, <3>1 DEF Joins
  <2> QED BY <2>1, Concatenated
<1> HIDE DEF all
<1>13. SetAllAndSave = all
  BY <1>6 DEF all, abcde, abcd, abc, ab
<1>14. /\ \A i \in 1 .. 9 + 2 * n : all[i] = abc[i]
       /\ \A i \in 1 .. 9 : all[i] = ab[i]
  <2>1. ASSUME NEW i \in 1 .. 9 + 2 * n PROVE all[i] = abc[i]
    <3>1. i \in 1 .. 11 + 2 * n /\ i \in 1 .. 28 + 2 * n
      BY <1>1
    <3> QED BY <1>10, <1>11, <1>12, <2>1, <3>1 DEF Joins
  <2>2. ASSUME NEW i \in 1 .. 9 PROVE all[i] = ab[i]
    <3>1. i \in 1 .. 9 + 2 * n
      BY <1>1
    <3> QED BY <1>9, <2>1, <3>1 DEF Joins
  <2> QED BY <2>1, <2>2
<1>15. /\ all[1] = a[1] /\ \A i \in 1 .. 8 : all[1 + i] = b[i]
  <2>1. \A i \in 1 .. 8 : 1 + i \in 1 .. 9
    OBVIOUS
  <2> QED BY <1>8, <1>14, <2>1 DEF Joins
<1>16. \A i \in 1 .. 2 * n : all[9 + i] = c[i]
  <2>1. \A i \in 1 .. 2 * n : 9 + i \in 1 .. 9 + 2 * n
    BY <1>1
  <2> QED BY <1>9, <1>14, <2>1 DEF Joins
<1>17. all[2 * n + 10] = d[1] /\ all[2 * n + 11] = d[2]
  <2>1. /\ 2 * n + 10 \in 1 .. 11 + 2 * n /\ 2 * n + 11 \in 1 .. 11 + 2 * n
        /\ 2 * n + 10 \in 1 .. 28 + 2 * n /\ 2 * n + 11 \in 1 .. 28 + 2 * n
        /\ 2 * n + 10 = (9 + 2 * n) + 1 /\ 2 * n + 11 = (9 + 2 * n) + 2
    BY <1>1
  <2>2. abcd[(9 + 2 * n) + 1] = d[1] /\ abcd[(9 + 2 * n) + 2] = d[2]
    BY <1>10 DEF Joins
  <2> QED BY <1>11, <1>12, <2>1, <2>2 DEF Joins
<1>18. \A i \in 1 .. 17 : all[2 * n + 11 + i] = e[i]
  <2>1. \A i \in 1 .. 17 : /\ 2 * n + 11 + i \in 1 .. 28 + 2 * n
                            /\ 2 * n + 11 + i = (11 + 2 * n) + i
    BY <1>1
  <2> QED BY <1>11, <1>12, <2>1 DEF Joins
<1>19. Len(all) = 2 * n + 30
  BY <1>1, <1>12 DEF Joins
<1>20. all[2 * n + 29] = f[1] /\ all[2 * n + 30] = f[2]
  <2>1. 2 * n + 29 = (28 + 2 * n) + 1 /\ 2 * n + 30 = (28 + 2 * n) + 2
    BY <1>1
  <2> QED BY <1>12, <2>1 DEF Joins
<1> QED BY <1>4, <1>5, <1>7, <1>12, <1>13, <1>15, <1>16, <1>17, <1>18, <1>19, <1>20 DEF n, Joins

\* Which command is where.  Only the second sets the deveui.
LEMMA SetAllCases ==
  ASSUME NEW i \in 1 .. 2 * NUM_CHANNELS + 30
  PROVE  \/ i = 1 /\ SetAllAndSave[i] = Cmd("get hweui")
         \/ i = 2 /\ SetAllAndSave[i] = Set(Param("deveui"))
         \/ /\ i \in 3 .. 2 * NUM_CHANNELS + 9
            /\ \E p \in SavedParams \ {Param("deveui")} : SetAllAndSave[i] = Set(p)
         \/ i = 2 * NUM_CHANNELS + 10 /\ SetAllAndSave[i] = Cmd("save")
         \/ i = 2 * NUM_CHANNELS + 11 /\ SetAllAndSave[i] = Cmd("reset")
         \/ /\ i \in 2 * NUM_CHANNELS + 12 .. 2 * NUM_CHANNELS + 28
            /\ \E p \in UnsavedParams \ {Param("deveui")} : SetAllAndSave[i] = Set(p)
         \/ i = 2 * NUM_CHANNELS + 29 /\ SetAllAndSave[i] = Cmd("join")
         \/ i = 2 * NUM_CHANNELS + 30 /\ SetAllAndSave[i] = Cmd("status")
<1>1. NUM_CHANNELS \in Nat \ {0}
  BY Rn2903Assumption DEF Rn2903Assumption
<1>8. \A j \in 1 .. 8 : SetAllAndSave[1 + j] = Set(Param(SavedNames[j]))
  BY SetAllCommands, Zenon
<1>2. CASE i = 2
  <2>1. SetAllAndSave[1 + 1] = Set(Param(SavedNames[1]))
    <3>1. 1 \in 1 .. 8
      OBVIOUS
    <3> QED BY <1>8, <3>1, Zenon
  <2>2. SavedNames[1] = "deveui"
    BY DEF SavedNames
  <2>3. i = 1 + 1
    BY <1>2
  <2>4. SetAllAndSave[i] = Set(Param("deveui"))
    BY <2>1, <2>2, <2>3, Zenon
  <2> QED BY <1>2, <2>4
<1>3. CASE i \in 3 .. 9
  <2>1. PICK j \in 2 .. 8 : i = 1 + j
    BY <1>3
  <2>2. SetAllAndSave[1 + j] = Set(Param(SavedNames[j]))
    <3>1. j \in 1 .. 8
      OBVIOUS
    <3> QED BY <1>8, <3>1, Zenon
  <2>3. SavedNames[j] \in Range(SavedNames) /\ SavedNames[j] # "deveui"
    <3>1. DOMAIN SavedNames = 1 .. 8
      BY DEF SavedNames
    <3>2. SavedNames[j] # "deveui"
      BY DEF SavedNames
    <3> QED BY <3>1, <3>2 DEF Range
  <2>4. Param(SavedNames[j]) \in SavedParams \ {Param("deveui")}
    BY <2>3 DEF SavedParams, Param
  <2>5. i \in 3 .. 2 * NUM_CHANNELS + 9
    BY <1>1, <1>3
  <2> QED BY <2>1, <2>2, <2>4, <2>5
<1>4. CASE i \in 10 .. 2 * NUM_CHANNELS + 9
  <2>1. PICK j \in 1 .. 2 * NUM_CHANNELS : i = 9 + j
    <3>1. i - 9 \in 1 .. 2 * NUM_CHANNELS /\ i = 9 + (i - 9)
      BY <1>1, <1>4
    <3> QED BY <3>1
  <2>2. SetAllAndSave[9 + j] = ChannelCmds[j]
    BY SetAllCommands
  <2> DEFINE p == <<IF j % 2 = 1 THEN "drrange" ELSE "status", (j - 1) \div 2>>
  <2>3. ChannelCmds[j] = Set(p)
    BY DEF ChannelCmds
  <2>4. (j - 1) \div 2 \in 0 .. NUM_CHANNELS - 1
    BY <1>1
  <2>5. p \in SavedParams \ {Param("deveui")}
    BY <2>4 DEF SavedParams, Param
  <2>6. i \in 3 .. 2 * NUM_CHANNELS + 9
    BY <1>1, <1>4
  <2> HIDE DEF p
  <2> QED BY <2>1, <2>2, <2>3, <2>5, <2>6
<1>5. CASE i \in 2 * NUM_CHANNELS + 12 .. 2 * NUM_CHANNELS + 28
  <2>1. PICK j \in 1 .. 17 : i = 2 * NUM_CHANNELS + 11 + j
    <3>1. i - (2 * NUM_CHANNELS + 11) \in 1 .. 17
      BY <1>1, <1>5
    <3> QED BY <1>1, <1>5, <3>1
  <2>2. SetAllAndSave[2 * NUM_CHANNELS + 11 + j] = Set(Param(UnsavedNames[j]))
    BY SetAllCommands
  <2>3. UnsavedNames[j] \in Range(UnsavedNames) /\ UnsavedNames[j] # "deveui"
    <3>1. DOMAIN UnsavedNames = 1 .. 17
      BY DEF UnsavedNames
    <3>2. UnsavedNames[j] # "deveui"
      <4>1. /\ UnsavedNames[1] # "deveui" /\ UnsavedNames[2] # "deveui"
            /\ UnsavedNames[3] # "deveui" /\ UnsavedNames[4] # "deveui"
            /\ UnsavedNames[5] # "deveui" /\ UnsavedNames[6] # "deveui"
            /\ UnsavedNames[7] # "deveui" /\ UnsavedNames[8] # "deveui"
            /\ UnsavedNames[9] # "deveui" /\ UnsavedNames[10] # "deveui"
            /\ UnsavedNames[11] # "deveui" /\ UnsavedNames[12] # "deveui"
            /\ UnsavedNames[13] # "deveui" /\ UnsavedNames[14] # "deveui"
            /\ UnsavedNames[15] # "deveui" /\ UnsavedNames[16] # "deveui"
            /\ UnsavedNames[17] # "deveui"
        BY DEF UnsavedNames
      <4>2. \/ j = 1 \/ j = 2 \/ j = 3 \/ j = 4 \/ j = 5 \/ j = 6 \/ j = 7 \/ j = 8 \/ j = 9
            \/ j = 10 \/ j = 11 \/ j = 12 \/ j = 13 \/ j = 14 \/ j = 15 \/ j = 16 \/ j = 17
        OBVIOUS
      <4> QED BY <4>1, <4>2, Zenon
    <3> QED BY <3>1, <3>2 DEF Range
  <2>4. Param(UnsavedNames[j]) \in UnsavedParams \ {Param("deveui")}
    BY <2>3 DEF UnsavedParams, Param
  <2> QED BY <1>5, <2>1, <2>2, <2>4
<1>6. CASE i \in {1, 2 * NUM_CHANNELS + 10, 2 * NUM_CHANNELS + 11, 2 * NUM_CHANNELS + 29,
                  2 * NUM_CHANNELS + 30}
  BY <1>6, SetAllCommands
<1>7. \/ i = 2 \/ i \in 3 .. 9 \/ i \in 10 .. 2 * NUM_CHANNELS + 9
      \/ i \in 2 * NUM_CHANNELS + 12 .. 2 * NUM_CHANNELS + 28
      \/ i \in {1, 2 * NUM_CHANNELS + 10, 2 * NUM_CHANNELS + 11, 2 * NUM_CHANNELS + 29,
                2 * NUM_CHANNELS + 30}
  BY <1>1
<1> QED BY <1>2, <1>3, <1>4, <1>5, <1>6, <1>7

\* Every parameter is set: a saved one before the save, the others after the reset.
LEMMA SetAllCovers ==
  /\ \A p \in SavedParams : \E i \in 2 .. 2 * NUM_CHANNELS + 9 : SetAllAndSave[i] = Set(p)
  /\ \A p \in UnsavedParams :
       \E i \in 2 * NUM_CHANNELS + 12 .. 2 * NUM_CHANNELS + 28 : SetAllAndSave[i] = Set(p)
<1>1. NUM_CHANNELS \in Nat \ {0}
  BY Rn2903Assumption DEF Rn2903Assumption
<1>2. ASSUME NEW n \in Range(SavedNames)
      PROVE  \E i \in 2 .. 2 * NUM_CHANNELS + 9 : SetAllAndSave[i] = Set(Param(n))
  <2>1. DOMAIN SavedNames = 1 .. 8
    BY DEF SavedNames
  <2>2. PICK j \in 1 .. 8 : n = SavedNames[j]
    BY <2>1 DEF Range
  <2>3. SetAllAndSave[1 + j] = Set(Param(n))
    BY <2>2, SetAllCommands
  <2>4. 1 + j \in 2 .. 2 * NUM_CHANNELS + 9
    BY <1>1
  <2> QED BY <2>3, <2>4
<1>3. ASSUME NEW c \in 0 .. NUM_CHANNELS - 1
      PROVE  /\ \E i \in 2 .. 2 * NUM_CHANNELS + 9 : SetAllAndSave[i] = Set(<<"drrange", c>>)
             /\ \E i \in 2 .. 2 * NUM_CHANNELS + 9 : SetAllAndSave[i] = Set(<<"status", c>>)
  <2>1. ASSUME NEW k \in 1 .. 2 * NUM_CHANNELS
        PROVE  SetAllAndSave[9 + k] =
                 Set(<<IF k % 2 = 1 THEN "drrange" ELSE "status", (k - 1) \div 2>>)
    BY SetAllCommands DEF ChannelCmds
  <2>2. /\ 2 * c + 1 \in 1 .. 2 * NUM_CHANNELS /\ 2 * c + 2 \in 1 .. 2 * NUM_CHANNELS
        /\ (2 * c + 1) % 2 = 1 /\ (2 * c + 2) % 2 # 1
        /\ ((2 * c + 1) - 1) \div 2 = c /\ ((2 * c + 2) - 1) \div 2 = c
    BY <1>1
  <2>3. /\ 9 + (2 * c + 1) \in 2 .. 2 * NUM_CHANNELS + 9
        /\ 9 + (2 * c + 2) \in 2 .. 2 * NUM_CHANNELS + 9
    BY <1>1
  <2>4. SetAllAndSave[9 + (2 * c + 1)] = Set(<<"drrange", c>>)
    BY <2>1, <2>2
  <2>5. SetAllAndSave[9 + (2 * c + 2)] = Set(<<"status", c>>)
    BY <2>1, <2>2
  <2> QED BY <2>3, <2>4, <2>5
<1>4. ASSUME NEW p \in SavedParams
      PROVE  \E i \in 2 .. 2 * NUM_CHANNELS + 9 : SetAllAndSave[i] = Set(p)
  <2>1. CASE \E n \in Range(SavedNames) : p = Param(n)
    BY <1>2, <2>1
  <2>2. CASE p \in {"drrange", "status"} \X (0 .. NUM_CHANNELS - 1)
    <3>1. PICK c \in 0 .. NUM_CHANNELS - 1 : p = <<"drrange", c>> \/ p = <<"status", c>>
      BY <2>2
    <3> QED BY <1>3, <3>1
  <2> QED BY <2>1, <2>2 DEF SavedParams
<1>5. ASSUME NEW p \in UnsavedParams
      PROVE  \E i \in 2 * NUM_CHANNELS + 12 .. 2 * NUM_CHANNELS + 28 : SetAllAndSave[i] = Set(p)
  <2>1. DOMAIN UnsavedNames = 1 .. 17
    BY DEF UnsavedNames
  <2>2. PICK j \in 1 .. 17 : p = Param(UnsavedNames[j])
    BY <2>1 DEF Range, UnsavedParams
  <2>3. SetAllAndSave[2 * NUM_CHANNELS + 11 + j] = Set(p)
    BY <2>2, SetAllCommands
  <2>4. 2 * NUM_CHANNELS + 11 + j \in 2 * NUM_CHANNELS + 12 .. 2 * NUM_CHANNELS + 28
    BY <1>1
  <2> QED BY <2>3, <2>4
<1> QED BY <1>4, <1>5

\* join() ends with the status that joined() looks at, and sends nothing.
LEMMA ScriptCommands ==
  ASSUME NEW p \in JoinProcedures
  PROVE  /\ Len(Script(p)) \in Nat \ {0}
         /\ p # "FACTORY_RESET" => Script(p)[Len(Script(p))] = Cmd("status")
         /\ \A i \in 1 .. Len(Script(p)) : Script(p)[i].verb # "tx"
<1>1. CASE p = "FACTORY_RESET"
  <2>1. Script(p) = <<Cmd("factoryRESET")>>
    BY <1>1 DEF Script
  <2> QED BY <1>1, <2>1 DEF Cmd
<1>2. CASE p = "JOIN_WITH_CURRENT_CONFIG"
  <2>1. Script(p) = <<Cmd("reset"), Set(Param("dr")), Cmd("join"), Cmd("status")>>
    BY <1>2 DEF Script
  <2>2. Len(Script(p)) = 4 /\ Script(p)[4] = Cmd("status")
    BY <2>1
  <2>3. \A i \in 1 .. 4 : Script(p)[i].verb # "tx"
    BY <2>1 DEF Cmd, Set
  <2> QED BY <2>2, <2>3
<1>3. CASE p = "SET_ALL_PARAMS_AND_SAVE"
  <2>1. Script(p) = SetAllAndSave
    BY <1>3 DEF Script
  <2>2. /\ Len(SetAllAndSave) = 2 * NUM_CHANNELS + 30 /\ NUM_CHANNELS \in Nat \ {0}
        /\ SetAllAndSave[2 * NUM_CHANNELS + 30] = Cmd("status")
    BY SetAllCommands, Rn2903Assumption DEF Rn2903Assumption
  <2>3. ASSUME NEW i \in 1 .. 2 * NUM_CHANNELS + 30 PROVE SetAllAndSave[i].verb # "tx"
    <3>1. /\ \A q : Set(q).verb # "tx"
          /\ Cmd("get hweui").verb # "tx" /\ Cmd("save").verb # "tx"
          /\ Cmd("reset").verb # "tx" /\ Cmd("join").verb # "tx" /\ Cmd("status").verb # "tx"
      BY DEF Cmd, Set
    <3> QED BY <3>1, SetAllCases, Zenon
  <2> QED BY <2>1, <2>2, <2>3
<1> QED BY <1>1, <1>2, <1>3 DEF JoinProcedures

-----------------------------------------------------------------------------
(* What commands do to the modem, and which one sendMsg() sends.           *)

\* What the proofs below need of a command c that turns the modem m into x.
Effect(m, x, c, arg) ==
  /\ c.verb = "tx" => x = m
  /\ c.verb \in {"get hweui", "status", "join"} => x.live = m.live /\ x.saved = m.saved
  /\ c.verb = "save" => x.live = m.live /\ x.saved = m.live \intersect SavedParams
  /\ c.verb = "reset" => x.live = m.saved /\ x.saved = m.saved
  /\ c.verb = "set" =>
       /\ m.live \subseteq x.live /\ x.saved = m.saved
       /\ (c.param = Param("deveui") => arg = "hweui") => c.param \in x.live

LEMMA EffectOf ==
  ASSUME NEW m \in Modem, NEW c \in Commands, NEW arg, NEW a \in Answers(m, c, arg)
  PROVE  Effect(m, a.modem, c, arg)
<1> USE DEF Effect
<1>1. /\ \A x, t : a \in One(x, t) => a.modem = x
      /\ \A x, t : a \in OkThen(x, t) => a.modem = x
  BY DEF One, OkThen, Says
<1>2. CASE c = Cmd("factoryRESET")
  BY <1>2 DEF Cmd
<1>3. CASE c = Cmd("get hweui")
  BY <1>1, <1>3 DEF Answers, Cmd
<1>4. CASE c = Cmd("save")
  BY <1>1, <1>4 DEF Answers, Cmd, Modem
<1>5. CASE c = Cmd("reset")
  BY <1>1, <1>5 DEF Answers, Cmd, Modem, Restart
<1>6. CASE c = Cmd("join")
  <2>1. c.verb = "join" /\ a \in JoinAnswers(m)
    BY <1>6 DEF Answers, Cmd
  <2>2. a.modem \in {m, [m EXCEPT !.joined = TRUE], [m EXCEPT !.joined = FALSE]}
    BY <1>1, <2>1 DEF JoinAnswers
  <2> QED BY <2>1, <2>2 DEF Modem
<1>7. CASE c = Cmd("status")
  BY <1>7 DEF Answers, Cmd, Says
<1>8. CASE c = Cmd("tx")
  <2>1. c.verb = "tx" /\ a \in TxAnswers(m)
    BY <1>8 DEF Answers, Cmd
  <2> QED BY <1>1, <2>1 DEF TxAnswers
<1>9. ASSUME NEW p \in Params, c = Set(p)
      PROVE  Effect(m, a.modem, c, arg)
  <2>1. c.verb = "set" /\ c.param = p /\ a \in SetAnswers(m, p, arg)
    BY <1>9 DEF Answers, Set
  <2>2. a.modem = IF p = Param("deveui") /\ arg # "hweui"
                  THEN m ELSE [m EXCEPT !.live = m.live \union {p}]
    BY <1>1, <2>1 DEF SetAnswers
  <2> QED BY <2>1, <2>2 DEF Modem
<1> QED BY <1>2, <1>3, <1>4, <1>5, <1>6, <1>7, <1>8, <1>9 DEF Commands, Verbs

LEMMA SentEffect ==
  ASSUME TypeOK, Place, SendMsg
  PROVE  Effect(modem, modem', cmd', rxBuf.text)
<1>1. cmd' = Head(script) /\ script # <<>> /\ script \in Seq(Commands)
  BY DEF SendMsg, Place, Talking, TypeOK
<1>2. cmd' \in Commands
  BY <1>1, HeadTailProperties
<1>3. PICK m \in Modem, c \in Commands, arg \in {rxBuf.text} : m = modem /\ c = cmd'
  BY <1>2 DEF TypeOK
<1>4. PICK a \in Answers(m, c, arg) : modem' = a.modem
  BY <1>3 DEF SendMsg
<1> QED BY <1>3, <1>4, EffectOf

\* sendMsg() sends the commands of the handler one after the other.
LEMMA SentNext ==
  ASSUME TypeOK, Place, Order, SendMsg
  PROVE  /\ Asked' = Asked /\ Done \in Nat /\ Done' = Done + 1
         /\ Done' \in 1 .. Len(Asked) /\ cmd' = Asked[Done']
<1>1. Asked \in Seq(Commands) /\ Len(Asked) \in Nat
  BY AskedType
<1>2. Asked' = Asked /\ UNCHANGED script /\ cmd' = Head(script)
  BY DEF SendMsg, Asked, appVars
<1>3. pc = "send" /\ pc' = "wait" /\ script # <<>> /\ InTouch
  BY DEF SendMsg, Place, Talking, InTouch
<1>4. Len(script) \in Nat \ {0} /\ script \in Seq(Commands)
  BY <1>3, EmptySeq DEF TypeOK
<1>5. Len(script) <= Len(Asked) /\ script[1] = Asked[Len(Asked) - Len(script) + 1]
  BY <1>3, <1>4 DEF Order
<1>6. Done = Len(Asked) - Len(script) /\ Done' = Len(Asked) - Len(script) + 1
  BY <1>1, <1>2, <1>3, <1>4 DEF Done
<1> QED BY <1>1, <1>2, <1>4, <1>5, <1>6

LEMMA ReturnedNext ==
  ASSUME TypeOK, Place, SendMsgReturn
  PROVE  Asked' = Asked /\ Done' = Done /\ InTouch
<1>1. /\ Asked' = Asked /\ InTouch /\ pc = "answered" /\ script # <<>>
      /\ script' = Tail(script) /\ pc' \in {"send", "return"}
  BY DEF SendMsgReturn, Asked, InTouch, appVars, Place, Talking
<1>2. Len(script) \in Nat \ {0} /\ Len(script') = Len(script) - 1
  BY <1>1, EmptySeq, HeadTailProperties DEF TypeOK
<1> QED BY <1>1, <1>2, AskedType DEF Done

\* transmit() sends one command, and join() none like it.
LEMMA TransmitCommand ==
  ASSUME TypeOK, Place, Order, SendMsg
  PROVE  cmd'.verb = "tx" <=> appState = "TRANSMIT"
<1>1. Done' \in 1 .. Len(Asked) /\ cmd' = Asked[Done']
  BY SentNext
<1>2. CASE appState = "TRANSMIT"
  <2>1. Asked = <<Cmd("tx")>>
    BY <1>2 DEF Asked
  <2> QED BY <1>1, <1>2, <2>1 DEF Cmd
<1>3. CASE appState # "TRANSMIT"
  <2>1. Asked = Script(joinProcedure) /\ joinProcedure \in JoinProcedures
    BY <1>3 DEF Asked, TypeOK
  <2> QED BY <1>1, <1>3, <2>1, ScriptCommands
<1> QED BY <1>2, <1>3

-----------------------------------------------------------------------------
(* The network is joined.                                                  *)

LEMMA BootStep ==
  ASSUME TypeOK, Place, Boot, [Next]_vars
  PROVE  Boot'
<1> USE DEF Boot, appVars, callVars
<1>1. CASE Elsewhere
  <2>1. appState' = "INIT" => appState = "INIT"
    <3>1. appState' # appState => appState' # "INIT"
      BY DEF Next, Processor, Environment, PauseHangs, Starved, Halted, vars,
         InitBegin, InitReleaseModem, InitReturn, PressBegin, LongPress, CalibrateBegin,
         SaveToFlash, CalibrateReturn, SendMsg, WaitLine, WaitTimeout, WaitAgain,
         SendMsgReturn, JoinBegin, FactoryResetReturn, JoinReturn, IdleBegin, IdleReturn,
         MeasureBegin, MeasureReturn, Process, TransmitBegin, TransmitReturn,
         ErrorHandler, Pressed, ShortPress, WaitOverlong, I2sOverflow, I2sStops,
         Arrive, Lose, ModemRestart, TimerCallback, IfOK
    <3> QED BY <3>1
  <2> QED BY <1>1, <2>1 DEF Elsewhere
<1>2. CASE InitReleaseModem
  BY <1>2 DEF InitReleaseModem
<1>3. CASE SendMsg
  BY <1>3 DEF SendMsg, Place, Talking
<1>4. CASE WaitLine \/ Gave \/ WaitAgain \/ SendMsgReturn
  BY <1>4 DEF WaitLine, Gave, WaitTimeout, WaitOverlong, WaitAgain, SendMsgReturn
<1>5. CASE Begins
  BY <1>5 DEF Begins, JoinBegin, TransmitBegin
<1>6. CASE Returns
  BY <1>6 DEF Returns, InitReturn, FactoryResetReturn, JoinReturn, TransmitReturn, IfOK
<1>7. CASE OnLine \/ ModemRestart
  BY <1>7 DEF OnLine, Arrive, Lose, ModemRestart
<1> QED BY <1>1, <1>2, <1>3, <1>4, <1>5, <1>6, <1>7, StepKinds

\* join() goes on to IDLE only with a status that says so, the one asked for last.
LEMMA JoinReturnsJoined ==
  ASSUME TypeOK, Place, Order, Conversation, JoinReturn, appState' = "IDLE", restarts = 0
  PROVE  modem.joined
<1>1. /\ pc = "return" /\ appState = "JOIN" /\ joinProcedure # "FACTORY_RESET"
      /\ Joined /\ OK
  BY DEF JoinReturn, OK
<1>2. InTouch /\ script = <<>> /\ Asked = Script(joinProcedure)
  BY <1>1 DEF InTouch, Order, Asked
<1>3. Len(Asked) \in Nat \ {0} /\ Asked[Len(Asked)] = Cmd("status")
  BY <1>1, <1>2, ScriptCommands DEF TypeOK
<1>4. Done = Len(Asked)
  BY <1>1, <1>2, <1>3 DEF Done
<1>5. cmd.verb = "status" /\ awaiting = "first"
  <2>1. cmd = Cmd("status")
    BY <1>2, <1>3, <1>4 DEF Order
  <2>2. awaiting # "banner" /\ (awaiting = "second" => cmd.verb \in TwoReplies)
    BY <1>2, <1>3, <1>4 DEF Order
  <2> QED BY <2>1, <2>2 DEF Cmd, TwoReplies, TypeOK
<1>6. Answering(rxBuf)
  BY <1>1, <1>3, <1>4 DEF Conversation, Heard, Undisturbed
<1> QED BY <1>1, <1>5, <1>6 DEF Answering, Tells, Joined

LEMMA IdleStep ==
  ASSUME TypeOK, Place, Order, Conversation, IdleMeansJoined, [Next]_vars
  PROVE  IdleMeansJoined'
<1> SUFFICES ASSUME appState' \in Connected, restarts' = 0
             PROVE  modem'.joined
  BY DEF IdleMeansJoined, Connected
<1>1. ASSUME appState \in Connected, UNCHANGED <<modem, restarts>>
      PROVE  modem'.joined
  BY <1>1 DEF IdleMeansJoined, Connected
<1> USE DEF appVars, modemVars, Connected
<1>2. CASE Elsewhere
  BY <1>1, <1>2 DEF Elsewhere
<1>3. CASE InitReleaseModem
  BY <1>3 DEF InitReleaseModem
<1>4. CASE SendMsg
  <2>1. appState = "TRANSMIT" /\ UNCHANGED restarts
    BY <1>4 DEF SendMsg, Place, Talking
  <2>2. modem' = modem
    BY <1>4, <2>1, TransmitCommand, SentEffect DEF Effect
  <2> QED BY <1>1, <2>1, <2>2
<1>5. CASE WaitLine \/ Gave \/ WaitAgain \/ SendMsgReturn
  BY <1>1, <1>5 DEF WaitLine, Gave, WaitTimeout, WaitOverlong, WaitAgain, SendMsgReturn
<1>6. CASE Begins
  BY <1>1, <1>6 DEF Begins, JoinBegin, TransmitBegin
<1>7. CASE JoinReturn
  <2>1. appState' = "IDLE" /\ UNCHANGED <<modem, restarts>>
    BY <1>7 DEF JoinReturn
  <2> QED BY <1>7, <2>1, JoinReturnsJoined
<1>8. CASE InitReturn \/ FactoryResetReturn \/ TransmitReturn
  BY <1>1, <1>8 DEF InitReturn, FactoryResetReturn, TransmitReturn
<1>9. CASE OnLine
  BY <1>1, <1>9 DEF OnLine, Arrive, Lose
<1>10. CASE ModemRestart
  <2>1. restarts' = restarts + 1 /\ restarts \in Nat
    BY <1>10, MonitorAssumption DEF ModemRestart, TypeOK, MonitorAssumption
  <2> QED BY <2>1
<1> QED BY <1>2, <1>3, <1>4, <1>5, <1>6, <1>7, <1>8, <1>9, <1>10, StepKinds DEF Returns

-----------------------------------------------------------------------------
(* Levels are sent once.                                                   *)

LEMMA LastOfOne ==
  ASSUME NEW q \in Seq(Commands), q # <<>>, Len(q) <= 1
  PROVE  Tail(q) = <<>>
<1>1. Len(q) \in Nat /\ Len(q) # 0
  BY EmptySeq
<1>2. Tail(q) \in Seq(Commands) /\ Len(Tail(q)) = Len(q) - 1
  BY HeadTailProperties
<1>3. Len(Tail(q)) = 0
  BY <1>1, <1>2
<1> QED BY <1>2, <1>3, EmptySeq

LEMMA LevelsStep ==
  ASSUME TypeOK, Place, Order, Levels, [Next]_vars
  PROVE  Levels'
<1> USE DEF Levels, Place, appVars, callVars, IfOK
<1>1. ASSUME UNCHANGED <<leq, appState, pc>> PROVE Levels'
  BY <1>1
<1>2. ASSUME pc' # "sample", appState' \notin {"PROCESS", "TRANSMIT"} PROVE Levels'
  BY <1>2
<1>3. ASSUME pc' \notin {"sample", "dispatch", "send"}, appState' # "PROCESS" PROVE Levels'
  BY <1>3
<1>4. CASE \/ InitBegin \/ InitReleaseModem \/ InitReturn \/ PressBegin \/ Pressed
           \/ ShortPress \/ LongPress \/ CalibrateBegin \/ SaveToFlash \/ I2sStops
           \/ CalibrateReturn
  BY <1>2, <1>4 DEF InitBegin, InitReleaseModem, InitReturn, PressBegin, Pressed,
     ShortPress, LongPress, CalibrateBegin, SaveToFlash, I2sStops, CalibrateReturn
<1>5. CASE JoinBegin \/ FactoryResetReturn \/ JoinReturn \/ IdleBegin \/ IdleReturn \/ ErrorHandler
  BY <1>2, <1>5 DEF JoinBegin, FactoryResetReturn, JoinReturn, IdleBegin, IdleReturn, ErrorHandler
<1>6. CASE SendMsg \/ WaitLine \/ Gave \/ WaitAgain
  BY <1>3, <1>6 DEF SendMsg, WaitLine, Gave, WaitTimeout, WaitOverlong, WaitAgain, Talking
<1>7. CASE SendMsgReturn
  <2>1. /\ pc' = IF script' = <<>> THEN "return" ELSE "send"
        /\ script' = Tail(script) /\ UNCHANGED appState
        /\ InTouch /\ script # <<>> /\ appState \in {"JOIN", "TRANSMIT"}
    BY <1>7 DEF SendMsgReturn, InTouch, Talking
  <2>2. CASE appState = "TRANSMIT"
    <3>1. Asked = <<Cmd("tx")>>
      BY <2>2 DEF Asked
    <3>2. Len(script) <= 1
      BY <2>1, <3>1 DEF Order
    <3>3. pc' = "return"
      BY <2>1, <3>2, LastOfOne DEF TypeOK
    <3> QED BY <1>3, <2>1, <2>2, <3>3
  <2>3. CASE appState = "JOIN"
    BY <1>2, <2>1, <2>3
  <2> QED BY <2>1, <2>2, <2>3
<1>8. CASE MeasureBegin \/ I2sOverflow
  BY <1>8 DEF MeasureBegin, I2sOverflow
<1>9. CASE MeasureReturn
  <2>1. /\ pc = "sample" /\ leq' = [leq EXCEPT !.holds = "level"] /\ pc' = "dispatch"
        /\ leq \in [holds : {"nothing", "sum", "level"}, sent : BOOLEAN]
    BY <1>9 DEF MeasureReturn, TypeOK
  <2>2. leq'.holds = "level" /\ leq'.sent = leq.sent
    BY <2>1
  <2> QED BY <2>1, <2>2
<1>10. CASE Process \/ TransmitBegin
  BY <1>10 DEF Process, TransmitBegin
<1>11. CASE TransmitReturn
  BY <1>2, <1>11 DEF TransmitReturn
<1>12. CASE TimerCallback \/ OnLine \/ ModemRestart
  BY <1>1, <1>12 DEF TimerCallback, OnLine, Arrive, Lose, ModemRestart
<1>13. CASE UNCHANGED vars
  BY <1>1, <1>13 DEF vars
<1> QED BY <1>4, <1>5, <1>6, <1>7, <1>8, <1>9, <1>10, <1>11, <1>12, <1>13
        DEF Next, Processor, Environment, PauseHangs, Starved, Halted, Gave, OnLine

\* Only transmit() sends a transmission, and the levels are then unsent.
LEMMA LevelsSent ==
  ASSUME TypeOK, Place, Order, Levels, [Next]_vars,
         cmd'.verb = "tx", pc = "send", pc' = "wait"
  PROVE  leq.holds = "level" /\ ~leq.sent
<1>1. SendMsg
  <2>1. ~Elsewhere
    BY DEF Elsewhere
  <2> QED BY <2>1, StepKinds DEF InitReleaseModem, WaitLine, Gave, WaitTimeout, WaitOverlong,
         WaitAgain, SendMsgReturn, Begins, JoinBegin, TransmitBegin, Returns, InitReturn,
         FactoryResetReturn, JoinReturn, TransmitReturn, OnLine, Arrive, Lose, ModemRestart
<1>2. appState = "TRANSMIT"
  BY <1>1, TransmitCommand
<1> QED BY <1>2 DEF Levels

-----------------------------------------------------------------------------
(* The parameters are set when join() asks to join.                        *)

\* One command of SetAllAndSave more, when the second finds the hweui in rx_buf.
LEMMA SetOneMore ==
  ASSUME NEW k \in 1 .. 2 * NUM_CHANNELS + 30, NEW m \in Modem, NEW x \in Modem, NEW arg,
         SetUpTo(k - 1, m), Effect(m, x, SetAllAndSave[k], arg), k = 2 => arg = "hweui"
  PROVE  SetUpTo(k, x)
<1> DEFINE c == SetAllAndSave[k]
<1>1. NUM_CHANNELS \in Nat \ {0}
  BY Rn2903Assumption DEF Rn2903Assumption
<1>2. /\ \A i \in 1 .. k - 1 :
           SetAllAndSave[i].verb = "set" => SetAllAndSave[i].param \in m.live
      /\ k - 1 >= SavePoint => SavedParams \subseteq m.saved
  BY DEF SetUpTo
<1>3. \A i \in 1 .. k : i \in 1 .. k - 1 \/ i = k
  BY <1>1
<1>4. Effect(m, x, c, arg)
  OBVIOUS
<1>5. ASSUME m.live \subseteq x.live, c.verb = "set" => c.param \in x.live,
             k >= SavePoint => SavedParams \subseteq x.saved
      PROVE  SetUpTo(k, x)
  BY <1>2, <1>3, <1>5 DEF SetUpTo
<1>6. k # SavePoint => (k >= SavePoint => k - 1 >= SavePoint)
  BY <1>1 DEF SavePoint
<1> HIDE DEF c
<1>7. ASSUME c.verb \in {"get hweui", "join", "status"}, k # SavePoint
      PROVE  SetUpTo(k, x)
  <2>1. x.live = m.live /\ x.saved = m.saved /\ c.verb # "set"
    BY <1>4, <1>7 DEF Effect
  <2> QED BY <1>2, <1>5, <1>6, <1>7, <2>1
<1>8. ASSUME NEW p, c = Set(p), k # SavePoint, p = Param("deveui") => arg = "hweui"
      PROVE  SetUpTo(k, x)
  <2>1. m.live \subseteq x.live /\ x.saved = m.saved /\ c.param \in x.live
    BY <1>4, <1>8 DEF Effect, Set
  <2> QED BY <1>2, <1>5, <1>6, <1>8, <2>1
<1>9. ASSUME c = Cmd("save"), k = SavePoint PROVE SetUpTo(k, x)
  <2>1. x.live = m.live /\ x.saved = m.live \intersect SavedParams /\ c.verb # "set"
    BY <1>4, <1>9 DEF Effect, Cmd
  <2>2. SavedParams \subseteq m.live
    <3> SUFFICES ASSUME NEW p \in SavedParams PROVE p \in m.live
      OBVIOUS
    <3>1. PICK i \in 2 .. 2 * NUM_CHANNELS + 9 : SetAllAndSave[i] = Set(p)
      BY SetAllCovers, Zenon
    <3>2. i \in 1 .. k - 1
      BY <1>1, <1>9 DEF SavePoint
    <3> QED BY <1>2, <3>1, <3>2 DEF Set
  <2> QED BY <1>5, <2>1, <2>2
<1>10. ASSUME c = Cmd("reset"), k = 2 * NUM_CHANNELS + 11 PROVE SetUpTo(k, x)
  <2>1. x.live = m.saved /\ x.saved = m.saved /\ c.verb # "set"
    BY <1>4, <1>10 DEF Effect, Cmd
  <2>2. SavedParams \subseteq m.saved
    BY <1>1, <1>2, <1>10 DEF SavePoint
  <2>3. ASSUME NEW i \in 1 .. k - 1, SetAllAndSave[i].verb = "set"
        PROVE  SetAllAndSave[i].param \in SavedParams
    <3>1. i \in 1 .. 2 * NUM_CHANNELS + 30 /\ i < 2 * NUM_CHANNELS + 11
      BY <1>1, <1>10
    <3>2. i \notin 2 * NUM_CHANNELS + 12 .. 2 * NUM_CHANNELS + 28
      BY <1>1, <3>1
    <3>3. Param("deveui") \in SavedParams
      <4>1. 1 \in DOMAIN SavedNames /\ SavedNames[1] = "deveui"
        BY DEF SavedNames
      <4> QED BY <4>1 DEF SavedParams, Range
    <3>4. \/ SetAllAndSave[i] \in {Cmd("get hweui"), Cmd("save"), Cmd("reset"),
                                    Cmd("join"), Cmd("status")}
          \/ \E p \in SavedParams : SetAllAndSave[i] = Set(p)
      BY <3>1, <3>2, <3>3, SetAllCases
    <3>5. /\ Cmd("get hweui").verb # "set" /\ Cmd("save").verb # "set"
          /\ Cmd("reset").verb # "set" /\ Cmd("join").verb # "set"
          /\ Cmd("status").verb # "set" /\ \A p : Set(p).param = p
      BY DEF Set, Cmd
    <3> QED BY <2>3, <3>4, <3>5, Zenon
  <2>4. \A i \in 1 .. k : SetAllAndSave[i].verb = "set" => SetAllAndSave[i].param \in x.live
    BY <1>3, <2>1, <2>2, <2>3 DEF c
  <2> QED BY <2>1, <2>2, <2>4 DEF SetUpTo
<1>11. \/ c = Cmd("get hweui") /\ k = 1
       \/ c = Set(Param("deveui")) /\ k = 2
       \/ k # SavePoint /\ \E p : p # Param("deveui") /\ c = Set(p)
       \/ c = Cmd("save") /\ k = SavePoint
       \/ c = Cmd("reset") /\ k = 2 * NUM_CHANNELS + 11
       \/ c \in {Cmd("join"), Cmd("status")} /\ k # SavePoint
  <2>1. /\ \A j \in 3 .. 2 * NUM_CHANNELS + 9 : j # SavePoint
        /\ \A j \in 2 * NUM_CHANNELS + 12 .. 2 * NUM_CHANNELS + 28 : j # SavePoint
        /\ 2 * NUM_CHANNELS + 29 # SavePoint /\ 2 * NUM_CHANNELS + 30 # SavePoint
        /\ 2 * NUM_CHANNELS + 10 = SavePoint
    BY <1>1 DEF SavePoint
  <2> QED BY <2>1, SetAllCases, Zenon DEF c
<1>12. 1 # SavePoint /\ 2 # SavePoint
  BY <1>1 DEF SavePoint
<1>13. /\ Cmd("get hweui").verb = "get hweui" /\ Cmd("join").verb = "join"
       /\ Cmd("status").verb = "status"
  BY DEF Cmd
<1> QED BY <1>7, <1>8, <1>9, <1>10, <1>11, <1>12, <1>13

\* rx_buf holds the hweui when "mac set deveui" goes out.
LEMMA DeveuiHeard ==
  ASSUME TypeOK, Place, Order, Conversation, Undisturbed, SendMsg,
         Asked = SetAllAndSave, Done = 1
  PROVE  rxBuf.text = "hweui"
<1>1. pc = "send" /\ InTouch /\ Heard
  BY DEF SendMsg, InTouch, Heard
<1>2. cmd = Cmd("get hweui")
  <2>1. cmd = SetAllAndSave[1]
    BY <1>1 DEF Order
  <2>2. SetAllAndSave[1] = Cmd("get hweui")
    BY SetAllCommands, Zenon
  <2> QED BY <2>1, <2>2
<1>3. cmd.verb = "get hweui" /\ awaiting = "first"
  <2>1. awaiting # "banner" /\ (awaiting = "second" => cmd.verb \in TwoReplies)
    BY <1>1 DEF Order
  <2> QED BY <1>2, <2>1 DEF Cmd, TwoReplies, TypeOK
<1> QED BY <1>1, <1>3 DEF Conversation, Answering

LEMMA ConfiguredStep ==
  ASSUME TypeOK, Place, Order, Conversation, Configured, [Next]_vars
  PROVE  Configured'
<1> SUFFICES ASSUME InTouch', Undisturbed', appState' = "JOIN",
                    joinProcedure' = "SET_ALL_PARAMS_AND_SAVE"
             PROVE  SetUpTo(Done', modem')
  BY DEF Configured
<1>1. Undisturbed /\ ~Gave /\ ~ModemRestart
  BY UndisturbedBefore
<1>2. ASSUME InTouch, UNCHANGED <<appState, joinProcedure, modem>>, Done' = Done
      PROVE  SetUpTo(Done', modem')
  BY <1>1, <1>2 DEF Configured
<1> USE DEF appVars, callVars, modemVars
<1>3. CASE Elsewhere
  <2>1. CASE pc' = pc /\ appState' = appState
    <3>1. InTouch /\ Done' = Done
      BY <1>3, <2>1 DEF Elsewhere, InTouch, Done, Asked
    <3> QED BY <1>2, <1>3, <2>1, <3>1 DEF Elsewhere
  <2>2. CASE pc' \notin {"send", "wait", "answered", "return"}
    BY <2>2 DEF InTouch
  <2> QED BY <1>3, <2>1, <2>2 DEF Elsewhere
<1>4. CASE InitReleaseModem
  BY <1>4 DEF InitReleaseModem, InTouch
<1>5. CASE SendMsg
  <2>1. pc = "send" /\ InTouch /\ UNCHANGED <<appState, joinProcedure>>
    BY <1>5 DEF SendMsg, InTouch
  <2>2. Asked = SetAllAndSave
    BY <2>1 DEF Asked, Script
  <2>3. /\ Done \in Nat /\ Done' = Done + 1 /\ Done' \in 1 .. 2 * NUM_CHANNELS + 30
        /\ cmd' = SetAllAndSave[Done']
    <3>1. Len(SetAllAndSave) = 2 * NUM_CHANNELS + 30
      BY SetAllCommands, Zenon
    <3> QED BY <1>5, <2>2, <3>1, SentNext
  <2>4. SetUpTo(Done, modem)
    BY <1>1, <2>1 DEF Configured
  <2>5. Effect(modem, modem', SetAllAndSave[Done'], rxBuf.text)
    BY <1>5, <2>3, SentEffect
  <2>6. Done' = 2 => rxBuf.text = "hweui"
    BY <1>1, <1>5, <2>2, <2>3, DeveuiHeard
  <2>7. modem \in Modem /\ modem' \in Modem
    BY TypeStep DEF TypeOK
  <2>8. Done' - 1 = Done
    BY <2>3
  <2> QED BY <2>3, <2>4, <2>5, <2>6, <2>7, <2>8, SetOneMore
<1>6. CASE WaitLine
  BY <1>2, <1>6 DEF WaitLine, InTouch, Done, Asked
<1>7. CASE WaitAgain
  BY <1>2, <1>7 DEF WaitAgain, OutcomeToCome, InTouch, Done, Asked, lineVars
<1>8. CASE SendMsgReturn
  BY <1>2, <1>8, ReturnedNext DEF SendMsgReturn
<1>9. CASE Begins
  <2>1. Done' = 0
    <3>1. script' = Asked /\ Asked' = Asked /\ pc' = "send"
      BY <1>9 DEF Begins, JoinBegin, TransmitBegin, Asked
    <3> QED BY <3>1, AskedType DEF Done
  <2>2. NUM_CHANNELS \in Nat
    BY Rn2903Assumption DEF Rn2903Assumption
  <2> QED BY <2>1, <2>2 DEF SetUpTo, SavePoint
<1>10. CASE Returns
  BY <1>10 DEF Returns, InitReturn, FactoryResetReturn, JoinReturn, TransmitReturn, InTouch
<1>11. CASE OnLine
  BY <1>2, <1>11 DEF OnLine, Arrive, Lose, InTouch, Done, Asked
<1> QED BY <1>1, <1>3, <1>4, <1>5, <1>6, <1>7, <1>8, <1>9, <1>10, <1>11, StepKinds

-----------------------------------------------------------------------------
(* The theorems.                                                           *)

CInv == /\ IInv /\ Boot /\ Order /\ Conversation
        /\ IdleMeansJoined /\ Levels /\ Configured

LEMMA CInvInit == Init => Boot /\ Order /\ Conversation /\ IdleMeansJoined /\ Levels /\ Configured
<1> SUFFICES ASSUME Init
             PROVE  Boot /\ Order /\ Conversation /\ IdleMeansJoined /\ Levels /\ Configured
  OBVIOUS
<1>1. /\ appState = "INIT" /\ pc = "dispatch" /\ cmd = Cmd("status")
      /\ fifo = <<>> /\ wire = <<>>
  BY DEF Init
<1>2. ~InTouch /\ ~Heard
  BY <1>1 DEF InTouch, Heard
<1>3. Waiting = {} /\ OnTheWay = 0
  BY <1>1, EmptyRange DEF Waiting, OnTheWay
<1>4. Conversation
  BY <1>1, <1>2, <1>3 DEF Conversation, Count
<1> QED BY <1>1, <1>2, <1>4 DEF Boot, Order, IdleMeansJoined, Levels, Configured

LEMMA ConversationInvariance == Spec => []CInv
<1>1. Init => Boot /\ Order /\ Conversation /\ IdleMeansJoined /\ Levels /\ Configured
  BY CInvInit
<1>2. ASSUME IInv, Boot, Order, Conversation, IdleMeansJoined, Levels, Configured, [Next]_vars
      PROVE  /\ Boot' /\ Order' /\ Conversation'
             /\ IdleMeansJoined' /\ Levels' /\ Configured'
  <2>1. TypeOK /\ Place
    BY <1>2 DEF IInv
  <2> QED BY <1>2, <2>1, BootStep, OrderStep, ConversationStep, IdleStep, LevelsStep,
             ConfiguredStep
<1>3. Spec => []IInv
  BY Invariance
<1> QED BY <1>1, <1>2, <1>3, PTL DEF Spec, CInv

\* Nothing discards old input and lines may be late or lost, and still the line
\* that waitForResponse() returns answers the command sent last, as long as no
\* error is recorded and the modem has not restarted by itself
\* (helper_fcns.c:25-74).
THEOREM RepliesAreFresh == Spec => []ReplyIsFresh
<1>1. CInv => ReplyIsFresh
  BY DEF CInv, Conversation, Heard, Undisturbed, Answering, ReplyIsFresh
<1> QED BY <1>1, ConversationInvariance, PTL

\* The monitor measures and transmits only on a network it has joined: the status
\* joined() looks at is the one asked for last (helper_fcns.c:92-95, join.c:72-83).
THEOREM IdleIsJoined == Spec => []IdleMeansJoined
<1>1. CInv => IdleMeansJoined
  BY DEF CInv
<1> QED BY <1>1, ConversationInvariance, PTL

\* A transmission carries the levels of the last measurement, and no levels are
\* transmitted twice (measure.c, process.c, transmit.c).
THEOREM LevelsAreSentOnce == Spec => LevelsSentOnce
<1>1. ASSUME CInv, [Next]_vars
      PROVE  [cmd'.verb = "tx" /\ pc = "send" /\ pc' = "wait"
                => leq.holds = "level" /\ ~leq.sent]_vars
  BY <1>1, LevelsSent DEF CInv, IInv
<1> QED BY <1>1, ConversationInvariance, PTL DEF Spec, LevelsSentOnce

\* When a join that set the parameters itself asks to join, with no error recorded,
\* the modem holds each of them, for any number of channels: those set before
\* "sys reset" were saved, and the others are set after it (join.c).
THEOREM JoinIsConfigured == Spec => []ConfiguredAtJoin
<1>1. ASSUME CInv PROVE ConfiguredAtJoin
  <2> SUFFICES ASSUME pc = "wait", cmd.verb = "join", OK, restarts = 0,
                      joinProcedure = "SET_ALL_PARAMS_AND_SAVE"
               PROVE  modem.live = Params
    BY DEF ConfiguredAtJoin
  <2>1. /\ TypeOK /\ Place /\ Boot /\ Order /\ Configured /\ Undisturbed
    BY <1>1 DEF CInv, IInv, Undisturbed
  <2>2. awaiting # "banner" /\ InTouch /\ appState \in {"JOIN", "TRANSMIT"} /\ script # <<>>
    BY <2>1 DEF Boot, Place, Talking, InTouch, Cmd
  <2>3. /\ Len(Asked) \in Nat /\ Len(script) \in Nat \ {0}
        /\ Len(script) <= Len(Asked) /\ Done = Len(Asked) - Len(script) + 1
    <3>1. Len(script) \in Nat \ {0}
      BY <2>1, <2>2, EmptySeq DEF TypeOK
    <3>2. Len(script) <= Len(Asked)
      BY <2>1, <2>2 DEF Order
    <3> QED BY <2>1, <3>1, <3>2, AskedType DEF Done
  <2>4. Done \in 1 .. Len(Asked) /\ cmd = Asked[Done]
    BY <2>1, <2>2, <2>3 DEF Order
  <2>5. appState = "JOIN" /\ Asked = SetAllAndSave
    <3>1. CASE appState = "TRANSMIT"
      <4>1. Asked = <<Cmd("tx")>>
        BY <3>1 DEF Asked
      <4> QED BY <2>4, <4>1 DEF Cmd
    <3>2. CASE appState = "JOIN"
      BY <3>2 DEF Asked, Script
    <3> QED BY <2>2, <3>1, <3>2
  <2>6. Done = 2 * NUM_CHANNELS + 29
    <3>1. Len(SetAllAndSave) = 2 * NUM_CHANNELS + 30
      BY SetAllCommands, Zenon
    <3>2. SetAllAndSave[Done].verb = "join"
      BY <2>4, <2>5
    <3>3. /\ Cmd("get hweui").verb # "join" /\ Cmd("save").verb # "join"
          /\ Cmd("reset").verb # "join" /\ Cmd("status").verb # "join"
          /\ \A p : Set(p).verb # "join"
      BY DEF Cmd, Set
    <3>4. Done \in 1 .. 2 * NUM_CHANNELS + 30
      BY <2>4, <2>5, <3>1
    <3> QED BY <3>2, <3>3, <3>4, SetAllCases, Zenon
  <2>7. NUM_CHANNELS \in Nat
    BY Rn2903Assumption DEF Rn2903Assumption
  <2>8. ASSUME NEW p \in Params PROVE p \in modem.live
    <3>1. PICK i \in 1 .. Done : SetAllAndSave[i] = Set(p)
      <4>1. /\ 2 .. 2 * NUM_CHANNELS + 9 \subseteq 1 .. Done
            /\ 2 * NUM_CHANNELS + 12 .. 2 * NUM_CHANNELS + 28 \subseteq 1 .. Done
        BY <2>6, <2>7
      <4> QED BY <4>1, SetAllCovers, Zenon DEF Params
    <3>2. SetUpTo(Done, modem)
      BY <2>1, <2>2, <2>5 DEF Configured
    <3> QED BY <3>1, <3>2 DEF SetUpTo, Set
  <2>9. modem.live \subseteq Params
    BY <2>1 DEF TypeOK, Modem
  <2> QED BY <2>8, <2>9
<1> QED BY <1>1, ConversationInvariance, PTL

=============================================================================
