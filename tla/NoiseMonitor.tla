---------------------------- MODULE NoiseMonitor ----------------------------
(***************************************************************************)
(* The superloop: APP_Tasks and the handler of every application state,    *)
(* the helpers that talk to the RN2903 modem (sendMsg, waitForResponse,    *)
(* joined) and measure time (pause_s, TimerSetup), the timer interrupt,    *)
(* and the serial line to the modem, which may delay or lose what the      *)
(* modem says.  A line of text is one value here; WaitForResponse models   *)
(* its bytes.  The debug console is left out: it is written and never read.*)
(***************************************************************************)
EXTENDS Rn2903

CONSTANTS TIMER_FREQ,        \* timer interrupts per second
          RESPONSE_TIMEOUT,  \* seconds
          NUM_FILTERS,       \* octave bands
          InitialProcedure,  \* joinProcedure as APP_Initialize sets it
          MaxLate,           \* bound: unread lines that outlive a new command
          MaxRestarts        \* bound: restarts of the modem on its own

JoinProcedures == {"FACTORY_RESET", "SET_ALL_PARAMS_AND_SAVE",
                   "JOIN_WITH_CURRENT_CONFIG"}

ASSUME MonitorAssumption ==
  /\ TIMER_FREQ \in Nat \ {0} /\ RESPONSE_TIMEOUT \in Nat \ {0}
  /\ NUM_FILTERS \in Nat \ {0} /\ MaxLate \in Nat /\ MaxRestarts \in Nat
  /\ InitialProcedure \in JoinProcedures

VARIABLES
  appState, error, joinProcedure,  \* appData: state, error, joinProcedure
  pc,             \* where the handler of appState is
  script, cmd,    \* commands the handler has still to send; the last one sent
  awaiting,       \* which waitForResponse is running: banner, first, second
  savesLeft,      \* calls of saveToFlash left in calibrate
  leq,            \* filterBank[].Leq: what it holds, and if it was transmitted
  timerOpen, timerOn, periods,     \* timer_40k; running; periods_elapsed
  rxBuf,          \* appData.rx_buf
  fifo, rxDead,   \* the UART's receive FIFO; its overrun error is set
  wire, modem,    \* lines on their way to the UART; the modem
  restarts        \* how often the modem has restarted on its own

appVars   == <<appState, error, joinProcedure>>
callVars  == <<script, cmd, awaiting, savesLeft>>
timerVars == <<timerOpen, timerOn, periods>>
lineVars  == <<rxBuf, fifo, rxDead, wire>>
modemVars == <<modem, restarts>>
vars == <<appVars, pc, callVars, leq, timerVars, lineVars, modemVars>>

AppStates == {"INIT", "WAIT_FOR_BUTTON_PRESS", "CALIBRATE", "JOIN", "IDLE",
              "MEASURE", "PROCESS", "TRANSMIT", "ERROR"}
Errors == {"NO_ERROR", "RX_LEN_EXCEEDED_MAX", "COULDNT_JOIN_NETWORK",
           "TIMEOUT_WHILE_WAITING_FOR_RESPONSE", "ERROR_WRITING_TO_FLASH",
           "I2S_RX_OVRFLW"}
Points == {"dispatch", "pause", "wait", "answered", "send", "press", "hold",
           "save", "starved", "sample", "return", "halted"}

\* A line in transit or in rx_buf, and whether it answers the last command sent.
\* A wait that gave up may have read "partial" lines; rx_buf starts empty.
Tagged == [text : Texts \union {"", "partial"}, char7 : Int, fresh : BOOLEAN]

Mark(lines, isFresh) ==
  [i \in DOMAIN lines |->
     [text |-> lines[i].text, char7 |-> lines[i].char7, fresh |-> isFresh]]

OK == error = "NO_ERROR"
IfOKUnchecked(next) == next   \* mutant: the handlers forget appData.error
IfOK(next) == IF OK THEN next ELSE "ERROR"   \* the tail of most handlers

-----------------------------------------------------------------------------
(* Commands of a handler, in order; joined() is the status at the end.     *)

SetAllThenReset ==            \* mutant: everything is set before the reset
  <<Cmd("get hweui")>> \o SetEach(SavedNames) \o ChannelCmds \o SetEach(UnsavedNames)
    \o <<Cmd("save"), Cmd("reset"), Cmd("join"), Cmd("status")>>
SetAllAndSave ==
  <<Cmd("get hweui")>> \o SetEach(SavedNames) \o ChannelCmds
    \o <<Cmd("save"), Cmd("reset")>> \o SetEach(UnsavedNames)
    \o <<Cmd("join"), Cmd("status")>>

Script(procedure) ==
  CASE procedure = "FACTORY_RESET" -> <<Cmd("factoryRESET")>>
    [] procedure = "SET_ALL_PARAMS_AND_SAVE" -> SetAllAndSave
    [] procedure = "JOIN_WITH_CURRENT_CONFIG" ->
         <<Cmd("reset"), Set(Param("dr")), Cmd("join"), Cmd("status")>>

-----------------------------------------------------------------------------
(* Time.  Every timed wait zeroes periods_elapsed and starts the timer, and *)
(* stops the timer and zeroes it again when it ends.                        *)

TimerSetupNoStart == periods' = 0 /\ UNCHANGED <<timerOn, timerOpen>>   \* mutant
TimerSetup == periods' = 0 /\ timerOn' = timerOpen /\ UNCHANGED timerOpen
TimerStop  == periods' = 0 /\ timerOn' = FALSE /\ UNCHANGED timerOpen

PauseSeconds == IF appState = "INIT" THEN 1 ELSE 5

\* The count at which the code that is waiting now acts.
Deadline == CASE pc = "pause" -> PauseSeconds * TIMER_FREQ
              [] pc = "hold"  -> 3 * TIMER_FREQ
              [] OTHER        -> RESPONSE_TIMEOUT * TIMER_FREQ

\* Interrupt after the deadline change nothing and are cut off: the bound.
TimerCallback ==
  /\ timerOn /\ periods < Deadline
  /\ periods' = periods + 1
  /\ UNCHANGED <<appVars, pc, callVars, leq, timerOpen, timerOn, lineVars, modemVars>>

-----------------------------------------------------------------------------
Init ==
  /\ appState = "INIT" /\ error = "NO_ERROR" /\ joinProcedure = InitialProcedure
  /\ pc = "dispatch" /\ script = <<>> /\ cmd = Cmd("status")
  /\ awaiting = "banner" /\ savesLeft = 0
  /\ leq = [holds |-> "nothing", sent |-> FALSE]
  /\ timerOpen = FALSE /\ timerOn = FALSE /\ periods = 0
  /\ rxBuf = [text |-> "", char7 |-> 0, fresh |-> FALSE]
  /\ fifo = <<>> /\ rxDead = FALSE /\ wire = <<>>
  /\ \E s \in {{}, SavedParams} : modem = [joined |-> FALSE, live |-> s, saved |-> s]
  /\ restarts = 0

(* init(): the timer may fail to open.  Then TimerSetup starts nothing and *)
(* pause_s(1) spins for ever: PauseHangs.                                  *)
InitBegin ==
  /\ pc = "dispatch" /\ appState = "INIT"
  /\ pc' = "pause"
  /\ timerOpen' \in BOOLEAN /\ timerOn' = timerOpen' /\ periods' = 0
  /\ UNCHANGED <<appVars, callVars, leq, lineVars, modemVars>>

PauseHangs == pc = "pause" /\ ~timerOpen /\ UNCHANGED vars

\* The modem is released from reset and says its banner.
InitReleaseModem ==
  /\ pc = "pause" /\ appState = "INIT" /\ periods >= Deadline
  /\ TimerSetup
  /\ pc' = "wait" /\ awaiting' = "banner"
  /\ modem' = Restart(modem) /\ wire' = Mark(<<Line("banner")>>, TRUE)
  /\ UNCHANGED <<appVars, script, cmd, savesLeft, leq, rxBuf, fifo, rxDead, restarts>>

\* init() does not look at appData.error: a banner that never came is noticed later.
InitReturn ==
  /\ pc = "answered" /\ awaiting = "banner"
  /\ pc' = "dispatch"
  /\ appState' = IF timerOpen THEN "WAIT_FOR_BUTTON_PRESS" ELSE "ERROR"
  /\ UNCHANGED <<error, joinProcedure, callVars, leq, timerVars, lineVars, modemVars>>

-----------------------------------------------------------------------------
(* wait_for_button_press()                                                 *)

PressBegin ==
  /\ pc = "dispatch" /\ appState = "WAIT_FOR_BUTTON_PRESS"
  /\ pc' = "press"
  /\ UNCHANGED <<appVars, callVars, leq, timerVars, lineVars, modemVars>>

\* while(SWITCH_S4StateGet()) ends: the switch reads low when pressed.
Pressed ==
  /\ pc = "press" /\ pc' = "hold"
  /\ TimerSetup
  /\ UNCHANGED <<appVars, callVars, leq, lineVars, modemVars>>

\* Mutant: the early return leaves the timer running.
ShortPressNoStop ==
  /\ pc = "hold" /\ 2 * periods > TIMER_FREQ
  /\ pc' = "dispatch" /\ appState' = "JOIN"
  /\ UNCHANGED <<error, joinProcedure, callVars, leq, timerVars, lineVars, modemVars>>

\* Seen released after half a second: join, whatever appData.error says.
ShortPress ==
  /\ pc = "hold" /\ 2 * periods > TIMER_FREQ
  /\ TimerStop
  /\ pc' = "dispatch" /\ appState' = "JOIN"
  /\ UNCHANGED <<error, joinProcedure, callVars, leq, lineVars, modemVars>>

\* Mutant: the error of the boot is not looked at here either.
LongPressUnchecked ==
  /\ pc = "hold" /\ periods >= Deadline
  /\ TimerStop
  /\ pc' = "dispatch" /\ appState' = "CALIBRATE"
  /\ UNCHANGED <<error, joinProcedure, callVars, leq, lineVars, modemVars>>

LongPress ==
  /\ pc = "hold" /\ periods >= Deadline
  /\ TimerStop
  /\ pc' = "dispatch" /\ appState' = IfOK("CALIBRATE")
  /\ UNCHANGED <<error, joinProcedure, callVars, leq, lineVars, modemVars>>

-----------------------------------------------------------------------------
(* calibrate(): one saveToFlash for the bias, then one for each gain, with  *)
(* the samples taken before the first and before the second.  No error     *)
(* stops it before the end.                                                *)

CalibrateBegin ==
  /\ pc = "dispatch" /\ appState = "CALIBRATE"
  /\ pc' = "save" /\ savesLeft' = NUM_FILTERS + 1
  /\ UNCHANGED <<appVars, script, cmd, awaiting, leq, timerVars, lineVars, modemVars>>

SaveToFlashOneMore ==   \* mutant: i <= NUM_FILTERS
  /\ pc = "save" /\ savesLeft >= 0
  /\ savesLeft' = savesLeft - 1
  /\ error' \in {error, "ERROR_WRITING_TO_FLASH"}
  /\ leq' = [holds |-> "sum", sent |-> FALSE]
  /\ UNCHANGED <<appState, joinProcedure, pc, script, cmd, awaiting, timerVars,
                 lineVars, modemVars>>

SaveToFlash ==
  /\ pc = "save" /\ savesLeft > 0
  /\ savesLeft' = savesLeft - 1
  /\ error' \in {error, "ERROR_WRITING_TO_FLASH"}
  \* after the bias, updateFilterBank accumulates what the gains are made of
  /\ leq' = [holds |-> "sum", sent |-> FALSE]
  /\ UNCHANGED <<appState, joinProcedure, pc, script, cmd, awaiting, timerVars,
                 lineVars, modemVars>>

\* A word that finds the receive buffer full stops SPI2 (IGNROV is 0), and unlike
\* measure() calibrate does not clear the overflow: it waits for words for ever.
I2sStops ==
  /\ pc = "save" /\ savesLeft >= NUM_FILTERS
  /\ pc' = "starved"
  /\ UNCHANGED <<appVars, callVars, leq, timerVars, lineVars, modemVars>>

Starved == pc = "starved" /\ UNCHANGED vars

CalibrateReturn ==
  /\ pc = "save" /\ savesLeft = 0
  /\ pc' = "dispatch" /\ appState' = IfOK("JOIN")
  /\ UNCHANGED <<error, joinProcedure, callVars, leq, timerVars, lineVars, modemVars>>

-----------------------------------------------------------------------------
(* sendMsg() to the modem, and waitForResponse().                          *)

\* What the modem has yet to say about older commands.
Late == IF Len(wire) <= MaxLate THEN Mark(wire, FALSE) ELSE <<>>

\* Nothing is discarded first: lines not yet read stay, now about an older command.
SendMsg ==
  /\ pc = "send"
  /\ cmd' = Head(script)
  /\ \E a \in Answers(modem, cmd', rxBuf.text) :
       /\ modem' = a.modem
       /\ wire' = Late \o Mark(a.replies, TRUE)
  /\ fifo' = Mark(fifo, FALSE) /\ rxBuf' = [rxBuf EXCEPT !.fresh = FALSE]
  /\ leq' = [leq EXCEPT !.sent = @ \/ cmd'.verb = "tx"]
  /\ pc' = "wait" /\ awaiting' = "first"
  /\ TimerSetup
  /\ UNCHANGED <<appVars, script, savesLeft, rxDead, restarts>>

WaitLine ==
  /\ pc = "wait" /\ fifo # <<>>
  /\ rxBuf' = [Head(fifo) EXCEPT !.char7 = IF @ = Untouched THEN rxBuf.char7 ELSE @]
  /\ fifo' = Tail(fifo)
  /\ pc' = "answered" /\ TimerStop
  /\ UNCHANGED <<appVars, callVars, leq, rxDead, wire, modemVars>>

\* What a failed wait leaves in rx_buf: the old text, or part of a line (or noise),
\* which may or may not reach rx_buf[7]; only the parity of that is ever used.
Partial(codes) == {[text |-> "partial", char7 |-> c, fresh |-> FALSE] : c \in codes}
Remains == {rxBuf} \union Partial({rxBuf.char7, 48, 49})

\* The first line waiting may have been read in part.
PartlyRead(lines) ==
  {lines} \union (IF lines = <<>> THEN {}
                  ELSE {<<[Head(lines) EXCEPT !.text = "partial"]>> \o Tail(lines)})

WaitTimeout ==
  /\ pc = "wait" /\ periods >= Deadline
  /\ error' = "TIMEOUT_WHILE_WAITING_FOR_RESPONSE" /\ rxBuf' \in Remains
  /\ fifo' \in PartlyRead(fifo)
  /\ pc' = "answered" /\ TimerStop
  /\ UNCHANGED <<appState, joinProcedure, callVars, leq, rxDead, wire, modemVars>>

\* MAX_STR_LEN bytes and no end of line: only noise on the line does that.
WaitOverlong ==
  /\ pc = "wait" /\ ~rxDead
  /\ error' = "RX_LEN_EXCEEDED_MAX"
  /\ rxBuf' \in Partial({48, 49})
  /\ pc' = "answered" /\ TimerStop
  /\ UNCHANGED <<appState, joinProcedure, callVars, leq, fifo, rxDead, wire, modemVars>>

\* "mac join otaa" and "mac tx" answered by "ok": the outcome is a second line.
TwoRepliesJoin == {"join"}   \* mutant: the outcome of "mac tx" is not waited for
TwoReplies == {"join", "tx"}
OutcomeToCome ==
  awaiting = "first" /\ cmd.verb \in TwoReplies /\ rxBuf.text = "ok"

WaitAgain ==
  /\ pc = "answered" /\ OutcomeToCome
  /\ pc' = "wait" /\ awaiting' = "second"
  /\ TimerSetup
  /\ UNCHANGED <<appVars, script, cmd, savesLeft, leq, lineVars, modemVars>>

SendMsgReturn ==
  /\ pc = "answered" /\ awaiting # "banner" /\ ~OutcomeToCome
  /\ script' = Tail(script)
  /\ pc' = IF script' = <<>> THEN "return" ELSE "send"
  /\ UNCHANGED <<appVars, cmd, awaiting, savesLeft, leq, timerVars, lineVars, modemVars>>

-----------------------------------------------------------------------------
(* join(), idle(), measure(), process(), transmit(), errorHandler()        *)

JoinBegin ==
  /\ pc = "dispatch" /\ appState = "JOIN"
  /\ pc' = "send" /\ script' = Script(joinProcedure)
  /\ UNCHANGED <<appVars, cmd, awaiting, savesLeft, leq, timerVars, lineVars, modemVars>>

\* After a factory reset APP_Tasks runs join() again, error or not.
FactoryResetReturn ==
  /\ pc = "return" /\ appState = "JOIN" /\ joinProcedure = "FACTORY_RESET"
  /\ joinProcedure' = "SET_ALL_PARAMS_AND_SAVE"
  /\ pc' = "dispatch"
  /\ UNCHANGED <<appState, error, callVars, leq, timerVars, lineVars, modemVars>>

JoinedNonZero == rxBuf.char7 # 48   \* mutant: the state bits count as well
Joined == rxBuf.char7 % 2 = 1

JoinReturn ==
  /\ pc = "return" /\ appState = "JOIN" /\ joinProcedure # "FACTORY_RESET"
  /\ error' = IF Joined THEN error ELSE "COULDNT_JOIN_NETWORK"
  /\ appState' = IF error' = "NO_ERROR" THEN "IDLE" ELSE "ERROR"
  /\ pc' = "dispatch"
  /\ UNCHANGED <<joinProcedure, callVars, leq, timerVars, lineVars, modemVars>>

IdleBegin ==
  /\ pc = "dispatch" /\ appState = "IDLE"
  /\ pc' = "pause" /\ TimerSetup
  /\ UNCHANGED <<appVars, callVars, leq, lineVars, modemVars>>

IdleReturn ==
  /\ pc = "pause" /\ appState = "IDLE" /\ periods >= Deadline
  /\ TimerStop
  /\ pc' = "dispatch" /\ appState' = IfOK("MEASURE")
  /\ UNCHANGED <<error, joinProcedure, callVars, leq, lineVars, modemVars>>

MeasureBeginStale ==   \* mutant: the sums are not cleared
  /\ pc = "dispatch" /\ appState = "MEASURE"
  /\ pc' = "sample"
  /\ UNCHANGED <<appVars, callVars, leq, timerVars, lineVars, modemVars>>

MeasureBegin ==
  /\ pc = "dispatch" /\ appState = "MEASURE"
  /\ pc' = "sample" /\ leq' = [holds |-> "sum", sent |-> FALSE]
  /\ UNCHANGED <<appVars, callVars, timerVars, lineVars, modemVars>>

\* A sample was lost: remembered, and sampling goes on.
I2sOverflow ==
  /\ pc = "sample"
  /\ error' = "I2S_RX_OVRFLW"
  /\ UNCHANGED <<appState, joinProcedure, pc, callVars, leq, timerVars, lineVars, modemVars>>

\* All samples read: Leq turns from a sum of squares into a level.
MeasureReturn ==
  /\ pc = "sample"
  /\ leq' = [leq EXCEPT !.holds = "level"]
  /\ pc' = "dispatch" /\ appState' = IfOK("PROCESS")
  /\ UNCHANGED <<error, joinProcedure, callVars, timerVars, lineVars, modemVars>>

Process ==
  /\ pc = "dispatch" /\ appState = "PROCESS"
  /\ appState' = IfOK("TRANSMIT")
  /\ UNCHANGED <<error, joinProcedure, pc, callVars, leq, timerVars, lineVars, modemVars>>

TransmitBegin ==
  /\ pc = "dispatch" /\ appState = "TRANSMIT"
  /\ pc' = "send" /\ script' = <<Cmd("tx")>>
  /\ UNCHANGED <<appVars, cmd, awaiting, savesLeft, leq, timerVars, lineVars, modemVars>>

\* What the modem answered is not looked at.
TransmitReturn ==
  /\ pc = "return" /\ appState = "TRANSMIT"
  /\ pc' = "dispatch" /\ appState' = IfOK("IDLE")
  /\ UNCHANGED <<error, joinProcedure, callVars, leq, timerVars, lineVars, modemVars>>

ErrorHandler ==
  /\ pc = "dispatch" /\ appState = "ERROR"
  /\ pc' = "halted"
  /\ UNCHANGED <<appVars, callVars, leq, timerVars, lineVars, modemVars>>

\* while(1){}
Halted == pc = "halted" /\ UNCHANGED vars

-----------------------------------------------------------------------------
(* The serial line and the modem.                                          *)

Polled == pc = "wait" /\ fifo = <<>>

\* The FIFO has room for 8 bytes when nothing drains it: "ok" takes 4, "denied" 8.
Fits(line) == \/ fifo = <<>> /\ line.text \in {"ok", "denied"}
              \/ line.text = "ok" /\ Len(fifo) = 1 /\ Head(fifo).text = "ok"

\* A line that finds no room sets the overrun error, which nothing clears:
\* _DRV_USART1_ErrorConditionClear is never called and the receiver stays off.
Arrive ==
  /\ wire # <<>>
  /\ wire' = Tail(wire)
  /\ LET taken == ~rxDead /\ (Polled \/ Fits(Head(wire)))
     IN /\ fifo' = IF taken THEN Append(fifo, Head(wire)) ELSE fifo
        /\ rxDead' = ~taken
  /\ UNCHANGED <<appVars, pc, callVars, leq, timerVars, rxBuf, modemVars>>

Lose ==
  /\ wire # <<>>
  /\ wire' = Tail(wire)
  /\ UNCHANGED <<appVars, pc, callVars, leq, timerVars, rxBuf, fifo, rxDead, modemVars>>

\* The modem restarts on its own and says its banner unasked.
ModemRestart ==
  /\ restarts < MaxRestarts /\ restarts' = restarts + 1
  /\ modem' = Restart(modem)
  /\ wire' = wire \o Mark(<<Line("banner")>>, FALSE)
  /\ UNCHANGED <<appVars, pc, callVars, leq, timerVars, rxBuf, fifo, rxDead>>

-----------------------------------------------------------------------------
\* What the processor does by itself, the button aside.
Processor ==
  \/ InitBegin \/ InitReleaseModem \/ InitReturn
  \/ PressBegin \/ LongPress
  \/ CalibrateBegin \/ SaveToFlash \/ CalibrateReturn
  \/ SendMsg \/ WaitLine \/ WaitTimeout \/ WaitAgain \/ SendMsgReturn
  \/ JoinBegin \/ FactoryResetReturn \/ JoinReturn
  \/ IdleBegin \/ IdleReturn
  \/ MeasureBegin \/ MeasureReturn \/ Process
  \/ TransmitBegin \/ TransmitReturn
  \/ ErrorHandler

Environment ==
  \/ Pressed \/ ShortPress
  \/ WaitOverlong \/ I2sOverflow \/ I2sStops
  \/ Arrive \/ Lose \/ ModemRestart

Next == Processor \/ TimerCallback \/ Environment \/ PauseHangs \/ Starved \/ Halted

(* The processor never stops and a running timer keeps interrupting.       *)
(* Nothing is promised of the button, the line or the modem.  MeasureReturn *)
(* rests on SPI2 being the I2S master: its own clock delivers the words.   *)
Fairness == WF_vars(Processor) /\ WF_vars(TimerCallback)

Spec == Init /\ [][Next]_vars /\ Fairness
-----------------------------------------------------------------------------
(* Properties.                                                             *)

\* Every variable holds what the C variable it stands for can hold.
TypeOK ==
  /\ appState \in AppStates /\ error \in Errors /\ joinProcedure \in JoinProcedures
  /\ pc \in Points /\ awaiting \in {"banner", "first", "second"}
  /\ script \in Seq(Commands) /\ cmd \in Commands
  /\ savesLeft \in 0 .. NUM_FILTERS + 1
  /\ leq \in [holds : {"nothing", "sum", "level"}, sent : BOOLEAN]
  /\ timerOpen \in BOOLEAN /\ timerOn \in BOOLEAN /\ periods \in Nat
  /\ rxBuf \in Tagged /\ fifo \in Seq(Tagged) /\ wire \in Seq(Tagged)
  /\ rxDead \in BOOLEAN /\ modem \in Modem /\ restarts \in 0 .. MaxRestarts

\* The timer interrupts only while some loop is counting, and every count starts
\* from zero: each way out of a timed wait, the early return of
\* wait_for_button_press() too, stops timer_40k and clears periods_elapsed.
TimerQuiet ==
  pc \notin {"pause", "wait", "hold"} => ~timerOn /\ periods = 0

\* As long as no error is recorded and the modem has not restarted by itself, the
\* line waitForResponse() returns answers the command sent last, though nothing
\* discards old input and lines may be late or lost (helper_fcns.c:25-74).
ReplyIsFresh ==
  pc = "answered" /\ OK /\ restarts = 0 => rxBuf.fresh

\* The monitor measures and transmits only on a network it has joined, whatever was
\* late or lost on the way to joined() (helper_fcns.c:92-95, join.c:72-83).
IdleMeansJoined ==
  appState \in {"IDLE", "MEASURE", "PROCESS", "TRANSMIT"} /\ restarts = 0
    => modem.joined

\* When a join that set the parameters itself asks to join, with no error recorded,
\* the modem holds each of them: the sys reset in between has taken none away.
ConfiguredAtJoin ==
  (/\ pc = "wait" /\ cmd.verb = "join" /\ OK /\ restarts = 0
   /\ joinProcedure = "SET_ALL_PARAMS_AND_SAVE")
    => modem.live = Params

\* A transmission carries the levels of the last measurement, once: never the sums
\* calibrate() leaves in Leq, never levels that were sent before.
LevelsSentOnce ==
  [][cmd'.verb = "tx" /\ pc = "send" /\ pc' = "wait"
       => leq.holds = "level" /\ ~leq.sent]_vars

\* Every recorded error is reported by the error handler in the end, unless the
\* program is waiting for the button or calibrate() for words that do not come.
ErrorReported == ~OK ~> pc \in {"halted", "press", "starved"}

\* Started, the monitor transmits again and again, unless it halts, waits for the
\* button, starves in calibrate() or hangs in pause_s() for want of a timer.
KeepsMonitoring ==
  \/ []<>(appState = "TRANSMIT" /\ pc = "return")
  \/ <>[](pc \in {"halted", "press", "starved"} \/ ~timerOpen)

Lifecycle == INSTANCE MonitorLifecycle WITH
  phase <- appState, failed <- ~OK, halted <- pc = "halted"

\* The superloop keeps the promise of MonitorLifecycle.
ImplementsLifecycle == Lifecycle!Spec
=============================================================================
