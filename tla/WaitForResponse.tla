-------------------------- MODULE WaitForResponse --------------------------
(***************************************************************************)
(* waitForResponse() byte by byte: the loop polls the UART's receive FIFO  *)
(* and the clock while bytes arrive and the timer interrupts.  Calls       *)
(* follow each other at any distance; rx_buf is never cleared between.     *)
(***************************************************************************)
EXTENDS Naturals, Sequences

CONSTANTS MAX_STR_LEN,     \* size of rx_buf
          RESPONSE_TICKS,  \* RESPONSE_TIMEOUT * TIMER_FREQ
          FIFO_DEPTH,      \* receive FIFO of the UART
          Text             \* bytes other than CR, LF and NUL

ASSUME WaitAssumption ==
  /\ MAX_STR_LEN \in Nat \ {0, 1} /\ RESPONSE_TICKS \in Nat \ {0}
  /\ FIFO_DEPTH \in Nat \ {0}
  /\ Text \intersect {"CR", "LF", "NUL"} = {}

Bytes == Text \union {"CR", "LF"}

VARIABLES pc,               \* where the loop is; "idle" between calls
          rx_count, rx_buf, \* the local count; appData.rx_buf
          error,            \* appData.error
          outcome,          \* which break left the loop
          periods, timerOn, \* periods_elapsed; the timer is running
          fifo, overrun     \* the UART: bytes not yet read, overrun error

uartVars  == <<fifo, overrun>>
timerVars == <<periods, timerOn>>
vars == <<pc, rx_count, rx_buf, error, outcome, timerVars, uartVars>>

Errors == {"NO_ERROR", "RX_LEN_EXCEEDED_MAX", "TIMEOUT_WHILE_WAITING_FOR_RESPONSE"}

-----------------------------------------------------------------------------
Init ==
  /\ pc = "idle" /\ rx_count = 0 /\ rx_buf = [i \in 0 .. MAX_STR_LEN - 1 |-> "NUL"]
  /\ error = "NO_ERROR" /\ outcome = "none"
  /\ periods = 0 /\ timerOn = FALSE
  /\ fifo = <<>> /\ overrun = FALSE

CallKeepsCount ==   \* mutant: rx_count = 0 is left out
  /\ pc = "idle"
  /\ pc' = "poll" /\ outcome' = "reading"
  /\ periods' = 0 /\ timerOn' = TRUE
  /\ UNCHANGED <<rx_count, rx_buf, error, uartVars>>

Call ==
  /\ pc = "idle"
  /\ pc' = "poll" /\ outcome' = "reading"
  /\ rx_count' = 0
  /\ periods' = 0 /\ timerOn' = TRUE
  /\ UNCHANGED <<rx_buf, error, uartVars>>

EndsLineAtLF(buf, n) == n > 1 /\ buf[n - 1] = "LF"   \* mutant: any LF ends it
EndsLine(buf, n) == n > 1 /\ buf[n - 1] = "LF" /\ buf[n - 2] = "CR"

TerminateNot(buf, n) == rx_buf' = buf /\ UNCHANGED error   \* mutant: no NUL

(* The NUL after the line: when the line fills rx_buf it falls on what     *)
(* follows rx_buf in APP_DATA, the low byte of error, and clears it.       *)
Terminate(buf, n) ==
  /\ rx_buf' = IF n < MAX_STR_LEN THEN [buf EXCEPT ![n] = "NUL"] ELSE buf
  /\ error' = IF n < MAX_STR_LEN THEN error ELSE "NO_ERROR"

\* The receiver has a byte: read it, and leave the loop if it ends the line.
ReadByte ==
  /\ pc = "poll" /\ fifo # <<>>
  /\ fifo' = Tail(fifo) /\ UNCHANGED overrun
  /\ rx_count' = rx_count + 1
  /\ LET buf == [rx_buf EXCEPT ![rx_count] = Head(fifo)]
     IN IF EndsLine(buf, rx_count + 1)
        THEN /\ Terminate(buf, rx_count + 1)
             /\ pc' = "stop" /\ outcome' = "line"
        ELSE /\ rx_buf' = buf
             /\ pc' = "length" /\ UNCHANGED <<error, outcome>>
  /\ UNCHANGED timerVars

ReceiverEmpty ==
  /\ pc = "poll" /\ fifo = <<>>
  /\ pc' = "length"
  /\ UNCHANGED <<rx_count, rx_buf, error, outcome, timerVars, uartVars>>

TestSilent(failed, code, how, next) ==   \* mutant: gives up without an error
  /\ pc' = IF failed THEN "stop" ELSE next
  /\ outcome' = IF failed THEN how ELSE outcome
  /\ UNCHANGED <<error, rx_count, rx_buf, timerVars, uartVars>>

\* A test of the loop: give up with that error, or go on.
Test(failed, code, how, next) ==
  /\ pc' = IF failed THEN "stop" ELSE next
  /\ error' = IF failed THEN code ELSE error
  /\ outcome' = IF failed THEN how ELSE outcome
  /\ UNCHANGED <<rx_count, rx_buf, timerVars, uartVars>>

CheckLength ==
  /\ pc = "length"
  /\ Test(rx_count = MAX_STR_LEN, "RX_LEN_EXCEEDED_MAX", "overlong", "clock")

CheckClock ==
  /\ pc = "clock"
  /\ Test(periods >= RESPONSE_TICKS, "TIMEOUT_WHILE_WAITING_FOR_RESPONSE",
          "timeout", "poll")

Return ==
  /\ pc = "stop"
  /\ pc' = "idle"
  /\ periods' = 0 /\ timerOn' = FALSE
  /\ UNCHANGED <<rx_count, rx_buf, error, outcome, uartVars>>

-----------------------------------------------------------------------------
\* The count is capped: past RESPONSE_TICKS more interrupts change nothing.
TimerCallback ==
  /\ timerOn /\ periods < RESPONSE_TICKS
  /\ periods' = periods + 1
  /\ UNCHANGED <<pc, rx_count, rx_buf, error, outcome, timerOn, uartVars>>

ByteArrivesOneMore ==   \* mutant: the FIFO takes one byte more than it has room for
  /\ ~overrun
  /\ IF Len(fifo) <= FIFO_DEPTH
     THEN (\E b \in Bytes : fifo' = Append(fifo, b)) /\ UNCHANGED overrun
     ELSE overrun' = TRUE /\ UNCHANGED fifo
  /\ UNCHANGED <<pc, rx_count, rx_buf, error, outcome, timerVars>>

\* A byte that finds the FIFO full is lost and so is all that follows it:
\* the overrun error is never cleared.
ByteArrives ==
  /\ ~overrun
  /\ IF Len(fifo) < FIFO_DEPTH
     THEN (\E b \in Bytes : fifo' = Append(fifo, b)) /\ UNCHANGED overrun
     ELSE overrun' = TRUE /\ UNCHANGED fifo
  /\ UNCHANGED <<pc, rx_count, rx_buf, error, outcome, timerVars>>

Loop == ReadByte \/ ReceiverEmpty \/ CheckLength \/ CheckClock \/ Return

Next == Call \/ Loop \/ TimerCallback \/ ByteArrives

\* The processor runs and a running timer interrupts; bytes may never come.
Spec == Init /\ [][Next]_vars /\ WF_vars(Loop) /\ WF_vars(TimerCallback)

-----------------------------------------------------------------------------
(* Properties.                                                             *)

Buffers == [0 .. MAX_STR_LEN - 1 -> Bytes \union {"NUL"}]

\* Every variable holds what the C variable it stands for can hold.
TypeOK ==
  /\ pc \in {"idle", "poll", "length", "clock", "stop"}
  /\ rx_count \in 0 .. MAX_STR_LEN /\ rx_buf \in Buffers
  /\ error \in Errors
  /\ outcome \in {"none", "reading", "line", "overlong", "timeout"}
  /\ periods \in 0 .. RESPONSE_TICKS /\ timerOn \in BOOLEAN
  /\ fifo \in Seq(Bytes) /\ Len(fifo) <= FIFO_DEPTH /\ overrun \in BOOLEAN

\* A byte is only stored inside rx_buf: the count is below MAX_STR_LEN whenever
\* the loop comes back to ReadByte.
StoreInBounds == pc \in {"poll", "clock"} => rx_count < MAX_STR_LEN

\* A reply that ended in CR LF is a proper C string: no NUL or older CR LF in it,
\* and a NUL behind it wherever rx_buf has room for one, so strcmp(rx_buf, "ok\r\n")
\* sees this reply and nothing of the longer one that was there before.
ReplyIsString ==
  outcome = "line" =>
    /\ EndsLine(rx_buf, rx_count)
    /\ \A n \in 0 .. rx_count - 1 : ~EndsLine(rx_buf, n) /\ rx_buf[n] # "NUL"
    /\ rx_count < MAX_STR_LEN => rx_buf[rx_count] = "NUL"

\* A call that gives up says so, and an error recorded by an earlier call is still
\* recorded, except after the line whose NUL falls behind rx_buf.
ErrorKept ==
  [][/\ outcome' \in {"overlong", "timeout"} => error' # "NO_ERROR"
     /\ error # "NO_ERROR" /\ error' = "NO_ERROR"
          => outcome' = "line" /\ rx_count' = MAX_STR_LEN]_vars

Reader == INSTANCE LineReader WITH
  unread <- fifo, line <- [i \in 1 .. rx_count |-> rx_buf[i - 1]]

\* waitForResponse() hands over the received bytes in order and returns, whatever
\* arrives or does not, as LineReader promises.
ImplementsLineReader == Reader!Spec
=============================================================================
