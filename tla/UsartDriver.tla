---------------------------- MODULE UsartDriver ----------------------------
(***************************************************************************)
(* The static USART driver: two instances behind one set of functions that *)
(* dispatch on the handle, the loops that use them (sendMsg's, and the one *)
(* of _DRV_USARTn_ErrorConditionClear), and the two USARTs, which send and *)
(* receive at any moment.                                                  *)
(***************************************************************************)
EXTENDS Integers, SequencesExt

CONSTANTS FIFO_DEPTH,          \* receive FIFO; _DRV_USART_RX_DEPTH is one more
          TX_DEPTH,            \* transmit FIFO
          Messages,            \* what sendMsg is called with
          Incoming,            \* what a line delivers: a byte, good or bad
          LineModes, LINE_8N1,
          Bauds, INITIAL_BAUD, \* rates set later, and by DRV_USARTn_Initialize
          CLOCK,               \* SYS_CLK_PeripheralFrequencyGet
          BRG_MAX              \* UINT16_MAX

DRV_HANDLE_INVALID == 2^16 - 1   \* all ones; only the low byte is looked at
USARTs  == {0, 1}
Handles == USARTs \union {DRV_HANDLE_INVALID}

(* The rate generator: four clocks or sixteen to a bit.                    *)
DivisorHigh(b) == (CLOCK \div b) \div 4 - 1
DivisorLow(b)  == (CLOCK \div b) \div 16 - 1
Fits(d)        == d >= 0 /\ d <= BRG_MAX

ASSUME UsartAssumption ==
  /\ FIFO_DEPTH \in Nat \ {0} /\ TX_DEPTH \in Nat \ {0}
  /\ Messages \subseteq Seq(STRING) /\ <<>> \notin Messages
  /\ Incoming \subseteq [byte : STRING, bad : BOOLEAN]
  /\ LINE_8N1 \in LineModes
  /\ Bauds \subseteq Nat \ {0} /\ INITIAL_BAUD \in [USARTs -> Nat \ {0}]
  /\ CLOCK \in Nat \ {0} /\ BRG_MAX \in Nat
  /\ \A u \in USARTs : Fits(DivisorHigh(INITIAL_BAUD[u]))

VARIABLES pc, handle,          \* the client: "rest" between calls; what it passed
          msg, tx_count,       \* sendMsg
          RXlength,            \* _DRV_USARTn_ErrorConditionClear
          setting, isEnabled,  \* BaudSet, LineControlSet
          hasBusyStatus,       \* PLIB_USART_ExistsModuleBusyStatus, of the build
          up,                  \* initialised and not deinitialised
          on, stopping,        \* the USART: enabled; disabled and not yet idle
          rx, oerr, tx,        \* FIFOs, overrun error
          brg, line,           \* rate generator, line control
          due, pending, baud   \* history: bytes wanted on the line, bytes received
                               \* and not yet handed over, the rate wanted

clientVars  == <<pc, handle, msg, tx_count, RXlength, setting, isEnabled>>
fifoVars    == <<rx, oerr, tx, due, pending>>
settingVars == <<brg, line, baud>>
powerVars   == <<up, on, stopping>>
vars == <<clientVars, hasBusyStatus, powerVars, fifoVars, settingVars>>

-----------------------------------------------------------------------------

DRV_USART_Open(index) == IF index \in USARTs THEN index ELSE DRV_HANDLE_INVALID
Instance(h) == h % 256
Valid(h)    == Instance(h) \in USARTs

Init ==
  /\ pc = "rest" /\ handle = DRV_HANDLE_INVALID /\ msg = <<>> /\ tx_count = 0
  /\ RXlength = 0 /\ setting = [kind |-> "line", value |-> LINE_8N1] /\ isEnabled = FALSE
  /\ hasBusyStatus \in BOOLEAN
  /\ up = [u \in USARTs |-> TRUE] /\ on = up /\ stopping = [u \in USARTs |-> FALSE]
  /\ rx = [u \in USARTs |-> <<>>] /\ oerr = [u \in USARTs |-> FALSE]
  /\ tx = [u \in USARTs |-> <<>>]
  /\ brg = [u \in USARTs |-> [high |-> TRUE, divisor |-> DivisorHigh(INITIAL_BAUD[u])]]
  /\ line = [u \in USARTs |-> LINE_8N1]
  /\ due = [u \in USARTs |-> <<>>] /\ pending = [u \in USARTs |-> <<>>]
  /\ baud = INITIAL_BAUD

-----------------------------------------------------------------------------
(* The USARTs.                                                             *)

\* A byte comes: into the FIFO; lost, with an overrun, if that is full; ignored
\* until the overrun is cleared, or if the receiver is off.
ByteArrives(u) ==
  /\ on[u] /\ ~oerr[u]
  /\ \E b \in Incoming :
       IF Len(rx[u]) < FIFO_DEPTH
       THEN /\ rx' = [rx EXCEPT ![u] = Append(@, b)]
            /\ pending' = [pending EXCEPT ![u] = Append(@, b)]
            /\ UNCHANGED oerr
       ELSE oerr' = [oerr EXCEPT ![u] = TRUE] /\ UNCHANGED <<rx, pending>>
  /\ UNCHANGED <<clientVars, hasBusyStatus, powerVars, settingVars, tx, due>>

ByteLeaves(u) ==
  /\ on[u] /\ tx[u] # <<>>
  /\ tx' = [tx EXCEPT ![u] = Tail(@)]
  /\ due' = [due EXCEPT ![u] = Tail(@)]
  /\ UNCHANGED <<clientVars, hasBusyStatus, powerVars, settingVars, rx, oerr, pending>>

ComesToRest(u) ==
  /\ stopping[u]
  /\ stopping' = [stopping EXCEPT ![u] = FALSE]
  /\ UNCHANGED <<clientVars, hasBusyStatus, up, on, fifoVars, settingVars>>

ModuleIsBusy(u) == on[u] \/ stopping[u]

\* PLIB_USART_Disable: both FIFOs and the overrun are gone.
Disable(u) ==
  /\ on' = [on EXCEPT ![u] = FALSE] /\ stopping' = [stopping EXCEPT ![u] = on[u] \/ @]
  /\ rx' = [rx EXCEPT ![u] = <<>>] /\ tx' = [tx EXCEPT ![u] = <<>>]
  /\ oerr' = [oerr EXCEPT ![u] = FALSE]
  /\ due' = [due EXCEPT ![u] = <<>>] /\ pending' = [pending EXCEPT ![u] = <<>>]

-----------------------------------------------------------------------------
(* Sending and receiving bytes.                                            *)

TransmitBufferIsFull(u) == Len(tx[u]) >= TX_DEPTH
DRV_USART_TransmitBufferIsFullElse(h) == Valid(h) => TransmitBufferIsFull(Instance(h))   \* mutant: default returns true
DRV_USART_TransmitBufferIsFull(h) == Valid(h) /\ TransmitBufferIsFull(Instance(h))

\* A byte written to a full FIFO is lost.
WriteByte(u, b) ==
  tx' = IF TransmitBufferIsFull(u) THEN tx ELSE [tx EXCEPT ![u] = Append(@, b)]
DRV_USART_WriteByte(h, b) == IF Valid(h) THEN WriteByte(Instance(h), b) ELSE UNCHANGED tx

ReceiverBufferIsEmpty(u) == rx[u] = <<>>
DRV_USART_ReceiverBufferIsEmpty(h) == Valid(h) /\ ReceiverBufferIsEmpty(Instance(h))

ReadByte(u) == rx' = IF rx[u] = <<>> THEN rx ELSE [rx EXCEPT ![u] = Tail(@)]
DRV_USART_ReadByteOf0(h) == IF Valid(h) THEN ReadByte(0) ELSE UNCHANGED rx   \* mutant: case 1 reads instance 0
DRV_USART_ReadByte(h) == IF Valid(h) THEN ReadByte(Instance(h)) ELSE UNCHANGED rx

\* The flags, as a set.
TransferStatus(u) ==
  {IF rx[u] # <<>> THEN "RECEIVER_DATA_PRESENT" ELSE "RECEIVER_EMPTY"}
  \union {f \in {"TRANSMIT_EMPTY"} : tx[u] = <<>>}
  \union {f \in {"TRANSMIT_FULL"} : TransmitBufferIsFull(u)}
DRV_USART_TransferStatus(h) == IF Valid(h) THEN TransferStatus(Instance(h)) ELSE {}

\* What the client has called for and the line is still to send.
Owe(h, m) == [u \in USARTs |-> IF u = Instance(h) THEN due[u] \o m ELSE due[u]]

SendMsg ==
  /\ pc = "rest"
  /\ \E h \in Handles, m \in Messages :
       (Valid(h) => up[h]) /\ pc' = "send" /\ handle' = h /\ msg' = m /\ due' = Owe(h, m)
  /\ tx_count' = 0
  /\ UNCHANGED <<RXlength, setting, isEnabled, hasBusyStatus, powerVars, settingVars,
                 rx, oerr, tx, pending>>

SendMsgLoop ==
  /\ pc = "send"
  /\ IF DRV_USART_TransmitBufferIsFull(handle)
     THEN UNCHANGED <<tx, tx_count>>
     ELSE DRV_USART_WriteByte(handle, msg[tx_count + 1]) /\ tx_count' = tx_count + 1
  /\ pc' = IF tx_count' = Len(msg) THEN "rest" ELSE "send"
  /\ UNCHANGED <<handle, msg, RXlength, setting, isEnabled, hasBusyStatus, powerVars,
                 settingVars, rx, oerr, due, pending>>

\* One pass of waitForResponse: if there is a byte, it is read in the next step.
Poll ==
  /\ pc = "rest"
  /\ \E h \in Handles : ~DRV_USART_ReceiverBufferIsEmpty(h) /\ pc' = "read" /\ handle' = h
  /\ UNCHANGED <<msg, tx_count, RXlength, setting, isEnabled, hasBusyStatus, powerVars,
                 fifoVars, settingVars>>

PollRead ==
  /\ pc = "read"
  /\ DRV_USART_ReadByte(handle)
  /\ pending' = [u \in USARTs |-> IF u = Instance(handle) /\ pending[u] # <<>>
                                  THEN Tail(pending[u]) ELSE pending[u]]
  /\ pc' = "rest"
  /\ UNCHANGED <<handle, msg, tx_count, RXlength, setting, isEnabled, hasBusyStatus,
                 powerVars, settingVars, oerr, tx, due>>

-----------------------------------------------------------------------------
(* Clearing errors: an overrun, which empties the FIFO, then bad bytes, as *)
(* many as the FIFO and the register hold at most.                         *)

_DRV_USART_ErrorConditionClear(u) ==
  /\ pc = "rest"
  /\ pc' = "clear" /\ handle' = u /\ RXlength' = FIFO_DEPTH + 1
  /\ oerr' = [oerr EXCEPT ![u] = FALSE]
  /\ rx' = IF oerr[u] THEN [rx EXCEPT ![u] = <<>>] ELSE rx
  /\ pending' = IF oerr[u] THEN [pending EXCEPT ![u] = <<>>] ELSE pending
  /\ UNCHANGED <<msg, tx_count, setting, isEnabled, hasBusyStatus, powerVars, settingVars, tx, due>>

ParityOrFraming(u) == rx[u] # <<>> /\ Head(rx[u]).bad

LimitTwice(length) == length - 2   \* mutant: it is counted down in the test too
Limit(length)     == length - 1

ErrorConditionClearLoop ==
  /\ pc = "clear"
  /\ IF ParityOrFraming(handle)
     THEN /\ ReadByte(handle)
          /\ pending' = [pending EXCEPT ![handle] = Tail(@)]
          /\ RXlength' = Limit(RXlength)
          /\ pc' = IF RXlength' = 0 THEN "rest" ELSE "clear"
     ELSE pc' = "rest" /\ UNCHANGED <<rx, pending, RXlength>>
  /\ UNCHANGED <<handle, msg, tx_count, setting, isEnabled, hasBusyStatus, powerVars,
                 settingVars, oerr, tx, due>>

-----------------------------------------------------------------------------
(* BaudSet and LineControlSet: with the USART stopped, if the build can    *)
(* tell whether it runs.                                                   *)

Settings == [kind : {"baud"}, value : Bauds] \union [kind : {"line"}, value : LineModes]

Stop(u)    == Disable(u) /\ UNCHANGED up

SetBegin ==
  /\ pc = "rest"
  /\ \E u \in USARTs, s \in Settings :
       /\ handle' = u /\ setting' = s
       /\ isEnabled' = (hasBusyStatus /\ ModuleIsBusy(u))
       /\ IF isEnabled' THEN Stop(u) /\ pc' = "quiet"
          ELSE pc' = "set" /\ UNCHANGED <<powerVars, fifoVars>>
  /\ UNCHANGED <<msg, tx_count, RXlength, hasBusyStatus, settingVars>>

SetWaitNot ==   \* mutant: while (PLIB_USART_ModuleIsBusy) is left out
  /\ pc = "quiet"
  /\ pc' = "set"
  /\ UNCHANGED <<handle, msg, tx_count, RXlength, setting, isEnabled, hasBusyStatus,
                 powerVars, fifoVars, settingVars>>
SetWait ==
  /\ pc = "quiet"
  /\ pc' = IF ModuleIsBusy(handle) THEN "quiet" ELSE "set"
  /\ UNCHANGED <<handle, msg, tx_count, RXlength, setting, isEnabled, hasBusyStatus,
                 powerVars, fifoVars, settingVars>>

\* The baud rates that can be set, and the rate generator for them.
Rates == {b \in Bauds : Fits(DivisorHigh(b)) \/ Fits(DivisorLow(b))}
Generator(b) ==
  IF Fits(DivisorHigh(b)) THEN [high |-> TRUE, divisor |-> DivisorHigh(b)]
                          ELSE [high |-> FALSE, divisor |-> DivisorLow(b)]

Set ==
  /\ pc = "set"
  /\ IF setting.kind = "line"
     THEN line' = [line EXCEPT ![handle] = setting.value] /\ UNCHANGED <<brg, baud>>
     ELSE /\ IF setting.value \in Rates
             THEN /\ brg' = [brg EXCEPT ![handle] = Generator(setting.value)]
                  /\ baud' = [baud EXCEPT ![handle] = setting.value]
             ELSE UNCHANGED <<brg, baud>>
          /\ UNCHANGED line
  /\ pc' = "enable"
  /\ UNCHANGED <<handle, msg, tx_count, RXlength, setting, isEnabled, hasBusyStatus,
                 powerVars, fifoVars>>

SetReturnRefused ==   \* mutant: DRV_USART_BAUD_SET_ERROR is returned at once
  /\ pc = "enable"
  /\ on' = IF isEnabled /\ (setting.kind = "line" \/ setting.value \in Rates)
           THEN [on EXCEPT ![handle] = TRUE] ELSE on
  /\ pc' = "rest"
  /\ UNCHANGED <<handle, msg, tx_count, RXlength, setting, isEnabled, hasBusyStatus,
                 up, stopping, fifoVars, settingVars>>
SetReturn ==
  /\ pc = "enable"
  /\ on' = IF isEnabled THEN [on EXCEPT ![handle] = TRUE] ELSE on
  /\ pc' = "rest"
  /\ UNCHANGED <<handle, msg, tx_count, RXlength, setting, isEnabled, hasBusyStatus,
                 up, stopping, fifoVars, settingVars>>

-----------------------------------------------------------------------------
(* Initialising and deinitialising an instance.                            *)

DRV_USARTn_Initialize(u) ==
  /\ rx' = [rx EXCEPT ![u] = <<>>] /\ tx' = [tx EXCEPT ![u] = <<>>]
  /\ oerr' = [oerr EXCEPT ![u] = FALSE]
  /\ due' = [due EXCEPT ![u] = <<>>] /\ pending' = [pending EXCEPT ![u] = <<>>]
  /\ line' = [line EXCEPT ![u] = LINE_8N1]
  /\ brg' = [brg EXCEPT ![u] = Generator(INITIAL_BAUD[u])]
  /\ baud' = [baud EXCEPT ![u] = INITIAL_BAUD[u]]
  /\ up' = [up EXCEPT ![u] = TRUE] /\ on' = [on EXCEPT ![u] = TRUE]
  /\ stopping' = [stopping EXCEPT ![u] = FALSE]

DRV_USARTn_Deinitialize(u) ==
  Disable(u) /\ up' = [up EXCEPT ![u] = FALSE] /\ UNCHANGED settingVars

DRV_USART_Initialize(index) ==
  /\ pc = "rest" /\ index \in USARTs
  /\ DRV_USARTn_Initialize(index)
  /\ UNCHANGED <<clientVars, hasBusyStatus>>

DRV_USART_Deinitialize(object) ==
  /\ pc = "rest" /\ object \in USARTs
  /\ DRV_USARTn_Deinitialize(object)
  /\ UNCHANGED <<clientVars, hasBusyStatus>>

-----------------------------------------------------------------------------
Continue == SendMsgLoop \/ PollRead \/ ErrorConditionClearLoop \/ SetWait \/ Set \/ SetReturn
Call ==
  \/ SendMsg \/ Poll \/ SetBegin
  \/ \E u \in USARTs : \/ _DRV_USART_ErrorConditionClear(u)
                       \/ DRV_USART_Initialize(u) \/ DRV_USART_Deinitialize(u)
Hardware(u) == ByteArrives(u) \/ ByteLeaves(u) \/ ComesToRest(u)
Next == Continue \/ Call \/ \E u \in USARTs : Hardware(u)

\* The processor goes on; a USART that is on sends, one that is off comes to
\* rest. Nothing is promised of what arrives, nor that the client calls.
Spec ==
  /\ Init /\ [][Next]_vars
  /\ WF_vars(Continue)
  /\ \A u \in USARTs : WF_vars(ByteLeaves(u)) /\ WF_vars(ComesToRest(u))

-----------------------------------------------------------------------------
(* Type invariant of the client, the driver and the USARTs.                *)
TypeOK ==
  /\ pc \in {"rest", "send", "read", "clear", "quiet", "set", "enable"}
  /\ handle \in Handles /\ msg \in Messages \union {<<>>} /\ tx_count \in 0..Len(msg)
  /\ RXlength \in 0..(FIFO_DEPTH + 1)
  /\ setting \in Settings
  /\ isEnabled \in BOOLEAN /\ hasBusyStatus \in BOOLEAN
  /\ up \in [USARTs -> BOOLEAN] /\ on \in [USARTs -> BOOLEAN] /\ stopping \in [USARTs -> BOOLEAN]
  /\ oerr \in [USARTs -> BOOLEAN] /\ line \in [USARTs -> LineModes]
  /\ rx \in [USARTs -> BoundedSeq(Incoming, FIFO_DEPTH)]
  /\ tx \in [USARTs -> Seq(STRING)] /\ \A u \in USARTs : Len(tx[u]) <= TX_DEPTH
  /\ brg \in [USARTs -> [high : BOOLEAN, divisor : 0..BRG_MAX]]
  /\ baud \in [USARTs -> Nat] /\ \A u \in USARTs : baud[u] \in Rates \union {INITIAL_BAUD[u]}

\* What sendMsg was given leaves on the line it was meant for, complete, in order
\* and once: whatever is still due is in that USART's FIFO or still to be written.
SentInOrder ==
  \A u \in USARTs :
    due[u] = tx[u] \o (IF pc = "send" /\ Instance(handle) = u
                       THEN SubSeq(msg, tx_count + 1, Len(msg)) ELSE <<>>)

\* Bytes are handed over from the line they came from, in order: none is taken
\* from the other instance, and a byte that was seen is still there when it is read.
ReceivedInOrder ==
  /\ pending = rx
  /\ pc = "read" /\ Valid(handle) => rx[Instance(handle)] # <<>>

\* Bytes are neither lost, taken twice nor exchanged between the two lines, in
\* either direction; and between calls the transfer status of a handle says
\* what is due and pending on its own line.
BytesInOrder ==
  /\ SentInOrder /\ ReceivedInOrder
  /\ pc = "rest" => \A h \in USARTs :
       /\ "TRANSMIT_EMPTY" \in DRV_USART_TransferStatus(h) <=> due[h] = <<>>
       /\ "RECEIVER_DATA_PRESENT" \in DRV_USART_TransferStatus(h) <=> pending[h] # <<>>

\* Every instance runs at the rate last set for it with success: the rate is no
\* lower than that, and the next divisor would make it lower. A rate that was
\* refused, or one set for the other instance, leaves it alone.
RunsAtBaud ==
  \A u \in USARTs :
    LET clocks == IF brg[u].high THEN 4 ELSE 16
    IN  /\ clocks * baud[u] * (brg[u].divisor + 1) <= CLOCK
        /\ CLOCK < clocks * baud[u] * (brg[u].divisor + 2)

\* Every instance runs at the rate it was last given, and between calls every
\* initialised one is enabled: also after a rate was refused half way.
UsartsWork ==
  RunsAtBaud /\ (pc = "rest" => \A u \in USARTs : up[u] => on[u])

\* Where the build can tell whether a USART runs, BaudSet and LineControlSet change
\* its registers only after it has come to rest.
SettingsQuiet ==
  [][pc = "set" /\ hasBusyStatus /\ <<brg, line>>' # <<brg, line>> =>
       ~on[handle] /\ ~stopping[handle]]_vars

\* Every call returns: sendMsg's loop, which waits for the line whenever the FIFO
\* is full; clearing errors, though bad bytes may arrive as fast as they are read;
\* and BaudSet and LineControlSet, which wait for the USART to stop.
CallsReturn == pc # "rest" ~> pc = "rest"
=============================================================================
