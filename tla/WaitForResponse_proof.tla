----------------------- MODULE WaitForResponse_proof -----------------------
(***************************************************************************)
(* Proofs about waitForResponse(): what one call leaves behind, for every  *)
(* size of rx_buf and of the FIFO and every timeout.                       *)
(***************************************************************************)
EXTENDS WaitForResponse, SequenceTheorems, TLAPS

(***************************************************************************)
(* The inductive invariant.  ReplyIsString speaks of the end of a call     *)
(* only; what makes it true is that during the call no prefix of what was  *)
(* read ends a line, and that the loop is left by exactly one break.       *)
(***************************************************************************)
InLoop == pc \in {"poll", "length", "clock"}

Control ==
  /\ outcome = "reading" <=> InLoop
  /\ outcome \in {"overlong", "timeout"} => error # "NO_ERROR"

NoLineYet ==
  outcome # "line" => \A n \in 0 .. rx_count : ~EndsLine(rx_buf, n)

NoNulRead == \A n \in 0 .. rx_count - 1 : rx_buf[n] # "NUL"

IInv == TypeOK /\ StoreInBounds /\ Control /\ NoLineYet /\ NoNulRead /\ ReplyIsString

USE WaitAssumption DEF WaitAssumption

\* Storing a byte behind a prefix of rx_buf changes nothing in that prefix.
LEMMA PrefixUntouched ==
  ASSUME NEW buf \in Buffers, NEW k \in 0 .. MAX_STR_LEN - 1, NEW b,
         NEW n \in 0 .. k
  PROVE  EndsLine([buf EXCEPT ![k] = b], n) = EndsLine(buf, n)
BY DEF Buffers, EndsLine

\* The type invariant and the bound on rx_count, kept by every step.
LEMMA TypeStep == TypeOK /\ StoreInBounds /\ [Next]_vars => TypeOK' /\ StoreInBounds'
<1> SUFFICES ASSUME TypeOK, StoreInBounds, [Next]_vars
             PROVE  TypeOK' /\ StoreInBounds'
  OBVIOUS
<1> USE DEF TypeOK, StoreInBounds
<1>1. CASE Call
  BY <1>1 DEF Call, uartVars
<1>2. CASE ReadByte
  <2> DEFINE buf == [rx_buf EXCEPT ![rx_count] = Head(fifo)]
  <2>1. /\ Head(fifo) \in Bytes /\ Tail(fifo) \in Seq(Bytes)
        /\ Len(Tail(fifo)) <= FIFO_DEPTH
    BY <1>2 DEF ReadByte
  <2>2. buf \in Buffers /\ rx_count < MAX_STR_LEN
    BY <1>2, <2>1 DEF ReadByte, Buffers
  <2>3. "NUL" \in Bytes \union {"NUL"} /\ rx_count + 1 \in 0 .. MAX_STR_LEN
    BY <2>2
  <2>4. CASE EndsLine(buf, rx_count + 1)
    <3> HIDE DEF buf
    <3>1. Terminate(buf, rx_count + 1) /\ pc' = "stop" /\ outcome' = "line"
      BY <1>2, <2>4 DEF ReadByte, buf
    <3>2. rx_buf' \in Buffers /\ error' \in Errors
      BY <3>1, <2>2, <2>3 DEF Terminate, Buffers, Errors
    <3> QED BY <1>2, <2>1, <2>3, <3>1, <3>2 DEF ReadByte, timerVars
  <2>5. CASE ~EndsLine(buf, rx_count + 1)
    <3> HIDE DEF buf
    <3>1. rx_buf' = buf /\ pc' = "length" /\ UNCHANGED <<error, outcome>>
      BY <1>2, <2>5 DEF ReadByte, buf
    <3> QED BY <1>2, <2>1, <2>2, <2>3, <3>1 DEF ReadByte, timerVars
  <2> QED BY <2>4, <2>5
<1>3. CASE ReceiverEmpty
  BY <1>3 DEF ReceiverEmpty, timerVars, uartVars
<1>4. CASE CheckLength
  BY <1>4 DEF CheckLength, Test, timerVars, uartVars, Errors
<1>5. CASE CheckClock
  BY <1>5 DEF CheckClock, Test, timerVars, uartVars, Errors
<1>6. CASE Return
  <2>1. pc' = "idle" /\ periods' = 0 /\ timerOn' = FALSE
    BY <1>6 DEF Return
  <2>2. UNCHANGED <<rx_count, rx_buf, error, outcome, fifo, overrun>>
    BY <1>6 DEF Return, uartVars
  <2>3. periods' \in 0 .. RESPONSE_TICKS
    BY <2>1
  <2> QED BY <2>1, <2>2, <2>3
<1>7. CASE TimerCallback
  BY <1>7 DEF TimerCallback, uartVars
<1>8. CASE ByteArrives
  <2>1. CASE Len(fifo) < FIFO_DEPTH
    <3>1. PICK b \in Bytes : fifo' = Append(fifo, b)
      BY <1>8, <2>1 DEF ByteArrives
    <3>2. fifo' \in Seq(Bytes) /\ Len(fifo') <= FIFO_DEPTH
      BY <2>1, <3>1
    <3> QED BY <1>8, <2>1, <3>2 DEF ByteArrives, timerVars
  <2>2. CASE ~(Len(fifo) < FIFO_DEPTH)
    BY <1>8, <2>2 DEF ByteArrives, timerVars
  <2> QED BY <2>1, <2>2
<1>9. CASE UNCHANGED vars
  BY <1>9 DEF vars, timerVars, uartVars
<1> QED BY <1>1, <1>2, <1>3, <1>4, <1>5, <1>6, <1>7, <1>8, <1>9 DEF Next, Loop

\* What holds at the start.
LEMMA InitInv == Init => IInv
<1> SUFFICES ASSUME Init PROVE IInv
  OBVIOUS
<1>1. TypeOK /\ StoreInBounds
  <2>1. rx_buf \in Buffers
    BY DEF Init, Buffers
  <2>2. fifo \in Seq(Bytes) /\ Len(fifo) <= FIFO_DEPTH
    BY DEF Init
  <2>3. periods \in 0 .. RESPONSE_TICKS /\ rx_count \in 0 .. MAX_STR_LEN
    BY DEF Init
  <2> QED BY <2>1, <2>2, <2>3 DEF Init, TypeOK, StoreInBounds, Errors
<1>2. Control
  BY DEF Init, Control, InLoop
<1>3. NoLineYet /\ NoNulRead /\ ReplyIsString
  BY DEF Init, NoLineYet, NoNulRead, ReplyIsString, EndsLine
<1> QED BY <1>1, <1>2, <1>3 DEF IInv

\* A step that leaves rx_count and rx_buf alone and does not end a line keeps
\* all that is said of the text in rx_buf.
LEMMA TextUntouched ==
  ASSUME TypeOK, NoLineYet, NoNulRead, ReplyIsString,
         rx_count' = rx_count, rx_buf' = rx_buf,
         outcome' = "line" <=> outcome = "line"
  PROVE  NoLineYet' /\ NoNulRead' /\ ReplyIsString'
BY DEF NoLineYet, NoNulRead, ReplyIsString, EndsLine

\* The invariant is inductive.
LEMMA InvStep == IInv /\ [Next]_vars => IInv'
<1> SUFFICES ASSUME IInv, [Next]_vars PROVE IInv'
  OBVIOUS
<1> USE DEF IInv
<1>0. TypeOK' /\ StoreInBounds'
  BY TypeStep
<1>1. CASE Call
  <2>1. Control'
    BY <1>1 DEF Call, Control, InLoop
  <2>2. NoLineYet' /\ NoNulRead' /\ ReplyIsString'
    BY <1>1 DEF Call, NoLineYet, NoNulRead, ReplyIsString, EndsLine
  <2> QED BY <1>0, <2>1, <2>2
<1>2. CASE ReadByte
  <2> DEFINE buf == [rx_buf EXCEPT ![rx_count] = Head(fifo)]
  <2>1. /\ Head(fifo) \in Bytes /\ Head(fifo) # "NUL"
        /\ rx_count \in 0 .. MAX_STR_LEN - 1 /\ rx_count' = rx_count + 1
        /\ rx_buf \in Buffers
    BY <1>2 DEF ReadByte, TypeOK, StoreInBounds, Bytes
  <2>2. outcome = "reading"
    BY <1>2 DEF ReadByte, Control, InLoop
  <2>3. /\ \A n \in 0 .. rx_count : ~EndsLine(buf, n)
        /\ \A n \in 0 .. rx_count : buf[n] # "NUL"
        /\ buf \in Buffers
    <3>1. \A n \in 0 .. rx_count : ~EndsLine(buf, n)
      BY <2>1, <2>2, PrefixUntouched DEF NoLineYet
    <3>2. \A n \in 0 .. rx_count : buf[n] # "NUL"
      BY <2>1 DEF NoNulRead, Buffers
    <3>3. buf \in Buffers
      BY <2>1 DEF Buffers
    <3> QED BY <3>1, <3>2, <3>3
  <2> HIDE DEF buf
  <2>4. CASE EndsLine(buf, rx_count + 1)
    <3>1. Terminate(buf, rx_count + 1) /\ pc' = "stop" /\ outcome' = "line"
      BY <1>2, <2>4 DEF ReadByte, buf
    <3>2. /\ \A n \in 0 .. rx_count : rx_buf'[n] = buf[n]
          /\ rx_count' < MAX_STR_LEN => rx_buf'[rx_count'] = "NUL"
      BY <2>1, <2>3, <3>1 DEF Terminate, Buffers
    <3>3. \A n \in 0 .. rx_count + 1 : EndsLine(rx_buf', n) = EndsLine(buf, n)
      BY <2>1, <3>2 DEF EndsLine
    <3>4. ReplyIsString'
      BY <2>1, <2>3, <2>4, <3>1, <3>2, <3>3 DEF ReplyIsString
    <3>5. NoLineYet' /\ NoNulRead' /\ Control'
      BY <2>1, <2>3, <3>1, <3>2 DEF NoLineYet, NoNulRead, Control, InLoop
    <3> QED BY <1>0, <3>4, <3>5
  <2>5. CASE ~EndsLine(buf, rx_count + 1)
    <3>1. rx_buf' = buf /\ pc' = "length" /\ outcome' = outcome
      BY <1>2, <2>5 DEF ReadByte, buf
    <3>2. NoLineYet'
      BY <2>1, <2>3, <2>5, <3>1 DEF NoLineYet
    <3>3. NoNulRead' /\ ReplyIsString' /\ Control'
      BY <2>1, <2>2, <2>3, <3>1 DEF NoNulRead, ReplyIsString, Control, InLoop
    <3> QED BY <1>0, <3>2, <3>3
  <2> QED BY <2>4, <2>5
<1>3. CASE ReceiverEmpty
  <2>1. Control' /\ (outcome' = "line" <=> outcome = "line")
    BY <1>3 DEF ReceiverEmpty, Control, InLoop
  <2> QED BY <1>0, <1>3, <2>1, TextUntouched DEF ReceiverEmpty
<1>4. CASE CheckLength
  <2>1. Control' /\ (outcome' = "line" <=> outcome = "line")
    BY <1>4 DEF CheckLength, Test, Control, InLoop
  <2> QED BY <1>0, <1>4, <2>1, TextUntouched DEF CheckLength, Test
<1>5. CASE CheckClock
  <2>1. Control' /\ (outcome' = "line" <=> outcome = "line")
    BY <1>5 DEF CheckClock, Test, Control, InLoop
  <2> QED BY <1>0, <1>5, <2>1, TextUntouched DEF CheckClock, Test
<1>6. CASE Return
  <2>1. Control' /\ (outcome' = "line" <=> outcome = "line")
    BY <1>6 DEF Return, Control, InLoop
  <2> QED BY <1>0, <1>6, <2>1, TextUntouched DEF Return
<1>7. CASE TimerCallback
  <2>1. Control' /\ (outcome' = "line" <=> outcome = "line")
    BY <1>7 DEF TimerCallback, Control, InLoop
  <2> QED BY <1>0, <1>7, <2>1, TextUntouched DEF TimerCallback
<1>8. CASE ByteArrives
  <2>1. Control' /\ (outcome' = "line" <=> outcome = "line")
    BY <1>8 DEF ByteArrives, Control, InLoop
  <2> QED BY <1>0, <1>8, <2>1, TextUntouched DEF ByteArrives
<1>9. CASE UNCHANGED vars
  <2>1. Control' /\ (outcome' = "line" <=> outcome = "line")
    BY <1>9 DEF vars, Control, InLoop
  <2> QED BY <1>0, <1>9, <2>1, TextUntouched DEF vars
<1> QED BY <1>1, <1>2, <1>3, <1>4, <1>5, <1>6, <1>7, <1>8, <1>9 DEF Next, Loop

\* The invariant holds in every reachable state.
LEMMA Invariance == Spec => []IInv
BY InitInv, InvStep, PTL DEF Spec

\* Every variable of waitForResponse() keeps its type: the count stays within the buffer.
\* Where the bytes are stored is StoresInBounds, of line 32; the NUL of helper_fcns.c:35
\* does go behind the buffer after a line of MAX_STR_LEN bytes, as Terminate has it.
THEOREM TypeCorrect == Spec => []TypeOK
BY Invariance, PTL DEF IInv

\* The loop of waitForResponse() stores no byte behind rx_buf (helper_fcns.c:32, 39).
THEOREM StoresInBounds == Spec => []StoreInBounds
BY Invariance, PTL DEF IInv

\* What waitForResponse() leaves in rx_buf for a complete reply is a C string that
\* holds this reply alone (helper_fcns.c:32-37).
THEOREM RepliesAreStrings == Spec => []ReplyIsString
BY Invariance, PTL DEF IInv

(***************************************************************************)
(* The implementation of LineReader: its line is the part of rx_buf read   *)
(* so far, as a sequence.                                                  *)
(***************************************************************************)
Prefix(buf, k) == [i \in 1 .. k |-> buf[i - 1]]

\* The refinement mapping, by that name.
LEMMA ReaderLine == [i \in 1 .. rx_count |-> rx_buf[i - 1]] = Prefix(rx_buf, rx_count)
BY DEF Prefix

\* A prefix of rx_buf is a sequence as long as it says.
LEMMA PrefixIsSeq ==
  ASSUME NEW buf \in Buffers, NEW k \in 0 .. MAX_STR_LEN
  PROVE  /\ Prefix(buf, k) \in Seq(Bytes \union {"NUL"})
         /\ Len(Prefix(buf, k)) = k
         /\ \A i \in 1 .. k : Prefix(buf, k)[i] = buf[i - 1]
BY DEF Prefix, Buffers

\* EndsLine of rx_buf is EndOfLine of the sequence.
LEMMA EndsLineOfPrefix ==
  ASSUME NEW buf \in Buffers, NEW k \in 0 .. MAX_STR_LEN
  PROVE  Reader!EndOfLine(Prefix(buf, k)) <=> EndsLine(buf, k)
BY PrefixIsSeq DEF Reader!EndOfLine, EndsLine

\* Storing the next byte appends it.
LEMMA PrefixAppend ==
  ASSUME NEW buf \in Buffers, NEW k \in 0 .. MAX_STR_LEN - 1, NEW b \in Bytes,
         NEW new \in Buffers, \A n \in 0 .. k - 1 : new[n] = buf[n], new[k] = b
  PROVE  Prefix(new, k + 1) = Append(Prefix(buf, k), b)
<1> DEFINE s == Prefix(buf, k)
           t == Prefix(new, k + 1)
<1>0. k \in Nat /\ k \in 0 .. MAX_STR_LEN /\ k + 1 \in 0 .. MAX_STR_LEN
  OBVIOUS
<1>1. /\ s \in Seq(Bytes \union {"NUL"}) /\ Len(s) = k
      /\ \A i \in 1 .. k : s[i] = buf[i - 1]
  BY <1>0, PrefixIsSeq
<1>2. /\ t \in Seq(Bytes \union {"NUL"}) /\ Len(t) = k + 1
      /\ \A i \in 1 .. k + 1 : t[i] = new[i - 1]
  BY <1>0, PrefixIsSeq
<1>3. \A i \in 1 .. k + 1 : t[i] = Append(s, b)[i]
  <2> HIDE DEF s, t
  <2> TAKE i \in 1 .. k + 1
  <2>0. b \in Bytes \union {"NUL"}
    OBVIOUS
  <2>4. (\A n \in 1 .. k : Append(s, b)[n] = s[n]) /\ Append(s, b)[k + 1] = b
    BY <1>1, <2>0, AppendProperties
  <2>1. CASE i \in 1 .. k
    <3>1. Append(s, b)[i] = buf[i - 1]
      BY <1>1, <2>1, <2>4
    <3>2. t[i] = new[i - 1]
      BY <1>2
    <3>3. new[i - 1] = buf[i - 1]
      BY <1>0, <2>1
    <3> QED BY <3>1, <3>2, <3>3
  <2>2. CASE i = k + 1
    <3>1. t[i] = new[k]
      BY <1>0, <1>2, <2>2
    <3> QED BY <2>2, <2>4, <3>1
  <2>3. i \in 1 .. k \/ i = k + 1
    BY <1>0
  <2> QED BY <2>1, <2>2, <2>3
<1> HIDE DEF s, t
<1>4. Append(s, b) \in Seq(Bytes \union {"NUL"}) /\ Len(Append(s, b)) = k + 1
  BY <1>1
<1>5. t = Append(s, b)
  BY <1>2, <1>3, <1>4
<1> QED BY <1>5 DEF s, t

\* What ReadByte does to rx_buf and to the outcome, seen as sequences.
LEMMA ReadByteTakes == IInv /\ IInv' /\ ReadByte => Reader!Take
<1> SUFFICES ASSUME IInv, IInv', ReadByte PROVE Reader!Take
  OBVIOUS
<1> DEFINE buf == [rx_buf EXCEPT ![rx_count] = Head(fifo)]
<1>1. /\ fifo \in Seq(Bytes) /\ fifo # <<>> /\ Head(fifo) \in Bytes
      /\ rx_buf \in Buffers /\ rx_count \in 0 .. MAX_STR_LEN - 1
      /\ rx_buf' \in Buffers /\ rx_count' = rx_count + 1
      /\ fifo' = Tail(fifo) /\ outcome = "reading"
  BY DEF IInv, TypeOK, StoreInBounds, Control, InLoop, ReadByte
<1>2. buf \in Buffers
  BY <1>1 DEF Buffers
<1>3. /\ \A n \in 0 .. rx_count : rx_buf'[n] = buf[n]
      /\ outcome' = IF EndsLine(buf, rx_count + 1) THEN "line" ELSE "reading"
  <2> HIDE DEF buf
  <2>1. CASE EndsLine(buf, rx_count + 1)
    <3>1. Terminate(buf, rx_count + 1) /\ outcome' = "line"
      BY <2>1 DEF ReadByte, buf
    <3>2. \A n \in 0 .. rx_count : rx_buf'[n] = buf[n]
      BY <1>1, <1>2, <3>1 DEF Terminate, Buffers
    <3> QED BY <2>1, <3>1, <3>2
  <2>2. CASE ~EndsLine(buf, rx_count + 1)
    BY <1>1, <2>2 DEF ReadByte, buf
  <2> QED BY <2>1, <2>2
<1>4. /\ \A n \in 0 .. rx_count - 1 : rx_buf'[n] = rx_buf[n]
      /\ rx_buf'[rx_count] = Head(fifo)
  BY <1>1, <1>3 DEF Buffers
<1> HIDE DEF buf
<1>5. Prefix(rx_buf', rx_count') = Append(Prefix(rx_buf, rx_count), Head(fifo))
  BY <1>1, <1>4, PrefixAppend
<1>6. EndsLine(buf, rx_count + 1) <=> EndsLine(rx_buf', rx_count')
  BY <1>1, <1>3 DEF EndsLine
<1>7. EndsLine(rx_buf', rx_count') <=> Reader!EndOfLine(Prefix(rx_buf', rx_count'))
  <2>1. rx_count' \in 0 .. MAX_STR_LEN
    BY <1>1
  <2> QED BY <1>1, <2>1, EndsLineOfPrefix
<1>8. Len(Prefix(rx_buf, rx_count)) < MAX_STR_LEN
  BY <1>1, PrefixIsSeq
<1>9. outcome' = IF Reader!EndOfLine(Prefix(rx_buf', rx_count')) THEN "line" ELSE "reading"
  BY <1>3, <1>6, <1>7
<1>10. [i \in 1 .. rx_count' |-> rx_buf'[i - 1]] = Prefix(rx_buf', rx_count')
  BY DEF Prefix
<1> QED BY <1>1, <1>5, <1>8, <1>9, <1>10, ReaderLine DEF Reader!Take

\* Each step of waitForResponse() is a step of LineReader or changes nothing there.
LEMMA ReaderStep == IInv /\ IInv' /\ [Next]_vars => [Reader!Next]_(Reader!vars)
<1> SUFFICES ASSUME IInv, IInv', [Next]_vars PROVE [Reader!Next]_(Reader!vars)
  OBVIOUS
<1>1. CASE Call
  <2>1. outcome # "reading" /\ outcome' = "reading" /\ rx_count' = 0 /\ fifo' = fifo
    BY <1>1 DEF Call, IInv, Control, InLoop, uartVars
  <2>2. [i \in 1 .. rx_count' |-> rx_buf'[i - 1]] = <<>>
    BY <2>1
  <2> QED BY <2>1, <2>2 DEF Reader!Next, Reader!Call
<1>2. CASE ReadByte
  BY <1>2, ReadByteTakes DEF Reader!Next
<1>3. CASE ReceiverEmpty
  BY <1>3 DEF ReceiverEmpty, uartVars, Reader!vars
<1>4. CASE CheckLength
  <2>1. CASE rx_count = MAX_STR_LEN
    <3>1. rx_buf \in Buffers /\ rx_count \in 0 .. MAX_STR_LEN /\ outcome = "reading"
      BY <1>4 DEF IInv, TypeOK, Control, InLoop, CheckLength
    <3>2. Len([i \in 1 .. rx_count |-> rx_buf[i - 1]]) = MAX_STR_LEN
      BY <2>1, <3>1, PrefixIsSeq, ReaderLine
    <3>3. outcome' = "overlong" /\ UNCHANGED <<rx_count, rx_buf, fifo>>
      BY <1>4, <2>1 DEF CheckLength, Test, uartVars
    <3> QED BY <3>1, <3>2, <3>3 DEF Reader!Next, Reader!GiveUp
  <2>2. CASE rx_count # MAX_STR_LEN
    BY <1>4, <2>2 DEF CheckLength, Test, uartVars, Reader!vars
  <2> QED BY <2>1, <2>2
<1>5. CASE CheckClock
  <2>1. outcome = "reading"
    BY <1>5 DEF IInv, Control, InLoop, CheckClock
  <2>2. CASE periods >= RESPONSE_TICKS
    <3>1. outcome' = "timeout" /\ UNCHANGED <<rx_count, rx_buf, fifo>>
      BY <1>5, <2>2 DEF CheckClock, Test, uartVars
    <3> QED BY <2>1, <3>1 DEF Reader!Next, Reader!GiveUp
  <2>3. CASE ~(periods >= RESPONSE_TICKS)
    BY <1>5, <2>3 DEF CheckClock, Test, uartVars, Reader!vars
  <2> QED BY <2>2, <2>3
<1>6. CASE Return
  BY <1>6 DEF Return, uartVars, Reader!vars
<1>7. CASE TimerCallback
  BY <1>7 DEF TimerCallback, uartVars, Reader!vars
<1>8. CASE ByteArrives
  <2>1. CASE Len(fifo) < FIFO_DEPTH
    BY <1>8, <2>1 DEF ByteArrives, Reader!Next, Reader!Receive
  <2>2. CASE ~(Len(fifo) < FIFO_DEPTH)
    BY <1>8, <2>2 DEF ByteArrives, Reader!vars
  <2> QED BY <2>1, <2>2
<1>9. CASE UNCHANGED vars
  BY <1>9 DEF vars, uartVars, Reader!vars
<1> QED BY <1>1, <1>2, <1>3, <1>4, <1>5, <1>6, <1>7, <1>8, <1>9 DEF Next, Loop

\* waitForResponse() hands over the bytes received in order up to the first CR LF, or
\* gives up and says why: the safety part of ImplementsLineReader.
THEOREM ReaderImplemented == Spec => Reader!Init /\ [][Reader!Next]_(Reader!vars)
<1>1. Init => Reader!Init
  <2> SUFFICES ASSUME Init PROVE Reader!Init
    OBVIOUS
  <2>1. rx_count = 0 /\ fifo = <<>> /\ outcome = "none"
    BY DEF Init
  <2>2. [i \in 1 .. rx_count |-> rx_buf[i - 1]] = <<>>
    BY <2>1
  <2> QED BY <2>1, <2>2 DEF Reader!Init
<1>2. IInv /\ IInv' /\ [Next]_vars => [Reader!Next]_(Reader!vars)
  BY ReaderStep
<1> QED BY <1>1, <1>2, Invariance, PTL DEF Spec

\* A call that gives up records an error, and no error is forgotten but by a line that
\* fills rx_buf to its last byte (helper_fcns.c:35, 39-46).
THEOREM ErrorsKept == Spec => ErrorKept
<1> DEFINE Kept == /\ outcome' \in {"overlong", "timeout"} => error' # "NO_ERROR"
                   /\ error # "NO_ERROR" /\ error' = "NO_ERROR"
                        => outcome' = "line" /\ rx_count' = MAX_STR_LEN
<1>1. IInv /\ IInv' /\ [Next]_vars => Kept
  <2> SUFFICES ASSUME IInv, IInv', [Next]_vars PROVE Kept
    OBVIOUS
  <2>1. outcome' \in {"overlong", "timeout"} => error' # "NO_ERROR"
    BY DEF IInv, Control
  <2>2. ASSUME error # "NO_ERROR", error' = "NO_ERROR"
        PROVE  outcome' = "line" /\ rx_count' = MAX_STR_LEN
    <3>1. ReadByte
      BY <2>2 DEF Next, Loop, vars, Call, ReceiverEmpty, CheckLength, CheckClock, Test,
                  Return, TimerCallback, ByteArrives
    <3> DEFINE buf == [rx_buf EXCEPT ![rx_count] = Head(fifo)]
    <3>2. rx_count' = rx_count + 1 /\ rx_count' \in 0 .. MAX_STR_LEN
      BY <3>1 DEF ReadByte, IInv, TypeOK
    <3> HIDE DEF buf
    <3>3. EndsLine(buf, rx_count + 1)
      BY <2>2, <3>1 DEF ReadByte, buf
    <3>4. Terminate(buf, rx_count + 1) /\ outcome' = "line"
      BY <3>1, <3>3 DEF ReadByte, buf
    <3>5. ~(rx_count + 1 < MAX_STR_LEN)
      BY <2>2, <3>4 DEF Terminate
    <3> QED BY <3>2, <3>4, <3>5
  <2> QED BY <2>1, <2>2
<1>2. Kept => [Kept]_vars
  OBVIOUS
<1> QED BY <1>1, Invariance, PTL DEF Spec, ErrorKept
=============================================================================
