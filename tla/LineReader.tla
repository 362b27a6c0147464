----------------------------- MODULE LineReader -----------------------------
(***************************************************************************)
(* What a caller of waitForResponse() is promised: the bytes received are  *)
(* handed over in order, none twice and none skipped, up to and including  *)
(* the first CR LF, or else the call gives up and says why.                *)
(***************************************************************************)
EXTENDS Naturals, Sequences

CONSTANTS Bytes,       \* what can be received; holds "CR" and "LF"
          MAX_STR_LEN  \* the longest line

VARIABLES unread,   \* received and not handed over
          line,     \* handed over by this call, or by the last one
          outcome   \* "reading" during a call, then how it ended

vars == <<unread, line, outcome>>

EndOfLine(s) == Len(s) > 1 /\ s[Len(s)] = "LF" /\ s[Len(s) - 1] = "CR"

Init == unread = <<>> /\ line = <<>> /\ outcome = "none"

Receive == /\ \E b \in Bytes : unread' = Append(unread, b)
           /\ UNCHANGED <<line, outcome>>

Call == /\ outcome # "reading"
        /\ outcome' = "reading" /\ line' = <<>> /\ UNCHANGED unread

Take == /\ outcome = "reading" /\ unread # <<>> /\ Len(line) < MAX_STR_LEN
        /\ line' = Append(line, Head(unread)) /\ unread' = Tail(unread)
        /\ outcome' = IF EndOfLine(line') THEN "line" ELSE "reading"

GiveUp == /\ outcome = "reading"
          /\ outcome' \in {"timeout"} \union
                          (IF Len(line) = MAX_STR_LEN THEN {"overlong"} ELSE {})
          /\ UNCHANGED <<unread, line>>

Next == Receive \/ Call \/ Take \/ GiveUp

\* A call that was made returns.
Spec == Init /\ [][Next]_vars /\ WF_vars(GiveUp)
=============================================================================
