------------------------------- MODULE Rn2903 -------------------------------
(***************************************************************************)
(* The RN2903 LoRa modem as join.c, transmit.c and helper_fcns.c use it:   *)
(* the lines they compare or index, the commands they send, and what they  *)
(* expect each command to do.  The modem itself is not in the repository.  *)
(* There is no state here: a modem is a record, a command maps it to the   *)
(* set of its possible answers.                                            *)
(***************************************************************************)
EXTENDS Integers, Sequences, SequencesExt

CONSTANTS NUM_CHANNELS,  \* channels that SET_ALL_PARAMS_AND_SAVE configures
          MacBits        \* values of bits 1.. of the nibble rx_buf[7] of a status

(***************************************************************************)
(* joined() takes the parity of a hexadecimal digit's character code,      *)
(* which is the parity of the digit for 0..9 only (the code of "A" is odd  *)
(* and that of "B" even), so the nibble must stay below ten.               *)
(***************************************************************************)
ASSUME Rn2903Assumption == /\ NUM_CHANNELS \in Nat \ {0}
                           /\ MacBits \subseteq 0..4 /\ MacBits # {}

-----------------------------------------------------------------------------
(* Lines.  A line is its text and the character it puts at rx_buf[7].      *)

Untouched == -1   \* the line and its NUL end before rx_buf[7]

Char7 == [ok |-> Untouched, banner |-> 49, invalid_param |-> 95, hweui |-> 48,
          accepted |-> 100, denied |-> 10, no_free_ch |-> 95,
          mac_tx_ok |-> 111, mac_err |-> 13, not_joined |-> 110,
          status |-> 48]

Texts == DOMAIN Char7
Line(text) == [text |-> text, char7 |-> Char7[text]]

\* The last digit of the reply to "mac get status": bit 0 is "joined".
StatusLine(joined, bits) ==
  [text |-> "status", char7 |-> 48 + 2 * bits + (IF joined THEN 1 ELSE 0)]

Lines == [text : Texts, char7 : Int]

-----------------------------------------------------------------------------
(* Commands: a verb, and for "mac set" or "radio set" the parameter.       *)

Param(name) == <<name, 0>>
Cmd(verb)   == [verb |-> verb, param |-> Param("none")]
Set(param)  == [verb |-> "set", param |-> param]
SetEach(names) == [i \in 1..Len(names) |-> Set(Param(names[i]))]

\* Parameters that join.c sets before "mac save", and after "sys reset".
SavedNames   == <<"deveui", "appkey", "appeui", "devaddr", "nwkskey", "appskey",
                  "adr", "rx2">>
UnsavedNames == <<"pwridx", "dr", "bat", "retx", "linkchk", "rxdelay1", "ar",
                  "mac sync", "mod", "pwr", "sf", "crc", "iqi", "cr", "wdt",
                  "radio sync", "bw">>
SavedParams ==
  {Param(n) : n \in Range(SavedNames)}
    \union {"drrange", "status"} \X (0 .. NUM_CHANNELS - 1)
UnsavedParams == {Param(n) : n \in Range(UnsavedNames)}
Params        == SavedParams \union UnsavedParams

\* for (i = 0; i < 64; i++) { drrange i; status i }
ChannelCmds ==
  [k \in 1 .. 2 * NUM_CHANNELS |->
     Set(<<IF k % 2 = 1 THEN "drrange" ELSE "status", (k - 1) \div 2>>)]

Verbs    == {"factoryRESET", "get hweui", "save", "reset", "join", "status", "tx"}
Commands == {Set(p) : p \in Params} \union {Cmd(v) : v \in Verbs}

-----------------------------------------------------------------------------
(* The modem: whether it has joined the network, the parameters in force   *)
(* with the value join.c means them to have, and those it has saved.       *)

Modem == [joined : BOOLEAN, live : SUBSET Params, saved : SUBSET SavedParams]

\* A restart (MCLR or "sys reset") drops the session and what is not saved.
Restart(m) == [m EXCEPT !.joined = FALSE, !.live = m.saved]

\* An answer: the modem afterwards, and the lines it says.
Says(m, lines) == [modem |-> m, replies |-> lines]
One(m, text)   == {Says(m, <<Line(text)>>)}
OkThen(m, text) == {Says(m, <<Line("ok"), Line(text)>>)}

\* arg: what rx_buf holds; the reply to "get hweui" belongs behind "mac set deveui ".
SetAnswers(m, param, arg) ==
  IF param = Param("deveui") /\ arg # "hweui"
  THEN One(m, "invalid_param")
  ELSE One([m EXCEPT !.live = m.live \union {param}], "ok")

JoinAnswers(m) ==
  OkThen([m EXCEPT !.joined = TRUE], "accepted")
    \union OkThen([m EXCEPT !.joined = FALSE], "denied")
    \union One(m, "no_free_ch")

TxAnswers(m) ==
  IF m.joined
  THEN OkThen(m, "mac_tx_ok") \union OkThen(m, "mac_err") \union One(m, "no_free_ch")
  ELSE One(m, "not_joined")

Answers(m, cmd, arg) ==
  CASE cmd.verb = "factoryRESET" -> One(Restart([m EXCEPT !.saved = {}]), "banner")
    [] cmd.verb = "reset"     -> One(Restart(m), "banner")
    [] cmd.verb = "get hweui" -> One(m, "hweui")
    [] cmd.verb = "save"      ->
         One([m EXCEPT !.saved = m.live \intersect SavedParams], "ok")
    [] cmd.verb = "set"       -> SetAnswers(m, cmd.param, arg)
    [] cmd.verb = "join"      -> JoinAnswers(m)
    [] cmd.verb = "status"    -> {Says(m, <<StatusLine(m.joined, b)>>) : b \in MacBits}
    [] cmd.verb = "tx"        -> TxAnswers(m)
=============================================================================
