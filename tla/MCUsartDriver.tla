--------------------------- MODULE MCUsartDriver ---------------------------
(* Values for model-checking UsartDriver.                                  *)
EXTENDS UsartDriver

MCMessages    == {<<"a", "b", "c">>}   \* longer than the transmit FIFO
MCIncoming    == [byte : {"a"}, bad : BOOLEAN]
MCGood        == [byte : {"a"}, bad : {FALSE}]
MCInitialBaud == <<12>> @@ (0 :> 7)    \* 9600 and 57600: both fit with four clocks
=============================================================================
