---------------------------- MODULE MCSystemInit ----------------------------
(* Values for model-checking SystemInit.                                   *)
EXTENDS SystemInit

MCFeatures == {"WaitState", "PrefetchEnable", "TraceOutput", "OnWaitAction", "DEVADC0",
               "PortsOpenDrain", "ChangeNotice", "ChangeNoticePullUp", "PinChangeNotice",
               "ChangeNoticeInIdle", "PinMode", "RemapInput", "RemapOutput"}
MCMasks == {{12}, {0, 12}}
MCLatches == {[c \in Channels |-> Bits], Zero,
              [c \in Channels |-> IF c \in {"A", "B", "F"} THEN {0, 3, 12} ELSE Bits \ {0, 3, 12}]}
=============================================================================
