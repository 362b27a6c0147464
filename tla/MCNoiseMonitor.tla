--------------------------- MODULE MCNoiseMonitor ---------------------------
(* NoiseMonitor for TLC: two timer interrupts to a second, a response       *)
(* timeout of one second, two channels, one filter.                         *)
EXTENDS NoiseMonitor

MCMacBits == {0, 4}
=============================================================================
