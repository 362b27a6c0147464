---------------------------- MODULE MCCacheOps ----------------------------
(* Values for model-checking CacheOps: the whole middle line, which has a  *)
(* neighbour on either side, the middle of three lines, of which the outer *)
(* two share a set, and nothing.                                           *)
EXTENDS CacheOps

MCRanges == {<<2, 2>>, <<1, 4>>, <<1, 0>>}
=============================================================================
