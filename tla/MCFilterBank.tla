---------------------------- MODULE MCFilterBank ----------------------------
(* Values for TLC: two bands of three sections, scaled and signed as the   *)
(* tables of app.c are.                                                    *)
EXTENDS FilterBank

Three(p, q, r) == [i \in 0 .. 2 |-> <<p, q, r>>[i + 1]]
Section(b0, b1, a1, a2) == [b |-> Three(b0, b1, b0), a |-> Three(1, a1, a2)]

MCCoefficients ==
  [f \in Bands |-> [j \in Sections |->
     <<<<Section(3, 6, -1, 1), Section(1, 2, 1, -1), Section(1, -2, 0, 1)>>,
       <<Section(2, -4, 0, -1), Section(1, -2, -1, 0), Section(1, 2, 2, 1)>>>>[f + 1][j + 1]]]

MCSamples == {-1, 0, 2}
=============================================================================
