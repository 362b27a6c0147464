----------------------------- MODULE FilterBank -----------------------------
(***************************************************************************)
(* updateFilterBank(): every sample runs through a cascade of second-order *)
(* sections in each band, and the squares of what comes out are summed in  *)
(* Leq.  The code computes in floats; here all numbers are integers, which *)
(* keeps the recurrences and drops the rounding.                           *)
(***************************************************************************)
EXTENDS Integers, Sequences

CONSTANTS NUM_FILTERS, FILTER_ORDER,
          Coefficients,   \* b and a of every section, the tables of app.c
          Samples,        \* what a sample may be
          MaxSamples      \* bound: samples taken since boot

Bands    == 0 .. NUM_FILTERS - 1
Sections == 0 .. FILTER_ORDER - 1

(* What the tables have in common: a[0] is 1, b is symmetric, and all      *)
(* sections but the first are scaled to b[0] = 1.                          *)
Tabulated(c, j) ==
  /\ c.a[0] = 1 /\ c.b[2] = c.b[0]
  /\ j > 0 => c.b[0] = 1

ASSUME FilterAssumption ==
  /\ NUM_FILTERS \in Nat \ {0} /\ FILTER_ORDER \in Nat \ {0} /\ MaxSamples \in Nat
  /\ Samples \subseteq Int
  /\ Coefficients \in [Bands -> [Sections -> [b : [0 .. 2 -> Int], a : [0 .. 2 -> Int]]]]
  /\ \A f \in Bands, j \in Sections : Tabulated(Coefficients[f][j], j)

VARIABLES sos,      \* x and y of every section of every band
          Leq,      \* per band
          heard,    \* history: all samples since boot
          zeroed    \* history: how many of them came before Leq was zeroed

vars == <<sos, Leq, heard, zeroed>>

-----------------------------------------------------------------------------
Rest == [x |-> [i \in 0 .. 1 |-> 0], y |-> [i \in 0 .. 1 |-> 0]]

Init ==
  /\ sos = [f \in Bands |-> [j \in Sections |-> Rest]]
  /\ Leq = [f \in Bands |-> 0]
  /\ heard = <<>> /\ zeroed = 0

Shift(line, new) == [i \in 0 .. 1 |-> IF i = 0 THEN line[1] ELSE new]

updateBiQuad(s, c, u, first_sos) ==
  LET scaled == IF first_sos THEN c.b[0] * u + c.b[0] * s.x[0] ELSE u + s.x[0]
      y2     == c.b[1] * s.x[1] + scaled - (c.a[1] * s.y[1] + c.a[2] * s.y[0])
  IN [x |-> Shift(s.x, u), y |-> Shift(s.y, y2)]

CascadeLate(sections, c, u) ==   \* mutant: a section is fed what the one before held
  [j \in Sections |->
     updateBiQuad(sections[j], c[j], IF j = 0 THEN u ELSE sections[j - 1].y[1], j = 0)]

\* The sections of one band after the sample u: each feeds the next.
Cascade(sections, c, u) ==
  LET after[j \in Sections] ==
        updateBiQuad(sections[j], c[j], IF j = 0 THEN u ELSE after[j - 1].y[1], j = 0)
  IN after

updateFilterBank(u) ==
  /\ Len(heard) < MaxSamples
  /\ LET after == [f \in Bands |-> Cascade(sos[f], Coefficients[f], u)]
         out(f) == after[f][FILTER_ORDER - 1].y[1]
     IN /\ sos' = after
        /\ Leq' = [f \in Bands |-> Leq[f] + out(f) * out(f)]
  /\ heard' = Append(heard, u)
  /\ UNCHANGED zeroed

\* calibrate and measure begin with this; the sections keep what they hold.
ZeroLeq ==
  /\ Leq' = [f \in Bands |-> 0]
  /\ zeroed' = Len(heard)
  /\ UNCHANGED <<sos, heard>>

Next == (\E u \in Samples : updateFilterBank(u)) \/ ZeroLeq

Spec == Init /\ [][Next]_vars

-----------------------------------------------------------------------------
(* The reference.  What a section makes of all its input u: a difference   *)
(* equation with all six coefficients, from silence.                       *)
At(s, n) == IF n \in DOMAIN s THEN s[n] ELSE 0

Filtered(c, u) ==
  LET y[n \in -1 .. Len(u)] ==
        IF n <= 0 THEN 0
        ELSE c.b[0] * At(u, n) + c.b[1] * At(u, n - 1) + c.b[2] * At(u, n - 2)
             - (c.a[1] * y[n - 1] + c.a[2] * y[n - 2])
  IN [n \in 1 .. Len(u) |-> y[n]]

\* The input of band f, then what each of its sections makes of the one before.
Signals(f, input) ==
  LET signal[j \in 0 .. FILTER_ORDER] ==
        IF j = 0 THEN input ELSE Filtered(Coefficients[f][j - 1], signal[j - 1])
  IN signal

Response(f) == Signals(f, heard)[FILTER_ORDER]

Energy(s) ==
  LET sum[n \in 0 .. Len(s)] == IF n = 0 THEN 0 ELSE sum[n - 1] + s[n] * s[n]
  IN sum[Len(s)]

(* Leq is the energy, since it was zeroed, of the response of the band's   *)
(* filter to everything heard since boot: no section takes a sample early, *)
(* late or twice, and the shortcuts of updateBiQuad, which leaves out      *)
(* a[0], b[2] and all b[0] but the first, agree with the tables            *)
(* (helper_fcns.c:97-145).                                                 *)
LeqIsEnergy == \A f \in Bands : Leq[f] = Energy(SubSeq(Response(f), zeroed + 1, Len(heard)))
=============================================================================
