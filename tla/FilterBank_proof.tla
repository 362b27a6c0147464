-------------------------- MODULE FilterBank_proof --------------------------
(***************************************************************************)
(* The proof that Leq is the energy of what the band's filter makes of all *)
(* samples, for every order of filter, every table of the shape app.c has, *)
(* every integer sample and any number of them.                            *)
(*                                                                         *)
(* Cascade and the reference are recursive functions, so every fact about  *)
(* them is an induction: over a set of numbers here, the set of those for  *)
(* which the fact holds, because that needs no operator parameter.  First  *)
(* the equations that the recursive functions satisfy, then what one more  *)
(* sample changes in each, then the invariant.                             *)
(***************************************************************************)
EXTENDS FilterBank, SequenceTheorems, WellFoundedInduction, TLAPS

\* From the well-foundedness of < on Nat.
LEMMA Least ==
  ASSUME NEW T, T \subseteq Nat, T # {}
  PROVE  \E n \in T : \A m \in T : n <= m
<1> DEFINE R == {p \in Nat \X Nat : p[1] < p[2]}
<1>1. OpToRel(<, Nat) = R
  BY DEF OpToRel
<1>2. IsWellFoundedOn(R, Nat)
  BY <1>1, NatLessThanWellFounded
<1>3. PICK n \in T : \A m \in T : <<m, n>> \notin R
  <2> HIDE DEF R
  <2> QED BY <1>2, WFMin
<1>4. ASSUME NEW m \in T PROVE n <= m
  <2>1. <<m, n>> \notin R /\ m \in Nat /\ n \in Nat
    BY <1>3
  <2>2. ~(m < n)
    <3>1. m < n => <<m, n>> \in R
      BY <2>1
    <3> QED BY <2>1, <3>1
  <2> QED BY <2>1, <2>2
<1> QED BY <1>3, <1>4

\* The induction principle, over a set in place of an operator.
LEMMA Induction ==
  ASSUME NEW S, 0 \in S, \A n \in Nat : n \in S => n + 1 \in S
  PROVE  Nat \subseteq S
<1> SUFFICES ASSUME Nat \ S # {} PROVE FALSE
  OBVIOUS
<1>1. PICK n \in Nat \ S : \A m \in Nat \ S : n <= m
  BY Least
<1>2. n - 1 \in Nat /\ n - 1 \notin S
  BY <1>1
<1> QED BY <1>1, <1>2

\* g[0 .. k] is v0, then step by step what F makes of the value before.
Runs(g, V, v0, F, k) ==
  /\ g \in [0 .. k -> V] /\ g[0] = v0
  /\ \A n \in 1 .. k : g[n] = F[n][g[n - 1]]

\* Such a g exists for every V, F and k: the recursive definitions define something.
LEMMA Iterates ==
  ASSUME NEW V, NEW v0 \in V, NEW F \in [Nat -> [V -> V]], NEW k \in Nat
  PROVE  \E g : Runs(g, V, v0, F, k)
<1> DEFINE Good(m, g) == g[0] = v0 /\ \A n \in 1 .. m : g[n] = F[n][g[n - 1]]
           S == {m \in Nat : \E g \in [0 .. m -> V] : Good(m, g)}
<1>1. 0 \in S
  <2> DEFINE g == [n \in 0 .. 0 |-> v0]
  <2>1. g \in [0 .. 0 -> V] /\ Good(0, g)
    OBVIOUS
  <2> QED BY <2>1
<1>2. ASSUME NEW m \in Nat, m \in S PROVE m + 1 \in S
  <2>1. PICK g \in [0 .. m -> V] : Good(m, g)
    BY <1>2
  <2> DEFINE h == [n \in 0 .. m + 1 |-> IF n = m + 1 THEN F[m + 1][g[m]] ELSE g[n]]
  <2>2. g[m] \in V /\ F[m + 1] \in [V -> V]
    OBVIOUS
  <2>3. F[m + 1][g[m]] \in V
    BY <2>2
  <2>4. h \in [0 .. m + 1 -> V]
    <3>1. ASSUME NEW n \in 0 .. m + 1 PROVE h[n] \in V
      BY <2>3
    <3> QED BY <3>1
  <2>5. h[0] = v0
    BY <2>1
  <2>6. ASSUME NEW n \in 1 .. m + 1 PROVE h[n] = F[n][h[n - 1]]
    <3>1. CASE n = m + 1
      <4>1. h[n] = F[n][g[m]] /\ h[n - 1] = g[m]
        BY <3>1
      <4> QED BY <4>1
    <3>2. CASE n # m + 1
      <4>1. n \in 1 .. m /\ h[n] = g[n] /\ h[n - 1] = g[n - 1]
        BY <3>2
      <4> QED BY <4>1, <2>1
    <3> QED BY <3>1, <3>2
  <2>7. Good(m + 1, h)
    <3> HIDE DEF h
    <3> QED BY <2>5, <2>6
  <2> HIDE DEF h, Good
  <2> QED BY <2>4, <2>7
<1>3. Nat \subseteq S
  <2> HIDE DEF S
  <2> QED BY <1>1, <1>2, Induction
<1>4. PICK g \in [0 .. k -> V] : Good(k, g)
  BY <1>3
<1> QED BY <1>4 DEF Runs

-----------------------------------------------------------------------------
\* The sum in Energy satisfies its equation.
LEMMA EnergySum ==
  ASSUME NEW s \in Seq(Int)
  PROVE  \E sum \in [0 .. Len(s) -> Int] :
           /\ sum[0] = 0
           /\ \A n \in 1 .. Len(s) : sum[n] = sum[n - 1] + s[n] * s[n]
           /\ Energy(s) = sum[Len(s)]
<1> DEFINE L == Len(s)
           Sum(g) == [n \in 0 .. L |-> IF n = 0 THEN 0 ELSE g[n - 1] + s[n] * s[n]]
           sum == CHOOSE g : g = Sum(g)
           F == [n \in Nat |-> [v \in Int |-> IF n \in 1 .. L THEN v + s[n] * s[n] ELSE v]]
<1>0. L \in Nat /\ \A n \in 1 .. L : s[n] \in Int
  OBVIOUS
<1>1. F \in [Nat -> [Int -> Int]]
  <2>1. ASSUME NEW n \in Nat, NEW v \in Int
        PROVE  (IF n \in 1 .. L THEN v + s[n] * s[n] ELSE v) \in Int
    <3> HIDE DEF L
    <3> QED BY <1>0
  <2> HIDE DEF L
  <2> QED BY <2>1
<1>2. PICK g : Runs(g, Int, 0, F, L)
  <2> HIDE DEF F, L, Sum, sum
  <2>1. L \in Nat /\ 0 \in Int
    BY <1>0
  <2> QED BY <2>1, <1>1, Iterates
<1>3. g \in [0 .. L -> Int] /\ g[0] = 0 /\ \A n \in 1 .. L : g[n] = F[n][g[n - 1]]
  <2> HIDE DEF F, L
  <2> QED BY <1>2 DEF Runs
<1>4. ASSUME NEW n \in 1 .. L PROVE g[n] = g[n - 1] + s[n] * s[n]
  <2> HIDE DEF L
  <2>1. n \in Nat /\ n - 1 \in 0 .. L
    BY <1>0
  <2>2. g[n - 1] \in Int
    BY <2>1, <1>3
  <2>3. F[n][g[n - 1]] = g[n - 1] + s[n] * s[n]
    BY <2>1, <2>2
  <2> QED BY <1>3, <2>3
<1>5. g = Sum(g)
  <2> HIDE DEF L, F
  <2>1. ASSUME NEW n \in 0 .. L PROVE g[n] = Sum(g)[n]
    <3>1. CASE n = 0
      BY <3>1, <1>3
    <3>2. CASE n # 0
      <4>1. n \in 1 .. L
        BY <3>2, <1>0
      <4> QED BY <4>1, <1>4, <3>2
    <3> QED BY <3>1, <3>2
  <2>3. g = [n \in 0 .. L |-> g[n]]
    BY <1>3
  <2>4. Sum(g) = [n \in 0 .. L |-> Sum(g)[n]]
    OBVIOUS
  <2> HIDE DEF Sum
  <2> QED BY <2>1, <2>3, <2>4
<1>6. sum = Sum(sum)
  <2> HIDE DEF Sum, F, L
  <2> QED BY <1>5
<1>7. Energy(s) = sum[L]
  BY DEF Energy
<1> HIDE DEF sum, L, F
<1>8. sum[0] = 0 /\ \A n \in 1 .. L : sum[n] = sum[n - 1] + s[n] * s[n]
  <2>1. ASSUME NEW n \in 0 .. L PROVE sum[n] = IF n = 0 THEN 0 ELSE sum[n - 1] + s[n] * s[n]
    BY <1>6
  <2>2. ASSUME NEW n \in 1 .. L PROVE n \in 0 .. L /\ n # 0
    BY <1>0
  <2>3. 0 \in 0 .. L
    BY <1>0
  <2> QED BY <2>1, <2>2, <2>3
<1> DEFINE S == {n \in Nat : n \in 0 .. L => sum[n] \in Int}
<1>9. Nat \subseteq S
  <2>1. 0 \in S
    BY <1>8
  <2>2. ASSUME NEW n \in Nat, n \in S PROVE n + 1 \in S
    <3> SUFFICES ASSUME n + 1 \in 0 .. L PROVE sum[n + 1] \in Int
      OBVIOUS
    <3>1. n \in 0 .. L /\ n + 1 \in 1 .. L /\ (n + 1) - 1 = n
      BY <1>0
    <3>2. sum[n + 1] = sum[(n + 1) - 1] + s[n + 1] * s[n + 1]
      BY <1>8, <3>1
    <3>3. sum[n] \in Int /\ s[n + 1] \in Int
      BY <2>2, <3>1, <1>0
    <3> QED BY <3>1, <3>2, <3>3
  <2> HIDE DEF S
  <2> QED BY <2>1, <2>2, Induction
<1>10. sum \in [0 .. L -> Int]
  <2>1. sum = [n \in 0 .. L |-> sum[n]]
    BY <1>6
  <2>2. ASSUME NEW n \in 0 .. L PROVE sum[n] \in Int
    <3>1. n \in Nat
      BY <1>0
    <3> QED BY <3>1, <1>9
  <2> QED BY <2>1, <2>2
<1> QED BY <1>7, <1>8, <1>10 DEF L

LEMMA EnergyEmpty == Energy(<<>>) = 0
<1>1. <<>> \in Seq(Int) /\ Len(<<>>) = 0
  OBVIOUS
<1> QED BY <1>1, EnergySum

\* One more number adds its square.
LEMMA EnergyAppend ==
  ASSUME NEW s \in Seq(Int), NEW v \in Int
  PROVE  Energy(Append(s, v)) = Energy(s) + v * v
<1> DEFINE t == Append(s, v)
           L == Len(s)
<1>1. /\ L \in Nat /\ t \in Seq(Int) /\ Len(t) = L + 1 /\ t[L + 1] = v
      /\ \A n \in 1 .. L : t[n] = s[n]
  OBVIOUS
<1> HIDE DEF t
<1>2. PICK a \in [0 .. Len(s) -> Int] :
        /\ a[0] = 0
        /\ \A n \in 1 .. Len(s) : a[n] = a[n - 1] + s[n] * s[n]
        /\ Energy(s) = a[Len(s)]
  BY EnergySum
<1>3. PICK b \in [0 .. Len(t) -> Int] :
        /\ b[0] = 0
        /\ \A n \in 1 .. Len(t) : b[n] = b[n - 1] + t[n] * t[n]
        /\ Energy(t) = b[Len(t)]
  BY <1>1, EnergySum
<1> HIDE DEF L
<1> DEFINE S == {n \in Nat : n \in 0 .. L => a[n] = b[n]}
<1>4. 0 \in S
  BY <1>2, <1>3
<1>5. ASSUME NEW n \in Nat, n \in S PROVE n + 1 \in S
  <2> SUFFICES ASSUME n + 1 \in 0 .. L PROVE a[n + 1] = b[n + 1]
    OBVIOUS
  <2>1. n \in 0 .. L /\ n + 1 \in 1 .. L /\ n + 1 \in 1 .. Len(t) /\ (n + 1) - 1 = n
    BY <1>1
  <2>2. a[n + 1] = a[n] + s[n + 1] * s[n + 1]
    BY <1>2, <2>1 DEF L
  <2>3. b[n + 1] = b[n] + t[n + 1] * t[n + 1]
    BY <1>3, <2>1
  <2>4. a[n] = b[n] /\ t[n + 1] = s[n + 1]
    BY <1>5, <2>1, <1>1
  <2> QED BY <2>2, <2>3, <2>4
<1>6. Nat \subseteq S
  <2> HIDE DEF S
  <2> QED BY <1>4, <1>5, Induction
<1>7. a[L] = b[L]
  BY <1>6, <1>1
<1>8. b[L + 1] = b[L] + v * v
  <2>1. L + 1 \in 1 .. Len(t) /\ (L + 1) - 1 = L
    BY <1>1
  <2> QED BY <1>1, <1>3, <2>1
<1> QED BY <1>1, <1>2, <1>3, <1>7, <1>8 DEF L, t

-----------------------------------------------------------------------------
Filters == [b : [0 .. 2 -> Int], a : [0 .. 2 -> Int]]

\* The difference equation, one sample on from the outputs p and q.
Output(c, u, n, p, q) ==
  c.b[0] * At(u, n) + c.b[1] * At(u, n - 1) + c.b[2] * At(u, n - 2)
    - (c.a[1] * p + c.a[2] * q)

LEMMA AtInt ==
  ASSUME NEW u \in Seq(Int), NEW n
  PROVE  At(u, n) \in Int
<1>1. DOMAIN u = 1 .. Len(u) /\ \A i \in 1 .. Len(u) : u[i] \in Int
  OBVIOUS
<1> QED BY <1>1 DEF At

LEMMA OutputInt ==
  ASSUME NEW c \in Filters, NEW u \in Seq(Int), NEW n \in Int, NEW p \in Int, NEW q \in Int
  PROVE  Output(c, u, n, p, q) \in Int
<1>1. At(u, n) \in Int /\ At(u, n - 1) \in Int /\ At(u, n - 2) \in Int
  BY AtInt
<1>2. c.b[0] \in Int /\ c.b[1] \in Int /\ c.b[2] \in Int /\ c.a[1] \in Int /\ c.a[2] \in Int
  <2>1. c.b \in [0 .. 2 -> Int] /\ c.a \in [0 .. 2 -> Int]
    BY DEF Filters
  <2> QED BY <2>1
<1>3. ASSUME NEW d \in Int, NEW e \in Int PROVE d * e \in Int
  OBVIOUS
<1>4. /\ c.b[0] * At(u, n) \in Int /\ c.b[1] * At(u, n - 1) \in Int
      /\ c.b[2] * At(u, n - 2) \in Int /\ c.a[1] * p \in Int /\ c.a[2] * q \in Int
  BY <1>1, <1>2, <1>3
<1>5. ASSUME NEW i \in Int, NEW j \in Int, NEW k \in Int, NEW l \in Int, NEW m \in Int
      PROVE  i + j + k - (l + m) \in Int
  OBVIOUS
<1>6. c.b[0] * At(u, n) + c.b[1] * At(u, n - 1) + c.b[2] * At(u, n - 2)
        - (c.a[1] * p + c.a[2] * q) \in Int
  BY <1>4, <1>5
<1> QED BY <1>6 DEF Output

\* The outputs in Filtered satisfy the difference equation.
LEMMA FilteredRuns ==
  ASSUME NEW c \in Filters, NEW u \in Seq(Int)
  PROVE  \E y \in [-1 .. Len(u) -> Int] :
           /\ y[-1] = 0 /\ y[0] = 0
           /\ \A n \in 1 .. Len(u) : y[n] = Output(c, u, n, y[n - 1], y[n - 2])
           /\ Filtered(c, u) = [n \in 1 .. Len(u) |-> y[n]]
<1> DEFINE L == Len(u)
           Rec(g) == [n \in -1 .. L |-> IF n <= 0 THEN 0 ELSE Output(c, u, n, g[n - 1], g[n - 2])]
           y == CHOOSE g : g = Rec(g)
           F == [n \in Nat |-> [w \in Int \X Int |-> <<Output(c, u, n, w[1], w[2]), w[1]>>]]
<1>1. L \in Nat
  OBVIOUS
<1>2. F \in [Nat -> [Int \X Int -> Int \X Int]]
  <2>1. ASSUME NEW n \in Nat, NEW w \in Int \X Int
        PROVE  <<Output(c, u, n, w[1], w[2]), w[1]>> \in Int \X Int
    <3>1. n \in Int /\ w[1] \in Int /\ w[2] \in Int
      OBVIOUS
    <3>2. Output(c, u, n, w[1], w[2]) \in Int
      BY <3>1, OutputInt
    <3> QED BY <3>1, <3>2
  <2> QED BY <2>1
<1>3. PICK g : Runs(g, Int \X Int, <<0, 0>>, F, L)
  <2> HIDE DEF F, L, Rec, y
  <2>1. <<0, 0>> \in Int \X Int
    OBVIOUS
  <2> QED BY <1>1, <1>2, <2>1, Iterates
<1>4. /\ g \in [0 .. L -> Int \X Int] /\ g[0] = <<0, 0>>
      /\ \A n \in 1 .. L : g[n] = F[n][g[n - 1]]
  <2> HIDE DEF F, L
  <2> QED BY <1>3 DEF Runs
<1>5. ASSUME NEW n \in 1 .. L
      PROVE  g[n][1] = Output(c, u, n, g[n - 1][1], g[n - 1][2]) /\ g[n][2] = g[n - 1][1]
  <2> HIDE DEF L
  <2>1. n \in Nat /\ n - 1 \in 0 .. L
    BY <1>1
  <2>2. g[n - 1] \in Int \X Int
    BY <2>1, <1>4
  <2>3. F[n][g[n - 1]] = <<Output(c, u, n, g[n - 1][1], g[n - 1][2]), g[n - 1][1]>>
    BY <2>1, <2>2
  <2>4. g[n] = <<Output(c, u, n, g[n - 1][1], g[n - 1][2]), g[n - 1][1]>>
    <3> HIDE DEF F
    <3> QED BY <1>4, <2>3
  <2> QED BY <2>4
<1> DEFINE h == [n \in -1 .. L |-> IF n = -1 THEN 0 ELSE g[n][1]]
<1>6. h = Rec(h)
  <2> HIDE DEF L, F
  <2>1. ASSUME NEW n \in -1 .. L PROVE h[n] = Rec(h)[n]
    <3>1. CASE n <= 0
      <4>1. n = -1 \/ n = 0
        BY <3>1, <1>1
      <4> QED BY <4>1, <1>4
    <3>2. CASE ~(n <= 0)
      <4>1. n \in 1 .. L /\ n - 1 \in 0 .. L /\ n # -1
        BY <3>2, <1>1
      <4>2. h[n] = g[n][1] /\ h[n - 1] = g[n - 1][1]
        BY <4>1, <1>1
      <4>3. h[n - 2] = g[n - 1][2]
        <5>1. CASE n = 1
          <6>1. n - 2 = -1 /\ n - 1 = 0
            BY <5>1
          <6>2. h[-1] = 0
            BY <1>1
          <6> HIDE DEF h
          <6> QED BY <6>1, <6>2, <1>4
        <5>2. CASE n # 1
          <6>1. n - 1 \in 1 .. L /\ n - 2 \in 0 .. L /\ (n - 1) - 1 = n - 2
            BY <5>2, <4>1, <1>1
          <6>2. g[n - 1][2] = g[n - 2][1]
            BY <6>1, <1>5
          <6>3. h[n - 2] = g[n - 2][1]
            BY <6>1, <1>1
          <6> QED BY <6>2, <6>3
        <5> QED BY <5>1, <5>2
      <4>4. Rec(h)[n] = Output(c, u, n, h[n - 1], h[n - 2])
        <5> HIDE DEF h
        <5> QED BY <3>2
      <4>5. g[n][1] = Output(c, u, n, g[n - 1][1], g[n - 1][2])
        BY <4>1, <1>5
      <4> HIDE DEF h, Rec
      <4> QED BY <4>2, <4>3, <4>4, <4>5
    <3> HIDE DEF h, Rec
    <3> QED BY <3>1, <3>2
  <2>2. h = [n \in -1 .. L |-> h[n]]
    OBVIOUS
  <2>3. Rec(h) = [n \in -1 .. L |-> Rec(h)[n]]
    OBVIOUS
  <2> HIDE DEF h, Rec
  <2> QED BY <2>1, <2>2, <2>3
<1>7. y = Rec(y)
  <2> HIDE DEF Rec, F, L, h
  <2> QED BY <1>6
<1>8. Filtered(c, u) = [n \in 1 .. L |-> y[n]]
  BY DEF Filtered, Output
<1> HIDE DEF y, L, F, h
<1>9. /\ y[-1] = 0 /\ y[0] = 0
      /\ \A n \in 1 .. L : y[n] = Output(c, u, n, y[n - 1], y[n - 2])
  <2>1. ASSUME NEW n \in -1 .. L
        PROVE  y[n] = IF n <= 0 THEN 0 ELSE Output(c, u, n, y[n - 1], y[n - 2])
    BY <1>7
  <2>2. -1 \in -1 .. L /\ 0 \in -1 .. L /\ -1 <= 0
    BY <1>1
  <2>3. ASSUME NEW n \in 1 .. L PROVE n \in -1 .. L /\ ~(n <= 0)
    BY <1>1
  <2> HIDE DEF Rec
  <2> QED BY <2>1, <2>2, <2>3
<1> DEFINE S == {n \in Nat : n \in 0 .. L => y[n] \in Int /\ y[n - 1] \in Int}
<1>10. Nat \subseteq S
  <2> HIDE DEF Rec
  <2>1. 0 \in S
    BY <1>9
  <2>2. ASSUME NEW n \in Nat, n \in S PROVE n + 1 \in S
    <3> SUFFICES ASSUME n + 1 \in 0 .. L PROVE y[n + 1] \in Int /\ y[(n + 1) - 1] \in Int
      OBVIOUS
    <3>1. n \in 0 .. L /\ n + 1 \in 1 .. L /\ (n + 1) - 1 = n /\ (n + 1) - 2 = n - 1
      BY <1>1
    <3>2. y[n] \in Int /\ y[n - 1] \in Int
      BY <2>2, <3>1
    <3>3. y[n + 1] = Output(c, u, n + 1, y[n], y[n - 1])
      BY <1>9, <3>1
    <3>4. Output(c, u, n + 1, y[n], y[n - 1]) \in Int
      BY <3>2, OutputInt
    <3> QED BY <3>1, <3>2, <3>3, <3>4
  <2> HIDE DEF S
  <2> QED BY <2>1, <2>2, Induction
<1>11. y \in [-1 .. L -> Int]
  <2>1. y = [n \in -1 .. L |-> y[n]]
    BY <1>7
  <2>2. ASSUME NEW n \in -1 .. L PROVE y[n] \in Int
    <3> HIDE DEF Rec
    <3>1. n = -1 \/ n \in Nat
      BY <1>1
    <3>2. ASSUME n \in Nat PROVE y[n] \in Int
      BY <3>2, <1>1, <1>10
    <3> QED BY <3>1, <3>2, <1>9
  <2> HIDE DEF Rec
  <2> QED BY <2>1, <2>2
<1> HIDE DEF Rec
<1> QED BY <1>8, <1>9, <1>11 DEF L

\* As many numbers come out of a filter as go in.
LEMMA FilteredSeq ==
  ASSUME NEW c \in Filters, NEW u \in Seq(Int)
  PROVE  Filtered(c, u) \in Seq(Int) /\ Len(Filtered(c, u)) = Len(u)
<1>1. PICK y \in [-1 .. Len(u) -> Int] : Filtered(c, u) = [n \in 1 .. Len(u) |-> y[n]]
  BY FilteredRuns
<1>2. Len(u) \in Nat
  OBVIOUS
<1>3. ASSUME NEW n \in 1 .. Len(u) PROVE y[n] \in Int
  <2>1. n \in -1 .. Len(u)
    BY <1>2
  <2> QED BY <2>1
<1>4. Filtered(c, u) \in [1 .. Len(u) -> Int]
  BY <1>1, <1>3
<1>5. Filtered(c, u) \in Seq(Int)
  BY <1>2, <1>4, SeqDef
<1>6. DOMAIN Filtered(c, u) = 1 .. Len(u)
  BY <1>1
<1>7. ASSUME NEW r \in Seq(Int), DOMAIN r = 1 .. Len(u) PROVE Len(r) = Len(u)
  <2>1. Len(r) \in Nat /\ DOMAIN r = 1 .. Len(r)
    BY LenProperties
  <2> QED BY <2>1, <1>2, <1>7
<1> QED BY <1>5, <1>6, <1>7

\* One more sample changes no output before it: a filter is causal.
LEMMA FilteredAppend ==
  ASSUME NEW c \in Filters, NEW u \in Seq(Int), NEW v \in Int
  PROVE  Filtered(c, Append(u, v)) =
           Append(Filtered(c, u),
                  Output(c, Append(u, v), Len(u) + 1,
                         At(Filtered(c, u), Len(u)), At(Filtered(c, u), Len(u) - 1)))
<1> DEFINE w == Append(u, v)
           L == Len(u)
<1>1. L \in Nat /\ w \in Seq(Int) /\ Len(w) = L + 1 /\ w[L + 1] = v
  OBVIOUS
<1>2. ASSUME NEW n \in Int, n <= L PROVE At(w, n) = At(u, n)
  <2>1. DOMAIN w = 1 .. L + 1 /\ DOMAIN u = 1 .. L /\ \A i \in 1 .. L : w[i] = u[i]
    OBVIOUS
  <2> HIDE DEF w, L
  <2>2. n \in DOMAIN w <=> n \in DOMAIN u
    BY <2>1, <1>1, <1>2
  <2> QED BY <2>1, <2>2 DEF At
<1>3. PICK y \in [-1 .. Len(u) -> Int] :
        /\ y[-1] = 0 /\ y[0] = 0
        /\ \A n \in 1 .. Len(u) : y[n] = Output(c, u, n, y[n - 1], y[n - 2])
        /\ Filtered(c, u) = [n \in 1 .. Len(u) |-> y[n]]
  BY FilteredRuns
<1> HIDE DEF w
<1>4. PICK z \in [-1 .. Len(w) -> Int] :
        /\ z[-1] = 0 /\ z[0] = 0
        /\ \A n \in 1 .. Len(w) : z[n] = Output(c, w, n, z[n - 1], z[n - 2])
        /\ Filtered(c, w) = [n \in 1 .. Len(w) |-> z[n]]
  BY <1>1, FilteredRuns
<1> HIDE DEF L
<1> DEFINE S == {n \in Nat : n \in 0 .. L => z[n] = y[n] /\ z[n - 1] = y[n - 1]}
<1>5. 0 \in S
  BY <1>3, <1>4
<1>6. ASSUME NEW n \in Nat, n \in S PROVE n + 1 \in S
  <2> SUFFICES ASSUME n + 1 \in 0 .. L
               PROVE  z[n + 1] = y[n + 1] /\ z[(n + 1) - 1] = y[(n + 1) - 1]
    OBVIOUS
  <2>1. /\ n \in 0 .. L /\ n + 1 \in 1 .. L /\ n + 1 \in 1 .. Len(w)
        /\ (n + 1) - 1 = n /\ (n + 1) - 2 = n - 1
    BY <1>1
  <2>2. z[n] = y[n] /\ z[n - 1] = y[n - 1]
    BY <1>6, <2>1
  <2>3. y[n + 1] = Output(c, u, n + 1, y[n], y[n - 1])
    BY <1>3, <2>1 DEF L
  <2>4. z[n + 1] = Output(c, w, n + 1, z[n], z[n - 1])
    BY <1>4, <2>1
  <2>5. /\ At(w, n + 1) = At(u, n + 1) /\ At(w, (n + 1) - 1) = At(u, (n + 1) - 1)
        /\ At(w, (n + 1) - 2) = At(u, (n + 1) - 2)
    <3>1. /\ n + 1 \in Int /\ n + 1 <= L /\ (n + 1) - 1 \in Int /\ (n + 1) - 1 <= L
          /\ (n + 1) - 2 \in Int /\ (n + 1) - 2 <= L
      BY <2>1, <1>1
    <3> QED BY <3>1, <1>2
  <2>6. Output(c, w, n + 1, y[n], y[n - 1]) = Output(c, u, n + 1, y[n], y[n - 1])
    BY <2>5 DEF Output
  <2> QED BY <2>1, <2>2, <2>3, <2>4, <2>6
<1>7. Nat \subseteq S
  <2> HIDE DEF S
  <2> QED BY <1>5, <1>6, Induction
<1>8. ASSUME NEW n \in -1 .. L PROVE z[n] = y[n]
  <2>1. n = -1 \/ (n \in Nat /\ n \in 0 .. L)
    BY <1>1
  <2> QED BY <2>1, <1>3, <1>4, <1>7
<1> DEFINE R == Filtered(c, u)
           new == Output(c, w, L + 1, At(R, L), At(R, L - 1))
<1>9. ASSUME NEW n \in -1 .. L PROVE At(R, n) = y[n]
  <2>1. R \in Seq(Int) /\ Len(R) = L /\ R = [i \in 1 .. L |-> y[i]]
    BY <1>3, FilteredSeq DEF L
  <2> HIDE DEF R
  <2>2. DOMAIN R = 1 .. L
    BY <2>1
  <2>3. CASE n \in 1 .. L
    BY <2>1, <2>2, <2>3 DEF At
  <2>4. CASE n \notin 1 .. L
    <3>1. n = -1 \/ n = 0
      BY <2>4, <1>1
    <3> QED BY <2>2, <2>4, <3>1, <1>3 DEF At
  <2> QED BY <2>3, <2>4
<1>10. z[L + 1] = new
  <2>1. /\ L + 1 \in 1 .. Len(w) /\ (L + 1) - 1 = L /\ (L + 1) - 2 = L - 1
        /\ L \in -1 .. L /\ L - 1 \in -1 .. L
    BY <1>1
  <2>2. z[L + 1] = Output(c, w, L + 1, z[L], z[L - 1])
    BY <1>4, <2>1
  <2>3. z[L] = At(R, L) /\ z[L - 1] = At(R, L - 1)
    BY <2>1, <1>8, <1>9
  <2> HIDE DEF R
  <2> QED BY <2>2, <2>3
<1>11. R \in Seq(Int) /\ Len(R) = L
  BY FilteredSeq DEF L
<1>12. Filtered(c, w) \in Seq(Int) /\ Len(Filtered(c, w)) = L + 1
  BY FilteredSeq, <1>1
<1>13. new \in Int
  <2>1. L + 1 \in 1 .. Len(w) /\ L + 1 \in -1 .. Len(w)
    BY <1>1
  <2>2. z[L + 1] \in Int
    BY <2>1
  <2> HIDE DEF new
  <2> QED BY <2>2, <1>10
<1>14. ASSUME NEW n \in 1 .. L + 1 PROVE Filtered(c, w)[n] = Append(R, new)[n]
  <2>1. Filtered(c, w)[n] = z[n]
    BY <1>1, <1>4
  <2> HIDE DEF new
  <2>2. CASE n = L + 1
    <3> HIDE DEF R
    <3>1. Append(R, new)[n] = new
      BY <1>11, <2>2
    <3> QED BY <2>1, <2>2, <3>1, <1>10
  <2>3. CASE n # L + 1
    <3>1. n \in 1 .. L /\ n \in -1 .. L
      BY <2>3, <1>1
    <3>2. Append(R, new)[n] = R[n]
      <4> HIDE DEF R
      <4> QED BY <3>1, <1>11, <1>13
    <3>3. R[n] = y[n]
      BY <3>1, <1>3 DEF L
    <3> QED BY <2>1, <3>1, <3>2, <3>3, <1>8
  <2> QED BY <2>2, <2>3
<1> HIDE DEF new, R
<1>15. Append(R, new) \in Seq(Int) /\ Len(Append(R, new)) = L + 1
  BY <1>11, <1>13
<1>16. Filtered(c, w) = Append(R, new)
  BY <1>12, <1>14, <1>15
<1> QED BY <1>16 DEF R, new, w, L

-----------------------------------------------------------------------------
Registers == [x : [0 .. 1 -> Int], y : [0 .. 1 -> Int]]

\* A section that has turned input into output holds the last two of each.
Holds(s, input, output) ==
  /\ s.x[0] = At(input, Len(input) - 1) /\ s.x[1] = At(input, Len(input))
  /\ s.y[0] = At(output, Len(output) - 1) /\ s.y[1] = At(output, Len(output))

\* The last two of a sequence after Append.
LEMMA LastTwo ==
  ASSUME NEW u \in Seq(Int), NEW v \in Int
  PROVE  /\ Len(Append(u, v)) = Len(u) + 1
         /\ At(Append(u, v), Len(u) + 1) = v
         /\ At(Append(u, v), Len(u)) = At(u, Len(u))
         /\ At(Append(u, v), Len(u) - 1) = At(u, Len(u) - 1)
<1> DEFINE w == Append(u, v)
           L == Len(u)
<1>1. L \in Nat /\ w \in Seq(Int) /\ Len(w) = L + 1 /\ w[L + 1] = v
  OBVIOUS
<1>2. DOMAIN w = 1 .. L + 1 /\ DOMAIN u = 1 .. L /\ \A i \in 1 .. L : w[i] = u[i]
  OBVIOUS
<1> HIDE DEF w, L
<1>3. ASSUME NEW n \in Int, n <= L PROVE At(w, n) = At(u, n)
  <2>1. n \in DOMAIN w <=> n \in DOMAIN u
    BY <1>1, <1>2, <1>3
  <2> QED BY <2>1, <1>2 DEF At
<1>4. At(w, L) = At(u, L) /\ At(w, L - 1) = At(u, L - 1)
  BY <1>1, <1>3
<1>5. L + 1 \in DOMAIN w
  BY <1>1, <1>2
<1>6. At(w, L + 1) = v
  BY <1>1, <1>5 DEF At
<1> QED BY <1>1, <1>4, <1>6 DEF w, L

LEMMA RegistersShift ==
  ASSUME NEW s \in Registers, NEW c \in Filters, NEW v \in Int, NEW first \in BOOLEAN
  PROVE  updateBiQuad(s, c, v, first) \in Registers
<1>1. /\ s.x \in [0 .. 1 -> Int] /\ s.y \in [0 .. 1 -> Int]
      /\ c.b \in [0 .. 2 -> Int] /\ c.a \in [0 .. 2 -> Int]
  BY DEF Registers, Filters
<1>2. /\ s.x[0] \in Int /\ s.x[1] \in Int /\ s.y[0] \in Int /\ s.y[1] \in Int
      /\ c.b[0] \in Int /\ c.b[1] \in Int /\ c.a[1] \in Int /\ c.a[2] \in Int
  BY <1>1
<1> DEFINE scaled == IF first THEN c.b[0] * v + c.b[0] * s.x[0] ELSE v + s.x[0]
           y2 == c.b[1] * s.x[1] + scaled - (c.a[1] * s.y[1] + c.a[2] * s.y[0])
<1>3. ASSUME NEW d \in Int, NEW e \in Int PROVE d * e \in Int
  OBVIOUS
<1>4. scaled \in Int
  <2>1. c.b[0] * v \in Int /\ c.b[0] * s.x[0] \in Int
    BY <1>2, <1>3
  <2>2. ASSUME NEW d \in Int, NEW e \in Int PROVE d + e \in Int
    OBVIOUS
  <2> QED BY <1>2, <2>1, <2>2
<1>5. y2 \in Int
  <2>1. c.b[1] * s.x[1] \in Int /\ c.a[1] * s.y[1] \in Int /\ c.a[2] * s.y[0] \in Int
    BY <1>2, <1>3
  <2>2. ASSUME NEW i \in Int, NEW j \in Int, NEW l \in Int, NEW m \in Int
        PROVE  i + j - (l + m) \in Int
    OBVIOUS
  <2> HIDE DEF scaled
  <2> QED BY <1>4, <2>1, <2>2
<1>6. updateBiQuad(s, c, v, first) = [x |-> Shift(s.x, v), y |-> Shift(s.y, y2)]
  BY DEF updateBiQuad
<1> HIDE DEF y2
<1>7. Shift(s.x, v) \in [0 .. 1 -> Int] /\ Shift(s.y, y2) \in [0 .. 1 -> Int]
  BY <1>2, <1>5 DEF Shift
<1> QED BY <1>6, <1>7 DEF Registers

(* updateBiQuad() on a section that has turned u into Filtered(c, u): what *)
(* it leaves in y[2] is the next output, and x and y are shifted to match. *)
(* The shortcuts agree with the equation because of Tabulated.             *)
LEMMA SectionSteps ==
  ASSUME NEW c \in Filters, NEW j \in Nat, Tabulated(c, j),
         NEW s \in Registers, NEW u \in Seq(Int), NEW v \in Int,
         Holds(s, u, Filtered(c, u))
  PROVE  LET t == updateBiQuad(s, c, v, j = 0)
         IN /\ t \in Registers
            /\ Filtered(c, Append(u, v)) = Append(Filtered(c, u), t.y[1])
            /\ Holds(t, Append(u, v), Filtered(c, Append(u, v)))
<1> DEFINE R == Filtered(c, u)
           L == Len(u)
           t == updateBiQuad(s, c, v, j = 0)
           scaled == IF j = 0 THEN c.b[0] * v + c.b[0] * s.x[0] ELSE v + s.x[0]
           y2 == c.b[1] * s.x[1] + scaled - (c.a[1] * s.y[1] + c.a[2] * s.y[0])
<1>1. R \in Seq(Int) /\ Len(R) = L /\ L \in Nat
  BY FilteredSeq
<1>2. t \in Registers
  BY RegistersShift
<1>3. t = [x |-> Shift(s.x, v), y |-> Shift(s.y, y2)]
  BY DEF updateBiQuad
<1>4. t.x[0] = s.x[1] /\ t.x[1] = v /\ t.y[0] = s.y[1] /\ t.y[1] = y2
  <2> HIDE DEF t, y2
  <2> QED BY <1>3 DEF Shift
<1>5. Output(c, Append(u, v), L + 1, At(R, L), At(R, L - 1)) = y2
  <2>1. /\ At(Append(u, v), L + 1) = v /\ At(Append(u, v), L) = s.x[1]
        /\ At(Append(u, v), L - 1) = s.x[0]
    <3> HIDE DEF R
    <3> QED BY LastTwo DEF Holds
  <2>2. At(R, L) = s.y[1] /\ At(R, L - 1) = s.y[0]
    <3>1. Holds(s, u, R)
      OBVIOUS
    <3> HIDE DEF R
    <3> QED BY <3>1, <1>1 DEF Holds
  <2> HIDE DEF R
  <2>3. (L + 1) - 1 = L /\ (L + 1) - 2 = L - 1
    BY <1>1
  <2>4. Output(c, Append(u, v), L + 1, At(R, L), At(R, L - 1)) =
          c.b[0] * v + c.b[1] * s.x[1] + c.b[2] * s.x[0] - (c.a[1] * s.y[1] + c.a[2] * s.y[0])
    <3> HIDE DEF L
    <3> QED BY <2>1, <2>2, <2>3 DEF Output
  <2>5. /\ s.x[0] \in Int /\ s.x[1] \in Int /\ s.y[0] \in Int /\ s.y[1] \in Int
        /\ c.b[0] \in Int /\ c.b[1] \in Int /\ c.a[1] \in Int /\ c.a[2] \in Int
    <3>1. /\ s.x \in [0 .. 1 -> Int] /\ s.y \in [0 .. 1 -> Int]
          /\ c.b \in [0 .. 2 -> Int] /\ c.a \in [0 .. 2 -> Int]
      BY DEF Registers, Filters
    <3> QED BY <3>1
  <2>6. ASSUME NEW d \in Int, NEW e \in Int PROVE d * e \in Int
    OBVIOUS
  <2>7. /\ c.b[0] * v \in Int /\ c.b[0] * s.x[0] \in Int /\ c.b[1] * s.x[1] \in Int
        /\ c.a[1] * s.y[1] \in Int /\ c.a[2] * s.y[0] \in Int
    BY <2>5, <2>6
  <2>8. ASSUME NEW i \in Int, NEW k \in Int, NEW m \in Int, NEW p \in Int, NEW q \in Int
        PROVE  i + k + m - (p + q) = k + (i + m) - (p + q)
    OBVIOUS
  <2>9. c.b[2] = c.b[0] /\ (j > 0 => c.b[0] = 1)
    BY DEF Tabulated
  <2>10. scaled = c.b[0] * v + c.b[0] * s.x[0]
    <3>1. ASSUME j > 0 PROVE c.b[0] * v = v /\ c.b[0] * s.x[0] = s.x[0]
      BY <2>5, <2>9, <3>1
    <3> QED BY <3>1
  <2>11. Output(c, Append(u, v), L + 1, At(R, L), At(R, L - 1)) =
           c.b[0] * v + c.b[1] * s.x[1] + c.b[0] * s.x[0]
             - (c.a[1] * s.y[1] + c.a[2] * s.y[0])
    BY <2>4, <2>9
  <2>12. c.b[0] * v + c.b[1] * s.x[1] + c.b[0] * s.x[0] - (c.a[1] * s.y[1] + c.a[2] * s.y[0])
           = c.b[1] * s.x[1] + (c.b[0] * v + c.b[0] * s.x[0])
               - (c.a[1] * s.y[1] + c.a[2] * s.y[0])
    BY <2>7, <2>8
  <2> HIDE DEF scaled
  <2> QED BY <2>10, <2>11, <2>12
<1>6. Filtered(c, Append(u, v)) = Append(R, y2)
  <2> HIDE DEF y2
  <2> QED BY <1>5, FilteredAppend
<1>7. y2 \in Int
  <2>1. t.y \in [0 .. 1 -> Int]
    <3> HIDE DEF t
    <3> QED BY <1>2 DEF Registers
  <2> HIDE DEF t, y2
  <2> QED BY <2>1, <1>4
<1>8. Holds(t, Append(u, v), Append(R, y2))
  <2> HIDE DEF t, y2
  <2>1. /\ Len(Append(u, v)) = L + 1 /\ At(Append(u, v), L + 1) = v
        /\ At(Append(u, v), L) = At(u, L)
    BY LastTwo
  <2>2. /\ Len(Append(R, y2)) = L + 1 /\ At(Append(R, y2), L + 1) = y2
        /\ At(Append(R, y2), L) = At(R, L)
    <3> HIDE DEF R
    <3> QED BY <1>1, <1>7, LastTwo
  <2>3. s.x[1] = At(u, L) /\ s.y[1] = At(R, L)
    <3>1. Holds(s, u, R)
      OBVIOUS
    <3> HIDE DEF R
    <3> QED BY <3>1, <1>1 DEF Holds
  <2>4. (L + 1) - 1 = L
    BY <1>1
  <2> HIDE DEF R, L
  <2> QED BY <1>4, <2>1, <2>2, <2>3, <2>4 DEF Holds
<1> HIDE DEF t, y2, R
<1>9. t \in Registers /\ Filtered(c, Append(u, v)) = Append(R, t.y[1])
        /\ Holds(t, Append(u, v), Filtered(c, Append(u, v)))
  BY <1>2, <1>4, <1>6, <1>8
<1> QED BY <1>9 DEF t, R

-----------------------------------------------------------------------------
LEMMA Tables ==
  ASSUME NEW f \in Bands, NEW j \in Sections
  PROVE  /\ Coefficients[f] \in [Sections -> Filters] /\ Coefficients[f][j] \in Filters
         /\ Tabulated(Coefficients[f][j], j)
<1>1. Coefficients \in [Bands -> [Sections -> Filters]]
  BY FilterAssumption DEF Filters
<1>2. Coefficients[f] \in [Sections -> Filters]
  BY <1>1
<1> QED BY <1>2, FilterAssumption

LEMMA Order == FILTER_ORDER \in Nat /\ FILTER_ORDER >= 1
BY FilterAssumption

\* The signals between the sections satisfy their equation.
LEMMA SignalsRun ==
  ASSUME NEW f \in Bands, NEW input \in Seq(Int)
  PROVE  /\ Signals(f, input) \in [0 .. FILTER_ORDER -> Seq(Int)]
         /\ Signals(f, input)[0] = input
         /\ \A j \in Sections : Signals(f, input)[j + 1] =
              Filtered(Coefficients[f][j], Signals(f, input)[j])
<1> DEFINE N == FILTER_ORDER
           Rec(g) == [j \in 0 .. N |->
                        IF j = 0 THEN input ELSE Filtered(Coefficients[f][j - 1], g[j - 1])]
           signal == CHOOSE g : g = Rec(g)
           F == [n \in Nat |-> [w \in Seq(Int) |->
                   IF n - 1 \in Sections THEN Filtered(Coefficients[f][n - 1], w) ELSE w]]
<1>1. N \in Nat /\ N >= 1
  BY Order
<1>2. F \in [Nat -> [Seq(Int) -> Seq(Int)]]
  <2>1. ASSUME NEW n \in Nat, NEW w \in Seq(Int)
        PROVE  (IF n - 1 \in Sections THEN Filtered(Coefficients[f][n - 1], w) ELSE w) \in Seq(Int)
    <3>1. CASE n - 1 \in Sections
      <4>1. Coefficients[f][n - 1] \in Filters
        BY <3>1, Tables
      <4>2. Filtered(Coefficients[f][n - 1], w) \in Seq(Int)
        BY <4>1, FilteredSeq
      <4> QED BY <3>1, <4>2
    <3>2. CASE n - 1 \notin Sections
      BY <3>2
    <3> QED BY <3>1, <3>2
  <2> QED BY <2>1
<1> HIDE DEF N
<1>3. PICK g : Runs(g, Seq(Int), input, F, N)
  <2> HIDE DEF F, Rec, signal
  <2> QED BY <1>1, <1>2, Iterates
<1>4. /\ g \in [0 .. N -> Seq(Int)] /\ g[0] = input
      /\ \A n \in 1 .. N : g[n] = F[n][g[n - 1]]
  <2> HIDE DEF F
  <2> QED BY <1>3 DEF Runs
<1>5. ASSUME NEW n \in 1 .. N PROVE g[n] = Filtered(Coefficients[f][n - 1], g[n - 1])
  <2>1. n \in Nat /\ n - 1 \in 0 .. N /\ n - 1 \in Sections
    BY <1>1 DEF Sections, N
  <2>2. g[n - 1] \in Seq(Int)
    BY <2>1, <1>4
  <2>3. F[n][g[n - 1]] = Filtered(Coefficients[f][n - 1], g[n - 1])
    BY <2>1, <2>2
  <2> HIDE DEF F
  <2> QED BY <1>4, <2>3
<1>6. g = Rec(g)
  <2> HIDE DEF F
  <2>1. ASSUME NEW n \in 0 .. N PROVE g[n] = Rec(g)[n]
    <3>1. CASE n = 0
      BY <3>1, <1>4
    <3>2. CASE n # 0
      <4>1. n \in 1 .. N
        BY <3>2, <1>1
      <4> QED BY <4>1, <3>2, <1>5
    <3> QED BY <3>1, <3>2
  <2>2. g = [n \in 0 .. N |-> g[n]]
    BY <1>4
  <2>3. Rec(g) = [n \in 0 .. N |-> Rec(g)[n]]
    OBVIOUS
  <2> HIDE DEF Rec
  <2> QED BY <2>1, <2>2, <2>3
<1>7. signal = Rec(signal)
  <2> HIDE DEF Rec, F
  <2> QED BY <1>6
<1>8. Signals(f, input) = signal
  BY DEF Signals, N
<1> HIDE DEF signal, F
<1>9. ASSUME NEW n \in 0 .. N
      PROVE  signal[n] = IF n = 0 THEN input ELSE Filtered(Coefficients[f][n - 1], signal[n - 1])
  BY <1>7
<1>10. signal[0] = input
  BY <1>1, <1>9
<1>11. ASSUME NEW j \in Sections PROVE signal[j + 1] = Filtered(Coefficients[f][j], signal[j])
  <2>1. j + 1 \in 0 .. N /\ j + 1 # 0 /\ (j + 1) - 1 = j
    BY <1>1 DEF Sections, N
  <2> QED BY <2>1, <1>9
<1> DEFINE S == {n \in Nat : n \in 0 .. N => signal[n] \in Seq(Int)}
<1>12. Nat \subseteq S
  <2> HIDE DEF Rec
  <2>1. 0 \in S
    BY <1>10
  <2>2. ASSUME NEW n \in Nat, n \in S PROVE n + 1 \in S
    <3> SUFFICES ASSUME n + 1 \in 0 .. N PROVE signal[n + 1] \in Seq(Int)
      OBVIOUS
    <3>1. n \in 0 .. N /\ n \in Sections
      BY <1>1 DEF Sections, N
    <3>2. Coefficients[f][n] \in Filters /\ signal[n] \in Seq(Int)
      BY <2>2, <3>1, Tables
    <3> QED BY <3>1, <3>2, <1>11, FilteredSeq
  <2> HIDE DEF S
  <2> QED BY <2>1, <2>2, Induction
<1>13. signal \in [0 .. N -> Seq(Int)]
  <2>1. signal = [n \in 0 .. N |-> signal[n]]
    BY <1>7
  <2>2. ASSUME NEW n \in 0 .. N PROVE signal[n] \in Seq(Int)
    <3>1. n \in Nat
      BY <1>1
    <3> QED BY <3>1, <1>12
  <2> HIDE DEF Rec
  <2> QED BY <2>1, <2>2
<1> HIDE DEF Rec
<1> QED BY <1>8, <1>10, <1>11, <1>13 DEF N

\* So do the sections in Cascade: each is fed the new output of the one before.
LEMMA CascadeRuns ==
  ASSUME NEW c \in [Sections -> Filters], NEW sections \in [Sections -> Registers], NEW v \in Int
  PROVE  /\ Cascade(sections, c, v) \in [Sections -> Registers]
         /\ \A j \in Sections : Cascade(sections, c, v)[j] =
              updateBiQuad(sections[j], c[j],
                           IF j = 0 THEN v ELSE Cascade(sections, c, v)[j - 1].y[1], j = 0)
<1> DEFINE M == FILTER_ORDER - 1
           Rec(g) == [j \in Sections |->
             updateBiQuad(sections[j], c[j], IF j = 0 THEN v ELSE g[j - 1].y[1], j = 0)]
           after == CHOOSE g : g = Rec(g)
           r0 == updateBiQuad(sections[0], c[0], v, TRUE)
           F == [n \in Nat |-> [r \in Registers |->
                   IF n \in Sections THEN updateBiQuad(sections[n], c[n], r.y[1], FALSE) ELSE r]]
<1>1. M \in Nat /\ Sections = 0 .. M
  BY Order DEF Sections
<1>2. ASSUME NEW j \in Sections, NEW w \in Int, NEW first \in BOOLEAN
      PROVE  updateBiQuad(sections[j], c[j], w, first) \in Registers
  <2>1. sections[j] \in Registers /\ c[j] \in Filters
    OBVIOUS
  <2> QED BY <2>1, RegistersShift
<1>3. ASSUME NEW r \in Registers PROVE r.y[1] \in Int
  <2>1. r.y \in [0 .. 1 -> Int]
    BY DEF Registers
  <2> QED BY <2>1
<1> HIDE DEF M
<1>4. r0 \in Registers
  <2>1. 0 \in Sections /\ TRUE \in BOOLEAN
    BY <1>1
  <2> QED BY <2>1, <1>2
<1>5. F \in [Nat -> [Registers -> Registers]]
  <2>1. ASSUME NEW n \in Nat, NEW r \in Registers
        PROVE  (IF n \in Sections THEN updateBiQuad(sections[n], c[n], r.y[1], FALSE) ELSE r)
                 \in Registers
    <3>1. CASE n \in Sections
      <4>1. r.y[1] \in Int /\ FALSE \in BOOLEAN
        BY <1>3
      <4>2. updateBiQuad(sections[n], c[n], r.y[1], FALSE) \in Registers
        BY <3>1, <4>1, <1>2
      <4> QED BY <3>1, <4>2
    <3>2. CASE n \notin Sections
      BY <3>2
    <3> QED BY <3>1, <3>2
  <2> QED BY <2>1
<1>6. PICK g : Runs(g, Registers, r0, F, M)
  <2> HIDE DEF F, Rec, after, r0
  <2> QED BY <1>1, <1>4, <1>5, Iterates
<1>7. /\ g \in [0 .. M -> Registers] /\ g[0] = r0
      /\ \A n \in 1 .. M : g[n] = F[n][g[n - 1]]
  <2> HIDE DEF F, r0
  <2> QED BY <1>6 DEF Runs
<1>8. ASSUME NEW n \in 1 .. M
      PROVE  g[n] = updateBiQuad(sections[n], c[n], g[n - 1].y[1], FALSE)
  <2>1. n \in Nat /\ n - 1 \in 0 .. M /\ n \in Sections
    BY <1>1
  <2>2. g[n - 1] \in Registers
    BY <2>1, <1>7
  <2>3. F[n][g[n - 1]] = updateBiQuad(sections[n], c[n], g[n - 1].y[1], FALSE)
    BY <2>1, <2>2
  <2> HIDE DEF F
  <2> QED BY <1>7, <2>3
<1>9. g = Rec(g)
  <2> HIDE DEF F
  <2>1. ASSUME NEW n \in Sections PROVE g[n] = Rec(g)[n]
    <3>1. CASE n = 0
      <4>1. (n = 0) = TRUE
        BY <3>1
      <4> QED BY <3>1, <4>1, <1>7
    <3>2. CASE n # 0
      <4>1. n \in 1 .. M
        BY <3>2, <1>1
      <4>2. (n = 0) = FALSE
        BY <3>2
      <4>3. Rec(g)[n] = updateBiQuad(sections[n], c[n], g[n - 1].y[1], FALSE)
        BY <3>2, <4>2
      <4> HIDE DEF Rec
      <4> QED BY <4>1, <4>3, <1>8
    <3> HIDE DEF Rec
    <3> QED BY <3>1, <3>2
  <2>2. g = [n \in Sections |-> g[n]]
    BY <1>1, <1>7
  <2>3. Rec(g) = [n \in Sections |-> Rec(g)[n]]
    OBVIOUS
  <2> HIDE DEF Rec
  <2> QED BY <2>1, <2>2, <2>3
<1>10. after = Rec(after)
  <2> HIDE DEF Rec, F, r0
  <2> QED BY <1>9
<1>11. Cascade(sections, c, v) = after
  BY DEF Cascade
<1> HIDE DEF after, F, r0
<1>12. ASSUME NEW j \in Sections
       PROVE  after[j] = updateBiQuad(sections[j], c[j],
                                      IF j = 0 THEN v ELSE after[j - 1].y[1], j = 0)
  <2>1. after[j] = Rec(after)[j]
    <3> HIDE DEF Rec
    <3> QED BY <1>10
  <2> QED BY <2>1
<1> DEFINE S == {n \in Nat : n \in Sections => after[n] \in Registers}
<1>13. Nat \subseteq S
  <2> HIDE DEF Rec
  <2>1. 0 \in S
    <3>1. 0 \in Sections /\ (0 = 0) \in BOOLEAN
      BY <1>1
    <3>2. updateBiQuad(sections[0], c[0], v, 0 = 0) \in Registers
      BY <3>1, <1>2
    <3>3. after[0] = updateBiQuad(sections[0], c[0], v, 0 = 0)
      BY <3>1, <1>12
    <3> QED BY <3>2, <3>3
  <2>2. ASSUME NEW n \in Nat, n \in S PROVE n + 1 \in S
    <3> SUFFICES ASSUME n + 1 \in Sections PROVE after[n + 1] \in Registers
      OBVIOUS
    <3>1. n \in Sections /\ (n + 1) - 1 = n /\ n + 1 # 0 /\ (n + 1 = 0) \in BOOLEAN
      BY <1>1
    <3>2. after[n].y[1] \in Int
      BY <2>2, <3>1, <1>3
    <3>3. after[n + 1] = updateBiQuad(sections[n + 1], c[n + 1], after[n].y[1], n + 1 = 0)
      BY <3>1, <1>12
    <3> QED BY <3>1, <3>2, <3>3, <1>2
  <2> HIDE DEF S
  <2> QED BY <2>1, <2>2, Induction
<1>14. after \in [Sections -> Registers]
  <2>1. after = [n \in Sections |-> after[n]]
    BY <1>10
  <2>2. ASSUME NEW n \in Sections PROVE after[n] \in Registers
    <3>1. n \in Nat
      BY <1>1
    <3> QED BY <3>1, <1>13
  <2> HIDE DEF Rec
  <2> QED BY <2>1, <2>2
<1> HIDE DEF Rec
<1> QED BY <1>11, <1>12, <1>14

-----------------------------------------------------------------------------
\* Every section of a band has turned its input, all of it, into its output.
Tracks(sections, signal) ==
  \A j \in Sections : Holds(sections[j], signal[j], signal[j + 1])

\* One pass of updateFilterBank() over a band, by induction on the section.
LEMMA CascadeSteps ==
  ASSUME NEW f \in Bands, NEW h \in Seq(Int), NEW v \in Int,
         NEW sections \in [Sections -> Registers], Tracks(sections, Signals(f, h))
  PROVE  LET after == Cascade(sections, Coefficients[f], v)
         IN /\ after \in [Sections -> Registers]
            /\ Tracks(after, Signals(f, Append(h, v)))
            /\ after[FILTER_ORDER - 1].y[1] \in Int
            /\ Signals(f, Append(h, v))[FILTER_ORDER] =
                 Append(Signals(f, h)[FILTER_ORDER], after[FILTER_ORDER - 1].y[1])
<1> DEFINE c == Coefficients[f]
           after == Cascade(sections, c, v)
           G == Signals(f, h)
           W == Signals(f, Append(h, v))
           M == FILTER_ORDER - 1
           feed(j) == IF j = 0 THEN v ELSE after[j - 1].y[1]
<1>1. M \in Nat /\ Sections = 0 .. M /\ M + 1 = FILTER_ORDER
  BY Order DEF Sections
<1>2. c \in [Sections -> Filters]
        /\ \A j \in Sections : c[j] \in Filters /\ Tabulated(c[j], j)
  <2>1. c \in [Sections -> Filters]
    <3>1. 0 \in Sections
      BY <1>1
    <3> QED BY <3>1, Tables
  <2> QED BY <2>1, Tables
<1>3. Append(h, v) \in Seq(Int)
  OBVIOUS
<1>4. /\ G \in [0 .. FILTER_ORDER -> Seq(Int)] /\ G[0] = h
      /\ \A j \in Sections : G[j + 1] = Filtered(c[j], G[j])
  BY SignalsRun
<1>5. /\ W \in [0 .. FILTER_ORDER -> Seq(Int)] /\ W[0] = Append(h, v)
      /\ \A j \in Sections : W[j + 1] = Filtered(c[j], W[j])
  BY <1>3, SignalsRun
<1> HIDE DEF c
<1>6. /\ after \in [Sections -> Registers]
      /\ \A j \in Sections : after[j] = updateBiQuad(sections[j], c[j], feed(j), j = 0)
  BY <1>2, CascadeRuns
<1> HIDE DEF after, G, W, M
<1>7. ASSUME NEW j \in Sections PROVE after[j].y[1] \in Int
  <2>1. after[j] \in Registers
    BY <1>6
  <2>2. after[j].y \in [0 .. 1 -> Int]
    BY <2>1 DEF Registers
  <2> QED BY <2>2
<1>8. ASSUME NEW j \in Sections PROVE feed(j) \in Int
  <2>1. CASE j = 0
    BY <2>1
  <2>2. CASE j # 0
    <3>1. j - 1 \in Sections
      BY <2>2, <1>1
    <3> QED BY <2>2, <3>1, <1>7
  <2> QED BY <2>1, <2>2
<1>9. ASSUME NEW j \in Sections, W[j] = Append(G[j], feed(j))
      PROVE  W[j + 1] = Append(G[j + 1], after[j].y[1]) /\ Holds(after[j], W[j], W[j + 1])
  <2>1. feed(j) \in Int
    BY <1>8
  <2> HIDE DEF feed
  <2>2. /\ j \in Nat /\ j \in 0 .. FILTER_ORDER
        /\ c[j] \in Filters /\ Tabulated(c[j], j) /\ sections[j] \in Registers
    BY <1>1, <1>2
  <2>3. G[j] \in Seq(Int) /\ G[j + 1] = Filtered(c[j], G[j])
    BY <2>2, <1>4
  <2>4. Holds(sections[j], G[j], Filtered(c[j], G[j]))
    BY <2>3 DEF Tracks, G
  <2>5. after[j] = updateBiQuad(sections[j], c[j], feed(j), j = 0)
    BY <1>6
  <2>6. /\ Filtered(c[j], Append(G[j], feed(j))) = Append(Filtered(c[j], G[j]), after[j].y[1])
        /\ Holds(after[j], Append(G[j], feed(j)), Filtered(c[j], Append(G[j], feed(j))))
    BY <2>1, <2>2, <2>3, <2>4, <2>5, SectionSteps
  <2>7. W[j + 1] = Filtered(c[j], W[j])
    BY <1>5
  <2> QED BY <2>3, <2>6, <2>7, <1>9
<1> DEFINE S == {n \in Nat : n \in Sections => W[n] = Append(G[n], feed(n))}
<1>10. Nat \subseteq S
  <2>1. 0 \in S
    BY <1>4, <1>5
  <2>2. ASSUME NEW n \in Nat, n \in S PROVE n + 1 \in S
    <3> SUFFICES ASSUME n + 1 \in Sections PROVE W[n + 1] = Append(G[n + 1], feed(n + 1))
      OBVIOUS
    <3>1. n \in Sections /\ (n + 1) - 1 = n /\ n + 1 # 0
      BY <1>1
    <3>2. feed(n + 1) = after[n].y[1]
      BY <3>1
    <3>3. W[n] = Append(G[n], feed(n))
      BY <2>2, <3>1
    <3> HIDE DEF feed
    <3>4. W[n + 1] = Append(G[n + 1], after[n].y[1])
      BY <3>1, <3>3, <1>9
    <3> QED BY <3>2, <3>4
  <2> HIDE DEF S
  <2> QED BY <2>1, <2>2, Induction
<1>11. ASSUME NEW j \in Sections PROVE W[j] = Append(G[j], feed(j))
  <2>1. j \in Nat
    BY <1>1
  <2> HIDE DEF feed
  <2> QED BY <2>1, <1>10
<1>12. Tracks(after, W)
  <2> HIDE DEF feed
  <2> QED BY <1>9, <1>11 DEF Tracks
<1>13. M \in Sections
  BY <1>1
<1>14. W[FILTER_ORDER] = Append(G[FILTER_ORDER], after[M].y[1])
  <2> HIDE DEF feed
  <2>1. W[M + 1] = Append(G[M + 1], after[M].y[1])
    BY <1>9, <1>11, <1>13
  <2> QED BY <2>1, <1>1
<1> HIDE DEF feed
<1> QED BY <1>6, <1>7, <1>12, <1>13, <1>14 DEF after, G, W, M, c

\* A band answers every sample with one number.
LEMMA ResponseLength ==
  ASSUME NEW f \in Bands, NEW h \in Seq(Int)
  PROVE  /\ Signals(f, h)[FILTER_ORDER] \in Seq(Int)
         /\ Len(Signals(f, h)[FILTER_ORDER]) = Len(h)
<1> DEFINE G == Signals(f, h)
           N == FILTER_ORDER
<1>1. N \in Nat /\ Sections = 0 .. N - 1
  BY Order DEF Sections
<1>2. /\ G \in [0 .. N -> Seq(Int)] /\ G[0] = h
      /\ \A j \in Sections : G[j + 1] = Filtered(Coefficients[f][j], G[j])
  BY SignalsRun
<1> HIDE DEF G, N
<1> DEFINE S == {n \in Nat : n \in 0 .. N => Len(G[n]) = Len(h)}
<1>3. Nat \subseteq S
  <2>1. 0 \in S
    BY <1>2
  <2>2. ASSUME NEW n \in Nat, n \in S PROVE n + 1 \in S
    <3> SUFFICES ASSUME n + 1 \in 0 .. N PROVE Len(G[n + 1]) = Len(h)
      OBVIOUS
    <3>1. n \in Sections /\ n \in 0 .. N
      BY <1>1
    <3>2. G[n] \in Seq(Int) /\ Len(G[n]) = Len(h) /\ Coefficients[f][n] \in Filters
      BY <2>2, <3>1, <1>2, Tables
    <3>3. G[n + 1] = Filtered(Coefficients[f][n], G[n])
      BY <3>1, <1>2
    <3> QED BY <3>2, <3>3, FilteredSeq
  <2> HIDE DEF S
  <2> QED BY <2>1, <2>2, Induction
<1>4. N \in 0 .. N
  BY <1>1
<1>5. G[N] \in Seq(Int) /\ Len(G[N]) = Len(h)
  BY <1>1, <1>2, <1>3, <1>4
<1> QED BY <1>5 DEF G, N

-----------------------------------------------------------------------------
TypeOK ==
  /\ heard \in Seq(Int) /\ zeroed \in 0 .. Len(heard)
  /\ Leq \in [Bands -> Int]
  /\ sos \in [Bands -> [Sections -> Registers]]

\* What makes LeqIsEnergy inductive: every section is at the end of its input.
Listening == \A f \in Bands : Tracks(sos[f], Signals(f, heard))

IInv == TypeOK /\ Listening /\ LeqIsEnergy

\* Before the first sample the zeroed registers are right.
LEMMA Silence ==
  ASSUME NEW f \in Bands, NEW j \in Sections
  PROVE  Holds(Rest, Signals(f, <<>>)[j], Signals(f, <<>>)[j + 1])
<1> DEFINE G == Signals(f, <<>>)
           N == FILTER_ORDER
<1>1. N \in Nat /\ Sections = 0 .. N - 1
  BY Order DEF Sections
<1>2. <<>> \in Seq(Int) /\ Len(<<>>) = 0
  OBVIOUS
<1>3. /\ G \in [0 .. N -> Seq(Int)] /\ G[0] = <<>>
      /\ \A i \in Sections : G[i + 1] = Filtered(Coefficients[f][i], G[i])
  BY <1>2, SignalsRun
<1> HIDE DEF G, N
<1> DEFINE S == {n \in Nat : n \in 0 .. N => Len(G[n]) = 0}
<1>4. Nat \subseteq S
  <2>1. 0 \in S
    BY <1>2, <1>3
  <2>2. ASSUME NEW n \in Nat, n \in S PROVE n + 1 \in S
    <3> SUFFICES ASSUME n + 1 \in 0 .. N PROVE Len(G[n + 1]) = 0
      OBVIOUS
    <3>1. n \in Sections /\ n \in 0 .. N
      BY <1>1
    <3>2. G[n] \in Seq(Int) /\ Len(G[n]) = 0 /\ Coefficients[f][n] \in Filters
      BY <2>2, <3>1, <1>3, Tables
    <3>3. G[n + 1] = Filtered(Coefficients[f][n], G[n])
      BY <3>1, <1>3
    <3> QED BY <3>2, <3>3, FilteredSeq
  <2> HIDE DEF S
  <2> QED BY <2>1, <2>2, Induction
<1>5. ASSUME NEW n \in 0 .. N PROVE At(G[n], Len(G[n])) = 0 /\ At(G[n], Len(G[n]) - 1) = 0
  <2>1. n \in Nat /\ G[n] \in Seq(Int) /\ Len(G[n]) = 0
    BY <1>1, <1>3, <1>4
  <2>2. DOMAIN G[n] = 1 .. 0
    BY <2>1
  <2> QED BY <2>1, <2>2 DEF At
<1>6. j \in 0 .. N /\ j + 1 \in 0 .. N
  BY <1>1
<1>7. Rest.x[0] = 0 /\ Rest.x[1] = 0 /\ Rest.y[0] = 0 /\ Rest.y[1] = 0
  BY DEF Rest
<1>8. Holds(Rest, G[j], G[j + 1])
  BY <1>5, <1>6, <1>7 DEF Holds
<1> QED BY <1>8 DEF G

LEMMA StartsQuiet == Init => IInv
<1> SUFFICES ASSUME Init PROVE IInv
  OBVIOUS
<1> USE DEF Init
<1>1. TypeOK
  <2>1. Rest \in Registers
    BY DEF Rest, Registers
  <2>2. sos \in [Bands -> [Sections -> Registers]]
    BY <2>1
  <2>3. heard \in Seq(Int) /\ zeroed \in 0 .. Len(heard) /\ Leq \in [Bands -> Int]
    OBVIOUS
  <2> QED BY <2>2, <2>3 DEF TypeOK
<1>2. Listening
  <2> SUFFICES ASSUME NEW f \in Bands, NEW j \in Sections
               PROVE  Holds(sos[f][j], Signals(f, heard)[j], Signals(f, heard)[j + 1])
    BY DEF Listening, Tracks
  <2>1. sos[f][j] = Rest /\ heard = <<>>
    OBVIOUS
  <2> QED BY <2>1, Silence
<1>3. LeqIsEnergy
  <2> SUFFICES ASSUME NEW f \in Bands
               PROVE  Leq[f] = Energy(SubSeq(Response(f), zeroed + 1, Len(heard)))
    BY DEF LeqIsEnergy
  <2>1. heard = <<>> /\ Len(heard) = 0 /\ zeroed = 0 /\ Leq[f] = 0
    OBVIOUS
  <2>2. SubSeq(Response(f), zeroed + 1, Len(heard)) = <<>>
    <3>1. <<>> \in Seq(Int)
      OBVIOUS
    <3>2. Response(f) \in Seq(Int)
      BY <2>1, <3>1, ResponseLength DEF Response
    <3> QED BY <2>1, <3>2
  <2> QED BY <2>1, <2>2, EnergyEmpty
<1> QED BY <1>1, <1>2, <1>3 DEF IInv

\* What came since Leq was zeroed, with one more at the end.
LEMMA TailAppend ==
  ASSUME NEW r \in Seq(Int), NEW v \in Int, NEW z \in 0 .. Len(r)
  PROVE  /\ SubSeq(r, z + 1, Len(r)) \in Seq(Int)
         /\ SubSeq(Append(r, v), z + 1, Len(r) + 1) = Append(SubSeq(r, z + 1, Len(r)), v)
<1> DEFINE L == Len(r)
           w == Append(r, v)
           s == SubSeq(r, z + 1, L)
           t == SubSeq(w, z + 1, L + 1)
<1>1. L \in Nat /\ z \in Nat /\ z <= L
  OBVIOUS
<1>2. /\ w \in Seq(Int) /\ Len(w) = L + 1 /\ w[L + 1] = v
      /\ \A i \in 1 .. L : w[i] = r[i] /\ r[i] \in Int
  OBVIOUS
<1> HIDE DEF w, L
<1>3. s = [i \in 1 .. L - z |-> r[z + i]]
  BY <1>1
<1>4. t = [i \in 1 .. (L + 1) - z |-> w[z + i]]
  BY <1>1, <1>2
<1> HIDE DEF s, t
<1>5. s \in Seq(Int) /\ Len(s) = L - z
  <2>1. ASSUME NEW i \in 1 .. L - z PROVE r[z + i] \in Int
    <3>1. z + i \in 1 .. L
      BY <1>1
    <3> QED BY <3>1, <1>2
  <2>2. L - z \in Nat
    BY <1>1
  <2> QED BY <2>1, <2>2, <1>3
<1>6. t \in Seq(Int) /\ Len(t) = (L + 1) - z
  <2>1. ASSUME NEW i \in 1 .. (L + 1) - z PROVE w[z + i] \in Int
    <3>1. z + i \in 1 .. L + 1
      BY <1>1
    <3> QED BY <3>1, <1>2
  <2>2. (L + 1) - z \in Nat
    BY <1>1
  <2> QED BY <2>1, <2>2, <1>4
<1>7. Append(s, v) \in Seq(Int) /\ Len(Append(s, v)) = (L - z) + 1
  BY <1>5
<1>8. ASSUME NEW i \in 1 .. (L + 1) - z PROVE t[i] = Append(s, v)[i]
  <2>1. t[i] = w[z + i]
    BY <1>4
  <2>2. CASE i = (L + 1) - z
    <3>1. z + i = L + 1 /\ i = Len(s) + 1
      BY <2>2, <1>1, <1>5
    <3>2. Append(s, v)[i] = v
      BY <3>1, <1>5
    <3> QED BY <2>1, <3>1, <3>2, <1>2
  <2>3. CASE i # (L + 1) - z
    <3>1. i \in 1 .. L - z /\ z + i \in 1 .. L
      BY <2>3, <1>1
    <3>2. Append(s, v)[i] = s[i]
      BY <3>1, <1>5
    <3> QED BY <2>1, <3>1, <3>2, <1>2, <1>3
  <2> QED BY <2>2, <2>3
<1>9. (L + 1) - z = (L - z) + 1
  BY <1>1
<1>10. t = Append(s, v)
  BY <1>6, <1>7, <1>8, <1>9
<1> QED BY <1>5, <1>10 DEF s, t, w, L

LEMMA SampleTaken ==
  ASSUME IInv, NEW u \in Samples, updateFilterBank(u)
  PROVE  IInv'
<1> DEFINE after == [f \in Bands |-> Cascade(sos[f], Coefficients[f], u)]
           out(f) == after[f][FILTER_ORDER - 1].y[1]
<1>1. /\ sos' = after /\ Leq' = [f \in Bands |-> Leq[f] + out(f) * out(f)]
      /\ heard' = Append(heard, u) /\ zeroed' = zeroed
  BY DEF updateFilterBank
<1>2. u \in Int
  BY FilterAssumption
<1>3. /\ heard \in Seq(Int) /\ zeroed \in 0 .. Len(heard)
      /\ Leq \in [Bands -> Int] /\ sos \in [Bands -> [Sections -> Registers]]
  BY DEF IInv, TypeOK
<1>4. ASSUME NEW f \in Bands
      PROVE  /\ after[f] \in [Sections -> Registers]
             /\ Tracks(after[f], Signals(f, heard'))
             /\ out(f) \in Int
             /\ Signals(f, heard')[FILTER_ORDER] = Append(Signals(f, heard)[FILTER_ORDER], out(f))
  <2>1. sos[f] \in [Sections -> Registers] /\ Tracks(sos[f], Signals(f, heard))
    BY <1>3 DEF IInv, Listening
  <2>2. after[f] = Cascade(sos[f], Coefficients[f], u)
    OBVIOUS
  <2> HIDE DEF after
  <2> QED BY <1>1, <1>2, <1>3, <2>1, <2>2, CascadeSteps
<1> HIDE DEF after
<1>5. ASSUME NEW f \in Bands PROVE Leq[f] + out(f) * out(f) \in Int
  <2>1. Leq[f] \in Int /\ out(f) \in Int
    BY <1>3, <1>4
  <2> HIDE DEF out
  <2>2. out(f) * out(f) \in Int
    BY <2>1
  <2> QED BY <2>1, <2>2
<1>6. TypeOK'
  <2>1. heard' \in Seq(Int) /\ Len(heard') = Len(heard) + 1 /\ Len(heard) \in Nat
    BY <1>1, <1>2, <1>3
  <2>2. zeroed' \in 0 .. Len(heard')
    BY <1>1, <1>3, <2>1
  <2>3. Leq' \in [Bands -> Int]
    <3> HIDE DEF out
    <3> QED BY <1>1, <1>5
  <2>4. sos' \in [Bands -> [Sections -> Registers]]
    <3>1. after = [f \in Bands |-> after[f]]
      BY DEF after
    <3> QED BY <1>1, <1>4, <3>1
  <2> QED BY <2>1, <2>2, <2>3, <2>4 DEF TypeOK
<1>7. Listening'
  <2>1. ASSUME NEW f \in Bands PROVE Tracks(sos'[f], Signals(f, heard'))
    BY <1>1, <1>4
  <2> QED BY <2>1 DEF Listening
<1>8. LeqIsEnergy'
  <2>1. ASSUME NEW f \in Bands
        PROVE  Leq'[f] = Energy(SubSeq(Signals(f, heard')[FILTER_ORDER], zeroed' + 1, Len(heard')))
    <3> DEFINE r == Signals(f, heard)[FILTER_ORDER]
               o == out(f)
               s == SubSeq(r, zeroed + 1, Len(r))
    <3>1. r \in Seq(Int) /\ Len(r) = Len(heard)
      BY <1>3, ResponseLength
    <3>2. o \in Int /\ Signals(f, heard')[FILTER_ORDER] = Append(r, o)
      BY <1>4
    <3>3. Leq'[f] = Leq[f] + o * o
      BY <1>1
    <3>4. Leq[f] = Energy(s)
      BY <3>1 DEF IInv, LeqIsEnergy, Response
    <3>5. Len(heard') = Len(heard) + 1
      BY <1>1, <1>3
    <3> HIDE DEF o, r
    <3>6. s \in Seq(Int) /\ SubSeq(Append(r, o), zeroed + 1, Len(r) + 1) = Append(s, o)
      BY <1>3, <3>1, <3>2, TailAppend
    <3> HIDE DEF s
    <3>7. Energy(Append(s, o)) = Energy(s) + o * o
      BY <3>2, <3>6, EnergyAppend
    <3> QED BY <1>1, <3>1, <3>2, <3>3, <3>4, <3>5, <3>6, <3>7
  <2> QED BY <2>1 DEF LeqIsEnergy, Response
<1> QED BY <1>6, <1>7, <1>8 DEF IInv

LEMMA LeqZeroed ==
  ASSUME IInv, ZeroLeq
  PROVE  IInv'
<1>1. Leq' = [f \in Bands |-> 0] /\ zeroed' = Len(heard) /\ sos' = sos /\ heard' = heard
  BY DEF ZeroLeq
<1>2. heard \in Seq(Int) /\ sos \in [Bands -> [Sections -> Registers]]
  BY DEF IInv, TypeOK
<1>3. TypeOK'
  <2>1. Len(heard) \in Nat
    BY <1>2
  <2>2. Leq' \in [Bands -> Int] /\ zeroed' \in 0 .. Len(heard')
    BY <1>1, <2>1
  <2> QED BY <1>1, <1>2, <2>2 DEF TypeOK
<1>4. Listening'
  BY <1>1 DEF IInv, Listening
<1>5. LeqIsEnergy'
  <2>1. ASSUME NEW f \in Bands
        PROVE  Leq'[f] = Energy(SubSeq(Signals(f, heard')[FILTER_ORDER], zeroed' + 1, Len(heard')))
    <3> DEFINE r == Signals(f, heard)[FILTER_ORDER]
    <3>1. r \in Seq(Int) /\ Len(heard) \in Nat
      BY <1>2, ResponseLength
    <3> HIDE DEF r
    <3>2. SubSeq(r, Len(heard) + 1, Len(heard)) = <<>>
      BY <3>1
    <3> QED BY <1>1, <3>2, EnergyEmpty DEF r
  <2> QED BY <2>1 DEF LeqIsEnergy, Response
<1> QED BY <1>3, <1>4, <1>5 DEF IInv

(* For every number of bands, order of filter, table and sample, however   *)
(* often Leq is zeroed in between: Leq is the energy, since it was zeroed, *)
(* of the response to everything heard since boot (helper_fcns.c:97-145).  *)
THEOREM LeqMeasures == Spec => []LeqIsEnergy
<1>1. Init => IInv
  BY StartsQuiet
<1>2. IInv /\ [Next]_vars => IInv'
  <2> SUFFICES ASSUME IInv, [Next]_vars PROVE IInv'
    OBVIOUS
  <2>1. ASSUME NEW u \in Samples, updateFilterBank(u) PROVE IInv'
    BY <2>1, SampleTaken
  <2>2. CASE ZeroLeq
    BY <2>2, LeqZeroed
  <2>3. CASE UNCHANGED vars
    BY <2>3 DEF vars, IInv, TypeOK, Listening, LeqIsEnergy, Response
  <2> QED BY <2>1, <2>2, <2>3 DEF Next
<1>3. IInv => LeqIsEnergy
  BY DEF IInv
<1> QED BY <1>1, <1>2, <1>3, PTL DEF Spec
=============================================================================
