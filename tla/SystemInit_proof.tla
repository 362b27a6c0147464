-------------------------- MODULE SystemInit_proof --------------------------
(***************************************************************************)
(* Proofs about SYS_Initialize and the system services: for every feature  *)
(* set, every pin mask and any number of calls, wherever an interrupt      *)
(* comes in between, registers keep their types; interrupts are off where  *)
(* they must be, and otherwise as the client left them; when a call        *)
(* returns every register is what was asked for, those behind SYSKEY too,  *)
(* whose writes are not lost but for IOLOCK's, which is open anyway; and   *)
(* the pins settle without a level that is not theirs.                     *)
(***************************************************************************)
EXTENDS SystemInit, SequenceTheorems, FiniteSetTheorems, TLAPS

(***************************************************************************)
(* What the rest of a program does.  A program leads from x to y when each *)
(* of its operations moves what is watched: the control, which every       *)
(* operation must be allowed by; one place of one register; or whether the *)
(* latches of a channel are known to be clear.                             *)
(***************************************************************************)
Control     == [watch |-> "control"]
Place(r, i) == [watch |-> "place", reg |-> r, at |-> i]
Latch(c)    == [watch |-> "latch", channel |-> c]

\* The control: between PLIB_INT_GetStateAndDisable and IfFlagEnable (inside); since
\* SYS_Initialize turned interrupts on (enabled); the first key written with
\* interrupts off (first); SYSKEY open for certain; the drivers initialised.
States == {x \in [inside : BOOLEAN, enabled : BOOLEAN, first : BOOLEAN, open : BOOLEAN,
                  ready : SUBSET (Drivers \union {"app"})] : x.first => x.inside}

Guarded == {"waitStates", "prefetch"}   \* changed with interrupts off only
Sealed  == Protected \ {"iolock"}       \* written with SYSKEY open only
Masked  == {"odc", "lat", "tris", "ansel", "cnEn", "cnPu", "cnPd"}
Pins    == (Channels \union {"none"}) \X Bits

\* A value of the type of the register r, and an access that leaves it with one.
OfType(r, v) ==
  /\ r = "pbDiv" => v \in 1 .. 128
  /\ r = "waitStates" => v \in 0 .. 7
  /\ r = "status" => v \in {"UNINITIALIZED", "READY"}
  /\ r = "pps" => v \in Pins
  /\ r = "sosc" => v \in BOOLEAN
  /\ r = "iolock" => v = FALSE
  /\ r \in Masked => v \subseteq Bits
Typed(o) == OfType(o.reg, o.value) /\ (o.op # "write" => o.reg \in Masked)

Controls == {"disable", "restore", "enable", "started", "key1", "key2", "lock"}
Allows(o, x, y) ==
  /\ x \in States /\ y \in States
  /\ o.op = "disable" => ~x.inside /\ y = [x EXCEPT !.inside = TRUE]
  /\ o.op = "restore" => x.inside /\ y = [x EXCEPT !.inside = FALSE, !.first = FALSE]
  /\ o.op = "enable"  => /\ ~x.inside /\ ~x.enabled /\ Drivers \subseteq x.ready
                         /\ y = [x EXCEPT !.enabled = TRUE]
  /\ o.op = "started" => y = [x EXCEPT !.ready = @ \union {o.driver}]
  /\ o.op = "key1" => y = [x EXCEPT !.first = x.inside, !.open = FALSE]
  /\ o.op = "key2" => y = [x EXCEPT !.first = FALSE, !.open = x.first]
  /\ o.op = "lock" => y = [x EXCEPT !.first = FALSE, !.open = FALSE]
  /\ o.op \notin Controls => y = x
  /\ o.op \in Accesses => /\ Typed(o)
                          /\ o.reg \in Guarded => x.inside
                          /\ o.reg \in Sealed => x.open

\* An access to register r at i.
At(o, r, i) == o.op \in Accesses /\ o.reg = r /\ o.at = i

\* The operation o takes what k watches from x to y.
Moves(k, o, x, y) ==
  /\ k.watch = "control" => Allows(o, x, y)
  /\ k.watch = "place" => y = IF At(o, k.reg, k.at) THEN NewValue(o, x) ELSE x
  /\ k.watch = "latch" =>
       /\ At(o, "lat", k.channel) => o.op = "write" /\ o.value = {} /\ y = TRUE
       /\ ~At(o, "lat", k.channel) => y = x
       /\ At(o, "tris", k.channel) => x = TRUE

\* The sequence q of operations leads from x to y, by way of f.
Run(k, f, q, x, y) ==
  /\ DOMAIN f = 1 .. Len(q) + 1 /\ f[1] = x /\ f[Len(q) + 1] = y
  /\ \A i \in 1 .. Len(q) : Moves(k, q[i], f[i], f[i + 1])
Leads(k, q, x, y) == (\E S : q \in Seq(S)) /\ \E f : Run(k, f, q, x, y)

LEMMA LeadsNothing ==
  ASSUME NEW k
  PROVE  /\ \A x : Leads(k, <<>>, x, x)
         /\ \A x, y : Leads(k, <<>>, x, y) => x = y
<1>1. ASSUME NEW x PROVE Leads(k, <<>>, x, x)
  <2> DEFINE f == [i \in 1 .. 1 |-> x]
  <2>1. <<>> \in Seq({}) /\ Len(<<>>) = 0
    OBVIOUS
  <2>2. Run(k, f, <<>>, x, x)
    BY <2>1 DEF Run
  <2> QED BY <2>1, <2>2 DEF Leads
<1>2. ASSUME NEW x, NEW y, Leads(k, <<>>, x, y) PROVE x = y
  <2>1. PICK f : Run(k, f, <<>>, x, y)
    BY <1>2 DEF Leads
  <2> QED BY <2>1 DEF Run
<1> QED BY <1>1, <1>2

LEMMA LeadsOne ==
  ASSUME NEW k, NEW o, NEW x, NEW y, Moves(k, o, x, y)
  PROVE  Leads(k, <<o>>, x, y)
<1> DEFINE f == [i \in 1 .. 2 |-> IF i = 1 THEN x ELSE y]
<1>1. <<o>> \in Seq({o}) /\ Len(<<o>>) = 1 /\ <<o>>[1] = o
  OBVIOUS
<1>2. f[1] = x /\ f[2] = y /\ DOMAIN f = 1 .. 2
  OBVIOUS
<1> HIDE DEF f
<1>3. Run(k, f, <<o>>, x, y)
  BY <1>1, <1>2 DEF Run
<1> QED BY <1>1, <1>3 DEF Leads

LEMMA LeadsBoth ==
  ASSUME NEW k, NEW s, NEW t, NEW x, NEW y, NEW z, Leads(k, s, x, y), Leads(k, t, y, z)
  PROVE  Leads(k, s \o t, x, z)
<1>1. PICK S, T, f, g : s \in Seq(S) /\ t \in Seq(T) /\ Run(k, f, s, x, y) /\ Run(k, g, t, y, z)
  BY DEF Leads
<1>2. PICK U : U = S \union T
  OBVIOUS
<1>3. s \in Seq(U) /\ t \in Seq(U)
  BY <1>1, <1>2, SeqDef
<1>4. PICK m, n \in Nat : m = Len(s) /\ n = Len(t)
  BY <1>3, LenProperties
<1>5. /\ s \o t \in Seq(U) /\ Len(s \o t) = m + n
      /\ \A i \in 1 .. m + n : (s \o t)[i] = IF i <= m THEN s[i] ELSE t[i - m]
  BY <1>3, <1>4, ConcatProperties
<1> DEFINE h == [i \in 1 .. (m + n) + 1 |-> IF i <= m + 1 THEN f[i] ELSE g[i - m]]
<1>6. /\ DOMAIN h = 1 .. (m + n) + 1
      /\ \A i \in 1 .. (m + n) + 1 : h[i] = IF i <= m + 1 THEN f[i] ELSE g[i - m]
  OBVIOUS
<1> HIDE DEF h
<1>7. /\ f[1] = x /\ f[m + 1] = y /\ g[1] = y /\ g[n + 1] = z
      /\ \A i \in 1 .. m : Moves(k, s[i], f[i], f[i + 1])
      /\ \A i \in 1 .. n : Moves(k, t[i], g[i], g[i + 1])
  BY <1>1, <1>4 DEF Run
<1>9. h[1] = x /\ h[(m + n) + 1] = z
  <2>1. 1 \in 1 .. (m + n) + 1 /\ 1 <= m + 1 /\ (m + n) + 1 \in 1 .. (m + n) + 1
    BY <1>4
  <2>2. CASE n = 0
    BY <1>4, <1>6, <1>7, <2>1, <2>2
  <2>3. CASE n # 0
    <3>1. ~((m + n) + 1 <= m + 1) /\ ((m + n) + 1) - m = n + 1
      BY <1>4, <2>3
    <3> QED BY <1>6, <1>7, <2>1, <3>1
  <2> QED BY <2>2, <2>3
<1>10. ASSUME NEW i \in 1 .. m + n PROVE Moves(k, (s \o t)[i], h[i], h[i + 1])
  <2>1. i \in 1 .. (m + n) + 1 /\ i + 1 \in 1 .. (m + n) + 1
    BY <1>4
  <2>2. CASE i <= m
    <3>1. i \in 1 .. m /\ i <= m + 1 /\ i + 1 <= m + 1
      BY <1>4, <2>2
    <3> QED BY <1>5, <1>6, <1>7, <2>1, <2>2, <3>1
  <2>3. CASE ~(i <= m)
    <3>1. i - m \in 1 .. n /\ (i + 1) - m = (i - m) + 1 /\ ~(i + 1 <= m + 1)
      BY <1>4, <2>3
    <3>2. (s \o t)[i] = t[i - m]
      BY <1>5, <2>3
    <3>4. h[i + 1] = g[(i + 1) - m]
      BY <1>6, <2>1, <3>1
    <3>3. h[i] = g[i - m]
      <4>1. CASE i = m + 1
        BY <1>4, <1>6, <1>7, <2>1, <4>1
      <4>2. CASE i # m + 1
        <5>1. ~(i <= m + 1)
          BY <1>4, <2>3, <4>2
        <5> QED BY <1>6, <2>1, <5>1
      <4> QED BY <4>1, <4>2
    <3> QED BY <1>7, <3>1, <3>2, <3>3, <3>4
  <2> QED BY <2>2, <2>3
<1>11. Run(k, h, s \o t, x, z)
  BY <1>5, <1>6, <1>9, <1>10 DEF Run
<1> QED BY <1>5, <1>11 DEF Leads

LEMMA LeadsFirst ==
  ASSUME NEW k, NEW q, NEW x, NEW z, Leads(k, q, x, z), q # <<>>
  PROVE  \E y : Moves(k, Head(q), x, y) /\ Leads(k, Tail(q), y, z)
<1>1. PICK S, f : q \in Seq(S) /\ Run(k, f, q, x, z)
  BY DEF Leads
<1>2. PICK n \in Nat \ {0} : n = Len(q)
  BY <1>1, EmptySeq
<1>3. /\ Head(q) = q[1] /\ Tail(q) \in Seq(S) /\ Len(Tail(q)) = n - 1
      /\ \A i \in 1 .. n - 1 : Tail(q)[i] = q[i + 1]
  BY <1>1, <1>2, HeadTailProperties
<1> DEFINE g == [i \in 1 .. (n - 1) + 1 |-> f[i + 1]]
<1>4. DOMAIN g = 1 .. (n - 1) + 1 /\ \A i \in 1 .. (n - 1) + 1 : g[i] = f[i + 1]
  OBVIOUS
<1> HIDE DEF g
<1>5. /\ f[1] = x /\ f[n + 1] = z
      /\ \A i \in 1 .. n : Moves(k, q[i], f[i], f[i + 1])
  BY <1>1, <1>2 DEF Run
<1>7. g[1] = f[2] /\ g[(n - 1) + 1] = z
  <2>1. 1 \in 1 .. (n - 1) + 1 /\ (n - 1) + 1 \in 1 .. (n - 1) + 1 /\ ((n - 1) + 1) + 1 = n + 1
    BY <1>2
  <2> QED BY <1>4, <1>5, <2>1
<1>8. ASSUME NEW i \in 1 .. n - 1 PROVE Moves(k, Tail(q)[i], g[i], g[i + 1])
  <2>1. /\ i \in 1 .. (n - 1) + 1 /\ i + 1 \in 1 .. (n - 1) + 1 /\ i + 1 \in 1 .. n
    BY <1>2
  <2> QED BY <1>3, <1>4, <1>5, <2>1
<1>9. Run(k, g, Tail(q), f[2], z)
  BY <1>3, <1>4, <1>7, <1>8 DEF Run
<1>10. 1 \in 1 .. n + 1 /\ 2 \in 1 .. n + 1 /\ 1 \in 1 .. n
  BY <1>2
<1>11. Moves(k, Head(q), x, f[2])
  BY <1>3, <1>5, <1>10
<1> QED BY <1>3, <1>9, <1>11 DEF Leads

-----------------------------------------------------------------------------
(* What a program does to the control.                                     *)

Takes(q, x, y) == Leads(Control, q, x, y)

LEMMA TakesRules ==
  /\ \A x : Takes(<<>>, x, x)
  /\ \A x, y : Takes(<<>>, x, y) => x = y
  /\ \A o, x, y : Allows(o, x, y) => Takes(<<o>>, x, y)
  /\ \A s, t, x, y, z : Takes(s, x, y) /\ Takes(t, y, z) => Takes(s \o t, x, z)
  /\ \A q, x, z : Takes(q, x, z) /\ q # <<>> =>
       \E y : Allows(Head(q), x, y) /\ Takes(Tail(q), y, z)
<1>1. Control.watch = "control"
  BY DEF Control
<1>2. \A o, x, y : Moves(Control, o, x, y) <=> Allows(o, x, y)
  BY <1>1 DEF Moves
<1> QED BY <1>2, LeadsNothing, LeadsOne, LeadsBoth, LeadsFirst DEF Takes

\* Services that leave the control as they find it, the keys included: those that
\* are called with SYSKEY open, or without it known to be.
SteadyAt(q, open) == \A x \in States : ~x.inside /\ x.open = open => Takes(q, x, x)
Steady(q) == SteadyAt(q, FALSE)

LEMMA SteadyAtRules ==
  ASSUME NEW open \in BOOLEAN
  PROVE  /\ SteadyAt(<<>>, open)
         /\ \A s, t : SteadyAt(s, open) /\ SteadyAt(t, open) => SteadyAt(s \o t, open)
         /\ \A o : /\ o.op \in Accesses /\ Typed(o) /\ o.reg \notin Guarded
                   /\ o.reg \in Sealed => open
                   => SteadyAt(<<o>>, open)
         /\ \A r, i, v : OfType(r, v) /\ r \notin Guarded /\ (r \in Sealed => open) =>
              SteadyAt(Write(r, i, v), open)
<1>1. SteadyAt(<<>>, open)
  BY TakesRules DEF SteadyAt
<1>2. \A s, t : SteadyAt(s, open) /\ SteadyAt(t, open) => SteadyAt(s \o t, open)
  BY TakesRules DEF SteadyAt
<1>3. ASSUME NEW o, o.op \in Accesses, Typed(o), o.reg \notin Guarded, o.reg \in Sealed => open
      PROVE  SteadyAt(<<o>>, open)
  <2>1. ASSUME NEW x \in States, x.open = open PROVE Allows(o, x, x)
    BY <1>3, <2>1 DEF Allows, Accesses, Controls
  <2> QED BY <2>1, TakesRules DEF SteadyAt
<1>4. ASSUME NEW r, NEW i, NEW v, OfType(r, v), r \notin Guarded, r \in Sealed => open
      PROVE  SteadyAt(Write(r, i, v), open)
  <2> DEFINE o == [op |-> "write", reg |-> r, at |-> i, value |-> v]
  <2>1. o.op = "write" /\ o.reg = r /\ o.value = v /\ Write(r, i, v) = <<o>>
    BY DEF Write
  <2> HIDE DEF o
  <2>2. o.op \in Accesses /\ Typed(o)
    BY <1>4, <2>1 DEF Accesses, Typed
  <2> QED BY <1>3, <1>4, <2>1, <2>2
<1> QED BY <1>1, <1>2, <1>3, <1>4

LEMMA SteadyRules ==
  /\ Steady(<<>>)
  /\ \A s, t : Steady(s) /\ Steady(t) => Steady(s \o t)
  /\ \A f, s : Steady(s) => Steady(IfExists(f, s))
  /\ \A r, i, v : OfType(r, v) /\ r \notin Guarded \union Sealed => Steady(Write(r, i, v))
  /\ \A r, i, v : r \in Masked /\ v \subseteq Bits =>
       Steady(SetBits(r, i, v)) /\ Steady(ClearBits(r, i, v)) /\ Steady(Invert(r, i, v))
<1>1. Steady(<<>>) /\ \A s, t : Steady(s) /\ Steady(t) => Steady(s \o t)
  BY SteadyAtRules DEF Steady
<1>2. \A f, s : Steady(s) => Steady(IfExists(f, s))
  BY <1>1 DEF IfExists
<1>3. \A r, i, v : OfType(r, v) /\ r \notin Guarded \union Sealed => Steady(Write(r, i, v))
  BY SteadyAtRules DEF Steady
<1>4. ASSUME NEW r \in Masked, NEW i, NEW v, v \subseteq Bits
      PROVE  Steady(SetBits(r, i, v)) /\ Steady(ClearBits(r, i, v)) /\ Steady(Invert(r, i, v))
  <2>1. r \notin Guarded /\ r \notin Sealed /\ OfType(r, v)
    BY <1>4 DEF Masked, Guarded, Sealed, Protected, OfType
  <2>2. ASSUME NEW o, o.op \in {"set", "clear", "invert"}, o.reg = r, o.value = v
        PROVE  Steady(<<o>>)
    <3>1. o.op \in Accesses /\ Typed(o)
      BY <2>1, <2>2 DEF Accesses, Typed
    <3> QED BY <2>1, <2>2, <3>1, SteadyAtRules DEF Steady
  <2> QED BY <2>2 DEF SetBits, ClearBits, Invert
<1> QED BY <1>1, <1>2, <1>3, <1>4

LEMMA WaitStatesType == \A sysclk : WaitStates(sysclk) \in 0 .. 7
<1> TAKE sysclk
<1> DEFINE above == {i \in 1..3 : sysclk > Limits[i]}
<1>0. IsFiniteSet(1 .. 3) /\ Cardinality(1 .. 3) = IF 1 > 3 THEN 0 ELSE 3 - 1 + 1
  BY 1 \in Int, 3 \in Int, FS_Interval, Zenon
<1>1. IsFiniteSet(1 .. 3) /\ Cardinality(1 .. 3) = 3
  BY <1>0
<1>2. IsFiniteSet(above) /\ Cardinality(above) <= Cardinality(1 .. 3)
  BY <1>1, FS_Subset
<1>3. Cardinality(above) \in Nat
  BY <1>2, FS_CardinalityType
<1> QED BY <1>1, <1>2, <1>3 DEF WaitStates


\* SYSKEY is opened with interrupts off, and so opens; it is locked again.
Opens(q) == \A x \in States : ~x.inside /\ x.open = FALSE =>
              \E y \in States : /\ ~y.inside /\ y.open = TRUE /\ Takes(q, x, y)
                                /\ Takes(SYS_DEVCON_SystemLock, y, x)

LEMMA SteadyOperations ==
  /\ \A n \in {"key1", "key2", "lock", "select", "wait", "asleep"} : Steady(Do(n))
  /\ \A r : Steady(Await(r))
  /\ Opens(SYS_DEVCON_SystemUnlock)
  /\ \A s, t : Opens(s) /\ SteadyAt(t, TRUE) => Opens(s \o t)
  /\ \A s : Opens(s) => Steady(s \o SYS_DEVCON_SystemLock)
  /\ \A sysclk : Steady(SYS_DEVCON_PerformanceConfig(sysclk))
<1>1. ASSUME NEW o, o.op \in {"key1", "key2", "lock", "select", "wait", "asleep", "await"} PROVE Steady(<<o>>)
  <2>1. ASSUME NEW x \in States, ~x.inside, x.open = FALSE PROVE Allows(o, x, x)
    <3>1. x.first = FALSE /\ x = [x EXCEPT !.first = FALSE, !.open = FALSE]
      BY <2>1 DEF States
    <3>2. x = [x EXCEPT !.first = x.inside, !.open = FALSE] /\ x = [x EXCEPT !.first = FALSE, !.open = x.first]
      BY <2>1, <3>1 DEF States
    <3> QED BY <1>1, <2>1, <3>1, <3>2 DEF Allows, Accesses, Controls
  <2> QED BY <2>1, TakesRules DEF Steady, SteadyAt
<1>2. \A n \in {"key1", "key2", "lock", "select", "wait", "asleep"} : Steady(Do(n))
  BY <1>1 DEF Do
<1>3. \A r : Steady(Await(r))
  BY <1>1 DEF Await
<1>4. ASSUME NEW x \in States, ~x.inside
      PROVE  Takes(PLIB_INT_GetStateAndDisable, x, [x EXCEPT !.inside = TRUE])
  <2>1. [x EXCEPT !.inside = TRUE] \in States
    BY <1>4 DEF States
  <2>2. \A o : o.op = "disable" => Allows(o, x, [x EXCEPT !.inside = TRUE])
    BY <1>4, <2>1 DEF Allows, Accesses, Controls
  <2> QED BY <2>2, TakesRules DEF PLIB_INT_GetStateAndDisable, Do
<1>5. ASSUME NEW x \in States, x.inside
      PROVE  Takes(IfFlagEnable, x, [x EXCEPT !.inside = FALSE, !.first = FALSE])
  <2>1. [x EXCEPT !.inside = FALSE, !.first = FALSE] \in States
    BY <1>5 DEF States
  <2>2. \A o : o.op = "restore" => Allows(o, x, [x EXCEPT !.inside = FALSE, !.first = FALSE])
    BY <1>5, <2>1 DEF Allows, Accesses, Controls
  <2> QED BY <2>2, TakesRules DEF IfFlagEnable, Do
<1>6. ASSUME NEW x \in States, NEW n \in {"key1", "key2", "lock"}, NEW y \in States,
             n = "key1" => y = [x EXCEPT !.first = x.inside, !.open = FALSE],
             n = "key2" => y = [x EXCEPT !.first = FALSE, !.open = x.first],
             n = "lock" => y = [x EXCEPT !.first = FALSE, !.open = FALSE]
      PROVE  Takes(Do(n), x, y)
  <2>1. \A o : o.op = n => Allows(o, x, y)
    BY <1>6 DEF Allows, Accesses, Controls
  <2> QED BY <2>1, TakesRules DEF Do
<1>7. ASSUME NEW x \in States, ~x.inside, x.open = FALSE
      PROVE  \E y \in States : /\ y = [x EXCEPT !.open = TRUE] /\ Takes(SYS_DEVCON_SystemUnlock, x, y)
                               /\ Takes(SYS_DEVCON_SystemLock, y, x)
  <2> DEFINE x1 == [x EXCEPT !.inside = TRUE]
             x2 == [x EXCEPT !.inside = TRUE, !.first = TRUE]
             x3 == [x EXCEPT !.inside = TRUE, !.open = TRUE]
             y  == [x EXCEPT !.open = TRUE]
  <2>1. x1 \in States /\ x2 \in States /\ x3 \in States /\ y \in States
    BY <1>7 DEF States
  <2>2. /\ x1.inside /\ x3.inside /\ ~y.inside /\ x.first = FALSE
        /\ x2 = [x1 EXCEPT !.first = x1.inside, !.open = FALSE]
        /\ x3 = [x2 EXCEPT !.first = FALSE, !.open = x2.first]
        /\ y = [x3 EXCEPT !.inside = FALSE, !.first = FALSE]
        /\ x3 = [y EXCEPT !.inside = TRUE]
        /\ x1 = [x3 EXCEPT !.first = FALSE, !.open = FALSE]
        /\ x = [x1 EXCEPT !.inside = FALSE, !.first = FALSE]
    BY <1>7 DEF States
  <2>3. Takes(PLIB_INT_GetStateAndDisable, x, x1) /\ Takes(PLIB_INT_GetStateAndDisable, y, x3)
    BY <1>4, <1>7, <2>1, <2>2
  <2>4. Takes(IfFlagEnable, x3, y) /\ Takes(IfFlagEnable, x1, x)
    <3> HIDE DEF x1, x2, x3, y
    <3>0. x3 \in States /\ x3.inside /\ y = [x3 EXCEPT !.inside = FALSE, !.first = FALSE]
      BY <2>1, <2>2
    <3>1. Takes(IfFlagEnable, x3, y)
      BY <1>5, <3>0
    <3>2. Takes(IfFlagEnable, x1, x)
      BY <1>5, <2>1, <2>2
    <3> QED BY <3>1, <3>2
  <2>5. Takes(Do("key1"), x1, x2) /\ Takes(Do("key2"), x2, x3) /\ Takes(Do("lock"), x3, x1)
    BY <1>6, <2>1, <2>2
  <2> HIDE DEF x1, x2, x3
  <2>6. Takes(SYS_DEVCON_SystemUnlock, x, y) /\ Takes(SYS_DEVCON_SystemLock, y, x)
    BY <2>3, <2>4, <2>5, TakesRules
       DEF SYS_DEVCON_SystemUnlock, SYS_DEVCON_SystemLock, PLIB_DEVCON_SystemUnlock, PLIB_DEVCON_SystemLock
  <2> QED BY <2>1, <2>6
<1>8. /\ Opens(SYS_DEVCON_SystemUnlock)
      /\ \A s, t : Opens(s) /\ SteadyAt(t, TRUE) => Opens(s \o t)
      /\ \A s : Opens(s) => Steady(s \o SYS_DEVCON_SystemLock)
  <2>1. Opens(SYS_DEVCON_SystemUnlock)
    <3> SUFFICES ASSUME NEW x \in States, ~x.inside, x.open = FALSE
                 PROVE  \E y \in States : /\ ~y.inside /\ y.open = TRUE
                                          /\ Takes(SYS_DEVCON_SystemUnlock, x, y)
                                          /\ Takes(SYS_DEVCON_SystemLock, y, x)
      BY DEF Opens
    <3>1. PICK y \in States : /\ y = [x EXCEPT !.open = TRUE] /\ Takes(SYS_DEVCON_SystemUnlock, x, y)
                              /\ Takes(SYS_DEVCON_SystemLock, y, x)
      BY <1>7
    <3>2. ~y.inside /\ y.open = TRUE
      BY <3>1 DEF States
    <3> QED BY <3>1, <3>2
  <2>2. \A s, t : Opens(s) /\ SteadyAt(t, TRUE) => Opens(s \o t)
    BY TakesRules DEF Opens, SteadyAt
  <2>3. \A s : Opens(s) => Steady(s \o SYS_DEVCON_SystemLock)
    BY TakesRules DEF Opens, Steady, SteadyAt
  <2> QED BY <2>1, <2>2, <2>3
<1>9. ASSUME NEW q, \A y \in States : y.inside => Takes(q, y, y)
      PROVE  Steady(PLIB_INT_GetStateAndDisable \o q \o IfFlagEnable)
  <2> SUFFICES ASSUME NEW x \in States, ~x.inside, x.open = FALSE
               PROVE  Takes(PLIB_INT_GetStateAndDisable \o q \o IfFlagEnable, x, x)
    BY DEF Steady, SteadyAt
  <2> DEFINE y == [x EXCEPT !.inside = TRUE]
  <2>1. y \in States /\ y.inside /\ x = [y EXCEPT !.inside = FALSE, !.first = FALSE]
    BY DEF States
  <2>2. Takes(PLIB_INT_GetStateAndDisable, x, y)
    BY <1>4
  <2> HIDE DEF y
  <2> QED BY <1>5, <1>9, <2>1, <2>2, TakesRules
<1>10. ASSUME NEW sysclk PROVE Steady(SYS_DEVCON_PerformanceConfig(sysclk))
  <2>1. WaitStates(sysclk) \in 0 .. 7
    BY WaitStatesType
  <2>2. ASSUME NEW y \in States, y.inside, NEW r \in Guarded, NEW v, OfType(r, v)
        PROVE  Takes(Write(r, 1, v), y, y)
    <3> DEFINE o == [op |-> "write", reg |-> r, at |-> 1, value |-> v]
    <3>1. o.op = "write" /\ o.reg = r /\ o.value = v /\ Write(r, 1, v) = <<o>>
      BY DEF Write
    <3> HIDE DEF o
    <3>2. Allows(o, y, y)
      BY <2>2, <3>1 DEF Allows, Accesses, Controls, Typed, Guarded, Sealed, Protected
    <3> QED BY <3>1, <3>2, TakesRules
  <2>3. OfType("waitStates", WaitStates(sysclk)) /\ OfType("prefetch", TRUE)
    BY <2>1 DEF OfType, Masked
  <2> DEFINE W == Write("waitStates", 1, WaitStates(sysclk))
             P == IfExists("PrefetchEnable", Write("prefetch", 1, TRUE))
             G == PLIB_INT_GetStateAndDisable \o W \o IfFlagEnable
  <2>4. ASSUME NEW y \in States, y.inside PROVE Takes(W, y, y) /\ Takes(P, y, y)
    BY <2>2, <2>3, <2>4, TakesRules DEF IfExists, Guarded
  <2> HIDE DEF W, P
  <2>5. Steady(G) /\ Steady(PLIB_INT_GetStateAndDisable \o P \o IfFlagEnable)
    BY <1>9, <2>4
  <2>6. SYS_DEVCON_PerformanceConfig(sysclk) =
          IfExists("WaitState", G) \o PLIB_INT_GetStateAndDisable \o P \o IfFlagEnable
    BY DEF SYS_DEVCON_PerformanceConfig, W, P
  <2> HIDE DEF G
  <2>8. Steady(IfExists("WaitState", G))
    BY <2>5, SteadyRules
  <2>9. \A x \in States : /\ ~x.inside /\ x.open = FALSE =>
                             /\ Takes(IfExists("WaitState", G), x, x)
                             /\ \E y \in States : /\ Takes(PLIB_INT_GetStateAndDisable, x, y) /\ Takes(P, y, y)
                                                  /\ Takes(IfFlagEnable, y, x)
    <3> SUFFICES ASSUME NEW x \in States, ~x.inside, x.open = FALSE
                 PROVE  \E y \in States : /\ Takes(PLIB_INT_GetStateAndDisable, x, y) /\ Takes(P, y, y)
                                          /\ Takes(IfFlagEnable, y, x)
      BY <2>8 DEF Steady, SteadyAt
    <3> DEFINE y == [x EXCEPT !.inside = TRUE]
    <3>1. y \in States /\ y.inside /\ x = [y EXCEPT !.inside = FALSE, !.first = FALSE]
      BY DEF States
    <3>2. Takes(PLIB_INT_GetStateAndDisable, x, y)
      BY <1>4
    <3> HIDE DEF y
    <3> QED BY <1>5, <2>4, <3>1, <3>2
  <2>10. \A x \in States : ~x.inside /\ x.open = FALSE => Takes(SYS_DEVCON_PerformanceConfig(sysclk), x, x)
    BY <2>6, <2>9, TakesRules
  <2> QED BY <2>10 DEF Steady, SteadyAt
<1> QED BY <1>2, <1>3, <1>8, <1>10

LEMMA SteadyDevcon ==
  /\ Steady(SYS_DEVCON_Initialize) /\ Steady(SYS_DEVCON_Reinitialize)
  /\ \A mode : Steady(SYS_DEVCON_PowerModeEnter(mode))
<1>1. \A v \in {"READY", "UNINITIALIZED"} : Steady(Write("status", 1, v)) /\ Steady(Write("state", 1, v))
  BY SteadyRules DEF OfType, Masked, Guarded, Sealed, Protected
<1>2. Steady(SYS_DEVCON_Initialize) /\ Steady(SYS_DEVCON_Reinitialize)
  BY <1>1, SteadyRules DEF SYS_DEVCON_Initialize, SYS_DEVCON_Reinitialize
<1>3. ASSUME NEW mode PROVE Steady(SYS_DEVCON_PowerModeEnter(mode))
  <2>1. SteadyAt(Write("onWait", 1, mode), TRUE)
    BY SteadyAtRules DEF OfType, Masked, Guarded
  <2> QED BY <2>1, SteadyRules, SteadyOperations DEF SYS_DEVCON_PowerModeEnter
<1> QED BY <1>2, <1>3

LEMMA SteadyClock ==
  /\ Steady(SYS_CLK_Initialize)
  /\ Steady(SYS_CLK_SecondaryOscillatorEnable) /\ Steady(SYS_CLK_SecondaryOscillatorDisable)
<1> DEFINE Opened(q) == SteadyAt(q, TRUE)
<1>1. \A s, t : Opened(s) /\ Opened(t) => Opened(s \o t)
  BY SteadyAtRules
<1>2. \A r \in {"frcDiv", "pbOn", "refBase", "refDiv", "refTrim", "refOn", "refOut"} : \A i, v :
        Opened(Write(r, i, v))
  BY SteadyAtRules DEF OfType, Masked, Guarded
<1>3. \A v \in BOOLEAN : Opened(Write("sosc", 1, v))
  BY SteadyAtRules DEF OfType, Masked, Guarded
<1>4. \A b, d : d \in 1 .. 128 => Opened(Write("pbDiv", b, d))
  BY SteadyAtRules DEF OfType, Masked, Guarded
<1> HIDE DEF Opened
<1>5. \A b, d : d \in 1 .. 128 => Opened(Bus(b, d))
  BY <1>1, <1>2, <1>4 DEF Bus
<1>6. \A r : Opened(Silence(r))
  BY <1>1, <1>2 DEF Silence
<1>7. Steady(SYS_CLK_Initialize)
  <2> DEFINE q1 == SYS_DEVCON_SystemUnlock \o Write("frcDiv", 1, 1)
                   \o Bus(1, 2) \o Bus(2, 2) \o Bus(3, 2) \o Bus(4, 2) \o Bus(5, 2) \o Bus(7, 1) \o Bus(8, 2)
             q2 == q1 \o Write("refBase", 1, "SYSCLK") \o Write("refDiv", 1, 19)
                      \o Write("refTrim", 1, 272) \o Write("refOn", 1, TRUE) \o Write("refOut", 1, FALSE)
  <2>1. \A s, t : Opens(s) /\ Opened(t) => Opens(s \o t)
    BY SteadyOperations DEF Opened
  <2>2. Opens(q1)
    <3>1. Opens(SYS_DEVCON_SystemUnlock) /\ Opened(Write("frcDiv", 1, 1))
      BY <1>2, SteadyOperations
    <3> QED BY <1>5, <2>1, <3>1
  <2> HIDE DEF q1
  <2>3. Opens(q2)
    <3>1. /\ Opened(Write("refBase", 1, "SYSCLK")) /\ Opened(Write("refDiv", 1, 19))
          /\ Opened(Write("refTrim", 1, 272)) /\ Opened(Write("refOn", 1, TRUE))
          /\ Opened(Write("refOut", 1, FALSE))
      <4>1. ASSUME NEW r \in {"refBase", "refDiv", "refTrim", "refOn", "refOut"}, NEW v
            PROVE  Opened(Write(r, 1, v))
        BY <1>2
      <4> QED BY <4>1
    <3>2. Opens(q1 \o Write("refBase", 1, "SYSCLK"))
      BY <2>1, <2>2, <3>1
    <3>3. Opens(q1 \o Write("refBase", 1, "SYSCLK") \o Write("refDiv", 1, 19))
      BY <2>1, <3>1, <3>2
    <3>4. Opens(q1 \o Write("refBase", 1, "SYSCLK") \o Write("refDiv", 1, 19) \o Write("refTrim", 1, 272))
      BY <2>1, <3>1, <3>3
    <3> QED BY <2>1, <3>1, <3>4
  <2>4. SYS_CLK_Initialize = q2 \o Silence(2) \o Silence(3) \o Silence(4) \o SYS_DEVCON_SystemLock
    BY DEF SYS_CLK_Initialize, q1
  <2> HIDE DEF q2
  <2>5. Opens(q2 \o Silence(2) \o Silence(3) \o Silence(4))
    BY <1>6, <2>1, <2>3
  <2> QED BY <2>4, <2>5, SteadyOperations
<1>8. \A v \in BOOLEAN : Steady(SYS_DEVCON_SystemUnlock \o Write("sosc", 1, v) \o SYS_DEVCON_SystemLock)
  BY <1>3, SteadyOperations DEF Opened
<1> QED BY <1>7, <1>8, SteadyRules
        DEF SYS_CLK_SecondaryOscillatorEnable, SYS_CLK_SecondaryOscillatorDisable

LEMMA SteadyConverter == Steady(DRV_ADC_Initialize)
<1>1. \A r \in {"adcSource", "adcCalibrated", "adcOn", "adcAnalog"} : \A v : Steady(Write(r, 1, v))
  BY SteadyRules DEF OfType, Masked, Guarded, Sealed, Protected
<1> QED BY <1>1, SteadyRules, SteadyOperations DEF DRV_ADC_Initialize

LEMMA SteadyPorts == Steady(SYS_PORTS_Initialize)
<1>1. \A r \in Masked : \A i, v : v \subseteq Bits => /\ Steady(SetBits(r, i, v)) /\ Steady(ClearBits(r, i, v))
                                                 /\ Steady(Write(r, i, v))
  BY SteadyRules DEF OfType, Masked, Guarded, Sealed, Protected
<1>2. \A i, v : Steady(Write("cnOn", i, v))
  BY SteadyRules DEF OfType, Masked, Guarded, Sealed, Protected
<1>3. \A n : BitsOf(n) \subseteq Bits
  BY DEF BitsOf
<1>4. \A c \in Channels : Zero[c] \subseteq Bits /\ PullUp[c] \subseteq Bits
  BY <1>3 DEF Zero, PullUp
<1>5. ASSUME NEW c \in Channels PROVE Steady(ChannelInitialize(c))
  BY <1>1, <1>2, <1>4, SteadyRules DEF ChannelInitialize, Masked
<1>6. \A f, v : v \in Pins => Steady(PLIB_PORTS_Remap(f, v))
  BY SteadyRules DEF OfType, Masked, Guarded, Sealed, Protected, PLIB_PORTS_Remap
<1>7. /\ Remapped.U2RX \in Pins /\ Remapped.U1RX \in Pins /\ Remapped.SDI2 \in Pins
      /\ Remapped.U2TX \in Pins /\ Remapped.U1TX \in Pins /\ Remapped.SS2 \in Pins
  BY DEF Remapped, Pins, Channels, Bits
<1> QED BY <1>5, <1>6, <1>7, SteadyRules DEF SYS_PORTS_Initialize, Channels

-----------------------------------------------------------------------------
(* What a program does to one place of a register.                         *)

Turns(q, r, i, v, w) == Leads(Place(r, i), q, v, w)

LEMMA TurnsRules ==
  ASSUME NEW r, NEW i
  PROVE  /\ \A v : Turns(<<>>, r, i, v, v)
         /\ \A v, w : Turns(<<>>, r, i, v, w) => v = w
         /\ \A o, v : Turns(<<o>>, r, i, v, IF At(o, r, i) THEN NewValue(o, v) ELSE v)
         /\ \A s, t, u, v, w : Turns(s, r, i, u, v) /\ Turns(t, r, i, v, w) => Turns(s \o t, r, i, u, w)
         /\ \A q, v, w : Turns(q, r, i, v, w) /\ q # <<>> =>
              Turns(Tail(q), r, i, IF At(Head(q), r, i) THEN NewValue(Head(q), v) ELSE v, w)
<1> DEFINE k == Place(r, i)
<1>1. k.watch = "place" /\ k.reg = r /\ k.at = i
  BY DEF Place
<1> HIDE DEF k
<1>2. \A o, v, w : Moves(k, o, v, w) <=> w = IF At(o, r, i) THEN NewValue(o, v) ELSE v
  BY <1>1 DEF Moves
<1>3. \A o, v, w : Moves(k, o, v, w) => Leads(k, <<o>>, v, w)
  BY LeadsOne
<1>4. \A q, v, w : Leads(k, q, v, w) /\ q # <<>> => \E u : Moves(k, Head(q), v, u) /\ Leads(k, Tail(q), u, w)
  BY LeadsFirst
<1>5. /\ \A v : Leads(k, <<>>, v, v)
      /\ \A v, w : Leads(k, <<>>, v, w) => v = w
      /\ \A s, t, u, v, w : Leads(k, s, u, v) /\ Leads(k, t, v, w) => Leads(k, s \o t, u, w)
  BY LeadsNothing, LeadsBoth
<1>6. \A o, v : Leads(k, <<o>>, v, IF At(o, r, i) THEN NewValue(o, v) ELSE v)
  BY <1>2, <1>3
<1>7. \A q, v, w : Leads(k, q, v, w) /\ q # <<>> =>
        Leads(k, Tail(q), IF At(Head(q), r, i) THEN NewValue(Head(q), v) ELSE v, w)
  BY <1>2, <1>4
<1> QED BY <1>5, <1>6, <1>7 DEF Turns, k

\* The operations.
LEMMA TurnsOperations ==
  ASSUME NEW r, NEW i
  PROVE  /\ \A n, v : n \notin Accesses => Turns(Do(n), r, i, v, v)
         /\ \A s, v : Turns(Await(s), r, i, v, v) /\ Turns(Started(s), r, i, v, v)
         /\ \A s, j, u, v : Turns(Write(s, j, u), r, i, v, IF s = r /\ j = i THEN u ELSE v)
         /\ \A s, j, u, v : Turns(SetBits(s, j, u), r, i, v, IF s = r /\ j = i THEN v \union u ELSE v)
         /\ \A s, j, u, v : Turns(ClearBits(s, j, u), r, i, v, IF s = r /\ j = i THEN v \ u ELSE v)
         /\ \A s, j, u, v : Turns(Invert(s, j, u), r, i, v,
                                  IF s = r /\ j = i THEN (v \ u) \union (u \ v) ELSE v)
<1>1. ASSUME NEW o, o.op \notin Accesses, NEW v PROVE Turns(<<o>>, r, i, v, v)
  <2>1. ~At(o, r, i)
    BY <1>1 DEF At
  <2> QED BY <2>1, TurnsRules
<1>2. ASSUME NEW o, NEW v, NEW w, w = IF At(o, r, i) THEN NewValue(o, v) ELSE v
      PROVE  Turns(<<o>>, r, i, v, w)
  BY <1>2, TurnsRules
<1>3. \A n, v : n \notin Accesses => Turns(Do(n), r, i, v, v)
  BY <1>1 DEF Do
<1>4. \A s, v : Turns(Await(s), r, i, v, v) /\ Turns(Started(s), r, i, v, v)
  BY <1>1 DEF Await, Started, Accesses
<1>5. ASSUME NEW o, NEW s, NEW j, NEW u, NEW v, o.reg = s, o.at = j, o.value = u
      PROVE  /\ o.op = "write"  => Turns(<<o>>, r, i, v, IF s = r /\ j = i THEN u ELSE v)
             /\ o.op = "set"    => Turns(<<o>>, r, i, v, IF s = r /\ j = i THEN v \union u ELSE v)
             /\ o.op = "clear"  => Turns(<<o>>, r, i, v, IF s = r /\ j = i THEN v \ u ELSE v)
             /\ o.op = "invert" => Turns(<<o>>, r, i, v,
                                         IF s = r /\ j = i THEN (v \ u) \union (u \ v) ELSE v)
  <2>1. o.op \in Accesses => (At(o, r, i) <=> s = r /\ j = i)
    BY <1>5 DEF At
  <2>2. /\ o.op = "write"  => NewValue(o, v) = u
        /\ o.op = "set"    => NewValue(o, v) = v \union u
        /\ o.op = "clear"  => NewValue(o, v) = v \ u
        /\ o.op = "invert" => NewValue(o, v) = (v \ u) \union (u \ v)
    BY <1>5 DEF NewValue
  <2> QED BY <1>2, <2>1, <2>2 DEF Accesses
<1>6. ASSUME NEW s, NEW j, NEW u, NEW v
      PROVE  /\ Turns(Write(s, j, u), r, i, v, IF s = r /\ j = i THEN u ELSE v)
             /\ Turns(SetBits(s, j, u), r, i, v, IF s = r /\ j = i THEN v \union u ELSE v)
             /\ Turns(ClearBits(s, j, u), r, i, v, IF s = r /\ j = i THEN v \ u ELSE v)
             /\ Turns(Invert(s, j, u), r, i, v, IF s = r /\ j = i THEN (v \ u) \union (u \ v) ELSE v)
  <2>1. Turns(Write(s, j, u), r, i, v, IF s = r /\ j = i THEN u ELSE v)
    BY <1>5 DEF Write
  <2>2. Turns(SetBits(s, j, u), r, i, v, IF s = r /\ j = i THEN v \union u ELSE v)
    BY <1>5 DEF SetBits
  <2>3. Turns(ClearBits(s, j, u), r, i, v, IF s = r /\ j = i THEN v \ u ELSE v)
    BY <1>5 DEF ClearBits
  <2>4. Turns(Invert(s, j, u), r, i, v, IF s = r /\ j = i THEN (v \ u) \union (u \ v) ELSE v)
    BY <1>5 DEF Invert
  <2> QED BY <2>1, <2>2, <2>3, <2>4
<1> QED BY <1>3, <1>4, <1>6

LEMMA TurnsThen ==
  \A r, i, s, t, u, v, w : Turns(s, r, i, u, v) /\ Turns(t, r, i, v, w) => Turns(s \o t, r, i, u, w)
BY TurnsRules

LEMMA TurnsWrite ==
  \A r, i, s, j, u, v : Turns(Write(s, j, u), r, i, v, IF s = r /\ j = i THEN u ELSE v)
BY TurnsOperations

\* The programs that touch no register but those of R.
Only(q, R) == \A r, i, v : r \notin R => Turns(q, r, i, v, v)

LEMMA OnlyRules ==
  /\ \A R : Only(<<>>, R)
  /\ \A s, t, R : Only(s, R) /\ Only(t, R) => Only(s \o t, R)
  /\ \A f, s, R : Only(s, R) => Only(IfExists(f, s), R)
  /\ \A n, R : n \notin Accesses => Only(Do(n), R)
  /\ \A s, R : Only(Await(s), R) /\ Only(Started(s), R)
  /\ \A r, i, v, R : r \in R => /\ Only(Write(r, i, v), R) /\ Only(SetBits(r, i, v), R)
                                /\ Only(ClearBits(r, i, v), R) /\ Only(Invert(r, i, v), R)
  /\ \A q, R, S : Only(q, R) /\ R \subseteq S => Only(q, S)
<1>1. \A R : Only(<<>>, R)
  BY TurnsRules DEF Only
<1>2. \A s, t, R : Only(s, R) /\ Only(t, R) => Only(s \o t, R)
  BY TurnsRules DEF Only
<1>3. \A f, s, R : Only(s, R) => Only(IfExists(f, s), R)
  BY <1>1 DEF IfExists
<1>4. \A n, R : n \notin Accesses => Only(Do(n), R)
  BY TurnsOperations DEF Only
<1>5. \A s, R : Only(Await(s), R) /\ Only(Started(s), R)
  BY TurnsOperations DEF Only
<1>6. ASSUME NEW R, NEW r \in R, NEW i, NEW v, NEW s, s \notin R, NEW j, NEW w
      PROVE  /\ Turns(Write(r, i, v), s, j, w, w) /\ Turns(SetBits(r, i, v), s, j, w, w)
             /\ Turns(ClearBits(r, i, v), s, j, w, w) /\ Turns(Invert(r, i, v), s, j, w, w)
  <2>1. r # s
    BY <1>6
  <2> QED BY <2>1, TurnsOperations
<1>7. \A r, i, v, R : r \in R => /\ Only(Write(r, i, v), R) /\ Only(SetBits(r, i, v), R)
                                /\ Only(ClearBits(r, i, v), R) /\ Only(Invert(r, i, v), R)
  <2> SUFFICES ASSUME NEW R, NEW r \in R, NEW i, NEW v
               PROVE  /\ Only(Write(r, i, v), R) /\ Only(SetBits(r, i, v), R)
                      /\ Only(ClearBits(r, i, v), R) /\ Only(Invert(r, i, v), R)
    OBVIOUS
  <2>1. Only(Write(r, i, v), R) /\ Only(SetBits(r, i, v), R)
    BY <1>6 DEF Only
  <2>2. Only(ClearBits(r, i, v), R) /\ Only(Invert(r, i, v), R)
    BY <1>6 DEF Only
  <2> QED BY <2>1, <2>2
<1>8. \A q, R, S : Only(q, R) /\ R \subseteq S => Only(q, S)
  BY DEF Only
<1> QED BY <1>1, <1>2, <1>3, <1>4, <1>5, <1>7, <1>8

-----------------------------------------------------------------------------
(* What the parts of SYS_Initialize leave in the registers.                *)

ClockSettings == {"frcDiv", "pbDiv", "pbOn", "refBase", "refDiv", "refTrim", "refOn", "refOut"}

LEMMA KeysOnly ==
  /\ Only(SYS_DEVCON_SystemUnlock, {}) /\ Only(SYS_DEVCON_SystemLock, {})
  /\ Only(PLIB_DEVCON_SystemUnlock, {})
<1>1. \A n \in {"key1", "key2", "lock", "disable", "restore"} : Only(Do(n), {})
  BY OnlyRules DEF Accesses
<1> QED BY <1>1, OnlyRules
        DEF SYS_DEVCON_SystemUnlock, SYS_DEVCON_SystemLock, PLIB_DEVCON_SystemUnlock,
            PLIB_DEVCON_SystemLock, PLIB_INT_GetStateAndDisable, IfFlagEnable

LEMMA BusTurns ==
  ASSUME NEW b, NEW d
  PROVE  /\ Only(Bus(b, d), {"pbDiv", "pbOn"})
         /\ \A i, v : /\ Turns(Bus(b, d), "pbDiv", i, v, IF i = b THEN d ELSE v)
                      /\ Turns(Bus(b, d), "pbOn", i, v, IF i = b THEN TRUE ELSE v)
<1> DEFINE W == Write("pbDiv", b, d)
           O == Write("pbOn", b, TRUE)
           R == {"pbDiv", "pbOn"}
<1>1. Only(W, R) /\ Only(O, R)
  <2>1. "pbDiv" \in R /\ "pbOn" \in R
    OBVIOUS
  <2> HIDE DEF R
  <2> QED BY <2>1, OnlyRules
<1>2. /\ \A i, v : Turns(W, "pbDiv", i, v, IF i = b THEN d ELSE v) /\ Turns(O, "pbDiv", i, v, v)
      /\ \A i, v : Turns(O, "pbOn", i, v, IF i = b THEN TRUE ELSE v) /\ Turns(W, "pbOn", i, v, v)
  BY TurnsOperations
<1>4. Bus(b, d) = W \o O
  BY DEF Bus
<1> HIDE DEF W, O, R
<1>5. Only(W \o O, R)
  BY <1>1, OnlyRules
<1>6. ASSUME NEW i, NEW v
      PROVE  /\ Turns(W \o O, "pbDiv", i, v, IF i = b THEN d ELSE v)
             /\ Turns(W \o O, "pbOn", i, v, IF i = b THEN TRUE ELSE v)
  BY <1>2, TurnsRules
<1> QED BY <1>4, <1>5, <1>6 DEF R

\* All buses but the sixth, after what does not touch them.
LEMMA BusesTurn ==
  ASSUME NEW q, NEW R, Only(q, R), "pbDiv" \notin R, "pbOn" \notin R, NEW p,
         p = q \o Bus(1, 2) \o Bus(2, 2) \o Bus(3, 2) \o Bus(4, 2) \o Bus(5, 2) \o Bus(7, 1) \o Bus(8, 2)
  PROVE  /\ Only(p, R \union {"pbDiv", "pbOn"})
         /\ \A r \in R : \A i, v, w : Turns(q, r, i, v, w) => Turns(p, r, i, v, w)
         /\ \A b \in Buses : \A v :
              /\ Turns(p, "pbDiv", b, v, IF b = 6 THEN v ELSE IF b = 7 THEN 1 ELSE 2)
              /\ Turns(p, "pbOn", b, v, IF b = 6 THEN v ELSE TRUE)
<1>1. \A b, d : Only(Bus(b, d), {"pbDiv", "pbOn"})
  BY BusTurns
<1>2. Only(p, R \union {"pbDiv", "pbOn"})
  <2> DEFINE S == R \union {"pbDiv", "pbOn"}
  <2>1. Only(q, S) /\ \A b, d : Only(Bus(b, d), S)
    <3>1. R \subseteq S /\ {"pbDiv", "pbOn"} \subseteq S
      OBVIOUS
    <3> HIDE DEF S
    <3> QED BY <1>1, <3>1, OnlyRules
  <2> HIDE DEF S
  <2>2. Only(p, S)
    BY <2>1, OnlyRules
  <2> QED BY <2>2 DEF S
<1>3. ASSUME NEW r \in R, NEW i, NEW v, NEW w, Turns(q, r, i, v, w) PROVE Turns(p, r, i, v, w)
  <2>1. \A b, d : Turns(Bus(b, d), r, i, w, w)
    BY <1>1 DEF Only
  <2>2. Turns(q \o Bus(1, 2) \o Bus(2, 2) \o Bus(3, 2), r, i, v, w)
    BY <1>3, <2>1, TurnsThen
  <2> QED BY <2>1, <2>2, TurnsThen
<1>4. ASSUME NEW r \in {"pbDiv", "pbOn"}, NEW b \in Buses, NEW v, NEW one, NEW two,
             \A c, w : Turns(Bus(c, 2), r, b, w, IF b = c THEN two ELSE w),
             \A c, w : Turns(Bus(c, 1), r, b, w, IF b = c THEN one ELSE w)
      PROVE  Turns(p, r, b, v, IF b = 6 THEN v ELSE IF b = 7 THEN one ELSE two)
  <2>1. Turns(q, r, b, v, v)
    BY DEF Only
  <2> DEFINE T(c, w) == IF b = c THEN two ELSE w
             O(c, w) == IF b = c THEN one ELSE w
  <2>2. /\ \A c, w : Turns(Bus(c, 2), r, b, w, T(c, w))
        /\ \A c, w : Turns(Bus(c, 1), r, b, w, O(c, w))
    BY <1>4
  <2>3. T(8, O(7, T(5, T(4, T(3, T(2, T(1, v)))))))
          = IF b = 6 THEN v ELSE IF b = 7 THEN one ELSE two
    <3>1. b = 1 \/ b = 2 \/ b = 3 \/ b = 4 \/ b = 5 \/ b = 6 \/ b = 7 \/ b = 8
      BY DEF Buses
    <3> QED BY <3>1
  <2> HIDE DEF T, O
  <2>4. Turns(p, r, b, v, T(8, O(7, T(5, T(4, T(3, T(2, T(1, v))))))))
    <3>0. \A s, t, u, w, x : Turns(s, r, b, u, w) /\ Turns(t, r, b, w, x) => Turns(s \o t, r, b, u, x)
      BY TurnsRules
    <3>1. ASSUME NEW s, NEW u, NEW w, Turns(s, r, b, u, w), NEW c
          PROVE  Turns(s \o Bus(c, 2), r, b, u, T(c, w)) /\ Turns(s \o Bus(c, 1), r, b, u, O(c, w))
      BY <2>2, <3>0, <3>1
    <3>2. Turns(q \o Bus(1, 2) \o Bus(2, 2) \o Bus(3, 2), r, b, v, T(3, T(2, T(1, v))))
      BY <2>1, <3>1
    <3>3. Turns(q \o Bus(1, 2) \o Bus(2, 2) \o Bus(3, 2) \o Bus(4, 2) \o Bus(5, 2), r, b, v,
                T(5, T(4, T(3, T(2, T(1, v))))))
      BY <3>1, <3>2
    <3> QED BY <3>1, <3>3
  <2> QED BY <2>3, <2>4
<1>5. ASSUME NEW b \in Buses, NEW v
      PROVE  /\ Turns(p, "pbDiv", b, v, IF b = 6 THEN v ELSE IF b = 7 THEN 1 ELSE 2)
             /\ Turns(p, "pbOn", b, v, IF b = 6 THEN v ELSE TRUE)
  <2>1. \A d, c, w : /\ Turns(Bus(c, d), "pbDiv", b, w, IF b = c THEN d ELSE w)
                     /\ Turns(Bus(c, d), "pbOn", b, w, IF b = c THEN TRUE ELSE w)
    BY BusTurns
  <2>2. Turns(p, "pbDiv", b, v, IF b = 6 THEN v ELSE IF b = 7 THEN 1 ELSE 2)
    BY <1>4, <2>1
  <2>3. Turns(p, "pbOn", b, v, IF b = 6 THEN v ELSE IF b = 7 THEN TRUE ELSE TRUE)
    BY <1>4, <2>1
  <2> QED BY <2>2, <2>3
<1> QED BY <1>2, <1>3, <1>5

LEMMA SilenceTurns ==
  ASSUME NEW c
  PROVE  /\ Only(Silence(c), {"refOn", "refOut"})
         /\ \A r \in {"refOn", "refOut"} : \A i, v : Turns(Silence(c), r, i, v, IF i = c THEN FALSE ELSE v)
<1> DEFINE N == Write("refOn", c, FALSE)
           O == Write("refOut", c, FALSE)
           R == {"refOn", "refOut"}
<1>1. Only(N, R) /\ Only(O, R)
  <2>1. "refOn" \in R /\ "refOut" \in R
    OBVIOUS
  <2> HIDE DEF R
  <2> QED BY <2>1, OnlyRules
<1>2. /\ \A i, v : Turns(N, "refOn", i, v, IF i = c THEN FALSE ELSE v) /\ Turns(O, "refOn", i, v, v)
      /\ \A i, v : Turns(O, "refOut", i, v, IF i = c THEN FALSE ELSE v) /\ Turns(N, "refOut", i, v, v)
  BY TurnsOperations
<1>3. Silence(c) = N \o O
  BY DEF Silence
<1> HIDE DEF N, O, R
<1>4. Only(N \o O, R)
  BY <1>1, OnlyRules
<1>5. ASSUME NEW i, NEW v
      PROVE  /\ Turns(N \o O, "refOn", i, v, IF i = c THEN FALSE ELSE v)
             /\ Turns(N \o O, "refOut", i, v, IF i = c THEN FALSE ELSE v)
  BY <1>2, TurnsRules
<1> QED BY <1>3, <1>4, <1>5 DEF R

LEMMA ClockTurns ==
  /\ Only(SYS_CLK_Initialize, ClockSettings)
  /\ \A v : /\ Turns(SYS_CLK_Initialize, "frcDiv", 1, v, 1)
            /\ Turns(SYS_CLK_Initialize, "refBase", 1, v, "SYSCLK")
            /\ Turns(SYS_CLK_Initialize, "refDiv", 1, v, 19)
            /\ Turns(SYS_CLK_Initialize, "refTrim", 1, v, 272)
  /\ \A b \in Buses : \A v :
       /\ Turns(SYS_CLK_Initialize, "pbDiv", b, v, IF b = 6 THEN v ELSE IF b = 7 THEN 1 ELSE 2)
       /\ Turns(SYS_CLK_Initialize, "pbOn", b, v, IF b = 6 THEN v ELSE TRUE)
  /\ \A i \in References : \A v :
       /\ Turns(SYS_CLK_Initialize, "refOn", i, v, i = 1)
       /\ Turns(SYS_CLK_Initialize, "refOut", i, v, FALSE)
<1> DEFINE q1 == SYS_DEVCON_SystemUnlock \o Write("frcDiv", 1, 1)
           q2 == q1 \o Bus(1, 2) \o Bus(2, 2) \o Bus(3, 2) \o Bus(4, 2) \o Bus(5, 2) \o Bus(7, 1) \o Bus(8, 2)
           W1 == Write("refBase", 1, "SYSCLK")
           W2 == Write("refDiv", 1, 19)
           W3 == Write("refTrim", 1, 272)
           W4 == Write("refOn", 1, TRUE)
           W5 == Write("refOut", 1, FALSE)
           q3 == q2 \o W1 \o W2 \o W3
<1>1. SYS_CLK_Initialize = q3 \o W4 \o W5 \o Silence(2) \o Silence(3) \o Silence(4) \o SYS_DEVCON_SystemLock
  BY DEF SYS_CLK_Initialize
<1>2. Only(q1, {"frcDiv"}) /\ \A v : Turns(q1, "frcDiv", 1, v, 1)
  <2>1. Only(SYS_DEVCON_SystemUnlock, {"frcDiv"}) /\ Only(Write("frcDiv", 1, 1), {"frcDiv"})
    BY KeysOnly, OnlyRules
  <2>2. \A v : Turns(SYS_DEVCON_SystemUnlock, "frcDiv", 1, v, v) /\ Turns(Write("frcDiv", 1, 1), "frcDiv", 1, v, 1)
    BY KeysOnly, TurnsOperations DEF Only
  <2>3. Only(q1, {"frcDiv"})
    BY <2>1, OnlyRules
  <2>4. \A v : Turns(q1, "frcDiv", 1, v, 1)
    BY <2>2, TurnsThen
  <2> QED BY <2>3, <2>4
<1>3. PICK R : R = {"frcDiv"} \union {"pbDiv", "pbOn"}
  OBVIOUS
<1>4. /\ Only(q2, R) /\ \A v : Turns(q2, "frcDiv", 1, v, 1)
      /\ \A b \in Buses : \A v :
           /\ Turns(q2, "pbDiv", b, v, IF b = 6 THEN v ELSE IF b = 7 THEN 1 ELSE 2)
           /\ Turns(q2, "pbOn", b, v, IF b = 6 THEN v ELSE TRUE)
  <2> HIDE DEF q1
  <2>1. "pbDiv" \notin {"frcDiv"} /\ "pbOn" \notin {"frcDiv"} /\ "frcDiv" \in {"frcDiv"}
    OBVIOUS
  <2> QED BY <1>2, <1>3, <2>1, BusesTurn
<1> HIDE DEF q1, q2
<1>5. \A r, i, v : /\ r # "refBase" => Turns(W1, r, i, v, v)
                   /\ r # "refDiv"  => Turns(W2, r, i, v, v)
                   /\ r # "refTrim" => Turns(W3, r, i, v, v)
                   /\ r # "refOn"   => Turns(W4, r, i, v, v)
                   /\ r # "refOut"  => Turns(W5, r, i, v, v)
  <2>1. ASSUME NEW s, NEW j, NEW w, NEW r, NEW i, NEW v, r # s PROVE Turns(Write(s, j, w), r, i, v, v)
    BY <2>1, TurnsOperations
  <2> QED BY <2>1
<1>6. \A i, v : /\ Turns(W1, "refBase", i, v, IF i = 1 THEN "SYSCLK" ELSE v)
                /\ Turns(W2, "refDiv", i, v, IF i = 1 THEN 19 ELSE v)
                /\ Turns(W3, "refTrim", i, v, IF i = 1 THEN 272 ELSE v)
                /\ Turns(W4, "refOn", i, v, IF i = 1 THEN TRUE ELSE v)
                /\ Turns(W5, "refOut", i, v, IF i = 1 THEN FALSE ELSE v)
  <2> TAKE i, v
  <2>1. Turns(W1, "refBase", i, v, IF i = 1 THEN "SYSCLK" ELSE v)
    BY TurnsWrite
  <2>2. Turns(W2, "refDiv", i, v, IF i = 1 THEN 19 ELSE v)
    BY TurnsWrite
  <2>3. Turns(W3, "refTrim", i, v, IF i = 1 THEN 272 ELSE v)
    BY TurnsWrite
  <2>4. Turns(W4, "refOn", i, v, IF i = 1 THEN TRUE ELSE v)
    BY TurnsWrite
  <2>5. Turns(W5, "refOut", i, v, IF i = 1 THEN FALSE ELSE v)
    BY TurnsWrite
  <2> QED BY <2>1, <2>2, <2>3, <2>4, <2>5
<1>7. \A r, i, v : Turns(SYS_DEVCON_SystemLock, r, i, v, v)
  BY KeysOnly DEF Only
<1>8. \A c, r, i, v : r \notin {"refOn", "refOut"} => Turns(Silence(c), r, i, v, v)
  BY SilenceTurns DEF Only
<1>9. \A c, i, v : /\ Turns(Silence(c), "refOn", i, v, IF i = c THEN FALSE ELSE v)
                   /\ Turns(Silence(c), "refOut", i, v, IF i = c THEN FALSE ELSE v)
  BY SilenceTurns
<1> HIDE DEF W1, W2, W3, W4, W5
<1>10. \A r, i, v, w : r \notin {"refOn", "refOut"} /\ Turns(q3, r, i, v, w) =>
         Turns(SYS_CLK_Initialize, r, i, v, w)
  <2> SUFFICES ASSUME NEW r, r \notin {"refOn", "refOut"}, NEW i, NEW v, NEW w, Turns(q3, r, i, v, w)
               PROVE  Turns(SYS_CLK_Initialize, r, i, v, w)
    OBVIOUS
  <2>1. Turns(W4, r, i, w, w) /\ Turns(W5, r, i, w, w) /\ \A c : Turns(Silence(c), r, i, w, w)
    BY <1>5, <1>8
  <2> HIDE DEF q3
  <2> QED BY <1>1, <1>7, <2>1, TurnsRules
<1>11. \A r, i, v, w : r \notin {"refBase", "refDiv", "refTrim"} /\ Turns(q2, r, i, v, w) => Turns(q3, r, i, v, w)
  <2> SUFFICES ASSUME NEW r, r \notin {"refBase", "refDiv", "refTrim"}, NEW i, NEW v, NEW w, Turns(q2, r, i, v, w)
               PROVE  Turns(q3, r, i, v, w)
    OBVIOUS
  <2>1. Turns(W1, r, i, w, w) /\ Turns(W2, r, i, w, w) /\ Turns(W3, r, i, w, w)
    BY <1>5
  <2> QED BY <2>1, TurnsRules
<1>12. Only(SYS_CLK_Initialize, ClockSettings)
  <2> SUFFICES ASSUME NEW r, r \notin ClockSettings, NEW i, NEW v PROVE Turns(SYS_CLK_Initialize, r, i, v, v)
    BY DEF Only
  <2>1. Turns(q2, r, i, v, v)
    BY <1>3, <1>4 DEF Only, ClockSettings
  <2> QED BY <1>10, <1>11, <2>1 DEF ClockSettings
<1>13. ASSUME NEW v
       PROVE  /\ Turns(SYS_CLK_Initialize, "frcDiv", 1, v, 1)
              /\ Turns(SYS_CLK_Initialize, "refBase", 1, v, "SYSCLK")
              /\ Turns(SYS_CLK_Initialize, "refDiv", 1, v, 19)
              /\ Turns(SYS_CLK_Initialize, "refTrim", 1, v, 272)
  <2>1. Turns(SYS_CLK_Initialize, "frcDiv", 1, v, 1)
    BY <1>4, <1>10, <1>11
  <2>2. \A r \in {"refBase", "refDiv", "refTrim"} : Turns(q2, r, 1, v, v)
    BY <1>3, <1>4 DEF Only
  <2>3. Turns(q3, "refBase", 1, v, "SYSCLK")
    <3>1. Turns(W1, "refBase", 1, v, "SYSCLK") /\ \A w : Turns(W2, "refBase", 1, w, w) /\ Turns(W3, "refBase", 1, w, w)
      BY <1>5, <1>6
    <3>2. Turns(q2, "refBase", 1, v, v)
      BY <2>2
    <3> QED BY <3>1, <3>2, TurnsThen
  <2>4. Turns(q3, "refDiv", 1, v, 19)
    <3>1. Turns(W2, "refDiv", 1, v, 19) /\ \A w : Turns(W1, "refDiv", 1, w, w) /\ Turns(W3, "refDiv", 1, w, w)
      BY <1>5, <1>6
    <3>2. Turns(q2, "refDiv", 1, v, v)
      BY <2>2
    <3>3. Turns(q2 \o W1, "refDiv", 1, v, v)
      BY <3>1, <3>2, TurnsThen
    <3>4. Turns(q2 \o W1 \o W2, "refDiv", 1, v, 19)
      BY <3>1, <3>3, TurnsThen
    <3>5. Turns(W3, "refDiv", 1, 19, 19)
      BY <3>1
    <3> QED BY <3>4, <3>5, TurnsThen
  <2>5. Turns(q3, "refTrim", 1, v, 272)
    <3>1. Turns(W3, "refTrim", 1, v, 272) /\ \A w : Turns(W1, "refTrim", 1, w, w) /\ Turns(W2, "refTrim", 1, w, w)
      BY <1>5, <1>6
    <3>2. Turns(q2, "refTrim", 1, v, v)
      BY <2>2
    <3>3. Turns(q2 \o W1, "refTrim", 1, v, v)
      BY <3>1, <3>2, TurnsThen
    <3>4. Turns(q2 \o W1 \o W2, "refTrim", 1, v, v)
      BY <3>1, <3>3, TurnsThen
    <3> QED BY <3>1, <3>4, TurnsThen
  <2> HIDE DEF q3
  <2> QED BY <1>10, <2>1, <2>3, <2>4, <2>5
<1>14. ASSUME NEW b \in Buses, NEW v
       PROVE  /\ Turns(SYS_CLK_Initialize, "pbDiv", b, v, IF b = 6 THEN v ELSE IF b = 7 THEN 1 ELSE 2)
              /\ Turns(SYS_CLK_Initialize, "pbOn", b, v, IF b = 6 THEN v ELSE TRUE)
  <2>1. /\ Turns(q2, "pbDiv", b, v, IF b = 6 THEN v ELSE IF b = 7 THEN 1 ELSE 2)
        /\ Turns(q2, "pbOn", b, v, IF b = 6 THEN v ELSE TRUE)
    BY <1>4
  <2> HIDE DEF q3
  <2> QED BY <1>10, <1>11, <2>1
<1>15. ASSUME NEW i \in References, NEW v
       PROVE  /\ Turns(SYS_CLK_Initialize, "refOn", i, v, i = 1)
              /\ Turns(SYS_CLK_Initialize, "refOut", i, v, FALSE)
  <2> DEFINE S(c, w) == IF i = c THEN FALSE ELSE w
  <2>1. Turns(q3, "refOn", i, v, v) /\ Turns(q3, "refOut", i, v, v)
    <3>1. Turns(q2, "refOn", i, v, v) /\ Turns(q2, "refOut", i, v, v)
      BY <1>3, <1>4 DEF Only
    <3> HIDE DEF q3
    <3> QED BY <1>11, <3>1
  <2>2. \A c, w : Turns(Silence(c), "refOn", i, w, S(c, w)) /\ Turns(Silence(c), "refOut", i, w, S(c, w))
    BY <1>9
  <2>3. S(4, S(3, S(2, IF i = 1 THEN TRUE ELSE v))) = IF i = 1 THEN TRUE ELSE FALSE
    <3>1. i = 1 \/ i = 2 \/ i = 3 \/ i = 4
      BY DEF References
    <3>2. CASE i = 1
      BY <3>2
    <3>3. CASE i = 2
      BY <3>3
    <3>4. CASE i = 3
      BY <3>4
    <3>5. CASE i = 4
      BY <3>5
    <3> QED BY <3>1, <3>2, <3>3, <3>4, <3>5
  <2>4. S(4, S(3, S(2, IF i = 1 THEN FALSE ELSE v))) = FALSE
    BY DEF References
  <2> HIDE DEF S, q3
  <2>5. Turns(SYS_CLK_Initialize, "refOn", i, v, S(4, S(3, S(2, IF i = 1 THEN TRUE ELSE v))))
    <3>2. Turns(W4, "refOn", i, v, IF i = 1 THEN TRUE ELSE v) /\ \A w : Turns(W5, "refOn", i, w, w)
      BY <1>5, <1>6
    <3>3. Turns(q3 \o W4 \o W5, "refOn", i, v, IF i = 1 THEN TRUE ELSE v)
      BY <2>1, <3>2, TurnsThen
    <3>4. Turns(SYS_DEVCON_SystemLock, "refOn", i, S(4, S(3, S(2, IF i = 1 THEN TRUE ELSE v))),
                S(4, S(3, S(2, IF i = 1 THEN TRUE ELSE v))))
      BY <1>7
    <3>5. Turns(q3 \o W4 \o W5 \o Silence(2), "refOn", i, v, S(2, IF i = 1 THEN TRUE ELSE v))
      BY <2>2, <3>3, TurnsThen
    <3>6. Turns(q3 \o W4 \o W5 \o Silence(2) \o Silence(3), "refOn", i, v, S(3, S(2, IF i = 1 THEN TRUE ELSE v)))
      BY <2>2, <3>5, TurnsThen
    <3>7. Turns(q3 \o W4 \o W5 \o Silence(2) \o Silence(3) \o Silence(4), "refOn", i, v,
                S(4, S(3, S(2, IF i = 1 THEN TRUE ELSE v))))
      BY <2>2, <3>6, TurnsThen
    <3> QED BY <1>1, <3>4, <3>7, TurnsThen
  <2>6. Turns(SYS_CLK_Initialize, "refOut", i, v, S(4, S(3, S(2, IF i = 1 THEN FALSE ELSE v))))
    <3>2. Turns(W5, "refOut", i, v, IF i = 1 THEN FALSE ELSE v) /\ Turns(W4, "refOut", i, v, v)
      BY <1>5, <1>6
    <3>3. Turns(q3 \o W4 \o W5, "refOut", i, v, IF i = 1 THEN FALSE ELSE v)
      BY <2>1, <3>2, TurnsThen
    <3>4. Turns(SYS_DEVCON_SystemLock, "refOut", i, S(4, S(3, S(2, IF i = 1 THEN FALSE ELSE v))),
                S(4, S(3, S(2, IF i = 1 THEN FALSE ELSE v))))
      BY <1>7
    <3>5. Turns(q3 \o W4 \o W5 \o Silence(2), "refOut", i, v, S(2, IF i = 1 THEN FALSE ELSE v))
      BY <2>2, <3>3, TurnsThen
    <3>6. Turns(q3 \o W4 \o W5 \o Silence(2) \o Silence(3), "refOut", i, v, S(3, S(2, IF i = 1 THEN FALSE ELSE v)))
      BY <2>2, <3>5, TurnsThen
    <3>7. Turns(q3 \o W4 \o W5 \o Silence(2) \o Silence(3) \o Silence(4), "refOut", i, v,
                S(4, S(3, S(2, IF i = 1 THEN FALSE ELSE v))))
      BY <2>2, <3>6, TurnsThen
    <3> QED BY <1>1, <3>4, <3>7, TurnsThen
  <2>7. (IF i = 1 THEN TRUE ELSE FALSE) = (i = 1)
    OBVIOUS
  <2> QED BY <2>3, <2>4, <2>5, <2>6, <2>7
<1> QED BY <1>12, <1>13, <1>14, <1>15

ChannelSettings == {"odc", "lat", "tris", "cnOn", "ansel", "cnEn", "cnPu", "cnPd"}
PortSettings    == ChannelSettings \union {"pps"}

\* What a channel's initialisation makes of the value v of its register r.
Channelled(r, c, v) ==
  CASE r = "odc"   -> v \union Zero[c]
    [] r = "lat"   -> Zero[c]
    [] r = "tris"  -> v \ (Bits \ Input[c])
    [] r = "cnOn"  -> TRUE
    [] r = "ansel" -> v \ (Bits \ Analog[c])
    [] r = "cnEn"  -> v \union Zero[c]
    [] r = "cnPu"  -> v \union PullUp[c]
    [] r = "cnPd"  -> v \union Zero[c]

LEMMA ChannelTurns ==
  ASSUME NEW c
  PROVE  /\ Only(ChannelInitialize(c), ChannelSettings)
         /\ \A r \in ChannelSettings : \A i, v :
              Turns(ChannelInitialize(c), r, i, v, IF i = c THEN Channelled(r, c, v) ELSE v)
<1> DEFINE W1 == SetBits("odc", c, Zero[c])
           W2 == Write("lat", c, Zero[c])
           W3 == ClearBits("tris", c, Bits \ Input[c])
           W4 == Write("cnOn", c, TRUE)
           W5 == ClearBits("ansel", c, Bits \ Analog[c])
           W6 == SetBits("cnEn", c, Zero[c])
           W7 == SetBits("cnPu", c, PullUp[c])
           W8 == SetBits("cnPd", c, Zero[c])
<1>1. ChannelInitialize(c) = W1 \o W2 \o W3 \o W4 \o W5 \o W6 \o W7 \o W8
  BY DEF ChannelInitialize
<1>2. Only(ChannelInitialize(c), ChannelSettings)
  <2>1. /\ "odc" \in ChannelSettings /\ "lat" \in ChannelSettings /\ "tris" \in ChannelSettings
        /\ "cnOn" \in ChannelSettings /\ "ansel" \in ChannelSettings /\ "cnEn" \in ChannelSettings
        /\ "cnPu" \in ChannelSettings /\ "cnPd" \in ChannelSettings
    BY DEF ChannelSettings
  <2>2. /\ Only(W1, ChannelSettings) /\ Only(W2, ChannelSettings) /\ Only(W3, ChannelSettings)
        /\ Only(W4, ChannelSettings)
    BY <2>1, OnlyRules
  <2>3. /\ Only(W5, ChannelSettings) /\ Only(W6, ChannelSettings) /\ Only(W7, ChannelSettings)
        /\ Only(W8, ChannelSettings)
    BY <2>1, OnlyRules
  <2> HIDE DEF W1, W2, W3, W4, W5, W6, W7, W8
  <2> QED BY <1>1, <2>2, <2>3, OnlyRules
<1>3. ASSUME NEW r \in ChannelSettings, NEW i, NEW v
      PROVE  Turns(ChannelInitialize(c), r, i, v, IF i = c THEN Channelled(r, c, v) ELSE v)
  <2> DEFINE w == IF i = c THEN Channelled(r, c, v) ELSE v
  <2>1. /\ Turns(W1, r, i, v, IF r = "odc" THEN w ELSE v) /\ (r # "odc" => \A u : Turns(W1, r, i, u, u))
        /\ Turns(W2, r, i, v, IF r = "lat" THEN w ELSE v) /\ (r # "lat" => \A u : Turns(W2, r, i, u, u))
    BY TurnsOperations DEF Channelled
  <2>2. /\ Turns(W3, r, i, v, IF r = "tris" THEN w ELSE v) /\ (r # "tris" => \A u : Turns(W3, r, i, u, u))
        /\ Turns(W4, r, i, v, IF r = "cnOn" THEN w ELSE v) /\ (r # "cnOn" => \A u : Turns(W4, r, i, u, u))
    BY TurnsOperations DEF Channelled
  <2>3. /\ Turns(W5, r, i, v, IF r = "ansel" THEN w ELSE v) /\ (r # "ansel" => \A u : Turns(W5, r, i, u, u))
        /\ Turns(W6, r, i, v, IF r = "cnEn" THEN w ELSE v) /\ (r # "cnEn" => \A u : Turns(W6, r, i, u, u))
    BY TurnsOperations DEF Channelled
  <2>4. /\ Turns(W7, r, i, v, IF r = "cnPu" THEN w ELSE v) /\ (r # "cnPu" => \A u : Turns(W7, r, i, u, u))
        /\ Turns(W8, r, i, v, IF r = "cnPd" THEN w ELSE v) /\ (r # "cnPd" => \A u : Turns(W8, r, i, u, u))
    BY TurnsOperations DEF Channelled
  <2> HIDE DEF W1, W2, W3, W4, W5, W6, W7, W8, w
  <2>5. r \in {"odc", "lat", "tris", "cnOn"} => Turns(W1 \o W2 \o W3 \o W4, r, i, v, w)
    BY <2>1, <2>2, TurnsThen
  <2>6. r \notin {"odc", "lat", "tris", "cnOn"} => Turns(W1 \o W2 \o W3 \o W4, r, i, v, v)
    BY <2>1, <2>2, TurnsThen
  <2>7. CASE r \in {"odc", "lat", "tris", "cnOn"}
    <3>1. Turns(W5, r, i, w, w) /\ Turns(W6, r, i, w, w) /\ Turns(W7, r, i, w, w) /\ Turns(W8, r, i, w, w)
      BY <2>3, <2>4, <2>7
    <3>2. Turns(ChannelInitialize(c), r, i, v, w)
      BY <1>1, <2>5, <2>7, <3>1, TurnsThen
    <3> QED BY <3>2 DEF w
  <2>8. CASE r \in {"ansel", "cnEn", "cnPu", "cnPd"}
    <3>1. Turns(W1 \o W2 \o W3 \o W4, r, i, v, v)
      BY <2>6, <2>8
    <3>2. Turns(ChannelInitialize(c), r, i, v, w)
      BY <1>1, <2>3, <2>4, <2>8, <3>1, TurnsThen
    <3> QED BY <3>2 DEF w
  <2> QED BY <2>7, <2>8 DEF ChannelSettings
<1> QED BY <1>2, <1>3

LEMMA PortsTurn ==
  /\ Only(SYS_PORTS_Initialize, PortSettings)
  /\ \A r \in ChannelSettings : \A v :
       /\ \A c \in Channels : Turns(SYS_PORTS_Initialize, r, c, v, Channelled(r, c, v))
       /\ Turns(SYS_PORTS_Initialize, r, "all", v, v)
  /\ \A f \in DOMAIN Remapped : \A v : Turns(SYS_PORTS_Initialize, "pps", f, v, Remapped[f])
<1> DEFINE q == ChannelInitialize("A") \o ChannelInitialize("B") \o ChannelInitialize("C")
                \o ChannelInitialize("D") \o ChannelInitialize("E") \o ChannelInitialize("F")
                \o ChannelInitialize("G")
           R(f) == PLIB_PORTS_Remap(f, Remapped[f])
<1>1. SYS_PORTS_Initialize = q \o R("U2RX") \o R("U1RX") \o R("SDI2") \o R("U2TX") \o R("U1TX") \o R("SS2")
  BY DEF SYS_PORTS_Initialize
<1>2. \A c : Only(ChannelInitialize(c), ChannelSettings)
  BY ChannelTurns
<1>3. Only(q, ChannelSettings)
  <2>1. \A s, t : Only(s, ChannelSettings) /\ Only(t, ChannelSettings) => Only(s \o t, ChannelSettings)
    BY OnlyRules
  <2> QED BY <1>2, <2>1
<1>4. \A f, r, i, v : Turns(R(f), r, i, v, IF r = "pps" /\ i = f THEN Remapped[f] ELSE v)
  BY TurnsWrite DEF PLIB_PORTS_Remap
<1>5. ASSUME NEW r \in ChannelSettings, NEW i, NEW v
      PROVE  /\ i \in Channels => Turns(q, r, i, v, Channelled(r, i, v))
             /\ i = "all" => Turns(q, r, i, v, v)
  <2> DEFINE T(c, w) == IF i = c THEN Channelled(r, c, w) ELSE w
  <2>1. \A c, w : Turns(ChannelInitialize(c), r, i, w, T(c, w))
    BY ChannelTurns
  <2>2. i \in Channels => T("G", T("F", T("E", T("D", T("C", T("B", T("A", v))))))) = Channelled(r, i, v)
    BY DEF Channels
  <2>3. i = "all" => T("G", T("F", T("E", T("D", T("C", T("B", T("A", v))))))) = v
    OBVIOUS
  <2> HIDE DEF T
  <2>4. Turns(ChannelInitialize("A") \o ChannelInitialize("B") \o ChannelInitialize("C"), r, i, v,
              T("C", T("B", T("A", v))))
    BY <2>1, TurnsThen
  <2>5. Turns(ChannelInitialize("A") \o ChannelInitialize("B") \o ChannelInitialize("C")
              \o ChannelInitialize("D") \o ChannelInitialize("E"), r, i, v,
              T("E", T("D", T("C", T("B", T("A", v))))))
    BY <2>1, <2>4, TurnsThen
  <2>6. Turns(q, r, i, v, T("G", T("F", T("E", T("D", T("C", T("B", T("A", v))))))))
    BY <2>1, <2>5, TurnsThen
  <2> QED BY <2>2, <2>3, <2>6
<1> HIDE DEF q, R
<1>6. ASSUME NEW r, r # "pps", NEW i, NEW v, NEW w, Turns(q, r, i, v, w)
      PROVE  Turns(SYS_PORTS_Initialize, r, i, v, w)
  <2>1. \A f : Turns(R(f), r, i, w, w)
    BY <1>4, <1>6
  <2> QED BY <1>1, <1>6, <2>1, TurnsThen
<1>7. Only(SYS_PORTS_Initialize, PortSettings)
  BY <1>3, <1>6 DEF Only, PortSettings
<1>8. ASSUME NEW f \in DOMAIN Remapped, NEW v PROVE Turns(SYS_PORTS_Initialize, "pps", f, v, Remapped[f])
  <2> DEFINE T(g, w) == IF f = g THEN Remapped[g] ELSE w
  <2>1. \A g, w : Turns(R(g), "pps", f, w, T(g, w))
    BY <1>4
  <2>2. T("SS2", T("U1TX", T("U2TX", T("SDI2", T("U1RX", T("U2RX", v)))))) = Remapped[f]
    <3>1. f \in {"U2RX", "U1RX", "SDI2", "U2TX", "U1TX", "SS2"}
      BY DEF Remapped
    <3> QED BY <3>1
  <2>3. Turns(q, "pps", f, v, v)
    BY <1>3 DEF Only, ChannelSettings
  <2> HIDE DEF T
  <2>4. Turns(q \o R("U2RX"), "pps", f, v,
              T("U2RX", v))
    BY <2>1, <2>3, TurnsThen
  <2>5. Turns(q \o R("U2RX") \o R("U1RX"), "pps", f, v,
              T("U1RX", T("U2RX", v)))
    BY <2>1, <2>4, TurnsThen
  <2>6. Turns(q \o R("U2RX") \o R("U1RX") \o R("SDI2"), "pps", f, v,
              T("SDI2", T("U1RX", T("U2RX", v))))
    BY <2>1, <2>5, TurnsThen
  <2>7. Turns(q \o R("U2RX") \o R("U1RX") \o R("SDI2") \o R("U2TX"), "pps", f, v,
              T("U2TX", T("SDI2", T("U1RX", T("U2RX", v)))))
    BY <2>1, <2>6, TurnsThen
  <2>8. Turns(q \o R("U2RX") \o R("U1RX") \o R("SDI2") \o R("U2TX") \o R("U1TX"), "pps", f, v,
              T("U1TX", T("U2TX", T("SDI2", T("U1RX", T("U2RX", v))))))
    BY <2>1, <2>7, TurnsThen
  <2>9. Turns(q \o R("U2RX") \o R("U1RX") \o R("SDI2") \o R("U2TX") \o R("U1TX") \o R("SS2"), "pps", f, v,
              T("SS2", T("U1TX", T("U2TX", T("SDI2", T("U1RX", T("U2RX", v)))))))
    BY <2>1, <2>8, TurnsThen
  <2> QED BY <1>1, <2>2, <2>9
<1>9. ASSUME NEW r \in ChannelSettings, NEW v
      PROVE  /\ \A c \in Channels : Turns(SYS_PORTS_Initialize, r, c, v, Channelled(r, c, v))
             /\ Turns(SYS_PORTS_Initialize, r, "all", v, v)
  BY <1>5, <1>6 DEF ChannelSettings
<1> QED BY <1>7, <1>8, <1>9

LEMMA DevconTurns ==
  /\ Only(SYS_DEVCON_Initialize, {"status", "state"})
  /\ \A r \in {"status", "state"} : \A v : Turns(SYS_DEVCON_Initialize, r, 1, v, "READY")
<1> DEFINE W1 == Write("status", 1, "READY")
           W2 == Write("state", 1, "READY")
           R  == {"status", "state"}
<1>1. SYS_DEVCON_Initialize = W1 \o W2
  BY DEF SYS_DEVCON_Initialize
<1>2. Only(W1, R) /\ Only(W2, R)
  <2>1. "status" \in R /\ "state" \in R
    OBVIOUS
  <2> HIDE DEF R
  <2> QED BY <2>1, OnlyRules
<1>3. \A v : Turns(W1, "status", 1, v, "READY") /\ Turns(W1, "state", 1, v, v)
  BY TurnsWrite
<1>4. \A v : Turns(W2, "state", 1, v, "READY") /\ Turns(W2, "status", 1, v, v)
  BY TurnsWrite
<1> HIDE DEF W1, W2, R
<1>5. Only(SYS_DEVCON_Initialize, R)
  BY <1>1, <1>2, OnlyRules
<1>6. \A v : Turns(SYS_DEVCON_Initialize, "status", 1, v, "READY")
  BY <1>1, <1>3, <1>4, TurnsThen
<1>7. \A v : Turns(SYS_DEVCON_Initialize, "state", 1, v, "READY")
  BY <1>1, <1>3, <1>4, TurnsThen
<1> QED BY <1>5, <1>6, <1>7 DEF R

LEMMA WaitStatesValue == WaitStates(SYS_CLK_SystemFrequencyGet) = 2
<1>1. {i \in 1..3 : 200000 > Limits[i]} = {1, 2}
  <2>1. /\ Limits[1] = IF ECC THEN 60000 ELSE 74000
        /\ Limits[2] = IF ECC THEN 120000 ELSE 140000
        /\ Limits[3] = 200000
    BY SystemAssumption DEF Limits
  <2>2. 200000 > Limits[1] /\ 200000 > Limits[2] /\ ~(200000 > Limits[3])
    BY <2>1, SystemAssumption
  <2>3. \A i : i \in 1 .. 3 <=> i = 1 \/ i = 2 \/ i = 3
    OBVIOUS
  <2> QED BY <2>2, <2>3
<1>2. IsFiniteSet({1}) /\ Cardinality({1}) = 1
  BY FS_Singleton
<1>3. Cardinality({1} \union {2}) = 2
  BY <1>2, FS_AddElement, 2 \notin {1}
<1>4. {1} \union {2} = {1, 2}
  OBVIOUS
<1> QED BY <1>1, <1>3, <1>4 DEF WaitStates, SYS_CLK_SystemFrequencyGet, SYS_CLK_FREQ

LEMMA PerformanceTurns ==
  ASSUME NEW sysclk
  PROVE  /\ Only(SYS_DEVCON_PerformanceConfig(sysclk), Guarded)
         /\ \A v : /\ Turns(SYS_DEVCON_PerformanceConfig(sysclk), "waitStates", 1, v,
                            IF "WaitState" \in exists THEN WaitStates(sysclk) ELSE v)
                   /\ Turns(SYS_DEVCON_PerformanceConfig(sysclk), "prefetch", 1, v,
                            IF "PrefetchEnable" \in exists THEN TRUE ELSE v)
<1> DEFINE W == Write("waitStates", 1, WaitStates(sysclk))
           P == Write("prefetch", 1, TRUE)
           D == PLIB_INT_GetStateAndDisable
           I == IfFlagEnable
           X == IfExists("WaitState", D \o W \o I)
           Y == IfExists("PrefetchEnable", P)
<1>1. SYS_DEVCON_PerformanceConfig(sysclk) = X \o D \o Y \o I
  BY DEF SYS_DEVCON_PerformanceConfig
<1>2. /\ Only(D, {}) /\ Only(I, {}) /\ Only(W, {"waitStates"}) /\ Only(P, {"prefetch"})
      /\ Only(D, Guarded) /\ Only(I, Guarded) /\ Only(W, Guarded) /\ Only(P, Guarded)
  <2>1. "waitStates" \in Guarded /\ "prefetch" \in Guarded
    BY DEF Guarded
  <2>2. Only(D, {}) /\ Only(I, {}) /\ Only(D, Guarded) /\ Only(I, Guarded)
    BY OnlyRules DEF PLIB_INT_GetStateAndDisable, IfFlagEnable, Accesses
  <2>3. Only(W, {"waitStates"}) /\ Only(W, Guarded)
    BY <2>1, OnlyRules
  <2>4. Only(P, {"prefetch"}) /\ Only(P, Guarded)
    BY <2>1, OnlyRules
  <2> QED BY <2>2, <2>3, <2>4
<1>3. \A v : Turns(W, "waitStates", 1, v, WaitStates(sysclk)) /\ Turns(W, "prefetch", 1, v, v)
  BY TurnsWrite
<1>4. \A v : Turns(P, "prefetch", 1, v, TRUE) /\ Turns(P, "waitStates", 1, v, v)
  BY TurnsWrite
<1> HIDE DEF W, P, D, I
<1>5. Only(SYS_DEVCON_PerformanceConfig(sysclk), Guarded)
  <2>1. Only(X, Guarded) /\ Only(Y, Guarded)
    BY <1>2, OnlyRules
  <2> HIDE DEF X, Y
  <2> QED BY <1>1, <1>2, <2>1, OnlyRules
<1>6. \A r, v : Turns(D, r, 1, v, v) /\ Turns(I, r, 1, v, v)
  BY <1>2 DEF Only
<1>7. \A r, v : Turns(<<>>, r, 1, v, v)
  BY TurnsRules
<1>8. \A v : /\ Turns(X, "waitStates", 1, v, IF "WaitState" \in exists THEN WaitStates(sysclk) ELSE v)
             /\ Turns(X, "prefetch", 1, v, v)
  <2>1. \A v : Turns(D \o W \o I, "waitStates", 1, v, WaitStates(sysclk))
    BY <1>3, <1>6, TurnsThen
  <2>2. \A v : Turns(D \o W \o I, "prefetch", 1, v, v)
    BY <1>3, <1>6, TurnsThen
  <2> QED BY <1>7, <2>1, <2>2 DEF IfExists
<1>9. \A v : /\ Turns(Y, "prefetch", 1, v, IF "PrefetchEnable" \in exists THEN TRUE ELSE v)
             /\ Turns(Y, "waitStates", 1, v, v)
  BY <1>4, <1>7 DEF IfExists
<1> HIDE DEF X, Y
<1>10. ASSUME NEW v
       PROVE  Turns(SYS_DEVCON_PerformanceConfig(sysclk), "waitStates", 1, v,
                    IF "WaitState" \in exists THEN WaitStates(sysclk) ELSE v)
  BY <1>1, <1>6, <1>8, <1>9, TurnsThen
<1>11. ASSUME NEW v
       PROVE  Turns(SYS_DEVCON_PerformanceConfig(sysclk), "prefetch", 1, v,
                    IF "PrefetchEnable" \in exists THEN TRUE ELSE v)
  BY <1>1, <1>6, <1>8, <1>9, TurnsThen
<1> QED BY <1>5, <1>10, <1>11

ConverterSettings == {"adcSource", "adcCalibrated", "adcOn", "adcAnalog"}

LEMMA ConverterTurns ==
  /\ Only(DRV_ADC_Initialize, ConverterSettings)
  /\ \A v : /\ Turns(DRV_ADC_Initialize, "adcSource", 1, v, "software edge")
            /\ Turns(DRV_ADC_Initialize, "adcCalibrated", 1, v, IF "DEVADC0" \in exists THEN TRUE ELSE v)
            /\ Turns(DRV_ADC_Initialize, "adcOn", 1, v, TRUE)
            /\ Turns(DRV_ADC_Initialize, "adcAnalog", 1, v, TRUE)
<1> DEFINE S1 == Write("adcSource", 1, "none")
           S2 == Write("adcSource", 1, "software edge")
           C  == IfExists("DEVADC0", Write("adcCalibrated", 1, TRUE))
           O  == Write("adcOn", 1, TRUE)
           L  == Write("adcAnalog", 1, TRUE)
           D  == Do("select")
           q1 == S1 \o D \o D \o S2 \o C
<1>1. DRV_ADC_Initialize = q1 \o O \o Await("vref") \o Await("noFault") \o L \o Await("channelReady")
  BY DEF DRV_ADC_Initialize
<1>2. \A r, v : Turns(D, r, 1, v, v) /\ \A s : Turns(Await(s), r, 1, v, v)
  BY TurnsOperations DEF Accesses
<1>3. /\ Only(S1, ConverterSettings) /\ Only(S2, ConverterSettings) /\ Only(O, ConverterSettings)
      /\ Only(L, ConverterSettings) /\ Only(D, ConverterSettings) /\ Only(C, ConverterSettings)
      /\ \A s : Only(Await(s), ConverterSettings)
  <2>1. /\ "adcSource" \in ConverterSettings /\ "adcCalibrated" \in ConverterSettings
        /\ "adcOn" \in ConverterSettings /\ "adcAnalog" \in ConverterSettings
    BY DEF ConverterSettings
  <2>2. Only(S1, ConverterSettings) /\ Only(S2, ConverterSettings)
    BY <2>1, OnlyRules
  <2>3. Only(O, ConverterSettings) /\ Only(L, ConverterSettings)
    BY <2>1, OnlyRules
  <2>4. Only(C, ConverterSettings)
    BY <2>1, OnlyRules
  <2>5. Only(D, ConverterSettings) /\ \A s : Only(Await(s), ConverterSettings)
    BY OnlyRules DEF Accesses
  <2> QED BY <2>2, <2>3, <2>4, <2>5
<1>4. \A r, v : /\ r # "adcSource" => Turns(S1, r, 1, v, v) /\ Turns(S2, r, 1, v, v)
                /\ r = "adcSource" => Turns(S1, r, 1, v, "none") /\ Turns(S2, r, 1, v, "software edge")
  BY TurnsWrite
<1>5. \A r, v : /\ r # "adcOn" => Turns(O, r, 1, v, v)
                /\ r = "adcOn" => Turns(O, r, 1, v, TRUE)
  BY TurnsWrite
<1>6. \A r, v : /\ r # "adcAnalog" => Turns(L, r, 1, v, v)
                /\ r = "adcAnalog" => Turns(L, r, 1, v, TRUE)
  BY TurnsWrite
<1>7. \A r, v : /\ r # "adcCalibrated" => Turns(C, r, 1, v, v)
                /\ r = "adcCalibrated" => Turns(C, r, 1, v, IF "DEVADC0" \in exists THEN TRUE ELSE v)
  <2>1. \A r, v : /\ r # "adcCalibrated" => Turns(Write("adcCalibrated", 1, TRUE), r, 1, v, v)
                  /\ r = "adcCalibrated" => Turns(Write("adcCalibrated", 1, TRUE), r, 1, v, TRUE)
    BY TurnsWrite
  <2>2. \A r, v : Turns(<<>>, r, 1, v, v)
    BY TurnsRules
  <2> QED BY <2>1, <2>2 DEF IfExists
<1> HIDE DEF S1, S2, C, O, L, D
<1>8. Only(DRV_ADC_Initialize, ConverterSettings)
  <2>1. Only(q1, ConverterSettings)
    BY <1>3, OnlyRules
  <2> HIDE DEF q1
  <2> QED BY <1>1, <1>3, <2>1, OnlyRules
<1>9. \A v : /\ Turns(q1, "adcSource", 1, v, "software edge")
             /\ Turns(q1, "adcCalibrated", 1, v, IF "DEVADC0" \in exists THEN TRUE ELSE v)
             /\ Turns(q1, "adcOn", 1, v, v) /\ Turns(q1, "adcAnalog", 1, v, v)
  <2> TAKE v
  <2>1. Turns(q1, "adcSource", 1, v, "software edge")
    BY <1>2, <1>4, <1>7, TurnsThen
  <2>2. Turns(q1, "adcCalibrated", 1, v, IF "DEVADC0" \in exists THEN TRUE ELSE v)
    BY <1>2, <1>4, <1>7, TurnsThen
  <2>3. Turns(q1, "adcOn", 1, v, v)
    BY <1>2, <1>4, <1>7, TurnsThen
  <2>4. Turns(q1, "adcAnalog", 1, v, v)
    BY <1>2, <1>4, <1>7, TurnsThen
  <2> QED BY <2>1, <2>2, <2>3, <2>4
<1> HIDE DEF q1
<1>10. ASSUME NEW r \in {"adcSource", "adcCalibrated"}, NEW v, NEW w, Turns(q1, r, 1, v, w)
       PROVE  Turns(DRV_ADC_Initialize, r, 1, v, w)
  <2>1. Turns(O, r, 1, w, w) /\ Turns(L, r, 1, w, w)
    BY <1>5, <1>6
  <2> QED BY <1>1, <1>2, <1>10, <2>1, TurnsThen
<1>11. ASSUME NEW v PROVE Turns(DRV_ADC_Initialize, "adcOn", 1, v, TRUE)
  <2>1. Turns(O, "adcOn", 1, v, TRUE) /\ Turns(L, "adcOn", 1, TRUE, TRUE)
    BY <1>5, <1>6
  <2> QED BY <1>1, <1>2, <1>9, <2>1, TurnsThen
<1>12. ASSUME NEW v PROVE Turns(DRV_ADC_Initialize, "adcAnalog", 1, v, TRUE)
  <2>1. Turns(O, "adcAnalog", 1, v, v) /\ Turns(L, "adcAnalog", 1, v, TRUE)
    BY <1>5, <1>6
  <2> QED BY <1>1, <1>2, <1>9, <2>1, TurnsThen
<1> QED BY <1>8, <1>9, <1>10, <1>11, <1>12

-----------------------------------------------------------------------------
(* The registers and their indices, and values of their types in them.     *)

PerBus       == {"pbDiv", "pbOn"}
PerReference == {"refOn", "refOut"}
PerChannel   == {"odc", "lat", "tris", "ansel", "cnPd"}
AndForAll    == {"cnOn", "cnEn", "cnPu"}
Single       == {"frcDiv", "refBase", "refDiv", "refTrim", "sosc", "onWait", "status", "state",
                 "jtag", "trace", "waitStates", "prefetch", "adcSource", "adcCalibrated", "adcOn",
                 "adcAnalog", "adcDigital", "adcTrigger", "adcSampling", "adcData", "vref",
                 "noFault", "channelReady", "iolock"}
Registers    == PerBus \union PerReference \union PerChannel \union AndForAll \union Single
                \union {"cnInIdle", "pps"}
Index(r)     == CASE r \in PerBus       -> Buses
                  [] r \in PerReference -> References
                  [] r \in PerChannel   -> Channels
                  [] r \in AndForAll    -> Channels \union {"all"}
                  [] r \in Single       -> 1 .. 1
                  [] r = "cnInIdle"     -> {"all"}
                  [] r = "pps"          -> DOMAIN Remapped

\* g holds values for the register r at each of its indices.
Fits(r, g) == g = [i \in Index(r) |-> g[i]] /\ \A i \in Index(r) : OfType(r, g[i])
WellFormed(f) == DOMAIN f = Registers /\ \A r \in Registers : Fits(r, f[r])

\* Changing one place, or one register.
LEMMA WellFormedRules ==
  ASSUME NEW f, WellFormed(f)
  PROVE  /\ \A r, i, v : (r \in Registers /\ i \in Index(r) => OfType(r, v)) =>
              WellFormed([f EXCEPT ![r][i] = v])
         /\ \A r, g : Fits(r, g) => WellFormed([f EXCEPT ![r] = g])
<1>1. ASSUME NEW r, NEW g, Fits(r, g) PROVE WellFormed([f EXCEPT ![r] = g])
  BY <1>1 DEF WellFormed
<1>2. ASSUME NEW r, NEW i, NEW v, r \in Registers /\ i \in Index(r) => OfType(r, v)
      PROVE  WellFormed([f EXCEPT ![r][i] = v])
  <2>1. CASE r \in Registers
    <3>1. Fits(r, [f[r] EXCEPT ![i] = v])
      BY <1>2, <2>1 DEF WellFormed, Fits
    <3> QED BY <1>1, <3>1
  <2>2. CASE r \notin Registers
    BY <2>2 DEF WellFormed
  <2> QED BY <2>1, <2>2
<1> QED BY <1>1, <1>2

LEMMA Indices ==
  /\ \A r \in PerBus : Index(r) = Buses
  /\ \A r \in PerReference : Index(r) = References
  /\ \A r \in PerChannel : Index(r) = Channels
  /\ \A r \in AndForAll : Index(r) = Channels \union {"all"}
  /\ \A r \in Single : Index(r) = 1 .. 1
  /\ Index("cnInIdle") = {"all"} /\ Index("pps") = DOMAIN Remapped
BY DEF Index, PerBus, PerReference, PerChannel, AndForAll, Single

Untyped == Registers \ (Masked \union {"pbDiv", "waitStates", "status", "pps", "sosc", "iolock"})

LEMMA FittingValues ==
  /\ \A r \in Untyped : \A v : OfType(r, v)
  /\ \A n \in 1 .. 128 : OfType("pbDiv", n)
  /\ \A n \in 0 .. 7 : OfType("waitStates", n) /\ Fits("waitStates", <<n>>)
  /\ \A v \in {"UNINITIALIZED", "READY"} : OfType("status", v) /\ Fits("status", <<v>>)
  /\ \A v \in Pins : OfType("pps", v)
  /\ \A v \in BOOLEAN : OfType("sosc", v) /\ Fits("sosc", <<v>>)
  /\ OfType("iolock", FALSE) /\ Fits("iolock", <<FALSE>>)
  /\ \A r \in Masked : \A v : v \subseteq Bits => OfType(r, v)
  /\ \A r \in Single \intersect Untyped : \A v : Fits(r, <<v>>)
<1>1. \A r, v : r \in Single /\ OfType(r, v) => Fits(r, <<v>>)
  <2> SUFFICES ASSUME NEW r \in Single, NEW v, OfType(r, v) PROVE Fits(r, <<v>>)
    OBVIOUS
  <2>1. Index(r) = 1 .. 1 /\ <<v>> = [i \in 1 .. 1 |-> v] /\ <<v>>[1] = v
    BY Indices
  <2> QED BY <2>1 DEF Fits
<1>2. \A r \in Untyped : \A v : OfType(r, v)
  BY DEF Untyped, OfType
<1>3. /\ \A n \in 1 .. 128 : OfType("pbDiv", n)
      /\ \A n \in 0 .. 7 : OfType("waitStates", n)
      /\ \A v \in {"UNINITIALIZED", "READY"} : OfType("status", v)
      /\ \A v \in Pins : OfType("pps", v)
      /\ \A v \in BOOLEAN : OfType("sosc", v)
      /\ OfType("iolock", FALSE)
      /\ \A r \in Masked : \A v : v \subseteq Bits => OfType(r, v)
  BY DEF OfType, Masked
<1> QED BY <1>1, <1>2, <1>3 DEF Single

LEMMA WellFormedFound ==
  ASSUME NEW divisor \in {1, 2}, NEW latches \in [Channels -> SUBSET Bits]
  PROVE  WellFormed(Found(divisor, latches))
<1> DEFINE f == Found(divisor, latches)
<1>1. DOMAIN f = Registers
  BY DEF Found, Registers, PerBus, PerReference, PerChannel, AndForAll, Single
<1>2. ASSUME NEW r \in PerBus PROVE Fits(r, f[r])
  <2>1. f.pbDiv = [b \in Buses |-> divisor] /\ f.pbOn = [b \in Buses |-> b < 7]
    BY DEF Found
  <2>2. OfType("pbDiv", divisor) /\ \A v : OfType("pbOn", v)
    BY FittingValues DEF Untyped, Registers, PerBus, Masked
  <2> HIDE DEF f
  <2> QED BY <2>1, <2>2, Indices DEF PerBus, Fits
<1>3. ASSUME NEW r \in PerReference PROVE Fits(r, f[r])
  <2>1. f.refOn = [i \in References |-> FALSE] /\ f.refOut = [i \in References |-> TRUE]
    BY DEF Found
  <2>2. \A v : OfType(r, v)
    BY FittingValues DEF Untyped, Registers, PerReference, Masked
  <2> HIDE DEF f
  <2> QED BY <2>1, <2>2, Indices DEF PerReference, Fits
<1>4. ASSUME NEW r \in PerChannel PROVE Fits(r, f[r])
  <2>1. /\ f.odc = [c \in Channels |-> {}] /\ f.lat = latches
        /\ f.tris = [c \in Channels |-> Bits] /\ f.ansel = [c \in Channels |-> Bits]
        /\ f.cnPd = [c \in Channels |-> {}]
    BY DEF Found, Zero
  <2>2. \A v \in SUBSET Bits : OfType(r, v)
    BY FittingValues DEF PerChannel, Masked
  <2> HIDE DEF f
  <2>3. f[r] \in [Channels -> SUBSET Bits]
    <3>1. [c \in Channels |-> {}] \in [Channels -> SUBSET Bits] /\ [c \in Channels |-> Bits] \in [Channels -> SUBSET Bits]
      OBVIOUS
    <3> QED BY <2>1, <3>1 DEF PerChannel
  <2>4. Index(r) = Channels
    BY Indices
  <2> QED BY <2>2, <2>3, <2>4 DEF Fits
<1>5. ASSUME NEW r \in AndForAll PROVE Fits(r, f[r])
  <2>1. /\ f.cnOn = [c \in Channels \union {"all"} |-> FALSE]
        /\ f.cnEn = [c \in Channels \union {"all"} |-> {}]
        /\ f.cnPu = [c \in Channels \union {"all"} |-> {}]
    BY DEF Found
  <2>2. (\A v : OfType("cnOn", v)) /\ OfType("cnEn", {}) /\ OfType("cnPu", {})
    BY FittingValues DEF Untyped, Registers, AndForAll, Masked
  <2>3. Index(r) = Channels \union {"all"}
    BY Indices
  <2> HIDE DEF f
  <2>4. CASE r = "cnOn"
    BY <2>1, <2>2, <2>3, <2>4 DEF Fits
  <2>5. CASE r \in {"cnEn", "cnPu"}
    BY <2>1, <2>2, <2>3, <2>5 DEF Fits
  <2> QED BY <2>4, <2>5 DEF AndForAll
<1>6. ASSUME NEW r \in Single PROVE Fits(r, f[r])
  <2>1. f.waitStates = <<7>> /\ f.status = <<"UNINITIALIZED">> /\ f.sosc = <<FALSE>>
        /\ f.iolock = <<FALSE>>
    BY DEF Found
  <2>2. CASE r \in {"waitStates", "status", "sosc", "iolock"}
    <3>0. Fits("waitStates", <<7>>) /\ Fits("status", <<"UNINITIALIZED">>)
      BY FittingValues
    <3>1. Fits("sosc", <<FALSE>>) /\ Fits("iolock", <<FALSE>>)
      BY FittingValues
    <3> HIDE DEF f
    <3> QED BY <2>1, <2>2, <3>0, <3>1
  <2>3. CASE r \notin {"waitStates", "status", "sosc", "iolock"}
    <3>1. r \in Single \intersect Untyped
      BY <2>3 DEF Single, Untyped, Registers, Masked
    <3>2. /\ f.frcDiv = <<divisor>> /\ f.refBase = <<"FRC">> /\ f.refDiv = <<0>> /\ f.refTrim = <<0>>
          /\ f.onWait = <<"IDLE">> /\ f.state = <<"INIT">> /\ f.adcSource = <<"none">>
      BY DEF Found
    <3>3. /\ f.jtag = <<FALSE>> /\ f.trace = <<FALSE>> /\ f.prefetch = <<FALSE>>
          /\ f.adcCalibrated = <<FALSE>> /\ f.adcOn = <<FALSE>> /\ f.adcAnalog = <<FALSE>>
          /\ f.adcDigital = <<FALSE>> /\ f.adcTrigger = <<FALSE>> /\ f.adcSampling = <<FALSE>>
          /\ f.adcData = <<FALSE>> /\ f.vref = <<FALSE>> /\ f.noFault = <<FALSE>>
          /\ f.channelReady = <<FALSE>>
      BY DEF Found
    <3> HIDE DEF f
    <3>4. \E v : f[r] = <<v>>
      BY <2>3, <3>2, <3>3 DEF Single
    <3> QED BY <3>1, <3>4, FittingValues
  <2> QED BY <2>2, <2>3
<1>7. Fits("cnInIdle", f.cnInIdle)
  <2>1. f.cnInIdle = [i \in {"all"} |-> f.cnInIdle[i]]
    BY DEF Found
  <2>2. \A v : OfType("cnInIdle", v)
    BY FittingValues DEF Untyped, Registers, Masked
  <2> HIDE DEF f
  <2> QED BY <2>1, <2>2, Indices DEF Fits
<1>8. Fits("pps", f.pps)
  <2>1. f.pps = [i \in DOMAIN Remapped |-> <<"none", 0>>] /\ <<"none", 0>> \in Pins
    BY DEF Found, Pins, Bits
  <2> HIDE DEF f
  <2> QED BY <2>1, FittingValues, Indices DEF Fits
<1> HIDE DEF f
<1>9. \A r \in Registers : Fits(r, f[r])
  BY <1>2, <1>3, <1>4, <1>5, <1>6, <1>7, <1>8 DEF Registers
<1>10. WellFormed(f)
  BY <1>1, <1>9 DEF WellFormed
<1> QED BY <1>10 DEF f

LEMMA WellFormedConfigured ==
  ASSUME NEW found, WellFormed(found)
  PROVE  WellFormed(Configured(found))
<1> DEFINE f == Configured(found)
           Set == {"frcDiv", "pbDiv", "pbOn", "refBase", "refDiv", "refTrim", "refOn", "refOut",
                   "status", "state", "waitStates", "prefetch", "lat", "tris", "ansel", "cnOn", "cnPu",
                   "pps", "adcSource", "adcOn", "adcAnalog", "adcCalibrated"}
<1>1. DOMAIN found = Registers /\ Set \subseteq Registers
  BY DEF WellFormed, Registers, PerBus, PerReference, PerChannel, AndForAll, Single
<1>2. DOMAIN f = Registers
  BY <1>1, ZenonT(40) DEF Configured
<1>3. ASSUME NEW r \in Registers, r \notin Set PROVE f[r] = found[r]
  BY <1>1, <1>3, ZenonT(40) DEF Configured
<1>4. \A r \in Registers : Fits(r, found[r])
  BY DEF WellFormed
<1>5. Fits("pbDiv", f.pbDiv) /\ Fits("pbOn", f.pbOn)
  <2>1. /\ f.pbDiv = [b \in Buses |-> IF b = 6 THEN found.pbDiv[6] ELSE IF b = 7 THEN 1 ELSE 2]
        /\ f.pbOn = [b \in Buses |-> IF b = 6 THEN found.pbOn[6] ELSE TRUE]
    BY <1>1 DEF Configured
  <2>2. OfType("pbDiv", found.pbDiv[6]) /\ \A v : OfType("pbOn", v)
    <3>1. "pbDiv" \in Registers /\ Index("pbDiv") = Buses /\ 6 \in Buses
      BY Indices DEF Registers, PerBus, Buses
    <3>2. "pbOn" \in Untyped
      BY DEF Untyped, Registers, PerBus, Masked
    <3> QED BY <1>4, <3>1, <3>2, FittingValues DEF Fits
  <2>3. OfType("pbDiv", 1) /\ OfType("pbDiv", 2)
    BY FittingValues
  <2> HIDE DEF f
  <2> QED BY <2>1, <2>2, <2>3, Indices DEF Fits, PerBus
<1>6. Fits("refOn", f.refOn) /\ Fits("refOut", f.refOut)
  <2>1. f.refOn = [r \in References |-> r = 1] /\ f.refOut = [r \in References |-> FALSE]
    BY <1>1 DEF Configured
  <2>2. \A r \in PerReference : \A v : OfType(r, v)
    BY FittingValues DEF Untyped, Registers, PerReference, Masked
  <2> HIDE DEF f
  <2> QED BY <2>1, <2>2, Indices DEF Fits, PerReference
<1>7. Fits("lat", f.lat) /\ Fits("tris", f.tris) /\ Fits("ansel", f.ansel)
  <2>1. f.lat = Zero /\ f.tris = Input /\ f.ansel = Analog
    BY <1>1 DEF Configured
  <2>2. \A n : BitsOf(n) \subseteq Bits
    BY DEF BitsOf
  <2>3. /\ Zero = [c \in Channels |-> Zero[c]] /\ Input = [c \in Channels |-> Input[c]]
        /\ \A c \in Channels : Zero[c] \subseteq Bits /\ Input[c] \subseteq Bits
    BY <2>2 DEF Zero, Input, Channels
  <2>4. Analog = [c \in Channels |-> Analog[c]] /\ \A c \in Channels : Analog[c] \subseteq Bits
    <3>1. DOMAIN Analog = Channels
      BY DEF Analog, Channels
    <3>2. Analog = [c \in DOMAIN Analog |-> Analog[c]]
      BY DEF Analog
    <3>3. \A c \in Channels : Analog[c] \subseteq Bits
      BY <2>2 DEF Analog, Channels
    <3> QED BY <3>1, <3>2, <3>3
  <2>5. \A r \in {"lat", "tris", "ansel"} : Index(r) = Channels /\ \A v : v \subseteq Bits => OfType(r, v)
    BY FittingValues, Indices DEF PerChannel, Masked
  <2> HIDE DEF f
  <2>6. Fits("lat", f.lat)
    BY <2>1, <2>3, <2>5 DEF Fits
  <2>7. Fits("tris", f.tris)
    BY <2>1, <2>3, <2>5 DEF Fits
  <2>8. Fits("ansel", f.ansel)
    BY <2>1, <2>4, <2>5 DEF Fits
  <2> QED BY <2>6, <2>7, <2>8
<1>8. Fits("cnOn", f.cnOn) /\ Fits("cnPu", f.cnPu)
  <2>1. DOMAIN found.cnOn = Channels \union {"all"} /\ DOMAIN found.cnPu = Channels \union {"all"}
    BY <1>1, <1>4, Indices DEF Fits, AndForAll, Registers
  <2>2. /\ f.cnOn = [c \in Channels \union {"all"} |-> c # "all"]
        /\ f.cnPu = [c \in Channels \union {"all"} |-> IF c = "all" THEN {} ELSE PullUp[c]]
    BY <1>1, <2>1 DEF Configured
  <2>3. \A c \in Channels : PullUp[c] \subseteq Bits
    BY DEF PullUp, BitsOf
  <2>4. (\A v : OfType("cnOn", v)) /\ (\A v : v \subseteq Bits => OfType("cnPu", v))
    BY FittingValues DEF Untyped, Registers, AndForAll, Masked
  <2>5. Index("cnOn") = Channels \union {"all"} /\ Index("cnPu") = Channels \union {"all"}
    BY Indices DEF AndForAll
  <2> HIDE DEF f
  <2>6. Fits("cnOn", f.cnOn)
    BY <2>2, <2>4, <2>5 DEF Fits
  <2>7. Fits("cnPu", f.cnPu)
    BY <2>2, <2>3, <2>4, <2>5 DEF Fits
  <2> QED BY <2>6, <2>7
<1>9. Fits("pps", f.pps)
  <2>1. f.pps = Remapped
    BY <1>1 DEF Configured
  <2>2. \A i \in DOMAIN Remapped : Remapped[i] \in Pins
    BY DEF Remapped, Pins, Channels, Bits
  <2>3. Remapped = [i \in DOMAIN Remapped |-> Remapped[i]]
    BY DEF Remapped
  <2> HIDE DEF f
  <2> QED BY <2>1, <2>2, <2>3, FittingValues, Indices DEF Fits
<1>10. \A r \in Single : Fits(r, f[r])
  <2>1. /\ f.frcDiv = <<1>> /\ f.refBase = <<"SYSCLK">> /\ f.refDiv = <<19>> /\ f.refTrim = <<272>>
        /\ f.state = <<"READY">> /\ f.adcSource = <<"software edge">> /\ f.adcOn = <<TRUE>>
        /\ f.adcAnalog = <<TRUE>>
    BY <1>1 DEF Configured
  <2>2. /\ f.status = <<"READY">>
        /\ f.waitStates \in {<<2>>, found.waitStates}
        /\ f.prefetch \in {<<TRUE>>, found.prefetch}
        /\ f.adcCalibrated \in {<<TRUE>>, found.adcCalibrated}
    BY <1>1 DEF Configured
  <2> HIDE DEF f
  <2>3. \A r \in {"frcDiv", "refBase", "refDiv", "refTrim", "state", "adcSource", "adcOn", "adcAnalog",
                  "prefetch", "adcCalibrated"} : r \in Single \intersect Untyped
    BY DEF Single, Untyped, Registers, Masked
  <2>4. /\ Fits("frcDiv", f.frcDiv) /\ Fits("refBase", f.refBase) /\ Fits("refDiv", f.refDiv)
        /\ Fits("refTrim", f.refTrim) /\ Fits("state", f.state) /\ Fits("adcSource", f.adcSource)
        /\ Fits("adcOn", f.adcOn) /\ Fits("adcAnalog", f.adcAnalog)
    <3>1. /\ Fits("frcDiv", <<1>>) /\ Fits("refBase", <<"SYSCLK">>) /\ Fits("refDiv", <<19>>)
          /\ Fits("refTrim", <<272>>) /\ Fits("state", <<"READY">>)
          /\ Fits("adcSource", <<"software edge">>)
          /\ Fits("adcOn", <<TRUE>>) /\ Fits("adcAnalog", <<TRUE>>)
      <4>1. ASSUME NEW r \in Single \intersect Untyped, NEW v PROVE Fits(r, <<v>>)
        BY FittingValues
      <4> QED BY <2>3, <4>1
    <3>2. /\ Fits("frcDiv", f.frcDiv) /\ Fits("refBase", f.refBase) /\ Fits("refDiv", f.refDiv)
          /\ Fits("refTrim", f.refTrim)
      BY <2>1, <3>1
    <3>3. Fits("state", f.state)
      BY <2>1, <3>1
    <3>4. Fits("adcOn", f.adcOn) /\ Fits("adcAnalog", f.adcAnalog)
      BY <2>1, <3>1
    <3>5. Fits("adcSource", f.adcSource)
      BY <2>1, <3>1
    <3> QED BY <3>2, <3>3, <3>4, <3>5
  <2>5. Fits("status", f.status) /\ Fits("waitStates", f.waitStates)
        /\ Fits("prefetch", f.prefetch) /\ Fits("adcCalibrated", f.adcCalibrated)
    <3>1. /\ Fits("waitStates", found.waitStates) /\ Fits("prefetch", found.prefetch)
          /\ Fits("adcCalibrated", found.adcCalibrated)
      BY <1>1, <1>4
    <3>2. /\ Fits("status", <<"READY">>) /\ Fits("waitStates", <<2>>)
          /\ Fits("prefetch", <<TRUE>>) /\ Fits("adcCalibrated", <<TRUE>>)
      BY <2>3, FittingValues
    <3>3. f.waitStates = <<2>> \/ f.waitStates = found.waitStates
      BY <2>2
    <3>4. f.prefetch = <<TRUE>> \/ f.prefetch = found.prefetch
      BY <2>2
    <3>5. f.adcCalibrated = <<TRUE>> \/ f.adcCalibrated = found.adcCalibrated
      BY <2>2
    <3> QED BY <2>2, <3>1, <3>2, <3>3, <3>4, <3>5
  <2>6. \A r \in Single \ Set : Fits(r, f[r])
    BY <1>3, <1>4 DEF Registers
  <2> QED BY <2>4, <2>5, <2>6 DEF Single
<1> HIDE DEF f
<1>11. ASSUME NEW r \in Registers PROVE Fits(r, f[r])
  <2>1. CASE r \in Set
    BY <1>5, <1>6, <1>7, <1>8, <1>9, <1>10, <2>1 DEF Single
  <2>2. CASE r \notin Set
    BY <1>3, <1>4, <2>2
  <2> QED BY <2>1, <2>2
<1>12. WellFormed(f)
  BY <1>2, <1>11 DEF WellFormed
<1> QED BY <1>12 DEF f

-----------------------------------------------------------------------------
(* What a program does to the settings.                                    *)

Settings == Registers \ Flags

\* The program q takes the settings from those of f to those of g.
Does(q, f, g) == \A r \in Settings : \A i \in Index(r) : Turns(q, r, i, f[r][i], g[r][i])

Booted == {"frcDiv", "pbDiv", "pbOn", "refBase", "refDiv", "refTrim", "refOn", "refOut",
           "status", "state", "waitStates", "prefetch", "lat", "tris", "ansel", "cnOn", "cnPu",
           "pps", "adcSource", "adcOn", "adcAnalog", "adcCalibrated"}

LEMMA ConfiguredSource ==
  ASSUME NEW f, WellFormed(f), NEW g, g = Configured(f)
  PROVE  g.adcSource[1] = "software edge"
<1>1. "adcSource" \in DOMAIN f
  BY DEF WellFormed, Registers, Single
<1>2. g.adcSource = <<"software edge">>
  BY <1>1 DEF Configured
<1>3. \A v : g.adcSource = <<v>> => g.adcSource[1] = v
  OBVIOUS
<1> QED BY <1>2, <1>3

LEMMA ConfiguredRest ==
  ASSUME NEW f, WellFormed(f), NEW g, g = Configured(f)
  PROVE  \A r \in Registers \ Booted : g[r] = f[r]
<1>1. DOMAIN f = Registers /\ Booted \subseteq Registers
  BY DEF WellFormed, Registers, PerBus, PerReference, PerChannel, AndForAll, Single, Booted
<1>2. \A r \in Registers \ Booted : g[r] = f[r]
  BY <1>1, ZenonT(40) DEF Configured, Booted
<1> QED BY <1>2

LEMMA ConfiguredClock ==
  ASSUME NEW f, WellFormed(f), NEW g, g = Configured(f)
  PROVE  /\ g.frcDiv[1] = 1 /\ g.refBase[1] = "SYSCLK"
         /\ g.refDiv[1] = 19 /\ g.refTrim[1] = 272
<1>1. DOMAIN f = Registers /\ Booted \subseteq Registers
  BY DEF WellFormed, Registers, PerBus, PerReference, PerChannel, AndForAll, Single, Booted
<1>2. /\ g.frcDiv = <<1>> /\ g.refBase = <<"SYSCLK">>
      /\ g.refDiv = <<19>> /\ g.refTrim = <<272>>
  BY <1>1 DEF Configured, Booted
<1> HIDE DEF Configured
<1>3. g.frcDiv = <<1>> => g.frcDiv[1] = 1
  OBVIOUS
<1>4. g.refBase = <<"SYSCLK">> => g.refBase[1] = "SYSCLK"
  OBVIOUS
<1>5. g.refDiv = <<19>> => g.refDiv[1] = 19
  OBVIOUS
<1>6. g.refTrim = <<272>> => g.refTrim[1] = 272
  OBVIOUS
<1> QED BY <1>2, <1>3, <1>4, <1>5, <1>6

LEMMA ConfiguredDivisors ==
  ASSUME NEW f, WellFormed(f), NEW g, g = Configured(f), NEW b \in Buses
  PROVE  g.pbDiv[b] = IF b = 6 THEN f.pbDiv[b] ELSE IF b = 7 THEN 1 ELSE 2
<1>1. DOMAIN f = Registers /\ Booted \subseteq Registers
  BY DEF WellFormed, Registers, PerBus, PerReference, PerChannel, AndForAll, Single, Booted
<1>2. g.pbDiv = [c \in Buses |-> IF c = 6 THEN f.pbDiv[6] ELSE IF c = 7 THEN 1 ELSE 2]
  BY <1>1 DEF Configured, Booted
<1> HIDE DEF Configured
<1>3. g.pbDiv[b] = IF b = 6 THEN f.pbDiv[6] ELSE IF b = 7 THEN 1 ELSE 2
  BY <1>2, Zenon
<1>4. CASE b = 6
  BY <1>3, <1>4
<1>5. CASE b # 6
  BY <1>3, <1>5
<1> QED BY <1>4, <1>5

LEMMA ConfiguredBuses ==
  ASSUME NEW f, WellFormed(f), NEW g, g = Configured(f), NEW b \in Buses
  PROVE  g.pbOn[b] = IF b = 6 THEN f.pbOn[b] ELSE TRUE
<1>1. DOMAIN f = Registers /\ Booted \subseteq Registers
  BY DEF WellFormed, Registers, PerBus, PerReference, PerChannel, AndForAll, Single, Booted
<1>2. g.pbOn = [c \in Buses |-> IF c = 6 THEN f.pbOn[6] ELSE TRUE]
  BY <1>1 DEF Configured, Booted
<1> HIDE DEF Configured
<1>3. g.pbOn[b] = IF b = 6 THEN f.pbOn[6] ELSE TRUE
  BY <1>2, Zenon
<1>4. CASE b = 6
  BY <1>3, <1>4
<1>5. CASE b # 6
  BY <1>3, <1>5
<1> QED BY <1>4, <1>5

LEMMA ConfiguredReferences ==
  ASSUME NEW f, WellFormed(f), NEW g, g = Configured(f), NEW i \in References
  PROVE  g.refOn[i] = (i = 1) /\ g.refOut[i] = FALSE
<1>1. DOMAIN f = Registers /\ Booted \subseteq Registers
  BY DEF WellFormed, Registers, PerBus, PerReference, PerChannel, AndForAll, Single, Booted
<1>2. g.refOn = [r \in References |-> r = 1] /\ g.refOut = [r \in References |-> FALSE]
  BY <1>1 DEF Configured, Booted
<1> QED BY <1>2

LEMMA ConfiguredDevcon ==
  ASSUME NEW f, WellFormed(f), NEW g, g = Configured(f)
  PROVE  g.status[1] = "READY" /\ g.state[1] = "READY"
<1>1. DOMAIN f = Registers /\ Booted \subseteq Registers
  BY DEF WellFormed, Registers, PerBus, PerReference, PerChannel, AndForAll, Single, Booted
<1>2. g.status = <<"READY">> /\ g.state = <<"READY">>
  BY <1>1 DEF Configured, Booted
<1> HIDE DEF Configured
<1>3. g.status = <<"READY">> => g.status[1] = "READY"
  OBVIOUS
<1>4. g.state = <<"READY">> => g.state[1] = "READY"
  OBVIOUS
<1> QED BY <1>2, <1>3, <1>4

LEMMA ConfiguredConverter ==
  ASSUME NEW f, WellFormed(f), NEW g, g = Configured(f)
  PROVE  g.adcOn[1] = TRUE /\ g.adcAnalog[1] = TRUE
<1>1. DOMAIN f = Registers /\ Booted \subseteq Registers
  BY DEF WellFormed, Registers, PerBus, PerReference, PerChannel, AndForAll, Single, Booted
<1>2. g.adcOn = <<TRUE>> /\ g.adcAnalog = <<TRUE>>
  BY <1>1 DEF Configured, Booted
<1> HIDE DEF Configured
<1>3. g.adcOn = <<TRUE>> => g.adcOn[1] = TRUE
  OBVIOUS
<1>4. g.adcAnalog = <<TRUE>> => g.adcAnalog[1] = TRUE
  OBVIOUS
<1> QED BY <1>2, <1>3, <1>4

LEMMA ConfiguredWhere ==
  ASSUME NEW f, WellFormed(f), NEW g, g = Configured(f)
  PROVE  /\ g.waitStates[1] = IF "WaitState" \in exists THEN 2 ELSE f.waitStates[1]
         /\ g.prefetch[1] = IF "PrefetchEnable" \in exists THEN TRUE ELSE f.prefetch[1]
         /\ g.adcCalibrated[1] = IF "DEVADC0" \in exists THEN TRUE ELSE f.adcCalibrated[1]
<1>1. DOMAIN f = Registers /\ Booted \subseteq Registers
  BY DEF WellFormed, Registers, PerBus, PerReference, PerChannel, AndForAll, Single, Booted
<1>2. /\ g.waitStates = IF "WaitState" \in exists THEN <<2>> ELSE f.waitStates
      /\ g.prefetch = IF "PrefetchEnable" \in exists THEN <<TRUE>> ELSE f.prefetch
      /\ g.adcCalibrated = IF "DEVADC0" \in exists THEN <<TRUE>> ELSE f.adcCalibrated
  BY <1>1 DEF Configured, Booted
<1> HIDE DEF Configured
<1>3. /\ g.waitStates[1] = IF "WaitState" \in exists THEN 2 ELSE f.waitStates[1]
      /\ g.prefetch[1] = IF "PrefetchEnable" \in exists THEN TRUE ELSE f.prefetch[1]
      /\ g.adcCalibrated[1] = IF "DEVADC0" \in exists THEN TRUE ELSE f.adcCalibrated[1]
  BY <1>2
<1> QED BY <1>3

LEMMA ConfiguredPorts ==
  ASSUME NEW f, WellFormed(f), NEW g, g = Configured(f)
  PROVE  g.lat = Zero /\ g.tris = Input /\ g.ansel = Analog /\ g.pps = Remapped
<1>1. DOMAIN f = Registers /\ Booted \subseteq Registers
  BY DEF WellFormed, Registers, PerBus, PerReference, PerChannel, AndForAll, Single, Booted
<1> QED BY <1>1 DEF Configured, Booted

LEMMA ConfiguredNotice ==
  ASSUME NEW f, WellFormed(f), NEW g, g = Configured(f)
  PROVE  (\A c \in Channels : g.cnOn[c] = TRUE) /\ g.cnOn["all"] = FALSE
<1>1. DOMAIN f = Registers /\ Booted \subseteq Registers
  BY DEF WellFormed, Registers, PerBus, PerReference, PerChannel, AndForAll, Single, Booted
<1>2. g.cnOn = [c \in Channels \union {"all"} |-> c # "all"]
  <2>1. DOMAIN f.cnOn = Channels \union {"all"}
    BY <1>1, Indices DEF WellFormed, Fits, AndForAll, Booted
  <2> QED BY <1>1, <2>1 DEF Configured, Booted
<1>3. \A c \in Channels : c # "all"
  BY DEF Channels
<1> HIDE DEF Configured
<1> QED BY <1>2, <1>3

LEMMA ConfiguredPullUps ==
  ASSUME NEW f, WellFormed(f), NEW g, g = Configured(f)
  PROVE  (\A c \in Channels : g.cnPu[c] = PullUp[c]) /\ g.cnPu["all"] = {}
<1>1. DOMAIN f = Registers /\ Booted \subseteq Registers
  BY DEF WellFormed, Registers, PerBus, PerReference, PerChannel, AndForAll, Single, Booted
<1>2. g.cnPu = [c \in Channels \union {"all"} |-> IF c = "all" THEN {} ELSE PullUp[c]]
  <2>1. DOMAIN f.cnPu = Channels \union {"all"}
    BY <1>1, Indices DEF WellFormed, Fits, AndForAll, Booted
  <2> QED BY <1>1, <2>1 DEF Configured, Booted
<1>3. \A c \in Channels : c # "all"
  BY DEF Channels
<1> HIDE DEF Configured
<1> QED BY <1>2, <1>3

\* SYS_Initialize is its parts, which touch different registers.
LEMMA BootParts ==
  ASSUME NEW r, NEW i, NEW v, NEW w
  PROVE  /\ r \in ClockSettings /\ Turns(SYS_CLK_Initialize, r, i, v, w) => Turns(SYS_Initialize, r, i, v, w)
         /\ r \in {"status", "state"} /\ Turns(SYS_DEVCON_Initialize, r, i, v, w) =>
              Turns(SYS_Initialize, r, i, v, w)
         /\ /\ r \in Guarded
            /\ Turns(SYS_DEVCON_PerformanceConfig(SYS_CLK_SystemFrequencyGet), r, i, v, w)
            => Turns(SYS_Initialize, r, i, v, w)
         /\ r \in PortSettings /\ Turns(SYS_PORTS_Initialize, r, i, v, w) => Turns(SYS_Initialize, r, i, v, w)
         /\ r \in ConverterSettings /\ Turns(DRV_ADC_Initialize, r, i, v, w) => Turns(SYS_Initialize, r, i, v, w)
         /\ r \notin ClockSettings \union {"status", "state"} \union Guarded \union PortSettings
                     \union ConverterSettings => Turns(SYS_Initialize, r, i, v, v)
<1> DEFINE C == SYS_CLK_Initialize
           D == SYS_DEVCON_Initialize
           G == SYS_DEVCON_PerformanceConfig(SYS_CLK_SystemFrequencyGet)
           P == SYS_PORTS_Initialize
           A == DRV_ADC_Initialize
           A5 == C \o D \o G \o P \o A
<1>1. /\ Only(C, ClockSettings) /\ Only(D, {"status", "state"}) /\ Only(G, Guarded)
      /\ Only(P, PortSettings) /\ Only(A, ConverterSettings)
  BY ClockTurns, DevconTurns, PerformanceTurns, PortsTurn, ConverterTurns
<1>2. SYS_Initialize = A5 \o Started("flash") \o Started("timer") \o Started("usart0") \o Started("usart1")
                       \o Started("interrupts") \o Do("enable") \o Started("app")
  BY DEF SYS_Initialize
<1> HIDE DEF C, D, G, P, A
<1>3. \A u : Turns(Do("enable"), r, i, u, u) /\ \A s : Turns(Started(s), r, i, u, u)
  BY TurnsOperations DEF Accesses
<1>4. ASSUME NEW x, NEW y, Turns(A5, r, i, x, y) PROVE Turns(SYS_Initialize, r, i, x, y)
  <2> HIDE DEF A5
  <2> QED BY <1>2, <1>3, <1>4, TurnsThen
<1>5. ASSUME NEW a, NEW b, NEW c, NEW d, NEW e, NEW x, Turns(C, r, i, a, b), Turns(D, r, i, b, c),
             Turns(G, r, i, c, d), Turns(P, r, i, d, e), Turns(A, r, i, e, x)
      PROVE  Turns(SYS_Initialize, r, i, a, x)
  <2>1. Turns(A5, r, i, a, x)
    BY <1>5, TurnsThen
  <2> QED BY <1>4, <2>1
<1>6. \A u : /\ r \notin ClockSettings => Turns(C, r, i, u, u)
             /\ r \notin {"status", "state"} => Turns(D, r, i, u, u)
             /\ r \notin Guarded => Turns(G, r, i, u, u)
             /\ r \notin PortSettings => Turns(P, r, i, u, u)
             /\ r \notin ConverterSettings => Turns(A, r, i, u, u)
  BY <1>1 DEF Only
<1>7. CASE r \in ClockSettings
  <2>1. /\ r \notin {"status", "state"} /\ r \notin Guarded /\ r \notin PortSettings
        /\ r \notin ConverterSettings
    BY <1>7 DEF ClockSettings, Guarded, PortSettings, ChannelSettings, ConverterSettings
  <2>2. Turns(C, r, i, v, w) => Turns(SYS_Initialize, r, i, v, w)
    BY <1>5, <1>6, <2>1
  <2> QED BY <1>7, <2>1, <2>2 DEF C
<1>8. CASE r \in {"status", "state"}
  <2>1. r \notin ClockSettings /\ r \notin Guarded /\ r \notin PortSettings /\ r \notin ConverterSettings
    BY <1>8 DEF ClockSettings, Guarded, PortSettings, ChannelSettings, ConverterSettings
  <2>2. Turns(D, r, i, v, w) => Turns(SYS_Initialize, r, i, v, w)
    BY <1>5, <1>6, <2>1
  <2> QED BY <1>8, <2>1, <2>2 DEF D
<1>9. CASE r \in Guarded
  <2>1. /\ r \notin ClockSettings /\ r \notin {"status", "state"} /\ r \notin PortSettings
        /\ r \notin ConverterSettings
    BY <1>9 DEF ClockSettings, Guarded, PortSettings, ChannelSettings, ConverterSettings
  <2>2. Turns(G, r, i, v, w) => Turns(SYS_Initialize, r, i, v, w)
    BY <1>5, <1>6, <2>1
  <2> QED BY <1>9, <2>1, <2>2 DEF G
<1>10. CASE r \in PortSettings
  <2>1. /\ r \notin ClockSettings /\ r \notin {"status", "state"} /\ r \notin Guarded
        /\ r \notin ConverterSettings
    BY <1>10 DEF ClockSettings, Guarded, PortSettings, ChannelSettings, ConverterSettings
  <2>2. Turns(P, r, i, v, w) => Turns(SYS_Initialize, r, i, v, w)
    BY <1>5, <1>6, <2>1
  <2> QED BY <1>10, <2>1, <2>2 DEF P
<1>11. CASE r \in ConverterSettings
  <2>1. /\ r \notin ClockSettings /\ r \notin {"status", "state"} /\ r \notin Guarded
        /\ r \notin PortSettings
    BY <1>11 DEF ClockSettings, Guarded, PortSettings, ChannelSettings, ConverterSettings
  <2>2. Turns(A, r, i, v, w) => Turns(SYS_Initialize, r, i, v, w)
    BY <1>5, <1>6, <2>1
  <2> QED BY <1>11, <2>1, <2>2 DEF A
<1>12. CASE r \notin ClockSettings \union {"status", "state"} \union Guarded \union PortSettings
                     \union ConverterSettings
  <2>1. Turns(SYS_Initialize, r, i, v, v)
    BY <1>5, <1>6, <1>12
  <2> QED BY <1>12, <2>1
<1> QED BY <1>7, <1>8, <1>9, <1>10, <1>11, <1>12

\* What SYS_Initialize does to each kind of register.
LEMMA BootSingle ==
  ASSUME NEW f, WellFormed(f), NEW h, h = Configured(f), NEW r \in Single \ Flags
  PROVE  Turns(SYS_Initialize, r, 1, f[r][1], h[r][1])
<1>1. Turns(SYS_Initialize, "frcDiv", 1, f.frcDiv[1], h.frcDiv[1])
  <2>1. h.frcDiv[1] = 1
    BY ConfiguredClock
  <2>2. Turns(SYS_CLK_Initialize, "frcDiv", 1, f.frcDiv[1], h.frcDiv[1])
    BY <2>1, ClockTurns
  <2>3. "frcDiv" \in ClockSettings
    BY DEF ClockSettings
  <2> QED BY <2>2, <2>3, BootParts
<1>2. Turns(SYS_Initialize, "refBase", 1, f.refBase[1], h.refBase[1])
  <2>1. h.refBase[1] = "SYSCLK"
    BY ConfiguredClock
  <2>2. Turns(SYS_CLK_Initialize, "refBase", 1, f.refBase[1], h.refBase[1])
    BY <2>1, ClockTurns
  <2>3. "refBase" \in ClockSettings
    BY DEF ClockSettings
  <2> QED BY <2>2, <2>3, BootParts
<1>3. Turns(SYS_Initialize, "refDiv", 1, f.refDiv[1], h.refDiv[1])
  <2>1. h.refDiv[1] = 19
    BY ConfiguredClock
  <2>2. Turns(SYS_CLK_Initialize, "refDiv", 1, f.refDiv[1], h.refDiv[1])
    BY <2>1, ClockTurns
  <2>3. "refDiv" \in ClockSettings
    BY DEF ClockSettings
  <2> QED BY <2>2, <2>3, BootParts
<1>4. Turns(SYS_Initialize, "refTrim", 1, f.refTrim[1], h.refTrim[1])
  <2>1. h.refTrim[1] = 272
    BY ConfiguredClock
  <2>2. Turns(SYS_CLK_Initialize, "refTrim", 1, f.refTrim[1], h.refTrim[1])
    BY <2>1, ClockTurns
  <2>3. "refTrim" \in ClockSettings
    BY DEF ClockSettings
  <2> QED BY <2>2, <2>3, BootParts
<1>5. Turns(SYS_Initialize, "status", 1, f.status[1], h.status[1])
  <2>1. h.status[1] = "READY"
    BY ConfiguredDevcon
  <2>2. Turns(SYS_DEVCON_Initialize, "status", 1, f.status[1], h.status[1])
    BY <2>1, DevconTurns
  <2>3. "status" \in {"status", "state"}
    OBVIOUS
  <2> QED BY <2>2, <2>3, BootParts
<1>6. Turns(SYS_Initialize, "state", 1, f.state[1], h.state[1])
  <2>1. h.state[1] = "READY"
    BY ConfiguredDevcon
  <2>2. Turns(SYS_DEVCON_Initialize, "state", 1, f.state[1], h.state[1])
    BY <2>1, DevconTurns
  <2>3. "state" \in {"status", "state"}
    OBVIOUS
  <2> QED BY <2>2, <2>3, BootParts
<1>7. Turns(SYS_Initialize, "waitStates", 1, f.waitStates[1], h.waitStates[1])
  <2>1. h.waitStates[1] = IF "WaitState" \in exists THEN 2 ELSE f.waitStates[1]
    BY ConfiguredWhere
  <2>2. Turns(SYS_DEVCON_PerformanceConfig(SYS_CLK_SystemFrequencyGet), "waitStates", 1, f.waitStates[1], h.waitStates[1])
    BY <2>1, PerformanceTurns, WaitStatesValue
  <2>3. "waitStates" \in Guarded
    BY DEF Guarded
  <2> QED BY <2>2, <2>3, BootParts
<1>8. Turns(SYS_Initialize, "prefetch", 1, f.prefetch[1], h.prefetch[1])
  <2>1. h.prefetch[1] = IF "PrefetchEnable" \in exists THEN TRUE ELSE f.prefetch[1]
    BY ConfiguredWhere
  <2>2. Turns(SYS_DEVCON_PerformanceConfig(SYS_CLK_SystemFrequencyGet), "prefetch", 1, f.prefetch[1], h.prefetch[1])
    BY <2>1, PerformanceTurns, WaitStatesValue
  <2>3. "prefetch" \in Guarded
    BY DEF Guarded
  <2> QED BY <2>2, <2>3, BootParts
<1>9. Turns(SYS_Initialize, "adcSource", 1, f.adcSource[1], h.adcSource[1])
  <2>1. \A w : h.adcSource[1] = w /\ Turns(DRV_ADC_Initialize, "adcSource", 1, f.adcSource[1], w) => Turns(DRV_ADC_Initialize, "adcSource", 1, f.adcSource[1], h.adcSource[1])
    OBVIOUS
  <2>2. Turns(DRV_ADC_Initialize, "adcSource", 1, f.adcSource[1], h.adcSource[1])
    BY <2>1, ConfiguredSource, ConverterTurns
  <2>3. "adcSource" \in ConverterSettings
    BY DEF ConverterSettings
  <2> QED BY <2>2, <2>3, BootParts
<1>10. Turns(SYS_Initialize, "adcCalibrated", 1, f.adcCalibrated[1], h.adcCalibrated[1])
  <2>1. h.adcCalibrated[1] = IF "DEVADC0" \in exists THEN TRUE ELSE f.adcCalibrated[1]
    BY ConfiguredWhere
  <2>2. Turns(DRV_ADC_Initialize, "adcCalibrated", 1, f.adcCalibrated[1], h.adcCalibrated[1])
    BY <2>1, ConverterTurns
  <2>3. "adcCalibrated" \in ConverterSettings
    BY DEF ConverterSettings
  <2> QED BY <2>2, <2>3, BootParts
<1>11. Turns(SYS_Initialize, "adcOn", 1, f.adcOn[1], h.adcOn[1])
  <2>1. h.adcOn[1] = TRUE
    BY ConfiguredConverter
  <2>2. Turns(DRV_ADC_Initialize, "adcOn", 1, f.adcOn[1], h.adcOn[1])
    BY <2>1, ConverterTurns
  <2>3. "adcOn" \in ConverterSettings
    BY DEF ConverterSettings
  <2> QED BY <2>2, <2>3, BootParts
<1>12. Turns(SYS_Initialize, "adcAnalog", 1, f.adcAnalog[1], h.adcAnalog[1])
  <2>1. h.adcAnalog[1] = TRUE
    BY ConfiguredConverter
  <2>2. Turns(DRV_ADC_Initialize, "adcAnalog", 1, f.adcAnalog[1], h.adcAnalog[1])
    BY <2>1, ConverterTurns
  <2>3. "adcAnalog" \in ConverterSettings
    BY DEF ConverterSettings
  <2> QED BY <2>2, <2>3, BootParts
<1>13. CASE r \notin Booted
  <2>1. h[r] = f[r]
    BY <1>13, ConfiguredRest DEF Registers
  <2>2. /\ r \notin ClockSettings /\ r \notin {"status", "state"} /\ r \notin Guarded
        /\ r \notin PortSettings /\ r \notin ConverterSettings
    BY <1>13 DEF Booted, Single, ClockSettings, PortSettings, ChannelSettings, ConverterSettings, Guarded
  <2> QED BY <2>1, <2>2, BootParts
<1>14. r \in Booted => r \in {"frcDiv", "refBase", "refDiv", "refTrim", "status", "state", "waitStates", "prefetch", "adcSource", "adcCalibrated", "adcOn", "adcAnalog"}
  BY DEF Booted, Single
<1> QED BY <1>1, <1>2, <1>3, <1>4, <1>5, <1>6, <1>7, <1>8, <1>9, <1>10, <1>11, <1>12, <1>13, <1>14

LEMMA BootMany ==
  ASSUME NEW f, WellFormed(f), NEW h, h = Configured(f)
  PROVE  /\ \A r \in PerBus : \A i \in Buses : Turns(SYS_Initialize, r, i, f[r][i], h[r][i])
         /\ \A r \in PerReference : \A i \in References : Turns(SYS_Initialize, r, i, f[r][i], h[r][i])
         /\ \A i \in DOMAIN Remapped : Turns(SYS_Initialize, "pps", i, f.pps[i], h.pps[i])
         /\ Turns(SYS_Initialize, "cnInIdle", "all", f.cnInIdle["all"], h.cnInIdle["all"])
<1>1. ASSUME NEW i \in Buses
      PROVE  /\ Turns(SYS_Initialize, "pbDiv", i, f.pbDiv[i], h.pbDiv[i])
             /\ Turns(SYS_Initialize, "pbOn", i, f.pbOn[i], h.pbOn[i])
  <2>1. h.pbDiv[i] = IF i = 6 THEN f.pbDiv[i] ELSE IF i = 7 THEN 1 ELSE 2
    BY ConfiguredDivisors
  <2>2. h.pbOn[i] = IF i = 6 THEN f.pbOn[i] ELSE TRUE
    BY ConfiguredBuses
  <2>3. Turns(SYS_CLK_Initialize, "pbDiv", i, f.pbDiv[i], h.pbDiv[i])
    BY <2>1, ClockTurns
  <2>4. Turns(SYS_CLK_Initialize, "pbOn", i, f.pbOn[i], h.pbOn[i])
    BY <2>2, ClockTurns
  <2>5. "pbDiv" \in ClockSettings /\ "pbOn" \in ClockSettings
    BY DEF ClockSettings
  <2> QED BY <2>3, <2>4, <2>5, BootParts
<1>2. ASSUME NEW i \in References
      PROVE  /\ Turns(SYS_Initialize, "refOn", i, f.refOn[i], h.refOn[i])
             /\ Turns(SYS_Initialize, "refOut", i, f.refOut[i], h.refOut[i])
  <2>1. h.refOn[i] = (i = 1) /\ h.refOut[i] = FALSE
    BY ConfiguredReferences
  <2>2. Turns(SYS_CLK_Initialize, "refOn", i, f.refOn[i], h.refOn[i])
    BY <2>1, ClockTurns
  <2>3. Turns(SYS_CLK_Initialize, "refOut", i, f.refOut[i], h.refOut[i])
    BY <2>1, ClockTurns
  <2>4. "refOn" \in ClockSettings /\ "refOut" \in ClockSettings
    BY DEF ClockSettings
  <2> QED BY <2>2, <2>3, <2>4, BootParts
<1>3. ASSUME NEW i \in DOMAIN Remapped PROVE Turns(SYS_Initialize, "pps", i, f.pps[i], h.pps[i])
  <2>1. h.pps = Remapped
    BY ConfiguredPorts
  <2>2. Turns(SYS_PORTS_Initialize, "pps", i, f.pps[i], h.pps[i])
    BY <2>1, PortsTurn
  <2>3. "pps" \in PortSettings
    BY DEF PortSettings
  <2> QED BY <2>2, <2>3, BootParts
<1>4. Turns(SYS_Initialize, "cnInIdle", "all", f.cnInIdle["all"], h.cnInIdle["all"])
  <2>1. "cnInIdle" \in Registers \ Booted
    BY DEF Registers, Booted
  <2>2. h.cnInIdle = f.cnInIdle
    BY <2>1, ConfiguredRest
  <2>3. /\ "cnInIdle" \notin ClockSettings /\ "cnInIdle" \notin {"status", "state"}
        /\ "cnInIdle" \notin Guarded /\ "cnInIdle" \notin PortSettings
        /\ "cnInIdle" \notin ConverterSettings
    BY DEF ClockSettings, PortSettings, ChannelSettings, ConverterSettings, Guarded
  <2> QED BY <2>2, <2>3, BootParts
<1> QED BY <1>1, <1>2, <1>3, <1>4 DEF PerBus, PerReference

\* The ports are as a reset leaves them.
AtReset(f) == /\ f.cnPu["all"] = {} /\ f.cnOn["all"] = FALSE
              /\ \A c \in Channels : f.tris[c] = Bits /\ f.ansel[c] = Bits /\ f.cnPu[c] = {}

LEMMA BootChannels ==
  ASSUME NEW f, WellFormed(f), AtReset(f), NEW h, h = Configured(f),
         NEW r \in PerChannel \union AndForAll, NEW i \in Index(r)
  PROVE  Turns(SYS_Initialize, r, i, f[r][i], h[r][i])
<1>1. r \in ChannelSettings /\ r \in PortSettings /\ (i \in Channels \/ (i = "all" /\ r \in AndForAll))
  <2>1. r \in ChannelSettings /\ r \in PortSettings
    BY DEF PerChannel, AndForAll, ChannelSettings, PortSettings
  <2>2. CASE r \in PerChannel
    <3>1. i \in Channels
      BY <2>2, Indices
    <3> QED BY <2>1, <3>1
  <2>3. CASE r \in AndForAll
    <3>1. i \in Channels \union {"all"}
      BY <2>3, Indices
    <3> QED BY <2>1, <2>3, <3>1
  <2> QED BY <2>2, <2>3
<1>2. CASE i \in Channels
  <2>1. /\ f.tris[i] = Bits /\ f.ansel[i] = Bits /\ f.cnPu[i] = {} /\ Zero[i] = {}
    BY <1>2 DEF AtReset, Zero
  <2>2. h.lat = Zero /\ h.tris = Input /\ h.ansel = Analog
    BY ConfiguredPorts
  <2>3. h.cnOn[i] = TRUE /\ h.cnPu[i] = PullUp[i]
    <3>1. h.cnPu[i] = PullUp[i]
      BY <1>2, ConfiguredPullUps
    <3>2. h.cnOn[i] = TRUE
      BY <1>2, ConfiguredNotice
    <3> QED BY <1>2, <3>1, <3>2
  <2>4. Bits \ (Bits \ Input[i]) = Input[i]
    <3>1. Input[i] \subseteq Bits
      BY <1>2 DEF Input, BitsOf, Channels
    <3> QED BY <3>1
  <2>5. Bits \ (Bits \ Analog[i]) = Analog[i]
    <3>1. Analog[i] \subseteq Bits
      BY <1>2 DEF Analog, BitsOf, Channels
    <3> QED BY <3>1
  <2>6. h.odc = f.odc /\ h.cnEn = f.cnEn /\ h.cnPd = f.cnPd
    <3>1. {"odc", "cnEn", "cnPd"} \subseteq Registers \ Booted
      BY DEF Booted, Registers, PerChannel, AndForAll
    <3> QED BY <3>1, ConfiguredRest
  <2>7. /\ Channelled("odc", i, f.odc[i]) = h.odc[i] /\ Channelled("cnEn", i, f.cnEn[i]) = h.cnEn[i]
        /\ Channelled("cnPd", i, f.cnPd[i]) = h.cnPd[i]
    BY <2>1, <2>6 DEF Channelled
  <2>8. Channelled("tris", i, f.tris[i]) = h.tris[i] /\ Channelled("ansel", i, f.ansel[i]) = h.ansel[i]
    BY <2>1, <2>2, <2>4, <2>5 DEF Channelled
  <2>9. Channelled("lat", i, f.lat[i]) = h.lat[i]
    BY <2>2 DEF Channelled
  <2>10. Channelled("cnPu", i, f.cnPu[i]) = h.cnPu[i]
    BY <2>1, <2>3 DEF Channelled
  <2>11. Channelled("cnOn", i, f.cnOn[i]) = h.cnOn[i]
    BY <2>3 DEF Channelled
  <2>12. Channelled(r, i, f[r][i]) = h[r][i]
    <3> HIDE DEF Channelled
    <3> QED BY <1>1, <2>7, <2>8, <2>9, <2>10, <2>11 DEF ChannelSettings
  <2>13. Turns(SYS_PORTS_Initialize, r, i, f[r][i], h[r][i])
    BY <1>1, <1>2, <2>12, PortsTurn
  <2> QED BY <1>1, <2>13, BootParts
<1>3. CASE i = "all" /\ r \in AndForAll
  <2>1. h.cnOn["all"] = f.cnOn["all"] /\ h.cnPu["all"] = f.cnPu["all"]
    BY ConfiguredNotice, ConfiguredPullUps DEF AtReset
  <2>2. h.cnEn = f.cnEn
    <3>1. "cnEn" \in Registers \ Booted
      BY DEF Booted, Registers, AndForAll
    <3> QED BY <3>1, ConfiguredRest
  <2>3. h[r][i] = f[r][i]
    BY <1>3, <2>1, <2>2 DEF AndForAll
  <2>4. Turns(SYS_PORTS_Initialize, r, i, f[r][i], f[r][i])
    BY <1>1, <1>3, PortsTurn
  <2> QED BY <1>1, <2>3, <2>4, BootParts
<1> QED BY <1>1, <1>2, <1>3

LEMMA BootDoes ==
  ASSUME NEW f, WellFormed(f), AtReset(f)
  PROVE  Does(SYS_Initialize, f, Configured(f))
<1>1. ASSUME NEW h, h = Configured(f), NEW r \in Settings, NEW i \in Index(r)
      PROVE  Turns(SYS_Initialize, r, i, f[r][i], h[r][i])
  <2>1. CASE r \in Single
    <3>1. i = 1 /\ r \in Single \ Flags
      BY <2>1, Indices DEF Settings
    <3> QED BY <1>1, <3>1, BootSingle
  <2>2. CASE r \in PerBus
    BY <1>1, <2>2, Indices, BootMany
  <2>3. CASE r \in PerReference
    BY <1>1, <2>3, Indices, BootMany
  <2>4. CASE r \in PerChannel \union AndForAll
    BY <1>1, <2>4, BootChannels
  <2>5. CASE r = "cnInIdle"
    BY <1>1, <2>5, Indices, BootMany
  <2>6. CASE r = "pps"
    BY <1>1, <2>6, Indices, BootMany
  <2> QED BY <2>1, <2>2, <2>3, <2>4, <2>5, <2>6 DEF Settings, Registers
<1> QED BY <1>1 DEF Does

-----------------------------------------------------------------------------
(* Services that do what is wanted of them.                                *)

\* What SYS_Initialize sets for good.
Kept == ClockSettings \union {"prefetch", "state"}

\* The service q leaves the control as it finds it, keeps what is set for good and
\* takes the settings from those of f to those of g.
Means(q, f, g) == Steady(q) /\ WellFormed(g) /\ Does(q, f, g) /\ \A r \in Kept : g[r] = f[r]

LEMMA MeansRules ==
  ASSUME NEW f, WellFormed(f)
  PROVE  /\ \A q, R : Steady(q) /\ Only(q, R) /\ R \subseteq Flags => Means(q, f, f)
         /\ \A s, t, g, h : Means(s, f, g) /\ Means(t, g, h) => Means(s \o t, f, h)
         /\ \A x, s, g : Means(s, f, g) => Means(IfExists(x, s), f, IF x \in exists THEN g ELSE f)
         /\ \A q, r, g : /\ Steady(q) /\ Only(q, {r}) /\ r \notin Kept /\ Fits(r, g)
                         /\ \A i \in Index(r) : Turns(q, r, i, f[r][i], g[i])
                         => Means(q, f, [f EXCEPT ![r] = g])
         /\ \A q, r : /\ Steady(q) /\ Only(q, {r})
                      /\ \A i \in Index(r) : Turns(q, r, i, f[r][i], f[r][i])
                      => Means(q, f, f)
<1>1. ASSUME NEW q, NEW R, Steady(q), Only(q, R), R \subseteq Flags PROVE Means(q, f, f)
  <2>1. \A r \in Settings : r \notin R
    BY <1>1 DEF Settings
  <2>2. Does(q, f, f)
    BY <1>1, <2>1 DEF Does, Only
  <2> QED BY <1>1, <2>2 DEF Means
<1>2. ASSUME NEW s, NEW t, NEW g, NEW h, Means(s, f, g), Means(t, g, h) PROVE Means(s \o t, f, h)
  <2>1. Does(s, f, g) /\ Does(t, g, h)
    BY <1>2 DEF Means
  <2>2. Does(s \o t, f, h)
    BY <2>1, TurnsThen DEF Does
  <2>3. Steady(s \o t)
    BY <1>2, SteadyRules DEF Means
  <2> QED BY <1>2, <2>2, <2>3 DEF Means
<1>3. ASSUME NEW x, NEW s, NEW g, Means(s, f, g)
      PROVE  Means(IfExists(x, s), f, IF x \in exists THEN g ELSE f)
  <2>1. CASE x \in exists
    BY <1>3, <2>1 DEF IfExists
  <2>2. CASE x \notin exists
    <3>1. Steady(<<>>) /\ Only(<<>>, {})
      BY SteadyRules, OnlyRules
    <3>2. Means(<<>>, f, f)
      BY <1>1, <3>1
    <3> QED BY <2>2, <3>2 DEF IfExists
  <2> QED BY <2>1, <2>2
<1>4. ASSUME NEW q, NEW r, NEW g, Steady(q), Only(q, {r}), r \notin Kept, Fits(r, g),
             \A i \in Index(r) : Turns(q, r, i, f[r][i], g[i])
      PROVE  Means(q, f, [f EXCEPT ![r] = g])
  <2> DEFINE h == [f EXCEPT ![r] = g]
  <2>1. WellFormed(h)
    BY <1>4, WellFormedRules
  <2>2. \A s \in Registers : h[s] = IF s = r THEN g ELSE f[s]
    BY DEF WellFormed
  <2>3. \A s \in Kept : h[s] = f[s]
    <3>1. Kept \subseteq Registers
      BY DEF Kept, ClockSettings, Registers, PerBus, PerReference, Single
    <3> QED BY <1>4, <2>2, <3>1
  <2> HIDE DEF h
  <2>4. ASSUME NEW s \in Settings, NEW i \in Index(s) PROVE Turns(q, s, i, f[s][i], h[s][i])
    <3>1. CASE s = r
      BY <1>4, <2>2, <2>4, <3>1 DEF Settings
    <3>2. CASE s # r
      <4>1. Turns(q, s, i, f[s][i], f[s][i])
        BY <1>4, <3>2 DEF Only
      <4>2. h[s] = f[s]
        BY <2>2, <3>2 DEF Settings
      <4> QED BY <4>1, <4>2
    <3> QED BY <3>1, <3>2
  <2>5. Means(q, f, h)
    BY <1>4, <2>1, <2>3, <2>4 DEF Means, Does
  <2> QED BY <2>5 DEF h
<1>5. ASSUME NEW q, NEW r, Steady(q), Only(q, {r}),
             \A i \in Index(r) : Turns(q, r, i, f[r][i], f[r][i])
      PROVE  Means(q, f, f)
  <2>1. ASSUME NEW s \in Settings, NEW i \in Index(s) PROVE Turns(q, s, i, f[s][i], f[s][i])
    BY <1>5, <2>1 DEF Only
  <2> QED BY <1>5, <2>1 DEF Means, Does
<1> QED BY <1>1, <1>2, <1>3, <1>4, <1>5

\* Services of one access.
Unprotected == Settings \ (Kept \union Protected \union Guarded)

LEMMA MeansPlace ==
  ASSUME NEW f, WellFormed(f), NEW q, NEW r \in Unprotected, NEW i \in Index(r), NEW w,
         Steady(q), Only(q, {r}), OfType(r, w),
         \A j, v : Turns(q, r, j, v, IF i = j THEN w ELSE v) \/ (i = j /\ v # f[r][i])
  PROVE  Means(q, f, [f EXCEPT ![r][i] = w])
<1> DEFINE g == [f[r] EXCEPT ![i] = w]
<1>1. r \in Registers /\ r \notin Kept
  BY DEF Unprotected, Settings
<1>2. Fits(r, f[r])
  BY <1>1 DEF WellFormed
<1>3. DOMAIN g = Index(r) /\ \A j \in Index(r) : g[j] = IF i = j THEN w ELSE f[r][j]
  BY <1>2 DEF Fits
<1>4. g = [j \in Index(r) |-> g[j]]
  BY <1>2 DEF Fits
<1>5. Fits(r, g)
  BY <1>2, <1>3, <1>4 DEF Fits
<1>6. \A j \in Index(r) : Turns(q, r, j, f[r][j], g[j])
  <2> HIDE DEF g
  <2>1. \A j \in Index(r) : Turns(q, r, j, f[r][j], IF i = j THEN w ELSE f[r][j])
    OBVIOUS
  <2> QED BY <1>3, <2>1
<1>7. Means(q, f, [f EXCEPT ![r] = g])
  <2> HIDE DEF g
  <2> QED BY <1>1, <1>5, <1>6, MeansRules
<1>8. [f EXCEPT ![r] = g] = [f EXCEPT ![r][i] = w]
  OBVIOUS
<1> QED BY <1>7, <1>8

LEMMA MeansOperations ==
  ASSUME NEW f, WellFormed(f), NEW r \in Unprotected, NEW i \in Index(r), NEW v, OfType(r, v)
  PROVE  /\ Means(Write(r, i, v), f, [f EXCEPT ![r][i] = v])
         /\ r \in Masked => /\ Means(SetBits(r, i, v), f, [f EXCEPT ![r][i] = f[r][i] \union v])
                            /\ Means(ClearBits(r, i, v), f, [f EXCEPT ![r][i] = f[r][i] \ v])
                            /\ Means(Invert(r, i, v), f,
                                     [f EXCEPT ![r][i] = (f[r][i] \ v) \union (v \ f[r][i])])
<1>1. r \in Registers /\ r \notin Guarded \union Sealed
  BY DEF Unprotected, Settings, Sealed
<1>2. r \in {r}
  OBVIOUS
<1>3. Means(Write(r, i, v), f, [f EXCEPT ![r][i] = v])
  <2>1. Steady(Write(r, i, v))
    BY <1>1, SteadyRules
  <2>2. Only(Write(r, i, v), {r})
    BY <1>2, OnlyRules
  <2>3. \A j, u : Turns(Write(r, i, v), r, j, u, IF i = j THEN v ELSE u)
    BY TurnsOperations
  <2> QED BY <2>1, <2>2, <2>3, MeansPlace
<1>4. ASSUME r \in Masked
      PROVE  /\ Means(SetBits(r, i, v), f, [f EXCEPT ![r][i] = f[r][i] \union v])
             /\ Means(ClearBits(r, i, v), f, [f EXCEPT ![r][i] = f[r][i] \ v])
             /\ Means(Invert(r, i, v), f, [f EXCEPT ![r][i] = (f[r][i] \ v) \union (v \ f[r][i])])
  <2> DEFINE a == f[r][i]
  <2>1. v \subseteq Bits /\ a \subseteq Bits
    <3>1. OfType(r, a)
      BY <1>1 DEF WellFormed, Fits
    <3> QED BY <1>4, <3>1 DEF OfType
  <2>2. OfType(r, a \union v) /\ OfType(r, a \ v) /\ OfType(r, (a \ v) \union (v \ a))
    <3>1. a \union v \subseteq Bits /\ a \ v \subseteq Bits /\ (a \ v) \union (v \ a) \subseteq Bits
      BY <2>1
    <3> HIDE DEF a
    <3> QED BY <1>4, <3>1, FittingValues
  <2>3. Steady(SetBits(r, i, v)) /\ Steady(ClearBits(r, i, v)) /\ Steady(Invert(r, i, v))
    BY <1>4, <2>1, SteadyRules
  <2>4. Only(SetBits(r, i, v), {r}) /\ Only(ClearBits(r, i, v), {r}) /\ Only(Invert(r, i, v), {r})
    BY <1>2, OnlyRules
  <2>5. /\ \A j, u : Turns(SetBits(r, i, v), r, j, u, IF i = j THEN u \union v ELSE u)
        /\ \A j, u : Turns(ClearBits(r, i, v), r, j, u, IF i = j THEN u \ v ELSE u)
        /\ \A j, u : Turns(Invert(r, i, v), r, j, u, IF i = j THEN (u \ v) \union (v \ u) ELSE u)
    BY TurnsOperations
  <2> HIDE DEF a
  <2>6. Means(SetBits(r, i, v), f, [f EXCEPT ![r][i] = a \union v])
    <3>1. \A j, u : Turns(SetBits(r, i, v), r, j, u, IF i = j THEN a \union v ELSE u) \/ (i = j /\ u # a)
      BY <2>5
    <3> QED BY <2>2, <2>3, <2>4, <3>1, MeansPlace DEF a
  <2>7. Means(ClearBits(r, i, v), f, [f EXCEPT ![r][i] = a \ v])
    <3>1. \A j, u : Turns(ClearBits(r, i, v), r, j, u, IF i = j THEN a \ v ELSE u) \/ (i = j /\ u # a)
      BY <2>5
    <3> QED BY <2>2, <2>3, <2>4, <3>1, MeansPlace DEF a
  <2>8. Means(Invert(r, i, v), f, [f EXCEPT ![r][i] = (a \ v) \union (v \ a)])
    <3>1. \A j, u : \/ Turns(Invert(r, i, v), r, j, u, IF i = j THEN (a \ v) \union (v \ a) ELSE u)
                    \/ i = j /\ u # a
      BY <2>5
    <3> QED BY <2>2, <2>3, <2>4, <3>1, MeansPlace DEF a
  <2> QED BY <2>6, <2>7, <2>8 DEF a
<1> QED BY <1>3, <1>4

\* A register of one place.
LEMMA MeansSingle ==
  ASSUME NEW f, WellFormed(f), NEW r \in Single \intersect Unprotected, NEW v, OfType(r, v)
  PROVE  Means(Write(r, 1, v), f, [f EXCEPT ![r] = <<v>>])
<1>1. r \in Registers /\ Index(r) = 1 .. 1 /\ 1 \in Index(r)
  BY Indices DEF Registers
<1>2. f[r] = [i \in 1 .. 1 |-> f[r][i]]
  BY <1>1 DEF WellFormed, Fits
<1>3. [f[r] EXCEPT ![1] = v] = <<v>>
  BY <1>2
<1>4. [f EXCEPT ![r][1] = v] = [f EXCEPT ![r] = <<v>>]
  BY <1>3
<1>5. Means(Write(r, 1, v), f, [f EXCEPT ![r][1] = v])
  BY <1>1, MeansOperations
<1> QED BY <1>4, <1>5

LEMMA MeansClock ==
  ASSUME NEW f, WellFormed(f), f.sosc[1] = reg.sosc[1]
  PROVE  /\ Means(SYS_CLK_SecondaryOscillatorEnable, f, [f EXCEPT !.sosc = <<TRUE>>])
         /\ Means(SYS_CLK_SecondaryOscillatorDisable, f, [f EXCEPT !.sosc = <<FALSE>>])
<1>1. "sosc" \in Registers /\ "sosc" \notin Kept /\ Index("sosc") = 1 .. 1 /\ "sosc" \in {"sosc"}
  BY Indices DEF Registers, Single, Kept, ClockSettings
<1>2. f.sosc[1] \in BOOLEAN
  BY <1>1 DEF WellFormed, Fits, OfType
<1>3. ASSUME NEW v \in BOOLEAN, NEW q, Steady(q),
             IF reg.sosc[1] = v THEN q = <<>>
             ELSE q = SYS_DEVCON_SystemUnlock \o Write("sosc", 1, v) \o SYS_DEVCON_SystemLock
      PROVE  Means(q, f, [f EXCEPT !.sosc = <<v>>])
  <2>1. Fits("sosc", <<v>>) /\ \A i \in Index("sosc") : i = 1 /\ <<v>>[i] = v
    BY <1>1, FittingValues
  <2>2. Only(q, {"sosc"}) /\ Turns(q, "sosc", 1, f.sosc[1], v)
    <3>1. CASE reg.sosc[1] = v
      <4>1. q = <<>> /\ f.sosc[1] = v
        BY <1>3, <3>1
      <4> QED BY <4>1, OnlyRules, TurnsRules
    <3>2. CASE reg.sosc[1] # v
      <4> DEFINE U == SYS_DEVCON_SystemUnlock
                 W == Write("sosc", 1, v)
                 L == SYS_DEVCON_SystemLock
      <4>1. q = U \o W \o L
        BY <1>3, <3>2
      <4>2. Only(U, {}) /\ Only(L, {}) /\ Only(W, {"sosc"})
        BY <1>1, KeysOnly, OnlyRules
      <4>3. \A u : Turns(W, "sosc", 1, u, v)
        BY TurnsWrite
      <4> HIDE DEF U, W, L
      <4>4. \A u : Turns(U, "sosc", 1, u, u) /\ Turns(L, "sosc", 1, u, u)
        BY <4>2 DEF Only
      <4>5. Only(U, {"sosc"}) /\ Only(L, {"sosc"})
        BY <4>2 DEF Only
      <4>6. Only(q, {"sosc"})
        BY <4>1, <4>2, <4>5, OnlyRules
      <4>7. Turns(q, "sosc", 1, f.sosc[1], v)
        BY <4>1, <4>3, <4>4, TurnsThen
      <4> QED BY <4>6, <4>7
    <3> QED BY <3>1, <3>2
  <2>3. \A i \in Index("sosc") : Turns(q, "sosc", i, f.sosc[i], <<v>>[i])
    BY <2>1, <2>2
  <2> QED BY <1>1, <1>3, <2>1, <2>2, <2>3, MeansRules
<1>4. reg.sosc[1] \in BOOLEAN
  BY <1>2
<1>5. Means(SYS_CLK_SecondaryOscillatorEnable, f, [f EXCEPT !.sosc = <<TRUE>>])
  <2>1. IF reg.sosc[1] = TRUE THEN SYS_CLK_SecondaryOscillatorEnable = <<>>
        ELSE SYS_CLK_SecondaryOscillatorEnable
               = SYS_DEVCON_SystemUnlock \o Write("sosc", 1, TRUE) \o SYS_DEVCON_SystemLock
    BY <1>4 DEF SYS_CLK_SecondaryOscillatorEnable, SYS_CLK_SecondaryOscillatorIsEnabled
  <2> QED BY <1>3, <2>1, SteadyClock
<1>6. Means(SYS_CLK_SecondaryOscillatorDisable, f, [f EXCEPT !.sosc = <<FALSE>>])
  <2>1. IF reg.sosc[1] = FALSE THEN SYS_CLK_SecondaryOscillatorDisable = <<>>
        ELSE SYS_CLK_SecondaryOscillatorDisable
               = SYS_DEVCON_SystemUnlock \o Write("sosc", 1, FALSE) \o SYS_DEVCON_SystemLock
    BY <1>4 DEF SYS_CLK_SecondaryOscillatorDisable, SYS_CLK_SecondaryOscillatorIsEnabled
  <2> QED BY <1>3, <2>1, SteadyClock
<1> QED BY <1>5, <1>6

LEMMA MeansDevcon ==
  ASSUME NEW f, WellFormed(f), f.state[1] = "READY"
  PROVE  /\ Means(SYS_DEVCON_Reinitialize, f, [f EXCEPT !.status = <<"READY">>])
         /\ Means(SYS_DEVCON_Deinitialize, f, [f EXCEPT !.status = <<"UNINITIALIZED">>])
         /\ Means(SYS_DEVCON_JTAGEnable, f, [f EXCEPT !.jtag = <<TRUE>>])
         /\ Means(SYS_DEVCON_JTAGDisable, f, [f EXCEPT !.jtag = <<FALSE>>])
         /\ Means(SYS_DEVCON_TraceEnable, f,
                  IF "TraceOutput" \in exists THEN [f EXCEPT !.trace = <<TRUE>>] ELSE f)
         /\ Means(SYS_DEVCON_TraceDisable, f,
                  IF "TraceOutput" \in exists THEN [f EXCEPT !.trace = <<FALSE>>] ELSE f)
         /\ \A mode : Means(SYS_DEVCON_PowerModeEnter(mode), f,
                            IF "OnWaitAction" \in exists THEN [f EXCEPT !.onWait = <<mode>>] ELSE f)
<1>1. {"status", "jtag", "trace"} \subseteq Single \intersect Unprotected
  BY DEF Single, Unprotected, Settings, Registers, Kept, ClockSettings, Protected, Guarded, Flags
<1>2. /\ \A v : OfType("jtag", v) /\ OfType("trace", v) /\ OfType("onWait", v)
      /\ OfType("status", "READY") /\ OfType("status", "UNINITIALIZED")
  BY DEF OfType, Masked
<1>3. ASSUME NEW v
      PROVE  /\ Means(Write("jtag", 1, v), f, [f EXCEPT !.jtag = <<v>>])
             /\ Means(Write("trace", 1, v), f, [f EXCEPT !.trace = <<v>>])
             /\ OfType("status", v) => Means(Write("status", 1, v), f, [f EXCEPT !.status = <<v>>])
  BY <1>1, <1>2, MeansSingle
<1>4. Means(SYS_DEVCON_Reinitialize, f, [f EXCEPT !.status = <<"READY">>])
  <2>1. PICK g : g = [f EXCEPT !.status = <<"READY">>] /\ Means(Write("status", 1, "READY"), f, g)
    BY <1>2, <1>3
  <2>2. WellFormed(g) /\ g.state[1] = "READY"
    BY <2>1 DEF Means, Kept
  <2>3. Steady(Write("state", 1, "READY"))
    BY SteadyRules DEF OfType, Masked, Guarded, Sealed, Protected
  <2>4. Only(Write("state", 1, "READY"), {"state"})
    BY "state" \in {"state"}, OnlyRules
  <2>5. \A i \in Index("state") : i = 1
    BY Indices DEF Single
  <2>6. \A i \in Index("state") : Turns(Write("state", 1, "READY"), "state", i, g.state[i], g.state[i])
    BY <2>2, <2>5, TurnsWrite
  <2>7. Means(Write("state", 1, "READY"), g, g)
    BY <2>2, <2>3, <2>4, <2>6, MeansRules
  <2>8. Means(Write("status", 1, "READY") \o Write("state", 1, "READY"), f, g)
    BY <2>1, <2>7, MeansRules
  <2> QED BY <2>1, <2>8 DEF SYS_DEVCON_Reinitialize
<1>5. /\ Means(SYS_DEVCON_Deinitialize, f, [f EXCEPT !.status = <<"UNINITIALIZED">>])
      /\ Means(SYS_DEVCON_JTAGEnable, f, [f EXCEPT !.jtag = <<TRUE>>])
      /\ Means(SYS_DEVCON_JTAGDisable, f, [f EXCEPT !.jtag = <<FALSE>>])
  BY <1>2, <1>3 DEF SYS_DEVCON_Deinitialize, SYS_DEVCON_JTAGEnable, SYS_DEVCON_JTAGDisable
<1>6. /\ Means(SYS_DEVCON_TraceEnable, f,
               IF "TraceOutput" \in exists THEN [f EXCEPT !.trace = <<TRUE>>] ELSE f)
      /\ Means(SYS_DEVCON_TraceDisable, f,
               IF "TraceOutput" \in exists THEN [f EXCEPT !.trace = <<FALSE>>] ELSE f)
  BY <1>3, MeansRules DEF SYS_DEVCON_TraceEnable, SYS_DEVCON_TraceDisable
<1>7. ASSUME NEW mode
      PROVE  Means(SYS_DEVCON_PowerModeEnter(mode), f,
                   IF "OnWaitAction" \in exists THEN [f EXCEPT !.onWait = <<mode>>] ELSE f)
  <2> DEFINE U == SYS_DEVCON_SystemUnlock
             W == Write("onWait", 1, mode)
             L == SYS_DEVCON_SystemLock
             q == U \o W \o L
             g == [f EXCEPT !.onWait = <<mode>>]
  <2>1. Steady(q)
    <3>1. SteadyAt(W, TRUE)
      BY SteadyAtRules DEF OfType, Masked, Guarded
    <3> QED BY <3>1, SteadyOperations
  <2>2. Only(U, {}) /\ Only(L, {}) /\ Only(W, {"onWait"})
    BY KeysOnly, OnlyRules, "onWait" \in {"onWait"}
  <2>3. \A u : Turns(W, "onWait", 1, u, mode)
    BY TurnsWrite
  <2>4. \A u : Turns(U, "onWait", 1, u, u) /\ Turns(L, "onWait", 1, u, u)
    BY <2>2 DEF Only
  <2>5. Only(U, {"onWait"}) /\ Only(L, {"onWait"})
    BY <2>2 DEF Only
  <2>6. SYS_DEVCON_PowerModeEnter(mode) = IfExists("OnWaitAction", q) \o Do("wait") \o Do("asleep")
    BY DEF SYS_DEVCON_PowerModeEnter
  <2> HIDE DEF U, W, L
  <2>7. Only(q, {"onWait"})
    BY <2>2, <2>5, OnlyRules
  <2>8. \A u : Turns(q, "onWait", 1, u, mode)
    BY <2>3, <2>4, TurnsThen
  <2> HIDE DEF q
  <2>9. Means(q, f, g)
    <3>1. "onWait" \in Single \intersect Untyped /\ "onWait" \notin Kept /\ Index("onWait") = 1 .. 1
      BY Indices DEF Single, Untyped, Registers, Masked, Kept, ClockSettings
    <3>2. Fits("onWait", <<mode>>) /\ \A i \in Index("onWait") : i = 1 /\ <<mode>>[i] = mode
      BY <3>1, FittingValues
    <3>3. \A i \in Index("onWait") : Turns(q, "onWait", i, f.onWait[i], <<mode>>[i])
      BY <2>8, <3>2
    <3> QED BY <2>1, <2>7, <3>1, <3>2, <3>3, MeansRules
  <2> HIDE DEF g
  <2>10. PICK h : h = (IF "OnWaitAction" \in exists THEN g ELSE f)
    OBVIOUS
  <2>11. Means(IfExists("OnWaitAction", q), f, h)
    BY <2>9, <2>10, MeansRules
  <2>12. Means(Do("wait"), h, h) /\ Means(Do("asleep"), h, h)
    <3>1. /\ Steady(Do("wait")) /\ Only(Do("wait"), {})
          /\ Steady(Do("asleep")) /\ Only(Do("asleep"), {})
      BY SteadyOperations, OnlyRules DEF Accesses
    <3>2. WellFormed(h)
      BY <2>11 DEF Means
    <3> QED BY <3>1, <3>2, MeansRules
  <2>13. Means(SYS_DEVCON_PowerModeEnter(mode), f, h)
    BY <2>6, <2>11, <2>12, MeansRules
  <2> QED BY <2>10, <2>13 DEF g
<1> QED BY <1>4, <1>5, <1>6, <1>7

LEMMA MeansPerformance ==
  ASSUME NEW f, WellFormed(f), "PrefetchEnable" \in exists => f.prefetch[1] = TRUE,
         NEW sysclk, NEW w, w = WaitStates(sysclk),
         NEW g, g = IF "WaitState" \in exists THEN [f EXCEPT !.waitStates = <<w>>] ELSE f
  PROVE  Means(SYS_DEVCON_PerformanceConfig(sysclk), f, g)
<1> DEFINE q == SYS_DEVCON_PerformanceConfig(sysclk)
<1>1. Steady(q) /\ Only(q, Guarded)
  BY SteadyOperations, PerformanceTurns
<1>2. /\ \A v : Turns(q, "waitStates", 1, v, IF "WaitState" \in exists THEN w ELSE v)
      /\ \A v : Turns(q, "prefetch", 1, v, IF "PrefetchEnable" \in exists THEN TRUE ELSE v)
  BY PerformanceTurns
<1>3. w \in 0 .. 7
  BY WaitStatesType
<1>g. g = IF "WaitState" \in exists THEN [f EXCEPT !.waitStates = <<w>>] ELSE f
  OBVIOUS
<1> HIDE DEF q
<1>4. WellFormed(g)
  <2>1. Fits("waitStates", <<w>>)
    BY <1>3, FittingValues
  <2> QED BY <1>g, <2>1, WellFormedRules
<1>5. \A r \in Registers : r # "waitStates" => g[r] = f[r]
  BY <1>g DEF WellFormed
<1>6. g.waitStates[1] = IF "WaitState" \in exists THEN w ELSE f.waitStates[1]
  <2>1. "waitStates" \in DOMAIN f
    BY DEF WellFormed, Registers, Single
  <2>2. <<w>>[1] = w
    OBVIOUS
  <2> QED BY <1>g, <2>1, <2>2
<1>7. ASSUME NEW r \in Settings, NEW i \in Index(r) PROVE Turns(q, r, i, f[r][i], g[r][i])
  <2>1. CASE r = "waitStates"
    <3>1. i = 1
      BY <2>1, Indices DEF Single
    <3>2. Turns(q, "waitStates", 1, f.waitStates[1], g.waitStates[1])
      BY <1>2, <1>6
    <3> QED BY <2>1, <3>1, <3>2
  <2>2. CASE r = "prefetch"
    <3>1. i = 1
      BY <2>2, Indices DEF Single
    <3>2. g.prefetch = f.prefetch
      BY <1>5 DEF Registers, Single
    <3>3. (IF "PrefetchEnable" \in exists THEN TRUE ELSE f.prefetch[1]) = f.prefetch[1]
      OBVIOUS
    <3>4. Turns(q, "prefetch", 1, f.prefetch[1], f.prefetch[1])
      BY <1>2, <3>3
    <3> QED BY <2>2, <3>1, <3>2, <3>4
  <2>3. CASE r \notin Guarded
    <3>1. g[r] = f[r]
      BY <1>5, <2>3 DEF Settings, Guarded
    <3>2. Turns(q, r, i, f[r][i], f[r][i])
      BY <1>1, <2>3 DEF Only
    <3> QED BY <3>1, <3>2
  <2> QED BY <2>1, <2>2, <2>3 DEF Guarded
<1>8. \A r \in Kept : g[r] = f[r]
  <2>1. \A r \in Kept : r \in Registers /\ r # "waitStates"
    BY DEF Kept, ClockSettings, Registers, PerBus, PerReference, Single
  <2> QED BY <1>5, <2>1
<1>9. Means(q, f, g)
  BY <1>1, <1>4, <1>7, <1>8 DEF Means, Does
<1> QED BY <1>9 DEF q

LEMMA MeansConverter ==
  ASSUME NEW f, WellFormed(f)
  PROVE  /\ Means(DRV_ADC_DeInitialize, f, [f EXCEPT !.adcOn = <<FALSE>>])
         /\ Means(DRV_ADC0_Open, f, [f EXCEPT !.adcDigital = <<TRUE>>])
         /\ Means(DRV_ADC0_Close, f, [f EXCEPT !.adcDigital = <<FALSE>>])
         /\ Means(DRV_ADC_Start, f, f)
         /\ Means(DRV_ADC_Stop, f, [f EXCEPT !.adcSampling = <<FALSE>>])
         /\ Means(DRV_ADC_SamplesRead, f, f)
<1>1. {"adcOn", "adcDigital", "adcSampling"} \subseteq Single \intersect Unprotected
  BY DEF Single, Unprotected, Settings, Registers, Kept, ClockSettings, Protected, Guarded, Flags
<1>2. \A r \in {"adcOn", "adcDigital", "adcSampling", "adcTrigger", "adcData"} : \A v : OfType(r, v)
  BY DEF OfType, Masked
<1>3. ASSUME NEW v
      PROVE  /\ Means(Write("adcOn", 1, v), f, [f EXCEPT !.adcOn = <<v>>])
             /\ Means(Write("adcDigital", 1, v), f, [f EXCEPT !.adcDigital = <<v>>])
             /\ Means(Write("adcSampling", 1, v), f, [f EXCEPT !.adcSampling = <<v>>])
  BY <1>1, <1>2, MeansSingle
<1>4. ASSUME NEW r \in {"adcTrigger", "adcData"}, NEW v PROVE Means(Write(r, 1, v), f, f)
  <2>1. Steady(Write(r, 1, v))
    BY <1>2, SteadyRules DEF Guarded, Sealed, Protected
  <2>2. Only(Write(r, 1, v), {r})
    BY OnlyRules, r \in {r}
  <2>3. {r} \subseteq Flags
    BY DEF Flags
  <2> QED BY <2>1, <2>2, <2>3, MeansRules
<1> QED BY <1>3, <1>4 DEF DRV_ADC_DeInitialize, DRV_ADC0_Open, DRV_ADC0_Close, DRV_ADC_Start, DRV_ADC_Stop,
                          DRV_ADC_SamplesRead

\* Setting and clearing pins of a channel.
LEMMA MeansPins ==
  ASSUME NEW f, WellFormed(f), NEW c \in Channels, NEW r \in {"lat", "tris", "odc", "ansel"},
         NEW mask, mask \subseteq Bits
  PROVE  /\ f[r][c] \subseteq Bits
         /\ Means(Write(r, c, mask), f, [f EXCEPT ![r][c] = mask])
         /\ Means(SetBits(r, c, mask), f, [f EXCEPT ![r][c] = f[r][c] \union mask])
         /\ Means(ClearBits(r, c, mask), f, [f EXCEPT ![r][c] = f[r][c] \ mask])
         /\ Means(Invert(r, c, mask), f, [f EXCEPT ![r][c] = (f[r][c] \ mask) \union (mask \ f[r][c])])
<1>1. r \in Unprotected /\ r \in Masked /\ c \in Index(r) /\ r \in Registers
  <2>1. r \in PerChannel
    BY DEF PerChannel
  <2>2. c \in Index(r)
    BY <2>1, Indices
  <2> QED BY <2>2 DEF PerChannel, Masked, Unprotected, Settings, Registers, Kept, ClockSettings, Protected,
                      Guarded, Flags
<1>2. OfType(r, mask)
  BY <1>1, FittingValues
<1>3. OfType(r, f[r][c])
  BY <1>1 DEF WellFormed, Fits
<1>4. f[r][c] \subseteq Bits
  BY <1>1, <1>3 DEF OfType
<1> QED BY <1>1, <1>2, <1>4, MeansOperations

LEMMA MeansChannel ==
  ASSUME NEW f, WellFormed(f), NEW c \in Channels, NEW mask, mask \subseteq Bits
  PROVE  /\ Means(SYS_PORTS_Write(c, mask), f, [f EXCEPT !.lat[c] = mask])
         /\ \A value : Means(SYS_PORTS_Set(c, value, mask), f,
                             [f EXCEPT !.lat[c] = @ \union (value \intersect mask)])
         /\ Means(SYS_PORTS_Clear(c, mask), f, [f EXCEPT !.lat[c] = @ \ mask])
         /\ Means(SYS_PORTS_Toggle(c, mask), f,
                  [f EXCEPT !.lat[c] = {b \in Bits : (b \in @) # (b \in mask)}])
         /\ Means(SYS_PORTS_DirectionSelect("INPUT", c, mask), f, [f EXCEPT !.tris[c] = @ \union mask])
         /\ Means(SYS_PORTS_DirectionSelect("OUTPUT", c, mask), f, [f EXCEPT !.tris[c] = @ \ mask])
         /\ Means(SYS_PORTS_OpenDrainEnable(c, mask), f,
                  IF "PortsOpenDrain" \in exists THEN [f EXCEPT !.odc[c] = @ \union mask] ELSE f)
         /\ Means(SYS_PORTS_OpenDrainDisable(c, mask), f,
                  IF "PortsOpenDrain" \in exists THEN [f EXCEPT !.odc[c] = @ \ mask] ELSE f)
<1>1. Means(SYS_PORTS_Write(c, mask), f, [f EXCEPT !.lat[c] = mask])
  BY MeansPins DEF SYS_PORTS_Write
<1>2. ASSUME NEW value
      PROVE  Means(SYS_PORTS_Set(c, value, mask), f,
                   [f EXCEPT !.lat[c] = @ \union (value \intersect mask)])
  <2>1. value \intersect mask \subseteq Bits
    OBVIOUS
  <2> QED BY <2>1, MeansPins DEF SYS_PORTS_Set
<1>3. Means(SYS_PORTS_Clear(c, mask), f, [f EXCEPT !.lat[c] = @ \ mask])
  BY MeansPins DEF SYS_PORTS_Clear
<1>4. Means(SYS_PORTS_Toggle(c, mask), f, [f EXCEPT !.lat[c] = {b \in Bits : (b \in @) # (b \in mask)}])
  <2> DEFINE a == f.lat[c]
  <2>1. Means(SYS_PORTS_Toggle(c, mask), f, [f EXCEPT !.lat[c] = (a \ mask) \union (mask \ a)])
    BY MeansPins DEF SYS_PORTS_Toggle
  <2>2. a \subseteq Bits
    BY MeansPins
  <2> HIDE DEF a
  <2>3. (a \ mask) \union (mask \ a) = {b \in Bits : (b \in a) # (b \in mask)}
    BY <2>2
  <2>4. [f EXCEPT !.lat[c] = (a \ mask) \union (mask \ a)]
          = [f EXCEPT !.lat[c] = {b \in Bits : (b \in a) # (b \in mask)}]
    BY <2>3
  <2> QED BY <2>1, <2>4 DEF a
<1>5. /\ Means(SYS_PORTS_DirectionSelect("INPUT", c, mask), f, [f EXCEPT !.tris[c] = @ \union mask])
      /\ Means(SYS_PORTS_DirectionSelect("OUTPUT", c, mask), f, [f EXCEPT !.tris[c] = @ \ mask])
  BY MeansPins DEF SYS_PORTS_DirectionSelect
<1>6. /\ Means(SetBits("odc", c, mask), f, [f EXCEPT !.odc[c] = @ \union mask])
      /\ Means(ClearBits("odc", c, mask), f, [f EXCEPT !.odc[c] = @ \ mask])
  BY MeansPins
<1>7. /\ Means(SYS_PORTS_OpenDrainEnable(c, mask), f,
               IF "PortsOpenDrain" \in exists THEN [f EXCEPT !.odc[c] = @ \union mask] ELSE f)
      /\ Means(SYS_PORTS_OpenDrainDisable(c, mask), f,
               IF "PortsOpenDrain" \in exists THEN [f EXCEPT !.odc[c] = @ \ mask] ELSE f)
  BY <1>6, MeansRules DEF SYS_PORTS_OpenDrainEnable, SYS_PORTS_OpenDrainDisable
<1> QED BY <1>1, <1>2, <1>3, <1>4, <1>5, <1>7

LEMMA MeansPin ==
  ASSUME NEW f, WellFormed(f), NEW c \in Channels, NEW b \in Bits
  PROVE  /\ Means(SYS_PORTS_PinModeSelect(c, b, "ANALOG"), f,
                  IF "PinMode" \in exists THEN [f EXCEPT !.ansel[c] = @ \union {b}] ELSE f)
         /\ Means(SYS_PORTS_PinModeSelect(c, b, "DIGITAL"), f,
                  IF "PinMode" \in exists THEN [f EXCEPT !.ansel[c] = @ \ {b}] ELSE f)
         /\ Means(SYS_PORTS_PinSet(c, b), f, [f EXCEPT !.lat[c] = @ \union {b}])
         /\ Means(SYS_PORTS_PinClear(c, b), f, [f EXCEPT !.lat[c] = @ \ {b}])
         /\ Means(SYS_PORTS_PinToggle(c, b), f,
                  [f EXCEPT !.lat[c] = IF b \in @ THEN @ \ {b} ELSE @ \union {b}])
         /\ Means(SYS_PORTS_PinWrite(c, b, TRUE), f, [f EXCEPT !.lat[c] = @ \union {b}])
         /\ Means(SYS_PORTS_PinWrite(c, b, FALSE), f, [f EXCEPT !.lat[c] = @ \ {b}])
         /\ Means(SYS_PORTS_PinDirectionSelect("OUTPUT", c, b), f, [f EXCEPT !.tris[c] = @ \ {b}])
         /\ Means(SYS_PORTS_PinDirectionSelect("INPUT", c, b), f, [f EXCEPT !.tris[c] = @ \union {b}])
         /\ Means(SYS_PORTS_PinOpenDrainEnable(c, b), f,
                  IF "PortsOpenDrain" \in exists THEN [f EXCEPT !.odc[c] = @ \union {b}] ELSE f)
         /\ Means(SYS_PORTS_PinOpenDrainDisable(c, b), f,
                  IF "PortsOpenDrain" \in exists THEN [f EXCEPT !.odc[c] = @ \ {b}] ELSE f)
<1>1. {b} \subseteq Bits
  OBVIOUS
<1>2. ASSUME NEW r \in {"lat", "tris", "odc", "ansel"}
      PROVE  /\ Means(SetBits(r, c, {b}), f, [f EXCEPT ![r][c] = f[r][c] \union {b}])
             /\ Means(ClearBits(r, c, {b}), f, [f EXCEPT ![r][c] = f[r][c] \ {b}])
  BY <1>1, MeansPins
<1>3. /\ Means(SetBits("lat", c, {b}), f, [f EXCEPT !.lat[c] = @ \union {b}])
      /\ Means(ClearBits("lat", c, {b}), f, [f EXCEPT !.lat[c] = @ \ {b}])
      /\ Means(SetBits("tris", c, {b}), f, [f EXCEPT !.tris[c] = @ \union {b}])
      /\ Means(ClearBits("tris", c, {b}), f, [f EXCEPT !.tris[c] = @ \ {b}])
  BY <1>2
<1>4. /\ Means(SetBits("odc", c, {b}), f, [f EXCEPT !.odc[c] = @ \union {b}])
      /\ Means(ClearBits("odc", c, {b}), f, [f EXCEPT !.odc[c] = @ \ {b}])
      /\ Means(SetBits("ansel", c, {b}), f, [f EXCEPT !.ansel[c] = @ \union {b}])
      /\ Means(ClearBits("ansel", c, {b}), f, [f EXCEPT !.ansel[c] = @ \ {b}])
  BY <1>2
<1>5. /\ Means(SYS_PORTS_PinModeSelect(c, b, "ANALOG"), f,
               IF "PinMode" \in exists THEN [f EXCEPT !.ansel[c] = @ \union {b}] ELSE f)
      /\ Means(SYS_PORTS_PinModeSelect(c, b, "DIGITAL"), f,
               IF "PinMode" \in exists THEN [f EXCEPT !.ansel[c] = @ \ {b}] ELSE f)
  BY <1>4, MeansRules DEF SYS_PORTS_PinModeSelect
<1>6. /\ Means(SYS_PORTS_PinOpenDrainEnable(c, b), f,
               IF "PortsOpenDrain" \in exists THEN [f EXCEPT !.odc[c] = @ \union {b}] ELSE f)
      /\ Means(SYS_PORTS_PinOpenDrainDisable(c, b), f,
               IF "PortsOpenDrain" \in exists THEN [f EXCEPT !.odc[c] = @ \ {b}] ELSE f)
  BY <1>4, MeansRules DEF SYS_PORTS_PinOpenDrainEnable, SYS_PORTS_PinOpenDrainDisable
<1>7. Means(SYS_PORTS_PinToggle(c, b), f,
            [f EXCEPT !.lat[c] = IF b \in @ THEN @ \ {b} ELSE @ \union {b}])
  <2> DEFINE a == f.lat[c]
  <2>1. Means(SYS_PORTS_PinToggle(c, b), f, [f EXCEPT !.lat[c] = (a \ {b}) \union ({b} \ a)])
    BY <1>1, MeansPins DEF SYS_PORTS_PinToggle
  <2> HIDE DEF a
  <2>2. (a \ {b}) \union ({b} \ a) = IF b \in a THEN a \ {b} ELSE a \union {b}
    OBVIOUS
  <2>3. [f EXCEPT !.lat[c] = (a \ {b}) \union ({b} \ a)]
          = [f EXCEPT !.lat[c] = IF b \in a THEN a \ {b} ELSE a \union {b}]
    BY <2>2
  <2> QED BY <2>1, <2>3 DEF a
<1> QED BY <1>3, <1>5, <1>6, <1>7 DEF SYS_PORTS_PinSet, SYS_PORTS_PinClear, SYS_PORTS_PinWrite,
                                      SYS_PORTS_PinDirectionSelect

LEMMA MeansNotice ==
  ASSUME NEW f, WellFormed(f), NEW p \in Bits
  PROVE  /\ \A v : /\ Means(Write("cnOn", "all", v), f, [f EXCEPT !.cnOn["all"] = v])
                   /\ Means(Write("cnInIdle", "all", v), f, [f EXCEPT !.cnInIdle["all"] = v])
         /\ Means(SetBits("cnEn", "all", {p}), f, [f EXCEPT !.cnEn["all"] = @ \union {p}])
         /\ Means(ClearBits("cnEn", "all", {p}), f, [f EXCEPT !.cnEn["all"] = @ \ {p}])
         /\ Means(SetBits("cnPu", "all", {p}), f, [f EXCEPT !.cnPu["all"] = @ \union {p}])
         /\ Means(ClearBits("cnPu", "all", {p}), f, [f EXCEPT !.cnPu["all"] = @ \ {p}])
<1>1. "cnOn" \in Unprotected /\ "cnInIdle" \in Unprotected /\ "cnEn" \in Unprotected /\ "cnPu" \in Unprotected
  BY DEF Unprotected, Settings, Registers, AndForAll, Kept, ClockSettings, Protected, Guarded, Flags
<1>2. "all" \in Index("cnOn") /\ "all" \in Index("cnInIdle") /\ "all" \in Index("cnEn") /\ "all" \in Index("cnPu")
  BY Indices DEF AndForAll
<1>3. /\ \A v : OfType("cnOn", v) /\ OfType("cnInIdle", v)
      /\ OfType("cnEn", {p}) /\ OfType("cnPu", {p})
  BY DEF OfType, Masked
<1>4. "cnEn" \in Masked /\ "cnPu" \in Masked
  BY DEF Masked
<1>5. ASSUME NEW v
      PROVE  /\ Means(Write("cnOn", "all", v), f, [f EXCEPT !.cnOn["all"] = v])
             /\ Means(Write("cnInIdle", "all", v), f, [f EXCEPT !.cnInIdle["all"] = v])
  BY <1>1, <1>2, <1>3, MeansOperations
<1>6. /\ Means(SetBits("cnEn", "all", {p}), f, [f EXCEPT !.cnEn["all"] = @ \union {p}])
      /\ Means(ClearBits("cnEn", "all", {p}), f, [f EXCEPT !.cnEn["all"] = @ \ {p}])
  BY <1>1, <1>2, <1>3, <1>4, MeansOperations
<1>7. /\ Means(SetBits("cnPu", "all", {p}), f, [f EXCEPT !.cnPu["all"] = @ \union {p}])
      /\ Means(ClearBits("cnPu", "all", {p}), f, [f EXCEPT !.cnPu["all"] = @ \ {p}])
  BY <1>1, <1>2, <1>3, <1>4, MeansOperations
<1> QED BY <1>5, <1>6, <1>7

LEMMA MeansRemap ==
  ASSUME NEW f, WellFormed(f), NEW pin \in Pins
  PROVE  /\ Means(SYS_PORTS_RemapInput("SDI2", pin), f,
                  IF "RemapInput" \in exists THEN [f EXCEPT !.pps["SDI2"] = pin] ELSE f)
         /\ Means(SYS_PORTS_RemapOutput("SS2", pin), f,
                  IF "RemapOutput" \in exists THEN [f EXCEPT !.pps["SS2"] = pin] ELSE f)
<1>1. "pps" \in Unprotected /\ OfType("pps", pin) /\ "SDI2" \in Index("pps") /\ "SS2" \in Index("pps")
  <2>1. "pps" \in Unprotected
    BY DEF Unprotected, Settings, Registers, Kept, ClockSettings, Protected, Guarded, Flags
  <2> QED BY <2>1, FittingValues, Indices DEF Remapped
<1>2. Steady(PLIB_DEVCON_SystemUnlock) /\ Only(PLIB_DEVCON_SystemUnlock, {})
  BY SteadyOperations, SteadyRules, KeysOnly DEF PLIB_DEVCON_SystemUnlock
<1>3. Means(PLIB_DEVCON_SystemUnlock, f, f)
  BY <1>2, MeansRules
\* IOLOCK is open, so that its write changes nothing, lost or not.
<1>3a. Means(PLIB_DEVCON_DeviceRegistersUnlock, f, f)
  <2> DEFINE q == Write("iolock", 1, FALSE)
  <2>1. "iolock" \in Registers /\ "iolock" \in {"iolock"} /\ Index("iolock") = 1 .. 1
    BY Indices DEF Registers, Single
  <2>2. Steady(q)
    BY SteadyRules, FittingValues DEF Guarded, Sealed
  <2>3. Only(q, {"iolock"})
    BY <2>1, OnlyRules
  <2>4. f.iolock[1] = FALSE
    BY <2>1 DEF WellFormed, Fits, OfType
  <2>5. \A i \in Index("iolock") : Turns(q, "iolock", i, f.iolock[i], f.iolock[i])
    <3>1. \A v : Turns(q, "iolock", 1, v, FALSE)
      BY TurnsWrite
    <3> HIDE DEF q
    <3>2. \A i \in Index("iolock") : i = 1
      BY <2>1
    <3> QED BY <2>4, <3>1, <3>2
  <2> HIDE DEF q
  <2>6. Means(q, f, f)
    BY <2>2, <2>3, <2>5, MeansRules
  <2> QED BY <2>6 DEF q, PLIB_DEVCON_DeviceRegistersUnlock
<1>4. ASSUME NEW i \in {"SDI2", "SS2"}
      PROVE  Means(Unlocked(PLIB_PORTS_Remap(i, pin)), f, [f EXCEPT !.pps[i] = pin])
  <2>1. Means(PLIB_PORTS_Remap(i, pin), f, [f EXCEPT !.pps[i] = pin])
    BY <1>1, MeansOperations DEF PLIB_PORTS_Remap
  <2>2. Means(PLIB_DEVCON_SystemUnlock \o PLIB_DEVCON_DeviceRegistersUnlock, f, f)
    BY <1>3, <1>3a, MeansRules
  <2> QED BY <2>1, <2>2, MeansRules DEF Unlocked
<1>5. /\ Means(Unlocked(PLIB_PORTS_Remap("SDI2", pin)), f, [f EXCEPT !.pps["SDI2"] = pin])
      /\ Means(Unlocked(PLIB_PORTS_Remap("SS2", pin)), f, [f EXCEPT !.pps["SS2"] = pin])
  BY <1>4
<1> QED BY <1>5, MeansRules DEF SYS_PORTS_RemapInput, SYS_PORTS_RemapOutput

-----------------------------------------------------------------------------
(* What SYS_Initialize does to the latches.                                *)

\* From z to w: whether the latches of channel c are known to be clear.
Settles(q, c, z, w) == Leads(Latch(c), q, z, w)

LEMMA SettlesRules ==
  ASSUME NEW c
  PROVE  /\ \A z : Settles(<<>>, c, z, z)
         /\ \A s, t, x, y, z : Settles(s, c, x, y) /\ Settles(t, c, y, z) => Settles(s \o t, c, x, z)
         /\ \A o, z : ~At(o, "lat", c) /\ ~At(o, "tris", c) => Settles(<<o>>, c, z, z)
         /\ \A o, z : At(o, "lat", c) /\ o.op = "write" /\ o.value = {} => Settles(<<o>>, c, z, TRUE)
         /\ \A o : At(o, "tris", c) => Settles(<<o>>, c, TRUE, TRUE)
         /\ \A q, x, z : Settles(q, c, x, z) /\ q # <<>> =>
              \E y : Settles(Tail(q), c, y, z) /\ Moves(Latch(c), Head(q), x, y)
<1> DEFINE k == Latch(c)
<1>1. k.watch = "latch" /\ k.channel = c
  BY DEF Latch
<1> HIDE DEF k
<1>2. \A o : ~(At(o, "lat", c) /\ At(o, "tris", c))
  BY DEF At
<1>3. \A o, z : ~At(o, "lat", c) /\ ~At(o, "tris", c) => Moves(k, o, z, z)
  BY <1>1 DEF Moves
<1>4. \A o, z : At(o, "lat", c) /\ o.op = "write" /\ o.value = {} => Moves(k, o, z, TRUE)
  BY <1>1, <1>2 DEF Moves
<1>5. \A o : At(o, "tris", c) => Moves(k, o, TRUE, TRUE)
  BY <1>1, <1>2 DEF Moves
<1>6. \A o, x, y : Moves(k, o, x, y) => Leads(k, <<o>>, x, y)
  BY LeadsOne
<1>7. /\ \A z : Leads(k, <<>>, z, z)
      /\ \A s, t, x, y, z : Leads(k, s, x, y) /\ Leads(k, t, y, z) => Leads(k, s \o t, x, z)
  BY LeadsNothing, LeadsBoth
<1>8. \A q, x, z : Leads(k, q, x, z) /\ q # <<>> => \E y : Moves(k, Head(q), x, y) /\ Leads(k, Tail(q), y, z)
  BY LeadsFirst
<1> QED BY <1>3, <1>4, <1>5, <1>6, <1>7, <1>8 DEF Settles, k

LEMMA SettlesThen ==
  \A c, s, t, x, y, z : Settles(s, c, x, y) /\ Settles(t, c, y, z) => Settles(s \o t, c, x, z)
BY SettlesRules

\* Programs that touch no latch and no direction.
Still(q) == \A c, z : Settles(q, c, z, z)

LEMMA StillRules ==
  /\ Still(<<>>)
  /\ \A s, t : Still(s) /\ Still(t) => Still(s \o t)
  /\ \A f, s : Still(s) => Still(IfExists(f, s))
  /\ \A n : n \notin Accesses => Still(Do(n))
  /\ \A r : Still(Await(r)) /\ Still(Started(r))
  /\ \A r, i, v : r \notin {"lat", "tris"} => /\ Still(Write(r, i, v)) /\ Still(SetBits(r, i, v))
                                             /\ Still(ClearBits(r, i, v))
<1>1. Still(<<>>)
  BY SettlesRules DEF Still
<1>2. \A s, t : Still(s) /\ Still(t) => Still(s \o t)
  BY SettlesThen DEF Still
<1>3. \A f, s : Still(s) => Still(IfExists(f, s))
  BY <1>1 DEF IfExists
<1>4. ASSUME NEW o, o.op \in Accesses => o.reg \notin {"lat", "tris"} PROVE Still(<<o>>)
  <2>1. \A c : ~At(o, "lat", c) /\ ~At(o, "tris", c)
    BY <1>4 DEF At
  <2> QED BY <2>1, SettlesRules DEF Still
<1>5. \A n : n \notin Accesses => Still(Do(n))
  BY <1>4 DEF Do
<1>6. \A r : Still(Await(r)) /\ Still(Started(r))
  BY <1>4 DEF Await, Started, Accesses
<1>7. \A r, i, v : r \notin {"lat", "tris"} => /\ Still(Write(r, i, v)) /\ Still(SetBits(r, i, v))
                                             /\ Still(ClearBits(r, i, v))
  BY <1>4 DEF Write, SetBits, ClearBits
<1> QED BY <1>1, <1>2, <1>3, <1>5, <1>6, <1>7

LEMMA StillParts ==
  /\ Still(SYS_CLK_Initialize) /\ Still(SYS_DEVCON_Initialize)
  /\ Still(SYS_DEVCON_PerformanceConfig(SYS_CLK_SystemFrequencyGet))
  /\ Still(DRV_ADC_Initialize)
  /\ \A f, v : Still(PLIB_PORTS_Remap(f, v))
<1>1. \A r, i, v : r \notin {"lat", "tris"} => Still(Write(r, i, v))
  BY StillRules
<1>2. \A n \in {"key1", "key2", "lock", "disable", "restore", "select"} : Still(Do(n))
  BY StillRules DEF Accesses
<1>3. Still(PLIB_INT_GetStateAndDisable) /\ Still(IfFlagEnable)
  BY <1>2 DEF PLIB_INT_GetStateAndDisable, IfFlagEnable
<1>4. Still(SYS_DEVCON_SystemUnlock) /\ Still(SYS_DEVCON_SystemLock)
  BY <1>2, <1>3, StillRules
     DEF SYS_DEVCON_SystemUnlock, SYS_DEVCON_SystemLock, PLIB_DEVCON_SystemUnlock, PLIB_DEVCON_SystemLock
<1>5. \A b, d : Still(Bus(b, d))
  BY <1>1, StillRules DEF Bus
<1>6. \A r : Still(Silence(r))
  BY <1>1, StillRules DEF Silence
<1>7. Still(SYS_CLK_Initialize)
  <2> DEFINE q1 == SYS_DEVCON_SystemUnlock \o Write("frcDiv", 1, 1)
                   \o Bus(1, 2) \o Bus(2, 2) \o Bus(3, 2) \o Bus(4, 2) \o Bus(5, 2) \o Bus(7, 1) \o Bus(8, 2)
             q2 == q1 \o Write("refBase", 1, "SYSCLK") \o Write("refDiv", 1, 19)
                      \o Write("refTrim", 1, 272) \o Write("refOn", 1, TRUE) \o Write("refOut", 1, FALSE)
  <2>1. Still(q1)
    <3>1. Still(Write("frcDiv", 1, 1))
      BY <1>1
    <3> QED BY <1>4, <1>5, <3>1, StillRules
  <2>2. SYS_CLK_Initialize = q2 \o Silence(2) \o Silence(3) \o Silence(4) \o SYS_DEVCON_SystemLock
    BY DEF SYS_CLK_Initialize
  <2> HIDE DEF q1
  <2>3. Still(q2)
    <3>1. /\ Still(Write("refBase", 1, "SYSCLK")) /\ Still(Write("refDiv", 1, 19))
          /\ Still(Write("refTrim", 1, 272)) /\ Still(Write("refOn", 1, TRUE))
          /\ Still(Write("refOut", 1, FALSE))
      BY <1>1
    <3>2. \A s, t : Still(s) /\ Still(t) => Still(s \o t)
      BY StillRules
    <3>3. Still(q1 \o Write("refBase", 1, "SYSCLK"))
      BY <2>1, <3>1, <3>2
    <3>4. Still(q1 \o Write("refBase", 1, "SYSCLK") \o Write("refDiv", 1, 19))
      BY <3>1, <3>2, <3>3
    <3>5. Still(q1 \o Write("refBase", 1, "SYSCLK") \o Write("refDiv", 1, 19) \o Write("refTrim", 1, 272))
      BY <3>1, <3>2, <3>4
    <3> QED BY <3>1, <3>2, <3>5
  <2> HIDE DEF q2
  <2> QED BY <1>4, <1>6, <2>2, <2>3, StillRules
<1>8. Still(SYS_DEVCON_Initialize)
  BY <1>1, StillRules DEF SYS_DEVCON_Initialize
<1>9. Still(SYS_DEVCON_PerformanceConfig(SYS_CLK_SystemFrequencyGet))
  <2>1. Still(Write("waitStates", 1, WaitStates(SYS_CLK_SystemFrequencyGet))) /\ Still(Write("prefetch", 1, TRUE))
    BY <1>1
  <2> QED BY <1>3, <2>1, StillRules DEF SYS_DEVCON_PerformanceConfig
<1>10. Still(DRV_ADC_Initialize)
  <2>1. \A v : Still(Write("adcSource", 1, v)) /\ Still(Write("adcCalibrated", 1, v))
                /\ Still(Write("adcOn", 1, v)) /\ Still(Write("adcAnalog", 1, v))
    BY <1>1
  <2> QED BY <1>2, <2>1, StillRules DEF DRV_ADC_Initialize
<1>11. \A f, v : Still(PLIB_PORTS_Remap(f, v))
  BY <1>1 DEF PLIB_PORTS_Remap
<1> QED BY <1>7, <1>8, <1>9, <1>10, <1>11

\* A channel's latches are cleared before its directions are set.
LEMMA ChannelSettles ==
  ASSUME NEW d \in Channels, NEW c, NEW z \in BOOLEAN
  PROVE  Settles(ChannelInitialize(d), c, z, z \/ c = d)
<1> DEFINE W1 == SetBits("odc", d, Zero[d])
           W2 == Write("lat", d, Zero[d])
           W3 == ClearBits("tris", d, Bits \ Input[d])
           W4 == Write("cnOn", d, TRUE)
           W5 == ClearBits("ansel", d, Bits \ Analog[d])
           W6 == SetBits("cnEn", d, Zero[d])
           W7 == SetBits("cnPu", d, PullUp[d])
           W8 == SetBits("cnPd", d, Zero[d])
           w  == z \/ c = d
<1>1. ChannelInitialize(d) = W1 \o W2 \o W3 \o W4 \o W5 \o W6 \o W7 \o W8
  BY DEF ChannelInitialize
<1>2. Still(W1) /\ Still(W4) /\ Still(W5) /\ Still(W6) /\ Still(W7) /\ Still(W8)
  BY StillRules
<1>3. Settles(W2, c, z, w)
  <2> DEFINE o == [op |-> "write", reg |-> "lat", at |-> d, value |-> Zero[d]]
  <2>1. o.op = "write" /\ o.reg = "lat" /\ o.at = d /\ o.value = {} /\ W2 = <<o>>
    BY DEF Write, Zero
  <2> HIDE DEF o, W2
  <2>2. CASE c = d
    <3>1. At(o, "lat", c)
      BY <2>1, <2>2 DEF At, Accesses
    <3>2. Settles(<<o>>, c, z, TRUE)
      BY <2>1, <3>1, SettlesRules
    <3>3. w = TRUE
      BY <2>2
    <3> QED BY <2>1, <3>2, <3>3
  <2>3. CASE c # d
    <3>1. ~At(o, "lat", c) /\ ~At(o, "tris", c)
      BY <2>1, <2>3 DEF At
    <3>2. Settles(<<o>>, c, z, z)
      BY <3>1, SettlesRules
    <3>3. w = z
      BY <2>3
    <3> QED BY <2>1, <3>2, <3>3
  <2> QED BY <2>2, <2>3
<1>4. Settles(W3, c, w, w)
  <2> DEFINE o == [op |-> "clear", reg |-> "tris", at |-> d, value |-> Bits \ Input[d]]
  <2>1. o.op = "clear" /\ o.reg = "tris" /\ o.at = d /\ W3 = <<o>>
    BY DEF ClearBits
  <2> HIDE DEF o, W3
  <2>2. CASE c = d
    <3>1. At(o, "tris", c)
      BY <2>1, <2>2 DEF At, Accesses
    <3>2. Settles(<<o>>, c, TRUE, TRUE)
      BY <3>1, SettlesRules
    <3>3. w = TRUE
      BY <2>2
    <3> QED BY <2>1, <3>2, <3>3
  <2>3. CASE c # d
    <3>1. ~At(o, "lat", c) /\ ~At(o, "tris", c)
      BY <2>1, <2>3 DEF At
    <3>2. Settles(<<o>>, c, w, w)
      BY <3>1, SettlesRules
    <3> QED BY <2>1, <3>2
  <2> QED BY <2>2, <2>3
<1> HIDE DEF W1, W2, W3, W4, W5, W6, W7, W8, w
<1>5. Settles(W1 \o W2, c, z, w)
  BY <1>2, <1>3, SettlesThen DEF Still
<1>6. Settles(W1 \o W2 \o W3, c, z, w)
  BY <1>4, <1>5, SettlesThen
<1>7. Settles(W1 \o W2 \o W3 \o W4 \o W5, c, z, w)
  BY <1>2, <1>6, SettlesThen DEF Still
<1>8. Settles(W1 \o W2 \o W3 \o W4 \o W5 \o W6 \o W7 \o W8, c, z, w)
  BY <1>2, <1>7, SettlesThen DEF Still
<1> QED BY <1>1, <1>8 DEF w

LEMMA BootSettles ==
  ASSUME NEW c \in Channels
  PROVE  Settles(SYS_Initialize, c, FALSE, TRUE)
<1> DEFINE I(d) == ChannelInitialize(d)
           P(f) == PLIB_PORTS_Remap(f, Remapped[f])
           q    == I("A") \o I("B") \o I("C") \o I("D") \o I("E") \o I("F") \o I("G")
           v1   == FALSE \/ c = "A"
           v2   == v1 \/ c = "B"
           v3   == v2 \/ c = "C"
           v4   == v3 \/ c = "D"
           v5   == v4 \/ c = "E"
           v6   == v5 \/ c = "F"
           v7   == v6 \/ c = "G"
<1>1. \A d \in Channels : \A z \in BOOLEAN : Settles(I(d), c, z, z \/ c = d)
  BY ChannelSettles
<1>2. /\ "A" \in Channels /\ "B" \in Channels /\ "C" \in Channels /\ "D" \in Channels
      /\ "E" \in Channels /\ "F" \in Channels /\ "G" \in Channels
  BY DEF Channels
<1>3. v7 = TRUE
  BY DEF Channels
<1>4. /\ v1 \in BOOLEAN /\ v2 \in BOOLEAN /\ v3 \in BOOLEAN /\ v4 \in BOOLEAN
      /\ v5 \in BOOLEAN /\ v6 \in BOOLEAN
  OBVIOUS
<1>5. SYS_PORTS_Initialize = q \o P("U2RX") \o P("U1RX") \o P("SDI2") \o P("U2TX") \o P("U1TX") \o P("SS2")
  BY DEF SYS_PORTS_Initialize
<1>6. Settles(q, c, FALSE, TRUE)
  <2> HIDE DEF I
  <2>1. Settles(I("A"), c, FALSE, v1)
    BY <1>1, <1>2
  <2>2. Settles(I("B"), c, v1, v2)
    BY <1>1, <1>2, <1>4
  <2>3. Settles(I("C"), c, v2, v3)
    BY <1>1, <1>2, <1>4
  <2>4. Settles(I("D"), c, v3, v4)
    BY <1>1, <1>2, <1>4
  <2>5. Settles(I("E"), c, v4, v5)
    BY <1>1, <1>2, <1>4
  <2>6. Settles(I("F"), c, v5, v6)
    BY <1>1, <1>2, <1>4
  <2>7. Settles(I("G"), c, v6, v7)
    BY <1>1, <1>2, <1>4
  <2> HIDE DEF v1, v2, v3, v4, v5, v6, v7
  <2>8. Settles(I("A") \o I("B") \o I("C"), c, FALSE, v3)
    BY <2>1, <2>2, <2>3, SettlesThen
  <2>9. Settles(I("A") \o I("B") \o I("C") \o I("D") \o I("E"), c, FALSE, v5)
    BY <2>8, <2>4, <2>5, SettlesThen
  <2>10. Settles(q, c, FALSE, v7)
    BY <2>9, <2>6, <2>7, SettlesThen
  <2> QED BY <1>3, <2>10
<1> HIDE DEF q, P, I, v1, v2, v3, v4, v5, v6, v7
<1>7. Settles(SYS_PORTS_Initialize, c, FALSE, TRUE)
  <2>1. \A f : Still(P(f))
    BY StillParts DEF P
  <2>2. Settles(q \o P("U2RX") \o P("U1RX") \o P("SDI2"), c, FALSE, TRUE)
    BY <1>6, <2>1, SettlesThen DEF Still
  <2>3. Settles(q \o P("U2RX") \o P("U1RX") \o P("SDI2") \o P("U2TX") \o P("U1TX") \o P("SS2"), c, FALSE, TRUE)
    BY <2>1, <2>2, SettlesThen DEF Still
  <2> QED BY <1>5, <2>3
<1> DEFINE B == SYS_CLK_Initialize \o SYS_DEVCON_Initialize
                \o SYS_DEVCON_PerformanceConfig(SYS_CLK_SystemFrequencyGet)
           E1 == Started("flash")
           E2 == Started("timer")
           E3 == Started("usart0")
           E4 == Started("usart1")
           E5 == Started("interrupts")
           E6 == Do("enable")
           E7 == Started("app")
<1>8. Still(B)
  BY StillParts, StillRules
<1>9. /\ Still(E1) /\ Still(E2) /\ Still(E3) /\ Still(E4) /\ Still(E5) /\ Still(E6) /\ Still(E7)
      /\ Still(DRV_ADC_Initialize)
  BY StillRules, StillParts DEF Accesses
<1>10. SYS_Initialize = B \o SYS_PORTS_Initialize \o DRV_ADC_Initialize \o E1 \o E2 \o E3 \o E4 \o E5 \o E6 \o E7
  BY DEF SYS_Initialize
<1> HIDE DEF B, E1, E2, E3, E4, E5, E6, E7
<1>11. Settles(B \o SYS_PORTS_Initialize, c, FALSE, TRUE)
  BY <1>7, <1>8, SettlesThen DEF Still
<1>12. Settles(B \o SYS_PORTS_Initialize \o DRV_ADC_Initialize \o E1 \o E2, c, FALSE, TRUE)
  BY <1>9, <1>11, SettlesThen DEF Still
<1>13. Settles(B \o SYS_PORTS_Initialize \o DRV_ADC_Initialize \o E1 \o E2 \o E3 \o E4 \o E5, c, FALSE, TRUE)
  BY <1>9, <1>12, SettlesThen DEF Still
<1>14. Settles(B \o SYS_PORTS_Initialize \o DRV_ADC_Initialize \o E1 \o E2 \o E3 \o E4 \o E5 \o E6 \o E7, c,
              FALSE, TRUE)
  BY <1>9, <1>13, SettlesThen DEF Still
<1> QED BY <1>10, <1>14

-----------------------------------------------------------------------------
(* The inductive invariant: what is still to do takes the control to the   *)
(* end of the call, every register from its value to the value asked for,  *)
(* and, before the application is ready, no latch to a pin too early.      *)

End == [inside |-> FALSE, enabled |-> TRUE, first |-> FALSE, open |-> FALSE,
        ready |-> Drivers \union {"app"}]

\* The processor and the history are as the state x of the program says.  An
\* interrupt cannot spoil the first key: x.first is FALSE where it may come.
Agrees(x) ==
  /\ x.inside => ~ie /\ int_flag = (x.enabled /\ asFound)
  /\ ~x.inside => ie = (x.enabled /\ asFound)
  /\ ~x.enabled => asFound
  /\ x.enabled => Drivers \subseteq x.ready
  /\ ready = x.ready
  /\ x.first => key = "first"
  /\ x.open => key = "open"

Types ==
  /\ key \in {"locked", "first", "open"} /\ converter \in {"good", "refused", "fault"}
  /\ {ie, int_flag, pending, asFound} \subseteq BOOLEAN /\ calls \in 0..MAX_CALLS
  /\ exists \subseteq Features
  /\ WellFormed(reg) /\ WellFormed(asked)

\* What is asked for is what SYS_Initialize sets for good, whatever is called.
AsBooted(f) ==
  /\ \A b \in Buses \ {6} : f.pbDiv[b] = IF b = 7 THEN 1 ELSE 2
  /\ \A b \in Buses \ {6} : f.pbOn[b] = TRUE
  /\ f.refBase[1] = "SYSCLK" /\ f.refOn[1] = TRUE /\ f.refDiv[1] = 19 /\ f.refTrim[1] = 272
  /\ f.state[1] = "READY" /\ ("PrefetchEnable" \in exists => f.prefetch[1] = TRUE)

AsConfigured(f) == f.pps = Remapped /\ f.tris = Input /\ f.ansel = Analog

\* The pins of channel c drive nothing yet or their latches are clear (z), and they
\* stay so.
Settling(c) ==
  \E z \in BOOLEAN : /\ z => reg.lat[c] = {}
                     /\ ~z => reg.tris[c] = Bits
                     /\ Settles(todo, c, z, TRUE)

IInv == /\ Types
        /\ \E x \in States : Agrees(x) /\ Takes(todo, x, End)
        /\ Does(todo, reg, asked)
        /\ AsBooted(asked) /\ (calls = 0 => AsConfigured(asked))
        /\ ~booted => \A c \in Channels : Settling(c)

LEMMA EndIsState == /\ End \in States /\ ~End.inside /\ End.enabled /\ End.open = FALSE
                    /\ End.first = FALSE /\ End.ready = Drivers \union {"app"}
BY DEF End, States

LEMMA AtEnd ==
  ASSUME IInv, todo = <<>>
  PROVE  /\ Agrees(End)
         /\ \A r \in Settings : \A i \in Index(r) : reg[r][i] = asked[r][i]
         /\ \A r \in Settings : reg[r] = asked[r]
<1>1. Agrees(End)
  BY TakesRules DEF IInv
<1>2. \A r \in Settings : \A i \in Index(r) : reg[r][i] = asked[r][i]
  BY TurnsRules DEF IInv, Does
<1>3. ASSUME NEW r \in Settings PROVE reg[r] = asked[r]
  <2>1. reg[r] = [i \in Index(r) |-> reg[r][i]] /\ asked[r] = [i \in Index(r) |-> asked[r][i]]
    BY DEF IInv, Types, WellFormed, Fits, Settings
  <2>2. [i \in Index(r) |-> reg[r][i]] = [i \in Index(r) |-> asked[r][i]]
    BY <1>2
  <2> QED BY <2>1, <2>2
<1> QED BY <1>1, <1>2, <1>3

LEMMA TypeFromInvariant == IInv => TypeOK
<1> SUFFICES ASSUME IInv PROVE TypeOK
  OBVIOUS
<1>1. ready \subseteq Drivers \union {"app"}
  BY DEF IInv, Agrees, States
<1>2. ASSUME NEW r, WellFormed(r)
      PROVE  /\ \A b \in Buses : r.pbDiv[b] \in 1..128
             /\ r.waitStates[1] \in 0..7 /\ r.status[1] \in {"UNINITIALIZED", "READY"}
             /\ \A f \in {"odc", "lat", "tris", "ansel", "cnEn", "cnPu", "cnPd"} :
                  \A c \in Channels : r[f][c] \subseteq Bits
             /\ \A f \in DOMAIN r.pps : r.pps[f] \in (Channels \union {"none"}) \X Bits
  <2>1. \A f \in Registers : \A i \in Index(f) : OfType(f, r[f][i])
    BY <1>2 DEF WellFormed, Fits
  <2>2. \A b \in Buses : r.pbDiv[b] \in 1..128
    <3>1. "pbDiv" \in Registers /\ Index("pbDiv") = Buses
      BY Indices DEF Registers, PerBus
    <3> QED BY <2>1, <3>1 DEF OfType
  <2>3. r.waitStates[1] \in 0..7 /\ r.status[1] \in {"UNINITIALIZED", "READY"}
    <3>1. /\ "waitStates" \in Registers /\ "status" \in Registers
          /\ 1 \in Index("waitStates") /\ 1 \in Index("status")
      BY Indices DEF Registers, Single
    <3> QED BY <2>1, <3>1 DEF OfType
  <2>4. ASSUME NEW f \in Masked, NEW c \in Channels PROVE r[f][c] \subseteq Bits
    <3>1. f \in Registers /\ c \in Index(f)
      BY Indices DEF Registers, Masked, PerChannel, AndForAll
    <3> QED BY <2>1, <3>1 DEF OfType
  <2>5. \A f \in DOMAIN r.pps : r.pps[f] \in (Channels \union {"none"}) \X Bits
    <3>1. "pps" \in Registers
      BY DEF Registers
    <3>2. DOMAIN r.pps = Index("pps")
      BY <1>2, <3>1 DEF WellFormed, Fits
    <3> QED BY <2>1, <3>1, <3>2 DEF OfType, Pins
  <2> QED BY <2>2, <2>3, <2>4, <2>5 DEF Masked
<1> QED BY <1>1, <1>2 DEF IInv, Types, TypeOK

LEMMA BootTakes ==
  \E s0 \in States : /\ s0.inside = FALSE /\ s0.enabled = FALSE /\ s0.first = FALSE
                     /\ s0.open = FALSE /\ s0.ready = {} /\ Takes(SYS_Initialize, s0, End)
<1> DEFINE z0 == [inside |-> FALSE, enabled |-> FALSE, first |-> FALSE, open |-> FALSE, ready |-> {}]
           A  == SYS_CLK_Initialize \o SYS_DEVCON_Initialize
                 \o SYS_DEVCON_PerformanceConfig(SYS_CLK_SystemFrequencyGet)
                 \o SYS_PORTS_Initialize \o DRV_ADC_Initialize
<1>1. PICK s0 : s0 = z0
  OBVIOUS
<1>2. /\ s0 \in States /\ s0.inside = FALSE /\ s0.enabled = FALSE /\ s0.first = FALSE
      /\ s0.open = FALSE /\ s0.ready = {}
  BY <1>1 DEF States
<1> HIDE DEF z0
<1>3. Steady(A)
  BY SteadyRules, SteadyClock, SteadyDevcon, SteadyOperations, SteadyPorts, SteadyConverter
<1>4. ASSUME NEW d \in Drivers \union {"app"}, NEW x \in States
      PROVE  \E y \in States : /\ y = [x EXCEPT !.ready = @ \union {d}]
                               /\ Takes(Started(d), x, y)
  <2> DEFINE y == [x EXCEPT !.ready = @ \union {d}]
  <2>1. y \in States
    BY DEF States
  <2>2. ASSUME NEW o, o.op = "started", o.driver = d PROVE Takes(<<o>>, x, y)
    <3>1. Allows(o, x, y)
      BY <2>1, <2>2 DEF Allows, Accesses, Controls
    <3> QED BY <2>1, <3>1, TakesRules
  <2>3. Takes(Started(d), x, y)
    BY <2>2 DEF Started
  <2> QED BY <2>1, <2>3
<1>6. \A d \in Drivers, x \in States : \E y \in States :
        y = [x EXCEPT !.ready = @ \union {d}] /\ Takes(Started(d), x, y)
  BY <1>4
<1>s1. PICK s1 \in States : s1 = [s0 EXCEPT !.ready = @ \union {"flash"}] /\ Takes(Started("flash"), s0, s1)
  BY <1>2, <1>6 DEF Drivers
<1>s2. PICK s2 \in States : s2 = [s1 EXCEPT !.ready = @ \union {"timer"}] /\ Takes(Started("timer"), s1, s2)
  BY <1>6 DEF Drivers
<1>s3. PICK s3 \in States : s3 = [s2 EXCEPT !.ready = @ \union {"usart0"}] /\ Takes(Started("usart0"), s2, s3)
  BY <1>6 DEF Drivers
<1>s4. PICK s4 \in States : s4 = [s3 EXCEPT !.ready = @ \union {"usart1"}] /\ Takes(Started("usart1"), s3, s4)
  BY <1>6 DEF Drivers
<1>s5. PICK s5 \in States : s5 = [s4 EXCEPT !.ready = @ \union {"interrupts"}] /\ Takes(Started("interrupts"), s4, s5)
  BY <1>6 DEF Drivers
<1>7. /\ s5.inside = FALSE /\ s5.enabled = FALSE /\ s5.first = FALSE /\ s5.open = FALSE
      /\ s5.ready = Drivers
  BY <1>2, <1>s1, <1>s2, <1>s3, <1>s4, <1>s5 DEF States, Drivers
<1>8. PICK s6 \in States : s6 = [s5 EXCEPT !.enabled = TRUE] /\ Takes(Do("enable"), s5, s6)
  <2> DEFINE y == [s5 EXCEPT !.enabled = TRUE]
  <2>1. y \in States
    BY DEF States
  <2>2. ASSUME NEW o, o.op = "enable" PROVE Takes(<<o>>, s5, y)
    <3>1. Allows(o, s5, y)
      BY <1>7, <2>1, <2>2 DEF Allows, Accesses, Controls
    <3> QED BY <2>1, <3>1, TakesRules
  <2>3. Takes(Do("enable"), s5, y)
    BY <2>2 DEF Do
  <2> QED BY <2>1, <2>3
<1>9. Takes(Started("app"), s6, End)
  <2>1. PICK y \in States : y = [s6 EXCEPT !.ready = @ \union {"app"}] /\ Takes(Started("app"), s6, y)
    BY <1>4
  <2>2. y = End
    BY <1>7, <1>8, <2>1 DEF States, End
  <2> QED BY <2>1, <2>2
<1>10. Takes(A, s0, s0)
  BY <1>2, <1>3 DEF Steady, SteadyAt
<1>11. SYS_Initialize = A \o Started("flash") \o Started("timer") \o Started("usart0")
                          \o Started("usart1") \o Started("interrupts") \o Do("enable") \o Started("app")
  BY DEF SYS_Initialize
<1> HIDE DEF A
<1>12. Takes(SYS_Initialize, s0, End)
  <2>1. Takes(A \o Started("flash") \o Started("timer"), s0, s2)
    BY <1>s1, <1>s2, <1>10, TakesRules
  <2>2. Takes(A \o Started("flash") \o Started("timer") \o Started("usart0") \o Started("usart1"), s0, s4)
    BY <1>s3, <1>s4, <2>1, TakesRules
  <2>3. Takes(A \o Started("flash") \o Started("timer") \o Started("usart0") \o Started("usart1")
                \o Started("interrupts") \o Do("enable"), s0, s6)
    BY <1>s5, <1>8, <2>2, TakesRules
  <2> QED BY <1>9, <1>11, <2>3, TakesRules
<1> QED BY <1>2, <1>12

LEMMA ConfiguredAsBooted ==
  ASSUME NEW f, WellFormed(f), NEW g, g = Configured(f)
  PROVE  AsBooted(g) /\ AsConfigured(g)
<1>1. \A b \in Buses \ {6} : g.pbDiv[b] = IF b = 7 THEN 1 ELSE 2
  <2> SUFFICES ASSUME NEW b \in Buses \ {6} PROVE g.pbDiv[b] = IF b = 7 THEN 1 ELSE 2
    OBVIOUS
  <2>1. g.pbDiv[b] = IF b = 6 THEN f.pbDiv[b] ELSE IF b = 7 THEN 1 ELSE 2
    BY ConfiguredDivisors
  <2> QED BY <2>1
<1>2. \A b \in Buses \ {6} : g.pbOn[b] = TRUE
  <2> SUFFICES ASSUME NEW b \in Buses \ {6} PROVE g.pbOn[b] = TRUE
    OBVIOUS
  <2>1. g.pbOn[b] = IF b = 6 THEN f.pbOn[b] ELSE TRUE
    BY ConfiguredBuses
  <2> QED BY <2>1
<1>3. g.refBase[1] = "SYSCLK" /\ g.refDiv[1] = 19 /\ g.refTrim[1] = 272
  BY ConfiguredClock
<1>4. g.refOn[1] = TRUE
  <2>1. 1 \in References
    BY DEF References
  <2> QED BY <2>1, ConfiguredReferences
<1>5. g.state[1] = "READY"
  BY ConfiguredDevcon
<1>6. "PrefetchEnable" \in exists => g.prefetch[1] = TRUE
  BY ConfiguredWhere
<1>7. AsConfigured(g)
  BY ConfiguredPorts DEF AsConfigured
<1> QED BY <1>1, <1>2, <1>3, <1>4, <1>5, <1>6, <1>7 DEF AsBooted

LEMMA FoundAtReset ==
  ASSUME NEW divisor, NEW latches
  PROVE  AtReset(Found(divisor, latches))
<1> DEFINE f == Found(divisor, latches)
<1>1. /\ f.tris = [c \in Channels |-> Bits] /\ f.ansel = [c \in Channels |-> Bits]
      /\ f.cnOn = [c \in Channels \union {"all"} |-> FALSE]
      /\ f.cnPu = [c \in Channels \union {"all"} |-> {}]
  BY DEF Found
<1> HIDE DEF f
<1>2. f.cnPu["all"] = {} /\ f.cnOn["all"] = FALSE
  BY <1>1
<1>3. \A c \in Channels : f.tris[c] = Bits /\ f.ansel[c] = Bits /\ f.cnPu[c] = {}
  BY <1>1
<1> QED BY <1>2, <1>3 DEF AtReset, f

LEMMA InitInvariant == Init => IInv
<1> SUFFICES ASSUME Init PROVE IInv
  OBVIOUS
<1>1. PICK divisor \in {1, 2}, latches \in [Channels -> SUBSET Bits] : reg = Found(divisor, latches)
  <2>1. PICK divisor \in {1, 2}, latches \in Latches : reg = Found(divisor, latches)
    BY DEF Init
  <2> QED BY <2>1, SystemAssumption
<1>2. todo = SYS_Initialize /\ asked = Configured(reg) /\ ready = {} /\ ie = FALSE /\ asFound = TRUE
  BY DEF Init
<1>3. WellFormed(reg) /\ AtReset(reg)
  BY <1>1, WellFormedFound, FoundAtReset
<1>4. WellFormed(asked)
  BY <1>2, <1>3, WellFormedConfigured
<1>5. Types
  <2>1. calls \in 0 .. MAX_CALLS
    BY SystemAssumption DEF Init
  <2>2. {ie, int_flag, pending, asFound} \subseteq BOOLEAN
    BY DEF Init
  <2>3. exists \subseteq Features /\ key \in {"locked"} /\ converter \in {"good", "refused", "fault"}
    BY DEF Init
  <2> QED BY <1>3, <1>4, <2>1, <2>2, <2>3 DEF Types
<1>6. \E x \in States : Agrees(x) /\ Takes(todo, x, End)
  <2>1. PICK x \in States : /\ x.inside = FALSE /\ x.enabled = FALSE /\ x.first = FALSE /\ x.open = FALSE
                            /\ x.ready = {} /\ Takes(SYS_Initialize, x, End)
    BY BootTakes
  <2>2. Agrees(x)
    BY <1>2, <2>1 DEF Agrees
  <2> QED BY <1>2, <2>1, <2>2
<1>7. Does(todo, reg, asked)
  BY <1>2, <1>3, BootDoes
<1>8. AsBooted(asked) /\ AsConfigured(asked)
  BY <1>2, <1>3, ConfiguredAsBooted
<1>9. ASSUME NEW c \in Channels PROVE Settling(c)
  <2>1. reg.tris[c] = Bits
    BY <1>3 DEF AtReset
  <2> QED BY <1>2, <2>1, BootSettles DEF Settling
<1> QED BY <1>5, <1>6, <1>7, <1>8, <1>9 DEF IInv

\* A step of the program, in the state x of it.
LEMMA Onward ==
  ASSUME IInv, todo # <<>>
  PROVE  \E x, y \in States : Agrees(x) /\ Allows(Now, x, y) /\ Takes(Tail(todo), y, End)
<1>1. PICK x \in States : Agrees(x) /\ Takes(todo, x, End)
  BY DEF IInv
<1>2. PICK y : Allows(Head(todo), x, y) /\ Takes(Tail(todo), y, End)
  BY <1>1, TakesRules
<1>3. y \in States
  BY <1>2 DEF Allows
<1> QED BY <1>1, <1>2, <1>3 DEF Now

\* An operation writes the place it is about, and no other.
Written == \A r \in Registers : \A i \in Index(r) :
             reg'[r][i] = IF At(Now, r, i) THEN NewValue(Now, reg[r][i]) ELSE reg[r][i]

LEMMA WrittenAsTold ==
  ASSUME WellFormed(reg), Now.op \in Accesses,
         reg' = [reg EXCEPT ![Now.reg][Now.at] = NewValue(Now, @)]
  PROVE  Written
<1> SUFFICES ASSUME NEW r \in Registers, NEW i \in Index(r)
             PROVE  reg'[r][i] = IF At(Now, r, i) THEN NewValue(Now, reg[r][i]) ELSE reg[r][i]
  BY DEF Written
<1> DEFINE s == Now.reg
           j == Now.at
           v == NewValue(Now, reg[s][j])
<1>1. reg' = [reg EXCEPT ![s][j] = v]
  OBVIOUS
<1>2. At(Now, r, i) <=> s = r /\ j = i
  BY DEF At
<1>3. r \in DOMAIN reg /\ i \in DOMAIN reg[r]
  BY DEF WellFormed, Fits
<1>4. s = r /\ j = i => v = NewValue(Now, reg[r][i])
  OBVIOUS
<1> HIDE DEF s, j, v
<1>5. reg'[r][i] = IF s = r /\ j = i THEN v ELSE reg[r][i]
  BY <1>1, <1>3
<1> QED BY <1>2, <1>4, <1>5

\* No access behind SYSKEY is lost but a write of IOLOCK, which changes nothing.
LEMMA AccessStep ==
  ASSUME IInv, Access
  PROVE  /\ WellFormed(reg')
         /\ reg'.waitStates # reg.waitStates \/ reg'.prefetch # reg.prefetch => ~ie
         /\ Written
<1>1. PICK x, y \in States : Agrees(x) /\ Allows(Now, x, y)
  BY Onward DEF Access
<1>2. Now.op \in Accesses
  BY DEF Access
<1>3. Typed(Now) /\ (Now.reg \in Guarded => x.inside) /\ (Now.reg \in Sealed => x.open)
  BY <1>1, <1>2 DEF Allows
<1>4. (Now.reg \in Guarded => ~ie) /\ (Now.reg \in Sealed => key = "open")
  BY <1>1, <1>3 DEF Agrees
<1>5. WellFormed(reg)
  BY DEF IInv, Types
<1>6. /\ reg.iolock[1] = FALSE /\ Index("iolock") = 1 .. 1
      /\ \A i \in Index("iolock") : reg.iolock[i] = FALSE
  <2>1. "iolock" \in Registers /\ Index("iolock") = 1 .. 1 /\ 1 \in Index("iolock")
    BY Indices DEF Registers, Single
  <2>2. \A i \in Index("iolock") : OfType("iolock", reg.iolock[i])
    BY <1>5, <2>1 DEF WellFormed, Fits
  <2> QED BY <2>1, <2>2 DEF OfType
<1>7. CASE ~Ignored(Now.reg)
  <2> DEFINE r == Now.reg
             i == Now.at
             v == NewValue(Now, reg[r][i])
  <2>1. reg' = [reg EXCEPT ![r][i] = v]
    BY <1>7 DEF Access
  <2>2. ASSUME r \in Registers, i \in Index(r) PROVE OfType(r, v)
    <3>1. CASE Now.op = "write"
      <4>1. v = Now.value
        BY <3>1 DEF NewValue
      <4> QED BY <1>3, <4>1 DEF Typed
    <3>2. CASE Now.op \in {"set", "clear", "invert"}
      <4>1. r \in Masked /\ OfType(r, Now.value) /\ OfType(r, reg[r][i])
        BY <1>3, <1>5, <2>2, <3>2 DEF Typed, WellFormed, Fits
      <4>2. Now.value \subseteq Bits /\ reg[r][i] \subseteq Bits
        BY <4>1 DEF OfType
      <4>3. v \subseteq Bits
        BY <3>2, <4>2 DEF NewValue
      <4> QED BY <4>1, <4>3, FittingValues
    <3> QED BY <1>2, <3>1, <3>2 DEF Accesses
  <2>3. Written
    BY <1>2, <1>5, <2>1, WrittenAsTold
  <2> HIDE DEF v
  <2>4. WellFormed(reg')
    <3> HIDE DEF r, i
    <3> QED BY <1>5, <2>1, <2>2, WellFormedRules
  <2>5. "waitStates" \in DOMAIN reg /\ "prefetch" \in DOMAIN reg
    BY <1>5 DEF WellFormed, Registers, Single
  <2>6. r \notin Guarded => reg'.waitStates = reg.waitStates /\ reg'.prefetch = reg.prefetch
    BY <2>1, <2>5 DEF Guarded
  <2> QED BY <1>4, <2>3, <2>4, <2>6
<1>8. CASE Ignored(Now.reg)
  <2>1. reg' = reg
    BY <1>8 DEF Access
  <2>2. Now.reg = "iolock"
    BY <1>4, <1>6, <1>8 DEF Ignored, Sealed
  <2>3. Now.op = "write" /\ Now.value = FALSE
    BY <1>2, <1>3, <2>2 DEF Typed, OfType, Masked
  <2>4. \A v : NewValue(Now, v) = FALSE
    BY <2>3 DEF NewValue
  <2>5. \A r, i : At(Now, r, i) => r = "iolock"
    BY <2>2 DEF At
  <2>6. Written
    BY <1>6, <2>1, <2>4, <2>5 DEF Written
  <2> QED BY <1>5, <2>1, <2>6
<1> QED BY <1>7, <1>8

\* One operation of the program changes the place it is about.
LEMMA PlacesStep ==
  ASSUME IInv, todo # <<>>, todo' = Tail(todo), asked' = asked, Written
  PROVE  Does(todo', reg', asked') /\ (~booted => \A c \in Channels : Settling(c)')
<1>1. WellFormed(reg)
  BY DEF IInv, Types
<1>2. \A r \in Registers : \A i \in Index(r) :
        reg'[r][i] = IF At(Now, r, i) THEN NewValue(Now, reg[r][i]) ELSE reg[r][i]
  BY DEF Written
<1>3. Does(todo', reg', asked')
  <2> SUFFICES ASSUME NEW r \in Settings, NEW i \in Index(r)
               PROVE  Turns(todo', r, i, reg'[r][i], asked'[r][i])
    BY DEF Does
  <2>1. Turns(todo, r, i, reg[r][i], asked[r][i])
    BY DEF IInv, Does
  <2>2. Turns(Tail(todo), r, i, IF At(Now, r, i) THEN NewValue(Now, reg[r][i]) ELSE reg[r][i], asked[r][i])
    BY <2>1, TurnsRules DEF Now
  <2> QED BY <1>2, <2>2 DEF Settings
<1>4. ASSUME ~booted, NEW c \in Channels PROVE Settling(c)'
  <2>1. PICK z \in BOOLEAN : (z => reg.lat[c] = {}) /\ (~z => reg.tris[c] = Bits) /\ Settles(todo, c, z, TRUE)
    BY <1>4 DEF IInv, Settling
  <2>2. PICK y : Settles(Tail(todo), c, y, TRUE) /\ Moves(Latch(c), Now, z, y)
    BY <2>1, SettlesRules DEF Now
  <2>3. Latch(c).watch = "latch" /\ Latch(c).channel = c
    BY DEF Latch
  <2>4. /\ At(Now, "lat", c) => Now.op = "write" /\ Now.value = {} /\ y = TRUE
        /\ ~At(Now, "lat", c) => y = z
        /\ At(Now, "tris", c) => z = TRUE
    BY <2>2, <2>3 DEF Moves
  <2>5. y \in BOOLEAN
    BY <2>4
  <2>6. /\ "lat" \in Registers /\ "tris" \in Registers /\ c \in Index("lat") /\ c \in Index("tris")
    BY Indices DEF Registers, PerChannel
  <2>7. /\ reg'.lat[c] = IF At(Now, "lat", c) THEN NewValue(Now, reg.lat[c]) ELSE reg.lat[c]
        /\ reg'.tris[c] = IF At(Now, "tris", c) THEN NewValue(Now, reg.tris[c]) ELSE reg.tris[c]
    BY <1>2, <2>6
  <2>8. At(Now, "lat", c) => NewValue(Now, reg.lat[c]) = {}
    BY <2>4 DEF NewValue
  <2>9. y => reg'.lat[c] = {}
    BY <2>1, <2>4, <2>7, <2>8
  <2>10. ~y => reg'.tris[c] = Bits
    BY <2>1, <2>4, <2>7
  <2> QED BY <2>2, <2>5, <2>9, <2>10 DEF Settling
<1> QED BY <1>3, <1>4

LEMMA RunsStep ==
  ASSUME IInv, Runs
  PROVE  IInv' /\ (reg'.waitStates # reg.waitStates \/ reg'.prefetch # reg.prefetch => ~ie)
<1>1. todo # <<>> /\ todo' = Tail(todo) /\ UNCHANGED <<converter, exists, asked, asFound, calls>>
  BY DEF Runs, Step, Access, Disable, Restore, Enable, Key, BusyWait, Select, DriverStarts, Sleep, Wake, Goes
<1>2. PICK x, y \in States : Agrees(x) /\ Allows(Now, x, y) /\ Takes(todo', y, End)
  BY <1>1, Onward
<1>3. /\ key \in {"locked", "first", "open"} /\ ie \in BOOLEAN /\ int_flag \in BOOLEAN
      /\ pending \in BOOLEAN /\ asFound \in BOOLEAN /\ WellFormed(reg)
  BY DEF IInv, Types
<1>4. Now.op \notin Accesses => reg' = reg
  BY DEF Runs, Step, Access, Disable, Restore, Enable, Key, BusyWait, Select, DriverStarts, Sleep, Wake
<1>5. Written
  <2>1. ASSUME Now.op \in Accesses PROVE Access
    BY <2>1 DEF Runs, Step, Disable, Restore, Enable, Key, BusyWait, Select, DriverStarts, Sleep, Wake, Goes, Accesses
  <2>2. CASE Now.op \notin Accesses
    BY <1>4, <2>2 DEF Written, At
  <2> QED BY <2>1, <2>2, AccessStep
<1>6. Does(todo', reg', asked') /\ (~booted => \A c \in Channels : Settling(c)')
  BY <1>1, <1>5, PlacesStep
<1>7. ready \subseteq ready'
  BY DEF Runs, Step, Access, Disable, Restore, Enable, Key, BusyWait, Select, DriverStarts, Sleep, Wake
<1>8. AsBooted(asked)' /\ (calls = 0 => AsConfigured(asked))'
  BY <1>1 DEF IInv, AsBooted, AsConfigured
<1>9. ASSUME Agrees(y)', WellFormed(reg'), key' \in {"locked", "first", "open"},
             ie' \in BOOLEAN, int_flag' \in BOOLEAN, pending' \in BOOLEAN
      PROVE  IInv'
  <2>1. Types'
    BY <1>1, <1>9 DEF IInv, Types
  <2>2. Takes(todo, y, End)' /\ y \in States'
    BY <1>2
  <2>3. Does(todo, reg, asked)'
    BY <1>6
  <2>4. (~booted)' => \A c \in Channels : Settling(c)'
    BY <1>6, <1>7 DEF booted
  <2> QED BY <1>8, <1>9, <2>1, <2>2, <2>3, <2>4 DEF IInv
\* Operations that move neither the program nor the interrupt enable.
<1>10. ASSUME y = x, UNCHANGED <<key, ie, int_flag, pending, ready>>, WellFormed(reg')
       PROVE  IInv'
  <2>1. Agrees(y)'
    BY <1>1, <1>2, <1>10 DEF Agrees
  <2> QED BY <1>3, <1>9, <1>10, <2>1
<1>11. CASE Access
  <2>1. y = x
    BY <1>2, <1>11 DEF Access, Allows, Accesses, Controls
  <2>2. WellFormed(reg') /\ UNCHANGED <<key, ie, int_flag, pending, ready>>
    BY <1>11, AccessStep DEF Access
  <2> QED BY <1>10, <1>11, <2>1, <2>2, AccessStep
<1>12. CASE Disable
  <2>1. ~x.inside /\ y = [x EXCEPT !.inside = TRUE]
    BY <1>2, <1>12 DEF Disable, Goes, Allows
  <2>2. y.inside /\ y.enabled = x.enabled /\ y.ready = x.ready /\ y.first = x.first /\ y.open = x.open
    BY <2>1 DEF States
  <2>3. int_flag' = ie /\ ie' = FALSE /\ UNCHANGED <<reg, key, pending, ready>>
    BY <1>12 DEF Disable
  <2>4. Agrees(y)'
    BY <1>1, <1>2, <2>1, <2>2, <2>3 DEF Agrees
  <2> QED BY <1>3, <1>9, <2>3, <2>4
<1>13. CASE Restore
  <2>1. x.inside /\ y = [x EXCEPT !.inside = FALSE, !.first = FALSE]
    BY <1>2, <1>13 DEF Restore, Goes, Allows
  <2>2. ~y.inside /\ y.enabled = x.enabled /\ y.ready = x.ready /\ y.first = FALSE /\ y.open = x.open
    BY <2>1 DEF States
  <2>3. ie' = (ie \/ int_flag) /\ UNCHANGED <<reg, key, int_flag, pending, ready>>
    BY <1>13 DEF Restore
  <2>4. Agrees(y)'
    BY <1>1, <1>2, <2>1, <2>2, <2>3 DEF Agrees
  <2> QED BY <1>3, <1>9, <2>3, <2>4
<1>14. CASE Enable
  <2>1. ~x.inside /\ ~x.enabled /\ Drivers \subseteq x.ready /\ y = [x EXCEPT !.enabled = TRUE]
    BY <1>2, <1>14 DEF Enable, Goes, Allows
  <2>2. ~y.inside /\ y.enabled /\ y.ready = x.ready /\ y.first = x.first /\ y.open = x.open
    BY <2>1 DEF States
  <2>3. ie' = TRUE /\ UNCHANGED <<reg, key, int_flag, pending, ready>>
    BY <1>14 DEF Enable
  <2>4. Agrees(y)'
    BY <1>1, <1>2, <2>1, <2>2, <2>3 DEF Agrees
  <2> QED BY <1>3, <1>9, <2>3, <2>4
<1>15. CASE Key
  <2>1. UNCHANGED <<reg, ie, int_flag, pending, ready>>
    BY <1>15 DEF Key
  <2>2. ASSUME y.inside = x.inside, y.enabled = x.enabled, y.ready = x.ready,
               y.first => key' = "first", y.open => key' = "open"
        PROVE  Agrees(y)'
    BY <1>1, <1>2, <2>1, <2>2 DEF Agrees
  <2>3. CASE Now.op = "key1" /\ key' = "first"
    <3>1. y = [x EXCEPT !.first = x.inside, !.open = FALSE]
      BY <1>2, <2>3 DEF Allows
    <3>2. y.inside = x.inside /\ y.enabled = x.enabled /\ y.ready = x.ready /\ y.open = FALSE
      BY <3>1 DEF States
    <3> QED BY <1>3, <1>9, <2>1, <2>2, <2>3, <3>2
  <2>4. CASE Now.op = "key2" /\ key' = IF key = "first" THEN "open" ELSE "locked"
    <3>1. y = [x EXCEPT !.first = FALSE, !.open = x.first]
      BY <1>2, <2>4 DEF Allows
    <3>2. /\ y.inside = x.inside /\ y.enabled = x.enabled /\ y.ready = x.ready
          /\ y.first = FALSE /\ y.open = x.first
      BY <3>1 DEF States
    <3>3. x.first => key = "first"
      BY <1>2 DEF Agrees
    <3> QED BY <1>3, <1>9, <2>1, <2>2, <2>4, <3>2, <3>3
  <2>5. CASE Now.op = "lock" /\ key' = "locked"
    <3>1. y = [x EXCEPT !.first = FALSE, !.open = FALSE]
      BY <1>2, <2>5 DEF Allows
    <3>2. /\ y.inside = x.inside /\ y.enabled = x.enabled /\ y.ready = x.ready
          /\ y.first = FALSE /\ y.open = FALSE
      BY <3>1 DEF States
    <3> QED BY <1>3, <1>9, <2>1, <2>2, <2>5, <3>2
  <2> QED BY <1>15, <2>1, <2>3, <2>4, <2>5 DEF Key, Goes
<1>16. CASE BusyWait \/ Select \/ Sleep \/ Wake
  <2>1. Now.op \in {"await", "select", "wait", "asleep"}
    BY <1>16 DEF BusyWait, Select, Sleep, Wake, Goes
  <2>2. y = x
    BY <1>2, <2>1 DEF Allows, Controls
  <2>3. UNCHANGED <<reg, key, ie, int_flag, pending, ready>>
    BY <1>16 DEF BusyWait, Select, Sleep, Wake
  <2> QED BY <1>3, <1>10, <2>2, <2>3
<1>17. CASE DriverStarts
  <2>1. y = [x EXCEPT !.ready = @ \union {Now.driver}]
    BY <1>2, <1>17 DEF DriverStarts, Allows
  <2>2. /\ y.inside = x.inside /\ y.enabled = x.enabled /\ y.ready = x.ready \union {Now.driver}
        /\ y.first = x.first /\ y.open = x.open
    BY <2>1 DEF States
  <2>3. ready' = ready \union {Now.driver} /\ UNCHANGED <<reg, key, ie, int_flag, pending>>
    BY <1>17 DEF DriverStarts
  <2>4. Agrees(y)'
    BY <1>1, <1>2, <2>2, <2>3 DEF Agrees
  <2> QED BY <1>3, <1>9, <2>3, <2>4
<1> QED BY <1>11, <1>12, <1>13, <1>14, <1>15, <1>16, <1>17 DEF Runs, Step

\* Neither an interrupt, the converter nor the timer touches what the program
\* relies on, nor does a step that changes nothing.
LEMMA OtherSteps ==
  ASSUME IInv, (Handler /\ ~Asleep) \/ Converter \/ Tick \/ UNCHANGED vars
  PROVE  IInv' /\ reg'.waitStates = reg.waitStates /\ reg'.prefetch = reg.prefetch
<1>1. UNCHANGED <<todo, ie, int_flag, ready, converter, exists, asked, asFound, calls>>
  BY DEF Handler, Interrupt, Converter, ConverterGoesOn, Tick, vars, boardVars
<1>2. WellFormed(reg) /\ WellFormed(asked)
  BY DEF IInv, Types
<1>3. key' \in {"locked", "first", "open"} /\ pending' \in BOOLEAN
  BY DEF Handler, Interrupt, Converter, ConverterGoesOn, Tick, vars, boardVars, IInv, Types
<1>4. WellFormed(reg') /\ \A r \in Settings : reg'[r] = reg[r]
  <2>1. CASE UNCHANGED reg
    BY <1>2, <2>1
  <2>2. CASE Converter
    <3> DEFINE Moved == {"vref", "noFault", "channelReady", "adcTrigger", "adcData"}
    <3>1. \A r \in Moved : \A v : OfType(r, v)
      BY FittingValues DEF Untyped, Registers, Single, Masked
    <3>2. ASSUME NEW f, WellFormed(f), NEW r \in Moved, NEW v
          PROVE  WellFormed([f EXCEPT ![r][1] = v])
      BY <3>1, <3>2, WellFormedRules
    <3>3. PICK p \in Moved, q \in Moved :
            \E b, c : \/ reg' = [reg EXCEPT ![p][1] = b, ![q][1] = c]
                      \/ reg' = [reg EXCEPT ![p][1] = b]
      BY <2>2 DEF Converter, ConverterGoesOn
    <3>b. PICK b, c : \/ reg' = [reg EXCEPT ![p][1] = b, ![q][1] = c]
                      \/ reg' = [reg EXCEPT ![p][1] = b]
      BY <3>3
    <3>4. PICK f : f = [reg EXCEPT ![p][1] = b] /\ (reg' = f \/ reg' = [f EXCEPT ![q][1] = c])
      BY <3>b
    <3>5. WellFormed(f) /\ WellFormed(reg')
      <4>1. WellFormed([reg EXCEPT ![p][1] = b])
        BY <1>2, <3>2, <3>3
      <4>2. WellFormed([f EXCEPT ![q][1] = c])
        BY <3>2, <3>3, <3>4, <4>1
      <4> QED BY <3>4, <4>1, <4>2
    <3>6. ASSUME NEW r \in Settings PROVE reg'[r] = reg[r]
      <4>1. r # p /\ r # q
        BY <3>3 DEF Settings, Flags
      <4>2. r \in DOMAIN reg /\ r \in DOMAIN f
        BY <1>2, <3>5 DEF WellFormed, Settings
      <4>3. f[r] = reg[r]
        BY <3>4, <4>1, <4>2
      <4> QED BY <3>4, <4>1, <4>2, <4>3
    <3> QED BY <3>5, <3>6
  <2> QED BY <2>1, <2>2 DEF Handler, Interrupt, Tick, vars, boardVars
<1>5. /\ "lat" \in Settings /\ "tris" \in Settings /\ "waitStates" \in Settings
      /\ "prefetch" \in Settings
  BY DEF Settings, Registers, PerChannel, Single, Flags
<1>6. Types'
  BY <1>1, <1>2, <1>3, <1>4 DEF IInv, Types
<1>7. ASSUME NEW x \in States, Agrees(x) PROVE Agrees(x)'
  <2>1. x.first => ~ie
    BY <1>7 DEF Agrees, States
  <2>2. key' = key \/ (ie /\ key = "first")
    BY DEF Handler, Interrupt, Converter, ConverterGoesOn, Tick, vars, boardVars
  <2> QED BY <1>1, <1>7, <2>1, <2>2 DEF Agrees
<1>8. \A x \in States : Takes(todo, x, End) => Takes(todo', x, End)
  BY <1>1
<1>9. Does(todo', reg', asked')
  <2>1. Does(todo, reg', asked)
    BY <1>4 DEF IInv, Does
  <2> QED BY <1>1, <2>1
<1>10. (~booted)' => \A c \in Channels : Settling(c)'
  BY <1>1, <1>4, <1>5 DEF IInv, Settling, booted
<1>11. AsBooted(asked)' /\ (calls = 0 => AsConfigured(asked))'
  BY <1>1 DEF IInv, AsBooted, AsConfigured
<1>12. IInv'
  <2>1. Does(todo, reg, asked)'
    BY <1>9
  <2>2. (\E x \in States : Agrees(x) /\ Takes(todo, x, End))'
    BY <1>7, <1>8 DEF IInv
  <2> QED BY <1>6, <1>10, <1>11, <2>1, <2>2 DEF IInv
<1> QED BY <1>4, <1>5, <1>12

\* An interrupt that wakes the processor: the program goes on after its "wait".
LEMMA WakingStep ==
  ASSUME IInv, Handler, Asleep
  PROVE  IInv' /\ UNCHANGED reg
<1>1. /\ todo # <<>> /\ Now.op = "asleep" /\ todo' = Tail(todo) /\ ie
      /\ pending' = FALSE /\ key' = IF key = "first" THEN "locked" ELSE key
      /\ UNCHANGED <<reg, ie, int_flag, ready, converter, exists, asked, asFound, calls>>
  BY DEF Handler, Interrupt, Asleep
<1>2. PICK x, y \in States : Agrees(x) /\ Allows(Now, x, y) /\ Takes(todo', y, End)
  BY <1>1, Onward
<1>3. y = x
  BY <1>1, <1>2 DEF Allows, Controls
<1>4. Agrees(x)'
  <2>1. ~x.first
    BY <1>1, <1>2 DEF Agrees, States
  <2> QED BY <1>1, <1>2, <2>1 DEF Agrees
<1>5. Types'
  BY <1>1 DEF IInv, Types
<1>6. Does(todo', reg', asked') /\ (~booted => \A c \in Channels : Settling(c)')
  <2>1. Now.op \notin Accesses
    BY <1>1 DEF Accesses
  <2>2. Written
    BY <1>1, <2>1 DEF Written, At
  <2> QED BY <1>1, <2>2, PlacesStep
<1>7. AsBooted(asked)' /\ (calls = 0 => AsConfigured(asked))'
  BY <1>1 DEF IInv, AsBooted, AsConfigured
<1>8. (\E s \in States : Agrees(s) /\ Takes(todo, s, End))'
  BY <1>2, <1>3, <1>4
<1>9. Does(todo, reg, asked)' /\ (~booted => \A c \in Channels : Settling(c))'
  BY <1>1, <1>6 DEF booted
<1> QED BY <1>1, <1>5, <1>7, <1>8, <1>9 DEF IInv

-----------------------------------------------------------------------------
(* Calls.                                                                  *)

LEMMA CallStep ==
  ASSUME IInv, NEW service, NEW wanted, Means(service, asked, wanted), Call(service, wanted)
  PROVE  IInv' /\ UNCHANGED reg
<1>1. todo = <<>> /\ booted /\ calls < MAX_CALLS
      /\ todo' = service /\ asked' = wanted /\ calls' = calls + 1
      /\ UNCHANGED <<reg, key, ie, int_flag, pending, ready, converter, exists, asFound>>
  BY DEF Call, atRest
<1>2. Agrees(End)
  BY <1>1, AtEnd
<1>3. Agrees(End)'
  BY <1>1, <1>2 DEF Agrees, End
<1>4. Takes(todo', End, End)
  BY <1>1, EndIsState DEF Means, Steady, SteadyAt
<1>5. Types' /\ (calls # 0)'
  <2>1. calls' \in 0 .. MAX_CALLS /\ calls' # 0
    BY <1>1, SystemAssumption DEF IInv, Types
  <2> QED BY <1>1, <2>1 DEF IInv, Types, Means
<1>6. Does(todo', reg, asked')
  <2>1. Does(service, asked, wanted)
    BY DEF Means
  <2>2. \A r \in Settings : \A i \in Index(r) : reg[r][i] = asked[r][i]
    BY <1>1, AtEnd
  <2>3. Does(service, reg, wanted)
    BY <2>1, <2>2 DEF Does
  <2> QED BY <1>1, <2>3
<1>7. AsBooted(asked)'
  <2>1. /\ wanted.pbDiv = asked.pbDiv /\ wanted.pbOn = asked.pbOn /\ wanted.refBase = asked.refBase
        /\ wanted.refOn = asked.refOn /\ wanted.refDiv = asked.refDiv /\ wanted.refTrim = asked.refTrim
        /\ wanted.state = asked.state /\ wanted.prefetch = asked.prefetch
    BY DEF Means, Kept, ClockSettings
  <2>2. AsBooted(asked)
    BY DEF IInv
  <2> QED BY <1>1, <2>1, <2>2 DEF AsBooted
<1>8. booted'
  BY <1>1 DEF booted
<1>9. (\E x \in States : Agrees(x) /\ Takes(todo, x, End))'
  <2>1. Takes(todo, End, End)' /\ End \in States
    BY <1>4, EndIsState
  <2> QED BY <1>3, <2>1
<1>10. Does(todo, reg, asked)'
  BY <1>1, <1>6
<1>11. IInv'
  BY <1>5, <1>7, <1>8, <1>9, <1>10 DEF IInv
<1> QED BY <1>1, <1>11

LEMMA ClockCallStep == ASSUME IInv, ClockCall PROVE IInv' /\ UNCHANGED reg
<1>1. WellFormed(asked)
  BY DEF IInv, Types
<1>2. asked.sosc[1] = reg.sosc[1]
  <2>1. todo = <<>>
    BY DEF ClockCall, Call, atRest
  <2>2. "sosc" \in Settings
    BY DEF Settings, Registers, Single, Flags
  <2> QED BY <2>1, <2>2, AtEnd
<1>3. WellFormed(reg)
  BY DEF IInv, Types
<1>4. /\ Means(SYS_CLK_SecondaryOscillatorEnable, asked, [asked EXCEPT !.sosc = <<TRUE>>])
      /\ Means(SYS_CLK_SecondaryOscillatorDisable, asked, [asked EXCEPT !.sosc = <<FALSE>>])
  BY <1>1, <1>2, <1>3, MeansClock
<1> QED BY <1>4, CallStep DEF ClockCall

LEMMA DevconCallStep == ASSUME IInv, DevconCall PROVE IInv' /\ UNCHANGED reg
<1>1. /\ WellFormed(asked) /\ asked.state[1] = "READY"
      /\ "PrefetchEnable" \in exists => asked.prefetch[1] = TRUE
  BY DEF IInv, Types, AsBooted
<1>2. CASE \/ Call(SYS_DEVCON_Reinitialize, [asked EXCEPT !.status = <<"READY">>])
           \/ Call(SYS_DEVCON_Deinitialize, [asked EXCEPT !.status = <<"UNINITIALIZED">>])
           \/ Call(SYS_DEVCON_JTAGEnable, [asked EXCEPT !.jtag = <<TRUE>>])
           \/ Call(SYS_DEVCON_JTAGDisable, [asked EXCEPT !.jtag = <<FALSE>>])
  BY <1>1, <1>2, MeansDevcon, CallStep
<1>3. CASE \/ Call(SYS_DEVCON_TraceEnable, Where("TraceOutput", [asked EXCEPT !.trace = <<TRUE>>]))
           \/ Call(SYS_DEVCON_TraceDisable, Where("TraceOutput", [asked EXCEPT !.trace = <<FALSE>>]))
  BY <1>1, <1>3, MeansDevcon, CallStep DEF Where
<1>4. ASSUME NEW mode \in {"IDLE", "SLEEP"},
             Call(SYS_DEVCON_PowerModeEnter(mode),
                  Where("OnWaitAction", [asked EXCEPT !.onWait = <<mode>>]))
      PROVE  IInv' /\ UNCHANGED reg
  BY <1>1, <1>4, MeansDevcon, CallStep DEF Where
<1>5. ASSUME NEW sysclk,
             Call(SYS_DEVCON_PerformanceConfig(sysclk),
                  Where("WaitState", [asked EXCEPT !.waitStates = <<WaitStates(sysclk)>>]))
      PROVE  IInv' /\ UNCHANGED reg
  <2>1. PICK w, g : /\ w = WaitStates(sysclk)
                    /\ g = Where("WaitState", [asked EXCEPT !.waitStates = <<WaitStates(sysclk)>>])
    OBVIOUS
  <2>2. g = IF "WaitState" \in exists THEN [asked EXCEPT !.waitStates = <<w>>] ELSE asked
    BY <2>1 DEF Where
  <2>3. Means(SYS_DEVCON_PerformanceConfig(sysclk), asked, g)
    BY <1>1, <2>1, <2>2, MeansPerformance
  <2> QED BY <1>5, <2>1, <2>3, CallStep
<1> QED BY <1>2, <1>3, <1>4, <1>5 DEF DevconCall

LEMMA ConverterCallStep == ASSUME IInv, ConverterCall PROVE IInv' /\ UNCHANGED reg
<1>1. WellFormed(asked)
  BY DEF IInv, Types
<1> QED BY <1>1, MeansConverter, CallStep DEF ConverterCall

LEMMA ChannelCallStep ==
  ASSUME IInv, NEW c \in Channels, NEW mask \in Masks, ChannelCall(c, mask)
  PROVE  IInv' /\ UNCHANGED reg
<1>1. WellFormed(asked) /\ mask \subseteq Bits
  BY SystemAssumption DEF IInv, Types
<1>2. CASE \/ Call(SYS_PORTS_Write(c, mask), [asked EXCEPT !.lat[c] = mask])
           \/ Call(SYS_PORTS_Clear(c, mask), [asked EXCEPT !.lat[c] = @ \ mask])
           \/ Call(SYS_PORTS_Toggle(c, mask),
                   [asked EXCEPT !.lat[c] = {b \in Bits : (b \in @) # (b \in mask)}])
  BY <1>1, <1>2, MeansChannel, CallStep
<1>3. ASSUME NEW value \in Masks,
             Call(SYS_PORTS_Set(c, value, mask), [asked EXCEPT !.lat[c] = @ \union (value \intersect mask)])
      PROVE  IInv' /\ UNCHANGED reg
  BY <1>1, <1>3, MeansChannel, CallStep
<1>4. CASE \/ Call(SYS_PORTS_DirectionSelect("INPUT", c, mask), [asked EXCEPT !.tris[c] = @ \union mask])
           \/ Call(SYS_PORTS_DirectionSelect("OUTPUT", c, mask), [asked EXCEPT !.tris[c] = @ \ mask])
  BY <1>1, <1>4, MeansChannel, CallStep
<1>5. CASE \/ Call(SYS_PORTS_OpenDrainEnable(c, mask),
                   Where("PortsOpenDrain", [asked EXCEPT !.odc[c] = @ \union mask]))
           \/ Call(SYS_PORTS_OpenDrainDisable(c, mask),
                   Where("PortsOpenDrain", [asked EXCEPT !.odc[c] = @ \ mask]))
  BY <1>1, <1>5, MeansChannel, CallStep DEF Where
<1> QED BY <1>2, <1>3, <1>4, <1>5 DEF ChannelCall

\* The pull-up of a pin's notice, then the notice, each on the parts that have it.
LEMMA MeansNoticed ==
  ASSUME NEW f, WellFormed(f), NEW g, NEW p \in Bits, NEW q, Means(q, f, g)
  PROVE  Means(q \o IfExists("PinChangeNotice", SetBits("cnEn", "all", {p})), f, Noticed(p, g))
<1>1. WellFormed(g)
  BY DEF Means
<1>2. Means(SetBits("cnEn", "all", {p}), g, [g EXCEPT !.cnEn["all"] = @ \union {p}])
  BY <1>1, MeansNotice
<1>3. Means(IfExists("PinChangeNotice", SetBits("cnEn", "all", {p})), g, Noticed(p, g))
  BY <1>1, <1>2, MeansRules DEF Noticed
<1> QED BY <1>3, MeansRules

LEMMA NoticeCallStep ==
  ASSUME IInv, NEW pinNum \in Bits, NoticeCall(pinNum)
  PROVE  IInv' /\ UNCHANGED reg
<1>1. WellFormed(asked)
  BY DEF IInv, Types
<1>2. ASSUME NEW feature, NEW q, NEW g, Means(q, asked, g)
      PROVE  Means(IfExists(feature, q), asked, Where(feature, g))
  BY <1>1, <1>2, MeansRules DEF Where
<1>3. ASSUME NEW v
      PROVE  /\ Means(IfExists("ChangeNotice", Write("cnOn", "all", v)), asked,
                      Where("ChangeNotice", [asked EXCEPT !.cnOn["all"] = v]))
             /\ Means(IfExists("ChangeNoticeInIdle", Write("cnInIdle", "all", v)), asked,
                      Where("ChangeNoticeInIdle", [asked EXCEPT !.cnInIdle["all"] = v]))
  BY <1>1, <1>2, MeansNotice
<1>4. Means(IfExists("PinChangeNotice", ClearBits("cnEn", "all", {pinNum})), asked,
            Where("PinChangeNotice", [asked EXCEPT !.cnEn["all"] = @ \ {pinNum}]))
  BY <1>1, <1>2, MeansNotice
<1>5. /\ Means(IfExists("ChangeNoticePullUp", SetBits("cnPu", "all", {pinNum})), asked,
               Where("ChangeNoticePullUp", [asked EXCEPT !.cnPu["all"] = @ \union {pinNum}]))
      /\ Means(IfExists("ChangeNoticePullUp", ClearBits("cnPu", "all", {pinNum})), asked,
               Where("ChangeNoticePullUp", [asked EXCEPT !.cnPu["all"] = @ \ {pinNum}]))
  BY <1>1, <1>2, MeansNotice
<1>6. CASE \/ Call(SYS_PORTS_ChangeNotificationGlobalEnable,
                   Where("ChangeNotice", [asked EXCEPT !.cnOn["all"] = TRUE]))
           \/ Call(SYS_PORTS_ChangeNotificationGlobalDisable,
                   Where("ChangeNotice", [asked EXCEPT !.cnOn["all"] = FALSE]))
           \/ Call(SYS_PORTS_GlobalChangeNotificationDisable,
                   Where("ChangeNotice", [asked EXCEPT !.cnOn["all"] = FALSE]))
  BY <1>3, <1>6, CallStep
     DEF SYS_PORTS_ChangeNotificationGlobalEnable, SYS_PORTS_ChangeNotificationGlobalDisable,
         SYS_PORTS_GlobalChangeNotificationDisable
<1>7. CASE \/ Call(SYS_PORTS_ChangeNotificationInIdleModeEnable,
                   Where("ChangeNoticeInIdle", [asked EXCEPT !.cnInIdle["all"] = TRUE]))
           \/ Call(SYS_PORTS_ChangeNotificationInIdleModeDisable,
                   Where("ChangeNoticeInIdle", [asked EXCEPT !.cnInIdle["all"] = FALSE]))
  BY <1>3, <1>7, CallStep
     DEF SYS_PORTS_ChangeNotificationInIdleModeEnable, SYS_PORTS_ChangeNotificationInIdleModeDisable
<1>8. CASE \/ Call(SYS_PORTS_ChangeNotificationDisable(pinNum),
                   Where("PinChangeNotice", [asked EXCEPT !.cnEn["all"] = @ \ {pinNum}]))
           \/ Call(SYS_PORTS_ChangeNotificationPullUpEnable(pinNum),
                   Where("ChangeNoticePullUp", [asked EXCEPT !.cnPu["all"] = @ \union {pinNum}]))
           \/ Call(SYS_PORTS_ChangeNotificationPullUpDisable(pinNum),
                   Where("ChangeNoticePullUp", [asked EXCEPT !.cnPu["all"] = @ \ {pinNum}]))
  BY <1>4, <1>5, <1>8, CallStep
     DEF SYS_PORTS_ChangeNotificationDisable, SYS_PORTS_ChangeNotificationPullUpEnable,
         SYS_PORTS_ChangeNotificationPullUpDisable
<1>9. CASE Call(SYS_PORTS_ChangeNotificationEnable(pinNum, "ENABLE"),
                Noticed(pinNum, Where("ChangeNoticePullUp",
                                      [asked EXCEPT !.cnPu["all"] = @ \union {pinNum}])))
  BY <1>1, <1>5, <1>9, MeansNoticed, CallStep
     DEF SYS_PORTS_ChangeNotificationEnable, SYS_PORTS_ChangeNotificationPullUpEnable
<1>10. CASE Call(SYS_PORTS_ChangeNotificationEnable(pinNum, "DISABLE"),
                 Noticed(pinNum, Where("ChangeNoticePullUp",
                                       [asked EXCEPT !.cnPu["all"] = @ \ {pinNum}])))
  BY <1>1, <1>5, <1>10, MeansNoticed, CallStep
     DEF SYS_PORTS_ChangeNotificationEnable, SYS_PORTS_ChangeNotificationPullUpDisable
<1> QED BY <1>6, <1>7, <1>8, <1>9, <1>10 DEF NoticeCall

LEMMA PinCallStep ==
  ASSUME IInv, NEW c \in Channels, NEW b \in Bits, PinCall(c, b)
  PROVE  IInv' /\ UNCHANGED reg
<1>1. WellFormed(asked)
  BY DEF IInv, Types
<1>2. CASE \/ Call(SYS_PORTS_PinSet(c, b), [asked EXCEPT !.lat[c] = @ \union {b}])
           \/ Call(SYS_PORTS_PinClear(c, b), [asked EXCEPT !.lat[c] = @ \ {b}])
           \/ Call(SYS_PORTS_PinToggle(c, b),
                   [asked EXCEPT !.lat[c] = IF b \in @ THEN @ \ {b} ELSE @ \union {b}])
           \/ Call(SYS_PORTS_PinWrite(c, b, TRUE), [asked EXCEPT !.lat[c] = @ \union {b}])
           \/ Call(SYS_PORTS_PinWrite(c, b, FALSE), [asked EXCEPT !.lat[c] = @ \ {b}])
  BY <1>1, <1>2, MeansPin, CallStep
<1>3. CASE \/ Call(SYS_PORTS_PinDirectionSelect("OUTPUT", c, b), [asked EXCEPT !.tris[c] = @ \ {b}])
           \/ Call(SYS_PORTS_PinDirectionSelect("INPUT", c, b), [asked EXCEPT !.tris[c] = @ \union {b}])
  BY <1>1, <1>3, MeansPin, CallStep
<1>4. CASE \/ Call(SYS_PORTS_PinModeSelect(c, b, "ANALOG"),
                   Where("PinMode", [asked EXCEPT !.ansel[c] = @ \union {b}]))
           \/ Call(SYS_PORTS_PinModeSelect(c, b, "DIGITAL"),
                   Where("PinMode", [asked EXCEPT !.ansel[c] = @ \ {b}]))
           \/ Call(SYS_PORTS_PinOpenDrainEnable(c, b),
                   Where("PortsOpenDrain", [asked EXCEPT !.odc[c] = @ \union {b}]))
           \/ Call(SYS_PORTS_PinOpenDrainDisable(c, b),
                   Where("PortsOpenDrain", [asked EXCEPT !.odc[c] = @ \ {b}]))
  BY <1>1, <1>4, MeansPin, CallStep DEF Where
<1> QED BY <1>2, <1>3, <1>4 DEF PinCall

LEMMA RemapCallStep ==
  ASSUME IInv, NEW pin \in Pins, RemapCall(pin)
  PROVE  IInv' /\ UNCHANGED reg
<1>1. WellFormed(asked)
  BY DEF IInv, Types
<1> QED BY <1>1, MeansRemap, CallStep DEF RemapCall, Where

LEMMA ClientInterruptsStep == ASSUME IInv, ClientInterrupts PROVE IInv' /\ UNCHANGED reg
<1>1. /\ todo = <<>> /\ booted /\ ie' = ~ie /\ asFound' = ~ie /\ calls < MAX_CALLS /\ calls' = calls + 1
      /\ UNCHANGED <<todo, reg, key, int_flag, pending, ready, converter, exists, asked>>
  BY DEF ClientInterrupts, atRest
<1>2. Agrees(End)'
  BY <1>1, AtEnd, EndIsState DEF Agrees, End
<1>3. Types' /\ (calls # 0)'
  <2>1. calls' \in 0 .. MAX_CALLS /\ calls' # 0 /\ ie' \in BOOLEAN /\ asFound' \in BOOLEAN
    BY <1>1, SystemAssumption DEF IInv, Types
  <2> QED BY <1>1, <2>1 DEF IInv, Types
<1>4. (\E x \in States : Agrees(x) /\ Takes(todo, x, End))'
  <2>1. Takes(todo, End, End)' /\ End \in States
    BY <1>1, EndIsState, TakesRules
  <2> QED BY <1>2, <2>1
<1>5. Does(todo, reg, asked)' /\ AsBooted(asked)' /\ booted'
  BY <1>1 DEF IInv, Does, AsBooted, booted
<1>6. IInv'
  BY <1>3, <1>4, <1>5 DEF IInv
<1> QED BY <1>1, <1>6

LEMMA StepInvariant ==
  ASSUME IInv, [Next]_vars
  PROVE  IInv' /\ (reg'.waitStates # reg.waitStates \/ reg'.prefetch # reg.prefetch => ~ie)
<1>1. CASE Runs
  BY <1>1, RunsStep
<1>2. CASE Handler \/ Converter \/ Tick \/ UNCHANGED vars
  <2>1. CASE Handler /\ Asleep
    BY <2>1, WakingStep
  <2>2. CASE ~(Handler /\ Asleep)
    BY <1>2, <2>2, OtherSteps
  <2> QED BY <2>1, <2>2
<1>3. CASE ClockCall \/ DevconCall \/ ConverterCall \/ ClientInterrupts
  BY <1>3, ClockCallStep, DevconCallStep, ConverterCallStep, ClientInterruptsStep
<1>4. ASSUME NEW mask \in Masks, ChannelCall("B", mask) PROVE IInv' /\ UNCHANGED reg
  BY <1>4, ChannelCallStep DEF Channels
<1>5. CASE NoticeCall(3) \/ PinCall("B", 12)
  <2>1. 3 \in Bits /\ 12 \in Bits /\ "B" \in Channels
    BY DEF Bits, Channels
  <2> QED BY <1>5, <2>1, NoticeCallStep, PinCallStep
<1>6. CASE RemapCall(<<"B", 3>>)
  <2>1. <<"B", 3>> \in Pins
    BY DEF Pins, Bits, Channels
  <2> QED BY <1>6, <2>1, RemapCallStep
<1> QED BY <1>1, <1>2, <1>3, <1>4, <1>5, <1>6 DEF Next

-----------------------------------------------------------------------------
(* Theorems.                                                               *)

\* Registers hold values of their types, whatever the calls and their order
\* (sys_ports_static.c, sys_clk_pic32mz.c, sys_devcon_pic32mz.c, drv_adc_static.c).
THEOREM TypeCorrect == Spec => []TypeOK
<1>1. Init => IInv
  BY InitInvariant
<1>2. IInv /\ [Next]_vars => IInv'
  BY StepInvariant
<1>3. IInv => TypeOK
  BY TypeFromInvariant
<1> QED BY <1>1, <1>2, <1>3, PTL DEF Spec

\* Between calls the interrupt enable is as the client left it, and interrupts
\* are on only with every driver ready.
Disciplined == (atRest => ie = asFound) /\ (ie => Drivers \subseteq ready)

LEMMA DisciplineFromInvariant == IInv => Disciplined
<1> SUFFICES ASSUME IInv PROVE Disciplined
  OBVIOUS
<1>1. atRest => ie = asFound
  BY AtEnd, EndIsState DEF Agrees, atRest, IInv, Types
<1>2. ie => Drivers \subseteq ready
  BY DEF IInv, Agrees
<1> QED BY <1>1, <1>2 DEF Disciplined

\* Wait states and prefetching change with interrupts off only; every call leaves
\* the interrupt enable as it found it, though SYS_DEVCON_SystemUnlock, SystemLock
\* and PerformanceConfig turn it off and on, one inside the other's caller; and
\* nothing turns interrupts on before SYS_INT_Enable of SYS_Initialize.
THEOREM InterruptsDisciplined == Spec => InterruptDiscipline
<1>1. Init => IInv
  BY InitInvariant
<1>2. IInv /\ [Next]_vars => IInv'
  BY StepInvariant
<1>3. IInv => Disciplined
  BY DisciplineFromInvariant
<1>4. IInv /\ [Next]_vars /\ Disciplined' =>
        [/\ reg'.waitStates # reg.waitStates \/ reg'.prefetch # reg.prefetch => ~ie
         /\ atRest' => ie' = asFound'
         /\ ie' => Drivers \subseteq ready']_vars
  BY StepInvariant DEF Disciplined
<1> QED BY <1>1, <1>2, <1>3, <1>4, PTL DEF Spec, InterruptDiscipline

\* The divisors SYS_CLK_Initialize writes give the frequencies the service tells.
LEMMA BootedFrequencies == ASSUME AsBooted(reg) PROVE FrequenciesTrue
<1>1. SystemClock = 200000
  BY DEF SystemClock, FRC
<1>2. SYS_CLK_SystemFrequencyGet = 200000
  BY DEF SYS_CLK_SystemFrequencyGet, SYS_CLK_FREQ
<1>3. ASSUME NEW b \in Buses \ {6}
      PROVE  reg.pbOn[b] /\ reg.pbDiv[b] * SYS_CLK_PeripheralFrequencyGet(b) = 200000
  <2>1. SYS_CLK_PeripheralFrequencyGet(b) = IF b = 7 THEN 200000 ELSE 100000
    BY DEF SYS_CLK_PeripheralFrequencyGet, SYS_CLK_BUS_PERIPHERAL
  <2>2. reg.pbDiv[b] = IF b = 7 THEN 1 ELSE 2
    BY DEF AsBooted
  <2>3. reg.pbOn[b] = TRUE
    BY DEF AsBooted
  <2> QED BY <2>1, <2>2, <2>3
<1>4. reg.refBase[1] = "SYSCLK" /\ reg.refOn[1]
  BY DEF AsBooted
<1>5. SYS_CLK_ReferenceFrequencyGet(1) * (512 * reg.refDiv[1] + reg.refTrim[1]) = 200000 * 256
  <2>1. SYS_CLK_ReferenceFrequencyGet(1) = 5120
    BY DEF SYS_CLK_ReferenceFrequencyGet, SYS_CLK_BUS_REFERENCE_1
  <2>2. reg.refDiv[1] = 19 /\ reg.refTrim[1] = 272
    BY DEF AsBooted
  <2> QED BY <2>1, <2>2
<1> QED BY <1>1, <1>2, <1>3, <1>4, <1>5 DEF FrequenciesTrue

LEMMA SettingsFromInvariant == IInv => SettingsTake
<1>0. ASSUME IInv, todo # <<>>, Now.op \in Accesses, Now.reg \in Sealed PROVE key = "open"
  <2>1. PICK x, y \in States : Agrees(x) /\ Allows(Now, x, y)
    BY <1>0, Onward
  <2> QED BY <1>0, <2>1 DEF Allows, Agrees
<1> SUFFICES ASSUME IInv, atRest
             PROVE  (\A r \in DOMAIN reg \ Flags : reg[r] = asked[r]) /\ FrequenciesTrue
  BY <1>0 DEF SettingsTake, Sealed
<1>1. \A r \in Settings : reg[r] = asked[r]
  BY AtEnd DEF atRest
<1>2. DOMAIN reg \ Flags = Settings
  BY DEF IInv, Types, WellFormed, Settings
<1>3. AsBooted(reg)
  <2>1. /\ "pbDiv" \in Settings /\ "pbOn" \in Settings /\ "refBase" \in Settings /\ "refOn" \in Settings
        /\ "refDiv" \in Settings /\ "refTrim" \in Settings /\ "state" \in Settings /\ "prefetch" \in Settings
    BY DEF Settings, Registers, PerBus, PerReference, Single, Flags
  <2>2. /\ reg.pbDiv = asked.pbDiv /\ reg.pbOn = asked.pbOn /\ reg.refBase = asked.refBase
        /\ reg.refOn = asked.refOn /\ reg.refDiv = asked.refDiv /\ reg.refTrim = asked.refTrim
        /\ reg.state = asked.state /\ reg.prefetch = asked.prefetch
    BY <1>1, <2>1
  <2>3. AsBooted(asked)
    BY DEF IInv
  <2> QED BY <2>2, <2>3 DEF AsBooted
<1> QED BY <1>1, <1>2, <1>3, BootedFrequencies

\* Every write behind SYSKEY but the one of IOLOCK finds SYSKEY open, wherever an
\* interrupt comes (SYS_DEVCON_SystemUnlock, sys_devcon.c). The write of IOLOCK in
\* SYS_PORTS_RemapInput and SYS_PORTS_RemapOutput (sys_ports_static.c) may be lost to
\* an interrupt between its keys; IOLOCK is open from reset, so the pin selection
\* takes its write all the same. When a call of the clock, device control or ports
\* service or of the converter's driver returns, every register is what the calls so
\* far asked for, on every part, no call disturbs a pin or a register it is not
\* about, and the frequencies that SYS_CLK_SystemFrequencyGet, PeripheralFrequencyGet
\* and ReferenceFrequencyGet tell are those of the divisors written (sys_clk_pic32mz.c).
THEOREM SettingsAreTaken == Spec => []SettingsTake
<1>1. Init => IInv
  BY InitInvariant
<1>2. IInv /\ [Next]_vars => IInv'
  BY StepInvariant
<1>3. IInv => SettingsTake
  BY SettingsFromInvariant
<1> QED BY <1>1, <1>2, <1>3, PTL DEF Spec

\* The pins of the project in the masks of system_config.h.
LEMMA ProjectPins ==
  /\ 4 \notin Analog.D /\ 5 \notin Analog.D /\ 4 \notin Analog.F /\ 5 \notin Analog.F
  /\ 7 \notin Analog.G /\ 2 \notin Analog.C /\ 8 \notin Analog.F
  /\ 12 \notin Analog.B /\ 12 \notin Input["B"]
  /\ \A b \in 0..3 : b \notin Analog.A /\ b \notin Input["A"]
  /\ Input["D"] = Bits /\ Input["F"] = Bits /\ Input["G"] = Bits
<1>1. /\ 4 \notin BitsOf(\hC1C0) /\ 5 \notin BitsOf(\hC1C0)
      /\ 4 \notin BitsOf(\hFEC0) /\ 5 \notin BitsOf(\hFEC0) /\ 8 \notin BitsOf(\hFEC0)
  BY DEF BitsOf
<1>2. /\ 7 \notin BitsOf(\h8F3C) /\ 2 \notin BitsOf(\hFFFB)
      /\ 12 \notin BitsOf(\h2FFF) /\ 12 \notin BitsOf(\h2FFE)
  BY DEF BitsOf
<1>3. /\ 0 \notin BitsOf(\h3F20) /\ 1 \notin BitsOf(\h3F20)
      /\ 2 \notin BitsOf(\h3F20) /\ 3 \notin BitsOf(\h3F20)
  BY DEF BitsOf
<1>4. /\ 0 \notin BitsOf(\hFFF0) /\ 1 \notin BitsOf(\hFFF0)
      /\ 2 \notin BitsOf(\hFFF0) /\ 3 \notin BitsOf(\hFFF0)
  BY DEF BitsOf
<1>5. /\ Analog.A = BitsOf(\h3F20) /\ Analog.B = BitsOf(\h2FFF) /\ Analog.C = BitsOf(\hFFFB)
      /\ Analog.D = BitsOf(\hC1C0) /\ Analog.F = BitsOf(\hFEC0) /\ Analog.G = BitsOf(\h8F3C)
  BY DEF Analog
<1>6. /\ Input["A"] = BitsOf(\hFFF0) /\ Input["B"] = BitsOf(\h2FFE)
      /\ Input["D"] = Bits /\ Input["F"] = Bits /\ Input["G"] = Bits
  BY DEF Input, Channels
<1>7. 4 \notin Analog.D /\ 5 \notin Analog.D
  BY <1>1, <1>5
<1>8. 4 \notin Analog.F /\ 5 \notin Analog.F /\ 8 \notin Analog.F
  BY <1>1, <1>5
<1>9. 7 \notin Analog.G /\ 2 \notin Analog.C /\ 12 \notin Analog.B /\ 12 \notin Input["B"]
  BY <1>2, <1>5, <1>6
<1>10. ASSUME NEW b \in 0..3 PROVE b \notin Analog.A /\ b \notin Input["A"]
  <2>1. b = 0 \/ b = 1 \/ b = 2 \/ b = 3
    OBVIOUS
  <2>2. (0 \notin Analog.A /\ 1 \notin Analog.A) /\ (2 \notin Analog.A /\ 3 \notin Analog.A)
    BY <1>3, <1>5
  <2>3. (0 \notin Input["A"] /\ 1 \notin Input["A"]) /\ (2 \notin Input["A"] /\ 3 \notin Input["A"])
    BY <1>4, <1>6
  <2> QED BY <2>1, <2>2, <2>3
<1> QED BY <1>6, <1>7, <1>8, <1>9, <1>10

LEMMA PinsFromInvariant == IInv => PinsSettle
<1> SUFFICES ASSUME IInv PROVE PinsSettle
  OBVIOUS
<1>1. ASSUME ~booted, NEW c \in Channels PROVE Bits \ reg.tris[c] \subseteq Bits \ reg.lat[c]
  <2>1. PICK z \in BOOLEAN : (z => reg.lat[c] = {}) /\ (~z => reg.tris[c] = Bits)
    BY <1>1 DEF IInv, Settling
  <2> QED BY <2>1
<1>2. ASSUME atRest, calls = 0 PROVE reg.pps = Remapped /\ reg.tris = Input /\ reg.ansel = Analog
  <2>1. "pps" \in Settings /\ "tris" \in Settings /\ "ansel" \in Settings
    BY DEF Settings, Registers, PerChannel, Flags
  <2>2. reg.pps = asked.pps /\ reg.tris = asked.tris /\ reg.ansel = asked.ansel
    BY <1>2, <2>1, AtEnd DEF atRest
  <2> QED BY <1>2, <2>2 DEF IInv, AsConfigured
<1>3. \A f \in DOMAIN Remapped : Remapped[f][2] \notin Analog[Remapped[f][1]]
  <2>1. /\ Remapped.U2RX = <<"D", 4>> /\ Remapped.U1RX = <<"F", 4>> /\ Remapped.SDI2 = <<"G", 7>>
        /\ Remapped.U2TX = <<"D", 5>> /\ Remapped.U1TX = <<"F", 5>> /\ Remapped.SS2 = <<"C", 2>>
        /\ DOMAIN Remapped = {"U2RX", "U1RX", "SDI2", "U2TX", "U1TX", "SS2"}
    BY DEF Remapped
  <2> QED BY <2>1, ProjectPins
<1>4. \A f \in {"U1RX", "U2RX", "SDI2"} : Remapped[f][2] \in Input[Remapped[f][1]]
  <2>1. Remapped.U2RX = <<"D", 4>> /\ Remapped.U1RX = <<"F", 4>> /\ Remapped.SDI2 = <<"G", 7>>
    BY DEF Remapped
  <2>2. 4 \in Bits /\ 7 \in Bits
    BY DEF Bits
  <2> QED BY <2>1, <2>2, ProjectPins
<1>5. \A pin \in {<<"B", 12>>} \union ({"A"} \X (0..3)) : pin[2] \notin Input[pin[1]] \union Analog[pin[1]]
  <2>1. ASSUME NEW pin \in {"A"} \X (0..3) PROVE pin[2] \notin Input[pin[1]] \union Analog[pin[1]]
    <3>1. pin[1] = "A" /\ pin[2] \in 0..3
      OBVIOUS
    <3> QED BY <3>1, ProjectPins
  <2>2. <<"B", 12>>[2] \notin Input[<<"B", 12>>[1]] \union Analog[<<"B", 12>>[1]]
    BY ProjectPins
  <2> QED BY <2>1, <2>2
<1>6. 8 \in Input["F"] \ Analog["F"]
  BY ProjectPins DEF Bits
<1> QED BY <1>1, <1>2, <1>3, <1>4, <1>5, <1>6 DEF PinsSettle

\* While SYS_PORTS_Initialize and the rest of SYS_Initialize run, no pin drives a
\* level before its latch is written, whatever each latch holds at reset, when every
\* pin is an input (sys_ports_static.c); and when the application is ready the UARTs, SPI 2,
\* RN2903_MCLR, the LEDs and the switch have their pins as system_config.h has them.
THEOREM PinsAreSettled == Spec => []PinsSettle
<1>1. Init => IInv
  BY InitInvariant
<1>2. IInv /\ [Next]_vars => IInv'
  BY StepInvariant
<1>3. IInv => PinsSettle
  BY PinsFromInvariant
<1> QED BY <1>1, <1>2, <1>3, PTL DEF Spec

=============================================================================
