--------------------------- MODULE CacheOps_proof ---------------------------
(***************************************************************************)
(* Proofs about the cache maintenance services, for every geometry of the  *)
(* caches, size of memory and range, and any number of stores and calls.   *)
(***************************************************************************)
EXTENDS CacheOps, SequenceTheorems, TLAPS

(***************************************************************************)
(* The inductive invariant.  Of the caches: a clean line is what memory    *)
(* has and a dirty one is not older, and what is not given up is the last  *)
(* store.  Of a call in progress: what it promises is in memory, or in a   *)
(* dirty line that one of the operations left will write back; what a      *)
(* fetch may still find too old, one of the operations left invalidates,   *)
(* after all that write back.                                              *)
(***************************************************************************)
Backed ==
  \A s \in Slots : dcache[s].line \in Lines => \A a \in Of(dcache[s].line) :
    mem[a] <= dcache[s].data[a] /\ (dcache[s].dirty \/ mem[a] = dcache[s].data[a])

Newest ==
  \A a \in Addresses \ given :
    /\ \A s \in Hits(dcache, LineOf(a)) : dcache[s].data[a] = last[a]
    /\ Hits(dcache, LineOf(a)) = {} => mem[a] = last[a]

Elements(q) == {q[i] : i \in 1 .. Len(q)}

Kinds == {"Hit_Writeback_Inv_D", "Index_Writeback_Inv_D", "Hit_Invalidate_D", "Hit_Invalidate_I",
          "Index_Invalidate_I", "synci", "Fetch_Lock_D", "Fetch_Lock_I", "init", "k0"}
Commands       == [op : Kinds, at : Int]
InstructionOps == {"Hit_Invalidate_I", "Index_Invalidate_I"}
LockOps        == {"Fetch_Lock_D", "Fetch_Lock_I"}
Promises == [memory : [Addresses -> Nat], fetch : [Addresses -> Nat],
             dlocked : SUBSET Lines, ilocked : SUBSET Lines, given : SUBSET Addresses]

\* The operations that write back, and that invalidate, slot s if it holds line l.
WritingBack(s, l)  == {Op("Hit_Writeback_Inv_D", l), Op("synci", l), Op("Index_Writeback_Inv_D", s)}
Invalidating(s, l) == {Op("Hit_Invalidate_I", l), Op("synci", l), Op("Index_Invalidate_I", s)}

\* The operations q of a call that promises p.
Allowed(o, q, p) ==
  /\ o.op \in {"init", "k0"} => Len(q) = 1 /\ o.at \in Coherencies
  /\ o.op = "k0" /\ o.at = DISABLE => k0 = DISABLE
  /\ o.op = "init" => p.given = Addresses
  /\ o.op = "Hit_Invalidate_D" => Of(o.at) \subseteq p.given
  /\ o.op \in {"init", "Hit_Invalidate_D"} => p.memory = Nothing.memory
  /\ o.op \in {"Index_Writeback_Inv_D", "Index_Invalidate_I"} => o.at \in Slots
  /\ o.op \in LockOps => o.at \in Lines
  /\ o.op = "Fetch_Lock_D" => k0 # DISABLE
  /\ o.op \notin LockOps => p.dlocked = {} /\ p.ilocked = {}

Sorted(q) ==
  \A i, j \in 1 .. Len(q) : i < j /\ q[i].op \in InstructionOps => q[j].op \in InstructionOps

Operations(q, p) ==
  /\ q \in Seq(Commands) /\ p \in Promises
  /\ Sorted(q) /\ \A o \in Elements(q) : Allowed(o, q, p)
  /\ q # <<>> => p.given \subseteq given

Written(q, p) ==
  \A a \in Addresses : p.memory[a] <= mem[a] \/
    \E s \in Hits(dcache, LineOf(a)) :
      /\ dcache[s].dirty /\ p.memory[a] <= dcache[s].data[a]
      /\ Elements(q) \intersect WritingBack(s, LineOf(a)) # {}

Pending(q, s, l) == Elements(q) \intersect Invalidating(s, l) # {}
Fetchable(q, p) ==
  \A a \in Addresses :
    /\ p.fetch[a] <= mem[a] \/ (p.fetch[a] <= p.memory[a] /\ \A s \in Slots : Pending(q, s, LineOf(a)))
    /\ \A s \in Hits(icache, LineOf(a)) : p.fetch[a] <= icache[s].data[a] \/ Pending(q, s, LineOf(a))

Locked(q, p) ==
  /\ \A l \in p.dlocked : Op("Fetch_Lock_D", l) \in Elements(q) \/ Held(dcache, l)
  /\ \A l \in p.ilocked : Op("Fetch_Lock_I", l) \in Elements(q) \/ Held(icache, l)

Promised(q, p) == Operations(q, p) /\ Written(q, p) /\ Fetchable(q, p) /\ Locked(q, p)

IInv == TypeOK /\ Backed /\ Newest /\ Promised(todo, promise)

-----------------------------------------------------------------------------
(* Addresses and lines.                                                    *)

LEMMA Geometry ==
  /\ LINE \in Nat \ {0} /\ WAYS \in Nat \ {0} /\ LINES_PER_WAY \in Nat \ {0}
  /\ MEMORY \in Nat \ {0} /\ MAX_STORES \in Nat /\ MAX_CALLS \in Nat
BY CacheAssumption DEF CacheAssumption

LEMMA Quotient ==
  ASSUME NEW c \in Nat, NEW b \in Nat \ {0}
  PROVE  c \div b \in Nat /\ b * (c \div b) <= c /\ c < b * (c \div b) + b
BY SMT

LEMMA Multiples ==
  ASSUME NEW b \in Nat \ {0}, NEW x \in Nat, NEW y \in Nat, x < y
  PROVE  b * x + b <= b * y
<1>1. b * (y - x) >= b
  BY SMT
<1>2. b * (y - x) = b * y - b * x
  BY SMT
<1> QED BY <1>1, <1>2

LEMMA LineOfMonotonic ==
  ASSUME NEW a \in Nat, NEW b \in Nat, a <= b
  PROVE  LineOf(a) \in Nat /\ LineOf(b) \in Nat /\ LineOf(a) <= LineOf(b)
<1> DEFINE p == a \div LINE
           q == b \div LINE
<1>1. /\ p \in Nat /\ LINE * p <= a /\ a < LINE * p + LINE
      /\ q \in Nat /\ LINE * q <= b /\ b < LINE * q + LINE
  BY Geometry, Quotient
<1> HIDE DEF p, q
<1>2. CASE q < p
  <2>1. LINE * q + LINE <= LINE * p
    BY <1>1, <1>2, Geometry, Multiples
  <2>2. LINE * q \in Nat /\ LINE * p \in Nat
    BY <1>1, Geometry
  <2> QED BY <1>1, <2>1, <2>2, Geometry
<1>3. CASE ~(q < p)
  BY <1>1, <1>3 DEF LineOf, p, q
<1> QED BY <1>2, <1>3

LEMMA LineStart ==
  ASSUME NEW l \in Nat
  PROVE  LINE * l \in Nat /\ LineOf(LINE * l) = l
<1> DEFINE q == (LINE * l) \div LINE
<1>1. LINE * l \in Nat
  BY Geometry
<1>2. q \in Nat /\ LINE * q <= LINE * l /\ LINE * l < LINE * q + LINE
  BY <1>1, Geometry, Quotient
<1> HIDE DEF q
<1>3. LINE * q \in Nat
  BY <1>2, Geometry
<1>4. CASE q < l
  <2>1. LINE * q + LINE <= LINE * l
    BY <1>2, <1>4, Geometry, Multiples
  <2> QED BY <1>1, <1>2, <1>3, <2>1, Geometry
<1>5. CASE l < q
  <2>1. LINE * l + LINE <= LINE * q
    BY <1>2, <1>5, Geometry, Multiples
  <2> QED BY <1>1, <1>2, <1>3, <2>1, Geometry
<1>6. CASE q = l
  BY <1>1, <1>6 DEF LineOf, q
<1>7. q < l \/ l < q \/ q = l
  BY <1>2
<1> QED BY <1>4, <1>5, <1>6, <1>7

LEMMA LineOfIs ==
  ASSUME NEW a \in Addresses
  PROVE  a \in Nat /\ LineOf(a) \in Lines /\ a \in Of(LineOf(a))
<1>1. LINE * MEMORY \in Nat /\ a \in Nat /\ a < LINE * MEMORY
  BY Geometry DEF Addresses
<1> DEFINE q == a \div LINE
<1>2. q \in Nat /\ LINE * q <= a
  BY <1>1, Geometry, Quotient
<1> HIDE DEF q
<1>3. LINE * q \in Nat
  BY <1>2, Geometry
<1>4. CASE MEMORY <= q
  <2>1. CASE MEMORY = q
    BY <1>1, <1>2, <2>1
  <2>2. CASE MEMORY < q
    <3>1. LINE * MEMORY + LINE <= LINE * q
      BY <1>2, <2>2, Geometry, Multiples
    <3> QED BY <1>1, <1>2, <1>3, <3>1, Geometry
  <2> QED BY <1>2, <1>4, <2>1, <2>2, Geometry
<1>5. CASE ~(MEMORY <= q)
  BY <1>1, <1>2, <1>5, Geometry DEF Lines, LineOf, Of, q
<1> QED BY <1>4, <1>5

LEMMA SlotsOfSize ==
  /\ SYS_DEVCON_DataCacheSizeGet \div LINE = WAYS * LINES_PER_WAY
  /\ SYS_DEVCON_InstructionCacheSizeGet \div LINE = WAYS * LINES_PER_WAY
<1>1. WAYS * LINES_PER_WAY \in Nat
  BY Geometry
<1>2. LINE * WAYS * LINES_PER_WAY = LINE * (WAYS * LINES_PER_WAY)
  BY Geometry, SMT
<1>3. (LINE * (WAYS * LINES_PER_WAY)) \div LINE = WAYS * LINES_PER_WAY
  BY <1>1, LineStart DEF LineOf
<1> QED BY <1>2, <1>3 DEF SYS_DEVCON_DataCacheSizeGet, SYS_DEVCON_InstructionCacheSizeGet,
                          _pic32_get_cache_size

-----------------------------------------------------------------------------
(* What a slot holds, and where.                                           *)

Placed(cache) ==
  \A l \in Lines : Hits(cache, l) \subseteq SlotsFor(l) /\ \A s, t \in Hits(cache, l) : s = t

ScalarsOK ==
  /\ k0 \in Coherencies /\ given \subseteq Addresses /\ last \in [Addresses -> 0 .. stores]
  /\ stores \in 0 .. MAX_STORES /\ calls \in 0 .. MAX_CALLS

DataOK ==
  /\ mem \in [Addresses -> 0 .. stores] /\ dcache \in [Slots -> Contents] /\ Placed(dcache)
  /\ k0 = DISABLE => dcache = [s \in Slots |-> Empty]

InstructionsOK ==
  icache \in [Slots -> Contents] /\ Placed(icache) /\ \A s \in Slots : ~icache[s].dirty

LEMMA TypeParts ==
  /\ TypeOK <=> ScalarsOK /\ DataOK /\ InstructionsOK
  /\ TypeOK' <=> ScalarsOK' /\ DataOK' /\ InstructionsOK'
<1>1. TypeOK <=> ScalarsOK /\ DataOK /\ InstructionsOK
  BY Zenon DEF TypeOK, ScalarsOK, DataOK, InstructionsOK, Placed
<1>2. TypeOK' <=> ScalarsOK' /\ DataOK' /\ InstructionsOK'
  BY Zenon DEF TypeOK, ScalarsOK, DataOK, InstructionsOK, Placed
<1> QED BY <1>1, <1>2

LEMMA ContentsAre ==
  ASSUME NEW c \in Contents
  PROVE  \/ c = Empty /\ c.line \notin Lines /\ ~c.locked /\ ~c.dirty
         \/ c # Empty /\ c.line \in Lines /\ c \in CacheLine(c.line)
<1>1. Empty.line \notin Lines /\ ~Empty.locked /\ ~Empty.dirty
  BY Geometry DEF Empty, Lines
<1>2. CASE c = Empty
  BY <1>1, <1>2
<1>3. CASE c # Empty
  <2>1. PICK l \in Lines : c \in CacheLine(l)
    BY <1>3 DEF Contents
  <2>2. c.line = l
    BY <2>1 DEF CacheLine
  <2> QED BY <1>3, <2>1, <2>2
<1> QED BY <1>2, <1>3

LEMMA OutOfSlots == \E t, c : t \notin Slots /\ c = Empty
<1>1. -1 \notin Slots
  BY DEF Slots
<1> QED BY <1>1

\* Some slots are emptied, and c may come to slot t.
LEMMA PlacedAfter ==
  ASSUME NEW cache, NEW ss, NEW t, NEW c, Placed(cache),
         t \in Slots => t \in SlotsFor(c.line) /\ Hits(cache, c.line) = {}
  PROVE  Placed([s \in Slots |-> IF s = t THEN c ELSE IF s \in ss THEN Empty ELSE cache[s]])
<1> DEFINE new == [s \in Slots |-> IF s = t THEN c ELSE IF s \in ss THEN Empty ELSE cache[s]]
<1> SUFFICES ASSUME NEW l \in Lines
             PROVE  Hits(new, l) \subseteq SlotsFor(l) /\ \A s, u \in Hits(new, l) : s = u
  BY DEF Placed
<1>1. Empty.line # l
  BY Geometry DEF Empty, Lines
<1>2. \A s \in Hits(new, l) : s \in Slots /\ ((s = t /\ c.line = l) \/ (s # t /\ s \in Hits(cache, l)))
  BY <1>1 DEF Hits
<1>3. /\ Hits(cache, l) \subseteq SlotsFor(l) /\ \A s, u \in Hits(cache, l) : s = u
  BY DEF Placed
<1>4. ASSUME NEW s \in Hits(new, l) PROVE s \in SlotsFor(l)
  BY <1>2, <1>3, <1>4
<1>5. ASSUME NEW s \in Hits(new, l), NEW u \in Hits(new, l) PROVE s = u
  BY <1>2, <1>3, <1>5
<1> QED BY <1>4, <1>5

\* A dirty line of ss is in memory afterwards; nothing else there changes.
WroteBack(ss) ==
  /\ mem' \in [Addresses -> 0 .. stores]
  /\ \A a \in Addresses :
       \/ /\ \A x \in ss : dcache[x].line = LineOf(a) => ~dcache[x].dirty
          /\ mem'[a] = mem[a]
       \/ \E x \in ss : /\ dcache[x].line = LineOf(a) /\ dcache[x].dirty
                        /\ mem'[a] = dcache[x].data[a]

LEMMA MemoryAfter ==
  ASSUME DataOK, NEW ss, ss \subseteq Slots,
         mem' = [a \in Addresses |->
           LET s == {x \in ss : dcache[x].dirty /\ a \in Of(dcache[x].line)}
           IN  IF s = {} THEN mem[a] ELSE dcache[CHOOSE x \in s : TRUE].data[a]]
  PROVE  WroteBack(ss)
<1>1. ASSUME NEW a \in Addresses
      PROVE  /\ mem'[a] \in 0 .. stores
             /\ \/ /\ \A x \in ss : dcache[x].line = LineOf(a) => ~dcache[x].dirty
                   /\ mem'[a] = mem[a]
                \/ \E x \in ss : /\ dcache[x].line = LineOf(a) /\ dcache[x].dirty
                                 /\ mem'[a] = dcache[x].data[a]
  <2> DEFINE d == {x \in ss : dcache[x].dirty /\ a \in Of(dcache[x].line)}
  <2>1. mem'[a] = IF d = {} THEN mem[a] ELSE dcache[CHOOSE x \in d : TRUE].data[a]
    OBVIOUS
  <2>2. \A x \in ss : x \in d <=> dcache[x].line = LineOf(a) /\ dcache[x].dirty
    BY DEF Of
  <2>3. d \subseteq ss
    OBVIOUS
  <2> HIDE DEF d
  <2>4. CASE d = {}
    BY <2>1, <2>2, <2>4 DEF DataOK
  <2>5. CASE d # {}
    <3>1. PICK x : x \in d /\ mem'[a] = dcache[x].data[a]
      BY <2>1, <2>5, Zenon
    <3>2. x \in ss /\ dcache[x].line = LineOf(a) /\ dcache[x].dirty
      BY <2>2, <2>3, <3>1
    <3>3. LineOf(a) \in Lines /\ a \in Of(LineOf(a)) /\ dcache[x] \in Contents
      BY <3>2, LineOfIs DEF DataOK
    <3>4. dcache[x] \in CacheLine(LineOf(a))
      BY <3>2, <3>3, ContentsAre
    <3>5. dcache[x].data[a] \in 0 .. stores
      BY <3>3, <3>4 DEF CacheLine
    <3> QED BY <3>1, <3>2, <3>5
  <2> QED BY <2>4, <2>5
<1> QED BY <1>1 DEF WroteBack

LEMMA WrittenBackIs ==
  ASSUME DataOK, NEW s \in Slots, mem' = WrittenBack(s)
  PROVE  WroteBack({s})
<1>1. CASE ~dcache[s].dirty
  BY <1>1 DEF WroteBack, WrittenBack, DataOK
<1>2. CASE dcache[s].dirty
  <2>1. dcache[s] \in Contents
    BY DEF DataOK
  <2>2. dcache[s].line \in Lines /\ dcache[s] \in CacheLine(dcache[s].line)
    BY <1>2, <2>1, ContentsAre
  <2>3. mem' = [a \in Addresses |-> IF a \in Of(dcache[s].line) THEN dcache[s].data[a] ELSE mem[a]]
    BY <1>2 DEF WrittenBack
  <2>4. \A a \in Addresses : a \in Of(dcache[s].line) <=> dcache[s].line = LineOf(a)
    BY DEF Of
  <2>5. mem' \in [Addresses -> 0 .. stores]
    BY <2>2, <2>3 DEF DataOK, CacheLine
  <2> QED BY <1>2, <2>3, <2>4, <2>5 DEF WroteBack
<1> QED BY <1>1, <1>2

-----------------------------------------------------------------------------
(* What can happen to the data cache.                                      *)

CacheOK == DataOK /\ Backed /\ Newest

\* The lines in ss are written back and leave; c, clean, may come to slot t.
Exchanged(ss, t, c) ==
  /\ ss \subseteq Slots /\ WroteBack(ss)
  /\ dcache' = [s \in Slots |-> IF s = t THEN c ELSE IF s \in ss THEN Empty ELSE dcache[s]]
  /\ t \in Slots =>
       /\ t \in ss /\ t \in SlotsFor(c.line) /\ Hits(dcache, c.line) = {} /\ k0 # DISABLE
       /\ c.line \in Lines /\ c \in CacheLine(c.line) /\ ~c.dirty
       /\ \A a \in Of(c.line) : c.data[a] = mem[a]

LEMMA ExchangeKeeps ==
  ASSUME CacheOK, NEW ss, NEW t, NEW c, Exchanged(ss, t, c), UNCHANGED <<k0, stores, last, given>>
  PROVE  CacheOK' /\ \A a \in Addresses : mem[a] <= mem'[a]
<1>1. DataOK /\ Backed /\ Newest /\ Placed(dcache)
  BY DEF CacheOK, DataOK
<1>2. \A s \in Slots : dcache'[s] = IF s = t THEN c ELSE IF s \in ss THEN Empty ELSE dcache[s]
  BY DEF Exchanged
<1>3. Empty.line \notin Lines
  BY Geometry DEF Empty, Lines
<1>4. t \in Slots =>
        /\ t \in ss /\ Hits(dcache, c.line) = {} /\ c.line \in Lines /\ ~c.dirty
        /\ \A a \in Of(c.line) : c.data[a] = mem[a]
  BY DEF Exchanged
<1>5. \A a \in Addresses :
        \/ /\ \A x \in ss : dcache[x].line = LineOf(a) => ~dcache[x].dirty
           /\ mem'[a] = mem[a]
        \/ \E x \in ss : /\ dcache[x].line = LineOf(a) /\ dcache[x].dirty
                         /\ mem'[a] = dcache[x].data[a]
  BY DEF Exchanged, WroteBack
<1>6. ss \subseteq Slots
  BY DEF Exchanged
<1>7. \A s \in Slots, x \in ss :
        dcache[s].line \in Lines /\ dcache[x].line = dcache[s].line => x = s
  BY <1>1, <1>6 DEF Placed, Hits
<1>8. DataOK'
  <2>1. mem' \in [Addresses -> 0 .. stores'] /\ Contents' = Contents
    BY DEF Exchanged, WroteBack, Contents, CacheLine
  <2>2. Empty \in Contents /\ (t \in Slots => c \in Contents)
    BY DEF Exchanged, Contents
  <2>3. dcache' \in [Slots -> Contents]
    BY <1>1, <2>2 DEF Exchanged, DataOK
  <2>4. Placed(dcache')
    <3>1. t \in Slots => t \in SlotsFor(c.line) /\ Hits(dcache, c.line) = {}
      BY DEF Exchanged
    <3>2. Placed([s \in Slots |-> IF s = t THEN c ELSE IF s \in ss THEN Empty ELSE dcache[s]])
      BY <1>1, <3>1, PlacedAfter
    <3> QED BY <3>2 DEF Exchanged
  <2>5. k0 = DISABLE => dcache' = [s \in Slots |-> Empty]
    BY <1>1 DEF Exchanged, DataOK
  <2> QED BY <2>1, <2>3, <2>4, <2>5 DEF DataOK, Placed
<1>9. ASSUME NEW s \in Slots, dcache'[s].line \in Lines, NEW a \in Of(dcache'[s].line)
      PROVE  mem'[a] <= dcache'[s].data[a] /\ (dcache'[s].dirty \/ mem'[a] = dcache'[s].data[a])
  <2>1. a \in Addresses /\ LineOf(a) = dcache'[s].line
    BY <1>9 DEF Of
  <2>2. CASE s = t
    <3>1. dcache'[s] = c /\ Hits(dcache, c.line) = {} /\ c.data[a] = mem[a] /\ a \in Of(c.line)
      BY <1>2, <1>4, <1>9, <2>2
    <3>2. \A x \in ss : dcache[x].line # LineOf(a)
      BY <1>6, <2>1, <3>1 DEF Hits
    <3>3. mem'[a] = mem[a]
      BY <1>5, <2>1, <3>2
    <3>4. mem'[a] = c.data[a] /\ mem[a] \in Nat
      BY <1>1, <2>1, <3>1, <3>3 DEF DataOK
    <3> QED BY <3>1, <3>3, <3>4
  <2>3. CASE s # t
    <3>1. dcache'[s] = dcache[s] /\ s \notin ss
      BY <1>2, <1>3, <1>9, <2>3
    <3>2. mem'[a] = mem[a]
      BY <1>5, <1>7, <1>9, <2>1, <3>1
    <3> QED BY <1>1, <1>9, <3>1, <3>2 DEF Backed
  <2> QED BY <2>2, <2>3
<1>10. ASSUME NEW a \in Addresses, a \notin given
       PROVE  /\ \A s \in Hits(dcache', LineOf(a)) : dcache'[s].data[a] = last[a]
              /\ Hits(dcache', LineOf(a)) = {} => mem'[a] = last[a]
  <2>1. /\ \A s \in Hits(dcache, LineOf(a)) : dcache[s].data[a] = last[a]
        /\ Hits(dcache, LineOf(a)) = {} => mem[a] = last[a]
    BY <1>1, <1>10 DEF Newest
  <2>2. LineOf(a) \in Lines /\ a \in Of(LineOf(a))
    BY LineOfIs
  <2>3. ASSUME NEW s \in Hits(dcache', LineOf(a)) PROVE dcache'[s].data[a] = last[a]
    <3>1. s \in Slots /\ dcache'[s].line = LineOf(a)
      BY <2>3 DEF Hits
    <3>2. CASE s = t
      BY <1>2, <1>4, <2>1, <2>2, <3>1, <3>2
    <3>3. CASE s # t
      <4>1. dcache'[s] = dcache[s]
        BY <1>2, <1>3, <2>2, <3>1, <3>3
      <4> QED BY <2>1, <3>1, <4>1 DEF Hits
    <3> QED BY <3>2, <3>3
  <2>4. ASSUME Hits(dcache', LineOf(a)) = {} PROVE mem'[a] = last[a]
    <3>1. CASE \E x \in ss : /\ dcache[x].line = LineOf(a) /\ dcache[x].dirty
                             /\ mem'[a] = dcache[x].data[a]
      BY <1>6, <2>1, <3>1 DEF Hits
    <3>2. CASE mem'[a] = mem[a] /\ \A x \in ss : dcache[x].line = LineOf(a) => ~dcache[x].dirty
      <4>1. CASE Hits(dcache, LineOf(a)) = {}
        BY <2>1, <3>2, <4>1
      <4>2. ASSUME NEW h \in Hits(dcache, LineOf(a)) PROVE mem'[a] = last[a]
        <5>1. h \in Slots /\ dcache[h].line = LineOf(a) /\ dcache[h].data[a] = last[a]
          BY <2>1 DEF Hits
        <5>2. h \in ss
          BY <1>2, <1>4, <2>4, <5>1 DEF Hits
        <5> QED BY <1>1, <2>2, <3>2, <5>1, <5>2 DEF Backed
      <4> QED BY <4>1, <4>2
    <3> QED BY <1>5, <3>1, <3>2
  <2> QED BY <2>3, <2>4
<1>11. ASSUME NEW a \in Addresses PROVE mem[a] <= mem'[a]
  <2>1. LineOf(a) \in Lines /\ a \in Of(LineOf(a)) /\ mem[a] \in Nat
    BY <1>1, LineOfIs DEF DataOK
  <2>2. \A x \in ss : dcache[x].line = LineOf(a) => mem[a] <= dcache[x].data[a]
    BY <1>1, <1>6, <2>1 DEF Backed
  <2> QED BY <1>5, <2>1, <2>2
<1>12. Backed'
  BY <1>9 DEF Backed
<1>13. Newest'
  BY <1>10 DEF Newest, Hits
<1> QED BY <1>8, <1>11, <1>12, <1>13 DEF CacheOK

\* Lines of which every address is given up are dropped.
Dropped(ss) ==
  /\ mem' = mem /\ dcache' = [s \in Slots |-> IF s \in ss THEN Empty ELSE dcache[s]]
  /\ \A s \in ss, a \in Addresses : dcache[s].line = LineOf(a) => a \in given

LEMMA DropKeeps ==
  ASSUME CacheOK, NEW ss, ss \subseteq Slots, Dropped(ss), UNCHANGED <<stores, last, given>>,
         k0' = DISABLE => k0 = DISABLE \/ ss = Slots
  PROVE  CacheOK'
<1>1. DataOK /\ Backed /\ Newest /\ Placed(dcache)
  BY DEF CacheOK, DataOK
<1>2. \A s \in Slots : dcache'[s] = IF s \in ss THEN Empty ELSE dcache[s]
  BY DEF Dropped
<1>3. Empty.line \notin Lines
  BY Geometry DEF Empty, Lines
<1>4. DataOK'
  <2>1. mem' \in [Addresses -> 0 .. stores'] /\ Contents' = Contents /\ Empty \in Contents
    BY <1>1 DEF Dropped, DataOK, Contents, CacheLine
  <2>2. dcache' \in [Slots -> Contents]
    BY <1>1, <2>1 DEF Dropped, DataOK
  <2>3. Placed(dcache')
    <3>1. PICK t, c : t \notin Slots /\ c = Empty
      BY OutOfSlots
    <3>2. Placed([s \in Slots |-> IF s = t THEN c ELSE IF s \in ss THEN Empty ELSE dcache[s]])
      BY <1>1, <3>1, PlacedAfter
    <3>3. dcache' = [s \in Slots |-> IF s = t THEN c ELSE IF s \in ss THEN Empty ELSE dcache[s]]
      BY <3>1 DEF Dropped
    <3> QED BY <3>2, <3>3
  <2>4. k0' = DISABLE => dcache' = [s \in Slots |-> Empty]
    BY <1>1 DEF Dropped, DataOK
  <2> QED BY <2>1, <2>2, <2>3, <2>4 DEF DataOK, Placed
<1>5. Backed'
  BY <1>1, <1>2, <1>3 DEF Backed, Dropped
<1>6. ASSUME NEW a \in Addresses, a \notin given
      PROVE  /\ \A s \in Hits(dcache', LineOf(a)) : dcache'[s].data[a] = last[a]
             /\ Hits(dcache', LineOf(a)) = {} => mem'[a] = last[a]
  <2>1. Hits(dcache', LineOf(a)) = Hits(dcache, LineOf(a))
    BY <1>2, <1>3, <1>6, LineOfIs DEF Hits, Dropped
  <2>2. \A s \in Hits(dcache, LineOf(a)) : dcache'[s] = dcache[s]
    BY <1>2, <1>6 DEF Hits, Dropped
  <2> QED BY <1>1, <1>6, <2>1, <2>2 DEF Newest, Dropped
<1>7. Newest'
  BY <1>6 DEF Newest, Hits
<1> QED BY <1>4, <1>5, <1>7 DEF CacheOK

\* A line is locked where it is.
LEMMA LockKeeps ==
  ASSUME CacheOK, NEW s \in Slots, dcache[s] # Empty, mem' = mem,
         dcache' = [dcache EXCEPT ![s].locked = TRUE], UNCHANGED <<k0, stores, last, given>>
  PROVE  CacheOK' /\ dcache'[s].locked
         /\ \A x \in Slots :
              /\ dcache'[x].line = dcache[x].line /\ dcache'[x].dirty = dcache[x].dirty
              /\ dcache'[x].data = dcache[x].data /\ (dcache[x].locked => dcache'[x].locked)
<1>1. DataOK /\ Backed /\ Newest /\ Placed(dcache)
  BY DEF CacheOK, DataOK
<1>2. dcache[s].line \in Lines /\ dcache[s] \in CacheLine(dcache[s].line)
  BY <1>1, ContentsAre DEF DataOK
<1>3. dcache' = [dcache EXCEPT ![s] = [dcache[s] EXCEPT !.locked = TRUE]]
  OBVIOUS
<1>4. [dcache[s] EXCEPT !.locked = TRUE] \in CacheLine(dcache[s].line)
  BY <1>2 DEF CacheLine
<1>5. /\ [dcache[s] EXCEPT !.locked = TRUE].line = dcache[s].line
      /\ [dcache[s] EXCEPT !.locked = TRUE].dirty = dcache[s].dirty
      /\ [dcache[s] EXCEPT !.locked = TRUE].data = dcache[s].data
      /\ [dcache[s] EXCEPT !.locked = TRUE].locked
  BY <1>2 DEF CacheLine
<1>6. /\ dcache'[s].locked
      /\ \A x \in Slots :
           /\ dcache'[x].line = dcache[x].line /\ dcache'[x].dirty = dcache[x].dirty
           /\ dcache'[x].data = dcache[x].data /\ (dcache[x].locked => dcache'[x].locked)
  BY <1>1, <1>3, <1>5 DEF DataOK
<1>7. DataOK'
  <2>1. mem' \in [Addresses -> 0 .. stores'] /\ Contents' = Contents
    BY <1>1 DEF DataOK, Contents, CacheLine
  <2>2. [dcache[s] EXCEPT !.locked = TRUE] \in Contents
    BY <1>2, <1>4 DEF Contents
  <2>3. dcache' \in [Slots -> Contents]
    BY <1>1, <1>3, <2>2 DEF DataOK
  <2>4. Placed(dcache')
    BY <1>1, <1>6 DEF Placed, Hits
  <2>5. k0 # DISABLE
    BY <1>1 DEF DataOK
  <2> QED BY <2>1, <2>3, <2>4, <2>5 DEF DataOK, Placed
<1>8. Backed'
  BY <1>1, <1>6 DEF Backed
<1>9. Newest'
  BY <1>1, <1>6 DEF Newest, Hits
<1> QED BY <1>6, <1>7, <1>8, <1>9 DEF CacheOK

\* A store is newer than all that is in the caches and in memory.
LEMMA StoreKeeps ==
  ASSUME ScalarsOK, CacheOK, NEW a \in Addresses, Store(a)
  PROVE  /\ ScalarsOK' /\ CacheOK' /\ \A b \in Addresses : mem[b] <= mem'[b]
         /\ \A s \in Slots :
              /\ dcache'[s].line = dcache[s].line /\ dcache'[s].locked = dcache[s].locked
              /\ dcache[s].dirty => dcache'[s].dirty
              /\ dcache[s].line \in Lines =>
                   \A b \in Of(dcache[s].line) : dcache[s].data[b] <= dcache'[s].data[b]
<1> DEFINE hits == IF k0 = DISABLE THEN {} ELSE Hits(dcache, LineOf(a))
           back == k0 = WRITEBACK_WRITEALLOCATE
           new(s) == [dcache[s] EXCEPT !.data[a] = stores', !.dirty = @ \/ back]
<1>1. DataOK /\ Backed /\ Newest /\ Placed(dcache)
  BY DEF CacheOK, DataOK
<1>2. LineOf(a) \in Lines /\ a \in Of(LineOf(a))
  BY LineOfIs
<1>3. /\ stores \in Nat /\ stores' = stores + 1 /\ stores' \in 0 .. MAX_STORES
      /\ last' = [last EXCEPT ![a] = stores'] /\ k0' = k0 /\ calls' = calls
      /\ given' \in {given, given \ {a}}
  <2>1. /\ stores < MAX_STORES /\ stores' = stores + 1 /\ calls' = calls /\ k0' = k0
        /\ last' = [last EXCEPT ![a] = stores']
    BY Zenon DEF Store
  <2>2. given' \in {given, given \ {a}}
    BY Zenon DEF Store
  <2>3. stores \in Nat /\ stores' \in 0 .. MAX_STORES
    BY <2>1, Geometry DEF ScalarsOK
  <2> QED BY <2>1, <2>2, <2>3
<1>4. /\ dcache' = [s \in Slots |-> IF s \in hits THEN new(s) ELSE dcache[s]]
      /\ mem' = IF back THEN mem ELSE [mem EXCEPT ![a] = stores']
      /\ back => hits # {}
  <2>1. dcache' = [s \in Slots |-> IF s \in hits THEN new(s) ELSE dcache[s]]
    BY Zenon DEF Store
  <2>2. mem' = IF back THEN mem ELSE [mem EXCEPT ![a] = stores']
    BY Zenon DEF Store
  <2>3. back => hits # {}
    BY Zenon DEF Store
  <2> QED BY <2>1, <2>2, <2>3
<1>5. \A s \in hits : s \in Slots /\ s \in Hits(dcache, LineOf(a)) /\ dcache[s].line = LineOf(a)
  BY DEF Hits
<1>6. ASSUME NEW s \in hits
      PROVE  /\ new(s) \in CacheLine(LineOf(a))' /\ new(s).line = LineOf(a)
             /\ new(s).locked = dcache[s].locked /\ new(s).dirty = (dcache[s].dirty \/ back)
             /\ \A b \in Of(LineOf(a)) : new(s).data[b] = IF b = a THEN stores' ELSE dcache[s].data[b]
             /\ \A b \in Of(LineOf(a)) : dcache[s].data[b] \in 0 .. stores
  <2>1. dcache[s] \in CacheLine(LineOf(a))
    BY <1>1, <1>2, <1>5, ContentsAre DEF DataOK
  <2>2. dcache[s].data \in [Of(LineOf(a)) -> 0 .. stores]
    BY <2>1 DEF CacheLine
  <2>3. new(s) = [dcache[s] EXCEPT !.data = [dcache[s].data EXCEPT ![a] = stores'],
                                   !.dirty = dcache[s].dirty \/ back]
    OBVIOUS
  <2>4. [dcache[s].data EXCEPT ![a] = stores'] \in [Of(LineOf(a)) -> 0 .. stores']
    <3>1. 0 .. stores \subseteq 0 .. stores' /\ stores' \in 0 .. stores'
      BY <1>3
    <3> QED BY <2>2, <3>1, Zenon
  <2> HIDE DEF back
  <2>5. /\ new(s).line = LineOf(a) /\ new(s).locked = dcache[s].locked
        /\ new(s).dirty = (dcache[s].dirty \/ back)
        /\ new(s).data = [dcache[s].data EXCEPT ![a] = stores']
    <3>1. /\ new(s).line = LineOf(a) /\ new(s).locked = dcache[s].locked
          /\ new(s).data = [dcache[s].data EXCEPT ![a] = stores']
      BY <2>1, <2>3 DEF CacheLine
    <3>2. new(s).dirty = (dcache[s].dirty \/ back)
      BY <2>1, <2>3 DEF CacheLine
    <3> QED BY <3>1, <3>2
  <2>6. new(s) \in CacheLine(LineOf(a))'
    BY <2>1, <2>3, <2>4 DEF CacheLine
  <2> QED BY <2>2, <2>5, <2>6
<1> HIDE DEF hits, new, back
<1>7. ScalarsOK'
  <2>1. last' \in [Addresses -> 0 .. stores']
    BY <1>3 DEF ScalarsOK
  <2> QED BY <1>3, <2>1 DEF ScalarsOK
<1>8. DataOK'
  <2>1. mem' \in [Addresses -> 0 .. stores']
    BY <1>1, <1>3, <1>4 DEF DataOK
  <2>2. ASSUME NEW s \in Slots PROVE dcache'[s] \in Contents' /\ dcache'[s].line = dcache[s].line
    <3>1. CASE s \in hits
      BY <1>2, <1>4, <1>5, <1>6, <3>1 DEF Contents
    <3>2. CASE s \notin hits
      <4>1. dcache'[s] = dcache[s] /\ dcache[s] \in Contents
        BY <1>1, <1>4, <3>2 DEF DataOK
      <4>2. CASE dcache[s] = Empty
        BY <4>1, <4>2 DEF Contents
      <4>3. CASE dcache[s] # Empty
        <5>1. dcache[s].line \in Lines /\ dcache[s] \in CacheLine(dcache[s].line)
          BY <4>1, <4>3, ContentsAre
        <5>2. dcache[s] \in CacheLine(dcache[s].line)'
          BY <1>3, <4>1, <5>1 DEF CacheLine
        <5> QED BY <4>1, <5>1, <5>2 DEF Contents
      <4> QED BY <4>2, <4>3
    <3> QED BY <3>1, <3>2
  <2>3. dcache' \in [Slots -> Contents']
    BY <1>4, <2>2
  <2>4. Placed(dcache')
    BY <1>1, <2>2 DEF Placed, Hits
  <2>5. k0 = DISABLE => dcache' = [s \in Slots |-> Empty]
    BY <1>1, <1>4 DEF DataOK, hits
  <2> QED BY <1>3, <2>1, <2>3, <2>4, <2>5 DEF DataOK, Placed
<1>9. /\ \A b \in Addresses : mem'[b] = IF b = a /\ ~back THEN stores' ELSE mem[b]
      /\ \A b \in Addresses : mem[b] \in 0 .. stores
  BY <1>1, <1>4 DEF DataOK
<1>10. ASSUME NEW s \in Slots
       PROVE  /\ dcache'[s].line = dcache[s].line /\ dcache'[s].locked = dcache[s].locked
              /\ dcache[s].dirty => dcache'[s].dirty
              /\ dcache[s].line \in Lines => \A b \in Of(dcache[s].line) :
                   /\ dcache[s].data[b] \in 0 .. stores
                   /\ dcache'[s].data[b] = IF s \in hits /\ b = a THEN stores' ELSE dcache[s].data[b]
              /\ s \in hits /\ back => dcache'[s].dirty
              /\ dcache'[s].dirty => dcache[s].dirty \/ back
  <2>1. CASE s \in hits
    BY <1>4, <1>5, <1>6, <2>1
  <2>2. CASE s \notin hits
    <3>1. dcache'[s] = dcache[s] /\ dcache[s] \in Contents
      BY <1>1, <1>4, <2>2 DEF DataOK
    <3>2. dcache[s].line \in Lines => dcache[s].data \in [Of(dcache[s].line) -> 0 .. stores]
      BY <3>1, ContentsAre DEF CacheLine
    <3> QED BY <2>2, <3>1, <3>2
  <2> QED BY <2>1, <2>2
<1>11. Backed'
  <2> SUFFICES ASSUME NEW s \in Slots, dcache'[s].line \in Lines, NEW b \in Of(dcache'[s].line)
               PROVE  /\ mem'[b] <= dcache'[s].data[b]
                      /\ dcache'[s].dirty \/ mem'[b] = dcache'[s].data[b]
    BY DEF Backed
  <2>1. /\ dcache[s].line \in Lines /\ b \in Of(dcache[s].line)
        /\ b \in Addresses /\ LineOf(b) = dcache[s].line
    BY <1>10 DEF Of
  <2>2. mem[b] <= dcache[s].data[b] /\ (dcache[s].dirty \/ mem[b] = dcache[s].data[b])
    BY <1>1, <2>1 DEF Backed
  <2>3. b = a => s \in hits
    <3>1. k0 # DISABLE
      BY <1>1, <2>1, Geometry DEF DataOK, Empty, Lines
    <3> QED BY <2>1, <3>1 DEF hits, Hits
  <2>4. mem[b] \in 0 .. stores /\ dcache[s].data[b] \in 0 .. stores
    BY <1>9, <1>10, <2>1
  <2>5. CASE b = a
    BY <1>3, <1>9, <1>10, <2>1, <2>3, <2>4, <2>5
  <2>6. CASE b # a
    BY <1>9, <1>10, <2>1, <2>2, <2>4, <2>6
  <2> QED BY <2>5, <2>6
<1>12. Newest'
  <2> SUFFICES ASSUME NEW b \in Addresses, b \notin given'
               PROVE  /\ \A s \in Hits(dcache', LineOf(b)) : dcache'[s].data[b] = last'[b]
                      /\ Hits(dcache', LineOf(b)) = {} => mem'[b] = last'[b]
    BY DEF Newest, Hits
  <2>1. Hits(dcache', LineOf(b)) = Hits(dcache, LineOf(b)) /\ LineOf(b) \in Lines /\ b \in Of(LineOf(b))
    BY <1>10, LineOfIs DEF Hits
  <2>2. \A s \in Hits(dcache, LineOf(b)) : /\ s \in Slots
          /\ dcache'[s].data[b] = IF s \in hits /\ b = a THEN stores' ELSE dcache[s].data[b]
    BY <1>10, <2>1 DEF Hits
  <2>3. CASE b = a
    <3>1. last'[b] = stores'
      BY <1>3, <2>3 DEF ScalarsOK
    <3>2. ASSUME NEW s \in Hits(dcache, LineOf(b)) PROVE s \in hits
      <4>1. k0 # DISABLE
        BY <1>1, <2>1, <3>2, Geometry DEF DataOK, Empty, Lines, Hits
      <4> QED BY <2>3, <3>2, <4>1 DEF hits
    <3>3. Hits(dcache, LineOf(b)) = {} => ~back
      BY <1>4, <1>5, <2>3
    <3> QED BY <1>9, <2>1, <2>2, <2>3, <3>1, <3>2, <3>3
  <2>4. CASE b # a
    <3>1. last'[b] = last[b] /\ b \notin given
      BY <1>3, <2>4 DEF ScalarsOK
    <3> QED BY <1>1, <1>9, <2>1, <2>2, <2>4, <3>1 DEF Newest
  <2> QED BY <2>3, <2>4
<1>13. \A b \in Addresses : mem[b] <= mem'[b]
  BY <1>3, <1>9
<1>14. \A s \in Slots : dcache[s].line \in Lines =>
         \A b \in Of(dcache[s].line) : dcache[s].data[b] <= dcache'[s].data[b]
  BY <1>3, <1>10
<1> QED BY <1>7, <1>8, <1>10, <1>11, <1>12, <1>13, <1>14 DEF CacheOK

-----------------------------------------------------------------------------
(* What can happen to the instruction cache.                               *)

\* The lines in ss leave; c, from memory, may come to slot t.
Invalidated(ss, t, c) ==
  /\ ss \subseteq Slots
  /\ icache' = [s \in Slots |-> IF s = t THEN c ELSE IF s \in ss THEN Empty ELSE icache[s]]
  /\ t \in Slots =>
       /\ t \in ss /\ t \in SlotsFor(c.line) /\ Hits(icache, c.line) = {}
       /\ c.line \in Lines /\ c \in CacheLine(c.line) /\ ~c.dirty
       /\ \A a \in Of(c.line) : c.data[a] = mem[a]

LEMMA InvalidateKeeps ==
  ASSUME InstructionsOK, NEW ss, NEW t, NEW c, Invalidated(ss, t, c), stores' = stores
  PROVE  InstructionsOK'
<1>1. Contents' = Contents
  BY DEF Contents, CacheLine
<1>2. Empty \in Contents /\ ~Empty.dirty /\ (t \in Slots => c \in Contents /\ ~c.dirty)
  BY DEF Invalidated, Contents, Empty
<1>3. icache' \in [Slots -> Contents] /\ \A s \in Slots : ~icache'[s].dirty
  BY <1>2 DEF Invalidated, InstructionsOK
<1>4. Placed(icache')
  <2>1. t \in Slots => t \in SlotsFor(c.line) /\ Hits(icache, c.line) = {}
    BY DEF Invalidated
  <2>2. Placed([s \in Slots |-> IF s = t THEN c ELSE IF s \in ss THEN Empty ELSE icache[s]])
    <3>1. Placed(icache)
      BY DEF InstructionsOK
    <3> QED BY <2>1, <3>1, PlacedAfter
  <2> QED BY <2>2 DEF Invalidated
<1> QED BY <1>1, <1>3, <1>4 DEF InstructionsOK, Placed

LEMMA LockInstructionsKeeps ==
  ASSUME InstructionsOK, NEW s \in Slots, icache[s] # Empty, stores' = stores,
         icache' = [icache EXCEPT ![s].locked = TRUE]
  PROVE  InstructionsOK' /\ icache'[s].locked
         /\ \A x \in Slots : icache'[x].line = icache[x].line /\ icache'[x].data = icache[x].data
                           /\ (icache[x].locked => icache'[x].locked)
<1> DEFINE c == [icache[s] EXCEPT !.locked = TRUE]
<1>1. icache[s].line \in Lines /\ icache[s] \in CacheLine(icache[s].line)
  BY ContentsAre DEF InstructionsOK
<1>2. icache' = [icache EXCEPT ![s] = c]
  OBVIOUS
<1>3. c \in CacheLine(icache[s].line) /\ c \in Contents
  BY <1>1 DEF CacheLine, Contents
<1>4. /\ c.line = icache[s].line /\ c.dirty = icache[s].dirty
      /\ c.data = icache[s].data /\ c.locked
  BY <1>1 DEF CacheLine
<1> HIDE DEF c
<1>5. /\ icache'[s].locked
      /\ \A x \in Slots : icache'[x].line = icache[x].line /\ icache'[x].data = icache[x].data
                        /\ (icache[x].locked => icache'[x].locked)
  BY <1>2, <1>4 DEF InstructionsOK
<1>6. Contents' = Contents
  BY DEF Contents, CacheLine
<1>7. icache' \in [Slots -> Contents] /\ \A x \in Slots : ~icache'[x].dirty
  BY <1>2, <1>3, <1>4 DEF InstructionsOK
<1>8. Placed(icache')
  BY <1>5 DEF InstructionsOK, Placed, Hits
<1> QED BY <1>5, <1>6, <1>7, <1>8 DEF InstructionsOK, Placed

LEMMA NewerKeeps ==
  ASSUME InstructionsOK, icache' = icache, stores \in Nat, stores' = stores + 1
  PROVE  InstructionsOK'
<1>1. 0 .. stores \subseteq 0 .. stores'
  OBVIOUS
<1>2. ASSUME NEW c \in Contents PROVE c \in Contents'
  <2>1. CASE c = Empty
    BY <2>1 DEF Contents
  <2>2. CASE c # Empty
    <3>1. c.line \in Lines /\ c \in CacheLine(c.line)
      BY <2>2, ContentsAre
    <3>2. c \in CacheLine(c.line)'
      BY <1>1, <3>1 DEF CacheLine
    <3> QED BY <3>1, <3>2 DEF Contents
  <2> QED BY <2>1, <2>2
<1> QED BY <1>2 DEF InstructionsOK, Placed

-----------------------------------------------------------------------------
(* The operations of a call, one after another.                            *)

LEMMA ElementsAre ==
  ASSUME NEW S, NEW q \in Seq(S)
  PROVE  /\ Len(q) \in Nat /\ Elements(q) \subseteq S
         /\ q # <<>> => Head(q) = q[1] /\ Head(q) \in Elements(q)
                        /\ Elements(q) = Elements(Tail(q)) \union {Head(q)}
<1>1. Len(q) \in Nat /\ Elements(q) \subseteq S
  BY LenProperties, ElementOfSeq DEF Elements
<1>2. ASSUME q # <<>>
      PROVE  Head(q) = q[1] /\ Head(q) \in Elements(q)
             /\ Elements(q) = Elements(Tail(q)) \union {Head(q)}
  <2>1. Len(q) \in Nat \ {0} /\ Head(q) = q[1]
    BY <1>2, EmptySeq
  <2>2. Len(Tail(q)) = Len(q) - 1 /\ \A i \in 1 .. Len(Tail(q)) : Tail(q)[i] = q[i + 1]
    BY <1>2, HeadTailProperties
  <2>3. Head(q) \in Elements(q)
    BY <2>1 DEF Elements
  <2>4. ASSUME NEW x \in Elements(q), x # Head(q) PROVE x \in Elements(Tail(q))
    <3>1. PICK i \in 1 .. Len(q) : x = q[i]
      BY DEF Elements
    <3>2. i - 1 \in 1 .. Len(Tail(q)) /\ (i - 1) + 1 = i
      BY <2>1, <2>2, <2>4, <3>1
    <3>3. Tail(q)[i - 1] = x
      BY <2>2, <3>1, <3>2
    <3> QED BY <3>2, <3>3 DEF Elements
  <2>5. ASSUME NEW x \in Elements(Tail(q)) PROVE x \in Elements(q)
    <3>1. PICK i \in 1 .. Len(Tail(q)) : x = Tail(q)[i]
      BY DEF Elements
    <3>2. x = q[i + 1] /\ i + 1 \in 1 .. Len(q)
      BY <2>1, <2>2, <3>1
    <3> QED BY <3>2 DEF Elements
  <2> QED BY <2>1, <2>3, <2>4, <2>5
<1> QED BY <1>1, <1>2

\* What is left when the first operation is made.
LEMMA OperationsStep ==
  ASSUME Operations(todo, promise), todo # <<>>, todo' = Tail(todo), promise' = promise,
         given' = given, k0' = k0 \/ Now.op \in {"init", "k0"}
  PROVE  /\ Operations(todo, promise)' /\ Allowed(Now, todo, promise)
         /\ Elements(todo) = Elements(todo)' \union {Now}
         /\ Now.op \in InstructionOps => \A o \in Elements(todo) : o.op \in InstructionOps
<1>1. /\ todo \in Seq(Commands) /\ promise \in Promises /\ Sorted(todo)
      /\ \A o \in Elements(todo) : Allowed(o, todo, promise)
      /\ promise.given \subseteq given
  BY DEF Operations
<1>2. /\ Len(todo) \in Nat /\ Now = todo[1] /\ Now \in Elements(todo)
      /\ Elements(todo) = Elements(Tail(todo)) \union {Now}
  BY <1>1, ElementsAre DEF Now
<1>3. /\ Tail(todo) \in Seq(Commands) /\ Len(Tail(todo)) = Len(todo) - 1
      /\ \A i \in 1 .. Len(Tail(todo)) : Tail(todo)[i] = todo[i + 1]
  BY <1>1, HeadTailProperties
<1>4. Sorted(Tail(todo))
  <2> SUFFICES ASSUME NEW i \in 1 .. Len(Tail(todo)), NEW j \in 1 .. Len(Tail(todo)), i < j,
                      Tail(todo)[i].op \in InstructionOps
               PROVE  Tail(todo)[j].op \in InstructionOps
    BY DEF Sorted
  <2>1. i + 1 \in 1 .. Len(todo) /\ j + 1 \in 1 .. Len(todo) /\ i + 1 < j + 1
    BY <1>2, <1>3
  <2>2. todo[i + 1].op \in InstructionOps
    BY <1>3
  <2>3. todo[j + 1].op \in InstructionOps
    BY <1>1, <2>1, <2>2 DEF Sorted
  <2> QED BY <1>3, <2>3
<1>5. ASSUME NEW o \in Elements(Tail(todo))
      PROVE  /\ o.op \notin {"init", "k0"} /\ k0' = k0 /\ Allowed(o, todo, promise)
  <2>1. Len(Tail(todo)) >= 1
    BY <1>2, <1>3 DEF Elements
  <2>2. Len(todo) # 1
    BY <1>2, <1>3, <2>1
  <2>3. o \in Elements(todo) /\ Allowed(o, todo, promise) /\ Allowed(Now, todo, promise)
    BY <1>1, <1>2
  <2>4. o.op \notin {"init", "k0"} /\ Now.op \notin {"init", "k0"}
    BY <2>2, <2>3 DEF Allowed
  <2> QED BY <2>3, <2>4
<1>6. ASSUME NEW o \in Elements(Tail(todo)) PROVE Allowed(o, todo, promise)'
  BY <1>5 DEF Allowed
<1>7. \A o \in Elements(todo') : Allowed(o, todo, promise)'
  BY <1>6
<1>8. Operations(todo, promise)'
  BY <1>1, <1>3, <1>4, <1>7 DEF Operations
<1>9. ASSUME Now.op \in InstructionOps, NEW o \in Elements(todo) PROVE o.op \in InstructionOps
  <2>1. PICK i \in 1 .. Len(todo) : o = todo[i]
    BY DEF Elements
  <2>2. CASE i = 1
    BY <1>2, <1>9, <2>1, <2>2
  <2>3. CASE i # 1
    <3>1. 1 \in 1 .. Len(todo) /\ 1 < i
      BY <1>2, <2>1, <2>3
    <3>2. todo[i].op \in InstructionOps
      BY <1>1, <1>2, <1>9, <2>1, <3>1 DEF Sorted
    <3> QED BY <2>1, <3>2
  <2> QED BY <2>2, <2>3
<1> QED BY <1>1, <1>2, <1>8, <1>9

-----------------------------------------------------------------------------
(* What a step may do to the two caches and keep what was promised; done   *)
(* is the operation it makes, if it makes one.                             *)

\* A lock is kept, on its line unless all slots of the set are locked.
SameSet(s)  == {x \in Slots : x % LINES_PER_WAY = s % LINES_PER_WAY}
Stays(c, d) == \A s \in Slots : c[s].locked =>
  d[s].locked /\ (d[s].line = c[s].line \/ \A x \in SameSet(s) : c[x].locked)
Replaces(cache, ss, t, c) == ss = {t} /\ c.locked /\ \A x \in SameSet(t) : cache[x].locked

LEMMA StaysHeld ==
  ASSUME NEW c, NEW d, NEW l \in Lines, Placed(c), Stays(c, d), Held(c, l)
  PROVE  Held(d, l)
<1>1. CASE \A s \in SlotsFor(l) : c[s].locked
  BY <1>1 DEF Held, Stays, SlotsFor
<1>2. ASSUME NEW s \in Hits(c, l), c[s].locked PROVE Held(d, l)
  <2>1. s \in Slots /\ c[s].line = l /\ s \in SlotsFor(l)
    BY DEF Hits, Placed
  <2>2. d[s].locked /\ (d[s].line = l \/ \A x \in SameSet(s) : c[x].locked)
    BY <1>2, <2>1 DEF Stays
  <2>3. CASE d[s].line = l
    BY <2>1, <2>2, <2>3 DEF Held, Hits
  <2>4. CASE \A x \in SameSet(s) : c[x].locked
    <3>1. SlotsFor(l) = SameSet(s) /\ SlotsFor(l) \subseteq Slots
      BY <2>1 DEF SlotsFor, SameSet
    <3> QED BY <2>4, <3>1 DEF Stays, Held
  <2> QED BY <2>2, <2>3, <2>4
<1> QED BY <1>1, <1>2 DEF Held

DataStep(done) ==
  /\ \A a \in Addresses : mem[a] <= mem'[a]
  /\ promise.memory # Nothing.memory => \A a \in Addresses : \A s \in Hits(dcache, LineOf(a)) :
       dcache[s].dirty =>
         \/ dcache[s].data[a] <= mem'[a]
         \/ /\ s \in Hits(dcache', LineOf(a)) /\ dcache'[s].dirty
            /\ dcache[s].data[a] <= dcache'[s].data[a]
            /\ done \intersect WritingBack(s, LineOf(a)) = {}
  /\ promise.dlocked # {} => Stays(dcache, dcache')
  /\ \A l \in Lines : Op("Fetch_Lock_D", l) \in done => Held(dcache', l)

InstructionStep(done) ==
  /\ \A a \in Addresses, s \in Slots :
       done \intersect Invalidating(s, LineOf(a)) # {} => promise.memory[a] <= mem'[a]
  /\ \A a \in Addresses : \A s \in Hits(icache', LineOf(a)) :
       /\ done \intersect Invalidating(s, LineOf(a)) = {}
       /\ \/ icache'[s].data[a] = mem[a]
          \/ s \in Hits(icache, LineOf(a)) /\ icache'[s].data[a] = icache[s].data[a]
  /\ promise.ilocked # {} => Stays(icache, icache')
  /\ \A l \in Lines : Op("Fetch_Lock_I", l) \in done => Held(icache', l)

LEMMA PromisedStep ==
  ASSUME DataOK, DataOK', InstructionsOK, Backed, ScalarsOK, stores' \in Nat,
         Promised(todo, promise), Operations(todo, promise)', promise' = promise,
         NEW done, Elements(todo) \subseteq Elements(todo)' \union done,
         DataStep(done), InstructionStep(done)
  PROVE  Promised(todo, promise)'
<1>1. /\ promise \in Promises /\ Written(todo, promise) /\ Fetchable(todo, promise)
      /\ Locked(todo, promise)
  BY DEF Promised, Operations
<1>2. \A a \in Addresses : /\ mem[a] \in Nat /\ mem'[a] \in Nat
                           /\ promise.memory[a] \in Nat /\ promise.fetch[a] \in Nat
                           /\ mem[a] <= mem'[a] /\ LineOf(a) \in Lines /\ a \in Of(LineOf(a))
  <2>1. stores \in Nat
    BY Geometry DEF ScalarsOK
  <2>2. \A a \in Addresses : promise.memory[a] \in Nat /\ promise.fetch[a] \in Nat
    BY <1>1 DEF Promises
  <2> QED BY <2>1, <2>2, LineOfIs DEF DataStep, DataOK
<1>3. Written(todo, promise)'
  <2> SUFFICES ASSUME NEW a \in Addresses
               PROVE  \/ promise.memory[a] <= mem'[a]
                      \/ \E s \in Hits(dcache', LineOf(a)) :
                           /\ dcache'[s].dirty /\ promise.memory[a] <= dcache'[s].data[a]
                           /\ Elements(todo') \intersect WritingBack(s, LineOf(a)) # {}
    BY DEF Written, Hits, WritingBack
  <2>1. CASE promise.memory = Nothing.memory
    BY <1>2, <2>1 DEF Nothing
  <2>2. CASE promise.memory[a] <= mem[a]
    BY <1>2, <2>2
  <2>3. ASSUME promise.memory # Nothing.memory, NEW s \in Hits(dcache, LineOf(a)), dcache[s].dirty,
               promise.memory[a] <= dcache[s].data[a],
               Elements(todo) \intersect WritingBack(s, LineOf(a)) # {}
        PROVE  \/ promise.memory[a] <= mem'[a]
               \/ /\ s \in Hits(dcache', LineOf(a)) /\ dcache'[s].dirty
                  /\ promise.memory[a] <= dcache'[s].data[a]
                  /\ Elements(todo') \intersect WritingBack(s, LineOf(a)) # {}
    <3>1. dcache[s].data[a] \in Nat
      <4>1. s \in Slots /\ dcache[s].line = LineOf(a)
        BY DEF Hits
      <4>2. dcache[s] \in CacheLine(LineOf(a))
        BY <1>2, <4>1, ContentsAre DEF DataOK
      <4> QED BY <1>2, <4>2 DEF CacheLine, ScalarsOK
    <3>2. CASE dcache[s].data[a] <= mem'[a]
      BY <1>2, <2>3, <3>1, <3>2
    <3>3. CASE /\ s \in Hits(dcache', LineOf(a)) /\ dcache'[s].dirty
               /\ dcache[s].data[a] <= dcache'[s].data[a]
               /\ done \intersect WritingBack(s, LineOf(a)) = {}
      <4>1. dcache'[s].data[a] \in Nat
        <5>1. s \in Slots /\ dcache'[s].line = LineOf(a) /\ dcache'[s] \in Contents'
          BY <3>3 DEF Hits, DataOK
        <5>2. dcache'[s] \in CacheLine(LineOf(a))'
          BY <1>2, <5>1, ContentsAre, Geometry DEF Contents, CacheLine, Empty, Lines
        <5> QED BY <1>2, <5>2 DEF CacheLine
      <4>2. Elements(todo') \intersect WritingBack(s, LineOf(a)) # {}
        BY <2>3, <3>3
      <4> QED BY <1>2, <2>3, <3>1, <3>3, <4>1, <4>2
    <3> QED BY <2>3, <3>2, <3>3 DEF DataStep
  <2> QED BY <1>1, <2>1, <2>2, <2>3 DEF Written
<1>4. Fetchable(todo, promise)'
  <2> SUFFICES ASSUME NEW a \in Addresses
               PROVE  /\ \/ promise.fetch[a] <= mem'[a]
                         \/ /\ promise.fetch[a] <= promise.memory[a]
                            /\ \A s \in Slots : Pending(todo', s, LineOf(a))
                      /\ \A s \in Hits(icache', LineOf(a)) :
                           promise.fetch[a] <= icache'[s].data[a] \/ Pending(todo', s, LineOf(a))
    BY DEF Fetchable, Hits, Pending, Invalidating
  <2>1. \/ promise.fetch[a] <= mem[a]
        \/ promise.fetch[a] <= promise.memory[a] /\ \A s \in Slots : Pending(todo, s, LineOf(a))
    BY <1>1 DEF Fetchable
  <2>2. \A s \in Hits(icache, LineOf(a)) : promise.fetch[a] <= icache[s].data[a] \/ Pending(todo, s, LineOf(a))
    BY <1>1 DEF Fetchable
  <2>3. \A s : Pending(todo, s, LineOf(a)) /\ done \intersect Invalidating(s, LineOf(a)) = {}
                 => Pending(todo', s, LineOf(a))
    BY DEF Pending
  <2>4. \/ promise.fetch[a] <= mem'[a]
        \/ promise.fetch[a] <= promise.memory[a] /\ \A s \in Slots : Pending(todo', s, LineOf(a))
    <3>1. CASE promise.fetch[a] <= mem[a]
      BY <1>2, <3>1
    <3>2. CASE promise.fetch[a] <= promise.memory[a] /\ \A s \in Slots : Pending(todo, s, LineOf(a))
      <4>1. CASE \E s \in Slots : done \intersect Invalidating(s, LineOf(a)) # {}
        <5>1. promise.memory[a] <= mem'[a]
          BY <4>1 DEF InstructionStep
        <5> QED BY <1>2, <3>2, <5>1
      <4>2. CASE \A s \in Slots : done \intersect Invalidating(s, LineOf(a)) = {}
        BY <2>3, <3>2, <4>2
      <4> QED BY <4>1, <4>2
    <3> QED BY <2>1, <3>1, <3>2
  <2>5. ASSUME NEW s \in Hits(icache', LineOf(a))
        PROVE  promise.fetch[a] <= icache'[s].data[a] \/ Pending(todo', s, LineOf(a))
    <3>1. /\ done \intersect Invalidating(s, LineOf(a)) = {} /\ s \in Slots
          /\ \/ icache'[s].data[a] = mem[a]
             \/ s \in Hits(icache, LineOf(a)) /\ icache'[s].data[a] = icache[s].data[a]
      BY DEF InstructionStep, Hits
    <3> QED BY <2>1, <2>2, <2>3, <3>1
  <2> QED BY <2>4, <2>5
<1>5. Locked(todo, promise)'
  <2>1. promise.dlocked \subseteq Lines /\ promise.ilocked \subseteq Lines
    BY <1>1 DEF Promises
  <2>2. ASSUME NEW l \in promise.dlocked
        PROVE  Op("Fetch_Lock_D", l) \in Elements(todo') \/ Held(dcache', l)
    <3>1. CASE Op("Fetch_Lock_D", l) \in Elements(todo)
      BY <2>1, <3>1 DEF DataStep
    <3>2. CASE Held(dcache, l)
      <4>1. Placed(dcache) /\ Stays(dcache, dcache') /\ l \in Lines
        BY <2>1 DEF DataStep, DataOK
      <4> QED BY <3>2, <4>1, StaysHeld
    <3> QED BY <1>1, <3>1, <3>2 DEF Locked
  <2>3. ASSUME NEW l \in promise.ilocked
        PROVE  Op("Fetch_Lock_I", l) \in Elements(todo') \/ Held(icache', l)
    <3>1. CASE Op("Fetch_Lock_I", l) \in Elements(todo)
      BY <2>1, <3>1 DEF InstructionStep
    <3>2. CASE Held(icache, l)
      <4>1. Placed(icache) /\ Stays(icache, icache') /\ l \in Lines
        BY <2>1 DEF InstructionStep, InstructionsOK
      <4> QED BY <3>2, <4>1, StaysHeld
    <3> QED BY <1>1, <3>1, <3>2 DEF Locked
  <2> QED BY <2>2, <2>3 DEF Locked, Held, Hits
<1> QED BY <1>3, <1>4, <1>5 DEF Promised

LEMMA ExchangeStep ==
  ASSUME CacheOK, NEW ss, NEW t, NEW c, Exchanged(ss, t, c), NEW done,
         \A a \in Addresses : mem[a] <= mem'[a],
         \A l \in Lines : \A s \in Hits(dcache, l) : done \intersect WritingBack(s, l) # {} => s \in ss,
         \/ promise.dlocked = {}
         \/ \A s \in ss : ~dcache[s].locked
         \/ Replaces(dcache, ss, t, c),
         \A l \in Lines : Op("Fetch_Lock_D", l) \in done => t \in Slots /\ c.line = l /\ c.locked
  PROVE  DataStep(done)
<1>1. DataOK /\ Placed(dcache) /\ mem \in [Addresses -> 0 .. stores]
  BY DEF CacheOK, DataOK
<1>2. /\ ss \subseteq Slots /\ (t \in Slots => t \in ss)
      /\ \A s \in Slots : dcache'[s] = IF s = t THEN c ELSE IF s \in ss THEN Empty ELSE dcache[s]
  BY DEF Exchanged
<1>3. ASSUME NEW a \in Addresses, NEW s \in Hits(dcache, LineOf(a)), dcache[s].dirty
      PROVE  \/ dcache[s].data[a] <= mem'[a]
             \/ /\ s \in Hits(dcache', LineOf(a)) /\ dcache'[s].dirty
                /\ dcache[s].data[a] <= dcache'[s].data[a]
                /\ done \intersect WritingBack(s, LineOf(a)) = {}
  <2>1. s \in Slots /\ dcache[s].line = LineOf(a) /\ LineOf(a) \in Lines /\ a \in Of(LineOf(a))
    BY LineOfIs DEF Hits
  <2>2. dcache[s].data[a] \in 0 .. stores
    BY <1>1, <2>1, ContentsAre DEF DataOK, CacheLine
  <2>3. CASE s \in ss
    <3>1. PICK x \in ss : /\ dcache[x].line = LineOf(a) /\ dcache[x].dirty
                          /\ mem'[a] = dcache[x].data[a]
      BY <1>3, <2>1, <2>3 DEF Exchanged, WroteBack
    <3>2. x = s
      BY <1>1, <1>2, <2>1, <3>1 DEF Placed, Hits
    <3> QED BY <2>2, <3>1, <3>2
  <2>4. CASE s \notin ss
    <3>1. dcache'[s] = dcache[s] /\ done \intersect WritingBack(s, LineOf(a)) = {}
      BY <1>2, <1>3, <2>1, <2>4
    <3> QED BY <1>3, <2>1, <2>2, <3>1 DEF Hits
  <2> QED BY <2>3, <2>4
<1>4. ASSUME promise.dlocked # {}, NEW s \in Slots, dcache[s].locked
      PROVE  dcache'[s].locked
             /\ (dcache'[s].line = dcache[s].line \/ \A x \in SameSet(s) : dcache[x].locked)
  <2>1. CASE s \notin ss
    BY <1>2, <1>4, <2>1
  <2>2. CASE s \in ss
    <3>1. Replaces(dcache, ss, t, c)
      BY <1>4, <2>2
    <3>2. s = t /\ c.locked /\ \A x \in SameSet(s) : dcache[x].locked
      BY <2>2, <3>1 DEF Replaces
    <3> QED BY <1>2, <3>2
  <2> QED BY <2>1, <2>2
<1>5. ASSUME NEW l \in Lines, Op("Fetch_Lock_D", l) \in done
      PROVE  Held(dcache', l)
  <2>1. t \in Slots /\ dcache'[t].line = l /\ dcache'[t].locked
    BY <1>2, <1>5
  <2> QED BY <2>1 DEF Held, Hits
<1> QED BY <1>3, <1>4, <1>5 DEF DataStep, Stays

LEMMA DataUnchanged ==
  ASSUME DataOK, ScalarsOK, UNCHANGED <<dcache, mem>>, NEW done,
         \A l \in Lines, s \in Slots : done \intersect WritingBack(s, l) = {},
         \A l \in Lines : Op("Fetch_Lock_D", l) \in done => Held(dcache, l)
  PROVE  DataStep(done)
<1>1. ASSUME NEW a \in Addresses, NEW s \in Hits(dcache, LineOf(a)), dcache[s].dirty
      PROVE  /\ s \in Hits(dcache', LineOf(a)) /\ dcache'[s].dirty
             /\ dcache[s].data[a] <= dcache'[s].data[a]
             /\ done \intersect WritingBack(s, LineOf(a)) = {}
  <2>1. s \in Slots /\ dcache[s].line = LineOf(a) /\ LineOf(a) \in Lines /\ a \in Of(LineOf(a))
    BY LineOfIs DEF Hits
  <2>2. dcache[s].data[a] \in 0 .. stores
    BY <2>1, ContentsAre DEF DataOK, CacheLine
  <2> QED BY <1>1, <2>1, <2>2 DEF Hits
<1>2. \A a \in Addresses : mem[a] <= mem'[a]
  BY DEF DataOK, ScalarsOK
<1> QED BY <1>1, <1>2 DEF DataStep, Stays

LEMMA DropStep ==
  ASSUME DataOK, ScalarsOK, mem' = mem, NEW done,
         promise.memory = Nothing.memory, promise.dlocked = {},
         \A l \in Lines : Op("Fetch_Lock_D", l) \notin done
  PROVE  DataStep(done)
<1>1. \A a \in Addresses : mem[a] <= mem'[a]
  BY DEF DataOK, ScalarsOK
<1> QED BY <1>1 DEF DataStep

LEMMA LockStep ==
  ASSUME DataOK, ScalarsOK, mem' = mem, NEW s \in Slots, NEW l \in Lines, dcache[s].line = l,
         dcache'[s].locked, NEW done, done = {Op("Fetch_Lock_D", l)},
         \A x \in Slots :
           /\ dcache'[x].line = dcache[x].line /\ dcache'[x].dirty = dcache[x].dirty
           /\ dcache'[x].data = dcache[x].data /\ (dcache[x].locked => dcache'[x].locked)
  PROVE  DataStep(done)
<1>1. ASSUME NEW a \in Addresses, NEW x \in Hits(dcache, LineOf(a)), dcache[x].dirty
      PROVE  /\ x \in Hits(dcache', LineOf(a)) /\ dcache'[x].dirty
             /\ dcache[x].data[a] <= dcache'[x].data[a]
             /\ done \intersect WritingBack(x, LineOf(a)) = {}
  <2>1. x \in Slots /\ dcache[x].line = LineOf(a) /\ LineOf(a) \in Lines /\ a \in Of(LineOf(a))
    BY LineOfIs DEF Hits
  <2>2. dcache[x].data[a] \in 0 .. stores
    BY <2>1, ContentsAre DEF DataOK, CacheLine
  <2>3. done \intersect WritingBack(x, LineOf(a)) = {}
    BY DEF WritingBack, Op
  <2> QED BY <1>1, <2>1, <2>2, <2>3 DEF Hits
<1>2. \A a \in Addresses : mem[a] <= mem'[a]
  BY DEF DataOK, ScalarsOK
<1>3. ASSUME NEW k \in Lines, Op("Fetch_Lock_D", k) \in done
      PROVE  Held(dcache', k)
  <2>1. k = l
    BY <1>3 DEF Op
  <2> QED BY <2>1 DEF Held, Hits
<1> QED BY <1>1, <1>2, <1>3 DEF DataStep, Stays

LEMMA StoreStep ==
  ASSUME \A a \in Addresses : mem[a] <= mem'[a],
         \A s \in Slots :
           /\ dcache'[s].line = dcache[s].line /\ dcache'[s].locked = dcache[s].locked
           /\ dcache[s].dirty => dcache'[s].dirty
           /\ dcache[s].line \in Lines =>
                \A b \in Of(dcache[s].line) : dcache[s].data[b] <= dcache'[s].data[b]
  PROVE  DataStep({})
<1>1. ASSUME NEW a \in Addresses, NEW s \in Hits(dcache, LineOf(a)), dcache[s].dirty
      PROVE  /\ s \in Hits(dcache', LineOf(a)) /\ dcache'[s].dirty
             /\ dcache[s].data[a] <= dcache'[s].data[a]
             /\ {} \intersect WritingBack(s, LineOf(a)) = {}
  <2>1. s \in Slots /\ dcache[s].line = LineOf(a) /\ LineOf(a) \in Lines /\ a \in Of(LineOf(a))
    BY LineOfIs DEF Hits
  <2> QED BY <1>1, <2>1 DEF Hits
<1> QED BY <1>1 DEF DataStep, Stays

LEMMA InvalidateStep ==
  ASSUME InstructionsOK, NEW ss, NEW t, NEW c, Invalidated(ss, t, c), NEW done,
         \A a \in Addresses, s \in Slots :
           done \intersect Invalidating(s, LineOf(a)) # {} =>
             /\ promise.memory[a] <= mem'[a] /\ t \notin Slots
             /\ icache[s].line = LineOf(a) => s \in ss,
         \/ promise.ilocked = {}
         \/ \A s \in ss : ~icache[s].locked
         \/ Replaces(icache, ss, t, c),
         \A l \in Lines : Op("Fetch_Lock_I", l) \in done => t \in Slots /\ c.line = l /\ c.locked
  PROVE  InstructionStep(done)
<1>1. /\ ss \subseteq Slots /\ (t \in Slots => t \in ss)
      /\ \A s \in Slots : icache'[s] = IF s = t THEN c ELSE IF s \in ss THEN Empty ELSE icache[s]
  BY DEF Invalidated
<1>2. Empty.line \notin Lines
  BY Geometry DEF Empty, Lines
<1>3. ASSUME NEW a \in Addresses, NEW s \in Hits(icache', LineOf(a))
      PROVE  /\ done \intersect Invalidating(s, LineOf(a)) = {}
             /\ \/ icache'[s].data[a] = mem[a]
                \/ s \in Hits(icache, LineOf(a)) /\ icache'[s].data[a] = icache[s].data[a]
  <2>1. s \in Slots /\ icache'[s].line = LineOf(a) /\ LineOf(a) \in Lines /\ a \in Of(LineOf(a))
    BY LineOfIs DEF Hits
  <2>2. CASE s = t
    <3>1. icache'[s] = c /\ \A b \in Of(c.line) : c.data[b] = mem[b]
      BY <1>1, <2>1, <2>2 DEF Invalidated
    <3> QED BY <2>1, <2>2, <3>1
  <2>3. CASE s # t
    <3>1. icache'[s] = icache[s] /\ s \notin ss
      BY <1>1, <1>2, <2>1, <2>3
    <3> QED BY <2>1, <3>1 DEF Hits
  <2> QED BY <2>2, <2>3
<1>4. ASSUME promise.ilocked # {}, NEW s \in Slots, icache[s].locked
      PROVE  icache'[s].locked
             /\ (icache'[s].line = icache[s].line \/ \A x \in SameSet(s) : icache[x].locked)
  <2>1. CASE s \notin ss
    BY <1>1, <1>4, <2>1
  <2>2. CASE s \in ss
    <3>1. Replaces(icache, ss, t, c)
      BY <1>4, <2>2
    <3>2. s = t /\ c.locked /\ \A x \in SameSet(s) : icache[x].locked
      BY <2>2, <3>1 DEF Replaces
    <3> QED BY <1>1, <3>2
  <2> QED BY <2>1, <2>2
<1>5. ASSUME NEW l \in Lines, Op("Fetch_Lock_I", l) \in done
      PROVE  Held(icache', l)
  <2>1. t \in Slots /\ icache'[t].line = l /\ icache'[t].locked
    BY <1>1, <1>5
  <2> QED BY <2>1 DEF Held, Hits
<1> QED BY <1>3, <1>4, <1>5 DEF InstructionStep, Stays

LEMMA LockInstructionsStep ==
  ASSUME NEW s \in Slots, NEW l \in Lines, icache[s].line = l, icache'[s].locked,
         NEW done, done = {Op("Fetch_Lock_I", l)},
         \A x \in Slots : icache'[x].line = icache[x].line /\ icache'[x].data = icache[x].data
                        /\ (icache[x].locked => icache'[x].locked)
  PROVE  InstructionStep(done)
<1>1. \A x, k : done \intersect Invalidating(x, k) = {}
  BY DEF Invalidating, Op
<1>2. ASSUME NEW a \in Addresses, NEW x \in Hits(icache', LineOf(a))
      PROVE  x \in Hits(icache, LineOf(a)) /\ icache'[x].data[a] = icache[x].data[a]
  BY DEF Hits
<1>3. ASSUME NEW k \in Lines, Op("Fetch_Lock_I", k) \in done
      PROVE  Held(icache', k)
  <2>1. k = l
    BY <1>3 DEF Op
  <2> QED BY <2>1 DEF Held, Hits
<1> QED BY <1>1, <1>2, <1>3 DEF InstructionStep, Stays

LEMMA InstructionsUnchanged ==
  ASSUME icache' = icache, NEW done,
         \A l \in Lines, s \in Slots : done \intersect Invalidating(s, l) = {},
         \A l \in Lines : Op("Fetch_Lock_I", l) \in done => Held(icache, l)
  PROVE  InstructionStep(done)
<1>1. ASSUME NEW a \in Addresses, NEW s \in Slots PROVE done \intersect Invalidating(s, LineOf(a)) = {}
  BY LineOfIs
<1>2. \A a \in Addresses : \A s \in Hits(icache', LineOf(a)) : s \in Hits(icache, LineOf(a)) /\ s \in Slots
  BY DEF Hits
<1> QED BY <1>1, <1>2 DEF InstructionStep, Stays

LEMMA IInvParts ==
  /\ IInv => ScalarsOK /\ CacheOK /\ InstructionsOK /\ Promised(todo, promise)
             /\ DataOK /\ Backed /\ Newest /\ Placed(dcache) /\ Placed(icache)
             /\ stores \in Nat
  /\ ScalarsOK' /\ CacheOK' /\ InstructionsOK' /\ Promised(todo, promise)' => IInv'
<1>1. IInv => ScalarsOK /\ CacheOK /\ InstructionsOK /\ Promised(todo, promise)
  BY TypeParts DEF IInv, CacheOK
<1>2. ScalarsOK' /\ CacheOK' /\ InstructionsOK' /\ Promised(todo, promise)' => IInv'
  BY TypeParts DEF IInv, CacheOK
<1> QED BY <1>1, <1>2, Geometry DEF CacheOK, DataOK, InstructionsOK, ScalarsOK

LEMMA FreshIs ==
  ASSUME DataOK, NEW l \in Lines
  PROVE  /\ Fresh(l) \in CacheLine(l) /\ Fresh(l).line = l /\ ~Fresh(l).dirty /\ ~Fresh(l).locked
         /\ \A a \in Of(l) : Fresh(l).data[a] = mem[a]
         /\ [Fresh(l) EXCEPT !.locked = TRUE] \in CacheLine(l)
         /\ [Fresh(l) EXCEPT !.locked = TRUE].line = l /\ ~[Fresh(l) EXCEPT !.locked = TRUE].dirty
         /\ [Fresh(l) EXCEPT !.locked = TRUE].locked
         /\ \A a \in Of(l) : [Fresh(l) EXCEPT !.locked = TRUE].data[a] = mem[a]
<1>1. [a \in Of(l) |-> mem[a]] \in [Of(l) -> 0 .. stores]
  BY DEF DataOK, Of
<1>2. /\ Fresh(l).line = l /\ ~Fresh(l).dirty /\ ~Fresh(l).locked
      /\ \A a \in Of(l) : Fresh(l).data[a] = mem[a]
  BY DEF Fresh
<1>3. Fresh(l) \in CacheLine(l)
  BY <1>1 DEF Fresh, CacheLine
<1>4. /\ [Fresh(l) EXCEPT !.locked = TRUE].line = l /\ ~[Fresh(l) EXCEPT !.locked = TRUE].dirty
      /\ [Fresh(l) EXCEPT !.locked = TRUE].locked
      /\ \A a \in Of(l) : [Fresh(l) EXCEPT !.locked = TRUE].data[a] = mem[a]
  BY DEF Fresh
<1>5. [Fresh(l) EXCEPT !.locked = TRUE] \in CacheLine(l)
  BY <1>3 DEF CacheLine
<1> QED BY <1>2, <1>3, <1>4, <1>5

-----------------------------------------------------------------------------
(* The actions of the caches by themselves, and stores.                    *)

LEMMA NothingPromised ==
  ASSUME ScalarsOK', DataOK', InstructionsOK', todo' = <<>>, promise' = Nothing
  PROVE  Promised(todo, promise)'
<1>1. todo' \in Seq(Commands) /\ Elements(todo') = {} /\ Sorted(todo')
  BY DEF Elements, Sorted
<1>2. Nothing \in Promises
  BY DEF Nothing, Promises
<1>3. Operations(todo, promise)'
  BY <1>1, <1>2 DEF Operations
<1>4. \A a \in Addresses : Nothing.memory[a] = 0 /\ Nothing.fetch[a] = 0 /\ mem'[a] \in Nat
  BY Geometry DEF Nothing, DataOK, ScalarsOK
<1>5. Written(todo, promise)'
  BY <1>4 DEF Written
<1>6. ASSUME NEW a \in Addresses, NEW s \in Hits(icache', LineOf(a)) PROVE icache'[s].data[a] \in Nat
  <2>1. /\ s \in Slots /\ icache'[s].line = LineOf(a) /\ icache'[s] \in Contents'
        /\ LineOf(a) \in Lines /\ a \in Of(LineOf(a)) /\ stores' \in Nat
    BY LineOfIs, Geometry DEF Hits, InstructionsOK, ScalarsOK
  <2>2. icache'[s] \in CacheLine(LineOf(a))'
    BY <2>1, Geometry DEF Contents, CacheLine, Empty, Lines
  <2> QED BY <2>1, <2>2 DEF CacheLine
<1>7. Fetchable(todo, promise)'
  BY <1>4, <1>6 DEF Fetchable, Hits
<1>8. Locked(todo, promise)'
  BY DEF Locked, Nothing
<1> QED BY <1>3, <1>5, <1>7, <1>8 DEF Promised

LEMMA ProcessorStep ==
  ASSUME IInv, ScalarsOK', DataOK', InstructionsOK', Kept, UNCHANGED <<todo, k0>>,
         todo # <<>> => promise.given \intersect given \subseteq given',
         DataStep({}), InstructionStep({})
  PROVE  Promised(todo, promise)'
<1>1. CASE todo = <<>>
  BY <1>1, NothingPromised DEF Kept
<1>2. CASE todo # <<>>
  <2>1. promise' = promise /\ Promised(todo, promise) /\ Operations(todo, promise)
    BY <1>2 DEF Kept, IInv, Promised
  <2>2. ASSUME NEW o \in Elements(todo) PROVE Allowed(o, todo, promise)'
    <3>1. Allowed(o, todo, promise)
      BY <2>1 DEF Operations
    <3> QED BY <2>1, <3>1 DEF Allowed
  <2>3. Operations(todo, promise)'
    BY <1>2, <2>1, <2>2 DEF Operations
  <2>4. Elements(todo) \subseteq Elements(todo)' \union {}
    BY DEF Elements
  <2> QED BY <2>1, <2>3, <2>4, IInvParts, PromisedStep, Geometry DEF ScalarsOK
<1> QED BY <1>1, <1>2

LEMMA FillKeeps == ASSUME IInv, Fill PROVE IInv'
<1>1. /\ ScalarsOK /\ CacheOK /\ InstructionsOK /\ DataOK /\ Backed /\ Newest
      /\ UNCHANGED <<mem, k0, todo, last, given, stores, calls>> /\ Kept
  BY IInvParts DEF Fill
<1>2. ScalarsOK'
  BY <1>1 DEF ScalarsOK
<1>3. PICK l \in Lines :
        \/ /\ k0 # DISABLE /\ Hits(dcache, l) = {}
           /\ \E s \in FirstEmpty(dcache, l) : dcache' = [dcache EXCEPT ![s] = Fresh(l)]
           /\ UNCHANGED icache
        \/ /\ Hits(icache, l) = {}
           /\ \E s \in FirstEmpty(icache, l) : icache' = [icache EXCEPT ![s] = Fresh(l)]
           /\ UNCHANGED dcache
  BY Zenon DEF Fill
<1>4. PICK c : c = Fresh(l)
  OBVIOUS
<1>5. /\ c \in CacheLine(l) /\ c.line = l /\ ~c.dirty /\ \A a \in Of(l) : c.data[a] = mem[a]
  BY <1>1, <1>4, FreshIs
<1>6. ~Empty.dirty /\ ~Empty.locked
  BY DEF Empty
<1>7. CASE /\ k0 # DISABLE /\ Hits(dcache, l) = {}
           /\ \E s \in FirstEmpty(dcache, l) : dcache' = [dcache EXCEPT ![s] = Fresh(l)]
           /\ UNCHANGED icache
  <2>1. PICK s \in FirstEmpty(dcache, l) : dcache' = [dcache EXCEPT ![s] = c]
    BY <1>4, <1>7
  <2>2. s \in SlotsFor(l) /\ s \in Slots /\ dcache[s] = Empty
    BY DEF FirstEmpty, SlotsFor
  <2>3. dcache' = [x \in Slots |-> IF x = s THEN c ELSE IF x \in {s} THEN Empty ELSE dcache[x]]
    BY <1>1, <2>1, <2>2 DEF DataOK
  <2>4. WroteBack({s})
    BY <1>1, <1>6, <2>2 DEF WroteBack, DataOK
  <2>5. Exchanged({s}, s, c)
    BY <1>5, <1>7, <2>2, <2>3, <2>4 DEF Exchanged
  <2>6. CacheOK' /\ \A a \in Addresses : mem[a] <= mem'[a]
    BY <1>1, <2>5, ExchangeKeeps
  <2>7. DataStep({})
    BY <1>1, <1>6, <2>2, <2>5, <2>6, ExchangeStep
  <2>8. InstructionsOK' /\ InstructionStep({})
    BY <1>1, <1>7, InstructionsUnchanged DEF InstructionsOK, Contents, CacheLine, Placed
  <2>9. Promised(todo, promise)'
    BY <1>1, <1>2, <2>6, <2>7, <2>8, ProcessorStep DEF CacheOK
  <2> QED BY <1>2, <2>6, <2>8, <2>9, IInvParts
<1>8. CASE /\ Hits(icache, l) = {}
           /\ \E s \in FirstEmpty(icache, l) : icache' = [icache EXCEPT ![s] = Fresh(l)]
           /\ UNCHANGED dcache
  <2>1. PICK s \in FirstEmpty(icache, l) : icache' = [icache EXCEPT ![s] = c]
    BY <1>4, <1>8
  <2>2. s \in SlotsFor(l) /\ s \in Slots /\ icache[s] = Empty
    BY DEF FirstEmpty, SlotsFor
  <2>3. icache' = [x \in Slots |-> IF x = s THEN c ELSE IF x \in {s} THEN Empty ELSE icache[x]]
    BY <1>1, <2>1, <2>2 DEF InstructionsOK
  <2>4. Invalidated({s}, s, c)
    BY <1>5, <1>8, <2>2, <2>3 DEF Invalidated
  <2>5. InstructionsOK'
    BY <1>1, <2>4, InvalidateKeeps
  <2>6. InstructionStep({})
    BY <1>1, <1>6, <2>2, <2>4, InvalidateStep
  <2>7. CacheOK'
    BY <1>1, <1>8 DEF CacheOK, DataOK, Contents, CacheLine, Placed, Hits, Backed, Newest
  <2>8. DataStep({})
    BY <1>1, <1>8, DataUnchanged
  <2>9. Promised(todo, promise)'
    BY <1>1, <1>2, <2>5, <2>6, <2>7, <2>8, ProcessorStep DEF CacheOK
  <2> QED BY <1>2, <2>5, <2>7, <2>9, IInvParts
<1> QED BY <1>3, <1>7, <1>8

LEMMA EvictKeeps == ASSUME IInv, Evict PROVE IInv'
<1>1. /\ ScalarsOK /\ CacheOK /\ InstructionsOK /\ DataOK /\ Backed /\ Newest /\ Placed(dcache)
      /\ UNCHANGED <<k0, todo, last, given, stores, calls>> /\ Kept
  BY IInvParts DEF Evict
<1>2. ScalarsOK'
  BY <1>1 DEF ScalarsOK
<1>3. PICK s \in Slots :
        \/ /\ dcache[s] # Empty /\ ~dcache[s].locked
           /\ mem' = WrittenBack(s) /\ dcache' = [dcache EXCEPT ![s] = Empty]
           /\ UNCHANGED icache
        \/ /\ icache[s] # Empty /\ ~icache[s].locked
           /\ icache' = [icache EXCEPT ![s] = Empty]
           /\ UNCHANGED <<mem, dcache>>
  BY Zenon DEF Evict
<1>4. PICK t, c : t \notin Slots /\ c = Empty
  BY OutOfSlots
<1>5. CASE /\ dcache[s] # Empty /\ ~dcache[s].locked
           /\ mem' = WrittenBack(s) /\ dcache' = [dcache EXCEPT ![s] = Empty]
           /\ UNCHANGED icache
  <2>1. dcache' = [x \in Slots |-> IF x = t THEN c ELSE IF x \in {s} THEN Empty ELSE dcache[x]]
    BY <1>1, <1>4, <1>5 DEF DataOK
  <2>2. WroteBack({s})
    BY <1>1, <1>5, WrittenBackIs
  <2>3. Exchanged({s}, t, c)
    BY <1>4, <2>1, <2>2 DEF Exchanged
  <2>4. CacheOK' /\ \A a \in Addresses : mem[a] <= mem'[a]
    BY <1>1, <2>3, ExchangeKeeps
  <2>5. DataStep({})
    BY <1>1, <1>5, <2>3, <2>4, ExchangeStep
  <2>6. InstructionsOK' /\ InstructionStep({})
    BY <1>1, <1>5, InstructionsUnchanged DEF InstructionsOK, Contents, CacheLine, Placed
  <2>7. Promised(todo, promise)'
    BY <1>1, <1>2, <2>4, <2>5, <2>6, ProcessorStep DEF CacheOK, IInv, Promised, Operations
  <2> QED BY <1>2, <2>4, <2>6, <2>7, IInvParts
<1>6. CASE /\ icache[s] # Empty /\ ~icache[s].locked
           /\ icache' = [icache EXCEPT ![s] = Empty]
           /\ UNCHANGED <<mem, dcache>>
  <2>1. icache' = [x \in Slots |-> IF x = t THEN c ELSE IF x \in {s} THEN Empty ELSE icache[x]]
    BY <1>1, <1>4, <1>6 DEF InstructionsOK
  <2>2. Invalidated({s}, t, c)
    BY <1>4, <2>1 DEF Invalidated
  <2>3. InstructionsOK'
    BY <1>1, <2>2, InvalidateKeeps
  <2>4. InstructionStep({})
    BY <1>1, <1>6, <2>2, InvalidateStep
  <2>5. CacheOK' /\ DataStep({})
    BY <1>1, <1>6, DataUnchanged
       DEF CacheOK, DataOK, Contents, CacheLine, Placed, Hits, Backed, Newest
  <2>6. Promised(todo, promise)'
    BY <1>1, <1>2, <2>3, <2>4, <2>5, ProcessorStep DEF CacheOK, IInv, Promised, Operations
  <2> QED BY <1>2, <2>3, <2>5, <2>6, IInvParts
<1> QED BY <1>3, <1>5, <1>6

LEMMA StoreKeepsAll == ASSUME IInv, NEW a \in Addresses, Store(a) PROVE IInv'
<1>1. /\ ScalarsOK /\ CacheOK /\ InstructionsOK /\ stores \in Nat
      /\ UNCHANGED <<icache, k0, todo, calls>> /\ Kept /\ stores' = stores + 1
      /\ given' = IF todo # <<>> /\ a \in promise.given THEN given ELSE given \ {a}
  BY IInvParts DEF Store
<1>2. /\ ScalarsOK' /\ CacheOK' /\ DataStep({})
  BY <1>1, StoreKeeps, StoreStep
<1>3. InstructionsOK'
  BY <1>1, NewerKeeps
<1>4. InstructionStep({})
  BY <1>1, InstructionsUnchanged
<1>5. todo # <<>> => promise.given \subseteq given'
  BY <1>1 DEF IInv, Promised, Operations
<1>6. Promised(todo, promise)'
  BY <1>1, <1>2, <1>3, <1>4, <1>5, ProcessorStep DEF CacheOK
<1> QED BY <1>2, <1>3, <1>6, IInvParts

-----------------------------------------------------------------------------
(* The cache operations.                                                   *)

LEMMA GoesIs ==
  ASSUME IInv, NEW o, Goes(o), given' = given, k0' \in Coherencies,
         k0' = k0 \/ Now.op \in {"init", "k0"}
  PROVE  /\ ScalarsOK' /\ Operations(todo, promise)' /\ Allowed(Now, todo, promise)
         /\ Now.op = o /\ Now = Op(o, Now.at)
         /\ Elements(todo) = Elements(todo)' \union {Now}
         /\ Now.op \in InstructionOps => \A x \in Elements(todo) : x.op \in InstructionOps
         /\ UNCHANGED <<stores, last, given, promise>>
<1>1. /\ todo # <<>> /\ Now.op = o /\ todo' = Tail(todo)
      /\ UNCHANGED <<last, promise, stores, calls>> /\ Operations(todo, promise) /\ ScalarsOK
  BY IInvParts DEF Goes, Promised
<1>2. /\ Operations(todo, promise)' /\ Allowed(Now, todo, promise)
      /\ Elements(todo) = Elements(todo)' \union {Now}
      /\ Now.op \in InstructionOps => \A x \in Elements(todo) : x.op \in InstructionOps
  BY <1>1, OperationsStep
<1>3. ScalarsOK'
  BY <1>1 DEF ScalarsOK
<1>4. Now = Op(o, Now.at)
  <2>1. Elements(todo) \subseteq Commands /\ Now \in Elements(todo)
    BY <1>1, <1>2, ElementsAre DEF Operations
  <2> QED BY <1>1, <2>1 DEF Op, Commands
<1> QED BY <1>1, <1>2, <1>3, <1>4

LEMMA OperationKeeps ==
  ASSUME IInv, NEW o, Goes(o), given' = given, k0' \in Coherencies,
         k0' = k0 \/ Now.op \in {"init", "k0"},
         CacheOK', InstructionsOK', DataStep({Now}), InstructionStep({Now})
  PROVE  IInv'
<1>1. PICK done : done = {Now}
  OBVIOUS
<1>2. /\ ScalarsOK' /\ Operations(todo, promise)' /\ promise' = promise
      /\ Elements(todo) = Elements(todo)' \union done
  BY <1>1, GoesIs
<1>3. DataStep(done) /\ InstructionStep(done)
  BY <1>1
<1>4. DataOK' /\ stores' \in Nat
  BY <1>2, Geometry DEF CacheOK, ScalarsOK
<1>5. Promised(todo, promise)'
  BY <1>2, <1>3, <1>4, IInvParts, PromisedStep
<1> QED BY <1>2, <1>5, IInvParts

LEMMA WritebackStep ==
  ASSUME IInv, NEW o, Goes(o), UNCHANGED <<given, k0>>, NEW ss, ss \subseteq Slots,
         WritebackInvalidate(ss), o \in {"Hit_Writeback_Inv_D", "synci", "Index_Writeback_Inv_D"},
         \A l \in Lines : \A s \in Hits(dcache, l) : Now \in WritingBack(s, l) => s \in ss
  PROVE  /\ CacheOK' /\ DataStep({Now}) /\ WroteBack(ss)
         /\ \A a \in Addresses : mem[a] <= mem'[a]
<1>1. /\ ScalarsOK /\ CacheOK /\ DataOK /\ k0 \in Coherencies
  BY IInvParts DEF ScalarsOK
<1>2. /\ Allowed(Now, todo, promise) /\ Now.op = o /\ UNCHANGED <<stores, last, given, k0>>
  BY <1>1, GoesIs
<1>3. PICK t, c : t \notin Slots /\ c = Empty
  BY OutOfSlots
<1>4. WroteBack(ss)
  BY <1>1, MemoryAfter DEF WritebackInvalidate
<1>5. dcache' = [s \in Slots |-> IF s = t THEN c ELSE IF s \in ss THEN Empty ELSE dcache[s]]
  BY <1>3 DEF WritebackInvalidate
<1>6. Exchanged(ss, t, c)
  BY <1>3, <1>4, <1>5 DEF Exchanged
<1>7. CacheOK' /\ \A a \in Addresses : mem[a] <= mem'[a]
  BY <1>1, <1>2, <1>6, ExchangeKeeps
<1>8. PICK done : done = {Now}
  OBVIOUS
<1>9. \A l \in Lines : \A s \in Hits(dcache, l) : done \intersect WritingBack(s, l) # {} => s \in ss
  BY <1>8
<1>10. promise.dlocked = {}
  BY <1>2 DEF Allowed, LockOps
<1>11. \A l \in Lines : Op("Fetch_Lock_D", l) \notin done
  BY <1>2, <1>8 DEF Op
<1>12. DataStep(done)
  BY <1>1, <1>6, <1>7, <1>9, <1>10, <1>11, ExchangeStep
<1> QED BY <1>4, <1>7, <1>8, <1>12

LEMMA DataOpKeeps == ASSUME IInv, DataOp PROVE IInv'
<1>1. /\ ScalarsOK /\ CacheOK /\ DataOK /\ InstructionsOK /\ k0 \in Coherencies
      /\ UNCHANGED <<icache, k0, given>>
  BY IInvParts DEF ScalarsOK, DataOp
<1>2. stores' = stores /\ InstructionsOK'
  BY <1>1 DEF DataOp, Goes, InstructionsOK, Contents, CacheLine, Placed
<1>3. PICK ops : ops = {Now}
  OBVIOUS
<1>4. ASSUME NEW o \in {"Hit_Writeback_Inv_D", "Index_Writeback_Inv_D", "Hit_Invalidate_D"}, Now.op = o
      PROVE  InstructionStep({Now})
  <2>1. \A l \in Lines, s \in Slots : ops \intersect Invalidating(s, l) = {}
    BY <1>3, <1>4 DEF Invalidating, Op
  <2>2. \A l \in Lines : Op("Fetch_Lock_I", l) \notin ops
    BY <1>3, <1>4 DEF Op
  <2>3. InstructionStep(ops)
    BY <1>1, <2>1, <2>2, InstructionsUnchanged
  <2> QED BY <1>3, <2>3
<1>5. CASE Goes("Hit_Writeback_Inv_D") /\ WritebackInvalidate(Hits(dcache, Now.at))
  <2>1. PICK ss : ss = Hits(dcache, Now.at)
    OBVIOUS
  <2>2. Now.op = "Hit_Writeback_Inv_D" /\ ss \subseteq Slots /\ WritebackInvalidate(ss)
    BY <1>5, <2>1 DEF Goes, Hits
  <2>3. \A l \in Lines : \A s \in Hits(dcache, l) : Now \in WritingBack(s, l) => s \in ss
    BY <2>1, <2>2 DEF WritingBack, Op
  <2>4. CacheOK' /\ DataStep({Now})
    BY <1>1, <1>5, <2>2, <2>3, WritebackStep
  <2> QED BY <1>1, <1>2, <1>4, <1>5, <2>2, <2>4, OperationKeeps
<1>6. CASE Goes("Index_Writeback_Inv_D") /\ WritebackInvalidate({Now.at})
  <2>1. PICK ss : ss = {Now.at}
    OBVIOUS
  <2>2. Now.op = "Index_Writeback_Inv_D" /\ Allowed(Now, todo, promise)
    BY <1>1, <1>6, GoesIs
  <2>3. ss \subseteq Slots /\ WritebackInvalidate(ss)
    BY <1>6, <2>1, <2>2 DEF Allowed
  <2>4. \A l \in Lines : \A s \in Hits(dcache, l) : Now \in WritingBack(s, l) => s \in ss
    BY <2>1, <2>2 DEF WritingBack, Op
  <2>5. CacheOK' /\ DataStep({Now})
    BY <1>1, <1>6, <2>3, <2>4, WritebackStep
  <2> QED BY <1>1, <1>2, <1>4, <1>6, <2>2, <2>5, OperationKeeps
<1>7. CASE /\ Goes("Hit_Invalidate_D")
           /\ dcache' = [s \in Slots |-> IF s \in Hits(dcache, Now.at) THEN Empty ELSE dcache[s]]
           /\ UNCHANGED <<mem, given>>
  <2>1. PICK ss : ss = Hits(dcache, Now.at)
    OBVIOUS
  <2>2. /\ Now.op = "Hit_Invalidate_D" /\ Allowed(Now, todo, promise)
        /\ UNCHANGED <<stores, last, given, k0>>
    BY <1>1, <1>7, GoesIs
  <2>3. promise.given \subseteq given
    BY <1>7 DEF IInv, Promised, Operations, Goes
  <2>4. ss \subseteq Slots /\ \A s \in ss, a \in Addresses : dcache[s].line = LineOf(a) => a \in given
    BY <2>1, <2>2, <2>3 DEF Allowed, Hits, Of
  <2>5. Dropped(ss)
    BY <1>7, <2>1, <2>4 DEF Dropped
  <2>6. CacheOK'
    BY <1>1, <2>2, <2>4, <2>5, DropKeeps
  <2>7. promise.memory = Nothing.memory /\ promise.dlocked = {}
    BY <2>2 DEF Allowed, LockOps
  <2>8. \A l \in Lines : Op("Fetch_Lock_D", l) \notin ops
    BY <1>3, <2>2 DEF Op
  <2>9. DataStep(ops)
    BY <1>1, <1>7, <2>7, <2>8, DropStep
  <2> QED BY <1>1, <1>2, <1>3, <1>4, <1>7, <2>2, <2>6, <2>9, OperationKeeps
<1> QED BY <1>5, <1>6, <1>7 DEF DataOp

LEMMA InstructionOpKeeps == ASSUME IInv, InstructionOp PROVE IInv'
<1>1. /\ ScalarsOK /\ CacheOK /\ DataOK /\ InstructionsOK /\ k0 \in Coherencies
      /\ UNCHANGED <<dcache, mem, k0, given>>
  BY IInvParts DEF ScalarsOK, InstructionOp
<1>2. PICK ops : ops = {Now}
  OBVIOUS
<1>3. PICK o : o \in InstructionOps /\ Goes(o)
  BY DEF InstructionOp, InstructionOps
<1>4. /\ Now.op = o /\ Allowed(Now, todo, promise) /\ UNCHANGED <<stores, last, given, k0>>
      /\ \A x \in Elements(todo) : x.op \in InstructionOps
  BY <1>1, <1>3, GoesIs
<1>5. CacheOK'
  BY <1>1, <1>4 DEF CacheOK, DataOK, Contents, CacheLine, Placed, Hits, Backed, Newest
<1>6. \A s \in Slots, l \in Lines : ops \intersect WritingBack(s, l) = {}
  BY <1>2, <1>3, <1>4 DEF WritingBack, Op, InstructionOps
<1>7. \A l \in Lines : Op("Fetch_Lock_D", l) \notin ops /\ Op("Fetch_Lock_I", l) \notin ops
  BY <1>2, <1>3, <1>4 DEF Op, InstructionOps
<1>8. DataStep(ops)
  BY <1>1, <1>6, <1>7, DataUnchanged
<1>9. promise.ilocked = {}
  BY <1>3, <1>4 DEF Allowed, LockOps, InstructionOps
<1>10. \A a \in Addresses : promise.memory[a] <= mem'[a]
  <2>1. \A s, l : Elements(todo) \intersect WritingBack(s, l) = {}
    BY <1>4 DEF WritingBack, Op, InstructionOps
  <2> QED BY <1>1, <2>1 DEF IInv, Promised, Written
<1>11. PICK ss : /\ ss \subseteq Slots /\ InvalidateI(ss)
                 /\ \A a \in Addresses, s \in Slots :
                      Now \in Invalidating(s, LineOf(a)) /\ icache[s].line = LineOf(a) => s \in ss
  <2>1. CASE Goes("Hit_Invalidate_I") /\ InvalidateI(Hits(icache, Now.at))
    <3>1. Now.op = "Hit_Invalidate_I"
      BY <2>1 DEF Goes
    <3>2. \A a \in Addresses, s \in Slots :
            Now \in Invalidating(s, LineOf(a)) /\ icache[s].line = LineOf(a) => s \in Hits(icache, Now.at)
      BY <3>1 DEF Invalidating, Op, Hits
    <3>3. Hits(icache, Now.at) \subseteq Slots
      BY DEF Hits
    <3> QED BY <2>1, <3>2, <3>3
  <2>2. CASE Goes("Index_Invalidate_I") /\ InvalidateI({Now.at})
    <3>1. Now.op = "Index_Invalidate_I" /\ Now.at \in Slots
      BY <1>4, <2>2 DEF Goes, Allowed
    <3>2. \A a \in Addresses, s \in Slots :
            Now \in Invalidating(s, LineOf(a)) /\ icache[s].line = LineOf(a) => s \in {Now.at}
      BY <3>1 DEF Invalidating, Op
    <3> QED BY <2>2, <3>1, <3>2
  <2> QED BY <2>1, <2>2 DEF InstructionOp
<1>12. PICK t, c : t \notin Slots /\ c = Empty
  BY OutOfSlots
<1>13. Invalidated(ss, t, c)
  <2>1. icache' = [s \in Slots |-> IF s = t THEN c ELSE IF s \in ss THEN Empty ELSE icache[s]]
    BY <1>11, <1>12 DEF InvalidateI
  <2> QED BY <1>11, <1>12, <2>1 DEF Invalidated
<1>14. InstructionsOK'
  BY <1>1, <1>4, <1>13, InvalidateKeeps
<1>15. \A a \in Addresses, s \in Slots :
         ops \intersect Invalidating(s, LineOf(a)) # {} =>
           /\ promise.memory[a] <= mem'[a] /\ t \notin Slots
           /\ icache[s].line = LineOf(a) => s \in ss
  BY <1>2, <1>10, <1>11, <1>12
<1>16. InstructionStep(ops)
  BY <1>1, <1>7, <1>9, <1>13, <1>15, InvalidateStep
<1> QED BY <1>1, <1>2, <1>3, <1>5, <1>8, <1>14, <1>16, OperationKeeps

LEMMA SynciKeeps == ASSUME IInv, Synci PROVE IInv'
<1>1. /\ ScalarsOK /\ CacheOK /\ DataOK /\ InstructionsOK /\ k0 \in Coherencies /\ Placed(dcache)
      /\ UNCHANGED <<k0, given>> /\ Goes("synci")
  BY IInvParts DEF ScalarsOK, Synci
<1>2. PICK ops, ss, is : ops = {Now} /\ ss = Hits(dcache, Now.at) /\ is = Hits(icache, Now.at)
  OBVIOUS
<1>3. /\ Now.op = "synci" /\ Allowed(Now, todo, promise) /\ UNCHANGED <<stores, last, given, k0>>
  BY <1>1, GoesIs
<1>4. /\ ss \subseteq Slots /\ WritebackInvalidate(ss) /\ is \subseteq Slots /\ InvalidateI(is)
  BY <1>2 DEF Hits, Synci
<1>5. \A l \in Lines : \A s \in Hits(dcache, l) : Now \in WritingBack(s, l) => s \in ss
  BY <1>2, <1>3 DEF WritingBack, Op
<1>6. /\ CacheOK' /\ DataStep({Now}) /\ WroteBack(ss)
      /\ \A a \in Addresses : mem[a] <= mem'[a]
  BY <1>1, <1>4, <1>5, WritebackStep
<1>7. PICK t, c : t \notin Slots /\ c = Empty
  BY OutOfSlots
<1>8. Invalidated(is, t, c)
  <2>1. icache' = [s \in Slots |-> IF s = t THEN c ELSE IF s \in is THEN Empty ELSE icache[s]]
    BY <1>4, <1>7 DEF InvalidateI
  <2> QED BY <1>4, <1>7, <2>1 DEF Invalidated
<1>9. InstructionsOK'
  BY <1>1, <1>3, <1>8, InvalidateKeeps
<1>10. promise.ilocked = {}
  BY <1>3 DEF Allowed, LockOps
<1>11. \A l \in Lines : Op("Fetch_Lock_I", l) \notin ops
  BY <1>2, <1>3 DEF Op
<1>12. ASSUME NEW a \in Addresses, NEW s \in Slots, ops \intersect Invalidating(s, LineOf(a)) # {}
       PROVE  /\ promise.memory[a] <= mem'[a] /\ t \notin Slots
              /\ icache[s].line = LineOf(a) => s \in is
  <2>1. Now.at = LineOf(a) /\ LineOf(a) \in Lines /\ a \in Of(LineOf(a))
    BY <1>2, <1>3, <1>12, LineOfIs DEF Invalidating, Op
  <2>2. mem[a] \in Nat /\ mem'[a] \in Nat /\ promise.memory[a] \in Nat /\ mem[a] <= mem'[a]
    <3>1. promise \in Promises /\ DataOK' /\ stores' = stores /\ stores \in Nat
      BY <1>1, <1>3, <1>6, Geometry DEF IInv, Promised, Operations, CacheOK, ScalarsOK
    <3> QED BY <1>1, <1>6, <3>1 DEF DataOK, Promises
  <2>3. promise.memory[a] <= mem'[a]
    <3>1. CASE promise.memory[a] <= mem[a]
      BY <2>2, <3>1
    <3>2. ASSUME NEW x \in Hits(dcache, LineOf(a)), dcache[x].dirty,
                 promise.memory[a] <= dcache[x].data[a]
          PROVE  promise.memory[a] <= mem'[a]
      <4>1. x \in ss /\ dcache[x].line = LineOf(a)
        BY <1>2, <2>1 DEF Hits
      <4>2. PICK y \in ss : /\ dcache[y].line = LineOf(a) /\ mem'[a] = dcache[y].data[a]
        BY <1>6, <3>2, <4>1 DEF WroteBack
      <4>3. y = x
        BY <1>1, <1>4, <2>1, <4>1, <4>2 DEF Placed, Hits
      <4> QED BY <3>2, <4>2, <4>3
    <3> QED BY <3>1, <3>2 DEF IInv, Promised, Written
  <2> QED BY <1>2, <1>7, <2>1, <2>3 DEF Hits
<1>13. InstructionStep(ops)
  BY <1>1, <1>8, <1>10, <1>11, <1>12, InvalidateStep
<1> QED BY <1>1, <1>2, <1>6, <1>9, <1>13, OperationKeeps

LEMMA InitCacheKeeps == ASSUME IInv, _pic32_init_cache PROVE IInv'
<1>1. /\ ScalarsOK /\ CacheOK /\ DataOK /\ InstructionsOK
      /\ dcache' = [s \in Slots |-> Empty] /\ icache' = [s \in Slots |-> Empty] /\ k0' = Now.at
      /\ UNCHANGED <<mem, given>> /\ Goes("init") /\ Now.op = "init"
  BY IInvParts DEF _pic32_init_cache, Goes
<1>2. todo # <<>> /\ Operations(todo, promise)
  BY <1>1 DEF Goes, IInv, Promised
<1>3. Now \in Elements(todo)
  BY <1>2, ElementsAre DEF Operations, Now
<1>4. Allowed(Now, todo, promise) /\ promise.given \subseteq given
  BY <1>2, <1>3 DEF Operations
<1>5. k0' \in Coherencies /\ promise.memory = Nothing.memory
      /\ promise.dlocked = {} /\ promise.ilocked = {} /\ promise.given = Addresses
  BY <1>1, <1>4 DEF Allowed, LockOps
<1>6. UNCHANGED <<stores, last, given>>
  BY <1>1 DEF Goes
<1>7. PICK ops, ss : ops = {Now} /\ ss = Slots
  OBVIOUS
<1>8. dcache' = [s \in Slots |-> IF s \in ss THEN Empty ELSE dcache[s]]
  BY <1>1, <1>7
<1>9. Dropped(ss)
  BY <1>1, <1>4, <1>5, <1>8 DEF Dropped
<1>10. CacheOK'
  BY <1>1, <1>6, <1>7, <1>9, DropKeeps
<1>11. \A l \in Lines : Op("Fetch_Lock_D", l) \notin ops /\ Op("Fetch_Lock_I", l) \notin ops
  BY <1>1, <1>7 DEF Op
<1>12. DataStep(ops)
  BY <1>1, <1>5, <1>11, DropStep
<1>13. PICK t, c : t \notin Slots /\ c = Empty
  BY OutOfSlots
<1>14. Invalidated(ss, t, c)
  <2>1. icache' = [s \in Slots |-> IF s = t THEN c ELSE IF s \in ss THEN Empty ELSE icache[s]]
    BY <1>1, <1>7, <1>13
  <2> QED BY <1>7, <1>13, <2>1 DEF Invalidated
<1>15. InstructionsOK'
  BY <1>1, <1>6, <1>14, InvalidateKeeps
<1>16. \A a \in Addresses, s \in Slots : ops \intersect Invalidating(s, LineOf(a)) = {}
  BY <1>1, <1>7 DEF Invalidating, Op
<1>17. InstructionStep(ops)
  BY <1>1, <1>5, <1>11, <1>14, <1>16, InvalidateStep
<1> QED BY <1>1, <1>5, <1>7, <1>10, <1>12, <1>15, <1>17, OperationKeeps

LEMMA SetK0Keeps == ASSUME IInv, SetK0 PROVE IInv'
<1>1. /\ ScalarsOK /\ CacheOK /\ DataOK /\ InstructionsOK /\ k0' = Now.at
      /\ UNCHANGED <<dcache, icache, mem, given>> /\ Goes("k0") /\ Now.op = "k0"
  BY IInvParts DEF SetK0, Goes
<1>2. todo # <<>> /\ Operations(todo, promise)
  BY <1>1 DEF Goes, IInv, Promised
<1>3. Now \in Elements(todo)
  BY <1>2, ElementsAre DEF Operations, Now
<1>4. k0' \in Coherencies /\ (k0' = DISABLE => k0 = DISABLE)
  BY <1>1, <1>2, <1>3 DEF Operations, Allowed
<1>5. UNCHANGED <<stores, last, given>>
  BY <1>1 DEF Goes
<1>6. CacheOK'
  BY <1>1, <1>4, <1>5 DEF CacheOK, DataOK, Contents, CacheLine, Placed, Hits, Backed, Newest
<1>7. InstructionsOK'
  BY <1>1, <1>5 DEF InstructionsOK, Contents, CacheLine, Placed
<1>8. PICK ops : ops = {Now}
  OBVIOUS
<1>9. /\ \A l \in Lines : Op("Fetch_Lock_D", l) \notin ops /\ Op("Fetch_Lock_I", l) \notin ops
      /\ \A l \in Lines, s \in Slots : ops \intersect WritingBack(s, l) = {}
      /\ \A l \in Lines, s \in Slots : ops \intersect Invalidating(s, l) = {}
  BY <1>1, <1>8 DEF Op, WritingBack, Invalidating
<1>10. DataStep(ops)
  BY <1>1, <1>9, DataUnchanged
<1>11. InstructionStep(ops)
  BY <1>1, <1>9, InstructionsUnchanged
<1> QED BY <1>1, <1>4, <1>6, <1>7, <1>8, <1>10, <1>11, OperationKeeps

LEMMA FetchLockKeeps == ASSUME IInv, FetchLock PROVE IInv'
<1>1. /\ ScalarsOK /\ CacheOK /\ DataOK /\ InstructionsOK /\ k0 \in Coherencies
      /\ UNCHANGED <<k0, given>>
  BY IInvParts DEF ScalarsOK, FetchLock
<1>2. Empty.line \notin Lines
  BY Geometry DEF Empty, Lines
<1>3. ASSUME NEW cache, NEW l \in Lines, NEW s \in LockSlots(cache, l), cache[s].line # l
      PROVE  /\ s \in SlotsFor(l) /\ Hits(cache, l) = {}
             /\ cache[s].locked => \A x \in SameSet(s) : cache[x].locked
  <2>1. s \in SlotsFor(l) /\ Hits(cache, l) = {} /\ (cache[s].locked => Full(cache, l))
    BY <1>3 DEF LockSlots, Hits
  <2>2. SameSet(s) = SlotsFor(l)
    BY <2>1 DEF SameSet, SlotsFor
  <2> QED BY <2>1, <2>2 DEF Full
<1>4. ASSUME NEW cache, NEW l, NEW s \in LockSlots(cache, l) PROVE s \in Slots
  BY DEF LockSlots, Hits, SlotsFor
<1>5. CASE /\ Goes("Fetch_Lock_D")
           /\ \/ \E s \in LockSlots(dcache, Now.at) :
                   IF dcache[s].line = Now.at
                   THEN dcache' = [dcache EXCEPT ![s].locked = TRUE] /\ UNCHANGED mem
                   ELSE /\ mem' = WrittenBack(s)
                        /\ dcache' = [dcache EXCEPT ![s] = [Fresh(Now.at) EXCEPT !.locked = TRUE]]
              \/ Full(dcache, Now.at) /\ UNCHANGED <<dcache, mem>>
           /\ UNCHANGED icache
  <2>1. /\ Now.op = "Fetch_Lock_D" /\ Now = Op("Fetch_Lock_D", Now.at)
        /\ Allowed(Now, todo, promise) /\ UNCHANGED <<stores, last, given, k0>>
    BY <1>1, <1>5, GoesIs
  <2>2. PICK l, ops, c : /\ l = Now.at /\ ops = {Op("Fetch_Lock_D", l)}
                         /\ c = [Fresh(l) EXCEPT !.locked = TRUE]
    OBVIOUS
  <2>3. l \in Lines /\ k0 # DISABLE /\ ops = {Now}
    BY <2>1, <2>2 DEF Allowed, LockOps
  <2>4. InstructionsOK'
    BY <1>1, <1>5, <2>1 DEF InstructionsOK, Contents, CacheLine, Placed
  <2>5. /\ \A k \in Lines : Op("Fetch_Lock_I", k) \notin ops
        /\ \A k \in Lines, s \in Slots : ops \intersect WritingBack(s, k) = {}
        /\ \A k \in Lines, s \in Slots : ops \intersect Invalidating(s, k) = {}
    BY <2>2 DEF Op, WritingBack, Invalidating
  <2>6. InstructionStep(ops)
    BY <1>5, <2>5, InstructionsUnchanged
  <2>7. CASE Full(dcache, l) /\ UNCHANGED <<dcache, mem>>
    <3>1. CacheOK'
      BY <1>1, <2>1, <2>7 DEF CacheOK, DataOK, Contents, CacheLine, Placed, Hits, Backed, Newest
    <3>2. \A k \in Lines : Op("Fetch_Lock_D", k) \in ops => Held(dcache, k)
      BY <2>2, <2>7 DEF Op, Full, Held
    <3>3. DataStep(ops)
      BY <1>1, <2>5, <2>7, <3>2, DataUnchanged
    <3> QED BY <1>1, <1>5, <2>3, <2>4, <2>6, <3>1, <3>3, OperationKeeps
  <2>8. SUFFICES ASSUME NEW s \in LockSlots(dcache, l),
                        IF dcache[s].line = l
                        THEN dcache' = [dcache EXCEPT ![s].locked = TRUE] /\ UNCHANGED mem
                        ELSE mem' = WrittenBack(s) /\ dcache' = [dcache EXCEPT ![s] = c]
                 PROVE  IInv'
    BY <1>5, <2>2, <2>7
  <2>9. s \in Slots
    BY <1>4
  <2>10. CASE dcache[s].line = l
    <3>1. dcache' = [dcache EXCEPT ![s].locked = TRUE] /\ mem' = mem /\ dcache[s] # Empty
      BY <1>2, <2>3, <2>8, <2>10
    <3>2. CacheOK' /\ dcache'[s].locked
          /\ \A x \in Slots :
               /\ dcache'[x].line = dcache[x].line /\ dcache'[x].dirty = dcache[x].dirty
               /\ dcache'[x].data = dcache[x].data /\ (dcache[x].locked => dcache'[x].locked)
      BY <1>1, <2>1, <2>9, <3>1, LockKeeps
    <3>3. DataStep(ops)
      BY <1>1, <2>2, <2>3, <2>9, <2>10, <3>1, <3>2, LockStep
    <3> QED BY <1>1, <1>5, <2>3, <2>4, <2>6, <3>2, <3>3, OperationKeeps
  <2>11. CASE dcache[s].line # l
    <3>1. /\ s \in SlotsFor(l) /\ Hits(dcache, l) = {}
          /\ dcache[s].locked => \A x \in SameSet(s) : dcache[x].locked
      BY <1>3, <2>3, <2>11
    <3>2. dcache' = [x \in Slots |-> IF x = s THEN c ELSE IF x \in {s} THEN Empty ELSE dcache[x]]
      BY <1>1, <2>8, <2>9, <2>11 DEF DataOK
    <3>3. WroteBack({s})
      BY <1>1, <2>8, <2>9, <2>11, WrittenBackIs
    <3>4. /\ c \in CacheLine(l) /\ c.line = l /\ ~c.dirty /\ c.locked
          /\ \A a \in Of(l) : c.data[a] = mem[a]
      BY <1>1, <2>2, <2>3, FreshIs
    <3>5. Exchanged({s}, s, c)
      BY <2>3, <2>9, <3>1, <3>2, <3>3, <3>4 DEF Exchanged
    <3>6. CacheOK' /\ \A a \in Addresses : mem[a] <= mem'[a]
      BY <1>1, <2>1, <3>5, ExchangeKeeps
    <3>7. \A k \in Lines : Op("Fetch_Lock_D", k) \in ops => s \in Slots /\ c.line = k /\ c.locked
      BY <2>2, <2>9, <3>4 DEF Op
    <3>8. \A k \in Lines : \A x \in Hits(dcache, k) : ops \intersect WritingBack(x, k) # {} => x \in {s}
      BY <2>5 DEF Hits
    <3>9. (\A x \in {s} : ~dcache[x].locked) \/ Replaces(dcache, {s}, s, c)
      BY <3>1, <3>4 DEF Replaces
    <3>10. DataStep(ops)
      BY <1>1, <3>5, <3>6, <3>7, <3>8, <3>9, ExchangeStep
    <3> QED BY <1>1, <1>5, <2>3, <2>4, <2>6, <3>6, <3>10, OperationKeeps
  <2> QED BY <2>10, <2>11
<1>6. CASE /\ Goes("Fetch_Lock_I")
           /\ \/ \E s \in LockSlots(icache, Now.at) :
                   icache' = [icache EXCEPT ![s] =
                                [IF @.line = Now.at THEN @ ELSE Fresh(Now.at) EXCEPT !.locked = TRUE]]
              \/ Full(icache, Now.at) /\ UNCHANGED icache
           /\ UNCHANGED <<dcache, mem>>
  <2>1. /\ Now.op = "Fetch_Lock_I" /\ Now = Op("Fetch_Lock_I", Now.at)
        /\ Allowed(Now, todo, promise) /\ UNCHANGED <<stores, last, given, k0>>
    BY <1>1, <1>6, GoesIs
  <2>2. PICK l, ops, c : /\ l = Now.at /\ ops = {Op("Fetch_Lock_I", l)}
                         /\ c = [Fresh(l) EXCEPT !.locked = TRUE]
    OBVIOUS
  <2>3. l \in Lines /\ ops = {Now}
    BY <2>1, <2>2 DEF Allowed, LockOps
  <2>4. CacheOK'
    BY <1>1, <1>6, <2>1 DEF CacheOK, DataOK, Contents, CacheLine, Placed, Hits, Backed, Newest
  <2>5. /\ \A k \in Lines : Op("Fetch_Lock_D", k) \notin ops
        /\ \A k \in Lines, s \in Slots : ops \intersect WritingBack(s, k) = {}
        /\ \A a \in Addresses, s \in Slots : ops \intersect Invalidating(s, LineOf(a)) = {}
    BY <2>2 DEF Op, WritingBack, Invalidating
  <2>6. DataStep(ops)
    BY <1>1, <1>6, <2>5, DataUnchanged
  <2>7. CASE Full(icache, l) /\ UNCHANGED icache
    <3>1. InstructionsOK'
      BY <1>1, <2>1, <2>7 DEF InstructionsOK, Contents, CacheLine, Placed
    <3>2. \A k \in Lines : Op("Fetch_Lock_I", k) \in ops => Held(icache, k)
      BY <2>2, <2>7 DEF Op, Full, Held
    <3>3. InstructionStep(ops)
      BY <2>2, <2>7, <3>2, InstructionsUnchanged DEF Op, Invalidating
    <3> QED BY <1>1, <1>6, <2>3, <2>4, <2>6, <3>1, <3>3, OperationKeeps
  <2>8. SUFFICES ASSUME NEW s \in LockSlots(icache, l),
                        icache' = [icache EXCEPT ![s] =
                          [IF icache[s].line = l THEN icache[s] ELSE Fresh(l) EXCEPT !.locked = TRUE]]
                 PROVE  IInv'
    BY <1>6, <2>2, <2>7
  <2>9. s \in Slots
    BY <1>4
  <2>10. CASE icache[s].line = l
    <3>1. icache' = [icache EXCEPT ![s].locked = TRUE] /\ icache[s] # Empty
      BY <1>2, <2>3, <2>8, <2>10
    <3>2. InstructionsOK' /\ icache'[s].locked
          /\ \A x \in Slots : icache'[x].line = icache[x].line /\ icache'[x].data = icache[x].data
                            /\ (icache[x].locked => icache'[x].locked)
      BY <1>1, <2>1, <2>9, <3>1, LockInstructionsKeeps
    <3>3. InstructionStep(ops)
      BY <2>2, <2>3, <2>9, <2>10, <3>2, LockInstructionsStep
    <3> QED BY <1>1, <1>6, <2>3, <2>4, <2>6, <3>2, <3>3, OperationKeeps
  <2>11. CASE icache[s].line # l
    <3>1. /\ s \in SlotsFor(l) /\ Hits(icache, l) = {}
          /\ icache[s].locked => \A x \in SameSet(s) : icache[x].locked
      BY <1>3, <2>3, <2>11
    <3>2. icache' = [icache EXCEPT ![s] = c]
      BY <2>2, <2>8, <2>11
    <3>3. icache' = [x \in Slots |-> IF x = s THEN c ELSE IF x \in {s} THEN Empty ELSE icache[x]]
      BY <1>1, <2>9, <3>2 DEF InstructionsOK
    <3>4. /\ c \in CacheLine(l) /\ c.line = l /\ ~c.dirty /\ c.locked
          /\ \A a \in Of(l) : c.data[a] = mem[a]
      BY <1>1, <2>2, <2>3, FreshIs
    <3>5. Invalidated({s}, s, c)
      BY <2>3, <2>9, <3>1, <3>3, <3>4 DEF Invalidated
    <3>6. InstructionsOK'
      BY <1>1, <2>1, <3>5, InvalidateKeeps
    <3>7. \A k \in Lines : Op("Fetch_Lock_I", k) \in ops => s \in Slots /\ c.line = k /\ c.locked
      BY <2>2, <2>9, <3>4 DEF Op
    <3>8. (\A x \in {s} : ~icache[x].locked) \/ Replaces(icache, {s}, s, c)
      BY <3>1, <3>4 DEF Replaces
    <3>9. InstructionStep(ops)
      BY <1>1, <2>5, <3>5, <3>7, <3>8, InvalidateStep
    <3> QED BY <1>1, <1>6, <2>3, <2>4, <2>6, <3>6, <3>9, OperationKeeps
  <2> QED BY <2>10, <2>11
<1> QED BY <1>5, <1>6, Zenon DEF FetchLock

-----------------------------------------------------------------------------
(* The operations each call is made of.                                    *)

All(o, ns) == {Op(o, n) : n \in ns}

LEMMA LoopIs ==
  ASSUME NEW o \in Kinds, NEW first \in Int, NEW last_ \in Int, first <= last_ + 1
  PROVE  /\ Loop(o, first, last_) \in Seq(Commands)
         /\ Elements(Loop(o, first, last_)) = All(o, first .. last_)
<1> DEFINE q == Loop(o, first, last_)
           m == last_ - first + 1
<1>1. m \in Nat /\ q = [i \in 1 .. m |-> Op(o, first + i - 1)]
  BY DEF Loop
<1> HIDE DEF q, m
<1>2. \A i \in 1 .. m : Op(o, first + i - 1) \in Commands
  BY <1>1 DEF Op, Commands
<1>3. q \in Seq(Commands) /\ Len(q) = m
  <2>1. q \in [1 .. m -> Commands]
    BY <1>1, <1>2
  <2>2. q \in Seq(Commands)
    BY <1>1, <2>1, SeqDef
  <2>3. DOMAIN q = 1 .. m /\ DOMAIN q = 1 .. Len(q) /\ Len(q) \in Nat
    BY <2>1, <2>2, LenProperties
  <2>4. Len(q) = m
    BY <1>1, <2>3
  <2> QED BY <2>2, <2>4
<1>4. ASSUME NEW x \in Elements(q) PROVE x \in All(o, first .. last_)
  <2>1. PICK i \in 1 .. m : x = Op(o, first + i - 1)
    BY <1>1, <1>3 DEF Elements
  <2>2. first + i - 1 \in first .. last_
    BY <1>1 DEF m
  <2> QED BY <2>1, <2>2 DEF All
<1>5. ASSUME NEW n \in first .. last_ PROVE Op(o, n) \in Elements(q)
  <2>1. PICK i \in Int : i = n - first + 1
    OBVIOUS
  <2>2. i \in 1 .. m /\ first + i - 1 = n
    BY <2>1 DEF m
  <2>3. q[i] = Op(o, n)
    BY <1>1, <2>2
  <2> QED BY <1>3, <2>2, <2>3 DEF Elements
<1>6. Elements(q) = All(o, first .. last_)
  BY <1>4, <1>5 DEF All
<1> QED BY <1>3, <1>6 DEF q

\* Operations of one kind, and of two kinds one after the other.
LEMMA OneKind ==
  ASSUME NEW q \in Seq(Commands), NEW o, NEW ns, Elements(q) = All(o, ns)
  PROVE  Sorted(q) /\ \A x \in Elements(q) : x.op = o /\ x.at \in ns
<1>1. \A x \in Elements(q) : x.op = o /\ x.at \in ns
  BY DEF All, Op
<1>2. \A i \in 1 .. Len(q) : q[i].op = o
  BY <1>1 DEF Elements
<1> QED BY <1>1, <1>2 DEF Sorted

LEMMA TwoKinds ==
  ASSUME NEW q \in Seq(Commands), NEW r \in Seq(Commands),
         \A x \in Elements(q) : x.op \notin InstructionOps,
         \A x \in Elements(r) : x.op \in InstructionOps
  PROVE  /\ q \o r \in Seq(Commands) /\ Elements(q \o r) = Elements(q) \union Elements(r)
         /\ Sorted(q \o r)
<1>1. /\ q \o r \in Seq(Commands) /\ Len(q) \in Nat /\ Len(r) \in Nat /\ Len(q \o r) = Len(q) + Len(r)
      /\ \A i \in 1 .. Len(q \o r) : (q \o r)[i] = IF i <= Len(q) THEN q[i] ELSE r[i - Len(q)]
  BY ConcatProperties, LenProperties
<1>2. ASSUME NEW i \in 1 .. Len(q \o r)
      PROVE  IF i <= Len(q) THEN (q \o r)[i] \in Elements(q) ELSE (q \o r)[i] \in Elements(r)
  <2>1. CASE i <= Len(q)
    <3>1. i \in 1 .. Len(q) /\ (q \o r)[i] = q[i]
      BY <1>1, <2>1
    <3> QED BY <2>1, <3>1 DEF Elements
  <2>2. CASE ~(i <= Len(q))
    <3>1. i - Len(q) \in 1 .. Len(r) /\ (q \o r)[i] = r[i - Len(q)]
      BY <1>1, <2>2
    <3> QED BY <2>2, <3>1 DEF Elements
  <2> QED BY <2>1, <2>2
<1>3. ASSUME NEW x \in Elements(q) PROVE x \in Elements(q \o r)
  <2>1. PICK i \in 1 .. Len(q) : x = q[i]
    BY DEF Elements
  <2>2. i \in 1 .. Len(q \o r) /\ (q \o r)[i] = x
    BY <1>1, <2>1
  <2> QED BY <2>2 DEF Elements
<1>4. ASSUME NEW x \in Elements(r) PROVE x \in Elements(q \o r)
  <2>1. PICK i \in 1 .. Len(r) : x = r[i]
    BY DEF Elements
  <2>2. PICK j \in Int : j = i + Len(q)
    BY <1>1
  <2>3. j \in 1 .. Len(q \o r) /\ (q \o r)[j] = r[j - Len(q)] /\ j - Len(q) = i
    BY <1>1, <2>2
  <2> QED BY <2>1, <2>3 DEF Elements
<1>5. Elements(q \o r) \subseteq Elements(q) \union Elements(r)
  BY <1>2 DEF Elements
<1>6. Elements(q \o r) = Elements(q) \union Elements(r)
  BY <1>3, <1>4, <1>5
<1>7. Sorted(q \o r)
  <2> SUFFICES ASSUME NEW i \in 1 .. Len(q \o r), NEW j \in 1 .. Len(q \o r), i < j,
                      (q \o r)[i].op \in InstructionOps
               PROVE  (q \o r)[j].op \in InstructionOps
    BY DEF Sorted
  <2>1. ~(i <= Len(q))
    BY <1>2
  <2>2. ~(j <= Len(q))
    BY <1>1, <2>1
  <2> QED BY <1>2, <2>2
<1> QED BY <1>1, <1>6, <1>7

LEMMA OneIs ==
  ASSUME NEW o \in Kinds, NEW n \in Int
  PROVE  /\ <<Op(o, n)>> \in Seq(Commands) /\ Sorted(<<Op(o, n)>>) /\ Len(<<Op(o, n)>>) = 1
         /\ \A x \in Elements(<<Op(o, n)>>) : x.op = o /\ x.at = n
<1>1. PICK q, x : x = Op(o, n) /\ q = <<x>>
  OBVIOUS
<1>2. x \in Commands /\ x.op = o /\ x.at = n
  BY <1>1 DEF Op, Commands
<1>3. q \in Seq(Commands) /\ Len(q) = 1 /\ q[1] = x
  BY <1>1, <1>2
<1>4. \A y \in Elements(q) : y = x
  BY <1>3 DEF Elements
<1>5. Sorted(q)
  BY <1>3 DEF Sorted
<1> QED BY <1>1, <1>2, <1>3, <1>4, <1>5

LEMMA FlushIs ==
  ASSUME NEW o \in Kinds, NEW size, size \div LINE = WAYS * LINES_PER_WAY
  PROVE  /\ Loop(o, 0, size \div LINE - 1) \in Seq(Commands)
         /\ Elements(Loop(o, 0, size \div LINE - 1)) = All(o, Slots)
<1>1. PICK n : n = size \div LINE - 1
  OBVIOUS
<1>2. n \in Int /\ 0 \in Int /\ 0 <= n + 1 /\ 0 .. n = Slots
  BY <1>1, Geometry DEF Slots
<1>3. /\ Loop(o, 0, n) \in Seq(Commands)
      /\ Elements(Loop(o, 0, n)) = All(o, 0 .. n)
  BY <1>2, LoopIs, Zenon
<1> QED BY <1>1, <1>2, <1>3

\* The loop over a range makes an operation for every line with a byte in it.
LinesOf(addr, len) == {LineOf(a) : a \in Bytes(addr, len)}

LEMMA OverIs ==
  ASSUME NEW r \in Ranges, NEW o \in Kinds
  PROVE  /\ Over(o, r[1], r[2]) \in Seq(Commands)
         /\ Elements(Over(o, r[1], r[2])) = All(o, LinesOf(r[1], r[2]))
         /\ Bytes(r[1], r[2]) \subseteq Addresses /\ LinesOf(r[1], r[2]) \subseteq Lines
<1>1. PICK addr, len : addr = r[1] /\ len = r[2]
  OBVIOUS
<1>2. /\ addr \in Nat /\ len \in Int /\ addr + len \in Nat /\ LINE * MEMORY \in Nat
      /\ addr <= LINE * MEMORY - 1 /\ addr + len <= LINE * MEMORY
  <2>1. LINE * MEMORY \in Nat
    BY Geometry
  <2>2. /\ r[1] \in 0 .. (LINE * MEMORY - 1) /\ r[2] \in Int /\ r[1] + r[2] \in 0 .. (LINE * MEMORY)
    BY CacheAssumption DEF CacheAssumption
  <2> QED BY <1>1, <2>1, <2>2
<1>3. Bytes(addr, len) \subseteq Addresses
  BY <1>2 DEF Bytes, Addresses
<1>4. LinesOf(addr, len) \subseteq Lines
  BY <1>3, LineOfIs DEF LinesOf
<1>5. CASE len <= 0
  <2>1. Bytes(addr, len) = {} /\ Over(o, addr, len) = <<>>
    BY <1>2, <1>5 DEF Bytes, Over
  <2>2. LinesOf(addr, len) = {} /\ Elements(<<>>) = {} /\ <<>> \in Seq(Commands)
    BY <2>1 DEF LinesOf, Elements
  <2> QED BY <1>1, <1>3, <1>4, <2>1, <2>2 DEF All
<1>6. CASE ~(len <= 0)
  <2>1. PICK e, f, g : e = addr + len - 1 /\ f = LineOf(addr) /\ g = LineOf(e)
    OBVIOUS
  <2>2. e \in Nat /\ addr <= e /\ addr \in Bytes(addr, len) /\ e \in Bytes(addr, len)
    BY <1>2, <1>6, <2>1 DEF Bytes
  <2>3. f \in Nat /\ g \in Nat /\ f <= g
    BY <1>2, <2>1, <2>2, LineOfMonotonic
  <2> f \in Int /\ g \in Int /\ f <= g + 1
    BY <2>3
  <2>4. Over(o, addr, len) = Loop(o, f, g)
    BY <1>2, <1>6, <2>1 DEF Over, Last_
  <2>5. /\ Loop(o, f, g) \in Seq(Commands)
        /\ Elements(Loop(o, f, g)) = All(o, f .. g)
    BY LoopIs, Zenon
  <2>6. ASSUME NEW a \in Bytes(addr, len) PROVE LineOf(a) \in f .. g
    <3>1. a \in Nat /\ addr <= a /\ a <= e
      BY <1>2, <2>1 DEF Bytes
    <3>2. LineOf(a) \in Nat /\ f <= LineOf(a) /\ LineOf(a) <= g
      BY <1>2, <2>1, <2>2, <3>1, LineOfMonotonic
    <3> QED BY <2>3, <3>2
  <2>7. ASSUME NEW n \in f .. g PROVE n \in LinesOf(addr, len)
    <3>1. n \in Nat /\ LINE * n \in Nat /\ LineOf(LINE * n) = n
      BY <2>3, LineStart
    <3>2. CASE n = f
      BY <2>1, <2>2, <3>2 DEF LinesOf
    <3>3. CASE n # f
      <4>1. ~(LINE * n <= addr)
        <5> SUFFICES ASSUME LINE * n <= addr PROVE FALSE
          OBVIOUS
        <5>1. n <= f
          BY <1>2, <2>1, <3>1, LineOfMonotonic
        <5> QED BY <2>3, <3>1, <3>3, <5>1
      <4>2. LINE * n <= e
        <5>1. CASE n = g
          <6>1. LINE * (e \div LINE) <= e
            BY <2>2, Geometry, Quotient
          <6> QED BY <2>1, <5>1, <6>1 DEF LineOf
        <5>2. CASE n # g
          <6> SUFFICES ASSUME ~(LINE * n <= e) PROVE FALSE
            OBVIOUS
          <6>1. e <= LINE * n
            BY <2>2, <3>1
          <6>2. g <= n
            BY <2>1, <2>2, <3>1, <6>1, LineOfMonotonic
          <6> QED BY <2>3, <3>1, <5>2, <6>2
        <5> QED BY <5>1, <5>2
      <4>3. LINE * n \in Bytes(addr, len)
        BY <1>2, <2>1, <2>2, <3>1, <4>1, <4>2 DEF Bytes
      <4> QED BY <3>1, <4>3 DEF LinesOf
    <3> QED BY <3>2, <3>3
  <2>8. LinesOf(addr, len) = f .. g
    BY <2>6, <2>7 DEF LinesOf
  <2> QED BY <1>1, <1>3, <1>4, <2>4, <2>5, <2>8
<1> QED BY <1>2, <1>5, <1>6

-----------------------------------------------------------------------------
(* What a call promises holds of the caches as it finds them.              *)

LEMMA LoadIs ==
  ASSUME IInv, NEW a \in Addresses
  PROVE  /\ Load(a) \in Nat /\ mem[a] \in Nat
         /\ \/ Load(a) = mem[a]
            \/ \E s \in Hits(dcache, LineOf(a)) : dcache[s].dirty /\ Load(a) = dcache[s].data[a]
         /\ a \notin given => Load(a) = last[a]
<1>1. ScalarsOK /\ DataOK /\ Backed /\ Newest /\ stores \in Nat
  BY IInvParts
<1>2. LineOf(a) \in Lines /\ a \in Of(LineOf(a)) /\ mem[a] \in Nat
  BY <1>1, LineOfIs DEF DataOK
<1>3. k0 = DISABLE => Hits(dcache, LineOf(a)) = {}
  BY <1>1, <1>2, Geometry DEF DataOK, Hits, Empty, Lines
<1>4. CASE Hits(dcache, LineOf(a)) = {}
  BY <1>1, <1>2, <1>4 DEF Load, Newest
<1>5. CASE Hits(dcache, LineOf(a)) # {}
  <2>1. PICK s : s \in Hits(dcache, LineOf(a)) /\ Load(a) = dcache[s].data[a]
    <3>1. (CHOOSE s \in Hits(dcache, LineOf(a)) : TRUE) \in Hits(dcache, LineOf(a))
      BY <1>5, Zenon
    <3> QED BY <1>3, <1>5, <3>1 DEF Load
  <2>2. s \in Slots /\ dcache[s].line = LineOf(a) /\ dcache[s] \in Contents
    BY <1>1, <2>1 DEF Hits, DataOK
  <2>3. dcache[s].data[a] \in Nat
    BY <1>1, <1>2, <2>2, ContentsAre DEF CacheLine
  <2>4. dcache[s].dirty \/ mem[a] = dcache[s].data[a]
    BY <1>1, <1>2, <2>2 DEF Backed
  <2> QED BY <1>1, <1>2, <2>1, <2>3, <2>4 DEF Newest
<1> QED BY <1>4, <1>5

LEMMA CallKeeps ==
  ASSUME IInv, NEW q \in Seq(Commands), NEW p \in Promises, Call(q, p),
         Sorted(q), \A x \in Elements(q) : Allowed(x, q, p),
         Written(q, p), Fetchable(q, p), Locked(q, p)
  PROVE  IInv'
<1>1. /\ ScalarsOK /\ CacheOK /\ InstructionsOK
      /\ calls < MAX_CALLS /\ calls' = calls + 1
      /\ todo' = q /\ promise' = p /\ given' = given \union p.given
      /\ UNCHANGED <<dcache, icache, mem, k0, last, stores>>
  BY IInvParts DEF Call, cacheVars
<1>2. ScalarsOK'
  <2>1. calls' \in 0 .. MAX_CALLS
    BY <1>1, Geometry DEF ScalarsOK
  <2>2. given' \subseteq Addresses
    BY <1>1 DEF ScalarsOK, Promises
  <2> QED BY <1>1, <2>1, <2>2 DEF ScalarsOK
<1>3. CacheOK'
  BY <1>1 DEF CacheOK, DataOK, Contents, CacheLine, Placed, Hits, Backed, Newest
<1>4. InstructionsOK'
  BY <1>1 DEF InstructionsOK, Contents, CacheLine, Placed
<1>5. Operations(todo, promise)'
  <2>1. \A x \in Elements(q) : Allowed(x, q, p)'
    BY <1>1 DEF Allowed
  <2> QED BY <1>1, <2>1 DEF Operations, Commands
<1>6. Written(todo, promise)'
  BY <1>1 DEF Written, Hits, WritingBack
<1>7. Fetchable(todo, promise)'
  BY <1>1 DEF Fetchable, Hits, Pending, Invalidating
<1>8. Locked(todo, promise)'
  BY <1>1 DEF Locked, Held, Hits
<1> QED BY <1>2, <1>3, <1>4, <1>5, <1>6, <1>7, <1>8, IInvParts DEF Promised

LEMMA AboutIs ==
  ASSUME IInv, NEW bytes
  PROVE  /\ About(bytes, Load) \in [Addresses -> Nat]
         /\ \A a \in Addresses : About(bytes, Load)[a] = IF a \in bytes THEN Load(a) ELSE 0
         /\ About(bytes, InMemory) \in [Addresses -> Nat]
         /\ \A a \in Addresses : About(bytes, InMemory)[a] = IF a \in bytes THEN mem[a] ELSE 0
<1>1. \A a \in Addresses : Load(a) \in Nat /\ mem[a] \in Nat
  BY LoadIs
<1> QED BY <1>1 DEF About, InMemory

LEMMA NothingIs ==
  /\ Nothing \in Promises /\ \A a \in Addresses : Nothing.memory[a] = 0 /\ Nothing.fetch[a] = 0
  /\ Nothing.dlocked = {} /\ Nothing.ilocked = {} /\ Nothing.given = {}
BY DEF Nothing, Promises

LEMMA WrittenCall ==
  ASSUME IInv, NEW q, NEW p, NEW bytes,
         \A a \in Addresses : p.memory[a] = IF a \in bytes THEN Load(a) ELSE 0,
         \A a \in bytes, s \in Slots : Elements(q) \intersect WritingBack(s, LineOf(a)) # {}
  PROVE  Written(q, p)
<1> SUFFICES ASSUME NEW a \in Addresses
             PROVE  p.memory[a] <= mem[a] \/ \E s \in Hits(dcache, LineOf(a)) :
                      /\ dcache[s].dirty /\ p.memory[a] <= dcache[s].data[a]
                      /\ Elements(q) \intersect WritingBack(s, LineOf(a)) # {}
  BY DEF Written
<1>1. /\ Load(a) \in Nat /\ mem[a] \in Nat
      /\ \/ Load(a) = mem[a]
         \/ \E s \in Hits(dcache, LineOf(a)) : dcache[s].dirty /\ Load(a) = dcache[s].data[a]
  BY LoadIs
<1> p.memory[a] = IF a \in bytes THEN Load(a) ELSE 0
  OBVIOUS
<1>2. CASE a \notin bytes \/ Load(a) = mem[a]
  <2>1. p.memory[a] = 0 \/ p.memory[a] = mem[a]
    BY <1>2
  <2> QED BY <1>1, <2>1
<1>3. ASSUME a \in bytes, NEW s \in Hits(dcache, LineOf(a)), dcache[s].dirty, Load(a) = dcache[s].data[a]
      PROVE  /\ dcache[s].dirty /\ p.memory[a] <= dcache[s].data[a]
             /\ Elements(q) \intersect WritingBack(s, LineOf(a)) # {}
  <2>1. p.memory[a] = dcache[s].data[a] /\ s \in Slots
    BY <1>3 DEF Hits
  <2> QED BY <1>1, <1>3, <2>1
<1> QED BY <1>1, <1>2, <1>3

LEMMA FetchableCall ==
  ASSUME IInv, NEW q, NEW p \in Promises, NEW bytes,
         \A a \in Addresses \ bytes : p.fetch[a] = 0,
         \A a \in Addresses : p.fetch[a] <= p.memory[a] \/ p.fetch[a] <= mem[a],
         \A a \in bytes, s \in Slots : Pending(q, s, LineOf(a))
  PROVE  Fetchable(q, p)
<1> SUFFICES ASSUME NEW a \in Addresses
             PROVE  /\ \/ p.fetch[a] <= mem[a]
                       \/ p.fetch[a] <= p.memory[a] /\ \A s \in Slots : Pending(q, s, LineOf(a))
                    /\ \A s \in Hits(icache, LineOf(a)) :
                         p.fetch[a] <= icache[s].data[a] \/ Pending(q, s, LineOf(a))
  BY DEF Fetchable
<1>1. mem[a] \in Nat
  BY LoadIs
<1>2. ASSUME NEW s \in Hits(icache, LineOf(a)) PROVE s \in Slots /\ icache[s].data[a] \in Nat
  <2>1. /\ s \in Slots /\ icache[s].line = LineOf(a) /\ icache[s] \in Contents
        /\ LineOf(a) \in Lines /\ a \in Of(LineOf(a)) /\ stores \in Nat
    BY IInvParts, LineOfIs DEF Hits, InstructionsOK
  <2> QED BY <2>1, ContentsAre DEF CacheLine
<1>3. CASE a \in bytes
  BY <1>2, <1>3
<1>4. CASE a \notin bytes
  <2>1. p.fetch[a] = 0
    BY <1>4
  <2> QED BY <1>1, <1>2, <2>1
<1> QED BY <1>3, <1>4

-----------------------------------------------------------------------------
(* The calls.                                                              *)

\* That make only operations which write back or invalidate: for the bytes written
\* and fetched.
Maintains(q, p, written, fetched) ==
  /\ p \in Promises /\ p.given = {} /\ p.dlocked = {} /\ p.ilocked = {}
  /\ \A x \in Elements(q) :
       /\ x.op \in InstructionOps \union {"Hit_Writeback_Inv_D", "synci", "Index_Writeback_Inv_D"}
       /\ x.op \in {"Index_Writeback_Inv_D", "Index_Invalidate_I"} => x.at \in Slots
  /\ \A a \in Addresses : p.memory[a] = IF a \in written THEN Load(a) ELSE 0
  /\ \A a \in written, s \in Slots : Elements(q) \intersect WritingBack(s, LineOf(a)) # {}
  /\ \A a \in Addresses \ fetched : p.fetch[a] = 0
  /\ \A a \in Addresses : p.fetch[a] <= p.memory[a] \/ p.fetch[a] <= mem[a]
  /\ \A a \in fetched, s \in Slots : Pending(q, s, LineOf(a))

LEMMA MaintenanceCall ==
  ASSUME IInv, NEW q \in Seq(Commands), NEW p, Call(q, p), Sorted(q),
         NEW written, NEW fetched, Maintains(q, p, written, fetched)
  PROVE  IInv'
<1>1. \A x \in Elements(q) : Allowed(x, q, p)
  BY DEF Maintains, Allowed, InstructionOps, LockOps
<1>2. Written(q, p)
  BY WrittenCall DEF Maintains
<1>3. p \in Promises
  BY DEF Maintains
<1>4. Fetchable(q, p)
  BY <1>3, FetchableCall DEF Maintains
<1>5. Locked(q, p)
  BY DEF Maintains, Locked
<1> QED BY <1>1, <1>2, <1>3, <1>4, <1>5, CallKeeps

\* That promise nothing of memory and of fetches.
LEMMA NoDataCall ==
  ASSUME IInv, NEW q, NEW p, p.memory = Nothing.memory, p.fetch = Nothing.fetch
  PROVE  Written(q, p) /\ Fetchable(q, p)
<1>1. \A a \in Addresses : p.memory[a] = 0 /\ p.fetch[a] = 0 /\ mem[a] \in Nat
  BY LoadIs, NothingIs
<1>2. ASSUME NEW a \in Addresses, NEW s \in Hits(icache, LineOf(a)) PROVE icache[s].data[a] \in Nat
  <2>1. /\ s \in Slots /\ icache[s].line = LineOf(a) /\ icache[s] \in Contents
        /\ LineOf(a) \in Lines /\ a \in Of(LineOf(a)) /\ stores \in Nat
    BY IInvParts, LineOfIs DEF Hits, InstructionsOK
  <2> QED BY <2>1, ContentsAre DEF CacheLine
<1> QED BY <1>1, <1>2 DEF Written, Fetchable

LEMMA RangeCallKeeps ==
  ASSUME IInv, NEW r \in Ranges, RangeCall(r[1], r[2])
  PROVE  IInv'
<1>1. PICK bytes, lines, given_ :
        /\ bytes = Bytes(r[1], r[2]) /\ lines = LinesOf(r[1], r[2])
        /\ given_ = UNION {Of(l) : l \in lines}
  OBVIOUS
<1>2. ASSUME NEW o \in Kinds
      PROVE  /\ Over(o, r[1], r[2]) \in Seq(Commands)
             /\ Elements(Over(o, r[1], r[2])) = All(o, lines)
             /\ bytes \subseteq Addresses /\ lines \subseteq Lines
  BY <1>1, <1>2, OverIs, Zenon
<1>lines. /\ bytes \subseteq Addresses /\ lines \subseteq Lines /\ given_ \subseteq Addresses
       /\ \A a \in bytes : LineOf(a) \in lines
  <2>1. "synci" \in Kinds
    BY DEF Kinds
  <2> QED BY <1>1, <1>2, <2>1 DEF LinesOf, Of
<1>3. PICK read, found : read = About(bytes, Load) /\ found = About(bytes, InMemory)
  OBVIOUS
<1>4. /\ read \in [Addresses -> Nat] /\ found \in [Addresses -> Nat]
      /\ \A a \in Addresses : read[a] = IF a \in bytes THEN Load(a) ELSE 0
      /\ \A a \in Addresses : found[a] = IF a \in bytes THEN mem[a] ELSE 0
  BY <1>3, AboutIs
<1>5. \A a \in Addresses : Load(a) \in Nat /\ mem[a] \in Nat
  BY LoadIs
<1>6. PICK both, memory, fetch, dropped, ilocked, dlocked :
        /\ both = [Nothing EXCEPT !.memory = read, !.fetch = read]
        /\ memory = [Nothing EXCEPT !.memory = read]
        /\ fetch = [Nothing EXCEPT !.fetch = found]
        /\ dropped = [Nothing EXCEPT !.given = given_]
        /\ ilocked = [Nothing EXCEPT !.ilocked = lines]
        /\ dlocked = [Nothing EXCEPT !.dlocked = lines]
  OBVIOUS
<1>7. \/ Call(SYS_DEVCON_CacheClean(r[1], r[2]), both)
      \/ Call(SYS_DEVCON_CacheSync(r[1], r[2]), both)
      \/ Call(SYS_DEVCON_DataCacheClean(r[1], r[2]), memory)
      \/ Call(SYS_DEVCON_InstructionCacheInvalidate(r[1], r[2]), fetch)
      \/ Call(SYS_DEVCON_DataCacheInvalidate(r[1], r[2]), dropped)
      \/ Call(SYS_DEVCON_InstructionCacheLock(r[1], r[2]), ilocked)
      \/ k0 # DISABLE /\ Call(SYS_DEVCON_DataCacheLock(r[1], r[2]), dlocked)
  BY <1>1, <1>3, <1>6, Zenon DEF RangeCall, LinesOf
<1>8. PICK wb, inv, ii, sy, li, ld :
        /\ wb = Over("Hit_Writeback_Inv_D", r[1], r[2]) /\ inv = Over("Hit_Invalidate_D", r[1], r[2])
        /\ ii = Over("Hit_Invalidate_I", r[1], r[2]) /\ sy = Over("synci", r[1], r[2])
        /\ li = Over("Fetch_Lock_I", r[1], r[2]) /\ ld = Over("Fetch_Lock_D", r[1], r[2])
  OBVIOUS
<1>9. /\ wb \in Seq(Commands) /\ Elements(wb) = All("Hit_Writeback_Inv_D", lines)
      /\ inv \in Seq(Commands) /\ Elements(inv) = All("Hit_Invalidate_D", lines)
      /\ ii \in Seq(Commands) /\ Elements(ii) = All("Hit_Invalidate_I", lines)
      /\ sy \in Seq(Commands) /\ Elements(sy) = All("synci", lines)
      /\ li \in Seq(Commands) /\ Elements(li) = All("Fetch_Lock_I", lines)
      /\ ld \in Seq(Commands) /\ Elements(ld) = All("Fetch_Lock_D", lines)
  BY <1>2, <1>8 DEF Kinds
<1>10. \A o, ns : \A x \in All(o, ns) : x.op = o /\ x.at \in ns
  BY DEF All, Op
<1>11. /\ Sorted(wb) /\ Sorted(inv) /\ Sorted(ii) /\ Sorted(sy) /\ Sorted(li) /\ Sorted(ld)
  BY <1>9, OneKind, Zenon
<1>12. /\ both.memory = read /\ both.fetch = read /\ both.given = {}
       /\ both.dlocked = {} /\ both.ilocked = {} /\ both \in Promises
       /\ memory.memory = read /\ memory.fetch = Nothing.fetch /\ memory.given = {}
       /\ memory.dlocked = {} /\ memory.ilocked = {} /\ memory \in Promises
       /\ fetch.memory = Nothing.memory /\ fetch.fetch = found /\ fetch.given = {}
       /\ fetch.dlocked = {} /\ fetch.ilocked = {} /\ fetch \in Promises
  BY <1>4, <1>6 DEF Nothing, Promises
<1>13. /\ dropped.memory = Nothing.memory /\ dropped.fetch = Nothing.fetch /\ dropped.given = given_
       /\ dropped.dlocked = {} /\ dropped.ilocked = {} /\ dropped \in Promises
       /\ ilocked.memory = Nothing.memory /\ ilocked.fetch = Nothing.fetch /\ ilocked.given = {}
       /\ ilocked.dlocked = {} /\ ilocked.ilocked = lines /\ ilocked \in Promises
       /\ dlocked.memory = Nothing.memory /\ dlocked.fetch = Nothing.fetch /\ dlocked.given = {}
       /\ dlocked.dlocked = lines /\ dlocked.ilocked = {} /\ dlocked \in Promises
  BY <1>lines, <1>6 DEF Nothing, Promises
<1>14. \A a \in Addresses : Nothing.memory[a] = 0 /\ Nothing.fetch[a] = 0
  BY NothingIs
\* What an operation for each line of the range does for each byte of it.
<1>15. ASSUME NEW a \in bytes, NEW s \in Slots, NEW q
       PROVE  /\ All("Hit_Writeback_Inv_D", lines) \subseteq Elements(q) =>
                   Elements(q) \intersect WritingBack(s, LineOf(a)) # {}
              /\ All("synci", lines) \subseteq Elements(q) =>
                   Elements(q) \intersect WritingBack(s, LineOf(a)) # {} /\ Pending(q, s, LineOf(a))
              /\ All("Hit_Invalidate_I", lines) \subseteq Elements(q) => Pending(q, s, LineOf(a))
  <2>1. LineOf(a) \in lines
    BY <1>lines
  <2>2. \A o : Op(o, LineOf(a)) \in All(o, lines)
    BY <2>1 DEF All
  <2> QED BY <2>2 DEF WritingBack, Pending, Invalidating
<1>16. CASE Call(SYS_DEVCON_CacheClean(r[1], r[2]), both)
  <2>1. PICK q : q = wb \o ii
    OBVIOUS
  <2>2. Call(q, both)
    BY <1>8, <1>16, <2>1 DEF SYS_DEVCON_CacheClean, _pic32_clean_cache, _pic32_clean_dcache,
                             _pic32_clean_icache
  <2>3. q \in Seq(Commands) /\ Elements(q) = Elements(wb) \union Elements(ii) /\ Sorted(q)
    <3>1. /\ \A x \in Elements(wb) : x.op \notin InstructionOps
          /\ \A x \in Elements(ii) : x.op \in InstructionOps
      BY <1>9, <1>10 DEF InstructionOps
    <3> QED BY <1>9, <2>1, <3>1, TwoKinds, Zenon
  <2>4. \A x \in Elements(q) : x.op \in {"Hit_Writeback_Inv_D", "Hit_Invalidate_I"}
    BY <1>9, <1>10, <2>3
  <2>5. \A a \in bytes, s \in Slots :
          Elements(q) \intersect WritingBack(s, LineOf(a)) # {} /\ Pending(q, s, LineOf(a))
    BY <1>9, <1>15, <2>3
  <2>6. /\ \A a \in Addresses \ bytes : both.fetch[a] = 0
        /\ \A a \in Addresses : both.fetch[a] <= both.memory[a]
    BY <1>4, <1>5, <1>12
  <2>7. Maintains(q, both, bytes, bytes)
    BY <1>4, <1>12, <2>4, <2>5, <2>6 DEF Maintains, InstructionOps
  <2> QED BY <2>2, <2>3, <2>7, MaintenanceCall
<1>17. CASE Call(SYS_DEVCON_CacheSync(r[1], r[2]), both)
  <2>1. Call(sy, both)
    BY <1>8, <1>17 DEF SYS_DEVCON_CacheSync, _pic32_sync_icache
  <2>2. \A x \in Elements(sy) : x.op = "synci"
    BY <1>9, <1>10
  <2>3. \A a \in bytes, s \in Slots :
          Elements(sy) \intersect WritingBack(s, LineOf(a)) # {} /\ Pending(sy, s, LineOf(a))
    BY <1>9, <1>15
  <2>4. /\ \A a \in Addresses \ bytes : both.fetch[a] = 0
        /\ \A a \in Addresses : both.fetch[a] <= both.memory[a]
    BY <1>4, <1>5, <1>12
  <2>5. Maintains(sy, both, bytes, bytes)
    BY <1>4, <1>12, <2>2, <2>3, <2>4 DEF Maintains
  <2> QED BY <1>9, <1>11, <2>1, <2>5, MaintenanceCall
<1>18. CASE Call(SYS_DEVCON_DataCacheClean(r[1], r[2]), memory)
  <2>1. Call(wb, memory)
    BY <1>8, <1>18 DEF SYS_DEVCON_DataCacheClean, _pic32_clean_dcache
  <2>2. \A x \in Elements(wb) : x.op = "Hit_Writeback_Inv_D"
    BY <1>9, <1>10
  <2>3. \A a \in bytes, s \in Slots : Elements(wb) \intersect WritingBack(s, LineOf(a)) # {}
    BY <1>9, <1>15
  <2>4. \A a \in Addresses : memory.fetch[a] = 0 /\ memory.fetch[a] <= mem[a]
    BY <1>5, <1>12, <1>14
  <2>5. PICK none : none = {}
    OBVIOUS
  <2>6. \A a \in none, s \in Slots : Pending(wb, s, LineOf(a))
    BY <2>5
  <2>7. Maintains(wb, memory, bytes, none)
    BY <1>4, <1>12, <2>2, <2>3, <2>4, <2>6 DEF Maintains
  <2> QED BY <1>9, <1>11, <2>1, <2>7, MaintenanceCall
<1>19. CASE Call(SYS_DEVCON_InstructionCacheInvalidate(r[1], r[2]), fetch)
  <2>1. Call(ii, fetch)
    BY <1>8, <1>19 DEF SYS_DEVCON_InstructionCacheInvalidate, _pic32_clean_icache
  <2>2. \A x \in Elements(ii) : x.op = "Hit_Invalidate_I"
    BY <1>9, <1>10
  <2>3. \A a \in bytes, s \in Slots : Pending(ii, s, LineOf(a))
    BY <1>9, <1>15
  <2>4. PICK none : none = {}
    OBVIOUS
  <2>5. /\ \A a \in Addresses : fetch.memory[a] = IF a \in none THEN Load(a) ELSE 0
        /\ \A a \in none, s \in Slots : Elements(ii) \intersect WritingBack(s, LineOf(a)) # {}
    BY <1>12, <1>14, <2>4
  <2>6. /\ \A a \in Addresses \ bytes : fetch.fetch[a] = 0
        /\ \A a \in Addresses : fetch.fetch[a] <= mem[a]
    BY <1>4, <1>5, <1>12
  <2>7. Maintains(ii, fetch, none, bytes)
    BY <1>12, <2>2, <2>3, <2>5, <2>6 DEF Maintains, InstructionOps
  <2> QED BY <1>9, <1>11, <2>1, <2>7, MaintenanceCall
<1>20. CASE Call(SYS_DEVCON_DataCacheInvalidate(r[1], r[2]), dropped)
  <2>1. Call(inv, dropped)
    BY <1>8, <1>20 DEF SYS_DEVCON_DataCacheInvalidate, _pic32_clean_dcache_nowrite
  <2>2. \A x \in Elements(inv) : x.op = "Hit_Invalidate_D" /\ x.at \in lines
    BY <1>9, <1>10
  <2>3. \A l \in lines : Of(l) \subseteq given_
    BY <1>1
  <2>4. \A x \in Elements(inv) : Allowed(x, inv, dropped)
    BY <1>13, <2>2, <2>3 DEF Allowed, LockOps
  <2>5. Written(inv, dropped) /\ Fetchable(inv, dropped)
    BY <1>13, NoDataCall
  <2>6. Locked(inv, dropped)
    BY <1>13 DEF Locked
  <2> QED BY <1>9, <1>11, <1>13, <2>1, <2>4, <2>5, <2>6, CallKeeps
<1>21. CASE Call(SYS_DEVCON_InstructionCacheLock(r[1], r[2]), ilocked)
  <2>1. Call(li, ilocked)
    BY <1>8, <1>21 DEF SYS_DEVCON_InstructionCacheLock, _pic32_lock_icache
  <2>2. \A x \in Elements(li) : x.op = "Fetch_Lock_I" /\ x.at \in lines
    BY <1>9, <1>10
  <2>3. \A x \in Elements(li) : Allowed(x, li, ilocked)
    BY <1>lines, <2>2 DEF Allowed, LockOps
  <2>4. Written(li, ilocked) /\ Fetchable(li, ilocked)
    BY <1>13, NoDataCall
  <2>5. Locked(li, ilocked)
    BY <1>9, <1>13 DEF Locked, All
  <2> QED BY <1>9, <1>11, <1>13, <2>1, <2>3, <2>4, <2>5, CallKeeps
<1>22. CASE k0 # DISABLE /\ Call(SYS_DEVCON_DataCacheLock(r[1], r[2]), dlocked)
  <2>1. Call(ld, dlocked) /\ k0 # DISABLE
    BY <1>8, <1>22 DEF SYS_DEVCON_DataCacheLock, _pic32_lock_dcache
  <2>2. \A x \in Elements(ld) : x.op = "Fetch_Lock_D" /\ x.at \in lines
    BY <1>9, <1>10
  <2>3. \A x \in Elements(ld) : Allowed(x, ld, dlocked)
    BY <1>lines, <2>1, <2>2 DEF Allowed, LockOps
  <2>4. Written(ld, dlocked) /\ Fetchable(ld, dlocked)
    BY <1>13, NoDataCall
  <2>5. Locked(ld, dlocked)
    BY <1>9, <1>13 DEF Locked, All
  <2> QED BY <1>9, <1>11, <1>13, <2>1, <2>3, <2>4, <2>5, CallKeeps
<1> QED BY <1>7, <1>16, <1>17, <1>18, <1>19, <1>20, <1>21, <1>22

LEMMA GlobalCallKeeps == ASSUME IInv, GlobalCall PROVE IInv'
<1>1. PICK read, found, both, memory, fetch, dropped, wb, ii, all, none :
        /\ read = About(Addresses, Load) /\ found = About(Addresses, InMemory)
        /\ both = [Nothing EXCEPT !.memory = read, !.fetch = read]
        /\ memory = [Nothing EXCEPT !.memory = read]
        /\ fetch = [Nothing EXCEPT !.fetch = found]
        /\ dropped = [Nothing EXCEPT !.given = Addresses]
        /\ wb = _pic32_flush_dcache /\ ii = _pic32_flush_icache
        /\ all = Addresses /\ none = {}
  OBVIOUS
<1>2. /\ read \in [Addresses -> Nat] /\ found \in [Addresses -> Nat]
      /\ \A a \in Addresses : read[a] = Load(a) /\ found[a] = mem[a]
                            /\ Load(a) \in Nat /\ mem[a] \in Nat /\ a \in all /\ a \notin none
  <2>1. /\ read \in [Addresses -> Nat] /\ found \in [Addresses -> Nat]
        /\ \A a \in Addresses : read[a] = IF a \in Addresses THEN Load(a) ELSE 0
        /\ \A a \in Addresses : found[a] = IF a \in Addresses THEN mem[a] ELSE 0
    BY <1>1, AboutIs
  <2> QED BY <1>1, <2>1, LoadIs
<1>3. /\ wb \in Seq(Commands) /\ Elements(wb) = All("Index_Writeback_Inv_D", Slots)
      /\ ii \in Seq(Commands) /\ Elements(ii) = All("Index_Invalidate_I", Slots)
  <2>1. "Index_Writeback_Inv_D" \in Kinds /\ "Index_Invalidate_I" \in Kinds
    BY DEF Kinds
  <2>2. PICK d, i : d = SYS_DEVCON_DataCacheSizeGet /\ i = SYS_DEVCON_InstructionCacheSizeGet
    OBVIOUS
  <2>3. d \div LINE = WAYS * LINES_PER_WAY /\ i \div LINE = WAYS * LINES_PER_WAY
    BY <2>2, SlotsOfSize
  <2>4. /\ Loop("Index_Writeback_Inv_D", 0, d \div LINE - 1) \in Seq(Commands)
        /\ Elements(Loop("Index_Writeback_Inv_D", 0, d \div LINE - 1)) = All("Index_Writeback_Inv_D", Slots)
        /\ Loop("Index_Invalidate_I", 0, i \div LINE - 1) \in Seq(Commands)
        /\ Elements(Loop("Index_Invalidate_I", 0, i \div LINE - 1)) = All("Index_Invalidate_I", Slots)
    BY <2>1, <2>3, FlushIs, Zenon
  <2> QED BY <1>1, <2>2, <2>4 DEF _pic32_flush_dcache, _pic32_flush_icache
<1>4. /\ Sorted(wb) /\ \A x \in Elements(wb) : x.op = "Index_Writeback_Inv_D" /\ x.at \in Slots
      /\ Sorted(ii) /\ \A x \in Elements(ii) : x.op = "Index_Invalidate_I" /\ x.at \in Slots
  BY <1>3, OneKind, Zenon
<1>5. /\ both.memory = read /\ both.fetch = read /\ both.given = {}
      /\ both.dlocked = {} /\ both.ilocked = {} /\ both \in Promises
      /\ memory.memory = read /\ memory.fetch = Nothing.fetch /\ memory.given = {}
      /\ memory.dlocked = {} /\ memory.ilocked = {} /\ memory \in Promises
      /\ fetch.memory = Nothing.memory /\ fetch.fetch = found /\ fetch.given = {}
      /\ fetch.dlocked = {} /\ fetch.ilocked = {} /\ fetch \in Promises
  BY <1>1, <1>2 DEF Nothing, Promises
<1>6. /\ dropped.memory = Nothing.memory /\ dropped.fetch = Nothing.fetch /\ dropped.given = Addresses
      /\ dropped.dlocked = {} /\ dropped.ilocked = {} /\ dropped \in Promises
  BY <1>1 DEF Nothing, Promises
\* What an operation for each slot does for each address.
<1>7. ASSUME NEW s \in Slots, NEW l, NEW q
      PROVE  /\ All("Index_Writeback_Inv_D", Slots) \subseteq Elements(q) =>
                  Elements(q) \intersect WritingBack(s, l) # {}
             /\ All("Index_Invalidate_I", Slots) \subseteq Elements(q) => Pending(q, s, l)
  <2>1. \A o : Op(o, s) \in All(o, Slots)
    BY DEF All
  <2> QED BY <2>1 DEF WritingBack, Pending, Invalidating
<1>8. CASE Call(SYS_DEVCON_CacheFlush, both)
  <2>1. PICK q : q = wb \o ii
    OBVIOUS
  <2>2. Call(q, both)
    BY <1>1, <1>8, <2>1 DEF SYS_DEVCON_CacheFlush, _pic32_flush_cache
  <2>3. q \in Seq(Commands) /\ Elements(q) = Elements(wb) \union Elements(ii) /\ Sorted(q)
    <3>1. /\ \A x \in Elements(wb) : x.op \notin InstructionOps
          /\ \A x \in Elements(ii) : x.op \in InstructionOps
      BY <1>4 DEF InstructionOps
    <3> QED BY <1>3, <2>1, <3>1, TwoKinds, Zenon
  <2>4. \A x \in Elements(q) : /\ x.op \in {"Index_Writeback_Inv_D", "Index_Invalidate_I"}
                               /\ x.at \in Slots
    BY <1>4, <2>3
  <2>5. \A a \in all, s \in Slots :
          Elements(q) \intersect WritingBack(s, LineOf(a)) # {} /\ Pending(q, s, LineOf(a))
    BY <1>3, <1>7, <2>3
  <2>6. /\ \A a \in Addresses \ all : both.fetch[a] = 0
        /\ \A a \in Addresses : /\ both.fetch[a] <= both.memory[a]
                                /\ both.memory[a] = IF a \in all THEN Load(a) ELSE 0
    BY <1>2, <1>5
  <2>7. Maintains(q, both, all, all)
    BY <1>5, <2>4, <2>5, <2>6 DEF Maintains, InstructionOps
  <2> QED BY <2>2, <2>3, <2>7, MaintenanceCall
<1>9. CASE Call(SYS_DEVCON_DataCacheFlush, memory)
  <2>1. Call(wb, memory)
    BY <1>1, <1>9 DEF SYS_DEVCON_DataCacheFlush
  <2>2. \A a \in all, s \in Slots : Elements(wb) \intersect WritingBack(s, LineOf(a)) # {}
    BY <1>3, <1>7
  <2>3. \A a \in Addresses : /\ memory.fetch[a] = 0 /\ memory.fetch[a] <= mem[a]
                             /\ memory.memory[a] = IF a \in all THEN Load(a) ELSE 0
    BY <1>2, <1>5, NothingIs
  <2>4. \A a \in none, s \in Slots : Pending(wb, s, LineOf(a))
    BY <1>1
  <2>5. Maintains(wb, memory, all, none)
    BY <1>4, <1>5, <2>2, <2>3, <2>4 DEF Maintains
  <2> QED BY <1>3, <1>4, <2>1, <2>5, MaintenanceCall
<1>10. CASE Call(SYS_DEVCON_InstructionCacheFlush, fetch)
  <2>1. Call(ii, fetch)
    BY <1>1, <1>10 DEF SYS_DEVCON_InstructionCacheFlush
  <2>2. \A a \in all, s \in Slots : Pending(ii, s, LineOf(a))
    BY <1>3, <1>7
  <2>3. /\ \A a \in Addresses : fetch.memory[a] = IF a \in none THEN Load(a) ELSE 0
        /\ \A a \in none, s \in Slots : Elements(ii) \intersect WritingBack(s, LineOf(a)) # {}
    BY <1>1, <1>5, NothingIs
  <2>4. /\ \A a \in Addresses \ all : fetch.fetch[a] = 0
        /\ \A a \in Addresses : fetch.fetch[a] <= mem[a]
    BY <1>2, <1>5
  <2>5. Maintains(ii, fetch, none, all)
    BY <1>4, <1>5, <2>2, <2>3, <2>4 DEF Maintains, InstructionOps
  <2> QED BY <1>3, <1>4, <2>1, <2>5, MaintenanceCall
<1>11. ASSUME NEW c \in Coherencies, Call(SYS_DEVCON_CacheInit(c), dropped) PROVE IInv'
  <2>1. PICK q : q = <<Op("init", c)>>
    OBVIOUS
  <2>2. Call(q, dropped)
    BY <1>11, <2>1 DEF SYS_DEVCON_CacheInit
  <2>3. /\ q \in Seq(Commands) /\ Sorted(q) /\ Len(q) = 1
        /\ \A x \in Elements(q) : x.op = "init" /\ x.at \in Coherencies
    BY <2>1, OneIs DEF Kinds, Coherencies
  <2>4. \A x \in Elements(q) : Allowed(x, q, dropped)
    BY <1>6, <2>3 DEF Allowed, LockOps
  <2>5. Written(q, dropped) /\ Fetchable(q, dropped)
    BY <1>6, NoDataCall
  <2>6. Locked(q, dropped)
    BY <1>6 DEF Locked
  <2> QED BY <1>6, <2>2, <2>3, <2>4, <2>5, <2>6, CallKeeps
<1>12. \/ Call(SYS_DEVCON_CacheFlush, both)
       \/ Call(SYS_DEVCON_DataCacheFlush, memory)
       \/ Call(SYS_DEVCON_InstructionCacheFlush, fetch)
       \/ \E c \in Coherencies : Call(SYS_DEVCON_CacheInit(c), dropped)
  BY <1>1, Zenon DEF GlobalCall
<1> QED BY <1>8, <1>9, <1>10, <1>11, <1>12

LEMMA CoherencyCallKeeps == ASSUME IInv, CoherencyCall PROVE IInv'
<1>1. PICK c \in Coherencies : /\ c = DISABLE => SYS_DEVCON_CacheCoherencyGet = DISABLE
                               /\ Call(SYS_DEVCON_CacheCoherencySet(c), Nothing)
  BY DEF CoherencyCall
<1>2. c = DISABLE => k0 = DISABLE
  BY <1>1, IInvParts DEF SYS_DEVCON_CacheCoherencyGet, ScalarsOK, Coherencies
<1>3. PICK q, p : q = <<Op("k0", c)>> /\ p = Nothing
  OBVIOUS
<1>4. Call(q, p)
  BY <1>1, <1>3 DEF SYS_DEVCON_CacheCoherencySet
<1>5. /\ q \in Seq(Commands) /\ Sorted(q) /\ Len(q) = 1
      /\ \A x \in Elements(q) : x.op = "k0" /\ x.at = c
  BY <1>3, OneIs DEF Kinds, Coherencies
<1>6. /\ p \in Promises /\ p.memory = Nothing.memory /\ p.fetch = Nothing.fetch
      /\ p.dlocked = {} /\ p.ilocked = {}
  BY <1>3, NothingIs
<1>7. \A x \in Elements(q) : Allowed(x, q, p)
  BY <1>2, <1>5, <1>6 DEF Allowed, LockOps
<1>8. Written(q, p) /\ Fetchable(q, p)
  BY <1>6, NoDataCall
<1>9. Locked(q, p)
  BY <1>6 DEF Locked
<1> QED BY <1>4, <1>5, <1>6, <1>7, <1>8, <1>9, CallKeeps

-----------------------------------------------------------------------------
(* The invariant, and what it is for.                                      *)

LEMMA Initially == ASSUME Init PROVE IInv
<1>1. /\ dcache = [s \in Slots |-> Empty] /\ icache = [s \in Slots |-> Empty]
      /\ mem = [a \in Addresses |-> 0] /\ last = mem /\ k0 \in Coherencies
      /\ todo = <<>> /\ given = {} /\ promise = Nothing /\ stores = 0 /\ calls = 0
  BY DEF Init, WRITEBACK_WRITEALLOCATE, WRITETHROUGH_NO_WRITEALLOCATE, Coherencies
<1>2. Empty.line \notin Lines /\ ~Empty.dirty /\ Empty \in Contents
  BY Geometry DEF Empty, Lines, Contents
<1>3. ScalarsOK
  BY <1>1, Geometry DEF ScalarsOK
<1>4. \A l \in Lines : Hits(dcache, l) = {} /\ Hits(icache, l) = {}
  BY <1>1, <1>2 DEF Hits
<1>5. DataOK /\ InstructionsOK
  BY <1>1, <1>2, <1>4 DEF DataOK, InstructionsOK, Placed
<1>6. Backed
  BY <1>1, <1>2 DEF Backed
<1>7. Newest
  BY <1>1, <1>4, LineOfIs DEF Newest
<1>8. Operations(todo, promise)
  <2>1. todo \in Seq(Commands) /\ Elements(todo) = {} /\ Sorted(todo)
    BY <1>1 DEF Elements, Sorted
  <2> QED BY <1>1, <2>1, NothingIs DEF Operations
<1>9. \A a \in Addresses : promise.memory[a] <= mem[a] /\ promise.fetch[a] <= mem[a]
  BY <1>1, NothingIs
<1>10. Written(todo, promise)
  BY <1>9 DEF Written
<1>11. Fetchable(todo, promise)
  BY <1>4, <1>9, LineOfIs DEF Fetchable
<1>12. Locked(todo, promise)
  BY <1>1, NothingIs DEF Locked
<1> QED BY <1>3, <1>5, <1>6, <1>7, <1>8, <1>10, <1>11, <1>12, TypeParts DEF IInv, Promised

LEMMA Stutters == ASSUME IInv, UNCHANGED vars PROVE IInv'
<1>1. UNCHANGED <<dcache, icache, mem, k0, todo, last, given, promise, stores, calls>>
  BY DEF vars, cacheVars
<1>2. ScalarsOK' /\ CacheOK' /\ InstructionsOK'
  BY <1>1, IInvParts DEF ScalarsOK, CacheOK, DataOK, InstructionsOK, Contents, CacheLine, Placed,
                         Hits, Backed, Newest
<1>3. Promised(todo, promise)'
  BY <1>1 DEF IInv, Promised, Operations, Allowed, Written, Fetchable, Locked, Held, Pending,
              Hits, WritingBack, Invalidating
<1> QED BY <1>2, <1>3, IInvParts

LEMMA Invariant == Spec => []IInv
<1>1. Init => IInv
  BY Initially
<1>2. ASSUME IInv, [Next]_vars PROVE IInv'
  <2>1. CASE Processor
    BY <1>2, <2>1, FillKeeps, EvictKeeps, StoreKeepsAll DEF Processor
  <2>2. CASE Operation
    BY <1>2, <2>2, DataOpKeeps, InstructionOpKeeps, SynciKeeps, FetchLockKeeps, InitCacheKeeps,
       SetK0Keeps DEF Operation
  <2>3. CASE GlobalCall
    BY <1>2, <2>3, GlobalCallKeeps
  <2>4. CASE \E r \in Ranges : RangeCall(r[1], r[2])
    BY <1>2, <2>4, RangeCallKeeps
  <2>5. CASE CoherencyCall
    BY <1>2, <2>5, CoherencyCallKeeps
  <2>6. CASE UNCHANGED vars
    BY <1>2, <2>6, Stutters
  <2> QED BY <1>2, <2>1, <2>2, <2>3, <2>4, <2>5, <2>6 DEF Next
<1> QED BY <1>1, <1>2, PTL DEF Spec

\* A line is in one slot at most, of its set, and no instruction line is dirty, whatever
\* is cleaned, flushed, locked and initialised.
THEOREM TypeCorrect == Spec => []TypeOK
<1>1. IInv => TypeOK
  BY DEF IInv
<1> QED BY <1>1, Invariant, PTL

\* A load returns the last store, whatever maintenance goes on: only what a client
\* invalidates, or had before CacheInit, may be lost.
THEOREM LoadsAreFresh == Spec => []LoadsSeeStores
<1>1. IInv => LoadsSeeStores
  BY LoadIs DEF LoadsSeeStores
<1> QED BY <1>1, Invariant, PTL

\* When a call returns, memory and fetches have what the call is for, at least as new as
\* when it was called, and what it locks is in the cache, but for lines of a set that is
\* all locked.
THEOREM MaintenanceIsDone == Spec => []MaintenanceDone
<1>1. ASSUME IInv, todo = <<>>
      PROVE  /\ \A a \in Addresses : promise.memory[a] <= mem[a] /\ promise.fetch[a] <= Fetch(a)
             /\ \A l \in promise.dlocked : Held(dcache, l)
             /\ \A l \in promise.ilocked : Held(icache, l)
  <2>1. /\ Written(todo, promise) /\ Fetchable(todo, promise) /\ Locked(todo, promise)
        /\ Elements(todo) = {}
    BY <1>1 DEF IInv, Promised, Elements
  <2>2. ASSUME NEW a \in Addresses PROVE promise.memory[a] <= mem[a] /\ promise.fetch[a] <= Fetch(a)
    <3>1. PICK slot \in Slots : TRUE
      BY Geometry DEF Slots
    <3>2. /\ promise.memory[a] <= mem[a] /\ promise.fetch[a] <= mem[a]
          /\ \A s \in Hits(icache, LineOf(a)) : promise.fetch[a] <= icache[s].data[a]
      BY <2>1, <3>1 DEF Written, Fetchable, Pending
    <3>3. CASE Hits(icache, LineOf(a)) = {}
      BY <3>2, <3>3 DEF Fetch
    <3>4. CASE Hits(icache, LineOf(a)) # {}
      <4>1. PICK s : s \in Hits(icache, LineOf(a)) /\ Fetch(a) = icache[s].data[a]
        <5>1. (CHOOSE s \in Hits(icache, LineOf(a)) : TRUE) \in Hits(icache, LineOf(a))
          BY <3>4, Zenon
        <5> QED BY <3>4, <5>1 DEF Fetch
      <4> QED BY <3>2, <4>1
    <3> QED BY <3>2, <3>3, <3>4
  <2> QED BY <2>1, <2>2 DEF Locked
<1>2. IInv => MaintenanceDone
  BY <1>1 DEF MaintenanceDone
<1> QED BY <1>2, Invariant, PTL
=============================================================================
