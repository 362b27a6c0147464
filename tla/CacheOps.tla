------------------------------ MODULE CacheOps ------------------------------
(***************************************************************************)
(* The cache maintenance services, over a data and an instruction cache    *)
(* that fill and evict lines at any moment, while the program and its      *)
(* interrupt handlers store. What a store puts somewhere is its number, so *)
(* that a larger number is a later store.                                  *)
(***************************************************************************)
EXTENDS Integers, Sequences

CONSTANTS LINE,                  \* _pic32_get_dcache_linesize, of both caches
          WAYS, LINES_PER_WAY,   \* ..._associativity, ..._lines_per_way
          MEMORY,                \* lines of memory
          Ranges,                \* what clients pass: <<addr, len>>
          MAX_STORES, MAX_CALLS

ASSUME CacheAssumption ==
  /\ {LINE, WAYS, LINES_PER_WAY, MEMORY} \subseteq Nat \ {0}
  /\ MAX_STORES \in Nat /\ MAX_CALLS \in Nat
  /\ \A r \in Ranges : /\ r[1] \in 0..(LINE * MEMORY - 1) /\ r[2] \in Int
                       /\ r[1] + r[2] \in 0..(LINE * MEMORY)

Lines     == 0..(MEMORY - 1)
Addresses == 0..(LINE * MEMORY - 1)
LineOf(a) == a \div LINE
Of(l)     == {a \in Addresses : LineOf(a) = l}

\* A slot is a set and a way, as an index operation selects them by an address.
_pic32_get_cache_size == LINE * WAYS * LINES_PER_WAY
SYS_DEVCON_DataCacheSizeGet == _pic32_get_cache_size
SYS_DEVCON_InstructionCacheSizeGet == _pic32_get_cache_size
Slots == 0..(WAYS * LINES_PER_WAY - 1)
SlotsFor(l) == {s \in Slots : s % LINES_PER_WAY = l % LINES_PER_WAY}

\* SYS_CACHE_COHERENCY: how kseg0, where the program is, uses the data cache.
WRITETHROUGH_NO_WRITEALLOCATE == 0
WRITETHROUGH_WRITEALLOCATE == 1
DISABLE == 2
WRITEBACK_WRITEALLOCATE == 3
Coherencies == 0..3

VARIABLES dcache, icache,  \* what each slot holds
          mem,             \* memory: the number of the last store it has
          k0,              \* the coherency field of CP0 Config
          todo,            \* the cache operations a call is still to make
          last,            \* history: the last store to each address
          given,           \* history: addresses whose stores a client gave up
          promise,         \* history: what the call in progress, or just made, promises
          stores, calls

cacheVars == <<dcache, icache, mem, k0>>
vars == <<cacheVars, todo, last, given, promise, stores, calls>>

Empty == [line |-> -1, dirty |-> FALSE, locked |-> FALSE, data |-> <<>>]
Hits(cache, l) == {s \in Slots : cache[s].line = l}
Fresh(l) == [line |-> l, dirty |-> FALSE, locked |-> FALSE, data |-> [a \in Of(l) |-> mem[a]]]

\* What a load and a fetch of an address return.
Load(a) ==
  IF k0 # DISABLE /\ Hits(dcache, LineOf(a)) # {}
  THEN dcache[CHOOSE s \in Hits(dcache, LineOf(a)) : TRUE].data[a] ELSE mem[a]
Fetch(a) ==
  IF Hits(icache, LineOf(a)) # {}
  THEN icache[CHOOSE s \in Hits(icache, LineOf(a)) : TRUE].data[a] ELSE mem[a]

Nothing == [memory |-> [a \in Addresses |-> 0], fetch |-> [a \in Addresses |-> 0],
            dlocked |-> {}, ilocked |-> {}, given |-> {}]

Init ==
  /\ dcache = [s \in Slots |-> Empty] /\ icache = [s \in Slots |-> Empty]
  /\ mem = [a \in Addresses |-> 0] /\ last = mem
  /\ k0 \in {WRITEBACK_WRITEALLOCATE, WRITETHROUGH_NO_WRITEALLOCATE}
  /\ todo = <<>> /\ given = {} /\ promise = Nothing /\ stores = 0 /\ calls = 0

-----------------------------------------------------------------------------
(* The caches by themselves, and stores.                                   *)

WrittenBack(s) ==
  IF dcache[s].dirty THEN [a \in Addresses |-> IF a \in Of(dcache[s].line)
                                               THEN dcache[s].data[a] ELSE mem[a]]
  ELSE mem

\* What a call promised is looked at when it returns.
Kept == promise' = IF todo = <<>> THEN Nothing ELSE promise
FirstEmpty(cache, l) ==
  {s \in SlotsFor(l) : cache[s] = Empty /\ \A x \in SlotsFor(l) : x < s => cache[x] # Empty}

Fill ==
  /\ \E l \in Lines :
       \/ /\ k0 # DISABLE /\ Hits(dcache, l) = {}
          /\ \E s \in FirstEmpty(dcache, l) : dcache' = [dcache EXCEPT ![s] = Fresh(l)]
          /\ UNCHANGED icache
       \/ /\ Hits(icache, l) = {}
          /\ \E s \in FirstEmpty(icache, l) : icache' = [icache EXCEPT ![s] = Fresh(l)]
          /\ UNCHANGED dcache
  /\ Kept /\ UNCHANGED <<mem, k0, todo, last, given, stores, calls>>

Evict ==
  /\ \E s \in Slots :
       \/ /\ dcache[s] # Empty /\ ~dcache[s].locked
          /\ mem' = WrittenBack(s) /\ dcache' = [dcache EXCEPT ![s] = Empty]
          /\ UNCHANGED icache
       \/ /\ icache[s] # Empty /\ ~icache[s].locked
          /\ icache' = [icache EXCEPT ![s] = Empty]
          /\ UNCHANGED <<mem, dcache>>
  /\ Kept /\ UNCHANGED <<k0, todo, last, given, stores, calls>>

\* By the program, between calls, or by a handler in the middle of one.
Store(a) ==
  /\ stores < MAX_STORES
  /\ stores' = stores + 1 /\ last' = [last EXCEPT ![a] = stores']
  /\ given' = IF todo # <<>> /\ a \in promise.given THEN given ELSE given \ {a}
  /\ LET hits == IF k0 = DISABLE THEN {} ELSE Hits(dcache, LineOf(a))
     IN  /\ k0 \in {WRITETHROUGH_WRITEALLOCATE, WRITEBACK_WRITEALLOCATE} => hits # {}
         /\ dcache' = [s \in Slots |->
              IF s \in hits THEN [dcache[s] EXCEPT !.data[a] = stores',
                                    !.dirty = @ \/ k0 = WRITEBACK_WRITEALLOCATE]
              ELSE dcache[s]]
         /\ mem' = IF k0 = WRITEBACK_WRITEALLOCATE THEN mem ELSE [mem EXCEPT ![a] = stores']
  /\ Kept /\ UNCHANGED <<icache, k0, todo, calls>>

-----------------------------------------------------------------------------
(* The cache operations.                                                   *)

Op(o, n) == [op |-> o, at |-> n]
Now == Head(todo)
Goes(o) == todo # <<>> /\ Now.op = o /\ todo' = Tail(todo)
           /\ UNCHANGED <<last, promise, stores, calls>>

\* Hit_Writeback_Inv_D, Index_Writeback_Inv_D.
WritebackInvalidate(ss) ==
  /\ mem' = [a \in Addresses |->
       LET s == {x \in ss : dcache[x].dirty /\ a \in Of(dcache[x].line)}
       IN  IF s = {} THEN mem[a] ELSE dcache[CHOOSE x \in s : TRUE].data[a]]
  /\ dcache' = [s \in Slots |-> IF s \in ss THEN Empty ELSE dcache[s]]
InvalidateI(ss) == icache' = [s \in Slots |-> IF s \in ss THEN Empty ELSE icache[s]]

DataOp ==
  /\ \/ Goes("Hit_Writeback_Inv_D") /\ WritebackInvalidate(Hits(dcache, Now.at)) /\ UNCHANGED given
     \/ Goes("Index_Writeback_Inv_D") /\ WritebackInvalidate({Now.at}) /\ UNCHANGED given
     \/ /\ Goes("Hit_Invalidate_D")
        /\ dcache' = [s \in Slots |-> IF s \in Hits(dcache, Now.at) THEN Empty ELSE dcache[s]]
        /\ UNCHANGED <<mem, given>>
  /\ UNCHANGED <<icache, k0>>

InstructionOp ==
  /\ \/ Goes("Hit_Invalidate_I") /\ InvalidateI(Hits(icache, Now.at))
     \/ Goes("Index_Invalidate_I") /\ InvalidateI({Now.at})
  /\ UNCHANGED <<dcache, mem, k0, given>>

\* synci writes a data line back and invalidates the instruction line.
Synci ==
  /\ Goes("synci")
  /\ WritebackInvalidate(Hits(dcache, Now.at)) /\ InvalidateI(Hits(icache, Now.at))
  /\ UNCHANGED <<k0, given>>

\* Fetch_Lock_D, Fetch_Lock_I: a line not yet there goes into a slot that is not locked.
\* If its set has none, some locked line makes room for it, or it stays out.
Full(cache, l) == Hits(cache, l) = {} /\ \A s \in SlotsFor(l) : cache[s].locked
LockSlots(cache, l) ==
  IF Hits(cache, l) # {} THEN Hits(cache, l)
  ELSE {s \in SlotsFor(l) : cache[s].locked => Full(cache, l)}
FetchLock ==
  /\ \/ /\ Goes("Fetch_Lock_D")
        /\ \/ \E s \in LockSlots(dcache, Now.at) :
                IF dcache[s].line = Now.at
                THEN dcache' = [dcache EXCEPT ![s].locked = TRUE] /\ UNCHANGED mem
                ELSE /\ mem' = WrittenBack(s)
                     /\ dcache' = [dcache EXCEPT ![s] = [Fresh(Now.at) EXCEPT !.locked = TRUE]]
           \/ Full(dcache, Now.at) /\ UNCHANGED <<dcache, mem>>
        /\ UNCHANGED icache
     \/ /\ Goes("Fetch_Lock_I")
        /\ \/ \E s \in LockSlots(icache, Now.at) :
                icache' = [icache EXCEPT ![s] =
                             [IF @.line = Now.at THEN @ ELSE Fresh(Now.at) EXCEPT !.locked = TRUE]]
           \/ Full(icache, Now.at) /\ UNCHANGED icache
        /\ UNCHANGED <<dcache, mem>>
  /\ UNCHANGED <<k0, given>>

_pic32_init_cacheKeepsData ==   \* mutant: the data cache's tags are not cleared
  /\ Goes("init")
  /\ icache' = [s \in Slots |-> Empty]
  /\ k0' = Now.at
  /\ UNCHANGED <<dcache, mem, given>>
\* Every tag is cleared, with interrupts off.
_pic32_init_cache ==
  /\ Goes("init")
  /\ dcache' = [s \in Slots |-> Empty] /\ icache' = [s \in Slots |-> Empty]
  /\ k0' = Now.at
  /\ UNCHANGED <<mem, given>>

SetK0 ==
  /\ Goes("k0")
  /\ k0' = Now.at
  /\ UNCHANGED <<dcache, icache, mem, given>>

-----------------------------------------------------------------------------
(* The services. The loop over a range goes from the line of its first     *)
(* byte to the line of its last; there is none for an empty one.           *)

LastPastEnd(addr, len) == LineOf(addr + len)   \* mutant: the end is not moved back by one
Last_(addr, len)       == LineOf(addr + len - 1)
Loop(o, first, last_)  == [i \in 1..(last_ - first + 1) |-> Op(o, first + i - 1)]
Over(o, addr, len)     == IF len <= 0 THEN <<>> ELSE Loop(o, LineOf(addr), Last_(addr, len))

_pic32_clean_dcache(addr, len)         == Over("Hit_Writeback_Inv_D", addr, len)
_pic32_clean_dcache_nowrite(addr, len) == Over("Hit_Invalidate_D", addr, len)
_pic32_clean_icache(addr, len)         == Over("Hit_Invalidate_I", addr, len)
_pic32_clean_cacheInstructionsFirst(addr, len) ==   \* mutant: swapped order
  _pic32_clean_icache(addr, len) \o _pic32_clean_dcache(addr, len)
_pic32_clean_cache(addr, len) ==
  _pic32_clean_dcache(addr, len) \o _pic32_clean_icache(addr, len)

_pic32_flush_dcache == Loop("Index_Writeback_Inv_D", 0, SYS_DEVCON_DataCacheSizeGet \div LINE - 1)
_pic32_flush_icache == Loop("Index_Invalidate_I", 0, SYS_DEVCON_InstructionCacheSizeGet \div LINE - 1)
_pic32_flush_cache  == _pic32_flush_dcache \o _pic32_flush_icache
_pic32_sync_icache(addr, len) == Over("synci", addr, len)
_pic32_lock_dcache(addr, len) == Over("Fetch_Lock_D", addr, len)
_pic32_lock_icache(addr, len) == Over("Fetch_Lock_I", addr, len)

SYS_DEVCON_CacheInit(cacheCoherency) == <<Op("init", cacheCoherency)>>
SYS_DEVCON_CacheFlush                == _pic32_flush_cache
SYS_DEVCON_DataCacheFlush            == _pic32_flush_dcache
SYS_DEVCON_InstructionCacheFlush     == _pic32_flush_icache
SYS_DEVCON_CacheClean(addr, len)          == _pic32_clean_cache(addr, len)
SYS_DEVCON_DataCacheClean(addr, len)      == _pic32_clean_dcache(addr, len)
SYS_DEVCON_DataCacheInvalidate(addr, len) == _pic32_clean_dcache_nowrite(addr, len)
SYS_DEVCON_InstructionCacheInvalidate(addr, len) == _pic32_clean_icache(addr, len)
SYS_DEVCON_InstructionCacheLock(addr, len) == _pic32_lock_icache(addr, len)
SYS_DEVCON_DataCacheLock(addr, len)        == _pic32_lock_dcache(addr, len)
SYS_DEVCON_CacheSync(addr, len)            == _pic32_sync_icache(addr, len)
SYS_DEVCON_CacheCoherencySet(cacheCoherency) == <<Op("k0", cacheCoherency)>>
SYS_DEVCON_CacheCoherencyGet == k0 % 4

-----------------------------------------------------------------------------
(* Calls, and what each promises of the bytes it is about: numbers that    *)
(* memory, or a fetch, is at least to have.                                *)

Bytes(addr, len) == addr..(addr + len - 1)
About(as, value(_)) == [a \in Addresses |-> IF a \in as THEN value(a) ELSE 0]
InMemory(a) == mem[a]

Call(operations, promised) ==
  /\ todo = <<>> /\ calls < MAX_CALLS /\ calls' = calls + 1
  /\ todo' = operations /\ promise' = promised /\ given' = given \union promised.given
  /\ UNCHANGED <<cacheVars, last, stores>>

RangeCall(addr, len) ==
  LET as    == Bytes(addr, len)
      lines == {LineOf(a) : a \in as}
      both  == [Nothing EXCEPT !.memory = About(as, Load), !.fetch = About(as, Load)]
  IN
  \/ Call(SYS_DEVCON_CacheClean(addr, len), both)
  \/ Call(SYS_DEVCON_CacheSync(addr, len), both)
  \/ Call(SYS_DEVCON_DataCacheClean(addr, len), [Nothing EXCEPT !.memory = About(as, Load)])
  \/ Call(SYS_DEVCON_InstructionCacheInvalidate(addr, len),
          [Nothing EXCEPT !.fetch = About(as, InMemory)])
  \/ Call(SYS_DEVCON_DataCacheInvalidate(addr, len), [Nothing EXCEPT !.given = UNION {Of(l) : l \in lines}])
  \/ Call(SYS_DEVCON_InstructionCacheLock(addr, len), [Nothing EXCEPT !.ilocked = lines])
  \/ k0 # DISABLE /\ Call(SYS_DEVCON_DataCacheLock(addr, len), [Nothing EXCEPT !.dlocked = lines])

GlobalCall ==
  \/ Call(SYS_DEVCON_CacheFlush,
          [Nothing EXCEPT !.memory = About(Addresses, Load), !.fetch = About(Addresses, Load)])
  \/ Call(SYS_DEVCON_DataCacheFlush, [Nothing EXCEPT !.memory = About(Addresses, Load)])
  \/ Call(SYS_DEVCON_InstructionCacheFlush, [Nothing EXCEPT !.fetch = About(Addresses, InMemory)])
  \/ \E c \in Coherencies : Call(SYS_DEVCON_CacheInit(c), [Nothing EXCEPT !.given = Addresses])

\* It maintains no cache: it is for clients that do not turn caching off with lines
\* cached, which CacheInit can.
CoherencyCall ==
  \E c \in Coherencies :
    (c = DISABLE => SYS_DEVCON_CacheCoherencyGet = DISABLE)
    /\ Call(SYS_DEVCON_CacheCoherencySet(c), Nothing)

-----------------------------------------------------------------------------
Processor == Fill \/ Evict \/ \E a \in Addresses : Store(a)
Operation == DataOp \/ InstructionOp \/ Synci \/ FetchLock \/ _pic32_init_cache \/ SetK0
Next ==
  \/ Processor \/ Operation \/ GlobalCall
  \/ \E r \in Ranges : RangeCall(r[1], r[2])
  \/ CoherencyCall

Spec == Init /\ [][Next]_vars

-----------------------------------------------------------------------------
CacheLine(l) == [line : {l}, dirty : BOOLEAN, locked : BOOLEAN, data : [Of(l) -> 0..stores]]
Contents == {Empty} \union UNION {CacheLine(l) : l \in Lines}

(* Type invariant of the caches: a line is in one slot at most, of its set *)
(* and not dirty if it cannot be.                                          *)
TypeOK ==
  /\ k0 \in Coherencies /\ given \subseteq Addresses
  /\ mem \in [Addresses -> 0..stores] /\ last \in [Addresses -> 0..stores]
  /\ stores \in 0..MAX_STORES /\ calls \in 0..MAX_CALLS
  /\ dcache \in [Slots -> Contents] /\ icache \in [Slots -> Contents]
  /\ \A cache \in {dcache, icache}, l \in Lines :
       Hits(cache, l) \subseteq SlotsFor(l) /\ \A s, t \in Hits(cache, l) : s = t
  /\ k0 = DISABLE => dcache = [s \in Slots |-> Empty]
  /\ \A s \in Slots : ~icache[s].dirty

\* A load returns the last store, whatever maintenance goes on: only stores in the
\* lines of a range a client invalidates, or before CacheInit, may be lost. A range
\* that ends with a line does not reach the next one.
LoadsSeeStores == \A a \in Addresses \ given : Load(a) = last[a]

\* Line l is locked, or its set holds as many locked lines as it can.
Held(cache, l) ==
  \/ \E s \in Hits(cache, l) : cache[s].locked
  \/ \A s \in SlotsFor(l) : cache[s].locked

\* When a call returns, memory and instruction fetches have what the call is for, at
\* least as new as when it was called: though lines were filled and evicted, and
\* handlers stored, between its operations; and a range locked is in the cache, but for
\* lines of a set that is all locked.
MaintenanceDone ==
  todo = <<>> =>
    /\ \A a \in Addresses : promise.memory[a] <= mem[a] /\ promise.fetch[a] <= Fetch(a)
    /\ \A l \in promise.dlocked : Held(dcache, l)
    /\ \A l \in promise.ilocked : Held(icache, l)
=============================================================================
