-------------------------------- MODULE Pool --------------------------------
(***************************************************************************)
(* Fixed-size object pools that share one arena with each other and with   *)
(* plain allocations.                                                      *)
(*                                                                         *)
(* A pool reserves its whole region with one arena_alloc, hands slots out  *)
(* in order, and gives them back only all together: pool_reset rolls the   *)
(* arena back to the start of the region and reserves it again.  It keeps  *)
(* base_mark as it was, so the second reservation must land where the      *)
(* first did.  Whatever was taken from the arena after the pool, other     *)
(* pools included, goes with it (pool.h:60-63); the callers modelled here  *)
(* stop using those, and follow the list of unsafe patterns (pool.h:75).   *)
(***************************************************************************)
EXTENDS ArenaOps

CONSTANTS
  Pools,         \* Pool structs
  Base, Cap,     \* the arena's buffer
  ObjectSizes,   \* sizeof of the objects
  Counts,        \* max_objects asked for
  PlainSizes     \* plain allocations asked for

ASSUME PoolAssumption ==
  /\ Base \in Nat
  /\ Cap \in 1 .. UsizeMax /\ Base + Cap <= UsizeMax
  /\ ObjectSizes \subseteq 1 .. UsizeMax
  /\ Counts \subseteq 1 .. UsizeMax
  /\ PlainSizes \subseteq 1 .. UsizeMax

VARIABLES
  off,      \* the arena's offset
  plain,    \* plain blocks in callers' hands
  pool,     \* the Pool structs; live (ghost): its region is still its own
  dirty,    \* offsets of the bytes that may be other than zero
  clean,    \* ghost: per pool, the slots asked for zeroed and not written
  written   \* ghost: per pool, the bytes written since it was last emptied

vars == <<off, plain, pool, dirty, clean, written>>

-----------------------------------------------------------------------------
NoPool == [arena |-> FALSE, size |-> 0, cap |-> 0, used |-> 0,
           base |-> 0, end |-> 0, live |-> FALSE]

SlotAt(p, i) == pool[p].base + i * pool[p].size
Slot(p, i)   == Span(SlotAt(p, i), pool[p].size)

(* The region as pool_init and pool_reset compute it. *)
Reserved(p) == Mul(pool[p].size, pool[p].cap)

Init ==
  /\ off = 0
  /\ plain = {}
  /\ pool = [p \in Pools |-> NoPool]
  /\ dirty = Span(0, Cap)
  /\ clean = [p \in Pools |-> {}]
  /\ written = [p \in Pools |-> {}]

(* Without checked_mul. *)
MayReserve_Unchecked(size, n) ==
  /\ size # UsizeMax
  /\ Mul(size, n) <= Cap - off

(* The guards of pool_init that return before anything is written. *)
MayReserve(size, n) ==
  /\ size # UsizeMax
  /\ size * n <= UsizeMax
  /\ Mul(size, n) <= Cap - off

Opened(size, n, base, end, live) ==
  [arena |-> TRUE, size |-> size, cap |-> n, used |-> 0,
   base |-> base, end |-> end, live |-> live]

(* base_mark taken from arena_mark before the reservation. *)
InitPool_MarkBeforePadding(p, objectSize, n) ==
  LET size == MemAlign(objectSize)
      needed == Mul(size, n)
  IN
  /\ ~pool[p].live
  /\ MayReserve(size, n)
  /\ CanPlace(Base, Cap, off, needed, DefaultAlign)
  /\ off' = OffsetAfter(Base, off, needed, DefaultAlign)
  /\ pool' = [pool EXCEPT ![p] = Opened(size, n, off, off', TRUE)]
  /\ clean' = [clean EXCEPT ![p] = {}]
  /\ written' = [written EXCEPT ![p] = {}]
  /\ UNCHANGED <<plain, dirty>>

InitPool(p, objectSize, n) ==
  LET size == MemAlign(objectSize)
      needed == Mul(size, n)
  IN
  /\ ~pool[p].live
  /\ MayReserve(size, n)
  /\ CanPlace(Base, Cap, off, needed, DefaultAlign)
  /\ off' = OffsetAfter(Base, off, needed, DefaultAlign)
  /\ pool' = [pool EXCEPT
       ![p] = Opened(size, n, PlaceAt(Base, off, DefaultAlign), off', TRUE)]
  /\ clean' = [clean EXCEPT ![p] = {}]
  /\ written' = [written EXCEPT ![p] = {}]
  /\ UNCHANGED <<plain, dirty>>

(* arena_remaining does not count the padding: the reservation can still   *)
(* fail, after the fields are written.                                     *)
InitPoolFails(p, objectSize, n) ==
  LET size == MemAlign(objectSize)
      needed == Mul(size, n)
  IN
  /\ ~pool[p].live
  /\ MayReserve(size, n)
  /\ ~CanPlace(Base, Cap, off, needed, DefaultAlign)
  /\ pool' = [pool EXCEPT ![p] = Opened(size, n, @.base, @.end, FALSE)]
  /\ UNCHANGED <<off, plain, dirty, clean, written>>

(* Zeroes the slot it will hand out next. *)
PoolAlloc_ZeroAfterBump(p, zero) ==
  /\ pool[p].live
  /\ pool[p].used < pool[p].cap
  /\ pool' = [pool EXCEPT ![p].used = @ + 1]
  /\ dirty' = IF zero THEN dirty \ Slot(p, pool[p].used + 1) ELSE dirty
  /\ clean' = [clean EXCEPT ![p] = IF zero THEN @ \cup {pool[p].used} ELSE @]
  /\ UNCHANGED <<off, plain, written>>

(* pool_alloc, pool_alloc_zero and the try_ forms (which count the slot    *)
(* also when out is NULL).                                                 *)
PoolAlloc(p, zero) ==
  /\ pool[p].live
  /\ pool[p].used < pool[p].cap
  /\ pool' = [pool EXCEPT ![p].used = @ + 1]
  /\ dirty' = IF zero THEN dirty \ Slot(p, pool[p].used) ELSE dirty
  /\ clean' = [clean EXCEPT ![p] = IF zero THEN @ \cup {pool[p].used} ELSE @]
  /\ UNCHANGED <<off, plain, written>>

(* The holder of slot i, which pool_get finds again, writes it. *)
PoolWrite(p, i) ==
  /\ pool[p].live
  /\ i < pool[p].used
  /\ dirty' = dirty \cup Slot(p, i)
  /\ clean' = [clean EXCEPT ![p] = @ \ {i}]
  /\ written' = [written EXCEPT ![p] = @ \cup Slot(p, i)]
  /\ UNCHANGED <<off, plain, pool>>

PlainAlloc(size) ==
  /\ CanPlace(Base, Cap, off, size, DefaultAlign)
  /\ off' = OffsetAfter(Base, off, size, DefaultAlign)
  /\ plain' = plain \cup {[at |-> PlaceAt(Base, off, DefaultAlign), len |-> size]}
  /\ UNCHANGED <<pool, dirty, clean, written>>

PlainWrite(b) ==
  /\ dirty' = dirty \cup Span(b.at, b.len)
  /\ UNCHANGED <<off, plain, pool, clean, written>>

(* What pool_reset does to the arena and to what lies above the pool. *)
RollBack(p) ==
  /\ pool[p].arena /\ pool[p].live
  /\ pool[p].base <= off
  /\ CanPlace(Base, Cap, pool[p].base, Reserved(p), DefaultAlign)
  /\ off' = OffsetAfter(Base, pool[p].base, Reserved(p), DefaultAlign)
  /\ pool' = [q \in Pools |->
                IF q = p THEN [pool[p] EXCEPT !.used = 0]
                ELSE [pool[q] EXCEPT !.live = @ /\ pool[q].base < pool[p].base]]
  /\ plain' = {b \in plain : b.at < pool[p].base}
  /\ clean' = [q \in Pools |-> IF q # p /\ pool'[q].live THEN clean[q] ELSE {}]
  /\ written' = [q \in Pools |-> IF q # p /\ pool'[q].live THEN written[q] ELSE {}]

PoolReset(p) == RollBack(p) /\ UNCHANGED dirty

(* used is cleared before its slots are wiped. *)
PoolResetSecure_ResetFirst(p) == RollBack(p) /\ dirty' = dirty \ Span(pool[p].base, 0)

PoolResetSecure(p) ==
  /\ RollBack(p)
  /\ dirty' = dirty \ Span(pool[p].base, pool[p].size * pool[p].used)

(* arena_reset under the pools: all of them are given up. *)
ArenaReset ==
  /\ off' = 0
  /\ plain' = {}
  /\ pool' = [p \in Pools |-> [pool[p] EXCEPT !.live = FALSE]]
  /\ clean' = [p \in Pools |-> {}]
  /\ written' = [p \in Pools |-> {}]
  /\ UNCHANGED dirty

Next ==
  \/ \E p \in Pools, s \in ObjectSizes, n \in Counts :
       InitPool(p, s, n) \/ InitPoolFails(p, s, n)
  \/ \E p \in Pools, zero \in BOOLEAN : PoolAlloc(p, zero)
  \/ \E p \in Pools : \E i \in 0 .. pool[p].used - 1 : PoolWrite(p, i)
  \/ \E size \in PlainSizes : PlainAlloc(size)
  \/ \E b \in plain : PlainWrite(b)
  \/ \E p \in Pools : PoolReset(p) \/ PoolResetSecure(p)
  \/ ArenaReset

Spec == Init /\ [][Next]_vars

-----------------------------------------------------------------------------
TypeOK ==
  /\ off \in 0 .. Cap
  /\ plain \subseteq [at : 0 .. Cap - 1, len : PlainSizes]
  /\ pool \in [Pools -> [arena : BOOLEAN, size : Usize, cap : Usize, used : Usize,
                         base : 0 .. Cap, end : 0 .. Cap, live : BOOLEAN]]
  /\ dirty \subseteq Span(0, Cap)
  /\ clean \in [Pools -> SUBSET Usize]
  /\ written \in [Pools -> SUBSET Span(0, Cap)]

(* The slots and the plain blocks in callers' hands. *)
held ==
  {[at |-> b.at, len |-> b.len, align |-> DefaultAlign] : b \in plain}
    \cup UNION {{[at |-> SlotAt(p, i), len |-> pool[p].size, align |-> DefaultAlign]
                   : i \in 0 .. pool[p].used - 1} : p \in {q \in Pools : pool[q].live}}

Abstract == INSTANCE Allocator WITH
  Sizes  <- PlainSizes \cup {MemAlign(s) : s \in ObjectSizes},
  Aligns <- {DefaultAlign}

(* Slots and plain blocks are aligned, inside the buffer and apart from    *)
(* each other, however the pools and the callers share the arena.          *)
Implements == Abstract!Spec

(* A pool that is still its own can always be reset: the rollback is not   *)
(* ahead of the offset, the region fits again, and it lands at base_mark   *)
(* without padding and ends at end_mark (pool_reset's ensure_msg and the   *)
(* comment above it).                                                      *)
ResetLandsHome ==
  \A p \in Pools : pool[p].live =>
    /\ pool[p].base <= off
    /\ CanPlace(Base, Cap, pool[p].base, Reserved(p), DefaultAlign)
    /\ PlaceAt(Base, pool[p].base, DefaultAlign) = pool[p].base
    /\ OffsetAfter(Base, pool[p].base, Reserved(p), DefaultAlign) = pool[p].end

(* A slot from pool_alloc_zero holds zeroes until it is written: no write  *)
(* to another slot, pool or plain block reaches it.                        *)
ZeroSlotsClean ==
  \A p \in Pools : pool[p].live =>
    \A i \in clean[p] : Slot(p, i) \cap dirty = {}

(* pool_reset_secure wipes all that was written through the pool since it  *)
(* was last emptied.                                                       *)
SecureResetWipes ==
  [][\A p \in Pools : PoolResetSecure(p) => written[p] \cap dirty' = {}]_vars

(* pool.h:296: "On failure: pool is untouched; arena offset unchanged".    *)
FailedInitLeavesPool ==
  [][\A p \in Pools, s \in ObjectSizes, n \in Counts :
       InitPoolFails(p, s, n) => pool'[p] = pool[p] /\ off' = off]_vars

(* What pool_get checks of the address it computed. *)
GetAccepts(p, i) ==
  /\ pool[p].arena /\ i < pool[p].used
  /\ SlotAt(p, i) < pool[p].end

(* pool.h:528-529: pool_get "Always verifies the returned pointer falls    *)
(* within the reserved region - detects use-after-reset".                  *)
UseAfterResetDetected ==
  \A p \in Pools : \A i \in 0 .. pool[p].used - 1 :
    GetAccepts(p, i) => pool[p].live
=============================================================================
