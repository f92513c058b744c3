------------------------------ MODULE PoolProofs ------------------------------
(***************************************************************************)
(* Pools on one arena, for any number of pools and any sizes, alignments   *)
(* and orders of calls: a reset lands where the pool was, zeroed slots     *)
(* stay zero, a secure reset wipes all that was written, and the slots and *)
(* plain blocks in callers' hands are those of an allocator.               *)
(*                                                                         *)
(* ResetLandsHome is about one pool; what makes it last is how the regions *)
(* of different pools lie: apart, below the offset, each as long as its    *)
(* slots.  A rollback to one then keeps the regions below it whole.        *)
(***************************************************************************)
EXTENDS Pool, ArenaOpsProofs

PoolType ==
  [arena : BOOLEAN, size : Usize, cap : Usize, used : Usize,
   base : 0 .. Cap, end : 0 .. Cap, live : BOOLEAN]

(* The region of p, its slots in use and its ghosts. *)
Home(p) ==
  /\ pool[p].arena
  /\ pool[p].size \in 1 .. UsizeMax /\ pool[p].cap \in 1 .. UsizeMax
  /\ pool[p].used <= pool[p].cap
  /\ pool[p].size * pool[p].cap <= UsizeMax
  /\ pool[p].end = pool[p].base + pool[p].size * pool[p].cap
  /\ pool[p].end <= off
  /\ (Base + pool[p].base) % DefaultAlign = 0
  /\ pool[p].size % DefaultAlign = 0
  /\ clean[p] \subseteq 0 .. pool[p].used - 1
  /\ written[p] \subseteq Span(pool[p].base, pool[p].size * pool[p].used)

SizesAsked ==
  \A p \in Pools : pool[p].live => pool[p].size \in {MemAlign(s) : s \in ObjectSizes}

RegionsHome == \A p \in Pools : pool[p].live => Home(p)

RegionsApart ==
  \A p, q \in Pools : p # q /\ pool[p].live /\ pool[q].live =>
    pool[p].end <= pool[q].base \/ pool[q].end <= pool[p].base

PlainHome ==
  \A b \in plain : b.at + b.len <= off /\ (Base + b.at) % DefaultAlign = 0

PlainFromRegions ==
  \A b \in plain, p \in Pools : pool[p].live =>
    b.at + b.len <= pool[p].base \/ pool[p].end <= b.at

PlainsApart == \A b, c \in plain : b # c => b.at + b.len <= c.at \/ c.at + c.len <= b.at

Layout ==
  RegionsHome /\ RegionsApart /\ PlainHome /\ PlainFromRegions /\ PlainsApart /\ SizesAsked

IInv == TypeOK /\ Layout /\ ZeroSlotsClean

-----------------------------------------------------------------------------
LEMMA ConstantFacts ==
  /\ UsizeMax \in Nat /\ DefaultAlign \in 1 .. UsizeMax
  /\ Base \in Nat /\ Cap \in 1 .. UsizeMax /\ Cap \in Nat
  /\ ObjectSizes \subseteq 1 .. UsizeMax /\ Counts \subseteq 1 .. UsizeMax
  /\ PlainSizes \subseteq 1 .. UsizeMax
BY ArenaOpsAssumption, PoolAssumption

LEMMA Fields ==
  ASSUME TypeOK, NEW p \in Pools
  PROVE  /\ pool[p] \in PoolType
         /\ pool[p].size \in Nat /\ pool[p].cap \in Nat /\ pool[p].used \in Nat
         /\ pool[p].base \in 0 .. Cap /\ pool[p].end \in 0 .. Cap
         /\ pool[p].base \in Nat /\ pool[p].end \in Nat
         /\ pool[p].live \in BOOLEAN /\ pool[p].arena \in BOOLEAN
         /\ pool[p].used \in Usize
BY ConstantFacts DEF TypeOK, PoolType, Usize

LEMMA PlainFields ==
  ASSUME TypeOK, NEW b \in plain
  PROVE  b.at \in 0 .. Cap - 1 /\ b.at \in Nat /\ b.len \in PlainSizes /\ b.len \in Nat \ {0}
<1>1. b.at \in 0 .. Cap - 1 /\ b.len \in PlainSizes
  BY DEF TypeOK
<1>2. Cap \in Nat /\ UsizeMax \in Nat /\ PlainSizes \subseteq 1 .. UsizeMax
  BY ConstantFacts
<1>3. b.len \in 1 .. UsizeMax
  BY <1>1, <1>2
<1>4. QED
  BY <1>1, <1>2, <1>3

(* A slot lies in its pool's region. *)
LEMMA SlotInside ==
  ASSUME TypeOK, NEW p \in Pools, Home(p), NEW i \in 0 .. pool[p].cap - 1
  PROVE  /\ SlotAt(p, i) \in Nat
         /\ pool[p].base <= SlotAt(p, i)
         /\ SlotAt(p, i) + pool[p].size <= pool[p].end
<1>1. pool[p].size \in Nat /\ pool[p].cap \in Nat /\ pool[p].base \in Nat /\ i \in Nat /\ i < pool[p].cap
  BY Fields
<1>2. i * pool[p].size \in Nat /\ i * pool[p].size + pool[p].size <= pool[p].cap * pool[p].size
  BY <1>1, SlotEnds
<1>3. pool[p].end = pool[p].base + pool[p].cap * pool[p].size
  BY <1>1 DEF Home
<1> DEFINE t == i * pool[p].size
           u == pool[p].cap * pool[p].size
<1>4. t \in Nat /\ u \in Int /\ t + pool[p].size <= u /\ pool[p].end = pool[p].base + u
  BY <1>1, <1>2, <1>3
<1>5. SlotAt(p, i) = pool[p].base + t
  BY DEF SlotAt
<1> HIDE DEF t, u
<1>6. QED
  BY <1>1, <1>4, <1>5

(* Two slots of a pool share no byte. *)
LEMMA SlotsApart ==
  ASSUME TypeOK, NEW p \in Pools, Home(p), NEW i \in Nat, NEW j \in Nat, i < j
  PROVE  SlotAt(p, i) + pool[p].size <= SlotAt(p, j)
<1>1. pool[p].size \in Nat /\ pool[p].base \in Nat
  BY Fields
<1>2. i * pool[p].size \in Nat /\ i * pool[p].size + pool[p].size <= j * pool[p].size
  BY <1>1, SlotEnds
<1> DEFINE t == i * pool[p].size
           u == j * pool[p].size
<1>3. t \in Nat /\ u \in Int /\ t + pool[p].size <= u
  BY <1>1, <1>2
<1>4. SlotAt(p, i) = pool[p].base + t /\ SlotAt(p, j) = pool[p].base + u
  BY DEF SlotAt
<1> HIDE DEF t, u
<1>5. QED
  BY <1>1, <1>3, <1>4

(* A pool is home while its struct stays as it is and its region below the *)
(* offset.                                                                 *)
LEMMA HomeKept ==
  ASSUME NEW p \in Pools, Home(p), pool'[p] = pool[p], clean'[p] = clean[p],
         written'[p] = written[p], pool[p].end <= off'
  PROVE  Home(p)'
BY DEF Home

LEMMA InitIInv == Init => IInv
<1> SUFFICES ASSUME Init PROVE IInv
  OBVIOUS
<1>1. NoPool \in PoolType /\ NoPool.live = FALSE
  BY ConstantFacts DEF NoPool, PoolType, Usize
<1>2. \A p \in Pools : pool[p] = NoPool /\ pool[p].live = FALSE
  BY <1>1 DEF Init
<1>3. TypeOK
  BY <1>1, ConstantFacts DEF Init, TypeOK, PoolType, Span
<1>4. Layout
  BY <1>2 DEF Init, Layout, RegionsHome, RegionsApart, PlainHome, PlainFromRegions,
              PlainsApart, SizesAsked
<1>5. ZeroSlotsClean
  BY <1>2 DEF ZeroSlotsClean
<1>6. QED
  BY <1>3, <1>4, <1>5 DEF IInv

(* The rest of the invariant is what an accepted pool_init gives. *)
LEMMA Reservation ==
  ASSUME TypeOK, NEW s \in ObjectSizes, NEW n \in Counts, MayReserve(MemAlign(s), n)
  PROVE  /\ MemAlign(s) \in 1 .. UsizeMax /\ n \in 1 .. UsizeMax
         /\ MemAlign(s) % DefaultAlign = 0
         /\ Mul(MemAlign(s), n) = MemAlign(s) * n
         /\ MemAlign(s) * n \in 1 .. UsizeMax
<1>1. s \in 1 .. UsizeMax /\ n \in 1 .. UsizeMax /\ UsizeMax \in Nat
  BY ConstantFacts
<1>2. MemAlign(s) # UsizeMax /\ MemAlign(s) * n <= UsizeMax
  BY DEF MayReserve
<1>3. MemAlign(s) \in 1 .. UsizeMax /\ MemAlign(s) % DefaultAlign = 0
  BY <1>1, <1>2, MemAlignRounds
<1> DEFINE z == MemAlign(s)
<1>4. z \in Nat \ {0} /\ n \in Nat \ {0} /\ z * n <= UsizeMax
  BY <1>1, <1>2, <1>3
<1> HIDE DEF z
<1>5. z * n \in Nat \ {0}
  <2>1. PICK k \in Nat : z = k + 1
    <3>1. z - 1 \in Nat /\ z = (z - 1) + 1
      BY <1>4
    <3>2. QED
      BY <3>1
  <2>2. z * n = k * n + n /\ k * n \in Nat
    BY <1>4, <2>1
  <2>3. QED
    BY <1>4, <2>2
<1>6. Mul(z, n) = z * n
  BY <1>4, Unwrapped
<1>7. QED
  BY <1>1, <1>3, <1>4, <1>5, <1>6 DEF z

-----------------------------------------------------------------------------
(* An action that touches neither the plain blocks nor the offset and      *)
(* leaves the regions as they are.                                         *)
LEMMA SameLayout ==
  ASSUME IInv, plain' = plain, off' = off, RegionsHome', SizesAsked',
         \A q \in Pools : /\ pool'[q].live => pool[q].live
                         /\ pool'[q].base = pool[q].base /\ pool'[q].end = pool[q].end
  PROVE  Layout'
<1>1. RegionsApart'
  BY DEF IInv, Layout, RegionsApart
<1>2. PlainHome' /\ PlainFromRegions' /\ PlainsApart'
  BY DEF IInv, Layout, PlainHome, PlainFromRegions, PlainsApart
<1>3. QED
  BY <1>1, <1>2 DEF Layout

LEMMA InitPoolIInv ==
  ASSUME IInv, NEW p \in Pools, NEW s \in ObjectSizes, NEW n \in Counts, InitPool(p, s, n)
  PROVE  IInv'
<1> DEFINE z == MemAlign(s)
           needed == Mul(z, n)
           at == PlaceAt(Base, off, DefaultAlign)
           o == Opened(z, n, at, off', TRUE)
<1>1. TypeOK /\ Layout /\ ZeroSlotsClean
  BY DEF IInv
<1>2. /\ ~pool[p].live
      /\ MayReserve(z, n)
      /\ CanPlace(Base, Cap, off, needed, DefaultAlign)
      /\ off' = OffsetAfter(Base, off, needed, DefaultAlign)
      /\ pool' = [pool EXCEPT ![p] = o]
      /\ clean' = [clean EXCEPT ![p] = {}]
      /\ written' = [written EXCEPT ![p] = {}]
      /\ plain' = plain /\ dirty' = dirty
  BY DEF InitPool
<1>3. /\ z \in 1 .. UsizeMax /\ n \in 1 .. UsizeMax /\ z % DefaultAlign = 0
      /\ needed = z * n /\ needed \in 1 .. UsizeMax /\ z * n \in 1 .. UsizeMax
  BY <1>1, <1>2, Reservation
<1>4. off \in 0 .. Cap /\ Cap \in 0 .. UsizeMax /\ Cap \in Nat /\ UsizeMax \in Nat
      /\ Base \in Nat
  BY <1>1, ConstantFacts DEF TypeOK
<1>5. /\ at \in off .. Cap - 1 /\ off' = at + needed /\ off' \in 0 .. Cap
      /\ (Base + at) % DefaultAlign = 0
  BY <1>2, <1>3, <1>4, ConstantFacts, Placed
<1>6. /\ o.arena = TRUE /\ o.size = z /\ o.cap = n /\ o.used = 0
      /\ o.base = at /\ o.end = off' /\ o.live = TRUE
  BY DEF Opened
<1>7. o \in PoolType
  BY <1>3, <1>4, <1>5 DEF Opened, PoolType, Usize
<1>8. z \in {MemAlign(x) : x \in ObjectSizes}
  OBVIOUS
<1> HIDE DEF z, needed, at, o
<1>9. pool \in [Pools -> PoolType] /\ clean \in [Pools -> SUBSET Usize]
      /\ written \in [Pools -> SUBSET Span(0, Cap)]
  BY <1>1 DEF TypeOK, PoolType
<1>10. /\ pool'[p] = o /\ clean'[p] = {} /\ written'[p] = {}
       /\ \A q \in Pools : q # p => /\ pool'[q] = pool[q] /\ clean'[q] = clean[q]
                                    /\ written'[q] = written[q]
  BY <1>2, <1>9
<1>11. TypeOK'
  <2>1. pool' \in [Pools -> PoolType] /\ clean' \in [Pools -> SUBSET Usize]
        /\ written' \in [Pools -> SUBSET Span(0, Cap)]
    BY <1>2, <1>7, <1>9
  <2>2. QED
    BY <1>1, <1>2, <1>5, <2>1 DEF TypeOK, PoolType
<1>12. off <= off' /\ off' \in Nat /\ at \in Nat /\ off <= at
  BY <1>3, <1>4, <1>5
<1>13. \A q \in Pools : q # p /\ pool'[q].live =>
         pool[q].live /\ Home(q) /\ pool[q].end <= off /\ pool[q].end \in Nat /\ pool[q].base \in Nat
  BY <1>1, <1>10, Fields DEF Layout, RegionsHome, Home
<1>14. RegionsHome'
  <2> SUFFICES ASSUME NEW q \in Pools, pool'[q].live PROVE Home(q)'
    BY DEF RegionsHome
  <2>1. CASE q = p
    <3>1. z * 0 = 0
      BY <1>3
    <3>2. off' <= off'
      BY <1>12
    <3>3. QED
      BY <1>3, <1>5, <1>6, <1>10, <2>1, <3>1, <3>2 DEF Home
  <2>2. CASE q # p
    BY <1>4, <1>10, <1>12, <1>13, <2>2, HomeKept
  <2>3. QED
    BY <2>1, <2>2
<1>15. RegionsApart'
  <2> SUFFICES ASSUME NEW q \in Pools, NEW r \in Pools, q # r, pool'[q].live, pool'[r].live
               PROVE  pool'[q].end <= pool'[r].base \/ pool'[r].end <= pool'[q].base
    BY DEF RegionsApart
  <2>1. CASE q = p
    BY <1>4, <1>6, <1>10, <1>12, <1>13, <2>1
  <2>2. CASE r = p
    BY <1>4, <1>6, <1>10, <1>12, <1>13, <2>2
  <2>3. CASE q # p /\ r # p
    BY <1>1, <1>10, <1>13, <2>3 DEF Layout, RegionsApart
  <2>4. QED
    BY <2>1, <2>2, <2>3
<1>16. PlainHome' /\ PlainFromRegions' /\ PlainsApart'
  <2>1. \A b \in plain : /\ b.at \in Nat /\ b.len \in Nat /\ b.at + b.len <= off
                         /\ (Base + b.at) % DefaultAlign = 0
    BY <1>1, PlainFields DEF Layout, PlainHome
  <2>2. PlainHome'
    BY <1>2, <1>4, <1>12, <2>1 DEF PlainHome
  <2>3. ASSUME NEW b \in plain, NEW q \in Pools, pool'[q].live
        PROVE  b.at + b.len <= pool'[q].base \/ pool'[q].end <= b.at
    <3>1. CASE q = p
      BY <1>4, <1>6, <1>10, <1>12, <2>1, <3>1
    <3>2. CASE q # p
      <4>1. pool'[q] = pool[q] /\ pool[q].live
        BY <1>10, <1>13, <2>3, <3>2
      <4>2. b.at + b.len <= pool[q].base \/ pool[q].end <= b.at
        BY <1>1, <4>1 DEF Layout, PlainFromRegions
      <4>3. QED
        BY <4>1, <4>2
    <3>3. QED
      BY <3>1, <3>2
  <2>4. QED
    BY <1>1, <1>2, <2>2, <2>3 DEF Layout, PlainFromRegions, PlainsApart
<1>17. SizesAsked'
  BY <1>1, <1>6, <1>8, <1>10, <1>13 DEF Layout, SizesAsked
<1>18. ZeroSlotsClean'
  BY <1>1, <1>2, <1>10, <1>13 DEF ZeroSlotsClean, Slot, SlotAt
<1>19. QED
  BY <1>11, <1>14, <1>15, <1>16, <1>17, <1>18 DEF IInv, Layout

LEMMA InitPoolFailsIInv ==
  ASSUME IInv, NEW p \in Pools, NEW s \in ObjectSizes, NEW n \in Counts,
         InitPoolFails(p, s, n)
  PROVE  IInv'
<1> DEFINE z == MemAlign(s)
           o == Opened(z, n, pool[p].base, pool[p].end, FALSE)
<1>1. TypeOK /\ Layout /\ ZeroSlotsClean
  BY DEF IInv
<1>2. /\ ~pool[p].live /\ MayReserve(z, n)
      /\ pool' = [pool EXCEPT ![p] = o]
      /\ off' = off /\ plain' = plain /\ dirty' = dirty /\ clean' = clean /\ written' = written
  BY DEF InitPoolFails
<1>3. o \in PoolType /\ o.live = FALSE /\ o.base = pool[p].base /\ o.end = pool[p].end
  <2>1. z \in 1 .. UsizeMax /\ n \in 1 .. UsizeMax /\ UsizeMax \in Nat
    BY <1>1, <1>2, Reservation, ConstantFacts
  <2>2. pool[p].base \in 0 .. Cap /\ pool[p].end \in 0 .. Cap
    BY <1>1, Fields
  <2>3. QED
    BY <2>1, <2>2 DEF Opened, PoolType, Usize
<1> HIDE DEF o
<1>4. pool \in [Pools -> PoolType]
  BY <1>1 DEF TypeOK, PoolType
<1>5. pool'[p] = o /\ \A q \in Pools : q # p => pool'[q] = pool[q]
  BY <1>2, <1>4
<1>6. TypeOK'
  <2>1. pool' \in [Pools -> PoolType]
    BY <1>2, <1>3, <1>4
  <2>2. QED
    BY <1>1, <1>2, <2>1 DEF TypeOK, PoolType
<1>7. \A q \in Pools : pool'[q].live => q # p /\ pool'[q] = pool[q] /\ pool[q].live
  BY <1>3, <1>5
<1>8. RegionsHome'
  BY <1>1, <1>2, <1>7 DEF Layout, RegionsHome, Home
<1>9. SizesAsked'
  BY <1>1, <1>7 DEF Layout, SizesAsked
<1>10. \A q \in Pools : /\ pool'[q].live => pool[q].live
                        /\ pool'[q].base = pool[q].base /\ pool'[q].end = pool[q].end
  BY <1>3, <1>5
<1>11. Layout'
  BY <1>2, <1>8, <1>9, <1>10, SameLayout
<1>12. ZeroSlotsClean'
  BY <1>1, <1>2, <1>7 DEF ZeroSlotsClean, Slot, SlotAt
<1>13. QED
  BY <1>6, <1>11, <1>12 DEF IInv

LEMMA PoolAllocIInv ==
  ASSUME IInv, NEW p \in Pools, NEW zero \in BOOLEAN, PoolAlloc(p, zero)
  PROVE  IInv'
<1> DEFINE u == pool[p].used
<1>1. TypeOK /\ Layout /\ ZeroSlotsClean
  BY DEF IInv
<1>2. /\ pool[p].live /\ u < pool[p].cap
      /\ pool' = [pool EXCEPT ![p] = [pool[p] EXCEPT !.used = u + 1]]
      /\ dirty' = IF zero THEN dirty \ Slot(p, u) ELSE dirty
      /\ clean' = [clean EXCEPT ![p] = IF zero THEN clean[p] \cup {u} ELSE clean[p]]
      /\ off' = off /\ plain' = plain /\ written' = written
  BY DEF PoolAlloc
<1>3. /\ pool[p] \in PoolType /\ u \in Nat /\ u + 1 \in Usize /\ u \in Usize
      /\ pool[p].size \in Nat /\ pool[p].cap \in Nat /\ Home(p)
  <2>1. Home(p)
    BY <1>1, <1>2 DEF Layout, RegionsHome
  <2>2. pool[p].cap \in 1 .. UsizeMax /\ UsizeMax \in Nat
    BY <2>1, ConstantFacts DEF Home
  <2>3. pool[p] \in PoolType /\ u \in Nat /\ pool[p].size \in Nat /\ pool[p].cap \in Nat
    BY <1>1, Fields
  <2>4. QED
    BY <1>2, <2>1, <2>2, <2>3 DEF Usize
<1>4. pool \in [Pools -> PoolType] /\ clean \in [Pools -> SUBSET Usize]
  BY <1>1 DEF TypeOK, PoolType
<1> HIDE DEF u
<1>5. /\ pool'[p] = [pool[p] EXCEPT !.used = u + 1]
      /\ \A q \in Pools : q # p => pool'[q] = pool[q] /\ clean'[q] = clean[q]
      /\ clean'[p] = IF zero THEN clean[p] \cup {u} ELSE clean[p]
  BY <1>2, <1>4
<1>6. /\ pool'[p].arena = pool[p].arena /\ pool'[p].size = pool[p].size
      /\ pool'[p].cap = pool[p].cap /\ pool'[p].used = u + 1
      /\ pool'[p].base = pool[p].base /\ pool'[p].end = pool[p].end
      /\ pool'[p].live = pool[p].live
  BY <1>3, <1>5 DEF PoolType
<1>7. TypeOK'
  <2>1. pool'[p] \in PoolType
    BY <1>3, <1>5 DEF PoolType
  <2>2. pool' \in [Pools -> PoolType]
    BY <1>2, <1>4, <1>5, <2>1
  <2>3. clean' \in [Pools -> SUBSET Usize]
    BY <1>2, <1>3, <1>4
  <2>4. dirty' \subseteq dirty
    BY <1>2
  <2>5. QED
    BY <1>1, <1>2, <2>2, <2>3, <2>4 DEF TypeOK, PoolType
<1>8. Home(p)'
  <2>1. Span(pool[p].base, pool[p].size * u) \subseteq Span(pool[p].base, pool[p].size * (u + 1))
    <3>1. pool[p].base \in Nat
      BY <1>1, Fields
    <3>2. u * pool[p].size \in Nat /\ u * pool[p].size + pool[p].size <= (u + 1) * pool[p].size
      BY <1>3, SlotEnds
    <3> DEFINE t == u * pool[p].size
               w == (u + 1) * pool[p].size
    <3>3. t \in Nat /\ w \in Int /\ t <= w
      BY <1>3, <3>2
    <3>4. pool[p].size * u = t /\ pool[p].size * (u + 1) = w
      BY <1>3
    <3> HIDE DEF t, w
    <3>5. Span(pool[p].base, t) \subseteq Span(pool[p].base, w)
      BY <3>1, <3>3 DEF Span
    <3>6. QED
      BY <3>4, <3>5
  <2>2. clean'[p] \subseteq 0 .. u
    <3>1. clean[p] \subseteq 0 .. u - 1
      BY <1>3 DEF Home, u
    <3>2. QED
      BY <1>3, <1>5, <3>1
  <2>3. written'[p] \subseteq Span(pool[p].base, pool[p].size * (u + 1))
    BY <1>2, <1>3, <2>1 DEF Home, u
  <2>4. u + 1 <= pool[p].cap /\ (u + 1) - 1 = u
    BY <1>2, <1>3
  <2>5. QED
    BY <1>2, <1>3, <1>6, <2>2, <2>3, <2>4 DEF Home
<1>9. RegionsHome'
  <2>1. ASSUME NEW q \in Pools, pool'[q].live, q # p PROVE Home(q)'
    <3>1. pool'[q] = pool[q] /\ clean'[q] = clean[q] /\ written'[q] = written[q] /\ Home(q)
      BY <1>1, <1>2, <1>5, <2>1 DEF Layout, RegionsHome
    <3>2. pool[q].end <= off'
      BY <1>2, <3>1 DEF Home
    <3>3. QED
      BY <3>1, <3>2, HomeKept
  <2>2. QED
    BY <1>8, <2>1 DEF RegionsHome
<1>10. \A q \in Pools : /\ pool'[q].live => pool[q].live
                        /\ pool'[q].base = pool[q].base /\ pool'[q].end = pool[q].end
                        /\ pool'[q].size = pool[q].size
  BY <1>5, <1>6
<1>11. SizesAsked'
  BY <1>1, <1>10 DEF Layout, SizesAsked
<1>12. Layout'
  BY <1>2, <1>9, <1>10, <1>11, SameLayout
<1>13. ZeroSlotsClean'
  <2> SUFFICES ASSUME NEW q \in Pools, pool'[q].live, NEW i \in clean'[q]
               PROVE  Slot(q, i)' \cap dirty' = {}
    BY DEF ZeroSlotsClean
  <2>1. Slot(q, i)' = Slot(q, i)
    BY <1>10 DEF Slot, SlotAt
  <2>2. pool[q].live /\ dirty' \subseteq dirty
    BY <1>2, <1>10
  <2>3. CASE i \in clean[q]
    BY <1>1, <2>1, <2>2, <2>3 DEF ZeroSlotsClean
  <2>4. CASE i \notin clean[q]
    <3>1. q = p /\ i = u /\ zero
      BY <1>5, <2>4
    <3>2. QED
      BY <1>2, <2>1, <3>1
  <2>5. QED
    BY <2>3, <2>4
<1>14. QED
  BY <1>7, <1>12, <1>13 DEF IInv

LEMMA PoolWriteIInv ==
  ASSUME IInv, NEW p \in Pools, NEW i \in 0 .. pool[p].used - 1, PoolWrite(p, i)
  PROVE  IInv'
<1>1. TypeOK /\ Layout /\ ZeroSlotsClean
  BY DEF IInv
<1>2. /\ pool[p].live
      /\ dirty' = dirty \cup Slot(p, i)
      /\ clean' = [clean EXCEPT ![p] = clean[p] \ {i}]
      /\ written' = [written EXCEPT ![p] = written[p] \cup Slot(p, i)]
      /\ off' = off /\ plain' = plain /\ pool' = pool
  BY DEF PoolWrite
<1>3. Home(p)
  BY <1>1, <1>2 DEF Layout, RegionsHome
<1>4. /\ pool[p].used \in Nat /\ pool[p].cap \in Nat /\ pool[p].size \in Nat \ {0}
      /\ pool[p].base \in Nat /\ pool[p].end \in Nat /\ pool[p].end <= Cap
      /\ pool[p].used <= pool[p].cap /\ Cap \in Nat
      /\ i \in 0 .. pool[p].cap - 1 /\ i \in Nat /\ i < pool[p].used
  <2>1. pool[p].size \in 1 .. UsizeMax /\ pool[p].used <= pool[p].cap
    BY <1>3 DEF Home
  <2>2. /\ pool[p].used \in Nat /\ pool[p].cap \in Nat /\ pool[p].base \in Nat
        /\ pool[p].end \in 0 .. Cap /\ Cap \in Nat /\ UsizeMax \in Nat
    BY <1>1, Fields, ConstantFacts
  <2>3. QED
    BY <2>1, <2>2
<1>5. /\ SlotAt(p, i) \in Nat /\ pool[p].base <= SlotAt(p, i)
      /\ SlotAt(p, i) + pool[p].size <= pool[p].end
  BY <1>1, <1>3, <1>4, SlotInside
<1>6. Slot(p, i) \subseteq Span(0, Cap) /\ Slot(p, i) = Span(SlotAt(p, i), pool[p].size)
  BY <1>4, <1>5 DEF Slot, Span
<1>7. Slot(p, i) \subseteq Span(pool[p].base, pool[p].size * pool[p].used)
  <2>1. i * pool[p].size \in Nat /\ i * pool[p].size + pool[p].size <= pool[p].used * pool[p].size
    BY <1>4, SlotEnds
  <2> DEFINE t == i * pool[p].size
             w == pool[p].used * pool[p].size
  <2>2. t \in Nat /\ w \in Nat /\ t + pool[p].size <= w /\ SlotAt(p, i) = pool[p].base + t
        /\ pool[p].size * pool[p].used = w
    BY <1>4, <2>1 DEF SlotAt
  <2> HIDE DEF t, w
  <2>3. Span(SlotAt(p, i), pool[p].size) \subseteq Span(pool[p].base, w)
    BY <1>4, <2>2 DEF Span
  <2>4. QED
    BY <1>6, <2>2, <2>3
<1>8. /\ clean \in [Pools -> SUBSET Usize] /\ written \in [Pools -> SUBSET Span(0, Cap)]
      /\ dirty \subseteq Span(0, Cap)
  BY <1>1 DEF TypeOK
<1>9. /\ clean'[p] = clean[p] \ {i} /\ written'[p] = written[p] \cup Slot(p, i)
      /\ \A q \in Pools : q # p => clean'[q] = clean[q] /\ written'[q] = written[q]
  BY <1>2, <1>8
<1>10. TypeOK'
  <2>1. /\ clean' \in [Pools -> SUBSET Usize] /\ written' \in [Pools -> SUBSET Span(0, Cap)]
        /\ dirty' \subseteq Span(0, Cap)
    BY <1>2, <1>6, <1>8
  <2>2. QED
    BY <1>1, <1>2, <2>1 DEF TypeOK
<1>11. RegionsHome'
  <2> SUFFICES ASSUME NEW q \in Pools, pool'[q].live PROVE Home(q)'
    BY DEF RegionsHome
  <2>1. Home(q) /\ pool'[q] = pool[q]
    BY <1>1, <1>2 DEF Layout, RegionsHome
  <2>2. CASE q = p
    BY <1>2, <1>7, <1>9, <2>1, <2>2 DEF Home
  <2>3. CASE q # p
    BY <1>2, <1>9, <2>1, <2>3 DEF Home
  <2>4. QED
    BY <2>2, <2>3
<1>12. SizesAsked'
  BY <1>1, <1>2 DEF Layout, SizesAsked
<1>13. Layout'
  BY <1>2, <1>11, <1>12, SameLayout
<1>14. ZeroSlotsClean'
  <2> SUFFICES ASSUME NEW q \in Pools, pool[q].live, NEW j \in clean'[q]
               PROVE  Slot(q, j) \cap (dirty \cup Slot(p, i)) = {}
    BY <1>2 DEF ZeroSlotsClean, Slot, SlotAt
  <2>1. j \in clean[q] /\ (q = p => j # i)
    BY <1>9
  <2>2. Slot(q, j) \cap dirty = {}
    BY <1>1, <2>1 DEF ZeroSlotsClean
  <2>3. Home(q) /\ pool[q].size \in Nat /\ j \in 0 .. pool[q].used - 1 /\ j \in Nat
        /\ j \in 0 .. pool[q].cap - 1 /\ pool[q].base \in Nat /\ pool[q].end \in Nat
    <3>1. Home(q)
      BY <1>1 DEF Layout, RegionsHome
    <3>2. j \in 0 .. pool[q].used - 1 /\ pool[q].used <= pool[q].cap
      BY <2>1, <3>1 DEF Home
    <3>3. /\ pool[q].used \in Nat /\ pool[q].cap \in Nat /\ pool[q].size \in Nat
          /\ pool[q].base \in Nat /\ pool[q].end \in Nat
      BY <1>1, Fields
    <3>4. QED
      BY <3>1, <3>2, <3>3
  <2>4. /\ SlotAt(q, j) \in Nat /\ pool[q].base <= SlotAt(q, j)
        /\ SlotAt(q, j) + pool[q].size <= pool[q].end
    BY <1>1, <2>3, SlotInside
  <2>5. SlotAt(q, j) + pool[q].size <= SlotAt(p, i) \/ SlotAt(p, i) + pool[p].size <= SlotAt(q, j)
    <3>1. CASE q = p
      <4>1. j < i \/ i < j
        BY <1>4, <2>1, <2>3, <3>1
      <4>2. QED
        BY <1>1, <1>3, <1>4, <2>3, <3>1, <4>1, SlotsApart
    <3>2. CASE q # p
      <4>1. pool[q].end <= pool[p].base \/ pool[p].end <= pool[q].base
        BY <1>1, <1>2, <3>2 DEF Layout, RegionsApart
      <4>2. QED
        BY <1>4, <1>5, <2>3, <2>4, <4>1
    <3>3. QED
      BY <3>1, <3>2
  <2>6. Slot(q, j) \cap Slot(p, i) = {}
    BY <1>4, <1>5, <2>3, <2>4, <2>5 DEF Slot, Span
  <2>7. QED
    BY <2>2, <2>6
<1>15. QED
  BY <1>10, <1>13, <1>14 DEF IInv

LEMMA PlainAllocIInv ==
  ASSUME IInv, NEW size \in PlainSizes, PlainAlloc(size)
  PROVE  IInv'
<1> DEFINE at == PlaceAt(Base, off, DefaultAlign)
           b == [at |-> at, len |-> size]
<1>1. TypeOK /\ Layout /\ ZeroSlotsClean
  BY DEF IInv
<1>2. /\ CanPlace(Base, Cap, off, size, DefaultAlign)
      /\ off' = OffsetAfter(Base, off, size, DefaultAlign)
      /\ plain' = plain \cup {b}
      /\ pool' = pool /\ dirty' = dirty /\ clean' = clean /\ written' = written
  BY DEF PlainAlloc
<1>3. /\ off \in 0 .. Cap /\ Cap \in 0 .. UsizeMax /\ Cap \in Nat /\ UsizeMax \in Nat
      /\ Base \in Nat /\ size \in 1 .. UsizeMax
  BY <1>1, ConstantFacts DEF TypeOK
<1>4. /\ at \in off .. Cap - 1 /\ off' = at + size /\ off' \in 0 .. Cap
      /\ (Base + at) % DefaultAlign = 0
  BY <1>2, <1>3, ConstantFacts, Placed
<1>5. b.at = at /\ b.len = size /\ b \in [at : 0 .. Cap - 1, len : PlainSizes]
  BY <1>3, <1>4
<1> HIDE DEF at, b
<1>6. off <= off' /\ at \in Nat /\ size \in Nat /\ off' \in Nat /\ off <= at
  BY <1>3, <1>4
<1>7. TypeOK'
  <2>1. plain' \subseteq [at : 0 .. Cap - 1, len : PlainSizes]
    BY <1>1, <1>2, <1>5 DEF TypeOK
  <2>2. QED
    BY <1>1, <1>2, <1>4, <2>1 DEF TypeOK
<1>8. \A q \in Pools : pool[q].live =>
        Home(q) /\ pool[q].end <= off /\ pool[q].end \in Nat /\ pool[q].base \in Nat
  BY <1>1, Fields DEF Layout, RegionsHome, Home
<1>9. RegionsHome'
  <2> SUFFICES ASSUME NEW q \in Pools, pool[q].live PROVE Home(q)'
    BY <1>2 DEF RegionsHome
  <2>1. pool[q].end <= off'
    BY <1>3, <1>6, <1>8
  <2>2. QED
    BY <1>2, <1>8, <2>1, HomeKept
<1>10. RegionsApart' /\ SizesAsked'
  BY <1>1, <1>2 DEF Layout, RegionsApart, SizesAsked
<1>11. \A c \in plain : /\ c.at \in Nat /\ c.len \in Nat /\ c.at + c.len <= off
                        /\ (Base + c.at) % DefaultAlign = 0
  BY <1>1, PlainFields DEF Layout, PlainHome
<1>12. PlainHome'
  <2> SUFFICES ASSUME NEW c \in plain'
               PROVE  c.at + c.len <= off' /\ (Base + c.at) % DefaultAlign = 0
    BY DEF PlainHome
  <2>1. CASE c = b
    BY <1>4, <1>5, <1>6, <2>1
  <2>2. CASE c \in plain
    BY <1>3, <1>6, <1>11, <2>2
  <2>3. QED
    BY <1>2, <2>1, <2>2
<1>13. PlainFromRegions'
  <2> SUFFICES ASSUME NEW c \in plain', NEW q \in Pools, pool[q].live
               PROVE  c.at + c.len <= pool[q].base \/ pool[q].end <= c.at
    BY <1>2 DEF PlainFromRegions
  <2>1. CASE c = b
    BY <1>3, <1>5, <1>6, <1>8, <2>1
  <2>2. CASE c \in plain
    BY <1>1, <2>2 DEF Layout, PlainFromRegions
  <2>3. QED
    BY <1>2, <2>1, <2>2
<1>14. PlainsApart'
  <2> SUFFICES ASSUME NEW c \in plain', NEW d \in plain', c # d
               PROVE  c.at + c.len <= d.at \/ d.at + d.len <= c.at
    BY DEF PlainsApart
  <2>1. CASE c \in plain /\ d \in plain
    BY <1>1, <2>1 DEF Layout, PlainsApart
  <2>2. CASE c = b /\ d \in plain
    BY <1>3, <1>5, <1>6, <1>11, <2>2
  <2>3. CASE d = b /\ c \in plain
    BY <1>3, <1>5, <1>6, <1>11, <2>3
  <2>4. QED
    BY <1>2, <2>1, <2>2, <2>3
<1>15. ZeroSlotsClean'
  BY <1>1, <1>2 DEF ZeroSlotsClean, Slot, SlotAt
<1>16. QED
  BY <1>7, <1>9, <1>10, <1>12, <1>13, <1>14, <1>15 DEF IInv, Layout

LEMMA PlainWriteIInv ==
  ASSUME IInv, NEW b \in plain, PlainWrite(b)
  PROVE  IInv'
<1>1. TypeOK /\ Layout /\ ZeroSlotsClean
  BY DEF IInv
<1>2. /\ dirty' = dirty \cup Span(b.at, b.len)
      /\ off' = off /\ plain' = plain /\ pool' = pool /\ clean' = clean /\ written' = written
  BY DEF PlainWrite
<1>3. b.at \in Nat /\ b.len \in Nat /\ b.at + b.len <= off /\ off \in 0 .. Cap /\ Cap \in Nat
  BY <1>1, PlainFields, ConstantFacts DEF Layout, PlainHome, TypeOK
<1>4. Span(b.at, b.len) \subseteq Span(0, Cap)
  BY <1>3 DEF Span
<1>5. TypeOK'
  BY <1>1, <1>2, <1>4 DEF TypeOK
<1>6. Layout'
  BY <1>1, <1>2 DEF Layout, RegionsHome, Home, RegionsApart, PlainHome, PlainFromRegions,
                    PlainsApart, SizesAsked
<1>7. ZeroSlotsClean'
  <2> SUFFICES ASSUME NEW q \in Pools, pool[q].live, NEW j \in clean[q]
               PROVE  Slot(q, j) \cap (dirty \cup Span(b.at, b.len)) = {}
    BY <1>2 DEF ZeroSlotsClean, Slot, SlotAt
  <2>1. Slot(q, j) \cap dirty = {}
    BY <1>1 DEF ZeroSlotsClean
  <2>2. Home(q) /\ j \in 0 .. pool[q].cap - 1 /\ pool[q].size \in Nat
        /\ pool[q].base \in Nat /\ pool[q].end \in Nat
    <3>1. Home(q)
      BY <1>1 DEF Layout, RegionsHome
    <3>2. j \in 0 .. pool[q].used - 1 /\ pool[q].used <= pool[q].cap
      BY <3>1 DEF Home
    <3>3. /\ pool[q].used \in Nat /\ pool[q].cap \in Nat /\ pool[q].size \in Nat
          /\ pool[q].base \in Nat /\ pool[q].end \in Nat
      BY <1>1, Fields
    <3>4. QED
      BY <3>1, <3>2, <3>3
  <2>3. /\ SlotAt(q, j) \in Nat /\ pool[q].base <= SlotAt(q, j)
        /\ SlotAt(q, j) + pool[q].size <= pool[q].end
    BY <1>1, <2>2, SlotInside
  <2>4. b.at + b.len <= pool[q].base \/ pool[q].end <= b.at
    BY <1>1 DEF Layout, PlainFromRegions
  <2>5. Slot(q, j) \cap Span(b.at, b.len) = {}
    BY <1>3, <2>2, <2>3, <2>4 DEF Slot, Span
  <2>6. QED
    BY <2>1, <2>5
<1>8. QED
  BY <1>5, <1>6, <1>7 DEF IInv

(* The region of a pool that is its own fits again where it was. *)
LEMMA HomeAgain ==
  ASSUME IInv, NEW p \in Pools, pool[p].live
  PROVE  /\ pool[p].base <= off
         /\ CanPlace(Base, Cap, pool[p].base, Reserved(p), DefaultAlign)
         /\ PlaceAt(Base, pool[p].base, DefaultAlign) = pool[p].base
         /\ OffsetAfter(Base, pool[p].base, Reserved(p), DefaultAlign) = pool[p].end
         /\ pool[p].base < pool[p].end
<1>1. TypeOK /\ Home(p)
  BY DEF IInv, Layout, RegionsHome
<1>2. /\ UsizeMax \in Nat /\ DefaultAlign \in 1 .. UsizeMax /\ Base \in Nat
      /\ Cap \in 0 .. UsizeMax /\ off \in 0 .. Cap /\ Cap \in Nat
      /\ pool[p].base \in 0 .. Cap /\ pool[p].base \in Nat /\ pool[p].end \in Nat
  BY <1>1, Fields, ConstantFacts DEF TypeOK
<1>3. /\ pool[p].size \in 1 .. UsizeMax /\ pool[p].cap \in 1 .. UsizeMax
      /\ pool[p].size * pool[p].cap <= UsizeMax
      /\ pool[p].end = pool[p].base + pool[p].size * pool[p].cap
      /\ pool[p].end <= off /\ (Base + pool[p].base) % DefaultAlign = 0
  BY <1>1 DEF Home
<1> DEFINE need == pool[p].size * pool[p].cap
<1>4. need \in 1 .. UsizeMax
  <2>1. pool[p].size \in Nat /\ pool[p].cap \in Nat /\ 0 < pool[p].cap /\ 1 <= pool[p].size
    BY <1>2, <1>3
  <2>2. 0 * pool[p].size \in Nat /\ 0 * pool[p].size + pool[p].size <= pool[p].cap * pool[p].size
    BY <2>1, SlotEnds
  <2>3. pool[p].cap * pool[p].size = need /\ 0 * pool[p].size = 0
    BY <2>1
  <2>4. need \in Int
    BY <2>1
  <2> HIDE DEF need
  <2>5. QED
    BY <1>2, <1>3, <2>1, <2>2, <2>3, <2>4 DEF need
<1>5. Reserved(p) = need
  BY <1>2, <1>3, Unwrapped DEF Reserved
<1> HIDE DEF need
<1>6. pool[p].end = pool[p].base + need /\ need \in Nat \ {0}
  BY <1>2, <1>3, <1>4 DEF need
<1>7. pool[p].base + need <= Cap
  BY <1>2, <1>3, <1>6
<1>8. /\ CanPlace(Base, Cap, pool[p].base, need, DefaultAlign)
      /\ PlaceAt(Base, pool[p].base, DefaultAlign) = pool[p].base
      /\ OffsetAfter(Base, pool[p].base, need, DefaultAlign) = pool[p].base + need
  BY <1>2, <1>3, <1>4, <1>7, PlacedAgain
<1>9. QED
  BY <1>2, <1>3, <1>5, <1>6, <1>8

(* pool_reset and pool_reset_secure differ in the bytes they leave. *)
LEMMA RollBackIInv ==
  ASSUME IInv, NEW p \in Pools, RollBack(p), dirty' \subseteq dirty
  PROVE  IInv'
<1>1. TypeOK /\ Layout /\ ZeroSlotsClean
  BY DEF IInv
<1>2. /\ pool[p].live
      /\ off' = OffsetAfter(Base, pool[p].base, Reserved(p), DefaultAlign)
      /\ pool' = [q \in Pools |->
                    IF q = p THEN [pool[p] EXCEPT !.used = 0]
                    ELSE [pool[q] EXCEPT !.live = pool[q].live /\ pool[q].base < pool[p].base]]
      /\ plain' = {b \in plain : b.at < pool[p].base}
      /\ clean' = [q \in Pools |-> IF q # p /\ pool'[q].live THEN clean[q] ELSE {}]
      /\ written' = [q \in Pools |-> IF q # p /\ pool'[q].live THEN written[q] ELSE {}]
  BY DEF RollBack
<1>3. off' = pool[p].end /\ pool[p].base < pool[p].end
  BY <1>1, <1>2, HomeAgain
<1>4. /\ Home(p) /\ pool[p].base \in Nat /\ pool[p].end \in Nat /\ pool[p].end <= Cap
      /\ Cap \in Nat /\ pool[p].size \in Nat /\ off' \in 0 .. Cap
  <2>1. Home(p)
    BY <1>1, <1>2 DEF Layout, RegionsHome
  <2>2. /\ pool[p].base \in Nat /\ pool[p].end \in 0 .. Cap /\ pool[p].end \in Nat
        /\ Cap \in Nat /\ pool[p].size \in Nat
    BY <1>1, Fields, ConstantFacts
  <2>3. QED
    BY <1>3, <2>1, <2>2
<1>5. \A q \in Pools : pool[q] \in PoolType
  BY <1>1, Fields
<1>6. pool'[p] = [pool[p] EXCEPT !.used = 0] /\ clean'[p] = {} /\ written'[p] = {}
  BY <1>2
<1>7. /\ pool'[p].arena = pool[p].arena /\ pool'[p].size = pool[p].size
      /\ pool'[p].cap = pool[p].cap /\ pool'[p].used = 0
      /\ pool'[p].base = pool[p].base /\ pool'[p].end = pool[p].end
      /\ pool'[p].live = pool[p].live
  BY <1>5, <1>6 DEF PoolType
<1>8. ASSUME NEW q \in Pools, q # p
      PROVE  /\ pool'[q] = [pool[q] EXCEPT !.live = pool[q].live /\ pool[q].base < pool[p].base]
             /\ clean'[q] = IF pool'[q].live THEN clean[q] ELSE {}
             /\ written'[q] = IF pool'[q].live THEN written[q] ELSE {}
  BY <1>2, <1>8
<1>9. ASSUME NEW q \in Pools, q # p
      PROVE  /\ pool'[q].arena = pool[q].arena /\ pool'[q].size = pool[q].size
             /\ pool'[q].cap = pool[q].cap /\ pool'[q].used = pool[q].used
             /\ pool'[q].base = pool[q].base /\ pool'[q].end = pool[q].end
             /\ pool'[q].live = (pool[q].live /\ pool[q].base < pool[p].base)
  BY <1>5, <1>8, <1>9 DEF PoolType
<1>10. TypeOK'
  <2>1. pool'[p] \in PoolType
    BY <1>5, <1>6, ConstantFacts DEF PoolType, Usize
  <2>2. ASSUME NEW q \in Pools, q # p PROVE pool'[q] \in PoolType
    <3>1. (pool[q].live /\ pool[q].base < pool[p].base) \in BOOLEAN
      OBVIOUS
    <3> DEFINE lives == pool[q].live /\ pool[q].base < pool[p].base
    <3> HIDE DEF lives
    <3>2. pool'[q] = [pool[q] EXCEPT !.live = lives] /\ lives \in BOOLEAN
      BY <1>8, <2>2, <3>1 DEF lives
    <3>3. QED
      BY <1>5, <3>2 DEF PoolType
  <2>3. pool' \in [Pools -> PoolType]
    BY <1>2, <2>1, <2>2
  <2>4. clean \in [Pools -> SUBSET Usize] /\ written \in [Pools -> SUBSET Span(0, Cap)]
    BY <1>1 DEF TypeOK
  <2>5. clean' \in [Pools -> SUBSET Usize] /\ written' \in [Pools -> SUBSET Span(0, Cap)]
    BY <1>2, <2>4
  <2>6. plain' \subseteq plain
    BY <1>2
  <2>7. QED
    BY <1>1, <1>4, <2>3, <2>5, <2>6 DEF TypeOK, PoolType
(* A region below p's ends below it. *)
<1>11. ASSUME NEW q \in Pools, q # p, pool'[q].live
       PROVE  /\ pool[q].live /\ pool'[q] = pool[q] /\ clean'[q] = clean[q]
              /\ written'[q] = written[q] /\ Home(q)
              /\ pool[q].base \in Nat /\ pool[q].end \in Nat
              /\ pool[q].end <= pool[p].base
  <2>1. pool[q].live /\ pool[q].base < pool[p].base
    BY <1>9, <1>11
  <2>2. pool[q].live = TRUE
    BY <1>1, <2>1, Fields
  <2>3. pool'[q] = [pool[q] EXCEPT !.live = TRUE]
    BY <1>8, <1>11, <2>1
  <2>4. pool'[q] = pool[q]
    BY <1>5, <2>2, <2>3 DEF PoolType
  <2>5. Home(q)
    BY <1>1, <2>1 DEF Layout, RegionsHome
  <2>6. pool[p].end <= pool[q].base \/ pool[q].end <= pool[p].base
    BY <1>1, <1>2, <1>11, <2>1 DEF Layout, RegionsApart
  <2>7. pool[q].base \in Nat /\ pool[q].end \in Nat
    BY <1>1, Fields
  <2>8. pool[q].end <= pool[p].base
    BY <1>3, <1>4, <2>1, <2>6, <2>7
  <2>9. clean'[q] = clean[q] /\ written'[q] = written[q]
    BY <1>8, <1>11
  <2>10. QED
    BY <2>1, <2>4, <2>5, <2>7, <2>8, <2>9
<1>12. RegionsHome'
  <2> SUFFICES ASSUME NEW q \in Pools, pool'[q].live PROVE Home(q)'
    BY DEF RegionsHome
  <2>1. CASE q = p
    <3>1. pool[p].end <= off' /\ 0 <= pool[p].cap
      BY <1>1, <1>3, <1>4, Fields
    <3>2. QED
      BY <1>4, <1>6, <1>7, <2>1, <3>1 DEF Home
  <2>2. CASE q # p
    <3>1. pool[q].end <= off'
      BY <1>3, <1>4, <1>11, <2>2
    <3>2. QED
      BY <1>11, <2>2, <3>1, HomeKept
  <2>3. QED
    BY <2>1, <2>2
<1>13. RegionsApart'
  <2> SUFFICES ASSUME NEW q \in Pools, NEW r \in Pools, q # r, pool'[q].live, pool'[r].live
               PROVE  pool'[q].end <= pool'[r].base \/ pool'[r].end <= pool'[q].base
    BY DEF RegionsApart
  <2>1. CASE q = p
    BY <1>7, <1>11, <2>1
  <2>2. CASE r = p
    BY <1>7, <1>11, <2>2
  <2>3. CASE q # p /\ r # p
    <3>1. pool[q].live /\ pool'[q] = pool[q] /\ pool[r].live /\ pool'[r] = pool[r]
      BY <1>11, <2>3
    <3>2. QED
      BY <1>1, <3>1 DEF Layout, RegionsApart
  <2>4. QED
    BY <2>1, <2>2, <2>3
<1>14. PlainHome' /\ PlainFromRegions' /\ PlainsApart'
  <2>1. ASSUME NEW b \in plain'
        PROVE  /\ b \in plain /\ b.at \in Nat /\ b.len \in Nat
               /\ b.at + b.len <= pool[p].base /\ (Base + b.at) % DefaultAlign = 0
    <3>1. b \in plain /\ b.at < pool[p].base
      BY <1>2
    <3>2. b.at \in Nat /\ b.len \in Nat
      BY <1>1, <3>1, PlainFields
    <3>3. b.at + b.len <= pool[p].base \/ pool[p].end <= b.at
      BY <1>1, <1>2, <3>1 DEF Layout, PlainFromRegions
    <3>4. (Base + b.at) % DefaultAlign = 0
      BY <1>1, <3>1 DEF Layout, PlainHome
    <3>5. QED
      BY <1>3, <1>4, <3>1, <3>2, <3>3, <3>4
  <2>2. PlainHome'
    <3> SUFFICES ASSUME NEW b \in plain'
                 PROVE  b.at + b.len <= off' /\ (Base + b.at) % DefaultAlign = 0
      BY DEF PlainHome
    <3>1. QED
      BY <1>3, <1>4, <2>1
  <2>3. PlainFromRegions'
    <3> SUFFICES ASSUME NEW b \in plain', NEW q \in Pools, pool'[q].live
                 PROVE  b.at + b.len <= pool'[q].base \/ pool'[q].end <= b.at
      BY DEF PlainFromRegions
    <3>1. CASE q = p
      BY <1>7, <2>1, <3>1
    <3>2. CASE q # p
      <4>1. pool[q].live /\ pool'[q] = pool[q] /\ b \in plain
        BY <1>11, <2>1, <3>2
      <4>2. QED
        BY <1>1, <4>1 DEF Layout, PlainFromRegions
    <3>3. QED
      BY <3>1, <3>2
  <2>4. PlainsApart'
    BY <1>1, <2>1 DEF Layout, PlainsApart
  <2>5. QED
    BY <2>2, <2>3, <2>4
<1>15. SizesAsked'
  <2> SUFFICES ASSUME NEW q \in Pools, pool'[q].live
               PROVE  pool'[q].size \in {MemAlign(s) : s \in ObjectSizes}
    BY DEF SizesAsked
  <2>1. pool[q].live /\ pool'[q].size = pool[q].size
    BY <1>2, <1>7, <1>11
  <2>2. QED
    BY <1>1, <2>1 DEF Layout, SizesAsked
<1>16. ZeroSlotsClean'
  <2> SUFFICES ASSUME NEW q \in Pools, pool'[q].live, NEW j \in clean'[q]
               PROVE  Slot(q, j)' \cap dirty' = {}
    BY DEF ZeroSlotsClean
  <2>1. q # p
    BY <1>6
  <2>2. pool[q].live /\ pool'[q] = pool[q] /\ j \in clean[q]
    BY <1>11, <2>1
  <2>3. Slot(q, j)' = Slot(q, j)
    BY <2>2 DEF Slot, SlotAt
  <2>4. QED
    BY <1>1, <2>2, <2>3 DEF ZeroSlotsClean
<1>17. QED
  BY <1>10, <1>12, <1>13, <1>14, <1>15, <1>16 DEF IInv, Layout

LEMMA ArenaResetIInv ==
  ASSUME IInv, ArenaReset
  PROVE  IInv'
<1>1. TypeOK
  BY DEF IInv
<1>2. /\ off' = 0 /\ plain' = {} /\ dirty' = dirty
      /\ pool' = [p \in Pools |-> [pool[p] EXCEPT !.live = FALSE]]
      /\ clean' = [p \in Pools |-> {}] /\ written' = [p \in Pools |-> {}]
  BY DEF ArenaReset
<1>3. \A p \in Pools : pool'[p] \in PoolType /\ pool'[p].live = FALSE
  <2> SUFFICES ASSUME NEW p \in Pools PROVE pool'[p] \in PoolType /\ pool'[p].live = FALSE
    OBVIOUS
  <2>1. pool[p] \in PoolType /\ pool'[p] = [pool[p] EXCEPT !.live = FALSE]
    BY <1>1, <1>2, Fields
  <2>2. QED
    BY <2>1 DEF PoolType
<1>4. TypeOK'
  <2>1. pool' \in [Pools -> PoolType]
    BY <1>2, <1>3
  <2>2. QED
    BY <1>1, <1>2, <2>1, ConstantFacts DEF TypeOK, PoolType
<1>5. Layout' /\ ZeroSlotsClean'
  BY <1>2, <1>3 DEF Layout, RegionsHome, RegionsApart, PlainHome, PlainFromRegions,
                    PlainsApart, SizesAsked, ZeroSlotsClean
<1>6. QED
  BY <1>4, <1>5 DEF IInv

LEMMA NextIInv == IInv /\ [Next]_vars => IInv'
<1> SUFFICES ASSUME IInv, [Next]_vars PROVE IInv'
  OBVIOUS
<1>1. ASSUME NEW p \in Pools, NEW s \in ObjectSizes, NEW n \in Counts,
             InitPool(p, s, n) \/ InitPoolFails(p, s, n)
      PROVE  IInv'
  BY <1>1, InitPoolIInv, InitPoolFailsIInv
<1>2. ASSUME NEW p \in Pools, NEW zero \in BOOLEAN, PoolAlloc(p, zero) PROVE IInv'
  BY <1>2, PoolAllocIInv
<1>3. ASSUME NEW p \in Pools, NEW i \in 0 .. pool[p].used - 1, PoolWrite(p, i) PROVE IInv'
  BY <1>3, PoolWriteIInv
<1>4. ASSUME NEW size \in PlainSizes, PlainAlloc(size) PROVE IInv'
  BY <1>4, PlainAllocIInv
<1>5. ASSUME NEW b \in plain, PlainWrite(b) PROVE IInv'
  BY <1>5, PlainWriteIInv
<1>6. ASSUME NEW p \in Pools, PoolReset(p) \/ PoolResetSecure(p) PROVE IInv'
  <2>1. RollBack(p) /\ dirty' \subseteq dirty
    BY <1>6 DEF PoolReset, PoolResetSecure
  <2>2. QED
    BY <2>1, RollBackIInv
<1>7. CASE ArenaReset
  BY <1>7, ArenaResetIInv
<1>8. CASE UNCHANGED vars
  BY <1>8 DEF vars, IInv, TypeOK, Layout, RegionsHome, Home, RegionsApart, PlainHome,
              PlainFromRegions, PlainsApart, SizesAsked, ZeroSlotsClean, Slot, SlotAt
<1>9. QED
  BY <1>1, <1>2, <1>3, <1>4, <1>5, <1>6, <1>7, <1>8 DEF Next

LEMMA SpecIInv == Spec => []IInv
BY InitIInv, NextIInv, PTL DEF Spec

(* No offset, region or slot leaves the buffer, whatever the sizes asked   *)
(* for and however large their product (pool_init's checked_mul).          *)
THEOREM PoolTypeOK == Spec => []TypeOK
BY SpecIInv, PTL DEF IInv

(* pool_reset: a pool that is its own can always be rolled back and        *)
(* reserved again, and is then where it was.                               *)
THEOREM PoolResetLandsHome == Spec => []ResetLandsHome
<1>1. IInv => ResetLandsHome
  BY HomeAgain DEF ResetLandsHome
<1>2. QED
  BY <1>1, SpecIInv, PTL

(* pool_alloc_zero: a zeroed slot is zero until its holder writes it.      *)
THEOREM PoolZeroSlotsClean == Spec => []ZeroSlotsClean
BY SpecIInv, PTL DEF IInv

(* pool_reset_secure leaves nothing of what was written through the pool.  *)
THEOREM PoolSecureResetWipes == Spec => SecureResetWipes
<1>1. ASSUME IInv, NEW p \in Pools, PoolResetSecure(p)
      PROVE  written[p] \cap dirty' = {}
  <2>1. pool[p].live /\ dirty' = dirty \ Span(pool[p].base, pool[p].size * pool[p].used)
    BY <1>1 DEF PoolResetSecure, RollBack
  <2>2. written[p] \subseteq Span(pool[p].base, pool[p].size * pool[p].used)
    BY <1>1, <2>1 DEF IInv, Layout, RegionsHome, Home
  <2>3. QED
    BY <2>1, <2>2
<1>2. IInv => \A p \in Pools : PoolResetSecure(p) => written[p] \cap dirty' = {}
  BY <1>1
<1>3. QED
  BY <1>2, SpecIInv, PTL DEF SecureResetWipes

-----------------------------------------------------------------------------
PlainBlock(b) == [at |-> b.at, len |-> b.len, align |-> DefaultAlign]
SlotBlock(p, i) == [at |-> SlotAt(p, i), len |-> pool[p].size, align |-> DefaultAlign]

(* Pool's mapping, spelt out. *)
LEMMA HeldAre ==
  \A x : x \in held <=>
    \/ \E b \in plain : x = PlainBlock(b)
    \/ \E p \in Pools : pool[p].live /\ \E i \in 0 .. pool[p].used - 1 : x = SlotBlock(p, i)
BY DEF held, PlainBlock, SlotBlock

LEMMA HeldAreNext ==
  \A x : x \in held' <=>
    \/ \E b \in plain' : x = PlainBlock(b)
    \/ \E p \in Pools : pool'[p].live /\ \E i \in 0 .. pool'[p].used - 1 : x = SlotBlock(p, i)'
BY DEF held, PlainBlock, SlotBlock

(* Where the blocks in callers' hands are. *)
LEMMA HeldBelow ==
  ASSUME IInv, NEW x \in held
  PROVE  x.at \in Nat /\ x.len \in Nat /\ x.at + x.len <= off
<1>1. TypeOK /\ Layout /\ off \in Nat
  BY ConstantFacts DEF IInv, TypeOK
<1>2. CASE \E b \in plain : x = PlainBlock(b)
  <2>1. PICK b \in plain : x = PlainBlock(b)
    BY <1>2
  <2>2. b.at \in Nat /\ b.len \in Nat /\ b.at + b.len <= off
    BY <1>1, PlainFields DEF Layout, PlainHome
  <2>3. QED
    BY <2>1, <2>2 DEF PlainBlock
<1>3. CASE \E p \in Pools : pool[p].live /\ \E i \in 0 .. pool[p].used - 1 : x = SlotBlock(p, i)
  <2> PICK p \in Pools : pool[p].live /\ \E i \in 0 .. pool[p].used - 1 : x = SlotBlock(p, i)
    BY <1>3
  <2>1. PICK i \in 0 .. pool[p].used - 1 : x = SlotBlock(p, i)
    OBVIOUS
  <2>2. Home(p) /\ pool[p].size \in Nat /\ pool[p].end \in Nat
        /\ pool[p].used \in Nat /\ pool[p].cap \in Nat
    BY <1>1, <2>1, Fields DEF Layout, RegionsHome
  <2>3. i \in 0 .. pool[p].cap - 1 /\ pool[p].end <= off
    BY <2>2 DEF Home
  <2>4. SlotAt(p, i) \in Nat /\ SlotAt(p, i) + pool[p].size <= pool[p].end
    BY <1>1, <2>2, <2>3, SlotInside
  <2>5. SlotAt(p, i) + pool[p].size <= off
    BY <1>1, <2>2, <2>3, <2>4
  <2>6. QED
    BY <2>1, <2>2, <2>4, <2>5 DEF SlotBlock
<1>4. QED
  BY <1>2, <1>3, HeldAre

(* The next slot of a pool is apart from all of them. *)
LEMMA NextSlotApart ==
  ASSUME IInv, NEW p \in Pools, pool[p].live, pool[p].used < pool[p].cap,
         NEW x \in held
  PROVE  x.at + x.len <= SlotAt(p, pool[p].used)
           \/ SlotAt(p, pool[p].used) + pool[p].size <= x.at
<1> DEFINE u == pool[p].used
<1>1. TypeOK /\ Layout
  BY DEF IInv
<1>2. /\ Home(p) /\ u \in Nat /\ pool[p].cap \in Nat /\ pool[p].size \in Nat
      /\ pool[p].base \in Nat /\ pool[p].end \in Nat
  BY <1>1, Fields DEF Layout, RegionsHome
<1>3. u \in 0 .. pool[p].cap - 1
  BY <1>2
<1>4. /\ SlotAt(p, u) \in Nat /\ pool[p].base <= SlotAt(p, u)
      /\ SlotAt(p, u) + pool[p].size <= pool[p].end
  BY <1>1, <1>2, <1>3, SlotInside
<1>5. CASE \E b \in plain : x = PlainBlock(b)
  <2>1. PICK b \in plain : x = PlainBlock(b)
    BY <1>5
  <2>2. b.at + b.len <= pool[p].base \/ pool[p].end <= b.at
    BY <1>1 DEF Layout, PlainFromRegions
  <2>3. b.at \in Nat /\ b.len \in Nat /\ x.at = b.at /\ x.len = b.len
    BY <1>1, <2>1, PlainFields DEF PlainBlock
  <2>4. QED
    BY <1>2, <1>4, <2>2, <2>3
<1>6. CASE \E q \in Pools : pool[q].live /\ \E i \in 0 .. pool[q].used - 1 : x = SlotBlock(q, i)
  <2> PICK q \in Pools : pool[q].live /\ \E i \in 0 .. pool[q].used - 1 : x = SlotBlock(q, i)
    BY <1>6
  <2>1. PICK i \in 0 .. pool[q].used - 1 : x = SlotBlock(q, i)
    OBVIOUS
  <2>2. x.at = SlotAt(q, i) /\ x.len = pool[q].size
    BY <2>1 DEF SlotBlock
  <2>3. /\ Home(q) /\ pool[q].used \in Nat /\ pool[q].cap \in Nat /\ pool[q].size \in Nat
        /\ pool[q].base \in Nat /\ pool[q].end \in Nat
    BY <1>1, <2>1, Fields DEF Layout, RegionsHome
  <2>4. i \in Nat /\ i < pool[q].used /\ i \in 0 .. pool[q].cap - 1
    BY <2>3 DEF Home
  <2>5. CASE q = p
    BY <1>1, <1>2, <2>2, <2>4, <2>5, SlotsApart
  <2>6. CASE q # p
    <3>1. /\ SlotAt(q, i) \in Nat /\ pool[q].base <= SlotAt(q, i)
          /\ SlotAt(q, i) + pool[q].size <= pool[q].end
      BY <1>1, <2>3, <2>4, SlotInside
    <3>2. pool[p].end <= pool[q].base \/ pool[q].end <= pool[p].base
      BY <1>1, <2>1, <2>6 DEF Layout, RegionsApart
    <3>3. QED
      BY <1>2, <1>4, <2>2, <2>3, <3>1, <3>2
  <2>7. QED
    BY <2>5, <2>6
<1>7. QED
  BY <1>5, <1>6, HeldAre

(* pool_init reserves and hands out nothing. *)
LEMMA InitPoolHolds ==
  ASSUME IInv, NEW p \in Pools, NEW s \in ObjectSizes, NEW n \in Counts,
         InitPool(p, s, n) \/ InitPoolFails(p, s, n)
  PROVE  held' = held
<1>1. pool \in [Pools -> PoolType] /\ ~pool[p].live
  BY DEF IInv, TypeOK, PoolType, InitPool, InitPoolFails
<1>2. /\ plain' = plain
      /\ \A q \in Pools : q # p => pool'[q] = pool[q]
      /\ pool'[p].used = 0
  BY <1>1 DEF InitPool, InitPoolFails, Opened
<1>3. \A q \in Pools : pool'[q].live /\ q # p => \A i : SlotBlock(q, i)' = SlotBlock(q, i)
  BY <1>2 DEF SlotBlock, SlotAt
<1>4. \A i \in 0 .. pool'[p].used - 1 : FALSE
  BY <1>2
<1>5. \A x : x \in held' => x \in held
  BY <1>2, <1>3, <1>4, HeldAre, HeldAreNext
<1>6. \A x : x \in held => x \in held'
  BY <1>1, <1>2, <1>3, HeldAre, HeldAreNext
<1>7. QED
  BY <1>5, <1>6

LEMMA PoolAllocHolds ==
  ASSUME IInv, NEW p \in Pools, NEW zero \in BOOLEAN, PoolAlloc(p, zero)
  PROVE  Abstract!Next
<1> DEFINE u == pool[p].used
           x == SlotBlock(p, u)
<1>1. TypeOK /\ Layout
  BY DEF IInv
<1>2. /\ pool[p].live /\ u < pool[p].cap /\ plain' = plain
      /\ pool' = [pool EXCEPT ![p] = [pool[p] EXCEPT !.used = u + 1]]
  BY DEF PoolAlloc
<1>3. /\ Home(p) /\ u \in Nat /\ pool[p].cap \in Nat /\ pool[p].size \in Nat \ {0}
      /\ pool[p].base \in Nat /\ pool[p].end \in 0 .. Cap /\ Cap \in Nat /\ Base \in Nat
      /\ DefaultAlign \in Nat \ {0}
  <2>1. Home(p)
    BY <1>1, <1>2 DEF Layout, RegionsHome
  <2>2. pool[p].size \in Nat \ {0}
    BY <2>1, ConstantFacts DEF Home
  <2>3. QED
    BY <1>1, <2>1, <2>2, Fields, ConstantFacts
<1>4. /\ SlotAt(p, u) \in Nat /\ SlotAt(p, u) + pool[p].size <= pool[p].end
  <2>1. u \in 0 .. pool[p].cap - 1
    BY <1>2, <1>3
  <2>2. QED
    BY <1>1, <1>3, <2>1, SlotInside
<1>5. x.at = SlotAt(p, u) /\ x.len = pool[p].size /\ x.align = DefaultAlign
  BY DEF SlotBlock
<1>6. x \in Abstract!Block
  <2>1. pool[p].size \in {MemAlign(s) : s \in ObjectSizes}
    BY <1>1, <1>2 DEF Layout, SizesAsked
  <2>2. SlotAt(p, u) \in 0 .. Cap - 1
    BY <1>3, <1>4
  <2>3. QED
    BY <2>1, <2>2 DEF Abstract!Block, SlotBlock
<1>7. Abstract!Inside(x)
  BY <1>3, <1>4, <1>5 DEF Abstract!Inside
<1>8. Abstract!Aligned(x)
  <2>1. (Base + pool[p].base) % DefaultAlign = 0 /\ pool[p].size % DefaultAlign = 0
    BY <1>3 DEF Home
  <2>2. Base + pool[p].base \in Nat
    BY <1>3
  <2>3. ((Base + pool[p].base) + u * pool[p].size) % DefaultAlign = 0
    BY <1>3, <2>1, <2>2, SlotAligned
  <2>4. u * pool[p].size \in Nat
    BY <1>3
  <2>5. Base + SlotAt(p, u) = (Base + pool[p].base) + u * pool[p].size
    BY <1>3, <2>4 DEF SlotAt
  <2>6. QED
    BY <1>5, <2>3, <2>5 DEF Abstract!Aligned
<1>9. \A c \in held : Abstract!Apart(x, c)
  BY <1>2, <1>5, NextSlotApart DEF Abstract!Apart
<1>10. held' = held \cup {x}
  <2>1. /\ pool \in [Pools -> PoolType] /\ pool[p] \in PoolType
    BY <1>1, Fields DEF TypeOK, PoolType
  <2> HIDE DEF u
  <2>2. pool'[p] = [pool[p] EXCEPT !.used = u + 1] /\ \A q \in Pools : q # p => pool'[q] = pool[q]
    BY <1>2, <2>1
  <2>3. /\ pool'[p].used = u + 1 /\ pool'[p].base = pool[p].base
        /\ pool'[p].size = pool[p].size /\ pool'[p].live = pool[p].live
    BY <2>1, <2>2 DEF PoolType
  <2>4. \A q \in Pools : pool'[q].live = pool[q].live /\ \A i : SlotBlock(q, i)' = SlotBlock(q, i)
    BY <2>2, <2>3 DEF SlotBlock, SlotAt
  <2>5. 0 .. pool'[p].used - 1 = (0 .. pool[p].used - 1) \cup {u}
    BY <1>3, <2>3 DEF u
  <2>6. \A y : y \in held' => y \in held \/ y = x
    BY <1>2, <2>2, <2>4, <2>5, HeldAre, HeldAreNext
  <2>7. \A y : y \in held => y \in held'
    BY <1>2, <2>2, <2>4, <2>5, HeldAre, HeldAreNext
  <2>8. x \in held'
    BY <1>2, <2>4, <2>5, HeldAreNext
  <2>9. QED
    BY <2>6, <2>7, <2>8
<1> HIDE DEF x
<1>11. Abstract!Allocate
  BY <1>6, <1>7, <1>8, <1>9, <1>10 DEF Abstract!Allocate
<1>12. QED
  BY <1>11 DEF Abstract!Next

LEMMA PlainAllocHolds ==
  ASSUME IInv, NEW size \in PlainSizes, PlainAlloc(size)
  PROVE  Abstract!Next
<1> DEFINE at == PlaceAt(Base, off, DefaultAlign)
           b == [at |-> at, len |-> size]
           x == PlainBlock(b)
<1>1. /\ CanPlace(Base, Cap, off, size, DefaultAlign)
      /\ off' = OffsetAfter(Base, off, size, DefaultAlign)
      /\ plain' = plain \cup {b} /\ pool' = pool
  BY DEF PlainAlloc
<1>2. /\ off \in 0 .. Cap /\ Cap \in 0 .. UsizeMax /\ Cap \in Nat /\ UsizeMax \in Nat
      /\ Base \in Nat /\ size \in 1 .. UsizeMax
  BY ConstantFacts DEF IInv, TypeOK
<1>3. /\ at \in off .. Cap - 1 /\ at + size \in 0 .. Cap
      /\ (Base + at) % DefaultAlign = 0
  BY <1>1, <1>2, ConstantFacts, Placed
<1>4. x.at = at /\ x.len = size /\ x.align = DefaultAlign
  BY DEF PlainBlock
<1>5. x \in Abstract!Block
  <2>1. at \in 0 .. Cap - 1
    BY <1>2, <1>3
  <2>2. QED
    BY <2>1 DEF Abstract!Block, PlainBlock
<1> HIDE DEF at
<1>6. Abstract!Inside(x) /\ Abstract!Aligned(x)
  BY <1>2, <1>3, <1>4 DEF Abstract!Inside, Abstract!Aligned
<1>7. \A c \in held : Abstract!Apart(x, c)
  <2> SUFFICES ASSUME NEW c \in held PROVE c.at + c.len <= x.at
    BY DEF Abstract!Apart
  <2>1. c.at \in Nat /\ c.len \in Nat /\ c.at + c.len <= off
    BY HeldBelow
  <2>2. QED
    BY <1>2, <1>3, <1>4, <2>1
<1>8. held' = held \cup {x}
  <2>1. \A q \in Pools : \A i : SlotBlock(q, i)' = SlotBlock(q, i)
    BY <1>1 DEF SlotBlock, SlotAt
  <2> HIDE DEF b
  <2>2. \A y : y \in held' => y \in held \/ y = x
    BY <1>1, <2>1, HeldAre, HeldAreNext
  <2>3. \A y : y \in held => y \in held'
    BY <1>1, <2>1, HeldAre, HeldAreNext
  <2>4. x \in held'
    BY <1>1, HeldAreNext
  <2>5. QED
    BY <2>2, <2>3, <2>4
<1> HIDE DEF x
<1>9. Abstract!Allocate
  BY <1>5, <1>6, <1>7, <1>8 DEF Abstract!Allocate
<1>10. QED
  BY <1>9 DEF Abstract!Next

(* A reset gives up the slots of its pool and what lies above it. *)
LEMMA RollBackHolds ==
  ASSUME IInv, NEW p \in Pools, RollBack(p)
  PROVE  held' \subseteq held
<1>1. /\ plain' = {b \in plain : b.at < pool[p].base}
      /\ pool' = [q \in Pools |->
                    IF q = p THEN [pool[p] EXCEPT !.used = 0]
                    ELSE [pool[q] EXCEPT !.live = pool[q].live /\ pool[q].base < pool[p].base]]
  BY DEF RollBack
<1>2. \A q \in Pools : pool[q] \in PoolType
  BY Fields DEF IInv
<1>3. pool'[p].used = 0
  BY <1>1, <1>2 DEF PoolType
<1>4. ASSUME NEW q \in Pools, q # p, pool'[q].live
      PROVE  /\ pool[q].live /\ pool'[q].used = pool[q].used
             /\ \A i : SlotBlock(q, i)' = SlotBlock(q, i)
  <2>1. pool'[q] = [pool[q] EXCEPT !.live = pool[q].live /\ pool[q].base < pool[p].base]
    BY <1>1, <1>4
  <2>2. /\ pool'[q].live = (pool[q].live /\ pool[q].base < pool[p].base)
        /\ pool'[q].used = pool[q].used /\ pool'[q].base = pool[q].base
        /\ pool'[q].size = pool[q].size
    BY <1>2, <2>1 DEF PoolType
  <2>3. QED
    BY <1>4, <2>2 DEF SlotBlock, SlotAt
<1>5. \A i \in 0 .. pool'[p].used - 1 : FALSE
  BY <1>3
<1>6. \A b \in plain' : b \in plain
  BY <1>1
<1>7. QED
  BY <1>4, <1>5, <1>6, HeldAre, HeldAreNext

LEMMA StepImplements == IInv /\ [Next]_vars => [Abstract!Next]_held
<1> SUFFICES ASSUME IInv, [Next]_vars PROVE Abstract!Next \/ held' = held
  OBVIOUS
<1>1. ASSUME NEW p \in Pools, NEW s \in ObjectSizes, NEW n \in Counts,
             InitPool(p, s, n) \/ InitPoolFails(p, s, n)
      PROVE  held' = held
  BY <1>1, InitPoolHolds
<1>2. ASSUME NEW p \in Pools, NEW zero \in BOOLEAN, PoolAlloc(p, zero) PROVE Abstract!Next
  BY <1>2, PoolAllocHolds
<1>3. ASSUME plain' = plain, pool' = pool PROVE held' = held
  BY <1>3 DEF held, SlotAt
<1>4. ASSUME NEW p \in Pools, NEW i \in 0 .. pool[p].used - 1, PoolWrite(p, i) PROVE held' = held
  BY <1>3, <1>4 DEF PoolWrite
<1>5. ASSUME NEW size \in PlainSizes, PlainAlloc(size) PROVE Abstract!Next
  BY <1>5, PlainAllocHolds
<1>6. ASSUME NEW b \in plain, PlainWrite(b) PROVE held' = held
  BY <1>3, <1>6 DEF PlainWrite
<1>7. ASSUME NEW p \in Pools, PoolReset(p) \/ PoolResetSecure(p) PROVE Abstract!Next
  <2>1. RollBack(p)
    BY <1>7 DEF PoolReset, PoolResetSecure
  <2>2. held' \subseteq held
    BY <2>1, RollBackHolds
  <2>3. QED
    BY <2>2 DEF Abstract!Next, Abstract!GiveUp
<1>8. CASE ArenaReset
  <2>1. plain' = {} /\ pool' = [p \in Pools |-> [pool[p] EXCEPT !.live = FALSE]]
    BY <1>8 DEF ArenaReset
  <2>2. \A p \in Pools : pool'[p].live = FALSE
    <3> SUFFICES ASSUME NEW p \in Pools PROVE pool'[p].live = FALSE
      OBVIOUS
    <3>1. pool[p] \in PoolType
      BY Fields DEF IInv
    <3>2. QED
      BY <2>1, <3>1 DEF PoolType
  <2>3. held' \subseteq held
    BY <2>1, <2>2, HeldAreNext
  <2>4. QED
    BY <2>3 DEF Abstract!Next, Abstract!GiveUp
<1>9. CASE UNCHANGED vars
  BY <1>3, <1>9 DEF vars
<1>10. QED
  BY <1>1, <1>2, <1>4, <1>5, <1>6, <1>7, <1>8, <1>9 DEF Next

(* Pools and callers that share an arena hold blocks as an allocator would *)
(* hand them out: aligned, inside the buffer, apart, given up only by a    *)
(* reset.                                                                  *)
THEOREM PoolImplements == Spec => Implements
<1>1. Init => Abstract!Init
  <2> SUFFICES ASSUME Init PROVE held = {}
    BY DEF Abstract!Init
  <2>1. plain = {} /\ \A p \in Pools : pool[p].live = FALSE
    BY DEF Init, NoPool
  <2>2. QED
    BY <2>1, HeldAre
<1>2. IInv /\ [Next]_vars => [Abstract!Next]_held
  BY StepImplements
<1>3. QED
  BY SpecIInv, <1>1, <1>2, PTL DEF Spec, Implements, Abstract!Spec
=============================================================================
