---------------------------- MODULE ArenaOpsProofs ----------------------------
(***************************************************************************)
(* What the arithmetic of the bump allocators computes: padding aligns, a  *)
(* request that passes the fit test wraps nowhere, and one that is made    *)
(* again where it was placed is placed there again.                        *)
(***************************************************************************)
EXTENDS ArenaOps, TLAPS

(* A multiple of a plus a remainder has that remainder. *)
LEMMA ModShift ==
  ASSUME NEW a \in Nat \ {0}, NEW q \in Int, NEW r \in 0 .. a - 1
  PROVE  (a * q + r) % a = r
OBVIOUS

(* ptr_align_padding is less than the alignment and reaches an aligned     *)
(* address.                                                                *)
LEMMA PadAligns ==
  ASSUME NEW a \in Nat \ {0}, NEW n \in Nat
  PROVE  PadOf(n, a) \in 0 .. a - 1 /\ (n + PadOf(n, a)) % a = 0
<1>1. n % a \in 0 .. a - 1
  OBVIOUS
<1>2. n = a * (n \div a) + (n % a)
  OBVIOUS
<1>3. CASE n % a = 0
  <2>1. (a - 0) % a = 0
    OBVIOUS
  <2>2. QED
    BY <1>3, <2>1 DEF PadOf
<1>4. CASE n % a # 0
  <2>1. a - (n % a) \in 0 .. a - 1
    BY <1>1, <1>4
  <2>2. (a - (n % a)) % a = a - (n % a)
    BY <2>1
  <2>3. n + (a - (n % a)) = a * ((n \div a) + 1)
    BY <1>2
  <2>4. (n \div a) + 1 \in Int
    OBVIOUS
  <2>5. (a * ((n \div a) + 1)) % a = 0
    BY ModShift, <2>4
  <2>6. QED
    BY <2>1, <2>2, <2>3, <2>5 DEF PadOf
<1>5. QED
  BY <1>3, <1>4

(* When the fit test passes no sum wraps: the block begins at or above the *)
(* old offset, ends at the new one, inside the buffer, and is aligned.     *)
LEMMA Placed ==
  ASSUME NEW base \in Nat, NEW cap \in 0 .. UsizeMax, NEW o \in 0 .. cap,
         NEW size \in 1 .. UsizeMax, NEW align \in 1 .. UsizeMax,
         CanPlace(base, cap, o, size, align)
  PROVE  /\ PlaceAt(base, o, align) \in o .. cap - 1
         /\ OffsetAfter(base, o, size, align) = PlaceAt(base, o, align) + size
         /\ OffsetAfter(base, o, size, align) \in 0 .. cap
         /\ (base + PlaceAt(base, o, align)) % align = 0
<1> DEFINE pad == PadOf(base + o, align)
<1>1. UsizeMax \in Nat /\ cap \in Nat /\ o \in Nat /\ size \in Nat \ {0} /\ align \in Nat \ {0}
  BY ArenaOpsAssumption
<1>2. pad \in 0 .. align - 1 /\ ((base + o) + pad) % align = 0
  <2>1. base + o \in Nat
    BY <1>1
  <2>2. QED
    BY <1>1, <2>1, PadAligns
<1>3. /\ ~(o > UsizeMax - pad)
      /\ ~(Add(o, pad) > UsizeMax - size)
      /\ Add(Add(o, pad), size) <= cap
  BY DEF CanPlace, Fits
<1> HIDE DEF pad
<1>4. Add(o, pad) = o + pad
  BY <1>1, <1>2, <1>3 DEF Add
<1>5. Add(Add(o, pad), size) = o + pad + size
  BY <1>1, <1>2, <1>3, <1>4 DEF Add
<1>6. PlaceAt(base, o, align) = o + pad
  BY <1>4 DEF PlaceAt, pad
<1>7. OffsetAfter(base, o, size, align) = o + pad + size
  BY <1>5 DEF OffsetAfter, PlaceAt, pad
<1>8. base + (o + pad) = (base + o) + pad
  BY <1>1, <1>2
<1>9. QED
  BY <1>1, <1>2, <1>3, <1>5, <1>6, <1>7, <1>8

(* An aligned offset needs no padding: what fitted there fits there again. *)
LEMMA PlacedAgain ==
  ASSUME NEW base \in Nat, NEW cap \in 0 .. UsizeMax, NEW at \in 0 .. cap,
         NEW size \in 1 .. UsizeMax, NEW align \in 1 .. UsizeMax,
         (base + at) % align = 0, at + size <= cap
  PROVE  /\ CanPlace(base, cap, at, size, align)
         /\ PlaceAt(base, at, align) = at
         /\ OffsetAfter(base, at, size, align) = at + size
<1>1. UsizeMax \in Nat /\ cap \in Nat /\ at \in Nat /\ size \in Nat \ {0} /\ align \in Nat \ {0}
  BY ArenaOpsAssumption
<1>2. PadOf(base + at, align) = 0
  <2>1. (align - 0) % align = 0
    BY <1>1
  <2>2. QED
    BY <2>1 DEF PadOf
<1>3. Add(at, 0) = at
  BY <1>1 DEF Add
<1>4. Add(at, size) = at + size
  BY <1>1 DEF Add
<1>5. QED
  BY <1>1, <1>2, <1>3, <1>4 DEF CanPlace, Fits, PlaceAt, OffsetAfter

(* mem_align rounds up to a multiple, unless it saturates. *)
LEMMA MemAlignRounds ==
  ASSUME NEW s \in 1 .. UsizeMax, MemAlign(s) # UsizeMax
  PROVE  MemAlign(s) \in 1 .. UsizeMax /\ MemAlign(s) % DefaultAlign = 0
<1>1. UsizeMax \in Nat /\ DefaultAlign \in Nat \ {0} /\ DefaultAlign <= UsizeMax /\ s \in Nat \ {0}
  BY ArenaOpsAssumption
<1>2. PadOf(s, DefaultAlign) \in 0 .. DefaultAlign - 1 /\ (s + PadOf(s, DefaultAlign)) % DefaultAlign = 0
  BY <1>1, PadAligns
<1>3. ~(s > UsizeMax - (DefaultAlign - 1)) /\ MemAlign(s) = s + PadOf(s, DefaultAlign)
  BY DEF MemAlign
<1>4. QED
  BY <1>1, <1>2, <1>3

LEMMA Unwrapped ==
  ASSUME NEW a \in Nat, NEW b \in Nat, a * b <= UsizeMax
  PROVE  Mul(a, b) = a * b
<1> DEFINE c == a * b
<1>1. c \in Nat /\ UsizeMax \in Nat /\ c <= UsizeMax
  BY ArenaOpsAssumption
<1> HIDE DEF c
<1>2. c % (UsizeMax + 1) = c
  BY <1>1
<1>3. QED
  BY <1>2 DEF Mul, c

(* The slots of a region follow each other and end with it. *)
LEMMA SlotEnds ==
  ASSUME NEW a \in Nat, NEW i \in Nat, NEW n \in Nat, i < n
  PROVE  i * a \in Nat /\ i * a + a <= n * a
<1>1. PICK d \in Nat : n = i + 1 + d
  <2>1. n - i - 1 \in Nat /\ n = i + 1 + (n - i - 1)
    OBVIOUS
  <2>2. QED
    BY <2>1
<1>2. n * a = i * a + a + d * a /\ i * a \in Nat /\ d * a \in Nat
  BY <1>1
<1>3. QED
  BY <1>2

(* Slots of aligned size begin at aligned addresses. *)
LEMMA SlotAligned ==
  ASSUME NEW n \in Nat, NEW s \in Nat, NEW i \in Nat, NEW a \in Nat \ {0},
         n % a = 0, s % a = 0
  PROVE  (n + i * s) % a = 0
<1>1. n = a * (n \div a) /\ s = a * (s \div a) /\ n \div a \in Nat /\ s \div a \in Nat
  OBVIOUS
<1>2. PICK k \in Nat, m \in Nat : n = a * k /\ s = a * m
  BY <1>1
<1>3. n + i * s = a * (k + i * m) + 0 /\ k + i * m \in Int
  BY <1>2
<1>4. QED
  BY <1>3, ModShift
=============================================================================
