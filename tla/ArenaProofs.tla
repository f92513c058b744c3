---------------------------- MODULE ArenaProofs -----------------------------
(***************************************************************************)
(* The arena keeps its promises for every capacity, base address, set of   *)
(* sizes and set of alignments.                                            *)
(*                                                                         *)
(* What a caller is promised (Allocator: its blocks are apart) does not    *)
(* mention the offset, so it is not inductive; IInv adds that all blocks   *)
(* lie below the offset and that a mark separates the blocks kept by a     *)
(* rollback to it from the others.                                         *)
(***************************************************************************)
EXTENDS Arena, ArenaOpsProofs

BlocksBelow == \A b \in live : b.at + b.len <= off

BlocksApart == \A b, c \in live : b # c => Abstract!Apart(b, c)

BlocksAligned == \A b \in live : (Base + b.at) % b.align = 0

IInv ==
  /\ TypeOK
  /\ BlocksBelow
  /\ BlocksApart
  /\ BlocksAligned
  /\ MarkSeparates
  /\ ZeroBlocksClean
  /\ NoResidue

-----------------------------------------------------------------------------
(* An accepted request of the arena's wraps nowhere. *)
LEMMA PlaceFacts ==
  ASSUME NEW size \in Sizes, NEW align \in Aligns, off \in 0 .. Cap,
         CanPlace(Base, Cap, off, size, align)
  PROVE  /\ PlaceAt(Base, off, align) \in off .. Cap - 1
         /\ OffsetAfter(Base, off, size, align) = PlaceAt(Base, off, align) + size
         /\ OffsetAfter(Base, off, size, align) \in 0 .. Cap
         /\ (Base + PlaceAt(Base, off, align)) % align = 0
<1>1. /\ UsizeMax \in Nat /\ Cap \in 0 .. UsizeMax /\ Base \in Nat
      /\ size \in 1 .. UsizeMax /\ align \in 1 .. UsizeMax
  BY ArenaOpsAssumption, ArenaAssumption
<1>2. QED
  BY <1>1, Placed

LEMMA BlockNumbers ==
  ASSUME NEW c \in BlockType
  PROVE  /\ c.at \in 0 .. Cap - 1 /\ c.at \in Nat
         /\ c.len \in Nat \ {0} /\ c.len \in Sizes
         /\ c.align \in Aligns /\ c.zero \in BOOLEAN
<1>1. c.at \in 0 .. Cap - 1 /\ c.len \in Sizes /\ c.align \in Aligns /\ c.zero \in BOOLEAN
  BY DEF BlockType
<1>2. Sizes \subseteq Nat \ {0} /\ Cap \in Nat
  BY ArenaOpsAssumption, ArenaAssumption
<1>3. c.at \in Nat
  BY <1>1, <1>2
<1>4. c.len \in Nat \ {0}
  BY <1>1, <1>2
<1>5. QED
  BY <1>1, <1>3, <1>4

LEMMA SpanGrows ==
  ASSUME NEW i \in Int, NEW j \in Int, i <= j
  PROVE  Span(0, i) \subseteq Span(0, j)
BY DEF Span

(* The block arena_alloc hands out is well typed and apart from the others.*)
LEMMA FreshFacts ==
  ASSUME IInv, NEW size \in Sizes, NEW align \in Aligns, NEW zero \in BOOLEAN,
         CanPlace(Base, Cap, off, size, align)
  PROVE  LET b == Fresh(size, align, zero) IN
         /\ b \in BlockType
         /\ b.at \in off .. Cap - 1 /\ b.len \in Nat \ {0}
         /\ b.at + b.len = OffsetAfter(Base, off, size, align)
         /\ b.zero = zero
         /\ (Base + b.at) % b.align = 0
         /\ \A c \in live : c.at + c.len <= b.at
<1>1. off \in 0 .. Cap
  BY DEF IInv, TypeOK
<1>2. /\ PlaceAt(Base, off, align) \in off .. Cap - 1
      /\ OffsetAfter(Base, off, size, align) = PlaceAt(Base, off, align) + size
      /\ (Base + PlaceAt(Base, off, align)) % align = 0
  BY <1>1, PlaceFacts
<1>3. Cap \in Nat /\ size \in Nat \ {0}
  BY ArenaOpsAssumption, ArenaAssumption
<1>4. \A c \in live : c.at \in Nat /\ c.len \in Nat
  BY BlockNumbers DEF IInv, TypeOK
<1>5. \A c \in live : c.at + c.len <= PlaceAt(Base, off, align)
  BY <1>1, <1>2, <1>3, <1>4 DEF IInv, BlocksBelow
<1>6. QED
  BY <1>1, <1>2, <1>3, <1>5 DEF Fresh, BlockType

-----------------------------------------------------------------------------
LEMMA InitIInv == Init => IInv
<1> SUFFICES ASSUME Init PROVE IInv
  OBVIOUS
<1>1. Cap \in Nat \ {0}
  BY ArenaOpsAssumption, ArenaAssumption
<1>2. QED
  BY <1>1 DEF Init, IInv, TypeOK, BlocksBelow, BlocksApart, BlocksAligned,
              MarkSeparates, ZeroBlocksClean, NoResidue, Span

LEMMA AllocIInv ==
  ASSUME IInv, NEW size \in Sizes, NEW align \in Aligns, NEW zero \in BOOLEAN,
         Alloc(size, align, zero)
  PROVE  IInv'
<1> DEFINE b == Fresh(size, align, zero)
<1>1. CanPlace(Base, Cap, off, size, align)
  BY DEF Alloc
<1>2. /\ off' = OffsetAfter(Base, off, size, align)
      /\ live' = live \cup {b}
      /\ dirty' = IF zero THEN dirty \ Span(b.at, b.len) ELSE dirty
      /\ marks' = marks /\ abandoned' = abandoned /\ borrow' = borrow
  BY DEF Alloc
<1>3. /\ b \in BlockType /\ b.at \in off .. Cap - 1 /\ b.len \in Nat \ {0}
      /\ b.at + b.len = off' /\ b.zero = zero
      /\ (Base + b.at) % b.align = 0
      /\ \A c \in live : c.at + c.len <= b.at
  BY <1>1, <1>2, FreshFacts
<1>4. off \in 0 .. Cap /\ off' \in 0 .. Cap /\ off <= off' /\ Cap \in Nat
  <2>1. off \in 0 .. Cap
    BY DEF IInv, TypeOK
  <2>2. off' \in 0 .. Cap
    BY <1>1, <1>2, <2>1, PlaceFacts
  <2>3. Cap \in Nat
    BY ArenaOpsAssumption, ArenaAssumption
  <2>4. QED
    BY <1>3, <2>1, <2>2, <2>3
<1> HIDE DEF b
<1>5. \A c \in live : c.at \in Nat /\ c.len \in Nat \ {0}
  BY BlockNumbers DEF IInv, TypeOK
<1>6. TypeOK'
  BY <1>2, <1>3, <1>4 DEF IInv, TypeOK
<1>7. BlocksBelow'
  BY <1>2, <1>3, <1>4, <1>5 DEF IInv, BlocksBelow
<1>8. BlocksApart'
  BY <1>2, <1>3, <1>5 DEF IInv, BlocksApart, Abstract!Apart
<1>9. BlocksAligned'
  BY <1>2, <1>3 DEF IInv, BlocksAligned
<1>10. MarkSeparates'
  <2> SUFFICES ASSUME NEW m \in marks
               PROVE  /\ m.at <= off'
                      /\ m.kept \subseteq live'
                      /\ \A c \in live' : IF c \in m.kept THEN c.at + c.len <= m.at
                                                          ELSE m.at <= c.at
    BY <1>2 DEF MarkSeparates
  <2>1. /\ m.at <= off /\ m.kept \subseteq live
        /\ \A c \in live : IF c \in m.kept THEN c.at + c.len <= m.at ELSE m.at <= c.at
        /\ m.at \in 0 .. Cap
    BY DEF IInv, MarkSeparates, TypeOK
  <2>2. b \notin m.kept
    BY <1>3, <1>4, <1>5, <2>1
  <2>3. m.at <= b.at
    BY <1>3, <1>4, <2>1
  <2>4. QED
    BY <1>2, <1>4, <2>1, <2>2, <2>3
<1>11. ZeroBlocksClean'
  <2> SUFFICES ASSUME NEW c \in live', c.zero
               PROVE  Span(c.at, c.len) \cap dirty' = {}
    BY DEF ZeroBlocksClean
  <2>1. CASE c = b
    BY <1>2, <1>3, <2>1
  <2>2. CASE c \in live
    BY <1>2, <2>2 DEF IInv, ZeroBlocksClean
  <2>3. QED
    BY <1>2, <2>1, <2>2
<1>12. NoResidue'
  <2>1. off \in Int /\ off' \in Int
    BY <1>4
  <2>2. Span(0, off) \subseteq Span(0, off')
    BY <1>4, <2>1, SpanGrows
  <2>3. dirty' \subseteq dirty
    BY <1>2
  <2>4. QED
    BY <1>2, <2>2, <2>3 DEF IInv, NoResidue
<1>13. QED
  BY <1>6, <1>7, <1>8, <1>9, <1>10, <1>11, <1>12 DEF IInv

LEMMA TryAllocNowhereIInv ==
  ASSUME IInv, NEW size \in Sizes, NEW align \in Aligns, TryAllocNowhere(size, align)
  PROVE  IInv'
<1>1. /\ CanPlace(Base, Cap, off, size, align)
      /\ off' = OffsetAfter(Base, off, size, align)
      /\ live' = live /\ marks' = marks /\ dirty' = dirty
      /\ abandoned' = abandoned /\ borrow' = borrow
  BY DEF TryAllocNowhere
<1>2. off \in 0 .. Cap /\ off' \in 0 .. Cap /\ off <= off' /\ Cap \in Nat
  <2>1. off \in 0 .. Cap
    BY DEF IInv, TypeOK
  <2>2. /\ PlaceAt(Base, off, align) \in off .. Cap - 1
        /\ off' = PlaceAt(Base, off, align) + size /\ off' \in 0 .. Cap
    BY <1>1, <2>1, PlaceFacts
  <2>3. Cap \in Nat /\ size \in Nat
    BY ArenaOpsAssumption, ArenaAssumption
  <2>4. QED
    BY <2>1, <2>2, <2>3
<1>3. \A c \in live : c.at \in Nat /\ c.len \in Nat \ {0}
  BY BlockNumbers DEF IInv, TypeOK
<1>4. TypeOK' /\ BlocksApart' /\ BlocksAligned' /\ ZeroBlocksClean'
  BY <1>1, <1>2 DEF IInv, TypeOK, BlocksApart, BlocksAligned, ZeroBlocksClean
<1>5. BlocksBelow'
  BY <1>1, <1>2, <1>3 DEF IInv, BlocksBelow
<1>6. MarkSeparates'
  <2>1. \A m \in marks : m.at \in 0 .. Cap
    BY DEF IInv, TypeOK
  <2>2. \A m \in marks : m.at <= off'
    BY <1>2, <2>1 DEF IInv, MarkSeparates
  <2>3. QED
    BY <1>1, <2>2 DEF IInv, MarkSeparates
<1>7. NoResidue'
  <2>1. off \in Int /\ off' \in Int
    BY <1>2
  <2>2. Span(0, off) \subseteq Span(0, off')
    BY <1>2, <2>1, SpanGrows
  <2>3. QED
    BY <1>1, <2>2 DEF IInv, NoResidue
<1>8. QED
  BY <1>4, <1>5, <1>6, <1>7 DEF IInv

LEMMA WriteIInv ==
  ASSUME IInv, NEW b \in live, Write(b)
  PROVE  IInv'
<1> DEFINE w == [b EXCEPT !.zero = FALSE]
           written(c) == IF c = b THEN w ELSE c
<1>1. /\ live' = (live \ {b}) \cup {w}
      /\ dirty' = dirty \cup Span(b.at, b.len)
      /\ marks' = {[m EXCEPT !.kept = {written(c) : c \in m.kept}] : m \in marks}
      /\ off' = off /\ abandoned' = abandoned /\ borrow' = borrow
  BY DEF Write
<1>2. b \in BlockType
  BY DEF IInv, TypeOK
<1>3. w \in BlockType /\ w.at = b.at /\ w.len = b.len /\ w.align = b.align /\ ~w.zero
  BY <1>2 DEF BlockType
<1> HIDE DEF w
<1>4. \A c \in live : /\ c \in BlockType /\ c.at \in Nat /\ c.at \in 0 .. Cap - 1
                      /\ c.len \in Nat \ {0} /\ c.at + c.len <= off
  BY BlockNumbers DEF IInv, TypeOK, BlocksBelow
<1>5. \A c \in live : c # b => c.at + c.len <= b.at \/ b.at + b.len <= c.at
  BY DEF IInv, BlocksApart, Abstract!Apart
<1>6. off \in 0 .. Cap /\ Cap \in Nat
  BY ArenaOpsAssumption, ArenaAssumption DEF IInv, TypeOK
<1>7. Span(b.at, b.len) \subseteq Span(0, off)
  BY <1>4, <1>6 DEF Span
<1>8. \A m \in marks : /\ m.at \in 0 .. Cap /\ m.at <= off
                       /\ m.kept \subseteq live /\ m.kept \subseteq BlockType
                       /\ m = [at |-> m.at, kept |-> m.kept]
  BY DEF IInv, TypeOK, MarkSeparates
<1>9. TypeOK'
  <2>1. live' \subseteq BlockType
    BY <1>1, <1>3, <1>4
  <2>2. dirty' \subseteq Span(0, Cap)
    <3>1. Span(0, off) \subseteq Span(0, Cap)
      BY <1>6 DEF Span
    <3>2. QED
      BY <1>1, <1>7, <3>1 DEF IInv, TypeOK
  <2>3. marks' \subseteq [at : 0 .. Cap, kept : SUBSET BlockType]
    <3> SUFFICES ASSUME NEW m \in marks
                 PROVE  [m EXCEPT !.kept = {written(c) : c \in m.kept}]
                          \in [at : 0 .. Cap, kept : SUBSET BlockType]
      BY <1>1
    <3>1. {written(c) : c \in m.kept} \subseteq BlockType
      BY <1>3, <1>8
    <3> HIDE DEF written
    <3>2. QED
      BY <1>8, <3>1
  <2>4. QED
    BY <1>1, <2>1, <2>2, <2>3 DEF IInv, TypeOK
<1>10. BlocksBelow'
  BY <1>1, <1>3, <1>4 DEF BlocksBelow
<1>11. BlocksApart'
  BY <1>1, <1>3, <1>4, <1>5 DEF IInv, BlocksApart, Abstract!Apart
<1>12. BlocksAligned'
  BY <1>1, <1>3 DEF IInv, BlocksAligned
<1>13. MarkSeparates'
  <2> SUFFICES ASSUME NEW m \in marks
               PROVE  LET k == {written(c) : c \in m.kept} IN
                      /\ m.at <= off
                      /\ k \subseteq live'
                      /\ \A c \in live' : IF c \in k THEN c.at + c.len <= m.at
                                                     ELSE m.at <= c.at
    <3>1. \A n \in marks' : \E m \in marks :
            n.at = m.at /\ n.kept = {written(c) : c \in m.kept}
      <4> SUFFICES ASSUME NEW n \in marks'
                   PROVE  \E m \in marks : n.at = m.at /\ n.kept = {written(c) : c \in m.kept}
        OBVIOUS
      <4>1. PICK m \in marks : n = [m EXCEPT !.kept = {written(c) : c \in m.kept}]
        BY <1>1
      <4> HIDE DEF written
      <4>2. n.at = m.at /\ n.kept = {written(c) : c \in m.kept}
        BY <1>8, <4>1
      <4>3. QED
        BY <4>2
    <3> HIDE DEF written
    <3>2. QED
      BY <1>1, <3>1 DEF MarkSeparates
  <2>1. /\ m.at <= off /\ m.kept \subseteq live
        /\ \A c \in live : IF c \in m.kept THEN c.at + c.len <= m.at ELSE m.at <= c.at
    BY DEF IInv, MarkSeparates
  <2>2. {written(c) : c \in m.kept} \subseteq live'
    BY <1>1, <2>1
  <2>3. ASSUME NEW c \in live, c # b
        PROVE  c \in {written(d) : d \in m.kept} <=> c \in m.kept
    <3>1. c # w
      BY <1>3, <1>4, <1>5, <2>3
    <3>2. QED
      BY <2>3, <3>1
  <2>4. w \in {written(d) : d \in m.kept} => b \in m.kept
    <3> SUFFICES ASSUME NEW d \in m.kept, w = written(d), d # b PROVE FALSE
      OBVIOUS
    <3>1. d = w /\ d \in live
      BY <2>1
    <3>2. QED
      BY <1>3, <1>4, <1>5, <3>1
  <2>5. b \in m.kept => w \in {written(d) : d \in m.kept}
    OBVIOUS
  <2> HIDE DEF written
  <2>6. QED
    BY <1>1, <1>3, <2>1, <2>2, <2>3, <2>4, <2>5
<1>14. ZeroBlocksClean'
  <2> SUFFICES ASSUME NEW c \in live, c # b, c.zero
               PROVE  Span(c.at, c.len) \cap dirty' = {}
    BY <1>1, <1>3 DEF ZeroBlocksClean
  <2>1. Span(c.at, c.len) \cap dirty = {}
    BY DEF IInv, ZeroBlocksClean
  <2>2. Span(c.at, c.len) \cap Span(b.at, b.len) = {}
    BY <1>4, <1>5 DEF Span
  <2>3. QED
    BY <1>1, <2>1, <2>2
<1>15. NoResidue'
  BY <1>1, <1>7 DEF IInv, NoResidue
<1>16. QED
  BY <1>9, <1>10, <1>11, <1>12, <1>13, <1>14, <1>15 DEF IInv

(* What the two full resets share. *)
LEMMA EmptiedIInv ==
  ASSUME IInv, off' = 0, live' = {}, marks' = {}, borrow' = Restamped,
         dirty' \subseteq dirty, abandoned' \subseteq Span(0, Cap), dirty' \subseteq abandoned'
  PROVE  IInv'
<1>1. Cap \in Nat /\ 0 \in 0 .. Cap
  BY ArenaOpsAssumption, ArenaAssumption
<1>2. Restamped \in [of : SUBSET (0 .. Cap - 1), accepted : BOOLEAN, reset : BOOLEAN]
  BY ArenaAssumption DEF Restamped
<1>3. TypeOK'
  BY <1>1, <1>2 DEF IInv, TypeOK
<1>4. QED
  BY <1>3 DEF IInv, BlocksBelow, BlocksApart, BlocksAligned, MarkSeparates,
              ZeroBlocksClean, NoResidue

LEMMA ResetIInv == IInv /\ Reset => IInv'
<1> SUFFICES ASSUME IInv, Reset PROVE IInv'
  OBVIOUS
<1>1. off \in 0 .. Cap /\ Cap \in Nat
  BY ArenaOpsAssumption, ArenaAssumption DEF IInv, TypeOK
<1>2. Span(0, off) \subseteq Span(0, Cap)
  BY <1>1 DEF Span
<1>3. /\ off' = 0 /\ live' = {} /\ marks' = {} /\ borrow' = Restamped /\ dirty' = dirty
      /\ abandoned' = abandoned \cup Span(0, off)
  BY DEF Reset
<1>4. dirty' \subseteq abandoned' /\ abandoned' \subseteq Span(0, Cap)
  BY <1>2, <1>3 DEF IInv, NoResidue, TypeOK
<1>5. QED
  BY <1>3, <1>4, EmptiedIInv

LEMMA ResetSecureIInv == IInv /\ ResetSecure => IInv'
<1> SUFFICES ASSUME IInv, ResetSecure PROVE IInv'
  OBVIOUS
<1>1. CASE off = 0
  <2>1. /\ borrow' = [borrow EXCEPT !.reset = LifetimeDebug]
        /\ UNCHANGED <<off, live, marks, dirty, abandoned>>
    BY <1>1 DEF ResetSecure
  <2>2. borrow' \in [of : SUBSET (0 .. Cap - 1), accepted : BOOLEAN, reset : BOOLEAN]
    BY <2>1, ArenaAssumption DEF IInv, TypeOK
  <2>3. QED
    BY <2>1, <2>2 DEF IInv, TypeOK, BlocksBelow, BlocksApart, BlocksAligned,
                      MarkSeparates, ZeroBlocksClean, NoResidue
<1>2. CASE off # 0
  <2>1. /\ off' = 0 /\ live' = {} /\ marks' = {} /\ borrow' = Restamped
        /\ dirty' = dirty \ Span(0, off)
        /\ abandoned' = abandoned \ Span(0, off)
    BY <1>2 DEF ResetSecure
  <2>2. dirty' \subseteq abandoned' /\ abandoned' \subseteq Span(0, Cap) /\ dirty' \subseteq dirty
    BY <2>1 DEF IInv, NoResidue, TypeOK
  <2>3. QED
    BY <2>1, <2>2, EmptiedIInv
<1>3. QED
  BY <1>1, <1>2

LEMMA MarkIInv == IInv /\ Mark => IInv'
<1> SUFFICES ASSUME IInv, Mark PROVE IInv'
  OBVIOUS
<1>1. /\ marks' = marks \cup {[at |-> off, kept |-> live]}
      /\ off' = off /\ live' = live /\ dirty' = dirty
      /\ abandoned' = abandoned /\ borrow' = borrow
  BY DEF Mark
<1>2. off \in 0 .. Cap /\ off <= off /\ live \subseteq BlockType
  BY ArenaOpsAssumption, ArenaAssumption DEF IInv, TypeOK
<1>3. TypeOK'
  BY <1>1, <1>2 DEF IInv, TypeOK
<1>4. BlocksBelow' /\ BlocksApart' /\ BlocksAligned' /\ ZeroBlocksClean' /\ NoResidue'
  BY <1>1 DEF IInv, BlocksBelow, BlocksApart, BlocksAligned, ZeroBlocksClean, NoResidue
<1>5. MarkSeparates'
  BY <1>1, <1>2 DEF IInv, MarkSeparates, BlocksBelow
<1>6. QED
  BY <1>3, <1>4, <1>5 DEF IInv

LEMMA ResetToIInv ==
  ASSUME IInv, NEW m \in marks, ResetTo(m)
  PROVE  IInv'
<1>1. /\ m.at <= off /\ off' = m.at
      /\ live' = live \cap m.kept
      /\ marks' = {n \in marks : n.at <= m.at}
      /\ abandoned' = abandoned \cup (m.at .. off - 1)
      /\ borrow' = [borrow EXCEPT !.of = @ \cap {b.at : b \in m.kept}]
      /\ dirty' = dirty
  BY DEF ResetTo
<1>2. \A n \in marks :
        /\ n.at \in 0 .. Cap
        /\ n.kept \subseteq live
        /\ \A b \in live : IF b \in n.kept THEN b.at + b.len <= n.at ELSE n.at <= b.at
  BY DEF IInv, TypeOK, MarkSeparates
<1>3. off \in 0 .. Cap /\ Cap \in Nat
  BY ArenaOpsAssumption, ArenaAssumption DEF IInv, TypeOK
<1>4. \A b \in live : b.at \in Nat /\ b.len \in Nat \ {0}
  BY BlockNumbers DEF IInv, TypeOK
<1>5. TypeOK'
  <2>1. abandoned' \subseteq Span(0, Cap)
    <3>1. m.at .. off - 1 \subseteq Span(0, Cap)
      BY <1>2, <1>3 DEF Span
    <3>2. QED
      BY <1>1, <3>1 DEF IInv, TypeOK
  <2>2. borrow' \in [of : SUBSET (0 .. Cap - 1), accepted : BOOLEAN, reset : BOOLEAN]
    BY <1>1 DEF IInv, TypeOK
  <2>3. off' \in 0 .. Cap
    BY <1>1, <1>2
  <2>4. QED
    BY <1>1, <2>1, <2>2, <2>3 DEF IInv, TypeOK
<1>6. BlocksBelow'
  BY <1>1, <1>2 DEF BlocksBelow
<1>7. BlocksApart' /\ BlocksAligned' /\ ZeroBlocksClean'
  BY <1>1 DEF IInv, BlocksApart, BlocksAligned, ZeroBlocksClean
<1>8. MarkSeparates'
  <2> SUFFICES ASSUME NEW n \in marks, n.at <= m.at
               PROVE  /\ n.kept \subseteq live \cap m.kept
                      /\ \A b \in live \cap m.kept :
                           IF b \in n.kept THEN b.at + b.len <= n.at ELSE n.at <= b.at
    BY <1>1 DEF MarkSeparates
  <2>1. ASSUME NEW b \in n.kept PROVE b \in m.kept
    <3>1. b \in live /\ b.at + b.len <= n.at
      BY <1>2
    <3>2. ~(m.at <= b.at)
      BY <1>2, <1>4, <3>1
    <3>3. QED
      BY <1>2, <3>1, <3>2
  <2>2. QED
    BY <1>2, <2>1
<1>9. NoResidue'
  <2>1. Span(0, off) \subseteq Span(0, m.at) \cup (m.at .. off - 1)
    BY <1>2, <1>3 DEF Span
  <2>2. QED
    BY <1>1, <2>1 DEF IInv, NoResidue
<1>10. QED
  BY <1>5, <1>6, <1>7, <1>8, <1>9 DEF IInv

LEMMA BorrowIInv == IInv /\ Borrow => IInv'
<1> SUFFICES ASSUME IInv, Borrow PROVE IInv'
  OBVIOUS
<1>1. PICK b \in live : borrow' = [of |-> {b.at}, accepted |-> TRUE, reset |-> FALSE]
  BY DEF Borrow
<1>2. b.at \in 0 .. Cap - 1
  BY BlockNumbers DEF IInv, TypeOK
<1>3. borrow' \in [of : SUBSET (0 .. Cap - 1), accepted : BOOLEAN, reset : BOOLEAN]
  BY <1>1, <1>2
<1>4. UNCHANGED <<off, live, marks, dirty, abandoned>>
  BY DEF Borrow
<1>5. QED
  BY <1>3, <1>4 DEF IInv, TypeOK, BlocksBelow, BlocksApart, BlocksAligned,
                    MarkSeparates, ZeroBlocksClean, NoResidue

LEMMA NextIInv == IInv /\ [Next]_vars => IInv'
<1> SUFFICES ASSUME IInv, [Next]_vars PROVE IInv'
  OBVIOUS
<1>1. CASE \E size \in Sizes, align \in Aligns, zero \in BOOLEAN : Alloc(size, align, zero)
  BY <1>1, AllocIInv
<1>2. CASE \E size \in Sizes, align \in Aligns : TryAllocNowhere(size, align)
  BY <1>2, TryAllocNowhereIInv
<1>3. CASE \E b \in live : Write(b)
  BY <1>3, WriteIInv
<1>4. CASE Reset
  BY <1>4, ResetIInv
<1>5. CASE ResetSecure
  BY <1>5, ResetSecureIInv
<1>6. CASE Mark
  BY <1>6, MarkIInv
<1>7. CASE \E m \in marks : ResetTo(m)
  BY <1>7, ResetToIInv
<1>8. CASE Borrow
  BY <1>8, BorrowIInv
<1>9. CASE UNCHANGED vars
  BY <1>9 DEF vars, IInv, TypeOK, BlocksBelow, BlocksApart, BlocksAligned,
              MarkSeparates, ZeroBlocksClean, NoResidue
<1>10. QED
  BY <1>1, <1>2, <1>3, <1>4, <1>5, <1>6, <1>7, <1>8, <1>9 DEF Next

LEMMA SpecIInv == Spec => []IInv
BY InitIInv, NextIInv, PTL DEF Spec

(* Every state of every arena is well typed: the offset never passes the   *)
(* capacity (arena_alloc's fit test, arena_reset_to's require).            *)
THEOREM ArenaTypeOK == Spec => []TypeOK
<1>1. IInv => TypeOK
  BY DEF IInv
<1>2. QED
  BY SpecIInv, <1>1, PTL

(* arena_reset_to gives up exactly what was allocated after arena_mark.    *)
THEOREM ArenaMarkSeparates == Spec => []MarkSeparates
<1>1. IInv => MarkSeparates
  BY DEF IInv
<1>2. QED
  BY SpecIInv, <1>1, PTL

(* Memory asked for zeroed stays zero until its holder writes it.          *)
THEOREM ArenaZeroBlocksClean == Spec => []ZeroBlocksClean
<1>1. IInv => ZeroBlocksClean
  BY DEF IInv
<1>2. QED
  BY SpecIInv, <1>1, PTL

(* What arena_reset_secure does not wipe was given up by a plain reset.    *)
THEOREM ArenaNoResidue == Spec => []NoResidue
<1>1. IInv => NoResidue
  BY DEF IInv
<1>2. QED
  BY SpecIInv, <1>1, PTL

-----------------------------------------------------------------------------
(* Every step of the arena is a step of the abstract allocator: a block is *)
(* handed out, aligned, inside the buffer and apart from the blocks held,  *)
(* or some blocks are given up.                                            *)
LEMMA StepImplements ==
  ASSUME IInv, [Next]_vars
  PROVE  [Abstract!Next]_held
<1> DEFINE view(b) == [at |-> b.at, len |-> b.len, align |-> b.align]
<1>1. CASE \E size \in Sizes, align \in Aligns, zero \in BOOLEAN : Alloc(size, align, zero)
  <2>1. PICK size \in Sizes, align \in Aligns, zero \in BOOLEAN : Alloc(size, align, zero)
    BY <1>1
  <2> DEFINE b == Fresh(size, align, zero)
  <2>2. CanPlace(Base, Cap, off, size, align) /\ live' = live \cup {b}
    BY <2>1 DEF Alloc
  <2>3. /\ b \in BlockType /\ b.at + b.len = OffsetAfter(Base, off, size, align)
        /\ (Base + b.at) % b.align = 0
        /\ \A c \in live : c.at + c.len <= b.at
    BY <2>2, FreshFacts
  <2>4. OffsetAfter(Base, off, size, align) \in 0 .. Cap /\ Cap \in Nat
    BY <2>2, PlaceFacts, ArenaOpsAssumption, ArenaAssumption DEF IInv, TypeOK
  <2> HIDE DEF b
  <2>5. view(b) \in Abstract!Block
    BY <2>3 DEF BlockType, Abstract!Block
  <2>6. Abstract!Inside(view(b)) /\ Abstract!Aligned(view(b))
    BY <2>3, <2>4 DEF Abstract!Inside, Abstract!Aligned
  <2>7. \A c \in held : Abstract!Apart(view(b), c)
    BY <2>3 DEF held, Abstract!Apart
  <2>8. held' = held \cup {view(b)}
    BY <2>2 DEF held
  <2>9. Abstract!Allocate
    BY <2>5, <2>6, <2>7, <2>8 DEF Abstract!Allocate
  <2>10. QED
    BY <2>9 DEF Abstract!Next
<1>2. CASE \E b \in live : Write(b)
  <2>1. PICK b \in live : Write(b)
    BY <1>2
  <2> DEFINE w == [b EXCEPT !.zero = FALSE]
  <2>2. live' = (live \ {b}) \cup {w}
    BY <2>1 DEF Write
  <2>3. view(w) = view(b)
    BY DEF IInv, TypeOK, BlockType
  <2> HIDE DEF w
  <2>4. held' \subseteq held
    BY <2>2, <2>3 DEF held
  <2>5. QED
    BY <2>4 DEF Abstract!Next, Abstract!GiveUp
<1>3. CASE live' \subseteq live
  <2>1. held' \subseteq held
    BY <1>3 DEF held
  <2>2. QED
    BY <2>1 DEF Abstract!Next, Abstract!GiveUp
<1>4. \/ \E size \in Sizes, align \in Aligns, zero \in BOOLEAN : Alloc(size, align, zero)
      \/ \E b \in live : Write(b)
      \/ live' \subseteq live
  BY DEF Next, vars, TryAllocNowhere, Reset, ResetSecure, Mark, ResetTo, Borrow
<1>5. QED
  BY <1>1, <1>2, <1>3, <1>4

(* The arena implements the abstract allocator.                            *)
THEOREM ArenaImplements == Spec => Implements
<1>1. Init => Abstract!Init
  BY DEF Init, Abstract!Init, held
<1>2. IInv /\ [Next]_vars => [Abstract!Next]_held
  BY StepImplements
<1>3. QED
  BY SpecIInv, <1>1, <1>2, PTL DEF Spec, Implements, Abstract!Spec

-----------------------------------------------------------------------------
(* The ghost of a borrow tells the truth: where it says its block is, one  *)
(* is held.                                                                *)
BorrowOfHeld == borrow.of \subseteq {b.at : b \in live}

LEMMA NextBorrow ==
  ASSUME IInv, BorrowOfHeld, BorrowsSurviveRollback, [Next]_vars
  PROVE  BorrowOfHeld' /\ BorrowsSurviveRollback'
<1> USE DEF BorrowOfHeld, BorrowsSurviveRollback
<1>1. borrow \in [of : SUBSET (0 .. Cap - 1), accepted : BOOLEAN, reset : BOOLEAN]
  BY DEF IInv, TypeOK
<1>2. CASE borrow' = borrow /\ live \subseteq live'
  BY <1>2
<1>3. CASE borrow' = Restamped
  BY <1>3 DEF Restamped
<1>4. CASE \E b \in live : Write(b)
  <2>1. PICK b \in live : Write(b)
    BY <1>4
  <2> DEFINE w == [b EXCEPT !.zero = FALSE]
  <2>2. live' = (live \ {b}) \cup {w} /\ borrow' = borrow
    BY <2>1 DEF Write
  <2>3. w.at = b.at
    BY DEF IInv, TypeOK, BlockType
  <2> HIDE DEF w
  <2>4. QED
    BY <2>2, <2>3
<1>5. CASE borrow' = [borrow EXCEPT !.reset = LifetimeDebug] /\ live' = live
  BY <1>1, <1>5
<1>6. CASE \E m \in marks : ResetTo(m)
  <2>1. PICK m \in marks : ResetTo(m)
    BY <1>6
  <2> DEFINE s == borrow.of \cap {b.at : b \in m.kept}
  <2>2. live' = live \cap m.kept /\ m.kept \subseteq live /\ borrow' = [borrow EXCEPT !.of = s]
    BY <2>1 DEF ResetTo, IInv, MarkSeparates
  <2>3. s \subseteq borrow.of /\ s \subseteq {b.at : b \in live \cap m.kept}
    BY <2>2
  <2> HIDE DEF s
  <2>4. borrow'.of = s /\ borrow'.accepted = borrow.accepted
    BY <1>1, <2>2
  <2>5. QED
    BY <2>2, <2>3, <2>4
<1>7. CASE Borrow
  <2>1. PICK b \in live : borrow' = [of |-> {b.at}, accepted |-> TRUE, reset |-> FALSE]
    BY <1>7 DEF Borrow
  <2>2. live' = live
    BY <1>7 DEF Borrow
  <2>3. QED
    BY <2>1, <2>2
<1>8. \/ borrow' = borrow /\ live \subseteq live'
      \/ borrow' = Restamped
      \/ \E b \in live : Write(b)
      \/ borrow' = [borrow EXCEPT !.reset = LifetimeDebug] /\ live' = live
      \/ \E m \in marks : ResetTo(m)
      \/ Borrow
  BY DEF Next, vars, Alloc, TryAllocNowhere, Reset, ResetSecure, Mark
<1>9. QED
  BY <1>2, <1>3, <1>4, <1>5, <1>6, <1>7, <1>8

(* A rollback refuses no borrow of a block that is older than the mark:    *)
(* while its block is held, and only a rollback below it or a full reset   *)
(* ends that, a borrow is accepted.                                        *)
THEOREM ArenaBorrowsSurviveRollback == Spec => [](BorrowOfHeld /\ BorrowsSurviveRollback)
<1>1. Init => BorrowOfHeld /\ BorrowsSurviveRollback
  BY DEF Init, BorrowOfHeld, BorrowsSurviveRollback
<1>2. IInv /\ BorrowOfHeld /\ BorrowsSurviveRollback /\ [Next]_vars
        => BorrowOfHeld' /\ BorrowsSurviveRollback'
  BY NextBorrow
<1>3. QED
  BY SpecIInv, <1>1, <1>2, PTL DEF Spec
=============================================================================
