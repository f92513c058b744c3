------------------------------- MODULE Arena --------------------------------
(***************************************************************************)
(* An arena: a bump offset over a caller's buffer, with full resets, marks *)
(* and rollback.                                                           *)
(*                                                                         *)
(* The code keeps one number, the offset; what the offset means is in the  *)
(* hands of the callers.  The blocks they hold, the marks they hold and    *)
(* what they have written are modelled too: a caller stops using a block   *)
(* when a reset gives it up, and a mark when the arena is rolled back      *)
(* below it.  padding_accum and the CANON_ARENA_DEBUG statistics are       *)
(* written and never read, and are left out.                               *)
(***************************************************************************)
EXTENDS ArenaOps, FiniteSets

CONSTANTS
  Base,     \* address of the buffer, aligned or not
  Cap,      \* capacity
  Sizes,    \* block sizes asked for
  Aligns,   \* alignments asked for, the default one included
  LifetimeDebug,  \* CANON_LIFETIME_DEBUG: borrows carry the arena's token
  MaxMarks  \* bound of the model: marks held at a time

ASSUME ArenaAssumption ==
  /\ Base \in Nat
  /\ Cap \in 1 .. UsizeMax /\ Base + Cap <= UsizeMax
  /\ Sizes \subseteq 1 .. UsizeMax
  /\ Aligns \subseteq 1 .. UsizeMax
  /\ DefaultAlign \in Aligns
  /\ MaxMarks \in Nat
  /\ LifetimeDebug \in BOOLEAN

VARIABLES
  off,        \* offset
  live,       \* blocks in callers' hands; zero: asked for zeroed, not written
  marks,      \* marks in callers' hands; kept (ghost): what was live then
  dirty,      \* offsets of the bytes that may be other than zero
  abandoned,  \* ghost: bytes given up without zeroing, since last zeroed
  borrow      \* a borrow of a block: whether its check accepts it; ghosts:
              \* of, where its block is while still held (at most one
              \* offset), and reset, a full reset was called since

vars == <<off, live, marks, dirty, abandoned, borrow>>

-----------------------------------------------------------------------------
(* The buffer arrives with anything in it. *)
Init ==
  /\ off = 0
  /\ live = {}
  /\ marks = {}
  /\ dirty = Span(0, Cap)
  /\ abandoned = Span(0, Cap)
  /\ borrow = [of |-> {}, accepted |-> FALSE, reset |-> FALSE]

Fresh(size, align, zero) ==
  [at |-> PlaceAt(Base, off, align), len |-> size, align |-> align, zero |-> zero]

(* Zeroes from the old offset rather than from the aligned block. *)
Alloc_ZeroBeforePadding(size, align, zero) ==
  /\ CanPlace(Base, Cap, off, size, align)
  /\ off' = OffsetAfter(Base, off, size, align)
  /\ LET b == Fresh(size, align, zero) IN
       /\ live' = live \cup {b}
       /\ dirty' = IF zero THEN dirty \ Span(off, size) ELSE dirty
  /\ UNCHANGED <<marks, abandoned, borrow>>

(* arena_alloc and arena_alloc_aligned, and their _zero forms. *)
Alloc(size, align, zero) ==
  /\ CanPlace(Base, Cap, off, size, align)
  /\ off' = OffsetAfter(Base, off, size, align)
  /\ LET b == Fresh(size, align, zero) IN
       /\ live' = live \cup {b}
       /\ dirty' = IF zero THEN dirty \ Span(b.at, b.len) ELSE dirty
  /\ UNCHANGED <<marks, abandoned, borrow>>

(* arena_try_alloc(..., out = NULL): the space is taken, nobody holds it. *)
TryAllocNowhere(size, align) ==
  /\ CanPlace(Base, Cap, off, size, align)
  /\ off' = OffsetAfter(Base, off, size, align)
  /\ UNCHANGED <<live, marks, dirty, abandoned, borrow>>

(* The holder of a block writes it. *)
Write(b) ==
  /\ live' = (live \ {b}) \cup {[b EXCEPT !.zero = FALSE]}
  /\ dirty' = dirty \cup Span(b.at, b.len)
  /\ marks' = {[m EXCEPT !.kept = {IF c = b THEN [b EXCEPT !.zero = FALSE] ELSE c : c \in @}]
                 : m \in marks}
  /\ UNCHANGED <<off, abandoned, borrow>>

(* The arena's token is drawn anew, and no earlier borrow carries it       *)
(* (LifetimeProofs!CheckExact).                                            *)
Restamped == [of |-> {}, accepted |-> FALSE, reset |-> LifetimeDebug]

Reset ==
  /\ off' = 0
  /\ live' = {}
  /\ marks' = {}
  /\ abandoned' = abandoned \cup Span(0, off)
  /\ borrow' = Restamped
  /\ UNCHANGED dirty

(* Wipes the blocks rather than everything below the offset. *)
ResetSecure_BlocksOnly ==
  /\ off # 0
  /\ dirty' = dirty \ UNION {Span(b.at, b.len) : b \in live}
  /\ abandoned' = abandoned \ Span(0, off)
  /\ off' = 0
  /\ live' = {}
  /\ marks' = {}
  /\ borrow' = Restamped

(* On an empty arena it returns at once. *)
ResetSecure ==
  \/ /\ off = 0
     /\ borrow' = [borrow EXCEPT !.reset = LifetimeDebug]
     /\ UNCHANGED <<off, live, marks, dirty, abandoned>>
  \/ /\ off # 0
     /\ dirty' = dirty \ Span(0, off)
     /\ abandoned' = abandoned \ Span(0, off)
     /\ off' = 0
     /\ live' = {}
     /\ marks' = {}
     /\ borrow' = Restamped

(* A mark that remembers the last block instead of the offset. *)
Mark_LastBlock ==
  /\ Cardinality(marks) < MaxMarks
  /\ \E b \in live :
       /\ \A c \in live : c.at <= b.at
       /\ marks' = marks \cup {[at |-> b.at, kept |-> live]}
  /\ UNCHANGED <<off, live, dirty, abandoned, borrow>>

Mark ==
  /\ Cardinality(marks) < MaxMarks
  /\ marks' = marks \cup {[at |-> off, kept |-> live]}
  /\ UNCHANGED <<off, live, dirty, abandoned, borrow>>

(* Restamps, as the full resets do. *)
ResetTo_Restamps(m) ==
  /\ m.at <= off
  /\ off' = m.at
  /\ live' = live \cap m.kept
  /\ marks' = {n \in marks : n.at <= m.at}
  /\ abandoned' = abandoned \cup (m.at .. off - 1)
  /\ borrow' = [borrow EXCEPT !.of = @ \cap {b.at : b \in m.kept}, !.accepted = FALSE]
  /\ UNCHANGED dirty

(* arena_reset_to with a mark the caller holds: what was allocated since   *)
(* is given up.  The token stays: borrows older than the mark go on.       *)
ResetTo(m) ==
  /\ m.at <= off
  /\ off' = m.at
  /\ live' = live \cap m.kept
  /\ marks' = {n \in marks : n.at <= m.at}
  /\ abandoned' = abandoned \cup (m.at .. off - 1)
  /\ borrow' = [borrow EXCEPT !.of = @ \cap {b.at : b \in m.kept}]
  /\ UNCHANGED dirty

(* A borrow of a live block, which captures the arena's token. *)
Borrow ==
  /\ LifetimeDebug
  /\ \E b \in live : borrow' = [of |-> {b.at}, accepted |-> TRUE, reset |-> FALSE]
  /\ UNCHANGED <<off, live, marks, dirty, abandoned>>

Next ==
  \/ \E size \in Sizes, align \in Aligns :
       \/ \E zero \in BOOLEAN : Alloc(size, align, zero)
       \/ TryAllocNowhere(size, align)
  \/ \E b \in live : Write(b)
  \/ Reset
  \/ ResetSecure
  \/ Mark
  \/ \E m \in marks : ResetTo(m)
  \/ Borrow

Spec == Init /\ [][Next]_vars

-----------------------------------------------------------------------------
BlockType == [at : 0 .. Cap - 1, len : Sizes, align : Aligns, zero : BOOLEAN]

TypeOK ==
  /\ off \in 0 .. Cap
  /\ live \subseteq BlockType
  /\ marks \subseteq [at : 0 .. Cap, kept : SUBSET BlockType]
  /\ dirty \subseteq Span(0, Cap)
  /\ abandoned \subseteq Span(0, Cap)
  /\ borrow \in [of : SUBSET (0 .. Cap - 1), accepted : BOOLEAN, reset : BOOLEAN]

(* arena_alloc and the resets are an implementation of Allocator.          *)
held == {[at |-> b.at, len |-> b.len, align |-> b.align] : b \in live}

Abstract == INSTANCE Allocator

(* Blocks handed out by arena_alloc are aligned, inside the buffer and     *)
(* apart from every block still held, whatever marks were rolled back.     *)
Implements == Abstract!Spec

(* A mark separates the blocks that were held when arena_mark was called   *)
(* from those handed out since: arena_reset_to gives up the second kind    *)
(* and leaves the first kind whole.                                        *)
MarkSeparates ==
  \A m \in marks :
    /\ m.at <= off
    /\ m.kept \subseteq live
    /\ \A b \in live : IF b \in m.kept THEN b.at + b.len <= m.at ELSE m.at <= b.at

(* A block from a _zero call holds zeroes until its holder writes it: no   *)
(* other block's writes and no reset disturb it.                           *)
ZeroBlocksClean ==
  \A b \in live : b.zero => Span(b.at, b.len) \cap dirty = {}

(* arena_reset_secure leaves nothing behind: a byte that is not zero is    *)
(* below the offset, where the next secure reset finds it, or was given up *)
(* by arena_reset or arena_reset_to.                                       *)
NoResidue == dirty \subseteq Span(0, off) \cup abandoned

(* A borrow of a block that is still held is never refused: a rollback     *)
(* does not touch the arena's token (arena.h:70-71, "borrows allocated     *)
(* before the mark must remain valid through rollback").                   *)
BorrowsSurviveRollback == borrow.of # {} => borrow.accepted

(* arena.h:68-69: "arena_reset() and arena_reset_secure() RE-STAMP the     *)
(* lifetime ID, invalidating every borrow that captured the previous ID".  *)
ResetRefusesBorrows == borrow.reset => ~borrow.accepted
=============================================================================
