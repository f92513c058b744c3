----------------------------- MODULE Allocator ------------------------------
(***************************************************************************)
(* What a bump allocator promises its callers.  The blocks they hold lie   *)
(* in the buffer, at aligned addresses, apart from each other; a new block *)
(* takes none of the bytes of the blocks still held; and blocks only go    *)
(* when the caller gives them up, which it does several at a time.         *)
(***************************************************************************)
EXTENDS Integers

CONSTANTS
  Base,    \* address of the buffer
  Cap,     \* bytes of the buffer
  Sizes,   \* sizes callers ask for
  Aligns   \* alignments callers ask for

VARIABLE held   \* the blocks held: their offset, length and alignment

Block == [at : 0 .. Cap - 1, len : Sizes, align : Aligns]

Inside(b)     == b.at + b.len <= Cap
Aligned(b)    == (Base + b.at) % b.align = 0
Apart(b, c)   == b.at + b.len <= c.at \/ c.at + c.len <= b.at

Init == held = {}

Allocate ==
  \E b \in Block :
    /\ Inside(b) /\ Aligned(b)
    /\ \A c \in held : Apart(b, c)
    /\ held' = held \cup {b}

GiveUp == held' \subseteq held

Next == Allocate \/ GiveUp

Spec == Init /\ [][Next]_held
=============================================================================
