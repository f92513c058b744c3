---------------------------- MODULE MCStructures ----------------------------
(* Two deques over buffers of 3 and 1, two elements of which one ranks     *)
(* first, four texts of up to two characters, bitsets of 3 and 5 whose     *)
(* common last word is partly used in the one and full in the other.       *)
EXTENDS Structures, TLC

CONSTANTS
  a, b,           \* deques
  e1, e2,         \* elements of the heap
  t0, t1, t2, t3  \* texts

MCBufferOf == a :> 3 @@ b :> 1
MCRank == e1 :> 1 @@ e2 :> 2
MCSizeOf == t0 :> 0 @@ t1 :> 1 @@ t2 :> 1 @@ t3 :> 2
MCCapacityOf == 1 :> 3 @@ 2 :> 5

(* The longer bitset is not or-ed into the shorter: see MCBitset. *)
MCOrPairs == {<<1, 1>>, <<2, 2>>, <<2, 1>>}
=============================================================================
