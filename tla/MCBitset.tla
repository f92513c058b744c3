------------------------------ MODULE MCBitset ------------------------------
(* Two bitsets whose last words are one and the same, one bit apart.       *)
EXTENDS Bitset, TLC

MCCapacityOf == "small" :> 4 @@ "large" :> 5

(* Either may be or-ed into the other. *)
MCOrPairs == Bitsets \X Bitsets
=============================================================================
