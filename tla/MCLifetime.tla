----------------------------- MODULE MCLifetime -----------------------------
(* Instances of Lifetime for TLC: the xor of the hardware, and addresses   *)
(* laid out to make the interesting coincidences possible or impossible.   *)
EXTENDS Lifetime, Bitwise, TLC

CONSTANTS v1, v2, ar, tu1, tu2, t1, t2

HardwareXor(a, b) == a ^^ b

(* Two vecs of one type that can be swapped, constructed in frames whose   *)
(* addresses differ above the counter's bits; an arena, stamped in place.  *)
MCTypeOf    == v1 :> "vec" @@ v2 :> "vec" @@ ar :> "arena"
MCTwoTUs    == v1 :> {tu1} @@ v2 :> {tu1} @@ ar :> {tu2}
MCSharedTUs == v1 :> {tu1} @@ v2 :> {tu1} @@ ar :> {tu1, tu2}
MCApart     == v1 :> {64, 128} @@ v2 :> {64} @@ ar :> {192}
=============================================================================
