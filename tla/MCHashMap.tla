----------------------------- MODULE MCHashMap ------------------------------
(* Instances of HashMap for TLC.  Keys only differ by the hash function,   *)
(* and all hash functions are initial states: they can be permuted.        *)
EXTENDS HashMap, TLC

CONSTANTS k1, k2, k3, k4

Symmetric == Permutations(Keys)
=============================================================================
