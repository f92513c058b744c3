--------------------------- MODULE MCLifetimeSafe ---------------------------
(* The instances of Lifetime in which the check is exact: TLC evaluates    *)
(* the hypotheses of LifetimeProofs!CheckExact on the real xor.            *)
EXTENDS MCLifetime

ASSUME HypothesesHold == OneCounter /\ TokensApart /\ Ladder
=============================================================================
