----------------------------- MODULE MCGateway ------------------------------
(* Instances of Gateway for TLC. *)
EXTENDS Gateway, TLC

CONSTANTS s1, s2, a1, a2, r1, r2, public, secret

MCSymmetry == Permutations({s1, s2}) \cup Permutations({a1, a2}) \cup Permutations({r1, r2})
=============================================================================
