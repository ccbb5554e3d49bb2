------------------------ MODULE MCResponseController ------------------------
(* Instances of ResponseController for TLC. *)
EXTENDS ResponseController, TLC

CONSTANTS e1, e2, p1, p2, p3, content

MCSymmetry == Permutations({e1, e2}) \cup Permutations(RequestIds)
=============================================================================
