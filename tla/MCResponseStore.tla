--------------------------- MODULE MCResponseStore --------------------------
(* Instances of ResponseStore for TLC: finding f1 is in both inputs. *)
EXTENDS ResponseStore, TLC

CONSTANTS A, B, f1, f2, p1, p2, c1, c2, t1, t2

MCFindingsOf == [s \in Snapshots |-> IF s = A THEN {f1} ELSE {f1, f2}]

MCSymmetry == Permutations({p1, p2}) \cup Permutations({c1, c2}) \cup Permutations({t1, t2})
=============================================================================
