----------------------------- MODULE MCFileSync -----------------------------
(* Instance of FileSync for TLC.                                           *)
EXTENDS FileSync, TLC

CONSTANTS a, b, p, q
Symmetry == Permutations({a, b}) \cup Permutations({p, q})
=============================================================================
