----------------------------- MODULE MCWorkItems -----------------------------
(***************************************************************************)
(* Instances of WorkItems for TLC.                                         *)
(***************************************************************************)
EXTENDS WorkItems, TLC

CONSTANTS i1, i2, c1, c2, t1, t2, v1, v2

Symmetry == Permutations(Item) \cup Permutations(Caller)
              \cup Permutations(Target) \cup Permutations(Version)
=============================================================================
