-------------------------- MODULE MCControlPlaneBackup --------------------------
(***************************************************************************)
(* Instances of ControlPlaneBackup for TLC.                                *)
(***************************************************************************)
EXTENDS ControlPlaneBackup, TLC

CONSTANTS a, b, d1, f1, f2

OneDomain == [c \in Cand |-> d1]

Symmetry == Permutations(Cand)

\* Bound: a behaviour with a backup has one candidate.  The runs and forgets of
\* two candidates meet in the behaviours without one.
OneCandidateIsBackedUp ==
    backup.phase # "none" => Cardinality({c \in Cand : cand[c] # "none"}) <= 1
=============================================================================
