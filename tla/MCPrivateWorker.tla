--------------------------- MODULE MCPrivateWorker ---------------------------
(***************************************************************************)
(* Instances of PrivateWorker for TLC.                                     *)
(***************************************************************************)
EXTENDS PrivateWorker, TLC

CONSTANTS j1, p1, p2, p3

\* The third process lacks the capability of every job.
PartlySupported == {p1, p2} \X Job

Symmetry == Permutations({p1, p2})
=============================================================================
