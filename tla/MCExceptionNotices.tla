-------------------------- MODULE MCExceptionNotices --------------------------
(***************************************************************************)
(* Instances of ExceptionNotices for TLC.                                  *)
(***************************************************************************)
EXTENDS ExceptionNotices, TLC

CONSTANTS s1, o1, o2, r1, c1, c2

\* Notices of one incident, and one report or recovery notice.
OneIncident == [k \in Key |-> IF k = r1 THEN NoSignature ELSE s1]

Symmetry == Permutations(Key \ {r1}) \cup Permutations(Caller)
=============================================================================
