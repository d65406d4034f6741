--------------------------- MODULE MCDailyOperations ---------------------------
(***************************************************************************)
(* Instances of DailyOperations for TLC.                                   *)
(***************************************************************************)
EXTENDS DailyOperations, MCPrivateWorker

\* The second text begins like the first.
OneRevision == {<<"a", "b">>}
=============================================================================
