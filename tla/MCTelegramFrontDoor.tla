-------------------------- MODULE MCTelegramFrontDoor --------------------------
(***************************************************************************)
(* Instances of TelegramFrontDoor for TLC.                                 *)
(***************************************************************************)
EXTENDS TelegramFrontDoor

\* Bound: updates arrive, and time passes the expiry of a set, between two
\* batches or while a review waits for its check.  An update that arrives during
\* a batch is read by the next one, so nothing the front door does depends on it.
WorldMovesBetween ==
    /\ inbox' # inbox => door.pc = "idle"
    /\ late' # late => door.pc \in {"idle", "reviewing"}
=============================================================================
