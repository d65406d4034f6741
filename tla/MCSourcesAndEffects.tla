-------------------------- MODULE MCSourcesAndEffects --------------------------
(***************************************************************************)
(* Instances of SourcesAndEffects for TLC.                                 *)
(***************************************************************************)
EXTENDS SourcesAndEffects, MCExceptionNotices
=============================================================================
