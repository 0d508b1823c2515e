----------------------------- MODULE MCSentSync -----------------------------
(***************************************************************************)
(* SentSync for TLC.                                                       *)
(***************************************************************************)
EXTENDS SentSync

CONSTANTS here, there, sent, other
=============================================================================
