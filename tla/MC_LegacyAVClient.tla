-------------------------- MODULE MC_LegacyAVClient --------------------------
(***************************************************************************)
(* Model-checking instance of LegacyAVClient: the backend may answer the   *)
(* configuration request with a complete configuration, one without an     *)
(* election, or {}; three calls, two of them in flight at once.            *)
(***************************************************************************)
EXTENDS LegacyAVClient

=============================================================================
