-------------------------- MODULE MCThreadEvent ----------------------------
(***************************************************************************)
(* Three threads on one event: enough for two waiters and a thread that    *)
(* sets or resets, in any roles.                                           *)
(***************************************************************************)
EXTENDS ThreadEvent
=============================================================================
