-------------------------- MODULE MCContextSwitch --------------------------
(***************************************************************************)
(* Two tasks in the smallest pages the switch fits into.                   *)
(***************************************************************************)
EXTENDS ContextSwitch
=============================================================================
