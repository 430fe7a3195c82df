-------------------------- MODULE MCElectionStatus --------------------------
(***************************************************************************)
(* ElectionStatus for TLC: the constants are bounds and need no            *)
(* definitions; generations are bounded by the lifecycle changes, exports, *)
(* failures and restarts the bounds allow.                                 *)
(***************************************************************************)
EXTENDS ElectionStatus
=============================================================================
