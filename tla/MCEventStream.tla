----------------------------- MODULE MCEventStream -----------------------------
(***************************************************************************)
(* Instances of EventStream for TLC: each mode in turn, with a ring that  *)
(* two events fill and a channel that one fills.                            *)
(***************************************************************************)
EXTENDS EventStream, TLC
=============================================================================
