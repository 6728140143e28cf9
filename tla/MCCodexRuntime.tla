---------------------------- MODULE MCCodexRuntime ----------------------------
(***************************************************************************)
(* Instances of CodexRuntime for TLC.                                      *)
(***************************************************************************)
EXTENDS CodexRuntime, TLC

CONSTANTS g1, g2, c1, a1, s1, s2
=============================================================================
