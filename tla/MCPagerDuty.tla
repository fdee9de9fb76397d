---------------------------- MODULE MCPagerDuty ----------------------------
(***************************************************************************)
(* Small instances of PagerDuty for TLC.                                   *)
(***************************************************************************)
EXTENDS PagerDuty, TLC

Symmetry == Permutations(Workers)
=============================================================================
