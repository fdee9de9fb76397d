----------------------------- MODULE MCAutoSync -----------------------------
(***************************************************************************)
(* Small instances of AutoSync for TLC.                                    *)
(***************************************************************************)
EXTENDS AutoSync, TLC

Symmetry == Permutations(Configs)
=============================================================================
