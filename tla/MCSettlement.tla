---------------------------- MODULE MCSettlement ----------------------------
(***************************************************************************)
(* Small instances of the settlement pipeline for TLC.                       *)
(***************************************************************************)
EXTENDS Settlement, TLC

CONSTANTS p1, p2

Symmetry == Permutations(Players)
=============================================================================
