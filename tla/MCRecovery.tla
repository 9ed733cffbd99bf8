------------------------------ MODULE MCRecovery ------------------------------
(***************************************************************************)
(* Finite instances of Recovery.                                           *)
(***************************************************************************)
EXTENDS Recovery, TLC

CONSTANTS c1, c2    \* model values

Symmetry == Permutations(Compilations)
=============================================================================
