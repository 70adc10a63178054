------------------------------- MODULE MCAssets -------------------------------
(* A small instance of Assets for TLC.                                         *)
EXTENDS Assets, TLC

CONSTANTS r1, r2

Symmetry == Permutations(Readers)
===============================================================================
