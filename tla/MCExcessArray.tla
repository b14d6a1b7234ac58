----------------------------- MODULE MCExcessArray -----------------------------
(* Model checking of ExcessArray.                                           *)
EXTENDS ExcessArray, TLC

Symmetry == Permutations(Peers)
================================================================================
