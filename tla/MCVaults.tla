------------------------------ MODULE MCVaults ------------------------------
(* Instances of Vaults for TLC.                                            *)
EXTENDS Vaults, TLC

Symmetry == Permutations(Callers)
=============================================================================
