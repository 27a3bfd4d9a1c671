------------------------------ MODULE MCConnect ------------------------------
(* Small instances of Connect for TLC.                                      *)
EXTENDS Connect, TLC

Symmetry == Permutations(Client)
=============================================================================
