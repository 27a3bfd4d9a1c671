--------------------------- MODULE MCDocumentSync ---------------------------
(* Small instances of DocumentSync for TLC.                                 *)
EXTENDS DocumentSync, TLC

Symmetry == Permutations(Op) \cup Permutations(Text)
=============================================================================
