----------------------------- MODULE MCWorkspace -----------------------------
(* The instances of Workspace that TLC checks.                              *)
EXTENDS Workspace, TLC

\* Requests, sessions and the user's texts are interchangeable.
MCSymmetry == Permutations(Call) \cup Permutations(Session) \cup Permutations(Saved)
=============================================================================
