------------------------------- MODULE RWLock -------------------------------
(***************************************************************************)
(* What a readers-writer lock promises: readers share it, a writer has it  *)
(* alone.  MutationGate implements it.                                     *)
(***************************************************************************)
CONSTANTS Readers, Writers

VARIABLE holders

Init == holders = {}

Share(r)   == holders \cap Writers = {} /\ holders' = holders \cup {r}
Own(w)     == holders = {} /\ holders' = {w}
Release(p) == p \in holders /\ holders' = holders \ {p}

Next ==
  \/ \E r \in Readers : Share(r)
  \/ \E w \in Writers : Own(w)
  \/ \E p \in Readers \cup Writers : Release(p)

Spec == Init /\ [][Next]_holders

\* A writer excludes everybody else.
Exclusion == \A w \in Writers : w \in holders => holders = {w}
=============================================================================
