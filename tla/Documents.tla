------------------------------ MODULE Documents ------------------------------
(***************************************************************************)
(* What callers of one language server are promised about its documents:   *)
(* a closed document is opened with a text, an open one is closed, and     *)
(* nothing else ever happens to it.  Speculative edits, views made for the *)
(* index, crashes and restarts do not show.  DocumentSync implements this, *)
(* and so does the language server of Workspace.                           *)
(***************************************************************************)
CONSTANTS Path, Text, Closed

VARIABLE docs   \* Path -> its text, or Closed

Init == docs = [p \in Path |-> Closed]

\* With whatever text; there may be infinitely many.
Open(p) ==
  /\ docs[p] = Closed /\ docs'[p] \in Text
  /\ docs' = [docs EXCEPT ![p] = docs'[p]]
Close(p) == docs[p] # Closed /\ docs' = [docs EXCEPT ![p] = Closed]

Next == \E p \in Path : Open(p) \/ Close(p)

Spec == Init /\ [][Next]_docs
=============================================================================
