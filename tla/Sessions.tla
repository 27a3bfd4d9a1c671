------------------------------ MODULE Sessions ------------------------------
(***************************************************************************)
(* What a language server's callers are promised about its restarts: they  *)
(* are served by one session at a time, each session is served at most     *)
(* once, and a later one is never followed by an earlier one.              *)
(* DocumentSync and Supervisor implement this, each for its own picture of *)
(* a restart.                                                              *)
(***************************************************************************)
EXTENDS Naturals

CONSTANT Generation   \* the sessions there may be, numbered in order

VARIABLES
  session,   \* the one that is served, 0 if none
  coming     \* those that may still be served

sessionVars == <<session, coming>>

Init ==
  /\ session \in Generation \cup {0}
  /\ coming = {g \in Generation : g > session}

\* A start succeeds; sessions that were overtaken are never served.
Serve(g) ==
  /\ session = 0 /\ g \in coming
  /\ session' = g
  /\ coming' \subseteq {h \in coming : h > g}

\* A session ends, or a start fails.
Lose == session' = 0 /\ coming' \subseteq coming
Fail == session' = session /\ coming' \subseteq coming

Next == Lose \/ Fail \/ \E g \in Generation : Serve(g)

Spec == Init /\ [][Next]_sessionVars
=============================================================================
