------------------------------ MODULE Exchange ------------------------------
(***************************************************************************)
(* What a call to the daemon promises its caller, with no connection in    *)
(* sight: it is handled at most once, whoever gives up, hangs up or dies;  *)
(* it returns once; and it returns its own answer only after its handler   *)
(* has finished.  A call that returns Failed may not have been handled, or *)
(* may be handled later.  Requests implements this.                        *)
(***************************************************************************)
CONSTANTS Call, Failed, None

VARIABLES
  stage,   \* call -> "new", "asked", "running", "done"
  result   \* call -> what it returned, or None

vars == <<stage, result>>

Init == stage = [c \in Call |-> "new"] /\ result = [c \in Call |-> None]

Goes(c, from, to) ==
  stage[c] = from /\ stage' = [stage EXCEPT ![c] = to] /\ UNCHANGED result

\* Who was refused is not handled behind his back.
Ask(c) == result[c] = None /\ Goes(c, "new", "asked")

Return(c) ==
  /\ result[c] = None
  /\ \E r \in {Failed} \cup (IF stage[c] = "done" THEN {c} ELSE {}) :
       result' = [result EXCEPT ![c] = r]
  /\ UNCHANGED stage

Next == \E c \in Call : Ask(c) \/ Goes(c, "asked", "running") \/ Goes(c, "running", "done") \/ Return(c)

Spec == Init /\ [][Next]_vars
=============================================================================
