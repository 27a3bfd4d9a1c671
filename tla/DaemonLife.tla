----------------------------- MODULE DaemonLife -----------------------------
(***************************************************************************)
(* What the daemons of one workspace promise each other and their clients: *)
(* at most one has the workspace, it listens only while it has it, it      *)
(* closes its listener before it lets go, and it never comes back.         *)
(* Connect implements this for all daemons that are ever started, and      *)
(* Daemon, which has the inside of one of them, for that one.              *)
(***************************************************************************)
CONSTANT Daemons

VARIABLE phase   \* Daemons -> where it is in its life

Phases == {"outside", "holding", "accepting", "closing", "over"}
Has(d) == phase[d] \in {"holding", "accepting", "closing"}

\* Somebody may be serving already.
Init ==
  /\ phase \in [Daemons -> {"outside", "accepting", "over"}]
  /\ \A d, e \in Daemons : Has(d) /\ Has(e) => d = e

Become(d, p) == phase' = [phase EXCEPT ![d] = p]

Enter(d)     == phase[d] = "outside" /\ (\A e \in Daemons : ~Has(e)) /\ Become(d, "holding")
Listen(d)    == phase[d] = "holding" /\ Become(d, "accepting")
StandDown(d) == phase[d] \in {"holding", "accepting"} /\ Become(d, "closing")
\* It lets go, gives up, or dies.
End(d)       == phase[d] # "over" /\ Become(d, "over")

Next == \E d \in Daemons : Enter(d) \/ Listen(d) \/ StandDown(d) \/ End(d)

Spec == Init /\ [][Next]_phase
=============================================================================
