------------------------------- MODULE Sunset -------------------------------
(***************************************************************************)
(* The liveness actor of one daemon (daemon/sunset.go).  It counts the     *)
(* connected clients and the requests in flight, remembers when something  *)
(* last happened, and decides, on the goroutine of Server.Run, when the    *)
(* daemon stops serving: on a signal (ctx), on a drain request, or after a *)
(* full idle period without clients, requests or file activity.            *)
(*                                                                         *)
(* Every operation below is one critical section of sunset.mu, so one      *)
(* action.  Time is discrete and relative: `age` is the time since         *)
(* lastActivity, saturated at Idle (nothing in the code distinguishes      *)
(* longer ages), and `timer` the time until the actor's timer fires; 0     *)
(* means that its channel is readable.                                     *)
(***************************************************************************)
EXTENDS Naturals

CONSTANT Idle          \* s.idle, in ticks

\* Idle = 0 is the untimed actor: the idle period may have elapsed at any moment.  (For
\* the code 0 is the default period, Options.withDefaults.)
ASSUME IdleAssumption == Idle \in Nat

VARIABLES
  clients,    \* s.clients
  inflight,   \* s.inflight
  draining,   \* s.draining
  reason,     \* s.reason, "none" until the daemon drains
  drainReq,   \* s.drainReq, a channel of capacity 1: is it full?
  poke,       \* s.poke, a channel of capacity 1: is it full?
  age,        \* min(now - s.lastActivity, Idle)
  timer,      \* ticks until the timer of run fires
  ctxDone,    \* ctx of Run is done (a signal arrived)
  actor       \* "off" before run is called, "running", "returned"

sunsetVars ==
  <<clients, inflight, draining, reason, drainReq, poke, age, timer, ctxDone, actor>>

Reasons == {"context", "drain", "idle"}

SunsetFlags ==
  draining \in BOOLEAN /\ drainReq \in BOOLEAN /\ poke \in BOOLEAN /\ ctxDone \in BOOLEAN

SunsetTypeOK ==
  /\ SunsetFlags
  /\ clients \in Nat
  /\ inflight \in Nat
  /\ reason \in Reasons \cup {"none"}
  /\ age \in 0..Idle
  /\ timer \in 0..Idle
  /\ actor \in {"off", "running", "returned"}

\* newSunset: nothing is connected and the clock starts now.  run has not been
\* called yet, so its timer does not exist.
SunsetInit ==
  /\ clients = 0 /\ inflight = 0
  /\ draining = FALSE /\ reason = "none"
  /\ drainReq = FALSE /\ poke = FALSE
  /\ age = 0 /\ timer = Idle
  /\ ctxDone = FALSE /\ actor = "off"
-----------------------------------------------------------------------------
(* What the rest of the daemon calls.                                      *)

\* Mutant: a client is admitted without looking at the draining flag.
AddClientAlways ==
  /\ clients' = clients + 1
  /\ age' = 0 /\ poke' = TRUE
  /\ UNCHANGED <<inflight, draining, reason, drainReq, timer, ctxDone, actor>>

\* addClient, admitted: refused once draining (Refused).
AddClient ==
  /\ ~draining
  /\ clients' = clients + 1
  /\ age' = 0 /\ poke' = TRUE
  /\ UNCHANGED <<inflight, draining, reason, drainReq, timer, ctxDone, actor>>

\* addClient and beginRequest once draining: they answer false and change
\* nothing.
Refused == draining /\ UNCHANGED sunsetVars

\* removeClient.
RemoveClient ==
  /\ clients' = IF clients > 0 THEN clients - 1 ELSE clients
  /\ age' = 0 /\ poke' = TRUE
  /\ UNCHANGED <<inflight, draining, reason, drainReq, timer, ctxDone, actor>>

\* beginRequest, accepted.  It does not wake the actor.
BeginRequest ==
  /\ ~draining
  /\ inflight' = inflight + 1
  /\ age' = 0
  /\ UNCHANGED <<clients, draining, reason, drainReq, poke, timer, ctxDone, actor>>

\* endRequest.  Closing s.quiet is the condition inflight = 0 that the only
\* reader of the channel, waitQuiet, waits for: after draining no request
\* begins, so the condition stays true once it is.
EndRequest ==
  /\ inflight' = IF inflight > 0 THEN inflight - 1 ELSE inflight
  /\ age' = 0 /\ poke' = TRUE
  /\ UNCHANGED <<clients, draining, reason, drainReq, timer, ctxDone, actor>>

\* noteActivity: the watcher saw a file change.
NoteActivity ==
  /\ age' = 0 /\ poke' = TRUE
  /\ UNCHANGED <<clients, inflight, draining, reason, drainReq, timer, ctxDone, actor>>

\* requestDrain.  Reading `draining` and sending are two critical sections: a
\* caller that read FALSE may still send after another drain has begun, and a
\* full channel loses the send.  Nothing reads the channel after that.
RequestDrain ==
  /\ drainReq' = TRUE \/ (draining /\ UNCHANGED drainReq)
  /\ UNCHANGED <<clients, inflight, draining, reason, poke, age, timer, ctxDone, actor>>
-----------------------------------------------------------------------------
(* The environment: time and signals.                                      *)

Tick ==
  /\ age < Idle \/ (actor = "running" /\ timer \in 1..Idle)
  /\ age' = IF age < Idle THEN age + 1 ELSE age
  /\ timer' = IF actor = "running" /\ timer \in 1..Idle THEN timer - 1 ELSE timer
  /\ UNCHANGED <<clients, inflight, draining, reason, drainReq, poke, ctxDone, actor>>

Signal ==
  /\ ~ctxDone
  /\ ctxDone' = TRUE
  /\ UNCHANGED <<clients, inflight, draining, reason, drainReq, poke, age, timer, actor>>
-----------------------------------------------------------------------------
(* The actor: sunset.run, one action per case of its select.               *)

\* run is called: the timer is armed for a full idle period.
StartActor ==
  /\ actor = "off"
  /\ actor' = "running" /\ timer' = Idle
  /\ UNCHANGED <<clients, inflight, draining, reason, drainReq, poke, age, ctxDone>>

\* setDraining: the first reason is kept.
SetDraining(why) ==
  /\ draining' = TRUE
  /\ reason' = IF draining THEN reason ELSE why

\* Mutant: with no time remaining the timer is left stopped (no value of 0..Idle).
UntilIdleStopped ==
  IF clients > 0 \/ inflight > 0 THEN Idle
  ELSE IF age < Idle THEN Idle - age ELSE Idle + 1

\* untilIdle.  The nanosecond the code returns instead of a remaining time of
\* zero or less is a timer that fires at once.
UntilIdle ==
  IF clients > 0 \/ inflight > 0 THEN Idle ELSE Idle - age

ActorContext ==
  /\ actor = "running" /\ ctxDone
  /\ SetDraining("context")
  /\ actor' = "returned"
  /\ UNCHANGED <<clients, inflight, drainReq, poke, age, timer, ctxDone>>

ActorDrain ==
  /\ actor = "running" /\ drainReq
  /\ drainReq' = FALSE
  /\ SetDraining("drain")
  /\ actor' = "returned"
  /\ UNCHANGED <<clients, inflight, poke, age, timer, ctxDone>>

ActorPoke ==
  /\ actor = "running" /\ poke
  /\ poke' = FALSE
  /\ timer' = UntilIdle
  /\ UNCHANGED <<clients, inflight, draining, reason, drainReq, age, ctxDone, actor>>

\* tryIdleDrain succeeds exactly here.  The check and the flag are set under one
\* lock.  (Its first branch, `draining` already set, needs a second actor.)
MayIdleDrain == clients = 0 /\ inflight = 0 /\ age >= Idle

ActorTimer ==
  /\ actor = "running" /\ timer = 0
  /\ IF draining \/ MayIdleDrain
     THEN /\ SetDraining("idle")
          /\ actor' = "returned"
          /\ UNCHANGED timer
     ELSE /\ timer' = UntilIdle
          /\ UNCHANGED <<draining, reason, actor>>
  /\ UNCHANGED <<clients, inflight, drainReq, poke, age, ctxDone>>

Actor == ActorContext \/ ActorDrain \/ ActorPoke \/ ActorTimer
=============================================================================
