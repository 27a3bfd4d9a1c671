--------------------------- MODULE ConnectProofs ---------------------------
(***************************************************************************)
(* Proofs about Connect, for any number of clients and stops and any       *)
(* number of faults.  IInv holds whatever fails; ColdStart, on top of it,  *)
(* holds as long as nothing does.                                          *)
(***************************************************************************)
EXTENDS Connect, FiniteSetTheorems, TLAPS

USE ConnectAssumption DEF ConnectAssumption

\* What is used of the numbering of daemons.
LEMMA DaemonFacts == None \notin Daemon /\ 1 \in Daemon
<1>1. Cardinality(Client) \in Nat
  BY FS_CardinalityType
<1> QED
  BY <1>1 DEF Daemon

IInv == ConnectInv /\ ListenerIsReachable /\ StopTellsTheTruth
-----------------------------------------------------------------------------
LEMMA InitInv == ConnectInit => IInv
BY DaemonFacts DEF ConnectInit, IInv, ConnectInv, ConnectTypeOK, LivenessInv, ClientsInv, StopsInv, ListenerIsReachable,
   StopTellsTheTruth, Accepts, Holding, NeverListened, StartingUp, Dialing,
   Version

\* What daemons do.
LEMMA DaemonStepInv ==
  ASSUME IInv, NEW d \in Daemon, DaemonStep(d) \/ StartFails(d) \/ Sunset(d) \/ DaemonCrash(d) \/ Reuse(d)
  PROVE  IInv'
<1> USE DaemonFacts DEF IInv, ConnectInv, ConnectTypeOK, LivenessInv, ClientsInv, StopsInv, ListenerIsReachable,
    StopTellsTheTruth, Accepts, Holding, NeverListened, StartingUp, Dialing, daemonVars,
    clientVars, stopVars, NoFault, Fault, Become
<1>1. CASE Acquire(d)
  BY <1>1 DEF Acquire
<1>2. CASE WritePid(d)
  BY <1>2 DEF WritePid
<1>3. CASE GiveUpLock(d)
  BY <1>3 DEF GiveUpLock
<1>4. CASE RemoveStale(d)
  BY <1>4 DEF RemoveStale
<1>5. CASE Bind(d)
  BY <1>5 DEF Bind
<1>6. CASE CloseListener(d)
  BY <1>6 DEF CloseListener
<1>7. CASE RemoveSocket(d)
  BY <1>7 DEF RemoveSocket
<1>8. CASE Release(d)
  BY <1>8 DEF Release
<1>9. CASE Exit(d)
  BY <1>9 DEF Exit
<1>10. CASE StartFails(d)
  BY <1>10 DEF StartFails
<1>11. CASE Sunset(d)
  BY <1>11 DEF Sunset
<1>12. CASE DaemonCrash(d)
  BY <1>12 DEF DaemonCrash, Die
<1>13. CASE Reuse(d)
  BY <1>13 DEF Reuse
<1>14. QED
  BY <1>1, <1>2, <1>3, <1>4, <1>5, <1>6, <1>7, <1>8, <1>9, <1>10, <1>11, <1>12, <1>13 DEF
     DaemonStep

\* What Connect does.
LEMMA ClientStepInv ==
  ASSUME IInv, NEW c \in Client, ClientStep(c) \/ ClientCrash(c)
  PROVE  IInv'
<1> USE DaemonFacts DEF IInv, ConnectInv, ConnectTypeOK, LivenessInv, ClientsInv, StopsInv, ListenerIsReachable,
    StopTellsTheTruth, Accepts, Holding, NeverListened, StartingUp, Dialing, daemonVars,
    clientVars, stopVars, NoFault, Fault, Become, Goto,
    Onward, Return, Unborn
<1>1. CASE Dial(c)
  BY <1>1 DEF Dial
<1>2. CASE Welcome(c)
  BY <1>2 DEF Welcome
<1>3. CASE Mismatch(c)
  BY <1>3 DEF Mismatch
<1>4. CASE Refused(c)
  BY <1>4 DEF Refused
<1>5. CASE TakeSpawnLock(c)
  BY <1>5 DEF TakeSpawnLock
<1>6. CASE GiveUpSpawnLock(c)
  BY <1>6 DEF GiveUpSpawnLock
<1>7. CASE Spawn(c)
  BY <1>7 DEF Spawn
<1>8. CASE PollTimesOut(c)
  BY <1>8 DEF PollTimesOut
<1>9. CASE ClientCrash(c)
  BY <1>9 DEF ClientCrash
<1>10. QED
  BY <1>1, <1>2, <1>3, <1>4, <1>5, <1>6, <1>7, <1>8, <1>9 DEF ClientStep

\* What Stop does.
LEMMA StopStepInv ==
  ASSUME IInv, NEW s \in Stopper, StopStep(s)
  PROVE  IInv'
<1> USE DaemonFacts DEF IInv, ConnectInv, ConnectTypeOK, LivenessInv, ClientsInv, StopsInv, ListenerIsReachable,
    StopTellsTheTruth, Accepts, Holding, NeverListened, StartingUp, Dialing, daemonVars,
    clientVars, stopVars, NoFault, Fault, Become, Halt,
    End, ProcessAlive, Alive
<1>1. CASE ReadPid(s)
  BY <1>1 DEF ReadPid
<1>2. CASE NotListening(s)
  BY <1>2 DEF NotListening
<1>3. CASE Greeted(s)
  BY <1>3 DEF Greeted
<1>4. CASE RequestDrain(s)
  BY <1>4 DEF RequestDrain
<1>5. CASE DrainFails(s)
  BY <1>5 DEF DrainFails, KillOr
<1>6. CASE SocketGone(s)
  BY <1>6 DEF SocketGone
<1>7. CASE DaemonGone(s)
  BY <1>7 DEF DaemonGone
<1>8. CASE StillThere(s)
  BY <1>8 DEF StillThere
<1>9. CASE GiveUpWaiting(s)
  BY <1>9 DEF GiveUpWaiting, KillOr
<1>10. CASE Kill(s)
  BY <1>10 DEF Kill, Die
<1>11. CASE NoPid(s)
  BY <1>11 DEF NoPid
<1>12. QED
  BY <1>1, <1>2, <1>3, <1>4, <1>5, <1>6, <1>7, <1>8, <1>9, <1>10, <1>11 DEF StopStep
LEMMA StutterInv ==
  ASSUME IInv, UNCHANGED connectVars
  PROVE  IInv'
BY DEF IInv, ConnectInv, ConnectTypeOK, LivenessInv, ClientsInv, StopsInv, ListenerIsReachable,
   StopTellsTheTruth, Accepts, Holding, NeverListened, StartingUp, Dialing, daemonVars,
   clientVars, stopVars, NoFault, Fault, Become,
   connectVars

LEMMA NextInv ==
  ASSUME IInv, [ConnectNext]_connectVars
  PROVE  IInv'
<1>1. ASSUME NEW d \in Daemon,
             DaemonStep(d) \/ StartFails(d) \/ Sunset(d) \/ DaemonCrash(d) \/ Reuse(d)
      PROVE  IInv'
  BY <1>1, DaemonStepInv
<1>2. ASSUME NEW c \in Client, ClientStep(c) \/ ClientCrash(c) PROVE IInv'
  BY <1>2, ClientStepInv
<1>3. ASSUME NEW s \in Stopper, StopStep(s) PROVE IInv'
  BY <1>3, StopStepInv
<1>4. CASE Served \/ UNCHANGED connectVars
  BY <1>4, StutterInv DEF Served
<1>5. QED
  BY <1>1, <1>2, <1>3, <1>4 DEF ConnectNext

\* The locks are where daemons and clients think they are, a listener is the one that is
\* dialed, and "drained" is true: whatever crashes, times out or is stopped.
THEOREM Invariance == ConnectSpec => []IInv
BY InitInv, NextInv, PTL DEF ConnectSpec

THEOREM Locks == ConnectSpec => []ConnectInv
BY Invariance, PTL DEF IInv

THEOREM Reachable == ConnectSpec => []ListenerIsReachable
BY Invariance, PTL DEF IInv

THEOREM DrainedIsDrained == ConnectSpec => []StopTellsTheTruth
BY Invariance, PTL DEF IInv
-----------------------------------------------------------------------------
(* As long as nothing fails, times out or stops.                            *)

\* What daemons do.
LEMMA DaemonStepCold ==
  ASSUME IInv, ColdStart, NEW d \in Daemon, DaemonStep(d) \/ StartFails(d) \/ Sunset(d) \/ DaemonCrash(d) \/ Reuse(d)
  PROVE  ColdStart'
<1> USE DaemonFacts DEF ColdStart, OneDaemon, IInv, ConnectInv, ConnectTypeOK, LivenessInv, ClientsInv,
    StopsInv, ListenerIsReachable, Accepts, Holding, NeverListened, StartingUp, Dialing,
    daemonVars, clientVars, stopVars, NoFault, Fault, Become
<1>1. CASE Acquire(d)
  BY <1>1 DEF Acquire
<1>2. CASE WritePid(d)
  BY <1>2 DEF WritePid
<1>3. CASE GiveUpLock(d)
  BY <1>3 DEF GiveUpLock
<1>4. CASE RemoveStale(d)
  BY <1>4 DEF RemoveStale
<1>5. CASE Bind(d)
  BY <1>5 DEF Bind
<1>6. CASE CloseListener(d)
  BY <1>6 DEF CloseListener
<1>7. CASE RemoveSocket(d)
  BY <1>7 DEF RemoveSocket
<1>8. CASE Release(d)
  BY <1>8 DEF Release
<1>9. CASE Exit(d)
  BY <1>9 DEF Exit
<1>10. CASE StartFails(d)
  BY <1>10 DEF StartFails
<1>11. CASE Sunset(d)
  BY <1>11 DEF Sunset
<1>12. CASE DaemonCrash(d)
  BY <1>12 DEF DaemonCrash, Die
<1>13. CASE Reuse(d)
  BY <1>13 DEF Reuse
<1>14. QED
  BY <1>1, <1>2, <1>3, <1>4, <1>5, <1>6, <1>7, <1>8, <1>9, <1>10, <1>11, <1>12, <1>13 DEF
     DaemonStep

\* What Connect does.
LEMMA ClientStepCold ==
  ASSUME IInv, ColdStart, NEW c \in Client, ClientStep(c) \/ ClientCrash(c)
  PROVE  ColdStart'
<1> USE DaemonFacts DEF ColdStart, OneDaemon, IInv, ConnectInv, ConnectTypeOK, LivenessInv, ClientsInv,
    StopsInv, ListenerIsReachable, Accepts, Holding, NeverListened, StartingUp, Dialing,
    daemonVars, clientVars, stopVars, NoFault, Fault, Become, Goto, Onward, Return,
    Unborn, Alive
<1>1. CASE Dial(c)
  BY <1>1 DEF Dial
<1>2. CASE Welcome(c)
  BY <1>2 DEF Welcome
<1>3. CASE Mismatch(c)
  BY <1>3 DEF Mismatch
<1>4. CASE Refused(c)
  BY <1>4 DEF Refused
<1>5. CASE TakeSpawnLock(c)
  BY <1>5 DEF TakeSpawnLock
<1>6. CASE GiveUpSpawnLock(c)
  BY <1>6 DEF GiveUpSpawnLock
<1>7. CASE Spawn(c)
  BY <1>7 DEF Spawn
<1>8. CASE PollTimesOut(c)
  BY <1>8 DEF PollTimesOut
<1>9. CASE ClientCrash(c)
  BY <1>9 DEF ClientCrash
<1>10. QED
  BY <1>1, <1>2, <1>3, <1>4, <1>5, <1>6, <1>7, <1>8, <1>9 DEF ClientStep

\* A stop disturbs.
LEMMA StopStepCold ==
  ASSUME IInv, ColdStart, NEW s \in Stopper, StopStep(s)
  PROVE  ColdStart'
<1> USE DaemonFacts DEF ColdStart, OneDaemon, IInv, ConnectInv, ConnectTypeOK, LivenessInv, ClientsInv,
    StopsInv, ListenerIsReachable, Accepts, Holding, NeverListened, StartingUp, Dialing,
    daemonVars, clientVars, stopVars, NoFault, Fault, Become, Halt, End,
    ProcessAlive, Alive
<1>1. CASE ReadPid(s)
  BY <1>1 DEF ReadPid
<1>2. CASE NotListening(s)
  BY <1>2 DEF NotListening
<1>3. CASE Greeted(s)
  BY <1>3 DEF Greeted
<1>4. CASE RequestDrain(s)
  BY <1>4 DEF RequestDrain
<1>5. CASE DrainFails(s)
  BY <1>5 DEF DrainFails, KillOr
<1>6. CASE SocketGone(s)
  BY <1>6 DEF SocketGone
<1>7. CASE DaemonGone(s)
  BY <1>7 DEF DaemonGone
<1>8. CASE StillThere(s)
  BY <1>8 DEF StillThere
<1>9. CASE GiveUpWaiting(s)
  BY <1>9 DEF GiveUpWaiting, KillOr
<1>10. CASE Kill(s)
  BY <1>10 DEF Kill, Die
<1>11. CASE NoPid(s)
  BY <1>11 DEF NoPid
<1>12. QED
  BY <1>1, <1>2, <1>3, <1>4, <1>5, <1>6, <1>7, <1>8, <1>9, <1>10, <1>11 DEF StopStep
LEMMA NextCold ==
  ASSUME IInv, ColdStart, [ConnectNext]_connectVars
  PROVE  ColdStart'
<1>1. ASSUME NEW d \in Daemon,
             DaemonStep(d) \/ StartFails(d) \/ Sunset(d) \/ DaemonCrash(d) \/ Reuse(d)
      PROVE  ColdStart'
  BY <1>1, DaemonStepCold
<1>2. ASSUME NEW c \in Client, ClientStep(c) \/ ClientCrash(c) PROVE ColdStart'
  BY <1>2, ClientStepCold
<1>3. ASSUME NEW s \in Stopper, StopStep(s) PROVE ColdStart'
  BY <1>3, StopStepCold
<1>4. CASE Served \/ UNCHANGED connectVars
  BY <1>4 DEF Served, connectVars, daemonVars, clientVars, stopVars, ColdStart, OneDaemon,
     StartingUp
<1>5. QED
  BY <1>1, <1>2, <1>3, <1>4 DEF ConnectNext

THEOREM ColdStarts == ConnectSpec => []ColdStart
<1>1. ConnectInit => ColdStart
  BY DaemonFacts DEF ConnectInit, ColdStart, OneDaemon, StartingUp, Version
<1>2. QED
  BY <1>1, NextCold, Invariance, PTL DEF ConnectSpec

\* One daemon comes of any number of concurrent first calls.
THEOREM ExactlyOneDaemon == ConnectSpec => []OneDaemon
<1>1. ColdStart => OneDaemon
  BY DEF ColdStart, OneDaemon
<1>2. QED
  BY <1>1, ColdStarts, PTL

\* Whoever has to replace a daemon of another version is served in the end.
THEOREM UndisturbedSucceeds == ConnectSpec => []FailsOnlyIfDisturbed
<1>1. ColdStart => FailsOnlyIfDisturbed
  BY DEF ColdStart, FailsOnlyIfDisturbed
<1>2. QED
  BY <1>1, ColdStarts, PTL
-----------------------------------------------------------------------------
(* The life of a daemon.                                                    *)

\* Only d moves, by a step of DaemonLife or within a phase.
Advances(d) ==
  /\ \A e \in Daemon \ {d} : daemon'[e] = daemon[e]
  /\ \/ Phase(d)' = Phase(d)
     \/ Phase(d) = "outside" /\ Phase(d)' = "holding" /\ lock = None
     \/ Phase(d) = "holding" /\ Phase(d)' = "accepting"
     \/ Phase(d) \in {"holding", "accepting"} /\ Phase(d)' = "closing"
     \/ Phase(d) # "over" /\ Phase(d)' = "over"

LifeNext == [Life!Next]_([d \in Daemon |-> Phase(d)])

\* A daemon that has the workspace holds the liveness lock.
LEMMA HasTheLock ==
  ASSUME IInv, NEW d \in Daemon
  PROVE  Life!Has(d) <=> lock = d
BY DEF IInv, ConnectInv, ConnectTypeOK, LivenessInv, Life!Has, Phase, Holding, StartingUp

LEMMA Advance ==
  ASSUME IInv, NEW d \in Daemon, Advances(d)
  PROVE  LifeNext
<1> DEFINE phase == [e \in Daemon |-> Phase(e)]
<1>1. \A e \in Daemon \ {d} : Phase(e)' = Phase(e)
  BY DEF Advances, Phase
<1>2. ASSUME NEW p, Phase(d)' = p PROVE phase' = [phase EXCEPT ![d] = p]
  BY <1>1, <1>2
<1>3. CASE Phase(d)' = Phase(d)
  <2>1. phase' = phase
    BY <1>1, <1>3
  <2>2. QED
    BY <2>1 DEF LifeNext
<1>4. CASE Phase(d) = "outside" /\ Phase(d)' = "holding" /\ lock = None
  <2>1. \A e \in Daemon : ~Life!Has(e)
    BY <1>4, HasTheLock, DaemonFacts
  <2>2. Life!Enter(d)
    BY <1>2, <1>4, <2>1 DEF Life!Enter, Life!Become
  <2>3. QED
    BY <2>2 DEF LifeNext, Life!Next
<1>5. CASE Phase(d) = "holding" /\ Phase(d)' = "accepting"
  <2>1. Life!Listen(d)
    BY <1>2, <1>5 DEF Life!Listen, Life!Become
  <2>2. QED
    BY <2>1 DEF LifeNext, Life!Next
<1>6. CASE Phase(d) \in {"holding", "accepting"} /\ Phase(d)' = "closing"
  <2>1. Life!StandDown(d)
    BY <1>2, <1>6 DEF Life!StandDown, Life!Become
  <2>2. QED
    BY <2>1 DEF LifeNext, Life!Next
<1>7. CASE Phase(d) # "over" /\ Phase(d)' = "over"
  <2>1. Life!End(d)
    BY <1>2, <1>7 DEF Life!End, Life!Become
  <2>2. QED
    BY <2>1 DEF LifeNext, Life!Next
<1>8. QED
  BY <1>3, <1>4, <1>5, <1>6, <1>7 DEF Advances

\* Where the daemons stay where they are, so does everybody's life.
LEMMA NobodyMoves ==
  ASSUME UNCHANGED daemon
  PROVE  LifeNext
BY DEF LifeNext, Phase

\* What daemons do.
LEMMA DaemonStepLife ==
  ASSUME IInv, NEW d \in Daemon, DaemonStep(d) \/ StartFails(d) \/ Sunset(d) \/ DaemonCrash(d) \/ Reuse(d)
  PROVE  LifeNext
<1>1. daemon \in [Daemon -> StartingUp \cup Holding \cup {"unborn", "released", "gone"}]
  BY DEF IInv, ConnectInv, ConnectTypeOK
<1>2. CASE Reuse(d)
  BY <1>2, NobodyMoves DEF Reuse
<1>3. CASE Acquire(d) \/ WritePid(d) \/ GiveUpLock(d) \/ RemoveStale(d) \/ Bind(d)
  <2>1. Advances(d)
    BY <1>1, <1>3 DEF Acquire, WritePid, GiveUpLock, RemoveStale, Bind, Advances, Phase, Become
  <2>2. QED
    BY <2>1, Advance
<1>4. CASE CloseListener(d) \/ RemoveSocket(d) \/ Release(d) \/ Exit(d)
  <2>1. Advances(d)
    BY <1>1, <1>4 DEF CloseListener, RemoveSocket, Release, Exit, Advances, Phase, Become
  <2>2. QED
    BY <2>1, Advance
<1>5. CASE StartFails(d) \/ Sunset(d) \/ DaemonCrash(d)
  <2>1. Advances(d)
    BY <1>1, <1>5 DEF StartFails, Sunset, DaemonCrash, Die, Alive, Advances, Phase, Become, Holding, StartingUp
  <2>2. QED
    BY <2>1, Advance
<1>6. QED
  BY <1>2, <1>3, <1>4, <1>5 DEF DaemonStep

\* What Connect does: it spawns, and it drains a daemon of another version.
LEMMA ClientStepLife ==
  ASSUME IInv, NEW c \in Client, ClientStep(c) \/ ClientCrash(c)
  PROVE  LifeNext
<1>1. /\ daemon \in [Daemon -> StartingUp \cup Holding \cup {"unborn", "released", "gone"}]
      /\ conn[c] \in Daemon \cup {None}
  BY DEF IInv, ConnectInv, ConnectTypeOK
<1>2. CASE Mismatch(c)
  <2>1. PICK d \in Daemon : d = conn[c]
    BY <1>1, <1>2 DEF Mismatch
  <2>2. Advances(d)
    BY <1>1, <1>2, <2>1 DEF Mismatch, Advances, Phase, Become
  <2>3. QED
    BY <2>2, Advance
<1>3. CASE Spawn(c)
  <2>1. PICK d \in Unborn : Become(d, "waiting")
    BY <1>3 DEF Spawn
  <2>2. d \in Daemon /\ Advances(d)
    BY <1>1, <2>1 DEF Unborn, Advances, Phase, Become
  <2>3. QED
    BY <2>2, Advance
<1>4. CASE ~Mismatch(c) /\ ~Spawn(c)
  <2>1. UNCHANGED daemon
    BY <1>4 DEF ClientStep, ClientCrash, Dial, Welcome, Refused, TakeSpawnLock, GiveUpSpawnLock,
       PollTimesOut, daemonVars
  <2>2. QED
    BY <2>1, NobodyMoves
<1>5. QED
  BY <1>2, <1>3, <1>4

\* What Stop does: it asks for a drain, and it kills.
LEMMA StopStepLife ==
  ASSUME IInv, NEW s \in Stopper, StopStep(s)
  PROVE  LifeNext
<1>1. /\ daemon \in [Daemon -> StartingUp \cup Holding \cup {"unborn", "released", "gone"}]
      /\ path \in Daemon \cup {None} /\ target[s] \in Daemon \cup {None}
      /\ drained[s] \in Daemon \cup {None}
  BY DEF IInv, ConnectInv, ConnectTypeOK
<1>2. CASE NotListening(s) /\ daemon' # daemon
  <2>1. PICK d \in Daemon : d = path
    BY <1>1, <1>2 DEF NotListening, Accepts
  <2>2. Advances(d)
    BY <1>1, <1>2, <2>1 DEF NotListening, Accepts, Advances, Phase, Become
  <2>3. QED
    BY <2>2, Advance
<1>3. CASE RequestDrain(s) /\ daemon' # daemon
  <2>1. PICK d \in Daemon : d = drained[s]
    BY <1>1, <1>3 DEF RequestDrain, IInv, ConnectInv, StopsInv
  <2>2. Advances(d)
    BY <1>1, <1>3, <2>1 DEF RequestDrain, Advances, Phase, Become
  <2>3. QED
    BY <2>2, Advance
<1>4. CASE Kill(s) /\ daemon' # daemon
  <2>1. PICK d \in Daemon : d = target[s]
    BY <1>1, <1>4 DEF Kill
  <2>2. Advances(d)
    BY <1>1, <1>4, <2>1 DEF Kill, Die, Alive, Advances, Phase, Become, Holding, StartingUp
  <2>3. QED
    BY <2>2, Advance
<1>5. CASE ~(NotListening(s) \/ RequestDrain(s) \/ Kill(s)) \/ UNCHANGED daemon
  <2>1. UNCHANGED daemon
    BY <1>5 DEF StopStep, ReadPid, Greeted, DrainFails, SocketGone, DaemonGone, StillThere,
       GiveUpWaiting, NoPid, daemonVars
  <2>2. QED
    BY <2>1, NobodyMoves
<1>6. QED
  BY <1>2, <1>3, <1>4, <1>5

\* Of all daemons that clients start, old and new, crashed and killed, one at a time has
\* the workspace; it listens only then, closes before it lets go, and never comes back:
\* what acquireLiveness and the order of Run's deferred calls are for.
THEOREM OneDaemonAtATime == ConnectSpec => ImplementsLife
<1>1. ConnectInit => Life!Init
  <2> SUFFICES ASSUME ConnectInit PROVE Life!Init
    OBVIOUS
  <2>1. IInv
    BY InitInv
  <2>2. \A d, e \in Daemon : Life!Has(d) /\ Life!Has(e) => d = e
    BY <2>1, HasTheLock
  <2>3. \A d \in Daemon : Phase(d) \in {"outside", "accepting", "over"}
    BY DEF ConnectInit, Phase
  <2>4. QED
    BY <2>2, <2>3 DEF Life!Init
<1>2. ASSUME IInv, [ConnectNext]_connectVars PROVE LifeNext
  <2>1. CASE Served \/ UNCHANGED connectVars
    BY <2>1, NobodyMoves DEF Served, connectVars, daemonVars
  <2>2. QED
    BY <1>2, <2>1, DaemonStepLife, ClientStepLife, StopStepLife DEF ConnectNext
<1>3. QED
  BY <1>1, <1>2, Invariance, PTL DEF ConnectSpec, ImplementsLife, Life!Spec, LifeNext
=============================================================================
