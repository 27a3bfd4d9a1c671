--------------------------- MODULE SupervisorProofs ---------------------------
(***************************************************************************)
(* Proofs about Supervisor, for any number of callers and failures, with   *)
(* and without Shutdown.                                                   *)
(***************************************************************************)
EXTENDS Supervisor, FiniteSetTheorems, TLAPS

USE SupervisorAssumption DEF SupervisorAssumption, None

(* The inductive strengthening, in the phases of Shutdown: until it begins, *)
(* until stop has taken the connection away, and after.                     *)

\* Until stop runs, the session is the one that callers are served with.
Serving == down \in {"up", "stop"}

\* An attempt whose workers were accepted and that has not failed yet.
Before(a) == attempt[a] \in {"register", "initialize", "check", "replay", "publish"}
Published(a) == attempt[a] = "record" /\ ~failed[a]
Live(a) == Before(a) \/ Published(a)

\* A crash whose restart has not been decided: reported, asleep, or waiting.
Pending(a) == lost[a] = "schedule" \/ restart[a] \in {"asleep", "awaiting", "deciding"}

\* Attempts are begun one after another, m.ready is the channel of the latest, and the loss
\* of a connection is reported once and restarts the server once.
InOrder ==
  \A a \in Attempts :
    /\ attempt[a] = "none" <=> a > ready
    /\ attempt[a] \notin {"none", "begin"} => captured[a] # None
    /\ attempt[a] = "closing" => failed[a]
    /\ attempt[a] \in {"none", "begin", "spawn", "spawned"} \/ Before(a) => ~failed[a]
    /\ attempt[a] \in {"none", "begin", "spawn", "spawned"} => a \notin registered
    /\ a \notin registered => lost[a] \in {"none", "pending"}
    /\ attempt[a] \in {"none", "begin", "spawn"} => conn[a] = "none" /\ proc[a] = "none"
    /\ conn[a] # "closed" => lost[a] = "none"
    /\ lost[a] # "done" => restart[a] = "none"
    /\ restart[a] = "deciding" => awaited[a] \in closedReady

\* Until Shutdown the latest attempt is the only one under way, its channel is closed by
\* itself, and a new one begins only when it is over: the states in which callers begin
\* one say so, and in backoff only the one pending restart begins one, which has waited
\* for the latest attempt.
OneAtATime ==
  ~Closing =>
    /\ Running \subseteq {ready}
    /\ \A a \in Attempts : attempt[a] \notin {"none", "begin"} => captured[a] = a
    /\ ~panicked /\ closedReady = {a \in Attempts : attempt[a] = "done"}
    /\ state \in {"stopped", "crashed", "ready"} => Running = {}
    /\ cur # None => state \notin {"stopped", "backoff"}
    /\ \A a \in Attempts : Pending(a) => state = "backoff" /\ awaited[a] = ready
    /\ \A a, b \in Attempts : Pending(a) /\ Pending(b) => a = b
    /\ active \subseteq {session} \ {None}

\* No attempt comes to live once Shutdown has begun, so there is one at most, and an
\* attempt of later begins neither shares its channel nor replaces its session.
OneLive ==
  /\ \A a, b \in Attempts : Live(a) /\ Live(b) => a = b
  /\ \A a \in Attempts : Live(a) => captured[a] = a
  /\ \A a, b \in Attempts : Live(a) /\ a = ready /\ b \in Running => a = b
  /\ \A a, b \in Attempts :
       Live(a) /\ attempt[b] \notin {"none", "begin", "signal", "done"} /\ captured[b] = a => a = b

\* The session is installed by the live attempt and goes with its connection.
SessionKept ==
  /\ ~Closing /\ session # None =>
       state = "ready" \/ (state = "starting" /\ ready = session /\ Published(session))
  /\ state = "ready" => Serving /\ session # None /\ \A a \in Attempts : ~Live(a)
  /\ \A a \in Attempts : Live(a) /\ a = ready /\ state = "starting" =>
       Serving /\ (Published(a) => session = a)
  /\ down # "grace" /\ session # None => session = cur
  /\ \A a \in Attempts : Before(a) => session = None

IInv == SupTypeOK /\ InOrder /\ OneAtATime /\ OneLive /\ SessionKept
-----------------------------------------------------------------------------
\* The attempts are numbered from one on, so None is none of them.
LEMMA Numbers == \A a \in Attempts : a \in Nat /\ a # 0
<1>1. Cardinality(Caller) \in Nat
  BY FS_CardinalityType
<1>2. QED
  BY <1>1 DEF Attempts

\* A start attempt, up to the exposure of its process.
LEMMA StartKept ==
  ASSUME IInv, NEW a \in Attempts,
         CaptureReady(a) \/ Spawn(a) \/ StartWorkers(a) \/ Register(a)
  PROVE  IInv'
<1> USE Numbers DEF IInv, machine, attempts, peers, workers, callers, closing, bounds,
        Running, Live, Before, Published, Pending, Serving, Closing, At, Fail, KillIf
<1>1. CASE CaptureReady(a)
  <2> USE <1>1 DEF CaptureReady
  <2>1. SupTypeOK'
    BY DEF SupTypeOK
  <2>2. InOrder'
    BY DEF InOrder, SupTypeOK
  <2>3. OneAtATime'
    BY DEF OneAtATime, OneLive, SessionKept, InOrder, SupTypeOK
  <2>4. OneLive'
    BY DEF OneAtATime, OneLive, SupTypeOK, InOrder
  <2>5. SessionKept'
    BY DEF SessionKept, OneLive, OneAtATime, InOrder, SupTypeOK
  <2>6. QED
    BY <2>1, <2>2, <2>3, <2>4, <2>5
<1>2. CASE Spawn(a)
  <2> USE <1>2 DEF Spawn
  <2>1. CASE Fail /\ At(a, "record") /\ failed' = [failed EXCEPT ![a] = TRUE] /\ UNCHANGED <<proc, conn>>
    <3> USE <2>1
    <3>1. SupTypeOK'
      BY DEF SupTypeOK
    <3>2. InOrder'
      BY DEF InOrder, SupTypeOK
    <3>3. OneAtATime'
      BY DEF OneAtATime, OneLive, SessionKept, InOrder, SupTypeOK
    <3>4. OneLive'
      BY DEF OneAtATime, OneLive, SupTypeOK, InOrder
    <3>5. SessionKept'
      BY DEF SessionKept, OneLive, OneAtATime, InOrder, SupTypeOK
    <3>6. QED
      BY <3>1, <3>2, <3>3, <3>4, <3>5
  <2>2. CASE /\ At(a, "spawned") /\ proc' = [proc EXCEPT ![a] = "alive"]
             /\ conn' = [conn EXCEPT ![a] = "open"] /\ UNCHANGED <<failed, failures>>
    <3> USE <2>2
    <3>1. SupTypeOK'
      BY DEF SupTypeOK
    <3>2. InOrder'
      BY DEF InOrder, SupTypeOK
    <3>3. OneAtATime'
      BY DEF OneAtATime, OneLive, SessionKept, InOrder, SupTypeOK
    <3>4. OneLive'
      BY DEF OneAtATime, OneLive, SupTypeOK, InOrder
    <3>5. SessionKept'
      BY DEF SessionKept, OneLive, OneAtATime, InOrder, SupTypeOK
    <3>6. QED
      BY <3>1, <3>2, <3>3, <3>4, <3>5
  <2>3. QED
    BY <2>1, <2>2
<1>3. CASE StartWorkers(a)
  <2> USE <1>3 DEF StartWorkers
  <2>1. CASE Closing
    <3> USE <2>1
    <3>1. SupTypeOK'
      BY DEF SupTypeOK
    <3>2. InOrder'
      BY DEF InOrder, SupTypeOK
    <3>3. OneAtATime'
      BY DEF OneAtATime, OneLive, SessionKept, InOrder, SupTypeOK
    <3>4. OneLive'
      <4>1. \A b \in Attempts : Live(b)' => Live(b) /\ b # a
        BY DEF SupTypeOK
      <4>2. Running' \subseteq Running
        BY DEF SupTypeOK
      <4>3. \A b \in Attempts : attempt'[b] \notin {"none", "begin", "signal", "done"} => attempt[b] \notin {"none", "begin", "signal", "done"}
        BY DEF SupTypeOK
      <4>4. QED
        BY <4>1, <4>2, <4>3 DEF OneLive
    <3>5. SessionKept'
      BY DEF SessionKept, OneLive, OneAtATime, InOrder, SupTypeOK
    <3>6. QED
      BY <3>1, <3>2, <3>3, <3>4, <3>5
  <2>2. CASE ~Closing
    <3> USE <2>2
    <3>1. SupTypeOK'
      BY DEF SupTypeOK
    <3>2. InOrder'
      BY DEF InOrder, SupTypeOK
    <3>3. OneAtATime'
      BY DEF OneAtATime, OneLive, SessionKept, InOrder, SupTypeOK
    <3>4. OneLive'
      <4>1. captured[a] = a /\ \A b \in Running : b = a
        BY DEF OneAtATime
      <4>2. \A b \in Attempts : attempt'[b] \notin {"none", "signal", "done"} => b \in Running
        BY DEF SupTypeOK
      <4>3. \A b \in Attempts : attempt'[b] \notin {"none", "signal", "done"} => b = a
        BY <4>1, <4>2
      <4>4. captured' = captured
        OBVIOUS
      <4>5. QED
        BY <4>1, <4>3, <4>4 DEF OneLive
    <3>5. SessionKept'
      BY DEF SessionKept, OneLive, OneAtATime, InOrder, SupTypeOK
    <3>6. QED
      BY <3>1, <3>2, <3>3, <3>4, <3>5
  <2>3. QED
    BY <2>1, <2>2
<1>4. CASE Register(a)
  <2> USE <1>4 DEF Register
  <2>1. CASE state = "starting"
    <3> USE <2>1
    <3>1. SupTypeOK'
      BY DEF SupTypeOK
    <3>2. InOrder'
      BY DEF InOrder, SupTypeOK
    <3>3. OneAtATime'
      BY DEF OneAtATime, OneLive, SessionKept, InOrder, SupTypeOK
    <3>4. OneLive'
      BY DEF OneAtATime, OneLive, SupTypeOK, InOrder
    <3>5. SessionKept'
      BY DEF SessionKept, OneLive, OneAtATime, InOrder, SupTypeOK
    <3>6. QED
      BY <3>1, <3>2, <3>3, <3>4, <3>5
  <2>2. CASE state # "starting"
    <3> USE <2>2
    <3>1. SupTypeOK'
      BY DEF SupTypeOK
    <3>2. InOrder'
      BY DEF InOrder, SupTypeOK
    <3>3. OneAtATime'
      BY DEF OneAtATime, OneLive, SessionKept, InOrder, SupTypeOK
    <3>4. OneLive'
      BY DEF OneAtATime, OneLive, SupTypeOK, InOrder
    <3>5. SessionKept'
      BY DEF SessionKept, OneLive, OneAtATime, InOrder, SupTypeOK
    <3>6. QED
      BY <3>1, <3>2, <3>3, <3>4, <3>5
  <2>3. QED
    BY <2>1, <2>2
<1>5. QED
  BY <1>1, <1>2, <1>3, <1>4

\* Its handshake, up to its publication.
LEMMA HandshakeKept ==
  ASSUME IInv, NEW a \in Attempts,
         Initialize(a) \/ CheckCurrent(a) \/ Replay(a) \/ Publish(a)
  PROVE  IInv'
<1> USE Numbers DEF IInv, machine, attempts, peers, workers, callers, closing, bounds,
        Running, Live, Before, Published, Pending, Serving, Closing, At, Fail
<1>1. CASE Initialize(a)
  <2> USE <1>1 DEF Initialize
  <2>1. SupTypeOK'
    BY DEF SupTypeOK
  <2>2. InOrder'
    BY DEF InOrder, SupTypeOK
  <2>3. OneAtATime'
    BY DEF OneAtATime, OneLive, SessionKept, InOrder, SupTypeOK
  <2>4. OneLive'
    <3>1. \A b \in Attempts : Live(b)' => Live(b)
      BY DEF SupTypeOK
    <3>2. Running' \subseteq Running
      BY DEF SupTypeOK
    <3>3. \A b \in Attempts : attempt'[b] \notin {"none", "begin", "signal", "done"} => attempt[b] \notin {"none", "begin", "signal", "done"}
      BY DEF SupTypeOK
    <3>4. QED
      BY <3>1, <3>2, <3>3 DEF OneLive
  <2>5. SessionKept'
    BY DEF SessionKept, OneLive, OneAtATime, InOrder, SupTypeOK
  <2>6. QED
    BY <2>1, <2>2, <2>3, <2>4, <2>5
<1>2. CASE CheckCurrent(a)
  <2> USE <1>2 DEF CheckCurrent
  <2>1. SupTypeOK'
    BY DEF SupTypeOK
  <2>2. InOrder'
    BY DEF InOrder, SupTypeOK
  <2>3. OneAtATime'
    BY DEF OneAtATime, OneLive, SessionKept, InOrder, SupTypeOK
  <2>4. OneLive'
    BY DEF OneAtATime, OneLive, SupTypeOK, InOrder
  <2>5. SessionKept'
    BY DEF SessionKept, OneLive, OneAtATime, InOrder, SupTypeOK
  <2>6. QED
    BY <2>1, <2>2, <2>3, <2>4, <2>5
<1>3. CASE Replay(a)
  <2> USE <1>3 DEF Replay
  <2>1. SupTypeOK'
    BY DEF SupTypeOK
  <2>2. InOrder'
    BY DEF InOrder, SupTypeOK
  <2>3. OneAtATime'
    BY DEF OneAtATime, OneLive, SessionKept, InOrder, SupTypeOK
  <2>4. OneLive'
    <3>1. \A b \in Attempts : Live(b)' => Live(b)
      BY DEF SupTypeOK
    <3>2. Running' \subseteq Running
      BY DEF SupTypeOK
    <3>3. \A b \in Attempts : attempt'[b] \notin {"none", "begin", "signal", "done"} => attempt[b] \notin {"none", "begin", "signal", "done"}
      BY DEF SupTypeOK
    <3>4. QED
      BY <3>1, <3>2, <3>3 DEF OneLive
  <2>5. SessionKept'
    BY DEF SessionKept, OneLive, OneAtATime, InOrder, SupTypeOK
  <2>6. QED
    BY <2>1, <2>2, <2>3, <2>4, <2>5
<1>4. CASE Publish(a)
  <2> USE <1>4 DEF Publish
  <2>1. CASE conn[a] = "open" /\ state = "starting" /\ cur = a
    <3> USE <2>1
    <3>1. SupTypeOK'
      BY DEF SupTypeOK
    <3>2. InOrder'
      BY DEF InOrder, SupTypeOK
    <3>3. OneAtATime'
      BY DEF OneAtATime, OneLive, SessionKept, InOrder, SupTypeOK
    <3>4. OneLive'
      <4>1. Live(a) /\ \A b \in Attempts : Live(b)' => b = a
        BY DEF OneLive, SupTypeOK
      <4>2. Running' = Running
        BY DEF SupTypeOK
      <4>3. \A b \in Attempts : attempt'[b] \notin {"none", "begin", "signal", "done"} => attempt[b] \notin {"none", "begin", "signal", "done"}
        BY DEF SupTypeOK
      <4>4. QED
        BY <4>1, <4>2, <4>3 DEF OneLive
    <3>5. SessionKept'
      <4>1. /\ Before(a) /\ session' = a /\ cur = a /\ a # None
            /\ attempt' = [attempt EXCEPT ![a] = "record"]
            /\ UNCHANGED <<state, ready, cur, failed, down>>
        OBVIOUS
      <4>2. \A b \in Attempts : b # a => ~Live(b)
        BY DEF OneLive
      <4>3. \A b \in Attempts : b # a => ~Live(b)'
        BY <4>1, <4>2 DEF SupTypeOK
      <4>4. Published(a)' /\ (~Closing => ready = a)
        <5>1. ~failed[a] /\ a \in Running
          BY <4>1 DEF InOrder, SupTypeOK
        <5>2. QED
          BY <4>1, <5>1 DEF OneAtATime, SupTypeOK
      <4>5. QED
        BY <4>1, <4>3, <4>4 DEF SessionKept, SupTypeOK
    <3>6. QED
      BY <3>1, <3>2, <3>3, <3>4, <3>5
  <2>2. CASE ~(conn[a] = "open" /\ state = "starting" /\ cur = a)
    <3> USE <2>2
    <3>1. SupTypeOK'
      BY DEF SupTypeOK
    <3>2. InOrder'
      BY DEF InOrder, SupTypeOK
    <3>3. OneAtATime'
      BY DEF OneAtATime, OneLive, SessionKept, InOrder, SupTypeOK
    <3>4. OneLive'
      <4>1. \A b \in Attempts : Live(b)' => Live(b)
        BY DEF SupTypeOK
      <4>2. Running' \subseteq Running
        BY DEF SupTypeOK
      <4>3. \A b \in Attempts : attempt'[b] \notin {"none", "begin", "signal", "done"} => attempt[b] \notin {"none", "begin", "signal", "done"}
        BY DEF SupTypeOK
      <4>4. QED
        BY <4>1, <4>2, <4>3 DEF OneLive
    <3>5. SessionKept'
      BY DEF SessionKept, OneLive, OneAtATime, InOrder, SupTypeOK
    <3>6. QED
      BY <3>1, <3>2, <3>3, <3>4, <3>5
  <2>3. QED
    BY <2>1, <2>2
<1>5. QED
  BY <1>1, <1>2, <1>3, <1>4

\* Its end.
LEMMA OutcomeKept ==
  ASSUME IInv, NEW a \in Attempts,
         Abort(a) \/ AbortKill(a) \/ Record(a) \/ SignalReady(a)
  PROVE  IInv'
<1> USE Numbers DEF IInv, machine, attempts, peers, workers, callers, closing, bounds,
        Running, Live, Before, Published, Pending, Serving, Closing, At, KillIf
<1>1. CASE Abort(a)
  <2> USE <1>1 DEF Abort
  <2>1. CASE conn[a] = "open"
    <3> USE <2>1
    <3>1. SupTypeOK'
      BY DEF SupTypeOK
    <3>2. InOrder'
      BY DEF InOrder, SupTypeOK
    <3>3. OneAtATime'
      <4> SUFFICES ASSUME ~Closing PROVE OneAtATime'
        BY DEF OneAtATime
      <4>1. Running' = Running
        BY DEF SupTypeOK
      <4>2. \A b \in Attempts : Pending(b)' => Pending(b)
        BY DEF SupTypeOK
      <4>3. {b \in Attempts : attempt'[b] = "done"} = {b \in Attempts : attempt[b] = "done"}
        BY DEF SupTypeOK
      <4>4. captured[a] = a
        BY DEF OneAtATime
      <4>5. \A b \in Attempts : attempt'[b] \notin {"none", "begin"} => captured'[b] = b
        BY <4>4 DEF OneAtATime, SupTypeOK
      <4>6. QED
        BY <4>1, <4>2, <4>3, <4>5 DEF OneAtATime
    <3>4. OneLive'
      <4>1. \A b \in Attempts : Live(b)' => Live(b) /\ b # a
        BY DEF SupTypeOK
      <4>2. Running' \subseteq Running
        BY DEF SupTypeOK
      <4>3. \A b \in Attempts : attempt'[b] \notin {"none", "begin", "signal", "done"} => attempt[b] \notin {"none", "begin", "signal", "done"}
        BY DEF SupTypeOK
      <4>4. QED
        BY <4>1, <4>2, <4>3 DEF OneLive
    <3>5. SessionKept'
      BY DEF SessionKept, OneLive, OneAtATime, InOrder, SupTypeOK
    <3>6. QED
      BY <3>1, <3>2, <3>3, <3>4, <3>5
  <2>2. CASE conn[a] # "open"
    <3> USE <2>2
    <3>1. SupTypeOK'
      BY DEF SupTypeOK
    <3>2. InOrder'
      BY DEF InOrder, SupTypeOK
    <3>3. OneAtATime'
      <4> SUFFICES ASSUME ~Closing PROVE OneAtATime'
        BY DEF OneAtATime
      <4>1. Running' = Running
        BY DEF SupTypeOK
      <4>2. \A b \in Attempts : Pending(b)' => Pending(b)
        BY DEF SupTypeOK
      <4>3. {b \in Attempts : attempt'[b] = "done"} = {b \in Attempts : attempt[b] = "done"}
        BY DEF SupTypeOK
      <4>4. captured[a] = a
        BY DEF OneAtATime
      <4>5. \A b \in Attempts : attempt'[b] \notin {"none", "begin"} => captured'[b] = b
        BY <4>4 DEF OneAtATime, SupTypeOK
      <4>6. QED
        BY <4>1, <4>2, <4>3, <4>5 DEF OneAtATime
    <3>4. OneLive'
      <4>1. \A b \in Attempts : Live(b)' => Live(b)
        BY DEF SupTypeOK
      <4>2. Running' \subseteq Running
        BY DEF SupTypeOK
      <4>3. \A b \in Attempts : attempt'[b] \notin {"none", "begin", "signal", "done"} => attempt[b] \notin {"none", "begin", "signal", "done"}
        BY DEF SupTypeOK
      <4>4. QED
        BY <4>1, <4>2, <4>3 DEF OneLive
    <3>5. SessionKept'
      BY DEF SessionKept, OneLive, OneAtATime, InOrder, SupTypeOK
    <3>6. QED
      BY <3>1, <3>2, <3>3, <3>4, <3>5
  <2>3. QED
    BY <2>1, <2>2
<1>2. CASE AbortKill(a)
  <2> USE <1>2 DEF AbortKill
  <2>1. SupTypeOK'
    BY DEF SupTypeOK
  <2>2. InOrder'
    BY DEF InOrder, SupTypeOK
  <2>3. OneAtATime'
    BY DEF OneAtATime, OneLive, SessionKept, InOrder, SupTypeOK
  <2>4. OneLive'
    BY DEF OneAtATime, OneLive, SupTypeOK, InOrder
  <2>5. SessionKept'
    BY DEF SessionKept, OneLive, OneAtATime, InOrder, SupTypeOK
  <2>6. QED
    BY <2>1, <2>2, <2>3, <2>4, <2>5
<1>3. CASE Record(a)
  <2> USE <1>3 DEF Record
  <2>1. SupTypeOK'
    BY DEF SupTypeOK
  <2>2. InOrder'
    BY DEF InOrder, SupTypeOK
  <2>3. OneAtATime'
    BY DEF OneAtATime, OneLive, SessionKept, InOrder, SupTypeOK
  <2>4. OneLive'
    BY DEF OneAtATime, OneLive, SupTypeOK, InOrder
  <2>5. SessionKept'
    BY DEF SessionKept, OneLive, OneAtATime, InOrder, SupTypeOK
  <2>6. QED
    BY <2>1, <2>2, <2>3, <2>4, <2>5
<1>4. CASE SignalReady(a)
  <2> USE <1>4 DEF SignalReady
  <2>1. SupTypeOK'
    <3>1. captured[a] \in Attempts
      BY DEF SupTypeOK, InOrder
    <3>2. closedReady' \subseteq Attempts
      BY <3>1 DEF SupTypeOK
    <3>3. QED
      BY <3>2 DEF SupTypeOK
  <2>2. InOrder'
    BY DEF InOrder, SupTypeOK
  <2>3. OneAtATime'
    BY DEF OneAtATime, OneLive, SessionKept, InOrder, SupTypeOK
  <2>4. OneLive'
    BY DEF OneAtATime, OneLive, SupTypeOK, InOrder
  <2>5. SessionKept'
    BY DEF SessionKept, OneLive, OneAtATime, InOrder, SupTypeOK
  <2>6. QED
    BY <2>1, <2>2, <2>3, <2>4, <2>5
<1>5. QED
  BY <1>1, <1>2, <1>3, <1>4

\* The process and its connection.
LEMMA PeerKept ==
  ASSUME IInv, NEW a \in Attempts,
         Crash(a) \/ Exit(a) \/ Hangup(a) \/ ConnectionClosed(a)
  PROVE  IInv'
<1> USE Numbers DEF IInv, machine, attempts, peers, workers, callers, closing, bounds,
        Running, Live, Before, Published, Pending, Serving, Closing, At, Fail, KillIf
<1>1. CASE Crash(a)
  <2> USE <1>1 DEF Crash
  <2>1. SupTypeOK'
    BY DEF SupTypeOK
  <2>2. InOrder'
    BY DEF InOrder, SupTypeOK
  <2>3. OneAtATime'
    BY DEF OneAtATime, OneLive, SessionKept, InOrder, SupTypeOK
  <2>4. OneLive'
    BY DEF OneAtATime, OneLive, SupTypeOK, InOrder
  <2>5. SessionKept'
    BY DEF SessionKept, OneLive, OneAtATime, InOrder, SupTypeOK
  <2>6. QED
    BY <2>1, <2>2, <2>3, <2>4, <2>5
<1>2. CASE Exit(a)
  <2> USE <1>2 DEF Exit
  <2>1. SupTypeOK'
    BY DEF SupTypeOK
  <2>2. InOrder'
    BY DEF InOrder, SupTypeOK
  <2>3. OneAtATime'
    BY DEF OneAtATime, OneLive, SessionKept, InOrder, SupTypeOK
  <2>4. OneLive'
    BY DEF OneAtATime, OneLive, SupTypeOK, InOrder
  <2>5. SessionKept'
    BY DEF SessionKept, OneLive, OneAtATime, InOrder, SupTypeOK
  <2>6. QED
    BY <2>1, <2>2, <2>3, <2>4, <2>5
<1>3. CASE Hangup(a)
  <2> USE <1>3 DEF Hangup
  <2>1. SupTypeOK'
    BY DEF SupTypeOK
  <2>2. InOrder'
    BY DEF InOrder, SupTypeOK
  <2>3. OneAtATime'
    BY DEF OneAtATime, OneLive, SessionKept, InOrder, SupTypeOK
  <2>4. OneLive'
    BY DEF OneAtATime, OneLive, SupTypeOK, InOrder
  <2>5. SessionKept'
    BY DEF SessionKept, OneLive, OneAtATime, InOrder, SupTypeOK
  <2>6. QED
    BY <2>1, <2>2, <2>3, <2>4, <2>5
<1>4. CASE ConnectionClosed(a)
  <2> USE <1>4 DEF ConnectionClosed
  <2>1. SupTypeOK'
    BY DEF SupTypeOK
  <2>2. InOrder'
    BY DEF InOrder, SupTypeOK
  <2>3. OneAtATime'
    BY DEF OneAtATime, OneLive, SessionKept, InOrder, SupTypeOK
  <2>4. OneLive'
    BY DEF OneAtATime, OneLive, SupTypeOK, InOrder
  <2>5. SessionKept'
    BY DEF SessionKept, OneLive, OneAtATime, InOrder, SupTypeOK
  <2>6. QED
    BY <2>1, <2>2, <2>3, <2>4, <2>5
<1>5. QED
  BY <1>1, <1>2, <1>3, <1>4

\* A new attempt comes after all others.
LEMMA Begun ==
  ASSUME IInv, NEW owner, BeginAttempt(owner)
  PROVE  /\ next \in Attempts /\ next # None /\ ready' = next /\ attempt[next] = "none"
         /\ \A b \in Attempts : b > ready' <=> b > ready /\ b # next
         /\ attempt' = [attempt EXCEPT ![next] = "begin"] /\ attempt'[next] = "begin"
         /\ \A b \in Attempts : b # next => attempt'[b] = attempt[b]
<1> USE Numbers DEF IInv, BeginAttempt
<1>1. next \in Attempts /\ next = ready + 1 /\ ready \in Nat /\ next \in Nat
  <2>1. ready \in Attempts \cup {0} /\ next = ready + 1
    BY DEF SupTypeOK
  <2>2. ready \in Nat
    BY <2>1
  <2>3. QED
    BY <2>1, <2>2
<1>2. ready' = next /\ attempt' = [attempt EXCEPT ![next] = "begin"]
  OBVIOUS
<1>3. \A b \in Attempts : b > next <=> b > ready /\ b # next
  BY <1>1
<1>4. attempt[next] = "none"
  BY <1>1 DEF InOrder
<1>5. attempt'[next] = "begin" /\ \A b \in Attempts : b # next => attempt'[b] = attempt[b]
  BY <1>1, <1>2 DEF SupTypeOK
<1>6. QED
  BY <1>1, <1>2, <1>3, <1>4, <1>5

\* The worker that restarts after a crash.
LEMMA RestartKept ==
  ASSUME IInv, NEW a \in Attempts,
         ScheduleRestart(a) \/ WakeUp(a) \/ AwaitAttempt(a) \/ Restart(a) \/ RestartDone(a)
  PROVE  IInv'
<1> USE Numbers DEF IInv, machine, attempts, peers, workers, callers, closing, bounds,
        Running, Live, Before, Published, Pending, Serving, Closing, At, BeginAttempt
<1>1. CASE ScheduleRestart(a)
  <2> USE <1>1 DEF ScheduleRestart
  <2>1. SupTypeOK'
    BY DEF SupTypeOK
  <2>2. InOrder'
    BY DEF InOrder, SupTypeOK
  <2>3. OneAtATime'
    BY DEF OneAtATime, OneLive, SessionKept, InOrder, SupTypeOK
  <2>4. OneLive'
    BY DEF OneAtATime, OneLive, SupTypeOK, InOrder
  <2>5. SessionKept'
    BY DEF SessionKept, OneLive, OneAtATime, InOrder, SupTypeOK
  <2>6. QED
    BY <2>1, <2>2, <2>3, <2>4, <2>5
<1>2. CASE WakeUp(a)
  <2> USE <1>2 DEF WakeUp
  <2>1. SupTypeOK'
    BY DEF SupTypeOK
  <2>2. InOrder'
    BY DEF InOrder, SupTypeOK
  <2>3. OneAtATime'
    BY DEF OneAtATime, OneLive, SessionKept, InOrder, SupTypeOK
  <2>4. OneLive'
    BY DEF OneAtATime, OneLive, SupTypeOK, InOrder
  <2>5. SessionKept'
    BY DEF SessionKept, OneLive, OneAtATime, InOrder, SupTypeOK
  <2>6. QED
    BY <2>1, <2>2, <2>3, <2>4, <2>5
<1>3. CASE AwaitAttempt(a)
  <2> USE <1>3 DEF AwaitAttempt
  <2>1. SupTypeOK'
    BY DEF SupTypeOK
  <2>2. InOrder'
    BY DEF InOrder, SupTypeOK
  <2>3. OneAtATime'
    BY DEF OneAtATime, OneLive, SessionKept, InOrder, SupTypeOK
  <2>4. OneLive'
    BY DEF OneAtATime, OneLive, SupTypeOK, InOrder
  <2>5. SessionKept'
    BY DEF SessionKept, OneLive, OneAtATime, InOrder, SupTypeOK
  <2>6. QED
    BY <2>1, <2>2, <2>3, <2>4, <2>5
<1>4. CASE Restart(a)
  <2> USE <1>4 DEF Restart
  <2>1. CASE state # "backoff"
    <3> USE <2>1
    <3>1. SupTypeOK'
      BY DEF SupTypeOK
    <3>2. InOrder'
      BY DEF InOrder, SupTypeOK
    <3>3. OneAtATime'
      BY DEF OneAtATime, OneLive, SessionKept, InOrder, SupTypeOK
    <3>4. OneLive'
      BY DEF OneAtATime, OneLive, SupTypeOK, InOrder
    <3>5. SessionKept'
      BY DEF SessionKept, OneLive, OneAtATime, InOrder, SupTypeOK
    <3>6. QED
      BY <3>1, <3>2, <3>3, <3>4, <3>5
  <2>2. CASE state = "backoff"
    <3> USE <2>2
    <3>1. SupTypeOK'
      BY DEF SupTypeOK
    <3>2. InOrder'
      BY DEF InOrder, SupTypeOK
    <3>3. OneAtATime'
      <4> SUFFICES ASSUME ~Closing PROVE OneAtATime'
        BY DEF OneAtATime
      <4>1. \A b \in Attempts : ~Pending(b)'
        BY DEF OneAtATime, InOrder, SupTypeOK
      <4>2. Running = {} /\ session = None
        BY DEF OneAtATime, SessionKept, InOrder, SupTypeOK
      <4>3. \A b \in Attempts : b \in Running' => b = ready'
        BY <4>2 DEF SupTypeOK
      <4>4. /\ \A b \in Attempts : attempt'[b] \notin {"none", "begin"} => captured'[b] = b
            /\ closedReady' = {b \in Attempts : attempt'[b] = "done"}
        BY DEF OneAtATime, InOrder, SupTypeOK
      <4>5. QED
        BY <4>1, <4>2, <4>3, <4>4 DEF OneAtATime, SupTypeOK
    <3>4. OneLive'
      <4>1. \A b \in Attempts : Live(b)' => Live(b) /\ b # ready'
        BY DEF InOrder, SupTypeOK
      <4>2. \A b \in Attempts : attempt'[b] \notin {"none", "begin", "signal", "done"} => attempt'[b] = attempt[b]
        BY DEF SupTypeOK
      <4>3. QED
        BY <4>1, <4>2 DEF OneLive
    <3>5. SessionKept'
      BY DEF SessionKept, OneLive, OneAtATime, InOrder, SupTypeOK
    <3>6. QED
      BY <3>1, <3>2, <3>3, <3>4, <3>5
  <2>3. QED
    BY <2>1, <2>2
<1>5. CASE RestartDone(a)
  <2> USE <1>5 DEF RestartDone
  <2>1. SupTypeOK'
    BY DEF SupTypeOK
  <2>2. InOrder'
    BY DEF InOrder, SupTypeOK
  <2>3. OneAtATime'
    BY DEF OneAtATime, OneLive, SessionKept, InOrder, SupTypeOK
  <2>4. OneLive'
    BY DEF OneAtATime, OneLive, SupTypeOK, InOrder
  <2>5. SessionKept'
    BY DEF SessionKept, OneLive, OneAtATime, InOrder, SupTypeOK
  <2>6. QED
    BY <2>1, <2>2, <2>3, <2>4, <2>5
<1>6. QED
  BY <1>1, <1>2, <1>3, <1>4, <1>5

\* Callers.
LEMMA CallerKept ==
  ASSUME IInv, NEW c \in Caller,
         Acquire(c) \/ EnsureReady(c) \/ WaitReady(c) \/ OwnReady(c) \/ CallerGivesUp(c)
  PROVE  IInv'
<1> USE Numbers DEF IInv, machine, attempts, peers, workers, callers, closing, bounds,
        Running, Live, Before, Published, Pending, Serving, Closing, At, BeginAttempt
<1>1. CASE Acquire(c)
  <2> USE <1>1 DEF Acquire
  <2>1. SupTypeOK'
    BY DEF SupTypeOK
  <2>2. InOrder'
    BY DEF InOrder, SupTypeOK
  <2>3. OneAtATime'
    BY DEF OneAtATime, OneLive, SessionKept, InOrder, SupTypeOK
  <2>4. OneLive'
    BY DEF OneAtATime, OneLive, SupTypeOK, InOrder
  <2>5. SessionKept'
    BY DEF SessionKept, OneLive, OneAtATime, InOrder, SupTypeOK
  <2>6. QED
    BY <2>1, <2>2, <2>3, <2>4, <2>5
<1>2. CASE EnsureReady(c)
  <2> USE <1>2 DEF EnsureReady
  <2>1. CASE UNCHANGED <<state, ready, attempt, begun, next>>
    <3> USE <2>1
    <3>1. SupTypeOK'
      BY DEF SupTypeOK
    <3>2. InOrder'
      BY DEF InOrder, SupTypeOK
    <3>3. OneAtATime'
      BY DEF OneAtATime, OneLive, SessionKept, InOrder, SupTypeOK
    <3>4. OneLive'
      BY DEF OneAtATime, OneLive, SupTypeOK, InOrder
    <3>5. SessionKept'
      BY DEF SessionKept, OneLive, OneAtATime, InOrder, SupTypeOK
    <3>6. QED
      BY <3>1, <3>2, <3>3, <3>4, <3>5
  <2>2. CASE BeginAttempt(c)
    <3> USE <2>2
    <3>0. /\ next \in Attempts /\ ready' = next /\ attempt[next] = "none" /\ attempt'[next] = "begin"
          /\ \A b \in Attempts : b > ready' <=> b > ready /\ b # next
          /\ \A b \in Attempts : b # next => attempt'[b] = attempt[b]
      <4>1. IInv /\ BeginAttempt(c)
        OBVIOUS
      <4>2. QED
        BY <4>1, Begun
    <3>1. SupTypeOK'
      BY DEF SupTypeOK
    <3>2. InOrder'
      <4>1. \A b \in Attempts : (attempt'[b] = "none" <=> b > ready') /\ (b # next => attempt'[b] = attempt[b])
        BY <3>0 DEF InOrder
      <4>2. attempt[next] = "none" /\ attempt'[next] = "begin"
        BY <3>0
      <4>3. \A b \in Attempts : Before(b)' = Before(b)
        <5> TAKE b \in Attempts
        <5>1. CASE b = next
          BY <5>1, <4>2
        <5>2. CASE b # next
          BY <5>2, <4>1
        <5>3. QED
          BY <5>1, <5>2
      <4>4. UNCHANGED <<failed, captured, closedReady, conn, proc, lost, registered, restart, awaited>>
        OBVIOUS
      <4>5. QED
        BY <4>1, <4>2, <4>3, <4>4 DEF InOrder
    <3>3. OneAtATime'
      <4> SUFFICES ASSUME ~Closing PROVE OneAtATime'
        BY DEF OneAtATime
      <4>1. \A b \in Attempts : ~Pending(b)'
        BY DEF OneAtATime, InOrder, SupTypeOK
      <4>2. Running = {} /\ session = None
        BY DEF OneAtATime, SessionKept, InOrder, SupTypeOK
      <4>3. \A b \in Attempts : b \in Running' => b = ready'
        BY <4>2 DEF SupTypeOK
      <4>4. /\ \A b \in Attempts : attempt'[b] \notin {"none", "begin"} => captured'[b] = b
            /\ closedReady' = {b \in Attempts : attempt'[b] = "done"}
        <5>1. \A b \in Attempts : /\ attempt'[b] = "done" <=> attempt[b] = "done"
                                  /\ attempt'[b] \notin {"none", "begin"} => attempt'[b] = attempt[b]
          BY <3>0
        <5>2. QED
          BY <5>1 DEF OneAtATime
      <4>5. state' = "starting" /\ ~panicked' /\ cur' = cur /\ active' \subseteq {session'} \ {None}
        BY DEF OneAtATime
      <4>6. QED
        BY <4>1, <4>3, <4>4, <4>5 DEF OneAtATime
    <3>4. OneLive'
      <4>1. \A b \in Attempts : Live(b)' => Live(b) /\ b # ready'
        BY DEF InOrder, SupTypeOK
      <4>2. \A b \in Attempts : attempt'[b] \notin {"none", "begin", "signal", "done"} => attempt'[b] = attempt[b]
        BY DEF SupTypeOK
      <4>3. QED
        BY <4>1, <4>2 DEF OneLive
    <3>5. SessionKept'
      BY DEF SessionKept, OneLive, OneAtATime, InOrder, SupTypeOK
    <3>6. QED
      BY <3>1, <3>2, <3>3, <3>4, <3>5
  <2>3. QED
    BY <2>1, <2>2
<1>3. CASE WaitReady(c)
  <2> USE <1>3 DEF WaitReady
  <2>1. SupTypeOK'
    BY DEF SupTypeOK
  <2>2. InOrder'
    BY DEF InOrder, SupTypeOK
  <2>3. OneAtATime'
    BY DEF OneAtATime, OneLive, SessionKept, InOrder, SupTypeOK
  <2>4. OneLive'
    BY DEF OneAtATime, OneLive, SupTypeOK, InOrder
  <2>5. SessionKept'
    BY DEF SessionKept, OneLive, OneAtATime, InOrder, SupTypeOK
  <2>6. QED
    BY <2>1, <2>2, <2>3, <2>4, <2>5
<1>4. CASE OwnReady(c)
  <2> USE <1>4 DEF OwnReady
  <2>1. SupTypeOK'
    BY DEF SupTypeOK
  <2>2. InOrder'
    BY DEF InOrder, SupTypeOK
  <2>3. OneAtATime'
    BY DEF OneAtATime, OneLive, SessionKept, InOrder, SupTypeOK
  <2>4. OneLive'
    BY DEF OneAtATime, OneLive, SupTypeOK, InOrder
  <2>5. SessionKept'
    BY DEF SessionKept, OneLive, OneAtATime, InOrder, SupTypeOK
  <2>6. QED
    BY <2>1, <2>2, <2>3, <2>4, <2>5
<1>5. CASE CallerGivesUp(c)
  <2> USE <1>5 DEF CallerGivesUp
  <2>1. SupTypeOK'
    BY DEF SupTypeOK
  <2>2. InOrder'
    BY DEF InOrder, SupTypeOK
  <2>3. OneAtATime'
    BY DEF OneAtATime, OneLive, SessionKept, InOrder, SupTypeOK
  <2>4. OneLive'
    BY DEF OneAtATime, OneLive, SupTypeOK, InOrder
  <2>5. SessionKept'
    BY DEF SessionKept, OneLive, OneAtATime, InOrder, SupTypeOK
  <2>6. QED
    BY <2>1, <2>2, <2>3, <2>4, <2>5
<1>6. QED
  BY <1>1, <1>2, <1>3, <1>4, <1>5

\* Shutdown.
LEMMA ShutdownKept ==
  ASSUME IInv,
         BeginShutdown \/ StopServer \/ ClearSession \/ StopConnection \/ StopReader \/ Cancel \/ JoinWorkers
  PROVE  IInv'
<1> USE Numbers DEF IInv, machine, attempts, peers, workers, callers, closing, bounds,
        Running, Live, Before, Published, Pending, Serving, Closing, At, KillIf
<1>1. CASE BeginShutdown
  <2> USE <1>1 DEF BeginShutdown
  <2>1. SupTypeOK'
    BY DEF SupTypeOK
  <2>2. InOrder'
    BY DEF InOrder, SupTypeOK
  <2>3. OneAtATime'
    BY DEF OneAtATime, OneLive, SessionKept, InOrder, SupTypeOK
  <2>4. OneLive'
    BY DEF OneAtATime, OneLive, SupTypeOK, InOrder
  <2>5. SessionKept'
    BY DEF SessionKept, OneLive, OneAtATime, InOrder, SupTypeOK
  <2>6. QED
    BY <2>1, <2>2, <2>3, <2>4, <2>5
<1>2. CASE StopServer
  <2> USE <1>2 DEF StopServer
  <2>1. SupTypeOK'
    BY DEF SupTypeOK
  <2>2. InOrder'
    BY DEF InOrder, SupTypeOK
  <2>3. OneAtATime'
    BY DEF OneAtATime, OneLive, SessionKept, InOrder, SupTypeOK
  <2>4. OneLive'
    BY DEF OneAtATime, OneLive, SupTypeOK, InOrder
  <2>5. SessionKept'
    BY DEF SessionKept, OneLive, OneAtATime, InOrder, SupTypeOK
  <2>6. QED
    BY <2>1, <2>2, <2>3, <2>4, <2>5
<1>3. CASE ClearSession
  <2> USE <1>3 DEF ClearSession
  <2>1. SupTypeOK'
    BY DEF SupTypeOK
  <2>2. InOrder'
    BY DEF InOrder, SupTypeOK
  <2>3. OneAtATime'
    BY DEF OneAtATime, OneLive, SessionKept, InOrder, SupTypeOK
  <2>4. OneLive'
    BY DEF OneAtATime, OneLive, SupTypeOK, InOrder
  <2>5. SessionKept'
    BY DEF SessionKept, OneLive, OneAtATime, InOrder, SupTypeOK
  <2>6. QED
    BY <2>1, <2>2, <2>3, <2>4, <2>5
<1>4. CASE StopConnection
  <2> USE <1>4 DEF StopConnection
  <2>1. SupTypeOK'
    BY DEF SupTypeOK
  <2>2. InOrder'
    BY DEF InOrder, SupTypeOK
  <2>3. OneAtATime'
    BY DEF OneAtATime, OneLive, SessionKept, InOrder, SupTypeOK
  <2>4. OneLive'
    BY DEF OneAtATime, OneLive, SupTypeOK, InOrder
  <2>5. SessionKept'
    BY DEF SessionKept, OneLive, OneAtATime, InOrder, SupTypeOK
  <2>6. QED
    BY <2>1, <2>2, <2>3, <2>4, <2>5
<1>5. CASE StopReader
  <2> USE <1>5 DEF StopReader
  <2>1. SupTypeOK'
    BY DEF SupTypeOK
  <2>2. InOrder'
    BY DEF InOrder, SupTypeOK
  <2>3. OneAtATime'
    BY DEF OneAtATime, OneLive, SessionKept, InOrder, SupTypeOK
  <2>4. OneLive'
    BY DEF OneAtATime, OneLive, SupTypeOK, InOrder
  <2>5. SessionKept'
    BY DEF SessionKept, OneLive, OneAtATime, InOrder, SupTypeOK
  <2>6. QED
    BY <2>1, <2>2, <2>3, <2>4, <2>5
<1>6. CASE Cancel
  <2> USE <1>6 DEF Cancel
  <2>1. SupTypeOK'
    BY DEF SupTypeOK
  <2>2. InOrder'
    BY DEF InOrder, SupTypeOK
  <2>3. OneAtATime'
    BY DEF OneAtATime, OneLive, SessionKept, InOrder, SupTypeOK
  <2>4. OneLive'
    BY DEF OneAtATime, OneLive, SupTypeOK, InOrder
  <2>5. SessionKept'
    BY DEF SessionKept, OneLive, OneAtATime, InOrder, SupTypeOK
  <2>6. QED
    BY <2>1, <2>2, <2>3, <2>4, <2>5
<1>7. CASE JoinWorkers
  <2> USE <1>7 DEF JoinWorkers
  <2>1. SupTypeOK'
    BY DEF SupTypeOK
  <2>2. InOrder'
    BY DEF InOrder, SupTypeOK
  <2>3. OneAtATime'
    BY DEF OneAtATime, OneLive, SessionKept, InOrder, SupTypeOK
  <2>4. OneLive'
    BY DEF OneAtATime, OneLive, SupTypeOK, InOrder
  <2>5. SessionKept'
    BY DEF SessionKept, OneLive, OneAtATime, InOrder, SupTypeOK
  <2>6. QED
    BY <2>1, <2>2, <2>3, <2>4, <2>5
<1>8. QED
  BY <1>1, <1>2, <1>3, <1>4, <1>5, <1>6, <1>7
-----------------------------------------------------------------------------
\* Nothing runs and nobody is served when the supervisor is made.
LEMMA InitHolds == SupInit => IInv
<1> SUFFICES ASSUME SupInit PROVE IInv
  OBVIOUS
<1> USE Numbers DEF SupInit, Running, Live, Before, Published, Pending, Serving, Closing
<1>1. SupTypeOK
  <2>1. /\ {ready, cur, session, stopping} \subseteq Attempts \cup {None}
        /\ captured \in [Attempts -> Attempts \cup {None}]
        /\ awaited \in [Attempts -> Attempts \cup {None}]
        /\ begun \in [Caller \cup Attempts -> Attempts \cup {None}]
        /\ waitsFor \in [Caller -> Attempts \cup {None}]
    OBVIOUS
  <2>2. /\ attempt \in [Attempts -> {"none", "begin", "spawn", "spawned", "refused", "register",
              "initialize", "check", "replay", "publish", "abort", "closing", "record", "signal",
              "done"}]
        /\ failed \in [Attempts -> BOOLEAN]
        /\ proc \in [Attempts -> {"none", "alive", "killed", "dead"}]
        /\ conn \in [Attempts -> {"none", "open", "closed"}]
        /\ lost \in [Attempts -> {"none", "pending", "schedule", "done"}]
    OBVIOUS
  <2>3. /\ restart \in [Attempts -> {"none", "asleep", "awaiting", "deciding", "running", "done"}]
        /\ caller \in [Caller -> {"idle", "ensuring", "waiting", "starting", "served", "failed"}]
    OBVIOUS
  <2>4. next = ready + 1 /\ failures \in 0..MaxFailures
    OBVIOUS
  <2>5. QED
    BY <2>1, <2>2, <2>3, <2>4 DEF SupTypeOK
<1>2. InOrder
  BY DEF InOrder
<1>3. OneAtATime
  BY DEF OneAtATime
<1>4. OneLive /\ SessionKept
  BY DEF OneLive, SessionKept
<1>5. QED
  BY <1>1, <1>2, <1>3, <1>4 DEF IInv

\* Every step keeps it.
LEMMA StepHolds == IInv /\ [SupNext]_supVars => IInv'
<1> SUFFICES ASSUME IInv, [SupNext]_supVars PROVE IInv'
  OBVIOUS
<1>1. ASSUME NEW a \in Attempts, AttemptStep(a) PROVE IInv'
  BY <1>1, StartKept, HandshakeKept, OutcomeKept DEF AttemptStep
<1>2. ASSUME NEW a \in Attempts, PeerStep(a) \/ Crash(a) PROVE IInv'
  BY <1>2, PeerKept, RestartKept DEF PeerStep
<1>3. ASSUME NEW c \in Caller, Acquire(c) \/ CallerStep(c) \/ CallerGivesUp(c) PROVE IInv'
  BY <1>3, CallerKept DEF CallerStep
<1>4. ASSUME BeginShutdown \/ ShutdownStep PROVE IInv'
  BY <1>4, ShutdownKept DEF ShutdownStep
<1>5. CASE UNCHANGED supVars
  <2> USE <1>5 DEF IInv, supVars, machine, attempts, peers, workers, callers, closing, bounds,
                   Running, Live, Before, Published, Pending, Serving, Closing
  <2>1. SupTypeOK' /\ InOrder'
    BY DEF SupTypeOK, InOrder
  <2>2. OneAtATime' /\ OneLive' /\ SessionKept'
    BY DEF OneAtATime, OneLive, SessionKept
  <2>3. QED
    BY <2>1, <2>2
<1>6. QED
  BY <1>1, <1>2, <1>3, <1>4, <1>5 DEF SupNext, Settled

\* The strengthening is an invariant.
THEOREM Inductive == SupSpec => []IInv
<1>1. IInv /\ [SupNext]_supVars => IInv'
  BY StepHolds
<1>2. QED
  BY <1>1, InitHolds, PTL DEF SupSpec

\* Whoever is told that the server is ready gets the session of the connection that the
\* supervisor owns (onConnectionClosed, stop and startAttempt of lsp/supervisor.go), for any
\* number of callers and failures.
THEOREM SupervisorSafe == SupSpec => []SupInv
<1>1. IInv => SupInv
  BY DEF IInv, SupInv, SessionKept, Serving
<1>2. QED
  BY <1>1, Inductive, PTL

\* "It never starts more than one process per language concurrently": until Shutdown, for
\* any number of callers of Acquire, of restarts and of late reports of a crash.
THEOREM OneStartAtATime == SupSpec => []OneStart
<1>1. IInv => OneStart
  <2> SUFFICES ASSUME IInv, ~Closing PROVE Cardinality(Running) <= 1
    BY DEF OneStart
  <2>1. Running \subseteq {ready}
    BY DEF IInv, OneAtATime
  <2>2. IsFiniteSet({ready}) /\ Cardinality({ready}) = 1
    BY FS_Singleton
  <2>3. IsFiniteSet(Running) /\ Cardinality(Running) <= Cardinality({ready})
    BY <2>1, <2>2, FS_Subset
  <2>4. QED
    BY <2>2, <2>3
<1>2. QED
  BY <1>1, Inductive, PTL

\* Diagnostics never bleed across generations (connectionCandidate of lsp/supervisor.go):
\* only the connection of the current session publishes, and none while a replacement is
\* being started.
THEOREM NoBleeding == SupSpec => []OnlyCurrentPublishes
<1>1. IInv => OnlyCurrentPublishes
  <2> SUFFICES ASSUME IInv, ~Closing PROVE OnlyCurrentPublishes
    BY DEF OnlyCurrentPublishes
  <2>1. active \subseteq {session} \ {None}
    BY DEF IInv, OneAtATime
  <2>2. ASSUME NEW a \in Running, attempt[a] \notin {"begin", "spawn", "record"}
        PROVE  active \subseteq {a}
    <3>1. a = ready /\ state \notin {"stopped", "crashed", "ready"}
      BY <2>2 DEF IInv, OneAtATime
    <3>2. session = None
      BY <2>2, <3>1 DEF IInv, SessionKept, Published
    <3>3. QED
      BY <2>1, <3>2
  <2>3. QED
    BY <2>1, <2>2 DEF OnlyCurrentPublishes
<1>2. QED
  BY <1>1, Inductive, PTL

\* m.ready is "closed when a start attempt finishes", by that attempt and once, as long as
\* Shutdown has not begun.
THEOREM ClosedOnceUntilShutdown == SupSpec => [](~Closing => ReadyClosedOnce)
<1>1. IInv => (~Closing => ReadyClosedOnce)
  BY DEF IInv, OneAtATime, ReadyClosedOnce
<1>2. QED
  BY <1>1, Inductive, PTL
-----------------------------------------------------------------------------
(* The refinement of Sessions.                                              *)

\* What may still be served: the attempts that have not failed to be.
Hopeful(a) == Before(a) \/ (~Closing /\ attempt[a] \in {"none", "begin", "spawn", "spawned"})

LEMMA ComingIsHopeful ==
  Coming = {a \in Attempts : Hopeful(a)}
  BY DEF Coming, Hopeful, Before

\* An attempt comes no closer to being served than it was, whatever step is taken.
LEMMA NoneReturns ==
  ASSUME IInv, [SupNext]_supVars, NEW a \in Attempts, Hopeful(a)'
  PROVE  Hopeful(a)
<1> USE Numbers DEF IInv, SupTypeOK, machine, attempts, peers, workers, callers, closing, bounds, Hopeful, Before,
        Closing, At
<1>1. CASE \E b \in Attempts : AttemptStep(b)
  <2> PICK b \in Attempts : AttemptStep(b)
    BY <1>1
  <2>1. CASE CaptureReady(b) \/ Spawn(b) \/ StartWorkers(b) \/ Register(b)
    BY <2>1 DEF CaptureReady, Spawn, StartWorkers, Register
  <2>2. CASE Initialize(b) \/ CheckCurrent(b) \/ Replay(b) \/ Publish(b)
    <3>1. Before(b) /\ down' = down
      BY <2>2 DEF Initialize, CheckCurrent, Replay, Publish
    <3>2. a # b => attempt'[a] = attempt[a]
      BY <2>2 DEF Initialize, CheckCurrent, Replay, Publish
    <3>3. QED
      BY <3>1, <3>2
  <2>3. CASE Abort(b) \/ AbortKill(b) \/ Record(b) \/ SignalReady(b)
    BY <2>3 DEF Abort, AbortKill, Record, SignalReady
  <2>4. QED
    BY <2>1, <2>2, <2>3 DEF AttemptStep
<1>2. ASSUME NEW o, BeginAttempt(o), down' = down PROVE Hopeful(a)
  <2>1. a # next => attempt'[a] = attempt[a]
    BY <1>2 DEF BeginAttempt
  <2>2. a = next => attempt[a] = "none" /\ attempt'[a] = "begin"
    <3>1. ready \in Nat /\ next = ready + 1 /\ next \in Attempts
      <4>1. ready \in Attempts \cup {0} /\ next = ready + 1
        OBVIOUS
      <4>2. QED
        BY ONLY <1>2, <4>1, Numbers DEF BeginAttempt
    <3>2. attempt[next] = "none"
      BY <3>1 DEF InOrder
    <3>3. QED
      BY <1>2, <3>1, <3>2 DEF BeginAttempt
  <2>3. CASE a = next
    <3>1. ~Closing
      BY <1>2, <2>2, <2>3
    <3>2. QED
      BY <2>2, <2>3, <3>1
  <2>4. CASE a # next
    BY <1>2, <2>1, <2>4
  <2>5. QED
    BY <2>3, <2>4
<1>3. ASSUME UNCHANGED attempt, down # "up" => down' # "up" PROVE Hopeful(a)
  BY <1>3
<1>4. CASE \E b \in Attempts : PeerStep(b) \/ Crash(b)
  <2> PICK b \in Attempts : PeerStep(b) \/ Crash(b)
    BY <1>4
  <2>1. CASE Restart(b) /\ ~UNCHANGED attempt
    BY <1>2, <2>1 DEF Restart
  <2>2. CASE UNCHANGED attempt
    <3>1. UNCHANGED down
      BY DEF PeerStep, Exit, Hangup, ConnectionClosed, ScheduleRestart, WakeUp, AwaitAttempt, Restart,
             RestartDone, Crash
    <3>2. QED
      BY <1>3, <2>2, <3>1
  <2>3. QED
    BY <2>1, <2>2 DEF PeerStep, Exit, Hangup, ConnectionClosed, ScheduleRestart, WakeUp, AwaitAttempt,
                      RestartDone, Crash
<1>5. CASE \E c \in Caller : Acquire(c) \/ CallerStep(c) \/ CallerGivesUp(c)
  <2> PICK c \in Caller : Acquire(c) \/ CallerStep(c) \/ CallerGivesUp(c)
    BY <1>5
  <2>1. UNCHANGED down
    BY DEF Acquire, CallerStep, EnsureReady, WaitReady, OwnReady, CallerGivesUp
  <2>2. CASE EnsureReady(c)
    <3>1. CASE BeginAttempt(c)
      BY <1>2, <2>1, <3>1
    <3>2. CASE UNCHANGED attempt
      BY <1>3, <2>1, <3>2
    <3>3. QED
      BY <2>2, <3>1, <3>2 DEF EnsureReady
  <2>3. QED
    BY <1>3, <2>1, <2>2 DEF Acquire, CallerStep, WaitReady, OwnReady, CallerGivesUp
<1>6. CASE BeginShutdown \/ ShutdownStep \/ UNCHANGED supVars
  <2>1. UNCHANGED attempt
    BY <1>6 DEF BeginShutdown, ShutdownStep, StopServer, ClearSession, StopConnection, StopReader, Cancel,
                JoinWorkers, supVars
  <2>2. down # "up" => down' # "up"
    BY <1>6 DEF BeginShutdown, ShutdownStep, StopServer, ClearSession, StopConnection, StopReader, Cancel,
                JoinWorkers, supVars
  <2>3. QED
    BY <1>3, <2>1, <2>2
<1>7. QED
  BY <1>1, <1>4, <1>5, <1>6 DEF SupNext, Settled

\* Who is served changes when an attempt publishes its session, after the previous one is
\* gone and before anything that may still be served, and when a session is cleared.
LEMMA SessionsChange ==
  ASSUME IInv, [SupNext]_supVars
  PROVE  \/ session' \in {session, None}
         \/ \E a \in Attempts :
              /\ session = None /\ session' = a /\ Hopeful(a)
              /\ \A b \in Attempts : Hopeful(b)' => b > a
<1> USE DEF IInv, SupTypeOK, machine, attempts, peers, workers, callers, closing, bounds, At
<1>1. ASSUME NEW a \in Attempts, AttemptStep(a), session' # session
      PROVE  session = None /\ session' = a /\ Hopeful(a) /\ \A b \in Attempts : Hopeful(b)' => b > a
  <2>1. Publish(a)
    BY <1>1 DEF AttemptStep, CaptureReady, Spawn, StartWorkers, Register, Initialize, CheckCurrent, Replay,
                Abort, AbortKill, Record, SignalReady
  <2>2. /\ attempt[a] = "publish" /\ state = "starting" /\ cur = a /\ session' = a
        /\ attempt' = [attempt EXCEPT ![a] = "record"] /\ down' = down
    BY <1>1, <2>1 DEF Publish
  <2>3. Before(a) /\ Live(a) /\ Hopeful(a)
    BY <2>2 DEF Before, Live, Hopeful
  <2>4. \A b \in Attempts : Before(b) => b = a
    BY <2>3 DEF OneLive, Live
  <2>5. ~Before(a)' /\ (Hopeful(a)' => FALSE)
    BY <2>2 DEF Before, Hopeful
  <2>6. ASSUME NEW b \in Attempts, Hopeful(b)' PROVE b > a
    <3>1. b # a /\ attempt'[b] = attempt[b] /\ ~Closing /\ ~Before(b)
      BY <2>2, <2>4, <2>5, <2>6 DEF Hopeful, Before, Closing
    <3>2. a = ready
      BY <2>2, <3>1 DEF OneAtATime, Running
    <3>3. attempt[b] = "none"
      BY <2>6, <3>1, <3>2 DEF Hopeful, Before, OneAtATime, Running
    <3>4. QED
      BY <3>2, <3>3, Numbers DEF InOrder
  <2>7. session = None
    BY <2>2, <2>3, Numbers DEF SessionKept
  <2>8. QED
    BY <2>2, <2>3, <2>6, <2>7
<1>2. ASSUME NEW a \in Attempts, PeerStep(a) \/ Crash(a) PROVE session' \in {session, None}
  BY <1>2 DEF PeerStep, Exit, Hangup, ConnectionClosed, ScheduleRestart, WakeUp, AwaitAttempt, Restart,
              RestartDone, Crash
<1>3. ASSUME NEW c \in Caller, Acquire(c) \/ CallerStep(c) \/ CallerGivesUp(c) PROVE UNCHANGED session
  BY <1>3 DEF Acquire, CallerStep, EnsureReady, WaitReady, OwnReady, CallerGivesUp
<1>4. CASE BeginShutdown \/ ShutdownStep \/ UNCHANGED supVars
  BY <1>4 DEF BeginShutdown, ShutdownStep, StopServer, ClearSession, StopConnection, StopReader, Cancel,
              JoinWorkers, supVars
<1>5. QED
  BY <1>1, <1>2, <1>3, <1>4 DEF SupNext, Settled

\* Sessions are served one at a time, each once and none after a later one, for any number
\* of callers and failures, with Shutdown at any moment (startAttempt, onConnectionClosed
\* and stop of lsp/supervisor.go).
THEOREM SessionsInOrder == SupSpec => ImplementsSessions
<1>1. SupInit => Sequence!Init
  BY Numbers DEF SupInit, Sequence!Init, Coming, Closing
<1>2. IInv /\ [SupNext]_supVars => [Sequence!Next]_(Sequence!sessionVars)
  <2> SUFFICES ASSUME IInv, [SupNext]_supVars PROVE Sequence!Next
    OBVIOUS
  <2>1. Coming' \subseteq Coming
    <3>1. \A a \in Attempts : Hopeful(a)' => Hopeful(a)
      BY NoneReturns
    <3>2. Coming' = {a \in Attempts : Hopeful(a)'}
      BY DEF Coming, Hopeful, Before
    <3>3. QED
      BY <3>1, <3>2, ComingIsHopeful
  <2>2. CASE session' \in {session, None}
    BY <2>1, <2>2 DEF Sequence!Next, Sequence!Lose, Sequence!Fail
  <2>3. CASE \E a \in Attempts :
               /\ session = None /\ session' = a /\ Hopeful(a)
               /\ \A b \in Attempts : Hopeful(b)' => b > a
    <3> PICK a \in Attempts : /\ session = None /\ session' = a /\ Hopeful(a)
                              /\ \A b \in Attempts : Hopeful(b)' => b > a
      BY <2>3
    <3>1. a \in Coming
      BY ComingIsHopeful
    <3>2. \A b \in Coming' : b > a
      BY DEF Coming, Hopeful, Before
    <3>3. QED
      BY <2>1, <3>1, <3>2 DEF Sequence!Next, Sequence!Serve
  <2>4. QED
    BY <2>2, <2>3, SessionsChange
<1>3. QED
  BY <1>1, <1>2, Inductive, PTL DEF SupSpec, Sequence!Spec, ImplementsSessions
===============================================================================
