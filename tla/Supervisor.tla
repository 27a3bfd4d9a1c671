----------------------------- MODULE Supervisor -----------------------------
(***************************************************************************)
(* Supervision of one language server (lsp/supervisor.go, lsp/conn.go):    *)
(* callers of Acquire, start attempts, the connection that may be lost at  *)
(* any moment, the restart worker a crash schedules, and Shutdown.         *)
(*                                                                         *)
(* A start attempt creates at most one process and one connection, so all  *)
(* three share the number of the attempt, and so does the channel m.ready  *)
(* made for it.  Durations (backoff, timeouts, grace periods) may elapse   *)
(* at any moment; documents are modelled in DocumentSync.                  *)
(***************************************************************************)
EXTENDS Naturals, FiniteSets

CONSTANTS
  Caller,        \* calls of Acquire
  MaxFailures,   \* bound: failures nobody asked for (spawn, initialize, crash)
  MayShutDown    \* does Shutdown come?

ASSUME SupervisorAssumption ==
  IsFiniteSet(Caller) /\ MaxFailures \in Nat /\ MayShutDown \in BOOLEAN

\* Every attempt but the last is ended by a failure, or by Shutdown.
Attempts == 1..(MaxFailures + 1 + 2 * Cardinality(Caller))
None == 0

VARIABLES
  state,       \* m.state
  ready,       \* m.ready, the attempt it was made for
  startErr,    \* m.startErr is not nil
  cur,         \* m.conn, m.candidate and m.proc
  session,     \* srv.current
  attempt,     \* attempt -> where its startAttempt is
  failed,      \* attempt -> start returns an error
  captured,    \* attempt -> the channel its startAttempt read from m.ready
  closedReady, \* the closed ready channels
  panicked,    \* a closed channel was closed again
  proc,        \* attempt -> its process
  conn,        \* attempt -> its connection
  lost,        \* attempt -> where its onConnectionClosed is
  registered,  \* the attempts whose connection went into `registered`
  watched,     \* the attempts whose process has workers in s.wg
  active,      \* the candidates that may publish diagnostics
  restart,     \* attempt -> where the worker scheduled by its crash is
  awaited,     \* attempt -> the attemptReady of that worker
  begun,       \* owner (caller or worker's attempt) -> the attempt it runs
  caller,      \* caller -> where its ensureReady is
  waitsFor,    \* caller -> the ready channel it waits for
  down,        \* where Shutdown is
  stopping,    \* the connection and process that stop took over
  cancelled,   \* s.ctx is done
  next,        \* the next attempt
  failures     \* failures so far

machine  == <<state, ready, startErr, cur, session>>
attempts == <<attempt, failed, captured, closedReady, panicked>>
peers    == <<proc, conn, lost, registered, watched, active>>
workers  == <<restart, awaited>>
callers  == <<caller, waitsFor>>
closing  == <<down, stopping, cancelled>>
bounds   == <<next, failures>>
supVars  == <<machine, attempts, peers, workers, begun, callers, closing, bounds>>

Closing == down # "up"     \* s.closing

SupInit ==
  /\ state = "stopped" /\ ready = None /\ startErr = FALSE
  /\ cur = None /\ session = None
  /\ attempt = [a \in Attempts |-> "none"] /\ failed = [a \in Attempts |-> FALSE]
  /\ captured = [a \in Attempts |-> None] /\ closedReady = {} /\ panicked = FALSE
  /\ proc = [a \in Attempts |-> "none"] /\ conn = [a \in Attempts |-> "none"]
  /\ lost = [a \in Attempts |-> "none"] /\ registered = {} /\ watched = {} /\ active = {}
  /\ restart = [a \in Attempts |-> "none"] /\ awaited = [a \in Attempts |-> None]
  /\ begun = [o \in Caller \cup Attempts |-> None]
  /\ caller = [c \in Caller |-> "idle"] /\ waitsFor = [c \in Caller |-> None]
  /\ down = "up" /\ stopping = None /\ cancelled = FALSE
  /\ next = 1 /\ failures = 0

Fail == failures < MaxFailures /\ failures' = failures + 1

\* m.state = ServerStarting with a new m.ready; `owner` runs the attempt.
BeginAttempt(owner) ==
  /\ next \in Attempts
  /\ next' = next + 1
  /\ state' = "starting" /\ ready' = next
  /\ attempt' = [attempt EXCEPT ![next] = "begin"]
  /\ begun' = [begun EXCEPT ![owner] = next]

KillIf(a) == IF proc[a] = "alive" THEN [proc EXCEPT ![a] = "killed"] ELSE proc
At(a, point) == attempt' = [attempt EXCEPT ![a] = point]
-----------------------------------------------------------------------------
(* startAttempt and start, by one attempt.                                  *)

\* startAttempt reads m.ready in a critical section of its own.
CaptureReady(a) ==
  /\ attempt[a] = "begin"
  /\ captured' = [captured EXCEPT ![a] = ready]
  /\ At(a, "spawn")
  /\ UNCHANGED <<machine, failed, closedReady, panicked, peers, workers, begun, callers,
                 closing, bounds>>

\* Resolve, Runner.Start, resetGenerationState and newConn.
Spawn(a) ==
  /\ attempt[a] = "spawn"
  /\ \/ /\ Fail
        /\ At(a, "record") /\ failed' = [failed EXCEPT ![a] = TRUE]
        /\ UNCHANGED <<proc, conn>>
     \/ /\ At(a, "spawned")
        /\ proc' = [proc EXCEPT ![a] = "alive"] /\ conn' = [conn EXCEPT ![a] = "open"]
        /\ UNCHANGED <<failed, failures>>
  /\ UNCHANGED <<machine, captured, closedReady, panicked, lost, registered, watched,
                 active, workers, begun, callers, closing, next>>

\* startWorkers.  While the supervisor closes, start closes the connection
\* itself, kills the process and waits for the reader.  Whoever closed the
\* connection runs its callback, which takes the connection from `registered`,
\* and this path puts none there: start stays in close, or in wait.
StartWorkers(a) ==
  /\ attempt[a] = "spawned"
  /\ IF Closing
     THEN /\ At(a, "refused")
          /\ conn' = [conn EXCEPT ![a] = "closed"]
          /\ lost' = [lost EXCEPT ![a] = "pending"]
          /\ proc' = IF conn[a] = "open" THEN proc ELSE KillIf(a)
          /\ UNCHANGED watched
     ELSE /\ At(a, "register") /\ watched' = watched \cup {a}
          /\ UNCHANGED <<proc, conn, lost>>
  /\ UNCHANGED <<machine, failed, captured, closedReady, panicked, registered, active,
                 workers, begun, callers, closing, bounds>>

\* Expose the process, unless the start was cancelled meanwhile.
Register(a) ==
  /\ attempt[a] = "register"
  /\ registered' = registered \cup {a}
  /\ IF state = "starting"
     THEN At(a, "initialize") /\ cur' = a
     ELSE At(a, "abort") /\ UNCHANGED cur
  /\ UNCHANGED <<state, ready, startErr, session, failed, captured, closedReady, panicked,
                 proc, conn, lost, watched, active, workers, begun, callers, closing, bounds>>

\* The initialize round trip: answered, or failed by the connection, the context
\* or the server.
Initialize(a) ==
  /\ attempt[a] = "initialize"
  /\ \/ conn[a] = "open" /\ At(a, "check") /\ UNCHANGED failures
     \/ (conn[a] = "closed" \/ cancelled) /\ At(a, "abort") /\ UNCHANGED failures
     \/ Fail /\ At(a, "abort")
  /\ UNCHANGED <<machine, failed, captured, closedReady, panicked, peers, workers, begun,
                 callers, closing, next>>

\* The candidate must still be the current one to become a generation.
CheckCurrent(a) ==
  /\ attempt[a] = "check"
  /\ At(a, IF state = "starting" /\ cur = a THEN "replay" ELSE "abort")
  /\ UNCHANGED <<machine, failed, captured, closedReady, panicked, peers, workers, begun,
                 callers, closing, bounds>>

\* The write slot of the gate and the replay of the open documents, both given up
\* when the context or the connection ends.
Replay(a) ==
  /\ attempt[a] = "replay"
  /\ \/ At(a, "publish")
     \/ (conn[a] = "closed" \/ cancelled) /\ At(a, "abort")
  /\ UNCHANGED <<machine, failed, captured, closedReady, panicked, peers, workers, begun,
                 callers, closing, bounds>>

\* Mutant: the candidate is published without looking whether it is still current.
PublishStale(a) ==
  /\ attempt[a] = "publish"
  /\ IF conn[a] = "open"
     THEN At(a, "record") /\ active' = active \cup {a} /\ session' = a
     ELSE At(a, "abort") /\ UNCHANGED <<active, session>>
  /\ UNCHANGED <<state, ready, startErr, cur, failed, captured, closedReady, panicked,
                 proc, conn, lost, registered, watched, workers, begun, callers, closing,
                 bounds>>

\* Publication: one critical section of m.mu checks the candidate, lets it publish
\* diagnostics and installs the session.
Publish(a) ==
  /\ attempt[a] = "publish"
  /\ IF conn[a] = "open" /\ state = "starting" /\ cur = a
     THEN At(a, "record") /\ active' = active \cup {a} /\ session' = a
     ELSE At(a, "abort") /\ UNCHANGED <<active, session>>
  /\ UNCHANGED <<state, ready, startErr, cur, failed, captured, closedReady, panicked,
                 proc, conn, lost, registered, watched, workers, begun, callers, closing,
                 bounds>>

\* c.close(err): start runs the callback itself if nobody closed before it.
Abort(a) ==
  /\ attempt[a] = "abort"
  /\ failed' = [failed EXCEPT ![a] = TRUE]
  /\ IF conn[a] = "open"
     THEN /\ conn' = [conn EXCEPT ![a] = "closed"] /\ lost' = [lost EXCEPT ![a] = "pending"]
          /\ At(a, "closing") /\ UNCHANGED proc
     ELSE proc' = KillIf(a) /\ At(a, "record") /\ UNCHANGED <<conn, lost>>
  /\ UNCHANGED <<machine, captured, closedReady, panicked, registered, watched, active,
                 workers, begun, callers, closing, bounds>>

AbortKill(a) ==
  /\ attempt[a] = "closing" /\ lost[a] = "done"
  /\ proc' = KillIf(a) /\ At(a, "record")
  /\ UNCHANGED <<machine, failed, captured, closedReady, panicked, conn, lost, registered,
                 watched, active, workers, begun, callers, closing, bounds>>

\* Mutant: the outcome replaces whatever the connection's end has recorded.
RecordAlways(a) ==
  /\ attempt[a] = "record"
  /\ IF ready = captured[a]
     THEN startErr' = failed[a] /\ state' = IF failed[a] THEN "crashed" ELSE "ready"
     ELSE UNCHANGED <<startErr, state>>
  /\ At(a, "signal")
  /\ UNCHANGED <<ready, cur, session, failed, captured, closedReady, panicked, peers,
                 workers, begun, callers, closing, bounds>>

\* The outcome counts for the current attempt only, and only while no crash or
\* stop has moved the state on.
Record(a) ==
  /\ attempt[a] = "record"
  /\ IF ready = captured[a]
     THEN /\ startErr' = failed[a]
          /\ state' = IF state # "starting" THEN state
                      ELSE IF failed[a] THEN "crashed" ELSE "ready"
     ELSE UNCHANGED <<startErr, state>>
  /\ At(a, "signal")
  /\ UNCHANGED <<ready, cur, session, failed, captured, closedReady, panicked, peers,
                 workers, begun, callers, closing, bounds>>

\* Mutant: only an attempt that succeeds closes its channel.
SignalReadyServed(a) ==
  /\ attempt[a] = "signal"
  /\ closedReady' = IF failed[a] THEN closedReady ELSE closedReady \cup {captured[a]}
  /\ panicked' = (panicked \/ captured[a] \in closedReady)
  /\ At(a, "done")
  /\ UNCHANGED <<machine, failed, captured, peers, workers, begun, callers, closing, bounds>>

\* close(ready).
SignalReady(a) ==
  /\ attempt[a] = "signal"
  /\ closedReady' = closedReady \cup {captured[a]}
  /\ panicked' = (panicked \/ captured[a] \in closedReady)
  /\ At(a, "done")
  /\ UNCHANGED <<machine, failed, captured, peers, workers, begun, callers, closing, bounds>>

AttemptStep(a) ==
  \/ CaptureReady(a) \/ Spawn(a) \/ StartWorkers(a) \/ Register(a) \/ Initialize(a)
  \/ CheckCurrent(a) \/ Replay(a) \/ Publish(a) \/ Abort(a) \/ AbortKill(a) \/ Record(a)
  \/ SignalReady(a)
-----------------------------------------------------------------------------
(* The process and its connection.                                          *)

\* The server exits on its own, or a framing error ends the connection.
Crash(a) ==
  /\ Fail
  /\ \/ /\ proc[a] = "alive" /\ proc' = [proc EXCEPT ![a] = "dead"]
        /\ UNCHANGED <<conn, lost>>
     \/ /\ conn[a] = "open" /\ conn' = [conn EXCEPT ![a] = "closed"]
        /\ lost' = [lost EXCEPT ![a] = "pending"]
        /\ UNCHANGED proc
  /\ UNCHANGED <<machine, attempts, registered, watched, active, workers, begun, callers,
                 closing, next>>

\* A killed process ends; so does every process once s.ctx is done.
Exit(a) ==
  /\ proc[a] = "killed" \/ (proc[a] = "alive" /\ cancelled)
  /\ proc' = [proc EXCEPT ![a] = "dead"]
  /\ UNCHANGED <<machine, attempts, conn, lost, registered, watched, active, workers, begun,
                 callers, closing, bounds>>

\* The reader meets the end of the stream, or a worker sees the process exit.
Hangup(a) ==
  /\ proc[a] = "dead" /\ conn[a] = "open"
  /\ conn' = [conn EXCEPT ![a] = "closed"] /\ lost' = [lost EXCEPT ![a] = "pending"]
  /\ UNCHANGED <<machine, attempts, proc, registered, watched, active, workers, begun,
                 callers, closing, bounds>>

\* Mutant: the candidate of a lost connection is not deactivated.
ConnectionClosedActive(a) ==
  /\ lost[a] = "pending" /\ a \in registered
  /\ IF cur # a
     THEN /\ lost' = [lost EXCEPT ![a] = "done"]
          /\ UNCHANGED <<state, cur, session, proc, awaited>>
     ELSE /\ cur' = None /\ session' = None
          /\ proc' = KillIf(a)
          /\ IF state = "stopped" \/ Closing
             THEN /\ state' = "stopped" /\ lost' = [lost EXCEPT ![a] = "done"]
                  /\ UNCHANGED awaited
             ELSE /\ state' = "backoff" /\ lost' = [lost EXCEPT ![a] = "schedule"]
                  /\ awaited' = [awaited EXCEPT ![a] = ready]
  /\ UNCHANGED <<ready, startErr, attempts, conn, registered, watched, active, restart,
                 begun, callers, closing, bounds>>

\* onConnectionClosed, its critical section.
ConnectionClosed(a) ==
  /\ lost[a] = "pending" /\ a \in registered
  /\ active' = active \ {a}
  /\ IF cur # a
     THEN /\ lost' = [lost EXCEPT ![a] = "done"]
          /\ UNCHANGED <<state, cur, session, proc, awaited>>
     ELSE /\ cur' = None /\ session' = None
          /\ proc' = KillIf(a)
          /\ IF state = "stopped" \/ Closing
             THEN /\ state' = "stopped" /\ lost' = [lost EXCEPT ![a] = "done"]
                  /\ UNCHANGED awaited
             ELSE /\ state' = "backoff" /\ lost' = [lost EXCEPT ![a] = "schedule"]
                  /\ awaited' = [awaited EXCEPT ![a] = ready]
  /\ UNCHANGED <<ready, startErr, attempts, conn, registered, watched, restart, begun,
                 callers, closing, bounds>>

\* Mutant: only the crash of a server that had been ready is retried.
ScheduleRestartServed(a) ==
  /\ lost[a] = "schedule"
  /\ lost' = [lost EXCEPT ![a] = "done"]
  /\ restart' = IF Closing \/ failed[a] THEN restart ELSE [restart EXCEPT ![a] = "asleep"]
  /\ UNCHANGED <<machine, attempts, proc, conn, registered, watched, active, awaited, begun,
                 callers, closing, bounds>>

\* startWorkers of the restart.
ScheduleRestart(a) ==
  /\ lost[a] = "schedule"
  /\ lost' = [lost EXCEPT ![a] = "done"]
  /\ restart' = IF Closing THEN restart ELSE [restart EXCEPT ![a] = "asleep"]
  /\ UNCHANGED <<machine, attempts, proc, conn, registered, watched, active, awaited, begun,
                 callers, closing, bounds>>

\* The backoff is over: look whether the supervisor is closing.
WakeUp(a) ==
  /\ restart[a] = "asleep"
  /\ restart' = [restart EXCEPT ![a] = IF Closing THEN "done" ELSE "awaiting"]
  /\ UNCHANGED <<machine, attempts, peers, awaited, begun, callers, closing, bounds>>

\* Mutant: the restart does not wait for the attempt that failed.
AwaitNothing(a) ==
  /\ restart[a] = "awaiting"
  /\ \/ restart' = [restart EXCEPT ![a] = "deciding"]
     \/ Closing /\ restart' = [restart EXCEPT ![a] = "done"]
  /\ UNCHANGED <<machine, attempts, peers, awaited, begun, callers, closing, bounds>>

\* The attempt that failed must have finished, or Shutdown begun.
AwaitAttempt(a) ==
  /\ restart[a] = "awaiting"
  /\ \/ awaited[a] \in closedReady /\ restart' = [restart EXCEPT ![a] = "deciding"]
     \/ Closing /\ restart' = [restart EXCEPT ![a] = "done"]
  /\ UNCHANGED <<machine, attempts, peers, awaited, begun, callers, closing, bounds>>

Restart(a) ==
  /\ restart[a] = "deciding"
  /\ IF state # "backoff"
     THEN /\ restart' = [restart EXCEPT ![a] = "done"]
          /\ UNCHANGED <<state, ready, attempt, begun, next>>
     ELSE BeginAttempt(a) /\ restart' = [restart EXCEPT ![a] = "running"]
  /\ UNCHANGED <<startErr, cur, session, failed, captured, closedReady, panicked, peers,
                 awaited, callers, closing, failures>>

RestartDone(a) ==
  /\ restart[a] = "running" /\ attempt[begun[a]] = "done"
  /\ restart' = [restart EXCEPT ![a] = "done"]
  /\ UNCHANGED <<machine, attempts, peers, awaited, begun, callers, closing, bounds>>

PeerStep(a) ==
  \/ Exit(a) \/ Hangup(a) \/ ConnectionClosed(a) \/ ScheduleRestart(a) \/ WakeUp(a)
  \/ AwaitAttempt(a) \/ Restart(a) \/ RestartDone(a)
-----------------------------------------------------------------------------
(* Acquire and ensureReady.                                                 *)

Acquire(c) ==
  /\ caller[c] = "idle"
  /\ caller' = [caller EXCEPT ![c] = IF Closing THEN "failed" ELSE "ensuring"]
  /\ UNCHANGED <<machine, attempts, peers, workers, begun, waitsFor, closing, bounds>>

\* One pass of the loop of ensureReady.
EnsureReady(c) ==
  /\ caller[c] = "ensuring"
  /\ \/ /\ state = "ready"
        /\ caller' = [caller EXCEPT ![c] = "served"]
        /\ UNCHANGED <<state, ready, attempt, begun, next, waitsFor>>
     \/ /\ state = "backoff"
        /\ caller' = [caller EXCEPT ![c] = "failed"]
        /\ UNCHANGED <<state, ready, attempt, begun, next, waitsFor>>
     \/ /\ state = "starting"
        /\ caller' = [caller EXCEPT ![c] = "waiting"]
        /\ waitsFor' = [waitsFor EXCEPT ![c] = ready]
        /\ UNCHANGED <<state, ready, attempt, begun, next>>
     \/ /\ state \in {"stopped", "crashed"}
        /\ BeginAttempt(c)
        /\ caller' = [caller EXCEPT ![c] = "starting"]
        /\ waitsFor' = [waitsFor EXCEPT ![c] = next]
  /\ UNCHANGED <<startErr, cur, session, failed, captured, closedReady, panicked, peers,
                 workers, closing, failures>>

\* Waiting for somebody else's attempt.
WaitReady(c) ==
  /\ caller[c] = "waiting"
  /\ \/ waitsFor[c] \in closedReady /\ caller' = [caller EXCEPT ![c] = "ensuring"]
     \/ Closing /\ caller' = [caller EXCEPT ![c] = "failed"]
  /\ UNCHANGED <<machine, attempts, peers, workers, begun, waitsFor, closing, bounds>>

\* After the caller's own attempt.
OwnReady(c) ==
  /\ caller[c] = "starting" /\ attempt[begun[c]] = "done" /\ waitsFor[c] \in closedReady
  /\ caller' = [caller EXCEPT ![c] =
        IF startErr THEN "failed" ELSE IF state = "ready" THEN "served" ELSE "ensuring"]
  /\ UNCHANGED <<machine, attempts, peers, workers, begun, waitsFor, closing, bounds>>

\* The caller's context ends while it waits.
CallerGivesUp(c) ==
  /\ \/ caller[c] = "waiting"
     \/ caller[c] = "starting" /\ attempt[begun[c]] = "done"
  /\ caller' = [caller EXCEPT ![c] = "failed"]
  /\ UNCHANGED <<machine, attempts, peers, workers, begun, waitsFor, closing, bounds>>
-----------------------------------------------------------------------------
(* Shutdown and stop.                                                       *)

BeginShutdown ==
  /\ MayShutDown /\ down = "up"
  /\ down' = "stop"
  /\ UNCHANGED <<machine, attempts, peers, workers, begun, callers, stopping, cancelled,
                 bounds>>

\* stop, its critical section, then clearSession.
StopServer ==
  /\ down = "stop"
  /\ down' = "grace"
  /\ stopping' = cur
  /\ active' = active \ {cur}
  /\ cur' = None /\ state' = "stopped"
  /\ UNCHANGED <<ready, startErr, session, attempts, proc, conn, lost, registered, watched,
                 workers, begun, callers, cancelled, bounds>>

\* Mutant: a server that ignores the exit notification is not killed.
ClearSessionOnly ==
  /\ down = "grace"
  /\ session' = None
  /\ down' = IF stopping = None THEN "cancel" ELSE "exit"
  /\ UNCHANGED <<state, ready, startErr, cur, attempts, proc, conn, lost, registered,
                 watched, active, workers, begun, callers, stopping, cancelled, bounds>>

\* clearSession, the shutdown request and the exit notification.  The server
\* complies, or is killed after the grace period.
ClearSession ==
  /\ down = "grace"
  /\ session' = None
  /\ down' = IF stopping = None THEN "cancel" ELSE "exit"
  /\ proc' = IF stopping = None THEN proc ELSE KillIf(stopping)
  /\ UNCHANGED <<state, ready, startErr, cur, attempts, conn, lost, registered, watched,
                 active, workers, begun, callers, stopping, cancelled, bounds>>

\* proc.Wait, then c.close and c.wait.
StopConnection ==
  /\ down = "exit" /\ proc[stopping] = "dead"
  /\ down' = "reader"
  /\ conn' = [conn EXCEPT ![stopping] = "closed"]
  /\ lost' = IF conn[stopping] = "open" THEN [lost EXCEPT ![stopping] = "pending"] ELSE lost
  /\ UNCHANGED <<machine, attempts, proc, registered, watched, active, workers, begun,
                 callers, stopping, cancelled, bounds>>

StopReader ==
  /\ down = "reader" /\ lost[stopping] = "done"
  /\ down' = "cancel"
  /\ UNCHANGED <<machine, attempts, peers, workers, begun, callers, stopping, cancelled,
                 bounds>>

Cancel ==
  /\ down = "cancel"
  /\ down' = "join" /\ cancelled' = TRUE
  /\ UNCHANGED <<machine, attempts, peers, workers, begun, callers, stopping, bounds>>

\* s.wg.Wait: the workers of every watched process, and the restart workers.
WorkersDone ==
  /\ \A a \in watched : proc[a] = "dead" /\ conn[a] = "closed"
  /\ \A a \in Attempts : restart[a] \in {"none", "done"}

JoinWorkers ==
  /\ down = "join" /\ WorkersDone
  /\ down' = "down"
  /\ UNCHANGED <<machine, attempts, peers, workers, begun, callers, stopping, cancelled,
                 bounds>>

ShutdownStep ==
  StopServer \/ ClearSession \/ StopConnection \/ StopReader \/ Cancel \/ JoinWorkers
-----------------------------------------------------------------------------
\* Nothing is left to do: every call has returned or hangs in a refused start.
Settled ==
  /\ \A c \in Caller : caller[c] \in {"served", "failed"} \/
                       (caller[c] = "starting" /\ attempt[begun[c]] = "refused")
  /\ UNCHANGED supVars

CallerStep(c) == EnsureReady(c) \/ WaitReady(c) \/ OwnReady(c)

SupNext ==
  \/ \E a \in Attempts : AttemptStep(a) \/ PeerStep(a) \/ Crash(a)
  \/ \E c \in Caller : Acquire(c) \/ CallerStep(c) \/ CallerGivesUp(c)
  \/ BeginShutdown \/ ShutdownStep
  \/ Settled

SupSpec == SupInit /\ [][SupNext]_supVars

SupProgress ==
  \/ \E a \in Attempts : AttemptStep(a) \/ PeerStep(a)
  \/ \E c \in Caller : CallerStep(c)
  \/ ShutdownStep

\* Goroutines run, killed processes die, backoffs end: as long as somebody can move,
\* somebody does.  Servers need not crash, callers need not come or give up, Shutdown
\* need not begin.
SupFairness == WF_supVars(SupProgress)

FairSupSpec == SupSpec /\ SupFairness
-----------------------------------------------------------------------------
(* Properties.                                                              *)

SupTypeOK ==
  /\ state \in {"stopped", "starting", "ready", "backoff", "crashed"}
  /\ {ready, cur, session, stopping} \subseteq Attempts \cup {None}
  /\ startErr \in BOOLEAN /\ panicked \in BOOLEAN /\ cancelled \in BOOLEAN
  /\ attempt \in [Attempts -> {"none", "begin", "spawn", "spawned", "refused", "register",
        "initialize", "check", "replay", "publish", "abort", "closing", "record", "signal",
        "done"}]
  /\ failed \in [Attempts -> BOOLEAN] /\ captured \in [Attempts -> Attempts \cup {None}]
  /\ proc \in [Attempts -> {"none", "alive", "killed", "dead"}]
  /\ conn \in [Attempts -> {"none", "open", "closed"}]
  /\ lost \in [Attempts -> {"none", "pending", "schedule", "done"}]
  /\ registered \cup watched \cup active \cup closedReady \subseteq Attempts
  /\ restart \in [Attempts -> {"none", "asleep", "awaiting", "deciding", "running", "done"}]
  /\ awaited \in [Attempts -> Attempts \cup {None}]
  /\ begun \in [Caller \cup Attempts -> Attempts \cup {None}]
  /\ caller \in [Caller -> {"idle", "ensuring", "waiting", "starting", "served", "failed"}]
  /\ waitsFor \in [Caller -> Attempts \cup {None}]
  /\ down \in {"up", "stop", "grace", "exit", "reader", "cancel", "join", "down"}
  /\ next = ready + 1 /\ failures \in 0..MaxFailures

\* The attempts between taking ServerStarting and recording their outcome.
Running == {a \in Attempts : attempt[a] \notin {"none", "signal", "done"}}

\* "It never starts more than one process per language concurrently": however
\* callers, restart workers and late crash reports interleave, until Shutdown.
OneStart == ~Closing => Cardinality(Running) <= 1

\* A server reported ready has the session of the connection it owns, and a session
\* belongs to the current connection, so no query reaches a replaced process (stop
\* takes the connection away one step before the session).
SupInv ==
  /\ SupTypeOK
  /\ state = "ready" => session # None /\ session = cur
  /\ session # None /\ down # "grace" => session = cur

\* Notifications never bleed across generations: only the connection of the current
\* session may publish diagnostics, and none does while a replacement, which resets
\* the cache they share, is being started.
OnlyCurrentPublishes ==
  ~Closing =>
    /\ active \subseteq {session} \ {None}
    /\ \A a \in Running : attempt[a] \notin {"begin", "spawn", "record"} => active \subseteq {a}

\* A crashed server is restarted without anybody asking for it.
CrashIsRetried == state = "backoff" ~> (state # "backoff" \/ Closing)

\* "ensureReady blocks until the server is usable, or returns a structured error."
EnsureReadyReturns ==
  \A c \in Caller : caller[c] = "ensuring" ~> caller[c] \in {"served", "failed"}

\* Unless the workspace is shutting down, whoever asks for a server is served or told
\* why not, however often the starts fail.
CallersAreAnswered ==
  \A c \in Caller : caller[c] = "ensuring" ~> (caller[c] \in {"served", "failed"} \/ Closing)

\* Shutdown leaves no language server process behind, whatever was starting.
ProcessesEnd == Closing ~> [](\A a \in Attempts : proc[a] \notin {"alive", "killed"})

\* m.ready is "closed when a start attempt finishes".
ReadyClosedOnce == ~panicked /\ \A a \in Attempts : attempt[a] = "done" => a \in closedReady

\* The session of an attempt is served after that of its predecessor is gone, once, and
\* never after a later one: those that may still be served are the attempts whose workers
\* were accepted and, until Shutdown begins, those that have not come to that.
Coming ==
  {a \in Attempts :
     \/ attempt[a] \in {"register", "initialize", "check", "replay", "publish"}
     \/ ~Closing /\ attempt[a] \in {"none", "begin", "spawn", "spawned"}}
Sequence == INSTANCE Sessions WITH Generation <- Attempts, coming <- Coming
ImplementsSessions == Sequence!Spec
=============================================================================
