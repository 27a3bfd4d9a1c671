------------------------------ MODULE Connect ------------------------------
(***************************************************************************)
(* How the clients of one workspace find or start its daemon, and how a    *)
(* daemon takes over from its predecessor (internal/daemonctl/connect.go,  *)
(* stop.go; daemon/lock.go and the frame of Run in daemon/server.go).      *)
(* They share three files: the spawn lock, the liveness lock, which holds  *)
(* a pid, and the socket.  Locks are dropped by the kernel when their      *)
(* holder dies; the socket and the pid stay behind.                        *)
(*                                                                         *)
(* What a daemon does between listening and releasing its lock is module   *)
(* Daemon.  Daemons are numbered in the order they are spawned, and the    *)
(* number stands for the pid.                                              *)
(***************************************************************************)
EXTENDS Naturals, FiniteSets

CONSTANTS
  Client,      \* calls of Connect, each by a process of its own
  Stopper,     \* calls of Stop
  None,
  MaxFaults    \* bound: crashes, failed starts, idle daemons, reused pids

ASSUME ConnectAssumption ==
  /\ None \notin Client /\ None \notin Nat
  /\ MaxFaults \in Nat /\ IsFiniteSet(Client)

Daemon == 1..(Cardinality(Client) + 1)   \* one may be there, every client spawns at most one
Version == {"old", "new"}                \* clients are "new"

VARIABLES
  \* files
  spawnLock,   \* a client, or None
  lock,        \* the liveness lock: a daemon, or None
  pid,         \* what the liveness lock file says: a daemon, or None
  path,        \* the daemon that bound the socket file, or None
  \* daemons
  daemon,      \* Daemon -> where it is
  version,     \* Daemon -> Version
  reused,      \* pids that meanwhile belong to an unrelated process
  \* calls of Connect
  at,          \* Client -> where it is
  conn,        \* Client -> the daemon it is shaking hands with, or None
  \* calls of Stop
  stop,        \* Stopper -> where it is
  hard,        \* Stopper -> --hard
  target,      \* Stopper -> the pid it read before it dialed
  drained,     \* Stopper -> the daemon that acknowledged its drain
  stray,       \* an unrelated process was killed
  \* the environment
  slow,        \* timeouts fire while what they wait for is on its way
  faults, disturbed   \* faults so far; whether anything but a cold start happened

daemonVars == <<lock, pid, path, daemon, version, reused>>
clientVars == <<spawnLock, at, conn>>
stopVars   == <<stop, hard, target, drained, stray>>
connectVars == <<daemonVars, clientVars, stopVars, slow, faults, disturbed>>

Unborn == {d \in Daemon : daemon[d] = "unborn"}
Alive(d) == daemon[d] \notin {"unborn", "gone"}
\* The listener is open: a dial of the path reaches d.
Accepts(d) == d # None /\ daemon[d] \in {"listening", "draining"}

ConnectInit ==
  /\ spawnLock = None /\ at = [c \in Client |-> "first"] /\ conn = [c \in Client |-> None]
  /\ daemon \in {[d \in Daemon |-> IF d = 1 THEN s ELSE "unborn"] :
                   s \in {"unborn", "listening", "gone"}}
  /\ lock = IF daemon[1] = "listening" THEN 1 ELSE None
  /\ pid = IF daemon[1] = "unborn" THEN None ELSE 1
  /\ path \in (IF daemon[1] = "gone" THEN {None, 1} ELSE {pid})
  /\ version \in {[d \in Daemon |-> IF d = 1 THEN v ELSE "new"] :
                    v \in IF daemon[1] = "listening" THEN Version ELSE {"new"}}
  /\ reused = {} /\ stop = [s \in Stopper |-> "idle"] /\ hard \in [Stopper -> BOOLEAN]
  /\ target = [s \in Stopper |-> None] /\ drained = [s \in Stopper |-> None]
  /\ stray = FALSE /\ slow \in BOOLEAN /\ faults = 0 /\ disturbed = FALSE

Fault == faults < MaxFaults /\ faults' = faults + 1 /\ disturbed' = TRUE /\ UNCHANGED slow
NoFault == UNCHANGED <<slow, faults, disturbed>>
Become(d, s) == daemon' = [daemon EXCEPT ![d] = s]
-----------------------------------------------------------------------------
(* A daemon.                                                                *)

\* Mutant: the lock is tried once, not waited for.
AcquireOnce(d) ==
  /\ daemon[d] = "waiting"
  /\ IF lock = None THEN lock' = d /\ pid' = None /\ Become(d, "locked")
     ELSE Become(d, "gone") /\ UNCHANGED <<lock, pid>>
  /\ NoFault /\ UNCHANGED <<path, version, reused, clientVars, stopVars>>

\* acquireLiveness: the lock, then the pid; in between the file is truncated.
Acquire(d) ==
  /\ daemon[d] = "waiting" /\ lock = None
  /\ lock' = d /\ pid' = None /\ Become(d, "locked")
  /\ NoFault /\ UNCHANGED <<path, version, reused, clientVars, stopVars>>

WritePid(d) ==
  /\ daemon[d] = "locked"
  /\ pid' = d /\ Become(d, "starting")
  /\ NoFault /\ UNCHANGED <<lock, path, version, reused, clientVars, stopVars>>

\* DefaultLivenessLockWait is over: the predecessor does not stand down.
GiveUpLock(d) ==
  /\ daemon[d] = "waiting" /\ lock # None
  /\ slow \/ daemon[lock] = "listening"
  /\ Become(d, "gone") /\ disturbed' = TRUE
  /\ UNCHANGED <<lock, pid, path, version, reused, clientVars, stopVars, slow, faults>>

\* startIndex, or listenUnix, fails.
StartFails(d) ==
  /\ daemon[d] = "starting" /\ Fault
  /\ Become(d, "removed")
  /\ UNCHANGED <<lock, pid, path, version, reused, clientVars, stopVars>>

\* listenUnix: remove what is there, then bind.
RemoveStale(d) ==
  /\ daemon[d] = "starting"
  /\ path' = None /\ Become(d, "binding")
  /\ NoFault /\ UNCHANGED <<lock, pid, version, reused, clientVars, stopVars>>

Bind(d) ==
  /\ daemon[d] = "binding"
  /\ IF path = None THEN path' = d /\ Become(d, "listening")
     ELSE Become(d, "removed") /\ UNCHANGED path
  /\ NoFault /\ UNCHANGED <<lock, pid, version, reused, clientVars, stopVars>>

\* The sunset actor, or a signal.
Sunset(d) ==
  /\ daemon[d] = "listening" /\ Fault
  /\ Become(d, "draining")
  /\ UNCHANGED <<lock, pid, path, version, reused, clientVars, stopVars>>

\* listener.Close, which unlinks the path.
CloseListener(d) ==
  /\ daemon[d] = "draining"
  /\ path' = None /\ Become(d, "closed")
  /\ NoFault /\ UNCHANGED <<lock, pid, version, reused, clientVars, stopVars>>

\* Mutant: the lock goes before the socket file.
RemoveSocketUnlocked(d) ==
  /\ daemon[d] = "closed"
  /\ \/ lock = d /\ lock' = None /\ UNCHANGED <<path, daemon>>
     \/ lock # d /\ path' = None /\ Become(d, "released") /\ UNCHANGED lock
  /\ NoFault /\ UNCHANGED <<pid, version, reused, clientVars, stopVars>>

\* The teardown is over; the deferred os.Remove.
RemoveSocket(d) ==
  /\ daemon[d] = "closed"
  /\ path' = None /\ Become(d, "removed")
  /\ NoFault /\ UNCHANGED <<lock, pid, version, reused, clientVars, stopVars>>

\* The deferred lock.release.
Release(d) ==
  /\ daemon[d] = "removed"
  /\ lock' = None /\ Become(d, "released")
  /\ NoFault /\ UNCHANGED <<pid, path, version, reused, clientVars, stopVars>>

Exit(d) ==
  /\ daemon[d] = "released"
  /\ Become(d, "gone")
  /\ NoFault /\ UNCHANGED <<lock, pid, path, version, reused, clientVars, stopVars>>

\* The process dies: its lock goes, its socket file and its pid stay.
Die(d) ==
  /\ Become(d, "gone")
  /\ lock' = IF lock = d THEN None ELSE lock

DaemonCrash(d) ==
  /\ Alive(d) /\ Fault /\ Die(d)
  /\ UNCHANGED <<pid, path, version, reused, clientVars, stopVars>>

\* The system gives the pid of a daemon that is gone, still in the file, to another
\* process.
Reuse(d) ==
  /\ daemon[d] = "gone" /\ d = pid /\ d \notin reused /\ Fault
  /\ reused' = reused \cup {d}
  /\ UNCHANGED <<lock, pid, path, daemon, version, clientVars, stopVars>>

DaemonStep(d) ==
  \/ Acquire(d) \/ WritePid(d) \/ GiveUpLock(d) \/ RemoveStale(d) \/ Bind(d)
  \/ CloseListener(d) \/ RemoveSocket(d) \/ Release(d) \/ Exit(d)
-----------------------------------------------------------------------------
(* Connect.                                                                 *)

Goto(c, s) == at' = [at EXCEPT ![c] = s]
Dialing == {"first", "second", "poll"}
\* After a daemon that is not usable; the poll starts over.
Onward == [s \in Dialing |-> CASE s = "first" -> "lock" [] s = "second" -> "spawn"
                                [] s = "poll" -> "poll"]
\* Mutant: a Connect that succeeds keeps the spawn lock.
ReturnLocked(c, s) ==
  Goto(c, s) /\ spawnLock' = (IF spawnLock = c /\ s = "failed" THEN None ELSE spawnLock)
\* Connect returns: the deferred release of the spawn lock.
Return(c, s) == Goto(c, s) /\ spawnLock' = (IF spawnLock = c THEN None ELSE spawnLock)

\* Mutant: after the spawn lock comes the spawn.
DialOnce(c) ==
  /\ at[c] \in Dialing /\ conn[c] = None
  /\ IF Accepts(path) /\ at[c] # "second"
     THEN conn' = [conn EXCEPT ![c] = path] /\ UNCHANGED at
     ELSE Goto(c, Onward[at[c]]) /\ UNCHANGED conn
  /\ NoFault /\ UNCHANGED <<daemonVars, spawnLock, stopVars>>

Dial(c) ==
  /\ at[c] \in Dialing /\ conn[c] = None
  /\ IF Accepts(path) THEN conn' = [conn EXCEPT ![c] = path] /\ UNCHANGED at
     ELSE Goto(c, Onward[at[c]]) /\ UNCHANGED conn
  /\ NoFault /\ UNCHANGED <<daemonVars, spawnLock, stopVars>>

\* The daemon answers and speaks our version.
Welcome(c) ==
  /\ at[c] \in Dialing /\ conn[c] # None
  /\ daemon[conn[c]] = "listening" /\ version[conn[c]] = "new"
  /\ Return(c, "connected") /\ conn' = [conn EXCEPT ![c] = None]
  /\ NoFault /\ UNCHANGED <<daemonVars, stopVars>>

\* It speaks another version: ask it to drain.  (Should it no longer listen when the
\* request arrives, the outcome is that of Refused.)
Mismatch(c) ==
  /\ at[c] \in Dialing /\ conn[c] # None
  /\ daemon[conn[c]] = "listening" /\ version[conn[c]] = "old"
  /\ Become(conn[c], "draining")
  /\ Goto(c, Onward[at[c]]) /\ conn' = [conn EXCEPT ![c] = None]
  /\ NoFault /\ UNCHANGED <<lock, pid, path, version, reused, spawnLock, stopVars>>

\* It is draining, hangs up or dies; or handshakeTimeout is over.
Refused(c) ==
  /\ at[c] \in Dialing /\ conn[c] # None
  /\ IF daemon[conn[c]] # "listening" THEN UNCHANGED disturbed ELSE slow /\ disturbed' = TRUE
  /\ Goto(c, Onward[at[c]]) /\ conn' = [conn EXCEPT ![c] = None]
  /\ UNCHANGED <<daemonVars, spawnLock, stopVars, slow, faults>>

TakeSpawnLock(c) ==
  /\ at[c] = "lock" /\ spawnLock = None
  /\ spawnLock' = c /\ Goto(c, "second")
  /\ NoFault /\ UNCHANGED <<daemonVars, conn, stopVars>>

\* spawnLockWait is over.
GiveUpSpawnLock(c) ==
  /\ at[c] = "lock" /\ spawnLock # None /\ slow
  /\ Goto(c, "failed") /\ disturbed' = TRUE
  /\ UNCHANGED <<daemonVars, spawnLock, conn, stopVars, slow, faults>>

Spawn(c) ==
  /\ at[c] = "spawn"
  /\ \E d \in Unborn : (\A e \in Unborn : d <= e) /\ Become(d, "waiting")
  /\ Goto(c, "poll")
  /\ NoFault /\ UNCHANGED <<lock, pid, path, version, reused, spawnLock, conn, stopVars>>

\* spawnBudget is over: with no daemon left it certainly will be.
PollTimesOut(c) ==
  /\ at[c] = "poll" /\ conn[c] = None
  /\ IF \E d \in Daemon : Alive(d) THEN slow /\ disturbed' = TRUE ELSE UNCHANGED disturbed
  /\ Return(c, "failed")
  /\ UNCHANGED <<daemonVars, conn, stopVars, slow, faults>>

\* The process dies, its context is cancelled, or spawnDaemon fails.
ClientCrash(c) ==
  /\ at[c] \notin {"connected", "failed"} /\ Fault
  /\ Return(c, "failed") /\ conn' = [conn EXCEPT ![c] = None]
  /\ UNCHANGED <<daemonVars, stopVars>>

ClientStep(c) ==
  \/ Dial(c) \/ Welcome(c) \/ Mismatch(c) \/ Refused(c) \/ TakeSpawnLock(c)
  \/ GiveUpSpawnLock(c) \/ Spawn(c) \/ PollTimesOut(c)
-----------------------------------------------------------------------------
(* Stop.                                                                    *)

Halt(s, p) == stop' = [stop EXCEPT ![s] = p]
End(s, p) == Halt(s, p) /\ target' = [target EXCEPT ![s] = None]
ProcessAlive(p) == p # None /\ (Alive(p) \/ p \in reused)

\* readPID, before it dials.
ReadPid(s) ==
  /\ stop[s] = "idle"
  /\ target' = [target EXCEPT ![s] = pid] /\ Halt(s, "dialing")
  /\ NoFault /\ UNCHANGED <<daemonVars, clientVars, hard, drained, stray>>

\* Nobody usable listens.  A daemon of another version has been asked to drain by the
\* handshake, and is reported the same way.
NotListening(s) ==
  /\ stop[s] = "dialing"
  /\ \/ (~Accepts(path) \/ slow) /\ UNCHANGED daemon
     \/ Accepts(path) /\ daemon[path] = "draining" /\ UNCHANGED daemon
     \/ Accepts(path) /\ version[path] = "old" /\ Become(path, "draining")
  /\ IF hard[s] /\ ProcessAlive(target[s]) THEN Halt(s, "killing") /\ UNCHANGED target
     ELSE End(s, "already_stopped")
  /\ disturbed' = TRUE
  /\ UNCHANGED <<lock, pid, path, version, reused, clientVars, hard, drained, stray, slow,
                 faults>>

Greeted(s) ==
  /\ stop[s] = "dialing" /\ Accepts(path) /\ daemon[path] = "listening" /\ version[path] = "new"
  /\ drained' = [drained EXCEPT ![s] = path] /\ Halt(s, "asking")
  /\ disturbed' = TRUE
  /\ UNCHANGED <<daemonVars, clientVars, hard, target, stray, slow, faults>>

RequestDrain(s) ==
  /\ stop[s] = "asking" /\ daemon[drained[s]] \in {"listening", "draining", "closed"}
  /\ IF daemon[drained[s]] = "listening" THEN Become(drained[s], "draining")
     ELSE UNCHANGED daemon
  /\ Halt(s, "waiting")
  /\ NoFault
  /\ UNCHANGED <<lock, pid, path, version, reused, clientVars, hard, target, drained, stray>>

\* What --hard does when asking did not help: the pid of now, or that of before.
KillOr(s, result) ==
  IF hard[s]
  THEN Halt(s, "killing") /\ target' = [target EXCEPT ![s] = IF pid = None THEN @ ELSE pid]
  ELSE End(s, result)

DrainFails(s) ==
  /\ stop[s] = "asking"
  /\ daemon[drained[s]] \in {"closed", "removed", "released", "gone"} \/ slow
  /\ KillOr(s, "drain_failed")
  /\ NoFault /\ UNCHANGED <<daemonVars, clientVars, hard, drained, stray>>

\* waitDaemonGone: no socket file any more.
SocketGone(s) ==
  /\ stop[s] = "waiting" /\ path = None
  /\ Halt(s, "checking")
  /\ NoFault /\ UNCHANGED <<daemonVars, clientVars, hard, target, drained, stray>>

\* Mutant: only the socket file tells.
DaemonGoneSocket(s) ==
  /\ stop[s] = "checking"
  /\ End(s, "drained")
  /\ NoFault /\ UNCHANGED <<daemonVars, clientVars, hard, drained, stray>>

\* And nobody alive of the pid that is then in the lock file.
DaemonGone(s) ==
  /\ stop[s] = "checking" /\ ~ProcessAlive(pid)
  /\ End(s, "drained")
  /\ NoFault /\ UNCHANGED <<daemonVars, clientVars, hard, drained, stray>>

StillThere(s) ==
  /\ stop[s] = "checking" /\ ProcessAlive(pid)
  /\ Halt(s, "waiting")
  /\ NoFault /\ UNCHANGED <<daemonVars, clientVars, hard, target, drained, stray>>

\* The wait is over: something of a daemon is still, or again, there.
GiveUpWaiting(s) ==
  /\ stop[s] = "waiting" /\ (slow \/ path # None \/ ProcessAlive(pid))
  /\ KillOr(s, "drain_failed")
  /\ NoFault /\ UNCHANGED <<daemonVars, clientVars, hard, drained, stray>>

\* killProcessTree: SIGTERM, and SIGKILL at once if that did not do.
Kill(s) ==
  /\ stop[s] = "killing" /\ target[s] # None
  /\ IF Alive(target[s]) THEN Die(target[s]) ELSE UNCHANGED <<daemon, lock>>
  /\ stray' = (stray \/ target[s] \in reused)
  /\ End(s, "killed")
  /\ NoFault /\ UNCHANGED <<pid, path, version, reused, clientVars, hard, drained>>

NoPid(s) ==
  /\ stop[s] = "killing" /\ target[s] = None
  /\ Halt(s, "kill_failed")
  /\ NoFault /\ UNCHANGED <<daemonVars, clientVars, hard, target, drained, stray>>

StopStep(s) ==
  \/ ReadPid(s) \/ NotListening(s) \/ Greeted(s) \/ RequestDrain(s) \/ DrainFails(s)
  \/ SocketGone(s) \/ DaemonGone(s) \/ StillThere(s) \/ GiveUpWaiting(s) \/ Kill(s) \/ NoPid(s)

\* Every call has returned, and the daemon that is there may serve for ever.
Served ==
  /\ \A c \in Client : at[c] \in {"connected", "failed"}
  /\ UNCHANGED connectVars

ConnectNext ==
  \/ \E d \in Daemon : DaemonStep(d) \/ StartFails(d) \/ Sunset(d) \/ DaemonCrash(d) \/ Reuse(d)
  \/ \E c \in Client : ClientStep(c) \/ ClientCrash(c)
  \/ \E s \in Stopper : StopStep(s)
  \/ Served

ConnectSpec == ConnectInit /\ [][ConnectNext]_connectVars

-----------------------------------------------------------------------------
(* Properties.                                                              *)

StartingUp == {"waiting", "locked", "starting", "binding", "listening"}
NeverListened == {"unborn", "waiting", "locked", "starting", "binding"}
Holding == {"locked", "starting", "binding", "listening", "draining", "closed", "removed"}

ConnectTypeOK ==
  /\ {lock, pid, path} \subseteq Daemon \cup {None}
  /\ daemon \in [Daemon -> StartingUp \cup Holding \cup {"unborn", "released", "gone"}]
  /\ version \in [Daemon -> Version] /\ reused \subseteq Daemon
  /\ spawnLock \in Client \cup {None} /\ conn \in [Client -> Daemon \cup {None}]
  /\ at \in [Client -> Dialing \cup {"lock", "spawn", "connected", "failed"}]
  /\ stop \in [Stopper -> {"idle", "dialing", "asking", "waiting", "checking", "killing",
                          "already_stopped", "drained", "drain_failed", "killed", "kill_failed"}]
  /\ target \in [Stopper -> Daemon \cup {None}] /\ drained \in [Stopper -> Daemon \cup {None}]

\* The liveness lock is held by the daemon that thinks so, and the pid in it is its own.
LivenessInv ==
  \A d \in Daemon :
    /\ lock = d <=> daemon[d] \in Holding
    /\ daemon[d] \in Holding \ {"locked"} => pid = d
    /\ daemon[d] = "binding" => path = None
    /\ daemon[d] = "unborn" => version[d] = "new"

\* So is the spawn lock, and who is spoken to has listened.
ClientsInv ==
  \A c \in Client :
    /\ spawnLock = c <=> at[c] \in {"second", "spawn", "poll"}
    /\ conn[c] # None => at[c] \in Dialing /\ daemon[conn[c]] \notin NeverListened

StopsInv ==
  \A s \in Stopper :
    /\ stop[s] \notin {"idle", "dialing"} => disturbed
    /\ stop[s] \in {"asking", "waiting", "checking", "drained"} =>
         drained[s] # None /\ daemon[drained[s]] \notin NeverListened
    /\ stop[s] \in {"waiting", "checking"} => daemon[drained[s]] # "listening"

\* The locks are held where daemons and clients think they hold them, the pid in the
\* lock file is that of its holder, and a daemon that somebody talks to has listened.
ConnectInv == ConnectTypeOK /\ LivenessInv /\ ClientsInv /\ StopsInv

\* "It is safe for N processes to call this concurrently for the same root and yield
\* exactly ONE daemon": as long as nothing fails, times out or stops, one daemon is up or
\* on its way up, and none is started beside it.
OneDaemon ==
  disturbed \/ \A d, e \in Daemon : daemon[d] \in StartingUp /\ daemon[e] \in StartingUp => d = e

\* Whatever crashes and whoever stands down: who listens is who is dialed.  No daemon
\* removes the socket of another.
ListenerIsReachable == \A d \in Daemon : Accepts(d) => path = d

\* Draining a daemon of another version, or meeting one that stands down, ends with a
\* daemon that serves: Connect fails only if a process died, was stopped or was slow.
FailsOnlyIfDisturbed == (\E c \in Client : at[c] = "failed") => disturbed

\* Stop says "drained" only if the daemon that it drained let go of the workspace.
StopTellsTheTruth ==
  \A s \in Stopper : stop[s] = "drained" => daemon[drained[s]] \in {"released", "gone"}

\* Why OneDaemon and FailsOnlyIfDisturbed hold: what the holder of the spawn lock
\* knows about daemons that are up or on their way.
ColdStart ==
  disturbed \/
    /\ OneDaemon
    /\ \A c \in Client :
         /\ at[c] # "failed"
         /\ at[c] = "second" =>
              \A d \in Daemon : daemon[d] \in StartingUp =>
                daemon[d] = "listening" /\ conn[c] \in {None, d}
         /\ at[c] = "spawn" => \A d \in Daemon : daemon[d] \notin StartingUp
         /\ at[c] = "poll" => \E d \in Daemon : daemon[d] \in StartingUp /\ version[d] = "new"
    /\ (\E d \in Daemon : daemon[d] \in StartingUp \ {"listening"}) =>
         \E c \in Client : at[c] = "poll"

\* The pid in the lock file "is for humans reading the directory; nothing depends on it,
\* which matters because a pid file can be stale": nobody kills by it what is no daemon.
OnlyDaemonsAreKilled == ~stray

\* One daemon at a time has the workspace, in the phases that module Daemon goes through.
Phase(d) ==
  CASE daemon[d] \in {"unborn", "waiting"}              -> "outside"
    [] daemon[d] \in {"locked", "starting", "binding"}  -> "holding"
    [] daemon[d] \in {"listening", "draining"}          -> "accepting"
    [] daemon[d] \in {"closed", "removed"}              -> "closing"
    [] daemon[d] \in {"released", "gone"}               -> "over"
Life == INSTANCE DaemonLife WITH Daemons <- Daemon, phase <- [d \in Daemon |-> Phase(d)]
ImplementsLife == Life!Spec
=============================================================================
