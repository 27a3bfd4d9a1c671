------------------------------- MODULE Daemon -------------------------------
(***************************************************************************)
(* One daemon process, from taking the liveness lock to releasing it       *)
(* (daemon/server.go, daemon/session.go).  Server.Run owns the ordering:   *)
(* lock, index, listener, sunset actor, then the shutdown sequence.  The   *)
(* acceptor, one serve goroutine per connection, one handle goroutine per  *)
(* request and the index GC loop run beside it.                            *)
(*                                                                         *)
(* A connection carries the requests its peer sends; a request is read by  *)
(* serve, handled by its own goroutine and answered over the connection's  *)
(* socket.  `owned[c]` says that the core holds state (documents,          *)
(* overlays) of the sessions that spoke over c.                            *)
(***************************************************************************)
EXTENDS Sunset, FiniteSets

CONSTANTS
  Conn,          \* connections that peers ever open
  Req,           \* requests that peers ever send
  NoConn,        \* the connection of a request nobody has read yet
  MaxInFlight,   \* opts.MaxInFlight, the capacity of s.sem
  HasIndex       \* opts.Config.DatabasePath is not empty

ASSUME DaemonAssumption ==
  /\ IsFiniteSet(Conn) /\ IsFiniteSet(Req)
  /\ NoConn \notin Conn
  /\ MaxInFlight \in Nat \ {0}
  /\ HasIndex \in BOOLEAN

VARIABLES
  run,          \* where Server.Run is
  lock,         \* Run holds the liveness flock
  listener,     \* "none", "open", "closed"
  acceptor,     \* the accept goroutine: "none", "running", "exited"
  reqCancelled, \* s.reqCtx is cancelled
  graceOut,     \* DrainGrace ran out before the requests in flight ended
  quietSeen,    \* the channel captured by answering.waitQuiet has been closed
  replyOut,     \* replyGrace ran out before the handlers had answered
  closing,      \* s.closing
  registry,     \* the workspaces and their language servers: "up", "down"
  store,        \* the index database: "none", "open", "closed"
  gc,           \* the runGC goroutine: "none", "idle", "pass", "exited"
  gcCancelled,  \* its context is cancelled
  serving,      \* Conn -> where its serve goroutine is
  sock,         \* Conn -> "none", "open", "closed"
  admitted,     \* Conn -> the result of addClient
  tracked,      \* s.conns
  noted,        \* Conn -> its sessionSet is not empty
  owned,        \* Conn -> the core holds state of its sessions
  leaked,       \* Conn -> its session cleanup ran out of time or was cancelled
  handling,     \* Req -> where its handle goroutine is
  of,           \* Req -> the connection it was read from
  kind,         \* Req -> its method class
  holds,        \* Req -> what its deferred calls give back: gate, slot, flight
  answering,    \* s.answering.n
  sem           \* occupied slots of s.sem

runVars   == <<run, lock, listener, acceptor, reqCancelled, graceOut, quietSeen,
               replyOut, closing, registry>>
indexVars == <<store, gc, gcCancelled>>
connVars  == <<serving, sock, admitted, tracked, noted, owned, leaked>>
reqVars   == <<handling, of, kind, holds, answering, sem>>
vars      == <<sunsetVars, runVars, indexVars, connVars, reqVars>>

\* The class of a request: what is answered without touching shared state (a
\* handshake, or a wrong version, an unknown method or a missing session_id),
\* drain, and everything dispatch binds to a method of the core.
Kinds == {"answer", "drain", "call"}

DaemonFlags ==
  /\ lock \in BOOLEAN /\ reqCancelled \in BOOLEAN /\ graceOut \in BOOLEAN
  /\ quietSeen \in BOOLEAN /\ replyOut \in BOOLEAN /\ closing \in BOOLEAN
  /\ gcCancelled \in BOOLEAN
  /\ admitted \in [Conn -> BOOLEAN] /\ noted \in [Conn -> BOOLEAN]
  /\ owned \in [Conn -> BOOLEAN] /\ leaked \in [Conn -> BOOLEAN]

TypeOK ==
  /\ SunsetTypeOK /\ DaemonFlags
  /\ run \in {"start", "index", "listen", "serve", "grace", "cancel", "reply",
              "replyWait", "closeConns", "join", "shutdown", "finishIndex",
              "closeStore", "unlink", "unlock", "done"}
  /\ listener \in {"none", "open", "closed"}
  /\ acceptor \in {"none", "running", "exited"}
  /\ registry \in {"up", "down"}
  /\ store \in {"none", "open", "closed"}
  /\ gc \in {"none", "idle", "pass", "exited"}
  /\ serving \in [Conn -> {"none", "accepted", "tracked", "reading", "refusing",
                           "joining", "ending", "untracking", "closing", "gone"}]
  /\ sock \in [Conn -> {"none", "open", "closed"}]
  /\ tracked \in SUBSET Conn
  /\ handling \in [Req -> {"none", "spawned", "entered", "slot", "begun",
                           "replying", "unwinding", "done"}]
  /\ of \in [Req -> Conn \cup {NoConn}]
  /\ kind \in [Req -> Kinds]
  /\ holds \in [Req -> SUBSET {"gate", "slot", "flight"}]
  /\ answering \in Nat
  /\ sem \in 0..MaxInFlight

Init ==
  /\ SunsetInit
  /\ run = "start" /\ lock = FALSE /\ listener = "none" /\ acceptor = "none"
  /\ reqCancelled = FALSE /\ graceOut = FALSE /\ quietSeen = FALSE
  /\ replyOut = FALSE /\ closing = FALSE /\ registry = "up"
  /\ store = "none" /\ gc = "none" /\ gcCancelled = FALSE
  /\ serving = [c \in Conn |-> "none"] /\ sock = [c \in Conn |-> "none"]
  /\ admitted = [c \in Conn |-> FALSE] /\ tracked = {}
  /\ noted = [c \in Conn |-> FALSE] /\ owned = [c \in Conn |-> FALSE]
  /\ leaked = [c \in Conn |-> FALSE]
  /\ handling = [r \in Req |-> "none"] /\ of = [r \in Req |-> NoConn]
  /\ kind = [r \in Req |-> "answer"] /\ holds = [r \in Req |-> {}]
  /\ answering = 0 /\ sem = 0
-----------------------------------------------------------------------------
(* Server.Run: startup.  A step that fails unwinds the deferred calls of    *)
(* the steps before it.                                                    *)

AcquireLiveness ==
  /\ run = "start"
  /\ \/ run' = "index" /\ lock' = TRUE
     \/ run' = "done" /\ UNCHANGED lock      \* waited too long, or cancelled
  /\ UNCHANGED <<sunsetVars, listener, acceptor, reqCancelled, graceOut, quietSeen,
                 replyOut, closing, registry, indexVars, connVars, reqVars>>

\* startIndex: without a database path there is no store and no GC loop.
StartIndex ==
  /\ run = "index"
  /\ \/ ~HasIndex /\ run' = "listen" /\ UNCHANGED indexVars
     \/ /\ HasIndex
        /\ run' = "listen" /\ store' = "open" /\ gc' = "idle" /\ UNCHANGED gcCancelled
     \/ HasIndex /\ run' = "unlock" /\ UNCHANGED indexVars
  /\ UNCHANGED <<sunsetVars, lock, listener, acceptor, reqCancelled, graceOut,
                 quietSeen, replyOut, closing, registry, connVars, reqVars>>

Listen ==
  /\ run = "listen"
  /\ \/ run' = "serve" /\ listener' = "open" /\ acceptor' = "running"
     \/ run' = "finishIndex" /\ UNCHANGED <<listener, acceptor>>
  /\ UNCHANGED <<sunsetVars, lock, reqCancelled, graceOut, quietSeen, replyOut,
                 closing, registry, indexVars, connVars, reqVars>>

\* sun.run is called after `go s.accept`, so a peer may be admitted before it.
RunActor ==
  /\ run = "serve"
  /\ StartActor
  /\ UNCHANGED <<runVars, indexVars, connVars, reqVars>>
-----------------------------------------------------------------------------
(* Server.Run: shutdown, in the order of the code.                         *)

CloseListener ==
  /\ run = "serve" /\ actor = "returned"
  /\ run' = "grace" /\ listener' = "closed"
  /\ UNCHANGED <<sunsetVars, lock, acceptor, reqCancelled, graceOut, quietSeen,
                 replyOut, closing, registry, indexVars, connVars, reqVars>>

\* sun.waitQuiet(DrainGrace): real time, so it may run out at any moment.
WaitQuiet ==
  /\ run = "grace"
  /\ graceOut' = (inflight > 0)
  /\ run' = "cancel"
  /\ UNCHANGED <<sunsetVars, lock, listener, acceptor, reqCancelled, quietSeen,
                 replyOut, closing, registry, indexVars, connVars, reqVars>>

CancelReq ==
  /\ run = "cancel"
  /\ run' = "reply" /\ reqCancelled' = TRUE
  /\ UNCHANGED <<sunsetVars, lock, listener, acceptor, graceOut, quietSeen,
                 replyOut, closing, registry, indexVars, connVars, reqVars>>

\* Mutant: hang up in the same breath as the cancellation.
WaitAnswersSkipped ==
  /\ run = "reply"
  /\ run' = "closeConns"
  /\ UNCHANGED <<sunsetVars, lock, listener, acceptor, reqCancelled, graceOut,
                 quietSeen, replyOut, closing, registry, indexVars, connVars, reqVars>>

\* answering.waitQuiet(replyGrace): the channel is captured once, so handlers
\* that enter after it was closed are not waited for.
WaitAnswers ==
  /\ run = "reply"
  /\ run' = IF answering = 0 THEN "closeConns" ELSE "replyWait"
  /\ quietSeen' = FALSE
  /\ UNCHANGED <<sunsetVars, lock, listener, acceptor, reqCancelled, graceOut,
                 replyOut, closing, registry, indexVars, connVars, reqVars>>

WaitAnswersEnd ==
  /\ run = "replyWait"
  /\ run' = "closeConns" /\ replyOut' = ~quietSeen
  /\ UNCHANGED <<sunsetVars, lock, listener, acceptor, reqCancelled, graceOut,
                 quietSeen, closing, registry, indexVars, connVars, reqVars>>

\* closeConns: the flag and the snapshot of s.conns are one critical section.
\* The sockets are closed after it; nothing can be added to the snapshot.
CloseConns ==
  /\ run = "closeConns"
  /\ run' = "join" /\ closing' = TRUE
  /\ sock' = [c \in Conn |-> IF c \in tracked THEN "closed" ELSE sock[c]]
  /\ UNCHANGED <<sunsetVars, lock, listener, acceptor, reqCancelled, graceOut,
                 quietSeen, replyOut, registry, indexVars, serving, admitted,
                 tracked, noted, owned, leaked, reqVars>>

\* s.wg.Wait: the acceptor and every serve goroutine.
Join ==
  /\ run = "join"
  /\ acceptor = "exited" /\ \A c \in Conn : serving[c] \in {"none", "gone"}
  /\ run' = "shutdown"
  /\ UNCHANGED <<sunsetVars, lock, listener, acceptor, reqCancelled, graceOut,
                 quietSeen, replyOut, closing, registry, indexVars, connVars, reqVars>>

ShutdownRegistry ==
  /\ run = "shutdown"
  /\ run' = "finishIndex" /\ registry' = "down"
  /\ UNCHANGED <<sunsetVars, lock, listener, acceptor, reqCancelled, graceOut,
                 quietSeen, replyOut, closing, indexVars, connVars, reqVars>>

\* Only a bound socket has a deferred os.Remove.
AfterIndex == IF listener = "none" THEN "unlock" ELSE "unlink"

\* finishIndex, up to waiting for the GC loop.
FinishIndex ==
  /\ run = "finishIndex"
  /\ IF store = "none"
     THEN run' = AfterIndex /\ UNCHANGED gcCancelled
     ELSE run' = "closeStore" /\ gcCancelled' = TRUE
  /\ UNCHANGED <<sunsetVars, lock, listener, acceptor, reqCancelled, graceOut,
                 quietSeen, replyOut, closing, registry, store, gc, connVars, reqVars>>

\* finishIndex, once gcDone is closed: checkpoint and close.
CloseStore ==
  /\ run = "closeStore" /\ gc = "exited"
  /\ run' = AfterIndex /\ store' = "closed"
  /\ UNCHANGED <<sunsetVars, lock, listener, acceptor, reqCancelled, graceOut,
                 quietSeen, replyOut, closing, registry, gc, gcCancelled, connVars,
                 reqVars>>

\* The deferred os.Remove(s.socket), then lock.release.
Unlink ==
  /\ run = "unlink" /\ run' = "unlock"
  /\ UNCHANGED <<sunsetVars, lock, listener, acceptor, reqCancelled, graceOut,
                 quietSeen, replyOut, closing, registry, indexVars, connVars, reqVars>>

ReleaseLock ==
  /\ run = "unlock" /\ run' = "done" /\ lock' = FALSE
  /\ UNCHANGED <<sunsetVars, listener, acceptor, reqCancelled, graceOut, quietSeen,
                 replyOut, closing, registry, indexVars, connVars, reqVars>>

RunStep ==
  \/ AcquireLiveness \/ StartIndex \/ Listen \/ RunActor \/ CloseListener
  \/ WaitQuiet \/ CancelReq \/ WaitAnswers \/ WaitAnswersEnd \/ CloseConns \/ Join
  \/ ShutdownRegistry \/ FinishIndex \/ CloseStore \/ Unlink \/ ReleaseLock
-----------------------------------------------------------------------------
(* runGC, the periodic collection of the shared index.                      *)

GCPass ==
  /\ gc = "idle" /\ gc' = "pass"
  /\ UNCHANGED <<sunsetVars, runVars, store, gcCancelled, connVars, reqVars>>

GCPassEnds ==
  /\ gc = "pass" /\ gc' = "idle"
  /\ UNCHANGED <<sunsetVars, runVars, store, gcCancelled, connVars, reqVars>>

GCExit ==
  /\ gc = "idle" /\ gcCancelled
  /\ gc' = "exited"
  /\ UNCHANGED <<sunsetVars, runVars, store, gcCancelled, connVars, reqVars>>
-----------------------------------------------------------------------------
(* accept and serve.                                                       *)

Accept(c) ==
  /\ acceptor = "running" /\ listener = "open" /\ serving[c] = "none"
  /\ serving' = [serving EXCEPT ![c] = "accepted"]
  /\ sock' = [sock EXCEPT ![c] = "open"]
  /\ UNCHANGED <<sunsetVars, runVars, indexVars, admitted, tracked, noted, owned,
                 leaked, reqVars>>

\* Any error ends the acceptor: that the listener is closed, or a transient one.
AcceptEnds ==
  /\ acceptor = "running" /\ acceptor' = "exited"
  /\ UNCHANGED <<sunsetVars, run, lock, listener, reqCancelled, graceOut, quietSeen,
                 replyOut, closing, registry, indexVars, connVars, reqVars>>

\* Mutant: the registry of connections is read once, and never known to be shut.
TrackConnAlways(c) ==
  /\ serving[c] = "accepted"
  /\ serving' = [serving EXCEPT ![c] = "tracked"]
  /\ tracked' = tracked \cup {c}
  /\ UNCHANGED <<sunsetVars, runVars, indexVars, sock, admitted, noted, owned,
                 leaked, reqVars>>

\* trackConn: refused inside the shutdown window, and then only hung up on.
TrackConn(c) ==
  /\ serving[c] = "accepted"
  /\ IF closing
     THEN serving' = [serving EXCEPT ![c] = "closing"] /\ UNCHANGED tracked
     ELSE /\ serving' = [serving EXCEPT ![c] = "tracked"]
          /\ tracked' = tracked \cup {c}
  /\ UNCHANGED <<sunsetVars, runVars, indexVars, sock, admitted, noted, owned,
                 leaked, reqVars>>

Admit(c) ==
  /\ serving[c] = "tracked"
  /\ serving' = [serving EXCEPT ![c] = "reading"]
  /\ \/ AddClient /\ admitted' = [admitted EXCEPT ![c] = TRUE]
     \/ Refused /\ UNCHANGED admitted
  /\ UNCHANGED <<runVars, indexVars, sock, tracked, noted, owned, leaked, reqVars>>

\* ReadRequest returns a request: an admitted client gets a goroutine for it,
\* any other is refused on this one.
ReadRequest(c, r, k) ==
  /\ serving[c] = "reading" /\ sock[c] = "open" /\ handling[r] = "none"
  /\ handling' = [handling EXCEPT ![r] = "spawned"]
  /\ of' = [of EXCEPT ![r] = c] /\ kind' = [kind EXCEPT ![r] = k]
  /\ serving' = IF admitted[c] THEN serving ELSE [serving EXCEPT ![c] = "refusing"]
  /\ UNCHANGED <<sunsetVars, runVars, indexVars, sock, admitted, tracked, noted,
                 owned, leaked, holds, answering, sem>>

ReadEnds(c) ==
  /\ serving[c] = "reading"
  /\ serving' = [serving EXCEPT ![c] = "joining"]
  /\ UNCHANGED <<sunsetVars, runVars, indexVars, sock, admitted, tracked, noted,
                 owned, leaked, reqVars>>

\* The read fails because the socket is closed, or on a malformed frame.
ReadEOF(c) == sock[c] = "closed" /\ ReadEnds(c)
ReadMalformed(c) == sock[c] = "open" /\ ReadEnds(c)

\* Mutant: serve does not wait for requests that have not begun yet.
HandlersBegunDone(c) ==
  \A r \in Req : of[r] = c => handling[r] \in {"spawned", "entered", "done"}

HandlersDone(c) == \A r \in Req : of[r] = c => handling[r] = "done"

\* handlers.Wait, then removeClient.
JoinHandlers(c) ==
  /\ serving[c] = "joining" /\ HandlersDone(c)
  /\ serving' = [serving EXCEPT ![c] = "ending"]
  /\ IF admitted[c] THEN RemoveClient ELSE UNCHANGED sunsetVars
  /\ UNCHANGED <<runVars, indexVars, sock, admitted, tracked, noted, owned, leaked,
                 reqVars>>

\* endSession for every session of the connection, under a context that derives
\* from reqCtx and times out: cut short, the core keeps what it had not released.
EndSessions(c) ==
  /\ serving[c] = "ending"
  /\ serving' = [serving EXCEPT ![c] = "untracking"]
  /\ \/ /\ owned' = [owned EXCEPT ![c] = owned[c] /\ ~noted[c]]
        /\ UNCHANGED leaked
     \/ /\ noted[c]
        /\ leaked' = [leaked EXCEPT ![c] = TRUE]
        /\ UNCHANGED owned
  /\ UNCHANGED <<sunsetVars, runVars, indexVars, sock, admitted, tracked, noted, reqVars>>

UntrackConn(c) ==
  /\ serving[c] = "untracking"
  /\ serving' = [serving EXCEPT ![c] = "closing"]
  /\ tracked' = tracked \ {c}
  /\ UNCHANGED <<sunsetVars, runVars, indexVars, sock, admitted, noted, owned, leaked,
                 reqVars>>

\* The deferred conn.Close and wg.Done.
ServeReturns(c) ==
  /\ serving[c] = "closing"
  /\ serving' = [serving EXCEPT ![c] = "gone"]
  /\ sock' = [sock EXCEPT ![c] = "closed"]
  /\ UNCHANGED <<sunsetVars, runVars, indexVars, admitted, tracked, noted, owned,
                 leaked, reqVars>>

\* The peer hangs up or dies.
PeerClose(c) ==
  /\ sock[c] = "open"
  /\ sock' = [sock EXCEPT ![c] = "closed"]
  /\ UNCHANGED <<sunsetVars, runVars, indexVars, serving, admitted, tracked, noted,
                 owned, leaked, reqVars>>

ServeStep(c) ==
  \/ TrackConn(c) \/ Admit(c) \/ ReadEOF(c) \/ JoinHandlers(c) \/ EndSessions(c)
  \/ UntrackConn(c) \/ ServeReturns(c)
-----------------------------------------------------------------------------
(* handle, one goroutine per request; of a refused client, the serve        *)
(* goroutine itself between answering.enter and answering.leave.           *)

Goto(r, point) == handling' = [handling EXCEPT ![r] = point]

Enter(r) ==
  /\ handling[r] = "spawned"
  /\ Goto(r, IF admitted[of[r]] THEN "entered" ELSE "replying")
  /\ holds' = [holds EXCEPT ![r] = {"gate"}]
  /\ answering' = answering + 1
  /\ UNCHANGED <<sunsetVars, runVars, indexVars, connVars, of, kind, sem>>

\* handshake reads isDraining to choose its answer; the requests rejected before
\* a handler runs only have an answer.
AnswerAtOnce(r) ==
  /\ handling[r] = "entered" /\ kind[r] = "answer"
  /\ Goto(r, "replying")
  /\ UNCHANGED <<sunsetVars, runVars, indexVars, connVars, of, kind, holds,
                 answering, sem>>

Drain(r) ==
  /\ handling[r] = "entered" /\ kind[r] = "drain"
  /\ RequestDrain
  /\ Goto(r, "replying")
  /\ UNCHANGED <<runVars, indexVars, connVars, of, kind, holds, answering, sem>>

\* Mutant: the session is noted only once a request of it was refused.
TakeSlotUnnoted(r) ==
  /\ handling[r] = "entered" /\ kind[r] = "call"
  /\ IF sem < MaxInFlight
     THEN /\ sem' = sem + 1
          /\ holds' = [holds EXCEPT ![r] = @ \cup {"slot"}]
          /\ Goto(r, "slot")
          /\ UNCHANGED noted
     ELSE /\ noted' = [noted EXCEPT ![of[r]] = TRUE]
          /\ Goto(r, "replying") /\ UNCHANGED <<sem, holds>>
  /\ UNCHANGED <<sunsetVars, runVars, indexVars, serving, sock, admitted, tracked,
                 owned, leaked, of, kind, answering>>

\* sessions.note, then a slot of the semaphore or a NOT_READY answer.
TakeSlot(r) ==
  /\ handling[r] = "entered" /\ kind[r] = "call"
  /\ noted' = [noted EXCEPT ![of[r]] = TRUE]
  /\ IF sem < MaxInFlight
     THEN /\ sem' = sem + 1
          /\ holds' = [holds EXCEPT ![r] = @ \cup {"slot"}]
          /\ Goto(r, "slot")
     ELSE Goto(r, "replying") /\ UNCHANGED <<sem, holds>>
  /\ UNCHANGED <<sunsetVars, runVars, indexVars, serving, sock, admitted, tracked,
                 owned, leaked, of, kind, answering>>

Begin(r) ==
  /\ handling[r] = "slot"
  /\ \/ /\ BeginRequest
        /\ holds' = [holds EXCEPT ![r] = @ \cup {"flight"}]
        /\ Goto(r, "begun")
     \/ Refused /\ Goto(r, "replying") /\ UNCHANGED holds
  /\ UNCHANGED <<runVars, indexVars, connVars, of, kind, answering, sem>>

\* The handler of the core runs and returns, with a result or an error.  It may
\* leave the session with state in the core, or (end_session) without.
Execute(r) ==
  /\ handling[r] = "begun"
  /\ \E keeps \in BOOLEAN : owned' = [owned EXCEPT ![of[r]] = keeps]
  /\ Goto(r, "replying")
  /\ UNCHANGED <<sunsetVars, runVars, indexVars, serving, sock, admitted, tracked,
                 noted, leaked, of, kind, holds, answering, sem>>

\* reply: a result that does not fit a frame is answered with the reason; a
\* write that fails, or expires on a peer that stopped reading, hangs up.
Reply(r) ==
  /\ handling[r] = "replying"
  /\ Goto(r, "unwinding")
  /\ \/ sock[of[r]] = "open" /\ UNCHANGED sock
     \/ sock' = [sock EXCEPT ![of[r]] = "closed"]
  /\ UNCHANGED <<sunsetVars, runVars, indexVars, serving, admitted, tracked, noted,
                 owned, leaked, of, kind, holds, answering, sem>>

\* The deferred calls, last registered first: endRequest, the slot, the gate.
EndFlight(r) ==
  /\ handling[r] = "unwinding" /\ "flight" \in holds[r]
  /\ EndRequest
  /\ holds' = [holds EXCEPT ![r] = @ \ {"flight"}]
  /\ UNCHANGED <<runVars, indexVars, connVars, handling, of, kind, answering, sem>>

\* Mutant: the slot is not given back.
ReleaseSlotLeak(r) ==
  /\ handling[r] = "unwinding" /\ "flight" \notin holds[r] /\ "slot" \in holds[r]
  /\ holds' = [holds EXCEPT ![r] = @ \ {"slot"}]
  /\ UNCHANGED <<sunsetVars, runVars, indexVars, connVars, handling, of, kind,
                 answering, sem>>

ReleaseSlot(r) ==
  /\ handling[r] = "unwinding" /\ "flight" \notin holds[r] /\ "slot" \in holds[r]
  /\ sem' = sem - 1
  /\ holds' = [holds EXCEPT ![r] = @ \ {"slot"}]
  /\ UNCHANGED <<sunsetVars, runVars, indexVars, connVars, handling, of, kind,
                 answering>>

\* answering.leave, where reaching zero closes the channel that Run may have
\* captured, then handlers.Done; a refusal returns to the read loop instead.
Leave(r) ==
  /\ handling[r] = "unwinding" /\ holds[r] = {"gate"}
  /\ answering' = IF answering > 0 THEN answering - 1 ELSE answering
  /\ quietSeen' = (quietSeen \/ answering' = 0)
  /\ holds' = [holds EXCEPT ![r] = {}]
  /\ Goto(r, "done")
  /\ serving' = IF admitted[of[r]] THEN serving
                ELSE [serving EXCEPT ![of[r]] = "reading"]
  /\ UNCHANGED <<sunsetVars, run, lock, listener, acceptor, reqCancelled, graceOut,
                 replyOut, closing, registry, indexVars, sock, admitted, tracked,
                 noted, owned, leaked, of, kind, sem>>

HandleStep(r) ==
  \/ Enter(r) \/ AnswerAtOnce(r) \/ Drain(r) \/ TakeSlot(r) \/ Begin(r) \/ Execute(r)
  \/ Reply(r) \/ EndFlight(r) \/ ReleaseSlot(r) \/ Leave(r)
-----------------------------------------------------------------------------
\* The sunset's own steps and its environment, while the process lives.
Outside == UNCHANGED <<runVars, indexVars, connVars, reqVars>>

ActorStep == Actor /\ Outside
Time == run # "done" /\ Tick /\ Outside
Interrupt == run # "done" /\ Signal /\ Outside
FileActivity == listener # "none" /\ registry = "up" /\ NoteActivity /\ Outside

\* Run has returned and no goroutine is left.
Terminated == run = "done" /\ UNCHANGED vars

Next ==
  \/ RunStep \/ ActorStep \/ Time \/ Interrupt \/ FileActivity \/ AcceptEnds
  \/ GCPass \/ GCPassEnds \/ GCExit
  \/ \E c \in Conn : Accept(c) \/ ServeStep(c) \/ ReadMalformed(c) \/ PeerClose(c)
  \/ \E c \in Conn, r \in Req, k \in Kinds : ReadRequest(c, r, k)
  \/ \E r \in Req : HandleStep(r)
  \/ Terminated

Spec == Init /\ [][Next]_vars

\* EndSessions with a session to end, which may hold documents open on a server.
Releasing(c) == serving[c] = "ending" /\ noted[c]

\* The goroutines of the daemon run.  Peers owe nothing: they may be silent for
\* ever, and no signal or file change need come.  Nor does a call into the core
\* (Execute, EndSessions, ShutdownRegistry): each has a context that ends, but a
\* write to a language server that does not read its input (framer.Write in call
\* and notify of lsp/conn.go) looks at no context.
Fairness ==
  /\ WF_vars(run # "shutdown" /\ RunStep) /\ WF_vars(ActorStep) /\ WF_vars(Time)
  /\ WF_vars(AcceptEnds /\ listener = "closed")
  /\ WF_vars(GCPassEnds) /\ SF_vars(GCExit)
  /\ \A c \in Conn : WF_vars(~Releasing(c) /\ ServeStep(c))
  /\ \A r \in Req : WF_vars(handling[r] # "begun" /\ HandleStep(r))

FairSpec == Spec /\ Fairness
-----------------------------------------------------------------------------
(* Properties.                                                             *)

HoldersOf(what) == {r \in Req : what \in holds[r]}
Admitted == {c \in Conn : admitted[c] /\ serving[c] \in {"reading", "joining"}}

\* The counters the shutdown sequence relies on are exactly the goroutines they
\* stand for: s.clients, s.inflight, s.answering.n and the semaphore (the code
\* decrements them with "if n > 0", which would hide a double release).
CountersExact ==
  /\ clients = Cardinality(Admitted)
  /\ inflight = Cardinality(HoldersOf("flight"))
  /\ answering = Cardinality(HoldersOf("gate"))
  /\ sem = Cardinality(HoldersOf("slot"))

\* Run touches the language servers only when nothing can still call into them:
\* once the registry is shut down no handler runs, no connection is served and no
\* session is being ended (server.go, "Join the acceptor and every connection
\* goroutine before touching the language servers").
TeardownAfterHandlers ==
  registry = "down" =>
    /\ \A c \in Conn : serving[c] \in {"none", "gone"}
    /\ \A r \in Req : handling[r] \in {"none", "done"}

\* A request in flight is cancelled only when DrainGrace ran out on it, and
\* hung up on only when replyGrace did too: otherwise its answer was written
\* before closeConns closed its socket.
NoRequestCutOff ==
  /\ reqCancelled /\ ~graceOut => \A r \in Req : handling[r] # "begun"
  /\ closing /\ ~replyOut => HoldersOf("flight") = {}

\* An idle daemon strands nobody: whoever was admitted before the sunset fired
\* kept it from firing, and nobody is admitted after (the race tryIdleDrain
\* closes with addClient).
IdleStrandsNobody == reason = "idle" => Admitted = {} /\ HoldersOf("flight") = {}

\* When a connection is gone the core holds nothing for its sessions, unless
\* their cleanup ran out of time or was cancelled (SPEC 4.2, session.go).
NoOrphanedSession ==
  \A c \in Conn : serving[c] = "gone" /\ ~leaked[c] => ~owned[c]

\* The liveness lock covers everything that must not exist twice: when it is
\* free the listener, the store, the GC loop, the acceptor and every connection
\* of this daemon are gone.
LockCoversDaemon ==
  ~lock =>
    /\ listener # "open" /\ acceptor # "running"
    /\ store # "open" /\ gc \notin {"idle", "pass"}
    /\ \A c \in Conn : serving[c] \in {"none", "gone"}

\* Nothing is torn down under what still uses it: neither the language servers under a
\* handler, nor the store or the lock under the index, a connection or the listener.
TeardownInOrder == TeardownAfterHandlers /\ LockCoversDaemon

\* The inductive strengthening, one part per relation the code maintains.

Live(r) == handling[r] \notin {"none", "done"}
Quiet == \A c \in Conn : serving[c] \in {"none", "gone"}

\* A live request belongs to a connection whose serve goroutine is still there:
\* reading or joining it if the client was admitted, busy with this one refusal
\* if not.
RequestsServed ==
  \A r \in Req :
    /\ handling[r] = "none" <=> of[r] = NoConn
    /\ Live(r) => IF admitted[of[r]]
                  THEN serving[of[r]] \in {"reading", "joining"}
                  ELSE serving[of[r]] = "refusing"
    /\ Live(r) => \A q \in Req : Live(q) /\ of[q] = of[r] => q = r \/ admitted[of[r]]
    /\ handling[r] \in {"entered", "slot", "begun"} => admitted[of[r]]
    /\ handling[r] \in {"slot", "begun"} => noted[of[r]]

\* What a handler still has to give back follows from where it is.
HoldsByPoint ==
  \A r \in Req :
    /\ handling[r] \in {"none", "spawned", "done"} => holds[r] = {}
    /\ handling[r] = "entered" => holds[r] = {"gate"}
    /\ handling[r] = "slot" => holds[r] = {"gate", "slot"}
    /\ handling[r] = "begun" => holds[r] = {"gate", "slot", "flight"}
    /\ handling[r] \in {"replying", "unwinding"} =>
         /\ "gate" \in holds[r]
         /\ "flight" \in holds[r] => "slot" \in holds[r]

ConnsByPoint ==
  \A c \in Conn :
    /\ serving[c] \in {"none", "accepted", "tracked", "refusing"} => ~admitted[c]
    /\ serving[c] \in {"none", "accepted", "tracked"} => ~noted[c]
    /\ owned[c] => noted[c]
    /\ serving[c] \in {"untracking", "closing", "gone"} => leaked[c] \/ ~owned[c]

\* The order of Run.  Before the listener nothing is served; after it is closed
\* the actor has returned; after the join nothing is served any more.
Serving == run \in {"serve", "grace", "cancel", "reply", "replyWait", "closeConns", "join"}
RunOrder ==
  /\ listener = "open" => run = "serve"
  /\ listener = "none" <=> run \in {"start", "index", "listen"} \/ (~Serving /\ actor = "off")
  /\ listener = "none" => actor = "off" /\ acceptor = "none" /\ Quiet /\ registry = "up"
  /\ run = "serve" => listener = "open"
  /\ run = "shutdown" => listener = "closed"
  /\ listener = "closed" => actor = "returned"
  /\ actor = "returned" => draining
  /\ ~Serving => acceptor # "running" /\ Quiet
  /\ registry = "down" => ~Serving

LockHeld == lock <=> run \notin {"start", "done"}

\* The index lives while Run holds the lock.
IndexOrder ==
  /\ run = "closeStore" => store = "open"
  /\ run \in {"unlink", "unlock", "done"} => store # "open"
  /\ run \in {"start", "index"} => store = "none"
  /\ store = "none" <=> gc = "none"
  /\ store = "closed" => gc = "exited" /\ run \in {"unlink", "unlock", "done"}

\* No request begins after draining, so each wait of the shutdown settles it.
ShutdownSettles ==
  /\ reason # "none" => draining
  /\ reason = "idle" => clients = 0 /\ inflight = 0
  /\ reqCancelled => listener = "closed"
  /\ reqCancelled \/ run = "cancel" => graceOut \/ HoldersOf("flight") = {}
  /\ run = "replyWait" /\ quietSeen => HoldersOf("flight") = {}
  /\ closing \/ run = "closeConns" => replyOut \/ HoldersOf("flight") = {}
  /\ closing => listener = "closed"

\* All of it: the invariant the proofs carry through every action.
DaemonInv ==
  /\ TypeOK /\ CountersExact
  /\ RequestsServed /\ HoldsByPoint /\ ConnsByPoint
  /\ RunOrder /\ LockHeld /\ IndexOrder /\ ShutdownSettles

\* Every call into the core returns.
CoreReturns ==
  /\ []<>(run # "shutdown")
  /\ \A c \in Conn : []<>~Releasing(c)
  /\ \A r \in Req : []<>(handling[r] # "begun")

\* A daemon that begins to drain, for whatever reason, closes its listener and hangs up
\* on everybody, even if its language servers hold up handlers and cleanups for ever;
\* and if every call into the core returns, it ends: no silent peer, late connection or
\* waiting goroutine keeps Run from returning.
DrainTerminates ==
  /\ draining ~> listener = "closed" /\ closing /\ \A c \in tracked : sock[c] = "closed"
  /\ CoreReturns => (draining ~> run = "done")

\* A draining daemon ends whatever its language servers do: its teardown "is itself
\* bounded by the constants in server.go" (daemon/lock.go:53).
DrainIsBounded == draining ~> run = "done"

\* Without clients, requests or file activity the daemon does not live for ever.
Quiescent == actor = "running" /\ MayIdleDrain
IdleDrains == Quiescent ~> (draining \/ ~Quiescent)

\* The phases of this daemon are those that Connect knows of every daemon.
Phase ==
  CASE run = "start"                                    -> "outside"
    [] run \in {"index", "listen"}                      -> "holding"
    [] listener = "open"                                -> "accepting"
    [] run \notin {"start", "index", "listen", "done"} /\ listener # "open" -> "closing"
    [] run = "done"                                     -> "over"
Life == INSTANCE DaemonLife WITH Daemons <- {"this"}, phase <- [d \in {"this"} |-> Phase]
ImplementsLife == Life!Spec
=============================================================================
