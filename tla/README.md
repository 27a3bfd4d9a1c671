# A verification of langer

langer is a bridge between coding agents (MCP) and language servers (LSP). One daemon
per workspace owns the language servers, a SQLite index shared by all daemons of a user,
and per-session overlays; short-lived MCP processes connect to it over a Unix socket and
start it when none is listening. This directory holds TLA+ modules translated from the Go
source, TLC configurations that check them on small instances, and proofs that TLAPS
checks for every value of the constants.

Run everything from this directory:

    tlc -workers 2 -config MCDaemon.cfg MCDaemon.tla
    tlapm DaemonProofs.tla

## 1. Inventory

| Component | Source | State it keeps | Operations | Talks to |
|---|---|---|---|---|
| Daemon process | `daemon/server.go`, `session.go`, `lock.go` | where Run is, listener, connections, requests, semaphore, index handle, liveness flock | Run, accept, serve, handle, reply, GC loop | sunset (calls), registry, store, peers (socket) |
| Sunset actor | `daemon/sunset.go` | clients, in-flight requests, last activity, draining, two one-slot channels, a timer | addClient … requestDrain, run | called by everything in the daemon |
| Connect / auto-start | `internal/daemonctl/connect.go`, `daemon/lock.go` | spawn flock, liveness flock, socket path | Connect, spawnDaemon, acquireLiveness, listenUnix | other clients and daemons, through files |
| Stop / kill | `internal/daemonctl/stop.go` | none | Stop, StopAll | daemon (drain), processes (signals) |
| IPC client | `internal/daemonctl/client.go`, `protocol/codec.go` | pending calls, closed flag | send, read, fail | daemon (frames) |
| Workspace core | `internal/workspace/workspace.go`, `registry.go`, `query.go` | session claims on documents, edit plans | open/close document, queries, rename, apply, simulate | language servers, overlays, index |
| Overlays | `internal/workspace/overlay.go` | speculative texts per session and path | put, live, invalidate, drop, sweep | queries, watcher |
| Indexing | `internal/workspace/indexing.go` | index queue, per-file state | worker, healer, watcher batches | store, language servers, watcher |
| Index store | `index/queries.go` | files, symbols, reference sets with generations | PutFile, Replace…, Invalidate…, Delete… | SQLite, other daemons |
| Index GC | `index/gc.go` | lease row, missing-since marks | acquire, renew, release, prune | SQLite, other daemons |
| File watcher | `internal/watch/watcher.go` | watched set, pending changes | Run, consume, refreshScope | indexing (batches) |
| Language server supervision | `lsp/supervisor.go` | server state machine, ready channels, process, connection, restart backoff | Acquire, ensureReady, start, crash handling, Shutdown | processes, connection, documents |
| LSP connection | `lsp/conn.go` | pending requests, closed flag | call, notify, read, close | language server (stdio) |
| Document synchronisation | `lsp/server.go`, `docstate.go` | per-path text, version, open flag and lock; mutation gate | Open, Close, WithText, WithDiskText, resync | connection, diagnostics |
| Diagnostics | `lsp/diagnostics.go` | epoch, entry per path, wake channel | mark, publish, invalidate, reset, settle | connection's reader, documents |
| Process runner, clock, config, tools, MCP tools, CLI | `internal/procx`, `internal/clock`, `config`, `tools`, `mcp`, `cmd` | little or none | I/O and formatting | operating system |

What makes the code hard: every request has its own goroutine; shutdown overtakes
starts, requests and connections; a language server may die between any two steps and is
replaced under callers that keep their handle; several processes race for one socket
path; several daemons share one database; file changes race with the analysis of the
files. The places where it could go wrong are the `hazards` of `PROJECT.json`.

What makes each component correct:

- *Daemon process*: the counters that shutdown waits for are exact; a request in flight is
  answered before its context is cancelled, unless its grace ran out; language servers are
  shut down when nothing calls into them any more; sessions end with their connection; the
  liveness lock outlives everything it protects; a draining daemon hangs up on everybody, and
  ends when the language servers let it.
- *Sunset*: the idle decision is atomic with the admission of clients, and comes.
- *Connect and Stop*: one daemon per workspace, reachable by whoever dials; a daemon of
  another version is replaced; "drained" is said when it is true.
- *Supervision*: one start at a time, crashes are retried, callers are answered, no process
  survives Shutdown, no old process speaks for the new one.
- *Mutation gate*: a readers-writer lock that prefers the writer, that cancelled and nested
  operations cannot damage.
- *Document synchronisation*: callers see documents that are opened and closed, never a
  speculative text; the server sees what the record says; diagnostics are of the text they
  are reported for.
- *IPC client, LSP connection*: every call returns, with its own answer or an error; no call's
  place outlives it, and no reader blocks on one call while the others wait for it.
- *Workspace core and overlays*: whoever takes the lock of a document finds the record true
  of the language server; an answer is about a text the file had during the request, or the
  session's own edit of one; an edit plan is applied to the text it was computed from or
  refused; a session leaves nothing behind; no two requests wait for each other.
- *Indexing, store and watcher*: every change of a file is indexed in the end; an answer
  from the index is complete or says that it is not.
- *Index GC* (planned): one daemon collects at a time; what comes back is not collected.

## 2. Plan

Done, in this order, the behaviour everything else stands on first:

1. `Sunset`, `Daemon` (extends Sunset), `DaemonProofs`.
2. `RWLock` (abstract), `MutationGate` (implements it), `MutationGateProofs`.
3. `Sessions` (abstract), `Supervisor` (implements it), `SupervisorProofs`.
4. `Documents` (abstract), `DocumentSync` (implements it; its gate is the one of
   `MutationGate`, reduced to who holds it, its restarts those of `Supervisor`),
   `DocumentSyncProofs`.
5. `DaemonLife` (abstract), `Connect`, `ConnectProofs`; its daemons are those of `Daemon`,
   reduced to what other processes see of them.
6. `Workspace`, `WorkspaceProofs`: claims, overlays and edit plans of one file; its language
   server is that of `DocumentSync`, reduced to whether the document is open and its text.
7. `FileWatcher`, `IndexStore`, and `Indexing`, which extends the one and instantiates the
   other: from a change on disk to what is served from the index; `IndexingProofs`.
8. `IpcClient` and `Conn`, the two ends of the daemon that number calls and hand out answers,
   `Exchange` (abstract), `Requests`, which composes the two with the daemon's handlers in
   between and implements it, and `RequestsProofs`.

Where one module reduces another to what it needs of it, both implement the same abstract
specification, and that is proved of both sides:

| Abstract specification | One side, in detail | The other, which relies on it |
|---|---|---|
| `RWLock`: operations share it, a replay has it alone | `MutationGate` | `DocumentSync` (`ImplementsGate`) |
| `Sessions`: a server's sessions are served one at a time, once, in order | `Supervisor` (`ImplementsSessions`) | `DocumentSync` (`ImplementsSessions`) |
| `Documents`: documents are opened and closed, nothing else | `DocumentSync` (`ImplementsDocuments`) | `Workspace` (`ImplementsDocuments`) |
| `DaemonLife`: one daemon has the workspace, listens only then, never comes back | `Daemon` (`ImplementsLife`) | `Connect` (`ImplementsLife`) |
| `Exchange`: a call is handled at most once, returns once, with its own handler's answer | `Requests` (`ImplementsExchange`) | what a caller of the client sees |

Left, in this order:

9. `IndexGC`: the lease and the two-phase removal of missing workspaces (`index/gc.go`).
10. The map of open workspaces (`internal/workspace/registry.go`), and edits of several
    files, with an abstract specification of what ApplyEdit promises of them.

Every safety property of these modules that a passing run checks is proved, except for the part
of one that speaks of ENABLED; the lease of step 9 is the next thing worth a proof.

## 3. The modules

### Sunset and Daemon (`daemon/sunset.go`, `daemon/server.go`, `daemon/session.go`)

`Sunset` has the fields of `sunset` as variables, the two one-slot channels as flags, and
one action per method; the actor's `select` is one action per case. Time is discrete, and
`Idle` is the idle timeout in ticks. The instance with 0 leaves time out: an idle period may
elapse at any moment. (In the code 0 is the default period, 30 minutes.)

`Daemon` has a program counter for each goroutine: `run` for `Server.Run`, `acceptor`, `gc`,
`serving[c]` for the serve goroutine of a connection, `handling[r]` for the handle goroutine
of a request. `holds[r]` is what the deferred calls of `handle` will give back. A request is
one of three kinds: answered at once, drain, or a call into the core. Peers may send,
stay silent, send garbage or hang up at any time. A step of a goroutine ends where another
goroutine could see the difference: at a lock, a channel, a counter, a socket.

`DaemonLife` is what other processes may rely on: a daemon is outside, holds the workspace,
accepts, closes, and is over. `Phase` in `Daemon` reads that off the liveness lock and the
listener, and off where Run is.

### MutationGate and RWLock (`lsp/docstate.go`, `lsp/server.go`)

The four fields of `documentMutationGate`, and for each process where it is. The `changed`
channel is modelled by who has been released by a broadcast (`woken`); a wait may expire at
any moment, also after it was released, as `select` chooses either. Nested operations, which
a callback may run, enter without waiting. `RWLock` is the abstract lock: readers, or one
writer. The refinement maps the processes at "inside" and "nested" to holders.

### Supervisor (`lsp/supervisor.go`, part of `lsp/conn.go`)

The fields of `managed`, and for each start attempt its process, its connection, its closed
callback and the worker that its crash schedules. Spawning, initialising and replaying may
fail; a process may crash at any moment; Shutdown may begin at any moment. Backoffs and
timeouts have no length. During Shutdown an attempt that passed the closing check before may
still take `ServerStarting` from a stopped server; this is why `OneStart` speaks of the time
before Shutdown. What holds throughout is `Sessions`: which session is served, and which may
still be (`Coming`): the attempts whose connection was accepted by the check of Shutdown and,
before Shutdown, those that have not come to it.

### DocumentSync and Documents (`lsp/server.go`, `docstate.go`, `supervisor.go`, `diagnostics.go`)

The local record of each document with its version and lock, the view of the current
process, the cache of diagnostics with its epochs, one push on its way, and each operation
(Open, Close, WithText, WithDiskText) step by step. The process handles what was written to
it at once; what it says about an older view is the push that is still on its way. A text is
a model value; `Closed` is none. `Documents` is what callers are promised: documents are
opened with a text and closed, and nothing else is ever visible; the refinement shows the
base text while an operation speculates. The gate is an instance of `RWLock`, and the processes
of the server are the sessions of `Sessions`.

### Connect (`internal/daemonctl/connect.go`, `stop.go`, `daemon/lock.go`)

The three files that clients and daemons of one workspace share (spawn lock, liveness lock
with a pid, socket file), the life of each daemon as others see it, each call of Connect and
each call of Stop. A daemon may die anywhere; the kernel frees its locks and leaves its
files, and may give its pid to another process. In a `slow` behaviour every timeout may fire
while what it waits for is on its way; in the others timeouts fire only when what they wait
for cannot come. `disturbed` is a history variable: something died, was stopped or timed
out. `StopAll` repeats Stop per workspace and is left out. `Phase` here is the life of all the
daemons that are ever started, seen from outside, as `DaemonLife` has it.

### Workspace (`internal/workspace/workspace.go`, `query.go`, `overlay.go`)

One file, and the requests of all sessions about it. `docs` is the entry of `w.docs` for the
file, `overlays` the overlay of each session, `plans` is `w.plans` in the order of `w.order`,
`holder` the call inside `lockDoc`, `speculator` the one inside `WithText`. Each request is a
goroutine with its locals in `call[k]`; a step ends where another goroutine could see the
difference: at a lock, a call to the language server, a read or write of the file. `prepare` is
LockAndRead, CloseStale, OpenOnServer and Record; then come the request itself (Ask, or
Diagnose), or the speculation (PushText, RestoreText, ForgetDocument). `rename` continues
with RememberPlan; `apply_edit` is LookUp, Verify, ReadForEdit, WriteEdit and ForgetWritten.
A session that disconnects has a call of its own for its cleanup.

A text is a sequence of marks: what the user saved, followed by the edits applied to it, so
that two edits that should not have met are seen in it. `Forgotten` is the empty text, as in
the code, where it is also the text of an empty file; files are not empty here. `since[k]` and
`Plan.of`, `Plan.clean` are history: the texts the file had since the request began, the text
a plan was computed from, and whether nothing disturbed its computation. `Served` says what the
language server is here: the one document of an instance of `Documents`.

### FileWatcher, IndexStore and Indexing (`watch/watcher.go`, `index/queries.go`, `workspace/indexing.go`)

`FileWatcher` has fsnotify's queue, the sets `changed` and `deleted` of Run's goroutine with
its debounce timer, the rescan that precedes a batch, and a nested directory that may appear
later and is watched only from the next batch on. `IndexStore` has the rows and reference sets
of one workspace and an operator per transaction. A row is the text whose hash it has, or
`Blank` when invalidated; every file defines one symbol, so a reference set has the name of a
file. `Indexing` has the opening scan with its staged jobs, the consumer of batches, the
healer, the queries that examine what they read, the worker with one job, and a daemon that
stops at any point and is started again on the same store. The generation of a job is
compared only with those of the jobs there are, so `NextGeneration` takes some number that none
of them has, and the state space is finite.

The worker holds the lock of its path over the language server's answer; every other actor
takes and releases it in one step. `held` is what a live query left open on the language
server, which answers from it and not from the file. `blind` and `lost` are history: the files
the server did not look at as they were when a set was collected, and those whose news was
lost with a daemon.

### Calls, IpcClient, Conn and Requests (`internal/daemonctl/client.go`, `lsp/conn.go`, `lsp/wire/frame.go`)

`IpcClient` has the table of pending calls, the channel of each call, its reader and `fail`,
and the frames on the socket in each direction. `fail` is three steps: what it does under the
mutex, closing socket and `done`, and completing one call after another. `Conn` has the same
for the language server, whose calls forget their place in any case, and the write lock of
the `Framer`: a call that sends a didOpen first, the call itself and the reader's reply to a
request of the server take it one at a time, and keep it while the pipe is full. The server
is external: it answers in any order or never, pushes notifications and requests, and dies.

`Requests` puts a handler of the daemon between the two: it reads a frame, asks the server (or
refuses), and replies under the id it read, whatever became of the socket meanwhile. A call
carries its own name as its question, so that what it returns can be compared with what it
asked. In `Exchange` there is no connection: a call is new, asked, running or done, and has
returned or not; `Stage` reads that off the ids and the handlers. The documents and their locks are those of `DocumentSync` and `Workspace` and
are left out here; so is the daemon's shutdown, which is `DaemonHangsUp` from this side.

## 4. The runs

| Run | What it asks | Bounds |
|---|---|---|
| `daemon` | counters, graceful answers, session cleanup, order of teardown, nobody stranded by idleness; a draining daemon hangs up on everybody whatever its language servers do, and ends if every call into the core returns; idleness drains | 1 connection, 1 request, an index with its GC loop, an idle time of one tick, so that the timer is armed, re-armed and fires; in every phase of shutdown |
| `gate` | exact counters, no lost wakeup, refinement of RWLock, both sides get in | 3 operations and 1 replay: one inside, one nested, one waiting behind the replay |
| `supervisor` | one start, sessions and diagnostics of one generation; crashes are retried, callers are answered, no process survives Shutdown | 2 callers, 1 failure at any point of an attempt, with both callers waiting, and a Shutdown at any point of it and of the restart |
| `document_sync` | views, cache and callers' picture of documents | 1 path, 2 texts, 2 operations, 2 processes, 2 pushes: an operation is overtaken by the other, by a restart and by a late push |
| `connect` | one daemon, reachable, replaced when of another version; "drained" is true | 2 clients, 1 Stop, 3 daemons (one may be there at the start, in any state), 2 faults: a crash and what it left behind, or a crash during the recovery from one |
| `requests` | no leaked place, no blocked reader; every call returns, is handled at most once, and gets an error or its own handler's answer | 2 calls, one of which opens a document first, pipes of one frame, 1 event (a call given up, a connection closed or broken, a process that dies, a push of the server): it meets every step of both calls |
| `indexing` | what is served from the index is true; in the end everything is indexed | 2 files, one of them in a nested directory that may be missing at first, 2 texts, 1 change and 1 fault or restart: the change meets each step of the scan, a batch, a job, a retry |
| `workspace` | the record of the document, answers, claims, plans and locks | 2 requests at a time, 3 in all, 2 sessions, 2 texts of the user, 1 save, 1 kind of failure, 1 plan remembered, so that the next rename evicts it |
| `indexing_restart`, `workspace_isolation`, `workspace_stale`, `requests_backpressure` | findings, below | the smallest that show them |

Six more configurations show findings and are run by hand, with the property they name:
`MCSupervisorHang.cfg` and `MCSupervisorReady.cfg` of `Supervisor`, `MCDocumentSettle.cfg` of
`MCDocumentSync`, `MCConnectStop.cfg` of `MCConnect`, `MCDaemonStuck.cfg` of `MCDaemon`,
`MCWorkspaceEdits.cfg` of `MCWorkspace`. Four more are larger or other instances of
runs, and pass: `MCDaemonRequests.cfg` of `MCDaemon` (2 requests that race for 1 slot, one of which is
refused or waits; safety, and the refinement of `DaemonLife`), `MCSupervisorCrashes.cfg` (2
callers and 2 failures, so that a server crashes during the restart of a crash; safety only),
`MCSupervisorShutdown.cfg` (2 failures and a Shutdown; liveness only) and
`MCIndexingOneFile.cfg` of `Indexing` (one file, which comes and goes with its directory: 3
changes, 1 fault). Four check, before their proofs, the other refinements that join the
modules, and `VersionsRise`: `MCDocumentSyncLinks.cfg` of `MCDocumentSync`,
`MCSupervisorLinks.cfg` of `Supervisor`, `MCWorkspaceLinks.cfg` of `MCWorkspace`,
`MCConnectLinks.cfg` of `MCConnect`.

One path is enough in `document_sync` because operations on different paths share only the
gate, which `gate` covers, and the epoch of the cache. In `daemon` one
connection and one request are enough for the order of shutdown; connections and requests meet
only in the counters, the semaphore and the snapshot of `closeConns`, and the proofs of all its
safety properties cover any number of both.

In `workspace` one file is enough as long as no request changes several: lock, record,
overlays and server document are per path, and a plan is remembered by the hashes of its
files. Two requests at a time meet in every pair of steps; the third finds what they left.
`WorkspaceProofs` covers any number. In `requests` two calls are enough because calls meet only in
the tables of ids, where the question is whether one gets what belongs to the other, and in the
write lock, which one has while the other or the reader waits; `RequestsProofs` covers any number. In `indexing` two files are needed, one that defines and
one that refers; the job of one overtakes the batch of the other.

Symmetry is used in safety runs only. `document_sync` and
`workspace` also check properties over steps; they are safety properties whose formulas do
not distinguish the permuted values.

### Fairness

Liveness is asked of `daemon`, `gate`, `supervisor`, `indexing` and `requests`.

- *Daemon*: goroutines are scheduled (weak fairness of each one's next step) and time passes.
  Three steps are not fair, those that end a call into the core: a handler's `Execute`, the
  cleanup of a session, and `ShutdownRegistry`. `RequestTimeout`, `reqCtx` and the cleanup's
  own timeout end what looks at a context, but `call` and `notify` write to the language server
  in `framer.Write` (`conn.go:109`, `:138`), which does not, and the `wg.Wait` of Run and the
  write of `stop` (`supervisor.go:947`) have no bound. A server that does not read its input
  may hold them up for ever. `DrainTerminates` therefore says two things: that a draining
  daemon closes its listener and all sockets, which needs no call to return; and that it ends
  if each of them does (`CoreReturns`, a hypothesis in the formula). The GC loop chooses between
  its ticker and its cancelled context by `select`, which is random, so leaving gets strong
  fairness. Peers, signals and file events owe nothing.
- *Gate*: who holds it gives it back, since operations run under `RequestTimeout` and the
  replay under the start timeout; as in `daemon`, that takes a server that reads its input. `ReadUnlock` gets strong fairness because a callback may
  nest operations, but not for ever.
- *Supervisor*: goroutines run, killed processes die, sleeps end. It is enough that some step
  of all these is taken while one can be: no cycle of them keeps another waiting. The shutdown request that `stop` writes is taken to get into the pipe,
  again because the server reads its input. Servers need not crash or
  exit by themselves, callers need not come, Shutdown need not begin.
- *Indexing*: the goroutines of watcher, opener, consumer, healer and worker run, and so does
  a failed path's second critical section. `AskHeal` is fair because a client that is told
  NOT_READY is asked to try again, and Status is polled; without anybody asking, nothing heals
  an invalidated row. Disks need not change, daemons need not stop, live queries need not come.
- *Requests*: likewise one weak fairness for all steps of the goroutines, with the end of the
  daemon's request timeout among them, and a language server that reads its input.
  It need not answer, and no caller need give up. That the server reads is an assumption:
  `requests_backpressure` shows what happens with one that does not.

## 5. What is proved

All theorems hold for every value of the constants under the named assumptions of the
modules (finite sets of connections, requests, operations, clients, callers, documents; a positive
`MaxInFlight`; an idle time in Nat; files numbered, in the order in which the code handles them;
distinct model values, in `FileWatcher` a `None` that is no batch, and in `Workspace` one that is
no text). TLAPS checks every leaf.

- `DaemonProofs`: `DaemonInv` is inductive. Its parts say which points of which goroutines
  go together: `CountersExact` ties the counters to the goroutines, and without it
  a zero of `inflight` or `answering` would not say that nobody is in flight. From it:
  `Counting`, `SafeTeardown`, `GracefulShutdown`, `IdleIsIdle`, `SessionsEnd`, `LockIsLast` and,
  of both ends of the teardown, `OrderlyTeardown`. `LivesAsConnectAssumes` maps each step of
  Run to one of `DaemonLife`: the daemon listens only with the lock, and closes its listener
  before it gives it back.
  The counting lemmas (`Gain`, `Drop`) say what one goroutine's step does to a cardinality.
- `MutationGateProofs`: `GateInv` (types, exact counters, exclusion) is inductive; with it
  `NoLostWakeup`, and `GateIsRWLock` by mapping each step to a step of RWLock or a stutter.
- `ConnectProofs`: `IInv` is `ConnectInv` with `ListenerIsReachable` and
  `StopTellsTheTruth`, and is inductive whatever fails: who is between taking and releasing
  the liveness lock is its only holder and the only one that touches the socket file, and
  from writing the pid on the pid in the file is its own. `ColdStart` is inductive on top of
  it while nothing fails: the holder of the spawn lock that has dialed in vain knows that no
  daemon is up or on its way, and a daemon on its way has a poller that waits for it. That is
  why the second dial is needed, and gives `ExactlyOneDaemon` and `UndisturbedSucceeds`.
  `OneDaemonAtATime` is the refinement of `DaemonLife` by all daemons at once, whatever fails.
- `WorkspaceProofs`: `IInv` is inductive, for any number of requests, sessions, texts, edits
  and plans. `Shape` says which operations are at which points and what their locals are
  there. `RecordKept` says what the record is while a call brings it into line: as it was left
  until the stale document is closed, then true of whatever is open, then false until Record
  sets it; that needs `NothingEmpty`, since the empty text stands for a forgotten record.
  `ReadsSeen` and `ServerSeen` follow a text from the disk through the record to the answer:
  a call about to ask has released the lock after the last reader took it, so what a later
  holder puts on the server is also a text since the call began. `OwnAnswers` does the same
  for speculative texts, `PlansTrue` for plans, `SessionsEnd` and `NothingLeft` for sessions.
  From it: `RecordIsTrue`, `DiagnosticsAreCurrent`, `EditFitsFile`, `NothingLeftOfSession`.
  `LocksAreAlwaysOrdered` follows from `Shape` and from who is inside which lock, and
  `ServerIsImplemented` from the types and the steps that touch the server.
  `EditFitsFile` speaks of every write of an edit, however long after its plan: the hash verified
  and the text read are of texts the file had during the call, and the hash names the text the
  edit was computed from, unless planning was disturbed (the file changed, or another session
  was simulating). What it leaves open, `MCWorkspaceEdits.cfg` shows (section 6).
  The first three are proved as they are checked, for behaviours in which no analysis runs
  out of its budget and no release finds the server down; `workspace_stale` shows why.
- `RequestsProofs`: `IInv` is inductive, for any number of calls and failures, any size of the
  pipes and both kinds of language server. Neither table of ids says anything by itself about
  the frames under way, which is where an answer could change hands, so the strengthening
  follows them: `ClientNumbers` and `ConnNumbers` say that an id is given once and is never
  larger than the number of calls that have one (which is also why a call always finds an
  id), `SocketTrue` and `PipesTrue` that every frame on the socket, in the pipes and inside
  the server bears the id of the call it asks or answers, `HandlersTrue` that a handler goes
  by the id of its own call, `ChannelsTrue` and `FoundTrue` that what lies in a channel is
  the answer to the call it belongs to, and `Teardown` and `Closing` that a table that was
  emptied stays empty. From it: `RequestsSafe` and `AnswersAreOwn`. For `HandledAtMostOnce`
  a second layer follows the one copy of a call: it is on the socket at most once, after it was
  written and before it is handled (`SentOnce`), it has a result exactly when it has returned
  (`ReturnedOnce`), and an answer on its way back, or in a channel, is of a handler that has
  finished (`AnsweredLate`). `OwnAnswer` is the part of `ImplementsExchange` about whose answer
  it is, and is proved by itself as `AnswersAreOwn`.
- `SupervisorProofs`: `IInv` is inductive, for any number of callers and failures, Shutdown
  included. `InOrder` says that attempts are begun one after another, that `ready` is the
  latest of them, and that a lost connection is reported once and restarts the server once.
  `OneAtATime` is about the time until Shutdown: each state in which callers begin an attempt
  says that none is running, and in backoff only the one pending restart begins one, which has
  waited for the latest. `OneLive` and `SessionKept` hold afterwards too, when two attempts may
  run: one at most is past the check of Shutdown, and the session is the one of its connection.
  A first form of `SessionKept` spoke of the latest attempt; TLC refuted it, since an earlier
  one may publish its session during Shutdown while the latest is still being started. From it:
  `OneStart`, `SupInv`, `OnlyCurrentPublishes`, and `ReadyClosedOnce` until Shutdown begins.
  `SessionsInOrder` needs of `SessionKept` also that there is no session while an attempt
  past the check of Shutdown has yet to publish its own, which no invariant of the runs says.
- `DocumentSyncProofs`: `IInv` is inductive, for any number of documents, operations and
  generations. `Locks` and `AtWork` say who holds what and what the record of a document is
  where an operation works on it. `Generations` says that an operation which told a generation
  of its document keeps its replacement from being published, because the replay needs the
  gate. `Agreement` is `ServerAgrees` with the replay: a document that needs no replay any more
  is seen as the record has it. `Views` carries one statement from what the process sees through
  the push under way and what the reader kept to the cache: a text seen under the version of the
  record is the text of the record. From it: `SyncInv`, `ServerAgrees`, `CallbackSeesItsText`,
  `CacheIsTrue`. `ImplementsDocuments` maps each step to one of `Documents` or a stutter;
  the text a caller sees is the one before the speculation of whoever holds the path's lock.
  `GateIsALock` and `GenerationsInOrder` follow from `Locks` and `Generations`. For
  `VersionsAlwaysRise` a further invariant, `Fresh`, says that whoever is about to tell the
  server of an open document, an operation or the replay, has a version for it that the server
  has not seen; nobody else can tell it first, since that needs the lock of the path.
- `IndexingProofs`, for any number of files, texts, changes, faults, retries and restarts, in
  three layers. `IInv` is `IndexingInv` with `Staging`: where a file's job may be, and what the
  worker knows where it is. A job's generation is told apart from all others by a
  pigeonhole argument about `NextGeneration`. `FInv` follows each file from the disk to its row:
  one that is there is `Kept` (its row is true or invalidated, its job pending, or the opener
  has yet to look at it) or `Expected` (the watcher, a batch or an actor has news of it), and one
  that is gone is deleted or noted. It needs `Later`, the order of batches: a file that is
  listed again is in a later batch than the one that deletes it; and `Committing`: a text that
  is being committed is the one on disk unless there is news. `RInv` does the same for the
  reference sets. A set agrees with the rows until the opening is done and with the files from
  then on, unless news is `Coming` that will make it incomplete; what the worker holds likewise
  unless the generation `moved`; and every transaction that changes a row makes all sets
  incomplete. From the three: `IndexingInv`, `SearchIsCurrent`, `ServedReferences`. TLC checked
  `FInv` and `RInv` as invariants of small instances, of up to 4.7 million states, before the proofs.

Only model-checked: all liveness (`DrainTerminates`, `IdleDrains`, `BothSidesGetIn`,
`CrashIsRetried`, `CallersAreAnswered`, `ProcessesEnd`, `EverythingIsIndexed`, `CallsReturn`),
which is beyond the prover, and the part of `SomebodyMoves` that speaks of ENABLED. Its other part,
`LocksAreOrdered`, is proved, and so is that a request that waits takes no step (the lemma
`WaitersStand`); that one that does not wait can take a step is what TLC checks. The properties of
the runs of section 6 are violated, so there is nothing of them to prove.

## 6. What the checks found

Four runs show behaviour of the code that contradicts what its documents say. Their steps,
lines and the sentences they contradict are the `findings` of `PROJECT.json`.

- `indexing_restart`: a daemon that stops after a file changed, and before it noticed, may
  leave rows that match every file and a reference set that does not. The next daemon finds
  nothing to do and serves the set as complete.
- `workspace_isolation`: WithText holds the lock of its path while a session's text is on the
  server, but only Diagnostics takes that lock; queries and renames of other sessions are
  answered about the speculative text.
- `workspace_stale`: a text that was opened on the server and did not settle in time is
  recorded nowhere, so when the file changes nothing closes it, and Open leaves it alone.
- `requests_backpressure`: the reader of a connection writes its replies itself. When the pipe to
  the server is full and the server waits for the reader to empty the other, neither moves, and
  neither a call's deadline nor `stop`, which first sends a request, ends it. `Supervisor` takes
  the write of that request to end.

The six configurations that show findings by hand:

- `EnsureReadyReturns` (`MCSupervisorHang.cfg`): a start that meets Shutdown in `startWorkers`
  closes its connection, whose closed callback waits for a registration that this path never
  sends. `ensureReady` does not return.
- `ReadyClosedOnce` (`MCSupervisorReady.cfg`): `startAttempt` reads `m.ready` after its caller
  made it. When Shutdown's `stop` and a second caller come in between, two attempts close the
  same channel, and the first channel stays open. (`CallersAreAnswered` is about servers that
  are not shut down, and holds.)
- `SettledIsCurrent` (`MCDocumentSettle.cfg`): the version of a push is compared, and the push
  published, in different critical sections; a document that changes in between settles on
  diagnostics of its old text.
- `OnlyDaemonsAreKilled` (`MCConnectStop.cfg`): `stop --hard` kills by the pid in the lock
  file, which may be stale.
- `DrainIsBounded` (`MCDaemonStuck.cfg`): `lock.go:53` calls the teardown of a daemon bounded.
  A write to a language server that does not read its input holds up a handler, the cleanup of
  a session, or `ShutdownRegistry`, and no grace period ends it. Run does not return, and the
  daemon keeps its liveness lock, without a listener.
- `AppliedIsPlanned` (`MCWorkspaceEdits.cfg`): `apply_edit` is to reject a plan whose file
  changed (`SPEC.md:277`). `rename` takes the hash of a plan after the server has answered, and
  `apply_edit` reads the file again after it has verified the hash. A save in either window is
  overwritten with an edit computed for the text before it.

Smaller observations made while translating, none of which contradicts a document:

- A file made in a new directory between the scan that finds the directory and the installation
  of its watch is listed only when something else changes (`Overlooked`, `watcher.go:183`).
- A file made in such a directory may be found, and indexed, when the workspace is opened. If it
  is gone again before the watcher has listed it, nobody deletes its row (`Unlisted`,
  `watcher.go:183`), and a search finds it until something else changes. `SearchIsCurrent`
  excepts such files: TLC showed that it must, on `MCIndexingOneFile.cfg`.
- Two renames of the same unchanged files have the same token, and the second plan replaces
  the first (`Remembered`, `query.go:503`).
- The text that stands for a forgotten record is also the text of an empty file
  (`query.go:763`): an empty file is not closed before it is opened again.

## 7. What is not modelled

- Data: positions, symbols, messages and configuration are read, converted and passed on;
  `lsp/wire`, `config`, `tools`, `mcp` and `cmd` have no concurrent state.
- Durations other than the idle timeout: a timeout may fire at any moment, or in `Connect`
  when its condition says so. That 25 s are more than the sum of the grace periods
  is taken from `daemon/lock.go`, and presumes that the calls into the core return in time
  (`DrainIsBounded` in section 6).
- Operating-system calls: flock, processes and sockets are environment, as the code uses
  them. Windows' variants are left out.
- `Offer` and `Status` of the supervisor, which read; the choice of a server by language.
- Of the workspace: edits of several files, whose partial application is reported only as an
  error (`query.go:552`), `end_session` on request, status, and the registry of open
  workspaces. Of the watcher: git's control files and the differences between platforms. Of
  the store: ranking of symbols, rows of diagnostics, SQL.
- Of the connections: the bytes of a frame, its limits and keepalives, and what the server's
  requests and notifications say; a daemon's write timeout on a client that stops reading.
- Steps 9 and 10 of the plan: the garbage collection of the index between daemons, and several
  workspaces in one daemon.
