---------------------------- MODULE DocumentSync ----------------------------
(***************************************************************************)
(* Document synchronisation with one language server, across its restarts  *)
(* (lsp/server.go, lsp/docstate.go, resync and connectionCandidate of      *)
(* lsp/supervisor.go, lsp/diagnostics.go).  Each operation runs once: it   *)
(* takes a read slot of the mutation gate, the lock of its path, changes   *)
(* the local record of the document, tells the server, and undoes what was *)
(* speculative.  The server may die at any moment; its replacement takes   *)
(* the write slot, is told of every open document, and is published.       *)
(*                                                                         *)
(* The process has handled what was written to it (`seen`); what it says   *)
(* about an older view is a push that is still on its way.  Language ids   *)
(* are left out; nested operations of a callback are in MutationGate.      *)
(***************************************************************************)
EXTENDS Naturals, FiniteSets

CONSTANTS
  Path, Text, Closed,   \* documents, their texts, no text
  Op,                   \* calls of Open, Close, WithText, WithDiskText
  Restart,              \* the start attempts, as a holder of locks
  Nobody,               \* the holder of a free lock
  MaxGeneration,        \* bound: processes of this server
  MaxPushes,            \* bound: diagnostics published by the server
  Versioned             \* its diagnostics carry the version of the document

ASSUME SyncAssumption ==
  /\ IsFiniteSet(Path)
  /\ Closed \notin Text /\ Restart \notin Op /\ Nobody \notin Op \cup {Restart}
  /\ MaxGeneration \in Nat \ {0} /\ MaxPushes \in Nat /\ Versioned \in BOOLEAN

VARIABLES
  \* the server's handle
  session,   \* the published generation, 0 if none
  text, version,   \* the local record: Path -> text or Closed, Path -> version
  lock,      \* Path -> holder of document.lock
  holders,   \* holders of the mutation gate
  \* the latest generation: its connection, process and candidate
  gen,       \* its number
  conn,      \* "open", "broken" (the process died, nobody noticed), "closed", "lost"
  stage,     \* of the start attempt: "none", "starting", "replaying"
  todo,      \* documents still to be replayed
  seen, seenVersion,   \* the view of the process
  active, armed, pending,   \* the fields of the candidate
  push,      \* diagnostics on their way, or None
  reading,   \* the reader holds candidate.mu and has accepted `push`
  pushes,
  \* the diagnostics cache
  epoch, cache,   \* Path -> entry, or None
  \* operations
  at, job, mine, base, since

docVars    == <<text, version>>
genVars    == <<gen, conn, stage, todo>>
seenVars   == <<seen, seenVersion>>
candVars   == <<active, armed, pending>>
pushVars   == <<push, reading, pushes>>
cacheVars  == <<epoch, cache>>
opVars     == <<at, job, mine, base, since>>
syncVars   == <<session, docVars, lock, holders, genVars, seenVars, candVars, pushVars,
                cacheVars, opVars>>

None == [kind |-> "none"]
Kinds == {"open", "close", "withText", "withDiskText"}
Jobs == [kind : Kinds, path : Path, text : Text]

SyncInit ==
  /\ session = 1 /\ text = [p \in Path |-> Closed] /\ version = [p \in Path |-> 0]
  /\ lock = [p \in Path |-> Nobody] /\ holders = {}
  /\ gen = 1 /\ conn = "open" /\ stage = "none" /\ todo = {}
  /\ seen = [p \in Path |-> Closed] /\ seenVersion = [p \in Path |-> 0]
  /\ active = TRUE /\ armed = {} /\ pending = [p \in Path |-> None]
  /\ push = None /\ reading = FALSE /\ pushes = 0
  /\ epoch = 0 /\ cache = [p \in Path |-> None]
  /\ at = [o \in Op |-> "idle"] /\ job \in [Op -> Jobs]
  /\ mine = [o \in Op |-> 0] /\ base = [o \in Op |-> Closed] /\ since = [o \in Op |-> 0]

P(o) == job[o].path
Kind(o) == job[o].kind
Goto(o, point) == at' = [at EXCEPT ![o] = point]

\* A notification on the connection of generation g: written and handled, or lost
\* on a process that is gone, or refused.  The write and its result are one step: a
\* write that began on a connection and ends after it was closed is one of the lost.
Written(g) == gen = g /\ conn = "open"
MayBeLost(g) == gen # g \/ conn # "open"

\* didOpen, didChange and didClose, as the process handles them.
Tell(g, p, t, v) ==
  IF Written(g)
  THEN /\ seen' = [seen EXCEPT ![p] = t]
       /\ seenVersion' = [seenVersion EXCEPT ![p] = IF t = Closed THEN @ ELSE v]
  ELSE UNCHANGED seenVars

\* markOpen, markChanged: every change of a document takes the next version.
\* invalidate then drops what is cached, and what the reader cached meanwhile.
Mark(p, t) ==
  /\ text' = [text EXCEPT ![p] = t]
  /\ version' = [version EXCEPT ![p] = @ + 1]
  /\ cache' = [cache EXCEPT ![p] = None]

\* Mutant: a document opened for the index gets its version back, too.
MarkClosedRewound(p) ==
  /\ text' = [text EXCEPT ![p] = Closed]
  /\ version' = [version EXCEPT ![p] = IF @ > 0 THEN @ - 1 ELSE @]
  /\ cache' = [cache EXCEPT ![p] = None]

\* markClosed and restoreClosed, with invalidate; the version stays.
MarkClosed(p) ==
  /\ text' = [text EXCEPT ![p] = Closed]
  /\ cache' = [cache EXCEPT ![p] = None]
  /\ UNCHANGED version

\* currentForVersion.
CurrentFor(p) ==
  IF cache[p] # None /\ cache[p].versioned /\ cache[p].version = version[p]
  THEN cache[p].epoch ELSE epoch + 1
-----------------------------------------------------------------------------
(* Operations: the locks.                                                   *)

\* lockDocumentMutation, or its caller gives up.
EnterGate(o) ==
  /\ at[o] = "idle"
  /\ \/ Restart \notin holders /\ holders' = holders \cup {o} /\ Goto(o, "path")
     \/ Goto(o, "done") /\ UNCHANGED holders
  /\ UNCHANGED <<session, docVars, lock, genVars, seenVars, candVars, pushVars, cacheVars,
                 job, mine, base, since>>

\* Mutant: the path's lock is taken by whoever asks.
LockPathAlways(o) ==
  /\ at[o] = "path"
  /\ lock' = [lock EXCEPT ![P(o)] = o] /\ Goto(o, "locked")
  /\ UNCHANGED <<session, docVars, holders, genVars, seenVars, candVars, pushVars, cacheVars,
                 job, mine, base, since>>

\* lockDoc, or its caller gives up.
LockPath(o) ==
  /\ at[o] = "path"
  /\ \/ lock[P(o)] = Nobody /\ lock' = [lock EXCEPT ![P(o)] = o] /\ Goto(o, "locked")
     \/ Goto(o, "leaving") /\ UNCHANGED lock
  /\ UNCHANGED <<session, docVars, holders, genVars, seenVars, candVars, pushVars, cacheVars,
                 job, mine, base, since>>

\* The deferred unlockDoc.
UnlockPath(o) ==
  /\ at[o] = "unlocking"
  /\ lock' = [lock EXCEPT ![P(o)] = Nobody] /\ Goto(o, "leaving")
  /\ UNCHANGED <<session, docVars, holders, genVars, seenVars, candVars, pushVars, cacheVars,
                 job, mine, base, since>>

\* The deferred unlockMutation.  The caller of an Open goes on to Diagnostics.
LeaveGate(o) ==
  /\ at[o] = "leaving"
  /\ holders' = holders \ {o}
  /\ Goto(o, IF Kind(o) = "open" /\ since[o] > 0 THEN "query" ELSE "done")
  /\ UNCHANGED <<session, docVars, lock, genVars, seenVars, candVars, pushVars, cacheVars,
                 job, mine, base, since>>
-----------------------------------------------------------------------------
(* Operations: what they do under the locks.                                *)

\* live fails: the operation does, too (Close has its own rule).
ServerDown(o) ==
  /\ at[o] = "locked" /\ Kind(o) # "close" /\ session = 0
  /\ Goto(o, "unlocking")
  /\ UNCHANGED <<session, docVars, lock, holders, genVars, seenVars, candVars, pushVars,
                 cacheVars, job, mine, base, since>>

\* Open of an open document: settle against what the server has said already.
OpenAgain(o) ==
  /\ at[o] = "locked" /\ Kind(o) = "open" /\ session # 0 /\ text[P(o)] # Closed
  /\ since' = [since EXCEPT ![o] = CurrentFor(P(o))]
  /\ Goto(o, "unlocking")
  /\ UNCHANGED <<session, docVars, lock, holders, genVars, seenVars, candVars, pushVars,
                 cacheVars, job, mine, base>>

\* Open, WithText and WithDiskText take the mark and record the text, then tell
\* the server.
Change(o) ==
  /\ at[o] = "locked" /\ session # 0
  /\ \/ Kind(o) = "open" /\ text[P(o)] = Closed
     \/ Kind(o) = "withText" /\ text[P(o)] # Closed
     \/ Kind(o) = "withDiskText" /\ text[P(o)] # job[o].text
  /\ mine' = [mine EXCEPT ![o] = session]
  /\ base' = [base EXCEPT ![o] = text[P(o)]]
  /\ since' = [since EXCEPT ![o] = epoch + 1]
  /\ Mark(P(o), job[o].text)
  /\ Goto(o, "telling")
  /\ UNCHANGED <<session, lock, holders, genVars, seenVars, candVars, pushVars, epoch, job>>

\* WithText of a closed document is refused.
RefuseText(o) ==
  /\ at[o] = "locked" /\ Kind(o) = "withText" /\ session # 0 /\ text[P(o)] = Closed
  /\ Goto(o, "unlocking")
  /\ UNCHANGED <<session, docVars, lock, holders, genVars, seenVars, candVars, pushVars,
                 cacheVars, job, mine, base, since>>

\* WithDiskText of a document that is open with exactly that text.
SameText(o) ==
  /\ at[o] = "locked" /\ Kind(o) = "withDiskText" /\ session # 0 /\ text[P(o)] = job[o].text
  /\ mine' = [mine EXCEPT ![o] = session]
  /\ base' = [base EXCEPT ![o] = text[P(o)]]
  /\ since' = [since EXCEPT ![o] = CurrentFor(P(o))]
  /\ Goto(o, "inside")
  /\ UNCHANGED <<session, docVars, lock, holders, genVars, seenVars, candVars, pushVars,
                 cacheVars, job>>

\* didOpen or didChange.  An Open that fails forgets the document again.
TellServer(o) ==
  /\ at[o] = "telling"
  /\ Tell(mine[o], P(o), text[P(o)], version[P(o)])
  /\ \/ Goto(o, IF Kind(o) = "open" THEN "unlocking" ELSE "inside")
        /\ UNCHANGED <<docVars, cache, since>>
     \/ /\ MayBeLost(mine[o]) /\ Kind(o) = "open"
        /\ Goto(o, "unlocking") /\ since' = [since EXCEPT ![o] = 0]
        /\ text' = [text EXCEPT ![P(o)] = Closed] /\ UNCHANGED <<version, cache>>
     \/ /\ MayBeLost(mine[o]) /\ Kind(o) # "open"
        /\ Goto(o, "restoring") /\ UNCHANGED <<docVars, cache, since>>
  /\ UNCHANGED <<session, lock, holders, genVars, candVars, pushVars, epoch, job, mine, base>>

\* The callback runs its queries under the path's lock and returns, with diagnostics
\* that have settled or without.
Callback(o) ==
  /\ at[o] \in {"inside", "answered"}
  /\ Goto(o, IF base[o] = job[o].text /\ Kind(o) = "withDiskText"
                /\ text[P(o)] = base[o] THEN "unlocking" ELSE "restoring")
  /\ UNCHANGED <<session, docVars, lock, holders, genVars, seenVars, candVars, pushVars,
                 cacheVars, job, mine, base, since>>

\* Mutant: the record is restored only for a server that is still there to be told.
RestoreLive(o) ==
  /\ at[o] = "restoring"
  /\ IF session # mine[o] THEN UNCHANGED <<docVars, cache>>
     ELSE IF base[o] = Closed THEN MarkClosed(P(o)) ELSE Mark(P(o), base[o])
  /\ Goto(o, "retelling")
  /\ UNCHANGED <<session, lock, holders, genVars, seenVars, candVars, pushVars, epoch, job,
                 mine, base, since>>

\* The deferred restore: the local record first and unconditionally.
RestoreRecord(o) ==
  /\ at[o] = "restoring"
  /\ IF base[o] = Closed THEN MarkClosed(P(o)) ELSE Mark(P(o), base[o])
  /\ Goto(o, "retelling")
  /\ UNCHANGED <<session, lock, holders, genVars, seenVars, candVars, pushVars, epoch, job,
                 mine, base, since>>

\* ... then the server, if it is still the one that was told of the change.
RestoreServer(o) ==
  /\ at[o] = "retelling"
  /\ IF session = mine[o] THEN Tell(mine[o], P(o), text[P(o)], version[P(o)])
     ELSE UNCHANGED seenVars
  /\ Goto(o, "unlocking")
  /\ UNCHANGED <<session, docVars, lock, holders, genVars, candVars, pushVars, cacheVars, job,
                 mine, base, since>>

\* Close records first, then looks for a server to tell.
CloseRecord(o) ==
  /\ at[o] = "locked" /\ Kind(o) = "close"
  /\ IF text[P(o)] = Closed
     THEN Goto(o, "unlocking") /\ UNCHANGED <<docVars, cache>>
     ELSE Goto(o, "closing") /\ MarkClosed(P(o))
  /\ UNCHANGED <<session, lock, holders, genVars, seenVars, candVars, pushVars, epoch, job,
                 mine, base, since>>

CloseServer(o) ==
  /\ at[o] = "closing"
  /\ IF session # 0 THEN Tell(session, P(o), Closed, version[P(o)]) ELSE UNCHANGED seenVars
  /\ Goto(o, "unlocking")
  /\ UNCHANGED <<session, docVars, lock, holders, genVars, candVars, pushVars, cacheVars, job,
                 mine, base, since>>
-----------------------------------------------------------------------------
(* Diagnostics: the path's lock without the gate, then settle.              *)

Query(o) ==
  /\ at[o] = "query"
  /\ \/ /\ session # 0 /\ lock[P(o)] = Nobody
        /\ lock' = [lock EXCEPT ![P(o)] = o] /\ mine' = [mine EXCEPT ![o] = session]
        /\ Goto(o, "settling")
     \/ Goto(o, "done") /\ UNCHANGED <<lock, mine>>
  /\ UNCHANGED <<session, docVars, holders, genVars, seenVars, candVars, pushVars, cacheVars,
                 job, base, since>>

\* A push of the mark's epoch or later, and a quiet period: for a caller of
\* Diagnostics, or for a callback, which holds the lock already.
Settle(o) ==
  /\ at[o] \in {"settling", "inside"} /\ cache[P(o)] # None /\ cache[P(o)].epoch >= since[o]
  /\ Goto(o, IF at[o] = "settling" THEN "settled" ELSE "answered")
  /\ UNCHANGED <<session, docVars, lock, holders, genVars, seenVars, candVars, pushVars,
                 cacheVars, job, mine, base, since>>

\* The budget runs out (the answer says so), the connection ends, or the caller's
\* context does.
GiveUpSettling(o) ==
  /\ at[o] = "settling"
  /\ Goto(o, "unsettled")
  /\ UNCHANGED <<session, docVars, lock, holders, genVars, seenVars, candVars, pushVars,
                 cacheVars, job, mine, base, since>>

Answer(o) ==
  /\ at[o] \in {"settled", "unsettled"}
  /\ lock' = [lock EXCEPT ![P(o)] = Nobody] /\ Goto(o, "done")
  /\ UNCHANGED <<session, docVars, holders, genVars, seenVars, candVars, pushVars, cacheVars,
                 job, mine, base, since>>

OpStep(o) ==
  \/ EnterGate(o) \/ LockPath(o) \/ UnlockPath(o) \/ LeaveGate(o)
  \/ ServerDown(o) \/ OpenAgain(o) \/ Change(o) \/ RefuseText(o) \/ SameText(o)
  \/ TellServer(o) \/ Callback(o) \/ RestoreRecord(o) \/ RestoreServer(o)
  \/ CloseRecord(o) \/ CloseServer(o)
  \/ Query(o) \/ Settle(o) \/ GiveUpSettling(o) \/ Answer(o)
-----------------------------------------------------------------------------
(* The process, its connection and its replacement.                         *)

Break ==
  /\ conn = "open" /\ conn' = "broken"
  /\ UNCHANGED <<session, docVars, lock, holders, gen, stage, todo, seenVars, candVars,
                 pushVars, cacheVars, opVars>>

\* conn.close.
Hangup ==
  /\ conn = "broken" /\ conn' = "closed"
  /\ UNCHANGED <<session, docVars, lock, holders, gen, stage, todo, seenVars, candVars,
                 pushVars, cacheVars, opVars>>

\* onConnectionClosed: deactivate waits for the reader to leave candidate.mu; what
\* the reader finds after that is dropped.
LoseSession ==
  /\ conn = "closed" /\ ~reading
  /\ conn' = "lost" /\ session' = 0
  /\ active' = FALSE /\ armed' = {} /\ pending' = [p \in Path |-> None]
  /\ push' = None
  /\ UNCHANGED <<docVars, lock, holders, gen, stage, todo, seenVars, reading, pushes,
                 cacheVars, opVars>>

\* resetGenerationState and newConn.
Start ==
  /\ conn = "lost" /\ stage = "none" /\ gen < MaxGeneration
  /\ gen' = gen + 1 /\ conn' = "open" /\ stage' = "starting"
  /\ seen' = [p \in Path |-> Closed] /\ seenVersion' = [p \in Path |-> 0]
  /\ cache' = [p \in Path |-> None]
  /\ active' = FALSE /\ armed' = {} /\ pending' = [p \in Path |-> None]
  /\ UNCHANGED <<session, docVars, lock, holders, todo, pushVars, epoch, opVars>>

\* initialize, or a later step, meets the end of the connection.
StartFails ==
  /\ stage \in {"starting", "replaying"} /\ conn \in {"closed", "lost"}
  /\ stage' = "none" /\ todo' = {}
  /\ holders' = holders \ {Restart}
  /\ lock' = [p \in Path |-> IF lock[p] = Restart THEN Nobody ELSE lock[p]]
  /\ UNCHANGED <<session, docVars, gen, conn, seenVars, candVars, pushVars, cacheVars, opVars>>

\* Mutant: the replay does not wait for operations that are under way.
BeginReplayBeside ==
  /\ stage = "starting"
  /\ stage' = "replaying" /\ holders' = holders \cup {Restart}
  /\ todo' = {p \in Path : text[p] # Closed}
  /\ UNCHANGED <<session, docVars, lock, gen, conn, seenVars, candVars, pushVars, cacheVars,
                 opVars>>

\* The write slot of the gate, then openSnapshot.
BeginReplay ==
  /\ stage = "starting" /\ holders = {}
  /\ stage' = "replaying" /\ holders' = {Restart}
  /\ todo' = {p \in Path : text[p] # Closed}
  /\ UNCHANGED <<session, docVars, lock, gen, conn, seenVars, candVars, pushVars, cacheVars,
                 opVars>>

\* resync, one document: under its lock, a version of its own; arm waits for
\* the reader to leave candidate.mu.
Replay(p) ==
  /\ stage = "replaying" /\ p \in todo /\ lock[p] = Nobody /\ ~reading
  /\ \A q \in Path : lock[q] # Restart
  /\ lock' = [lock EXCEPT ![p] = Restart]
  /\ Mark(p, text[p])
  /\ armed' = armed \cup {p} /\ pending' = [pending EXCEPT ![p] = None]
  /\ UNCHANGED <<session, holders, genVars, seenVars, active, pushVars, epoch, opVars>>

ReplayServer(p) ==
  /\ stage = "replaying" /\ lock[p] = Restart
  /\ Tell(gen, p, text[p], version[p])
  /\ lock' = [lock EXCEPT ![p] = Nobody]
  /\ todo' = todo \ {p}
  /\ UNCHANGED <<session, docVars, holders, gen, conn, stage, candVars, pushVars, cacheVars,
                 opVars>>

\* Everything the reader kept while documents were replayed enters the cache, later
\* than any mark taken so far; in which order does not matter.
Activate ==
  /\ active' = TRUE /\ armed' = {} /\ pending' = [p \in Path |-> None]
  /\ epoch' = epoch + Cardinality({p \in Path : pending[p] # None})
  /\ cache' = [p \in Path |->
        IF pending[p] = None THEN cache[p] ELSE [pending[p] EXCEPT !.epoch = epoch']]

\* activate and setSession in one critical section, then the end of the write slot.
PublishSession ==
  /\ stage = "replaying" /\ todo = {} /\ conn \in {"open", "broken"} /\ ~reading
  /\ Activate
  /\ session' = gen /\ stage' = "none" /\ holders' = holders \ {Restart}
  /\ UNCHANGED <<docVars, lock, gen, conn, todo, seenVars, pushVars, opVars>>

RestartStep ==
  \/ Hangup \/ LoseSession \/ Start \/ StartFails \/ BeginReplay \/ PublishSession
  \/ \E p \in Path : Replay(p) \/ ReplayServer(p)
-----------------------------------------------------------------------------
(* Diagnostics on their way from the process to the cache.                  *)

\* The process says something about a document as it sees it now.
Analyse(p) ==
  /\ conn = "open" /\ push = None /\ pushes < MaxPushes
  /\ push' = [kind |-> "diagnostics", path |-> p, text |-> seen[p], gen |-> gen,
              version |-> seenVersion[p], versioned |-> Versioned /\ seen[p] # Closed]
  /\ pushes' = pushes + 1
  /\ UNCHANGED <<session, docVars, lock, holders, genVars, seenVars, candVars, reading,
                 cacheVars, opVars>>

\* onDiagnostics takes candidate.mu and looks at the candidate and the document.
Accepts(d) ==
  /\ active \/ d.path \in armed
  /\ text[d.path] # Closed
  /\ d.versioned => d.version = version[d.path]

Receive ==
  /\ push # None /\ ~reading
  /\ IF Accepts(push) THEN reading' = TRUE /\ UNCHANGED push
     ELSE push' = None /\ UNCHANGED reading
  /\ UNCHANGED <<session, docVars, lock, holders, genVars, seenVars, candVars, pushes,
                 cacheVars, opVars>>

Entry(d) == [kind |-> "entry", epoch |-> 0, text |-> d.text, gen |-> d.gen,
             version |-> d.version, versioned |-> d.versioned]

\* It publishes, or keeps what it accepted for the publication of the session.
Record ==
  /\ reading
  /\ reading' = FALSE /\ push' = None
  /\ IF active
     THEN /\ epoch' = epoch + 1
          /\ cache' = [cache EXCEPT ![push.path] = [Entry(push) EXCEPT !.epoch = epoch + 1]]
          /\ UNCHANGED pending
     ELSE pending' = [pending EXCEPT ![push.path] = Entry(push)] /\ UNCHANGED cacheVars
  /\ UNCHANGED <<session, docVars, lock, holders, genVars, seenVars, active, armed, pushes,
                 opVars>>

PushStep == Receive \/ Record \/ \E p \in Path : Analyse(p)

\* Every operation has returned; the server is up, or was never restarted again.
Returned == (\A o \in Op : at[o] = "done") /\ UNCHANGED syncVars

SyncNext == (\E o \in Op : OpStep(o)) \/ Break \/ RestartStep \/ PushStep \/ Returned

SyncSpec == SyncInit /\ [][SyncNext]_syncVars
-----------------------------------------------------------------------------
(* Properties.                                                              *)

Entries == {None} \cup [kind : {"entry"}, epoch : Nat, text : Text \cup {Closed}, gen : Nat,
                        version : Nat, versioned : BOOLEAN]

Pushes == {None} \cup [kind : {"diagnostics"}, path : Path, text : Text \cup {Closed},
                       gen : Nat, version : Nat, versioned : BOOLEAN]

Points == {"idle", "path", "locked", "telling", "inside", "answered", "restoring",
  "retelling", "closing", "unlocking", "leaving", "query", "settling", "settled",
  "unsettled", "done"}

SyncTypeOK ==
  /\ {session, gen} \subseteq 0..MaxGeneration
  /\ text \in [Path -> Text \cup {Closed}] /\ version \in [Path -> Nat]
  /\ seen \in [Path -> Text \cup {Closed}] /\ seenVersion \in [Path -> Nat]
  /\ lock \in [Path -> Op \cup {Restart, Nobody}] /\ holders \subseteq Op \cup {Restart}
  /\ conn \in {"open", "broken", "closed", "lost"}
  /\ stage \in {"none", "starting", "replaying"} /\ todo \subseteq Path
  /\ active \in BOOLEAN /\ reading \in BOOLEAN /\ armed \subseteq Path
  /\ push \in Pushes /\ pending \in [Path -> Entries] /\ cache \in [Path -> Entries]
  /\ epoch \in Nat /\ pushes \in 0..MaxPushes
  /\ at \in [Op -> Points] /\ job \in [Op -> Jobs] /\ mine \in [Op -> 0..MaxGeneration]
  /\ base \in [Op -> Text \cup {Closed}] /\ since \in [Op -> Nat]

\* Where an operation holds the gate, and where its path's lock.
InGate(o) ==
  at[o] \in {"path", "locked", "telling", "inside", "answered", "restoring", "retelling",
            "closing", "unlocking", "leaving"}
HasLock(o) ==
  at[o] \in {"locked", "telling", "inside", "answered", "restoring", "retelling", "closing",
            "unlocking", "settling", "settled", "unsettled"}

\* The locks are held exactly where the operations and the replay think they hold
\* them, a replay has the gate to itself, and only the latest generation is published.
SyncInv ==
  /\ SyncTypeOK
  /\ holders = {o \in Op : InGate(o)} \cup (IF stage = "replaying" THEN {Restart} ELSE {})
  /\ stage = "replaying" => holders = {Restart}
  /\ \A o \in Op, p \in Path : lock[p] = o <=> HasLock(o) /\ P(o) = p
  /\ \A p \in Path : lock[p] = Restart => stage = "replaying" /\ p \in todo
  /\ todo \subseteq {p \in Path : text[p] # Closed}
  /\ session # 0 => session = gen /\ stage = "none"
  /\ conn = "lost" => session = 0 /\ ~active
  /\ reading => push # None

\* While nobody works on a document, the server that is published and alive sees
\* exactly the local record of it: whatever failed, was undone or was replayed.
ServerAgrees ==
  \A p \in Path : session # 0 /\ session = gen /\ conn = "open" /\ lock[p] = Nobody =>
    seen[p] = text[p]

\* The queries of a callback are answered for its text: as long as its server lives
\* no other operation and no replay changes the document under it.
CallbackSeesItsText ==
  \A o \in Op : at[o] \in {"inside", "answered"} /\ gen = mine[o] /\ conn = "open" =>
    seen[P(o)] = job[o].text

\* What the cache has of a document is of the process that serves it, so a restart leaves
\* nothing of its predecessor and nothing of it arrives later; and under the version of
\* the local record it describes the text of the record (versions are never reused), so
\* an Open or an indexing pass that changes nothing may settle on it.
CacheIsTrue ==
  \A p \in Path : cache[p] # None =>
    /\ cache[p].gen = gen
    /\ cache[p].versioned /\ cache[p].version = version[p] /\ text[p] # Closed
         => cache[p].text = text[p]

\* Settled diagnostics of a server that names versions describe the document as it is:
\* "The mark must be taken BEFORE the notification, or a push racing us could satisfy
\* the wait with pre-edit results."
SettledIsCurrent ==
  [][\A o \in Op : /\ at'[o] # at[o] /\ at'[o] \in {"settled", "answered"}
                  /\ cache[P(o)].versioned
                  => cache[P(o)].text = text[P(o)]]_syncVars

\* "Versions are strictly increasing for the life of the process: a server that sees a
\* version go backwards may silently keep its old view of the file": what one process is told
\* of an open document has a version above all it was told of it before, through speculation,
\* failed opens, documents opened for the index, and the replay.
VersionsRise ==
  [][\A p \in Path :
       /\ gen' = gen /\ seen'[p] # Closed
       /\ <<seen'[p], seenVersion'[p]>> # <<seen[p], seenVersion[p]>>
       => seenVersion'[p] > seenVersion[p]]_syncVars

\* Callers see documents that are opened and closed, and nothing else.
Speculating(o) ==
  Kind(o) # "open" /\ at[o] \in {"telling", "inside", "answered", "restoring"}
Visible(p) ==
  IF \E o \in Op : Speculating(o) /\ P(o) = p
  THEN base[CHOOSE o \in Op : Speculating(o) /\ P(o) = p] ELSE text[p]
Shown == [p \in Path |-> Visible(p)]
Abstract == INSTANCE Documents WITH docs <- Shown
ImplementsDocuments == Abstract!Spec

\* The gate here is the lock that MutationGate implements: operations share it, and a
\* replay of the open documents has it alone.
Gate == INSTANCE RWLock WITH Readers <- Op, Writers <- {Restart}
ImplementsGate == Gate!Spec

\* Generations are served one at a time, each once and none after a later one: those that
\* may still be served are the ones to come, and the one being started.
Coming == {g \in 1..MaxGeneration : g > gen \/ (g = gen /\ stage # "none")}
Serving == INSTANCE Sessions WITH Generation <- 1..MaxGeneration, coming <- Coming
ImplementsSessions == Serving!Spec
=============================================================================
