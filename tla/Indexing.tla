------------------------------ MODULE Indexing ------------------------------
(***************************************************************************)
(* How the index of a workspace follows the project (internal/workspace/   *)
(* indexing.go, and what workspace.go answers from the index).  Opening    *)
(* the workspace scans it and compares it with the rows of the store; the  *)
(* consumer handles the watcher's batches; the healer re-examines the      *)
(* files when a query was told NOT_READY; queries re-examine what they     *)
(* read; and a single worker takes the jobs that these queue, asks the     *)
(* language server, and commits rows and reference sets.                   *)
(*                                                                         *)
(* A step ends where the lock of a path, cacheMu or indexMu is released.   *)
(* Only the worker keeps the lock of a path for several steps.  A job is   *)
(* queued after the locks are released; since only the worker looks at the *)
(* queue, that is as if the worker came later, and is part of the step.    *)
(***************************************************************************)
EXTENDS FileWatcher, FiniteSets

CONSTANTS
  Mentioning,      \* texts that refer to the symbols of the other files
  Blank, NoRow, Incomplete,
  MaxRetries       \* maxIndexNotReadyRetries

ASSUME IndexingAssumption ==
  /\ Path \subseteq Nat          \* paths are handled in sorted order
  /\ Mentioning \subseteq Text /\ MaxRetries \in Nat
  /\ Text \cap {Blank, NoRow, Incomplete} = {} /\ Blank # NoRow

INSTANCE IndexStore

VARIABLES
  db,              \* what the store has of the workspace
  known, skipped, scanComplete, indexState, indexFatal,
  pending,         \* Path -> the generation of its job, or 0
  open,            \* startIndex and stageInitialScan: where, and what they hold
  batch,           \* what the consumer has left to do of its batch, or None
  heal,            \* healWake, and the files the healer has left to examine
  owed,            \* Actor -> path it will skip once it has the locks again, or None
  queue, wake,     \* jobQueue and indexWake
  worker,          \* where the worker is, and what it holds
  held,            \* Path -> text the language server holds the document open with, or None
  blind,           \* history: files that the language server did not look at for a set
  lost             \* history: files whose news was lost since the set was collected

history == <<blind, lost>>
coreVars == <<db, known, pending, skipped, indexState>>
queueVars == <<queue, wake>>
otherVars == <<scanComplete, indexFatal, open, batch, heal, owed, worker, held, history>>
indexingVars == <<diskVars, bounds, watchVars, coreVars, queueVars, otherVars>>

Actor == {"opener", "consumer", "healer"}
Closed == [at |-> "closed", paths |-> {}, todo |-> {}, rebuild |-> FALSE, jobs |-> <<>>]
Resting == [at |-> "wait", job |-> None, text |-> None, found |-> Incomplete, missed |-> {},
            tries |-> 0]
Job(p, g) == [path |-> p, generation |-> g]
Jobs == [path : Path, generation : Nat \ {0}]

IndexingInit ==
  /\ WatcherInit /\ db = EmptyStore
  /\ blind = [p \in Path |-> {}] /\ lost = [p \in Path |-> {}]
  /\ known = {} /\ pending = [p \in Path |-> 0] /\ skipped = {}
  /\ scanComplete = FALSE /\ indexState = "idle" /\ indexFatal = FALSE
  /\ open = Closed /\ batch = None /\ heal = [wake |-> FALSE, todo |-> {}]
  /\ owed = [a \in Actor |-> None] /\ queue = <<>> /\ wake = FALSE
  /\ worker = Resting /\ held = [p \in Path |-> None]

-----------------------------------------------------------------------------
(* Locks, and what several actors do under them.                            *)

Up == open.at # "closed"
InJob == worker.at \in {"serve", "ask", "verify", "commit"}
InHand == worker.at \notin {"wait", "take"}
PathFree(p) == InJob => worker.job.path # p      \* lockDoc
CacheFree == worker.at # "commit"                \* cacheMu
Pending(p) == pending[p] # 0
First(paths) == CHOOSE p \in paths : \A r \in paths : p <= r
InOrder(p, paths) == p \in paths /\ p = First(paths)

\* updateIndexStateLocked
IndexState(waiting, complete) ==
  IF indexFatal THEN "failed"
  ELSE IF complete /\ \A p \in Path : waiting[p] = 0 THEN "ready" ELSE "indexing"

Refresh == indexState' = IndexState(pending', scanComplete)

\* A generation is only compared with those of the jobs there are, so any number that none
\* of them has stands for generations[p] + 1.
JobsOf(p) ==
  {j \in {queue[i] : i \in DOMAIN queue} \cup {open.jobs[i] : i \in DOMAIN open.jobs}
           \cup (IF InHand THEN {worker.job} ELSE {}) : j.path = p}
NextGeneration(p) ==
  LET taken == {pending[p]} \cup {j.generation : j \in JobsOf(p)}
  IN CHOOSE g \in 1..(Cardinality(taken) + 1) : g \notin taken

\* completeDeletedJob and deletePathLocked, after the row is deleted.
Forget(p) ==
  /\ known' = known \ {p} /\ pending' = [pending EXCEPT ![p] = 0] /\ skipped' = skipped \ {p}
  /\ Refresh

DeletePath(p) == db' = DeleteFile(db, p) /\ Forget(p)

\* The rest of invalidatePathLocked, once the file is known and there.
Reschedule(p) ==
  /\ db' = InvalidateFile(db, p)
  /\ pending' = [pending EXCEPT ![p] = NextGeneration(p)]
  /\ known' = known \cup {p} /\ skipped' = skipped \ {p}
  /\ indexState' = IF indexFatal THEN indexState ELSE "indexing"

\* Mutant: the worker is not told.
QueueJobQuietly(j) == queue' = Append(queue, j) /\ UNCHANGED wake

QueueJob(j) == queue' = Append(queue, j) /\ wake' = TRUE

\* invalidateAndQueue; a file that is gone is deleted, an unknown one only if admitted.
InvalidateAndQueue(p, admit) ==
  IF p \notin known /\ ~admit THEN UNCHANGED <<coreVars, queueVars>>
  ELSE IF disk[p] = Missing THEN DeletePath(p) /\ UNCHANGED queueVars
  ELSE Reschedule(p) /\ QueueJob(Job(p, NextGeneration(p)))

\* Mutant: an invalidated row counts as fresh.
ReadFreshCacheOnce(p) ==
  /\ PathFree(p) /\ CacheFree
  /\ IF disk[p] = Missing THEN DeletePath(p) /\ UNCHANGED queueVars
     ELSE IF Pending(p) \/ db.row[p] \in {disk[p], Blank} THEN UNCHANGED <<coreVars, queueVars>>
     ELSE InvalidateAndQueue(p, FALSE)

\* readFreshCache: a missing file is deleted, a stale one invalidated.
ReadFreshCache(p) ==
  /\ PathFree(p) /\ CacheFree
  /\ IF disk[p] = Missing THEN DeletePath(p) /\ UNCHANGED queueVars
     ELSE IF Pending(p) \/ db.row[p] = disk[p] THEN UNCHANGED <<coreVars, queueVars>>
     ELSE InvalidateAndQueue(p, FALSE)

\* softSkipPath keeps the row of a file that has been indexed.
SoftSkip(p) ==
  /\ db' = IF p \in Indexed(db) THEN db ELSE AbandonFile(db, p)
  /\ pending' = [pending EXCEPT ![p] = 0] /\ known' = known \ {p} /\ skipped' = skipped \cup {p}
  /\ Refresh

Owe(a, p) == owed' = [owed EXCEPT ![a] = p]

\* An actor that failed on a path, and let go of the locks, takes them again to skip it.
FailIndexPath(a) ==
  /\ owed[a] # None /\ PathFree(owed[a]) /\ CacheFree
  /\ SoftSkip(owed[a]) /\ Owe(a, None)
  /\ UNCHANGED <<diskVars, bounds, watchVars, queueVars, scanComplete, indexFatal, open, batch, heal,
                 worker, held, history>>

\* Nor does the watcher miss a file that it has not listed: one that was made in a new
\* directory, was found when the workspace was opened, and is gone before the next scan.
Unlisted(p) == Overlooked(p) \/ p \in known \ listed

\* A change of the file has not reached the index yet.
Unnoticed(p) ==
  \/ Travelling(p) \/ Unlisted(p) \/ p \in skipped \/ watch # "running"
  \/ batch # None /\ p \in batch.changed \cup batch.deleted
  \/ \E a \in Actor : owed[a] = p

\* failIndex, which is only called for fatal failures.
Fail == indexState' = "failed" /\ indexFatal' = TRUE /\ scanComplete' = TRUE

-----------------------------------------------------------------------------
(* Opening and closing.                                                     *)

\* EnsureWorkspace, and the watcher up to Ready; the actors run from now on.
OpenWorkspace ==
  /\ ~Up /\ open' = [open EXCEPT !.at = "list"] /\ indexState' = "indexing"
  /\ \/ UNCHANGED <<db, bounds>>
     \/ Rows(db) # {} /\ db' = ChangeNamespace(db) /\ UNCHANGED bounds
  /\ Watch
  /\ UNCHANGED <<disk, known, pending, skipped, queueVars, scanComplete, indexFatal, batch, heal,
                 owed, worker, held, history>>

OpenerRests == UNCHANGED <<diskVars, watchVars, batch, heal, worker, held, history>>

List ==
  /\ open.at = "list"
  /\ open' = [open EXCEPT !.at = "known", !.paths = Existing]
  /\ OpenerRests /\ UNCHANGED <<bounds, coreVars, queueVars, scanComplete, indexFatal, owed>>

AddKnown ==
  /\ open.at = "known"
  /\ known' = known \cup open.paths /\ open' = [open EXCEPT !.at = "reconcile"]
  /\ OpenerRests
  /\ UNCHANGED <<bounds, db, pending, skipped, indexState, queueVars, scanComplete, indexFatal, owed>>

\* What comes after the last path of a pass: one file that is not fresh makes all of them
\* be indexed again.
NextPass(o) ==
  IF o.todo # {} THEN o
  ELSE IF o.at = "check" /\ o.rebuild /\ o.paths # {}
       THEN [o EXCEPT !.at = "stage", !.todo = o.paths]
  ELSE [o EXCEPT !.at = "queue"]

Reconcile ==
  /\ open.at = "reconcile"
  /\ db' = ReconcileWorkspace(db, open.paths)
  /\ open' = NextPass([open EXCEPT !.at = "check", !.todo = open.paths,
                               !.rebuild = ~(Rows(db) \subseteq open.paths)])
  /\ OpenerRests
  /\ UNCHANGED <<bounds, known, pending, skipped, indexState, queueVars, scanComplete, indexFatal, owed>>

\* The listing or the reconciliation fails: the jobs that are queued will wait for ever.
OpeningFails ==
  /\ open.at \in {"list", "reconcile"} /\ Fault
  /\ Fail /\ open' = [Closed EXCEPT !.at = "aborted"]
  /\ OpenerRests /\ UNCHANGED <<db, known, pending, skipped, queueVars, owed>>

\* initialPathNeedsRebuild: not only a stale file, also one that is pending or missing.
CheckPath(p) ==
  /\ open.at = "check" /\ InOrder(p, open.todo) /\ owed["opener"] = None
  /\ PathFree(p) /\ CacheFree
  /\ open' = NextPass([open EXCEPT !.todo = @ \ {p},
                     !.rebuild = @ \/ disk[p] = Missing \/ Pending(p) \/ db.row[p] # disk[p]])
  /\ OpenerRests /\ UNCHANGED <<bounds, coreVars, queueVars, scanComplete, indexFatal, owed>>

\* stageInitialInvalidation: the jobs are queued later, all at once.
StagePath(p) ==
  /\ open.at = "stage" /\ InOrder(p, open.todo) /\ owed["opener"] = None
  /\ PathFree(p) /\ CacheFree
  /\ LET left == [open EXCEPT !.todo = @ \ {p}] IN
       IF p \notin known THEN UNCHANGED coreVars /\ open' = NextPass(left)
       ELSE IF disk[p] = Missing THEN DeletePath(p) /\ open' = NextPass(left)
       ELSE Reschedule(p) /\ open' = NextPass([left EXCEPT !.jobs = Append(@, Job(p, NextGeneration(p)))])
  /\ OpenerRests /\ UNCHANGED <<bounds, queueVars, scanComplete, indexFatal, owed>>

OpenPathFails(p) ==
  /\ open.at \in {"check", "stage"} /\ InOrder(p, open.todo) /\ owed["opener"] = None /\ Fault
  /\ open' = NextPass([open EXCEPT !.todo = @ \ {p}, !.rebuild = TRUE])
  /\ Owe("opener", p)
  /\ OpenerRests /\ UNCHANGED <<coreVars, queueVars, scanComplete, indexFatal>>

\* The staged jobs are queued and stagingDone is closed: the worker may begin.
FinishStaging ==
  /\ open.at = "queue" /\ owed["opener"] = None /\ CacheFree
  /\ open' = [Closed EXCEPT !.at = "done"]
  /\ queue' = queue \o open.jobs /\ wake' = (wake \/ open.jobs # <<>>)
  /\ scanComplete' = TRUE /\ indexState' = IndexState(pending, TRUE)
  /\ OpenerRests /\ UNCHANGED <<bounds, db, known, pending, skipped, indexFatal, owed>>

OpenerStep ==
  \/ OpenWorkspace \/ List \/ AddKnown \/ Reconcile \/ FinishStaging
  \/ \E p \in Path : CheckPath(p) \/ StagePath(p)

\* The daemon crashes, or shuts the workspace down: the store is what stays.
Stop ==
  /\ Up /\ Fault /\ UNCHANGED <<disk, db, blind>>
  /\ lost' = [p \in Path |-> IF db.refs[p] = Incomplete THEN {} ELSE lost[p] \cup {q \in Path : Unnoticed(q)}]
  /\ dir' = IF dir = "absent" THEN "absent" ELSE "present"
  /\ Unwatch
  /\ known' = {} /\ pending' = [p \in Path |-> 0] /\ skipped' = {}
  /\ scanComplete' = FALSE /\ indexState' = "idle" /\ indexFatal' = FALSE
  /\ open' = Closed /\ batch' = None /\ heal' = [wake |-> FALSE, todo |-> {}]
  /\ owed' = [a \in Actor |-> None] /\ queue' = <<>> /\ wake' = FALSE
  /\ worker' = Resting /\ held' = [p \in Path |-> None]

-----------------------------------------------------------------------------
(* The consumer of the watcher's batches.                                   *)

ConsumerRests == UNCHANGED <<diskVars, open, heal, worker, held, history>>

TakeBatch ==
  /\ Up /\ watch # "off" /\ batch = None /\ owed["consumer"] = None /\ batches # <<>>
  /\ batch' = Head(batches) /\ batches' = Tail(batches)
  /\ ConsumerRests
  /\ UNCHANGED <<bounds, watch, raw, listed, changed, deleted, timer, scan, coreVars, queueVars,
                 scanComplete, indexFatal, owed>>

\* Deletions come first.
NextInBatch(p) ==
  /\ batch # None /\ owed["consumer"] = None /\ PathFree(p) /\ CacheFree
  /\ IF batch.deleted # {} THEN InOrder(p, batch.deleted) ELSE InOrder(p, batch.changed)
  /\ batch' = IF batch.deleted \cup batch.changed = {p} THEN None
              ELSE [changed |-> batch.changed \ {p}, deleted |-> batch.deleted \ {p}]
  /\ ConsumerRests /\ UNCHANGED <<watchVars, scanComplete, indexFatal>>

HandleDeleted(p) ==
  /\ NextInBatch(p) /\ p \in batch.deleted /\ DeletePath(p)
  /\ UNCHANGED <<bounds, queueVars, owed>>

\* A file that has vanished meanwhile is deleted.
HandleChanged(p) ==
  /\ NextInBatch(p) /\ p \in batch.changed /\ InvalidateAndQueue(p, TRUE)
  /\ UNCHANGED <<bounds, owed>>

HandleFails(p) ==
  /\ NextInBatch(p) /\ Fault /\ Owe("consumer", p) /\ UNCHANGED <<coreVars, queueVars>>

\* The watcher stopped: whatever it had sent, the consumer may stop now.
WatcherStopped ==
  /\ watch = "failed" /\ batch = None /\ owed["consumer"] = None /\ CacheFree
  /\ Fail /\ Unwatch
  /\ UNCHANGED <<diskVars, bounds, db, known, pending, skipped, queueVars, open, batch, heal, owed,
                 worker, held, history>>

ConsumerStep ==
  TakeBatch \/ WatcherStopped \/ \E p \in Path : HandleDeleted(p) \/ HandleChanged(p)

-----------------------------------------------------------------------------
(* Queries, the healer, and the garbage collector of the store.             *)

QueryRests ==
  UNCHANGED <<diskVars, watchVars, scanComplete, indexFatal, open, batch, worker, history>>

\* When a query is answered from the index.
ReferencesServed(p) == indexState = "ready" /\ db.row[p] = disk[p] /\ ReferencesReady(db, p)
SearchServed == indexState = "ready" /\ SearchReady(db)

\* A query reads the file through the index; it does so again before it asks live.
AgentReads(p) ==
  /\ Up /\ p \in known /\ ReadFreshCache(p)
  /\ QueryRests /\ UNCHANGED <<bounds, heal, owed, held>>

\* A live query opens the document with what is on disk, and leaves it open.
AgentOpens(p) ==
  /\ Up /\ disk[p] # Missing /\ held[p] # disk[p] /\ PathFree(p) /\ Fault
  /\ held' = [held EXCEPT ![p] = disk[p]]
  /\ QueryRests /\ UNCHANGED <<coreVars, queueVars, heal, owed>>

\* What Status counts: fewer files indexed than there are.
SmallerOf(m, n) == IF m < n THEN m ELSE n
FilesIndexed ==
  SmallerOf(Cardinality({p \in known : ~Pending(p)}), Cardinality(Indexed(db)))
Degraded == FilesIndexed < Cardinality(known) \/ FilesIndexed < Cardinality(Rows(db))

\* A search that meets an invalidated row is NOT_READY; it and Status wake the healer.
AskHeal ==
  /\ indexState = "ready" /\ CacheFree /\ ~heal.wake
  /\ ~SearchReady(db) \/ Degraded
  /\ heal' = [heal EXCEPT !.wake = TRUE]
  /\ QueryRests /\ UNCHANGED <<bounds, coreVars, queueVars, owed, held>>

HealerWakes ==
  /\ heal.wake /\ heal.todo = {} /\ owed["healer"] = None
  /\ heal' = [wake |-> FALSE, todo |-> known]
  /\ QueryRests /\ UNCHANGED <<bounds, coreVars, queueVars, owed, held>>

HealPath(p) ==
  /\ InOrder(p, heal.todo) /\ owed["healer"] = None
  /\ ReadFreshCache(p) /\ heal' = [heal EXCEPT !.todo = @ \ {p}]
  /\ QueryRests /\ UNCHANGED <<bounds, owed, held>>

HealFails(p) ==
  /\ InOrder(p, heal.todo) /\ owed["healer"] = None /\ PathFree(p) /\ CacheFree /\ Fault
  /\ Owe("healer", p) /\ heal' = [heal EXCEPT !.todo = @ \ {p}]
  /\ QueryRests /\ UNCHANGED <<coreVars, queueVars, held>>

HealerStep == HealerWakes \/ \E p \in Path : HealPath(p)

\* pruneExpiredDiagnostics, in whichever daemon has the lease, knows no lock but the store's.
Expire(p) ==
  /\ p \in Indexed(db) /\ (Change \/ Fault)
  /\ db' = InvalidateFile(db, p)
  /\ QueryRests
  /\ UNCHANGED <<known, pending, skipped, indexState, queueVars, heal, owed, held>>

-----------------------------------------------------------------------------
(* The worker.                                                              *)

WorkerRests ==
  UNCHANGED <<diskVars, watchVars, scanComplete, indexFatal, open, batch, heal, owed, held>>

Current(j) == Pending(j.path) /\ j.path \in known /\ pending[j.path] = j.generation
To(at) == worker' = [worker EXCEPT !.at = at]
NextJob == worker' = [Resting EXCEPT !.at = "take"]

WorkerWakes ==
  /\ worker.at = "wait" /\ wake /\ wake' = FALSE /\ To("take")
  /\ WorkerRests /\ UNCHANGED <<bounds, coreVars, queue, history>>

\* takeIndexJob; with a job in hand the worker waits for the staging.
TakeIndexJob ==
  /\ worker.at = "take"
  /\ IF queue = <<>> THEN worker' = Resting /\ UNCHANGED queue
     ELSE worker' = [Resting EXCEPT !.at = "gate", !.job = Head(queue)] /\ queue' = Tail(queue)
  /\ WorkerRests /\ UNCHANGED <<bounds, coreVars, wake, history>>

\* completeDeletedJob, after the row is deleted.
DeleteByJob(p) ==
  /\ db' = DeleteFile(db, p)
  /\ IF pending[p] = worker.job.generation THEN Forget(p)
     ELSE UNCHANGED <<known, pending, skipped>> /\ Refresh

\* indexOne, up to the first reading of the file.
StartJob ==
  /\ worker.at = "gate" /\ open.at = "done"
  /\ LET p == worker.job.path IN
       IF ~Current(worker.job) THEN NextJob /\ UNCHANGED coreVars
       ELSE IF disk[p] = Missing THEN NextJob /\ DeleteByJob(p)
       ELSE worker' = [worker EXCEPT !.at = "serve", !.text = disk[p]] /\ UNCHANGED coreVars
  /\ WorkerRests /\ UNCHANGED <<bounds, queueVars, history>>

\* The server is there; the generation is read before it is asked anything.
ReadGeneration ==
  /\ worker.at = "serve" /\ To("ask") /\ db' = ReferenceGeneration(db)
  /\ WorkerRests /\ UNCHANGED <<bounds, known, pending, skipped, indexState, queueVars, history>>

\* The server answers for the other files from what it holds open, else from disk, and
\* only locations in known files are kept.
View(q) == IF held[q] # None THEN held[q] ELSE disk[q]
Locations(p) ==
  {<<q, View(q)>> : q \in {r \in known \ {p} : disk[r] # Missing /\ View(r) \in Mentioning}}
Unspoken(p) == {q \in Path \ {p} : disk[q] # Missing /\ (q \notin known \/ View(q) # disk[q])}

\* readIndexedSemantics: without settled diagnostics no references are collected.
ReadSemantics ==
  /\ worker.at = "ask"
  /\ \/ worker' = [worker EXCEPT !.at = "verify", !.found = Locations(worker.job.path),
                                 !.missed = Unspoken(worker.job.path)]
     \/ To("verify")
  /\ WorkerRests /\ UNCHANGED <<bounds, coreVars, queueVars, history>>

\* The file is read again; if it changed, the job is replaced by a newer one.
VerifyAndPut ==
  /\ worker.at = "verify"
  /\ LET p == worker.job.path
         newer == Job(p, NextGeneration(p))
     IN CASE disk[p] = Missing -> NextJob /\ DeleteByJob(p)
          [] disk[p] \notin {Missing, worker.text} /\ Current(worker.job) ->
               /\ db' = InvalidateFile(db, p)
               /\ pending' = [pending EXCEPT ![p] = newer.generation]
               /\ indexState' = "indexing" /\ UNCHANGED <<known, skipped>>
               /\ worker' = [Resting EXCEPT !.at = "gate", !.job = newer]
          [] disk[p] = worker.text /\ Current(worker.job) ->
               /\ db' = PutFile(db, p, disk[p]) /\ To("commit")
               /\ UNCHANGED <<known, pending, skipped, indexState>>
          [] disk[p] # Missing /\ ~Current(worker.job) -> NextJob /\ UNCHANGED coreVars
  /\ WorkerRests /\ UNCHANGED <<bounds, queueVars, history>>

\* The reference sets, in transactions of their own, and completeIndexJob.
CommitReferences ==
  /\ worker.at = "commit" /\ NextJob
  /\ LET p == worker.job.path
         after == IF worker.found = Incomplete THEN db ELSE ReplaceReferences(db, p, worker.found)
         mine == pending[p] = worker.job.generation
     IN /\ db' = after
        /\ IF after = db THEN UNCHANGED history
           ELSE blind' = [blind EXCEPT ![p] = worker.missed] /\ lost' = [lost EXCEPT ![p] = {}]
        /\ pending' = [pending EXCEPT ![p] = IF mine THEN 0 ELSE @]
        /\ skipped' = IF mine THEN skipped \ {p} ELSE skipped
        /\ Refresh /\ UNCHANGED known
  /\ WorkerRests /\ UNCHANGED <<bounds, queueVars>>

\* An error other than NOT_READY: no server, an unreadable file, a failing store.
JobFails ==
  /\ InJob /\ Fault /\ worker' = [Resting EXCEPT !.at = "failing", !.job = worker.job]
  /\ WorkerRests /\ UNCHANGED <<coreVars, queueVars, history>>

\* The server is starting or not settled: the worker sleeps and tries again, up to a limit.
JobNotReady ==
  /\ worker.at \in {"serve", "ask"} /\ Fault
  /\ worker' = IF worker.tries = MaxRetries
               THEN [Resting EXCEPT !.at = "failing", !.job = worker.job]
               ELSE [Resting EXCEPT !.at = "gate", !.job = worker.job, !.tries = worker.tries + 1]
  /\ WorkerRests /\ UNCHANGED <<coreVars, queueVars, history>>

\* failIndexJob takes the locks again, and skips the path if the job is still current.
FailIndexJob ==
  /\ worker.at = "failing" /\ NextJob
  /\ IF Current(worker.job) THEN SoftSkip(worker.job.path) ELSE UNCHANGED coreVars
  /\ WorkerRests /\ UNCHANGED <<bounds, queueVars, history>>

WorkerStep ==
  \/ WorkerWakes \/ TakeIndexJob \/ StartJob \/ ReadGeneration \/ ReadSemantics
  \/ VerifyAndPut \/ CommitReferences \/ FailIndexJob

-----------------------------------------------------------------------------
Outside == UNCHANGED <<coreVars, queueVars, otherVars>>

IndexingNext ==
  \/ (DiskStep \/ WatcherStep \/ WatchFails) /\ Outside
  \/ OpenerStep \/ OpeningFails \/ Stop
  \/ ConsumerStep \/ HealerStep \/ AskHeal \/ WorkerStep \/ JobFails \/ JobNotReady
  \/ \E p \in Path :
       OpenPathFails(p) \/ HandleFails(p) \/ HealFails(p) \/ AgentReads(p) \/ AgentOpens(p) \/ Expire(p)
  \/ \E a \in Actor : FailIndexPath(a)

IndexingSpec == IndexingInit /\ [][IndexingNext]_indexingVars

\* Goroutines run, the workspace is opened, and who is told NOT_READY asks again.
Fairness ==
  /\ WF_indexingVars(WatcherStep /\ Outside) /\ WF_indexingVars(OpenerStep)
  /\ WF_indexingVars(ConsumerStep) /\ WF_indexingVars(HealerStep) /\ WF_indexingVars(AskHeal)
  /\ WF_indexingVars(WorkerStep) /\ \A a \in Actor : WF_indexingVars(FailIndexPath(a))

FairIndexingSpec == IndexingSpec /\ Fairness

-----------------------------------------------------------------------------
(* Properties.                                                              *)

Stations ==
  [opener |-> {"closed", "list", "known", "reconcile", "check", "stage", "queue", "done", "aborted"},
   worker |-> {"wait", "take", "gate", "serve", "ask", "verify", "commit", "failing"}]

IndexingTypeOK ==
  /\ WatcherTypeOK /\ db \in Store
  /\ known \subseteq Path /\ skipped \subseteq Path
  /\ {scanComplete, indexFatal, wake} \subseteq BOOLEAN
  /\ pending \in [Path -> Nat] /\ indexState \in {"idle", "indexing", "ready", "failed"}
  /\ open \in [at : Stations.opener, paths : SUBSET Path, todo : SUBSET Path,
               rebuild : BOOLEAN, jobs : Seq(Jobs)]
  /\ batch \in Batches \cup {None} /\ heal \in [wake : BOOLEAN, todo : SUBSET Path]
  /\ owed \in [Actor -> Path \cup {None}] /\ queue \in Seq(Jobs)
  /\ worker \in [at : Stations.worker, job : Jobs \cup {None}, text : Text \cup {None},
                 found : UNION {{Incomplete}, SUBSET (Path \X Text)}, missed : SUBSET Path,
                 tries : 0..MaxRetries]
  /\ held \in [Path -> Text \cup {None}]
  /\ {blind, lost} \subseteq [Path -> SUBSET Path]

\* A file that is to be indexed is known, and its job is somewhere: queued, staged, or with
\* the worker; nor does the worker sleep while jobs are queued.
PendingHasJob ==
  /\ \A p \in Path : Pending(p) => p \in known /\ Job(p, pending[p]) \in JobsOf(p)
  /\ queue # <<>> => wake \/ worker.at # "wait"

ReadyInv == indexState = "ready" => scanComplete /\ ~indexFatal /\ \A p \in Path : ~Pending(p)

IndexingInv == IndexingTypeOK /\ PendingHasJob /\ ReadyInv

\* What References answers for a symbol: the workspace is ready, the file is as indexed and
\* the set is complete.  Then it has exactly the references there are in the file q.
ServedFrom(p, q) ==
  ReferencesServed(p) /\ ~Unnoticed(q) =>
    {t \in Text : <<q, t>> \in db.refs[p]} = {disk[q]} \cap Mentioning

\* So it is, but for changes that have not been noticed, files that the language server did
\* not look at, and files whose news was lost with the daemon.
ServedReferences == \A p \in known : \A q \in Path \ ({p} \cup blind[p] \cup lost[p]) : ServedFrom(p, q)

\* The claim that a restart makes no difference (docs/ARCHITECTURE.md:74).
NeverPartialSuccess == \A p \in known : \A q \in Path \ ({p} \cup blind[p]) : ServedFrom(p, q)

\* A search that is answered is answered from every file there is, as it is.
SearchIsCurrent ==
  SearchServed =>
    \A p \in Path : ~Unnoticed(p) => db.row[p] = (IF disk[p] = Missing THEN NoRow ELSE disk[p])

\* Whatever happens, in the end every file is indexed as it is, except those that were
\* skipped or that the watcher has not listed, unless indexing failed as a whole.
IsIndexed(p) ==
  \/ p \in skipped \/ Unlisted(p)
  \/ db.row[p] = (IF disk[p] = Missing THEN NoRow ELSE disk[p])
EverythingIsIndexed == <>[](indexFatal \/ (indexState = "ready" /\ \A p \in Path : IsIndexed(p)))
=============================================================================
