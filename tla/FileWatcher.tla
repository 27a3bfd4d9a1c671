---------------------------- MODULE FileWatcher ----------------------------
(***************************************************************************)
(* How a change on disk becomes a batch of paths (internal/watch/          *)
(* watcher.go): the kernel queues an event for a path whose directory it   *)
(* watches; the one goroutine of Run consumes events into the sets changed *)
(* and deleted, and when none came for a while lists the files, corrects   *)
(* the sets by what is listed now and was not before, and sends them.      *)
(*                                                                         *)
(* There is a root directory, watched from the start, and one nested       *)
(* directory, which may appear later.  Every path is in scope.             *)
(***************************************************************************)
EXTENDS Naturals, Sequences

CONSTANTS
  Path,        \* project files
  Nested,      \* those in the nested directory
  Text,        \* what a file can contain
  Missing,     \* what a file that does not exist contains
  None,
  MaxChanges,  \* bound: changes on disk, or of the store
  MaxFaults    \* bound: failures, restarts and expirations

ASSUME FileWatcherAssumption ==
  /\ Nested \subseteq Path /\ None \notin Path
  /\ Missing \notin Text /\ None \notin Text /\ None # Missing
  /\ MaxChanges \in Nat /\ MaxFaults \in Nat

VARIABLES
  disk,        \* Path -> Text or Missing
  dir,         \* the nested directory: "absent", "present" or "watched"
  changes, faults,  \* how many there have been
  watch,       \* Run: "off", "running" or "failed"
  raw,         \* fsnotify's queue: records of an operation and a path
  listed,      \* known of Run: the files of the last listing
  changed, deleted,
  timer,       \* the debounce timer is set
  scan,        \* what scanScope found, while its watches are being installed, or None
  batches      \* the channel of Events; its 32 places are more than the bounds fill

diskVars == <<disk, dir>>
watchVars == <<watch, raw, listed, changed, deleted, timer, scan, batches>>

Existing == {p \in Path : disk[p] # Missing}
bounds == <<changes, faults>>
Change == changes < MaxChanges /\ changes' = changes + 1 /\ UNCHANGED faults
Fault == faults < MaxFaults /\ faults' = faults + 1 /\ UNCHANGED changes

WatcherInit ==
  /\ disk \in [Path -> Text \cup {Missing}] /\ changes = 0 /\ faults = 0
  /\ dir \in {"absent", "present"} /\ (Existing \cap Nested # {} => dir = "present")
  /\ watch = "off" /\ raw = <<>> /\ listed = {} /\ changed = {} /\ deleted = {}
  /\ timer = FALSE /\ scan = None /\ batches = <<>>

-----------------------------------------------------------------------------
(* The project changes.                                                     *)

Notify(op, p) ==
  raw' = IF watch = "running" /\ (p \in Nested => dir = "watched")
         THEN Append(raw, [op |-> op, path |-> p]) ELSE raw

DiskWrites(p, t) ==
  /\ Change /\ disk[p] # t /\ (p \in Nested => dir # "absent")
  /\ disk' = [disk EXCEPT ![p] = t]
  /\ Notify(IF disk[p] = Missing THEN "create" ELSE "write", p)
  /\ UNCHANGED <<dir, watch, listed, changed, deleted, timer, scan, batches>>

DiskRemoves(p) ==
  /\ Change /\ disk[p] # Missing
  /\ disk' = [disk EXCEPT ![p] = Missing]
  /\ Notify("remove", p)
  /\ UNCHANGED <<dir, watch, listed, changed, deleted, timer, scan, batches>>

MakeDirectory ==
  /\ Change /\ dir = "absent" /\ dir' = "present"
  /\ Notify("mkdir", None)
  /\ UNCHANGED <<disk, watch, listed, changed, deleted, timer, scan, batches>>

DiskStep == (\E p \in Path : DiskRemoves(p) \/ \E t \in Text : DiskWrites(p, t)) \/ MakeDirectory

-----------------------------------------------------------------------------
(* The goroutine of Run.                                                    *)

\* Up to closing ready.  The setup lists twice, so that nothing is missed before.
Watch ==
  /\ watch' = "running" /\ listed' = Existing
  /\ dir' = IF dir = "absent" THEN "absent" ELSE "watched"
  /\ UNCHANGED <<raw, changed, deleted, timer, scan, batches>>

\* Run returns, and what it had collected is lost.
Drop ==
  /\ raw' = <<>> /\ listed' = {} /\ changed' = {} /\ deleted' = {}
  /\ timer' = FALSE /\ scan' = None
Unwatch == watch' = "off" /\ Drop /\ batches' = <<>>

\* noteDeleted forgets the path; noteChanged takes it that the file is there.
Consume ==
  /\ watch = "running" /\ scan = None /\ raw # <<>>
  /\ raw' = Tail(raw)
  /\ LET e == Head(raw)
         gone == {e.path} \cap listed
         there == disk[e.path] # Missing
     IN CASE e.op = "mkdir" ->
               timer' = TRUE /\ UNCHANGED <<listed, changed, deleted>>
          [] e.op = "remove" ->
               /\ listed' = listed \ gone /\ changed' = changed \ gone
               /\ deleted' = deleted \cup gone /\ timer' = TRUE
          [] e.op \in {"create", "write"} /\ there ->
               /\ changed' = changed \cup {e.path} /\ deleted' = deleted \ {e.path}
               /\ timer' = TRUE /\ UNCHANGED listed
          [] e.op \in {"create", "write"} /\ ~there ->
               /\ timer' = (timer \/ e.op = "create")
               /\ UNCHANGED <<listed, changed, deleted>>
  /\ UNCHANGED <<diskVars, watch, scan, batches, bounds>>

\* The timer fires, and scanScope lists the files and the directories.
Scan ==
  /\ watch = "running" /\ timer /\ scan = None
  /\ scan' = [files |-> Existing, dir |-> dir # "absent"]
  /\ UNCHANGED <<diskVars, watch, raw, listed, changed, deleted, timer, batches, bounds>>

\* refreshScope: a file that is listed now and was not before is changed, the other way
\* round deleted; what is both is listed, so it is changed.
RefreshScope(files) ==
  LET gone  == listed \ files
      fresh == files \ listed
      c     == ((changed \ gone) \cup fresh) \cap files
      d     == (deleted \cup gone) \ fresh
  IN [changed |-> c \cup (d \cap files), deleted |-> d \ files]

\* The watches of new directories are installed, and the batch is sent.
Flush ==
  /\ watch = "running" /\ scan # None
  /\ dir' = IF scan.dir THEN "watched" ELSE dir
  /\ LET batch == RefreshScope(scan.files) IN
       batches' = IF batch.changed \cup batch.deleted = {} THEN batches
                  ELSE Append(batches, batch)
  /\ listed' = scan.files /\ changed' = {} /\ deleted' = {}
  /\ timer' = FALSE /\ scan' = None
  /\ UNCHANGED <<disk, watch, raw, bounds>>

\* fsnotify reports an error, as when its queue overflows, or a listing fails.
WatchFails ==
  /\ Fault /\ watch = "running" /\ watch' = "failed" /\ Drop
  /\ UNCHANGED <<diskVars, batches>>

WatcherStep == Consume \/ Scan \/ Flush

-----------------------------------------------------------------------------
\* News of the path is still in the watcher.
Travelling(p) ==
  \/ \E i \in DOMAIN raw : raw[i].path = p
  \/ p \in changed \cup deleted
  \/ \E i \in DOMAIN batches : p \in batches[i].changed \cup batches[i].deleted

\* A file that was made in a new directory before its watch was installed, and after the
\* scan that found the directory.  It is found when something else changes.
Overlooked(p) == disk[p] # Missing /\ p \notin listed

Events == [op : {"create", "write", "remove"}, path : Path] \cup [op : {"mkdir"}, path : {None}]
Batches == [changed : SUBSET Path, deleted : SUBSET Path]
ASSUME NoBatchAssumption == None \notin Batches

WatcherTypeOK ==
  /\ disk \in [Path -> Text \cup {Missing}] /\ dir \in {"absent", "present", "watched"}
  /\ changes \in 0..MaxChanges /\ faults \in 0..MaxFaults /\ watch \in {"off", "running", "failed"}
  /\ raw \in Seq(Events)
  /\ listed \cup changed \cup deleted \subseteq Path /\ timer \in BOOLEAN
  /\ scan \in [files : SUBSET Path, dir : BOOLEAN] \cup {None}
  /\ batches \in Seq(Batches) /\ \A i \in DOMAIN batches : batches[i].changed \cap batches[i].deleted = {}
=============================================================================
