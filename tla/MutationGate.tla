---------------------------- MODULE MutationGate ----------------------------
(***************************************************************************)
(* documentMutationGate (lsp/docstate.go): the context-aware,              *)
(* writer-preferring readers-writer lock above the documents of one        *)
(* language server.  Document operations take a read slot (and may run a   *)
(* callback that starts another operation: `nested`); the replay of open   *)
(* documents to a restarted server takes the write slot.                   *)
(*                                                                         *)
(* Each pass through a loop of readLock or writeLock is one critical       *)
(* section of gate.mu.  A waiter parks on the channel `changed` it         *)
(* captured; signalLocked closes that channel and replaces it.  `woken` is *)
(* the set of waiters whose captured channel is closed, `expired` the set  *)
(* of waiters whose context is done.                                       *)
(***************************************************************************)
EXTENDS Integers, FiniteSets

CONSTANTS Readers, Writers

ASSUME GateAssumption ==
  IsFiniteSet(Readers) /\ IsFiniteSet(Writers) /\ Readers \cap Writers = {}

VARIABLES
  readers, waitingReaders, writer, waitingWriters,   \* the fields of the gate
  at,        \* process -> "out", "waiting", "inside", "nested"
  woken, expired

gateVars == <<readers, waitingReaders, writer, waitingWriters, at, woken, expired>>

Process == Readers \cup Writers
Waiting == {p \in Process : at[p] = "waiting"}
Holders == {p \in Process : at[p] \in {"inside", "nested"}}

GateInit ==
  /\ readers = 0 /\ waitingReaders = 0 /\ writer = FALSE /\ waitingWriters = 0
  /\ at = [p \in Process |-> "out"] /\ woken = {} /\ expired = {}

Goto(p, point) == at' = [at EXCEPT ![p] = point]

\* signalLocked: every process parked on the channel is released.
Signal == woken' = Waiting'

\* The condition under which readLock goes in.
OpenToReaders == ~writer /\ waitingWriters = 0

\* The condition under which writeLock goes in.
OpenToWriter == ~writer /\ readers = 0
-----------------------------------------------------------------------------
(* Readers.  readLock with a context that is already done changes nothing.  *)

ReadEnter(p) ==
  /\ at[p] = "out"
  /\ IF OpenToReaders
     THEN readers' = readers + 1 /\ Goto(p, "inside") /\ UNCHANGED waitingReaders
     ELSE waitingReaders' = waitingReaders + 1 /\ Goto(p, "waiting") /\ UNCHANGED readers
  /\ UNCHANGED <<writer, waitingWriters, woken, expired>>

\* Released by the channel, the reader tries again or captures the next one.
ReadRetry(p) ==
  /\ p \in woken /\ p \notin expired
  /\ woken' = woken \ {p}
  /\ IF OpenToReaders
     THEN /\ readers' = readers + 1 /\ waitingReaders' = waitingReaders - 1
          /\ Goto(p, "inside")
     ELSE UNCHANGED <<readers, waitingReaders, at>>
  /\ UNCHANGED <<writer, waitingWriters, expired>>

\* Mutant: a reader that gives up stays counted.
ReadGiveUpCounted(p) ==
  /\ p \in expired
  /\ Goto(p, "out")
  /\ woken' = woken \ {p} /\ expired' = expired \ {p}
  /\ UNCHANGED <<readers, waitingReaders, writer, waitingWriters>>

\* The context is done: in the select, or found so on the next pass.
ReadGiveUp(p) ==
  /\ p \in expired
  /\ waitingReaders' = waitingReaders - 1
  /\ Goto(p, "out")
  /\ woken' = woken \ {p} /\ expired' = expired \ {p}
  /\ UNCHANGED <<readers, writer, waitingWriters>>

ReadUnlock(p) ==
  /\ at[p] = "inside"
  /\ readers' = IF readers > 0 THEN readers - 1 ELSE readers
  /\ Goto(p, "out")
  /\ IF readers' = 0 THEN Signal ELSE UNCHANGED woken
  /\ UNCHANGED <<waitingReaders, writer, waitingWriters, expired>>

\* Mutant: an operation inside a callback takes a read slot of its own.
NestedEnterAgain(p) ==
  /\ at[p] = "inside"
  /\ IF OpenToReaders
     THEN readers' = readers + 1 /\ Goto(p, "nested") /\ UNCHANGED waitingReaders
     ELSE waitingReaders' = waitingReaders + 1 /\ Goto(p, "waiting") /\ UNCHANGED readers
  /\ UNCHANGED <<writer, waitingWriters, woken, expired>>

\* lockDocumentMutation under a context that carries this server's active lease:
\* the outer slot covers the inner operation.
NestedEnter(p) ==
  /\ at[p] = "inside" /\ Goto(p, "nested")
  /\ UNCHANGED <<readers, waitingReaders, writer, waitingWriters, woken, expired>>

NestedExit(p) ==
  /\ at[p] = "nested" /\ Goto(p, "inside")
  /\ UNCHANGED <<readers, waitingReaders, writer, waitingWriters, woken, expired>>
-----------------------------------------------------------------------------
(* Writers.                                                                 *)

\* Mutant: a writer only looks for other writers.
WriteEnterBeside(p) ==
  /\ at[p] = "out"
  /\ IF ~writer
     THEN writer' = TRUE /\ Goto(p, "inside") /\ UNCHANGED waitingWriters
     ELSE waitingWriters' = waitingWriters + 1 /\ Goto(p, "waiting") /\ UNCHANGED writer
  /\ UNCHANGED <<readers, waitingReaders, woken, expired>>

\* The first pass: waitingWriters goes up, and down again if the gate is free.
WriteEnter(p) ==
  /\ at[p] = "out"
  /\ IF OpenToWriter
     THEN writer' = TRUE /\ Goto(p, "inside") /\ UNCHANGED waitingWriters
     ELSE waitingWriters' = waitingWriters + 1 /\ Goto(p, "waiting") /\ UNCHANGED writer
  /\ UNCHANGED <<readers, waitingReaders, woken, expired>>

\* The context is done between the check before the lock and the one under it.
WriteEnterExpired(p) ==
  /\ at[p] = "out"
  /\ UNCHANGED <<readers, waitingReaders, writer, waitingWriters, at, expired>>
  /\ Signal

WriteRetry(p) ==
  /\ p \in woken /\ p \notin expired
  /\ woken' = woken \ {p}
  /\ IF OpenToWriter
     THEN /\ writer' = TRUE /\ waitingWriters' = waitingWriters - 1
          /\ Goto(p, "inside")
     ELSE UNCHANGED <<writer, waitingWriters, at>>
  /\ UNCHANGED <<readers, waitingReaders, expired>>

\* Mutant: a writer that gives up tells nobody.
WriteGiveUpSilently(p) ==
  /\ p \in expired
  /\ waitingWriters' = waitingWriters - 1
  /\ Goto(p, "out")
  /\ woken' = woken \ {p} /\ expired' = expired \ {p}
  /\ UNCHANGED <<readers, waitingReaders, writer>>

\* Readers wait for a waiting writer, so one that gives up must let them go on.
WriteGiveUp(p) ==
  /\ p \in expired
  /\ waitingWriters' = waitingWriters - 1
  /\ Goto(p, "out")
  /\ expired' = expired \ {p}
  /\ Signal
  /\ UNCHANGED <<readers, waitingReaders, writer>>

WriteUnlock(p) ==
  /\ at[p] = "inside"
  /\ writer' = FALSE
  /\ Goto(p, "out")
  /\ Signal
  /\ UNCHANGED <<readers, waitingReaders, waitingWriters, expired>>

\* The deadline of a waiting caller passes, or its caller cancels it.
Expire(p) ==
  /\ at[p] = "waiting" /\ p \notin expired
  /\ expired' = expired \cup {p}
  /\ UNCHANGED <<readers, waitingReaders, writer, waitingWriters, at, woken>>
-----------------------------------------------------------------------------
ReaderStep(p) ==
  \/ ReadRetry(p) \/ ReadGiveUp(p) \/ ReadUnlock(p) \/ NestedExit(p)

WriterStep(p) ==
  \/ WriteRetry(p) \/ WriteGiveUp(p) \/ WriteUnlock(p)

GateNext ==
  \/ \E p \in Readers : ReadEnter(p) \/ NestedEnter(p) \/ ReaderStep(p)
  \/ \E p \in Writers : WriteEnter(p) \/ WriteEnterExpired(p) \/ WriterStep(p)
  \/ \E p \in Process : Expire(p)

GateSpec == GateInit /\ [][GateNext]_gateVars

\* Whoever holds the gate gives it back (a handler under RequestTimeout, a replay
\* under the start timeout), a callback does not nest operations for ever, and a
\* process that is released runs.  Nobody has to come.
GateFairness ==
  /\ \A p \in Readers :
       /\ WF_gateVars(ReadRetry(p)) /\ WF_gateVars(ReadGiveUp(p))
       /\ SF_gateVars(ReadUnlock(p)) /\ WF_gateVars(NestedExit(p))
  /\ \A p \in Writers : WF_gateVars(WriterStep(p))

FairGateSpec == GateSpec /\ GateFairness
-----------------------------------------------------------------------------
(* Properties.                                                              *)

GateTypeOK ==
  /\ readers \in Nat /\ waitingReaders \in Nat /\ waitingWriters \in Nat
  /\ writer \in BOOLEAN
  /\ at \in [Process -> {"out", "waiting", "inside", "nested"}]
  /\ \A w \in Writers : at[w] # "nested"
  /\ woken \subseteq Waiting /\ expired \subseteq Waiting

\* The four fields count what they are named for, whatever gave up on the way:
\* a waitingWriters left behind would shut readers out for ever.
CountersExact ==
  /\ readers = Cardinality(Holders \cap Readers)
  /\ waitingReaders = Cardinality(Waiting \cap Readers)
  /\ waitingWriters = Cardinality(Waiting \cap Writers)
  /\ writer <=> Holders \cap Writers # {}

\* A replay never overlaps a document operation or another replay.
Exclusion == \A w \in Writers : w \in Holders => Holders = {w}

GateInv == GateTypeOK /\ CountersExact /\ Exclusion

\* No wakeup is lost: a process parked on a channel nobody has closed is parked
\* for a reason that still holds, and that somebody will signal the end of.
NoLostWakeup ==
  /\ \A r \in Waiting \cap Readers : r \in woken \/ ~OpenToReaders
  /\ \A w \in Waiting \cap Writers : w \in woken \/ ~OpenToWriter

\* Writer preference: with one replay at a time, it gets in (or gives up) however
\* many document operations keep coming, nested ones included.
WriterGetsIn == \A w \in Writers : at[w] = "waiting" ~> at[w] # "waiting"

\* Once writers stop coming, every reader gets in (or gives up).
ReadersResume ==
  <>[](\A w \in Writers : at[w] = "out") =>
    \A r \in Readers : at[r] = "waiting" ~> at[r] # "waiting"

\* The gate starves nobody: neither side waits for ever for the other.
BothSidesGetIn == WriterGetsIn /\ ReadersResume

\* The gate is a readers-writer lock.
RW == INSTANCE RWLock WITH holders <- Holders
ImplementsRWLock == RW!Spec
=============================================================================
