------------------------- MODULE MutationGateProofs -------------------------
(***************************************************************************)
(* Proofs about MutationGate, for any number of document operations and    *)
(* replays: its counters are exact, a replay excludes everybody else, no   *)
(* wakeup is lost, and the gate implements RWLock.                         *)
(***************************************************************************)
EXTENDS MutationGate, FiniteSetTheorems, TLAPS

USE GateAssumption DEF GateAssumption

\* The processes of P that are at one of `points`.
AtOf(P, points) == {q \in P : at[q] \in points}

InPoints == {"inside", "nested"}

LEMMA SetForms ==
  /\ Holders \cap Readers = AtOf(Readers, InPoints)
  /\ Holders \cap Writers = AtOf(Writers, InPoints)
  /\ Waiting \cap Readers = AtOf(Readers, {"waiting"})
  /\ Waiting \cap Writers = AtOf(Writers, {"waiting"})
BY DEF Holders, Waiting, AtOf, InPoints, Process

LEMMA SetFormsNext ==
  /\ (Holders \cap Readers)' = AtOf(Readers, InPoints)'
  /\ (Holders \cap Writers)' = AtOf(Writers, InPoints)'
  /\ (Waiting \cap Readers)' = AtOf(Readers, {"waiting"})'
  /\ (Waiting \cap Writers)' = AtOf(Writers, {"waiting"})'
BY DEF Holders, Waiting, AtOf, InPoints, Process

\* What the move of one process does to a count of processes.
LEMMA Recount ==
  ASSUME GateTypeOK, NEW P \in SUBSET Process, NEW points, NEW p \in Process,
         NEW point, Goto(p, point)
  PROVE  /\ IsFiniteSet(AtOf(P, points)) /\ Cardinality(AtOf(P, points)) \in Nat
         /\ p \in P /\ at[p] \in points /\ point \notin points
              => /\ Cardinality(AtOf(P, points)') = Cardinality(AtOf(P, points)) - 1
                 /\ Cardinality(AtOf(P, points)) > 0
         /\ p \in P /\ at[p] \notin points /\ point \in points
              => Cardinality(AtOf(P, points)') = Cardinality(AtOf(P, points)) + 1
         /\ p \notin P \/ (at[p] \in points <=> point \in points)
              => AtOf(P, points)' = AtOf(P, points)
<1>1. IsFiniteSet(AtOf(P, points))
  <2>1. IsFiniteSet(Process)
    BY FS_Union DEF Process
  <2>2. AtOf(P, points) \subseteq Process
    BY DEF AtOf
  <2>3. QED
    BY <2>1, <2>2, FS_Subset
<1>2. Cardinality(AtOf(P, points)) \in Nat
  BY <1>1, FS_CardinalityType
<1>3. ASSUME p \in P, at[p] \in points, point \notin points
      PROVE  /\ Cardinality(AtOf(P, points)') = Cardinality(AtOf(P, points)) - 1
             /\ Cardinality(AtOf(P, points)) > 0
  <2>1. AtOf(P, points)' = AtOf(P, points) \ {p} /\ p \in AtOf(P, points)
    BY <1>3 DEF AtOf, Goto, GateTypeOK
  <2>2. Cardinality(AtOf(P, points)') = Cardinality(AtOf(P, points)) - 1
    BY <1>1, <2>1, FS_RemoveElement
  <2>3. Cardinality(AtOf(P, points)) # 0
    BY <1>1, <2>1, FS_EmptySet
  <2>4. QED
    BY <1>2, <2>2, <2>3
<1>4. ASSUME p \in P, at[p] \notin points, point \in points
      PROVE  Cardinality(AtOf(P, points)') = Cardinality(AtOf(P, points)) + 1
  <2>1. AtOf(P, points)' = AtOf(P, points) \cup {p} /\ p \notin AtOf(P, points)
    BY <1>4 DEF AtOf, Goto, GateTypeOK
  <2>2. QED
    BY <1>1, <2>1, FS_AddElement
<1>5. ASSUME p \notin P \/ (at[p] \in points <=> point \in points)
      PROVE  AtOf(P, points)' = AtOf(P, points)
  BY <1>5 DEF AtOf, Goto, GateTypeOK
<1>6. QED
  BY <1>1, <1>2, <1>3, <1>4, <1>5
-----------------------------------------------------------------------------
LEMMA InitGate == GateInit => GateInv /\ NoLostWakeup
<1> SUFFICES ASSUME GateInit PROVE GateInv /\ NoLostWakeup
  OBVIOUS
<1>1. Holders = {} /\ Waiting = {}
  BY DEF GateInit, Holders, Waiting, Process
<1>2. GateTypeOK
  BY <1>1 DEF GateInit, GateTypeOK, Process
<1>3. CountersExact
  BY <1>1, FS_EmptySet DEF GateInit, CountersExact
<1>4. QED
  BY <1>1, <1>2, <1>3 DEF GateInv, Exclusion, NoLostWakeup

\* writer is TRUE exactly while some writer is inside, which has the gate alone.
LEMMA GateFree ==
  ASSUME GateInv
  PROVE  /\ ~writer => \A w \in Writers : w \notin Holders
         /\ readers = 0 => \A r \in Readers : r \notin Holders
<1>1. ~writer => \A w \in Writers : w \notin Holders
  BY DEF GateInv, CountersExact
<1>2. IsFiniteSet(Holders \cap Readers)
  BY FS_Subset
<1>3. readers = 0 => Holders \cap Readers = {}
  BY <1>2, FS_EmptySet DEF GateInv, CountersExact
<1>4. QED
  BY <1>1, <1>3

LEMMA BooleanStep ==
  ASSUME writer \in BOOLEAN, [GateNext]_gateVars
  PROVE  writer' \in BOOLEAN
<1>1. UNCHANGED writer \/ writer' = TRUE \/ writer' = FALSE
  BY Zenon DEF GateNext, gateVars, ReadEnter, NestedEnter, NestedExit, ReadRetry, ReadGiveUp,
     ReadUnlock, WriteEnter, WriteEnterExpired, WriteRetry, WriteGiveUp, WriteUnlock, Expire,
     ReaderStep, WriterStep
<1>2. QED
  BY Zenon, <1>1

\* A waiting process is counted, so giving up takes nothing below zero.
LEMMA WaiterCounted ==
  ASSUME GateInv, NEW p \in Waiting
  PROVE  (p \in Readers => waitingReaders > 0) /\ (p \in Writers => waitingWriters > 0)
<1>1. IsFiniteSet(Waiting \cap Readers) /\ IsFiniteSet(Waiting \cap Writers)
  BY FS_Subset
<1>2. p \in Readers => Cardinality(Waiting \cap Readers) # 0
  BY <1>1, FS_EmptySet
<1>3. p \in Writers => Cardinality(Waiting \cap Writers) # 0
  BY <1>1, FS_EmptySet
<1>4. QED
  BY <1>2, <1>3 DEF GateInv, GateTypeOK, CountersExact

LEMMA TypeStep ==
  ASSUME GateInv, [GateNext]_gateVars
  PROVE  GateTypeOK'
<1> DEFINE Rest ==
      /\ readers \in Nat /\ waitingReaders \in Nat /\ waitingWriters \in Nat
      /\ at \in [Process -> {"out", "waiting", "inside", "nested"}]
      /\ \A w \in Writers : at[w] # "nested"
      /\ woken \subseteq Waiting /\ expired \subseteq Waiting
<1>a. Rest
  BY DEF GateInv, GateTypeOK
<1>b. \A p \in Waiting : (p \in Readers => waitingReaders > 0)
                      /\ (p \in Writers => waitingWriters > 0)
  BY WaiterCounted
<1>c. SUFFICES Rest'
  BY BooleanStep DEF GateInv, GateTypeOK
<1> USE DEF Waiting, Process, Goto
<1>1. CASE UNCHANGED gateVars
  BY <1>1, <1>a DEF gateVars
<1>2. ASSUME NEW p \in Readers, ReadEnter(p) PROVE Rest'
  BY <1>2, <1>a DEF ReadEnter
<1>3. ASSUME NEW p \in Readers, NestedEnter(p) \/ NestedExit(p) PROVE Rest'
  BY <1>3, <1>a DEF NestedEnter, NestedExit
<1>5. ASSUME NEW p \in Readers, ReadRetry(p) PROVE Rest'
  BY <1>5, <1>a, <1>b DEF ReadRetry
<1>6. ASSUME NEW p \in Readers, ReadGiveUp(p) PROVE Rest'
  BY <1>6, <1>a, <1>b DEF ReadGiveUp
<1>7. ASSUME NEW p \in Readers, ReadUnlock(p) PROVE Rest'
  BY <1>7, <1>a DEF ReadUnlock, Signal
<1>8. ASSUME NEW p \in Writers, WriteEnter(p) PROVE Rest'
  BY <1>8, <1>a DEF WriteEnter
<1>9. ASSUME NEW p \in Writers, WriteEnterExpired(p) PROVE Rest'
  BY <1>9, <1>a DEF WriteEnterExpired, Signal
<1>10. ASSUME NEW p \in Writers, WriteRetry(p) PROVE Rest'
  BY <1>10, <1>a, <1>b DEF WriteRetry
<1>11. ASSUME NEW p \in Writers, WriteGiveUp(p) PROVE Rest'
  BY <1>11, <1>a, <1>b DEF WriteGiveUp, Signal
<1>12. ASSUME NEW p \in Writers, WriteUnlock(p) PROVE Rest'
  BY <1>12, <1>a DEF WriteUnlock, Signal
<1>13. ASSUME NEW p \in Process, Expire(p) PROVE Rest'
  BY <1>13, <1>a DEF Expire
<1>14. QED
  BY <1>1, <1>2, <1>3, <1>5, <1>6, <1>7, <1>8, <1>9, <1>10, <1>11, <1>12, <1>13
     DEF GateNext, ReaderStep, WriterStep

LEMMA CountersStep ==
  ASSUME GateInv, [GateNext]_gateVars
  PROVE  CountersExact'
<1> DEFINE RIn == AtOf(Readers, InPoints)
           WIn == AtOf(Writers, InPoints)
           RWait == AtOf(Readers, {"waiting"})
           WWait == AtOf(Writers, {"waiting"})
           ReadersExact == readers = Cardinality(RIn) /\ waitingReaders = Cardinality(RWait)
           WritersExact == waitingWriters = Cardinality(WWait) /\ (writer <=> WIn # {})
<1>a. ReadersExact /\ WritersExact
  BY SetForms DEF GateInv, CountersExact
<1>b. GateTypeOK /\ Readers \in SUBSET Process /\ Writers \in SUBSET Process
  BY DEF GateInv, Process
<1>c. SUFFICES ReadersExact' /\ WritersExact'
  BY SetFormsNext DEF CountersExact
<1>d. ASSUME NEW p \in Readers, NEW point, Goto(p, point)
      PROVE  WIn' = WIn /\ WWait' = WWait
  <2>1. p \notin Writers
    OBVIOUS
  <2>2. QED
    BY <1>b, <1>d, <2>1, Recount
<1>e. ASSUME NEW p \in Writers, NEW point, Goto(p, point)
      PROVE  RIn' = RIn /\ RWait' = RWait
  <2>1. p \notin Readers
    OBVIOUS
  <2>2. QED
    BY <1>b, <1>e, <2>1, Recount
<1>f. UNCHANGED at => RIn' = RIn /\ WIn' = WIn /\ RWait' = RWait /\ WWait' = WWait
  BY DEF AtOf
<1>1. CASE UNCHANGED <<readers, waitingReaders, writer, waitingWriters, at>>
  BY Zenon, <1>1, <1>a, <1>f
<1>2. ASSUME NEW p \in Readers, ReadEnter(p) PROVE ReadersExact' /\ WritersExact'
  <2>1. CASE OpenToReaders
    <3>1. Goto(p, "inside") /\ readers' = readers + 1
          /\ UNCHANGED <<waitingReaders, writer, waitingWriters>> /\ at[p] = "out"
      BY <1>2, <2>1 DEF ReadEnter
    <3>2. Cardinality(RIn') = Cardinality(RIn) + 1 /\ RWait' = RWait
      BY <1>b, <3>1, Recount DEF InPoints
    <3>3. QED
      BY <1>a, <1>d, <3>1, <3>2
  <2>2. CASE ~OpenToReaders
    <3>1. Goto(p, "waiting") /\ waitingReaders' = waitingReaders + 1
          /\ UNCHANGED <<readers, writer, waitingWriters>> /\ at[p] = "out"
      BY <1>2, <2>2 DEF ReadEnter
    <3>2. Cardinality(RWait') = Cardinality(RWait) + 1 /\ RIn' = RIn
      BY <1>b, <3>1, Recount DEF InPoints
    <3>3. QED
      BY <1>a, <1>d, <3>1, <3>2
  <2>3. QED
    BY <2>1, <2>2
<1>3. ASSUME NEW p \in Readers, NestedEnter(p) \/ NestedExit(p)
      PROVE  ReadersExact' /\ WritersExact'
  <2>1. \E point \in InPoints : Goto(p, point) /\ at[p] \in InPoints
    BY <1>3 DEF NestedEnter, NestedExit, InPoints
  <2>2. RIn' = RIn /\ RWait' = RWait /\ WIn' = WIn /\ WWait' = WWait
    BY <1>b, <1>d, <2>1, Recount DEF InPoints
  <2>3. QED
    BY Zenon, <1>3, <1>a, <2>2 DEF NestedEnter, NestedExit
<1>4. ASSUME NEW p \in Readers, ReadRetry(p), OpenToReaders
      PROVE  ReadersExact' /\ WritersExact'
  <2>1. Goto(p, "inside") /\ readers' = readers + 1 /\ waitingReaders' = waitingReaders - 1
        /\ UNCHANGED <<writer, waitingWriters>> /\ at[p] = "waiting"
    BY <1>4, <1>b DEF ReadRetry, GateTypeOK, Waiting
  <2>2. Cardinality(RIn') = Cardinality(RIn) + 1
        /\ Cardinality(RWait') = Cardinality(RWait) - 1
    BY <1>b, <2>1, Recount DEF InPoints
  <2>3. QED
    BY <1>a, <1>d, <2>1, <2>2
<1>5. ASSUME NEW p \in Readers, ReadGiveUp(p) PROVE ReadersExact' /\ WritersExact'
  <2>1. Goto(p, "out") /\ waitingReaders' = waitingReaders - 1
        /\ UNCHANGED <<readers, writer, waitingWriters>> /\ at[p] = "waiting"
    BY <1>5, <1>b DEF ReadGiveUp, GateTypeOK, Waiting
  <2>2. RIn' = RIn /\ Cardinality(RWait') = Cardinality(RWait) - 1
    BY <1>b, <2>1, Recount DEF InPoints
  <2>3. QED
    BY <1>a, <1>d, <2>1, <2>2
<1>6. ASSUME NEW p \in Readers, ReadUnlock(p) PROVE ReadersExact' /\ WritersExact'
  <2>1. Goto(p, "out") /\ readers' = (IF readers > 0 THEN readers - 1 ELSE readers)
        /\ UNCHANGED <<waitingReaders, writer, waitingWriters>> /\ at[p] = "inside"
    BY <1>6 DEF ReadUnlock
  <2>2. /\ Cardinality(RIn') = Cardinality(RIn) - 1 /\ Cardinality(RIn) > 0
        /\ RWait' = RWait
    BY <1>b, <2>1, Recount DEF InPoints
  <2>3. QED
    BY <1>a, <1>d, <2>1, <2>2
<1>7. ASSUME NEW p \in Writers, at[p] \notin InPoints, Goto(p, "inside"), writer' = TRUE
      PROVE  writer' <=> WIn' # {}
  <2>1. p \in WIn'
    BY <1>7, <1>b DEF AtOf, InPoints, Goto, GateTypeOK
  <2>2. QED
    BY <1>7, <2>1
<1>8. ASSUME NEW p \in Writers, WriteEnter(p) PROVE ReadersExact' /\ WritersExact'
  <2>1. CASE OpenToWriter
    <3>1. Goto(p, "inside") /\ writer' = TRUE /\ at[p] = "out"
          /\ UNCHANGED <<readers, waitingReaders, waitingWriters>>
      BY <1>8, <2>1 DEF WriteEnter
    <3>2. WWait' = WWait
      BY <1>b, <3>1, Recount
    <3>3. writer' <=> WIn' # {}
      BY <1>7, <3>1 DEF InPoints
    <3>4. QED
      BY Zenon, <1>a, <1>e, <3>1, <3>2, <3>3
  <2>2. CASE ~OpenToWriter
    <3>1. Goto(p, "waiting") /\ waitingWriters' = waitingWriters + 1 /\ at[p] = "out"
          /\ UNCHANGED <<readers, waitingReaders, writer>>
      BY <1>8, <2>2 DEF WriteEnter
    <3>2. Cardinality(WWait') = Cardinality(WWait) + 1 /\ WIn' = WIn
      BY <1>b, <3>1, Recount DEF InPoints
    <3>3. QED
      BY Zenon, <1>a, <1>e, <3>1, <3>2
  <2>3. QED
    BY <2>1, <2>2
<1>9. ASSUME NEW p \in Writers, WriteRetry(p), OpenToWriter
      PROVE  ReadersExact' /\ WritersExact'
  <2>1. Goto(p, "inside") /\ writer' = TRUE /\ waitingWriters' = waitingWriters - 1
        /\ UNCHANGED <<readers, waitingReaders>> /\ at[p] = "waiting"
    BY <1>9, <1>b DEF WriteRetry, GateTypeOK, Waiting
  <2>2. Cardinality(WWait') = Cardinality(WWait) - 1
    BY <1>b, <2>1, Recount
  <2>3. writer' <=> WIn' # {}
    BY <1>7, <2>1 DEF InPoints
  <2>4. QED
    BY Zenon, <1>a, <1>e, <2>1, <2>2, <2>3
<1>10. ASSUME NEW p \in Writers, WriteGiveUp(p) PROVE ReadersExact' /\ WritersExact'
  <2>1. Goto(p, "out") /\ waitingWriters' = waitingWriters - 1 /\ at[p] = "waiting"
        /\ UNCHANGED <<readers, waitingReaders, writer>>
    BY <1>10, <1>b DEF WriteGiveUp, GateTypeOK, Waiting
  <2>2. Cardinality(WWait') = Cardinality(WWait) - 1 /\ WIn' = WIn
    BY <1>b, <2>1, Recount DEF InPoints
  <2>3. QED
    BY Zenon, <1>a, <1>e, <2>1, <2>2
<1>11. ASSUME NEW p \in Writers, WriteUnlock(p) PROVE ReadersExact' /\ WritersExact'
  <2>1. Goto(p, "out") /\ writer' = FALSE /\ at[p] = "inside"
        /\ UNCHANGED <<readers, waitingReaders, waitingWriters>>
    BY <1>11 DEF WriteUnlock
  <2>2. WWait' = WWait
    BY <1>b, <2>1, Recount
  <2>3. Holders = {p}
    BY <2>1 DEF GateInv, Exclusion, Holders, Process
  <2>4. WIn' = {}
    BY <1>b, <2>1, <2>3 DEF Holders, AtOf, InPoints, Goto, GateTypeOK, Process
  <2>5. QED
    BY Zenon, <1>a, <1>e, <2>1, <2>2, <2>4
<1>12. ASSUME \/ UNCHANGED gateVars
              \/ \E p \in Process : Expire(p)
              \/ \E p \in Writers : WriteEnterExpired(p) \/ (WriteRetry(p) /\ ~OpenToWriter)
              \/ \E p \in Readers : ReadRetry(p) /\ ~OpenToReaders
       PROVE  UNCHANGED <<readers, waitingReaders, writer, waitingWriters, at>>
  BY <1>12 DEF gateVars, Expire, WriteEnterExpired, WriteRetry, ReadRetry
<1>13. QED
  BY <1>1, <1>2, <1>3, <1>4, <1>5, <1>6, <1>8, <1>9, <1>10, <1>11, <1>12
     DEF GateNext, ReaderStep, WriterStep

LEMMA ExclusionStep ==
  ASSUME GateInv, [GateNext]_gateVars
  PROVE  Exclusion'
<1> USE DEF GateInv, GateTypeOK, Exclusion, Holders, Process, Goto
<1>1. CASE UNCHANGED at
  BY <1>1
<1>2. ASSUME NEW p \in Readers, ReadEnter(p) \/ ReadRetry(p) \/ ReadGiveUp(p) \/ ReadUnlock(p)
                               \/ NestedEnter(p) \/ NestedExit(p)
      PROVE  Exclusion'
  <2>1. CASE at'[p] \in {"out", "waiting"}
    BY <1>2, <2>1 DEF ReadEnter, ReadRetry, ReadGiveUp, ReadUnlock, NestedEnter, NestedExit
  <2>2. CASE at[p] \in {"inside", "nested"}
    BY <1>2, <2>2 DEF ReadEnter, ReadRetry, ReadGiveUp, ReadUnlock, NestedEnter, NestedExit
  <2>3. CASE at'[p] = "inside" /\ OpenToReaders /\ Goto(p, "inside")
    BY <2>3, GateFree DEF OpenToReaders
  <2>4. QED
    BY <1>1, <1>2, <2>1, <2>2, <2>3
       DEF ReadEnter, ReadRetry, ReadGiveUp, ReadUnlock, NestedEnter, NestedExit
<1>3. ASSUME NEW p \in Writers, WriteEnter(p) \/ WriteRetry(p) \/ WriteGiveUp(p) \/ WriteUnlock(p)
      PROVE  Exclusion'
  <2>1. CASE Goto(p, "out") \/ Goto(p, "waiting")
    BY <2>1
  <2>2. CASE OpenToWriter /\ Goto(p, "inside")
    <3>1. Holders = {}
      BY <2>2, GateFree DEF OpenToWriter
    <3>2. QED
      BY <2>2, <3>1
  <2>3. QED
    BY <1>1, <1>3, <2>1, <2>2 DEF WriteEnter, WriteRetry, WriteGiveUp, WriteUnlock
<1>4. ASSUME UNCHANGED gateVars \/ (\E p \in Process : Expire(p))
             \/ (\E p \in Writers : WriteEnterExpired(p))
      PROVE  UNCHANGED at
  BY <1>4 DEF gateVars, Expire, WriteEnterExpired
<1>5. QED
  BY <1>1, <1>2, <1>3, <1>4 DEF GateNext, ReaderStep, WriterStep

\* Signal leaves nobody asleep; every other step keeps a sleeper's reason to sleep.
LEMMA WakeupStep ==
  ASSUME GateInv, NoLostWakeup, [GateNext]_gateVars
  PROVE  NoLostWakeup'
<1> USE DEF NoLostWakeup, Waiting, Process, Goto, OpenToReaders, OpenToWriter
<1>a. GateTypeOK
  BY DEF GateInv
<1>1. CASE Signal
  BY <1>1 DEF Signal
<1>2. CASE UNCHANGED gateVars
  BY <1>2 DEF gateVars
<1>3. ASSUME NEW p \in Readers, ReadEnter(p) \/ NestedEnter(p) \/ NestedExit(p)
      PROVE  NoLostWakeup'
  BY <1>3, <1>a DEF ReadEnter, NestedEnter, NestedExit, GateTypeOK
<1>4. ASSUME NEW p \in Readers, ReadRetry(p) \/ ReadGiveUp(p)
      PROVE  NoLostWakeup'
  BY <1>4, <1>a DEF ReadRetry, ReadGiveUp, GateTypeOK
<1>5. ASSUME NEW p \in Readers, ReadUnlock(p), ~Signal
      PROVE  NoLostWakeup'
  <2>1. readers' # 0 /\ UNCHANGED <<woken, writer, waitingWriters>>
    BY <1>5 DEF ReadUnlock
  <2>2. \A q \in Process : q # p => at'[q] = at[q]
    BY <1>5, <1>a DEF ReadUnlock, GateTypeOK
  <2>3. at'[p] = "out"
    BY <1>5, <1>a DEF ReadUnlock, GateTypeOK
  <2>4. QED
    BY <2>1, <2>2, <2>3
<1>6. ASSUME NEW p \in Writers, WriteEnter(p) \/ WriteRetry(p)
      PROVE  NoLostWakeup'
  BY <1>6, <1>a, WaiterCounted DEF WriteEnter, WriteRetry, GateTypeOK
<1>7. ASSUME NEW p \in Writers, WriteEnterExpired(p) \/ WriteGiveUp(p) \/ WriteUnlock(p)
      PROVE  Signal
  BY <1>7 DEF WriteEnterExpired, WriteGiveUp, WriteUnlock
<1>8. ASSUME NEW p \in Process, Expire(p) PROVE NoLostWakeup'
  BY <1>8 DEF Expire
<1>9. QED
  BY <1>1, <1>2, <1>3, <1>4, <1>5, <1>6, <1>7, <1>8 DEF GateNext, ReaderStep, WriterStep
-----------------------------------------------------------------------------
\* The counters of the gate are exact and a replay excludes everybody else, however
\* many operations wait, give up or nest.
THEOREM GateSafe == GateSpec => []GateInv
<1>1. GateInv /\ [GateNext]_gateVars => GateInv'
  BY TypeStep, CountersStep, ExclusionStep DEF GateInv
<1>2. GateInit => GateInv
  BY InitGate
<1>3. QED
  BY <1>1, <1>2, PTL DEF GateSpec

\* Nobody sleeps through the change it waits for.
THEOREM NoWakeupIsLost == GateSpec => []NoLostWakeup
<1>1. GateInit => NoLostWakeup
  BY InitGate
<1>2. GateInv /\ NoLostWakeup /\ [GateNext]_gateVars => NoLostWakeup'
  BY WakeupStep
<1>3. QED
  BY <1>1, <1>2, GateSafe, PTL DEF GateSpec

\* Every step of the gate is a step of RWLock, or invisible to it.
LEMMA GateRefines ==
  ASSUME GateInv, [GateNext]_gateVars
  PROVE  [RW!Next]_Holders
<1> USE DEF Holders, Process, Goto
<1>a. GateTypeOK /\ Exclusion
  BY DEF GateInv
<1>1. ASSUME NEW p \in Readers, Goto(p, "inside"), at[p] \in {"out", "waiting"}, OpenToReaders
      PROVE  RW!Share(p)
  <2>1. Holders \cap Writers = {}
    BY <1>1, GateFree DEF OpenToReaders
  <2>2. Holders' = Holders \cup {p}
    BY <1>1, <1>a DEF GateTypeOK
  <2>3. QED
    BY <2>1, <2>2 DEF RW!Share
<1>2. ASSUME NEW p \in Writers, Goto(p, "inside"), at[p] \in {"out", "waiting"}, OpenToWriter
      PROVE  RW!Own(p)
  <2>1. Holders = {}
    BY <1>2, GateFree DEF OpenToWriter
  <2>2. Holders' = {p}
    BY <1>2, <1>a, <2>1 DEF GateTypeOK
  <2>3. QED
    BY <2>1, <2>2 DEF RW!Own
<1>3. ASSUME NEW p \in Process, Goto(p, "out"), at[p] = "inside"
      PROVE  RW!Release(p)
  BY <1>3, <1>a DEF GateTypeOK, RW!Release
<1>4. ASSUME NEW p \in Process, NEW point \in {"out", "waiting", "inside", "nested"},
             Goto(p, point), at[p] \in {"inside", "nested"} <=> point \in {"inside", "nested"}
      PROVE  UNCHANGED Holders
  BY <1>4, <1>a DEF GateTypeOK
<1>5. ASSUME UNCHANGED at PROVE UNCHANGED Holders
  BY <1>5
<1> HIDE DEF Holders
<1>6. ASSUME NEW p \in Readers, ReadEnter(p) \/ NestedEnter(p) \/ ReaderStep(p)
      PROVE  [RW!Next]_Holders
  <2>1. CASE ReadEnter(p)
    BY <1>1, <1>4, <2>1 DEF ReadEnter, RW!Next
  <2>2. CASE ReadRetry(p)
    <3>1. at[p] = "waiting"
      BY <2>2, <1>a DEF ReadRetry, GateTypeOK, Waiting
    <3>2. QED
      BY <1>1, <1>5, <2>2, <3>1 DEF ReadRetry, RW!Next
  <2>3. CASE ReadGiveUp(p)
    <3>1. at[p] = "waiting"
      BY <2>3, <1>a DEF ReadGiveUp, GateTypeOK, Waiting
    <3>2. QED
      BY <1>4, <2>3, <3>1 DEF ReadGiveUp
  <2>4. CASE ReadUnlock(p)
    BY <1>3, <2>4 DEF ReadUnlock, RW!Next
  <2>5. CASE NestedEnter(p) \/ NestedExit(p)
    BY <1>4, <2>5 DEF NestedEnter, NestedExit
  <2>6. QED
    BY <1>6, <2>1, <2>2, <2>3, <2>4, <2>5 DEF ReaderStep
<1>7. ASSUME NEW p \in Writers, WriteEnter(p) \/ WriteEnterExpired(p) \/ WriterStep(p)
      PROVE  [RW!Next]_Holders
  <2>1. CASE WriteEnter(p)
    BY <1>2, <1>4, <2>1 DEF WriteEnter, RW!Next
  <2>2. CASE WriteRetry(p)
    <3>1. at[p] = "waiting"
      BY <2>2, <1>a DEF WriteRetry, GateTypeOK, Waiting
    <3>2. QED
      BY <1>2, <1>5, <2>2, <3>1 DEF WriteRetry, RW!Next
  <2>3. CASE WriteGiveUp(p)
    <3>1. at[p] = "waiting"
      BY <2>3, <1>a DEF WriteGiveUp, GateTypeOK, Waiting
    <3>2. QED
      BY <1>4, <2>3, <3>1 DEF WriteGiveUp
  <2>4. CASE WriteUnlock(p)
    BY <1>3, <2>4 DEF WriteUnlock, RW!Next
  <2>5. CASE WriteEnterExpired(p)
    BY <1>5, <2>5 DEF WriteEnterExpired
  <2>6. QED
    BY <1>7, <2>1, <2>2, <2>3, <2>4, <2>5 DEF WriterStep
<1>8. CASE UNCHANGED gateVars \/ (\E p \in Process : Expire(p))
  BY <1>5, <1>8 DEF gateVars, Expire
<1>9. QED
  BY <1>6, <1>7, <1>8 DEF GateNext

\* The gate implements the readers-writer lock it stands for.
THEOREM GateIsRWLock == GateSpec => ImplementsRWLock
<1>1. GateInit => RW!Init
  BY DEF GateInit, RW!Init, Holders
<1>2. GateInv /\ [GateNext]_gateVars => [RW!Next]_Holders
  BY GateRefines
<1>3. QED
  BY <1>1, <1>2, GateSafe, PTL DEF GateSpec, RW!Spec, ImplementsRWLock
=============================================================================
