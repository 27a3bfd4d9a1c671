----------------------------- MODULE DaemonProofs -----------------------------
(***************************************************************************)
(* Proofs about Daemon.  The invariant DaemonInv is carried through every  *)
(* action, one part at a time; the safety properties follow from it.       *)
(***************************************************************************)
EXTENDS Daemon, FiniteSetTheorems, TLAPS

USE DaemonAssumption, IdleAssumption DEF DaemonAssumption, IdleAssumption

\* The steps of Next, grouped by who takes them.
LEMMA NextCases ==
  ASSUME [Next]_vars
  PROVE \/ RunStep
        \/ ActorStep \/ Time \/ Interrupt \/ FileActivity
        \/ AcceptEnds \/ GCPass \/ GCPassEnds \/ GCExit
        \/ \E c \in Conn : Accept(c) \/ ServeStep(c) \/ ReadMalformed(c) \/ PeerClose(c)
        \/ \E c \in Conn, r \in Req, k \in Kinds : ReadRequest(c, r, k)
        \/ \E r \in Req : HandleStep(r)
        \/ UNCHANGED vars
  BY DEF Next, Terminated

\* Before anything runs every part of the invariant holds.
LEMMA InitInv == Init => DaemonInv
<1> SUFFICES ASSUME Init PROVE DaemonInv
  OBVIOUS
<1> USE DEF Init, SunsetInit
<1>1. TypeOK
  <2>1. SunsetFlags /\ DaemonFlags
    BY Zenon DEF SunsetFlags, DaemonFlags
  <2>2. SunsetTypeOK
    BY <2>1 DEF SunsetTypeOK, Reasons
  <2>3. QED
    BY <2>1, <2>2 DEF TypeOK, Kinds
<1>2. CountersExact
  <2>1. Admitted = {} /\ \A what : HoldersOf(what) = {}
    BY DEF Admitted, HoldersOf
  <2>2. QED
    BY <2>1, FS_EmptySet DEF CountersExact
<1>3. RequestsServed /\ HoldsByPoint /\ ConnsByPoint
  BY DEF RequestsServed, HoldsByPoint, ConnsByPoint, Live
<1>4. RunOrder /\ IndexOrder /\ ShutdownSettles
  BY DEF RunOrder, IndexOrder, ShutdownSettles, Serving, Quiet
<1>5. LockHeld
  BY Zenon DEF LockHeld
<1>6. QED
  BY <1>1, <1>2, <1>3, <1>4, <1>5 DEF DaemonInv

\* IndexOrder changes only with Run and with the collection loop.
LEMMA IndexStep ==
  ASSUME DaemonInv, [Next]_vars
  PROVE IndexOrder'
<1> USE DEF DaemonInv, IndexOrder, TypeOK
<1>1. CASE RunStep
  BY <1>1 DEF RunStep, AcquireLiveness, StartIndex, Listen, RunActor, CloseListener,
     WaitQuiet, CancelReq, WaitAnswers, WaitAnswersEnd, CloseConns, Join,
     ShutdownRegistry, FinishIndex, CloseStore, Unlink, ReleaseLock, AfterIndex,
     indexVars, runVars
<1>2. CASE GCPass \/ GCPassEnds \/ GCExit
  BY <1>2 DEF GCPass, GCPassEnds, GCExit, runVars
<1>3. CASE UNCHANGED <<run, indexVars>>
  BY <1>3 DEF indexVars
<1>4. ASSUME NEW c \in Conn, Accept(c) \/ ServeStep(c) \/ ReadMalformed(c) \/ PeerClose(c)
      PROVE UNCHANGED <<run, indexVars>>
  BY <1>4 DEF Accept, ServeStep, ReadMalformed, ReadEnds, PeerClose, TrackConn, Admit,
     ReadEOF, JoinHandlers, EndSessions, UntrackConn, ServeReturns, runVars
<1>5. ASSUME NEW r \in Req, HandleStep(r)
      PROVE UNCHANGED <<run, indexVars>>
  BY <1>5 DEF HandleStep, Enter, AnswerAtOnce, Drain, TakeSlot, Begin, Execute, Reply,
     EndFlight, ReleaseSlot, Leave, runVars
<1>6. CASE \E c \in Conn, r \in Req, k \in Kinds : ReadRequest(c, r, k)
  BY <1>3, <1>6 DEF ReadRequest, runVars
<1>7. CASE ActorStep \/ Time \/ Interrupt \/ FileActivity \/ AcceptEnds \/ UNCHANGED vars
  BY <1>3, <1>7 DEF ActorStep, Time, Interrupt, FileActivity, Outside, AcceptEnds, vars,
     runVars, indexVars
<1>8. QED
  BY <1>1, <1>2, <1>3, <1>4, <1>5, <1>6, <1>7, NextCases

LEMMA ExceptBoolean ==
  ASSUME NEW S, NEW f \in [S -> BOOLEAN], NEW x, NEW b \in BOOLEAN
  PROVE  [f EXCEPT ![x] = b] \in [S -> BOOLEAN]
  OBVIOUS

\* The Boolean state stays Boolean (the parts of TypeOK no arithmetic is about).
LEMMA FlagsStep ==
  ASSUME TypeOK, [Next]_vars
  PROVE  SunsetFlags' /\ DaemonFlags'
<1> USE DEF TypeOK, SunsetTypeOK, SunsetFlags, DaemonFlags, vars, sunsetVars, runVars,
    indexVars, connVars, reqVars
<1>1. CASE RunStep
  <2>1. CASE AcquireLiveness
    <3>1. lock' \in BOOLEAN
      BY Zenon, <2>1 DEF AcquireLiveness
    <3>2. QED
      BY <2>1, <3>1 DEF AcquireLiveness
  <2>2. CASE StartIndex
    BY <2>2 DEF StartIndex
  <2>3. CASE Listen
    BY <2>3 DEF Listen
  <2>4. CASE RunActor
    BY <2>4 DEF RunActor, StartActor
  <2>5. CASE CloseListener
    BY <2>5 DEF CloseListener
  <2>6. CASE WaitQuiet
    BY <2>6 DEF WaitQuiet
  <2>7. CASE CancelReq
    BY <2>7 DEF CancelReq
  <2>8. CASE WaitAnswers
    BY <2>8 DEF WaitAnswers
  <2>9. CASE WaitAnswersEnd
    BY <2>9 DEF WaitAnswersEnd
  <2>10. CASE CloseConns
    BY <2>10 DEF CloseConns
  <2>11. CASE Join
    BY <2>11 DEF Join
  <2>12. CASE ShutdownRegistry
    BY <2>12 DEF ShutdownRegistry
  <2>13. CASE FinishIndex
    <3>1. gcCancelled' \in BOOLEAN
      BY Zenon, <2>13 DEF FinishIndex
    <3>2. QED
      BY <2>13, <3>1 DEF FinishIndex
  <2>14. CASE CloseStore
    BY <2>14 DEF CloseStore
  <2>15. CASE Unlink
    BY <2>15 DEF Unlink
  <2>16. CASE ReleaseLock
    BY <2>16 DEF ReleaseLock
  <2> QED
    BY <1>1, <2>1, <2>2, <2>3, <2>4, <2>5, <2>6, <2>7, <2>8, <2>9, <2>10, <2>11, <2>12, <2>13, <2>14, <2>15, <2>16 DEF RunStep
<1>2. CASE ActorStep \/ Time \/ Interrupt \/ FileActivity
  <2>1. CASE ActorStep
    <3>1. draining' \in BOOLEAN
      BY Zenon, <2>1 DEF ActorStep, Actor, ActorContext, ActorDrain, ActorPoke, ActorTimer,
         SetDraining
    <3>2. UNCHANGED ctxDone /\ drainReq' \in {drainReq, FALSE} /\ poke' \in {poke, FALSE}
      BY Zenon, <2>1 DEF ActorStep, Actor, ActorContext, ActorDrain, ActorPoke, ActorTimer
    <3>3. UNCHANGED <<runVars, indexVars, connVars>>
      BY <2>1 DEF ActorStep, Outside
    <3>4. QED
      BY <3>1, <3>2, <3>3
  <2>2. CASE Time
    BY <2>2 DEF Time, Tick, Outside
  <2>3. CASE Interrupt
    BY <2>3 DEF Interrupt, Signal, Outside
  <2>4. CASE FileActivity
    BY <2>4 DEF FileActivity, NoteActivity, Outside
  <2>5. QED
    BY <1>2, <2>1, <2>2, <2>3, <2>4
<1>3. CASE AcceptEnds \/ GCPass \/ GCPassEnds \/ GCExit \/ UNCHANGED vars
  BY <1>3 DEF AcceptEnds, GCPass, GCPassEnds, GCExit
<1>4. ASSUME NEW c \in Conn, Accept(c) \/ ServeStep(c) \/ ReadMalformed(c) \/ PeerClose(c)
      PROVE SunsetFlags' /\ DaemonFlags'
  <2>1. CASE Accept(c)
    BY <2>1 DEF Accept
  <2>2. CASE TrackConn(c)
    BY <2>2 DEF TrackConn
  <2>3. CASE Admit(c)
    <3>1. admitted' \in [Conn -> BOOLEAN]
      BY Zenon, <2>3, ExceptBoolean DEF Admit
    <3>2. poke' \in BOOLEAN /\ UNCHANGED <<draining, drainReq, ctxDone>>
      BY Zenon, <2>3 DEF Admit, AddClient, Refused
    <3>3. QED
      BY <2>3, <3>1, <3>2 DEF Admit
  <2>4. CASE ReadEOF(c)
    BY <2>4 DEF ReadEOF, ReadEnds
  <2>5. CASE JoinHandlers(c)
    <3>1. poke' \in BOOLEAN /\ UNCHANGED <<draining, drainReq, ctxDone>>
      BY Zenon, <2>5 DEF JoinHandlers, RemoveClient
    <3>2. QED
      BY <2>5, <3>1 DEF JoinHandlers
  <2>6. CASE EndSessions(c)
    <3>1. owned' \in [Conn -> BOOLEAN]
      BY Zenon, <2>6, ExceptBoolean DEF EndSessions
    <3>2. leaked' \in [Conn -> BOOLEAN]
      BY Zenon, <2>6, ExceptBoolean DEF EndSessions
    <3>3. QED
      BY <2>6, <3>1, <3>2 DEF EndSessions
  <2>7. CASE UntrackConn(c)
    BY <2>7 DEF UntrackConn
  <2>8. CASE ServeReturns(c)
    BY <2>8 DEF ServeReturns
  <2>9. CASE ReadMalformed(c)
    BY <2>9 DEF ReadMalformed, ReadEnds
  <2>10. CASE PeerClose(c)
    BY <2>10 DEF PeerClose
  <2> QED
    BY <1>4, <2>1, <2>2, <2>3, <2>4, <2>5, <2>6, <2>7, <2>8, <2>9, <2>10 DEF ServeStep
<1>5. CASE \E c \in Conn, r \in Req, k \in Kinds : ReadRequest(c, r, k)
  BY <1>5 DEF ReadRequest
<1>6. ASSUME NEW r \in Req, HandleStep(r)
      PROVE SunsetFlags' /\ DaemonFlags'
  <2>1. CASE Enter(r)
    BY <2>1 DEF Enter
  <2>2. CASE AnswerAtOnce(r)
    BY <2>2 DEF AnswerAtOnce
  <2>3. CASE Drain(r)
    <3>1. drainReq' \in BOOLEAN
      BY Zenon, <2>3 DEF Drain, RequestDrain
    <3>2. QED
      BY <2>3, <3>1 DEF Drain, RequestDrain
  <2>4. CASE TakeSlot(r)
    BY <2>4 DEF TakeSlot
  <2>5. CASE Begin(r)
    BY <2>5 DEF Begin, BeginRequest, Refused
  <2>6. CASE Execute(r)
    <3>1. owned' \in [Conn -> BOOLEAN]
      BY Zenon, <2>6, ExceptBoolean DEF Execute
    <3>2. QED
      BY <2>6, <3>1 DEF Execute
  <2>7. CASE Reply(r)
    BY <2>7 DEF Reply
  <2>8. CASE EndFlight(r)
    BY <2>8 DEF EndFlight, EndRequest
  <2>9. CASE ReleaseSlot(r)
    BY <2>9 DEF ReleaseSlot
  <2>10. CASE Leave(r)
    BY <2>10 DEF Leave
  <2> QED
    BY <1>6, <2>1, <2>2, <2>3, <2>4, <2>5, <2>6, <2>7, <2>8, <2>9, <2>10 DEF HandleStep
<1>7. QED
  BY <1>1, <1>2, <1>3, <1>4, <1>5, <1>6, NextCases

\* Type correctness.  Giving a slot back keeps sem a number because the slot is
\* one of those CountersExact counts.
LEMMA TypeStep ==
  ASSUME DaemonInv, [Next]_vars
  PROVE  TypeOK'
<1> USE DEF TypeOK, SunsetTypeOK, Reasons
<1>f. SunsetFlags' /\ DaemonFlags'
  BY FlagsStep DEF DaemonInv
<1>t. TypeOK
  BY DEF DaemonInv
<1>1. CASE RunStep
  BY <1>f, <1>t, <1>1 DEF RunStep, AcquireLiveness, StartIndex, Listen, RunActor,
     CloseListener, WaitQuiet, CancelReq, WaitAnswers, WaitAnswersEnd, CloseConns, Join,
     ShutdownRegistry, FinishIndex, CloseStore, Unlink, ReleaseLock, AfterIndex, StartActor,
     sunsetVars, runVars, indexVars, connVars, reqVars
<1>2. CASE ActorStep \/ Time \/ Interrupt \/ FileActivity
  BY <1>f, <1>t, <1>2 DEF ActorStep, Actor, ActorContext, ActorDrain, ActorPoke, ActorTimer,
     SetDraining, UntilIdle, Time, Tick, Interrupt, Signal, FileActivity, NoteActivity,
     Outside, sunsetVars, runVars, indexVars, connVars, reqVars
<1>3. CASE AcceptEnds \/ GCPass \/ GCPassEnds \/ GCExit \/ UNCHANGED vars
  BY <1>f, <1>t, <1>3 DEF AcceptEnds, GCPass, GCPassEnds, GCExit, vars, sunsetVars, runVars,
     indexVars, connVars, reqVars
<1>4. ASSUME NEW c \in Conn, Accept(c) \/ ServeStep(c) \/ ReadMalformed(c) \/ PeerClose(c)
      PROVE TypeOK'
  BY <1>f, <1>t, <1>4 DEF Accept, ServeStep, ReadMalformed, ReadEnds, PeerClose, TrackConn,
     Admit, AddClient, Refused, ReadEOF, JoinHandlers, RemoveClient, EndSessions,
     UntrackConn, ServeReturns, sunsetVars, runVars, indexVars, connVars, reqVars
<1>5. ASSUME NEW c \in Conn, NEW r \in Req, NEW k \in Kinds, ReadRequest(c, r, k)
      PROVE TypeOK'
  BY <1>f, <1>t, <1>5 DEF ReadRequest, sunsetVars, runVars, indexVars
<1>6. ASSUME NEW r \in Req, HandleStep(r)
      PROVE TypeOK'
  <2> USE DEF sunsetVars, runVars, indexVars, connVars, reqVars, Goto
  <2>1. CASE Enter(r) \/ AnswerAtOnce(r) \/ Drain(r)
    BY <1>f, <1>t, <2>1 DEF Enter, AnswerAtOnce, Drain, RequestDrain
  <2>2. CASE TakeSlot(r)
    BY <1>f, <1>t, <2>2 DEF TakeSlot
  <2>3. CASE Begin(r) \/ Execute(r) \/ Reply(r) \/ EndFlight(r)
    BY <1>f, <1>t, <2>3 DEF Begin, BeginRequest, Refused, Execute, Reply, EndFlight, EndRequest
  <2>4. CASE ReleaseSlot(r)
    <3>1. r \in HoldersOf("slot") /\ IsFiniteSet(HoldersOf("slot"))
      BY <2>4, FS_Subset DEF ReleaseSlot, HoldersOf
    <3>2. sem # 0
      BY <3>1, FS_EmptySet DEF DaemonInv, CountersExact
    <3>3. QED
      BY <1>f, <1>t, <2>4, <3>2 DEF ReleaseSlot
  <2>5. CASE Leave(r)
    <3>1. serving' \in [Conn -> {"none", "accepted", "tracked", "reading", "refusing",
                                "joining", "ending", "untracking", "closing", "gone"}]
      BY <1>t, <2>5 DEF Leave
    <3>2. answering' \in Nat
      BY <1>t, <2>5 DEF Leave
    <3>3. QED
      BY <1>f, <1>t, <2>5, <3>1, <3>2 DEF Leave
  <2>6. QED
    BY <1>6, <2>1, <2>2, <2>3, <2>4, <2>5 DEF HandleStep
<1>7. QED
  BY <1>1, <1>2, <1>3, <1>4, <1>5, <1>6, NextCases

-----------------------------------------------------------------------------
\* Only a read and a handler change the bookkeeping of requests.
LEMMA RequestFrame ==
  ASSUME [Next]_vars
  PROVE  \/ UNCHANGED reqVars
         \/ \E c \in Conn, r \in Req, k \in Kinds : ReadRequest(c, r, k)
         \/ \E r \in Req : HandleStep(r)
<1>1. CASE RunStep
  BY <1>1 DEF RunStep, AcquireLiveness, StartIndex, Listen, RunActor, CloseListener,
     WaitQuiet, CancelReq, WaitAnswers, WaitAnswersEnd, CloseConns, Join,
     ShutdownRegistry, FinishIndex, CloseStore, Unlink, ReleaseLock
<1>2. CASE ActorStep \/ Time \/ Interrupt \/ FileActivity
  BY <1>2 DEF ActorStep, Time, Interrupt, FileActivity, Outside
<1>3. CASE AcceptEnds \/ GCPass \/ GCPassEnds \/ GCExit \/ UNCHANGED vars
  BY <1>3 DEF AcceptEnds, GCPass, GCPassEnds, GCExit, vars
<1>4. ASSUME NEW c \in Conn, Accept(c) \/ ServeStep(c) \/ ReadMalformed(c) \/ PeerClose(c)
      PROVE UNCHANGED reqVars
  BY <1>4 DEF Accept, ServeStep, ReadMalformed, ReadEnds, PeerClose, TrackConn, Admit,
     ReadEOF, JoinHandlers, EndSessions, UntrackConn, ServeReturns
<1>5. QED
  BY <1>1, <1>2, <1>3, <1>4, NextCases

\* Only serve goroutines, reads and handlers change the state of connections; Run
\* and peers only close sockets.
LEMMA ConnFrame ==
  ASSUME [Next]_vars
  PROVE  \/ UNCHANGED <<serving, admitted, noted, owned, leaked>>
         \/ \E c \in Conn : Accept(c) \/ ServeStep(c) \/ ReadMalformed(c)
         \/ \E c \in Conn, r \in Req, k \in Kinds : ReadRequest(c, r, k)
         \/ \E r \in Req : TakeSlot(r) \/ Execute(r) \/ Leave(r)
<1> USE DEF connVars
<1>1. CASE RunStep
  BY <1>1 DEF RunStep, AcquireLiveness, StartIndex, Listen, RunActor, CloseListener,
     WaitQuiet, CancelReq, WaitAnswers, WaitAnswersEnd, CloseConns, Join,
     ShutdownRegistry, FinishIndex, CloseStore, Unlink, ReleaseLock
<1>2. CASE ActorStep \/ Time \/ Interrupt \/ FileActivity
  BY <1>2 DEF ActorStep, Time, Interrupt, FileActivity, Outside
<1>3. CASE AcceptEnds \/ GCPass \/ GCPassEnds \/ GCExit \/ UNCHANGED vars
  BY <1>3 DEF AcceptEnds, GCPass, GCPassEnds, GCExit, vars
<1>4. CASE \E c \in Conn : PeerClose(c)
  BY <1>4 DEF PeerClose
<1>5. ASSUME NEW r \in Req, HandleStep(r)
      PROVE \/ UNCHANGED <<serving, admitted, noted, owned, leaked>>
            \/ TakeSlot(r) \/ Execute(r) \/ Leave(r)
  BY <1>5 DEF HandleStep, Enter, AnswerAtOnce, Drain, Begin, Reply, EndFlight, ReleaseSlot
<1>6. QED
  BY <1>1, <1>2, <1>3, <1>4, <1>5, NextCases

\* What a handler gives back follows from where it is.
LEMMA HoldsStep ==
  ASSUME DaemonInv, [Next]_vars
  PROVE  HoldsByPoint'
<1> USE DEF DaemonInv, TypeOK, HoldsByPoint
<1>1. CASE UNCHANGED reqVars
  BY <1>1 DEF reqVars
<1>2. ASSUME NEW c \in Conn, NEW r \in Req, NEW k \in Kinds, ReadRequest(c, r, k)
      PROVE HoldsByPoint'
  BY <1>2 DEF ReadRequest
<1>3. ASSUME NEW r \in Req, HandleStep(r)
      PROVE HoldsByPoint'
  <2> USE DEF Goto
  <2>1. CASE Enter(r)
    BY <2>1 DEF Enter
  <2>2. CASE AnswerAtOnce(r)
    BY <2>2 DEF AnswerAtOnce
  <2>3. CASE Drain(r)
    BY <2>3 DEF Drain
  <2>4. CASE TakeSlot(r)
    BY <2>4 DEF TakeSlot
  <2>5. CASE Begin(r)
    BY <2>5 DEF Begin
  <2>6. CASE Execute(r)
    BY <2>6 DEF Execute
  <2>7. CASE Reply(r)
    BY <2>7 DEF Reply
  <2>8. CASE EndFlight(r)
    BY <2>8 DEF EndFlight
  <2>9. CASE ReleaseSlot(r)
    BY <2>9 DEF ReleaseSlot
  <2>10. CASE Leave(r)
    BY <2>10 DEF Leave
  <2> QED
    BY <1>3, <2>1, <2>2, <2>3, <2>4, <2>5, <2>6, <2>7, <2>8, <2>9, <2>10 DEF HandleStep
<1>4. QED
  BY <1>1, <1>2, <1>3, RequestFrame

\* A live request keeps its connection's goroutine: serve joins its handlers, and
\* refuses a client that was not admitted one request at a time.
LEMMA RequestsStep ==
  ASSUME DaemonInv, [Next]_vars
  PROVE  RequestsServed'
<1> USE DEF DaemonInv, TypeOK, DaemonFlags, RequestsServed, ConnsByPoint, Live
<1>1. CASE UNCHANGED <<reqVars, serving, admitted, noted, owned, leaked>>
  BY <1>1 DEF reqVars
<1>2. ASSUME NEW c \in Conn, Accept(c) \/ ServeStep(c) \/ ReadMalformed(c)
      PROVE RequestsServed'
  <2>1. CASE Accept(c)
    BY <2>1 DEF Accept, reqVars
  <2>2. CASE TrackConn(c)
    BY <2>2 DEF TrackConn, reqVars
  <2>3. CASE Admit(c)
    BY <2>3 DEF Admit, reqVars
  <2>4. CASE ReadEOF(c)
    BY <2>4 DEF ReadEOF, ReadEnds, reqVars
  <2>5. CASE JoinHandlers(c)
    BY <2>5 DEF JoinHandlers, HandlersDone, reqVars
  <2>6. CASE EndSessions(c)
    BY <2>6 DEF EndSessions, reqVars
  <2>7. CASE UntrackConn(c)
    BY <2>7 DEF UntrackConn, reqVars
  <2>8. CASE ServeReturns(c)
    BY <2>8 DEF ServeReturns, reqVars
  <2>9. CASE ReadMalformed(c)
    BY <2>9 DEF ReadMalformed, ReadEnds, reqVars
  <2> QED
    BY <1>2, <2>1, <2>2, <2>3, <2>4, <2>5, <2>6, <2>7, <2>8, <2>9 DEF ServeStep
<1>3. ASSUME NEW c \in Conn, NEW r \in Req, NEW k \in Kinds, ReadRequest(c, r, k)
      PROVE RequestsServed'
  BY <1>3 DEF ReadRequest
<1>4. ASSUME NEW r \in Req, HandleStep(r)
      PROVE RequestsServed'
  <2> USE DEF Goto
  <2>1. CASE Enter(r)
    BY <2>1 DEF Enter, connVars
  <2>2. CASE AnswerAtOnce(r)
    BY <2>2 DEF AnswerAtOnce, connVars
  <2>3. CASE Drain(r)
    BY <2>3 DEF Drain, connVars
  <2>4. CASE TakeSlot(r)
    BY <2>4 DEF TakeSlot, connVars
  <2>5. CASE Begin(r)
    BY <2>5 DEF Begin, connVars
  <2>6. CASE Execute(r)
    BY <2>6 DEF Execute, connVars
  <2>7. CASE Reply(r)
    BY <2>7 DEF Reply, connVars
  <2>8. CASE EndFlight(r)
    BY <2>8 DEF EndFlight, connVars
  <2>9. CASE ReleaseSlot(r)
    BY <2>9 DEF ReleaseSlot, connVars
  <2>10. CASE Leave(r)
    BY <2>10 DEF Leave, connVars
  <2> QED
    BY <1>4, <2>1, <2>2, <2>3, <2>4, <2>5, <2>6, <2>7, <2>8, <2>9, <2>10 DEF HandleStep
<1>5. QED
  <2>1. CASE UNCHANGED reqVars
    BY <1>1, <1>2, <1>3, <1>4, <2>1, ConnFrame DEF HandleStep
  <2>2. QED
    BY <1>3, <1>4, <2>1, RequestFrame

\* Sessions are noted before the core can own anything for them, and the cleanup
\* runs after the last handler.
LEMMA ConnsStep ==
  ASSUME DaemonInv, [Next]_vars
  PROVE  ConnsByPoint'
<1> USE DEF DaemonInv, TypeOK, DaemonFlags, RequestsServed, ConnsByPoint, Live
<1>1. CASE UNCHANGED <<serving, admitted, noted, owned, leaked>>
  BY <1>1
<1>2. ASSUME NEW c \in Conn, Accept(c) \/ ServeStep(c) \/ ReadMalformed(c)
      PROVE ConnsByPoint'
  <2>1. CASE Accept(c)
    BY <2>1 DEF Accept, reqVars
  <2>2. CASE TrackConn(c)
    <3>1. \E p \in {"closing", "tracked"} : serving' = [serving EXCEPT ![c] = p]
      BY Zenon, <2>2 DEF TrackConn
    <3>2. serving[c] = "accepted" /\ UNCHANGED <<admitted, noted, owned, leaked, reqVars>>
      BY <2>2 DEF TrackConn
    <3>3. QED
      BY <3>1, <3>2 DEF reqVars
  <2>3. CASE Admit(c)
    BY <2>3 DEF Admit, reqVars
  <2>4. CASE ReadEOF(c)
    BY <2>4 DEF ReadEOF, ReadEnds, reqVars
  <2>5. CASE JoinHandlers(c)
    BY <2>5 DEF JoinHandlers, HandlersDone, reqVars
  <2>6. CASE EndSessions(c)
    BY <2>6 DEF EndSessions, reqVars
  <2>7. CASE UntrackConn(c)
    BY <2>7 DEF UntrackConn, reqVars
  <2>8. CASE ServeReturns(c)
    BY <2>8 DEF ServeReturns, reqVars
  <2>9. CASE ReadMalformed(c)
    BY <2>9 DEF ReadMalformed, ReadEnds, reqVars
  <2> QED
    BY <1>2, <2>1, <2>2, <2>3, <2>4, <2>5, <2>6, <2>7, <2>8, <2>9 DEF ServeStep
<1>3. ASSUME NEW c \in Conn, NEW r \in Req, NEW k \in Kinds, ReadRequest(c, r, k)
      PROVE ConnsByPoint'
  BY <1>3 DEF ReadRequest
<1>4. ASSUME NEW r \in Req, TakeSlot(r) \/ Execute(r) \/ Leave(r)
      PROVE ConnsByPoint'
  <2>1. CASE TakeSlot(r)
    BY <2>1 DEF TakeSlot
  <2>2. CASE Execute(r)
    BY <2>2 DEF Execute
  <2>3. CASE Leave(r)
    BY <2>3 DEF Leave
  <2>4. QED
    BY <1>4, <2>1, <2>2, <2>3
<1>5. QED
  BY <1>1, <1>2, <1>3, <1>4, ConnFrame

\* The order of Run: what is open, running and served at each of its points.
LEMMA RunOrderStep ==
  ASSUME DaemonInv, [Next]_vars
  PROVE  RunOrder'
<1> USE DEF DaemonInv, TypeOK, RunOrder, Serving, Quiet
<1>1. CASE RunStep
  <2> USE DEF connVars, sunsetVars
  <2>1. CASE AcquireLiveness
    BY <2>1 DEF AcquireLiveness
  <2>2. CASE StartIndex
    BY <2>2 DEF StartIndex
  <2>3. CASE Listen
    BY <2>3 DEF Listen
  <2>4. CASE RunActor
    BY <2>4 DEF RunActor, StartActor, runVars
  <2>5. CASE CloseListener
    BY <2>5 DEF CloseListener
  <2>6. CASE WaitQuiet
    BY <2>6 DEF WaitQuiet
  <2>7. CASE CancelReq
    BY <2>7 DEF CancelReq
  <2>8. CASE WaitAnswers
    BY <2>8 DEF WaitAnswers
  <2>9. CASE WaitAnswersEnd
    BY <2>9 DEF WaitAnswersEnd
  <2>10. CASE CloseConns
    BY <2>10 DEF CloseConns
  <2>11. CASE Join
    BY <2>11 DEF Join
  <2>12. CASE ShutdownRegistry
    BY <2>12 DEF ShutdownRegistry
  <2>13. CASE FinishIndex
    BY <2>13 DEF FinishIndex, AfterIndex
  <2>14. CASE CloseStore
    BY <2>14 DEF CloseStore, AfterIndex
  <2>15. CASE Unlink
    BY <2>15 DEF Unlink
  <2>16. CASE ReleaseLock
    BY <2>16 DEF ReleaseLock
  <2> QED
    BY <1>1, <2>1, <2>2, <2>3, <2>4, <2>5, <2>6, <2>7, <2>8, <2>9, <2>10, <2>11, <2>12, <2>13, <2>14, <2>15, <2>16 DEF RunStep
<1>2. CASE ActorStep
  BY <1>2 DEF ActorStep, Actor, ActorContext, ActorDrain, ActorPoke, ActorTimer, SetDraining,
     Outside, runVars, connVars
<1>3. CASE Time \/ Interrupt \/ FileActivity
  BY <1>3 DEF Time, Tick, Interrupt, Signal, FileActivity, NoteActivity, Outside, runVars,
     connVars
<1>4. CASE AcceptEnds \/ GCPass \/ GCPassEnds \/ GCExit \/ UNCHANGED vars
  BY <1>4 DEF AcceptEnds, GCPass, GCPassEnds, GCExit, vars, sunsetVars, runVars, connVars
<1>5. ASSUME NEW c \in Conn, Accept(c) \/ ServeStep(c) \/ ReadMalformed(c) \/ PeerClose(c)
      PROVE RunOrder'
  <2> USE DEF sunsetVars, runVars
  <2>1. CASE Accept(c)
    BY <2>1 DEF Accept
  <2>2. CASE TrackConn(c)
    <3>1. \E p \in {"closing", "tracked"} : serving' = [serving EXCEPT ![c] = p]
      BY Zenon, <2>2 DEF TrackConn
    <3>2. QED
      BY <2>2, <3>1 DEF TrackConn
  <2>3. CASE Admit(c)
    BY <2>3 DEF Admit, AddClient, Refused
  <2>4. CASE JoinHandlers(c)
    BY <2>4 DEF JoinHandlers, RemoveClient
  <2>5. CASE ReadEOF(c) \/ EndSessions(c) \/ UntrackConn(c) \/ ServeReturns(c)
             \/ ReadMalformed(c) \/ PeerClose(c)
    BY <2>5 DEF ReadEOF, EndSessions, UntrackConn, ServeReturns, ReadMalformed, ReadEnds,
       PeerClose
  <2>6. QED
    BY <1>5, <2>1, <2>2, <2>3, <2>4, <2>5 DEF ServeStep
<1>6. ASSUME NEW c \in Conn, NEW r \in Req, NEW k \in Kinds, ReadRequest(c, r, k)
      PROVE RunOrder'
  BY <1>6 DEF ReadRequest, sunsetVars, runVars
<1>7. ASSUME NEW r \in Req, HandleStep(r)
      PROVE RunOrder'
  <2> USE DEF sunsetVars, runVars, connVars, Goto
  <2>1. CASE Enter(r) \/ AnswerAtOnce(r) \/ TakeSlot(r) \/ Execute(r) \/ Reply(r)
             \/ ReleaseSlot(r)
    BY <2>1 DEF Enter, AnswerAtOnce, TakeSlot, Execute, Reply, ReleaseSlot
  <2>2. CASE Drain(r) \/ Begin(r) \/ EndFlight(r)
    BY <2>2 DEF Drain, RequestDrain, Begin, BeginRequest, Refused, EndFlight, EndRequest
  <2>3. CASE Leave(r)
    <3>1. Live(r)
      BY <2>3 DEF Leave, Live
    <3>2. admitted[of[r]] \/ serving[of[r]] = "refusing"
      BY <3>1 DEF RequestsServed
    <3>3. QED
      BY <2>3, <3>2 DEF Leave
  <2>4. QED
    BY <1>7, <2>1, <2>2, <2>3 DEF HandleStep
<1>8. QED
  BY <1>1, <1>2, <1>3, <1>4, <1>5, <1>6, <1>7, NextCases

-----------------------------------------------------------------------------
\* Counting.  The counters of the code against the sets they count.

\* Two connections or handlers move each counter; everything else leaves it.
LEMMA CounterFrame ==
  ASSUME [Next]_vars
  PROVE  /\ UNCHANGED clients \/ \E c \in Conn : Admit(c) \/ JoinHandlers(c)
         /\ UNCHANGED inflight \/ \E r \in Req : Begin(r) \/ EndFlight(r)
<1> USE DEF sunsetVars
<1>1. CASE RunStep
  BY <1>1 DEF RunStep, AcquireLiveness, StartIndex, Listen, RunActor, CloseListener,
     WaitQuiet, CancelReq, WaitAnswers, WaitAnswersEnd, CloseConns, Join,
     ShutdownRegistry, FinishIndex, CloseStore, Unlink, ReleaseLock, StartActor
<1>2. CASE ActorStep \/ Time \/ Interrupt \/ FileActivity
  BY <1>2 DEF ActorStep, Actor, ActorContext, ActorDrain, ActorPoke, ActorTimer,
     Time, Tick, Interrupt, Signal, FileActivity, NoteActivity
<1>3. CASE AcceptEnds \/ GCPass \/ GCPassEnds \/ GCExit \/ UNCHANGED vars
  BY <1>3 DEF AcceptEnds, GCPass, GCPassEnds, GCExit, vars
<1>4. ASSUME NEW c \in Conn, Accept(c) \/ ServeStep(c) \/ ReadMalformed(c) \/ PeerClose(c)
      PROVE (UNCHANGED clients \/ Admit(c) \/ JoinHandlers(c)) /\ UNCHANGED inflight
  BY <1>4 DEF Accept, ServeStep, ReadMalformed, ReadEnds, PeerClose, TrackConn, Admit,
     AddClient, Refused, ReadEOF, JoinHandlers, RemoveClient, EndSessions, UntrackConn,
     ServeReturns
<1>5. CASE \E c \in Conn, r \in Req, k \in Kinds : ReadRequest(c, r, k)
  BY <1>5 DEF ReadRequest
<1>6. ASSUME NEW r \in Req, HandleStep(r)
      PROVE UNCHANGED clients /\ (UNCHANGED inflight \/ Begin(r) \/ EndFlight(r))
  BY <1>6 DEF HandleStep, Enter, AnswerAtOnce, Drain, RequestDrain, TakeSlot, Begin,
     BeginRequest, Refused, Execute, Reply, EndFlight, EndRequest, ReleaseSlot, Leave
<1>7. QED
  BY <1>1, <1>2, <1>3, <1>4, <1>5, <1>6, NextCases

LEMMA HoldersFinite == \A what : IsFiniteSet(HoldersOf(what)) /\ Cardinality(HoldersOf(what)) \in Nat
  BY FS_Subset, FS_CardinalityType DEF HoldersOf

\* A handler that takes one more thing is counted once more for it ...
LEMMA Gain ==
  ASSUME TypeOK, NEW r \in Req, NEW what, what \notin holds[r],
         holds' = [holds EXCEPT ![r] = @ \cup {what}]
  PROVE  /\ Cardinality(HoldersOf(what)') = Cardinality(HoldersOf(what)) + 1
         /\ \A w : w # what => HoldersOf(w)' = HoldersOf(w)
<1>1. HoldersOf(what)' = HoldersOf(what) \cup {r} /\ r \notin HoldersOf(what)
  BY DEF HoldersOf, TypeOK
<1>2. \A w : w # what => HoldersOf(w)' = HoldersOf(w)
  BY DEF HoldersOf, TypeOK
<1>3. QED
  BY <1>1, <1>2, HoldersFinite, FS_AddElement

\* ... and one that gives it back once less.
LEMMA Drop ==
  ASSUME TypeOK, NEW r \in Req, NEW what, what \in holds[r],
         holds' = [holds EXCEPT ![r] = @ \ {what}]
  PROVE  /\ Cardinality(HoldersOf(what)') = Cardinality(HoldersOf(what)) - 1
         /\ \A w : w # what => HoldersOf(w)' = HoldersOf(w)
<1>1. HoldersOf(what)' = HoldersOf(what) \ {r} /\ r \in HoldersOf(what)
  BY DEF HoldersOf, TypeOK
<1>2. \A w : w # what => HoldersOf(w)' = HoldersOf(w)
  BY DEF HoldersOf, TypeOK
<1>3. QED
  BY <1>1, <1>2, HoldersFinite, FS_RemoveElement

\* s.clients counts the admitted connections that serve has not left.
LEMMA ClientsStep ==
  ASSUME DaemonInv, [Next]_vars
  PROVE  clients' = Cardinality(Admitted')
<1> USE DEF DaemonInv, TypeOK, DaemonFlags, ConnsByPoint
<1>f. IsFiniteSet(Admitted) /\ clients = Cardinality(Admitted)
  BY FS_Subset DEF CountersExact, Admitted
<1>0. CASE UNCHANGED <<clients, serving, admitted>>
  BY <1>0, <1>f DEF Admitted
<1>1. ASSUME NEW c \in Conn, Admit(c)
      PROVE clients' = Cardinality(Admitted')
  <2>1. CASE AddClient /\ admitted' = [admitted EXCEPT ![c] = TRUE]
    <3>1. Admitted' = Admitted \cup {c} /\ c \notin Admitted
      BY <1>1, <2>1 DEF Admit, Admitted
    <3>2. QED
      BY <1>f, <2>1, <3>1, FS_AddElement DEF AddClient
  <2>2. CASE Refused /\ UNCHANGED admitted
    <3>1. Admitted' = Admitted
      BY <1>1, <2>2 DEF Admit, Admitted
    <3>2. QED
      BY <1>f, <2>2, <3>1 DEF Refused, sunsetVars
  <2>3. QED
    BY <1>1, <2>1, <2>2 DEF Admit
<1>2. ASSUME NEW c \in Conn, JoinHandlers(c)
      PROVE clients' = Cardinality(Admitted')
  <2>1. CASE admitted[c]
    <3>1. Admitted' = Admitted \ {c} /\ c \in Admitted
      BY <1>2, <2>1 DEF JoinHandlers, Admitted
    <3>2. clients # 0 /\ clients \in Nat
      BY <1>f, <3>1, FS_EmptySet DEF SunsetTypeOK
    <3>3. clients' = IF clients > 0 THEN clients - 1 ELSE clients
      BY Zenon, <1>2, <2>1 DEF JoinHandlers, RemoveClient
    <3>4. clients' = clients - 1
      BY <3>2, <3>3
    <3>5. Cardinality(Admitted \ {c}) = Cardinality(Admitted) - 1
      BY <1>f, <3>1, FS_RemoveElement
    <3>6. QED
      BY <1>f, <3>1, <3>4, <3>5
  <2>2. CASE ~admitted[c]
    <3>1. Admitted' = Admitted
      BY <1>2, <2>2 DEF JoinHandlers, Admitted
    <3>2. QED
      BY <1>f, <1>2, <2>2, <3>1 DEF JoinHandlers, sunsetVars
  <2>3. QED
    BY <2>1, <2>2
<1>3. CASE UNCHANGED clients
  <2>1. ASSUME NEW c \in Conn, Accept(c) \/ ServeStep(c) \/ ReadMalformed(c)
        PROVE Admitted' = Admitted \/ Admit(c) \/ JoinHandlers(c)
    BY <2>1 DEF Accept, ServeStep, ReadMalformed, ReadEnds, ReadEOF, TrackConn, EndSessions,
       UntrackConn, ServeReturns, Admitted
  <2>2. ASSUME NEW c \in Conn, NEW r \in Req, NEW k \in Kinds, ReadRequest(c, r, k)
        PROVE Admitted' = Admitted
    BY <2>2 DEF ReadRequest, Admitted
  <2>3. ASSUME NEW r \in Req, TakeSlot(r) \/ Execute(r) \/ Leave(r)
        PROVE Admitted' = Admitted
    BY <2>3 DEF TakeSlot, Execute, Leave, connVars, Admitted
  <2>4. QED
    BY <1>f, <1>0, <1>1, <1>2, <1>3, <2>1, <2>2, <2>3, ConnFrame DEF Admitted
<1>4. QED
  BY <1>1, <1>2, <1>3, CounterFrame

\* The other three counters are given back by the deferred calls of handle, in
\* the order their holders took them.
LEMMA HandlersCounted ==
  ASSUME DaemonInv, [Next]_vars
  PROVE  /\ inflight' = Cardinality(HoldersOf("flight")')
         /\ answering' = Cardinality(HoldersOf("gate")')
         /\ sem' = Cardinality(HoldersOf("slot")')
<1> DEFINE Counted == /\ inflight' = Cardinality(HoldersOf("flight")')
                      /\ answering' = Cardinality(HoldersOf("gate")')
                      /\ sem' = Cardinality(HoldersOf("slot")')
<1>t. TypeOK /\ CountersExact /\ HoldsByPoint
  BY DEF DaemonInv
<1>n. inflight \in Nat /\ answering \in Nat /\ sem \in Nat
  BY <1>t, DaemonAssumption DEF TypeOK, SunsetTypeOK
<1>f. /\ inflight = Cardinality(HoldersOf("flight"))
      /\ answering = Cardinality(HoldersOf("gate"))
      /\ sem = Cardinality(HoldersOf("slot"))
  BY <1>t DEF CountersExact
<1>0. ASSUME UNCHANGED <<holds, answering, sem, inflight>> PROVE Counted
  BY <1>0, <1>f DEF HoldersOf
<1>1. ASSUME NEW c \in Conn, NEW r \in Req, NEW k \in Kinds, ReadRequest(c, r, k)
      PROVE Counted
  BY <1>0, <1>1 DEF ReadRequest, sunsetVars
<1>2. ASSUME NEW r \in Req, HandleStep(r)
      PROVE Counted
  <2>1. CASE AnswerAtOnce(r) \/ Drain(r) \/ Execute(r) \/ Reply(r)
    BY <1>0, <2>1 DEF AnswerAtOnce, Drain, RequestDrain, Execute, Reply, sunsetVars
  <2>2. CASE Enter(r)
    <3>1. "gate" \notin holds[r] /\ holds' = [holds EXCEPT ![r] = @ \cup {"gate"}]
      BY <1>t, <2>2 DEF Enter, HoldsByPoint, TypeOK
    <3>2. answering' = answering + 1 /\ UNCHANGED <<sem, inflight>>
      BY <2>2 DEF Enter, sunsetVars
    <3>3. QED
      BY <1>t, <1>f, <3>1, <3>2, Gain
  <2>3. CASE TakeSlot(r)
    <3>1. UNCHANGED <<answering, inflight>>
      BY <2>3 DEF TakeSlot, sunsetVars
    <3>2. CASE sem < MaxInFlight
      <4>1. "slot" \notin holds[r] /\ holds' = [holds EXCEPT ![r] = @ \cup {"slot"}]
        BY <1>t, <2>3, <3>2 DEF TakeSlot, HoldsByPoint
      <4>2. sem' = sem + 1
        BY <2>3, <3>2 DEF TakeSlot
      <4>3. QED
        BY <1>t, <1>f, <3>1, <4>1, <4>2, Gain
    <3>3. CASE ~(sem < MaxInFlight)
      BY <1>0, <2>3, <3>1, <3>3 DEF TakeSlot
    <3>4. QED
      BY <3>2, <3>3
  <2>4. CASE Begin(r)
    <3>1. UNCHANGED <<answering, sem>>
      BY <2>4 DEF Begin
    <3>2. CASE BeginRequest /\ holds' = [holds EXCEPT ![r] = @ \cup {"flight"}]
      <4>1. "flight" \notin holds[r]
        BY <1>t, <2>4 DEF Begin, HoldsByPoint
      <4>2. inflight' = inflight + 1
        BY <3>2 DEF BeginRequest
      <4>3. QED
        BY <1>t, <1>f, <3>1, <3>2, <4>1, <4>2, Gain
    <3>3. CASE Refused /\ UNCHANGED holds
      BY <1>0, <3>1, <3>3 DEF Refused, sunsetVars
    <3>4. QED
      BY <2>4, <3>2, <3>3 DEF Begin
  <2>5. CASE EndFlight(r)
    <3>1. "flight" \in holds[r] /\ holds' = [holds EXCEPT ![r] = @ \ {"flight"}]
      BY <2>5 DEF EndFlight
    <3>2. r \in HoldersOf("flight")
      BY <3>1 DEF HoldersOf
    <3>3. inflight # 0
      BY <1>f, <3>2, HoldersFinite, FS_EmptySet
    <3>4. inflight' = inflight - 1 /\ UNCHANGED <<answering, sem>>
      BY <1>n, <2>5, <3>3 DEF EndFlight, EndRequest
    <3>5. QED
      BY <1>t, <1>f, <3>1, <3>4, Drop
  <2>6. CASE ReleaseSlot(r)
    <3>1. "slot" \in holds[r] /\ holds' = [holds EXCEPT ![r] = @ \ {"slot"}]
      BY <2>6 DEF ReleaseSlot
    <3>2. sem' = sem - 1 /\ UNCHANGED <<answering, inflight>>
      BY <2>6 DEF ReleaseSlot, sunsetVars
    <3>3. QED
      BY <1>t, <1>f, <3>1, <3>2, Drop
  <2>7. CASE Leave(r)
    <3>1. "gate" \in holds[r] /\ holds' = [holds EXCEPT ![r] = @ \ {"gate"}]
      BY <1>t, <2>7 DEF Leave, TypeOK
    <3>2. r \in HoldersOf("gate")
      BY <3>1 DEF HoldersOf
    <3>3. answering # 0
      BY <1>f, <3>2, HoldersFinite, FS_EmptySet
    <3>4. answering' = answering - 1 /\ UNCHANGED <<inflight, sem>>
      BY <1>n, <2>7, <3>3 DEF Leave, sunsetVars
    <3>5. QED
      BY <1>t, <1>f, <3>1, <3>4, Drop
  <2>8. QED
    BY <1>2, <2>1, <2>2, <2>3, <2>4, <2>5, <2>6, <2>7 DEF HandleStep
<1>3. CASE UNCHANGED reqVars
  <2>1. CASE UNCHANGED inflight
    BY <1>0, <1>3, <2>1 DEF reqVars
  <2>2. QED
    BY <1>2, <2>1, CounterFrame DEF HandleStep
<1>4. QED
  BY <1>1, <1>2, <1>3, RequestFrame

LEMMA CountersStep ==
  ASSUME DaemonInv, [Next]_vars
  PROVE  CountersExact'
  BY ClientsStep, HandlersCounted DEF CountersExact

-----------------------------------------------------------------------------
\* Run holds the lock from its first step to its last.
LEMMA LockStep ==
  ASSUME DaemonInv, [Next]_vars
  PROVE  LockHeld'
<1> USE DEF DaemonInv, TypeOK, LockHeld
<1>1. CASE RunStep
  <2>1. CASE AcquireLiveness
    <3>1. CASE run' = "index" /\ lock' = TRUE
      BY Zenon, <3>1
    <3>2. CASE run = "start" /\ run' = "done" /\ UNCHANGED lock
      BY Zenon, <3>2
    <3>3. QED
      BY <2>1, <3>1, <3>2 DEF AcquireLiveness
  <2>2. CASE ReleaseLock
    BY Zenon, <2>2 DEF ReleaseLock
  <2>3. CASE StartIndex \/ Listen \/ CloseListener \/ WaitQuiet \/ CancelReq \/ WaitAnswers
             \/ WaitAnswersEnd \/ CloseConns \/ Join \/ ShutdownRegistry \/ CloseStore
             \/ Unlink \/ FinishIndex
    <3>1. UNCHANGED lock /\ run \notin {"start", "done"} /\ run' \notin {"start", "done"}
      BY <2>3 DEF StartIndex, Listen, CloseListener, WaitQuiet, CancelReq, WaitAnswers,
         WaitAnswersEnd, CloseConns, Join, ShutdownRegistry, CloseStore, Unlink, FinishIndex,
         AfterIndex
    <3>2. QED
      BY Zenon, <3>1
  <2>4. CASE RunActor
    BY Zenon, <2>4 DEF RunActor, runVars
  <2>5. QED
    BY <1>1, <2>1, <2>2, <2>3, <2>4 DEF RunStep
<1>2. CASE UNCHANGED <<run, lock>>
  BY Zenon, <1>2
<1>3. ASSUME NEW c \in Conn, Accept(c) \/ ServeStep(c) \/ ReadMalformed(c) \/ PeerClose(c)
      PROVE UNCHANGED <<run, lock>>
  BY <1>3 DEF Accept, ServeStep, ReadMalformed, ReadEnds, PeerClose, TrackConn, Admit,
     ReadEOF, JoinHandlers, EndSessions, UntrackConn, ServeReturns, runVars
<1>4. ASSUME NEW r \in Req, HandleStep(r)
      PROVE UNCHANGED <<run, lock>>
  BY <1>4 DEF HandleStep, Enter, AnswerAtOnce, Drain, TakeSlot, Begin, Execute, Reply,
     EndFlight, ReleaseSlot, Leave, runVars
<1>5. CASE \/ ActorStep \/ Time \/ Interrupt \/ FileActivity \/ AcceptEnds
           \/ GCPass \/ GCPassEnds \/ GCExit \/ UNCHANGED vars
           \/ \E c \in Conn, r \in Req, k \in Kinds : ReadRequest(c, r, k)
  <2>1. UNCHANGED <<run, lock>>
    BY <1>5 DEF ActorStep, Time, Interrupt, FileActivity, Outside, AcceptEnds, GCPass,
       GCPassEnds, GCExit, ReadRequest, vars, runVars
  <2>2. QED
    BY <1>2, <2>1
<1>6. QED
  BY <1>1, <1>2, <1>3, <1>4, <1>5, NextCases

\* After draining the requests in flight can only become fewer.
LEMMA FlightShrinks ==
  ASSUME DaemonInv, [Next]_vars, draining
  PROVE  HoldersOf("flight")' \subseteq HoldersOf("flight")
<1> USE DEF DaemonInv, TypeOK, HoldersOf
<1>1. ASSUME NEW c \in Conn, NEW r \in Req, NEW k \in Kinds, ReadRequest(c, r, k)
      PROVE UNCHANGED holds
  BY <1>1 DEF ReadRequest
<1>2. ASSUME NEW r \in Req, HandleStep(r)
      PROVE HoldersOf("flight")' \subseteq HoldersOf("flight")
  BY <1>2 DEF HandleStep, Enter, AnswerAtOnce, Drain, TakeSlot, Begin, BeginRequest, Execute,
     Reply, EndFlight, ReleaseSlot, Leave
<1>3. QED
  BY <1>1, <1>2, RequestFrame DEF reqVars

\* Whoever is in flight is inside the answering gate, so a gate or a counter that
\* reads zero means that nothing is in flight.
LEMMA ZeroMeansNone ==
  ASSUME DaemonInv
  PROVE  /\ inflight = 0 => HoldersOf("flight") = {}
         /\ answering = 0 => HoldersOf("flight") = {}
<1>1. inflight = 0 => HoldersOf("flight") = {}
  BY HoldersFinite, FS_EmptySet DEF DaemonInv, CountersExact
<1>2. answering = 0 => HoldersOf("gate") = {}
  BY HoldersFinite, FS_EmptySet DEF DaemonInv, CountersExact
<1>3. HoldersOf("flight") \subseteq HoldersOf("gate")
  BY DEF DaemonInv, TypeOK, HoldersOf, HoldsByPoint
<1>4. QED
  BY <1>1, <1>2, <1>3

LEMMA ZeroMeansNoneNext ==
  ASSUME DaemonInv, [Next]_vars, answering' = 0
  PROVE  HoldersOf("flight")' = {}
<1>1. HoldersOf("gate")' = {}
  <2>1. IsFiniteSet(HoldersOf("gate")') /\ Cardinality(HoldersOf("gate")') = 0
    BY HandlersCounted, FS_Subset DEF HoldersOf
  <2>2. QED
    BY <2>1, FS_EmptySet
<1>2. HoldersOf("flight")' \subseteq HoldersOf("gate")'
  <2>1. HoldsByPoint' /\ TypeOK'
    BY HoldsStep, TypeStep
  <2>2. QED
    BY <2>1 DEF TypeOK, HoldersOf, HoldsByPoint
<1>3. QED
  BY <1>1, <1>2

\* Why the daemon drains, and that an idle one had nobody.
LEMMA ReasonStep ==
  ASSUME DaemonInv, [Next]_vars
  PROVE  /\ reason' # "none" => draining'
         /\ reason' = "idle" => clients' = 0 /\ inflight' = 0
<1> USE DEF sunsetVars
<1>a. /\ reason # "none" => draining
      /\ reason = "idle" => clients = 0 /\ inflight = 0
      /\ clients \in Nat /\ inflight \in Nat
  BY DEF DaemonInv, ShutdownSettles, TypeOK, SunsetTypeOK
<1>1. CASE UNCHANGED <<reason, draining, clients, inflight>>
  BY <1>1, <1>a
<1>2. CASE RunStep
  <2>1. UNCHANGED <<reason, draining, clients, inflight>>
    BY <1>2 DEF RunStep, AcquireLiveness, StartIndex, Listen, RunActor, CloseListener,
       WaitQuiet, CancelReq, WaitAnswers, WaitAnswersEnd, CloseConns, Join,
       ShutdownRegistry, FinishIndex, CloseStore, Unlink, ReleaseLock, StartActor
  <2>2. QED
    BY <1>1, <2>1
<1>3. CASE ActorStep
  <2>1. CASE ActorContext \/ ActorDrain
    BY <1>a, <2>1 DEF ActorContext, ActorDrain, SetDraining
  <2>2. CASE ActorPoke
    BY <1>1, <2>2 DEF ActorPoke
  <2>3. CASE ActorTimer
    <3>1. CASE draining
      BY <1>a, <2>3, <3>1 DEF ActorTimer, SetDraining
    <3>2. CASE ~draining /\ MayIdleDrain
      BY <1>a, <2>3, <3>2 DEF ActorTimer, SetDraining, MayIdleDrain
    <3>3. CASE ~draining /\ ~MayIdleDrain
      BY <1>1, <2>3, <3>3 DEF ActorTimer
    <3>4. QED
      BY <3>1, <3>2, <3>3
  <2>4. QED
    BY <1>3, <2>1, <2>2, <2>3 DEF ActorStep, Actor
<1>4. CASE Time \/ Interrupt \/ FileActivity
  BY <1>1, <1>4 DEF Time, Tick, Interrupt, Signal, FileActivity, NoteActivity
<1>5. CASE AcceptEnds \/ GCPass \/ GCPassEnds \/ GCExit \/ UNCHANGED vars
  BY <1>1, <1>5 DEF AcceptEnds, GCPass, GCPassEnds, GCExit, vars
<1>6. ASSUME NEW c \in Conn, Accept(c) \/ ServeStep(c) \/ ReadMalformed(c) \/ PeerClose(c)
      PROVE UNCHANGED <<reason, draining, clients, inflight>> \/ Admit(c) \/ JoinHandlers(c)
  BY <1>6 DEF Accept, ServeStep, ReadMalformed, ReadEnds, PeerClose, TrackConn, ReadEOF,
     EndSessions, UntrackConn, ServeReturns
<1>7. ASSUME NEW c \in Conn, Admit(c) PROVE UNCHANGED reason /\ UNCHANGED draining
             /\ UNCHANGED inflight /\ (UNCHANGED clients \/ ~draining)
  BY <1>7 DEF Admit, AddClient, Refused
<1>8. ASSUME NEW c \in Conn, JoinHandlers(c) PROVE UNCHANGED reason /\ UNCHANGED draining
             /\ UNCHANGED inflight /\ (clients = 0 => clients' = 0)
  <2>1. CASE admitted[c]
    <3>1. /\ clients' = IF clients > 0 THEN clients - 1 ELSE clients
          /\ UNCHANGED reason /\ UNCHANGED draining /\ UNCHANGED inflight
      BY Zenon, <1>8, <2>1 DEF JoinHandlers, RemoveClient
    <3>2. QED
      BY <3>1
  <2>2. CASE ~admitted[c]
    BY Zenon, <1>8, <2>2 DEF JoinHandlers
  <2>3. QED
    BY <2>1, <2>2
<1>9. CASE \E c \in Conn, r \in Req, k \in Kinds : ReadRequest(c, r, k)
  BY <1>1, <1>9 DEF ReadRequest
<1>10. ASSUME NEW r \in Req, HandleStep(r)
       PROVE UNCHANGED reason /\ UNCHANGED draining /\ UNCHANGED clients
             /\ (UNCHANGED inflight \/ ~draining \/ (inflight = 0 => inflight' = 0))
  BY <1>10, <1>a DEF HandleStep, Enter, AnswerAtOnce, Drain, RequestDrain, TakeSlot, Begin,
     BeginRequest, Refused, Execute, Reply, EndFlight, EndRequest, ReleaseSlot, Leave
<1>11. QED
  BY <1>a, <1>1, <1>2, <1>3, <1>4, <1>5, <1>6, <1>7, <1>8, <1>9, <1>10, NextCases

\* No request begins once the daemon drains, so each wait of the shutdown sequence
\* settles the requests in flight unless its grace ran out.
LEMMA SettleStep ==
  ASSUME DaemonInv, [Next]_vars
  PROVE  ShutdownSettles'
<1> DEFINE Flight == HoldersOf("flight")
<1>a. /\ reqCancelled => listener = "closed"
      /\ reqCancelled \/ run = "cancel" => graceOut \/ Flight = {}
      /\ run = "replyWait" /\ quietSeen => Flight = {}
      /\ closing \/ run = "closeConns" => replyOut \/ Flight = {}
      /\ closing => listener = "closed"
  BY Zenon DEF DaemonInv, ShutdownSettles
<1>b. listener = "closed" => draining
  BY Zenon DEF DaemonInv, RunOrder
<1>c. run \in {"grace", "cancel", "reply", "replyWait", "closeConns"} => listener = "closed"
  BY DEF DaemonInv, RunOrder, TypeOK, Serving
<1>d. draining => Flight' \subseteq Flight
  BY FlightShrinks
<1>e. run = "listen" => ~reqCancelled /\ ~closing
  BY <1>a DEF DaemonInv, RunOrder
<1> HIDE DEF Flight
<1> DEFINE Settled == /\ reqCancelled' => listener' = "closed"
                      /\ reqCancelled' \/ run' = "cancel" => graceOut' \/ Flight' = {}
                      /\ run' = "replyWait" /\ quietSeen' => Flight' = {}
                      /\ closing' \/ run' = "closeConns" => replyOut' \/ Flight' = {}
                      /\ closing' => listener' = "closed"
<1>1. ASSUME RunStep PROVE Settled
  <2>1. CASE AcquireLiveness
    BY Zenon, <1>a, <1>b, <1>d, <2>1 DEF AcquireLiveness
  <2>2. CASE StartIndex
    BY Zenon, <1>a, <1>b, <1>d, <2>2 DEF StartIndex
  <2>3. CASE Listen
    <3>1. run' \notin {"cancel", "replyWait", "closeConns"}
      BY <2>3 DEF Listen
    <3>2. QED
      BY Zenon, <1>e, <2>3, <3>1 DEF Listen
  <2>4. CASE RunActor
    BY Zenon, <1>a, <1>b, <1>d, <2>4 DEF RunActor, runVars
  <2>5. CASE CloseListener
    BY Zenon, <1>a, <1>b, <1>d, <2>5 DEF CloseListener
  <2>6. CASE WaitQuiet
    <3>1. graceOut' \/ Flight = {}
      <4>1. CASE inflight = 0
        BY <4>1, ZeroMeansNone DEF Flight
      <4>2. CASE inflight # 0
        <5>1. inflight > 0
          BY <4>2 DEF DaemonInv, TypeOK, SunsetTypeOK
        <5>2. QED
          BY Zenon, <2>6, <5>1 DEF WaitQuiet
      <4>3. QED
        BY <4>1, <4>2
    <3>2. QED
      BY Zenon, <1>a, <1>b, <1>c, <1>d, <2>6, <3>1 DEF WaitQuiet
  <2>7. CASE CancelReq
    BY Zenon, <1>a, <1>b, <1>c, <1>d, <2>7 DEF CancelReq
  <2>8. CASE WaitAnswers
    <3>1. run' = "closeConns" => Flight = {}
      BY <2>8, ZeroMeansNone DEF WaitAnswers, Flight
    <3>2. QED
      BY Zenon, <1>a, <1>b, <1>c, <1>d, <2>8, <3>1 DEF WaitAnswers
  <2>9. CASE WaitAnswersEnd
    BY Zenon, <1>a, <1>b, <1>c, <1>d, <2>9 DEF WaitAnswersEnd
  <2>10. CASE CloseConns
    BY Zenon, <1>a, <1>b, <1>c, <1>d, <2>10 DEF CloseConns
  <2>11. CASE Join
    BY Zenon, <1>a, <1>b, <1>d, <2>11 DEF Join
  <2>12. CASE ShutdownRegistry
    BY Zenon, <1>a, <1>b, <1>d, <2>12 DEF ShutdownRegistry
  <2>13. CASE FinishIndex
    <3>1. run' \notin {"cancel", "replyWait", "closeConns"}
      BY <2>13 DEF FinishIndex, AfterIndex
    <3>2. QED
      BY Zenon, <1>a, <1>b, <1>d, <2>13, <3>1 DEF FinishIndex
  <2>14. CASE CloseStore
    <3>1. run' \notin {"cancel", "replyWait", "closeConns"}
      BY <2>14 DEF CloseStore, AfterIndex
    <3>2. QED
      BY Zenon, <1>a, <1>b, <1>d, <2>14, <3>1 DEF CloseStore
  <2>15. CASE Unlink
    BY Zenon, <1>a, <1>b, <1>d, <2>15 DEF Unlink
  <2>16. CASE ReleaseLock
    BY Zenon, <1>a, <1>b, <1>d, <2>16 DEF ReleaseLock
  <2>17. QED
    BY <1>1, <2>1, <2>2, <2>3, <2>4, <2>5, <2>6, <2>7, <2>8, <2>9, <2>10, <2>11, <2>12, <2>13,
       <2>14, <2>15, <2>16 DEF RunStep
<1>2. ASSUME UNCHANGED <<run, listener, reqCancelled, graceOut, quietSeen, replyOut, closing>>
      PROVE Settled
  BY Zenon, <1>2, <1>a, <1>b, <1>c, <1>d
<1>3. ASSUME NEW r \in Req, Leave(r) PROVE Settled
  <2>1. CASE answering' = 0
    <3>1. Flight' = {}
      BY <2>1, ZeroMeansNoneNext DEF Flight
    <3>2. QED
      BY Zenon, <1>3, <1>a, <3>1 DEF Leave
  <2>2. CASE answering' # 0
    BY Zenon, <1>3, <1>a, <1>b, <1>c, <1>d, <2>2 DEF Leave
  <2>3. QED
    BY <2>1, <2>2
<1>4. ASSUME \/ \E c \in Conn : Accept(c) \/ ServeStep(c) \/ ReadMalformed(c) \/ PeerClose(c)
             \/ \E c \in Conn, r \in Req, k \in Kinds : ReadRequest(c, r, k)
             \/ \E r \in Req : HandleStep(r) /\ ~Leave(r)
             \/ ActorStep \/ Time \/ Interrupt \/ FileActivity \/ AcceptEnds
             \/ GCPass \/ GCPassEnds \/ GCExit \/ UNCHANGED vars
      PROVE UNCHANGED <<run, listener, reqCancelled, graceOut, quietSeen, replyOut, closing>>
  BY <1>4 DEF Accept, ServeStep, ReadMalformed, ReadEnds, PeerClose, TrackConn, Admit,
     ReadEOF, JoinHandlers, EndSessions, UntrackConn, ServeReturns, ReadRequest, HandleStep,
     Enter, AnswerAtOnce, Drain, TakeSlot, Begin, Execute, Reply, EndFlight, ReleaseSlot,
     ActorStep, Time, Interrupt, FileActivity, Outside, AcceptEnds, GCPass, GCPassEnds,
     GCExit, vars, runVars
<1>5. Settled
  BY <1>1, <1>2, <1>3, <1>4, NextCases
<1>6. QED
  BY Zenon, <1>5, ReasonStep DEF ShutdownSettles, Flight

-----------------------------------------------------------------------------
\* The invariant holds in every reachable state, for every set of connections and
\* requests, every semaphore size and every idle period.
THEOREM Invariance == Spec => []DaemonInv
<1>1. DaemonInv /\ [Next]_vars => DaemonInv'
  BY TypeStep, CountersStep, RequestsStep, HoldsStep, ConnsStep, RunOrderStep, LockStep,
     IndexStep, SettleStep DEF DaemonInv
<1>2. QED
  BY <1>1, InitInv, PTL DEF Spec

THEOREM TypeCorrect == Spec => []TypeOK
<1>1. DaemonInv => TypeOK
  BY DEF DaemonInv
<1>2. QED
  BY <1>1, Invariance, PTL

THEOREM Counting == Spec => []CountersExact
<1>1. DaemonInv => CountersExact
  BY DEF DaemonInv
<1>2. QED
  BY <1>1, Invariance, PTL

\* Registry.Shutdown never runs beside a handler or a connection.
THEOREM SafeTeardown == Spec => []TeardownAfterHandlers
<1>1. DaemonInv => TeardownAfterHandlers
  <2> SUFFICES ASSUME DaemonInv, registry = "down" PROVE TeardownAfterHandlers
    BY DEF TeardownAfterHandlers
  <2>1. Quiet
    BY DEF DaemonInv, RunOrder
  <2>2. ASSUME NEW r \in Req PROVE ~Live(r)
    <3> SUFFICES ASSUME Live(r) PROVE FALSE
      OBVIOUS
    <3>1. of[r] \in Conn
      BY DEF DaemonInv, TypeOK, RequestsServed, Live
    <3>2. serving[of[r]] \in {"reading", "joining", "refusing"}
      BY DEF DaemonInv, RequestsServed
    <3>3. QED
      BY <2>1, <3>1, <3>2 DEF Quiet
  <2>3. QED
    BY <2>1, <2>2 DEF TeardownAfterHandlers, Quiet, Live
<1>2. QED
  BY <1>1, Invariance, PTL

\* Within its two grace periods the shutdown cancels and cuts off nobody.
THEOREM GracefulShutdown == Spec => []NoRequestCutOff
<1>1. DaemonInv => NoRequestCutOff
  <2> SUFFICES ASSUME DaemonInv PROVE NoRequestCutOff
    OBVIOUS
  <2>1. HoldersOf("flight") = {} => \A r \in Req : handling[r] # "begun"
    BY DEF DaemonInv, HoldsByPoint, HoldersOf
  <2>2. QED
    BY Zenon, <2>1 DEF DaemonInv, ShutdownSettles, NoRequestCutOff
<1>2. QED
  BY <1>1, Invariance, PTL

\* The idle sunset and the admission of a client exclude each other.
THEOREM IdleIsIdle == Spec => []IdleStrandsNobody
<1>1. DaemonInv => IdleStrandsNobody
  <2> SUFFICES ASSUME DaemonInv, reason = "idle" PROVE IdleStrandsNobody
    BY DEF IdleStrandsNobody
  <2>1. clients = 0 /\ inflight = 0
    BY DEF DaemonInv, ShutdownSettles
  <2>2. IsFiniteSet(Admitted) /\ Cardinality(Admitted) = 0
    BY <2>1, FS_Subset DEF DaemonInv, CountersExact, Admitted
  <2>3. QED
    BY <2>1, <2>2, ZeroMeansNone, FS_EmptySet DEF IdleStrandsNobody
<1>2. QED
  BY <1>1, Invariance, PTL

\* A closed connection leaves nothing in the core that its cleanup could release.
THEOREM SessionsEnd == Spec => []NoOrphanedSession
<1>1. DaemonInv => NoOrphanedSession
  BY Zenon DEF DaemonInv, ConnsByPoint, NoOrphanedSession
<1>2. QED
  BY <1>1, Invariance, PTL

\* Whoever takes the liveness lock next finds nothing of this daemon running.
THEOREM LockIsLast == Spec => []LockCoversDaemon
<1>1. DaemonInv => LockCoversDaemon
  <2> SUFFICES ASSUME DaemonInv, ~lock PROVE LockCoversDaemon
    BY DEF LockCoversDaemon
  <2>1. run \in {"start", "done"}
    BY Zenon DEF DaemonInv, LockHeld
  <2>2. QED
    BY <2>1 DEF DaemonInv, TypeOK, RunOrder, IndexOrder, Serving, Quiet, LockCoversDaemon
<1>2. QED
  BY <1>1, Invariance, PTL

\* The servers are shut down after the handlers, and the lock is released last.
THEOREM OrderlyTeardown == Spec => []TeardownInOrder
<1>1. TeardownAfterHandlers /\ LockCoversDaemon => TeardownInOrder
  BY DEF TeardownInOrder
<1>2. QED
  BY <1>1, SafeTeardown, LockIsLast, PTL

-----------------------------------------------------------------------------
(* The life that other processes see.                                       *)

LifeNext == [Life!Next]_([d \in {"this"} |-> Phase])

\* A step of DaemonLife: there is no other daemon here.
LEMMA LifeStep ==
  ASSUME \/ Phase' = Phase
         \/ Phase = "outside" /\ Phase' = "holding"
         \/ Phase = "holding" /\ Phase' = "accepting"
         \/ Phase \in {"holding", "accepting"} /\ Phase' = "closing"
         \/ Phase # "over" /\ Phase' = "over"
  PROVE  LifeNext
BY DEF LifeNext, Life!Next, Life!Enter, Life!Listen, Life!StandDown, Life!End, Life!Become, Life!Has

\* Only Run moves it: the goroutines it has started change neither where it is nor its
\* listener.
LEMMA OnlyRunMoves ==
  ASSUME [Next]_vars, ~RunStep
  PROVE  UNCHANGED <<run, listener>>
<1>1. ASSUME NEW c \in Conn, Accept(c) \/ ServeStep(c) \/ ReadMalformed(c) \/ PeerClose(c)
      PROVE UNCHANGED <<run, listener>>
  BY <1>1 DEF Accept, ServeStep, ReadMalformed, ReadEnds, PeerClose, TrackConn, Admit,
     ReadEOF, JoinHandlers, EndSessions, UntrackConn, ServeReturns, runVars
<1>2. ASSUME NEW r \in Req, HandleStep(r)
      PROVE UNCHANGED <<run, listener>>
  BY <1>2 DEF HandleStep, Enter, AnswerAtOnce, Drain, TakeSlot, Begin, Execute, Reply,
     EndFlight, ReleaseSlot, Leave, runVars
<1>3. CASE \/ ActorStep \/ Time \/ Interrupt \/ FileActivity \/ AcceptEnds
           \/ GCPass \/ GCPassEnds \/ GCExit \/ UNCHANGED vars
           \/ \E c \in Conn, r \in Req, k \in Kinds : ReadRequest(c, r, k)
  BY <1>3 DEF ActorStep, Time, Interrupt, FileActivity, Outside, AcceptEnds, GCPass,
     GCPassEnds, GCExit, ReadRequest, vars, runVars
<1>4. QED
  BY <1>1, <1>2, <1>3, NextCases

\* Run goes from phase to phase: it listens after it has the lock, it closes before it
\* lets go, and a start that fails closes what it had not opened.
LEMMA RunLives ==
  ASSUME DaemonInv, RunStep
  PROVE  LifeNext
<1> USE DEF DaemonInv, TypeOK, RunOrder, Serving, Phase
<1>1. CASE AcquireLiveness \/ StartIndex
  BY <1>1, LifeStep DEF AcquireLiveness, StartIndex
<1>2. CASE Listen \/ RunActor \/ CloseListener
  BY <1>2, LifeStep DEF Listen, RunActor, CloseListener, runVars
<1>3. CASE WaitQuiet \/ CancelReq \/ WaitAnswers \/ WaitAnswersEnd \/ CloseConns \/ Join
  BY <1>3, LifeStep DEF WaitQuiet, CancelReq, WaitAnswers, WaitAnswersEnd, CloseConns, Join
<1>4. CASE ShutdownRegistry \/ FinishIndex \/ CloseStore \/ Unlink \/ ReleaseLock
  BY <1>4, LifeStep DEF ShutdownRegistry, FinishIndex, CloseStore, Unlink, ReleaseLock, AfterIndex
<1>5. QED
  BY <1>1, <1>2, <1>3, <1>4 DEF RunStep

\* What Connect assumes of a daemon, the daemon does.
THEOREM LivesAsConnectAssumes == Spec => ImplementsLife
<1>1. Init => Life!Init
  BY DEF Init, Life!Init, Life!Has, Phase
<1>2. ASSUME DaemonInv, [Next]_vars PROVE LifeNext
  <2>1. CASE RunStep
    BY <2>1, <1>2, RunLives
  <2>2. CASE ~RunStep
    <3>1. UNCHANGED <<run, listener>>
      BY <1>2, <2>2, OnlyRunMoves
    <3>2. QED
      BY <3>1, LifeStep DEF Phase
  <2>3. QED
    BY <2>1, <2>2
<1>3. QED
  BY <1>1, <1>2, Invariance, PTL DEF Spec, ImplementsLife, Life!Spec, LifeNext
=============================================================================
