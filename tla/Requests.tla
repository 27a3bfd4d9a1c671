------------------------------ MODULE Requests ------------------------------
(***************************************************************************)
(* A request from end to end: a call over the socket (IpcClient), the      *)
(* handler that the daemon runs for it (daemon/server.go), and the query   *)
(* that the handler puts to the language server (Conn).  Either connection *)
(* may end, the client may give a call up, and the handler runs under the  *)
(* daemon's request timeout.                                               *)
(***************************************************************************)
EXTENDS IpcClient, Conn

CONSTANT MaxEvents   \* bound: calls given up, connections closed or broken, processes that
                     \* die, requests and notifications of the server

ASSUME RequestsAssumption == MaxEvents \in Nat

VARIABLES
  handling,   \* call -> where the daemon's handler of it is
  handled,    \* call -> the id of the request it handles
  events      \* how many of them so far

handlerVars == <<handling, handled>>
requestsVars == <<clientVars, connVars, handlerVars, events>>

RequestsInit ==
  /\ ClientInit /\ ConnInit
  /\ handling = [c \in Call |-> "none"] /\ handled = [c \in Call |-> 0] /\ events = 0

Event == events < MaxEvents /\ events' = events + 1
-----------------------------------------------------------------------------
(* serve and handle.                                                        *)

\* What the client wrote before it hung up is still read.
ReadRequest ==
  /\ up # <<>> /\ up' = Tail(up)
  /\ handling' = [handling EXCEPT ![Head(up).call] = "running"]
  /\ handled' = [handled EXCEPT ![Head(up).call] = Head(up).id]
  /\ UNCHANGED <<at, id, nextID, pending, channel, result, reader, tearing, uncompleted,
                 sock, down, connVars, events>>

Query(c) ==
  /\ handling[c] = "running"
  /\ Notify(c) \/ Register(c) \/ CallStep(c)
  /\ UNCHANGED <<clientVars, handlerVars, events>>

RequestTimeout(c) == TimeOut(c) /\ UNCHANGED <<clientVars, handlerVars, events>>

\* The response goes out under the id of the request, if there is a socket to write to: what
\* the query found, or the error of a handler that asked nothing (the request limit, a
\* server that is not ready) or whose result does not fit in a frame.
Reply(c) ==
  /\ handling[c] = "running" /\ handling' = [handling EXCEPT ![c] = "done"]
  /\ \E a \in Answer :
       /\ \/ asking[c] = "returned" /\ a = found[c]
          \/ asking[c] \in {"idle", "returned"} /\ a = Failed
       /\ down' = IF sock = "open" THEN Append(down, [id |-> handled[c], answer |-> a]) ELSE down
  /\ UNCHANGED <<at, id, nextID, pending, channel, result, reader, tearing, uncompleted,
                 sock, up, connVars, handled, events>>

\* The daemon closes the connection, or dies.  A request that it has not read is lost,
\* unless it is in the buffer of its codec.
DaemonHangsUp ==
  /\ Event /\ sock = "open" /\ sock' = "hungup" /\ up' \in {up, <<>>}
  /\ UNCHANGED <<at, id, nextID, pending, channel, result, reader, tearing, uncompleted,
                 down, connVars, handlerVars>>
-----------------------------------------------------------------------------
Client(c) == SendStep(c) /\ UNCHANGED <<connVars, handlerVars, events>>
ClientReader == (ReaderStep \/ FailStep) /\ UNCHANGED <<connVars, handlerVars, events>>
ConnReader == (PeerStep \/ SignalClosed) /\ UNCHANGED <<clientVars, handlerVars, events>>
ServerListens == ServerReads /\ UNCHANGED <<clientVars, handlerVars, events>>

ServerTalks ==
  /\ ServerWrites \/ \E m \in working : ServerAnswers(m)
  /\ UNCHANGED <<clientVars, handlerVars, events>>

Begin(c) == Send(c) /\ UNCHANGED <<connVars, handlerVars, events>>

Trouble ==
  /\ Event
  /\ \/ (Close \/ \E c \in Call : Abandon(c)) /\ UNCHANGED connVars
     \/ /\ \/ CloseConn \/ ServerDies \/ ReadError(TRUE)
           \/ \E kind \in {"request", "notification"} : ServerPushes(kind)
        /\ UNCHANGED clientVars
  /\ UNCHANGED handlerVars

\* Every call has returned.
Finished == (\A c \in Call : at[c] = "returned") /\ UNCHANGED requestsVars

Progress ==
  \/ \E c \in Call : Client(c) \/ Query(c) \/ RequestTimeout(c) \/ Reply(c)
  \/ ReadRequest \/ ClientReader \/ ConnReader \/ ServerListens

RequestsNext ==
  \/ Progress \/ ServerTalks
  \/ \E c \in Call : Begin(c)
  \/ DaemonHangsUp \/ Trouble \/ Finished

RequestsSpec == RequestsInit /\ [][RequestsNext]_requestsVars

\* Goroutines run, the daemon's request timeout comes, and the language server reads its
\* input; it need not answer, and nobody need give up.  A call takes finitely many steps,
\* so that it is enough that somebody moves while somebody can.
RequestsFairness == WF_requestsVars(Progress)

FairRequestsSpec == RequestsSpec /\ RequestsFairness
-----------------------------------------------------------------------------
\* Neither connection leaks a slot of a call that is over, and neither reader ever
\* blocks on the channel of one call while the others wait for it.
RequestsInv ==
  /\ ClientTypeOK /\ ConnTypeOK
  /\ SlotsAreOwned /\ QueriesAreOwned

\* A call returns the answer to what it asked or an error, never the answer to another
\* call: through two tables of ids, answers that overtake each other, and answers that
\* come after their call has given up or timed out ("it must never be handed to a
\* different waiter").
OwnAnswer == \A c \in Call : result[c] \in {c, Failed, None}

\* A call that is sent returns, although its caller does not give up and the language
\* server need not answer: whatever closes, breaks or dies at whatever moment.
CallsReturn == \A c \in Call : at[c] = "write" ~> at[c] = "returned"

\* Through both connections a call is handled at most once, and answered from its own
\* handler, after it: no frame is read twice, no id names two calls, and no late response
\* or teardown makes a call return a second time.
Stage(c) ==
  CASE handling[c] # "none"                -> handling[c]
    [] handling[c] = "none" /\ id[c] # 0   -> "asked"
    [] handling[c] = "none" /\ id[c] = 0   -> "new"
Exchanged == INSTANCE Exchange WITH stage <- [c \in Call |-> Stage(c)]
ImplementsExchange == Exchanged!Spec
=============================================================================
