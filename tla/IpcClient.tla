------------------------------ MODULE IpcClient ------------------------------
(***************************************************************************)
(* The client's end of the socket to a daemon (internal/daemonctl/         *)
(* client.go, protocol/codec.go).  Calls share one connection: each puts a *)
(* channel under a fresh id into c.pending, and a single reader hands the  *)
(* responses out by id, in whatever order they come.                       *)
(*                                                                         *)
(* Frames are atomic (the codec's write mutex), and the socket takes them  *)
(* all: the daemon reads it all the time.                                  *)
(***************************************************************************)
EXTENDS Calls

VARIABLES
  at,          \* call -> where its send is
  id,          \* call -> its id, 0 before it has one
  nextID,
  pending,     \* c.pending: id -> the call whose channel it is, or None
  channel,     \* call -> its channel, of capacity 1
  result,      \* call -> what it returned, or None
  reader,      \* "reading" or "gone"
  tearing,     \* where the fail that counts is; "no" until c.closed
  uncompleted, \* the calls it has still to complete
  sock,        \* "open", "hungup" by the daemon, "closed" by the client
  up, down     \* the frames on their way to the daemon and back

clientVars == <<at, id, nextID, pending, channel, result, reader, tearing, uncompleted,
                sock, up, down>>

ClientInit ==
  /\ at = [c \in Call |-> "idle"] /\ id = [c \in Call |-> 0] /\ nextID = 0
  /\ pending = [i \in Id |-> None] /\ channel = [c \in Call |-> <<>>]
  /\ result = [c \in Call |-> None]
  /\ reader = "reading" /\ tearing = "no" /\ uncompleted = {}
  /\ sock = "open" /\ up = <<>> /\ down = <<>>

Return(c, r) == at' = [at EXCEPT ![c] = "returned"] /\ result' = [result EXCEPT ![c] = r]
-----------------------------------------------------------------------------
(* send.                                                                    *)

Enter(c, i) ==
  IF tearing # "no"
  THEN Return(c, Failed) /\ UNCHANGED <<id, nextID, pending>>
  ELSE /\ at' = [at EXCEPT ![c] = "write"] /\ id' = [id EXCEPT ![c] = i] /\ nextID' = i
       /\ pending' = [pending EXCEPT ![i] = c]
       /\ UNCHANGED result

\* Mutant: ids are the places in c.pending.
SendReusing(c) ==
  /\ at[c] = "idle"
  /\ Enter(c, Cardinality({i \in Id : pending[i] # None}) + 1)
  /\ UNCHANGED <<channel, reader, tearing, uncompleted, sock, up, down>>

\* The critical section that takes an id and a place in c.pending, unless closed.
Send(c) ==
  /\ at[c] = "idle"
  /\ Enter(c, nextID + 1)
  /\ UNCHANGED <<channel, reader, tearing, uncompleted, sock, up, down>>

\* The write fails when the daemon has hung up, and when the frame is too large.
WriteRequest(c) ==
  /\ at[c] = "write"
  /\ \/ /\ sock = "open" /\ at' = [at EXCEPT ![c] = "wait"]
        /\ up' = Append(up, [id |-> id[c], call |-> c])
     \/ at' = [at EXCEPT ![c] = "forget"] /\ UNCHANGED up
  /\ UNCHANGED <<id, nextID, pending, channel, result, reader, tearing, uncompleted, sock,
                 down>>

\* The select: the response, or that the connection is gone (c.done is closed).
Receive(c) ==
  /\ at[c] = "wait" /\ channel[c] # <<>>
  /\ Return(c, Head(channel[c])) /\ channel' = [channel EXCEPT ![c] = Tail(@)]
  /\ UNCHANGED <<id, nextID, pending, reader, tearing, uncompleted, sock, up, down>>

SeeDone(c) ==
  /\ at[c] = "wait" /\ tearing = "complete"
  /\ Return(c, Failed)
  /\ UNCHANGED <<id, nextID, pending, channel, reader, tearing, uncompleted, sock, up,
                 down>>

\* The third case of the select: the caller's context ends.
Abandon(c) ==
  /\ at[c] = "wait"
  /\ at' = [at EXCEPT ![c] = "forget"]
  /\ UNCHANGED <<id, nextID, pending, channel, result, reader, tearing, uncompleted, sock,
                 up, down>>

Forget(c) ==
  /\ at[c] = "forget"
  /\ Return(c, Failed) /\ pending' = [pending EXCEPT ![id[c]] = None]
  /\ UNCHANGED <<id, nextID, channel, reader, tearing, uncompleted, sock, up, down>>

SendStep(c) == WriteRequest(c) \/ Receive(c) \/ SeeDone(c) \/ Forget(c)
-----------------------------------------------------------------------------
(* read and fail.                                                           *)

\* A frame arrives; its channel leaves c.pending and takes it.  A response to a call that
\* gave up has none, and is dropped.
ReadResponse ==
  /\ reader = "reading" /\ sock # "closed" /\ down # <<>> /\ down' = Tail(down)
  /\ LET r == Head(down)
         owner == pending[r.id]
     IN /\ pending' = [pending EXCEPT ![r.id] = None]
        /\ IF owner = None THEN UNCHANGED channel
           ELSE channel[owner] = <<>> /\ channel' = [channel EXCEPT ![owner] = <<r.answer>>]
  /\ UNCHANGED <<at, id, nextID, result, reader, tearing, uncompleted, sock, up>>

\* fail, its critical section; whoever comes second does nothing.
Fail ==
  IF tearing # "no"
  THEN UNCHANGED <<pending, tearing, uncompleted>>
  ELSE /\ tearing' = "hangup"
       /\ uncompleted' = {pending[i] : i \in Id} \ {None}
       /\ pending' = [i \in Id |-> None]

ReadFails ==
  /\ reader = "reading"
  /\ sock = "closed" \/ (sock = "hungup" /\ down = <<>>)
  /\ reader' = "gone" /\ Fail
  /\ UNCHANGED <<at, id, nextID, channel, result, sock, up, down>>

Close ==
  /\ tearing = "no" /\ Fail
  /\ UNCHANGED <<at, id, nextID, channel, result, reader, sock, up, down>>

\* Mutant: fail returns when the socket it closes is closed already.
HangUpReturns ==
  /\ tearing = "hangup"
  /\ sock' = "closed"
  /\ tearing' = IF sock = "hungup" THEN "returned" ELSE "complete"
  /\ UNCHANGED <<at, id, nextID, pending, channel, result, reader, uncompleted, up, down>>

\* codec.Close and close(c.done); who sees only the one behaves as if it had not.
HangUp ==
  /\ tearing = "hangup"
  /\ sock' = "closed" /\ tearing' = "complete"
  /\ UNCHANGED <<at, id, nextID, pending, channel, result, reader, uncompleted, up, down>>

Complete(c) ==
  /\ tearing = "complete" /\ c \in uncompleted /\ channel[c] = <<>>
  /\ channel' = [channel EXCEPT ![c] = <<Failed>>] /\ uncompleted' = uncompleted \ {c}
  /\ UNCHANGED <<at, id, nextID, pending, result, reader, tearing, sock, up, down>>

ReaderStep == ReadResponse \/ ReadFails
FailStep == HangUp \/ \E c \in Call : Complete(c)
-----------------------------------------------------------------------------
ClientTypeOK ==
  /\ at \in [Call -> {"idle", "write", "wait", "forget", "returned"}]
  /\ id \in [Call -> {0} \cup Id] /\ nextID \in {0} \cup Id
  /\ pending \in [Id -> Call \cup {None}]
  /\ channel \in [Call -> {<<>>} \cup {<<a>> : a \in Answer}]
  /\ result \in [Call -> Answer \cup {None}]
  /\ reader \in {"reading", "gone"}
  /\ tearing \in {"no", "hangup", "complete"} /\ uncompleted \subseteq Call
  /\ sock \in {"open", "hungup", "closed"}

\* No entry of c.pending outlives its call, and whoever has taken a channel out of it,
\* the reader or fail, is the only one to send on it: the one place it has is free, and
\* the sender, which the whole connection waits for, does not block.
SlotsAreOwned ==
  /\ \A i \in Id : pending[i] # None => id[pending[i]] = i
                                        /\ at[pending[i]] \in {"write", "wait", "forget"}
  /\ \A c \in Call : (\E i \in Id : pending[i] = c) => channel[c] = <<>>
  /\ \A c \in uncompleted : channel[c] = <<>>
=============================================================================
