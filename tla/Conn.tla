-------------------------------- MODULE Conn --------------------------------
(***************************************************************************)
(* One peering with a language server (lsp/conn.go, lsp/wire/frame.go)     *)
(* and the server at the other end of its pipes (external).  The calls of  *)
(* the handlers, the notifications they send first and the replies that    *)
(* the reader writes to the server's own requests share one write lock; a  *)
(* pipe holds PipeSize frames, and who writes to a full one waits, with    *)
(* the lock.                                                               *)
(*                                                                         *)
(* The call of conn that serves call c of the client is called c as well,  *)
(* and asks about c.                                                       *)
(***************************************************************************)
EXTENDS Calls

CONSTANTS
  Reader,            \* the reader goroutine as a holder of the write lock
  Opening,           \* calls whose handler sends a didOpen or didChange first
  PipeSize,          \* frames that a pipe holds
  ReadsWhileWriting  \* does the server read its input while it writes?

ASSUME ConnAssumption ==
  /\ Reader \notin Call \cup {None} /\ Opening \subseteq Call
  /\ PipeSize \in Nat \ {0} /\ ReadsWhileWriting \in BOOLEAN

VARIABLES
  asking,     \* call -> where its conn.call is
  key,        \* call -> its id on this connection, 0 before it has one
  nextKey,
  waiting,    \* c.pending: key -> the call whose channel it is, or None
  slot,       \* call -> its channel
  found,      \* call -> what conn.call returns, or None
  framer,     \* who holds the Framer's mutex, or None
  peer,       \* where the reader is
  shut,       \* "no", "marked" (c.closed), "done" (c.done is closed)
  stdin, stdout,
  server,     \* "alive" or "dead"
  working,    \* the requests the server has read and not answered
  sending,    \* the frame the server is writing, or None
  asked       \* the server waits for the reply to a request of its own

callVars   == <<asking, key, nextKey, slot, found>>
serverVars == <<server, working, sending, asked>>
connVars   == <<callVars, waiting, framer, peer, shut, stdin, stdout, serverVars>>

Frame(kind, k, c) == [kind |-> kind, key |-> k, call |-> c]

ConnInit ==
  /\ asking = [c \in Call |-> "idle"] /\ key = [c \in Call |-> 0] /\ nextKey = 0
  /\ waiting = [k \in Id |-> None] /\ slot = [c \in Call |-> <<>>]
  /\ found = [c \in Call |-> None]
  /\ framer = None /\ peer = "reading" /\ shut = "no"
  /\ stdin = <<>> /\ stdout = <<>>
  /\ server = "alive" /\ working = {} /\ sending = None /\ asked = FALSE

Go(c, point) == asking' = [asking EXCEPT ![c] = point]
Find(c, r) == found' = [found EXCEPT ![c] = r]
-----------------------------------------------------------------------------
(* notify and call.                                                         *)

\* notify looks whether the connection is closed before it writes.
Notify(c) ==
  /\ asking[c] = "idle" /\ c \in Opening
  /\ IF shut = "no" THEN Go(c, "lock") /\ UNCHANGED found
     ELSE Go(c, "returned") /\ Find(c, Failed)
  /\ UNCHANGED <<key, nextKey, slot, waiting, framer, peer, shut, stdin, stdout, serverVars>>

\* The critical section of call that takes an id and a place in c.pending.
Register(c) ==
  /\ asking[c] = IF c \in Opening THEN "notified" ELSE "idle"
  /\ IF shut = "no"
     THEN /\ Go(c, "lock") /\ key' = [key EXCEPT ![c] = nextKey + 1] /\ nextKey' = nextKey + 1
          /\ waiting' = [waiting EXCEPT ![nextKey + 1] = c]
          /\ UNCHANGED found
     ELSE Go(c, "returned") /\ Find(c, Failed) /\ UNCHANGED <<key, nextKey, waiting>>
  /\ UNCHANGED <<slot, framer, peer, shut, stdin, stdout, serverVars>>

LockFramer(c) ==
  /\ asking[c] = "lock" /\ framer = None
  /\ framer' = c /\ Go(c, "write")
  /\ UNCHANGED <<key, nextKey, slot, found, waiting, peer, shut, stdin, stdout, serverVars>>

\* The write ends when the pipe takes the frame, or when nobody reads it any more.
WriteFrame(c) ==
  /\ framer = c /\ framer' = None
  /\ LET notice == key[c] = 0
     IN \/ /\ server = "alive" /\ Len(stdin) < PipeSize
           /\ stdin' = Append(stdin, IF notice THEN Frame("notice", 0, None)
                                     ELSE Frame("request", key[c], c))
           /\ Go(c, IF notice THEN "notified" ELSE "wait") /\ UNCHANGED found
        \/ /\ server = "dead"
           /\ Go(c, IF notice THEN "returned" ELSE "forget") /\ Find(c, Failed)
           /\ UNCHANGED stdin
  /\ UNCHANGED <<key, nextKey, slot, waiting, peer, shut, stdout, serverVars>>

\* The select of call: the response, or the end of the connection.
TakeAnswer(c) ==
  /\ asking[c] = "wait"
  /\ \/ /\ slot[c] # <<>> /\ Find(c, Head(slot[c]))
        /\ slot' = [slot EXCEPT ![c] = <<>>]
     \/ shut = "done" /\ Find(c, Failed) /\ UNCHANGED slot
  /\ Go(c, "forget")
  /\ UNCHANGED <<key, nextKey, waiting, framer, peer, shut, stdin, stdout, serverVars>>

\* Or the end of the handler's context.
TimeOut(c) ==
  /\ asking[c] = "wait"
  /\ Find(c, Failed) /\ Go(c, "forget")
  /\ UNCHANGED <<key, nextKey, slot, waiting, framer, peer, shut, stdin, stdout, serverVars>>

\* Mutant: the slot of a call that gave up stays.
LeaveSlot(c) ==
  /\ asking[c] = "forget"
  /\ Go(c, "returned")
  /\ UNCHANGED <<key, nextKey, slot, found, waiting, framer, peer, shut, stdin, stdout,
                 serverVars>>

\* "Whatever happens, this request's slot goes away."
DropSlot(c) ==
  /\ asking[c] = "forget"
  /\ Go(c, "returned") /\ waiting' = [waiting EXCEPT ![key[c]] = None]
  /\ UNCHANGED <<key, nextKey, slot, found, framer, peer, shut, stdin, stdout, serverVars>>

CallStep(c) == LockFramer(c) \/ WriteFrame(c) \/ TakeAnswer(c) \/ DropSlot(c)
-----------------------------------------------------------------------------
(* read and close.                                                          *)

\* deliver takes the channel of a response out of c.pending and sends on it; a request of
\* the server is answered here; a notification is dispatched, which does not block.
ReadFrame ==
  /\ peer = "reading" /\ stdout # <<>> /\ stdout' = Tail(stdout)
  /\ LET m == Head(stdout)
     IN \/ /\ m.kind = "response" /\ waiting' = [waiting EXCEPT ![m.key] = None]
           /\ LET owner == waiting[m.key]
              IN IF owner = None THEN UNCHANGED slot
                 ELSE slot[owner] = <<>> /\ slot' = [slot EXCEPT ![owner] = <<m.call>>]
           /\ UNCHANGED peer
        \/ m.kind = "request" /\ peer' = "lock" /\ UNCHANGED <<slot, waiting>>
        \/ m.kind = "notification" /\ UNCHANGED <<peer, slot, waiting>>
  /\ UNCHANGED <<asking, key, nextKey, found, framer, shut, stdin, serverVars>>

LockReply ==
  /\ peer = "lock" /\ framer = None
  /\ framer' = Reader /\ peer' = "reply"
  /\ UNCHANGED <<callVars, waiting, shut, stdin, stdout, serverVars>>

\* A reply that cannot be written is dropped.
WriteReply ==
  /\ peer = "reply"
  /\ \/ /\ server = "alive" /\ Len(stdin) < PipeSize
        /\ stdin' = Append(stdin, Frame("reply", 0, None))
     \/ server = "dead" /\ UNCHANGED stdin
  /\ framer' = None /\ peer' = "reading"
  /\ UNCHANGED <<callVars, waiting, shut, stdout, serverVars>>

\* close, its critical section; whoever comes second does nothing.
MarkClosed ==
  IF shut # "no" THEN UNCHANGED <<shut, waiting>>
  ELSE shut' = "marked" /\ waiting' = [k \in Id |-> None]

\* The stream ends, or (damaged) a frame cannot be read.
ReadError(damaged) ==
  /\ peer = "reading" /\ (damaged \/ (server = "dead" /\ stdout = <<>>))
  /\ peer' = "gone" /\ MarkClosed
  /\ UNCHANGED <<callVars, framer, stdin, stdout, serverVars>>

\* The supervisor closes the connection: a failed start, a stop.
CloseConn ==
  /\ shut = "no" /\ MarkClosed
  /\ UNCHANGED <<callVars, framer, peer, stdin, stdout, serverVars>>

\* What the process has read and not written goes with it.
ServerEnds ==
  /\ server' = "dead" /\ stdin' = <<>> /\ working' = {} /\ sending' = None /\ asked' = FALSE

\* close(c.done) and the callback, which kills the process.
SignalClosed ==
  /\ shut = "marked" /\ shut' = "done" /\ ServerEnds
  /\ UNCHANGED <<callVars, waiting, framer, peer, stdout>>

PeerStep == ReadFrame \/ LockReply \/ WriteReply \/ ReadError(FALSE)
-----------------------------------------------------------------------------
(* The language server (external).  It answers in any order, or never;      *)
(* while it waits for the reply to a request of its own it answers nothing. *)

ServerReads ==
  /\ server = "alive" /\ stdin # <<>> /\ (sending = None \/ ReadsWhileWriting)
  /\ stdin' = Tail(stdin)
  /\ LET m == Head(stdin)
     IN /\ working' = IF m.kind = "request" THEN working \cup {m} ELSE working
        /\ asked' = (asked /\ m.kind # "reply")
  /\ UNCHANGED <<callVars, waiting, framer, peer, shut, stdout, server, sending>>

ServerAnswers(m) ==
  /\ server = "alive" /\ sending = None /\ ~asked /\ m \in working
  /\ sending' = Frame("response", m.key, m.call) /\ working' = working \ {m}
  /\ UNCHANGED <<callVars, waiting, framer, peer, shut, stdin, stdout, server, asked>>

ServerPushes(kind) ==
  /\ server = "alive" /\ sending = None
  /\ kind = "request" => ~asked
  /\ sending' = Frame(kind, 0, None)
  /\ asked' = (asked \/ kind = "request")
  /\ UNCHANGED <<callVars, waiting, framer, peer, shut, stdin, stdout, server, working>>

ServerWrites ==
  /\ server = "alive" /\ sending # None /\ Len(stdout) < PipeSize
  /\ stdout' = Append(stdout, sending) /\ sending' = None
  /\ UNCHANGED <<callVars, waiting, framer, peer, shut, stdin, server, working, asked>>

ServerDies ==
  /\ server = "alive" /\ ServerEnds
  /\ UNCHANGED <<callVars, waiting, framer, peer, shut, stdout>>
-----------------------------------------------------------------------------
ConnTypeOK ==
  /\ asking \in [Call -> {"idle", "lock", "write", "notified", "wait", "forget", "returned"}]
  /\ key \in [Call -> {0} \cup Id] /\ nextKey \in {0} \cup Id
  /\ waiting \in [Id -> Call \cup {None}]
  /\ slot \in [Call -> {<<>>} \cup {<<c>> : c \in Call}]
  /\ found \in [Call -> Answer \cup {None}]
  /\ framer \in Call \cup {Reader, None}
  /\ peer \in {"reading", "lock", "reply", "gone"}
  /\ shut \in {"no", "marked", "done"} /\ server \in {"alive", "dead"}
  /\ {Len(stdin), Len(stdout)} \subseteq 0..PipeSize
  /\ asked \in BOOLEAN

\* As at the other end: no slot outlives its call, a channel that a response is sent on
\* is free, and the write lock belongs to who is writing.
QueriesAreOwned ==
  /\ \A k \in Id : waiting[k] # None =>
       /\ key[waiting[k]] = k /\ asking[waiting[k]] \in {"lock", "write", "wait", "forget"}
       /\ slot[waiting[k]] = <<>>
  /\ \A c \in Call : framer = c <=> asking[c] = "write"
  /\ framer = Reader <=> peer = "reply"

\* The reader waits for a write to a full pipe, by a call or its own, of a server that
\* waits for the reader.
Jammed ==
  /\ peer \in {"lock", "reply"} /\ framer # None /\ Len(stdin) = PipeSize
  /\ sending # None /\ Len(stdout) = PipeSize /\ server = "alive" /\ ~ReadsWhileWriting

\* "Every answer is canned and tiny, so replying inline on the reader goroutine cannot
\* deadlock on pipe backpressure."
RepliesCannotDeadlock == ~Jammed
=============================================================================
