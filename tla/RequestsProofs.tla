--------------------------- MODULE RequestsProofs ---------------------------
(***************************************************************************)
(* Proofs about Requests, for any number of calls, events and frames in a  *)
(* pipe, and for both kinds of language server.                            *)
(***************************************************************************)
EXTENDS Requests, FiniteSetTheorems, SequenceTheorems, TLAPS

USE CallAssumption DEF CallAssumption
USE ConnAssumption DEF ConnAssumption

(* The inductive strengthening, one part per relation the code maintains.   *)

\* Ids of the client: fresh, its own for each call, and as many as calls have one.
ClientNumbers ==
  /\ nextID = Cardinality({c \in Call : id[c] # 0})
  /\ \A c \in Call : id[c] <= nextID
  /\ \A c, d \in Call : id[c] = id[d] /\ id[c] # 0 => c = d
  /\ \A c \in Call : at[c] = "idle" => id[c] = 0
  /\ \A c \in Call : at[c] \in {"write", "wait", "forget"} => id[c] # 0

\* After fail the table is empty, and before it nobody waits to be completed; who has no
\* id was never handed an answer.
Teardown ==
  /\ tearing # "no" => \A i \in Id : pending[i] = None
  /\ tearing = "no" => uncompleted = {}
  /\ \A c \in Call : id[c] = 0 => channel[c] = <<>>
  /\ \A c \in uncompleted : id[c] # 0

\* Every frame on the socket has the id of the call that it asks or answers.
UpFrames == {f \in [id : Id, call : Call] : id[f.call] = f.id}
DownFrames == {f \in [id : Id, answer : Answer] :
                 \E c \in Call : id[c] = f.id /\ f.answer \in {c, Failed}}

SocketTrue == up \in Seq(UpFrames) /\ down \in Seq(DownFrames)

ChannelsTrue ==
  \A c \in Call : /\ channel[c] \in {<<>>, <<c>>, <<Failed>>}
                  /\ result[c] \in {c, Failed, None}

ClientIInv ==
  /\ ClientTypeOK /\ SlotsAreOwned
  /\ ClientNumbers /\ Teardown /\ SocketTrue /\ ChannelsTrue

\* Ids of the connection to the server, likewise.
ConnNumbers ==
  /\ nextKey = Cardinality({c \in Call : key[c] # 0})
  /\ \A c \in Call : key[c] <= nextKey
  /\ \A c, d \in Call : key[c] = key[d] /\ key[c] # 0 => c = d
  /\ \A c \in Call : asking[c] \in {"idle", "notified"} => key[c] = 0
  /\ \A c \in Call : asking[c] \in {"wait", "forget"} => key[c] # 0

Closing ==
  /\ shut # "no" => \A k \in Id : waiting[k] = None
  /\ \A c \in Call : key[c] = 0 => slot[c] = <<>>

\* Every frame in the pipes and in the server has the id of the call it asks or answers.
Frames == [kind : {"notice", "request", "reply", "response", "notification"},
           key : {0} \cup Id, call : Call \cup {None}]
Own(m) == m.call \in Call /\ key[m.call] = m.key /\ m.key # 0
ToServer == {m \in Frames : m.kind = "request" => Own(m)}
FromServer == {m \in Frames : m.kind = "response" => Own(m)}

PipesTrue ==
  /\ stdin \in Seq(ToServer) /\ stdout \in Seq(FromServer)
  /\ working \subseteq {m \in Frames : Own(m)}
  /\ sending \in FromServer \cup {None}

FoundTrue ==
  \A c \in Call : /\ slot[c] \in {<<>>, <<c>>}
                  /\ found[c] \in {c, Failed, None}
                  /\ asking[c] \in {"forget", "returned"} => found[c] # None

ConnIInv ==
  /\ ConnTypeOK /\ QueriesAreOwned
  /\ ConnNumbers /\ Closing /\ PipesTrue /\ FoundTrue

\* A handler answers under the id of its request.
HandlersTrue ==
  \A c \in Call : handling[c] # "none" => handled[c] = id[c] /\ id[c] # 0

HandlersTypeOK ==
  /\ handling \in [Call -> {"none", "running", "done"}]
  /\ handled \in [Call -> {0} \cup Id]

IInv == ClientIInv /\ ConnIInv /\ HandlersTypeOK /\ HandlersTrue
-----------------------------------------------------------------------------
(* What the steps have in common.                                           *)

\* A call that takes the next number leaves no gap, and there is a number for it.
LEMMA NumberTaken ==
  ASSUME NEW f \in [Call -> {0} \cup Id], NEW c \in Call, f[c] = 0,
         NEW n, n = Cardinality({d \in Call : f[d] # 0})
  PROVE  LET g == [f EXCEPT ![c] = n + 1]
         IN n \in Nat /\ n + 1 \in Id /\ Cardinality({d \in Call : g[d] # 0}) = n + 1
<1> DEFINE T == {d \in Call : f[d] # 0}
<1> DEFINE g == [f EXCEPT ![c] = n + 1]
<1>1. IsFiniteSet(T) /\ n \in Nat
  BY FS_Subset, FS_CardinalityType
<1>2. Cardinality(T \cup {c}) = n + 1
  BY <1>1, FS_AddElement
<1>3. Cardinality(T \cup {c}) <= Cardinality(Call) /\ Cardinality(Call) \in Nat
  BY FS_Subset, FS_CardinalityType
<1>4. \A d \in Call : g[d] # 0 <=> d \in T \cup {c}
  <2>1. n + 1 # 0
    BY <1>1
  <2>2. QED
    BY <2>1
<1>5. {d \in Call : g[d] # 0} = T \cup {c}
  BY <1>4, Zenon
<1>6. n + 1 \in Id
  BY <1>1, <1>2, <1>3 DEF Id
<1>7. QED
  BY <1>1, <1>2, <1>5, <1>6, Zenon

LEMMA IdsAreNumbers == \A i \in Id : i \in Nat /\ i # 0
  BY FS_CardinalityType DEF Id

\* Channels have one place.
LEMMA Singles == \A x : Head(<<x>>) = x /\ Tail(<<x>>) = <<>> /\ <<x>> # <<>>
  OBVIOUS

\* As long as no id is given the frames on the socket stay true.
LEMMA SocketKept ==
  ASSUME SocketTrue, UNCHANGED id
  PROVE  /\ UpFrames' = UpFrames /\ DownFrames' = DownFrames
         /\ UNCHANGED up => (up \in Seq(UpFrames))'
         /\ UNCHANGED down => (down \in Seq(DownFrames))'
<1>1. UpFrames' = UpFrames /\ DownFrames' = DownFrames
  BY DEF UpFrames, DownFrames
<1>2. QED
  BY <1>1 DEF SocketTrue

LEMMA ClientUnchanged ==
  ASSUME ClientIInv, UNCHANGED clientVars
  PROVE  ClientIInv'
<1> USE DEF ClientIInv, clientVars
<1>1. ClientTypeOK' /\ SlotsAreOwned'
  BY DEF ClientTypeOK, SlotsAreOwned
<1>2. ClientNumbers' /\ Teardown' /\ ChannelsTrue'
  BY DEF ClientNumbers, Teardown, ChannelsTrue
<1>3. SocketTrue'
  BY SocketKept DEF SocketTrue
<1>4. QED
  BY <1>1, <1>2, <1>3
-----------------------------------------------------------------------------
(* The client.                                                              *)

LEMMA InitClient == ClientInit => ClientIInv
<1> SUFFICES ASSUME ClientInit PROVE ClientIInv
  OBVIOUS
<1> USE DEF ClientInit
<1>1. ClientTypeOK /\ SlotsAreOwned
  BY DEF ClientTypeOK, SlotsAreOwned, Answer
<1>2. {c \in Call : id[c] # 0} = {}
  OBVIOUS
<1>3. ClientNumbers
  <2>1. nextID = Cardinality({c \in Call : id[c] # 0})
    BY <1>2, FS_EmptySet
  <2>2. QED
    BY <2>1 DEF ClientNumbers
<1>4. Teardown /\ SocketTrue /\ ChannelsTrue
  BY DEF Teardown, SocketTrue, ChannelsTrue
<1>5. QED
  BY <1>1, <1>3, <1>4 DEF ClientIInv

\* A call takes a fresh id, or finds the client closed.
LEMMA SendKept ==
  ASSUME ClientIInv, NEW c \in Call, Send(c)
  PROVE  ClientIInv'
<1> USE DEF ClientIInv
<1>1. CASE tearing # "no"
  <2>1. /\ at' = [at EXCEPT ![c] = "returned"] /\ result' = [result EXCEPT ![c] = Failed]
        /\ UNCHANGED <<id, nextID, pending, channel, reader, tearing, uncompleted, sock, up, down>>
    BY <1>1 DEF Send, Enter, Return
  <2>2. ClientTypeOK'
    BY <2>1 DEF ClientTypeOK, Answer
  <2>3. SlotsAreOwned'
    BY <2>1, <1>1 DEF SlotsAreOwned, Teardown, ClientTypeOK
  <2>4. ClientNumbers' /\ Teardown' /\ ChannelsTrue'
    BY <2>1 DEF ClientNumbers, Teardown, ChannelsTrue, ClientTypeOK
  <2>5. SocketTrue'
    BY <2>1, SocketKept DEF SocketTrue
  <2>6. QED
    BY <2>2, <2>3, <2>4, <2>5
<1>2. CASE tearing = "no"
  <2> DEFINE i == nextID + 1
  <2>1. /\ at[c] = "idle" /\ at' = [at EXCEPT ![c] = "write"] /\ id' = [id EXCEPT ![c] = i]
        /\ nextID' = i /\ pending' = [pending EXCEPT ![i] = c]
        /\ UNCHANGED <<channel, result, reader, tearing, uncompleted, sock, up, down>>
    BY <1>2 DEF Send, Enter
  <2>2. id[c] = 0 /\ id \in [Call -> {0} \cup Id]
    BY <2>1 DEF ClientNumbers, ClientTypeOK
  <2>3. i \in Id /\ nextID \in Nat /\ i = Cardinality({d \in Call : id'[d] # 0})
    BY <2>1, <2>2, NumberTaken DEF ClientNumbers
  <2>4. ClientTypeOK'
    BY <2>1, <2>3 DEF ClientTypeOK
  <2>5. \A d \in Call : id[d] # i
    BY <2>3, <2>2, IdsAreNumbers DEF ClientNumbers
  <2>6. ClientNumbers'
    <3>1. nextID' = Cardinality({d \in Call : id'[d] # 0})
      BY <2>1, <2>3
    <3>2. \A d \in Call : id'[d] <= nextID'
      <4>1. \A d \in Call : id[d] \in {0} \cup Id /\ id[d] <= nextID
        BY <2>2 DEF ClientNumbers
      <4>2. \A d \in Call : id'[d] = id[d] \/ id'[d] = nextID + 1
        BY <2>1, <2>2
      <4>3. \A d \in Call : id[d] \in Nat
        BY <4>1, IdsAreNumbers
      <4>4. nextID \in Nat /\ nextID' = nextID + 1
        BY <2>1, <2>3
      <4>5. QED
        BY <4>1, <4>2, <4>3, <4>4
    <3>3. \A d, e \in Call : id'[d] = id'[e] /\ id'[d] # 0 => d = e
      BY <2>1, <2>2, <2>5 DEF ClientNumbers
    <3>4. \A d \in Call : /\ at'[d] = "idle" => id'[d] = 0
                          /\ at'[d] \in {"write", "wait", "forget"} => id'[d] # 0
      BY <2>1, <2>2, <2>3, IdsAreNumbers DEF ClientNumbers, ClientTypeOK
    <3>5. QED
      BY <3>1, <3>2, <3>3, <3>4 DEF ClientNumbers
  <2>7. pending[i] = None
    BY <2>3, <2>5 DEF SlotsAreOwned, ClientTypeOK
  <2>8. channel[c] = <<>> /\ c \notin uncompleted /\ \A j \in Id : pending[j] # c
    BY <2>1, <2>2, <1>2, IdsAreNumbers DEF Teardown, SlotsAreOwned
  <2>9. SlotsAreOwned'
    BY <2>1, <2>2, <2>3, <2>8 DEF SlotsAreOwned, ClientTypeOK
  <2>10. Teardown' /\ ChannelsTrue'
    BY <2>1, <2>2, <2>3, <1>2, IdsAreNumbers DEF Teardown, ChannelsTrue, ClientTypeOK
  <2>11. UpFrames \subseteq UpFrames' /\ DownFrames \subseteq DownFrames'
    BY <2>1, <2>2, IdsAreNumbers DEF UpFrames, DownFrames
  <2>12. SocketTrue'
    BY <2>1, <2>11, SeqMonotonic DEF SocketTrue
  <2>13. QED
    BY <2>4, <2>6, <2>9, <2>10, <2>12
<1>3. QED
  BY <1>1, <1>2

\* The other steps of a call.
LEMMA CallKept ==
  ASSUME ClientIInv, NEW c \in Call, SendStep(c) \/ Abandon(c)
  PROVE  ClientIInv'
<1> USE DEF ClientIInv
<1>1. CASE WriteRequest(c)
  <2> USE <1>1 DEF WriteRequest
  <2>1. ClientTypeOK' /\ SlotsAreOwned' /\ ClientNumbers'
    BY DEF ClientTypeOK, SlotsAreOwned, ClientNumbers
  <2>2. Teardown' /\ ChannelsTrue'
    BY DEF Teardown, ChannelsTrue, ClientTypeOK
  <2>3. id[c] # 0 /\ [id |-> id[c], call |-> c] \in UpFrames
    BY DEF ClientNumbers, ClientTypeOK, UpFrames
  <2>4. SocketTrue'
    BY <2>3, SocketKept DEF SocketTrue
  <2>5. QED
    BY <2>1, <2>2, <2>4
<1>2. CASE Receive(c)
  <2> USE <1>2 DEF Receive, Return
  <2>1. channel[c] \in {<<c>>, <<Failed>>} /\ Head(channel[c]) \in {c, Failed} /\ Tail(channel[c]) = <<>>
    BY Singles DEF ChannelsTrue
  <2>2. \A i \in Id : pending[i] # c
    BY DEF SlotsAreOwned
  <2>3. ClientTypeOK'
    BY <2>1 DEF ClientTypeOK, Answer
  <2>4. SlotsAreOwned' /\ ClientNumbers'
    BY <2>1, <2>2 DEF SlotsAreOwned, ClientNumbers, ClientTypeOK
  <2>5. Teardown' /\ ChannelsTrue'
    BY <2>1 DEF Teardown, ChannelsTrue, ClientTypeOK
  <2>6. SocketTrue'
    BY SocketKept DEF SocketTrue
  <2>7. QED
    BY <2>3, <2>4, <2>5, <2>6
<1>3. CASE SeeDone(c)
  <2> USE <1>3 DEF SeeDone, Return
  <2>1. \A i \in Id : pending[i] = None
    BY DEF Teardown
  <2>2. ClientTypeOK'
    BY DEF ClientTypeOK, Answer
  <2>3. SlotsAreOwned' /\ ClientNumbers'
    BY <2>1 DEF SlotsAreOwned, ClientNumbers, ClientTypeOK
  <2>4. Teardown' /\ ChannelsTrue'
    BY DEF Teardown, ChannelsTrue, ClientTypeOK
  <2>5. SocketTrue'
    BY SocketKept DEF SocketTrue
  <2>6. QED
    BY <2>2, <2>3, <2>4, <2>5
<1>4. CASE Forget(c)
  <2> USE <1>4 DEF Forget, Return
  <2>1. id[c] \in Id
    BY DEF ClientNumbers, ClientTypeOK
  <2>2. ClientTypeOK'
    BY <2>1 DEF ClientTypeOK, Answer
  <2>3. SlotsAreOwned' /\ ClientNumbers'
    BY <2>1 DEF SlotsAreOwned, ClientNumbers, ClientTypeOK
  <2>4. Teardown' /\ ChannelsTrue'
    BY <2>1 DEF Teardown, ChannelsTrue, ClientTypeOK
  <2>5. SocketTrue'
    BY SocketKept DEF SocketTrue
  <2>6. QED
    BY <2>2, <2>3, <2>4, <2>5
<1>5. CASE Abandon(c)
  <2> USE <1>5 DEF Abandon
  <2>1. ClientTypeOK' /\ SlotsAreOwned' /\ ClientNumbers'
    BY DEF ClientTypeOK, SlotsAreOwned, ClientNumbers
  <2>2. Teardown' /\ ChannelsTrue'
    BY DEF Teardown, ChannelsTrue, ClientTypeOK
  <2>3. SocketTrue'
    BY SocketKept DEF SocketTrue
  <2>4. QED
    BY <2>1, <2>2, <2>3
<1>6. QED
  BY <1>1, <1>2, <1>3, <1>4, <1>5 DEF SendStep

\* The channel of a response is found by its id, and is the channel of the call that the
\* response belongs to.
LEMMA ReadResponseKept ==
  ASSUME ClientIInv, ReadResponse
  PROVE  ClientIInv'
<1> USE DEF ClientIInv
<1> DEFINE r == Head(down)
           owner == pending[r.id]
<1>1. /\ down # <<>> /\ down' = Tail(down) /\ pending' = [pending EXCEPT ![r.id] = None]
      /\ IF owner = None THEN UNCHANGED channel
         ELSE channel[owner] = <<>> /\ channel' = [channel EXCEPT ![owner] = <<r.answer>>]
      /\ UNCHANGED <<at, id, nextID, result, reader, tearing, uncompleted, sock, up>>
  BY DEF ReadResponse
<1>2. r \in DownFrames /\ down' \in Seq(DownFrames)
  BY <1>1 DEF SocketTrue
<1>3. r.id \in Id /\ r.answer \in Answer
  BY <1>2 DEF DownFrames
<1>4. PICK a \in Call : id[a] = r.id /\ r.answer \in {a, Failed}
  BY <1>2 DEF DownFrames
<1>5. owner # None => owner = a /\ owner \in Call
  BY <1>3, <1>4, IdsAreNumbers DEF SlotsAreOwned, ClientNumbers, ClientTypeOK
<1>6. \A i \in Id : pending[i] = owner /\ owner # None => i = r.id
  BY <1>3, <1>4, <1>5 DEF SlotsAreOwned
<1>7. ClientTypeOK'
  <2>1. pending' \in [Id -> Call \cup {None}]
    BY <1>1, <1>3 DEF ClientTypeOK
  <2>2. channel' \in [Call -> {<<>>} \cup {<<x>> : x \in Answer}]
    <3>1. CASE owner = None
      BY <1>1, <3>1 DEF ClientTypeOK
    <3>2. CASE owner # None
      <4>1. channel' = [channel EXCEPT ![owner] = <<r.answer>>] /\ owner \in Call
        BY <1>1, <1>5, <3>2, Zenon
      <4>2. <<r.answer>> \in {<<x>> : x \in Answer}
        BY <1>3, Zenon
      <4>3. channel \in [Call -> {<<>>} \cup {<<x>> : x \in Answer}]
        BY DEF ClientTypeOK
      <4>4. QED
        BY <4>1, <4>2, <4>3, Zenon
    <3>3. QED
      BY <3>1, <3>2
  <2>3. QED
    BY <1>1, <2>1, <2>2 DEF ClientTypeOK
<1>8. \A i \in Id : pending'[i] # None => pending'[i] = pending[i] /\ i # r.id
  BY <1>1, <1>3 DEF ClientTypeOK
<1>9. \A c \in Call : channel'[c] # channel[c] => c = owner /\ owner # None
  BY <1>1 DEF ClientTypeOK
<1>10. SlotsAreOwned'
  <2>1. \A i \in Id : pending'[i] # None => id'[pending'[i]] = i
                                        /\ at'[pending'[i]] \in {"write", "wait", "forget"}
    BY <1>1, <1>8 DEF SlotsAreOwned
  <2>2. \A c \in Call : (\E i \in Id : pending'[i] = c) => channel'[c] = <<>>
    BY <1>6, <1>8, <1>9 DEF SlotsAreOwned
  <2>3. owner # None => tearing = "no"
    BY <1>3 DEF Teardown
  <2>4. \A c \in uncompleted' : channel'[c] = <<>>
    BY <1>1, <1>9, <2>3 DEF SlotsAreOwned, Teardown, ClientTypeOK
  <2>5. QED
    BY <2>1, <2>2, <2>4 DEF SlotsAreOwned
<1>11. ClientNumbers'
  BY <1>1 DEF ClientNumbers
<1>12. Teardown'
  <2>1. (\A i \in Id : pending[i] = None) => \A i \in Id : pending'[i] = None
    BY <1>8
  <2>2. \A c \in Call : id'[c] = 0 => channel'[c] = <<>>
    BY <1>1, <1>3, <1>4, <1>5, <1>9, IdsAreNumbers DEF Teardown
  <2>3. QED
    BY <1>1, <2>1, <2>2 DEF Teardown
<1>13. ChannelsTrue'
  <2>1. ASSUME NEW c \in Call PROVE channel'[c] \in {<<>>, <<c>>, <<Failed>>}
    <3>1. CASE c = owner /\ owner # None
      <4>1. channel' = [channel EXCEPT ![owner] = <<r.answer>>] /\ owner = a
        BY <1>1, <1>5, <3>1, Zenon
      <4>2. channel'[owner] = <<r.answer>>
        BY <4>1, <1>5, <3>1 DEF ClientTypeOK
      <4>3. QED
        BY <4>1, <4>2, <3>1, <1>4
    <3>2. CASE ~(c = owner /\ owner # None)
      BY <1>9, <3>2 DEF ChannelsTrue
    <3>3. QED
      BY <3>1, <3>2
  <2>2. QED
    BY <1>1, <2>1 DEF ChannelsTrue
<1>14. SocketTrue'
  BY <1>1, <1>2, SocketKept DEF SocketTrue
<1>15. QED
  BY <1>7, <1>10, <1>11, <1>12, <1>13, <1>14

\* Who takes the table to complete its calls leaves an empty one.
LEMMA FailKept ==
  ASSUME ClientIInv, Fail, reader' \in {"reading", "gone"},
         UNCHANGED <<at, id, nextID, channel, result, sock, up, down>>
  PROVE  ClientIInv'
<1> USE DEF ClientIInv
<1>1. CASE tearing # "no"
  <2>1. UNCHANGED <<at, id, nextID, channel, result, sock, up, down, pending, tearing, uncompleted>>
    BY <1>1 DEF Fail
  <2>2. ClientTypeOK' /\ SlotsAreOwned'
    BY <2>1 DEF ClientTypeOK, SlotsAreOwned
  <2>3. ClientNumbers' /\ Teardown' /\ ChannelsTrue'
    BY <2>1 DEF ClientNumbers, Teardown, ChannelsTrue
  <2>4. SocketTrue'
    BY <2>1, SocketKept DEF SocketTrue
  <2>5. QED
    BY <2>2, <2>3, <2>4
<1>2. CASE tearing = "no"
  <2>1. /\ tearing' = "hangup" /\ uncompleted' = {pending[i] : i \in Id} \ {None}
        /\ pending' = [i \in Id |-> None]
    BY <1>2 DEF Fail
  <2>2. \A c \in uncompleted' : c \in Call /\ \E i \in Id : pending[i] = c
    BY <2>1 DEF ClientTypeOK
  <2>3. ClientTypeOK'
    BY <2>1, <2>2 DEF ClientTypeOK
  <2>4. SlotsAreOwned'
    BY <2>1, <2>2 DEF SlotsAreOwned
  <2>5. \A c \in uncompleted' : id'[c] # 0
    BY <2>2, IdsAreNumbers DEF SlotsAreOwned
  <2>6. ClientNumbers' /\ Teardown' /\ ChannelsTrue'
    BY <2>1, <2>5 DEF ClientNumbers, Teardown, ChannelsTrue
  <2>7. SocketTrue'
    BY SocketKept DEF SocketTrue
  <2>8. QED
    BY <2>3, <2>4, <2>6, <2>7
<1>3. QED
  BY <1>1, <1>2

LEMMA FailStepKept ==
  ASSUME ClientIInv, FailStep
  PROVE  ClientIInv'
<1> USE DEF ClientIInv
<1>1. CASE HangUp
  <2> USE <1>1 DEF HangUp
  <2>1. ClientTypeOK' /\ SlotsAreOwned'
    BY DEF ClientTypeOK, SlotsAreOwned
  <2>2. ClientNumbers' /\ Teardown' /\ ChannelsTrue'
    BY DEF ClientNumbers, Teardown, ChannelsTrue
  <2>3. SocketTrue'
    BY SocketKept DEF SocketTrue
  <2>4. QED
    BY <2>1, <2>2, <2>3
<1>2. ASSUME NEW c \in Call, Complete(c) PROVE ClientIInv'
  <2> USE <1>2 DEF Complete
  <2>1. \A i \in Id : pending[i] = None
    BY DEF Teardown
  <2>2. ClientTypeOK' /\ SlotsAreOwned'
    BY <2>1 DEF ClientTypeOK, SlotsAreOwned, Answer
  <2>3. ClientNumbers' /\ Teardown' /\ ChannelsTrue'
    BY DEF ClientNumbers, Teardown, ChannelsTrue, ClientTypeOK
  <2>4. SocketTrue'
    BY SocketKept DEF SocketTrue
  <2>5. QED
    BY <2>2, <2>3, <2>4
<1>3. QED
  BY <1>1, <1>2 DEF FailStep

LEMMA ClientStepKept ==
  ASSUME ClientIInv,
         \/ \E c \in Call : Send(c) \/ SendStep(c) \/ Abandon(c)
         \/ ReaderStep \/ FailStep \/ Close
  PROVE  ClientIInv'
<1>1. ASSUME ReadFails PROVE ClientIInv'
  BY <1>1, FailKept DEF ReadFails
<1>2. ASSUME Close PROVE ClientIInv'
  <2>1. reader \in {"reading", "gone"}
    BY DEF ClientIInv, ClientTypeOK
  <2>2. QED
    BY <1>2, <2>1, FailKept DEF Close
<1>3. QED
  BY <1>1, <1>2, SendKept, CallKept, ReadResponseKept, FailStepKept DEF ReaderStep

\* The socket's other end: frames are taken from it, and true ones put on it.
LEMMA DaemonEndKept ==
  ASSUME ClientIInv, up' \in {up, <<>>} \/ (up # <<>> /\ up' = Tail(up)),
         down' = down \/ \E f \in DownFrames : down' = Append(down, f),
         sock' \in {sock, "hungup"},
         UNCHANGED <<at, id, nextID, pending, channel, result, reader, tearing, uncompleted>>
  PROVE  ClientIInv'
<1> USE DEF ClientIInv
<1>1. ClientTypeOK' /\ SlotsAreOwned'
  BY DEF ClientTypeOK, SlotsAreOwned
<1>2. ClientNumbers' /\ Teardown' /\ ChannelsTrue'
  BY DEF ClientNumbers, Teardown, ChannelsTrue
<1>3. UpFrames' = UpFrames /\ DownFrames' = DownFrames
  BY SocketKept
<1>4. up' \in Seq(UpFrames)
  <2>1. CASE up # <<>> /\ up' = Tail(up)
    BY <2>1 DEF SocketTrue
  <2>2. CASE up' = up
    BY <2>2 DEF SocketTrue
  <2>3. CASE up' = <<>>
    BY <2>3
  <2>4. QED
    BY <2>1, <2>2, <2>3
<1>5. down' \in Seq(DownFrames)
  BY DEF SocketTrue
<1>6. QED
  BY <1>1, <1>2, <1>3, <1>4, <1>5 DEF SocketTrue
-----------------------------------------------------------------------------
(* The connection to the language server.                                   *)

\* A pipe with room takes a frame, and gives the first one out.
LEMMA PutOnPipe ==
  ASSUME NEW S, NEW p \in Seq(S), NEW f \in S, Len(p) < PipeSize
  PROVE  Append(p, f) \in Seq(S) /\ Len(Append(p, f)) \in 0..PipeSize
<1>1. Len(p) \in Nat /\ Append(p, f) \in Seq(S) /\ Len(Append(p, f)) = Len(p) + 1
  OBVIOUS
<1>2. QED
  BY <1>1

LEMMA TakeFromPipe ==
  ASSUME NEW S, NEW p \in Seq(S), p # <<>>
  PROVE  /\ Head(p) \in S /\ Tail(p) \in Seq(S)
         /\ Len(p) \in 0..PipeSize => Len(Tail(p)) \in 0..PipeSize
<1>1. Len(p) \in Nat \ {0} /\ Head(p) \in S /\ Tail(p) \in Seq(S) /\ Len(Tail(p)) = Len(p) - 1
  OBVIOUS
<1>2. QED
  BY <1>1

\* As long as no id is given the frames in the pipes and in the server stay true.
LEMMA PipesKept ==
  ASSUME UNCHANGED key
  PROVE  /\ ToServer' = ToServer /\ FromServer' = FromServer
         /\ \A m : Own(m)' <=> Own(m)
         /\ PipesTrue /\ UNCHANGED <<stdin, stdout, working, sending>> => PipesTrue'
<1>1. \A m : Own(m)' <=> Own(m)
  BY DEF Own
<1>2. ToServer' = ToServer /\ FromServer' = FromServer
  BY <1>1 DEF ToServer, FromServer
<1>3. {m \in Frames : Own(m)}' = {m \in Frames : Own(m)}
  BY <1>1
<1>4. QED
  BY <1>1, <1>2, <1>3 DEF PipesTrue

LEMMA ConnUnchanged ==
  ASSUME ConnIInv, UNCHANGED connVars
  PROVE  ConnIInv'
<1> USE DEF ConnIInv, connVars, callVars, serverVars
<1>1. ConnTypeOK' /\ QueriesAreOwned'
  BY DEF ConnTypeOK, QueriesAreOwned
<1>2. ConnNumbers' /\ Closing' /\ FoundTrue'
  BY DEF ConnNumbers, Closing, FoundTrue
<1>3. PipesTrue'
  BY PipesKept
<1>4. QED
  BY <1>1, <1>2, <1>3

LEMMA InitConn == ConnInit => ConnIInv
<1> SUFFICES ASSUME ConnInit PROVE ConnIInv
  OBVIOUS
<1> USE DEF ConnInit
<1>1. ConnTypeOK /\ QueriesAreOwned
  <2>1. Len(stdin) = 0 /\ Len(stdout) = 0 /\ 0 \in 0..PipeSize
    OBVIOUS
  <2>2. {Len(stdin), Len(stdout)} \subseteq 0..PipeSize
    BY <2>1, Zenon
  <2>3. ConnTypeOK
    BY <2>2 DEF ConnTypeOK
  <2>4. QueriesAreOwned
    BY DEF QueriesAreOwned
  <2>5. QED
    BY <2>3, <2>4
<1>2. {c \in Call : key[c] # 0} = {}
  OBVIOUS
<1>3. ConnNumbers
  <2>1. nextKey = Cardinality({c \in Call : key[c] # 0})
    BY <1>2, FS_EmptySet
  <2>2. QED
    BY <2>1 DEF ConnNumbers
<1>4. Closing /\ PipesTrue /\ FoundTrue
  BY DEF Closing, PipesTrue, FoundTrue
<1>5. QED
  BY <1>1, <1>3, <1>4 DEF ConnIInv

\* A call takes a fresh id, or finds the connection closed.
LEMMA RegisterKept ==
  ASSUME ConnIInv, NEW c \in Call, Register(c)
  PROVE  ConnIInv'
<1> USE DEF ConnIInv
<1>a. asking[c] \in {"idle", "notified"} /\ key[c] = 0
  BY DEF Register, ConnNumbers
<1>1. CASE shut # "no"
  <2>1. /\ asking' = [asking EXCEPT ![c] = "returned"] /\ found' = [found EXCEPT ![c] = Failed]
        /\ UNCHANGED <<key, nextKey, waiting, slot, framer, peer, shut, stdin, stdout, serverVars>>
    BY <1>1 DEF Register, Go, Find
  <2> USE DEF serverVars
  <2>2. ConnTypeOK'
    BY <2>1 DEF ConnTypeOK, Answer
  <2>3. QueriesAreOwned'
    BY <2>1, <1>1, <1>a DEF QueriesAreOwned, Closing, ConnTypeOK
  <2>4. ConnNumbers' /\ Closing' /\ FoundTrue'
    BY <2>1 DEF ConnNumbers, Closing, FoundTrue, ConnTypeOK
  <2>5. PipesTrue'
    BY <2>1, PipesKept
  <2>6. QED
    BY <2>2, <2>3, <2>4, <2>5
<1>2. CASE shut = "no"
  <2> DEFINE k == nextKey + 1
  <2>1. /\ asking' = [asking EXCEPT ![c] = "lock"] /\ key' = [key EXCEPT ![c] = k]
        /\ nextKey' = k /\ waiting' = [waiting EXCEPT ![k] = c]
        /\ UNCHANGED <<slot, found, framer, peer, shut, stdin, stdout, serverVars>>
    BY <1>2 DEF Register, Go
  <2> USE DEF serverVars
  <2>2. key \in [Call -> {0} \cup Id]
    BY DEF ConnTypeOK
  <2>3. k \in Id /\ nextKey \in Nat /\ k = Cardinality({d \in Call : key'[d] # 0})
    BY <1>a, <2>1, <2>2, NumberTaken DEF ConnNumbers
  <2>4. ConnTypeOK'
    BY <2>1, <2>3 DEF ConnTypeOK
  <2>5. \A d \in Call : key[d] # k
    BY <2>3, <2>2, IdsAreNumbers DEF ConnNumbers
  <2>6. ConnNumbers'
    <3>1. nextKey' = Cardinality({d \in Call : key'[d] # 0})
      BY <2>1, <2>3
    <3>2. \A d \in Call : key'[d] <= nextKey'
      <4>1. \A d \in Call : key[d] \in {0} \cup Id /\ key[d] <= nextKey
        BY <2>2 DEF ConnNumbers
      <4>2. \A d \in Call : key'[d] = key[d] \/ key'[d] = nextKey + 1
        BY <2>1, <2>2
      <4>3. \A d \in Call : key[d] \in Nat
        BY <4>1, IdsAreNumbers
      <4>4. nextKey \in Nat /\ nextKey' = nextKey + 1
        BY <2>1, <2>3
      <4>5. QED
        BY <4>1, <4>2, <4>3, <4>4
    <3>3. \A d, e \in Call : key'[d] = key'[e] /\ key'[d] # 0 => d = e
      BY <2>1, <2>2, <2>5 DEF ConnNumbers
    <3>4. \A d \in Call : /\ asking'[d] \in {"idle", "notified"} => key'[d] = 0
                          /\ asking'[d] \in {"wait", "forget"} => key'[d] # 0
      BY <2>1, <2>2, <2>3, IdsAreNumbers DEF ConnNumbers, ConnTypeOK
    <3>5. QED
      BY <3>1, <3>2, <3>3, <3>4 DEF ConnNumbers
  <2>7. slot[c] = <<>> /\ \A j \in Id : waiting[j] # c
    BY <1>a, IdsAreNumbers DEF Closing, QueriesAreOwned
  <2>8. QueriesAreOwned'
    <3>1. \A j \in Id : waiting'[j] # None =>
            /\ key'[waiting'[j]] = j /\ asking'[waiting'[j]] \in {"lock", "write", "wait", "forget"}
            /\ slot'[waiting'[j]] = <<>>
      BY <2>1, <2>2, <2>3, <2>7 DEF QueriesAreOwned, ConnTypeOK
    <3>2. \A d \in Call : framer' = d <=> asking'[d] = "write"
      BY <1>a, <2>1 DEF QueriesAreOwned, ConnTypeOK
    <3>3. QED
      BY <2>1, <3>1, <3>2 DEF QueriesAreOwned
  <2>9. Closing' /\ FoundTrue'
    BY <2>1, <2>2, <2>3, <1>2, IdsAreNumbers DEF Closing, FoundTrue, ConnTypeOK
  <2>10. PipesTrue'
    <3>1. \A m \in Frames : Own(m) => Own(m)'
      BY <1>a, <2>1, <2>2 DEF Own
    <3>2. ToServer \subseteq ToServer' /\ FromServer \subseteq FromServer'
      BY <3>1 DEF ToServer, FromServer
    <3>3. stdin' \in Seq(ToServer') /\ stdout' \in Seq(FromServer')
      BY <2>1, <3>2, SeqMonotonic DEF PipesTrue
    <3>4. QED
      BY <2>1, <3>1, <3>2, <3>3 DEF PipesTrue
  <2>11. QED
    BY <2>4, <2>6, <2>8, <2>9, <2>10
<1>3. QED
  BY <1>1, <1>2

\* The steps of a call around its registration, each of which moves only that call.
LEMMA QueryKept ==
  ASSUME ConnIInv, NEW c \in Call, Notify(c) \/ LockFramer(c) \/ WriteFrame(c)
  PROVE  ConnIInv'
<1> USE DEF ConnIInv, serverVars, Go, Find
<1>1. CASE Notify(c)
  <2> USE <1>1 DEF Notify
  <2>a. key[c] = 0 /\ \A k \in Id : waiting[k] # c
    BY IdsAreNumbers DEF ConnNumbers, QueriesAreOwned
  <2>1. ConnTypeOK'
    BY DEF ConnTypeOK, Answer
  <2>2. QueriesAreOwned'
    BY <2>a DEF QueriesAreOwned, ConnTypeOK
  <2>3. ConnNumbers' /\ Closing' /\ FoundTrue'
    BY DEF ConnNumbers, Closing, FoundTrue, ConnTypeOK
  <2>4. PipesTrue'
    BY PipesKept
  <2>5. QED
    BY <2>1, <2>2, <2>3, <2>4
<1>2. CASE LockFramer(c)
  <2> USE <1>2 DEF LockFramer
  <2>1. ConnTypeOK'
    BY DEF ConnTypeOK
  <2>2. QueriesAreOwned'
    BY DEF QueriesAreOwned, ConnTypeOK
  <2>3. ConnNumbers' /\ Closing' /\ FoundTrue'
    BY DEF ConnNumbers, Closing, FoundTrue, ConnTypeOK
  <2>4. PipesTrue'
    BY PipesKept
  <2>5. QED
    BY <2>1, <2>2, <2>3, <2>4
<1>3. CASE WriteFrame(c)
  <2> DEFINE frame == IF key[c] = 0 THEN Frame("notice", 0, None) ELSE Frame("request", key[c], c)
  <2>1. /\ framer = c /\ framer' = None
        /\ \/ /\ Len(stdin) < PipeSize /\ stdin' = Append(stdin, frame) /\ UNCHANGED found
              /\ asking' = [asking EXCEPT ![c] = IF key[c] = 0 THEN "notified" ELSE "wait"]
           \/ /\ UNCHANGED stdin /\ found' = [found EXCEPT ![c] = Failed]
              /\ asking' = [asking EXCEPT ![c] = IF key[c] = 0 THEN "returned" ELSE "forget"]
        /\ UNCHANGED <<key, nextKey, slot, waiting, peer, shut, stdout, serverVars>>
    BY <1>3 DEF WriteFrame
  <2>2. asking[c] = "write" /\ \A k \in Id : waiting[k] = c => k = key[c] /\ k # 0
    BY <2>1, IdsAreNumbers DEF QueriesAreOwned, ConnTypeOK
  <2>3. frame \in ToServer
    BY DEF Frame, Frames, ToServer, Own, ConnTypeOK
  <2>4. stdin' \in Seq(ToServer) /\ Len(stdin') \in 0..PipeSize
    <3>1. stdin \in Seq(ToServer) /\ Len(stdin) \in 0..PipeSize
      BY DEF PipesTrue, ConnTypeOK
    <3>2. CASE UNCHANGED stdin
      BY <3>1, <3>2
    <3>3. CASE stdin' = Append(stdin, frame) /\ Len(stdin) < PipeSize
      BY <3>1, <3>3, <2>3, PutOnPipe
    <3>4. QED
      BY <2>1, <3>2, <3>3
  <2>5. ConnTypeOK'
    BY <2>1, <2>4 DEF ConnTypeOK, Answer
  <2>6. QueriesAreOwned'
    BY <2>1, <2>2 DEF QueriesAreOwned, ConnTypeOK
  <2>7. ConnNumbers' /\ Closing' /\ FoundTrue'
    BY <2>1, <2>2 DEF ConnNumbers, Closing, FoundTrue, ConnTypeOK
  <2>8. PipesTrue'
    BY <2>1, <2>4, PipesKept DEF PipesTrue
  <2>9. QED
    BY <2>5, <2>6, <2>7, <2>8
<1>4. QED
  BY <1>1, <1>2, <1>3

\* The select of a call, its end, and the slot it gives back.
LEMMA AnswerKept ==
  ASSUME ConnIInv, NEW c \in Call, TakeAnswer(c) \/ TimeOut(c) \/ DropSlot(c)
  PROVE  ConnIInv'
<1> USE DEF ConnIInv, serverVars, Go, Find
<1>0. slot[c] \in {<<>>, <<c>>} /\ key[c] \in {0} \cup Id
  BY DEF FoundTrue, ConnTypeOK
<1>1. CASE TakeAnswer(c) \/ TimeOut(c)
  <2>1. /\ asking[c] = "wait" /\ asking' = [asking EXCEPT ![c] = "forget"]
        /\ \/ slot[c] = <<c>> /\ found' = [found EXCEPT ![c] = c] /\ slot' = [slot EXCEPT ![c] = <<>>]
           \/ found' = [found EXCEPT ![c] = Failed] /\ UNCHANGED slot
        /\ UNCHANGED <<key, nextKey, waiting, framer, peer, shut, stdin, stdout, serverVars>>
    BY <1>0, <1>1, Singles DEF TakeAnswer, TimeOut
  <2>2. ConnTypeOK'
    BY <2>1 DEF ConnTypeOK, Answer
  <2>3. QueriesAreOwned'
    BY <2>1 DEF QueriesAreOwned, ConnTypeOK
  <2>4. ConnNumbers' /\ Closing' /\ FoundTrue'
    BY <2>1 DEF ConnNumbers, Closing, FoundTrue, ConnTypeOK
  <2>5. PipesTrue'
    BY <2>1, PipesKept
  <2>6. QED
    BY <2>2, <2>3, <2>4, <2>5
<1>2. CASE DropSlot(c)
  <2>1. /\ asking[c] = "forget" /\ asking' = [asking EXCEPT ![c] = "returned"]
        /\ waiting' = [waiting EXCEPT ![key[c]] = None]
        /\ UNCHANGED <<key, nextKey, slot, found, framer, peer, shut, stdin, stdout, serverVars>>
    BY <1>2 DEF DropSlot
  <2>2. key[c] \in Id
    BY <1>0, <2>1 DEF ConnNumbers
  <2>3. ConnTypeOK'
    BY <2>1, <2>2 DEF ConnTypeOK
  <2>4. QueriesAreOwned'
    BY <2>1, <2>2 DEF QueriesAreOwned, ConnTypeOK
  <2>5. ConnNumbers' /\ Closing' /\ FoundTrue'
    BY <2>1, <2>2 DEF ConnNumbers, Closing, FoundTrue, ConnTypeOK
  <2>6. PipesTrue'
    BY <2>1, PipesKept
  <2>7. QED
    BY <2>3, <2>4, <2>5, <2>6
<1>3. QED
  BY <1>1, <1>2

\* The reader.  A response goes to the call that holds its id, if one still does.
LEMMA ReadFrameKept ==
  ASSUME ConnIInv, ReadFrame
  PROVE  ConnIInv'
<1> USE DEF ConnIInv, serverVars
<1> DEFINE m == Head(stdout)
<1>1. /\ stdout # <<>> /\ stdout' = Tail(stdout) /\ peer = "reading"
      /\ UNCHANGED <<asking, key, nextKey, found, framer, shut, stdin, serverVars>>
  BY DEF ReadFrame
<1>2. /\ m \in FromServer /\ stdout' \in Seq(FromServer)
      /\ Len(stdin') \in 0..PipeSize /\ Len(stdout') \in 0..PipeSize
  BY <1>1, TakeFromPipe DEF PipesTrue, ConnTypeOK
<1>3. PipesTrue'
  BY <1>1, <1>2, PipesKept DEF PipesTrue
<1>4. CASE m.kind \in {"request", "notification"}
  <2>1. UNCHANGED <<slot, waiting>> /\ peer' \in {peer, "lock"}
    BY <1>4 DEF ReadFrame
  <2>2. ConnTypeOK'
    BY <1>1, <1>2, <2>1 DEF ConnTypeOK
  <2>3. QueriesAreOwned'
    BY <1>1, <2>1 DEF QueriesAreOwned
  <2>4. ConnNumbers' /\ Closing' /\ FoundTrue'
    BY <1>1, <2>1 DEF ConnNumbers, Closing, FoundTrue
  <2>5. QED
    BY <1>3, <2>2, <2>3, <2>4
<1>5. CASE m.kind = "response"
  <2>1. m.call \in Call /\ key[m.call] = m.key /\ m.key # 0 /\ m.key \in Id
    BY <1>2, <1>5 DEF FromServer, Frames, Own
  <2> DEFINE o == waiting[m.key]
  <2>2. /\ UNCHANGED peer /\ waiting' = [waiting EXCEPT ![m.key] = None]
        /\ IF o = None THEN UNCHANGED slot ELSE slot' = [slot EXCEPT ![o] = <<m.call>>]
    BY <1>5 DEF ReadFrame
  <2>3. o = None \/ o = m.call
    BY <2>1 DEF QueriesAreOwned, ConnNumbers, ConnTypeOK
  <2>4. UNCHANGED slot \/ slot' = [slot EXCEPT ![m.call] = <<m.call>>]
    BY <2>2, <2>3
  <2>5. ConnTypeOK'
    <3>1. waiting' \in [Id -> Call \cup {None}]
      BY <2>2 DEF ConnTypeOK
    <3>2. slot' \in [Call -> {<<>>} \cup {<<c>> : c \in Call}]
      <4> DEFINE Slot == {<<>>} \cup {<<c>> : c \in Call}
      <4>1. slot \in [Call -> Slot] /\ <<m.call>> \in Slot
        BY <2>1 DEF ConnTypeOK
      <4> HIDE DEF Slot
      <4>2. slot' \in [Call -> Slot]
        BY <2>4, <4>1
      <4>3. QED
        BY <4>2 DEF Slot
    <3>3. {Len(stdin'), Len(stdout')} \subseteq 0..PipeSize
      BY <1>2
    <3>4. QED
      BY <1>1, <2>2, <3>1, <3>2, <3>3 DEF ConnTypeOK
  <2>6. \A j \in Id : waiting'[j] # None => waiting'[j] = waiting[j] /\ waiting[j] # m.call
    BY <2>1, <2>2 DEF QueriesAreOwned, ConnTypeOK
  <2>7. QueriesAreOwned'
    <3>1. \A j \in Id : waiting'[j] # None => slot'[waiting'[j]] = <<>>
      BY <2>4, <2>6 DEF QueriesAreOwned, ConnTypeOK
    <3>2. QED
      BY <1>1, <2>2, <2>6, <3>1 DEF QueriesAreOwned
  <2>8. ConnNumbers' /\ Closing'
    BY <1>1, <2>1, <2>2, <2>4 DEF ConnNumbers, Closing, ConnTypeOK
  <2>9. FoundTrue'
    BY <1>1, <2>4 DEF FoundTrue, ConnTypeOK
  <2>10. QED
    BY <1>3, <2>5, <2>7, <2>8, <2>9
<1>6. QED
  BY <1>4, <1>5 DEF ReadFrame

LEMMA ReplyKept ==
  ASSUME ConnIInv, LockReply \/ WriteReply
  PROVE  ConnIInv'
<1> USE DEF ConnIInv, callVars, serverVars
<1>1. CASE LockReply
  <2> USE <1>1 DEF LockReply
  <2>1. ConnTypeOK' /\ QueriesAreOwned'
    BY DEF ConnTypeOK, QueriesAreOwned
  <2>2. ConnNumbers' /\ Closing' /\ FoundTrue'
    BY DEF ConnNumbers, Closing, FoundTrue
  <2>3. PipesTrue'
    BY PipesKept
  <2>4. QED
    BY <2>1, <2>2, <2>3
<1>2. CASE WriteReply
  <2> DEFINE frame == Frame("reply", 0, None)
  <2>1. /\ peer = "reply" /\ peer' = "reading" /\ framer' = None
        /\ (Len(stdin) < PipeSize /\ stdin' = Append(stdin, frame)) \/ UNCHANGED stdin
        /\ UNCHANGED <<callVars, waiting, shut, stdout, serverVars>>
    BY <1>2 DEF WriteReply
  <2>2. frame \in ToServer
    BY DEF Frame, Frames, ToServer
  <2>3. stdin' \in Seq(ToServer) /\ Len(stdin') \in 0..PipeSize
    <3>1. stdin \in Seq(ToServer) /\ Len(stdin) \in 0..PipeSize
      BY DEF PipesTrue, ConnTypeOK
    <3>2. CASE UNCHANGED stdin
      BY <3>1, <3>2
    <3>3. CASE stdin' = Append(stdin, frame) /\ Len(stdin) < PipeSize
      BY <3>1, <3>3, <2>2, PutOnPipe
    <3>4. QED
      BY <2>1, <3>2, <3>3
  <2>4. ConnTypeOK'
    BY <2>1, <2>3 DEF ConnTypeOK
  <2>5. QueriesAreOwned'
    BY <2>1 DEF QueriesAreOwned
  <2>6. ConnNumbers' /\ Closing' /\ FoundTrue'
    BY <2>1 DEF ConnNumbers, Closing, FoundTrue
  <2>7. PipesTrue'
    BY <2>1, <2>3, PipesKept DEF PipesTrue
  <2>8. QED
    BY <2>4, <2>5, <2>6, <2>7
<1>3. QED
  BY <1>1, <1>2

\* close, in its critical section: the table is emptied once.
LEMMA CloseKept ==
  ASSUME ConnIInv, NEW damaged \in BOOLEAN, ReadError(damaged) \/ CloseConn
  PROVE  ConnIInv'
<1> USE DEF ConnIInv, callVars, serverVars
<1>1. /\ \/ UNCHANGED <<shut, waiting>>
         \/ shut' = "marked" /\ waiting' = [k \in Id |-> None]
      /\ peer' = peer \/ (peer = "reading" /\ peer' = "gone")
      /\ UNCHANGED <<callVars, framer, stdin, stdout, serverVars>>
  BY DEF ReadError, CloseConn, MarkClosed
<1>2. ConnTypeOK'
  BY <1>1 DEF ConnTypeOK
<1>3. QueriesAreOwned'
  BY <1>1 DEF QueriesAreOwned
<1>4. ConnNumbers' /\ FoundTrue'
  BY <1>1 DEF ConnNumbers, FoundTrue
<1>5. Closing'
  BY <1>1 DEF Closing
<1>6. PipesTrue'
  BY <1>1, PipesKept
<1>7. QED
  BY <1>2, <1>3, <1>4, <1>5, <1>6

\* The end of the process, of itself or killed.
LEMMA EndKept ==
  ASSUME ConnIInv, SignalClosed \/ ServerDies
  PROVE  ConnIInv'
<1> USE DEF ConnIInv, callVars
<1>1. /\ shut' = shut \/ (shut = "marked" /\ shut' = "done")
      /\ server' = "dead" /\ stdin' = <<>> /\ working' = {} /\ sending' = None /\ asked' = FALSE
      /\ UNCHANGED <<callVars, waiting, framer, peer, stdout>>
  BY DEF SignalClosed, ServerDies, ServerEnds
<1>2. ConnTypeOK'
  <2>1. Len(stdin') = 0 /\ Len(stdout') \in 0..PipeSize
    BY <1>1 DEF ConnTypeOK
  <2>2. Len(stdin') \in 0..PipeSize
    BY <2>1
  <2>3. QED
    BY <1>1, <2>1, <2>2 DEF ConnTypeOK
<1>3. QueriesAreOwned' /\ ConnNumbers' /\ FoundTrue'
  BY <1>1 DEF QueriesAreOwned, ConnNumbers, FoundTrue
<1>4. Closing'
  BY <1>1 DEF Closing
<1>5. PipesTrue'
  BY <1>1, PipesKept DEF PipesTrue
<1>6. QED
  BY <1>2, <1>3, <1>4, <1>5

\* The living server: it answers what it was asked, under the id it was asked with.
LEMMA ServerKept ==
  ASSUME ConnIInv,
         \/ ServerReads \/ ServerWrites
         \/ \E m \in working : ServerAnswers(m)
         \/ \E kind \in {"request", "notification"} : ServerPushes(kind)
  PROVE  ConnIInv'
<1> USE DEF ConnIInv, callVars
<1>1. UNCHANGED <<callVars, waiting, framer, peer, shut, server>>
  BY DEF ServerReads, ServerWrites, ServerAnswers, ServerPushes
<1>2. QueriesAreOwned' /\ ConnNumbers' /\ Closing' /\ FoundTrue'
  BY <1>1 DEF QueriesAreOwned, ConnNumbers, Closing, FoundTrue
<1> DEFINE PipesRight ==
      /\ stdin' \in Seq(ToServer) /\ Len(stdin') \in 0..PipeSize
      /\ stdout' \in Seq(FromServer) /\ Len(stdout') \in 0..PipeSize
      /\ working' \subseteq {m \in Frames : Own(m)}
      /\ sending' \in FromServer \cup {None} /\ asked' \in BOOLEAN
<1>3. SUFFICES PipesRight
  <2>1. ConnTypeOK'
    BY <1>1, <1>3 DEF ConnTypeOK
  <2>2. PipesTrue'
    BY <1>1, <1>3, PipesKept DEF PipesTrue
  <2>3. QED
    BY <1>2, <2>1, <2>2
<1>4. /\ stdin \in Seq(ToServer) /\ Len(stdin) \in 0..PipeSize
      /\ stdout \in Seq(FromServer) /\ Len(stdout) \in 0..PipeSize
      /\ working \subseteq {m \in Frames : Own(m)}
      /\ sending \in FromServer \cup {None} /\ asked \in BOOLEAN
  BY DEF ConnTypeOK, PipesTrue
<1>5. CASE ServerReads
  <2> DEFINE m == Head(stdin)
  <2>1. /\ stdin # <<>> /\ stdin' = Tail(stdin)
        /\ working' = working \/ (m.kind = "request" /\ working' = working \cup {m})
        /\ asked' = (asked /\ m.kind # "reply") /\ UNCHANGED <<stdout, sending>>
    BY <1>5 DEF ServerReads
  <2>2. m \in ToServer /\ stdin' \in Seq(ToServer) /\ Len(stdin') \in 0..PipeSize
    BY <1>4, <2>1, TakeFromPipe
  <2>3. working' \subseteq {f \in Frames : Own(f)}
    BY <1>4, <2>1, <2>2 DEF ToServer
  <2>4. QED
    BY <1>4, <2>1, <2>2, <2>3
<1>6. CASE ServerWrites
  <2>1. /\ sending # None /\ Len(stdout) < PipeSize /\ stdout' = Append(stdout, sending)
        /\ sending' = None /\ UNCHANGED <<stdin, working, asked>>
    BY <1>6 DEF ServerWrites
  <2>2. stdout' \in Seq(FromServer) /\ Len(stdout') \in 0..PipeSize
    BY <1>4, <2>1, PutOnPipe
  <2>3. QED
    BY <1>4, <2>1, <2>2
<1>7. ASSUME NEW m \in working, ServerAnswers(m)
      PROVE  PipesRight
  <2>1. m \in Frames /\ Own(m)
    BY <1>4
  <2>2. Frame("response", m.key, m.call) \in FromServer
    BY <2>1 DEF Frame, Frames, FromServer, Own
  <2>3. QED
    BY <1>4, <1>7, <2>2 DEF ServerAnswers
<1>8. ASSUME NEW kind \in {"request", "notification"}, ServerPushes(kind)
      PROVE  PipesRight
  <2>1. Frame(kind, 0, None) \in FromServer
    BY DEF Frame, Frames, FromServer
  <2>2. QED
    BY <1>4, <1>8, <2>1 DEF ServerPushes
<1>9. QED
  BY <1>5, <1>6, <1>7, <1>8
-----------------------------------------------------------------------------
(* The composition.                                                         *)

\* It holds when the connections are new.
LEMMA InitHolds == RequestsInit => IInv
<1> SUFFICES ASSUME RequestsInit PROVE IInv
  OBVIOUS
<1>1. ClientIInv /\ ConnIInv
  BY InitClient, InitConn DEF RequestsInit
<1>2. HandlersTypeOK /\ HandlersTrue
  BY DEF RequestsInit, HandlersTypeOK, HandlersTrue
<1>3. QED
  BY <1>1, <1>2 DEF IInv

\* A handler goes by the id of its call, and a call keeps its id.
LEMMA HandlersKept ==
  ASSUME IInv, UNCHANGED handlerVars, \A c \in Call : id[c] # 0 => id'[c] = id[c]
  PROVE  HandlersTypeOK' /\ HandlersTrue'
BY DEF IInv, handlerVars, HandlersTypeOK, HandlersTrue

\* A step at the client's end alone.
LEMMA ClientAlone ==
  ASSUME IInv, UNCHANGED <<connVars, handlerVars>>,
         \/ \E c \in Call : Send(c) \/ SendStep(c) \/ Abandon(c)
         \/ ReaderStep \/ FailStep \/ Close
  PROVE  IInv'
<1>1. ClientIInv' /\ ConnIInv'
  BY ClientStepKept, ConnUnchanged DEF IInv
<1>2. \A c \in Call : id[c] # 0 => id'[c] = id[c]
  <2>1. UNCHANGED id \/ \E c \in Call : Send(c)
    BY DEF SendStep, WriteRequest, Receive, SeeDone, Forget, Abandon, ReaderStep, ReadResponse,
           ReadFails, FailStep, HangUp, Complete, Close
  <2>2. ASSUME NEW c \in Call, Send(c) PROVE UNCHANGED id \/ id' = [id EXCEPT ![c] = nextID + 1]
    BY <2>2 DEF Send, Enter
  <2>3. ASSUME NEW c \in Call, Send(c) PROVE id[c] = 0
    BY <2>3 DEF Send, IInv, ClientIInv, ClientNumbers
  <2>4. id \in [Call -> {0} \cup Id]
    BY DEF IInv, ClientIInv, ClientTypeOK
  <2>5. QED
    BY <2>1, <2>2, <2>3, <2>4
<1>3. QED
  BY <1>1, <1>2, HandlersKept DEF IInv

\* A step at the language server's end alone.
LEMMA ConnAlone ==
  ASSUME IInv, UNCHANGED <<clientVars, handlerVars>>,
         \/ \E c \in Call : Notify(c) \/ Register(c) \/ CallStep(c) \/ TimeOut(c)
         \/ PeerStep \/ SignalClosed \/ ServerReads \/ ServerWrites
         \/ \E m \in working : ServerAnswers(m)
         \/ CloseConn \/ ServerDies \/ ReadError(TRUE)
         \/ \E kind \in {"request", "notification"} : ServerPushes(kind)
  PROVE  IInv'
<1>1. ClientIInv' /\ HandlersTypeOK' /\ HandlersTrue'
  BY ClientUnchanged, HandlersKept DEF IInv, clientVars
<1>2. ConnIInv'
  <2>1. ASSUME NEW c \in Call, Notify(c) \/ Register(c) \/ CallStep(c) \/ TimeOut(c)
        PROVE  ConnIInv'
    BY <2>1, QueryKept, RegisterKept, AnswerKept DEF CallStep, IInv
  <2>2. ASSUME PeerStep PROVE ConnIInv'
    BY <2>2, ReadFrameKept, ReplyKept, CloseKept DEF PeerStep, IInv
  <2>3. ASSUME SignalClosed \/ ServerDies PROVE ConnIInv'
    BY <2>3, EndKept DEF IInv
  <2>4. ASSUME CloseConn \/ ReadError(TRUE) PROVE ConnIInv'
    BY <2>4, CloseKept DEF IInv
  <2>5. ASSUME \/ ServerReads \/ ServerWrites
               \/ \E m \in working : ServerAnswers(m)
               \/ \E kind \in {"request", "notification"} : ServerPushes(kind)
        PROVE  ConnIInv'
    BY <2>5, ServerKept DEF IInv
  <2>6. QED
    BY <2>1, <2>2, <2>3, <2>4, <2>5
<1>3. QED
  BY <1>1, <1>2 DEF IInv

\* The daemon takes a request from the socket.
LEMMA ReadRequestKept ==
  ASSUME IInv, ReadRequest
  PROVE  IInv'
<1> DEFINE f == Head(up)
<1>1. /\ up # <<>> /\ up' = Tail(up)
      /\ handling' = [handling EXCEPT ![f.call] = "running"]
      /\ handled' = [handled EXCEPT ![f.call] = f.id]
      /\ UNCHANGED <<at, id, nextID, pending, channel, result, reader, tearing, uncompleted,
                     sock, down, connVars>>
  BY DEF ReadRequest
<1>2. f \in UpFrames
  BY <1>1 DEF IInv, ClientIInv, SocketTrue
<1>3. f.call \in Call /\ f.id \in Id /\ id[f.call] = f.id /\ f.id # 0
  BY <1>2, IdsAreNumbers DEF UpFrames
<1>4. ClientIInv' /\ ConnIInv'
  BY <1>1, DaemonEndKept, ConnUnchanged DEF IInv
<1>5. HandlersTypeOK' /\ HandlersTrue'
  BY <1>1, <1>3 DEF IInv, HandlersTypeOK, HandlersTrue
<1>6. QED
  BY <1>4, <1>5 DEF IInv

\* The handler answers with what its own query found, under the id of its own request.
LEMMA ReplySent ==
  ASSUME IInv, NEW c \in Call, Reply(c)
  PROVE  IInv'
<1>1. PICK a \in Answer :
        /\ \/ asking[c] = "returned" /\ a = found[c]
           \/ asking[c] \in {"idle", "returned"} /\ a = Failed
        /\ down' = IF sock = "open" THEN Append(down, [id |-> handled[c], answer |-> a])
                   ELSE down
  BY DEF Reply
<1>2. /\ handling[c] = "running" /\ handling' = [handling EXCEPT ![c] = "done"]
      /\ UNCHANGED <<at, id, nextID, pending, channel, result, reader, tearing, uncompleted,
                     sock, up, connVars, handled>>
  BY DEF Reply
<1>3. handled[c] = id[c] /\ id[c] \in Id
  BY <1>2 DEF IInv, HandlersTrue, ClientIInv, ClientTypeOK
<1>4. a \in {c, Failed}
  BY <1>1 DEF IInv, ConnIInv, FoundTrue
<1>5. [id |-> handled[c], answer |-> a] \in DownFrames
  BY <1>3, <1>4 DEF DownFrames
<1>6. ClientIInv' /\ ConnIInv'
  <2>1. down' = down \/ down' = Append(down, [id |-> handled[c], answer |-> a])
    BY <1>1
  <2>2. ConnIInv'
    BY <1>2, ConnUnchanged DEF IInv
  <2>3. QED
    BY <1>2, <1>5, <2>1, <2>2, DaemonEndKept DEF IInv
<1>7. HandlersTypeOK' /\ HandlersTrue'
  BY <1>2 DEF IInv, HandlersTypeOK, HandlersTrue
<1>8. QED
  BY <1>6, <1>7 DEF IInv

\* Every step of the composition keeps it.
LEMMA StepHolds == IInv /\ [RequestsNext]_requestsVars => IInv'
<1> SUFFICES ASSUME IInv, [RequestsNext]_requestsVars PROVE IInv'
  OBVIOUS
<1>1. CASE Progress
  <2>1. ASSUME NEW c \in Call, Client(c) PROVE IInv'
    BY <2>1, ClientAlone DEF Client
  <2>2. ASSUME NEW c \in Call, Query(c) \/ RequestTimeout(c) PROVE IInv'
    BY <2>2, ConnAlone DEF Query, RequestTimeout
  <2>3. ASSUME NEW c \in Call, Reply(c) PROVE IInv'
    BY <2>3, ReplySent
  <2>4. ASSUME ReadRequest PROVE IInv'
    BY <2>4, ReadRequestKept
  <2>5. ASSUME ClientReader PROVE IInv'
    BY <2>5, ClientAlone DEF ClientReader
  <2>6. ASSUME ConnReader \/ ServerListens PROVE IInv'
    BY <2>6, ConnAlone DEF ConnReader, ServerListens
  <2>7. QED
    BY <1>1, <2>1, <2>2, <2>3, <2>4, <2>5, <2>6 DEF Progress
<1>2. CASE ServerTalks
  BY <1>2, ConnAlone DEF ServerTalks
<1>3. ASSUME NEW c \in Call, Begin(c) PROVE IInv'
  BY <1>3, ClientAlone DEF Begin
<1>4. CASE DaemonHangsUp
  <2>1. ClientIInv' /\ ConnIInv'
    BY <1>4, DaemonEndKept, ConnUnchanged DEF IInv, DaemonHangsUp
  <2>2. QED
    BY <1>4, <2>1, HandlersKept DEF IInv, DaemonHangsUp
<1>5. CASE Trouble
  <2>1. \/ /\ Close \/ \E c \in Call : Abandon(c)
           /\ UNCHANGED <<connVars, handlerVars>>
        \/ /\ \/ CloseConn \/ ServerDies \/ ReadError(TRUE)
              \/ \E kind \in {"request", "notification"} : ServerPushes(kind)
           /\ UNCHANGED <<clientVars, handlerVars>>
    BY <1>5 DEF Trouble
  <2>2. QED
    BY <2>1, ClientAlone, ConnAlone
<1>6. CASE UNCHANGED requestsVars
  BY <1>6, ClientUnchanged, ConnUnchanged, HandlersKept DEF requestsVars, IInv, clientVars
<1>7. QED
  BY <1>1, <1>2, <1>3, <1>4, <1>5, <1>6 DEF RequestsNext, Finished

\* The strengthening is an invariant: what the frames, slots and handlers say of each call is
\* so after every step of the client, the daemon, the connection and the server.
THEOREM Inductive == RequestsSpec => []IInv
<1>1. RequestsInit => IInv
  BY InitHolds
<1>2. IInv /\ [RequestsNext]_requestsVars => IInv'
  BY StepHolds
<1>3. QED
  BY <1>1, <1>2, PTL DEF RequestsSpec

\* No slot of either table of pending calls outlives its call, and no reader blocks on the
\* channel it sends on (send and fail of internal/daemonctl/client.go, call, deliver and
\* close of lsp/conn.go), for any number of calls and failures.
THEOREM RequestsSafe == RequestsSpec => []RequestsInv
<1>1. IInv => RequestsInv
  BY DEF IInv, ClientIInv, ConnIInv, RequestsInv
<1>2. QED
  BY <1>1, Inductive, PTL

\* A call gets its own answer or an error, never the answer to another call, through both
\* tables of ids (client.go read, conn.go deliver), for any number of calls and failures.
THEOREM AnswersAreOwn == RequestsSpec => []OwnAnswer
<1>1. IInv => OwnAnswer
  BY DEF IInv, ClientIInv, ChannelsTrue, OwnAnswer
<1>2. QED
  BY <1>1, Inductive, PTL
-----------------------------------------------------------------------------
(* Requests implements Exchange.                                            *)

\* A call is on its way to the daemon once: after it was written, and before it is handled.
SentOnce ==
  /\ \A c \in Call : at[c] \in {"idle", "write"} => handling[c] = "none"
  /\ \A i \in 1..Len(up) : /\ handling[up[i].call] = "none"
                           /\ at[up[i].call] \notin {"idle", "write"}
  /\ \A i, j \in 1..Len(up) : up[i].call = up[j].call => i = j

ReturnedOnce == \A c \in Call : result[c] = None <=> at[c] # "returned"

\* An answer is on its way back only when its handler has finished.
LateFrames == {f \in [id : Id, answer : Answer] : f.answer # Failed => handling[f.answer] = "done"}
AnsweredLate ==
  /\ down \in Seq(LateFrames)
  /\ \A c \in Call : channel[c] = <<c>> => handling[c] = "done"

XInv == SentOnce /\ ReturnedOnce /\ AnsweredLate

XNext == [Exchanged!Next]_<<[c \in Call |-> Stage(c)], result>>

\* A frame that is appended to the socket, and the first that is taken from it.
LEMMA FramesAppended ==
  ASSUME NEW S, NEW s \in Seq(S), NEW e \in S
  PROVE  /\ Len(Append(s, e)) = Len(s) + 1 /\ Len(s) \in Nat
         /\ \A i \in 1..Len(s) : Append(s, e)[i] = s[i]
         /\ Append(s, e)[Len(s) + 1] = e
OBVIOUS

LEMMA FramesTaken ==
  ASSUME NEW S, NEW s \in Seq(S), s # <<>>
  PROVE  /\ Len(s) \in Nat /\ Len(s) >= 1 /\ Head(s) = s[1] /\ Head(s) \in S
         /\ Tail(s) \in Seq(S) /\ Len(Tail(s)) = Len(s) - 1
         /\ \A i \in 1..Len(Tail(s)) : Tail(s)[i] = s[i + 1] /\ i + 1 \in 2..Len(s)
OBVIOUS

\* Nothing of it changes where the calls, the frames and the handlers stay.
LEMMA XUnchanged ==
  ASSUME XInv, UNCHANGED <<clientVars, handlerVars>>
  PROVE  XInv' /\ XNext
<1>1. XInv'
  BY DEF XInv, SentOnce, ReturnedOnce, AnsweredLate, LateFrames, clientVars, handlerVars
<1>2. XNext
  BY DEF XNext, Stage, clientVars, handlerVars
<1>3. QED
  BY <1>1, <1>2

\* The stage of a call depends on its id and its handler.
LEMMA StagesKept ==
  ASSUME UNCHANGED <<id, handling>>
  PROVE  [c \in Call |-> Stage(c)]' = [c \in Call |-> Stage(c)]
BY DEF Stage

LEMMA StageMoves ==
  ASSUME NEW c \in Call, NEW s, Stage(c)' = s,
         \A d \in Call \ {c} : id'[d] = id[d] /\ handling'[d] = handling[d]
  PROVE  [d \in Call |-> Stage(d)]' = [[d \in Call |-> Stage(d)] EXCEPT ![c] = s]
BY DEF Stage

\* A call that returns is a Return of Exchange.
LEMMA CallReturns ==
  ASSUME NEW c \in Call, UNCHANGED <<id, handling>>, result[c] = None,
         NEW r, r = Failed \/ (r = c /\ handling[c] = "done"),
         result' = [result EXCEPT ![c] = r]
  PROVE  XNext
<1>1. Exchanged!Return(c)
  BY StagesKept DEF Exchanged!Return, Stage
<1>2. QED
  BY <1>1 DEF XNext, Exchanged!Next

\* A call takes its id, or is refused.
LEMMA SendX ==
  ASSUME IInv, XInv, NEW c \in Call, Send(c), UNCHANGED handlerVars
  PROVE  XInv' /\ XNext
<1> USE DEF IInv, ClientIInv, ClientTypeOK, XInv, handlerVars
<1>1. at[c] = "idle" /\ id[c] = 0 /\ handling[c] = "none" /\ result[c] = None
  BY DEF Send, ClientNumbers, SentOnce, ReturnedOnce
<1>2. UNCHANGED <<channel, up, down, handling>>
  BY DEF Send
<1>3. CASE tearing # "no"
  <2>1. /\ at' = [at EXCEPT ![c] = "returned"] /\ result' = [result EXCEPT ![c] = Failed]
        /\ UNCHANGED id
    BY <1>3 DEF Send, Enter, Return
  <2>2. SentOnce'
    BY <1>1, <1>2, <2>1 DEF SentOnce
  <2>3. ReturnedOnce' /\ AnsweredLate'
    BY <1>1, <1>2, <2>1 DEF ReturnedOnce, AnsweredLate, LateFrames
  <2>4. XNext
    BY <1>1, <1>2, <2>1, CallReturns
  <2>5. QED
    BY <2>2, <2>3, <2>4
<1>4. CASE tearing = "no"
  <2>1. /\ at' = [at EXCEPT ![c] = "write"] /\ id' = [id EXCEPT ![c] = nextID + 1]
        /\ UNCHANGED result
    BY <1>4 DEF Send, Enter
  <2>2. \A i \in 1..Len(up) : up[i].call # c
    BY <1>1 DEF SentOnce
  <2>3. SentOnce'
    BY <1>1, <1>2, <2>1, <2>2 DEF SentOnce
  <2>4. ReturnedOnce' /\ AnsweredLate'
    BY <1>1, <1>2, <2>1 DEF ReturnedOnce, AnsweredLate, LateFrames
  <2>5. id'[c] # 0
    <3>1. nextID + 1 # 0
      BY IdsAreNumbers DEF ClientTypeOK
    <3>2. QED
      BY <2>1, <3>1
  <2>6. Stage(c) = "new" /\ Stage(c)' = "asked"
    BY <1>1, <1>2, <2>5 DEF Stage
  <2>7. [d \in Call |-> Stage(d)]' = [[d \in Call |-> Stage(d)] EXCEPT ![c] = "asked"]
    BY <1>2, <2>1, <2>6, StageMoves
  <2>8. Exchanged!Ask(c)
    BY <1>1, <2>1, <2>6, <2>7 DEF Exchanged!Ask, Exchanged!Goes
  <2>9. QED
    BY <2>3, <2>4, <2>8 DEF XNext, Exchanged!Next
<1>5. QED
  BY <1>3, <1>4

\* The other steps of a call: it is written once, and it returns once.
LEMMA CallX ==
  ASSUME IInv, XInv, NEW c \in Call, SendStep(c) \/ Abandon(c), UNCHANGED handlerVars
  PROVE  XInv' /\ XNext
<1> USE DEF IInv, ClientIInv, ClientTypeOK, XInv, handlerVars
<1>1. ASSUME UNCHANGED <<id, result>> PROVE XNext
  BY <1>1, StagesKept DEF XNext
<1>2. CASE WriteRequest(c) \/ Abandon(c)
  <2> DEFINE f == [id |-> id[c], call |-> c]
  <2>1. /\ at[c] \in {"write", "wait"} /\ UNCHANGED <<id, channel, result, down>>
        /\ at' = [at EXCEPT ![c] = "wait"] \/ at' = [at EXCEPT ![c] = "forget"]
    BY <1>2 DEF WriteRequest, Abandon
  <2>2. ReturnedOnce' /\ AnsweredLate'
    BY <2>1 DEF ReturnedOnce, AnsweredLate, LateFrames
  <2>3. up' = up \/ (at[c] = "write" /\ up' = Append(up, f))
    BY <1>2 DEF WriteRequest, Abandon
  <2>. \A i \in 1..Len(up) : up[i].call \in Call
    BY DEF SocketTrue, UpFrames
  <2>4. CASE up' = up
    <3>1. \A d \in Call : at[d] \notin {"idle", "write"} => at'[d] \notin {"idle", "write"}
      BY <2>1
    <3>2. \A d \in Call : at'[d] \in {"idle", "write"} => at[d] \in {"idle", "write"}
      BY <2>1
    <3>3. SentOnce'
      BY <2>4, <3>1, <3>2 DEF SentOnce
    <3>4. QED
      BY <1>1, <2>1, <2>2, <3>3
  <2>5. CASE at[c] = "write" /\ up' = Append(up, f)
    <3>1. up \in Seq(UpFrames) /\ f \in UpFrames
      BY <2>5 DEF SocketTrue, ClientNumbers, UpFrames
    <3>2. /\ Len(up') = Len(up) + 1 /\ Len(up) \in Nat
          /\ \A i \in 1..Len(up) : up'[i] = up[i]
          /\ up'[Len(up) + 1] = f /\ f.call = c
      BY <2>5, <3>1, FramesAppended
    <3>3. handling[c] = "none" /\ at'[c] \notin {"idle", "write"} /\ \A i \in 1..Len(up) : up[i].call # c
      BY <2>1, <2>5 DEF SentOnce
    <3>4. \A d \in Call : at'[d] \in {"idle", "write"} => at[d] \in {"idle", "write"}
      BY <2>1
    <3>5. SentOnce'
      <4>1. \A d \in Call : at'[d] \in {"idle", "write"} => handling[d] = "none"
        BY <3>4 DEF SentOnce
      <4>2. \A i \in 1..Len(up) + 1 : handling[up'[i].call] = "none" /\ at'[up'[i].call] \notin {"idle", "write"}
        <5>1. ASSUME NEW i \in 1..Len(up)
              PROVE  handling[up'[i].call] = "none" /\ at'[up'[i].call] \notin {"idle", "write"}
          BY <3>2, <2>1, <5>1 DEF SentOnce
        <5>2. QED
          BY <5>1, <3>2, <3>3
      <4>3. \A i, j \in 1..Len(up) + 1 : up'[i].call = up'[j].call => i = j
        <5>1. \A i, j \in 1..Len(up) : up'[i].call = up'[j].call => i = j
          BY <3>2 DEF SentOnce
        <5>2. \A i \in 1..Len(up) : up'[i].call # c
          BY <3>2, <3>3
        <5>3. QED
          BY <5>1, <5>2, <3>2
      <4>4. QED
        BY <3>2, <4>1, <4>2, <4>3 DEF SentOnce
    <3>6. QED
      BY <1>1, <2>1, <2>2, <3>5
  <2>6. QED
    BY <2>3, <2>4, <2>5
<1>3. CASE Receive(c) \/ SeeDone(c) \/ Forget(c)
  <2>1. PICK r : /\ at' = [at EXCEPT ![c] = "returned"] /\ result' = [result EXCEPT ![c] = r]
                 /\ r = Failed \/ (r = Head(channel[c]) /\ channel[c] # <<>>)
    BY <1>3 DEF Receive, SeeDone, Forget, Return
  <2>2. /\ at[c] \in {"wait", "forget"} /\ UNCHANGED <<id, up, down>>
        /\ channel' = channel \/ channel' = [channel EXCEPT ![c] = Tail(@)]
    BY <1>3 DEF Receive, SeeDone, Forget, Return
  <2>3. channel[c] # <<>> => channel[c] \in {<<c>>, <<Failed>>} /\ Tail(channel[c]) = <<>>
    BY Singles DEF ChannelsTrue
  <2>4. r = Failed \/ (r = c /\ handling[c] = "done")
    BY <2>1, <2>3, Singles DEF AnsweredLate
  <2>5. r # None /\ result[c] = None
    BY <2>2, <2>4 DEF ReturnedOnce
  <2>6. SentOnce' /\ ReturnedOnce'
    BY <2>1, <2>2, <2>5 DEF SentOnce, ReturnedOnce
  <2>7. AnsweredLate'
    <3>1. \A d \in Call : channel'[d] = channel[d] \/ channel'[d] # <<d>>
      <4>1. CASE Receive(c)
        BY <4>1, <2>3, Singles DEF Receive
      <4>2. CASE SeeDone(c) \/ Forget(c)
        BY <4>2 DEF SeeDone, Forget
      <4>3. QED
        BY <1>3, <4>1, <4>2
    <3>2. QED
      BY <2>2, <3>1 DEF AnsweredLate, LateFrames
  <2>8. XNext
    BY <2>1, <2>2, <2>4, <2>5, CallReturns
  <2>9. QED
    BY <2>6, <2>7, <2>8
<1>4. QED
  BY <1>2, <1>3 DEF SendStep
\* The reader hands out an answer that its handler has given; the end hands out none.
LEMMA ReaderX ==
  ASSUME IInv, XInv, ReaderStep \/ FailStep \/ Close, UNCHANGED handlerVars
  PROVE  XInv' /\ XNext
<1> USE DEF IInv, ClientIInv, ClientTypeOK, XInv, handlerVars
<1>1. UNCHANGED <<at, id, result, up>>
  BY DEF ReaderStep, ReadResponse, ReadFails, FailStep, HangUp, Complete, Close
<1>2. SentOnce' /\ ReturnedOnce' /\ XNext
  BY <1>1, StagesKept DEF SentOnce, ReturnedOnce, XNext
<1>3. LateFrames' = LateFrames
  BY DEF LateFrames
<1>4. CASE ReadResponse
  <2> DEFINE r == Head(down)
  <2>1. down # <<>> /\ down' = Tail(down)
    BY <1>4 DEF ReadResponse
  <2>2. down' \in Seq(LateFrames) /\ r \in LateFrames
    BY <2>1, FramesTaken DEF AnsweredLate
  <2>3. \A c \in Call : channel'[c] = channel[c] \/ channel'[c] = <<r.answer>>
    BY <1>4 DEF ReadResponse
  <2>4. \A c \in Call : channel'[c] = <<c>> => handling'[c] = "done"
    <3> SUFFICES ASSUME NEW c \in Call, channel'[c] = <<c>> PROVE handling[c] = "done"
      OBVIOUS
    <3>1. CASE channel'[c] = channel[c]
      BY <3>1 DEF AnsweredLate
    <3>2. CASE channel'[c] = <<r.answer>>
      <4>1. r.answer = c
        BY <3>2, Singles
      <4>2. QED
        BY <2>2, <4>1 DEF LateFrames
    <3>3. QED
      BY <2>3, <3>1, <3>2
  <2>5. QED
    BY <1>2, <1>3, <2>2, <2>4 DEF AnsweredLate
<1>5. CASE ReadFails \/ FailStep \/ Close
  <2>1. down' = down /\ \A c \in Call : channel'[c] = channel[c] \/ channel'[c] = <<Failed>>
    BY <1>5 DEF ReadFails, FailStep, HangUp, Complete, Close
  <2>2. \A c \in Call : channel'[c] = <<c>> => channel[c] = <<c>>
    BY <2>1, Singles
  <2>3. QED
    BY <1>2, <1>3, <2>1, <2>2 DEF AnsweredLate
<1>6. QED
  BY <1>4, <1>5 DEF ReaderStep

\* The daemon reads a request: it was not read before, and is not on the socket again.
LEMMA ReadRequestX ==
  ASSUME IInv, XInv, ReadRequest
  PROVE  XInv' /\ XNext
<1> USE DEF IInv, ClientIInv, ClientTypeOK, XInv, HandlersTypeOK
<1>1. up \in Seq(UpFrames) /\ up # <<>> /\ up' = Tail(up)
  BY DEF ReadRequest, SocketTrue
<1>2. PICK c \in Call : c = Head(up).call
  BY <1>1, FramesTaken DEF UpFrames
<1>3. /\ handling' = [handling EXCEPT ![c] = "running"]
      /\ UNCHANGED <<at, id, result, channel, down>>
  BY <1>2 DEF ReadRequest
<1>4. /\ Len(up) \in Nat /\ Len(up) >= 1 /\ up[1].call = c /\ up[1] \in UpFrames
      /\ Len(up') = Len(up) - 1
      /\ \A i \in 1..Len(up') : up'[i] = up[i + 1] /\ i + 1 \in 2..Len(up)
  BY <1>1, <1>2, FramesTaken
<1>5. handling[c] = "none" /\ at[c] \notin {"idle", "write"} /\ id[c] # 0
  BY <1>4, IdsAreNumbers DEF SentOnce, UpFrames
<1>6. SentOnce'
  <2>1. \A d \in Call : at'[d] \in {"idle", "write"} => handling'[d] = "none"
    BY <1>3, <1>5 DEF SentOnce
  <2>2. \A i \in 1..Len(up') : /\ up'[i].call # c
                               /\ handling[up'[i].call] = "none" /\ at[up'[i].call] \notin {"idle", "write"}
    <3> SUFFICES ASSUME NEW i \in 1..Len(up')
                 PROVE  /\ up'[i].call # c
                        /\ handling[up'[i].call] = "none" /\ at[up'[i].call] \notin {"idle", "write"}
      OBVIOUS
    <3>1. up'[i] = up[i + 1] /\ i + 1 \in 1..Len(up) /\ i + 1 # 1 /\ 1 \in 1..Len(up)
      BY <1>4
    <3>2. QED
      BY <3>1, <1>4 DEF SentOnce
  <2>3. \A i \in 1..Len(up') : up'[i].call \in Call
    BY <1>1, FramesTaken DEF UpFrames
  <2>4. \A i, j \in 1..Len(up') : up'[i].call = up'[j].call => i = j
    <3> SUFFICES ASSUME NEW i \in 1..Len(up'), NEW j \in 1..Len(up'), up'[i].call = up'[j].call PROVE i = j
      OBVIOUS
    <3>1. i + 1 \in 1..Len(up) /\ j + 1 \in 1..Len(up) /\ up[i + 1].call = up[j + 1].call
      BY <1>4
    <3>2. i + 1 = j + 1
      BY <3>1 DEF SentOnce
    <3>3. QED
      BY <3>2
  <2>5. QED
    BY <1>3, <2>1, <2>2, <2>3, <2>4 DEF SentOnce
<1>7. ReturnedOnce'
  BY <1>3 DEF ReturnedOnce
<1>8. AnsweredLate'
  <2>1. \A d \in Call : handling[d] = "done" => handling'[d] = "done"
    BY <1>3, <1>5
  <2>2. LateFrames \subseteq LateFrames'
    BY <2>1 DEF LateFrames, Answer
  <2>3. QED
    BY <1>3, <2>1, <2>2, SeqMonotonic DEF AnsweredLate
<1>9. XNext
  <2>1. Stage(c) = "asked" /\ Stage(c)' = "running"
    BY <1>3, <1>5 DEF Stage
  <2>2. [d \in Call |-> Stage(d)]' = [[d \in Call |-> Stage(d)] EXCEPT ![c] = "running"]
    BY <1>3, <2>1, StageMoves
  <2>3. Exchanged!Goes(c, "asked", "running")
    BY <1>3, <2>1, <2>2 DEF Exchanged!Goes
  <2>4. QED
    BY <2>3 DEF XNext, Exchanged!Next
<1>10. QED
  BY <1>6, <1>7, <1>8, <1>9

\* The handler answers for its own call, when it is done.
LEMMA ReplyX ==
  ASSUME IInv, XInv, NEW c \in Call, Reply(c)
  PROVE  XInv' /\ XNext
<1> USE DEF IInv, ClientIInv, ClientTypeOK, XInv, HandlersTypeOK
<1>1. PICK a \in Answer :
        /\ \/ asking[c] = "returned" /\ a = found[c]
           \/ asking[c] \in {"idle", "returned"} /\ a = Failed
        /\ down' = IF sock = "open" THEN Append(down, [id |-> handled[c], answer |-> a])
                   ELSE down
  BY DEF Reply
<1>2. /\ handling[c] = "running" /\ handling' = [handling EXCEPT ![c] = "done"]
      /\ UNCHANGED <<at, id, result, channel, up>>
  BY DEF Reply
<1>3. handled[c] \in Id /\ a \in {c, Failed}
  BY <1>1, <1>2 DEF HandlersTrue, ConnIInv, FoundTrue
<1>4. \A d \in Call : /\ handling[d] = "done" => handling'[d] = "done"
                      /\ handling[d] = "none" => handling'[d] = "none"
  BY <1>2
<1>5. AnsweredLate'
  <2>1. LateFrames \subseteq LateFrames'
    BY <1>4 DEF LateFrames, Answer
  <2>2. [id |-> handled[c], answer |-> a] \in LateFrames'
    BY <1>2, <1>3 DEF LateFrames
  <2>3. down \in Seq(LateFrames')
    BY <2>1, SeqMonotonic DEF AnsweredLate
  <2>4. down' \in Seq(LateFrames')
    BY <1>1, <2>2, <2>3
  <2>5. QED
    BY <1>2, <1>4, <2>4 DEF AnsweredLate
<1>6. SentOnce' /\ ReturnedOnce'
  <2>1. \A i \in 1..Len(up) : up[i].call \in Call
    BY DEF SocketTrue, UpFrames
  <2>2. QED
    BY <1>2, <1>4, <2>1 DEF SentOnce, ReturnedOnce
<1>7. XNext
  <2>1. Stage(c) = "running" /\ Stage(c)' = "done"
    BY <1>2 DEF Stage
  <2>2. [d \in Call |-> Stage(d)]' = [[d \in Call |-> Stage(d)] EXCEPT ![c] = "done"]
    BY <1>2, <2>1, StageMoves
  <2>3. Exchanged!Goes(c, "running", "done")
    BY <1>2, <2>1, <2>2 DEF Exchanged!Goes
  <2>4. QED
    BY <2>3 DEF XNext, Exchanged!Next
<1>8. QED
  BY <1>5, <1>6, <1>7

\* The daemon hangs up: what it has not read may be lost.
LEMMA HangUpX ==
  ASSUME XInv, DaemonHangsUp
  PROVE  XInv' /\ XNext
<1> USE DEF XInv, handlerVars
<1>1. up' \in {up, <<>>} /\ UNCHANGED <<at, id, result, channel, down, handling>>
  BY DEF DaemonHangsUp
<1>2. SentOnce'
  BY <1>1 DEF SentOnce
<1>3. ReturnedOnce' /\ AnsweredLate'
  BY <1>1 DEF ReturnedOnce, AnsweredLate, LateFrames
<1>4. XNext
  BY <1>1, StagesKept DEF XNext
<1>5. QED
  BY <1>2, <1>3, <1>4

\* Every step is one of Exchange, or shows nothing.
LEMMA ExchangeStep == IInv /\ XInv /\ [RequestsNext]_requestsVars => XInv' /\ XNext
<1> SUFFICES ASSUME IInv, XInv, [RequestsNext]_requestsVars PROVE XInv' /\ XNext
  OBVIOUS
<1>1. CASE Progress
  <2>1. ASSUME NEW c \in Call, Client(c) PROVE XInv' /\ XNext
    BY <2>1, CallX DEF Client
  <2>2. ASSUME NEW c \in Call, Query(c) \/ RequestTimeout(c) PROVE XInv' /\ XNext
    BY <2>2, XUnchanged DEF Query, RequestTimeout
  <2>3. ASSUME NEW c \in Call, Reply(c) PROVE XInv' /\ XNext
    BY <2>3, ReplyX
  <2>4. ASSUME ReadRequest PROVE XInv' /\ XNext
    BY <2>4, ReadRequestX
  <2>5. ASSUME ClientReader PROVE XInv' /\ XNext
    BY <2>5, ReaderX DEF ClientReader
  <2>6. ASSUME ConnReader \/ ServerListens PROVE XInv' /\ XNext
    BY <2>6, XUnchanged DEF ConnReader, ServerListens
  <2>7. QED
    BY <1>1, <2>1, <2>2, <2>3, <2>4, <2>5, <2>6 DEF Progress
<1>2. CASE ServerTalks
  BY <1>2, XUnchanged DEF ServerTalks
<1>3. ASSUME NEW c \in Call, Begin(c) PROVE XInv' /\ XNext
  BY <1>3, SendX DEF Begin
<1>4. CASE DaemonHangsUp
  BY <1>4, HangUpX
<1>5. CASE Trouble
  <2>1. CASE Close
    BY <1>5, <2>1, ReaderX DEF Trouble
  <2>2. ASSUME NEW c \in Call, Abandon(c) PROVE XInv' /\ XNext
    BY <1>5, <2>2, CallX DEF Trouble
  <2>3. CASE UNCHANGED clientVars
    BY <1>5, <2>3, XUnchanged DEF Trouble
  <2>4. QED
    BY <1>5, <2>1, <2>2, <2>3 DEF Trouble
<1>6. CASE UNCHANGED requestsVars
  BY <1>6, XUnchanged DEF requestsVars
<1>7. QED
  BY <1>1, <1>2, <1>3, <1>4, <1>5, <1>6 DEF RequestsNext, Finished

\* From the client's send to the server's answer and back, whatever closes, breaks, dies or
\* is given up: a call is handled at most once, returns once, and returns its own answer
\* only after its handler has finished.
THEOREM HandledAtMostOnce == RequestsSpec => ImplementsExchange
<1>1. RequestsInit => XInv /\ Exchanged!Init
  <2> SUFFICES ASSUME RequestsInit PROVE XInv /\ Exchanged!Init
    OBVIOUS
  <2> USE DEF RequestsInit, ClientInit
  <2>1. SentOnce /\ ReturnedOnce
    BY DEF SentOnce, ReturnedOnce
  <2>2. AnsweredLate
    BY DEF AnsweredLate
  <2>3. Exchanged!Init
    BY DEF Exchanged!Init, Stage
  <2>4. QED
    BY <2>1, <2>2, <2>3 DEF XInv
<1>2. QED
  BY <1>1, ExchangeStep, Inductive, PTL DEF RequestsSpec, ImplementsExchange, Exchanged!Spec, XNext,
     Exchanged!vars
=============================================================================
