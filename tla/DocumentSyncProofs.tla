-------------------------- MODULE DocumentSyncProofs --------------------------
(***************************************************************************)
(* Proofs about DocumentSync, for any number of operations, documents,     *)
(* texts, restarts and pushes, with and without versioned diagnostics.     *)
(***************************************************************************)
EXTENDS DocumentSync, FiniteSetTheorems, TLAPS

USE SyncAssumption DEF SyncAssumption

(* The inductive strengthening of SyncInv and of what the runs check.       *)

\* The parts of SyncInv about locks, and a replay that has nothing to do unless it runs.
Locks ==
  /\ holders = {o \in Op : InGate(o)} \cup (IF stage = "replaying" THEN {Restart} ELSE {})
  /\ stage = "replaying" => holders = {Restart}
  /\ \A o \in Op, p \in Path : lock[p] = o <=> HasLock(o) /\ P(o) = p
  /\ \A p \in Path : lock[p] = Restart => stage = "replaying" /\ p \in todo
  /\ todo \subseteq {p \in Path : text[p] # Closed}
  /\ stage # "replaying" => todo = {}

\* What kind of operation is where, and what its document's record is there.
AtWork ==
  \A o \in Op :
    /\ at[o] = "telling" => Kind(o) # "close"
    /\ at[o] \in {"inside", "answered", "restoring", "retelling"} => Kind(o) \notin {"open", "close"}
    /\ at[o] \in {"telling", "inside", "answered"} => text[P(o)] = job[o].text
    /\ at[o] = "closing" => text[P(o)] = Closed

\* A generation is published once, and an operation that told one keeps its replacement
\* from being published.
Generations ==
  /\ gen # 0
  /\ session # 0 => session = gen /\ stage = "none"
  /\ conn \in {"open", "broken"} /\ stage = "none" => session = gen
  /\ conn = "lost" => session = 0 /\ ~active /\ push = None
  /\ reading => push # None
  /\ \A o \in Op : mine[o] <= gen /\ (stage # "none" => mine[o] < gen)
  /\ \A o \in Op : at[o] \in {"telling", "inside", "answered", "restoring", "retelling"} =>
       mine[o] # 0 /\ session \in {0, mine[o]}

\* The process sees the record of every document that nobody is about to tell it of: when
\* it is served, and before that of every document that needs no replay any more.
Agreement ==
  /\ stage = "starting" => \A p \in Path : seen[p] = Closed
  /\ stage = "replaying" /\ conn = "open" => \A p \in Path \ todo : seen[p] = text[p]
  /\ session # 0 /\ conn = "open" =>
       \A p \in Path : \/ seen[p] = text[p]
                       \/ \E o \in Op : P(o) = p /\ at[o] \in {"telling", "retelling", "closing"}

\* A text that was seen under a version is the text of the record that has that version.
Truthful(p, t, v) ==
  v <= version[p] /\ (v = version[p] /\ text[p] # Closed => t = text[p])

\* So is what the process sees, says, and said: of what the reader accepted, of what it
\* kept, and of what is cached; all of it is of the latest generation.
Views ==
  /\ \A p \in Path : seenVersion[p] <= version[p]
  /\ \A p \in Path : seen[p] # Closed => Truthful(p, seen[p], seenVersion[p])
  /\ push # None =>
       push.gen = gen /\ (push.versioned => Truthful(push.path, push.text, push.version))
  /\ \A p \in Path : pending[p] # None =>
       /\ pending[p].gen = gen
       /\ pending[p].versioned => Truthful(p, pending[p].text, pending[p].version)
  /\ \A p \in Path : cache[p] # None =>
       /\ cache[p].gen = gen
       /\ cache[p].versioned => Truthful(p, cache[p].text, cache[p].version)

IInv == SyncTypeOK /\ Locks /\ AtWork /\ Generations /\ Agreement /\ Views
-----------------------------------------------------------------------------

\* What the records of the cache and the pushes are made of.
LEMMA Records ==
  /\ None \in Entries /\ None \in Pushes
  /\ \A e \in Entries : e # None =>
       e.epoch \in Nat /\ e.text \in Text \cup {Closed} /\ e.gen \in Nat /\ e.version \in Nat /\ e.versioned \in BOOLEAN
  /\ \A d \in Pushes : d # None =>
       d.path \in Path /\ d.text \in Text \cup {Closed} /\ d.gen \in Nat /\ d.version \in Nat /\ d.versioned \in BOOLEAN
  BY DEF Entries, Pushes

\* What an operation is about.
LEMMA OpTypes ==
  ASSUME SyncTypeOK, NEW o \in Op
  PROVE  P(o) \in Path /\ Kind(o) \in Kinds /\ job[o].text \in Text
  BY DEF SyncTypeOK, Jobs, P, Kind

\* A change of a document's record leaves no view that it makes untrue.
LEMMA Marked ==
  ASSUME SyncTypeOK, Views, NEW p \in Path, NEW t,
         text' = [text EXCEPT ![p] = t], cache' = [cache EXCEPT ![p] = None],
         \/ version' = [version EXCEPT ![p] = @ + 1]
         \/ t = Closed /\ version' = version,
         pending' \in {pending, [pending EXCEPT ![p] = None]},
         UNCHANGED <<gen, seen, seenVersion, push>>
  PROVE  Views'
<1> DEFINE Now(q, u, v) == v <= version'[q] /\ (v = version'[q] /\ text'[q] # Closed => u = text'[q])
<1>1. /\ \A q \in Path : version'[q] \in Nat /\ version[q] \in Nat /\ version[q] <= version'[q]
      /\ \A q \in Path : version'[q] = version[q] /\ text'[q] # Closed => text'[q] = text[q]
  BY DEF SyncTypeOK
<1>2. \A q \in Path, v \in Nat : \A u : Truthful(q, u, v) => Now(q, u, v)
  BY <1>1 DEF Truthful
<1> HIDE DEF Now
<1>3. /\ \A q \in Path : seenVersion[q] \in Nat /\ cache[q] \in Entries /\ pending[q] \in Entries
      /\ push \in Pushes
  BY DEF SyncTypeOK
<1>4. /\ \A q \in Path : seenVersion[q] <= version'[q]
      /\ \A q \in Path : seen[q] # Closed => Now(q, seen[q], seenVersion[q])
  BY <1>1, <1>2, <1>3 DEF Views
<1>5. push # None => push.gen = gen /\ (push.versioned => Now(push.path, push.text, push.version))
  BY <1>2, <1>3, Records DEF Views
<1>6. \A q \in Path : pending[q] # None =>
        pending[q].gen = gen /\ (pending[q].versioned => Now(q, pending[q].text, pending[q].version))
  BY <1>2, <1>3, Records DEF Views
<1>7. \A q \in Path : cache[q] # None =>
        cache[q].gen = gen /\ (cache[q].versioned => Now(q, cache[q].text, cache[q].version))
  BY <1>2, <1>3, Records DEF Views
<1>8. \A q \in Path : /\ cache'[q] # None => cache'[q] = cache[q]
                     /\ pending'[q] # None => pending'[q] = pending[q]
  BY DEF SyncTypeOK
<1>9. QED
  BY <1>4, <1>5, <1>6, <1>7, <1>8 DEF Views, Now, Truthful

\* An operation takes a lock, leaves one, or finds nothing to do.
LEMMA QuietKept ==
  ASSUME IInv, NEW o \in Op,
         \/ EnterGate(o) \/ LockPath(o) \/ UnlockPath(o) \/ LeaveGate(o) \/ ServerDown(o)
         \/ OpenAgain(o) \/ RefuseText(o) \/ SameText(o) \/ Callback(o) \/ Query(o)
         \/ Settle(o) \/ GiveUpSettling(o) \/ Answer(o)
  PROVE  IInv'
<1>0. P(o) \in Path /\ Kind(o) \in Kinds /\ job[o].text \in Text
  BY OpTypes DEF IInv
<1> USE <1>0
<1> USE DEF IInv, docVars, genVars, seenVars, candVars, pushVars, cacheVars, opVars,
        P, Kind, Goto, InGate, HasLock, Truthful
<1>1. Views'
  <2>1. UNCHANGED <<docVars, gen, seenVars, push, pending, cacheVars>>
    BY DEF EnterGate, LockPath, UnlockPath, LeaveGate, ServerDown, OpenAgain, RefuseText, SameText,
         Callback, Query, Settle, GiveUpSettling, Answer
  <2>2. QED
    BY <2>1 DEF Views
<1>2. CASE EnterGate(o)
  <2> USE <1>2 DEF EnterGate
  <2>1. SyncTypeOK'
    BY DEF SyncTypeOK, Points
  <2>2. Locks'
    BY DEF Locks, SyncTypeOK
  <2>3. AtWork' /\ Agreement'
    BY DEF AtWork, Agreement, Generations, Locks, SyncTypeOK
  <2>4. Generations'
    BY DEF Generations, Locks, SyncTypeOK
  <2>5. QED
    BY <1>1, <2>1, <2>2, <2>3, <2>4 DEF IInv
<1>3. CASE LockPath(o)
  <2> USE <1>3 DEF LockPath
  <2>1. SyncTypeOK'
    BY DEF SyncTypeOK, Points
  <2>2. Locks'
    BY DEF Locks, SyncTypeOK
  <2>3. AtWork' /\ Agreement'
    BY DEF AtWork, Agreement, Generations, Locks, SyncTypeOK
  <2>4. Generations'
    BY DEF Generations, Locks, SyncTypeOK
  <2>5. QED
    BY <1>1, <2>1, <2>2, <2>3, <2>4 DEF IInv
<1>4. CASE UnlockPath(o)
  <2> USE <1>4 DEF UnlockPath
  <2>1. SyncTypeOK'
    BY DEF SyncTypeOK, Points
  <2>2. Locks'
    BY DEF Locks, SyncTypeOK
  <2>3. AtWork' /\ Agreement'
    BY DEF AtWork, Agreement, Generations, Locks, SyncTypeOK
  <2>4. Generations'
    BY DEF Generations, Locks, SyncTypeOK
  <2>5. QED
    BY <1>1, <2>1, <2>2, <2>3, <2>4 DEF IInv
<1>5. CASE LeaveGate(o)
  <2> USE <1>5 DEF LeaveGate
  <2>1. SyncTypeOK'
    BY DEF SyncTypeOK, Points
  <2>2. Locks'
    BY DEF Locks, SyncTypeOK
  <2>3. AtWork' /\ Agreement'
    BY DEF AtWork, Agreement, Generations, Locks, SyncTypeOK
  <2>4. Generations'
    BY DEF Generations, Locks, SyncTypeOK
  <2>5. QED
    BY <1>1, <2>1, <2>2, <2>3, <2>4 DEF IInv
<1>6. CASE ServerDown(o)
  <2> USE <1>6 DEF ServerDown
  <2>1. SyncTypeOK'
    BY DEF SyncTypeOK, Points
  <2>2. Locks'
    BY DEF Locks, SyncTypeOK
  <2>3. AtWork' /\ Agreement'
    BY DEF AtWork, Agreement, Generations, Locks, SyncTypeOK
  <2>4. Generations'
    BY DEF Generations, Locks, SyncTypeOK
  <2>5. QED
    BY <1>1, <2>1, <2>2, <2>3, <2>4 DEF IInv
<1>7. CASE OpenAgain(o)
  <2> USE <1>7 DEF OpenAgain
  <2>1. SyncTypeOK'
    <3>1. CurrentFor(P(o)) \in Nat
      <4>1. epoch \in Nat /\ cache[P(o)] \in Entries
        BY DEF SyncTypeOK
      <4>2. QED
        BY ONLY <4>1, Records DEF CurrentFor
    <3>2. since' \in [Op -> Nat] /\ base' \in [Op -> Text \cup {Closed}] /\ mine' \in [Op -> 0..MaxGeneration]
      BY <3>1 DEF SyncTypeOK
    <3>3. at' \in [Op -> Points]
      BY DEF SyncTypeOK, Points
    <3>4. QED
      BY <3>2, <3>3 DEF SyncTypeOK
  <2>2. Locks'
    BY DEF Locks, SyncTypeOK
  <2>3. AtWork' /\ Agreement'
    BY DEF AtWork, Agreement, Generations, Locks, SyncTypeOK
  <2>4. Generations'
    BY DEF Generations, Locks, SyncTypeOK
  <2>5. QED
    BY <1>1, <2>1, <2>2, <2>3, <2>4 DEF IInv
<1>8. CASE RefuseText(o)
  <2> USE <1>8 DEF RefuseText
  <2>1. SyncTypeOK'
    BY DEF SyncTypeOK, Points
  <2>2. Locks'
    BY DEF Locks, SyncTypeOK
  <2>3. AtWork' /\ Agreement'
    BY DEF AtWork, Agreement, Generations, Locks, SyncTypeOK
  <2>4. Generations'
    BY DEF Generations, Locks, SyncTypeOK
  <2>5. QED
    BY <1>1, <2>1, <2>2, <2>3, <2>4 DEF IInv
<1>9. CASE SameText(o)
  <2> USE <1>9 DEF SameText
  <2>1. SyncTypeOK'
    <3>1. CurrentFor(P(o)) \in Nat
      <4>1. epoch \in Nat /\ cache[P(o)] \in Entries
        BY DEF SyncTypeOK
      <4>2. QED
        BY ONLY <4>1, Records DEF CurrentFor
    <3>2. since' \in [Op -> Nat] /\ base' \in [Op -> Text \cup {Closed}] /\ mine' \in [Op -> 0..MaxGeneration]
      BY <3>1 DEF SyncTypeOK
    <3>3. at' \in [Op -> Points]
      BY DEF SyncTypeOK, Points
    <3>4. QED
      BY <3>2, <3>3 DEF SyncTypeOK
  <2>2. Locks'
    BY DEF Locks, SyncTypeOK
  <2>3. AtWork' /\ Agreement'
    BY DEF AtWork, Agreement, Generations, Locks, SyncTypeOK
  <2>4. Generations'
    BY DEF Generations, Locks, SyncTypeOK
  <2>5. QED
    BY <1>1, <2>1, <2>2, <2>3, <2>4 DEF IInv
<1>10. CASE Callback(o)
  <2> USE <1>10 DEF Callback
  <2>1. SyncTypeOK'
    BY DEF SyncTypeOK, Points
  <2>2. Locks'
    BY DEF Locks, SyncTypeOK
  <2>3. AtWork' /\ Agreement'
    BY DEF AtWork, Agreement, Generations, Locks, SyncTypeOK
  <2>4. Generations'
    BY DEF Generations, Locks, SyncTypeOK
  <2>5. QED
    BY <1>1, <2>1, <2>2, <2>3, <2>4 DEF IInv
<1>11. CASE Query(o)
  <2> USE <1>11 DEF Query
  <2>1. SyncTypeOK'
    BY DEF SyncTypeOK, Points
  <2>2. Locks'
    BY DEF Locks, SyncTypeOK
  <2>3. AtWork' /\ Agreement'
    BY DEF AtWork, Agreement, Generations, Locks, SyncTypeOK
  <2>4. Generations'
    BY DEF Generations, Locks, SyncTypeOK
  <2>5. QED
    BY <1>1, <2>1, <2>2, <2>3, <2>4 DEF IInv
<1>12. CASE Settle(o)
  <2> USE <1>12 DEF Settle
  <2>1. SyncTypeOK'
    BY DEF SyncTypeOK, Points
  <2>2. Locks'
    BY DEF Locks, SyncTypeOK
  <2>3. AtWork' /\ Agreement'
    BY DEF AtWork, Agreement, Generations, Locks, SyncTypeOK
  <2>4. Generations'
    BY DEF Generations, Locks, SyncTypeOK
  <2>5. QED
    BY <1>1, <2>1, <2>2, <2>3, <2>4 DEF IInv
<1>13. CASE GiveUpSettling(o)
  <2> USE <1>13 DEF GiveUpSettling
  <2>1. SyncTypeOK'
    BY DEF SyncTypeOK, Points
  <2>2. Locks'
    BY DEF Locks, SyncTypeOK
  <2>3. AtWork' /\ Agreement'
    BY DEF AtWork, Agreement, Generations, Locks, SyncTypeOK
  <2>4. Generations'
    BY DEF Generations, Locks, SyncTypeOK
  <2>5. QED
    BY <1>1, <2>1, <2>2, <2>3, <2>4 DEF IInv
<1>14. CASE Answer(o)
  <2> USE <1>14 DEF Answer
  <2>1. SyncTypeOK'
    BY DEF SyncTypeOK, Points
  <2>2. Locks'
    BY DEF Locks, SyncTypeOK
  <2>3. AtWork' /\ Agreement'
    BY DEF AtWork, Agreement, Generations, Locks, SyncTypeOK
  <2>4. Generations'
    BY DEF Generations, Locks, SyncTypeOK
  <2>5. QED
    BY <1>1, <2>1, <2>2, <2>3, <2>4 DEF IInv
<1>15. QED
  BY <1>2, <1>3, <1>4, <1>5, <1>6, <1>7, <1>8, <1>9, <1>10, <1>11, <1>12, <1>13, <1>14

\* An operation changes the record of its document or tells the server of it.
LEMMA WorkKept ==
  ASSUME IInv, NEW o \in Op,
         \/ Change(o) \/ TellServer(o) \/ RestoreRecord(o) \/ RestoreServer(o)
         \/ CloseRecord(o) \/ CloseServer(o)
  PROVE  IInv'
<1>0. P(o) \in Path /\ Kind(o) \in Kinds /\ job[o].text \in Text
  BY OpTypes DEF IInv
<1> USE <1>0
<1> USE DEF IInv, docVars, genVars, seenVars, candVars, pushVars, cacheVars, opVars,
        P, Kind, Goto, InGate, HasLock, Truthful
<1>1. CASE Change(o)
  <2> USE <1>1 DEF Change, Tell, Mark, MarkClosed, Written, MayBeLost
  <2>1. SyncTypeOK'
    BY Records DEF SyncTypeOK, Points
  <2>2. Locks'
    BY DEF Locks, SyncTypeOK
  <2>3. AtWork'
    BY DEF AtWork, Locks, SyncTypeOK
  <2>4. Generations'
    BY DEF Generations, Locks, SyncTypeOK
  <2>5. Agreement'
    BY DEF Agreement, Generations, AtWork, Locks, SyncTypeOK
  <2>6. Views'
    <3>1. SyncTypeOK /\ Views /\ P(o) \in Path
      OBVIOUS
    <3>2. /\ text' = [text EXCEPT ![P(o)] = job[o].text] /\ cache' = [cache EXCEPT ![P(o)] = None]
          /\ version' = [version EXCEPT ![P(o)] = @ + 1]
          /\ UNCHANGED <<gen, seen, seenVersion, push, pending>>
      OBVIOUS
    <3>3. QED
      BY ONLY <3>1, <3>2, Marked
  <2>7. QED
    BY <2>1, <2>2, <2>3, <2>4, <2>5, <2>6 DEF IInv
<1>2. CASE TellServer(o)
  <2> USE <1>2 DEF TellServer, Tell, Mark, MarkClosed, Written, MayBeLost
  <2>1. SyncTypeOK'
    <3>1. seen' \in [Path -> Text \cup {Closed}] /\ seenVersion' \in [Path -> Nat]
      BY DEF SyncTypeOK
    <3>2. text' \in [Path -> Text \cup {Closed}] /\ since' \in [Op -> Nat]
      BY DEF SyncTypeOK
    <3>3. at' \in [Op -> Points]
      BY DEF SyncTypeOK, Points
    <3>4. UNCHANGED <<version, cache>>
      OBVIOUS
    <3>5. QED
      BY <3>1, <3>2, <3>3, <3>4 DEF SyncTypeOK
  <2>2. Locks'
    BY DEF Locks, SyncTypeOK
  <2>3. AtWork'
    <3>1. \A q \in Op : q # o => at'[q] = at[q]
      BY DEF SyncTypeOK
    <3>2. \A q \in Op : q # o /\ HasLock(q) => P(q) # P(o) /\ P(q) \in Path
      BY OpTypes DEF Locks, SyncTypeOK
    <3>3. \A q \in Path : q # P(o) => text'[q] = text[q]
      BY DEF SyncTypeOK
    <3>4. QED
      BY <3>1, <3>2, <3>3 DEF AtWork, SyncTypeOK
  <2>4. Generations'
    BY DEF Generations, Locks, SyncTypeOK
  <2>5. Agreement'
    BY DEF Agreement, Generations, AtWork, Locks, SyncTypeOK
  <2>6. Views'
    <3>1. \/ UNCHANGED text
          \/ text' = [text EXCEPT ![P(o)] = Closed] /\ UNCHANGED seenVars
      OBVIOUS
    <3>2. UNCHANGED <<version, cache, gen, push, pending>>
      OBVIOUS
    <3>3. \A q \in Path : \/ seen'[q] = seen[q] /\ seenVersion'[q] = seenVersion[q]
                          \/ /\ seen'[q] = text[q] /\ seenVersion'[q] \in {seenVersion[q], version[q]}
                             /\ text[q] # Closed => seenVersion'[q] = version[q]
      BY DEF SyncTypeOK
    <3>4. CASE UNCHANGED text
      BY <3>2, <3>3, <3>4 DEF Views, SyncTypeOK
    <3>5. CASE text' = [text EXCEPT ![P(o)] = Closed] /\ UNCHANGED seenVars
      BY <3>2, <3>5 DEF Views, SyncTypeOK
    <3>6. QED
      BY <3>1, <3>4, <3>5
  <2>7. QED
    BY <2>1, <2>2, <2>3, <2>4, <2>5, <2>6 DEF IInv
<1>3. CASE RestoreRecord(o)
  <2> USE <1>3 DEF RestoreRecord, Tell, Mark, MarkClosed, Written, MayBeLost
  <2>1. SyncTypeOK'
    BY Records DEF SyncTypeOK, Points
  <2>2. Locks'
    BY DEF Locks, SyncTypeOK
  <2>3. AtWork'
    <3>1. \A q \in Op : q # o => at'[q] = at[q]
      BY DEF SyncTypeOK
    <3>2. \A q \in Op : q # o /\ HasLock(q) => P(q) # P(o) /\ P(q) \in Path
      BY OpTypes DEF Locks, SyncTypeOK
    <3>3. \A q \in Path : q # P(o) => text'[q] = text[q]
      BY DEF SyncTypeOK
    <3>4. QED
      BY <3>1, <3>2, <3>3 DEF AtWork, SyncTypeOK
  <2>4. Generations'
    BY DEF Generations, Locks, SyncTypeOK
  <2>5. Agreement'
    BY DEF Agreement, Generations, AtWork, Locks, SyncTypeOK
  <2>6. Views'
    <3>1. SyncTypeOK /\ Views /\ P(o) \in Path
      OBVIOUS
    <3>2. /\ text' = [text EXCEPT ![P(o)] = base[o]] /\ cache' = [cache EXCEPT ![P(o)] = None]
          /\ \/ version' = [version EXCEPT ![P(o)] = @ + 1]
             \/ base[o] = Closed /\ version' = version
          /\ UNCHANGED <<gen, seen, seenVersion, push, pending>>
      OBVIOUS
    <3>3. QED
      BY ONLY <3>1, <3>2, Marked
  <2>7. QED
    BY <2>1, <2>2, <2>3, <2>4, <2>5, <2>6 DEF IInv
<1>4. CASE RestoreServer(o)
  <2> USE <1>4 DEF RestoreServer, Tell, Mark, MarkClosed, Written, MayBeLost
  <2>1. SyncTypeOK'
    BY DEF SyncTypeOK, Points
  <2>2. Locks'
    BY DEF Locks, SyncTypeOK
  <2>3. AtWork'
    BY DEF AtWork, Locks, SyncTypeOK
  <2>4. Generations'
    BY DEF Generations, Locks, SyncTypeOK
  <2>5. Agreement'
    BY DEF Agreement, Generations, AtWork, Locks, SyncTypeOK
  <2>6. Views'
    BY DEF Views, Generations, SyncTypeOK
  <2>7. QED
    BY <2>1, <2>2, <2>3, <2>4, <2>5, <2>6 DEF IInv
<1>5. CASE CloseRecord(o)
  <2> USE <1>5 DEF CloseRecord, Tell, Mark, MarkClosed, Written, MayBeLost
  <2>1. SyncTypeOK'
    BY Records DEF SyncTypeOK, Points
  <2>2. Locks'
    BY DEF Locks, SyncTypeOK
  <2>3. AtWork'
    <3>1. \A q \in Op : q # o => at'[q] = at[q]
      BY DEF SyncTypeOK
    <3>2. \A q \in Op : q # o /\ HasLock(q) => P(q) # P(o) /\ P(q) \in Path
      BY OpTypes DEF Locks, SyncTypeOK
    <3>3. \A q \in Path : q # P(o) => text'[q] = text[q]
      BY DEF SyncTypeOK
    <3>4. QED
      BY <3>1, <3>2, <3>3 DEF AtWork, SyncTypeOK
  <2>4. Generations'
    BY DEF Generations, Locks, SyncTypeOK
  <2>5. Agreement'
    BY DEF Agreement, Generations, AtWork, Locks, SyncTypeOK
  <2>6. Views'
    <3>1. SyncTypeOK /\ Views /\ P(o) \in Path
      OBVIOUS
    <3>2. CASE text[P(o)] = Closed
      BY <3>2 DEF Views
    <3>3. CASE text[P(o)] # Closed
      <4>1. /\ text' = [text EXCEPT ![P(o)] = Closed] /\ cache' = [cache EXCEPT ![P(o)] = None]
            /\ UNCHANGED <<version, gen, seen, seenVersion, push, pending>>
        BY <3>3
      <4>2. QED
        BY ONLY <3>1, <4>1, Marked
    <3>4. QED
      BY <3>2, <3>3
  <2>7. QED
    BY <2>1, <2>2, <2>3, <2>4, <2>5, <2>6 DEF IInv
<1>6. CASE CloseServer(o)
  <2> USE <1>6 DEF CloseServer, Tell, Mark, MarkClosed, Written, MayBeLost
  <2>1. SyncTypeOK'
    BY DEF SyncTypeOK, Points
  <2>2. Locks'
    BY DEF Locks, SyncTypeOK
  <2>3. AtWork'
    BY DEF AtWork, Locks, SyncTypeOK
  <2>4. Generations'
    BY DEF Generations, Locks, SyncTypeOK
  <2>5. Agreement'
    BY DEF Agreement, Generations, AtWork, Locks, SyncTypeOK
  <2>6. Views'
    BY DEF Views, Generations, SyncTypeOK
  <2>7. QED
    BY <2>1, <2>2, <2>3, <2>4, <2>5, <2>6 DEF IInv
<1>7. QED
  BY <1>1, <1>2, <1>3, <1>4, <1>5, <1>6

\* The server dies, is started again, and is told of what is open.
LEMMA ServerKept ==
  ASSUME IInv, \/ Break \/ Hangup \/ LoseSession \/ Start \/ StartFails \/ BeginReplay \/ PublishSession
  PROVE  IInv'
<1> USE DEF IInv, docVars, genVars, seenVars, candVars, pushVars, cacheVars, opVars,
        P, Kind, Goto, InGate, HasLock, Truthful
<1>1. CASE Break
  <2> USE <1>1 DEF Break
  <2>1. SyncTypeOK'
    BY DEF SyncTypeOK, Points
  <2>2. Locks'
    BY DEF Locks, SyncTypeOK
  <2>3. AtWork'
    BY DEF AtWork, Locks, SyncTypeOK
  <2>4. Generations'
    BY DEF Generations, Locks, SyncTypeOK
  <2>5. Agreement'
    BY DEF Agreement, Generations, AtWork, Locks, SyncTypeOK
  <2>6. Views'
    BY DEF Views, Generations, SyncTypeOK
  <2>7. QED
    BY <2>1, <2>2, <2>3, <2>4, <2>5, <2>6 DEF IInv
<1>2. CASE Hangup
  <2> USE <1>2 DEF Hangup
  <2>1. SyncTypeOK'
    BY DEF SyncTypeOK, Points
  <2>2. Locks'
    BY DEF Locks, SyncTypeOK
  <2>3. AtWork'
    BY DEF AtWork, Locks, SyncTypeOK
  <2>4. Generations'
    BY DEF Generations, Locks, SyncTypeOK
  <2>5. Agreement'
    BY DEF Agreement, Generations, AtWork, Locks, SyncTypeOK
  <2>6. Views'
    BY DEF Views, Generations, SyncTypeOK
  <2>7. QED
    BY <2>1, <2>2, <2>3, <2>4, <2>5, <2>6 DEF IInv
<1>3. CASE LoseSession
  <2> USE <1>3 DEF LoseSession
  <2>1. SyncTypeOK'
    <3>1. pending' \in [Path -> Entries] /\ push' \in Pushes
      BY Records
    <3>2. session' \in 0..MaxGeneration /\ armed' \subseteq Path
      OBVIOUS
    <3>3. UNCHANGED <<text, version, lock, holders, gen, stage, todo, seen, seenVersion, reading, pushes,
                      epoch, cache, at, job, mine, base, since>>
      OBVIOUS
    <3>4. QED
      BY <3>1, <3>2, <3>3 DEF SyncTypeOK
  <2>2. Locks'
    BY DEF Locks, SyncTypeOK
  <2>3. AtWork'
    BY DEF AtWork, Locks, SyncTypeOK
  <2>4. Generations'
    BY DEF Generations, Locks, SyncTypeOK
  <2>5. Agreement'
    BY DEF Agreement, Generations, AtWork, Locks, SyncTypeOK
  <2>6. Views'
    BY DEF Views, Generations, SyncTypeOK
  <2>7. QED
    BY <2>1, <2>2, <2>3, <2>4, <2>5, <2>6 DEF IInv
<1>4. CASE Start
  <2> USE <1>4 DEF Start
  <2>1. SyncTypeOK'
    <3>1. pending' \in [Path -> Entries] /\ cache' \in [Path -> Entries]
      BY Records
    <3>2. seen' \in [Path -> Text \cup {Closed}] /\ seenVersion' \in [Path -> Nat]
      OBVIOUS
    <3>3. gen' \in 0..MaxGeneration
      BY DEF SyncTypeOK
    <3>4. QED
      BY <3>1, <3>2, <3>3 DEF SyncTypeOK
  <2>2. Locks'
    BY DEF Locks, SyncTypeOK
  <2>3. AtWork'
    BY DEF AtWork, Locks, SyncTypeOK
  <2>4. Generations'
    BY DEF Generations, Locks, SyncTypeOK
  <2>5. Agreement'
    BY DEF Agreement, Generations, AtWork, Locks, SyncTypeOK
  <2>6. Views'
    BY DEF Views, Generations, SyncTypeOK
  <2>7. QED
    BY <2>1, <2>2, <2>3, <2>4, <2>5, <2>6 DEF IInv
<1>5. CASE StartFails
  <2> USE <1>5 DEF StartFails
  <2>1. SyncTypeOK'
    BY DEF SyncTypeOK, Points
  <2>2. Locks'
    BY DEF Locks, SyncTypeOK
  <2>3. AtWork'
    BY DEF AtWork, Locks, SyncTypeOK
  <2>4. Generations'
    BY DEF Generations, Locks, SyncTypeOK
  <2>5. Agreement'
    BY DEF Agreement, Generations, AtWork, Locks, SyncTypeOK
  <2>6. Views'
    BY DEF Views, Generations, SyncTypeOK
  <2>7. QED
    BY <2>1, <2>2, <2>3, <2>4, <2>5, <2>6 DEF IInv
<1>6. CASE BeginReplay
  <2> USE <1>6 DEF BeginReplay
  <2>1. SyncTypeOK'
    BY DEF SyncTypeOK, Points
  <2>2. Locks'
    BY DEF Locks, SyncTypeOK
  <2>3. AtWork'
    BY DEF AtWork, Locks, SyncTypeOK
  <2>4. Generations'
    BY DEF Generations, Locks, SyncTypeOK
  <2>5. Agreement'
    BY DEF Agreement, Generations, AtWork, Locks, SyncTypeOK
  <2>6. Views'
    BY DEF Views, Generations, SyncTypeOK
  <2>7. QED
    BY <2>1, <2>2, <2>3, <2>4, <2>5, <2>6 DEF IInv
<1>7. CASE PublishSession
  <2> USE <1>7 DEF PublishSession, Activate
  <2>1. SyncTypeOK'
    <3>1. epoch' \in Nat
      <4>1. IsFiniteSet({p \in Path : pending[p] # None})
        BY FS_Subset
      <4>2. Cardinality({p \in Path : pending[p] # None}) \in Nat
        BY <4>1, FS_CardinalityType
      <4>3. QED
        BY <4>2 DEF SyncTypeOK
    <3>2. \A p \in Path : pending[p] # None => [pending[p] EXCEPT !.epoch = epoch'] \in Entries
      <4> TAKE p \in Path
      <4>1. pending[p] \in Entries
        BY DEF SyncTypeOK
      <4>2. QED
        BY <3>1, <4>1 DEF Entries
    <3>3. cache' \in [Path -> Entries]
      BY <3>2 DEF SyncTypeOK
    <3>4. pending' \in [Path -> Entries]
      BY Records
    <3>5. QED
      BY <3>1, <3>3, <3>4 DEF SyncTypeOK
  <2>2. Locks'
    BY DEF Locks, SyncTypeOK
  <2>3. AtWork'
    BY DEF AtWork, Locks, SyncTypeOK
  <2>4. Generations'
    BY DEF Generations, Locks, SyncTypeOK
  <2>5. Agreement'
    BY DEF Agreement, Generations, AtWork, Locks, SyncTypeOK
  <2>6. Views'
    BY DEF Views, Generations, SyncTypeOK
  <2>7. QED
    BY <2>1, <2>2, <2>3, <2>4, <2>5, <2>6 DEF IInv
<1>8. QED
  BY <1>1, <1>2, <1>3, <1>4, <1>5, <1>6, <1>7

\* One document is replayed.
LEMMA ReplayKept ==
  ASSUME IInv, NEW p \in Path, Replay(p) \/ ReplayServer(p)
  PROVE  IInv'
<1> USE DEF IInv, docVars, genVars, seenVars, candVars, pushVars, cacheVars, opVars,
        P, Kind, Goto, InGate, HasLock, Truthful
<1>1. CASE Replay(p)
  <2> USE <1>1 DEF Replay, Tell, Mark, MarkClosed, Written, MayBeLost
  <2>1. SyncTypeOK'
    BY Records DEF SyncTypeOK, Points
  <2>2. Locks'
    BY DEF Locks, SyncTypeOK
  <2>3. AtWork'
    BY DEF AtWork, Locks, SyncTypeOK
  <2>4. Generations'
    BY DEF Generations, Locks, SyncTypeOK
  <2>5. Agreement'
    BY DEF Agreement, Generations, AtWork, Locks, SyncTypeOK
  <2>6. Views'
    <3>1. SyncTypeOK /\ Views /\ p \in Path
      OBVIOUS
    <3>2. /\ text' = [text EXCEPT ![p] = text[p]] /\ cache' = [cache EXCEPT ![p] = None]
          /\ version' = [version EXCEPT ![p] = @ + 1]
          /\ pending' = [pending EXCEPT ![p] = None]
          /\ UNCHANGED <<gen, seen, seenVersion, push>>
      OBVIOUS
    <3>3. QED
      BY ONLY <3>1, <3>2, Marked
  <2>7. QED
    BY <2>1, <2>2, <2>3, <2>4, <2>5, <2>6 DEF IInv
<1>2. CASE ReplayServer(p)
  <2> USE <1>2 DEF ReplayServer, Tell, Mark, MarkClosed, Written, MayBeLost
  <2>1. SyncTypeOK'
    BY DEF SyncTypeOK, Points
  <2>2. Locks'
    BY DEF Locks, SyncTypeOK
  <2>3. AtWork'
    BY DEF AtWork, Locks, SyncTypeOK
  <2>4. Generations'
    BY DEF Generations, Locks, SyncTypeOK
  <2>5. Agreement'
    BY DEF Agreement, Generations, AtWork, Locks, SyncTypeOK
  <2>6. Views'
    BY DEF Views, Generations, SyncTypeOK
  <2>7. QED
    BY <2>1, <2>2, <2>3, <2>4, <2>5, <2>6 DEF IInv
<1>3. QED
  BY <1>1, <1>2

\* A push is sent, accepted, and recorded.
LEMMA PushKept ==
  ASSUME IInv, PushStep
  PROVE  IInv'
<1> USE DEF IInv, docVars, genVars, seenVars, candVars, pushVars, cacheVars, opVars,
        P, Kind, Goto, InGate, HasLock, Truthful
<1>1. ASSUME NEW p \in Path, Analyse(p) PROVE IInv'
  <2> USE <1>1 DEF Analyse
  <2>1. SyncTypeOK'
    <3>1. push' \in Pushes
      <4>1. seen[p] \in Text \cup {Closed} /\ gen \in Nat /\ seenVersion[p] \in Nat /\ (Versioned /\ seen[p] # Closed) \in BOOLEAN
        BY DEF SyncTypeOK
      <4>2. push' = [kind |-> "diagnostics", path |-> p, text |-> seen[p], gen |-> gen,
              version |-> seenVersion[p], versioned |-> Versioned /\ seen[p] # Closed]
        OBVIOUS
      <4>3. QED
        BY ONLY <4>1, <4>2, p \in Path DEF Pushes
    <3>2. pushes' \in 0..MaxPushes
      BY DEF SyncTypeOK
    <3>3. QED
      BY <3>1, <3>2 DEF SyncTypeOK
  <2>2. Locks' /\ AtWork' /\ Agreement'
    BY DEF Locks, AtWork, Agreement
  <2>3. Generations'
    BY DEF Generations, SyncTypeOK
  <2>4. Views'
    BY DEF Views, Generations, SyncTypeOK
  <2>5. QED
    BY <2>1, <2>2, <2>3, <2>4 DEF IInv
<1>2. CASE Receive
  <2> USE <1>2 DEF Receive, Accepts
  <2>1. SyncTypeOK'
    BY Records DEF SyncTypeOK, Points
  <2>2. Locks' /\ AtWork' /\ Agreement'
    BY DEF Locks, AtWork, Agreement
  <2>3. Generations'
    BY DEF Generations, SyncTypeOK
  <2>4. Views'
    BY DEF Views, Generations, SyncTypeOK
  <2>5. QED
    BY <2>1, <2>2, <2>3, <2>4 DEF IInv
<1>3. CASE Record
  <2> USE <1>3 DEF Record, Entry
  <2>1. SyncTypeOK'
    <3>1. push \in Pushes /\ push # None /\ epoch \in Nat
      BY DEF SyncTypeOK, Generations
    <3>2. Entry(push) \in Entries /\ [Entry(push) EXCEPT !.epoch = epoch + 1] \in Entries
      BY <3>1, Records DEF Entries
    <3>3. pending' \in [Path -> Entries] /\ cache' \in [Path -> Entries] /\ epoch' \in Nat
      BY <3>1, <3>2 DEF SyncTypeOK
    <3>4. push' \in Pushes /\ reading' \in BOOLEAN
      BY Records
    <3>5. UNCHANGED <<session, text, version, lock, holders, gen, conn, stage, todo, seen, seenVersion,
                      active, armed, pushes, at, job, mine, base, since>>
      OBVIOUS
    <3>6. QED
      BY <3>3, <3>4, <3>5 DEF SyncTypeOK
  <2>2. Locks' /\ AtWork' /\ Agreement'
    BY DEF Locks, AtWork, Agreement
  <2>3. Generations'
    BY DEF Generations, SyncTypeOK
  <2>4. Views'
    <3>1. push \in Pushes /\ push # None
      BY DEF SyncTypeOK, Generations
    <3>2. push.path \in Path /\ push.gen = gen /\ (push.versioned => Truthful(push.path, push.text, push.version))
      BY ONLY <3>1, Records, Views DEF Views
    <3>3. /\ pending \in [Path -> Entries] /\ cache \in [Path -> Entries]
          /\ pending' \in {pending, [pending EXCEPT ![push.path] = Entry(push)]}
          /\ cache' \in {cache, [cache EXCEPT ![push.path] = [Entry(push) EXCEPT !.epoch = epoch + 1]]}
      BY DEF SyncTypeOK
    <3>4. \A q \in Path : /\ pending'[q] = pending[q] \/ (q = push.path /\ pending'[q] = Entry(push))
                          /\ \/ cache'[q] = cache[q]
                             \/ q = push.path /\ cache'[q] = [Entry(push) EXCEPT !.epoch = epoch + 1]
      BY ONLY <3>2, <3>3
    <3>5. push' = None /\ UNCHANGED <<text, version, seen, seenVersion, gen>>
      OBVIOUS
    <3>6. QED
      BY <3>2, <3>4, <3>5 DEF Views
  <2>5. QED
    BY <2>1, <2>2, <2>3, <2>4 DEF IInv
<1>4. QED
  BY <1>1, <1>2, <1>3 DEF PushStep
-----------------------------------------------------------------------------
\* One process serves, and no document is open.
LEMMA InitHolds == SyncInit => IInv
<1> SUFFICES ASSUME SyncInit PROVE IInv
  OBVIOUS
<1> USE DEF SyncInit, P, Kind, InGate, HasLock
<1>1. SyncTypeOK
  <2>1. /\ push \in Pushes /\ pending \in [Path -> Entries] /\ cache \in [Path -> Entries]
        /\ epoch \in Nat /\ pushes \in 0..MaxPushes
    BY Records
  <2>2. {session, gen} \subseteq 0..MaxGeneration
    OBVIOUS
  <2>3. /\ text \in [Path -> Text \cup {Closed}] /\ version \in [Path -> Nat]
        /\ seen \in [Path -> Text \cup {Closed}] /\ seenVersion \in [Path -> Nat]
        /\ lock \in [Path -> Op \cup {Restart, Nobody}]
    OBVIOUS
  <2>4. at \in [Op -> Points] /\ mine \in [Op -> 0..MaxGeneration]
        /\ base \in [Op -> Text \cup {Closed}] /\ since \in [Op -> Nat]
    BY DEF Points
  <2>5. /\ holders \subseteq Op \cup {Restart} /\ todo \subseteq Path /\ armed \subseteq Path
        /\ active \in BOOLEAN /\ reading \in BOOLEAN
        /\ conn \in {"open", "broken", "closed", "lost"} /\ stage \in {"none", "starting", "replaying"}
        /\ job \in [Op -> Jobs]
    OBVIOUS
  <2>6. QED
    BY <2>1, <2>2, <2>3, <2>4, <2>5 DEF SyncTypeOK
<1>2. Locks
  BY DEF Locks
<1>3. AtWork /\ Generations
  BY DEF AtWork, Generations
<1>4. Agreement /\ Views
  BY DEF Agreement, Views
<1>5. QED
  BY <1>1, <1>2, <1>3, <1>4 DEF IInv

\* Every step keeps it.
LEMMA StepHolds == IInv /\ [SyncNext]_syncVars => IInv'
<1> SUFFICES ASSUME IInv, [SyncNext]_syncVars PROVE IInv'
  OBVIOUS
<1>1. ASSUME NEW o \in Op, OpStep(o) PROVE IInv'
  BY <1>1, QuietKept, WorkKept DEF OpStep
<1>2. CASE Break \/ RestartStep
  BY <1>2, ServerKept, ReplayKept DEF RestartStep
<1>3. CASE PushStep
  BY <1>3, PushKept
<1>4. CASE UNCHANGED syncVars
  <2> USE <1>4 DEF syncVars, docVars, genVars, seenVars, candVars, pushVars, cacheVars, opVars, P, Kind,
                   InGate, HasLock, Truthful
  <2>1. SyncTypeOK' /\ Locks'
    BY DEF IInv, SyncTypeOK, Locks
  <2>2. AtWork' /\ Generations' /\ Agreement' /\ Views'
    BY DEF IInv, AtWork, Generations, Agreement, Views
  <2>3. QED
    BY <2>1, <2>2 DEF IInv
<1>5. QED
  BY <1>1, <1>2, <1>3, <1>4 DEF SyncNext, Returned

\* The strengthening is an invariant.
THEOREM Inductive == SyncSpec => []IInv
<1>1. IInv /\ [SyncNext]_syncVars => IInv'
  BY StepHolds
<1>2. QED
  BY <1>1, InitHolds, PTL DEF SyncSpec

\* The path's lock and the two slots of the mutation gate are held exactly where the
\* operations and the replay believe they hold them (lockDoc, lockDocumentMutation and
\* resync of lsp/server.go and lsp/supervisor.go), for any number of either.
THEOREM LocksAreHeld == SyncSpec => []SyncInv
<1>1. IInv => SyncInv
  BY DEF IInv, SyncInv, Locks, Generations
<1>2. QED
  BY <1>1, Inductive, PTL

\* Whatever failed, was undone or was replayed, a document nobody works on is on the
\* server as it is in the local record.
THEOREM ServerSeesTheRecord == SyncSpec => []ServerAgrees
<1>1. IInv => ServerAgrees
  <2> SUFFICES ASSUME IInv, NEW p \in Path, session # 0, conn = "open", lock[p] = Nobody
               PROVE  seen[p] = text[p]
    BY DEF ServerAgrees
  <2>1. \A o \in Op : ~(HasLock(o) /\ P(o) = p)
    BY DEF IInv, Locks
  <2>2. QED
    BY <2>1 DEF IInv, Agreement, HasLock
<1>2. QED
  BY <1>1, Inductive, PTL

\* What a callback of WithText or WithDiskText asks is answered for its text, as long as
\* its server lives.
THEOREM CallbacksSeeTheirText == SyncSpec => []CallbackSeesItsText
<1>1. IInv => CallbackSeesItsText
  <2> SUFFICES ASSUME IInv, NEW o \in Op, at[o] \in {"inside", "answered"}, gen = mine[o], conn = "open"
               PROVE  seen[P(o)] = job[o].text
    BY DEF CallbackSeesItsText
  <2>1. P(o) \in Path /\ text[P(o)] = job[o].text
    BY OpTypes DEF IInv, AtWork
  <2>2. session # 0
    <3>1. mine[o] # 0
      BY DEF IInv, Generations
    <3>2. stage = "none"
      <4>1. mine[o] \in Nat /\ ~(mine[o] < gen)
        BY DEF IInv, SyncTypeOK
      <4>2. QED
        BY <4>1 DEF IInv, Generations
    <3>3. QED
      BY <3>1, <3>2 DEF IInv, Generations
  <2>3. \A q \in Op : P(q) = P(o) /\ HasLock(q) => q = o
    BY <2>1 DEF IInv, Locks, HasLock
  <2>4. ~\E q \in Op : P(q) = P(o) /\ at[q] \in {"telling", "retelling", "closing"}
    BY <2>3 DEF HasLock
  <2>5. QED
    BY <2>1, <2>2, <2>4 DEF IInv, Agreement
<1>2. QED
  BY <1>1, Inductive, PTL

\* Nothing in the cache is of a process that is gone, and what is in it under the version
\* of the local record is about the text of the record.
THEOREM CachesAreTrue == SyncSpec => []CacheIsTrue
<1>1. IInv => CacheIsTrue
  BY DEF IInv, Views, CacheIsTrue, Truthful
<1>2. QED
  BY <1>1, Inductive, PTL
-----------------------------------------------------------------------------
(* The refinement of Documents.                                             *)

\* What callers see of a document: the text before the change of the one operation that
\* speculates about it, or the record.
VisibleText ==
  \A p \in Path :
    /\ \A o \in Op : Speculating(o) /\ P(o) = p => Visible(p) = base[o]
    /\ (\A o \in Op : ~(Speculating(o) /\ P(o) = p)) => Visible(p) = text[p]

LEMMA VisibleNow == IInv => VisibleText
<1> SUFFICES ASSUME IInv, NEW p \in Path
             PROVE  /\ \A o \in Op : Speculating(o) /\ P(o) = p => Visible(p) = base[o]
                    /\ (\A o \in Op : ~(Speculating(o) /\ P(o) = p)) => Visible(p) = text[p]
  BY DEF VisibleText
<1>1. ASSUME NEW o \in Op, NEW q \in Op, Speculating(o), Speculating(q), P(o) = p, P(q) = p
      PROVE  o = q
  BY <1>1 DEF IInv, Locks, HasLock, Speculating
<1>2. ASSUME NEW o \in Op, Speculating(o), P(o) = p PROVE Visible(p) = base[o]
  <2> DEFINE c == CHOOSE q \in Op : Speculating(q) /\ P(q) = p
  <2>1. c \in Op /\ Speculating(c) /\ P(c) = p
    BY <1>2
  <2>2. c = o
    BY <1>1, <1>2, <2>1
  <2>3. QED
    BY <1>2, <2>2 DEF Visible
<1>3. QED
  BY <1>2 DEF Visible

LEMMA VisibleNext == IInv' => VisibleText'
  BY VisibleNow, PTL

\* A document is shown as before when its record and who speculates about it are as before.
LEMMA SameShown ==
  ASSUME IInv, IInv', NEW p \in Path, text'[p] = text[p], job' = job,
         \A o \in Op : P(o) = p =>
           (Speculating(o)' <=> Speculating(o)) /\ (Speculating(o) => base'[o] = base[o])
  PROVE  Visible(p)' = Visible(p)
<1>1. \A o \in Op : P(o)' = P(o)
  BY DEF P
<1>2. CASE \E o \in Op : Speculating(o) /\ P(o) = p
  BY <1>1, <1>2, VisibleNow, VisibleNext DEF VisibleText
<1>3. CASE \A o \in Op : ~(Speculating(o) /\ P(o) = p)
  BY <1>1, <1>3, VisibleNow, VisibleNext DEF VisibleText
<1>4. QED
  BY <1>2, <1>3

\* An operation touches the record of its document only, and nobody else's point or base.
LEMMA OwnOnly ==
  ASSUME IInv, NEW o \in Op, OpStep(o)
  PROVE  /\ job' = job
         /\ \A q \in Op : q # o => at'[q] = at[q] /\ base'[q] = base[q]
         /\ \A p \in Path : p # P(o) => text'[p] = text[p]
<1> USE OpTypes DEF IInv, SyncTypeOK, Goto, docVars, genVars, seenVars, candVars, pushVars, cacheVars, opVars
<1>1. CASE \/ EnterGate(o) \/ LockPath(o) \/ UnlockPath(o) \/ LeaveGate(o) \/ ServerDown(o)
           \/ OpenAgain(o) \/ RefuseText(o) \/ SameText(o)
  BY <1>1 DEF EnterGate, LockPath, UnlockPath, LeaveGate, ServerDown, OpenAgain, RefuseText, SameText
<1>2. CASE Callback(o) \/ Query(o) \/ Settle(o) \/ GiveUpSettling(o) \/ Answer(o)
  BY <1>2 DEF Callback, Query, Settle, GiveUpSettling, Answer
<1>3. CASE Change(o) \/ TellServer(o) \/ RestoreRecord(o)
  BY <1>3 DEF Change, TellServer, RestoreRecord, Mark, MarkClosed
<1>4. CASE RestoreServer(o) \/ CloseRecord(o) \/ CloseServer(o)
  BY <1>4 DEF RestoreServer, CloseRecord, CloseServer, MarkClosed
<1>5. QED
  BY <1>1, <1>2, <1>3, <1>4 DEF OpStep

\* What an operation does to what is shown of its document: nothing, or it opens or closes it.
LEMMA OwnShown ==
  ASSUME IInv, IInv', NEW o \in Op, OpStep(o), NEW p \in Path, P(o) = p
  PROVE  \/ Visible(p)' = Visible(p)
         \/ Visible(p) = Closed /\ Visible(p)' = job[o].text
         \/ Visible(p) # Closed /\ Visible(p)' = Closed
<1>1. p \in Path /\ job[o].text \in Text /\ job' = job /\ P(o)' = p /\ Kind(o)' = Kind(o)
  BY OpTypes, OwnOnly DEF IInv, P, Kind
<1>2. ASSUME text'[p] = text[p], Speculating(o)' <=> Speculating(o), UNCHANGED base
      PROVE  Visible(p)' = Visible(p)
  <2>1. \A q \in Op : (Speculating(q)' <=> Speculating(q)) /\ base'[q] = base[q]
    BY <1>1, <1>2, OwnOnly DEF Speculating, Kind
  <2>2. QED
    BY <1>1, <1>2, <2>1, SameShown
<1>3. ASSUME HasLock(o)
      PROVE  /\ Visible(p) = IF Speculating(o) THEN base[o] ELSE text[p]
             /\ Visible(p)' = IF Speculating(o)' THEN base'[o] ELSE text'[p]
  <2>1. \A q \in Op : q # o /\ P(q) = p => ~Speculating(q)
    BY <1>1, <1>3 DEF IInv, Locks, HasLock, Speculating
  <2>2. \A q \in Op : q # o /\ P(q)' = p => ~Speculating(q)'
    BY <1>1, <2>1, OwnOnly DEF Speculating, Kind, P
  <2>3. QED
    BY <1>1, <1>3, <2>1, <2>2, VisibleNow, VisibleNext DEF VisibleText
<1> USE DEF docVars, genVars, seenVars, candVars, pushVars, cacheVars, opVars
<1>4. CASE \/ EnterGate(o) \/ LockPath(o) \/ UnlockPath(o) \/ LeaveGate(o) \/ ServerDown(o)
           \/ OpenAgain(o) \/ RefuseText(o) \/ Query(o)
  <2>1. UNCHANGED <<text, base>>
    BY <1>4 DEF EnterGate, LockPath, UnlockPath, LeaveGate, ServerDown, OpenAgain, RefuseText, Query
  <2>2. ~Speculating(o) /\ ~Speculating(o)'
    BY <1>4 DEF EnterGate, LockPath, UnlockPath, LeaveGate, ServerDown, OpenAgain, RefuseText, Query,
                Speculating, Goto, IInv, SyncTypeOK
  <2>3. QED
    BY <1>2, <2>1, <2>2
<1>5. CASE \/ Settle(o) \/ GiveUpSettling(o) \/ Answer(o) \/ RestoreServer(o) \/ CloseServer(o)
  <2>1. UNCHANGED <<text, base>>
    BY <1>5 DEF Settle, GiveUpSettling, Answer, RestoreServer, CloseServer
  <2>2. Speculating(o)' <=> Speculating(o)
    BY <1>1, <1>5 DEF Settle, GiveUpSettling, Answer, RestoreServer, CloseServer, Speculating, Goto,
                      IInv, SyncTypeOK
  <2>3. QED
    BY <1>2, <2>1, <2>2
<1>6. CASE SameText(o)
  <2>1. HasLock(o) /\ ~Speculating(o) /\ Speculating(o)' /\ base'[o] = text[p]
    BY <1>1, <1>6 DEF SameText, HasLock, Speculating, Goto, IInv, SyncTypeOK
  <2>2. QED
    BY <1>3, <2>1
<1>7. CASE Change(o)
  <2>1. /\ HasLock(o) /\ ~Speculating(o) /\ (Speculating(o)' <=> Kind(o) # "open")
        /\ base'[o] = text[p] /\ text'[p] = job[o].text /\ (Kind(o) = "open" => text[p] = Closed)
    BY <1>1, <1>7 DEF Change, Mark, HasLock, Speculating, Goto, IInv, SyncTypeOK
  <2>2. QED
    BY <1>3, <2>1
<1>8. CASE TellServer(o)
  <2>1. /\ HasLock(o) /\ text[p] = job[o].text /\ base' = base
        /\ Speculating(o) <=> Kind(o) # "open"
        /\ Speculating(o)' <=> Kind(o) # "open"
        /\ text'[p] = text[p] \/ (Kind(o) = "open" /\ text'[p] = Closed)
    BY <1>1, <1>8 DEF TellServer, HasLock, Speculating, Goto, IInv, SyncTypeOK, AtWork
  <2>2. QED
    BY <1>1, <1>3, <2>1
<1>9. CASE Callback(o)
  <2>1. HasLock(o) /\ Speculating(o) /\ UNCHANGED <<text, base>> /\ (Speculating(o)' \/ text[p] = base[o])
    BY <1>1, <1>9 DEF Callback, HasLock, Speculating, Goto, IInv, SyncTypeOK, AtWork
  <2>2. QED
    BY <1>3, <2>1
<1>10. CASE RestoreRecord(o)
  <2>1. HasLock(o) /\ Speculating(o) /\ ~Speculating(o)' /\ text'[p] = base[o]
    BY <1>1, <1>10 DEF RestoreRecord, Mark, MarkClosed, HasLock, Speculating, Goto, IInv, SyncTypeOK, AtWork
  <2>2. QED
    BY <1>3, <2>1
<1>11. CASE CloseRecord(o)
  <2>1. HasLock(o) /\ ~Speculating(o) /\ ~Speculating(o)' /\ text'[p] = Closed
    BY <1>1, <1>11 DEF CloseRecord, MarkClosed, HasLock, Speculating, Goto, IInv, SyncTypeOK
  <2>2. QED
    BY <1>3, <2>1
<1>12. QED
  BY <1>4, <1>5, <1>6, <1>7, <1>8, <1>9, <1>10, <1>11 DEF OpStep

\* Every step is a step of Documents, or shows nothing.
LEMMA Refines == IInv /\ IInv' /\ [SyncNext]_syncVars => [Abstract!Next]_Shown
<1> SUFFICES ASSUME IInv, IInv', [SyncNext]_syncVars PROVE Abstract!Next \/ UNCHANGED Shown
  OBVIOUS
<1> USE DEF docVars, genVars, seenVars, candVars, pushVars, cacheVars, opVars
<1>1. ASSUME NEW o \in Op, OpStep(o) PROVE Abstract!Next \/ UNCHANGED Shown
  <2>1. P(o) \in Path /\ job[o].text \in Text
    BY OpTypes DEF IInv
  <2>2. PICK p \in Path : P(o) = p
    BY <2>1
  <2>3. \A q \in Path : q # p => Visible(q)' = Visible(q)
    <3> SUFFICES ASSUME NEW q \in Path, q # p PROVE Visible(q)' = Visible(q)
      OBVIOUS
    <3>1. text'[q] = text[q] /\ job' = job
      BY <1>1, <2>2, OwnOnly
    <3>2. \A r \in Op : P(r) = q => (Speculating(r)' <=> Speculating(r)) /\ base'[r] = base[r]
      BY <1>1, <2>2, OwnOnly DEF Speculating, Kind
    <3>3. QED
      BY <3>1, <3>2, SameShown
  <2>4. Shown' = [Shown EXCEPT ![p] = Visible(p)'] /\ Shown[p] = Visible(p)
    BY <2>3 DEF Shown
  <2>5. CASE Visible(p)' = Visible(p)
    BY <2>3, <2>5 DEF Shown
  <2>6. CASE Visible(p) = Closed /\ Visible(p)' = job[o].text
    <3>1. Shown'[p] = Visible(p)'
      BY DEF Shown
    <3>2. QED
      BY <2>1, <2>4, <2>6, <3>1 DEF Abstract!Next, Abstract!Open
  <2>7. CASE Visible(p) # Closed /\ Visible(p)' = Closed
    BY <2>4, <2>7 DEF Abstract!Next, Abstract!Close
  <2>8. QED
    BY <1>1, <2>2, <2>5, <2>6, <2>7, OwnShown
<1>2. ASSUME UNCHANGED opVars, \A p \in Path : text'[p] = text[p] PROVE UNCHANGED Shown
  <2>1. \A q \in Op : (Speculating(q)' <=> Speculating(q)) /\ base'[q] = base[q]
    BY <1>2 DEF Speculating, Kind
  <2>2. \A p \in Path : Visible(p)' = Visible(p)
    BY <1>2, <2>1, SameShown
  <2>3. QED
    BY <2>2 DEF Shown
<1>3. CASE Break \/ RestartStep
  <2>1. UNCHANGED opVars /\ \A p \in Path : text'[p] = text[p]
    BY <1>3 DEF Break, RestartStep, Hangup, LoseSession, Start, StartFails, BeginReplay, PublishSession,
                Replay, ReplayServer, Mark, IInv, SyncTypeOK
  <2>2. QED
    BY <1>2, <2>1
<1>4. CASE PushStep \/ UNCHANGED syncVars
  BY <1>2, <1>4 DEF PushStep, Analyse, Receive, Record, syncVars
<1>5. QED
  BY <1>1, <1>3, <1>4 DEF SyncNext, Returned

\* Callers of one server see documents that are opened and closed and nothing else: no
\* speculative text, no view made for the index, no crash and no replay.
THEOREM DocumentsAreImplemented == SyncSpec => ImplementsDocuments
<1>1. SyncInit => Abstract!Init
  BY DEF SyncInit, Abstract!Init, Shown, Visible, Speculating
<1>2. IInv /\ IInv' /\ [SyncNext]_syncVars => [Abstract!Next]_Shown
  BY Refines
<1>3. QED
  BY <1>1, <1>2, Inductive, PTL DEF SyncSpec, Abstract!Spec, ImplementsDocuments
-----------------------------------------------------------------------------
(* The refinements of RWLock and of Sessions.                               *)

\* An operation shares the gate, leaves it, or does not touch it, and never touches the
\* session or the generation.
LEMMA OwnGate ==
  ASSUME IInv, NEW o \in Op, OpStep(o)
  PROVE  /\ [Gate!Next]_holders
         /\ UNCHANGED <<session, gen, stage>>
<1> USE DEF docVars, genVars, seenVars, candVars, pushVars, cacheVars, opVars, Goto
<1>1. CASE EnterGate(o)
  BY <1>1 DEF EnterGate, Gate!Next, Gate!Share
<1>2. CASE LeaveGate(o)
  <2>1. o \in holders
    BY <1>2 DEF LeaveGate, IInv, Locks, InGate
  <2>2. QED
    BY <1>2, <2>1 DEF LeaveGate, Gate!Next, Gate!Release
<1>3. CASE \/ LockPath(o) \/ UnlockPath(o) \/ ServerDown(o) \/ OpenAgain(o) \/ RefuseText(o)
           \/ SameText(o) \/ Change(o) \/ TellServer(o) \/ Callback(o)
  BY <1>3 DEF LockPath, UnlockPath, ServerDown, OpenAgain, RefuseText, SameText, Change, TellServer,
              Callback
<1>4. CASE \/ RestoreRecord(o) \/ RestoreServer(o) \/ CloseRecord(o) \/ CloseServer(o)
           \/ Query(o) \/ Settle(o) \/ GiveUpSettling(o) \/ Answer(o)
  BY <1>4 DEF RestoreRecord, RestoreServer, CloseRecord, CloseServer, Query, Settle,
              GiveUpSettling, Answer
<1>5. QED
  BY <1>1, <1>2, <1>3, <1>4 DEF OpStep

\* The gate DocumentSync relies on is the one that MutationGate implements: operations
\* share it, the replay of a restart waits for all of them and then has it alone.
THEOREM GateIsALock == SyncSpec => ImplementsGate
<1>1. SyncInit => Gate!Init
  BY DEF SyncInit, Gate!Init
<1>2. IInv /\ [SyncNext]_syncVars => [Gate!Next]_holders
  <2> SUFFICES ASSUME IInv, [SyncNext]_syncVars PROVE [Gate!Next]_holders
    OBVIOUS
  <2> USE DEF docVars, genVars, seenVars, candVars, pushVars, cacheVars, opVars
  <2>1. ASSUME NEW o \in Op, OpStep(o) PROVE [Gate!Next]_holders
    BY <2>1, OwnGate
  <2>2. CASE BeginReplay
    BY <2>2 DEF BeginReplay, Gate!Next, Gate!Own
  <2>3. CASE StartFails \/ PublishSession
    <3>1. holders' = holders \ {Restart}
      BY <2>3 DEF StartFails, PublishSession
    <3>2. QED
      BY <3>1 DEF Gate!Next, Gate!Release
  <2>4. CASE Break \/ Hangup \/ LoseSession \/ Start \/ \E p \in Path : Replay(p) \/ ReplayServer(p)
    BY <2>4 DEF Break, Hangup, LoseSession, Start, Replay, ReplayServer
  <2>5. CASE PushStep \/ UNCHANGED syncVars
    BY <2>5 DEF PushStep, Analyse, Receive, Record, syncVars
  <2>6. QED
    BY <2>1, <2>2, <2>3, <2>4, <2>5 DEF SyncNext, RestartStep, Returned
<1>3. QED
  BY <1>1, <1>2, Inductive, PTL DEF SyncSpec, Gate!Spec, ImplementsGate

\* However often the server dies, is replaced and fails to start: its generations are
\* served one at a time, each once, and none after a later one.
THEOREM GenerationsInOrder == SyncSpec => ImplementsSessions
<1>1. SyncInit => Serving!Init
  BY DEF SyncInit, Serving!Init, Coming
<1>2. IInv /\ [SyncNext]_syncVars => [Serving!Next]_(Serving!sessionVars)
  <2> SUFFICES ASSUME IInv, [SyncNext]_syncVars PROVE [Serving!Next]_(Serving!sessionVars)
    OBVIOUS
  <2> USE DEF docVars, genVars, seenVars, candVars, pushVars, cacheVars, opVars
  <2>0. {session, gen} \subseteq 0..MaxGeneration /\ gen # 0
    BY DEF IInv, SyncTypeOK, Generations
  <2>1. ASSUME UNCHANGED session, Coming' \subseteq Coming PROVE Serving!Next
    BY <2>1 DEF Serving!Next, Serving!Fail
  <2>2. ASSUME UNCHANGED <<session, gen, stage>> PROVE Serving!Next
    <3>1. Coming' = Coming
      BY <2>2 DEF Coming
    <3>2. QED
      BY <2>1, <2>2, <3>1
  <2>3. ASSUME NEW o \in Op, OpStep(o) PROVE Serving!Next
    BY <2>2, <2>3, OwnGate
  <2>4. CASE LoseSession
    <3>1. session' = 0 /\ Coming' = Coming
      BY <2>4 DEF LoseSession, Coming
    <3>2. QED
      BY <3>1 DEF Serving!Next, Serving!Lose
  <2>5. CASE Start
    <3>1. session' = session /\ gen' = gen + 1
      BY <2>5 DEF Start
    <3>2. Coming' \subseteq Coming
      BY <2>0, <2>5, <3>1 DEF Start, Coming
    <3>3. QED
      BY <2>1, <3>1, <3>2
  <2>6. CASE StartFails \/ BeginReplay
    <3>1. UNCHANGED <<session, gen>> /\ stage \in {"starting", "replaying"}
      BY <2>6 DEF StartFails, BeginReplay
    <3>2. Coming' \subseteq Coming
      BY <3>1 DEF Coming
    <3>3. QED
      BY <2>1, <3>1, <3>2
  <2>7. CASE PublishSession
    <3>1. /\ session = 0 /\ gen \in Coming /\ session' = gen /\ gen' = gen
          /\ stage' = "none"
      BY <2>0, <2>7 DEF PublishSession, Coming, IInv, Generations
    <3>2. Coming' \subseteq {h \in Coming : h > gen}
      BY <2>0, <3>1 DEF Coming
    <3>3. QED
      BY <2>0, <3>1, <3>2 DEF Serving!Next, Serving!Serve
  <2>8. CASE Break \/ Hangup \/ \E p \in Path : Replay(p) \/ ReplayServer(p)
    BY <2>2, <2>8 DEF Break, Hangup, Replay, ReplayServer
  <2>9. CASE PushStep \/ UNCHANGED syncVars
    BY <2>2, <2>9 DEF PushStep, Analyse, Receive, Record, syncVars
  <2>10. QED
    BY <2>3, <2>4, <2>5, <2>6, <2>7, <2>8, <2>9 DEF SyncNext, RestartStep, Returned
<1>3. QED
  BY <1>1, <1>2, Inductive, PTL DEF SyncSpec, Serving!Spec, ImplementsSessions
-----------------------------------------------------------------------------
(* Versions rise.                                                           *)

\* An operation that is about to tell the server of an open document.
Due(o) == at[o] = "telling" \/ (at[o] = "retelling" /\ text[P(o)] # Closed)

\* Whoever is about to tell the server of an open document has a version for it that the
\* server has not seen: an operation that works on it, and the replay.
Fresh ==
  /\ \A o \in Op : Due(o) => seenVersion[P(o)] < version[P(o)]
  /\ \A p \in Path : lock[p] = Restart => seenVersion[p] < version[p]

\* The view of one document is as it was, belongs to another process, or has a later version.
Rises(p) ==
  /\ gen' = gen /\ seen'[p] # Closed
  /\ <<seen'[p], seenVersion'[p]>> # <<seen[p], seenVersion[p]>>
  => seenVersion'[p] > seenVersion[p]

\* What an operation does to the views and to the versions: only of its own document, and
\* only with its lock; versions never fall.
LEMMA OwnVersions ==
  ASSUME IInv, NEW o \in Op, OpStep(o)
  PROVE  /\ UNCHANGED seenVars \/ HasLock(o)
         /\ \A p \in Path : p # P(o) => seen'[p] = seen[p] /\ seenVersion'[p] = seenVersion[p]
         /\ \A p \in Path : version'[p] >= version[p]
         /\ UNCHANGED text \/ HasLock(o)
         /\ \A p \in Path : lock'[p] = Restart => lock[p] = Restart
<1> USE OpTypes, SyncAssumption DEF IInv, SyncTypeOK, Goto, docVars, genVars, seenVars, candVars, pushVars,
          cacheVars, opVars, HasLock
<1>1. CASE \/ EnterGate(o) \/ LockPath(o) \/ UnlockPath(o) \/ LeaveGate(o) \/ ServerDown(o)
           \/ OpenAgain(o) \/ RefuseText(o) \/ SameText(o)
  BY <1>1 DEF EnterGate, LockPath, UnlockPath, LeaveGate, ServerDown, OpenAgain, RefuseText, SameText
<1>2. CASE Callback(o) \/ Query(o) \/ Settle(o) \/ GiveUpSettling(o) \/ Answer(o)
  BY <1>2 DEF Callback, Query, Settle, GiveUpSettling, Answer
<1>3. CASE Change(o) \/ RestoreRecord(o) \/ CloseRecord(o)
  BY <1>3 DEF Change, RestoreRecord, CloseRecord, Mark, MarkClosed
<1>4. CASE TellServer(o)
  BY <1>4 DEF TellServer, Tell
<1>5. CASE RestoreServer(o) \/ CloseServer(o)
  BY <1>5 DEF RestoreServer, CloseServer, Tell
<1>6. QED
  BY <1>1, <1>2, <1>3, <1>4, <1>5 DEF OpStep

\* A change takes a version that the server has not seen, and telling uses it up.
LEMMA OwnFresh ==
  ASSUME IInv, Fresh, NEW o \in Op, OpStep(o)
  PROVE  /\ Due(o)' => seenVersion'[P(o)] < version'[P(o)]
         /\ Rises(P(o))
<1>0. P(o) \in Path /\ Kind(o) \in Kinds /\ job[o].text \in Text /\ job' = job
  BY OpTypes, OwnOnly DEF IInv
<1>1. Due(o)' => at'[o] = "telling" \/ (at'[o] = "retelling" /\ text'[P(o)] # Closed)
  BY <1>0 DEF Due, P
<1>2. seenVersion[P(o)] \in Nat /\ version[P(o)] \in Nat /\ seenVersion[P(o)] <= version[P(o)]
  BY <1>0 DEF IInv, SyncTypeOK, Views
<1> USE DEF Goto, docVars, genVars, seenVars, candVars, pushVars, cacheVars, opVars
<1>3. at \in [Op -> Points] /\ version \in [Path -> Nat] /\ seen \in [Path -> Text \cup {Closed}] /\ seenVersion \in [Path -> Nat]
  BY DEF IInv, SyncTypeOK
<1>4. CASE Change(o)
  <2>1. version'[P(o)] = version[P(o)] + 1 /\ UNCHANGED seenVars
    BY <1>0, <1>3, <1>4 DEF Change, Mark
  <2>2. QED
    BY <1>2, <2>1 DEF Rises
<1>5. CASE RestoreRecord(o)
  <2>1. UNCHANGED seenVars
    BY <1>5 DEF RestoreRecord
  <2>2. CASE base[o] = Closed
    <3>1. at'[o] = "retelling" /\ text'[P(o)] = Closed
      BY <1>0, <1>3, <1>5, <2>2 DEF RestoreRecord, MarkClosed, IInv, SyncTypeOK
    <3>2. QED
      BY <1>1, <2>1, <3>1 DEF Rises
  <2>3. CASE base[o] # Closed
    <3>1. version'[P(o)] = version[P(o)] + 1
      BY <1>0, <1>3, <1>5, <2>3 DEF RestoreRecord, Mark
    <3>2. QED
      BY <1>2, <2>1, <3>1 DEF Rises
  <2>4. QED
    BY <2>2, <2>3
<1>6. CASE TellServer(o)
  <2>1. at'[o] \in {"unlocking", "inside", "restoring"}
    BY <1>3, <1>6 DEF TellServer
  <2>2. seenVersion[P(o)] < version[P(o)]
    BY <1>6 DEF TellServer, Fresh, Due
  <2>3. text[P(o)] # Closed
    BY <1>0, <1>6, SyncAssumption DEF TellServer, IInv, AtWork
  <2>4. Tell(mine[o], P(o), text[P(o)], version[P(o)])
    BY <1>6 DEF TellServer
  <2>5. \/ UNCHANGED seenVars
        \/ seenVersion'[P(o)] = version[P(o)]
    BY <1>0, <1>3, <2>3, <2>4 DEF Tell
  <2>6. QED
    BY <1>1, <1>2, <2>1, <2>2, <2>5 DEF Rises
<1>7. CASE RestoreServer(o)
  <2>1. at'[o] = "unlocking"
    BY <1>3, <1>7 DEF RestoreServer
  <2>2. text[P(o)] # Closed => seenVersion[P(o)] < version[P(o)]
    BY <1>7 DEF RestoreServer, Fresh, Due
  <2>3. UNCHANGED seenVars \/ Tell(mine[o], P(o), text[P(o)], version[P(o)])
    BY <1>7 DEF RestoreServer
  <2>4. \/ UNCHANGED seenVars
        \/ seen'[P(o)] = Closed
        \/ text[P(o)] # Closed /\ seenVersion'[P(o)] = version[P(o)]
    BY <1>0, <1>3, <2>3 DEF Tell
  <2>5. QED
    BY <1>1, <1>2, <2>1, <2>2, <2>4 DEF Rises
<1>8. CASE CloseServer(o)
  <2>1. at'[o] = "unlocking"
    BY <1>3, <1>8 DEF CloseServer
  <2>2. UNCHANGED seenVars \/ seen'[P(o)] = Closed
    BY <1>0, <1>3, <1>8 DEF CloseServer, Tell
  <2>3. QED
    BY <1>1, <2>1, <2>2 DEF Rises
<1>9. CASE \/ EnterGate(o) \/ LockPath(o) \/ UnlockPath(o) \/ LeaveGate(o) \/ ServerDown(o)
           \/ OpenAgain(o) \/ RefuseText(o) \/ SameText(o)
  <2>1. UNCHANGED seenVars /\ at'[o] \notin {"telling", "retelling"}
    BY <1>3, <1>9 DEF EnterGate, LockPath, UnlockPath, LeaveGate, ServerDown, OpenAgain,
                      RefuseText, SameText
  <2>2. QED
    BY <1>1, <2>1 DEF Rises
<1>10. CASE CloseRecord(o) \/ Callback(o) \/ Query(o) \/ Settle(o) \/ GiveUpSettling(o) \/ Answer(o)
  <2>1. UNCHANGED seenVars /\ at'[o] \notin {"telling", "retelling"}
    BY <1>3, <1>10 DEF CloseRecord, Callback, Query, Settle, GiveUpSettling, Answer
  <2>2. QED
    BY <1>1, <2>1 DEF Rises
<1>11. QED
  BY <1>4, <1>5, <1>6, <1>7, <1>8, <1>9, <1>10 DEF OpStep

\* Nobody but the holder of a document's lock touches what the server is to be told of it.
LEMMA FreshKept ==
  IInv /\ Fresh /\ [SyncNext]_syncVars => Fresh' /\ \A p \in Path : Rises(p)
<1> SUFFICES ASSUME IInv, Fresh, [SyncNext]_syncVars
             PROVE  Fresh' /\ \A p \in Path : Rises(p)
  OBVIOUS
<1>0. /\ version \in [Path -> Nat] /\ seen \in [Path -> Text \cup {Closed}]
      /\ seenVersion \in [Path -> Nat]
      /\ \A o \in Op : P(o) \in Path
      /\ \A p \in Path : seenVersion[p] <= version[p]
  BY OpTypes DEF IInv, SyncTypeOK, Views
<1>1. ASSUME NEW o \in Op, Due(o) PROVE lock[P(o)] = o /\ HasLock(o)
  BY <1>0, <1>1 DEF IInv, Locks, Due, HasLock
<1>2. ASSUME NEW o \in Op, OpStep(o) PROVE Fresh' /\ \A p \in Path : Rises(p)
  <2>1. /\ UNCHANGED seenVars \/ HasLock(o)
        /\ UNCHANGED text \/ HasLock(o)
        /\ \A p \in Path : p # P(o) => seen'[p] = seen[p] /\ seenVersion'[p] = seenVersion[p]
        /\ \A p \in Path : version'[p] >= version[p]
        /\ \A p \in Path : lock'[p] = Restart => lock[p] = Restart
    BY <1>2, OwnVersions
  <2>2. /\ job' = job
        /\ \A q \in Op : q # o => at'[q] = at[q]
        /\ \A p \in Path : p # P(o) => text'[p] = text[p]
    BY <1>2, OwnOnly
  <2>3. /\ Due(o)' => seenVersion'[P(o)] < version'[P(o)]
        /\ Rises(P(o))
    BY <1>2, OwnFresh
  <2>4. HasLock(o) => lock[P(o)] = o
    BY <1>0 DEF IInv, Locks
  <2>5. version' \in [Path -> Nat] /\ seenVersion' \in [Path -> Nat]
    BY StepHolds DEF IInv, SyncTypeOK
  <2>6. ASSUME NEW q \in Op, q # o, Due(q)' PROVE seenVersion'[P(q)] < version'[P(q)]
    <3>1. CASE P(q) # P(o)
      <4>1. Due(q)
        BY <1>0, <2>2, <2>6, <3>1 DEF Due, P
      <4>2. QED
        BY <1>0, <2>1, <2>5, <3>1, <4>1 DEF Fresh
    <3>2. CASE P(q) = P(o) /\ ~HasLock(o)
      <4>1. Due(q)
        BY <1>0, <2>1, <2>2, <2>6, <3>2 DEF Due, P
      <4>2. QED
        BY <1>0, <2>1, <2>5, <3>2, <4>1 DEF Fresh, seenVars
    <3>3. CASE P(q) = P(o) /\ HasLock(o)
      <4>1. HasLock(q)
        BY <2>2, <2>6 DEF Due, HasLock
      <4>2. QED
        BY <1>0, <2>4, <2>6, <3>3, <4>1 DEF IInv, Locks
    <3>4. QED
      BY <3>1, <3>2, <3>3
  <2>7. ASSUME NEW p \in Path, lock'[p] = Restart PROVE seenVersion'[p] < version'[p]
    <3>1. lock[p] = Restart
      BY <2>1, <2>7
    <3>2. seenVersion'[p] = seenVersion[p]
      BY <2>1, <2>4, <3>1, SyncAssumption DEF seenVars
    <3>3. QED
      BY <1>0, <2>1, <2>5, <3>1, <3>2 DEF Fresh
  <2>8. \A q \in Op : P(q)' = P(q)
    BY <2>2 DEF P
  <2>9. Fresh'
    BY <2>3, <2>6, <2>7, <2>8 DEF Fresh
  <2>10. \A p \in Path : Rises(p)
    BY <2>1, <2>3 DEF Rises
  <2>11. QED
    BY <2>9, <2>10
<1>3. ASSUME UNCHANGED <<docVars, seenVars, opVars>>,
             \A p \in Path : lock'[p] = Restart => lock[p] = Restart
      PROVE  Fresh' /\ \A p \in Path : Rises(p)
  <2>1. Fresh'
    BY <1>3 DEF Fresh, Due, P, docVars, seenVars, opVars
  <2>2. QED
    BY <1>3, <2>1 DEF Rises, seenVars
<1>4. CASE Start
  <2>1. gen' = gen + 1 /\ gen \in Nat
    BY <1>4 DEF Start, IInv, SyncTypeOK
  <2>2. /\ UNCHANGED <<docVars, lock, opVars>>
        /\ \A p \in Path : seenVersion'[p] = 0
    BY <1>4 DEF Start
  <2>3. \A o \in Op : P(o)' = P(o) /\ (Due(o)' => Due(o))
    BY <1>0, <2>2 DEF Due, P, docVars, opVars
  <2>4. Fresh'
    BY <1>0, <2>2, <2>3 DEF Fresh, docVars
  <2>5. QED
    BY <2>1, <2>4 DEF Rises
<1>5. ASSUME NEW p \in Path, Replay(p) PROVE Fresh' /\ \A r \in Path : Rises(r)
  <2>1. /\ text' = [text EXCEPT ![p] = text[p]] /\ version' = [version EXCEPT ![p] = @ + 1]
        /\ lock' = [lock EXCEPT ![p] = Restart] /\ UNCHANGED <<seenVars, opVars>>
    BY <1>5 DEF Replay, Mark
  <2>2. \A r \in Path : text'[r] = text[r] /\ version'[r] >= version[r]
    BY <1>0, <2>1 DEF IInv, SyncTypeOK
  <2>3. \A o \in Op : P(o)' = P(o) /\ (Due(o)' => Due(o))
    BY <1>0, <2>1, <2>2 DEF Due, P, opVars
  <2>4. version'[p] = version[p] + 1
    BY <1>0, <2>1
  <2>5. \A r \in Path : r # p => lock'[r] = lock[r]
    BY <2>1 DEF IInv, SyncTypeOK
  <2>6. version' \in [Path -> Nat]
    BY <1>0, <2>1
  <2>7. \A o \in Op : Due(o)' => seenVersion'[P(o)] < version'[P(o)]
    BY <1>0, <2>1, <2>2, <2>3, <2>6 DEF Fresh, seenVars
  <2>8. \A r \in Path : lock'[r] = Restart => seenVersion'[r] < version'[r]
    BY <1>0, <2>1, <2>2, <2>4, <2>5, <2>6 DEF Fresh, seenVars
  <2>9. Fresh'
    BY <2>3, <2>7, <2>8 DEF Fresh
  <2>10. QED
    BY <2>1, <2>9 DEF Rises, seenVars
<1>6. ASSUME NEW p \in Path, ReplayServer(p) PROVE Fresh' /\ \A r \in Path : Rises(r)
  <2>1. /\ lock[p] = Restart /\ lock' = [lock EXCEPT ![p] = Nobody]
        /\ Tell(gen, p, text[p], version[p]) /\ UNCHANGED <<docVars, opVars>>
    BY <1>6 DEF ReplayServer
  <2>2. seenVersion[p] < version[p]
    BY <2>1 DEF Fresh
  <2>3. \/ UNCHANGED seenVars
        \/ seen'[p] = Closed
        \/ seenVersion'[p] = version[p]
    BY <1>0, <2>1 DEF Tell
  <2>4. \A r \in Path : r # p => seen'[r] = seen[r] /\ seenVersion'[r] = seenVersion[r]
    BY <1>0, <2>1 DEF Tell, seenVars
  <2>5. \A o \in Op : P(o)' = P(o) /\ (Due(o)' => Due(o))
    BY <1>0, <2>1 DEF Due, P, docVars, opVars
  <2>6. \A o \in Op : Due(o) => P(o) # p
    BY <1>1, <2>1, SyncAssumption
  <2>7. \A r \in Path : lock'[r] = Restart => r # p /\ lock[r] = Restart
    BY <2>1, SyncAssumption DEF IInv, SyncTypeOK
  <2>8. Fresh'
    BY <1>0, <2>1, <2>4, <2>5, <2>6, <2>7 DEF Fresh, docVars
  <2>9. \A r \in Path : Rises(r)
    BY <1>0, <2>2, <2>3, <2>4 DEF Rises, seenVars
  <2>10. QED
    BY <2>8, <2>9
<1>7. CASE StartFails
  <2>1. \A p \in Path : lock'[p] = Restart => lock[p] = Restart
    BY <1>7, SyncAssumption DEF StartFails
  <2>2. QED
    BY <1>3, <1>7, <2>1 DEF StartFails
<1>8. CASE Break \/ Hangup \/ LoseSession \/ BeginReplay \/ PublishSession
  BY <1>3, <1>8 DEF Break, Hangup, LoseSession, BeginReplay, PublishSession
<1>9. CASE PushStep \/ UNCHANGED syncVars
  BY <1>3, <1>9 DEF PushStep, Analyse, Receive, Record, syncVars
<1>10. QED
  BY <1>2, <1>4, <1>5, <1>6, <1>7, <1>8, <1>9 DEF SyncNext, RestartStep, Returned

\* Whatever is undone, closed for the index, or replayed to a new process: a server never
\* sees the version of an open document stand still or go back.
THEOREM VersionsAlwaysRise == SyncSpec => VersionsRise
<1>1. SyncInit => Fresh
  BY SyncAssumption DEF SyncInit, Fresh, Due
<1>2. IInv /\ Fresh /\ [SyncNext]_syncVars => Fresh'
  BY FreshKept
<1>3. ASSUME IInv, Fresh, SyncNext
      PROVE  \A p \in Path : /\ gen' = gen /\ seen'[p] # Closed
                             /\ <<seen'[p], seenVersion'[p]>> # <<seen[p], seenVersion[p]>>
                             => seenVersion'[p] > seenVersion[p]
  BY <1>3, FreshKept DEF Rises
<1>4. QED
  BY <1>1, <1>2, <1>3, Inductive, PTL DEF SyncSpec, VersionsRise
===============================================================================
