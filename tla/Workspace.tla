------------------------------ MODULE Workspace ------------------------------
(***************************************************************************)
(* One file of a workspace and the requests of the sessions about it:      *)
(* the record the daemon keeps of what the language server was told        *)
(* (internal/workspace/workspace.go, query.go), the speculative texts of   *)
(* the sessions (overlay.go), and the edits planned by a rename and        *)
(* written by apply_edit.  Every request runs in a goroutine of its own,   *)
(* so its steps interleave with those of the others, with the user saving  *)
(* the file and with the watcher reporting it.                             *)
(*                                                                         *)
(* A text is a sequence of marks: what the user saved, followed by the     *)
(* edits applied to it.  The language server is what lsp/server.go shows   *)
(* of it: open or not, and its text; an Open of an open document leaves    *)
(* the text alone (module DocumentSync has its inside).                    *)
(***************************************************************************)
EXTENDS Integers, Sequences, FiniteSets

CONSTANTS
  Call,          \* the requests that may be in progress at once
  Session,
  Saved,         \* the marks the user's texts are made of
  Edit,          \* the renames a session may ask for
  None,
  MaxCalls, MaxSaves, MaxFailures,      \* bounds of the environment
  MaxPlans                              \* maxRememberedPlans

Text == Seq(Saved \cup Session \cup Edit)
Tokens == [hash : Text]
Plan == [token : Tokens, edit : Edit, of : Text, clean : BOOLEAN]
Document == [text : Text, sessions : SUBSET Session, explicit : BOOLEAN]

ASSUME WorkspaceAssumption ==
  /\ None \notin Call \cup Session \cup Document
  /\ {MaxCalls, MaxSaves, MaxFailures} \subseteq Nat /\ MaxPlans \in Nat \ {0}
\* No document is not a document with some text.
ASSUME NoneIsNoText == None \notin Text

VARIABLES
  disk,        \* the text of the file
  event,       \* the watcher has a change to report
  server,      \* the language server's document: open and text
  speculator,  \* the call inside WithText, which holds the server's path lock
  docs,        \* w.docs: None or [text, sessions, explicit]
  overlays,    \* session -> None or [base, stale]; the text is Speculative(s)
  plans,       \* w.plans and w.order: the remembered plans, oldest first
  holder,      \* the call that holds lockDoc
  call,        \* the locals of every call
  since,       \* call -> the texts the file has had since it began
  connected,   \* session -> "yes", "ending", "no", "abandoned" (cleanup gave up)
  minted,      \* the tokens sessions were given
  calls, saves,   \* what the environment has used up
  failed       \* the kinds of failures the language server has shown

server_vars == <<server, speculator>>
file_vars == <<disk, event, saves, since>>
budget == <<calls, failed>>
vars == <<disk, event, server, speculator, docs, overlays, plans, holder, call,
          since, connected, minted, calls, saves, failed>>

\* forgetDocument and applyFileEdits forget the record by this text, which is
\* also the text of an empty file.
Forgotten == <<>>

Speculative(s) == <<s>>

Idle == [pc |-> "idle", op |-> None, who |-> None, read |-> None, got |-> None,
         base |-> None, token |-> None, edit |-> None, clean |-> TRUE, plan |-> None]

Operations == {"query", "diagnostics", "rename", "simulate", "open", "close"}

WorkspaceInit ==
  /\ \E m \in Saved : disk = <<m>>
  /\ event = FALSE
  /\ server = [open |-> FALSE, text |-> Forgotten] /\ speculator = None
  /\ docs = None /\ overlays = [s \in Session |-> None] /\ plans = <<>>
  /\ holder = None /\ call = [k \in Call |-> Idle] /\ since = [k \in Call |-> {}]
  /\ connected = [s \in Session |-> "yes"] /\ minted = {}
  /\ calls = 0 /\ saves = 0 /\ failed = {}
-----------------------------------------------------------------------------
(* Auxiliary operators.                                                     *)

At(k, point) == call[k].pc = point
Goto(k, point) == call' = [call EXCEPT ![k].pc = point]
Return(k) == call' = [call EXCEPT ![k] = Idle]

Busy(s) == \E k \in Call : call[k].who = s

\* What the server answers from now: the speculative text, the document's, or the
\* file when it has no document.
View ==
  IF speculator # None THEN Speculative(call[speculator].who)
  ELSE IF server.open THEN server.text ELSE disk

Stale(o) == IF o = None THEN None ELSE [o EXCEPT !.stale = TRUE]

\* invalidatePath: every session's overlay of the file is marked, none freed.
InvalidatePath == overlays' = [s \in Session |-> Stale(overlays[s])]

\* The file gets another text; every call in progress has seen both.
FileBecomes(text) ==
  /\ disk' = text
  /\ event' = TRUE
  /\ since' = [k \in Call |-> IF At(k, "idle") THEN {} ELSE since[k] \cup {text}]

Fails(kind) ==
  /\ Cardinality(failed) < MaxFailures /\ kind \notin failed
  /\ failed' = failed \cup {kind}
-----------------------------------------------------------------------------
(* The environment.                                                         *)

\* A request arrives: its handler starts in a goroutine of its own.
Begin(k, s, op) ==
  /\ At(k, "idle") /\ connected[s] = "yes" /\ calls < MaxCalls
  /\ call' = [call EXCEPT ![k] = [Idle EXCEPT !.op = op, !.who = s,
       !.pc = CASE op = "diagnostics" -> "overlay" [] op = "close" -> "release"
                [] OTHER -> "lock"]]
  /\ since' = [since EXCEPT ![k] = {disk}]
  /\ calls' = calls + 1
  /\ UNCHANGED <<disk, event, saves, failed, server, speculator, docs, overlays,
                 plans, holder, connected, minted>>

\* apply_edit, for a token this session or another was given.
BeginApply(k, s, m) ==
  /\ At(k, "idle") /\ connected[s] = "yes" /\ calls < MaxCalls
  /\ call' = [call EXCEPT ![k] = [Idle EXCEPT !.op = "apply", !.who = s,
                                    !.pc = "lookup", !.token = m]]
  /\ since' = [since EXCEPT ![k] = {disk}]
  /\ calls' = calls + 1
  /\ UNCHANGED <<disk, event, saves, failed, server, speculator, docs, overlays,
                 plans, holder, connected, minted>>

\* The session's client hangs up; serve ends its sessions when the handlers of
\* the connection have returned.
Disconnect(k, s) ==
  /\ At(k, "idle") /\ connected[s] = "yes" /\ ~Busy(s)
  /\ connected' = [connected EXCEPT ![s] = "ending"]
  /\ call' = [call EXCEPT ![k] = [Idle EXCEPT !.op = "end", !.who = s, !.pc = "drop"]]
  /\ since' = [since EXCEPT ![k] = {disk}]
  /\ UNCHANGED <<disk, event, saves, calls, failed, server, speculator, docs,
                 overlays, plans, holder, minted>>

Save(m) ==
  /\ saves < MaxSaves /\ saves' = saves + 1
  /\ disk # <<m>> /\ FileBecomes(<<m>>)
  /\ UNCHANGED <<server, speculator, docs, overlays, plans, holder, call,
                 connected, minted, budget>>

\* handleWatchBatch: every path of the batch goes through invalidateAndQueue or
\* invalidates the overlays itself.
Watch ==
  /\ event /\ event' = FALSE
  /\ InvalidatePath
  /\ UNCHANGED <<disk, saves, since, server, speculator, docs, plans, holder, call,
                 connected, minted, budget>>

\* sweep, and the expiry on use: an overlay that is not stale vanishes.
ExpireOverlay(s) ==
  /\ overlays[s] # None /\ ~overlays[s].stale
  /\ overlays' = [overlays EXCEPT ![s] = None]
  /\ UNCHANGED <<file_vars, server, speculator, docs, plans, holder, call, connected,
                 minted, budget>>
-----------------------------------------------------------------------------
(* prepare: the record, the server and the file are brought into line.      *)

\* lockDoc, and readDocument under it.
LockAndRead(k) ==
  /\ At(k, "lock") /\ holder = None
  /\ holder' = k
  /\ call' = [call EXCEPT ![k].pc = "close", ![k].read = disk]
  /\ UNCHANGED <<file_vars, server_vars, docs, overlays, plans, connected, minted, budget>>

\* The request's context ends while it waits for the lock.  The cleanup of a
\* departed session has a context of its own, of two seconds.
GiveUp(k) ==
  /\ At(k, "lock") \/ At(k, "release")
  /\ holder # None
  /\ connected' = IF call[k].op = "end"
                  THEN [connected EXCEPT ![call[k].who] = "abandoned"] ELSE connected
  /\ Return(k)
  /\ UNCHANGED <<file_vars, server_vars, docs, overlays, plans, holder, minted, budget>>

RecordDiffers(k) == docs # None /\ docs.text # call[k].read

\* The server's path lock is free, so that Open, Close and Diagnostics go on.
ServerFree == speculator = None

\* Mutant: a changed file is opened again without being closed first.
CloseNothing(k) ==
  /\ At(k, "close") /\ ServerFree
  /\ Goto(k, "open")
  /\ UNCHANGED <<file_vars, server, speculator, docs, overlays, plans, holder, connected,
                 minted, budget>>

CloseStale(k) ==
  /\ At(k, "close") /\ ServerFree
  /\ server' = IF RecordDiffers(k) THEN [server EXCEPT !.open = FALSE] ELSE server
  /\ Goto(k, "open")
  /\ UNCHANGED <<file_vars, speculator, docs, overlays, plans, holder, connected,
                 minted, budget>>

\* Open of a document that is open leaves its text alone.
OpenOnServer(k) ==
  /\ At(k, "open") /\ ServerFree
  /\ server' = IF server.open THEN server ELSE [open |-> TRUE, text |-> call[k].read]
  /\ Goto(k, "record")
  /\ UNCHANGED <<file_vars, speculator, docs, overlays, plans, holder, connected,
                 minted, budget>>

\* Mutant: the failed Open returns without unlocking the document.
OpenFailsInside(k) ==
  /\ At(k, "open") /\ Fails("open")
  /\ Return(k)
  /\ UNCHANGED <<file_vars, server_vars, docs, overlays, plans, holder, connected, minted, calls>>

\* The server is down or restarting, so Open fails.
OpenFails(k) ==
  /\ At(k, "open") /\ Fails("open")
  /\ holder' = None /\ Return(k)
  /\ UNCHANGED <<file_vars, server_vars, docs, overlays, plans, connected, minted, calls>>

\* A text that was pushed has not settled within the budget: NOT_READY, and
\* nothing is recorded.  Live diagnostics do not require it.
AnalysisUnsettled(k) ==
  /\ At(k, "record") /\ Fails("settle")
  /\ docs = None \/ RecordDiffers(k)
  /\ call[k].op # "live"
  /\ holder' = None /\ Return(k)
  /\ UNCHANGED <<file_vars, server_vars, docs, overlays, plans, connected, minted, calls>>

Claimed(d, s) == [d EXCEPT !.sessions = @ \cup {s}, !.explicit = TRUE]

Recorded(text) ==
  IF docs = None THEN [text |-> text, sessions |-> {}, explicit |-> FALSE]
                 ELSE [docs EXCEPT !.text = text]

\* What a prepared call does next.
AfterPrepare(op) ==
  CASE op \in {"query", "rename"} -> "ask" [] op = "live" -> "diagnose"
    [] op = "simulate" -> "hash"           [] op = "overlaid" -> "speculate"

\* The end of ensureDocumentLocked, with the claim of OpenDocument.
Record(k) ==
  /\ At(k, "record") /\ ServerFree
  /\ holder' = None
  /\ IF call[k].op = "open"
     THEN docs' = Claimed(Recorded(call[k].read), call[k].who) /\ Return(k)
     ELSE docs' = Recorded(call[k].read) /\ Goto(k, AfterPrepare(call[k].op))
  /\ UNCHANGED <<file_vars, server_vars, overlays, plans, connected, minted, budget>>
-----------------------------------------------------------------------------
(* Answers from the language server.                                        *)

\* Definition, Hover, References, DocumentSymbols and Rename send their request
\* without the server's path lock.
Ask(k) ==
  /\ At(k, "ask")
  /\ \E e \in IF call[k].op = "rename" THEN Edit ELSE {None} :
       call' = [call EXCEPT ![k].got = View, ![k].edit = e, ![k].clean = ServerFree,
                  ![k].pc = IF call[k].op = "rename" THEN "remember" ELSE "answered"]
  /\ UNCHANGED <<file_vars, server_vars, docs, overlays, plans, holder, connected,
                 minted, budget>>

\* Diagnostics of the file as it is: settle under the server's path lock.
Diagnose(k) ==
  /\ At(k, "diagnose") /\ ServerFree /\ server.open
  /\ call' = [call EXCEPT ![k].got = server.text, ![k].pc = "answered"]
  /\ UNCHANGED <<file_vars, server_vars, docs, overlays, plans, holder, connected,
                 minted, budget>>

\* Another session's close came between prepare and the request: the server
\* refuses, or has no diagnostics to settle on.
NotOpenAnyMore(k) ==
  /\ At(k, "ask") \/ (At(k, "diagnose") /\ ServerFree)
  /\ ~server.open
  /\ Return(k)
  /\ UNCHANGED <<file_vars, server_vars, docs, overlays, plans, holder, connected,
                 minted, budget>>

Answered(k) ==
  /\ At(k, "answered")
  /\ Return(k)
  /\ UNCHANGED <<file_vars, server_vars, docs, overlays, plans, holder, connected,
                 minted, budget>>
-----------------------------------------------------------------------------
(* Claims on the document.                                                  *)

\* Mutant: a claim is only deleted when it is the last one.
ReleaseLast(k) ==
  LET left == docs.sessions \ {call[k].who}
  IN /\ At(k, "release") /\ holder = None
     /\ IF docs = None THEN docs' = None /\ Return(k) /\ UNCHANGED holder
        ELSE IF left # {} \/ ~docs.explicit
        THEN docs' = docs /\ Return(k) /\ UNCHANGED holder
        ELSE docs' = None /\ holder' = k /\ Goto(k, "closing")
     /\ connected' = IF call[k].op = "end" /\ call'[k].pc = "idle"
                     THEN [connected EXCEPT ![call[k].who] = "no"] ELSE connected
     /\ UNCHANGED <<file_vars, server_vars, overlays, plans, minted, budget>>

\* releaseDocument up to the point where the record is settled.
Release(k) ==
  LET left == docs.sessions \ {call[k].who}
  IN /\ At(k, "release") /\ holder = None
     /\ IF docs = None THEN docs' = None /\ Return(k) /\ UNCHANGED holder
        ELSE IF left # {} \/ ~docs.explicit
        THEN docs' = [docs EXCEPT !.sessions = left] /\ Return(k) /\ UNCHANGED holder
        ELSE docs' = None /\ holder' = k /\ Goto(k, "closing")
     /\ connected' = IF call[k].op = "end" /\ call'[k].pc = "idle"
                     THEN [connected EXCEPT ![call[k].who] = "no"] ELSE connected
     /\ UNCHANGED <<file_vars, server_vars, overlays, plans, minted, budget>>

Released(k) ==
  /\ holder' = None /\ Return(k)
  /\ connected' = IF call[k].op = "end"
                  THEN [connected EXCEPT ![call[k].who] = "no"] ELSE connected

CloseReleased(k) ==
  /\ At(k, "closing") /\ ServerFree
  /\ server' = [server EXCEPT !.open = FALSE]
  /\ Released(k)
  /\ UNCHANGED <<file_vars, speculator, docs, overlays, plans, minted, budget>>

\* serverFor fails while the server restarts: "no server, nothing to tell".
NoServerToTell(k) ==
  /\ At(k, "closing") /\ Fails("release")
  /\ Released(k)
  /\ UNCHANGED <<file_vars, server_vars, docs, overlays, plans, minted, calls>>

\* EndSession: the overlays go, and the claims found now are released.
DropSession(k) ==
  LET s == call[k].who
      claims == docs # None /\ s \in docs.sessions
  IN /\ At(k, "drop")
     /\ overlays' = [overlays EXCEPT ![s] = None]
     /\ IF claims THEN Goto(k, "release") /\ UNCHANGED connected
                  ELSE Return(k) /\ connected' = [connected EXCEPT ![s] = "no"]
     /\ UNCHANGED <<file_vars, server_vars, docs, plans, holder, minted, budget>>
-----------------------------------------------------------------------------
(* Speculative texts.                                                       *)

\* SimulateEdit after prepare: hashFile ...
HashBase(k) ==
  /\ At(k, "hash")
  /\ call' = [call EXCEPT ![k].base = disk, ![k].pc = "put"]
  /\ UNCHANGED <<file_vars, server_vars, docs, overlays, plans, holder, connected,
                 minted, budget>>

\* ... and overlays.put, which replaces a stale one.
PutOverlay(k) ==
  /\ At(k, "put")
  /\ overlays' = [overlays EXCEPT ![call[k].who] = [base |-> call[k].base, stale |-> FALSE]]
  /\ Goto(k, "speculate")
  /\ UNCHANGED <<file_vars, server_vars, docs, plans, holder, connected, minted, budget>>

\* overlays.live, at the start of Diagnostics.
LiveOverlay(k) ==
  LET o == overlays[call[k].who]
  IN /\ At(k, "overlay")
     /\ \/ /\ o = None
           /\ call' = [call EXCEPT ![k].op = "live", ![k].pc = "lock"]
           /\ UNCHANGED overlays
        \/ /\ o # None /\ o.stale                    \* STALE_EDIT
           /\ overlays' = [overlays EXCEPT ![call[k].who] = None]
           /\ Return(k)
        \/ /\ o # None /\ ~o.stale
           /\ call' = [call EXCEPT ![k].op = "overlaid", ![k].base = o.base,
                                   ![k].pc = "compare"]
           /\ UNCHANGED overlays
     /\ UNCHANGED <<file_vars, server_vars, docs, plans, holder, connected, minted, budget>>

\* Mutant: an overlay the watcher has not marked is trusted.
CompareNothing(k) ==
  /\ At(k, "compare")
  /\ Goto(k, "lock") /\ UNCHANGED overlays
  /\ UNCHANGED <<file_vars, server_vars, docs, plans, holder, connected, minted, budget>>

\* The file moved without a signal: as if the watcher had reported it, and the
\* session's own overlay is used up by the STALE_EDIT.
CompareBase(k) ==
  /\ At(k, "compare")
  /\ IF disk = call[k].base
     THEN Goto(k, "lock") /\ UNCHANGED overlays
     ELSE /\ overlays' = [s \in Session |->
                            IF s = call[k].who THEN None ELSE Stale(overlays[s])]
          /\ Return(k)
  /\ UNCHANGED <<file_vars, server_vars, docs, plans, holder, connected, minted, budget>>

\* WithText takes the server's path lock and pushes the session's text.  It
\* refuses a document that is not open.
PushText(k) ==
  /\ At(k, "speculate") /\ ServerFree
  /\ IF server.open THEN speculator' = k /\ Goto(k, "restore")
                    ELSE speculator' = None /\ Goto(k, "forget")
  /\ UNCHANGED <<file_vars, server, docs, overlays, plans, holder, connected,
                 minted, budget>>

\* Mutant: the record is forgotten inside WithText, lockDoc after the path lock.
RestoreAndForget(k) ==
  /\ At(k, "restore") /\ holder = None
  /\ speculator' = None
  /\ docs' = IF docs = None THEN None ELSE [docs EXCEPT !.text = Forgotten]
  /\ call' = [call EXCEPT ![k].got = View, ![k].pc = "forget"]
  /\ UNCHANGED <<file_vars, server, overlays, plans, holder, connected,
                 minted, budget>>

\* Its diagnostics have settled; the text from before is restored.
RestoreText(k) ==
  /\ At(k, "restore")
  /\ speculator' = None
  /\ call' = [call EXCEPT ![k].got = View, ![k].pc = "forget"]
  /\ UNCHANGED <<file_vars, server, docs, overlays, plans, holder, connected,
                 minted, budget>>

Forget == docs' = IF docs = None THEN None ELSE [docs EXCEPT !.text = Forgotten]

\* forgetDocument, and the end of SimulateEdit or of overlaid diagnostics.
ForgetDocument(k) ==
  /\ At(k, "forget") /\ holder = None
  /\ Forget
  /\ IF call[k].got = None THEN Return(k) ELSE Goto(k, "answered")
  /\ UNCHANGED <<file_vars, server_vars, overlays, plans, holder, connected, minted, budget>>
-----------------------------------------------------------------------------
(* Planned edits.                                                           *)

\* The token carries the hash of the file, which tells texts apart, and nothing
\* of the plan.
Token(text) == [hash |-> text]

Newest(seq) == IF Len(seq) > MaxPlans THEN Tail(seq) ELSE seq

\* rememberPlan: a plan of the same token is replaced in place.
Remembered(token, plan) ==
  IF \E i \in DOMAIN plans : plans[i].token = token
  THEN [i \in DOMAIN plans |-> IF plans[i].token = token THEN plan ELSE plans[i]]
  ELSE Newest(Append(plans, plan))

\* The end of Rename: the files are hashed after the server has answered.
RememberPlan(k) ==
  LET token == Token(disk)
      plan == [token |-> token, edit |-> call[k].edit, of |-> call[k].got,
               clean |-> call[k].clean /\ since[k] = {disk}]
  IN /\ At(k, "remember")
     /\ plans' = Remembered(token, plan)
     /\ minted' = minted \cup {token}
     /\ Goto(k, "answered")
     /\ UNCHANGED <<file_vars, server_vars, docs, overlays, holder, connected, budget>>

\* planFor: a token that has been forgotten is STALE_EDIT.
LookUp(k) ==
  /\ At(k, "lookup")
  /\ \/ \E i \in DOMAIN plans : /\ plans[i].token = call[k].token
                                /\ call' = [call EXCEPT ![k].plan = plans[i],
                                                        ![k].pc = "verify"]
     \/ (\A i \in DOMAIN plans : plans[i].token # call[k].token) /\ Return(k)
  /\ UNCHANGED <<file_vars, server_vars, docs, overlays, plans, holder, connected,
                 minted, budget>>

\* Mutant: a remembered plan is taken for a verified one.
VerifyNothing(k) ==
  /\ At(k, "verify")
  /\ Goto(k, "read")
  /\ UNCHANGED <<file_vars, server_vars, docs, overlays, plans, holder, connected,
                 minted, budget>>

\* hashFile against the hash of the token: STALE_EDIT if they differ.
Verify(k) ==
  /\ At(k, "verify")
  /\ IF Token(disk) = call[k].token THEN Goto(k, "read") ELSE Return(k)
  /\ UNCHANGED <<file_vars, server_vars, docs, overlays, plans, holder, connected,
                 minted, budget>>

\* applyFileEdits reads the file again, without a lock ...
ReadForEdit(k) ==
  /\ At(k, "read")
  /\ call' = [call EXCEPT ![k].read = disk, ![k].pc = "write"]
  /\ UNCHANGED <<file_vars, server_vars, docs, overlays, plans, holder, connected,
                 minted, budget>>

\* ... writes it and marks the overlays ...
WriteEdit(k) ==
  /\ At(k, "write")
  /\ FileBecomes(Append(call[k].read, call[k].plan.edit))
  /\ InvalidatePath
  /\ Goto(k, "rewritten")
  /\ UNCHANGED <<saves, server_vars, docs, plans, holder, connected, minted, budget>>

\* ... forgets the record, and invalidates what was derived from the file.
ForgetWritten(k) ==
  /\ At(k, "rewritten") /\ holder = None
  /\ Forget /\ InvalidatePath
  /\ Return(k)
  /\ UNCHANGED <<file_vars, server_vars, plans, holder, connected, minted, budget>>
-----------------------------------------------------------------------------
Arrive(k) ==
  \/ \E s \in Session : (\E op \in Operations : Begin(k, s, op)) \/ Disconnect(k, s)
  \/ \E s \in Session : \E m \in minted : BeginApply(k, s, m)

Prepare(k) == LockAndRead(k) \/ CloseStale(k) \/ OpenOnServer(k) \/ Record(k)

Respond(k) == Ask(k) \/ Diagnose(k) \/ NotOpenAnyMore(k) \/ Answered(k)

LetGo(k) == Release(k) \/ CloseReleased(k) \/ DropSession(k)

Speculate(k) ==
  \/ HashBase(k) \/ PutOverlay(k) \/ LiveOverlay(k) \/ CompareBase(k)
  \/ PushText(k) \/ RestoreText(k) \/ ForgetDocument(k)

ApplyEdit(k) ==
  \/ RememberPlan(k) \/ LookUp(k) \/ Verify(k) \/ ReadForEdit(k) \/ WriteEdit(k)
  \/ ForgetWritten(k)

\* The steps the goroutine of a request takes by itself.
Step(k) == Prepare(k) \/ Respond(k) \/ LetGo(k) \/ Speculate(k) \/ ApplyEdit(k)

Trouble(k) ==
  GiveUp(k) \/ OpenFails(k) \/ AnalysisUnsettled(k) \/ NoServerToTell(k)

WorkspaceNext ==
  \/ \E k \in Call : Arrive(k) \/ Step(k) \/ Trouble(k)
  \/ \E m \in Saved : Save(m)
  \/ \E s \in Session : ExpireOverlay(s)
  \/ Watch

WorkspaceSpec == WorkspaceInit /\ [][WorkspaceNext]_vars
-----------------------------------------------------------------------------
Point ==
  {"idle", "lock", "close", "open", "record", "ask", "diagnose", "answered",
   "release", "closing", "drop", "hash", "put", "overlay", "compare", "speculate",
   "restore", "forget", "remember", "lookup", "verify", "read", "write", "rewritten"}
Locals ==
  [pc : Point, op : Operations \cup {"live", "overlaid", "apply", "end", None},
   who : Session \cup {None}, read : Text \cup {None}, got : Text \cup {None},
   base : Text \cup {None}, token : Tokens \cup {None}, edit : Edit \cup {None}, clean : BOOLEAN,
   plan : Plan \cup {None}]

TypeOK ==
  /\ disk \in Text /\ event \in BOOLEAN
  /\ server \in [open : BOOLEAN, text : Text] /\ speculator \in Call \cup {None}
  /\ docs \in Document \cup {None}
  /\ overlays \in [Session -> [base : Text, stale : BOOLEAN] \cup {None}]
  /\ plans \in Seq(Plan) /\ holder \in Call \cup {None}
  /\ call \in [Call -> Locals] /\ since \in [Call -> SUBSET Text]
  /\ connected \in [Session -> {"yes", "ending", "no", "abandoned"}]
  /\ minted \subseteq Tokens
  /\ calls \in 0..MaxCalls /\ saves \in 0..MaxSaves
  /\ failed \subseteq {"open", "settle", "release"}

\* At most one call is between lockDoc and its unlock, and it is the holder; the
\* one inside WithText is the speculator.
Locked(k) == call[k].pc \in {"close", "open", "record", "closing"}
LocksExclude ==
  \A k \in Call : (Locked(k) <=> holder = k) /\ (At(k, "restore") <=> speculator = k)

\* A token names one remembered plan, and no more than MaxPlans are remembered.
PlansAreBounded ==
  /\ Len(plans) <= MaxPlans
  /\ \A i, j \in DOMAIN plans : plans[i].token = plans[j].token => i = j

\* The type invariant, with the shape of the locks and of the remembered plans.
WorkspaceInv == TypeOK /\ LocksExclude /\ PlansAreBounded

\* Whoever finds the lock free finds the record true: a recorded text that was
\* not forgotten is the server's text, a document nobody records is closed, and a
\* session that claims the document has it open (the hazard of releaseDocument,
\* ensureDocumentLocked and forgetDocument interleaving for several sessions).
RecordIsTrue ==
  holder = None /\ failed \subseteq {"open"} =>
    IF docs = None THEN ~server.open
    ELSE /\ server.open \/ "open" \in failed
         /\ server.open /\ docs.text # Forgotten => server.text = docs.text

\* get_diagnostics never answers about a text the file did not have during the
\* request, nor about another session's: live diagnostics are of a text on disk,
\* diagnostics through an overlay are of the session's own text, and the base it
\* was simulated against was on disk (query.go:273-281, overlay.go).
DiagnosticsOf(k) ==
  /\ At(k, "answered") /\ call[k].op = "live" => call[k].got \in since[k]
  /\ At(k, "answered") /\ call[k].op = "overlaid" =>
       call[k].got = Speculative(call[k].who) /\ call[k].base \in since[k]

AlwaysCurrent == \A k \in Call : DiagnosticsOf(k)

\* The same as long as no analysis ran out of its budget and no document was left
\* open on a server that was restarting when its last claim went.
DiagnosticsAreCurrent == failed \subseteq {"open"} => AlwaysCurrent

\* No answer is about a text that another session only simulated (SPEC.md:304).
SessionsAreIsolated ==
  \A k \in Call : \A s \in Session \ {call[k].who} : call[k].got # Speculative(s)

\* However long after its plan, whatever was saved, planned and evicted meanwhile: an edit
\* is written only if the file had the text its token names during the request, and over
\* a text it had during the request; and unless planning was disturbed (the file changed,
\* or another session was simulating) the token names the text the edit was computed for.
\* So an edit fits the file, unless the file changes under one of the two requests.
EditFitsFile ==
  [][\A k \in Call : WriteEdit(k) =>
       /\ {call[k].token.hash, call[k].read} \subseteq since[k]
       /\ call[k].plan.clean /\ failed \subseteq {"open"} =>
            call[k].token.hash = call[k].plan.of]_vars

\* The same without exception: "apply_edit verifies those hashes against disk and rejects
\* with STALE_EDIT if any file changed since the dry-run" (SPEC.md:277-279).  Rename hashes
\* the file after the server has answered, and ApplyEdit reads it again after verifying.
AppliedIsPlanned ==
  [][\A k \in Call : WriteEdit(k) => call[k].read = call[k].plan.of]_vars

\* A session whose cleanup was not cut off leaves no claim and no overlay behind.
NothingLeftOfSession ==
  \A s \in Session : connected[s] = "no" =>
    overlays[s] = None /\ (docs # None => s \notin docs.sessions)

\* A call waits for the document's lock, or for the server's path lock.
WaitsForDocument(k) ==
  call[k].pc \in {"lock", "release", "forget", "rewritten"} /\ holder # None
WaitsForServer(k) ==
  call[k].pc \in {"close", "open", "record", "closing", "diagnose", "speculate"} /\ ~ServerFree
Waits(k) == WaitsForDocument(k) \/ WaitsForServer(k)

\* lockDoc is outside the server's path lock: nobody waits for itself, who holds lockDoc
\* waits for the path lock only, who holds the path lock waits for nothing, and so
\* somebody is always on its way.
LocksAreOrdered ==
  /\ \A k \in Call : WaitsForDocument(k) => holder # k /\ ~WaitsForDocument(holder)
  /\ \A k \in Call : WaitsForServer(k) => speculator # k /\ ~Waits(speculator)
  /\ (\E k \in Call : ~At(k, "idle")) => \E k \in Call : ~At(k, "idle") /\ ~Waits(k)

\* Waiting is the only reason for a request in progress not to take a step by itself, so
\* some request always can: no lock is kept, and no two requests wait for each other.
SomebodyMoves ==
  /\ LocksAreOrdered
  /\ \A k \in Call : ~At(k, "idle") => (ENABLED Step(k) <=> ~Waits(k))

\* What the requests see of the language server is what DocumentSync promises: a document
\* that is opened and closed, and whose text changes in no other way.
Served == INSTANCE Documents WITH
  Path <- {"file"}, Closed <- None,
  docs <- [p \in {"file"} |-> IF server.open THEN server.text ELSE None]
ImplementsDocuments == Served!Spec
=============================================================================
