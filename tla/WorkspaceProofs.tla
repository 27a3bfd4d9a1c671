--------------------------- MODULE WorkspaceProofs ---------------------------
(***************************************************************************)
(* Proofs about Workspace, for any number of requests, sessions, texts,    *)
(* edits and plans.                                                        *)
(***************************************************************************)
EXTENDS Workspace, TLAPS

USE WorkspaceAssumption DEF WorkspaceAssumption

\* What is used of texts: what a user saves and what an edit writes is a text,
\* and is not the text that stands for a forgotten record.
LEMMA Texts ==
  /\ Forgotten \in Text
  /\ \A m \in Saved : <<m>> \in Text /\ <<m>> # Forgotten
  /\ \A s \in Session : Speculative(s) \in Text
  /\ \A t \in Text : \A e \in Edit : Append(t, e) \in Text /\ Append(t, e) # Forgotten
<1>1. Forgotten \in Text
  BY DEF Forgotten, Text
<1>2. ASSUME NEW m \in Saved PROVE <<m>> \in Text /\ <<m>> # Forgotten
  BY DEF Forgotten, Text
<1>3. ASSUME NEW s \in Session PROVE Speculative(s) \in Text
  BY DEF Speculative, Text
<1>4. ASSUME NEW t \in Text, NEW e \in Edit
      PROVE  Append(t, e) \in Text /\ Append(t, e) # Forgotten
  <2>1. Append(t, e) \in Text /\ Len(Append(t, e)) = Len(t) + 1 /\ Len(t) \in Nat
    BY DEF Text
  <2>2. Len(Forgotten) = 0
    BY DEF Forgotten
  <2>3. QED
    BY <2>1, <2>2
<1>5. QED
  BY <1>1, <1>2, <1>3, <1>4

\* What rememberPlan keeps: the new plan and plans that were there, no more than
\* the bound, one for each token.
LEMMA PlansRemembered ==
  ASSUME NEW plan \in Plan, plans \in Seq(Plan), PlansAreBounded
  PROVE  LET kept == Remembered(plan.token, plan)
         IN /\ kept \in Seq(Plan) /\ Len(kept) <= MaxPlans
            /\ \A i \in DOMAIN kept : kept[i] = plan \/ \E j \in DOMAIN plans : kept[i] = plans[j]
            /\ \A i, j \in DOMAIN kept : kept[i].token = kept[j].token => i = j
<1>1. CASE \E i \in DOMAIN plans : plans[i].token = plan.token
  <2> DEFINE kept == [i \in DOMAIN plans |-> IF plans[i].token = plan.token THEN plan ELSE plans[i]]
  <2>1. Remembered(plan.token, plan) = kept
    BY <1>1 DEF Remembered
  <2>2. kept \in Seq(Plan) /\ Len(kept) = Len(plans) /\ DOMAIN kept = DOMAIN plans
    OBVIOUS
  <2>3. \A i \in DOMAIN plans : kept[i].token = plans[i].token
    OBVIOUS
  <2>4. QED
    BY <2>1, <2>2, <2>3 DEF PlansAreBounded
<1>2. CASE \A i \in DOMAIN plans : plans[i].token # plan.token
  <2> DEFINE more == Append(plans, plan)
  <2>1. Remembered(plan.token, plan) = Newest(more)
    BY <1>2 DEF Remembered
  <2>2. /\ more \in Seq(Plan) /\ Len(more) = Len(plans) + 1
        /\ \A i \in DOMAIN more : more[i] = IF i = Len(plans) + 1 THEN plan ELSE plans[i]
        /\ \A i \in DOMAIN more : i # Len(plans) + 1 => i \in DOMAIN plans
    OBVIOUS
  <2>3. \A i, j \in DOMAIN more : more[i].token = more[j].token => i = j
    BY <2>2, <1>2 DEF PlansAreBounded
  <2>4. CASE Len(more) <= MaxPlans
    <3>1. Newest(more) = more
      BY <2>4, <2>2 DEF Newest
    <3>2. QED
      BY <3>1, <2>1, <2>2, <2>3, <2>4
  <2>5. CASE Len(more) > MaxPlans
    <3> DEFINE tail == Tail(more)
    <3>1. Newest(more) = tail
      BY <2>5 DEF Newest
    <3>2. /\ tail \in Seq(Plan) /\ Len(tail) = Len(plans)
          /\ \A i \in DOMAIN tail : tail[i] = more[i + 1] /\ i + 1 \in DOMAIN more
      BY <2>2
    <3>3. QED
      BY <3>1, <3>2, <2>1, <2>2, <2>3 DEF PlansAreBounded
  <2>6. QED
    BY <2>2, <2>4, <2>5
<1>3. QED
  BY <1>1, <1>2

-----------------------------------------------------------------------------
\* What is done at which point, and what is known there.
Shape ==
  \A k \in Call :
    /\ At(k, "idle") => call[k].op = None /\ call[k].who = None
    /\ ~At(k, "idle") => call[k].who \in Session
    /\ call[k].pc \in {"lock", "close", "open", "record"} =>
         call[k].op \in {"query", "rename", "live", "simulate", "overlaid", "open"}
    /\ call[k].pc \in {"close", "open", "record", "write"} => call[k].read \in Text
    /\ At(k, "ask") => call[k].op \in {"query", "rename"}
    /\ At(k, "diagnose") => call[k].op = "live"
    /\ At(k, "answered") => call[k].op \in {"query", "live", "rename", "simulate", "overlaid"}
    /\ At(k, "remember") => call[k].op = "rename" /\ call[k].got \in Text /\ call[k].edit \in Edit
    /\ call[k].pc \in {"hash", "put"} => call[k].op = "simulate"
    /\ At(k, "overlay") => call[k].op = "diagnostics"
    /\ At(k, "compare") => call[k].op = "overlaid"
    /\ call[k].pc \in {"put", "compare"} => call[k].base \in Text
    /\ call[k].pc \in {"speculate", "restore", "forget"} => call[k].op \in {"simulate", "overlaid"}
    /\ call[k].pc \in {"lookup", "verify", "read", "write", "rewritten"} =>
         call[k].op = "apply" /\ call[k].token \in Tokens
    /\ call[k].pc \in {"verify", "read", "write", "rewritten"} => call[k].plan \in Plan
    /\ call[k].pc \in {"release", "closing"} => call[k].op \in {"close", "end"}
    /\ At(k, "drop") => call[k].op = "end"
    /\ At(k, "closing") => docs = None

\* The points of a call.
LEMMA Points ==
  /\ "idle" \in Point /\ "lock" \in Point /\ "close" \in Point /\ "open" \in Point
  /\ "record" \in Point /\ "ask" \in Point /\ "diagnose" \in Point /\ "answered" \in Point
  /\ "release" \in Point /\ "closing" \in Point /\ "drop" \in Point /\ "hash" \in Point
  /\ "put" \in Point /\ "overlay" \in Point /\ "compare" \in Point /\ "speculate" \in Point
  /\ "restore" \in Point /\ "forget" \in Point /\ "remember" \in Point /\ "lookup" \in Point
  /\ "verify" \in Point /\ "read" \in Point /\ "write" \in Point /\ "rewritten" \in Point
  BY DEF Point

\* What a step does to the locals of its call keeps their types.
LEMMA Fields ==
  ASSUME NEW l \in Locals, NEW p \in Point, NEW t \in Text
  PROVE  /\ [l EXCEPT !.pc = p] \in Locals
         /\ [l EXCEPT !.pc = p, !.read = t] \in Locals
         /\ [l EXCEPT !.read = t, !.pc = p] \in Locals
         /\ [l EXCEPT !.base = t, !.pc = p] \in Locals
         /\ [l EXCEPT !.got = t, !.pc = p] \in Locals
         /\ [l EXCEPT !.op = "live", !.pc = p] \in Locals
         /\ [l EXCEPT !.op = "overlaid", !.base = t, !.pc = p] \in Locals
<1>1. [l EXCEPT !.pc = p] \in Locals
  BY DEF Locals
<1>2. [l EXCEPT !.pc = p, !.read = t] \in Locals
  BY DEF Locals
<1>3. [l EXCEPT !.read = t, !.pc = p] \in Locals
  BY DEF Locals
<1>4. [l EXCEPT !.base = t, !.pc = p] \in Locals
  BY DEF Locals
<1>5. [l EXCEPT !.got = t, !.pc = p] \in Locals
  BY DEF Locals
<1>6. [l EXCEPT !.op = "live", !.pc = p] \in Locals
  BY DEF Locals
<1>7. [l EXCEPT !.op = "overlaid", !.base = t, !.pc = p] \in Locals
  BY DEF Locals
<1>8. QED
  BY <1>1, <1>2, <1>3, <1>4, <1>5, <1>6, <1>7

\* So does what the server answers.
LEMMA AnswerFields ==
  ASSUME NEW l \in Locals, NEW p \in Point, NEW t \in Text,
         NEW e \in Edit \cup {None}, NEW b \in BOOLEAN
  PROVE  [l EXCEPT !.got = t, !.edit = e, !.clean = b, !.pc = p] \in Locals
  BY DEF Locals

\* So does the plan a call has looked up.
LEMMA PlanFields ==
  ASSUME NEW l \in Locals, NEW p \in Point, NEW q \in Plan
  PROVE  [l EXCEPT !.plan = q, !.pc = p] \in Locals
  BY DEF Locals

\* A call that returns or goes on keeps the types of all locals.
LEMMA Moves ==
  ASSUME call \in [Call -> Locals], NEW k \in Call
  PROVE  /\ Return(k) => call' \in [Call -> Locals]
         /\ \A p \in Point : Goto(k, p) => call' \in [Call -> Locals]
<1>1. Idle \in Locals
  BY Points DEF Idle, Locals
<1>2. ASSUME NEW p \in Point, Goto(k, p) PROVE call' \in [Call -> Locals]
  <2>1. call' = [call EXCEPT ![k] = [call[k] EXCEPT !.pc = p]]
    BY <1>2 DEF Goto
  <2>2. [call[k] EXCEPT !.pc = p] \in Locals
    BY Texts, Fields
  <2>3. QED
    BY <2>1, <2>2
<1>3. QED
  BY <1>1, <1>2 DEF Return

\* What the server answers is a text.
LEMMA Views ==
  ASSUME TypeOK, LocksExclude, Shape
  PROVE  View \in Text
<1>1. CASE speculator = None
  BY <1>1 DEF View, TypeOK
<1>2. CASE speculator \in Call
  <2>1. call[speculator].who \in Session
    BY <1>2 DEF LocksExclude, Shape, At
  <2>2. QED
    BY <1>2, <2>1, Texts DEF View
<1>3. QED
  BY <1>1, <1>2 DEF TypeOK

\* Every step keeps the types of the locals.
LEMMA CallStep ==
  ASSUME TypeOK, LocksExclude, Shape, [WorkspaceNext]_vars
  PROVE  (call \in [Call -> Locals])'
<1> USE DEF TypeOK
<1>1. ASSUME UNCHANGED vars PROVE (call \in [Call -> Locals])'
  BY <1>1 DEF vars
<1>2. ASSUME NEW k \in Call, NEW s \in Session, NEW op \in Operations, Begin(k, s, op)
      PROVE  (call \in [Call -> Locals])'
  <2>1. [Idle EXCEPT !.op = op, !.who = s,
           !.pc = CASE op = "diagnostics" -> "overlay" [] op = "close" -> "release"
                    [] OTHER -> "lock"] \in Locals
    BY Points DEF Idle, Locals
  <2>2. QED
    BY <1>2, <2>1 DEF Begin
<1>3. ASSUME NEW k \in Call, NEW s \in Session, NEW m \in minted, BeginApply(k, s, m)
      PROVE  (call \in [Call -> Locals])'
  <2>1. [Idle EXCEPT !.op = "apply", !.who = s, !.pc = "lookup", !.token = m] \in Locals
    BY Points DEF Idle, Locals
  <2>2. QED
    BY <1>3, <2>1 DEF BeginApply
<1>4. ASSUME NEW k \in Call, NEW s \in Session, Disconnect(k, s)
      PROVE  (call \in [Call -> Locals])'
  <2>1. [Idle EXCEPT !.op = "end", !.who = s, !.pc = "drop"] \in Locals
    BY Points DEF Idle, Locals
  <2>2. QED
    BY <1>4, <2>1 DEF Disconnect
<1>5. ASSUME NEW k \in Call, LockAndRead(k) PROVE (call \in [Call -> Locals])'
  <2>1. [call[k] EXCEPT !.pc = "close", !.read = disk] \in Locals
    BY Points, Fields, Texts
  <2>2. call' = [call EXCEPT ![k] = [call[k] EXCEPT !.pc = "close", !.read = disk]]
    BY <1>5 DEF LockAndRead
  <2>3. QED
    BY <2>1, <2>2
<1>6. ASSUME NEW k \in Call, CloseStale(k) PROVE (call \in [Call -> Locals])'
  BY <1>6, Moves, Points DEF CloseStale
<1>7. ASSUME NEW k \in Call, OpenOnServer(k) PROVE (call \in [Call -> Locals])'
  BY <1>7, Moves, Points DEF OpenOnServer
<1>8. ASSUME NEW k \in Call, Record(k) PROVE (call \in [Call -> Locals])'
  <2>1. AfterPrepare(call[k].op) \in Point \/ call[k].op = "open"
    BY <1>8, Points DEF Record, AfterPrepare, Shape, At
  <2>2. Return(k) \/ (call[k].op # "open" /\ Goto(k, AfterPrepare(call[k].op)))
    BY <1>8 DEF Record
  <2>3. QED
    BY <2>1, <2>2, Moves
<1>9. ASSUME NEW k \in Call, Ask(k) PROVE (call \in [Call -> Locals])'
  <2>1. PICK e \in Edit \cup {None} :
          call' = [call EXCEPT ![k].got = View, ![k].edit = e, ![k].clean = ServerFree,
                     ![k].pc = IF call[k].op = "rename" THEN "remember" ELSE "answered"]
    BY <1>9 DEF Ask
  <2>2. View \in Text /\ ServerFree \in BOOLEAN
    BY Views DEF ServerFree
  <2> DEFINE p == IF call[k].op = "rename" THEN "remember" ELSE "answered"
  <2>3. p \in Point
    BY Points
  <2>4. [call[k] EXCEPT !.got = View, !.edit = e, !.clean = ServerFree, !.pc = p] \in Locals
    BY <2>2, <2>3, AnswerFields
  <2>5. call' = [call EXCEPT ![k] = [call[k] EXCEPT !.got = View, !.edit = e, !.clean = ServerFree, !.pc = p]]
    BY <2>1
  <2>6. QED
    BY <2>4, <2>5
<1>10. ASSUME NEW k \in Call, Diagnose(k) PROVE (call \in [Call -> Locals])'
  <2>1. [call[k] EXCEPT !.got = server.text, !.pc = "answered"] \in Locals
    BY Points, Fields
  <2>2. call' = [call EXCEPT ![k] = [call[k] EXCEPT !.got = server.text, !.pc = "answered"]]
    BY <1>10 DEF Diagnose
  <2>3. QED
    BY <2>1, <2>2
<1>11. ASSUME NEW k \in Call, NotOpenAnyMore(k) PROVE (call \in [Call -> Locals])'
  BY <1>11, Moves, Points DEF NotOpenAnyMore
<1>12. ASSUME NEW k \in Call, Answered(k) PROVE (call \in [Call -> Locals])'
  BY <1>12, Moves, Points DEF Answered
<1>13. ASSUME NEW k \in Call, Release(k) PROVE (call \in [Call -> Locals])'
  BY <1>13, Moves, Points DEF Release
<1>14. ASSUME NEW k \in Call, CloseReleased(k) PROVE (call \in [Call -> Locals])'
  BY <1>14, Moves, Points DEF CloseReleased, Released
<1>15. ASSUME NEW k \in Call, DropSession(k) PROVE (call \in [Call -> Locals])'
  BY <1>15, Moves, Points DEF DropSession
<1>16. ASSUME NEW k \in Call, HashBase(k) PROVE (call \in [Call -> Locals])'
  <2>1. [call[k] EXCEPT !.base = disk, !.pc = "put"] \in Locals
    BY Points, Fields, Texts
  <2>2. call' = [call EXCEPT ![k] = [call[k] EXCEPT !.base = disk, !.pc = "put"]]
    BY <1>16 DEF HashBase
  <2>3. QED
    BY <2>1, <2>2
<1>17. ASSUME NEW k \in Call, PutOverlay(k) PROVE (call \in [Call -> Locals])'
  BY <1>17, Moves, Points DEF PutOverlay
<1>18. ASSUME NEW k \in Call, LiveOverlay(k) PROVE (call \in [Call -> Locals])'
  <2>1. CASE Return(k)
    BY <2>1, Moves
  <2>2. CASE call' = [call EXCEPT ![k].op = "live", ![k].pc = "lock"]
    <3>1. [call[k] EXCEPT !.op = "live", !.pc = "lock"] \in Locals
      BY Texts, Points, Fields
    <3>2. call' = [call EXCEPT ![k] = [call[k] EXCEPT !.op = "live", !.pc = "lock"]]
      BY <2>2
    <3>3. QED
      BY <3>1, <3>2
  <2> DEFINE o == overlays[call[k].who]
  <2>3. CASE /\ o # None
             /\ call' = [call EXCEPT ![k].op = "overlaid", ![k].base = o.base, ![k].pc = "compare"]
    <3>1. o.base \in Text
      BY <2>3, <1>18 DEF LiveOverlay, Shape, At
    <3>2. [call[k] EXCEPT !.op = "overlaid", !.base = o.base, !.pc = "compare"] \in Locals
      BY <3>1, Points, Fields
    <3>3. call' = [call EXCEPT ![k] = [call[k] EXCEPT !.op = "overlaid", !.base = o.base, !.pc = "compare"]]
      BY <2>3
    <3>4. QED
      BY <3>2, <3>3
  <2>4. QED
    BY <1>18, <2>1, <2>2, <2>3 DEF LiveOverlay
<1>19. ASSUME NEW k \in Call, CompareBase(k) PROVE (call \in [Call -> Locals])'
  BY <1>19, Moves, Points DEF CompareBase
<1>20. ASSUME NEW k \in Call, PushText(k) PROVE (call \in [Call -> Locals])'
  BY <1>20, Moves, Points DEF PushText
<1>21. ASSUME NEW k \in Call, RestoreText(k) PROVE (call \in [Call -> Locals])'
  <2>1. [call[k] EXCEPT !.got = View, !.pc = "forget"] \in Locals
    BY Views, Points, Fields
  <2>2. call' = [call EXCEPT ![k] = [call[k] EXCEPT !.got = View, !.pc = "forget"]]
    BY <1>21 DEF RestoreText
  <2>3. QED
    BY <2>1, <2>2
<1>22. ASSUME NEW k \in Call, ForgetDocument(k) PROVE (call \in [Call -> Locals])'
  BY <1>22, Moves, Points DEF ForgetDocument
<1>23. ASSUME NEW k \in Call, RememberPlan(k) PROVE (call \in [Call -> Locals])'
  BY <1>23, Moves, Points DEF RememberPlan
<1>24. ASSUME NEW k \in Call, LookUp(k) PROVE (call \in [Call -> Locals])'
  <2>1. CASE Return(k)
    BY <2>1, Moves
  <2>2. CASE \E i \in DOMAIN plans : call' = [call EXCEPT ![k].plan = plans[i], ![k].pc = "verify"]
    <3>1. PICK i \in DOMAIN plans : call' = [call EXCEPT ![k].plan = plans[i], ![k].pc = "verify"]
      BY <2>2
    <3>2. plans[i] \in Plan
      OBVIOUS
    <3>5. [call[k] EXCEPT !.plan = plans[i], !.pc = "verify"] \in Locals
      BY <3>2, Points, PlanFields
    <3>3. call' = [call EXCEPT ![k] = [call[k] EXCEPT !.plan = plans[i], !.pc = "verify"]]
      BY <3>1
    <3>4. QED
      BY <3>5, <3>3
  <2>3. QED
    BY <1>24, <2>1, <2>2 DEF LookUp
<1>25. ASSUME NEW k \in Call, Verify(k) PROVE (call \in [Call -> Locals])'
  BY <1>25, Moves, Points DEF Verify
<1>26. ASSUME NEW k \in Call, ReadForEdit(k) PROVE (call \in [Call -> Locals])'
  <2>1. [call[k] EXCEPT !.read = disk, !.pc = "write"] \in Locals
    BY Points, Fields, Texts
  <2>2. call' = [call EXCEPT ![k] = [call[k] EXCEPT !.read = disk, !.pc = "write"]]
    BY <1>26 DEF ReadForEdit
  <2>3. QED
    BY <2>1, <2>2
<1>27. ASSUME NEW k \in Call, WriteEdit(k) PROVE (call \in [Call -> Locals])'
  BY <1>27, Moves, Points DEF WriteEdit
<1>28. ASSUME NEW k \in Call, ForgetWritten(k) PROVE (call \in [Call -> Locals])'
  BY <1>28, Moves, Points DEF ForgetWritten
<1>29. ASSUME NEW k \in Call, GiveUp(k) PROVE (call \in [Call -> Locals])'
  BY <1>29, Moves, Points DEF GiveUp
<1>30. ASSUME NEW k \in Call, OpenFails(k) PROVE (call \in [Call -> Locals])'
  BY <1>30, Moves, Points DEF OpenFails
<1>31. ASSUME NEW k \in Call, AnalysisUnsettled(k) PROVE (call \in [Call -> Locals])'
  BY <1>31, Moves, Points DEF AnalysisUnsettled
<1>32. ASSUME NEW k \in Call, NoServerToTell(k) PROVE (call \in [Call -> Locals])'
  BY <1>32, Moves, Points DEF NoServerToTell, Released
<1>33. ASSUME NEW m \in Saved, Save(m) PROVE (call \in [Call -> Locals])'
  BY <1>33 DEF Save, FileBecomes
<1>34. ASSUME Watch PROVE (call \in [Call -> Locals])'
  BY <1>34 DEF Watch, InvalidatePath, Stale
<1>35. ASSUME NEW s \in Session, ExpireOverlay(s) PROVE (call \in [Call -> Locals])'
  BY <1>35 DEF ExpireOverlay
<1>36. QED
  BY <1>1, <1>2, <1>3, <1>4, <1>5, <1>6, <1>7, <1>8, <1>9, <1>10, <1>11, <1>12, <1>13,
     <1>14, <1>15, <1>16, <1>17, <1>18, <1>19, <1>20, <1>21, <1>22, <1>23, <1>24, <1>25,
     <1>26, <1>27, <1>28, <1>29, <1>30, <1>31, <1>32, <1>33, <1>34, <1>35
     DEF WorkspaceNext, Arrive, Step, Trouble, Prepare, Respond, LetGo, Speculate, ApplyEdit

\* Every step keeps what is known at each point.
LEMMA ShapeStep ==
  ASSUME TypeOK, LocksExclude, Shape, [WorkspaceNext]_vars
  PROVE  Shape'
<1> USE DEF Shape, Locals, At, Goto, Return, Idle
<1>a. call \in [Call -> Locals] /\ disk \in Text
  BY DEF TypeOK
<1> USE <1>a
<1>1. ASSUME UNCHANGED vars PROVE Shape'
  BY <1>1 DEF vars
<1>2. ASSUME NEW k \in Call, NEW s \in Session, NEW op \in Operations, Begin(k, s, op)
      PROVE  Shape'
  BY <1>2 DEF Begin, Operations
<1>3. ASSUME NEW k \in Call, NEW s \in Session, NEW m \in minted, BeginApply(k, s, m)
      PROVE  Shape'
  BY <1>3 DEF BeginApply, TypeOK
<1>4. ASSUME NEW k \in Call, NEW s \in Session, Disconnect(k, s) PROVE Shape'
  BY <1>4 DEF Disconnect, Busy
<1>5. ASSUME NEW k \in Call, LockAndRead(k) PROVE Shape'
  BY <1>5 DEF LockAndRead
<1>6. ASSUME NEW k \in Call, CloseStale(k) PROVE Shape'
  BY <1>6 DEF CloseStale, RecordDiffers
<1>7. ASSUME NEW k \in Call, OpenOnServer(k) PROVE Shape'
  BY <1>7 DEF OpenOnServer
<1>8. ASSUME NEW k \in Call, Record(k) PROVE Shape'
  BY <1>8 DEF Record, AfterPrepare, LocksExclude, Locked
<1>9. ASSUME NEW k \in Call, Ask(k) PROVE Shape'
  BY <1>9, Views DEF Ask
<1>10. ASSUME NEW k \in Call, Diagnose(k) PROVE Shape'
  BY <1>10 DEF Diagnose
<1>11. ASSUME NEW k \in Call, NotOpenAnyMore(k) PROVE Shape'
  BY <1>11 DEF NotOpenAnyMore
<1>12. ASSUME NEW k \in Call, Answered(k) PROVE Shape'
  BY <1>12 DEF Answered
<1>13. ASSUME NEW k \in Call, Release(k) PROVE Shape'
  BY <1>13 DEF Release
<1>14. ASSUME NEW k \in Call, CloseReleased(k) PROVE Shape'
  BY <1>14 DEF CloseReleased, Released
<1>15. ASSUME NEW k \in Call, DropSession(k) PROVE Shape'
  BY <1>15 DEF DropSession
<1>16. ASSUME NEW k \in Call, HashBase(k) PROVE Shape'
  BY <1>16 DEF HashBase
<1>17. ASSUME NEW k \in Call, PutOverlay(k) PROVE Shape'
  BY <1>17 DEF PutOverlay
<1>18. ASSUME NEW k \in Call, LiveOverlay(k) PROVE Shape'
  BY <1>18 DEF LiveOverlay
<1>19. ASSUME NEW k \in Call, CompareBase(k) PROVE Shape'
  BY <1>19 DEF CompareBase, Stale
<1>20. ASSUME NEW k \in Call, PushText(k) PROVE Shape'
  BY <1>20 DEF PushText
<1>21. ASSUME NEW k \in Call, RestoreText(k) PROVE Shape'
  BY <1>21 DEF RestoreText, View
<1>22. ASSUME NEW k \in Call, ForgetDocument(k) PROVE Shape'
  BY <1>22 DEF ForgetDocument, Forget
<1>23. ASSUME NEW k \in Call, RememberPlan(k) PROVE Shape'
  BY <1>23 DEF RememberPlan, Token
<1>24. ASSUME NEW k \in Call, LookUp(k) PROVE Shape'
  <2>0. At(k, "lookup") /\ docs' = docs
    BY <1>24 DEF LookUp
  <2>1. CASE Return(k)
    BY <2>1, <2>0
  <2>2. CASE \E i \in DOMAIN plans : call' = [call EXCEPT ![k].plan = plans[i], ![k].pc = "verify"]
    <3>1. PICK i \in DOMAIN plans : call' = [call EXCEPT ![k].plan = plans[i], ![k].pc = "verify"]
      BY <2>2
    <3>2. plans[i] \in Plan
      BY DEF TypeOK
    <3> DEFINE plan == plans[i]
    <3>3. plan \in Plan /\ call' = [call EXCEPT ![k].plan = plan, ![k].pc = "verify"]
      BY <3>1, <3>2
    <3> HIDE DEF plan
    <3>4. QED
      BY <3>3, <2>0
  <2>3. QED
    BY <1>24, <2>1, <2>2 DEF LookUp
<1>25. ASSUME NEW k \in Call, Verify(k) PROVE Shape'
  BY <1>25 DEF Verify, Token
<1>26. ASSUME NEW k \in Call, ReadForEdit(k) PROVE Shape'
  BY <1>26 DEF ReadForEdit
<1>27. ASSUME NEW k \in Call, WriteEdit(k) PROVE Shape'
  BY <1>27 DEF WriteEdit, FileBecomes, InvalidatePath, Stale
<1>28. ASSUME NEW k \in Call, ForgetWritten(k) PROVE Shape'
  BY <1>28 DEF ForgetWritten, Forget, InvalidatePath, Stale
<1>29. ASSUME NEW k \in Call, GiveUp(k) PROVE Shape'
  BY <1>29 DEF GiveUp
<1>30. ASSUME NEW k \in Call, OpenFails(k) PROVE Shape'
  BY <1>30 DEF OpenFails, Fails
<1>31. ASSUME NEW k \in Call, AnalysisUnsettled(k) PROVE Shape'
  BY <1>31 DEF AnalysisUnsettled, RecordDiffers, Fails
<1>32. ASSUME NEW k \in Call, NoServerToTell(k) PROVE Shape'
  BY <1>32 DEF NoServerToTell, Fails, Released
<1>33. ASSUME NEW m \in Saved, Save(m) PROVE Shape'
  BY <1>33 DEF Save, FileBecomes
<1>34. ASSUME Watch PROVE Shape'
  BY <1>34 DEF Watch, InvalidatePath, Stale
<1>35. ASSUME NEW s \in Session, ExpireOverlay(s) PROVE Shape'
  BY <1>35 DEF ExpireOverlay
<1>36. QED
  BY <1>1, <1>2, <1>3, <1>4, <1>5, <1>6, <1>7, <1>8, <1>9, <1>10, <1>11, <1>12, <1>13,
     <1>14, <1>15, <1>16, <1>17, <1>18, <1>19, <1>20, <1>21, <1>22, <1>23, <1>24, <1>25,
     <1>26, <1>27, <1>28, <1>29, <1>30, <1>31, <1>32, <1>33, <1>34, <1>35
     DEF WorkspaceNext, Arrive, Step, Trouble, Prepare, Respond, LetGo, Speculate, ApplyEdit

-----------------------------------------------------------------------------
\* An overlay that is marked remains one, and no overlay none.
Overlay == [base : Text, stale : BOOLEAN] \cup {None}

\* An overlay that is marked remains one, and no overlay none.
LEMMA Marked ==
  ASSUME overlays \in [Session -> Overlay]
  PROVE  \A s \in Session : Stale(overlays[s]) \in Overlay
  BY DEF Overlay, Stale

\* The claims and the text of a record change, its type does not.
LEMMA Claims ==
  ASSUME NEW d \in Document
  PROVE  /\ \A u \in SUBSET Session : [d EXCEPT !.sessions = u] \in Document
         /\ \A s \in Session : Claimed(d, s) \in Document
<1>1. ASSUME NEW u \in SUBSET Session PROVE [d EXCEPT !.sessions = u] \in Document
  BY DEF Document
<1>2. ASSUME NEW s \in Session PROVE Claimed(d, s) \in Document
  <2>1. d.sessions \cup {s} \in SUBSET Session
    BY DEF Document
  <2>2. QED
    BY <2>1 DEF Claimed, Document
<1>3. QED
  BY <1>1, <1>2

\* What Record makes of the record is a record.
LEMMA Records ==
  ASSUME docs \in Document \cup {None}, NEW t \in Text
  PROVE  Recorded(t) \in Document
  BY DEF Document, Recorded

\* Marking makes no overlay where there was none.
LEMMA MarkedStay == Stale(None) = None
  BY DEF Stale

\* Every step keeps the types of the rest of the state.
LEMMA TypeStep ==
  ASSUME TypeOK, LocksExclude, Shape, PlansAreBounded, [WorkspaceNext]_vars
  PROVE  TypeOK'
<1> USE Texts DEF TypeOK, file_vars, server_vars, budget
<1>a. (call \in [Call -> Locals])'
  BY CallStep
<1> USE <1>a
<1>1. ASSUME UNCHANGED vars PROVE TypeOK'
  BY <1>1 DEF vars
<1>2. ASSUME NEW k \in Call, NEW s \in Session, NEW op \in Operations, Begin(k, s, op)
      PROVE  TypeOK'
  BY <1>2 DEF Begin
<1>3. ASSUME NEW k \in Call, NEW s \in Session, NEW m \in minted, BeginApply(k, s, m)
      PROVE  TypeOK'
  BY <1>3 DEF BeginApply
<1>4. ASSUME NEW k \in Call, NEW s \in Session, Disconnect(k, s) PROVE TypeOK'
  BY <1>4 DEF Disconnect, Busy
<1>5. ASSUME NEW k \in Call, LockAndRead(k) PROVE TypeOK'
  BY <1>5 DEF LockAndRead
<1>6. ASSUME NEW k \in Call, CloseStale(k) PROVE TypeOK'
  BY <1>6 DEF CloseStale, RecordDiffers
<1>7. ASSUME NEW k \in Call, OpenOnServer(k) PROVE TypeOK'
  BY <1>7 DEF OpenOnServer, Shape, At
<1>8. ASSUME NEW k \in Call, Record(k) PROVE TypeOK'
  <2>1. call[k].read \in Text /\ call[k].who \in Session
    BY <1>8 DEF Record, Shape, At
  <2>2. Recorded(call[k].read) \in Document
    BY <2>1, Records
  <2>3. Claimed(Recorded(call[k].read), call[k].who) \in Document
    BY <2>1, <2>2, Claims
  <2>4. QED
    BY <1>8, <2>2, <2>3 DEF Record
<1>9. ASSUME NEW k \in Call, Ask(k) PROVE TypeOK'
  BY <1>9 DEF Ask, View
<1>10. ASSUME NEW k \in Call, Diagnose(k) PROVE TypeOK'
  BY <1>10 DEF Diagnose
<1>11. ASSUME NEW k \in Call, NotOpenAnyMore(k) PROVE TypeOK'
  BY <1>11 DEF NotOpenAnyMore
<1>12. ASSUME NEW k \in Call, Answered(k) PROVE TypeOK'
  BY <1>12 DEF Answered
<1>13. ASSUME NEW k \in Call, Release(k) PROVE TypeOK'
  <2>1. ASSUME docs # None PROVE docs \in Document /\ docs.sessions \ {call[k].who} \in SUBSET Session
    BY <2>1 DEF Document
  <2>2. \/ docs' \in {None, docs}
        \/ docs # None /\ docs' = [docs EXCEPT !.sessions = docs.sessions \ {call[k].who}]
    BY <1>13 DEF Release
  <2>3. docs' \in Document \cup {None}
    <3>1. CASE docs # None /\ docs' = [docs EXCEPT !.sessions = docs.sessions \ {call[k].who}]
      <4> DEFINE u == docs.sessions \ {call[k].who}
      <4>1. docs \in Document /\ u \in SUBSET Session /\ docs' = [docs EXCEPT !.sessions = u]
        BY <2>1, <3>1
      <4> HIDE DEF u
      <4>2. QED
        BY <4>1, Claims
    <3>2. QED
      BY <2>2, <3>1
  <2>4. QED
    BY <1>13, <2>3 DEF Release
<1>14. ASSUME NEW k \in Call, CloseReleased(k) PROVE TypeOK'
  BY <1>14 DEF CloseReleased, Released
<1>15. ASSUME NEW k \in Call, DropSession(k) PROVE TypeOK'
  BY <1>15 DEF DropSession
<1>16. ASSUME NEW k \in Call, HashBase(k) PROVE TypeOK'
  BY <1>16 DEF HashBase
<1>17. ASSUME NEW k \in Call, PutOverlay(k) PROVE TypeOK'
  BY <1>17 DEF PutOverlay, Shape, At
<1>18. ASSUME NEW k \in Call, LiveOverlay(k) PROVE TypeOK'
  BY <1>18 DEF LiveOverlay
<1>19. ASSUME NEW k \in Call, CompareBase(k) PROVE TypeOK'
  BY <1>19, Marked DEF CompareBase, Overlay
<1>20. ASSUME NEW k \in Call, PushText(k) PROVE TypeOK'
  BY <1>20 DEF PushText
<1>21. ASSUME NEW k \in Call, RestoreText(k) PROVE TypeOK'
  BY <1>21 DEF RestoreText, View
<1>22. ASSUME NEW k \in Call, ForgetDocument(k) PROVE TypeOK'
  BY <1>22 DEF ForgetDocument, Forget, Document
<1>23. ASSUME NEW k \in Call, RememberPlan(k) PROVE TypeOK'
  <2> DEFINE token == Token(disk)
             plan == [token |-> token, edit |-> call[k].edit, of |-> call[k].got,
                      clean |-> call[k].clean /\ since[k] = {disk}]
  <2>1. token \in Tokens /\ plan \in Plan /\ plan.token = token
    BY <1>23 DEF RememberPlan, Token, Tokens, Plan, Shape, At
  <2>2. plans' = Remembered(token, plan) /\ minted' = minted \cup {token}
    BY <1>23 DEF RememberPlan
  <2>3. plans' \in Seq(Plan)
    BY <2>1, <2>2, PlansRemembered
  <2>4. QED
    BY <1>23, <2>1, <2>2, <2>3 DEF RememberPlan
<1>24. ASSUME NEW k \in Call, LookUp(k) PROVE TypeOK'
  BY <1>24 DEF LookUp
<1>25. ASSUME NEW k \in Call, Verify(k) PROVE TypeOK'
  BY <1>25 DEF Verify, Token
<1>26. ASSUME NEW k \in Call, ReadForEdit(k) PROVE TypeOK'
  BY <1>26 DEF ReadForEdit
<1>27. ASSUME NEW k \in Call, WriteEdit(k) PROVE TypeOK'
  <2>1. Append(call[k].read, call[k].plan.edit) \in Text
    BY <1>27 DEF WriteEdit, Shape, At, Plan
  <2>2. QED
    BY <1>27, <2>1, Marked DEF WriteEdit, FileBecomes, InvalidatePath, Overlay
<1>28. ASSUME NEW k \in Call, ForgetWritten(k) PROVE TypeOK'
  <2>1. docs' \in Document \cup {None}
    BY <1>28 DEF ForgetWritten, Forget, Document
  <2>2. QED
    BY <1>28, <2>1, Marked DEF ForgetWritten, InvalidatePath, Overlay
<1>29. ASSUME NEW k \in Call, GiveUp(k) PROVE TypeOK'
  BY <1>29 DEF GiveUp
<1>30. ASSUME NEW k \in Call, OpenFails(k) PROVE TypeOK'
  BY <1>30 DEF OpenFails, Fails
<1>31. ASSUME NEW k \in Call, AnalysisUnsettled(k) PROVE TypeOK'
  BY <1>31 DEF AnalysisUnsettled, RecordDiffers, Fails
<1>32. ASSUME NEW k \in Call, NoServerToTell(k) PROVE TypeOK'
  BY <1>32 DEF NoServerToTell, Fails, Released
<1>33. ASSUME NEW m \in Saved, Save(m) PROVE TypeOK'
  BY <1>33 DEF Save, FileBecomes
<1>34. ASSUME Watch PROVE TypeOK'
  BY <1>34, Marked DEF Watch, InvalidatePath, Overlay
<1>35. ASSUME NEW s \in Session, ExpireOverlay(s) PROVE TypeOK'
  BY <1>35 DEF ExpireOverlay
<1>36. QED
  BY <1>1, <1>2, <1>3, <1>4, <1>5, <1>6, <1>7, <1>8, <1>9, <1>10, <1>11, <1>12, <1>13,
     <1>14, <1>15, <1>16, <1>17, <1>18, <1>19, <1>20, <1>21, <1>22, <1>23, <1>24, <1>25,
     <1>26, <1>27, <1>28, <1>29, <1>30, <1>31, <1>32, <1>33, <1>34, <1>35
     DEF WorkspaceNext, Arrive, Step, Trouble, Prepare, Respond, LetGo, Speculate, ApplyEdit

-----------------------------------------------------------------------------
\* What LookUp does to its call.
LEMMA LookUpEffect ==
  ASSUME TypeOK, NEW k \in Call, LookUp(k)
  PROVE  /\ \A j \in Call \ {k} : call'[j] = call[j]
         /\ \/ call'[k] = Idle
            \/ \E i \in DOMAIN plans :
                 /\ plans[i] \in Plan /\ plans[i].token = call[k].token
                 /\ call'[k] = [call[k] EXCEPT !.plan = plans[i], !.pc = "verify"]
<1>1. call \in [Call -> Locals] /\ \A i \in DOMAIN plans : plans[i] \in Plan
  BY DEF TypeOK
<1>2. CASE Return(k)
  BY <1>1, <1>2 DEF Return
<1>3. CASE \E i \in DOMAIN plans : /\ plans[i].token = call[k].token
                                  /\ call' = [call EXCEPT ![k].plan = plans[i], ![k].pc = "verify"]
  BY <1>1, <1>3
<1>4. QED
  BY <1>2, <1>3 DEF LookUp

\* Where LookUp leaves its call.
LEMMA LookUpGoes ==
  ASSUME TypeOK, NEW k \in Call, LookUp(k)
  PROVE  /\ call'[k].pc \in {"idle", "verify"}
         /\ \A j \in Call \ {k} : call'[j] = call[j]
<1>a. call \in [Call -> Locals] /\ \A i \in DOMAIN plans : plans[i] \in Plan
  BY DEF TypeOK
<1>1. CASE Return(k)
  BY <1>a, <1>1 DEF Return, Idle
<1>2. ASSUME NEW q \in Plan, call'[k] = [call[k] EXCEPT !.plan = q, !.pc = "verify"]
      PROVE  call'[k].pc = "verify"
  <2>1. call[k] \in Locals
    BY DEF TypeOK
  <2>2. QED
    BY <1>2, <2>1 DEF Locals
<1>3. CASE \E i \in DOMAIN plans : call' = [call EXCEPT ![k].plan = plans[i], ![k].pc = "verify"]
  <2>1. PICK i \in DOMAIN plans : call' = [call EXCEPT ![k].plan = plans[i], ![k].pc = "verify"]
    BY <1>3
  <2>2. call'[k] = [call[k] EXCEPT !.plan = plans[i], !.pc = "verify"]
    BY <1>a, <2>1
  <2>3. QED
    BY <1>a, <1>2, <2>1, <2>2
<1>4. QED
  BY <1>1, <1>3 DEF LookUp

\* Every step keeps the locks exclusive: one is taken only when it is free.
LEMMA LocksStep ==
  ASSUME TypeOK, LocksExclude, Shape, [WorkspaceNext]_vars
  PROVE  LocksExclude'
<1> USE DEF LocksExclude, Locked, Locals, At, Goto, Return, Idle, file_vars, server_vars,
            budget
<1>a. call \in [Call -> Locals] /\ holder \in Call \cup {None} /\ speculator \in Call \cup {None}
  BY DEF TypeOK
<1> USE <1>a
<1>1. ASSUME UNCHANGED vars PROVE LocksExclude'
  BY <1>1 DEF vars
<1>2. ASSUME NEW k \in Call, NEW s \in Session, NEW op \in Operations, Begin(k, s, op)
      PROVE  LocksExclude'
  BY <1>2 DEF Begin
<1>3. ASSUME NEW k \in Call, NEW s \in Session, NEW m \in minted, BeginApply(k, s, m)
      PROVE  LocksExclude'
  BY <1>3 DEF BeginApply
<1>4. ASSUME NEW k \in Call, NEW s \in Session, Disconnect(k, s) PROVE LocksExclude'
  BY <1>4 DEF Disconnect, Busy
<1>5. ASSUME NEW k \in Call, LockAndRead(k) PROVE LocksExclude'
  BY <1>5 DEF LockAndRead
<1>6. ASSUME NEW k \in Call, CloseStale(k) PROVE LocksExclude'
  BY <1>6 DEF CloseStale, RecordDiffers
<1>7. ASSUME NEW k \in Call, OpenOnServer(k) PROVE LocksExclude'
  BY <1>7 DEF OpenOnServer
<1>8. ASSUME NEW k \in Call, Record(k) PROVE LocksExclude'
  BY <1>8 DEF Record, AfterPrepare, Shape
<1>9. ASSUME NEW k \in Call, Ask(k) PROVE LocksExclude'
  BY <1>9 DEF Ask, View
<1>10. ASSUME NEW k \in Call, Diagnose(k) PROVE LocksExclude'
  BY <1>10 DEF Diagnose
<1>11. ASSUME NEW k \in Call, NotOpenAnyMore(k) PROVE LocksExclude'
  BY <1>11 DEF NotOpenAnyMore
<1>12. ASSUME NEW k \in Call, Answered(k) PROVE LocksExclude'
  BY <1>12 DEF Answered
<1>13. ASSUME NEW k \in Call, Release(k) PROVE LocksExclude'
  BY <1>13 DEF Release
<1>14. ASSUME NEW k \in Call, CloseReleased(k) PROVE LocksExclude'
  BY <1>14 DEF CloseReleased, Released
<1>15. ASSUME NEW k \in Call, DropSession(k) PROVE LocksExclude'
  BY <1>15 DEF DropSession
<1>16. ASSUME NEW k \in Call, HashBase(k) PROVE LocksExclude'
  BY <1>16 DEF HashBase
<1>17. ASSUME NEW k \in Call, PutOverlay(k) PROVE LocksExclude'
  BY <1>17 DEF PutOverlay
<1>18. ASSUME NEW k \in Call, LiveOverlay(k) PROVE LocksExclude'
  BY <1>18 DEF LiveOverlay
<1>19. ASSUME NEW k \in Call, CompareBase(k) PROVE LocksExclude'
  BY <1>19 DEF CompareBase, Stale
<1>20. ASSUME NEW k \in Call, PushText(k) PROVE LocksExclude'
  BY <1>20 DEF PushText, ServerFree
<1>21. ASSUME NEW k \in Call, RestoreText(k) PROVE LocksExclude'
  BY <1>21 DEF RestoreText, View
<1>22. ASSUME NEW k \in Call, ForgetDocument(k) PROVE LocksExclude'
  BY <1>22 DEF ForgetDocument, Forget
<1>23. ASSUME NEW k \in Call, RememberPlan(k) PROVE LocksExclude'
  BY <1>23 DEF RememberPlan, Token
<1>24. ASSUME NEW k \in Call, LookUp(k) PROVE LocksExclude'
  <2>1. /\ At(k, "lookup") /\ holder' = holder /\ speculator' = speculator
        /\ call'[k].pc \in {"idle", "verify"} /\ \A j \in Call \ {k} : call'[j] = call[j]
    BY <1>24, LookUpGoes DEF LookUp
  <2>2. QED
    BY <2>1
<1>25. ASSUME NEW k \in Call, Verify(k) PROVE LocksExclude'
  BY <1>25 DEF Verify, Token
<1>26. ASSUME NEW k \in Call, ReadForEdit(k) PROVE LocksExclude'
  BY <1>26 DEF ReadForEdit
<1>27. ASSUME NEW k \in Call, WriteEdit(k) PROVE LocksExclude'
  BY <1>27 DEF WriteEdit, FileBecomes, InvalidatePath, Stale
<1>28. ASSUME NEW k \in Call, ForgetWritten(k) PROVE LocksExclude'
  BY <1>28 DEF ForgetWritten, Forget, InvalidatePath, Stale
<1>29. ASSUME NEW k \in Call, GiveUp(k) PROVE LocksExclude'
  BY <1>29 DEF GiveUp
<1>30. ASSUME NEW k \in Call, OpenFails(k) PROVE LocksExclude'
  BY <1>30 DEF OpenFails, Fails
<1>31. ASSUME NEW k \in Call, AnalysisUnsettled(k) PROVE LocksExclude'
  BY <1>31 DEF AnalysisUnsettled, RecordDiffers, Fails
<1>32. ASSUME NEW k \in Call, NoServerToTell(k) PROVE LocksExclude'
  BY <1>32 DEF NoServerToTell, Fails, Released
<1>33. ASSUME NEW m \in Saved, Save(m) PROVE LocksExclude'
  BY <1>33 DEF Save, FileBecomes
<1>34. ASSUME Watch PROVE LocksExclude'
  BY <1>34 DEF Watch, InvalidatePath, Stale
<1>35. ASSUME NEW s \in Session, ExpireOverlay(s) PROVE LocksExclude'
  BY <1>35 DEF ExpireOverlay
<1>36. QED
  BY <1>1, <1>2, <1>3, <1>4, <1>5, <1>6, <1>7, <1>8, <1>9, <1>10, <1>11, <1>12, <1>13,
     <1>14, <1>15, <1>16, <1>17, <1>18, <1>19, <1>20, <1>21, <1>22, <1>23, <1>24, <1>25,
     <1>26, <1>27, <1>28, <1>29, <1>30, <1>31, <1>32, <1>33, <1>34, <1>35
     DEF WorkspaceNext, Arrive, Step, Trouble, Prepare, Respond, LetGo, Speculate, ApplyEdit

\* Every step keeps the remembered plans bounded, one for each token.
LEMMA PlansStep ==
  ASSUME TypeOK, LocksExclude, Shape, PlansAreBounded, [WorkspaceNext]_vars
  PROVE  PlansAreBounded'
<1> USE DEF PlansAreBounded, file_vars, server_vars, budget
<1>1. ASSUME UNCHANGED vars PROVE PlansAreBounded'
  BY <1>1 DEF vars
<1>2. ASSUME NEW k \in Call, NEW s \in Session, NEW op \in Operations, Begin(k, s, op)
      PROVE  PlansAreBounded'
  BY <1>2 DEF Begin
<1>3. ASSUME NEW k \in Call, NEW s \in Session, NEW m \in minted, BeginApply(k, s, m)
      PROVE  PlansAreBounded'
  BY <1>3 DEF BeginApply
<1>4. ASSUME NEW k \in Call, NEW s \in Session, Disconnect(k, s) PROVE PlansAreBounded'
  BY <1>4 DEF Disconnect, Busy
<1>5. ASSUME NEW k \in Call, LockAndRead(k) PROVE PlansAreBounded'
  BY <1>5 DEF LockAndRead
<1>6. ASSUME NEW k \in Call, CloseStale(k) PROVE PlansAreBounded'
  BY <1>6 DEF CloseStale, RecordDiffers
<1>7. ASSUME NEW k \in Call, OpenOnServer(k) PROVE PlansAreBounded'
  BY <1>7 DEF OpenOnServer
<1>8. ASSUME NEW k \in Call, Record(k) PROVE PlansAreBounded'
  BY <1>8 DEF Record, Claimed, Recorded, AfterPrepare
<1>9. ASSUME NEW k \in Call, Ask(k) PROVE PlansAreBounded'
  BY <1>9 DEF Ask, View
<1>10. ASSUME NEW k \in Call, Diagnose(k) PROVE PlansAreBounded'
  BY <1>10 DEF Diagnose
<1>11. ASSUME NEW k \in Call, NotOpenAnyMore(k) PROVE PlansAreBounded'
  BY <1>11 DEF NotOpenAnyMore
<1>12. ASSUME NEW k \in Call, Answered(k) PROVE PlansAreBounded'
  BY <1>12 DEF Answered
<1>13. ASSUME NEW k \in Call, Release(k) PROVE PlansAreBounded'
  BY <1>13 DEF Release
<1>14. ASSUME NEW k \in Call, CloseReleased(k) PROVE PlansAreBounded'
  BY <1>14 DEF CloseReleased, Released
<1>15. ASSUME NEW k \in Call, DropSession(k) PROVE PlansAreBounded'
  BY <1>15 DEF DropSession
<1>16. ASSUME NEW k \in Call, HashBase(k) PROVE PlansAreBounded'
  BY <1>16 DEF HashBase
<1>17. ASSUME NEW k \in Call, PutOverlay(k) PROVE PlansAreBounded'
  BY <1>17 DEF PutOverlay
<1>18. ASSUME NEW k \in Call, LiveOverlay(k) PROVE PlansAreBounded'
  BY <1>18 DEF LiveOverlay
<1>19. ASSUME NEW k \in Call, CompareBase(k) PROVE PlansAreBounded'
  BY <1>19 DEF CompareBase, Stale
<1>20. ASSUME NEW k \in Call, PushText(k) PROVE PlansAreBounded'
  BY <1>20 DEF PushText
<1>21. ASSUME NEW k \in Call, RestoreText(k) PROVE PlansAreBounded'
  BY <1>21 DEF RestoreText, View
<1>22. ASSUME NEW k \in Call, ForgetDocument(k) PROVE PlansAreBounded'
  BY <1>22 DEF ForgetDocument, Forget
<1>23. ASSUME NEW k \in Call, RememberPlan(k) PROVE PlansAreBounded'
  <2> DEFINE token == Token(disk)
             plan == [token |-> token, edit |-> call[k].edit, of |-> call[k].got,
                      clean |-> call[k].clean /\ since[k] = {disk}]
  <2>1. token \in Tokens /\ plan \in Plan /\ plan.token = token
    BY <1>23 DEF RememberPlan, Token, Tokens, Plan, Shape, At, TypeOK
  <2>2. plans' = Remembered(plan.token, plan)
    BY <1>23, <2>1 DEF RememberPlan
  <2>3. plans \in Seq(Plan)
    BY DEF TypeOK
  <2>4. Len(plans') <= MaxPlans /\ \A i, j \in DOMAIN plans' : plans'[i].token = plans'[j].token => i = j
    <3> HIDE DEF PlansAreBounded
    <3>1. QED
      <4> HIDE DEF plan, token
      <4>1. QED
        BY <2>1, <2>2, <2>3, PlansRemembered
  <2>5. QED
    BY <2>4
<1>24. ASSUME NEW k \in Call, LookUp(k) PROVE PlansAreBounded'
  BY <1>24 DEF LookUp
<1>25. ASSUME NEW k \in Call, Verify(k) PROVE PlansAreBounded'
  BY <1>25 DEF Verify, Token
<1>26. ASSUME NEW k \in Call, ReadForEdit(k) PROVE PlansAreBounded'
  BY <1>26 DEF ReadForEdit
<1>27. ASSUME NEW k \in Call, WriteEdit(k) PROVE PlansAreBounded'
  BY <1>27 DEF WriteEdit, FileBecomes, InvalidatePath, Stale
<1>28. ASSUME NEW k \in Call, ForgetWritten(k) PROVE PlansAreBounded'
  BY <1>28 DEF ForgetWritten, Forget, InvalidatePath, Stale
<1>29. ASSUME NEW k \in Call, GiveUp(k) PROVE PlansAreBounded'
  BY <1>29 DEF GiveUp
<1>30. ASSUME NEW k \in Call, OpenFails(k) PROVE PlansAreBounded'
  BY <1>30 DEF OpenFails, Fails
<1>31. ASSUME NEW k \in Call, AnalysisUnsettled(k) PROVE PlansAreBounded'
  BY <1>31 DEF AnalysisUnsettled, RecordDiffers, Fails
<1>32. ASSUME NEW k \in Call, NoServerToTell(k) PROVE PlansAreBounded'
  BY <1>32 DEF NoServerToTell, Fails, Released
<1>33. ASSUME NEW m \in Saved, Save(m) PROVE PlansAreBounded'
  BY <1>33 DEF Save, FileBecomes
<1>34. ASSUME Watch PROVE PlansAreBounded'
  BY <1>34 DEF Watch, InvalidatePath, Stale
<1>35. ASSUME NEW s \in Session, ExpireOverlay(s) PROVE PlansAreBounded'
  BY <1>35 DEF ExpireOverlay
<1>36. QED
  BY <1>1, <1>2, <1>3, <1>4, <1>5, <1>6, <1>7, <1>8, <1>9, <1>10, <1>11, <1>12, <1>13,
     <1>14, <1>15, <1>16, <1>17, <1>18, <1>19, <1>20, <1>21, <1>22, <1>23, <1>24, <1>25,
     <1>26, <1>27, <1>28, <1>29, <1>30, <1>31, <1>32, <1>33, <1>34, <1>35
     DEF WorkspaceNext, Arrive, Step, Trouble, Prepare, Respond, LetGo, Speculate, ApplyEdit

-----------------------------------------------------------------------------
\* Neither the file nor what a call read of it is the text that stands for a
\* forgotten record.
NothingEmpty ==
  /\ disk # Forgotten
  /\ \A k \in Call : call[k].pc \in {"close", "open", "record"} => call[k].read # Forgotten

\* No step makes the file empty, so no call reads the text that stands for a
\* forgotten record.
LEMMA EmptyStep ==
  ASSUME TypeOK, LocksExclude, Shape, NothingEmpty, [WorkspaceNext]_vars
  PROVE  NothingEmpty'
<1> USE Texts DEF NothingEmpty, Locals, At, Goto, Return, Idle, file_vars
<1>a. call \in [Call -> Locals] /\ holder \in Call \cup {None} /\ speculator \in Call \cup {None}
  BY DEF TypeOK
<1> USE <1>a
<1>1. ASSUME UNCHANGED vars PROVE NothingEmpty'
  BY <1>1 DEF vars
<1>2. ASSUME NEW k \in Call, NEW s \in Session, NEW op \in Operations, Begin(k, s, op)
      PROVE  NothingEmpty'
  BY <1>2 DEF Begin
<1>3. ASSUME NEW k \in Call, NEW s \in Session, NEW m \in minted, BeginApply(k, s, m)
      PROVE  NothingEmpty'
  BY <1>3 DEF BeginApply
<1>4. ASSUME NEW k \in Call, NEW s \in Session, Disconnect(k, s) PROVE NothingEmpty'
  BY <1>4 DEF Disconnect, Busy
<1>5. ASSUME NEW k \in Call, LockAndRead(k) PROVE NothingEmpty'
  BY <1>5 DEF LockAndRead
<1>6. ASSUME NEW k \in Call, CloseStale(k) PROVE NothingEmpty'
  BY <1>6 DEF CloseStale, RecordDiffers
<1>7. ASSUME NEW k \in Call, OpenOnServer(k) PROVE NothingEmpty'
  BY <1>7 DEF OpenOnServer
<1>8. ASSUME NEW k \in Call, Record(k) PROVE NothingEmpty'
  BY <1>8 DEF Record, AfterPrepare
<1>9. ASSUME NEW k \in Call, Ask(k) PROVE NothingEmpty'
  BY <1>9 DEF Ask, View
<1>10. ASSUME NEW k \in Call, Diagnose(k) PROVE NothingEmpty'
  BY <1>10 DEF Diagnose
<1>11. ASSUME NEW k \in Call, NotOpenAnyMore(k) PROVE NothingEmpty'
  BY <1>11 DEF NotOpenAnyMore
<1>12. ASSUME NEW k \in Call, Answered(k) PROVE NothingEmpty'
  BY <1>12 DEF Answered
<1>13. ASSUME NEW k \in Call, Release(k) PROVE NothingEmpty'
  BY <1>13 DEF Release
<1>14. ASSUME NEW k \in Call, CloseReleased(k) PROVE NothingEmpty'
  BY <1>14 DEF CloseReleased, Released
<1>15. ASSUME NEW k \in Call, DropSession(k) PROVE NothingEmpty'
  <2>1. /\ disk' = disk /\ \A j \in Call \ {k} : call'[j] = call[j]
        /\ call'[k].pc \in {"release", "idle"}
    BY <1>15 DEF DropSession
  <2>2. QED
    BY <2>1
<1>16. ASSUME NEW k \in Call, HashBase(k) PROVE NothingEmpty'
  BY <1>16 DEF HashBase
<1>17. ASSUME NEW k \in Call, PutOverlay(k) PROVE NothingEmpty'
  BY <1>17 DEF PutOverlay
<1>18. ASSUME NEW k \in Call, LiveOverlay(k) PROVE NothingEmpty'
  <2>1. /\ disk' = disk /\ \A j \in Call \ {k} : call'[j] = call[j]
        /\ call'[k].pc \in {"lock", "idle", "compare"}
    <3>1. call[k] \in Locals
      BY DEF Locals
    <3>2. QED
      BY <1>18, <3>1 DEF LiveOverlay
  <2>2. QED
    BY <2>1
<1>19. ASSUME NEW k \in Call, CompareBase(k) PROVE NothingEmpty'
  BY <1>19 DEF CompareBase, Stale
<1>20. ASSUME NEW k \in Call, PushText(k) PROVE NothingEmpty'
  BY <1>20 DEF PushText
<1>21. ASSUME NEW k \in Call, RestoreText(k) PROVE NothingEmpty'
  BY <1>21 DEF RestoreText, View
<1>22. ASSUME NEW k \in Call, ForgetDocument(k) PROVE NothingEmpty'
  BY <1>22 DEF ForgetDocument, Forget
<1>23. ASSUME NEW k \in Call, RememberPlan(k) PROVE NothingEmpty'
  BY <1>23 DEF RememberPlan, Token
<1>24. ASSUME NEW k \in Call, LookUp(k) PROVE NothingEmpty'
  <2>1. /\ At(k, "lookup") /\ UNCHANGED <<disk, server, docs, holder, failed>>
        /\ call'[k].pc \in {"idle", "verify"} /\ \A j \in Call \ {k} : call'[j] = call[j]
    BY <1>24, LookUpGoes DEF LookUp, file_vars, server_vars, budget
  <2>2. QED
    BY <2>1
<1>25. ASSUME NEW k \in Call, Verify(k) PROVE NothingEmpty'
  BY <1>25 DEF Verify, Token
<1>26. ASSUME NEW k \in Call, ReadForEdit(k) PROVE NothingEmpty'
  BY <1>26 DEF ReadForEdit
<1>27. ASSUME NEW k \in Call, WriteEdit(k) PROVE NothingEmpty'
  <2>1. Append(call[k].read, call[k].plan.edit) # Forgotten
    BY <1>27 DEF WriteEdit, Shape, Plan
  <2>2. QED
    BY <1>27, <2>1 DEF WriteEdit, FileBecomes
<1>28. ASSUME NEW k \in Call, ForgetWritten(k) PROVE NothingEmpty'
  BY <1>28 DEF ForgetWritten, Forget, InvalidatePath, Stale
<1>29. ASSUME NEW k \in Call, GiveUp(k) PROVE NothingEmpty'
  BY <1>29 DEF GiveUp
<1>30. ASSUME NEW k \in Call, OpenFails(k) PROVE NothingEmpty'
  BY <1>30 DEF OpenFails, Fails
<1>31. ASSUME NEW k \in Call, AnalysisUnsettled(k) PROVE NothingEmpty'
  BY <1>31 DEF AnalysisUnsettled, RecordDiffers, Fails
<1>32. ASSUME NEW k \in Call, NoServerToTell(k) PROVE NothingEmpty'
  BY <1>32 DEF NoServerToTell, Fails, Released
<1>33. ASSUME NEW m \in Saved, Save(m) PROVE NothingEmpty'
  BY <1>33 DEF Save, FileBecomes
<1>34. ASSUME Watch PROVE NothingEmpty'
  BY <1>34 DEF Watch, InvalidatePath, Stale
<1>35. ASSUME NEW s \in Session, ExpireOverlay(s) PROVE NothingEmpty'
  BY <1>35 DEF ExpireOverlay
<1>36. QED
  BY <1>1, <1>2, <1>3, <1>4, <1>5, <1>6, <1>7, <1>8, <1>9, <1>10, <1>11, <1>12, <1>13,
     <1>14, <1>15, <1>16, <1>17, <1>18, <1>19, <1>20, <1>21, <1>22, <1>23, <1>24, <1>25,
     <1>26, <1>27, <1>28, <1>29, <1>30, <1>31, <1>32, <1>33, <1>34, <1>35
     DEF WorkspaceNext, Arrive, Step, Trouble, Prepare, Respond, LetGo, Speculate, ApplyEdit

\* The record and the server agree.
RecordFits ==
  IF docs = None THEN ~server.open
  ELSE /\ server.open \/ "open" \in failed
       /\ server.open /\ docs.text # Forgotten => server.text = docs.text

\* The record while a call brings it into line: as it was left, then true of a
\* server that has the text read or nothing, then false until Record sets it.
RecordKept ==
  failed \subseteq {"open"} =>
    /\ holder = None => RecordFits
    /\ \A k \in Call :
         /\ At(k, "close") => RecordFits
         /\ At(k, "open") /\ server.open =>
              docs # None /\ docs.text = call[k].read /\ server.text = call[k].read
         /\ At(k, "record") => server.open /\ server.text = call[k].read

\* Every step keeps the record true when the lock is free, and what the holder of
\* the lock has made of the server.
LEMMA RecordStep ==
  ASSUME TypeOK, LocksExclude, Shape, NothingEmpty, RecordKept, [WorkspaceNext]_vars
  PROVE  RecordKept'
<1> USE DEF RecordKept, RecordFits, LocksExclude, Locked, Locals, At, Goto, Return, Idle,
            file_vars, server_vars, budget
<1>a. /\ call \in [Call -> Locals] /\ holder \in Call \cup {None} /\ speculator \in Call \cup {None}
      /\ server \in [open : BOOLEAN, text : Text] /\ docs \in Document \cup {None}
  BY DEF TypeOK
<1> USE <1>a
<1>1. ASSUME UNCHANGED vars PROVE RecordKept'
  BY <1>1 DEF vars
<1>2. ASSUME NEW k \in Call, NEW s \in Session, NEW op \in Operations, Begin(k, s, op)
      PROVE  RecordKept'
  BY <1>2 DEF Begin
<1>3. ASSUME NEW k \in Call, NEW s \in Session, NEW m \in minted, BeginApply(k, s, m)
      PROVE  RecordKept'
  BY <1>3 DEF BeginApply
<1>4. ASSUME NEW k \in Call, NEW s \in Session, Disconnect(k, s) PROVE RecordKept'
  BY <1>4 DEF Disconnect, Busy
<1>5. ASSUME NEW k \in Call, LockAndRead(k) PROVE RecordKept'
  BY <1>5 DEF LockAndRead
<1>6. ASSUME NEW k \in Call, CloseStale(k) PROVE RecordKept'
  BY <1>6 DEF CloseStale, RecordDiffers, NothingEmpty
<1>7. ASSUME NEW k \in Call, OpenOnServer(k) PROVE RecordKept'
  BY <1>7 DEF OpenOnServer
<1>8. ASSUME NEW k \in Call, Record(k) PROVE RecordKept'
  <2>1. /\ At(k, "record") /\ UNCHANGED <<server, failed>> /\ holder' = None
        /\ call'[k].pc \notin {"close", "open", "record"}
        /\ \A j \in Call \ {k} : call'[j] = call[j]
    BY <1>8 DEF Record, AfterPrepare, Shape
  <2>2. call[k].read \in Text
    BY <2>1 DEF Shape
  <2>3. docs' # None /\ docs'.text = call[k].read
    <3>1. Recorded(call[k].read) \in Document /\ Recorded(call[k].read).text = call[k].read
      BY <2>2 DEF Recorded, Document
    <3>2. \A d \in Document : \A s \in Session : Claimed(d, s).text = d.text
      BY DEF Claimed, Document
    <3>3. call[k].who \in Session
      BY <2>1 DEF Shape
    <3>4. docs' \in {Recorded(call[k].read), Claimed(Recorded(call[k].read), call[k].who)}
      BY <1>8 DEF Record
    <3>5. docs' \in Document
      BY <3>1, <3>3, <3>4, Claims
    <3>6. QED
      BY <3>1, <3>2, <3>3, <3>4, <3>5
  <2>4. QED
    BY <2>1, <2>3
<1>9. ASSUME NEW k \in Call, Ask(k) PROVE RecordKept'
  BY <1>9 DEF Ask, View
<1>10. ASSUME NEW k \in Call, Diagnose(k) PROVE RecordKept'
  BY <1>10 DEF Diagnose
<1>11. ASSUME NEW k \in Call, NotOpenAnyMore(k) PROVE RecordKept'
  BY <1>11 DEF NotOpenAnyMore
<1>12. ASSUME NEW k \in Call, Answered(k) PROVE RecordKept'
  BY <1>12 DEF Answered
<1>13. ASSUME NEW k \in Call, Release(k) PROVE RecordKept'
  <2>1. /\ At(k, "release") /\ holder = None /\ UNCHANGED <<server, failed>>
        /\ \A j \in Call \ {k} : call'[j] = call[j]
        /\ \/ call'[k].pc = "idle" /\ holder' = None
           \/ call'[k].pc = "closing" /\ holder' = k
    BY <1>13 DEF Release
  <2>2. holder' = None => IF docs = None THEN docs' = None ELSE docs' # None /\ docs'.text = docs.text
    BY <1>13 DEF Release, Document
  <2>3. QED
    BY <2>1, <2>2
<1>14. ASSUME NEW k \in Call, CloseReleased(k) PROVE RecordKept'
  <2>1. /\ At(k, "closing") /\ UNCHANGED <<docs, failed>> /\ ~server'.open /\ holder' = None
        /\ call'[k].pc = "idle" /\ \A j \in Call \ {k} : call'[j] = call[j]
    BY <1>14 DEF CloseReleased, Released
  <2>2. docs = None
    BY <2>1 DEF Shape
  <2>3. QED
    BY <2>1, <2>2
<1>15. ASSUME NEW k \in Call, DropSession(k) PROVE RecordKept'
  BY <1>15 DEF DropSession
<1>16. ASSUME NEW k \in Call, HashBase(k) PROVE RecordKept'
  BY <1>16 DEF HashBase
<1>17. ASSUME NEW k \in Call, PutOverlay(k) PROVE RecordKept'
  BY <1>17 DEF PutOverlay
<1>18. ASSUME NEW k \in Call, LiveOverlay(k) PROVE RecordKept'
  BY <1>18 DEF LiveOverlay
<1>19. ASSUME NEW k \in Call, CompareBase(k) PROVE RecordKept'
  BY <1>19 DEF CompareBase, Stale
<1>20. ASSUME NEW k \in Call, PushText(k) PROVE RecordKept'
  BY <1>20 DEF PushText, ServerFree
<1>21. ASSUME NEW k \in Call, RestoreText(k) PROVE RecordKept'
  BY <1>21 DEF RestoreText, View
<1>22. ASSUME NEW k \in Call, ForgetDocument(k) PROVE RecordKept'
  <2>1. /\ At(k, "forget") /\ holder = None /\ UNCHANGED <<server, holder, failed>>
        /\ call'[k].pc \in {"idle", "answered"} /\ \A j \in Call \ {k} : call'[j] = call[j]
    BY <1>22 DEF ForgetDocument
  <2>2. IF docs = None THEN docs' = None ELSE docs' # None /\ docs'.text = Forgotten
    BY <1>22, Texts DEF ForgetDocument, Forget, Document
  <2>3. QED
    BY <2>1, <2>2
<1>23. ASSUME NEW k \in Call, RememberPlan(k) PROVE RecordKept'
  BY <1>23 DEF RememberPlan, Token
<1>24. ASSUME NEW k \in Call, LookUp(k) PROVE RecordKept'
  <2>1. /\ At(k, "lookup") /\ UNCHANGED <<disk, server, docs, holder, failed>>
        /\ call'[k].pc \in {"idle", "verify"} /\ \A j \in Call \ {k} : call'[j] = call[j]
    BY <1>24, LookUpGoes DEF LookUp, file_vars, server_vars, budget
  <2>2. QED
    BY <2>1
<1>25. ASSUME NEW k \in Call, Verify(k) PROVE RecordKept'
  BY <1>25 DEF Verify, Token
<1>26. ASSUME NEW k \in Call, ReadForEdit(k) PROVE RecordKept'
  BY <1>26 DEF ReadForEdit
<1>27. ASSUME NEW k \in Call, WriteEdit(k) PROVE RecordKept'
  BY <1>27 DEF WriteEdit, FileBecomes, InvalidatePath, Stale
<1>28. ASSUME NEW k \in Call, ForgetWritten(k) PROVE RecordKept'
  <2>1. /\ At(k, "rewritten") /\ holder = None /\ UNCHANGED <<server, holder, failed>>
        /\ call'[k].pc \in {"idle", "answered"} /\ \A j \in Call \ {k} : call'[j] = call[j]
    BY <1>28 DEF ForgetWritten
  <2>2. IF docs = None THEN docs' = None ELSE docs' # None /\ docs'.text = Forgotten
    BY <1>28, Texts DEF ForgetWritten, Forget, Document
  <2>3. QED
    BY <2>1, <2>2
<1>29. ASSUME NEW k \in Call, GiveUp(k) PROVE RecordKept'
  BY <1>29 DEF GiveUp
<1>30. ASSUME NEW k \in Call, OpenFails(k) PROVE RecordKept'
  BY <1>30 DEF OpenFails, Fails
<1>31. ASSUME NEW k \in Call, AnalysisUnsettled(k) PROVE RecordKept'
  BY <1>31 DEF AnalysisUnsettled, RecordDiffers, Fails
<1>32. ASSUME NEW k \in Call, NoServerToTell(k) PROVE RecordKept'
  BY <1>32 DEF NoServerToTell, Fails, Released
<1>33. ASSUME NEW m \in Saved, Save(m) PROVE RecordKept'
  BY <1>33 DEF Save, FileBecomes
<1>34. ASSUME Watch PROVE RecordKept'
  BY <1>34 DEF Watch, InvalidatePath, Stale
<1>35. ASSUME NEW s \in Session, ExpireOverlay(s) PROVE RecordKept'
  BY <1>35 DEF ExpireOverlay
<1>36. QED
  BY <1>1, <1>2, <1>3, <1>4, <1>5, <1>6, <1>7, <1>8, <1>9, <1>10, <1>11, <1>12, <1>13,
     <1>14, <1>15, <1>16, <1>17, <1>18, <1>19, <1>20, <1>21, <1>22, <1>23, <1>24, <1>25,
     <1>26, <1>27, <1>28, <1>29, <1>30, <1>31, <1>32, <1>33, <1>34, <1>35
     DEF WorkspaceNext, Arrive, Step, Trouble, Prepare, Respond, LetGo, Speculate, ApplyEdit

-----------------------------------------------------------------------------
\* Inside WithText and after it the only text answered is the session's own.
OwnAnswers ==
  \A k \in Call :
    /\ call[k].pc \notin {"answered", "remember", "forget"} => call[k].got = None
    /\ At(k, "forget") => call[k].got \in {None, Speculative(call[k].who)}
    /\ At(k, "answered") /\ call[k].op = "overlaid" => call[k].got = Speculative(call[k].who)

\* Every step keeps the answers of WithText to the session that asked.
LEMMA OwnStep ==
  ASSUME TypeOK, LocksExclude, Shape, OwnAnswers, [WorkspaceNext]_vars
  PROVE  OwnAnswers'
<1> USE DEF OwnAnswers, Locals, At, Goto, Return, Idle, file_vars, server_vars, budget
<1>a. call \in [Call -> Locals] /\ since \in [Call -> SUBSET Text] /\ disk \in Text
  BY DEF TypeOK
<1> USE <1>a
<1>1. ASSUME UNCHANGED vars PROVE OwnAnswers'
  BY <1>1 DEF vars
<1>2. ASSUME NEW k \in Call, NEW s \in Session, NEW op \in Operations, Begin(k, s, op)
      PROVE  OwnAnswers'
  BY <1>2 DEF Begin
<1>3. ASSUME NEW k \in Call, NEW s \in Session, NEW m \in minted, BeginApply(k, s, m)
      PROVE  OwnAnswers'
  BY <1>3 DEF BeginApply
<1>4. ASSUME NEW k \in Call, NEW s \in Session, Disconnect(k, s) PROVE OwnAnswers'
  BY <1>4 DEF Disconnect, Busy
<1>5. ASSUME NEW k \in Call, LockAndRead(k) PROVE OwnAnswers'
  BY <1>5 DEF LockAndRead
<1>6. ASSUME NEW k \in Call, CloseStale(k) PROVE OwnAnswers'
  BY <1>6 DEF CloseStale, RecordDiffers
<1>7. ASSUME NEW k \in Call, OpenOnServer(k) PROVE OwnAnswers'
  BY <1>7 DEF OpenOnServer
<1>8. ASSUME NEW k \in Call, Record(k) PROVE OwnAnswers'
  BY <1>8 DEF Record, AfterPrepare, Shape
<1>9. ASSUME NEW k \in Call, Ask(k) PROVE OwnAnswers'
  BY <1>9 DEF Ask, View
<1>10. ASSUME NEW k \in Call, Diagnose(k) PROVE OwnAnswers'
  BY <1>10 DEF Diagnose
<1>11. ASSUME NEW k \in Call, NotOpenAnyMore(k) PROVE OwnAnswers'
  BY <1>11 DEF NotOpenAnyMore
<1>12. ASSUME NEW k \in Call, Answered(k) PROVE OwnAnswers'
  BY <1>12 DEF Answered
<1>13. ASSUME NEW k \in Call, Release(k) PROVE OwnAnswers'
  BY <1>13 DEF Release
<1>14. ASSUME NEW k \in Call, CloseReleased(k) PROVE OwnAnswers'
  BY <1>14 DEF CloseReleased, Released
<1>15. ASSUME NEW k \in Call, DropSession(k) PROVE OwnAnswers'
  BY <1>15 DEF DropSession
<1>16. ASSUME NEW k \in Call, HashBase(k) PROVE OwnAnswers'
  BY <1>16 DEF HashBase
<1>17. ASSUME NEW k \in Call, PutOverlay(k) PROVE OwnAnswers'
  BY <1>17 DEF PutOverlay
<1>18. ASSUME NEW k \in Call, LiveOverlay(k) PROVE OwnAnswers'
  BY <1>18 DEF LiveOverlay
<1>19. ASSUME NEW k \in Call, CompareBase(k) PROVE OwnAnswers'
  BY <1>19 DEF CompareBase, Stale
<1>20. ASSUME NEW k \in Call, PushText(k) PROVE OwnAnswers'
  BY <1>20 DEF PushText
<1>21. ASSUME NEW k \in Call, RestoreText(k) PROVE OwnAnswers'
  BY <1>21 DEF RestoreText, View
<1>22. ASSUME NEW k \in Call, ForgetDocument(k) PROVE OwnAnswers'
  BY <1>22 DEF ForgetDocument, Forget
<1>23. ASSUME NEW k \in Call, RememberPlan(k) PROVE OwnAnswers'
  BY <1>23 DEF RememberPlan, Shape
<1>24. ASSUME NEW k \in Call, LookUp(k) PROVE OwnAnswers'
  <2>1. /\ At(k, "lookup") /\ UNCHANGED <<disk, server, docs, holder, failed, since>>
        /\ \A j \in Call \ {k} : call'[j] = call[j]
        /\ call'[k].pc \in {"idle", "verify"} /\ call'[k].got = None
        /\ call'[k].pc = "verify" => call'[k].op = "apply"
    <3>0. /\ At(k, "lookup") /\ UNCHANGED <<disk, server, docs, holder, failed, since>>
          /\ \A j \in Call \ {k} : call'[j] = call[j]
      BY <1>24, LookUpEffect DEF LookUp, file_vars, server_vars, budget
    <3>1. CASE call'[k] = Idle
      BY <3>0, <3>1 DEF Idle
    <3>2. CASE call'[k] # Idle
      <4>1. PICK i \in DOMAIN plans :
              /\ plans[i] \in Plan
              /\ call'[k] = [call[k] EXCEPT !.plan = plans[i], !.pc = "verify"]
        BY <1>24, <3>2, LookUpEffect
      <4>2. call[k] \in Locals /\ call[k].op = "apply" /\ At(k, "lookup") /\ call[k].got = None
        BY <3>0 DEF Shape, OwnAnswers
      <4> DEFINE plan == plans[i]
      <4>3. \A q \in Plan : /\ [call[k] EXCEPT !.plan = q, !.pc = "verify"].pc = "verify"
                            /\ [call[k] EXCEPT !.plan = q, !.pc = "verify"].got = call[k].got
                            /\ [call[k] EXCEPT !.plan = q, !.pc = "verify"].op = call[k].op
        BY <4>2 DEF Locals
      <4>4. QED
        BY <3>0, <4>1, <4>2, <4>3
    <3>3. QED
      BY <3>1, <3>2
  <2>2. QED
    BY <2>1
<1>25. ASSUME NEW k \in Call, Verify(k) PROVE OwnAnswers'
  BY <1>25 DEF Verify, Token
<1>26. ASSUME NEW k \in Call, ReadForEdit(k) PROVE OwnAnswers'
  BY <1>26 DEF ReadForEdit
<1>27. ASSUME NEW k \in Call, WriteEdit(k) PROVE OwnAnswers'
  BY <1>27 DEF WriteEdit, FileBecomes, InvalidatePath, Stale
<1>28. ASSUME NEW k \in Call, ForgetWritten(k) PROVE OwnAnswers'
  BY <1>28 DEF ForgetWritten, Forget, InvalidatePath, Stale
<1>29. ASSUME NEW k \in Call, GiveUp(k) PROVE OwnAnswers'
  BY <1>29 DEF GiveUp
<1>30. ASSUME NEW k \in Call, OpenFails(k) PROVE OwnAnswers'
  BY <1>30 DEF OpenFails, Fails
<1>31. ASSUME NEW k \in Call, AnalysisUnsettled(k) PROVE OwnAnswers'
  BY <1>31 DEF AnalysisUnsettled, RecordDiffers, Fails
<1>32. ASSUME NEW k \in Call, NoServerToTell(k) PROVE OwnAnswers'
  BY <1>32 DEF NoServerToTell, Fails, Released
<1>33. ASSUME NEW m \in Saved, Save(m) PROVE OwnAnswers'
  BY <1>33 DEF Save, FileBecomes
<1>34. ASSUME Watch PROVE OwnAnswers'
  BY <1>34 DEF Watch, InvalidatePath, Stale
<1>35. ASSUME NEW s \in Session, ExpireOverlay(s) PROVE OwnAnswers'
  BY <1>35 DEF ExpireOverlay
<1>36. QED
  BY <1>1, <1>2, <1>3, <1>4, <1>5, <1>6, <1>7, <1>8, <1>9, <1>10, <1>11, <1>12, <1>13,
     <1>14, <1>15, <1>16, <1>17, <1>18, <1>19, <1>20, <1>21, <1>22, <1>23, <1>24, <1>25,
     <1>26, <1>27, <1>28, <1>29, <1>30, <1>31, <1>32, <1>33, <1>34, <1>35
     DEF WorkspaceNext, Arrive, Step, Trouble, Prepare, Respond, LetGo, Speculate, ApplyEdit

\* The file as it is, the text a call read under the lock and the base of the
\* overlay it answers through are texts the file had since the call began.  A call
\* that is about to ask has let go of the lock after whoever holds it now took it.
ReadsSeen ==
  \A k \in Call :
    /\ ~At(k, "idle") => disk \in since[k]
    /\ call[k].pc \in {"close", "open", "record"} => call[k].read \in since[k]
    /\ call[k].op = "overlaid" /\ call[k].pc \notin {"compare", "idle"} => call[k].base \in since[k]
    /\ call[k].pc \in {"ask", "diagnose"} =>
         \A j \in Call : call[j].pc \in {"close", "open", "record"} => call[j].read \in since[k]

\* Every step keeps what calls have read among the texts the file had meanwhile.
LEMMA ReadsStep ==
  ASSUME TypeOK, LocksExclude, Shape, OwnAnswers, ReadsSeen, [WorkspaceNext]_vars
  PROVE  ReadsSeen'
<1> USE DEF ReadsSeen, Locals, At, Goto, Return, Idle, file_vars, server_vars, budget
<1>a. call \in [Call -> Locals] /\ since \in [Call -> SUBSET Text] /\ disk \in Text
  BY DEF TypeOK
<1> USE <1>a
<1>1. ASSUME UNCHANGED vars PROVE ReadsSeen'
  BY <1>1 DEF vars
<1>2. ASSUME NEW k \in Call, NEW s \in Session, NEW op \in Operations, Begin(k, s, op)
      PROVE  ReadsSeen'
  BY <1>2 DEF Begin, Operations
<1>3. ASSUME NEW k \in Call, NEW s \in Session, NEW m \in minted, BeginApply(k, s, m)
      PROVE  ReadsSeen'
  BY <1>3 DEF BeginApply
<1>4. ASSUME NEW k \in Call, NEW s \in Session, Disconnect(k, s) PROVE ReadsSeen'
  BY <1>4 DEF Disconnect, Busy
<1>5. ASSUME NEW k \in Call, LockAndRead(k) PROVE ReadsSeen'
  BY <1>5 DEF LockAndRead
<1>6. ASSUME NEW k \in Call, CloseStale(k) PROVE ReadsSeen'
  BY <1>6 DEF CloseStale, RecordDiffers
<1>7. ASSUME NEW k \in Call, OpenOnServer(k) PROVE ReadsSeen'
  BY <1>7 DEF OpenOnServer
<1>8. ASSUME NEW k \in Call, Record(k) PROVE ReadsSeen'
  BY <1>8 DEF Record, AfterPrepare, Shape, LocksExclude, Locked
<1>9. ASSUME NEW k \in Call, Ask(k) PROVE ReadsSeen'
  BY <1>9 DEF Ask, View
<1>10. ASSUME NEW k \in Call, Diagnose(k) PROVE ReadsSeen'
  BY <1>10 DEF Diagnose
<1>11. ASSUME NEW k \in Call, NotOpenAnyMore(k) PROVE ReadsSeen'
  BY <1>11 DEF NotOpenAnyMore
<1>12. ASSUME NEW k \in Call, Answered(k) PROVE ReadsSeen'
  BY <1>12 DEF Answered
<1>13. ASSUME NEW k \in Call, Release(k) PROVE ReadsSeen'
  BY <1>13 DEF Release
<1>14. ASSUME NEW k \in Call, CloseReleased(k) PROVE ReadsSeen'
  BY <1>14 DEF CloseReleased, Released
<1>15. ASSUME NEW k \in Call, DropSession(k) PROVE ReadsSeen'
  BY <1>15 DEF DropSession
<1>16. ASSUME NEW k \in Call, HashBase(k) PROVE ReadsSeen'
  BY <1>16 DEF HashBase
<1>17. ASSUME NEW k \in Call, PutOverlay(k) PROVE ReadsSeen'
  BY <1>17 DEF PutOverlay
<1>18. ASSUME NEW k \in Call, LiveOverlay(k) PROVE ReadsSeen'
  BY <1>18 DEF LiveOverlay
<1>19. ASSUME NEW k \in Call, CompareBase(k) PROVE ReadsSeen'
  BY <1>19 DEF CompareBase, Stale
<1>20. ASSUME NEW k \in Call, PushText(k) PROVE ReadsSeen'
  BY <1>20 DEF PushText
<1>21. ASSUME NEW k \in Call, RestoreText(k) PROVE ReadsSeen'
  BY <1>21 DEF RestoreText, View
<1>22. ASSUME NEW k \in Call, ForgetDocument(k) PROVE ReadsSeen'
  BY <1>22 DEF ForgetDocument, Forget
<1>23. ASSUME NEW k \in Call, RememberPlan(k) PROVE ReadsSeen'
  BY <1>23 DEF RememberPlan, Token
<1>24. ASSUME NEW k \in Call, LookUp(k) PROVE ReadsSeen'
  <2>1. /\ At(k, "lookup") /\ UNCHANGED <<disk, server, docs, holder, failed, since>>
        /\ \A j \in Call \ {k} : call'[j] = call[j]
        /\ call'[k].pc \in {"idle", "verify"} /\ call'[k].got = None
        /\ call'[k].pc = "verify" => call'[k].op = "apply"
    <3>0. /\ At(k, "lookup") /\ UNCHANGED <<disk, server, docs, holder, failed, since>>
          /\ \A j \in Call \ {k} : call'[j] = call[j]
      BY <1>24, LookUpEffect DEF LookUp, file_vars, server_vars, budget
    <3>1. CASE call'[k] = Idle
      BY <3>0, <3>1 DEF Idle
    <3>2. CASE call'[k] # Idle
      <4>1. PICK i \in DOMAIN plans :
              /\ plans[i] \in Plan
              /\ call'[k] = [call[k] EXCEPT !.plan = plans[i], !.pc = "verify"]
        BY <1>24, <3>2, LookUpEffect
      <4>2. call[k] \in Locals /\ call[k].op = "apply" /\ At(k, "lookup") /\ call[k].got = None
        BY <3>0 DEF Shape, OwnAnswers
      <4> DEFINE plan == plans[i]
      <4>3. \A q \in Plan : /\ [call[k] EXCEPT !.plan = q, !.pc = "verify"].pc = "verify"
                            /\ [call[k] EXCEPT !.plan = q, !.pc = "verify"].got = call[k].got
                            /\ [call[k] EXCEPT !.plan = q, !.pc = "verify"].op = call[k].op
        BY <4>2 DEF Locals
      <4>4. QED
        BY <3>0, <4>1, <4>2, <4>3
    <3>3. QED
      BY <3>1, <3>2
  <2>2. QED
    BY <2>1
<1>25. ASSUME NEW k \in Call, Verify(k) PROVE ReadsSeen'
  BY <1>25 DEF Verify, Token
<1>26. ASSUME NEW k \in Call, ReadForEdit(k) PROVE ReadsSeen'
  BY <1>26 DEF ReadForEdit
<1>27. ASSUME NEW k \in Call, WriteEdit(k) PROVE ReadsSeen'
  <2> DEFINE t == Append(call[k].read, call[k].plan.edit)
  <2>1. disk' = t /\ \A j \in Call : ~At(j, "idle") => since'[j] = since[j] \cup {t}
    BY <1>27 DEF WriteEdit, FileBecomes
  <2>2. /\ At(k, "write") /\ call'[k] = [call[k] EXCEPT !.pc = "rewritten"]
        /\ \A j \in Call \ {k} : call'[j] = call[j]
    BY <1>27 DEF WriteEdit
  <2>3. call[k].op = "apply" /\ call'[k].pc = "rewritten" /\ call'[k].op = "apply"
    BY <2>2 DEF Shape
  <2> HIDE DEF t
  <2>4. QED
    BY <2>1, <2>2, <2>3
<1>28. ASSUME NEW k \in Call, ForgetWritten(k) PROVE ReadsSeen'
  BY <1>28 DEF ForgetWritten, Forget, InvalidatePath, Stale
<1>29. ASSUME NEW k \in Call, GiveUp(k) PROVE ReadsSeen'
  BY <1>29 DEF GiveUp
<1>30. ASSUME NEW k \in Call, OpenFails(k) PROVE ReadsSeen'
  BY <1>30 DEF OpenFails, Fails
<1>31. ASSUME NEW k \in Call, AnalysisUnsettled(k) PROVE ReadsSeen'
  BY <1>31 DEF AnalysisUnsettled, RecordDiffers, Fails
<1>32. ASSUME NEW k \in Call, NoServerToTell(k) PROVE ReadsSeen'
  BY <1>32 DEF NoServerToTell, Fails, Released
<1>33. ASSUME NEW m \in Saved, Save(m) PROVE ReadsSeen'
  BY <1>33 DEF Save, FileBecomes
<1>34. ASSUME Watch PROVE ReadsSeen'
  BY <1>34 DEF Watch, InvalidatePath, Stale
<1>35. ASSUME NEW s \in Session, ExpireOverlay(s) PROVE ReadsSeen'
  BY <1>35 DEF ExpireOverlay
<1>36. QED
  BY <1>1, <1>2, <1>3, <1>4, <1>5, <1>6, <1>7, <1>8, <1>9, <1>10, <1>11, <1>12, <1>13,
     <1>14, <1>15, <1>16, <1>17, <1>18, <1>19, <1>20, <1>21, <1>22, <1>23, <1>24, <1>25,
     <1>26, <1>27, <1>28, <1>29, <1>30, <1>31, <1>32, <1>33, <1>34, <1>35
     DEF WorkspaceNext, Arrive, Step, Trouble, Prepare, Respond, LetGo, Speculate, ApplyEdit

\* What the server has when a call is about to ask it is a text of the file since
\* the call began, and so is what it answered.
ServerSeen ==
  failed \subseteq {"open"} =>
    \A k \in Call :
      /\ call[k].pc \in {"ask", "diagnose"} /\ server.open => server.text \in since[k]
      /\ At(k, "answered") /\ call[k].op = "live" => call[k].got \in since[k]
      /\ At(k, "remember") /\ call[k].clean => call[k].got \in since[k]

\* Every step keeps what the server has among the texts a call that is about to
\* ask has seen.
LEMMA ServerStep ==
  ASSUME TypeOK, LocksExclude, Shape, OwnAnswers, ReadsSeen, RecordKept, ServerSeen, [WorkspaceNext]_vars
  PROVE  ServerSeen'
<1> USE DEF ServerSeen, Locals, At, Goto, Return, Idle, file_vars, server_vars, budget
<1>a. /\ call \in [Call -> Locals] /\ since \in [Call -> SUBSET Text] /\ disk \in Text
      /\ server \in [open : BOOLEAN, text : Text]
  BY DEF TypeOK
<1> USE <1>a
<1>1. ASSUME UNCHANGED vars PROVE ServerSeen'
  BY <1>1 DEF vars
<1>2. ASSUME NEW k \in Call, NEW s \in Session, NEW op \in Operations, Begin(k, s, op)
      PROVE  ServerSeen'
  BY <1>2 DEF Begin
<1>3. ASSUME NEW k \in Call, NEW s \in Session, NEW m \in minted, BeginApply(k, s, m)
      PROVE  ServerSeen'
  BY <1>3 DEF BeginApply
<1>4. ASSUME NEW k \in Call, NEW s \in Session, Disconnect(k, s) PROVE ServerSeen'
  BY <1>4 DEF Disconnect, Busy
<1>5. ASSUME NEW k \in Call, LockAndRead(k) PROVE ServerSeen'
  BY <1>5 DEF LockAndRead
<1>6. ASSUME NEW k \in Call, CloseStale(k) PROVE ServerSeen'
  BY <1>6 DEF CloseStale, RecordDiffers
<1>7. ASSUME NEW k \in Call, OpenOnServer(k) PROVE ServerSeen'
  BY <1>7 DEF OpenOnServer, ReadsSeen
<1>8. ASSUME NEW k \in Call, Record(k) PROVE ServerSeen'
  BY <1>8 DEF Record, AfterPrepare, Shape, ReadsSeen, RecordKept
<1>9. ASSUME NEW k \in Call, Ask(k) PROVE ServerSeen'
  BY <1>9 DEF Ask, View, ServerFree, ReadsSeen
<1>10. ASSUME NEW k \in Call, Diagnose(k) PROVE ServerSeen'
  BY <1>10 DEF Diagnose
<1>11. ASSUME NEW k \in Call, NotOpenAnyMore(k) PROVE ServerSeen'
  BY <1>11 DEF NotOpenAnyMore
<1>12. ASSUME NEW k \in Call, Answered(k) PROVE ServerSeen'
  BY <1>12 DEF Answered
<1>13. ASSUME NEW k \in Call, Release(k) PROVE ServerSeen'
  BY <1>13 DEF Release
<1>14. ASSUME NEW k \in Call, CloseReleased(k) PROVE ServerSeen'
  BY <1>14 DEF CloseReleased, Released
<1>15. ASSUME NEW k \in Call, DropSession(k) PROVE ServerSeen'
  BY <1>15 DEF DropSession
<1>16. ASSUME NEW k \in Call, HashBase(k) PROVE ServerSeen'
  BY <1>16 DEF HashBase
<1>17. ASSUME NEW k \in Call, PutOverlay(k) PROVE ServerSeen'
  BY <1>17 DEF PutOverlay
<1>18. ASSUME NEW k \in Call, LiveOverlay(k) PROVE ServerSeen'
  BY <1>18 DEF LiveOverlay
<1>19. ASSUME NEW k \in Call, CompareBase(k) PROVE ServerSeen'
  BY <1>19 DEF CompareBase, Stale
<1>20. ASSUME NEW k \in Call, PushText(k) PROVE ServerSeen'
  BY <1>20 DEF PushText
<1>21. ASSUME NEW k \in Call, RestoreText(k) PROVE ServerSeen'
  BY <1>21 DEF RestoreText, View
<1>22. ASSUME NEW k \in Call, ForgetDocument(k) PROVE ServerSeen'
  BY <1>22 DEF ForgetDocument, Shape
<1>23. ASSUME NEW k \in Call, RememberPlan(k) PROVE ServerSeen'
  BY <1>23 DEF RememberPlan, Shape
<1>24. ASSUME NEW k \in Call, LookUp(k) PROVE ServerSeen'
  <2>1. /\ At(k, "lookup") /\ UNCHANGED <<disk, server, docs, holder, failed, since>>
        /\ \A j \in Call \ {k} : call'[j] = call[j]
        /\ call'[k].pc \in {"idle", "verify"} /\ call'[k].got = None
        /\ call'[k].pc = "verify" => call'[k].op = "apply"
    <3>0. /\ At(k, "lookup") /\ UNCHANGED <<disk, server, docs, holder, failed, since>>
          /\ \A j \in Call \ {k} : call'[j] = call[j]
      BY <1>24, LookUpEffect DEF LookUp, file_vars, server_vars, budget
    <3>1. CASE call'[k] = Idle
      BY <3>0, <3>1 DEF Idle
    <3>2. CASE call'[k] # Idle
      <4>1. PICK i \in DOMAIN plans :
              /\ plans[i] \in Plan
              /\ call'[k] = [call[k] EXCEPT !.plan = plans[i], !.pc = "verify"]
        BY <1>24, <3>2, LookUpEffect
      <4>2. call[k] \in Locals /\ call[k].op = "apply" /\ At(k, "lookup") /\ call[k].got = None
        BY <3>0 DEF Shape, OwnAnswers
      <4> DEFINE plan == plans[i]
      <4>3. \A q \in Plan : /\ [call[k] EXCEPT !.plan = q, !.pc = "verify"].pc = "verify"
                            /\ [call[k] EXCEPT !.plan = q, !.pc = "verify"].got = call[k].got
                            /\ [call[k] EXCEPT !.plan = q, !.pc = "verify"].op = call[k].op
        BY <4>2 DEF Locals
      <4>4. QED
        BY <3>0, <4>1, <4>2, <4>3
    <3>3. QED
      BY <3>1, <3>2
  <2>2. QED
    BY <2>1
<1>25. ASSUME NEW k \in Call, Verify(k) PROVE ServerSeen'
  BY <1>25 DEF Verify, Token
<1>26. ASSUME NEW k \in Call, ReadForEdit(k) PROVE ServerSeen'
  BY <1>26 DEF ReadForEdit
<1>27. ASSUME NEW k \in Call, WriteEdit(k) PROVE ServerSeen'
  BY <1>27 DEF WriteEdit, FileBecomes, InvalidatePath, Stale
<1>28. ASSUME NEW k \in Call, ForgetWritten(k) PROVE ServerSeen'
  BY <1>28 DEF ForgetWritten, Forget, InvalidatePath, Stale
<1>29. ASSUME NEW k \in Call, GiveUp(k) PROVE ServerSeen'
  BY <1>29 DEF GiveUp
<1>30. ASSUME NEW k \in Call, OpenFails(k) PROVE ServerSeen'
  BY <1>30 DEF OpenFails, Fails
<1>31. ASSUME NEW k \in Call, AnalysisUnsettled(k) PROVE ServerSeen'
  BY <1>31 DEF AnalysisUnsettled, RecordDiffers, Fails
<1>32. ASSUME NEW k \in Call, NoServerToTell(k) PROVE ServerSeen'
  BY <1>32 DEF NoServerToTell, Fails, Released
<1>33. ASSUME NEW m \in Saved, Save(m) PROVE ServerSeen'
  BY <1>33 DEF Save, FileBecomes
<1>34. ASSUME Watch PROVE ServerSeen'
  BY <1>34 DEF Watch, InvalidatePath, Stale
<1>35. ASSUME NEW s \in Session, ExpireOverlay(s) PROVE ServerSeen'
  BY <1>35 DEF ExpireOverlay
<1>36. QED
  BY <1>1, <1>2, <1>3, <1>4, <1>5, <1>6, <1>7, <1>8, <1>9, <1>10, <1>11, <1>12, <1>13,
     <1>14, <1>15, <1>16, <1>17, <1>18, <1>19, <1>20, <1>21, <1>22, <1>23, <1>24, <1>25,
     <1>26, <1>27, <1>28, <1>29, <1>30, <1>31, <1>32, <1>33, <1>34, <1>35
     DEF WorkspaceNext, Arrive, Step, Trouble, Prepare, Respond, LetGo, Speculate, ApplyEdit

-----------------------------------------------------------------------------
\* A plan that was made undisturbed is of the text its token names, wherever it is
\* remembered, and the call that applies it has met that text and the one it read.
PlansTrue ==
  /\ failed \subseteq {"open"} =>
       \A i \in DOMAIN plans : plans[i].clean => plans[i].token = Token(plans[i].of)
  /\ \A k \in Call :
       /\ failed \subseteq {"open"} /\ call[k].pc \in {"verify", "read", "write"} =>
            /\ call[k].plan.token = call[k].token
            /\ call[k].plan.clean => call[k].plan.token = Token(call[k].plan.of)
       /\ call[k].pc \in {"read", "write"} => call[k].token.hash \in since[k]
       /\ At(k, "write") => call[k].read \in since[k]

\* Every step keeps the undisturbed plans true of the text their token names.
LEMMA PlannedStep ==
  ASSUME TypeOK, LocksExclude, Shape, PlansAreBounded, ReadsSeen, ServerSeen, PlansTrue, [WorkspaceNext]_vars
  PROVE  PlansTrue'
<1> USE DEF PlansTrue, Locals, At, Goto, Return, Idle, file_vars, server_vars, budget
<1>a. call \in [Call -> Locals] /\ since \in [Call -> SUBSET Text] /\ disk \in Text
  BY DEF TypeOK
<1> USE <1>a
<1>1. ASSUME UNCHANGED vars PROVE PlansTrue'
  BY <1>1 DEF vars
<1>2. ASSUME NEW k \in Call, NEW s \in Session, NEW op \in Operations, Begin(k, s, op)
      PROVE  PlansTrue'
  BY <1>2 DEF Begin
<1>3. ASSUME NEW k \in Call, NEW s \in Session, NEW m \in minted, BeginApply(k, s, m)
      PROVE  PlansTrue'
  BY <1>3 DEF BeginApply
<1>4. ASSUME NEW k \in Call, NEW s \in Session, Disconnect(k, s) PROVE PlansTrue'
  BY <1>4 DEF Disconnect, Busy
<1>5. ASSUME NEW k \in Call, LockAndRead(k) PROVE PlansTrue'
  BY <1>5 DEF LockAndRead
<1>6. ASSUME NEW k \in Call, CloseStale(k) PROVE PlansTrue'
  BY <1>6 DEF CloseStale, RecordDiffers
<1>7. ASSUME NEW k \in Call, OpenOnServer(k) PROVE PlansTrue'
  BY <1>7 DEF OpenOnServer
<1>8. ASSUME NEW k \in Call, Record(k) PROVE PlansTrue'
  BY <1>8 DEF Record, AfterPrepare, Shape
<1>9. ASSUME NEW k \in Call, Ask(k) PROVE PlansTrue'
  <2>1. /\ call'[k].pc \in {"remember", "answered"}
        /\ \A j \in Call \ {k} : call'[j] = call[j]
        /\ UNCHANGED <<plans, failed, since>>
    BY <1>9 DEF Ask
  <2>2. QED
    BY <2>1
<1>10. ASSUME NEW k \in Call, Diagnose(k) PROVE PlansTrue'
  BY <1>10 DEF Diagnose
<1>11. ASSUME NEW k \in Call, NotOpenAnyMore(k) PROVE PlansTrue'
  BY <1>11 DEF NotOpenAnyMore
<1>12. ASSUME NEW k \in Call, Answered(k) PROVE PlansTrue'
  BY <1>12 DEF Answered
<1>13. ASSUME NEW k \in Call, Release(k) PROVE PlansTrue'
  BY <1>13 DEF Release
<1>14. ASSUME NEW k \in Call, CloseReleased(k) PROVE PlansTrue'
  BY <1>14 DEF CloseReleased, Released
<1>15. ASSUME NEW k \in Call, DropSession(k) PROVE PlansTrue'
  BY <1>15 DEF DropSession
<1>16. ASSUME NEW k \in Call, HashBase(k) PROVE PlansTrue'
  BY <1>16 DEF HashBase
<1>17. ASSUME NEW k \in Call, PutOverlay(k) PROVE PlansTrue'
  BY <1>17 DEF PutOverlay
<1>18. ASSUME NEW k \in Call, LiveOverlay(k) PROVE PlansTrue'
  BY <1>18 DEF LiveOverlay
<1>19. ASSUME NEW k \in Call, CompareBase(k) PROVE PlansTrue'
  BY <1>19 DEF CompareBase, Stale
<1>20. ASSUME NEW k \in Call, PushText(k) PROVE PlansTrue'
  BY <1>20 DEF PushText
<1>21. ASSUME NEW k \in Call, RestoreText(k) PROVE PlansTrue'
  BY <1>21 DEF RestoreText, View
<1>22. ASSUME NEW k \in Call, ForgetDocument(k) PROVE PlansTrue'
  BY <1>22 DEF ForgetDocument, Forget
<1>23. ASSUME NEW k \in Call, RememberPlan(k) PROVE PlansTrue'
  <2> DEFINE token == Token(disk)
             plan == [token |-> token, edit |-> call[k].edit, of |-> call[k].got,
                      clean |-> call[k].clean /\ since[k] = {disk}]
  <2>1. token \in Tokens /\ plan \in Plan /\ plan.token = token
    BY <1>23 DEF RememberPlan, Token, Tokens, Plan, Shape, At, TypeOK
  <2>2. plans' = Remembered(plan.token, plan)
    BY <1>23, <2>1 DEF RememberPlan
  <2>3. plans \in Seq(Plan)
    BY DEF TypeOK
  <2>4. failed \subseteq {"open"} /\ plan.clean => plan.token = Token(plan.of)
    BY <1>23 DEF RememberPlan, ServerSeen, At
  <2>5. /\ UNCHANGED <<disk, failed, since>> /\ call'[k].pc = "answered"
        /\ \A j \in Call \ {k} : call'[j] = call[j]
    BY <1>23 DEF RememberPlan
  <2>6. \A i \in DOMAIN plans' :
          plans'[i] = plan \/ \E j \in DOMAIN plans : plans'[i] = plans[j]
    <3> HIDE DEF plan, token
    <3>1. QED
      BY <2>1, <2>2, <2>3, PlansRemembered
  <2> HIDE DEF plan, token
  <2>7. QED
    BY <2>4, <2>5, <2>6
<1>24. ASSUME NEW k \in Call, LookUp(k) PROVE PlansTrue'
  <2>0. /\ At(k, "lookup") /\ UNCHANGED <<disk, plans, failed, since>>
        /\ \A j \in Call \ {k} : call'[j] = call[j]
    BY <1>24, LookUpEffect DEF LookUp, file_vars, server_vars, budget
  <2>1. CASE call'[k] = Idle
    BY <2>0, <2>1 DEF Idle
  <2>2. CASE call'[k] # Idle
    <3>1. PICK i \in DOMAIN plans :
            /\ plans[i] \in Plan /\ plans[i].token = call[k].token
            /\ call'[k] = [call[k] EXCEPT !.plan = plans[i], !.pc = "verify"]
      BY <1>24, <2>2, LookUpEffect
    <3> DEFINE plan == plans[i]
    <3>2. \A q \in Plan : /\ [call[k] EXCEPT !.plan = q, !.pc = "verify"].pc = "verify"
                          /\ [call[k] EXCEPT !.plan = q, !.pc = "verify"].plan = q
                          /\ [call[k] EXCEPT !.plan = q, !.pc = "verify"].token = call[k].token
      BY DEF Locals
    <3>3. failed \subseteq {"open"} /\ plan.clean => plan.token = Token(plan.of)
      BY <3>1
    <3>4. plan \in Plan /\ plan.token = call[k].token
          /\ call'[k] = [call[k] EXCEPT !.plan = plan, !.pc = "verify"]
      BY <3>1
    <3> HIDE DEF plan
    <3>5. call'[k].pc = "verify" /\ call'[k].plan = plan /\ call'[k].token = call[k].token
      BY <3>2, <3>4
    <3>6. plan.token = call[k].token
      BY <3>4
    <3>7. QED
      BY <2>0, <3>3, <3>5, <3>6
  <2>3. QED
    BY <2>1, <2>2
<1>25. ASSUME NEW k \in Call, Verify(k) PROVE PlansTrue'
  BY <1>25 DEF Verify, Token, ReadsSeen
<1>26. ASSUME NEW k \in Call, ReadForEdit(k) PROVE PlansTrue'
  BY <1>26 DEF ReadForEdit, ReadsSeen
<1>27. ASSUME NEW k \in Call, WriteEdit(k) PROVE PlansTrue'
  <2> DEFINE t == Append(call[k].read, call[k].plan.edit)
  <2>1. /\ \A j \in Call : ~At(j, "idle") => since'[j] = since[j] \cup {t}
        /\ UNCHANGED <<plans, failed>>
    BY <1>27 DEF WriteEdit, FileBecomes
  <2>2. call'[k].pc = "rewritten" /\ \A j \in Call \ {k} : call'[j] = call[j]
    BY <1>27 DEF WriteEdit
  <2> HIDE DEF t
  <2>3. QED
    BY <2>1, <2>2
<1>28. ASSUME NEW k \in Call, ForgetWritten(k) PROVE PlansTrue'
  BY <1>28 DEF ForgetWritten, Forget, InvalidatePath, Stale
<1>29. ASSUME NEW k \in Call, GiveUp(k) PROVE PlansTrue'
  BY <1>29 DEF GiveUp
<1>30. ASSUME NEW k \in Call, OpenFails(k) PROVE PlansTrue'
  BY <1>30 DEF OpenFails, Fails
<1>31. ASSUME NEW k \in Call, AnalysisUnsettled(k) PROVE PlansTrue'
  BY <1>31 DEF AnalysisUnsettled, RecordDiffers, Fails
<1>32. ASSUME NEW k \in Call, NoServerToTell(k) PROVE PlansTrue'
  BY <1>32 DEF NoServerToTell, Fails, Released
<1>33. ASSUME NEW m \in Saved, Save(m) PROVE PlansTrue'
  BY <1>33 DEF Save, FileBecomes
<1>34. ASSUME Watch PROVE PlansTrue'
  BY <1>34 DEF Watch, InvalidatePath, Stale
<1>35. ASSUME NEW s \in Session, ExpireOverlay(s) PROVE PlansTrue'
  BY <1>35 DEF ExpireOverlay
<1>36. QED
  BY <1>1, <1>2, <1>3, <1>4, <1>5, <1>6, <1>7, <1>8, <1>9, <1>10, <1>11, <1>12, <1>13,
     <1>14, <1>15, <1>16, <1>17, <1>18, <1>19, <1>20, <1>21, <1>22, <1>23, <1>24, <1>25,
     <1>26, <1>27, <1>28, <1>29, <1>30, <1>31, <1>32, <1>33, <1>34, <1>35
     DEF WorkspaceNext, Arrive, Step, Trouble, Prepare, Respond, LetGo, Speculate, ApplyEdit

-----------------------------------------------------------------------------
\* A session is connected as long as a request of its own is in progress, and
\* ending while its one cleanup is.
SessionsEnd ==
  /\ \A k \in Call : ~At(k, "idle") =>
       connected[call[k].who] = IF call[k].op = "end" THEN "ending" ELSE "yes"
  /\ \A k, j \in Call :
       ~At(k, "idle") /\ ~At(j, "idle") /\ call[k].op = "end" /\ call[j].who = call[k].who => k = j

\* Every step keeps the requests of a session before its end, and one end.
LEMMA EndedStep ==
  ASSUME TypeOK, LocksExclude, Shape, SessionsEnd, [WorkspaceNext]_vars
  PROVE  SessionsEnd'
<1> USE DEF SessionsEnd, Locals, At, Goto, Return, Idle, file_vars, server_vars, budget
<1>a. /\ call \in [Call -> Locals] /\ connected \in [Session -> {"yes", "ending", "no", "abandoned"}]
      /\ docs \in Document \cup {None} /\ overlays \in [Session -> Overlay]
  BY DEF TypeOK, Overlay
<1>b. \A j \in Call : call[j].pc \in {"release", "closing"} => call[j].who \in Session
  BY DEF Shape
<1> USE <1>a, <1>b
<1>1. ASSUME UNCHANGED vars PROVE SessionsEnd'
  BY <1>1 DEF vars
<1>2. ASSUME NEW k \in Call, NEW s \in Session, NEW op \in Operations, Begin(k, s, op)
      PROVE  SessionsEnd'
  BY <1>2 DEF Begin, Operations
<1>3. ASSUME NEW k \in Call, NEW s \in Session, NEW m \in minted, BeginApply(k, s, m)
      PROVE  SessionsEnd'
  BY <1>3 DEF BeginApply
<1>4. ASSUME NEW k \in Call, NEW s \in Session, Disconnect(k, s) PROVE SessionsEnd'
  BY <1>4 DEF Disconnect, Busy
<1>5. ASSUME NEW k \in Call, LockAndRead(k) PROVE SessionsEnd'
  BY <1>5 DEF LockAndRead
<1>6. ASSUME NEW k \in Call, CloseStale(k) PROVE SessionsEnd'
  BY <1>6 DEF CloseStale, RecordDiffers
<1>7. ASSUME NEW k \in Call, OpenOnServer(k) PROVE SessionsEnd'
  BY <1>7 DEF OpenOnServer
<1>8. ASSUME NEW k \in Call, Record(k) PROVE SessionsEnd'
  BY <1>8 DEF Record, AfterPrepare, Shape
<1>9. ASSUME NEW k \in Call, Ask(k) PROVE SessionsEnd'
  BY <1>9 DEF Ask, View
<1>10. ASSUME NEW k \in Call, Diagnose(k) PROVE SessionsEnd'
  BY <1>10 DEF Diagnose
<1>11. ASSUME NEW k \in Call, NotOpenAnyMore(k) PROVE SessionsEnd'
  BY <1>11 DEF NotOpenAnyMore
<1>12. ASSUME NEW k \in Call, Answered(k) PROVE SessionsEnd'
  BY <1>12 DEF Answered
<1>13. ASSUME NEW k \in Call, Release(k) PROVE SessionsEnd'
  BY <1>13 DEF Release
<1>14. ASSUME NEW k \in Call, CloseReleased(k) PROVE SessionsEnd'
  BY <1>14 DEF CloseReleased, Released
<1>15. ASSUME NEW k \in Call, DropSession(k) PROVE SessionsEnd'
  <2>1. /\ At(k, "drop") /\ \A j \in Call \ {k} : call'[j] = call[j]
        /\ \/ /\ call'[k].op = call[k].op /\ call'[k].who = call[k].who /\ UNCHANGED connected
           \/ /\ call'[k].pc = "idle"
              /\ \A s \in Session : s # call[k].who => connected'[s] = connected[s]
    BY <1>15 DEF DropSession
  <2>9. QED
    BY <2>1 DEF Shape
<1>16. ASSUME NEW k \in Call, HashBase(k) PROVE SessionsEnd'
  BY <1>16 DEF HashBase
<1>17. ASSUME NEW k \in Call, PutOverlay(k) PROVE SessionsEnd'
  BY <1>17 DEF PutOverlay
<1>18. ASSUME NEW k \in Call, LiveOverlay(k) PROVE SessionsEnd'
  BY <1>18 DEF LiveOverlay
<1>19. ASSUME NEW k \in Call, CompareBase(k) PROVE SessionsEnd'
  BY <1>19 DEF CompareBase, Stale
<1>20. ASSUME NEW k \in Call, PushText(k) PROVE SessionsEnd'
  BY <1>20 DEF PushText
<1>21. ASSUME NEW k \in Call, RestoreText(k) PROVE SessionsEnd'
  BY <1>21 DEF RestoreText, View
<1>22. ASSUME NEW k \in Call, ForgetDocument(k) PROVE SessionsEnd'
  BY <1>22 DEF ForgetDocument, Forget
<1>23. ASSUME NEW k \in Call, RememberPlan(k) PROVE SessionsEnd'
  BY <1>23 DEF RememberPlan, Token
<1>24. ASSUME NEW k \in Call, LookUp(k) PROVE SessionsEnd'
  <2>0. /\ At(k, "lookup") /\ UNCHANGED <<connected, overlays, docs>>
        /\ \A j \in Call \ {k} : call'[j] = call[j]
    BY <1>24, LookUpEffect DEF LookUp
  <2>1. CASE call'[k] = Idle
    BY <2>0, <2>1 DEF Idle
  <2>2. CASE call'[k] # Idle
    <3>1. PICK i \in DOMAIN plans :
            plans[i] \in Plan /\ call'[k] = [call[k] EXCEPT !.plan = plans[i], !.pc = "verify"]
      BY <1>24, <2>2, LookUpEffect
    <3>2. \A q \in Plan : /\ [call[k] EXCEPT !.plan = q, !.pc = "verify"].pc = "verify"
                          /\ [call[k] EXCEPT !.plan = q, !.pc = "verify"].op = call[k].op
                          /\ [call[k] EXCEPT !.plan = q, !.pc = "verify"].who = call[k].who
      BY DEF Locals
    <3>3. /\ call'[k].pc = "verify" /\ call'[k].op = call[k].op /\ call'[k].who = call[k].who
      BY <3>1, <3>2
    <3>4. QED
      BY <2>0, <3>3
  <2>3. QED
    BY <2>1, <2>2
<1>25. ASSUME NEW k \in Call, Verify(k) PROVE SessionsEnd'
  <2>1. /\ UNCHANGED connected /\ \A j \in Call \ {k} : call'[j] = call[j]
        /\ \/ call'[k].pc = "idle"
           \/ call'[k].op = call[k].op /\ call'[k].who = call[k].who /\ ~At(k, "idle")
    BY <1>25 DEF Verify
  <2>9. QED
    BY <2>1
<1>26. ASSUME NEW k \in Call, ReadForEdit(k) PROVE SessionsEnd'
  BY <1>26 DEF ReadForEdit
<1>27. ASSUME NEW k \in Call, WriteEdit(k) PROVE SessionsEnd'
  BY <1>27 DEF WriteEdit, FileBecomes, InvalidatePath, Stale
<1>28. ASSUME NEW k \in Call, ForgetWritten(k) PROVE SessionsEnd'
  BY <1>28 DEF ForgetWritten, Forget, InvalidatePath, Stale
<1>29. ASSUME NEW k \in Call, GiveUp(k) PROVE SessionsEnd'
  BY <1>29 DEF GiveUp
<1>30. ASSUME NEW k \in Call, OpenFails(k) PROVE SessionsEnd'
  BY <1>30 DEF OpenFails, Fails
<1>31. ASSUME NEW k \in Call, AnalysisUnsettled(k) PROVE SessionsEnd'
  BY <1>31 DEF AnalysisUnsettled, RecordDiffers, Fails
<1>32. ASSUME NEW k \in Call, NoServerToTell(k) PROVE SessionsEnd'
  BY <1>32 DEF NoServerToTell, Fails, Released
<1>33. ASSUME NEW m \in Saved, Save(m) PROVE SessionsEnd'
  BY <1>33 DEF Save, FileBecomes
<1>34. ASSUME Watch PROVE SessionsEnd'
  BY <1>34 DEF Watch, InvalidatePath, Stale
<1>35. ASSUME NEW s \in Session, ExpireOverlay(s) PROVE SessionsEnd'
  BY <1>35 DEF ExpireOverlay
<1>36. QED
  BY <1>1, <1>2, <1>3, <1>4, <1>5, <1>6, <1>7, <1>8, <1>9, <1>10, <1>11, <1>12, <1>13,
     <1>14, <1>15, <1>16, <1>17, <1>18, <1>19, <1>20, <1>21, <1>22, <1>23, <1>24, <1>25,
     <1>26, <1>27, <1>28, <1>29, <1>30, <1>31, <1>32, <1>33, <1>34, <1>35
     DEF WorkspaceNext, Arrive, Step, Trouble, Prepare, Respond, LetGo, Speculate, ApplyEdit

\* The cleanup finds the overlay gone after its first step, and when it is over
\* nothing of the session is left.
NothingLeft ==
  /\ \A k \in Call : call[k].pc \in {"release", "closing"} /\ call[k].op = "end" =>
       overlays[call[k].who] = None
  /\ NothingLeftOfSession

\* Every step keeps the claims and overlays of ended sessions away.
LEMMA LeftStep ==
  ASSUME TypeOK, LocksExclude, Shape, SessionsEnd, NothingLeft, [WorkspaceNext]_vars
  PROVE  NothingLeft'
<1> USE DEF NothingLeft, NothingLeftOfSession, Locals, At, Goto, Return, Idle, file_vars,
            server_vars, budget
<1>a. /\ call \in [Call -> Locals] /\ connected \in [Session -> {"yes", "ending", "no", "abandoned"}]
      /\ docs \in Document \cup {None} /\ overlays \in [Session -> Overlay]
  BY DEF TypeOK, Overlay
<1>b. \A j \in Call : call[j].pc \in {"release", "closing"} => call[j].who \in Session
  BY DEF Shape
<1> USE <1>a, <1>b
<1>1. ASSUME UNCHANGED vars PROVE NothingLeft'
  BY <1>1 DEF vars
<1>2. ASSUME NEW k \in Call, NEW s \in Session, NEW op \in Operations, Begin(k, s, op)
      PROVE  NothingLeft'
  BY <1>2 DEF Begin
<1>3. ASSUME NEW k \in Call, NEW s \in Session, NEW m \in minted, BeginApply(k, s, m)
      PROVE  NothingLeft'
  BY <1>3 DEF BeginApply
<1>4. ASSUME NEW k \in Call, NEW s \in Session, Disconnect(k, s) PROVE NothingLeft'
  BY <1>4 DEF Disconnect, Busy
<1>5. ASSUME NEW k \in Call, LockAndRead(k) PROVE NothingLeft'
  BY <1>5 DEF LockAndRead
<1>6. ASSUME NEW k \in Call, CloseStale(k) PROVE NothingLeft'
  BY <1>6 DEF CloseStale, RecordDiffers
<1>7. ASSUME NEW k \in Call, OpenOnServer(k) PROVE NothingLeft'
  BY <1>7 DEF OpenOnServer
<1>8. ASSUME NEW k \in Call, Record(k) PROVE NothingLeft'
  <2>1. /\ UNCHANGED <<connected, overlays>> /\ \A j \in Call \ {k} : call'[j] = call[j]
        /\ call'[k].pc \notin {"release", "closing"}
    BY <1>8 DEF Record, AfterPrepare, Shape
  <2>2. At(k, "record") /\ call[k].op # "end" /\ connected[call[k].who] = "yes"
    BY <1>8 DEF Record, Shape, SessionsEnd
  <2>3. docs' \in {Recorded(call[k].read), Claimed(Recorded(call[k].read), call[k].who)}
    BY <1>8 DEF Record
  <2>4. \A s \in Recorded(call[k].read).sessions : docs # None /\ s \in docs.sessions
    BY DEF Recorded, Document
  <2>5. Recorded(call[k].read) \in Document
    BY <2>2, Records DEF Shape
  <2>6. \A d \in Document : \A s \in Session : Claimed(d, s).sessions = d.sessions \cup {s}
    BY DEF Claimed, Document
  <2>7. \A s \in Session : docs' # None /\ s \in docs'.sessions =>
          (docs # None /\ s \in docs.sessions) \/ s = call[k].who
    BY <2>2, <2>3, <2>4, <2>5, <2>6 DEF Shape
  <2>8. QED
    BY <2>1, <2>2, <2>7
<1>9. ASSUME NEW k \in Call, Ask(k) PROVE NothingLeft'
  BY <1>9 DEF Ask, View
<1>10. ASSUME NEW k \in Call, Diagnose(k) PROVE NothingLeft'
  BY <1>10 DEF Diagnose
<1>11. ASSUME NEW k \in Call, NotOpenAnyMore(k) PROVE NothingLeft'
  BY <1>11 DEF NotOpenAnyMore
<1>12. ASSUME NEW k \in Call, Answered(k) PROVE NothingLeft'
  BY <1>12 DEF Answered
<1>13. ASSUME NEW k \in Call, Release(k) PROVE NothingLeft'
  <2>1. /\ UNCHANGED overlays /\ At(k, "release")
        /\ \A j \in Call \ {k} : call'[j] = call[j]
    BY <1>13 DEF Release
  <2>2. (call'[k].op = call[k].op /\ call'[k].who = call[k].who) \/ call'[k].pc = "idle"
    BY <1>13 DEF Release
  <2>3. \A s \in Session : connected'[s] = "no" =>
          connected[s] = "no" \/ (call[k].op = "end" /\ s = call[k].who)
    BY <1>13 DEF Release
  <2>4. docs' # None => docs # None /\ docs'.sessions = docs.sessions \ {call[k].who}
    BY <1>13 DEF Release, Document
  <2>5. (\A j \in Call : call[j].pc \in {"release", "closing"} /\ call[j].op = "end" =>
           overlays[call[j].who] = None)'
    <3>1. CASE call'[k].pc = "idle"
      BY <2>1, <3>1
    <3>2. CASE call'[k].op = call[k].op /\ call'[k].who = call[k].who
      <4>1. call[k].op = "end" => overlays[call[k].who] = None
        BY <2>1
      <4>2. QED
        BY <2>1, <3>2, <4>1
    <3>3. QED
      BY <2>2, <3>1, <3>2
  <2>6. NothingLeftOfSession'
    <3> TAKE s \in Session
    <3> SUFFICES ASSUME connected'[s] = "no"
                 PROVE  overlays[s] = None /\ (docs' # None => s \notin docs'.sessions)
      BY <2>1
    <3>1. CASE connected[s] = "no"
      BY <3>1, <2>4
    <3>2. CASE call[k].op = "end" /\ s = call[k].who
      BY <3>2, <2>1, <2>4
    <3>3. QED
      BY <2>3, <3>1, <3>2
  <2>7. QED
    BY <2>5, <2>6
<1>14. ASSUME NEW k \in Call, CloseReleased(k) PROVE NothingLeft'
  <2>1. /\ UNCHANGED <<overlays, docs>> /\ \A j \in Call \ {k} : call'[j] = call[j]
        /\ call'[k].pc = "idle" /\ At(k, "closing")
    BY <1>14 DEF CloseReleased, Released
  <2>2. \A s \in Session : connected'[s] = "no" =>
          connected[s] = "no" \/ (call[k].op = "end" /\ s = call[k].who)
    BY <1>14 DEF CloseReleased, Released
  <2>3. docs = None
    BY <2>1 DEF Shape
  <2>4. QED
    BY <2>1, <2>2, <2>3
<1>15. ASSUME NEW k \in Call, DropSession(k) PROVE NothingLeft'
  <2>1. /\ UNCHANGED docs /\ At(k, "drop") /\ \A j \in Call \ {k} : call'[j] = call[j]
    BY <1>15 DEF DropSession
  <2>2. \A s \in Session : overlays'[s] = IF s = call[k].who THEN None ELSE overlays[s]
    BY <1>15 DEF DropSession
  <2>3. \A s \in Session : connected'[s] = "no" =>
          \/ connected[s] = "no"
          \/ s = call[k].who /\ (docs # None => s \notin docs.sessions)
    BY <1>15 DEF DropSession
  <2>4. call'[k].pc = "idle" \/ (call'[k].who = call[k].who /\ call[k].who \in Session)
    BY <1>15 DEF DropSession, Shape
  <2>5. QED
    BY <2>1, <2>2, <2>3, <2>4
<1>16. ASSUME NEW k \in Call, HashBase(k) PROVE NothingLeft'
  BY <1>16 DEF HashBase
<1>17. ASSUME NEW k \in Call, PutOverlay(k) PROVE NothingLeft'
  <2>1. \A s \in Session : s # call[k].who => overlays'[s] = overlays[s]
    BY <1>17 DEF PutOverlay
  <2>2. /\ UNCHANGED <<connected, docs>> /\ \A j \in Call \ {k} : call'[j] = call[j]
        /\ call'[k].pc \notin {"release", "closing"}
    BY <1>17 DEF PutOverlay
  <2>3. ~At(k, "idle") /\ call[k].op # "end" /\ connected[call[k].who] = "yes"
    BY <1>17 DEF PutOverlay, Shape, SessionsEnd
  <2>4. \A j \in Call : call[j].pc \in {"release", "closing"} /\ call[j].op = "end" =>
          call[j].who # call[k].who
    BY <2>3 DEF SessionsEnd
  <2>5. QED
    BY <2>1, <2>2, <2>3, <2>4 DEF Shape
<1>18. ASSUME NEW k \in Call, LiveOverlay(k) PROVE NothingLeft'
  <2>1. \A s \in Session : overlays[s] = None => overlays'[s] = None
    BY <1>18, MarkedStay DEF LiveOverlay
  <2>2. /\ UNCHANGED <<connected, docs>> /\ \A j \in Call \ {k} : call'[j] = call[j]
        /\ call'[k].pc \notin {"release", "closing"}
    BY <1>18 DEF LiveOverlay
  <2>3. QED
    BY <2>1, <2>2
<1>19. ASSUME NEW k \in Call, CompareBase(k) PROVE NothingLeft'
  <2>1. \A s \in Session : overlays[s] = None => overlays'[s] = None
    BY <1>19, MarkedStay DEF CompareBase
  <2>2. /\ UNCHANGED <<connected, docs>> /\ \A j \in Call \ {k} : call'[j] = call[j]
        /\ call'[k].pc \notin {"release", "closing"}
    BY <1>19 DEF CompareBase
  <2>3. QED
    BY <2>1, <2>2
<1>20. ASSUME NEW k \in Call, PushText(k) PROVE NothingLeft'
  BY <1>20 DEF PushText
<1>21. ASSUME NEW k \in Call, RestoreText(k) PROVE NothingLeft'
  BY <1>21 DEF RestoreText, View
<1>22. ASSUME NEW k \in Call, ForgetDocument(k) PROVE NothingLeft'
  BY <1>22 DEF ForgetDocument, Forget
<1>23. ASSUME NEW k \in Call, RememberPlan(k) PROVE NothingLeft'
  BY <1>23 DEF RememberPlan, Token
<1>24. ASSUME NEW k \in Call, LookUp(k) PROVE NothingLeft'
  <2>0. /\ At(k, "lookup") /\ UNCHANGED <<connected, overlays, docs>>
        /\ \A j \in Call \ {k} : call'[j] = call[j]
    BY <1>24, LookUpEffect DEF LookUp
  <2>1. CASE call'[k] = Idle
    BY <2>0, <2>1 DEF Idle
  <2>2. CASE call'[k] # Idle
    <3>1. PICK i \in DOMAIN plans :
            plans[i] \in Plan /\ call'[k] = [call[k] EXCEPT !.plan = plans[i], !.pc = "verify"]
      BY <1>24, <2>2, LookUpEffect
    <3>2. \A q \in Plan : /\ [call[k] EXCEPT !.plan = q, !.pc = "verify"].pc = "verify"
                          /\ [call[k] EXCEPT !.plan = q, !.pc = "verify"].op = call[k].op
                          /\ [call[k] EXCEPT !.plan = q, !.pc = "verify"].who = call[k].who
      BY DEF Locals
    <3>3. /\ call'[k].pc = "verify" /\ call'[k].op = call[k].op /\ call'[k].who = call[k].who
      BY <3>1, <3>2
    <3>4. QED
      BY <2>0, <3>3
  <2>3. QED
    BY <2>1, <2>2
<1>25. ASSUME NEW k \in Call, Verify(k) PROVE NothingLeft'
  BY <1>25 DEF Verify, Token
<1>26. ASSUME NEW k \in Call, ReadForEdit(k) PROVE NothingLeft'
  BY <1>26 DEF ReadForEdit
<1>27. ASSUME NEW k \in Call, WriteEdit(k) PROVE NothingLeft'
  <2>1. \A s \in Session : overlays[s] = None => overlays'[s] = None
    BY <1>27, MarkedStay DEF WriteEdit, InvalidatePath
  <2>2. /\ UNCHANGED <<connected, docs>> /\ \A j \in Call \ {k} : call'[j] = call[j]
        /\ call'[k].pc \notin {"release", "closing"}
    BY <1>27 DEF WriteEdit
  <2>3. QED
    BY <2>1, <2>2
<1>28. ASSUME NEW k \in Call, ForgetWritten(k) PROVE NothingLeft'
  <2>1. \A s \in Session : overlays[s] = None => overlays'[s] = None
    BY <1>28, MarkedStay DEF ForgetWritten, InvalidatePath
  <2>2. /\ UNCHANGED connected /\ \A j \in Call \ {k} : call'[j] = call[j]
        /\ call'[k].pc = "idle"
    BY <1>28 DEF ForgetWritten
  <2>3. docs' # None => docs # None /\ docs'.sessions = docs.sessions
    BY <1>28 DEF ForgetWritten, Forget, Document
  <2>4. QED
    BY <2>1, <2>2, <2>3
<1>29. ASSUME NEW k \in Call, GiveUp(k) PROVE NothingLeft'
  BY <1>29 DEF GiveUp
<1>30. ASSUME NEW k \in Call, OpenFails(k) PROVE NothingLeft'
  BY <1>30 DEF OpenFails, Fails
<1>31. ASSUME NEW k \in Call, AnalysisUnsettled(k) PROVE NothingLeft'
  BY <1>31 DEF AnalysisUnsettled, RecordDiffers, Fails
<1>32. ASSUME NEW k \in Call, NoServerToTell(k) PROVE NothingLeft'
  <2>1. /\ UNCHANGED <<overlays, docs>> /\ \A j \in Call \ {k} : call'[j] = call[j]
        /\ call'[k].pc = "idle" /\ At(k, "closing")
    BY <1>32 DEF NoServerToTell, Released
  <2>2. \A s \in Session : connected'[s] = "no" =>
          connected[s] = "no" \/ (call[k].op = "end" /\ s = call[k].who)
    BY <1>32 DEF NoServerToTell, Released
  <2>3. docs = None
    BY <2>1 DEF Shape
  <2>4. QED
    BY <2>1, <2>2, <2>3
<1>33. ASSUME NEW m \in Saved, Save(m) PROVE NothingLeft'
  BY <1>33 DEF Save, FileBecomes
<1>34. ASSUME Watch PROVE NothingLeft'
  <2>1. \A s \in Session : overlays[s] = None => overlays'[s] = None
    BY <1>34, MarkedStay DEF Watch, InvalidatePath
  <2>2. QED
    BY <1>34, <2>1 DEF Watch
<1>35. ASSUME NEW s \in Session, ExpireOverlay(s) PROVE NothingLeft'
  BY <1>35 DEF ExpireOverlay
<1>36. QED
  BY <1>1, <1>2, <1>3, <1>4, <1>5, <1>6, <1>7, <1>8, <1>9, <1>10, <1>11, <1>12, <1>13,
     <1>14, <1>15, <1>16, <1>17, <1>18, <1>19, <1>20, <1>21, <1>22, <1>23, <1>24, <1>25,
     <1>26, <1>27, <1>28, <1>29, <1>30, <1>31, <1>32, <1>33, <1>34, <1>35
     DEF WorkspaceNext, Arrive, Step, Trouble, Prepare, Respond, LetGo, Speculate, ApplyEdit

-----------------------------------------------------------------------------
\* The inductive invariant, and its parts that hold of the first state.
IInv ==
  /\ WorkspaceInv /\ Shape /\ NothingEmpty /\ RecordKept /\ OwnAnswers /\ ReadsSeen
  /\ ServerSeen /\ PlansTrue /\ SessionsEnd /\ NothingLeft

\* In the first state every call is idle, so most of it holds of no call.
LEMMA InitInv ==
  ASSUME WorkspaceInit
  PROVE  IInv
<1>1. /\ call = [k \in Call |-> Idle] /\ \A k \in Call : call[k] = Idle /\ At(k, "idle")
      /\ Idle.op = None /\ Idle.who = None /\ Idle.got = None /\ Idle.pc = "idle"
  BY DEF WorkspaceInit, Idle, At
<1>2. PICK m \in Saved : disk = <<m>>
  BY DEF WorkspaceInit
<1>3. disk \in Text /\ disk # Forgotten
  BY <1>2, Texts
<1>4. Idle \in Locals
  BY Points DEF Idle, Locals
<1>5. TypeOK
  <2>1. call \in [Call -> Locals]
    BY <1>1, <1>4
  <2>2. plans \in Seq(Plan) /\ server \in [open : BOOLEAN, text : Text]
    BY Texts DEF WorkspaceInit
  <2>3. /\ since \in [Call -> SUBSET Text] /\ minted \subseteq Tokens
        /\ overlays \in [Session -> [base : Text, stale : BOOLEAN] \cup {None}]
        /\ connected \in [Session -> {"yes", "ending", "no", "abandoned"}]
    BY DEF WorkspaceInit
  <2>4. calls \in 0..MaxCalls /\ saves \in 0..MaxSaves
    BY DEF WorkspaceInit
  <2>5. /\ event \in BOOLEAN /\ speculator = None /\ docs = None /\ holder = None
        /\ failed = {}
    BY DEF WorkspaceInit
  <2>6. QED
    BY <1>3, <2>1, <2>2, <2>3, <2>4, <2>5 DEF TypeOK
<1>6. LocksExclude
  BY <1>1 DEF WorkspaceInit, LocksExclude, Locked, At
<1>7. PlansAreBounded
  BY DEF WorkspaceInit, PlansAreBounded
<1>8. Shape /\ NothingEmpty /\ OwnAnswers /\ ReadsSeen /\ SessionsEnd
  BY <1>1, <1>3 DEF Shape, NothingEmpty, OwnAnswers, ReadsSeen, SessionsEnd, At
<1>9. RecordKept
  BY <1>1 DEF RecordKept, RecordFits, WorkspaceInit, At
<1>10. ServerSeen /\ PlansTrue
  BY <1>1 DEF ServerSeen, PlansTrue, WorkspaceInit, At
<1>11. NothingLeft
  BY <1>1 DEF NothingLeft, NothingLeftOfSession, WorkspaceInit, At
<1>12. QED
  BY <1>5, <1>6, <1>7, <1>8, <1>9, <1>10, <1>11 DEF IInv, WorkspaceInv

\* Every step keeps it.
LEMMA NextInv ==
  ASSUME IInv, [WorkspaceNext]_vars
  PROVE  IInv'
<1>1. /\ TypeOK /\ LocksExclude /\ PlansAreBounded /\ Shape /\ NothingEmpty /\ RecordKept
      /\ OwnAnswers /\ ReadsSeen /\ ServerSeen /\ PlansTrue /\ SessionsEnd /\ NothingLeft
  BY DEF IInv, WorkspaceInv
<1>2. TypeOK'
  BY <1>1, TypeStep
<1>3. Shape' /\ LocksExclude' /\ PlansAreBounded'
  BY <1>1, ShapeStep, LocksStep, PlansStep
<1>4. NothingEmpty' /\ RecordKept'
  BY <1>1, EmptyStep, RecordStep
<1>5. OwnAnswers' /\ ReadsSeen' /\ ServerSeen'
  BY <1>1, OwnStep, ReadsStep, ServerStep
<1>6. PlansTrue'
  BY <1>1, PlannedStep
<1>7. SessionsEnd' /\ NothingLeft'
  BY <1>1, EndedStep, LeftStep
<1>8. QED
  BY <1>2, <1>3, <1>4, <1>5, <1>6, <1>7 DEF IInv, WorkspaceInv

\* It holds in every state of every behaviour.
THEOREM Invariant == WorkspaceSpec => []IInv
<1>1. WorkspaceInit => IInv
  BY InitInv
<1>2. IInv /\ [WorkspaceNext]_vars => IInv'
  BY NextInv
<1>3. QED
  BY <1>1, <1>2, PTL DEF WorkspaceSpec

\* Types, one holder of each lock, no more plans than the bound and one for each
\* token (lockDoc, WithText, rememberPlan).
THEOREM TypesAndLocks == WorkspaceSpec => []WorkspaceInv
<1>1. IInv => WorkspaceInv
  BY DEF IInv
<1>2. QED
  BY <1>1, Invariant, PTL

\* Whoever takes lockDoc finds the record true of the server, for any number of
\* requests and sessions (ensureDocumentLocked, releaseDocument, forgetDocument).
THEOREM RecordIsAlwaysTrue == WorkspaceSpec => []RecordIsTrue
<1>1. IInv => RecordIsTrue
  BY DEF IInv, RecordKept, RecordFits, RecordIsTrue
<1>2. QED
  BY <1>1, Invariant, PTL

\* get_diagnostics answers about a text the file had during the request, or about
\* the session's own text on such a base (Workspace.Diagnostics).
THEOREM DiagnosticsAreAlwaysCurrent == WorkspaceSpec => []DiagnosticsAreCurrent
<1>1. IInv => DiagnosticsAreCurrent
  <2>1. ASSUME IInv, failed \subseteq {"open"}, NEW k \in Call PROVE DiagnosticsOf(k)
    <3>1. OwnAnswers /\ ReadsSeen /\ ServerSeen
      BY <2>1 DEF IInv
    <3>2. At(k, "answered") /\ call[k].op = "live" => call[k].got \in since[k]
      BY <2>1, <3>1 DEF ServerSeen
    <3>3. At(k, "answered") /\ call[k].op = "overlaid" =>
            call[k].got = Speculative(call[k].who) /\ call[k].base \in since[k]
      BY <3>1 DEF OwnAnswers, ReadsSeen, At
    <3>4. QED
      BY <3>2, <3>3 DEF DiagnosticsOf
  <2>2. QED
    BY <2>1 DEF DiagnosticsAreCurrent, AlwaysCurrent
<1>2. QED
  BY <1>1, Invariant, PTL

\* A session whose cleanup ran to its end has no claim and no overlay (EndSession).
THEOREM NothingIsLeftOfSession == WorkspaceSpec => []NothingLeftOfSession
<1>1. IInv => NothingLeftOfSession
  BY DEF IInv, NothingLeft
<1>2. QED
  BY <1>1, Invariant, PTL

\* apply_edit writes a plan only over a text that the file had during the request, after one
\* that the token names; and that is the text an undisturbed plan was computed for (Rename,
\* planFor, ApplyEdit, applyFileEdits).
THEOREM EditAlwaysFitsFile == WorkspaceSpec => EditFitsFile
<1> DEFINE Fits == \A k \in Call : WriteEdit(k) =>
       /\ {call[k].token.hash, call[k].read} \subseteq since[k]
       /\ call[k].plan.clean /\ failed \subseteq {"open"} =>
            call[k].token.hash = call[k].plan.of
<1>1. IInv => Fits
  <2> SUFFICES ASSUME IInv, NEW k \in Call, WriteEdit(k)
               PROVE  /\ {call[k].token.hash, call[k].read} \subseteq since[k]
                      /\ call[k].plan.clean /\ failed \subseteq {"open"} =>
                           call[k].token.hash = call[k].plan.of
    OBVIOUS
  <2>1. At(k, "write") /\ PlansTrue
    BY DEF IInv, WriteEdit
  <2>2. call[k].token.hash \in since[k] /\ call[k].read \in since[k]
    BY <2>1 DEF PlansTrue, At
  <2>3. call[k].plan.clean /\ failed \subseteq {"open"} =>
          Token(call[k].plan.of) = call[k].token
    BY <2>1 DEF PlansTrue, At
  <2>4. Token(call[k].plan.of).hash = call[k].plan.of
    BY DEF Token
  <2>5. QED
    BY <2>2, <2>3, <2>4
<1>2. IInv /\ [WorkspaceNext]_vars => [Fits]_vars
  BY <1>1
<1>3. QED
  BY <1>2, Invariant, PTL DEF EditFitsFile, WorkspaceSpec
-----------------------------------------------------------------------------
(* The order of the locks, and the refinement of Documents.                 *)

\* Whoever waits for a lock takes no step by itself.
LEMMA WaitersStand ==
  ASSUME NEW k \in Call, Step(k)
  PROVE  ~Waits(k)
<1> USE DEF Waits, WaitsForDocument, WaitsForServer, ServerFree, At
<1>1. CASE Prepare(k) \/ Respond(k)
  BY <1>1 DEF Prepare, LockAndRead, CloseStale, OpenOnServer, Record, Respond, Ask, Diagnose,
              NotOpenAnyMore, Answered
<1>2. CASE LetGo(k) \/ Speculate(k)
  BY <1>2 DEF LetGo, Release, CloseReleased, DropSession, Speculate, HashBase, PutOverlay, LiveOverlay,
              CompareBase, PushText, RestoreText, ForgetDocument
<1>3. CASE ApplyEdit(k)
  BY <1>3 DEF ApplyEdit, RememberPlan, LookUp, Verify, ReadForEdit, WriteEdit, ForgetWritten
<1>4. QED
  BY <1>1, <1>2, <1>3 DEF Step

\* Requests never wait in a circle, for any number of them: lockDoc is taken before the
\* server's path lock, and never while the path lock is held (lockDoc of workspace.go,
\* WithText of lsp/server.go, forgetDocument of query.go).
THEOREM LocksAreAlwaysOrdered ==
  WorkspaceSpec => []LocksAreOrdered /\ [][\A k \in Call : Waits(k) => ~Step(k)]_vars
<1>1. WorkspaceInv => LocksAreOrdered
  <2> SUFFICES ASSUME WorkspaceInv PROVE LocksAreOrdered
    OBVIOUS
  <2> USE DEF Waits, WaitsForDocument, WaitsForServer, ServerFree
  <2>1. /\ holder # None => holder \in Call /\ Locked(holder)
        /\ speculator # None => speculator \in Call /\ At(speculator, "restore")
    BY DEF WorkspaceInv, TypeOK, LocksExclude
  <2>2. \A k \in Call : WaitsForDocument(k) => holder # k /\ ~WaitsForDocument(holder)
    BY <2>1 DEF Locked
  <2>3. \A k \in Call : WaitsForServer(k) => speculator # k /\ ~Waits(speculator)
    BY <2>1 DEF At
  <2>4. ASSUME NEW k \in Call, ~At(k, "idle") PROVE \E j \in Call : ~At(j, "idle") /\ ~Waits(j)
    <3>1. CASE speculator # None
      BY <2>1, <3>1 DEF At
    <3>2. CASE speculator = None /\ holder # None
      BY <2>1, <3>2 DEF At, Locked
    <3>3. CASE speculator = None /\ holder = None
      BY <2>4, <3>3
    <3>4. QED
      BY <3>1, <3>2, <3>3
  <2>5. QED
    BY <2>2, <2>3, <2>4 DEF LocksAreOrdered
<1>2. \A k \in Call : Waits(k) => ~Step(k)
  BY WaitersStand
<1>3. QED
  BY <1>1, <1>2, TypesAndLocks, PTL

\* What the requests see of the document of the file.
SeenText == IF server.open THEN server.text ELSE None
Seen == [p \in {"file"} |-> SeenText]

\* The language server of this module is one that DocumentSync promises: what requests and
\* sessions see of it is a document that is opened with a text and closed, and nothing else.
THEOREM ServerIsImplemented == WorkspaceSpec => ImplementsDocuments
<1>1. WorkspaceInit => Served!Init
  BY DEF WorkspaceInit, Served!Init
<1>2. IInv /\ [WorkspaceNext]_vars => [Served!Next]_Seen
  <2> SUFFICES ASSUME IInv, [WorkspaceNext]_vars PROVE Served!Next \/ UNCHANGED Seen
    OBVIOUS
  <2> USE DEF server_vars, Seen, SeenText
  <2>1. server \in [open : BOOLEAN, text : Text] /\ Shape
    BY DEF IInv, WorkspaceInv, TypeOK
  <2>2. ASSUME UNCHANGED server PROVE UNCHANGED Seen
    BY <2>2
  <2>3. ASSUME server' = [server EXCEPT !.open = FALSE] PROVE Served!Next \/ UNCHANGED Seen
    <3>1. CASE server.open
      <4>1. Seen["file"] # None /\ Seen' = [Seen EXCEPT !["file"] = None]
        BY <2>1, <2>3, <3>1, NoneIsNoText
      <4>2. QED
        BY <4>1 DEF Served!Next, Served!Close
    <3>2. CASE ~server.open
      BY <2>1, <2>3, <3>2
    <3>3. QED
      BY <2>1, <3>1, <3>2
  <2>4. ASSUME NEW k \in Call, OpenOnServer(k) PROVE Served!Next \/ UNCHANGED Seen
    <3>1. call[k].read \in Text
      BY <2>1, <2>4 DEF OpenOnServer, Shape, At
    <3>2. CASE server.open
      BY <2>4, <3>2 DEF OpenOnServer
    <3>3. CASE ~server.open
      <4>1. Seen["file"] = None /\ Seen'["file"] = call[k].read
            /\ Seen' = [Seen EXCEPT !["file"] = call[k].read]
        BY <2>4, <3>3 DEF OpenOnServer
      <4>2. QED
        BY <3>1, <4>1 DEF Served!Next, Served!Open
    <3>4. QED
      BY <3>2, <3>3
  <2>5. ASSUME NEW k \in Call, Prepare(k) \/ Respond(k) PROVE Served!Next \/ UNCHANGED Seen
    <3>1. CASE CloseStale(k)
      BY <2>2, <2>3, <3>1 DEF CloseStale
    <3>2. CASE LockAndRead(k) \/ Record(k) \/ Respond(k)
      BY <2>2, <3>2 DEF LockAndRead, Record, Respond, Ask, Diagnose, NotOpenAnyMore, Answered
    <3>3. QED
      BY <2>4, <2>5, <3>1, <3>2 DEF Prepare
  <2>6. ASSUME NEW k \in Call, LetGo(k) PROVE Served!Next \/ UNCHANGED Seen
    <3>1. CASE CloseReleased(k)
      BY <2>3, <3>1 DEF CloseReleased
    <3>2. CASE Release(k) \/ DropSession(k)
      BY <2>2, <3>2 DEF Release, DropSession
    <3>3. QED
      BY <2>6, <3>1, <3>2 DEF LetGo
  <2>7. ASSUME NEW k \in Call, Speculate(k) \/ ApplyEdit(k) PROVE UNCHANGED Seen
    BY <2>2, <2>7 DEF Speculate, HashBase, PutOverlay, LiveOverlay, CompareBase, PushText, RestoreText,
                      ForgetDocument, ApplyEdit, RememberPlan, LookUp, Verify, ReadForEdit, WriteEdit,
                      ForgetWritten
  <2>8. ASSUME NEW k \in Call, Arrive(k) \/ Trouble(k) PROVE UNCHANGED Seen
    BY <2>2, <2>8 DEF Arrive, Begin, Disconnect, BeginApply, Trouble, GiveUp, OpenFails, AnalysisUnsettled,
                      NoServerToTell
  <2>9. CASE Watch \/ (\E m \in Saved : Save(m)) \/ (\E s \in Session : ExpireOverlay(s)) \/ UNCHANGED vars
    BY <2>2, <2>9 DEF Watch, Save, ExpireOverlay, vars
  <2>10. QED
    BY <2>5, <2>6, <2>7, <2>8, <2>9 DEF WorkspaceNext, Step
<1>3. QED
  BY <1>1, <1>2, Invariant, PTL DEF WorkspaceSpec, Served!Spec, ImplementsDocuments, Seen, SeenText
=============================================================================
