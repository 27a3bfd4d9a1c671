--------------------------- MODULE IndexingProofs ---------------------------
(***************************************************************************)
(* Proofs about Indexing, for any number of files, texts, changes, faults  *)
(* and retries.                                                            *)
(***************************************************************************)
EXTENDS Indexing, FiniteSetTheorems, SequenceTheorems, TLAPS

USE FileWatcherAssumption, IndexingAssumption DEF FileWatcherAssumption, IndexingAssumption

(* The inductive strengthening of IndexingInv.                              *)

\* Jobs are staged only while the workspace is opened, the worker has a job where it needs
\* one, and it knows what it has read.
Staging ==
  /\ open.jobs # <<>> => open.at \in {"stage", "queue"}
  /\ InHand => worker.job \in Jobs
  /\ worker.at \in {"serve", "ask", "verify", "commit"} => worker.text \in Text

IInv == IndexingTypeOK /\ PendingHasJob /\ ReadyInv /\ Staging
-----------------------------------------------------------------------------
(* Sequences of jobs, and the jobs of a file.                               *)

\* What is in a sequence.
Items(s) == {s[i] : i \in DOMAIN s}

\* What Append and \o put into a sequence, and what Tail leaves.
LEMMA ItemsOfSeq ==
  ASSUME NEW S, NEW s \in Seq(S), NEW t \in Seq(S), NEW e \in S
  PROVE  /\ Items(<<>>) = {} /\ Items(s) \subseteq S
         /\ Append(s, e) \in Seq(S) /\ Append(s, e) # <<>> /\ Items(Append(s, e)) = Items(s) \cup {e}
         /\ s \o t \in Seq(S) /\ Items(s \o t) = Items(s) \cup Items(t)
         /\ s \o t # <<>> => s # <<>> \/ t # <<>>
         /\ s # <<>> => Head(s) \in Items(s) /\ Tail(s) \in Seq(S) /\ Items(s) = {Head(s)} \cup Items(Tail(s))
<1>1. Items(<<>>) = {} /\ Items(s) \subseteq S
  BY DEF Items
<1>2. Append(s, e) \in Seq(S) /\ Append(s, e) # <<>> /\ Items(Append(s, e)) = Items(s) \cup {e}
  <2> DEFINE a == Append(s, e)
  <2>1. /\ a \in Seq(S) /\ Len(a) = Len(s) + 1 /\ a # <<>>
        /\ \A i \in 1..Len(s) : a[i] = s[i]
        /\ a[Len(s) + 1] = e
    BY AppendProperties
  <2>2. Len(s) \in Nat /\ DOMAIN s = 1..Len(s) /\ DOMAIN a = 1..(Len(s) + 1)
    BY <2>1
  <2> HIDE DEF a
  <2>3. ASSUME NEW x \in Items(a)
        PROVE  x \in Items(s) \cup {e}
    BY <2>1, <2>2 DEF Items
  <2>4. ASSUME NEW x \in Items(s) \cup {e}
        PROVE  x \in Items(a)
    BY <2>1, <2>2 DEF Items
  <2> QED
    BY <2>1, <2>3, <2>4 DEF a
<1>3. s \o t \in Seq(S) /\ Items(s \o t) = Items(s) \cup Items(t)
  <2> DEFINE c == s \o t
  <2>1. /\ c \in Seq(S) /\ Len(c) = Len(s) + Len(t)
        /\ \A i \in 1..(Len(s) + Len(t)) : c[i] = IF i <= Len(s) THEN s[i] ELSE t[i - Len(s)]
    BY ConcatProperties
  <2>2. /\ Len(s) \in Nat /\ Len(t) \in Nat
        /\ DOMAIN s = 1..Len(s) /\ DOMAIN t = 1..Len(t) /\ DOMAIN c = 1..(Len(s) + Len(t))
    BY <2>1
  <2> HIDE DEF c
  <2>3. ASSUME NEW x \in Items(c)
        PROVE  x \in Items(s) \cup Items(t)
    <3>1. PICK i \in 1..(Len(s) + Len(t)) : x = c[i]
      BY <2>2 DEF Items
    <3>2. CASE i <= Len(s)
      BY <3>1, <3>2, <2>1, <2>2 DEF Items
    <3>3. CASE ~(i <= Len(s))
      <4>1. x = t[i - Len(s)] /\ i - Len(s) \in 1..Len(t)
        BY <3>1, <3>3, <2>1, <2>2
      <4> QED
        BY <4>1, <2>2 DEF Items
    <3> QED
      BY <3>2, <3>3
  <2>4. ASSUME NEW x \in Items(s)
        PROVE  x \in Items(c)
    BY <2>1, <2>2 DEF Items
  <2>5. ASSUME NEW x \in Items(t)
        PROVE  x \in Items(c)
    <3>1. PICK i \in 1..Len(t) : x = t[i]
      BY <2>2 DEF Items
    <3>2. x = c[i + Len(s)] /\ i + Len(s) \in DOMAIN c
      BY <3>1, <2>1, <2>2
    <3> QED
      BY <3>2 DEF Items
  <2> QED
    BY <2>1, <2>3, <2>4, <2>5 DEF c
<1>4. s \o t # <<>> => s # <<>> \/ t # <<>>
  BY ConcatEqualIffEmpty
<1>5. ASSUME s # <<>>
      PROVE  Head(s) \in Items(s) /\ Tail(s) \in Seq(S) /\ Items(s) = {Head(s)} \cup Items(Tail(s))
  <2>1. Tail(s) \in Seq(S) /\ Len(Tail(s)) = Len(s) - 1 /\ \A i \in 1..Len(Tail(s)) : Tail(s)[i] = s[i + 1]
    BY <1>5, HeadTailProperties
  <2>2. Len(s) \in Nat \ {0} /\ DOMAIN s = 1..Len(s) /\ DOMAIN Tail(s) = 1..(Len(s) - 1) /\ Head(s) = s[1]
    BY <1>5, <2>1
  <2>3. ASSUME NEW x \in Items(s)
        PROVE  x \in {Head(s)} \cup Items(Tail(s))
    <3>1. PICK i \in 1..Len(s) : x = s[i]
      BY <2>2 DEF Items
    <3>2. CASE i = 1
      BY <3>1, <3>2, <2>2
    <3>3. CASE i # 1
      <4>1. i - 1 \in 1..(Len(s) - 1) /\ x = Tail(s)[i - 1]
        BY <3>1, <3>3, <2>1, <2>2
      <4> QED
        BY <4>1, <2>2 DEF Items
    <3> QED
      BY <3>2, <3>3
  <2>4. Head(s) \in Items(s)
    BY <2>2 DEF Items
  <2>5. ASSUME NEW x \in Items(Tail(s))
        PROVE  x \in Items(s)
    <3>1. PICK i \in 1..(Len(s) - 1) : x = Tail(s)[i]
      BY <2>2 DEF Items
    <3>2. x = s[i + 1] /\ i + 1 \in DOMAIN s
      BY <3>1, <2>1, <2>2
    <3> QED
      BY <3>2 DEF Items
  <2> QED
    BY <2>1, <2>3, <2>4, <2>5
<1> QED
  BY <1>1, <1>2, <1>3, <1>4, <1>5

\* A sequence has finitely many items, and a finite set has finitely many images.
LEMMA ItemsFinite ==
  ASSUME NEW S, NEW s \in Seq(S)
  PROVE  IsFiniteSet(Items(s))
<1>1. Len(s) \in Nat /\ DOMAIN s = 1..Len(s)
  OBVIOUS
<1>2. IsFiniteSet(DOMAIN s)
  BY <1>1, FS_Interval
<1>3. s \in Surjection(DOMAIN s, Items(s))
  BY <1>1 DEF Items, Surjection
<1> QED
  BY <1>2, <1>3, FS_Surjection DEF ExistsSurjection

LEMMA JobsOfFinite ==
  ASSUME IInv, NEW p \in Path
  PROVE  IsFiniteSet(JobsOf(p)) /\ JobsOf(p) \subseteq Jobs
<1> DEFINE hand == IF InHand THEN {worker.job} ELSE {}
           all == Items(queue) \cup Items(open.jobs) \cup hand
<1>1. queue \in Seq(Jobs) /\ open.jobs \in Seq(Jobs) /\ hand \subseteq Jobs /\ IsFiniteSet(hand)
  <2>1. queue \in Seq(Jobs) /\ open.jobs \in Seq(Jobs) /\ (InHand => worker.job \in Jobs)
    BY DEF IInv, IndexingTypeOK, Staging
  <2>2. IsFiniteSet({}) /\ IsFiniteSet({worker.job})
    BY FS_EmptySet, FS_Singleton
  <2> QED
    BY <2>1, <2>2
<1> HIDE DEF hand
<1>2. /\ IsFiniteSet(Items(queue)) /\ Items(queue) \subseteq Jobs
      /\ IsFiniteSet(Items(open.jobs)) /\ Items(open.jobs) \subseteq Jobs
  BY <1>1, ItemsFinite DEF Items
<1>3. IsFiniteSet(Items(queue) \cup Items(open.jobs))
  BY <1>2, FS_Union
<1>4. IsFiniteSet(all) /\ all \subseteq Jobs
  BY <1>1, <1>2, <1>3, FS_Union
<1>5. JobsOf(p) = {j \in all : j.path = p}
  BY DEF JobsOf, Items, hand
<1> HIDE DEF all
<1> QED
  BY <1>4, <1>5, FS_Subset

\* A new generation is another than that of the pending job, and of every job there is.
LEMMA NewGeneration ==
  ASSUME IInv, NEW p \in Path
  PROVE  NextGeneration(p) \in Nat \ {0} /\ NextGeneration(p) # pending[p]
<1> DEFINE gens == {j.generation : j \in JobsOf(p)}
           taken == {pending[p]} \cup gens
           n == Cardinality(taken) + 1
<1>1. IsFiniteSet(JobsOf(p))
  BY JobsOfFinite
<1>2. IsFiniteSet(gens)
  <2> DEFINE f == [j \in JobsOf(p) |-> j.generation]
  <2>1. f \in Surjection(JobsOf(p), gens)
    BY DEF Surjection
  <2> QED
    BY <1>1, <2>1, FS_Surjection DEF ExistsSurjection
<1> HIDE DEF gens
<1>3. IsFiniteSet(taken)
  BY <1>2, FS_AddElement
<1>4. Cardinality(taken) \in Nat
  BY <1>3, FS_CardinalityType
<1>5. Cardinality(1..n) = n /\ n \in Nat \ {0}
  BY <1>4, FS_Interval
<1>6. ~(1..n \subseteq taken)
  <2> SUFFICES ASSUME 1..n \subseteq taken PROVE FALSE
    OBVIOUS
  <2>1. Cardinality(1..n) <= Cardinality(taken)
    BY <1>3, FS_Subset
  <2> QED
    BY <2>1, <1>4, <1>5
<1>7. \E g \in 1..n : g \notin taken
  BY <1>6
<1>8. NextGeneration(p) = CHOOSE g \in 1..n : g \notin taken
  BY DEF NextGeneration, gens
<1>9. NextGeneration(p) \in 1..n /\ NextGeneration(p) \notin taken
  BY <1>7, <1>8
<1> QED
  BY <1>9, <1>5

-----------------------------------------------------------------------------
(* The transactions of the store: what they leave is a store, and which rows it has.       *)

Sets == UNION {{Incomplete}, SUBSET (Path \X Text)}
Marks == Text \cup {Blank, NoRow}

WithRow(d, r) == [d EXCEPT !.row = r]
WithRefs(d, s) == [d EXCEPT !.refs = s]
WithMoved(d, m) == [d EXCEPT !.moved = m]

LEMMA StoreParts ==
  ASSUME NEW d \in Store
  PROVE  d.row \in [Path -> Marks] /\ d.refs \in [Path -> Sets] /\ d.moved \in BOOLEAN
  BY DEF Store, Sets, Marks

LEMMA RowField ==
  ASSUME NEW d \in Store, NEW r \in [Path -> Marks]
  PROVE  /\ WithRow(d, r) \in Store /\ WithRow(d, r).row = r
         /\ WithRow(d, r).refs = d.refs /\ WithRow(d, r).moved = d.moved
<1> DEFINE S == [Path -> Sets]
           R == [Path -> Marks]
<1>1. Store = [row : R, refs : S, moved : BOOLEAN] /\ r \in R
  BY DEF Store, Sets, Marks
<1> HIDE DEF R, S
<1> QED
  BY <1>1 DEF WithRow

LEMMA RefsField ==
  ASSUME NEW d \in Store, NEW s \in [Path -> Sets]
  PROVE  /\ WithRefs(d, s) \in Store /\ WithRefs(d, s).row = d.row
         /\ WithRefs(d, s).refs = s /\ WithRefs(d, s).moved = d.moved
<1> DEFINE S == [Path -> Sets]
           R == [Path -> Marks]
<1>1. Store = [row : R, refs : S, moved : BOOLEAN] /\ s \in S
  BY DEF Store, Sets, Marks
<1> HIDE DEF R, S
<1> QED
  BY <1>1 DEF WithRefs

LEMMA MovedField ==
  ASSUME NEW d \in Store, NEW m \in BOOLEAN
  PROVE  /\ WithMoved(d, m) \in Store /\ WithMoved(d, m).row = d.row
         /\ WithMoved(d, m).refs = d.refs /\ WithMoved(d, m).moved = m
<1> DEFINE S == [Path -> Sets]
           R == [Path -> Marks]
<1>1. Store = [row : R, refs : S, moved : BOOLEAN]
  BY DEF Store, Sets, Marks
<1> HIDE DEF R, S
<1> QED
  BY <1>1 DEF WithMoved

LEMMA NoSets == [p \in Path |-> Incomplete] \in [Path -> Sets]
  BY DEF Sets

LEMMA EmptyStoreType ==
  EmptyStore \in Store /\ \A p \in Path : EmptyStore.row[p] = NoRow
<1>1. [p \in Path |-> NoRow] \in [Path -> Marks] /\ [p \in Path |-> Incomplete] \in [Path -> Sets]
  BY NoSets DEF Marks
<1>2. EmptyStore \in [row : [Path -> Marks], refs : [Path -> Sets], moved : BOOLEAN]
  BY <1>1 DEF EmptyStore
<1> QED
  BY <1>2 DEF EmptyStore, Store, Sets, Marks

LEMMA InvalidateType ==
  ASSUME NEW d \in Store
  PROVE  Invalidate(d) \in Store /\ Invalidate(d).row = d.row
<1> DEFINE e == WithMoved(d, TRUE)
           s == [p \in Path |-> Incomplete]
<1>1. Invalidate(d) = WithRefs(e, s)
  BY DEF Invalidate, WithMoved, WithRefs
<1>2. s \in [Path -> Sets] /\ d.row \in [Path -> Marks]
  BY NoSets, StoreParts
<1> HIDE DEF s
<1>3. e \in Store /\ e.row = d.row
  BY <1>2, MovedField
<1> HIDE DEF e
<1>4. WithRefs(e, s) \in Store /\ WithRefs(e, s).row = d.row
  BY <1>2, <1>3, RefsField
<1> QED
  BY <1>1, <1>4

LEMMA RowChanged ==
  ASSUME NEW d \in Store, NEW p \in Path, NEW m \in Marks
  PROVE  [d EXCEPT !.row[p] = m] \in Store /\ [d EXCEPT !.row[p] = m].row = [d.row EXCEPT ![p] = m]
<1> DEFINE r == [d.row EXCEPT ![p] = m]
<1>1. r \in [Path -> Marks] /\ d.refs \in [Path -> Sets]
  BY StoreParts
<1>2. [d EXCEPT !.row[p] = m] = WithRow(d, r)
  BY DEF WithRow
<1> HIDE DEF r
<1>3. WithRow(d, r) \in Store /\ WithRow(d, r).row = r
  BY <1>1, RowField
<1> QED
  BY <1>2, <1>3 DEF r

LEMMA InvalidateFileType ==
  ASSUME NEW d \in Store, NEW p \in Path
  PROVE  /\ InvalidateFile(d, p) \in Store
         /\ InvalidateFile(d, p).row = [d.row EXCEPT ![p] = IF @ = NoRow THEN NoRow ELSE Blank]
<1> DEFINE m == IF d.row[p] = NoRow THEN NoRow ELSE Blank
           e == Invalidate(d)
<1>1. m \in Marks /\ e \in Store /\ e.row = d.row
  BY InvalidateType DEF Marks
<1>2. InvalidateFile(d, p) = [e EXCEPT !.row[p] = m]
  BY <1>1 DEF InvalidateFile
<1> HIDE DEF e
<1>3. InvalidateFile(d, p) \in Store /\ InvalidateFile(d, p).row = [e.row EXCEPT ![p] = m]
  BY <1>1, <1>2, RowChanged
<1> QED
  BY <1>1, <1>3

LEMMA DeleteFileType ==
  ASSUME NEW d \in Store, NEW p \in Path
  PROVE  DeleteFile(d, p) \in Store /\ DeleteFile(d, p).row = [d.row EXCEPT ![p] = NoRow]
<1> DEFINE e == Invalidate(d)
<1>1. e \in Store /\ e.row = d.row /\ NoRow \in Marks
  BY InvalidateType DEF Marks
<1>2. DeleteFile(d, p) = [e EXCEPT !.row[p] = NoRow]
  BY DEF DeleteFile
<1> HIDE DEF e
<1> QED
  BY <1>1, <1>2, RowChanged

LEMMA AbandonFileType ==
  ASSUME NEW d \in Store, NEW p \in Path
  PROVE  AbandonFile(d, p) \in Store /\ AbandonFile(d, p).row = [d.row EXCEPT ![p] = NoRow]
<1> DEFINE s == [q \in Path |->
                   IF q = p \/ d.refs[q] = Incomplete \/ \E t \in Text : <<p, t>> \in d.refs[q]
                   THEN Incomplete ELSE d.refs[q]]
           r == [d.row EXCEPT ![p] = NoRow]
           e == WithRow(d, r)
<1>1. AbandonFile(d, p) = WithRefs(e, s)
  BY DEF AbandonFile, WithRefs, WithRow
<1>2. s \in [Path -> Sets] /\ r \in [Path -> Marks]
  BY StoreParts DEF Sets, Marks
<1> HIDE DEF s, r
<1>3. e \in Store /\ e.row = r
  BY <1>2, RowField
<1> HIDE DEF e
<1>4. WithRefs(e, s) \in Store /\ WithRefs(e, s).row = r
  BY <1>2, <1>3, RefsField
<1> QED
  BY <1>1, <1>4 DEF r

LEMMA PutFileType ==
  ASSUME NEW d \in Store, NEW p \in Path, NEW t \in Text
  PROVE  PutFile(d, p, t) \in Store /\ PutFile(d, p, t).row = [d.row EXCEPT ![p] = t]
<1>1. t \in Marks
  BY DEF Marks
<1> QED
  BY <1>1, RowChanged DEF PutFile

LEMMA GenerationType ==
  ASSUME NEW d \in Store
  PROVE  ReferenceGeneration(d) \in Store /\ ReferenceGeneration(d).row = d.row
<1>1. d.row \in [Path -> Marks] /\ d.refs \in [Path -> Sets]
  BY StoreParts
<1>2. ReferenceGeneration(d) = WithMoved(d, FALSE)
  BY DEF ReferenceGeneration, WithMoved
<1>3. WithMoved(d, FALSE) \in Store /\ WithMoved(d, FALSE).row = d.row
  BY <1>1, MovedField
<1> QED
  BY <1>2, <1>3

LEMMA ReferencesType ==
  ASSUME NEW d \in Store, NEW p \in Path, NEW l \in Sets
  PROVE  ReplaceReferences(d, p, l) \in Store /\ ReplaceReferences(d, p, l).row = d.row
<1> DEFINE s == [d.refs EXCEPT ![p] = l]
<1>1. s \in [Path -> Sets] /\ d.row \in [Path -> Marks]
  BY StoreParts
<1>2. [d EXCEPT !.refs[p] = l] = WithRefs(d, s)
  BY DEF WithRefs
<1> HIDE DEF s
<1>3. WithRefs(d, s) \in Store /\ WithRefs(d, s).row = d.row
  BY <1>1, RefsField
<1>4. ReplaceReferences(d, p, l) \in {d, WithRefs(d, s)}
  BY <1>2 DEF ReplaceReferences
<1> QED
  BY <1>3, <1>4

LEMMA ReconcileType ==
  ASSUME NEW d \in Store, NEW paths \in SUBSET Path
  PROVE  /\ ReconcileWorkspace(d, paths) \in Store
         /\ ReconcileWorkspace(d, paths).row = [p \in Path |-> IF p \in paths THEN d.row[p] ELSE NoRow]
<1> DEFINE e == IF Rows(d) \subseteq paths THEN d ELSE Invalidate(d)
           r == [p \in Path |-> IF p \in paths THEN e.row[p] ELSE NoRow]
           s == [p \in Path |-> IF e.refs[p] = Incomplete \/ p \notin paths THEN Incomplete
                                ELSE e.refs[p] \cap (paths \X Text)]
           f == WithRow(e, r)
<1>1. e \in Store /\ e.row = d.row
  BY InvalidateType
<1>2. e.row \in [Path -> Marks] /\ e.refs \in [Path -> Sets]
  BY <1>1, StoreParts
<1>3. ReconcileWorkspace(d, paths) = WithRefs(f, s)
  BY <1>2 DEF ReconcileWorkspace, WithRow, WithRefs
<1> HIDE DEF e
<1>4. r \in [Path -> Marks]
  BY <1>2 DEF Marks
<1>5. s \in [Path -> Sets]
  BY <1>2 DEF Sets
<1>6. r = [p \in Path |-> IF p \in paths THEN d.row[p] ELSE NoRow]
  BY <1>1
<1> HIDE DEF r, s
<1>7. f \in Store /\ f.row = r
  BY <1>1, <1>4, <1>5, RowField
<1> HIDE DEF f
<1>8. WithRefs(f, s) \in Store /\ WithRefs(f, s).row = r
  BY <1>4, <1>5, <1>7, RefsField
<1> QED
  BY <1>3, <1>6, <1>8

LEMMA NamespaceType ==
  ASSUME NEW d \in Store
  PROVE  /\ ChangeNamespace(d) \in Store
         /\ ChangeNamespace(d).row = [p \in Path |-> IF d.row[p] = NoRow THEN NoRow ELSE Blank]
<1> DEFINE e == Invalidate(d)
           r == [p \in Path |-> IF e.row[p] = NoRow THEN NoRow ELSE Blank]
<1>1. e \in Store /\ e.row = d.row
  BY InvalidateType
<1>2. e.row \in [Path -> Marks] /\ e.refs \in [Path -> Sets]
  BY <1>1, StoreParts
<1>3. ChangeNamespace(d) = WithRow(e, r)
  BY <1>2 DEF ChangeNamespace, WithRow
<1>4. r \in [Path -> Marks] /\ r = [p \in Path |-> IF d.row[p] = NoRow THEN NoRow ELSE Blank]
  BY <1>1 DEF Marks
<1> HIDE DEF e, r
<1>5. WithRow(e, r) \in Store /\ WithRow(e, r).row = r
  BY <1>1, <1>2, <1>4, RowField
<1> QED
  BY <1>3, <1>4, <1>5

-----------------------------------------------------------------------------
(* Jobs and pending files.                                                  *)

\* PendingHasJob, said of the sequences that hold the jobs.
AllJobs == Items(queue) \cup Items(open.jobs) \cup (IF InHand THEN {worker.job} ELSE {})
HasJobs == \A p \in Path : Pending(p) => p \in known /\ Job(p, pending[p]) \in AllJobs
Awake == queue # <<>> => wake \/ worker.at # "wait"

LEMMA JobsAre ==
  /\ PendingHasJob <=> HasJobs /\ Awake
  /\ PendingHasJob' <=> HasJobs' /\ Awake'
<1>1. \A p \in Path : \A g : Job(p, g) \in JobsOf(p) <=> Job(p, g) \in AllJobs
  BY DEF JobsOf, AllJobs, Items, Job
<1>2. \A p \in Path : \A g : (Job(p, g) \in JobsOf(p) <=> Job(p, g) \in AllJobs)'
  BY DEF JobsOf, AllJobs, Items, Job
<1> QED
  BY <1>1, <1>2 DEF PendingHasJob, HasJobs, Awake

\* The types of what most steps change together, and what they make of a file.
CoreOK ==
  /\ db \in Store /\ known \subseteq Path /\ skipped \subseteq Path
  /\ pending \in [Path -> Nat] /\ indexState \in {"idle", "indexing", "ready", "failed"}

LEMMA CoreTypes == IInv => CoreOK /\ scanComplete \in BOOLEAN /\ indexFatal \in BOOLEAN
  BY DEF IInv, IndexingTypeOK, CoreOK

LEMMA Refreshed ==
  ASSUME pending' \in [Path -> Nat], scanComplete \in BOOLEAN, indexFatal \in BOOLEAN,
         UNCHANGED <<scanComplete, indexFatal>>, Refresh
  PROVE  indexState' \in {"ready", "failed", "indexing"} /\ ReadyInv'
  BY DEF Refresh, IndexState, ReadyInv, Pending

LEMMA DeletePathEffect ==
  ASSUME IInv, NEW p \in Path, DeletePath(p), UNCHANGED <<scanComplete, indexFatal>>
  PROVE  /\ CoreOK' /\ ReadyInv'
         /\ db'.row = [db.row EXCEPT ![p] = NoRow] /\ known' = known \ {p}
         /\ pending' = [pending EXCEPT ![p] = 0] /\ skipped' = skipped \ {p}
<1>1. db' \in Store /\ db'.row = [db.row EXCEPT ![p] = NoRow]
  BY CoreTypes, DeleteFileType DEF DeletePath, CoreOK
<1>2. known' = known \ {p} /\ pending' = [pending EXCEPT ![p] = 0] /\ skipped' = skipped \ {p} /\ Refresh
  BY DEF DeletePath, Forget
<1>3. known' \subseteq Path /\ skipped' \subseteq Path /\ pending' \in [Path -> Nat]
  BY <1>2, CoreTypes DEF CoreOK
<1>4. indexState' \in {"ready", "failed", "indexing"} /\ ReadyInv'
  BY <1>2, <1>3, CoreTypes, Refreshed
<1> QED
  BY <1>1, <1>2, <1>3, <1>4 DEF CoreOK

LEMMA SoftSkipEffect ==
  ASSUME IInv, NEW p \in Path, SoftSkip(p), UNCHANGED <<scanComplete, indexFatal>>
  PROVE  /\ CoreOK' /\ ReadyInv'
         /\ db'.row \in {db.row, [db.row EXCEPT ![p] = NoRow]} /\ known' = known \ {p}
         /\ pending' = [pending EXCEPT ![p] = 0] /\ skipped' = skipped \cup {p}
<1>1. db' \in Store /\ db'.row \in {db.row, [db.row EXCEPT ![p] = NoRow]}
  BY CoreTypes, AbandonFileType DEF SoftSkip, CoreOK
<1>2. known' = known \ {p} /\ pending' = [pending EXCEPT ![p] = 0] /\ skipped' = skipped \cup {p} /\ Refresh
  BY DEF SoftSkip
<1>3. known' \subseteq Path /\ skipped' \subseteq Path /\ pending' \in [Path -> Nat]
  BY <1>2, CoreTypes DEF CoreOK
<1>4. indexState' \in {"ready", "failed", "indexing"} /\ ReadyInv'
  BY <1>2, <1>3, CoreTypes, Refreshed
<1> QED
  BY <1>1, <1>2, <1>3, <1>4 DEF CoreOK

LEMMA RescheduleEffect ==
  ASSUME IInv, NEW p \in Path, Reschedule(p), UNCHANGED <<scanComplete, indexFatal>>
  PROVE  /\ CoreOK' /\ ReadyInv' /\ indexState' # "ready"
         /\ db'.row = [db.row EXCEPT ![p] = IF @ = NoRow THEN NoRow ELSE Blank]
         /\ known' = known \cup {p} /\ skipped' = skipped \ {p}
         /\ pending' = [pending EXCEPT ![p] = NextGeneration(p)]
         /\ Job(p, NextGeneration(p)) \in Jobs
<1>1. db' \in Store /\ db'.row = [db.row EXCEPT ![p] = IF @ = NoRow THEN NoRow ELSE Blank]
  BY CoreTypes, InvalidateFileType DEF Reschedule, CoreOK
<1>2. known' = known \cup {p} /\ pending' = [pending EXCEPT ![p] = NextGeneration(p)] /\ skipped' = skipped \ {p}
  BY DEF Reschedule
<1>3. NextGeneration(p) \in Nat \ {0}
  BY NewGeneration
<1>4. known' \subseteq Path /\ skipped' \subseteq Path /\ pending' \in [Path -> Nat]
  BY <1>2, <1>3, CoreTypes DEF CoreOK
<1>5. indexState' # "ready" /\ indexState' \in {"idle", "failed", "indexing"}
  BY CoreTypes DEF Reschedule, IInv, ReadyInv, CoreOK
<1>6. ReadyInv'
  BY <1>5 DEF ReadyInv
<1> QED
  BY <1>1, <1>2, <1>3, <1>4, <1>5, <1>6 DEF CoreOK, Job, Jobs

\* When a file is forgotten no other loses its job.
LEMMA ForgottenJobs ==
  ASSUME IInv, NEW p \in Path, pending' = [pending EXCEPT ![p] = 0], known' = known \ {p},
         \A q \in Path \ {p} : Pending(q) /\ Job(q, pending[q]) \in AllJobs =>
           Job(q, pending[q]) \in AllJobs'
  PROVE  HasJobs'
<1>1. HasJobs /\ pending \in [Path -> Nat]
  BY JobsAre DEF IInv, IndexingTypeOK
<1> QED
  BY <1>1 DEF HasJobs, Pending

\* When a file is rescheduled it has its new job.
LEMMA RescheduledJobs ==
  ASSUME IInv, NEW p \in Path, NEW g \in Nat, pending' = [pending EXCEPT ![p] = g],
         known \subseteq known', p \in known', Job(p, g) \in AllJobs',
         \A q \in Path \ {p} : Pending(q) /\ Job(q, pending[q]) \in AllJobs =>
           Job(q, pending[q]) \in AllJobs'
  PROVE  HasJobs'
<1>1. HasJobs /\ pending \in [Path -> Nat]
  BY JobsAre DEF IInv, IndexingTypeOK
<1> QED
  BY <1>1 DEF HasJobs, Pending

\* And when the jobs stay and what is pending does.
LEMMA KeptJobs ==
  ASSUME IInv, UNCHANGED pending, known \subseteq known', AllJobs \subseteq AllJobs'
  PROVE  HasJobs'
<1>1. HasJobs /\ pending \in [Path -> Nat]
  BY JobsAre DEF IInv, IndexingTypeOK
<1> QED
  BY <1>1 DEF HasJobs, Pending

-----------------------------------------------------------------------------
(* The types of what the actors hold.                                       *)

OpenOK == open \in [at : Stations.opener, paths : SUBSET Path, todo : SUBSET Path,
                    rebuild : BOOLEAN, jobs : Seq(Jobs)]
WorkerOK == worker \in [at : Stations.worker, job : Jobs \cup {None}, text : Text \cup {None},
                        found : Sets, missed : SUBSET Path, tries : 0..MaxRetries]
QueueOK == queue \in Seq(Jobs) /\ wake \in BOOLEAN
RestOK ==
  /\ scanComplete \in BOOLEAN /\ indexFatal \in BOOLEAN
  /\ batch \in Batches \cup {None} /\ heal \in [wake : BOOLEAN, todo : SUBSET Path]
  /\ owed \in [Actor -> Path \cup {None}] /\ held \in [Path -> Text \cup {None}]
  /\ blind \in [Path -> SUBSET Path] /\ lost \in [Path -> SUBSET Path]

LEMMA TypeParts ==
  /\ IndexingTypeOK <=> WatcherTypeOK /\ CoreOK /\ OpenOK /\ WorkerOK /\ QueueOK /\ RestOK
  /\ IndexingTypeOK' <=> WatcherTypeOK' /\ CoreOK' /\ OpenOK' /\ WorkerOK' /\ QueueOK' /\ RestOK'
  BY DEF IndexingTypeOK, CoreOK, OpenOK, WorkerOK, QueueOK, RestOK, Sets

\* The invariant in the parts that are proved one by one.
LEMMA Parts ==
  /\ IInv => /\ WatcherTypeOK /\ CoreOK /\ OpenOK /\ WorkerOK /\ QueueOK /\ RestOK
             /\ HasJobs /\ Awake /\ ReadyInv /\ Staging
  /\ /\ WatcherTypeOK' /\ CoreOK' /\ OpenOK' /\ WorkerOK' /\ QueueOK' /\ RestOK'
     /\ HasJobs' /\ Awake' /\ ReadyInv' /\ Staging'
     => IInv'
  BY TypeParts, JobsAre DEF IInv

\* A file is put on the queue: what the consumer, a query and the healer do.
LEMMA InvalidateAndQueueEffect ==
  ASSUME IInv, NEW p \in Path, NEW admit \in BOOLEAN, InvalidateAndQueue(p, admit),
         UNCHANGED <<scanComplete, indexFatal, open, worker>>
  PROVE  CoreOK' /\ QueueOK' /\ HasJobs' /\ Awake' /\ ReadyInv'
<1> USE DEF coreVars, queueVars
<1>1. CoreOK /\ QueueOK /\ HasJobs /\ Awake /\ ReadyInv /\ OpenOK /\ WorkerOK
  BY Parts
<1>2. CASE p \notin known /\ ~admit
  <2>1. UNCHANGED <<db, known, pending, skipped, indexState, queue, wake>>
    BY <1>2 DEF InvalidateAndQueue
  <2> QED
    BY <1>1, <2>1 DEF CoreOK, QueueOK, HasJobs, Awake, ReadyInv, AllJobs, Pending, InHand
<1>3. CASE ~(p \notin known /\ ~admit) /\ disk[p] = Missing
  <2>1. DeletePath(p) /\ UNCHANGED <<queue, wake>>
    BY <1>3 DEF InvalidateAndQueue
  <2>2. CoreOK' /\ ReadyInv' /\ known' = known \ {p} /\ pending' = [pending EXCEPT ![p] = 0]
    BY <2>1, DeletePathEffect
  <2>3. AllJobs' = AllJobs
    BY <2>1 DEF AllJobs, InHand
  <2>4. HasJobs'
    BY <2>2, <2>3, ForgottenJobs
  <2> QED
    BY <1>1, <2>1, <2>2, <2>4 DEF QueueOK, Awake
<1>4. CASE ~(p \notin known /\ ~admit) /\ disk[p] # Missing
  <2> DEFINE j == Job(p, NextGeneration(p))
  <2>1. Reschedule(p) /\ queue' = Append(queue, j) /\ wake' = TRUE
    BY <1>4 DEF InvalidateAndQueue, QueueJob
  <2>2. /\ CoreOK' /\ ReadyInv' /\ known' = known \cup {p} /\ j \in Jobs
        /\ pending' = [pending EXCEPT ![p] = NextGeneration(p)]
    BY <2>1, RescheduleEffect
  <2>3. /\ Append(queue, j) \in Seq(Jobs) /\ Items(Append(queue, j)) = Items(queue) \cup {j}
    BY <1>1, <2>2, ItemsOfSeq DEF QueueOK, OpenOK
  <2>4. AllJobs' = AllJobs \cup {j}
    BY <2>1, <2>3 DEF AllJobs, InHand
  <2>5. NextGeneration(p) \in Nat
    BY NewGeneration
  <2>6. HasJobs'
    BY <2>2, <2>4, <2>5, RescheduledJobs
  <2> QED
    BY <2>1, <2>2, <2>3, <2>6 DEF QueueOK, Awake
<1> QED
  BY <1>2, <1>3, <1>4

LEMMA ReadFreshCacheEffect ==
  ASSUME IInv, NEW p \in Path, ReadFreshCache(p), UNCHANGED <<scanComplete, indexFatal, open, worker>>
  PROVE  CoreOK' /\ QueueOK' /\ HasJobs' /\ Awake' /\ ReadyInv'
<1> USE DEF coreVars, queueVars
<1>1. CoreOK /\ QueueOK /\ HasJobs /\ Awake /\ ReadyInv
  BY Parts
<1>2. CASE disk[p] = Missing
  <2>1. DeletePath(p) /\ UNCHANGED <<queue, wake>>
    BY <1>2 DEF ReadFreshCache
  <2>2. CoreOK' /\ ReadyInv' /\ known' = known \ {p} /\ pending' = [pending EXCEPT ![p] = 0]
    BY <2>1, DeletePathEffect
  <2>3. AllJobs' = AllJobs
    BY <2>1 DEF AllJobs, InHand
  <2>4. HasJobs'
    BY <2>2, <2>3, ForgottenJobs
  <2> QED
    BY <1>1, <2>1, <2>2, <2>4 DEF QueueOK, Awake
<1>3. CASE disk[p] # Missing /\ (Pending(p) \/ db.row[p] = disk[p])
  <2>1. UNCHANGED <<db, known, pending, skipped, indexState, queue, wake>>
    BY <1>3 DEF ReadFreshCache
  <2> QED
    BY <1>1, <2>1 DEF CoreOK, QueueOK, HasJobs, Awake, ReadyInv, AllJobs, Pending, InHand
<1>4. CASE disk[p] # Missing /\ ~(Pending(p) \/ db.row[p] = disk[p])
  <2>1. InvalidateAndQueue(p, FALSE)
    BY <1>4 DEF ReadFreshCache
  <2> QED
    BY <2>1, InvalidateAndQueueEffect
<1> QED
  BY <1>2, <1>3, <1>4

-----------------------------------------------------------------------------
(* The types of the watcher.                                                *)

Bounded == changes \in 0..MaxChanges /\ faults \in 0..MaxFaults
DiskOK == disk \in [Path -> Text \cup {Missing}] /\ dir \in {"absent", "present", "watched"}
RunOK ==
  /\ watch \in {"off", "running", "failed"} /\ raw \in Seq(Events)
  /\ listed \cup changed \cup deleted \subseteq Path /\ timer \in BOOLEAN
  /\ scan \in [files : SUBSET Path, dir : BOOLEAN] \cup {None}
SentOK ==
  batches \in Seq(Batches) /\ \A i \in DOMAIN batches : batches[i].changed \cap batches[i].deleted = {}

LEMMA WatcherParts ==
  /\ WatcherTypeOK <=> DiskOK /\ Bounded /\ RunOK /\ SentOK
  /\ WatcherTypeOK' <=> DiskOK' /\ Bounded' /\ RunOK' /\ SentOK'
  BY DEF WatcherTypeOK, DiskOK, Bounded, RunOK, SentOK

LEMMA Counted ==
  ASSUME Bounded, Change \/ Fault \/ UNCHANGED bounds
  PROVE  Bounded'
  BY DEF Bounded, Change, Fault, bounds

LEMMA Notified ==
  ASSUME RunOK, NEW op, NEW p, [op |-> op, path |-> p] \in Events, Notify(op, p)
  PROVE  raw' \in Seq(Events)
<1>1. raw \in Seq(Events)
  BY DEF RunOK
<1>2. raw' = raw \/ raw' = Append(raw, [op |-> op, path |-> p])
  BY DEF Notify
<1> QED
  BY <1>1, <1>2

LEMMA DiskTypes ==
  ASSUME WatcherTypeOK, DiskStep
  PROVE  WatcherTypeOK'
<1>1. DiskOK /\ Bounded /\ RunOK /\ SentOK
  BY WatcherParts
<1>2. ASSUME NEW p \in Path, DiskRemoves(p)
      PROVE  DiskOK' /\ Bounded' /\ RunOK' /\ SentOK'
  <2>1. Bounded'
    BY <1>1, <1>2, Counted DEF DiskRemoves
  <2>2. [op |-> "remove", path |-> p] \in Events /\ Notify("remove", p)
    BY <1>2 DEF DiskRemoves, Events
  <2>3. raw' \in Seq(Events)
    BY <1>1, <2>2, Notified
  <2> QED
    BY <1>1, <1>2, <2>1, <2>3 DEF DiskRemoves, DiskOK, RunOK, SentOK
<1>3. ASSUME NEW p \in Path, NEW t \in Text, DiskWrites(p, t)
      PROVE  DiskOK' /\ Bounded' /\ RunOK' /\ SentOK'
  <2>1. Bounded'
    BY <1>1, <1>3, Counted DEF DiskWrites
  <2>2. PICK op \in {"create", "write"} : Notify(op, p)
    BY <1>3 DEF DiskWrites
  <2>3. [op |-> op, path |-> p] \in Events
    BY DEF Events
  <2>4. raw' \in Seq(Events)
    BY <1>1, <2>2, <2>3, Notified
  <2> QED
    BY <1>1, <1>3, <2>1, <2>4 DEF DiskWrites, DiskOK, RunOK, SentOK
<1>4. ASSUME MakeDirectory
      PROVE  DiskOK' /\ Bounded' /\ RunOK' /\ SentOK'
  <2>1. Bounded'
    BY <1>1, <1>4, Counted DEF MakeDirectory
  <2>2. [op |-> "mkdir", path |-> None] \in Events /\ Notify("mkdir", None)
    BY <1>4 DEF MakeDirectory, Events
  <2>3. raw' \in Seq(Events)
    BY <1>1, <2>2, Notified
  <2> QED
    BY <1>1, <1>4, <2>1, <2>3 DEF MakeDirectory, DiskOK, RunOK, SentOK
<1> QED
  BY <1>2, <1>3, <1>4, WatcherParts DEF DiskStep

\* What one event does to the sets.
LEMMA Consumed ==
  ASSUME RunOK, Consume
  PROVE  LET e == Head(raw)
             gone == {e.path} \cap listed
         IN /\ raw # <<>> /\ e \in Events /\ raw' = Tail(raw) /\ raw' \in Seq(Events)
            /\ \/ e.op = "mkdir" /\ timer' = TRUE /\ UNCHANGED <<listed, changed, deleted>>
               \/ /\ e.op = "remove" /\ e.path \in Path /\ timer' = TRUE
                  /\ listed' = listed \ gone /\ changed' = changed \ gone /\ deleted' = deleted \cup gone
               \/ /\ e.op \in {"create", "write"} /\ e.path \in Path /\ disk[e.path] # Missing
                  /\ changed' = changed \cup {e.path} /\ deleted' = deleted \ {e.path}
                  /\ timer' = TRUE /\ UNCHANGED listed
               \/ /\ e.op \in {"create", "write"} /\ e.path \in Path /\ disk[e.path] = Missing
                  /\ timer' \in BOOLEAN /\ UNCHANGED <<listed, changed, deleted>>
<1> DEFINE e == Head(raw)
           gone == {e.path} \cap listed
<1>1. raw # <<>> /\ raw \in Seq(Events) /\ raw' = Tail(raw)
  BY DEF Consume, RunOK
<1>2. e \in Events /\ raw' \in Seq(Events)
  BY <1>1
<1>3. e.op \in {"create", "write", "remove", "mkdir"} /\ (e.op # "mkdir" => e.path \in Path)
  BY <1>2 DEF Events
<1> HIDE DEF e
<1>4. CASE e.op = "mkdir"
  BY <1>1, <1>2, <1>4 DEF Consume, e
<1>5. CASE e.op = "remove"
  BY <1>1, <1>2, <1>3, <1>5 DEF Consume, e
<1>6. CASE e.op \in {"create", "write"} /\ disk[e.path] # Missing
  BY <1>1, <1>2, <1>3, <1>6 DEF Consume, e
<1>7. CASE e.op \in {"create", "write"} /\ disk[e.path] = Missing
  <2>1. timer' = (timer \/ e.op = "create") /\ UNCHANGED <<listed, changed, deleted>>
    BY <1>7 DEF Consume, e
  <2>2. timer' \in BOOLEAN
    BY <2>1
  <2> QED
    BY <1>1, <1>2, <1>3, <1>7, <2>1, <2>2 DEF e
<1> QED
  BY <1>3, <1>4, <1>5, <1>6, <1>7 DEF e

LEMMA ConsumeTypes ==
  ASSUME WatcherTypeOK, Consume
  PROVE  WatcherTypeOK'
<1>1. DiskOK /\ Bounded /\ RunOK /\ SentOK
  BY WatcherParts
<1>2. DiskOK' /\ Bounded' /\ SentOK'
  BY <1>1 DEF Consume, DiskOK, Bounded, SentOK, diskVars, bounds
<1>3. watch' = watch /\ scan' = scan
  BY DEF Consume
<1>4. RunOK'
  BY <1>1, <1>3, Consumed DEF RunOK
<1> QED
  BY <1>2, <1>4, WatcherParts

\* A batch is made of files that were listed or are, and no file is in it twice.
LEMMA BatchIs ==
  ASSUME RunOK, NEW files \in SUBSET Path
  PROVE  /\ RefreshScope(files) \in Batches
         /\ RefreshScope(files).changed \cap RefreshScope(files).deleted = {}
  BY DEF RefreshScope, RunOK, Batches

LEMMA FlushTypes ==
  ASSUME WatcherTypeOK, Flush
  PROVE  WatcherTypeOK'
<1>1. DiskOK /\ Bounded /\ RunOK /\ SentOK
  BY WatcherParts
<1>2. scan.files \in SUBSET Path /\ scan.dir \in BOOLEAN
  BY <1>1 DEF Flush, RunOK
<1>3. DiskOK' /\ Bounded' /\ RunOK'
  BY <1>1, <1>2 DEF Flush, DiskOK, Bounded, RunOK, bounds
<1> DEFINE b == RefreshScope(scan.files)
<1>4. b \in Batches /\ b.changed \cap b.deleted = {} /\ batches' \in {batches, Append(batches, b)}
  BY <1>1, <1>2, BatchIs DEF Flush
<1> HIDE DEF b
<1>5. SentOK'
  BY <1>1, <1>4 DEF SentOK
<1> QED
  BY <1>3, <1>5, WatcherParts

LEMMA WatcherTypes ==
  ASSUME WatcherTypeOK, DiskStep \/ WatcherStep \/ WatchFails
  PROVE  WatcherTypeOK'
<1>1. DiskOK /\ Bounded /\ RunOK /\ SentOK
  BY WatcherParts
<1>2. ASSUME Scan
      PROVE  WatcherTypeOK'
  <2>1. scan' \in [files : SUBSET Path, dir : BOOLEAN]
    BY <1>2 DEF Scan, Existing
  <2>2. DiskOK' /\ Bounded' /\ RunOK' /\ SentOK'
    BY <1>1, <1>2, <2>1 DEF Scan, DiskOK, Bounded, RunOK, SentOK, diskVars, bounds
  <2> QED
    BY <2>2, WatcherParts
<1>3. ASSUME WatchFails
      PROVE  WatcherTypeOK'
  <2>1. Bounded'
    BY <1>1, <1>3, Counted DEF WatchFails
  <2>2. DiskOK' /\ SentOK'
    BY <1>1, <1>3 DEF WatchFails, DiskOK, SentOK, diskVars
  <2>3. <<>> \in Seq(Events)
    OBVIOUS
  <2>4. RunOK'
    BY <1>3, <2>3 DEF WatchFails, Drop, RunOK
  <2> QED
    BY <2>1, <2>2, <2>4, WatcherParts
<1> QED
  BY <1>2, <1>3, DiskTypes, ConsumeTypes, FlushTypes DEF WatcherStep

\* The disk and the watcher rest while the others go on.
LEMMA WatcherRests ==
  ASSUME WatcherTypeOK, UNCHANGED <<diskVars, watchVars>>, Change \/ Fault \/ UNCHANGED bounds
  PROVE  WatcherTypeOK'
<1>1. DiskOK /\ Bounded /\ RunOK /\ SentOK
  BY WatcherParts
<1>2. Bounded'
  BY <1>1, Counted
<1>3. DiskOK' /\ RunOK' /\ SentOK'
  BY <1>1 DEF DiskOK, RunOK, SentOK, diskVars, watchVars
<1> QED
  BY <1>2, <1>3, WatcherParts

-----------------------------------------------------------------------------
(* Every step keeps the invariant.                                          *)

LEMMA Initial == IndexingInit => IInv
<1> SUFFICES ASSUME IndexingInit PROVE IInv
  OBVIOUS
<1>1. <<>> \in Seq(Events) /\ <<>> \in Seq(Batches) /\ <<>> \in Seq(Jobs)
  OBVIOUS
<1>2. WatcherTypeOK
  <2>1. DiskOK /\ Bounded
    BY DEF IndexingInit, WatcherInit, DiskOK, Bounded
  <2>2. RunOK
    BY <1>1 DEF IndexingInit, WatcherInit, RunOK
  <2>3. SentOK
    BY <1>1 DEF IndexingInit, WatcherInit, SentOK
  <2> QED
    BY <2>1, <2>2, <2>3, WatcherParts
<1>3. CoreOK
  BY EmptyStoreType DEF IndexingInit, CoreOK
<1>4. OpenOK /\ open = Closed /\ QueueOK
  BY <1>1 DEF IndexingInit, Closed, OpenOK, QueueOK, Stations
<1>5. WorkerOK /\ worker = Resting
  BY DEF IndexingInit, Resting, WorkerOK, Stations, Sets
<1>6. RestOK
  BY DEF IndexingInit, RestOK, Actor
<1>7. HasJobs /\ Awake /\ ReadyInv
  BY DEF IndexingInit, HasJobs, Awake, ReadyInv, Pending
<1>8. Staging
  BY <1>4, <1>5 DEF Staging, Closed, Resting, InHand
<1>9. IndexingTypeOK
  BY <1>2, <1>3, <1>4, <1>5, <1>6, TypeParts
<1> QED
  BY <1>7, <1>8, <1>9, JobsAre DEF IInv

\* Nothing but the watcher and the disk.
LEMMA OutsideStep ==
  ASSUME IInv, DiskStep \/ WatcherStep \/ WatchFails, Outside
  PROVE  IInv'
<1> USE DEF Outside, coreVars, queueVars, otherVars, history
<1>1. WatcherTypeOK'
  BY Parts, WatcherTypes
<1>2. CoreOK' /\ OpenOK' /\ WorkerOK' /\ QueueOK' /\ RestOK'
  BY Parts DEF CoreOK, OpenOK, WorkerOK, QueueOK, RestOK
<1>3. HasJobs' /\ Awake' /\ ReadyInv' /\ Staging'
  BY Parts DEF HasJobs, Awake, ReadyInv, Staging, AllJobs, Pending, InHand
<1> QED
  BY <1>1, <1>2, <1>3, Parts

LEMMA Stutter ==
  ASSUME IInv, UNCHANGED indexingVars
  PROVE  IInv'
<1> USE DEF indexingVars, coreVars, queueVars, otherVars, history
<1>1. WatcherTypeOK'
  BY Parts, WatcherRests
<1>2. CoreOK' /\ OpenOK' /\ WorkerOK' /\ QueueOK' /\ RestOK'
  BY Parts DEF CoreOK, OpenOK, WorkerOK, QueueOK, RestOK
<1>3. HasJobs' /\ Awake' /\ ReadyInv' /\ Staging'
  BY Parts DEF HasJobs, Awake, ReadyInv, Staging, AllJobs, Pending, InHand
<1> QED
  BY <1>1, <1>2, <1>3, Parts

\* The steps of the opener that do not touch the records of the files, except the store's.
LEMMA OpenerLists ==
  ASSUME IInv, OpenWorkspace \/ List \/ AddKnown \/ Reconcile
  PROVE  IInv'
<1> USE DEF OpenerRests, coreVars, queueVars, history
<1>1. ASSUME OpenWorkspace
      PROVE  IInv'
  <2>1. db' \in Store
    BY <1>1, Parts, NamespaceType DEF OpenWorkspace, CoreOK
  <2>2. WatcherTypeOK'
    BY <1>1, Parts, WatcherParts, Counted DEF OpenWorkspace, Watch, DiskOK, RunOK, SentOK, Existing
  <2>3. OpenOK' /\ open'.jobs = open.jobs /\ open'.at = "list"
    BY <1>1, Parts DEF OpenWorkspace, OpenOK, Stations
  <2>4. open.jobs = <<>>
    BY <1>1, Parts DEF OpenWorkspace, Up, Staging
  <2>5. AllJobs' = AllJobs
    BY <1>1, <2>3 DEF OpenWorkspace, AllJobs, InHand
  <2>6. HasJobs'
    BY <1>1, <2>5, KeptJobs DEF OpenWorkspace
  <2>7. CoreOK' /\ WorkerOK' /\ QueueOK' /\ RestOK'
    BY <1>1, <2>1, Parts DEF OpenWorkspace, CoreOK, WorkerOK, QueueOK, RestOK
  <2>8. Awake' /\ ReadyInv' /\ Staging'
    BY <1>1, <2>3, <2>4, Parts DEF OpenWorkspace, Awake, ReadyInv, Staging, InHand
  <2> QED
    BY <2>2, <2>3, <2>6, <2>7, <2>8, Parts
<1>2. ASSUME List
      PROVE  IInv'
  <2>1. WatcherTypeOK'
    BY <1>2, Parts, WatcherRests DEF List
  <2>2. OpenOK' /\ open'.jobs = open.jobs
    BY <1>2, Parts DEF List, OpenOK, Stations, Existing
  <2>3. open.jobs = <<>>
    BY <1>2, Parts DEF List, Staging
  <2>4. AllJobs' = AllJobs
    BY <1>2, <2>2 DEF List, AllJobs, InHand
  <2>5. HasJobs'
    BY <1>2, <2>4, KeptJobs DEF List
  <2>6. CoreOK' /\ WorkerOK' /\ QueueOK' /\ RestOK'
    BY <1>2, Parts DEF List, CoreOK, WorkerOK, QueueOK, RestOK
  <2>7. Awake' /\ ReadyInv' /\ Staging'
    BY <1>2, <2>2, <2>3, Parts DEF List, Awake, ReadyInv, Staging, InHand, Pending
  <2> QED
    BY <2>1, <2>2, <2>5, <2>6, <2>7, Parts
<1>3. ASSUME AddKnown
      PROVE  IInv'
  <2>1. WatcherTypeOK'
    BY <1>3, Parts, WatcherRests DEF AddKnown
  <2>2. OpenOK' /\ open'.jobs = open.jobs
    BY <1>3, Parts DEF AddKnown, OpenOK, Stations
  <2>3. open.jobs = <<>> /\ open.paths \subseteq Path
    BY <1>3, Parts DEF AddKnown, Staging, OpenOK
  <2>4. AllJobs' = AllJobs
    BY <1>3, <2>2 DEF AddKnown, AllJobs, InHand
  <2>5. HasJobs'
    BY <1>3, <2>4, KeptJobs DEF AddKnown
  <2>6. CoreOK' /\ WorkerOK' /\ QueueOK' /\ RestOK'
    BY <1>3, <2>3, Parts DEF AddKnown, CoreOK, WorkerOK, QueueOK, RestOK
  <2>7. Awake' /\ ReadyInv' /\ Staging'
    BY <1>3, <2>2, <2>3, Parts DEF AddKnown, Awake, ReadyInv, Staging, InHand, Pending
  <2> QED
    BY <2>1, <2>2, <2>5, <2>6, <2>7, Parts
<1>4. ASSUME Reconcile
      PROVE  IInv'
  <2>1. WatcherTypeOK'
    BY <1>4, Parts, WatcherRests DEF Reconcile
  <2>2. OpenOK' /\ open'.jobs = open.jobs
    BY <1>4, Parts DEF Reconcile, NextPass, OpenOK, Stations
  <2>3. open.jobs = <<>> /\ open.paths \in SUBSET Path
    BY <1>4, Parts DEF Reconcile, Staging, OpenOK
  <2>4. AllJobs' = AllJobs
    BY <1>4, <2>2 DEF Reconcile, AllJobs, InHand
  <2>5. HasJobs'
    BY <1>4, <2>4, KeptJobs DEF Reconcile
  <2>6. db' \in Store
    BY <1>4, <2>3, Parts, ReconcileType DEF Reconcile, CoreOK
  <2>7. CoreOK' /\ WorkerOK' /\ QueueOK' /\ RestOK'
    BY <1>4, <2>6, Parts DEF Reconcile, CoreOK, WorkerOK, QueueOK, RestOK
  <2>8. Awake' /\ ReadyInv' /\ Staging'
    BY <1>4, <2>2, <2>3, Parts DEF Reconcile, Awake, ReadyInv, Staging, InHand, Pending
  <2> QED
    BY <2>1, <2>2, <2>5, <2>7, <2>8, Parts
<1> QED
  BY <1>1, <1>2, <1>3, <1>4

LEMMA OpenerChecks ==
  ASSUME IInv, NEW p \in Path, CheckPath(p) \/ OpenPathFails(p)
  PROVE  IInv'
<1> USE DEF OpenerRests, coreVars, queueVars, history
<1>1. ASSUME CheckPath(p)
      PROVE  IInv'
  <2>1. WatcherTypeOK'
    BY <1>1, Parts, WatcherRests DEF CheckPath
  <2>2. OpenOK' /\ open'.jobs = open.jobs
    BY <1>1, Parts DEF CheckPath, NextPass, OpenOK, Stations
  <2>3. open.jobs = <<>>
    BY <1>1, Parts DEF CheckPath, Staging
  <2>4. AllJobs' = AllJobs
    BY <1>1, <2>2 DEF CheckPath, AllJobs, InHand
  <2>5. HasJobs'
    BY <1>1, <2>4, KeptJobs DEF CheckPath
  <2>6. CoreOK' /\ WorkerOK' /\ QueueOK' /\ RestOK'
    BY <1>1, Parts DEF CheckPath, CoreOK, WorkerOK, QueueOK, RestOK
  <2>7. Awake' /\ ReadyInv' /\ Staging'
    BY <1>1, <2>2, <2>3, Parts DEF CheckPath, Awake, ReadyInv, Staging, InHand, Pending
  <2> QED
    BY <2>1, <2>2, <2>5, <2>6, <2>7, Parts
<1>2. ASSUME OpenPathFails(p)
      PROVE  IInv'
  <2>1. WatcherTypeOK'
    BY <1>2, Parts, WatcherRests DEF OpenPathFails
  <2>2. OpenOK' /\ open'.jobs = open.jobs
    BY <1>2, Parts DEF OpenPathFails, NextPass, OpenOK, Stations
  <2>3. open'.jobs # <<>> => open'.at \in {"stage", "queue"}
    BY <1>2, <2>2, Parts DEF OpenPathFails, NextPass, OpenOK, Staging, Stations
  <2>4. AllJobs' = AllJobs
    BY <1>2, <2>2 DEF OpenPathFails, AllJobs, InHand
  <2>5. HasJobs'
    BY <1>2, <2>4, KeptJobs DEF OpenPathFails
  <2>6. CoreOK' /\ WorkerOK' /\ QueueOK' /\ RestOK'
    BY <1>2, Parts DEF OpenPathFails, Owe, Actor, CoreOK, WorkerOK, QueueOK, RestOK
  <2>7. Awake' /\ ReadyInv' /\ Staging'
    BY <1>2, <2>3, Parts DEF OpenPathFails, Awake, ReadyInv, Staging, InHand, Pending
  <2> QED
    BY <2>1, <2>2, <2>5, <2>6, <2>7, Parts
<1> QED
  BY <1>1, <1>2

LEMMA OpenerStages ==
  ASSUME IInv, NEW p \in Path, StagePath(p)
  PROVE  IInv'
<1> USE DEF OpenerRests, coreVars, queueVars, history
<1> DEFINE left == [open EXCEPT !.todo = @ \ {p}]
           j == Job(p, NextGeneration(p))
           more == [left EXCEPT !.jobs = Append(@, j)]
<1>1. WatcherTypeOK'
  BY Parts, WatcherRests DEF StagePath
<1>2. WorkerOK' /\ QueueOK' /\ RestOK' /\ Awake'
  BY Parts DEF StagePath, WorkerOK, QueueOK, RestOK, Awake
<1>3. OpenOK /\ open.at = "stage"
  BY Parts DEF StagePath
<1>4. /\ NextPass(left) \in [at : Stations.opener, paths : SUBSET Path, todo : SUBSET Path,
                             rebuild : BOOLEAN, jobs : Seq(Jobs)]
      /\ NextPass(left).jobs = open.jobs /\ NextPass(left).at \in {"stage", "queue"}
  BY <1>3 DEF NextPass, OpenOK, Stations
<1>5. CASE p \notin known
  <2>1. UNCHANGED <<db, known, pending, skipped, indexState>> /\ open' = NextPass(left)
    BY <1>5 DEF StagePath
  <2>2. OpenOK' /\ AllJobs' = AllJobs /\ Staging'
    BY <1>4, <2>1, Parts DEF StagePath, OpenOK, AllJobs, Staging, InHand
  <2>3. HasJobs'
    BY <2>1, <2>2, KeptJobs
  <2>4. CoreOK' /\ ReadyInv'
    BY <2>1, Parts DEF StagePath, CoreOK, ReadyInv, Pending
  <2> QED
    BY <1>1, <1>2, <2>2, <2>3, <2>4, Parts
<1>6. CASE p \in known /\ disk[p] = Missing
  <2>1. DeletePath(p) /\ open' = NextPass(left)
    BY <1>6 DEF StagePath
  <2>2. OpenOK' /\ AllJobs' = AllJobs /\ Staging'
    BY <1>4, <2>1, Parts DEF StagePath, OpenOK, AllJobs, Staging, InHand
  <2>3. CoreOK' /\ ReadyInv' /\ known' = known \ {p} /\ pending' = [pending EXCEPT ![p] = 0]
    BY <2>1, DeletePathEffect DEF StagePath
  <2>4. HasJobs'
    BY <2>2, <2>3, ForgottenJobs
  <2> QED
    BY <1>1, <1>2, <2>2, <2>3, <2>4, Parts
<1>7. CASE p \in known /\ disk[p] # Missing
  <2>1. Reschedule(p) /\ open' = NextPass(more)
    BY <1>7 DEF StagePath
  <2>2. /\ CoreOK' /\ ReadyInv' /\ known' = known \cup {p} /\ j \in Jobs
        /\ pending' = [pending EXCEPT ![p] = NextGeneration(p)]
    BY <2>1, RescheduleEffect DEF StagePath
  <2> HIDE DEF j
  <2>3. /\ Append(open.jobs, j) \in Seq(Jobs) /\ Items(Append(open.jobs, j)) = Items(open.jobs) \cup {j}
    BY <1>3, <2>2, ItemsOfSeq DEF OpenOK
  <2>4. /\ NextPass(more) \in [at : Stations.opener, paths : SUBSET Path, todo : SUBSET Path,
                               rebuild : BOOLEAN, jobs : Seq(Jobs)]
        /\ NextPass(more).jobs = Append(open.jobs, j) /\ NextPass(more).at \in {"stage", "queue"}
    BY <1>3, <2>3 DEF NextPass, OpenOK, Stations
  <2>5. OpenOK' /\ Staging'
    BY <2>1, <2>4, Parts DEF StagePath, OpenOK, Staging, InHand
  <2>6. AllJobs' = AllJobs \cup {j}
    BY <2>1, <2>3, <2>4 DEF StagePath, AllJobs, InHand
  <2>7. NextGeneration(p) \in Nat
    BY NewGeneration
  <2>8. HasJobs'
    BY <2>2, <2>6, <2>7, RescheduledJobs DEF j
  <2> QED
    BY <1>1, <1>2, <2>2, <2>5, <2>8, Parts
<1> QED
  BY <1>5, <1>6, <1>7

LEMMA OpenerEnds ==
  ASSUME IInv, FinishStaging \/ OpeningFails \/ Stop
  PROVE  IInv'
<1> USE DEF OpenerRests, coreVars, queueVars, history
<1>0. <<>> \in Seq(Jobs) /\ Items(<<>>) = {} /\ <<>> \in Seq(Events) /\ <<>> \in Seq(Batches)
  BY DEF Items
<1>1. ASSUME FinishStaging
      PROVE  IInv'
  <2>1. WatcherTypeOK'
    BY <1>1, Parts, WatcherRests DEF FinishStaging
  <2>2. OpenOK' /\ open'.jobs = <<>>
    BY <1>0, <1>1, Parts DEF FinishStaging, Closed, OpenOK, Stations
  <2>3. open.jobs \in Seq(Jobs) /\ queue \in Seq(Jobs)
    BY Parts DEF OpenOK, QueueOK
  <2>4. /\ queue' \in Seq(Jobs) /\ Items(queue') = Items(queue) \cup Items(open.jobs)
        /\ queue' # <<>> => queue # <<>> \/ open.jobs # <<>>
    <3>1. CASE queue = <<>> /\ open.jobs = <<>>
      BY <1>0, <1>1, <3>1 DEF FinishStaging
    <3>2. CASE ~(queue = <<>> /\ open.jobs = <<>>)
      <4>1. PICK e \in Jobs : TRUE
        BY <2>3, <3>2
      <4> QED
        BY <1>1, <2>3, <4>1, ItemsOfSeq DEF FinishStaging
    <3> QED
      BY <3>1, <3>2
  <2>5. AllJobs' = AllJobs
    BY <1>0, <1>1, <2>2, <2>4 DEF FinishStaging, AllJobs, InHand
  <2>6. HasJobs'
    BY <1>1, <2>5, KeptJobs DEF FinishStaging
  <2>7. CoreOK' /\ WorkerOK' /\ QueueOK' /\ RestOK'
    BY <1>1, <2>4, Parts DEF FinishStaging, IndexState, CoreOK, WorkerOK, QueueOK, RestOK
  <2>8. Awake' /\ ReadyInv' /\ Staging'
    BY <1>1, <2>2, <2>4, Parts
    DEF FinishStaging, IndexState, Awake, ReadyInv, Staging, InHand, Pending, QueueOK, RestOK
  <2> QED
    BY <2>1, <2>2, <2>6, <2>7, <2>8, Parts
<1>2. ASSUME OpeningFails
      PROVE  IInv'
  <2>1. WatcherTypeOK'
    BY <1>2, Parts, WatcherRests DEF OpeningFails
  <2>2. OpenOK' /\ open'.jobs = <<>>
    BY <1>0, <1>2, Parts DEF OpeningFails, Closed, OpenOK, Stations
  <2>3. open.jobs = <<>>
    BY <1>2, Parts DEF OpeningFails, Staging
  <2>4. AllJobs' = AllJobs
    BY <1>2, <2>2, <2>3 DEF OpeningFails, AllJobs, InHand
  <2>5. HasJobs'
    BY <1>2, <2>4, KeptJobs DEF OpeningFails
  <2>6. CoreOK' /\ WorkerOK' /\ QueueOK' /\ RestOK'
    BY <1>2, Parts DEF OpeningFails, Fail, CoreOK, WorkerOK, QueueOK, RestOK
  <2>7. Awake' /\ ReadyInv' /\ Staging'
    BY <1>2, <2>2, Parts DEF OpeningFails, Fail, Awake, ReadyInv, Staging, InHand
  <2> QED
    BY <2>1, <2>2, <2>5, <2>6, <2>7, Parts
<1>3. ASSUME Stop
      PROVE  IInv'
  <2>1. Bounded'
    BY <1>3, Parts, WatcherParts, Counted DEF Stop
  <2>2. DiskOK' /\ RunOK' /\ SentOK'
    <3>1. DiskOK'
      BY <1>3, Parts, WatcherParts DEF Stop, DiskOK
    <3>2. RunOK'
      BY <1>0, <1>3 DEF Stop, Unwatch, Drop, RunOK
    <3>3. SentOK'
      BY <1>0, <1>3 DEF Stop, Unwatch, SentOK
    <3> QED
      BY <3>1, <3>2, <3>3
  <2>3. OpenOK' /\ QueueOK' /\ open'.jobs = <<>>
    BY <1>0, <1>3, Parts DEF Stop, Closed, OpenOK, QueueOK, Stations
  <2>4. WorkerOK' /\ worker'.at = "wait"
    BY <1>3, Parts DEF Stop, Resting, WorkerOK, Stations, Sets
  <2>5. CoreOK'
    BY <1>3, Parts DEF Stop, CoreOK
  <2>6. RestOK'
    BY <1>3, Parts DEF Stop, RestOK, Actor
  <2>7. HasJobs' /\ Awake' /\ ReadyInv' /\ Staging'
    BY <1>3, <2>3, <2>4 DEF Stop, HasJobs, Awake, ReadyInv, Staging, InHand, Pending
  <2> QED
    BY <2>1, <2>2, <2>3, <2>4, <2>5, <2>6, <2>7, Parts, WatcherParts
<1> QED
  BY <1>1, <1>2, <1>3

LEMMA ConsumerTakes ==
  ASSUME IInv, TakeBatch \/ WatcherStopped
  PROVE  IInv'
<1> USE DEF ConsumerRests, coreVars, queueVars, history
<1>1. ASSUME TakeBatch
      PROVE  IInv'
  <2>1. DiskOK' /\ Bounded' /\ RunOK'
    BY <1>1, Parts, WatcherParts DEF TakeBatch, DiskOK, Bounded, RunOK, diskVars, bounds
  <2>2. batches \in Seq(Batches) /\ batches # <<>> /\ SentOK
    BY <1>1, Parts, WatcherParts DEF TakeBatch, SentOK
  <2>3. Head(batches) \in Batches /\ Tail(batches) \in Seq(Batches)
    BY <2>2
  <2>4. \A i \in DOMAIN Tail(batches) : i + 1 \in DOMAIN batches /\ Tail(batches)[i] = batches[i + 1]
    BY <2>2, HeadTailProperties
  <2>5. SentOK'
    BY <1>1, <2>2, <2>3, <2>4 DEF TakeBatch, SentOK
  <2>6. OpenOK' /\ CoreOK' /\ WorkerOK' /\ QueueOK' /\ RestOK'
    BY <1>1, <2>3, Parts DEF TakeBatch, OpenOK, CoreOK, WorkerOK, QueueOK, RestOK
  <2>7. HasJobs' /\ Awake' /\ ReadyInv' /\ Staging'
    BY <1>1, Parts DEF TakeBatch, HasJobs, Awake, ReadyInv, Staging, AllJobs, InHand, Pending
  <2> QED
    BY <2>1, <2>5, <2>6, <2>7, Parts, WatcherParts
<1>2. ASSUME WatcherStopped
      PROVE  IInv'
  <2>0. <<>> \in Seq(Events) /\ <<>> \in Seq(Batches)
    OBVIOUS
  <2>1. DiskOK' /\ Bounded'
    BY <1>2, Parts, WatcherParts DEF WatcherStopped, DiskOK, Bounded, diskVars, bounds
  <2>2. RunOK'
    BY <1>2, <2>0 DEF WatcherStopped, Unwatch, Drop, RunOK
  <2>3. SentOK'
    BY <1>2, <2>0 DEF WatcherStopped, Unwatch, SentOK
  <2>4. OpenOK' /\ CoreOK' /\ WorkerOK' /\ QueueOK' /\ RestOK'
    BY <1>2, Parts DEF WatcherStopped, Fail, OpenOK, CoreOK, WorkerOK, QueueOK, RestOK
  <2>5. HasJobs' /\ Awake' /\ ReadyInv' /\ Staging'
    BY <1>2, Parts DEF WatcherStopped, Fail, HasJobs, Awake, ReadyInv, Staging, AllJobs, InHand, Pending
  <2> QED
    BY <2>1, <2>2, <2>3, <2>4, <2>5, Parts, WatcherParts
<1> QED
  BY <1>1, <1>2

\* The batch shrinks as its files are handled.
LEMMA BatchShrinks ==
  ASSUME IInv, NEW p \in Path, NextInBatch(p)
  PROVE  /\ batch' \in Batches \cup {None}
         /\ OpenOK' /\ WorkerOK' /\ Staging'
         /\ UNCHANGED <<diskVars, watchVars, scanComplete, indexFatal, open, heal, worker, held, blind, lost>>
<1>1. batch \in Batches
  BY Parts DEF NextInBatch, RestOK
<1>2. batch' \in Batches \cup {None}
  BY <1>1 DEF NextInBatch, Batches
<1> QED
  BY <1>2, Parts DEF NextInBatch, ConsumerRests, OpenOK, WorkerOK, Staging, InHand, history

LEMMA ConsumerHandles ==
  ASSUME IInv, NEW p \in Path, HandleDeleted(p) \/ HandleChanged(p) \/ HandleFails(p)
  PROVE  IInv'
<1> USE DEF coreVars, queueVars
<1>0. NextInBatch(p)
  BY DEF HandleDeleted, HandleChanged, HandleFails
<1>1. /\ batch' \in Batches \cup {None} /\ OpenOK' /\ WorkerOK' /\ Staging'
      /\ UNCHANGED <<diskVars, watchVars, scanComplete, indexFatal, open, heal, worker, held, blind, lost>>
  BY <1>0, BatchShrinks
<1>2. RestOK'
  BY <1>1, Parts DEF HandleDeleted, HandleChanged, HandleFails, Owe, Actor, RestOK
<1>3. WatcherTypeOK'
  BY <1>1, Parts, WatcherRests DEF HandleDeleted, HandleChanged, HandleFails
<1>4. ASSUME HandleDeleted(p)
      PROVE  IInv'
  <2>1. DeletePath(p) /\ UNCHANGED <<queue, wake>>
    BY <1>4 DEF HandleDeleted
  <2>2. CoreOK' /\ ReadyInv' /\ known' = known \ {p} /\ pending' = [pending EXCEPT ![p] = 0]
    BY <1>1, <2>1, DeletePathEffect
  <2>3. AllJobs' = AllJobs
    BY <1>1, <2>1 DEF AllJobs, InHand
  <2>4. HasJobs'
    BY <2>2, <2>3, ForgottenJobs
  <2>5. QueueOK' /\ Awake'
    BY <1>1, <2>1, Parts DEF QueueOK, Awake
  <2> QED
    BY <1>1, <1>2, <1>3, <2>2, <2>4, <2>5, Parts
<1>5. ASSUME HandleChanged(p)
      PROVE  IInv'
  <2>1. CoreOK' /\ QueueOK' /\ HasJobs' /\ Awake' /\ ReadyInv'
    BY <1>1, <1>5, InvalidateAndQueueEffect DEF HandleChanged
  <2> QED
    BY <1>1, <1>2, <1>3, <2>1, Parts
<1>6. ASSUME HandleFails(p)
      PROVE  IInv'
  <2>1. CoreOK' /\ QueueOK' /\ Awake' /\ ReadyInv' /\ HasJobs'
    BY <1>1, <1>6, Parts DEF HandleFails, CoreOK, QueueOK, Awake, ReadyInv, HasJobs, AllJobs, InHand, Pending
  <2> QED
    BY <1>1, <1>2, <1>3, <2>1, Parts
<1> QED
  BY <1>4, <1>5, <1>6

\* An actor skips the file that it failed on.
LEMMA Skips ==
  ASSUME IInv, NEW a \in Actor, FailIndexPath(a)
  PROVE  IInv'
<1> USE DEF coreVars, queueVars, history
<1> DEFINE p == owed[a]
<1>1. p \in Path /\ SoftSkip(p) /\ Owe(a, None)
  BY Parts DEF FailIndexPath, RestOK
<1>2. CoreOK' /\ ReadyInv' /\ known' = known \ {p} /\ pending' = [pending EXCEPT ![p] = 0]
  BY <1>1, SoftSkipEffect DEF FailIndexPath
<1> HIDE DEF p
<1>3. AllJobs' = AllJobs
  BY DEF FailIndexPath, AllJobs, InHand
<1>4. HasJobs'
  BY <1>1, <1>2, <1>3, ForgottenJobs
<1>5. WatcherTypeOK'
  BY Parts, WatcherRests DEF FailIndexPath
<1>6. OpenOK' /\ WorkerOK' /\ Staging' /\ QueueOK' /\ Awake' /\ RestOK'
  BY <1>1, Parts DEF FailIndexPath, Owe, OpenOK, WorkerOK, Staging, QueueOK, Awake, RestOK, InHand
<1> QED
  BY <1>2, <1>4, <1>5, <1>6, Parts

LEMMA Queries ==
  ASSUME IInv, NEW p \in Path, AgentReads(p) \/ AgentOpens(p) \/ Expire(p) \/ HealPath(p) \/ HealFails(p)
  PROVE  IInv'
<1> USE DEF QueryRests, coreVars, queueVars, history
<1>1. WatcherTypeOK'
  BY Parts, WatcherRests DEF AgentReads, AgentOpens, Expire, HealPath, HealFails
<1>2. OpenOK' /\ WorkerOK' /\ Staging' /\ UNCHANGED <<scanComplete, indexFatal, open, worker>>
  BY Parts DEF AgentReads, AgentOpens, Expire, HealPath, HealFails, OpenOK, WorkerOK, Staging, InHand
<1>3. RestOK'
  <2>1. /\ heal \in [wake : BOOLEAN, todo : SUBSET Path]
        /\ heal' = heal \/ heal' = [heal EXCEPT !.todo = @ \ {p}]
    BY Parts DEF AgentReads, AgentOpens, Expire, HealPath, HealFails, RestOK
  <2>2. heal' \in [wake : BOOLEAN, todo : SUBSET Path]
    BY ONLY <2>1
  <2>3. held' = held \/ (disk[p] # Missing /\ held' = [held EXCEPT ![p] = disk[p]])
    BY DEF AgentReads, AgentOpens, Expire, HealPath, HealFails
  <2>4. disk[p] \in Text \cup {Missing} /\ held \in [Path -> Text \cup {None}]
    BY Parts DEF WatcherTypeOK, RestOK
  <2>5. held' \in [Path -> Text \cup {None}]
    BY <2>3, <2>4
  <2>6. owed' = owed \/ owed' = [owed EXCEPT !["healer"] = p]
    BY DEF AgentReads, AgentOpens, Expire, HealPath, HealFails, Owe
  <2>7. owed' \in [Actor -> Path \cup {None}]
    BY <2>6, Parts DEF RestOK
  <2>8. UNCHANGED <<batch, blind, lost>>
    BY DEF AgentReads, AgentOpens, Expire, HealPath, HealFails
  <2> QED
    BY <1>2, <2>2, <2>5, <2>7, <2>8, Parts DEF RestOK
<1>4. ASSUME AgentReads(p) \/ HealPath(p)
      PROVE  IInv'
  <2>1. CoreOK' /\ QueueOK' /\ HasJobs' /\ Awake' /\ ReadyInv'
    BY <1>2, <1>4, ReadFreshCacheEffect DEF AgentReads, HealPath
  <2> QED
    BY <1>1, <1>2, <1>3, <2>1, Parts
<1>5. ASSUME AgentOpens(p) \/ HealFails(p)
      PROVE  IInv'
  <2>1. CoreOK' /\ QueueOK' /\ HasJobs' /\ Awake' /\ ReadyInv'
    BY <1>2, <1>5, Parts
    DEF AgentOpens, HealFails, CoreOK, QueueOK, Awake, ReadyInv, HasJobs, AllJobs, InHand, Pending
  <2> QED
    BY <1>1, <1>2, <1>3, <2>1, Parts
<1>6. ASSUME Expire(p)
      PROVE  IInv'
  <2>1. db' \in Store
    BY <1>6, Parts, InvalidateFileType DEF Expire, CoreOK
  <2>2. CoreOK' /\ QueueOK' /\ HasJobs' /\ Awake' /\ ReadyInv'
    BY <1>2, <1>6, <2>1, Parts
    DEF Expire, CoreOK, QueueOK, Awake, ReadyInv, HasJobs, AllJobs, InHand, Pending
  <2> QED
    BY <1>1, <1>2, <1>3, <2>2, Parts
<1> QED
  BY <1>4, <1>5, <1>6

LEMMA Healing ==
  ASSUME IInv, AskHeal \/ HealerWakes
  PROVE  IInv'
<1> USE DEF QueryRests, coreVars, queueVars, history
<1>1. WatcherTypeOK'
  BY Parts, WatcherRests DEF AskHeal, HealerWakes
<1>2. OpenOK' /\ WorkerOK' /\ Staging'
  BY Parts DEF AskHeal, HealerWakes, OpenOK, WorkerOK, Staging, InHand
<1>3. RestOK'
  <2>1. heal \in [wake : BOOLEAN, todo : SUBSET Path] /\ known \in SUBSET Path
    BY Parts DEF RestOK, CoreOK
  <2>2. [heal EXCEPT !.wake = TRUE] \in [wake : BOOLEAN, todo : SUBSET Path]
    BY ONLY <2>1
  <2>3. [wake |-> FALSE, todo |-> known] \in [wake : BOOLEAN, todo : SUBSET Path]
    BY <2>1
  <2>4. heal' \in [wake : BOOLEAN, todo : SUBSET Path]
    BY <2>2, <2>3 DEF AskHeal, HealerWakes
  <2> QED
    BY <2>4, Parts DEF AskHeal, HealerWakes, RestOK
<1>4. CoreOK' /\ QueueOK' /\ HasJobs' /\ Awake' /\ ReadyInv'
  BY Parts DEF AskHeal, HealerWakes, CoreOK, QueueOK, Awake, ReadyInv, HasJobs, AllJobs, InHand, Pending
<1> QED
  BY <1>1, <1>2, <1>3, <1>4, Parts

-----------------------------------------------------------------------------
(* The worker.                                                              *)

\* A worker that begins with a job, or with none.
Beginning(at, j, n) ==
  [at |-> at, job |-> j, text |-> None, found |-> Incomplete, missed |-> {}, tries |-> n]

LEMMA Begins ==
  ASSUME NEW at \in Stations.worker, NEW j \in Jobs \cup {None}, NEW n \in 0..MaxRetries
  PROVE  worker' = Beginning(at, j, n) => WorkerOK' /\ worker'.at = at /\ worker'.job = j
<1>1. Incomplete \in Sets /\ {} \in SUBSET Path
  BY DEF Sets
<1>2. ASSUME worker' = Beginning(at, j, n)
      PROVE  WorkerOK' /\ worker'.at = at /\ worker'.job = j
  BY <1>1, <1>2 DEF Beginning, WorkerOK
<1> QED
  BY <1>2

\* Steps of the worker that leave the records of the files alone, and lose no job.
LEMMA WorkerMoves ==
  ASSUME IInv, WorkerWakes \/ TakeIndexJob \/ ReadGeneration \/ ReadSemantics \/ JobFails \/ JobNotReady
  PROVE  IInv'
<1> USE DEF WorkerRests, coreVars, queueVars, history, To, NextJob
<1>1. ASSUME WorkerWakes
      PROVE  IInv'
  <2>1. WatcherTypeOK'
    BY <1>1, Parts, WatcherRests DEF WorkerWakes
  <2>2. WorkerOK' /\ worker'.at = "take"
    BY <1>1, Parts DEF WorkerWakes, WorkerOK, Stations
  <2>3. OpenOK' /\ CoreOK' /\ QueueOK' /\ RestOK'
    BY <1>1, Parts DEF WorkerWakes, OpenOK, CoreOK, QueueOK, RestOK
  <2>4. AllJobs' = AllJobs
    BY <1>1, <2>2 DEF WorkerWakes, AllJobs, InHand
  <2>5. HasJobs'
    BY <1>1, <2>4, KeptJobs DEF WorkerWakes
  <2>6. Awake' /\ ReadyInv' /\ Staging'
    BY <1>1, <2>2, Parts DEF WorkerWakes, Awake, ReadyInv, Staging, InHand, Pending
  <2> QED
    BY <2>1, <2>2, <2>3, <2>5, <2>6, Parts
<1>2. ASSUME TakeIndexJob
      PROVE  IInv'
  <2>1. WatcherTypeOK'
    BY <1>2, Parts, WatcherRests DEF TakeIndexJob
  <2>2. OpenOK' /\ CoreOK' /\ RestOK'
    BY <1>2, Parts DEF TakeIndexJob, OpenOK, CoreOK, RestOK
  <2>3. ReadyInv' /\ worker.at = "take" /\ queue \in Seq(Jobs)
    BY <1>2, Parts DEF TakeIndexJob, ReadyInv, Pending, QueueOK
  <2>4. CASE queue = <<>>
    <3>1. worker' = Resting /\ UNCHANGED <<queue, wake>>
      BY <1>2, <2>4 DEF TakeIndexJob
    <3>2. WorkerOK' /\ QueueOK' /\ worker'.at = "wait"
      BY <3>1, Parts DEF Resting, WorkerOK, QueueOK, Stations, Sets
    <3>3. AllJobs' = AllJobs
      BY <1>2, <2>3, <3>1, <3>2 DEF TakeIndexJob, AllJobs, InHand
    <3>4. HasJobs'
      BY <1>2, <3>3, KeptJobs DEF TakeIndexJob
    <3>5. Awake' /\ Staging'
      BY <1>2, <2>4, <3>1, <3>2, Parts DEF TakeIndexJob, Awake, Staging, InHand
    <3> QED
      BY <2>1, <2>2, <2>3, <3>2, <3>4, <3>5, Parts
  <2>5. CASE queue # <<>>
    <3> DEFINE j == Head(queue)
    <3>1. worker' = [Resting EXCEPT !.at = "gate", !.job = j] /\ queue' = Tail(queue) /\ wake' = wake
      BY <1>2, <2>5 DEF TakeIndexJob
    <3>2. j \in Jobs /\ Tail(queue) \in Seq(Jobs) /\ Items(queue) = {j} \cup Items(Tail(queue))
      BY <2>3, <2>5, ItemsOfSeq
    <3> HIDE DEF j
    <3>3. WorkerOK' /\ worker'.at = "gate" /\ worker'.job = j
      <4>1. worker' = Beginning("gate", j, 0)
        BY <3>1 DEF Beginning, Resting
      <4> QED
        BY ONLY <3>2, <4>1, Begins, IndexingAssumption DEF Stations, IndexingAssumption
    <3>4. AllJobs' = AllJobs
      BY <1>2, <2>3, <3>1, <3>2, <3>3 DEF TakeIndexJob, AllJobs, InHand
    <3>5. HasJobs'
      BY <1>2, <3>4, KeptJobs DEF TakeIndexJob
    <3>6. QueueOK' /\ Awake' /\ Staging'
      BY <1>2, <3>1, <3>2, <3>3, Parts DEF TakeIndexJob, QueueOK, Awake, Staging, InHand
    <3> QED
      BY <2>1, <2>2, <2>3, <3>3, <3>5, <3>6, Parts
  <2> QED
    BY <2>4, <2>5
<1>3. ASSUME ReadGeneration
      PROVE  IInv'
  <2>1. WatcherTypeOK'
    BY <1>3, Parts, WatcherRests DEF ReadGeneration
  <2>2. /\ WorkerOK' /\ worker'.at = "ask" /\ worker'.job = worker.job /\ worker'.text = worker.text
        /\ worker.at = "serve"
    BY <1>3, Parts DEF ReadGeneration, WorkerOK, Stations
  <2>3. db' \in Store
    BY <1>3, Parts, GenerationType DEF ReadGeneration, CoreOK
  <2>4. OpenOK' /\ CoreOK' /\ QueueOK' /\ RestOK'
    BY <1>3, <2>3, Parts DEF ReadGeneration, OpenOK, CoreOK, QueueOK, RestOK
  <2>5. AllJobs' = AllJobs
    BY <1>3, <2>2 DEF ReadGeneration, AllJobs, InHand
  <2>6. HasJobs'
    BY <1>3, <2>5, KeptJobs DEF ReadGeneration
  <2>7. Awake' /\ ReadyInv' /\ Staging'
    BY <1>3, <2>2, Parts DEF ReadGeneration, Awake, ReadyInv, Staging, InHand, Pending
  <2> QED
    BY <2>1, <2>2, <2>4, <2>6, <2>7, Parts
<1>4. ASSUME ReadSemantics
      PROVE  IInv'
  <2>1. WatcherTypeOK'
    BY <1>4, Parts, WatcherRests DEF ReadSemantics
  <2>2. Locations(worker.job.path) \in Sets /\ Unspoken(worker.job.path) \in SUBSET Path
    <3>1. Locations(worker.job.path) \in SUBSET (Path \X Text)
      BY Parts DEF Locations, CoreOK
    <3> QED
      BY <3>1 DEF Sets, Unspoken
  <2>3. /\ WorkerOK' /\ worker'.at = "verify" /\ worker'.job = worker.job /\ worker'.text = worker.text
        /\ worker.at = "ask"
    BY <1>4, <2>2, Parts DEF ReadSemantics, WorkerOK, Stations
  <2>4. OpenOK' /\ CoreOK' /\ QueueOK' /\ RestOK'
    BY <1>4, Parts DEF ReadSemantics, OpenOK, CoreOK, QueueOK, RestOK
  <2>5. AllJobs' = AllJobs
    BY <1>4, <2>3 DEF ReadSemantics, AllJobs, InHand
  <2>6. HasJobs'
    BY <1>4, <2>5, KeptJobs DEF ReadSemantics
  <2>7. Awake' /\ ReadyInv' /\ Staging'
    BY <1>4, <2>3, Parts DEF ReadSemantics, Awake, ReadyInv, Staging, InHand, Pending
  <2> QED
    BY <2>1, <2>3, <2>4, <2>6, <2>7, Parts
<1>5. ASSUME JobFails \/ JobNotReady
      PROVE  IInv'
  <2>1. WatcherTypeOK'
    BY <1>5, Parts, WatcherRests DEF JobFails, JobNotReady
  <2>2. worker.job \in Jobs /\ worker.tries \in 0..MaxRetries /\ InHand
    BY <1>5, Parts DEF JobFails, JobNotReady, Staging, InHand, InJob, WorkerOK
  <2>3. WorkerOK' /\ worker'.at \in {"gate", "failing"} /\ worker'.job = worker.job
    <3>1. PICK at \in {"gate", "failing"}, n \in 0..MaxRetries : worker' = Beginning(at, worker.job, n)
      <4>1. CASE JobFails
        <5>1. worker' = [Resting EXCEPT !.at = "failing", !.job = worker.job]
          BY <4>1 DEF JobFails
        <5>2. worker' = Beginning("failing", worker.job, 0)
          BY ONLY <5>1 DEF Beginning, Resting
        <5> QED
          BY <5>2
      <4>2. CASE JobNotReady /\ worker.tries = MaxRetries
        <5>1. worker' = [Resting EXCEPT !.at = "failing", !.job = worker.job]
          BY <4>2 DEF JobNotReady
        <5>2. worker' = Beginning("failing", worker.job, 0)
          BY ONLY <5>1 DEF Beginning, Resting
        <5> QED
          BY <5>2
      <4>3. CASE JobNotReady /\ worker.tries # MaxRetries
        <5>1. worker' = [Resting EXCEPT !.at = "gate", !.job = worker.job, !.tries = worker.tries + 1]
          BY <4>3 DEF JobNotReady
        <5>2. worker' = Beginning("gate", worker.job, worker.tries + 1) /\ worker.tries + 1 \in 0..MaxRetries
          <6>1. worker' = Beginning("gate", worker.job, worker.tries + 1)
            BY ONLY <5>1 DEF Beginning, Resting
          <6> QED
            BY <2>2, <4>3, <6>1
        <5> QED
          BY <5>2
      <4> QED
        BY <1>5, <4>1, <4>2, <4>3
    <3> QED
      BY <2>2, <3>1, Begins DEF Stations
  <2>4. OpenOK' /\ CoreOK' /\ QueueOK' /\ RestOK'
    BY <1>5, Parts DEF JobFails, JobNotReady, OpenOK, CoreOK, QueueOK, RestOK
  <2>5. AllJobs' = AllJobs
    BY <1>5, <2>2, <2>3 DEF JobFails, JobNotReady, AllJobs, InHand
  <2>6. HasJobs'
    BY <1>5, <2>5, KeptJobs DEF JobFails, JobNotReady
  <2>7. Awake' /\ ReadyInv' /\ Staging'
    BY <1>5, <2>2, <2>3, Parts DEF JobFails, JobNotReady, Awake, ReadyInv, Staging, InHand, Pending
  <2> QED
    BY <2>1, <2>3, <2>4, <2>6, <2>7, Parts
<1> QED
  BY <1>1, <1>2, <1>3, <1>4, <1>5

\* When the worker lets go of its job the others stay.
LEMMA LetGo ==
  ASSUME IInv, InHand, worker' = [Resting EXCEPT !.at = "take"], UNCHANGED <<queue, open>>
  PROVE  /\ WorkerOK' /\ worker'.at = "take" /\ ~InHand'
         /\ worker.job \in Jobs /\ AllJobs \subseteq AllJobs' \cup {worker.job}
<1>1. worker' = Beginning("take", None, 0)
  BY DEF Beginning, Resting
<1>2. WorkerOK' /\ worker'.at = "take"
  BY <1>1, Begins DEF Stations
<1> QED
  BY <1>2, Parts DEF AllJobs, InHand, Staging

\* The job of another file is another job.
LEMMA OtherJob ==
  ASSUME NEW j \in Jobs, NEW q, q # j.path, NEW g
  PROVE  Job(q, g) # j
  BY DEF Job, Jobs

\* A job that is not the one its file waits for can be dropped.
LEMMA DroppedJobs ==
  ASSUME IInv, worker.job \in Jobs, UNCHANGED <<pending, known>>,
         AllJobs \subseteq AllJobs' \cup {worker.job}, ~Current(worker.job) \/ pending[worker.job.path] # worker.job.generation
  PROVE  HasJobs'
<1>1. HasJobs
  BY Parts
<1> SUFFICES ASSUME NEW q \in Path, Pending(q)
             PROVE  q \in known /\ Job(q, pending[q]) \in AllJobs'
  BY DEF HasJobs, Pending
<1>2. q \in known /\ Job(q, pending[q]) \in AllJobs
  BY <1>1 DEF HasJobs
<1>3. Job(q, pending[q]) # worker.job
  <2>1. CASE q # worker.job.path
    BY <2>1, OtherJob
  <2>2. CASE q = worker.job.path
    <3>1. pending[q] # worker.job.generation
      BY <1>2, <2>2 DEF Current
    <3>2. Job(q, pending[q]).generation = pending[q]
      BY DEF Job
    <3> QED
      BY <3>1, <3>2
  <2> QED
    BY <2>1, <2>2
<1> QED
  BY <1>2, <1>3

\* So it is when the row of the file is deleted with it.
LEMMA DeletedByJob ==
  ASSUME IInv, InHand, worker' = [Resting EXCEPT !.at = "take"], DeleteByJob(worker.job.path),
         UNCHANGED <<queue, open, scanComplete, indexFatal>>
  PROVE  /\ CoreOK' /\ ReadyInv' /\ HasJobs'
         /\ db'.row = [db.row EXCEPT ![worker.job.path] = NoRow]
<1> DEFINE p == worker.job.path
<1>1. /\ WorkerOK' /\ worker'.at = "take" /\ ~InHand'
      /\ worker.job \in Jobs /\ AllJobs \subseteq AllJobs' \cup {worker.job}
  BY LetGo
<1>2. p \in Path
  BY <1>1 DEF Jobs
<1>3. CASE pending[p] = worker.job.generation
  <2>1. DeletePath(p)
    BY <1>3 DEF DeleteByJob, DeletePath
  <2>2. /\ CoreOK' /\ ReadyInv' /\ known' = known \ {p} /\ pending' = [pending EXCEPT ![p] = 0]
        /\ db'.row = [db.row EXCEPT ![p] = NoRow]
    BY <1>2, <2>1, DeletePathEffect
  <2>3. \A q \in Path \ {p} : Job(q, pending[q]) # worker.job
    BY <1>1, OtherJob
  <2>4. HasJobs'
    BY <1>1, <1>2, <2>2, <2>3, ForgottenJobs
  <2> QED
    BY <2>2, <2>4
<1>4. CASE pending[p] # worker.job.generation
  <2>1. db' = DeleteFile(db, p) /\ UNCHANGED <<known, pending, skipped>> /\ Refresh
    BY <1>4 DEF DeleteByJob
  <2>2. db' \in Store /\ db'.row = [db.row EXCEPT ![p] = NoRow]
    BY <1>2, <2>1, Parts, DeleteFileType DEF CoreOK
  <2>3. indexState' \in {"ready", "failed", "indexing"} /\ ReadyInv'
    BY <2>1, Parts, Refreshed DEF CoreOK, RestOK
  <2>4. CoreOK'
    BY <2>1, <2>2, <2>3, Parts DEF CoreOK
  <2>5. HasJobs'
    BY <1>1, <1>4, <2>1, DroppedJobs
  <2> QED
    BY <2>2, <2>3, <2>4, <2>5
<1> QED
  BY <1>3, <1>4

LEMMA WorkerStarts ==
  ASSUME IInv, StartJob
  PROVE  IInv'
<1> USE DEF WorkerRests, coreVars, queueVars, history, NextJob
<1> DEFINE p == worker.job.path
<1>1. WatcherTypeOK'
  BY Parts, WatcherRests DEF StartJob
<1>2. OpenOK' /\ QueueOK' /\ RestOK'
  BY Parts DEF StartJob, OpenOK, QueueOK, RestOK
<1>3. worker.at = "gate" /\ InHand /\ worker.job \in Jobs /\ p \in Path
  BY Parts DEF StartJob, InHand, Staging, Jobs
<1>4. CASE ~Current(worker.job)
  <2>1. worker' = [Resting EXCEPT !.at = "take"] /\ UNCHANGED <<db, known, pending, skipped, indexState, queue, open>>
    BY <1>4 DEF StartJob
  <2>2. /\ WorkerOK' /\ worker'.at = "take" /\ ~InHand' /\ AllJobs \subseteq AllJobs' \cup {worker.job}
    BY <1>3, <2>1, LetGo
  <2>3. HasJobs'
    BY <1>3, <1>4, <2>1, <2>2, DroppedJobs
  <2>4. CoreOK' /\ Awake' /\ ReadyInv' /\ Staging'
    BY <2>1, <2>2, Parts DEF StartJob, CoreOK, Awake, ReadyInv, Staging, Pending
  <2> QED
    BY <1>1, <1>2, <2>2, <2>3, <2>4, Parts
<1>5. CASE Current(worker.job) /\ disk[p] = Missing
  <2>1. worker' = [Resting EXCEPT !.at = "take"] /\ DeleteByJob(p) /\ UNCHANGED <<queue, open>>
    BY <1>5 DEF StartJob
  <2>2. WorkerOK' /\ worker'.at = "take" /\ ~InHand'
    BY <1>3, <2>1, LetGo
  <2>3. CoreOK' /\ ReadyInv' /\ HasJobs'
    BY <1>3, <2>1, DeletedByJob DEF StartJob
  <2>4. Awake' /\ Staging'
    BY <2>1, <2>2, Parts DEF Awake, Staging
  <2> QED
    BY <1>1, <1>2, <2>2, <2>3, <2>4, Parts
<1>6. CASE Current(worker.job) /\ disk[p] # Missing
  <2>1. worker' = [worker EXCEPT !.at = "serve", !.text = disk[p]] /\ UNCHANGED <<db, known, pending, skipped, indexState>>
    BY <1>6 DEF StartJob
  <2>2. disk[p] \in Text
    BY <1>3, <1>6, Parts, WatcherParts DEF DiskOK
  <2>3. WorkerOK' /\ worker'.at = "serve" /\ worker'.job = worker.job /\ worker'.text = disk[p]
    BY <2>1, <2>2, Parts DEF WorkerOK, Stations
  <2>4. AllJobs' = AllJobs
    BY <1>3, <2>3 DEF StartJob, AllJobs, InHand
  <2>5. HasJobs'
    BY <2>1, <2>4, KeptJobs
  <2>6. CoreOK' /\ Awake' /\ ReadyInv' /\ Staging'
    BY <1>3, <2>1, <2>2, <2>3, Parts DEF StartJob, CoreOK, Awake, ReadyInv, Staging, Pending, InHand
  <2> QED
    BY <1>1, <1>2, <2>3, <2>5, <2>6, Parts
<1> QED
  BY <1>4, <1>5, <1>6

LEMMA WorkerPuts ==
  ASSUME IInv, VerifyAndPut
  PROVE  IInv'
<1> USE DEF WorkerRests, coreVars, queueVars, history, NextJob, To
<1> DEFINE p == worker.job.path
           newer == Job(p, NextGeneration(p))
<1>1. WatcherTypeOK'
  BY Parts, WatcherRests DEF VerifyAndPut
<1>2. OpenOK' /\ QueueOK' /\ RestOK' /\ UNCHANGED <<queue, open>>
  BY Parts DEF VerifyAndPut, OpenOK, QueueOK, RestOK
<1>3. worker.at = "verify" /\ InHand /\ worker.job \in Jobs /\ p \in Path /\ worker.text \in Text
  BY Parts DEF VerifyAndPut, InHand, Staging, Jobs
<1>4. CASE disk[p] = Missing /\ worker' = [Resting EXCEPT !.at = "take"] /\ DeleteByJob(p)
  <2>1. WorkerOK' /\ worker'.at = "take" /\ ~InHand'
    BY <1>2, <1>3, <1>4, LetGo
  <2>2. CoreOK' /\ ReadyInv' /\ HasJobs'
    BY <1>2, <1>3, <1>4, DeletedByJob DEF VerifyAndPut
  <2>3. Awake' /\ Staging'
    BY <1>2, <1>4, <2>1, Parts DEF VerifyAndPut, Awake, Staging
  <2> QED
    BY <1>1, <1>2, <2>1, <2>2, <2>3, Parts
<1>5. CASE /\ db' = InvalidateFile(db, p) /\ pending' = [pending EXCEPT ![p] = newer.generation]
           /\ indexState' = "indexing" /\ UNCHANGED <<known, skipped>>
           /\ worker' = [Resting EXCEPT !.at = "gate", !.job = newer] /\ Current(worker.job)
  <2>1. NextGeneration(p) \in Nat \ {0} /\ newer.generation = NextGeneration(p) /\ newer \in Jobs
    BY <1>3, NewGeneration DEF Job, Jobs
  <2>2. CoreOK' /\ ReadyInv' /\ p \in known
    BY <1>3, <1>5, <2>1, Parts, InvalidateFileType DEF CoreOK, ReadyInv, Current
  <2>3. worker' = Beginning("gate", newer, 0)
    BY <1>5 DEF Beginning, Resting
  <2>4. pending' = [pending EXCEPT ![p] = NextGeneration(p)] /\ newer = Job(p, NextGeneration(p))
    BY <1>5, <2>1
  <2> HIDE DEF newer
  <2>5. WorkerOK' /\ worker'.at = "gate" /\ worker'.job = newer
    BY <2>1, <2>3, Begins DEF Stations
  <2>6. AllJobs \subseteq AllJobs' \cup {worker.job} /\ newer \in AllJobs'
    BY <1>2, <1>3, <2>5 DEF AllJobs, InHand
  <2>7. \A q \in Path \ {p} : Job(q, pending[q]) # worker.job
    BY <1>3, OtherJob
  <2>8. HasJobs'
    BY <1>3, <1>5, <2>1, <2>2, <2>4, <2>6, <2>7, RescheduledJobs
  <2>9. Awake' /\ Staging'
    BY <1>2, <1>3, <2>1, <2>5, Parts DEF VerifyAndPut, Awake, Staging
  <2> QED
    BY <1>1, <1>2, <2>2, <2>5, <2>8, <2>9, Parts
<1>6. CASE /\ db' = PutFile(db, p, disk[p]) /\ worker' = [worker EXCEPT !.at = "commit"]
           /\ UNCHANGED <<known, pending, skipped, indexState>> /\ disk[p] = worker.text
  <2>1. WorkerOK' /\ worker'.at = "commit" /\ worker'.job = worker.job /\ worker'.text = worker.text
    BY <1>6, Parts DEF WorkerOK, Stations
  <2>2. AllJobs' = AllJobs
    BY <1>2, <1>3, <2>1 DEF AllJobs, InHand
  <2>3. HasJobs'
    BY <1>6, <2>2, KeptJobs
  <2>4. CoreOK'
    BY <1>3, <1>6, Parts, PutFileType DEF CoreOK
  <2>5. Awake' /\ ReadyInv' /\ Staging'
    BY <1>2, <1>3, <1>6, <2>1, Parts DEF VerifyAndPut, Awake, ReadyInv, Staging, Pending, InHand
  <2> QED
    BY <1>1, <1>2, <2>1, <2>3, <2>4, <2>5, Parts
<1>7. CASE /\ worker' = [Resting EXCEPT !.at = "take"] /\ UNCHANGED <<db, known, pending, skipped, indexState>>
           /\ ~Current(worker.job)
  <2>1. /\ WorkerOK' /\ worker'.at = "take" /\ ~InHand' /\ AllJobs \subseteq AllJobs' \cup {worker.job}
    BY <1>2, <1>3, <1>7, LetGo
  <2>2. HasJobs'
    BY <1>3, <1>7, <2>1, DroppedJobs
  <2>3. CoreOK' /\ Awake' /\ ReadyInv' /\ Staging'
    BY <1>2, <1>7, <2>1, Parts DEF VerifyAndPut, CoreOK, Awake, ReadyInv, Staging, Pending
  <2> QED
    BY <1>1, <1>2, <2>1, <2>2, <2>3, Parts
<1> QED
  BY <1>4, <1>5, <1>6, <1>7 DEF VerifyAndPut

LEMMA WorkerEnds ==
  ASSUME IInv, CommitReferences \/ FailIndexJob
  PROVE  IInv'
<1> USE DEF WorkerRests, coreVars, queueVars, history, NextJob
<1> DEFINE p == worker.job.path
<1>1. WatcherTypeOK'
  BY Parts, WatcherRests DEF CommitReferences, FailIndexJob
<1>2. OpenOK' /\ QueueOK' /\ UNCHANGED <<queue, open, scanComplete, indexFatal>>
  BY Parts DEF CommitReferences, FailIndexJob, OpenOK, QueueOK
<1>3. /\ InHand /\ worker.job \in Jobs /\ p \in Path /\ worker.at # "wait"
      /\ worker' = [Resting EXCEPT !.at = "take"]
  BY Parts DEF CommitReferences, FailIndexJob, InHand, Staging, Jobs
<1>4. /\ WorkerOK' /\ worker'.at = "take" /\ ~InHand' /\ AllJobs \subseteq AllJobs' \cup {worker.job}
  BY <1>2, <1>3, LetGo
<1>5. Awake' /\ Staging'
  BY <1>2, <1>4, Parts DEF CommitReferences, FailIndexJob, Awake, Staging
<1>6. \A q \in Path \ {p} : Job(q, pending[q]) # worker.job
  BY <1>3, OtherJob
<1>7. ASSUME CommitReferences
      PROVE  IInv'
  <2>1. db' \in Store
    <3>1. worker.found = Incomplete \/ worker.found \in Sets
      BY Parts DEF WorkerOK
    <3> QED
      BY <1>3, <1>7, <3>1, Parts, ReferencesType DEF CommitReferences, CoreOK
  <2>2. RestOK'
    <3>1. worker.missed \in SUBSET Path
      BY Parts DEF WorkerOK
    <3> QED
      BY <1>3, <1>7, <3>1, Parts DEF CommitReferences, RestOK
  <2>3. Refresh /\ known' = known /\ pending' \in [Path -> Nat] /\ skipped' \subseteq skipped
    BY <1>7, Parts DEF CommitReferences, CoreOK
  <2>4. indexState' \in {"ready", "failed", "indexing"} /\ ReadyInv'
    BY <1>2, <2>3, Parts, Refreshed DEF RestOK
  <2>5. CoreOK'
    BY <2>1, <2>3, <2>4, Parts DEF CoreOK
  <2>6. HasJobs'
    <3>1. CASE pending[p] = worker.job.generation
      <4>1. pending' = [pending EXCEPT ![p] = 0]
        BY <1>7, <3>1 DEF CommitReferences
      <4>2. HasJobs /\ pending \in [Path -> Nat]
        BY Parts DEF CoreOK
      <4> QED
        BY <1>3, <1>4, <1>6, <2>3, <4>1, <4>2 DEF HasJobs, Pending
    <3>2. CASE pending[p] # worker.job.generation
      <4>1. pending' = pending
        BY <1>7, <3>2, Parts DEF CommitReferences, CoreOK
      <4> QED
        BY <1>3, <1>4, <2>3, <3>2, <4>1, DroppedJobs
    <3> QED
      BY <3>1, <3>2
  <2> QED
    BY <1>1, <1>2, <1>4, <1>5, <2>2, <2>4, <2>5, <2>6, Parts
<1>8. ASSUME FailIndexJob
      PROVE  IInv'
  <2>1. RestOK'
    BY <1>8, Parts DEF FailIndexJob, RestOK
  <2>2. CASE Current(worker.job)
    <3>1. SoftSkip(p)
      BY <1>8, <2>2 DEF FailIndexJob
    <3>2. CoreOK' /\ ReadyInv' /\ known' = known \ {p} /\ pending' = [pending EXCEPT ![p] = 0]
      BY <1>2, <1>3, <3>1, SoftSkipEffect
    <3>3. HasJobs'
      BY <1>3, <1>4, <1>6, <3>2, ForgottenJobs
    <3> QED
      BY <1>1, <1>2, <1>4, <1>5, <2>1, <3>2, <3>3, Parts
  <2>3. CASE ~Current(worker.job)
    <3>1. UNCHANGED <<db, known, pending, skipped, indexState>>
      BY <1>8, <2>3 DEF FailIndexJob
    <3>2. HasJobs'
      BY <1>3, <1>4, <2>3, <3>1, DroppedJobs
    <3>3. CoreOK' /\ ReadyInv'
      BY <1>2, <3>1, Parts DEF CoreOK, ReadyInv, Pending
    <3> QED
      BY <1>1, <1>2, <1>4, <1>5, <2>1, <3>2, <3>3, Parts
  <2> QED
    BY <2>2, <2>3
<1> QED
  BY <1>7, <1>8

-----------------------------------------------------------------------------

LEMMA EveryStep == IInv /\ [IndexingNext]_indexingVars => IInv'
<1> SUFFICES ASSUME IInv, [IndexingNext]_indexingVars PROVE IInv'
  OBVIOUS
<1>1. CASE UNCHANGED indexingVars
  BY <1>1, Stutter
<1>2. CASE (DiskStep \/ WatcherStep \/ WatchFails) /\ Outside
  BY <1>2, OutsideStep
<1>3. CASE OpenerStep \/ OpeningFails \/ Stop
  BY <1>3, OpenerLists, OpenerChecks, OpenerStages, OpenerEnds DEF OpenerStep
<1>4. CASE ConsumerStep
  BY <1>4, ConsumerTakes, ConsumerHandles DEF ConsumerStep
<1>5. CASE HealerStep \/ AskHeal
  BY <1>5, Healing, Queries DEF HealerStep
<1>6. CASE WorkerStep \/ JobFails \/ JobNotReady
  BY <1>6, WorkerMoves, WorkerStarts, WorkerPuts, WorkerEnds DEF WorkerStep
<1>7. ASSUME NEW p \in Path,
             OpenPathFails(p) \/ HandleFails(p) \/ HealFails(p) \/ AgentReads(p) \/ AgentOpens(p) \/ Expire(p)
      PROVE  IInv'
  BY <1>7, OpenerChecks, ConsumerHandles, Queries
<1>8. CASE \E a \in Actor : FailIndexPath(a)
  BY <1>8, Skips
<1> QED
  BY <1>1, <1>2, <1>3, <1>4, <1>5, <1>6, <1>7, <1>8 DEF IndexingNext

\* The strengthening is an invariant.
THEOREM Inductive == IndexingSpec => []IInv
<1>1. IndexingInit => IInv
  BY Initial
<1>2. IInv /\ [IndexingNext]_indexingVars => IInv'
  BY EveryStep
<1> QED
  BY <1>1, <1>2, PTL DEF IndexingSpec

\* The types; a file that is to be indexed has its job, which is queued, staged or in hand,
\* and the worker does not sleep while there are jobs; when the workspace is ready nothing
\* is pending (indexing.go, takeIndexJob, completeIndexJob, updateIndexStateLocked).
THEOREM NoJobIsLost == IndexingSpec => []IndexingInv
<1>1. IInv => IndexingInv
  BY DEF IInv, IndexingInv
<1> QED
  BY <1>1, Inductive, PTL

-----------------------------------------------------------------------------
(* That the index follows the disk: the invariant.                          *)

\* News of a file: an event of it; that it is noted, sent or being handled; or that an
\* actor has failed on it, or is about to skip it.
InRaw(p) == \E i \in DOMAIN raw : raw[i].path = p
Removal(p) == \E i \in DOMAIN raw : raw[i].path = p /\ raw[i].op = "remove"
Sent(p) == \E i \in DOMAIN batches : p \in batches[i].changed \cup batches[i].deleted
InBatch(p) == batch # None /\ p \in batch.changed \cup batch.deleted
Owed(p) == \E a \in Actor : owed[a] = p
OnTheWay(p) == Sent(p) \/ InBatch(p) \/ p \in skipped \/ Owed(p)
Noted(p) == p \in changed \cup deleted \/ OnTheWay(p)
Expected(p) == InRaw(p) \/ Noted(p) \/ p \notin listed

\* The files that are listed are in directories that are watched.
Reachable ==
  /\ \A p \in Nested : disk[p] # Missing => dir # "absent"
  /\ scan # None => (scan.dir => dir # "absent") /\ (scan.files \cap Nested # {} => scan.dir)
  /\ watch = "running" /\ listed \cap Nested # {} => dir = "watched"

\* Of a file that is listed again a later batch says so than the one that deletes it.
Later ==
  /\ deleted \cap listed = {}
  /\ \A i \in DOMAIN batches : \A p \in batches[i].deleted \cap listed :
       \E j \in DOMAIN batches : i < j /\ p \in batches[j].changed
  /\ batch # None =>
       \A p \in batch.deleted \cap listed : \E j \in DOMAIN batches : p \in batches[j].changed

\* What has happened by when.
Phases ==
  /\ ~Up => /\ watch = "off" /\ ~scanComplete /\ ~indexFatal /\ known = {} /\ skipped = {}
            /\ raw = <<>> /\ changed = {} /\ deleted = {} /\ batches = <<>> /\ batch = None
            /\ \A p \in Path : pending[p] = 0
            /\ heal.todo = {} /\ \A a \in Actor : owed[a] = None
  /\ scanComplete /\ ~indexFatal => open.at = "done"
  /\ InJob => open.at = "done"
  /\ open.at \in {"check", "stage"} => open.todo \subseteq open.paths

\* From the reconciliation on, a file that has a row is known or skipped.
Booked(p) ==
  /\ Pending(p) => p \notin skipped
  /\ db.row[p] # NoRow =>
       /\ open.at \in {"check", "stage", "queue", "done"} => p \in known \cup skipped
       /\ open.at = "reconcile" /\ p \in open.paths => p \in known \cup skipped

\* The index has, or will have without any news, nothing of a file that is not there ...
Gone(p) ==
  \/ db.row[p] = NoRow /\ ~Pending(p)
  \/ open.at = "list" /\ ~Pending(p)
  \/ open.at \in {"known", "reconcile"} /\ (p \in open.paths \/ ~Pending(p))
  \/ open.at = "check" /\ p \in open.paths /\ (p \in open.todo \/ open.rebuild)
  \/ open.at = "stage" /\ p \in open.todo
  \/ open.at = "aborted"

\* ... and a file that is there as it is.
Kept(p) ==
  \/ p \in known /\ Pending(p)
  \/ p \in known /\ db.row[p] \in {disk[p], Blank} /\ open.at \in {"check", "stage", "queue", "done"}
  \/ open.at = "list"
  \/ open.at = "known" /\ p \in open.paths
  \/ open.at = "reconcile" /\ p \in open.paths /\ p \in known
  \/ open.at = "check" /\ p \in open.paths /\ p \in known /\ (p \in open.todo \/ open.rebuild)
  \/ open.at = "stage" /\ p \in open.todo /\ p \in known
  \/ open.at = "aborted"

Leaves(p) ==
  watch = "running" /\ disk[p] = Missing =>
    (p \in listed /\ Removal(p)) \/ Noted(p) \/ p \in known \ listed \/ Gone(p)
Stays(p) ==
  watch = "running" /\ disk[p] # Missing => Expected(p) \/ Kept(p)
Follows(p) == Booked(p) /\ Leaves(p) /\ Stays(p)
Followed == \A p \in Path : Follows(p)

\* The worker commits what it has read, unless there is news of the file.
Committing ==
  worker.at = "commit" =>
    /\ db.row[worker.job.path] \in {worker.text, Blank}
    /\ watch = "running" /\ disk[worker.job.path] \notin {Missing, worker.text} => Expected(worker.job.path)

FInv == IInv /\ Reachable /\ Later /\ Phases /\ Followed /\ Committing

LEMMA FollowsAll == FInv => \A p \in Path : Booked(p) /\ Leaves(p) /\ Stays(p)
  BY DEF FInv, Followed, Follows

\* Where the files are, and what may be asked of them.
LEMMA Known ==
  ASSUME IInv
  PROVE  /\ raw \in Seq(Events) /\ listed \subseteq Path /\ changed \subseteq Path /\ deleted \subseteq Path
         /\ batches \in Seq(Batches) /\ disk \in [Path -> Text \cup {Missing}]
         /\ dir \in {"absent", "present", "watched"}
         /\ scan # None => scan.files \subseteq Path /\ scan.dir \in BOOLEAN
         /\ \A p \in Path : Pending(p) => p \in known
         /\ open.at \in Stations.opener /\ open.paths \subseteq Path /\ open.todo \subseteq Path
         /\ batch \in Batches \cup {None}
<1>1. DiskOK /\ RunOK /\ SentOK /\ OpenOK /\ HasJobs /\ RestOK
  BY Parts, WatcherParts
<1>2. scan # None => scan.files \subseteq Path /\ scan.dir \in BOOLEAN
  BY <1>1 DEF RunOK
<1>3. open.at \in Stations.opener /\ open.paths \subseteq Path /\ open.todo \subseteq Path
  BY <1>1 DEF OpenOK
<1> QED
  BY <1>1, <1>2, <1>3 DEF DiskOK, RunOK, SentOK, HasJobs, RestOK

\* A file that is not known has nothing in the index, unless it is skipped or the opener
\* comes to it.
LEMMA UnknownGone ==
  ASSUME FInv, NEW p \in Path, p \notin known, p \notin skipped, watch = "running"
  PROVE  Gone(p)
<1>1. ~Pending(p) /\ open.at \in Stations.opener
  BY Known DEF FInv
<1>2. Up
  BY DEF FInv, Phases
<1>3. Booked(p)
  BY FollowsAll
<1> QED
  BY <1>1, <1>2, <1>3 DEF Booked, Gone, Up, Stations

-----------------------------------------------------------------------------
(* The steps of the disk and of the watcher.                                *)

\* What is appended to the events is in them, and so are the others.
LEMMA Appended ==
  ASSUME IInv, NEW e \in Events, raw' = Append(raw, e)
  PROVE  /\ InRaw(e.path)'
         /\ e.op = "remove" => Removal(e.path)'
         /\ \A p \in Path : (InRaw(p) => InRaw(p)') /\ (Removal(p) => Removal(p)')
<1>1. raw \in Seq(Events)
  BY Known
<1>2. /\ DOMAIN raw = 1..Len(raw) /\ DOMAIN raw' = 1..(Len(raw) + 1) /\ Len(raw) \in Nat
      /\ raw'[Len(raw) + 1] = e /\ \A i \in DOMAIN raw : raw'[i] = raw[i]
  BY <1>1, AppendProperties
<1> QED
  BY <1>2 DEF InRaw, Removal

\* An event is consumed, and the others stay.
LEMMA Removed ==
  ASSUME IInv, raw # <<>>, raw' = Tail(raw)
  PROVE  /\ Head(raw) \in Events
         /\ \A p \in Path : p # Head(raw).path => (InRaw(p) => InRaw(p)')
         /\ \A p \in Path : Head(raw).path # p \/ Head(raw).op # "remove" => (Removal(p) => Removal(p)')
<1> DEFINE h == Head(raw)
<1>1. raw \in Seq(Events)
  BY Known
<1>2. /\ DOMAIN raw = 1..Len(raw) /\ DOMAIN raw' = 1..(Len(raw) - 1) /\ Len(raw) \in Nat \ {0}
      /\ h = raw[1] /\ \A i \in 1..(Len(raw) - 1) : raw'[i] = raw[i + 1]
  BY <1>1, HeadTailProperties
<1>3. h \in Events
  BY <1>1
<1> HIDE DEF h
<1>4. \A i \in DOMAIN raw : raw[i] = h \/ (i - 1 \in DOMAIN raw' /\ raw'[i - 1] = raw[i])
  BY <1>2
<1>5. \A i \in DOMAIN raw : raw[i] = h \/ \E k \in DOMAIN raw' : raw'[k] = raw[i]
  BY <1>4
<1>6. \A p \in Path : p # h.path => (InRaw(p) => InRaw(p)')
  BY <1>5 DEF InRaw
<1>7. \A p \in Path : h.path # p \/ h.op # "remove" => (Removal(p) => Removal(p)')
  BY <1>5 DEF Removal
<1> QED
  BY <1>3, <1>6, <1>7 DEF h

\* A step that only touches the disk and the watcher leaves the rest of the invariant.
LEMMA OutsideFrame ==
  ASSUME Outside
  PROVE  /\ \A p \in Path : /\ Gone(p)' <=> Gone(p)
                            /\ InBatch(p)' <=> InBatch(p)
                            /\ Owed(p)' <=> Owed(p)
                            /\ disk'[p] = disk[p] => (Kept(p)' <=> Kept(p))
                            /\ Booked(p)' <=> Booked(p)
         /\ Up' <=> Up
         /\ UNCHANGED <<db, known, pending, skipped, open, batch, owed, worker, scanComplete, indexFatal, heal>>
<1> USE DEF Outside, coreVars, queueVars, otherVars, history
<1>1. UNCHANGED <<db, known, pending, skipped, open, batch, owed, worker, scanComplete, indexFatal, heal>>
  OBVIOUS
<1>2. \A p \in Path : Pending(p)' <=> Pending(p)
  BY <1>1 DEF Pending
<1> QED
  BY <1>1, <1>2 DEF Booked, Gone, Kept, InBatch, Owed, Up

LEMMA OutsideKeeps ==
  ASSUME FInv, Outside, IInv', Reachable', Later', Committing',
         Up \/ UNCHANGED <<watch, raw, changed, deleted, batches>>,
         \A p \in Path : Leaves(p)' /\ Stays(p)'
  PROVE  FInv'
<1>1. Phases'
  BY OutsideFrame DEF FInv, Phases, Up, InJob
<1>2. Followed'
  BY OutsideFrame, FollowsAll DEF Followed, Follows
<1> QED
  BY <1>1, <1>2 DEF FInv

\* News of a file of a step that leaves the watcher's sets as they are, or not.
LEMMA OnTheWayStays ==
  ASSUME Outside, NEW p \in Path, Sent(p) => Sent(p)'
  PROVE  OnTheWay(p) => OnTheWay(p)'
  BY OutsideFrame DEF OnTheWay

\* A file that is listed is in a directory that is watched, so its event is queued.
LEMMA Seen ==
  ASSUME FInv, NEW p \in Path, NEW op \in {"create", "write", "remove"}, Notify(op, p)
  PROVE  /\ watch = "running" /\ p \in listed => InRaw(p)' /\ (op = "remove" => Removal(p)')
         /\ \A q \in Path : (InRaw(q) => InRaw(q)') /\ (Removal(q) => Removal(q)')
         /\ watch # "running" => raw' = raw
<1> DEFINE e == [op |-> op, path |-> p]
<1>1. e \in Events /\ e.path = p /\ e.op = op
  BY DEF Events
<1>2. raw' = raw \/ raw' = Append(raw, e)
  BY DEF Notify
<1>3. watch = "running" /\ p \in listed => raw' = Append(raw, e)
  BY DEF Notify, FInv, Reachable
<1> HIDE DEF e
<1>4. ASSUME raw' = Append(raw, e)
      PROVE  /\ InRaw(p)' /\ (op = "remove" => Removal(p)')
             /\ \A q \in Path : (InRaw(q) => InRaw(q)') /\ (Removal(q) => Removal(q)')
  BY <1>1, <1>4, Appended DEF FInv
<1>5. ASSUME raw' = raw
      PROVE  \A q \in Path : (InRaw(q) => InRaw(q)') /\ (Removal(q) => Removal(q)')
  BY <1>5 DEF InRaw, Removal
<1> QED
  BY <1>2, <1>3, <1>4, <1>5 DEF Notify

\* What holds of the other files when one changes.
LEMMA DiskElsewhere ==
  ASSUME FInv, Outside, UNCHANGED <<watch, listed, changed, deleted, batches>>, NEW q \in Path,
         disk'[q] = disk[q], InRaw(q) => InRaw(q)', Removal(q) => Removal(q)'
  PROVE  Leaves(q)' /\ Stays(q)' /\ (Expected(q) => Expected(q)')
<1>1. Sent(q)' <=> Sent(q)
  BY DEF Sent
<1>2. Noted(q) => Noted(q)'
  BY <1>1, OnTheWayStays DEF Noted
<1>3. Expected(q) => Expected(q)'
  BY <1>2 DEF Expected
<1> QED
  BY <1>2, <1>3, OutsideFrame, FollowsAll DEF Leaves, Stays

LEMMA FileRemoved ==
  ASSUME FInv, Outside, IInv', NEW p \in Path, DiskRemoves(p)
  PROVE  FInv'
<1>1. /\ UNCHANGED <<dir, watch, listed, changed, deleted, timer, scan, batches>>
      /\ disk' = [disk EXCEPT ![p] = Missing] /\ Notify("remove", p)
  BY DEF DiskRemoves
<1>2. disk \in [Path -> Text \cup {Missing}]
  BY Known DEF FInv
<1>3. disk'[p] = Missing /\ \A q \in Path \ {p} : disk'[q] = disk[q]
  BY <1>1, <1>2
<1>4. /\ watch = "running" /\ p \in listed => InRaw(p)' /\ Removal(p)'
      /\ \A q \in Path : (InRaw(q) => InRaw(q)') /\ (Removal(q) => Removal(q)')
      /\ watch # "running" => raw' = raw
  BY <1>1, Seen
<1>5. \A q \in Path \ {p} : Leaves(q)' /\ Stays(q)' /\ (Expected(q) => Expected(q)')
  BY <1>1, <1>3, <1>4, DiskElsewhere
<1>6. Leaves(p)'
  <2> SUFFICES ASSUME watch' = "running" PROVE ((p \in listed /\ Removal(p)) \/ Noted(p) \/ p \in known \ listed \/ Gone(p))'
    BY DEF Leaves
  <2>1. CASE p \in listed
    BY <1>1, <1>4, <2>1
  <2>2. CASE p \notin listed /\ p \in known
    BY <1>1, <2>2, OutsideFrame
  <2>3. CASE p \in skipped
    BY <2>3, OutsideFrame DEF Noted, OnTheWay
  <2>4. CASE p \notin known /\ p \notin skipped
    BY <1>1, <2>4, UnknownGone, OutsideFrame
  <2> QED
    BY <2>1, <2>2, <2>3, <2>4
<1>7. Stays(p)'
  BY <1>3 DEF Stays
<1>8. Reachable'
  BY <1>1, <1>3 DEF FInv, Reachable
<1>9. Later'
  BY <1>1, OutsideFrame DEF FInv, Later
<1>10. Committing'
  <2> SUFFICES ASSUME worker'.at = "commit" PROVE Committing'
    BY DEF Committing
  <2>1. worker.job.path \in Path
    BY OutsideFrame, Parts DEF FInv, Staging, InHand, Jobs
  <2> QED
    BY <1>1, <1>3, <1>5, <2>1, OutsideFrame DEF FInv, Committing
<1>11. Up \/ UNCHANGED <<watch, raw, changed, deleted, batches>>
  BY <1>1, <1>4 DEF FInv, Phases
<1> QED
  BY <1>5, <1>6, <1>7, <1>8, <1>9, <1>10, <1>11, OutsideKeeps

LEMMA FileWritten ==
  ASSUME FInv, Outside, IInv', NEW p \in Path, NEW t \in Text, DiskWrites(p, t)
  PROVE  FInv'
<1>1. PICK op \in {"create", "write"} :
        /\ UNCHANGED <<dir, watch, listed, changed, deleted, timer, scan, batches>>
        /\ disk' = [disk EXCEPT ![p] = t] /\ Notify(op, p)
  BY DEF DiskWrites
<1>2. disk \in [Path -> Text \cup {Missing}]
  BY Known DEF FInv
<1>3. disk'[p] = t /\ t # Missing /\ \A q \in Path \ {p} : disk'[q] = disk[q]
  BY <1>1, <1>2
<1>4. /\ watch = "running" /\ p \in listed => InRaw(p)'
      /\ \A q \in Path : (InRaw(q) => InRaw(q)') /\ (Removal(q) => Removal(q)')
      /\ watch # "running" => raw' = raw
  BY <1>1, Seen
<1>5. \A q \in Path \ {p} : Leaves(q)' /\ Stays(q)' /\ (Expected(q) => Expected(q)')
  BY <1>1, <1>3, <1>4, DiskElsewhere
<1>6. Leaves(p)'
  BY <1>3 DEF Leaves
<1>7. watch' = "running" => Expected(p)'
  BY <1>1, <1>4 DEF Expected
<1>8. Stays(p)'
  BY <1>7 DEF Stays
<1>9. Reachable'
  <2>1. p \in Nested => dir # "absent"
    BY DEF DiskWrites
  <2> QED
    BY <1>1, <1>3, <2>1 DEF FInv, Reachable
<1>10. Later'
  BY <1>1, OutsideFrame DEF FInv, Later
<1>11. Committing'
  <2> SUFFICES ASSUME worker'.at = "commit" PROVE Committing'
    BY DEF Committing
  <2>1. worker.job.path \in Path
    BY OutsideFrame, Parts DEF FInv, Staging, InHand, Jobs
  <2> QED
    BY <1>1, <1>3, <1>5, <1>7, <2>1, OutsideFrame DEF FInv, Committing
<1>12. Up \/ UNCHANGED <<watch, raw, changed, deleted, batches>>
  BY <1>1, <1>4 DEF FInv, Phases
<1> QED
  BY <1>5, <1>6, <1>8, <1>9, <1>10, <1>11, <1>12, OutsideKeeps

LEMMA DirectoryMade ==
  ASSUME FInv, Outside, IInv', MakeDirectory
  PROVE  FInv'
<1>1. /\ UNCHANGED <<disk, watch, listed, changed, deleted, timer, scan, batches>>
      /\ dir = "absent" /\ dir' = "present" /\ Notify("mkdir", None)
  BY DEF MakeDirectory
<1>2. /\ \A q \in Path : (InRaw(q) => InRaw(q)') /\ (Removal(q) => Removal(q)')
      /\ watch # "running" => raw' = raw
  <2> DEFINE e == [op |-> "mkdir", path |-> None]
  <2>1. e \in Events
    BY DEF Events
  <2>2. raw' = raw \/ raw' = Append(raw, e)
    BY <1>1 DEF Notify
  <2> HIDE DEF e
  <2>3. ASSUME raw' = Append(raw, e)
        PROVE  \A q \in Path : (InRaw(q) => InRaw(q)') /\ (Removal(q) => Removal(q)')
    BY <2>1, <2>3, Appended DEF FInv
  <2>4. ASSUME raw' = raw
        PROVE  \A q \in Path : (InRaw(q) => InRaw(q)') /\ (Removal(q) => Removal(q)')
    BY <2>4 DEF InRaw, Removal
  <2> QED
    BY <1>1, <2>2, <2>3, <2>4 DEF Notify
<1>3. \A q \in Path : Leaves(q)' /\ Stays(q)' /\ (Expected(q) => Expected(q)')
  BY <1>1, <1>2, DiskElsewhere
<1>4. Reachable' /\ Later'
  BY <1>1, OutsideFrame DEF FInv, Reachable, Later
<1>5. Committing'
  <2> SUFFICES ASSUME worker'.at = "commit" PROVE Committing'
    BY DEF Committing
  <2>1. worker.job.path \in Path
    BY OutsideFrame, Parts DEF FInv, Staging, InHand, Jobs
  <2> QED
    BY <1>1, <1>3, <2>1, OutsideFrame DEF FInv, Committing
<1>6. Up \/ UNCHANGED <<watch, raw, changed, deleted, batches>>
  BY <1>1, <1>2 DEF FInv, Phases
<1> QED
  BY <1>3, <1>4, <1>5, <1>6, OutsideKeeps

LEMMA WatcherFailed ==
  ASSUME FInv, Outside, IInv', WatchFails
  PROVE  FInv'
<1>1. /\ UNCHANGED <<disk, dir, batches>> /\ watch = "running" /\ watch' = "failed"
      /\ listed' = {} /\ deleted' = {} /\ scan' = None
  BY DEF WatchFails, Drop, diskVars
<1>2. \A q \in Path : Leaves(q)' /\ Stays(q)'
  BY <1>1 DEF Leaves, Stays
<1>3. Reachable'
  BY <1>1 DEF FInv, Reachable
<1>4. Later'
  BY <1>1 DEF Later
<1>5. Committing'
  BY <1>1, OutsideFrame DEF FInv, Committing
<1>6. Up
  BY <1>1 DEF FInv, Phases
<1> QED
  BY <1>2, <1>3, <1>4, <1>5, <1>6, OutsideKeeps

\* The steps of Run, which leave the disk: what is left to prove of them.
LEMMA RunKeeps ==
  ASSUME FInv, Outside, IInv', UNCHANGED <<disk, watch>>, watch = "running", Reachable', Later',
         \A p \in Path : Leaves(p)' /\ (disk[p] # Missing /\ Expected(p) => Expected(p)')
  PROVE  FInv'
<1>1. \A p \in Path : Stays(p)'
  BY OutsideFrame, FollowsAll DEF Stays
<1>2. Committing'
  <2> SUFFICES ASSUME worker'.at = "commit" PROVE Committing'
    BY DEF Committing
  <2>1. worker.job.path \in Path
    BY OutsideFrame, Parts DEF FInv, Staging, InHand, Jobs
  <2> QED
    BY <2>1, OutsideFrame DEF FInv, Committing
<1>3. Up
  BY DEF FInv, Phases
<1> QED
  BY <1>1, <1>2, <1>3, OutsideKeeps

LEMMA Scanned ==
  ASSUME FInv, Outside, IInv', Scan
  PROVE  FInv'
<1>1. /\ UNCHANGED <<disk, dir, watch, raw, listed, changed, deleted, batches>> /\ watch = "running"
      /\ scan' = [files |-> Existing, dir |-> dir # "absent"]
  BY DEF Scan, diskVars
<1>2. \A p \in Path : (InRaw(p)' <=> InRaw(p)) /\ (Removal(p)' <=> Removal(p)) /\ (Sent(p)' <=> Sent(p))
  BY <1>1 DEF InRaw, Removal, Sent
<1>3. \A p \in Path : Noted(p)' <=> Noted(p)
  BY <1>1, <1>2, OutsideFrame DEF Noted, OnTheWay
<1>4. \A p \in Path : Leaves(p)' /\ (Expected(p) => Expected(p)')
  BY <1>1, <1>2, <1>3, OutsideFrame, FollowsAll DEF Leaves, Expected
<1>5. Reachable'
  BY <1>1 DEF FInv, Reachable, Existing
<1>6. Later'
  BY <1>1, OutsideFrame DEF FInv, Later
<1> QED
  BY <1>1, <1>4, <1>5, <1>6, RunKeeps

LEMMA EventConsumed ==
  ASSUME FInv, Outside, IInv', Consume
  PROVE  FInv'
<1> DEFINE e == Head(raw)
           gone == {e.path} \cap listed
<1>1. /\ UNCHANGED <<disk, dir, watch, scan, batches>> /\ watch = "running"
  BY DEF Consume, diskVars
<1>2. /\ raw # <<>> /\ e \in Events /\ raw' = Tail(raw)
      /\ \/ e.op = "mkdir" /\ UNCHANGED <<listed, changed, deleted>>
         \/ /\ e.op = "remove" /\ e.path \in Path
            /\ listed' = listed \ gone /\ changed' = changed \ gone /\ deleted' = deleted \cup gone
         \/ /\ e.op \in {"create", "write"} /\ e.path \in Path /\ disk[e.path] # Missing
            /\ changed' = changed \cup {e.path} /\ deleted' = deleted \ {e.path} /\ UNCHANGED listed
         \/ /\ e.op \in {"create", "write"} /\ e.path \in Path /\ disk[e.path] = Missing
            /\ UNCHANGED <<listed, changed, deleted>>
  BY Consumed, Parts, WatcherParts DEF FInv
<1>3. e.op = "mkdir" => e.path \notin Path
  BY <1>2 DEF Events
<1>4. /\ \A p \in Path : p # e.path => (InRaw(p) => InRaw(p)')
      /\ \A p \in Path : e.path # p \/ e.op # "remove" => (Removal(p) => Removal(p)')
  BY <1>2, Removed DEF FInv
<1> HIDE DEF e
<1>5. \A p \in Path : OnTheWay(p) => OnTheWay(p)'
  <2>1. \A p \in Path : Sent(p) => Sent(p)'
    BY <1>1 DEF Sent
  <2> QED
    BY <2>1, OnTheWayStays
<1>6. \A p \in Path : Noted(p) => Noted(p)'
  BY <1>2, <1>5 DEF Noted
<1>7. ASSUME NEW p \in Path
      PROVE  Leaves(p)' /\ (disk[p] # Missing /\ Expected(p) => Expected(p)')
  <2>1. CASE p # e.path
    <3>1. p \in listed' <=> p \in listed
      BY <1>2, <2>1
    <3> QED
      BY <1>1, <1>4, <1>6, <2>1, <3>1, OutsideFrame, FollowsAll DEF Leaves, Expected
  <2>2. CASE p = e.path /\ e.op = "remove"
    <3>1. p \notin listed' /\ listed' \subseteq listed /\ (p \in listed => p \in deleted')
      BY <1>2, <2>2
    <3>2. Expected(p)'
      BY <3>1 DEF Expected
    <3>3. Leaves(p)'
      BY <1>1, <1>6, <3>1, OutsideFrame, FollowsAll DEF Leaves, Noted
    <3> QED
      BY <3>2, <3>3
  <2>3. CASE p = e.path /\ e.op \in {"create", "write"} /\ disk[p] # Missing
    <3>1. Noted(p)'
      BY <1>2, <2>3 DEF Noted
    <3> QED
      BY <3>1 DEF Leaves, Expected
  <2>4. CASE p = e.path /\ e.op \in {"create", "write"} /\ disk[p] = Missing
    <3>1. listed' = listed
      BY <1>2, <2>4
    <3> QED
      BY <1>1, <1>4, <1>6, <2>4, <3>1, OutsideFrame, FollowsAll DEF Leaves
  <2> QED
    BY <1>2, <1>3, <2>1, <2>2, <2>3, <2>4
<1>8. Reachable'
  BY <1>1, <1>2 DEF FInv, Reachable
<1>9. Later'
  <2>1. listed' \subseteq listed /\ deleted' \cap listed' = {}
    BY <1>2 DEF FInv, Later
  <2> QED
    BY <1>1, <2>1, OutsideFrame DEF FInv, Later
<1> QED
  BY <1>1, <1>7, <1>8, <1>9, RunKeeps

\* What RefreshScope makes of a file: one that is not listed now is deleted if it was listed
\* or noted as deleted; one that was not listed before, or has changed, is changed.
LEMMA ScopeRefreshed ==
  ASSUME NEW files \in SUBSET Path, NEW p \in Path, deleted \cap listed = {}
  PROVE  LET b == RefreshScope(files)
         IN /\ b.deleted \cap files = {}
            /\ p \in files \ listed => p \in b.changed
            /\ p \in files /\ p \in changed \cup deleted => p \in b.changed
  BY DEF RefreshScope

\* The batch is sent after the others, if there is anything in it.
LEMMA Sending ==
  ASSUME IInv, NEW b \in Batches,
         batches' = IF b.changed \cup b.deleted = {} THEN batches ELSE Append(batches, b)
  PROVE  /\ \A p \in Path : (Sent(p) => Sent(p)') /\ (p \in b.changed \cup b.deleted => Sent(p)')
         /\ \A i \in DOMAIN batches : i \in DOMAIN batches' /\ batches'[i] = batches[i]
         /\ \A i \in DOMAIN batches', p \in Path :
              i \in DOMAIN batches \/ (batches'[i] = b /\ \A j \in DOMAIN batches : j < i)
         /\ \A p \in b.changed : \E j \in DOMAIN batches' : p \in batches'[j].changed /\ \A i \in DOMAIN batches : i < j
<1>1. batches \in Seq(Batches)
  BY Known
<1>2. CASE b.changed \cup b.deleted = {}
  <2>1. batches' = batches /\ b.changed = {}
    BY <1>2
  <2> QED
    BY <1>2, <2>1 DEF Sent
<1>3. CASE b.changed \cup b.deleted # {}
  <2>1. batches' = Append(batches, b)
    BY <1>3
  <2>2. /\ DOMAIN batches = 1..Len(batches) /\ DOMAIN batches' = 1..(Len(batches) + 1) /\ Len(batches) \in Nat
        /\ batches'[Len(batches) + 1] = b /\ \A i \in DOMAIN batches : batches'[i] = batches[i]
    BY <1>1, <2>1, AppendProperties
  <2>3. \A p \in Path : (Sent(p) => Sent(p)') /\ (p \in b.changed \cup b.deleted => Sent(p)')
    BY <2>2 DEF Sent
  <2>4. \A i \in DOMAIN batches : i < Len(batches) + 1 /\ i \in DOMAIN batches'
    BY <2>2
  <2>5. \A i \in DOMAIN batches' : i \in DOMAIN batches \/ i = Len(batches) + 1
    BY <2>2
  <2>6. Len(batches) + 1 \in DOMAIN batches'
    BY <2>2
  <2> QED
    BY <2>2, <2>3, <2>4, <2>5, <2>6
<1> QED
  BY <1>2, <1>3

LEMMA BatchSent ==
  ASSUME FInv, Outside, IInv', Flush
  PROVE  FInv'
<1> DEFINE files == scan.files
           b == RefreshScope(files)
<1>1. /\ UNCHANGED <<disk, watch, raw>> /\ watch = "running" /\ scan # None /\ scan' = None
      /\ listed' = files /\ changed' = {} /\ deleted' = {} /\ dir' = (IF scan.dir THEN "watched" ELSE dir)
      /\ batches' = IF b.changed \cup b.deleted = {} THEN batches ELSE Append(batches, b)
  BY DEF Flush
<1>2. files \in SUBSET Path /\ deleted \cap listed = {}
  BY <1>1, Known DEF FInv, Later
<1>3. b \in Batches
  BY <1>2, BatchIs, Parts, WatcherParts DEF FInv
<1>4. /\ b.deleted \cap files = {}
      /\ \A p \in files \ listed : p \in b.changed
      /\ \A p \in files : p \in changed \cup deleted => p \in b.changed
  BY <1>2, ScopeRefreshed
<1> HIDE DEF b
<1>5. /\ \A p \in Path : (Sent(p) => Sent(p)') /\ (p \in b.changed \cup b.deleted => Sent(p)')
      /\ \A i \in DOMAIN batches : i \in DOMAIN batches' /\ batches'[i] = batches[i]
      /\ \A i \in DOMAIN batches', p \in Path :
           i \in DOMAIN batches \/ (batches'[i] = b /\ \A j \in DOMAIN batches : j < i)
      /\ \A p \in b.changed : \E j \in DOMAIN batches' : p \in batches'[j].changed /\ \A i \in DOMAIN batches : i < j
  BY <1>1, <1>3, Sending DEF FInv
<1> HIDE DEF files
<1>6. \A p \in Path : OnTheWay(p) => OnTheWay(p)'
  BY <1>5, OnTheWayStays
<1>7. \A p \in Path : (InRaw(p)' <=> InRaw(p)) /\ (Removal(p)' <=> Removal(p))
  BY <1>1 DEF InRaw, Removal
<1>8. \A p \in files : p \in changed \cup deleted \/ p \notin listed => Noted(p)'
  BY <1>2, <1>4, <1>5 DEF Noted, OnTheWay
<1>9. ASSUME NEW p \in Path
      PROVE  Leaves(p)' /\ (Expected(p) => Expected(p)')
  <2>1. CASE p \in files
    <3>1. Noted(p) => Noted(p)'
      BY <1>6, <1>8, <2>1 DEF Noted
    <3>2. Expected(p) => Expected(p)'
      BY <1>7, <1>8, <2>1, <3>1 DEF Expected
    <3>3. Leaves(p)'
      BY <1>1, <1>7, <1>8, <2>1, <3>1, OutsideFrame, FollowsAll DEF Leaves
    <3> QED
      BY <3>2, <3>3
  <2>2. CASE p \notin files
    <3>1. Expected(p)'
      BY <1>1, <2>2 DEF Expected
    <3>2. Leaves(p)'
      <4>1. CASE p \in known
        BY <1>1, <2>2, <4>1, OutsideFrame DEF Leaves
      <4>2. CASE p \in skipped
        BY <4>2, OutsideFrame DEF Leaves, Noted, OnTheWay
      <4>3. CASE p \notin known /\ p \notin skipped
        BY <1>1, <4>3, UnknownGone, OutsideFrame DEF Leaves
      <4> QED
        BY <4>1, <4>2, <4>3
    <3> QED
      BY <3>1, <3>2
  <2> QED
    BY <2>1, <2>2
<1>10. Reachable'
  BY <1>1 DEF FInv, Reachable, files
<1>11. Later'
  <2>1. deleted' \cap listed' = {}
    BY <1>1
  <2>2. ASSUME NEW i \in DOMAIN batches', NEW p \in batches'[i].deleted \cap files
        PROVE  \E j \in DOMAIN batches' : i < j /\ p \in batches'[j].changed
    <3>1. i \in DOMAIN batches /\ batches'[i] = batches[i] /\ p \in Path
      BY <1>2, <1>4, <1>5, <2>2
    <3>2. CASE p \in listed
      <4>1. PICK j \in DOMAIN batches : i < j /\ p \in batches[j].changed
        BY <2>2, <3>1, <3>2 DEF FInv, Later
      <4> QED
        BY <1>5, <4>1
    <3>3. CASE p \notin listed
      BY <1>4, <1>5, <2>2, <3>1, <3>3
    <3> QED
      BY <3>2, <3>3
  <2>3. ASSUME batch # None, NEW p \in batch.deleted \cap files
        PROVE  \E j \in DOMAIN batches' : p \in batches'[j].changed
    <3>1. CASE p \in listed
      <4>1. PICK j \in DOMAIN batches : p \in batches[j].changed
        BY <2>3, <3>1 DEF FInv, Later
      <4> QED
        BY <1>5, <4>1
    <3>2. CASE p \notin listed
      BY <1>4, <1>5, <2>3, <3>2
    <3> QED
      BY <3>1, <3>2
  <2> QED
    BY <1>1, <2>1, <2>2, <2>3, OutsideFrame DEF Later
<1> QED
  BY <1>1, <1>9, <1>10, <1>11, RunKeeps

\* Nothing but the disk and the watcher.
LEMMA OutsideFollows ==
  ASSUME FInv, IInv', DiskStep \/ WatcherStep \/ WatchFails, Outside
  PROVE  FInv'
  BY FileRemoved, FileWritten, DirectoryMade, WatcherFailed, Scanned, EventConsumed, BatchSent
  DEF DiskStep, WatcherStep

-----------------------------------------------------------------------------
(* The steps of the others, which leave the disk and the watcher.           *)

\* What a step makes of a file: it is forgotten, it is to be indexed, or it is skipped.
Forgotten(p) == db'.row[p] = NoRow /\ pending'[p] = 0 /\ p \notin known' /\ p \notin skipped'
ToIndex(p) == p \in known' /\ pending'[p] # 0 /\ p \notin skipped'
Skipping(p) == p \in skipped' /\ pending'[p] = 0
SameFile(q) ==
  /\ db'.row[q] = db.row[q] /\ pending'[q] = pending[q]
  /\ (q \in known' <=> q \in known) /\ (q \in skipped' <=> q \in skipped)
Only(p) == \A q \in Path \ {p} : SameFile(q)

LEMMA NewsRests ==
  ASSUME UNCHANGED <<diskVars, watchVars>>
  PROVE  /\ \A p \in Path : /\ InRaw(p)' <=> InRaw(p)
                            /\ Removal(p)' <=> Removal(p)
                            /\ Sent(p)' <=> Sent(p)
         /\ UNCHANGED <<disk, dir, watch, raw, listed, changed, deleted, scan, batches>>
         /\ Reachable' <=> Reachable
  BY DEF diskVars, watchVars, InRaw, Removal, Sent, Reachable

LEMMA OthersKeep ==
  ASSUME FInv, IInv', UNCHANGED <<diskVars, watchVars>>, Phases', Committing', \A p \in Path : Follows(p)',
         UNCHANGED batch \/ (batch' # None => batch # None /\ batch'.deleted \subseteq batch.deleted)
  PROVE  FInv'
<1>1. Reachable'
  BY NewsRests DEF FInv
<1>2. Later'
  BY NewsRests DEF FInv, Later
<1> QED
  BY <1>1, <1>2 DEF FInv, Followed

\* Of a file that a step leaves there is news as before; so the opener may only do what
\* makes it no worse.
LEMMA NewsStays ==
  ASSUME FInv, UNCHANGED <<diskVars, watchVars>>, NEW q \in Path,
         q \in skipped => q \in skipped', q \in known => q \in known',
         InBatch(q) => InBatch(q)', Owed(q) => Owed(q)',
         Booked(q)', Gone(q) => Gone(q)', Kept(q) => Kept(q)'
  PROVE  Follows(q)'
<1>1. Noted(q) => Noted(q)'
  BY NewsRests DEF Noted, OnTheWay
<1> QED
  BY <1>1, NewsRests, FollowsAll DEF Follows, Leaves, Stays, Expected

LEMMA FileRests ==
  ASSUME FInv, UNCHANGED <<diskVars, watchVars, open>>, NEW q \in Path, SameFile(q),
         InBatch(q) => InBatch(q)', Owed(q) => Owed(q)'
  PROVE  Follows(q)' /\ (Expected(q) => Expected(q)')
<1>1. Pending(q)' <=> Pending(q)
  BY DEF SameFile, Pending
<1>2. Booked(q)' /\ (Gone(q) => Gone(q)') /\ (Kept(q) => Kept(q)')
  BY <1>1, NewsRests, FollowsAll DEF SameFile, Booked, Gone, Kept
<1>3. Follows(q)'
  BY <1>2, NewsStays DEF SameFile
<1>4. Expected(q) => Expected(q)'
  BY NewsRests DEF SameFile, Expected, Noted, OnTheWay
<1> QED
  BY <1>3, <1>4

\* A file that is handled follows at once, if the step saw it as it is or there is news.
LEMMA FileHandled ==
  ASSUME UNCHANGED <<diskVars, watchVars>>, NEW p \in Path,
         \/ Forgotten(p) /\ (disk[p] = Missing \/ p \notin listed \/ Sent(p))
         \/ ToIndex(p) /\ disk[p] # Missing
         \/ Skipping(p)
  PROVE  Follows(p)'
<1>1. CASE Forgotten(p) /\ (disk[p] = Missing \/ p \notin listed \/ Sent(p))
  <2>1. Gone(p)' /\ Booked(p)'
    BY <1>1 DEF Forgotten, Gone, Booked, Pending
  <2>2. disk[p] # Missing => Expected(p)'
    BY <1>1, NewsRests DEF Expected, Noted, OnTheWay
  <2> QED
    BY <2>1, <2>2, NewsRests DEF Follows, Leaves, Stays
<1>2. CASE ToIndex(p) /\ disk[p] # Missing
  <2>1. Kept(p)' /\ Booked(p)'
    BY <1>2 DEF ToIndex, Kept, Booked, Pending
  <2> QED
    BY <1>2, <2>1, NewsRests DEF Follows, Leaves, Stays
<1>3. CASE Skipping(p)
  <2>1. Noted(p)' /\ Expected(p)' /\ Booked(p)'
    BY <1>3 DEF Skipping, Noted, OnTheWay, Expected, Booked, Pending
  <2> QED
    BY <2>1 DEF Follows, Leaves, Stays
<1> QED
  BY <1>1, <1>2, <1>3

LEMMA Deleted ==
  ASSUME IInv, NEW p \in Path, DeletePath(p), UNCHANGED <<scanComplete, indexFatal>>
  PROVE  Forgotten(p) /\ Only(p)
<1>1. /\ db'.row = [db.row EXCEPT ![p] = NoRow] /\ known' = known \ {p}
      /\ pending' = [pending EXCEPT ![p] = 0] /\ skipped' = skipped \ {p}
  BY DeletePathEffect
<1>2. pending \in [Path -> Nat] /\ db.row \in [Path -> Marks]
  BY Parts, StoreParts DEF CoreOK
<1> QED
  BY <1>1, <1>2 DEF Forgotten, Only, SameFile

LEMMA Rescheduled ==
  ASSUME IInv, NEW p \in Path, Reschedule(p), UNCHANGED <<scanComplete, indexFatal>>
  PROVE  ToIndex(p) /\ Only(p)
<1>1. /\ db'.row = [db.row EXCEPT ![p] = IF @ = NoRow THEN NoRow ELSE Blank]
      /\ known' = known \cup {p} /\ skipped' = skipped \ {p}
      /\ pending' = [pending EXCEPT ![p] = NextGeneration(p)]
  BY RescheduleEffect
<1>2. pending \in [Path -> Nat] /\ db.row \in [Path -> Marks] /\ NextGeneration(p) # 0
  BY Parts, StoreParts, NewGeneration DEF CoreOK
<1> QED
  BY <1>1, <1>2 DEF ToIndex, Only, SameFile

LEMMA SoftSkipped ==
  ASSUME IInv, NEW p \in Path, SoftSkip(p), UNCHANGED <<scanComplete, indexFatal>>
  PROVE  Skipping(p) /\ Only(p)
<1>1. /\ db'.row = db.row \/ db'.row = [db.row EXCEPT ![p] = NoRow]
      /\ known' = known \ {p} /\ pending' = [pending EXCEPT ![p] = 0] /\ skipped' = skipped \cup {p}
  BY SoftSkipEffect
<1>2. pending \in [Path -> Nat] /\ db.row \in [Path -> Marks]
  BY Parts, StoreParts DEF CoreOK
<1> QED
  BY <1>1, <1>2 DEF Skipping, Only, SameFile

\* What the consumer, a query and the healer make of a file.
Seeing(p) ==
  /\ Only(p)
  /\ SameFile(p) \/ (Forgotten(p) /\ disk[p] = Missing) \/ (ToIndex(p) /\ disk[p] # Missing)

LEMMA Unseen ==
  ASSUME NEW p \in Path, UNCHANGED coreVars
  PROVE  Only(p) /\ SameFile(p)
  BY DEF coreVars, Only, SameFile

LEMMA Invalidated ==
  ASSUME IInv, NEW p \in Path, NEW admit \in BOOLEAN, InvalidateAndQueue(p, admit),
         UNCHANGED <<scanComplete, indexFatal>>
  PROVE  /\ Only(p)
         /\ \/ ~admit /\ SameFile(p)
            \/ Forgotten(p) /\ disk[p] = Missing
            \/ ToIndex(p) /\ disk[p] # Missing
<1>1. CASE p \notin known /\ ~admit
  BY <1>1, Unseen DEF InvalidateAndQueue
<1>2. CASE ~(p \notin known /\ ~admit) /\ disk[p] = Missing
  <2>1. DeletePath(p)
    BY <1>2 DEF InvalidateAndQueue
  <2>2. Forgotten(p) /\ Only(p)
    BY <2>1, Deleted
  <2> QED
    BY <1>2, <2>2
<1>3. CASE ~(p \notin known /\ ~admit) /\ disk[p] # Missing
  <2>1. Reschedule(p)
    BY <1>3 DEF InvalidateAndQueue
  <2>2. ToIndex(p) /\ Only(p)
    BY <2>1, Rescheduled
  <2> QED
    BY <1>3, <2>2
<1> QED
  BY <1>1, <1>2, <1>3

LEMMA FreshlyRead ==
  ASSUME IInv, NEW p \in Path, ReadFreshCache(p), UNCHANGED <<scanComplete, indexFatal>>
  PROVE  Seeing(p)
<1>1. CASE disk[p] = Missing
  <2>1. DeletePath(p)
    BY <1>1 DEF ReadFreshCache
  <2>2. Forgotten(p) /\ Only(p)
    BY <2>1, Deleted
  <2> QED
    BY <1>1, <2>2 DEF Seeing
<1>2. CASE disk[p] # Missing /\ (Pending(p) \/ db.row[p] = disk[p])
  BY <1>2, Unseen DEF ReadFreshCache, Seeing
<1>3. CASE disk[p] # Missing /\ ~(Pending(p) \/ db.row[p] = disk[p])
  <2>1. InvalidateAndQueue(p, FALSE)
    BY <1>3 DEF ReadFreshCache
  <2> QED
    BY <2>1, Invalidated DEF Seeing
<1> QED
  BY <1>1, <1>2, <1>3

\* Phases and Committing of a step that leaves the opener, and lets the worker alone.
LEMMA PhasesStay ==
  ASSUME FInv, Up, UNCHANGED <<open, scanComplete, indexFatal>>, InJob' => InJob \/ open.at = "done"
  PROVE  Phases'
  BY DEF FInv, Phases, Up

LEMMA WorkerApart == CacheFree /\ UNCHANGED worker => Committing'
  BY DEF CacheFree, Committing

LEMMA UpWhile ==
  ASSUME FInv
  PROVE  /\ batch # None \/ batches # <<>> \/ watch # "off" => Up
         /\ \A p \in heal.todo : Up
         /\ \A a \in Actor : owed[a] # None => Up
         /\ \A p \in Path : Pending(p) => Up
  BY DEF FInv, Phases, Pending

LEMMA QueryFollows ==
  ASSUME FInv, IInv', NEW p \in Path, AgentReads(p) \/ HealPath(p)
  PROVE  FInv'
<1>1. /\ UNCHANGED <<diskVars, watchVars, scanComplete, indexFatal, open, batch, worker, owed>>
      /\ ReadFreshCache(p) /\ CacheFree
  BY DEF AgentReads, HealPath, QueryRests, ReadFreshCache
<1>2. Up
  BY UpWhile DEF AgentReads, HealPath, InOrder
<1>3. Seeing(p)
  BY <1>1, FreshlyRead DEF FInv
<1>4. \A q \in Path : (InBatch(q) => InBatch(q)') /\ (Owed(q) => Owed(q)')
  BY <1>1 DEF InBatch, Owed
<1>5. \A q \in Path : Follows(q)'
  BY <1>1, <1>3, <1>4, FileRests, FileHandled DEF Seeing, Only
<1>6. Phases' /\ Committing'
  BY <1>1, <1>2, PhasesStay, WorkerApart DEF InJob
<1> QED
  BY <1>1, <1>5, <1>6, OthersKeep

\* Steps that leave the records of the files, what is owed, and the worker.
LEMMA NothingFollows ==
  ASSUME FInv, IInv', UNCHANGED <<diskVars, watchVars, coreVars, scanComplete, indexFatal, open, batch, worker, owed>>,
         heal'.todo \subseteq heal.todo \/ Up
  PROVE  FInv'
<1>1. \A q \in Path : SameFile(q)
  BY DEF coreVars, SameFile
<1>2. \A q \in Path : (InBatch(q) => InBatch(q)') /\ (Owed(q) => Owed(q)')
  BY DEF InBatch, Owed
<1>3. \A q \in Path : Follows(q)' /\ (Expected(q) => Expected(q)')
  BY <1>1, <1>2, FileRests
<1>4. Phases'
  BY NewsRests DEF FInv, Phases, Up, InJob, coreVars
<1>5. Committing'
  <2> SUFFICES ASSUME worker.at = "commit" PROVE Committing'
    BY DEF Committing
  <2>1. worker.job.path \in Path
    BY Parts DEF FInv, Staging, InHand, Jobs
  <2> QED
    BY <1>3, <2>1, NewsRests DEF FInv, Committing, coreVars
<1> QED
  BY <1>3, <1>4, <1>5, OthersKeep

LEMMA RestsFollow ==
  ASSUME FInv, IInv', AskHeal \/ HealerWakes \/ (\E p \in Path : AgentOpens(p)) \/ UNCHANGED indexingVars
  PROVE  FInv'
<1>1. UNCHANGED <<diskVars, watchVars, coreVars, scanComplete, indexFatal, open, batch, worker, owed>>
  BY DEF AskHeal, HealerWakes, AgentOpens, indexingVars, QueryRests, otherVars
<1>2. heal'.todo \subseteq heal.todo \/ Up
  <2>1. CASE HealerWakes
    BY <2>1 DEF HealerWakes, FInv, Phases
  <2>2. CASE AskHeal
    <3>1. heal \in [wake : BOOLEAN, todo : SUBSET Path] /\ heal' = [heal EXCEPT !.wake = TRUE]
      BY <2>2, Parts DEF FInv, RestOK, AskHeal
    <3> QED
      BY <3>1
  <2>3. CASE (\E p \in Path : AgentOpens(p)) \/ UNCHANGED indexingVars
    BY <2>3 DEF AgentOpens, indexingVars, otherVars
  <2> QED
    BY <2>1, <2>2, <2>3
<1> QED
  BY <1>1, <1>2, NothingFollows

\* The other files of the batch stay in it.
LEMMA BatchLeft ==
  ASSUME IInv, NEW p \in Path, NextInBatch(p) \/ UNCHANGED batch
  PROVE  \A q \in Path \ {p} : InBatch(q) => InBatch(q)'
<1> SUFFICES ASSUME NextInBatch(p), NEW q \in Path \ {p}, q \in batch.deleted \cup batch.changed
             PROVE  InBatch(q)'
  BY DEF InBatch
<1>1. batch.deleted \cup batch.changed # {p} /\ batch # None
  BY DEF NextInBatch
<1>2. batch' = [changed |-> batch.changed \ {p}, deleted |-> batch.deleted \ {p}]
  BY <1>1 DEF NextInBatch
<1>3. q \in batch'.changed \cup batch'.deleted
  BY <1>2
<1>4. batch' # None
  <2>1. batch \in Batches
    BY <1>1, Parts DEF RestOK
  <2>2. batch' \in Batches
    BY <1>2, <2>1 DEF Batches
  <2> QED
    BY <2>2, NoBatchAssumption
<1> QED
  BY <1>3, <1>4 DEF InBatch

\* An actor that fails on a file owes it to be skipped.
LEMMA FailureFollows ==
  ASSUME FInv, IInv', NEW p \in Path, NEW a \in Actor, (HealFails(p) /\ a = "healer") \/ (HandleFails(p) /\ a = "consumer")
  PROVE  FInv'
<1>1. /\ UNCHANGED <<diskVars, watchVars, coreVars, scanComplete, indexFatal, open, worker>>
      /\ owed[a] = None /\ Owe(a, p) /\ CacheFree /\ Up
      /\ UNCHANGED batch \/ NextInBatch(p)
  BY UpWhile DEF HealFails, HandleFails, QueryRests, NextInBatch, ConsumerRests, InOrder
<1>2. owed'[a] = p /\ \A b \in Actor \ {a} : owed'[b] = owed[b]
  BY <1>1, Parts DEF FInv, RestOK, Owe
<1>3. Owed(p)' /\ \A q \in Path : Owed(q) => Owed(q)'
  BY <1>1, <1>2 DEF Owed
<1>4. batch' # None => batch # None /\ batch'.deleted \subseteq batch.deleted
  BY <1>1 DEF NextInBatch
<1>5. \A q \in Path \ {p} : InBatch(q) => InBatch(q)'
  BY <1>1, BatchLeft DEF FInv
<1>6. \A q \in Path : SameFile(q)
  BY <1>1 DEF coreVars, SameFile
<1>7. \A q \in Path \ {p} : Follows(q)'
  BY <1>1, <1>3, <1>5, <1>6, FileRests
<1>8. Follows(p)'
  <2>1. Noted(p)' /\ Expected(p)'
    BY <1>3 DEF Noted, OnTheWay, Expected
  <2>2. Pending(p)' <=> Pending(p)
    BY <1>6 DEF SameFile, Pending
  <2>3. Booked(p)'
    BY <1>1, <1>6, <2>2, FollowsAll DEF SameFile, Booked
  <2> QED
    BY <2>1, <2>3 DEF Follows, Leaves, Stays
<1>9. Phases' /\ Committing'
  BY <1>1, PhasesStay, WorkerApart DEF InJob
<1> QED
  BY <1>1, <1>4, <1>7, <1>8, <1>9, OthersKeep

LEMMA SkipFollows ==
  ASSUME FInv, IInv', NEW a \in Actor, FailIndexPath(a)
  PROVE  FInv'
<1> DEFINE p == owed[a]
<1>1. /\ UNCHANGED <<diskVars, watchVars, scanComplete, indexFatal, open, batch, worker>>
      /\ p # None /\ SoftSkip(p) /\ Owe(a, None) /\ CacheFree
  BY DEF FailIndexPath
<1>2. p \in Path /\ Up
  BY <1>1, Parts, UpWhile DEF FInv, RestOK
<1>3. \A b \in Actor \ {a} : owed'[b] = owed[b]
  BY <1>1, Parts DEF FInv, RestOK, Owe
<1>4. \A q \in Path \ {p} : (Owed(q) => Owed(q)') /\ (InBatch(q) => InBatch(q)')
  BY <1>1, <1>3 DEF Owed, InBatch
<1>5. Skipping(p) /\ Only(p)
  BY <1>1, <1>2, SoftSkipped DEF FInv
<1> HIDE DEF p
<1>6. \A q \in Path : Follows(q)'
  BY <1>1, <1>2, <1>4, <1>5, FileRests, FileHandled DEF Only
<1>7. Phases' /\ Committing'
  BY <1>1, <1>2, PhasesStay, WorkerApart DEF InJob
<1> QED
  BY <1>1, <1>6, <1>7, OthersKeep

LEMMA HandlingFollows ==
  ASSUME FInv, IInv', NEW p \in Path, HandleDeleted(p) \/ HandleChanged(p)
  PROVE  FInv'
<1>1. /\ UNCHANGED <<diskVars, watchVars, scanComplete, indexFatal, open, worker, owed>>
      /\ NextInBatch(p) /\ CacheFree /\ batch # None
  BY DEF HandleDeleted, HandleChanged, NextInBatch, ConsumerRests
<1>2. Up
  BY <1>1, UpWhile
<1>3. batch' # None => batch # None /\ batch'.deleted \subseteq batch.deleted
  BY <1>1 DEF NextInBatch
<1>4. \A q \in Path \ {p} : (InBatch(q) => InBatch(q)') /\ (Owed(q) => Owed(q)')
  BY <1>1, BatchLeft DEF FInv, Owed
<1>5. /\ Only(p)
      /\ \/ Forgotten(p) /\ (disk[p] = Missing \/ p \notin listed \/ Sent(p))
         \/ ToIndex(p) /\ disk[p] # Missing
  <2>1. CASE HandleDeleted(p)
    <3>1. DeletePath(p) /\ p \in batch.deleted
      BY <2>1 DEF HandleDeleted
    <3>2. p \in listed => Sent(p)
      BY <1>1, <3>1 DEF FInv, Later, Sent
    <3> QED
      BY <1>1, <3>1, <3>2, Deleted DEF FInv
  <2>2. CASE HandleChanged(p)
    <3>1. InvalidateAndQueue(p, TRUE)
      BY <2>2 DEF HandleChanged
    <3> QED
      BY <1>1, <3>1, Invalidated DEF FInv
  <2> QED
    BY <2>1, <2>2
<1>6. \A q \in Path : Follows(q)'
  BY <1>1, <1>4, <1>5, FileRests, FileHandled DEF Only
<1>7. Phases' /\ Committing'
  BY <1>1, <1>2, PhasesStay, WorkerApart DEF InJob
<1> QED
  BY <1>1, <1>3, <1>6, <1>7, OthersKeep

LEMMA TakingFollows ==
  ASSUME FInv, IInv', TakeBatch
  PROVE  FInv'
<1>1. /\ UNCHANGED <<disk, dir, watch, raw, listed, changed, deleted, scan, open, worker, owed,
                     db, known, pending, skipped, scanComplete, indexFatal>>
      /\ batch = None /\ batches # <<>> /\ batch' = Head(batches) /\ batches' = Tail(batches) /\ Up
  BY DEF TakeBatch, ConsumerRests, coreVars, diskVars
<1>2. batches \in Seq(Batches)
  BY Known DEF FInv
<1>3. /\ DOMAIN batches = 1..Len(batches) /\ DOMAIN batches' = 1..(Len(batches) - 1) /\ Len(batches) \in Nat \ {0}
      /\ batch' = batches[1] /\ \A i \in 1..(Len(batches) - 1) : batches'[i] = batches[i + 1]
  BY <1>1, <1>2, HeadTailProperties
<1>4. batch' \in Batches /\ batch' # None
  <2>1. batch' \in Batches
    BY <1>2, <1>3
  <2> QED
    BY <2>1, NoBatchAssumption
<1>5. \A i \in DOMAIN batches : batches[i] = batch' \/ (i - 1 \in DOMAIN batches' /\ batches'[i - 1] = batches[i])
  BY <1>3
<1>6. \A i \in DOMAIN batches' : i + 1 \in DOMAIN batches /\ batches'[i] = batches[i + 1]
  BY <1>3
<1>7. \A p \in Path : Noted(p) => Noted(p)'
  <2>1. \A p \in Path : Sent(p) => Sent(p)' \/ InBatch(p)'
    BY <1>4, <1>5 DEF Sent, InBatch
  <2>2. \A p \in Path : ~InBatch(p) /\ (Owed(p) => Owed(p)')
    BY <1>1 DEF InBatch, Owed
  <2> QED
    BY <1>1, <2>1, <2>2 DEF Noted, OnTheWay
<1>8. \A p \in Path : /\ InRaw(p)' <=> InRaw(p)
                      /\ Removal(p)' <=> Removal(p)
                      /\ Gone(p)' <=> Gone(p)
                      /\ Kept(p)' <=> Kept(p)
                      /\ Booked(p)' <=> Booked(p)
  BY <1>1 DEF InRaw, Removal, Gone, Kept, Booked, Pending
<1>9. \A p \in Path : Follows(p)' /\ (Expected(p) => Expected(p)')
  BY <1>1, <1>7, <1>8, FollowsAll DEF Follows, Leaves, Stays, Expected
<1>10. Reachable'
  BY <1>1 DEF FInv, Reachable
<1>11. Later'
  <2>1. deleted' \cap listed' = {}
    BY <1>1 DEF FInv, Later
  <2>2. ASSUME NEW i \in DOMAIN batches', NEW p \in batches'[i].deleted \cap listed
        PROVE  \E j \in DOMAIN batches' : i < j /\ p \in batches'[j].changed
    <3>1. PICK j \in DOMAIN batches : i + 1 < j /\ p \in batches[j].changed
      BY <1>6, <2>2 DEF FInv, Later
    <3>2. j - 1 \in DOMAIN batches' /\ i < j - 1 /\ batches'[j - 1] = batches[j]
      BY <1>3, <2>2, <3>1
    <3> QED
      BY <3>1, <3>2
  <2>3. ASSUME NEW p \in batch'.deleted \cap listed
        PROVE  \E j \in DOMAIN batches' : p \in batches'[j].changed
    <3>1. 1 \in DOMAIN batches /\ p \in batches[1].deleted \cap listed
      BY <1>3, <2>3
    <3>2. PICK j \in DOMAIN batches : 1 < j /\ p \in batches[j].changed
      BY <3>1 DEF FInv, Later
    <3>3. j - 1 \in DOMAIN batches' /\ batches'[j - 1] = batches[j]
      BY <1>3, <3>2
    <3> QED
      BY <3>2, <3>3
  <2> QED
    BY <1>1, <2>1, <2>2, <2>3 DEF Later
<1>12. Phases'
  BY <1>1, PhasesStay DEF InJob
<1>13. Committing'
  <2> SUFFICES ASSUME worker.at = "commit" PROVE Committing'
    BY <1>1 DEF Committing
  <2>1. worker.job.path \in Path
    BY Parts DEF FInv, Staging, InHand, Jobs
  <2> QED
    BY <1>1, <1>9, <2>1 DEF FInv, Committing
<1> QED
  BY <1>9, <1>10, <1>11, <1>12, <1>13 DEF FInv, Followed

\* The watcher is gone: no file is followed any more.
LEMMA NotFollowed ==
  ASSUME watch' # "running", NEW p \in Path, Booked(p)'
  PROVE  Follows(p)'
  BY DEF Follows, Leaves, Stays

LEMMA StoppedFollows ==
  ASSUME FInv, IInv', WatcherStopped
  PROVE  FInv'
<1>1. /\ UNCHANGED <<disk, dir, db, known, pending, skipped, open, batch, heal, owed, worker>>
      /\ watch = "failed" /\ watch' = "off" /\ listed' = {} /\ deleted' = {} /\ scan' = None /\ batches' = <<>>
      /\ indexFatal' = TRUE /\ CacheFree
  BY DEF WatcherStopped, Fail, Unwatch, Drop, diskVars
<1>2. Up
  BY <1>1, UpWhile
<1>3. \A p \in Path : Booked(p)' <=> Booked(p)
  BY <1>1 DEF Booked, Pending
<1>4. \A p \in Path : Follows(p)'
  BY <1>1, <1>3, FollowsAll, NotFollowed
<1>5. Reachable' /\ Later' /\ Phases'
  BY <1>1, <1>2 DEF FInv, Reachable, Later, Phases, Up, InJob
<1>6. Committing'
  BY <1>1, WorkerApart
<1> QED
  BY <1>4, <1>5, <1>6 DEF FInv, Followed

LEMMA StopFollows ==
  ASSUME FInv, IInv', Stop
  PROVE  FInv'
<1>1. /\ disk' = disk /\ dir' \in {"absent", "present"} /\ (dir' = "absent" <=> dir = "absent")
      /\ watch' = "off" /\ raw' = <<>> /\ listed' = {} /\ changed' = {} /\ deleted' = {} /\ scan' = None /\ batches' = <<>>
      /\ known' = {} /\ skipped' = {} /\ batch' = None /\ pending' = [p \in Path |-> 0]
      /\ owed' = [a \in Actor |-> None] /\ heal' = [wake |-> FALSE, todo |-> {}]
      /\ scanComplete' = FALSE /\ indexFatal' = FALSE
  BY DEF Stop, Unwatch, Drop
<1>2. open'.at = "closed" /\ worker'.at = "wait"
  BY DEF Stop, Closed, Resting
<1>3. \A p \in Path : pending'[p] = 0
  BY <1>1
<1>4. \A p \in Path : Follows(p)'
  BY <1>1, <1>2, <1>3, NotFollowed DEF Booked, Pending
<1>5. Reachable' /\ Later'
  BY <1>1 DEF FInv, Reachable, Later
<1>6. Phases' /\ Committing'
  BY <1>1, <1>2, <1>3 DEF Phases, Committing, Up, InJob
<1> QED
  BY <1>4, <1>5, <1>6 DEF FInv, Followed

\* An expired row counts as invalidated.
LEMMA ExpiryFollows ==
  ASSUME FInv, IInv', NEW p \in Path, Expire(p)
  PROVE  FInv'
<1>1. /\ UNCHANGED <<diskVars, watchVars, scanComplete, indexFatal, open, batch, worker, owed, known, pending, skipped, heal>>
      /\ p \in Indexed(db) /\ db' = InvalidateFile(db, p)
  BY DEF Expire, QueryRests
<1>2. db'.row = [db.row EXCEPT ![p] = Blank] /\ db.row \in [Path -> Marks] /\ db.row[p] \in Text
  BY <1>1, Parts, InvalidateFileType, StoreParts DEF FInv, CoreOK, Indexed
<1>3. db'.row[p] = Blank /\ \A q \in Path \ {p} : db'.row[q] = db.row[q]
  BY <1>2
<1>4. \A q \in Path : (InBatch(q) => InBatch(q)') /\ (Owed(q) => Owed(q)') /\ (Pending(q)' <=> Pending(q))
  BY <1>1 DEF InBatch, Owed, Pending
<1>5. \A q \in Path \ {p} : Follows(q)' /\ (Expected(q) => Expected(q)')
  BY <1>1, <1>3, <1>4, FileRests DEF SameFile
<1>6. Booked(p)' /\ (Gone(p) => Gone(p)')
  BY <1>1, <1>2, <1>3, <1>4, FollowsAll DEF Booked, Gone
<1>7. Kept(p) => Kept(p)'
  BY <1>1, <1>3, <1>4, NewsRests DEF Kept
<1>8. Follows(p)'
  BY <1>1, <1>4, <1>6, <1>7, NewsStays
<1>9. Expected(p) => Expected(p)'
  BY <1>1, <1>4, NewsRests DEF Expected, Noted, OnTheWay
<1>10. Phases'
  BY <1>1, NewsRests DEF FInv, Phases, Up, InJob
<1>11. Committing'
  <2> SUFFICES ASSUME worker.at = "commit" PROVE Committing'
    BY <1>1 DEF Committing
  <2>1. worker.job.path \in Path
    BY Parts DEF FInv, Staging, InHand, Jobs
  <2>2. db'.row[worker.job.path] \in {worker.text, Blank}
    BY <1>3, <2>1 DEF FInv, Committing
  <2> QED
    BY <1>1, <1>5, <1>9, <2>1, <2>2, NewsRests DEF FInv, Committing
<1> QED
  BY <1>1, <1>5, <1>8, <1>10, <1>11, OthersKeep

-----------------------------------------------------------------------------
(* The steps of the opener.                                                 *)

LEMMA OpeningFollows ==
  ASSUME FInv, IInv', OpenWorkspace
  PROVE  FInv'
<1>1. /\ UNCHANGED <<disk, raw, changed, deleted, scan, batches, known, pending, skipped, scanComplete,
                     indexFatal, batch, owed, worker>>
      /\ ~Up /\ watch' = "running" /\ listed' = Existing
      /\ dir' = (IF dir = "absent" THEN "absent" ELSE "watched")
  BY DEF OpenWorkspace, Watch
<1>2. open'.at = "list"
  BY Parts DEF FInv, OpenOK, OpenWorkspace
<1>3. /\ ~scanComplete /\ ~InJob /\ \A p \in Path : ~Pending(p)
      /\ deleted = {} /\ batches = <<>> /\ batch = None
  BY <1>1 DEF FInv, Phases, Up, Pending
<1>4. \A p \in Path : Booked(p)' /\ Gone(p)' /\ Kept(p)'
  BY <1>1, <1>2, <1>3 DEF Booked, Gone, Kept, Pending
<1>5. \A p \in Path : Follows(p)'
  BY <1>4 DEF Follows, Leaves, Stays
<1>6. Reachable'
  BY <1>1 DEF FInv, Reachable, Existing
<1>7. Later' /\ Phases' /\ Committing'
  BY <1>1, <1>2, <1>3 DEF Later, Phases, Committing, InJob, Up
<1> QED
  BY <1>5, <1>6, <1>7 DEF FInv, Followed

\* What is the same in the other steps, and what is left to prove of them.
OpenerAt(stations) ==
  /\ UNCHANGED <<diskVars, watchVars, batch, worker, heal>>
  /\ open.at \in stations /\ open.at \notin {"closed", "done"}

LEMMA OpenerKeeps ==
  ASSUME FInv, IInv', NEW S, OpenerAt(S), open'.at # "closed", open'.at = "done" \/ UNCHANGED scanComplete \/ indexFatal',
         UNCHANGED indexFatal \/ indexFatal',
         open'.at \in {"check", "stage"} => open'.todo \subseteq open'.paths, \A p \in Path : Follows(p)'
  PROVE  FInv'
<1>1. Up /\ ~InJob /\ (scanComplete => indexFatal)
  BY DEF OpenerAt, FInv, Phases, Up
<1>2. Phases'
  BY <1>1 DEF OpenerAt, Phases, Up, InJob
<1>3. Committing'
  BY <1>1 DEF OpenerAt, Committing, InJob
<1> QED
  BY <1>2, <1>3, OthersKeep DEF OpenerAt

LEMMA OpenerMoves ==
  ASSUME FInv, NEW S, OpenerAt(S), UNCHANGED owed, known \subseteq known', skipped \subseteq skipped',
         NEW q \in Path, Booked(q)', Gone(q) => Gone(q)', Kept(q) => Kept(q)'
  PROVE  Follows(q)'
<1>1. (InBatch(q) => InBatch(q)') /\ (Owed(q) => Owed(q)')
  BY DEF OpenerAt, InBatch, Owed
<1> QED
  BY <1>1, NewsStays DEF OpenerAt

LEMMA ListingFollows ==
  ASSUME FInv, IInv', List \/ AddKnown
  PROVE  FInv'
<1> USE DEF OpenerRests, coreVars
<1>1. ASSUME List
      PROVE  FInv'
  <2>1. /\ OpenerAt({"list"}) /\ UNCHANGED <<disk, db, known, pending, skipped, scanComplete, indexFatal, owed>>
        /\ open.at = "list"
    BY <1>1 DEF List, OpenerAt, diskVars
  <2>2. open'.at = "known" /\ open'.paths = Existing
    BY <1>1, Parts DEF FInv, OpenOK, List
  <2>3. ASSUME NEW p \in Path
        PROVE  Booked(p)' /\ (Gone(p) => Gone(p)') /\ (disk[p] # Missing => Kept(p)')
    BY <2>1, <2>2, FollowsAll DEF Booked, Gone, Kept, Pending, Existing
  <2>4. \A p \in Path : (InBatch(p) => InBatch(p)') /\ (Owed(p) => Owed(p)')
    BY <2>1 DEF OpenerAt, InBatch, Owed
  <2>5. \A p \in Path : Noted(p) => Noted(p)'
    BY <2>1, <2>4, NewsRests DEF OpenerAt, Noted, OnTheWay
  <2>6. \A p \in Path : Follows(p)'
    BY <2>1, <2>3, <2>5, NewsRests, FollowsAll DEF OpenerAt, Follows, Leaves, Stays
  <2> QED
    BY <2>1, <2>2, <2>6, OpenerKeeps
<1>2. ASSUME AddKnown
      PROVE  FInv'
  <2>1. /\ OpenerAt({"known"}) /\ UNCHANGED <<disk, db, pending, skipped, scanComplete, indexFatal, owed>>
        /\ open.at = "known" /\ known' = known \cup open.paths
    BY <1>2 DEF AddKnown, OpenerAt, diskVars
  <2>2. open'.at = "reconcile" /\ open'.paths = open.paths
    BY <1>2, Parts DEF FInv, OpenOK, AddKnown
  <2>3. ASSUME NEW p \in Path
        PROVE  Booked(p)' /\ (Gone(p) => Gone(p)') /\ (Kept(p) => Kept(p)')
    BY <2>1, <2>2, FollowsAll DEF Booked, Gone, Kept, Pending
  <2>4. \A p \in Path : Follows(p)'
    BY <2>1, <2>3, OpenerMoves
  <2> QED
    BY <2>1, <2>2, <2>4, OpenerKeeps
<1> QED
  BY <1>1, <1>2

LEMMA ReconcilingFollows ==
  ASSUME FInv, IInv', Reconcile
  PROVE  FInv'
<1>1. /\ OpenerAt({"reconcile"}) /\ UNCHANGED <<disk, known, pending, skipped, scanComplete, indexFatal, owed>>
      /\ open.at = "reconcile" /\ db' = ReconcileWorkspace(db, open.paths)
  BY DEF Reconcile, OpenerAt, OpenerRests, diskVars
<1>2. /\ open'.paths = open.paths /\ open'.todo = open.paths
      /\ open'.at = IF open.paths = {} THEN "queue" ELSE "check"
  BY Parts DEF FInv, OpenOK, Reconcile, NextPass
<1>3. \A p \in Path : db'.row[p] = IF p \in open.paths THEN db.row[p] ELSE NoRow
  <2>1. db \in Store /\ open.paths \in SUBSET Path
    BY Parts, Known DEF FInv, CoreOK
  <2>2. db'.row = [p \in Path |-> IF p \in open.paths THEN db.row[p] ELSE NoRow]
    BY <1>1, <2>1, ReconcileType
  <2> QED
    BY <2>2
<1>4. ASSUME NEW p \in Path
      PROVE  Booked(p)' /\ (Gone(p) => Gone(p)') /\ (Kept(p) => Kept(p)')
  <2>1. Booked(p)'
    BY <1>1, <1>2, <1>3, FollowsAll DEF Booked, Pending
  <2>2. Gone(p) => Gone(p)'
    BY <1>1, <1>2, <1>3 DEF Gone, Pending
  <2>3. Kept(p) => Kept(p)'
    BY <1>1, <1>2, <1>3 DEF Kept, Pending
  <2> QED
    BY <2>1, <2>2, <2>3
<1>5. \A p \in Path : Follows(p)'
  BY <1>1, <1>4, OpenerMoves
<1> QED
  BY <1>1, <1>2, <1>5, OpenerKeeps

\* When the opening fails as a whole, nothing is expected of the index.
LEMMA AbortFollows ==
  ASSUME FInv, IInv', OpeningFails
  PROVE  FInv'
<1>1. /\ OpenerAt({"list", "reconcile"}) /\ UNCHANGED <<disk, db, known, pending, skipped, owed>> /\ indexFatal' = TRUE
  BY DEF OpeningFails, OpenerAt, OpenerRests, Fail, diskVars
<1>2. open'.at = "aborted"
  BY DEF OpeningFails, Closed
<1>3. ASSUME NEW p \in Path
      PROVE  Booked(p)' /\ (Gone(p) => Gone(p)') /\ (Kept(p) => Kept(p)')
  BY <1>1, <1>2, FollowsAll DEF Booked, Gone, Kept, Pending
<1>4. \A p \in Path : Follows(p)'
  BY <1>1, <1>3, OpenerMoves
<1> QED
  BY <1>1, <1>2, <1>4, OpenerKeeps

LEMMA FinishFollows ==
  ASSUME FInv, IInv', FinishStaging
  PROVE  FInv'
<1>1. /\ OpenerAt({"queue"}) /\ UNCHANGED <<disk, db, known, pending, skipped, indexFatal, owed>>
      /\ open.at = "queue"
  BY DEF FinishStaging, OpenerAt, OpenerRests, diskVars
<1>2. open'.at = "done"
  BY DEF FinishStaging, Closed
<1>3. ASSUME NEW p \in Path
      PROVE  Booked(p)' /\ (Gone(p) => Gone(p)') /\ (Kept(p) => Kept(p)')
  BY <1>1, <1>2, FollowsAll DEF Booked, Gone, Kept, Pending
<1>4. \A p \in Path : Follows(p)'
  BY <1>1, <1>3, OpenerMoves
<1> QED
  BY <1>1, <1>2, <1>4, OpenerKeeps

\* One path of a pass is done; after the last one the next pass begins.
LEMMA PassMoves ==
  ASSUME OpenOK, NEW o \in [at : Stations.opener, paths : SUBSET Path, todo : SUBSET Path,
                            rebuild : BOOLEAN, jobs : Seq(Jobs)],
         o.at \in {"check", "stage"}, open' = NextPass(o)
  PROVE  /\ open'.paths = o.paths /\ open'.rebuild = o.rebuild
         /\ o.todo # {} => open'.at = o.at /\ open'.todo = o.todo
         /\ o.todo = {} /\ o.at = "check" /\ o.rebuild /\ o.paths # {} =>
              open'.at = "stage" /\ open'.todo = o.paths
         /\ o.todo = {} /\ ~(o.at = "check" /\ o.rebuild /\ o.paths # {}) =>
              open'.at = "queue" /\ open'.todo = {}
  BY DEF NextPass

\* What a pass leaves of the files it has yet to come to, or came to already.
LEMMA PassFollows ==
  ASSUME FInv, NEW p \in open.todo, NEW o, open.at \in {"check", "stage"},
         /\ o \in [at : Stations.opener, paths : SUBSET Path, todo : SUBSET Path,
                   rebuild : BOOLEAN, jobs : Seq(Jobs)]
         /\ o.at = open.at /\ o.paths = open.paths /\ o.todo = open.todo \ {p} /\ (open.rebuild => o.rebuild)
         /\ open' = NextPass(o),
         disk' = disk, NEW q \in Path, SameFile(q),
         q # p \/ (o.rebuild /\ open.at = "check")
  PROVE  Booked(q)' /\ (Gone(q) => Gone(q)') /\ (Kept(q) => Kept(q)')
<1>1. /\ open'.paths = open.paths /\ open'.rebuild = o.rebuild
      /\ o.todo # {} => open'.at = open.at /\ open'.todo = o.todo
      /\ o.todo = {} /\ open.at = "check" /\ o.rebuild /\ open.paths # {} =>
           open'.at = "stage" /\ open'.todo = open.paths
      /\ o.todo = {} /\ ~(open.at = "check" /\ o.rebuild /\ open.paths # {}) =>
           open'.at = "queue" /\ open'.todo = {}
  BY Parts, PassMoves DEF FInv
<1>2. open'.at \in {"check", "stage", "queue"} /\ (open.at = "stage" => open'.at # "check")
  BY <1>1
<1>3. Pending(q)' <=> Pending(q)
  BY DEF SameFile, Pending
<1>4. Booked(q)'
  BY <1>2, <1>3, FollowsAll DEF Booked, SameFile
<1>5. Gone(q) => Gone(q)'
  BY <1>1, <1>2, <1>3 DEF Gone, SameFile
<1>6. Kept(q) => Kept(q)'
  BY <1>1, <1>2, <1>3 DEF Kept, SameFile
<1> QED
  BY <1>4, <1>5, <1>6

LEMMA CheckFollows ==
  ASSUME FInv, IInv', NEW p \in Path, CheckPath(p)
  PROVE  FInv'
<1> DEFINE o == [open EXCEPT !.todo = @ \ {p},
                     !.rebuild = @ \/ disk[p] = Missing \/ Pending(p) \/ db.row[p] # disk[p]]
<1>1. /\ OpenerAt({"check"}) /\ UNCHANGED <<disk, db, known, pending, skipped, scanComplete, indexFatal, owed>>
      /\ open.at = "check" /\ p \in open.todo /\ open' = NextPass(o)
  BY DEF CheckPath, OpenerAt, OpenerRests, coreVars, diskVars, InOrder
<1>2. /\ o \in [at : Stations.opener, paths : SUBSET Path, todo : SUBSET Path,
                rebuild : BOOLEAN, jobs : Seq(Jobs)]
      /\ o.at = "check" /\ o.paths = open.paths /\ o.todo = open.todo \ {p}
      /\ o.rebuild <=> (open.rebuild \/ disk[p] = Missing \/ Pending(p) \/ db.row[p] # disk[p])
  BY <1>1, Parts DEF FInv, OpenOK
<1> HIDE DEF o
<1>3. \A q \in Path : SameFile(q)
  BY <1>1 DEF SameFile
<1>4. /\ open'.at \in {"check", "stage", "queue"}
      /\ open'.at \in {"check", "stage"} => open'.todo \subseteq open'.paths
  BY <1>1, <1>2, Parts, PassMoves DEF FInv, Phases
<1>5. ASSUME NEW q \in Path \ {p}
      PROVE  Booked(q)' /\ (Gone(q) => Gone(q)') /\ (Kept(q) => Kept(q)')
  BY <1>1, <1>2, <1>3, PassFollows
<1>6. \A q \in Path \ {p} : Follows(q)'
  BY <1>1, <1>5, OpenerMoves
<1>7. CASE o.rebuild
  <2>1. Booked(p)' /\ (Gone(p) => Gone(p)') /\ (Kept(p) => Kept(p)')
    BY <1>1, <1>2, <1>3, <1>7, PassFollows
  <2>2. Follows(p)'
    BY <1>1, <2>1, OpenerMoves
  <2> QED
    BY <1>1, <1>4, <1>6, <2>2, OpenerKeeps
<1>8. CASE ~o.rebuild
  <2>1. disk[p] # Missing /\ db.row[p] = disk[p] /\ ~Pending(p)
    BY <1>2, <1>8
  <2>2. Booked(p)'
    BY <1>1, <1>4, FollowsAll DEF Booked, Pending
  <2>3. Kept(p) => Kept(p)'
    BY <1>1, <1>4, <2>1 DEF Kept, Pending
  <2>4. (InBatch(p) => InBatch(p)') /\ (Owed(p) => Owed(p)')
    BY <1>1 DEF OpenerAt, InBatch, Owed
  <2>5. Noted(p) => Noted(p)'
    BY <1>1, <2>4, NewsRests DEF OpenerAt, Noted, OnTheWay
  <2>6. Follows(p)'
    BY <1>1, <2>1, <2>2, <2>3, <2>5, NewsRests, FollowsAll DEF OpenerAt, Follows, Leaves, Stays, Expected
  <2> QED
    BY <1>1, <1>4, <1>6, <2>6, OpenerKeeps
<1> QED
  BY <1>7, <1>8

LEMMA StagingFollows ==
  ASSUME FInv, IInv', NEW p \in Path, StagePath(p)
  PROVE  FInv'
<1> DEFINE left == [open EXCEPT !.todo = @ \ {p}]
           j == Job(p, NextGeneration(p))
           more == [left EXCEPT !.jobs = Append(@, j)]
           Opens == [at : Stations.opener, paths : SUBSET Path, todo : SUBSET Path,
                     rebuild : BOOLEAN, jobs : Seq(Jobs)]
<1>1. /\ OpenerAt({"stage"}) /\ UNCHANGED <<disk, scanComplete, indexFatal, owed>>
      /\ open.at = "stage" /\ p \in open.todo
  BY DEF StagePath, OpenerAt, OpenerRests, diskVars, InOrder
<1>2. open \in Opens
  BY Parts DEF FInv, OpenOK
<1>3. left \in Opens /\ left.at = "stage" /\ left.paths = open.paths /\ left.todo = open.todo \ {p} /\ left.rebuild = open.rebuild
  BY <1>1, <1>2
<1>4. more \in Opens /\ more.at = "stage" /\ more.paths = open.paths /\ more.todo = open.todo \ {p} /\ more.rebuild = open.rebuild
  <2>1. j \in Jobs /\ open.jobs \in Seq(Jobs)
    BY <1>2, NewGeneration DEF FInv, Job, Jobs
  <2> HIDE DEF j
  <2>2. Append(open.jobs, j) \in Seq(Jobs)
    BY <2>1
  <2> QED
    BY <1>1, <1>2, <2>2
<1>5. PICK o \in Opens : /\ open' = NextPass(o) /\ o.at = open.at /\ o.paths = open.paths
                         /\ o.todo = open.todo \ {p} /\ o.rebuild = open.rebuild
  <2> HIDE DEF left, more
  <2>1. open' = NextPass(left) \/ open' = NextPass(more)
    BY DEF StagePath, left, more, j
  <2> QED
    BY <1>1, <1>3, <1>4, <2>1
<1> HIDE DEF left, more, j
<1>6. /\ open'.at \in {"stage", "queue"}
      /\ open'.at \in {"check", "stage"} => open'.todo \subseteq open'.paths
  BY <1>1, <1>5, Parts, PassMoves DEF FInv, Phases
<1>7. /\ Only(p)
      /\ \/ SameFile(p) /\ p \notin known
         \/ Forgotten(p) /\ disk[p] = Missing
         \/ ToIndex(p) /\ disk[p] # Missing
  <2>1. CASE p \notin known
    BY <2>1, Unseen DEF StagePath
  <2>2. CASE p \in known /\ disk[p] = Missing
    <3>1. DeletePath(p)
      BY <2>2 DEF StagePath
    <3> QED
      BY <1>1, <2>2, <3>1, Deleted DEF FInv
  <2>3. CASE p \in known /\ disk[p] # Missing
    <3>1. Reschedule(p)
      BY <2>3 DEF StagePath
    <3> QED
      BY <1>1, <2>3, <3>1, Rescheduled DEF FInv
  <2> QED
    BY <2>1, <2>2, <2>3
<1>8. ASSUME NEW q \in Path \ {p}
      PROVE  Follows(q)'
  <2>1. SameFile(q)
    BY <1>7 DEF Only
  <2>2. Booked(q)' /\ (Gone(q) => Gone(q)') /\ (Kept(q) => Kept(q)')
    BY <1>1, <1>5, <2>1, PassFollows
  <2>3. (InBatch(q) => InBatch(q)') /\ (Owed(q) => Owed(q)')
    BY <1>1 DEF OpenerAt, InBatch, Owed
  <2> QED
    BY <1>1, <2>1, <2>2, <2>3, NewsStays DEF OpenerAt, SameFile
<1>9. Follows(p)'
  <2>1. CASE SameFile(p) /\ p \notin known
    <3>1. ~Pending(p)
      BY <2>1, Known DEF FInv
    <3>2. CASE p \in skipped
      BY <1>1, <2>1, <3>1, <3>2, FileHandled DEF Skipping, SameFile, OpenerAt, Pending
    <3>3. CASE p \notin skipped
      <4>1. db.row[p] = NoRow /\ ~Kept(p)
        BY <1>1, <2>1, <3>1, <3>3, FollowsAll DEF Booked, Kept
      <4>2. Booked(p)' /\ Gone(p)'
        BY <2>1, <3>1, <4>1 DEF SameFile, Booked, Gone, Pending
      <4>3. (InBatch(p) => InBatch(p)') /\ (Owed(p) => Owed(p)')
        BY <1>1 DEF OpenerAt, InBatch, Owed
      <4> QED
        BY <1>1, <2>1, <4>1, <4>2, <4>3, NewsStays DEF OpenerAt, SameFile
    <3> QED
      BY <3>2, <3>3
  <2>2. CASE ~SameFile(p) \/ p \in known
    BY <1>1, <1>7, <2>2, FileHandled DEF OpenerAt
  <2> QED
    BY <2>1, <2>2
<1> QED
  BY <1>1, <1>6, <1>8, <1>9, OpenerKeeps

LEMMA OpenFailureFollows ==
  ASSUME FInv, IInv', NEW p \in Path, OpenPathFails(p)
  PROVE  FInv'
<1> DEFINE o == [open EXCEPT !.todo = @ \ {p}, !.rebuild = TRUE]
<1>1. /\ OpenerAt({"check", "stage"}) /\ UNCHANGED <<disk, db, known, pending, skipped, scanComplete, indexFatal>>
      /\ open.at \in {"check", "stage"} /\ p \in open.todo /\ open' = NextPass(o)
      /\ owed["opener"] = None /\ Owe("opener", p)
  BY DEF OpenPathFails, OpenerAt, OpenerRests, coreVars, diskVars, InOrder
<1>2. /\ o \in [at : Stations.opener, paths : SUBSET Path, todo : SUBSET Path,
                rebuild : BOOLEAN, jobs : Seq(Jobs)]
      /\ o.at = open.at /\ o.paths = open.paths /\ o.todo = open.todo \ {p} /\ o.rebuild
  BY <1>1, Parts DEF FInv, OpenOK
<1> HIDE DEF o
<1>3. \A q \in Path : SameFile(q)
  BY <1>1 DEF SameFile
<1>4. /\ open'.at \in {"check", "stage", "queue"}
      /\ open'.at \in {"check", "stage"} => open'.todo \subseteq open'.paths
  BY <1>1, <1>2, Parts, PassMoves DEF FInv, Phases
<1>5. Owed(p)' /\ \A q \in Path : (Owed(q) => Owed(q)') /\ (InBatch(q) => InBatch(q)')
  <2>1. owed'["opener"] = p /\ \A b \in Actor \ {"opener"} : owed'[b] = owed[b]
    BY <1>1, Parts DEF FInv, RestOK, Owe, Actor
  <2> QED
    BY <1>1, <2>1 DEF Owed, Actor, OpenerAt, InBatch
<1>6. ASSUME NEW q \in Path \ {p}
      PROVE  Follows(q)'
  <2>1. Booked(q)' /\ (Gone(q) => Gone(q)') /\ (Kept(q) => Kept(q)')
    BY <1>1, <1>2, <1>3, PassFollows
  <2> QED
    BY <1>1, <1>5, <2>1, NewsStays DEF OpenerAt
<1>7. Follows(p)'
  <2>1. Noted(p)' /\ Expected(p)'
    BY <1>5 DEF Noted, OnTheWay, Expected
  <2>2. Booked(p)'
    BY <1>1, <1>4, FollowsAll DEF Booked, Pending
  <2> QED
    BY <2>1, <2>2 DEF Follows, Leaves, Stays
<1> QED
  BY <1>1, <1>4, <1>6, <1>7, OpenerKeeps

-----------------------------------------------------------------------------
(* The steps of the worker.                                                 *)

LEMMA WorkerKeeps ==
  ASSUME FInv, IInv', WorkerRests, open.at = "done" \/ UNCHANGED <<known, pending, skipped>>,
         InJob' => open.at = "done", Committing', \A p \in Path : Follows(p)'
  PROVE  FInv'
<1>1. Phases'
  BY NewsRests DEF WorkerRests, FInv, Phases, Up
<1> QED
  BY <1>1, OthersKeep DEF WorkerRests

\* The worker leaves a file as it is, but for the generation of the reference sets.
LEMMA FileLeft ==
  ASSUME FInv, WorkerRests, NEW q \in Path, SameFile(q)
  PROVE  Follows(q)'
<1>1. (InBatch(q) => InBatch(q)') /\ (Owed(q) => Owed(q)')
  BY DEF WorkerRests, InBatch, Owed
<1> QED
  BY <1>1, FileRests DEF WorkerRests

LEMMA NotInCommit == worker'.at # "commit" => Committing'
  BY DEF Committing

LEMMA MovesFollow ==
  ASSUME FInv, IInv',
         WorkerWakes \/ TakeIndexJob \/ ReadGeneration \/ ReadSemantics \/ JobFails \/ JobNotReady
  PROVE  FInv'
<1>1. WorkerRests /\ UNCHANGED <<known, pending, skipped>>
  BY DEF WorkerWakes, TakeIndexJob, ReadGeneration, ReadSemantics, JobFails, JobNotReady, coreVars
<1>2. db'.row = db.row
  BY Parts, GenerationType
  DEF FInv, CoreOK, WorkerWakes, TakeIndexJob, ReadGeneration, ReadSemantics, JobFails, JobNotReady, coreVars
<1>3. \A q \in Path : Follows(q)'
  BY <1>1, <1>2, FileLeft DEF SameFile
<1>4. worker'.at # "commit" /\ (InJob' => InJob)
  <2>1. WorkerOK
    BY Parts DEF FInv
  <2>2. CASE WorkerWakes \/ TakeIndexJob
    <3>1. WorkerWakes => worker'.at = "take"
      BY <2>1 DEF WorkerWakes, To, WorkerOK
    <3>2. TakeIndexJob => worker'.at \in {"wait", "gate"}
      <4>1. TakeIndexJob => worker' = Resting \/ worker' = [Resting EXCEPT !.at = "gate", !.job = Head(queue)]
        BY DEF TakeIndexJob
      <4>2. [Resting EXCEPT !.at = "gate", !.job = Head(queue)].at = "gate" /\ Resting.at = "wait"
        BY DEF Resting
      <4> QED
        BY <4>1, <4>2
    <3> QED
      BY <2>2, <3>1, <3>2 DEF InJob
  <2>3. CASE ReadGeneration \/ ReadSemantics
    BY <2>1, <2>3 DEF ReadGeneration, ReadSemantics, To, InJob, WorkerOK
  <2>4. CASE JobFails \/ JobNotReady
    BY <2>4 DEF JobFails, JobNotReady, Resting, InJob
  <2> QED
    BY <2>2, <2>3, <2>4
<1>5. InJob' => open.at = "done"
  BY <1>4 DEF FInv, Phases
<1> QED
  BY <1>1, <1>3, <1>4, <1>5, WorkerKeeps, NotInCommit

\* The row of a missing file is deleted, whatever became of the job meanwhile.
LEMMA DeletingFollows ==
  ASSUME FInv, IInv', WorkerRests, open.at = "done", worker.job.path \in Path,
         disk[worker.job.path] = Missing, DeleteByJob(worker.job.path)
  PROVE  \A q \in Path : Follows(q)'
<1>0. PICK p \in Path : p = worker.job.path /\ disk[p] = Missing /\ DeleteByJob(p)
  OBVIOUS
<1>1. CASE pending[p] = worker.job.generation
  <2>1. DeletePath(p)
    BY <1>0, <1>1 DEF DeleteByJob, DeletePath
  <2>2. Forgotten(p) /\ Only(p)
    BY <1>0, <2>1, Deleted DEF WorkerRests, FInv
  <2> QED
    BY <1>0, <2>2, FileHandled, FileLeft DEF WorkerRests, Only
<1>2. CASE pending[p] # worker.job.generation
  <2>1. db' = DeleteFile(db, p) /\ UNCHANGED <<known, pending, skipped>>
    BY <1>0, <1>2 DEF DeleteByJob
  <2>2. db'.row = [db.row EXCEPT ![p] = NoRow] /\ db.row \in [Path -> Marks]
    BY <1>0, <2>1, Parts, DeleteFileType, StoreParts DEF FInv, CoreOK
  <2>3. \A q \in Path \ {p} : SameFile(q)
    BY <2>1, <2>2 DEF SameFile
  <2>4. db'.row[p] = NoRow
    BY <1>0, <2>2
  <2>5. Booked(p)' /\ (Gone(p) => Gone(p)')
    BY <1>0, <2>1, <2>4, FollowsAll DEF WorkerRests, Booked, Gone, Pending
  <2>6. (InBatch(p) => InBatch(p)') /\ (Owed(p) => Owed(p)')
    BY DEF WorkerRests, InBatch, Owed
  <2>7. Noted(p) => Noted(p)'
    BY <1>0, <2>1, <2>6, NewsRests DEF WorkerRests, Noted, OnTheWay
  <2>8. Follows(p)'
    BY <1>0, <2>1, <2>5, <2>7, NewsRests, FollowsAll DEF WorkerRests, Follows, Leaves, Stays
  <2> QED
    BY <2>3, <2>8, FileLeft
<1> QED
  BY <1>1, <1>2

LEMMA StartFollows ==
  ASSUME FInv, IInv', StartJob
  PROVE  FInv'
<1> DEFINE p == worker.job.path
<1>1. WorkerRests /\ open.at = "done"
  BY DEF StartJob
<1>2. p \in Path
  BY Parts DEF FInv, StartJob, Staging, InHand, Jobs
<1>3. worker'.at # "commit"
  BY Parts DEF StartJob, NextJob, Resting, FInv, WorkerOK
<1>4. \A q \in Path : Follows(q)'
  <2>1. CASE UNCHANGED coreVars
    BY <1>1, <2>1, FileLeft DEF coreVars, SameFile
  <2>2. CASE disk[p] = Missing /\ DeleteByJob(p)
    BY <1>1, <1>2, <2>2, DeletingFollows
  <2> QED
    BY <2>1, <2>2 DEF StartJob
<1> QED
  BY <1>1, <1>3, <1>4, WorkerKeeps, NotInCommit

LEMMA PutFollows ==
  ASSUME FInv, IInv', VerifyAndPut
  PROVE  FInv'
<1> DEFINE p == worker.job.path
           newer == Job(p, NextGeneration(p))
<1>1. WorkerRests /\ worker.at = "verify" /\ open.at = "done"
  BY DEF VerifyAndPut, FInv, Phases, InJob
<1>2. p \in Path /\ worker.text \in Text /\ WorkerOK
  BY <1>1, Parts DEF FInv, Staging, InHand, Jobs
<1>3. pending \in [Path -> Nat] /\ db.row \in [Path -> Marks] /\ db \in Store
  BY Parts, StoreParts DEF FInv, CoreOK
<1>4. CASE disk[p] = Missing
  <2>1. DeleteByJob(p) /\ NextJob
    BY <1>2, <1>4 DEF VerifyAndPut
  <2>2. worker'.at # "commit"
    BY <2>1 DEF NextJob, Resting
  <2> QED
    BY <1>1, <1>2, <1>4, <2>1, <2>2, DeletingFollows, WorkerKeeps, NotInCommit
<1>5. CASE disk[p] \notin {Missing, worker.text} /\ Current(worker.job)
  <2>1. /\ db' = InvalidateFile(db, p) /\ pending' = [pending EXCEPT ![p] = NextGeneration(p)]
        /\ UNCHANGED <<known, skipped>> /\ worker'.at # "commit"
    BY <1>5 DEF VerifyAndPut, Resting, Job
  <2>2. db'.row = [db.row EXCEPT ![p] = IF @ = NoRow THEN NoRow ELSE Blank] /\ NextGeneration(p) # 0
    BY <1>2, <1>3, <2>1, InvalidateFileType, NewGeneration DEF FInv
  <2>3. p \in known /\ p \notin skipped
    BY <1>2, <1>5, FollowsAll DEF Current, Booked
  <2>4. ToIndex(p) /\ Only(p)
    BY <1>2, <1>3, <2>1, <2>2, <2>3 DEF ToIndex, Only, SameFile
  <2>5. \A q \in Path : Follows(q)'
    BY <1>1, <1>2, <1>5, <2>4, FileLeft, FileHandled DEF WorkerRests, Only
  <2> QED
    BY <1>1, <2>1, <2>5, WorkerKeeps, NotInCommit
<1>6. CASE disk[p] = worker.text /\ Current(worker.job)
  <2>1. /\ db' = PutFile(db, p, disk[p]) /\ UNCHANGED <<known, pending, skipped>>
        /\ worker' = [worker EXCEPT !.at = "commit"]
    BY <1>2, <1>6 DEF VerifyAndPut, To
  <2>2. db'.row = [db.row EXCEPT ![p] = disk[p]]
    BY <1>2, <1>3, <1>6, <2>1, PutFileType
  <2>3. p \in known /\ p \notin skipped /\ pending[p] # 0
    BY <1>2, <1>6, FollowsAll DEF Current, Booked, Pending
  <2>4. ToIndex(p) /\ Only(p) /\ db'.row[p] = worker.text
    BY <1>2, <1>3, <1>6, <2>1, <2>2, <2>3 DEF ToIndex, Only, SameFile
  <2>5. \A q \in Path : Follows(q)'
    BY <1>1, <1>2, <1>6, <2>4, FileLeft, FileHandled DEF WorkerRests, Only
  <2>6. worker'.at = "commit" /\ worker'.job = worker.job /\ worker'.text = worker.text
    BY <1>2, <2>1 DEF WorkerOK
  <2>7. Committing'
    BY <1>1, <1>6, <2>4, <2>6, NewsRests DEF WorkerRests, Committing
  <2> QED
    BY <1>1, <2>5, <2>7, WorkerKeeps
<1>7. CASE disk[p] # Missing /\ ~Current(worker.job)
  <2>1. UNCHANGED coreVars /\ worker'.at # "commit"
    BY <1>7 DEF VerifyAndPut, NextJob, Resting
  <2>2. \A q \in Path : Follows(q)'
    BY <1>1, <2>1, FileLeft DEF coreVars, SameFile
  <2> QED
    BY <1>1, <2>1, <2>2, WorkerKeeps, NotInCommit
<1> QED
  BY <1>4, <1>5, <1>6, <1>7

\* Its set of references stored, the worker is done with the file: what it has read is
\* what there is, or there is news.
LEMMA CommitFollows ==
  ASSUME FInv, IInv', CommitReferences
  PROVE  FInv'
<1>1. WorkerRests /\ worker.at = "commit" /\ open.at = "done"
  BY DEF CommitReferences, FInv, Phases, InJob
<1>2. PICK p \in Path : p = worker.job.path
  BY <1>1, Parts DEF FInv, Staging, InHand, Jobs
<1>3. worker'.at # "commit"
  BY DEF CommitReferences, NextJob, Resting
<1>4. db'.row = db.row /\ known' = known
  <2>1. worker.found = Incomplete \/ worker.found \in Sets
    BY Parts DEF FInv, WorkerOK
  <2> QED
    BY <1>2, <2>1, Parts, ReferencesType DEF FInv, CoreOK, CommitReferences
<1>5. pending \in [Path -> Nat] /\ worker.job.generation # 0
  BY <1>1, Parts DEF FInv, CoreOK, Staging, InHand, Jobs
<1>6. CASE pending[p] # worker.job.generation
  <2>1. pending' = pending /\ skipped' = skipped
    BY <1>2, <1>5, <1>6 DEF CommitReferences
  <2>2. \A q \in Path : Follows(q)'
    BY <1>1, <1>4, <2>1, FileLeft DEF SameFile
  <2> QED
    BY <1>1, <1>3, <2>2, WorkerKeeps, NotInCommit
<1>7. CASE pending[p] = worker.job.generation
  <2>1. pending' = [pending EXCEPT ![p] = 0] /\ skipped' = skipped \ {p}
    BY <1>2, <1>7 DEF CommitReferences
  <2>2. \A q \in Path \ {p} : Follows(q)'
    BY <1>1, <1>4, <1>5, <2>1, FileLeft DEF SameFile
  <2>3. Pending(p) /\ p \in known /\ p \notin skipped
    BY <1>2, <1>5, <1>7, FollowsAll, Known DEF FInv, Pending, Booked
  <2>4. (InBatch(p) => InBatch(p)') /\ (Owed(p) => Owed(p)')
    BY <1>1 DEF WorkerRests, InBatch, Owed
  <2>5. (Noted(p) => Noted(p)') /\ (Expected(p) => Expected(p)')
    BY <1>1, <2>3, <2>4, NewsRests DEF WorkerRests, Noted, OnTheWay, Expected
  <2>6. Booked(p)'
    BY <1>2, <1>4, <1>5, <2>1, <2>3 DEF Booked, Pending
  <2>7. Leaves(p)'
    <3>1. ~Gone(p)
      BY <1>1, <2>3 DEF Gone
    <3> QED
      BY <1>1, <1>4, <2>5, <3>1, NewsRests, FollowsAll DEF WorkerRests, Leaves
  <2>8. Stays(p)'
    <3> SUFFICES ASSUME watch = "running", disk[p] # Missing
                 PROVE  Expected(p)' \/ Kept(p)'
      BY <1>1, NewsRests DEF WorkerRests, Stays
    <3>1. CASE disk[p] # worker.text
      BY <1>1, <1>2, <2>5, <3>1 DEF FInv, Committing
    <3>2. CASE disk[p] = worker.text
      <4>1. db.row[p] \in {disk[p], Blank}
        BY <1>1, <1>2, <3>2 DEF FInv, Committing
      <4> QED
        BY <1>1, <1>4, <2>3, <4>1, NewsRests DEF WorkerRests, Kept
    <3> QED
      BY <3>1, <3>2
  <2>9. \A q \in Path : Follows(q)'
    BY <2>2, <2>6, <2>7, <2>8 DEF Follows
  <2> QED
    BY <1>1, <1>3, <2>9, WorkerKeeps, NotInCommit
<1> QED
  BY <1>6, <1>7

LEMMA FailedJobFollows ==
  ASSUME FInv, IInv', FailIndexJob
  PROVE  FInv'
<1>1. WorkerRests /\ worker.at = "failing"
  BY DEF FailIndexJob
<1>2. PICK p \in Path : p = worker.job.path
  BY <1>1, Parts DEF FInv, Staging, InHand, Jobs
<1>3. worker'.at = "take"
  BY DEF FailIndexJob, NextJob, Resting
<1>4. CASE ~Current(worker.job)
  <2>1. UNCHANGED coreVars
    BY <1>4 DEF FailIndexJob
  <2>2. \A q \in Path : Follows(q)'
    BY <1>1, <2>1, FileLeft DEF coreVars, SameFile
  <2> QED
    BY <1>1, <1>3, <2>1, <2>2, WorkerKeeps, NotInCommit DEF coreVars, InJob
<1>5. CASE Current(worker.job)
  <2>1. SoftSkip(p)
    BY <1>2, <1>5 DEF FailIndexJob
  <2>2. Skipping(p) /\ Only(p)
    BY <1>1, <2>1, SoftSkipped DEF FInv, WorkerRests
  <2>3. \A q \in Path : Follows(q)'
    BY <1>1, <2>2, FileLeft, FileHandled DEF WorkerRests, Only
  <2>4. Phases'
    <3>1. Up
      BY <1>2, <1>5, UpWhile DEF Current
    <3> QED
      BY <1>1, <1>3, <3>1, PhasesStay DEF WorkerRests, InJob
  <2> QED
    BY <1>1, <1>3, <2>3, <2>4, OthersKeep, NotInCommit DEF WorkerRests
<1> QED
  BY <1>4, <1>5

-----------------------------------------------------------------------------

LEMMA FollowsInit == IndexingInit => FInv
<1> SUFFICES ASSUME IndexingInit PROVE FInv
  OBVIOUS
<1>1. open.at = "closed" /\ worker.at = "wait"
  BY DEF IndexingInit, Closed, Resting
<1>2. /\ watch = "off" /\ raw = <<>> /\ listed = {} /\ changed = {} /\ deleted = {} /\ scan = None /\ batches = <<>>
      /\ known = {} /\ skipped = {} /\ batch = None /\ heal.todo = {} /\ ~scanComplete /\ ~indexFatal
      /\ \A p \in Path : pending[p] = 0
      /\ \A a \in Actor : owed[a] = None
  BY DEF IndexingInit, WatcherInit
<1>3. Reachable
  BY <1>2 DEF IndexingInit, WatcherInit, Reachable, Existing
<1>4. Later /\ Phases /\ Committing
  BY <1>1, <1>2 DEF Later, Phases, Committing, Up, InJob
<1>5. Followed
  BY <1>1, <1>2 DEF Followed, Follows, Booked, Leaves, Stays, Pending
<1> QED
  BY <1>3, <1>4, <1>5, Initial DEF FInv

LEMMA FollowsStep == FInv /\ [IndexingNext]_indexingVars => FInv'
<1> SUFFICES ASSUME FInv, [IndexingNext]_indexingVars PROVE FInv'
  OBVIOUS
<1>0. IInv'
  BY EveryStep DEF FInv
<1>1. CASE UNCHANGED indexingVars
  BY <1>0, <1>1, RestsFollow
<1>2. CASE (DiskStep \/ WatcherStep \/ WatchFails) /\ Outside
  BY <1>0, <1>2, OutsideFollows
<1>3. CASE OpenerStep \/ OpeningFails \/ Stop
  BY <1>0, <1>3, OpeningFollows, ListingFollows, ReconcilingFollows, FinishFollows, CheckFollows, StagingFollows,
     AbortFollows, StopFollows DEF OpenerStep
<1>4. CASE ConsumerStep
  BY <1>0, <1>4, TakingFollows, StoppedFollows, HandlingFollows DEF ConsumerStep
<1>5. CASE HealerStep \/ AskHeal
  BY <1>0, <1>5, RestsFollow, QueryFollows DEF HealerStep
<1>6. CASE WorkerStep \/ JobFails \/ JobNotReady
  BY <1>0, <1>6, MovesFollow, StartFollows, PutFollows, CommitFollows, FailedJobFollows DEF WorkerStep
<1>7. ASSUME NEW p \in Path,
             OpenPathFails(p) \/ HandleFails(p) \/ HealFails(p) \/ AgentReads(p) \/ AgentOpens(p) \/ Expire(p)
      PROVE  FInv'
  <2>1. "healer" \in Actor /\ "consumer" \in Actor
    BY DEF Actor
  <2> QED
    BY <1>0, <1>7, <2>1, OpenFailureFollows, FailureFollows, QueryFollows, RestsFollow, ExpiryFollows
<1>8. CASE \E a \in Actor : FailIndexPath(a)
  BY <1>0, <1>8, SkipFollows
<1> QED
  BY <1>1, <1>2, <1>3, <1>4, <1>5, <1>6, <1>7, <1>8 DEF IndexingNext

\* When the index is ready, and no row is invalidated, what is neither kept nor gone is a
\* file of which there is news.
LEMMA ServedIsCurrent == FInv => SearchIsCurrent
<1> SUFFICES ASSUME FInv, SearchServed, NEW p \in Path, ~Unnoticed(p)
             PROVE  db.row[p] = (IF disk[p] = Missing THEN NoRow ELSE disk[p])
  BY DEF SearchIsCurrent
<1>1. open.at = "done" /\ ~Pending(p)
  BY Parts DEF FInv, SearchServed, ReadyInv, Phases
<1>2. watch = "running" /\ ~Noted(p) /\ ~InRaw(p)
  BY DEF Unnoticed, Travelling, Noted, OnTheWay, Sent, InBatch, Owed, InRaw
<1>3. CASE disk[p] = Missing
  <2>1. ~Removal(p) /\ p \notin known \ listed
    BY <1>2 DEF InRaw, Removal, Unnoticed, Unlisted
  <2>2. Gone(p)
    BY <1>2, <1>3, <2>1, FollowsAll DEF Leaves
  <2> QED
    BY <1>1, <1>3, <2>2 DEF Gone
<1>4. CASE disk[p] # Missing
  <2>1. p \in listed
    BY <1>4 DEF Unnoticed, Unlisted, Overlooked
  <2>2. Kept(p)
    BY <1>2, <1>4, <2>1, FollowsAll DEF Stays, Expected
  <2>3. db.row[p] \in {disk[p], Blank}
    BY <1>1, <2>2 DEF Kept
  <2>4. db.row[p] # Blank
    BY DEF SearchServed, SearchReady, Rows, Indexed
  <2> QED
    BY <1>4, <2>3, <2>4
<1> QED
  BY <1>3, <1>4

\* A search is answered from the rows only when they say of every file what the disk has,
\* but for files of which the watcher, the consumer or an actor still has news, that were
\* skipped, or that the watcher has not listed (indexing.go, workspace.go, watcher.go).
THEOREM SearchSeesTheDisk == IndexingSpec => []SearchIsCurrent
<1>1. IndexingInit => FInv
  BY FollowsInit
<1>2. FInv /\ [IndexingNext]_indexingVars => FInv'
  BY FollowsStep
<1>3. FInv => SearchIsCurrent
  BY ServedIsCurrent
<1> QED
  BY <1>1, <1>2, <1>3, PTL DEF IndexingSpec

-----------------------------------------------------------------------------
(* What the reference sets say of the other files: the invariant.           *)

\* The texts with which a file is in the set of another, and in the set the worker holds.
Names(p, q) == {t \in Text : <<q, t>> \in db.refs[p]}
FoundNames(q) == {t \in Text : <<q, t>> \in worker.found}

\* News of a file that has yet to make the sets incomplete.
Coming(q) ==
  \/ Noted(q)
  \/ disk[q] = Missing /\ ((q \in listed /\ Removal(q)) \/ q \in known \ listed)
  \/ disk[q] # Missing /\ (InRaw(q) \/ q \notin listed)

\* A set has of a file what is there, unless there is news; what it has was known.
Fits(names, q) ==
  /\ names = {} \/ q \in known \cup skipped
  /\ watch = "running" => names = {disk[q]} \cap Mentioning \/ Coming(q)

\* The opener has yet to compare the file with its row, or to invalidate it.
Behind(q) ==
  \/ open.at \in {"list", "known", "aborted"}
  \/ open.at = "reconcile" /\ (q \in open.paths => q \in known)
  \/ open.at = "check" /\ q \in open.paths \cap known /\ (q \in open.todo \/ open.rebuild)
  \/ open.at = "stage" /\ q \in open.todo \cap known

\* A set agrees with the rows until the opening is done, and with the files from then on.
SetTrue(p, q) ==
  db.refs[p] # Incomplete /\ q \notin {p} \cup blind[p] \cup lost[p] =>
    /\ open.at # "done" /\ db.row[q] \in Text => Names(p, q) = {db.row[q]} \cap Mentioning
    /\ Up => Fits(Names(p, q), q) \/ Behind(q)

\* So does the set that the worker holds, unless it will be dropped.
FoundTrue(q) ==
  worker.found # Incomplete /\ ~db.moved /\ q \notin {worker.job.path} \cup worker.missed =>
    Fits(FoundNames(q), q)

\* The row of a file that is still to be indexed may have been written already.
Written(q) ==
  watch = "running" /\ Pending(q) /\ db.row[q] \in Text =>
    disk[q] \in {Missing, db.row[q]} \/ Coming(q)

Collected == worker.found # Incomplete => worker.at \in {"verify", "commit"}

\* Until the rows are reconciled, sets and jobs are not there together.
Untouched ==
  open.at \in {"list", "known", "reconcile"} =>
    \A p, q \in Path : db.refs[p] # Incomplete => ~Pending(q)

SetsTrue == \A p, q \in Path : SetTrue(p, q)
FilesTrue == \A q \in Path : FoundTrue(q) /\ Written(q)

RInv == FInv /\ SetsTrue /\ FilesTrue /\ Collected /\ Untouched

-----------------------------------------------------------------------------
(* What the transactions of the store make of the sets.                     *)

Voided(d) == d.moved = TRUE /\ \A p \in Path : d.refs[p] = Incomplete
\* Some sets have become incomplete.
Fewer(d, e) == e.moved = d.moved /\ \A p \in Path : e.refs[p] \in {d.refs[p], Incomplete}

LEMMA InvalidateVoids ==
  ASSUME NEW d \in Store
  PROVE  Voided(Invalidate(d)) /\ Invalidate(d) \in Store
<1> DEFINE e == WithMoved(d, TRUE)
           s == [p \in Path |-> Incomplete]
<1>1. Invalidate(d) = WithRefs(e, s)
  BY DEF Invalidate, WithMoved, WithRefs
<1>2. s \in [Path -> Sets] /\ d.row \in [Path -> Marks] /\ \A p \in Path : s[p] = Incomplete
  BY NoSets, StoreParts
<1> HIDE DEF s
<1>3. e \in Store /\ e.moved = TRUE
  BY <1>2, MovedField
<1> HIDE DEF e
<1>4. WithRefs(e, s).refs = s /\ WithRefs(e, s).moved = TRUE
  BY <1>2, <1>3, RefsField
<1> QED
  BY <1>1, <1>2, <1>4, InvalidateType DEF Voided

LEMMA RowKeepsSets ==
  ASSUME NEW d \in Store, NEW p \in Path, NEW m \in Marks
  PROVE  [d EXCEPT !.row[p] = m].refs = d.refs /\ [d EXCEPT !.row[p] = m].moved = d.moved
<1> DEFINE r == [d.row EXCEPT ![p] = m]
<1>1. r \in [Path -> Marks] /\ d.refs \in [Path -> Sets] /\ d.moved \in BOOLEAN
  BY StoreParts
<1>2. [d EXCEPT !.row[p] = m] = WithRow(d, r)
  BY DEF WithRow
<1> HIDE DEF r
<1> QED
  BY <1>1, <1>2, RowField

LEMMA InvalidationVoids ==
  ASSUME NEW d \in Store, NEW p \in Path
  PROVE  Voided(InvalidateFile(d, p)) /\ Voided(DeleteFile(d, p)) /\ Voided(ChangeNamespace(d))
<1> DEFINE e == Invalidate(d)
           m == IF d.row[p] = NoRow THEN NoRow ELSE Blank
           r == [q \in Path |-> IF e.row[q] = NoRow THEN NoRow ELSE Blank]
<1>1. e \in Store /\ Voided(e) /\ e.row = d.row /\ m \in Marks /\ NoRow \in Marks
  BY InvalidateVoids, InvalidateType DEF Marks
<1>2. InvalidateFile(d, p) = [e EXCEPT !.row[p] = m] /\ DeleteFile(d, p) = [e EXCEPT !.row[p] = NoRow]
  BY <1>1 DEF InvalidateFile, DeleteFile
<1>3. ChangeNamespace(d) = WithRow(e, r) /\ r \in [Path -> Marks]
  BY DEF ChangeNamespace, WithRow, Marks
<1> HIDE DEF e, m, r
<1>4. Voided([e EXCEPT !.row[p] = m]) /\ Voided([e EXCEPT !.row[p] = NoRow])
  BY <1>1, RowKeepsSets DEF Voided
<1>5. e.refs \in [Path -> Sets] /\ e.moved \in BOOLEAN
  BY <1>1, StoreParts
<1>6. Voided(WithRow(e, r))
  BY <1>1, <1>3, <1>5, RowField DEF Voided
<1> QED
  BY <1>2, <1>3, <1>4, <1>6

LEMMA AbandonedSets ==
  ASSUME NEW d \in Store, NEW p \in Path
  PROVE  Fewer(d, AbandonFile(d, p))
<1> DEFINE s == [q \in Path |->
                   IF q = p \/ d.refs[q] = Incomplete \/ \E t \in Text : <<p, t>> \in d.refs[q]
                   THEN Incomplete ELSE d.refs[q]]
           r == [d.row EXCEPT ![p] = NoRow]
           e == WithRow(d, r)
<1>1. AbandonFile(d, p) = WithRefs(e, s)
  BY DEF AbandonFile, WithRefs, WithRow
<1>2. s \in [Path -> Sets] /\ r \in [Path -> Marks] /\ d.refs \in [Path -> Sets] /\ d.moved \in BOOLEAN
  BY StoreParts DEF Sets, Marks
<1>3. \A q \in Path : s[q] \in {d.refs[q], Incomplete}
  OBVIOUS
<1> HIDE DEF s, r
<1>4. e \in Store /\ e.moved = d.moved
  BY <1>2, RowField
<1> HIDE DEF e
<1>5. WithRefs(e, s).refs = s /\ WithRefs(e, s).moved = d.moved
  BY <1>2, <1>4, RefsField
<1> QED
  BY <1>1, <1>3, <1>5 DEF Fewer

LEMMA PutSets ==
  ASSUME NEW d \in Store, NEW p \in Path, NEW t \in Text
  PROVE  PutFile(d, p, t).refs = d.refs /\ PutFile(d, p, t).moved = d.moved
<1>1. t \in Marks
  BY DEF Marks
<1> QED
  BY <1>1, RowKeepsSets DEF PutFile

LEMMA GenerationSets ==
  ASSUME NEW d \in Store
  PROVE  ReferenceGeneration(d).refs = d.refs
<1>1. d.row \in [Path -> Marks] /\ d.refs \in [Path -> Sets]
  BY StoreParts
<1>2. ReferenceGeneration(d) = WithMoved(d, FALSE)
  BY DEF ReferenceGeneration, WithMoved
<1> QED
  BY <1>1, <1>2, MovedField

LEMMA ReplacedSets ==
  ASSUME NEW d \in Store, NEW p \in Path, NEW l \in Sets, ReplaceReferences(d, p, l) # d
  PROVE  LET e == ReplaceReferences(d, p, l) IN
         /\ ~d.moved /\ e.refs[p] = l
         /\ \A q \in Path \ {p} : e.refs[q] = d.refs[q]
<1> DEFINE s == [d.refs EXCEPT ![p] = l]
<1>1. d.refs \in [Path -> Sets]
  BY StoreParts
<1>2. s \in [Path -> Sets] /\ s[p] = l /\ \A q \in Path \ {p} : s[q] = d.refs[q]
  BY <1>1
<1>3. ~d.moved /\ ReplaceReferences(d, p, l) = WithRefs(d, s)
  BY DEF ReplaceReferences, WithRefs
<1> HIDE DEF s
<1>4. WithRefs(d, s).refs = s
  BY <1>2, RefsField
<1> QED
  BY <1>2, <1>3, <1>4

LEMMA ReconciledSets ==
  ASSUME NEW d \in Store, NEW paths \in SUBSET Path
  PROVE  LET e == ReconcileWorkspace(d, paths) IN
         \A p \in Path : e.refs[p] # Incomplete =>
           /\ Rows(d) \subseteq paths /\ d.refs[p] # Incomplete
           /\ e.refs[p] = d.refs[p] \cap (paths \X Text)
<1> DEFINE e == IF Rows(d) \subseteq paths THEN d ELSE Invalidate(d)
           r == [p \in Path |-> IF p \in paths THEN e.row[p] ELSE NoRow]
           s == [p \in Path |-> IF e.refs[p] = Incomplete \/ p \notin paths THEN Incomplete
                                ELSE e.refs[p] \cap (paths \X Text)]
           f == WithRow(e, r)
<1>1. e \in Store /\ (Rows(d) \subseteq paths => e = d) /\ (~(Rows(d) \subseteq paths) => Voided(e))
  BY InvalidateVoids
<1>2. e.row \in [Path -> Marks] /\ e.refs \in [Path -> Sets]
  BY <1>1, StoreParts
<1>3. ReconcileWorkspace(d, paths) = WithRefs(f, s)
  BY <1>2 DEF ReconcileWorkspace, WithRow, WithRefs
<1> HIDE DEF e
<1>4. r \in [Path -> Marks] /\ s \in [Path -> Sets]
  BY <1>2 DEF Marks, Sets
<1>5. \A p \in Path : s[p] # Incomplete => e.refs[p] # Incomplete /\ s[p] = e.refs[p] \cap (paths \X Text)
  OBVIOUS
<1> HIDE DEF r, s
<1>6. f \in Store
  BY <1>1, <1>2, <1>4, RowField
<1> HIDE DEF f
<1>7. WithRefs(f, s).refs = s
  BY <1>4, <1>6, RefsField
<1> QED
  BY <1>1, <1>3, <1>5, <1>7 DEF Voided


-----------------------------------------------------------------------------
(* Steps that leave the sets true, or make them incomplete.                 *)

\* What becomes of a file: it stays as it was, there is news of it, or it was not known
\* and is gone; or no news is expected any more.
Told(q) ==
  \/ disk'[q] = disk[q] /\ (Coming(q) => Coming(q)')
  \/ Coming(q)'
  \/ disk'[q] = Missing /\ q \notin known \cup skipped
  \/ watch' # "running"

\* The step tells of the file, and neither indexes it nor forgets it.
Eased(q) ==
  /\ Told(q) /\ (watch' = "running" => watch = "running")
  /\ q \in known => q \in known' \cup skipped'
  /\ q \in skipped => q \in skipped'
  /\ db'.row[q] \in Text => db'.row[q] = db.row[q]
  /\ pending'[q] \in {pending[q], 0}

LEMMA ComingStays ==
  ASSUME UNCHANGED <<disk, raw, listed>>, NEW q \in Path, Noted(q) => Noted(q)',
         q \in known => q \in known' \cup skipped'
  PROVE  Coming(q) => Coming(q)'
<1>1. (InRaw(q)' <=> InRaw(q)) /\ (Removal(q)' <=> Removal(q))
  BY DEF InRaw, Removal
<1>2. q \in skipped' => Noted(q)'
  BY DEF Noted, OnTheWay
<1> QED
  BY <1>1, <1>2 DEF Coming

LEMMA FitsStay ==
  ASSUME NEW q \in Path, NEW names, Fits(names, q), Eased(q)
  PROVE  Fits(names, q)'
  BY DEF Fits, Eased, Told

LEMMA BehindStays ==
  ASSUME UNCHANGED open, NEW q \in Path, Eased(q), Behind(q)
  PROVE  Behind(q)' \/ (Coming(q)' /\ q \in skipped')
<1>1. q \in skipped' => Coming(q)'
  BY DEF Coming, Noted, OnTheWay
<1> QED
  BY <1>1 DEF Behind, Eased

LEMMA SetStays ==
  ASSUME NEW p \in Path, NEW q \in Path, SetTrue(p, q), UNCHANGED <<open, history>>, Eased(q),
         db'.refs[p] \in {db.refs[p], Incomplete}
  PROVE  SetTrue(p, q)'
<1> SUFFICES ASSUME db'.refs[p] # Incomplete, q \notin {p} \cup blind[p] \cup lost[p]
             PROVE  /\ open.at # "done" /\ db'.row[q] \in Text => Names(p, q)' = {db'.row[q]} \cap Mentioning
                    /\ Up => Fits(Names(p, q), q)' \/ Behind(q)'
  BY DEF SetTrue, history, Up
<1>1. PICK names : names = Names(p, q)
  OBVIOUS
<1>2. Names(p, q)' = names /\ db.refs[p] # Incomplete
  BY <1>1 DEF Names
<1>3. /\ open.at # "done" /\ db.row[q] \in Text => names = {db.row[q]} \cap Mentioning
      /\ Up => Fits(names, q) \/ Behind(q)
  BY <1>1, <1>2 DEF SetTrue, Fits
<1>4. Fits(names, q) => Fits(Names(p, q), q)'
  BY <1>2, FitsStay DEF Fits
<1>5. Coming(q)' /\ q \in skipped' => Fits(Names(p, q), q)'
  BY DEF Fits
<1> QED
  BY <1>2, <1>3, <1>4, <1>5, BehindStays DEF Eased

LEMMA FoundStays ==
  ASSUME NEW q \in Path, FoundTrue(q), Eased(q),
         worker'.found = Incomplete \/
           (worker'.found = worker.found /\ worker'.job = worker.job /\ worker'.missed = worker.missed
            /\ db'.moved = db.moved)
  PROVE  FoundTrue(q)'
<1> SUFFICES ASSUME worker'.found # Incomplete, ~db'.moved, q \notin {worker'.job.path} \cup worker'.missed
             PROVE  Fits(FoundNames(q), q)'
  BY DEF FoundTrue
<1>1. PICK names : names = FoundNames(q)
  OBVIOUS
<1>2. FoundNames(q)' = names
  BY <1>1 DEF FoundNames
<1>3. Fits(names, q)
  BY <1>1 DEF FoundTrue, Fits
<1> QED
  BY <1>2, <1>3, FitsStay DEF Fits

LEMMA WrittenStays ==
  ASSUME NEW q \in Path, Written(q), Eased(q)
  PROVE  Written(q)'
  BY DEF Written, Eased, Told, Pending

LEMMA SetsParts ==
  RInv => FInv /\ Collected /\ Untouched
          /\ \A q \in Path : FoundTrue(q) /\ Written(q) /\ \A p \in Path : SetTrue(p, q)
  BY DEF RInv, SetsTrue, FilesTrue

LEMMA QuietKeeps ==
  ASSUME RInv, FInv', UNCHANGED <<open, history>>, \A q \in Path : Eased(q),
         \A p \in Path : db'.refs[p] \in {db.refs[p], Incomplete},
         worker'.found = Incomplete \/ (UNCHANGED worker /\ db'.moved = db.moved)
  PROVE  RInv'
<1>1. \A p, q \in Path : SetTrue(p, q)'
  BY SetsParts, SetStays
<1>2. \A q \in Path : FoundTrue(q)'
  BY SetsParts, FoundStays
<1>3. \A q \in Path : Written(q)'
  BY SetsParts, WrittenStays
<1>4. Collected'
  BY SetsParts DEF Collected
<1>5. Untouched'
  BY SetsParts DEF Untouched, Eased, Pending
<1> QED
  BY <1>1, <1>2, <1>3, <1>4, <1>5 DEF RInv, SetsTrue, FilesTrue

\* A transaction that makes all sets incomplete.
LEMMA VoidKeeps ==
  ASSUME RInv, FInv', Voided(db'), \A q \in Path : Written(q)',
         worker'.found = Incomplete \/ UNCHANGED worker
  PROVE  RInv'
<1>1. \A p, q \in Path : SetTrue(p, q)'
  BY DEF SetTrue, Voided
<1>2. \A q \in Path : FoundTrue(q)'
  BY DEF FoundTrue, Voided
<1>3. Collected' /\ Untouched'
  BY SetsParts DEF Collected, Untouched, Voided
<1> QED
  BY <1>1, <1>2, <1>3 DEF RInv, SetsTrue, FilesTrue


-----------------------------------------------------------------------------
(* The steps of the disk and of the watcher.                                *)

LEMMA ComingElsewhere ==
  ASSUME FInv, Outside, UNCHANGED <<listed, changed, deleted, batches>>, NEW q \in Path,
         disk'[q] = disk[q], InRaw(q) => InRaw(q)', Removal(q) => Removal(q)'
  PROVE  Told(q)
<1>1. Sent(q)' <=> Sent(q)
  BY DEF Sent
<1>2. Noted(q) => Noted(q)'
  BY <1>1, OnTheWayStays DEF Noted
<1>3. known' = known
  BY OutsideFrame
<1> QED
  BY <1>2, <1>3 DEF Told, Coming

LEMMA RemovalTold ==
  ASSUME FInv, Outside, NEW p \in Path, DiskRemoves(p), NEW q \in Path
  PROVE  Told(q)
<1>1. /\ UNCHANGED <<dir, watch, listed, changed, deleted, timer, scan, batches>>
      /\ disk' = [disk EXCEPT ![p] = Missing] /\ Notify("remove", p)
  BY DEF DiskRemoves
<1>2. disk'[p] = Missing /\ (q # p => disk'[q] = disk[q])
  BY <1>1, Known DEF FInv
<1>3. /\ watch = "running" /\ p \in listed => Removal(p)'
      /\ (InRaw(q) => InRaw(q)') /\ (Removal(q) => Removal(q)')
  BY <1>1, Seen
<1>4. CASE q # p
  BY <1>1, <1>2, <1>3, <1>4, ComingElsewhere
<1>5. CASE q = p
  <2>1. q \in skipped => Coming(q)'
    BY OutsideFrame DEF Coming, Noted, OnTheWay
  <2> QED
    BY <1>1, <1>2, <1>3, <1>5, <2>1, OutsideFrame DEF Told, Coming
<1> QED
  BY <1>4, <1>5

LEMMA WriteTold ==
  ASSUME FInv, Outside, NEW p \in Path, NEW t \in Text, DiskWrites(p, t), NEW q \in Path
  PROVE  Told(q)
<1>1. PICK op \in {"create", "write"} :
        /\ UNCHANGED <<dir, watch, listed, changed, deleted, timer, scan, batches>>
        /\ disk' = [disk EXCEPT ![p] = t] /\ Notify(op, p)
  BY DEF DiskWrites
<1>2. disk'[p] # Missing /\ (q # p => disk'[q] = disk[q])
  BY <1>1, Known DEF FInv
<1>3. /\ watch = "running" /\ p \in listed => InRaw(p)'
      /\ (InRaw(q) => InRaw(q)') /\ (Removal(q) => Removal(q)')
  BY <1>1, Seen
<1>4. CASE q # p
  BY <1>1, <1>2, <1>3, <1>4, ComingElsewhere
<1>5. CASE q = p
  BY <1>1, <1>2, <1>3, <1>5 DEF Told, Coming
<1> QED
  BY <1>4, <1>5

LEMMA DirectoryTold ==
  ASSUME FInv, Outside, MakeDirectory \/ Scan, NEW q \in Path
  PROVE  Told(q)
<1>1. UNCHANGED <<disk, listed, changed, deleted, batches>>
  BY DEF MakeDirectory, Scan, diskVars
<1>2. (InRaw(q) => InRaw(q)') /\ (Removal(q) => Removal(q)')
  <2> DEFINE e == [op |-> "mkdir", path |-> None]
  <2>1. e \in Events
    BY DEF Events
  <2>2. raw' = raw \/ raw' = Append(raw, e)
    BY DEF Notify, MakeDirectory, Scan
  <2> HIDE DEF e
  <2>3. CASE raw' = Append(raw, e)
    BY <2>1, <2>3, Appended DEF FInv
  <2>4. CASE raw' = raw
    BY <2>4 DEF InRaw, Removal
  <2> QED
    BY <2>2, <2>3, <2>4
<1> QED
  BY <1>1, <1>2, ComingElsewhere

LEMMA ConsumeTold ==
  ASSUME FInv, Outside, Consume, NEW q \in Path
  PROVE  Told(q)
<1> DEFINE e == Head(raw)
           gone == {e.path} \cap listed
<1>1. UNCHANGED <<disk, batches>>
  BY DEF Consume, diskVars
<1>2. /\ raw # <<>> /\ e \in Events /\ raw' = Tail(raw)
      /\ \/ e.op = "mkdir" /\ UNCHANGED <<listed, changed, deleted>>
         \/ /\ e.op = "remove" /\ e.path \in Path
            /\ listed' = listed \ gone /\ changed' = changed \ gone /\ deleted' = deleted \cup gone
         \/ /\ e.op \in {"create", "write"} /\ e.path \in Path /\ disk[e.path] # Missing
            /\ changed' = changed \cup {e.path} /\ deleted' = deleted \ {e.path} /\ UNCHANGED listed
         \/ /\ e.op \in {"create", "write"} /\ e.path \in Path /\ disk[e.path] = Missing
            /\ UNCHANGED <<listed, changed, deleted>>
  BY Consumed, Parts, WatcherParts DEF FInv
<1>3. e.op = "mkdir" => e.path \notin Path
  BY <1>2 DEF Events
<1>4. /\ q # e.path => (InRaw(q) => InRaw(q)')
      /\ e.path # q \/ e.op # "remove" => (Removal(q) => Removal(q)')
  BY <1>2, Removed DEF FInv
<1> HIDE DEF e
<1>5. Noted(q) => Noted(q)'
  <2>1. Sent(q) => Sent(q)'
    BY <1>1 DEF Sent
  <2>2. OnTheWay(q) => OnTheWay(q)'
    BY <2>1, OnTheWayStays
  <2> QED
    BY <1>2, <2>2 DEF Noted
<1>6. q \in changed' \cup deleted' => Noted(q)'
  BY DEF Noted
<1>7. Coming(q) => Coming(q)'
  <2>1. CASE q # e.path
    <3>1. q \in listed' <=> q \in listed
      BY <1>2, <2>1
    <3> QED
      BY <1>1, <1>4, <1>5, <2>1, <3>1, OutsideFrame DEF Coming
  <2>2. CASE q = e.path /\ e.op = "remove"
    <3>1. q \notin listed' /\ (q \in listed => q \in deleted')
      BY <1>2, <2>2
    <3> QED
      BY <1>1, <1>5, <1>6, <3>1, OutsideFrame DEF Coming
  <2>3. CASE q = e.path /\ e.op \in {"create", "write"} /\ disk[q] # Missing
    <3>1. q \in changed'
      BY <1>2, <2>3
    <3> QED
      BY <1>6, <3>1 DEF Coming
  <2>4. CASE q = e.path /\ e.op \in {"create", "write"} /\ disk[q] = Missing
    <3>1. listed' = listed
      BY <1>2, <2>4
    <3> QED
      BY <1>1, <1>4, <1>5, <2>4, <3>1, OutsideFrame DEF Coming
  <2> QED
    BY <1>2, <1>3, <2>1, <2>2, <2>3, <2>4
<1> QED
  BY <1>1, <1>7 DEF Told

LEMMA FlushTold ==
  ASSUME FInv, Outside, Flush, NEW q \in Path
  PROVE  Told(q)
<1> DEFINE files == scan.files
           b == RefreshScope(files)
<1>1. /\ UNCHANGED <<disk, watch, raw>> /\ watch = "running" /\ scan # None
      /\ listed' = files /\ changed' = {} /\ deleted' = {}
      /\ batches' = IF b.changed \cup b.deleted = {} THEN batches ELSE Append(batches, b)
  BY DEF Flush
<1>2. files \in SUBSET Path /\ deleted \cap listed = {}
  BY <1>1, Known DEF FInv, Later
<1>3. b \in Batches
  BY <1>2, BatchIs, Parts, WatcherParts DEF FInv
<1>4. /\ q \in files \ listed => q \in b.changed
      /\ q \in files /\ q \in changed \cup deleted => q \in b.changed
  BY <1>2, ScopeRefreshed
<1> HIDE DEF b
<1>5. (Sent(q) => Sent(q)') /\ (q \in b.changed \cup b.deleted => Sent(q)')
  BY <1>1, <1>3, Sending DEF FInv
<1> HIDE DEF files
<1>6. OnTheWay(q) => OnTheWay(q)'
  BY <1>5, OnTheWayStays
<1>7. (InRaw(q)' <=> InRaw(q)) /\ (Removal(q)' <=> Removal(q))
  BY <1>1 DEF InRaw, Removal
<1>8. CASE q \in files
  <2>1. q \in changed \cup deleted \/ q \notin listed => Noted(q)'
    BY <1>4, <1>5, <1>8 DEF Noted, OnTheWay
  <2>2. Noted(q) => Noted(q)'
    BY <1>6, <2>1 DEF Noted, OnTheWay
  <2>3. Coming(q) => Coming(q)'
    BY <1>1, <1>7, <1>8, <2>1, <2>2 DEF Coming
  <2> QED
    BY <1>1, <2>3 DEF Told
<1>9. CASE q \notin files
  <2>1. q \in skipped => Coming(q)'
    BY OutsideFrame DEF Coming, Noted, OnTheWay
  <2> QED
    BY <1>1, <1>9, <2>1, OutsideFrame DEF Told, Coming
<1> QED
  BY <1>8, <1>9

LEMMA OutsideKeepsSets ==
  ASSUME RInv, FInv', DiskStep \/ WatcherStep \/ WatchFails, Outside
  PROVE  RInv'
<1>0. FInv
  BY SetsParts
<1>1. UNCHANGED <<db, known, pending, skipped, open, worker, history>>
  BY DEF Outside, coreVars, otherVars
<1>2. watch' = "running" => watch = "running"
  BY DEF DiskStep, DiskRemoves, DiskWrites, MakeDirectory, WatcherStep, Consume, Scan, Flush, WatchFails
<1>3. ASSUME NEW q \in Path
      PROVE  Told(q)
  <2>1. CASE DiskStep
    BY <1>0, <2>1, RemovalTold, WriteTold, DirectoryTold DEF DiskStep
  <2>2. CASE WatcherStep
    BY <1>0, <2>2, ConsumeTold, FlushTold, DirectoryTold DEF WatcherStep
  <2>3. CASE WatchFails
    BY <2>3 DEF WatchFails, Told
  <2> QED
    BY <2>1, <2>2, <2>3
<1>4. \A q \in Path : Eased(q)
  BY <1>1, <1>2, <1>3 DEF Eased
<1> QED
  BY <1>1, <1>4, QuietKeeps


-----------------------------------------------------------------------------
(* The steps of the others, which leave the disk and the watcher.           *)

LEMMA NewsEased ==
  ASSUME UNCHANGED <<diskVars, watchVars>>, NEW q \in Path, OnTheWay(q) => OnTheWay(q)', SameFile(q)
  PROVE  Eased(q) /\ (Coming(q) => Coming(q)')
<1>1. Coming(q) => Coming(q)'
  BY NewsRests, ComingStays DEF Noted, SameFile
<1> QED
  BY <1>1, NewsRests DEF Eased, Told, SameFile

LEMMA SoftSkipEased ==
  ASSUME IInv, NEW p \in Path, SoftSkip(p), UNCHANGED <<diskVars, watchVars, scanComplete, indexFatal>>
  PROVE  Eased(p) /\ Only(p) /\ Fewer(db, db')
<1>1. Skipping(p) /\ Only(p)
  BY SoftSkipped
<1>2. /\ db'.row \in {db.row, [db.row EXCEPT ![p] = NoRow]} /\ known' = known \ {p} /\ skipped' = skipped \cup {p}
      /\ pending' = [pending EXCEPT ![p] = 0]
  BY SoftSkipEffect
<1>3. db \in Store /\ db.row \in [Path -> Marks] /\ pending \in [Path -> Nat]
  BY Parts, StoreParts DEF CoreOK
<1>4. Coming(p)'
  BY <1>2 DEF Coming, Noted, OnTheWay
<1>5. Eased(p)
  BY <1>2, <1>3, <1>4, NewsRests DEF Eased, Told
<1>6. Fewer(db, db')
  BY <1>3, AbandonedSets DEF SoftSkip, Fewer
<1> QED
  BY <1>1, <1>5, <1>6

\* A file that is deleted, or scheduled again: all sets are incomplete.
LEMMA FileVoided ==
  ASSUME RInv, FInv', NEW p \in Path, DeletePath(p) \/ Reschedule(p),
         UNCHANGED <<diskVars, watchVars, scanComplete, indexFatal>>,
         worker'.found = Incomplete \/ UNCHANGED worker,
         \A q \in Path \ {p} : OnTheWay(q) => OnTheWay(q)'
  PROVE  RInv'
<1>0. IInv /\ db \in Store /\ db.row \in [Path -> Marks]
  BY SetsParts, Parts, StoreParts DEF FInv, CoreOK
<1>1. Only(p) /\ db'.row[p] \in {NoRow, Blank}
  <2>1. Only(p)
    BY <1>0, Deleted, Rescheduled
  <2>2. DeletePath(p) => db'.row = [db.row EXCEPT ![p] = NoRow]
    BY <1>0, DeletePathEffect
  <2>3. Reschedule(p) => db'.row = [db.row EXCEPT ![p] = IF @ = NoRow THEN NoRow ELSE Blank]
    BY <1>0, RescheduleEffect
  <2> QED
    BY <1>0, <2>1, <2>2, <2>3
<1>2. Voided(db')
  BY <1>0, InvalidationVoids DEF DeletePath, Reschedule
<1>3. Written(p)'
  BY <1>1 DEF Written
<1>4. \A q \in Path \ {p} : Written(q)'
  BY <1>1, SetsParts, NewsEased, WrittenStays DEF Only
<1> QED
  BY <1>2, <1>3, <1>4, VoidKeeps

LEMMA RestsKeepSets ==
  ASSUME RInv, FInv', AskHeal \/ HealerWakes \/ (\E p \in Path : AgentOpens(p)) \/ UNCHANGED indexingVars
  PROVE  RInv'
<1>1. UNCHANGED <<diskVars, watchVars, coreVars, open, batch, worker, owed, history>>
  BY DEF AskHeal, HealerWakes, AgentOpens, indexingVars, QueryRests, otherVars
<1>2. UNCHANGED <<db, skipped, batches>>
  BY <1>1, NewsRests DEF coreVars
<1>3. \A q \in Path : Eased(q)
  BY <1>1, NewsEased DEF SameFile, coreVars, OnTheWay, InBatch, Owed, Sent, watchVars
<1> QED
  BY <1>1, <1>2, <1>3, QuietKeeps

LEMMA FailureKeepsSets ==
  ASSUME RInv, FInv', NEW p \in Path, NEW a \in Actor, (HealFails(p) /\ a = "healer") \/ (HandleFails(p) /\ a = "consumer")
  PROVE  RInv'
<1>1. /\ UNCHANGED <<diskVars, watchVars, coreVars, open, worker, history>>
      /\ owed[a] = None /\ Owe(a, p) /\ (UNCHANGED batch \/ NextInBatch(p))
  BY DEF HealFails, HandleFails, QueryRests, NextInBatch, ConsumerRests
<1>2. UNCHANGED <<db, skipped>>
  BY <1>1 DEF coreVars
<1>3. IInv
  BY SetsParts DEF FInv
<1>4. owed'[a] = p /\ \A b \in Actor \ {a} : owed'[b] = owed[b]
  BY <1>1, <1>3, Parts DEF RestOK, Owe
<1>5. Owed(p)' /\ \A q \in Path : Owed(q) => Owed(q)'
  BY <1>1, <1>4 DEF Owed
<1>6. \A q \in Path \ {p} : InBatch(q) => InBatch(q)'
  BY <1>1, <1>3, BatchLeft
<1>7. \A q \in Path : OnTheWay(q) => OnTheWay(q)'
  BY <1>1, <1>2, <1>5, <1>6, NewsRests DEF OnTheWay
<1>8. \A q \in Path : Eased(q)
  BY <1>1, <1>7, NewsEased DEF SameFile, coreVars
<1> QED
  BY <1>1, <1>2, <1>8, QuietKeeps

LEMMA SkipKeepsSets ==
  ASSUME RInv, FInv', NEW a \in Actor, FailIndexPath(a)
  PROVE  RInv'
<1>1. /\ UNCHANGED <<diskVars, watchVars, scanComplete, indexFatal, open, batch, worker, history>>
      /\ owed[a] # None /\ SoftSkip(owed[a]) /\ Owe(a, None)
  BY DEF FailIndexPath
<1>2. IInv
  BY SetsParts DEF FInv
<1>3. PICK p \in Path : p = owed[a]
  BY <1>1, <1>2, Parts DEF RestOK
<1>4. \A b \in Actor \ {a} : owed'[b] = owed[b]
  BY <1>1, <1>2, Parts DEF RestOK, Owe
<1>5. Eased(p) /\ Only(p) /\ Fewer(db, db')
  BY <1>1, <1>2, <1>3, SoftSkipEased
<1>6. \A q \in Path \ {p} : OnTheWay(q) => OnTheWay(q)'
  BY <1>1, <1>3, <1>4, <1>5, NewsRests DEF OnTheWay, Owed, InBatch, Only, SameFile
<1>7. \A q \in Path : Eased(q)
  BY <1>1, <1>5, <1>6, NewsEased DEF Only
<1> QED
  BY <1>1, <1>5, <1>7, QuietKeeps DEF Fewer

LEMMA QueryKeepsSets ==
  ASSUME RInv, FInv', NEW p \in Path, AgentReads(p) \/ HealPath(p)
  PROVE  RInv'
<1>1. /\ UNCHANGED <<diskVars, watchVars, scanComplete, indexFatal, open, batch, worker, owed, history>>
      /\ ReadFreshCache(p)
  BY DEF AgentReads, HealPath, QueryRests
<1>2. DeletePath(p) \/ Reschedule(p) \/ UNCHANGED coreVars
  BY <1>1 DEF ReadFreshCache, InvalidateAndQueue
<1>3. CASE UNCHANGED coreVars
  <2>1. UNCHANGED <<db, skipped, batches>>
    BY <1>1, <1>3, NewsRests DEF coreVars
  <2>2. \A q \in Path : Eased(q)
    BY <1>1, <1>3, NewsEased DEF SameFile, coreVars, OnTheWay, InBatch, Owed, Sent, watchVars
  <2> QED
    BY <1>1, <2>1, <2>2, QuietKeeps
<1>4. CASE DeletePath(p) \/ Reschedule(p)
  <2>1. Only(p)
    BY <1>1, <1>4, SetsParts, Deleted, Rescheduled DEF FInv
  <2>2. \A q \in Path \ {p} : OnTheWay(q) => OnTheWay(q)'
    BY <1>1, <2>1, NewsRests DEF OnTheWay, Owed, InBatch, Only, SameFile
  <2> QED
    BY <1>1, <1>4, <2>2, FileVoided
<1> QED
  BY <1>2, <1>3, <1>4

LEMMA HandlingKeepsSets ==
  ASSUME RInv, FInv', NEW p \in Path, HandleDeleted(p) \/ HandleChanged(p)
  PROVE  RInv'
<1>1. UNCHANGED <<diskVars, watchVars, scanComplete, indexFatal, worker, owed>> /\ NextInBatch(p)
  BY DEF HandleDeleted, HandleChanged, NextInBatch, ConsumerRests
<1>2. DeletePath(p) \/ Reschedule(p)
  BY DEF HandleDeleted, HandleChanged, InvalidateAndQueue
<1>3. IInv /\ Only(p)
  BY <1>1, <1>2, SetsParts, Deleted, Rescheduled DEF FInv
<1>4. \A q \in Path \ {p} : InBatch(q) => InBatch(q)'
  BY <1>1, <1>3, BatchLeft
<1>5. \A q \in Path \ {p} : OnTheWay(q) => OnTheWay(q)'
  BY <1>1, <1>3, <1>4, NewsRests DEF OnTheWay, Owed, Only, SameFile
<1> QED
  BY <1>1, <1>2, <1>5, FileVoided

LEMMA TakingKeepsSets ==
  ASSUME RInv, FInv', TakeBatch
  PROVE  RInv'
<1>1. /\ UNCHANGED <<disk, watch, raw, listed, changed, deleted, open, worker, owed, db, known, pending, skipped, history>>
      /\ batch = None /\ batches # <<>> /\ batch' = Head(batches) /\ batches' = Tail(batches)
  BY DEF TakeBatch, ConsumerRests, coreVars, diskVars
<1>2. batches \in Seq(Batches)
  BY SetsParts, Known DEF FInv
<1>3. /\ DOMAIN batches = 1..Len(batches) /\ DOMAIN batches' = 1..(Len(batches) - 1) /\ Len(batches) \in Nat \ {0}
      /\ batch' = batches[1] /\ \A i \in 1..(Len(batches) - 1) : batches'[i] = batches[i + 1]
  BY <1>1, <1>2, HeadTailProperties
<1>4. batch' # None
  <2>1. batch' \in Batches
    BY <1>2, <1>3
  <2> QED
    BY <2>1, NoBatchAssumption
<1>5. \A i \in DOMAIN batches : batches[i] = batch' \/ (i - 1 \in DOMAIN batches' /\ batches'[i - 1] = batches[i])
  BY <1>3
<1>6. \A q \in Path : Sent(q) => Sent(q)' \/ InBatch(q)'
  BY <1>4, <1>5 DEF Sent, InBatch
<1>7. \A q \in Path : Noted(q) => Noted(q)'
  BY <1>1, <1>6 DEF Noted, OnTheWay, InBatch, Owed
<1>8. \A q \in Path : Eased(q)
  BY <1>1, <1>7, ComingStays DEF Eased, Told
<1> QED
  BY <1>1, <1>8, QuietKeeps

LEMMA StoppedKeepsSets ==
  ASSUME RInv, FInv', WatcherStopped
  PROVE  RInv'
<1>1. UNCHANGED <<db, known, pending, skipped, open, worker, history>> /\ watch' = "off"
  BY DEF WatcherStopped, Unwatch
<1>2. \A q \in Path : Eased(q)
  BY <1>1 DEF Eased, Told
<1> QED
  BY <1>1, <1>2, QuietKeeps

LEMMA ExpiryKeepsSets ==
  ASSUME RInv, FInv', NEW p \in Path, Expire(p)
  PROVE  RInv'
<1>1. /\ UNCHANGED <<diskVars, watchVars, batch, worker, owed, known, pending, skipped>>
      /\ db' = InvalidateFile(db, p)
  BY DEF Expire, QueryRests
<1>2. db \in Store /\ db.row \in [Path -> Marks]
  BY SetsParts, Parts, StoreParts DEF FInv, CoreOK
<1>3. db'.row = [db.row EXCEPT ![p] = IF @ = NoRow THEN NoRow ELSE Blank] /\ Voided(db')
  BY <1>1, <1>2, InvalidateFileType, InvalidationVoids
<1>4. db'.row[p] \in {NoRow, Blank} /\ \A q \in Path \ {p} : db'.row[q] = db.row[q]
  BY <1>2, <1>3
<1>5. Written(p)'
  BY <1>4 DEF Written
<1>6. \A q \in Path \ {p} : SameFile(q) /\ (OnTheWay(q) => OnTheWay(q)')
  BY <1>1, <1>4, NewsRests DEF SameFile, OnTheWay, InBatch, Owed
<1>7. \A q \in Path \ {p} : Written(q)'
  BY <1>1, <1>6, SetsParts, NewsEased, WrittenStays
<1> QED
  BY <1>1, <1>3, <1>5, <1>7, VoidKeeps

\* The daemon stops: what was not noticed is lost, of the rest the rows say what there is.
LEMMA StopKeepsSets ==
  ASSUME RInv, FInv', Stop
  PROVE  RInv'
<1>1. UNCHANGED <<disk, db, blind>> /\ worker'.found = Incomplete /\ open'.at = "closed"
      /\ pending' = [p \in Path |-> 0] /\ watch' = "off" /\ Up
      /\ lost' = [p \in Path |-> IF db.refs[p] = Incomplete THEN {} ELSE lost[p] \cup {q \in Path : Unnoticed(q)}]
  BY DEF Stop, Closed, Resting, Unwatch
<1>2. ASSUME NEW p \in Path, NEW q \in Path
      PROVE  SetTrue(p, q)'
  <2> SUFFICES ASSUME db.refs[p] # Incomplete, q \notin {p} \cup blind[p] \cup lost'[p], db.row[q] \in Text
               PROVE  Names(p, q) = {db.row[q]} \cap Mentioning
    BY <1>1 DEF SetTrue, Up, Names
  <2>1. q \notin lost[p] /\ ~Unnoticed(q)
    BY <1>1
  <2>2. SetTrue(p, q)
    BY SetsParts
  <2>3. CASE open.at # "done"
    BY <2>1, <2>2, <2>3 DEF SetTrue
  <2>4. CASE open.at = "done"
    <3>1. watch = "running" /\ ~Noted(q) /\ ~InRaw(q) /\ ~Unlisted(q)
      BY <2>1 DEF Unnoticed, Travelling, Noted, OnTheWay, Sent, InBatch, Owed, InRaw
    <3>2. ~Coming(q)
      BY <3>1 DEF Coming, Unlisted, Overlooked, InRaw, Removal
    <3>3. Fits(Names(p, q), q)
      BY <1>1, <2>1, <2>2, <2>4 DEF SetTrue, Behind
    <3>4. db.row[q] = disk[q]
      <4>1. Written(q) /\ Leaves(q) /\ Stays(q)
        BY SetsParts, FollowsAll
      <4>2. CASE disk[q] = Missing
        <5>1. ~Gone(q)
          BY <2>4, <4>2 DEF Gone
        <5> QED
          BY <3>1, <3>2, <4>1, <4>2, <5>1 DEF Leaves, Coming
      <4>3. CASE disk[q] # Missing
        <5>1. Kept(q)
          BY <3>1, <4>1, <4>3 DEF Stays, Expected, Unlisted, Overlooked
        <5>2. CASE Pending(q)
          BY <3>1, <3>2, <4>1, <4>3, <5>2 DEF Written
        <5>3. CASE ~Pending(q)
          BY <2>4, <5>1, <5>3 DEF Kept
        <5> QED
          BY <5>2, <5>3
      <4> QED
        BY <4>2, <4>3
    <3> QED
      BY <3>1, <3>2, <3>3, <3>4 DEF Fits
  <2> QED
    BY <2>3, <2>4
<1>3. \A q \in Path : FoundTrue(q)' /\ Written(q)'
  BY <1>1 DEF FoundTrue, Written
<1>4. Collected' /\ Untouched'
  BY <1>1 DEF Collected, Untouched
<1> QED
  BY <1>2, <1>3, <1>4 DEF RInv, SetsTrue, FilesTrue


-----------------------------------------------------------------------------
(* The steps of the opener.                                                 *)

LEMMA OpeningKeepsSets ==
  ASSUME RInv, FInv', OpenWorkspace
  PROVE  RInv'
<1>1. /\ UNCHANGED <<worker, history, pending>> /\ ~Up
      /\ db' = db \/ db' = ChangeNamespace(db)
  BY DEF OpenWorkspace
<1>2. open'.at = "list" /\ open.at = "closed"
  BY SetsParts, Parts DEF FInv, OpenOK, OpenWorkspace, Up
<1>3. \A q \in Path : ~Pending(q)'
  BY <1>1, SetsParts DEF FInv, Phases, Pending
<1>4. worker.found = Incomplete
  BY <1>2, SetsParts DEF FInv, Phases, InJob, Collected
<1>5. ASSUME NEW p \in Path, NEW q \in Path
      PROVE  SetTrue(p, q)'
  <2>1. CASE db' = db
    BY <1>1, <1>2, <2>1, SetsParts DEF SetTrue, Behind, Names, history
  <2>2. CASE db' = ChangeNamespace(db)
    <3>1. Voided(db')
      BY <2>2, SetsParts, Parts, InvalidationVoids DEF FInv, CoreOK
    <3> QED
      BY <3>1 DEF SetTrue, Voided
  <2> QED
    BY <1>1, <2>1, <2>2
<1>6. \A q \in Path : FoundTrue(q)' /\ Written(q)'
  BY <1>1, <1>3, <1>4 DEF FoundTrue, Written
<1>7. Collected' /\ Untouched'
  BY <1>1, <1>3, <1>4 DEF Collected, Untouched
<1> QED
  BY <1>5, <1>6, <1>7 DEF RInv, SetsTrue, FilesTrue

LEMMA OpenerKeepsSets ==
  ASSUME RInv, FInv', NEW S, OpenerAt(S), \A q \in Path : Eased(q),
         \A p, q \in Path : SetTrue(p, q)', Untouched'
  PROVE  RInv'
<1>1. worker'.found = Incomplete
  BY SetsParts DEF OpenerAt, FInv, Phases, InJob, Collected
<1>2. \A q \in Path : FoundTrue(q)' /\ Written(q)'
  BY <1>1, SetsParts, WrittenStays DEF FoundTrue
<1>3. Collected'
  BY <1>1 DEF Collected
<1> QED
  BY <1>2, <1>3 DEF RInv, SetsTrue, FilesTrue

\* The opener has compared a file with its row: the sets agree with the file too.
LEMMA OpenedSet ==
  ASSUME RInv, NEW S, OpenerAt(S), UNCHANGED <<db, history>>, NEW p \in Path, NEW q \in Path, Eased(q),
         Behind(q) => \/ Behind(q)'
                      \/ q \in known' /\ (Coming(q)' \/ (db.row[q] \in Text /\ disk[q] = db.row[q]))
  PROVE  SetTrue(p, q)'
<1> SUFFICES ASSUME db.refs[p] # Incomplete, q \notin {p} \cup blind[p] \cup lost[p]
             PROVE  /\ open'.at # "done" /\ db.row[q] \in Text => Names(p, q)' = {db.row[q]} \cap Mentioning
                    /\ Fits(Names(p, q), q)' \/ Behind(q)'
  BY DEF SetTrue, history
<1>1. PICK names : names = Names(p, q)
  OBVIOUS
<1>2. Names(p, q)' = names
  BY <1>1 DEF Names
<1>3. /\ db.row[q] \in Text => names = {db.row[q]} \cap Mentioning
      /\ Fits(names, q) \/ Behind(q)
  <2>1. SetTrue(p, q) /\ Up /\ open.at # "done"
    BY SetsParts DEF OpenerAt, Up
  <2> QED
    BY <1>1, <2>1 DEF SetTrue, Fits
<1>4. Fits(names, q) => Fits(Names(p, q), q)'
  BY <1>2, FitsStay DEF Fits
<1>5. ASSUME q \in known', Coming(q)' \/ (db.row[q] \in Text /\ disk[q] = db.row[q])
      PROVE  Fits(Names(p, q), q)'
  BY <1>2, <1>3, <1>5, NewsRests DEF Fits, OpenerAt
<1> QED
  BY <1>2, <1>3, <1>4, <1>5

LEMMA ListingKeepsSets ==
  ASSUME RInv, FInv', List \/ AddKnown \/ OpeningFails
  PROVE  RInv'
<1>1. OpenerAt({"list", "known", "reconcile"}) /\ UNCHANGED <<db, pending, skipped, owed, history>> /\ known \subseteq known'
  BY DEF List, AddKnown, OpeningFails, OpenerAt, OpenerRests, coreVars
<1>2. open'.at \in {"known", "reconcile", "aborted"} /\ (open'.at = "reconcile" => open'.paths \subseteq known')
  <2>1. OpenOK
    BY SetsParts, Parts DEF FInv
  <2>2. List => open'.at = "known"
    BY <2>1 DEF List, OpenOK
  <2>3. AddKnown => open'.at = "reconcile" /\ open'.paths = open.paths
    BY <2>1 DEF AddKnown, OpenOK
  <2>4. OpeningFails => open'.at = "aborted"
    BY DEF OpeningFails, Closed
  <2> QED
    BY <2>2, <2>3, <2>4 DEF AddKnown
<1>3. \A q \in Path : Behind(q)'
  BY <1>2 DEF Behind
<1>4. \A q \in Path : Noted(q) => Noted(q)'
  BY <1>1, NewsRests DEF OpenerAt, Noted, OnTheWay, InBatch, Owed
<1>5. \A q \in Path : Eased(q)
  BY <1>1, <1>4, NewsRests, ComingStays DEF OpenerAt, Eased, Told
<1>6. \A p, q \in Path : SetTrue(p, q)'
  BY <1>1, <1>3, <1>5, OpenedSet
<1>7. Untouched'
  BY <1>1, <1>2, SetsParts DEF Untouched, Pending, OpenerAt
<1> QED
  BY <1>1, <1>5, <1>6, <1>7, OpenerKeepsSets

LEMMA ReconcilingKeepsSets ==
  ASSUME RInv, FInv', Reconcile
  PROVE  RInv'
<1>1. /\ OpenerAt({"reconcile"}) /\ UNCHANGED <<disk, watch, known, pending, skipped, owed, history>>
      /\ open.at = "reconcile" /\ db' = ReconcileWorkspace(db, open.paths)
  BY DEF Reconcile, OpenerAt, OpenerRests, diskVars, watchVars
<1>2. /\ open'.paths = open.paths /\ open'.todo = open.paths
      /\ open'.at = IF open.paths = {} THEN "queue" ELSE "check"
  BY SetsParts, Parts DEF FInv, OpenOK, Reconcile, NextPass
<1>3. db \in Store /\ db.row \in [Path -> Marks] /\ open.paths \in SUBSET Path /\ db.refs \in [Path -> Sets]
  BY SetsParts, Parts, Known, StoreParts DEF FInv, CoreOK
<1>4. \A q \in Path : db'.row[q] = IF q \in open.paths THEN db.row[q] ELSE NoRow
  <2>1. db'.row = [q \in Path |-> IF q \in open.paths THEN db.row[q] ELSE NoRow]
    BY <1>1, <1>3, ReconcileType
  <2> QED
    BY <2>1
<1>5. \A p \in Path : db'.refs[p] # Incomplete =>
        db.refs[p] # Incomplete /\ db'.refs[p] = db.refs[p] \cap (open.paths \X Text)
  BY <1>1, <1>3, ReconciledSets
<1>6. \A q \in Path : Noted(q) => Noted(q)'
  BY <1>1, NewsRests DEF OpenerAt, Noted, OnTheWay, InBatch, Owed
<1>7. \A q \in Path : Eased(q) /\ (Coming(q) => Coming(q)')
  BY <1>1, <1>4, <1>6, NewsRests, ComingStays DEF OpenerAt, Eased, Told
<1>8. ASSUME NEW p \in Path, NEW q \in Path
      PROVE  SetTrue(p, q)'
  <2> SUFFICES ASSUME db'.refs[p] # Incomplete, q \notin {p} \cup blind[p] \cup lost[p]
               PROVE  /\ db'.row[q] \in Text => Names(p, q)' = {db'.row[q]} \cap Mentioning
                      /\ Fits(Names(p, q), q)' \/ Behind(q)'
    BY <1>1 DEF SetTrue, history
  <2>1. db.refs[p] # Incomplete /\ db'.refs[p] = db.refs[p] \cap (open.paths \X Text)
    BY <1>5
  <2>2. /\ db.row[q] \in Text => Names(p, q) = {db.row[q]} \cap Mentioning
        /\ Fits(Names(p, q), q) \/ Behind(q)
    <3>1. SetTrue(p, q) /\ Up
      BY <1>1, SetsParts DEF Up
    <3> QED
      BY <1>1, <2>1, <3>1 DEF SetTrue
  <2>3. CASE q \in open.paths
    <3>1. PICK names : names = Names(p, q)
      OBVIOUS
    <3>2. Names(p, q)' = names
      BY <2>1, <2>3, <3>1 DEF Names
    <3>3. open'.at = "check" /\ db'.row[q] = db.row[q]
      BY <1>2, <1>4, <2>3
    <3>4. Behind(q) => Behind(q)'
      BY <1>1, <1>2, <2>3, <3>3 DEF Behind
    <3>5. Fits(names, q) => Fits(Names(p, q), q)'
      BY <1>7, <3>2, FitsStay DEF Fits
    <3>6. Fits(Names(p, q), q) => Fits(names, q)
      BY <3>1 DEF Fits
    <3> QED
      BY <2>2, <3>1, <3>2, <3>3, <3>4, <3>5, <3>6
  <2>4. CASE q \notin open.paths
    <3>1. Names(p, q)' = {} /\ db'.row[q] = NoRow
      BY <1>4, <2>1, <2>4 DEF Names
    <3>2. watch = "running" /\ disk[q] # Missing => Coming(q)
      <4>1. Stays(q) /\ ~Pending(q)
        BY <1>1, <2>1, SetsParts, FollowsAll DEF Untouched
      <4> QED
        BY <1>1, <2>4, <4>1 DEF Stays, Kept, Expected, Coming
    <3>3. Fits(Names(p, q), q)'
      BY <1>1, <1>7, <3>1, <3>2 DEF Fits
    <3> QED
      BY <3>1, <3>3
  <2> QED
    BY <2>3, <2>4
<1>9. Untouched'
  BY <1>2 DEF Untouched
<1> QED
  BY <1>1, <1>7, <1>8, <1>9, OpenerKeepsSets

LEMMA FinishKeepsSets ==
  ASSUME RInv, FInv', FinishStaging
  PROVE  RInv'
<1>1. /\ OpenerAt({"queue"}) /\ UNCHANGED <<db, known, pending, skipped, owed, history>> /\ open.at = "queue"
  BY DEF FinishStaging, OpenerAt, OpenerRests
<1>2. open'.at = "done"
  BY DEF FinishStaging, Closed
<1>3. \A q \in Path : Eased(q)
  BY <1>1, NewsEased, NewsRests DEF OpenerAt, SameFile, OnTheWay, InBatch, Owed
<1>4. \A q \in Path : ~Behind(q)
  BY <1>1 DEF Behind
<1>5. \A p, q \in Path : SetTrue(p, q)'
  BY <1>1, <1>3, <1>4, OpenedSet
<1>6. Untouched'
  BY <1>2 DEF Untouched
<1> QED
  BY <1>1, <1>3, <1>5, <1>6, OpenerKeepsSets

\* What a pass has yet to come to, it will come to.
LEMMA PassBehind ==
  ASSUME FInv, NEW p \in open.todo, NEW o, open.at \in {"check", "stage"},
         /\ o \in [at : Stations.opener, paths : SUBSET Path, todo : SUBSET Path,
                   rebuild : BOOLEAN, jobs : Seq(Jobs)]
         /\ o.at = open.at /\ o.paths = open.paths /\ o.todo = open.todo \ {p} /\ (open.rebuild => o.rebuild)
         /\ open' = NextPass(o),
         NEW q \in Path, q \in known => q \in known',
         q # p \/ (o.rebuild /\ open.at = "check")
  PROVE  Behind(q) => Behind(q)'
<1>1. /\ open'.paths = open.paths /\ open'.rebuild = o.rebuild
      /\ o.todo # {} => open'.at = open.at /\ open'.todo = o.todo
      /\ o.todo = {} /\ open.at = "check" /\ o.rebuild /\ open.paths # {} =>
           open'.at = "stage" /\ open'.todo = open.paths
      /\ o.todo = {} /\ ~(open.at = "check" /\ o.rebuild /\ open.paths # {}) =>
           open'.at = "queue" /\ open'.todo = {}
  BY Parts, PassMoves DEF FInv
<1>2. CASE open.at = "check"
  BY <1>1, <1>2 DEF Behind
<1>3. CASE open.at = "stage"
  BY <1>1, <1>3 DEF Behind
<1> QED
  BY <1>2, <1>3

\* The stations of a pass, and that the jobs are not touched.
LEMMA PassAt ==
  ASSUME FInv, NEW o,
         /\ o \in [at : Stations.opener, paths : SUBSET Path, todo : SUBSET Path,
                   rebuild : BOOLEAN, jobs : Seq(Jobs)]
         /\ o.at \in {"check", "stage"} /\ open' = NextPass(o)
  PROVE  Untouched'
<1>1. open'.at \in {"check", "stage", "queue"}
  BY Parts, PassMoves DEF FInv
<1> QED
  BY <1>1 DEF Untouched

LEMMA CheckKeepsSets ==
  ASSUME RInv, FInv', NEW p \in Path, CheckPath(p)
  PROVE  RInv'
<1> DEFINE o == [open EXCEPT !.todo = @ \ {p},
                     !.rebuild = @ \/ disk[p] = Missing \/ Pending(p) \/ db.row[p] # disk[p]]
<1>0. FInv
  BY SetsParts
<1>1. /\ OpenerAt({"check"}) /\ UNCHANGED <<disk, db, known, pending, skipped, owed, history>>
      /\ open.at = "check" /\ p \in open.todo /\ open' = NextPass(o)
  BY DEF CheckPath, OpenerAt, OpenerRests, coreVars, diskVars, InOrder
<1>2. /\ o \in [at : Stations.opener, paths : SUBSET Path, todo : SUBSET Path,
                rebuild : BOOLEAN, jobs : Seq(Jobs)]
      /\ o.at = "check" /\ o.paths = open.paths /\ o.todo = open.todo \ {p}
      /\ o.rebuild <=> (open.rebuild \/ disk[p] = Missing \/ Pending(p) \/ db.row[p] # disk[p])
  BY <1>0, <1>1, Parts DEF FInv, OpenOK
<1> HIDE DEF o
<1>3. \A q \in Path : Eased(q)
  BY <1>1, NewsEased, NewsRests DEF OpenerAt, SameFile, OnTheWay, InBatch, Owed
<1>4. \A q \in Path \ {p} : Behind(q) => Behind(q)'
  BY <1>0, <1>1, <1>2, PassBehind
<1>5. Behind(p) => Behind(p)' \/ (p \in known' /\ db.row[p] \in Text /\ disk[p] = db.row[p])
  <2>1. CASE o.rebuild
    BY <1>0, <1>1, <1>2, <2>1, PassBehind
  <2>2. CASE ~o.rebuild
    <3>1. disk[p] = db.row[p] /\ db.row[p] \in Text
      BY <1>0, <1>2, <2>2, Known DEF FInv
    <3> QED
      BY <1>1, <3>1 DEF Behind
  <2> QED
    BY <2>1, <2>2
<1>6. \A r, q \in Path : SetTrue(r, q)'
  BY <1>1, <1>3, <1>4, <1>5, OpenedSet
<1>7. Untouched'
  BY <1>0, <1>1, <1>2, PassAt
<1> QED
  BY <1>1, <1>3, <1>6, <1>7, OpenerKeepsSets

LEMMA StagingKeepsSets ==
  ASSUME RInv, FInv', NEW p \in Path, StagePath(p)
  PROVE  RInv'
<1>0. FInv
  BY SetsParts
<1>1. /\ OpenerAt({"stage"}) /\ UNCHANGED <<disk, owed, scanComplete, indexFatal, history>>
      /\ open.at = "stage" /\ p \in open.todo
  BY DEF StagePath, OpenerAt, OpenerRests, diskVars, InOrder
<1>2. CASE p \in known
  <2>1. DeletePath(p) \/ Reschedule(p)
    BY <1>2 DEF StagePath
  <2>2. Only(p)
    BY <1>0, <1>1, <2>1, Deleted, Rescheduled DEF FInv
  <2>3. \A q \in Path \ {p} : OnTheWay(q) => OnTheWay(q)'
    BY <1>1, <2>2, NewsRests DEF OpenerAt, OnTheWay, Owed, InBatch, Only, SameFile
  <2> QED
    BY <1>1, <2>1, <2>3, FileVoided DEF OpenerAt
<1>3. CASE p \notin known
  <2> DEFINE o == [open EXCEPT !.todo = @ \ {p}]
  <2>1. UNCHANGED coreVars /\ open' = NextPass(o)
    BY <1>3 DEF StagePath
  <2>2. /\ o \in [at : Stations.opener, paths : SUBSET Path, todo : SUBSET Path,
                  rebuild : BOOLEAN, jobs : Seq(Jobs)]
        /\ o.at = open.at /\ o.paths = open.paths /\ o.todo = open.todo \ {p} /\ o.rebuild = open.rebuild
    BY <1>0, <1>1, Parts DEF FInv, OpenOK
  <2> HIDE DEF o
  <2>3. UNCHANGED <<db, known, pending, skipped>>
    BY <2>1 DEF coreVars
  <2>4. \A q \in Path : Eased(q)
    BY <1>1, <2>3, NewsEased, NewsRests DEF OpenerAt, SameFile, OnTheWay, InBatch, Owed
  <2>5. \A q \in Path \ {p} : Behind(q) => Behind(q)'
    BY <1>0, <1>1, <2>1, <2>2, <2>3, PassBehind
  <2>6. ~Behind(p)
    BY <1>1, <1>3 DEF Behind
  <2>7. \A r, q \in Path : SetTrue(r, q)'
    BY <1>1, <2>3, <2>4, <2>5, <2>6, OpenedSet
  <2>8. Untouched'
    BY <1>0, <1>1, <2>1, <2>2, PassAt
  <2> QED
    BY <1>1, <2>4, <2>7, <2>8, OpenerKeepsSets
<1> QED
  BY <1>2, <1>3

LEMMA OpenFailureKeepsSets ==
  ASSUME RInv, FInv', NEW p \in Path, OpenPathFails(p)
  PROVE  RInv'
<1> DEFINE o == [open EXCEPT !.todo = @ \ {p}, !.rebuild = TRUE]
<1>0. FInv
  BY SetsParts
<1>1. /\ OpenerAt({"check", "stage"}) /\ UNCHANGED <<disk, db, known, pending, skipped, history>>
      /\ open.at \in {"check", "stage"} /\ p \in open.todo /\ open' = NextPass(o)
      /\ owed["opener"] = None /\ Owe("opener", p)
  BY DEF OpenPathFails, OpenerAt, OpenerRests, coreVars, diskVars, InOrder
<1>2. /\ o \in [at : Stations.opener, paths : SUBSET Path, todo : SUBSET Path,
                rebuild : BOOLEAN, jobs : Seq(Jobs)]
      /\ o.at = open.at /\ o.paths = open.paths /\ o.todo = open.todo \ {p} /\ o.rebuild
  <2> DEFINE A == Stations.opener
             S == SUBSET Path
             J == Seq(Jobs)
  <2>1. open \in [at : A, paths : S, todo : S, rebuild : BOOLEAN, jobs : J]
    BY <1>0, Parts DEF FInv, OpenOK
  <2>2. open.todo \ {p} \in S
    BY <2>1
  <2> HIDE DEF A, S, J
  <2>3. /\ o \in [at : A, paths : S, todo : S, rebuild : BOOLEAN, jobs : J]
        /\ o.at = open.at /\ o.paths = open.paths /\ o.todo = open.todo \ {p} /\ o.rebuild
    BY <2>1, <2>2
  <2> QED
    BY <2>3 DEF A, S, J
<1> HIDE DEF o
<1>3. owed'["opener"] = p /\ \A b \in Actor \ {"opener"} : owed'[b] = owed[b]
  BY <1>0, <1>1, Parts DEF FInv, RestOK, Owe, Actor
<1>4. Owed(p)' /\ \A q \in Path : Owed(q) => Owed(q)'
  BY <1>1, <1>3 DEF Owed, Actor
<1>5. \A q \in Path : Eased(q)
  BY <1>1, <1>4, NewsEased, NewsRests DEF OpenerAt, SameFile, OnTheWay, InBatch
<1>6. ASSUME NEW q \in Path \ {p}
      PROVE  Behind(q) => Behind(q)'
  <2>1. known' = known /\ open.at \in {"check", "stage"} /\ p \in open.todo /\ open' = NextPass(o)
    BY <1>1
  <2>2. q \in Path /\ q # p
    OBVIOUS
  <2> QED
    BY ONLY <1>0, <1>2, <2>1, <2>2, PassBehind
<1>7. Coming(p)' /\ (Behind(p) => p \in known')
  BY <1>1, <1>4 DEF Behind, Coming, Noted, OnTheWay
<1>8. \A r, q \in Path : SetTrue(r, q)'
  BY <1>1, <1>5, <1>6, <1>7, OpenedSet
<1>9. Untouched'
  BY <1>0, <1>1, <1>2, PassAt
<1> QED
  BY <1>1, <1>5, <1>8, <1>9, OpenerKeepsSets


-----------------------------------------------------------------------------
(* The steps of the worker.                                                 *)

LEMMA WorkerEased ==
  ASSUME WorkerRests, NEW q \in Path, SameFile(q)
  PROVE  Eased(q) /\ (Coming(q) => Coming(q)')
<1>1. OnTheWay(q) => OnTheWay(q)'
  BY NewsRests DEF WorkerRests, OnTheWay, InBatch, Owed, SameFile
<1> QED
  BY <1>1, NewsEased DEF WorkerRests

LEMMA MovesKeepSets ==
  ASSUME RInv, FInv', WorkerWakes \/ TakeIndexJob \/ ReadGeneration \/ JobFails \/ JobNotReady
  PROVE  RInv'
<1>1. WorkerRests /\ UNCHANGED <<known, pending, skipped, open, history>>
  BY DEF WorkerWakes, TakeIndexJob, ReadGeneration, JobFails, JobNotReady, coreVars, WorkerRests
<1>2. WorkerOK /\ db \in Store /\ Collected
  BY SetsParts, Parts DEF FInv, CoreOK
<1>3. db'.row = db.row /\ db'.refs = db.refs
  <2>1. db' = db \/ db' = ReferenceGeneration(db)
    BY DEF WorkerWakes, TakeIndexJob, ReadGeneration, JobFails, JobNotReady, coreVars
  <2>2. ReferenceGeneration(db).row = db.row
    BY <1>2, GenerationType
  <2>3. ReferenceGeneration(db).refs = db.refs
    BY <1>2, GenerationSets
  <2> QED
    BY <2>1, <2>2, <2>3
<1>4. worker'.found = Incomplete
  <2>1. CASE WorkerWakes \/ ReadGeneration
    <3>1. worker.found = Incomplete /\ worker'.found = worker.found
      BY <1>2, <2>1 DEF WorkerWakes, ReadGeneration, To, Collected, WorkerOK
    <3> QED
      BY <3>1
  <2>2. CASE TakeIndexJob
    <3>1. worker' = Resting \/ worker' = [Resting EXCEPT !.at = "gate", !.job = Head(queue)]
      BY <2>2 DEF TakeIndexJob
    <3>2. [Resting EXCEPT !.at = "gate", !.job = Head(queue)].found = Incomplete /\ Resting.found = Incomplete
      BY DEF Resting
    <3> QED
      BY <3>1, <3>2
  <2>3. CASE JobFails \/ JobNotReady
    BY <2>3 DEF JobFails, JobNotReady, Resting
  <2> QED
    BY <2>1, <2>2, <2>3
<1>5. \A q \in Path : Eased(q)
  BY <1>1, <1>3, WorkerEased DEF SameFile
<1> QED
  BY <1>1, <1>3, <1>4, <1>5, QuietKeeps

\* Of the files that it looked at, the language server tells the worker what there is.
LEMMA ReadingKeepsSets ==
  ASSUME RInv, FInv', ReadSemantics
  PROVE  RInv'
<1>1. WorkerRests /\ UNCHANGED <<db, known, pending, skipped, open, history>> /\ worker.at = "ask"
  BY DEF ReadSemantics, coreVars, WorkerRests
<1>2. WorkerOK /\ worker.found = Incomplete
  BY <1>1, SetsParts, Parts DEF FInv, Collected
<1>3. \A q \in Path : Eased(q)
  BY <1>1, WorkerEased DEF SameFile
<1>4. PICK p \in Path : p = worker.job.path
  BY <1>1, SetsParts, Parts DEF FInv, Staging, InHand, Jobs
<1>5. CASE To("verify")
  <2>1. worker'.found = Incomplete
    BY <1>2, <1>5 DEF To, WorkerOK
  <2> QED
    BY <1>1, <1>3, <2>1, QuietKeeps
<1>6. CASE worker' = [worker EXCEPT !.at = "verify", !.found = Locations(worker.job.path),
                                    !.missed = Unspoken(worker.job.path)]
  <2>1. worker'.at = "verify" /\ worker'.found = Locations(p) /\ worker'.missed = Unspoken(p) /\ worker'.job.path = p
    BY <1>2, <1>4, <1>6 DEF WorkerOK
  <2>2. ASSUME NEW q \in Path \ ({p} \cup Unspoken(p))
        PROVE  Fits(FoundNames(q), q)'
    <3>1. FoundNames(q)' = {t \in Text : <<q, t>> \in Locations(p)}
      BY <2>1 DEF FoundNames
    <3>2. CASE disk[q] = Missing
      <4>1. FoundNames(q)' = {}
        BY <3>1, <3>2 DEF Locations
      <4> QED
        BY <1>1, <3>2, <4>1, NewsRests DEF WorkerRests, Fits
    <3>3. CASE disk[q] # Missing
      <4>1. q \in known \ {p} /\ View(q) = disk[q]
        BY <2>2, <3>3 DEF Unspoken
      <4>2. FoundNames(q)' = {disk[q]} \cap Mentioning
        BY <3>1, <3>3, <4>1 DEF Locations
      <4> QED
        BY <1>1, <4>1, <4>2, NewsRests DEF WorkerRests, Fits
    <3> QED
      BY <3>2, <3>3
  <2>3. \A q \in Path : FoundTrue(q)'
    BY <2>1, <2>2 DEF FoundTrue
  <2>4. \A q \in Path : Written(q)'
    BY <1>3, SetsParts, WrittenStays
  <2>5. \A r, q \in Path : SetTrue(r, q)'
    BY <1>1, <1>3, SetsParts, SetStays
  <2>6. Collected' /\ Untouched'
    BY <1>1, <2>1, SetsParts DEF Collected, Untouched, Pending
  <2> QED
    BY <2>3, <2>4, <2>5, <2>6 DEF RInv, SetsTrue, FilesTrue
<1> QED
  BY <1>5, <1>6 DEF ReadSemantics

LEMMA DeletingKeepsSets ==
  ASSUME RInv, FInv', WorkerRests, worker.job.path \in Path, DeleteByJob(worker.job.path),
         worker'.found = Incomplete
  PROVE  RInv'
<1>0. PICK p \in Path : p = worker.job.path /\ DeleteByJob(p)
  OBVIOUS
<1>1. CASE pending[p] = worker.job.generation
  <2>1. DeletePath(p) /\ UNCHANGED <<diskVars, watchVars, scanComplete, indexFatal>>
    BY <1>0, <1>1 DEF DeleteByJob, DeletePath, WorkerRests
  <2>2. Only(p)
    BY <2>1, SetsParts, Deleted DEF FInv
  <2>3. \A q \in Path \ {p} : OnTheWay(q) => OnTheWay(q)'
    BY <2>2, NewsRests DEF WorkerRests, OnTheWay, Owed, InBatch, Only, SameFile
  <2> QED
    BY <2>1, <2>3, FileVoided
<1>2. CASE pending[p] # worker.job.generation
  <2>1. db' = DeleteFile(db, p) /\ UNCHANGED <<known, pending, skipped>>
    BY <1>0, <1>2 DEF DeleteByJob
  <2>2. db \in Store /\ db.row \in [Path -> Marks]
    BY SetsParts, Parts, StoreParts DEF FInv, CoreOK
  <2>3. db'.row = [db.row EXCEPT ![p] = NoRow] /\ Voided(db')
    BY <2>1, <2>2, DeleteFileType, InvalidationVoids
  <2>4. db'.row[p] = NoRow /\ \A q \in Path \ {p} : SameFile(q)
    BY <2>1, <2>2, <2>3 DEF SameFile
  <2>5. \A q \in Path : Written(q)'
    <3>1. Written(p)'
      BY <2>4 DEF Written
    <3>2. \A q \in Path \ {p} : Written(q)'
      BY <2>4, SetsParts, WorkerEased, WrittenStays
    <3> QED
      BY <3>1, <3>2
  <2> QED
    BY <2>3, <2>5, VoidKeeps
<1> QED
  BY <1>1, <1>2

LEMMA StartKeepsSets ==
  ASSUME RInv, FInv', StartJob
  PROVE  RInv'
<1>1. WorkerRests /\ UNCHANGED <<open, history>> /\ worker.at = "gate"
  BY DEF StartJob, WorkerRests
<1>2. WorkerOK /\ worker.found = Incomplete /\ worker.job.path \in Path
  BY <1>1, SetsParts, Parts DEF FInv, Collected, Staging, InHand, Jobs
<1>3. worker'.found = Incomplete
  BY <1>2 DEF StartJob, NextJob, Resting, WorkerOK
<1>4. CASE UNCHANGED coreVars
  <2>1. UNCHANGED db /\ \A q \in Path : Eased(q)
    BY <1>1, <1>4, WorkerEased DEF coreVars, SameFile
  <2> QED
    BY <1>1, <1>3, <2>1, QuietKeeps
<1>5. CASE DeleteByJob(worker.job.path)
  BY <1>1, <1>2, <1>3, <1>5, DeletingKeepsSets
<1> QED
  BY <1>4, <1>5 DEF StartJob

LEMMA PutKeepsSets ==
  ASSUME RInv, FInv', VerifyAndPut
  PROVE  RInv'
<1>1. WorkerRests /\ UNCHANGED <<open, history>> /\ worker.at = "verify" /\ open.at = "done"
  BY SetsParts DEF VerifyAndPut, FInv, Phases, InJob, WorkerRests
<1>2. WorkerOK /\ worker.text \in Text
  BY <1>1, SetsParts, Parts DEF FInv, Staging
<1>3. pending \in [Path -> Nat] /\ db.row \in [Path -> Marks] /\ db \in Store
  BY SetsParts, Parts, StoreParts DEF FInv, CoreOK
<1>4. PICK p \in Path : p = worker.job.path
  BY <1>1, SetsParts, Parts DEF FInv, Staging, InHand, Jobs
<1>5. CASE disk[p] = Missing
  <2>1. DeleteByJob(p) /\ NextJob
    BY <1>2, <1>4, <1>5 DEF VerifyAndPut
  <2>2. worker'.found = Incomplete
    BY <2>1 DEF NextJob, Resting
  <2> QED
    BY <1>1, <1>4, <2>1, <2>2, DeletingKeepsSets
<1>6. CASE disk[p] \notin {Missing, worker.text} /\ Current(worker.job)
  <2>1. /\ db' = InvalidateFile(db, p) /\ pending' = [pending EXCEPT ![p] = NextGeneration(p)]
        /\ UNCHANGED <<known, skipped>> /\ worker'.found = Incomplete
    BY <1>4, <1>6 DEF VerifyAndPut, Resting, Job
  <2>2. db'.row = [db.row EXCEPT ![p] = IF @ = NoRow THEN NoRow ELSE Blank] /\ Voided(db')
    BY <1>3, <2>1, InvalidateFileType, InvalidationVoids
  <2>3. db'.row[p] \in {NoRow, Blank} /\ \A q \in Path \ {p} : SameFile(q)
    BY <1>3, <2>1, <2>2 DEF SameFile
  <2>4. Written(p)'
    BY <2>3 DEF Written
  <2>5. \A q \in Path \ {p} : Written(q)'
    BY <1>1, <2>3, SetsParts, WorkerEased, WrittenStays
  <2> QED
    BY <2>1, <2>2, <2>4, <2>5, VoidKeeps
<1>7. CASE disk[p] = worker.text /\ Current(worker.job)
  <2>1. /\ db' = PutFile(db, p, disk[p]) /\ UNCHANGED <<known, pending, skipped>>
        /\ worker' = [worker EXCEPT !.at = "commit"] /\ disk[p] \in Text
    BY <1>2, <1>4, <1>7 DEF VerifyAndPut, To
  <2>2. db'.row = [db.row EXCEPT ![p] = disk[p]]
    BY <1>3, <2>1, PutFileType
  <2>3. db'.refs = db.refs /\ db'.moved = db.moved
    BY <1>3, <2>1, PutSets
  <2>4. worker'.at = "commit" /\ worker'.job = worker.job /\ worker'.found = worker.found /\ worker'.missed = worker.missed
    BY <1>2, <2>1 DEF WorkerOK
  <2>5. UNCHANGED <<disk, watch>> /\ \A q \in Path : Coming(q)' <=> Coming(q)
    BY <1>1, <2>1, NewsRests DEF WorkerRests, Coming, Noted, OnTheWay, InBatch, Owed
  <2>6. \A r, q \in Path : SetTrue(r, q)'
    BY <1>1, <2>1, <2>3, <2>5, SetsParts DEF SetTrue, Fits, Names, Behind, Up, history
  <2>7. \A q \in Path : FoundTrue(q)'
    BY <2>1, <2>3, <2>4, <2>5, SetsParts DEF FoundTrue, Fits, FoundNames
  <2>8. Written(p)'
    BY <1>3, <2>2, <2>5 DEF Written
  <2>9. \A q \in Path \ {p} : Written(q)'
    BY <1>3, <2>1, <2>2, <2>5, SetsParts DEF Written, Pending
  <2>10. Collected' /\ Untouched'
    BY <1>1, <2>4 DEF Collected, Untouched
  <2> QED
    BY <2>6, <2>7, <2>8, <2>9, <2>10 DEF RInv, SetsTrue, FilesTrue
<1>8. CASE disk[p] # Missing /\ ~Current(worker.job)
  <2>1. UNCHANGED coreVars /\ worker'.found = Incomplete
    BY <1>4, <1>8 DEF VerifyAndPut, NextJob, Resting
  <2>2. UNCHANGED db /\ \A q \in Path : Eased(q)
    BY <1>1, <2>1, WorkerEased DEF coreVars, SameFile
  <2> QED
    BY <1>1, <2>1, <2>2, QuietKeeps
<1> QED
  BY <1>5, <1>6, <1>7, <1>8

LEMMA CommitKeepsSets ==
  ASSUME RInv, FInv', CommitReferences
  PROVE  RInv'
<1>1. WorkerRests /\ UNCHANGED <<known, open>> /\ worker.at = "commit" /\ open.at = "done"
  BY SetsParts DEF CommitReferences, FInv, Phases, InJob, WorkerRests
<1>2. PICK p \in Path : p = worker.job.path
  BY <1>1, SetsParts, Parts DEF FInv, Staging, InHand, Jobs
<1>3. worker'.found = Incomplete
  BY DEF CommitReferences, NextJob, Resting
<1>4. /\ pending \in [Path -> Nat] /\ db.row \in [Path -> Marks] /\ db \in Store /\ worker.found \in Sets
      /\ worker.job.generation # 0 /\ blind \in [Path -> SUBSET Path] /\ lost \in [Path -> SUBSET Path]
  BY <1>1, SetsParts, Parts, StoreParts DEF FInv, CoreOK, WorkerOK, RestOK, Staging, InHand, Jobs
<1>5. \A q \in Path : pending'[q] \in {pending[q], 0}
  BY <1>2, <1>4 DEF CommitReferences
<1>6. skipped' = skipped
  <2>1. Pending(p) => p \notin skipped
    BY SetsParts, FollowsAll DEF Booked
  <2> QED
    BY <1>2, <1>4, <2>1 DEF CommitReferences, Pending
<1>7. db'.row = db.row
  <2>1. db' = db \/ db' = ReplaceReferences(db, p, worker.found)
    BY <1>2 DEF CommitReferences
  <2> QED
    BY <1>4, <2>1, ReferencesType
<1>8. UNCHANGED <<disk, watch, raw, listed>> /\ \A q \in Path : Coming(q)' <=> Coming(q)
  BY <1>1, <1>6, NewsRests DEF WorkerRests, Coming, Noted, OnTheWay, InBatch, Owed
<1>9. \A q \in Path : Eased(q)
  BY <1>1, <1>5, <1>6, <1>7, <1>8 DEF Eased, Told
<1>10. CASE db' = db
  <2>1. UNCHANGED history
    BY <1>2, <1>10 DEF CommitReferences
  <2> QED
    BY <1>1, <1>3, <1>9, <1>10, <2>1, QuietKeeps
<1>11. CASE db' # db
  <2>1. /\ worker.found # Incomplete /\ db' = ReplaceReferences(db, p, worker.found)
        /\ blind' = [blind EXCEPT ![p] = worker.missed] /\ lost' = [lost EXCEPT ![p] = {}]
    BY <1>2, <1>11 DEF CommitReferences
  <2>2. ~db.moved /\ db'.refs[p] = worker.found /\ \A r \in Path \ {p} : db'.refs[r] = db.refs[r]
    BY <1>4, <1>11, <2>1, ReplacedSets
  <2>3. ASSUME NEW r \in Path, r # p, NEW q \in Path
        PROVE  SetTrue(r, q)'
    <3>1. db'.refs[r] = db.refs[r] /\ blind'[r] = blind[r] /\ lost'[r] = lost[r]
      BY <1>4, <2>1, <2>2, <2>3
    <3> QED
      BY <1>1, <1>6, <1>8, <3>1, SetsParts DEF SetTrue, Fits, Names, Behind, Up
  <2>4. ASSUME NEW q \in Path
        PROVE  SetTrue(p, q)'
    <3>1. blind'[p] = worker.missed
      BY <1>4, <2>1
    <3>2. q \notin {p} \cup worker.missed => Fits(FoundNames(q), q)
      BY <1>2, <2>1, <2>2, SetsParts DEF FoundTrue
    <3>3. Names(p, q)' = FoundNames(q)
      BY <2>2 DEF Names, FoundNames
    <3> QED
      BY <1>1, <1>6, <1>8, <3>1, <3>2, <3>3 DEF SetTrue, Fits
  <2>5. \A q \in Path : FoundTrue(q)' /\ Written(q)'
    BY <1>3, <1>9, SetsParts, WrittenStays DEF FoundTrue
  <2>6. Collected' /\ Untouched'
    BY <1>1, <1>3 DEF Collected, Untouched
  <2>7. \A r, q \in Path : SetTrue(r, q)'
    BY <2>3, <2>4
  <2> QED
    BY <2>5, <2>6, <2>7 DEF RInv, SetsTrue, FilesTrue
<1> QED
  BY <1>10, <1>11

LEMMA FailedJobKeepsSets ==
  ASSUME RInv, FInv', FailIndexJob
  PROVE  RInv'
<1>1. WorkerRests /\ UNCHANGED <<open, history>> /\ worker.at = "failing"
  BY DEF FailIndexJob, WorkerRests
<1>2. PICK p \in Path : p = worker.job.path
  BY <1>1, SetsParts, Parts DEF FInv, Staging, InHand, Jobs
<1>3. worker'.found = Incomplete
  BY DEF FailIndexJob, NextJob, Resting
<1>4. CASE ~Current(worker.job)
  <2>1. UNCHANGED db /\ \A q \in Path : Eased(q)
    BY <1>1, <1>4, WorkerEased DEF FailIndexJob, coreVars, SameFile
  <2> QED
    BY <1>1, <1>3, <2>1, QuietKeeps
<1>5. CASE Current(worker.job)
  <2>1. SoftSkip(p)
    BY <1>2, <1>5 DEF FailIndexJob
  <2>2. Eased(p) /\ Only(p) /\ Fewer(db, db')
    BY <1>1, <2>1, SetsParts, SoftSkipEased DEF FInv, WorkerRests
  <2>3. \A q \in Path : Eased(q)
    BY <1>1, <2>2, WorkerEased DEF Only
  <2> QED
    BY <1>1, <1>3, <2>2, <2>3, QuietKeeps DEF Fewer
<1> QED
  BY <1>4, <1>5

-----------------------------------------------------------------------------

LEMMA SetsInit == IndexingInit => RInv
<1> SUFFICES ASSUME IndexingInit PROVE RInv
  OBVIOUS
<1>1. watch = "off" /\ worker.found = Incomplete /\ db = EmptyStore
  BY DEF IndexingInit, WatcherInit, Resting
<1>2. \A p \in Path : db.refs[p] = Incomplete
  BY <1>1 DEF EmptyStore
<1>3. \A p, q \in Path : SetTrue(p, q) /\ FoundTrue(q) /\ Written(q)
  BY <1>1, <1>2 DEF SetTrue, FoundTrue, Written
<1>4. Collected /\ Untouched
  BY <1>1, <1>2 DEF Collected, Untouched
<1> QED
  BY <1>3, <1>4, FollowsInit DEF RInv, SetsTrue, FilesTrue

LEMMA SetsStep == RInv /\ [IndexingNext]_indexingVars => RInv'
<1> SUFFICES ASSUME RInv, [IndexingNext]_indexingVars PROVE RInv'
  OBVIOUS
<1>0. FInv'
  BY SetsParts, FollowsStep
<1>1. CASE UNCHANGED indexingVars
  BY <1>0, <1>1, RestsKeepSets
<1>2. CASE (DiskStep \/ WatcherStep \/ WatchFails) /\ Outside
  BY <1>0, <1>2, OutsideKeepsSets
<1>3. CASE OpenerStep \/ OpeningFails \/ Stop
  BY <1>0, <1>3, OpeningKeepsSets, ListingKeepsSets, ReconcilingKeepsSets, FinishKeepsSets, CheckKeepsSets,
     StagingKeepsSets, StopKeepsSets DEF OpenerStep
<1>4. CASE ConsumerStep
  BY <1>0, <1>4, TakingKeepsSets, StoppedKeepsSets, HandlingKeepsSets DEF ConsumerStep
<1>5. CASE HealerStep \/ AskHeal
  BY <1>0, <1>5, RestsKeepSets, QueryKeepsSets DEF HealerStep
<1>6. CASE WorkerStep \/ JobFails \/ JobNotReady
  BY <1>0, <1>6, MovesKeepSets, ReadingKeepsSets, StartKeepsSets, PutKeepsSets, CommitKeepsSets, FailedJobKeepsSets
  DEF WorkerStep
<1>7. ASSUME NEW p \in Path,
             OpenPathFails(p) \/ HandleFails(p) \/ HealFails(p) \/ AgentReads(p) \/ AgentOpens(p) \/ Expire(p)
      PROVE  RInv'
  <2>1. "healer" \in Actor /\ "consumer" \in Actor
    BY DEF Actor
  <2> QED
    BY <1>0, <1>7, <2>1, OpenFailureKeepsSets, FailureKeepsSets, QueryKeepsSets, RestsKeepSets, ExpiryKeepsSets
<1>8. CASE \E a \in Actor : FailIndexPath(a)
  BY <1>0, <1>8, SkipKeepsSets
<1> QED
  BY <1>1, <1>2, <1>3, <1>4, <1>5, <1>6, <1>7, <1>8 DEF IndexingNext

\* When references are served the opening is done, and of a file whose changes were noticed
\* there is no news.
LEMMA ServedAreThere == RInv => ServedReferences
<1> SUFFICES ASSUME RInv, NEW p \in known, NEW q \in Path \ ({p} \cup blind[p] \cup lost[p]),
                    ReferencesServed(p), ~Unnoticed(q)
             PROVE  {t \in Text : <<q, t>> \in db.refs[p]} = {disk[q]} \cap Mentioning
  BY DEF ServedReferences, ServedFrom
<1>1. p \in Path /\ open.at = "done"
  BY SetsParts, Parts DEF FInv, CoreOK, ReferencesServed, ReadyInv, Phases
<1>2. watch = "running" /\ ~Coming(q)
  BY DEF Unnoticed, Unlisted, Overlooked, Travelling, Coming, Noted, OnTheWay, Sent, InBatch, Owed, InRaw, Removal
<1>3. db.refs[p] # Incomplete
  BY DEF ReferencesServed, ReferencesReady
<1>4. Fits(Names(p, q), q)
  BY <1>1, <1>3, SetsParts DEF SetTrue, Up, Behind
<1> QED
  BY <1>2, <1>4 DEF Fits, Names

\* References are served only from sets that have, of every other file, exactly the
\* references there are in it: but for files of which there is still news, at which the
\* language server did not look for the set, or whose news was lost with a daemon
\* (indexing.go, workspace.go, index/queries.go).
THEOREM ServedSetsAreTrue == IndexingSpec => []ServedReferences
<1>1. IndexingInit => RInv
  BY SetsInit
<1>2. RInv /\ [IndexingNext]_indexingVars => RInv'
  BY SetsStep
<1>3. RInv => ServedReferences
  BY ServedAreThere
<1> QED
  BY <1>1, <1>2, <1>3, PTL DEF IndexingSpec
=============================================================================
