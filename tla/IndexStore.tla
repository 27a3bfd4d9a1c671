----------------------------- MODULE IndexStore -----------------------------
(***************************************************************************)
(* The rows that the index keeps of one workspace (index/queries.go), and  *)
(* the transactions on them.  Every file defines one symbol, named by its  *)
(* path, so the set of references of that symbol is named by the path too. *)
(*                                                                         *)
(*   row[p]   the text whose hash the row of p has; Blank when the row is  *)
(*            invalidated (an empty hash); NoRow when there is none        *)
(*   refs[p]  the complete reference set of the symbol of p, or Incomplete *)
(*            when its set is marked so or does not exist                  *)
(*   moved    reference_generation was advanced since the worker, which is *)
(*            the only one that compares it, last read it                  *)
(*                                                                         *)
(* A reference set is the set of locations, each a path and the text it    *)
(* was found in.                                                           *)
(***************************************************************************)
CONSTANTS Path, Text, Blank, NoRow, Incomplete

Store == [row : [Path -> Text \cup {Blank, NoRow}],
          refs : [Path -> UNION {{Incomplete}, SUBSET (Path \X Text)}],
          moved : BOOLEAN]

EmptyStore == [row |-> [p \in Path |-> NoRow], refs |-> [p \in Path |-> Incomplete], moved |-> FALSE]

Rows(db) == {p \in Path : db.row[p] # NoRow}
Indexed(db) == {p \in Path : db.row[p] \in Text}

\* requireWorkspaceCacheReady, and what References needs of the definition's set.
SearchReady(db) == Rows(db) = Indexed(db)
ReferencesReady(db, p) == db.refs[p] # Incomplete

\* invalidateAllReferenceSets: any file may have gained a reference to any symbol.
Invalidate(db) == [db EXCEPT !.moved = TRUE, !.refs = [p \in Path |-> Incomplete]]

InvalidateFile(db, p) ==
  [Invalidate(db) EXCEPT !.row[p] = IF @ = NoRow THEN NoRow ELSE Blank]

DeleteFile(db, p) == [Invalidate(db) EXCEPT !.row[p] = NoRow]

\* Drops the row without the invalidation: only sets with a location in p are incomplete.
AbandonFile(db, p) ==
  [db EXCEPT !.row[p] = NoRow,
             !.refs = [q \in Path |->
                         IF q = p \/ db.refs[q] = Incomplete \/ \E t \in Text : <<p, t>> \in db.refs[q]
                         THEN Incomplete ELSE db.refs[q]]]

\* The symbols of p are replaced by those of text t; every text defines the symbol of p,
\* so the orphan check keeps its set.
PutFile(db, p, t) == [db EXCEPT !.row[p] = t]

\* What the worker compares with later.
ReferenceGeneration(db) == [db EXCEPT !.moved = FALSE]

\* Mutant: the generation is not compared.
ReplaceReferencesAnyway(db, p, locations) ==
  IF p \in Indexed(db) THEN [db EXCEPT !.refs[p] = locations] ELSE db

\* A compare-and-swap: a set that was collected before an invalidation is dropped, and so
\* is one whose symbol is no longer defined.
ReplaceReferences(db, p, locations) ==
  IF ~db.moved /\ p \in Indexed(db) THEN [db EXCEPT !.refs[p] = locations] ELSE db

\* Mutant: the rows of files that are not listed stay.
ReconcileSetsOnly(db, paths) ==
  LET current == IF Rows(db) \subseteq paths THEN db ELSE Invalidate(db)
  IN [current EXCEPT
        !.refs = [p \in Path |-> IF @[p] = Incomplete \/ p \notin paths THEN Incomplete
                                  ELSE @[p] \cap (paths \X Text)]]

\* Rows and locations of files that are not listed any more are deleted.
ReconcileWorkspace(db, paths) ==
  LET current == IF Rows(db) \subseteq paths THEN db ELSE Invalidate(db)
  IN [current EXCEPT
        !.row = [p \in Path |-> IF p \in paths THEN @[p] ELSE NoRow],
        !.refs = [p \in Path |-> IF @[p] = Incomplete \/ p \notin paths THEN Incomplete
                                  ELSE @[p] \cap (paths \X Text)]]

\* EnsureWorkspace, when the repository namespace, part of every symbol's key, is another.
ChangeNamespace(db) ==
  [Invalidate(db) EXCEPT !.row = [p \in Path |-> IF @[p] = NoRow THEN NoRow ELSE Blank]]
=============================================================================
