----------------------------- MODULE MCIndexing -----------------------------
(* Small instances of Indexing for TLC.  To begin with there are two files, *)
(* or one file and no nested directory.                                     *)
EXTENDS Indexing, TLC

CONSTANTS t1, t2

MCIndexingInit ==
  /\ IndexingInit
  /\ \/ disk = (1 :> t1 @@ 2 :> t2) /\ dir = "present"
     \/ disk = (1 :> t1 @@ 2 :> Missing) /\ dir = "absent"

MCIndexingSpec == MCIndexingInit /\ [][IndexingNext]_indexingVars /\ Fairness
=============================================================================
