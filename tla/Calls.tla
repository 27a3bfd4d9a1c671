-------------------------------- MODULE Calls --------------------------------
(***************************************************************************)
(* The calls that go over a connection, at either end of the daemon.  A    *)
(* call asks about itself: the answer that belongs to call c is c, and     *)
(* every error is Failed.                                                  *)
(***************************************************************************)
EXTENDS Naturals, Sequences, FiniteSets

CONSTANTS
  Call,      \* calls of Client.send
  Failed,    \* what a call returns instead of an answer
  None

ASSUME CallAssumption == IsFiniteSet(Call) /\ {Failed, None} \cap Call = {} /\ Failed # None

Answer == Call \cup {Failed}
Id == 1..Cardinality(Call)    \* every connection numbers its calls
=============================================================================
