---------------------------- MODULE MCSyncEngine ----------------------------
(***************************************************************************)
(* Model-checking instance of SyncEngine.  Calls, transactions and values  *)
(* are interchangeable: no action and no property tells two of them apart. *)
(***************************************************************************)
EXTENDS SyncEngine, TLC

Symmetry == Permutations(Call) \cup Permutations(Txn) \cup Permutations(Value)
=============================================================================
