---------------------------- MODULE MCPollImport ----------------------------
(* Model-checking instance of PollImport: all transactions are of one account *)
(* and no action tells them apart.                                            *)
EXTENDS PollImport, TLC

CONSTANT a1

MCAccountOf == [t \in Txn |-> a1]

Symmetry == Permutations(Txn)
=============================================================================
