-------------------------- MODULE MCAttemptHierarchy --------------------------
(* Small instances of AttemptHierarchy: operation ids are interchangeable.   *)
EXTENDS AttemptHierarchy, TLC

Interchangeable == Permutations(OperationIds)

=============================================================================
