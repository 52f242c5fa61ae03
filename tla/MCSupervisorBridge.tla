------------------------- MODULE MCSupervisorBridge -------------------------
(* Small instances of SupervisorBridge: operation ids are interchangeable,   *)
(* and so are the callers of begin_shutdown.                                 *)
EXTENDS SupervisorBridge, TLC

Interchangeable == Permutations(OperationIds) \cup Permutations(Shutdowns)

=============================================================================
