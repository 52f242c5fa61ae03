--------------------------- MODULE MCLifecycleSuite ---------------------------
(* The suites of LifecycleSuite, at a scale at which their scripts can be told. *)
EXTENDS LifecycleSuite

ASSUME ScaleAssumption ==
  /\ Concurrent \in Nat \ {0} /\ Historical \in Nat
  /\ OperationIds = 1 .. (Concurrent + Historical)
  /\ Cardinality(Attempts) = Concurrent + Historical
  /\ ProgressCapacity < PublishLimit

=============================================================================
