---------------------------- MODULE MCBridgeSuites ----------------------------
(* The suites of BridgeSuites, whose scripts fix the ids and the handles.      *)
EXTENDS BridgeSuites

ASSUME SuiteAssumption ==
  /\ OperationIds = 1 .. Cardinality(OperationIds)
  /\ Cardinality(OperationIds) < SequenceLimit
  /\ Shutdowns = {1, 2} /\ Freedoms = {}
  /\ ProgressCapacity > 0

=============================================================================
