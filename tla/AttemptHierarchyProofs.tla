------------------------ MODULE AttemptHierarchyProofs ------------------------
(***************************************************************************)
(* The two safety properties of AttemptHierarchy for any ids, sequences    *)
(* and number of creations.  What makes them inductive: the flag of an     *)
(* operation records the cancellation of its current creation, and no      *)
(* later creation has been cancelled yet.                                  *)
(***************************************************************************)
EXTENDS AttemptHierarchy, TLAPS

Operation == [cancellationRequested : BOOLEAN, attempts : SUBSET Issued]

FlagsFollowCreations ==
  /\ \A op \in DOMAIN operations :
       operations[op].cancellationRequested <=> <<op, creations[op]>> \in cancelled
  /\ \A op \in DOMAIN operations : creations[op] > 0
  /\ \A op \in OperationIds, n \in 1 .. CreationLimit :
       <<op, n>> \in cancelled => n <= creations[op]

IInv == TypeOK /\ AttemptsStayWithTheirOperation /\ FlagsFollowCreations

USE LimitsAssumption

\* create_operation: the new creation has no attempts and no cancellation.
LEMMA CreateInductive ==
  ASSUME IInv, NEW op \in OperationIds, CreateOperation(op)
  PROVE  IInv'
<1> USE DEF IInv
<1>1. /\ op \notin DOMAIN operations /\ creations[op] \in 0 .. CreationLimit
      /\ creations[op] < CreationLimit
      /\ creations' = [creations EXCEPT ![op] = @ + 1]
      /\ operations' = Extend(operations, op, [cancellationRequested |-> FALSE, attempts |-> {}])
      /\ UNCHANGED <<nextSequence, identity, parent, cancelled, finished>>
  BY DEF CreateOperation, Creation, TypeOK
<1>2. /\ DOMAIN operations' = DOMAIN operations \cup {op}
      /\ operations'[op] = [cancellationRequested |-> FALSE, attempts |-> {}]
      /\ \A o \in DOMAIN operations : o # op /\ operations'[o] = operations[o]
  BY <1>1 DEF Extend
<1>3. /\ creations'[op] = creations[op] + 1
      /\ \A o \in OperationIds : o # op => creations'[o] = creations[o]
      /\ creations' \in [OperationIds -> 0 .. CreationLimit]
  BY <1>1 DEF TypeOK
<1>4. TypeOK'
  <2>1. Issued' = Issued /\ creations' \in [OperationIds -> 0 .. CreationLimit]
    BY <1>1, <1>3 DEF Issued
  <2>2. \A o \in DOMAIN operations' :
          operations'[o] \in [cancellationRequested : BOOLEAN, attempts : SUBSET Issued]
    <3>1. operations'[op] \in [cancellationRequested : BOOLEAN, attempts : SUBSET Issued]
      BY <1>2
    <3>2. QED
      BY <1>2, <3>1 DEF TypeOK
  <2>3. DOMAIN operations' \subseteq OperationIds
    BY <1>2 DEF TypeOK
  <2>4. QED
    BY <1>1, <2>1, <2>2, <2>3 DEF TypeOK
<1>5. AttemptsStayWithTheirOperation'
  BY <1>1, <1>2, <1>3 DEF AttemptsStayWithTheirOperation, TypeOK, Issued
<1>6. FlagsFollowCreations'
  BY <1>1, <1>2, <1>3 DEF FlagsFollowCreations, TypeOK
<1>7. QED
  BY <1>4, <1>5, <1>6

\* start_attempt, when the operation is known.
LEMMA StartInductive ==
  ASSUME IInv, NEW op \in OperationIds, StartAttempt(op)
  PROVE  IInv'
<1> USE DEF IInv
<1>1. /\ nextSequence \in 1 .. SequenceLimit /\ nextSequence < SequenceLimit
      /\ op \in DOMAIN operations /\ operations[op] \in Operation
      /\ nextSequence' = nextSequence + 1
      /\ operations' = [operations EXCEPT ![op] = AttemptAdded(@, nextSequence)]
      /\ identity' = Extend(identity, nextSequence, op)
      /\ parent' = Extend(parent, nextSequence, creations[op])
      /\ UNCHANGED <<creations, cancelled, finished>>
  BY DEF StartAttempt, Start, TypeOK, Operation
<1>2. /\ Issued' = Issued \cup {nextSequence} /\ nextSequence \notin Issued
      /\ identity'[nextSequence] = op /\ parent'[nextSequence] = creations[op]
      /\ \A s \in Issued : identity'[s] = identity[s] /\ parent'[s] = parent[s]
      /\ DOMAIN parent = Issued
  BY <1>1 DEF TypeOK, Issued, Extend
<1>3. /\ DOMAIN operations' = DOMAIN operations
      /\ operations'[op].cancellationRequested = operations[op].cancellationRequested
      /\ operations'[op].attempts = operations[op].attempts \cup {nextSequence}
      /\ \A o \in DOMAIN operations : o # op => operations'[o] = operations[o]
  BY <1>1 DEF AttemptAdded, Operation
<1>4. \A o \in DOMAIN operations' :
        operations'[o] \in [cancellationRequested : BOOLEAN, attempts : SUBSET Issued']
  BY <1>1, <1>2, <1>3 DEF AttemptAdded, Operation, TypeOK
<1>5. parent' \in [Issued' -> 1 .. CreationLimit]
  BY <1>1, <1>2 DEF TypeOK, FlagsFollowCreations, Extend, Issued
<1>6. TypeOK'
  BY <1>1, <1>2, <1>3, <1>4, <1>5 DEF TypeOK
<1>7. AttemptsStayWithTheirOperation'
  BY <1>1, <1>2, <1>3 DEF AttemptsStayWithTheirOperation, TypeOK
<1>8. FlagsFollowCreations'
  BY <1>1, <1>3 DEF FlagsFollowCreations
<1>9. QED
  BY <1>6, <1>7, <1>8

\* request_operation_cancel sets the flag and records the current creation.
LEMMA CancelInductive ==
  ASSUME IInv, NEW op \in OperationIds, RequestOperationCancel(op)
  PROVE  IInv'
<1> USE DEF IInv
<1>1. /\ op \in DOMAIN operations /\ operations[op] \in Operation
      /\ creations[op] \in 1 .. CreationLimit
      /\ operations' = [operations EXCEPT ![op].cancellationRequested = TRUE]
      /\ cancelled' = cancelled \cup {<<op, creations[op]>>}
      /\ UNCHANGED <<nextSequence, identity, creations, parent, finished>>
  BY DEF RequestOperationCancel, TypeOK, Operation, FlagsFollowCreations
<1>2. /\ DOMAIN operations' = DOMAIN operations /\ Issued' = Issued
      /\ operations'[op].cancellationRequested = TRUE
      /\ operations'[op].attempts = operations[op].attempts
      /\ operations'[op] \in Operation
      /\ \A o \in DOMAIN operations : o # op => operations'[o] = operations[o]
  BY <1>1 DEF Operation, Issued
<1>3. TypeOK'
  BY <1>1, <1>2 DEF TypeOK, Operation
<1>4. AttemptsStayWithTheirOperation'
  BY <1>1, <1>2 DEF AttemptsStayWithTheirOperation
<1>5. FlagsFollowCreations'
  BY <1>1, <1>2 DEF FlagsFollowCreations, TypeOK
<1>6. QED
  BY <1>3, <1>4, <1>5

\* finish_attempt takes the attempt from its own operation.
LEMMA FinishAttemptInductive ==
  ASSUME IInv, NEW s \in Issued, FinishAttempt(s)
  PROVE  IInv'
<1> USE DEF IInv
<1> DEFINE op == identity[s]
<1>1. /\ op \in DOMAIN operations /\ operations[op] \in Operation
      /\ operations' = [operations EXCEPT ![op].attempts = @ \ {s}]
      /\ finished' = finished \cup {s}
      /\ UNCHANGED <<nextSequence, identity, creations, parent, cancelled>>
  BY DEF FinishAttempt, TypeOK, Operation
<1>2. /\ DOMAIN operations' = DOMAIN operations /\ Issued' = Issued
      /\ operations'[op].cancellationRequested = operations[op].cancellationRequested
      /\ operations'[op].attempts = operations[op].attempts \ {s}
      /\ operations'[op] \in Operation
      /\ \A o \in DOMAIN operations : o # op => operations'[o] = operations[o]
  BY <1>1 DEF Operation, Issued
<1>3. TypeOK'
  BY <1>1, <1>2 DEF TypeOK, Operation
<1>4. AttemptsStayWithTheirOperation'
  BY <1>1, <1>2 DEF AttemptsStayWithTheirOperation
<1>5. FlagsFollowCreations'
  BY <1>1, <1>2 DEF FlagsFollowCreations
<1>6. QED
  BY <1>3, <1>4, <1>5

\* finish_operation removes an operation nothing runs under.
LEMMA FinishOperationInductive ==
  ASSUME IInv, NEW op \in OperationIds, FinishOperation(op)
  PROVE  IInv'
<1> USE DEF IInv
<1>1. /\ op \in DOMAIN operations /\ operations[op].attempts = {}
      /\ operations' = Without(operations, op)
      /\ UNCHANGED <<nextSequence, identity, history>>
  BY DEF FinishOperation
<1>2. /\ DOMAIN operations' = DOMAIN operations \ {op} /\ Issued' = Issued
      /\ \A o \in DOMAIN operations' : operations'[o] = operations[o]
  BY <1>1 DEF Without, Issued
<1>3. TypeOK'
  BY <1>1, <1>2 DEF TypeOK, history
<1>4. AttemptsStayWithTheirOperation'
  BY <1>1, <1>2 DEF AttemptsStayWithTheirOperation, history
<1>5. FlagsFollowCreations'
  BY <1>1, <1>2 DEF FlagsFollowCreations, history
<1>6. QED
  BY <1>3, <1>4, <1>5

\* The strengthened invariant is inductive.
THEOREM HierarchyInvariant == Spec => []IInv
<1>1. Init => IInv
  BY DEF Init, IInv, TypeOK, Issued, AttemptsStayWithTheirOperation, FlagsFollowCreations, EmptyMap
<1>2. IInv /\ [Next]_vars => IInv'
  <2>1. SUFFICES ASSUME IInv, [Next]_vars PROVE IInv'
    OBVIOUS
  <2>2. CASE UNCHANGED vars
    BY <2>1, <2>2 DEF vars, history, IInv, TypeOK, Issued, AttemptsStayWithTheirOperation,
       FlagsFollowCreations
  <2>3. ASSUME NEW op \in OperationIds, StartAttemptUnknown(op)
        PROVE  IInv'
    BY <2>1, <2>3 DEF StartAttemptUnknown, history, IInv, TypeOK, Issued,
       AttemptsStayWithTheirOperation, FlagsFollowCreations
  <2>4. QED
    BY <2>1, <2>2, <2>3, CreateInductive, StartInductive, CancelInductive,
       FinishAttemptInductive, FinishOperationInductive DEF Next
<1>3. QED
  BY <1>1, <1>2, PTL DEF Spec

\* The maps, the sequences and the history keep their types.
THEOREM HierarchyTypeCorrect == Spec => []TypeOK
<1>1. IInv => TypeOK
  BY DEF IInv
<1>2. QED
  BY <1>1, HierarchyInvariant, PTL

\* No attempt is lost, and none changes hands when an id is taken again.
THEOREM AttemptsStayWithTheirOperationHolds == Spec => []AttemptsStayWithTheirOperation
<1>1. IInv => AttemptsStayWithTheirOperation
  BY DEF IInv
<1>2. QED
  BY <1>1, HierarchyInvariant, PTL

\* An attempt sees exactly the cancellation of its own operation.
THEOREM CancellationIsAnchoredHolds == Spec => []CancellationIsAnchored
<1>1. IInv => CancellationIsAnchored
  BY DEF IInv, CancellationIsAnchored, CancellationRequested, AttemptsStayWithTheirOperation,
     FlagsFollowCreations
<1>2. QED
  BY <1>1, HierarchyInvariant, PTL

=============================================================================
