--------------------------- MODULE AttemptHierarchy ---------------------------
(***************************************************************************)
(* ReferenceAttemptHierarchyAdapter (compositional_lifecycle.rs): attempts *)
(* under a public operation that outlives each of them.  Operation handles *)
(* are bare ids and attempt handles bare identities, so both may be used   *)
(* at any time, also after their operation finished and its id was taken   *)
(* again; each action is one call, by anyone who ever held the handle.     *)
(***************************************************************************)
EXTENDS Integers, FiniteSets

CONSTANTS
  OperationIds,
  SequenceLimit,    \* checked_add fails here (u64::MAX in the code)
  CreationLimit     \* bound on create_operation per id, for the checker

ASSUME LimitsAssumption == SequenceLimit \in Nat \ {0} /\ CreationLimit \in Nat

VARIABLES
  nextSequence,
  operations,     \* partial function: id -> its cancellation flag and active attempts
  identity,       \* of each issued sequence: the id of the attempt's identity
  \* history, for the properties only
  creations,      \* of each id: how often it was created
  parent,         \* of each issued sequence: the creation it was started under
  cancelled,      \* the creations <<id, n>> whose cancellation was requested
  finished        \* the sequences whose finish_attempt succeeded

history == <<creations, parent, cancelled, finished>>
vars == <<nextSequence, operations, identity, history>>

\* Sequences for which start_attempt returned an attempt.
Issued == DOMAIN identity

TypeOK ==
  /\ nextSequence \in 1 .. SequenceLimit
  /\ DOMAIN operations \subseteq OperationIds
  /\ \A op \in DOMAIN operations :
       operations[op] \in [cancellationRequested : BOOLEAN, attempts : SUBSET Issued]
  /\ Issued \subseteq 1 .. (nextSequence - 1)
  /\ \A s \in Issued : identity[s] \in OperationIds
  /\ creations \in [OperationIds -> 0 .. CreationLimit]
  /\ parent \in [Issued -> 1 .. CreationLimit]
  /\ cancelled \subseteq OperationIds \X (1 .. CreationLimit)
  /\ finished \subseteq Issued

EmptyMap == [x \in {} |-> x]
Extend(f, x, v) == [y \in DOMAIN f \cup {x} |-> IF y = x THEN v ELSE f[y]]
Without(f, x) == [y \in DOMAIN f \ {x} |-> f[y]]

Init ==
  /\ nextSequence = 1
  /\ operations = EmptyMap
  /\ identity = EmptyMap
  /\ creations = [op \in OperationIds |-> 0]
  /\ parent = EmptyMap
  /\ cancelled = {} /\ finished = {}

-----------------------------------------------------------------------------

Creation(op) ==
  /\ creations[op] < CreationLimit
  /\ creations' = [creations EXCEPT ![op] = @ + 1]
  /\ operations' = Extend(operations, op, [cancellationRequested |-> FALSE, attempts |-> {}])
  /\ UNCHANGED <<nextSequence, identity, parent, cancelled, finished>>

CreateOperation(op) ==
  /\ op \notin DOMAIN operations
  /\ Creation(op)

\* Mutant: a new attempt starts without the cancellation of its operation.
AttemptAddedFresh(operation, s) ==
  [cancellationRequested |-> FALSE, attempts |-> operation.attempts \cup {s}]

AttemptAdded(operation, s) == [operation EXCEPT !.attempts = @ \cup {s}]

Start(op) ==
  /\ op \in DOMAIN operations
  /\ nextSequence' = nextSequence + 1
  /\ operations' = [operations EXCEPT ![op] = AttemptAdded(@, nextSequence)]
  /\ identity' = Extend(identity, nextSequence, op)
  /\ parent' = Extend(parent, nextSequence, creations[op])
  /\ UNCHANGED <<creations, cancelled, finished>>

StartAttempt(op) ==
  /\ nextSequence < SequenceLimit
  /\ Start(op)

\* UnknownOperation is found out only after the sequence has been taken.
StartAttemptUnknown(op) ==
  /\ nextSequence < SequenceLimit
  /\ op \notin DOMAIN operations
  /\ creations[op] > 0
  /\ nextSequence' = nextSequence + 1
  /\ UNCHANGED <<operations, identity, history>>

RequestOperationCancel(op) ==
  /\ op \in DOMAIN operations
  /\ operations' = [operations EXCEPT ![op].cancellationRequested = TRUE]
  /\ cancelled' = cancelled \cup {<<op, creations[op]>>}
  /\ UNCHANGED <<nextSequence, identity, creations, parent, finished>>

\* An attempt that is not there is a StaleLease, and removes nothing.
FinishAttempt(s) ==
  /\ s \in Issued
  /\ identity[s] \in DOMAIN operations
  /\ s \in operations[identity[s]].attempts
  /\ operations' = [operations EXCEPT ![identity[s]].attempts = @ \ {s}]
  /\ finished' = finished \cup {s}
  /\ UNCHANGED <<nextSequence, identity, creations, parent, cancelled>>

\* Mutant: the operation goes whatever runs under it.
FinishOperationAnyway(op) ==
  /\ op \in DOMAIN operations
  /\ operations' = Without(operations, op)
  /\ UNCHANGED <<nextSequence, identity, history>>

FinishOperation(op) ==
  /\ op \in DOMAIN operations
  /\ operations[op].attempts = {}
  /\ operations' = Without(operations, op)
  /\ UNCHANGED <<nextSequence, identity, history>>

\* The query, of any attempt handle.
CancellationRequested(s) ==
  /\ identity[s] \in DOMAIN operations
  /\ operations[identity[s]].cancellationRequested
  /\ s \in operations[identity[s]].attempts

Next ==
  \/ \E op \in OperationIds :
       \/ CreateOperation(op)
       \/ StartAttempt(op)
       \/ StartAttemptUnknown(op)
       \/ RequestOperationCancel(op)
       \/ FinishOperation(op)
  \/ \E s \in Issued : FinishAttempt(s)

Spec == Init /\ [][Next]_vars

-----------------------------------------------------------------------------
(* Properties *)

\* An attempt that was started is active, under the id and under the very
\* creation of the operation it was started with, until it is finished itself:
\* neither finishing the operation nor taking its id again loses an attempt or
\* hands it to another operation.
AttemptsStayWithTheirOperation ==
  \A s \in Issued :
    /\ s \notin finished =>
         /\ identity[s] \in DOMAIN operations
         /\ s \in operations[identity[s]].attempts
         /\ parent[s] = creations[identity[s]]
    /\ \A op \in DOMAIN operations :
         s \in operations[op].attempts => op = identity[s] /\ s \notin finished

\* Cancellation is anchored at the operation: an unfinished attempt, started
\* before or after the request, sees it exactly when its own operation, and not
\* an earlier one of the same id, was cancelled; a finished attempt sees none.
CancellationIsAnchored ==
  \A s \in Issued :
    CancellationRequested(s) <=> s \notin finished /\ <<identity[s], parent[s]>> \in cancelled

=============================================================================
