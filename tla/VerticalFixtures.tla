-------------------------- MODULE VerticalFixtures --------------------------
(***************************************************************************)
(* The public calls of platform-vertical-fixtures-v0, together: a session  *)
(* validates a lock (VerticalLock), compares rows (RowBaselines), or       *)
(* validates observations of a projection while the facts of a product are *)
(* recorded in it, one after another, in any order, right or wrong.        *)
(***************************************************************************)
EXTENDS VerticalLock, RowBaselines

CONSTANTS
  Unfinished,  \* the projections a recording starts from, each with the row it is of
  Identities,  \* operation, attempt and correlation of the facts recorded
  Effects,     \* the effects on durable state recorded
  MaxEvents,   \* bounds on what is recorded
  MaxFacts,
  MaxEffects

ASSUME UnfinishedAssumption ==
  /\ Unfinished # {}
  /\ \A u \in Unfinished : IsProjection(u.projection)
ASSUME EffectsAssumption == \A effect \in Effects : effect.disposition \in DispositionKinds

VARIABLES
  session,    \* "lock", "rows" or "projection"
  row,        \* the row observed
  projection  \* what is recorded so far

recorded == <<session, row, projection>>

Blank == CHOOSE u \in Unfinished : TRUE

SessionInit ==
  /\ RowInit
  /\ \/ session = "lock" /\ Init
     \/ /\ session \in {"rows", "projection"}
        /\ Init
        /\ HeaderIsSound
  /\ \/ session = "projection" /\ \E u \in Unfinished : row = u.row /\ projection = u.projection
     \/ session # "projection" /\ row = Blank.row /\ projection = Blank.projection

\* Facts of an admission, as a product adapter writes them.
Event(identity, sequence) ==
  [operation_id |-> identity[1], attempt_id |-> identity[2],
   correlation_id |-> identity[3], sequence |-> sequence]
LifecycleFact(identity, terminal, released) ==
  [operation_id |-> identity[1], attempt_id |-> identity[2],
   correlation_id |-> identity[3], terminal |-> terminal, released |-> released]

RecordEvent(identity, sequence) ==
  /\ Len(projection.ordered_events) < MaxEvents
  /\ projection' = [projection EXCEPT !.ordered_events = Append(@, Event(identity, sequence))]

RecordLifecycle(identity, terminal, released) ==
  /\ Len(projection.lifecycle) < MaxFacts
  /\ projection' =
       [projection EXCEPT !.lifecycle = Append(@, LifecycleFact(identity, terminal, released))]

RecordEffect(effect) ==
  /\ Len(projection.durable_state) < MaxEffects
  /\ projection' = [projection EXCEPT !.durable_state = Append(@, effect)]

\* A number is the next one or is used again; an end is told of with its release
\* or without.
Record ==
  \/ \E identity \in Identities, sequence \in {0, Len(projection.ordered_events)} :
       RecordEvent(identity, sequence)
  \/ \E identity \in Identities, terminal \in {"completed", "cancelled"} :
       RecordLifecycle(identity, terminal, TRUE)
  \/ \E identity \in Identities : RecordLifecycle(identity, "completed", FALSE)
  \/ \E effect \in Effects : RecordEffect(effect)

SessionNext ==
  \/ session = "lock" /\ Next /\ UNCHANGED rowVars /\ UNCHANGED recorded
  \/ session = "rows" /\ RowNext /\ UNCHANGED vars /\ UNCHANGED recorded
  \/ session = "projection" /\ Record /\ UNCHANGED vars /\ UNCHANGED rowVars
     /\ UNCHANGED <<session, row>>

SessionSpec == SessionInit /\ [][SessionNext]_<<vars, rowVars, recorded>>

\* Facts recorded in any order and number are validated exactly when they are a
\* coherent account: every admission settled once, under the correlation all its
\* events carry, every effect told of once; and an account of a cancelled and
\* retried chat tells of both, in that order (VERTICAL-FIXTURE-PROTOCOL.md:96-103).
ProjectionVerdictIsExact ==
  ProjectionIsValidFor(row, projection) <=> ProjectionIsCoherent(row, projection)
=============================================================================
