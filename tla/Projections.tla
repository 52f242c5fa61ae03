---------------------------- MODULE Projections ----------------------------
(***************************************************************************)
(* What platform-vertical-fixtures-v0 asks of an equivalence projection,   *)
(* the record of what a product visibly did: its events in order, what     *)
(* became of durable state, how each admission ended, and what is owned at *)
(* the end (validation.rs, from validate_projection down).  A validator    *)
(* that returns its first error is the conjunction of its checks.          *)
(* Identifiers, payloads and digests are well formed or have no place here.*)
(***************************************************************************)
EXTENDS Naturals, Sequences, FiniteSets

None == "none"  \* an identifier or an artifact that is absent

Members(seq) == {seq[i] : i \in DOMAIN seq}
Unique(seq, Key(_)) == Cardinality({Key(x) : x \in Members(seq)}) = Len(seq)

\* The identity of an event or of a lifecycle fact.
Admission(fact) == <<fact.operation_id, fact.attempt_id>>
AdmissionIdentity(fact) == <<fact.operation_id, fact.attempt_id, fact.correlation_id>>

EventsAreValid(events) ==
  events # <<>> /\ \A i \in DOMAIN events : events[i].sequence = i - 1

TransitionIsValid(state) ==
  LET before == state.before # None
      after == state.after # None
  IN  CASE state.disposition = "unchanged" -> before /\ state.before = state.after
        [] state.disposition = "created" -> ~before /\ after
        [] state.disposition = "updated" -> before /\ after /\ state.before # state.after
        [] state.disposition = "removed" -> before /\ ~after
        [] state.disposition \in {"quarantined", "recovered"} -> before /\ after

DurableStateIsValid(durable) ==
  /\ durable # <<>>
  /\ Unique(durable, LAMBDA state : state.state_id)
  /\ \A state \in Members(durable) : TransitionIsValid(state)

\* Mutant: the correlation is taken for part of the identity.
LifecycleByCorrelation(lifecycle) ==
  /\ lifecycle # <<>>
  /\ \A fact \in Members(lifecycle) : fact.released
  /\ Unique(lifecycle, AdmissionIdentity)

LifecycleIsValid(lifecycle) ==
  /\ lifecycle # <<>>
  /\ \A fact \in Members(lifecycle) : fact.released
  /\ Unique(lifecycle, Admission)

EventsMatchLifecycle(projection) ==
  {AdmissionIdentity(event) : event \in Members(projection.ordered_events)}
    = {AdmissionIdentity(fact) : fact \in Members(projection.lifecycle)}

OwnershipIsReleased(ownership) ==
  /\ ownership.active_operations = 0
  /\ ownership.retained_tasks = 0
  /\ ownership.joined_workers = ownership.expected_workers

ProjectionIsValid(projection) ==
  /\ EventsAreValid(projection.ordered_events)
  /\ DurableStateIsValid(projection.durable_state)
  /\ LifecycleIsValid(projection.lifecycle)
  /\ EventsMatchLifecycle(projection)
  /\ OwnershipIsReleased(projection.ownership)
  /\ DOMAIN projection.output_facts # {}
  /\ projection.fail_closed_facts # <<>>
  /\ Unique(projection.fail_closed_facts, LAMBDA fact : fact)

\* The index of the first event of an admission; past the end when it has none.
EventPosition(projection, fact) ==
  LET events == projection.ordered_events
      matching == {i \in DOMAIN events : AdmissionIdentity(events[i]) = AdmissionIdentity(fact)}
  IN  IF matching = {} THEN Len(events) + 1
      ELSE CHOOSE i \in matching : \A j \in matching : i <= j

\* A cancelled admission, and after it one of another operation and attempt
\* under the same correlation that completed.
CancelRetryIsProven(projection) ==
  \E cancelled, completed \in Members(projection.lifecycle) :
    /\ cancelled.terminal = "cancelled"
    /\ cancelled.attempt_id # None
    /\ cancelled.correlation_id # None
    /\ completed.terminal = "completed"
    /\ completed.operation_id # cancelled.operation_id
    /\ completed.attempt_id \notin {None, cancelled.attempt_id}
    /\ completed.correlation_id = cancelled.correlation_id
    /\ EventPosition(projection, cancelled) < EventPosition(projection, completed)
    /\ EventPosition(projection, completed) <= Len(projection.ordered_events)

LoomFacts ==
  [visible_ghost_count |-> 1,
   ghost_anchor |-> "caret_local",
   tab_exact_boundary |-> "promote_visible_ghost",
   tab_without_exact_boundary |-> "ordinary_tab_or_indent",
   additional_candidates |-> "hidden_until_explicit_review",
   persistent_candidate_count |-> FALSE,
   skip_to_manuscript_control |-> FALSE,
   primary_use_this_control |-> FALSE,
   dismissed_manuscript_unchanged |-> TRUE,
   stale_suggestion_promoted |-> FALSE,
   ordinary_tab_action |-> "ordinary_tab_inserted"]

LoomFactsHold(projection) ==
  \A name \in DOMAIN LoomFacts :
    /\ name \in DOMAIN projection.output_facts
    /\ projection.output_facts[name] = LoomFacts[name]

\* What validate_observation asks of the projection of an observation of a row.
ProjectionIsValidFor(row, projection) ==
  /\ ProjectionIsValid(projection)
  /\ row = "LoomSuggestionPromotion" => LoomFactsHold(projection)
  /\ row = "MomChatCancelRetry" => CancelRetryIsProven(projection)

\* What the types of the code say of a projection.
IsList(seq) == seq \in Seq(Members(seq))
Ownership == [active_operations : Nat, retained_tasks : Nat,
              expected_workers : Nat, joined_workers : Nat]
DispositionKinds ==
  {"unchanged", "created", "updated", "removed", "quarantined", "recovered"}
IsProjection(projection) ==
  /\ DOMAIN projection = {"ordered_events", "durable_state", "lifecycle", "ownership",
                          "output_facts", "fail_closed_facts"}
  /\ IsList(projection.ordered_events)
  /\ \A event \in Members(projection.ordered_events) : event.sequence \in Nat
  /\ IsList(projection.durable_state)
  /\ \A state \in Members(projection.durable_state) : state.disposition \in DispositionKinds
  /\ IsList(projection.lifecycle)
  /\ IsList(projection.fail_closed_facts)
  /\ projection.ownership \in Ownership

-----------------------------------------------------------------------------
(* The same, as VERTICAL-FIXTURE-PROTOCOL.md puts it.                        *)

\* Each admission settled once and was released, and everything that happened
\* under it happened under one correlation, the one it settled with.
AdmissionsAreExact(projection) ==
  LET events == projection.ordered_events
      lifecycle == projection.lifecycle
      Of(admission) == {i \in DOMAIN lifecycle : Admission(lifecycle[i]) = admission}
  IN
  /\ \A event \in Members(events) :
       \E i \in DOMAIN lifecycle :
         /\ Of(Admission(event)) = {i}
         /\ lifecycle[i].correlation_id = event.correlation_id
         /\ lifecycle[i].released
  /\ \A fact \in Members(lifecycle) :
       \E event \in Members(events) : Admission(event) = Admission(fact)

\* Each state is told of once, and the disposition is one that what it was
\* before and after allows.
Dispositions(before, after) ==
  IF before = None THEN IF after = None THEN {} ELSE {"created"}
  ELSE IF after = None THEN {"removed"}
  ELSE {"quarantined", "recovered", IF before = after THEN "unchanged" ELSE "updated"}

EffectsAreExact(durable) ==
  /\ durable # <<>>
  /\ \A i, j \in DOMAIN durable : durable[i].state_id = durable[j].state_id => i = j
  /\ \A i \in DOMAIN durable :
       durable[i].disposition \in Dispositions(durable[i].before, durable[i].after)

\* Under one correlation, an admission that was cancelled begins before another
\* one, of a different operation and attempt, that completed.
Retried(projection) ==
  LET events == projection.ordered_events
      Ended(i, terminal) == \E fact \in Members(projection.lifecycle) :
        Admission(fact) = Admission(events[i]) /\ fact.terminal = terminal
  IN  \E i, j \in DOMAIN events :
        /\ i < j
        /\ \A k \in 1 .. (j - 1) : Admission(events[k]) # Admission(events[j])
        /\ Ended(i, "cancelled") /\ Ended(j, "completed")
        /\ events[i].operation_id # events[j].operation_id
        /\ None \notin {events[i].attempt_id, events[j].attempt_id}
        /\ events[i].attempt_id # events[j].attempt_id
        /\ events[i].correlation_id = events[j].correlation_id
        /\ events[i].correlation_id # None

\* Something is told of the output, in a suggestion's row all that is promised of
\* it, and of what failed closed, nothing twice.
FactsAreTold(row, projection) ==
  /\ \E name \in DOMAIN projection.output_facts : TRUE
  /\ row = "LoomSuggestionPromotion" => LoomFactsHold(projection)
  /\ projection.fail_closed_facts # <<>>
  /\ \A i, j \in DOMAIN projection.fail_closed_facts :
       projection.fail_closed_facts[i] = projection.fail_closed_facts[j] => i = j

ProjectionIsCoherent(row, projection) ==
  /\ projection.ordered_events # <<>>
  /\ [i \in DOMAIN projection.ordered_events |-> projection.ordered_events[i].sequence + 1]
       = [i \in DOMAIN projection.ordered_events |-> i]
  /\ AdmissionsAreExact(projection)
  /\ EffectsAreExact(projection.durable_state)
  /\ FactsAreTold(row, projection)
  /\ projection.ownership \in [active_operations : {0}, retained_tasks : {0},
       expected_workers : Nat, joined_workers : {projection.ownership.expected_workers}]
  /\ row = "MomChatCancelRetry" => Retried(projection)
=============================================================================
