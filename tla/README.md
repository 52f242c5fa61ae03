# Verification of the W1 platform contracts

This directory holds TLA+ models of the platform contract crates, the TLC runs
that check them on small instances, and the TLAPS proofs that hold for every
value of the constants. Paths are relative to `src/`; the three crates are
abbreviated

* `T/` for `crates/platform-contract-testkit/src/` (the executable contracts:
  reference adapters with threads, locks and channels, and the suites that
  product adapters must pass),
* `C/` for `crates/platform-contracts-v0/src/` (immutable envelopes and their
  validators),
* `V/` for `crates/platform-vertical-fixtures-v0/src/` (fixture manifests,
  observations, locks, baselines and their validators).

## 1. Inventory

| Component | Source | State it keeps | Operations | Interacts with |
| --- | --- | --- | --- | --- |
| Operation supervisor | `T/model.rs`, `ReferenceAdapter` | under one mutex: lifecycle, next sequence, active ids, attempts, retained tasks, joined workers | reserve, queue, start, publish_progress, terminal, record_executor_panic, release; request_cancel, consumer_drop, ticket drop; quiesce, shutdown | executors hold leases (clonable identities), consumers hold tickets (owned, cancel on drop), shutdown callers |
| Supervisor bridge | `T/compositional_lifecycle.rs`, `ReferenceSupervisorBridge` | under one mutex: lifecycle, next sequence, records, active ids, tasks with their `JoinHandle`, expected and joined worker ids; a condition variable; per attempt a worker thread and three rendezvous channels; per shutdown a thread and two channels | reserve, command, wait_released, allow_worker_exit, publish_progress, quiesce, begin_shutdown, the witness of a shutdown | clients drive workers over the handle of an operation; workers notify shutdown threads; shutdown threads join workers |
| Attempt hierarchy | `T/compositional_lifecycle.rs`, `ReferenceAttemptHierarchyAdapter` | under one mutex: next sequence, operations with a cancellation flag and their active attempts | create_operation, start_attempt, request_operation_cancel, finish_attempt, finish_operation | holders of operation and attempt handles |
| Deterministic barrier | `T/barrier.rs` | arrived, released; a condition variable | arrive_and_wait, wait_until_all_arrived, release | every race of the suites is staged on it |
| Publication | `T/publication_suite.rs` | the adapter's stages, what is visible, the fault script | run_publication_model and the nine calls of the adapter | publishers share a destination; a run is repeated after an unknown durability |
| Fault scripts | `T/fault.rs` | a queue of fault points | new, hit | the publication adapter |
| Conformance suites | `T/compositional_lifecycle.rs`, `T/lifecycle_suite.rs` | the main thread of each suite and the racers some spawn; snapshots kept for comparison | the calls and assertions of eleven runners, alone or in races | the clients of the adapters above; coverage |
| Coverage manifest | `T/coverage.rs` | while it folds: the suites, components and invariants seen | passed, accept | consumes what suites return |
| Contract envelopes | `C/*.rs` | values whose fields are public, so each can be edited after it was validated | validate, decide, succeeded, deserialisation through validate | publication outcomes, shutdown summaries |
| Vertical fixtures | `V/validation.rs`, `V/model.rs` | while they run: what a lock, a stream or a row of cases has shown so far; the verified prerequisites callers keep | validate_lock, verify_prerequisite_chunks, validate_row_baselines, validate_baseline, compare_candidate, and under them validate_manifest, validate_observation | locks bind manifests, tokens of streamed artifacts bind comparisons, rows bind baselines |
| Data | `schemas/`, `fixtures/`, `verticals/` | files | none | none |

What is hard, and what makes each component correct:

* **Supervisor.** Two indices of one fact (ids to sequences, sequences to
  attempts) and two counters beside them; leases that never expire while ids are
  reused; admission racing with quiescing; a shutdown in two critical sections;
  ticket drops racing with terminals; a bounded window. Correct when the indices
  and the counters agree, nothing escapes the cancellation of quiesce, a terminal
  is final, a closed owner stays closed and accounts for everyone.
* **Bridge.** Threads in three roles, lookups by reusable id, joins outside the
  mutex, a condition variable, channel ends that are consumed by their first use.
  Correct when no worker is lost or joined twice, no outcome is reported that
  does not validate, no record of one attempt is touched by another, and
  shutdown returns.
* **Hierarchy.** Handles that are bare ids of things that can be finished and
  created again. Correct when attempts and cancellation stay with the creation
  they belong to.
* **Barrier.** Exact counts, one condition variable for two kinds of waiters.
  Correct when it opens on exactly the declared number and then for everyone.
* **Publication.** Errors after the effect, races for a destination, retries
  after an unknown outcome. Correct when outcomes tell the truth, nothing
  unverified is visible, nothing visible is replaced, stages are removed and a
  retry converges.
* **Suites.** Assertions about what other threads do, in races that the suite
  stages and does not control. Correct when the reference adapters pass them in
  every schedule, and no wait of theirs is left unanswered.
* **Coverage manifest, vertical lock, rows of baselines.** Folds over lists that a
  caller orders, whose later steps rely on what the earlier ones let through.
  Correct when their verdict is that of a rule that knows no order.
* **Projections.** Four records of one execution (events, durable state,
  lifecycle, ownership) that are validated by pairs. Correct when what is accepted
  is one coherent account.
* **Artifacts.** Evidence in three hands: a manifest declares an artifact, a stream
  shows its bytes, a token stands for them in a later call. Correct when nothing is
  accepted whose bytes were not seen to the end.
* **Envelopes.** Values that others act upon after they were validated and may be
  edited in between; sums that may overflow. Correct when a decision holds of the
  value as it is, and a summary accounts for everything it names.

`PROJECT.json` lists the hazards at their lines, with the properties that cover
them or the reason why none does.

## 2. Modules

`LifecycleContract` is the abstract specification of both supervisors: attempts
are admitted while the owner runs, each settles on exactly one outcome, is then
joined, and the owner closes when all are. It has nothing of threads, maps or
counters. Two detailed modules implement it.

`OperationSupervisor` models `ReferenceAdapter`. A call that takes the mutex once
is one action; `shutdown` takes it twice and is `ShutdownQuiesce` and
`ShutdownFinish`; `consumer_drop` requests the cancellation itself and once more
when the ticket is dropped, so it is `ConsumerDrop` and `TicketDrop`. Refused
calls change nothing in the code and are disabled actions. The one refusal that
does change state, the `StaleLease` of `release` (model.rs:438), is a branch of
`Release`, and `ActiveAgreement` is why it is never taken. A lease is not
tracked: `ExecutorStep(op, s)` is enabled for every identity, at any time, for
leases can be cloned and kept. A ticket is owned by one consumer, so `tickets`
tracks it, and remembers (`asked`) that a cancellation was requested with it, which is
what `CancelledOnDemand` compares the flag of an attempt with. `waiter_timeout` and the getters only read and have no action. The
mutex is never poisoned with a half-made change: no call panics while it holds
it, within the bounds of the counters.

`SupervisorBridge` models `ReferenceSupervisorBridge`. One action is one critical
section, one rendezvous or one join. A worker's program counter walks
`unspawned` (admitted, `reserve` not yet through), `commandRecv`, `settling`,
`releasedSend`, `exitRecv`, `exited`, `joined`; any of its three `expect`s on a
peer that is gone leads to `panicked`. A shutdown thread walks `quiescing`,
`starting` (its rendezvous with `wait_started`), `draining` (the loop around the
condition variable), `waiting` (inside it), `joining` and `done`, or into one of
four panics. `handle[s]` keeps which of the three channel ends the handle of an
attempt still has. The constant `Freedoms` says what clients may do that the
suites never do: overlap shutdowns, let a wait time out, drop a handle. Names of
workers are ordered as strings in the code (`worker-10` before `worker-2`), so
the joins of one shutdown are allowed in any order. Progress is kept as the
length of the window. `shutdown()` of the bridge only reads the facts.

`AttemptHierarchy` models `ReferenceAttemptHierarchyAdapter`, one call per action,
with handles of any age. Its history variables (how often an id was created,
under which creation an attempt started, which creations were cancelled) are
read by properties only; the guards read `creations` for the model's bound and
to know which handles can exist.

`DeterministicBarrier` models `barrier.rs`. `arrive_and_wait` up to its first
wait is one hold of the mutex and one action; waiting threads are in the wait set
until notified or woken for no reason; the two assertions of the code are actions
that end their thread in `panicked`.

`Publication` models `run_publication_model` over the reference adapter and its
fault script, one adapter call per action together with what the run does before
the next. Each publisher has an adapter of its own, and the destination is
shared. With one publisher this is the reference adapter; with several it is the
situation for which the no-clobber step and the second inspection exist and
which the suite, whose adapter has one owner, cannot stage. The two variables
`fileSynced` and `parentSynced` stand for what the sync calls achieve on disk,
which the reference adapter does not record. Artifacts are model values compared
by `same_content`. The trace, stage numbers and the constant staging facts are
left out.

`CoverageManifest` models the acceptance of lifecycle coverage: what each of the
eleven suite runners mints when it returns, and `accept`, which folds over any
list of that. One item of the list is one action, whichever suite it is of and
whichever component it names; the early returns end the fold. `ExactlyOnce` is
what that promises, without suites, invariants or kinds of errors.
`UnexpectedSuite` and `MissingInvariants` are in the model and never returned:
evidence is made by the runners alone, and between them they mint all eighteen
invariants.

`VerticalLock` models `validate_lock`: the checks of the header, the loop over the
entries and the loop over the streamed manifests, an action for each element
read. The catalogue and its classes are constants. A byte string is a model
value that stands for its digest (SHA-256 is taken to be without collisions);
`Parse` says which of them are manifests, and of a manifest keeps the row, the
class, the revision and whether the rest of it is well formed. The entries are
read one by one from a list that nondeterminism chooses as it goes, which gives
every lock and every order. The refusal over the number of entries is in the
model and never reached, as `OneEntryPerRow` proves.

`SuiteScripts` is how a suite is written down: a script of steps for its main
thread and for its two racers, each step with what the suite expects of it: that
the call succeeds (`expect`), that it is refused (`is_err`), either, that it
returns in the end, or that a claim about the getters holds. A failed expectation
sets `failed`.

`LifecycleSuite` plays every suite that runs on `ReferenceAdapter` against
`OperationSupervisor`: the assertions of `lifecycle_suite.rs` and the runners of
`compositional_lifecycle.rs`, the three races of `lifecycle_suite.rs` included. Both
the identity of an attempt and the id it is reserved under are numbers of the
script; a refused call is an action that is not enabled. The adapters that start at
`u64::MAX` are here ones that have issued, and got back, every sequence there is, and the
reaping suite's 8 concurrent and 32 historical operations are constants. `waiter_timeout` and the
projections are claims about a snapshot kept in `saved`.

`BridgeSuites` does the same for the suites that run on
`ReferenceSupervisorBridge`, against `SupervisorBridge`: their scripts are its
clients, its worker and shutdown threads move by themselves and meet the scripts
at the channels. The joins of a shutdown are in the order of the names here
(`NextInName`), since the stable-shutdown suite asserts that order and its ten
workers are there to get `worker-10` before `worker-2`. `WITNESS_TIMEOUT` has no
action: that it never expires is `SuitesEnd`. The script `any` is no suite but
every client of the suites' protocol: reservations, quiesce and both shutdowns
at any time, and each handle commanded, awaited and let exit.

`Projections` has the validators of an equivalence projection as operators, the
relations between its four records included. `RowBaselines` models what compares
observations with the manifest of a row: `verify_prerequisite_chunks`, one action
per chunk, whose tokens are kept; `validate_row_baselines`, one action per case it
takes; `validate_baseline` and `compare_candidate`, which are one action each. A byte
string stands for its digest. `VerticalFixtures` puts the three together as a
session of public calls: a lock, comparisons, or a projection that grows fact by
fact as a product records it, right or wrong, and is validated at every point.

`Envelopes` models two envelopes that others act upon, `ClosedSummaryV0` and
`PrivacyPolicyV0`: a producer builds any value, deserialisation validates or
refuses it, whoever holds it assigns any field, and asks `decide` or `succeeded`.
The counts are of a `usize` whose largest value is a constant, and
`checked_add` is modelled by what it does at the top.

Each `MC…` module gives the instance its symmetry or its data, or says what the scripts need of it; the `.cfg` files
give the constants. Operators commented as mutants are single plausible bugs,
used by no specification, with which every property is shown to be breakable.

## 3. Runs

| Run | Instance | Shows |
| --- | --- | --- |
| OperationSupervisor | 2 ids, sequences 1 and 2, window of 1, 2 publications, a caller of shutdown, fair | all safety and action properties, refinement of `LifecycleContract`, and that a quiescing supervisor closes |
| LifecycleSuite | the scripts as they are, 3 concurrent and 4 historical operations in the reaping suite, window of 2 with 4 publications | every suite passes in every schedule; the window is the newest progress |
| SupervisorBridge | 2 ids, 2 sequences, window of 1, 2 shutdowns, every freedom | safety under every client behaviour, refinement |
| BridgeSuites | the scripts as they are with all 10 workers of the stable shutdown, window of 2; for `any`, 2 ids and 2 sequences; fair | every suite passes and ends in every schedule; no thread panics and every shutdown returns for every client of the protocol |
| SupervisorBridgeOverlap | 1 id, 1 sequence, overlapping shutdowns | finding: the retained task without a handle |
| SupervisorBridgeReuse | 1 id, 2 sequences | finding: `wait_released` observes another attempt |
| DeterministicBarrier | 4 participants for an expected 3, a patient and a hasty coordinator, fair | exact opening, overcrowding, and that nobody stays inside a barrier that is not overcrowded |
| Publication | 2 publishers, 2 contents, 2 injected faults, any seeded destination, fair | all properties, recovery |
| AttemptHierarchy | 2 ids, 4 sequences, 3 creations per id | all properties |
| CoverageManifest | the 11 suites and 18 invariants of the code, 2 components | the verdict is exact; refinement of `ExactlyOnce` |
| VerticalFixtures | locks of 2 rows over 7 byte strings; comparisons against 8 manifests of three kinds of rows, over right observations and observations wrong in one field, of up to 3 cases with up to 3 tokens each, of 2 that are different; recordings of up to 3 events, 2 lifecycle facts, 2 effects | each verdict is that of its order-free rule; nothing is accepted whose bytes were not streamed |
| Envelopes | summaries of up to 2 resources of up to 2 workers and up to 2 failures, `MaxUsize` 2; policies of up to 2 providers and 2 tiers, every edit and route | hosted egress is consented; a received summary accounts for its resources, also where sums overflow |

**Why the bounds are enough.** Two ids and two sequences give both situations in
which sequences matter: two operations live at once, and one id reserved again
after its first attempt was released, with the old lease still around. The
limit then makes the sequences run out, which in the code takes `u64::MAX`
reservations. A window of one overflows at the second publication, and in
`LifecycleSuite` a window of two overflows twice. On the bridge, whose shutdowns are
threads, a second shutdown is enough for every overlap of two, and the third would find what the
second finds. On the supervisor one caller repeats its shutdown, with all that
others do between its two critical sections; the theorems of
`OperationSupervisorProofs` hold for any number of callers. One participant too many is enough to overcrowd. Two injected
faults allow a fault in the first run and another in its retry, one each for two
publishers, or two for one. The suites need no bound but the scale of the reaping
suite and of the window, since they are finite; the 32 publications of the saturated suite become one more
than the window holds. The coverage run uses the
code's own lists and needs no bound: the fold ends at the first repetition. Two
rows give a lock with a row missing, named twice and described by the other's
manifest; the theorems of `VerticalFixturesProofs` do the eighteen. A row of two
cases gives cases swapped, repeated, missing and added; of the first
case each field is wrong in turn, for a validator that is a conjunction needs one
reason. Slices of up to three are one case more than a manifest of the run has, and one
token more than are different; in the specification their lengths are any numbers. Two resources with two workers each overflow a `MaxUsize` of 2.
`PublishLimit`, `InjectLimit`, `CreationLimit`, `FreeSequences`, `MaxTokens`, `SliceLengths`, `MaxEvents`,
`MaxFacts` and `MaxEffects` exist for the checker only; `SequenceLimit`, `MaxLength` and
`MaxUsize` are the code's own, made small.

The type invariant is run for the supervisor. Those of the bridge, the barrier, the
hierarchy and a publication are proved (section 5), and so is what the others need.

**Deadlock** is checked wherever the system need not stop. The hierarchy run turns it off,
since with the sequences used up and the creations at their bound nothing
remains to do; so do the coverage and fixture runs, whose folds end with their
verdict, and the envelope run, where nothing follows a refusal; and so do the three
runs of `SupervisorBridge`, where a dropped handle
can leave a worker, and with it a shutdown, without anything to do: that is what
the code does, and `PROJECT.json` lists it. `BridgeSuites` has deadlock
checking on: its only final states are those where the suite has ended, or, for
`any`, where every shutdown is done.

**Fairness.** `OperationSupervisor`: executors carry attempts through queue,
start, terminal and release, as every suite does, and somebody calls shutdown
again and again, since it never waits; each is one short critical section that
nothing else can disable for ever. One condition of fairness for all executors and
one for all callers is enough, because an attempt has four steps and a shutdown
two. No fairness is asked of consumers or publishers. `BridgeSuites`: threads are scheduled and mutexes granted, the threads
of a suite go on, and for `any` the owner of a handle commands its worker, waits
for the release and lets it exit, which is
the order of the suites; nobody owes a reservation, progress, or the start of a
shutdown. `SupervisorBridge` itself states none: what its threads owe each other
is said where they have clients. `DeterministicBarrier`: the declared
participants arrive, who was notified looks again, and coordinators make their calls;
nobody owes the arrival of a participant too many. `Publication`:
adapter calls return, and publishers run again, which is what the recovery
cases of `assert_publication_model` do and what the advice `AfterRestart` of a
`durability_unknown` error asks for; faults are never owed. Weak fairness is
enough everywhere.

## 4. Findings

* **Overlapping shutdowns** (`SupervisorBridgeOverlap`). `finish_shutdown` takes
  every `JoinHandle` and keeps the tasks, now without handles, until it has
  joined all workers outside the mutex. A second shutdown that gets there
  meanwhile panics at compositional_lifecycle.rs:1019. The lifecycle document
  promises that a repeated shutdown is deterministic; it is, once the first has
  returned (`ShutdownCompletes` and the stable-shutdown script, in `BridgeSuites`), and not before. Safety is
  not lost: `OutcomesValidate` and `HandlesTakenOnce` hold with every freedom.
* **Reuse of an id while one waits for its release** (`SupervisorBridgeReuse`).
  `wait_released` looks up the record by id after the announcement, in a critical
  section of its own; the id may have been reserved in between. What still
  holds is `SnapshotNotEarlier`: it is never an earlier attempt's record.

Both need clients that do what the suites do not, and both bind a product that
takes the reference bridge as its model.

Not runs, but worth knowing. In `assert_admit_quiesce_race_is_linearizable`
the racing thread evaluates `reserve(..).is_ok()` (lifecycle_suite.rs:390), which
drops the reservation and its ticket on the spot; the cancellation the suite then
asserts is the ticket's and would be there without `quiesce`.
`QuiesceReachesEveryAttempt` is that property with the tickets held. And the
check of `validate_row_baselines` for a case that was already taken is implied by
its final comparison of the two sets of case ids with equal counts: without it the
same rows are refused, only later.

## 5. Proofs

| Module | Inductive invariant | Theorems |
| --- | --- | --- |
| OperationSupervisorProofs | `IInv = RegistryInv /\ CancelInv /\ ShutdownInv` | every safety and action property of the run, the refinement, the window of `LifecycleSuite`, what holds a quiescing supervisor open, and that the suites are its clients |
| SupervisorBridgeProofs | `IInv`: the types, `WorkerInv`, `RecordInv`, `ListInv`, `TaskInv`, `JoinInv`, `StageInv` and two of the properties; `ProtocolInv` on top | every safety and action property of the run, the refinement, and, for clients of the suites' protocol, that nothing panics and every wait can be answered; and that the suites are such clients |
| DeterministicBarrierProofs | `IInv`; `NoWakeupIsLost` on top | every safety and action property of the run, and that no wakeup is lost |
| PublicationProofs | `Inv`, with one `RunInv(p)` per publisher; `ScriptInv` beside it | the type invariant and every safety and action property of the run; that outcomes stay true, runs are short, and only faults hinder a recovery |
| AttemptHierarchyProofs | `IInv` | every property of the run |
| CoverageManifestProofs | `IInv = TypeOK /\ GivenInv /\ CoveredInv /\ ConclusionInv` | both properties of the run, the refinement included |
| VerticalFixturesProofs | `LockInv = LockTypeOK /\ LoopInv /\ VerdictIsExact`; `IInv = StreamInv /\ TokensInv /\ TakenInv /\ BoundInv`; `RowInv = LoopIsSound /\ RowVerdictIsExact` | all five properties of the run |
| EnvelopesProofs | `IInv` for policies, `SummaryInv` for summaries | both properties of the run |

The theorems hold for every set of ids (finite, for the supervisor), every range
of sequences, every capacity of at least one (for the bridge, of 0 too), any number
of callers, shutdowns, participants, coordinators and publishers, every catalogue and
lock, every set of components, every manifest, declaration, observation and recording
of any length, every set of lengths of the slices a caller passes (all of the naturals
included, so that rows of any number of cases and exact prerequisites are accepted as well as
refused: the quit-and-relaunch row, `CROSS-PRODUCT-ROWS.md`:80, has five cases), and every policy, summary, edit and route. On the bridge they hold for
every set of freedoms, but for those about panics and waits, whose statements assume that
there are none, and on the suites for every script.
The refinements are theorems of the properties the runs check, with the same mapping.

They rest on the assumptions named in the modules, which TLC evaluates in every run,
and on nothing else. Those are of two sorts. Some say of a constant that it is a number or a set of the right kind, such as
`SequenceAssumption`, `CapacityAssumption`, `ExpectedAssumption` (the code refuses a
barrier of 0), `ThreadsAssumption`, `RowsAssumption`,
`SliceLengthsAssumption`. The others say of data what
the Rust types say: that lists are lists and records have the fields of their structs
(`ManifestsAssumption`, `ObservationsAssumption`, `DeclaredAssumption`,
`EffectsAssumption`, `UnfinishedAssumption`, `TypesAssumption`, `ParseAssumption`).
None of them says that data are valid: manifests, observations and recordings may be
wrong in every way a type allows.

*Supervisor.* Types, `ActiveAgreement` and `CountersAgree` are inductive only
together (`RegistryInv`): the retained-task counter stays a natural number
because it equals the number of active ids, and `Release` decrements it in step
with the slot it empties because the slot of a terminal attempt holds its own
sequence (`ReleaseIsComplete`, which is also why the `StaleLease` branch is
dead). On top of it, `CancelInv` needs `ActiveAgreement`: quiesce walks the
active ids, and only their agreement with the attempts says it meets all that
have not settled. `CancelledOnDemand` bounds the flag from both sides: a ticket that was used
has set it, and no ticket but the attempt's own has, nor anything else before the
quiesce. `ShutdownInv` adds what `ShutdownAccountsForEveryAttempt` does
not say of the moment between the two critical sections: nobody is running any
more, so the number of attempts no longer grows, and a closed owner has no
active id. Refinement maps a terminal to `Settle`, a release to `Join`, the first
quiesce to `Quiesce` and the closing shutdown to `Close`; everything else
stutters. The progress window is proved from its own invariant over `Pushed`.

`QuiescingCloses` is liveness and stays with TLC; the safety behind it is
`OnlyAttemptsHoldItOpen`, for any number of attempts and callers. A quiescing owner that a shutdown
cannot close is held open by an attempt that has its slot, and whose next call,
its release in full, is therefore accepted (`HeldOpenByAttempts`, from
`CountersAgree` and `ActiveAgreement`); and no attempt ever goes back a step, nor is any
admitted any more, so the calls they owe between them only get fewer (`OnlyAdvances`).
That the calls are made is fairness.

`SuitesAreClients` says that the suites move the supervisor by its own operations alone. Scripts
name attempts by number, so it takes the type invariant: what `operation_mut` grants and what a
ticket stands for has been issued, under an id there is. It is proved of every script,
so each theorem above holds in every suite, and in suites not yet written.

*Bridge.* The invariant follows an attempt through its worker. An attempt that has not
settled holds its id's slot (`RecordInv`), so a worker that looks its record up by the
reusable id finds its own: `RecordsFollowActive`, and with it
`ReleasedRecordIsFinal`. A task is retained exactly from the spawning of its worker to
the outcome that reports it joined (`TaskInv`). `JoinInv` is about shutdowns that
overlap: one that took the tasks answers for all there are, in what it has joined and
what it has yet to join, even if it panicked over a worker; two that took anything
cannot be, for taking needs every `JoinHandle` owned, and the first left none. From
that follow `HandlesTakenOnce`, `NoWorkerIsLost` and, with `StageInv` (nothing is
admitted after the quiesce, and nothing is active any more when the tasks are taken),
that the tasks a shutdown removes at its end are those it joined: the sums of
`OutcomesValidate`. A closed supervisor has neither tasks nor attempts, so each later
outcome is the same. Refinement maps `reserve` to `Admit`, the critical section in which
a worker settles to `Settle`, a join to `Join`, the first quiesce to `Quiesce` and the
first `RecordClosed` to `Close`; the rendezvous, the condition variable, tasks, handles
and later shutdowns stutter.

`ShutdownCompletes` is liveness and stays with TLC, but what it needs of the code is
safety, and is proved for any number of operations and shutdowns. `NoWakeupIsLost`:
whoever sleeps on the condition variable waits for an active operation, in every freedom.
`ProtocolInv`: when nobody gives up a wait, drops a handle or overlaps shutdowns, each
channel end is there until its peer has used the other (`EndsAreKept`), and tasks
without a `JoinHandle` are in the hands of the one shutdown under way (`OneShutdown`).
So no `expect` fails (`NobodyPanics`, one half of `BridgeSuites.SuitesPass`), and
whoever waits does so for a peer that can still answer (`EveryWaitIsAnswerable`).
The suites are clients of that protocol (`SuitesAreClients`, again for every script), and
so all this holds in them; of `any`, which has no script whose expectations could fail,
`SuitesPass` itself is a theorem (`SuitesKeepTheProtocol`).

*Barrier.* `OpensOnExactArrival` counts threads, so the invariant ties the count
`arrived` to the cardinality of those that left `idle`; every arrival moves one
thread, which `OneMore` turns into one more in the set. `NoWakeupIsLost` is what
`ArrivedGetOut` needs of the one condition variable for two kinds of waiters: whatever
makes a waiter's condition true notifies all in the same hold of the mutex.

*Publication.* The invariant is one of the destination and one of each run, by its
program counter. The steps of others are handled once (`OthersKeep`): they never
replace what is visible, never take a sync back, and never touch another's stage. Types
need that scripts only shrink but for an injection, which finds one empty (`ScriptInv`).
Visible content never goes nor changes and its syncs are never lost (`NothingIsTakenBack`),
so what a caller was told is not only true when it is told but for ever (`OutcomesStayTrue`).
Three facts are what `RecoveryConverges` needs besides fairness: each call brings a run
nearer to its end, and the one inspection whose failure would be a wrong adapter finds the
content (`RunsAreShort`); from the first return over content that is visible, each
later run is a recovery of two calls, and it ends as published unless an injected fault is
used up on it (`OnlyFaultsHinderRecovery`).

*Hierarchy.* The invariant strengthens the two properties by what every creation
of an id bounds: parents and cancellations belong to creations that exist.

*Coverage.* Of each suite as many evidences were given as were taken, but for the one
that a duplicate is refused over (`GivenInv`). What is taken covers its own invariants
(`CoveredInv`), and the runners between them mint all eighteen, so a full list of suites
is complete and `MissingInvariants` is never returned. Refinement maps what was taken to
what is taken.

*Locks.* `LoopInv` says what each loop knows of what it has read: while the
entries are read, rows and digests are each distinct and the two sets are those
of the entries (`EntriesAreClean`); leaving the loop needs every row, which makes
a bijection of entries and rows and so the count right (`OneEntryPerRow`);
while manifests are read, each is, byte for byte, the one of the only entry of
its row (`EntryOfRow`). Every early return is shown to leave something read that
the declarative rule refuses too, which is the other half of exactness.

*Artifacts.* Three steps lie between a byte and the verdict that rests on
it, and the invariant has one part for each: a running stream is of a declared
artifact (`StreamInv`); a token is had only for a digest in `heard` and of its
length (`TokensInv`); the evidence a comparison took has no tokens but those
obtained (`TakenInv`); and as long as no comparison refuses, all of it is bound to
a case of the manifest with its exact artifacts (`BoundInv`).

*Rows.* The loop knows that what it took is one right baseline each of as many
different cases (`LoopIsSound`), and that each validator says of an observation what the
rule says of it (`CaseVerdict`). Lists with unique keys come up in all of them:
a list has as many keys as places exactly if none repeats (`Counted`). That a
complete row, where every case has a place that tells of it, is one-to-one with the
manifest is the pigeonhole principle (`CompleteIsOneToOne`); so a refusal half way
shows that no completion exists, for a repeated case as for a wrong one.

*Projections.* Each of the validators is shown equal to its part of
`ProjectionIsCoherent`, for every recording of any length. The validators search, the
rule quantifies: the position a search ends at is the least one, which exists because the
naturals are well-founded (`Least`, `Position`). The session only ever appends and sets
facts, so a recording keeps its type (`RecordStep`).

*Envelopes.* `AllowedIsConsented` reads `decide` backwards, for a policy of the right
types: each branch of `HostedDecision` that is not taken leaves one conjunct
behind, and the validity `decide` asks for anew gives the redaction and the
exclusion of an open policy with a list. The invariant needs only that edits keep
the types; an answer is dropped when its envelope is edited. For summaries the work is
in the checked sums. `Total` is a recursive function over the places of a list; that it
exists and counts the workers unless it overflows (`SumExists`, `SumsCount`,
`TotalCounts`) is shown by a least counterexample, which needs well-foundedness and no
induction rule.

**Model-checked only.** Liveness (`QuiescingCloses`, `ShutdownCompletes`, `SuitesEnd`,
`ArrivedGetOut`, `RecoveryConverges`): it needs fairness and `ENABLED`, which the
provers do not reason about; the safety that all but `SuitesEnd` rest on is proved, as said above.
`SuitesPass`, of both modules of suites: the scripts are particular and finite, so TLC
explores all there is, but for the scale of two suites; that each call and assertion of a
given script ends as expected would be an induction over its steps. `NoThreadPanics`,
which it contains on the bridge, is proved of every suite. The two findings are
runs that show a violation. Everything else that a run checks is a theorem.

## 6. Not modelled

* Serialisation, identifiers, digests, paths, wording of errors: syntax. With it
  the envelope suite, which is about golden strings and single malformed fields.
* Terminals, publication outcomes, capabilities and evidence of `C/`: each validator
  is a conjunction over one immutable value that nothing else in the crates acts
  upon after validation.
* The hierarchy suite and the publication cases as scripts: they are sequential,
  and their calls are the actions of `AttemptHierarchy` and `Publication`.
* `waiter_timeout`, snapshots and getters of `ReferenceAdapter` as actions: they
  read, and occur as claims in the suites.
* Overflow of `usize` counters of tasks, workers, arrivals and stage numbers:
  each needs that many threads or records in memory.
* The five lifecycle points of `FaultPoint`: no adapter consults them.
* The caching of a result in the witness: it reads what the shutdown thread sent.
  `try_complete` is the claim "pending" of the scripts; a witness that is never
  waited for is the freedom "timeout".
* `spawn` failing: the code unwinds, nothing is promised.
* The two hazards without a property: progress published through a stale handle of
  the bridge, and a window of capacity 0 there; nothing in the code or its
  documents promises what should happen, and no suite does either.

## 7. Plan

1. (done) `LifecycleContract`, `OperationSupervisor` and its proofs.
2. (done) `SupervisorBridge`, its two findings; `DeterministicBarrier`,
   `Publication`, `AttemptHierarchy` and their proofs.
3. (done) `CoverageManifest`; `VerticalLock` and its proofs.
4. (done) The suites as clients of the supervisor and of the bridge:
   `SuiteScripts`, `LifecycleSuite`, `BridgeSuites`.
5. (done) Rows, projections and artifacts, in one session with the lock:
   `Projections`, `RowBaselines`, `VerticalFixtures`; `Envelopes`. One theorem of each.
6. (done) Proofs about the bridge: its records, workers, joins and outcomes, the refinement
   of `LifecycleContract`, and the safety behind `ShutdownCompletes`.
7. (done) The proofs of `CoverageManifest`, of rows, projections and summaries, and of the
   types of `Publication`.
8. (done) That the suites are clients of what is proved: `LifecycleSuite` and `BridgeSuites`
   take only steps of `OperationSupervisor` and `SupervisorBridge` (with no freedoms),
   so their theorems hold in each suite.
9. (done) The safety behind the other liveness properties, as was done for the bridge and the
   barrier: what a quiescing supervisor and a repeated publication wait for can come.
