------------------------- MODULE OperationSupervisor -------------------------
(***************************************************************************)
(* ReferenceAdapter (platform-contract-testkit/src/model.rs): one mutex    *)
(* around the registry of operations, and the calls that executors,        *)
(* consumers and shutdown callers make concurrently.  A call that takes    *)
(* the mutex once is one action; shutdown takes it twice and consumer_drop *)
(* twice, so each of them is two.  A call that returns an error without    *)
(* touching the state is a disabled action.                                *)
(***************************************************************************)
EXTENDS Integers, Sequences, FiniteSets

CONSTANTS
  OperationIds,      \* public operation ids, reusable one after another
  FirstSequence,     \* TestConfig::next_sequence
  SequenceLimit,     \* u64::MAX: checked_add(1) fails there
  ProgressCapacity,  \* TestConfig::progress_capacity
  PublishLimit,      \* bound of the model: publications of one attempt
  ShutdownCallers,   \* threads that call shutdown
  None               \* Option::None

TerminalClasses == {"Completed", "Cancelled", "Failed"}

\* The sequences reserve can ever issue.
Attempts == FirstSequence .. (SequenceLimit - 1)

TerminalRecord == [class : TerminalClasses, sequence : Attempts]

ASSUME SequenceAssumption ==
  /\ FirstSequence \in Nat
  /\ SequenceLimit \in Nat
  /\ FirstSequence <= SequenceLimit
ASSUME CapacityAssumption ==
  /\ ProgressCapacity \in Nat \ {0}
  /\ PublishLimit \in Nat
ASSUME OperationIdsAssumption == IsFiniteSet(OperationIds)
ASSUME NoneAssumption == None \notin TerminalRecord \cup TerminalClasses

VARIABLES
  \* ReferenceState, guarded by the mutex
  lifecycle,
  nextSequence,
  active,          \* partial function: operation id -> sequence
  attempts,        \* partial function: sequence -> ReferenceOperation
  retainedTasks,
  joinedWorkers,
  \* the callers
  tickets,         \* of each issued sequence: "held", "asked" (held, and history: a
                   \* cancellation was requested with it), "dropping", "dropped"
  published,       \* of each issued sequence: publications accepted so far
  shutdownPc,      \* of each shutdown caller: "idle" or between its two locks
  facts            \* the ClosedFacts each caller's last shutdown returned

registry == <<lifecycle, nextSequence, active, attempts, retainedTasks, joinedWorkers>>
callers == <<shutdownPc, facts>>
vars == <<registry, tickets, published, callers>>

Phases == {"Reserved", "Queued", "Running", "Terminal", "Released"}
Live == {"Reserved", "Queued", "Running", "Terminal"}

Issued == FirstSequence .. (nextSequence - 1)

Operation ==
  [operation : OperationIds,
   phase : Phases,
   cancellationRequested : BOOLEAN,
   terminal : TerminalRecord \cup {None},
   progress : Seq(1 .. PublishLimit)]

ClosedFacts ==
  [lifecycle : {"Running", "Quiescing", "Closed"},
   activeOperations : Nat,
   retainedTasks : Nat,
   expectedWorkers : Nat,
   joinedWorkers : Nat]

EmptyMap == [x \in {} |-> x]

NoFacts ==
  [lifecycle |-> "Running", activeOperations |-> 0, retainedTasks |-> 0,
   expectedWorkers |-> 0, joinedWorkers |-> 0]

TypeOK ==
  /\ lifecycle \in {"Running", "Quiescing", "Closed"}
  /\ nextSequence \in FirstSequence .. SequenceLimit
  /\ active \in [DOMAIN active -> Issued]
  /\ DOMAIN active \subseteq OperationIds
  /\ attempts \in [Issued -> Operation]
  /\ retainedTasks \in Nat
  /\ joinedWorkers \in Nat
  /\ tickets \in [Issued -> {"held", "asked", "dropping", "dropped"}]
  /\ published \in [Issued -> 0 .. PublishLimit]
  /\ shutdownPc \in [ShutdownCallers -> {"idle", "quiesced"}]
  /\ facts \in [ShutdownCallers -> ClosedFacts]

Init ==
  /\ lifecycle = "Running"
  /\ nextSequence = FirstSequence
  /\ active = EmptyMap
  /\ attempts = EmptyMap
  /\ retainedTasks = 0
  /\ joinedWorkers = 0
  /\ tickets = EmptyMap
  /\ published = EmptyMap
  /\ shutdownPc = [c \in ShutdownCallers |-> "idle"]
  /\ facts = [c \in ShutdownCallers |-> NoFacts]

-----------------------------------------------------------------------------
(* Executors.  A lease is an identity that never expires: any copy of it   *)
(* may come back at any time, after the operation id has been reused too.  *)

Extend(f, x, v) == [y \in DOMAIN f \cup {x} |-> IF y = x THEN v ELSE f[y]]
Without(f, x) == [y \in DOMAIN f \ {x} |-> f[y]]

\* Mutant: the sequence alone identifies the attempt.
OperationMutBySequence(op, s) == s \in Issued /\ attempts[s].phase # "Released"

\* What operation_mut grants access to; otherwise UnknownOperation or StaleLease.
OperationMut(op, s) ==
  /\ s \in Issued
  /\ attempts[s].operation = op
  /\ attempts[s].phase # "Released"

\* What reserve does once it has passed its three checks.
Admission(op) ==
  /\ nextSequence' = nextSequence + 1
  /\ active' = Extend(active, op, nextSequence)
  /\ attempts' = Extend(attempts, nextSequence,
       [operation |-> op, phase |-> "Reserved", cancellationRequested |-> FALSE,
        terminal |-> None, progress |-> << >>])
  /\ retainedTasks' = retainedTasks + 1
  /\ tickets' = Extend(tickets, nextSequence, "held")
  /\ published' = Extend(published, nextSequence, 0)
  /\ UNCHANGED <<lifecycle, joinedWorkers, callers>>

\* Mutants: one of the checks missing or too weak.
ReserveUnchecked(op) == lifecycle = "Running" /\ op \notin DOMAIN active /\ Admission(op)
ReserveDuplicate(op) == lifecycle = "Running" /\ nextSequence < SequenceLimit /\ Admission(op)
ReserveUntilClosed(op) ==
  /\ lifecycle # "Closed"
  /\ op \notin DOMAIN active
  /\ nextSequence < SequenceLimit
  /\ Admission(op)

Reserve(op) ==
  /\ lifecycle = "Running"
  /\ op \notin DOMAIN active
  /\ nextSequence < SequenceLimit
  /\ Admission(op)

Advance(op, s, from, to) ==
  /\ OperationMut(op, s)
  /\ attempts[s].phase = from
  /\ attempts' = [attempts EXCEPT ![s].phase = to]
  /\ UNCHANGED <<lifecycle, nextSequence, active, retainedTasks, joinedWorkers,
                 tickets, published, callers>>

Queue(op, s) == Advance(op, s, "Reserved", "Queued")
Start(op, s) == Advance(op, s, "Queued", "Running")

\* Mutant: a full window refuses the newest entry instead of losing the oldest.
PushedUnlessFull(window, value) ==
  IF Len(window) = ProgressCapacity THEN window ELSE Append(window, value)

\* The window of unread progress: the oldest entry makes room for the newest.
Pushed(window, value) ==
  Append(IF Len(window) = ProgressCapacity THEN Tail(window) ELSE window, value)

PublishProgress(op, s) ==
  /\ OperationMut(op, s)
  /\ attempts[s].phase = "Running"
  /\ published[s] < PublishLimit
  /\ published' = [published EXCEPT ![s] = @ + 1]
  /\ attempts' = [attempts EXCEPT ![s].progress = Pushed(@, published[s] + 1)]
  /\ UNCHANGED <<lifecycle, nextSequence, active, retainedTasks, joinedWorkers,
                 tickets, callers>>

TerminalRecorded(s, class) ==
  /\ attempts' = [attempts EXCEPT ![s] =
       [@ EXCEPT !.terminal = [class |-> class, sequence |-> s], !.phase = "Terminal"]]
  /\ UNCHANGED <<lifecycle, nextSequence, active, retainedTasks, joinedWorkers,
                 tickets, published, callers>>

\* Mutant: a second terminal is accepted while the first is not yet released.
TerminalInnerAgain(op, s, class) ==
  /\ OperationMut(op, s)
  /\ attempts[s].phase \in {"Running", "Terminal"}
  /\ TerminalRecorded(s, class)

TerminalInner(op, s, class) ==
  /\ OperationMut(op, s)
  /\ attempts[s].phase = "Running"
  /\ TerminalRecorded(s, class)

Terminal(op, s) == \E class \in TerminalClasses : TerminalInner(op, s, class)
RecordExecutorPanic(op, s) == TerminalInner(op, s, "Failed")

\* Mutant: the retained task is not handed back.
ReleaseKeepingTask(op, s) ==
  /\ OperationMut(op, s)
  /\ attempts[s].phase = "Terminal"
  /\ attempts' = [attempts EXCEPT ![s].phase = "Released"]
  /\ active' = Without(active, op)
  /\ joinedWorkers' = joinedWorkers + 1
  /\ UNCHANGED <<lifecycle, nextSequence, retainedTasks, tickets, published, callers>>

\* The phase is written, and the slot of the operation id emptied, before the
\* slot's sequence is compared: a mismatch returns StaleLease with both done
\* and the counters untouched.
Release(op, s) ==
  /\ OperationMut(op, s)
  /\ attempts[s].phase = "Terminal"
  /\ attempts' = [attempts EXCEPT ![s].phase = "Released"]
  /\ active' = Without(active, op)
  /\ IF op \in DOMAIN active /\ active[op] = s
     THEN /\ retainedTasks' = retainedTasks - 1
          /\ joinedWorkers' = joinedWorkers + 1
     ELSE UNCHANGED <<retainedTasks, joinedWorkers>>
  /\ UNCHANGED <<lifecycle, nextSequence, tickets, published, callers>>

-----------------------------------------------------------------------------
(* Consumers: a ticket is owned by one consumer and used up by dropping it. *)

\* Mutants: cancelling what has settled; cancelling whichever attempt now has the
\* operation id of the ticket.
CancelAlways(s) == [attempts EXCEPT ![s].cancellationRequested = TRUE]
CancelByOperation(s) ==
  LET op == attempts[s].operation IN
  IF op \notin DOMAIN active \/ attempts[active[op]].phase = "Terminal"
  THEN attempts
  ELSE [attempts EXCEPT ![active[op]].cancellationRequested = TRUE]

\* attempts after request_reference_cancellation for the attempt s.
CancellationRequested(s) ==
  IF attempts[s].phase \in {"Terminal", "Released"}
  THEN attempts
  ELSE [attempts EXCEPT ![s].cancellationRequested = TRUE]

ConsumerStep(s, from, to) ==
  /\ s \in Issued
  /\ tickets[s] \in from
  /\ tickets' = [tickets EXCEPT ![s] = to]
  /\ attempts' = CancellationRequested(s)
  /\ UNCHANGED <<lifecycle, nextSequence, active, retainedTasks, joinedWorkers,
                 published, callers>>

RequestCancel(s) == ConsumerStep(s, {"held", "asked"}, "asked")
ConsumerDrop(s) == ConsumerStep(s, {"held", "asked"}, "dropping")
TicketDrop(s) == ConsumerStep(s, {"held", "asked", "dropping"}, "dropped")

-----------------------------------------------------------------------------
(* Quiescing and shutdown. *)

\* attempts after quiesce has walked the active sequences.
ActiveCancelled ==
  [s \in Issued |->
     IF /\ \E op \in DOMAIN active : active[op] = s
        /\ attempts[s].phase # "Terminal"
     THEN [attempts[s] EXCEPT !.cancellationRequested = TRUE]
     ELSE attempts[s]]

QuiesceEffect ==
  IF lifecycle = "Running"
  THEN lifecycle' = "Quiescing" /\ attempts' = ActiveCancelled
  ELSE UNCHANGED <<lifecycle, attempts>>

Quiesce ==
  /\ QuiesceEffect
  /\ UNCHANGED <<nextSequence, active, retainedTasks, joinedWorkers,
                 tickets, published, callers>>

\* shutdown gives the mutex up between its call of quiesce and its own section.
ShutdownQuiesce(c) ==
  /\ shutdownPc[c] = "idle"
  /\ shutdownPc' = [shutdownPc EXCEPT ![c] = "quiesced"]
  /\ QuiesceEffect
  /\ UNCHANGED <<nextSequence, active, retainedTasks, joinedWorkers,
                 tickets, published, facts>>

FactsUnder(phase) ==
  [lifecycle |-> phase,
   activeOperations |-> Cardinality(DOMAIN active),
   retainedTasks |-> retainedTasks,
   expectedWorkers |-> joinedWorkers + retainedTasks,
   joinedWorkers |-> joinedWorkers]

\* Mutant: closing without looking at what is still owned.
ShutdownFinishUnchecked(c) ==
  /\ shutdownPc[c] = "quiesced"
  /\ shutdownPc' = [shutdownPc EXCEPT ![c] = "idle"]
  /\ lifecycle' = "Closed"
  /\ facts' = [facts EXCEPT ![c] = FactsUnder("Closed")]
  /\ UNCHANGED <<nextSequence, active, attempts, retainedTasks, joinedWorkers,
                 tickets, published>>

ShutdownFinish(c) ==
  /\ shutdownPc[c] = "quiesced"
  /\ shutdownPc' = [shutdownPc EXCEPT ![c] = "idle"]
  /\ lifecycle' = IF DOMAIN active = {} /\ retainedTasks = 0 THEN "Closed" ELSE lifecycle
  /\ facts' = [facts EXCEPT ![c] = FactsUnder(lifecycle')]
  /\ UNCHANGED <<nextSequence, active, attempts, retainedTasks, joinedWorkers,
                 tickets, published>>

-----------------------------------------------------------------------------

ExecutorStep(op, s) ==
  \/ Queue(op, s)
  \/ Start(op, s)
  \/ PublishProgress(op, s)
  \/ Terminal(op, s)
  \/ RecordExecutorPanic(op, s)
  \/ Release(op, s)

Next ==
  \/ \E op \in OperationIds : Reserve(op)
  \/ \E op \in OperationIds, s \in Attempts : ExecutorStep(op, s)
  \/ \E s \in Attempts : RequestCancel(s) \/ ConsumerDrop(s) \/ TicketDrop(s)
  \/ Quiesce
  \/ \E c \in ShutdownCallers : ShutdownQuiesce(c) \/ ShutdownFinish(c)

Spec == Init /\ [][Next]_vars

\* Executors that hold leases carry operations through, whether by a normal
\* terminal or by a recorded panic, and shutdowns are called again and again:
\* each of these steps takes one short critical section, so nothing else can
\* disable it for ever.  Who goes first is nobody's promise: an attempt makes four
\* steps and no more, and a shutdown two.  Consumers and publishers owe nothing.
Fairness ==
  /\ WF_vars(\E s \in Issued : LET op == attempts[s].operation IN
               Queue(op, s) \/ Start(op, s) \/ Terminal(op, s) \/ Release(op, s))
  /\ WF_vars(\E c \in ShutdownCallers : ShutdownQuiesce(c) \/ ShutdownFinish(c))

FairSpec == Spec /\ Fairness

-----------------------------------------------------------------------------
(* Properties *)

\* The registry of operation ids and the map of attempts are two views of one
\* fact: an id is taken exactly by its one attempt that is not released.  This
\* is what makes a stale lease harmless after its id was reused, and what makes
\* the StaleLease branch of release (model.rs:438), which would leave the
\* attempt half released, unreachable.
ActiveAgreement ==
  /\ \A op \in DOMAIN active :
       /\ attempts[active[op]].operation = op
       /\ attempts[active[op]].phase \in Live
  /\ \A s \in Issued : attempts[s].phase \in Live =>
       /\ attempts[s].operation \in DOMAIN active
       /\ active[attempts[s].operation] = s

\* The two counters, which release and reserve update beside the maps, never
\* drift from them: every issued attempt is one retained task or one joined
\* worker, and retained tasks are as many as the active operations.
CountersAgree ==
  /\ retainedTasks = Cardinality(DOMAIN active)
  /\ retainedTasks + joinedWorkers = nextSequence - FirstSequence

\* quiesce and reserve race for the mutex; whichever order they take, no
\* attempt that has yet to reach its terminal escapes the cancellation that
\* quiesce requests.
QuiesceReachesEveryAttempt ==
  lifecycle # "Running" =>
    \A s \in Issued : attempts[s].phase \in {"Reserved", "Queued", "Running"} =>
                        attempts[s].cancellationRequested

\* An attempt that has not settled is cancelled once its ticket was asked to or
\* dropped; and nothing else than its own ticket or quiesce cancels it: not the
\* ticket of an earlier attempt under the same operation id, dropped late.
CancelledOnDemand ==
  \A s \in Issued :
    /\ tickets[s] # "held" /\ attempts[s].phase \in {"Reserved", "Queued", "Running"} =>
         attempts[s].cancellationRequested
    /\ attempts[s].cancellationRequested => tickets[s] # "held" \/ lifecycle # "Running"

\* Whatever shutdown returns, to any caller and however its two critical
\* sections interleave with the rest, accounts for every attempt ever admitted;
\* and it reports Closed only with all of them joined.
ShutdownAccountsForEveryAttempt ==
  \A c \in ShutdownCallers :
    LET f == facts[c] IN f # NoFacts =>
      /\ f.lifecycle \in {"Quiescing", "Closed"}
      /\ f.expectedWorkers = nextSequence - FirstSequence
      /\ f.activeOperations = f.retainedTasks
      /\ f.lifecycle = "Closed" <=> f.joinedWorkers = f.expectedWorkers
      /\ f.lifecycle = "Closed" => lifecycle = "Closed" /\ DOMAIN active = {}

\* The window holds the last of count publications, numbered from 1.
NewestOf(window, count) ==
  /\ Len(window) = IF count < ProgressCapacity THEN count ELSE ProgressCapacity
  /\ \A i \in 1 .. Len(window) : window[i] = count - Len(window) + i

\* Publication never blocks, so a slow reader loses the oldest entries and only
\* those: the window is always the newest publications, in order.
ProgressIsNewestWindow == \A s \in Issued : NewestOf(attempts[s].progress, published[s])

\* Once an attempt has its terminal, nothing that comes late (a second
\* terminal, a panic report, progress, a cancellation from a ticket or from
\* quiesce) changes what its snapshot says, except that it becomes released.
TerminalIsFinal ==
  [][\A s \in Issued : attempts[s].phase \in {"Terminal", "Released"} =>
       /\ attempts'[s] \in {attempts[s], [attempts[s] EXCEPT !.phase = "Released"]}
       /\ attempts[s].phase = "Released" => attempts'[s] = attempts[s]]_vars

\* Closed is closed: no call that was on its way when the owner closed, from an
\* executor, a consumer or another shutdown, changes the registry afterwards.
ClosedIsFinal == [][lifecycle = "Closed" => UNCHANGED registry]_vars

\* The supervisor keeps the promise of LifecycleContract: an attempt is owned
\* until its terminal, settled until released, and joined then.
Standing ==
  [s \in Attempts |->
     IF s \notin Issued THEN "unknown"
     ELSE IF attempts[s].phase = "Released" THEN "joined"
     ELSE IF attempts[s].phase = "Terminal" THEN "settled" ELSE "owned"]
Outcome ==
  [s \in Attempts |->
     IF s \in Issued /\ attempts[s].terminal # None THEN attempts[s].terminal.class ELSE None]

Contract == INSTANCE LifecycleContract WITH
  Attempts <- Attempts, Outcomes <- TerminalClasses, Undecided <- None,
  stage <- lifecycle, standing <- Standing, outcome <- Outcome

RefinesContract == Contract!Spec

\* Once quiescing, the owner closes: nothing that was admitted can hold it open
\* for ever, and the shutdown that finds it empty closes it.
QuiescingCloses == lifecycle = "Quiescing" ~> lifecycle = "Closed"

=============================================================================
