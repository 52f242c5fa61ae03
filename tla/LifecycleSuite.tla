---------------------------- MODULE LifecycleSuite ----------------------------
(***************************************************************************)
(* The conformance suites that run on ReferenceAdapter: the assertions of  *)
(* lifecycle_suite.rs and the runners of compositional_lifecycle.rs, each  *)
(* as the client script it is, played against OperationSupervisor.  A call *)
(* must be accepted (expect) or refused (is_err); a refused call is a      *)
(* disabled action.  A suite that uses two adapters is two scripts.        *)
(***************************************************************************)
EXTENDS OperationSupervisor, SuiteScripts

CONSTANTS
  Concurrent,  \* of the reaping suite: operations running at once (8 there)
  Historical   \* of the reaping suite: operations one after another (32 there)

VARIABLE saved  \* a snapshot, or shutdown facts, kept for a later comparison

-----------------------------------------------------------------------------
(* The n-th reservation of a script holds ticket n and lease n.            *)

ReserveRunning(id, n) == Expect("reserve", id) \o Expect("queue", n) \o Expect("start", n)
Finish(class, n) == Expect(class, n) \o Expect("release", n)
Shutdown == Expect("shutdown", 0) \o Expect("finish shutdown", 0)
ShutdownClosed == Shutdown \o Assert("closed and empty", 0)
ConsumerDropped(n) == Expect("consumer_drop", n) \o Expect("drop", n)

-----------------------------------------------------------------------------
(* lifecycle_suite.rs *)

ExactTransitionChain == Alone(
  Expect("reserve", 1) \o Assert("Reserved", 1)
  \o RefusedAll(<<"start", "release", "Completed">>, 1)
  \o Expect("queue", 1) \o Assert("Queued", 1)
  \o RefusedAll(<<"queue", "release", "Completed">>, 1)
  \o Expect("start", 1) \o Assert("Running", 1)
  \o RefusedAll(<<"start", "queue">>, 1)
  \o Expect("Completed", 1) \o Assert("Terminal", 1)
  \o RefusedAll(<<"queue", "start">>, 1)
  \o Expect("release", 1) \o Assert("Released", 1)
  \o Refused("release", 1) \o Expect("drop", 1))

TicketDropCancels == Alone(
  ReserveRunning(1, 1) \o Expect("drop", 1)
  \o Assert("cancellation requested", 1) \o Assert("Running", 1) \o Finish("Cancelled", 1))

ExplicitConsumerDrop == Alone(
  ReserveRunning(1, 1) \o ConsumerDropped(1)
  \o Assert("cancellation requested", 1) \o Finish("Cancelled", 1))

OneAuthoritativeTerminal == Alone(
  ReserveRunning(1, 1) \o Expect("publish", 1) \o Expect("Completed", 1)
  \o Keep("snapshot", 1) \o Assert("terminal Completed", 1) \o Assert("one unread", 1)
  \o Refused("Failed", 1) \o Assert("snapshot unchanged", 1)
  \o Expect("release", 1) \o Expect("drop", 1))

WaiterTimeout == Alone(
  ReserveRunning(1, 1) \o Keep("snapshot", 1)
  \o Assert("waiter_timeout", 1) \o Assert("snapshot unchanged", 1)
  \o Expect("request_cancel", 1) \o Assert("cancellation requested", 1)
  \o Finish("Cancelled", 1) \o Expect("drop", 1))

UnreadProgress ==
  LET Publish(i) == Expect("publish", 1) IN Alone(
  ReserveRunning(1, 1) \o Times(PublishLimit, Publish)
  \o Assert("newest progress", 1)
  \o Finish("Completed", 1) \o Expect("drop", 1) \o ShutdownClosed)

DuplicateIds == Alone(
  Expect("reserve", 1) \o Refused("reserve", 1) \o Assert("active", 1)
  \o Expect("queue", 1) \o Expect("start", 1) \o Finish("Completed", 1) \o Expect("drop", 1))

\* An adapter whose next_sequence is u64::MAX; here one that has issued, and got
\* back, every sequence there is.
UsedUp ==
  LET UseUp(n) == ReserveRunning(n, n) \o Finish("Completed", n) \o Expect("drop", n)
  IN Times(Cardinality(Attempts), UseUp)

SequenceExhaustion == Alone(
  UsedUp \o Refused("reserve", 1) \o Assert("active", 0) \o Assert("retained", 0))

StaleRelease == Alone(
  ReserveRunning(1, 1) \o Finish("Completed", 1) \o Expect("drop", 1)
  \o Expect("reserve", 1) \o Refused("release", 1) \o Assert("current", 2)
  \o Expect("queue", 2) \o Expect("start", 2) \o Finish("Completed", 2) \o Expect("drop", 2))

QuiesceRejectsAdmission == Alone(
  ReserveRunning(1, 1) \o Expect("quiesce", 0) \o Assert("Quiescing", 0)
  \o Refused("reserve", 2) \o Shutdown \o Assert("pending", 1)
  \o Assert("cancellation requested", 1)
  \o Finish("Cancelled", 1) \o Expect("drop", 1) \o ShutdownClosed)

ExecutorPanic == Alone(
  ReserveRunning(1, 1) \o Expect("panic", 1) \o Assert("terminal Failed", 1)
  \o Expect("release", 1) \o Expect("drop", 1) \o ShutdownClosed)

RepeatedShutdown == Alone(
  Shutdown \o Keep("facts", 0) \o ShutdownClosed \o Assert("facts unchanged", 0))

CancelCompleteRace == Race(ReserveRunning(1, 1),
  Attempt("Cancelled", 1), Attempt("Completed", 1),
  Assert("one winner", 1) \o Expect("release", 1) \o Expect("drop", 1))

\* The admission is only looked at: its ticket and lease go at once.
AdmitQuiesceRace == Race(<< >>,
  Attempt("reserve", 1) \o Expect("drop", 1), Expect("quiesce", 0),
  Assert("Quiescing", 0) \o Assert("active if admitted", 1) \o Refused("reserve", 2))

ProgressTerminalRace ==
  LET Publish(i) == Attempt("publish", 1) IN Race(ReserveRunning(1, 1),
  Times(PublishLimit, Publish), Attempt("Completed", 1),
  Assert("not starved", 0) \o Assert("Terminal", 1)
  \o Expect("release", 1) \o Expect("drop", 1) \o ShutdownClosed)

-----------------------------------------------------------------------------
(* The runners of compositional_lifecycle.rs that ReferenceAdapter passes. *)

TransitionChain == Alone(
  Expect("reserve", 1) \o Assert("Reserved", 1)
  \o RefusedAll(<<"start", "release", "Completed">>, 1)
  \o Expect("queue", 1) \o Assert("Queued", 1)
  \o RefusedAll(<<"queue", "release", "Completed">>, 1)
  \o Expect("start", 1) \o Assert("Running", 1)
  \o RefusedAll(<<"start", "queue", "release">>, 1)
  \o Expect("Completed", 1) \o Assert("Terminal", 1)
  \o RefusedAll(<<"Failed", "queue", "start">>, 1)
  \o Expect("release", 1) \o Assert("Released", 1)
  \o RefusedAll(<<"release", "queue", "start", "Failed">>, 1))

\* complete_and_release on a stale lease stops at its first call.
RegistryIdentity ==
  LET CompleteAndRelease(n) == Expect("queue", n) \o Expect("start", n) \o Finish("Completed", n)
  IN Alone(
  Expect("reserve", 1) \o Refused("reserve", 1) \o Assert("active", 1)
  \o CompleteAndRelease(1) \o Expect("drop", 1)
  \o Expect("reserve", 1) \o Refused("queue", 1) \o Assert("current", 2)
  \o CompleteAndRelease(2) \o Expect("drop", 2))

RegistryExhausted == Alone(UsedUp \o Refused("reserve", 1) \o Assert("active", 0))

StillOwned(n) ==
  Assert("active", 1) \o Assert("current", n) \o Assert("Running", n)
  \o Assert("cancellation requested", n)

ConsumerCancellation == Alone(
  ReserveRunning(1, 1) \o Expect("drop", 1) \o StillOwned(1) \o Finish("Cancelled", 1)
  \o ReserveRunning(2, 2) \o ConsumerDropped(2) \o StillOwned(2) \o Finish("Cancelled", 2))

TerminalAuthority == Race(
  ReserveRunning(1, 1) \o Expect("Completed", 1) \o Keep("snapshot", 1)
  \o Assert("terminal Completed", 1) \o Refused("Failed", 1) \o Assert("snapshot unchanged", 1)
  \o Expect("release", 1) \o ReserveRunning(2, 2),
  Attempt("Cancelled", 2), Attempt("Completed", 2),
  Assert("one winner", 2) \o Assert("winner's class", 2) \o Expect("release", 2))

WaiterControl == Alone(
  ReserveRunning(1, 1) \o Keep("snapshot", 1) \o Assert("Running", 1) \o Assert("undecided", 1)
  \o Assert("waiter_timeout", 1) \o Assert("snapshot unchanged", 1)
  \o Expect("request_cancel", 1) \o Assert("cancellation requested", 1) \o Finish("Cancelled", 1))

\* finish of TaskReapingAdapter, which drops the ticket after the release.
Reap(n) == Finish("Completed", n) \o Expect("drop", n)

\* What still runs finishes in the opposite order of its start.
TaskReaping ==
  LET StartOne(i) == ReserveRunning(i, i) \o Assert("active", i) \o Assert("bounded", 0)
      FinishOne(i) == Reap(Concurrent + 1 - i) \o Assert("bounded", 0)
      Reaped == Assert("active", 0) \o Assert("retained", 0)
      History(i) == ReserveRunning(Concurrent + i, Concurrent + i) \o Reap(Concurrent + i) \o Reaped
  IN Alone(Times(Concurrent, StartOne) \o Times(Concurrent, FinishOne) \o Reaped
           \o Times(Historical, History) \o ShutdownClosed)

-----------------------------------------------------------------------------

ReferenceSuites ==
  [ExactTransitionChain |-> ExactTransitionChain, TicketDropCancels |-> TicketDropCancels,
   ExplicitConsumerDrop |-> ExplicitConsumerDrop,
   OneAuthoritativeTerminal |-> OneAuthoritativeTerminal, WaiterTimeout |-> WaiterTimeout,
   UnreadProgress |-> UnreadProgress, DuplicateIds |-> DuplicateIds,
   SequenceExhaustion |-> SequenceExhaustion, StaleRelease |-> StaleRelease,
   QuiesceRejectsAdmission |-> QuiesceRejectsAdmission, ExecutorPanic |-> ExecutorPanic,
   RepeatedShutdown |-> RepeatedShutdown, CancelCompleteRace |-> CancelCompleteRace,
   AdmitQuiesceRace |-> AdmitQuiesceRace, ProgressTerminalRace |-> ProgressTerminalRace,
   TransitionChain |-> TransitionChain, RegistryIdentity |-> RegistryIdentity,
   RegistryExhausted |-> RegistryExhausted, ConsumerCancellation |-> ConsumerCancellation,
   TerminalAuthority |-> TerminalAuthority, WaiterControl |-> WaiterControl,
   TaskReaping |-> TaskReaping]

SuiteInit == Init /\ SuiteStart /\ saved = None

Caller == CHOOSE c \in ShutdownCallers : TRUE
Leased(n) == FirstSequence + n - 1

\* The call a step makes on the adapter.
Call(step) ==
  LET s == Leased(step.of)
      op == attempts[s].operation
  IN
  \/ step.verb = "reserve" /\ step.of \in OperationIds /\ Reserve(step.of)
  \/ step.verb = "queue" /\ Queue(op, s)
  \/ step.verb = "start" /\ Start(op, s)
  \/ step.verb = "publish" /\ PublishProgress(op, s)
  \/ step.verb \in TerminalClasses /\ TerminalInner(op, s, step.verb)
  \/ step.verb = "panic" /\ RecordExecutorPanic(op, s)
  \/ step.verb = "release" /\ Release(op, s)
  \/ step.verb = "request_cancel" /\ RequestCancel(s)
  \/ step.verb = "consumer_drop" /\ ConsumerDrop(s)
  \/ step.verb = "drop" /\ TicketDrop(s)
  \/ step.verb = "quiesce" /\ Quiesce
  \/ step.verb = "shutdown" /\ ShutdownQuiesce(Caller)
  \/ step.verb = "finish shutdown" /\ ShutdownFinish(Caller)
IsRefused(step) == ~ENABLED Call(step)

ClosedAndEmpty(f) ==
  /\ f.lifecycle = "Closed" /\ f.activeOperations = 0 /\ f.retainedTasks = 0
  /\ f.joinedWorkers = f.expectedWorkers

\* What an assertion reads from the getters and the snapshots, and demands.
Holds(claim, n) ==
  LET attempt == attempts[Leased(n)]
      f == facts[Caller]
      winner == IF got["left"] = "ok" THEN "Cancelled" ELSE "Completed"
  IN
  CASE claim \in Phases -> attempt.phase = claim
    [] claim = "cancellation requested" -> attempt.cancellationRequested
    [] claim = "terminal Completed" -> attempt.phase = "Terminal" /\ attempt.terminal.class = "Completed"
    [] claim = "terminal Failed" -> attempt.phase = "Terminal" /\ attempt.terminal.class = "Failed"
    [] claim = "undecided" -> attempt.terminal = None
    [] claim = "one unread" -> attempt.progress = <<1>>
    [] claim = "newest progress" ->
         /\ Len(attempt.progress) = ProgressCapacity
         /\ attempt.progress[ProgressCapacity] = PublishLimit
    [] claim = "snapshot unchanged" -> attempt = saved
    [] claim = "waiter_timeout" -> Leased(n) \in Issued
    [] claim = "active" -> Cardinality(DOMAIN active) = n
    [] claim = "retained" -> retainedTasks = n
    [] claim = "bounded" -> retainedTasks <= Cardinality(DOMAIN active)
    [] claim = "current" -> active[attempt.operation] = Leased(n)
    [] claim = "Quiescing" -> lifecycle = "Quiescing"
    [] claim = "closed and empty" -> ClosedAndEmpty(f)
    [] claim = "facts unchanged" -> f = saved
    [] claim = "pending" ->
         /\ f.lifecycle = "Quiescing" /\ f.activeOperations = n /\ f.retainedTasks = n
         /\ f.expectedWorkers > f.joinedWorkers
    [] claim = "one winner" -> got["left"] # got["right"] /\ attempt.phase = "Terminal"
    [] claim = "winner's class" -> attempt.terminal.class = winner
    [] claim = "active if admitted" ->
         IF got["left"] = "ok" THEN DOMAIN active = {n} /\ attempts[active[n]].cancellationRequested
         ELSE DOMAIN active = {}
    [] claim = "not starved" -> got["right"] = "ok"

-----------------------------------------------------------------------------

\* A call is accepted and takes effect, or refused and leaves the adapter be.
Calls(t) ==
  /\ Runs(t, {"ok", "err", "either"})
  /\ \/ Call(Current(t)) /\ Answered(t, TRUE)
     \/ IsRefused(Current(t)) /\ Answered(t, FALSE) /\ UNCHANGED vars
  /\ UNCHANGED saved

Asserts(t) ==
  /\ Runs(t, {"claim"})
  /\ Asserted(t, Holds(Current(t).verb, Current(t).of))
  /\ UNCHANGED <<vars, saved>>

Keeps(t) ==
  /\ Runs(t, {"keep"})
  /\ saved' = IF Current(t).verb = "facts" THEN facts[Caller] ELSE attempts[Leased(Current(t).of)]
  /\ GoesOn(t)
  /\ UNCHANGED <<vars, suite, got, failed>>

Joins == JoinsRacers /\ UNCHANGED <<vars, saved>>

Over == ScriptEnded("main") /\ UNCHANGED <<vars, suiteVars, saved>>

SuiteNext ==
  \/ \E t \in Threads : Calls(t) \/ Asserts(t) \/ Keeps(t)
  \/ Joins
  \/ Over

SuiteSpec == SuiteInit /\ [][SuiteNext]_<<vars, suiteVars, saved>>

-----------------------------------------------------------------------------
(* Properties *)

\* The reference adapter passes every suite in every schedule of its racers: no
\* call that must succeed is refused, none that must be refused gets through,
\* and no assertion fails.  The repository runs each race in one schedule at a
\* time, whichever the operating system gives it.
SuitesPass == ~failed

=============================================================================
