----------------------------- MODULE BridgeSuites -----------------------------
(***************************************************************************)
(* The conformance suites that run on ReferenceSupervisorBridge, each as   *)
(* the client script it is.  The scripts are the clients of                *)
(* SupervisorBridge: its worker and shutdown threads run by themselves,    *)
(* and meet the scripts at the rendezvous of the channels.  "any" is no    *)
(* suite but every client that keeps to their protocol: each handle is     *)
(* commanded, awaited and let exit, in any order across handles.           *)
(***************************************************************************)
EXTENDS SupervisorBridge, SuiteScripts

CONSTANTS
  FreeSequences  \* bound of the model: reservations of "any"

Workers == Cardinality(OperationIds)
bridgeVars == <<vars, suiteVars>>

-----------------------------------------------------------------------------
(* What the suites are made of. *)

\* reserve: its first critical section decides, the spawn and the second follow.
Reserved(n) == Expect("reserve", n) \o Await("retain", n)
\* wait_released: taking the receiver, then the announcement and the lookup.
WaitReleased(n) == Await("take receiver", n) \o Await("wait_released", n)
Released(n, told) == Await(told, n) \o WaitReleased(n) \o Assert(told, n)
\* wait_failed_release, after the command that run_controlled_panicking_operation sends.
PanicsAndExits(n) == Await("Failed", n) \o WaitReleased(n) \o Await("allow_worker_exit", n)
Started(h) == Expect("begin_shutdown", h) \o Await("wait_started", h)
Closed(h) == Await("wait", h) \o Assert("closed outcome", h)
\* From a pending shutdown to its outcome, with one worker on its way out.
Drains(h, n, told) ==
  Assert("pending", h) \o Released(n, told) \o Assert("active", 0) \o Assert("retained", 1)
  \o Assert("pending", h) \o Await("allow_worker_exit", n) \o Closed(h)
WhenAdmitted(steps) == Step("admitted", Len(steps), "branch") \o steps

AdmissionRace == Race(<< >>,
  Attempt("reserve", 1) \o Await("retain", 1), Expect("quiesce", 0),
  Assert("Quiescing", 0) \o Assert("active if admitted", 1)
  \o WhenAdmitted(Assert("cancellation requested", 1) \o Started(1)
                  \o Drains(1, 1, "Cancelled") \o Assert("facts", 1))
  \o Refused("reserve", 2))

ActiveShutdown == Alone(
  Reserved(1) \o Started(1) \o Assert("Quiescing", 0) \o Assert("active", 1)
  \o Assert("cancellation requested", 1) \o Refused("reserve", 2)
  \o Drains(1, 1, "Cancelled") \o Assert("facts", 1))

\* One publication more than the window holds, for the 32 of the suite.
SaturatedProgress ==
  LET Publish(i) == Expect("publish", 1) IN Alone(
  Reserved(1) \o Times(ProgressCapacity + 1, Publish) \o Assert("window bounded", 1)
  \o Started(1) \o Drains(1, 1, "Completed"))

\* The producer stops at the first refusal, or when its 1024 are published.
ProgressTerminalRace ==
  LET Publish(i) == Attempt("publish", 1) IN Race(
  Reserved(1) \o Started(1),
  Times(ProgressCapacity + 1, Publish), Await("Completed", 1),
  WaitReleased(1) \o Assert("Completed", 1) \o Await("allow_worker_exit", 1) \o Closed(1))

PanicShutdown == Alone(
  Reserved(1) \o PanicsAndExits(1) \o Assert("Failed", 1) \o Started(1) \o Closed(1))

\* Mutant: each worker is let exit before its release is awaited.
StableShutdownExitFirst ==
  LET Finish(i) == Await("Completed", i) \o Await("allow_worker_exit", i) \o WaitReleased(i)
  IN Alone(Times(Workers, Reserved) \o Started(1) \o Times(Workers, Finish) \o Closed(1))

\* The workers finish in the opposite order of their start.
StableShutdown ==
  LET FinishNth(i) == LET n == Workers + 1 - i IN
        Released(n, "Completed") \o Await("allow_worker_exit", n)
  IN Alone(
  Times(Workers, Reserved) \o Started(1) \o Times(Workers, FinishNth) \o Closed(1)
  \o Assert("joined in another order", 1)
  \o Started(2) \o Closed(2) \o Assert("same outcome", 2))

BridgeScripts ==
  [AdmissionRace |-> AdmissionRace, ActiveShutdown |-> ActiveShutdown,
   SaturatedProgress |-> SaturatedProgress, ProgressTerminalRace |-> ProgressTerminalRace,
   PanicShutdown |-> PanicShutdown, StableShutdown |-> StableShutdown,
   any |-> Alone(<< >>)]

-----------------------------------------------------------------------------
(* The clients. *)

\* A call that returns Ok or Err at once.
Call(step) ==
  \/ step.verb = "reserve" /\ step.of \in OperationIds /\ Reserve(step.of)
  \/ step.verb = "publish" /\ PublishProgress(step.of)
  \/ step.verb = "begin_shutdown" /\ step.of \in Shutdowns /\ BeginShutdown(step.of)
  \/ step.verb = "quiesce" /\ Quiesce
IsRefused(step) == ~ENABLED Call(step)

\* A call that meets another thread, or waits for what one has sent.
Meeting(step) ==
  \/ step.verb = "retain" /\ RetainTask(step.of)
  \/ step.verb \in TerminalClasses /\ Command(step.of, step.verb)
  \/ step.verb = "take receiver" /\ AwaitReleased(step.of)
  \/ step.verb = "wait_released" /\ ReadReleased(step.of)
  \/ step.verb = "allow_worker_exit" /\ AllowExit(step.of)
  \/ step.verb = "wait_started" /\ step.of \in Shutdowns /\ WaitStarted(step.of)
  \/ step.verb = "wait" /\ shutdown[step.of] = "done" /\ UNCHANGED vars

Holds(claim, n) ==
  CASE claim = "Quiescing" -> lifecycle = "Quiescing"
    [] claim = "active" -> Cardinality(DOMAIN active) = n
    [] claim = "retained" -> Cardinality(DOMAIN tasks) = n
    [] claim = "active if admitted" -> DOMAIN active = IF got["left"] = "ok" THEN {n} ELSE {}
    [] claim = "cancellation requested" -> records[n].cancellationRequested
    [] claim = "window bounded" -> records[n].progress <= ProgressCapacity
    [] claim \in TerminalClasses -> returned[n].phase = "Released" /\ returned[n].terminal = claim
    [] claim = "pending" -> shutdown[n] \notin {"done"} \cup ShutdownPanics
    [] claim = "closed outcome" -> Validates(outcome[n]) /\ outcome[n].expected # << >>
    [] claim = "facts" -> outcome[n].facts = Facts
    [] claim = "joined in another order" -> Workers < 10 \/ outcome[n].expected # outcome[n].joined
    [] claim = "same outcome" -> outcome[n] = outcome[1]

Scripted(t) ==
  \/ \/ Call(Current(t)) /\ Answered(t, TRUE)
     \/ IsRefused(Current(t)) /\ Answered(t, FALSE) /\ UNCHANGED vars
  \/ Meeting(Current(t)) /\ Returned(t)
  \/ Asserted(t, Holds(Current(t).verb, Current(t).of)) /\ UNCHANGED vars
  \/ /\ Runs(t, {"branch"})
     /\ pc' = [pc EXCEPT ![t] = @ + 1 + IF got["left"] = "ok" THEN 0 ELSE Current(t).of]
     /\ UNCHANGED <<vars, suite, got, failed>>

ClientThread(t) ==
  /\ Runs(t, {"ok", "err", "either", "returns", "claim", "branch"})
  /\ Scripted(t)

Joins == JoinsRacers /\ UNCHANGED vars

\* What the owner of a handle owes it, and what it does if it likes.
Owed(s) == \E c \in TerminalClasses : Command(s, c)
OwedWait(s) == AwaitReleased(s) \/ ReadReleased(s)
FreeReserve(op) == nextSequence <= FreeSequences /\ op <= FreeSequences /\ Reserve(op)

FreeClient ==
  /\ suite = "any"
  /\ \/ \E op \in OperationIds : FreeReserve(op)
     \/ \E s \in Issued : RetainTask(s) \/ Owed(s) \/ OwedWait(s) \/ AllowExit(s)
     \/ Quiesce
     \/ \E h \in Shutdowns : BeginShutdown(h) \/ WaitStarted(h)
  /\ UNCHANGED suiteVars

-----------------------------------------------------------------------------
(* The threads of the bridge. *)

\* Workers are joined in the order of their names, in which worker-10 comes
\* right after worker-1.
NameOrder(s) == IF s < 10 THEN 20 * s ELSE (20 * (s \div 10) + 1) + (s % 10)

WorkerThread(s) == (Settle(s) \/ AnnounceReleased(s) \/ WorkerPanics(s)) /\ UNCHANGED suiteVars

NextInName(h, s) == \A r \in toJoin[h] : NameOrder(s) <= NameOrder(r)

ShutdownThread(h) ==
  /\ \/ ShutdownQuiesces(h) \/ Waits(h) \/ TakeHandles(h) \/ HandleIsGone(h) \/ RecordClosed(h)
     \/ \E s \in Issued : NextInName(h, s) /\ (JoinWorker(h, s) \/ JoinFails(h, s))
  /\ UNCHANGED suiteVars

Wakes(h) == SpuriousWakeup(h) /\ UNCHANGED suiteVars

Over ==
  /\ IF suite = "any" THEN Finished ELSE ScriptEnded("main") /\ UNCHANGED vars
  /\ UNCHANGED suiteVars

SuiteNext ==
  \/ \E t \in Threads : ClientThread(t)
  \/ Joins
  \/ FreeClient
  \/ \E s \in Issued : WorkerThread(s)
  \/ \E h \in Shutdowns : ShutdownThread(h) \/ Wakes(h)
  \/ Over

\* Every thread is scheduled, and no wait of a suite runs into WITNESS_TIMEOUT.
\* The clients of "any" reserve, quiesce and shut down when they like, and do
\* with a handle they were given what every suite does.
SuiteFairness ==
  /\ \A t \in Threads : WF_bridgeVars(ClientThread(t))
  /\ WF_bridgeVars(Joins)
  /\ \A s \in Attempts : WF_bridgeVars(WorkerThread(s))
  /\ \A h \in Shutdowns : WF_bridgeVars(ShutdownThread(h))
  /\ \A s \in 1 .. FreeSequences :
       /\ WF_bridgeVars(suite = "any" /\ RetainTask(s) /\ UNCHANGED suiteVars)
       /\ WF_bridgeVars(suite = "any" /\ Owed(s) /\ UNCHANGED suiteVars)
       /\ WF_bridgeVars(suite = "any" /\ OwedWait(s) /\ UNCHANGED suiteVars)
       /\ WF_bridgeVars(suite = "any" /\ AllowExit(s) /\ UNCHANGED suiteVars)
  /\ \A h \in Shutdowns :
       WF_bridgeVars(suite = "any" /\ WaitStarted(h) /\ UNCHANGED suiteVars)

SuiteSpec == Init /\ SuiteStart /\ [][SuiteNext]_bridgeVars /\ SuiteFairness

-----------------------------------------------------------------------------
(* Properties *)

\* The reference bridge passes every suite in every schedule of the clients, the
\* workers and the shutdown threads: try_complete never sees an outcome before
\* the last worker may exit, every outcome is closed and valid, and a repeated
\* shutdown reports what the first did.  No expect of a worker or of a shutdown
\* thread fails either, whatever clients of their protocol do.
SuitesPass == ~failed /\ NoThreadPanics

\* Every suite comes to its end: none of its waits, which a timeout would turn
\* into a failure of the suite, goes unanswered.
SuitesEnd == suite # "any" ~> ScriptEnded("main")

=============================================================================
