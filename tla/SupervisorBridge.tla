--------------------------- MODULE SupervisorBridge ---------------------------
(***************************************************************************)
(* ReferenceSupervisorBridge (compositional_lifecycle.rs): a supervisor    *)
(* with real threads.  Each admitted attempt has a worker thread that is   *)
(* driven over three rendezvous channels; each begin_shutdown has a thread *)
(* that quiesces, waits on a condition variable until nothing is active,   *)
(* joins the workers outside the mutex and then closes.  One action is one *)
(* critical section, one rendezvous or one join.  Workers, and the handles *)
(* of their operations, are named by the sequence of their attempt.        *)
(***************************************************************************)
EXTENDS Integers, Sequences, FiniteSets

CONSTANTS
  OperationIds,
  SequenceLimit,     \* sequences run from 1 to below this (u64::MAX in the code)
  ProgressCapacity,
  Shutdowns,         \* calls of begin_shutdown, each with its thread and witness
  Freedoms,          \* what clients do that the suites never do
  None

TerminalClasses == {"Completed", "Cancelled", "Failed"}
Attempts == 1 .. (SequenceLimit - 1)

ASSUME SequenceAssumption == SequenceLimit \in Nat \ {0}
ASSUME CapacityAssumption == ProgressCapacity \in Nat
\* "overlap": begin_shutdown while another shutdown is under way; "timeout": a
\* wait on a handle or a witness gives up; "drop": a handle is dropped.
ASSUME FreedomsAssumption == Freedoms \subseteq {"overlap", "timeout", "drop"}
ASSUME NoneAssumption == None \notin TerminalClasses

VARIABLES
  \* ReferenceSupervisorState, guarded by the mutex
  lifecycle,
  nextSequence,
  records,     \* partial function: operation id -> OperationSnapshot
  active,      \* partial function: operation id -> sequence
  tasks,       \* partial function: sequence -> "owned" or "taken" JoinHandle
  expected,    \* expected_worker_ids
  joined,      \* joined_worker_ids
  \* threads and channels
  operationOf, \* of each issued sequence: the id its handle and worker name
  worker,      \* of each issued sequence: where its worker is
  class,       \* of each issued sequence: what its worker was told to report
  handle,      \* of each issued sequence: the three channel ends of its handle
  returned,    \* of each issued sequence: what wait_released returned
  shutdown,    \* of each shutdown: where its thread is
  toJoin,      \* of each shutdown: workers whose handles it took, not yet joined
  reaped,      \* of each shutdown: workers it joined, in order
  outcome      \* of each shutdown: the ShutdownOutcome it sent

state == <<lifecycle, nextSequence, records, active, tasks, expected, joined>>
clients == <<operationOf, worker, class, handle, returned>>
closers == <<shutdown, toJoin, reaped, outcome>>
vars == <<state, clients, closers>>

Issued == 1 .. (nextSequence - 1)

WorkerPcs ==
  {"unspawned",     \* reserve has admitted the attempt and not yet retained it
   "commandRecv", "settling", "releasedSend", "exitRecv",
   "exited", "panicked", "joined"}

\* A shutdown thread that ends in one of these panicked.
ShutdownPanics ==
  {"abandoned",      \* nobody received the started message
   "noHandle",       \* a retained task had no JoinHandle
   "workerPanicked", \* a joined worker had panicked
   "unheard"}        \* nobody was left to receive the outcome

ShutdownPcs ==
  {"idle", "quiescing", "starting", "draining", "waiting", "joining", "done"} \cup ShutdownPanics

Snapshot ==
  [sequence : Attempts, phase : {"Running", "Released"}, cancellationRequested : BOOLEAN,
   terminal : TerminalClasses \cup {None}, terminalSequence : Attempts \cup {0},
   progress : 0 .. ProgressCapacity]

NoSnapshot ==
  [sequence |-> 0, phase |-> "Running", cancellationRequested |-> FALSE,
   terminal |-> None, terminalSequence |-> 0, progress |-> 0]

Handle ==
  [command : {"kept", "gone"}, released : {"kept", "waiting", "received", "gone"},
   allowExit : {"kept", "gone"}]

Facts ==
  [lifecycle |-> lifecycle,
   activeOperations |-> Cardinality(DOMAIN active),
   retainedTasks |-> Cardinality(DOMAIN tasks),
   expectedWorkers |-> Len(expected),
   joinedWorkers |-> Len(joined)]

NoOutcome == [facts |-> << >>, expected |-> << >>, joined |-> << >>]

TypeOK ==
  /\ lifecycle \in {"Running", "Quiescing", "Closed"}
  /\ nextSequence \in 1 .. SequenceLimit
  /\ DOMAIN records \subseteq OperationIds
  /\ \A op \in DOMAIN records : records[op] \in Snapshot
  /\ DOMAIN active \subseteq DOMAIN records
  /\ \A op \in DOMAIN active : active[op] \in Issued
  /\ DOMAIN tasks \subseteq Issued
  /\ \A s \in DOMAIN tasks : tasks[s] \in {"owned", "taken"}
  /\ expected \in Seq(Issued) /\ joined \in Seq(Issued)
  /\ operationOf \in [Issued -> OperationIds]
  /\ worker \in [Issued -> WorkerPcs]
  /\ class \in [Issued -> TerminalClasses \cup {None}]
  /\ handle \in [Issued -> Handle]
  /\ returned \in [Issued -> Snapshot \cup {NoSnapshot}]
  /\ shutdown \in [Shutdowns -> ShutdownPcs]
  /\ toJoin \in [Shutdowns -> SUBSET Issued]
  /\ reaped \in [Shutdowns -> Seq(Issued)]
  /\ DOMAIN outcome = Shutdowns

EmptyMap == [x \in {} |-> x]

Init ==
  /\ lifecycle = "Running"
  /\ nextSequence = 1
  /\ records = EmptyMap
  /\ active = EmptyMap
  /\ tasks = EmptyMap
  /\ expected = << >> /\ joined = << >>
  /\ operationOf = EmptyMap
  /\ worker = EmptyMap
  /\ class = EmptyMap
  /\ handle = EmptyMap
  /\ returned = EmptyMap
  /\ shutdown = [h \in Shutdowns |-> "idle"]
  /\ toJoin = [h \in Shutdowns |-> {}]
  /\ reaped = [h \in Shutdowns |-> << >>]
  /\ outcome = [h \in Shutdowns |-> NoOutcome]

Extend(f, x, v) == [y \in DOMAIN f \cup {x} |-> IF y = x THEN v ELSE f[y]]
Without(f, S) == [y \in DOMAIN f \ S |-> f[y]]

\* notify_all: every shutdown thread in the wait set looks at the state again.
Notified(pcs) == [h \in Shutdowns |-> IF pcs[h] = "waiting" THEN "draining" ELSE pcs[h]]

-----------------------------------------------------------------------------
(* Admission: the first critical section of reserve, then the spawn of the *)
(* worker, which blocks on its command channel, and the second section.    *)

Admission(op) ==
  /\ nextSequence' = nextSequence + 1
  /\ active' = Extend(active, op, nextSequence)
  /\ records' = Extend(records, op, [NoSnapshot EXCEPT !.sequence = nextSequence])
  /\ expected' = Append(expected, nextSequence)
  /\ operationOf' = Extend(operationOf, nextSequence, op)
  /\ worker' = Extend(worker, nextSequence, "unspawned")
  /\ class' = Extend(class, nextSequence, None)
  /\ handle' = Extend(handle, nextSequence,
       [command |-> "kept", released |-> "kept", allowExit |-> "kept"])
  /\ returned' = Extend(returned, nextSequence, NoSnapshot)
  /\ UNCHANGED <<lifecycle, tasks, joined, closers>>

\* Mutants: no check for duplicates; admission until closed.
ReserveDuplicate(op) == lifecycle = "Running" /\ nextSequence < SequenceLimit /\ Admission(op)
ReserveUntilClosed(op) ==
  /\ lifecycle # "Closed"
  /\ op \notin DOMAIN active
  /\ nextSequence < SequenceLimit
  /\ Admission(op)

Reserve(op) ==
  /\ lifecycle = "Running"
  /\ op \notin DOMAIN active
  /\ nextSequence < SequenceLimit
  /\ Admission(op)

\* Mutant: tasks are filed under the operation id instead of the worker's name.
RetainedByOperation(s) ==
  Extend(Without(tasks, {t \in Issued : operationOf[t] = operationOf[s]}), s, "owned")

Retained(s) == Extend(tasks, s, "owned")

RetainTask(s) ==
  /\ s \in Issued
  /\ worker[s] = "unspawned"
  /\ worker' = [worker EXCEPT ![s] = "commandRecv"]
  /\ tasks' = Retained(s)
  /\ UNCHANGED <<lifecycle, nextSequence, records, active, expected, joined,
                 operationOf, class, handle, returned, closers>>

-----------------------------------------------------------------------------
(* The worker and the client that holds its handle.  Every channel end of  *)
(* a handle is taken by its first use.                                     *)

\* request_cancelled_release, request_completed_release and the Panic command,
\* which the worker catches and reports as Failed.
Command(s, c) ==
  /\ s \in Issued
  /\ handle[s].command = "kept"
  /\ worker[s] = "commandRecv"
  /\ handle' = [handle EXCEPT ![s].command = "gone"]
  /\ worker' = [worker EXCEPT ![s] = "settling"]
  /\ class' = [class EXCEPT ![s] = c]
  /\ UNCHANGED <<state, operationOf, returned, closers>>

\* The worker finds its record, and its slot, by the operation id.
Settlement(s) ==
  LET op == operationOf[s] IN
  /\ worker[s] = "settling"
  /\ worker' = [worker EXCEPT ![s] = "releasedSend"]
  /\ records' = [records EXCEPT ![op] =
       [@ EXCEPT !.phase = "Released", !.terminal = class[s], !.terminalSequence = records[op].sequence]]
  /\ active' = Without(active, {op})
  /\ UNCHANGED <<lifecycle, nextSequence, tasks, expected, joined, operationOf,
                 class, handle, returned, toJoin, reaped, outcome>>

\* Mutant: the condition variable is not notified.
SettleSilently(s) == s \in Issued /\ Settlement(s) /\ UNCHANGED shutdown

Settle(s) ==
  /\ s \in Issued
  /\ Settlement(s)
  /\ shutdown' = Notified(shutdown)

AwaitReleased(s) ==
  /\ s \in Issued
  /\ worker[s] # "unspawned"
  /\ handle[s].released = "kept"
  /\ handle' = [handle EXCEPT ![s].released = "waiting"]
  /\ UNCHANGED <<state, operationOf, worker, class, returned, closers>>

AnnounceReleased(s) ==
  /\ s \in Issued
  /\ worker[s] = "releasedSend"
  /\ handle[s].released = "waiting"
  /\ worker' = [worker EXCEPT ![s] = "exitRecv"]
  /\ handle' = [handle EXCEPT ![s].released = "received"]
  /\ UNCHANGED <<state, operationOf, class, returned, closers>>

Lookup(s) ==
  /\ handle' = [handle EXCEPT ![s].released = "gone"]
  /\ returned' = [returned EXCEPT ![s] = records[operationOf[s]]]
  /\ UNCHANGED <<state, operationOf, worker, class, closers>>

\* Mutant: the lookup does not wait for the announcement.
ReadReleasedAtOnce(s) ==
  s \in Issued /\ handle[s].released \in {"waiting", "received"} /\ Lookup(s)

\* Having received, wait_released takes the mutex and looks the record up by id.
ReadReleased(s) ==
  /\ s \in Issued
  /\ handle[s].released = "received"
  /\ Lookup(s)

AllowExit(s) ==
  /\ s \in Issued
  /\ worker[s] = "exitRecv"
  /\ handle[s].allowExit = "kept"
  /\ worker' = [worker EXCEPT ![s] = "exited"]
  /\ handle' = [handle EXCEPT ![s].allowExit = "gone"]
  /\ UNCHANGED <<state, operationOf, class, returned, closers>>

\* remove(0) at capacity and push; only the length of the window is kept here.
Pushed(length) == IF length = ProgressCapacity THEN length ELSE length + 1

Push(s) ==
  /\ records' = [records EXCEPT ![operationOf[s]].progress = Pushed(@)]
  /\ UNCHANGED <<lifecycle, nextSequence, active, tasks, expected, joined, clients, closers>>

\* Mutant: the phase of the record is not looked at.
PublishProgressLate(s) == s \in Issued /\ worker[s] # "unspawned" /\ Push(s)

\* With capacity 0 the caller panics in remove(0) instead.
PublishProgress(s) ==
  /\ s \in Issued
  /\ worker[s] # "unspawned"
  /\ records[operationOf[s]].phase = "Running"
  /\ ProgressCapacity > 0
  /\ Push(s)

\* recv_timeout gives up: wait_released drops the receiver it had taken.
TimeoutReleased(s) ==
  /\ "timeout" \in Freedoms
  /\ s \in Issued
  /\ handle[s].released = "waiting"
  /\ handle' = [handle EXCEPT ![s].released = "gone"]
  /\ UNCHANGED <<state, operationOf, worker, class, returned, closers>>

\* The last clone of a handle goes, and with it what is left of its channels.
DropHandle(s) ==
  /\ "drop" \in Freedoms
  /\ s \in Issued
  /\ worker[s] # "unspawned"
  /\ handle[s].released \in {"kept", "gone"}
  /\ handle' = [handle EXCEPT ![s] =
       [command |-> "gone", released |-> "gone", allowExit |-> "gone"]]
  /\ UNCHANGED <<state, operationOf, worker, class, returned, closers>>

\* The three expects of the worker on a peer that is gone.
WorkerPanics(s) ==
  /\ s \in Issued
  /\ \/ worker[s] = "commandRecv" /\ handle[s].command = "gone"
     \/ worker[s] = "releasedSend" /\ handle[s].released = "gone"
     \/ worker[s] = "exitRecv" /\ handle[s].allowExit = "gone"
  /\ worker' = [worker EXCEPT ![s] = "panicked"]
  /\ UNCHANGED <<state, operationOf, class, handle, returned, closers>>

-----------------------------------------------------------------------------
(* Shutdown: the client, the thread of begin_shutdown and finish_shutdown. *)

\* quiesce_inner, under the mutex; its notify_all comes with it.
QuiesceInner ==
  /\ lifecycle' = IF lifecycle = "Running" THEN "Quiescing" ELSE lifecycle
  /\ records' = [op \in DOMAIN records |->
       IF lifecycle = "Running" /\ op \in DOMAIN active
       THEN [records[op] EXCEPT !.cancellationRequested = TRUE] ELSE records[op]]
  /\ UNCHANGED <<nextSequence, active, tasks, expected, joined>>

\* quiesce called by a client; a second call only wakes the waiting threads.
Quiesce ==
  /\ lifecycle = "Running"
  /\ QuiesceInner
  /\ shutdown' = Notified(shutdown)
  /\ UNCHANGED <<clients, toJoin, reaped, outcome>>

Ended == {"done"} \cup ShutdownPanics

BeginShutdown(h) ==
  /\ shutdown[h] = "idle"
  /\ "overlap" \in Freedoms \/ \A g \in Shutdowns : shutdown[g] \in {"idle"} \cup Ended
  /\ shutdown' = [shutdown EXCEPT ![h] = "quiescing"]
  /\ UNCHANGED <<state, clients, toJoin, reaped, outcome>>

ShutdownQuiesces(h) ==
  /\ shutdown[h] = "quiescing"
  /\ QuiesceInner
  /\ shutdown' = [Notified(shutdown) EXCEPT ![h] = "starting"]
  /\ UNCHANGED <<clients, toJoin, reaped, outcome>>

\* The rendezvous of the thread's started_tx with wait_started.
WaitStarted(h) ==
  /\ shutdown[h] = "starting"
  /\ shutdown' = [shutdown EXCEPT ![h] = "draining"]
  /\ UNCHANGED <<state, clients, toJoin, reaped, outcome>>

StartFails(h) ==
  /\ "timeout" \in Freedoms
  /\ shutdown[h] = "starting"
  /\ shutdown' = [shutdown EXCEPT ![h] = "abandoned"]
  /\ UNCHANGED <<state, clients, toJoin, reaped, outcome>>

\* One turn of the loop of finish_shutdown while something is active.
Waits(h) ==
  /\ shutdown[h] = "draining"
  /\ DOMAIN active # {}
  /\ shutdown' = [shutdown EXCEPT ![h] = "waiting"]
  /\ UNCHANGED <<state, clients, toJoin, reaped, outcome>>

\* A condition variable may wake its waiter without a notification.
SpuriousWakeup(h) ==
  /\ shutdown[h] = "waiting"
  /\ shutdown' = [shutdown EXCEPT ![h] = "draining"]
  /\ UNCHANGED <<state, clients, toJoin, reaped, outcome>>

Take(h) ==
  /\ tasks' = [s \in DOMAIN tasks |-> "taken"]
  /\ toJoin' = [toJoin EXCEPT ![h] = DOMAIN tasks]
  /\ shutdown' = [shutdown EXCEPT ![h] = "joining"]
  /\ UNCHANGED <<lifecycle, nextSequence, records, active, expected, joined,
                 clients, reaped, outcome>>

\* Mutants: taken while something is active; a task another shutdown has taken is
\* skipped.
TakeHandlesEarly(h) ==
  shutdown[h] = "draining" /\ (\A s \in DOMAIN tasks : tasks[s] = "owned") /\ Take(h)
TakeHandlesLeft(h) ==
  /\ shutdown[h] = "draining"
  /\ DOMAIN active = {}
  /\ tasks' = [s \in DOMAIN tasks |-> "taken"]
  /\ toJoin' = [toJoin EXCEPT ![h] = {s \in DOMAIN tasks : tasks[s] = "owned"}]
  /\ shutdown' = [shutdown EXCEPT ![h] = "joining"]
  /\ UNCHANGED <<lifecycle, nextSequence, records, active, expected, joined,
                 clients, reaped, outcome>>

\* Nothing is active: take the JoinHandle of every retained task.
TakeHandles(h) ==
  /\ shutdown[h] = "draining"
  /\ DOMAIN active = {}
  /\ \A s \in DOMAIN tasks : tasks[s] = "owned"
  /\ Take(h)

\* The first task without a JoinHandle panics the thread, which then drops the
\* handles it had taken before it.
HandleIsGone(h) ==
  /\ shutdown[h] = "draining"
  /\ DOMAIN active = {}
  /\ \E s \in DOMAIN tasks : tasks[s] = "taken"
  /\ \E lost \in SUBSET {s \in DOMAIN tasks : tasks[s] = "owned"} :
       tasks' = [s \in DOMAIN tasks |-> IF s \in lost THEN "taken" ELSE tasks[s]]
  /\ shutdown' = [shutdown EXCEPT ![h] = "noHandle"]
  /\ UNCHANGED <<lifecycle, nextSequence, records, active, expected, joined,
                 clients, toJoin, reaped, outcome>>

\* The joins run outside the mutex, one at a time, in the order of the workers'
\* names; from ten workers on that is not the order of their sequences, so any
\* order is allowed here.
JoinWorker(h, s) ==
  /\ shutdown[h] = "joining"
  /\ s \in toJoin[h]
  /\ worker[s] = "exited"
  /\ worker' = [worker EXCEPT ![s] = "joined"]
  /\ toJoin' = [toJoin EXCEPT ![h] = @ \ {s}]
  /\ reaped' = [reaped EXCEPT ![h] = Append(@, s)]
  /\ UNCHANGED <<state, operationOf, class, handle, returned, shutdown, outcome>>

JoinFails(h, s) ==
  /\ shutdown[h] = "joining"
  /\ s \in toJoin[h]
  /\ worker[s] = "panicked"
  /\ shutdown' = [shutdown EXCEPT ![h] = "workerPanicked"]
  /\ UNCHANGED <<state, clients, toJoin, reaped, outcome>>

Members(list) == {list[i] : i \in DOMAIN list}

\* Mutant: the tasks it joined stay retained.
RemainingKept(h) == tasks

Remaining(h) == Without(tasks, Members(reaped[h]))

Close(h) ==
  /\ UNCHANGED <<nextSequence, records, active, expected, clients, toJoin, reaped>>
  /\ tasks' = Remaining(h)
  /\ joined' = joined \o reaped[h]
  /\ lifecycle' = "Closed"
  /\ outcome' = [outcome EXCEPT ![h] =
       [facts |-> Facts', expected |-> expected, joined |-> joined']]
  /\ \/ shutdown' = [shutdown EXCEPT ![h] = "done"]
     \/ "timeout" \in Freedoms /\ shutdown' = [shutdown EXCEPT ![h] = "unheard"]

\* Mutant: closing before the last join.
RecordClosedEarly(h) == shutdown[h] = "joining" /\ Close(h)

\* The last critical section, and the outcome it sends.
RecordClosed(h) ==
  /\ shutdown[h] = "joining"
  /\ toJoin[h] = {}
  /\ Close(h)

\* Every client has shut the supervisor down; nothing is left to do.
Finished ==
  /\ \A h \in Shutdowns : shutdown[h] = "done"
  /\ UNCHANGED vars

-----------------------------------------------------------------------------

ClientStep(s) ==
  \/ \E c \in TerminalClasses : Command(s, c)
  \/ AwaitReleased(s)
  \/ ReadReleased(s)
  \/ AllowExit(s)
  \/ PublishProgress(s)
  \/ TimeoutReleased(s)
  \/ DropHandle(s)

WorkerStep(s) ==
  \/ RetainTask(s)
  \/ Settle(s)
  \/ AnnounceReleased(s)
  \/ WorkerPanics(s)

ShutdownStep(h) ==
  \/ BeginShutdown(h)
  \/ ShutdownQuiesces(h)
  \/ WaitStarted(h)
  \/ StartFails(h)
  \/ Waits(h)
  \/ SpuriousWakeup(h)
  \/ TakeHandles(h)
  \/ HandleIsGone(h)
  \/ \E s \in Issued : JoinWorker(h, s) \/ JoinFails(h, s)
  \/ RecordClosed(h)

Next ==
  \/ \E op \in OperationIds : Reserve(op)
  \/ \E s \in Issued : ClientStep(s) \/ WorkerStep(s)
  \/ Quiesce
  \/ \E h \in Shutdowns : ShutdownStep(h)
  \/ Finished

Spec == Init /\ [][Next]_vars

-----------------------------------------------------------------------------
(* Properties *)

Settled(s) == class[s] # None /\ worker[s] # "settling"

\* The snapshot kept under an id is that of the latest attempt of the id: while
\* the attempt is active it is running, its worker has yet to settle it, and it
\* has been asked to cancel if the supervisor quiesces, whichever of admission
\* and quiescence got the mutex first; afterwards it shows the terminal its own worker was told to report.
\* Workers find the record by the id alone, so an admission of the id between
\* a worker's command and its settlement would break this.
RecordsFollowActive ==
  \A op \in DOMAIN records :
    LET r == records[op] IN
    /\ operationOf[r.sequence] = op
    /\ \A s \in Issued : operationOf[s] = op => s <= r.sequence
    /\ op \in DOMAIN active =>
         /\ active[op] = r.sequence /\ r.phase = "Running" /\ ~Settled(r.sequence)
         /\ lifecycle # "Running" => r.cancellationRequested
    /\ op \notin DOMAIN active =>
         /\ r.phase = "Released" /\ Settled(r.sequence)
         /\ r.terminal = class[r.sequence] /\ r.terminalSequence = r.sequence

\* From its retention to the outcome that lists it as joined, every worker is a
\* retained task: reuse of an operation id before the earlier worker exited
\* does not lose that worker, and none is both retained and reported joined.
NoWorkerIsLost ==
  \A s \in Issued :
    /\ \E i \in DOMAIN expected : expected[i] = s
    /\ s \in DOMAIN tasks <=>
         worker[s] # "unspawned" /\ \A i \in DOMAIN joined : joined[i] # s

IsSet(list) == \A i, j \in DOMAIN list : list[i] = list[j] => i = j

\* ShutdownOutcome::validate, and the closed facts the suites assert.
Validates(o) ==
  /\ IsSet(o.expected) /\ IsSet(o.joined)
  /\ Len(o.expected) = o.facts.expectedWorkers /\ Len(o.joined) = o.facts.joinedWorkers
  /\ Members(o.expected) = Members(o.joined)
  /\ o.facts.lifecycle = "Closed" /\ o.facts.activeOperations = 0 /\ o.facts.retainedTasks = 0

\* Every shutdown that gets to report an outcome reports a valid, closed and
\* empty one that names every worker ever admitted, and a repeated shutdown
\* reports the same: nothing changes the facts once one of them has closed.
OutcomesValidate ==
  \A h \in Shutdowns : shutdown[h] \in {"done", "unheard"} =>
    /\ Validates(outcome[h])
    /\ outcome[h] = [facts |-> Facts, expected |-> expected, joined |-> joined]

\* However shutdowns overlap, a worker is joined by one of them only, and none
\* closes over a worker that another has yet to join.
HandlesTakenOnce ==
  \A g, h \in Shutdowns : g # h /\ toJoin[g] # {} =>
    /\ toJoin[g] \cap toJoin[h] = {}
    /\ shutdown[h] \notin {"done", "unheard"}

\* wait_released returns the released record of its own attempt with the
\* terminal its worker was told to report, unless a later attempt has taken
\* the id in between; it never returns an earlier attempt's.
SnapshotNotEarlier ==
  \A s \in Issued : LET r == returned[s] IN
    r # NoSnapshot =>
      \/ r.sequence = s /\ r.phase = "Released" /\ r.terminal = class[s]
      \/ r.sequence > s /\ operationOf[r.sequence] = operationOf[s]

\* A released record changes only by giving way to a later attempt of its id:
\* late progress, a late quiesce and a stale handle leave it alone.
ReleasedRecordIsFinal ==
  [][\A op \in DOMAIN records : records[op].phase = "Released" =>
       records'[op] = records[op] \/ records'[op].sequence > records[op].sequence]_vars

\* The bridge keeps the promise of LifecycleContract, whatever its clients do:
\* an attempt settles in its worker's critical section, is joined by a shutdown
\* thread, and the supervisor closes when all of them have been.
Standing ==
  [s \in Attempts |->
     IF s \notin Issued THEN "unknown"
     ELSE IF worker[s] = "joined" THEN "joined"
     ELSE IF Settled(s) THEN "settled" ELSE "owned"]
Outcome ==
  [s \in Attempts |-> IF s \in Issued /\ Settled(s) THEN class[s] ELSE None]

Contract == INSTANCE LifecycleContract WITH
  Attempts <- Attempts, Outcomes <- TerminalClasses, Undecided <- None,
  stage <- lifecycle, standing <- Standing, outcome <- Outcome

RefinesContract == Contract!Spec

\* No expect of a worker or of a shutdown thread fails.
NoThreadPanics ==
  /\ \A h \in Shutdowns : shutdown[h] \notin ShutdownPanics
  /\ \A s \in Issued : worker[s] # "panicked"

\* Under clients that keep to the protocol of the suites every shutdown, the first and the repeated ones,
\* returns: no wakeup is lost and no join waits for ever.
ShutdownCompletes ==
  \A h \in Shutdowns : shutdown[h] = "quiescing" ~> shutdown[h] = "done"

\* "retained task must own its JoinHandle" (compositional_lifecycle.rs:1019):
\* refuted when two shutdowns overlap, for the first keeps the tasks retained,
\* without their handles, until it has joined all of them.
RetainedTasksOwnHandles == \A h \in Shutdowns : shutdown[h] # "noHandle"

\* "observe release", with the phase Released (compositional_lifecycle.rs:814):
\* refuted when the id is admitted again between the worker's announcement and
\* the lookup of the record, which wait_released makes by id.
WaitReleasedObservesRelease ==
  \A s \in Issued : returned[s] # NoSnapshot => returned[s].phase = "Released"

=============================================================================
