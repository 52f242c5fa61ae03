------------------------ MODULE SupervisorBridgeProofs ------------------------
(***************************************************************************)
(* Theorems about SupervisorBridge, for every set of operation ids, every  *)
(* range of sequences, every capacity, any number of shutdowns and every   *)
(* freedom clients may take; and that the suites of BridgeSuites are       *)
(* clients of the protocol.                                                *)
(***************************************************************************)
EXTENDS BridgeSuites, FiniteSetTheorems, TLAPS

USE SequenceAssumption, CapacityAssumption, NoneAssumption

\* A worker is told what to report before it settles and once only; whoever heard
\* of a release, or saw a record, comes after the settlement.  A record seen is
\* one of an attempt already issued.
WorkerInv ==
  \A s \in Issued :
    /\ worker[s] \in {"unspawned", "commandRecv"} => class[s] = None
    /\ worker[s] \in {"settling", "releasedSend", "exitRecv", "exited", "joined"}
         => class[s] \in TerminalClasses
    /\ handle[s].released = "received" \/ returned[s] # NoSnapshot => Settled(s)
    /\ returned[s] # NoSnapshot => returned[s].sequence \in Issued

\* An attempt that has not settled holds its operation id, so a worker that looks
\* for its record by the id finds its own.
IsActive(s) == operationOf[s] \in DOMAIN active /\ active[operationOf[s]] = s
RecordInv ==
  /\ RecordsFollowActive
  /\ \A op \in DOMAIN records : records[op].sequence \in Issued
  /\ \A s \in Issued : operationOf[s] \in DOMAIN records /\ (~Settled(s) => IsActive(s))

\* Workers are expected in the order of their sequences.
ListInv == expected = [i \in Issued |-> i]

\* A task is retained until its worker is reported joined, and owns its JoinHandle
\* no longer than that of a worker nobody has joined.
TaskInv ==
  /\ \A s \in Issued : s \in DOMAIN tasks <=> worker[s] # "unspawned" /\ s \notin Members(joined)
  /\ \A s \in DOMAIN tasks : tasks[s] = "owned" => worker[s] # "joined"

\* A shutdown that took the tasks answers for all of them, even if it panicked
\* over one; two that took something at all cannot be.
Took == {"joining", "workerPanicked"}
Reported == {"done", "unheard"}
JoinInv ==
  /\ IsSet(joined) /\ \A s \in Members(joined) : worker[s] = "joined"
  /\ \A h \in Shutdowns :
       /\ IsSet(reaped[h]) /\ \A s \in Members(reaped[h]) : worker[s] = "joined"
       /\ \A s \in toJoin[h] : worker[s] # "joined"
       /\ shutdown[h] \notin Took => toJoin[h] = {}
       /\ shutdown[h] \notin Took \cup Reported => reaped[h] = << >>
       /\ shutdown[h] \in Took =>
            /\ toJoin[h] \cup Members(reaped[h]) = DOMAIN tasks
            /\ \A s \in DOMAIN tasks : tasks[s] = "taken"
  /\ \A g, h \in Shutdowns :
       g # h /\ shutdown[g] \in Took /\ shutdown[h] \in Took => DOMAIN tasks = {}

\* Past its quiesce a shutdown meets no admission, past its wait no attempt, and a
\* closed supervisor has nothing left.
StageInv ==
  /\ \A h \in Shutdowns :
       /\ shutdown[h] \notin {"idle", "quiescing"} => lifecycle # "Running"
       /\ shutdown[h] \in Took => DOMAIN active = {}
       /\ shutdown[h] \in Reported => lifecycle = "Closed"
  /\ lifecycle = "Closed" => DOMAIN active = {} /\ DOMAIN tasks = {}

IInv ==
  /\ TypeOK
  /\ WorkerInv
  /\ RecordInv
  /\ SnapshotNotEarlier
  /\ ListInv
  /\ TaskInv
  /\ JoinInv
  /\ StageInv
  /\ OutcomesValidate

-----------------------------------------------------------------------------
(* What the helpers return. *)

\* A new entry of a partial function.
LEMMA Extended ==
  ASSUME NEW f, NEW x, NEW v
  PROVE  /\ DOMAIN Extend(f, x, v) = DOMAIN f \cup {x}
         /\ Extend(f, x, v)[x] = v
         /\ \A y \in DOMAIN f : y # x => Extend(f, x, v)[y] = f[y]
BY DEF Extend

\* A new entry of a function on the issued sequences, when one more is issued.
LEMMA ExtendedFunction ==
  ASSUME NEW S, NEW T, NEW f \in [S -> T], NEW x, NEW v \in T
  PROVE  Extend(f, x, v) \in [S \cup {x} -> T]
BY DEF Extend

\* The next sequence is a new one.
LEMMA NextIsNew ==
  ASSUME TypeOK
  PROVE  /\ Issued \subseteq Attempts
         /\ nextSequence \notin Issued
         /\ nextSequence \in Nat \ {0}
         /\ \A s \in Issued : s \in Nat /\ s < nextSequence
BY DEF TypeOK, Issued, Attempts

\* What an admission issues.
LEMMA IssuedGrows ==
  ASSUME TypeOK, nextSequence < SequenceLimit, nextSequence' = nextSequence + 1
  PROVE  Issued' = Issued \cup {nextSequence} /\ nextSequence \in Attempts
BY DEF TypeOK, Issued, Attempts

\* Sequences over a set are sequences over a larger one.
LEMMA LargerSeq ==
  ASSUME NEW S, NEW T, S \subseteq T, NEW s \in Seq(S)
  PROVE  s \in Seq(T)
OBVIOUS

\* A window stays within the capacity.
LEMMA PushedWindow ==
  ASSUME NEW length \in 0 .. ProgressCapacity
  PROVE  Pushed(length) \in 0 .. ProgressCapacity
BY DEF Pushed

\* Notification moves threads out of the wait set and no other.
LEMMA NotifiedThreads ==
  ASSUME shutdown \in [Shutdowns -> ShutdownPcs]
  PROVE  /\ Notified(shutdown) \in [Shutdowns -> ShutdownPcs]
         /\ \A h \in Shutdowns :
              \/ Notified(shutdown)[h] = shutdown[h]
              \/ shutdown[h] = "waiting" /\ Notified(shutdown)[h] = "draining"
BY DEF Notified, ShutdownPcs

\* The members of a sequence that one is appended to, or another sequence.
LEMMA AppendedMembers ==
  ASSUME NEW S, NEW list \in Seq(S), NEW e \in S
  PROVE  /\ Append(list, e) \in Seq(S)
         /\ Members(Append(list, e)) = Members(list) \cup {e}
         /\ IsSet(list) /\ e \notin Members(list) => IsSet(Append(list, e))
<1>1. /\ Append(list, e) \in Seq(S)
      /\ Len(list) \in Nat
      /\ DOMAIN list = 1 .. Len(list)
      /\ DOMAIN Append(list, e) = 1 .. (Len(list) + 1)
      /\ \A i \in DOMAIN list : Append(list, e)[i] = list[i]
      /\ Append(list, e)[Len(list) + 1] = e
  OBVIOUS
<1>2. DOMAIN Append(list, e) = DOMAIN list \cup {Len(list) + 1}
  BY <1>1
<1>3. Members(Append(list, e)) = Members(list) \cup {e}
  BY <1>1, <1>2 DEF Members
<1>4. IsSet(list) /\ e \notin Members(list) => IsSet(Append(list, e))
  BY <1>1, <1>2 DEF IsSet, Members
<1> QED
  BY <1>1, <1>3, <1>4

LEMMA JoinedMembers ==
  ASSUME NEW S, NEW front \in Seq(S), NEW back \in Seq(S)
  PROVE  /\ front \o back \in Seq(S)
         /\ Members(front \o back) = Members(front) \cup Members(back)
         /\ IsSet(front) /\ IsSet(back) /\ Members(front) \cap Members(back) = {}
              => IsSet(front \o back)
<1> DEFINE both == front \o back
<1>1. /\ both \in Seq(S)
      /\ Len(front) \in Nat /\ Len(back) \in Nat
      /\ DOMAIN front = 1 .. Len(front) /\ DOMAIN back = 1 .. Len(back)
      /\ DOMAIN both = 1 .. (Len(front) + Len(back))
      /\ \A i \in DOMAIN front : i \in DOMAIN both /\ both[i] = front[i]
      /\ \A i \in DOMAIN back : Len(front) + i \in DOMAIN both /\ both[Len(front) + i] = back[i]
  OBVIOUS
<1> HIDE DEF both
<1>2. \A k \in DOMAIN both : k \in DOMAIN front \/ k - Len(front) \in DOMAIN back
  BY <1>1
<1>3. \A k \in DOMAIN both :
        \/ k \in DOMAIN front /\ both[k] = front[k]
        \/ k \notin DOMAIN front /\ k - Len(front) \in DOMAIN back /\ both[k] = back[k - Len(front)]
  BY <1>1, <1>2
<1>4. Members(both) = Members(front) \cup Members(back)
  BY <1>1, <1>3 DEF Members
<1>5. ASSUME IsSet(front), IsSet(back), Members(front) \cap Members(back) = {}
      PROVE  IsSet(both)
  <2> SUFFICES ASSUME NEW k \in DOMAIN both, NEW l \in DOMAIN both, both[k] = both[l]
               PROVE  k = l
    BY DEF IsSet
  <2>1. CASE k \in DOMAIN front /\ l \in DOMAIN front
    BY <1>1, <1>5, <2>1 DEF IsSet
  <2>2. CASE k \notin DOMAIN front /\ l \notin DOMAIN front
    <3>1. /\ k - Len(front) \in DOMAIN back /\ l - Len(front) \in DOMAIN back
          /\ back[k - Len(front)] = back[l - Len(front)]
      BY <1>3, <2>2
    <3>2. k - Len(front) = l - Len(front)
      BY <1>5, <3>1 DEF IsSet
    <3> QED
      BY <1>1, <3>2
  <2>3. CASE (k \in DOMAIN front) # (l \in DOMAIN front)
    BY <1>3, <1>5, <2>3 DEF Members
  <2> QED
    BY <2>1, <2>2, <2>3
<1> QED
  BY <1>1, <1>4, <1>5 DEF both

-----------------------------------------------------------------------------
(* The kinds of steps, and what each leaves alone. *)

\* A step of a handle's client, or of a worker, outside the mutex.
Outside(s) ==
  \/ \E c \in TerminalClasses : Command(s, c)
  \/ AwaitReleased(s) \/ AnnounceReleased(s) \/ ReadReleased(s) \/ AllowExit(s)
  \/ TimeoutReleased(s) \/ DropHandle(s) \/ WorkerPanics(s)

\* A step of a shutdown thread that changes only where the thread is.
ThreadMove(h) ==
  \/ BeginShutdown(h) \/ WaitStarted(h) \/ StartFails(h) \/ Waits(h) \/ SpuriousWakeup(h)
  \/ \E s \in Issued : JoinFails(h, s)

Quiesces == Quiesce \/ \E h \in Shutdowns : ShutdownQuiesces(h)

LEMMA Steps ==
  ASSUME [Next]_vars
  PROVE  \/ \E op \in OperationIds : Reserve(op)
         \/ \E s \in Issued : Outside(s)
         \/ \E s \in Issued : PublishProgress(s)
         \/ \E s \in Issued : RetainTask(s)
         \/ \E s \in Issued : Settle(s)
         \/ Quiesces
         \/ \E h \in Shutdowns : ThreadMove(h)
         \/ \E h \in Shutdowns : TakeHandles(h)
         \/ \E h \in Shutdowns : HandleIsGone(h)
         \/ \E h \in Shutdowns, s \in Issued : JoinWorker(h, s)
         \/ \E h \in Shutdowns : RecordClosed(h)
         \/ UNCHANGED vars
BY DEF Next, ClientStep, WorkerStep, ShutdownStep, Outside, ThreadMove, Quiesces, Finished

\* Outside the mutex nobody settles, and what a settled worker reports is fixed.
OutsideKeeps ==
  /\ UNCHANGED <<lifecycle, nextSequence, records, active, tasks, expected, joined>>
  /\ UNCHANGED <<operationOf, shutdown, toJoin, reaped, outcome>>
  /\ \A t \in Issued :
       /\ Settled(t)' <=> Settled(t)
       /\ Settled(t) => class'[t] = class[t]
       /\ worker'[t] = "unspawned" <=> worker[t] = "unspawned"
       /\ worker'[t] = "joined" <=> worker[t] = "joined"

LEMMA OutsideFrame ==
  ASSUME TypeOK, WorkerInv, NEW s \in Issued, Outside(s)
  PROVE  OutsideKeeps
<1> USE DEF TypeOK, WorkerInv, Settled, state, closers, OutsideKeeps
<1>1. ASSUME NEW c \in TerminalClasses, Command(s, c)
      PROVE  OutsideKeeps
  BY <1>1 DEF Command
<1>2. ASSUME AwaitReleased(s) \/ ReadReleased(s) \/ TimeoutReleased(s) \/ DropHandle(s)
      PROVE  OutsideKeeps
  BY <1>2 DEF AwaitReleased, ReadReleased, Lookup, TimeoutReleased, DropHandle
<1>3. ASSUME AnnounceReleased(s) \/ AllowExit(s)
      PROVE  OutsideKeeps
  BY <1>3 DEF AnnounceReleased, AllowExit
<1>4. ASSUME WorkerPanics(s)
      PROVE  OutsideKeeps
  BY <1>4 DEF WorkerPanics
<1> QED
  BY <1>1, <1>2, <1>3, <1>4 DEF Outside

\* No thread takes the tasks or reports, or leaves the quiesce behind it.
ThreadsKeep ==
  /\ shutdown' \in [Shutdowns -> ShutdownPcs]
  /\ \A g \in Shutdowns :
       /\ shutdown'[g] \in Took <=> shutdown[g] \in Took
       /\ shutdown'[g] \in Reported <=> shutdown[g] \in Reported

LEMMA ThreadFrame ==
  ASSUME TypeOK, NEW h \in Shutdowns, ThreadMove(h)
  PROVE  /\ UNCHANGED <<lifecycle, nextSequence, records, active, tasks, expected, joined>>
         /\ UNCHANGED <<operationOf, worker, class, handle, returned, toJoin, reaped, outcome>>
         /\ ThreadsKeep
         /\ \A g \in Shutdowns :
              shutdown'[g] \notin {"idle", "quiescing"} => shutdown[g] \notin {"idle", "quiescing"}
BY DEF ThreadMove, BeginShutdown, WaitStarted, StartFails, Waits, SpuriousWakeup, JoinFails,
       TypeOK, ThreadsKeep, Took, Reported, ShutdownPcs, ShutdownPanics, state, clients

LEMMA NotifiedFrame ==
  ASSUME TypeOK, shutdown' = Notified(shutdown)
  PROVE  /\ ThreadsKeep
         /\ \A g \in Shutdowns :
              shutdown'[g] \notin {"idle", "quiescing"} => shutdown[g] \notin {"idle", "quiescing"}
<1>1. shutdown \in [Shutdowns -> ShutdownPcs]
  BY DEF TypeOK
<1> QED
  BY <1>1, NotifiedThreads DEF ThreadsKeep, Took, Reported

LEMMA QuiesceFrame ==
  ASSUME TypeOK, Quiesces
  PROVE  /\ QuiesceInner
         /\ UNCHANGED <<operationOf, worker, class, handle, returned, toJoin, reaped, outcome>>
         /\ ThreadsKeep
<1>1. shutdown \in [Shutdowns -> ShutdownPcs]
  BY DEF TypeOK
<1>2. CASE Quiesce
  BY <1>2, NotifiedFrame DEF Quiesce, clients
<1>3. ASSUME NEW h \in Shutdowns, ShutdownQuiesces(h)
      PROVE  ThreadsKeep
  <2>1. /\ shutdown[h] = "quiescing"
        /\ shutdown' = [Notified(shutdown) EXCEPT ![h] = "starting"]
    BY <1>3 DEF ShutdownQuiesces
  <2> QED
    BY <1>1, <2>1, NotifiedThreads DEF ThreadsKeep, Took, Reported, ShutdownPcs
<1> QED
  BY <1>2, <1>3 DEF Quiesces, ShutdownQuiesces, clients

-----------------------------------------------------------------------------
(* The inductive invariant holds at first. *)

LEMMA InitIInv == Init => IInv
<1> SUFFICES ASSUME Init PROVE IInv
  OBVIOUS
<1>1. Issued = {}
  BY DEF Init, Issued
<1>2. TypeOK
  <2>1. \A T : EmptyMap \in [Issued -> T]
    BY <1>1 DEF EmptyMap
  <2>2. << >> \in Seq(Issued)
    OBVIOUS
  <2> QED
    BY <1>1, <2>1, <2>2 DEF Init, TypeOK, EmptyMap, ShutdownPcs
<1>3. WorkerInv /\ RecordInv /\ SnapshotNotEarlier /\ TaskInv
  BY <1>1 DEF Init, WorkerInv, RecordInv, RecordsFollowActive, SnapshotNotEarlier, TaskInv, EmptyMap
<1>4. ListInv
  BY <1>1 DEF Init, ListInv
<1>5. IsSet(<< >>) /\ Members(<< >>) = {}
  BY DEF IsSet, Members
<1>6. JoinInv
  BY <1>5 DEF Init, JoinInv, EmptyMap, Took
<1>7. StageInv /\ OutcomesValidate
  BY DEF Init, StageInv, OutcomesValidate, Took, Reported
<1> QED
  BY <1>2, <1>3, <1>4, <1>6, <1>7 DEF IInv

-----------------------------------------------------------------------------
(* Every step preserves the types. *)

\* The record of an attempt just admitted.
LEMMA NewSnapshot ==
  ASSUME NEW s \in Attempts
  PROVE  /\ [NoSnapshot EXCEPT !.sequence = s] \in Snapshot
         /\ [NoSnapshot EXCEPT !.sequence = s].sequence = s
         /\ [NoSnapshot EXCEPT !.sequence = s].phase = "Running"
<1>1. 0 \in 0 .. ProgressCapacity
  OBVIOUS
<1>2. /\ NoSnapshot \in
           [sequence : {0}, phase : {"Running", "Released"}, cancellationRequested : BOOLEAN,
            terminal : TerminalClasses \cup {None}, terminalSequence : Attempts \cup {0},
            progress : 0 .. ProgressCapacity]
      /\ NoSnapshot.phase = "Running"
  BY <1>1 DEF NoSnapshot
<1> QED
  BY <1>2 DEF Snapshot

LEMMA TypeReserve ==
  ASSUME TypeOK, NEW op \in OperationIds, Reserve(op)
  PROVE  TypeOK'
<1>1. /\ nextSequence \in 1 .. SequenceLimit /\ nextSequence < SequenceLimit
      /\ nextSequence' = nextSequence + 1
      /\ Issued' = Issued \cup {nextSequence}
      /\ nextSequence \in Attempts
      /\ UNCHANGED <<lifecycle, tasks, joined, shutdown, toJoin, reaped, outcome>>
  BY IssuedGrows DEF Reserve, Admission, closers, TypeOK
<1>2. /\ DOMAIN records' = DOMAIN records \cup {op}
      /\ DOMAIN active' = DOMAIN active \cup {op}
      /\ active'[op] = nextSequence
      /\ records'[op] = [NoSnapshot EXCEPT !.sequence = nextSequence]
      /\ \A o \in DOMAIN records : o # op => records'[o] = records[o]
      /\ \A o \in DOMAIN active : o # op => active'[o] = active[o]
  BY DEF Reserve, Admission, Extend
<1>3. [NoSnapshot EXCEPT !.sequence = nextSequence] \in Snapshot
  BY <1>1, NewSnapshot
<1>4. /\ DOMAIN records' \subseteq OperationIds
      /\ \A o \in DOMAIN records' : records'[o] \in Snapshot
      /\ DOMAIN active' \subseteq DOMAIN records'
      /\ \A o \in DOMAIN active' : active'[o] \in Issued'
  BY <1>1, <1>2, <1>3 DEF TypeOK
<1>5. /\ operationOf' \in [Issued' -> OperationIds]
      /\ worker' \in [Issued' -> WorkerPcs]
      /\ class' \in [Issued' -> TerminalClasses \cup {None}]
      /\ handle' \in [Issued' -> Handle]
      /\ returned' \in [Issued' -> Snapshot \cup {NoSnapshot}]
  <2>1. "unspawned" \in WorkerPcs
    BY DEF WorkerPcs
  <2>2. [command |-> "kept", released |-> "kept", allowExit |-> "kept"] \in Handle
    BY DEF Handle
  <2> QED
    BY <1>1, <2>1, <2>2, ExtendedFunction DEF Reserve, Admission, TypeOK
<1>6. /\ expected' \in Seq(Issued')
      /\ joined' \in Seq(Issued')
      /\ toJoin' \in [Shutdowns -> SUBSET Issued']
      /\ reaped' \in [Shutdowns -> Seq(Issued')]
  <2>1. Issued \subseteq Issued'
    BY <1>1
  <2>2. \A list \in Seq(Issued) : list \in Seq(Issued')
    BY <2>1, LargerSeq
  <2>3. expected' = Append(expected, nextSequence)
    BY DEF Reserve, Admission
  <2>4. expected \in Seq(Issued') /\ nextSequence \in Issued'
    BY <1>1, <2>2 DEF TypeOK
  <2>5. expected' \in Seq(Issued')
    BY <2>3, <2>4
  <2> QED
    BY <1>1, <2>1, <2>2, <2>5 DEF TypeOK
<1>7. DOMAIN tasks' \subseteq Issued' /\ \A s \in DOMAIN tasks' : tasks'[s] \in {"owned", "taken"}
  BY <1>1 DEF TypeOK
<1>8. /\ nextSequence' \in 1 .. SequenceLimit
      /\ lifecycle' \in {"Running", "Quiescing", "Closed"}
      /\ shutdown' \in [Shutdowns -> ShutdownPcs] /\ DOMAIN outcome' = Shutdowns
  BY <1>1 DEF TypeOK
<1> QED
  BY <1>4, <1>5, <1>6, <1>7, <1>8 DEF TypeOK

LEMMA TypeOutside ==
  ASSUME TypeOK, RecordInv, NEW s \in Issued, Outside(s)
  PROVE  TypeOK'
<1>1. Issued' = Issued
  BY DEF Issued, Outside, Command, AwaitReleased, AnnounceReleased, ReadReleased, Lookup, AllowExit,
         TimeoutReleased, DropHandle, WorkerPanics, state
<1>2. UNCHANGED <<state, operationOf, closers>>
  BY DEF Outside, Command, AwaitReleased, AnnounceReleased, ReadReleased, Lookup, AllowExit,
         TimeoutReleased, DropHandle, WorkerPanics
<1> USE DEF TypeOK
<1>3. handle[s] \in Handle
  OBVIOUS
<1>4. /\ worker' \in [Issued -> WorkerPcs]
      /\ class' \in [Issued -> TerminalClasses \cup {None}]
  <2>1. ASSUME NEW c \in TerminalClasses, Command(s, c)
        PROVE  /\ worker' \in [Issued -> WorkerPcs]
               /\ class' \in [Issued -> TerminalClasses \cup {None}]
    BY <2>1 DEF Command, WorkerPcs
  <2>2. CASE UNCHANGED <<worker, class>>
    BY <2>2
  <2>3. CASE AnnounceReleased(s) \/ AllowExit(s) \/ WorkerPanics(s)
    BY <2>3 DEF AnnounceReleased, AllowExit, WorkerPanics, WorkerPcs
  <2> QED
    BY <2>1, <2>2, <2>3 DEF Outside, AwaitReleased, ReadReleased, Lookup, TimeoutReleased, DropHandle
<1>5. handle' \in [Issued -> Handle]
  <2>1. \A v \in {"kept", "gone"} :
          [handle[s] EXCEPT !.command = v] \in Handle /\ [handle[s] EXCEPT !.allowExit = v] \in Handle
    BY <1>3 DEF Handle
  <2>2. \A v \in {"kept", "waiting", "received", "gone"} : [handle[s] EXCEPT !.released = v] \in Handle
    BY <1>3 DEF Handle
  <2>3. [command |-> "gone", released |-> "gone", allowExit |-> "gone"] \in Handle
    BY DEF Handle
  <2> QED
    BY <2>1, <2>2, <2>3
    DEF Outside, Command, AwaitReleased, AnnounceReleased, ReadReleased, Lookup, AllowExit,
         TimeoutReleased, DropHandle, WorkerPanics
<1>6. returned' \in [Issued -> Snapshot \cup {NoSnapshot}]
  <2>1. records[operationOf[s]] \in Snapshot
    BY DEF RecordInv
  <2> QED
    BY <2>1
    DEF Outside, Command, AwaitReleased, AnnounceReleased, ReadReleased, Lookup, AllowExit,
           TimeoutReleased, DropHandle, WorkerPanics
<1> QED
  BY <1>1, <1>2, <1>4, <1>5, <1>6 DEF state, closers

\* What becomes of a record: a push, a request to cancel.
LEMMA PushedRecord ==
  ASSUME NEW r \in Snapshot, NEW p, p = [r EXCEPT !.progress = Pushed(r.progress)]
  PROVE  /\ p \in Snapshot
         /\ p.sequence = r.sequence /\ p.phase = r.phase
         /\ p.cancellationRequested = r.cancellationRequested
         /\ p.terminal = r.terminal /\ p.terminalSequence = r.terminalSequence
<1>1. Pushed(r.progress) \in 0 .. ProgressCapacity
  BY PushedWindow DEF Snapshot
<1> QED
  BY <1>1 DEF Snapshot

LEMMA CancelledRecord ==
  ASSUME NEW r \in Snapshot, NEW q, q = [r EXCEPT !.cancellationRequested = TRUE]
  PROVE  /\ q \in Snapshot
         /\ q.sequence = r.sequence /\ q.phase = r.phase /\ q.cancellationRequested = TRUE
         /\ q.terminal = r.terminal /\ q.terminalSequence = r.terminalSequence
BY DEF Snapshot

\* Progress changes no more than the window of a running record.
LEMMA PublishFrame ==
  ASSUME TypeOK, RecordInv, NEW s \in Issued, PublishProgress(s)
  PROVE  /\ UNCHANGED <<lifecycle, nextSequence, active, tasks, expected, joined, clients, closers>>
         /\ DOMAIN records' = DOMAIN records
         /\ \A o \in DOMAIN records :
              /\ records'[o] \in Snapshot
              /\ records'[o].sequence = records[o].sequence
              /\ records'[o].phase = records[o].phase
              /\ records'[o].cancellationRequested = records[o].cancellationRequested
              /\ records'[o].terminal = records[o].terminal
              /\ records'[o].terminalSequence = records[o].terminalSequence
              /\ records[o].phase = "Released" => records'[o] = records[o]
<1>1. /\ operationOf[s] \in DOMAIN records
      /\ \A o \in DOMAIN records : records[o] \in Snapshot
  BY DEF RecordInv, TypeOK
<1>2. /\ records' = [records EXCEPT ![operationOf[s]] =
           [records[operationOf[s]] EXCEPT !.progress = Pushed(records[operationOf[s]].progress)]]
      /\ records[operationOf[s]].phase = "Running"
      /\ UNCHANGED <<lifecycle, nextSequence, active, tasks, expected, joined, clients, closers>>
  BY DEF PublishProgress, Push
<1>3. /\ DOMAIN records' = DOMAIN records
      /\ \A o \in DOMAIN records \ {operationOf[s]} : records'[o] = records[o]
      /\ records'[operationOf[s]] =
           [records[operationOf[s]] EXCEPT !.progress = Pushed(records[operationOf[s]].progress)]
  BY <1>1, <1>2
<1>4. LET o == operationOf[s] IN
        /\ records'[o] \in Snapshot
        /\ records'[o].sequence = records[o].sequence
        /\ records'[o].phase = records[o].phase
        /\ records'[o].cancellationRequested = records[o].cancellationRequested
        /\ records'[o].terminal = records[o].terminal
        /\ records'[o].terminalSequence = records[o].terminalSequence
  BY <1>1, <1>3, PushedRecord
<1> QED
  BY <1>1, <1>2, <1>3, <1>4

\* A quiesce asks the active to cancel, if it is the first, and changes no more.
LEMMA QuiesceRecords ==
  ASSUME TypeOK, QuiesceInner
  PROVE  /\ DOMAIN records' = DOMAIN records
         /\ \A o \in DOMAIN records :
              /\ records'[o] \in Snapshot
              /\ records'[o].sequence = records[o].sequence
              /\ records'[o].phase = records[o].phase
              /\ records'[o].terminal = records[o].terminal
              /\ records'[o].terminalSequence = records[o].terminalSequence
              /\ lifecycle # "Running" \/ o \notin DOMAIN active => records'[o] = records[o]
              /\ lifecycle = "Running" /\ o \in DOMAIN active => records'[o].cancellationRequested = TRUE
<1>1. records' = [o \in DOMAIN records |->
        IF lifecycle = "Running" /\ o \in DOMAIN active
        THEN [records[o] EXCEPT !.cancellationRequested = TRUE] ELSE records[o]]
  BY DEF QuiesceInner
<1>2. \A o \in DOMAIN records : records[o] \in Snapshot
  BY DEF TypeOK
<1>3. DOMAIN records' = DOMAIN records
  BY <1>1
<1>4. ASSUME NEW o \in DOMAIN records
      PROVE  /\ records'[o] \in Snapshot
             /\ records'[o].sequence = records[o].sequence
             /\ records'[o].phase = records[o].phase
             /\ records'[o].terminal = records[o].terminal
             /\ records'[o].terminalSequence = records[o].terminalSequence
             /\ lifecycle # "Running" \/ o \notin DOMAIN active => records'[o] = records[o]
             /\ lifecycle = "Running" /\ o \in DOMAIN active => records'[o].cancellationRequested = TRUE
  <2>1. CASE lifecycle = "Running" /\ o \in DOMAIN active
    <3>1. records'[o] = [records[o] EXCEPT !.cancellationRequested = TRUE]
      BY <1>1, <2>1
    <3> QED
      BY <1>2, <2>1, <3>1, CancelledRecord
  <2>2. CASE ~ (lifecycle = "Running" /\ o \in DOMAIN active)
    <3>1. records'[o] = records[o]
      BY <1>1, <2>2
    <3> QED
      BY <1>2, <2>2, <3>1
  <2> QED
    BY <2>1, <2>2
<1> QED
  BY <1>3, <1>4

\* A worker settles the record and gives up the slot of its own attempt.
Settles(s, op) ==
  /\ UNCHANGED <<lifecycle, nextSequence, tasks, expected, joined, operationOf>>
  /\ UNCHANGED <<class, handle, returned, toJoin, reaped, outcome>>
  /\ worker[s] = "settling" /\ worker' = [worker EXCEPT ![s] = "releasedSend"]
  /\ class[s] \in TerminalClasses
  /\ op \in DOMAIN active /\ records[op].sequence = s /\ records[op].phase = "Running"
  /\ DOMAIN active' = DOMAIN active \ {op}
  /\ \A o \in DOMAIN active' : active'[o] = active[o]
  /\ DOMAIN records' = DOMAIN records
  /\ \A o \in DOMAIN records \ {op} : records'[o] = records[o]
  /\ records'[op] \in Snapshot
  /\ records'[op].sequence = s /\ records'[op].phase = "Released"
  /\ records'[op].terminal = class[s] /\ records'[op].terminalSequence = s
  /\ ThreadsKeep
  /\ \A g \in Shutdowns :
       shutdown'[g] \notin {"idle", "quiescing"} => shutdown[g] \notin {"idle", "quiescing"}

LEMMA SettleFrame ==
  ASSUME TypeOK, WorkerInv, RecordInv, NEW s \in Issued, Settle(s)
  PROVE  Settles(s, operationOf[s])
<1> DEFINE op == operationOf[s]
<1>1. Settlement(s) /\ shutdown' = Notified(shutdown)
  BY DEF Settle
<1>2. /\ UNCHANGED <<lifecycle, nextSequence, tasks, expected, joined, operationOf>>
      /\ UNCHANGED <<class, handle, returned, toJoin, reaped, outcome>>
      /\ worker[s] = "settling" /\ worker' = [worker EXCEPT ![s] = "releasedSend"]
      /\ active' = Without(active, {op})
      /\ records' = [records EXCEPT ![op] =
           [records[op] EXCEPT !.phase = "Released", !.terminal = class[s],
                               !.terminalSequence = records[op].sequence]]
  BY <1>1 DEF Settlement
<1>3. class[s] \in TerminalClasses /\ ~Settled(s)
  BY <1>2 DEF WorkerInv, Settled
<1>4. op \in DOMAIN active /\ active[op] = s /\ op \in DOMAIN records /\ records[op] \in Snapshot
  BY <1>3 DEF RecordInv, IsActive, TypeOK
<1>5. records[op].sequence = s /\ records[op].phase = "Running"
  BY <1>4 DEF RecordInv, RecordsFollowActive
<1>6. DOMAIN active' = DOMAIN active \ {op} /\ \A o \in DOMAIN active' : active'[o] = active[o]
  BY <1>2 DEF Without
<1>7. /\ DOMAIN records' = DOMAIN records
      /\ \A o \in DOMAIN records \ {op} : records'[o] = records[o]
      /\ records'[op] = [records[op] EXCEPT !.phase = "Released", !.terminal = class[s],
                                            !.terminalSequence = records[op].sequence]
  BY <1>2, <1>4
<1>8. /\ records'[op] \in Snapshot
      /\ records'[op].sequence = s /\ records'[op].phase = "Released"
      /\ records'[op].terminal = class[s] /\ records'[op].terminalSequence = s
  <2>1. /\ records'[op] \in Snapshot
        /\ records'[op].sequence = records[op].sequence /\ records'[op].phase = "Released"
        /\ records'[op].terminal = class[s] /\ records'[op].terminalSequence = records[op].sequence
    <3>1. records[op] \in Snapshot /\ class[s] \in TerminalClasses
      BY <1>3, <1>4
    <3>2. records'[op] = [records[op] EXCEPT !.phase = "Released", !.terminal = class[s],
                                             !.terminalSequence = records[op].sequence]
      BY <1>7
    <3> HIDE DEF op
    <3> QED
      BY <3>1, <3>2 DEF Snapshot
  <2> QED
    BY <1>5, <2>1
<1> QED
  BY <1>1, <1>2, <1>3, <1>4, <1>5, <1>6, <1>7, <1>8, NotifiedFrame DEF Settles

LEMMA TypeState ==
  ASSUME TypeOK, RecordInv, WorkerInv,
         \/ \E s \in Issued : PublishProgress(s) \/ RetainTask(s) \/ Settle(s)
         \/ Quiesces
  PROVE  TypeOK'
<1>1. ASSUME NEW s \in Issued, PublishProgress(s)
      PROVE  TypeOK'
  <2>1. Issued' = Issued
    BY <1>1, PublishFrame DEF Issued
  <2> QED
    BY <1>1, <2>1, PublishFrame DEF TypeOK, clients, closers
<1>2. ASSUME NEW s \in Issued, RetainTask(s)
      PROVE  TypeOK'
  <2>1. Issued' = Issued
    BY <1>2 DEF Issued, RetainTask
  <2>2. /\ DOMAIN tasks' = DOMAIN tasks \cup {s}
        /\ \A t \in DOMAIN tasks' : tasks'[t] \in {"owned", "taken"}
    BY <1>2 DEF RetainTask, Retained, Extend, TypeOK
  <2>3. worker' \in [Issued -> WorkerPcs]
    BY <1>2 DEF RetainTask, TypeOK, WorkerPcs
  <2> QED
    BY <1>2, <2>1, <2>2, <2>3 DEF TypeOK, RetainTask, closers
<1>3. ASSUME NEW s \in Issued, Settle(s)
      PROVE  TypeOK'
  <2>1. Settles(s, operationOf[s])
    BY <1>3, SettleFrame
  <2>2. Issued' = Issued
    BY <2>1 DEF Issued, Settles
  <2>3. DOMAIN active' \subseteq DOMAIN records' /\ \A o \in DOMAIN active' : active'[o] \in Issued
    BY <2>1 DEF TypeOK, Settles
  <2>4. DOMAIN records' \subseteq OperationIds /\ \A o \in DOMAIN records' : records'[o] \in Snapshot
    BY <2>1 DEF TypeOK, Settles
  <2>5. worker' \in [Issued -> WorkerPcs]
    BY <2>1 DEF TypeOK, WorkerPcs, Settles
  <2> QED
    BY <2>1, <2>2, <2>3, <2>4, <2>5 DEF TypeOK, Settles, ThreadsKeep
<1>4. ASSUME Quiesces
      PROVE  TypeOK'
  <2>1. /\ QuiesceInner
        /\ UNCHANGED <<operationOf, worker, class, handle, returned, toJoin, reaped, outcome>>
        /\ shutdown' \in [Shutdowns -> ShutdownPcs]
    BY <1>4, QuiesceFrame DEF ThreadsKeep
  <2>2. Issued' = Issued
    BY <2>1 DEF Issued, QuiesceInner
  <2>3. DOMAIN records' = DOMAIN records /\ \A o \in DOMAIN records' : records'[o] \in Snapshot
    BY <2>1, QuiesceRecords
  <2> QED
    BY <2>1, <2>2, <2>3 DEF TypeOK, QuiesceInner
<1> QED
  BY <1>1, <1>2, <1>3, <1>4

LEMMA TypeShutdown ==
  ASSUME TypeOK,
         \E h \in Shutdowns :
           ThreadMove(h) \/ TakeHandles(h) \/ HandleIsGone(h) \/ RecordClosed(h)
             \/ \E s \in Issued : JoinWorker(h, s)
  PROVE  TypeOK'
<1> PICK h \in Shutdowns :
      ThreadMove(h) \/ TakeHandles(h) \/ HandleIsGone(h) \/ RecordClosed(h)
        \/ \E s \in Issued : JoinWorker(h, s)
  OBVIOUS
<1>1. CASE ThreadMove(h)
  <2>1. Issued' = Issued
    BY <1>1, ThreadFrame DEF Issued
  <2> QED
    BY <1>1, <2>1, ThreadFrame DEF TypeOK, ThreadsKeep
<1>2. CASE TakeHandles(h)
  <2>1. Issued' = Issued
    BY <1>2 DEF Issued, TakeHandles, Take
  <2> QED
    BY <1>2, <2>1 DEF TypeOK, TakeHandles, Take, clients, ShutdownPcs
<1>3. CASE HandleIsGone(h)
  <2>1. Issued' = Issued
    BY <1>3 DEF Issued, HandleIsGone
  <2>2. DOMAIN tasks' = DOMAIN tasks /\ \A s \in DOMAIN tasks' : tasks'[s] \in {"owned", "taken"}
    BY <1>3 DEF TypeOK, HandleIsGone
  <2> QED
    BY <1>3, <2>1, <2>2 DEF TypeOK, HandleIsGone, clients, ShutdownPcs, ShutdownPanics
<1>4. CASE RecordClosed(h)
  <2>1. Issued' = Issued
    BY <1>4 DEF Issued, RecordClosed, Close
  <2>2. DOMAIN tasks' \subseteq DOMAIN tasks /\ \A s \in DOMAIN tasks' : tasks'[s] = tasks[s]
    BY <1>4 DEF RecordClosed, Close, Remaining, Without
  <2>3. joined' \in Seq(Issued)
    BY <1>4 DEF RecordClosed, Close, TypeOK
  <2>4. shutdown' \in [Shutdowns -> ShutdownPcs] /\ DOMAIN outcome' = Shutdowns
    BY <1>4 DEF RecordClosed, Close, TypeOK, ShutdownPcs, ShutdownPanics
  <2>5. lifecycle' \in {"Running", "Quiescing", "Closed"}
    BY <1>4 DEF RecordClosed, Close
  <2> QED
    BY <1>4, <2>1, <2>2, <2>3, <2>4, <2>5 DEF TypeOK, RecordClosed, Close, clients
<1>5. ASSUME NEW s \in Issued, JoinWorker(h, s)
      PROVE  TypeOK'
  <2>1. Issued' = Issued
    BY <1>5 DEF Issued, JoinWorker, state
  <2>2. Append(reaped[h], s) \in Seq(Issued)
    BY DEF TypeOK
  <2>3. /\ worker' \in [Issued -> WorkerPcs]
        /\ toJoin' \in [Shutdowns -> SUBSET Issued]
        /\ reaped' \in [Shutdowns -> Seq(Issued)]
    BY <1>5, <2>2 DEF JoinWorker, TypeOK, WorkerPcs
  <2> QED
    BY <1>5, <2>1, <2>3 DEF TypeOK, JoinWorker, state
<1> QED
  BY <1>1, <1>2, <1>3, <1>4, <1>5

LEMMA TypeStep ==
  ASSUME TypeOK, WorkerInv, RecordInv, [Next]_vars
  PROVE  TypeOK'
<1>1. CASE UNCHANGED vars
  BY <1>1 DEF TypeOK, Issued, vars, state, clients, closers
<1> QED
  BY <1>1, Steps, TypeReserve, TypeOutside, TypeState, TypeShutdown

-----------------------------------------------------------------------------
(* Every step preserves the workers' invariant. *)

\* The steps that no worker and no handle takes part in.
LEMMA ClientsKept ==
  ASSUME TypeOK, RecordInv,
         \/ \E s \in Issued : PublishProgress(s)
         \/ Quiesces
         \/ \E h \in Shutdowns : ThreadMove(h) \/ TakeHandles(h) \/ HandleIsGone(h) \/ RecordClosed(h)
         \/ UNCHANGED vars
  PROVE  UNCHANGED <<nextSequence, operationOf, worker, class, handle, returned>> /\ Issued' = Issued
<1>1. ASSUME NEW s \in Issued, PublishProgress(s)
      PROVE  UNCHANGED <<nextSequence, operationOf, worker, class, handle, returned>>
  BY <1>1 DEF PublishProgress, Push, clients
<1>2. ASSUME Quiesces
      PROVE  UNCHANGED <<nextSequence, operationOf, worker, class, handle, returned>>
  BY <1>2, QuiesceFrame DEF QuiesceInner
<1>3. ASSUME NEW h \in Shutdowns,
             ThreadMove(h) \/ TakeHandles(h) \/ HandleIsGone(h) \/ RecordClosed(h)
      PROVE  UNCHANGED <<nextSequence, operationOf, worker, class, handle, returned>>
  BY <1>3, ThreadFrame DEF TakeHandles, Take, HandleIsGone, RecordClosed, Close, clients
<1>4. CASE UNCHANGED vars
  BY <1>4 DEF vars, state, clients, Issued
<1> QED
  BY <1>1, <1>2, <1>3, <1>4 DEF Issued

LEMMA WorkerReserve ==
  ASSUME TypeOK, WorkerInv, NEW op \in OperationIds, Reserve(op)
  PROVE  WorkerInv'
<1> SUFFICES ASSUME NEW s \in Issued'
             PROVE  /\ worker'[s] \in {"unspawned", "commandRecv"} => class'[s] = None
                    /\ worker'[s] \in {"settling", "releasedSend", "exitRecv", "exited", "joined"}
                         => class'[s] \in TerminalClasses
                    /\ handle'[s].released = "received" \/ returned'[s] # NoSnapshot => Settled(s)'
                    /\ returned'[s] # NoSnapshot => returned'[s].sequence \in Issued'
  BY DEF WorkerInv
<1>1. /\ Issued' = Issued \cup {nextSequence}
      /\ nextSequence \notin Issued
      /\ worker' = Extend(worker, nextSequence, "unspawned")
      /\ class' = Extend(class, nextSequence, None)
      /\ handle' = Extend(handle, nextSequence,
           [command |-> "kept", released |-> "kept", allowExit |-> "kept"])
      /\ returned' = Extend(returned, nextSequence, NoSnapshot)
  BY IssuedGrows, NextIsNew DEF Reserve, Admission
<1>2. CASE s = nextSequence
  BY <1>1, <1>2 DEF Extend
<1>3. CASE s \in Issued
  <2>1. worker'[s] = worker[s] /\ class'[s] = class[s] /\ handle'[s] = handle[s] /\ returned'[s] = returned[s]
    BY <1>1, <1>3 DEF Extend, TypeOK
  <2> QED
    BY <1>1, <1>3, <2>1 DEF WorkerInv, Settled
<1> QED
  BY <1>1, <1>2, <1>3

LEMMA WorkerOutside ==
  ASSUME TypeOK, WorkerInv, RecordInv, NEW s \in Issued, Outside(s)
  PROVE  WorkerInv'
<1>1. OutsideKeeps /\ Issued' = Issued
  BY OutsideFrame DEF OutsideKeeps, Issued
<1> SUFFICES ASSUME NEW t \in Issued
             PROVE  /\ worker'[t] \in {"unspawned", "commandRecv"} => class'[t] = None
                    /\ worker'[t] \in {"settling", "releasedSend", "exitRecv", "exited", "joined"}
                         => class'[t] \in TerminalClasses
                    /\ handle'[t].released = "received" \/ returned'[t] # NoSnapshot => Settled(t)
                    /\ returned'[t] # NoSnapshot => returned'[t].sequence \in Issued
  BY <1>1 DEF WorkerInv, OutsideKeeps
<1> USE DEF TypeOK, WorkerInv
<1>2. ASSUME NEW c \in TerminalClasses, Command(s, c)
      PROVE  /\ worker'[t] \in {"unspawned", "commandRecv"} => class'[t] = None
             /\ worker'[t] \in {"settling", "releasedSend", "exitRecv", "exited", "joined"}
                  => class'[t] \in TerminalClasses
             /\ handle'[t].released = handle[t].released /\ returned' = returned
  BY <1>2 DEF Command
<1>3. CASE \E c \in TerminalClasses : Command(s, c)
  BY <1>2, <1>3
<1>4. CASE AwaitReleased(s) \/ TimeoutReleased(s) \/ DropHandle(s)
  <2>1. handle[s] \in Handle
    OBVIOUS
  <2>2. handle'[t].released = "received" => handle[t].released = "received"
    <3>1. \A v \in {"waiting", "gone"} : [handle[s] EXCEPT !.released = v].released = v
      BY <2>1 DEF Handle
    <3>2. CASE AwaitReleased(s) \/ TimeoutReleased(s)
      BY <3>1, <3>2 DEF AwaitReleased, TimeoutReleased
    <3>3. CASE DropHandle(s)
      BY <3>3 DEF DropHandle
    <3> QED
      BY <1>4, <3>2, <3>3
  <2>3. UNCHANGED <<worker, class, returned>>
    BY <1>4 DEF AwaitReleased, TimeoutReleased, DropHandle
  <2> QED
    BY <2>2, <2>3
<1>5. CASE AnnounceReleased(s) \/ AllowExit(s)
  BY <1>5 DEF AnnounceReleased, AllowExit, Settled
<1>6. CASE WorkerPanics(s)
  BY <1>6 DEF WorkerPanics
<1>7. CASE ReadReleased(s)
  <2>1. records[operationOf[s]].sequence \in Issued
    BY DEF RecordInv
  <2> QED
    BY <1>7, <2>1 DEF ReadReleased, Lookup
<1> QED
  BY <1>3, <1>4, <1>5, <1>6, <1>7 DEF Outside

LEMMA WorkerStepInv ==
  ASSUME TypeOK, WorkerInv, RecordInv, [Next]_vars
  PROVE  WorkerInv'
<1>1. CASE \/ \E s \in Issued : PublishProgress(s)
           \/ Quiesces
           \/ \E h \in Shutdowns : ThreadMove(h) \/ TakeHandles(h) \/ HandleIsGone(h) \/ RecordClosed(h)
           \/ UNCHANGED vars
  BY <1>1, ClientsKept DEF WorkerInv, Settled
<1>2. ASSUME NEW s \in Issued, NEW from, NEW to,
             UNCHANGED <<nextSequence, class, handle, returned>>,
             worker[s] = from, worker' = [worker EXCEPT ![s] = to],
             <<from, to>> \in {<<"unspawned", "commandRecv">>, <<"settling", "releasedSend">>,
                               <<"exited", "joined">>}
      PROVE  WorkerInv'
  <2>1. Issued' = Issued
    BY <1>2 DEF Issued
  <2> QED
    BY <1>2, <2>1 DEF TypeOK, WorkerInv, Settled
<1>3. ASSUME NEW s \in Issued, RetainTask(s)
      PROVE  WorkerInv'
  BY <1>2, <1>3 DEF RetainTask
<1>4. ASSUME NEW s \in Issued, Settle(s)
      PROVE  WorkerInv'
  <2>1. Settles(s, operationOf[s])
    BY <1>4, SettleFrame
  <2> QED
    BY <1>2, <2>1 DEF Settles
<1>5. ASSUME NEW h \in Shutdowns, NEW s \in Issued, JoinWorker(h, s)
      PROVE  WorkerInv'
  BY <1>2, <1>5 DEF JoinWorker, state
<1> QED
  BY <1>1, <1>3, <1>4, <1>5, Steps, WorkerReserve, WorkerOutside

-----------------------------------------------------------------------------
(* Every step preserves the agreement of records and slots. *)

\* What RecordsFollowActive says of one record.
Shows(op, r) ==
  /\ operationOf[r.sequence] = op
  /\ \A s \in Issued : operationOf[s] = op => s <= r.sequence
  /\ op \in DOMAIN active =>
       /\ active[op] = r.sequence /\ r.phase = "Running" /\ ~Settled(r.sequence)
       /\ lifecycle # "Running" => r.cancellationRequested
  /\ op \notin DOMAIN active =>
       /\ r.phase = "Released" /\ Settled(r.sequence)
       /\ r.terminal = class[r.sequence] /\ r.terminalSequence = r.sequence

LEMMA RecordReserve ==
  ASSUME TypeOK, RecordInv, NEW op \in OperationIds, Reserve(op)
  PROVE  RecordInv'
<1>1. PICK n : n = nextSequence
  OBVIOUS
<1>2. /\ Issued' = Issued \cup {n}
      /\ n \in Attempts /\ n \notin Issued
      /\ n \in Nat /\ \A s \in Issued : s \in Nat /\ s < n
      /\ op \notin DOMAIN active
      /\ lifecycle = "Running" /\ lifecycle' = lifecycle
  BY <1>1, IssuedGrows, NextIsNew DEF Reserve, Admission
<1>3. /\ DOMAIN records' = DOMAIN records \cup {op}
      /\ DOMAIN active' = DOMAIN active \cup {op}
      /\ active'[op] = n
      /\ records'[op] = [NoSnapshot EXCEPT !.sequence = n]
      /\ \A o \in DOMAIN records : o # op => records'[o] = records[o]
      /\ \A o \in DOMAIN active : o # op => active'[o] = active[o]
  BY <1>1 DEF Reserve, Admission, Extend
<1>4. records'[op].sequence = n /\ records'[op].phase = "Running"
  BY <1>2, <1>3, NewSnapshot
<1>5. /\ operationOf'[n] = op /\ class'[n] = None
      /\ \A s \in Issued : /\ operationOf'[s] = operationOf[s]
                           /\ class'[s] = class[s] /\ worker'[s] = worker[s]
  BY <1>1, <1>2 DEF Reserve, Admission, Extend, TypeOK
<1>6. ~Settled(n)' /\ \A s \in Issued : Settled(s)' <=> Settled(s)
  BY <1>5 DEF Settled
<1>7. \A o \in DOMAIN records' : records'[o].sequence \in Issued'
  BY <1>2, <1>3, <1>4 DEF RecordInv
<1>8. ASSUME NEW s \in Issued'
      PROVE  operationOf'[s] \in DOMAIN records' /\ (~Settled(s)' => IsActive(s)')
  <2>1. CASE s = n
    BY <1>3, <1>5, <2>1 DEF IsActive
  <2>2. CASE s \in Issued
    <3>1. operationOf[s] \in DOMAIN records /\ (~Settled(s) => IsActive(s))
      BY <2>2 DEF RecordInv
    <3> QED
      BY <1>2, <1>3, <1>5, <1>6, <2>2, <3>1 DEF IsActive
  <2> QED
    BY <1>2, <2>1, <2>2
<1>9. RecordsFollowActive'
  <2> SUFFICES ASSUME NEW o \in DOMAIN records', NEW r, r = records'[o]
               PROVE  Shows(o, r)'
    BY DEF RecordsFollowActive, Shows
  <2>1. CASE o = op
    <3>1. r.sequence = n /\ r.phase = "Running"
      BY <1>4, <2>1
    <3>2. \A s \in Issued' : s <= n
      BY <1>2
    <3> QED
      BY <1>2, <1>3, <1>5, <1>6, <2>1, <3>1, <3>2 DEF Shows
  <2>2. CASE o # op
    <3>1. /\ o \in DOMAIN records /\ r = records[o] /\ r.sequence \in Issued
          /\ o \in DOMAIN active' <=> o \in DOMAIN active
          /\ o \in DOMAIN active => active'[o] = active[o]
      BY <1>3, <2>2 DEF RecordInv
    <3>2. Shows(o, r)
      BY <3>1 DEF RecordInv, RecordsFollowActive, Shows
    <3> QED
      BY <1>2, <1>5, <1>6, <2>2, <3>1, <3>2 DEF Shows
  <2> QED
    BY <2>1, <2>2
<1> QED
  BY <1>7, <1>8, <1>9 DEF RecordInv

\* Steps that keep what a record says of its attempt.
LEMMA RecordKept ==
  ASSUME TypeOK, RecordInv,
         UNCHANGED <<nextSequence, operationOf>>,
         lifecycle' # "Running" => lifecycle # "Running" \/ DOMAIN active = {},
         DOMAIN records' = DOMAIN records,
         \A o \in DOMAIN records :
           /\ records'[o].sequence = records[o].sequence
           /\ records'[o].phase = records[o].phase
           /\ records'[o].cancellationRequested = records[o].cancellationRequested
           /\ records'[o].terminal = records[o].terminal
           /\ records'[o].terminalSequence = records[o].terminalSequence,
         active' = active,
         \A s \in Issued : (Settled(s)' <=> Settled(s)) /\ (Settled(s) => class'[s] = class[s])
  PROVE  RecordInv'
<1>1. Issued' = Issued
  BY DEF Issued
<1>2. RecordsFollowActive'
  BY <1>1 DEF RecordInv, RecordsFollowActive
<1>3. \A s \in Issued' : operationOf'[s] \in DOMAIN records' /\ (~Settled(s)' => IsActive(s)')
  BY <1>1 DEF RecordInv, IsActive
<1> QED
  BY <1>1, <1>2, <1>3 DEF RecordInv

LEMMA RecordSettle ==
  ASSUME TypeOK, WorkerInv, RecordInv, NEW s \in Issued, Settle(s)
  PROVE  RecordInv'
<1>1. Settles(s, operationOf[s])
  BY SettleFrame
<1> DEFINE op == operationOf[s]
<1>2. Issued' = Issued
  BY <1>1 DEF Settles, Issued
<1>3. /\ Settled(s)'
      /\ \A t \in Issued \ {s} : Settled(t)' <=> Settled(t)
      /\ class' = class
  BY <1>1 DEF Settles, Settled, TypeOK
<1>4. \A o \in DOMAIN records' : records'[o].sequence = records[o].sequence
  BY <1>1 DEF Settles
<1>5. op \in DOMAIN active /\ active[op] = s
  BY <1>1 DEF Settles, RecordInv, RecordsFollowActive, TypeOK
<1>6. ASSUME NEW t \in Issued
      PROVE  operationOf'[t] \in DOMAIN records' /\ (~Settled(t)' => IsActive(t)')
  BY <1>1, <1>3, <1>5 DEF Settles, RecordInv, IsActive
<1>7. RecordsFollowActive'
  <2> SUFFICES ASSUME NEW o \in DOMAIN records', NEW r, r = records'[o]
               PROVE  Shows(o, r)'
    BY DEF RecordsFollowActive, Shows
  <2>1. o \in DOMAIN records /\ records[o].sequence \in Issued /\ Shows(o, records[o])
    BY <1>1 DEF Settles, RecordInv, RecordsFollowActive, Shows
  <2>2. CASE o = op
    <3>1. /\ r.sequence = s /\ r.phase = "Released"
          /\ r.terminal = class[s] /\ r.terminalSequence = s
          /\ o \notin DOMAIN active' /\ operationOf' = operationOf
      BY <1>1, <2>2 DEF Settles
    <3>2. \A t \in Issued : operationOf[t] = o => t <= s
      BY <1>1, <2>1, <2>2 DEF Settles, Shows
    <3> QED
      BY <1>2, <1>3, <2>2, <3>1, <3>2 DEF Shows
  <2>3. CASE o # op
    <3>1. /\ r = records[o]
          /\ o \in DOMAIN active' <=> o \in DOMAIN active
          /\ o \in DOMAIN active => active'[o] = active[o]
          /\ operationOf' = operationOf /\ lifecycle' = lifecycle
      BY <1>1, <2>3 DEF Settles
    <3>2. r.sequence \in Issued \ {s}
      BY <2>1, <2>3, <3>1 DEF Shows
    <3> QED
      BY <1>2, <1>3, <2>1, <3>1, <3>2 DEF Shows
  <2> QED
    BY <2>2, <2>3
<1> QED
  BY <1>1, <1>2, <1>4, <1>6, <1>7 DEF Settles, RecordInv

LEMMA RecordQuiesces ==
  ASSUME TypeOK, RecordInv, Quiesces
  PROVE  RecordInv'
<1>1. QuiesceInner /\ UNCHANGED <<operationOf, worker, class>>
  BY QuiesceFrame
<1>2. Issued' = Issued /\ active' = active
  BY <1>1 DEF QuiesceInner, Issued
<1>3. \A s : (Settled(s)' <=> Settled(s)) /\ (IsActive(s)' <=> IsActive(s))
  BY <1>1, <1>2 DEF Settled, IsActive
<1>4. /\ DOMAIN records' = DOMAIN records
      /\ \A o \in DOMAIN records :
           /\ records'[o].sequence = records[o].sequence
           /\ records'[o].phase = records[o].phase
           /\ records'[o].terminal = records[o].terminal
           /\ records'[o].terminalSequence = records[o].terminalSequence
  BY <1>1, QuiesceRecords
<1>5. ASSUME NEW o \in DOMAIN active
      PROVE  records'[o].cancellationRequested
  <2>1. CASE lifecycle = "Running"
    BY <1>1, <1>5, <2>1, QuiesceRecords DEF TypeOK
  <2>2. CASE lifecycle # "Running"
    <3>1. records'[o] = records[o] /\ o \in DOMAIN records
      BY <1>1, <1>5, <2>2, QuiesceRecords DEF TypeOK
    <3>2. records[o].cancellationRequested
      BY <1>5, <2>2, <3>1 DEF RecordInv, RecordsFollowActive
    <3> QED
      BY <3>1, <3>2
  <2> QED
    BY <2>1, <2>2
<1>6. RecordsFollowActive'
  BY <1>1, <1>2, <1>3, <1>4, <1>5 DEF RecordInv, RecordsFollowActive
<1> QED
  BY <1>1, <1>2, <1>3, <1>4, <1>6 DEF RecordInv

LEMMA RecordStep ==
  ASSUME TypeOK, WorkerInv, RecordInv, StageInv, [Next]_vars
  PROVE  RecordInv'
<1>1. ASSUME NEW s \in Issued, Outside(s)
      PROVE  RecordInv'
  <2>1. OutsideKeeps
    BY <1>1, OutsideFrame
  <2> QED
    BY <2>1, RecordKept DEF OutsideKeeps
<1>2. ASSUME NEW s \in Issued, PublishProgress(s)
      PROVE  RecordInv'
  BY <1>2, PublishFrame, RecordKept DEF Settled, clients
<1>3. ASSUME UNCHANGED <<nextSequence, operationOf, records, active, class>>,
             lifecycle' = lifecycle \/ DOMAIN active = {},
             \A s \in Issued : Settled(s)' <=> Settled(s)
      PROVE  RecordInv'
  BY <1>3, RecordKept
<1>4. ASSUME NEW s \in Issued, RetainTask(s)
      PROVE  RecordInv'
  BY <1>3, <1>4 DEF RetainTask, TypeOK, Settled
<1>5. ASSUME NEW h \in Shutdowns, ThreadMove(h) \/ TakeHandles(h) \/ HandleIsGone(h)
      PROVE  RecordInv'
  BY <1>3, <1>5, ThreadFrame DEF TakeHandles, Take, HandleIsGone, Settled, clients
<1>6. ASSUME NEW h \in Shutdowns, NEW s \in Issued, JoinWorker(h, s)
      PROVE  RecordInv'
  BY <1>3, <1>6 DEF JoinWorker, Settled, state, TypeOK
<1>7. ASSUME NEW h \in Shutdowns, RecordClosed(h)
      PROVE  RecordInv'
  <2>1. DOMAIN active = {}
    BY <1>7 DEF RecordClosed, StageInv, Took
  <2> QED
    BY <1>3, <1>7, <2>1 DEF RecordClosed, Close, Settled, clients
<1>8. CASE UNCHANGED vars
  BY <1>3, <1>8 DEF vars, state, clients, Settled
<1> QED
  BY <1>1, <1>2, <1>4, <1>5, <1>6, <1>7, <1>8, Steps, RecordReserve, RecordSettle, RecordQuiesces

-----------------------------------------------------------------------------
(* Every step preserves the order of the stages, the lists and the tasks. *)

\* With nothing active every worker has been spawned and has settled.
LEMMA AllSettled ==
  ASSUME TypeOK, WorkerInv, RecordInv, DOMAIN active = {}
  PROVE  \A s \in Issued : Settled(s) /\ worker[s] \notin {"unspawned", "commandRecv", "settling"}
BY DEF WorkerInv, RecordInv, IsActive, Settled

LEMMA StageStep ==
  ASSUME TypeOK, WorkerInv, RecordInv, JoinInv, StageInv, [Next]_vars
  PROVE  StageInv'
<1>1. ASSUME lifecycle' = lifecycle, DOMAIN active' \subseteq DOMAIN active,
             DOMAIN tasks' = DOMAIN tasks, ThreadsKeep,
             \A g \in Shutdowns :
               shutdown'[g] \notin {"idle", "quiescing"} => shutdown[g] \notin {"idle", "quiescing"}
      PROVE  StageInv'
  BY <1>1 DEF StageInv, ThreadsKeep
<1>2. shutdown' = shutdown => ThreadsKeep
  BY DEF ThreadsKeep, TypeOK
<1>3. ASSUME NEW op \in OperationIds, Reserve(op)
      PROVE  StageInv'
  BY <1>3 DEF Reserve, Admission, StageInv, closers, Took, Reported
<1>4. ASSUME NEW s \in Issued, Outside(s)
      PROVE  StageInv'
  <2>1. OutsideKeeps
    BY <1>4, OutsideFrame
  <2> QED
    BY <1>1, <1>2, <2>1 DEF OutsideKeeps
<1>5. ASSUME NEW s \in Issued, PublishProgress(s)
      PROVE  StageInv'
  BY <1>1, <1>2, <1>5 DEF PublishProgress, Push, closers
<1>6. ASSUME NEW s \in Issued, RetainTask(s)
      PROVE  StageInv'
  <2>1. DOMAIN active # {}
    BY <1>6, AllSettled DEF RetainTask
  <2> QED
    BY <1>6, <2>1 DEF RetainTask, StageInv, closers
<1>7. ASSUME NEW s \in Issued, Settle(s)
      PROVE  StageInv'
  <2>1. Settles(s, operationOf[s])
    BY <1>7, SettleFrame
  <2> QED
    BY <1>1, <2>1 DEF Settles
<1>8. CASE Quiesces
  <2>1. QuiesceInner /\ ThreadsKeep
    BY <1>8, QuiesceFrame
  <2>2. /\ lifecycle' = IF lifecycle = "Running" THEN "Quiescing" ELSE lifecycle
        /\ UNCHANGED <<active, tasks>>
    BY <2>1 DEF QuiesceInner
  <2> QED
    BY <2>1, <2>2 DEF StageInv, ThreadsKeep
<1>9. ASSUME NEW h \in Shutdowns, ThreadMove(h)
      PROVE  StageInv'
  BY <1>1, <1>9, ThreadFrame
<1>10. ASSUME NEW h \in Shutdowns, TakeHandles(h) \/ HandleIsGone(h)
       PROVE  StageInv'
  <2>1. /\ shutdown[h] = "draining" /\ DOMAIN active = {}
        /\ UNCHANGED <<lifecycle, active>> /\ DOMAIN tasks' = DOMAIN tasks
        /\ shutdown' = [shutdown EXCEPT ![h] = "joining"] \/ shutdown' = [shutdown EXCEPT ![h] = "noHandle"]
    BY <1>10 DEF TakeHandles, Take, HandleIsGone
  <2> QED
    BY <2>1 DEF StageInv, TypeOK, Took, Reported
<1>11. ASSUME NEW h \in Shutdowns, NEW s \in Issued, JoinWorker(h, s)
       PROVE  StageInv'
  BY <1>1, <1>2, <1>11 DEF JoinWorker, state
<1>12. ASSUME NEW h \in Shutdowns, RecordClosed(h)
       PROVE  StageInv'
  <2>1. /\ shutdown[h] = "joining" /\ toJoin[h] = {}
        /\ active' = active /\ lifecycle' = "Closed"
        /\ tasks' = Without(tasks, Members(reaped[h]))
        /\ shutdown' = [shutdown EXCEPT ![h] = "done"] \/ shutdown' = [shutdown EXCEPT ![h] = "unheard"]
    BY <1>12 DEF RecordClosed, Close, Remaining
  <2>2. DOMAIN tasks' = {} /\ DOMAIN active' = {}
    BY <2>1 DEF JoinInv, StageInv, Took, Without
  <2> QED
    BY <2>1, <2>2 DEF StageInv, TypeOK, Took
<1>13. CASE UNCHANGED vars
  BY <1>1, <1>2, <1>13 DEF vars, state, closers
<1> QED
  BY <1>3, <1>4, <1>5, <1>6, <1>7, <1>8, <1>9, <1>10, <1>11, <1>12, <1>13, Steps

LEMMA ListStep ==
  ASSUME TypeOK, WorkerInv, RecordInv, ListInv, [Next]_vars
  PROVE  ListInv'
<1>1. ASSUME UNCHANGED <<nextSequence, expected>>
      PROVE  ListInv'
  BY <1>1 DEF ListInv, Issued
<1>2. ASSUME NEW op \in OperationIds, Reserve(op)
      PROVE  ListInv'
  <2>1. nextSequence' = nextSequence + 1 /\ expected' = Append(expected, nextSequence)
    BY <1>2 DEF Reserve, Admission
  <2>2. nextSequence \in Nat \ {0} /\ expected \in Seq(Issued)
    BY DEF TypeOK
  <2>3. expected = [i \in 1 .. (nextSequence - 1) |-> i]
    BY DEF ListInv, Issued
  <2>4. Len(expected) = nextSequence - 1
    BY <2>2, <2>3
  <2>5. expected' = [i \in 1 .. nextSequence |-> i]
    BY <2>1, <2>2, <2>3, <2>4
  <2> QED
    BY <2>1, <2>2, <2>5 DEF ListInv, Issued
<1>3. ASSUME NEW s \in Issued, Outside(s) \/ PublishProgress(s) \/ RetainTask(s) \/ Settle(s)
      PROVE  ListInv'
  BY <1>1, <1>3, OutsideFrame, SettleFrame DEF OutsideKeeps, PublishProgress, Push, RetainTask, Settles
<1>4. CASE Quiesces
  BY <1>1, <1>4, QuiesceFrame DEF QuiesceInner
<1>5. ASSUME NEW h \in Shutdowns, ThreadMove(h) \/ TakeHandles(h) \/ HandleIsGone(h) \/ RecordClosed(h)
      PROVE  ListInv'
  BY <1>1, <1>5, ThreadFrame DEF TakeHandles, Take, HandleIsGone, RecordClosed, Close
<1>6. ASSUME NEW h \in Shutdowns, NEW s \in Issued, JoinWorker(h, s)
      PROVE  ListInv'
  BY <1>1, <1>6 DEF JoinWorker, state
<1>7. CASE UNCHANGED vars
  BY <1>1, <1>7 DEF vars, state
<1> QED
  BY <1>2, <1>3, <1>4, <1>5, <1>6, <1>7, Steps

-----------------------------------------------------------------------------
(* Every step preserves the bookkeeping of tasks and joins. *)

LEMMA TaskStep ==
  ASSUME TypeOK, WorkerInv, RecordInv, TaskInv, JoinInv, [Next]_vars
  PROVE  TaskInv'
<1>1. ASSUME UNCHANGED <<nextSequence, joined>>, DOMAIN tasks' = DOMAIN tasks,
             \A s \in DOMAIN tasks : tasks'[s] = "owned" => tasks[s] = "owned",
             \A s \in Issued : /\ worker'[s] = "unspawned" <=> worker[s] = "unspawned"
                               /\ worker'[s] = "joined" => worker[s] = "joined" \/ s \notin DOMAIN tasks \/ tasks[s] = "taken"
      PROVE  TaskInv'
  <2>1. Issued' = Issued /\ DOMAIN tasks \subseteq Issued
    BY <1>1 DEF Issued, TypeOK
  <2> QED
    BY <1>1, <2>1 DEF TaskInv
<1>2. ASSUME NEW op \in OperationIds, Reserve(op)
      PROVE  TaskInv'
  <2>1. /\ Issued' = Issued \cup {nextSequence} /\ nextSequence \notin Issued
        /\ worker' = Extend(worker, nextSequence, "unspawned")
        /\ UNCHANGED <<tasks, joined>>
    BY <1>2, IssuedGrows, NextIsNew DEF Reserve, Admission
  <2>2. worker'[nextSequence] = "unspawned" /\ \A s \in Issued : worker'[s] = worker[s]
    BY <2>1 DEF Extend, TypeOK
  <2>3. nextSequence \notin DOMAIN tasks /\ DOMAIN tasks \subseteq Issued
    BY <2>1 DEF TypeOK
  <2> QED
    BY <2>1, <2>2, <2>3 DEF TaskInv
<1>3. ASSUME NEW s \in Issued, Outside(s)
      PROVE  TaskInv'
  <2>1. OutsideKeeps
    BY <1>3, OutsideFrame
  <2> QED
    BY <1>1, <2>1 DEF OutsideKeeps
<1>4. ASSUME NEW s \in Issued, PublishProgress(s)
      PROVE  TaskInv'
  BY <1>1, <1>4 DEF PublishProgress, Push, clients
<1>5. ASSUME NEW s \in Issued, RetainTask(s)
      PROVE  TaskInv'
  <2>1. /\ worker[s] = "unspawned" /\ worker' = [worker EXCEPT ![s] = "commandRecv"]
        /\ DOMAIN tasks' = DOMAIN tasks \cup {s}
        /\ \A t \in DOMAIN tasks : t # s => tasks'[t] = tasks[t]
        /\ UNCHANGED <<nextSequence, joined>> /\ Issued' = Issued
    BY <1>5 DEF RetainTask, Retained, Extend, Issued
  <2>2. s \notin Members(joined)
    BY <2>1 DEF JoinInv
  <2> QED
    BY <2>1, <2>2 DEF TaskInv, TypeOK
<1>6. ASSUME NEW s \in Issued, Settle(s)
      PROVE  TaskInv'
  <2>1. Settles(s, operationOf[s])
    BY <1>6, SettleFrame
  <2>2. /\ UNCHANGED <<nextSequence, joined, tasks>>
        /\ worker[s] = "settling" /\ worker' = [worker EXCEPT ![s] = "releasedSend"]
    BY <2>1 DEF Settles
  <2> QED
    BY <1>1, <2>2 DEF TypeOK
<1>7. CASE Quiesces
  BY <1>1, <1>7, QuiesceFrame DEF QuiesceInner
<1>8. ASSUME NEW h \in Shutdowns, ThreadMove(h) \/ TakeHandles(h) \/ HandleIsGone(h)
      PROVE  TaskInv'
  BY <1>1, <1>8, ThreadFrame DEF TakeHandles, Take, HandleIsGone, clients
<1>9. ASSUME NEW h \in Shutdowns, NEW s \in Issued, JoinWorker(h, s)
      PROVE  TaskInv'
  <2>1. /\ UNCHANGED <<nextSequence, joined, tasks>>
        /\ shutdown[h] = "joining" /\ s \in toJoin[h]
        /\ worker[s] = "exited" /\ worker' = [worker EXCEPT ![s] = "joined"]
    BY <1>9 DEF JoinWorker, state
  <2>2. s \in DOMAIN tasks /\ tasks[s] = "taken"
    BY <2>1 DEF JoinInv, Took
  <2> QED
    BY <1>1, <2>1, <2>2 DEF TypeOK
<1>10. ASSUME NEW h \in Shutdowns, RecordClosed(h)
       PROVE  TaskInv'
  <2>1. /\ tasks' = Without(tasks, Members(reaped[h])) /\ joined' = joined \o reaped[h]
        /\ UNCHANGED <<nextSequence, worker>> /\ Issued' = Issued
    BY <1>10 DEF RecordClosed, Close, Remaining, clients, Issued
  <2>2. joined \in Seq(Issued) /\ reaped[h] \in Seq(Issued)
    BY DEF TypeOK
  <2>3. Members(joined') = Members(joined) \cup Members(reaped[h])
    BY <2>1, <2>2, JoinedMembers
  <2>4. DOMAIN tasks' = DOMAIN tasks \ Members(reaped[h]) /\ \A s \in DOMAIN tasks' : tasks'[s] = tasks[s]
    BY <2>1 DEF Without
  <2> QED
    BY <2>1, <2>3, <2>4 DEF TaskInv
<1>11. CASE UNCHANGED vars
  BY <1>1, <1>11 DEF vars, state, clients
<1> QED
  BY <1>2, <1>3, <1>4, <1>5, <1>6, <1>7, <1>8, <1>9, <1>10, <1>11, Steps

\* What JoinInv says of one shutdown.
JoinsOf(h) ==
  /\ IsSet(reaped[h]) /\ \A s \in Members(reaped[h]) : worker[s] = "joined"
  /\ \A s \in toJoin[h] : worker[s] # "joined"
  /\ shutdown[h] \notin Took => toJoin[h] = {}
  /\ shutdown[h] \notin Took \cup Reported => reaped[h] = << >>
  /\ shutdown[h] \in Took =>
       /\ toJoin[h] \cup Members(reaped[h]) = DOMAIN tasks
       /\ \A s \in DOMAIN tasks : tasks[s] = "taken"

LEMMA JoinTake ==
  ASSUME TypeOK, JoinInv, TaskInv, NEW h \in Shutdowns, TakeHandles(h)
  PROVE  JoinInv'
<1>1. /\ shutdown[h] = "draining" /\ \A s \in DOMAIN tasks : tasks[s] = "owned"
      /\ DOMAIN tasks' = DOMAIN tasks /\ \A s \in DOMAIN tasks : tasks'[s] = "taken"
      /\ toJoin' = [toJoin EXCEPT ![h] = DOMAIN tasks]
      /\ shutdown' = [shutdown EXCEPT ![h] = "joining"]
      /\ UNCHANGED <<joined, worker, reaped>>
  BY DEF TakeHandles, Take, clients
<1>2. reaped[h] = << >> /\ Members(<< >>) = {} /\ IsSet(<< >>)
  <2>1. reaped[h] = << >>
    BY <1>1 DEF JoinInv, Took, Reported
  <2>2. Members(<< >>) = {} /\ IsSet(<< >>)
    BY DEF Members, IsSet
  <2> QED
    BY <2>1, <2>2
<1>3. \A g \in Shutdowns : shutdown[g] \in Took => DOMAIN tasks = {}
  BY <1>1 DEF JoinInv
<1>4. \A s \in DOMAIN tasks : worker[s] # "joined"
  BY <1>1 DEF TaskInv
<1>5. shutdown'[h] = "joining" /\ toJoin'[h] = DOMAIN tasks
      /\ \A g \in Shutdowns \ {h} : shutdown'[g] = shutdown[g] /\ toJoin'[g] = toJoin[g]
  BY <1>1 DEF TypeOK
<1>6. \A g \in Shutdowns : JoinsOf(g)'
  <2>1. JoinsOf(h)'
    BY <1>1, <1>2, <1>4, <1>5 DEF JoinsOf, Took
  <2>2. ASSUME NEW g \in Shutdowns \ {h}
        PROVE  JoinsOf(g)'
    BY <1>1, <1>3, <1>5, <2>2 DEF JoinInv, JoinsOf
  <2> QED
    BY <2>1, <2>2
<1>7. \A g, k \in Shutdowns :
        g # k /\ shutdown'[g] \in Took /\ shutdown'[k] \in Took => DOMAIN tasks' = {}
  BY <1>1, <1>3, <1>5
<1> QED
  BY <1>1, <1>6, <1>7 DEF JoinInv, JoinsOf

LEMMA JoinJoin ==
  ASSUME TypeOK, JoinInv, NEW h \in Shutdowns, NEW s \in Issued, JoinWorker(h, s)
  PROVE  JoinInv'
<1>1. /\ shutdown[h] = "joining" /\ s \in toJoin[h] /\ worker[s] = "exited"
      /\ worker' = [worker EXCEPT ![s] = "joined"]
      /\ toJoin' = [toJoin EXCEPT ![h] = toJoin[h] \ {s}]
      /\ reaped' = [reaped EXCEPT ![h] = Append(reaped[h], s)]
      /\ UNCHANGED <<tasks, joined, shutdown>>
  BY DEF JoinWorker, state
<1>2. /\ toJoin'[h] = toJoin[h] \ {s} /\ reaped'[h] = Append(reaped[h], s)
      /\ \A g \in Shutdowns \ {h} : toJoin'[g] = toJoin[g] /\ reaped'[g] = reaped[g]
      /\ worker'[s] = "joined" /\ \A t \in Issued \ {s} : worker'[t] = worker[t]
  BY <1>1 DEF TypeOK
<1>3. IsSet(reaped[h]) /\ s \notin Members(reaped[h])
  BY <1>1 DEF JoinInv
<1>4. Members(reaped'[h]) = Members(reaped[h]) \cup {s} /\ IsSet(reaped'[h])
  BY <1>2, <1>3, AppendedMembers DEF TypeOK
<1>5. /\ \A g \in Shutdowns : toJoin[g] \subseteq Issued /\ reaped[g] \in Seq(Issued)
      /\ joined \in Seq(Issued)
  BY DEF TypeOK
<1>6. \A list \in Seq(Issued) : Members(list) \subseteq Issued
  BY DEF Members
<1>7. s \in DOMAIN tasks
  BY <1>1 DEF JoinInv, Took
<1>8. \A g \in Shutdowns \ {h} : s \notin toJoin[g]
  BY <1>1, <1>7 DEF JoinInv, Took
<1>9. JoinsOf(h)'
  <2>1. JoinsOf(h) /\ shutdown[h] \in Took
    BY <1>1 DEF JoinInv, JoinsOf, Took
  <2>2. \A t \in Members(reaped'[h]) : worker'[t] = "joined"
    <3>1. Members(reaped[h]) \subseteq Issued
      BY <1>5, <1>6
    <3> QED
      BY <1>2, <1>4, <2>1, <3>1 DEF JoinsOf
  <2>3. \A t \in toJoin'[h] : worker'[t] # "joined"
    BY <1>2, <1>5, <2>1 DEF JoinsOf
  <2>4. toJoin'[h] \cup Members(reaped'[h]) = DOMAIN tasks
    BY <1>1, <1>2, <1>4, <2>1 DEF JoinsOf
  <2> QED
    BY <1>1, <1>4, <2>1, <2>2, <2>3, <2>4 DEF JoinsOf
<1>10. ASSUME NEW g \in Shutdowns \ {h}
       PROVE  JoinsOf(g)'
  <2>1. JoinsOf(g) /\ toJoin[g] \subseteq Issued \ {s} /\ Members(reaped[g]) \subseteq Issued
    BY <1>5, <1>6, <1>8 DEF JoinInv, JoinsOf
  <2> QED
    BY <1>1, <1>2, <2>1 DEF JoinsOf
<1>11. IsSet(joined) /\ \A t \in Members(joined') : worker'[t] = "joined"
  <2>1. Members(joined) \subseteq Issued
    BY <1>5, <1>6
  <2> QED
    BY <1>1, <1>2, <2>1 DEF JoinInv
<1> QED
  <2>1. \A g \in Shutdowns : JoinsOf(g)'
    BY <1>9, <1>10
  <2>2. \A g, k \in Shutdowns :
          g # k /\ shutdown'[g] \in Took /\ shutdown'[k] \in Took => DOMAIN tasks' = {}
    BY <1>1 DEF JoinInv
  <2>3. joined' = joined
    BY <1>1
  <2> QED
    BY <1>11, <2>1, <2>2, <2>3 DEF JoinInv, JoinsOf

\* A shutdown that joined all it took closes over nothing.
LEMMA ClosesEmpty ==
  ASSUME TypeOK, JoinInv, TaskInv, NEW h \in Shutdowns, RecordClosed(h)
  PROVE  /\ Members(reaped[h]) = DOMAIN tasks
         /\ DOMAIN tasks' = {}
         /\ joined' \in Seq(Issued)
         /\ Members(joined') = Members(joined) \cup DOMAIN tasks
         /\ IsSet(joined')
         /\ DOMAIN tasks = {} => joined' = joined
<1>1. /\ shutdown[h] = "joining" /\ toJoin[h] = {}
      /\ tasks' = Without(tasks, Members(reaped[h])) /\ joined' = joined \o reaped[h]
  BY DEF RecordClosed, Close, Remaining
<1>2. Members(reaped[h]) = DOMAIN tasks
  BY <1>1 DEF JoinInv, Took
<1>3. DOMAIN tasks' = {}
  BY <1>1, <1>2 DEF Without
<1>4. joined \in Seq(Issued) /\ reaped[h] \in Seq(Issued)
  BY DEF TypeOK
<1>5. IsSet(joined) /\ IsSet(reaped[h])
  BY DEF JoinInv
<1>6. Members(joined) \cap DOMAIN tasks = {}
  BY DEF TaskInv, TypeOK
<1>7. ASSUME DOMAIN tasks = {}
      PROVE  joined' = joined
  <2>1. DOMAIN reaped[h] = {}
    BY <1>2, <1>7 DEF Members
  <2>2. DOMAIN reaped[h] = 1 .. Len(reaped[h]) /\ Len(reaped[h]) \in Nat
    BY <1>4
  <2>3. Len(reaped[h]) = 0
    <3>1. 1 \notin DOMAIN reaped[h]
      BY <2>1
    <3> QED
      BY <2>2, <3>1
  <2>4. reaped[h] = << >>
    BY <1>4, <2>3
  <2> QED
    BY <1>1, <1>4, <2>4
<1> QED
  BY <1>1, <1>2, <1>3, <1>4, <1>5, <1>6, <1>7, JoinedMembers

LEMMA JoinClose ==
  ASSUME TypeOK, JoinInv, TaskInv, NEW h \in Shutdowns, RecordClosed(h)
  PROVE  JoinInv'
<1>1. /\ shutdown[h] = "joining" /\ toJoin[h] = {}
      /\ UNCHANGED <<worker, toJoin, reaped>>
      /\ shutdown' = [shutdown EXCEPT ![h] = "done"] \/ shutdown' = [shutdown EXCEPT ![h] = "unheard"]
  BY DEF RecordClosed, Close, clients
<1>2. /\ Members(reaped[h]) = DOMAIN tasks /\ DOMAIN tasks' = {}
      /\ Members(joined') = Members(joined) \cup DOMAIN tasks
      /\ IsSet(joined')
  BY ClosesEmpty
<1>3. /\ shutdown'[h] \in Reported /\ shutdown'[h] \notin Took
      /\ \A g \in Shutdowns \ {h} : shutdown'[g] = shutdown[g]
  BY <1>1 DEF TypeOK, Took, Reported
<1>4. \A t \in Members(joined') : worker'[t] = "joined"
  BY <1>1, <1>2 DEF JoinInv
<1>5. JoinsOf(h)'
  BY <1>1, <1>3 DEF JoinInv, JoinsOf
<1>6. ASSUME NEW g \in Shutdowns \ {h}
      PROVE  JoinsOf(g)'
  <2>1. shutdown[g] \in Took => DOMAIN tasks = {}
    BY <1>1 DEF JoinInv, Took
  <2>2. JoinsOf(g)
    BY DEF JoinInv, JoinsOf
  <2> QED
    BY <1>1, <1>2, <1>3, <2>1, <2>2 DEF JoinsOf
<1> QED
  BY <1>2, <1>4, <1>5, <1>6 DEF JoinInv, JoinsOf

LEMMA JoinStep ==
  ASSUME TypeOK, WorkerInv, RecordInv, TaskInv, JoinInv, StageInv, [Next]_vars
  PROVE  JoinInv'
<1>1. ASSUME UNCHANGED <<tasks, joined, toJoin, reaped>>, ThreadsKeep,
             \A s \in Issued : worker'[s] = "joined" <=> worker[s] = "joined"
      PROVE  JoinInv'
  <2>1. /\ Members(joined) \subseteq Issued
        /\ \A h \in Shutdowns : toJoin[h] \subseteq Issued /\ Members(reaped[h]) \subseteq Issued
    BY DEF TypeOK, Members
  <2>2. ASSUME NEW h \in Shutdowns
        PROVE  JoinsOf(h)'
    <3>1. JoinsOf(h)
      BY DEF JoinInv, JoinsOf
    <3>2. /\ shutdown'[h] \in Took <=> shutdown[h] \in Took
          /\ shutdown'[h] \in Reported <=> shutdown[h] \in Reported
      BY <1>1 DEF ThreadsKeep
    <3> QED
      BY <1>1, <2>1, <3>1, <3>2 DEF JoinsOf
  <2>3. \A g, k \in Shutdowns :
          g # k /\ shutdown'[g] \in Took /\ shutdown'[k] \in Took => DOMAIN tasks' = {}
    BY <1>1 DEF JoinInv, ThreadsKeep
  <2>4. IsSet(joined') /\ \A t \in Members(joined') : worker'[t] = "joined"
    BY <1>1, <2>1 DEF JoinInv
  <2> QED
    BY <2>2, <2>3, <2>4 DEF JoinInv, JoinsOf
<1>2. shutdown' = shutdown => ThreadsKeep
  BY DEF ThreadsKeep, TypeOK
<1>3. ASSUME NEW op \in OperationIds, Reserve(op)
      PROVE  JoinInv'
  <2>1. /\ UNCHANGED <<tasks, joined, toJoin, reaped, shutdown>>
        /\ worker' = Extend(worker, nextSequence, "unspawned") /\ nextSequence \notin Issued
    BY <1>3, NextIsNew DEF Reserve, Admission, closers
  <2>2. \A s \in Issued : worker'[s] = worker[s]
    BY <2>1 DEF Extend, TypeOK
  <2> QED
    BY <1>1, <1>2, <2>1, <2>2
<1>4. ASSUME NEW s \in Issued, Outside(s)
      PROVE  JoinInv'
  <2>1. OutsideKeeps
    BY <1>4, OutsideFrame
  <2> QED
    BY <1>1, <1>2, <2>1 DEF OutsideKeeps
<1>5. ASSUME NEW s \in Issued, PublishProgress(s)
      PROVE  JoinInv'
  BY <1>1, <1>2, <1>5 DEF PublishProgress, Push, clients, closers
<1>6. ASSUME NEW s \in Issued, RetainTask(s)
      PROVE  JoinInv'
  <2>1. /\ worker[s] = "unspawned" /\ worker' = [worker EXCEPT ![s] = "commandRecv"]
        /\ UNCHANGED <<joined, toJoin, reaped, shutdown>>
    BY <1>6 DEF RetainTask, closers
  <2>2. \A h \in Shutdowns : shutdown[h] \notin Took
    BY <2>1, AllSettled DEF StageInv
  <2>3. \A t \in Issued : worker'[t] = "joined" <=> worker[t] = "joined"
    BY <2>1 DEF TypeOK
  <2>4. /\ Members(joined) \subseteq Issued
        /\ \A h \in Shutdowns : toJoin[h] \subseteq Issued /\ Members(reaped[h]) \subseteq Issued
    BY DEF TypeOK, Members
  <2>5. ASSUME NEW h \in Shutdowns
        PROVE  JoinsOf(h)'
    <3>1. JoinsOf(h)
      BY DEF JoinInv, JoinsOf
    <3> QED
      BY <2>1, <2>2, <2>3, <2>4, <3>1 DEF JoinsOf
  <2>6. IsSet(joined') /\ \A t \in Members(joined') : worker'[t] = "joined"
    BY <2>1, <2>3, <2>4 DEF JoinInv
  <2> QED
    BY <2>1, <2>2, <2>5, <2>6 DEF JoinInv, JoinsOf
<1>7. ASSUME NEW s \in Issued, Settle(s)
      PROVE  JoinInv'
  <2>1. Settles(s, operationOf[s])
    BY <1>7, SettleFrame
  <2>2. /\ UNCHANGED <<tasks, joined, toJoin, reaped>> /\ ThreadsKeep
        /\ worker[s] = "settling" /\ worker' = [worker EXCEPT ![s] = "releasedSend"]
    BY <2>1 DEF Settles
  <2> QED
    BY <1>1, <2>2 DEF TypeOK
<1>8. CASE Quiesces
  BY <1>1, <1>8, QuiesceFrame DEF QuiesceInner
<1>9. ASSUME NEW h \in Shutdowns, ThreadMove(h)
      PROVE  JoinInv'
  BY <1>1, <1>9, ThreadFrame
<1>10. ASSUME NEW h \in Shutdowns, HandleIsGone(h)
       PROVE  JoinInv'
  <2>1. /\ shutdown[h] = "draining" /\ shutdown' = [shutdown EXCEPT ![h] = "noHandle"]
        /\ UNCHANGED <<joined, toJoin, reaped, worker>>
        /\ DOMAIN tasks' = DOMAIN tasks
        /\ \A s \in DOMAIN tasks : tasks[s] = "taken" => tasks'[s] = "taken"
    BY <1>10 DEF HandleIsGone, clients
  <2>2. ThreadsKeep
    BY <2>1 DEF ThreadsKeep, TypeOK, Took, Reported, ShutdownPcs, ShutdownPanics
  <2>3. ASSUME NEW g \in Shutdowns
        PROVE  JoinsOf(g)'
    <3>1. JoinsOf(g)
      BY DEF JoinInv, JoinsOf
    <3> QED
      BY <2>1, <2>2, <3>1 DEF JoinsOf, ThreadsKeep
  <2>4. \A g, k \in Shutdowns :
          g # k /\ shutdown'[g] \in Took /\ shutdown'[k] \in Took => DOMAIN tasks' = {}
    BY <2>1, <2>2 DEF JoinInv, ThreadsKeep
  <2>5. IsSet(joined') /\ \A t \in Members(joined') : worker'[t] = "joined"
    BY <2>1 DEF JoinInv
  <2> QED
    BY <2>3, <2>4, <2>5 DEF JoinInv, JoinsOf
<1>11. CASE UNCHANGED vars
  BY <1>1, <1>2, <1>11 DEF vars, state, clients, closers
<1> QED
  BY <1>3, <1>4, <1>5, <1>6, <1>7, <1>8, <1>9, <1>10, <1>11, Steps, JoinTake, JoinJoin, JoinClose

-----------------------------------------------------------------------------
(* Every step preserves what the clients and the shutdowns were told. *)

LEMMA SnapshotRead ==
  ASSUME TypeOK, WorkerInv, RecordInv, SnapshotNotEarlier, NEW s \in Issued, ReadReleased(s)
  PROVE  SnapshotNotEarlier'
<1>1. /\ handle[s].released = "received"
      /\ returned' = [returned EXCEPT ![s] = records[operationOf[s]]]
      /\ UNCHANGED <<nextSequence, operationOf, class>> /\ Issued' = Issued
  BY DEF ReadReleased, Lookup, state, Issued
<1>2. PICK r : r = records[operationOf[s]]
  OBVIOUS
<1>3. /\ operationOf[s] \in DOMAIN records /\ r.sequence \in Issued
      /\ Shows(operationOf[s], r)
  BY <1>2 DEF RecordInv, RecordsFollowActive, Shows
<1>4. Settled(s)
  BY <1>1 DEF WorkerInv
<1>5. s <= r.sequence /\ operationOf[r.sequence] = operationOf[s]
  BY <1>3 DEF Shows
<1>6. CASE r.sequence = s
  <2>1. r.phase = "Released" /\ r.terminal = class[s]
    BY <1>3, <1>4, <1>6 DEF Shows
  <2> QED
    BY <1>1, <1>2, <1>6, <2>1 DEF SnapshotNotEarlier, TypeOK
<1>7. CASE r.sequence # s
  <2>1. r.sequence > s
    BY <1>3, <1>5, <1>7, NextIsNew
  <2> QED
    BY <1>1, <1>2, <1>5, <2>1 DEF SnapshotNotEarlier, TypeOK
<1> QED
  BY <1>6, <1>7

LEMMA SnapshotReserve ==
  ASSUME TypeOK, WorkerInv, SnapshotNotEarlier, NEW op \in OperationIds, Reserve(op)
  PROVE  SnapshotNotEarlier'
<1>1. /\ Issued' = Issued \cup {nextSequence} /\ nextSequence \notin Issued
      /\ operationOf' = Extend(operationOf, nextSequence, op)
      /\ class' = Extend(class, nextSequence, None)
      /\ returned' = Extend(returned, nextSequence, NoSnapshot)
  BY IssuedGrows, NextIsNew DEF Reserve, Admission
<1>2. /\ returned'[nextSequence] = NoSnapshot
      /\ \A s \in Issued : /\ returned'[s] = returned[s] /\ class'[s] = class[s]
                           /\ operationOf'[s] = operationOf[s]
  BY <1>1 DEF Extend, TypeOK
<1>3. \A s \in Issued : returned[s] # NoSnapshot => returned[s].sequence \in Issued
  BY DEF WorkerInv
<1> QED
  BY <1>1, <1>2, <1>3 DEF SnapshotNotEarlier

LEMMA SnapshotStep ==
  ASSUME TypeOK, WorkerInv, RecordInv, SnapshotNotEarlier, [Next]_vars
  PROVE  SnapshotNotEarlier'
<1>1. ASSUME UNCHANGED <<nextSequence, operationOf, returned>>,
             \A s \in Issued : Settled(s) => class'[s] = class[s]
      PROVE  SnapshotNotEarlier'
  <2>1. \A s \in Issued : returned[s] # NoSnapshot => class'[s] = class[s]
    BY <1>1 DEF WorkerInv
  <2> QED
    BY <1>1, <2>1 DEF SnapshotNotEarlier, Issued
<1>2. ASSUME NEW s \in Issued, Outside(s), ~ReadReleased(s)
      PROVE  SnapshotNotEarlier'
  <2>1. OutsideKeeps
    BY <1>2, OutsideFrame
  <2>2. returned' = returned
    BY <1>2 DEF Outside, Command, AwaitReleased, AnnounceReleased, AllowExit, TimeoutReleased,
                DropHandle, WorkerPanics
  <2> QED
    BY <1>1, <2>1, <2>2 DEF OutsideKeeps
<1>3. CASE \/ \E s \in Issued : PublishProgress(s)
           \/ Quiesces
           \/ \E h \in Shutdowns : ThreadMove(h) \/ TakeHandles(h) \/ HandleIsGone(h) \/ RecordClosed(h)
           \/ UNCHANGED vars
  BY <1>1, <1>3, ClientsKept
<1>4. ASSUME NEW s \in Issued, RetainTask(s)
      PROVE  SnapshotNotEarlier'
  BY <1>1, <1>4 DEF RetainTask
<1>5. ASSUME NEW s \in Issued, Settle(s)
      PROVE  SnapshotNotEarlier'
  <2>1. Settles(s, operationOf[s])
    BY <1>5, SettleFrame
  <2> QED
    BY <1>1, <2>1 DEF Settles
<1>6. ASSUME NEW h \in Shutdowns, NEW s \in Issued, JoinWorker(h, s)
      PROVE  SnapshotNotEarlier'
  BY <1>1, <1>6 DEF JoinWorker, state
<1> QED
  BY <1>2, <1>3, <1>4, <1>5, <1>6, Steps, SnapshotRead, SnapshotReserve

\* Once the supervisor is closed nothing changes the facts it reports.
LEMMA ClosedStays ==
  ASSUME IInv, lifecycle = "Closed", [Next]_vars
  PROVE  UNCHANGED <<lifecycle, nextSequence, expected, joined, Facts>>
<1> USE DEF IInv
<1>1. DOMAIN active = {} /\ DOMAIN tasks = {}
  BY DEF StageInv
<1>2. ASSUME UNCHANGED <<lifecycle, nextSequence, active, expected, joined>>, DOMAIN tasks' = DOMAIN tasks
      PROVE  UNCHANGED <<lifecycle, nextSequence, expected, joined, Facts>>
  BY <1>2 DEF Facts
<1>3. ~ \E op \in OperationIds : Reserve(op)
  BY DEF Reserve
<1>4. ASSUME NEW s \in Issued
      PROVE  ~Settle(s) /\ ~RetainTask(s)
  <2>1. worker[s] \notin {"unspawned", "settling"}
    BY <1>1, AllSettled
  <2> QED
    BY <2>1 DEF Settle, Settlement, RetainTask
<1>5. ASSUME NEW s \in Issued, Outside(s) \/ PublishProgress(s)
      PROVE  UNCHANGED <<lifecycle, nextSequence, expected, joined, Facts>>
  BY <1>2, <1>5, OutsideFrame DEF OutsideKeeps, PublishProgress, Push
<1>6. CASE Quiesces
  BY <1>2, <1>6, QuiesceFrame DEF QuiesceInner
<1>7. ASSUME NEW h \in Shutdowns, ThreadMove(h) \/ TakeHandles(h) \/ HandleIsGone(h)
      PROVE  UNCHANGED <<lifecycle, nextSequence, expected, joined, Facts>>
  BY <1>2, <1>7, ThreadFrame DEF TakeHandles, Take, HandleIsGone
<1>8. ASSUME NEW h \in Shutdowns, NEW s \in Issued, JoinWorker(h, s)
      PROVE  UNCHANGED <<lifecycle, nextSequence, expected, joined, Facts>>
  BY <1>2, <1>8 DEF JoinWorker, state
<1>9. ASSUME NEW h \in Shutdowns, RecordClosed(h)
      PROVE  UNCHANGED <<lifecycle, nextSequence, expected, joined, Facts>>
  <2>1. DOMAIN tasks' = {} /\ joined' = joined
    BY <1>1, <1>9, ClosesEmpty
  <2> QED
    BY <1>1, <1>2, <1>9, <2>1 DEF RecordClosed, Close
<1>10. CASE UNCHANGED vars
  BY <1>2, <1>10 DEF vars, state
<1> QED
  BY <1>3, <1>4, <1>5, <1>6, <1>7, <1>8, <1>9, <1>10, Steps

\* The outcome of the shutdown that closes.
LEMMA ClosingOutcome ==
  ASSUME IInv, NEW h \in Shutdowns, RecordClosed(h)
  PROVE  /\ Validates(outcome'[h])
         /\ outcome'[h] = [facts |-> Facts', expected |-> expected', joined |-> joined']
<1> USE DEF IInv
<1>1. /\ shutdown[h] = "joining" /\ lifecycle' = "Closed"
      /\ UNCHANGED <<nextSequence, active, expected>>
      /\ outcome' = [outcome EXCEPT ![h] = [facts |-> Facts', expected |-> expected, joined |-> joined']]
  BY DEF RecordClosed, Close
<1>2. outcome'[h] = [facts |-> Facts', expected |-> expected', joined |-> joined']
  BY <1>1 DEF TypeOK
<1>3. /\ DOMAIN tasks' = {} /\ DOMAIN active' = {}
      /\ IsSet(joined') /\ Members(joined') = Members(joined) \cup DOMAIN tasks
  BY <1>1, ClosesEmpty DEF StageInv, Took
<1>4. Members(expected') = Issued /\ IsSet(expected')
  BY <1>1 DEF ListInv, Members, IsSet
<1>5. Members(joined') = Issued
  <2>1. Members(joined) \subseteq Issued /\ DOMAIN tasks \subseteq Issued
    BY DEF TypeOK, Members
  <2>2. \A s \in Issued : worker[s] # "unspawned"
    BY <1>1, AllSettled DEF StageInv, Took
  <2> QED
    BY <1>3, <2>1, <2>2 DEF TaskInv
<1>6. /\ Facts'.lifecycle = "Closed"
      /\ Facts'.activeOperations = 0 /\ Facts'.retainedTasks = 0
      /\ Facts'.expectedWorkers = Len(expected') /\ Facts'.joinedWorkers = Len(joined')
  BY <1>1, <1>3, FS_EmptySet DEF Facts
<1> QED
  BY <1>2, <1>3, <1>4, <1>5, <1>6 DEF Validates

LEMMA OutcomeStep ==
  ASSUME IInv, [Next]_vars
  PROVE  OutcomesValidate'
<1> SUFFICES ASSUME NEW h \in Shutdowns, shutdown'[h] \in Reported
             PROVE  /\ Validates(outcome'[h])
                    /\ outcome'[h] = [facts |-> Facts', expected |-> expected', joined |-> joined']
  BY DEF OutcomesValidate, Reported, Validates
<1>1. CASE RecordClosed(h)
  BY <1>1, ClosingOutcome
<1>2. CASE ~RecordClosed(h)
  <2>1. shutdown[h] \in Reported /\ outcome'[h] = outcome[h]
    <3> USE DEF IInv
    <3>1. ASSUME NEW op \in OperationIds, Reserve(op)
          PROVE  UNCHANGED <<shutdown, outcome>>
      BY <3>1 DEF Reserve, Admission, closers
    <3>2. ASSUME NEW s \in Issued, Outside(s) \/ PublishProgress(s) \/ RetainTask(s)
          PROVE  UNCHANGED <<shutdown, outcome>>
      BY <3>2, OutsideFrame DEF OutsideKeeps, PublishProgress, Push, RetainTask, closers
    <3>3. ASSUME NEW s \in Issued, Settle(s)
          PROVE  ThreadsKeep /\ outcome' = outcome
      <4>1. Settles(s, operationOf[s])
        BY <3>3, SettleFrame
      <4> QED
        BY <4>1 DEF Settles
    <3>4. ASSUME Quiesces \/ \E g \in Shutdowns : ThreadMove(g)
          PROVE  ThreadsKeep /\ outcome' = outcome
      BY <3>4, QuiesceFrame, ThreadFrame
    <3>5. ASSUME NEW g \in Shutdowns, TakeHandles(g) \/ HandleIsGone(g)
          PROVE  shutdown[h] \in Reported /\ outcome' = outcome
      BY <3>5 DEF TakeHandles, Take, HandleIsGone, TypeOK, Reported
    <3>6. ASSUME NEW g \in Shutdowns, NEW s \in Issued, JoinWorker(g, s)
          PROVE  UNCHANGED <<shutdown, outcome>>
      BY <3>6 DEF JoinWorker
    <3>7. ASSUME NEW g \in Shutdowns, g # h, RecordClosed(g)
          PROVE  shutdown'[h] = shutdown[h] /\ outcome'[h] = outcome[h]
      BY <3>7 DEF RecordClosed, Close, TypeOK
    <3>8. CASE UNCHANGED vars
      BY <3>8 DEF vars, closers
    <3> QED
      BY <1>2, <3>1, <3>2, <3>3, <3>4, <3>5, <3>6, <3>7, <3>8, Steps DEF ThreadsKeep
  <2>2. /\ lifecycle = "Closed"
        /\ Validates(outcome[h])
        /\ outcome[h] = [facts |-> Facts, expected |-> expected, joined |-> joined]
    BY <2>1 DEF IInv, StageInv, OutcomesValidate, Reported
  <2>3. UNCHANGED <<expected, joined, Facts>>
    BY <2>2, ClosedStays
  <2> QED
    BY <2>1, <2>2, <2>3
<1> QED
  BY <1>1, <1>2

-----------------------------------------------------------------------------
(* The theorems. *)

\* The inductive invariant: from it all the others follow.
THEOREM Induction == Spec => []IInv
<1>1. ASSUME IInv, [Next]_vars
      PROVE  IInv'
  BY <1>1, TypeStep, WorkerStepInv, RecordStep, SnapshotStep, ListStep, TaskStep, JoinStep,
     StageStep, OutcomeStep
  DEF IInv
<1> QED
  BY <1>1, InitIInv, PTL DEF Spec

\* The bridge's types are right.
THEOREM TypeCorrect == Spec => []TypeOK
<1>1. IInv => TypeOK
  BY DEF IInv
<1> QED
  BY <1>1, Induction, PTL

\* The snapshot under an id is that of the id's latest attempt, whichever client
\* or worker the mutex let in first.
THEOREM RecordsAgree == Spec => []RecordsFollowActive
<1>1. IInv => RecordsFollowActive
  BY DEF IInv, RecordInv
<1> QED
  BY <1>1, Induction, PTL

\* A worker stays a retained task from its retention to the outcome that lists it.
THEOREM WorkersAreKept == Spec => []NoWorkerIsLost
<1>1. ASSUME IInv PROVE NoWorkerIsLost
  <2>1. \A s \in Issued : s \in DOMAIN expected /\ expected[s] = s
    BY <1>1 DEF IInv, ListInv
  <2>2. \A s \in Issued : s \notin Members(joined) <=> \A i \in DOMAIN joined : joined[i] # s
    BY DEF Members
  <2> QED
    BY <1>1, <2>1, <2>2 DEF IInv, TaskInv, NoWorkerIsLost
<1> QED
  BY <1>1, Induction, PTL

\* Every outcome a shutdown reports validates, and they all report the same.
THEOREM OutcomesAreValid == Spec => []OutcomesValidate
<1>1. IInv => OutcomesValidate
  BY DEF IInv
<1> QED
  BY <1>1, Induction, PTL

\* However many shutdowns overlap, one of them at most has workers to join, and
\* none reports while it has.
THEOREM OneJoinsAll == Spec => []HandlesTakenOnce
<1>1. ASSUME IInv PROVE HandlesTakenOnce
  <2> SUFFICES ASSUME NEW g \in Shutdowns, NEW h \in Shutdowns, g # h, toJoin[g] # {}
               PROVE  toJoin[g] \cap toJoin[h] = {} /\ shutdown[h] \notin {"done", "unheard"}
    BY DEF HandlesTakenOnce
  <2>1. shutdown[g] \in Took /\ DOMAIN tasks # {}
    BY <1>1 DEF IInv, JoinInv
  <2>2. shutdown[h] \notin Took /\ toJoin[h] = {}
    BY <1>1, <2>1 DEF IInv, JoinInv
  <2>3. shutdown[h] \notin Reported
    BY <1>1, <2>1 DEF IInv, StageInv
  <2> QED
    BY <2>2, <2>3 DEF Reported
<1> QED
  BY <1>1, Induction, PTL

\* wait_released never returns the record of an attempt earlier than its own, nor
\* its own before the release.
THEOREM SnapshotsAreNotEarlier == Spec => []SnapshotNotEarlier
<1>1. IInv => SnapshotNotEarlier
  BY DEF IInv
<1> QED
  BY <1>1, Induction, PTL

\* Nothing but the admission of a later attempt touches a released record.
THEOREM ReleasedIsFinal == Spec => ReleasedRecordIsFinal
<1> DEFINE A == \A op \in DOMAIN records : records[op].phase = "Released" =>
       records'[op] = records[op] \/ records'[op].sequence > records[op].sequence
<1>1. ASSUME IInv, [Next]_vars, NEW op \in DOMAIN records, records[op].phase = "Released"
      PROVE  records'[op] = records[op] \/ records'[op].sequence > records[op].sequence
  <2> USE DEF IInv
  <2>1. ASSUME NEW o \in OperationIds, Reserve(o)
        PROVE  records'[op] = records[op] \/ records'[op].sequence > records[op].sequence
    <3>1. PICK n : n = nextSequence
      OBVIOUS
    <3>2. /\ n \in Attempts /\ records[op].sequence \in Issued
          /\ records[op].sequence < n /\ records[op].sequence \in Nat /\ n \in Nat
      BY <1>1, <2>1, <3>1, IssuedGrows, NextIsNew DEF Reserve, Admission, RecordInv
    <3>3. o # op => records'[op] = records[op]
      BY <2>1 DEF Reserve, Admission, Extend
    <3>4. records'[o] = [NoSnapshot EXCEPT !.sequence = n]
      BY <2>1, <3>1 DEF Reserve, Admission, Extend
    <3>5. records'[o].sequence = n
      BY <3>2, <3>4, NewSnapshot
    <3> QED
      BY <3>2, <3>3, <3>5
  <2>2. op \notin DOMAIN active
    BY <1>1 DEF RecordInv, RecordsFollowActive
  <2>3. ASSUME NEW s \in Issued, Outside(s) \/ RetainTask(s)
        PROVE  records' = records
    BY <1>1, <2>3, OutsideFrame DEF OutsideKeeps, RetainTask
  <2>4. ASSUME NEW s \in Issued, PublishProgress(s)
        PROVE  records'[op] = records[op]
    BY <1>1, <2>4, PublishFrame
  <2>5. ASSUME NEW s \in Issued, Settle(s)
        PROVE  records'[op] = records[op]
    <3>1. Settles(s, operationOf[s])
      BY <1>1, <2>5, SettleFrame
    <3> QED
      BY <2>2, <3>1 DEF Settles
  <2>6. ASSUME Quiesces
        PROVE  records'[op] = records[op]
    BY <1>1, <2>2, <2>6, QuiesceFrame, QuiesceRecords
  <2>7. ASSUME NEW h \in Shutdowns,
               ThreadMove(h) \/ TakeHandles(h) \/ HandleIsGone(h) \/ RecordClosed(h)
                 \/ \E s \in Issued : JoinWorker(h, s)
        PROVE  records' = records
    BY <1>1, <2>7, ThreadFrame DEF TakeHandles, Take, HandleIsGone, RecordClosed, Close, JoinWorker, state
  <2>8. CASE UNCHANGED vars
    BY <2>8 DEF vars, state
  <2> QED
    BY <1>1, <2>1, <2>3, <2>4, <2>5, <2>6, <2>7, <2>8, Steps
<1>2. IInv /\ [Next]_vars => [A]_vars
  BY <1>1
<1> QED
  BY <1>2, Induction, PTL DEF Spec, ReleasedRecordIsFinal

-----------------------------------------------------------------------------
(* The bridge implements LifecycleContract. *)

\* A step of one attempt, seen through the mapping, changes only that attempt.
LEMMA MappedUpdate ==
  ASSUME NEW s \in Attempts, NEW standing, NEW result,
         \A t \in Attempts \ {s} : Standing'[t] = Standing[t] /\ Outcome'[t] = Outcome[t],
         Standing'[s] = standing, Outcome'[s] = result
  PROVE  /\ Standing' = [Standing EXCEPT ![s] = standing]
         /\ Outcome' = [Outcome EXCEPT ![s] = result]
<1>1. /\ Standing = [t \in Attempts |-> Standing[t]]
      /\ Standing' = [t \in Attempts |-> Standing'[t]]
  BY DEF Standing
<1>2. /\ Outcome = [t \in Attempts |-> Outcome[t]]
      /\ Outcome' = [t \in Attempts |-> Outcome'[t]]
  BY DEF Outcome
<1>3. Standing' = [Standing EXCEPT ![s] = standing]
  BY <1>1
<1>4. Outcome' = [Outcome EXCEPT ![s] = result]
  BY <1>2
<1> QED
  BY <1>3, <1>4

\* A step that settles and joins nobody is invisible to the mapping.
LEMMA MappedStutter ==
  ASSUME Issued' = Issued,
         \A s \in Issued : /\ Settled(s)' <=> Settled(s)
                           /\ Settled(s) => class'[s] = class[s]
                           /\ worker'[s] = "joined" <=> worker[s] = "joined"
  PROVE  Standing' = Standing /\ Outcome' = Outcome
BY DEF Standing, Outcome

\* reserve implements Admit.
LEMMA ContractReserve ==
  ASSUME IInv, NEW op \in OperationIds, Reserve(op)
  PROVE  Contract!Next
<1> USE DEF IInv
<1>1. PICK n : n = nextSequence
  OBVIOUS
<1>2. /\ n \in Attempts /\ n \notin Issued /\ Issued' = Issued \cup {n}
      /\ lifecycle = "Running" /\ lifecycle' = lifecycle
  BY <1>1, IssuedGrows, NextIsNew DEF Reserve, Admission
<1>3. /\ class'[n] = None /\ worker'[n] = "unspawned"
      /\ \A s \in Issued : class'[s] = class[s] /\ worker'[s] = worker[s]
  BY <1>1, <1>2 DEF Reserve, Admission, Extend, TypeOK
<1>4. ~Settled(n)' /\ \A s \in Issued : Settled(s)' <=> Settled(s)
  BY <1>3 DEF Settled
<1>5. Standing[n] = "unknown" /\ Outcome[n] = None
  BY <1>2 DEF Standing, Outcome
<1>6. Standing'[n] = "owned" /\ Outcome'[n] = None
  BY <1>2, <1>3, <1>4 DEF Standing, Outcome
<1>7. \A t \in Attempts \ {n} : Standing'[t] = Standing[t] /\ Outcome'[t] = Outcome[t]
  BY <1>2, <1>3, <1>4 DEF Standing, Outcome
<1>8. Standing' = [Standing EXCEPT ![n] = "owned"]
  BY <1>2, <1>6, <1>7, MappedUpdate
<1>9. Outcome' = Outcome
  BY <1>2, <1>5, <1>6, <1>7 DEF Outcome
<1>10. Contract!Admit(n)
  BY <1>2, <1>5, <1>8, <1>9 DEF Contract!Admit
<1> QED
  BY <1>2, <1>10 DEF Contract!Next

\* The worker's critical section implements Settle.
LEMMA ContractSettle ==
  ASSUME IInv, NEW s \in Issued, Settle(s)
  PROVE  Contract!Next
<1> USE DEF IInv
<1>1. Settles(s, operationOf[s])
  BY SettleFrame
<1>2. /\ s \in Attempts /\ Issued' = Issued /\ lifecycle' = lifecycle /\ class' = class
      /\ class[s] \in TerminalClasses
      /\ worker[s] = "settling" /\ worker'[s] = "releasedSend"
      /\ \A t \in Issued \ {s} : worker'[t] = worker[t]
  BY <1>1, NextIsNew DEF Settles, Issued, TypeOK
<1>3. ~Settled(s) /\ Settled(s)' /\ \A t \in Issued \ {s} : Settled(t)' <=> Settled(t)
  BY <1>2 DEF Settled
<1>4. Standing[s] = "owned" /\ Standing'[s] = "settled" /\ Outcome'[s] = class[s]
  BY <1>2, <1>3 DEF Standing, Outcome
<1>5. \A t \in Attempts \ {s} : Standing'[t] = Standing[t] /\ Outcome'[t] = Outcome[t]
  BY <1>2, <1>3 DEF Standing, Outcome
<1>6. /\ Standing' = [Standing EXCEPT ![s] = "settled"]
      /\ Outcome' = [Outcome EXCEPT ![s] = class[s]]
  BY <1>2, <1>4, <1>5, MappedUpdate
<1>7. Contract!Settle(s)
  BY <1>2, <1>4, <1>6 DEF Contract!Settle
<1> QED
  BY <1>2, <1>7 DEF Contract!Next

\* The join of a shutdown thread implements Join.
LEMMA ContractJoin ==
  ASSUME IInv, NEW h \in Shutdowns, NEW s \in Issued, JoinWorker(h, s)
  PROVE  Contract!Next
<1> USE DEF IInv
<1>1. /\ s \in Attempts /\ Issued' = Issued /\ lifecycle' = lifecycle /\ class' = class
      /\ worker[s] = "exited" /\ worker'[s] = "joined"
      /\ \A t \in Issued \ {s} : worker'[t] = worker[t]
  BY NextIsNew DEF JoinWorker, Issued, TypeOK, state
<1>2. class[s] \in TerminalClasses
  BY <1>1 DEF WorkerInv
<1>3. Settled(s) /\ \A t \in Issued : Settled(t)' <=> Settled(t)
  BY <1>1, <1>2 DEF Settled
<1>4. Standing[s] = "settled" /\ Standing'[s] = "joined"
  BY <1>1, <1>3 DEF Standing
<1>5. Outcome' = Outcome
  BY <1>1, <1>3 DEF Outcome
<1>6. \A t \in Attempts \ {s} : Standing'[t] = Standing[t]
  BY <1>1, <1>3 DEF Standing
<1>7. Standing' = [Standing EXCEPT ![s] = "joined"]
  BY <1>1, <1>4, <1>5, <1>6, MappedUpdate
<1>8. Contract!Join(s)
  BY <1>1, <1>4, <1>5, <1>7 DEF Contract!Join
<1> QED
  BY <1>1, <1>8 DEF Contract!Next

\* The quiesce that finds the supervisor running implements Quiesce.
LEMMA ContractQuiesce ==
  ASSUME IInv, Quiesces
  PROVE  Contract!Next \/ UNCHANGED Contract!vars
<1> USE DEF IInv
<1>1. /\ lifecycle' = IF lifecycle = "Running" THEN "Quiescing" ELSE lifecycle
      /\ UNCHANGED <<worker, class>> /\ Issued' = Issued
  BY QuiesceFrame DEF QuiesceInner, Issued
<1>2. Standing' = Standing /\ Outcome' = Outcome
  BY <1>1, MappedStutter DEF Settled
<1>3. CASE lifecycle = "Running"
  BY <1>1, <1>2, <1>3 DEF Contract!Next, Contract!Quiesce
<1>4. CASE lifecycle # "Running"
  BY <1>1, <1>2, <1>4 DEF Contract!vars
<1> QED
  BY <1>3, <1>4

\* The first shutdown that records its joins finds every worker joined.
LEMMA ContractClose ==
  ASSUME IInv, NEW h \in Shutdowns, RecordClosed(h)
  PROVE  Contract!Next \/ UNCHANGED Contract!vars
<1> USE DEF IInv
<1>1. /\ lifecycle' = "Closed" /\ shutdown[h] = "joining"
      /\ UNCHANGED <<worker, class>> /\ Issued' = Issued
  BY DEF RecordClosed, Close, clients, Issued
<1>2. Standing' = Standing /\ Outcome' = Outcome
  BY <1>1, MappedStutter DEF Settled
<1>3. lifecycle # "Running"
  BY <1>1 DEF StageInv
<1>4. CASE lifecycle = "Closed"
  BY <1>1, <1>2, <1>4 DEF Contract!vars
<1>5. CASE lifecycle = "Quiescing"
  <2>1. \A s \in Issued : worker[s] # "unspawned"
    BY <1>1, AllSettled DEF StageInv, Took
  <2>2. Members(reaped[h]) = DOMAIN tasks
    BY ClosesEmpty
  <2>3. \A s \in Issued : worker[s] = "joined"
    BY <2>1, <2>2 DEF TaskInv, JoinInv
  <2>4. \A s \in Attempts : Standing[s] \in {"unknown", "joined"}
    BY <2>3 DEF Standing
  <2>5. Contract!Close
    BY <1>1, <1>2, <1>5, <2>4 DEF Contract!Close
  <2> QED
    BY <2>5 DEF Contract!Next
<1> QED
  BY <1>3, <1>4, <1>5 DEF TypeOK

\* The other steps are invisible to the contract.
LEMMA ContractStutter ==
  ASSUME IInv,
         \/ \E s \in Issued : Outside(s) \/ PublishProgress(s) \/ RetainTask(s)
         \/ \E h \in Shutdowns : ThreadMove(h) \/ TakeHandles(h) \/ HandleIsGone(h)
         \/ UNCHANGED vars
  PROVE  UNCHANGED Contract!vars
<1> USE DEF IInv
<1>1. ASSUME lifecycle' = lifecycle, Issued' = Issued,
             \A s \in Issued : /\ Settled(s)' <=> Settled(s)
                               /\ Settled(s) => class'[s] = class[s]
                               /\ worker'[s] = "joined" <=> worker[s] = "joined"
      PROVE  UNCHANGED Contract!vars
  BY <1>1, MappedStutter DEF Contract!vars
<1>2. ASSUME NEW s \in Issued, Outside(s)
      PROVE  UNCHANGED Contract!vars
  <2>1. OutsideKeeps
    BY <1>2, OutsideFrame
  <2> QED
    BY <1>1, <2>1 DEF OutsideKeeps, Issued
<1>3. ASSUME NEW s \in Issued, RetainTask(s)
      PROVE  UNCHANGED Contract!vars
  BY <1>1, <1>3 DEF RetainTask, Issued, Settled, TypeOK
<1>4. ASSUME UNCHANGED <<lifecycle, nextSequence, worker, class>>
      PROVE  UNCHANGED Contract!vars
  BY <1>1, <1>4 DEF Settled, Issued
<1>5. ASSUME NEW s \in Issued, PublishProgress(s)
      PROVE  UNCHANGED Contract!vars
  BY <1>4, <1>5 DEF PublishProgress, Push, clients
<1>6. ASSUME NEW h \in Shutdowns, ThreadMove(h) \/ TakeHandles(h) \/ HandleIsGone(h)
      PROVE  UNCHANGED Contract!vars
  BY <1>4, <1>6, ThreadFrame DEF TakeHandles, Take, HandleIsGone, clients
<1>7. CASE UNCHANGED vars
  BY <1>4, <1>7 DEF vars, state, clients
<1> QED
  BY <1>2, <1>3, <1>5, <1>6, <1>7

\* The bridge keeps the promise of LifecycleContract: every step is a step of the
\* contract or invisible to it.
THEOREM Refinement == Spec => RefinesContract
<1>1. Init => Contract!Init
  BY DEF Init, Issued, Contract!Init, Standing, Outcome
<1>2. ASSUME IInv, [Next]_vars
      PROVE  [Contract!Next]_Contract!vars
  BY <1>2, Steps, ContractReserve, ContractSettle, ContractJoin, ContractQuiesce, ContractClose,
     ContractStutter
<1>3. QED
  BY <1>1, <1>2, Induction, PTL DEF Spec, RefinesContract, Contract!Spec

-----------------------------------------------------------------------------
(* The protocol of the suites.                                               *)

\* No wakeup is lost: who waits for the active attempts to go has some to wait for.
NoWakeupIsLost == \A h \in Shutdowns : shutdown[h] = "waiting" => DOMAIN active # {}

LEMMA WakeupStep ==
  ASSUME TypeOK, WorkerInv, RecordInv, NoWakeupIsLost, [Next]_vars
  PROVE  NoWakeupIsLost'
<1> USE DEF NoWakeupIsLost
<1>1. shutdown \in [Shutdowns -> ShutdownPcs]
  BY DEF TypeOK
<1>2. ASSUME DOMAIN active \subseteq DOMAIN active',
             \A h \in Shutdowns : shutdown'[h] = "waiting" => shutdown[h] = "waiting"
      PROVE  NoWakeupIsLost'
  BY <1>2
<1>3. ASSUME NEW op \in OperationIds, Reserve(op)
      PROVE  NoWakeupIsLost'
  BY <1>2, <1>3 DEF Reserve, Admission, Extend, closers
<1>4. ASSUME NEW s \in Issued, Outside(s)
      PROVE  NoWakeupIsLost'
  BY <1>2, <1>4, OutsideFrame DEF OutsideKeeps
<1>5. ASSUME NEW s \in Issued, PublishProgress(s) \/ RetainTask(s)
      PROVE  NoWakeupIsLost'
  BY <1>2, <1>5 DEF PublishProgress, Push, RetainTask, closers
<1>6. ASSUME NEW s \in Issued, Settle(s)
      PROVE  NoWakeupIsLost'
  BY <1>1, <1>6 DEF Settle, Notified
<1>7. CASE Quiesces
  <2>1. \A h \in Shutdowns : shutdown'[h] # "waiting"
    BY <1>1, <1>7 DEF Quiesces, Quiesce, ShutdownQuiesces, Notified
  <2> QED
    BY <2>1
<1>8. ASSUME NEW h \in Shutdowns, ThreadMove(h)
      PROVE  NoWakeupIsLost'
  <2>1. CASE Waits(h)
    BY <1>1, <2>1 DEF Waits, state
  <2>2. CASE ~Waits(h)
    BY <1>1, <1>2, <1>8, <2>2 DEF ThreadMove, BeginShutdown, WaitStarted, StartFails,
       SpuriousWakeup, JoinFails, state
  <2> QED
    BY <2>1, <2>2
<1>9. ASSUME NEW h \in Shutdowns, TakeHandles(h) \/ HandleIsGone(h) \/ RecordClosed(h)
      PROVE  NoWakeupIsLost'
  BY <1>1, <1>2, <1>9 DEF TakeHandles, Take, HandleIsGone, RecordClosed, Close
<1>10. ASSUME NEW h \in Shutdowns, NEW s \in Issued, JoinWorker(h, s)
       PROVE  NoWakeupIsLost'
  BY <1>2, <1>10 DEF JoinWorker, state
<1>11. CASE UNCHANGED vars
  BY <1>2, <1>11 DEF vars, state, closers
<1> QED
  BY <1>3, <1>4, <1>5, <1>6, <1>7, <1>8, <1>9, <1>10, <1>11, Steps

\* Of a handle that nobody drops and nobody gives up on, each end is there until
\* the worker has used the other.
EndsAreKept(s) ==
  /\ worker[s] # "panicked"
  /\ worker[s] \in {"unspawned", "commandRecv"} => handle[s].command = "kept"
  /\ worker[s] \in {"unspawned", "commandRecv", "settling", "releasedSend"} =>
       handle[s].released \in {"kept", "waiting"}
  /\ worker[s] \notin {"exited", "joined"} => handle[s].allowExit = "kept"

\* Shutdowns that do not overlap: one is under way, and while a task is without its
\* JoinHandle, it is the one that took them.
Resting == {"idle", "done"}
OneShutdown ==
  /\ \A h \in Shutdowns : shutdown[h] \notin ShutdownPanics
  /\ \A g, h \in Shutdowns : g # h => shutdown[g] \in Resting \/ shutdown[h] \in Resting
  /\ \A s \in DOMAIN tasks : tasks[s] = "taken" => \E h \in Shutdowns : shutdown[h] = "joining"

ProtocolInv == (\A s \in Issued : EndsAreKept(s)) /\ OneShutdown

LEMMA EndsStep ==
  ASSUME Freedoms = {}, TypeOK, WorkerInv, RecordInv, TaskInv, \A s \in Issued : EndsAreKept(s),
         [Next]_vars
  PROVE  (\A s \in Issued : EndsAreKept(s))'
<1>1. worker \in [Issued -> WorkerPcs] /\ handle \in [Issued -> Handle]
  BY DEF TypeOK
<1>2. ASSUME Issued' = Issued, worker' = worker, handle' = handle
      PROVE  (\A s \in Issued : EndsAreKept(s))'
  BY <1>2 DEF EndsAreKept
<1>3. ASSUME NEW op \in OperationIds, Reserve(op)
      PROVE  (\A s \in Issued : EndsAreKept(s))'
  <2>1. /\ Issued' = Issued \cup {nextSequence} /\ nextSequence \notin Issued
        /\ worker' = Extend(worker, nextSequence, "unspawned")
        /\ handle' = Extend(handle, nextSequence,
             [command |-> "kept", released |-> "kept", allowExit |-> "kept"])
    BY <1>3, NextIsNew, IssuedGrows DEF Reserve, Admission
  <2>2. \A s \in Issued : worker'[s] = worker[s] /\ handle'[s] = handle[s]
    BY <1>1, <2>1 DEF Extend
  <2>3. /\ worker'[nextSequence] = "unspawned"
        /\ handle'[nextSequence] = [command |-> "kept", released |-> "kept", allowExit |-> "kept"]
    BY <2>1 DEF Extend
  <2> QED
    BY <2>1, <2>2, <2>3 DEF EndsAreKept
<1>4. ASSUME NEW s \in Issued, Outside(s)
      PROVE  (\A t \in Issued : EndsAreKept(t))'
  <2>1. Issued' = Issued /\ UNCHANGED nextSequence
    BY <1>4, OutsideFrame DEF OutsideKeeps, Issued
  <2>2. ~TimeoutReleased(s) /\ ~DropHandle(s)
    BY DEF TimeoutReleased, DropHandle
  <2>3. ~WorkerPanics(s)
    BY DEF WorkerPanics, EndsAreKept
  <2>4. /\ worker' \in [Issued -> WorkerPcs] /\ handle' \in [Issued -> Handle]
        /\ \A t \in Issued \ {s} : worker'[t] = worker[t] /\ handle'[t] = handle[t]
    BY <1>1, <1>4, <2>2, <2>3 DEF Outside, Command, AwaitReleased, AnnounceReleased, ReadReleased,
       Lookup, AllowExit, WorkerPcs, Handle
  <2>5. EndsAreKept(s)'
    <3>1. handle[s] \in Handle /\ EndsAreKept(s) /\ worker[s] \in WorkerPcs
      BY <1>1
    <3>2. ASSUME NEW c \in TerminalClasses, Command(s, c)
          PROVE  EndsAreKept(s)'
      BY <1>1, <3>1, <3>2 DEF Command, EndsAreKept, Handle
    <3>3. CASE AwaitReleased(s)
      BY <1>1, <3>1, <3>3 DEF AwaitReleased, EndsAreKept, Handle
    <3>4. CASE AnnounceReleased(s)
      BY <1>1, <3>1, <3>4 DEF AnnounceReleased, EndsAreKept, Handle
    <3>5. CASE ReadReleased(s)
      BY <1>1, <3>1, <3>5 DEF ReadReleased, Lookup, EndsAreKept, Handle
    <3>6. CASE AllowExit(s)
      BY <1>1, <3>1, <3>6 DEF AllowExit, EndsAreKept, Handle
    <3> QED
      BY <1>4, <2>2, <2>3, <3>2, <3>3, <3>4, <3>5, <3>6 DEF Outside
  <2> QED
    BY <2>1, <2>4, <2>5 DEF EndsAreKept
<1>5. ASSUME NEW s \in Issued, RetainTask(s)
      PROVE  (\A t \in Issued : EndsAreKept(t))'
  BY <1>1, <1>5 DEF RetainTask, EndsAreKept, Issued
<1>6. ASSUME NEW s \in Issued, Settle(s)
      PROVE  (\A t \in Issued : EndsAreKept(t))'
  BY <1>1, <1>6 DEF Settle, Settlement, EndsAreKept, Issued
<1>7. ASSUME NEW h \in Shutdowns, NEW s \in Issued, JoinWorker(h, s)
      PROVE  (\A t \in Issued : EndsAreKept(t))'
  BY <1>1, <1>7 DEF JoinWorker, state, EndsAreKept, Issued
<1>8. ASSUME Quiesces \/ \E h \in Shutdowns : ThreadMove(h)
      PROVE  (\A s \in Issued : EndsAreKept(s))'
  <2>1. UNCHANGED <<nextSequence, worker, handle>>
    BY <1>8, QuiesceFrame, ThreadFrame DEF QuiesceInner
  <2> QED
    BY <1>2, <2>1 DEF Issued
<1>9. ASSUME NEW h \in Shutdowns, TakeHandles(h) \/ HandleIsGone(h) \/ RecordClosed(h)
      PROVE  (\A s \in Issued : EndsAreKept(s))'
  BY <1>2, <1>9 DEF TakeHandles, Take, HandleIsGone, RecordClosed, Close, clients, Issued
<1>10. ASSUME NEW s \in Issued, PublishProgress(s)
       PROVE  (\A t \in Issued : EndsAreKept(t))'
  BY <1>2, <1>10 DEF PublishProgress, Push, clients, Issued
<1>11. CASE UNCHANGED vars
  BY <1>2, <1>11 DEF vars, state, clients, Issued
<1> QED
  BY <1>3, <1>4, <1>5, <1>6, <1>7, <1>8, <1>9, <1>10, <1>11, Steps

LEMMA OneShutdownStep ==
  ASSUME Freedoms = {}, IInv, ProtocolInv, [Next]_vars
  PROVE  OneShutdown'
<1>1. shutdown \in [Shutdowns -> ShutdownPcs] /\ OneShutdown
  BY DEF IInv, TypeOK, ProtocolInv
<1> USE DEF OneShutdown, Resting
<1>2. ASSUME \A s \in DOMAIN tasks' : tasks'[s] = "taken" => s \in DOMAIN tasks /\ tasks[s] = "taken",
             \A h \in Shutdowns : \/ shutdown'[h] = shutdown[h]
                                  \/ /\ shutdown[h] \notin Resting \cup {"joining"}
                                     /\ shutdown'[h] \notin ShutdownPanics
      PROVE  OneShutdown'
  <2>1. \A h \in Shutdowns : shutdown'[h] \notin ShutdownPanics
    BY <1>1, <1>2
  <2>2. \A g \in Shutdowns : shutdown[g] \in Resting => shutdown'[g] \in Resting
    BY <1>2
  <2>3. \A g \in Shutdowns : shutdown[g] = "joining" => shutdown'[g] = "joining"
    BY <1>2
  <2>4. \A s \in DOMAIN tasks' : tasks'[s] = "taken" => \E h \in Shutdowns : shutdown'[h] = "joining"
    BY <1>1, <1>2, <2>3
  <2> QED
    BY <1>1, <2>1, <2>2, <2>4
<1>3. ASSUME tasks' = tasks, shutdown' = shutdown
      PROVE  OneShutdown'
  BY <1>2, <1>3
<1>4. ASSUME NEW op \in OperationIds, Reserve(op)
      PROVE  OneShutdown'
  BY <1>3, <1>4 DEF Reserve, Admission, closers
<1>5. ASSUME NEW s \in Issued, Outside(s)
      PROVE  OneShutdown'
  BY <1>3, <1>5, OutsideFrame DEF OutsideKeeps, IInv
<1>6. ASSUME NEW s \in Issued, PublishProgress(s)
      PROVE  OneShutdown'
  BY <1>3, <1>6 DEF PublishProgress, Push, closers
<1>7. ASSUME NEW s \in Issued, RetainTask(s)
      PROVE  OneShutdown'
  <2>1. shutdown' = shutdown /\ tasks' = Extend(tasks, s, "owned")
    BY <1>7 DEF RetainTask, Retained, closers
  <2>2. \A t \in DOMAIN tasks' : tasks'[t] = "taken" => t \in DOMAIN tasks /\ tasks[t] = "taken"
    BY <2>1 DEF Extend
  <2> QED
    BY <1>2, <2>1, <2>2
<1>8. shutdown' = Notified(shutdown) =>
        \A h \in Shutdowns : \/ shutdown'[h] = shutdown[h]
                             \/ shutdown[h] = "waiting" /\ shutdown'[h] = "draining"
  BY <1>1 DEF Notified
<1>9. ASSUME NEW s \in Issued, Settle(s)
      PROVE  OneShutdown'
  <2>1. tasks' = tasks /\ shutdown' = Notified(shutdown)
    BY <1>9 DEF Settle, Settlement
  <2> QED
    BY <1>2, <1>8, <2>1 DEF ShutdownPanics
<1>10. CASE Quiesce
  <2>1. tasks' = tasks /\ shutdown' = Notified(shutdown)
    BY <1>10 DEF Quiesce, QuiesceInner
  <2> QED
    BY <1>2, <1>8, <2>1 DEF ShutdownPanics
<1>11. ASSUME NEW h \in Shutdowns, ShutdownQuiesces(h)
       PROVE  OneShutdown'
  <2>1. /\ tasks' = tasks /\ shutdown[h] = "quiescing"
        /\ shutdown' = [Notified(shutdown) EXCEPT ![h] = "starting"]
    BY <1>11 DEF ShutdownQuiesces, QuiesceInner
  <2>2. \A g \in Shutdowns : \/ shutdown'[g] = shutdown[g]
                             \/ shutdown[g] = "waiting" /\ shutdown'[g] = "draining"
                             \/ shutdown[g] = "quiescing" /\ shutdown'[g] = "starting"
    BY <1>1, <2>1 DEF Notified
  <2> QED
    BY <1>2, <2>1, <2>2 DEF ShutdownPanics
<1>12. ASSUME NEW h \in Shutdowns, BeginShutdown(h)
       PROVE  OneShutdown'
  <2>1. /\ tasks' = tasks /\ shutdown' = [shutdown EXCEPT ![h] = "quiescing"]
        /\ \A g \in Shutdowns : shutdown[g] \in {"idle"} \cup Ended
    BY <1>12 DEF BeginShutdown, state
  <2>2. \A g \in Shutdowns : shutdown[g] \in Resting
    BY <1>1, <2>1 DEF Ended
  <2>3. shutdown'[h] = "quiescing" /\ \A g \in Shutdowns \ {h} : shutdown'[g] = shutdown[g]
    BY <1>1, <2>1
  <2>4. \A s \in DOMAIN tasks' : tasks'[s] # "taken"
    BY <1>1, <2>1, <2>2
  <2> QED
    BY <1>1, <2>2, <2>3, <2>4 DEF ShutdownPanics
<1>13. ASSUME NEW h \in Shutdowns, WaitStarted(h) \/ Waits(h) \/ SpuriousWakeup(h)
       PROVE  OneShutdown'
  <2>1. /\ tasks' = tasks
        /\ shutdown[h] \in {"starting", "draining", "waiting"}
        /\ \/ shutdown' = [shutdown EXCEPT ![h] = "draining"]
           \/ shutdown' = [shutdown EXCEPT ![h] = "waiting"]
    BY <1>13 DEF WaitStarted, Waits, SpuriousWakeup, state
  <2>2. \A g \in Shutdowns : \/ shutdown'[g] = shutdown[g]
                             \/ /\ shutdown[g] \in {"starting", "draining", "waiting"}
                                /\ shutdown'[g] \in {"draining", "waiting"}
    BY <1>1, <2>1
  <2> QED
    BY <1>2, <2>1, <2>2 DEF ShutdownPanics
<1>14. \A h \in Shutdowns : ~StartFails(h)
  BY DEF StartFails
<1>15. \A h \in Shutdowns, s \in Issued : ~JoinFails(h, s)
  BY DEF JoinFails, ProtocolInv, EndsAreKept
<1>16. ASSUME NEW h \in Shutdowns, TakeHandles(h)
       PROVE  OneShutdown'
  <2>1. shutdown[h] = "draining" /\ shutdown' = [shutdown EXCEPT ![h] = "joining"]
    BY <1>16 DEF TakeHandles, Take
  <2>2. shutdown'[h] = "joining" /\ \A g \in Shutdowns \ {h} : shutdown'[g] = shutdown[g]
    BY <1>1, <2>1
  <2> QED
    BY <1>1, <2>1, <2>2 DEF ShutdownPanics
<1>17. ASSUME NEW h \in Shutdowns
       PROVE  ~HandleIsGone(h)
  <2> SUFFICES ASSUME HandleIsGone(h) PROVE FALSE
    OBVIOUS
  <2>1. shutdown[h] = "draining" /\ \E s \in DOMAIN tasks : tasks[s] = "taken"
    BY DEF HandleIsGone
  <2>2. PICK g \in Shutdowns : shutdown[g] = "joining"
    BY <1>1, <2>1
  <2> QED
    BY <1>1, <2>1, <2>2
<1>18. ASSUME NEW h \in Shutdowns, NEW s \in Issued, JoinWorker(h, s)
       PROVE  OneShutdown'
  BY <1>3, <1>18 DEF JoinWorker, state
<1>19. ASSUME NEW h \in Shutdowns, RecordClosed(h)
       PROVE  OneShutdown'
  <2>1. DOMAIN tasks' = {}
    BY <1>19, ClosesEmpty DEF IInv
  <2>2. shutdown[h] = "joining" /\ shutdown' = [shutdown EXCEPT ![h] = "done"]
    BY <1>19 DEF RecordClosed, Close
  <2>3. shutdown'[h] = "done" /\ \A g \in Shutdowns \ {h} : shutdown'[g] = shutdown[g]
    BY <1>1, <2>2
  <2> QED
    BY <1>1, <2>1, <2>3 DEF ShutdownPanics
<1>20. CASE UNCHANGED vars
  BY <1>3, <1>20 DEF vars, state, closers
<1> QED
  BY <1>4, <1>5, <1>6, <1>7, <1>9, <1>10, <1>11, <1>12, <1>13, <1>14, <1>15, <1>16, <1>17, <1>18,
     <1>19, <1>20, Steps DEF Quiesces, ThreadMove

LEMMA ProtocolStep ==
  ASSUME Freedoms = {}, IInv, ProtocolInv, [Next]_vars
  PROVE  ProtocolInv'
BY EndsStep, OneShutdownStep DEF IInv, ProtocolInv

LEMMA ProtocolInit == Init => ProtocolInv
<1> SUFFICES ASSUME Init PROVE ProtocolInv
  OBVIOUS
<1>1. Issued = {}
  BY DEF Init, Issued
<1>2. OneShutdown
  BY DEF Init, OneShutdown, Resting, ShutdownPanics, EmptyMap
<1> QED
  BY <1>1, <1>2 DEF ProtocolInv

\* With clients that keep to the protocol of the suites, and so in every suite, no
\* expect of a worker or of a shutdown thread fails, however many operations,
\* attempts and shutdowns there are: the panic of overlapping shutdowns
\* (compositional_lifecycle.rs:1019) and those of peers that are gone need a client
\* that takes a freedom.
THEOREM NobodyPanics ==
  ASSUME Freedoms = {}
  PROVE  Spec => []NoThreadPanics
<1>1. ProtocolInv => NoThreadPanics
  BY DEF ProtocolInv, OneShutdown, EndsAreKept, NoThreadPanics
<1>2. IInv /\ ProtocolInv /\ [Next]_vars => ProtocolInv'
  BY ProtocolStep
<1> QED
  BY <1>1, <1>2, Induction, ProtocolInit, PTL DEF Spec

\* Under the same clients no wait is for nothing.  A worker that waits at a channel
\* waits for an end its client still has; a shutdown that waits at the condition
\* variable, which in this clause needs no protocol, waits for attempts that are
\* active and whose settlement notifies it; and one that joins waits for workers
\* past their settlement that did not panic.  That the waits end is then up to the
\* clients and the scheduler.
WaitsAreAnswerable ==
  /\ \A s \in Issued :
       /\ worker[s] = "commandRecv" => handle[s].command = "kept"
       /\ worker[s] = "releasedSend" => handle[s].released \in {"kept", "waiting"}
       /\ worker[s] = "exitRecv" => handle[s].allowExit = "kept"
  /\ \A h \in Shutdowns :
       /\ shutdown[h] = "waiting" => DOMAIN active # {}
       /\ shutdown[h] = "joining" =>
            \A s \in toJoin[h] : worker[s] \in {"releasedSend", "exitRecv", "exited"}

\* No wait of the bridge is left without an answer when clients keep to the protocol of
\* the suites, for any number of operations, attempts and shutdowns: the safety that
\* ShutdownCompletes rests on.
THEOREM EveryWaitIsAnswerable ==
  ASSUME Freedoms = {}
  PROVE  Spec => []WaitsAreAnswerable
<1>1. ASSUME IInv, ProtocolInv, NoWakeupIsLost
      PROVE  WaitsAreAnswerable
  <2>1. \A s \in Issued : EndsAreKept(s) /\ worker[s] \in WorkerPcs
    BY <1>1 DEF ProtocolInv, IInv, TypeOK
  <2>2. ASSUME NEW h \in Shutdowns, shutdown[h] = "joining", NEW s \in toJoin[h]
        PROVE  worker[s] \in {"releasedSend", "exitRecv", "exited"}
    <3>1. DOMAIN active = {} /\ s \in Issued /\ worker[s] # "joined"
      BY <1>1, <2>2 DEF IInv, TypeOK, StageInv, JoinInv, Took
    <3>2. worker[s] \notin {"unspawned", "commandRecv", "settling"}
      BY <1>1, <3>1, AllSettled DEF IInv
    <3> QED
      BY <2>1, <3>1, <3>2 DEF EndsAreKept, WorkerPcs
  <2> QED
    BY <1>1, <2>1, <2>2 DEF WaitsAreAnswerable, EndsAreKept, NoWakeupIsLost
<1>2. IInv /\ ProtocolInv /\ [Next]_vars => ProtocolInv'
  BY ProtocolStep
<1>3. IInv /\ NoWakeupIsLost /\ [Next]_vars => NoWakeupIsLost'
  BY WakeupStep DEF IInv
<1>4. Init => NoWakeupIsLost
  BY DEF Init, NoWakeupIsLost
<1> QED
  BY <1>1, <1>2, <1>3, <1>4, Induction, ProtocolInit, PTL DEF Spec

-----------------------------------------------------------------------------
(* The suites of BridgeSuites, whatever their scripts, and "any" client. *)

\* What the main thread, the racers and the free clients do is what clients may do.
LEMMA ClientsKeepToSpec ==
  (\E t \in Threads : ClientThread(t)) \/ FreeClient => [Next]_vars
<1>1. ASSUME NEW step, Call(step)
      PROVE  Next
  BY <1>1 DEF Call, Next, ClientStep, ShutdownStep, PublishProgress
<1>2. ASSUME NEW step, Meeting(step)
      PROVE  [Next]_vars
  <2>1. CASE step.verb \in TerminalClasses /\ Command(step.of, step.verb)
    BY <2>1 DEF Command, Next, ClientStep
  <2>2. CASE step.verb = "retain" /\ RetainTask(step.of)
    BY <2>2 DEF RetainTask, Next, WorkerStep
  <2>3. CASE step.verb = "take receiver" /\ AwaitReleased(step.of)
    BY <2>3, Zenon DEF AwaitReleased, Next, ClientStep
  <2>4. CASE step.verb = "wait_released" /\ ReadReleased(step.of)
    BY <2>4 DEF ReadReleased, Next, ClientStep
  <2>5. CASE step.verb = "allow_worker_exit" /\ AllowExit(step.of)
    BY <2>5 DEF AllowExit, Next, ClientStep
  <2>6. CASE step.verb = "wait_started" /\ step.of \in Shutdowns /\ WaitStarted(step.of)
    BY <2>6 DEF Next, ShutdownStep
  <2> QED
    BY <1>2, <2>1, <2>2, <2>3, <2>4, <2>5, <2>6, Zenon DEF Meeting
<1>3. ASSUME NEW t \in Threads, ClientThread(t)
      PROVE  [Next]_vars
  BY <1>1, <1>2, <1>3 DEF ClientThread, Scripted
<1>4. ASSUME FreeClient
      PROVE  [Next]_vars
  BY <1>4 DEF FreeClient, FreeReserve, Owed, OwedWait, Next, ClientStep, WorkerStep, ShutdownStep
<1> QED
  BY <1>3, <1>4

\* So does a whole suite: its threads and the clients of "any" by the operations of a
\* handle they were given, the workers and the shutdown threads by their own steps,
\* of which BridgeSuites only fixes in which order one thread joins.
LEMMA SuiteStepIsStep == [SuiteNext]_bridgeVars => [Next]_vars
<1>1. ASSUME NEW s \in Issued, WorkerThread(s)
      PROVE  Next
  BY <1>1 DEF WorkerThread, Next, WorkerStep
<1>2. ASSUME NEW h \in Shutdowns, ShutdownThread(h) \/ Wakes(h)
      PROVE  Next
  BY <1>2 DEF ShutdownThread, Wakes, Next, ShutdownStep
<1>3. ASSUME Joins \/ Over \/ UNCHANGED bridgeVars
      PROVE  [Next]_vars
  BY <1>3, Zenon DEF Joins, Over, Finished, Next, bridgeVars
<1> QED
  BY <1>1, <1>2, <1>3, ClientsKeepToSpec, Zenon DEF SuiteNext

\* Whatever its script, and however its racers are scheduled, a suite is a client of the
\* bridge, and nothing but that: what is proved of the bridge holds in every suite of
\* compositional_lifecycle.rs that plays on it, at any scale and with any script still
\* to be written.
THEOREM SuitesAreClients == SuiteSpec => Spec
BY SuiteStepIsStep, PTL DEF SuiteSpec, Spec

\* No step of a script is to be played while the suite is "any".
Idle == suite = "any" => ~failed /\ pc = [t \in Threads |-> 1]

\* "any" has no script, and so no expect of its own that could fail.
LEMMA IdleStep ==
  ASSUME Suites["any"] = Alone(<< >>), Idle, [SuiteNext]_bridgeVars
  PROVE  Idle'
<1>1. ASSUME suite = "any", NEW t \in Threads, NEW expectations, Runs(t, expectations)
      PROVE  FALSE
  BY <1>1 DEF Idle, Runs, ScriptEnded, Script, Alone, Threads, Racers
<1>2. suite' = suite
  BY DEF SuiteNext, ClientThread, Scripted, Answered, Returned, Asserted, Joins, JoinsRacers, FreeClient,
     WorkerThread, ShutdownThread, Wakes, Over, suiteVars, bridgeVars
<1>3. CASE suite # "any"
  BY <1>2, <1>3 DEF Idle
<1>4. CASE suite = "any"
  <2>1. ~(\E t \in Threads : ClientThread(t)) /\ ~Joins
    BY <1>1, <1>4 DEF ClientThread, Joins, JoinsRacers, Threads
  <2>2. UNCHANGED suiteVars
    BY <2>1, Zenon DEF SuiteNext, FreeClient, WorkerThread, ShutdownThread, Wakes, Over, bridgeVars
  <2> QED
    BY <1>4, <2>2 DEF Idle, suiteVars
<1> QED
  BY <1>3, <1>4

\* In every suite, of any script, no expect of a worker or of a shutdown thread fails
\* and every wait has somebody to answer it; and clients that do to a handle whatever
\* its owner may, in any order and at any scale, make nothing fail at all.
THEOREM SuitesKeepTheProtocol ==
  ASSUME Freedoms = {}, Suites["any"] = Alone(<< >>)
  PROVE  SuiteSpec => /\ []NoThreadPanics
                      /\ []WaitsAreAnswerable
                      /\ [](suite = "any" => SuitesPass)
<1>1. Idle /\ [SuiteNext]_bridgeVars => Idle'
  BY IdleStep
<1>2. SuiteStart => Idle
  BY DEF SuiteStart, Idle
<1>3. Idle /\ NoThreadPanics => (suite = "any" => SuitesPass)
  BY DEF Idle, SuitesPass
<1> QED
  BY <1>1, <1>2, <1>3, NobodyPanics, EveryWaitIsAnswerable, SuitesAreClients, PTL DEF SuiteSpec

=============================================================================
