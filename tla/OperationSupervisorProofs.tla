---------------------- MODULE OperationSupervisorProofs ----------------------
(***************************************************************************)
(* Theorems about OperationSupervisor, for every set of operation ids,     *)
(* every range of sequences, every capacity and any number of callers; and *)
(* that the suites of LifecycleSuite are its clients.                      *)
(***************************************************************************)
EXTENDS LifecycleSuite, FiniteSetTheorems, TLAPS

USE SequenceAssumption, CapacityAssumption DEF Attempts

\* The registry alone is inductive: a counter stays a natural number only
\* because it counts the active slots, and it does only while the slots and the
\* attempts agree.
RegistryInv == TypeOK /\ ActiveAgreement /\ CountersAgree

-----------------------------------------------------------------------------
(* What the helpers return. *)

\* Pushing a publication keeps the window a sequence of publications.
LEMMA PushedWindow ==
  ASSUME NEW window \in Seq(1 .. PublishLimit), NEW value \in 1 .. PublishLimit
  PROVE  Pushed(window, value) \in Seq(1 .. PublishLimit)
<1>1. CASE Len(window) = ProgressCapacity
  <2>1. window # << >>
    BY <1>1
  <2>2. Tail(window) \in Seq(1 .. PublishLimit)
    BY <2>1
  <2>3. QED
    BY <1>1, <2>2 DEF Pushed
<1>2. CASE Len(window) # ProgressCapacity
  BY <1>2 DEF Pushed
<1>3. QED
  BY <1>1, <1>2

\* Requesting cancellation keeps an attempt well typed, its id and its phase.
LEMMA CancelledOperation ==
  ASSUME NEW r \in Operation
  PROVE  LET cancelled == [r EXCEPT !.cancellationRequested = TRUE] IN
         /\ cancelled \in Operation
         /\ cancelled.operation = r.operation
         /\ cancelled.phase = r.phase
BY DEF Operation

\* The active ids can be counted, for there are finitely many ids.
LEMMA ActiveFinite ==
  ASSUME TypeOK
  PROVE  IsFiniteSet(DOMAIN active) /\ Cardinality(DOMAIN active) \in Nat
BY OperationIdsAssumption, FS_Subset, FS_CardinalityType DEF TypeOK

-----------------------------------------------------------------------------
(* The registry invariant, action by action. *)

\* The empty registry agrees with itself.
LEMMA RegistryInit == Init => RegistryInv
<1> SUFFICES ASSUME Init PROVE RegistryInv
  OBVIOUS
<1> USE DEF Init, EmptyMap
<1>1. Issued = {}
  BY DEF Issued
<1>2. TypeOK
  BY <1>1 DEF TypeOK, NoFacts, ClosedFacts
<1>3. ActiveAgreement
  BY <1>1 DEF ActiveAgreement
<1>4. CountersAgree
  BY FS_EmptySet DEF CountersAgree
<1>5. QED
  BY <1>2, <1>3, <1>4 DEF RegistryInv

\* reserve takes a free slot with a sequence that was never issued, and counts it.
LEMMA RegistryReserve ==
  ASSUME RegistryInv, NEW op \in OperationIds, Reserve(op)
  PROVE  RegistryInv'
<1>1. /\ nextSequence \in Nat
      /\ nextSequence \notin Issued
      /\ Issued' = Issued \cup {nextSequence}
      /\ nextSequence \in Attempts
  BY DEF RegistryInv, Reserve, Admission, TypeOK, Issued
<1>2. /\ DOMAIN active' = DOMAIN active \cup {op}
      /\ active'[op] = nextSequence
      /\ op \notin DOMAIN active
      /\ \A p \in DOMAIN active : active'[p] = active[p]
  BY DEF Reserve, Admission, Extend
<1>3. /\ DOMAIN attempts' = Issued'
      /\ \A s \in Issued : attempts'[s] = attempts[s]
      /\ attempts'[nextSequence].operation = op
      /\ attempts'[nextSequence].phase = "Reserved"
  BY <1>1 DEF RegistryInv, Reserve, Admission, Extend, TypeOK
<1>4. TypeOK'
  <2>1. attempts' \in [Issued' -> Operation]
    BY <1>1 DEF RegistryInv, Reserve, Admission, Extend, TypeOK, Operation, Phases
  <2>2. active' \in [DOMAIN active' -> Issued'] /\ DOMAIN active' \subseteq OperationIds
    BY <1>1 DEF RegistryInv, Reserve, Admission, Extend, TypeOK
  <2>3. /\ tickets' \in [Issued' -> {"held", "asked", "dropping", "dropped"}]
        /\ published' \in [Issued' -> 0 .. PublishLimit]
    BY <1>1 DEF RegistryInv, Reserve, Admission, Extend, TypeOK
  <2>4. /\ lifecycle' = lifecycle
        /\ joinedWorkers' = joinedWorkers
        /\ shutdownPc' = shutdownPc
        /\ facts' = facts
    BY DEF Reserve, Admission, callers
  <2>5. nextSequence' \in FirstSequence .. SequenceLimit /\ retainedTasks' \in Nat
    BY DEF RegistryInv, Reserve, Admission, TypeOK
  <2>6. QED
    BY <2>1, <2>2, <2>3, <2>4, <2>5 DEF RegistryInv, TypeOK
<1>5. ActiveAgreement'
  BY <1>1, <1>2, <1>3 DEF RegistryInv, ActiveAgreement, TypeOK, Live
<1>6. CountersAgree'
  <2>1. Cardinality(DOMAIN active') = Cardinality(DOMAIN active) + 1
    BY <1>2, ActiveFinite, FS_AddElement DEF RegistryInv
  <2>2. /\ retainedTasks' = retainedTasks + 1
        /\ joinedWorkers' = joinedWorkers
        /\ nextSequence' = nextSequence + 1
    BY DEF Reserve, Admission, callers
  <2>3. QED
    BY <1>1, <2>1, <2>2 DEF RegistryInv, CountersAgree, TypeOK
<1>7. QED
  BY <1>4, <1>5, <1>6 DEF RegistryInv

\* Most calls write into one attempt and neither take nor free a slot.
LEMMA SlotsKept ==
  ASSUME RegistryInv,
         UNCHANGED <<nextSequence, active, retainedTasks, joinedWorkers>>,
         attempts' \in [Issued -> Operation],
         \A s \in Issued : /\ attempts'[s].operation = attempts[s].operation
                           /\ attempts'[s].phase \in Live <=> attempts[s].phase \in Live
  PROVE  ActiveAgreement' /\ CountersAgree'
<1>1. Issued' = Issued
  BY DEF Issued
<1>2. ActiveAgreement'
  BY <1>1 DEF RegistryInv, TypeOK, ActiveAgreement
<1>3. CountersAgree'
  BY DEF RegistryInv, CountersAgree
<1>4. QED
  BY <1>2, <1>3

\* queue and start move an attempt between live phases.
LEMMA RegistryAdvance ==
  ASSUME RegistryInv, NEW op \in OperationIds, NEW s \in Attempts,
         Queue(op, s) \/ Start(op, s)
  PROVE  RegistryInv'
<1>1. PICK from \in {"Reserved", "Queued"}, to \in {"Queued", "Running"} : Advance(op, s, from, to)
  BY DEF Queue, Start
<1>2. /\ s \in Issued
      /\ attempts' = [attempts EXCEPT ![s].phase = to]
      /\ UNCHANGED <<lifecycle, nextSequence, active, retainedTasks, joinedWorkers,
                     tickets, published>>
      /\ shutdownPc' = shutdownPc /\ facts' = facts
  BY <1>1 DEF Advance, OperationMut, callers
<1>3. attempts[s].phase \in Live
  BY <1>1 DEF Advance, Live
<1>4. attempts' \in [Issued -> Operation]
  BY <1>2 DEF RegistryInv, TypeOK, Operation, Phases
<1>5. TypeOK'
  BY <1>2, <1>4 DEF RegistryInv, TypeOK, Issued
<1>6. \A t \in Issued : /\ attempts'[t].operation = attempts[t].operation
                        /\ attempts'[t].phase \in Live <=> attempts[t].phase \in Live
  BY <1>2, <1>3 DEF RegistryInv, TypeOK, Operation, Live
<1>7. QED
  BY <1>2, <1>4, <1>5, <1>6, SlotsKept DEF RegistryInv

\* publish_progress touches the window only.
LEMMA RegistryPublishProgress ==
  ASSUME RegistryInv, NEW op \in OperationIds, NEW s \in Attempts, PublishProgress(op, s)
  PROVE  RegistryInv'
<1>1. /\ s \in Issued
      /\ published[s] + 1 \in 1 .. PublishLimit
      /\ attempts[s].progress \in Seq(1 .. PublishLimit)
  BY DEF PublishProgress, OperationMut, RegistryInv, TypeOK, Operation
<1> DEFINE window == Pushed(attempts[s].progress, published[s] + 1)
<1>2. window \in Seq(1 .. PublishLimit)
  BY <1>1, PushedWindow
<1>3. /\ attempts' = [attempts EXCEPT ![s].progress = window]
      /\ published' = [published EXCEPT ![s] = @ + 1]
      /\ UNCHANGED <<lifecycle, nextSequence, active, retainedTasks, joinedWorkers, tickets>>
      /\ shutdownPc' = shutdownPc /\ facts' = facts
  BY DEF PublishProgress, callers
<1> HIDE DEF window
<1>4. attempts' \in [Issued -> Operation]
  BY <1>1, <1>2, <1>3 DEF RegistryInv, TypeOK, Operation
<1>5. published' \in [Issued -> 0 .. PublishLimit]
  BY <1>1, <1>3 DEF RegistryInv, TypeOK
<1>6. TypeOK'
  BY <1>3, <1>4, <1>5 DEF RegistryInv, TypeOK, Issued
<1>7. \A t \in Issued : /\ attempts'[t].operation = attempts[t].operation
                        /\ attempts'[t].phase = attempts[t].phase
  BY <1>1, <1>3 DEF RegistryInv, TypeOK, Operation
<1>8. QED
  BY <1>3, <1>4, <1>6, <1>7, SlotsKept DEF RegistryInv

\* A terminal or a panic report keeps the slot: Terminal is still live.
LEMMA RegistryTerminal ==
  ASSUME RegistryInv, NEW op \in OperationIds, NEW s \in Attempts,
         NEW class \in TerminalClasses, TerminalInner(op, s, class)
  PROVE  RegistryInv'
<1>1. /\ s \in Issued
      /\ attempts[s].phase = "Running"
      /\ attempts' = [attempts EXCEPT ![s] =
           [@ EXCEPT !.terminal = [class |-> class, sequence |-> s], !.phase = "Terminal"]]
      /\ UNCHANGED <<lifecycle, nextSequence, active, retainedTasks, joinedWorkers,
                     tickets, published>>
      /\ shutdownPc' = shutdownPc /\ facts' = facts
  BY DEF TerminalInner, TerminalRecorded, OperationMut, callers
<1>2. attempts' \in [Issued -> Operation]
  <2>1. [class |-> class, sequence |-> s] \in TerminalRecord
    BY DEF TerminalRecord
  <2>2. attempts[s] \in Operation
    BY <1>1 DEF RegistryInv, TypeOK
  <2>3. [attempts[s] EXCEPT !.terminal = [class |-> class, sequence |-> s], !.phase = "Terminal"]
          \in Operation
    BY <2>1, <2>2 DEF Operation, Phases
  <2>4. QED
    BY <1>1, <2>3 DEF RegistryInv, TypeOK
<1>3. TypeOK'
  BY <1>1, <1>2 DEF RegistryInv, TypeOK, Issued
<1>4. \A t \in Issued : /\ attempts'[t].operation = attempts[t].operation
                        /\ attempts'[t].phase \in Live <=> attempts[t].phase \in Live
  BY <1>1 DEF RegistryInv, TypeOK, Operation, Live
<1>5. QED
  BY <1>1, <1>2, <1>3, <1>4, SlotsKept DEF RegistryInv

\* The comparison in release that could leave an attempt half released never
\* fails: the slot of a terminal attempt still holds its sequence.
LEMMA ReleaseIsComplete ==
  ASSUME RegistryInv, NEW op \in OperationIds, NEW s \in Attempts, Release(op, s)
  PROVE  /\ s \in Issued
         /\ op = attempts[s].operation
         /\ op \in DOMAIN active
         /\ active[op] = s
         /\ retainedTasks' = retainedTasks - 1
         /\ joinedWorkers' = joinedWorkers + 1
<1>1. s \in Issued /\ attempts[s].operation = op /\ attempts[s].phase \in Live
  BY DEF Release, OperationMut, Live
<1>2. op \in DOMAIN active /\ active[op] = s
  BY <1>1 DEF RegistryInv, ActiveAgreement
<1>3. QED
  BY <1>1, <1>2 DEF Release

\* release frees the slot and moves one attempt from one counter to the other.
LEMMA RegistryRelease ==
  ASSUME RegistryInv, NEW op \in OperationIds, NEW s \in Attempts, Release(op, s)
  PROVE  RegistryInv'
<1>1. /\ s \in Issued
      /\ op \in DOMAIN active
      /\ active[op] = s
      /\ attempts[s].operation = op
      /\ retainedTasks' = retainedTasks - 1
      /\ joinedWorkers' = joinedWorkers + 1
  BY ReleaseIsComplete
<1>2. /\ attempts' = [attempts EXCEPT ![s].phase = "Released"]
      /\ active' = Without(active, op)
      /\ UNCHANGED <<lifecycle, nextSequence, tickets, published>>
      /\ shutdownPc' = shutdownPc /\ facts' = facts
  BY DEF Release, callers
<1>3. Issued' = Issued
  BY <1>2 DEF Issued
<1>4. /\ DOMAIN active' = DOMAIN active \ {op}
      /\ \A p \in DOMAIN active' : active'[p] = active[p]
  BY <1>2 DEF Without
<1>5. CountersAgree'
  <2>1. Cardinality(DOMAIN active') = Cardinality(DOMAIN active) - 1
    BY <1>1, <1>4, ActiveFinite, FS_RemoveElement DEF RegistryInv
  <2>2. QED
    BY <1>1, <1>2, <2>1 DEF RegistryInv, CountersAgree, TypeOK
<1>6. TypeOK'
  <2>1. attempts' \in [Issued -> Operation]
    <3>1. attempts[s] \in Operation
      BY <1>1 DEF RegistryInv, TypeOK
    <3>2. [attempts[s] EXCEPT !.phase = "Released"] \in Operation
      BY <3>1 DEF Operation, Phases
    <3>3. QED
      BY <1>1, <1>2, <3>2 DEF RegistryInv, TypeOK
  <2>2. active' \in [DOMAIN active' -> Issued'] /\ DOMAIN active' \subseteq OperationIds
    BY <1>2, <1>3 DEF RegistryInv, TypeOK, Without
  <2>3. retainedTasks' \in Nat
    <3>1. Cardinality(DOMAIN active') \in Nat
      BY <1>4, ActiveFinite, FS_RemoveElement, FS_CardinalityType DEF RegistryInv
    <3>2. QED
      BY <1>5, <3>1 DEF CountersAgree
  <2>4. joinedWorkers' \in Nat
    BY <1>1 DEF RegistryInv, TypeOK
  <2>5. QED
    BY <1>2, <1>3, <2>1, <2>2, <2>3, <2>4 DEF RegistryInv, TypeOK
<1>7. ActiveAgreement'
  <2>1. /\ \A t \in Issued : attempts'[t].operation = attempts[t].operation
        /\ attempts'[s].phase \notin Live
        /\ \A t \in Issued \ {s} : attempts'[t] = attempts[t]
    BY <1>1, <1>2 DEF RegistryInv, TypeOK, Operation, Live
  <2>2. \A p \in DOMAIN active' : active'[p] # s
    BY <1>1, <1>4 DEF RegistryInv, ActiveAgreement
  <2>3. \A p \in DOMAIN active' : /\ attempts'[active'[p]].operation = p
                                  /\ attempts'[active'[p]].phase \in Live
    BY <1>4, <2>1, <2>2 DEF RegistryInv, ActiveAgreement, TypeOK
  <2>4. ASSUME NEW t \in Issued, attempts'[t].phase \in Live
        PROVE  /\ attempts'[t].operation \in DOMAIN active'
               /\ active'[attempts'[t].operation] = t
    <3>1. t # s /\ attempts[t].phase \in Live
      BY <2>1, <2>4
    <3>2. /\ attempts[t].operation \in DOMAIN active
          /\ active[attempts[t].operation] = t
      BY <3>1 DEF RegistryInv, ActiveAgreement
    <3>3. attempts[t].operation # op
      BY <1>1, <3>1, <3>2
    <3>4. QED
      BY <1>4, <2>1, <3>2, <3>3
  <2>5. QED
    BY <1>3, <2>3, <2>4 DEF ActiveAgreement
<1>8. QED
  BY <1>5, <1>6, <1>7 DEF RegistryInv

\* What consumers do sets one flag.
LEMMA RegistryConsumer ==
  ASSUME RegistryInv, NEW s \in Attempts, RequestCancel(s) \/ ConsumerDrop(s) \/ TicketDrop(s)
  PROVE  RegistryInv'
<1>1. PICK from \in SUBSET {"held", "asked", "dropping"}, to \in {"held", "asked", "dropping", "dropped"} :
        ConsumerStep(s, from, to)
  BY DEF RequestCancel, ConsumerDrop, TicketDrop
<1>2. /\ s \in Issued
      /\ tickets' = [tickets EXCEPT ![s] = to]
      /\ attempts' = CancellationRequested(s)
      /\ UNCHANGED <<lifecycle, nextSequence, active, retainedTasks, joinedWorkers, published>>
      /\ shutdownPc' = shutdownPc /\ facts' = facts
  BY <1>1 DEF ConsumerStep, callers
<1>3. attempts' \in [Issued -> Operation]
  <2>1. [attempts[s] EXCEPT !.cancellationRequested = TRUE] \in Operation
    BY <1>2, CancelledOperation DEF RegistryInv, TypeOK
  <2>2. QED
    BY <1>2, <2>1 DEF RegistryInv, TypeOK, CancellationRequested
<1>4. tickets' \in [Issued -> {"held", "asked", "dropping", "dropped"}]
  BY <1>2 DEF RegistryInv, TypeOK
<1>5. TypeOK'
  BY <1>2, <1>3, <1>4 DEF RegistryInv, TypeOK, Issued
<1>6. \A t \in Issued : /\ attempts'[t].operation = attempts[t].operation
                        /\ attempts'[t].phase = attempts[t].phase
  BY <1>2 DEF RegistryInv, TypeOK, Operation, CancellationRequested
<1>7. QED
  BY <1>2, <1>3, <1>5, <1>6, SlotsKept DEF RegistryInv

\* quiesce sets flags and the lifecycle.
LEMMA RegistryQuiesce ==
  ASSUME RegistryInv, Quiesce \/ \E c \in ShutdownCallers : ShutdownQuiesce(c)
  PROVE  RegistryInv'
<1>1. /\ QuiesceEffect
      /\ UNCHANGED <<nextSequence, active, retainedTasks, joinedWorkers, tickets, published, facts>>
  BY DEF Quiesce, ShutdownQuiesce, callers
<1>2. shutdownPc' \in [ShutdownCallers -> {"idle", "quiesced"}]
  BY DEF RegistryInv, TypeOK, Quiesce, ShutdownQuiesce, callers
<1>3. lifecycle' \in {"Running", "Quiescing", "Closed"}
  BY <1>1 DEF QuiesceEffect, RegistryInv, TypeOK
<1>4. \A s \in Issued :
        attempts'[s] \in {attempts[s], [attempts[s] EXCEPT !.cancellationRequested = TRUE]}
  BY <1>1 DEF QuiesceEffect, ActiveCancelled
<1>5. \A s \in Issued : attempts[s] \in Operation
  BY DEF RegistryInv, TypeOK
<1>6. attempts' \in [Issued -> Operation]
  <2>1. \A s \in Issued : attempts'[s] \in Operation
    BY <1>4, <1>5, CancelledOperation
  <2>2. attempts' = [s \in Issued |-> attempts'[s]]
    BY <1>1 DEF QuiesceEffect, ActiveCancelled, RegistryInv, TypeOK
  <2>3. QED
    BY <2>1, <2>2
<1>7. TypeOK'
  BY <1>1, <1>2, <1>3, <1>6 DEF RegistryInv, TypeOK, Issued
<1>8. \A t \in Issued : /\ attempts'[t].operation = attempts[t].operation
                        /\ attempts'[t].phase = attempts[t].phase
  BY <1>4, <1>5, CancelledOperation
<1>9. QED
  BY <1>1, <1>6, <1>7, <1>8, SlotsKept DEF RegistryInv

\* The second section of shutdown writes the lifecycle alone.
LEMMA RegistryShutdownFinish ==
  ASSUME RegistryInv, NEW c \in ShutdownCallers, ShutdownFinish(c)
  PROVE  RegistryInv'
<1>1. /\ UNCHANGED <<nextSequence, active, attempts, retainedTasks, joinedWorkers,
                     tickets, published>>
      /\ lifecycle' \in {lifecycle, "Closed"}
      /\ shutdownPc' = [shutdownPc EXCEPT ![c] = "idle"]
      /\ facts' = [facts EXCEPT ![c] = FactsUnder(lifecycle')]
  BY DEF ShutdownFinish
<1>2. lifecycle' \in {"Running", "Quiescing", "Closed"}
  BY <1>1 DEF RegistryInv, TypeOK
<1>3. FactsUnder(lifecycle') \in ClosedFacts
  BY <1>2, ActiveFinite DEF FactsUnder, ClosedFacts, RegistryInv, TypeOK
<1>4. TypeOK'
  BY <1>1, <1>2, <1>3 DEF RegistryInv, TypeOK, Issued
<1>5. ActiveAgreement' /\ CountersAgree'
  BY <1>1 DEF RegistryInv, ActiveAgreement, CountersAgree, Issued
<1>6. QED
  BY <1>4, <1>5 DEF RegistryInv

\* Every step preserves the registry invariant.
LEMMA RegistryStep ==
  ASSUME RegistryInv, [Next]_vars
  PROVE  RegistryInv'
<1>1. CASE \E op \in OperationIds : Reserve(op)
  BY <1>1, RegistryReserve
<1>2. ASSUME NEW op \in OperationIds, NEW s \in Attempts, ExecutorStep(op, s)
      PROVE  RegistryInv'
  BY <1>2, RegistryAdvance, RegistryPublishProgress, RegistryTerminal, RegistryRelease
  DEF ExecutorStep, Terminal, RecordExecutorPanic, TerminalClasses
<1>3. CASE \E s \in Attempts : RequestCancel(s) \/ ConsumerDrop(s) \/ TicketDrop(s)
  BY <1>3, RegistryConsumer
<1>4. CASE Quiesce \/ \E c \in ShutdownCallers : ShutdownQuiesce(c)
  BY <1>4, RegistryQuiesce
<1>5. CASE \E c \in ShutdownCallers : ShutdownFinish(c)
  BY <1>5, RegistryShutdownFinish
<1>6. CASE UNCHANGED vars
  BY <1>6 DEF vars, registry, callers, RegistryInv, TypeOK, ActiveAgreement, CountersAgree, Issued
<1>7. QED
  BY <1>1, <1>2, <1>3, <1>4, <1>5, <1>6 DEF Next

\* The registry, the attempts and the counters agree in every reachable state.
THEOREM RegistryInvariant == Spec => []RegistryInv
BY RegistryInit, RegistryStep, PTL DEF Spec

\* Every variable keeps its type; in particular, sequences stay below the
\* limit of u64 and retained tasks never go below zero.
THEOREM TypeCorrect == Spec => []TypeOK
BY RegistryInvariant, PTL DEF RegistryInv

\* An operation id is taken exactly by its one attempt that is not released.
THEOREM ActiveAgreementHolds == Spec => []ActiveAgreement
BY RegistryInvariant, PTL DEF RegistryInv

\* Every issued attempt is counted once, as a retained task or a joined worker.
THEOREM CountersAgreeHolds == Spec => []CountersAgree
BY RegistryInvariant, PTL DEF RegistryInv

-----------------------------------------------------------------------------
(* Cancellation. *)

CancelInv == QuiesceReachesEveryAttempt /\ CancelledOnDemand

\* What the two critical sections of shutdown leave true between them: nobody
\* is admitted any more, and a closed owner owns nothing.
ShutdownInv ==
  /\ ShutdownAccountsForEveryAttempt
  /\ lifecycle = "Closed" => DOMAIN active = {}
  /\ \A c \in ShutdownCallers : shutdownPc[c] = "quiesced" \/ facts[c] # NoFacts =>
                                  lifecycle # "Running"

\* reserve admits while running, with a ticket that is held.
LEMMA CancelReserve ==
  ASSUME RegistryInv, CancelInv, NEW op \in OperationIds, Reserve(op)
  PROVE  CancelInv'
<1>1. /\ nextSequence \notin Issued
      /\ Issued' = Issued \cup {nextSequence}
      /\ DOMAIN attempts = Issued
      /\ DOMAIN tickets = Issued
  BY DEF RegistryInv, Reserve, Admission, TypeOK, Issued
<1>2. /\ \A s \in Issued : attempts'[s] = attempts[s] /\ tickets'[s] = tickets[s]
      /\ attempts'[nextSequence].phase = "Reserved"
      /\ ~attempts'[nextSequence].cancellationRequested
      /\ tickets'[nextSequence] = "held"
      /\ lifecycle' = "Running"
  BY <1>1 DEF Reserve, Admission, Extend
<1>3. QuiesceReachesEveryAttempt'
  BY <1>2 DEF QuiesceReachesEveryAttempt
<1>4. CancelledOnDemand'
  <2>1. ASSUME NEW s \in Issued PROVE UNCHANGED <<attempts[s], tickets[s], lifecycle>>
    BY <1>2 DEF Reserve, Admission
  <2>2. QED
    BY <1>1, <1>2, <2>1 DEF CancelInv, CancelledOnDemand, Reserve
<1>5. QED
  BY <1>3, <1>4 DEF CancelInv

\* A call by an executor leaves the cancellation flag, the ticket and the
\* lifecycle alone, and no attempt becomes unsettled.
LEMMA CancelExecutor ==
  ASSUME RegistryInv, CancelInv, NEW op \in OperationIds, NEW s \in Attempts, ExecutorStep(op, s)
  PROVE  CancelInv'
<1>1. /\ s \in Issued
      /\ UNCHANGED <<lifecycle, nextSequence, tickets>>
  BY DEF ExecutorStep, Queue, Start, Advance, PublishProgress, Terminal, RecordExecutorPanic,
         TerminalInner, TerminalRecorded, Release, OperationMut
<1>2. Issued' = Issued
  BY <1>1 DEF Issued
<1>3. attempts[s] \in Operation
  BY <1>1 DEF RegistryInv, TypeOK
<1>4. \A t \in Issued \ {s} : attempts'[t] = attempts[t]
  BY <1>1 DEF RegistryInv, TypeOK, ExecutorStep, Queue, Start, Advance, PublishProgress,
         Terminal, RecordExecutorPanic, TerminalInner, TerminalRecorded, Release
<1>5. /\ attempts'[s].cancellationRequested = attempts[s].cancellationRequested
      /\ attempts'[s].phase \in {"Reserved", "Queued", "Running"} =>
           attempts[s].phase \in {"Reserved", "Queued", "Running"}
  <2>1. CASE Queue(op, s) \/ Start(op, s)
    BY <1>1, <1>3, <2>1 DEF RegistryInv, TypeOK, Operation, Queue, Start, Advance
  <2>2. CASE PublishProgress(op, s)
    BY <1>1, <1>3, <2>2 DEF RegistryInv, TypeOK, Operation, PublishProgress
  <2>3. ASSUME NEW class \in TerminalClasses, TerminalInner(op, s, class)
        PROVE  <1>5
    BY <1>1, <1>3, <2>3 DEF RegistryInv, TypeOK, Operation, TerminalInner, TerminalRecorded
  <2>4. CASE Release(op, s)
    BY <1>1, <1>3, <2>4 DEF RegistryInv, TypeOK, Operation, Release
  <2>5. QED
    BY <2>1, <2>2, <2>3, <2>4 DEF ExecutorStep, Terminal, RecordExecutorPanic, TerminalClasses
<1>6. QuiesceReachesEveryAttempt'
  BY <1>1, <1>2, <1>4, <1>5 DEF CancelInv, QuiesceReachesEveryAttempt
<1>7. CancelledOnDemand'
  BY <1>1, <1>2, <1>4, <1>5 DEF CancelInv, CancelledOnDemand
<1>8. QED
  BY <1>6, <1>7 DEF CancelInv

\* What a cancellation, from a ticket or from quiesce, does to one attempt.
LEMMA FlagOnly ==
  ASSUME NEW r \in Operation, NEW q \in {r, [r EXCEPT !.cancellationRequested = TRUE]}
  PROVE  /\ q.phase = r.phase
         /\ q.terminal = r.terminal
         /\ r.cancellationRequested => q.cancellationRequested
BY DEF Operation

\* A consumer that uses its ticket has cancelled its own attempt and no other,
\* unless it came too late.
LEMMA CancelConsumer ==
  ASSUME RegistryInv, CancelInv, NEW s \in Attempts,
         RequestCancel(s) \/ ConsumerDrop(s) \/ TicketDrop(s)
  PROVE  CancelInv'
<1>1. /\ s \in Issued
      /\ UNCHANGED <<lifecycle, nextSequence>>
      /\ attempts' = CancellationRequested(s)
      /\ tickets'[s] # "held"
      /\ \A t \in Issued \ {s} : tickets'[t] = tickets[t]
  BY DEF RequestCancel, ConsumerDrop, TicketDrop, ConsumerStep, RegistryInv, TypeOK
<1>2. Issued' = Issued
  BY <1>1 DEF Issued
<1>3. \A t \in Issued :
        /\ attempts[t] \in Operation
        /\ attempts'[t] \in {attempts[t], [attempts[t] EXCEPT !.cancellationRequested = TRUE]}
  BY <1>1 DEF RegistryInv, TypeOK, CancellationRequested
<1>4. attempts'[s].cancellationRequested \/ attempts[s].phase \in {"Terminal", "Released"}
  BY <1>1, <1>3 DEF RegistryInv, TypeOK, CancellationRequested, Operation
<1>5. \A t \in Issued \ {s} : attempts'[t] = attempts[t]
  BY <1>1 DEF RegistryInv, TypeOK, CancellationRequested
<1>6. \A t \in Issued : /\ attempts'[t].phase = attempts[t].phase
                        /\ attempts'[t].terminal = attempts[t].terminal
                        /\ attempts[t].cancellationRequested => attempts'[t].cancellationRequested
  <2>1. SUFFICES ASSUME NEW t \in Issued
                 PROVE  /\ attempts'[t].phase = attempts[t].phase
                        /\ attempts'[t].terminal = attempts[t].terminal
                        /\ attempts[t].cancellationRequested
                             => attempts'[t].cancellationRequested
    OBVIOUS
  <2>2. /\ attempts[t] \in Operation
        /\ attempts'[t] \in {attempts[t], [attempts[t] EXCEPT !.cancellationRequested = TRUE]}
    BY <1>3
  <2>3. QED
    BY ONLY <2>2, FlagOnly, Zenon
<1>7. QuiesceReachesEveryAttempt'
  BY <1>1, <1>2, <1>6 DEF CancelInv, QuiesceReachesEveryAttempt
<1>8. CancelledOnDemand'
  BY <1>1, <1>2, <1>4, <1>5, <1>6 DEF CancelInv, CancelledOnDemand
<1>9. QED
  BY <1>7, <1>8 DEF CancelInv

\* quiesce walks the slots of the operation ids; the agreement of slots and
\* attempts is why it meets every attempt that has not settled.
LEMMA CancelQuiesce ==
  ASSUME RegistryInv, CancelInv, Quiesce \/ \E c \in ShutdownCallers : ShutdownQuiesce(c)
  PROVE  CancelInv'
<1>1. QuiesceEffect /\ UNCHANGED <<nextSequence, active, tickets>>
  BY DEF Quiesce, ShutdownQuiesce
<1>2. Issued' = Issued
  BY <1>1 DEF Issued
<1>3. \A t \in Issued :
        /\ attempts[t] \in Operation
        /\ attempts'[t] \in {attempts[t], [attempts[t] EXCEPT !.cancellationRequested = TRUE]}
  BY <1>1 DEF RegistryInv, TypeOK, QuiesceEffect, ActiveCancelled
<1>4. \A t \in Issued : /\ attempts'[t].phase = attempts[t].phase
                        /\ attempts'[t].terminal = attempts[t].terminal
                        /\ attempts[t].cancellationRequested => attempts'[t].cancellationRequested
  <2>1. SUFFICES ASSUME NEW t \in Issued
                 PROVE  /\ attempts'[t].phase = attempts[t].phase
                        /\ attempts'[t].terminal = attempts[t].terminal
                        /\ attempts[t].cancellationRequested
                             => attempts'[t].cancellationRequested
    OBVIOUS
  <2>2. /\ attempts[t] \in Operation
        /\ attempts'[t] \in {attempts[t], [attempts[t] EXCEPT !.cancellationRequested = TRUE]}
    BY <1>3
  <2>3. QED
    BY ONLY <2>2, FlagOnly, Zenon
<1>5. QuiesceReachesEveryAttempt'
  <2>1. CASE lifecycle = "Running"
    <3>1. ASSUME NEW t \in Issued, attempts[t].phase \in {"Reserved", "Queued", "Running"}
          PROVE  attempts'[t].cancellationRequested
      <4>1. \E op \in DOMAIN active : active[op] = t
        BY <3>1 DEF RegistryInv, ActiveAgreement, Live
      <4>2. attempts'[t] = [attempts[t] EXCEPT !.cancellationRequested = TRUE]
        BY <1>1, <2>1, <3>1, <4>1 DEF QuiesceEffect, ActiveCancelled
      <4>3. QED
        BY <1>3, <4>2 DEF Operation
    <3>2. QED
      BY <1>2, <1>4, <3>1 DEF QuiesceReachesEveryAttempt
  <2>2. CASE lifecycle # "Running"
    BY <1>2, <1>4, <2>2 DEF CancelInv, QuiesceReachesEveryAttempt
  <2>3. QED
    BY <2>1, <2>2
<1>6. CancelledOnDemand'
  <2>1. lifecycle' # "Running"
    BY <1>1 DEF QuiesceEffect
  <2> QED
    BY <1>1, <1>2, <1>4, <2>1 DEF CancelInv, CancelledOnDemand
<1>7. QED
  BY <1>5, <1>6 DEF CancelInv

\* Closing needs nothing but that a shutdown quiesced first.
LEMMA CancelShutdownFinish ==
  ASSUME RegistryInv, CancelInv, ShutdownInv, NEW c \in ShutdownCallers, ShutdownFinish(c)
  PROVE  CancelInv'
<1>1. UNCHANGED <<nextSequence, attempts, tickets>> /\ lifecycle # "Running" /\ lifecycle' # "Running"
  BY DEF ShutdownFinish, ShutdownInv
<1>2. QED
  BY <1>1 DEF CancelInv, QuiesceReachesEveryAttempt, CancelledOnDemand, Issued

-----------------------------------------------------------------------------
(* Shutdown. *)

\* Steps that admit nobody, take no slot and do not touch the shutdowns.
LEMMA ShutdownUndisturbed ==
  ASSUME ShutdownInv,
         UNCHANGED <<lifecycle, nextSequence, shutdownPc, facts>>,
         DOMAIN active' \subseteq DOMAIN active
  PROVE  ShutdownInv'
<1>1. DOMAIN active = {} => DOMAIN active' = {}
  OBVIOUS
<1>2. lifecycle' = "Closed" => DOMAIN active' = {}
  BY <1>1 DEF ShutdownInv
<1>3. \A c \in ShutdownCallers : shutdownPc'[c] = "quiesced" \/ facts'[c] # NoFacts =>
                                   lifecycle' # "Running"
  BY DEF ShutdownInv
<1>4. ShutdownAccountsForEveryAttempt'
  BY <1>1 DEF ShutdownInv, ShutdownAccountsForEveryAttempt
<1>5. QED
  BY <1>2, <1>3, <1>4 DEF ShutdownInv

\* reserve needs a running owner, and then no shutdown has quiesced.
LEMMA ShutdownReserve ==
  ASSUME ShutdownInv, NEW op \in OperationIds, Reserve(op)
  PROVE  ShutdownInv'
<1>1. lifecycle = "Running" /\ UNCHANGED <<lifecycle, shutdownPc, facts>>
  BY DEF Reserve, Admission, callers
<1>2. \A c \in ShutdownCallers : facts'[c] = NoFacts /\ shutdownPc'[c] # "quiesced"
  BY <1>1 DEF ShutdownInv
<1>3. QED
  BY <1>1, <1>2 DEF ShutdownInv, ShutdownAccountsForEveryAttempt

\* An executor may only empty slots, and leaves what was issued alone.
LEMMA ShutdownExecutor ==
  ASSUME RegistryInv, ShutdownInv, NEW op \in OperationIds, NEW s \in Attempts,
         ExecutorStep(op, s)
  PROVE  ShutdownInv'
<1>1. UNCHANGED <<lifecycle, nextSequence, shutdownPc, facts>>
  BY DEF ExecutorStep, Queue, Start, Advance, PublishProgress, Terminal, RecordExecutorPanic,
         TerminalInner, TerminalRecorded, Release, callers
<1>2. DOMAIN active' \subseteq DOMAIN active
  BY DEF ExecutorStep, Queue, Start, Advance, PublishProgress, Terminal, RecordExecutorPanic,
         TerminalInner, TerminalRecorded, Release, Without
<1>3. QED
  BY <1>1, <1>2, ShutdownUndisturbed

\* After quiesce, by whoever called it, the owner is not running.
LEMMA ShutdownQuiesces ==
  ASSUME RegistryInv, ShutdownInv, Quiesce \/ \E c \in ShutdownCallers : ShutdownQuiesce(c)
  PROVE  ShutdownInv'
<1>1. UNCHANGED <<nextSequence, active, facts>> /\ QuiesceEffect
  BY DEF Quiesce, ShutdownQuiesce, callers
<1>2. lifecycle' # "Running"
  BY <1>1 DEF QuiesceEffect
<1>3. lifecycle = "Running" => \A c \in ShutdownCallers : facts[c] = NoFacts
  BY DEF ShutdownInv
<1>4. lifecycle # "Running" => lifecycle' = lifecycle
  BY <1>1 DEF QuiesceEffect
<1>5. ShutdownAccountsForEveryAttempt'
  BY <1>1, <1>3, <1>4 DEF ShutdownInv, ShutdownAccountsForEveryAttempt
<1>6. lifecycle' = "Closed" => DOMAIN active' = {}
  BY <1>1 DEF QuiesceEffect, ShutdownInv
<1>7. QED
  BY <1>2, <1>5, <1>6 DEF ShutdownInv

\* The facts shutdown returns are those of the registry, which CountersAgree adds up.
LEMMA ShutdownFinishes ==
  ASSUME RegistryInv, ShutdownInv, NEW c \in ShutdownCallers, ShutdownFinish(c)
  PROVE  ShutdownInv'
<1> DEFINE returned == FactsUnder(lifecycle')
<1>1. /\ UNCHANGED <<nextSequence, active>>
      /\ facts' = [facts EXCEPT ![c] = returned]
      /\ lifecycle' = IF DOMAIN active = {} /\ retainedTasks = 0 THEN "Closed" ELSE lifecycle
      /\ lifecycle # "Running"
  BY DEF ShutdownFinish, ShutdownInv
<1>2. retainedTasks = 0 <=> DOMAIN active = {}
  BY ActiveFinite, FS_EmptySet DEF RegistryInv, CountersAgree
<1>3. lifecycle' = "Closed" <=> retainedTasks = 0
  BY <1>1, <1>2 DEF ShutdownInv
<1>4. /\ returned.lifecycle = lifecycle'
      /\ returned.expectedWorkers = nextSequence - FirstSequence
      /\ returned.activeOperations = returned.retainedTasks
      /\ returned.joinedWorkers = returned.expectedWorkers <=> retainedTasks = 0
  BY DEF FactsUnder, RegistryInv, CountersAgree, TypeOK
<1>5. lifecycle' \in {"Quiescing", "Closed"}
  BY <1>1 DEF RegistryInv, TypeOK
<1> HIDE DEF returned
<1>6. ShutdownAccountsForEveryAttempt'
  <2>1. ASSUME NEW d \in ShutdownCallers, facts'[d] # NoFacts
        PROVE  /\ facts'[d].lifecycle \in {"Quiescing", "Closed"}
               /\ facts'[d].expectedWorkers = nextSequence' - FirstSequence
               /\ facts'[d].activeOperations = facts'[d].retainedTasks
               /\ facts'[d].lifecycle = "Closed" <=>
                    facts'[d].joinedWorkers = facts'[d].expectedWorkers
               /\ facts'[d].lifecycle = "Closed" => lifecycle' = "Closed" /\ DOMAIN active' = {}
    <3>1. CASE d = c
      <4>1. facts'[d] = returned
        BY <1>1, <3>1 DEF RegistryInv, TypeOK
      <4>2. QED
        BY <1>1, <1>2, <1>3, <1>4, <1>5, <4>1
    <3>2. CASE d # c
      <4>1. facts'[d] = facts[d]
        BY <1>1, <3>2 DEF RegistryInv, TypeOK
      <4>2. QED
        BY <1>1, <2>1, <4>1 DEF ShutdownInv, ShutdownAccountsForEveryAttempt
    <3>3. QED
      BY <3>1, <3>2
  <2>2. QED
    BY <2>1 DEF ShutdownAccountsForEveryAttempt
<1>7. lifecycle' = "Closed" => DOMAIN active' = {}
  BY <1>1, <1>2, <1>3
<1>8. QED
  BY <1>5, <1>6, <1>7 DEF ShutdownInv

-----------------------------------------------------------------------------

\* The inductive invariant behind every safety theorem below.
IInv == RegistryInv /\ CancelInv /\ ShutdownInv

\* The inductive invariant holds at the start.
LEMMA IInvInit == Init => IInv
<1> SUFFICES ASSUME Init PROVE IInv
  OBVIOUS
<1>1. Issued = {}
  BY DEF Init, Issued
<1>2. CancelInv
  BY <1>1 DEF Init, CancelInv, QuiesceReachesEveryAttempt, CancelledOnDemand
<1>3. ShutdownInv
  BY DEF Init, ShutdownInv, ShutdownAccountsForEveryAttempt
<1>4. QED
  BY <1>2, <1>3, RegistryInit DEF IInv

\* The inductive invariant is preserved by every step.
LEMMA IInvStep ==
  ASSUME IInv, [Next]_vars
  PROVE  IInv'
<1> USE DEF IInv
<1>1. RegistryInv'
  BY RegistryStep
<1>2. CASE \E op \in OperationIds : Reserve(op)
  BY <1>1, <1>2, CancelReserve, ShutdownReserve
<1>3. CASE \E op \in OperationIds, s \in Attempts : ExecutorStep(op, s)
  BY <1>1, <1>3, CancelExecutor, ShutdownExecutor
<1>4. ASSUME NEW s \in Attempts, RequestCancel(s) \/ ConsumerDrop(s) \/ TicketDrop(s)
      PROVE  IInv'
  <2>1. UNCHANGED <<lifecycle, nextSequence, active, shutdownPc, facts>>
    BY <1>4 DEF RequestCancel, ConsumerDrop, TicketDrop, ConsumerStep, callers
  <2>2. ShutdownInv'
    BY <2>1, ShutdownUndisturbed
  <2>3. QED
    BY <1>1, <1>4, <2>2, CancelConsumer
<1>5. CASE Quiesce \/ \E c \in ShutdownCallers : ShutdownQuiesce(c)
  BY <1>1, <1>5, CancelQuiesce, ShutdownQuiesces
<1>6. CASE \E c \in ShutdownCallers : ShutdownFinish(c)
  BY <1>1, <1>6, CancelShutdownFinish, ShutdownFinishes
<1>7. CASE UNCHANGED vars
  <2>1. UNCHANGED <<lifecycle, nextSequence, active, attempts, tickets, shutdownPc, facts>>
    BY <1>7 DEF vars, registry, callers
  <2>2. ShutdownInv'
    BY <2>1, ShutdownUndisturbed
  <2>3. CancelInv'
    BY <2>1 DEF CancelInv, QuiesceReachesEveryAttempt, CancelledOnDemand, Issued
  <2>4. QED
    BY <1>1, <2>2, <2>3
<1>8. QED
  BY <1>2, <1>3, <1>4, <1>5, <1>6, <1>7 DEF Next

LEMMA IInvariant == Spec => []IInv
BY IInvInit, IInvStep, PTL DEF Spec

\* No attempt that has yet to settle escapes the cancellation of quiesce,
\* whichever way admissions and quiescing race.
THEOREM QuiesceReachesEveryAttemptHolds == Spec => []QuiesceReachesEveryAttempt
BY IInvariant, PTL DEF IInv, CancelInv

\* A ticket that was used has cancelled its attempt, unless that had settled; and
\* only its own ticket or quiesce has, whatever attempts shared the operation id.
THEOREM CancelledOnDemandHolds == Spec => []CancelledOnDemand
BY IInvariant, PTL DEF IInv, CancelInv

\* Every ClosedFacts that any number of concurrent shutdowns return accounts
\* for every attempt ever admitted, and is Closed only with all of them joined.
THEOREM ShutdownAccountsForEveryAttemptHolds == Spec => []ShutdownAccountsForEveryAttempt
BY IInvariant, PTL DEF IInv, ShutdownInv

-----------------------------------------------------------------------------
(* What a late call cannot do. *)

\* A closed registry has no slot taken, so every call but a repeated one is refused.
LEMMA ClosedStep ==
  ASSUME IInv, [Next]_vars, lifecycle = "Closed"
  PROVE  UNCHANGED registry
<1> USE DEF IInv, registry
<1>1. \A s \in Issued : attempts[s].phase = "Released"
  <2>1. DOMAIN active = {}
    BY DEF ShutdownInv
  <2>2. \A s \in Issued : attempts[s].phase \in Phases
    BY DEF RegistryInv, TypeOK, Operation
  <2>3. QED
    BY <2>1, <2>2 DEF RegistryInv, ActiveAgreement, Phases, Live
<1>2. ASSUME NEW op \in OperationIds, Reserve(op)
      PROVE  FALSE
  BY <1>2 DEF Reserve
<1>3. ASSUME NEW op \in OperationIds, NEW s \in Attempts, ExecutorStep(op, s)
      PROVE  FALSE
  BY <1>1, <1>3 DEF ExecutorStep, Queue, Start, Advance, PublishProgress, Terminal,
     RecordExecutorPanic, TerminalInner, Release, OperationMut
<1>4. ASSUME NEW s \in Attempts, RequestCancel(s) \/ ConsumerDrop(s) \/ TicketDrop(s)
      PROVE  UNCHANGED registry
  BY <1>1, <1>4 DEF RequestCancel, ConsumerDrop, TicketDrop, ConsumerStep, CancellationRequested
<1>5. CASE Quiesce \/ \E c \in ShutdownCallers : ShutdownQuiesce(c)
  BY <1>5 DEF Quiesce, ShutdownQuiesce, QuiesceEffect
<1>6. CASE \E c \in ShutdownCallers : ShutdownFinish(c)
  BY <1>6 DEF ShutdownFinish
<1>7. CASE UNCHANGED vars
  BY <1>7 DEF vars
<1>8. QED
  BY <1>2, <1>3, <1>4, <1>5, <1>6, <1>7 DEF Next

\* After Closed, no call that was on its way changes the registry.
THEOREM ClosedIsFinalHolds == Spec => ClosedIsFinal
<1>1. IInv /\ [Next]_vars => [lifecycle = "Closed" => UNCHANGED registry]_vars
  BY ClosedStep
<1>2. QED
  BY <1>1, IInvariant, PTL DEF Spec, ClosedIsFinal

Settled(s) == attempts[s].phase \in {"Terminal", "Released"}
SnapshotKept(s) ==
  /\ attempts'[s] \in {attempts[s], [attempts[s] EXCEPT !.phase = "Released"]}
  /\ attempts[s].phase = "Released" => attempts'[s] = attempts[s]

\* No step changes a terminal attempt, but for its release.
LEMMA TerminalStep ==
  ASSUME IInv, Next, NEW t \in Issued, Settled(t)
  PROVE  SnapshotKept(t)
<1> USE DEF IInv, RegistryInv, TypeOK, Settled, SnapshotKept
<1>1. ASSUME NEW op \in OperationIds, Reserve(op)
      PROVE  SnapshotKept(t)
  <2>1. t # nextSequence
    BY DEF Issued
  <2>2. QED
    BY <1>1, <2>1 DEF Reserve, Admission, Extend
<1>2. ASSUME NEW op \in OperationIds, NEW s \in Attempts, ExecutorStep(op, s)
      PROVE  SnapshotKept(t)
  <2>1. CASE s # t
    BY <1>2, <2>1 DEF ExecutorStep, Queue, Start, Advance, PublishProgress, Terminal,
       RecordExecutorPanic, TerminalInner, TerminalRecorded, Release
  <2>2. CASE s = t
    <3>1. Release(op, t) /\ attempts[t].phase = "Terminal"
      BY <1>2, <2>2 DEF ExecutorStep, Queue, Start, Advance, PublishProgress, Terminal,
         RecordExecutorPanic, TerminalInner, Release
    <3>2. attempts' = [attempts EXCEPT ![t].phase = "Released"]
      BY <3>1 DEF Release
    <3>3. QED
      BY <3>1, <3>2
  <2>3. QED
    BY <2>1, <2>2
<1>3. ASSUME NEW s \in Attempts, RequestCancel(s) \/ ConsumerDrop(s) \/ TicketDrop(s)
      PROVE  SnapshotKept(t)
  BY <1>3 DEF RequestCancel, ConsumerDrop, TicketDrop, ConsumerStep, CancellationRequested
<1>4. CASE Quiesce \/ \E c \in ShutdownCallers : ShutdownQuiesce(c)
  \* quiesce skips Terminal explicitly, and meets no released attempt because
  \* no slot holds one.
  <2>1. \A op \in DOMAIN active : attempts[active[op]].phase # "Released"
    BY DEF ActiveAgreement, Live
  <2>2. QED
    BY <1>4, <2>1 DEF Quiesce, ShutdownQuiesce, QuiesceEffect, ActiveCancelled
<1>5. CASE \E c \in ShutdownCallers : ShutdownFinish(c)
  BY <1>5 DEF ShutdownFinish
<1>6. QED
  BY <1>1, <1>2, <1>3, <1>4, <1>5 DEF Next

\* Once an attempt has its terminal, nothing that comes late changes it.
THEOREM TerminalIsFinalHolds == Spec => TerminalIsFinal
<1> DEFINE A == \A s \in Issued : attempts[s].phase \in {"Terminal", "Released"} =>
       /\ attempts'[s] \in {attempts[s], [attempts[s] EXCEPT !.phase = "Released"]}
       /\ attempts[s].phase = "Released" => attempts'[s] = attempts[s]
<1>1. IInv /\ [Next]_vars => [A]_vars
  BY TerminalStep DEF Settled, SnapshotKept
<1>2. QED
  BY <1>1, IInvariant, PTL DEF Spec, TerminalIsFinal

-----------------------------------------------------------------------------
(* The supervisor implements LifecycleContract. *)

\* A step of one attempt, seen through the mapping, changes only that attempt.
LEMMA MappedUpdate ==
  ASSUME NEW s \in Attempts, NEW standing, NEW outcome,
         \A t \in Attempts \ {s} : Standing'[t] = Standing[t] /\ Outcome'[t] = Outcome[t],
         Standing'[s] = standing, Outcome'[s] = outcome
  PROVE  /\ Standing' = [Standing EXCEPT ![s] = standing]
         /\ Outcome' = [Outcome EXCEPT ![s] = outcome]
<1>1. /\ Standing = [t \in Attempts |-> Standing[t]]
      /\ Standing' = [t \in Attempts |-> Standing'[t]]
  BY DEF Standing
<1>2. /\ Outcome = [t \in Attempts |-> Outcome[t]]
      /\ Outcome' = [t \in Attempts |-> Outcome'[t]]
  BY DEF Outcome
<1>3. Standing' = [Standing EXCEPT ![s] = standing]
  BY <1>1
<1>4. Outcome' = [Outcome EXCEPT ![s] = outcome]
  BY <1>2
<1>5. QED
  BY <1>3, <1>4

\* A step that keeps every attempt's phase and terminal is invisible.
LEMMA MappedStutter ==
  ASSUME Issued' = Issued,
         \A s \in Issued : /\ attempts'[s].phase = attempts[s].phase
                           /\ attempts'[s].terminal = attempts[s].terminal
  PROVE  Standing' = Standing /\ Outcome' = Outcome
BY DEF Standing, Outcome

\* reserve implements Admit.
LEMMA ContractReserve ==
  ASSUME IInv, NEW op \in OperationIds, Reserve(op)
  PROVE  Contract!Next
<1>1. /\ nextSequence \in Attempts
      /\ nextSequence \notin Issued
      /\ Issued' = Issued \cup {nextSequence}
      /\ DOMAIN attempts = Issued
      /\ lifecycle = "Running" /\ lifecycle' = lifecycle
  BY DEF IInv, RegistryInv, Reserve, Admission, TypeOK, Issued
<1>2. /\ \A s \in Issued : attempts'[s] = attempts[s]
      /\ attempts'[nextSequence].phase = "Reserved"
      /\ attempts'[nextSequence].terminal = None
  BY <1>1 DEF Reserve, Admission, Extend
<1>3. Standing[nextSequence] = "unknown" /\ Outcome[nextSequence] = None
  BY <1>1 DEF Standing, Outcome
<1>4. Standing'[nextSequence] = "owned" /\ Outcome'[nextSequence] = None
  BY <1>1, <1>2 DEF Standing, Outcome
<1>5. \A t \in Attempts \ {nextSequence} : Standing'[t] = Standing[t] /\ Outcome'[t] = Outcome[t]
  BY <1>1, <1>2 DEF Standing, Outcome
<1>6. /\ Standing' = [Standing EXCEPT ![nextSequence] = "owned"]
      /\ Outcome' = Outcome
  BY <1>1, <1>3, <1>4, <1>5 DEF Standing, Outcome
<1>7. Contract!Admit(nextSequence)
  BY <1>1, <1>3, <1>6 DEF Contract!Admit
<1>8. QED
  BY <1>1, <1>7 DEF Contract!Next

\* A terminal implements Settle, a release Join, and the rest is invisible.
LEMMA ContractExecutor ==
  ASSUME IInv, NEW op \in OperationIds, NEW s \in Attempts, ExecutorStep(op, s)
  PROVE  Contract!Next \/ UNCHANGED Contract!vars
<1>1. /\ s \in Issued
      /\ UNCHANGED <<lifecycle, nextSequence>>
      /\ attempts[s].phase # "Released"
      /\ attempts[s] \in Operation
      /\ \A t \in Issued \ {s} : attempts'[t] = attempts[t]
  BY DEF IInv, RegistryInv, TypeOK, ExecutorStep, Queue, Start, Advance, PublishProgress,
         Terminal, RecordExecutorPanic, TerminalInner, TerminalRecorded, Release, OperationMut
<1>2. Issued' = Issued
  BY <1>1 DEF Issued
<1>3. \A t \in Attempts \ {s} : Standing'[t] = Standing[t] /\ Outcome'[t] = Outcome[t]
  BY <1>1, <1>2 DEF Standing, Outcome
<1>4. ASSUME Queue(op, s) \/ Start(op, s) \/ PublishProgress(op, s)
      PROVE  UNCHANGED Contract!vars
  <2>1. /\ Standing'[s] = Standing[s]
        /\ Outcome'[s] = Outcome[s]
    BY <1>1, <1>2, <1>4
    DEF IInv, RegistryInv, TypeOK, Operation, Queue, Start, Advance, PublishProgress,
        Standing, Outcome
  <2>2. Standing' = Standing /\ Outcome' = Outcome
    BY <1>3, <2>1 DEF Standing, Outcome
  <2>3. QED
    BY <1>1, <2>2 DEF Contract!vars
<1>5. ASSUME NEW class \in TerminalClasses, TerminalInner(op, s, class)
      PROVE  Contract!Next
  <2>1. [class |-> class, sequence |-> s] # None
    BY NoneAssumption DEF TerminalRecord
  <2>2. /\ attempts[s].phase = "Running"
        /\ attempts'[s] = [attempts[s] EXCEPT !.terminal = [class |-> class, sequence |-> s],
                                              !.phase = "Terminal"]
    BY <1>1, <1>5 DEF IInv, RegistryInv, TypeOK, TerminalInner, TerminalRecorded
  <2>3. /\ attempts'[s].phase = "Terminal"
        /\ attempts'[s].terminal = [class |-> class, sequence |-> s]
    BY <1>1, <2>2 DEF Operation
  <2>4. Standing[s] = "owned" /\ Standing'[s] = "settled" /\ Outcome'[s] = class
    <3>1. Standing[s] = "owned"
      BY <1>1, <2>2 DEF Standing
    <3>2. Standing'[s] = "settled"
      BY <1>1, <1>2, <2>3 DEF Standing
    <3>3. Outcome'[s] = attempts'[s].terminal.class
      BY <1>1, <1>2, <2>1, <2>3 DEF Outcome
    <3>4. QED
      BY <2>3, <3>1, <3>2, <3>3
  <2>5. /\ Standing' = [Standing EXCEPT ![s] = "settled"]
        /\ Outcome' = [Outcome EXCEPT ![s] = class]
    BY <1>3, <2>4, MappedUpdate
  <2>6. Contract!Settle(s)
    BY <1>1, <2>4, <2>5 DEF Contract!Settle
  <2>7. QED
    BY <2>6 DEF Contract!Next
<1>6. ASSUME Release(op, s)
      PROVE  Contract!Next
  <2>1. /\ attempts[s].phase = "Terminal"
        /\ attempts'[s] = [attempts[s] EXCEPT !.phase = "Released"]
    BY <1>1, <1>6 DEF IInv, RegistryInv, TypeOK, Release
  <2>2. attempts'[s].phase = "Released" /\ attempts'[s].terminal = attempts[s].terminal
    BY <1>1, <2>1 DEF Operation
  <2>3. Standing[s] = "settled" /\ Standing'[s] = "joined" /\ Outcome'[s] = Outcome[s]
    BY <1>1, <1>2, <2>1, <2>2 DEF Standing, Outcome
  <2>4. /\ Standing' = [Standing EXCEPT ![s] = "joined"]
        /\ Outcome' = Outcome
    BY <1>3, <2>3 DEF Standing, Outcome
  <2>5. Contract!Join(s)
    BY <1>1, <2>3, <2>4 DEF Contract!Join
  <2>6. QED
    BY <2>5 DEF Contract!Next
<1>7. QED
  BY <1>4, <1>5, <1>6 DEF ExecutorStep, Terminal, RecordExecutorPanic, TerminalClasses

\* The contract does not see consumers.
LEMMA ContractConsumer ==
  ASSUME IInv, NEW s \in Attempts, RequestCancel(s) \/ ConsumerDrop(s) \/ TicketDrop(s)
  PROVE  UNCHANGED Contract!vars
<1>1. /\ s \in Issued
      /\ UNCHANGED <<lifecycle, nextSequence>>
      /\ attempts' = CancellationRequested(s)
  BY DEF RequestCancel, ConsumerDrop, TicketDrop, ConsumerStep
<1>2. \A t \in Issued :
        /\ attempts[t] \in Operation
        /\ attempts'[t] \in {attempts[t], [attempts[t] EXCEPT !.cancellationRequested = TRUE]}
  BY <1>1 DEF IInv, RegistryInv, TypeOK, CancellationRequested
<1>3. \A t \in Issued : attempts'[t].phase = attempts[t].phase
                        /\ attempts'[t].terminal = attempts[t].terminal
  BY <1>2, FlagOnly
<1>4. QED
  BY <1>1, <1>3, MappedStutter DEF Issued, Contract!vars

\* The quiesce that finds the owner running implements Quiesce.
LEMMA ContractQuiesce ==
  ASSUME IInv, Quiesce \/ \E c \in ShutdownCallers : ShutdownQuiesce(c)
  PROVE  Contract!Next \/ UNCHANGED Contract!vars
<1>1. UNCHANGED nextSequence /\ QuiesceEffect
  BY DEF Quiesce, ShutdownQuiesce
<1>2. \A t \in Issued :
        /\ attempts[t] \in Operation
        /\ attempts'[t] \in {attempts[t], [attempts[t] EXCEPT !.cancellationRequested = TRUE]}
  BY <1>1 DEF IInv, RegistryInv, TypeOK, QuiesceEffect, ActiveCancelled
<1>3. \A t \in Issued : attempts'[t].phase = attempts[t].phase
                        /\ attempts'[t].terminal = attempts[t].terminal
  BY <1>2, FlagOnly
<1>4. Standing' = Standing /\ Outcome' = Outcome
  BY <1>1, <1>3, MappedStutter DEF Issued
<1>5. Contract!Quiesce \/ lifecycle' = lifecycle
  BY <1>1, <1>4 DEF QuiesceEffect, Contract!Quiesce
<1>6. QED
  BY <1>4, <1>5 DEF Contract!Next, Contract!vars

\* Closing finds no slot taken, hence every attempt released.
LEMMA ContractShutdownFinish ==
  ASSUME IInv, NEW c \in ShutdownCallers, ShutdownFinish(c)
  PROVE  Contract!Next \/ UNCHANGED Contract!vars
<1>1. /\ UNCHANGED <<nextSequence, attempts>>
      /\ lifecycle # "Running"
      /\ lifecycle' = IF DOMAIN active = {} /\ retainedTasks = 0 THEN "Closed" ELSE lifecycle
  BY DEF ShutdownFinish, IInv, ShutdownInv
<1>2. Standing' = Standing /\ Outcome' = Outcome
  BY <1>1, MappedStutter DEF Issued
<1>3. CASE lifecycle' = lifecycle
  BY <1>2, <1>3 DEF Contract!vars
<1>4. CASE lifecycle' # lifecycle
  <2>1. lifecycle = "Quiescing" /\ lifecycle' = "Closed" /\ DOMAIN active = {}
    BY <1>1, <1>4 DEF IInv, RegistryInv, TypeOK
  <2>2. \A s \in Issued : attempts[s].phase = "Released"
    <3>1. \A s \in Issued : attempts[s].phase \in Phases
      BY DEF IInv, RegistryInv, TypeOK, Operation
    <3>2. QED
      BY <2>1, <3>1 DEF IInv, RegistryInv, ActiveAgreement, Phases, Live
  <2>3. \A s \in Attempts : Standing[s] \in {"unknown", "joined"}
    BY <2>2 DEF Standing
  <2>4. Contract!Close
    BY <1>2, <2>1, <2>3 DEF Contract!Close
  <2>5. QED
    BY <2>4 DEF Contract!Next
<1>5. QED
  BY <1>3, <1>4

\* The supervisor keeps the promise of LifecycleContract: every step is a step
\* of the contract or invisible to it.
THEOREM Refinement == Spec => RefinesContract
<1>1. Init => Contract!Init
  BY DEF Init, Issued, Contract!Init, Standing, Outcome
<1>2. ASSUME IInv, [Next]_vars
      PROVE  [Contract!Next]_Contract!vars
  <2>1. CASE \E op \in OperationIds : Reserve(op)
    BY <1>2, <2>1, ContractReserve
  <2>2. CASE \E op \in OperationIds, s \in Attempts : ExecutorStep(op, s)
    BY <1>2, <2>2, ContractExecutor
  <2>3. CASE \E s \in Attempts : RequestCancel(s) \/ ConsumerDrop(s) \/ TicketDrop(s)
    BY <1>2, <2>3, ContractConsumer
  <2>4. CASE Quiesce \/ \E c \in ShutdownCallers : ShutdownQuiesce(c)
    BY <1>2, <2>4, ContractQuiesce
  <2>5. CASE \E c \in ShutdownCallers : ShutdownFinish(c)
    BY <1>2, <2>5, ContractShutdownFinish
  <2>6. CASE UNCHANGED vars
    <3>1. UNCHANGED <<lifecycle, nextSequence, attempts>>
      BY <2>6 DEF vars, registry
    <3>2. QED
      BY <3>1, MappedStutter DEF Issued, Contract!vars
  <2>7. QED
    BY <1>2, <2>1, <2>2, <2>3, <2>4, <2>5, <2>6 DEF Next
<1>3. QED
  BY <1>1, <1>2, IInvariant, PTL DEF Spec, RefinesContract, Contract!Spec

-----------------------------------------------------------------------------
(* The progress window. *)

\* One publication moves the window by one.
LEMMA PushedIsNewest ==
  ASSUME NEW window \in Seq(1 .. PublishLimit), NEW count \in Nat, NewestOf(window, count)
  PROVE  NewestOf(Pushed(window, count + 1), count + 1)
<1>1. CASE count < ProgressCapacity
  <2>1. Len(window) = count
    BY <1>1 DEF NewestOf
  <2>2. Pushed(window, count + 1) = Append(window, count + 1)
    BY <1>1, <2>1 DEF Pushed
  <2>3. /\ Len(Append(window, count + 1)) = count + 1
        /\ \A i \in 1 .. count : Append(window, count + 1)[i] = window[i]
        /\ Append(window, count + 1)[count + 1] = count + 1
    BY <2>1
  <2>4. \A i \in 1 .. count : window[i] = i
    BY <2>1 DEF NewestOf
  <2>5. \A i \in 1 .. count + 1 : Append(window, count + 1)[i] = i
    BY <2>3, <2>4
  <2>6. QED
    BY <1>1, <2>2, <2>3, <2>5 DEF NewestOf
<1>2. CASE count >= ProgressCapacity
  <2>1. Len(window) = ProgressCapacity
    BY <1>2 DEF NewestOf
  <2> DEFINE rest == Tail(window)
  <2>2. /\ window # << >>
        /\ rest \in Seq(1 .. PublishLimit)
        /\ Len(rest) = ProgressCapacity - 1
        /\ \A i \in 1 .. Len(rest) : rest[i] = window[i + 1]
    BY <2>1
  <2>3. Pushed(window, count + 1) = Append(rest, count + 1)
    BY <2>1 DEF Pushed
  <2> HIDE DEF rest
  <2>4. /\ Len(Append(rest, count + 1)) = ProgressCapacity
        /\ \A i \in 1 .. ProgressCapacity - 1 : Append(rest, count + 1)[i] = rest[i]
        /\ Append(rest, count + 1)[ProgressCapacity] = count + 1
    BY <2>2
  <2>5. \A i \in 1 .. ProgressCapacity - 1 : rest[i] = count - ProgressCapacity + i + 1
    <3>1. \A j \in 1 .. ProgressCapacity : window[j] = count - ProgressCapacity + j
      BY <2>1 DEF NewestOf
    <3>2. TAKE i \in 1 .. ProgressCapacity - 1
    <3>3. rest[i] = window[i + 1] /\ i + 1 \in 1 .. ProgressCapacity
      BY <2>2
    <3>4. window[i + 1] = count - ProgressCapacity + (i + 1)
      BY <3>1, <3>3
    <3>5. QED
      BY <3>3, <3>4
  <2>6. \A i \in 1 .. ProgressCapacity :
          Append(rest, count + 1)[i] = (count + 1) - ProgressCapacity + i
    BY <2>4, <2>5
  <2>7. ~(count + 1 < ProgressCapacity)
    BY <1>2
  <2> DEFINE moved == Append(rest, count + 1)
  <2>8. Len(moved) = ProgressCapacity
    BY <2>4
  <2> HIDE DEF moved
  <2>9. NewestOf(moved, count + 1)
    BY <2>6, <2>7, <2>8 DEF NewestOf, moved
  <2>10. QED
    BY <2>3, <2>9 DEF moved
<1>3. QED
  BY <1>1, <1>2

\* Requesting cancellation leaves the progress window alone.
LEMMA FlagKeepsProgress ==
  ASSUME NEW r \in Operation, NEW q \in {r, [r EXCEPT !.cancellationRequested = TRUE]}
  PROVE  q.progress = r.progress
BY DEF Operation

\* Every step keeps every window the newest publications.
LEMMA WindowStep ==
  ASSUME RegistryInv, ProgressIsNewestWindow, [Next]_vars
  PROVE  ProgressIsNewestWindow'
<1> USE DEF RegistryInv, TypeOK
<1>1. ASSUME NEW op \in OperationIds, Reserve(op)
      PROVE  ProgressIsNewestWindow'
  <2>1. /\ nextSequence \notin Issued
        /\ Issued' = Issued \cup {nextSequence}
    BY <1>1 DEF Reserve, Admission, Issued
  <2>2. /\ \A s \in Issued : attempts'[s] = attempts[s] /\ published'[s] = published[s]
        /\ attempts'[nextSequence].progress = << >>
        /\ published'[nextSequence] = 0
    BY <1>1, <2>1 DEF Reserve, Admission, Extend
  <2>3. NewestOf(<< >>, 0)
    BY DEF NewestOf
  <2>4. QED
    BY <2>1, <2>2, <2>3 DEF ProgressIsNewestWindow
<1>2. ASSUME NEW op \in OperationIds, NEW s \in Attempts, PublishProgress(op, s)
      PROVE  ProgressIsNewestWindow'
  <2>1. /\ s \in Issued
        /\ Issued' = Issued
        /\ attempts[s] \in Operation
        /\ published[s] \in Nat
    BY <1>2 DEF PublishProgress, OperationMut, Issued
  <2>2. /\ \A t \in Issued \ {s} : attempts'[t] = attempts[t] /\ published'[t] = published[t]
        /\ attempts'[s] = [attempts[s] EXCEPT !.progress = Pushed(@, published[s] + 1)]
        /\ published'[s] = published[s] + 1
    BY <1>2, <2>1 DEF PublishProgress
  <2>3. /\ attempts[s].progress \in Seq(1 .. PublishLimit)
        /\ attempts'[s].progress = Pushed(attempts[s].progress, published[s] + 1)
    BY <2>1, <2>2 DEF Operation
  <2>4. NewestOf(attempts'[s].progress, published'[s])
    BY <2>1, <2>2, <2>3, PushedIsNewest DEF ProgressIsNewestWindow
  <2>5. QED
    BY <2>1, <2>2, <2>4 DEF ProgressIsNewestWindow
<1>3. ASSUME Issued' = Issued, published' = published,
             \A s \in Issued : attempts'[s].progress = attempts[s].progress
      PROVE  ProgressIsNewestWindow'
  BY <1>3 DEF ProgressIsNewestWindow
<1>4. ASSUME NEW op \in OperationIds, NEW s \in Attempts,
             Queue(op, s) \/ Start(op, s) \/ Terminal(op, s) \/ RecordExecutorPanic(op, s)
               \/ Release(op, s)
      PROVE  ProgressIsNewestWindow'
  <2>1. Issued' = Issued /\ published' = published /\ s \in Issued /\ attempts[s] \in Operation
    BY <1>4 DEF Queue, Start, Advance, Terminal, RecordExecutorPanic, TerminalInner,
       TerminalRecorded, Release, OperationMut, Issued
  <2>2. \A t \in Issued \ {s} : attempts'[t] = attempts[t]
    BY <1>4 DEF Queue, Start, Advance, Terminal, RecordExecutorPanic, TerminalInner,
       TerminalRecorded, Release
  <2>3. attempts'[s].progress = attempts[s].progress
    <3>1. CASE Queue(op, s) \/ Start(op, s)
      BY <2>1, <3>1 DEF Queue, Start, Advance, Operation
    <3>2. CASE Terminal(op, s) \/ RecordExecutorPanic(op, s)
      <4>1. PICK class \in TerminalClasses : TerminalInner(op, s, class)
        BY <3>2 DEF Terminal, RecordExecutorPanic, TerminalClasses
      <4>2. attempts'[s] =
              [attempts[s] EXCEPT !.terminal = [class |-> class, sequence |-> s],
                                  !.phase = "Terminal"]
        BY <2>1, <4>1 DEF TerminalInner, TerminalRecorded
      <4>3. QED
        BY <2>1, <4>2 DEF Operation
    <3>3. CASE Release(op, s)
      BY <2>1, <3>3 DEF Release, Operation
    <3>4. QED
      BY <1>4, <3>1, <3>2, <3>3
  <2>4. QED
    BY <1>3, <2>1, <2>2, <2>3
<1>5. ASSUME NEW s \in Attempts, RequestCancel(s) \/ ConsumerDrop(s) \/ TicketDrop(s)
      PROVE  ProgressIsNewestWindow'
  <2>1. Issued' = Issued /\ published' = published /\ attempts' = CancellationRequested(s)
        /\ s \in Issued
    BY <1>5 DEF RequestCancel, ConsumerDrop, TicketDrop, ConsumerStep, Issued
  <2>2. \A t \in Issued :
          /\ attempts[t] \in Operation
          /\ attempts'[t] \in {attempts[t], [attempts[t] EXCEPT !.cancellationRequested = TRUE]}
    BY <2>1 DEF CancellationRequested
  <2>3. QED
    BY <1>3, <2>1, <2>2, FlagKeepsProgress
<1>6. CASE Quiesce \/ \E c \in ShutdownCallers : ShutdownQuiesce(c)
  <2>1. Issued' = Issued /\ published' = published /\ QuiesceEffect
    BY <1>6 DEF Quiesce, ShutdownQuiesce, Issued
  <2>2. \A t \in Issued :
          /\ attempts[t] \in Operation
          /\ attempts'[t] \in {attempts[t], [attempts[t] EXCEPT !.cancellationRequested = TRUE]}
    BY <2>1 DEF QuiesceEffect, ActiveCancelled
  <2>3. QED
    BY <1>3, <2>1, <2>2, FlagKeepsProgress
<1>7. CASE (\E c \in ShutdownCallers : ShutdownFinish(c)) \/ UNCHANGED vars
  BY <1>3, <1>7 DEF ShutdownFinish, vars, registry, Issued
<1>8. QED
  BY <1>1, <1>2, <1>4, <1>5, <1>6, <1>7 DEF Next, ExecutorStep

\* The window of unread progress is always the newest publications, in order.
THEOREM ProgressIsNewestWindowHolds == Spec => []ProgressIsNewestWindow
<1>1. Init => ProgressIsNewestWindow
  BY DEF Init, Issued, ProgressIsNewestWindow
<1>2. QED
  BY <1>1, WindowStep, RegistryInvariant, PTL DEF Spec

-----------------------------------------------------------------------------
(* What QuiescingCloses needs of the code, fairness aside. *)

\* Calls of its executor that an attempt still needs: queue, start, a terminal and
\* release.
StepsLeft(s) ==
  CASE attempts[s].phase = "Reserved" -> 4
    [] attempts[s].phase = "Queued" -> 3
    [] attempts[s].phase = "Running" -> 2
    [] attempts[s].phase = "Terminal" -> 1
    [] attempts[s].phase = "Released" -> 0

\* A quiescing owner that a shutdown cannot close yet is held open by an attempt that
\* has its slot, so that the next call of its executor is accepted, a release in full.
HeldOpenByAttempts ==
  lifecycle = "Quiescing" =>
    \/ DOMAIN active = {} /\ retainedTasks = 0
    \/ \E s \in Issued :
         LET op == attempts[s].operation IN
         OperationMut(op, s) /\ op \in DOMAIN active /\ active[op] = s

\* Attempts only advance, a call at a time, and none joins them once quiescing.
OnlyAdvances ==
  /\ \A s \in Issued : StepsLeft(s)' \in {StepsLeft(s), StepsLeft(s) - 1}
  /\ lifecycle # "Running" => nextSequence' = nextSequence /\ lifecycle' # "Running"

\* A step that leaves the phases alone leaves the steps.
LEMMA SameSteps ==
  ASSUME NEW s, attempts'[s].phase = attempts[s].phase, attempts[s].phase \in Phases
  PROVE  StepsLeft(s)' \in {StepsLeft(s), StepsLeft(s) - 1}
BY DEF StepsLeft, Phases

LEMMA OnlyAdvancesStep ==
  ASSUME IInv, [Next]_vars
  PROVE  OnlyAdvances
<1>1. \A s \in Issued : attempts[s].phase \in Phases
  BY DEF IInv, RegistryInv, TypeOK, Operation
<1>2. DOMAIN attempts = Issued
  BY DEF IInv, RegistryInv, TypeOK
<1>3. ASSUME lifecycle' = lifecycle, nextSequence' = nextSequence,
             \A s \in Issued : attempts'[s].phase = attempts[s].phase
      PROVE  OnlyAdvances
  BY <1>1, <1>3, SameSteps DEF OnlyAdvances
<1>4. ASSUME NEW op \in OperationIds, Reserve(op)
      PROVE  OnlyAdvances
  <2>1. lifecycle = "Running" /\ \A s \in Issued : attempts'[s] = attempts[s]
    BY <1>2, <1>4 DEF Reserve, Admission, Extend, Issued, IInv, RegistryInv, TypeOK
  <2>2. QED
    BY <1>1, <2>1, SameSteps DEF OnlyAdvances
<1>5. ASSUME NEW op \in OperationIds, NEW s \in Attempts, ExecutorStep(op, s)
      PROVE  OnlyAdvances
  <2>1. /\ s \in Issued /\ UNCHANGED <<lifecycle, nextSequence>>
        /\ \A t \in Issued \ {s} : attempts'[t] = attempts[t]
    BY <1>2, <1>5 DEF ExecutorStep, Queue, Start, Advance, PublishProgress, Terminal,
       RecordExecutorPanic, TerminalInner, TerminalRecorded, Release, OperationMut
  <2>2. StepsLeft(s)' \in {StepsLeft(s), StepsLeft(s) - 1}
    <3>1. attempts[s] \in Operation
      BY <2>1 DEF IInv, RegistryInv, TypeOK
    <3>2. CASE Queue(op, s) \/ Start(op, s)
      <4>1. \/ attempts[s].phase = "Reserved" /\ attempts'[s].phase = "Queued"
            \/ attempts[s].phase = "Queued" /\ attempts'[s].phase = "Running"
        BY <1>2, <2>1, <3>1, <3>2 DEF Queue, Start, Advance, Operation
      <4>2. QED
        BY <4>1 DEF StepsLeft
    <3>3. CASE PublishProgress(op, s)
      <4>1. attempts'[s].phase = attempts[s].phase
        BY <1>2, <2>1, <3>1, <3>3 DEF PublishProgress, Operation
      <4>2. QED
        BY <1>1, <2>1, <4>1, SameSteps
    <3>4. CASE Terminal(op, s) \/ RecordExecutorPanic(op, s)
      <4>1. attempts[s].phase = "Running" /\ attempts'[s].phase = "Terminal"
        BY <1>2, <2>1, <3>1, <3>4 DEF Terminal, RecordExecutorPanic, TerminalInner, TerminalRecorded,
           Operation
      <4>2. QED
        BY <4>1 DEF StepsLeft
    <3>5. CASE Release(op, s)
      <4>1. attempts[s].phase = "Terminal" /\ attempts'[s].phase = "Released"
        BY <1>2, <2>1, <3>1, <3>5 DEF Release, Operation
      <4>2. QED
        BY <4>1 DEF StepsLeft
    <3>6. QED
      BY <1>5, <3>2, <3>3, <3>4, <3>5 DEF ExecutorStep
  <2>3. QED
    BY <1>1, <2>1, <2>2, SameSteps DEF OnlyAdvances
<1>6. ASSUME NEW s \in Attempts, RequestCancel(s) \/ ConsumerDrop(s) \/ TicketDrop(s)
      PROVE  OnlyAdvances
  <2>1. UNCHANGED <<lifecycle, nextSequence>> /\ attempts' = CancellationRequested(s)
    BY <1>6 DEF RequestCancel, ConsumerDrop, TicketDrop, ConsumerStep
  <2>2. \A t \in Issued : attempts'[t].phase = attempts[t].phase
    BY <1>2, <2>1, CancelledOperation DEF CancellationRequested, IInv, RegistryInv, TypeOK
  <2>3. QED
    BY <1>3, <2>1, <2>2
<1>7. CASE Quiesce \/ \E c \in ShutdownCallers : ShutdownQuiesce(c)
  <2>1. nextSequence' = nextSequence /\ QuiesceEffect
    BY <1>7 DEF Quiesce, ShutdownQuiesce
  <2>2. ASSUME NEW t \in Issued PROVE attempts'[t].phase = attempts[t].phase
    <3>1. attempts[t] \in Operation
      BY DEF IInv, RegistryInv, TypeOK
    <3>2. attempts'[t] = [attempts[t] EXCEPT !.cancellationRequested = TRUE] \/ attempts'[t] = attempts[t]
      BY <2>1 DEF QuiesceEffect, ActiveCancelled
    <3>3. QED
      BY <3>1, <3>2 DEF Operation
  <2>3. QED
    BY <1>1, <2>1, <2>2, SameSteps DEF OnlyAdvances, QuiesceEffect
<1>8. ASSUME NEW c \in ShutdownCallers, ShutdownFinish(c)
      PROVE  OnlyAdvances
  <2>1. UNCHANGED <<nextSequence, attempts>> /\ lifecycle' \in {lifecycle, "Closed"}
    BY <1>8 DEF ShutdownFinish
  <2>2. QED
    BY <1>1, <2>1, SameSteps DEF OnlyAdvances
<1>9. CASE UNCHANGED vars
  BY <1>3, <1>9 DEF vars, registry
<1>10. QED
  BY <1>4, <1>5, <1>6, <1>7, <1>8, <1>9 DEF Next

\* Only attempts hold a quiescing owner open, each for the few calls it has left, and no
\* new one comes: no counter that drifted, no slot of an attempt that is gone, and no
\* lease that is refused stands between the last release and the shutdown that closes.
THEOREM OnlyAttemptsHoldItOpen == Spec => []HeldOpenByAttempts /\ [][OnlyAdvances]_vars
<1>1. ASSUME IInv, lifecycle = "Quiescing", ~(DOMAIN active = {} /\ retainedTasks = 0)
      PROVE  \E s \in Issued :
               LET op == attempts[s].operation IN
               OperationMut(op, s) /\ op \in DOMAIN active /\ active[op] = s
  <2>1. retainedTasks = Cardinality(DOMAIN active)
    BY <1>1 DEF IInv, RegistryInv, CountersAgree
  <2>2. PICK op \in DOMAIN active : TRUE
    BY <1>1, <2>1, FS_EmptySet
  <2>3. active[op] \in Issued /\ attempts[active[op]].operation = op /\ attempts[active[op]].phase \in Live
    BY <1>1, <2>2 DEF IInv, RegistryInv, ActiveAgreement, TypeOK
  <2>4. QED
    BY <2>2, <2>3 DEF OperationMut, Live
<1>2. IInv => HeldOpenByAttempts
  BY <1>1 DEF HeldOpenByAttempts
<1>3. QED
  BY <1>2, OnlyAdvancesStep, IInvariant, PTL DEF Spec

-----------------------------------------------------------------------------
(* The suites of LifecycleSuite, whatever their scripts. *)

\* A call names its attempt by number, so it is a step of the supervisor only because
\* what operation_mut grants, and what a ticket stands for, has been issued.
LEMMA CallIsStep ==
  ASSUME ShutdownCallers # {}, TypeOK, NEW step, Call(step)
  PROVE  Next
<1> DEFINE s == Leased(step.of)
           op == attempts[s].operation
<1>1. \A t \in Issued : t \in Attempts /\ attempts[t].operation \in OperationIds
  BY DEF TypeOK, Operation, Issued
<1>2. Caller \in ShutdownCallers
  BY DEF Caller
<1>3. ASSUME \/ Queue(op, s) \/ Start(op, s) \/ PublishProgress(op, s) \/ Release(op, s)
             \/ RecordExecutorPanic(op, s) \/ Terminal(op, s)
      PROVE  Next
  <2>1. s \in Issued
    BY <1>3, Zenon DEF Queue, Start, Advance, PublishProgress, Release, RecordExecutorPanic,
       Terminal, TerminalInner, OperationMut
  <2>2. ExecutorStep(op, s)
    BY <1>3, Zenon DEF ExecutorStep
  <2> QED
    BY <1>1, <2>1, <2>2, Zenon DEF Next
<1>4. ASSUME RequestCancel(s) \/ ConsumerDrop(s) \/ TicketDrop(s)
      PROVE  Next
  <2>1. s \in Issued
    BY <1>4, Zenon DEF RequestCancel, ConsumerDrop, TicketDrop, ConsumerStep
  <2> QED
    BY <1>1, <1>4, <2>1, Zenon DEF Next
<1>5. ASSUME step.verb \in TerminalClasses, TerminalInner(op, s, step.verb)
      PROVE  Terminal(op, s)
  BY <1>5, Zenon DEF Terminal
<1>6. ASSUME \/ Quiesce \/ ShutdownQuiesce(Caller) \/ ShutdownFinish(Caller)
             \/ step.of \in OperationIds /\ Reserve(step.of)
      PROVE  Next
  BY <1>2, <1>6, Zenon DEF Next
<1> HIDE DEF op, s
<1> QED
  BY <1>3, <1>4, <1>5, <1>6, Zenon DEF Call, op, s

\* Whatever its script, and however its racers are scheduled, a suite moves the
\* supervisor by the supervisor's operations alone; where an expect of it is not met,
\* it is the suite that fails.  What is proved of the supervisor thus holds in every
\* suite of lifecycle_suite.rs and in every runner of compositional_lifecycle.rs that
\* the reference adapter plays, at any scale and with any script still to be written.
THEOREM SuitesAreClients ==
  ASSUME ShutdownCallers # {}
  PROVE  SuiteSpec => Spec
<1>1. ASSUME TypeOK, NEW t \in Threads, Calls(t)
      PROVE  [Next]_vars
  BY <1>1, CallIsStep, Zenon DEF Calls
<1>2. ASSUME TypeOK, SuiteNext
      PROVE  [Next]_vars
  BY <1>1, <1>2, Zenon DEF SuiteNext, Asserts, Keeps, Joins, Over
<1>3. ASSUME IInv, [SuiteNext]_<<vars, suiteVars, saved>>
      PROVE  [Next]_vars
  <2>1. TypeOK
    BY <1>3 DEF IInv, RegistryInv
  <2> QED
    BY <1>2, <1>3, <2>1, Zenon
<1>4. IInv /\ [SuiteNext]_<<vars, suiteVars, saved>> => IInv'
  BY <1>3, IInvStep
<1> QED
  BY <1>3, <1>4, IInvInit, PTL DEF SuiteSpec, SuiteInit, Spec

=============================================================================
