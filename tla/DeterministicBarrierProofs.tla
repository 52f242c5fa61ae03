---------------------- MODULE DeterministicBarrierProofs ----------------------
(***************************************************************************)
(* The safety of DeterministicBarrier for any number of participants and   *)
(* coordinators.  The counter says how many participants have arrived, and *)
(* until it exceeds the declared number, all of those are inside; from     *)
(* then on the number inside stays the declared one.                       *)
(***************************************************************************)
EXTENDS DeterministicBarrier, FiniteSetTheorems, TLAPS

Arrivals == {p \in Participants : pc[p] # "idle"}

IInv ==
  /\ TypeOK
  /\ arrived = Cardinality(Arrivals)
  /\ Cardinality(Inside) = IF arrived <= Expected THEN arrived ELSE Expected
  /\ \A p \in Participants : pc[p] # "ready" /\ (pc[p] = "passed" => released)
  /\ released => arrived >= Expected

\* One participant leaving "idle" raises the number of arrivals by one.
LEMMA OneMore ==
  ASSUME NEW S, IsFiniteSet(S), NEW p, p \notin S
  PROVE  Cardinality(S \cup {p}) = Cardinality(S) + 1
BY FS_AddElement

\* Parts of the finite set of participants can be counted.
LEMMA Countable ==
  /\ IsFiniteSet(Arrivals) /\ Cardinality(Arrivals) \in Nat
  /\ IsFiniteSet(Inside) /\ Cardinality(Inside) \in Nat
  /\ Cardinality(Arrivals) <= Cardinality(Participants)
  /\ Cardinality(Participants) \in Nat
<1>1. Arrivals \subseteq Participants /\ Inside \subseteq Participants
  BY DEF Arrivals, Inside
<1>2. QED
  BY <1>1, ThreadsAssumption, FS_Subset, FS_CardinalityType

\* A step of anyone that moves no participant between idle, inside and panicked.
LEMMA NobodyMoves ==
  ASSUME IInv, UNCHANGED arrived, released' \in BOOLEAN,
         pc' \in [Threads -> {"idle", "waiting", "woken", "ready", "passed", "panicked"}],
         released => released', released' => arrived >= Expected,
         \A p \in Participants :
           /\ pc'[p] = "idle" <=> pc[p] = "idle"
           /\ pc'[p] \in {"waiting", "woken", "passed"} <=> p \in Inside
           /\ pc'[p] # "ready" /\ (pc'[p] = "passed" => released')
  PROVE  IInv'
<1>1. Arrivals' = Arrivals
  BY DEF Arrivals
<1>2. Inside' = Inside
  BY DEF Inside
<1>3. QED
  BY <1>1, <1>2 DEF IInv, TypeOK

\* The inductive step for a participant that is counted.
LEMMA ArriveInductive ==
  ASSUME IInv, NEW p \in Participants, Arrive(p) \/ ArriveInExcess(p)
  PROVE  IInv'
<1> USE ExpectedAssumption
<1>1. p \in Threads /\ pc[p] = "idle" /\ arrived' = arrived + 1 /\ released' = released
  BY DEF Arrive, ArriveInExcess, Threads
<1>2. pc' \in [Threads -> {"idle", "waiting", "woken", "ready", "passed", "panicked"}]
  BY <1>1 DEF IInv, TypeOK, Arrive, ArriveInExcess, Notified
<1>3. Arrivals' = Arrivals \cup {p} /\ p \notin Arrivals
  BY <1>1 DEF IInv, TypeOK, Arrivals, Arrive, ArriveInExcess, Notified, Threads
<1>4. Cardinality(Arrivals') = Cardinality(Arrivals) + 1
  BY <1>3, OneMore, Countable
<1>5. arrived' = Cardinality(Arrivals') /\ arrived' \in 0 .. Cardinality(Participants)
  <2>1. Arrivals' \subseteq Participants
    BY DEF Arrivals
  <2>2. Cardinality(Arrivals') <= Cardinality(Participants)
    BY <2>1, ThreadsAssumption, FS_Subset
  <2>3. QED
    BY <1>1, <1>4, <2>2, Countable DEF IInv
<1>6. Cardinality(Inside') = IF arrived' <= Expected THEN arrived' ELSE Expected
  <2>1. CASE Arrive(p)
    <3>1. Inside' = Inside \cup {p} /\ p \notin Inside
      BY <1>1, <2>1 DEF IInv, TypeOK, Inside, Arrive, Notified, Threads
    <3>2. Cardinality(Inside') = Cardinality(Inside) + 1
      BY <3>1, OneMore, Countable
    <3>3. QED
      BY <1>1, <2>1, <3>2 DEF IInv, TypeOK, Arrive
  <2>2. CASE ArriveInExcess(p)
    <3>1. Inside' = Inside
      BY <1>1, <2>2 DEF IInv, TypeOK, Inside, ArriveInExcess, Threads
    <3>2. QED
      BY <1>1, <2>2, <3>1 DEF IInv, TypeOK, ArriveInExcess
  <2>3. QED
    BY <2>1, <2>2
<1>7. \A q \in Participants : pc'[q] # "ready" /\ (pc'[q] = "passed" => released')
  BY <1>1 DEF IInv, TypeOK, Arrive, ArriveInExcess, Notified, Threads
<1>8. QED
  BY <1>1, <1>2, <1>5, <1>6, <1>7 DEF IInv, TypeOK

\* The inductive step for a participant or a coordinator that looks at the state.
LEMMA LookInductive ==
  ASSUME IInv, NEW t \in Threads,
         \/ t \in Participants /\ LookAgain(t)
         \/ t \in Coordinators /\ AwaitArrivals(t)
         \/ SpuriousWakeup(t)
  PROVE  IInv'
<1>1. UNCHANGED <<arrived, released>>
  BY DEF LookAgain, AwaitArrivals, SpuriousWakeup
<1>2. pc' \in [Threads -> {"idle", "waiting", "woken", "ready", "passed", "panicked"}]
  BY DEF IInv, TypeOK, LookAgain, AwaitArrivals, SpuriousWakeup
<1>3. ASSUME NEW p \in Participants
      PROVE  /\ pc'[p] = "idle" <=> pc[p] = "idle"
             /\ pc'[p] \in {"waiting", "woken", "passed"} <=> p \in Inside
             /\ pc'[p] # "ready" /\ (pc'[p] = "passed" => released')
  <2>1. p \in Threads
    BY DEF Threads
  <2>2. CASE t \in Participants /\ LookAgain(t)
    BY <2>1, <2>2 DEF IInv, TypeOK, Inside, LookAgain
  <2>3. CASE t \in Coordinators /\ AwaitArrivals(t)
    BY <2>1, <2>3, ThreadsAssumption DEF IInv, TypeOK, Inside, AwaitArrivals
  <2>4. CASE SpuriousWakeup(t)
    BY <2>1, <2>4 DEF IInv, TypeOK, Inside, SpuriousWakeup
  <2>5. QED
    BY <2>2, <2>3, <2>4
<1>4. QED
  BY <1>1, <1>2, <1>3, NobodyMoves DEF IInv, TypeOK

\* The inductive step for a coordinator that releases, or fails to.
LEMMA ReleaseInductive ==
  ASSUME IInv, NEW c \in Coordinators, Release(c) \/ ReleaseFails(c)
  PROVE  IInv'
<1> USE ExpectedAssumption
<1>1. /\ arrived' = arrived /\ released' \in BOOLEAN
      /\ released => released'
      /\ released' => arrived >= Expected
  <2>1. arrived \in Nat /\ arrived' = arrived
    BY Countable DEF IInv, TypeOK, Release, ReleaseFails
  <2>2. CASE Release(c)
    BY <2>1, <2>2 DEF Release
  <2>3. CASE ReleaseFails(c)
    BY <2>1, <2>3 DEF IInv, TypeOK, ReleaseFails
  <2>4. QED
    BY <2>2, <2>3
<1>2. pc' \in [Threads -> {"idle", "waiting", "woken", "ready", "passed", "panicked"}]
  BY DEF IInv, TypeOK, Release, ReleaseFails, Notified
<1>3. ASSUME NEW p \in Participants
      PROVE  /\ pc'[p] = "idle" <=> pc[p] = "idle"
             /\ pc'[p] \in {"waiting", "woken", "passed"} <=> p \in Inside
             /\ pc'[p] # "ready" /\ (pc'[p] = "passed" => released')
  <2>1. p \in Threads /\ p # c
    BY ThreadsAssumption DEF Threads
  <2>2. QED
    BY <1>1, <2>1 DEF IInv, TypeOK, Inside, Release, ReleaseFails, Notified
<1>4. QED
  BY <1>1, <1>2, <1>3, NobodyMoves

\* The strengthened invariant is inductive.
THEOREM BarrierInvariant == Spec => []IInv
<1>1. Init => IInv
  <2>1. SUFFICES ASSUME Init PROVE IInv
    OBVIOUS
  <2>2. Arrivals = {} /\ Inside = {}
    BY <2>1 DEF Init, Arrivals, Inside, Threads
  <2>3. Cardinality(Arrivals) = 0 /\ Cardinality(Inside) = 0
    BY <2>2, FS_EmptySet
  <2>4. TypeOK
    <3>1. arrived \in 0 .. Cardinality(Participants)
      BY <2>1, Countable DEF Init
    <3>2. pc \in [Threads -> {"idle", "waiting", "woken", "ready", "passed", "panicked"}]
      BY <2>1 DEF Init
    <3>3. QED
      BY <2>1, <3>1, <3>2 DEF Init, TypeOK
  <2>5. \A p \in Participants : pc[p] = "idle"
    BY <2>1 DEF Init, Threads
  <2>6. QED
    BY <2>1, <2>3, <2>4, <2>5, ExpectedAssumption DEF Init, IInv
<1>2. IInv /\ [Next]_vars => IInv'
  <2>1. SUFFICES ASSUME IInv, [Next]_vars PROVE IInv'
    OBVIOUS
  <2>2. CASE UNCHANGED vars
    BY <2>1, <2>2 DEF vars, IInv, TypeOK, Arrivals, Inside
  <2>3. ASSUME NEW p \in Participants, Arrive(p) \/ ArriveInExcess(p) \/ LookAgain(p)
        PROVE  IInv'
    BY <2>1, <2>3, ArriveInductive, LookInductive DEF Threads
  <2>4. ASSUME NEW c \in Coordinators, AwaitArrivals(c) \/ Release(c) \/ ReleaseFails(c)
        PROVE  IInv'
    BY <2>1, <2>4, ReleaseInductive, LookInductive DEF Threads
  <2>5. ASSUME NEW t \in Threads, SpuriousWakeup(t)
        PROVE  IInv'
    BY <2>1, <2>5, LookInductive
  <2>6. QED
    BY <2>1, <2>2, <2>3, <2>4, <2>5 DEF Next, Stopped
<1>3. QED
  BY <1>1, <1>2, PTL DEF Spec

\* The counter and the threads keep their types, and the counter never counts
\* more than the participants there are.
THEOREM BarrierTypeCorrect == Spec => []TypeOK
<1>1. IInv => TypeOK
  BY DEF IInv
<1>2. QED
  BY <1>1, BarrierInvariant, PTL

\* Nobody passes before the release, and the release finds exactly the declared
\* number inside, whatever the number of participants and coordinators.
THEOREM OpensOnExactArrivalHolds == Spec => []OpensOnExactArrival
<1>1. IInv => OpensOnExactArrival
  BY ExpectedAssumption DEF IInv, TypeOK, OpensOnExactArrival
<1>2. QED
  BY <1>1, BarrierInvariant, PTL

\* An overcrowded barrier stays closed.
THEOREM OvercrowdedNeverOpensHolds == Spec => OvercrowdedNeverOpens
<1>1. IInv /\ [Next]_vars => [arrived > Expected /\ ~released => ~released']_vars
  <2>1. SUFFICES ASSUME IInv, [Next]_vars, arrived > Expected, ~released
                 PROVE  ~released'
    BY DEF vars
  <2>2. ASSUME NEW c \in Coordinators, Release(c)
        PROVE  FALSE
    BY <2>1, <2>2, ExpectedAssumption DEF Release, IInv, TypeOK
  <2>3. QED
    BY <2>1, <2>2 DEF Next, vars, Arrive, ArriveInExcess, LookAgain, AwaitArrivals,
       ReleaseFails, SpuriousWakeup, Stopped
<1>2. QED
  BY <1>1, BarrierInvariant, PTL DEF Spec, OvercrowdedNeverOpens

\* No wakeup is lost, which is what ArrivedGetOut needs of the code: whoever is in
\* the wait set waits for something that has not happened, participants for the
\* release, coordinators for the declared number to be there; whatever makes it
\* happen notifies them in the same hold of the mutex.
NoWakeupIsLost ==
  /\ \A p \in Participants : pc[p] = "waiting" => ~released
  /\ \A c \in Coordinators : pc[c] = "waiting" => arrived # Expected

LEMMA WakeupInductive ==
  ASSUME IInv, NoWakeupIsLost, [Next]_vars
  PROVE  NoWakeupIsLost'
<1> USE ExpectedAssumption, ThreadsAssumption DEF NoWakeupIsLost
<1>1. /\ pc \in [Threads -> {"idle", "waiting", "woken", "ready", "passed", "panicked"}]
      /\ arrived \in Nat /\ released \in BOOLEAN
  BY Countable DEF IInv, TypeOK
<1>2. ASSUME NEW p \in Participants, Arrive(p)
      PROVE  NoWakeupIsLost'
  <2>1. /\ pc' = [Notified EXCEPT ![p] = IF released THEN "passed" ELSE "waiting"]
        /\ released' = released
    BY <1>2 DEF Arrive
  <2>2. \A t \in Threads \ {p} : pc'[t] # "waiting"
    BY <1>1, <2>1 DEF Notified
  <2>3. pc'[p] = "waiting" => ~released'
    BY <1>1, <2>1 DEF Notified, Threads
  <2> QED
    BY <2>2, <2>3 DEF Threads
<1>3. ASSUME NEW p \in Participants, ArriveInExcess(p)
      PROVE  NoWakeupIsLost'
  BY <1>1, <1>3 DEF ArriveInExcess, Threads
<1>4. ASSUME NEW p \in Participants, LookAgain(p)
      PROVE  NoWakeupIsLost'
  BY <1>1, <1>4 DEF LookAgain, Threads
<1>5. ASSUME NEW c \in Coordinators, AwaitArrivals(c)
      PROVE  NoWakeupIsLost'
  BY <1>1, <1>5 DEF AwaitArrivals, Threads
<1>6. ASSUME NEW c \in Coordinators, Release(c)
      PROVE  NoWakeupIsLost'
  <2>1. \A t \in Threads : pc'[t] # "waiting"
    BY <1>1, <1>6 DEF Release, Notified
  <2> QED
    BY <2>1 DEF Threads
<1>7. ASSUME NEW c \in Coordinators, ReleaseFails(c)
      PROVE  NoWakeupIsLost'
  BY <1>1, <1>7 DEF ReleaseFails, Threads
<1>8. ASSUME NEW t \in Threads, SpuriousWakeup(t)
      PROVE  NoWakeupIsLost'
  BY <1>1, <1>8 DEF SpuriousWakeup, Threads
<1>9. CASE UNCHANGED vars
  BY <1>9 DEF vars
<1> QED
  BY <1>2, <1>3, <1>4, <1>5, <1>6, <1>7, <1>8, <1>9 DEF Next, Stopped

\* The barrier loses no notification, for any number of participants and
\* coordinators, however they are woken.
THEOREM NoWakeupIsLostHolds == Spec => []NoWakeupIsLost
<1>1. Init => NoWakeupIsLost
  BY DEF Init, NoWakeupIsLost, Threads
<1>2. IInv /\ NoWakeupIsLost /\ [Next]_vars => NoWakeupIsLost'
  BY WakeupInductive
<1>3. QED
  BY <1>1, <1>2, BarrierInvariant, PTL DEF Spec

=============================================================================
