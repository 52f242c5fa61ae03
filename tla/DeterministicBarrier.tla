------------------------- MODULE DeterministicBarrier -------------------------
(***************************************************************************)
(* DeterministicBarrier (barrier.rs), on which every race of the suites is *)
(* staged: participants arrive and wait, a coordinator waits until all of  *)
(* the declared number have arrived and releases them.  One action is one  *)
(* hold of the mutex; a thread in the wait set is "waiting", and "woken"   *)
(* from a notification, or for no reason at all, until it looks again.     *)
(***************************************************************************)
EXTENDS Integers, FiniteSets

CONSTANTS
  Participants,   \* threads that call arrive_and_wait
  Coordinators,   \* threads that call wait_until_all_arrived, then release
  Hasty,          \* coordinators that may call release without waiting first
  Expected        \* the declared number of participants

ASSUME ExpectedAssumption == Expected \in Nat \ {0}
ASSUME ThreadsAssumption ==
  IsFiniteSet(Participants) /\ Participants \cap Coordinators = {} /\ Hasty \subseteq Coordinators

VARIABLES
  arrived, released,   \* State, guarded by the mutex
  pc                   \* of each thread: where it is

vars == <<arrived, released, pc>>

Threads == Participants \cup Coordinators

TypeOK ==
  /\ arrived \in 0 .. Cardinality(Participants)
  /\ released \in BOOLEAN
  /\ pc \in [Threads -> {"idle", "waiting", "woken", "ready", "passed", "panicked"}]

Init ==
  /\ arrived = 0
  /\ released = FALSE
  /\ pc = [t \in Threads |-> "idle"]

\* notify_all: every thread in the wait set will look at the state again.
Notified == [t \in Threads |-> IF pc[t] = "waiting" THEN "woken" ELSE pc[t]]

\* Mutant: nobody is told of an arrival.
ArriveSilently(p) ==
  /\ pc[p] = "idle"
  /\ arrived < Expected
  /\ arrived' = arrived + 1
  /\ pc' = [pc EXCEPT ![p] = IF released THEN "passed" ELSE "waiting"]
  /\ UNCHANGED released

\* arrive_and_wait up to its first wait.  The loop releases the mutex only by
\* waiting, so its first look at released is part of the same hold.
Arrive(p) ==
  /\ pc[p] = "idle"
  /\ arrived < Expected
  /\ arrived' = arrived + 1
  /\ pc' = [Notified EXCEPT ![p] = IF released THEN "passed" ELSE "waiting"]
  /\ UNCHANGED released

\* One participant too many panics, but only after it has been counted.
ArriveInExcess(p) ==
  /\ pc[p] = "idle"
  /\ arrived >= Expected
  /\ arrived' = arrived + 1
  /\ pc' = [pc EXCEPT ![p] = "panicked"]
  /\ UNCHANGED released

\* A woken participant looks at released again.
LookAgain(p) ==
  /\ pc[p] = "woken"
  /\ pc' = [pc EXCEPT ![p] = IF released THEN "passed" ELSE "waiting"]
  /\ UNCHANGED <<arrived, released>>

\* wait_until_all_arrived, at its call or woken: exactly Expected, not at least.
AwaitArrivals(c) ==
  /\ pc[c] \in {"idle", "woken"}
  /\ pc' = [pc EXCEPT ![c] = IF arrived = Expected THEN "ready" ELSE "waiting"]
  /\ UNCHANGED <<arrived, released>>

SpuriousWakeup(t) ==
  /\ pc[t] = "waiting"
  /\ pc' = [pc EXCEPT ![t] = "woken"]
  /\ UNCHANGED <<arrived, released>>

MayRelease(c) == pc[c] = "ready" \/ (pc[c] = "idle" /\ c \in Hasty)

\* Mutants: the count is not asserted, or asserted as a lower bound.
ReleaseUnchecked(c) ==
  /\ MayRelease(c)
  /\ released' = TRUE
  /\ pc' = [Notified EXCEPT ![c] = "passed"]
  /\ UNCHANGED arrived
ReleaseOvercrowded(c) == arrived >= Expected /\ ReleaseUnchecked(c)

Release(c) ==
  /\ MayRelease(c)
  /\ arrived = Expected
  /\ released' = TRUE
  /\ pc' = [Notified EXCEPT ![c] = "passed"]
  /\ UNCHANGED arrived

\* The assertion of release fails; the state it leaves behind is unchanged.
ReleaseFails(c) ==
  /\ MayRelease(c)
  /\ arrived # Expected
  /\ pc' = [pc EXCEPT ![c] = "panicked"]
  /\ UNCHANGED <<arrived, released>>

\* Every thread has returned or panicked.
Stopped ==
  /\ \A t \in Threads : pc[t] \in {"passed", "panicked"}
  /\ UNCHANGED vars

Next ==
  \/ \E p \in Participants : Arrive(p) \/ ArriveInExcess(p) \/ LookAgain(p)
  \/ \E c \in Coordinators : AwaitArrivals(c) \/ Release(c) \/ ReleaseFails(c)
  \/ \E t \in Threads : SpuriousWakeup(t)
  \/ Stopped

Spec == Init /\ [][Next]_vars

\* The declared threads of a suite make their calls, and whoever is woken gets the
\* mutex; a participant too many owes nothing.
Fairness ==
  /\ \A p \in Participants : WF_vars(Arrive(p) \/ LookAgain(p))
  /\ \A c \in Coordinators : WF_vars(AwaitArrivals(c) \/ Release(c) \/ ReleaseFails(c))

FairSpec == Spec /\ Fairness

-----------------------------------------------------------------------------
(* Properties *)

Inside == {p \in Participants : pc[p] \in {"waiting", "woken", "passed"}}

\* release_occurs_only_after_exact_arrival_count (barrier.rs:78): nobody gets
\* past the barrier before it is released, and when it is, exactly the declared
\* number of participants are inside; whoever comes later does not get in.
\* This holds with coordinators that do not wait and participants nobody
\* declared.
OpensOnExactArrival ==
  /\ \A p \in Participants : pc[p] = "passed" => released
  /\ released => Cardinality(Inside) = Expected

\* A participant too many, counted before the release, closes the barrier for
\* ever: no release succeeds any more, and nobody inside it ever gets out.
OvercrowdedNeverOpens == [][arrived > Expected /\ ~released => ~released']_vars

\* Whoever has arrived gets out, unless one too many arrives before the release:
\* no notification is lost between the look at the state and the wait, whatever
\* the coordinators that do not wait do, as long as one of them does.
ArrivedGetOut ==
  \A p \in Participants :
    pc[p] = "waiting" ~> pc[p] = "passed" \/ (arrived > Expected /\ ~released)

=============================================================================
