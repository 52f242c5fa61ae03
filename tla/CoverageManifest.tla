---- MODULE CoverageManifest ----
(* The coverage evidence and the manifest of platform-contract-testkit       *)
(* (coverage.rs): each suite runner mints one evidence when it returns, and  *)
(* LifecycleCoverageManifest::accept folds over the evidences of one         *)
(* implementation.  Which suites ran, how often, for which components and in *)
(* which order is the caller's choice; an evidence cannot be made otherwise. *)
EXTENDS Naturals, FiniteSets

CONSTANT Components \* the component names a caller gives to the runners

RequiredInvariants ==
  {"ExactTransitionChain", "AttemptIdentityUnderPublicOperation", "DuplicatePublicId",
   "StaleRelease", "TicketDropCancellation", "ExplicitConsumerDropCancellation",
   "AuthoritativeTerminal", "CancelCompleteRace", "AdmitQuiesceRace",
   "QuiesceWaitsForReleaseAndJoin", "WaiterTimeoutIsObservational",
   "UnreadProgressCannotBlockFinalOrShutdown", "ProgressTerminalRace",
   "PanicTerminalAndShutdown", "RepeatedShutdown", "ShutdownEmpty",
   "RetainedTasksBoundedByActiveConcurrency", "SequenceExhaustion"}

RequiredSuites ==
  {"transition-chain", "registry-identity", "attempt-hierarchy", "consumer-cancellation",
   "terminal-authority", "waiter-control", "admission-quiesce-shutdown-bridge",
   "progress-shutdown-bridge", "panic-shutdown-bridge", "stable-shutdown", "task-reaping"}

(* What each runner mints. *)
TransitionChain == [suite |-> "transition-chain", invariants |-> {"ExactTransitionChain"}]
RegistryIdentity ==
  [suite |-> "registry-identity",
   invariants |-> {"DuplicatePublicId", "StaleRelease", "SequenceExhaustion"}]
AttemptHierarchy ==
  [suite |-> "attempt-hierarchy", invariants |-> {"AttemptIdentityUnderPublicOperation"}]
ConsumerCancellation ==
  [suite |-> "consumer-cancellation",
   invariants |-> {"TicketDropCancellation", "ExplicitConsumerDropCancellation"}]
TerminalAuthority ==
  [suite |-> "terminal-authority",
   invariants |-> {"AuthoritativeTerminal", "CancelCompleteRace"}]
WaiterControl ==
  [suite |-> "waiter-control", invariants |-> {"WaiterTimeoutIsObservational"}]
AdmissionBridge ==
  [suite |-> "admission-quiesce-shutdown-bridge",
   invariants |-> {"AdmitQuiesceRace", "QuiesceWaitsForReleaseAndJoin"}]
ProgressBridge ==
  [suite |-> "progress-shutdown-bridge",
   invariants |-> {"UnreadProgressCannotBlockFinalOrShutdown", "ProgressTerminalRace"}]
PanicBridge ==
  [suite |-> "panic-shutdown-bridge", invariants |-> {"PanicTerminalAndShutdown"}]

\* Mutant: the stable-shutdown runner forgets one of its two invariants.
StableShutdownForgetful ==
  [suite |-> "stable-shutdown", invariants |-> {"RepeatedShutdown"}]
StableShutdown ==
  [suite |-> "stable-shutdown", invariants |-> {"RepeatedShutdown", "ShutdownEmpty"}]
TaskReaping ==
  [suite |-> "task-reaping", invariants |-> {"RetainedTasksBoundedByActiveConcurrency"}]

Evidence ==
  {TransitionChain, RegistryIdentity, AttemptHierarchy, ConsumerCancellation,
   TerminalAuthority, WaiterControl, AdmissionBridge, ProgressBridge, PanicBridge,
   StableShutdown, TaskReaping}

VARIABLES
  identityValid, \* whether the implementation's product and name pass validate_id
  suites,        \* the suites accept has seen
  components,    \* the components named by their evidence
  covered,       \* the invariants they cover
  given,         \* how often each suite was handed over (read by properties only)
  verdict        \* "open", "accepted", or the error accept returned

vars == <<identityValid, suites, components, covered, given, verdict>>

Errors ==
  {"InvalidIdentity", "NoEvidence", "UnexpectedSuite", "DuplicateSuite",
   "MissingSuites", "MissingInvariants"}

Init == /\ identityValid \in BOOLEAN
        /\ suites = {}
        /\ components = {}
        /\ covered = {}
        /\ given = [s \in RequiredSuites |-> 0]
        /\ verdict = "open"

\* Mutant: a suite run again, for another component, is merged.
SuiteErrorLenient(e) == IF e.suite \in RequiredSuites THEN {} ELSE {"UnexpectedSuite"}

\* The error the loop of accept returns at e, if any.
SuiteError(e) ==
  IF e.suite \notin RequiredSuites THEN {"UnexpectedSuite"}
  ELSE IF e.suite \in suites THEN {"DuplicateSuite"}
  ELSE {}

\* accept comes to the next evidence.  A runner mints none under an identity
\* that is not valid: it panics.
Item(e, component) ==
  /\ verdict = "open"
  /\ identityValid
  /\ given' = [given EXCEPT ![e.suite] = @ + 1]
  /\ IF SuiteError(e) = {}
     THEN /\ suites' = suites \cup {e.suite}
          /\ components' = components \cup {component}
          /\ covered' = covered \cup e.invariants
          /\ UNCHANGED verdict
     ELSE /\ verdict' \in SuiteError(e)
          /\ UNCHANGED <<suites, components, covered>>
  /\ UNCHANGED identityValid

\* What accept returns when it has seen every evidence.
Conclusion ==
  IF ~identityValid THEN "InvalidIdentity"
  ELSE IF suites = {} THEN "NoEvidence"
  ELSE IF RequiredSuites \ suites # {} THEN "MissingSuites"
  ELSE IF RequiredInvariants \ covered # {} THEN "MissingInvariants"
  ELSE "accepted"

Exhausted ==
  /\ verdict = "open"
  /\ verdict' = Conclusion
  /\ UNCHANGED <<identityValid, suites, components, covered, given>>

Next == \/ \E e \in Evidence, component \in Components : Item(e, component)
        \/ Exhausted

Spec == Init /\ [][Next]_vars

-----------------------------------------------------------------------------
(* Properties. *)

\* The verdict of accept is the reading of COMPOSITIONAL-LIFECYCLE.md: each of
\* the eleven suites exactly once.  The invariant union then follows, since
\* between them the runners mint all eighteen: an implementation that passes
\* every suite is not refused over the manifest's own list of invariants, and
\* what is accepted covers them all.
VerdictIsExact ==
  /\ verdict = "accepted" => covered = RequiredInvariants
  /\ verdict # "open" =>
       (verdict = "accepted" <=> \A s \in RequiredSuites : given[s] = 1)

\* The evidence that a refusal was about was handed over, and not taken.
Taken == [s \in RequiredSuites |->
            IF verdict = "DuplicateSuite" /\ given[s] = 2 THEN 1 ELSE given[s]]

\* accept implements the abstract rule, an error of any kind being a refusal:
\* no evidence is taken twice, whichever component it names, and nothing is
\* taken or decided after the verdict.
Rule == INSTANCE ExactlyOnce WITH
          Required <- RequiredSuites,
          taken <- Taken,
          verdict <- IF verdict \in Errors THEN "refused" ELSE verdict
RefinesExactlyOnce == Rule!Spec
====
