------------------------ MODULE CoverageManifestProofs ------------------------
(* The verdict of accept is exact, for every set of component names and every  *)
(* list of evidence, and accept implements ExactlyOnce.  The inductive         *)
(* invariant relates what was handed over to what was taken, and what was      *)
(* taken to the invariants it covers.                                          *)
EXTENDS CoverageManifest, TLAPS

TypeOK ==
  /\ identityValid \in BOOLEAN
  /\ suites \subseteq RequiredSuites
  /\ given \in [RequiredSuites -> Nat]
  /\ verdict \in Errors \cup {"open", "accepted"}

Once(s) == IF s \in suites THEN 1 ELSE 0

\* Of each suite as many evidences were handed over as were taken, but for the
\* one a duplicate is refused over.
GivenInv ==
  IF verdict = "DuplicateSuite"
  THEN \E d \in suites : given = [s \in RequiredSuites |-> IF s = d THEN 2 ELSE Once(s)]
  ELSE given = [s \in RequiredSuites |-> Once(s)]

\* The evidences taken cover their own invariants, and those alone are covered.
CoveredInv ==
  /\ covered \subseteq RequiredInvariants
  /\ \A e \in Evidence : e.suite \in suites => e.invariants \subseteq covered

\* Under an identity that is not valid nothing is minted; a verdict on the whole
\* list says what is missing from it.
ConclusionInv ==
  /\ ~identityValid => suites = {}
  /\ verdict = "accepted" => suites = RequiredSuites
  /\ verdict \notin {"open", "accepted", "DuplicateSuite"} => suites # RequiredSuites

IInv == TypeOK /\ GivenInv /\ CoveredInv /\ ConclusionInv

-----------------------------------------------------------------------------

\* What the runners mint names a required suite and required invariants, and
\* each suite is minted by one runner.
LEMMA Minted ==
  ASSUME NEW e \in Evidence
  PROVE  /\ e.suite \in RequiredSuites
         /\ e.invariants \subseteq RequiredInvariants
         /\ \A f \in Evidence : f.suite = e.suite => f = e
<1> USE DEF Evidence, TransitionChain, RegistryIdentity, AttemptHierarchy, ConsumerCancellation,
            TerminalAuthority, WaiterControl, AdmissionBridge, ProgressBridge, PanicBridge,
            StableShutdown, TaskReaping
<1>1. e.suite \in RequiredSuites
  BY DEF RequiredSuites
<1>2. e.invariants \subseteq RequiredInvariants
  BY DEF RequiredInvariants
<1>3. \A f \in Evidence : f.suite = e.suite => f = e
  OBVIOUS
<1> QED
  BY <1>1, <1>2, <1>3

\* Between them the runners mint every invariant that is required.
LEMMA AllAreMinted ==
  \A x \in RequiredInvariants : \E e \in Evidence : x \in e.invariants
BY DEF RequiredInvariants, Evidence, TransitionChain, RegistryIdentity, AttemptHierarchy,
       ConsumerCancellation, TerminalAuthority, WaiterControl, AdmissionBridge, ProgressBridge,
       PanicBridge, StableShutdown, TaskReaping

\* So when every suite has come, every invariant is covered.
LEMMA AllAreCovered ==
  ASSUME CoveredInv, suites = RequiredSuites
  PROVE  covered = RequiredInvariants
BY AllAreMinted, Minted DEF CoveredInv

-----------------------------------------------------------------------------

LEMMA Initial == Init => IInv
<1> SUFFICES ASSUME Init PROVE IInv
  OBVIOUS
<1>1. TypeOK
  BY DEF Init, TypeOK
<1>2. GivenInv /\ CoveredInv /\ ConclusionInv
  BY DEF Init, GivenInv, Once, CoveredInv, ConclusionInv
<1> QED
  BY <1>1, <1>2 DEF IInv

\* An evidence is taken, or it is the second of its suite.
LEMMA ItemStep ==
  ASSUME IInv, NEW e \in Evidence, NEW component \in Components, Item(e, component)
  PROVE  IInv'
<1> DEFINE s == e.suite
<1>1. /\ s \in RequiredSuites
      /\ e.invariants \subseteq RequiredInvariants
      /\ \A f \in Evidence : f.suite = s => f = e
  BY Minted
<1>2. /\ verdict = "open"
      /\ given' = [given EXCEPT ![s] = @ + 1]
      /\ identityValid' = identityValid
      /\ given = [x \in RequiredSuites |-> Once(x)]
  BY DEF Item, IInv, GivenInv
<1>3. given' \in [RequiredSuites -> Nat]
  <2>1. given \in [RequiredSuites -> Nat]
    BY DEF IInv, TypeOK
  <2> QED
    BY <1>1, <1>2, <2>1
<1>4. CASE s \notin suites
  <2>1. /\ suites' = suites \cup {s}
        /\ covered' = covered \cup e.invariants
        /\ verdict' = verdict
    BY <1>1, <1>4 DEF Item, SuiteError
  <2>2. given' = [x \in RequiredSuites |-> Once(x)']
    BY <1>1, <1>2, <1>4, <2>1 DEF Once
  <2>3. CoveredInv'
    BY <1>1, <2>1 DEF IInv, CoveredInv
  <2> QED
    BY <1>1, <1>2, <1>3, <2>1, <2>2, <2>3 DEF IInv, TypeOK, GivenInv, ConclusionInv, Item
<1>5. CASE s \in suites
  <2>1. /\ suites' = suites
        /\ covered' = covered
        /\ verdict' = "DuplicateSuite"
    BY <1>1, <1>5 DEF Item, SuiteError
  <2>2. given' = [x \in RequiredSuites |-> IF x = s THEN 2 ELSE Once(x)']
    BY <1>1, <1>2, <1>5, <2>1 DEF Once
  <2>3. GivenInv'
    BY <1>5, <2>1, <2>2 DEF GivenInv
  <2> QED
    BY <1>2, <1>3, <2>1, <2>3 DEF IInv, TypeOK, Errors, CoveredInv, ConclusionInv
<1> QED
  BY <1>4, <1>5

\* The end of the list: nothing is covered in part when every suite has come.
LEMMA ExhaustedStep == IInv /\ Exhausted => IInv'
<1> SUFFICES ASSUME IInv, Exhausted PROVE IInv'
  OBVIOUS
<1>1. /\ verdict = "open" /\ verdict' = Conclusion
      /\ UNCHANGED <<identityValid, suites, components, covered, given>>
  BY DEF Exhausted
<1>2. Conclusion \in {"InvalidIdentity", "NoEvidence", "MissingSuites", "MissingInvariants", "accepted"}
  BY DEF Conclusion
<1>3. TypeOK' /\ GivenInv' /\ CoveredInv'
  BY <1>1, <1>2 DEF IInv, TypeOK, Errors, GivenInv, Once, CoveredInv
<1>4. suites = RequiredSuites => covered = RequiredInvariants
  BY AllAreCovered DEF IInv
<1>5. ConclusionInv'
  <2>1. RequiredSuites # {}
    BY DEF RequiredSuites
  <2>2. verdict' = "accepted" => suites = RequiredSuites
    BY <1>1 DEF IInv, TypeOK, Conclusion
  <2>3. verdict' \in {"InvalidIdentity", "NoEvidence", "MissingSuites"} =>
          suites # RequiredSuites
    <3>1. ~identityValid => suites # RequiredSuites
      BY <2>1 DEF IInv, ConclusionInv
    <3> QED
      BY <1>1, <2>1, <3>1 DEF Conclusion
  <2>4. verdict' # "MissingInvariants"
    BY <1>1, <1>4 DEF IInv, TypeOK, Conclusion
  <2>5. ~identityValid' => suites' = {}
    BY <1>1 DEF IInv, ConclusionInv
  <2> QED
    BY <1>1, <1>2, <2>2, <2>3, <2>4, <2>5 DEF ConclusionInv
<1> QED
  BY <1>3, <1>5 DEF IInv

LEMMA Invariant == Spec => []IInv
<1>1. IInv /\ UNCHANGED vars => IInv'
  BY DEF vars, IInv, TypeOK, GivenInv, Once, CoveredInv, ConclusionInv
<1>2. IInv /\ [Next]_vars => IInv'
  BY <1>1, ItemStep, ExhaustedStep DEF Next
<1> QED
  BY <1>2, Initial, PTL DEF Spec

-----------------------------------------------------------------------------

\* accept accepts exactly the lists with one evidence of each suite, and then
\* all eighteen invariants are covered, whatever the components and the order.
THEOREM ManifestVerdictIsExact == Spec => []VerdictIsExact
<1>1. ASSUME IInv PROVE VerdictIsExact
  <2>1. verdict = "accepted" => covered = RequiredInvariants
    BY <1>1, AllAreCovered DEF IInv, ConclusionInv
  <2>2. CASE verdict = "DuplicateSuite"
    <3>1. PICK d \in RequiredSuites : given[d] = 2
      BY <1>1, <2>2 DEF IInv, TypeOK, GivenInv
    <3> QED
      BY <2>2, <3>1 DEF VerdictIsExact
  <2>3. CASE verdict # "DuplicateSuite"
    <3>1. (\A s \in RequiredSuites : given[s] = 1) <=> suites = RequiredSuites
      BY <1>1, <2>3 DEF IInv, TypeOK, GivenInv, Once
    <3> QED
      BY <1>1, <2>1, <2>3, <3>1 DEF IInv, ConclusionInv, VerdictIsExact
  <2> QED
    BY <2>2, <2>3
<1> QED
  BY <1>1, Invariant, PTL

\* Before a verdict on a duplicate, what was handed over is what was taken.
LEMMA TakenBefore ==
  ASSUME verdict # "DuplicateSuite", given \in [RequiredSuites -> Nat]
  PROVE  Taken = given
BY DEF Taken

\* A step of the list is a step of the rule: an evidence of a new suite is
\* taken, any other is a refusal, and the end of the list decides.
LEMMA ItemImplements ==
  ASSUME IInv, NEW e \in Evidence, NEW component \in Components, Item(e, component)
  PROVE  Rule!Next
<1> DEFINE s == e.suite
<1>1. s \in RequiredSuites
  BY Minted
<1>2. /\ verdict = "open"
      /\ given \in [RequiredSuites -> Nat]
      /\ given = [x \in RequiredSuites |-> Once(x)]
      /\ given' = [given EXCEPT ![s] = @ + 1]
  BY DEF Item, IInv, TypeOK, GivenInv
<1>3. Taken = given
  BY <1>2, TakenBefore
<1>4. CASE s \notin suites
  <2>1. verdict' = "open"
    BY <1>1, <1>2, <1>4 DEF Item, SuiteError
  <2>2. given[s] = 0 /\ given' = [given EXCEPT ![s] = 1]
    <3>1. given[s] = 0
      BY <1>1, <1>2, <1>4 DEF Once
    <3> HIDE DEF s
    <3> QED
      BY <1>1, <1>2, <3>1
  <2>3. Taken' = given'
    BY <2>1, <2>2, <1>2 DEF Taken
  <2>4. Rule!Take(s)
    BY <1>2, <1>3, <2>1, <2>2, <2>3 DEF Rule!Take, Errors
  <2> QED
    BY <1>1, <2>4 DEF Rule!Next
<1>5. CASE s \in suites
  <2>1. verdict' = "DuplicateSuite"
    BY <1>1, <1>5 DEF Item, SuiteError
  <2>2. given[s] = 1 /\ given' = [given EXCEPT ![s] = 2]
    <3>1. given[s] = 1
      BY <1>1, <1>2, <1>5 DEF Once
    <3> HIDE DEF s
    <3> QED
      BY <1>1, <1>2, <3>1
  <2>3. \A x \in RequiredSuites : given[x] # 2
    BY <1>2 DEF Once
  <2>4. Taken' = given
    BY <1>2, <2>1, <2>2, <2>3 DEF Taken
  <2>5. Rule!Refuse
    BY <1>2, <1>3, <2>1, <2>4 DEF Rule!Refuse, Errors
  <2> QED
    BY <2>5 DEF Rule!Next
<1> QED
  BY <1>4, <1>5

LEMMA ExhaustedImplements == IInv /\ Exhausted => Rule!Next
<1> SUFFICES ASSUME IInv, Exhausted PROVE Rule!Next
  OBVIOUS
<1>1. /\ verdict = "open" /\ verdict' = Conclusion
      /\ given' = given /\ given \in [RequiredSuites -> Nat]
      /\ given = [x \in RequiredSuites |-> Once(x)]
  BY DEF Exhausted, IInv, TypeOK, GivenInv
<1>2. Conclusion \in {"InvalidIdentity", "NoEvidence", "MissingSuites", "MissingInvariants", "accepted"}
  BY DEF Conclusion
<1>3. Taken = given /\ Taken' = given
  BY <1>1, <1>2 DEF Taken
<1>4. CASE Conclusion = "accepted"
  <2>1. suites = RequiredSuites
    BY <1>4 DEF Conclusion, IInv, TypeOK
  <2>2. \A x \in RequiredSuites : Taken[x] = 1
    BY <1>1, <1>3, <2>1 DEF Once
  <2>3. Rule!Accept
    BY <1>1, <1>3, <1>4, <2>2 DEF Rule!Accept, Errors
  <2> QED
    BY <2>3 DEF Rule!Next
<1>5. CASE Conclusion # "accepted"
  <2>1. Rule!Refuse
    BY <1>1, <1>2, <1>3, <1>5 DEF Rule!Refuse, Errors
  <2> QED
    BY <2>1 DEF Rule!Next
<1> QED
  BY <1>4, <1>5

\* accept implements ExactlyOnce: no evidence is taken twice, whichever
\* component it names, nothing is accepted before every suite was taken, and
\* nothing is taken or decided after the verdict.
THEOREM ManifestRefinement == Spec => RefinesExactlyOnce
<1>1. Init => Rule!Init
  BY DEF Init, Rule!Init, Taken, Errors
<1>2. ASSUME UNCHANGED vars PROVE UNCHANGED Rule!vars
  BY <1>2 DEF vars, Rule!vars, Taken
<1>3. IInv /\ [Next]_vars => [Rule!Next]_Rule!vars
  BY <1>2, ItemImplements, ExhaustedImplements DEF Next
<1> QED
  BY <1>1, <1>3, Invariant, PTL DEF Spec, RefinesExactlyOnce, Rule!Spec
=============================================================================
