--------------------------- MODULE EnvelopesProofs ---------------------------
(* A privacy policy lets data go to a host by consent alone, for every policy, *)
(* every route and every sequence of edits and questions.                      *)
EXTENDS Envelopes, FiniteSetTheorems, WellFoundedInduction, TLAPS

IInv ==
  /\ "kind" \in DOMAIN envelope
  /\ envelope.kind = "policy" => envelope \in Policy
  /\ HostedEgressIsConsented

\* What decide says of a policy on its own.
LEMMA AllowedIsConsented ==
  ASSUME NEW policy \in Policy, NEW route,
         Decision(policy, route) = "allowed", route.target # "local"
  PROVE  /\ route.target = "hosted"
         /\ route.redaction = "applied"
         /\ policy.payload_redaction = "required_before_egress"
         /\ policy.data_handling = "hosted_allowed"
         /\ route.data_tier \in Elements(policy.allowed_hosted_data_tiers) \ {"unknown"}
         /\ \/ /\ policy.network = "allow_listed"
               /\ route.provider_id \in Elements(policy.allowed_provider_ids)
            \/ policy.network = "allow_hosted" /\ policy.allowed_provider_ids = <<>>
<1>1. PolicyIsValid(policy) /\ route.data_tier # "unknown" /\ route.target = "hosted"
  BY DEF Decision
<1>2. HostedDecision(policy, route) = "allowed"
  BY <1>1 DEF Decision
<1>3. policy.network \in {"deny", "allow_listed", "allow_hosted"}
      /\ policy.data_handling \in {"local_only", "hosted_allowed"}
  BY DEF Policy, PolicyFields
<1>4. /\ policy.data_handling = "hosted_allowed"
      /\ policy.network # "deny"
      /\ policy.network = "allow_listed"
           => route.provider_id \in Elements(policy.allowed_provider_ids)
      /\ route.data_tier \in Elements(policy.allowed_hosted_data_tiers)
      /\ route.redaction = "applied"
  BY <1>2, <1>3 DEF HostedDecision
<1>5. /\ policy.payload_redaction = "required_before_egress"
      /\ (policy.network = "allow_hosted") = (policy.allowed_provider_ids = <<>>)
  BY <1>1, <1>4 DEF PolicyIsValid
<1> QED
  BY <1>1, <1>3, <1>4, <1>5

LEMMA EnvelopeInit == Init => IInv
BY TypesAssumption DEF Init, IInv, HostedEgressIsConsented, NoAnswer

\* An edit leaves a policy a policy, whatever it does to its validity.
LEMMA EditedPolicy ==
  ASSUME IInv, NEW f \in Fields, f.kind = envelope.kind, Assign(f.field, f.new)
  PROVE  IInv'
<1>1. HostedEgressIsConsented'
  BY DEF Assign, HostedEgressIsConsented, NoAnswer
<1>2. ASSUME envelope.kind = "policy"
      PROVE  envelope' \in Policy
  <2>1. envelope \in Policy /\ f.field \in DOMAIN PolicyFields /\ f.new \in PolicyFields[f.field]
    BY <1>2, TypesAssumption DEF IInv
  <2>2. envelope' = [envelope EXCEPT ![f.field] = f.new]
    BY DEF Assign
  <2>3. f.field \in {"network", "data_handling", "allowed_provider_ids",
                     "allowed_hosted_data_tiers", "payload_redaction"}
    BY <2>1 DEF PolicyFields
  <2> QED
    BY <2>1, <2>2, <2>3 DEF Policy, PolicyFields
<1>3. "kind" \in DOMAIN envelope' /\ envelope'.kind = envelope.kind
  BY TypesAssumption DEF Assign, IInv
<1> QED
  BY <1>1, <1>2, <1>3 DEF IInv

LEMMA EnvelopeStep == IInv /\ [Next]_vars => IInv'
<1> SUFFICES ASSUME IInv, [Next]_vars PROVE IInv'
  OBVIOUS
<1>1. CASE Deserialize
  BY <1>1 DEF Deserialize, IInv, HostedEgressIsConsented, NoAnswer
<1>2. ASSUME NEW f \in Fields, f.kind = envelope.kind, Assign(f.field, f.new)
      PROVE  IInv'
  BY <1>2, EditedPolicy
<1>3. ASSUME NEW route \in Routes, Decide(route)
      PROVE  IInv'
  <2>1. /\ envelope' = envelope /\ envelope \in Policy
        /\ answer' = [call |-> "decide", route |-> route, decision |-> Decision(envelope, route)]
    BY <1>3 DEF Decide, IInv
  <2>2. Decision(envelope, route) = "allowed" /\ route.target # "local"
          => HostedEgressIsConsented'
    BY <2>1, AllowedIsConsented DEF HostedEgressIsConsented
  <2>3. ~(Decision(envelope, route) = "allowed" /\ route.target # "local")
          => HostedEgressIsConsented'
    BY <2>1 DEF HostedEgressIsConsented
  <2> QED
    BY <2>1, <2>2, <2>3 DEF IInv
<1>4. CASE Succeeded
  BY <1>4 DEF Succeeded, IInv, HostedEgressIsConsented
<1>5. CASE UNCHANGED vars
  BY <1>5 DEF vars, IInv, HostedEgressIsConsented
<1> QED
  BY <1>1, <1>2, <1>3, <1>4, <1>5 DEF Next

\* PrivacyPolicyV0::decide, asked of any policy in any state of editing, allows
\* data to leave for a host only where the policy as it is then consents.
THEOREM HostedEgressIsConsentedHolds == Spec => []HostedEgressIsConsented
<1>1. IInv => HostedEgressIsConsented
  BY DEF IInv
<1> QED
  BY EnvelopeInit, EnvelopeStep, <1>1, PTL DEF Spec

-----------------------------------------------------------------------------
(* Shutdown accounting.                                                      *)

LEMMA Least ==
  ASSUME NEW S \in SUBSET Nat, S # {}
  PROVE  \E i \in S : \A j \in S : i <= j
<1>1. PICK i \in S : \A j \in S : ~(<<j, i>> \in OpToRel(<, Nat))
  BY NatLessThanWellFounded, WFMin
<1>2. ASSUME NEW j \in S PROVE i <= j
  <2>1. ~(j < i)
    BY <1>1 DEF OpToRel
  <2> QED
    BY <2>1
<1> QED
  BY <1>2

\* The sums of a column that the loop over the resources has after each of n.
IsSum(g, resources, field, n) ==
  g = [i \in 0 .. n |-> IF i = 0 THEN 0 ELSE CheckedAdd(resources[i][field], g[i - 1])]

\* The loop has a sum after each resource: if it stopped having one, there would
\* be a first resource at which it did.
LEMMA SumExists ==
  ASSUME NEW resources, NEW field, NEW N \in Nat
  PROVE  \E g : IsSum(g, resources, field, N)
<1> DEFINE Has(n) == \E g : IsSum(g, resources, field, n)
           S == {n \in Nat : ~Has(n)}
<1>1. Has(0)
  <2>1. IsSum([i \in 0 .. 0 |-> 0], resources, field, 0)
    BY DEF IsSum
  <2> QED
    BY <2>1
<1>2. ASSUME NEW n \in Nat, n # 0, Has(n - 1) PROVE Has(n)
  <2>1. PICK g : IsSum(g, resources, field, n - 1)
    BY <1>2
  <2> DEFINE h == [i \in 0 .. n |->
                     IF i = n THEN CheckedAdd(resources[n][field], g[n - 1]) ELSE g[i]]
  <2>2. \A i \in 0 .. n - 1 :
          g[i] = IF i = 0 THEN 0 ELSE CheckedAdd(resources[i][field], g[i - 1])
    BY <2>1 DEF IsSum
  <2>3. ASSUME NEW i \in 0 .. n
        PROVE  h[i] = IF i = 0 THEN 0 ELSE CheckedAdd(resources[i][field], h[i - 1])
    <3>1. CASE i = n
      <4>1. n - 1 \in 0 .. n /\ n - 1 # n
        BY <1>2
      <4> QED
        BY <1>2, <3>1, <4>1
    <3>2. CASE i # n
      <4>1. i \in 0 .. n - 1 /\ (i # 0 => i - 1 \in 0 .. n /\ i - 1 # n)
        BY <3>2
      <4> QED
        BY <2>2, <3>2, <4>1
    <3> QED
      BY <3>1, <3>2
  <2>4. IsSum(h, resources, field, n)
    <3> HIDE DEF h
    <3>1. h = [i \in 0 .. n |-> h[i]]
      BY DEF h
    <3> QED
      BY <2>3, <3>1 DEF IsSum
  <2> QED
    BY <2>4
<1>3. CASE S # {}
  <2>1. PICK n \in S : \A m \in S : n <= m
    <3>1. S \in SUBSET Nat
      OBVIOUS
    <3> HIDE DEF S
    <3> QED
      BY <1>3, <3>1, Least
  <2>2. n \in Nat /\ ~Has(n)
    BY <2>1
  <2>3. n # 0
    BY <1>1, <2>2
  <2>4. n - 1 \in Nat /\ n - 1 \notin S
    <3> HIDE DEF S
    <3> QED
      BY <2>1, <2>2, <2>3
  <2>5. Has(n - 1)
    BY <2>4
  <2> QED
    BY <1>2, <2>2, <2>3, <2>5
<1>4. CASE S = {}
  BY <1>4
<1> QED
  BY <1>3, <1>4

\* The workers of the first n resources.
Upto(resources, field, n) ==
  {w \in (1 .. n) \X (1 .. MaxUsize) : w[2] <= resources[w[1]][field]}

LEMMA NextWorkers ==
  ASSUME NEW resources, NEW field, NEW n \in Nat \ {0}, NEW c \in Usize,
         c = resources[n][field]
  PROVE  /\ IsFiniteSet(Upto(resources, field, n - 1))
         /\ Cardinality(Upto(resources, field, n))
              = Cardinality(Upto(resources, field, n - 1)) + c
<1> DEFINE A == Upto(resources, field, n - 1)
           B == {n} \X (1 .. c)
<1>1. c \in Nat /\ c <= MaxUsize /\ MaxUsize \in Nat
  BY MaxUsizeAssumption DEF Usize
<1>2. IsFiniteSet(A)
  <2>1. IsFiniteSet(1 .. n - 1) /\ IsFiniteSet(1 .. MaxUsize)
    BY <1>1, FS_Interval
  <2>2. IsFiniteSet((1 .. n - 1) \X (1 .. MaxUsize))
    BY <2>1, FS_Product
  <2>3. A \in SUBSET ((1 .. n - 1) \X (1 .. MaxUsize))
    BY DEF Upto
  <2> QED
    BY <2>2, <2>3, FS_Subset
<1>3. IsFiniteSet(B) /\ Cardinality(B) = c
  <2>1. IsFiniteSet(1 .. c) /\ Cardinality(1 .. c) = c
    <3>1. 1 \in Int /\ c \in Int
      BY <1>1
    <3>2. IsFiniteSet(1 .. c) /\ Cardinality(1 .. c) = IF 1 > c THEN 0 ELSE c - 1 + 1
      BY <3>1, FS_Interval
    <3>3. (IF 1 > c THEN 0 ELSE c - 1 + 1) = c
      BY <1>1
    <3> QED
      BY <3>2, <3>3
  <2>2. IsFiniteSet({n}) /\ Cardinality({n}) = 1
    BY FS_Singleton
  <2>3. IsFiniteSet(B) /\ Cardinality(B) = Cardinality({n}) * Cardinality(1 .. c)
    BY <2>1, <2>2, FS_Product
  <2> QED
    BY <1>1, <2>1, <2>2, <2>3
<1>4. Upto(resources, field, n) = A \cup B
  <2>1. \A i : i \in 1 .. n <=> i \in 1 .. n - 1 \/ i = n
    OBVIOUS
  <2>2. \A i : i \in 1 .. c <=> i \in 1 .. MaxUsize /\ i <= c
    BY <1>1
  <2> QED
    BY <2>1, <2>2 DEF Upto
<1>5. A \cap B = {}
  <2>1. n \notin 1 .. n - 1
    OBVIOUS
  <2> QED
    BY <2>1 DEF Upto
<1>6. Cardinality(A \cup B) = Cardinality(A) + Cardinality(B) - Cardinality(A \cap B)
  BY <1>2, <1>3, FS_Union
<1>7. Cardinality(A) \in Nat /\ Cardinality({}) = 0
  BY <1>2, FS_CardinalityType, FS_EmptySet
<1> QED
  BY <1>1, <1>2, <1>3, <1>4, <1>5, <1>6, <1>7

\* As long as the sum has not overflowed it is the number of workers so far.
LEMMA SumsCount ==
  ASSUME NEW resources \in Seq(Resource), NEW field \in {"expected_workers", "joined_workers"},
         NEW g, IsSum(g, resources, field, Len(resources)), NEW n \in 0 .. Len(resources),
         g[n] # Overflow
  PROVE  g[n] \in Usize /\ g[n] = Cardinality(Upto(resources, field, n))
<1> DEFINE N == Len(resources)
           Counts(m) == g[m] # Overflow =>
                          g[m] \in Usize /\ g[m] = Cardinality(Upto(resources, field, m))
           S == {m \in 0 .. N : ~Counts(m)}
<1>1. N \in Nat /\ DOMAIN resources = 1 .. N
  OBVIOUS
<1>2. \A m \in 0 .. N : g[m] = IF m = 0 THEN 0 ELSE CheckedAdd(resources[m][field], g[m - 1])
  BY DEF IsSum
<1>3. Counts(0)
  <2>1. Upto(resources, field, 0) = {}
    <3>1. \A i : i \notin 1 .. 0
      OBVIOUS
    <3> QED
      BY <3>1 DEF Upto
  <2>2. g[0] = 0
    BY <1>1, <1>2
  <2>3. Cardinality(Upto(resources, field, 0)) = 0
    BY <2>1, FS_EmptySet, Zenon
  <2>4. 0 \in Usize
    BY MaxUsizeAssumption DEF Usize
  <2> QED
    BY <2>2, <2>3, <2>4
<1>4. ASSUME NEW m \in 1 .. N, Counts(m - 1) PROVE Counts(m)
  <2>1. PICK c : c = resources[m][field]
    OBVIOUS
  <2>2. c \in Usize
    <3>1. resources[m] \in Resource
      BY <1>1
    <3> QED
      BY <2>1, <3>1 DEF Resource
  <2>3. g[m] = CheckedAdd(c, g[m - 1])
    BY <1>1, <1>2, <2>1
  <2>4. CASE g[m - 1] = Overflow
    BY <2>3, <2>4 DEF CheckedAdd
  <2>5. CASE g[m - 1] # Overflow
    <3>1. g[m - 1] \in Usize
          /\ g[m - 1] = Cardinality(Upto(resources, field, m - 1))
      BY <1>4, <2>5
    <3>2. Cardinality(Upto(resources, field, m))
            = Cardinality(Upto(resources, field, m - 1)) + c
      BY <1>1, <2>1, <2>2, NextWorkers
    <3> QED
      BY <2>2, <2>3, <2>5, <3>1, <3>2, MaxUsizeAssumption DEF CheckedAdd, Usize, Overflow
  <2> QED
    BY <2>4, <2>5
<1>5. CASE S # {}
  <2>1. PICK m \in S : \A k \in S : m <= k
    <3>1. S \in SUBSET Nat
      BY <1>1
    <3> HIDE DEF S
    <3> QED
      BY <1>5, <3>1, Least
  <2>2. m \in 0 .. N /\ ~Counts(m)
    BY <2>1
  <2>3. m # 0
    BY <1>3, <2>2
  <2>4. m - 1 \in 0 .. N /\ m - 1 \notin S /\ m \in 1 .. N
    <3> HIDE DEF S
    <3> QED
      BY <1>1, <2>1, <2>2, <2>3
  <2>5. Counts(m - 1)
    BY <2>4
  <2> QED
    BY <1>4, <2>2, <2>4, <2>5
<1>6. CASE S = {}
  BY <1>6
<1> QED
  BY <1>5, <1>6

\* A total that fits a usize is the number of the workers.
LEMMA TotalCounts ==
  ASSUME NEW resources \in Seq(Resource), NEW field \in {"expected_workers", "joined_workers"},
         NEW total \in Usize, total = Total(resources, field)
  PROVE  total = Workers(resources, field)
<1> DEFINE N == Len(resources)
<1>1. PICK g : g = CHOOSE h : IsSum(h, resources, field, N)
  OBVIOUS
<1>2. Total(resources, field) = g[N]
  BY <1>1 DEF Total, IsSum
<1>3. IsSum(g, resources, field, N)
  <2>1. N \in Nat
    OBVIOUS
  <2> QED
    BY <1>1, <2>1, SumExists
<1>4. g[N] # Overflow
  BY <1>2, MaxUsizeAssumption DEF Usize, Overflow
<1>5. N \in 0 .. N
  OBVIOUS
<1>6. g[N] = Cardinality(Upto(resources, field, N))
  BY <1>3, <1>4, <1>5, SumsCount
<1>7. Workers(resources, field) = Cardinality(Upto(resources, field, N))
  <2>1. DOMAIN resources = 1 .. N
    OBVIOUS
  <2> HIDE DEF N
  <2> QED
    BY <2>1, Zenon DEF Workers, Upto
<1> QED
  BY <1>2, <1>6, <1>7

-----------------------------------------------------------------------------
(* What a valid summary says.                                                *)

\* No id comes twice in a column: the ids are as many as the places.
LEMMA UniqueIds ==
  ASSUME NEW s \in Seq(Resource), IsUnique(Column(s, "resource_id"))
  PROVE  Cardinality({r.resource_id : r \in Elements(s)}) = Len(s)
<1> DEFINE n == Len(s)
           f == [i \in 1 .. n |-> s[i].resource_id]
           R == {r.resource_id : r \in Elements(s)}
<1>1. n \in Nat /\ DOMAIN s = 1 .. n
  OBVIOUS
<1>2. IsFiniteSet(1 .. n) /\ Cardinality(1 .. n) = n
  <2>1. 1 \in Int /\ n \in Int
    BY <1>1
  <2>2. IsFiniteSet(1 .. n) /\ Cardinality(1 .. n) = IF 1 > n THEN 0 ELSE n - 1 + 1
    BY <2>1, FS_Interval
  <2>3. (IF 1 > n THEN 0 ELSE n - 1 + 1) = n
    BY <1>1
  <2> QED
    BY <2>2, <2>3
<1>3. f \in Surjection(1 .. n, R)
  <2>1. R = {s[i].resource_id : i \in 1 .. n}
    BY <1>1 DEF Elements
  <2>2. f \in [1 .. n -> R] /\ \A x \in R : \E i \in 1 .. n : f[i] = x
    BY <2>1
  <2> QED
    BY <2>2 DEF Surjection
<1>4. f \in Injection(1 .. n, R)
  <2>1. \A i, j \in 1 .. n : f[i] = f[j] => i = j
    BY <1>1 DEF IsUnique, Column
  <2> QED
    BY <1>3, <2>1 DEF Surjection, Injection, IsInjective
<1>5. Cardinality(R) = Cardinality(1 .. n)
  <2> HIDE DEF f, R, n
  <2> QED
    BY <1>2, <1>3, <1>4, FS_Surjection, Zenon
<1> QED
  BY <1>2, <1>5

\* The failures name the resources that failed, each with its own service: a
\* failure's id and service are those of a resource, and no two have one id.
LEMMA BlameIsExact ==
  ASSUME NEW s \in Summary, SummaryIsValid(s)
  PROVE  {<<f.resource_id, f.service>> : f \in Elements(s.failures)}
           = {<<r.resource_id, r.service>> :
                r \in {r \in Elements(s.resources) : r.state # "stopped"}}
<1> DEFINE resources == s.resources
           failures == s.failures
           failed == Elements(Column(failures, "resource_id"))
<1>1. \A r \in Elements(resources) : r.state \in {"stopped", "failed"}
  <2>1. resources \in Seq(Resource)
    BY DEF Summary
  <2>2. \A i \in DOMAIN resources : resources[i] \in Resource
    BY <2>1
  <2> QED
    BY <2>2 DEF Elements, Resource
<1>2. /\ \A f \in Elements(failures) : \E r \in Elements(resources) :
           r.resource_id = f.resource_id /\ r.service = f.service
      /\ \A r \in Elements(resources) : (r.state = "failed") = (r.resource_id \in failed)
      /\ IsUnique(Column(resources, "resource_id"))
  BY DEF SummaryIsValid
<1>3. \A x : x \in failed <=> \E f \in Elements(failures) : x = f.resource_id
  BY DEF Elements, Column
<1>4. \A p, q \in Elements(resources) : p.resource_id = q.resource_id => p = q
  <2>1. \A i, j \in DOMAIN resources :
          resources[i].resource_id = resources[j].resource_id => i = j
    <3>1. DOMAIN Column(resources, "resource_id") = DOMAIN resources
          /\ \A i \in DOMAIN resources :
               Column(resources, "resource_id")[i] = resources[i].resource_id
      BY DEF Column
    <3> QED
      BY <1>2, <3>1 DEF IsUnique
  <2> QED
    BY <2>1 DEF Elements
<1> HIDE DEF resources, failures, failed
<1> DEFINE lost == {r \in Elements(resources) : r.state # "stopped"}
           blamed == {<<f.resource_id, f.service>> : f \in Elements(failures)}
           charged == {<<r.resource_id, r.service>> : r \in lost}
<1>5. ASSUME NEW f \in Elements(failures)
      PROVE  <<f.resource_id, f.service>> \in charged
  <2>1. PICK r \in Elements(resources) : r.resource_id = f.resource_id /\ r.service = f.service
    BY <1>2
  <2>2. r.state = "failed"
    BY <1>2, <1>3, <2>1
  <2>3. r \in lost
    BY <2>1, <2>2
  <2> QED
    BY <2>1, <2>3
<1>6. ASSUME NEW r \in lost
      PROVE  <<r.resource_id, r.service>> \in blamed
  <2>1. r \in Elements(resources) /\ r.resource_id \in failed
    BY <1>1, <1>2
  <2>2. PICK f \in Elements(failures) : r.resource_id = f.resource_id
    BY <1>3, <2>1
  <2>3. PICK q \in Elements(resources) : q.resource_id = f.resource_id /\ q.service = f.service
    BY <1>2
  <2>4. q = r
    BY <1>4, <2>1, <2>2, <2>3
  <2> QED
    BY <2>2, <2>3, <2>4
<1>7. blamed = charged
  <2>1. blamed \in SUBSET charged
    BY <1>5
  <2>2. charged \in SUBSET blamed
    BY <1>6
  <2> QED
    BY <2>1, <2>2
<1> QED
  BY <1>7 DEF resources, failures

\* A summary without failures is one all of whose resources stopped.
LEMMA SuccessIsNoLoss ==
  ASSUME NEW s \in Summary, SummaryIsValid(s)
  PROVE  s.failures = <<>> <=> {r \in Elements(s.resources) : r.state # "stopped"} = {}
<1>1. s.failures = <<>> => \A r \in Elements(s.resources) : r.state = "stopped"
  BY DEF SummaryIsValid
<1>2. ASSUME s.failures # <<>>
      PROVE  \E r \in Elements(s.resources) : r.state # "stopped"
  <2>1. s.failures \in Seq(Failure)
    BY DEF Summary
  <2>2. 1 \in DOMAIN s.failures
    BY <1>2, <2>1
  <2>3. PICK f : f = s.failures[1]
    OBVIOUS
  <2>4. f \in Elements(s.failures)
        /\ f.resource_id \in Elements(Column(s.failures, "resource_id"))
    BY <2>2, <2>3 DEF Elements, Column
  <2>5. PICK r \in Elements(s.resources) : r.resource_id = f.resource_id
    BY <2>4 DEF SummaryIsValid
  <2>6. r.state = "failed"
    BY <2>4, <2>5 DEF SummaryIsValid
  <2> QED
    BY <2>5, <2>6
<1> QED
  BY <1>1, <1>2

\* An unedited envelope is one that was built, a received one was valid; the
\* answer to succeeded is about the summary at hand.
SummaryInv ==
  /\ edited \in BOOLEAN
  /\ ~edited => envelope \in Built
  /\ at = "received" /\ ~edited => IsValid(envelope)
  /\ answer.call = "succeeded" =>
       /\ envelope.kind = "summary"
       /\ answer.success = (envelope.failures = <<>>)

LEMMA SummaryStep == SummaryInv /\ [Next]_vars => SummaryInv'
<1> SUFFICES ASSUME SummaryInv, [Next]_vars PROVE SummaryInv'
  OBVIOUS
<1>1. CASE Deserialize
  <2>1. /\ UNCHANGED <<envelope, edited>> /\ answer'.call = "none"
        /\ at' = "received" => IsValid(envelope)
    BY <1>1 DEF Deserialize, NoAnswer
  <2>2. IsValid(envelope)' <=> IsValid(envelope)
    <3>1. envelope' = envelope
      BY <2>1
    <3> QED
      BY <3>1 DEF IsValid
  <2> QED
    BY <2>1, <2>2 DEF SummaryInv
<1>2. ASSUME NEW f \in Fields, f.kind = envelope.kind, Assign(f.field, f.new)
      PROVE  SummaryInv'
  <2>1. edited' = TRUE /\ answer'.call = "none"
    BY <1>2 DEF Assign, NoAnswer
  <2> QED
    BY <2>1 DEF SummaryInv
<1>3. ASSUME NEW route \in Routes, Decide(route)
      PROVE  SummaryInv'
  <2>1. UNCHANGED <<envelope, at, edited>> /\ answer'.call = "decide"
    BY <1>3 DEF Decide
  <2>2. IsValid(envelope)' <=> IsValid(envelope)
    BY <2>1 DEF IsValid
  <2> QED
    BY <2>1, <2>2 DEF SummaryInv
<1>4. CASE Succeeded
  <2>1. /\ UNCHANGED <<envelope, at, edited>>
        /\ envelope.kind = "summary"
        /\ answer'.success = (envelope.failures = <<>>)
    BY <1>4 DEF Succeeded
  <2>2. IsValid(envelope)' <=> IsValid(envelope)
    BY <2>1 DEF IsValid
  <2> QED
    BY <2>1, <2>2 DEF SummaryInv
<1>5. CASE UNCHANGED vars
  <2>1. UNCHANGED <<envelope, at, edited, answer>>
    BY <1>5 DEF vars
  <2>2. IsValid(envelope)' <=> IsValid(envelope)
    BY <2>1 DEF IsValid
  <2> QED
    BY <2>1, <2>2 DEF SummaryInv
<1> QED
  BY <1>1, <1>2, <1>3, <1>4, <1>5 DEF Next

LEMMA SummaryAccounts == SummaryInv => ReceivedSummaryAccounts
<1> SUFFICES ASSUME SummaryInv, answer.call = "succeeded", at = "received", ~edited
             PROVE  ReceivedSummaryAccounts
  BY DEF ReceivedSummaryAccounts
<1>1. PICK s : s = envelope
  OBVIOUS
<1>2. s \in Summary /\ SummaryIsValid(s) /\ answer.success = (s.failures = <<>>)
  BY <1>1, TypesAssumption DEF SummaryInv, IsValid
<1>3. s.resources \in Seq(Resource) /\ s.expected_workers \in Usize /\ s.joined_workers \in Usize
  BY <1>2 DEF Summary
<1>4. /\ s.expected_workers = Workers(s.resources, "expected_workers")
      /\ s.joined_workers = Workers(s.resources, "joined_workers")
  <2>1. /\ s.expected_workers = Total(s.resources, "expected_workers")
        /\ s.joined_workers = Total(s.resources, "joined_workers")
    BY <1>2 DEF SummaryIsValid
  <2> QED
    BY <1>3, <2>1, TotalCounts
<1>5. s.failures = <<>> => s.joined_workers = s.expected_workers
  BY <1>2 DEF SummaryIsValid
<1>6. Cardinality({r.resource_id : r \in Elements(s.resources)}) = Len(s.resources)
  <2>1. IsUnique(Column(s.resources, "resource_id"))
    BY <1>2 DEF SummaryIsValid
  <2> QED
    BY <1>3, <2>1, UniqueIds
<1>7. answer.success <=> {r \in Elements(s.resources) : r.state # "stopped"} = {}
  BY <1>2, SuccessIsNoLoss
<1>8. {<<f.resource_id, f.service>> : f \in Elements(s.failures)}
        = {<<r.resource_id, r.service>> :
             r \in {r \in Elements(s.resources) : r.state # "stopped"}}
  BY <1>2, BlameIsExact
<1>9. answer.success => s.joined_workers = s.expected_workers
  BY <1>2, <1>5
<1> QED
  BY <1>1, <1>4, <1>6, <1>7, <1>8, <1>9 DEF ReceivedSummaryAccounts

\* A ShutdownSummaryV0 received as it was written accounts for every worker of
\* every resource, however many there are of either, up to what a usize counts.
THEOREM ReceivedSummaryAccountsHolds == Spec => []ReceivedSummaryAccounts
<1>1. Init => SummaryInv
  <2>1. Init => answer.call = "none"
    BY DEF Init, NoAnswer
  <2> QED
    BY <2>1 DEF Init, SummaryInv
<1> QED
  BY <1>1, SummaryStep, SummaryAccounts, PTL DEF Spec
=============================================================================
