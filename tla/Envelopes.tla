------------------------------ MODULE Envelopes ------------------------------
(***************************************************************************)
(* The two envelopes of platform-contracts-v0 that others act upon: the    *)
(* summary of a shutdown and the privacy policy.  Their fields are public: *)
(* a producer writes any value and serializes it unchecked; deserialization*)
(* validates, and refuses; whoever holds one may still assign any field,   *)
(* and asks a policy to decide or a summary whether it succeeded.          *)
(* Identifiers and errors are well formed.                                 *)
(***************************************************************************)
EXTENDS Integers, Sequences, FiniteSets

CONSTANTS
  Built,      \* the envelopes producers write
  Fields,     \* the assignments receivers make: of an envelope, a field and its new value
  Routes,     \* the routes they ask a policy about
  Providers,  \* the providers a policy may name
  MaxUsize    \* the largest number a usize holds

\* What the fields of a policy may hold (privacy.rs); its schema has one value,
\* and how it logs decides nothing.
PolicyFields ==
  [network |-> {"deny", "allow_listed", "allow_hosted"},
   data_handling |-> {"local_only", "hosted_allowed"},
   allowed_provider_ids |-> Seq(Providers),
   allowed_hosted_data_tiers |-> Seq({"public", "private", "restricted", "unknown"}),
   payload_redaction |-> {"local_only", "required_before_egress"}]
Policy ==
  [kind : {"policy"}, network : PolicyFields.network, data_handling : PolicyFields.data_handling,
   allowed_provider_ids : PolicyFields.allowed_provider_ids,
   allowed_hosted_data_tiers : PolicyFields.allowed_hosted_data_tiers,
   payload_redaction : PolicyFields.payload_redaction]

\* A summary (shutdown.rs); the kinds of its resources are not told apart.
Usize == 0 .. MaxUsize
Resource == [resource_id : STRING, service : STRING, state : {"stopped", "failed"},
             expected_workers : Usize, joined_workers : Usize]
Failure == [failure_id : STRING, resource_id : STRING, service : STRING,
            error_service : STRING]
Summary ==
  [kind : {"summary"}, phase : STRING, active_operations : Usize, retained_tasks : Usize,
   expected_workers : Usize, joined_workers : Usize, resources : Seq(Resource),
   failures : Seq(Failure)]

ASSUME MaxUsizeAssumption == MaxUsize \in Nat
\* The language checks the type of what is written and assigned.
ASSUME TypesAssumption ==
  /\ \A e \in Built : "kind" \in DOMAIN e
  /\ \A e \in Built : e.kind = "policy" => e \in Policy
  /\ \A e \in Built : e.kind = "summary" => e \in Summary
  /\ \A f \in Fields : f.field # "kind"
  /\ \A f \in Fields : f.kind = "policy" =>
       f.field \in DOMAIN PolicyFields /\ f.new \in PolicyFields[f.field]

VARIABLES
  envelope,  \* the envelope
  at,        \* "built", "received" or "refused"
  edited,    \* a field was assigned since
  answer     \* what the last call said of it

vars == <<envelope, at, edited, answer>>

NoAnswer == [call |-> "none"]

Init == envelope \in Built /\ at = "built" /\ edited = FALSE /\ answer = NoAnswer

Elements(seq) == {seq[i] : i \in DOMAIN seq}
IsUnique(seq) == \A i, j \in DOMAIN seq : seq[i] = seq[j] => i = j
Column(seq, field) == [i \in DOMAIN seq |-> seq[i][field]]

-----------------------------------------------------------------------------
(* Shutdown accounting (shutdown.rs).                                        *)

ResourceIsValid(resource) ==
  /\ resource.joined_workers <= resource.expected_workers
  /\ resource.state = "stopped" => resource.joined_workers = resource.expected_workers

FailureIsValid(failure) == failure.error_service = failure.service

Overflow == -1

\* Mutant: the sum wraps.
WrappingAdd(count, sum) == (sum + count) % (MaxUsize + 1)

\* usize::checked_add; an overflow is an error from there on.
CheckedAdd(count, sum) ==
  IF sum = Overflow \/ sum + count > MaxUsize THEN Overflow ELSE sum + count

\* The sum of a column, as the loop over the resources adds it up.
Total(resources, field) ==
  LET sum[n \in 0 .. Len(resources)] ==
        IF n = 0 THEN 0 ELSE CheckedAdd(resources[n][field], sum[n - 1])
  IN  sum[Len(resources)]

SummaryIsValid(summary) ==
  LET resources == summary.resources
      failures == summary.failures
      failed == Elements(Column(failures, "resource_id"))
  IN
  /\ summary.phase = "closed"
  /\ summary.active_operations = 0
  /\ summary.retained_tasks = 0
  /\ resources # <<>>
  /\ \A resource \in Elements(resources) : ResourceIsValid(resource)
  /\ IsUnique(Column(resources, "resource_id"))
  /\ summary.expected_workers = Total(resources, "expected_workers")
  /\ summary.joined_workers = Total(resources, "joined_workers")
  /\ \A failure \in Elements(failures) : FailureIsValid(failure)
  /\ IsUnique(Column(failures, "failure_id"))
  /\ \A failure \in Elements(failures) : \E resource \in Elements(resources) :
       resource.resource_id = failure.resource_id /\ resource.service = failure.service
  /\ \A resource \in Elements(resources) :
       (resource.state = "failed") = (resource.resource_id \in failed)
  /\ failures = <<>> =>
       /\ summary.joined_workers = summary.expected_workers
       /\ \A resource \in Elements(resources) : resource.state = "stopped"

-----------------------------------------------------------------------------
(* Privacy (privacy.rs).                                                     *)

PolicyIsValid(policy) ==
  /\ IsUnique(policy.allowed_provider_ids)
  /\ IsUnique(policy.allowed_hosted_data_tiers)
  /\ "unknown" \notin Elements(policy.allowed_hosted_data_tiers)
  /\ IF policy.data_handling = "local_only"
     THEN /\ policy.network = "deny"
          /\ policy.allowed_provider_ids = <<>>
          /\ policy.allowed_hosted_data_tiers = <<>>
          /\ policy.payload_redaction = "local_only"
     ELSE /\ policy.network # "deny"
          /\ policy.allowed_hosted_data_tiers # <<>>
          /\ policy.payload_redaction = "required_before_egress"
          /\ (policy.network = "allow_hosted") = (policy.allowed_provider_ids = <<>>)

\* The policy is consistent and the route is to a host.
HostedDecision(policy, route) ==
  IF policy.data_handling = "local_only" THEN "local only boundary"
  ELSE IF policy.network = "deny" THEN "network denied"
  ELSE IF /\ policy.network = "allow_listed"
          /\ route.provider_id \notin Elements(policy.allowed_provider_ids)
       THEN "provider not allowed"
  ELSE IF route.data_tier \notin Elements(policy.allowed_hosted_data_tiers)
       THEN "data tier not allowed"
  ELSE IF route.redaction = "applied" THEN "allowed"
  ELSE IF route.redaction = "not_applied" THEN "redaction required"
  ELSE "unknown redaction state"

\* Mutant: a policy that was validated when it arrived is not validated again.
DecisionOnTrust(policy, route) ==
  IF route.data_tier = "unknown" THEN "unknown data tier"
  ELSE IF route.target = "hosted" THEN HostedDecision(policy, route)
  ELSE IF route.target = "local" THEN "allowed"
  ELSE "unknown route"

\* PrivacyPolicyV0::decide.
Decision(policy, route) ==
  IF ~PolicyIsValid(policy) THEN "invalid policy"
  ELSE IF route.data_tier = "unknown" THEN "unknown data tier"
  ELSE IF route.target = "hosted" THEN HostedDecision(policy, route)
  ELSE IF route.target = "local" THEN "allowed"
  ELSE "unknown route"

-----------------------------------------------------------------------------

IsValid(e) == IF e.kind = "summary" THEN SummaryIsValid(e) ELSE PolicyIsValid(e)

Deserialize ==
  /\ at = "built"
  /\ at' = IF IsValid(envelope) THEN "received" ELSE "refused"
  /\ answer' = NoAnswer
  /\ UNCHANGED <<envelope, edited>>

Assign(field, new) ==
  /\ at = "received"
  /\ field \in DOMAIN envelope
  /\ envelope' = [envelope EXCEPT ![field] = new]
  /\ edited' = TRUE
  /\ answer' = NoAnswer
  /\ UNCHANGED at

Decide(route) ==
  /\ envelope.kind = "policy"
  /\ at # "refused"
  /\ answer' = [call |-> "decide", route |-> route, decision |-> Decision(envelope, route)]
  /\ UNCHANGED <<envelope, at, edited>>

Succeeded ==
  /\ envelope.kind = "summary"
  /\ at # "refused"
  /\ answer' = [call |-> "succeeded", success |-> envelope.failures = <<>>]
  /\ UNCHANGED <<envelope, at, edited>>

Next == \/ Deserialize
        \/ \E f \in Fields : f.kind = envelope.kind /\ Assign(f.field, f.new)
        \/ \E route \in Routes : Decide(route)
        \/ Succeeded

Spec == Init /\ [][Next]_vars

-----------------------------------------------------------------------------
(* Properties.                                                               *)

\* What leaves the machine: only what the policy consents to as it is then.
\* However it was made or edited, a policy lets data go to a host only when it
\* handles data hosted, names the tier, names the provider or none at all where
\* it admits any, and the redaction it requires was applied.
HostedEgressIsConsented ==
  LET route == answer.route IN
  answer.call = "decide" /\ answer.decision = "allowed" /\ route.target # "local" =>
    /\ route.target = "hosted"
    /\ route.redaction = "applied"
    /\ envelope.payload_redaction = "required_before_egress"
    /\ envelope.data_handling = "hosted_allowed"
    /\ route.data_tier \in Elements(envelope.allowed_hosted_data_tiers) \ {"unknown"}
    /\ \/ /\ envelope.network = "allow_listed"
          /\ route.provider_id \in Elements(envelope.allowed_provider_ids)
       \/ envelope.network = "allow_hosted" /\ envelope.allowed_provider_ids = <<>>

\* The number of workers of the resources of s: one for each worker of each.
Workers(resources, field) ==
  Cardinality({w \in (DOMAIN resources) \X (1 .. MaxUsize) : w[2] <= resources[w[1]][field]})

\* A summary received as it was written says it succeeded exactly when every
\* resource it names stopped with all its workers joined, and its totals are
\* those of the resources; when it did not, each resource that failed is
\* accounted for by a failure of its own service and no other is.
ReceivedSummaryAccounts ==
  answer.call = "succeeded" /\ at = "received" /\ ~edited =>
    LET resources == envelope.resources
        lost == {r \in Elements(resources) : r.state # "stopped"}
        blamed == {<<f.resource_id, f.service>> : f \in Elements(envelope.failures)}
    IN
    /\ envelope.expected_workers = Workers(resources, "expected_workers")
    /\ envelope.joined_workers = Workers(resources, "joined_workers")
    /\ answer.success <=> lost = {}
    /\ answer.success => envelope.joined_workers = envelope.expected_workers
    /\ blamed = {<<r.resource_id, r.service>> : r \in lost}
    /\ Cardinality({r.resource_id : r \in Elements(resources)}) = Len(resources)
=============================================================================
