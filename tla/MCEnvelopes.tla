----------------------------- MODULE MCEnvelopes -----------------------------
(***************************************************************************)
(* Summaries of up to two resources of up to two workers, which three are  *)
(* already too many of for a usize, with up to two failures; policies with *)
(* up to two providers and two tiers, repeated or unknown ones included.   *)
(***************************************************************************)
EXTENDS Envelopes

UpToTwo(S) == {<<>>} \cup {<<x>> : x \in S} \cup {<<x, y>> : x, y \in S}

Resources == [resource_id : {"tasks", "pool"}, service : {"host"},
              state : {"stopped", "failed"}, expected_workers : 0 .. 2, joined_workers : 0 .. 2]
Failures == [failure_id : {"f1", "f2"}, resource_id : {"tasks", "pool"},
             service : {"host"}, error_service : {"host"}]
            \cup [failure_id : {"f1"}, resource_id : {"tasks"},
                  service : {"host", "peer"}, error_service : {"peer"}]
Orders == {rs \in UpToTwo(Resources) :
             \A i \in DOMAIN rs : rs[i].resource_id = "pool" => i = 2 /\ Len(rs) = 2}

\* Totals that are right, off by one, or what a sum that wraps would give.
Sum(rs, field) == IF rs = <<>> THEN 0
                  ELSE IF Len(rs) = 1 THEN rs[1][field] ELSE rs[1][field] + rs[2][field]
Totals(rs, field) == {Sum(rs, field) % 3} \cup ({Sum(rs, field) + 1} \cap 0 .. 2)

Summaries ==
  UNION {[kind : {"summary"}, phase : {"closed"}, active_operations : {0},
          retained_tasks : {0}, expected_workers : Totals(rs, "expected_workers"),
          joined_workers : Totals(rs, "joined_workers"), resources : {rs},
          failures : UpToTwo(Failures)] : rs \in Orders}
Unquiet == {[kind |-> "summary", phase |-> p, active_operations |-> a, retained_tasks |-> 1 - a,
             expected_workers |-> 0, joined_workers |-> 0, resources |-> <<>>,
             failures |-> <<>>] : p \in {"quiescing", "closed"}, a \in 0 .. 1}

Policies == [kind : {"policy"}, network : {"deny", "allow_listed", "allow_hosted"},
             data_handling : {"local_only", "hosted_allowed"},
             allowed_provider_ids : UpToTwo({"p", "q"}),
             allowed_hosted_data_tiers : UpToTwo({"public", "private", "unknown"}),
             payload_redaction : {"local_only", "required_before_egress"}]

MCBuilt == Summaries \cup Unquiet \cup Policies

Assigns(kind, field, news) == {[kind |-> kind, field |-> field, new |-> new] : new \in news}
MCFields ==
  Assigns("policy", "network", {"deny", "allow_listed", "allow_hosted"})
  \cup Assigns("policy", "data_handling", {"local_only", "hosted_allowed"})
  \cup Assigns("policy", "allowed_provider_ids", {<<>>, <<"p">>, <<"q", "q">>})
  \cup Assigns("policy", "allowed_hosted_data_tiers", {<<>>, <<"public">>, <<"unknown">>})
  \cup Assigns("policy", "payload_redaction", {"local_only", "required_before_egress"})
  \cup Assigns("summary", "failures", {<<>>})
  \cup Assigns("summary", "joined_workers", {0})

MCRoutes == [target : {"local", "unknown", "hosted"}, provider_id : {"p", "q"},
             data_tier : {"public", "private", "unknown"},
             redaction : {"applied", "not_applied", "unknown"}]
=============================================================================
