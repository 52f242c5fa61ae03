-------------------------- MODULE LifecycleContract --------------------------
(***************************************************************************)
(* What an owner of operations promises, whatever its threads and locks    *)
(* look like: attempts are admitted only while it runs, each admitted      *)
(* attempt settles on exactly one outcome and is then joined, and the      *)
(* owner closes only when every attempt it ever admitted has been joined.  *)
(* OperationSupervisor and SupervisorBridge are both checked against it.   *)
(***************************************************************************)

CONSTANTS
  Attempts,   \* identities of attempts, never reused
  Outcomes,   \* terminal classes
  Undecided   \* the outcome of an attempt that has not settled, not an outcome

VARIABLES
  stage,      \* "Running", "Quiescing" or "Closed"
  standing,   \* of each attempt: "unknown", "owned", "settled" or "joined"
  outcome     \* of each attempt, Undecided until it settles

vars == <<stage, standing, outcome>>

Init ==
  /\ stage = "Running"
  /\ standing = [a \in Attempts |-> "unknown"]
  /\ outcome = [a \in Attempts |-> Undecided]

Admit(a) ==
  /\ stage = "Running"
  /\ standing[a] = "unknown"
  /\ standing' = [standing EXCEPT ![a] = "owned"]
  /\ UNCHANGED <<stage, outcome>>

Settle(a) ==
  /\ standing[a] = "owned"
  /\ standing' = [standing EXCEPT ![a] = "settled"]
  /\ \E o \in Outcomes : outcome' = [outcome EXCEPT ![a] = o]
  /\ UNCHANGED stage

Join(a) ==
  /\ standing[a] = "settled"
  /\ standing' = [standing EXCEPT ![a] = "joined"]
  /\ UNCHANGED <<stage, outcome>>

Quiesce ==
  /\ stage = "Running"
  /\ stage' = "Quiescing"
  /\ UNCHANGED <<standing, outcome>>

Close ==
  /\ stage = "Quiescing"
  /\ \A a \in Attempts : standing[a] \in {"unknown", "joined"}
  /\ stage' = "Closed"
  /\ UNCHANGED <<standing, outcome>>

Next ==
  \/ \E a \in Attempts : Admit(a) \/ Settle(a) \/ Join(a)
  \/ Quiesce
  \/ Close

Spec == Init /\ [][Next]_vars

=============================================================================
