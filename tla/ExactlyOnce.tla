---- MODULE ExactlyOnce ----
(* What accepting a list of evidence promises (coverage.rs): of the items,   *)
(* handed over one after the other, every required one is taken exactly once *)
(* before anything is accepted, and a verdict is final.                      *)
EXTENDS Naturals

CONSTANT Required \* the names that must come exactly once

VARIABLES
  taken,  \* how often each required name was taken
  verdict \* "open" until the list is accepted or refused

vars == <<taken, verdict>>

Init == /\ taken = [x \in Required |-> 0]
        /\ verdict = "open"

Take(x) == /\ verdict = "open"
           /\ taken[x] = 0
           /\ taken' = [taken EXCEPT ![x] = 1]
           /\ UNCHANGED verdict

Accept == /\ verdict = "open"
          /\ \A x \in Required : taken[x] = 1
          /\ verdict' = "accepted"
          /\ UNCHANGED taken

Refuse == /\ verdict = "open"
          /\ verdict' = "refused"
          /\ UNCHANGED taken

Next == \/ \E x \in Required : Take(x)
        \/ Accept
        \/ Refuse

Spec == Init /\ [][Next]_vars
====
