----------------------------- MODULE SuiteScripts -----------------------------
(***************************************************************************)
(* How LifecycleSuite and BridgeSuites write a conformance suite down: as  *)
(* the steps of its main thread and of the two racers some suites spawn.   *)
(* A step names what it does, what it is done to (the id a reservation     *)
(* takes, the number of an attempt or of a shutdown) and what the suite    *)
(* expects: that the call succeeds, that it is refused, that it returns in *)
(* the end, nothing in particular, or that a claim about the getters holds.*)
(***************************************************************************)
EXTENDS Sequences, Integers

Sequence == INSTANCE SequencesExt

CONSTANT Suites  \* the suites by name: the scripts of the three threads of each

VARIABLES
  suite,   \* the name of the suite this behaviour plays
  pc,      \* of each thread: the index of its next step
  got,     \* of each racer: how its last attempted call ended
  failed   \* an expect or an assert of the suite has failed

suiteVars == <<suite, pc, got, failed>>

Racers == {"left", "right"}
Threads == {"main"} \cup Racers

Step(verb, of, expect) == << [verb |-> verb, of |-> of, expect |-> expect] >>
Expect(verb, of) == Step(verb, of, "ok")
Refused(verb, of) == Step(verb, of, "err")
Attempt(verb, of) == Step(verb, of, "either")
Await(verb, of) == Step(verb, of, "returns")
Assert(claim, of) == Step(claim, of, "claim")
Keep(what, of) == Step(what, of, "keep")
RefusedAll(verbs, of) == Sequence!FlattenSeq([i \in DOMAIN verbs |-> Refused(verbs[i], of)])
Times(count, Steps(_)) == Sequence!FlattenSeq([i \in 1 .. count |-> Steps(i)])

\* The race step of main stands for the spawning of both racers, the barrier
\* that lets them go together, and their joins.
Alone(main) == [main |-> main, left |-> << >>, right |-> << >>]
Race(before, left, right, after) ==
  [main |-> before \o Step("race", 0, "race") \o after, left |-> left, right |-> right]

-----------------------------------------------------------------------------

SuiteStart ==
  /\ suite \in DOMAIN Suites
  /\ pc = [t \in Threads |-> 1]
  /\ got = [t \in Racers |-> "nothing"]
  /\ failed = FALSE

Script(t) == Suites[suite][t]
ScriptEnded(t) == pc[t] > Len(Script(t))
Current(t) == Script(t)[pc[t]]

\* Racers run while main is at its race step, and main leaves it when both ended.
Runs(t, expectations) ==
  /\ ~ScriptEnded(t)
  /\ Current(t).expect \in expectations
  /\ t \in Racers => ~ScriptEnded("main") /\ Current("main").verb = "race"

GoesOn(t) == pc' = [pc EXCEPT ![t] = @ + 1]

JoinsRacers ==
  /\ Runs("main", {"race"})
  /\ \A t \in Racers : ScriptEnded(t)
  /\ GoesOn("main")
  /\ UNCHANGED <<suite, got, failed>>

\* A call that returns Ok or Err, as accepted says; where either will do, an Err
\* is the thread's last answer.
Answered(t, accepted) ==
  LET answer == IF accepted THEN "ok" ELSE "err"
      either == Current(t).expect = "either"
  IN
  /\ Runs(t, {"ok", "err", "either"})
  /\ IF either /\ ~accepted THEN pc' = [pc EXCEPT ![t] = Len(Script(t)) + 1] ELSE GoesOn(t)
  /\ got' = IF either THEN [got EXCEPT ![t] = answer] ELSE got
  /\ failed' = (failed \/ (~either /\ Current(t).expect # answer))
  /\ UNCHANGED suite

\* A call that returns when it can, and an assertion.
Returned(t) == Runs(t, {"returns"}) /\ GoesOn(t) /\ UNCHANGED <<suite, got, failed>>
Asserted(t, holds) ==
  Runs(t, {"claim"}) /\ GoesOn(t) /\ failed' = (failed \/ ~holds) /\ UNCHANGED <<suite, got>>

=============================================================================
