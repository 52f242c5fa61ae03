------------------------------ MODULE Publication ------------------------------
(***************************************************************************)
(* run_publication_model over the reference adapter (publication_suite.rs) *)
(* with its fault script (fault.rs).  Every publisher drives an adapter of *)
(* its own: one action is one adapter call, with what the run does between *)
(* that call and the next.  The destination is shared: with one publisher  *)
(* this is ReferencePublicationAdapter, with several it is what the trait  *)
(* asks of product adapters, whose no-clobber step exists for the others.  *)
(* What the sync calls achieve is kept in the two durability variables.    *)
(***************************************************************************)
EXTENDS Naturals, Sequences

CONSTANTS
  Publishers,
  Contents,     \* digest and length: what same_content compares
  Corrupted,    \* the content of a stage corrupted before verification
  InjectLimit,  \* bound on the calls of inject_fault
  None

ASSUME ContentsAssumption ==
  None \notin Contents \cup Publishers /\ Corrupted \notin Contents \cup {None}
ASSUME InjectAssumption == InjectLimit \in Nat

\* The points at which a publication adapter consults its script.
FaultPoints ==
  {"CorruptStagedBeforeVerification", "BeforeFileSync", "BeforeVisibility",
   "AfterNoClobberVisibility", "BeforeVisibleFileSync", "BeforeParentSync",
   "AfterVisibilityBeforeParentSync"}

VARIABLES
  request,        \* of each publisher: the content it publishes
  visible,        \* the content at the destination
  visibleBy,      \* the publisher that made it visible
  fileSynced,     \* whether the visible file is known to be on disk
  parentSynced,   \* whether its directory entry is
  script,         \* of each publisher's adapter: the FaultScript
  injections,     \* how many faults have been injected
  pc,             \* of each publisher: the adapter call its run makes next
  stage,          \* of each publisher: its staged artifact
  outcome         \* of each publisher: what its last run returned

destination == <<visible, visibleBy, fileSynced, parentSynced>>
vars == <<request, destination, script, injections, pc, stage, outcome>>

NoStage == [content |-> None, synced |-> FALSE]
NoOutcome == [kind |-> "none"]

NotPublished(code) == [kind |-> "NotPublished", error |-> code]
Published(recovery) ==
  [kind |-> "Published", file |-> TRUE, directory |-> TRUE, recovery |-> recovery]
DurabilityUnknown(recovery, file) ==
  [kind |-> "DurabilityUnknown", file |-> file, directory |-> FALSE, recovery |-> recovery,
   error |-> "durability_unknown"]

Outcomes ==
  {NoOutcome} \cup {NotPublished(e) : e \in {"conflict", "mismatch", "not_visible"}}
    \cup {Published(r) : r \in BOOLEAN}
    \cup {DurabilityUnknown(r, f) : r \in BOOLEAN, f \in BOOLEAN}

TypeOK ==
  /\ request \in [Publishers -> Contents]
  /\ visible \in Contents \cup {None}
  /\ visibleBy \in Publishers \cup {None}
  /\ fileSynced \in BOOLEAN /\ parentSynced \in BOOLEAN
  /\ script \in [Publishers -> {<< >>} \cup {<<f>> : f \in FaultPoints}]
  /\ injections \in 0 .. InjectLimit
  /\ pc \in [Publishers ->
       {"idle", "syncVisible", "syncParentAgain", "create", "verify", "syncStaged", "publish",
        "inspectFailed", "inspectPublished", "syncParent"}]
  /\ stage \in [Publishers ->
       [content : Contents \cup {Corrupted, None}, synced : BOOLEAN]]
  /\ outcome \in [Publishers -> Outcomes]

\* seed_visible: an earlier run, of anyone, may have left something visible of
\* which nobody knows whether it is on disk.
Init ==
  /\ request \in [Publishers -> Contents]
  /\ visible \in Contents \cup {None}
  /\ visibleBy = None
  /\ fileSynced = FALSE /\ parentSynced = FALSE
  /\ script = [p \in Publishers |-> << >>]
  /\ injections = 0
  /\ pc = [p \in Publishers |-> "idle"]
  /\ stage = [p \in Publishers |-> NoStage]
  /\ outcome = [p \in Publishers |-> NoOutcome]

-----------------------------------------------------------------------------
(* The fault script: only its first point can be hit, and is then gone.    *)

AtFront(p, point) == script[p] # << >> /\ Head(script[p]) = point

Hit(p, point) == AtFront(p, point) /\ script' = [script EXCEPT ![p] = Tail(@)]
Miss(p, point) == ~AtFront(p, point) /\ UNCHANGED script

\* inject_fault replaces the script, whatever was left of it.
Injected(left, point) == <<point>>

InjectFault(p, point) ==
  /\ pc[p] = "idle"
  /\ injections < InjectLimit
  /\ injections' = injections + 1
  /\ script' = [script EXCEPT ![p] = Injected(@, point)]
  /\ UNCHANGED <<request, destination, pc, stage, outcome>>

Goto(p, label) == pc' = [pc EXCEPT ![p] = label]

Return(p, result) ==
  /\ Goto(p, "idle")
  /\ outcome' = [outcome EXCEPT ![p] = result]

Continue(p, label) == Goto(p, label) /\ UNCHANGED outcome

Cleanup(p) == stage' = [stage EXCEPT ![p] = NoStage]

-----------------------------------------------------------------------------
(* A run that finds something at the destination                           *)

\* Mutant: whatever is visible is a conflict.
BeginConflicting(p) ==
  /\ pc[p] = "idle"
  /\ \/ visible = None /\ Continue(p, "create")
     \/ visible # None /\ Return(p, NotPublished("conflict"))
  /\ UNCHANGED <<request, destination, script, injections, stage>>

\* The first inspect_visible decides between a conflict, recovery and staging.
Begin(p) ==
  /\ pc[p] = "idle"
  /\ \/ visible = None /\ Continue(p, "create")
     \/ visible = request[p] /\ Continue(p, "syncVisible")
     \/ visible \notin {None, request[p]} /\ Return(p, NotPublished("conflict"))
  /\ UNCHANGED <<request, destination, script, injections, stage>>

SyncVisibleFile(p) ==
  /\ pc[p] = "syncVisible"
  /\ \/ /\ Hit(p, "BeforeVisibleFileSync")
        /\ Return(p, DurabilityUnknown(TRUE, FALSE))
        /\ UNCHANGED fileSynced
     \/ /\ Miss(p, "BeforeVisibleFileSync")
        /\ Continue(p, "syncParentAgain")
        /\ fileSynced' = TRUE
  /\ UNCHANGED <<request, visible, visibleBy, parentSynced, injections, stage>>

\* sync_parent_directory consults two points, one after the other.
ParentSyncFails(p) ==
  Hit(p, "BeforeParentSync") \/ Hit(p, "AfterVisibilityBeforeParentSync")
ParentSyncs(p) ==
  Miss(p, "BeforeParentSync") /\ Miss(p, "AfterVisibilityBeforeParentSync")

SyncParentAgain(p) ==
  /\ pc[p] = "syncParentAgain"
  /\ \/ /\ ParentSyncFails(p)
        /\ Return(p, DurabilityUnknown(TRUE, TRUE))
        /\ UNCHANGED parentSynced
     \/ /\ ParentSyncs(p)
        /\ Return(p, Published(TRUE))
        /\ parentSynced' = TRUE
  /\ UNCHANGED <<request, visible, visibleBy, fileSynced, injections, stage>>

-----------------------------------------------------------------------------
(* A run that stages, verifies, syncs, publishes and syncs the parent      *)

CreateStage(p) ==
  /\ pc[p] = "create"
  /\ stage' = [stage EXCEPT ![p] = [content |-> request[p], synced |-> FALSE]]
  /\ Continue(p, "verify")
  /\ UNCHANGED <<request, destination, script, injections>>

\* Mutant: the stage of a failed verification is left behind.
LeaveStage(p) == UNCHANGED stage

\* cleanup on the two early error returns.
Discard(p) == Cleanup(p)

\* Mutant: the staged content is not compared.
MatchesAnything(staged, expected) == TRUE

SameContent(staged, expected) == staged = expected

\* The corruption, when it is scripted, happens before the comparison.
VerifyExact(p) ==
  LET corrupted == AtFront(p, "CorruptStagedBeforeVerification")
      staged == IF corrupted THEN Corrupted ELSE stage[p].content
  IN
  /\ pc[p] = "verify"
  /\ script' = IF corrupted THEN [script EXCEPT ![p] = Tail(@)] ELSE script
  /\ \/ /\ SameContent(staged, request[p])
        /\ stage' = [stage EXCEPT ![p].content = staged]
        /\ Continue(p, "syncStaged")
     \/ /\ ~SameContent(staged, request[p])
        /\ Discard(p)
        /\ Return(p, NotPublished("mismatch"))
  /\ UNCHANGED <<request, destination, injections>>

SyncStagedFile(p) ==
  /\ pc[p] = "syncStaged"
  /\ \/ /\ Hit(p, "BeforeFileSync")
        /\ Discard(p)
        /\ Return(p, NotPublished("not_visible"))
     \/ /\ Miss(p, "BeforeFileSync")
        /\ stage' = [stage EXCEPT ![p] = [content |-> @.content, synced |-> TRUE]]
        /\ Continue(p, "publish")
  /\ UNCHANGED <<request, destination, injections>>

\* Mutant: publication replaces what it finds.
RefusedUnlessSynced(p) == ~stage[p].synced

\* FileNotSynced and DestinationConflict.
Refused(p) == ~stage[p].synced \/ visible # None

MakeVisible(p) ==
  /\ visible' = stage[p].content
  /\ visibleBy' = p
  /\ fileSynced' = stage[p].synced
  /\ parentSynced' = FALSE

PublishNoClobber(p) ==
  /\ pc[p] = "publish"
  /\ \/ /\ Refused(p)
        /\ Continue(p, "inspectFailed")
        /\ UNCHANGED <<script, destination>>
     \/ /\ ~Refused(p)
        /\ Hit(p, "BeforeVisibility")
        /\ Continue(p, "inspectFailed")
        /\ UNCHANGED destination
     \/ /\ ~Refused(p)
        /\ ~AtFront(p, "BeforeVisibility")
        /\ MakeVisible(p)
        /\ \/ Hit(p, "AfterNoClobberVisibility") /\ Continue(p, "inspectFailed")
           \/ Miss(p, "AfterNoClobberVisibility") /\ Continue(p, "inspectPublished")
  /\ UNCHANGED <<request, injections, stage>>

\* Mutant: an error of the publication step is taken at its word.
AfterFailureTrusting(p) == NotPublished("not_visible")

\* What a failed publication turns out to be, by what is visible now.
AfterFailure(p) ==
  IF visible = None THEN NotPublished("not_visible")
  ELSE IF visible = request[p] THEN DurabilityUnknown(FALSE, TRUE)
  ELSE NotPublished("conflict")

InspectFailed(p) ==
  /\ pc[p] = "inspectFailed"
  /\ Cleanup(p)
  /\ Return(p, AfterFailure(p))
  /\ UNCHANGED <<request, destination, script, injections>>

\* The run asserts that what it published is there; see VisibleIsVerified.
InspectPublished(p) ==
  /\ pc[p] = "inspectPublished"
  /\ visible = request[p]
  /\ Continue(p, "syncParent")
  /\ UNCHANGED <<request, destination, script, injections, stage>>

SyncParent(p) ==
  /\ pc[p] = "syncParent"
  /\ Cleanup(p)
  /\ \/ /\ ParentSyncFails(p)
        /\ Return(p, DurabilityUnknown(FALSE, TRUE))
        /\ UNCHANGED parentSynced
     \/ /\ ParentSyncs(p)
        /\ Return(p, Published(FALSE))
        /\ parentSynced' = TRUE
  /\ UNCHANGED <<request, visible, visibleBy, fileSynced, injections>>

-----------------------------------------------------------------------------

RunStep(p) ==
  \/ Begin(p)
  \/ SyncVisibleFile(p)
  \/ SyncParentAgain(p)
  \/ CreateStage(p)
  \/ VerifyExact(p)
  \/ SyncStagedFile(p)
  \/ PublishNoClobber(p)
  \/ InspectFailed(p)
  \/ InspectPublished(p)
  \/ SyncParent(p)

Next ==
  \E p \in Publishers :
    \/ RunStep(p)
    \/ \E point \in FaultPoints : InjectFault(p, point)

Spec == Init /\ [][Next]_vars

\* Adapter calls return, and publishers run again and again, as the recovery
\* cases of assert_publication_model and the advice AfterRestart have it.
FairSpec == Spec /\ \A p \in Publishers : WF_vars(RunStep(p))

-----------------------------------------------------------------------------
(* Properties *)

\* What a run returned is the truth about the destination, then and for ever:
\* Published means the exact content is visible and on disk, its file and its
\* directory; an unknown durability means it is visible and claims a file sync
\* only where there was one, though the file may be another publisher's; and
\* NotPublished means this publisher made nothing visible, though the error of
\* the publication step may have come after the visibility.
OutcomesAreTrue ==
  \A p \in Publishers : pc[p] = "idle" =>
    LET o == outcome[p] IN
    /\ o.kind = "Published" => visible = request[p] /\ fileSynced /\ parentSynced
    /\ o.kind = "DurabilityUnknown" => visible = request[p] /\ (o.file => fileSynced)
    /\ o.kind = "NotPublished" =>
         /\ visibleBy # p
         /\ o.error = "conflict" => visible \notin {None, request[p]}

\* Whoever publishes, the destination never shows content that was not verified
\* against the publisher's request and synced before: in particular a run that
\* published finds its own content there, as it asserts.
VisibleIsVerified ==
  /\ \A p \in Publishers : visibleBy = p => visible = request[p] /\ fileSynced
  /\ \A p \in Publishers : pc[p] = "inspectPublished" => visibleBy = p

\* Every run, however it ends, removes the stage it created.
StagesAreCleaned == \A p \in Publishers : pc[p] = "idle" => stage[p] = NoStage

\* What is visible is never replaced, by a publisher that raced for the
\* destination or by one that came later.
NoClobber == [][visible # None => UNCHANGED <<visible, visibleBy>>]_vars

\* Once a publisher's content is visible, durable or not and whoever made it so,
\* running again ends in Published: unknown durability does not last longer
\* than the faults do.
RecoveryConverges ==
  \A p \in Publishers : visible = request[p] ~> outcome[p].kind = "Published"

=============================================================================
