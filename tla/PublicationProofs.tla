--------------------------- MODULE PublicationProofs ---------------------------
(***************************************************************************)
(* The safety of Publication for any publishers, contents and faults.  A   *)
(* run knows, at each adapter call, something about the destination that   *)
(* no other publisher can undo; RunInv says what, call by call.            *)
(***************************************************************************)
EXTENDS Publication, TLAPS

Pcs == {"idle", "syncVisible", "syncParentAgain", "create", "verify", "syncStaged", "publish",
        "inspectFailed", "inspectPublished", "syncParent"}
Stages == [content : Contents \cup {Corrupted, None}, synced : BOOLEAN]

\* What does not depend on a run.
DestinationInv ==
  /\ visible \in Contents \cup {None}
  /\ fileSynced \in BOOLEAN /\ parentSynced \in BOOLEAN
  /\ visibleBy \in Publishers \cup {None}
  /\ visible = None => visibleBy = None

\* The truth of the last outcome of p.
OutcomeTrue(p) ==
  LET o == outcome[p] IN
  /\ o.kind = "Published" => visible = request[p] /\ fileSynced /\ parentSynced
  /\ o.kind = "DurabilityUnknown" => visible = request[p] /\ (o.file => fileSynced)
  /\ o.kind = "NotPublished" =>
       /\ visibleBy # p
       /\ o.error = "conflict" => visible \notin {None, request[p]}

\* What p may rely on before each of its adapter calls.
RunInv(p) ==
  /\ visibleBy = p => visible = request[p] /\ fileSynced
  /\ pc[p] = "idle" => OutcomeTrue(p) /\ stage[p] = NoStage
  /\ pc[p] \in {"syncVisible", "syncParentAgain"} =>
       visible = request[p] /\ stage[p] = NoStage
  /\ pc[p] = "syncParentAgain" => fileSynced
  /\ pc[p] \in {"create", "verify", "syncStaged", "publish"} => visibleBy # p
  /\ pc[p] \in {"create", "verify", "syncStaged", "publish", "inspectFailed"} =>
       (visible # None => fileSynced)
  /\ pc[p] = "create" => stage[p] = NoStage
  /\ pc[p] \in {"verify", "syncStaged", "publish"} => stage[p].content = request[p]
  /\ pc[p] = "publish" => stage[p].synced
  /\ pc[p] \in {"inspectPublished", "syncParent"} => visibleBy = p

Inv ==
  /\ request \in [Publishers -> Contents]
  /\ pc \in [Publishers -> Pcs]
  /\ stage \in [Publishers -> Stages]
  /\ outcome \in [Publishers -> Outcomes]
  /\ DestinationInv
  /\ \A p \in Publishers : RunInv(p)

USE ContentsAssumption DEF Pcs

\* All that the step of a publisher may do to the destination.
DestinationStep(p) ==
  \/ /\ UNCHANGED <<visible, visibleBy>>
     /\ fileSynced' \in BOOLEAN /\ (fileSynced => fileSynced')
     /\ parentSynced' \in BOOLEAN /\ (parentSynced => parentSynced')
  \/ /\ visible = None /\ visible' = request[p]
     /\ visibleBy' = p /\ fileSynced' = TRUE /\ parentSynced' \in BOOLEAN

\* A publisher's step takes away nothing another publisher relies on.
LEMMA OthersKeep ==
  ASSUME Inv, NEW p \in Publishers, NEW q \in Publishers, q # p, DestinationStep(p),
         request' = request, pc'[q] = pc[q], stage'[q] = stage[q], outcome'[q] = outcome[q]
  PROVE  RunInv(q)'
<1>1. RunInv(q) /\ request[q] \in Contents /\ request[q] # None /\ DestinationInv
  BY DEF Inv
<1>2. CASE UNCHANGED <<visible, visibleBy>> /\ (fileSynced => fileSynced')
           /\ (parentSynced => parentSynced')
  BY <1>1, <1>2 DEF RunInv, OutcomeTrue
<1>3. CASE visible = None /\ visibleBy' = p /\ visible' = request[p] /\ fileSynced' = TRUE
  <2>1. visibleBy # q /\ pc[q] \notin {"syncVisible", "syncParentAgain", "inspectPublished", "syncParent"}
    BY <1>1, <1>3 DEF RunInv, DestinationInv
  <2>2. OutcomeTrue(q) => OutcomeTrue(q)'
    <3>1. SUFFICES ASSUME OutcomeTrue(q) PROVE OutcomeTrue(q)'
      OBVIOUS
    <3>2. outcome[q].kind \notin {"Published", "DurabilityUnknown"}
      BY <1>1, <1>3, <3>1 DEF OutcomeTrue
    <3>3. outcome[q].kind = "NotPublished" => outcome[q].error # "conflict"
      BY <1>3, <3>1 DEF OutcomeTrue
    <3>4. QED
      BY <1>3, <3>2, <3>3 DEF OutcomeTrue
  <2>3. QED
    BY <1>1, <1>3, <2>1, <2>2 DEF RunInv
<1>4. QED
  BY <1>2, <1>3 DEF DestinationStep

\* What remains to be shown of a step: the types, the destination and the run.
LEMMA StepInductive ==
  ASSUME Inv, NEW p \in Publishers, NEW label \in Pcs, NEW x \in Stages, NEW o \in Outcomes,
         request' = request, DestinationStep(p),
         pc' = [pc EXCEPT ![p] = label],
         stage' = [stage EXCEPT ![p] = x],
         outcome' = [outcome EXCEPT ![p] = o],
         RunInv(p)'
  PROVE  Inv'
<1>1. /\ pc' \in [Publishers -> Pcs] /\ stage' \in [Publishers -> Stages]
      /\ outcome' \in [Publishers -> Outcomes] /\ request' \in [Publishers -> Contents]
  BY DEF Inv
<1>2. DestinationInv'
  <2>1. request[p] \in Contents /\ DestinationInv
    BY DEF Inv
  <2>2. CASE UNCHANGED <<visible, visibleBy>> /\ fileSynced' \in BOOLEAN
             /\ parentSynced' \in BOOLEAN
    BY <2>1, <2>2 DEF DestinationInv
  <2>3. CASE visible' = request[p] /\ visibleBy' = p /\ fileSynced' = TRUE
             /\ parentSynced' \in BOOLEAN
    BY <2>1, <2>3 DEF DestinationInv
  <2>4. QED
    BY <2>2, <2>3 DEF DestinationStep
<1>3. ASSUME NEW q \in Publishers PROVE RunInv(q)'
  <2>1. CASE q = p
    BY <2>1
  <2>2. CASE q # p
    <3>1. pc'[q] = pc[q] /\ stage'[q] = stage[q] /\ outcome'[q] = outcome[q]
      BY <2>2 DEF Inv
    <3>2. QED
      BY <2>2, <3>1, OthersKeep
  <2>3. QED
    BY <2>1, <2>2
<1>4. QED
  BY <1>1, <1>2, <1>3 DEF Inv

-----------------------------------------------------------------------------
(* The three kinds of outcome, and the empty stage, are of their types.     *)

\* Every outcome a run may return.
LEMMA ReturnedOutcomes ==
  /\ \A e \in {"conflict", "mismatch", "not_visible"} : NotPublished(e) \in Outcomes
  /\ \A r \in BOOLEAN : Published(r) \in Outcomes
  /\ \A r \in BOOLEAN, f \in BOOLEAN : DurabilityUnknown(r, f) \in Outcomes
BY DEF Outcomes

\* A step that returns o with its stage gone, when o is true.
LEMMA ReturnInductive ==
  ASSUME Inv, NEW p \in Publishers, NEW o \in Outcomes,
         request' = request, DestinationStep(p), Return(p, o),
         stage' = [stage EXCEPT ![p] = NoStage],
         visibleBy' = p => visible' = request[p] /\ fileSynced',
         o.kind = "Published" => visible' = request[p] /\ fileSynced' /\ parentSynced',
         o.kind = "DurabilityUnknown" => visible' = request[p] /\ (o.file => fileSynced'),
         o.kind = "NotPublished" =>
           visibleBy' # p /\ (o.error = "conflict" => visible' \notin {None, request[p]})
  PROVE  Inv'
<1>1. pc'[p] = "idle" /\ stage'[p] = NoStage /\ outcome'[p] = o
  BY DEF Return, Goto, Inv
<1>2. RunInv(p)'
  BY <1>1 DEF RunInv, OutcomeTrue
<1>3. NoStage \in Stages
  BY DEF NoStage, Stages
<1>4. QED
  BY <1>2, <1>3, StepInductive DEF Return, Goto

\* A step that goes on to label with the stage x, when the run may rely there on
\* what RunInv says.
LEMMA ContinueInductive ==
  ASSUME Inv, NEW p \in Publishers, NEW label \in Pcs, NEW x \in Stages,
         request' = request, DestinationStep(p), Continue(p, label),
         stage' = [stage EXCEPT ![p] = x],
         pc'[p] = label /\ stage'[p] = x => RunInv(p)'
  PROVE  Inv'
<1>1. pc' = [pc EXCEPT ![p] = label] /\ outcome' = [outcome EXCEPT ![p] = outcome[p]]
  BY DEF Continue, Goto, Inv
<1>2. pc'[p] = label /\ stage'[p] = x /\ outcome[p] \in Outcomes
  BY <1>1 DEF Inv
<1>3. QED
  BY <1>1, <1>2, StepInductive

\* Leaving the stage alone is leaving it as it is.
LEMMA SameStage ==
  ASSUME Inv, NEW p \in Publishers, UNCHANGED stage
  PROVE  stage[p] \in Stages /\ stage' = [stage EXCEPT ![p] = stage[p]]
BY DEF Inv

-----------------------------------------------------------------------------
(* The inductive step, one adapter call at a time.                          *)

\* Leaving the destination alone is a destination step.
LEMMA SameDestination ==
  ASSUME Inv, NEW p \in Publishers, UNCHANGED destination
  PROVE  DestinationStep(p)
BY DEF Inv, DestinationInv, DestinationStep, destination

\* inspect_visible at the start of a run.
LEMMA BeginInductive ==
  ASSUME Inv, NEW p \in Publishers, Begin(p)
  PROVE  Inv'
<1>1. /\ RunInv(p) /\ pc[p] = "idle" /\ stage[p] = NoStage /\ request' = request
      /\ UNCHANGED destination /\ UNCHANGED stage /\ DestinationStep(p)
      /\ request[p] \in Contents /\ DestinationInv
  BY SameDestination DEF Inv, RunInv, Begin
<1>2. stage[p] \in Stages /\ stage' = [stage EXCEPT ![p] = stage[p]]
  BY <1>1, SameStage
<1>3. CASE visible = None /\ Continue(p, "create")
  <2>1. pc'[p] = "create" /\ stage'[p] = stage[p] => RunInv(p)'
    BY <1>1, <1>3 DEF RunInv, DestinationInv, destination
  <2>2. QED
    BY <1>1, <1>2, <1>3, <2>1, ContinueInductive
<1>4. CASE visible = request[p] /\ Continue(p, "syncVisible")
  <2>1. pc'[p] = "syncVisible" /\ stage'[p] = stage[p] => RunInv(p)'
    BY <1>1, <1>4 DEF RunInv, DestinationInv, destination
  <2>2. QED
    BY <1>1, <1>2, <1>4, <2>1, ContinueInductive
<1>5. CASE visible \notin {None, request[p]} /\ Return(p, NotPublished("conflict"))
  <2>1. visibleBy # p
    BY <1>1, <1>5 DEF RunInv
  <2>2. QED
    BY <1>1, <1>2, <1>5, <2>1, ReturnedOutcomes, ReturnInductive DEF NotPublished, destination
<1>6. QED
  BY <1>3, <1>4, <1>5 DEF Begin

\* sync_visible_file.
LEMMA SyncVisibleInductive ==
  ASSUME Inv, NEW p \in Publishers, SyncVisibleFile(p)
  PROVE  Inv'
<1>1. /\ RunInv(p) /\ pc[p] = "syncVisible" /\ stage[p] = NoStage /\ request' = request
      /\ UNCHANGED <<visible, visibleBy, parentSynced>> /\ UNCHANGED stage
      /\ visible = request[p] /\ DestinationInv
  BY DEF Inv, RunInv, SyncVisibleFile
<1>2. stage[p] \in Stages /\ stage' = [stage EXCEPT ![p] = stage[p]]
  BY <1>1, SameStage
<1>3. CASE Return(p, DurabilityUnknown(TRUE, FALSE)) /\ UNCHANGED fileSynced
  <2>1. DestinationStep(p)
    BY <1>1, <1>3 DEF DestinationStep, DestinationInv
  <2>2. visibleBy' = p => visible' = request[p] /\ fileSynced'
    BY <1>1, <1>3 DEF RunInv
  <2>3. QED
    BY <1>1, <1>2, <1>3, <2>1, <2>2, ReturnedOutcomes, ReturnInductive DEF DurabilityUnknown
<1>4. CASE Continue(p, "syncParentAgain") /\ fileSynced' = TRUE
  <2>1. DestinationStep(p)
    BY <1>1, <1>4 DEF DestinationStep, DestinationInv
  <2>2. pc'[p] = "syncParentAgain" /\ stage'[p] = stage[p] => RunInv(p)'
    BY <1>1, <1>4 DEF RunInv
  <2>3. QED
    BY <1>1, <1>2, <1>4, <2>1, <2>2, ContinueInductive
<1>5. QED
  BY <1>3, <1>4 DEF SyncVisibleFile

\* sync_parent_directory, of a recovery and of a fresh publication.
LEMMA SyncParentInductive ==
  ASSUME Inv, NEW p \in Publishers, SyncParentAgain(p) \/ SyncParent(p)
  PROVE  Inv'
<1>1. /\ RunInv(p) /\ pc[p] \in {"syncParentAgain", "syncParent"} /\ request' = request
      /\ UNCHANGED <<visible, visibleBy, fileSynced>>
      /\ stage' = [stage EXCEPT ![p] = NoStage] /\ DestinationInv
  <2>1. RunInv(p) /\ DestinationInv /\ stage \in [Publishers -> Stages]
    BY DEF Inv
  <2>2. CASE SyncParentAgain(p)
    <3>1. stage[p] = NoStage
      BY <2>1, <2>2 DEF RunInv, SyncParentAgain
    <3>2. stage' = [stage EXCEPT ![p] = NoStage]
      BY <2>1, <2>2, <3>1 DEF SyncParentAgain
    <3>3. QED
      BY <2>1, <2>2, <3>2 DEF SyncParentAgain
  <2>3. CASE SyncParent(p)
    BY <2>1, <2>3 DEF SyncParent, Cleanup
  <2>4. QED
    BY <2>2, <2>3
<1>2. visible = request[p] /\ fileSynced
  BY <1>1 DEF RunInv
<1>3. CASE UNCHANGED parentSynced
           /\ \E r \in BOOLEAN : Return(p, DurabilityUnknown(r, TRUE))
  <2>1. DestinationStep(p)
    BY <1>1, <1>3 DEF DestinationStep, DestinationInv
  <2>2. PICK r \in BOOLEAN : Return(p, DurabilityUnknown(r, TRUE))
    BY <1>3
  <2>3. QED
    BY <1>1, <1>2, <2>1, <2>2, ReturnedOutcomes, ReturnInductive DEF DurabilityUnknown
<1>4. CASE parentSynced' = TRUE /\ \E r \in BOOLEAN : Return(p, Published(r))
  <2>1. DestinationStep(p)
    BY <1>1, <1>4 DEF DestinationStep, DestinationInv
  <2>2. PICK r \in BOOLEAN : Return(p, Published(r))
    BY <1>4
  <2>3. QED
    BY <1>1, <1>2, <1>4, <2>1, <2>2, ReturnedOutcomes, ReturnInductive DEF Published
<1>5. QED
  BY <1>3, <1>4 DEF SyncParentAgain, SyncParent

\* Updating the content of a stage is replacing the stage.
LEMMA StageUpdate ==
  ASSUME NEW x \in Stages, NEW c
  PROVE  [x EXCEPT !.content = c] = [content |-> c, synced |-> x.synced]
BY DEF Stages

\* create_private_sibling_stage, verify_exact and sync_staged_file.
LEMMA StagingInductive ==
  ASSUME Inv, NEW p \in Publishers, CreateStage(p) \/ VerifyExact(p) \/ SyncStagedFile(p)
  PROVE  Inv'
<1>1. /\ RunInv(p) /\ pc[p] \in {"create", "verify", "syncStaged"} /\ request' = request
      /\ UNCHANGED destination /\ visibleBy # p /\ (visible # None => fileSynced)
      /\ request[p] \in Contents /\ stage[p] \in Stages /\ DestinationStep(p)
      /\ stage \in [Publishers -> Stages]
  BY SameDestination DEF Inv, RunInv, CreateStage, VerifyExact, SyncStagedFile
<1>2. CASE \E e \in {"mismatch", "not_visible"} : Return(p, NotPublished(e)) /\ Discard(p)
  <2>1. PICK e \in {"mismatch", "not_visible"} : Return(p, NotPublished(e)) /\ Discard(p)
    BY <1>2
  <2>2. QED
    BY <1>1, <2>1, ReturnedOutcomes, ReturnInductive
       DEF NotPublished, Discard, Cleanup, destination
<1>3. CASE CreateStage(p)
  <2>1. [content |-> request[p], synced |-> FALSE] \in Stages
    BY <1>1 DEF Stages
  <2>2. /\ pc'[p] = "verify" /\ stage'[p] = [content |-> request[p], synced |-> FALSE]
        => RunInv(p)'
    BY <1>1 DEF RunInv, destination
  <2>3. QED
    BY <1>1, <1>3, <2>1, <2>2, ContinueInductive DEF CreateStage
<1>4. CASE /\ pc[p] = "verify" /\ Continue(p, "syncStaged")
           /\ stage' = [stage EXCEPT ![p].content = request[p]]
  <2>1. stage' = [stage EXCEPT ![p] = [content |-> request[p], synced |-> stage[p].synced]]
    BY <1>1, <1>4, StageUpdate
  <2>2. [content |-> request[p], synced |-> stage[p].synced] \in Stages
    BY <1>1 DEF Stages
  <2>3. /\ pc'[p] = "syncStaged"
        /\ stage'[p] = [content |-> request[p], synced |-> stage[p].synced]
        => RunInv(p)'
    BY <1>1 DEF RunInv, destination
  <2>4. QED
    BY <1>1, <1>4, <2>1, <2>2, <2>3, ContinueInductive
<1>5. CASE /\ pc[p] = "syncStaged" /\ Continue(p, "publish")
           /\ stage' = [stage EXCEPT ![p] = [content |-> @.content, synced |-> TRUE]]
  <2>1. stage' = [stage EXCEPT ![p] = [content |-> request[p], synced |-> TRUE]]
    <3>1. stage[p].content = request[p]
      BY <1>1, <1>5 DEF RunInv
    <3>2. QED
      BY <1>1, <1>5, <3>1
  <2>2. [content |-> request[p], synced |-> TRUE] \in Stages
    BY <1>1 DEF Stages
  <2>3. /\ pc'[p] = "publish" /\ stage'[p] = [content |-> request[p], synced |-> TRUE]
        => RunInv(p)'
    BY <1>1 DEF RunInv, destination
  <2>4. QED
    BY <1>1, <1>5, <2>1, <2>2, <2>3, ContinueInductive
<1>6. CASE VerifyExact(p)
  <2>1. \/ Return(p, NotPublished("mismatch")) /\ Discard(p)
        \/ /\ pc[p] = "verify" /\ Continue(p, "syncStaged")
           /\ stage' = [stage EXCEPT ![p].content = request[p]]
    BY <1>6 DEF VerifyExact, SameContent
  <2>2. QED
    BY <1>2, <1>4, <2>1
<1>7. CASE SyncStagedFile(p)
  <2>1. \/ Return(p, NotPublished("not_visible")) /\ Discard(p)
        \/ /\ pc[p] = "syncStaged" /\ Continue(p, "publish")
           /\ stage' = [stage EXCEPT ![p] = [content |-> @.content, synced |-> TRUE]]
    BY <1>7 DEF SyncStagedFile
  <2>2. QED
    BY <1>2, <1>5, <2>1
<1>8. QED
  BY <1>3, <1>6, <1>7

\* publish_no_clobber, whichever of its errors it returns.
LEMMA PublishInductive ==
  ASSUME Inv, NEW p \in Publishers, PublishNoClobber(p)
  PROVE  Inv'
<1>1. /\ RunInv(p) /\ pc[p] = "publish" /\ request' = request /\ DestinationInv
      /\ visibleBy # p /\ (visible # None => fileSynced)
      /\ stage[p].content = request[p] /\ stage[p].synced /\ UNCHANGED stage
      /\ request[p] \in Contents
  BY DEF Inv, RunInv, PublishNoClobber
<1>2. stage[p] \in Stages /\ stage' = [stage EXCEPT ![p] = stage[p]]
  BY <1>1, SameStage
<1>3. CASE UNCHANGED destination /\ Continue(p, "inspectFailed")
  <2>1. pc'[p] = "inspectFailed" /\ stage'[p] = stage[p] => RunInv(p)'
    BY <1>1, <1>3 DEF RunInv, destination
  <2>2. QED
    BY <1>1, <1>2, <1>3, <2>1, SameDestination, ContinueInductive
<1>4. CASE /\ ~Refused(p) /\ MakeVisible(p)
           /\ \E label \in {"inspectFailed", "inspectPublished"} : Continue(p, label)
  <2>1. stage[p].synced = TRUE
    BY <1>1, <1>2 DEF Stages
  <2>2. /\ visible = None /\ visible' = request[p] /\ visibleBy' = p /\ fileSynced' = TRUE
        /\ parentSynced' = FALSE
    BY <1>1, <1>4, <2>1 DEF Refused, MakeVisible
  <2>3. DestinationStep(p)
    BY <2>2 DEF DestinationStep
  <2>4. PICK label \in {"inspectFailed", "inspectPublished"} : Continue(p, label)
    BY <1>4
  <2>5. pc'[p] = label /\ stage'[p] = stage[p] => RunInv(p)'
    BY <1>1, <2>2 DEF RunInv
  <2>6. QED
    BY <1>1, <1>2, <2>3, <2>4, <2>5, ContinueInductive
<1>5. QED
  BY <1>3, <1>4 DEF PublishNoClobber

\* inspect_visible after the publication step, failed or not.
LEMMA InspectInductive ==
  ASSUME Inv, NEW p \in Publishers, InspectFailed(p) \/ InspectPublished(p)
  PROVE  Inv'
<1>1. /\ RunInv(p) /\ request' = request /\ UNCHANGED destination /\ DestinationInv
      /\ DestinationStep(p) /\ request[p] \in Contents
  BY SameDestination DEF Inv, InspectFailed, InspectPublished
<1>2. CASE InspectFailed(p)
  <2>1. /\ Return(p, AfterFailure(p)) /\ stage' = [stage EXCEPT ![p] = NoStage]
        /\ (visible # None => fileSynced)
    BY <1>1, <1>2 DEF InspectFailed, Cleanup, RunInv
  <2>2. CASE visible = None
    BY <1>1, <2>1, <2>2, ReturnedOutcomes, ReturnInductive
       DEF AfterFailure, NotPublished, destination, DestinationInv
  <2>3. CASE visible = request[p]
    BY <1>1, <2>1, <2>3, ReturnedOutcomes, ReturnInductive
       DEF AfterFailure, DurabilityUnknown, destination, DestinationInv
  <2>4. CASE visible \notin {None, request[p]}
    <3>1. visibleBy # p
      BY <1>1, <2>4 DEF RunInv
    <3>2. QED
      BY <1>1, <2>1, <2>4, <3>1, ReturnedOutcomes, ReturnInductive
         DEF AfterFailure, NotPublished, destination
  <2>5. QED
    BY <2>2, <2>3, <2>4
<1>3. CASE InspectPublished(p)
  <2>1. visibleBy = p /\ Continue(p, "syncParent") /\ UNCHANGED stage
    BY <1>1, <1>3 DEF InspectPublished, RunInv
  <2>2. stage[p] \in Stages /\ stage' = [stage EXCEPT ![p] = stage[p]]
    BY <2>1, SameStage
  <2>3. pc'[p] = "syncParent" /\ stage'[p] = stage[p] => RunInv(p)'
    BY <1>1, <2>1 DEF RunInv, destination
  <2>4. QED
    BY <1>1, <2>1, <2>2, <2>3, ContinueInductive
<1>4. QED
  BY <1>2, <1>3

\* inject_fault, and steps of nobody.
LEMMA OutsideInductive ==
  ASSUME Inv,
         UNCHANGED vars \/ \E p \in Publishers, point \in FaultPoints : InjectFault(p, point)
  PROVE  Inv'
<1>1. UNCHANGED <<request, destination, pc, stage, outcome>>
  BY DEF vars, InjectFault
<1>2. QED
  BY <1>1 DEF Inv, DestinationInv, RunInv, OutcomeTrue, destination

\* What every publisher relies on is inductive.
THEOREM PublicationInvariant == Spec => []Inv
<1>1. Init => Inv
  <2>1. SUFFICES ASSUME Init PROVE Inv
    OBVIOUS
  <2>2. NoStage \in Stages /\ NoOutcome \in Outcomes
    BY DEF NoStage, Stages, NoOutcome, Outcomes
  <2>3. DestinationInv /\ pc \in [Publishers -> Pcs] /\ stage \in [Publishers -> Stages]
        /\ outcome \in [Publishers -> Outcomes]
    BY <2>1, <2>2 DEF Init, DestinationInv
  <2>4. ASSUME NEW p \in Publishers PROVE RunInv(p)
    <3>1. /\ pc[p] = "idle" /\ stage[p] = NoStage /\ outcome[p] = NoOutcome
          /\ visibleBy = None
      BY <2>1 DEF Init
    <3>2. OutcomeTrue(p)
      BY <3>1 DEF OutcomeTrue, NoOutcome
    <3>3. QED
      BY <3>1, <3>2 DEF RunInv
  <2>5. QED
    BY <2>1, <2>3, <2>4 DEF Init, Inv
<1>2. Inv /\ [Next]_vars => Inv'
  BY BeginInductive, SyncVisibleInductive, SyncParentInductive, StagingInductive,
     PublishInductive, InspectInductive, OutsideInductive DEF Next, RunStep
<1>3. QED
  BY <1>1, <1>2, PTL DEF Spec

\* The script of an adapter holds one point at most, the next fault to come.
Scripts == {<< >>} \cup {<<f>> : f \in FaultPoints}
ScriptInv == script \in [Publishers -> Scripts] /\ injections \in 0 .. InjectLimit

\* Nothing is behind the point that is hit.
LEMMA OnePointOnly ==
  ASSUME NEW points \in Scripts, points # << >>
  PROVE  Tail(points) = << >>
<1>1. PICK f \in FaultPoints : points = <<f>>
  BY DEF Scripts
<1>2. <<f>> \in Seq(FaultPoints) /\ Len(<<f>>) = 1 /\ <<f>> # << >>
  OBVIOUS
<1>3. Tail(<<f>>) \in Seq(FaultPoints) /\ Len(Tail(<<f>>)) = 0
  BY <1>2
<1>4. QED
  BY <1>1, <1>3

\* Consulting a script leaves it be or empties it.
LEMMA ConsultedScript ==
  ASSUME ScriptInv, NEW p \in Publishers,
         script' = script \/ (script[p] # << >> /\ script' = [script EXCEPT ![p] = Tail(script[p])]),
         injections' = injections
  PROVE  ScriptInv'
<1>1. << >> \in Scripts
  BY DEF Scripts
<1>2. QED
  BY <1>1, OnePointOnly DEF ScriptInv

LEMMA ScriptStep == ScriptInv /\ [Next]_vars => ScriptInv'
<1>1. SUFFICES ASSUME ScriptInv, [Next]_vars PROVE ScriptInv'
  OBVIOUS
<1>2. ASSUME NEW p \in Publishers, RunStep(p)
      PROVE  ScriptInv'
  <2>1. injections' = injections
    BY <1>2 DEF RunStep, Begin, SyncVisibleFile, SyncParentAgain, CreateStage, VerifyExact,
       SyncStagedFile, PublishNoClobber, InspectFailed, InspectPublished, SyncParent
  <2>2. script' = script \/ (script[p] # << >> /\ script' = [script EXCEPT ![p] = Tail(script[p])])
    BY <1>2 DEF RunStep, Begin, SyncVisibleFile, SyncParentAgain, CreateStage, VerifyExact,
       SyncStagedFile, PublishNoClobber, InspectFailed, InspectPublished, SyncParent,
       ParentSyncFails, ParentSyncs, Hit, Miss, AtFront
  <2>3. QED
    BY <1>1, <2>1, <2>2, ConsultedScript
<1>3. ASSUME NEW p \in Publishers, NEW point \in FaultPoints, InjectFault(p, point)
      PROVE  ScriptInv'
  <2>1. <<point>> \in Scripts
    BY DEF Scripts
  <2>2. QED
    BY <1>1, <1>3, <2>1, InjectAssumption DEF InjectFault, Injected, ScriptInv
<1>4. CASE UNCHANGED vars
  BY <1>1, <1>4 DEF vars, ScriptInv
<1>5. QED
  BY <1>1, <1>2, <1>3, <1>4 DEF Next

\* Every variable keeps its type; in particular no fault script grows, however
\* often one is injected.
THEOREM PublicationTypeCorrect == Spec => []TypeOK
<1>1. Init => ScriptInv
  BY InjectAssumption DEF Init, ScriptInv, Scripts
<1>2. Inv /\ ScriptInv => TypeOK
  BY DEF Inv, ScriptInv, DestinationInv, Stages, Scripts, TypeOK
<1>3. QED
  BY <1>1, <1>2, ScriptStep, PublicationInvariant, PTL DEF Spec

\* Every outcome tells the truth, whatever races and faults there were.
THEOREM OutcomesAreTrueHolds == Spec => []OutcomesAreTrue
<1>1. Inv => OutcomesAreTrue
  BY DEF Inv, RunInv, OutcomeTrue, OutcomesAreTrue
<1>2. QED
  BY <1>1, PublicationInvariant, PTL

\* Nothing unverified or unsynced is ever made visible, and the assertion that
\* follows a publication holds.
THEOREM VisibleIsVerifiedHolds == Spec => []VisibleIsVerified
<1>1. Inv => VisibleIsVerified
  BY DEF Inv, RunInv, VisibleIsVerified
<1>2. QED
  BY <1>1, PublicationInvariant, PTL

\* No run leaves its stage behind.
THEOREM StagesAreCleanedHolds == Spec => []StagesAreCleaned
<1>1. Inv => StagesAreCleaned
  BY DEF Inv, RunInv, StagesAreCleaned
<1>2. QED
  BY <1>1, PublicationInvariant, PTL

\* No publisher replaces what is visible.
THEOREM NoClobberHolds == Spec => NoClobber
<1>1. [Next]_vars => [visible # None => UNCHANGED <<visible, visibleBy>>]_vars
  <2>1. SUFFICES ASSUME [Next]_vars, visible # None
                 PROVE  UNCHANGED <<visible, visibleBy>>
    BY DEF vars
  <2>2. ASSUME NEW p \in Publishers, RunStep(p)
        PROVE  UNCHANGED <<visible, visibleBy>>
    BY <2>1, <2>2 DEF RunStep, Begin, SyncVisibleFile, SyncParentAgain, CreateStage, VerifyExact,
       SyncStagedFile, PublishNoClobber, Refused, InspectFailed, InspectPublished, SyncParent,
       destination
  <2>3. ASSUME NEW p \in Publishers, NEW point \in FaultPoints, InjectFault(p, point)
        PROVE  UNCHANGED <<visible, visibleBy>>
    BY <2>3 DEF InjectFault, destination
  <2>4. QED
    BY <2>1, <2>2, <2>3 DEF Next, vars, destination
<1>2. QED
  BY <1>1, PTL DEF Spec, NoClobber

-----------------------------------------------------------------------------
(* What lasts. *)

\* All that any step does to the destination and to what publishers ask for.
LEMMA NothingIsTakenBack ==
  ASSUME Inv, [Next]_vars
  PROVE  /\ request' = request
         /\ visible # None => UNCHANGED <<visible, visibleBy>>
         /\ visible # None /\ fileSynced => fileSynced'
         /\ visible # None /\ parentSynced => parentSynced'
<1>1. ASSUME NEW p \in Publishers, RunStep(p)
      PROVE  /\ request' = request
             /\ visible # None => UNCHANGED <<visible, visibleBy>>
             /\ visible # None /\ fileSynced => fileSynced'
             /\ visible # None /\ parentSynced => parentSynced'
  <2>1. CASE Begin(p) \/ CreateStage(p) \/ VerifyExact(p) \/ SyncStagedFile(p)
             \/ InspectFailed(p) \/ InspectPublished(p)
    BY <2>1 DEF Begin, CreateStage, VerifyExact, SyncStagedFile, InspectFailed, InspectPublished,
       destination
  <2>2. CASE SyncVisibleFile(p) \/ SyncParentAgain(p) \/ SyncParent(p)
    <3>1. /\ UNCHANGED <<request, visible, visibleBy>>
          /\ fileSynced' = fileSynced \/ fileSynced' = TRUE
          /\ parentSynced' = parentSynced \/ parentSynced' = TRUE
      BY <2>2 DEF SyncVisibleFile, SyncParentAgain, SyncParent
    <3>2. fileSynced \in BOOLEAN /\ parentSynced \in BOOLEAN
      BY DEF Inv, DestinationInv
    <3>3. QED
      BY <3>1, <3>2
  <2>3. CASE PublishNoClobber(p)
    BY <2>3 DEF PublishNoClobber, Refused, destination
  <2>4. QED
    BY <1>1, <2>1, <2>2, <2>3 DEF RunStep
<1>2. ASSUME NEW p \in Publishers, NEW point \in FaultPoints, InjectFault(p, point)
      PROVE  UNCHANGED <<request, destination>>
  BY <1>2 DEF InjectFault
<1>3. CASE UNCHANGED vars
  BY <1>3 DEF vars, destination
<1>4. QED
  BY <1>1, <1>2, <1>3 DEF Next, destination

\* What an outcome of p claims of the destination.
Durable(p) == visible = request[p] /\ fileSynced /\ parentSynced
Visible(p, file) == visible = request[p] /\ (file => fileSynced)
Taken(p) == visible \notin {None, request[p]}

Told(p, kind) == pc[p] = "idle" /\ outcome[p].kind = kind

\* What a run was told stays true, whatever this publisher, the others and the
\* faults do from then on: published content stays there and on disk, content of
\* unknown durability stays visible and what was said to be synced synced, and a
\* conflict is never resolved by the other's content going away.
THEOREM OutcomesStayTrue ==
  ASSUME NEW p \in Publishers
  PROVE  Spec =>
    /\ [](Told(p, "Published") => []Durable(p))
    /\ [](Told(p, "DurabilityUnknown") /\ outcome[p].file => []Visible(p, TRUE))
    /\ [](Told(p, "DurabilityUnknown") => []Visible(p, FALSE))
    /\ [](Told(p, "NotPublished") /\ outcome[p].error = "conflict" => []Taken(p))
<1>1. ASSUME Inv, [Next]_vars
      PROVE  /\ Durable(p) => Durable(p)'
             /\ Visible(p, TRUE) => Visible(p, TRUE)'
             /\ Visible(p, FALSE) => Visible(p, FALSE)'
             /\ Taken(p) => Taken(p)'
  <2>1. request[p] # None
    BY <1>1 DEF Inv
  <2>2. QED
    BY <1>1, <2>1, NothingIsTakenBack DEF Durable, Visible, Taken
<1>2. ASSUME Inv
      PROVE  /\ Told(p, "Published") => Durable(p)
             /\ Told(p, "DurabilityUnknown") /\ outcome[p].file => Visible(p, TRUE)
             /\ Told(p, "DurabilityUnknown") => Visible(p, FALSE)
             /\ Told(p, "NotPublished") /\ outcome[p].error = "conflict" => Taken(p)
  BY <1>2 DEF Inv, RunInv, OutcomeTrue, Told, Durable, Visible, Taken
<1>3. QED
  BY <1>1, <1>2, PublicationInvariant, PTL DEF Spec

-----------------------------------------------------------------------------
(* What RecoveryConverges needs of the code, fairness aside. *)

\* Adapter calls that the run of p has still to make, at most.
CallsLeft(p) ==
  CASE pc[p] = "create" -> 6
    [] pc[p] = "verify" -> 5
    [] pc[p] = "syncStaged" -> 4
    [] pc[p] = "publish" -> 3
    [] pc[p] \in {"inspectPublished", "syncVisible"} -> 2
    [] pc[p] \in {"inspectFailed", "syncParent", "syncParentAgain"} -> 1
    [] OTHER -> 0

\* A run in progress makes each of its calls once, in the order of the code.
RunsAdvance ==
  \A p \in Publishers : pc[p] # "idle" => pc'[p] = pc[p] \/ CallsLeft(p)' < CallsLeft(p)

\* Runs are short: each call of a run brings it nearer to its end, whatever the others
\* do, and none is made in vain: the one call the run insists on, that it finds
\* what it published, finds it.
THEOREM RunsAreShort ==
  Spec => /\ [][RunsAdvance]_vars
          /\ [](\A p \in Publishers : pc[p] = "inspectPublished" => visible = request[p])
<1>1. ASSUME Inv, [Next]_vars
      PROVE  RunsAdvance
  <2>1. pc \in [Publishers -> Pcs]
    BY <1>1 DEF Inv
  <2>2. ASSUME NEW p \in Publishers, RunStep(p), pc[p] # "idle"
        PROVE  CallsLeft(p)' < CallsLeft(p)
    <3>1. pc[p] \in Pcs
      BY <2>1
    <3>2. CASE SyncVisibleFile(p) \/ SyncParentAgain(p)
      <4>1. \/ pc[p] = "syncVisible" /\ pc'[p] \in {"idle", "syncParentAgain"}
            \/ pc[p] = "syncParentAgain" /\ pc'[p] = "idle"
        BY <2>1, <3>2 DEF SyncVisibleFile, SyncParentAgain, Return, Continue, Goto
      <4>2. QED
        BY <4>1 DEF CallsLeft
    <3>3. CASE CreateStage(p) \/ VerifyExact(p) \/ SyncStagedFile(p)
      <4>1. \/ pc[p] = "create" /\ pc'[p] = "verify"
            \/ pc[p] = "verify" /\ pc'[p] \in {"idle", "syncStaged"}
            \/ pc[p] = "syncStaged" /\ pc'[p] \in {"idle", "publish"}
        BY <2>1, <3>3 DEF CreateStage, VerifyExact, SyncStagedFile, Return, Continue, Goto
      <4>2. QED
        BY <4>1 DEF CallsLeft
    <3>4. CASE PublishNoClobber(p) \/ InspectPublished(p)
      <4>1. \/ pc[p] = "publish" /\ pc'[p] \in {"inspectFailed", "inspectPublished"}
            \/ pc[p] = "inspectPublished" /\ pc'[p] = "syncParent"
        BY <2>1, <3>4 DEF PublishNoClobber, InspectPublished, Continue, Goto
      <4>2. QED
        BY <4>1 DEF CallsLeft
    <3>5. CASE InspectFailed(p) \/ SyncParent(p)
      <4>1. pc[p] \in {"inspectFailed", "syncParent"} /\ pc'[p] = "idle"
        BY <2>1, <3>5 DEF InspectFailed, SyncParent, Return, Goto
      <4>2. QED
        BY <4>1 DEF CallsLeft
    <3>6. QED
      BY <2>2, <3>2, <3>3, <3>4, <3>5 DEF RunStep, Begin
  <2>3. ASSUME NEW p \in Publishers, RunStep(p), NEW q \in Publishers \ {p}
        PROVE  pc'[q] = pc[q]
    BY <2>1, <2>3 DEF RunStep, Begin, SyncVisibleFile, SyncParentAgain, CreateStage, VerifyExact,
       SyncStagedFile, PublishNoClobber, InspectFailed, InspectPublished, SyncParent,
       Return, Continue, Goto
  <2>4. ASSUME NEW p \in Publishers, NEW point \in FaultPoints, InjectFault(p, point)
        PROVE  pc' = pc
    BY <2>4 DEF InjectFault
  <2>5. QED
    BY <1>1, <2>2, <2>3, <2>4 DEF RunsAdvance, Next, vars
<1>2. Inv => \A p \in Publishers : pc[p] = "inspectPublished" => visible = request[p]
  BY DEF Inv, RunInv
<1>3. QED
  BY <1>1, <1>2, PublicationInvariant, PTL DEF Spec

\* The content of p is there, and its runs find it so.
Recovering(p) == visible = request[p] /\ pc[p] \in {"idle", "syncVisible", "syncParentAgain"}

FaultUsed(p) == script[p] # << >> /\ script'[p] = << >>

\* A recovery that comes to its end has published, or a fault was used up on it.
RecoveryStep(p) ==
  Recovering(p) /\ pc[p] # "idle" /\ pc'[p] = "idle" =>
    outcome'[p] = Published(TRUE) \/ FaultUsed(p)

\* From the first return of a run over content that is visible, each later run is a
\* recovery of two calls, and only an injected fault keeps it from Published, one fault
\* for one run: no race and no earlier failure does.
THEOREM OnlyFaultsHinderRecovery ==
  ASSUME NEW p \in Publishers
  PROVE  Spec => /\ [](Recovering(p) => []Recovering(p))
                 /\ [][RecoveryStep(p)]_vars
<1>1. ASSUME Inv, [Next]_vars, Recovering(p)
      PROVE  Recovering(p)'
  <2>1. request[p] # None /\ pc \in [Publishers -> Pcs]
    BY <1>1 DEF Inv
  <2>2. visible' = request'[p]
    BY <1>1, <2>1, NothingIsTakenBack DEF Recovering
  <2>3. ASSUME NEW q \in Publishers, RunStep(q)
        PROVE  pc'[p] \in {"idle", "syncVisible", "syncParentAgain"}
    BY <1>1, <2>1, <2>3 DEF Recovering, RunStep, Begin, SyncVisibleFile, SyncParentAgain, CreateStage,
       VerifyExact, SyncStagedFile, PublishNoClobber, InspectFailed, InspectPublished, SyncParent,
       Return, Continue, Goto
  <2>4. ASSUME NEW q \in Publishers, NEW point \in FaultPoints, InjectFault(q, point)
        PROVE  pc' = pc
    BY <2>4 DEF InjectFault
  <2>5. QED
    BY <1>1, <2>2, <2>3, <2>4 DEF Recovering, Next, vars
<1>2. ASSUME Inv, ScriptInv, [Next]_vars
      PROVE  RecoveryStep(p)
  <2>1. SUFFICES ASSUME Recovering(p), pc[p] # "idle", pc'[p] = "idle"
                 PROVE  outcome'[p] = Published(TRUE) \/ FaultUsed(p)
    BY DEF RecoveryStep
  <2>2. pc \in [Publishers -> Pcs] /\ outcome \in [Publishers -> Outcomes]
        /\ script \in [Publishers -> Scripts]
    BY <1>2 DEF Inv, ScriptInv
  <2>3. PICK q \in Publishers : RunStep(q) /\ pc'[p] # pc[p]
    BY <1>2, <2>1 DEF Next, vars, InjectFault
  <2>4. q = p
    BY <2>2, <2>3 DEF RunStep, Begin, SyncVisibleFile, SyncParentAgain, CreateStage, VerifyExact,
       SyncStagedFile, PublishNoClobber, InspectFailed, InspectPublished, SyncParent,
       Return, Continue, Goto
  <2>5. SyncVisibleFile(p) \/ SyncParentAgain(p)
    BY <2>1, <2>3, <2>4 DEF Recovering, RunStep, Begin, CreateStage, VerifyExact,
       SyncStagedFile, PublishNoClobber, InspectFailed, InspectPublished, SyncParent
  <2>6. ASSUME NEW point, Hit(p, point)
        PROVE  FaultUsed(p)
    <3>1. script[p] # << >> /\ script' = [script EXCEPT ![p] = Tail(script[p])]
      BY <2>6 DEF Hit, AtFront
    <3>2. Tail(script[p]) = << >>
      BY <2>2, <3>1, OnePointOnly
    <3>3. QED
      BY <2>2, <3>1, <3>2 DEF FaultUsed
  <2>7. CASE SyncVisibleFile(p)
    BY <2>1, <2>2, <2>6, <2>7 DEF SyncVisibleFile, Continue, Goto
  <2>8. CASE SyncParentAgain(p)
    BY <2>1, <2>2, <2>6, <2>8 DEF SyncParentAgain, ParentSyncFails, Return
  <2>9. QED
    BY <2>5, <2>7, <2>8
<1>3. Spec => []ScriptInv
  <2>1. Init => ScriptInv
    BY InjectAssumption DEF Init, ScriptInv, Scripts
  <2>2. QED
    BY <2>1, ScriptStep, PTL DEF Spec
<1>4. QED
  BY <1>1, <1>2, <1>3, PublicationInvariant, PTL DEF Spec

=============================================================================
