------------------------- MODULE MCVerticalFixtures -------------------------
(***************************************************************************)
(* For the lock, two rows of different classes and seven byte strings      *)
(* (MCVerticalLock).  For the comparisons, a state row with two cases, one *)
(* of which needs an exact artifact, a real row that needs one, a hosted   *)
(* row, and manifests with one thing wrong; observations of each case and  *)
(* observations that differ from them in one field.  For the recordings,   *)
(* an ordinary row and the chat that is cancelled and retried.             *)
(***************************************************************************)
EXTENDS VerticalFixtures, TLC

MCRows == {"chat", "store"}
MCClass == [r \in MCRows |-> IF r = "chat" THEN "ModelFree" ELSE "State"]
Valid(r) == [vertical_id |-> r, class |-> MCClass[r],
             contract_revision |-> "r3", wellFormed |-> TRUE]
\* Each row has its manifest; the first also has another, of the length of the
\* second's; one is of the wrong class, one of another revision, one incomplete,
\* and one is no manifest at all.
MCParse ==
  [chat |-> Valid("chat"),
   chatAgain |-> Valid("chat"),
   store |-> Valid("store"),
   misclassified |-> [Valid("store") EXCEPT !.class = "ModelFree"],
   outdated |-> [Valid("store") EXCEPT !.contract_revision = "r2"],
   incomplete |-> [Valid("chat") EXCEPT !.wellFormed = FALSE]]
MCContents == DOMAIN MCParse \cup {"noise"}
MCLength == [c \in MCContents |-> IF c \in {"chat", "noise"} THEN 1 ELSE 2]

-----------------------------------------------------------------------------

Identity(bytes, length) == [digest |-> bytes, length |-> length]
Needs(id, kind, bytes) ==
  [prerequisite_id |-> id, kind |-> kind, identity |-> Identity(bytes, Len(bytes))]
StateIdentity(id) == [state_id |-> id, schema_id |-> "v0", baseline |-> id]
Case(id, states, prerequisites, expected) ==
  [case_id |-> id, repository_id |-> "product", commit |-> "base",
   production_tree |-> Identity(<<5>>, 1), state_identities |-> states,
   prerequisites |-> prerequisites, expected_projection |-> Identity(expected, 1)]
RowManifest(row_id, omitted, cases) ==
  [vertical_id |-> row_id, class |-> FixtureClass(row_id), omitted_claims |-> omitted,
   cases |-> cases]

Qwen == Needs("model.qwen.gguf", "exact", <<7, 8>>)
Inventory == Needs("inventory", "inventory", <<6>>)
Primary == Case("primary", <<StateIdentity("s"), StateIdentity("t")>>, <<Inventory, Qwen>>, <<1>>)
Secondary == Case("secondary", <<StateIdentity("s")>>, <<>>, <<2>>)
Caches == RowManifest("CorruptedDisposableCaches", <<"size">>, <<Primary, Secondary>>)
Model == RowManifest("CurrentExactQwen", <<>>, <<Case("primary", <<>>, <<Qwen>>, <<2>>)>>)
Hosted == RowManifest("FteHostedFixtureLoopback", <<HostedOmission>>,
                      <<Case("primary", <<>>, <<>>, <<2>>)>>)
MCManifests ==
  {Caches, Model, Hosted,
   [Caches EXCEPT !.cases = <<[Primary EXCEPT !.expected_projection.digest = <<2>>]>>],
   [Caches EXCEPT !.cases = <<Secondary, Secondary>>],
   [Caches EXCEPT !.class = "Real"],
   [Model EXCEPT !.cases[1].prerequisites[1].kind = "inventory"],
   [Hosted EXCEPT !.omitted_claims = <<>>]}

-----------------------------------------------------------------------------

Effect(id, after, disposition) ==
  [state_id |-> id, schema_id |-> "v0", before |-> id, after |-> after,
   disposition |-> disposition]
Done == <<"chat", "first", None>>
Account(effects) ==
  [ordered_events |-> <<Event(Done, 0)>>,
   lifecycle |-> <<LifecycleFact(Done, "completed", TRUE)>>,
   durable_state |-> effects,
   ownership |-> [active_operations |-> 0, retained_tasks |-> 0,
                  expected_workers |-> 1, joined_workers |-> 1],
   output_facts |-> [answered |-> TRUE],
   fail_closed_facts |-> <<"stale input changed nothing">>]
Updated == Effect("s", "new", "updated")
Kept == Effect("t", "t", "unchanged")
MCParseProjection == (<<1>> :> Account(<<Updated, Kept>>))
                  @@ (<<2>> :> Account(<<Updated>>))
                  @@ (<<3>> :> [Account(<<Updated>>) EXCEPT !.lifecycle[1].released = FALSE])

Observed(row_id, omitted, case, bytes) ==
  [vertical_id |-> row_id, case_id |-> case.case_id, implementation_revision |-> "base",
   observed_prerequisites |-> case.prerequisites,
   evidence |-> [tier |-> "Reproducible", negative |-> FALSE, omitted_claims |-> omitted,
                 execution_kind |-> IF row_id \in Real THEN "LocalRuntime" ELSE "Fixture",
                 exact_source |-> <<5>>],
   projection |-> MCParseProjection[bytes]]
ObservedPrimary == Observed(Caches.vertical_id, <<"size">>, Primary, <<1>>)
Right == {ObservedPrimary,
          Observed(Caches.vertical_id, <<"size">>, Secondary, <<2>>),
          Observed(Model.vertical_id, <<>>, Model.cases[1], <<2>>),
          Observed(Hosted.vertical_id, <<HostedOmission>>, Hosted.cases[1], <<2>>)}
\* Of the first case, every field in turn; of the others, what tells candidates,
\* rows and cases apart.
Wrong ==
  UNION {{[o EXCEPT !.implementation_revision = "next", !.evidence.exact_source = <<4>>],
          [o EXCEPT !.evidence.exact_source = <<4>>],
          [o EXCEPT !.projection = MCParseProjection[<<3>>]]} : o \in Right}
  \cup
  LET o == ObservedPrimary IN
  {[o EXCEPT !.case_id = "tertiary"],
   [o EXCEPT !.case_id = "secondary"],
   [o EXCEPT !.vertical_id = "PartialPublicationStates"],
   [o EXCEPT !.vertical_id = "LoomSuggestionPromotion"],
   [o EXCEPT !.observed_prerequisites = <<Qwen>>],
   [o EXCEPT !.observed_prerequisites = <<Qwen, Qwen>>],
   [o EXCEPT !.observed_prerequisites[2].kind = "inventory"],
   [o EXCEPT !.evidence.omitted_claims = <<>>],
   [o EXCEPT !.evidence.tier = "ResearchEligible"],
   [o EXCEPT !.evidence.negative = TRUE],
   [o EXCEPT !.evidence.execution_kind = "HostedNetwork"],
   [o EXCEPT !.projection.durable_state = <<Updated>>],
   [o EXCEPT !.projection.durable_state = <<Updated, Updated>>],
   [o EXCEPT !.projection.durable_state[2].schema_id = "v1"],
   [o EXCEPT !.projection.durable_state[2] = Effect("u", "u", "unchanged")]}
MCObservations == Right \cup Wrong

MCDeclared ==
  {[prerequisite_id |-> Qwen.prerequisite_id, identity |-> Identity(<<7, 8>>, 2)],
   [prerequisite_id |-> Qwen.prerequisite_id, identity |-> Identity(<<8, 7>>, 2)],
   [prerequisite_id |-> Qwen.prerequisite_id, identity |-> Identity(<<7, 8>>, 1)],
   [prerequisite_id |-> "audio.input", identity |-> Identity(<<7, 8>>, 2)]}
MCChunks == {<<>>, <<7>>, <<8>>, <<7, 8>>}
MCExpectedBytes == {<<1>>, <<2>>, <<3>>, <<9>>}
Tree(repository, commit, bytes) ==
  [repository_id |-> repository, commit |-> commit,
   production_tree |-> Identity(<<4>>, 1), bytes |-> bytes]
MCSources == {Tree("product", "next", <<4>>), Tree("fork", "next", <<4>>),
              Tree("product", "next", <<5>>), Tree("product", "base", <<4>>)}

-----------------------------------------------------------------------------

MCIdentities == {Done, <<"chat", "first", "k">>, <<"retry", "second", "k">>,
                 <<"retry", "first", "k">>, <<"retry", None, "k">>}
MCEffects == [state_id : {"s", "t"}, schema_id : {"v0"}, before : {None, "a"},
              after : {None, "a", "b"},
              disposition : {"unchanged", "created", "updated", "removed", "recovered"}]
Full == Account(<<Updated, Kept>>)
MCUnfinished ==
  {[row |-> r, projection |-> [Full EXCEPT !.ordered_events = <<>>, !.lifecycle = <<>>]] :
     r \in {"MomAttachment", "MomChatCancelRetry"}}
  \cup
  {[row |-> "MomAttachment",
    projection |-> [Full EXCEPT !.durable_state = <<>>,
                                !.ordered_events = [i \in 1 .. 3 |-> Event(Done, i - 1)],
                                !.lifecycle = @ \o @]],
   [row |-> "MomAttachment",
    projection |-> [Full EXCEPT !.durable_state = <<>>,
                                !.ordered_events = [i \in 1 .. 3 |-> Event(Done, i - 1)]]],
   [row |-> "MomAttachment", projection |-> [Full EXCEPT !.ownership.retained_tasks = 1]],
   [row |-> "MomAttachment", projection |-> [Full EXCEPT !.ownership.joined_workers = 0]],
   [row |-> "MomAttachment", projection |-> [Full EXCEPT !.output_facts = <<>>]],
   [row |-> "MomAttachment", projection |-> [Full EXCEPT !.fail_closed_facts = @ \o @]],
   [row |-> "LoomSuggestionPromotion", projection |-> [Full EXCEPT !.output_facts = LoomFacts]],
   [row |-> "LoomSuggestionPromotion",
    projection |-> [Full EXCEPT !.output_facts = [LoomFacts EXCEPT !.visible_ghost_count = 2]]]}
=============================================================================
