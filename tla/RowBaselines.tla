---------------------------- MODULE RowBaselines ----------------------------
(***************************************************************************)
(* Comparing what products did with what a row's manifest freezes          *)
(* (validation.rs).  A caller streams the artifacts a row depends on, chunk *)
(* by chunk, through verify_prerequisite_chunks, and gets a token for each *)
(* that is the declared one; then it passes observations, with tokens, to  *)
(* validate_row_baselines, validate_baseline or compare_candidate.  A byte *)
(* string stands for its digest (SHA-256 without collisions).              *)
(***************************************************************************)
EXTENDS Projections

CONSTANTS
  Manifests,        \* the manifests a caller may pass
  Declared,         \* the artifacts it may declare: an id and an identity
  Chunks,           \* what it may stream next: byte strings, the empty one too
  Sources,          \* the candidate sources it may name, with bytes of their trees
  Observations,     \* the observations it may pass
  ExpectedBytes,    \* the byte strings it may pass as an expected projection
  ParseProjection,  \* the projection each byte string is, of those that are one
  SliceLengths,     \* the lengths of the slices it may pass: of cases, of a case's tokens
  MaxLength,        \* bound: the largest length a u64 holds
  MaxTokens         \* bound: how many artifacts a caller verifies

\* What the types of the code say of them.
ASSUME ManifestsAssumption ==
  \A m \in Manifests :
    /\ IsList(m.cases)
    /\ \A case \in Members(m.cases) :
         /\ IsList(case.prerequisites) /\ IsList(case.state_identities)
         /\ LET expected == case.expected_projection
            IN  expected = [digest |-> expected.digest, length |-> expected.length]
ASSUME ObservationsAssumption ==
  \A o \in Observations : IsList(o.observed_prerequisites) /\ IsProjection(o.projection)
ASSUME DeclaredAssumption ==
  \A d \in Declared : d = [prerequisite_id |-> d.prerequisite_id, identity |-> d.identity]
ASSUME SliceLengthsAssumption == SliceLengths \subseteq Nat

VARIABLES
  stream,   \* the call of verify_prerequisite_chunks that runs, if any
  heard,    \* history: the digests of Declared whose bytes were streamed to the end
  tokens,   \* the tokens obtained
  call,     \* the comparison that runs: its function, manifest and number of cases
  taken,    \* the evidence it has taken, the offending one included
  outcome   \* "open", "accepted" or "refused"

rowVars == <<stream, heard, tokens, call, taken, outcome>>

NoStream == [active |-> FALSE]
NoCall == [function |-> "none"]
Idle == ~stream.active /\ call = NoCall

RowInit == /\ stream = NoStream
           /\ heard = {}
           /\ tokens = {}
           /\ call = NoCall
           /\ taken = <<>>
           /\ outcome = "open"

-----------------------------------------------------------------------------
(* The manifest of a row.                                                    *)

Real == {"CurrentExactQwen", "CurrentExactGemma", "CurrentParakeetModelAudio",
         "AppleInstalledVoice"}
State == {"MomPriorReleaseStore", "LoomPriorProjectStore", "FteLegacyDatabase",
          "InformationResourceStore", "CorruptedDisposableCaches",
          "PartialPublicationStates"}
FixtureClass(row) ==
  IF row \in Real THEN "Real" ELSE IF row \in State THEN "State" ELSE "ModelFree"

\* The prerequisites a real row cannot do without, and their kinds.
Required(row) ==
  CASE row = "CurrentExactQwen" -> {<<"model.qwen.gguf", "exact">>}
    [] row = "CurrentExactGemma" -> {<<"model.gemma.gguf", "exact">>}
    [] row = "CurrentParakeetModelAudio" ->
         {<<"model.parakeet", "exact">>, <<"audio.input", "exact">>}
    [] row = "AppleInstalledVoice" -> {<<"voice.apple.installed", "inventory">>}
    [] OTHER -> {}

PrerequisiteOf(case, id) ==
  {p \in Members(case.prerequisites) : p.prerequisite_id = id}

CaseIsValid(row, case) ==
  /\ \A required \in Required(row) :
       \E p \in PrerequisiteOf(case, required[1]) :
         p.kind = required[2] /\ p.identity.length # 0
  /\ FixtureClass(row) = "State" => case.state_identities # <<>>
  /\ Unique(case.state_identities, LAMBDA state : state.state_id)
  /\ Unique(case.prerequisites, LAMBDA p : p.prerequisite_id)

HostedOmission == "live hosted-provider behavior"

\* validate_manifest, of a manifest whose revision and syntax are right.
RowManifestIsValid(manifest) ==
  /\ manifest.class = FixtureClass(manifest.vertical_id)
  /\ manifest.cases # <<>>
  /\ \A case \in Members(manifest.cases) : CaseIsValid(manifest.vertical_id, case)
  /\ Unique(manifest.cases, LAMBDA case : case.case_id)
  /\ Unique(manifest.omitted_claims, LAMBDA claim : claim)
  /\ manifest.vertical_id = "FteHostedFixtureLoopback" =>
       /\ HostedOmission \in Members(manifest.omitted_claims)
       /\ \A case \in Members(manifest.cases) : case.prerequisites = <<>>

-----------------------------------------------------------------------------
(* verify_prerequisite_chunks.                                               *)

OpenStream(declared) ==
  /\ Idle
  /\ Cardinality(tokens) < MaxTokens
  /\ stream' = [active |-> TRUE, declared |-> declared, digested |-> <<>>]
  /\ UNCHANGED <<heard, tokens, call, taken, outcome>>

\* The next chunk; a total that no u64 holds ends the call with an error.
ReadChunk(chunk) ==
  /\ stream.active
  /\ LET digested == stream.digested \o chunk IN
       stream' = IF Len(digested) > MaxLength THEN NoStream
                 ELSE [stream EXCEPT !.digested = digested]
  /\ UNCHANGED <<heard, tokens, call, taken, outcome>>

\* verify_artifact_bytes, and the end of verify_prerequisite_chunks.
Authentic(identity, bytes) == identity.length = Len(bytes) /\ identity.digest = bytes

EndStream ==
  /\ stream.active
  /\ heard' = heard \cup ({stream.digested} \cap {d.identity.digest : d \in Declared})
  /\ tokens' = IF Authentic(stream.declared.identity, stream.digested)
               THEN tokens \cup {stream.declared} ELSE tokens
  /\ stream' = NoStream
  /\ UNCHANGED <<call, taken, outcome>>

-----------------------------------------------------------------------------
(* An observation, and what binds it to a case.                              *)

ExecutionKinds(class) ==
  CASE class = "ModelFree" -> {"Fixture"}
    [] class = "Real" -> {"LocalRuntime"}
    [] class = "State" -> {"Fixture", "LocalRuntime"}

\* validate_observation.
ObservationIsValid(observation) ==
  /\ Unique(observation.observed_prerequisites, LAMBDA p : p.prerequisite_id)
  /\ ~observation.evidence.negative
  /\ observation.evidence.tier \in {"Operational", "Reproducible"}
  /\ observation.evidence.execution_kind
       \in ExecutionKinds(FixtureClass(observation.vertical_id))
  /\ ProjectionIsValidFor(observation.vertical_id, observation.projection)

\* bind_observed_prerequisites: as many as declared, and each declared one there.
PrerequisitesAreObserved(case, observation) ==
  /\ Len(case.prerequisites) = Len(observation.observed_prerequisites)
  /\ Members(case.prerequisites) \subseteq Members(observation.observed_prerequisites)

\* Mutant: it is not asked whether every declared state was observed.
StatesAreDeclared(case, projection) ==
  \A state \in Members(projection.durable_state) :
    \E declared \in Members(case.state_identities) :
      /\ declared.state_id = state.state_id
      /\ declared.schema_id = state.schema_id
      /\ declared.baseline = state.before

\* As many states as declared, and each of them declared, in the schema and with
\* the baseline it started from.
StatesAreBound(case, projection) ==
  /\ Len(case.state_identities) = Len(projection.durable_state)
  /\ \A state \in Members(projection.durable_state) :
       \E declared \in Members(case.state_identities) :
         /\ declared.state_id = state.state_id
         /\ declared.schema_id = state.schema_id
         /\ declared.baseline = state.before

\* validate_case_binding.
CaseIsBound(manifest, case, observation) ==
  /\ observation.vertical_id = manifest.vertical_id
  /\ observation.case_id = case.case_id
  /\ observation.evidence.omitted_claims = manifest.omitted_claims
  /\ PrerequisitesAreObserved(case, observation)
  /\ manifest.class = "State" => StatesAreBound(case, observation.projection)

\* The exact artifacts of a case; a valid manifest names no prerequisite twice.
Exact(case) == {p \in Members(case.prerequisites) : p.kind = "exact"}

\* Mutant: a token counts for whatever is declared under its id.
ExactAreNamed(case, supplied) ==
  {p.prerequisite_id : p \in Exact(case)}
    = {token.prerequisite_id : token \in Members(supplied)}

\* authenticate_exact_prerequisites: as many tokens as exact prerequisites, no
\* two for one id, and one for each of them, of its identity.
ExactAreAuthentic(case, supplied) ==
  /\ Unique(supplied, LAMBDA token : token.prerequisite_id)
  /\ Cardinality(Exact(case)) = Len(supplied)
  /\ \A p \in Exact(case) :
       \E token \in Members(supplied) :
         token.prerequisite_id = p.prerequisite_id /\ token.identity = p.identity

\* compare_projection.
ProjectionIsEqual(case, bytes, observation) ==
  /\ Authentic(case.expected_projection, bytes)
  /\ bytes \in DOMAIN ParseProjection
  /\ ProjectionIsValid(ParseProjection[bytes])
  /\ ParseProjection[bytes] = observation.projection

\* What both comparisons ask, and with it of the source the baseline was taken
\* from, or of the candidate's.
Compared(manifest, case_id, e) ==
  /\ RowManifestIsValid(manifest)
  /\ ObservationIsValid(e.observation)
  /\ \E case \in Members(manifest.cases) :
       /\ case.case_id = case_id
       /\ CaseIsBound(manifest, case, e.observation)
       /\ ExactAreAuthentic(case, e.tokens)
       /\ ProjectionIsEqual(case, e.bytes, e.observation)

BaselineIsValid(manifest, case_id, e) ==
  /\ Compared(manifest, case_id, e)
  /\ \E case \in Members(manifest.cases) :
       /\ case.case_id = case_id
       /\ e.observation.implementation_revision = case.commit
       /\ e.observation.evidence.exact_source = case.production_tree.digest

CandidateIsValid(manifest, case_id, e, source) ==
  /\ Compared(manifest, case_id, e)
  /\ Authentic(source.production_tree, source.bytes)
  /\ e.observation.implementation_revision = source.commit
  /\ e.observation.evidence.exact_source = source.production_tree.digest
  /\ \E case \in Members(manifest.cases) :
       case.case_id = case_id /\ source.repository_id = case.repository_id

-----------------------------------------------------------------------------
(* The comparisons.                                                          *)

\* The evidence of one case: a caller has no other tokens than it obtained.
TokenSeqs == UNION {[1 .. n -> tokens] : n \in SliceLengths}
Evidence == [bytes : ExpectedBytes, tokens : TokenSeqs, observation : Observations]

Finish(accepted) == outcome' = IF accepted THEN "accepted" ELSE "refused"
Verifies == UNCHANGED <<stream, heard, tokens>>

\* validate_row_baselines is called with a number of cases.
BeginRow(manifest, count) ==
  /\ Idle
  /\ call' = [function |-> "row", manifest |-> manifest, count |-> count]
  /\ IF RowManifestIsValid(manifest) /\ count = Len(manifest.cases)
     THEN UNCHANGED outcome ELSE Finish(FALSE)
  /\ Verifies /\ UNCHANGED taken

CaseIds == {case.case_id : case \in Members(call.manifest.cases)}
TakenIds == {e.observation.case_id : e \in Members(taken)}

\* The loop of validate_row_baselines over its cases.
CaseIsAccepted(e) ==
  LET case_id == e.observation.case_id IN
  /\ case_id \notin TakenIds
  /\ case_id \in CaseIds
  /\ BaselineIsValid(call.manifest, case_id, e)

TakesCases == call.function = "row" /\ outcome = "open" /\ Len(taken) < call.count

TakeCase(e) ==
  /\ TakesCases
  /\ taken' = Append(taken, e)
  /\ IF CaseIsAccepted(e) THEN UNCHANGED outcome ELSE Finish(FALSE)
  /\ Verifies /\ UNCHANGED call

EndOfCases ==
  /\ call.function = "row"
  /\ outcome = "open"
  /\ Len(taken) = call.count
  /\ Finish(TakenIds = CaseIds)
  /\ Verifies /\ UNCHANGED <<call, taken>>

\* validate_baseline and compare_candidate, of a case the caller names.
ValidateBaseline(manifest, case_id, e) ==
  /\ Idle
  /\ call' = [function |-> "baseline", manifest |-> manifest, case_id |-> case_id]
  /\ taken' = <<e>>
  /\ Finish(BaselineIsValid(manifest, case_id, e))
  /\ Verifies

CompareCandidate(manifest, case_id, e, source) ==
  /\ Idle
  /\ call' = [function |-> "candidate", manifest |-> manifest, case_id |-> case_id,
              source |-> source]
  /\ taken' = <<e>>
  /\ Finish(CandidateIsValid(manifest, case_id, e, source))
  /\ Verifies

NamedIds == UNION {{case.case_id : case \in Members(m.cases)} : m \in Manifests}

RowNext ==
  \/ \E declared \in Declared : OpenStream(declared)
  \/ \E chunk \in Chunks : ReadChunk(chunk)
  \/ EndStream
  \/ \E manifest \in Manifests, count \in SliceLengths : BeginRow(manifest, count)
  \/ TakesCases /\ \E e \in Evidence : TakeCase(e)
  \/ EndOfCases
  \/ Idle /\ \E manifest \in Manifests, case_id \in NamedIds, e \in Evidence :
       \/ ValidateBaseline(manifest, case_id, e)
       \/ \E source \in Sources : CompareCandidate(manifest, case_id, e, source)

-----------------------------------------------------------------------------
(* Properties.                                                               *)

\* e tells of a case what the case freezes: nothing is missing, nothing is added,
\* nothing comes twice (VERTICAL-FIXTURE-PROTOCOL.md:60-71).
TellsOf(e, manifest, case) ==
  LET o == e.observation
      AsSet(seq, set) == Members(seq) = set /\ Len(seq) = Cardinality(set)
  IN
  /\ <<o.vertical_id, o.case_id>> = <<manifest.vertical_id, case.case_id>>
  /\ o.evidence.omitted_claims = manifest.omitted_claims
  /\ AsSet(o.observed_prerequisites, Members(case.prerequisites))
  /\ AsSet(e.tokens, {[prerequisite_id |-> p.prerequisite_id, identity |-> p.identity] :
                        p \in Exact(case)})
  /\ manifest.class = "State" =>
       {<<s.state_id, s.schema_id, s.before>> : s \in Members(o.projection.durable_state)}
         = {<<s.state_id, s.schema_id, s.baseline>> : s \in Members(case.state_identities)}
  /\ e.bytes \in DOMAIN ParseProjection
  /\ case.expected_projection = [digest |-> e.bytes, length |-> Len(e.bytes)]
  /\ o.projection = ParseProjection[e.bytes]
  /\ ObservationIsValid(o)

IsBaseline(e, case) ==
  /\ e.observation.implementation_revision = case.commit
  /\ e.observation.evidence.exact_source = case.production_tree.digest

\* A row is complete exactly when every case of its sound manifest has its own
\* observation and there is no other (VERTICAL-FIXTURE-PROTOCOL.md:56).
RowIsComplete ==
  LET cases == call.manifest.cases IN
  /\ \A i \in DOMAIN cases : \E k \in DOMAIN taken : \A j \in DOMAIN cases :
       TellsOf(taken[k], call.manifest, cases[j]) /\ IsBaseline(taken[k], cases[j]) <=> j = i
  /\ Len(taken) = Len(cases)

RowVerdictIsExact ==
  call.function = "row" /\ outcome # "open" =>
    (outcome = "accepted" <=> RowManifestIsValid(call.manifest) /\ RowIsComplete)

\* Whatever is accepted, for a row or for a candidate, the bytes of each exact
\* artifact the case depends on were streamed to the end, in whatever chunks
\* (VERTICAL-FIXTURE-PROTOCOL.md:64-71).
ExactArtifactsWereStreamed ==
  outcome = "accepted" =>
    \A e \in Members(taken) : \E case \in Members(call.manifest.cases) :
      /\ case.case_id = e.observation.case_id
      /\ \A p \in Exact(case) :
           p.identity.digest \in heard /\ p.identity.length = Len(p.identity.digest)
=============================================================================
