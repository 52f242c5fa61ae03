\* Every lock of two rows over seven byte strings, and every way to stream them;
\* every comparison of up to three cases with up to three tokens each; every recording
\* of up to three events, two lifecycle facts or two effects.
SPECIFICATION SessionSpec
CONSTANTS
  Rows <- MCRows
  Class <- MCClass
  Contents <- MCContents
  Length <- MCLength
  Parse <- MCParse
  Revisions = {"r2", "r3"}
  W1_CONTRACT_REVISION = "r3"
  Manifests <- MCManifests
  Declared <- MCDeclared
  Chunks <- MCChunks
  Sources <- MCSources
  Observations <- MCObservations
  ExpectedBytes <- MCExpectedBytes
  ParseProjection <- MCParseProjection
  SliceLengths = {0, 1, 2, 3}
  MaxLength = 3
  MaxTokens = 2
  Unfinished <- MCUnfinished
  Identities <- MCIdentities
  Effects <- MCEffects
  MaxEvents = 3
  MaxFacts = 2
  MaxEffects = 2
INVARIANTS
  ManifestsMeetSoundEntries
  VerdictIsExact
  RowVerdictIsExact
  ExactArtifactsWereStreamed
  ProjectionVerdictIsExact
CHECK_DEADLOCK FALSE
