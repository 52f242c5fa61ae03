---- MODULE VerticalLock ----
(* validate_lock of platform-vertical-fixtures-v0 (validation.rs): a lock     *)
(* names, for every row of the catalogue, the identity of the manifest that   *)
(* describes it; the caller streams the bytes of the manifests in any order.  *)
(* The lock's entries are validated in one loop, the streams against them in  *)
(* another.  SHA-256 is taken to be without collisions, so that the bytes     *)
(* themselves stand for their digest; identifiers and commits are well formed *)
(* or not.                                                                    *)
EXTENDS Naturals, Sequences, FiniteSets

CONSTANTS
  Rows,      \* the catalogue, ALL_VERTICAL_IDS
  Class,     \* the class of each row, VerticalIdV0::class
  Contents,  \* the byte strings a caller may stream
  Length,    \* their lengths
  Parse,     \* the manifest each of them is, of those that are one
  Revisions, \* contract revisions
  W1_CONTRACT_REVISION

Classes == {Class[r] : r \in Rows}
Lengths == {Length[c] : c \in Contents}

\* A manifest: wellFormed stands for everything validate_manifest asks of the
\* cases, the omissions and the negative evidence.
Manifest == [vertical_id : Rows, class : Classes, contract_revision : Revisions,
             wellFormed : BOOLEAN]

ASSUME RowsAssumption == IsFiniteSet(Rows) /\ Class \in [Rows -> Classes]
ASSUME ParseAssumption ==
  /\ DOMAIN Parse \subseteq Contents
  /\ Parse \in [DOMAIN Parse -> Manifest]

Entry == [vertical_id : Rows, class : Classes, digest : Contents, length : Lengths,
          wellFormed : BOOLEAN]

VARIABLES
  header,           \* the lock's schema and commits are right, and its revision
  entries,          \* the entries read so far, the offending one included
  present,          \* the rows of the accepted ones
  manifest_digests, \* and their digests
  streams,          \* the contents streamed so far, the offending one included
  authenticated,    \* the rows whose manifest was authenticated
  pc,               \* where validate_lock is
  verdict           \* "open", "accepted", or the error returned

vars == <<header, entries, present, manifest_digests, streams, authenticated, pc, verdict>>

Header == [wellFormed : BOOLEAN, contract_revision : Revisions]

Init == /\ header \in Header
        /\ entries = <<>>
        /\ present = {}
        /\ manifest_digests = {}
        /\ streams = <<>>
        /\ authenticated = {}
        /\ pc = "header"
        /\ verdict = "open"

Return(error) == pc' = "done" /\ verdict' = error
Goto(label) == pc' = label /\ UNCHANGED verdict

ReadHeader ==
  /\ pc = "header"
  /\ IF header.wellFormed /\ header.contract_revision = W1_CONTRACT_REVISION
     THEN Goto("entries")
     ELSE Return("header")
  /\ UNCHANGED <<header, entries, present, manifest_digests, streams, authenticated>>

\* Mutant: one manifest may describe two rows.
EntryErrorShared(e) ==
  IF e.class # Class[e.vertical_id] THEN "entries.class"
  ELSE IF ~e.wellFormed THEN "entries.manifest"
  ELSE IF e.vertical_id \in present THEN "entries.vertical_id"
  ELSE "none"

\* What the loop over the entries objects to in e.
EntryError(e) ==
  IF e.class # Class[e.vertical_id] THEN "entries.class"
  ELSE IF ~e.wellFormed THEN "entries.manifest"
  ELSE IF e.digest \in manifest_digests THEN "entries.manifest.digest"
  ELSE IF e.vertical_id \in present THEN "entries.vertical_id"
  ELSE "none"

ReadEntry(e) ==
  /\ pc = "entries"
  /\ entries' = Append(entries, e)
  /\ IF EntryError(e) = "none"
     THEN /\ present' = present \cup {e.vertical_id}
          /\ manifest_digests' = manifest_digests \cup {e.digest}
          /\ Goto("entries")
     ELSE Return(EntryError(e)) /\ UNCHANGED <<present, manifest_digests>>
  /\ UNCHANGED <<header, streams, authenticated>>

\* The lock has no further entry.
EndOfEntries ==
  /\ pc = "entries"
  /\ IF ~(Rows \subseteq present) THEN Return("missing rows")
     ELSE IF Len(entries) # Cardinality(Rows) THEN Return("entries")
     ELSE Goto("manifests")
  /\ UNCHANGED <<header, entries, present, manifest_digests, streams, authenticated>>

\* validate_manifest, of the bytes c parsed.
ManifestIsValid(c) ==
  /\ Parse[c].class = Class[Parse[c].vertical_id]
  /\ Parse[c].contract_revision = W1_CONTRACT_REVISION
  /\ Parse[c].wellFormed

\* The entry of the lock for a row; the loop above has seen to its existence.
EntryOf(row) == LET i == CHOOSE j \in DOMAIN entries :
                           /\ entries[j].vertical_id = row
                           /\ \A k \in 1..(j - 1) : entries[k].vertical_id # row
                IN  entries[i]

\* Mutant: the bytes are not compared with the digest of the entry.
VerifyArtifactLength(entry, c) ==
  IF entry.length # Length[c] THEN "length mismatch" ELSE "none"

\* verify_artifact_bytes.
VerifyArtifact(entry, c) ==
  IF entry.length # Length[c] THEN "length mismatch"
  ELSE IF entry.digest # c THEN "digest mismatch"
  ELSE "none"

\* What the loop over the streams objects to in the bytes c.
StreamError(c) ==
  IF c \notin DOMAIN Parse THEN "manifest json"
  ELSE LET row == Parse[c].vertical_id IN
       IF ~ManifestIsValid(c) THEN "manifest"
       ELSE IF row \in authenticated THEN "manifests.vertical_id"
       ELSE IF \/ EntryOf(row).class # Parse[c].class
               \/ header.contract_revision # Parse[c].contract_revision
            THEN "entries.manifest"
       ELSE VerifyArtifact(EntryOf(row), c)

ReadStream(c) ==
  /\ pc = "manifests"
  /\ streams' = Append(streams, c)
  /\ IF StreamError(c) = "none"
     THEN authenticated' = authenticated \cup {Parse[c].vertical_id} /\ Goto("manifests")
     ELSE Return(StreamError(c)) /\ UNCHANGED authenticated
  /\ UNCHANGED <<header, entries, present, manifest_digests>>

\* The caller streams no further manifest.
EndOfStreams ==
  /\ pc = "manifests"
  /\ Return(IF Rows \subseteq authenticated THEN "accepted" ELSE "missing manifests")
  /\ UNCHANGED <<header, entries, present, manifest_digests, streams, authenticated>>

Next == \/ ReadHeader
        \/ \E e \in Entry : ReadEntry(e)
        \/ EndOfEntries
        \/ \E c \in Contents : ReadStream(c)
        \/ EndOfStreams

Spec == Init /\ [][Next]_vars

-----------------------------------------------------------------------------
(* Properties. *)

\* The lock names the manifest of each row once, and no manifest twice.
EntriesAreSound ==
  /\ \A r \in Rows : \E i \in DOMAIN entries :
       \A j \in DOMAIN entries : entries[j].vertical_id = r <=> j = i
  /\ \A i, j \in DOMAIN entries : entries[i].digest = entries[j].digest => i = j
  /\ \A i \in DOMAIN entries :
       entries[i].wellFormed /\ entries[i].class = Class[entries[i].vertical_id]

\* The caller streamed the manifest of each row once, byte for byte the one the
\* lock names for that row.
Describes(c, r) == c \in DOMAIN Parse /\ Parse[c].vertical_id = r
StreamsAreSound ==
  /\ \A r \in Rows : \E k \in DOMAIN streams :
       \A l \in DOMAIN streams : Describes(streams[l], r) <=> l = k
  /\ \A k \in DOMAIN streams :
       /\ streams[k] \in DOMAIN Parse
       /\ ManifestIsValid(streams[k])
       /\ \E i \in DOMAIN entries :
            /\ entries[i].vertical_id = Parse[streams[k]].vertical_id
            /\ entries[i].digest = streams[k]
            /\ entries[i].length = Length[streams[k]]

HeaderIsSound == header.wellFormed /\ header.contract_revision = W1_CONTRACT_REVISION

\* No manifest is looked at before the lock's entries are one for each row, each
\* with a digest of its own (VERTICAL-FIXTURE-PROTOCOL.md:34).
ManifestsMeetSoundEntries == pc = "manifests" => HeaderIsSound /\ EntriesAreSound

\* What was read is refused exactly when something is wrong with it: in any
\* order of entries and streams, an accepted lock is a one-to-one
\* correspondence of rows, entries and byte streams, and a correct lock with
\* all its manifests is never refused.
VerdictIsExact ==
  pc = "done" =>
    (verdict = "accepted" <=> HeaderIsSound /\ EntriesAreSound /\ StreamsAreSound)
====
