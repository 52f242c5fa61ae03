------------------------ MODULE VerticalFixturesProofs ------------------------
(* Two results about a session of the public calls, for every catalogue, every *)
(* manifest, declaration and observation, and every order of the calls.  The   *)
(* verdict of validate_lock is exact: its invariant says what the two loops    *)
(* know of what they have read so far.  And no comparison accepts an           *)
(* observation of an exact artifact whose bytes were not streamed to the end.  *)
EXTENDS VerticalFixtures, FiniteSetTheorems, FunctionTheorems, WellFoundedInduction, TLAPS

-----------------------------------------------------------------------------
(* validate_lock.                                                            *)

\* What the entries read without objection have in common.
EntriesAreClean ==
  /\ present = {entries[i].vertical_id : i \in DOMAIN entries}
  /\ manifest_digests = {entries[i].digest : i \in DOMAIN entries}
  /\ \A i, j \in DOMAIN entries :
       entries[i].vertical_id = entries[j].vertical_id => i = j
  /\ \A i, j \in DOMAIN entries : entries[i].digest = entries[j].digest => i = j
  /\ \A i \in DOMAIN entries :
       entries[i].wellFormed /\ entries[i].class = Class[entries[i].vertical_id]

\* What the bytes streamed without objection have in common.
Matches(c) == /\ c \in DOMAIN Parse
              /\ ManifestIsValid(c)
              /\ \E i \in DOMAIN entries :
                   /\ entries[i].vertical_id = Parse[c].vertical_id
                   /\ entries[i].digest = c
                   /\ entries[i].length = Length[c]
StreamsAreClean ==
  /\ authenticated = {Parse[streams[k]].vertical_id : k \in DOMAIN streams}
  /\ \A k, l \in DOMAIN streams :
       Parse[streams[k]].vertical_id = Parse[streams[l]].vertical_id => k = l
  /\ \A k \in DOMAIN streams : Matches(streams[k])

LockTypeOK == /\ header \in Header
          /\ entries \in Seq(Entry)
          /\ streams \in Seq(Contents)
          /\ pc \in {"header", "entries", "manifests", "done"}

LoopInv ==
  /\ pc = "header" => entries = <<>> /\ present = {} /\ manifest_digests = {}
  /\ pc \in {"header", "entries"} => streams = <<>> /\ authenticated = {}
  /\ pc = "entries" => HeaderIsSound /\ EntriesAreClean
  /\ pc = "manifests" => HeaderIsSound /\ EntriesAreSound /\ StreamsAreClean

LockInv == LockTypeOK /\ LoopInv /\ VerdictIsExact

\* What appending does to a sequence.
LEMMA Appended ==
  ASSUME NEW S, NEW s \in Seq(S), NEW x \in S
  PROVE  /\ Append(s, x) \in Seq(S)
         /\ DOMAIN Append(s, x) = DOMAIN s \cup {Len(s) + 1}
         /\ Len(s) + 1 \notin DOMAIN s
         /\ \A i \in DOMAIN s : Append(s, x)[i] = s[i]
         /\ Append(s, x)[Len(s) + 1] = x
OBVIOUS

\* When the entries are clean and name every row, there are as many as rows.
LEMMA OneEntryPerRow ==
  ASSUME entries \in Seq(Entry), EntriesAreClean, Rows \subseteq present
  PROVE  Len(entries) = Cardinality(Rows)
<1> DEFINE f == [i \in 1..Len(entries) |-> entries[i].vertical_id]
<1>1. ASSUME NEW i \in 1..Len(entries)
      PROVE  entries[i].vertical_id \in Rows
  <2>1. entries[i] \in Entry
    OBVIOUS
  <2>2. QED
    BY <2>1 DEF Entry
<1>2. f \in Bijection(1..Len(entries), Rows)
  <2>1. f \in [1..Len(entries) -> Rows]
    BY <1>1
  <2>2. \A i, j \in 1..Len(entries) : f[i] = f[j] => i = j
    BY DEF EntriesAreClean
  <2>3. \A r \in Rows : \E i \in 1..Len(entries) : f[i] = r
    BY DEF EntriesAreClean
  <2>4. QED
    BY <2>1, <2>2, <2>3, Fun_IsBij
<1>3. Len(entries) \in Nat
  OBVIOUS
<1>4. ExistsBijection(1..Len(entries), Rows)
  BY <1>2 DEF ExistsBijection
<1>5. QED
  BY <1>3, <1>4, FS_CountingElements

\* Clean entries that name every row are sound.
LEMMA CleanEntriesAreSound ==
  ASSUME entries \in Seq(Entry), EntriesAreClean, Rows \subseteq present
  PROVE  EntriesAreSound
<1>1. \A r \in Rows : \E i \in DOMAIN entries :
        \A j \in DOMAIN entries : entries[j].vertical_id = r <=> j = i
  BY DEF EntriesAreClean
<1>2. QED
  BY <1>1 DEF EntriesAreSound, EntriesAreClean

\* Before anything is read, the invariant holds.
LEMMA InitIsSafe == Init => LockInv
<1> SUFFICES ASSUME Init PROVE LockInv
  OBVIOUS
<1>1. LockTypeOK
  BY DEF Init, LockTypeOK
<1>2. LoopInv
  BY DEF Init, LoopInv
<1>3. VerdictIsExact
  BY DEF Init, VerdictIsExact
<1>4. QED
  BY <1>1, <1>2, <1>3 DEF LockInv

\* A header that is refused makes the lock unsound; one that is not, is sound.
LEMMA HeaderStep == LockInv /\ ReadHeader => LockInv'
<1> SUFFICES ASSUME LockInv, ReadHeader PROVE LockInv'
  OBVIOUS
<1>1. LockTypeOK'
  BY DEF LockInv, LockTypeOK, ReadHeader, Goto, Return
<1>2. EntriesAreClean'
  BY DEF LockInv, LoopInv, ReadHeader, EntriesAreClean
<1>3. CASE header.wellFormed /\ header.contract_revision = W1_CONTRACT_REVISION
  <2>1. pc' = "entries" /\ UNCHANGED <<header, entries, present, streams, authenticated>>
    BY <1>3 DEF ReadHeader, Goto
  <2>2. LoopInv'
    BY <1>2, <1>3, <2>1 DEF LockInv, LoopInv, ReadHeader, HeaderIsSound
  <2>3. QED
    BY <1>1, <2>1, <2>2 DEF LockInv, VerdictIsExact
<1>4. CASE ~(header.wellFormed /\ header.contract_revision = W1_CONTRACT_REVISION)
  <2>1. pc' = "done" /\ verdict' = "header" /\ header' = header
    BY <1>4 DEF ReadHeader, Return
  <2>2. ~HeaderIsSound'
    BY <1>4, <2>1 DEF HeaderIsSound
  <2>3. QED
    BY <1>1, <2>1, <2>2 DEF LockInv, LoopInv, VerdictIsExact
<1>5. QED
  BY <1>3, <1>4

\* The loop over the entries: what it objects to makes the entries unsound,
\* and what it does not leaves them clean.
LEMMA EntryStep ==
  ASSUME LockInv, NEW e \in Entry, ReadEntry(e)
  PROVE  LockInv'
<1> DEFINE n == Len(entries) + 1
<1>1. /\ pc = "entries" /\ entries' = Append(entries, e)
      /\ UNCHANGED <<header, streams, authenticated>>
  BY DEF ReadEntry
<1>2. /\ entries' \in Seq(Entry)
      /\ DOMAIN entries' = DOMAIN entries \cup {n}
      /\ n \notin DOMAIN entries
      /\ \A i \in DOMAIN entries : entries'[i] = entries[i]
      /\ entries'[n] = e
  BY <1>1, Appended DEF LockInv, LockTypeOK
<1>3. LockTypeOK'
  BY <1>1, <1>2 DEF LockInv, LockTypeOK, ReadEntry, Goto, Return
<1>4. HeaderIsSound /\ EntriesAreClean /\ streams = <<>> /\ authenticated = {}
  BY <1>1 DEF LockInv, LoopInv
<1>5. CASE EntryError(e) = "none"
  <2>1. /\ e.class = Class[e.vertical_id]
        /\ e.wellFormed
        /\ e.digest \notin manifest_digests
        /\ e.vertical_id \notin present
    BY <1>5 DEF EntryError
  <2>2. /\ present' = present \cup {e.vertical_id}
        /\ manifest_digests' = manifest_digests \cup {e.digest}
        /\ pc' = "entries"
    BY <1>1, <1>5 DEF ReadEntry, Goto
  <2>3. EntriesAreClean'
    BY <1>2, <1>4, <2>1, <2>2 DEF EntriesAreClean
  <2>4. LoopInv'
    BY <1>1, <1>4, <2>2, <2>3 DEF LoopInv, HeaderIsSound
  <2>5. QED
    BY <1>3, <2>2, <2>4 DEF LockInv, VerdictIsExact
<1>6. CASE EntryError(e) # "none"
  <2>1. pc' = "done" /\ verdict' = EntryError(e)
    BY <1>1, <1>6 DEF ReadEntry, Return
  <2>2. verdict' # "accepted"
    BY <2>1 DEF EntryError
  <2>3. ~EntriesAreSound'
    <3>1. CASE e.class # Class[e.vertical_id] \/ ~e.wellFormed
      BY <1>2, <3>1 DEF EntriesAreSound
    <3>2. CASE e.digest \in manifest_digests
      BY <1>2, <1>4, <3>2 DEF EntriesAreSound, EntriesAreClean
    <3>3. CASE e.vertical_id \in present
      <4>1. PICK i \in DOMAIN entries : entries[i].vertical_id = e.vertical_id
        BY <1>4, <3>3 DEF EntriesAreClean
      <4>2. e.vertical_id \in Rows
        BY DEF Entry
      <4>3. QED
        BY <1>2, <4>1, <4>2 DEF EntriesAreSound
    <3>4. QED
      BY <1>6, <3>1, <3>2, <3>3 DEF EntryError
  <2>4. QED
    BY <1>3, <2>1, <2>2, <2>3 DEF LockInv, LoopInv, VerdictIsExact
<1>7. QED
  BY <1>5, <1>6

\* Leaving the loop: the entries are sound, or a row is missing.
LEMMA EndOfEntriesStep == LockInv /\ EndOfEntries => LockInv'
<1> SUFFICES ASSUME LockInv, EndOfEntries PROVE LockInv'
  OBVIOUS
<1>1. /\ pc = "entries"
      /\ UNCHANGED <<header, entries, present, manifest_digests, streams, authenticated>>
  BY DEF EndOfEntries
<1>2. LockTypeOK'
  BY <1>1 DEF LockInv, LockTypeOK, EndOfEntries, Goto, Return
<1>3. /\ HeaderIsSound /\ EntriesAreClean /\ streams = <<>> /\ authenticated = {}
      /\ entries \in Seq(Entry)
  BY <1>1 DEF LockInv, LoopInv, LockTypeOK
<1>4. CASE Rows \subseteq present
  <2>1. Len(entries) = Cardinality(Rows)
    BY <1>3, <1>4, OneEntryPerRow
  <2>2. pc' = "manifests"
    BY <1>1, <1>4, <2>1 DEF EndOfEntries, Goto
  <2>3. EntriesAreSound
    BY <1>3, <1>4, CleanEntriesAreSound
  <2>4. HeaderIsSound' /\ EntriesAreSound' /\ StreamsAreClean'
    BY <1>1, <1>3, <2>3 DEF HeaderIsSound, EntriesAreSound, StreamsAreClean
  <2>5. QED
    BY <1>2, <2>2, <2>4 DEF LockInv, LoopInv, VerdictIsExact
<1>5. CASE ~(Rows \subseteq present)
  <2>1. pc' = "done" /\ verdict' = "missing rows"
    BY <1>1, <1>5 DEF EndOfEntries, Return
  <2>2. PICK r \in Rows : \A i \in DOMAIN entries : entries[i].vertical_id # r
    BY <1>3, <1>5 DEF EntriesAreClean
  <2>3. ~EntriesAreSound'
    BY <1>1, <2>2 DEF EntriesAreSound
  <2>4. QED
    BY <1>2, <2>1, <2>3 DEF LockInv, LoopInv, VerdictIsExact
<1>6. QED
  BY <1>4, <1>5

\* The one entry of a row is the one found for it.
LEMMA EntryOfRow ==
  ASSUME entries \in Seq(Entry), EntriesAreSound, NEW i \in DOMAIN entries
  PROVE  EntryOf(entries[i].vertical_id) = entries[i]
<1> DEFINE own == entries[i].vertical_id
           First(j) == /\ entries[j].vertical_id = own
                       /\ \A k \in 1..(j - 1) : entries[k].vertical_id # own
<1>1. own \in Rows
  <2>1. entries[i] \in Entry
    OBVIOUS
  <2>2. QED
    BY <2>1 DEF Entry
<1>2. \A j \in DOMAIN entries : entries[j].vertical_id = own => j = i
  BY <1>1 DEF EntriesAreSound
<1>3. First(i)
  <2>1. ASSUME NEW k \in 1..(i - 1) PROVE k \in DOMAIN entries /\ k # i
    OBVIOUS
  <2>2. QED
    BY <1>2, <2>1
<1>4. (CHOOSE j \in DOMAIN entries : First(j)) = i
  BY <1>2, <1>3
<1>5. QED
  BY <1>4 DEF EntryOf

\* The loop over the streams: what it objects to makes the streams unsound,
\* and what it does not leaves them clean.
LEMMA ManifestStep ==
  ASSUME LockInv, NEW c \in Contents, ReadStream(c)
  PROVE  LockInv'
<1> DEFINE n == Len(streams) + 1
           own == Parse[c].vertical_id
<1>1. /\ pc = "manifests" /\ streams' = Append(streams, c)
      /\ UNCHANGED <<header, entries, present, manifest_digests>>
  BY DEF ReadStream
<1>2. /\ streams' \in Seq(Contents)
      /\ DOMAIN streams' = DOMAIN streams \cup {n}
      /\ n \notin DOMAIN streams
      /\ \A i \in DOMAIN streams : streams'[i] = streams[i]
      /\ streams'[n] = c
  BY <1>1, Appended DEF LockInv, LockTypeOK
<1>3. LockTypeOK'
  BY <1>1, <1>2 DEF LockInv, LockTypeOK, ReadStream, Goto, Return
<1>4. /\ HeaderIsSound /\ EntriesAreSound /\ StreamsAreClean
      /\ entries \in Seq(Entry)
  BY <1>1 DEF LockInv, LoopInv, LockTypeOK
<1>5. /\ HeaderIsSound' /\ EntriesAreSound'
      /\ \A d \in Contents : Matches(d)' <=> Matches(d)
  BY <1>1, <1>4 DEF HeaderIsSound, EntriesAreSound, Matches, ManifestIsValid
<1>6. c \in DOMAIN Parse => own \in Rows
  BY ParseAssumption DEF Manifest
<1>7. c \in DOMAIN Parse =>
        \E i \in DOMAIN entries : entries[i].vertical_id = own /\ EntryOf(own) = entries[i]
  BY <1>4, <1>6, EntryOfRow DEF EntriesAreSound
<1>8. CASE StreamError(c) = "none"
  <2>1. /\ c \in DOMAIN Parse
        /\ ManifestIsValid(c)
        /\ own \notin authenticated
        /\ VerifyArtifact(EntryOf(own), c) = "none"
    BY <1>8 DEF StreamError
  <2>2. EntryOf(own).length = Length[c] /\ EntryOf(own).digest = c
    BY <2>1 DEF VerifyArtifact
  <2>3. Matches(c)
    BY <1>7, <2>1, <2>2 DEF Matches
  <2>4. authenticated' = authenticated \cup {own} /\ pc' = "manifests"
    BY <1>1, <1>8 DEF ReadStream, Goto
  <2>5. StreamsAreClean'
    <3>1. (authenticated = {Parse[streams[k]].vertical_id : k \in DOMAIN streams})'
      BY <1>2, <1>4, <2>4 DEF StreamsAreClean
    <3>2. (\A k, l \in DOMAIN streams :
             Parse[streams[k]].vertical_id = Parse[streams[l]].vertical_id => k = l)'
      BY <1>2, <1>4, <2>1 DEF StreamsAreClean
    <3>3. (\A k \in DOMAIN streams : Matches(streams[k]))'
      BY <1>1, <1>2, <1>4, <2>3 DEF StreamsAreClean, Matches, ManifestIsValid
    <3>4. QED
      BY <3>1, <3>2, <3>3 DEF StreamsAreClean
  <2>6. QED
    BY <1>3, <1>5, <2>4, <2>5 DEF LockInv, LoopInv, VerdictIsExact
<1>9. CASE StreamError(c) # "none"
  <2>1. pc' = "done" /\ verdict' = StreamError(c)
    BY <1>1, <1>9 DEF ReadStream, Return
  <2>2. verdict' # "accepted"
    BY <2>1 DEF StreamError, VerifyArtifact
  <2>3. ASSUME StreamsAreSound' PROVE FALSE
    <3>1. /\ c \in DOMAIN Parse
          /\ ManifestIsValid(c)
      BY <1>2, <2>3 DEF StreamsAreSound, ManifestIsValid
    <3>2. PICK j \in DOMAIN entries : /\ entries[j].vertical_id = own
                                      /\ entries[j].digest = c
                                      /\ entries[j].length = Length[c]
      BY <1>1, <1>2, <2>3 DEF StreamsAreSound
    <3>3. EntryOf(own) = entries[j]
      BY <1>4, <3>2, EntryOfRow
    <3>4. VerifyArtifact(EntryOf(own), c) = "none"
      BY <3>2, <3>3 DEF VerifyArtifact
    <3>5. /\ EntryOf(own).class = Parse[c].class
          /\ header.contract_revision = Parse[c].contract_revision
      BY <1>4, <3>1, <3>2, <3>3 DEF EntriesAreSound, HeaderIsSound, ManifestIsValid
    <3>6. own \notin authenticated
      <4>1. PICK k \in DOMAIN streams' :
              \A l \in DOMAIN streams' : Describes(streams'[l], own) <=> l = k
        BY <1>6, <2>3, <3>1 DEF StreamsAreSound, Describes
      <4>2. \A l \in DOMAIN streams : Describes(streams[l], own) => FALSE
        BY <1>2, <3>1, <4>1 DEF Describes
      <4>3. QED
        BY <1>4, <4>2 DEF StreamsAreClean, Matches, Describes
    <3>7. QED
      BY <1>9, <3>1, <3>4, <3>5, <3>6 DEF StreamError
  <2>4. QED
    BY <1>3, <2>1, <2>2, <2>3 DEF LockInv, LoopInv, VerdictIsExact
<1>10. QED
  BY <1>8, <1>9

\* At the end the streams are sound exactly when every row was authenticated.
LEMMA EndOfStreamsStep == LockInv /\ EndOfStreams => LockInv'
<1> SUFFICES ASSUME LockInv, EndOfStreams PROVE LockInv'
  OBVIOUS
<1>1. /\ pc = "manifests" /\ pc' = "done"
      /\ verdict' = IF Rows \subseteq authenticated THEN "accepted" ELSE "missing manifests"
      /\ UNCHANGED <<header, entries, present, manifest_digests, streams, authenticated>>
  BY DEF EndOfStreams, Return
<1>2. LockTypeOK'
  BY <1>1 DEF LockInv, LockTypeOK
<1>3. HeaderIsSound /\ EntriesAreSound /\ StreamsAreClean
  BY <1>1 DEF LockInv, LoopInv
<1>4. Rows \subseteq authenticated <=> StreamsAreSound
  <2>1. ASSUME NEW r \in Rows, r \in authenticated
        PROVE  \E k \in DOMAIN streams :
                 \A l \in DOMAIN streams : Describes(streams[l], r) <=> l = k
    BY <1>3, <2>1 DEF StreamsAreClean, Matches, Describes
  <2>2. ASSUME NEW r \in Rows, r \notin authenticated
        PROVE  ~StreamsAreSound
    <3>1. \A l \in DOMAIN streams : ~Describes(streams[l], r)
      BY <1>3, <2>2 DEF StreamsAreClean, Describes
    <3>2. QED
      BY <3>1 DEF StreamsAreSound
  <2>3. QED
    BY <1>3, <2>1, <2>2 DEF StreamsAreSound, StreamsAreClean, Matches
<1>5. (StreamsAreSound' <=> StreamsAreSound) /\ HeaderIsSound' /\ EntriesAreSound'
  <2>1. header' = header /\ entries' = entries /\ streams' = streams
    BY <1>1
  <2>2. HeaderIsSound'
    BY <1>3, <2>1 DEF HeaderIsSound
  <2>3. EntriesAreSound'
    BY <1>3, <2>1 DEF EntriesAreSound
  <2>4. StreamsAreSound' <=> StreamsAreSound
    BY <2>1 DEF StreamsAreSound, Describes, ManifestIsValid
  <2>5. QED
    BY <2>2, <2>3, <2>4
<1>6. QED
  BY <1>1, <1>2, <1>4, <1>5 DEF LockInv, LoopInv, VerdictIsExact

\* Every step keeps the inductive invariant.
LEMMA LockStepIsSafe == LockInv /\ [Next]_vars => LockInv'
<1> SUFFICES ASSUME LockInv, [Next]_vars PROVE LockInv'
  OBVIOUS
<1>1. CASE ReadHeader
  BY <1>1, HeaderStep
<1>2. ASSUME NEW e \in Entry, ReadEntry(e) PROVE LockInv'
  BY <1>2, EntryStep
<1>3. CASE EndOfEntries
  BY <1>3, EndOfEntriesStep
<1>4. ASSUME NEW c \in Contents, ReadStream(c) PROVE LockInv'
  BY <1>4, ManifestStep
<1>5. CASE EndOfStreams
  BY <1>5, EndOfStreamsStep
<1>6. CASE UNCHANGED vars
  BY <1>6
  DEF vars, LockInv, LockTypeOK, LoopInv, VerdictIsExact, HeaderIsSound, EntriesAreSound,
      EntriesAreClean, StreamsAreSound, StreamsAreClean, Matches, Describes, ManifestIsValid
<1>7. QED
  BY <1>1, <1>2, <1>3, <1>4, <1>5, <1>6 DEF Next

\* The lock's part of a session: a call of validate_lock, or nothing.
LEMMA LockInvariant == SessionSpec => []LockInv
<1>1. SessionInit => LockInv
  BY InitIsSafe DEF SessionInit
<1>2. LockInv /\ [SessionNext]_<<vars, rowVars, recorded>> => LockInv'
  <2>1. [SessionNext]_<<vars, rowVars, recorded>> => [Next]_vars
    BY DEF SessionNext
  <2> QED
    BY <2>1, LockStepIsSafe
<1> QED
  BY <1>1, <1>2, PTL DEF SessionSpec

\* validate_lock accepts exactly the locks whose rows, entries and streamed
\* manifests correspond one to one, for any catalogue and in any order.
THEOREM LockVerdictIsExact == SessionSpec => []VerdictIsExact
<1>1. LockInv => VerdictIsExact
  BY DEF LockInv
<1> QED
  BY <1>1, LockInvariant, PTL

\* The second loop relies on the first: no manifest is compared with an entry
\* before the entries are one for each row.
THEOREM ManifestsMeetSoundEntriesHolds == SessionSpec => []ManifestsMeetSoundEntries
<1>1. LockInv => ManifestsMeetSoundEntries
  BY DEF LockInv, LoopInv, ManifestsMeetSoundEntries
<1> QED
  BY <1>1, LockInvariant, PTL

-----------------------------------------------------------------------------
(* The comparisons.                                                          *)

\* What is streamed is compared with a declaration the caller made.
StreamInv ==
  stream.active => "declared" \in DOMAIN stream /\ stream.declared \in Declared

\* A token is only had for bytes that were heard to the end.
WasHeard(token) ==
  token.identity.digest \in heard /\ token.identity.length = Len(token.identity.digest)
TokensInv == tokens \subseteq Declared /\ \A token \in tokens : WasHeard(token)

Taken == [bytes : ExpectedBytes, tokens : Seq(Declared), observation : Observations]
TakenInv ==
  /\ taken \in Seq(Taken)
  /\ call = NoCall => taken = <<>>
  /\ \A e \in Members(taken) : Members(e.tokens) \subseteq tokens

\* Until a comparison refuses, what it took is about a case, with its tokens.
Bound(e, manifest) ==
  \E case \in Members(manifest.cases) :
    case.case_id = e.observation.case_id /\ ExactAreAuthentic(case, e.tokens)
BoundInv == outcome # "refused" => \A e \in Members(taken) : Bound(e, call.manifest)

IInv == StreamInv /\ TokensInv /\ TakenInv /\ BoundInv

-----------------------------------------------------------------------------

\* The evidence a caller passes holds tokens it obtained and no other.
LEMMA EvidenceIsTaken ==
  ASSUME tokens \subseteq Declared, NEW e \in Evidence
  PROVE  e \in Taken /\ Members(e.tokens) \subseteq tokens
<1>1. e.tokens \in TokenSeqs /\ e \in [bytes : ExpectedBytes, tokens : TokenSeqs, observation : Observations]
  BY DEF Evidence
<1>2. ASSUME NEW s \in TokenSeqs
      PROVE  s \in Seq(Declared) /\ Members(s) \subseteq tokens
  <2>1. PICK n \in SliceLengths : s \in [1 .. n -> tokens]
    BY DEF TokenSeqs
  <2>2. n \in Nat
    BY SliceLengthsAssumption
  <2>3. s \in Seq(tokens) /\ s \in Seq(Declared)
    BY <2>1, <2>2
  <2> QED
    BY <2>1, <2>3 DEF Members
<1> QED
  BY <1>1, <1>2 DEF Taken

\* A comparison that accepts evidence found the case it is about.
LEMMA ComparedIsBound ==
  ASSUME NEW manifest, NEW case_id, NEW e, Compared(manifest, case_id, e)
  PROVE  Bound(e, manifest)
<1>1. PICK case \in Members(manifest.cases) :
        CaseIsBound(manifest, case, e.observation) /\ ExactAreAuthentic(case, e.tokens)
  BY DEF Compared
<1>2. case.case_id = e.observation.case_id
  BY <1>1 DEF CaseIsBound
<1> QED
  BY <1>1, <1>2 DEF Bound

\* The members of a sequence of one, and of one that grows.
LEMMA Singleton == ASSUME NEW e PROVE Members(<<e>>) = {e}
BY DEF Members

LEMMA Grown ==
  ASSUME NEW S, NEW s \in Seq(S), NEW e \in S
  PROVE  Append(s, e) \in Seq(S) /\ Members(Append(s, e)) = Members(s) \cup {e}
<1>1. /\ Append(s, e) \in Seq(S)
      /\ DOMAIN Append(s, e) = DOMAIN s \cup {Len(s) + 1}
      /\ \A i \in DOMAIN s : Append(s, e)[i] = s[i]
      /\ Append(s, e)[Len(s) + 1] = e
  OBVIOUS
<1>2. ASSUME NEW i \in DOMAIN s PROVE i # Len(s) + 1
  OBVIOUS
<1> QED
  BY <1>1, <1>2 DEF Members

-----------------------------------------------------------------------------

LEMMA RowInitial == RowInit => IInv
BY DEF RowInit, IInv, StreamInv, TokensInv, TakenInv, BoundInv, NoStream, Members

\* The end of a stream: a token is had only for what was heard just now.
LEMMA StreamEnds == IInv /\ EndStream => IInv'
<1> SUFFICES ASSUME IInv, EndStream PROVE IInv'
  OBVIOUS
<1> DEFINE declared == stream.declared
<1>1. declared \in Declared
  BY DEF EndStream, IInv, StreamInv
<1>2. heard \subseteq heard'
  BY DEF EndStream
<1>3. ASSUME Authentic(declared.identity, stream.digested)
      PROVE  /\ declared.identity.digest \in heard'
             /\ declared.identity.length = Len(declared.identity.digest)
  <2>1. stream.digested = declared.identity.digest
        /\ declared.identity.length = Len(declared.identity.digest)
    BY <1>3 DEF Authentic
  <2>2. stream.digested \in heard'
    BY <1>1, <2>1 DEF EndStream
  <2>3. declared.identity.digest \in heard'
    BY <2>1, <2>2
  <2> QED
    BY <2>1, <2>3
<1>4. TokensInv'
  <2>1. \A token \in tokens : token.identity.digest \in heard'
          /\ token.identity.length = Len(token.identity.digest)
    BY <1>2 DEF IInv, TokensInv, WasHeard
  <2>2. CASE Authentic(declared.identity, stream.digested)
    <3>1. tokens' = tokens \cup {declared}
      BY <2>2 DEF EndStream
    <3> QED
      BY <1>1, <1>3, <2>1, <2>2, <3>1 DEF IInv, TokensInv, WasHeard
  <2>3. CASE ~Authentic(declared.identity, stream.digested)
    BY <2>1, <2>3 DEF EndStream, IInv, TokensInv, WasHeard
  <2> QED
    BY <2>2, <2>3
<1>5. tokens \subseteq tokens' /\ UNCHANGED <<call, taken, outcome>> /\ stream' = NoStream
  BY DEF EndStream
<1>6. StreamInv' /\ TakenInv' /\ BoundInv'
  BY <1>5 DEF IInv, StreamInv, TakenInv, BoundInv, NoStream
<1> QED
  BY <1>4, <1>6 DEF IInv

\* A comparison of one case leaves exactly its evidence behind.
LEMMA OneIsCompared ==
  ASSUME IInv, NEW e \in Evidence, NEW manifest, NEW accepted,
         taken' = <<e>>, call' # NoCall, call'.manifest = manifest,
         Finish(accepted), Verifies, accepted => Bound(e, manifest)
  PROVE  IInv'
<1>1. e \in Taken /\ Members(e.tokens) \subseteq tokens
  BY EvidenceIsTaken DEF IInv, TokensInv
<1>2. Members(taken') = {e}
  BY Singleton
<1>3. StreamInv' /\ TokensInv'
  BY DEF Verifies, IInv, StreamInv, TokensInv, WasHeard
<1>4. TakenInv'
  <2>1. taken' \in Seq(Taken)
    BY <1>1
  <2> QED
    BY <1>1, <1>2, <2>1 DEF TakenInv, Verifies
<1>5. BoundInv'
  BY <1>2 DEF BoundInv, Finish
<1> QED
  BY <1>3, <1>4, <1>5 DEF IInv

LEMMA RowStep == IInv /\ RowNext => IInv'
<1> SUFFICES ASSUME IInv, RowNext PROVE IInv'
  OBVIOUS
<1>1. ASSUME NEW declared \in Declared, OpenStream(declared)
      PROVE  IInv'
  BY <1>1 DEF OpenStream, IInv, StreamInv, TokensInv, WasHeard, TakenInv, BoundInv
<1>2. ASSUME NEW chunk \in Chunks, ReadChunk(chunk)
      PROVE  IInv'
  <2> DEFINE digested == stream.digested \o chunk
  <2>1. stream' \in {NoStream, [stream EXCEPT !.digested = digested]}
    BY <1>2 DEF ReadChunk
  <2>2. stream.active /\ UNCHANGED <<heard, tokens, call, taken, outcome>>
    BY <1>2 DEF ReadChunk
  <2>3. StreamInv'
    <3> HIDE DEF digested
    <3> QED
      BY <2>1, <2>2 DEF IInv, StreamInv, NoStream
  <2> QED
    BY <2>2, <2>3 DEF IInv, TokensInv, WasHeard, TakenInv, BoundInv
<1>3. CASE EndStream
  BY <1>3, StreamEnds
<1>4. ASSUME NEW manifest \in Manifests, NEW count \in SliceLengths, BeginRow(manifest, count)
      PROVE  IInv'
  <2>1. Verifies /\ taken' = taken /\ taken = <<>>
    BY <1>4 DEF BeginRow, Idle, IInv, TakenInv
  <2>2. Members(taken') = {}
    BY <2>1 DEF Members
  <2> QED
    BY <2>1, <2>2 DEF Verifies, IInv, StreamInv, TokensInv, WasHeard, TakenInv, BoundInv
<1>5. ASSUME NEW e \in Evidence, TakeCase(e)
      PROVE  IInv'
  <2>1. e \in Taken /\ Members(e.tokens) \subseteq tokens
    BY EvidenceIsTaken DEF IInv, TokensInv
  <2>2. Verifies /\ call' = call /\ taken' = Append(taken, e)
        /\ call # NoCall /\ outcome # "refused"
    BY <1>5 DEF TakeCase, TakesCases, NoCall
  <2>3. taken' \in Seq(Taken) /\ Members(taken') = Members(taken) \cup {e}
    BY <2>1, <2>2, Grown DEF IInv, TakenInv
  <2>4. outcome' # "refused" => Bound(e, call.manifest)
    <3>1. outcome' # "refused" => CaseIsAccepted(e)
      BY <1>5 DEF TakeCase, Finish
    <3>2. CaseIsAccepted(e) => Compared(call.manifest, e.observation.case_id, e)
      BY DEF CaseIsAccepted, BaselineIsValid
    <3> QED
      BY <3>1, <3>2, ComparedIsBound
  <2>5. TakenInv'
    BY <2>1, <2>2, <2>3 DEF IInv, TakenInv, Verifies
  <2>6. BoundInv'
    BY <2>2, <2>3, <2>4 DEF IInv, BoundInv
  <2> QED
    BY <2>2, <2>5, <2>6 DEF Verifies, IInv, StreamInv, TokensInv, WasHeard
<1>6. CASE EndOfCases
  BY <1>6 DEF EndOfCases, Finish, Verifies, IInv, StreamInv, TokensInv, WasHeard, TakenInv, BoundInv
<1>7. ASSUME NEW manifest \in Manifests, NEW case_id \in NamedIds, NEW e \in Evidence,
             ValidateBaseline(manifest, case_id, e)
      PROVE  IInv'
  <2>1. BaselineIsValid(manifest, case_id, e) => Bound(e, manifest)
    BY ComparedIsBound DEF BaselineIsValid
  <2>2. call' # NoCall /\ call'.manifest = manifest
    BY <1>7 DEF ValidateBaseline, NoCall
  <2> QED
    BY <1>7, <2>1, <2>2, OneIsCompared DEF ValidateBaseline
<1>8. ASSUME NEW manifest \in Manifests, NEW case_id \in NamedIds, NEW e \in Evidence,
             NEW source \in Sources, CompareCandidate(manifest, case_id, e, source)
      PROVE  IInv'
  <2>1. CandidateIsValid(manifest, case_id, e, source) => Bound(e, manifest)
    BY ComparedIsBound DEF CandidateIsValid
  <2>2. call' # NoCall /\ call'.manifest = manifest
    BY <1>8 DEF CompareCandidate, NoCall
  <2> QED
    BY <1>8, <2>1, <2>2, OneIsCompared DEF CompareCandidate
<1> QED
  BY <1>1, <1>2, <1>3, <1>4, <1>5, <1>6, <1>7, <1>8 DEF RowNext

LEMMA RowKept == IInv /\ UNCHANGED rowVars => IInv'
BY DEF rowVars, IInv, StreamInv, TokensInv, WasHeard, TakenInv, BoundInv

LEMMA ArtifactsOfAccepted == IInv => ExactArtifactsWereStreamed
<1> SUFFICES ASSUME IInv, outcome = "accepted", NEW e \in Members(taken)
             PROVE  \E case \in Members(call.manifest.cases) :
                      /\ case.case_id = e.observation.case_id
                      /\ \A p \in Exact(case) :
                           /\ p.identity.digest \in heard
                           /\ p.identity.length = Len(p.identity.digest)
  BY DEF ExactArtifactsWereStreamed
<1>1. PICK case \in Members(call.manifest.cases) :
        case.case_id = e.observation.case_id /\ ExactAreAuthentic(case, e.tokens)
  BY DEF IInv, BoundInv, Bound
<1>2. ASSUME NEW p \in Exact(case)
      PROVE  p.identity.digest \in heard /\ p.identity.length = Len(p.identity.digest)
  <2>1. PICK token \in Members(e.tokens) : token.identity = p.identity
    BY <1>1 DEF ExactAreAuthentic
  <2>2. WasHeard(token)
    BY DEF IInv, TokensInv, TakenInv
  <2> QED
    BY <2>1, <2>2 DEF WasHeard
<1> QED
  BY <1>1, <1>2

\* Whatever validate_baseline, validate_row_baselines or compare_candidate
\* accepts, the bytes of every exact artifact its case depends on went through
\* verify_prerequisite_chunks to the end, in whatever chunks and order.
THEOREM ExactArtifactsWereStreamedHolds == SessionSpec => []ExactArtifactsWereStreamed
<1>1. SessionInit => IInv
  BY RowInitial DEF SessionInit
<1>2. IInv /\ [SessionNext]_<<vars, rowVars, recorded>> => IInv'
  BY RowStep, RowKept DEF SessionNext
<1> QED
  BY <1>1, <1>2, ArtifactsOfAccepted, PTL DEF SessionSpec

-----------------------------------------------------------------------------
(* Lists without repetition.                                                 *)

\* A list of n keys names as many keys as it has places exactly when no key
\* comes twice.
LEMMA Counted ==
  ASSUME NEW n \in Nat, NEW f, NEW R, f = [i \in 1..n |-> f[i]], R = {f[i] : i \in 1..n}
  PROVE  /\ IsFiniteSet(R) /\ Cardinality(R) \in Nat
         /\ Cardinality(R) = n <=> \A i, j \in 1..n : f[i] = f[j] => i = j
<1>1. IsFiniteSet(1..n) /\ Cardinality(1..n) = n
  BY FS_Interval
<1>2. f \in Surjection(1..n, R)
  <2>1. f \in [1..n -> R]
    OBVIOUS
  <2> QED
    BY <2>1 DEF Surjection
<1>3. IsFiniteSet(R) /\ (Cardinality(R) = Cardinality(1..n) <=> f \in Injection(1..n, R))
  BY <1>1, <1>2, FS_Surjection, Zenon
<1>4. Cardinality(R) \in Nat
  BY <1>3, FS_CardinalityType
<1>5. f \in Injection(1..n, R) <=> \A i, j \in 1..n : f[i] = f[j] => i = j
  BY <1>2 DEF Injection, Surjection, IsInjective
<1> QED
  BY <1>1, <1>3, <1>4, <1>5

\* A list has a length, and its places are numbered up to it.
LEMMA Lists ==
  ASSUME NEW s, IsList(s)
  PROVE  /\ Len(s) \in Nat
         /\ DOMAIN s = 1..Len(s)
         /\ s = <<>> <=> Len(s) = 0
BY DEF IsList

\* The keys k of a list are as many as its places when no key comes twice.
LEMMA Keyed ==
  ASSUME NEW s, IsList(s), NEW k, NEW R, R = {k[x] : x \in Members(s)}
  PROVE  /\ IsFiniteSet(R) /\ Cardinality(R) \in Nat
         /\ Cardinality(R) = Len(s) <=> \A i, j \in DOMAIN s : k[s[i]] = k[s[j]] => i = j
<1> DEFINE f == [i \in 1..Len(s) |-> k[s[i]]]
<1>1. Len(s) \in Nat /\ DOMAIN s = 1..Len(s)
  BY Lists
<1>2. R = {f[i] : i \in 1..Len(s)}
  BY <1>1 DEF Members
<1>3. f = [i \in 1..Len(s) |-> f[i]]
  OBVIOUS
<1>4. /\ IsFiniteSet(R) /\ Cardinality(R) \in Nat
      /\ Cardinality(R) = Len(s) <=> \A i, j \in 1..Len(s) : f[i] = f[j] => i = j
  <2> HIDE DEF f
  <2> QED
    BY <1>1, <1>2, <1>3, Counted
<1> QED
  BY <1>1, <1>4

\* Uniqueness of the keys that are used.
LEMMA UniqueItself ==
  ASSUME NEW s, IsList(s)
  PROVE  /\ Unique(s, LAMBDA x : x) <=> \A i, j \in DOMAIN s : s[i] = s[j] => i = j
         /\ IsFiniteSet(Members(s))
         /\ Cardinality(Members(s)) = Len(s) <=> \A i, j \in DOMAIN s : s[i] = s[j] => i = j
<1> DEFINE k == [x \in Members(s) |-> x]
<1>1. Members(s) = {k[x] : x \in Members(s)}
  OBVIOUS
<1>2. \A i \in DOMAIN s : k[s[i]] = s[i]
  BY DEF Members
<1>3. /\ IsFiniteSet(Members(s))
      /\ Cardinality(Members(s)) = Len(s) <=> \A i, j \in DOMAIN s : s[i] = s[j] => i = j
  <2> HIDE DEF k
  <2>1. PICK R : R = {k[x] : x \in Members(s)}
    OBVIOUS
  <2>2. /\ IsFiniteSet(R)
        /\ Cardinality(R) = Len(s) <=> \A i, j \in DOMAIN s : k[s[i]] = k[s[j]] => i = j
    BY <2>1, Keyed
  <2> QED
    BY <1>1, <1>2, <2>1, <2>2
<1>4. {x : x \in Members(s)} = Members(s)
  OBVIOUS
<1> QED
  BY <1>3, <1>4 DEF Unique

LEMMA UniqueStates ==
  ASSUME NEW s, IsList(s)
  PROVE  Unique(s, LAMBDA state : state.state_id) <=>
           \A i, j \in DOMAIN s : s[i].state_id = s[j].state_id => i = j
<1> DEFINE k == [state \in Members(s) |-> state.state_id]
<1>1. PICK R : R = {state.state_id : state \in Members(s)}
  OBVIOUS
<1>2. R = {k[x] : x \in Members(s)}
  BY <1>1
<1>3. \A i \in DOMAIN s : k[s[i]] = s[i].state_id
  BY DEF Members
<1>4. Cardinality(R) = Len(s) <=> \A i, j \in DOMAIN s : k[s[i]] = k[s[j]] => i = j
  <2> HIDE DEF k
  <2> QED
    BY <1>2, Keyed
<1>5. Unique(s, LAMBDA state : state.state_id) <=> Cardinality(R) = Len(s)
  BY <1>1 DEF Unique
<1> HIDE DEF k
<1> QED
  BY <1>3, <1>4, <1>5

LEMMA UniquePrerequisites ==
  ASSUME NEW s, IsList(s)
  PROVE  Unique(s, LAMBDA p : p.prerequisite_id) <=>
           \A i, j \in DOMAIN s : s[i].prerequisite_id = s[j].prerequisite_id => i = j
<1> DEFINE k == [p \in Members(s) |-> p.prerequisite_id]
<1>1. PICK R : R = {p.prerequisite_id : p \in Members(s)}
  OBVIOUS
<1>2. R = {k[x] : x \in Members(s)}
  BY <1>1
<1>3. \A i \in DOMAIN s : k[s[i]] = s[i].prerequisite_id
  BY DEF Members
<1>4. Cardinality(R) = Len(s) <=> \A i, j \in DOMAIN s : k[s[i]] = k[s[j]] => i = j
  <2> HIDE DEF k
  <2> QED
    BY <1>2, Keyed
<1>5. Unique(s, LAMBDA p : p.prerequisite_id) <=> Cardinality(R) = Len(s)
  BY <1>1 DEF Unique
<1> HIDE DEF k
<1> QED
  BY <1>3, <1>4, <1>5

LEMMA UniqueCases ==
  ASSUME NEW s, IsList(s)
  PROVE  Unique(s, LAMBDA case : case.case_id) <=>
           \A i, j \in DOMAIN s : s[i].case_id = s[j].case_id => i = j
<1> DEFINE k == [case \in Members(s) |-> case.case_id]
<1>1. PICK R : R = {case.case_id : case \in Members(s)}
  OBVIOUS
<1>2. R = {k[x] : x \in Members(s)}
  BY <1>1
<1>3. \A i \in DOMAIN s : k[s[i]] = s[i].case_id
  BY DEF Members
<1>4. Cardinality(R) = Len(s) <=> \A i, j \in DOMAIN s : k[s[i]] = k[s[j]] => i = j
  <2> HIDE DEF k
  <2> QED
    BY <1>2, Keyed
<1>5. Unique(s, LAMBDA case : case.case_id) <=> Cardinality(R) = Len(s)
  BY <1>1 DEF Unique
<1> HIDE DEF k
<1> QED
  BY <1>3, <1>4, <1>5

LEMMA UniqueAdmissions ==
  ASSUME NEW s, IsList(s)
  PROVE  Unique(s, Admission) <=>
           \A i, j \in DOMAIN s : Admission(s[i]) = Admission(s[j]) => i = j
<1> DEFINE k == [fact \in Members(s) |-> Admission(fact)]
<1>1. PICK R : R = {Admission(fact) : fact \in Members(s)}
  OBVIOUS
<1>2. R = {k[x] : x \in Members(s)}
  BY <1>1
<1>3. \A i \in DOMAIN s : k[s[i]] = Admission(s[i])
  BY DEF Members
<1>4. Cardinality(R) = Len(s) <=> \A i, j \in DOMAIN s : k[s[i]] = k[s[j]] => i = j
  <2> HIDE DEF k
  <2> QED
    BY <1>2, Keyed
<1>5. Unique(s, Admission) <=> Cardinality(R) = Len(s)
  BY <1>1 DEF Unique
<1> HIDE DEF k
<1> QED
  BY <1>3, <1>4, <1>5

-----------------------------------------------------------------------------
(* Projections.                                                              *)

LEMMA EffectsVerdict ==
  ASSUME NEW durable, IsList(durable),
         \A state \in Members(durable) : state.disposition \in DispositionKinds
  PROVE  DurableStateIsValid(durable) <=> EffectsAreExact(durable)
<1>1. ASSUME NEW state \in Members(durable)
      PROVE  TransitionIsValid(state) <=>
               state.disposition \in Dispositions(state.before, state.after)
  <2>1. state.disposition \in DispositionKinds
    OBVIOUS
  <2> QED
    BY <2>1 DEF TransitionIsValid, Dispositions, DispositionKinds
<1>2. (\A state \in Members(durable) : TransitionIsValid(state)) <=>
        \A i \in DOMAIN durable :
          durable[i].disposition \in Dispositions(durable[i].before, durable[i].after)
  BY <1>1 DEF Members
<1> QED
  BY <1>2, UniqueStates DEF DurableStateIsValid, EffectsAreExact

LEMMA EventsVerdict ==
  ASSUME NEW events, IsList(events), \A event \in Members(events) : event.sequence \in Nat
  PROVE  EventsAreValid(events) <=>
           /\ events # <<>>
           /\ [i \in DOMAIN events |-> events[i].sequence + 1] = [i \in DOMAIN events |-> i]
<1>1. DOMAIN events = 1..Len(events) /\ Len(events) \in Nat
  BY Lists
<1>2. ASSUME NEW i \in DOMAIN events
      PROVE  events[i].sequence = i - 1 <=> events[i].sequence + 1 = i
  <2>1. events[i].sequence \in Nat /\ i \in Nat
    BY <1>1 DEF Members
  <2> QED
    BY <2>1
<1>3. [i \in DOMAIN events |-> events[i].sequence + 1] = [i \in DOMAIN events |-> i]
        <=> \A i \in DOMAIN events : events[i].sequence + 1 = i
  <2> DEFINE a == [i \in DOMAIN events |-> events[i].sequence + 1]
             b == [i \in DOMAIN events |-> i]
  <2>1. a = b => \A i \in DOMAIN events : a[i] = b[i]
    OBVIOUS
  <2>2. (\A i \in DOMAIN events : events[i].sequence + 1 = i) => a = b
    OBVIOUS
  <2> QED
    BY <2>1, <2>2
<1> QED
  BY <1>2, <1>3 DEF EventsAreValid

\* Of a list of events and one of lifecycle facts: every event is of one fact.
LEMMA AdmissionsVerdict ==
  ASSUME NEW p, IsList(p.ordered_events), IsList(p.lifecycle), p.ordered_events # <<>>
  PROVE  LifecycleIsValid(p.lifecycle) /\ EventsMatchLifecycle(p) <=> AdmissionsAreExact(p)
<1> DEFINE events == p.ordered_events
           lifecycle == p.lifecycle
           Of(admission) == {i \in DOMAIN lifecycle : Admission(lifecycle[i]) = admission}
<1>1. \A x, y : AdmissionIdentity(x) = AdmissionIdentity(y) <=>
        Admission(x) = Admission(y) /\ x.correlation_id = y.correlation_id
  BY DEF AdmissionIdentity, Admission
<1>2. PICK first \in Members(events) : TRUE
  <2>1. Len(events) \in Nat /\ DOMAIN events = 1..Len(events) /\ Len(events) # 0
    BY Lists
  <2>2. 1 \in DOMAIN events
    BY <2>1
  <2> QED
    BY <2>2 DEF Members
<1>3. ASSUME LifecycleIsValid(lifecycle), EventsMatchLifecycle(p)
      PROVE  AdmissionsAreExact(p)
  <2>1. /\ \A fact \in Members(lifecycle) : fact.released
        /\ \A i, j \in DOMAIN lifecycle : Admission(lifecycle[i]) = Admission(lifecycle[j]) => i = j
    BY <1>3, UniqueAdmissions DEF LifecycleIsValid
  <2>2. ASSUME NEW event \in Members(events)
        PROVE  \E i \in DOMAIN lifecycle :
                 /\ Of(Admission(event)) = {i}
                 /\ lifecycle[i].correlation_id = event.correlation_id
                 /\ lifecycle[i].released
    <3>1. PICK i \in DOMAIN lifecycle : AdmissionIdentity(event) = AdmissionIdentity(lifecycle[i])
      BY <1>3 DEF EventsMatchLifecycle, Members
    <3>2. Of(Admission(event)) = {i}
      BY <1>1, <2>1, <3>1
    <3> QED
      BY <1>1, <2>1, <3>1, <3>2 DEF Members
  <2>3. \A fact \in Members(lifecycle) :
          \E event \in Members(events) : Admission(event) = Admission(fact)
    BY <1>1, <1>3 DEF EventsMatchLifecycle
  <2> QED
    BY <2>2, <2>3 DEF AdmissionsAreExact
<1>4. ASSUME AdmissionsAreExact(p)
      PROVE  LifecycleIsValid(lifecycle) /\ EventsMatchLifecycle(p)
  <2>1. ASSUME NEW event \in Members(events)
        PROVE  \E i \in DOMAIN lifecycle :
                 /\ Of(Admission(event)) = {i}
                 /\ lifecycle[i].correlation_id = event.correlation_id
                 /\ lifecycle[i].released
    BY <1>4 DEF AdmissionsAreExact
  <2>2. ASSUME NEW i \in DOMAIN lifecycle
        PROVE  /\ Of(Admission(lifecycle[i])) = {i}
               /\ lifecycle[i].released
               /\ \E event \in Members(events) :
                    AdmissionIdentity(event) = AdmissionIdentity(lifecycle[i])
    <3>1. PICK event \in Members(events) : Admission(event) = Admission(lifecycle[i])
      BY <1>4 DEF AdmissionsAreExact, Members
    <3>2. PICK k \in DOMAIN lifecycle : /\ Of(Admission(event)) = {k}
                                        /\ lifecycle[k].correlation_id = event.correlation_id
                                        /\ lifecycle[k].released
      BY <2>1
    <3>3. i = k
      BY <3>1, <3>2
    <3> QED
      BY <1>1, <3>1, <3>2, <3>3
  <2>3. \A i, j \in DOMAIN lifecycle : Admission(lifecycle[i]) = Admission(lifecycle[j]) => i = j
    BY <2>2
  <2>4. lifecycle # <<>>
    BY <1>2, <2>1, Lists
  <2>5. LifecycleIsValid(lifecycle)
    <3>1. Unique(lifecycle, Admission)
      BY <2>3, UniqueAdmissions
    <3>2. \A fact \in Members(lifecycle) : fact.released
      BY <2>2 DEF Members
    <3> QED
      BY <2>4, <3>1, <3>2 DEF LifecycleIsValid
  <2>6. ASSUME NEW event \in Members(events)
        PROVE  \E fact \in Members(lifecycle) : AdmissionIdentity(event) = AdmissionIdentity(fact)
    BY <1>1, <2>1 DEF Members
  <2>7. ASSUME NEW fact \in Members(lifecycle)
        PROVE  \E event \in Members(events) : AdmissionIdentity(event) = AdmissionIdentity(fact)
    BY <2>2 DEF Members
  <2> QED
    BY <2>5, <2>6, <2>7 DEF EventsMatchLifecycle
<1> QED
  BY <1>3, <1>4

LEMMA FactsVerdict ==
  ASSUME NEW r, NEW p, IsList(p.fail_closed_facts)
  PROVE  FactsAreTold(r, p) <=>
           /\ DOMAIN p.output_facts # {}
           /\ p.fail_closed_facts # <<>>
           /\ Unique(p.fail_closed_facts, LAMBDA fact : fact)
           /\ r = "LoomSuggestionPromotion" => LoomFactsHold(p)
BY UniqueItself DEF FactsAreTold

LEMMA OwnershipVerdict ==
  ASSUME NEW o \in Ownership
  PROVE  OwnershipIsReleased(o) <=>
           o \in [active_operations : {0}, retained_tasks : {0},
                  expected_workers : Nat, joined_workers : {o.expected_workers}]
BY DEF Ownership, OwnershipIsReleased

LEMMA Least ==
  ASSUME NEW S \in SUBSET Nat, S # {}
  PROVE  \E i \in S : \A j \in S : i <= j
<1>1. PICK i \in S : \A j \in S : ~(<<j, i>> \in OpToRel(<, Nat))
  BY NatLessThanWellFounded, WFMin
<1>2. ASSUME NEW j \in S PROVE i <= j
  <2>1. ~(j < i)
    BY <1>1 DEF OpToRel
  <2> QED
    BY <2>1
<1> QED
  BY <1>2

\* Where an admission's events begin, when it has any.
LEMMA Position ==
  ASSUME NEW p, NEW fact, IsList(p.ordered_events)
  PROVE  LET events == p.ordered_events
             Mine(i) == AdmissionIdentity(events[i]) = AdmissionIdentity(fact)
             first == EventPosition(p, fact)
         IN  IF \E i \in DOMAIN events : Mine(i)
             THEN first \in DOMAIN events /\ Mine(first)
                  /\ \A i \in DOMAIN events : Mine(i) => first <= i
             ELSE first = Len(events) + 1
<1> DEFINE events == p.ordered_events
           matching == {i \in DOMAIN events :
                          AdmissionIdentity(events[i]) = AdmissionIdentity(fact)}
<1>1. matching \in SUBSET Nat
  BY Lists
<1>2. CASE matching = {}
  BY <1>2 DEF EventPosition
<1>3. CASE matching # {}
  <2>1. EventPosition(p, fact) = CHOOSE i \in matching : \A j \in matching : i <= j
    BY <1>3 DEF EventPosition
  <2>2. EventPosition(p, fact) \in matching
        /\ \A j \in matching : EventPosition(p, fact) <= j
    <3> HIDE DEF matching
    <3> QED
      BY <1>1, <1>3, <2>1, Least
  <2> QED
    BY <2>2
<1> QED
  BY <1>2, <1>3

\* Every event of an admission carries the correlation its fact has.
LEMMA OneFact ==
  ASSUME NEW p, AdmissionsAreExact(p),
         NEW event \in Members(p.ordered_events), NEW fact \in Members(p.lifecycle),
         Admission(event) = Admission(fact)
  PROVE  AdmissionIdentity(event) = AdmissionIdentity(fact)
<1>1. PICK k \in DOMAIN p.lifecycle : p.lifecycle[k] = fact
  BY DEF Members
<1>2. PICK i \in DOMAIN p.lifecycle :
        /\ {j \in DOMAIN p.lifecycle : Admission(p.lifecycle[j]) = Admission(event)} = {i}
        /\ p.lifecycle[i].correlation_id = event.correlation_id
  BY DEF AdmissionsAreExact
<1>3. i = k
  BY <1>1, <1>2
<1> QED
  BY <1>1, <1>2, <1>3 DEF Admission, AdmissionIdentity

\* What cancels and retries: the first events of two facts, and two events of
\* which the second is the first of its admission, come to the same.
LEMMA RetryVerdict ==
  ASSUME NEW p, IsList(p.ordered_events), AdmissionsAreExact(p)
  PROVE  CancelRetryIsProven(p) <=> Retried(p)
<1> DEFINE events == p.ordered_events
<1>1. \A x, y : AdmissionIdentity(x) = AdmissionIdentity(y) <=>
        /\ Admission(x) = Admission(y)
        /\ x.operation_id = y.operation_id
        /\ x.attempt_id = y.attempt_id
        /\ x.correlation_id = y.correlation_id
  BY DEF AdmissionIdentity, Admission
<1>2. DOMAIN events = 1..Len(events) /\ Len(events) \in Nat
  BY Lists
<1>3. \A i \in DOMAIN events : events[i] \in Members(events)
  BY DEF Members
<1>4. ASSUME NEW c \in Members(p.lifecycle), NEW d \in Members(p.lifecycle),
             c.terminal = "cancelled", c.attempt_id # None, c.correlation_id # None,
             d.terminal = "completed", d.operation_id # c.operation_id,
             d.attempt_id \notin {None, c.attempt_id}, d.correlation_id = c.correlation_id,
             EventPosition(p, c) < EventPosition(p, d), EventPosition(p, d) <= Len(events)
      PROVE  Retried(p)
  <2>1. PICK i : i = EventPosition(p, c)
    OBVIOUS
  <2>2. PICK j : j = EventPosition(p, d)
    OBVIOUS
  <2>3. /\ j \in DOMAIN events
        /\ AdmissionIdentity(events[j]) = AdmissionIdentity(d)
        /\ \A k \in DOMAIN events :
             AdmissionIdentity(events[k]) = AdmissionIdentity(d) => j <= k
    BY <1>2, <1>4, <2>2, Position
  <2>4. i \in DOMAIN events /\ AdmissionIdentity(events[i]) = AdmissionIdentity(c)
    BY <1>2, <1>4, <2>1, <2>2, <2>3, Position
  <2>5. ASSUME NEW k \in 1 .. (j - 1) PROVE Admission(events[k]) # Admission(events[j])
    <3>1. k \in DOMAIN events /\ k < j
      BY <1>2, <2>3
    <3>2. Admission(events[k]) = Admission(d) =>
            AdmissionIdentity(events[k]) = AdmissionIdentity(d)
      BY <1>3, <3>1, OneFact
    <3> QED
      BY <1>1, <2>3, <1>2, <3>1, <3>2
  <2>6. i < j
    BY <1>4, <2>1, <2>2
  <2>7. Admission(c) = Admission(events[i]) /\ Admission(d) = Admission(events[j])
    BY <1>1, <2>3, <2>4
  <2>8. /\ events[i].operation_id # events[j].operation_id
        /\ None \notin {events[i].attempt_id, events[j].attempt_id}
        /\ events[i].attempt_id # events[j].attempt_id
        /\ events[i].correlation_id = events[j].correlation_id
        /\ events[i].correlation_id # None
    BY <1>1, <1>4, <2>3, <2>4
  <2> QED
    BY <1>4, <2>3, <2>4, <2>5, <2>6, <2>7, <2>8 DEF Retried
<1>5. ASSUME NEW i \in DOMAIN events, NEW j \in DOMAIN events, i < j,
             \A k \in 1 .. (j - 1) : Admission(events[k]) # Admission(events[j]),
             NEW c \in Members(p.lifecycle), NEW d \in Members(p.lifecycle),
             Admission(c) = Admission(events[i]), c.terminal = "cancelled",
             Admission(d) = Admission(events[j]), d.terminal = "completed",
             events[i].operation_id # events[j].operation_id,
             None \notin {events[i].attempt_id, events[j].attempt_id},
             events[i].attempt_id # events[j].attempt_id,
             events[i].correlation_id = events[j].correlation_id,
             events[i].correlation_id # None
      PROVE  CancelRetryIsProven(p)
  <2>1. AdmissionIdentity(events[i]) = AdmissionIdentity(c)
        /\ AdmissionIdentity(events[j]) = AdmissionIdentity(d)
    BY <1>3, <1>5, OneFact
  <2>2. EventPosition(p, c) \in DOMAIN events /\ EventPosition(p, c) <= i
    BY <2>1, Position
  <2>3. PICK m : m = EventPosition(p, d)
    OBVIOUS
  <2>4. /\ m \in DOMAIN events /\ m <= j
        /\ AdmissionIdentity(events[m]) = AdmissionIdentity(d)
    BY <2>1, <2>3, Position
  <2>5. m = j
    BY <1>1, <1>2, <1>5, <2>1, <2>4
  <2>6. EventPosition(p, c) < EventPosition(p, d) /\ EventPosition(p, d) <= Len(events)
    BY <1>2, <1>5, <2>2, <2>3, <2>5
  <2> QED
    BY <1>1, <1>5, <2>1, <2>6 DEF CancelRetryIsProven
<1>6. CancelRetryIsProven(p) => Retried(p)
  BY <1>4 DEF CancelRetryIsProven
<1>7. Retried(p) => CancelRetryIsProven(p)
  BY <1>5 DEF Retried
<1> QED
  BY <1>6, <1>7

\* The validators' verdict on a projection is that of the protocol.
LEMMA ProjectionVerdict ==
  ASSUME NEW r, NEW p, IsProjection(p)
  PROVE  ProjectionIsValidFor(r, p) <=> ProjectionIsCoherent(r, p)
<1>1. /\ IsList(p.ordered_events) /\ IsList(p.durable_state) /\ IsList(p.lifecycle)
      /\ IsList(p.fail_closed_facts) /\ p.ownership \in Ownership
      /\ \A event \in Members(p.ordered_events) : event.sequence \in Nat
      /\ \A state \in Members(p.durable_state) : state.disposition \in DispositionKinds
  BY DEF IsProjection
<1>2. DurableStateIsValid(p.durable_state) <=> EffectsAreExact(p.durable_state)
  BY <1>1, EffectsVerdict
<1>3. EventsAreValid(p.ordered_events) <=>
        /\ p.ordered_events # <<>>
        /\ [i \in DOMAIN p.ordered_events |-> p.ordered_events[i].sequence + 1]
             = [i \in DOMAIN p.ordered_events |-> i]
  BY <1>1, EventsVerdict
<1>4. p.ordered_events # <<>> =>
        (LifecycleIsValid(p.lifecycle) /\ EventsMatchLifecycle(p) <=> AdmissionsAreExact(p))
  BY <1>1, AdmissionsVerdict
<1>5. FactsAreTold(r, p) <=>
        /\ DOMAIN p.output_facts # {}
        /\ p.fail_closed_facts # <<>>
        /\ Unique(p.fail_closed_facts, LAMBDA fact : fact)
        /\ r = "LoomSuggestionPromotion" => LoomFactsHold(p)
  BY <1>1, FactsVerdict
<1>6. OwnershipIsReleased(p.ownership) <=>
        p.ownership \in [active_operations : {0}, retained_tasks : {0},
          expected_workers : Nat, joined_workers : {p.ownership.expected_workers}]
  BY <1>1, OwnershipVerdict
<1>7. AdmissionsAreExact(p) => (CancelRetryIsProven(p) <=> Retried(p))
  BY <1>1, RetryVerdict
<1> QED
  BY <1>2, <1>3, <1>4, <1>5, <1>6, <1>7
  DEF ProjectionIsValidFor, ProjectionIsValid, ProjectionIsCoherent

\* What a list becomes that grows by one fact.
LEMMA ListGrown ==
  ASSUME NEW s, IsList(s), NEW e
  PROVE  IsList(Append(s, e)) /\ Members(Append(s, e)) = Members(s) \cup {e}
<1> DEFINE S == Members(s) \cup {e}
<1>1. s \in Seq(S)
  <2>1. s \in Seq(Members(s))
    BY DEF IsList
  <2> QED
    BY <2>1
<1>2. Append(s, e) \in Seq(S) /\ Members(Append(s, e)) = Members(s) \cup {e}
  BY <1>1, Grown
<1> QED
  BY <1>2 DEF IsList

\* What is recorded stays a projection.
LEMMA RecordStep == IsProjection(projection) /\ Record => IsProjection(projection)'
<1> SUFFICES ASSUME IsProjection(projection), Record PROVE IsProjection(projection')
  OBVIOUS
<1>1. ASSUME NEW identity, NEW sequence \in Nat, RecordEvent(identity, sequence)
      PROVE  IsProjection(projection')
  <2>1. PICK event : event = Event(identity, sequence)
    OBVIOUS
  <2>2. PICK events : events = Append(projection.ordered_events, event)
    OBVIOUS
  <2>3. IsList(events) /\ \A x \in Members(events) : x.sequence \in Nat
    BY <2>1, <2>2, ListGrown DEF IsProjection, Event
  <2>4. projection' = [projection EXCEPT !.ordered_events = events]
    BY <1>1, <2>1, <2>2 DEF RecordEvent
  <2> QED
    BY <2>3, <2>4 DEF IsProjection
<1>2. ASSUME NEW identity, NEW terminal, NEW released, RecordLifecycle(identity, terminal, released)
      PROVE  IsProjection(projection')
  <2>1. PICK facts : facts = Append(projection.lifecycle, LifecycleFact(identity, terminal, released))
    OBVIOUS
  <2>2. IsList(facts)
    BY <2>1, ListGrown DEF IsProjection
  <2>3. projection' = [projection EXCEPT !.lifecycle = facts]
    BY <1>2, <2>1 DEF RecordLifecycle
  <2> QED
    BY <2>2, <2>3 DEF IsProjection
<1>3. ASSUME NEW effect \in Effects, RecordEffect(effect)
      PROVE  IsProjection(projection')
  <2>1. PICK effects : effects = Append(projection.durable_state, effect)
    OBVIOUS
  <2>2. IsList(effects) /\ \A x \in Members(effects) : x.disposition \in DispositionKinds
    BY <2>1, ListGrown, EffectsAssumption DEF IsProjection
  <2>3. projection' = [projection EXCEPT !.durable_state = effects]
    BY <1>3, <2>1 DEF RecordEffect
  <2> QED
    BY <2>2, <2>3 DEF IsProjection
<1>4. Len(projection.ordered_events) \in Nat
  BY Lists DEF IsProjection
<1>5. ASSUME NEW identity \in Identities, NEW sequence \in {0, Len(projection.ordered_events)},
             RecordEvent(identity, sequence)
      PROVE  IsProjection(projection')
  BY <1>1, <1>4, <1>5
<1> QED
  BY <1>2, <1>3, <1>5 DEF Record

\* Facts of a product, recorded in any order and number, right or wrong, are
\* validated exactly when they are a coherent account of what it did.
THEOREM ProjectionVerdictIsExactHolds == SessionSpec => []ProjectionVerdictIsExact
<1>1. SessionInit => IsProjection(projection)
  <2>1. Blank \in Unfinished
    BY UnfinishedAssumption DEF Blank
  <2> QED
    BY <2>1, UnfinishedAssumption DEF SessionInit
<1>2. IsProjection(projection) /\ [SessionNext]_<<vars, rowVars, recorded>>
        => IsProjection(projection)'
  BY RecordStep DEF SessionNext, recorded
<1>3. IsProjection(projection) => ProjectionVerdictIsExact
  BY ProjectionVerdict DEF ProjectionVerdictIsExact
<1> QED
  BY <1>1, <1>2, <1>3, PTL DEF SessionSpec

-----------------------------------------------------------------------------
(* The cases of a row.                                                       *)

\* The prerequisites observed are the declared ones, as many and each of them.
LEMMA PrerequisitesVerdict ==
  ASSUME NEW case, NEW o, IsList(case.prerequisites), IsList(o.observed_prerequisites),
         Unique(case.prerequisites, LAMBDA p : p.prerequisite_id),
         Unique(o.observed_prerequisites, LAMBDA p : p.prerequisite_id)
  PROVE  PrerequisitesAreObserved(case, o) <=>
           /\ Members(o.observed_prerequisites) = Members(case.prerequisites)
           /\ Len(o.observed_prerequisites) = Cardinality(Members(case.prerequisites))
<1> DEFINE A == Members(case.prerequisites)
           B == Members(o.observed_prerequisites)
<1>1. \A i, j \in DOMAIN case.prerequisites :
        case.prerequisites[i] = case.prerequisites[j] => i = j
  BY UniquePrerequisites
<1>2. \A i, j \in DOMAIN o.observed_prerequisites :
        o.observed_prerequisites[i] = o.observed_prerequisites[j] => i = j
  BY UniquePrerequisites
<1>3. IsFiniteSet(B) /\ Cardinality(A) = Len(case.prerequisites)
      /\ Cardinality(B) = Len(o.observed_prerequisites)
  BY <1>1, <1>2, UniqueItself
<1>4. A \subseteq B /\ Cardinality(A) = Cardinality(B) => A = B
  BY <1>3, FS_Subset
<1> QED
  BY <1>3, <1>4 DEF PrerequisitesAreObserved

\* The tokens are those of the exact prerequisites, one for each.
TokensOf(case) ==
  {[prerequisite_id |-> p.prerequisite_id, identity |-> p.identity] : p \in Exact(case)}

LEMMA TokensCounted ==
  ASSUME NEW case, IsList(case.prerequisites),
         Unique(case.prerequisites, LAMBDA p : p.prerequisite_id)
  PROVE  /\ \A p, q \in Exact(case) : p.prerequisite_id = q.prerequisite_id => p = q
         /\ Cardinality(TokensOf(case)) = Cardinality(Exact(case))
<1> DEFINE token(p) == [prerequisite_id |-> p.prerequisite_id, identity |-> p.identity]
           f == [p \in Exact(case) |-> token(p)]
<1>1. \A p, q \in Exact(case) : p.prerequisite_id = q.prerequisite_id => p = q
  <2>1. \A i, j \in DOMAIN case.prerequisites :
          case.prerequisites[i].prerequisite_id = case.prerequisites[j].prerequisite_id => i = j
    BY UniquePrerequisites
  <2> QED
    BY <2>1 DEF Exact, Members
<1>2. IsFiniteSet(Exact(case))
  <2>1. IsFiniteSet(Members(case.prerequisites))
    BY UniqueItself
  <2>2. Exact(case) \in SUBSET Members(case.prerequisites)
    BY DEF Exact
  <2> QED
    BY <2>1, <2>2, FS_Subset
<1>3. \A p, q \in Exact(case) : f[p] = f[q] => p = q
  <2>1. \A p, q \in Exact(case) : token(p) = token(q) => p.prerequisite_id = q.prerequisite_id
    OBVIOUS
  <2> QED
    BY <1>1, <2>1
<1>4. f \in [Exact(case) -> TokensOf(case)] /\ \A t \in TokensOf(case) : \E p \in Exact(case) : f[p] = t
  BY DEF TokensOf
<1>5. f \in Bijection(Exact(case), TokensOf(case))
  BY <1>3, <1>4, Fun_IsBij
<1>6. ExistsBijection(Exact(case), TokensOf(case))
  BY <1>5 DEF ExistsBijection
<1> QED
  BY <1>1, <1>2, <1>6, FS_Bijection

LEMMA TokensVerdict ==
  ASSUME NEW case, NEW s \in Seq(Declared), IsList(case.prerequisites),
         Unique(case.prerequisites, LAMBDA p : p.prerequisite_id)
  PROVE  ExactAreAuthentic(case, s) <=>
           Members(s) = TokensOf(case) /\ Len(s) = Cardinality(TokensOf(case))
<1>1. /\ \A p, q \in Exact(case) : p.prerequisite_id = q.prerequisite_id => p = q
      /\ Cardinality(TokensOf(case)) = Cardinality(Exact(case))
  BY TokensCounted
<1>2. IsList(s)
  BY DEF IsList, Members
<1>3. ASSUME NEW token \in Members(s)
      PROVE  token = [prerequisite_id |-> token.prerequisite_id, identity |-> token.identity]
  BY DeclaredAssumption DEF Members
<1>4. /\ Unique(s, LAMBDA token : token.prerequisite_id) <=>
           \A i, j \in DOMAIN s : s[i].prerequisite_id = s[j].prerequisite_id => i = j
      /\ IsFiniteSet(Members(s))
      /\ Cardinality(Members(s)) = Len(s) <=> \A i, j \in DOMAIN s : s[i] = s[j] => i = j
  BY <1>2, UniquePrerequisites, UniqueItself
<1>5. ASSUME ExactAreAuthentic(case, s)
      PROVE  Members(s) = TokensOf(case) /\ Len(s) = Cardinality(TokensOf(case))
  <2>1. /\ Len(s) = Cardinality(TokensOf(case))
        /\ Cardinality(Members(s)) = Len(s)
    BY <1>1, <1>4, <1>5 DEF ExactAreAuthentic
  <2>2. TokensOf(case) \subseteq Members(s)
    BY <1>3, <1>5 DEF ExactAreAuthentic, TokensOf
  <2>3. TokensOf(case) = Members(s)
    BY <1>4, <2>1, <2>2, FS_Subset
  <2> QED
    BY <2>1, <2>3
<1>6. ASSUME Members(s) = TokensOf(case), Len(s) = Cardinality(TokensOf(case))
      PROVE  ExactAreAuthentic(case, s)
  <2>1. \A i, j \in DOMAIN s : s[i] = s[j] => i = j
    BY <1>4, <1>6
  <2>2. \A t, u \in TokensOf(case) : t.prerequisite_id = u.prerequisite_id => t = u
    BY <1>1 DEF TokensOf
  <2>3. \A i, j \in DOMAIN s : s[i].prerequisite_id = s[j].prerequisite_id => i = j
    BY <1>6, <2>1, <2>2 DEF Members
  <2>4. \A p \in Exact(case) : \E token \in Members(s) :
          token.prerequisite_id = p.prerequisite_id /\ token.identity = p.identity
    <3> SUFFICES ASSUME NEW p \in Exact(case)
                 PROVE  \E token \in TokensOf(case) :
                          token.prerequisite_id = p.prerequisite_id /\ token.identity = p.identity
      BY <1>6
    <3>1. PICK t : t = [prerequisite_id |-> p.prerequisite_id, identity |-> p.identity]
      OBVIOUS
    <3>2. t \in TokensOf(case)
      BY <3>1 DEF TokensOf
    <3> QED
      BY <3>1, <3>2
  <2> QED
    BY <1>1, <1>4, <1>6, <2>3, <2>4 DEF ExactAreAuthentic
<1> QED
  BY <1>5, <1>6

\* The states observed are the declared ones.
LEMMA StatesVerdict ==
  ASSUME NEW case, NEW p, IsList(case.state_identities), IsList(p.durable_state),
         Unique(case.state_identities, LAMBDA state : state.state_id),
         Unique(p.durable_state, LAMBDA state : state.state_id)
  PROVE  StatesAreBound(case, p) <=>
           {<<s.state_id, s.schema_id, s.before>> : s \in Members(p.durable_state)}
             = {<<s.state_id, s.schema_id, s.baseline>> : s \in Members(case.state_identities)}
<1> DEFINE k == [s \in Members(p.durable_state) |-> <<s.state_id, s.schema_id, s.before>>]
           h == [s \in Members(case.state_identities) |-> <<s.state_id, s.schema_id, s.baseline>>]
<1>1. PICK D : D = {<<s.state_id, s.schema_id, s.before>> : s \in Members(p.durable_state)}
  OBVIOUS
<1>2. PICK S : S = {<<s.state_id, s.schema_id, s.baseline>> : s \in Members(case.state_identities)}
  OBVIOUS
<1>3. Cardinality(D) = Len(p.durable_state)
  <2>1. D = {k[x] : x \in Members(p.durable_state)}
    BY <1>1
  <2>2. \A i, j \in DOMAIN p.durable_state :
          p.durable_state[i].state_id = p.durable_state[j].state_id => i = j
    BY UniqueStates
  <2>3. \A i, j \in DOMAIN p.durable_state :
          k[p.durable_state[i]] = k[p.durable_state[j]] => i = j
    BY <2>2 DEF Members
  <2> HIDE DEF k
  <2> QED
    BY <2>1, <2>3, Keyed
<1>4. Cardinality(S) = Len(case.state_identities) /\ IsFiniteSet(S)
  <2>1. S = {h[x] : x \in Members(case.state_identities)}
    BY <1>2
  <2>2. \A i, j \in DOMAIN case.state_identities :
          case.state_identities[i].state_id = case.state_identities[j].state_id => i = j
    BY UniqueStates
  <2>3. \A i, j \in DOMAIN case.state_identities :
          h[case.state_identities[i]] = h[case.state_identities[j]] => i = j
    BY <2>2 DEF Members
  <2> HIDE DEF h
  <2> QED
    BY <2>1, <2>3, Keyed
<1>5. (\A state \in Members(p.durable_state) :
         \E declared \in Members(case.state_identities) :
           /\ declared.state_id = state.state_id
           /\ declared.schema_id = state.schema_id
           /\ declared.baseline = state.before) <=> D \subseteq S
  <2>1. ASSUME NEW state \in Members(p.durable_state)
        PROVE  (\E declared \in Members(case.state_identities) :
                  /\ declared.state_id = state.state_id
                  /\ declared.schema_id = state.schema_id
                  /\ declared.baseline = state.before)
                 <=> <<state.state_id, state.schema_id, state.before>> \in S
    BY <1>2
  <2>2. D \subseteq S <=> \A state \in Members(p.durable_state) :
                           <<state.state_id, state.schema_id, state.before>> \in S
    BY <1>1
  <2> QED
    BY <2>1, <2>2
<1>6. D \subseteq S /\ Cardinality(D) = Cardinality(S) => D = S
  BY <1>4, FS_Subset
<1> QED
  BY <1>1, <1>2, <1>3, <1>4, <1>5, <1>6 DEF StatesAreBound

\* The two relations between evidence and a case: what the comparisons check of
\* a case, and what the protocol says of it.
BaselineOf(e, manifest, case) ==
  /\ CaseIsBound(manifest, case, e.observation)
  /\ ExactAreAuthentic(case, e.tokens)
  /\ ProjectionIsEqual(case, e.bytes, e.observation)
  /\ IsBaseline(e, case)
TellsOfCase(e, manifest, case) == TellsOf(e, manifest, case) /\ IsBaseline(e, case)

\* Of a valid manifest, what is compared with a case named by its id is compared
\* with that case.
LEMMA CaseOfId ==
  ASSUME NEW m \in Manifests, RowManifestIsValid(m), NEW case \in Members(m.cases), NEW e
  PROVE  BaselineIsValid(m, case.case_id, e) <=>
           ObservationIsValid(e.observation) /\ BaselineOf(e, m, case)
<1>1. IsList(m.cases)
  BY ManifestsAssumption
<1>2. \A i, j \in DOMAIN m.cases : m.cases[i].case_id = m.cases[j].case_id => i = j
  BY <1>1, UniqueCases DEF RowManifestIsValid
<1>3. \A other \in Members(m.cases) : other.case_id = case.case_id => other = case
  BY <1>2 DEF Members
<1> QED
  BY <1>3 DEF BaselineIsValid, Compared, BaselineOf, IsBaseline

\* Evidence is accepted for a case exactly when it tells of it.
LEMMA CaseVerdict ==
  ASSUME NEW m \in Manifests, RowManifestIsValid(m), NEW case \in Members(m.cases),
         NEW e \in Taken
  PROVE  BaselineIsValid(m, case.case_id, e) <=> TellsOfCase(e, m, case)
<1> DEFINE o == e.observation
<1>1. /\ IsList(case.prerequisites) /\ IsList(case.state_identities)
      /\ case.expected_projection = [digest |-> case.expected_projection.digest,
                                     length |-> case.expected_projection.length]
  BY ManifestsAssumption
<1>2. o \in Observations /\ e.tokens \in Seq(Declared)
  BY DEF Taken
<1>3. IsList(o.observed_prerequisites) /\ IsList(o.projection.durable_state)
  BY <1>2, ObservationsAssumption DEF IsProjection
<1>4. /\ Unique(case.state_identities, LAMBDA state : state.state_id)
      /\ Unique(case.prerequisites, LAMBDA p : p.prerequisite_id)
  <2>1. CaseIsValid(m.vertical_id, case)
    BY DEF RowManifestIsValid
  <2> QED
    BY <2>1 DEF CaseIsValid
<1>5. ExactAreAuthentic(case, e.tokens) <=>
        Members(e.tokens) = TokensOf(case) /\ Len(e.tokens) = Cardinality(TokensOf(case))
  BY <1>1, <1>2, <1>4, TokensVerdict
<1>6. ASSUME ObservationIsValid(o)
      PROVE  /\ PrerequisitesAreObserved(case, o) <=>
                  /\ Members(o.observed_prerequisites) = Members(case.prerequisites)
                  /\ Len(o.observed_prerequisites) = Cardinality(Members(case.prerequisites))
             /\ StatesAreBound(case, o.projection) <=>
                  {<<s.state_id, s.schema_id, s.before>> : s \in Members(o.projection.durable_state)}
                    = {<<s.state_id, s.schema_id, s.baseline>> : s \in Members(case.state_identities)}
             /\ ProjectionIsValid(o.projection)
  <2>1. Unique(o.observed_prerequisites, LAMBDA p : p.prerequisite_id)
        /\ ProjectionIsValid(o.projection)
    BY <1>6 DEF ObservationIsValid, ProjectionIsValidFor
  <2>2. Unique(o.projection.durable_state, LAMBDA state : state.state_id)
    BY <2>1 DEF ProjectionIsValid, DurableStateIsValid
  <2> QED
    BY <1>1, <1>3, <1>4, <2>1, <2>2, PrerequisitesVerdict, StatesVerdict
<1>7. Authentic(case.expected_projection, e.bytes) <=>
        case.expected_projection = [digest |-> e.bytes, length |-> Len(e.bytes)]
  BY <1>1 DEF Authentic
<1>8. ASSUME ObservationIsValid(o)
      PROVE  ProjectionIsEqual(case, e.bytes, o) <=>
               /\ e.bytes \in DOMAIN ParseProjection
               /\ case.expected_projection = [digest |-> e.bytes, length |-> Len(e.bytes)]
               /\ o.projection = ParseProjection[e.bytes]
  BY <1>6, <1>7, <1>8 DEF ProjectionIsEqual
<1>9. TellsOf(e, m, case) <=>
        /\ ObservationIsValid(o)
        /\ CaseIsBound(m, case, o)
        /\ ExactAreAuthentic(case, e.tokens)
        /\ ProjectionIsEqual(case, e.bytes, o)
  BY <1>5, <1>6, <1>8 DEF TellsOf, TokensOf, CaseIsBound
<1> QED
  BY <1>9, CaseOfId DEF BaselineOf, TellsOfCase

\* Evidence x tells of the case at i and of no other.
IsOf(x, m, i) == \A j \in DOMAIN m.cases : TellsOfCase(x, m, m.cases[j]) <=> j = i

\* RowIsComplete, of a manifest and what was taken for it.
Complete(m, s) ==
  /\ \A i \in DOMAIN m.cases : \E k \in DOMAIN s : IsOf(s[k], m, i)
  /\ Len(s) = Len(m.cases)

\* In a complete row every evidence is of one case, and no two of the same.
LEMMA CompleteIsOneToOne ==
  ASSUME NEW m \in Manifests, NEW s \in Seq(Taken), Complete(m, s)
  PROVE  /\ \A k \in DOMAIN s : \E i \in DOMAIN m.cases : IsOf(s[k], m, i)
         /\ \A i \in DOMAIN m.cases : \A k, l \in DOMAIN s :
              IsOf(s[k], m, i) /\ IsOf(s[l], m, i) => k = l
<1> DEFINE N == Len(s)
           g == [i \in 1..N |-> CHOOSE k \in 1..N : IsOf(s[k], m, i)]
<1>1. N \in Nat /\ DOMAIN s = 1..N /\ DOMAIN m.cases = 1..N
  <2>1. IsList(m.cases)
    BY ManifestsAssumption
  <2> QED
    BY <2>1, Lists DEF Complete
<1>2. \A i \in 1..N : \E k \in 1..N : IsOf(s[k], m, i)
  BY <1>1 DEF Complete
<1>3. g \in [1..N -> 1..N] /\ \A i \in 1..N : IsOf(s[g[i]], m, i)
  <2> HIDE DEF N
  <2> QED
    BY <1>2
<1>4. \A k, i, j \in 1..N : IsOf(s[k], m, i) /\ IsOf(s[k], m, j) => i = j
  BY <1>1 DEF IsOf
<1>5. g \in Injection(1..N, 1..N)
  <2> HIDE DEF g, N
  <2>1. \A i, j \in 1..N : g[i] = g[j] => i = j
    BY <1>3, <1>4
  <2> QED
    BY <1>3, <2>1 DEF Injection, IsInjective
<1>6. g \in Surjection(1..N, 1..N)
  <2> HIDE DEF g
  <2>1. IsFiniteSet(1..N)
    BY <1>1, FS_Interval
  <2> QED
    BY <1>5, <2>1, FS_Injection
<1>7. \A k \in 1..N : \E i \in 1..N : g[i] = k
  BY <1>6 DEF Surjection
<1> HIDE DEF g, N
<1> QED
  BY <1>1, <1>3, <1>4, <1>7

\* What the loop of validate_row_baselines knows of the cases it has accepted.
LoopIsSound ==
  /\ call = NoCall => outcome = "open"
  /\ call.function = "row" => call.manifest \in Manifests
  /\ call.function = "row" /\ outcome = "open" =>
       /\ RowManifestIsValid(call.manifest)
       /\ call.count = Len(call.manifest.cases)
       /\ \A k \in DOMAIN taken :
            /\ taken[k].observation.case_id \in CaseIds
            /\ BaselineIsValid(call.manifest, taken[k].observation.case_id, taken[k])
       /\ \A k, l \in DOMAIN taken :
            taken[k].observation.case_id = taken[l].observation.case_id => k = l

RowInv == LoopIsSound /\ RowVerdictIsExact

\* The cases of a valid manifest, by place and by id.
LEMMA CasesOfRow ==
  ASSUME NEW m \in Manifests, RowManifestIsValid(m)
  PROVE  /\ IsList(m.cases)
         /\ \A i, j \in DOMAIN m.cases : m.cases[i].case_id = m.cases[j].case_id => i = j
         /\ \A e \in Taken, i \in DOMAIN m.cases :
              /\ TellsOfCase(e, m, m.cases[i]) => e.observation.case_id = m.cases[i].case_id
              /\ BaselineIsValid(m, m.cases[i].case_id, e) <=> TellsOfCase(e, m, m.cases[i])
<1>1. IsList(m.cases)
  BY ManifestsAssumption
<1>2. \A i, j \in DOMAIN m.cases : m.cases[i].case_id = m.cases[j].case_id => i = j
  BY <1>1, UniqueCases DEF RowManifestIsValid
<1>3. ASSUME NEW e \in Taken, NEW i \in DOMAIN m.cases
      PROVE  /\ TellsOfCase(e, m, m.cases[i]) => e.observation.case_id = m.cases[i].case_id
             /\ BaselineIsValid(m, m.cases[i].case_id, e) <=> TellsOfCase(e, m, m.cases[i])
  <2>1. m.cases[i] \in Members(m.cases)
    BY DEF Members
  <2>2. TellsOfCase(e, m, m.cases[i]) => e.observation.case_id = m.cases[i].case_id
    BY DEF TellsOfCase, TellsOf
  <2> QED
    BY <2>1, <2>2, CaseVerdict
<1> QED
  BY <1>1, <1>2, <1>3

\* A case that is refused keeps the row from being complete: of a complete row
\* the last evidence is of a case of its own.
LEMMA RefusedIsNotComplete ==
  ASSUME IInv, RowInv, NEW e \in Evidence, TakeCase(e), ~CaseIsAccepted(e)
  PROVE  ~RowIsComplete'
<1> DEFINE n == Len(taken) + 1
<1>1. call.function = "row" /\ outcome = "open" /\ call' = call /\ taken' = Append(taken, e)
  BY DEF TakeCase, TakesCases
<1>2. PICK m \in Manifests : m = call.manifest
  BY <1>1 DEF RowInv, LoopIsSound
<1>3. PICK s : s = taken'
  OBVIOUS
<1>4. RowManifestIsValid(m)
  BY <1>1, <1>2 DEF RowInv, LoopIsSound
<1>5. e \in Taken /\ taken \in Seq(Taken)
  BY EvidenceIsTaken DEF IInv, TokensInv, TakenInv
<1>6. /\ s \in Seq(Taken)
      /\ DOMAIN s = DOMAIN taken \cup {n} /\ n \notin DOMAIN taken
      /\ \A k \in DOMAIN taken : s[k] = taken[k]
      /\ s[n] = e
  BY <1>1, <1>3, <1>5, Appended
<1>7. RowIsComplete' <=> Complete(m, s)
  BY <1>1, <1>2, <1>3 DEF RowIsComplete, Complete, IsOf, TellsOfCase
<1>8. ASSUME Complete(m, s) PROVE FALSE
  <2>1. PICK i \in DOMAIN m.cases : IsOf(e, m, i)
    BY <1>6, <1>8, CompleteIsOneToOne
  <2>2. /\ e.observation.case_id = m.cases[i].case_id
        /\ BaselineIsValid(m, e.observation.case_id, e)
    BY <1>4, <1>5, <2>1, CasesOfRow DEF IsOf
  <2>3. e.observation.case_id \in CaseIds
    BY <1>2, <2>2 DEF CaseIds, Members
  <2>4. e.observation.case_id \notin TakenIds
    <3> SUFFICES ASSUME NEW k \in DOMAIN taken,
                        taken[k].observation.case_id = e.observation.case_id
                 PROVE  FALSE
      BY DEF TakenIds, Members
    <3>1. PICK j \in DOMAIN m.cases : IsOf(s[k], m, j)
      BY <1>6, <1>8, CompleteIsOneToOne
    <3>2. s[k] = taken[k] /\ s[k] \in Taken
      BY <1>5, <1>6
    <3>3. m.cases[j].case_id = m.cases[i].case_id
      BY <1>4, <2>2, <3>1, <3>2, CasesOfRow DEF IsOf
    <3>4. j = i
      BY <1>4, <3>3, CasesOfRow
    <3>5. k = n
      BY <1>6, <1>8, <2>1, <3>1, <3>4, CompleteIsOneToOne
    <3> QED
      BY <1>6, <3>5
  <2> QED
    BY <1>2, <2>2, <2>3, <2>4 DEF CaseIsAccepted
<1> QED
  BY <1>7, <1>8

\* Once the cases are counted out, the row is complete exactly when they name
\* every case of the manifest.
LEMMA CountedOut ==
  ASSUME IInv, RowInv, EndOfCases
  PROVE  TakenIds = CaseIds <=> RowIsComplete
<1>1. call.function = "row" /\ outcome = "open" /\ Len(taken) = call.count
  BY DEF EndOfCases
<1>2. PICK m \in Manifests : m = call.manifest
  BY <1>1 DEF RowInv, LoopIsSound
<1>3. /\ RowManifestIsValid(m) /\ Len(taken) = Len(m.cases) /\ taken \in Seq(Taken)
      /\ \A k \in DOMAIN taken :
           /\ taken[k].observation.case_id \in CaseIds
           /\ BaselineIsValid(m, taken[k].observation.case_id, taken[k])
      /\ \A k, l \in DOMAIN taken :
           taken[k].observation.case_id = taken[l].observation.case_id => k = l
  BY <1>1, <1>2 DEF RowInv, LoopIsSound, IInv, TakenInv
<1>4. RowIsComplete <=> Complete(m, taken)
  BY <1>2 DEF RowIsComplete, Complete, IsOf, TellsOfCase
<1>5. \A k \in DOMAIN taken : taken[k] \in Taken
  BY <1>3
<1>6. \A id : id \in CaseIds <=> \E i \in DOMAIN m.cases : id = m.cases[i].case_id
  BY <1>2 DEF CaseIds, Members
<1>7. \A id : id \in TakenIds <=> \E k \in DOMAIN taken : id = taken[k].observation.case_id
  BY DEF TakenIds, Members
<1>8. ASSUME TakenIds = CaseIds, NEW i \in DOMAIN m.cases
      PROVE  \E k \in DOMAIN taken : IsOf(taken[k], m, i)
  <2>1. PICK k \in DOMAIN taken : taken[k].observation.case_id = m.cases[i].case_id
    BY <1>6, <1>7, <1>8
  <2>2. TellsOfCase(taken[k], m, m.cases[i])
    BY <1>3, <1>5, <2>1, CasesOfRow
  <2>3. ASSUME NEW j \in DOMAIN m.cases, TellsOfCase(taken[k], m, m.cases[j]) PROVE j = i
    BY <1>3, <1>5, <2>1, <2>3, CasesOfRow
  <2> QED
    BY <2>2, <2>3 DEF IsOf
<1>9. ASSUME Complete(m, taken), NEW i \in DOMAIN m.cases
      PROVE  m.cases[i].case_id \in TakenIds
  <2>1. PICK k \in DOMAIN taken : TellsOfCase(taken[k], m, m.cases[i])
    BY <1>9 DEF Complete, IsOf
  <2> QED
    BY <1>3, <1>5, <1>7, <2>1, CasesOfRow
<1>10. TakenIds \subseteq CaseIds
  BY <1>3, <1>7
<1>11. Complete(m, taken) => TakenIds = CaseIds
  BY <1>6, <1>9, <1>10
<1>12. TakenIds = CaseIds => Complete(m, taken)
  BY <1>3, <1>8 DEF Complete
<1> QED
  BY <1>4, <1>11, <1>12

\* A row that is begun with the wrong number of cases, or for a manifest that is
\* not valid, is refused before its first case.
LEMMA BeginRowStep ==
  ASSUME IInv, RowInv, NEW manifest \in Manifests, NEW count \in SliceLengths,
         BeginRow(manifest, count)
  PROVE  RowInv'
<1>1. /\ call' = [function |-> "row", manifest |-> manifest, count |-> count]
      /\ taken' = <<>>
  BY DEF BeginRow, Idle, IInv, TakenInv
<1>2. call' # NoCall /\ call'.manifest = manifest /\ call'.count = count
  BY <1>1 DEF NoCall
<1>3. CASE RowManifestIsValid(manifest) /\ count = Len(manifest.cases)
  <2>1. outcome' = outcome
    BY <1>3 DEF BeginRow
  <2>2. outcome = "open"
    BY DEF BeginRow, Idle, RowInv, LoopIsSound
  <2> QED
    BY <1>1, <1>2, <1>3, <2>1, <2>2 DEF RowInv, LoopIsSound, RowVerdictIsExact
<1>4. CASE ~(RowManifestIsValid(manifest) /\ count = Len(manifest.cases))
  <2>1. outcome' = "refused"
    BY <1>4 DEF BeginRow, Finish
  <2>2. ~(RowManifestIsValid(manifest) /\ RowIsComplete')
    <3>1. RowManifestIsValid(manifest) => manifest.cases # <<>> /\ IsList(manifest.cases)
      BY ManifestsAssumption DEF RowManifestIsValid
    <3>2. RowIsComplete' => Len(manifest.cases) = 0
      BY <1>1, <1>2 DEF RowIsComplete
    <3> QED
      BY <3>1, <3>2, Lists
  <2>3. RowVerdictIsExact'
    BY <1>2, <2>1, <2>2 DEF RowVerdictIsExact
  <2>4. LoopIsSound'
    BY <1>1, <1>2, <2>1 DEF LoopIsSound
  <2> QED
    BY <2>3, <2>4 DEF RowInv
<1> QED
  BY <1>3, <1>4

LEMMA TakeCaseStep ==
  ASSUME IInv, RowInv, NEW e \in Evidence, TakeCase(e)
  PROVE  RowInv'
<1>1. /\ call.function = "row" /\ outcome = "open" /\ call' = call /\ call # NoCall
      /\ taken' = Append(taken, e)
  BY DEF TakeCase, TakesCases, NoCall
<1>2. e \in Taken /\ taken \in Seq(Taken)
  BY EvidenceIsTaken DEF IInv, TokensInv, TakenInv
<1>3. CASE CaseIsAccepted(e)
  <2>1. outcome' = "open"
    BY <1>1, <1>3 DEF TakeCase
  <2>2. PICK n : n = Len(taken) + 1
    OBVIOUS
  <2>3. /\ DOMAIN taken' = DOMAIN taken \cup {n} /\ n \notin DOMAIN taken
        /\ \A k \in DOMAIN taken : taken'[k] = taken[k]
        /\ taken'[n] = e
    BY <1>1, <1>2, <2>2, Appended
  <2>4. /\ e.observation.case_id \in CaseIds
        /\ BaselineIsValid(call.manifest, e.observation.case_id, e)
        /\ \A k \in DOMAIN taken : taken[k].observation.case_id # e.observation.case_id
    BY <1>3 DEF CaseIsAccepted, TakenIds, Members
  <2>5. CaseIds' = CaseIds
    BY <1>1 DEF CaseIds
  <2>6. \A k \in DOMAIN taken' :
          /\ taken'[k].observation.case_id \in CaseIds
          /\ BaselineIsValid(call.manifest, taken'[k].observation.case_id, taken'[k])
    BY <1>1, <2>3, <2>4 DEF RowInv, LoopIsSound
  <2>7. \A k, l \in DOMAIN taken' :
          taken'[k].observation.case_id = taken'[l].observation.case_id => k = l
    BY <1>1, <2>3, <2>4 DEF RowInv, LoopIsSound
  <2>8. LoopIsSound'
    BY <1>1, <2>1, <2>5, <2>6, <2>7 DEF RowInv, LoopIsSound
  <2> QED
    BY <2>1, <2>8 DEF RowInv, RowVerdictIsExact
<1>4. CASE ~CaseIsAccepted(e)
  <2>1. outcome' = "refused"
    BY <1>4 DEF TakeCase, Finish
  <2>2. ~RowIsComplete'
    BY <1>4, RefusedIsNotComplete
  <2> QED
    BY <1>1, <2>1, <2>2 DEF RowInv, LoopIsSound, RowVerdictIsExact
<1> QED
  BY <1>3, <1>4

LEMMA EndOfCasesStep ==
  ASSUME IInv, RowInv, EndOfCases
  PROVE  RowInv'
<1>1. /\ call.function = "row" /\ outcome = "open"
      /\ UNCHANGED <<call, taken>> /\ call # NoCall
      /\ outcome' = IF TakenIds = CaseIds THEN "accepted" ELSE "refused"
  BY DEF EndOfCases, Finish, NoCall
<1>2. RowIsComplete' <=> RowIsComplete
  BY <1>1 DEF RowIsComplete
<1>3. RowManifestIsValid(call.manifest)
  BY <1>1 DEF RowInv, LoopIsSound
<1>4. RowVerdictIsExact'
  BY <1>1, <1>2, <1>3, CountedOut DEF RowVerdictIsExact
<1> QED
  BY <1>1, <1>4 DEF RowInv, LoopIsSound

\* What leaves the call and its outcome alone leaves the row's verdict alone.
LEMMA RowUntouched ==
  ASSUME RowInv, UNCHANGED <<call, taken, outcome>>
  PROVE  RowInv'
<1>1. RowIsComplete' <=> RowIsComplete
  BY DEF RowIsComplete
<1>2. CaseIds' = CaseIds
  BY DEF CaseIds
<1> QED
  BY <1>1, <1>2 DEF RowInv, LoopIsSound, RowVerdictIsExact

\* A comparison of a case the caller names is not of a row.
LEMMA OtherCall ==
  ASSUME call' # NoCall, call'.function # "row"
  PROVE  RowInv'
BY DEF RowInv, LoopIsSound, RowVerdictIsExact

LEMMA RowInvStep == IInv /\ RowInv /\ RowNext => RowInv'
<1> SUFFICES ASSUME IInv, RowInv, RowNext PROVE RowInv'
  OBVIOUS
<1>1. ASSUME NEW declared \in Declared, OpenStream(declared) PROVE RowInv'
  BY <1>1, RowUntouched DEF OpenStream
<1>2. ASSUME NEW chunk \in Chunks, ReadChunk(chunk) PROVE RowInv'
  BY <1>2, RowUntouched DEF ReadChunk
<1>3. CASE EndStream
  BY <1>3, RowUntouched DEF EndStream
<1>4. ASSUME NEW manifest \in Manifests, NEW count \in SliceLengths, BeginRow(manifest, count)
      PROVE  RowInv'
  BY <1>4, BeginRowStep
<1>5. ASSUME NEW e \in Evidence, TakeCase(e) PROVE RowInv'
  BY <1>5, TakeCaseStep
<1>6. CASE EndOfCases
  BY <1>6, EndOfCasesStep
<1>7. ASSUME NEW manifest, NEW case_id, NEW e, ValidateBaseline(manifest, case_id, e)
      PROVE  RowInv'
  BY <1>7, OtherCall DEF ValidateBaseline, NoCall
<1>8. ASSUME NEW manifest, NEW case_id, NEW e, NEW source,
             CompareCandidate(manifest, case_id, e, source)
      PROVE  RowInv'
  BY <1>8, OtherCall DEF CompareCandidate, NoCall
<1> QED
  BY <1>1, <1>2, <1>3, <1>4, <1>5, <1>6, <1>7, <1>8 DEF RowNext

\* validate_row_baselines accepts exactly when the manifest is valid and every
\* case of it has its own observation, whatever evidence comes and in any order;
\* slices of every length in SliceLengths, any set of numbers, are tried.
THEOREM RowVerdictIsExactHolds == SessionSpec => []RowVerdictIsExact
<1>1. SessionInit => IInv /\ RowInv
  <2>1. RowInit => RowInv
    BY DEF RowInit, RowInv, LoopIsSound, RowVerdictIsExact, NoCall
  <2> QED
    BY <2>1, RowInitial DEF SessionInit
<1>2. RowInv /\ UNCHANGED rowVars => RowInv'
  BY RowUntouched DEF rowVars
<1>3. IInv /\ RowInv /\ [SessionNext]_<<vars, rowVars, recorded>> => IInv' /\ RowInv'
  BY <1>2, RowStep, RowKept, RowInvStep DEF SessionNext
<1>4. RowInv => RowVerdictIsExact
  BY DEF RowInv
<1> QED
  BY <1>1, <1>3, <1>4, PTL DEF SessionSpec
=============================================================================
