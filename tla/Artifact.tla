------------------------------ MODULE Artifact ------------------------------
(***************************************************************************)
(* The sample dataset as files of the repository: a generator that writes  *)
(* them from the seed and may stop half way, a checkout that mixes files   *)
(* of two versions, and the validator that everyone relies on to notice.   *)
(* The hash of a content is the content.  Texts, sizes and the order of    *)
(* keys are left out; the names of the issues are the source's.            *)
(***************************************************************************)
EXTENDS Naturals, FiniteSets

CONSTANTS
    Builds,        \* versions of the source: member names, seed dataset, is it coherent
    LibraryDocument, \* the media row whose bytes live in the artifact itself
    Photos,        \* the media rows whose bytes ship with the source
    PhotoVersions, \* contents of a photo
    Absent,        \* no such file
    Malformed,     \* a file that is no JSON
    MaxDamages     \* bound on what happens to the files besides the generator

(* A dataset maps each member to its value; the rows of `media' are ids.   *)
ASSUME ArtifactAssumption ==
    /\ \A b \in Builds : /\ b.dataset = [n \in b.names |-> b.dataset[n]] /\ "media" \in b.names
                         /\ LibraryDocument \in b.dataset.media /\ b.coherent \in BOOLEAN
    /\ LibraryDocument \notin Photos /\ MaxDamages \in Nat

VARIABLES
    source,    \* the version that is checked out
    dir,       \* the files of the artifact
    photo,     \* the bytes of each photo in the repository
    writing,   \* what the generator has to remove and to write
    lastRun,   \* how the last run of the generator ended
    damages

artifactVars == <<source, dir, photo, writing, lastRun, damages>>

MemberNames == UNION {b.names : b \in Builds}
DATASET_MANIFEST_FILE == "manifest.json"
DATASET_ASSET_LIST_FILE == "assets/assets.json"
DEMO_LIBRARY_ASSET_FILE == "assets/document"
DATASET_SCHEMA_FILE == "schema/dataset.schema.json"
FormerAsset == "assets/former"   \* left by a version before all of these
Paths == MemberNames \union {DATASET_MANIFEST_FILE, DATASET_ASSET_LIST_FILE, DEMO_LIBRARY_ASSET_FILE,
                       DATASET_SCHEMA_FILE, FormerAsset}
NotWriting == [to |-> Absent, left |-> {}, disturbed |-> FALSE]
NoReport == [is |-> "none", disturbed |-> FALSE]

-----------------------------------------------------------------------------
(* Building the artifact                                                   *)

(* One record per media row, with its bytes as they are now.  The document *)
(* is read from the artifact that is written.                              *)
datasetAssetRecords(dataset, bytes, document) ==
    {[id |-> m, location |-> IF m = LibraryDocument THEN "file" ELSE "sourcePath",
      sha256 |-> IF m = LibraryDocument THEN document ELSE bytes[m]] : m \in dataset.media}
HasByteSource(dataset) == dataset.media \subseteq {LibraryDocument} \union Photos

(* Every file in memory; the manifest holds the hashes of the others.      *)
buildDatasetArtifact(b, bytes, document) ==
    LET assets == datasetAssetRecords(b.dataset, bytes, document)
        manifest == [keyOrder |-> b.names, members |-> b.dataset, datasetSha256 |-> b.dataset,
                     assets |-> assets, schema |-> b.names]
    IN  [p \in Paths \ ({FormerAsset} \union (MemberNames \ b.names)) |->
            IF p \in b.names THEN b.dataset[p]
            ELSE CASE p = DEMO_LIBRARY_ASSET_FILE -> document [] p = DATASET_ASSET_LIST_FILE -> assets
                   [] p = DATASET_SCHEMA_FILE -> b.names [] p = DATASET_MANIFEST_FILE -> manifest]

(* The members are named apart from the other files, and what a build      *)
(* writes is there and is JSON; only the document's bytes may be anything. *)
ASSUME FilesAssumption ==
    /\ MemberNames \intersect {DATASET_MANIFEST_FILE, DATASET_ASSET_LIST_FILE, DEMO_LIBRARY_ASSET_FILE,
                               DATASET_SCHEMA_FILE, FormerAsset} = {}
    /\ Absent \notin PhotoVersions \union {LibraryDocument, Malformed}
    /\ \A b \in Builds, bytes \in [Photos -> PhotoVersions], document \in {LibraryDocument, Malformed} :
          HasByteSource(b.dataset) =>
              LET build == buildDatasetArtifact(b, bytes, document)
              IN  \A p \in DOMAIN build \ {DEMO_LIBRARY_ASSET_FILE} : build[p] \notin {Absent, Malformed}

-----------------------------------------------------------------------------
(* Validating what lies in the directory                                   *)

Exists(p) == dir[p] # Absent
Readable(p) == Exists(p) /\ dir[p] # Malformed
manifest == dir[DATASET_MANIFEST_FILE]

(* The loader fails on a member it cannot read.                            *)
Loads == \A n \in manifest.keyOrder : Readable(n)
loadDatasetArtifact == [n \in manifest.keyOrder |-> dir[n]]
Rebuilt == Loads /\ "media" \in manifest.keyOrder

(* Nothing but the members, the manifest and the two directories.          *)
validateFileSet == {<<"UNEXPECTED_ARTIFACT_FILE", p>> : p \in {q \in MemberNames \ manifest.keyOrder : Exists(q)}}

validateMembers ==
    {<<"UNEXPECTED_MEMBER", n>> : n \in manifest.keyOrder \ source.names}
    \union {<<"MEMBER_MISSING", n>> : n \in source.names \ manifest.keyOrder}
    \union {<<"MEMBER_FILE_MISSING", n>> : n \in {m \in manifest.keyOrder : ~Exists(m)}}
    \union {<<"MEMBER_MALFORMED", n>> : n \in {m \in manifest.keyOrder : dir[m] = Malformed}}
    \union {<<"MEMBER_HASH_MISMATCH", n>> : n \in {m \in manifest.keyOrder : Exists(m) /\ dir[m] # manifest.members[m]}}

Bytes(a) == IF a.location = "file" THEN dir[DEMO_LIBRARY_ASSET_FILE] ELSE photo[a.id]
Listed == dir[DATASET_ASSET_LIST_FILE]
validateAssetList ==
    IF ~Readable(DATASET_ASSET_LIST_FILE) THEN {<<"ASSET_LIST_UNREADABLE", DATASET_ASSET_LIST_FILE>>}
    ELSE {<<"ASSET_LIST_HASH_MISMATCH", p>> : p \in {q \in {DATASET_ASSET_LIST_FILE} : Listed # manifest.assets}}
         \union {<<"ASSET_MISSING", a.id>> : a \in {b \in Listed : Bytes(b) = Absent}}
         \union {<<"ASSET_HASH_MISMATCH", a.id>> : a \in {b \in Listed : Bytes(b) \notin {Absent, b.sha256}}}
         \union {<<"UNEXPECTED_ASSET_FILE", p>> : p \in {q \in {FormerAsset} : Exists(q)}}
         \union (IF ~Rebuilt THEN {}
                 ELSE {<<"ASSET_MISSING_FOR_MEDIA", m>> : m \in dir["media"] \ {a.id : a \in Listed}}
                      \union {<<"ASSET_ORPHANED", m>> : m \in {a.id : a \in Listed} \ dir["media"]})

validateSchemaDocument ==
    IF ~Readable(DATASET_SCHEMA_FILE) THEN {<<"SCHEMA_FILE_UNREADABLE", DATASET_SCHEMA_FILE>>}
    ELSE {<<code, DATASET_SCHEMA_FILE>> : code \in
             (IF dir[DATASET_SCHEMA_FILE] # manifest.schema THEN {"SCHEMA_FILE_HASH_MISMATCH"} ELSE {})
             \union (IF dir[DATASET_SCHEMA_FILE] # manifest.keyOrder THEN {"SCHEMA_FILE_DRIFT"} ELSE {})}

Coherent(dataset) == \E b \in Builds : b.dataset = dataset /\ b.coherent
validateDatasetArtifact ==
    IF ~Readable(DATASET_MANIFEST_FILE) THEN {<<"MANIFEST_UNREADABLE", DATASET_MANIFEST_FILE>>}
    ELSE validateFileSet \union validateMembers \union validateAssetList \union validateSchemaDocument
         \union {<<"DATASET_LOAD_FAILED", p>> : p \in {q \in {DATASET_MANIFEST_FILE} : ~Loads}}
         \union {<<"DATASET_HASH_MISMATCH", p>> : p \in {q \in {DATASET_MANIFEST_FILE} :
                     Loads /\ loadDatasetArtifact # manifest.datasetSha256}}
         \union {<<"INTEGRITY", p>> : p \in {q \in {DATASET_MANIFEST_FILE} : Rebuilt /\ ~Coherent(loadDatasetArtifact)}}

-----------------------------------------------------------------------------
(* The generator: what the build does not have is removed, its files are   *)
(* written one after another, and what was written is validated.           *)

generates == writing # NotWriting
Stale(build) == {p \in Paths \ DOMAIN build : Exists(p)}
Rank(p) == IF p \notin DOMAIN writing.to THEN 0 ELSE IF p \in MemberNames THEN 1
           ELSE IF p = DEMO_LIBRARY_ASSET_FILE THEN 2 ELSE IF p = DATASET_ASSET_LIST_FILE THEN 3
           ELSE IF p = DATASET_SCHEMA_FILE THEN 4 ELSE 5
Turn(p) == p \in writing.left /\ \A q \in writing.left : Rank(p) <= Rank(q)

(* Without the document the source cannot even be loaded.                  *)
Publishable == HasByteSource(source.dataset) /\ Exists(DEMO_LIBRARY_ASSET_FILE)
Generate ==
    /\ ~generates
    /\ IF Publishable
       THEN LET build == buildDatasetArtifact(source, photo, dir[DEMO_LIBRARY_ASSET_FILE])
            IN  /\ writing' = [to |-> build, left |-> DOMAIN build \union Stale(build), disturbed |-> FALSE]
                /\ lastRun' = NoReport
       ELSE lastRun' = [is |-> "threw", disturbed |-> FALSE] /\ UNCHANGED writing
    /\ UNCHANGED <<source, dir, photo, damages>>

WriteFile ==
    \E p \in Paths :
        /\ Turn(p)
        /\ dir' = [dir EXCEPT ![p] = IF p \in DOMAIN writing.to THEN writing.to[p] ELSE Absent]
        /\ writing' = [writing EXCEPT !.left = @ \ {p}]
        /\ UNCHANGED <<source, photo, lastRun, damages>>

writeDatasetArtifact ==
    /\ generates /\ writing.left = {}
    /\ lastRun' = [is |-> IF validateDatasetArtifact = {} THEN "written" ELSE "threw", disturbed |-> writing.disturbed]
    /\ writing' = NotWriting
    /\ UNCHANGED <<source, dir, photo, damages>>

-----------------------------------------------------------------------------
(* What else happens to the files                                          *)

Damages == damages < MaxDamages /\ damages' = damages + 1 /\ lastRun' = NoReport
Disturbs == writing' = [writing EXCEPT !.disturbed = generates]

(* The generator is killed, perhaps in the middle of a file.               *)
Killed ==
    /\ generates /\ Damages
    /\ writing' = NotWriting
    /\ dir' \in {dir} \union {[dir EXCEPT ![p] = Malformed] : p \in {q \in DOMAIN writing.to : Turn(q)}}
    /\ UNCHANGED <<source, photo>>

(* The seed or the schema changes and the artifact is not regenerated.     *)
Checkout ==
    /\ ~generates /\ Damages
    /\ source' \in Builds
    /\ UNCHANGED <<dir, photo, writing>>

(* A merge takes one file as it was generated from another version.        *)
MergeFile ==
    /\ ~generates /\ Damages
    /\ \E b \in {c \in Builds : HasByteSource(c.dataset)}, p \in Paths :
          LET build == buildDatasetArtifact(b, photo, LibraryDocument)
          IN  dir' = [dir EXCEPT ![p] = IF p \in DOMAIN build THEN build[p] ELSE Absent]
    /\ UNCHANGED <<source, photo, writing>>

SpoilFile ==
    /\ Damages /\ Disturbs
    /\ \E p \in Paths, what \in {Absent, Malformed} : dir' = [dir EXCEPT ![p] = what]
    /\ UNCHANGED <<source, photo>>

ReplacePhoto ==
    /\ Damages /\ Disturbs
    /\ \E p \in Photos, v \in PhotoVersions : photo' = [photo EXCEPT ![p] = v]
    /\ UNCHANGED <<source, dir>>

Complete(b, document) ==
    LET build == buildDatasetArtifact(b, photo, document)
    IN  [p \in Paths |-> IF p \in DOMAIN build THEN build[p] ELSE Absent]
ArtifactInit ==
    /\ source \in Builds /\ photo \in [Photos -> PhotoVersions]
    /\ dir \in {Complete(b, LibraryDocument) : b \in {c \in Builds : HasByteSource(c.dataset)}}
              \union {[p \in Paths |-> IF p = DEMO_LIBRARY_ASSET_FILE THEN LibraryDocument
                                        ELSE IF p = FormerAsset THEN Malformed ELSE Absent]}
    /\ writing = NotWriting /\ lastRun = NoReport /\ damages = 0
ArtifactNext == Generate \/ WriteFile \/ writeDatasetArtifact \/ Killed \/ Checkout \/ MergeFile \/ SpoilFile \/ ReplacePhoto
ArtifactSpec == ArtifactInit /\ [][ArtifactNext]_artifactVars

-----------------------------------------------------------------------------
(* The validator accepts just what the generator writes: every file of one *)
(* coherent version with the member names of this source, and the photos   *)
(* as they are now; a mixture, a torn or a forgotten file is reported      *)
(* (validateDatasetArtifact, and the header of validate.ts).               *)
AcceptsWhatIsGenerated ==
    ~generates =>
        (validateDatasetArtifact = {} <=>
            \E b \in Builds : /\ b.coherent /\ b.names = source.names /\ HasByteSource(b.dataset)
                              /\ Exists(DEMO_LIBRARY_ASSET_FILE)
                              /\ dir = Complete(b, dir[DEMO_LIBRARY_ASSET_FILE]))

(* A run that reports success leaves the dataset of this source, and only  *)
(* a seed it cannot publish or a disturbance makes an uninterrupted run    *)
(* fail, whatever lay in the directory before (writeDatasetArtifact).      *)
GeneratorTellsTheTruth ==
    /\ lastRun.is = "written" => Loads /\ loadDatasetArtifact = source.dataset
    /\ lastRun.is = "threw" => lastRun.disturbed \/ ~source.coherent \/ ~Publishable

ArtifactHolds == AcceptsWhatIsGenerated /\ GeneratorTellsTheTruth
ArtifactTypeOK ==
    /\ source \in Builds /\ photo \in [Photos -> PhotoVersions] /\ DOMAIN dir = Paths
    /\ writing.left \subseteq Paths /\ lastRun.is \in {"none", "threw", "written"} /\ damages \in 0 .. MaxDamages

=============================================================================
