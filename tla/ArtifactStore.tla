--------------------------- MODULE ArtifactStore ---------------------------
(***************************************************************************)
(* Artifacts, src/internal/artifacts: the store, the new API (a blob put   *)
(* at once or as blocks and a block list) and the old one (ranges of a     *)
(* container), as the upload and download steps of jobs drive them.        *)
(*                                                                         *)
(* Abstractions.  An artifact's blob is one slot per block with the upload *)
(* and the file it was last written from, and a slot for what lies beyond  *)
(* the last block.  An upload of the new API is one archive; one of the    *)
(* old API has files, and ions keeps no path of a file (itemPath): each is *)
(* written to the one blob from its start.                                 *)
(* All steps are of one workflow run.  The directory outlives ions, the    *)
(* index does not: ids start at 1 again, and the directory of an id may    *)
(* hold the blob of an artifact of an earlier run.  An upload is finalized *)
(* after all its parts were answered; any part may be sent again.          *)
(***************************************************************************)
EXTENDS Naturals, FiniteSets

CONSTANTS Uploads,      \* upload steps
          UploadSets,   \* sets of them that one run of ions may reach
          Protocol,     \* [Uploads -> {"v3", "v4"}]
          ArtifactName, \* [Uploads -> name]
          FilesOf,      \* [Uploads -> files it has]
          ZipFile,      \* the one file of an upload of the new API
          Blocks,       \* parts of a file, 1..n
          Leftover,     \* ids whose directory holds a larger blob of an earlier run
          Fetches,      \* download steps
          FetchNames,   \* names they ask for
          MaxResends,   \* bound: block lists sent again
          NoUpload, Old

ASSUME ArtifactAssumption ==
    /\ IsFiniteSet(Uploads)
    /\ Protocol \in [Uploads -> {"v3", "v4"}]
    /\ Blocks \subseteq Nat \ {0}
    /\ \A u \in Uploads : /\ FilesOf[u] # {}
                          /\ Protocol[u] = "v4" => FilesOf[u] = {ZipFile}

VARIABLES
    idCounter,
    artifacts,  \* ids in Store.artifacts
    finalized,  \* ids of them that are finalized
    nameOf,     \* [ids -> name]
    blob,       \* [ids -> [Slots -> upload and file it is from]]
    staged,     \* [ids -> blocks in its directory]
    uploading,  \* [Uploads -> where the step is]
    artifactID, \* [Uploads -> id it was given]
    target,     \* [Uploads -> id its finalize found]
    written,    \* [Uploads -> blocks of its files that were answered]
    listed,     \* uploads of the new API whose blob is in place
    resent,     \* uploads whose block list was sent again
    overlapped, \* names for which two finalize requests were under way at once
    found,      \* [Fetches -> id, 0 for none]
    fetched     \* [Fetches -> contents]

artifactVars ==
    <<idCounter, artifacts, finalized, nameOf, blob, staged, uploading, artifactID, target, written,
      listed, resent, overlapped, found, fetched>>
stepVars     == <<artifactID, target, written, listed, resent, overlapped>>
fetchVars    == <<found, fetched>>
registryVars == <<idCounter, artifacts, nameOf>>

ArtifactIds == 1..Cardinality(Uploads)
Beyond      == 0
Slots       == Blocks \cup {Beyond}
NoBlob      == [b \in Slots |-> NoUpload]
Whole(u, f) == [b \in Slots |-> IF b = Beyond THEN NoUpload ELSE <<u, f>>]
Files       == UNION {FilesOf[u] : u \in Uploads}
Blobs       == [Slots -> (Uploads \X Files) \cup {NoUpload, Old}]

ArtifactInit ==
    /\ idCounter  = 0
    /\ artifacts  = {}
    /\ finalized  = {}
    /\ nameOf     = [i \in ArtifactIds |-> "none"]
    /\ blob       = [i \in ArtifactIds |-> IF i \in Leftover THEN [b \in Slots |-> Old] ELSE NoBlob]
    /\ staged     = [i \in ArtifactIds |-> {}]
    /\ uploading  \in {[u \in Uploads |-> IF u \in reached THEN "create" ELSE "abandoned"] :
                          reached \in UploadSets}
    /\ artifactID = [u \in Uploads |-> 0]
    /\ target     = [u \in Uploads |-> 0]
    /\ written    = [u \in Uploads |-> {}]
    /\ listed     = {}
    /\ resent     = {}
    /\ overlapped = {}
    /\ found      = [f \in Fetches |-> 0]
    /\ fetched    = [f \in Fetches |-> NoBlob]
-----------------------------------------------------------------------------
(* Store.                                                                  *)

\* Mutant: an artifact that is not finalized is found as well.
FindByNameAny(n) == {i \in artifacts : nameOf[i] = n}

\* Which of several is found is up to the iteration order of the map.
FindByName(n) == {i \in artifacts : i \in finalized /\ nameOf[i] = n}

FindUnfinalized(n) == {i \in artifacts : i \notin finalized /\ nameOf[i] = n}

\* The directory may exist.
Create(u) ==
    /\ uploading[u] = "create"
    /\ idCounter' = idCounter + 1
    /\ artifacts' = artifacts \cup {idCounter + 1}
    /\ nameOf' = [nameOf EXCEPT ![idCounter + 1] = ArtifactName[u]]
    /\ artifactID' = [artifactID EXCEPT ![u] = idCounter + 1]
    /\ uploading' = [uploading EXCEPT ![u] = "upload"]
    /\ UNCHANGED <<overlapped, finalized, blob, staged, target, written, listed, resent, fetchVars>>
CreateV3(u) == Protocol[u] = "v3" /\ Create(u)
CreateV4(u) == Protocol[u] = "v4" /\ Create(u)
-----------------------------------------------------------------------------
(* Uploads.                                                                *)

Uploading(u, p) == uploading[u] = "upload" /\ Protocol[u] = p

\* Simple Put Blob: the file is truncated.
PutBlob(u) ==
    /\ Uploading(u, "v4")
    /\ blob' = [blob EXCEPT ![artifactID[u]] = Whole(u, ZipFile)]
    /\ listed' = listed \cup {u}
    /\ UNCHANGED <<registryVars, overlapped, finalized, staged, uploading, artifactID, target, written, resent,
                   fetchVars>>

StageBlock(u, b) ==
    /\ Uploading(u, "v4") /\ u \notin listed
    /\ staged' = [staged EXCEPT ![artifactID[u]] = @ \cup {b}]
    /\ written' = [written EXCEPT ![u] = @ \cup {<<ZipFile, b>>}]
    /\ UNCHANGED <<registryVars, overlapped, finalized, blob, uploading, artifactID, target, listed, resent,
                   fetchVars>>

\* The client sends the list when it has sent the blocks.
AllBlocks(u) == written[u] = FilesOf[u] \X Blocks

\* The list: the file is truncated, the blocks that are there are appended and
\* removed.  The list sent again finds none.
CommitBlockList(u) ==
    /\ Uploading(u, "v4") /\ AllBlocks(u)
    /\ u \in listed => Cardinality(resent) < MaxResends
    /\ blob' = [blob EXCEPT ![artifactID[u]] =
           [b \in Slots |-> IF b \in staged[artifactID[u]] THEN <<u, ZipFile>> ELSE NoUpload]]
    /\ staged' = [staged EXCEPT ![artifactID[u]] = {}]
    /\ listed' = listed \cup {u}
    /\ resent' = IF u \in listed THEN resent \cup {u} ELSE resent
    /\ UNCHANGED <<registryVars, overlapped, finalized, uploading, artifactID, target, written, fetchVars>>

\* A file, or a range of it, is put into the container.
WriteToContainer(u, contents, blocks) ==
    /\ Uploading(u, "v3")
    /\ blob' = [blob EXCEPT ![artifactID[u]] = contents]
    /\ written' = [written EXCEPT ![u] = @ \cup blocks]
    /\ UNCHANGED <<registryVars, overlapped, finalized, staged, uploading, artifactID, target, listed, resent,
                   fetchVars>>

\* With a Content-Range nothing is truncated.
UploadRange(u, f, b) ==
    WriteToContainer(u, [blob[artifactID[u]] EXCEPT ![b] = <<u, f>>], {<<f, b>>})

\* Without one, the blob is truncated.
UploadItem(u, f) == WriteToContainer(u, Whole(u, f), {f} \X Blocks)
-----------------------------------------------------------------------------
(* Finalize: the artifact is looked for by its name, and marked when the   *)
(* lock has been taken again.                                              *)

ChoicesV3(n) == IF FindUnfinalized(n) # {} THEN FindUnfinalized(n) ELSE FindByName(n)
ChoicesV4(n) == IF FindByName(n) # {} THEN FindByName(n) ELSE FindUnfinalized(n)

FindArtifact(u, choices) ==
    /\ uploading[u] = "upload"
    /\ \E i \in choices : target' = [target EXCEPT ![u] = i]
    /\ uploading' = [uploading EXCEPT ![u] = "finalize"]
    /\ overlapped' = overlapped \cup {ArtifactName[v] : v \in {w \in Uploads :
           uploading[w] = "finalize" /\ ArtifactName[w] = ArtifactName[u]}}
    /\ UNCHANGED <<registryVars, finalized, blob, staged, artifactID, written, listed, resent, fetchVars>>

FinalizeV3(u) ==
    /\ Protocol[u] = "v3" /\ AllBlocks(u)
    /\ FindArtifact(u, ChoicesV3(ArtifactName[u]))

FinalizeV4(u) ==
    /\ Protocol[u] = "v4" /\ u \in listed
    /\ FindArtifact(u, ChoicesV4(ArtifactName[u]))

Finalize(u) ==
    /\ uploading[u] = "finalize"
    /\ finalized' = finalized \cup {target[u]}
    /\ uploading' = [uploading EXCEPT ![u] = "done"]
    /\ UNCHANGED <<registryVars, blob, staged, stepVars, fetchVars>>

\* The step is cancelled.
Abandon(u) ==
    /\ uploading[u] \in {"upload", "finalize"}
    /\ uploading' = [uploading EXCEPT ![u] = "abandoned"]
    /\ UNCHANGED <<registryVars, finalized, blob, staged, stepVars, fetchVars>>

\* GetSignedArtifactURL and the lists show finalized artifacts only.
Locate(f) ==
    /\ found[f] = 0
    /\ \E n \in FetchNames : \E i \in FindByName(n) : found' = [found EXCEPT ![f] = i]
    /\ UNCHANGED <<registryVars, finalized, blob, staged, uploading, stepVars, fetched>>

Fetch(f) ==
    /\ found[f] # 0 /\ fetched[f] = NoBlob
    /\ fetched' = [fetched EXCEPT ![f] = blob[found[f]]]
    /\ UNCHANGED <<registryVars, finalized, blob, staged, uploading, stepVars, found>>

ArtifactNext ==
    \/ \E u \in Uploads : \/ CreateV3(u) \/ CreateV4(u) \/ PutBlob(u) \/ CommitBlockList(u)
                          \/ FinalizeV3(u) \/ FinalizeV4(u) \/ Finalize(u) \/ Abandon(u)
                          \/ \E b \in Blocks : StageBlock(u, b)
                          \/ \E f \in FilesOf[u] : \/ UploadItem(u, f)
                                                   \/ \E b \in Blocks : UploadRange(u, f, b)
    \/ \E f \in Fetches : Locate(f) \/ Fetch(f)

ArtifactSpec == ArtifactInit /\ [][ArtifactNext]_artifactVars
-----------------------------------------------------------------------------
ArtifactTypeOK ==
    /\ idCounter \in {0} \cup ArtifactIds
    /\ artifacts = 1..idCounter
    /\ finalized \subseteq artifacts
    /\ nameOf \in [ArtifactIds -> {"none"} \cup {ArtifactName[u] : u \in Uploads}]
    /\ blob \in [ArtifactIds -> Blobs]
    /\ staged \in [ArtifactIds -> SUBSET Blocks]
    /\ uploading \in [Uploads -> {"create", "upload", "finalize", "done", "abandoned"}]
    /\ artifactID \in [Uploads -> {0} \cup ArtifactIds]
    /\ target \in [Uploads -> {0} \cup ArtifactIds]
    /\ written \in [Uploads -> SUBSET (Files \X Blocks)]
    /\ listed \subseteq Uploads
    /\ resent \subseteq Uploads
    /\ overlapped \subseteq {ArtifactName[u] : u \in Uploads}
    /\ found \in [Fetches -> {0} \cup ArtifactIds]
    /\ fetched \in [Fetches -> Blobs]

OnlyOfItsName(u) ==
    \A v \in Uploads \ {u} : ArtifactName[v] = ArtifactName[u] => artifactID[v] = 0

\* These contents of the directory of an id are what the step uploaded.
Intact(contents, i, u) ==
    /\ \A b \in Blocks : contents[b] \in {u} \X FilesOf[u]
    /\ Protocol[u] = "v4" \/ i \notin Leftover => contents[Beyond] = NoUpload

\* What is downloaded is what one step uploaded: every block is of a file of
\* it, so an upload of one file arrives whole, with nothing of another upload.
\* Not if another step used the same name or the block list was sent twice;
\* and behind an upload of the old API, into the directory of an earlier run,
\* the end of what was there may follow.
FetchesIntact ==
    \A d \in Fetches : fetched[d] # NoBlob =>
        \E u \in Uploads :
            /\ artifactID[u] = found[d]
            /\ OnlyOfItsName(u) /\ u \notin resent => Intact(fetched[d], found[d], u)

\* Not true of the code: what is downloaded is one of the uploaded files, not
\* blocks of several (itemPath is not used, handleV3Upload).
FilesKeptApart ==
    \A d \in Fetches : fetched[d] # NoBlob =>
        \A u \in Uploads : artifactID[u] = found[d] /\ OnlyOfItsName(u) /\ u \notin resent =>
            \E f \in FilesOf[u] : \A b \in Blocks : fetched[d][b] = <<u, f>>

\* An upload that was told it is finalized can be found: in the old API even
\* among uploads of the same name, once all of them are done, if they were
\* finalized one after the other.
FinishedIsListed ==
    \A u \in Uploads :
        LET same == {v \in Uploads : ArtifactName[v] = ArtifactName[u] /\ artifactID[v] # 0} IN
        /\ \A v \in same : uploading[v] = "done" /\ Protocol[v] = Protocol[u]
        /\ uploading[u] = "done" /\ (Protocol[u] = "v4" => same = {u})
        /\ ArtifactName[u] \notin overlapped
        => artifactID[u] \in FindByName(ArtifactName[u])

\* What the artifact store promises the steps of a run, with the exceptions FetchesIntact and
\* FinishedIsListed name.
ArtifactInv == ArtifactTypeOK /\ FetchesIntact /\ FinishedIsListed
=============================================================================
