----------------------------- MODULE AroundProofs ----------------------------
(***************************************************************************)
(* Around the runs.  What is kept on disk arrives whole: a run works with  *)
(* a complete and verified runner (RunnerInstall), a download gets the     *)
(* blocks of one upload of the name it asked for alone (ArtifactStore), a  *)
(* restore the archive of one save of the key it was told (CacheStore),    *)
(* for any versions, uploads, saves, failures, crashes and orders of       *)
(* requests, with the exceptions the properties name.  And watch mode      *)
(* (Watcher), for any directories, changes, timers and runs.               *)
(***************************************************************************)
EXTENDS RunnerInstall, ArtifactStore, CacheStore, Watcher, Foundations, SequenceTheorems,
        FiniteSetTheorems, TLAPS

-----------------------------------------------------------------------------
(* The runner.                                                             *)

\* Where Install is: it has a version, nobody runs meanwhile, and the
\* directory it makes was not there before.
TaskInv ==
    /\ task.at = "idle" => task = Idle
    /\ task.at # "idle" => task.version \in Versions /\ using = NoVersion
    /\ task.at \in {"extract", "verify"} => task.version \notin cutOff

\* Install is about to fill, or has filled and not verified, this directory.
BeingFilled(v) == task.at \in {"extract", "verify"} /\ task.version = v

\* A part of an archive is being completed, or was left by a kill.
PartialInv ==
    \A v \in Versions : dirs[v] = PartialDir => BeingFilled(v) \/ v \in cutOff

\* The checksum in the configuration is that of the directory, if there is one.
ChecksumInv ==
    config.sha # NoSum =>
        /\ config.version \in Versions
        /\ \/ dirs[config.version] \in {NoDir, config.sha}
           \/ BeingFilled(config.version)
           \/ config.version \in cutOff

\* The goroutine that looks for an update lives in a run and writes back what
\* the configuration still says.
PendingInv ==
    pending # NoConfig =>
        using # NoVersion /\ pending.version = config.version /\ pending.sha = config.sha

RunnerInv ==
    /\ InstallTypeOK /\ RunsCompleteRunner
    /\ TaskInv /\ PartialInv /\ ChecksumInv /\ PendingInv

-----------------------------------------------------------------------------
\* A checksum is neither of the numbers that stand for a missing or a partial directory.
LEMMA SumsAreOthers == Sums \subseteq Nat \ {NoSum, NoDir, PartialDir} /\ 2 \in Sums
BY InstallAssumption DEF Sums, NoSum, NoDir, PartialDir

\* RunnerInv holds in the beginning.
LEMMA InstallInitInv == InstallInit => RunnerInv
BY SumsAreOthers, InstallAssumption
DEF InstallInit, RunnerInv, InstallTypeOK, RunsCompleteRunner, TaskInv, PartialInv, ChecksumInv, PendingInv,
    BeingFilled, NoConfig, Idle, Configs, Present, NoVersion, NoSum, NoDir, PartialDir

\* Every step keeps RunnerInv.
LEMMA InstallNextInv == RunnerInv /\ [InstallNext]_installVars => RunnerInv'
<1> SUFFICES ASSUME RunnerInv, [InstallNext]_installVars
             PROVE  RunnerInv'
  OBVIOUS
<1> USE SumsAreOthers, InstallAssumption
        DEF RunnerInv, InstallTypeOK, RunsCompleteRunner, TaskInv, PartialInv, ChecksumInv, PendingInv,
            BeingFilled, NoConfig, Idle, Configs, Present, NoVersion, NoSum, NoDir, PartialDir
<1>1. CASE UseInstalled
  BY <1>1 DEF UseInstalled, Free
<1>2. CASE InstallLatest
  BY <1>2 DEF InstallLatest, Free, Begin
<1>3. CASE CheckForUpdate
  BY <1>3 DEF CheckForUpdate
<1>4. CASE UserRunEnds
  BY <1>4 DEF UserRunEnds
<1>5. CASE AlreadyInstalled
  BY <1>5 DEF AlreadyInstalled, SaveConfig, Succeed
<1>6. CASE Download
  BY <1>6 DEF Download, SetDir, Continue
<1>7. CASE DownloadFails
  BY <1>7 DEF DownloadFails, Fault, Fail
<1>8. CASE Extract
  BY <1>8 DEF Extract, SetDir, Continue
<1>9. CASE ExtractFails
  BY <1>9 DEF ExtractFails, Fault, Fail, SetDir
<1>10. CASE Reject
  BY <1>10 DEF Reject, Mismatch, Fail, SetDir
<1>11. CASE Accept
  BY <1>11 DEF Accept, Mismatch, SaveConfig, Succeed
<1>12. CASE Kill
  <2>1. task.at # "idle" /\ task.version \in Versions /\ using = NoVersion
    BY <1>12 DEF Kill
  <2>2. cutOff \subseteq cutOff' /\ cutOff' \subseteq Present' /\ task' = Idle /\ pending' = NoConfig
    BY <1>12, <2>1 DEF Kill
  <2>3. BeingFilled(task.version) => task.version \in cutOff'
    BY <1>12, <2>1 DEF Kill
  <2>4. failures' \in 0..MaxFailures
    BY <1>12 DEF Kill, Fault
  <2>5. UNCHANGED <<config, dirs, upstream, using, accepted>>
    BY <1>12 DEF Kill
  <2> QED
    BY <2>1, <2>2, <2>3, <2>4, <2>5
<1>13. CASE DayPasses
  <2>1. /\ config' \in Configs
        /\ config'.version = config.version /\ config'.sha = config.sha
    BY <1>13 DEF DayPasses
  <2>2. UNCHANGED <<dirs, upstream, task, pending, using, accepted, cutOff, failures>>
    BY <1>13 DEF DayPasses
  <2> QED
    BY <2>1, <2>2
<1>14. ASSUME NEW v \in Versions, UserDeletes(v)
       PROVE  RunnerInv'
  BY <1>14 DEF UserDeletes, Free, SetDir
<1>15. ASSUME NEW v \in Versions, Republish(v)
       PROVE  RunnerInv'
  BY <1>15 DEF Republish, Sums
<1>16. ASSUME NEW v \in Versions, NEW latest \in BOOLEAN, CommandInstall(v, latest)
       PROVE  RunnerInv'
  BY <1>16 DEF CommandInstall, Free, Begin
<1>17. CASE UNCHANGED installVars
  BY <1>17 DEF installVars
<1> HIDE DEF RunnerInv
<1> QED
  BY <1>1, <1>2, <1>3, <1>4, <1>5, <1>6, <1>7, <1>8, <1>9, <1>10, <1>11, <1>12, <1>13, <1>14, <1>15, <1>16, <1>17 DEF InstallNext

\* A run only works with a complete runner, whose checksum is the one in the configuration if there
\* is one there, unless a kill cut its installation off (EnsureInstalled, Install).
THEOREM CompleteAndVerified == InstallSpec => []InstallInv
<1>1. RunnerInv => InstallInv
  BY SumsAreOthers, InstallAssumption
  DEF RunnerInv, InstallInv, RunsVerifiedRunner, RunsCompleteRunner, InstallTypeOK, TaskInv, ChecksumInv,
      BeingFilled, NoVersion, NoSum, NoDir, PartialDir
<1> QED
  BY InstallInitInv, InstallNextInv, <1>1, PTL DEF InstallSpec
-----------------------------------------------------------------------------
(* Artifacts.                                                              *)

UploadStates == {"create", "upload", "finalize", "done", "abandoned"}

\* The uploads that have an artifact.
Created == {u \in Uploads : artifactID[u] # 0}

\* Every artifact is of one upload.
OwnerInv ==
    /\ idCounter = Cardinality(Created)
    /\ \A u \in Uploads : /\ uploading[u] = "create" => artifactID[u] = 0
                          /\ uploading[u] \in {"upload", "finalize", "done"} => artifactID[u] # 0
                          /\ artifactID[u] = 0 => written[u] = {}
    /\ \A u \in Created : artifactID[u] \in artifacts /\ nameOf[artifactID[u]] = ArtifactName[u]
    /\ \A u, v \in Created : artifactID[u] = artifactID[v] => u = v
    /\ \A i \in artifacts : \E u \in Created : artifactID[u] = i
    /\ \A i \in ArtifactIds \ artifacts : staged[i] = {} /\ (i \notin Leftover => blob[i] = NoBlob)

\* All parts of the upload were answered.
Complete(u) == IF Protocol[u] = "v4" THEN u \in listed ELSE AllBlocks(u)

\* What is in the directory of an upload, and on the way there.
UploadKept(u) ==
    /\ Protocol[u] = "v4" =>
          /\ u \notin listed => written[u] = {ZipFile} \X staged[artifactID[u]]
          /\ u \in listed /\ u \notin resent => blob[artifactID[u]] = Whole(u, ZipFile)
    /\ Protocol[u] = "v3" =>
          /\ written[u] \subseteq FilesOf[u] \X Blocks
          /\ \A f, b : <<f, b>> \in written[u] => blob[artifactID[u]][b] \in {u} \X FilesOf[u]
          /\ artifactID[u] \notin Leftover => blob[artifactID[u]][Beyond] = NoUpload

BlobInv == \A u \in Created : UploadKept(u)

\* What finalize finds is of the name it was asked for.
TargetInv ==
    /\ \A u \in Uploads :
          /\ uploading[u] \in {"finalize", "done"} =>
                target[u] \in artifacts /\ nameOf[target[u]] = ArtifactName[u] /\ Complete(u)
          /\ uploading[u] = "done" => target[u] \in finalized
    /\ \A i \in finalized : \E u \in Created : Complete(u) /\ ArtifactName[u] = nameOf[i]
    /\ \A u, v \in Uploads : /\ uploading[u] = "finalize" /\ uploading[v] = "finalize"
                             /\ ArtifactName[u] = ArtifactName[v] /\ ArtifactName[u] \notin overlapped
                             => u = v

\* The artifacts and the uploads of a name that are finalized.
FinalizedOf(n) == {i \in finalized : nameOf[i] = n}
DoneOf(n)      == {u \in Uploads : uploading[u] = "done" /\ ArtifactName[u] = n}
OnlyV3(n)      == \A u \in Created : ArtifactName[u] = n => Protocol[u] = "v3"

\* In the old API every finalize marks an artifact of its own, for as long as
\* there are any left.
CountInv ==
    \A u \in Uploads : LET n == ArtifactName[u] IN
        OnlyV3(n) /\ n \notin overlapped =>
            /\ Cardinality(DoneOf(n)) <= Cardinality(FinalizedOf(n))
            /\ uploading[u] = "finalize" =>
                  target[u] \notin finalized \/ Cardinality(DoneOf(n)) + 1 <= Cardinality(FinalizedOf(n))

\* Only what was created can have its blob listed.
ListedInv == listed \subseteq Created

\* Downloads are of finalized artifacts.
FetchInv ==
    \A f \in Fetches : /\ found[f] # 0 => found[f] \in finalized
                       /\ fetched[f] # NoBlob => found[f] # 0

AInv == ArtifactTypeOK /\ FetchesIntact /\ OwnerInv /\ BlobInv /\ TargetInv /\ CountInv /\ FetchInv /\ ListedInv
-----------------------------------------------------------------------------
\* AInv holds in the beginning.
LEMMA ArtifactInitInv == ArtifactInit => AInv
<1> SUFFICES ASSUME ArtifactInit
             PROVE  AInv
  OBVIOUS
<1>1. /\ idCounter = 0 /\ artifacts = {} /\ finalized = {} /\ listed = {} /\ resent = {} /\ overlapped = {}
      /\ nameOf = [i \in ArtifactIds |-> "none"] /\ staged = [i \in ArtifactIds |-> {}]
      /\ artifactID = [u \in Uploads |-> 0] /\ target = [u \in Uploads |-> 0] /\ written = [u \in Uploads |-> {}]
      /\ found = [f \in Fetches |-> 0] /\ fetched = [f \in Fetches |-> NoBlob]
      /\ blob = [i \in ArtifactIds |-> IF i \in Leftover THEN [b \in Slots |-> Old] ELSE NoBlob]
  BY DEF ArtifactInit
<1>2. uploading \in [Uploads -> {"create", "abandoned"}]
  BY DEF ArtifactInit
<1>3. NoBlob \in Blobs /\ [b \in Slots |-> Old] \in Blobs
  BY DEF NoBlob, Blobs
<1>4. ArtifactTypeOK
  <2>1. artifacts = 1..idCounter
    BY <1>1
  <2>2. blob \in [ArtifactIds -> Blobs]
    BY <1>1, <1>3
  <2>3. fetched \in [Fetches -> Blobs]
    BY <1>1, <1>3
  <2>4. uploading \in [Uploads -> {"create", "upload", "finalize", "done", "abandoned"}]
    BY <1>2
  <2> QED
    BY <1>1, <2>1, <2>2, <2>3, <2>4 DEF ArtifactTypeOK
<1>5. FetchesIntact /\ FetchInv
  BY <1>1 DEF FetchesIntact, FetchInv
<1>6. Created = {} /\ \A u \in Uploads : uploading[u] \in {"create", "abandoned"}
  BY <1>1, <1>2 DEF Created
<1>7. OwnerInv
  BY <1>1, <1>6, FS_EmptySet DEF OwnerInv
<1>8. BlobInv /\ TargetInv
  BY <1>1, <1>6 DEF BlobInv, TargetInv
<1>9. CountInv
  <2>1. \A n : DoneOf(n) = {} /\ FinalizedOf(n) = {}
    BY <1>1, <1>6 DEF DoneOf, FinalizedOf
  <2>2. \A n : Cardinality(DoneOf(n)) <= Cardinality(FinalizedOf(n))
    BY <2>1, FS_EmptySet
  <2> QED
    BY <2>2, <1>6 DEF CountInv
<1>10. ListedInv
  BY <1>1 DEF ListedInv
<1> QED
  BY <1>4, <1>5, <1>7, <1>8, <1>9, <1>10 DEF AInv

\* The types, unfolded.
LEMMA ArtifactTypes ==
    ASSUME AInv
    PROVE  /\ idCounter \in Nat /\ artifacts = 1..idCounter /\ finalized \subseteq artifacts
           /\ uploading \in [Uploads -> UploadStates]
           /\ artifactID \in [Uploads -> {0} \cup ArtifactIds] /\ target \in [Uploads -> {0} \cup ArtifactIds]
           /\ written \in [Uploads -> SUBSET (Files \X Blocks)] /\ staged \in [ArtifactIds -> SUBSET Blocks]
           /\ listed \subseteq Uploads /\ resent \subseteq Uploads
           /\ blob \in [ArtifactIds -> Blobs]
           /\ found \in [Fetches -> {0} \cup ArtifactIds]
           /\ fetched \in [Fetches -> Blobs]
           /\ \A u \in Created : u \in Uploads /\ artifactID[u] \in artifacts /\ artifactID[u] \in ArtifactIds
           /\ ArtifactIds \subseteq Nat \ {0} /\ Cardinality(Uploads) \in Nat
           /\ IsFiniteSet(Created) /\ IsFiniteSet(artifacts) /\ IsFiniteSet(finalized)
<1>1. /\ idCounter \in {0} \cup ArtifactIds /\ artifacts = 1..idCounter /\ finalized \subseteq artifacts
      /\ uploading \in [Uploads -> UploadStates]
      /\ artifactID \in [Uploads -> {0} \cup ArtifactIds] /\ target \in [Uploads -> {0} \cup ArtifactIds]
      /\ written \in [Uploads -> SUBSET (Files \X Blocks)] /\ staged \in [ArtifactIds -> SUBSET Blocks]
      /\ listed \subseteq Uploads /\ resent \subseteq Uploads
      /\ blob \in [ArtifactIds -> Blobs]
      /\ found \in [Fetches -> {0} \cup ArtifactIds]
      /\ fetched \in [Fetches -> Blobs]
  BY DEF AInv, ArtifactTypeOK, UploadStates
<1>2. Cardinality(Uploads) \in Nat
  BY ArtifactAssumption, FS_CardinalityType
<1>3. ArtifactIds \subseteq Nat \ {0}
  BY <1>2 DEF ArtifactIds
<1>4. idCounter \in Nat
  BY <1>1, <1>3
<1>5. \A u \in Created : u \in Uploads /\ artifactID[u] \in artifacts /\ artifactID[u] \in ArtifactIds
  BY <1>1 DEF AInv, OwnerInv, Created
<1>6. IsFiniteSet(Created)
  BY ArtifactAssumption, FS_Subset DEF Created
<1>7. IsFiniteSet(artifacts)
  BY <1>1, <1>4, FS_Interval
<1>8. IsFiniteSet(finalized)
  <2>1. finalized \subseteq artifacts
    BY <1>1
  <2> QED
    BY <1>7, <2>1, FS_Subset
<1> QED
  BY <1>1, <1>2, <1>3, <1>4, <1>5, <1>6, <1>7, <1>8

\* The files of an upload are files.
LEMMA FilesAreFiles == \A u \in Uploads : FilesOf[u] \subseteq Files
<1> SUFFICES ASSUME NEW u \in Uploads
             PROVE  FilesOf[u] \subseteq Files
  OBVIOUS
<1>1. FilesOf[u] \in {FilesOf[v] : v \in Uploads}
  OBVIOUS
<1> QED
  BY <1>1 DEF Files

\* A file put at once is of its upload, and all of the blob.
LEMMA WholeIsIntact ==
    ASSUME NEW u \in Uploads, NEW f \in FilesOf[u]
    PROVE  /\ Whole(u, f) \in Blobs
           /\ \A b \in Blocks : Whole(u, f)[b] \in {u} \X FilesOf[u]
           /\ Whole(u, f)[Beyond] = NoUpload
<1>1. \A b \in Slots : b \in Blocks <=> b # Beyond
  BY ArtifactAssumption DEF Slots, Beyond
<1>2. f \in Files
  BY FilesAreFiles
<1>3. <<u, f>> \in Uploads \X Files /\ <<u, f>> \in {u} \X FilesOf[u]
  BY <1>2
<1> QED
  BY <1>1, <1>3 DEF Whole, Slots, Blobs

\* A request of an upload leaves everything about other uploads alone.
LEMMA UploadFrame ==
    ASSUME AInv, NEW u \in Uploads, uploading[u] = "upload",
           UNCHANGED <<registryVars, finalized, uploading, artifactID, target, overlapped, fetchVars>>,
           listed \subseteq listed', resent \subseteq resent',
           \A v \in Uploads : written[v] \subseteq written'[v],
           \A v \in Uploads \ {u} : written'[v] = written[v],
           \A i \in ArtifactIds \ {artifactID[u]} : staged'[i] = staged[i] /\ blob'[i] = blob[i],
           written' \in [Uploads -> SUBSET (Files \X Blocks)], staged' \in [ArtifactIds -> SUBSET Blocks],
           blob' \in [ArtifactIds -> Blobs],
           listed' \subseteq listed \cup {u}, resent' \subseteq Uploads, BlobInv'
    PROVE  AInv'
<1>1. /\ idCounter' = idCounter /\ artifacts' = artifacts /\ nameOf' = nameOf /\ finalized' = finalized
      /\ uploading' = uploading /\ artifactID' = artifactID /\ target' = target /\ overlapped' = overlapped
      /\ found' = found /\ fetched' = fetched
  BY DEF registryVars, fetchVars
<1>2. u \in Created /\ artifactID[u] \in artifacts
  BY ArtifactTypes DEF AInv, OwnerInv, Created
<1>3. ArtifactTypeOK'
  <2>1. listed' \subseteq Uploads
    BY ArtifactTypes
  <2> QED
    BY <1>1, <2>1 DEF AInv, ArtifactTypeOK
<1>4. FetchesIntact'
  BY <1>1 DEF AInv, FetchesIntact, OnlyOfItsName
<1>5. Created' = Created
  BY <1>1 DEF Created
<1>6. OwnerInv'
  <2>1. \A v \in Uploads : /\ uploading'[v] = "create" => artifactID'[v] = 0
                           /\ uploading'[v] \in {"upload", "finalize", "done"} => artifactID'[v] # 0
                           /\ artifactID'[v] = 0 => written'[v] = {}
    BY <1>1, <1>2 DEF AInv, OwnerInv, Created
  <2>2. \A i \in ArtifactIds \ artifacts' : staged'[i] = {} /\ (i \notin Leftover => blob'[i] = NoBlob)
    BY <1>1, <1>2 DEF AInv, OwnerInv
  <2> QED
    BY <2>1, <2>2, <1>1, <1>5 DEF AInv, OwnerInv
<1>7. \A v \in Uploads : Complete(v) => Complete(v)'
  <2> SUFFICES ASSUME NEW v \in Uploads, Complete(v)
               PROVE  Complete(v)'
    OBVIOUS
  <2>1. CASE Protocol[v] = "v4"
    BY <2>1 DEF Complete
  <2>2. CASE Protocol[v] = "v3"
    <3>1. written[v] = FilesOf[v] \X Blocks
      BY <2>2 DEF Complete, AllBlocks
    <3>2. written'[v] = written[v]
      <4>1. CASE v = u
        <5>1. written'[v] \subseteq FilesOf[v] \X Blocks
          BY <4>1, <2>2, <1>2, <1>5 DEF BlobInv, UploadKept
        <5> QED
          BY <3>1, <5>1
      <4>2. CASE v # u
        BY <4>2
      <4> QED
        BY <4>1, <4>2
    <3> QED
      BY <2>2, <3>1, <3>2 DEF Complete, AllBlocks
  <2> QED
    BY <2>1, <2>2, ArtifactAssumption
<1>8. TargetInv'
  <2>1. \A i \in finalized' : \E v \in Created' : Complete(v)' /\ ArtifactName[v] = nameOf'[i]
    BY <1>1, <1>5, <1>7 DEF AInv, TargetInv, Created
  <2> QED
    BY <1>1, <1>7, <2>1 DEF AInv, TargetInv
<1>9. CountInv'
  <2>1. \A n : DoneOf(n)' = DoneOf(n) /\ FinalizedOf(n)' = FinalizedOf(n) /\ OnlyV3(n)' = OnlyV3(n)
    BY <1>1, <1>5 DEF DoneOf, FinalizedOf, OnlyV3
  <2> QED
    BY <1>1, <2>1 DEF AInv, CountInv
<1>10. FetchInv'
  BY <1>1 DEF AInv, FetchInv
<1>11. ListedInv'
  BY <1>2, <1>5 DEF AInv, ListedInv
<1> QED
  BY <1>3, <1>4, <1>6, <1>8, <1>9, <1>10, <1>11 DEF AInv

\* The new API: the whole blob in one request.
LEMMA PutBlobStep == ASSUME AInv, NEW u \in Uploads, PutBlob(u) PROVE AInv'
<1>1. /\ uploading[u] = "upload" /\ Protocol[u] = "v4"
      /\ blob' = [blob EXCEPT ![artifactID[u]] = Whole(u, ZipFile)] /\ listed' = listed \cup {u}
      /\ UNCHANGED <<registryVars, overlapped, finalized, staged, uploading, artifactID, target, written, resent, fetchVars>>
  BY DEF PutBlob, Uploading
<1>2. u \in Created /\ artifactID[u] \in ArtifactIds
  BY <1>1, ArtifactTypes DEF AInv, OwnerInv, Created
<1>3. Whole(u, ZipFile) \in Blobs
  BY <1>1, ArtifactAssumption, WholeIsIntact
<1>4. /\ blob' \in [ArtifactIds -> Blobs]
      /\ blob'[artifactID[u]] = Whole(u, ZipFile)
      /\ \A i \in ArtifactIds \ {artifactID[u]} : blob'[i] = blob[i]
  BY <1>1, <1>2, <1>3, ArtifactTypes
<1>5. BlobInv'
  <2> SUFFICES ASSUME NEW v \in Created
               PROVE  UploadKept(v)'
    BY <1>1 DEF BlobInv, Created
  <2>1. CASE v = u
    BY <2>1, <1>1, <1>4 DEF UploadKept
  <2>2. CASE v # u
    <3>1. artifactID[v] \in ArtifactIds \ {artifactID[u]}
      BY <2>2, <1>2, ArtifactTypes DEF AInv, OwnerInv
    <3>2. blob'[artifactID[v]] = blob[artifactID[v]] /\ (v \in listed' <=> v \in listed)
      BY <3>1, <2>2, <1>1, <1>4
    <3> QED
      BY <3>2, <1>1 DEF AInv, BlobInv, UploadKept
  <2> QED
    BY <2>1, <2>2
<1> QED
  BY <1>1, <1>4, <1>5, ArtifactTypes, UploadFrame

\* The new API: a block is staged.
LEMMA StageBlockStep == ASSUME AInv, NEW u \in Uploads, NEW b \in Blocks, StageBlock(u, b) PROVE AInv'
<1>1. /\ uploading[u] = "upload" /\ Protocol[u] = "v4" /\ u \notin listed
      /\ staged' = [staged EXCEPT ![artifactID[u]] = @ \cup {b}]
      /\ written' = [written EXCEPT ![u] = @ \cup {<<ZipFile, b>>}]
      /\ UNCHANGED <<registryVars, overlapped, finalized, blob, uploading, artifactID, target, listed, resent, fetchVars>>
  BY DEF StageBlock, Uploading
<1>2. u \in Created /\ artifactID[u] \in ArtifactIds
  BY <1>1, ArtifactTypes DEF AInv, OwnerInv, Created
<1>9. <<ZipFile, b>> \in Files \X Blocks
  BY <1>1, ArtifactAssumption, FilesAreFiles
<1>3. /\ staged' \in [ArtifactIds -> SUBSET Blocks] /\ written' \in [Uploads -> SUBSET (Files \X Blocks)]
      /\ staged'[artifactID[u]] = staged[artifactID[u]] \cup {b} /\ written'[u] = written[u] \cup {<<ZipFile, b>>}
      /\ \A i \in ArtifactIds \ {artifactID[u]} : staged'[i] = staged[i]
      /\ \A v \in Uploads \ {u} : written'[v] = written[v]
  BY <1>1, <1>2, <1>9, ArtifactTypes
<1>4. BlobInv'
  <2> SUFFICES ASSUME NEW v \in Created
               PROVE  UploadKept(v)'
    BY <1>1 DEF BlobInv, Created
  <2>1. CASE v = u
    <3>1. written[u] = {ZipFile} \X staged[artifactID[u]]
      BY <1>1, <1>2 DEF AInv, BlobInv, UploadKept
    <3>2. written'[u] = {ZipFile} \X staged'[artifactID[u]]
      BY <3>1, <1>3
    <3> QED
      BY <2>1, <3>2, <1>1 DEF UploadKept
  <2>2. CASE v # u
    <3>1. artifactID[v] \in ArtifactIds \ {artifactID[u]} /\ v \in Uploads \ {u}
      BY <2>2, <1>2, ArtifactTypes DEF AInv, OwnerInv
    <3>2. staged'[artifactID[v]] = staged[artifactID[v]] /\ written'[v] = written[v]
      BY <3>1, <1>3
    <3> QED
      BY <3>2, <1>1 DEF AInv, BlobInv, UploadKept
  <2> QED
    BY <2>1, <2>2
<1> QED
  BY <1>1, <1>3, <1>4, ArtifactTypes, UploadFrame

\* The new API: the staged blocks become the blob.
LEMMA CommitBlockListStep == ASSUME AInv, NEW u \in Uploads, CommitBlockList(u) PROVE AInv'
<1> DEFINE assembled == [b \in Slots |-> IF b \in staged[artifactID[u]] THEN <<u, ZipFile>> ELSE NoUpload]
<1>1. /\ uploading[u] = "upload" /\ Protocol[u] = "v4" /\ written[u] = FilesOf[u] \X Blocks
      /\ blob' = [blob EXCEPT ![artifactID[u]] = assembled]
      /\ staged' = [staged EXCEPT ![artifactID[u]] = {}]
      /\ listed' = listed \cup {u} /\ resent' = IF u \in listed THEN resent \cup {u} ELSE resent
      /\ UNCHANGED <<registryVars, overlapped, finalized, uploading, artifactID, target, written, fetchVars>>
  BY DEF CommitBlockList, Uploading, AllBlocks
<1>2. u \in Created /\ artifactID[u] \in ArtifactIds
  BY <1>1, ArtifactTypes DEF AInv, OwnerInv, Created
<1>8. FilesOf[u] = {ZipFile}
  BY <1>1, ArtifactAssumption
<1>3. assembled \in Blobs
  <2>1. <<u, ZipFile>> \in Uploads \X Files
    BY <1>8, FilesAreFiles
  <2> QED
    BY <2>1 DEF Blobs
<1>4. u \notin listed => assembled = Whole(u, ZipFile)
  <2> SUFFICES ASSUME u \notin listed
               PROVE  assembled = Whole(u, ZipFile)
    OBVIOUS
  <2>1. staged[artifactID[u]] = Blocks
    <3>1. {ZipFile} \X staged[artifactID[u]] = {ZipFile} \X Blocks
      BY <1>1, <1>2, <1>8 DEF AInv, BlobInv, UploadKept
    <3>2. \A b : <<ZipFile, b>> \in {ZipFile} \X staged[artifactID[u]] <=> b \in staged[artifactID[u]]
      OBVIOUS
    <3>3. \A b : <<ZipFile, b>> \in {ZipFile} \X Blocks <=> b \in Blocks
      OBVIOUS
    <3> QED
      BY <3>1, <3>2, <3>3
  <2>2. \A b \in Slots : b \in Blocks <=> b # Beyond
    BY ArtifactAssumption DEF Slots, Beyond
  <2> QED
    BY <2>1, <2>2 DEF Whole
<1> HIDE DEF assembled
<1>5. /\ blob' \in [ArtifactIds -> Blobs]
      /\ blob'[artifactID[u]] = assembled
      /\ \A i \in ArtifactIds \ {artifactID[u]} : blob'[i] = blob[i] /\ staged'[i] = staged[i]
      /\ staged' \in [ArtifactIds -> SUBSET Blocks]
  BY <1>1, <1>2, <1>3, ArtifactTypes
<1>6. BlobInv'
  <2> SUFFICES ASSUME NEW v \in Created
               PROVE  UploadKept(v)'
    BY <1>1 DEF BlobInv, Created
  <2>1. CASE v = u
    <3>1. v \notin resent' => u \notin listed
      BY <2>1, <1>1
    <3> QED
      BY <2>1, <3>1, <1>1, <1>4, <1>5 DEF UploadKept
  <2>2. CASE v # u
    <3>1. artifactID[v] \in ArtifactIds \ {artifactID[u]}
      BY <2>2, <1>2, ArtifactTypes DEF AInv, OwnerInv
    <3>2. /\ blob'[artifactID[v]] = blob[artifactID[v]] /\ staged'[artifactID[v]] = staged[artifactID[v]]
          /\ (v \in listed' <=> v \in listed) /\ (v \in resent' <=> v \in resent)
      BY <3>1, <2>2, <1>1, <1>5
    <3> QED
      BY <3>2, <1>1 DEF AInv, BlobInv, UploadKept
  <2> QED
    BY <2>1, <2>2
<1>7. resent \subseteq resent' /\ resent' \subseteq Uploads /\ listed' \subseteq Uploads
  BY <1>1, ArtifactTypes
<1> QED
  BY <1>1, <1>5, <1>6, <1>7, ArtifactTypes, UploadFrame

\* The old API: what is written comes from the upload, and what is behind it is not touched or gone.
LEMMA ContainerStep ==
    ASSUME AInv, NEW u \in Uploads, NEW contents \in Blobs, NEW blocks \in SUBSET (FilesOf[u] \X Blocks),
           WriteToContainer(u, contents, blocks),
           contents[Beyond] \in {blob[artifactID[u]][Beyond], NoUpload},
           \A f, b : <<f, b>> \in blocks => contents[b] \in {u} \X FilesOf[u],
           \A b \in Blocks : contents[b] = blob[artifactID[u]][b] \/ contents[b] \in {u} \X FilesOf[u]
    PROVE  AInv'
<1>1. /\ uploading[u] = "upload" /\ Protocol[u] = "v3"
      /\ blob' = [blob EXCEPT ![artifactID[u]] = contents]
      /\ written' = [written EXCEPT ![u] = @ \cup blocks]
      /\ UNCHANGED <<registryVars, overlapped, finalized, staged, uploading, artifactID, target, listed, resent, fetchVars>>
  BY DEF WriteToContainer, Uploading
<1>2. u \in Created /\ artifactID[u] \in ArtifactIds
  BY <1>1, ArtifactTypes DEF AInv, OwnerInv, Created
<1>3. /\ blob' \in [ArtifactIds -> Blobs] /\ blob'[artifactID[u]] = contents
      /\ \A i \in ArtifactIds \ {artifactID[u]} : blob'[i] = blob[i]
  BY <1>1, <1>2, ArtifactTypes
<1>4. /\ written' \in [Uploads -> SUBSET (Files \X Blocks)] /\ written'[u] = written[u] \cup blocks
      /\ \A v \in Uploads \ {u} : written'[v] = written[v]
  <2>1. blocks \in SUBSET (Files \X Blocks)
    BY FilesAreFiles
  <2> QED
    BY <2>1, <1>1, ArtifactTypes
<1>5. BlobInv'
  <2> SUFFICES ASSUME NEW v \in Created
               PROVE  UploadKept(v)'
    BY <1>1 DEF BlobInv, Created
  <2>1. CASE v = u
    <3>1. /\ written[u] \subseteq FilesOf[u] \X Blocks
          /\ \A f, b : <<f, b>> \in written[u] => blob[artifactID[u]][b] \in {u} \X FilesOf[u]
          /\ artifactID[u] \notin Leftover => blob[artifactID[u]][Beyond] = NoUpload
      BY <1>1, <1>2 DEF AInv, BlobInv, UploadKept
    <3>2. \A f, b : <<f, b>> \in written[u] => b \in Blocks
      BY ArtifactTypes
    <3>3. \A f, b : <<f, b>> \in written'[u] => contents[b] \in {u} \X FilesOf[u]
      BY <3>1, <3>2, <1>4
    <3>4. artifactID[u] \notin Leftover => contents[Beyond] = NoUpload
      BY <3>1
    <3> QED
      BY <2>1, <3>1, <3>3, <3>4, <1>1, <1>3, <1>4 DEF UploadKept
  <2>2. CASE v # u
    <3>1. artifactID[v] \in ArtifactIds \ {artifactID[u]} /\ v \in Uploads \ {u}
      BY <2>2, <1>2, ArtifactTypes DEF AInv, OwnerInv
    <3>2. blob'[artifactID[v]] = blob[artifactID[v]] /\ written'[v] = written[v]
      BY <3>1, <1>3, <1>4
    <3> QED
      BY <3>2, <1>1 DEF AInv, BlobInv, UploadKept
  <2> QED
    BY <2>1, <2>2
<1> QED
  BY <1>1, <1>3, <1>4, <1>5, ArtifactTypes, UploadFrame

\* The old API: a range is written in place.
LEMMA UploadRangeStep ==
    ASSUME AInv, NEW u \in Uploads, NEW f \in FilesOf[u], NEW b \in Blocks, UploadRange(u, f, b)
    PROVE  AInv'
<1> DEFINE contents == [blob[artifactID[u]] EXCEPT ![b] = <<u, f>>]
<1>1. uploading[u] = "upload" /\ WriteToContainer(u, contents, {<<f, b>>})
  BY DEF UploadRange, WriteToContainer, Uploading
<1>2. artifactID[u] \in ArtifactIds
  BY <1>1, ArtifactTypes DEF AInv, OwnerInv, Created
<1>3. <<u, f>> \in Uploads \X Files /\ <<u, f>> \in {u} \X FilesOf[u]
      /\ {<<f, b>>} \in SUBSET (FilesOf[u] \X Blocks)
  BY FilesAreFiles
<1>4. blob[artifactID[u]] \in [Slots -> (Uploads \X Files) \cup {NoUpload, Old}]
  BY <1>2, ArtifactTypes DEF Blobs
<1>5. b \in Slots /\ b # Beyond /\ Beyond \in Slots /\ Blocks \subseteq Slots
  BY ArtifactAssumption DEF Slots, Beyond
<1>6. contents \in Blobs
  BY <1>3, <1>4 DEF Blobs
<1>7. /\ contents[b] = <<u, f>>
      /\ \A c \in Slots \ {b} : contents[c] = blob[artifactID[u]][c]
  BY <1>4, <1>5
<1> HIDE DEF contents
<1>8. \A g, c : <<g, c>> \in {<<f, b>>} => contents[c] \in {u} \X FilesOf[u]
  BY <1>3, <1>7
<1>9. \A c \in Blocks : contents[c] = blob[artifactID[u]][c] \/ contents[c] \in {u} \X FilesOf[u]
  BY <1>3, <1>5, <1>7
<1>10. contents[Beyond] \in {blob[artifactID[u]][Beyond], NoUpload}
  BY <1>5, <1>7
<1> QED
  BY <1>1, <1>3, <1>6, <1>8, <1>9, <1>10, ContainerStep

\* The old API: a file is written over what is there.
LEMMA UploadItemStep ==
    ASSUME AInv, NEW u \in Uploads, NEW f \in FilesOf[u], UploadItem(u, f)
    PROVE  AInv'
<1>1. WriteToContainer(u, Whole(u, f), {f} \X Blocks)
  BY DEF UploadItem
<1>2. {f} \X Blocks \in SUBSET (FilesOf[u] \X Blocks)
  OBVIOUS
<1>3. \A g, b : <<g, b>> \in {f} \X Blocks => Whole(u, f)[b] \in {u} \X FilesOf[u]
  BY WholeIsIntact
<1> QED
  BY <1>1, <1>2, <1>3, WholeIsIntact, ContainerStep

\* A new artifact has an id of its own.
LEMMA CreateStep == ASSUME AInv, NEW u \in Uploads, Create(u) PROVE AInv'
<1>1. PICK i : i = idCounter + 1
  OBVIOUS
<1>2. /\ uploading[u] = "create" /\ idCounter' = i /\ artifacts' = artifacts \cup {i}
      /\ nameOf' = [nameOf EXCEPT ![i] = ArtifactName[u]]
      /\ artifactID' = [artifactID EXCEPT ![u] = i] /\ uploading' = [uploading EXCEPT ![u] = "upload"]
      /\ UNCHANGED <<overlapped, finalized, blob, staged, target, written, listed, resent, found, fetched>>
  BY <1>1 DEF Create, fetchVars
<1>3. u \notin Created /\ artifactID[u] = 0 /\ written[u] = {}
  BY <1>2 DEF AInv, OwnerInv, Created
<1>4. i \in ArtifactIds /\ i \notin artifacts
  <2>1. Cardinality(Created) < Cardinality(Uploads)
    <3>1. Created \cup {u} \subseteq Uploads
      BY DEF Created
    <3>2. Cardinality(Created \cup {u}) <= Cardinality(Uploads)
      BY <3>1, ArtifactAssumption, FS_Subset
    <3>3. Cardinality(Created \cup {u}) = Cardinality(Created) + 1 /\ Cardinality(Created) \in Nat
      BY <1>3, ArtifactTypes, FS_AddElement, FS_CardinalityType
    <3> QED
      BY <3>2, <3>3, ArtifactTypes
  <2>2. idCounter \in Nat /\ idCounter = Cardinality(Created) /\ Cardinality(Uploads) \in Nat /\ artifacts = 1..idCounter
    BY ArtifactTypes DEF AInv, OwnerInv
  <2> QED
    BY <1>1, <2>1, <2>2 DEF ArtifactIds
<1>5. /\ artifactID' \in [Uploads -> {0} \cup ArtifactIds] /\ artifactID'[u] = i
      /\ \A v \in Uploads \ {u} : artifactID'[v] = artifactID[v] /\ uploading'[v] = uploading[v]
      /\ uploading'[u] = "upload" /\ uploading' \in [Uploads -> UploadStates]
  BY <1>2, <1>4, ArtifactTypes DEF UploadStates
<1>6. Created' = Created \cup {u} /\ i # 0
  <2>1. i # 0
    BY <1>4, ArtifactTypes
  <2> QED
    BY <2>1, <1>5 DEF Created
<1>7. /\ nameOf'[i] = ArtifactName[u] /\ \A j \in ArtifactIds \ {i} : nameOf'[j] = nameOf[j]
      /\ nameOf' \in [ArtifactIds -> {"none"} \cup {ArtifactName[v] : v \in Uploads}]
  BY <1>2, <1>4 DEF AInv, ArtifactTypeOK
<1>8. artifacts \subseteq ArtifactIds /\ finalized \subseteq artifacts
  <2>1. \A j \in artifacts : \E v \in Created : artifactID[v] = j
    BY DEF AInv, OwnerInv
  <2> QED
    BY <2>1, ArtifactTypes
<1>9. ArtifactTypeOK'
  <2>1. idCounter' \in {0} \cup ArtifactIds /\ artifacts' = 1..idCounter'
    <3>1. artifacts = 1..idCounter /\ idCounter \in Nat
      BY ArtifactTypes
    <3> QED
      BY <3>1, <1>1, <1>2, <1>4
  <2>2. finalized' \subseteq artifacts'
    BY <1>2, <1>8
  <2> QED
    BY <2>1, <2>2, <1>2, <1>5, <1>7 DEF AInv, ArtifactTypeOK, UploadStates
<1>10. \A v \in Created : artifactID'[v] = artifactID[v] /\ artifactID[v] \in artifacts /\ artifactID[v] # i /\ v # u
  BY <1>3, <1>4, <1>5, ArtifactTypes
<1>11. FetchesIntact'
  <2> SUFFICES ASSUME NEW f \in Fetches, fetched[f] # NoBlob
               PROVE  \E v \in Uploads :
                         /\ artifactID'[v] = found[f]
                         /\ OnlyOfItsName(v)' /\ v \notin resent => Intact(fetched[f], found[f], v)
    BY <1>2 DEF FetchesIntact, NoBlob, Intact
  <2>1. PICK v \in Uploads : /\ artifactID[v] = found[f]
                             /\ OnlyOfItsName(v) /\ v \notin resent => Intact(fetched[f], found[f], v)
    BY DEF AInv, FetchesIntact
  <2>2. found[f] # 0
    BY DEF AInv, FetchInv
  <2>3. v \in Created
    BY <2>1, <2>2 DEF Created
  <2>4. ~OnlyOfItsName(v) => ~OnlyOfItsName(v)'
    <3> SUFFICES ASSUME NEW w \in Uploads \ {v}, ArtifactName[w] = ArtifactName[v], artifactID[w] # 0
                 PROVE  artifactID'[w] # 0
      BY DEF OnlyOfItsName
    <3> QED
      BY <1>10 DEF Created
  <2> QED
    BY <2>1, <2>3, <2>4, <1>10
<1>12. OwnerInv'
  <2>1. idCounter' = Cardinality(Created')
    <3>1. Cardinality(Created \cup {u}) = Cardinality(Created) + 1
      BY <1>3, ArtifactTypes, FS_AddElement
    <3> QED
      BY <3>1, <1>1, <1>2, <1>6 DEF AInv, OwnerInv
  <2>2. \A v \in Uploads : /\ uploading'[v] = "create" => artifactID'[v] = 0
                           /\ uploading'[v] \in {"upload", "finalize", "done"} => artifactID'[v] # 0
                           /\ artifactID'[v] = 0 => written'[v] = {}
    BY <1>2, <1>5, <1>6 DEF AInv, OwnerInv
  <2>3. \A v \in Created' : artifactID'[v] \in artifacts' /\ nameOf'[artifactID'[v]] = ArtifactName[v]
    BY <1>2, <1>5, <1>6, <1>7, <1>8, <1>10 DEF AInv, OwnerInv
  <2>4. \A v, w \in Created' : artifactID'[v] = artifactID'[w] => v = w
    BY <1>5, <1>6, <1>10 DEF AInv, OwnerInv
  <2>5. \A j \in artifacts' : \E v \in Created' : artifactID'[v] = j
    <3> SUFFICES ASSUME NEW j \in artifacts'
                 PROVE  \E v \in Created' : artifactID'[v] = j
      OBVIOUS
    <3>1. CASE j = i
      BY <3>1, <1>5, <1>6
    <3>2. CASE j # i
      <4>1. PICK v \in Created : artifactID[v] = j
        BY <3>2, <1>2 DEF AInv, OwnerInv
      <4> QED
        BY <4>1, <1>6, <1>10
    <3> QED
      BY <3>1, <3>2
  <2>6. \A j \in ArtifactIds \ artifacts' : staged'[j] = {} /\ (j \notin Leftover => blob'[j] = NoBlob)
    BY <1>2 DEF AInv, OwnerInv
  <2>7. \A j \in ArtifactIds \ artifacts' : staged'[j] = {} /\ (j \notin Leftover => blob'[j] = NoBlob')
    BY <2>6 DEF NoBlob, Slots, Beyond
  <2> QED
    BY <2>1, <2>2, <2>3, <2>4, <2>5, <2>7 DEF OwnerInv
<1>13. BlobInv'
  <2> SUFFICES ASSUME NEW v \in Created'
               PROVE  UploadKept(v)'
    BY <1>2 DEF BlobInv
  <2>1. CASE v \in Created
    BY <2>1, <1>2, <1>10 DEF AInv, BlobInv, UploadKept
  <2>2. CASE v = u
    <3>1. u \notin listed
      BY <1>3 DEF AInv, ListedInv
    <3>2. staged[i] = {} /\ (i \notin Leftover => blob[i] = NoBlob)
      BY <1>4 DEF AInv, OwnerInv
    <3>3. Beyond \in Slots
      BY DEF Slots
    <3> QED
      BY <2>2, <3>1, <3>2, <3>3, <1>2, <1>3, <1>5 DEF NoBlob, UploadKept
  <2> QED
    BY <2>1, <2>2, <1>6
<1>14. \A v \in Uploads : Complete(v)' = Complete(v)
  BY <1>2 DEF Complete, AllBlocks
<1>15. TargetInv'
  <2>1. \A v \in Uploads : uploading'[v] \in {"finalize", "done"} => v # u /\ uploading[v] = uploading'[v]
    BY <1>5
  <2>2. \A v \in Uploads : uploading'[v] \in {"finalize", "done"} =>
           target'[v] \in artifacts' /\ nameOf'[target'[v]] = ArtifactName[v] /\ Complete(v)'
    BY <2>1, <1>2, <1>4, <1>7, <1>8, <1>14 DEF AInv, TargetInv
  <2>3. \A v \in Uploads : uploading'[v] = "done" => target'[v] \in finalized'
    BY <2>1, <1>2 DEF AInv, TargetInv
  <2>4. \A j \in finalized' : \E v \in Created' : Complete(v)' /\ ArtifactName[v] = nameOf'[j]
    <3> SUFFICES ASSUME NEW j \in finalized
                 PROVE  \E v \in Created' : Complete(v)' /\ ArtifactName[v] = nameOf'[j]
      BY <1>2
    <3>1. PICK v \in Created : Complete(v) /\ ArtifactName[v] = nameOf[j]
      BY DEF AInv, TargetInv
    <3>2. nameOf'[j] = nameOf[j] /\ v \in Created' /\ v \in Uploads
      BY <1>4, <1>6, <1>7, <1>8, ArtifactTypes
    <3> QED
      BY <3>1, <3>2, <1>14
  <2>5. \A v, w \in Uploads : /\ uploading'[v] = "finalize" /\ uploading'[w] = "finalize"
                              /\ ArtifactName[v] = ArtifactName[w] /\ ArtifactName[v] \notin overlapped'
                              => v = w
    BY <2>1, <1>2 DEF AInv, TargetInv
  <2> QED
    BY <2>2, <2>3, <2>4, <2>5 DEF TargetInv
<1>16. CountInv'
  <2>1. \A n : OnlyV3(n)' => OnlyV3(n)
    BY <1>6 DEF OnlyV3
  <2>2. \A n : DoneOf(n)' = DoneOf(n)
    <3>1. \A v \in Uploads : uploading'[v] = "done" <=> uploading[v] = "done"
      BY <1>2, <1>5
    <3> QED
      BY <3>1 DEF DoneOf
  <2>3. \A n : FinalizedOf(n)' = FinalizedOf(n)
    <3>1. \A j \in finalized : nameOf'[j] = nameOf[j]
      BY <1>4, <1>7, <1>8
    <3> QED
      BY <3>1, <1>2 DEF FinalizedOf
  <2>4. \A v \in Uploads : uploading'[v] = "finalize" => uploading[v] = "finalize"
    BY <1>5
  <2> SUFFICES ASSUME NEW v \in Uploads, NEW n, n = ArtifactName[v], OnlyV3(n)', n \notin overlapped
               PROVE  /\ Cardinality(DoneOf(n)) <= Cardinality(FinalizedOf(n))
                      /\ uploading'[v] = "finalize" =>
                            target[v] \notin finalized \/ Cardinality(DoneOf(n)) + 1 <= Cardinality(FinalizedOf(n))
    BY <2>2, <2>3, <1>2 DEF CountInv
  <2> QED
    BY <2>1, <2>4 DEF AInv, CountInv
<1>17. FetchInv'
  BY <1>2 DEF AInv, FetchInv, NoBlob
<1>18. ListedInv'
  BY <1>2, <1>6 DEF AInv, ListedInv
<1> QED
  BY <1>9, <1>11, <1>12, <1>13, <1>15, <1>16, <1>17, <1>18 DEF AInv

\* What depends on the requests only.
LEMMA FinalizeFrame ==
    ASSUME AInv, UNCHANGED <<registryVars, blob, staged, artifactID, written, listed, resent>>
    PROVE  /\ Created' = Created /\ BlobInv' /\ ListedInv'
           /\ \A v \in Uploads : Complete(v)' = Complete(v)
           /\ \A n : OnlyV3(n)' = OnlyV3(n)
           /\ idCounter' = idCounter /\ artifacts' = artifacts /\ nameOf' = nameOf
<1>1. /\ idCounter' = idCounter /\ artifacts' = artifacts /\ nameOf' = nameOf
      /\ blob' = blob /\ staged' = staged /\ artifactID' = artifactID /\ written' = written
      /\ listed' = listed /\ resent' = resent
  BY DEF registryVars
<1>2. Created' = Created
  BY <1>1 DEF Created
<1>3. BlobInv' /\ ListedInv'
  BY <1>1, <1>2 DEF AInv, BlobInv, ListedInv, UploadKept
<1>4. \A v \in Uploads : Complete(v)' = Complete(v)
  BY <1>1 DEF Complete, AllBlocks
<1>5. \A n : OnlyV3(n)' = OnlyV3(n)
  BY <1>2 DEF OnlyV3
<1> QED
  BY <1>1, <1>2, <1>3, <1>4, <1>5

\* An upload that ends leaves everything on disk.
LEMMA AbandonStep == ASSUME AInv, NEW u \in Uploads, Abandon(u) PROVE AInv'
<1>1. /\ uploading' = [uploading EXCEPT ![u] = "abandoned"] /\ uploading[u] \in {"upload", "finalize"}
      /\ UNCHANGED <<registryVars, finalized, blob, staged, artifactID, target, written, listed, resent,
                     overlapped, found, fetched>>
  BY DEF Abandon, stepVars, fetchVars
<1>2. /\ uploading' \in [Uploads -> UploadStates] /\ uploading'[u] = "abandoned"
      /\ \A v \in Uploads \ {u} : uploading'[v] = uploading[v]
  BY <1>1, ArtifactTypes DEF UploadStates
<1>3. /\ Created' = Created /\ BlobInv' /\ ListedInv'
      /\ \A v \in Uploads : Complete(v)' = Complete(v)
      /\ \A n : OnlyV3(n)' = OnlyV3(n)
      /\ idCounter' = idCounter /\ artifacts' = artifacts /\ nameOf' = nameOf
  BY <1>1, FinalizeFrame
<1>4. \A v \in Uploads : uploading'[v] \in {"create", "upload", "finalize", "done"} => uploading'[v] = uploading[v]
  BY <1>2
<1>5. ArtifactTypeOK'
  BY <1>1, <1>2, <1>3 DEF AInv, ArtifactTypeOK, UploadStates
<1>6. FetchesIntact' /\ FetchInv'
  BY <1>1 DEF AInv, FetchesIntact, OnlyOfItsName, FetchInv
<1>7. OwnerInv'
  BY <1>1, <1>3, <1>4 DEF AInv, OwnerInv
<1>8. TargetInv'
  <2>1. \A v \in Uploads : /\ uploading'[v] = "finalize" => uploading[v] = "finalize"
                           /\ uploading'[v] = "done" => uploading[v] = "done"
    BY <1>4
  <2>2. \A i \in finalized' : \E v \in Created' : Complete(v)' /\ ArtifactName[v] = nameOf'[i]
    BY <1>1, <1>3 DEF AInv, TargetInv, Created
  <2>3. \A v \in Uploads :
           /\ uploading'[v] \in {"finalize", "done"} =>
                 target'[v] \in artifacts' /\ nameOf'[target'[v]] = ArtifactName[v] /\ Complete(v)'
           /\ uploading'[v] = "done" => target'[v] \in finalized'
    BY <1>1, <1>3, <2>1 DEF AInv, TargetInv
  <2> QED
    BY <1>1, <2>1, <2>2, <2>3 DEF AInv, TargetInv
<1>9. CountInv'
  <2>1. \A v \in Uploads : uploading'[v] = "done" <=> uploading[v] = "done"
    BY <1>1, <1>2
  <2>2. \A n : DoneOf(n)' = DoneOf(n) /\ FinalizedOf(n)' = FinalizedOf(n)
    BY <1>1, <1>3, <2>1 DEF DoneOf, FinalizedOf
  <2> QED
    BY <1>1, <1>3, <1>4, <2>2 DEF AInv, CountInv
<1> QED
  BY <1>3, <1>5, <1>6, <1>7, <1>8, <1>9 DEF AInv

\* As many artifacts of a name as steps that uploaded one.
LEMMA AsManyAsUploads ==
    ASSUME AInv, NEW n
    PROVE  /\ IsFiniteSet(FinalizedOf(n)) /\ IsFiniteSet(DoneOf(n))
           /\ Cardinality(FinalizedOf(n)) \in Nat /\ Cardinality(DoneOf(n)) \in Nat
           /\ \A w \in Uploads : ArtifactName[w] = n /\ uploading[w] \in {"upload", "finalize"}
                 /\ (\A i \in artifacts : nameOf[i] = n => i \in finalized)
                 => Cardinality(DoneOf(n)) + 1 <= Cardinality(FinalizedOf(n))
           /\ (\A v \in Created : ArtifactName[v] = n => uploading[v] = "done")
              /\ Cardinality(DoneOf(n)) <= Cardinality(FinalizedOf(n))
              => \A i \in artifacts : nameOf[i] = n => i \in finalized
<1> DEFINE mine == {v \in Created : ArtifactName[v] = n}
           arts == {i \in artifacts : nameOf[i] = n}
<1>1. IsFiniteSet(FinalizedOf(n)) /\ IsFiniteSet(DoneOf(n)) /\ IsFiniteSet(mine) /\ IsFiniteSet(arts)
  <2>1. FinalizedOf(n) \subseteq finalized /\ DoneOf(n) \subseteq Uploads /\ mine \subseteq Created /\ arts \subseteq artifacts
    BY DEF FinalizedOf, DoneOf
  <2> HIDE DEF mine, arts
  <2> QED
    BY <2>1, ArtifactTypes, ArtifactAssumption, FS_Subset
<1>2. /\ Cardinality(FinalizedOf(n)) \in Nat /\ Cardinality(DoneOf(n)) \in Nat
      /\ Cardinality(mine) \in Nat /\ Cardinality(arts) \in Nat
  BY <1>1, FS_CardinalityType
<1>3. Cardinality(arts) = Cardinality(mine)
  <2> DEFINE id == [v \in mine |-> artifactID[v]]
  <2>1. id \in Bijection(mine, arts)
    <3>1. \A v \in mine : artifactID[v] \in arts
      BY ArtifactTypes DEF AInv, OwnerInv
    <3>2. \A v, w \in mine : artifactID[v] = artifactID[w] => v = w
      BY DEF AInv, OwnerInv
    <3>3. \A i \in arts : \E v \in mine : artifactID[v] = i
      <4> TAKE i \in arts
      <4>1. PICK v \in Created : artifactID[v] = i
        BY DEF AInv, OwnerInv
      <4>2. ArtifactName[v] = n
        BY <4>1 DEF AInv, OwnerInv
      <4> QED
        BY <4>1, <4>2
    <3>4. id \in [mine -> arts]
      <4> HIDE DEF mine, arts
      <4> QED
        BY <3>1
    <3>5. \A v, w \in mine : id[v] = id[w] => v = w
      <4> HIDE DEF mine, arts
      <4> QED
        BY <3>2
    <3>6. \A i \in arts : \E v \in mine : id[v] = i
      <4> HIDE DEF mine, arts
      <4> QED
        BY <3>3
    <3> HIDE DEF mine, arts, id
    <3> QED
      BY <3>4, <3>5, <3>6 DEF Bijection, Injection, Surjection, IsInjective
  <2> HIDE DEF mine, arts, id
  <2> QED
    BY <2>1, <1>1, FS_Bijection DEF ExistsBijection
<1>4. DoneOf(n) \subseteq mine
  <2>1. \A v \in DoneOf(n) : v \in Uploads /\ uploading[v] = "done" /\ ArtifactName[v] = n
    BY DEF DoneOf
  <2> QED
    BY <2>1 DEF AInv, OwnerInv, Created
<1>5. FinalizedOf(n) \subseteq arts
  BY ArtifactTypes DEF FinalizedOf
<1>6. ASSUME NEW w \in Uploads, ArtifactName[w] = n, uploading[w] \in {"upload", "finalize"},
             \A i \in artifacts : nameOf[i] = n => i \in finalized
      PROVE  Cardinality(DoneOf(n)) + 1 <= Cardinality(FinalizedOf(n))
  <2>1. FinalizedOf(n) = arts
    BY <1>5, <1>6 DEF FinalizedOf
  <2>2. w \in mine /\ w \notin DoneOf(n)
    BY <1>6 DEF AInv, OwnerInv, Created, DoneOf
  <2>3. Cardinality(DoneOf(n) \cup {w}) = Cardinality(DoneOf(n)) + 1
    BY <1>1, <2>2, FS_AddElement
  <2>4. Cardinality(DoneOf(n) \cup {w}) <= Cardinality(mine)
    <3>1. DoneOf(n) \cup {w} \subseteq mine
      BY <2>2, <1>4
    <3> HIDE DEF mine
    <3> QED
      BY <3>1, <1>1, FS_Subset
  <2> HIDE DEF mine, arts
  <2> QED
    BY <2>1, <2>3, <2>4, <1>3
<1>7. ASSUME \A v \in Created : ArtifactName[v] = n => uploading[v] = "done",
             Cardinality(DoneOf(n)) <= Cardinality(FinalizedOf(n))
      PROVE  \A i \in artifacts : nameOf[i] = n => i \in finalized
  <2>1. DoneOf(n) = mine
    BY <1>4, <1>7 DEF DoneOf, Created
  <2>2. FinalizedOf(n) = arts
    <3> HIDE DEF mine, arts
    <3>1. Cardinality(FinalizedOf(n)) <= Cardinality(arts) /\ (Cardinality(FinalizedOf(n)) = Cardinality(arts) => FinalizedOf(n) = arts)
      BY <1>1, <1>5, FS_Subset
    <3> QED
      BY <2>1, <3>1, <1>2, <1>3, <1>7
  <2> QED
    BY <2>2 DEF FinalizedOf
<1> QED
  BY <1>1, <1>2, <1>6, <1>7

\* What finalize found is marked later: until then it counts for the artifacts
\* the step still has to mark.
LEMMA FindArtifactStep ==
    ASSUME AInv, NEW u \in Uploads, Complete(u), NEW choices \in SUBSET artifacts,
           \A i \in choices : nameOf[i] = ArtifactName[u],
           Protocol[u] = "v3" => choices = ChoicesV3(ArtifactName[u]),
           FindArtifact(u, choices)
    PROVE  AInv'
<1>1. PICK i \in choices : target' = [target EXCEPT ![u] = i]
  BY DEF FindArtifact
<1>2. /\ uploading[u] = "upload" /\ uploading' = [uploading EXCEPT ![u] = "finalize"]
      /\ overlapped' = overlapped \cup {ArtifactName[v] : v \in {w \in Uploads :
             uploading[w] = "finalize" /\ ArtifactName[w] = ArtifactName[u]}}
      /\ UNCHANGED <<registryVars, finalized, blob, staged, artifactID, written, listed, resent, found, fetched>>
  BY DEF FindArtifact, fetchVars
<1>3. /\ uploading' \in [Uploads -> UploadStates] /\ uploading'[u] = "finalize"
      /\ \A v \in Uploads \ {u} : uploading'[v] = uploading[v] /\ target'[v] = target[v]
  BY <1>1, <1>2, ArtifactTypes DEF UploadStates
<1>4. i \in artifacts /\ i \in ArtifactIds /\ nameOf[i] = ArtifactName[u]
  <2>1. \A j \in artifacts : \E v \in Created : artifactID[v] = j
    BY DEF AInv, OwnerInv
  <2> QED
    BY <2>1, ArtifactTypes
<1>5. target' \in [Uploads -> {0} \cup ArtifactIds] /\ target'[u] = i
  BY <1>1, <1>4, ArtifactTypes
<1>6. /\ Created' = Created /\ BlobInv' /\ ListedInv'
      /\ \A v \in Uploads : Complete(v)' = Complete(v)
      /\ \A n : OnlyV3(n)' = OnlyV3(n)
      /\ idCounter' = idCounter /\ artifacts' = artifacts /\ nameOf' = nameOf
  BY <1>2, FinalizeFrame
<1>7. /\ overlapped \subseteq overlapped' /\ overlapped' \subseteq {ArtifactName[v] : v \in Uploads}
      /\ ArtifactName[u] \notin overlapped' =>
            \A w \in Uploads : ArtifactName[w] = ArtifactName[u] => uploading[w] # "finalize"
  BY <1>2 DEF AInv, ArtifactTypeOK
<1>8. ArtifactTypeOK'
  BY <1>2, <1>3, <1>5, <1>6, <1>7 DEF AInv, ArtifactTypeOK, UploadStates
<1>9. FetchesIntact' /\ FetchInv'
  BY <1>2 DEF AInv, FetchesIntact, OnlyOfItsName, FetchInv
<1>10. OwnerInv'
  <2>1. \A v \in Uploads : /\ uploading'[v] = "create" => artifactID'[v] = 0
                           /\ uploading'[v] \in {"upload", "finalize", "done"} => artifactID'[v] # 0
    BY <1>2, <1>3 DEF AInv, OwnerInv
  <2> QED
    BY <1>2, <1>6, <2>1 DEF AInv, OwnerInv
<1>11. TargetInv'
  <2>1. \A v \in Uploads :
           /\ uploading'[v] \in {"finalize", "done"} =>
                 target'[v] \in artifacts' /\ nameOf'[target'[v]] = ArtifactName[v] /\ Complete(v)'
           /\ uploading'[v] = "done" => target'[v] \in finalized'
    <3> TAKE v \in Uploads
    <3>1. CASE v = u
      BY <3>1, <1>3, <1>4, <1>5, <1>6
    <3>2. CASE v # u
      BY <3>2, <1>2, <1>3, <1>6 DEF AInv, TargetInv
    <3> QED
      BY <3>1, <3>2
  <2>2. \A j \in finalized' : \E v \in Created' : Complete(v)' /\ ArtifactName[v] = nameOf'[j]
    BY <1>2, <1>6 DEF AInv, TargetInv, Created
  <2>3. ASSUME NEW v \in Uploads, NEW w \in Uploads, uploading'[v] = "finalize", uploading'[w] = "finalize",
               ArtifactName[v] = ArtifactName[w], ArtifactName[v] \notin overlapped'
        PROVE  v = w
    <3>1. CASE v # u /\ w # u
      BY <3>1, <2>3, <1>3, <1>7 DEF AInv, TargetInv
    <3>2. CASE v = u \/ w = u
      BY <3>2, <2>3, <1>3, <1>7
    <3> QED
      BY <3>1, <3>2
  <2> QED
    BY <2>1, <2>2, <2>3 DEF TargetInv
<1>12. \A n : DoneOf(n)' = DoneOf(n) /\ FinalizedOf(n)' = FinalizedOf(n)
  <2>1. \A v \in Uploads : uploading'[v] = "done" <=> uploading[v] = "done"
    BY <1>2, <1>3
  <2> QED
    BY <1>2, <1>6, <2>1 DEF DoneOf, FinalizedOf
<1>13. CountInv'
  <2> SUFFICES ASSUME NEW v \in Uploads, NEW n, n = ArtifactName[v], OnlyV3(n), n \notin overlapped'
               PROVE  /\ Cardinality(DoneOf(n)) <= Cardinality(FinalizedOf(n))
                      /\ uploading'[v] = "finalize" =>
                            target'[v] \notin finalized \/ Cardinality(DoneOf(n)) + 1 <= Cardinality(FinalizedOf(n))
    BY <1>2, <1>6, <1>12 DEF CountInv
  <2>1. /\ Cardinality(DoneOf(n)) <= Cardinality(FinalizedOf(n))
        /\ uploading[v] = "finalize" =>
              target[v] \notin finalized \/ Cardinality(DoneOf(n)) + 1 <= Cardinality(FinalizedOf(n))
    BY <1>7 DEF AInv, CountInv
  <2>2. CASE v # u
    BY <2>1, <2>2, <1>3
  <2>3. CASE v = u
    <3>1. u \in Created /\ Protocol[u] = "v3"
      BY <2>3, <1>2 DEF AInv, OwnerInv, Created, OnlyV3
    <3>2. CASE FindUnfinalized(n) # {}
      <4>1. i \in FindUnfinalized(n)
        BY <2>3, <3>1, <3>2 DEF ChoicesV3
      <4> QED
        BY <2>1, <2>3, <4>1, <1>5 DEF FindUnfinalized
    <3>3. CASE FindUnfinalized(n) = {}
      <4>1. \A j \in artifacts : nameOf[j] = n => j \in finalized
        BY <3>3 DEF FindUnfinalized
      <4>3. Cardinality(DoneOf(n)) + 1 <= Cardinality(FinalizedOf(n))
        BY <2>3, <4>1, <1>2, AsManyAsUploads
      <4> QED
        BY <2>1, <4>3
    <3> QED
      BY <3>2, <3>3
  <2> QED
    BY <2>2, <2>3
<1> QED
  BY <1>6, <1>8, <1>9, <1>10, <1>11, <1>13 DEF AInv

\* What was found is marked as finalized.
LEMMA FinalizeStep == ASSUME AInv, NEW u \in Uploads, Finalize(u) PROVE AInv'
<1>1. /\ uploading[u] = "finalize" /\ finalized' = finalized \cup {target[u]}
      /\ uploading' = [uploading EXCEPT ![u] = "done"]
      /\ UNCHANGED <<registryVars, blob, staged, artifactID, target, written, listed, resent, overlapped,
                     found, fetched>>
  BY DEF Finalize, stepVars, fetchVars
<1>2. /\ uploading' \in [Uploads -> UploadStates] /\ uploading'[u] = "done"
      /\ \A v \in Uploads \ {u} : uploading'[v] = uploading[v]
  BY <1>1, ArtifactTypes DEF UploadStates
<1>3. target[u] \in artifacts /\ nameOf[target[u]] = ArtifactName[u] /\ Complete(u) /\ u \in Created
  BY <1>1 DEF AInv, TargetInv, OwnerInv, Created
<1>4. /\ Created' = Created /\ BlobInv' /\ ListedInv'
      /\ \A v \in Uploads : Complete(v)' = Complete(v)
      /\ \A n : OnlyV3(n)' = OnlyV3(n)
      /\ idCounter' = idCounter /\ artifacts' = artifacts /\ nameOf' = nameOf
  BY <1>1, FinalizeFrame
<1>5. ArtifactTypeOK'
  <2>1. finalized' \subseteq artifacts'
    BY <1>1, <1>3, <1>4, ArtifactTypes
  <2> QED
    BY <2>1, <1>1, <1>2, <1>4 DEF AInv, ArtifactTypeOK, UploadStates
<1>6. FetchesIntact' /\ FetchInv'
  BY <1>1 DEF AInv, FetchesIntact, OnlyOfItsName, FetchInv
<1>7. OwnerInv'
  <2>1. \A v \in Uploads : /\ uploading'[v] = "create" => artifactID'[v] = 0
                           /\ uploading'[v] \in {"upload", "finalize", "done"} => artifactID'[v] # 0
    BY <1>1, <1>2 DEF AInv, OwnerInv
  <2> QED
    BY <1>1, <1>4, <2>1 DEF AInv, OwnerInv
<1>8. TargetInv'
  <2>1. \A v \in Uploads :
           /\ uploading'[v] \in {"finalize", "done"} =>
                 target'[v] \in artifacts' /\ nameOf'[target'[v]] = ArtifactName[v] /\ Complete(v)'
           /\ uploading'[v] = "done" => target'[v] \in finalized'
    <3> TAKE v \in Uploads
    <3>1. CASE v = u
      BY <3>1, <1>1, <1>3, <1>4
    <3>2. CASE v # u
      BY <3>2, <1>1, <1>2, <1>4 DEF AInv, TargetInv
    <3> QED
      BY <3>1, <3>2
  <2>2. \A j \in finalized' : \E v \in Created' : Complete(v)' /\ ArtifactName[v] = nameOf'[j]
    <3> SUFFICES ASSUME NEW j \in finalized'
                 PROVE  \E v \in Created : Complete(v) /\ ArtifactName[v] = nameOf[j]
      BY <1>4 DEF Created
    <3>1. CASE j \in finalized
      BY <3>1 DEF AInv, TargetInv
    <3>2. CASE j = target[u]
      BY <3>2, <1>3
    <3> QED
      BY <3>1, <3>2, <1>1
  <2>3. \A v \in Uploads : uploading'[v] = "finalize" => uploading[v] = "finalize"
    BY <1>2
  <2> QED
    BY <1>1, <2>1, <2>2, <2>3 DEF AInv, TargetInv
<1>9. CountInv'
  <2> SUFFICES ASSUME NEW v \in Uploads, NEW n, n = ArtifactName[v], OnlyV3(n), n \notin overlapped
               PROVE  /\ Cardinality(DoneOf(n)') <= Cardinality(FinalizedOf(n)')
                      /\ uploading'[v] = "finalize" =>
                            target[v] \notin finalized' \/ Cardinality(DoneOf(n)') + 1 <= Cardinality(FinalizedOf(n)')
    BY <1>1, <1>4 DEF CountInv
  <2>1. /\ Cardinality(DoneOf(n)) <= Cardinality(FinalizedOf(n))
        /\ uploading[v] = "finalize" =>
              target[v] \notin finalized \/ Cardinality(DoneOf(n)) + 1 <= Cardinality(FinalizedOf(n))
    BY DEF AInv, CountInv
  <2>2. CASE n # ArtifactName[u]
    <3>1. DoneOf(n)' = DoneOf(n)
      <4>1. \A w \in Uploads : ArtifactName[w] = n => uploading'[w] = uploading[w]
        BY <2>2, <1>2
      <4> QED
        BY <4>1 DEF DoneOf
    <3>2. FinalizedOf(n)' = FinalizedOf(n)
      BY <2>2, <1>1, <1>3, <1>4 DEF FinalizedOf
    <3>3. uploading'[v] = "finalize" => uploading[v] = "finalize" /\ target[v] # target[u]
      <4>1. v # u
        BY <2>2
      <4>2. uploading[v] = "finalize" => nameOf[target[v]] = n
        BY DEF AInv, TargetInv
      <4> QED
        BY <4>1, <4>2, <2>2, <1>2, <1>3
    <3> QED
      BY <2>1, <3>1, <3>2, <3>3, <1>1
  <2>3. CASE n = ArtifactName[u]
    <3>1. uploading'[v] # "finalize"
      <4>1. uploading'[v] = "finalize" => v # u /\ uploading[v] = "finalize"
        BY <1>2
      <4> QED
        BY <4>1, <2>3, <1>1 DEF AInv, TargetInv
    <3>2. DoneOf(n)' = DoneOf(n) \cup {u} /\ u \notin DoneOf(n)
      BY <2>3, <1>1, <1>2 DEF DoneOf
    <3>3. FinalizedOf(n)' = FinalizedOf(n) \cup {target[u]}
      BY <2>3, <1>1, <1>3, <1>4 DEF FinalizedOf
    <3>4. /\ IsFiniteSet(FinalizedOf(n)) /\ IsFiniteSet(DoneOf(n))
          /\ Cardinality(FinalizedOf(n)) \in Nat /\ Cardinality(DoneOf(n)) \in Nat
      BY AsManyAsUploads
    <3>5. Cardinality(DoneOf(n)') = Cardinality(DoneOf(n)) + 1
      BY <3>2, <3>4, FS_AddElement
    <3>6. \/ target[u] \notin finalized
          \/ Cardinality(DoneOf(n)) + 1 <= Cardinality(FinalizedOf(n))
      BY <2>3, <1>1 DEF AInv, CountInv
    <3>7. CASE target[u] \notin finalized
      <4>1. target[u] \notin FinalizedOf(n)
        BY <3>7 DEF FinalizedOf
      <4>2. Cardinality(FinalizedOf(n)') = Cardinality(FinalizedOf(n)) + 1
        BY <3>3, <3>4, <4>1, FS_AddElement
      <4> QED
        BY <2>1, <3>1, <3>4, <3>5, <4>2
    <3>8. CASE target[u] \in finalized
      <4>1. FinalizedOf(n)' = FinalizedOf(n)
        BY <2>3, <3>3, <3>8, <1>3 DEF FinalizedOf
      <4> QED
        BY <3>1, <3>5, <3>6, <3>8, <4>1
    <3> QED
      BY <3>7, <3>8
  <2> QED
    BY <2>2, <2>3
<1> QED
  BY <1>4, <1>5, <1>6, <1>7, <1>8, <1>9 DEF AInv

\* The old API finds any artifact of the name that is left to finalize.
LEMMA FinalizeV3Step == ASSUME AInv, NEW u \in Uploads, FinalizeV3(u) PROVE AInv'
<1>1. Protocol[u] = "v3" /\ AllBlocks(u) /\ FindArtifact(u, ChoicesV3(ArtifactName[u]))
  BY DEF FinalizeV3
<1>2. Complete(u)
  BY <1>1 DEF Complete
<1>3. /\ ChoicesV3(ArtifactName[u]) \subseteq artifacts
      /\ \A i \in ChoicesV3(ArtifactName[u]) : nameOf[i] = ArtifactName[u]
  BY DEF ChoicesV3, FindUnfinalized, FindByName
<1> QED
  BY <1>1, <1>2, <1>3, FindArtifactStep

\* The new API finds the first artifact of the name.
LEMMA FinalizeV4Step == ASSUME AInv, NEW u \in Uploads, FinalizeV4(u) PROVE AInv'
<1>1. Protocol[u] = "v4" /\ u \in listed /\ FindArtifact(u, ChoicesV4(ArtifactName[u]))
  BY DEF FinalizeV4
<1>2. Complete(u)
  BY <1>1 DEF Complete
<1>3. /\ ChoicesV4(ArtifactName[u]) \subseteq artifacts
      /\ \A i \in ChoicesV4(ArtifactName[u]) : nameOf[i] = ArtifactName[u]
  BY DEF ChoicesV4, FindUnfinalized, FindByName
<1> QED
  BY <1>1, <1>2, <1>3, FindArtifactStep

\* Downloads see nothing but their own variables change.
LEMMA DownloadFrame ==
    ASSUME AInv,
           UNCHANGED <<registryVars, finalized, blob, staged, uploading, stepVars>>,
           found' \in [Fetches -> {0} \cup ArtifactIds],
           fetched' \in [Fetches -> Blobs],
           FetchesIntact', FetchInv'
    PROVE  AInv'
<1>1. /\ finalized' = finalized /\ uploading' = uploading /\ target' = target /\ overlapped' = overlapped
      /\ artifactID' = artifactID /\ written' = written /\ listed' = listed /\ resent' = resent
      /\ blob' = blob /\ staged' = staged
  BY DEF stepVars
<1>2. /\ Created' = Created /\ BlobInv' /\ ListedInv'
      /\ \A v \in Uploads : Complete(v)' = Complete(v)
      /\ \A n : OnlyV3(n)' = OnlyV3(n)
      /\ idCounter' = idCounter /\ artifacts' = artifacts /\ nameOf' = nameOf
  BY <1>1, FinalizeFrame
<1>3. ArtifactTypeOK'
  BY <1>1, <1>2 DEF AInv, ArtifactTypeOK
<1>4. OwnerInv'
  BY <1>1, <1>2 DEF AInv, OwnerInv
<1>5. TargetInv'
  <2>1. \A i \in finalized' : \E v \in Created' : Complete(v)' /\ ArtifactName[v] = nameOf'[i]
    BY <1>1, <1>2 DEF AInv, TargetInv, Created
  <2>2. \A v \in Uploads :
           /\ uploading'[v] \in {"finalize", "done"} =>
                 target'[v] \in artifacts' /\ nameOf'[target'[v]] = ArtifactName[v] /\ Complete(v)'
           /\ uploading'[v] = "done" => target'[v] \in finalized'
    BY <1>1, <1>2 DEF AInv, TargetInv
  <2> QED
    BY <1>1, <2>1, <2>2 DEF AInv, TargetInv
<1>6. CountInv'
  <2>1. \A n : DoneOf(n)' = DoneOf(n) /\ FinalizedOf(n)' = FinalizedOf(n)
    BY <1>1, <1>2 DEF DoneOf, FinalizedOf
  <2> QED
    BY <1>1, <1>2, <2>1 DEF AInv, CountInv
<1> QED
  BY <1>2, <1>3, <1>4, <1>5, <1>6 DEF AInv

\* A download is of a finalized artifact.
LEMMA LocateStep == ASSUME AInv, NEW f \in Fetches, Locate(f) PROVE AInv'
<1>1. PICK i : /\ found' = [found EXCEPT ![f] = i]
               /\ \E n \in FetchNames : i \in FindByName(n)
  BY DEF Locate
<1>2. /\ found[f] = 0 /\ fetched' = fetched
      /\ UNCHANGED <<registryVars, finalized, blob, staged, uploading, stepVars>>
  BY DEF Locate
<1>3. i \in finalized /\ i \in ArtifactIds
  <2>1. \A j \in artifacts : \E v \in Created : artifactID[v] = j
    BY DEF AInv, OwnerInv
  <2> QED
    BY <2>1, <1>1, ArtifactTypes DEF FindByName
<1>4. found' \in [Fetches -> {0} \cup ArtifactIds] /\ found'[f] = i
      /\ \A g \in Fetches \ {f} : found'[g] = found[g]
  BY <1>1, <1>3, ArtifactTypes
<1>5. artifactID' = artifactID /\ resent' = resent /\ finalized' = finalized
  BY <1>2 DEF stepVars
<1>6. FetchInv'
  <2>1. i # 0
    BY <1>3, ArtifactTypes
  <2> QED
    BY <2>1, <1>2, <1>3, <1>4, <1>5 DEF AInv, FetchInv, NoBlob
<1>7. FetchesIntact'
  <2>1. \A g \in Fetches : fetched[g] # NoBlob => found'[g] = found[g]
    BY <1>2, <1>4 DEF AInv, FetchInv
  <2>2. \A v : OnlyOfItsName(v)' = OnlyOfItsName(v)
    BY <1>5 DEF OnlyOfItsName
  <2> SUFFICES ASSUME NEW g \in Fetches, fetched[g] # NoBlob
               PROVE  \E v \in Uploads :
                         /\ artifactID[v] = found[g]
                         /\ OnlyOfItsName(v) /\ v \notin resent => Intact(fetched[g], found[g], v)
    BY <2>1, <2>2, <1>2, <1>5 DEF FetchesIntact, NoBlob, Intact
  <2> QED
    BY DEF AInv, FetchesIntact
<1> QED
  BY <1>2, <1>4, <1>6, <1>7, ArtifactTypes, DownloadFrame

\* A finalized artifact is complete, if it is the only one of its name.
LEMMA FetchStep == ASSUME AInv, NEW f \in Fetches, Fetch(f) PROVE AInv'
<1>1. /\ found[f] # 0 /\ found' = found
      /\ fetched' = [fetched EXCEPT ![f] = blob[found[f]]]
      /\ UNCHANGED <<registryVars, finalized, blob, staged, uploading, stepVars>>
  BY DEF Fetch
<1>2. found[f] \in finalized /\ found[f] \in artifacts /\ found[f] \in ArtifactIds
  BY <1>1, ArtifactTypes DEF AInv, FetchInv
<1>3. /\ fetched' \in [Fetches -> Blobs]
      /\ fetched'[f] = blob[found[f]] /\ \A g \in Fetches \ {f} : fetched'[g] = fetched[g]
  BY <1>1, <1>2, ArtifactTypes
<1>4. artifactID' = artifactID /\ resent' = resent /\ finalized' = finalized
  BY <1>1 DEF stepVars
<1>5. FetchInv'
  BY <1>1, <1>3, <1>4 DEF AInv, FetchInv, NoBlob
<1>6. PICK u \in Created : artifactID[u] = found[f]
  BY <1>2 DEF AInv, OwnerInv
<1>7. OnlyOfItsName(u) /\ u \notin resent => Intact(blob[found[f]], found[f], u)
  <2> SUFFICES ASSUME OnlyOfItsName(u), u \notin resent
               PROVE  Intact(blob[found[f]], found[f], u)
    OBVIOUS
  <2>1. PICK v \in Created : Complete(v) /\ ArtifactName[v] = nameOf[found[f]]
    BY <1>2 DEF AInv, TargetInv
  <2>2. nameOf[found[f]] = ArtifactName[u]
    BY <1>6 DEF AInv, OwnerInv
  <2>3. v = u
    BY <2>1, <2>2 DEF OnlyOfItsName, Created
  <2>4. u \in Uploads /\ Protocol[u] \in {"v3", "v4"} /\ Complete(u)
    BY <2>1, <2>3, ArtifactAssumption DEF Created
  <2>5. CASE Protocol[u] = "v4"
    <3>1. blob[found[f]] = Whole(u, ZipFile)
      BY <2>4, <2>5, <1>6 DEF AInv, BlobInv, UploadKept, Complete
    <3> QED
      BY <2>4, <2>5, <3>1, WholeIsIntact, ArtifactAssumption DEF Intact
  <2>6. CASE Protocol[u] = "v3"
    <3>1. written[u] = FilesOf[u] \X Blocks /\ FilesOf[u] # {}
      BY <2>4, <2>6, ArtifactAssumption DEF Complete, AllBlocks
    <3>2. \A b \in Blocks : \E g : <<g, b>> \in written[u]
      BY <3>1
    <3>3. /\ \A g, b : <<g, b>> \in written[u] => blob[found[f]][b] \in {u} \X FilesOf[u]
          /\ found[f] \notin Leftover => blob[found[f]][Beyond] = NoUpload
      BY <2>6, <1>6 DEF AInv, BlobInv, UploadKept
    <3> QED
      BY <2>6, <3>2, <3>3 DEF Intact
  <2> QED
    BY <2>4, <2>5, <2>6
<1>8. FetchesIntact'
  <2>1. \A v : OnlyOfItsName(v)' = OnlyOfItsName(v)
    BY <1>4 DEF OnlyOfItsName
  <2> SUFFICES ASSUME NEW g \in Fetches, fetched'[g] # NoBlob
               PROVE  \E v \in Uploads :
                         /\ artifactID[v] = found[g]
                         /\ OnlyOfItsName(v) /\ v \notin resent => Intact(fetched'[g], found[g], v)
    BY <2>1, <1>1, <1>4 DEF FetchesIntact, NoBlob, Intact
  <2>2. CASE g = f
    BY <2>2, <1>3, <1>6, <1>7 DEF Created
  <2>3. CASE g # f
    BY <2>3, <1>3 DEF AInv, FetchesIntact
  <2> QED
    BY <2>2, <2>3
<1> QED
  BY <1>1, <1>3, <1>5, <1>8, ArtifactTypes, DownloadFrame

\* Every step keeps AInv.
LEMMA ArtifactNextInv == AInv /\ [ArtifactNext]_artifactVars => AInv'
<1> SUFFICES ASSUME AInv, [ArtifactNext]_artifactVars
             PROVE  AInv'
  OBVIOUS
<1>1. ASSUME NEW u \in Uploads, CreateV3(u) \/ CreateV4(u)
      PROVE  AInv'
  BY <1>1, CreateStep DEF CreateV3, CreateV4
<1>2. ASSUME NEW u \in Uploads, PutBlob(u) \/ CommitBlockList(u)
      PROVE  AInv'
  BY <1>2, PutBlobStep, CommitBlockListStep
<1>3. ASSUME NEW u \in Uploads, FinalizeV3(u) \/ FinalizeV4(u) \/ Finalize(u) \/ Abandon(u)
      PROVE  AInv'
  BY <1>3, FinalizeV3Step, FinalizeV4Step, FinalizeStep, AbandonStep
<1>4. ASSUME NEW u \in Uploads, NEW b \in Blocks, StageBlock(u, b)
      PROVE  AInv'
  BY <1>4, StageBlockStep
<1>7. ASSUME NEW u \in Uploads, NEW f \in FilesOf[u], UploadItem(u, f) \/ \E b \in Blocks : UploadRange(u, f, b)
      PROVE  AInv'
  BY <1>7, UploadItemStep, UploadRangeStep
<1>5. ASSUME NEW f \in Fetches, Locate(f) \/ Fetch(f)
      PROVE  AInv'
  BY <1>5, LocateStep, FetchStep
<1>6. CASE UNCHANGED artifactVars
  <2>1. /\ UNCHANGED <<registryVars, finalized, blob, staged, uploading, stepVars>>
        /\ found' = found /\ fetched' = fetched /\ artifactID' = artifactID /\ resent' = resent
    BY <1>6 DEF artifactVars, registryVars, stepVars
  <2>2. FetchesIntact' /\ FetchInv'
    BY <1>6 DEF AInv, FetchesIntact, FetchInv, OnlyOfItsName, artifactVars
  <2> QED
    BY <2>1, <2>2, ArtifactTypes, DownloadFrame
<1> QED
  BY <1>1, <1>2, <1>3, <1>4, <1>5, <1>6, <1>7 DEF ArtifactNext

\* An upload that was told it is finalized is listed.
LEMMA InvListsFinished == AInv => FinishedIsListed
<1> SUFFICES ASSUME AInv, NEW u \in Uploads, NEW same,
                    same = {v \in Uploads : ArtifactName[v] = ArtifactName[u] /\ artifactID[v] # 0},
                    \A v \in same : uploading[v] = "done" /\ Protocol[v] = Protocol[u],
                    uploading[u] = "done", Protocol[u] = "v4" => same = {u},
                    ArtifactName[u] \notin overlapped
             PROVE  artifactID[u] \in FindByName(ArtifactName[u])
  BY DEF FinishedIsListed
<1>1. u \in Created /\ artifactID[u] \in artifacts /\ nameOf[artifactID[u]] = ArtifactName[u]
  BY DEF AInv, OwnerInv, Created
<1>2. \A v \in Created : ArtifactName[v] = ArtifactName[u] => v \in same
  BY DEF Created
<1>3. artifactID[u] \in finalized
  <2>1. CASE Protocol[u] = "v4"
    <3>1. target[u] \in finalized /\ target[u] \in artifacts /\ nameOf[target[u]] = ArtifactName[u]
      BY DEF AInv, TargetInv
    <3>2. PICK v \in Created : artifactID[v] = target[u]
      BY <3>1 DEF AInv, OwnerInv
    <3>3. v = u
      BY <2>1, <3>1, <3>2, <1>2 DEF AInv, OwnerInv
    <3> QED
      BY <3>1, <3>2, <3>3
  <2>2. CASE Protocol[u] = "v3"
    <3>1. OnlyV3(ArtifactName[u])
      BY <2>2, <1>2 DEF OnlyV3
    <3>2. Cardinality(DoneOf(ArtifactName[u])) <= Cardinality(FinalizedOf(ArtifactName[u]))
      BY <3>1 DEF AInv, CountInv
    <3>3. \A v \in Created : ArtifactName[v] = ArtifactName[u] => uploading[v] = "done"
      BY <1>2
    <3> QED
      BY <3>2, <3>3, <1>1, AsManyAsUploads
  <2> QED
    BY <2>1, <2>2, ArtifactAssumption
<1> QED
  BY <1>1, <1>3 DEF FindByName

\* Whatever steps upload, side by side, in part twice or not to the end, and over what an
\* earlier run left: every block that is downloaded is of a file of the one upload, and it
\* is listed once it was finalized.  Not promised for uploads that share a name, for a block
\* list that was sent again, for which of its files a block of an old-API upload is of, and
\* for what follows such an upload in a directory an earlier run left.
THEOREM ArtifactsArriveWhole == ArtifactSpec => []ArtifactInv
<1>1. AInv => ArtifactInv
  BY InvListsFinished DEF AInv, ArtifactInv
<1> QED
  BY <1>1, ArtifactInitInv, ArtifactNextInv, PTL DEF ArtifactSpec

-----------------------------------------------------------------------------
(* The cache.                                                              *)

\* There are as many ids as saves.
LEMMA CacheIdsAreNumbers ==
    /\ Cardinality(Saves) \in Nat
    /\ CacheIds = 1..Cardinality(Saves)
    /\ \A i \in CacheIds : i \in Nat /\ i >= 1 /\ i <= Cardinality(Saves)
BY CacheAssumption, FS_CardinalityType DEF CacheIds

\* Nothing has no size.
LEMMA TotalOfNone == Total({}) = 0
<1> DEFINE none == {}
           P(f) == f = [s \in SUBSET none |->
                          IF s = {} THEN 0
                          ELSE LET x == CHOOSE x \in s : TRUE IN x.size + f[s \ {x}]]
           zero == [s \in SUBSET none |-> 0]
<1>1. P(zero)
  OBVIOUS
<1>2. \A f : P(f) => f[{}] = 0
  OBVIOUS
<1>3. Total({}) = (CHOOSE f : P(f))[{}]
  BY DEF Total, MapThenSumSet, MapThenFoldSet
<1> HIDE DEF P, zero
<1> QED
  BY <1>1, <1>2, <1>3

\* What evict leaves fits.
LEMMA KeptFits ==
    ASSUME NEW idx, \A e \in idx : e.id \in CacheIds
    PROVE  SizeFrom(Kept(idx), 1) <= MaxSize
<1> DEFINE n == Cardinality(Saves) + 1
           Fits == {id \in 1..n : SizeFrom(idx, id) <= MaxSize}
<1>1. n \in Nat /\ n >= 1
  BY CacheIdsAreNumbers
<1>2. {e \in CommittedIn(idx) : e.id >= n} = {}
  BY CacheIdsAreNumbers DEF CommittedIn
<1>3. SizeFrom(idx, n) = 0
  BY <1>2, TotalOfNone DEF SizeFrom
<1>4. n \in Fits
  BY <1>1, <1>3, CacheAssumption
<1>5. Fits \in SUBSET (0..n) /\ Fits # {}
  BY <1>1, <1>4
<1>6. Cut(idx) = Min(Fits)
  BY DEF Cut
<1>7. Min(Fits) \in Fits
  <2> HIDE DEF Fits, n
  <2>1. \E x \in Fits : \A y \in Fits : x <= y
    BY <1>1, <1>5, LeastAndGreatest
  <2> QED
    BY <2>1 DEF Min
<1>8. SizeFrom(idx, Cut(idx)) <= MaxSize /\ Cut(idx) >= 1
  BY <1>6, <1>7, <1>1
<1>9. {e \in CommittedIn(Kept(idx)) : e.id >= 1} = {e \in CommittedIn(idx) : e.id >= Cut(idx)}
  <2>1. Cut(idx) \in Nat
    BY <1>6, <1>7, <1>1
  <2>2. \A e \in idx : e.id \in Nat /\ e.id >= 1
    BY CacheIdsAreNumbers
  <2> QED
    BY <2>1, <2>2, <1>8 DEF CommittedIn, Kept
<1> QED
  BY <1>8, <1>9 DEF SizeFrom

\* The archive of a save, whole.
Archive(s) == [c \in Chunks |-> s]

Started == {s \in Saves : saving[s] # "reserve"}

Saving(s) == saving[s] \in {"upload", "finalize"}

SameEntry(s, e) == KeyOf[s] = e.key /\ VersionOf[s] = e.version

\* No other save writes to this blob any more.
OnlyWriter(s, id) == \A t \in Saves \ {s} : saving[t] = "upload" => entryID[t] # id

\* The entry is the one that s reserved, and what is in its blob is of s.
Owns(s, e) ==
    /\ entryID[s] = e.id /\ OnlyWriter(s, e.id)
    /\ e.committed => ~Saving(s) /\ blobs[e.id] \in {Empty, Archive(s)}
    /\ ~e.committed /\ Saving(s) => \A c \in sent[s] : blobs[e.id][c] = s

EntryInv == \A e \in index : \E s \in Started : SameEntry(s, e) /\ (Alone(s) => Owns(s, e))

\* Every upload has an id of its own, and an entry as long as nobody competes.
UploadInv ==
    /\ nextID <= Cardinality(Started)
    /\ \A s \in Saves : Saving(s) =>
          /\ entryID[s] \in 1..nextID
          /\ \A e \in index : e.id = entryID[s] => SameEntry(s, e)
          /\ Alone(s) => \E e \in index : e.id = entryID[s] /\ ~e.committed
    /\ \A s, t \in Saves : saving[s] = "upload" /\ saving[t] = "upload" /\ entryID[s] = entryID[t] => s = t
    /\ \A s \in Saves : saving[s] = "finalize" => Api[s] = "v2" /\ sent[s] = Chunks
    /\ \A s \in Saves : saving[s] = "reserve" => sent[s] = {}

\* What a restore was told to download stays what it is, or goes.
HitInv ==
    \A r \in Restores :
        /\ restored[r] # Empty => hit[r] # NoHit
        /\ hit[r] # NoHit /\ restored[r] = Empty =>
              /\ hit[r].id \in 1..nextID
              /\ \E s \in Started : /\ KeyOf[s] = hit[r].key
                                    /\ Alone(s) => /\ OnlyWriter(s, hit[r].id)
                                                   /\ saving[s] = "upload" => entryID[s] # hit[r].id
                                                   /\ blobs[hit[r].id] \in {Empty, Archive(s)}

RestoredInv ==
    \A r \in Restores : restored[r] # Empty =>
        \E s \in Started : KeyOf[s] = hit[r].key /\ (Alone(s) => restored[r] = Archive(s))

SavedInv ==
    \A s \in Saves : saving[s] = "saved" /\ Alone(s) =>
        \/ \E e \in index : e.id = entryID[s] /\ e.committed
        \/ entryID[s] \in evicted

\* The index on disk is the index, and within its size.
DiskInv == disk = index /\ SizeFrom(index, 1) <= MaxSize

CInv == CacheTypeOK /\ DiskInv /\ EntryInv /\ UploadInv /\ HitInv /\ RestoredInv /\ SavedInv

-----------------------------------------------------------------------------
\* The types, unfolded.
LEMMA CacheTypes ==
    ASSUME CInv
    PROVE  /\ index \subseteq CacheEntries /\ disk = index
           /\ nextID \in Nat /\ nextID \in {0} \cup CacheIds
           /\ \A e, o \in index : e.id = o.id => e = o
           /\ \A e \in index : e.id \in CacheIds /\ e.id \in Nat /\ e.id >= 1 /\ e.id <= nextID /\ e.committed \in BOOLEAN
           /\ blobs \in [CacheIds -> [Chunks -> Saves \cup {NoSave}]]
           /\ saving \in [Saves -> {"reserve", "upload", "finalize", "saved", "failed"}]
           /\ entryID \in [Saves -> {0} \cup CacheIds]
           /\ sent \in [Saves -> SUBSET Chunks]
           /\ hit \in [Restores -> [id : {0} \cup CacheIds, key : {<<>>} \cup {KeyOf[s] : s \in Saves}]]
           /\ restored \in [Restores -> [Chunks -> Saves \cup {NoSave}]]
           /\ evicted \subseteq CacheIds
           /\ restarts \in 0..MaxRestarts
           /\ IsFiniteSet(Started) /\ Cardinality(Started) \in Nat
<1>1. CacheTypeOK /\ disk = index
  BY DEF CInv, DiskInv
<1>2. nextID \in Nat
  BY <1>1, CacheIdsAreNumbers DEF CacheTypeOK
<1>3. \A e \in index : e.id \in CacheIds /\ e.committed \in BOOLEAN
  BY <1>1 DEF CacheTypeOK, CacheEntries
<1>4. \A e \in index : e.id \in Nat /\ e.id >= 1
  BY <1>3, CacheIdsAreNumbers
<1>5. IsFiniteSet(Started)
  BY CacheAssumption, FS_Subset DEF Started
<1>6. Cardinality(Started) \in Nat
  BY <1>5, FS_CardinalityType
<1> QED
  BY <1>1, <1>2, <1>3, <1>4, <1>5, <1>6 DEF CacheTypeOK

\* All saves of an entry compete with one another or none does.
LEMMA AloneTogether ==
    ASSUME CInv, NEW s \in Started, NEW w \in Started, w # s, Alone(s),
           KeyOf[s] = KeyOf[w], VersionOf[s] = VersionOf[w]
    PROVE  Api[s] = "v1" /\ Api[w] = "v1" /\ Alone(w)
<1>1. s \in Saves /\ w \in Saves /\ saving[s] # "reserve" /\ saving[w] # "reserve"
  BY DEF Started
<1>2. Api[s] \in {"v1", "v2"} /\ Api[w] \in {"v1", "v2"}
  BY <1>1, CacheAssumption
<1>3. Api[s] = "v1" /\ Api[w] = "v1"
  BY <1>1, <1>2 DEF Alone
<1>4. Alone(w)
  <2> SUFFICES ASSUME NEW t \in Saves \ {w}, saving[t] # "reserve", "v2" \in {Api[w], Api[t]},
                      KeyOf[t] = KeyOf[w], VersionOf[t] = VersionOf[w]
               PROVE  FALSE
    BY DEF Alone
  <2>1. Api[t] = "v2" /\ t # s
    BY <1>3
  <2> QED
    BY <2>1 DEF Alone
<1> QED
  BY <1>3, <1>4

\* Who has started never starts again: competitors only ever join.
LEMMA AloneShrinks ==
    ASSUME \A t \in Saves : saving[t] # "reserve" => saving'[t] # "reserve"
    PROVE  \A s \in Saves : Alone(s)' => Alone(s)
BY DEF Alone

\* The conjuncts that depend on who competes, and not on the index.
LEMMA RestoredFrame ==
    ASSUME CInv, \A t \in Saves : saving[t] # "reserve" => saving'[t] # "reserve",
           hit' = hit, restored' = restored
    PROVE  RestoredInv'
<1>1. \A s \in Saves : Alone(s)' => Alone(s)
  BY AloneShrinks
<1>2. Started \subseteq Started' /\ Started \subseteq Saves
  BY DEF Started
<1> QED
  BY <1>1, <1>2 DEF CInv, RestoredInv, Empty, Archive

\* Less is written, less is there: what was found to restore is no other.
LEMMA HitFrame ==
    ASSUME CInv, \A t \in Saves : saving[t] # "reserve" => saving'[t] # "reserve",
           \A t \in Saves : saving'[t] = "upload" =>
               \/ saving[t] = "upload" /\ entryID'[t] = entryID[t]
               \/ entryID'[t] > nextID,
           \A i \in CacheIds : blobs'[i] \in {Empty, blobs[i]},
           nextID' \in Nat, nextID <= nextID', entryID' \in [Saves -> {0} \cup CacheIds],
           hit' = hit, restored' = restored
    PROVE  HitInv'
<1>1. \A s \in Saves : Alone(s)' => Alone(s)
  BY AloneShrinks
<1>2. Started \subseteq Started' /\ Started \subseteq Saves
  BY DEF Started
<1> SUFFICES ASSUME NEW r \in Restores, hit[r] # NoHit, restored[r] = Empty
             PROVE  /\ hit[r].id \in 1..nextID'
                    /\ \E s \in Started' : /\ KeyOf[s] = hit[r].key
                                           /\ Alone(s)' => /\ OnlyWriter(s, hit[r].id)'
                                                           /\ saving'[s] = "upload" => entryID'[s] # hit[r].id
                                                           /\ blobs'[hit[r].id] \in {Empty, Archive(s)}
  BY DEF HitInv, CInv, Empty, Archive, NoHit, OnlyWriter
<1>0. PICK i : i = hit[r].id
  OBVIOUS
<1>3. i \in 1..nextID /\ i \in CacheIds
  <2>1. i \in 1..nextID
    BY <1>0 DEF CInv, HitInv
  <2>2. i \in {0} \cup CacheIds
    BY <1>0, CacheTypes
  <2> QED
    BY <2>1, <2>2
<1>4. PICK s \in Started : /\ KeyOf[s] = hit[r].key
                           /\ Alone(s) => /\ OnlyWriter(s, i)
                                          /\ saving[s] = "upload" => entryID[s] # i
                                          /\ blobs[i] \in {Empty, Archive(s)}
  BY <1>0 DEF CInv, HitInv
<1>5. i \in 1..nextID'
  BY <1>3, CacheTypes
<1>6. \A t \in Saves : entryID'[t] > nextID => entryID'[t] # i
  <2> TAKE t \in Saves
  <2>1. entryID'[t] \in Nat /\ nextID \in Nat
    BY CacheTypes, CacheIdsAreNumbers
  <2> QED
    BY <2>1, <1>3
<1>7. Alone(s) => /\ OnlyWriter(s, i)'
                  /\ saving'[s] = "upload" => entryID'[s] # i
  BY <1>2, <1>4, <1>6 DEF OnlyWriter
<1>8. Alone(s) => blobs'[i] \in {Empty, Archive(s)}
  BY <1>3, <1>4
<1> QED
  BY <1>0, <1>1, <1>2, <1>4, <1>5, <1>7, <1>8

\* CInv holds in the beginning.
LEMMA CacheInitInv == CacheInit => CInv
<1> SUFFICES ASSUME CacheInit
             PROVE  CInv
  OBVIOUS
<1>1. /\ index = {} /\ disk = {} /\ nextID = 0 /\ evicted = {} /\ restarts = 0
      /\ blobs = [i \in CacheIds |-> Empty] /\ saving = [s \in Saves |-> "reserve"]
      /\ entryID = [s \in Saves |-> 0] /\ sent = [s \in Saves |-> {}]
      /\ hit = [r \in Restores |-> NoHit] /\ restored = [r \in Restores |-> Empty]
  BY DEF CacheInit
<1>2. Empty \in [Chunks -> Saves \cup {NoSave}]
  BY DEF Empty
<1>3. NoHit \in [id : {0} \cup CacheIds, key : {<<>>} \cup {KeyOf[s] : s \in Saves}]
  BY DEF NoHit
<1>4. CacheTypeOK
  <2>1. blobs \in [CacheIds -> [Chunks -> Saves \cup {NoSave}]] /\ restored \in [Restores -> [Chunks -> Saves \cup {NoSave}]]
    BY <1>1, <1>2
  <2>2. hit \in [Restores -> [id : {0} \cup CacheIds, key : {<<>>} \cup {KeyOf[s] : s \in Saves}]]
    BY <1>1, <1>3
  <2>3. saving \in [Saves -> {"reserve", "upload", "finalize", "saved", "failed"}]
        /\ entryID \in [Saves -> {0} \cup CacheIds] /\ sent \in [Saves -> SUBSET Chunks]
    BY <1>1
  <2>4. restarts \in 0..MaxRestarts
    BY <1>1, CacheAssumption
  <2> QED
    BY <1>1, <2>1, <2>2, <2>3, <2>4 DEF CacheTypeOK
<1>5. DiskInv
  <2>1. {e \in CommittedIn(index) : e.id >= 1} = {}
    BY <1>1 DEF CommittedIn
  <2>2. SizeFrom(index, 1) = 0
    BY <2>1, TotalOfNone DEF SizeFrom
  <2> QED
    BY <1>1, <2>2, CacheAssumption DEF DiskInv
<1>6. Started = {} /\ \A s \in Saves : saving[s] = "reserve"
  BY <1>1 DEF Started
<1>7. EntryInv /\ HitInv /\ RestoredInv /\ SavedInv
  BY <1>1, <1>6 DEF EntryInv, HitInv, RestoredInv, SavedInv
<1>8. UploadInv
  BY <1>1, <1>6, FS_EmptySet DEF UploadInv, Saving
<1> QED
  BY <1>4, <1>5, <1>7, <1>8 DEF CInv

\* Reserve appends an entry with a new id.
LEMMA ReserveStep == ASSUME CInv, NEW s \in Saves, Reserve(s) PROVE CInv'
<1>1. PICK n : n = nextID + 1
  OBVIOUS
<1>2. PICK new : new = [id |-> n, key |-> KeyOf[s], version |-> VersionOf[s], size |-> 0, committed |-> FALSE]
  OBVIOUS
<1>3. /\ saving[s] = "reserve" /\ nextID' = n /\ index' = index \cup {new} /\ disk' = index'
      /\ saving' = [saving EXCEPT ![s] = "upload"] /\ entryID' = [entryID EXCEPT ![s] = n]
      /\ blobs' = blobs /\ evicted' = evicted /\ sent' = sent /\ hit' = hit /\ restored' = restored
      /\ restarts' = restarts
  BY <1>1, <1>2 DEF Reserve, hitVars
<1>4. /\ s \notin Started /\ Started' = Started \cup {s}
      /\ \A t \in Saves : saving[t] # "reserve" => saving'[t] # "reserve"
      /\ \A t \in Saves \ {s} : saving'[t] = saving[t] /\ entryID'[t] = entryID[t]
      /\ saving'[s] = "upload" /\ entryID'[s] = n
  BY <1>3, CacheTypes DEF Started
<1>5. Cardinality(Started') = Cardinality(Started) + 1 /\ Cardinality(Started') <= Cardinality(Saves)
  <2>1. Cardinality(Started') = Cardinality(Started) + 1
    BY <1>4, CacheTypes, FS_AddElement
  <2>2. Started' \subseteq Saves
    BY DEF Started
  <2> QED
    BY <2>1, <2>2, CacheAssumption, FS_Subset
<1>6. n \in Nat /\ n > nextID /\ n \in CacheIds /\ n <= Cardinality(Started')
  <2>1. n \in Nat /\ n >= 1 /\ n > nextID /\ nextID \in Nat
    BY <1>1, CacheTypes
  <2>2. nextID <= Cardinality(Started)
    BY DEF CInv, UploadInv
  <2>3. n <= Cardinality(Started')
    BY <1>1, <1>5, <2>1, <2>2, CacheTypes
  <2>4. n <= Cardinality(Saves)
    BY <1>5, <2>1, <2>3, CacheTypes, CacheIdsAreNumbers
  <2> QED
    BY <2>1, <2>3, <2>4, CacheIdsAreNumbers
<1>7. /\ new.id = n /\ new.key = KeyOf[s] /\ new.version = VersionOf[s] /\ new.committed = FALSE
      /\ new \in CacheEntries
  BY <1>2, <1>6 DEF CacheEntries
<1>8. \A e \in index : e.id # n /\ e.id <= n
  BY <1>6, CacheTypes
<1>9. CacheTypeOK'
  <2>1. index' \subseteq CacheEntries /\ disk' \subseteq CacheEntries
    BY <1>3, <1>7, CacheTypes
  <2>2. \A e, o \in index' : e.id = o.id => e = o
    BY <1>3, <1>7, <1>8, CacheTypes
  <2>3. \A e \in index' : e.id <= nextID'
    BY <1>3, <1>6, <1>7, <1>8
  <2>4. saving' \in [Saves -> {"reserve", "upload", "finalize", "saved", "failed"}]
    BY <1>3, CacheTypes
  <2>5. entryID' \in [Saves -> {0} \cup CacheIds]
    BY <1>3, <1>6, CacheTypes
  <2> QED
    BY <1>3, <1>6, <2>1, <2>2, <2>3, <2>4, <2>5, CacheTypes DEF CacheTypeOK
<1>10. DiskInv'
  <2>1. CommittedIn(index') = CommittedIn(index)
    BY <1>3, <1>7 DEF CommittedIn
  <2>2. SizeFrom(index', 1) = SizeFrom(index, 1)
    BY <2>1 DEF SizeFrom
  <2> QED
    BY <1>3, <2>2 DEF CInv, DiskInv
<1>11. \A t \in Saves : Alone(t)' => Alone(t)
  BY <1>4, AloneShrinks
<1>12. \A t \in Saves : Saving(t) => entryID[t] \in Nat /\ entryID[t] <= nextID
  BY CacheTypes DEF CInv, UploadInv
<1>13. EntryInv'
  <2>1. ASSUME NEW e \in index
        PROVE  \E w \in Started' : SameEntry(w, e) /\ (Alone(w)' => Owns(w, e)')
    <3>1. PICK w \in Started : SameEntry(w, e) /\ (Alone(w) => Owns(w, e))
      BY <2>1 DEF CInv, EntryInv
    <3>2. w \in Saves /\ w # s /\ w \in Started'
      BY <1>4, <3>1 DEF Started
    <3>3. Alone(w) => Owns(w, e)'
      BY <1>3, <1>4, <1>8, <3>1, <3>2, <2>1 DEF Owns, OnlyWriter, Saving
    <3> QED
      BY <3>1, <3>2, <3>3, <1>11
  <2>2. SameEntry(s, new) /\ Owns(s, new)'
    <3>1. OnlyWriter(s, new.id)'
      <4> SUFFICES ASSUME NEW t \in Saves \ {s}, saving'[t] = "upload"
                   PROVE  entryID'[t] # n
        BY <1>3, <1>7 DEF OnlyWriter
      <4>1. Saving(t) /\ entryID'[t] = entryID[t]
        BY <1>4 DEF Saving
      <4> QED
        BY <4>1, <1>6, <1>12, CacheTypes
    <3>2. sent'[s] = {}
      BY <1>3 DEF CInv, UploadInv
    <3> QED
      BY <1>4, <1>7, <3>1, <3>2 DEF SameEntry, Owns
  <2> QED
    BY <1>3, <1>4, <2>1, <2>2 DEF EntryInv, SameEntry
<1>14. UploadInv'
  <2>1. nextID' <= Cardinality(Started')
    BY <1>3, <1>6
  <2>2. ASSUME NEW t \in Saves, Saving(t)'
        PROVE  /\ entryID'[t] \in 1..nextID'
               /\ \A e \in index' : e.id = entryID'[t] => SameEntry(t, e)
               /\ Alone(t)' => \E e \in index' : e.id = entryID'[t] /\ ~e.committed
    <3>1. CASE t = s
      <4>1. entryID'[t] = n /\ n \in 1..nextID'
        BY <3>1, <1>3, <1>4, <1>6, CacheTypes, CacheIdsAreNumbers
      <4>2. \A e \in index' : e.id = n => e = new
        BY <1>3, <1>8
      <4> QED
        BY <3>1, <4>1, <4>2, <1>3, <1>7 DEF SameEntry
    <3>2. CASE t # s
      <4>1. Saving(t) /\ entryID'[t] = entryID[t]
        BY <2>2, <3>2, <1>4 DEF Saving
      <4>2. /\ entryID[t] \in 1..nextID
            /\ \A e \in index : e.id = entryID[t] => SameEntry(t, e)
            /\ Alone(t) => \E e \in index : e.id = entryID[t] /\ ~e.committed
        BY <4>1 DEF CInv, UploadInv
      <4>3. entryID[t] # n /\ entryID[t] \in 1..n
        BY <4>2, <1>6, CacheTypes
      <4> QED
        BY <4>1, <4>2, <4>3, <1>3, <1>7, <1>11
    <3> QED
      BY <3>1, <3>2
  <2>3. ASSUME NEW t \in Saves, NEW v \in Saves, saving'[t] = "upload", saving'[v] = "upload", entryID'[t] = entryID'[v]
        PROVE  t = v
    <3>1. \A x \in Saves \ {s} : saving'[x] = "upload" => entryID'[x] = entryID[x] /\ entryID[x] # n /\ saving[x] = "upload"
      BY <1>4, <1>6, <1>12, CacheTypes DEF Saving
    <3> QED
      BY <2>3, <3>1, <1>4 DEF CInv, UploadInv
  <2>4. \A t \in Saves : /\ saving'[t] = "finalize" => Api[t] = "v2" /\ sent'[t] = Chunks
                         /\ saving'[t] = "reserve" => sent'[t] = {}
    BY <1>3, <1>4 DEF CInv, UploadInv
  <2> QED
    BY <2>1, <2>2, <2>3, <2>4, <1>3 DEF UploadInv, SameEntry
<1>15. HitInv'
  <2>1. entryID' \in [Saves -> {0} \cup CacheIds]
    BY <1>3, <1>6, CacheTypes
  <2>2. nextID' \in Nat /\ nextID <= nextID'
    BY <1>3, <1>6, CacheTypes
  <2> QED
    BY <1>3, <1>4, <1>6, <2>1, <2>2, HitFrame
<1>16. RestoredInv'
  BY <1>3, <1>4, RestoredFrame
<1>17. SavedInv'
  BY <1>3, <1>4, <1>11 DEF CInv, SavedInv
<1> QED
  BY <1>9, <1>10, <1>13, <1>14, <1>15, <1>16, <1>17 DEF CInv

\* A chunk is written where no one else writes.
LEMMA UploadChunkStep == ASSUME CInv, NEW s \in Saves, NEW c \in Chunks, UploadChunk(s, c) PROVE CInv'
<1>1. PICK i : i = entryID[s]
  OBVIOUS
<1>2. /\ saving[s] = "upload" /\ blobs' = [blobs EXCEPT ![i][c] = s] /\ sent' = [sent EXCEPT ![s] = @ \cup {c}]
      /\ index' = index /\ nextID' = nextID /\ disk' = disk /\ evicted' = evicted /\ saving' = saving
      /\ entryID' = entryID /\ hit' = hit /\ restored' = restored /\ restarts' = restarts
  BY <1>1 DEF UploadChunk, hitVars
<1>3. i \in 1..nextID /\ i \in CacheIds /\ Saving(s) /\ s \in Started
  <2>1. Saving(s) /\ s \in Started
    BY <1>2 DEF Saving, Started
  <2>2. i \in 1..nextID /\ i \in {0} \cup CacheIds
    BY <1>1, <2>1, CacheTypes DEF CInv, UploadInv
  <2> QED
    BY <2>1, <2>2
<1>4. /\ blobs' \in [CacheIds -> [Chunks -> Saves \cup {NoSave}]]
      /\ blobs'[i] = [blobs[i] EXCEPT ![c] = s] /\ \A j \in CacheIds \ {i} : blobs'[j] = blobs[j]
      /\ blobs[i] \in [Chunks -> Saves \cup {NoSave}]
  BY <1>2, <1>3, CacheTypes
<1>5. /\ sent' \in [Saves -> SUBSET Chunks] /\ sent'[s] = sent[s] \cup {c}
      /\ \A t \in Saves \ {s} : sent'[t] = sent[t]
  BY <1>2, CacheTypes
<1>6. Started' = Started /\ \A t \in Saves : Alone(t)' = Alone(t) /\ Saving(t)' = Saving(t)
  BY <1>2 DEF Started, Alone, Saving
<1>7. CacheTypeOK'
  BY <1>2, <1>4, <1>5, CacheTypes DEF CInv, CacheTypeOK
<1>8. DiskInv' /\ SavedInv'
  BY <1>2, <1>6 DEF CInv, DiskInv, SavedInv
<1>9. RestoredInv'
  BY <1>2, RestoredFrame
<1>10. EntryInv'
  <2> SUFFICES ASSUME NEW e \in index'
               PROVE  \E w \in Started' : SameEntry(w, e) /\ (Alone(w)' => Owns(w, e)')
    BY DEF EntryInv, SameEntry
  <2>1. PICK w \in Started : SameEntry(w, e) /\ (Alone(w) => Owns(w, e))
    BY <1>2 DEF CInv, EntryInv
  <2>0. w \in Started' /\ (Alone(w)' => Alone(w))
    BY <1>6, <2>1 DEF Started
  <2> SUFFICES ASSUME Alone(w)
               PROVE  Owns(w, e)'
    BY <2>1, <2>0
  <2>2. Owns(w, e) /\ w \in Saves /\ OnlyWriter(w, e.id)'
    BY <1>2, <2>1 DEF Started, Owns, OnlyWriter
  <2>3. CASE w = s
    <3>1. e.id = i /\ ~e.committed
      BY <1>1, <1>3, <2>2, <2>3 DEF Owns
    <3>2. \A d \in sent[s] : blobs[i][d] = s
      BY <1>3, <2>2, <2>3, <3>1 DEF Owns
    <3>3. \A d \in sent'[s] : blobs'[i][d] = s
      BY <3>2, <1>4, <1>5, CacheTypes
    <3> QED
      BY <1>2, <2>2, <2>3, <3>1, <3>3 DEF Owns
  <2>4. CASE w # s
    <3>1. e.id # i
      BY <1>1, <1>2, <2>2, <2>4 DEF Owns, OnlyWriter
    <3>2. blobs'[e.id] = blobs[e.id] /\ sent'[w] = sent[w]
      BY <3>1, <1>2, <1>4, <1>5, <2>2, <2>4, CacheTypes
    <3> QED
      BY <1>2, <1>6, <2>2, <3>2 DEF Owns
  <2> QED
    BY <2>3, <2>4
<1>11. UploadInv'
  <2>1. \A t \in Saves : /\ saving'[t] = "finalize" => Api[t] = "v2" /\ sent'[t] = Chunks
                         /\ saving'[t] = "reserve" => sent'[t] = {}
    BY <1>2, <1>5 DEF CInv, UploadInv
  <2> QED
    BY <1>2, <1>6, <2>1 DEF CInv, UploadInv, SameEntry
<1>12. HitInv'
  <2> SUFFICES ASSUME NEW r \in Restores, hit[r] # NoHit, restored[r] = Empty
               PROVE  \E w \in Started' : /\ KeyOf[w] = hit[r].key
                                          /\ Alone(w)' => /\ OnlyWriter(w, hit[r].id)'
                                                          /\ saving'[w] = "upload" => entryID'[w] # hit[r].id
                                                          /\ blobs'[hit[r].id] \in {Empty, Archive(w)}
    BY <1>2 DEF HitInv, CInv, Empty, Archive, NoHit, OnlyWriter
  <2>1. PICK w \in Started : /\ KeyOf[w] = hit[r].key
                             /\ Alone(w) => /\ OnlyWriter(w, hit[r].id)
                                            /\ saving[w] = "upload" => entryID[w] # hit[r].id
                                            /\ blobs[hit[r].id] \in {Empty, Archive(w)}
    BY DEF CInv, HitInv
  <2>2. Alone(w) => hit[r].id # i
    BY <1>1, <1>2, <2>1 DEF OnlyWriter, Started
  <2>3. hit[r].id \in CacheIds
    <3>1. hit[r].id \in 1..nextID /\ hit[r].id \in {0} \cup CacheIds
      BY CacheTypes DEF CInv, HitInv
    <3> QED
      BY <3>1
  <2>4. OnlyWriter(w, hit[r].id) => OnlyWriter(w, hit[r].id)'
    BY <1>2 DEF OnlyWriter
  <2>5. w \in Started' /\ (Alone(w)' => Alone(w))
    BY <1>6, <2>1 DEF Started
  <2> QED
    BY <2>1, <2>2, <2>3, <2>4, <2>5, <1>2, <1>4
<1> QED
  BY <1>7, <1>8, <1>9, <1>10, <1>11, <1>12 DEF CInv

\* The save ends: the client gives up, or is told that its entry has gone.
LEMMA EndOfSave ==
    ASSUME CInv, NEW s \in Saves, Saving(s), NEW end \in {"failed", "saved"},
           saving' = [saving EXCEPT ![s] = end],
           end = "saved" => ~Alone(s),
           UNCHANGED <<storeVars, entryID, sent, hitVars, restarts>>
    PROVE  CInv'
<1>1. /\ index' = index /\ nextID' = nextID /\ disk' = disk /\ blobs' = blobs /\ evicted' = evicted
      /\ entryID' = entryID /\ sent' = sent /\ hit' = hit /\ restored' = restored /\ restarts' = restarts
  BY DEF storeVars, hitVars
<1>2. /\ saving'[s] = end /\ \A t \in Saves \ {s} : saving'[t] = saving[t]
      /\ saving' \in [Saves -> {"reserve", "upload", "finalize", "saved", "failed"}]
  BY CacheTypes
<1>3. /\ Started' = Started /\ \A t \in Saves : saving[t] # "reserve" => saving'[t] # "reserve"
      /\ \A t \in Saves : Saving(t)' => Saving(t) /\ saving'[t] = saving[t]
      /\ \A t \in Saves : saving'[t] = "upload" => saving[t] = "upload"
  BY <1>2 DEF Started, Saving
<1>4. \A t \in Saves : Alone(t)' => Alone(t)
  BY <1>3, AloneShrinks
<1>5. CacheTypeOK' /\ DiskInv'
  BY <1>1, <1>2 DEF CInv, CacheTypeOK, DiskInv
<1>6. EntryInv'
  <2> SUFFICES ASSUME NEW e \in index
               PROVE  \E w \in Started : SameEntry(w, e) /\ (Alone(w)' => Owns(w, e)')
    BY <1>1, <1>3 DEF EntryInv, SameEntry
  <2>1. PICK w \in Started : SameEntry(w, e) /\ (Alone(w) => Owns(w, e))
    BY DEF CInv, EntryInv
  <2>2. w \in Saves
    BY DEF Started
  <2>3. Owns(w, e) => Owns(w, e)'
    BY <1>1, <1>3, <2>2 DEF Owns, OnlyWriter
  <2> QED
    BY <2>1, <2>2, <2>3, <1>4
<1>7. UploadInv'
  <2>1. ASSUME NEW t \in Saves, Saving(t)'
        PROVE  /\ entryID'[t] \in 1..nextID'
               /\ \A e \in index' : e.id = entryID'[t] => SameEntry(t, e)
               /\ Alone(t)' => \E e \in index' : e.id = entryID'[t] /\ ~e.committed
    BY <2>1, <1>1, <1>3, <1>4 DEF CInv, UploadInv
  <2>2. \A t \in Saves : /\ saving'[t] = "finalize" => Api[t] = "v2" /\ sent'[t] = Chunks
                         /\ saving'[t] = "reserve" => sent'[t] = {}
    BY <1>1, <1>2 DEF CInv, UploadInv
  <2>3. \A t, v \in Saves : saving'[t] = "upload" /\ saving'[v] = "upload" /\ entryID'[t] = entryID'[v] => t = v
    BY <1>1, <1>3 DEF CInv, UploadInv
  <2> QED
    BY <1>1, <1>3, <2>1, <2>2, <2>3 DEF CInv, UploadInv, SameEntry
<1>8. HitInv'
  BY <1>1, <1>3, CacheTypes, HitFrame
<1>9. RestoredInv'
  BY <1>1, <1>3, RestoredFrame
<1>10. SavedInv'
  BY <1>1, <1>2, <1>4 DEF CInv, SavedInv
<1> QED
  BY <1>5, <1>6, <1>7, <1>8, <1>9, <1>10 DEF CInv

\* What is found among some entries of the index is one of them.
LEMMA FoundIsThere ==
    ASSUME CInv, NEW some \in SUBSET index, some # {}
    PROVE  Oldest(some) \in some /\ Latest(some) \in some
<1> DEFINE ids == {e.id : e \in some}
<1>1. ids \in SUBSET (0..nextID) /\ ids # {} /\ nextID \in Nat
  BY CacheTypes
<1>2. \A e \in some : e.id \in ids
  OBVIOUS
<1>3. \A i \in ids : \E e \in some : e.id = i
  OBVIOUS
<1> HIDE DEF ids
<1>4. /\ \E x \in ids : \A y \in ids : x <= y
      /\ \E x \in ids : \A y \in ids : y <= x
  BY <1>1, LeastAndGreatest
<1>5. \E e \in some : \A o \in some : e.id <= o.id
  BY <1>2, <1>3, <1>4
<1>6. \E e \in some : \A o \in some : e.id >= o.id
  <2>1. \A i \in ids : i \in Nat
    BY <1>1
  <2>2. PICK x \in ids : \A y \in ids : y <= x
    BY <1>4
  <2>3. PICK e \in some : e.id = x
    BY <1>3, <2>2
  <2> QED
    BY <1>2, <2>1, <2>2, <2>3
<1> QED
  BY <1>5, <1>6 DEF Oldest, Latest

\* FinalizeCacheEntryUpload finds the entry of the save itself, if nobody competes.
LEMMA FinalizeFindStep == ASSUME CInv, NEW s \in Saves, FinalizeFind(s) PROVE CInv'
<1>1. PICK i : i = IF FindByKeyVersion(s) = {} THEN 0 ELSE Oldest(FindByKeyVersion(s)).id
  OBVIOUS
<1>2. PICK where : where = IF FindByKeyVersion(s) = {} THEN "failed" ELSE "finalize"
  OBVIOUS
<1>3. /\ saving[s] = "upload" /\ sent[s] = Chunks /\ Api[s] = "v2"
      /\ entryID' = [entryID EXCEPT ![s] = i] /\ saving' = [saving EXCEPT ![s] = where]
      /\ index' = index /\ nextID' = nextID /\ disk' = disk /\ blobs' = blobs /\ evicted' = evicted
      /\ sent' = sent /\ hit' = hit /\ restored' = restored /\ restarts' = restarts
  BY <1>1, <1>2 DEF FinalizeFind, storeVars, hitVars
<1>4. /\ Saving(s) /\ s \in Started /\ Started' = Started
      /\ \A t \in Saves : saving[t] # "reserve" => saving'[t] # "reserve"
      /\ \A t \in Saves \ {s} : saving'[t] = saving[t] /\ entryID'[t] = entryID[t]
      /\ saving'[s] = where /\ entryID'[s] = i /\ where \in {"failed", "finalize"}
      /\ \A t \in Saves : saving'[t] = "upload" => saving[t] = "upload" /\ entryID'[t] = entryID[t] /\ t # s
  BY <1>2, <1>3, CacheTypes DEF Saving, Started
<1>5. \A t \in Saves : Alone(t)' => Alone(t)
  BY <1>4, AloneShrinks
<1>6. where = "finalize" => \E e \in index : e.id = i /\ SameEntry(s, e)
  <2> SUFFICES ASSUME where = "finalize"
               PROVE  \E e \in index : e.id = i /\ SameEntry(s, e)
    OBVIOUS
  <2>1. FindByKeyVersion(s) # {} /\ i = Oldest(FindByKeyVersion(s)).id
    BY <1>1, <1>2
  <2>2. FindByKeyVersion(s) \in SUBSET index
    BY DEF FindByKeyVersion
  <2>3. Oldest(FindByKeyVersion(s)) \in FindByKeyVersion(s)
    BY <2>1, <2>2, FoundIsThere
  <2> QED
    BY <2>1, <2>3 DEF FindByKeyVersion, SameEntry
<1>7. Alone(s) => where = "finalize" /\ i = entryID[s]
  <2> SUFFICES ASSUME Alone(s)
               PROVE  where = "finalize" /\ i = entryID[s]
    OBVIOUS
  <2>1. PICK e \in index : e.id = entryID[s] /\ SameEntry(s, e)
    BY <1>4 DEF CInv, UploadInv
  <2>2. where = "finalize"
    BY <1>2, <2>1 DEF FindByKeyVersion, SameEntry
  <2>3. PICK o \in index : o.id = i /\ SameEntry(s, o)
    BY <1>6, <2>2
  <2>4. PICK w \in Started : SameEntry(w, o) /\ (Alone(w) => Owns(w, o))
    BY DEF CInv, EntryInv
  <2>5. w = s
    BY <1>3, <1>4, <2>3, <2>4, AloneTogether DEF SameEntry
  <2> QED
    BY <2>2, <2>3, <2>4, <2>5 DEF Owns
<1>8. i \in {0} \cup CacheIds
  BY <1>1, <1>2, <1>4, <1>6, CacheTypes
<1>9. CacheTypeOK' /\ DiskInv'
  <2>1. saving' \in [Saves -> {"reserve", "upload", "finalize", "saved", "failed"}]
    BY <1>3, <1>4, CacheTypes
  <2>2. entryID' \in [Saves -> {0} \cup CacheIds]
    BY <1>3, <1>8, CacheTypes
  <2> QED
    BY <1>3, <2>1, <2>2 DEF CInv, CacheTypeOK, DiskInv
<1>10. EntryInv'
  <2> SUFFICES ASSUME NEW e \in index
               PROVE  \E w \in Started : SameEntry(w, e) /\ (Alone(w)' => Owns(w, e)')
    BY <1>3, <1>4 DEF EntryInv, SameEntry
  <2>1. PICK w \in Started : SameEntry(w, e) /\ (Alone(w) => Owns(w, e))
    BY DEF CInv, EntryInv
  <2>2. w \in Saves
    BY DEF Started
  <2> SUFFICES ASSUME Alone(w)
               PROVE  Owns(w, e)'
    BY <2>1, <2>2, <1>5
  <2>3. Owns(w, e)
    BY <2>1
  <2>4. entryID'[w] = entryID[w] /\ (Saving(w)' <=> Saving(w))
    BY <1>4, <1>7, <2>2 DEF Saving
  <2>5. OnlyWriter(w, e.id)'
    BY <1>4, <2>3 DEF Owns, OnlyWriter
  <2> QED
    BY <1>3, <2>3, <2>4, <2>5 DEF Owns
<1>11. UploadInv'
  <2>1. ASSUME NEW t \in Saves, Saving(t)'
        PROVE  /\ entryID'[t] \in 1..nextID'
               /\ \A e \in index' : e.id = entryID'[t] => SameEntry(t, e)
               /\ Alone(t)' => \E e \in index' : e.id = entryID'[t] /\ ~e.committed
    <3>1. CASE t = s
      <4>1. PICK e \in index : e.id = i /\ SameEntry(s, e)
        BY <2>1, <3>1, <1>4, <1>6 DEF Saving
      <4>2. i \in 1..nextID /\ \A o \in index : o.id = i => o = e
        BY <4>1, CacheTypes
      <4>3. Alone(s) => \E o \in index : o.id = i /\ ~o.committed
        BY <1>4, <1>7 DEF CInv, UploadInv
      <4> QED
        BY <3>1, <4>1, <4>2, <4>3, <1>3, <1>4, <1>5
    <3>2. CASE t # s
      <4>1. Saving(t) /\ entryID'[t] = entryID[t]
        BY <2>1, <3>2, <1>4 DEF Saving
      <4> QED
        BY <4>1, <1>3, <1>5 DEF CInv, UploadInv
    <3> QED
      BY <3>1, <3>2
  <2>2. \A t \in Saves : /\ saving'[t] = "finalize" => Api[t] = "v2" /\ sent'[t] = Chunks
                         /\ saving'[t] = "reserve" => sent'[t] = {}
    BY <1>3, <1>4 DEF CInv, UploadInv
  <2>3. \A t, v \in Saves : saving'[t] = "upload" /\ saving'[v] = "upload" /\ entryID'[t] = entryID'[v] => t = v
    BY <1>4 DEF CInv, UploadInv
  <2> QED
    BY <1>3, <1>4, <2>1, <2>2, <2>3 DEF CInv, UploadInv, SameEntry
<1>12. HitInv'
  <2>1. entryID' \in [Saves -> {0} \cup CacheIds]
    BY <1>3, <1>8, CacheTypes
  <2> QED
    BY <1>3, <1>4, <2>1, CacheTypes, HitFrame
<1>13. RestoredInv'
  BY <1>3, <1>4, RestoredFrame
<1>14. SavedInv'
  BY <1>3, <1>4, <1>5 DEF CInv, SavedInv
<1> QED
  BY <1>9, <1>10, <1>11, <1>12, <1>13, <1>14 DEF CInv

\* Restores change only what they found and got.
LEMMA RestoreFrame ==
    ASSUME CInv, UNCHANGED <<storeVars, saveVars, restarts>>,
           hit' \in [Restores -> [id : {0} \cup CacheIds, key : {<<>>} \cup {KeyOf[s] : s \in Saves}]],
           restored' \in [Restores -> [Chunks -> Saves \cup {NoSave}]],
           HitInv', RestoredInv'
    PROVE  CInv'
<1>1. /\ index' = index /\ nextID' = nextID /\ disk' = disk /\ blobs' = blobs /\ evicted' = evicted
      /\ saving' = saving /\ entryID' = entryID /\ sent' = sent /\ restarts' = restarts
  BY DEF storeVars, saveVars
<1>2. CacheTypeOK' /\ DiskInv'
  BY <1>1 DEF CInv, CacheTypeOK, DiskInv
<1>3. EntryInv' /\ UploadInv' /\ SavedInv'
  BY <1>1 DEF CInv, EntryInv, UploadInv, SavedInv, Started, Saving, Alone, SameEntry, Owns, OnlyWriter
<1> QED
  BY <1>2, <1>3 DEF CInv

\* A lookup finds a committed entry, to whose blob nobody writes any more.
LEMMA LookUpStep == ASSUME CInv, NEW r \in Restores, LookUp(r) PROVE CInv'
<1>1. PICK e : e = Lookup(RestoreKeys[r], RestoreVersion[r])
  OBVIOUS
<1>2. /\ hit[r] = NoHit /\ hit' = [hit EXCEPT ![r] = [id |-> e.id, key |-> e.key]]
      /\ restored' = restored /\ UNCHANGED <<storeVars, saveVars, restarts>>
  BY <1>1 DEF LookUp
<1>3. /\ nextID' = nextID /\ blobs' = blobs /\ saving' = saving /\ entryID' = entryID
      /\ Started' = Started /\ (\A s \in Saves : Alone(s)' = Alone(s))
      /\ (\A s \in Saves, i \in CacheIds : OnlyWriter(s, i)' = OnlyWriter(s, i))
  BY <1>2 DEF storeVars, saveVars, Started, Alone, OnlyWriter
<1>4. e \in CommittedIn(index) \/ e = NoHit
  <2>1. /\ Exact(RestoreKeys[r], RestoreVersion[r]) \in SUBSET index
        /\ ByPrefix(RestoreKeys[r]) \in SUBSET index
        /\ Exact(RestoreKeys[r], RestoreVersion[r]) \subseteq CommittedIn(index)
        /\ ByPrefix(RestoreKeys[r]) \subseteq CommittedIn(index)
    BY DEF Exact, ByPrefix, CommittedIn
  <2> QED
    BY <1>1, <2>1, FoundIsThere DEF Lookup
<1>5. PICK h : h = [id |-> e.id, key |-> e.key]
  OBVIOUS
<1>6. h.id = e.id /\ h.key = e.key /\ (e = NoHit => h = NoHit)
  BY <1>5 DEF NoHit
<1>7. e # NoHit =>
         /\ h.id \in 1..nextID /\ h.id \in CacheIds /\ h.key \in {KeyOf[s] : s \in Saves}
         /\ \E s \in Started : /\ KeyOf[s] = h.key
                               /\ Alone(s) => /\ OnlyWriter(s, h.id)
                                              /\ saving[s] = "upload" => entryID[s] # h.id
                                              /\ blobs[h.id] \in {Empty, Archive(s)}
  <2> SUFFICES ASSUME e # NoHit
               PROVE  /\ h.id \in 1..nextID /\ h.id \in CacheIds /\ h.key \in {KeyOf[s] : s \in Saves}
                      /\ \E s \in Started : /\ KeyOf[s] = h.key
                                            /\ Alone(s) => /\ OnlyWriter(s, h.id)
                                                           /\ saving[s] = "upload" => entryID[s] # h.id
                                                           /\ blobs[h.id] \in {Empty, Archive(s)}
    OBVIOUS
  <2>1. e \in index /\ e.committed
    BY <1>4 DEF CommittedIn
  <2>2. e.id \in 1..nextID /\ e.id \in CacheIds
    BY <2>1, CacheTypes
  <2>3. PICK s \in Started : SameEntry(s, e) /\ (Alone(s) => Owns(s, e))
    BY <2>1 DEF CInv, EntryInv
  <2>4. s \in Saves
    BY DEF Started
  <2> QED
    BY <1>6, <2>1, <2>2, <2>3, <2>4 DEF Owns, SameEntry, Saving
<1>8. hit' \in [Restores -> [id : {0} \cup CacheIds, key : {<<>>} \cup {KeyOf[s] : s \in Saves}]]
  <2>1. h \in [id : {0} \cup CacheIds, key : {<<>>} \cup {KeyOf[s] : s \in Saves}]
    <3>1. CASE e = NoHit
      BY <3>1, <1>6 DEF NoHit
    <3>2. CASE e # NoHit
      BY <3>2, <1>5, <1>6, <1>7
    <3> QED
      BY <3>1, <3>2
  <2> QED
    BY <2>1, <1>2, <1>5, CacheTypes
<1>9. restored[r] = Empty /\ hit'[r] = h /\ \A q \in Restores \ {r} : hit'[q] = hit[q]
  BY <1>2, <1>5, CacheTypes DEF CInv, HitInv
<1>10. HitInv'
  <2>1. ASSUME NEW q \in Restores
        PROVE  /\ restored'[q] # Empty => hit'[q] # NoHit
               /\ hit'[q] # NoHit /\ restored'[q] = Empty =>
                     /\ hit'[q].id \in 1..nextID
                     /\ \E s \in Started : /\ KeyOf[s] = hit'[q].key
                                           /\ Alone(s) => /\ OnlyWriter(s, hit'[q].id)
                                                          /\ saving[s] = "upload" => entryID[s] # hit'[q].id
                                                          /\ blobs[hit'[q].id] \in {Empty, Archive(s)}
    <3>1. CASE q = r
      BY <3>1, <1>2, <1>6, <1>7, <1>9
    <3>2. CASE q # r
      BY <3>2, <1>2, <1>9 DEF CInv, HitInv
    <3> QED
      BY <3>1, <3>2
  <2> QED
    BY <2>1, <1>3 DEF HitInv, Empty, NoHit, Archive, Started, Alone, OnlyWriter
<1>11. RestoredInv'
  <2>1. \A q \in Restores : restored[q] # Empty => hit'[q] = hit[q]
    BY <1>9
  <2> QED
    BY <1>2, <1>3, <2>1 DEF CInv, RestoredInv, Empty, Archive, Started
<1> QED
  BY <1>2, <1>8, <1>10, <1>11, CacheTypes, RestoreFrame

\* A download gets what is in the blob.
LEMMA DownloadCacheStep == ASSUME CInv, NEW r \in Restores, DownloadCache(r) PROVE CInv'
<1>1. PICK got : got = blobs[hit[r].id]
  OBVIOUS
<1>2. /\ hit[r] # NoHit /\ restored[r] = Empty /\ restored' = [restored EXCEPT ![r] = got]
      /\ hit' = hit /\ UNCHANGED <<storeVars, saveVars, restarts>>
  BY <1>1 DEF DownloadCache
<1>3. /\ nextID' = nextID /\ blobs' = blobs /\ saving' = saving /\ entryID' = entryID
      /\ Started' = Started /\ (\A s \in Saves : Alone(s)' = Alone(s)) /\ Started \subseteq Saves
  BY <1>2 DEF storeVars, saveVars, Started, Alone
<1>4. hit[r].id \in CacheIds
  <2>1. hit[r].id \in 1..nextID /\ hit[r].id \in {0} \cup CacheIds
    BY <1>2, CacheTypes DEF CInv, HitInv
  <2> QED
    BY <2>1
<1>5. got \in [Chunks -> Saves \cup {NoSave}]
  BY <1>1, <1>4, CacheTypes
<1>6. /\ restored' \in [Restores -> [Chunks -> Saves \cup {NoSave}]]
      /\ restored'[r] = got /\ \A q \in Restores \ {r} : restored'[q] = restored[q]
  BY <1>2, <1>5, CacheTypes
<1>7. HitInv'
  <2>1. ASSUME NEW q \in Restores
        PROVE  /\ restored'[q] # Empty => hit[q] # NoHit
               /\ hit[q] # NoHit /\ restored'[q] = Empty =>
                     /\ hit[q].id \in 1..nextID
                     /\ \E s \in Started : /\ KeyOf[s] = hit[q].key
                                           /\ Alone(s) => /\ OnlyWriter(s, hit[q].id)
                                                          /\ saving[s] = "upload" => entryID[s] # hit[q].id
                                                          /\ blobs[hit[q].id] \in {Empty, Archive(s)}
    <3>1. CASE q = r
      BY <3>1, <1>2, <1>6 DEF CInv, HitInv
    <3>2. CASE q # r
      BY <3>2, <1>6 DEF CInv, HitInv
    <3> QED
      BY <3>1, <3>2
  <2> QED
    BY <2>1, <1>2, <1>3 DEF HitInv, Empty, NoHit, Archive, Started, Alone, OnlyWriter
<1>8. RestoredInv'
  <2>1. ASSUME NEW q \in Restores, restored'[q] # Empty
        PROVE  \E s \in Started : KeyOf[s] = hit[q].key /\ (Alone(s) => restored'[q] = Archive(s))
    <3>1. CASE q = r
      BY <3>1, <2>1, <1>1, <1>2, <1>6 DEF CInv, HitInv
    <3>2. CASE q # r
      BY <3>2, <2>1, <1>6 DEF CInv, RestoredInv
    <3> QED
      BY <3>1, <3>2
  <2> QED
    BY <2>1, <1>2, <1>3 DEF RestoredInv, Empty, Archive
<1> QED
  BY <1>2, <1>6, <1>7, <1>8, CacheTypes, RestoreFrame

\* A restart finds the index as it was, perhaps with blobs gone that were being evicted.
LEMMA ReloadStep ==
    ASSUME CInv, Reload, blobs' \in [CacheIds -> [Chunks -> Saves \cup {NoSave}]],
           \A i \in CacheIds : blobs'[i] \in {Empty, blobs[i]},
           evicted \subseteq evicted', evicted' \subseteq CacheIds
    PROVE  CInv'
<1>1. /\ restarts < MaxRestarts /\ restarts' = restarts + 1 /\ index' = disk /\ nextID' = NextIDOf(disk)
      /\ saving' = [s \in Saves |-> IF Saving(s) THEN "failed" ELSE saving[s]]
      /\ hit' = [r \in Restores |-> IF restored[r] = Empty THEN NoHit ELSE hit[r]]
      /\ disk' = disk /\ entryID' = entryID /\ sent' = sent /\ restored' = restored
  BY DEF Reload, Saving
<1>2. disk = index /\ index' = index
  BY <1>1, CacheTypes
<1>3. NextIDOf(disk) \in {0} \cup {e.id : e \in index} /\ \A e \in index : e.id <= NextIDOf(disk)
  <2> DEFINE ids == {0} \cup {e.id : e \in index}
  <2>1. ids \in SUBSET (0..nextID) /\ ids # {} /\ nextID \in Nat
    BY CacheTypes
  <2>2. \A e \in index : e.id \in ids
    OBVIOUS
  <2>3. NextIDOf(disk) = Max(ids)
    BY <1>2 DEF NextIDOf
  <2> HIDE DEF ids
  <2>4. \A i \in ids : i \in Nat
    BY <2>1
  <2>5. PICK x \in ids : \A y \in ids : y <= x
    BY <2>1, LeastAndGreatest
  <2>6. \A y \in ids : x >= y
    BY <2>4, <2>5
  <2>7. Max(ids) \in ids /\ \A y \in ids : Max(ids) >= y
    BY <2>6 DEF Max
  <2> QED
    BY <2>2, <2>3, <2>4, <2>7 DEF ids
<1>4. nextID' \in {0} \cup CacheIds /\ nextID' \in Nat /\ nextID' <= nextID /\ \A e \in index : e.id <= nextID'
  BY <1>1, <1>3, CacheTypes
<1>5. /\ saving' \in [Saves -> {"reserve", "upload", "finalize", "saved", "failed"}]
      /\ \A s \in Saves : ~Saving(s)' /\ saving'[s] # "upload"
      /\ \A s \in Saves : saving[s] # "reserve" <=> saving'[s] # "reserve"
      /\ \A s \in Saves : saving'[s] = "saved" <=> saving[s] = "saved"
      /\ \A s \in Saves : saving'[s] = "reserve" <=> saving[s] = "reserve"
  BY <1>1, CacheTypes DEF Saving
<1>6. Started' = Started /\ \A s \in Saves : Alone(s)' => Alone(s)
  BY <1>5, AloneShrinks DEF Started
<1>7. CacheTypeOK'
  <2>1. NoHit \in [id : {0} \cup CacheIds, key : {<<>>} \cup {KeyOf[s] : s \in Saves}]
    BY DEF NoHit
  <2>2. hit' \in [Restores -> [id : {0} \cup CacheIds, key : {<<>>} \cup {KeyOf[s] : s \in Saves}]]
    BY <1>1, <2>1, CacheTypes
  <2>3. restarts' \in 0..MaxRestarts
    BY <1>1, CacheAssumption, CacheTypes
  <2> QED
    BY <1>1, <1>2, <1>4, <1>5, <2>2, <2>3 DEF CInv, CacheTypeOK
<1>8. DiskInv'
  BY <1>1, <1>2 DEF CInv, DiskInv
<1>9. EntryInv'
  <2> SUFFICES ASSUME NEW e \in index
               PROVE  \E w \in Started : SameEntry(w, e) /\ (Alone(w)' => Owns(w, e)')
    BY <1>2, <1>6 DEF EntryInv, SameEntry
  <2>1. PICK w \in Started : SameEntry(w, e) /\ (Alone(w) => Owns(w, e))
    BY DEF CInv, EntryInv
  <2>2. w \in Saves /\ e.id \in CacheIds
    BY CacheTypes DEF Started
  <2>3. OnlyWriter(w, e.id)' /\ ~Saving(w)'
    BY <1>5, <2>2 DEF OnlyWriter
  <2>4. blobs'[e.id] \in {Empty, blobs[e.id]}
    BY <2>2
  <2> QED
    BY <1>1, <1>6, <2>1, <2>2, <2>3, <2>4 DEF Owns, Empty, Archive
<1>10. UploadInv'
  <2>1. nextID' <= Cardinality(Started')
    BY <1>4, <1>6, CacheTypes DEF CInv, UploadInv
  <2>2. \A s \in Saves : /\ saving'[s] = "finalize" => Api[s] = "v2" /\ sent'[s] = Chunks
                         /\ saving'[s] = "reserve" => sent'[s] = {}
    BY <1>1, <1>5 DEF CInv, UploadInv, Saving
  <2> QED
    BY <1>5, <2>1, <2>2 DEF UploadInv
<1>11. \A r \in Restores : IF restored'[r] = Empty THEN hit'[r] = NoHit ELSE hit'[r] = hit[r]
  BY <1>1
<1>12. HitInv'
  <2>1. \A r \in Restores : (restored'[r] # Empty => hit'[r] # NoHit) /\ ~(hit'[r] # NoHit /\ restored'[r] = Empty)
    BY <1>1, <1>11 DEF CInv, HitInv
  <2> QED
    BY <2>1 DEF HitInv, Empty, NoHit
<1>13. RestoredInv'
  <2>1. ASSUME NEW r \in Restores, restored'[r] # Empty
        PROVE  \E s \in Started : KeyOf[s] = hit'[r].key /\ (Alone(s)' => restored'[r] = Archive(s))
    <3>1. hit'[r] = hit[r] /\ restored'[r] = restored[r]
      BY <2>1, <1>1, <1>11
    <3>2. PICK s \in Started : KeyOf[s] = hit[r].key /\ (Alone(s) => restored[r] = Archive(s))
      BY <2>1, <3>1 DEF CInv, RestoredInv
    <3>3. Alone(s)' => Alone(s)
      BY <1>6 DEF Started
    <3> QED
      BY <3>1, <3>2, <3>3
  <2> QED
    BY <2>1, <1>6 DEF RestoredInv, Empty, Archive
<1>14. SavedInv'
  BY <1>1, <1>2, <1>5, <1>6 DEF CInv, SavedInv
<1> QED
  BY <1>7, <1>8, <1>9, <1>10, <1>12, <1>13, <1>14 DEF CInv

\* Marking an entry as committed changes it and no other.
LEMMA CommittedIndex ==
    ASSUME CInv, NEW s \in Saves, NEW idx, idx = WithCommit(entryID[s], SizeOf[s])
    PROVE  /\ idx \subseteq CacheEntries
           /\ \A e \in idx : \E o \in index : /\ e.id = o.id /\ e.key = o.key /\ e.version = o.version
                                              /\ IF o.id = entryID[s] THEN e.committed ELSE e = o
           /\ \A o \in index : \E e \in idx : /\ e.id = o.id /\ e.key = o.key /\ e.version = o.version
                                              /\ IF o.id = entryID[s] THEN e.committed ELSE e = o
           /\ \A e, o \in idx : e.id = o.id => e = o
<1> DEFINE Marked(o) == IF o.id = entryID[s] THEN [o EXCEPT !.size = SizeOf[s], !.committed = TRUE] ELSE o
<1>1. idx = {Marked(o) : o \in index}
  BY DEF WithCommit
<1>2. \A o \in index : /\ Marked(o) \in CacheEntries /\ Marked(o).id = o.id /\ Marked(o).key = o.key
                       /\ Marked(o).version = o.version
                       /\ IF o.id = entryID[s] THEN Marked(o).committed ELSE Marked(o) = o
  <2> TAKE o \in index
  <2>1. o \in CacheEntries
    BY CacheTypes
  <2>2. CASE o.id = entryID[s]
    <3>1. o = [id |-> o.id, key |-> o.key, version |-> o.version, size |-> o.size, committed |-> o.committed]
      BY <2>1 DEF CacheEntries
    <3>2. Marked(o) = [id |-> o.id, key |-> o.key, version |-> o.version, size |-> SizeOf[s], committed |-> TRUE]
      BY <2>1, <2>2 DEF CacheEntries
    <3>3. o.id \in CacheIds /\ o.key \in {KeyOf[t] : t \in Saves} /\ o.version \in {VersionOf[t] : t \in Saves}
      BY <2>1 DEF CacheEntries
    <3> HIDE DEF Marked
    <3> QED
      BY <2>2, <3>2, <3>3 DEF CacheEntries
  <2>3. CASE o.id # entryID[s]
    BY <2>1, <2>3
  <2> QED
    BY <2>2, <2>3
<1> HIDE DEF Marked
<1>3. \A e \in idx : \E o \in index : e = Marked(o)
  BY <1>1
<1>4. \A o \in index : Marked(o) \in idx
  BY <1>1
<1>5. idx \subseteq CacheEntries
  BY <1>2, <1>3
<1>6. \A e, o \in idx : e.id = o.id => e = o
  <2> SUFFICES ASSUME NEW e \in idx, NEW o \in idx, e.id = o.id
               PROVE  e = o
    OBVIOUS
  <2>1. PICK x \in index : e = Marked(x)
    BY <1>3
  <2>2. PICK y \in index : o = Marked(y)
    BY <1>3
  <2>3. x.id = y.id
    BY <1>2, <2>1, <2>2
  <2>4. x = y
    BY <2>3, CacheTypes
  <2> QED
    BY <2>1, <2>2, <2>4
<1> QED
  BY <1>2, <1>3, <1>4, <1>5, <1>6

\* Commit, of the entry of an upload that is complete.
LEMMA CommitStep ==
    ASSUME CInv, NEW s \in Saves,
           \/ saving[s] = "upload" /\ Api[s] = "v1" /\ sent[s] = Chunks
           \/ saving[s] = "finalize",
           HasEntry(entryID[s]), Commit(entryID[s], SizeOf[s]),
           saving' = [saving EXCEPT ![s] = "saved"],
           UNCHANGED <<entryID, sent, hitVars, restarts>>
    PROVE  CInv'
<1>1. PICK id : id = entryID[s]
  OBVIOUS
<1>2. PICK idx : idx = WithCommit(id, SizeOf[s])
  OBVIOUS
<1>3. /\ index' = Kept(idx) /\ disk' = index' /\ nextID' = nextID
      /\ blobs' = [i \in CacheIds |-> IF i \in Evictees(idx) THEN Empty ELSE blobs[i]]
      /\ evicted' = evicted \cup Evictees(idx)
      /\ entryID' = entryID /\ sent' = sent /\ hit' = hit /\ restored' = restored /\ restarts' = restarts
  BY <1>1, <1>2 DEF Commit, RemoveBlobs, hitVars
<1>4. /\ saving' \in [Saves -> {"reserve", "upload", "finalize", "saved", "failed"}]
      /\ saving'[s] = "saved" /\ \A t \in Saves \ {s} : saving'[t] = saving[t]
  BY CacheTypes
<1>5. /\ Saving(s) /\ s \in Started /\ Started' = Started /\ sent[s] = Chunks
      /\ \A t \in Saves : saving[t] # "reserve" => saving'[t] # "reserve"
      /\ \A t \in Saves : Saving(t)' => Saving(t) /\ saving'[t] = saving[t] /\ t # s
      /\ \A t \in Saves : saving'[t] = "upload" => saving[t] = "upload"
  BY <1>4 DEF CInv, UploadInv, Saving, Started
<1>6. \A t \in Saves : Alone(t)' => Alone(t)
  BY <1>5, AloneShrinks
<1>7. PICK d \in index : d.id = id /\ SameEntry(s, d)
  BY <1>1, <1>5 DEF HasEntry, CInv, UploadInv
<1>8. /\ idx \subseteq CacheEntries
      /\ \A e \in idx : \E o \in index : /\ e.id = o.id /\ e.key = o.key /\ e.version = o.version
                                         /\ IF o.id = id THEN e.committed ELSE e = o
      /\ \A o \in index : \E e \in idx : /\ e.id = o.id /\ e.key = o.key /\ e.version = o.version
                                         /\ IF o.id = id THEN e.committed ELSE e = o
      /\ \A e, o \in idx : e.id = o.id => e = o
  BY <1>1, <1>2, CommittedIndex
<1>9. /\ index' \subseteq idx
      /\ \A e \in idx : e \in index' \/ (e.committed /\ e.id \in Evictees(idx))
      /\ \A e \in idx : ~e.committed => e \in index'
      /\ \A i \in Evictees(idx) : \E e \in idx : e.id = i /\ e.committed
  BY <1>3 DEF Kept, Evictees
<1>10. Evictees(idx) \subseteq CacheIds
  BY <1>8, <1>9 DEF CacheEntries
<1>11. /\ blobs' \in [CacheIds -> [Chunks -> Saves \cup {NoSave}]]
       /\ \A i \in CacheIds : blobs'[i] = IF i \in Evictees(idx) THEN Empty ELSE blobs[i]
  <2>1. Empty \in [Chunks -> Saves \cup {NoSave}]
    BY DEF Empty
  <2> QED
    BY <1>3, <2>1, CacheTypes
<1>12. CacheTypeOK'
  <2>1. index' \subseteq CacheEntries /\ disk' \subseteq CacheEntries
    BY <1>3, <1>8, <1>9
  <2>2. \A e, o \in index' : e.id = o.id => e = o
    BY <1>8, <1>9
  <2>3. \A e \in index' : e.id <= nextID'
    BY <1>3, <1>8, <1>9, CacheTypes
  <2>4. evicted' \subseteq CacheIds
    BY <1>3, <1>10, CacheTypes
  <2> QED
    BY <1>3, <1>4, <1>11, <2>1, <2>2, <2>3, <2>4 DEF CInv, CacheTypeOK
<1>13. DiskInv'
  <2>1. \A e \in idx : e.id \in CacheIds
    BY <1>8 DEF CacheEntries
  <2> QED
    BY <1>3, <2>1, KeptFits DEF DiskInv
<1>14. EntryInv'
  <2> SUFFICES ASSUME NEW e \in index'
               PROVE  \E w \in Started : SameEntry(w, e) /\ (Alone(w)' => Owns(w, e)')
    BY <1>5 DEF EntryInv, SameEntry
  <2>1. e \in idx
    BY <1>9
  <2>2. PICK o \in index : /\ e.id = o.id /\ e.key = o.key /\ e.version = o.version
                           /\ IF o.id = id THEN e.committed ELSE e = o
    BY <1>8, <2>1
  <2>3. PICK w \in Started : SameEntry(w, o) /\ (Alone(w) => Owns(w, o))
    BY DEF CInv, EntryInv
  <2>4. w \in Saves /\ SameEntry(w, e)
    BY <2>2, <2>3 DEF Started, SameEntry
  <2> SUFFICES ASSUME Alone(w)
               PROVE  Owns(w, e)'
    BY <2>4, <1>6
  <2>5. Owns(w, o)
    BY <2>3
  <2>6. entryID'[w] = e.id /\ OnlyWriter(w, e.id)'
    BY <1>3, <1>5, <2>2, <2>5 DEF Owns, OnlyWriter
  <2>7. e.id \in CacheIds /\ blobs'[e.id] \in {Empty, blobs[e.id]}
    BY <1>11, <2>2, CacheTypes
  <2>8. CASE o.committed
    <3>1. ~Saving(w)' /\ blobs'[e.id] \in {Empty, Archive(w)}
      BY <1>5, <2>2, <2>4, <2>5, <2>7, <2>8 DEF Owns
    <3>2. e.committed
      BY <2>2, <2>8
    <3> QED
      BY <2>6, <3>1, <3>2 DEF Owns, Empty, Archive
  <2>9. CASE ~o.committed /\ o.id = id
    <3>1. o = d
      BY <2>9, <1>7, CacheTypes
    <3>2. w = s
      <4> SUFFICES ASSUME w # s
                   PROVE  FALSE
        OBVIOUS
      <4>1. Api[s] = "v1"
        BY <1>5, <1>7, <2>3, <3>1, AloneTogether DEF SameEntry
      <4>2. saving[s] = "upload"
        BY <4>1 DEF CInv, UploadInv
      <4> QED
        BY <4>2, <1>1, <2>5, <2>9 DEF Owns, OnlyWriter
    <3>3. \A c \in Chunks : blobs[e.id][c] = s
      BY <1>5, <2>2, <2>5, <2>9, <3>2 DEF Owns
    <3>4. blobs[e.id] \in [Chunks -> Saves \cup {NoSave}]
      BY <2>7, CacheTypes
    <3>5. blobs[e.id] = Archive(s)
      BY <3>3, <3>4 DEF Archive
    <3>6. ~Saving(w)' /\ e.committed
      BY <1>4, <2>2, <2>9, <3>2 DEF Saving
    <3> QED
      BY <2>6, <2>7, <3>2, <3>5, <3>6 DEF Owns, Empty, Archive
  <2>10. CASE ~o.committed /\ o.id # id
    <3>1. e = o /\ ~e.committed
      BY <2>2, <2>10
    <3>2. e.id \notin Evictees(idx)
      BY <1>8, <1>9, <2>1, <3>1
    <3>3. blobs'[e.id] = blobs[e.id]
      BY <1>11, <2>7, <3>2
    <3>4. Saving(w)' => Saving(w)
      BY <1>5, <2>4
    <3> QED
      BY <1>3, <2>5, <2>6, <3>1, <3>3, <3>4 DEF Owns
  <2> QED
    BY <2>8, <2>9, <2>10
<1>15. UploadInv'
  <2>1. ASSUME NEW t \in Saves, Saving(t)'
        PROVE  /\ entryID'[t] \in 1..nextID'
               /\ \A e \in index' : e.id = entryID'[t] => SameEntry(t, e)
               /\ Alone(t)' => \E e \in index' : e.id = entryID'[t] /\ ~e.committed
    <3>1. Saving(t) /\ t # s /\ t \in Started
      BY <2>1, <1>5 DEF Saving, Started
    <3>2. entryID'[t] \in 1..nextID' /\ \A o \in index : o.id = entryID[t] => SameEntry(t, o)
      BY <1>3, <3>1 DEF CInv, UploadInv
    <3>3. \A e \in index' : e.id = entryID'[t] => SameEntry(t, e)
      BY <1>3, <1>8, <1>9, <3>2 DEF SameEntry
    <3>4. ASSUME Alone(t)
          PROVE  \E e \in index' : e.id = entryID'[t] /\ ~e.committed
      <4>1. PICK o \in index : o.id = entryID[t] /\ ~o.committed
        BY <3>1, <3>4 DEF CInv, UploadInv
      <4>2. o.id # id
        <5> SUFFICES ASSUME o.id = id
                     PROVE  FALSE
          OBVIOUS
        <5>1. o = d /\ SameEntry(t, d)
          BY <1>7, <3>2, <4>1, CacheTypes
        <5>2. Api[s] = "v1" /\ Api[t] = "v1"
          BY <1>5, <1>7, <3>1, <3>4, <5>1, AloneTogether DEF SameEntry
        <5>3. saving[s] = "upload" /\ saving[t] = "upload"
          BY <1>5, <3>1, <5>2 DEF CInv, UploadInv, Saving
        <5> QED
          BY <1>1, <3>1, <4>1, <5>3 DEF CInv, UploadInv
      <4>3. o \in idx
        BY <1>8, <4>2
      <4> QED
        BY <1>3, <1>9, <4>1, <4>3
    <3> QED
      BY <1>6, <3>2, <3>3, <3>4
  <2>2. \A t \in Saves : /\ saving'[t] = "finalize" => Api[t] = "v2" /\ sent'[t] = Chunks
                         /\ saving'[t] = "reserve" => sent'[t] = {}
    BY <1>3, <1>4 DEF CInv, UploadInv
  <2>3. \A t, v \in Saves : saving'[t] = "upload" /\ saving'[v] = "upload" /\ entryID'[t] = entryID'[v] => t = v
    BY <1>3, <1>5 DEF CInv, UploadInv
  <2> QED
    BY <1>3, <1>5, <2>1, <2>2, <2>3 DEF CInv, UploadInv, SameEntry
<1>16. HitInv'
  <2>1. \A i \in CacheIds : blobs'[i] \in {Empty, blobs[i]}
    BY <1>11
  <2> QED
    BY <1>3, <1>5, <2>1, CacheTypes, HitFrame
<1>17. RestoredInv'
  BY <1>3, <1>5, RestoredFrame
<1>18. SavedInv'
  <2> SUFFICES ASSUME NEW t \in Saves, saving'[t] = "saved", Alone(t)'
               PROVE  \/ \E e \in index' : e.id = entryID[t] /\ e.committed
                      \/ entryID[t] \in evicted'
    BY <1>3 DEF SavedInv
  <2>1. t # s /\ entryID[t] \in evicted => entryID[t] \in evicted'
    BY <1>3
  <2>2. ASSUME NEW o \in index, o.id = entryID[t], o.committed \/ o.id = id
        PROVE  \/ \E e \in index' : e.id = entryID[t] /\ e.committed
               \/ entryID[t] \in evicted'
    <3>1. PICK e \in idx : e.id = o.id /\ e.committed
      BY <2>2, <1>8
    <3> QED
      BY <1>3, <1>9, <2>2, <3>1
  <2>3. CASE t = s
    BY <2>2, <2>3, <1>1, <1>7
  <2>4. CASE t # s
    <3>1. \/ \E o \in index : o.id = entryID[t] /\ o.committed
          \/ entryID[t] \in evicted
      BY <2>4, <1>4, <1>6 DEF CInv, SavedInv
    <3> QED
      BY <2>1, <2>2, <2>4, <3>1
  <2> QED
    BY <2>3, <2>4
<1> QED
  BY <1>12, <1>13, <1>14, <1>15, <1>16, <1>17, <1>18 DEF CInv

\* The old API: an entry that has gone is an error.
LEMMA CommitV1Step == ASSUME CInv, NEW s \in Saves, CommitV1(s) PROVE CInv'
<1>1. Saving(s) /\ saving[s] = "upload" /\ Api[s] = "v1" /\ sent[s] = Chunks
  BY DEF CommitV1, Saving
<1>2. CASE HasEntry(entryID[s])
  BY <1>1, <1>2, CommitStep DEF CommitV1
<1>3. CASE ~HasEntry(entryID[s])
  BY <1>1, <1>3, EndOfSave DEF CommitV1
<1> QED
  BY <1>2, <1>3

\* The new API: an entry can only have gone if another save competes.
LEMMA FinalizeCommitStep == ASSUME CInv, NEW s \in Saves, FinalizeCommit(s) PROVE CInv'
<1>1. Saving(s) /\ saving[s] = "finalize"
  BY DEF FinalizeCommit, Saving
<1>2. CASE HasEntry(entryID[s])
  BY <1>1, <1>2, CommitStep DEF FinalizeCommit
<1>3. CASE ~HasEntry(entryID[s])
  <2>1. ~Alone(s)
    BY <1>1, <1>3 DEF CInv, UploadInv, HasEntry
  <2> QED
    BY <1>1, <1>3, <2>1, EndOfSave DEF FinalizeCommit
<1> QED
  BY <1>2, <1>3

\* A crash in a commit removes blobs of entries that stay in the index.
LEMMA CrashStep == ASSUME CInv, NEW s \in Saves, CrashInCommit(s) PROVE CInv'
<1>1. PICK idx : idx = WithCommit(entryID[s], SizeOf[s])
  OBVIOUS
<1>2. /\ Reload /\ evicted' = evicted \cup Evictees(idx)
      /\ blobs' = [i \in CacheIds |-> IF i \in Evictees(idx) THEN Empty ELSE blobs[i]]
  BY <1>1 DEF CrashInCommit, RemoveBlobs
<1>3. \A e \in idx : e.id \in CacheIds
  BY <1>1, CommittedIndex DEF CacheEntries
<1>4. Evictees(idx) \subseteq CacheIds
  BY <1>3 DEF Evictees
<1>5. Empty \in [Chunks -> Saves \cup {NoSave}]
  BY DEF Empty
<1>6. /\ blobs' \in [CacheIds -> [Chunks -> Saves \cup {NoSave}]]
      /\ \A i \in CacheIds : blobs'[i] \in {Empty, blobs[i]}
  BY <1>2, <1>5, CacheTypes
<1> QED
  BY <1>2, <1>4, <1>6, CacheTypes, ReloadStep

\* Every step keeps CInv.
LEMMA CacheNextInv == CInv /\ [CacheNext]_cacheVars => CInv'
<1> SUFFICES ASSUME CInv, [CacheNext]_cacheVars
             PROVE  CInv'
  OBVIOUS
<1>1. ASSUME NEW s \in Saves, ReserveV1(s) \/ CreateCacheEntry(s)
      PROVE  CInv'
  BY <1>1, ReserveStep DEF ReserveV1, CreateCacheEntry
<1>2. ASSUME NEW s \in Saves, NEW c \in Chunks, UploadV1(s, c) \/ UploadV2(s, c)
      PROVE  CInv'
  BY <1>2, UploadChunkStep DEF UploadV1, UploadV2
<1>3. ASSUME NEW s \in Saves, CommitV1(s) \/ FinalizeFind(s) \/ FinalizeCommit(s) \/ CrashInCommit(s)
      PROVE  CInv'
  BY <1>3, CommitV1Step, FinalizeFindStep, FinalizeCommitStep, CrashStep
<1>4. ASSUME NEW s \in Saves, GiveUp(s)
      PROVE  CInv'
  BY <1>4, EndOfSave DEF GiveUp, Saving
<1>5. ASSUME NEW r \in Restores, LookUp(r) \/ DownloadCache(r)
      PROVE  CInv'
  BY <1>5, LookUpStep, DownloadCacheStep
<1>6. CASE Restart
  BY <1>6, CacheTypes, ReloadStep DEF Restart
<1>7. CASE UNCHANGED cacheVars
  <2>1. /\ UNCHANGED <<storeVars, saveVars, restarts>> /\ hit' = hit /\ restored' = restored
        /\ saving' = saving /\ entryID' = entryID /\ blobs' = blobs /\ nextID' = nextID
    BY <1>7 DEF cacheVars, storeVars, saveVars, hitVars
  <2>2. HitInv' /\ RestoredInv'
    BY <2>1 DEF CInv, HitInv, RestoredInv, Started, Alone, OnlyWriter, Empty, NoHit, Archive
  <2> QED
    BY <2>1, <2>2, CacheTypes, RestoreFrame
<1> QED
  BY <1>1, <1>2, <1>3, <1>4, <1>5, <1>6, <1>7 DEF CacheNext

\* Whatever saves and restores do side by side, with either API, through evictions, restarts and
\* crashes in a commit: the cache stays within its size; and where a save is alone a restore that finds
\* it gets its whole archive, and what it was told is saved stays until it is evicted.  Of saves of one
\* key and version in the new API that compete, or were left over, one may be committed in place of the
\* other (handleTwirpFinalizeEntry): nothing is said of their contents.
THEOREM CacheKeepsItsPromise == CacheSpec => []CacheInv
<1>1. ASSUME CInv
      PROVE  CacheInv
  <2>1. CacheTypeOK /\ WithinMaxSize
    BY <1>1 DEF CInv, DiskInv, WithinMaxSize
  <2>2. RestoresIntact
    BY <1>1 DEF CInv, RestoredInv, RestoresIntact, Started, Archive
  <2>3. SavedIsDurable
    BY <1>1 DEF CInv, DiskInv, SavedInv, SavedIsDurable
  <2> QED
    BY <2>1, <2>2, <2>3 DEF CacheInv
<1> QED
  BY <1>1, CacheInitInv, CacheNextInv, PTL DEF CacheSpec

-----------------------------------------------------------------------------
(* Watch mode.                                                             *)

\* Where the function of a timer is.
Places == {"cancel", "wait", "asleep", "woken", "start", "done"}

\* Events are about directories there are, and the logs are sequences.
LogInv ==
    /\ callbacks \in Seq(Places)
    /\ runs \in Seq([status : {"running", "cancelled", "done"}, seen : Nat])
    /\ events \in Seq([dir : Dirs, kind : {"write", "create"}])
    /\ \A i \in DOMAIN events : events[i].dir \in exists

\* While no timer fired too early one callback is under way, and the run that it
\* is about to start will be alone; only the loop can find it there when it comes
\* back from Wait.
AloneInv ==
    ~overlap => /\ \A c, d \in UnderWay(callbacks) : c = d
                /\ \A r, s \in Active : r = s
                /\ \A c \in DOMAIN callbacks : callbacks[c] \in {"woken", "start"} => Active = {}
                /\ panicked => loop = "woken"

\* Runs are not left running once the context is done, and the loop goes on
\* until then.
DoneInv ==
    /\ ctxDone => \A r \in DOMAIN runs : runs[r].status # "running"
    /\ loop # "select" => ctxDone

IInv == WatchTypeOK /\ LogInv /\ AloneInv /\ DoneInv

-----------------------------------------------------------------------------
\* The first run is under way alone.
LEMMA InitIInv == WatchInit => IInv
<1> SUFFICES ASSUME WatchInit
             PROVE  IInv
  OBVIOUS
<1>1. runs = <<[status |-> "running", seen |-> 0]>> /\ DOMAIN runs = {1}
  BY DEF WatchInit
<1>2. callbacks = <<>> /\ DOMAIN callbacks = {} /\ events = <<>> /\ DOMAIN events = {}
  BY DEF WatchInit
<1>3. LogInv
  BY <1>1, <1>2 DEF LogInv
<1> QED
  BY <1>1, <1>2, <1>3, WatchAssumption DEF WatchInit, IInv, WatchTypeOK, AloneInv, DoneInv, Active, UnderWay

\* A new element leaves the others where they are.
LEMMA Appended ==
    ASSUME NEW S, NEW q \in Seq(S), NEW e \in S
    PROVE  /\ Append(q, e) \in Seq(S) /\ Append(q, e) # <<>>
           /\ Len(Append(q, e)) = Len(q) + 1 /\ Len(q) \in Nat
           /\ DOMAIN q = 1..Len(q)
           /\ DOMAIN Append(q, e) = DOMAIN q \cup {Len(q) + 1}
           /\ Len(q) + 1 \notin DOMAIN q
           /\ \A i \in DOMAIN q : Append(q, e)[i] = q[i]
           /\ Append(q, e)[Len(q) + 1] = e
<1>1. Append(q, e) \in Seq(S) /\ Len(Append(q, e)) = Len(q) + 1 /\ Len(q) \in Nat
      /\ DOMAIN q = 1..Len(q) /\ DOMAIN Append(q, e) = 1..Len(Append(q, e))
      /\ \A i \in 1..Len(q) : Append(q, e)[i] = q[i]
      /\ Append(q, e)[Len(q) + 1] = e
  BY AppendProperties, LenProperties
<1> QED
  BY <1>1

\* Steps of the files and of the loop leave callbacks alone.
LEMMA FileSteps ==
    ASSUME IInv, NEW d \in Dirs, WriteFile(d) \/ MakeDir(d)
    PROVE  IInv'
<1>1. UNCHANGED <<loop, ctxDone, watched, timer, callbacks, runs, current, overlap, panicked>>
  BY DEF WriteFile, MakeDir
<1>2. changes' \in 0..MaxChanges /\ exists \subseteq exists'
  BY WatchAssumption DEF WriteFile, MakeDir, Counted, IInv, WatchTypeOK
<1>3. \/ events' = events
      \/ \E k \in {"write", "create"} : events' = Append(events, [dir |-> d, kind |-> k])
                                        /\ d \in exists'
  BY DEF WriteFile, MakeDir
<1>4. /\ events' \in Seq([dir : Dirs, kind : {"write", "create"}])
      /\ \A i \in DOMAIN events' : events'[i].dir \in exists'
  <2>1. CASE events' = events
    BY <1>2, <2>1 DEF IInv, LogInv
  <2>2. ASSUME NEW k \in {"write", "create"}, events' = Append(events, [dir |-> d, kind |-> k]), d \in exists'
        PROVE  <1>4!:
    BY <1>2, <2>2, Appended DEF IInv, LogInv
  <2> QED
    BY <1>3, <2>1, <2>2
<1> QED
  BY <1>1, <1>2, <1>4 DEF IInv, WatchTypeOK, LogInv, AloneInv, DoneInv, Active, UnderWay

\* A function on an initial interval is a sequence.
LEMMA IsSequence ==
    ASSUME NEW S, NEW n \in Nat, NEW q \in [1..n -> S]
    PROVE  q \in Seq(S)
  BY SeqDef

\* What is under way stays so when it is cancelled, and a run is at most as
\* busy as before.
LEMMA Cancelling ==
    ASSUME WatchTypeOK, LogInv, runs' = Cancelled(current)
    PROVE  /\ DOMAIN runs' = DOMAIN runs
           /\ Active' = Active
           /\ \A r \in DOMAIN runs : runs[r].status # "running" => runs'[r].status # "running"
           /\ runs' \in Seq([status : {"running", "cancelled", "done"}, seen : Nat])
<1>1. runs \in [1..Len(runs) -> [status : {"running", "cancelled", "done"}, seen : Nat]]
      /\ DOMAIN runs = 1..Len(runs) /\ Len(runs) \in Nat
  BY LenProperties DEF LogInv
<1>2. \A r \in DOMAIN runs : /\ runs[r] \in [status : {"running", "cancelled", "done"}, seen : Nat]
                            /\ runs[r].status \in {"running", "cancelled", "done"}
  BY <1>1
<1>3. DOMAIN runs' = DOMAIN runs
  BY DEF Cancelled
<1>4. \A r \in DOMAIN runs :
          runs'[r] = IF r = current
                     THEN [runs[r] EXCEPT !.status = IF @ = "running" THEN "cancelled" ELSE @]
                     ELSE runs[r]
  BY DEF Cancelled
<1>5. \A r \in DOMAIN runs :
          /\ runs'[r] \in [status : {"running", "cancelled", "done"}, seen : Nat]
          /\ runs[r].status # "running" => runs'[r].status # "running"
          /\ runs'[r].status \in {"running", "cancelled"} <=> runs[r].status \in {"running", "cancelled"}
  BY <1>2, <1>4
<1>6. runs' \in [1..Len(runs) -> [status : {"running", "cancelled", "done"}, seen : Nat]]
  BY <1>1, <1>3, <1>5 DEF Cancelled
<1>7. runs' \in Seq([status : {"running", "cancelled", "done"}, seen : Nat])
  BY <1>1, <1>6, IsSequence
<1> QED
  BY <1>3, <1>5, <1>7 DEF Active

LEMMA LoopSteps ==
    ASSUME IInv, HandleEvent \/ LoopStops \/ LoopWaits \/ LoopWakes
    PROVE  IInv'
<1>1. CASE HandleEvent
  <2>1. UNCHANGED <<loop, ctxDone, exists, callbacks, runs, current, changes, overlap, panicked>>
    BY <1>1 DEF HandleEvent
  <2>2. events \in Seq([dir : Dirs, kind : {"write", "create"}]) /\ events # <<>> /\ events' = Tail(events)
    BY <1>1 DEF HandleEvent, IInv, LogInv
  <2>3. /\ events' \in Seq([dir : Dirs, kind : {"write", "create"}])
        /\ \A i \in DOMAIN events' : i + 1 \in DOMAIN events /\ events'[i] = events[i + 1]
        /\ Head(events) = events[1] /\ 1 \in DOMAIN events
    BY <2>2, HeadTailProperties, LenProperties, EmptySeq
  <2>4. \A i \in DOMAIN events' : events'[i].dir \in exists'
    BY <2>1, <2>3 DEF IInv, LogInv
  <2>5. timer' \in {"none", "armed", "fired"} /\ watched' \subseteq exists'
    BY <1>1, <2>1, <2>3 DEF HandleEvent, IInv, WatchTypeOK, LogInv, Watching, Reset
  <2> QED
    BY <2>1, <2>3, <2>4, <2>5 DEF IInv, WatchTypeOK, LogInv, AloneInv, DoneInv, Active, UnderWay
<1>2. CASE LoopWaits \/ LoopWakes
  <2>1. /\ UNCHANGED <<ctxDone, exists, watched, events, timer, callbacks, runs, current, changes, overlap>>
        /\ loop \in {"stopping", "woken"} /\ loop' \in {"asleep", "woken", "returned"}
        /\ ~panicked /\ (panicked' => loop' = "woken")
    BY <1>2 DEF LoopWaits, LoopWakes, AfterWait
  <2> QED
    BY <2>1 DEF IInv, WatchTypeOK, LogInv, AloneInv, DoneInv, Active, UnderWay
<1>3. CASE LoopStops
  <2>1. /\ UNCHANGED <<ctxDone, exists, watched, events, timer, callbacks, current, changes, overlap, panicked>>
        /\ ctxDone /\ loop' = "stopping" /\ runs' = Cancelled(current) /\ ~panicked
    BY <1>3 DEF LoopStops
  <2>2. WatchTypeOK /\ LogInv
    BY DEF IInv
  <2> QED
    BY <2>1, <2>2, Cancelling DEF IInv, WatchTypeOK, LogInv, AloneInv, DoneInv, UnderWay
<1> QED
  BY <1>1, <1>2, <1>3

\* The end of the context cancels every run.
LEMMA ContextStep ==
    ASSUME IInv, CtxEnds
    PROVE  IInv'
<1>1. /\ UNCHANGED <<loop, exists, watched, events, timer, callbacks, current, changes, overlap, panicked>>
      /\ ctxDone' = TRUE
  BY DEF CtxEnds
<1>2. runs \in [1..Len(runs) -> [status : {"running", "cancelled", "done"}, seen : Nat]]
      /\ DOMAIN runs = 1..Len(runs) /\ Len(runs) \in Nat
  BY LenProperties DEF IInv, LogInv
<1>3. \A r \in DOMAIN runs : /\ runs[r] \in [status : {"running", "cancelled", "done"}, seen : Nat]
                            /\ runs[r].status \in {"running", "cancelled", "done"}
  BY <1>2
<1>4. runs' = [r \in DOMAIN runs |->
                   [runs[r] EXCEPT !.status = IF @ = "running" THEN "cancelled" ELSE @]]
  BY DEF CtxEnds
<1>5. \A r \in DOMAIN runs :
          /\ runs'[r] \in [status : {"running", "cancelled", "done"}, seen : Nat]
          /\ runs'[r].status # "running"
          /\ runs'[r].status \in {"running", "cancelled"} <=> runs[r].status \in {"running", "cancelled"}
  BY <1>3, <1>4
<1>6. runs' \in [1..Len(runs) -> [status : {"running", "cancelled", "done"}, seen : Nat]]
  BY <1>2, <1>4, <1>5
<1>7. runs' \in Seq([status : {"running", "cancelled", "done"}, seen : Nat])
  BY <1>2, <1>6, IsSequence
<1>8. DOMAIN runs' = DOMAIN runs /\ Active' = Active
  BY <1>4, <1>5 DEF Active
<1> QED
  BY <1>1, <1>5, <1>7, <1>8 DEF IInv, WatchTypeOK, LogInv, AloneInv, DoneInv, UnderWay

\* A timer that fires while a callback is under way is an overlap, and else its
\* callback is the only one.
LEMMA TimerStep ==
    ASSUME IInv, TimerFires
    PROVE  IInv'
<1> DEFINE n == Len(callbacks) + 1
<1>1. /\ UNCHANGED <<loop, ctxDone, exists, watched, events, runs, current, changes, panicked>>
      /\ callbacks' = Append(callbacks, "cancel") /\ timer' = "fired"
      /\ overlap' = (overlap \/ UnderWay(callbacks) # {})
  BY DEF TimerFires
<1>2. callbacks \in Seq(Places) /\ "cancel" \in Places
  BY DEF IInv, LogInv, Places
<1>3. /\ callbacks' \in Seq(Places)
      /\ DOMAIN callbacks' = DOMAIN callbacks \cup {n}
      /\ \A c \in DOMAIN callbacks : callbacks'[c] = callbacks[c]
      /\ callbacks'[n] = "cancel"
  BY <1>1, <1>2, Appended
<1>4. ASSUME ~overlap'
      PROVE  UnderWay(callbacks') = {n} /\ ~overlap
    BY <1>1, <1>3, <1>4 DEF UnderWay
<1>5. AloneInv'
  BY <1>1, <1>3, <1>4 DEF IInv, AloneInv, Active, UnderWay
<1>6. WatchTypeOK'
  BY <1>1, <1>3 DEF IInv, WatchTypeOK
<1> QED
  BY <1>1, <1>3, <1>5, <1>6 DEF IInv, LogInv, DoneInv

\* A callback that moves on stays in the log, and the others where they are.
LEMMA MovesOn ==
    ASSUME LogInv, NEW c \in DOMAIN callbacks, NEW p \in Places,
           callbacks' = [callbacks EXCEPT ![c] = p]
    PROVE  /\ callbacks' \in Seq(Places)
           /\ DOMAIN callbacks' = DOMAIN callbacks
           /\ callbacks'[c] = p
           /\ \A d \in DOMAIN callbacks \ {c} : callbacks'[d] = callbacks[d]
  BY ExceptSeq DEF LogInv

\* The steps of a callback before it starts its run.
LEMMA CallbackSteps ==
    ASSUME IInv, NEW c \in DOMAIN callbacks, CancelRun(c) \/ WaitForRuns(c) \/ WakeUp(c)
    PROVE  IInv'
<1>0. WatchTypeOK /\ LogInv
  BY DEF IInv
<1>1. CASE CancelRun(c)
  <2>1. /\ UNCHANGED <<loop, ctxDone, exists, watched, events, timer, current, changes, overlap, panicked>>
        /\ callbacks[c] = "cancel" /\ callbacks' = [callbacks EXCEPT ![c] = "wait"]
        /\ runs' = Cancelled(current)
    BY <1>1 DEF CancelRun
  <2>2. /\ callbacks' \in Seq(Places)
        /\ DOMAIN callbacks' = DOMAIN callbacks
        /\ callbacks'[c] = "wait"
        /\ \A d \in DOMAIN callbacks \ {c} : callbacks'[d] = callbacks[d]
    BY <1>0, <2>1, MovesOn DEF Places
  <2>3. UnderWay(callbacks') = UnderWay(callbacks)
    BY <2>1, <2>2 DEF UnderWay
  <2>4. /\ DOMAIN runs' = DOMAIN runs /\ Active' = Active
        /\ \A r \in DOMAIN runs : runs[r].status # "running" => runs'[r].status # "running"
        /\ runs' \in Seq([status : {"running", "cancelled", "done"}, seen : Nat])
    BY <1>0, <2>1, Cancelling
  <2>5. AloneInv'
    BY <2>1, <2>2, <2>3, <2>4 DEF IInv, AloneInv
  <2>6. WatchTypeOK'
    BY <2>1, <2>2, <2>4 DEF IInv, WatchTypeOK
  <2> QED
    BY <2>1, <2>2, <2>4, <2>5, <2>6 DEF IInv, LogInv, DoneInv
<1>2. CASE WaitForRuns(c) \/ WakeUp(c)
  <2>1. /\ UNCHANGED <<loop, ctxDone, exists, watched, events, timer, runs, current, changes, overlap>>
        /\ callbacks[c] \in {"wait", "woken"} /\ ~panicked
    BY <1>2 DEF WaitForRuns, WakeUp
  <2>2. PICK p \in {"asleep", "woken", "start"} :
            /\ callbacks' = [callbacks EXCEPT ![c] = p]
            /\ p = "start" => Active = {}
            /\ p = "woken" => callbacks[c] = "woken"
            /\ panicked' => callbacks[c] = "woken" /\ Active # {}
    <3>1. CASE WaitForRuns(c)
      BY <2>1, <3>1 DEF WaitForRuns, AfterWait
    <3>2. CASE WakeUp(c)
      <4>1. CASE Reused
        BY <3>2, <4>1 DEF WakeUp, Reused
      <4>2. CASE ~Reused
        BY <3>2, <4>2 DEF WakeUp, Reused
      <4> QED
        BY <4>1, <4>2
    <3> QED
      BY <1>2, <3>1, <3>2
  <2>3. /\ callbacks' \in Seq(Places)
        /\ DOMAIN callbacks' = DOMAIN callbacks
        /\ callbacks'[c] = p
        /\ \A d \in DOMAIN callbacks \ {c} : callbacks'[d] = callbacks[d]
    BY <1>0, <2>2, MovesOn DEF Places
  <2>4. UnderWay(callbacks') = UnderWay(callbacks)
    BY <2>1, <2>2, <2>3 DEF UnderWay
  <2>5. Active' = Active
    BY <2>1 DEF Active
  <2>6. AloneInv'
    BY <2>1, <2>2, <2>3, <2>4, <2>5 DEF IInv, AloneInv
  <2>7. WatchTypeOK'
    BY <2>1, <2>2, <2>3 DEF IInv, WatchTypeOK
  <2> QED
    BY <2>1, <2>3, <2>6, <2>7 DEF IInv, LogInv, DoneInv
<1> QED
  BY <1>1, <1>2

\* Only the callback under way starts a run, when no other is active.
LEMMA StartStep ==
    ASSUME IInv, NEW c \in DOMAIN callbacks, StartRun(c)
    PROVE  IInv'
<1> DEFINE Run == [status : {"running", "cancelled", "done"}, seen : Nat]
           n == Len(runs) + 1
<1>1. /\ UNCHANGED <<loop, ctxDone, exists, watched, events, timer, changes, overlap, panicked>>
      /\ callbacks[c] = "start" /\ callbacks' = [callbacks EXCEPT ![c] = "done"]
      /\ runs' = Append(runs, FreshRun) /\ current' = Len(runs')
      /\ ~panicked
  BY DEF StartRun
<1>2. /\ callbacks' \in Seq(Places)
      /\ DOMAIN callbacks' = DOMAIN callbacks
      /\ callbacks'[c] = "done"
      /\ \A d \in DOMAIN callbacks \ {c} : callbacks'[d] = callbacks[d]
  BY <1>1, MovesOn DEF IInv, Places
<1>3. /\ runs \in Seq(Run) /\ FreshRun \in Run
      /\ FreshRun.status = IF ctxDone THEN "cancelled" ELSE "running"
  BY WatchAssumption DEF IInv, WatchTypeOK, LogInv, FreshRun
<1>4. /\ runs' \in Seq(Run) /\ current' = n
      /\ DOMAIN runs' = DOMAIN runs \cup {n}
      /\ \A r \in DOMAIN runs : runs'[r] = runs[r]
      /\ runs'[n] = FreshRun
  BY <1>1, <1>3, Appended
<1>5. UnderWay(callbacks') = UnderWay(callbacks) \ {c} /\ c \in UnderWay(callbacks)
  BY <1>1, <1>2 DEF UnderWay
<1>6. AloneInv'
  <2>1. SUFFICES ASSUME ~overlap'
                 PROVE  /\ \A a, b \in UnderWay(callbacks') : a = b
                        /\ \A r, s \in Active' : r = s
                        /\ \A d \in DOMAIN callbacks' : callbacks'[d] \in {"woken", "start"} => Active' = {}
                        /\ ~panicked'
    BY DEF AloneInv
  <2>2. UnderWay(callbacks) = {c} /\ Active = {}
    BY <1>1, <1>5, <2>1 DEF IInv, AloneInv
  <2>3. Active' \subseteq {n}
    BY <1>4, <2>2 DEF Active
  <2>4. \A d \in DOMAIN callbacks' : callbacks'[d] = "done"
    BY <1>2, <1>5, <2>2 DEF UnderWay
  <2> QED
    BY <1>1, <2>3, <2>4 DEF UnderWay
<1>7. WatchTypeOK'
  BY <1>1, <1>2, <1>4 DEF IInv, WatchTypeOK
<1>8. DoneInv'
  BY <1>1, <1>3, <1>4 DEF IInv, DoneInv
<1> QED
  BY <1>1, <1>2, <1>4, <1>6, <1>7, <1>8 DEF IInv, LogInv

\* A run that ends is no longer under way.
LEMMA RunEndsStep ==
    ASSUME IInv, NEW r \in DOMAIN runs, RunEnds(r)
    PROVE  IInv'
<1> DEFINE Run == [status : {"running", "cancelled", "done"}, seen : Nat]
<1>1. /\ UNCHANGED <<ctxDone, exists, watched, events, timer, current, changes, overlap, panicked>>
      /\ runs' = [runs EXCEPT ![r].status = "done"] /\ r \in Active /\ ~panicked
  BY DEF RunEnds
<1>2. runs \in [1..Len(runs) -> Run] /\ DOMAIN runs = 1..Len(runs) /\ Len(runs) \in Nat
  BY LenProperties DEF IInv, LogInv
<1>3. /\ DOMAIN runs' = DOMAIN runs
      /\ \A s \in DOMAIN runs : runs'[s] = IF s = r THEN [runs[s] EXCEPT !.status = "done"] ELSE runs[s]
  BY <1>1
<1>4. /\ \A s \in DOMAIN runs : runs'[s] \in Run /\ (runs'[s].status = runs[s].status \/ runs'[s].status = "done")
  BY <1>2, <1>3
<1>5. runs' \in [1..Len(runs) -> Run]
  BY <1>1, <1>2, <1>4
<1>6. runs' \in Seq(Run)
  BY <1>2, <1>5, IsSequence
<1>7. Active' \subseteq Active \ {r}
  BY <1>3, <1>4 DEF Active
<1>8. /\ callbacks' \in Seq(Places) /\ DOMAIN callbacks' = DOMAIN callbacks
      /\ \A c \in DOMAIN callbacks :
            \/ callbacks'[c] = callbacks[c]
            \/ callbacks[c] = "asleep" /\ callbacks'[c] = "woken" /\ Active = {r}
      /\ loop' = loop \/ (loop = "asleep" /\ loop' = "woken")
  <2>1. CASE Active = {r}
    <3>1. /\ callbacks' = [c \in DOMAIN callbacks |-> Woken(callbacks[c])] /\ loop' = Woken(loop)
      BY <2>1 DEF RunEnds
    <3>2. callbacks \in [1..Len(callbacks) -> Places] /\ DOMAIN callbacks = 1..Len(callbacks)
          /\ Len(callbacks) \in Nat
      BY LenProperties DEF IInv, LogInv
    <3>3. \A c \in DOMAIN callbacks : Woken(callbacks[c]) \in Places
      BY <3>2 DEF Woken, Places
    <3>4. callbacks' \in Seq(Places)
      BY <3>1, <3>2, <3>3, IsSequence
    <3>5. DOMAIN callbacks' = DOMAIN callbacks /\ \A c \in DOMAIN callbacks : callbacks'[c] = Woken(callbacks[c])
      BY <3>1
    <3>6. \A x : Woken(x) = x \/ (x = "asleep" /\ Woken(x) = "woken")
      BY DEF Woken
    <3> HIDE DEF Woken
    <3> QED
      BY <2>1, <3>1, <3>4, <3>5, <3>6
  <2>2. CASE Active # {r}
    <3>1. callbacks' = callbacks /\ loop' = loop
      BY <2>2 DEF RunEnds
    <3> QED
      BY <3>1 DEF IInv, LogInv
  <2> QED
    BY <2>1, <2>2
<1>9. UnderWay(callbacks') = UnderWay(callbacks)
  BY <1>8 DEF UnderWay
<1>10. AloneInv'
  <2> SUFFICES ASSUME ~overlap'
               PROVE  /\ \A c, d \in UnderWay(callbacks') : c = d
                      /\ \A q, s \in Active' : q = s
                      /\ \A c \in DOMAIN callbacks' : callbacks'[c] \in {"woken", "start"} => Active' = {}
                      /\ ~panicked'
    BY DEF AloneInv
  <2>1. /\ \A c, d \in UnderWay(callbacks) : c = d
        /\ \A q, s \in Active : q = s
    BY <1>1 DEF IInv, AloneInv
  <2>2. Active' = {}
    BY <1>1, <1>7, <2>1
  <2> QED
    BY <1>1, <1>9, <2>1, <2>2
<1>11. WatchTypeOK'
  BY <1>1, <1>3, <1>8 DEF IInv, WatchTypeOK
<1>12. DoneInv'
  BY <1>1, <1>3, <1>4, <1>8 DEF IInv, DoneInv
<1> QED
  BY <1>1, <1>6, <1>8, <1>10, <1>11, <1>12 DEF IInv, LogInv

\* Every step keeps the invariant.
LEMMA NextIInv == IInv /\ [WatchNext]_watchVars => IInv'
<1> SUFFICES ASSUME IInv, [WatchNext]_watchVars
             PROVE  IInv'
  OBVIOUS
<1>1. CASE \E d \in Dirs : WriteFile(d) \/ MakeDir(d)
  BY <1>1, FileSteps
<1>2. CASE CtxEnds
  BY <1>2, ContextStep
<1>3. CASE HandleEvent \/ LoopStops \/ LoopWaits \/ LoopWakes
  BY <1>3, LoopSteps
<1>4. CASE TimerFires
  BY <1>4, TimerStep
<1>5. CASE \E c \in DOMAIN callbacks : CancelRun(c) \/ WaitForRuns(c) \/ WakeUp(c) \/ StartRun(c)
  BY <1>5, CallbackSteps, StartStep
<1>6. CASE \E r \in DOMAIN runs : RunEnds(r)
  BY <1>6, RunEndsStep
<1>7. CASE UNCHANGED watchVars
  BY <1>7 DEF watchVars, IInv, WatchTypeOK, LogInv, AloneInv, DoneInv, Active, UnderWay
<1> QED
  BY <1>1, <1>2, <1>3, <1>4, <1>5, <1>6, <1>7 DEF WatchNext, WatchStep

\* What the inductive invariant says is what watch mode promises.
LEMMA IInvImplies == IInv => WatchInv
<1> SUFFICES ASSUME IInv
             PROVE  WatchInv
  OBVIOUS
<1>1. ASSUME ~overlap
      PROVE  Cardinality(Active) <= 1 /\ (panicked => loop = "woken")
  <2>1. (\A r, s \in Active : r = s) /\ (panicked => loop = "woken")
    BY <1>1 DEF IInv, AloneInv
  <2>2. CASE Active = {}
    BY <2>1, <2>2, FS_EmptySet
  <2>3. ASSUME NEW r \in Active
        PROVE  Cardinality(Active) = 1
    <3>1. Active = {r}
      BY <2>1, <2>3
    <3> QED
      BY <3>1, FS_Singleton
  <2> QED
    BY <2>1, <2>2, <2>3
<1>2. ReturnLeavesOnlyCancelled
  BY DEF IInv, DoneInv, ReturnLeavesOnlyCancelled, Active
<1> QED
  BY <1>1, <1>2 DEF IInv, WatchInv, OneRunAtATime

\* For any directories and any number of changes, however events, timers, runs and the end of the
\* context interleave: while timers do not overlap, runs do not pile up and nobody but WatchAndRun,
\* on its way out, can find its WaitGroup used again; and no run goes on after it has returned.
THEOREM WatchSafe == WatchSpec => []WatchInv
<1>1. IInv /\ [WatchNext]_watchVars => IInv'
  BY NextIInv
<1> QED
  BY <1>1, InitIInv, IInvImplies, PTL DEF WatchSpec
=============================================================================
