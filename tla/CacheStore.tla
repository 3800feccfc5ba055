----------------------------- MODULE CacheStore -----------------------------
(***************************************************************************)
(* The cache of actions/cache, src/internal/cache: the index with its      *)
(* entries, the blobs on disk, the old API (commit by id) and the new one  *)
(* (commit by key and version), as the cache steps of jobs drive them, and *)
(* what is left of it when ions is started again.                          *)
(*                                                                         *)
(* Abstractions.  A key is the sequence of its parts.  A blob is one slot  *)
(* per chunk with the save that wrote it last: the files are opened        *)
(* without truncation.  A save commits after all its chunks were written.  *)
(* Entries are appended in the order of their ids, which is that of their  *)
(* CreatedAt: the index is a set of entries.  One ions process at a time   *)
(* uses the directory; a write of index.json is whole or absent.           *)
(***************************************************************************)
EXTENDS Naturals, FiniteSets, SequencesExt

CONSTANTS Saves,        \* cache steps that save
          Api,          \* [Saves -> {"v1", "v2"}]
          KeyOf,        \* [Saves -> key]
          VersionOf,    \* [Saves -> version]
          SizeOf,       \* [Saves -> size]
          Chunks,       \* chunks of an archive
          MaxSize,
          Restores,     \* cache steps that restore
          RestoreKeys,  \* [Restores -> keys, in order]
          RestoreVersion,
          MaxRestarts,  \* bound
          NoSave

ASSUME CacheAssumption ==
    /\ IsFiniteSet(Saves)
    /\ Api \in [Saves -> {"v1", "v2"}]
    /\ SizeOf \in [Saves -> Nat]
    /\ MaxSize \in Nat /\ MaxRestarts \in Nat
    /\ NoSave \notin Saves

VARIABLES
    index,     \* Store.index
    nextID,
    disk,      \* index.json
    blobs,     \* [ids -> [Chunks -> Saves \cup {NoSave}]]
    saving,    \* [Saves -> where the step is]
    entryID,   \* [Saves -> id it was given, or that finalize found]
    sent,      \* [Saves -> chunks written]
    hit,       \* [Restores -> the entry of its lookup]
    restored,  \* [Restores -> contents of its download]
    evicted,   \* ids evicted, for the properties
    restarts

storeVars == <<index, nextID, disk, blobs, evicted>>
saveVars  == <<saving, entryID, sent>>
hitVars   == <<hit, restored>>
cacheVars == <<storeVars, saveVars, hitVars, restarts>>

CacheIds == 1..Cardinality(Saves)
Empty    == [c \in Chunks |-> NoSave]
NoHit    == [id |-> 0, key |-> <<>>]

CacheInit ==
    /\ index    = {}
    /\ nextID   = 0
    /\ disk     = {}
    /\ blobs    = [i \in CacheIds |-> Empty]
    /\ saving   = [s \in Saves |-> "reserve"]
    /\ entryID  = [s \in Saves |-> 0]
    /\ sent     = [s \in Saves |-> {}]
    /\ hit      = [r \in Restores |-> NoHit]
    /\ restored = [r \in Restores |-> Empty]
    /\ evicted  = {}
    /\ restarts = 0
-----------------------------------------------------------------------------
(* Store.                                                                  *)

CommittedIn(idx)  == {e \in idx : e.committed}
Total(entries)    == MapThenSumSet(LAMBDA e : e.size, entries)
SizeFrom(idx, id) == Total({e \in CommittedIn(idx) : e.id >= id})

\* evict drops the oldest entries for as long as the rest is too large.
Cut(idx)      == Min({id \in 1..Cardinality(Saves) + 1 : SizeFrom(idx, id) <= MaxSize})
Kept(idx)     == {e \in idx : e.committed => e.id >= Cut(idx)}
Evictees(idx) == {e.id : e \in idx \ Kept(idx)}

WithCommit(id, size) ==
    {IF e.id = id THEN [e EXCEPT !.size = size, !.committed = TRUE] ELSE e : e \in index}

RemoveBlobs(ids) ==
    /\ blobs' = [i \in CacheIds |-> IF i \in ids THEN Empty ELSE blobs[i]]
    /\ evicted' = evicted \cup ids

\* Mutant: the index is saved when an entry is evicted.
CommitSavedLate(id, size) ==
    LET idx == WithCommit(id, size) IN
    /\ index' = Kept(idx)
    /\ disk' = IF Evictees(idx) = {} THEN disk ELSE index'
    /\ RemoveBlobs(Evictees(idx))
    /\ UNCHANGED nextID

Commit(id, size) ==
    LET idx == WithCommit(id, size) IN
    /\ index' = Kept(idx)
    /\ disk' = index'
    /\ RemoveBlobs(Evictees(idx))
    /\ UNCHANGED nextID

HasEntry(id) == \E e \in index : e.id = id

NextIDOf(idx) == Max({0} \cup {e.id : e \in idx})

Oldest(entries) == CHOOSE e \in entries : \A o \in entries : e.id <= o.id
Latest(entries) == CHOOSE e \in entries : \A o \in entries : e.id >= o.id

\* Lookup: an entry with the first key and the version, else the latest of
\* which some key is a prefix, whatever its version.
Exact(keys, v) == {e \in CommittedIn(index) : e.key = keys[1] /\ e.version = v}
ByPrefix(keys) == {e \in CommittedIn(index) : \E k \in DOMAIN keys : IsPrefix(keys[k], e.key)}

Lookup(keys, v) ==
    IF Exact(keys, v) # {} THEN Oldest(Exact(keys, v))
    ELSE IF ByPrefix(keys) # {} THEN Latest(ByPrefix(keys)) ELSE NoHit

FindByKeyVersion(s) == {e \in index : e.key = KeyOf[s] /\ e.version = VersionOf[s]}
-----------------------------------------------------------------------------
(* Handlers.                                                               *)

\* An entry of the same key and version is no obstacle.
Reserve(s) ==
    /\ saving[s] = "reserve"
    /\ nextID' = nextID + 1
    /\ index' = index \cup {[id |-> nextID + 1, key |-> KeyOf[s], version |-> VersionOf[s],
                             size |-> 0, committed |-> FALSE]}
    /\ disk' = index'
    /\ saving' = [saving EXCEPT ![s] = "upload"]
    /\ entryID' = [entryID EXCEPT ![s] = nextID + 1]
    /\ UNCHANGED <<blobs, evicted, sent, hitVars, restarts>>

ReserveV1(s)        == Api[s] = "v1" /\ Reserve(s)
CreateCacheEntry(s) == Api[s] = "v2" /\ Reserve(s)

\* Chunks go to their offsets, in any order and side by side.
UploadChunk(s, c) ==
    /\ saving[s] = "upload"
    /\ blobs' = [blobs EXCEPT ![entryID[s]][c] = s]
    /\ sent' = [sent EXCEPT ![s] = @ \cup {c}]
    /\ UNCHANGED <<index, nextID, disk, evicted, saving, entryID, hitVars, restarts>>

UploadV1(s, c) == Api[s] = "v1" /\ UploadChunk(s, c)
UploadV2(s, c) == Api[s] = "v2" /\ UploadChunk(s, c)

\* The entry has gone if a save of the new API committed it and it was evicted.
CommitV1(s) ==
    /\ saving[s] = "upload" /\ sent[s] = Chunks /\ Api[s] = "v1"
    /\ IF HasEntry(entryID[s]) THEN Commit(entryID[s], SizeOf[s]) ELSE UNCHANGED storeVars
    /\ saving' = [saving EXCEPT ![s] = IF HasEntry(entryID[s]) THEN "saved" ELSE "failed"]
    /\ UNCHANGED <<entryID, sent, hitVars, restarts>>

\* The new API knows no id: an entry of that key and version is looked for,
\* and committed when the lock has been taken again.
FinalizeFind(s) ==
    /\ saving[s] = "upload" /\ sent[s] = Chunks /\ Api[s] = "v2"
    /\ entryID' = [entryID EXCEPT ![s] =
           IF FindByKeyVersion(s) = {} THEN 0 ELSE Oldest(FindByKeyVersion(s)).id]
    /\ saving' = [saving EXCEPT ![s] = IF FindByKeyVersion(s) = {} THEN "failed" ELSE "finalize"]
    /\ UNCHANGED <<storeVars, sent, hitVars, restarts>>

\* An entry that has gone since is no error.
FinalizeCommit(s) ==
    /\ saving[s] = "finalize"
    /\ IF HasEntry(entryID[s]) THEN Commit(entryID[s], SizeOf[s]) ELSE UNCHANGED storeVars
    /\ saving' = [saving EXCEPT ![s] = "saved"]
    /\ UNCHANGED <<entryID, sent, hitVars, restarts>>

\* The step is cancelled or a request fails.
GiveUp(s) ==
    /\ saving[s] \in {"upload", "finalize"}
    /\ saving' = [saving EXCEPT ![s] = "failed"]
    /\ UNCHANGED <<storeVars, entryID, sent, hitVars, restarts>>

LookUp(r) ==
    /\ hit[r] = NoHit
    /\ LET e == Lookup(RestoreKeys[r], RestoreVersion[r]) IN
       hit' = [hit EXCEPT ![r] = [id |-> e.id, key |-> e.key]]
    /\ UNCHANGED <<storeVars, saveVars, restored, restarts>>

\* The blob may be gone by now; a client takes that for a miss.
DownloadCache(r) ==
    /\ hit[r] # NoHit /\ restored[r] = Empty
    /\ restored' = [restored EXCEPT ![r] = blobs[hit[r].id]]
    /\ UNCHANGED <<storeVars, saveVars, hit, restarts>>
-----------------------------------------------------------------------------
(* ions ends, at any time, and is started again: loadIndex.                *)

Reload ==
    /\ restarts < MaxRestarts /\ restarts' = restarts + 1
    /\ index' = disk
    /\ nextID' = NextIDOf(disk)
    /\ saving' = [s \in Saves |-> IF saving[s] \in {"upload", "finalize"} THEN "failed" ELSE saving[s]]
    /\ hit' = [r \in Restores |-> IF restored[r] = Empty THEN NoHit ELSE hit[r]]
    /\ UNCHANGED <<disk, entryID, sent, restored>>

Restart == Reload /\ UNCHANGED <<blobs, evicted>>

\* Commit is cut off after evict has removed blobs, before the index is saved.
CrashInCommit(s) ==
    /\ \/ saving[s] = "upload" /\ sent[s] = Chunks /\ Api[s] = "v1"
       \/ saving[s] = "finalize"
    /\ RemoveBlobs(Evictees(WithCommit(entryID[s], SizeOf[s])))
    /\ Reload

CacheNext ==
    \/ \E s \in Saves : \/ ReserveV1(s) \/ CommitV1(s) \/ CreateCacheEntry(s)
                        \/ FinalizeFind(s) \/ FinalizeCommit(s) \/ GiveUp(s) \/ CrashInCommit(s)
                        \/ \E c \in Chunks : UploadV1(s, c) \/ UploadV2(s, c)
    \/ \E r \in Restores : LookUp(r) \/ DownloadCache(r)
    \/ Restart

CacheSpec == CacheInit /\ [][CacheNext]_cacheVars
-----------------------------------------------------------------------------
CacheEntries == [id : CacheIds, key : {KeyOf[s] : s \in Saves}, version : {VersionOf[s] : s \in Saves},
                 size : {0} \cup {SizeOf[s] : s \in Saves}, committed : BOOLEAN]

\* Types; the ids of the index are distinct and none of them is given again.
CacheTypeOK ==
    /\ index \subseteq CacheEntries /\ disk \subseteq CacheEntries
    /\ nextID \in {0} \cup CacheIds
    /\ \A e, o \in index : e.id = o.id => e = o
    /\ \A e \in index : e.id <= nextID
    /\ blobs \in [CacheIds -> [Chunks -> Saves \cup {NoSave}]]
    /\ saving \in [Saves -> {"reserve", "upload", "finalize", "saved", "failed"}]
    /\ entryID \in [Saves -> {0} \cup CacheIds]
    /\ sent \in [Saves -> SUBSET Chunks]
    /\ hit \in [Restores -> [id : {0} \cup CacheIds, key : {<<>>} \cup {KeyOf[s] : s \in Saves}]]
    /\ restored \in [Restores -> [Chunks -> Saves \cup {NoSave}]]
    /\ evicted \subseteq CacheIds
    /\ restarts \in 0..MaxRestarts

\* The cache stays within its size, now and after a restart.
WithinMaxSize == SizeFrom(index, 1) <= MaxSize /\ SizeFrom(disk, 1) <= MaxSize

\* No other save competes with s for the entry of its key and version, now or
\* left over from an earlier run.
Alone(s) ==
    \A t \in Saves \ {s} : saving[t] # "reserve" /\ "v2" \in {Api[s], Api[t]} =>
        <<KeyOf[t], VersionOf[t]>> # <<KeyOf[s], VersionOf[s]>>

\* A restore gets the whole archive of one save under the key it was told, or
\* nothing: no chunk of an unfinished upload, none of another entry.  Of a save
\* that is not alone nothing is said: another one may be committed for it.
RestoresIntact ==
    \A r \in Restores : restored[r] # Empty =>
        \E s \in Saves : KeyOf[s] = hit[r].key
                         /\ (Alone(s) => restored[r] = [c \in Chunks |-> s])

\* What a save that is alone was told is saved stays until it is evicted, also
\* when ions is started again.
SavedIsDurable ==
    \A s \in Saves : saving[s] = "saved" /\ Alone(s) =>
        \/ \E e \in disk : e.id = entryID[s] /\ e.committed
        \/ entryID[s] \in evicted

\* What the cache promises its clients through commits in any order, lost requests, restarts and a
\* crash in the middle of a commit; of contents and keeping, to the saves that are alone.
CacheInv == CacheTypeOK /\ WithinMaxSize /\ RestoresIntact /\ SavedIsDurable
=============================================================================
