-------------------------- MODULE CachingRemoteFs --------------------------
(***************************************************************************)
(* The caching remote file system every backend shares                     *)
(* (src/src/fs/caching/remote-fs.ts): a metadata cache and a delta cursor  *)
(* held in memory, an IndexedDB store into which both are committed in one *)
(* transaction, and the change feed of the provider behind them.           *)
(*                                                                         *)
(* A cursor is modelled by what it is for: the SET of paths the provider   *)
(* would still report to somebody who asks with it.  "unseen" is that set  *)
(* for the cursor in memory and "storeUnseen" for the committed one, so    *)
(* advancing a cursor empties its set and a change of a remote file adds   *)
(* the path to both.  A file is its content, one element of Version; the   *)
(* backend id, mtime, size and checksum are a function of it.              *)
(***************************************************************************)
EXTENDS Naturals

CONSTANTS Path,           \* the vault-relative paths
          Version,        \* the contents a file may have, Absent among them
          Absent,         \* the "content" of a path at which there is no file
          Fingerprint,    \* the scope fingerprints a commit may carry
          NoFingerprint,  \* no fingerprint was ever committed
          Events          \* the faults and outside events this instance allows

ASSUME FsAssumption == /\ Absent \in Version
                       /\ NoFingerprint \notin Fingerprint

VARIABLES
  remote,              \* the provider's files
  initialized,         \* remote-fs.ts: this.initialized
  cache,               \* this.cache
  unseen,              \* what this._changesPageToken has not been shown yet
  touchedPaths,        \* this.touchedPaths
  pendingFullPersist,  \* this.pendingFullPersist
  fingerprint,         \* this._scopeFingerprint
  scan,                \* who started the full scan in progress, or "no"
  knownBefore,         \* paths the cache held when an expired cursor was rescanned
  saved,               \* the store holds a cursor
  storeCache,          \* the committed file map
  storeUnseen,         \* what the committed cursor has not been shown yet
  storeFingerprint     \* the committed fingerprint

memVars   == <<initialized, cache, unseen, touchedPaths, pendingFullPersist,
               fingerprint, scan, knownBefore>>
storeVars == <<saved, storeCache, storeUnseen, storeFingerprint>>
fsVars    == <<remote, memVars, storeVars>>

NoFiles  == [p \in Path |-> Absent]
FilesIn(files) == {p \in Path : files[p] # Absent}

ScanKinds == {"no", "stat", "detect", "expired"}

FsTypeOK == /\ remote \in [Path -> Version]
            /\ initialized \in BOOLEAN
            /\ cache \in [Path -> Version]
            /\ unseen \in SUBSET Path
            /\ touchedPaths \in SUBSET Path
            /\ pendingFullPersist \in BOOLEAN
            /\ fingerprint \in Fingerprint \cup {NoFingerprint}
            /\ scan \in ScanKinds
            /\ knownBefore \in SUBSET Path
            /\ saved \in BOOLEAN
            /\ storeCache \in [Path -> Version]
            /\ storeUnseen \in SUBSET Path
            /\ storeFingerprint \in Fingerprint \cup {NoFingerprint}

(* A freshly built file system object over a given store. *)
FreshMemory == /\ initialized' = FALSE
               /\ cache' = NoFiles
               /\ unseen' = {}
               /\ touchedPaths' = {}
               /\ pendingFullPersist' = FALSE
               /\ fingerprint' = NoFingerprint
               /\ scan' = "no"
               /\ knownBefore' = {}

FsInit == /\ remote \in [Path -> Version]
          /\ initialized = FALSE
          /\ cache = NoFiles
          /\ unseen = {}
          /\ touchedPaths = {}
          /\ pendingFullPersist = FALSE
          /\ fingerprint = NoFingerprint
          /\ scan = "no"
          /\ knownBefore = {}
          /\ saved = FALSE
          /\ storeCache = NoFiles
          /\ storeUnseen = {}
          /\ storeFingerprint = NoFingerprint

-----------------------------------------------------------------------------
(* The provider's side. *)

(* A remote file changes, by whoever's hand: every cursor that exists will *)
(* be shown the path.                                                      *)
RemoteBecomes(p, v) ==
  /\ remote' = [remote EXCEPT ![p] = v]
  /\ unseen' = IF initialized \/ scan # "no" THEN unseen \cup {p} ELSE unseen
  /\ storeUnseen' = IF saved THEN storeUnseen \cup {p} ELSE storeUnseen

OthersChange(p, v) ==
  /\ v # remote[p]
  /\ RemoteBecomes(p, v)
  /\ UNCHANGED <<initialized, cache, touchedPaths, pendingFullPersist, fingerprint,
                 scan, knownBefore, saved, storeCache, storeFingerprint>>

-----------------------------------------------------------------------------
(* Filling the memory: ensureInitialized and fullScan. *)

(* Mutant: the cursor is restored and the file map is not. *)
LoadCursorOnly ==
  /\ ~initialized /\ scan = "no" /\ saved
  /\ initialized' = TRUE
  /\ unseen' = storeUnseen
  /\ fingerprint' = storeFingerprint
  /\ UNCHANGED <<remote, cache, touchedPaths, pendingFullPersist, scan, knownBefore, storeVars>>

LoadFromCache ==
  /\ ~initialized /\ scan = "no" /\ saved
  /\ initialized' = TRUE
  /\ cache' = storeCache
  /\ unseen' = storeUnseen
  /\ fingerprint' = storeFingerprint
  /\ UNCHANGED <<remote, touchedPaths, pendingFullPersist, scan, knownBefore, storeVars>>

(* Mutant: "initialized" is set before the listing has come back. *)
BeginFullScanInitialized(kind) ==
  /\ scan = "no"
  /\ kind \in {"stat", "detect"} /\ ~initialized
  /\ saved => "loadFails" \in Events
  /\ scan' = kind
  /\ initialized' = TRUE
  /\ cache' = NoFiles
  /\ unseen' = {}
  /\ knownBefore' = {}
  /\ UNCHANGED <<remote, touchedPaths, pendingFullPersist, fingerprint, storeVars>>

(* The cursor is taken before the listing.  A scan starts because nothing  *)
(* can be loaded (asked for by a stat or by the fetch of a sync cycle), or *)
(* because the provider answered that the cursor in memory has expired; in *)
(* that case "initialized" stays TRUE while the cache is rebuilt.          *)
BeginFullScan(kind) ==
  /\ scan = "no"
  /\ \/ /\ kind \in {"stat", "detect"}
        /\ ~initialized
        /\ saved => "loadFails" \in Events
        /\ knownBefore' = {}
     \/ /\ kind = "expired"
        /\ "cursorExpires" \in Events
        /\ initialized
        /\ knownBefore' = FilesIn(cache)
  /\ scan' = kind
  /\ cache' = NoFiles
  /\ unseen' = {}
  /\ UNCHANGED <<remote, initialized, touchedPaths, pendingFullPersist, fingerprint,
                 storeVars>>

(* Mutant: the commit after a full scan is an incremental one. *)
EndFullScanIncremental ==
  /\ scan # "no"
  /\ cache' = remote
  /\ initialized' = TRUE
  /\ touchedPaths' = {}
  /\ scan' = "no"
  /\ knownBefore' = {}
  /\ UNCHANGED <<remote, unseen, pendingFullPersist, fingerprint, storeVars>>

EndFullScan ==
  /\ scan # "no"
  /\ cache' = remote
  /\ initialized' = TRUE
  /\ touchedPaths' = {}
  /\ pendingFullPersist' = TRUE
  /\ scan' = "no"
  /\ knownBefore' = {}
  /\ UNCHANGED <<remote, unseen, fingerprint, storeVars>>

(* The listing throws after the cache was cleared and the cursor taken.    *)
(* "initialized" is what it was: FALSE, unless the cursor had expired.     *)
ScanThrows ==
  /\ scan # "no"
  /\ (IF scan = "expired" THEN "rescanThrows" ELSE "scanThrows") \in Events
  /\ scan' = "no"
  /\ knownBefore' = {}
  /\ unseen' = IF initialized THEN unseen ELSE {}
  /\ UNCHANGED <<remote, initialized, cache, touchedPaths, pendingFullPersist,
                 fingerprint, storeVars>>

-----------------------------------------------------------------------------
(* The delta: _applyIncrementalChanges over a provider's feed. *)

(* A tombstone whose id the cache does not know is dropped, so of the      *)
(* unseen paths only those the cache or the provider knows are reported.   *)
Reported == {p \in unseen : cache[p] # Absent \/ remote[p] # Absent}

CacheWithDelta(paths) == [p \in Path |-> IF p \in paths THEN remote[p] ELSE cache[p]]

FetchDelta ==
  /\ initialized /\ scan = "no"
  /\ cache' = CacheWithDelta(unseen)
  /\ touchedPaths' = touchedPaths \cup Reported
  /\ unseen' = {}
  /\ UNCHANGED <<remote, initialized, pendingFullPersist, fingerprint, scan,
                 knownBefore, storeVars>>

(* A delta of several pages is applied page by page to the live cache; a   *)
(* later page throws and the cursor stays where it was.                    *)
FetchPageThenThrow(page) ==
  /\ "pageThrows" \in Events
  /\ initialized /\ scan = "no"
  /\ page \in SUBSET unseen /\ page # {}
  /\ cache' = CacheWithDelta(page)
  /\ UNCHANGED <<remote, initialized, unseen, touchedPaths, pendingFullPersist,
                 fingerprint, scan, knownBefore, storeVars>>

(* What the rescan after an expired cursor reports: ids that came or went, *)
(* and nothing when the cache was empty.  A changed file keeps its id.     *)
ReportedAfterExpiry ==
  {p \in Path : knownBefore # {} /\ (p \in knownBefore) # (remote[p] # Absent)}

-----------------------------------------------------------------------------
(* Mutations the engine asks for. *)

WriteFile(p, v) ==
  /\ initialized /\ scan = "no"
  /\ v # Absent
  /\ RemoteBecomes(p, v)
  /\ cache' = [cache EXCEPT ![p] = v]
  /\ UNCHANGED <<initialized, touchedPaths, pendingFullPersist, fingerprint, scan,
                 knownBefore, saved, storeCache, storeFingerprint>>

(* Mutant: the path is not buffered for the next commit. *)
DeleteFileUnbuffered(p) ==
  /\ initialized /\ scan = "no"
  /\ cache[p] # Absent
  /\ RemoteBecomes(p, Absent)
  /\ cache' = [cache EXCEPT ![p] = Absent]
  /\ UNCHANGED <<initialized, touchedPaths, pendingFullPersist, fingerprint, scan,
                 knownBefore, saved, storeCache, storeFingerprint>>

DeleteFile(p) ==
  /\ initialized /\ scan = "no"
  /\ cache[p] # Absent
  /\ RemoteBecomes(p, Absent)
  /\ cache' = [cache EXCEPT ![p] = Absent]
  /\ touchedPaths' = touchedPaths \cup {p}
  /\ UNCHANGED <<initialized, pendingFullPersist, fingerprint, scan, knownBefore,
                 saved, storeCache, storeFingerprint>>

(* The file moves to another path.  Neither path is buffered for the next  *)
(* commit, and the feed will not report the old one, of which the cache    *)
(* knows nothing any more.                                                 *)
RenameFile(p, to, v) ==
  /\ "renames" \in Events
  /\ initialized /\ scan = "no"
  /\ p # to /\ cache[p] # Absent /\ v # Absent
  /\ remote' = [remote EXCEPT ![p] = Absent, ![to] = v]
  /\ cache' = [cache EXCEPT ![p] = Absent, ![to] = v]
  /\ unseen' = unseen \cup {p, to}
  /\ storeUnseen' = IF saved THEN storeUnseen \cup {p, to} ELSE storeUnseen
  /\ UNCHANGED <<initialized, touchedPaths, pendingFullPersist, fingerprint, scan,
                 knownBefore, saved, storeCache, storeFingerprint>>

(* A download answered 404, as the file has gone or is another one by now: *)
(* the entry is evicted.                                                   *)
ReadNotFound(p) ==
  /\ initialized /\ scan = "no"
  /\ cache[p] # Absent
  /\ remote[p] = Absent \/ p \in unseen
  /\ cache' = [cache EXCEPT ![p] = Absent]
  /\ touchedPaths' = touchedPaths \cup {p}
  /\ UNCHANGED <<remote, initialized, unseen, pendingFullPersist, fingerprint, scan,
                 knownBefore, storeVars>>

-----------------------------------------------------------------------------
(* The checkpoint. *)

(* Mutant: a full scan is committed like a delta. *)
TouchedToStore ==
  [p \in Path |-> IF p \in touchedPaths THEN cache[p] ELSE storeCache[p]]

(* commitCache: the whole map after a full scan, else the touched paths    *)
(* reconciled against the live cache.                                      *)
CacheToStore ==
  [p \in Path |-> IF pendingFullPersist \/ p \in touchedPaths THEN cache[p]
                                                             ELSE storeCache[p]]

CommitCheckpoint(fp) ==
  /\ initialized /\ scan = "no"
  /\ fingerprint' = fp
  /\ storeFingerprint' = fp
  /\ saved' = TRUE
  /\ storeCache' = CacheToStore
  /\ storeUnseen' = unseen
  /\ pendingFullPersist' = FALSE
  /\ touchedPaths' = {}
  /\ UNCHANGED <<remote, initialized, cache, unseen, scan, knownBefore>>

(* The transaction fails: nothing lands, but the fingerprint in memory was *)
(* set before it.                                                          *)
CommitThrows(fp) ==
  /\ "commitThrows" \in Events
  /\ initialized /\ scan = "no"
  /\ fingerprint' = fp
  /\ UNCHANGED <<remote, initialized, cache, unseen, touchedPaths, pendingFullPersist,
                 scan, knownBefore, storeVars>>

ResetCheckpoint ==
  /\ scan = "no"
  /\ saved' = FALSE
  /\ storeCache' = NoFiles
  /\ storeUnseen' = {}
  /\ storeFingerprint' = NoFingerprint
  /\ FreshMemory
  /\ UNCHANGED remote

(* hasCheckpoint and getScopeFingerprint: the field in memory once         *)
(* initialized, else a peek into the store.                                *)
HasCheckpoint == initialized \/ saved
PeekFingerprint == IF initialized THEN fingerprint ELSE storeFingerprint

(* The plugin is unloaded or killed, and built again over the same store. *)
Restart == FreshMemory /\ UNCHANGED <<remote, storeVars>>

-----------------------------------------------------------------------------
(* Any caller, in any order. *)

FsNext ==
  \/ \E p \in Path, v \in Version : OthersChange(p, v)
  \/ LoadFromCache
  \/ \E kind \in ScanKinds : BeginFullScan(kind)
  \/ EndFullScan
  \/ ScanThrows
  \/ FetchDelta
  \/ \E page \in SUBSET Path : FetchPageThenThrow(page)
  \/ \E p \in Path, v \in Version : WriteFile(p, v)
  \/ \E p \in Path : DeleteFile(p)
  \/ \E p, to \in Path, v \in Version : RenameFile(p, to, v)
  \/ \E p \in Path : ReadNotFound(p)
  \/ \E fp \in Fingerprint \cup {NoFingerprint} : CommitCheckpoint(fp)
  \/ \E fp \in Fingerprint : CommitThrows(fp)
  \/ ResetCheckpoint
  \/ Restart

FsSpec == FsInit /\ [][FsNext]_fsVars

-----------------------------------------------------------------------------
(* The events under which cursor and file map are claimed to agree: the    *)
(* rescan after an expired cursor does not throw, no delta is torn between *)
(* two pages, and nothing is renamed.                                      *)
FaithfulEvents == {"rescanThrows", "pageThrows", "renames"} \cap Events = {}

(* The live cache agrees with the cursor in memory: a path a stat calls    *)
(* absent is absent, or its deletion is still to come in the feed          *)
(* (remote-fs.ts stat, list and getChangedPaths rest on it).               *)
CacheFaithful ==
  (initialized /\ scan = "no") =>
    \A p \in Path : p \in unseen \/ cache[p] = remote[p]

(* The committed file map agrees with the committed cursor: whatever the   *)
(* cursor will not report again, the map has right.  Restored after a      *)
(* restart, such a checkpoint replays to the truth; one that breaks this   *)
(* has forgotten a remote change for good (ADR 0001, Decision 3: the cache *)
(* is never committed ahead of, nor behind, the committed cursor).         *)
StoreFaithful ==
  saved => \A p \in Path : p \in storeUnseen \/ storeCache[p] = remote[p]

(* What survives of both when deltas are torn: the only thing cursor and   *)
(* map can have forgotten together is a deletion, so a map may hold a      *)
(* ghost but never an outdated copy of a file that still exists.           *)
MissesOnlyDeletions ==
  \A p \in Path :
    /\ saved => p \in storeUnseen \/ storeCache[p] = remote[p] \/ remote[p] = Absent
    /\ (initialized /\ scan = "no") =>
         p \in unseen \/ cache[p] = remote[p] \/ remote[p] = Absent

(* What an incremental commit relies on: a path that is neither buffered   *)
(* in touchedPaths nor about to be reported reads the same in the store.   *)
TouchedCoversDrift ==
  (initialized /\ saved /\ ~pendingFullPersist /\ scan = "no") =>
    \A p \in Path : \/ p \in touchedPaths
                    \/ storeCache[p] = cache[p]
                    \/ p \in unseen /\ cache[p] # Absent

(* Without a stored cursor the first commit writes the whole map. *)
FirstCommitIsFull == (initialized /\ ~saved) => pendingFullPersist

(* A map under reconstruction is never taken for a loaded one, unless the  *)
(* provider expired the cursor; and then the rescan ends.                  *)
ScanStates == /\ scan \in {"stat", "detect"} => ~initialized
              /\ scan = "expired" => initialized /\ "cursorExpires" \in Events
              /\ ~initialized => touchedPaths = {} /\ ~pendingFullPersist

(* The events under which nothing but a deletion can be forgotten: torn    *)
(* deltas and renames are allowed, a failed rescan is not.                 *)
NoFailedRescan == "rescanThrows" \notin Events

(* TouchedCoversDrift as torn deltas and renames leave it: what the store  *)
(* has of a path that is not buffered may be wrong if the path is to be    *)
(* reported, or if its file is gone.                                       *)
DriftIsDeletion ==
  (initialized /\ saved /\ ~pendingFullPersist /\ scan = "no") =>
    \A p \in Path : \/ p \in touchedPaths \cup unseen
                    \/ storeCache[p] = cache[p]
                    \/ remote[p] = Absent

FsInv == /\ FsTypeOK
         /\ ScanStates
         /\ FirstCommitIsFull
         /\ FaithfulEvents => CacheFaithful /\ TouchedCoversDrift /\ StoreFaithful
         /\ NoFailedRescan => MissesOnlyDeletions /\ DriftIsDeletion
=============================================================================
