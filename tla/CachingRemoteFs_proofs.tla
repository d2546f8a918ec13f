------------------------ MODULE CachingRemoteFs_proofs ------------------------
(***************************************************************************)
(* FsInv is an inductive invariant of the caching remote file system, for  *)
(* any paths, contents, fingerprints and events.  Where no delta is torn,  *)
(* no rescan of an expired cursor throws and nothing is renamed, it        *)
(* contains the agreement of cursor and file map, in memory and store.     *)
(***************************************************************************)
EXTENDS CachingRemoteFs, TLAPS

LEMMA NoFilesType == NoFiles \in [Path -> Version]
BY FsAssumption DEF NoFiles

LEMMA InitInv == FsInit => FsInv
BY FsAssumption, NoFilesType
DEF FsInit, FsInv, FsTypeOK, ScanStates, ScanKinds, FirstCommitIsFull, CacheFaithful,
    TouchedCoversDrift, StoreFaithful, MissesOnlyDeletions, DriftIsDeletion

(* Type correctness alone, action by action. *)
LEMMA TypeStep == FsTypeOK /\ [FsNext]_fsVars => FsTypeOK'
<1> SUFFICES ASSUME FsTypeOK, [FsNext]_fsVars PROVE FsTypeOK'
  OBVIOUS
<1> USE DEF FsTypeOK, ScanKinds
<1>1. ASSUME NEW p \in Path, NEW v \in Version, OthersChange(p, v) PROVE FsTypeOK'
  BY <1>1 DEF OthersChange, RemoteBecomes
<1>2. CASE LoadFromCache
  BY <1>2 DEF LoadFromCache, storeVars
<1>3. ASSUME NEW kind \in ScanKinds, BeginFullScan(kind) PROVE FsTypeOK'
  BY <1>3, NoFilesType DEF BeginFullScan, storeVars, FilesIn
<1>4. CASE EndFullScan
  BY <1>4 DEF EndFullScan, storeVars
<1>5. CASE ScanThrows
  BY <1>5 DEF ScanThrows, storeVars
<1>6. CASE FetchDelta
  BY <1>6 DEF FetchDelta, storeVars, CacheWithDelta, Reported
<1>7. ASSUME NEW page \in SUBSET Path, FetchPageThenThrow(page) PROVE FsTypeOK'
  BY <1>7 DEF FetchPageThenThrow, storeVars, CacheWithDelta
<1>8. ASSUME NEW p \in Path, NEW v \in Version, WriteFile(p, v) PROVE FsTypeOK'
  BY <1>8 DEF WriteFile, RemoteBecomes
<1>9. ASSUME NEW p \in Path, DeleteFile(p) PROVE FsTypeOK'
  BY <1>9, FsAssumption DEF DeleteFile, RemoteBecomes
<1>10. ASSUME NEW p \in Path, ReadNotFound(p) PROVE FsTypeOK'
  BY <1>10, FsAssumption DEF ReadNotFound, storeVars
<1>16. ASSUME NEW p \in Path, NEW to \in Path, NEW v \in Version, RenameFile(p, to, v)
       PROVE  FsTypeOK'
  BY <1>16, FsAssumption DEF RenameFile
<1>11. ASSUME NEW fp \in Fingerprint \cup {NoFingerprint}, CommitCheckpoint(fp) PROVE FsTypeOK'
  BY <1>11 DEF CommitCheckpoint, CacheToStore
<1>12. ASSUME NEW fp \in Fingerprint, CommitThrows(fp) PROVE FsTypeOK'
  BY <1>12 DEF CommitThrows, storeVars
<1>13. CASE ResetCheckpoint
  BY <1>13, NoFilesType DEF ResetCheckpoint, FreshMemory
<1>14. CASE Restart
  BY <1>14, NoFilesType DEF Restart, FreshMemory, storeVars
<1>15. CASE UNCHANGED fsVars
  BY <1>15 DEF fsVars, memVars, storeVars
<1> QED
  BY <1>1, <1>2, <1>3, <1>4, <1>5, <1>6, <1>7, <1>8, <1>9, <1>10, <1>11, <1>12, <1>13,
     <1>14, <1>15, <1>16 DEF FsNext

(* The states a scan may be in, and the first commit. *)
LEMMA ScanStep ==
  FsInv /\ [FsNext]_fsVars => ScanStates' /\ FirstCommitIsFull'
<1> SUFFICES ASSUME FsInv, [FsNext]_fsVars PROVE ScanStates' /\ FirstCommitIsFull'
  OBVIOUS
<1> USE DEF FsInv, FsTypeOK, ScanStates, FirstCommitIsFull, ScanKinds
<1>1. CASE \/ \E p \in Path, v \in Version : OthersChange(p, v) \/ WriteFile(p, v)
           \/ \E p \in Path : DeleteFile(p) \/ ReadNotFound(p)
  BY <1>1 DEF OthersChange, WriteFile, DeleteFile, ReadNotFound, storeVars
<1>8. ASSUME NEW p \in Path, NEW to \in Path, NEW v \in Version, RenameFile(p, to, v)
      PROVE  ScanStates' /\ FirstCommitIsFull'
  BY <1>8 DEF RenameFile
<1>2. CASE LoadFromCache \/ EndFullScan \/ ScanThrows
  BY <1>2 DEF LoadFromCache, EndFullScan, ScanThrows, storeVars
<1>3. ASSUME NEW kind \in ScanKinds, BeginFullScan(kind)
      PROVE  ScanStates' /\ FirstCommitIsFull'
  BY <1>3 DEF BeginFullScan, storeVars
<1>4. CASE FetchDelta \/ \E page \in SUBSET Path : FetchPageThenThrow(page)
  BY <1>4 DEF FetchDelta, FetchPageThenThrow, storeVars
<1>5. CASE \E fp \in Fingerprint \cup {NoFingerprint} : CommitCheckpoint(fp) \/ CommitThrows(fp)
  BY <1>5 DEF CommitCheckpoint, CommitThrows, storeVars
<1>6. CASE ResetCheckpoint \/ Restart
  BY <1>6 DEF ResetCheckpoint, Restart, FreshMemory, storeVars
<1>7. CASE UNCHANGED fsVars
  BY <1>7 DEF fsVars, memVars, storeVars
<1> HIDE DEF FsInv, FsTypeOK, ScanStates, FirstCommitIsFull, ScanKinds
<1> QED
  BY <1>1, <1>2, <1>3, <1>4, <1>5, <1>6, <1>7, <1>8 DEF FsNext

(* Cursor and map agree, of the paths one by one. *)
LEMMA FaithfulStep ==
  FsInv /\ FaithfulEvents /\ [FsNext]_fsVars
    => CacheFaithful' /\ TouchedCoversDrift' /\ StoreFaithful'
<1> DEFINE Goal == CacheFaithful /\ TouchedCoversDrift /\ StoreFaithful
<1> SUFFICES ASSUME FsInv, FaithfulEvents, [FsNext]_fsVars PROVE Goal'
  OBVIOUS
<1> USE DEF FsInv, FsTypeOK, ScanStates, FirstCommitIsFull, CacheFaithful,
            TouchedCoversDrift, StoreFaithful
<1>1. ASSUME NEW p \in Path, NEW v \in Version, OthersChange(p, v) PROVE Goal'
  BY <1>1 DEF OthersChange, RemoteBecomes
<1>2. CASE LoadFromCache
  BY <1>2 DEF LoadFromCache, storeVars
<1>3. ASSUME NEW kind \in ScanKinds, BeginFullScan(kind) PROVE Goal'
  BY <1>3 DEF BeginFullScan, storeVars
<1>4. CASE EndFullScan
  BY <1>4 DEF EndFullScan, storeVars
<1>5. CASE ScanThrows
  <2>1. scan # "expired"
    BY <1>5 DEF ScanThrows, FaithfulEvents
  <2>2. ~initialized
    BY <1>5, <2>1 DEF ScanThrows, ScanKinds
  <2> QED
    BY <1>5, <2>2 DEF ScanThrows, storeVars
<1>6. CASE FetchDelta
  BY <1>6 DEF FetchDelta, storeVars, CacheWithDelta, Reported
<1>7. ASSUME NEW page \in SUBSET Path, FetchPageThenThrow(page) PROVE Goal'
  BY <1>7 DEF FetchPageThenThrow, FaithfulEvents
<1>8. ASSUME NEW p \in Path, NEW v \in Version, WriteFile(p, v) PROVE Goal'
  BY <1>8 DEF WriteFile, RemoteBecomes
<1>9. ASSUME NEW p \in Path, DeleteFile(p) PROVE Goal'
  BY <1>9 DEF DeleteFile, RemoteBecomes
<1>10. ASSUME NEW p \in Path, ReadNotFound(p) PROVE Goal'
  BY <1>10 DEF ReadNotFound, storeVars
<1>16. ASSUME NEW p \in Path, NEW to \in Path, NEW v \in Version, RenameFile(p, to, v)
       PROVE  Goal'
  BY <1>16 DEF RenameFile, FaithfulEvents
<1>11. ASSUME NEW fp \in Fingerprint \cup {NoFingerprint}, CommitCheckpoint(fp) PROVE Goal'
  BY <1>11 DEF CommitCheckpoint, CacheToStore
<1>12. ASSUME NEW fp \in Fingerprint, CommitThrows(fp) PROVE Goal'
  BY <1>12 DEF CommitThrows, storeVars
<1>13. CASE ResetCheckpoint
  BY <1>13 DEF ResetCheckpoint, FreshMemory
<1>14. CASE Restart
  BY <1>14 DEF Restart, FreshMemory, storeVars
<1>15. CASE UNCHANGED fsVars
  BY <1>15 DEF fsVars, memVars, storeVars
<1> HIDE DEF FsInv, FsTypeOK, ScanStates, FirstCommitIsFull, CacheFaithful,
             TouchedCoversDrift, StoreFaithful, Goal
<1> QED
  BY <1>1, <1>2, <1>3, <1>4, <1>5, <1>6, <1>7, <1>8, <1>9, <1>10, <1>11, <1>12, <1>13,
     <1>14, <1>15, <1>16 DEF FsNext

(* With torn deltas and renames only deletions are forgotten. *)
LEMMA DeletionsStep ==
  FsInv /\ NoFailedRescan /\ [FsNext]_fsVars => MissesOnlyDeletions' /\ DriftIsDeletion'
<1> DEFINE Goal == MissesOnlyDeletions /\ DriftIsDeletion
<1> SUFFICES ASSUME FsInv, NoFailedRescan, [FsNext]_fsVars PROVE Goal'
  OBVIOUS
<1> USE DEF FsInv, FsTypeOK, ScanStates, FirstCommitIsFull, MissesOnlyDeletions,
            DriftIsDeletion
<1>1. ASSUME NEW p \in Path, NEW v \in Version, OthersChange(p, v) PROVE Goal'
  BY <1>1 DEF OthersChange, RemoteBecomes
<1>2. CASE LoadFromCache
  BY <1>2 DEF LoadFromCache, storeVars
<1>3. ASSUME NEW kind \in ScanKinds, BeginFullScan(kind) PROVE Goal'
  BY <1>3 DEF BeginFullScan, storeVars
<1>4. CASE EndFullScan
  BY <1>4 DEF EndFullScan, storeVars
<1>5. CASE ScanThrows
  <2>1. ~initialized
    BY <1>5 DEF ScanThrows, NoFailedRescan, ScanKinds
  <2> QED
    BY <1>5, <2>1 DEF ScanThrows, storeVars
<1>6. CASE FetchDelta
  BY <1>6 DEF FetchDelta, storeVars, CacheWithDelta, Reported
<1>7. ASSUME NEW page \in SUBSET Path, FetchPageThenThrow(page) PROVE Goal'
  BY <1>7 DEF FetchPageThenThrow, storeVars, CacheWithDelta
<1>8. ASSUME NEW p \in Path, NEW v \in Version, WriteFile(p, v) PROVE Goal'
  BY <1>8 DEF WriteFile, RemoteBecomes
<1>9. ASSUME NEW p \in Path, DeleteFile(p) PROVE Goal'
  BY <1>9 DEF DeleteFile, RemoteBecomes
<1>10. ASSUME NEW p \in Path, ReadNotFound(p) PROVE Goal'
  BY <1>10 DEF ReadNotFound, storeVars
<1>11. ASSUME NEW p \in Path, NEW to \in Path, NEW v \in Version, RenameFile(p, to, v)
       PROVE  Goal'
  BY <1>11 DEF RenameFile
<1>12. ASSUME NEW fp \in Fingerprint \cup {NoFingerprint}, CommitCheckpoint(fp) PROVE Goal'
  BY <1>12 DEF CommitCheckpoint, CacheToStore
<1>13. ASSUME NEW fp \in Fingerprint, CommitThrows(fp) PROVE Goal'
  BY <1>13 DEF CommitThrows, storeVars
<1>14. CASE ResetCheckpoint \/ Restart
  BY <1>14 DEF ResetCheckpoint, Restart, FreshMemory, storeVars
<1>15. CASE UNCHANGED fsVars
  BY <1>15 DEF fsVars, memVars, storeVars
<1> HIDE DEF FsInv, FsTypeOK, ScanStates, FirstCommitIsFull, MissesOnlyDeletions,
             DriftIsDeletion, Goal
<1> QED
  BY <1>1, <1>2, <1>3, <1>4, <1>5, <1>6, <1>7, <1>8, <1>9, <1>10, <1>11, <1>12, <1>13,
     <1>14, <1>15 DEF FsNext

(* The inductive invariant: types, the states of a scan, and the agreement *)
(* of the cursor with the file map (remote-fs.ts, the whole class).        *)
THEOREM FsInvariant == FsSpec => []FsInv
<1>1. FsInit => FsInv
  BY InitInv
<1>2. FsInv /\ [FsNext]_fsVars => FsInv'
  BY TypeStep, ScanStep, FaithfulStep, DeletionsStep
  DEF FsInv, FaithfulEvents, NoFailedRescan
<1> QED
  BY <1>1, <1>2, PTL DEF FsSpec

(* Whatever cycle of scans, deltas, mutations, commits, failed commits and *)
(* restarts ran, the committed map is right about everything the committed *)
(* cursor will not report again (ADR 0001, Decision 3).                    *)
THEOREM CheckpointIsFaithful ==
  ASSUME FaithfulEvents PROVE FsSpec => []StoreFaithful
<1>1. FsInv => StoreFaithful
  BY DEF FsInv
<1> QED
  BY <1>1, FsInvariant, PTL

(* And the live map about everything the cursor in memory will not report. *)
THEOREM MemoryIsFaithful ==
  ASSUME FaithfulEvents PROVE FsSpec => []CacheFaithful
<1>1. FsInv => CacheFaithful
  BY DEF FsInv
<1> QED
  BY <1>1, FsInvariant, PTL

(* What an incremental commit leaves out reads the same in the store.      *)
THEOREM TouchedIsEnough ==
  ASSUME FaithfulEvents PROVE FsSpec => []TouchedCoversDrift
<1>1. FsInv => TouchedCoversDrift
  BY DEF FsInv
<1> QED
  BY <1>1, FsInvariant, PTL

(* With deltas torn between two pages and files renamed, cursor and map    *)
(* can still have forgotten nothing but a deletion: no outdated copy of an *)
(* existing file is ever taken for current (remote-fs.ts, whose pages are  *)
(* applied to the live cache before the cursor moves).                     *)
THEOREM OnlyDeletionsMissed ==
  ASSUME NoFailedRescan PROVE FsSpec => []MissesOnlyDeletions
<1>1. FsInv => MissesOnlyDeletions
  BY DEF FsInv
<1> QED
  BY <1>1, FsInvariant, PTL
=============================================================================
