----------------------------- MODULE SyncCycle -----------------------------
(***************************************************************************)
(* One device's sync engine (src/src/sync/orchestrator.ts and the pipeline *)
(* it drives: change-detector.ts, decision-engine.ts, deletion-guard.ts,   *)
(* plan-executor.ts, state-committer.ts) over one caching remote file      *)
(* system.  A cycle starts, detects (hot, warm or cold), plans, executes   *)
(* its actions one by one in any order the phases allow, and completes;    *)
(* between any two steps the user edits local files, other devices edit    *)
(* remote ones, an action, a fetch or a commit fails, or the process dies. *)
(*                                                                         *)
(* A SyncRecord is the pair of contents it baselines, [l, r].              *)
(***************************************************************************)
EXTENDS CachingRemoteFs, FiniteSets

CONSTANTS MaxTick,        \* bound: the contents written, over both sides
          MaxEvents,      \* bound: faults and outside events
          MaxRetries,     \* orchestrator.ts MAX_RETRIES
          MaxDeletions,   \* settings.maxDeletionsPerSync, 0 = no limit
          VelocityBlocks, \* the answers the rolling deletion window may give
          ListingFloor    \* deletion-guard.ts: baselines below this are not judged

ASSUME CycleAssumption ==
  /\ MaxTick \in Nat \ {0} /\ MaxEvents \in Nat
  /\ Absent = 0 /\ Version = 0..MaxTick
  /\ Fingerprint \subseteq SUBSET Path
  /\ MaxRetries \in Nat \ {0}
  /\ VelocityBlocks \subseteq BOOLEAN /\ VelocityBlocks # {}

VARIABLES
  local,               \* the vault's files
  rec,                 \* SyncStateStore: the SyncRecord of each path
  dirty,               \* LocalChangeTracker.dirtyPaths
  trackerInitialized,  \* LocalChangeTracker.initialized
  recoverViaColdScan,  \* SyncOrchestrator.recoverViaColdScan
  pendingDeletions,    \* SyncOrchestrator.pendingDeletions
  approved,            \* SyncOrchestrator.approvedDeletionKeys
  scope,               \* the paths the settings let sync: what the fingerprint digests
  direct,              \* DirectDeleteConfirmModal: what is left of a deletion of each path
  pc,                  \* where the cycle stands
  cycle,               \* the locals of runSync: forced, attempt, snapshot, fingerprint
  plan,                \* the action still to be executed at each path
  failed,              \* result.failed is not empty
  coldNeeded,          \* needsColdRecovery(result)
  tick,                \* edits so far; the latest content written by anybody
  events               \* faults and outside events so far

engineVars == <<local, rec, dirty, trackerInitialized, recoverViaColdScan,
                pendingDeletions, approved, scope, direct, pc, cycle, plan, failed,
                coldNeeded>>
vars == <<fsVars, engineVars, tick, events>>

NoRecord == [l |-> Absent, r |-> Absent]
NoPlan   == [p \in Path |-> "none"]
NoCycle  == [forced |-> FALSE, attempt |-> 0, dirty |-> {}, warmedUp |-> FALSE,
             fingerprint |-> NoFingerprint]

Transfers == {"push", "pull", "match", "cleanup"}
Conflicts == {"conflict", "keep_local", "keep_remote"}
Deletions == {"delete_local", "delete_remote"}
Actions   == Transfers \cup Conflicts \cup Deletions
Blockable == {"push", "delete_remote"}

DirectStages == {"no", "commit", "record", "vault"}
NoDirect == [p \in Path |-> "no"]

CycleType == [forced : BOOLEAN, attempt : 0..MaxRetries, dirty : SUBSET Path,
              warmedUp : BOOLEAN, fingerprint : Fingerprint \cup {NoFingerprint}]

EngineTypeOK ==
  /\ local \in [Path -> Version]
  /\ rec \in [Path -> [l : Version, r : Version]]
  /\ dirty \in SUBSET Path
  /\ trackerInitialized \in BOOLEAN
  /\ recoverViaColdScan \in BOOLEAN
  /\ pendingDeletions \in SUBSET (Deletions \X Path)
  /\ approved \in SUBSET (Deletions \X Path)
  /\ scope \in Fingerprint
  /\ direct \in [Path -> DirectStages]
  /\ pc \in {"idle", "detect", "exec"}
  /\ cycle \in CycleType
  /\ plan \in [Path -> Actions \cup {"none"}]
  /\ failed \in BOOLEAN
  /\ coldNeeded \in BOOLEAN
  /\ tick \in 0..MaxTick
  /\ events \in 0..MaxEvents

TypeOK == FsTypeOK /\ EngineTypeOK

(* The plugin is installed over a vault and a remote folder that may each  *)
(* hold files already, content 1.                                          *)
Init ==
  /\ FsInit /\ remote \in [Path -> {Absent, 1}]
  /\ local \in [Path -> {Absent, 1}]
  /\ rec = [p \in Path |-> NoRecord]
  /\ dirty = {}
  /\ trackerInitialized = FALSE
  /\ recoverViaColdScan = FALSE
  /\ pendingDeletions = {}
  /\ approved = {}
  /\ scope \in Fingerprint
  /\ direct = NoDirect
  /\ pc = "idle"
  /\ cycle = NoCycle
  /\ plan = NoPlan
  /\ failed = FALSE
  /\ coldNeeded = FALSE
  /\ tick = 1
  /\ events = 0

(* An event of the environment that this instance allows, counted. *)
Event(kind) == /\ kind \in Events
               /\ events < MaxEvents
               /\ events' = events + 1
               /\ UNCHANGED tick
Quiet == UNCHANGED <<tick, events>>

-----------------------------------------------------------------------------
(* The vault and the other devices. *)

(* A vault event marks the path dirty, whoever wrote the file: the handler *)
(* does not tell the user's edit from the engine's own download.           *)
LocalBecomes(p, v) ==
  /\ local' = [local EXCEPT ![p] = v]
  /\ dirty' = IF p \in scope THEN dirty \cup {p} ELSE dirty

FreshContent == {tick + 1, Absent}

EditLocal(p) ==
  /\ tick < MaxTick /\ tick' = tick + 1
  /\ \E v \in FreshContent : v # local[p] /\ LocalBecomes(p, v)
  /\ UNCHANGED <<fsVars, rec, trackerInitialized, recoverViaColdScan, pendingDeletions,
                 approved, scope, direct, pc, cycle, plan, failed, coldNeeded, events>>

EditRemote(p) ==
  /\ tick < MaxTick /\ tick' = tick + 1
  /\ \E v \in FreshContent : OthersChange(p, v)
  /\ UNCHANGED <<engineVars, events>>

-----------------------------------------------------------------------------
(* Starting and ending a cycle: runSync and executeWithRetry. *)

(* Mutant: a changed scope does not force a full reconcile. *)
StartCycleInAnyScope ==
  /\ pc = "idle"
  /\ pc' = "detect"
  /\ cycle' = [forced |-> ~HasCheckpoint \/ recoverViaColdScan, attempt |-> 1,
               dirty |-> dirty, warmedUp |-> trackerInitialized, fingerprint |-> scope]
  /\ Quiet
  /\ UNCHANGED <<fsVars, local, rec, dirty, trackerInitialized, recoverViaColdScan,
                 pendingDeletions, approved, scope, direct, plan, failed, coldNeeded>>

StartCycle ==
  /\ pc = "idle"
  /\ pc' = "detect"
  /\ cycle' = [forced      |-> \/ ~HasCheckpoint
                               \/ recoverViaColdScan
                               \/ PeekFingerprint # scope,
               attempt     |-> 1,
               dirty       |-> dirty,
               warmedUp    |-> trackerInitialized,
               fingerprint |-> scope]
  /\ Quiet
  /\ UNCHANGED <<fsVars, local, rec, dirty, trackerInitialized, recoverViaColdScan,
                 pendingDeletions, approved, scope, direct, plan, failed, coldNeeded>>

(* The locals of the cycle and of its result are gone. *)
ReturnFromCycle == /\ pc' = "idle"
                   /\ cycle' = NoCycle
                   /\ plan' = NoPlan
                   /\ failed' = FALSE
                   /\ coldNeeded' = FALSE

(* Mutant: one attempt too many. *)
RetryOrGiveUpLate ==
  \/ /\ cycle.attempt <= MaxRetries
     /\ pc' = "detect"
     /\ cycle' = [cycle EXCEPT !.attempt = @ + 1]
     /\ plan' = NoPlan /\ failed' = FALSE /\ coldNeeded' = FALSE
  \/ ReturnFromCycle

(* executeSyncOnce threw.  What decideRetry retries has the forced flag,   *)
(* snapshot and fingerprint serve another attempt; an abort (401, 403), a  *)
(* stop (404) and the last attempt return null, which acknowledges nothing *)
(* and sets no recovery flag.                                              *)
RetryOrGiveUp ==
  \/ /\ cycle.attempt < MaxRetries
     /\ pc' = "detect"
     /\ cycle' = [cycle EXCEPT !.attempt = @ + 1]
     /\ plan' = NoPlan /\ failed' = FALSE /\ coldNeeded' = FALSE
  \/ ReturnFromCycle

-----------------------------------------------------------------------------
(* Detection and planning: collectChanges, planSync, the deletion guards. *)

Temperature ==
  IF ~cycle.forced /\ cycle.warmedUp /\ cycle.dirty # {} THEN "hot"
  ELSE IF cycle.forced \/ \A p \in Path : rec[p] = NoRecord THEN "cold" ELSE "warm"

HeldPaths == {held[2] : held \in pendingDeletions}

(* The paths an entry is built for; what is out of scope is never looked at. *)
Candidates(reported) ==
  scope \cap
    CASE Temperature = "hot"  -> cycle.dirty \cup reported \cup HeldPaths
      [] Temperature = "warm" -> {p \in Path : local[p] # rec[p].l} \cup reported \cup HeldPaths
      [] Temperature = "cold" -> Path

(* decideAction.  A conflict one of whose sides is absent goes to the side *)
(* that is there, whatever the strategy (conflict.ts keepNewer, duplicate).*)
Decide(L, R, base) ==
  IF base = NoRecord
  THEN CASE L # Absent /\ R = Absent -> "push"
         [] L = Absent /\ R # Absent -> "pull"
         [] L # Absent /\ R # Absent -> IF L = R THEN "match" ELSE "conflict"
         [] OTHER                    -> "none"
  ELSE CASE L # Absent /\ R # Absent ->
              (CASE L # base.l /\ R # base.r -> "conflict"
                 [] L # base.l /\ R = base.r -> "push"
                 [] L = base.l /\ R # base.r -> "pull"
                 [] OTHER                    -> "none")
         [] L # Absent /\ R = Absent -> IF L # base.l THEN "keep_local" ELSE "delete_local"
         [] L = Absent /\ R # Absent -> IF R # base.r THEN "keep_remote" ELSE "delete_remote"
         [] OTHER                    -> "cleanup"

Planned(reported, seen) ==
  [p \in Path |-> IF p \in Candidates(reported) THEN Decide(local[p], seen[p], rec[p])
                                                ELSE "none"]

(* enforceListingCompleteness, on a cold scan's entries. *)
SuspiciousListing(seen) ==
  LET base      == Cardinality({p \in scope : rec[p] # NoRecord})
      threshold == base \div 2
  IN  /\ Temperature = "cold"
      /\ base >= ListingFloor
      /\ \/ Cardinality(scope \cap FilesIn(local)) < threshold
         \/ Cardinality(scope \cap FilesIn(seen)) < threshold

(* splitPlanAtLimit: all unapproved deletions are held, or none. *)
Unapproved(planned) ==
  {d \in Deletions \X Path : planned[d[2]] = d[1]} \ approved

Hold(planned, velocityBlocked) ==
  /\ Unapproved(planned) # {}
  /\ \/ velocityBlocked
     \/ MaxDeletions > 0 /\ Cardinality(Unapproved(planned)) > MaxDeletions

(* The plan that is executed: no held deletion, and none of the actions    *)
(* FailedActionTracker blocks after repeated permanent failures (which     *)
(* ones those are is left open, they are pushes and remote deletions).     *)
PlanFrom(reported, seen) ==
  LET planned == Planned(reported, seen)
  IN  \E velocityBlocked \in VelocityBlocks,
         blocked \in SUBSET (IF "quarantine" \in Events
                             THEN {p \in Path : planned[p] \in Blockable} ELSE {}) :
        LET held == IF Hold(planned, velocityBlocked) THEN Unapproved(planned) ELSE {}
        IN  /\ pendingDeletions' = held
            /\ plan' = [p \in Path |-> IF <<planned[p], p>> \in held \/ p \in blocked
                                       THEN "none" ELSE planned[p]]

(* The rest of executeSyncOnce up to executePlan, given what the fetch     *)
(* reported and the remote files it left in the cache.                     *)
DetectAndPlan(reported, seen) ==
  \/ /\ ~SuspiciousListing(seen)
     /\ PlanFrom(reported, seen)
     /\ pc' = "exec"
     /\ failed' = FALSE /\ coldNeeded' = FALSE
     /\ Quiet
     /\ UNCHANGED <<local, rec, dirty, trackerInitialized, recoverViaColdScan,
                    approved, scope, direct, cycle>>
  \/ /\ SuspiciousListing(seen)
     /\ recoverViaColdScan' = FALSE
     /\ ReturnFromCycle
     /\ Quiet
     /\ UNCHANGED <<local, rec, dirty, trackerInitialized, pendingDeletions, approved,
                    scope, direct>>

(* ensureInitialized found the memory filled: the delta is replayed.  The  *)
(* reads of one detection are one step; they are of different files or of  *)
(* different sides, so a change that falls between two of them is a change *)
(* before or after them all.                                               *)
DetectByDelta ==
  /\ pc = "detect"
  /\ FetchDelta
  /\ DetectAndPlan(Reported, CacheWithDelta(unseen))

(* It had to scan: getChangedPaths returns null. *)
DetectByScan ==
  /\ pc = "detect" /\ scan = "detect"
  /\ EndFullScan
  /\ DetectAndPlan({}, remote)

(* The cursor had expired: the delta is the difference of two listings. *)
DetectByRescan ==
  /\ pc = "detect" /\ scan = "expired"
  /\ EndFullScan
  /\ DetectAndPlan(ReportedAfterExpiry, remote)

(* Steps of the file system outside or at the start of a detection. *)
FileSystemStep ==
  /\ \/ pc \in {"idle", "detect"} /\ LoadFromCache
     \/ pc = "idle" /\ BeginFullScan("stat")
     \/ pc = "detect" /\ \E kind \in {"detect", "expired"} : BeginFullScan(kind)
     \/ scan = "stat" /\ EndFullScan
  /\ Quiet
  /\ UNCHANGED engineVars

(* The fetch fails, before the cursor moved. *)
FetchFails ==
  /\ pc = "detect" /\ Event("fetchFails")
  /\ RetryOrGiveUp
  /\ UNCHANGED <<fsVars, local, rec, dirty, trackerInitialized, recoverViaColdScan,
                 pendingDeletions, approved, scope, direct>>

(* It fails in the middle of a listing or of a delta. *)
FetchBreaks ==
  /\ pc = "detect"
  /\ \/ scan \in {"detect", "expired"} /\ ScanThrows /\ Event(IF scan = "expired"
                                                             THEN "rescanThrows" ELSE "scanThrows")
     \/ \E page \in SUBSET Path : FetchPageThenThrow(page) /\ Event("pageThrows")
  /\ RetryOrGiveUp
  /\ UNCHANGED <<local, rec, dirty, trackerInitialized, recoverViaColdScan,
                 pendingDeletions, approved, scope, direct>>

StatScanThrows ==
  /\ scan = "stat" /\ ScanThrows /\ Event("scanThrows")
  /\ UNCHANGED engineVars

(* The fetch or the scan is through and the cursor moved; then a stat, a   *)
(* listing of the vault or the state store throws.                         *)
DetectThrows ==
  /\ pc = "detect" /\ Event("detectThrows")
  /\ FetchDelta \/ (scan # "no" /\ EndFullScan)
  /\ RetryOrGiveUp
  /\ UNCHANGED <<local, rec, dirty, trackerInitialized, recoverViaColdScan,
                 pendingDeletions, approved, scope, direct>>

-----------------------------------------------------------------------------
(* Execution: executePlan, runActionIO, commitAction. *)

Phase(action) == CASE action \in Transfers -> 1
                   [] action \in Conflicts -> 2
                   [] action \in Deletions -> 3

(* One of the actions of the earliest phase that has any left. *)
Runs(p) == /\ pc = "exec"
           /\ plan[p] # "none"
           /\ \A q \in Path : plan[q] # "none" => Phase(plan[p]) <= Phase(plan[q])

SetRecord(p, l, r) == rec' = [rec EXCEPT ![p] = [l |-> l, r |-> r]]
DropRecord(p) == rec' = [rec EXCEPT ![p] = NoRecord]

KeepLocalFile == UNCHANGED <<local, dirty>>

(* Each action at its I/O and its commit. *)
Push(p) == /\ local[p] # Absent
           /\ WriteFile(p, local[p])
           /\ KeepLocalFile
           /\ SetRecord(p, local[p], local[p])

(* A download needs the file and its entry.  It is of the current content, *)
(* the record's remote side of the cached entry;                           *)
(* assertLocalUnchangedSincePlan stands before the overwrite.              *)
Readable(p) == remote[p] # Absent /\ cache[p] # Absent

Pull(p) == /\ Readable(p)
           /\ local[p] = rec[p].l
           /\ LocalBecomes(p, remote[p])
           /\ SetRecord(p, remote[p], cache[p])
           /\ UNCHANGED fsVars

Match(p) == /\ SetRecord(p, cache[p], cache[p])
            /\ KeepLocalFile
            /\ UNCHANGED fsVars

Cleanup(p) == DropRecord(p) /\ KeepLocalFile /\ UNCHANGED fsVars

(* Both sides wrote: the winner's content goes to the other side.  The     *)
(* loser's is kept in a sibling file, which is a path of its own.          *)
KeepRemote(p) == /\ Readable(p)
                 /\ LocalBecomes(p, remote[p])
                 /\ SetRecord(p, remote[p], cache[p])
                 /\ UNCHANGED fsVars

DeleteRemote(p) == /\ IF cache[p] = Absent THEN UNCHANGED fsVars ELSE DeleteFile(p)
                   /\ KeepLocalFile
                   /\ DropRecord(p)

DeleteLocal(p) == /\ LocalBecomes(p, Absent)
                  /\ DropRecord(p)
                  /\ UNCHANGED fsVars

Perform(p) ==
  \/ plan[p] = "push" /\ Push(p)
  \/ plan[p] = "pull" /\ Pull(p)
  \/ plan[p] = "match" /\ Match(p)
  \/ plan[p] = "cleanup" /\ Cleanup(p)
  \/ plan[p] = "keep_local" /\ Push(p)
  \/ plan[p] = "keep_remote" /\ KeepRemote(p)
  \/ plan[p] = "conflict" /\ local[p] # Absent /\ Readable(p) /\ (Push(p) \/ KeepRemote(p))
  \/ plan[p] = "delete_remote" /\ DeleteRemote(p)
  \/ plan[p] = "delete_local" /\ DeleteLocal(p)

Done(p) == plan' = [plan EXCEPT ![p] = "none"]

ExecuteAction(p) ==
  /\ Runs(p)
  /\ Perform(p)
  /\ Done(p)
  /\ Quiet
  /\ UNCHANGED <<trackerInitialized, recoverViaColdScan, pendingDeletions, approved,
                 scope, direct, pc, cycle, failed, coldNeeded>>

(* Mutant: a failed action never asks for a cold reconcile. *)
RecordFailureWarm(p, cold) ==
  /\ Done(p)
  /\ failed' = TRUE
  /\ UNCHANGED <<trackerInitialized, recoverViaColdScan, pendingDeletions, approved,
                 scope, direct, pc, cycle, coldNeeded>>

(* result.failed gains the action; unless it is a repeated permanent       *)
(* failure of a blockable one, the next cycle is forced cold.              *)
RecordFailure(p, cold) ==
  /\ Done(p)
  /\ failed' = TRUE
  /\ coldNeeded' = (coldNeeded \/ cold)
  /\ UNCHANGED <<trackerInitialized, recoverViaColdScan, pendingDeletions, approved,
                 scope, direct, pc, cycle>>

ReadsRemote == {"pull", "keep_remote", "conflict"}
ReadsLocal  == {"push", "keep_local", "conflict"}

(* What the plan relies on is gone: the local file, the remote one (its    *)
(* cache entry is evicted), or the unedited local file a pull replaces.    *)
ActionOvertaken(p) ==
  /\ Runs(p)
  /\ \/ plan[p] \in ReadsLocal /\ local[p] = Absent /\ UNCHANGED fsVars
     \/ /\ plan[p] \in ReadsRemote /\ ~Readable(p)
        /\ IF cache[p] = Absent THEN UNCHANGED fsVars ELSE ReadNotFound(p)
     \/ plan[p] = "pull" /\ Readable(p) /\ local[p] # rec[p].l /\ UNCHANGED fsVars
  /\ RecordFailure(p, TRUE)
  /\ Quiet
  /\ UNCHANGED <<local, rec, dirty>>

(* The network or the state store fails: before anything was done ...      *)
ActionFails(p) ==
  /\ Runs(p) /\ Event("actionFails")
  /\ RecordFailure(p, TRUE)
  /\ UNCHANGED <<fsVars, local, rec, dirty>>

(* ... after the I/O and before its record; of a remote mutation even the  *)
(* answer may have been lost, so that the cache does not know it either.   *)
ActionFailsLate(p) ==
  /\ Runs(p) /\ Event("actionFailsLate")
  /\ \/ /\ plan[p] \in {"push", "keep_local", "conflict"} /\ local[p] # Absent
        /\ \/ WriteFile(p, local[p])
           \/ OthersChange(p, local[p])
        /\ KeepLocalFile
     \/ /\ plan[p] \in {"pull", "keep_remote", "conflict"} /\ Readable(p)
        /\ plan[p] = "pull" => local[p] = rec[p].l
        /\ LocalBecomes(p, remote[p])
        /\ UNCHANGED fsVars
     \/ /\ plan[p] = "delete_remote"
        /\ DeleteFile(p) \/ OthersChange(p, Absent)
        /\ KeepLocalFile
     \/ /\ plan[p] = "delete_local"
        /\ LocalBecomes(p, Absent)
        /\ UNCHANGED fsVars
  /\ RecordFailure(p, TRUE)
  /\ UNCHANGED rec

(* A permanent refusal, not the first of this very action. *)
ActionRefused(p) ==
  /\ Runs(p) /\ plan[p] \in Blockable /\ Event("quarantine")
  /\ RecordFailure(p, FALSE)
  /\ UNCHANGED <<fsVars, local, rec, dirty>>

(* An AuthError leaves the cycle from any action. *)
AuthAbort ==
  /\ pc = "exec" /\ Event("authFails")
  /\ ReturnFromCycle
  /\ UNCHANGED <<fsVars, local, rec, dirty, trackerInitialized, recoverViaColdScan,
                 pendingDeletions, approved, scope, direct>>

-----------------------------------------------------------------------------
(* The end of executeSyncOnce and of the cycle. *)

Executed == pc = "exec" /\ plan = NoPlan

(* Mutant: a held deletion does not keep the checkpoint back. *)
NothingFailed == ~failed

CleanCycle == ~failed /\ pendingDeletions = {}

CommitIfClean == IF CleanCycle THEN CommitCheckpoint(cycle.fingerprint)
                               ELSE UNCHANGED fsVars

(* Mutant: the recovery flag is cleared by whatever cycle ends. *)
CompleteCycleRecovered ==
  /\ Executed
  /\ CommitIfClean
  /\ approved' = {}
  /\ recoverViaColdScan' = FALSE
  /\ dirty' = dirty \ cycle.dirty
  /\ trackerInitialized' = TRUE
  /\ ReturnFromCycle
  /\ Quiet
  /\ UNCHANGED <<local, rec, pendingDeletions, scope, direct>>

CompleteCycle ==
  /\ Executed
  /\ CommitIfClean
  /\ approved' = {}
  /\ recoverViaColdScan' = coldNeeded
  /\ dirty' = dirty \ cycle.dirty
  /\ trackerInitialized' = TRUE
  /\ ReturnFromCycle
  /\ Quiet
  /\ UNCHANGED <<local, rec, pendingDeletions, scope, direct>>

(* The checkpoint's transaction fails. *)
CommitFails ==
  /\ Executed /\ CleanCycle /\ Event("commitThrows")
  /\ CommitThrows(cycle.fingerprint)
  /\ approved' = {}
  /\ RetryOrGiveUp
  /\ UNCHANGED <<local, rec, dirty, trackerInitialized, recoverViaColdScan,
                 pendingDeletions, scope, direct>>

(* saveSettings throws, after the commit if there was one. *)
SaveSettingsFails ==
  /\ Executed /\ Event("saveFails")
  /\ CommitIfClean
  /\ approved' = {}
  /\ RetryOrGiveUp
  /\ UNCHANGED <<local, rec, dirty, trackerInitialized, recoverViaColdScan,
                 pendingDeletions, scope, direct>>

-----------------------------------------------------------------------------
(* What happens around the cycles. *)

(* Everything in memory is lost; the files and both stores stay.           *)
LoseMemory ==
  /\ Restart
  /\ dirty' = {}
  /\ trackerInitialized' = FALSE
  /\ recoverViaColdScan' = FALSE
  /\ pendingDeletions' = {}
  /\ approved' = {}
  /\ direct' = NoDirect
  /\ ReturnFromCycle
  /\ UNCHANGED <<local, rec, scope>>

(* At any moment, or only at one when the committed file map knows every   *)
(* file that has a SyncRecord: no push of a new file since the last commit.*)
Crash == Event("crash") /\ LoseMemory
Reload == /\ \A p \in Path : saved /\ rec[p] # NoRecord => storeCache[p] # Absent
          /\ Event("reload") /\ LoseMemory

ApproveDeletions ==
  /\ pendingDeletions # {} /\ approved # pendingDeletions
  /\ Event("approve")
  /\ approved' = pendingDeletions
  /\ UNCHANGED <<fsVars, local, rec, dirty, trackerInitialized, recoverViaColdScan,
                 pendingDeletions, scope, direct, pc, cycle, plan, failed, coldNeeded>>

SetScope(s) ==
  /\ s # scope
  /\ Event("setScope")
  /\ pc = "idle" \/ "scopeRace" \in Events
  /\ scope' = s
  /\ UNCHANGED <<fsVars, local, rec, dirty, trackerInitialized, recoverViaColdScan,
                 pendingDeletions, approved, direct, pc, cycle, plan, failed, coldNeeded>>

(* Mutant: the store is cleared, the file system object keeps its cursor. *)
RescanStoreOnly ==
  /\ pc = "idle" /\ Event("rescan")
  /\ scan = "no"
  /\ saved' = FALSE
  /\ storeCache' = NoFiles
  /\ storeUnseen' = {}
  /\ storeFingerprint' = NoFingerprint
  /\ UNCHANGED <<remote, memVars, engineVars>>

Rescan ==
  /\ pc = "idle" /\ Event("rescan")
  /\ ResetCheckpoint
  /\ UNCHANGED engineVars

(* pullSingle's check under the lock: a clean fast-forward, or nothing. *)
FastForward(p) ==
  /\ cache[p] # Absent
  /\ IF rec[p] = NoRecord THEN local[p] = Absent
     ELSE local[p] # Absent /\ local[p] = rec[p].l /\ cache[p] # rec[p].r

PullSingle(p) ==
  /\ pc = "idle" /\ initialized /\ scan = "no" /\ p \in scope
  /\ FastForward(p)
  /\ \/ /\ remote[p] # Absent
        /\ Event("fileOpen")
        /\ local' = [local EXCEPT ![p] = remote[p]]
        /\ dirty' = dirty \ {p}
        /\ SetRecord(p, remote[p], cache[p])
        /\ UNCHANGED fsVars
     \/ /\ remote[p] = Absent
        /\ Event("fileOpenMisses")
        /\ ReadNotFound(p)
        /\ UNCHANGED <<local, rec, dirty>>
  /\ UNCHANGED <<trackerInitialized, recoverViaColdScan, pendingDeletions, approved,
                 scope, direct, pc, cycle, plan, failed, coldNeeded>>

(* The user deletes a file from vault and cloud (executeDirectDelete):      *)
(* four steps, none of them under the orchestrator's lock.  The checkpoint *)
(* is committed as it is, whatever a cycle has left to do.                 *)
DirectGoesOn(p, stage) ==
  /\ direct' = [direct EXCEPT ![p] = stage]
  /\ UNCHANGED <<trackerInitialized, recoverViaColdScan, pendingDeletions, approved,
                 scope, pc, cycle, plan, failed, coldNeeded>>

DirectDelete(p) ==
  /\ Event("directDelete")
  /\ initialized /\ scan = "no" /\ local[p] # Absent /\ direct[p] = "no"
  /\ plan[p] # "match"   \* whose record is of the planned entries, gone by then
  /\ IF cache[p] = Absent THEN UNCHANGED fsVars ELSE DeleteFile(p)
  /\ DirectGoesOn(p, "commit")
  /\ UNCHANGED <<local, rec, dirty>>

DirectCommit(p) ==
  /\ direct[p] = "commit" /\ scan = "no"
  /\ IF initialized THEN CommitCheckpoint(fingerprint) ELSE UNCHANGED fsVars
  /\ DirectGoesOn(p, "record")
  /\ Quiet
  /\ UNCHANGED <<local, rec, dirty>>

DirectForget(p) ==
  /\ direct[p] = "record"
  /\ DropRecord(p)
  /\ DirectGoesOn(p, "vault")
  /\ Quiet
  /\ UNCHANGED <<fsVars, local, dirty>>

DirectVaultDelete(p) ==
  /\ direct[p] = "vault"
  /\ LocalBecomes(p, Absent)
  /\ DirectGoesOn(p, "no")
  /\ Quiet
  /\ UNCHANGED <<fsVars, rec>>

-----------------------------------------------------------------------------
Detect == DetectByDelta \/ DetectByScan \/ DetectByRescan

Execute == \E p \in Path : ExecuteAction(p) \/ ActionOvertaken(p)

Next ==
  \/ \E p \in Path : EditLocal(p)
  \/ \E p \in Path : EditRemote(p)
  \/ StartCycle
  \/ FileSystemStep
  \/ Detect
  \/ FetchFails
  \/ FetchBreaks
  \/ StatScanThrows
  \/ DetectThrows
  \/ Execute
  \/ \E p \in Path : ActionFails(p)
  \/ \E p \in Path : ActionFailsLate(p)
  \/ \E p \in Path : ActionRefused(p)
  \/ AuthAbort
  \/ CompleteCycle
  \/ CommitFails
  \/ SaveSettingsFails
  \/ Crash
  \/ Reload
  \/ ApproveDeletions
  \/ \E s \in Fingerprint : SetScope(s)
  \/ Rescan
  \/ \E p \in Path : PullSingle(p)
  \/ \E p \in Path : DirectDelete(p)
  \/ \E p \in Path : DirectCommit(p)
  \/ \E p \in Path : DirectForget(p)
  \/ \E p \in Path : DirectVaultDelete(p)

Spec == Init /\ [][Next]_vars

(* What the device does by itself it keeps doing: a request is answered or *)
(* fails, an action of a plan is run, and another cycle is triggered (each *)
(* vault event, coming online or to the foreground triggers one). Nothing  *)
(* is assumed of users, other devices or faults.                           *)
Fairness == /\ WF_vars(StartCycle)
            /\ WF_vars(FileSystemStep)
            /\ WF_vars(Detect)
            /\ WF_vars(Execute)
            /\ WF_vars(CompleteCycle)

FairSpec == Spec /\ Fairness

-----------------------------------------------------------------------------
(* What a restart may rely on: of every path in the committed scope, the   *)
(* SyncRecord baselines the remote content, unless the committed cursor    *)
(* will report the path.  The commit of a cycle that left a remote change  *)
(* unapplied would break it, and the change be lost for good (ADR 0001,    *)
(* rule A; orchestrator.ts cleanCycle).                                    *)
CheckpointHonest ==
  saved /\ storeFingerprint # NoFingerprint =>
    \A p \in storeFingerprint : p \in storeUnseen \/ rec[p].r = remote[p]

(* Part of it, of the files that exist on both sides: an edit of a remote  *)
(* file that the rescan after an expired cursor does not report is still   *)
(* caught later (remote-fs.ts diffById: by the next incremental sync or    *)
(* WARM mode's check).                                                     *)
RescanMissesNoEdit ==
  saved /\ storeFingerprint # NoFingerprint =>
    \A p \in storeFingerprint :
             (rec[p].r # Absent /\ remote[p] # Absent) =>
               p \in storeUnseen \/ rec[p].r = remote[p]

(* The same for the next cycle of this process, which starts from the      *)
(* cursor in memory: between cycles every path of the scope is baselined   *)
(* as cached, or still to be reported, or held for approval; otherwise     *)
(* the next cycle is forced cold (orchestrator.ts recoverViaColdScan).     *)
SessionHonest ==
  (pc = "idle" /\ initialized /\ scan = "no" /\ ~recoverViaColdScan
     /\ fingerprint # NoFingerprint) =>
    \A p \in fingerprint : p \in unseen \/ rec[p].r = cache[p] \/ p \in HeldPaths

(* A local file is deleted on evidence: at any time while the deletion is  *)
(* planned, the remote file is gone, or came back after the plan was made  *)
(* and is still to be reported (change-detector.ts confirmRemoteDeletions: *)
(* an incomplete listing cannot drive an erroneous delete_local).          *)
DeleteLocalOnEvidence ==
  \A p \in Path : plan[p] = "delete_local" => remote[p] = Absent \/ p \in unseen

(* Once nobody edits and nothing fails any more, the two sides and their   *)
(* SyncRecords agree and stay so, whatever edits, overtaken plans, failed  *)
(* actions and lost commits came before (ADR 0001: a half-finished cycle   *)
(* converges by re-running).                                               *)
InSync == \A p \in scope : rec[p] = [l |-> local[p], r |-> remote[p]] /\ local[p] = remote[p]
Converges == <>[]InSync
=============================================================================
