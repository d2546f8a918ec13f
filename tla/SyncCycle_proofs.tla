--------------------------- MODULE SyncCycle_proofs ---------------------------
(***************************************************************************)
(* The sync engine, for any paths, bounds, scopes and events.  Every step  *)
(* of it is a step the remote file system allows, so that what is proved   *)
(* of FsSpec holds under the engine, and its state has the right types.    *)
(* A planned local deletion rests on evidence.  Of every path of the       *)
(* committed scope the record baselines the remote content unless the      *)
(* committed cursor will report the path (ADR 0001).                       *)
(***************************************************************************)
EXTENDS SyncCycle, CachingRemoteFs_proofs

-----------------------------------------------------------------------------
(* The refinement, action by action. *)

LEMMA PerformSteps ==
  ASSUME EngineTypeOK, NEW p \in Path, Perform(p)
  PROVE  [FsNext]_fsVars
<1>1. local[p] \in Version
  BY DEF EngineTypeOK
<1>2. CASE Push(p)
  BY <1>1, <1>2 DEF Push, FsNext
<1>3. CASE Pull(p) \/ Match(p) \/ Cleanup(p) \/ KeepRemote(p) \/ DeleteLocal(p)
  BY <1>3 DEF Pull, Match, Cleanup, KeepRemote, DeleteLocal
<1>4. CASE DeleteRemote(p)
  BY <1>4 DEF DeleteRemote, FsNext
<1> QED
  BY <1>2, <1>3, <1>4 DEF Perform

LEMMA FailureSteps ==
  ASSUME EngineTypeOK, NEW p \in Path,
         ActionOvertaken(p) \/ ActionFails(p) \/ ActionFailsLate(p) \/ ActionRefused(p)
  PROVE  [FsNext]_fsVars
<1>1. local[p] \in Version /\ Absent \in Version
  BY FsAssumption DEF EngineTypeOK
<1>2. CASE ActionOvertaken(p)
  BY <1>2 DEF ActionOvertaken, FsNext
<1>3. CASE ActionFails(p) \/ ActionRefused(p)
  BY <1>3 DEF ActionFails, ActionRefused
<1>4. CASE ActionFailsLate(p)
  BY <1>1, <1>4 DEF ActionFailsLate, FsNext
<1> QED
  BY <1>2, <1>3, <1>4

LEMMA DetectionSteps ==
  ASSUME Detect \/ FileSystemStep \/ FetchFails \/ FetchBreaks \/ StatScanThrows \/ DetectThrows
  PROVE  [FsNext]_fsVars
<1>1. CASE Detect
  BY <1>1 DEF Detect, DetectByDelta, DetectByScan, DetectByRescan, FsNext
<1>2. CASE FileSystemStep
  BY <1>2 DEF FileSystemStep, FsNext, ScanKinds
<1>3. CASE FetchFails
  BY <1>3 DEF FetchFails
<1>4. CASE FetchBreaks
  BY <1>4 DEF FetchBreaks, FsNext
<1>5. CASE StatScanThrows \/ DetectThrows
  BY <1>5 DEF StatScanThrows, DetectThrows, FsNext
<1> QED
  BY <1>1, <1>2, <1>3, <1>4, <1>5

(* The fingerprint a commit carries is one the cycle took when it started. *)
CommitsRealScope == pc # "idle" => cycle.fingerprint \in Fingerprint

LEMMA CompletionSteps ==
  ASSUME CommitsRealScope, CompleteCycle \/ CommitFails \/ SaveSettingsFails
  PROVE  [FsNext]_fsVars
<1>1. cycle.fingerprint \in Fingerprint
  BY DEF CommitsRealScope, CompleteCycle, CommitFails, SaveSettingsFails, Executed
<1>2. CASE CompleteCycle \/ SaveSettingsFails
  BY <1>1, <1>2 DEF CompleteCycle, SaveSettingsFails, CommitIfClean, FsNext
<1>3. CASE CommitFails
  BY <1>1, <1>3 DEF CommitFails, FsNext
<1> QED
  BY <1>2, <1>3

(* A direct deletion deletes in the cloud and commits with the fingerprint *)
(* the memory holds.                                                       *)
LEMMA DirectSteps ==
  ASSUME FsTypeOK, NEW p \in Path,
         DirectDelete(p) \/ DirectCommit(p) \/ DirectForget(p) \/ DirectVaultDelete(p)
  PROVE  [FsNext]_fsVars
<1>1. fingerprint \in Fingerprint \cup {NoFingerprint}
  BY DEF FsTypeOK
<1>2. CASE DirectDelete(p)
  BY <1>2 DEF DirectDelete, FsNext
<1>3. CASE DirectCommit(p)
  BY <1>1, <1>3 DEF DirectCommit, FsNext
<1>4. CASE DirectForget(p) \/ DirectVaultDelete(p)
  BY <1>4 DEF DirectForget, DirectVaultDelete
<1> QED
  BY <1>2, <1>3, <1>4

LEMMA FsStep ==
  TypeOK /\ CommitsRealScope /\ [Next]_vars => [FsNext]_fsVars
<1> SUFFICES ASSUME TypeOK, CommitsRealScope, [Next]_vars PROVE [FsNext]_fsVars
  OBVIOUS
<1> EngineTypeOK /\ FsTypeOK
  BY DEF TypeOK
<1>1. ASSUME NEW p \in Path, EditLocal(p) PROVE [FsNext]_fsVars
  BY <1>1 DEF EditLocal
<1>2. ASSUME NEW p \in Path, EditRemote(p) PROVE [FsNext]_fsVars
  <2>1. FreshContent \subseteq Version
    BY <1>2, CycleAssumption DEF EditRemote, FreshContent, EngineTypeOK
  <2> QED
    BY <1>2, <2>1 DEF EditRemote, FsNext
<1>3. CASE StartCycle
  BY <1>3 DEF StartCycle
<1>4. CASE Detect \/ FileSystemStep \/ FetchFails \/ FetchBreaks \/ StatScanThrows \/ DetectThrows
  BY <1>4, DetectionSteps
<1>5. ASSUME NEW p \in Path, ExecuteAction(p) PROVE [FsNext]_fsVars
  BY <1>5, PerformSteps DEF ExecuteAction
<1>6. ASSUME NEW p \in Path,
             ActionOvertaken(p) \/ ActionFails(p) \/ ActionFailsLate(p) \/ ActionRefused(p)
      PROVE  [FsNext]_fsVars
  BY <1>6, FailureSteps
<1>7. CASE AuthAbort
  BY <1>7 DEF AuthAbort
<1>8. CASE CompleteCycle \/ CommitFails \/ SaveSettingsFails
  BY <1>8, CompletionSteps
<1>9. CASE Crash \/ Reload
  BY <1>9 DEF Crash, Reload, LoseMemory, FsNext
<1>10. CASE ApproveDeletions \/ \E s \in Fingerprint : SetScope(s)
  BY <1>10 DEF ApproveDeletions, SetScope
<1>11. CASE Rescan
  BY <1>11 DEF Rescan, FsNext
<1>12. ASSUME NEW p \in Path, PullSingle(p) PROVE [FsNext]_fsVars
  BY <1>12 DEF PullSingle, FsNext
<1>13. ASSUME NEW p \in Path,
              DirectDelete(p) \/ DirectCommit(p) \/ DirectForget(p) \/ DirectVaultDelete(p)
       PROVE  [FsNext]_fsVars
  BY <1>13, DirectSteps
<1>14. CASE UNCHANGED vars
  BY <1>14 DEF vars
<1> QED
  BY <1>1, <1>2, <1>3, <1>4, <1>5, <1>6, <1>7, <1>8, <1>9, <1>10, <1>11, <1>12, <1>13, <1>14
  DEF Next, Execute

-----------------------------------------------------------------------------
(* The types, action by action. *)

LEMMA EmptyTypes ==
  /\ NoPlan \in [Path -> Actions \cup {"none"}]
  /\ NoCycle \in CycleType
  /\ NoRecord \in [l : Version, r : Version]
  /\ NoDirect \in [Path -> DirectStages]
BY FsAssumption, CycleAssumption
DEF NoPlan, NoCycle, NoRecord, CycleType, NoDirect, DirectStages

LEMMA DecideType ==
  ASSUME NEW L, NEW R, NEW base
  PROVE  Decide(L, R, base) \in Actions \cup {"none"}
BY DEF Decide, Actions, Transfers, Conflicts, Deletions

(* Whatever is held and blocked, what is left is a plan. *)
LEMMA PlanType ==
  ASSUME NEW reported, NEW seen, PlanFrom(reported, seen)
  PROVE  /\ plan' \in [Path -> Actions \cup {"none"}]
         /\ pendingDeletions' \in SUBSET (Deletions \X Path)
<1> DEFINE planned == Planned(reported, seen)
<1>1. planned \in [Path -> Actions \cup {"none"}]
  BY DecideType DEF Planned
<1>2. Unapproved(planned) \subseteq Deletions \X Path
  BY DEF Unapproved
<1> HIDE DEF planned
<1>3. PICK velocityBlocked \in VelocityBlocks, blocked \in SUBSET Path,
           held \in {Unapproved(planned), {}} :
        /\ pendingDeletions' = held
        /\ plan' = [p \in Path |-> IF <<planned[p], p>> \in held \/ p \in blocked
                                   THEN "none" ELSE planned[p]]
  BY DEF PlanFrom, planned
<1> QED
  BY <1>1, <1>2, <1>3

EngineInv == EngineTypeOK /\ CommitsRealScope

LEMMA ReturnInv ==
  ASSUME ReturnFromCycle
  PROVE  /\ pc' \in {"idle", "detect", "exec"}
         /\ cycle' \in CycleType
         /\ plan' \in [Path -> Actions \cup {"none"}]
         /\ failed' \in BOOLEAN /\ coldNeeded' \in BOOLEAN
         /\ CommitsRealScope'
BY EmptyTypes DEF ReturnFromCycle, CommitsRealScope

LEMMA RetryInv ==
  ASSUME EngineInv, pc # "idle", RetryOrGiveUp
  PROVE  /\ pc' \in {"idle", "detect", "exec"}
         /\ cycle' \in CycleType
         /\ plan' \in [Path -> Actions \cup {"none"}]
         /\ failed' \in BOOLEAN /\ coldNeeded' \in BOOLEAN
         /\ CommitsRealScope'
<1>1. CASE ReturnFromCycle
  BY <1>1, ReturnInv
<1>2. CASE ~ReturnFromCycle
  <2>1. /\ cycle.attempt < MaxRetries
        /\ pc' = "detect"
        /\ cycle' = [cycle EXCEPT !.attempt = @ + 1]
        /\ plan' = NoPlan /\ failed' = FALSE /\ coldNeeded' = FALSE
    BY <1>2 DEF RetryOrGiveUp
  <2>2. cycle \in CycleType /\ cycle.fingerprint \in Fingerprint
    BY DEF EngineInv, EngineTypeOK, CycleType, CommitsRealScope
  <2>3. cycle.attempt + 1 \in 0..MaxRetries
    BY <2>1, <2>2, CycleAssumption DEF CycleType
  <2>4. cycle' \in CycleType /\ cycle'.fingerprint = cycle.fingerprint
    BY <2>1, <2>2, <2>3 DEF CycleType
  <2> QED
    BY <2>1, <2>2, <2>4, EmptyTypes DEF CommitsRealScope
<1> QED
  BY <1>1, <1>2

LEMMA EventType ==
  ASSUME EngineTypeOK, NEW kind, Event(kind) \/ Quiet
  PROVE  tick' \in 0..MaxTick /\ events' \in 0..MaxEvents
BY CycleAssumption DEF EngineTypeOK, Event, Quiet

LEMMA LocalType ==
  ASSUME EngineTypeOK, NEW p \in Path, NEW v \in Version, LocalBecomes(p, v)
  PROVE  local' \in [Path -> Version] /\ dirty' \in SUBSET Path
BY DEF EngineTypeOK, LocalBecomes

(* An action of the plan, done or failed. *)
LEMMA PerformType ==
  ASSUME TypeOK, NEW p \in Path, Perform(p)
  PROVE  /\ local' \in [Path -> Version] /\ dirty' \in SUBSET Path
         /\ rec' \in [Path -> [l : Version, r : Version]]
<1> USE FsAssumption, EmptyTypes, LocalType
<1>1. EngineTypeOK /\ local[p] \in Version /\ remote[p] \in Version /\ cache[p] \in Version
  BY DEF TypeOK, EngineTypeOK, FsTypeOK
<1>2. CASE Push(p)
  BY <1>1, <1>2 DEF Push, KeepLocalFile, SetRecord, EngineTypeOK
<1>3. CASE Pull(p) \/ KeepRemote(p)
  BY <1>1, <1>3 DEF Pull, KeepRemote, SetRecord, EngineTypeOK
<1>4. CASE Match(p)
  BY <1>1, <1>4 DEF Match, KeepLocalFile, SetRecord, EngineTypeOK
<1>5. CASE Cleanup(p) \/ DeleteRemote(p)
  <2>1. KeepLocalFile /\ DropRecord(p)
    BY <1>5 DEF Cleanup, DeleteRemote
  <2> QED
    BY <1>1, <2>1 DEF KeepLocalFile, DropRecord, EngineTypeOK
<1>6. CASE DeleteLocal(p)
  BY <1>1, <1>6 DEF DeleteLocal, DropRecord, EngineTypeOK
<1> QED
  BY <1>2, <1>3, <1>4, <1>5, <1>6 DEF Perform

LEMMA DoneType ==
  ASSUME EngineTypeOK, NEW p \in Path, Done(p)
  PROVE  plan' \in [Path -> Actions \cup {"none"}]
BY DEF EngineTypeOK, Done

LEMMA ExecuteInv ==
  ASSUME TypeOK, CommitsRealScope, NEW p \in Path, ExecuteAction(p)
  PROVE  EngineInv'
<1> USE DEF ExecuteAction
<1>1. EngineTypeOK
  BY DEF TypeOK
<1>2. /\ local' \in [Path -> Version] /\ dirty' \in SUBSET Path
      /\ rec' \in [Path -> [l : Version, r : Version]]
  BY PerformType
<1>3. plan' \in [Path -> Actions \cup {"none"}]
  BY <1>1, DoneType
<1> QED
  BY <1>1, <1>2, <1>3 DEF EngineInv, EngineTypeOK, CommitsRealScope, Quiet

LEMMA FailureInv ==
  ASSUME TypeOK, CommitsRealScope, NEW p \in Path,
         ActionOvertaken(p) \/ ActionFails(p) \/ ActionFailsLate(p) \/ ActionRefused(p)
  PROVE  EngineInv'
<1>1. EngineTypeOK /\ remote[p] \in Version /\ Absent \in Version
  BY FsAssumption DEF TypeOK, FsTypeOK
<1>2. PICK cold \in BOOLEAN : RecordFailure(p, cold)
  BY DEF ActionOvertaken, ActionFails, ActionFailsLate, ActionRefused
<1>3. /\ plan' \in [Path -> Actions \cup {"none"}]
      /\ failed' \in BOOLEAN /\ coldNeeded' \in BOOLEAN
      /\ UNCHANGED <<trackerInitialized, recoverViaColdScan, pendingDeletions, approved,
                     scope, direct, pc, cycle>>
  BY <1>1, <1>2, DoneType DEF RecordFailure, EngineTypeOK
<1>4. tick' \in 0..MaxTick /\ events' \in 0..MaxEvents
  BY <1>1, EventType DEF ActionOvertaken, ActionFails, ActionFailsLate, ActionRefused
<1>5. rec' = rec
  BY DEF ActionOvertaken, ActionFails, ActionFailsLate, ActionRefused
<1>6. local' \in [Path -> Version] /\ dirty' \in SUBSET Path
  <2>1. CASE UNCHANGED <<local, dirty>>
    BY <1>1, <2>1 DEF EngineTypeOK
  <2>2. CASE ActionFailsLate(p)
    BY <1>1, <2>1, <2>2, LocalType DEF ActionFailsLate, KeepLocalFile
  <2> QED
    BY <2>1, <2>2 DEF ActionOvertaken, ActionFails, ActionRefused
<1> QED
  BY <1>1, <1>3, <1>4, <1>5, <1>6 DEF EngineInv, EngineTypeOK, CommitsRealScope

(* Detection, from a fetch to a plan. *)
LEMMA PlanningInv ==
  ASSUME EngineInv, pc = "detect", NEW reported, NEW seen, DetectAndPlan(reported, seen)
  PROVE  EngineInv'
<1> USE DEF EngineInv, EngineTypeOK
<1>1. CASE PlanFrom(reported, seen) /\ pc' = "exec"
           /\ failed' = FALSE /\ coldNeeded' = FALSE /\ Quiet
           /\ UNCHANGED <<local, rec, dirty, trackerInitialized, recoverViaColdScan,
                          approved, scope, direct, cycle>>
  BY <1>1, PlanType DEF Quiet, CommitsRealScope
<1>2. CASE recoverViaColdScan' = FALSE /\ ReturnFromCycle /\ Quiet
           /\ UNCHANGED <<local, rec, dirty, trackerInitialized, pendingDeletions, approved,
                          scope, direct>>
  BY <1>2, ReturnInv DEF Quiet, CycleType
<1> QED
  BY <1>1, <1>2 DEF DetectAndPlan

(* A cycle that throws. *)
LEMMA ThrowInv ==
  ASSUME EngineInv, pc # "idle", RetryOrGiveUp,
         approved' \in SUBSET (Deletions \X Path),
         tick' \in 0..MaxTick /\ events' \in 0..MaxEvents,
         UNCHANGED <<local, rec, dirty, trackerInitialized, recoverViaColdScan,
                     pendingDeletions, scope, direct>>
  PROVE  EngineInv'
BY RetryInv DEF EngineInv, EngineTypeOK, CycleType

LEMMA DetectionInv ==
  ASSUME EngineInv,
         Detect \/ FileSystemStep \/ FetchFails \/ FetchBreaks \/ StatScanThrows \/ DetectThrows
  PROVE  EngineInv'
<1>1. EngineTypeOK /\ approved \in SUBSET (Deletions \X Path)
  BY DEF EngineInv, EngineTypeOK
<1>2. CASE Detect
  BY <1>2, PlanningInv DEF Detect, DetectByDelta, DetectByScan, DetectByRescan
<1>3. CASE FileSystemStep \/ StatScanThrows
  <2>1. UNCHANGED engineVars
    BY <1>3 DEF FileSystemStep, StatScanThrows
  <2>2. tick' \in 0..MaxTick /\ events' \in 0..MaxEvents
    BY <1>1, <1>3, EventType DEF FileSystemStep, StatScanThrows
  <2> QED
    BY <2>1, <2>2 DEF EngineInv, EngineTypeOK, CommitsRealScope, engineVars
<1>4. CASE FetchFails \/ FetchBreaks \/ DetectThrows
  <2>1. tick' \in 0..MaxTick /\ events' \in 0..MaxEvents
    BY <1>1, <1>4, EventType DEF FetchFails, FetchBreaks, DetectThrows
  <2> QED
    BY <1>1, <1>4, <2>1, ThrowInv DEF FetchFails, FetchBreaks, DetectThrows
<1> QED
  BY <1>2, <1>3, <1>4

(* The end of a cycle. *)
LEMMA CompletionInv ==
  ASSUME EngineInv, CompleteCycle \/ CommitFails \/ SaveSettingsFails \/ AuthAbort
  PROVE  EngineInv'
<1>1. EngineTypeOK /\ coldNeeded \in BOOLEAN
  BY DEF EngineInv, EngineTypeOK
<1>2. tick' \in 0..MaxTick /\ events' \in 0..MaxEvents
  BY <1>1, EventType DEF CompleteCycle, CommitFails, SaveSettingsFails, AuthAbort
<1>3. CASE CompleteCycle
  BY <1>1, <1>2, <1>3, ReturnInv DEF CompleteCycle, EngineInv, EngineTypeOK, CycleType
<1>4. CASE CommitFails \/ SaveSettingsFails
  BY <1>1, <1>2, <1>4, ThrowInv DEF CommitFails, SaveSettingsFails, Executed
<1>5. CASE AuthAbort
  BY <1>1, <1>2, <1>5, ReturnInv DEF AuthAbort, EngineInv, EngineTypeOK, CycleType
<1> QED
  BY <1>3, <1>4, <1>5

(* What happens around the cycles. *)
LEMMA OutsideInv ==
  ASSUME TypeOK, CommitsRealScope,
         \/ \E p \in Path : EditLocal(p) \/ EditRemote(p) \/ PullSingle(p)
         \/ StartCycle \/ Crash \/ Reload \/ ApproveDeletions \/ Rescan
         \/ \E s \in Fingerprint : SetScope(s)
  PROVE  EngineInv'
<1>1. EngineTypeOK /\ EngineInv
  BY DEF TypeOK, EngineInv
<1>2. ASSUME NEW p \in Path, EditLocal(p) PROVE EngineInv'
  <2>1. FreshContent \subseteq Version /\ tick' \in 0..MaxTick
    BY <1>1, <1>2, CycleAssumption DEF EditLocal, FreshContent, EngineTypeOK
  <2> QED
    BY <1>1, <1>2, <2>1, LocalType DEF EditLocal, EngineInv, EngineTypeOK, CommitsRealScope
<1>3. ASSUME NEW p \in Path, EditRemote(p) PROVE EngineInv'
  <2>1. tick' \in 0..MaxTick
    BY <1>1, <1>3, CycleAssumption DEF EditRemote, EngineTypeOK
  <2>2. UNCHANGED <<engineVars, events>>
    BY <1>3 DEF EditRemote
  <2> QED
    BY <1>1, <2>1, <2>2 DEF EngineInv, EngineTypeOK, CommitsRealScope, engineVars
<1>4. CASE StartCycle
  <2>1. cycle' \in CycleType /\ cycle'.fingerprint \in Fingerprint
    BY <1>1, <1>4, CycleAssumption
    DEF StartCycle, TypeOK, CycleType, EngineTypeOK, FsTypeOK, HasCheckpoint
  <2> QED
    BY <1>1, <1>4, <2>1 DEF StartCycle, EngineInv, EngineTypeOK, CommitsRealScope, Quiet,
       CycleType
<1>5. CASE Crash \/ Reload
  <2>1. LoseMemory /\ tick' \in 0..MaxTick /\ events' \in 0..MaxEvents
    BY <1>1, <1>5, EventType DEF Crash, Reload
  <2> QED
    BY <1>1, <2>1, ReturnInv, EmptyTypes DEF LoseMemory, EngineInv, EngineTypeOK, CycleType
<1>6. CASE ApproveDeletions
  BY <1>1, <1>6, EventType DEF ApproveDeletions, EngineInv, EngineTypeOK, CommitsRealScope
<1>7. CASE Rescan
  BY <1>1, <1>7, EventType DEF Rescan, EngineInv, EngineTypeOK, CommitsRealScope, engineVars
<1>8. ASSUME NEW s \in Fingerprint, SetScope(s) PROVE EngineInv'
  BY <1>1, <1>8, EventType DEF SetScope, EngineInv, EngineTypeOK, CommitsRealScope
<1>9. ASSUME NEW p \in Path, PullSingle(p) PROVE EngineInv'
  <2>1. tick' \in 0..MaxTick /\ events' \in 0..MaxEvents
    BY <1>1, <1>9, EventType DEF PullSingle
  <2>2. remote[p] \in Version /\ cache[p] \in Version
    BY DEF TypeOK, FsTypeOK
  <2>3. /\ local' \in [Path -> Version] /\ dirty' \in SUBSET Path
        /\ rec' \in [Path -> [l : Version, r : Version]]
    BY <1>1, <1>9, <2>2 DEF PullSingle, SetRecord, EngineTypeOK
  <2> QED
    BY <1>1, <1>9, <2>1, <2>3 DEF PullSingle, EngineInv, EngineTypeOK, CommitsRealScope
<1> QED
  BY <1>2, <1>3, <1>4, <1>5, <1>6, <1>7, <1>8, <1>9

(* The steps of a direct deletion. *)
LEMMA DirectInv ==
  ASSUME TypeOK, CommitsRealScope, NEW p \in Path,
         DirectDelete(p) \/ DirectCommit(p) \/ DirectForget(p) \/ DirectVaultDelete(p)
  PROVE  EngineInv'
<1>1. EngineTypeOK
  BY DEF TypeOK
<1>2. PICK stage \in DirectStages : DirectGoesOn(p, stage)
  BY DEF DirectDelete, DirectCommit, DirectForget, DirectVaultDelete, DirectStages
<1>3. /\ direct' \in [Path -> DirectStages]
      /\ UNCHANGED <<trackerInitialized, recoverViaColdScan, pendingDeletions, approved,
                     scope, pc, cycle, plan, failed, coldNeeded>>
  BY <1>1, <1>2 DEF DirectGoesOn, EngineTypeOK
<1>4. tick' \in 0..MaxTick /\ events' \in 0..MaxEvents
  BY <1>1, EventType DEF DirectDelete, DirectCommit, DirectForget, DirectVaultDelete
<1>5. rec' \in [Path -> [l : Version, r : Version]]
  <2>1. rec' = rec \/ DropRecord(p)
    BY DEF DirectDelete, DirectCommit, DirectForget, DirectVaultDelete
  <2> QED
    BY <1>1, <2>1, EmptyTypes DEF DropRecord, EngineTypeOK
<1>6. local' \in [Path -> Version] /\ dirty' \in SUBSET Path
  <2>1. UNCHANGED <<local, dirty>> \/ LocalBecomes(p, Absent)
    BY DEF DirectDelete, DirectCommit, DirectForget, DirectVaultDelete
  <2> QED
    BY <1>1, <2>1, FsAssumption, LocalType DEF EngineTypeOK
<1> QED
  BY <1>1, <1>3, <1>4, <1>5, <1>6 DEF EngineInv, EngineTypeOK, CommitsRealScope

-----------------------------------------------------------------------------
CycleInv == TypeOK /\ CommitsRealScope

LEMMA CycleInit == Init => CycleInv /\ FsInit
<1> SUFFICES ASSUME Init PROVE CycleInv /\ FsInit
  OBVIOUS
<1>1. FsInit /\ FsTypeOK
  BY InitInv DEF Init, FsInv
<1>2. 1 \in Version /\ Absent \in Version
  BY CycleAssumption
<1>3. /\ local \in [Path -> Version]
      /\ rec \in [Path -> [l : Version, r : Version]]
  BY <1>2, EmptyTypes DEF Init
<1>4. cycle \in CycleType /\ plan \in [Path -> Actions \cup {"none"}]
  BY EmptyTypes DEF Init
<1>5. tick \in 0..MaxTick /\ events \in 0..MaxEvents
  BY CycleAssumption DEF Init
<1>6. EngineTypeOK /\ CommitsRealScope
  BY <1>3, <1>4, <1>5, EmptyTypes DEF Init, EngineTypeOK, CommitsRealScope, CycleType
<1> QED
  BY <1>1, <1>6 DEF TypeOK, CycleInv

LEMMA CycleStep == CycleInv /\ [Next]_vars => CycleInv' /\ [FsNext]_fsVars
<1> SUFFICES ASSUME CycleInv, [Next]_vars PROVE CycleInv' /\ [FsNext]_fsVars
  OBVIOUS
<1>1. TypeOK /\ CommitsRealScope /\ EngineTypeOK /\ FsTypeOK /\ EngineInv
  BY DEF TypeOK, CycleInv, EngineInv
<1>2. [FsNext]_fsVars
  BY <1>1, FsStep
<1>3. FsTypeOK'
  BY <1>1, <1>2, TypeStep
<1>4. EngineInv'
  <2>1. CASE \E p \in Path : ExecuteAction(p)
    BY <1>1, <2>1, ExecuteInv
  <2>2. CASE \E p \in Path : ActionOvertaken(p) \/ ActionFails(p) \/ ActionFailsLate(p)
                             \/ ActionRefused(p)
    BY <1>1, <2>2, FailureInv
  <2>3. CASE \E p \in Path : DirectDelete(p) \/ DirectCommit(p) \/ DirectForget(p)
                             \/ DirectVaultDelete(p)
    BY <1>1, <2>3, DirectInv
  <2>4. CASE UNCHANGED vars
    BY <1>1, <2>4 DEF vars, engineVars, EngineInv, EngineTypeOK, CommitsRealScope
  <2> QED
    BY <1>1, <2>1, <2>2, <2>3, <2>4, DetectionInv, CompletionInv, OutsideInv DEF Next, Execute
<1>5. TypeOK'
  BY <1>3, <1>4 DEF TypeOK, EngineInv
<1> QED
  BY <1>2, <1>4, <1>5 DEF CycleInv, EngineInv

(* The state of the engine and of its file system is well formed. *)
THEOREM TypesHold == Spec => []TypeOK
<1>1. CycleInv => TypeOK
  BY DEF CycleInv
<1> QED
  BY <1>1, CycleInit, CycleStep, PTL DEF Spec

(* The engine uses the remote file system only in the ways its module      *)
(* allows: the sync cycle implements the caching file system's behaviour   *)
(* (orchestrator.ts and the pipeline against remote-fs.ts).                *)
THEOREM EngineRefinesFs == Spec => FsSpec
<1> QED
  BY CycleInit, CycleStep, PTL DEF Spec, FsSpec

(* So the committed checkpoint agrees with its cursor whatever the engine, *)
(* the user, other devices and crashes do, where deltas are not torn and   *)
(* rescans do not throw.                                                   *)
THEOREM EngineKeepsCheckpointFaithful ==
  ASSUME FaithfulEvents PROVE Spec => []StoreFaithful
BY EngineRefinesFs, CheckpointIsFaithful

THEOREM EngineKeepsMemoryFaithful ==
  ASSUME FaithfulEvents PROVE Spec => []CacheFaithful
BY EngineRefinesFs, MemoryIsFaithful

(* What an incremental commit of the engine leaves out reads the same in   *)
(* the store (remote-fs.ts commitCheckpoint).                              *)
THEOREM EngineBuffersDrift ==
  ASSUME FaithfulEvents PROVE Spec => []TouchedCoversDrift
BY EngineRefinesFs, TouchedIsEnough

(* And where deltas are torn or cursors expire, the engine works at worst  *)
(* with a map that has forgotten a deletion.                               *)
THEOREM EngineMissesOnlyDeletions ==
  ASSUME NoFailedRescan PROVE Spec => []MissesOnlyDeletions
BY EngineRefinesFs, OnlyDeletionsMissed

-----------------------------------------------------------------------------
(* A plan is executed over a loaded cache, and exists only then. *)
PlanStates ==
  /\ pc = "exec" => initialized /\ scan = "no"
  /\ pc # "exec" => plan = NoPlan

EvidenceInv == PlanStates /\ DeleteLocalOnEvidence

(* What a plan says of a path is what was decided about it. *)
LEMMA PlannedFrom ==
  ASSUME NEW reported, NEW seen, PlanFrom(reported, seen), NEW p \in Path, plan'[p] # "none"
  PROVE  p \in Candidates(reported) /\ plan'[p] = Decide(local[p], seen[p], rec[p])
<1> DEFINE planned == Planned(reported, seen)
<1>1. PICK velocityBlocked \in VelocityBlocks, blocked \in SUBSET Path,
           held \in {Unapproved(planned), {}} :
        /\ pendingDeletions' = held
        /\ plan' = [q \in Path |-> IF <<planned[q], q>> \in held \/ q \in blocked
                                   THEN "none" ELSE planned[q]]
  BY DEF PlanFrom
<1>2. plan'[p] = planned[p]
  BY <1>1
<1> QED
  BY <1>2 DEF Planned

(* Nothing is forgotten or deleted locally but for an absent remote file.  *)
LEMMA DecidedAbsent ==
  ASSUME NEW L, NEW R, NEW base, Decide(L, R, base) \in {"cleanup", "delete_local"}
  PROVE  R = Absent
BY DEF Decide

(* The steps of a plan under execution neither load nor scan nor fetch. *)
LEMMA ExecutionKeepsCursor ==
  ASSUME NEW p \in Path, TypeOK,
         \/ ExecuteAction(p) \/ ActionOvertaken(p) \/ ActionFails(p)
         \/ ActionFailsLate(p) \/ ActionRefused(p)
  PROVE  /\ pc = "exec" /\ UNCHANGED <<initialized, scan, saved, fingerprint, storeFingerprint>>
         /\ plan' = [plan EXCEPT ![p] = "none"]
         /\ UNCHANGED <<trackerInitialized, recoverViaColdScan, pendingDeletions, approved,
                        scope, direct, pc, cycle>>
         /\ unseen \subseteq unseen' /\ storeUnseen \subseteq storeUnseen'
         /\ saved => unseen' \ unseen \subseteq storeUnseen'
         /\ \A q \in Path \ {p} : cache'[q] = cache[q] /\ rec'[q] = rec[q]
         /\ initialized =>
              \A q \in Path : \/ remote'[q] = remote[q]
                              \/ q \in unseen' /\ (saved => q \in storeUnseen')
<1> USE DEF Runs, TypeOK, FsTypeOK, EngineTypeOK, Done
<1>1. CASE ExecuteAction(p)
  <2> USE <1>1 DEF ExecuteAction, SetRecord, DropRecord
  <2>1. CASE Push(p)
    BY <2>1 DEF Push, WriteFile, RemoteBecomes
  <2>2. CASE Pull(p) \/ Match(p) \/ Cleanup(p) \/ KeepRemote(p) \/ DeleteLocal(p)
    BY <2>2 DEF Pull, Match, Cleanup, KeepRemote, DeleteLocal, fsVars, memVars, storeVars
  <2>3. CASE DeleteRemote(p)
    BY <2>3 DEF DeleteRemote, DeleteFile, RemoteBecomes, fsVars, memVars, storeVars
  <2> QED
    BY <2>1, <2>2, <2>3 DEF Perform
<1>2. CASE ActionOvertaken(p)
  BY <1>2 DEF ActionOvertaken, RecordFailure, ReadNotFound, fsVars, memVars, storeVars
<1>3. CASE ActionFails(p) \/ ActionRefused(p)
  BY <1>3 DEF ActionFails, ActionRefused, RecordFailure, fsVars, memVars, storeVars
<1>4. CASE ActionFailsLate(p)
  <2> USE <1>4 DEF ActionFailsLate, RecordFailure
  <2>1. CASE UNCHANGED fsVars
    BY <2>1 DEF fsVars, memVars, storeVars
  <2>2. CASE WriteFile(p, local[p]) \/ OthersChange(p, local[p])
    BY <2>2 DEF WriteFile, OthersChange, RemoteBecomes
  <2>3. CASE DeleteFile(p) \/ OthersChange(p, Absent)
    BY <2>3 DEF DeleteFile, OthersChange, RemoteBecomes
  <2> QED
    BY <2>1, <2>2, <2>3
<1> QED
  BY <1>1, <1>2, <1>3, <1>4

(* Where no cycle executes there is no plan. *)
LEMMA NoPlanEvidence ==
  ASSUME plan' = NoPlan, pc' # "exec" PROVE EvidenceInv'
BY DEF NoPlan, EvidenceInv, PlanStates, DeleteLocalOnEvidence

LEMMA RetryEvidence ==
  ASSUME RetryOrGiveUp PROVE plan' = NoPlan /\ pc' # "exec"
BY DEF RetryOrGiveUp, ReturnFromCycle

(* What a plan rests on: the map left by the fetch, which has forgotten    *)
(* nothing but deletions.                                                  *)
LEMMA PlanningEvidence ==
  ASSUME TypeOK, MissesOnlyDeletions', Detect PROVE EvidenceInv'
<1>1. PICK reported \in SUBSET Path, seen \in {CacheWithDelta(unseen), remote} :
        /\ DetectAndPlan(reported, seen)
        /\ remote' = remote /\ cache' = seen /\ initialized' /\ scan' = "no"
        /\ seen = remote \/ unseen' = {}
  BY DEF Detect, DetectByDelta, DetectByScan, DetectByRescan, FetchDelta, EndFullScan,
         Reported, ReportedAfterExpiry, TypeOK, FsTypeOK
<1>2. CASE PlanFrom(reported, seen) /\ pc' = "exec"
  <2>1. ASSUME NEW p \in Path, plan'[p] = "delete_local"
        PROVE  remote'[p] = Absent
    <3>1. seen[p] = Absent
      BY <1>2, <2>1, PlannedFrom, DecidedAbsent
    <3> QED
      BY <1>1, <3>1 DEF MissesOnlyDeletions
  <2> QED
    BY <1>1, <1>2, <2>1 DEF EvidenceInv, PlanStates, DeleteLocalOnEvidence
<1>3. CASE ReturnFromCycle
  BY <1>3, NoPlanEvidence DEF ReturnFromCycle
<1> QED
  BY <1>1, <1>2, <1>3 DEF DetectAndPlan

(* Steps that leave the plan and its place alone: a remote file that       *)
(* changes under a plan is still to be reported.                           *)
LEMMA StandingEvidence ==
  ASSUME EvidenceInv, UNCHANGED <<pc, plan>>,
         pc = "exec" => /\ initialized' = initialized /\ scan' = scan
                        /\ unseen \subseteq unseen'
                        /\ \A p \in Path : remote'[p] = remote[p] \/ p \in unseen'
  PROVE  EvidenceInv'
<1>1. CASE pc = "exec"
  BY <1>1 DEF EvidenceInv, PlanStates, DeleteLocalOnEvidence
<1>2. CASE pc # "exec"
  BY <1>2, NoPlanEvidence DEF EvidenceInv, PlanStates
<1> QED
  BY <1>1, <1>2

LEMMA EvidenceStep ==
  ASSUME CycleInv, FsInv, FsInv', NoFailedRescan, EvidenceInv, [Next]_vars
  PROVE  EvidenceInv'
<1>1. TypeOK /\ FsTypeOK /\ EngineTypeOK
  BY DEF CycleInv, TypeOK
<1>2. CASE Detect
  BY <1>1, <1>2, PlanningEvidence DEF FsInv
<1>3. CASE FetchFails \/ FetchBreaks \/ DetectThrows
  BY <1>3, RetryEvidence, NoPlanEvidence DEF FetchFails, FetchBreaks, DetectThrows
<1>4. CASE AuthAbort \/ CompleteCycle \/ CommitFails \/ SaveSettingsFails \/ Crash \/ Reload
  BY <1>4, RetryEvidence, NoPlanEvidence
  DEF AuthAbort, CompleteCycle, CommitFails, SaveSettingsFails, Crash, Reload, LoseMemory,
      ReturnFromCycle
<1>5. ASSUME NEW p \in Path,
             \/ ExecuteAction(p) \/ ActionOvertaken(p) \/ ActionFails(p)
             \/ ActionFailsLate(p) \/ ActionRefused(p)
      PROVE  EvidenceInv'
  BY <1>1, <1>5, ExecutionKeepsCursor
  DEF EvidenceInv, PlanStates, DeleteLocalOnEvidence, EngineTypeOK
<1>6. CASE \/ \E p \in Path : EditLocal(p) \/ PullSingle(p) \/ DirectForget(p)
                             \/ DirectVaultDelete(p)
           \/ ApproveDeletions \/ \E s \in Fingerprint : SetScope(s)
           \/ UNCHANGED vars
  BY <1>6, StandingEvidence
  DEF EditLocal, PullSingle, DirectForget, DirectVaultDelete, DirectGoesOn, ApproveDeletions,
      SetScope, ReadNotFound, vars, fsVars, memVars, engineVars
<1>7. ASSUME NEW p \in Path, EditRemote(p) \/ DirectDelete(p) PROVE EvidenceInv'
  BY <1>1, <1>7, StandingEvidence
  DEF EditRemote, DirectDelete, DirectGoesOn, OthersChange, DeleteFile, RemoteBecomes,
      fsVars, memVars, engineVars, FsTypeOK, EvidenceInv, PlanStates
<1>8. ASSUME NEW p \in Path, DirectCommit(p) PROVE EvidenceInv'
  BY <1>8, StandingEvidence
  DEF DirectCommit, DirectGoesOn, CommitCheckpoint, fsVars, memVars
<1>9. CASE StartCycle
  BY <1>9, NoPlanEvidence DEF StartCycle, EvidenceInv, PlanStates
<1>10. CASE FileSystemStep \/ StatScanThrows \/ Rescan
  BY <1>10, StandingEvidence
  DEF FileSystemStep, StatScanThrows, Rescan, LoadFromCache, BeginFullScan, EndFullScan,
      ScanThrows, EvidenceInv, PlanStates, engineVars
<1> QED
  BY <1>2, <1>3, <1>4, <1>5, <1>6, <1>7, <1>8, <1>9, <1>10 DEF Next, Execute

(* A local file is deleted on evidence only: while its deletion is planned *)
(* the remote file is gone, or came back after the plan and is still to be *)
(* reported, whatever deltas are torn, cursors expire and cycles fail on   *)
(* the way (change-detector.ts confirmRemoteDeletions).                    *)
THEOREM DeletionsRestOnEvidence ==
  ASSUME NoFailedRescan PROVE Spec => []DeleteLocalOnEvidence
<1>1. Init => EvidenceInv
  BY DEF Init, NoPlan, EvidenceInv, PlanStates, DeleteLocalOnEvidence
<1>2. CycleInv /\ FsInv /\ FsInv' /\ EvidenceInv /\ [Next]_vars => EvidenceInv'
  BY EvidenceStep
<1>3. EvidenceInv => DeleteLocalOnEvidence
  BY DEF EvidenceInv
<1>4. Spec => []CycleInv
  BY CycleInit, CycleStep, PTL DEF Spec
<1>5. Spec => []FsInv
  BY EngineRefinesFs, FsInvariant
<1> QED
  BY <1>1, <1>2, <1>3, <1>4, <1>5, PTL DEF Spec

-----------------------------------------------------------------------------
(* The faults after which the code is known not to keep its checkpoint     *)
(* honest: allowing any one of them alone, or a change of scope with either *)
(* of its companions, TLC finds CheckpointHonest or SessionHonest broken.  *)
(* A scope may change between cycles as long as none can end without       *)
(* committing or asking for a cold one: nothing is held, nothing refused.  *)
HonestEvents ==
  /\ FaithfulEvents
  /\ {"loadFails", "cursorExpires", "detectThrows", "authFails", "saveFails", "crash",
      "scopeRace", "fileOpenMisses", "directDelete"} \cap Events = {}
  /\ \/ "setScope" \notin Events
     \/ "quarantine" \notin Events /\ MaxDeletions = 0 /\ VelocityBlocks = {FALSE}

(* No listing of a cold scan is taken for a truncated one: the cycle that  *)
(* gives up over one forgets that it was to recover (orchestrator.ts:489), *)
(* and SessionHonest breaks.                                               *)
ListingsComplete == pc = "detect" => ~SuspiciousListing(remote)

(* Nothing about the path has to be remembered: its record baselines the   *)
(* cached content, or the feed will report it whatever becomes of it, or   *)
(* its deletion is held.                                                   *)
Settled(p) == \/ rec[p].r = cache[p]
              \/ p \in unseen /\ cache[p] # Absent
              \/ p \in HeldPaths

(* The committed cursor will report whatever the one in memory will.       *)
CursorBehind == saved => unseen \subseteq storeUnseen

(* Memory is loaded, or it is that of a fresh object.                      *)
FreshUntilLoaded == /\ ~initialized => fingerprint = NoFingerprint
                    /\ scan # "no" => ~initialized /\ ~saved

(* A file with a record is in the committed map, until that is loaded.     *)
RecordedIsStored ==
  ~initialized /\ saved => \A p \in Path : rec[p] # NoRecord => storeCache[p] # Absent

(* Between cycles and before a detection.                                  *)
MemoryHonest ==
  (pc # "exec" /\ initialized /\ scan = "no" /\ ~recoverViaColdScan
     /\ fingerprint # NoFingerprint) => \A p \in fingerprint : Settled(p)

(* A cycle that is not forced cold starts from a state that is honest about *)
(* its scope.                                                              *)
UnforcedIsHonest ==
  pc # "idle" /\ ~cycle.forced =>
    /\ ~recoverViaColdScan
    /\ IF initialized THEN fingerprint = cycle.fingerprint
                      ELSE saved /\ storeFingerprint = cycle.fingerprint

(* A path of the scope is settled, or there is an action that settles it,  *)
(* or one of the actions has asked for a cold cycle.                       *)
PlanHonest ==
  pc = "exec" =>
    \A p \in cycle.fingerprint :
      Settled(p) \/ coldNeeded \/ plan[p] \notin {"none"} \cup Blockable

(* What is only forgotten is known to be absent. *)
PlannedAbsent ==
  \A p \in Path : plan[p] \in {"cleanup", "delete_local"} => cache[p] = Absent

(* The scope stands still during a cycle; a failure that is not to be      *)
(* recovered from is a refusal.                                            *)
CycleScope ==
  /\ pc # "idle" => cycle.fingerprint = scope
  /\ coldNeeded => failed
  /\ "setScope" \notin Events => {fingerprint, storeFingerprint} \subseteq {NoFingerprint, scope}
  /\ "setScope" \in Events => pendingDeletions = {} /\ (failed => coldNeeded)
  /\ direct = NoDirect

HonestInv ==
  /\ PlanStates
  /\ CursorBehind
  /\ FreshUntilLoaded
  /\ RecordedIsStored
  /\ MemoryHonest
  /\ UnforcedIsHonest
  /\ PlanHonest
  /\ PlannedAbsent
  /\ CycleScope
  /\ CheckpointHonest

-----------------------------------------------------------------------------
(* What HonestInv rests on: the file system's and the engine's invariants. *)
Standing == CycleInv /\ FsInv /\ HonestEvents /\ HonestInv

LEMMA StandingFacts ==
  ASSUME Standing
  PROVE  /\ FsTypeOK /\ EngineTypeOK /\ CommitsRealScope
         /\ CacheFaithful /\ StoreFaithful /\ ScanStates /\ FirstCommitIsFull
         /\ scan # "expired"
         /\ scope \in SUBSET Path /\ NoFingerprint # scope
  BY FsAssumption, CycleAssumption
  DEF Standing, CycleInv, TypeOK, FsInv, HonestEvents, ScanStates, EngineTypeOK

(* Steps that touch neither the files' bookkeeping nor the cycle.          *)
LEMMA UntouchedHonest ==
  ASSUME Standing,
         UNCHANGED <<initialized, cache, fingerprint, scan, saved, storeCache,
                     storeFingerprint, rec, recoverViaColdScan, pendingDeletions, direct,
                     cycle, plan, failed, coldNeeded, scope, pc>>,
         unseen \subseteq unseen', storeUnseen \subseteq storeUnseen',
         saved => unseen' \subseteq storeUnseen',
         \A p \in Path : saved => remote'[p] = remote[p] \/ p \in storeUnseen'
  PROVE  HonestInv'
<1> USE StandingFacts DEF Standing, HonestInv, Settled, HeldPaths
<1>1. PlanStates' /\ CursorBehind' /\ FreshUntilLoaded' /\ RecordedIsStored'
  BY DEF PlanStates, CursorBehind, FreshUntilLoaded, RecordedIsStored
<1>2. MemoryHonest' /\ UnforcedIsHonest'
  BY DEF MemoryHonest, UnforcedIsHonest
<1>3. PlanHonest' /\ PlannedAbsent' /\ CycleScope'
  BY DEF PlanHonest, PlannedAbsent, CycleScope
<1>4. CheckpointHonest'
  BY CycleAssumption DEF CheckpointHonest, FsTypeOK
<1> QED
  BY <1>1, <1>2, <1>3, <1>4
(* Users, other devices and the settings, around the cycles. *)
LEMMA OutsideHonest ==
  ASSUME Standing,
         \/ \E p \in Path : EditLocal(p) \/ EditRemote(p)
         \/ ApproveDeletions \/ UNCHANGED vars
  PROVE  HonestInv'
<1> USE StandingFacts
<1>1. CASE \/ \E p \in Path : EditLocal(p)
           \/ ApproveDeletions \/ UNCHANGED vars
  BY <1>1, UntouchedHonest
  DEF EditLocal, ApproveDeletions, vars, fsVars, memVars, storeVars, engineVars, Standing,
      HonestInv, CursorBehind
<1>2. ASSUME NEW p \in Path, EditRemote(p) PROVE HonestInv'
  BY <1>2, UntouchedHonest
  DEF EditRemote, OthersChange, RemoteBecomes, engineVars, Standing, HonestInv,
      CursorBehind, FsTypeOK
<1> QED
  BY <1>1, <1>2

(* A cycle starts unforced only over memory or a store of its own scope.   *)
LEMMA StartHonest ==
  ASSUME Standing, StartCycle PROVE HonestInv'
<1> USE StandingFacts DEF Standing, HonestInv, StartCycle, fsVars, memVars, storeVars
<1>1. PlanStates' /\ CursorBehind' /\ FreshUntilLoaded' /\ RecordedIsStored'
  BY DEF PlanStates, CursorBehind, FreshUntilLoaded, RecordedIsStored
<1>2. MemoryHonest'
  BY DEF MemoryHonest, Settled, HeldPaths
<1>3. UnforcedIsHonest'
  BY DEF UnforcedIsHonest, HasCheckpoint, PeekFingerprint
<1>4. PlanHonest' /\ PlannedAbsent' /\ CycleScope' /\ CheckpointHonest'
  BY DEF PlanHonest, PlannedAbsent, CycleScope, CheckpointHonest
<1> QED
  BY <1>1, <1>2, <1>3, <1>4

LEMMA ScopeHonest ==
  ASSUME Standing, NEW s \in Fingerprint, SetScope(s) PROVE HonestInv'
<1> USE StandingFacts DEF Standing, HonestInv, SetScope, Event, fsVars, memVars, storeVars
<1>1. pc = "idle" /\ "setScope" \in Events
  BY DEF HonestEvents
<1>2. PlanStates' /\ CursorBehind' /\ FreshUntilLoaded' /\ RecordedIsStored'
  BY DEF PlanStates, CursorBehind, FreshUntilLoaded, RecordedIsStored
<1>3. MemoryHonest' /\ UnforcedIsHonest'
  BY <1>1 DEF MemoryHonest, UnforcedIsHonest, Settled, HeldPaths
<1>4. PlanHonest' /\ PlannedAbsent' /\ CycleScope' /\ CheckpointHonest'
  BY <1>1 DEF PlanHonest, PlannedAbsent, CycleScope, CheckpointHonest
<1> QED
  BY <1>2, <1>3, <1>4

(* The memory is lost, or both it and the checkpoint. *)
LEMMA FreshHonest ==
  ASSUME Standing, Crash \/ Reload \/ Rescan PROVE HonestInv'
<1> USE StandingFacts DEF Standing, HonestInv, FreshMemory
<1>1. CASE Reload
  <2> USE <1>1 DEF Reload, LoseMemory, Restart, ReturnFromCycle, storeVars
  <2>1. PlanStates' /\ CursorBehind' /\ FreshUntilLoaded' /\ RecordedIsStored'
    BY DEF PlanStates, CursorBehind, FreshUntilLoaded, RecordedIsStored
  <2>2. MemoryHonest' /\ UnforcedIsHonest' /\ PlanHonest'
    BY DEF MemoryHonest, UnforcedIsHonest, PlanHonest
  <2>3. PlannedAbsent' /\ CycleScope' /\ CheckpointHonest'
    BY DEF PlannedAbsent, NoPlan, CycleScope, CheckpointHonest
  <2> QED
    BY <2>1, <2>2, <2>3
<1>2. CASE Rescan
  <2> USE <1>2 DEF Rescan, ResetCheckpoint, engineVars
  <2>1. PlanStates' /\ CursorBehind' /\ FreshUntilLoaded' /\ RecordedIsStored'
    BY DEF PlanStates, CursorBehind, FreshUntilLoaded, RecordedIsStored
  <2>2. MemoryHonest' /\ UnforcedIsHonest' /\ PlanHonest'
    BY DEF MemoryHonest, UnforcedIsHonest, PlanHonest
  <2>3. PlannedAbsent' /\ CycleScope' /\ CheckpointHonest'
    BY DEF PlannedAbsent, PlanStates, NoPlan, CycleScope, CheckpointHonest
  <2> QED
    BY <2>1, <2>2, <2>3
<1>3. ~Crash
  BY DEF Crash, Event, HonestEvents
<1> QED
  BY <1>1, <1>2, <1>3

(* A file opened between cycles is brought up to date: its record is of    *)
(* the cached entry.                                                       *)
LEMMA OpenHonest ==
  ASSUME Standing, NEW p \in Path, PullSingle(p) PROVE HonestInv'
<1> USE StandingFacts DEF Standing, HonestInv, fsVars, memVars, storeVars
<1>1. /\ pc = "idle" /\ initialized /\ scan = "no" /\ SetRecord(p, remote[p], cache[p])
      /\ UNCHANGED fsVars
      /\ UNCHANGED <<trackerInitialized, recoverViaColdScan, pendingDeletions, approved,
                     scope, direct, pc, cycle, plan, failed, coldNeeded>>
  BY DEF PullSingle, Event, HonestEvents
<1>2. \A q \in Path : rec'[q].r = (IF q = p THEN cache[p] ELSE rec[q].r)
  BY <1>1 DEF SetRecord, EngineTypeOK
<1>3. PlanStates' /\ CursorBehind' /\ FreshUntilLoaded' /\ RecordedIsStored'
  BY <1>1 DEF PlanStates, CursorBehind, FreshUntilLoaded, RecordedIsStored
<1>4. MemoryHonest'
  BY <1>1, <1>2, CycleAssumption DEF MemoryHonest, Settled, HeldPaths, FsTypeOK
<1>5. UnforcedIsHonest' /\ PlanHonest' /\ PlannedAbsent' /\ CycleScope'
  BY <1>1 DEF UnforcedIsHonest, PlanHonest, PlannedAbsent, CycleScope
<1>6. CheckpointHonest'
  BY <1>1, <1>2, CycleAssumption DEF CheckpointHonest, FsTypeOK, CacheFaithful, CursorBehind
<1> QED
  BY <1>3, <1>4, <1>5, <1>6
(* Loading gives back what was committed, and a scan starts over nothing.  *)
LEMMA LoadingHonest ==
  ASSUME Standing, FileSystemStep \/ StatScanThrows PROVE HonestInv'
<1> USE StandingFacts DEF Standing, HonestInv, engineVars
<1>1. UNCHANGED engineVars /\ pc # "exec" /\ remote' = remote /\ UNCHANGED storeVars
  BY DEF FileSystemStep, StatScanThrows, PlanStates, LoadFromCache, BeginFullScan, EndFullScan,
         ScanThrows
<1>2. PlanHonest' /\ PlannedAbsent' /\ CheckpointHonest'
  BY <1>1 DEF PlanHonest, PlannedAbsent, PlanStates, NoPlan, CheckpointHonest, storeVars
<1>3. CASE LoadFromCache
  <2> USE <1>1, <1>3 DEF LoadFromCache, storeVars
  <2>1. PlanStates' /\ CursorBehind' /\ FreshUntilLoaded' /\ RecordedIsStored'
    BY DEF PlanStates, CursorBehind, FreshUntilLoaded, RecordedIsStored
  <2>2. MemoryHonest'
    <3>1. ASSUME NEW p \in storeFingerprint, storeFingerprint # NoFingerprint PROVE Settled(p)'
      <4>1. p \in Path /\ saved
        BY <3>1, CycleAssumption DEF FsTypeOK
      <4>2. storeCache[p] = Absent => rec[p].r = Absent
        BY <4>1 DEF RecordedIsStored, NoRecord
      <4>3. p \in storeUnseen \/ rec[p].r = storeCache[p]
        BY <3>1, <4>1 DEF CheckpointHonest, StoreFaithful
      <4> QED
        BY <4>1, <4>2, <4>3 DEF Settled
    <3> QED
      BY <3>1 DEF MemoryHonest
  <2>3. UnforcedIsHonest' /\ CycleScope'
    BY DEF UnforcedIsHonest, CycleScope
  <2> QED
    BY <1>2, <2>1, <2>2, <2>3
<1>4. CASE \/ \E kind \in {"stat", "detect", "expired"} : BeginFullScan(kind)
           \/ scan # "no" /\ (EndFullScan \/ ScanThrows)
  <2> USE <1>1, <1>4 DEF BeginFullScan, EndFullScan, ScanThrows, storeVars, HonestEvents
  <2>1. ~initialized /\ ~saved /\ fingerprint' = NoFingerprint
    BY DEF FreshUntilLoaded
  <2>2. PlanStates' /\ CursorBehind' /\ FreshUntilLoaded' /\ RecordedIsStored'
    BY <2>1 DEF PlanStates, CursorBehind, FreshUntilLoaded, RecordedIsStored
  <2>3. MemoryHonest' /\ UnforcedIsHonest' /\ CycleScope'
    BY <2>1 DEF MemoryHonest, UnforcedIsHonest, CycleScope
  <2> QED
    BY <1>2, <2>2, <2>3
<1> QED
  BY <1>3, <1>4 DEF FileSystemStep, StatScanThrows

(* Whatever throws between the start of a cycle and its commit leaves the  *)
(* recovery flag and the records alone; another attempt is for the same    *)
(* scope.                                                                  *)
LEMMA RetryHonest ==
  ASSUME Standing, pc # "idle", RetryOrGiveUp
  PROVE  /\ pc' # "exec" /\ plan' = NoPlan /\ failed' = FALSE /\ coldNeeded' = FALSE
         /\ pc' # "idle" => /\ cycle'.fingerprint = cycle.fingerprint
                            /\ cycle'.forced = cycle.forced
<1>1. cycle \in CycleType
  BY StandingFacts DEF EngineTypeOK
<1> QED
  BY <1>1 DEF RetryOrGiveUp, ReturnFromCycle, CycleType

LEMMA ThrowHonest ==
  ASSUME Standing, FetchFails \/ FetchBreaks PROVE HonestInv'
<1> USE StandingFacts DEF Standing, HonestInv, HonestEvents
<1>1. /\ pc = "detect" /\ RetryOrGiveUp
      /\ UNCHANGED <<local, rec, dirty, trackerInitialized, recoverViaColdScan,
                     pendingDeletions, approved, scope, direct>>
      /\ UNCHANGED <<remote, initialized, cache, touchedPaths, pendingFullPersist,
                     fingerprint, storeVars>>
      /\ \/ UNCHANGED <<unseen, scan>>
         \/ ~initialized /\ scan' = "no" /\ unseen' = {}
  BY DEF FetchFails, FetchBreaks, Event, ScanThrows, FreshUntilLoaded, FaithfulEvents, fsVars,
         memVars
<1>2. /\ pc' # "exec" /\ plan' = NoPlan /\ failed' = FALSE /\ coldNeeded' = FALSE
      /\ pc' # "idle" => /\ cycle'.fingerprint = cycle.fingerprint
                         /\ cycle'.forced = cycle.forced
  BY <1>1, RetryHonest
<1>3. PlanStates' /\ CursorBehind' /\ FreshUntilLoaded' /\ RecordedIsStored'
  BY <1>1, <1>2 DEF PlanStates, CursorBehind, FreshUntilLoaded, RecordedIsStored, storeVars
<1>4. MemoryHonest'
  BY <1>1, <1>2 DEF MemoryHonest, Settled, HeldPaths
<1>5. UnforcedIsHonest' /\ PlanHonest' /\ PlannedAbsent'
  BY <1>1, <1>2 DEF UnforcedIsHonest, PlanHonest, PlannedAbsent, NoPlan, storeVars
<1>6. CycleScope' /\ CheckpointHonest'
  BY <1>1, <1>2 DEF CycleScope, CheckpointHonest, storeVars
<1> QED
  BY <1>3, <1>4, <1>5, <1>6
(* What is left alone, pushed or deleted remotely has its baseline.        *)
LEMMA DecidedBaseline ==
  ASSUME NEW L, NEW R, NEW base, Decide(L, R, base) \in {"none"} \cup Blockable
  PROVE  base.r = R
<1>1. CASE base = NoRecord
  BY <1>1 DEF Decide, NoRecord, Blockable
<1>2. CASE base # NoRecord
  BY <1>2 DEF Decide, Blockable
<1> QED
  BY <1>1, <1>2

(* A path that nothing singles out was settled before the detection.       *)
LEMMA PassedOver ==
  ASSUME Standing, pc = "detect", NEW reported \in SUBSET Path,
         \/ initialized /\ scan = "no" /\ reported = Reported
         \/ ~initialized /\ scan # "no",
         NEW p \in scope, p \notin Candidates(reported)
  PROVE  rec[p].r = remote[p]
<1> USE StandingFacts DEF Standing, HonestInv
<1>1. /\ ~cycle.forced /\ p \notin reported /\ p \notin HeldPaths
      /\ cycle.fingerprint = scope /\ p \in Path
  BY DEF Candidates, Temperature, CycleScope
<1>2. initialized /\ scan = "no" /\ reported = Reported /\ fingerprint = scope
      /\ ~recoverViaColdScan
  BY <1>1 DEF UnforcedIsHonest, FreshUntilLoaded
<1>3. Settled(p)
  BY <1>2 DEF MemoryHonest
<1> QED
  BY <1>1, <1>2, <1>3 DEF Settled, Reported, CacheFaithful

LEMMA DetectHonest ==
  ASSUME Standing, ListingsComplete, Detect PROVE HonestInv'
<1> USE StandingFacts DEF Standing, HonestInv
<1>1. CacheFaithful /\ initialized /\ scan = "no" => CacheWithDelta(unseen) = remote
  BY DEF CacheFaithful, CacheWithDelta, FsTypeOK
<1>2. PICK reported \in SUBSET Path :
        /\ pc = "detect" /\ DetectAndPlan(reported, remote)
        /\ remote' = remote /\ cache' = remote /\ initialized' /\ scan' = "no"
        /\ UNCHANGED <<fingerprint, saved, storeCache, storeUnseen, storeFingerprint>>
        /\ \/ initialized /\ scan = "no" /\ reported = Reported /\ unseen' = {}
           \/ ~initialized /\ scan # "no" /\ unseen' = unseen
  BY <1>1 DEF Detect, DetectByDelta, DetectByScan, DetectByRescan, FetchDelta, EndFullScan,
              Reported, FreshUntilLoaded, storeVars, FsTypeOK
<1>3. /\ PlanFrom(reported, remote) /\ pc' = "exec"
      /\ failed' = FALSE /\ coldNeeded' = FALSE
      /\ UNCHANGED <<local, rec, dirty, trackerInitialized, recoverViaColdScan,
                     approved, scope, direct, cycle>>
  BY <1>2 DEF DetectAndPlan, ListingsComplete
<1> DEFINE planned == Planned(reported, remote)
<1>4. PICK velocityBlocked \in VelocityBlocks,
           blocked \in SUBSET {p \in Path : planned[p] \in Blockable} :
        LET held == IF Hold(planned, velocityBlocked) THEN Unapproved(planned) ELSE {}
        IN  /\ pendingDeletions' = held
            /\ plan' = [p \in Path |-> IF <<planned[p], p>> \in held \/ p \in blocked
                                       THEN "none" ELSE planned[p]]
  BY <1>3 DEF PlanFrom
<1>5. ASSUME NEW p \in scope, p \notin HeldPaths', plan'[p] \in {"none"} \cup Blockable
      PROVE  rec'[p].r = cache'[p]
  <2>1. p \in Path
    OBVIOUS
  <2>2. CASE p \in Candidates(reported)
    <3>1. planned[p] = Decide(local[p], remote[p], rec[p])
      BY <2>1, <2>2 DEF Planned
    <3>2. planned[p] \in {"none"} \cup Blockable
      BY <1>4, <1>5, <2>1 DEF HeldPaths
    <3> QED
      BY <1>2, <1>3, <3>1, <3>2, DecidedBaseline
  <2>3. CASE p \notin Candidates(reported)
    BY <1>2, <1>3, <2>3, PassedOver
  <2> QED
    BY <2>2, <2>3
<1>6. PlanStates' /\ CursorBehind' /\ FreshUntilLoaded' /\ RecordedIsStored'
  BY <1>2, <1>3 DEF PlanStates, CursorBehind, FreshUntilLoaded, RecordedIsStored
<1>7. MemoryHonest' /\ UnforcedIsHonest'
  BY <1>2, <1>3 DEF MemoryHonest, UnforcedIsHonest, FreshUntilLoaded
<1>8. PlanHonest'
  BY <1>2, <1>3, <1>5 DEF PlanHonest, Settled, CycleScope
<1>9. PlannedAbsent'
  BY <1>2, <1>3, PlannedFrom, DecidedAbsent DEF PlannedAbsent
<1>10. CycleScope'
  <2>1. ASSUME "setScope" \in Events PROVE ~Hold(planned, velocityBlocked)
    <3>1. MaxDeletions = 0 /\ velocityBlocked = FALSE
      BY <2>1 DEF HonestEvents
    <3>2. ~(MaxDeletions > 0)
      BY <3>1
    <3> QED
      BY <3>1, <3>2 DEF Hold
  <2>2. "setScope" \in Events => pendingDeletions' = {}
    BY <1>4, <2>1
  <2> QED
    BY <1>2, <1>3, <2>2 DEF CycleScope
<1>11. CheckpointHonest'
  BY <1>2, <1>3 DEF CheckpointHonest
<1> QED
  BY <1>6, <1>7, <1>8, <1>9, <1>10, <1>11
(* An executed action leaves a record of the cached content.               *)
LEMMA ExecutedIsRecorded ==
  ASSUME Standing, NEW p \in Path, ExecuteAction(p)
  PROVE  rec'[p].r = cache'[p] /\ UNCHANGED <<failed, coldNeeded>>
<1> USE StandingFacts, CycleAssumption
    DEF Standing, HonestInv, ExecuteAction, SetRecord, DropRecord, NoRecord, EngineTypeOK,
        FsTypeOK
<1>1. CASE Push(p)
  BY <1>1 DEF Push, WriteFile
<1>2. CASE Pull(p) \/ Match(p) \/ KeepRemote(p)
  BY <1>2 DEF Pull, Match, KeepRemote, fsVars, memVars
<1>3. CASE (plan[p] = "cleanup" /\ Cleanup(p)) \/ (plan[p] = "delete_local" /\ DeleteLocal(p))
  BY <1>3 DEF Cleanup, DeleteLocal, PlannedAbsent, fsVars, memVars
<1>4. CASE DeleteRemote(p)
  BY <1>4 DEF DeleteRemote, DeleteFile, fsVars, memVars
<1> QED
  BY <1>1, <1>2, <1>3, <1>4 DEF Perform

(* A failed one leaves the record as it was, and asks for a cold cycle or  *)
(* was only refused.                                                       *)
LEMMA FailedIsRemembered ==
  ASSUME Standing, NEW p \in Path,
         ActionOvertaken(p) \/ ActionFails(p) \/ ActionFailsLate(p) \/ ActionRefused(p)
  PROVE  /\ rec' = rec /\ failed' = TRUE
         /\ \/ coldNeeded' = TRUE
            \/ /\ plan[p] \in Blockable /\ UNCHANGED <<fsVars, coldNeeded>>
               /\ "quarantine" \in Events
BY StandingFacts
DEF ActionOvertaken, ActionFails, ActionFailsLate, ActionRefused, RecordFailure, Event,
    EngineTypeOK

LEMMA ExecutionHonest ==
  ASSUME Standing, FsInv', NEW p \in Path,
         \/ ExecuteAction(p) \/ ActionOvertaken(p) \/ ActionFails(p)
         \/ ActionFailsLate(p) \/ ActionRefused(p)
  PROVE  HonestInv'
<1> USE StandingFacts DEF Standing, HonestInv
<1>1. /\ pc = "exec" /\ UNCHANGED <<initialized, scan, saved, fingerprint, storeFingerprint>>
      /\ plan' = [plan EXCEPT ![p] = "none"]
      /\ UNCHANGED <<trackerInitialized, recoverViaColdScan, pendingDeletions, approved,
                     scope, direct, pc, cycle>>
      /\ unseen \subseteq unseen' /\ storeUnseen \subseteq storeUnseen'
      /\ saved => unseen' \ unseen \subseteq storeUnseen'
      /\ \A q \in Path \ {p} : cache'[q] = cache[q] /\ rec'[q] = rec[q]
      /\ initialized =>
           \A q \in Path : \/ remote'[q] = remote[q]
                           \/ q \in unseen' /\ (saved => q \in storeUnseen')
  BY ExecutionKeepsCursor DEF CycleInv
<1>2. initialized /\ scan = "no" /\ plan \in [Path -> Actions \cup {"none"}]
  BY <1>1 DEF PlanStates, EngineTypeOK
<1>3. \/ rec'[p].r = cache'[p] /\ UNCHANGED <<failed, coldNeeded>>
      \/ /\ rec' = rec /\ failed' = TRUE
         /\ \/ coldNeeded' = TRUE
            \/ /\ plan[p] \in Blockable /\ UNCHANGED <<fsVars, coldNeeded>>
               /\ "quarantine" \in Events
  BY ExecutedIsRecorded, FailedIsRemembered
<1>4. cycle.fingerprint = scope
  BY <1>1 DEF CycleScope
<1>5. PlanStates' /\ FreshUntilLoaded' /\ RecordedIsStored' /\ MemoryHonest'
  BY <1>1, <1>2 DEF PlanStates, FreshUntilLoaded, RecordedIsStored, MemoryHonest
<1>6. CursorBehind'
  BY <1>1, <1>2 DEF CursorBehind
<1>7. UnforcedIsHonest'
  BY <1>1 DEF UnforcedIsHonest
<1>8. PlanHonest'
  <2>1. ASSUME NEW q \in scope, q # p
        PROVE  (Settled(q) \/ coldNeeded \/ plan[q] \notin {"none"} \cup Blockable)'
    <3>1. Settled(q) => Settled(q)'
      BY <1>1, <2>1 DEF Settled, HeldPaths
    <3>2. coldNeeded => coldNeeded'
      BY <1>3
    <3> QED
      BY <1>1, <1>2, <1>4, <2>1, <3>1, <3>2 DEF PlanHonest
  <2>2. ASSUME p \in scope PROVE Settled(p)' \/ coldNeeded'
    <3>1. CASE plan[p] \in Blockable /\ UNCHANGED <<fsVars, coldNeeded, rec>>
      BY <1>1, <1>4, <2>2, <3>1 DEF PlanHonest, Settled, HeldPaths, fsVars, memVars
    <3> QED
      BY <1>3, <3>1 DEF Settled
  <2> QED
    BY <1>1, <1>4, <2>1, <2>2 DEF PlanHonest
<1>9. PlannedAbsent'
  BY <1>1, <1>2 DEF PlannedAbsent
<1>10. CycleScope'
  <2>1. coldNeeded' => failed'
    BY <1>3 DEF CycleScope
  <2>2. ASSUME "setScope" \in Events PROVE pendingDeletions' = {} /\ (failed' => coldNeeded')
    <3>1. "quarantine" \notin Events
      BY <2>2 DEF HonestEvents
    <3> QED
      BY <1>1, <1>3, <2>2, <3>1 DEF CycleScope
  <2> QED
    BY <1>1, <2>1, <2>2 DEF CycleScope
<1>11. CheckpointHonest'
  <2>1. ASSUME NEW q \in Path, saved,
               q \in storeUnseen \/ rec[q].r = remote[q]
        PROVE  q \in storeUnseen' \/ rec'[q].r = remote'[q]
    <3>1. CASE q # p \/ rec' = rec
      BY <1>1, <1>2, <2>1, <3>1
    <3>2. CASE q = p /\ rec'[p].r = cache'[p]
      BY <1>1, <1>2, <1>6, <2>1, <3>2 DEF FsInv, CacheFaithful, CursorBehind, HonestEvents
    <3> QED
      BY <1>3, <3>1, <3>2
  <2> QED
    BY <1>1, <2>1, CycleAssumption DEF CheckpointHonest, FsTypeOK
<1> QED
  BY <1>5, <1>6, <1>7, <1>8, <1>9, <1>10, <1>11
(* The end of a cycle.  It commits over settled paths only, and if it does *)
(* not commit then either every path of its scope is settled or the next   *)
(* cycle is cold.                                                          *)
LEMMA CleanIsSettled ==
  ASSUME Standing, Executed
  PROVE  /\ ~coldNeeded => \A p \in scope : Settled(p)
         /\ cycle.fingerprint = scope /\ initialized /\ scan = "no"
         /\ "setScope" \in Events /\ ~coldNeeded => CleanCycle
<1> USE StandingFacts DEF Standing, HonestInv, Executed
<1>1. cycle.fingerprint = scope /\ initialized /\ scan = "no"
  BY DEF CycleScope, PlanStates
<1>2. \A p \in scope : plan[p] = "none"
  BY DEF NoPlan
<1>3. ~coldNeeded => \A p \in scope : Settled(p)
  BY <1>1, <1>2 DEF PlanHonest
<1>4. "setScope" \in Events /\ ~coldNeeded => CleanCycle
  BY DEF CycleScope, CleanCycle
<1> QED
  BY <1>1, <1>3, <1>4

LEMMA CompletionHonest ==
  ASSUME Standing, CompleteCycle \/ CommitFails \/ SaveSettingsFails \/ AuthAbort
  PROVE  HonestInv'
<1> USE StandingFacts, CleanIsSettled DEF Standing, HonestInv, Settled, HeldPaths
<1>1. CASE CompleteCycle
  <2> USE <1>1 DEF CompleteCycle, ReturnFromCycle
  <2>1. CASE CleanCycle
    <3>1. CommitCheckpoint(scope) /\ ~coldNeeded
      BY <2>1 DEF CommitIfClean, CleanCycle, CycleScope
    <3> USE <3>1 DEF CommitCheckpoint
    <3>2. PlanStates' /\ CursorBehind' /\ FreshUntilLoaded' /\ RecordedIsStored'
      BY DEF PlanStates, CursorBehind, FreshUntilLoaded, RecordedIsStored
    <3>3. MemoryHonest' /\ UnforcedIsHonest' /\ PlanHonest'
      BY DEF MemoryHonest, UnforcedIsHonest, PlanHonest
    <3>4. PlannedAbsent' /\ CycleScope'
      BY DEF PlannedAbsent, NoPlan, CycleScope
    <3>5. CheckpointHonest'
      BY <2>1 DEF CheckpointHonest, CleanCycle, CacheFaithful
    <3> QED
      BY <3>2, <3>3, <3>4, <3>5
  <2>2. CASE ~CleanCycle
    <3>1. UNCHANGED fsVars
      BY <2>2 DEF CommitIfClean
    <3> USE <3>1 DEF fsVars, memVars, storeVars
    <3>2. PlanStates' /\ CursorBehind' /\ FreshUntilLoaded' /\ RecordedIsStored'
      BY DEF PlanStates, CursorBehind, FreshUntilLoaded, RecordedIsStored
    <3>3. MemoryHonest'
      BY <2>2 DEF MemoryHonest, CycleScope
    <3>4. UnforcedIsHonest' /\ PlanHonest' /\ PlannedAbsent'
      BY DEF UnforcedIsHonest, PlanHonest, PlannedAbsent, NoPlan
    <3>5. CycleScope' /\ CheckpointHonest'
      BY DEF CycleScope, CheckpointHonest
    <3> QED
      BY <3>2, <3>3, <3>4, <3>5
  <2> QED
    BY <2>1, <2>2
<1>2. CASE CommitFails
  <2>1. /\ CommitThrows(scope) /\ ~coldNeeded /\ RetryOrGiveUp /\ pc # "idle"
        /\ UNCHANGED <<local, rec, dirty, trackerInitialized, recoverViaColdScan,
                       pendingDeletions, scope, direct>>
    BY <1>2 DEF CommitFails, CleanCycle, CycleScope, Executed
  <2>2. /\ pc' # "exec" /\ plan' = NoPlan /\ failed' = FALSE /\ coldNeeded' = FALSE
        /\ pc' # "idle" => /\ cycle'.fingerprint = cycle.fingerprint
                           /\ cycle'.forced = cycle.forced
    BY <2>1, RetryHonest
  <2> USE <1>2, <2>1, <2>2 DEF CommitThrows, CommitFails, storeVars
  <2>3. PlanStates' /\ CursorBehind' /\ FreshUntilLoaded' /\ RecordedIsStored'
    BY DEF PlanStates, CursorBehind, FreshUntilLoaded, RecordedIsStored
  <2>4. MemoryHonest' /\ PlanHonest' /\ PlannedAbsent'
    BY DEF MemoryHonest, PlanHonest, PlannedAbsent, NoPlan
  <2>5. UnforcedIsHonest' /\ CycleScope' /\ CheckpointHonest'
    BY DEF UnforcedIsHonest, CycleScope, CheckpointHonest
  <2> QED
    BY <2>3, <2>4, <2>5
<1>3. ~SaveSettingsFails /\ ~AuthAbort
  BY DEF SaveSettingsFails, AuthAbort, Event, HonestEvents
<1> QED
  BY <1>1, <1>2, <1>3

LEMMA HonestInit == HonestEvents /\ Init => HonestInv
<1> SUFFICES ASSUME Init PROVE HonestInv
  OBVIOUS
<1> USE DEF Init, FsInit
<1>1. PlanStates /\ CursorBehind /\ FreshUntilLoaded /\ RecordedIsStored
  BY DEF PlanStates, CursorBehind, FreshUntilLoaded, RecordedIsStored
<1>2. MemoryHonest /\ UnforcedIsHonest /\ PlanHonest /\ PlannedAbsent
  BY DEF MemoryHonest, UnforcedIsHonest, PlanHonest, PlannedAbsent, NoPlan
<1>3. CycleScope /\ CheckpointHonest
  BY DEF CycleScope, CheckpointHonest
<1> QED
  BY <1>1, <1>2, <1>3 DEF HonestInv

LEMMA HonestStep ==
  ASSUME HonestEvents, CycleInv, FsInv, FsInv', ListingsComplete, HonestInv, [Next]_vars
  PROVE  HonestInv'
<1>1. Standing
  BY DEF Standing
<1>2. ASSUME NEW p \in Path PROVE ~DirectDelete(p) /\ ~DirectCommit(p) /\ ~DirectForget(p)
                                  /\ ~DirectVaultDelete(p)
  BY <1>1
  DEF Standing, HonestInv, CycleScope, NoDirect, HonestEvents, Event, DirectDelete,
      DirectCommit, DirectForget, DirectVaultDelete
<1>3. CASE DetectThrows
  BY <1>1, <1>3 DEF DetectThrows, Event, HonestEvents
<1>4. CASE Execute \/ \E p \in Path : ActionFails(p) \/ ActionFailsLate(p) \/ ActionRefused(p)
  BY <1>1, <1>4, ExecutionHonest DEF Execute
<1>5. CASE \E s \in Fingerprint : SetScope(s)
  BY <1>1, <1>5, ScopeHonest
<1>6. CASE \E p \in Path : PullSingle(p)
  BY <1>1, <1>6, OpenHonest
<1> QED
  BY <1>1, <1>2, <1>3, <1>4, <1>5, <1>6, OutsideHonest, StartHonest, FreshHonest, LoadingHonest,
     ThrowHonest, DetectHonest, CompletionHonest DEF Next

(* The inductive invariant of the engine, over complete listings.          *)
THEOREM HonestInvariant ==
  ASSUME HonestEvents PROVE Spec /\ []ListingsComplete => []HonestInv
<1>1. Init => HonestInv
  BY HonestInit
<1>2. CycleInv /\ FsInv /\ FsInv' /\ ListingsComplete /\ HonestInv /\ [Next]_vars => HonestInv'
  BY HonestStep
<1>3. Spec => []CycleInv
  BY CycleInit, CycleStep, PTL DEF Spec
<1>4. Spec => []FsInv
  BY EngineRefinesFs, FsInvariant
<1> QED
  BY <1>1, <1>2, <1>3, <1>4, PTL DEF Spec

(* No remote change is lost for a restart: of every path in the committed  *)
(* scope the record baselines the remote content, or the committed cursor  *)
(* will report it, whatever cycles failed, were retried or were cut off by *)
(* a reload in between (ADR 0001, rule A; orchestrator.ts cleanCycle).     *)
THEOREM NoChangeLostForRestart ==
  ASSUME HonestEvents PROVE Spec /\ []ListingsComplete => []CheckpointHonest
<1>1. HonestInv => CheckpointHonest
  BY DEF HonestInv
<1> QED
  BY <1>1, HonestInvariant, PTL

(* And none for the next cycle of this process, which starts from memory.  *)
THEOREM NoChangeLostForSession ==
  ASSUME HonestEvents PROVE Spec /\ []ListingsComplete => []SessionHonest
<1>1. HonestInv => SessionHonest
  BY DEF HonestInv, MemoryHonest, SessionHonest, Settled
<1> QED
  BY <1>1, HonestInvariant, PTL
=============================================================================
