--------------------------- MODULE Backend_proofs ---------------------------
(***************************************************************************)
(* The life of a binding for any backends and any folders.  BindingInv     *)
(* says whose target each part of the state is about while an operation is *)
(* between two of its awaits; OwnRecords follows from it.  ResumeInv adds  *)
(* what makes it safe to resume a checkpoint: wherever a store has a       *)
(* cursor and the records are not all there, the store is about to be      *)
(* reset and nothing runs on it before; ResumesWhole follows from it.      *)
(***************************************************************************)
EXTENDS Backend, TLAPS

(* OwnRecords needs the saves that bind a folder, or record the synced     *)
(* identity, not to throw, nor the record store in a disconnect.           *)
BindingSaved == "identity" \notin Faults /\ "teardown" \notin Faults

(* ResumesWhole needs the checkpoint store not to throw either, and none   *)
(* of the four schedules that resume an outdated store.                    *)
CheckpointsReset ==
  /\ BindingSaved /\ "reset" \notin Faults
  /\ Modes \cap {"returns", "abandons", "relists", "edits"} = {}

-----------------------------------------------------------------------------
(* The invariant behind OwnRecords.                                        *)

(* The phases an operation of each kind goes through. *)
PhaseKinds ==
  /\ op.at \in {"reset", "clear"} => op.kind \in {"connect", "authPick", "disconnect", "switch"}
  /\ op.at \in {"auth", "saveAuth"} => op.kind \in {"connect", "authPick"}
  /\ op.at \in {"rebuild", "saveId"} => op.kind = "connect"
  /\ op.at \in {"choose", "savePick"} => op.kind \in {"authPick", "pick", "bind"}
  /\ op.at \in {"revoke", "saveOff"} => op.kind = "disconnect"
  /\ op.at \in {"sweep", "saveSwitch"} => op.kind = "switch"
  /\ op.kind = "switch" /\ op.at \in {"reset", "clear"} => secrets = {}
  /\ op.changed => op.at \in {"initSave", "build", "initReset"}

(* A cycle works on the target the settings say was last synced. *)
CycleTarget ==
  isLocked => cycle.asked = cycle.fs /\ cycle.fs = settings.synced /\ cycle.fs # None

(* So does the live file system, but while a new identity is being saved or *)
(* the old one is being forgotten.                                          *)
LiveTarget ==
  remoteFs \notin {None, settings.synced} =>
    op.at = "saveOff" \/ (op.changed /\ op.at \in {"initSave", "build"})

(* What initBackend builds is the target it recorded. *)
BuiltTarget ==
  /\ op.at \in {"initSave", "build"} /\ isConnected(settings) =>
       settings.data.folder = settings.synced
  /\ op.at = "initClear" => op.id # None
  /\ op.at = "initClear" /\ isConnected(settings) => settings.data.folder = op.id
  /\ op.changed => ~isLocked

(* Records are those of the target synced last. *)
RecordsTarget ==
  /\ records.of = None => records = NoRecords
  /\ records.of \in {None, settings.synced}

(* The identity in memory is the saved one, but while it is being saved. *)
SavedIdentity ==
  settings.synced \notin {None, disk.synced} => op.at \in {"initSave", "saveId"}

(* Where the identity changes there are no records and no cycle. *)
ClearedPhases ==
  op.at \in {"rebuild", "saveId", "initSave", "revoke", "saveOff", "saveSwitch"} =>
    records = NoRecords /\ ~isLocked

(* A backend that keeps its folder has one before it has tokens, so that its *)
(* folder id cannot be edited under an operation that will connect it.       *)
NoFolder(s) == s.type \in KeepsFolder /\ s.data.folder = None
FolderFirst ==
  /\ NoFolder(settings) => settings.type \notin secrets /\ ~settings.data.auth /\ op.at # "auth"
  /\ NoFolder(disk) => disk.type \notin secrets /\ ~disk.data.auth
  /\ op.at = "auth" /\ settings.type \in KeepsFolder => op.held.folder # None /\ ~op.held.pick
  /\ NoFolder(disk) /\ disk.type = settings.type => settings.data.folder = None
  /\ settings.data.pick => settings.type \notin KeepsFolder
  /\ disk.data.pick => disk.type \notin KeepsFolder
  /\ op.kind \in {"authPick", "pick", "bind"} => settings.type \notin KeepsFolder

BindingInv ==
  /\ TypeOK /\ PhaseKinds /\ CycleTarget /\ LiveTarget /\ BuiltTarget
  /\ RecordsTarget /\ SavedIdentity /\ ClearedPhases /\ FolderFirst

-----------------------------------------------------------------------------
(* Types.                                                                  *)

(* Records are updated one field at a time. *)
LEMMA DataUpdate ==
  \A d \in Data : 
    /\ \A t \in Targets \cup {None} : [d EXCEPT !.folder = t] \in Data
    /\ \A b \in BOOLEAN : [d EXCEPT !.auth = b] \in Data /\ [d EXCEPT !.pick = b] \in Data
BY DEF Data

LEMMA SettingsUpdate ==
  \A s \in Settings :
    /\ s.data \in Data
    /\ \A d \in Data : [s EXCEPT !.data = d] \in Settings
    /\ \A t \in Targets \cup {None} : [s EXCEPT !.synced = t] \in Settings
BY DEF Settings

LEMMA OperationUpdate ==
  \A o \in Operations :
    /\ \A at \in Phases : [o EXCEPT !.at = at] \in Operations
    /\ \A kind \in Kinds : [o EXCEPT !.kind = kind] \in Operations
    /\ \A d \in Data : [o EXCEPT !.held = d] \in Operations
    /\ \A t \in Targets \cup {None} : [o EXCEPT !.id = t] \in Operations
    /\ \A b \in BOOLEAN : /\ [o EXCEPT !.changed = b] \in Operations
                          /\ [o EXCEPT !.then = b] \in Operations
BY DEF Operations

(* The initial values. *)
LEMMA NoneTypes ==
  /\ NoData \in Data /\ Idle \in Operations /\ NoCycle \in Cycles
  /\ \A ty \in Types : Fresh(ty) \in Settings
  /\ NoRecords \in [of : Targets \cup {None}, whole : BOOLEAN]
BY DEF NoData, Data, Idle, Operations, Phases, Kinds, NoCycle, Cycles, Fresh, Settings,
       NoRecords

(* What the operations are made of. *)
LEMMA CycleType ==
  ASSUME NEW asked \in Targets \cup {None}, NEW fs \in Targets \cup {None},
         NEW d \in BOOLEAN
  PROVE  [asked |-> asked, fs |-> fs, hit |-> FALSE, delta |-> d] \in Cycles
BY DEF Cycles

LEMMA CycleIs ==
  ASSUME NEW asked \in Targets \cup {None}, NEW fs \in Targets \cup {None}, NEW ck
  PROVE  Cycle(asked, fs, ck) \in Cycles
BY CycleType DEF Cycle, ByDelta

LEMMA CompareType ==
  ASSUME NEW s \in Settings, NEW o \in Operations, Compare(s, o)
  PROVE  settings' \in Settings /\ op' \in Operations
<1> DEFINE id == s.data.folder
           new == id # None /\ id # s.synced
           at == IF ~new THEN "build"
                 ELSE IF s.synced # None THEN "initClear" ELSE "initSave"
<1>1. id \in Targets \cup {None}
  BY DEF Settings, Data
<1>2. settings' \in Settings
  BY <1>1, SettingsUpdate DEF Compare
<1>3. at \in Phases
  BY DEF Phases
<1>4. op' = [[o EXCEPT !.id = id] EXCEPT !.at = at]
  BY DEF Compare
<1> HIDE DEF at
<1>5. op' \in Operations
  BY <1>1, <1>3, <1>4, OperationUpdate
<1> QED BY <1>2, <1>5

(* What a comparison finds: the target already synced, another one, or the *)
(* first one, whose identity is recorded at once.                          *)
LEMMA Compared ==
  ASSUME NEW s \in Settings, NEW o \in Operations, Compare(s, o)
  PROVE  /\ op'.kind = o.kind /\ op'.changed = o.changed /\ op'.id = s.data.folder
         /\ settings'.type = s.type /\ settings'.data = s.data
         /\ \/ /\ op'.at = "build" /\ settings' = s
               /\ s.data.folder \in {None, s.synced}
            \/ /\ op'.at = "initClear" /\ settings' = s
               /\ s.synced # None /\ s.data.folder \notin {None, s.synced}
            \/ /\ op'.at = "initSave" /\ s.synced = None
               /\ s.data.folder # None /\ settings'.synced = s.data.folder
<1> DEFINE id == s.data.folder
           new == id # None /\ id # s.synced
           at == IF ~new THEN "build"
                 ELSE IF s.synced # None THEN "initClear" ELSE "initSave"
<1>1. op' = [[o EXCEPT !.id = id] EXCEPT !.at = at]
  BY DEF Compare
<1>2. /\ op'.kind = o.kind /\ op'.changed = o.changed /\ op'.id = id /\ op'.at = at
  <2> HIDE DEF at, id
  <2> QED BY <1>1 DEF Operations
<1>3. settings' = IF new /\ s.synced = None THEN [s EXCEPT !.synced = id] ELSE s
  BY DEF Compare
<1>4. settings'.type = s.type /\ settings'.data = s.data
      /\ (new /\ s.synced = None => settings'.synced = id)
      /\ (~(new /\ s.synced = None) => settings' = s)
  <2> HIDE DEF new, id
  <2> QED BY <1>3 DEF Settings
<1> QED BY <1>2, <1>4

LEMMA LaunchType ==
  ASSUME TypeOK, NEW fs \in Targets \cup {None}, NEW ck, NEW again \in BOOLEAN,
         Launch(fs, ck, again)
  PROVE  cycle' \in Cycles /\ pending' \in BOOLEAN
<1>1. Cycle(fs, fs, ck) \in Cycles
  BY CycleIs
<1>2. cycle' \in {cycle, Cycle(fs, fs, ck)}
  BY DEF Launch
<1>3. pending' \in {pending, pending \/ again, again}
  BY DEF Launch
<1>4. pending' \in BOOLEAN
  BY <1>3 DEF TypeOK
<1> QED BY <1>1, <1>2, <1>4 DEF TypeOK

LEMMA CloseType ==
  ASSUME TypeOK, NEW fs \in Targets \cup {None}, NEW signal \in BOOLEAN, Close(fs, signal)
  PROVE  /\ op' = Idle /\ op' \in Operations
         /\ remoteFs' = fs /\ cycle' \in Cycles /\ pending' \in BOOLEAN
<1>1. op' = Idle /\ remoteFs' = fs
  BY DEF Close
<1>2. op.then \in BOOLEAN
  BY DEF TypeOK, Operations
<1>3. cycle' \in Cycles /\ pending' \in BOOLEAN
  BY <1>2, LaunchType DEF Close, TypeOK
<1> QED BY <1>1, <1>3, NoneTypes

LEMMA GoType ==
  ASSUME TypeOK, NEW at \in Phases, Go(at)
  PROVE  op' \in Operations
BY OperationUpdate DEF TypeOK, Go

LEMMA EnterType ==
  ASSUME TypeOK, NEW kind \in Kinds, NEW at \in Phases, Enter(kind, at)
  PROVE  TypeOK'
<1>1. op' = [[[Idle EXCEPT !.kind = kind] EXCEPT !.at = at] EXCEPT !.held = settings.data]
  BY DEF Enter
<1>2. op' \in Operations
  BY <1>1, NoneTypes, OperationUpdate, SettingsUpdate DEF TypeOK
<1> QED
  BY <1>2 DEF TypeOK, Enter, sync

(* Every step keeps the types; that the phase of resetAll knows its kind,  *)
(* and that a cycle has a target, is needed for it.                        *)
LEMMA TypeSteps ==
  ASSUME TypeOK, PhaseKinds, CycleTarget, Next
  PROVE  TypeOK'
<1>c. createFs(settings) \in Targets \cup {None} /\ isConnected(settings) \in BOOLEAN
  BY DEF TypeOK, createFs, isConnected, Settings, Data
<1>1. CASE initBackend
  <2>1. CASE InitCompare
    BY <2>1, CompareType DEF InitCompare, TypeOK, sync
  <2>2. CASE InitClear
    <3>1. op' = [[op EXCEPT !.at = "initSave"] EXCEPT !.changed = TRUE]
      BY <2>2 DEF InitClear
    <3>2. op' \in Operations
      BY <3>1, OperationUpdate DEF TypeOK, Phases
    <3>3. op.id \in Targets \cup {None}
      BY DEF TypeOK, Operations
    <3> QED BY <2>2, <3>2, <3>3, SettingsUpdate, NoneTypes
            DEF InitClear, TypeOK, clearSyncState
  <2>3. CASE InitSave
    BY <2>3, GoType DEF InitSave, TypeOK, sync, Phases
  <2>4. CASE InitBuild
    BY <2>4, <1>c, GoType, CloseType DEF InitBuild, TypeOK, sync, Phases
  <2>5. CASE InitReset
    BY <2>5, CloseType DEF InitReset, TypeOK, sync
  <2>6. CASE InitThrows
    BY <2>6, CloseType DEF InitThrows, TypeOK, sync
  <2> QED BY <1>1, <2>1, <2>2, <2>3, <2>4, <2>5, <2>6 DEF initBackend
<1>2. CASE CompleteAuth
  <2> DEFINE bag == IF op.kind = "connect" THEN op.held ELSE settings.data
  <2>1. bag \in Data
    BY DEF TypeOK, Operations, Settings
  <2>2. settings' = [settings EXCEPT !.data = [bag EXCEPT !.auth = FALSE]]
    BY <1>2 DEF CompleteAuth
  <2> HIDE DEF bag
  <2>3. settings' \in Settings
    BY <2>1, <2>2, DataUpdate, SettingsUpdate DEF TypeOK
  <2>4. settings.type \in Types
    BY DEF TypeOK, Settings
  <2> QED BY <1>2, <2>3, <2>4, GoType DEF CompleteAuth, TypeOK, sync, Phases
<1>3. CASE SaveSettings
  BY <1>3, GoType, CloseType DEF SaveSettings, TypeOK, sync, Phases
<1>4. CASE ResetAllCheckpoint
  <2>1. cycle' \in Cycles
    BY <1>4 DEF ResetAllCheckpoint, TypeOK, Forget, Cycles
  <2> QED BY <1>4, <2>1, GoType DEF ResetAllCheckpoint, TypeOK, sync, Phases, Forget
<1>5. CASE ResetAllRecords
  <2>1. op' \in Operations
    BY <1>5, GoType DEF ResetAllRecords, PhaseKinds, Phases
  <2> QED BY <1>5, <2>1, NoneTypes DEF ResetAllRecords, TypeOK, clearSyncState
<1>6. CASE Rebuild
  <2>1. /\ op' \in Operations /\ remoteFs' \in Targets \cup {None}
        /\ cycle' \in Cycles /\ pending' \in BOOLEAN
    BY <1>6, <1>c, GoType, CloseType DEF Rebuild, TypeOK, Phases
  <2>2. settings.data.folder \in Targets \cup {None}
    BY DEF TypeOK, Settings, Data
  <2> QED BY <1>6, <2>1, <2>2, SettingsUpdate DEF Rebuild, TypeOK, sync
<1>7. CASE ChooseFolder
  <2>1. PICK t \in Targets :
          settings' = [settings EXCEPT !.data.folder = t, !.data.pick = @ /\ op.kind = "bind"]
    BY <1>7 DEF ChooseFolder
  <2>2. settings.data \in Data
    BY SettingsUpdate DEF TypeOK
  <2>3. [settings.data EXCEPT !.folder = t] \in Data
    BY <2>2, DataUpdate
  <2> DEFINE d == [[settings.data EXCEPT !.folder = t]
                     EXCEPT !.pick = settings.data.pick /\ op.kind = "bind"]
  <2>4. d \in Data
    BY <2>3, DataUpdate
  <2>5. settings' = [settings EXCEPT !.data = d]
    BY <2>1, <2>2 DEF TypeOK, Settings
  <2> QED BY <1>7, <2>4, <2>5, GoType, SettingsUpdate DEF ChooseFolder, TypeOK, sync, Phases
<1>8. CASE Revoke
  <2>1. settings' = [Fresh(settings.type) EXCEPT
                       !.data = [Fresh(settings.type).data EXCEPT
                                   !.folder = IF settings.type \in KeepsFolder
                                              THEN settings.data.folder ELSE None]]
    BY <1>8 DEF Revoke
  <2>2. settings.type \in Types /\ settings.data.folder \in Targets \cup {None}
    BY DEF TypeOK, Settings, Data
  <2>3. settings' \in Settings
    BY <2>1, <2>2, NoneTypes, SettingsUpdate, DataUpdate
  <2> QED BY <1>8, <2>3, GoType DEF Revoke, TypeOK, sync, Phases
<1>9. CASE SweepSecrets
  BY <1>9, GoType DEF SweepSecrets, TypeOK, sync, Phases
<1>10. CASE ProviderRefuses
  BY <1>10, CloseType DEF ProviderRefuses, TypeOK, sync
<1>11. CASE OperationThrows
  BY <1>11, GoType, CloseType DEF OperationThrows, TypeOK, sync, Phases
<1>12. CASE StartBackendConnect
  <2>1. settings' \in Settings
    BY <1>12, SettingsUpdate, DataUpdate DEF StartBackendConnect, TypeOK
  <2> QED BY <1>12, <2>1 DEF StartBackendConnect, TypeOK, sync
<1>13. CASE StartBackendFolderPick
  <2> DEFINE d == [[settings.data EXCEPT !.auth = TRUE] EXCEPT !.pick = TRUE]
  <2>1. d \in Data
    BY SettingsUpdate, DataUpdate DEF TypeOK
  <2>2. settings' = [settings EXCEPT !.data = d]
    BY <1>13 DEF StartBackendFolderPick, TypeOK, Settings
  <2> HIDE DEF d
  <2>3. settings' \in Settings
    BY <2>1, <2>2, SettingsUpdate DEF TypeOK
  <2> QED BY <1>13, <2>3 DEF StartBackendFolderPick, TypeOK, sync
<1>14. CASE \/ CompleteBackendConnect \/ CompleteBackendAuthFolderPick
            \/ CompleteBackendFolderPick \/ BindDefaultRemoteVault
            \/ DisconnectBackend \/ SwitchBackend
  BY <1>14, EnterType
  DEF CompleteBackendConnect, CompleteBackendAuthFolderPick, CompleteBackendFolderPick,
      BindDefaultRemoteVault, DisconnectBackend, SwitchBackend, Kinds, Phases
<1>15. ASSUME NEW t \in Targets, EditFolder(t) PROVE TypeOK'
  <2>1. settings' \in Settings
    BY <1>15, SettingsUpdate, DataUpdate DEF EditFolder, TypeOK
  <2> DEFINE o == [[Idle EXCEPT !.kind = "init"] EXCEPT !.at = "compare"]
  <2>2. o \in Operations
    BY NoneTypes, OperationUpdate DEF Kinds, Phases
  <2>3. op' \in Operations
    BY <1>15, <2>2 DEF EditFolder, TypeOK
  <2> QED BY <1>15, <2>1, <2>3 DEF EditFolder, TypeOK, sync
<1>16. CASE RunSync
  <2> DEFINE o == [[Idle EXCEPT !.kind = "init"] EXCEPT !.then = TRUE]
  <2>1. o \in Operations
    BY NoneTypes, OperationUpdate DEF Kinds
  <2>2. settings' \in Settings /\ op' \in Operations
    BY <1>16, <2>1, CompareType DEF RunSync, TypeOK
  <2>3. Cycle(remoteFs, remoteFs, ckpt) \in Cycles
    BY CycleIs DEF TypeOK
  <2>4. cycle' \in Cycles /\ pending' \in BOOLEAN
    BY <1>16, <2>3, Zenon DEF RunSync, TypeOK
  <2> QED BY <1>16, <2>2, <2>4 DEF RunSync, TypeOK, sync
<1>17. CASE VaultChange
  <2>1. tracker' \in [ready : BOOLEAN, dirty : BOOLEAN]
    BY <1>17 DEF VaultChange, TypeOK
  <2> QED BY <1>17, <2>1 DEF VaultChange, TypeOK
<1>18. CASE DebouncedSync
  <2>1. Cycle(remoteFs, remoteFs, ckpt) \in Cycles
    BY CycleIs DEF TypeOK
  <2>2. cycle' \in Cycles /\ pending' \in BOOLEAN
    BY <1>18, <2>1, Zenon DEF DebouncedSync, runSync, TypeOK
  <2> QED BY <1>18, <2>2 DEF DebouncedSync, TypeOK, sync
<1>19. CASE EndCycle
  <2>1. cycle.asked \in Targets \cup {None} /\ cycle.fs \in Targets \cup {None}
    BY DEF TypeOK, Cycles
  <2> DEFINE delta == ByDelta(cycle.asked, records', tracker', ckpt', recover')
  <2>a. delta \in BOOLEAN
    BY DEF ByDelta
  <2>b. remoteFs \in Targets \cup {None}
    BY DEF TypeOK
  <2> HIDE DEF delta
  <2>c. [asked |-> cycle.asked, fs |-> remoteFs, hit |-> FALSE, delta |-> delta] \in Cycles
    BY <2>1, <2>a, <2>b, CycleType
  <2>2. cycle' \in Cycles
    BY <1>19, <2>c, NoneTypes DEF EndCycle, delta
  <2>3. records' \in [of : Targets \cup {None}, whole : BOOLEAN] /\ recover' \in BOOLEAN
    BY <1>19, <2>1 DEF EndCycle
  <2>4. disk' \in Settings
    BY <1>19 DEF EndCycle, TypeOK
  <2>5. cycle.fs \in Targets => ckpt' \subseteq Targets
    BY <1>19 DEF EndCycle, TypeOK
  <2>6. cycle.fs = None => ckpt' \subseteq Targets
    BY <1>19 DEF EndCycle, TypeOK, CycleTarget
  <2> QED BY <1>19, <2>1, <2>2, <2>3, <2>4, <2>5, <2>6 DEF EndCycle, TypeOK
<1>20. CASE Reload
  <2> DEFINE o == [Idle EXCEPT !.kind = "init"]
  <2>1. o \in Operations
    BY NoneTypes, OperationUpdate DEF Kinds
  <2>2. settings' \in Settings /\ op' \in Operations
    BY <1>20, <2>1, CompareType DEF Reload, TypeOK
  <2> QED BY <1>20, <2>2, NoneTypes DEF Reload, TypeOK
<1> QED
  BY <1>1, <1>2, <1>3, <1>4, <1>5, <1>6, <1>7, <1>8, <1>9, <1>10, <1>11, <1>12,
     <1>13, <1>14, <1>15, <1>16, <1>17, <1>18, <1>19, <1>20
  DEF Next, Operation, User

-----------------------------------------------------------------------------
(* BindingInv is inductive.                                                *)

LEMMA BindingInit == Init => BindingInv
<1> SUFFICES ASSUME Init PROVE BindingInv
  OBVIOUS
<1>1. PICK ty \in Types : settings = Fresh(ty)
  BY DEF Init
<1>2. TypeOK
  BY <1>1, NoneTypes DEF Init, TypeOK
<1> QED
  BY <1>1, <1>2
  DEF Init, Fresh, Idle, NoData, NoRecords, BindingInv, PhaseKinds, CycleTarget, LiveTarget,
      BuiltTarget, RecordsTarget, SavedIdentity, ClearedPhases, FolderFirst, NoFolder,
      isLocked, isConnected

(* A comparison of identities, made on the settings in memory or, after a  *)
(* reload, on those of the disk.                                           *)
LEMMA CompareBinding ==
  ASSUME TypeOK', NEW s \in Settings, NEW o \in Operations, Compare(s, o), ~o.changed,
         UNCHANGED <<disk, secrets, records>>,
         isLocked' => cycle'.asked = cycle'.fs /\ cycle'.fs = s.synced /\ cycle'.fs # None,
         remoteFs' \in {None, s.synced},
         records.of = None => records = NoRecords,
         records.of \in {None, s.synced},
         s.synced \in {None, disk.synced},
         NoFolder(s) => s.type \notin secrets /\ ~s.data.auth,
         NoFolder(disk) => disk.type \notin secrets /\ ~disk.data.auth,
         NoFolder(disk) /\ disk.type = s.type => s.data.folder = None,
         s.data.pick => s.type \notin KeepsFolder,
         disk.data.pick => disk.type \notin KeepsFolder,
         o.kind \in {"authPick", "pick", "bind"} => s.type \notin KeepsFolder
  PROVE  BindingInv'
<1>1. /\ op'.kind = o.kind /\ ~op'.changed /\ op'.id = s.data.folder
      /\ settings'.type = s.type /\ settings'.data = s.data
      /\ op'.at \in {"build", "initClear", "initSave"}
      /\ s.synced # None => settings' = s
      /\ op'.at = "build" => settings' = s /\ s.data.folder \in {None, s.synced}
      /\ op'.at = "initClear" => s.data.folder # None /\ settings' = s
      /\ op'.at = "initSave" => s.data.folder = settings'.synced /\ s.synced = None
  BY Compared
<1>2. PhaseKinds'
  BY <1>1 DEF PhaseKinds
<1>3. CycleTarget' /\ LiveTarget' /\ RecordsTarget'
  BY <1>1 DEF CycleTarget, LiveTarget, RecordsTarget
<1>4. BuiltTarget' /\ SavedIdentity' /\ ClearedPhases'
  BY <1>1 DEF BuiltTarget, SavedIdentity, ClearedPhases, isConnected
<1>5. FolderFirst'
  BY <1>1 DEF FolderFirst, NoFolder
<1> QED
  BY <1>2, <1>3, <1>4, <1>5 DEF BindingInv

LEMMA InitCompareBinding ==
  ASSUME BindingInv, TypeOK', InitCompare PROVE BindingInv'
<1>1. /\ settings \in Settings /\ op \in Operations /\ Compare(settings, op)
      /\ UNCHANGED <<disk, secrets, remoteFs, cycle, records>>
  BY DEF BindingInv, TypeOK, InitCompare, sync
<1>2. op.at = "compare" /\ ~op.changed
  BY DEF InitCompare, BindingInv, PhaseKinds
<1> QED
  BY <1>1, <1>2, CompareBinding
  DEF BindingInv, CycleTarget, LiveTarget, RecordsTarget, SavedIdentity, FolderFirst, isLocked

(* The operation RunSync and Reload start. *)
LEMMA NewInit ==
  /\ [Idle EXCEPT !.kind = "init"] \in Operations
  /\ [Idle EXCEPT !.kind = "init"].kind = "init" /\ ~[Idle EXCEPT !.kind = "init"].changed
  /\ [Idle EXCEPT !.kind = "init", !.then = TRUE] \in Operations
  /\ [Idle EXCEPT !.kind = "init", !.then = TRUE].kind = "init"
  /\ ~[Idle EXCEPT !.kind = "init", !.then = TRUE].changed
<1>1. [Idle EXCEPT !.kind = "init"] \in Operations
  BY NoneTypes, OperationUpdate DEF Kinds
<1>2. [Idle EXCEPT !.kind = "init", !.then = TRUE]
        = [[Idle EXCEPT !.kind = "init"] EXCEPT !.then = TRUE]
  OBVIOUS
<1>3. [[Idle EXCEPT !.kind = "init"] EXCEPT !.then = TRUE] \in Operations
  BY <1>1, OperationUpdate
<1> QED
  BY <1>1, <1>2, <1>3 DEF Idle

LEMMA RunSyncBinding ==
  ASSUME BindingInv, TypeOK', RunSync PROVE BindingInv'
<1>1. CASE remoteFs # None
  BY <1>1
  DEF RunSync, Cycle, Connecting, sync, BindingInv, PhaseKinds, CycleTarget, LiveTarget,
      BuiltTarget, RecordsTarget, SavedIdentity, ClearedPhases, FolderFirst, NoFolder,
      isLocked, isConnected
<1>2. CASE remoteFs = None
  <2> DEFINE o == [Idle EXCEPT !.kind = "init", !.then = TRUE]
  <2>1. o \in Operations /\ o.kind = "init" /\ ~o.changed
    BY NewInit
  <2>2. /\ settings \in Settings /\ Compare(settings, o) /\ op.at = "idle"
        /\ UNCHANGED <<disk, secrets, remoteFs, cycle, records>>
    BY <1>2 DEF BindingInv, TypeOK, RunSync, sync, Connecting
  <2> HIDE DEF o
  <2> QED
    BY <2>1, <2>2, CompareBinding
    DEF BindingInv, CycleTarget, LiveTarget, RecordsTarget, SavedIdentity, FolderFirst,
        isLocked
<1> QED
  BY <1>1, <1>2

LEMMA ReloadBinding ==
  ASSUME BindingInv, TypeOK', Reload PROVE BindingInv'
<1> DEFINE o == [Idle EXCEPT !.kind = "init"]
<1>1. o \in Operations /\ o.kind = "init" /\ ~o.changed
  BY NewInit
<1>2. /\ disk \in Settings /\ Compare(disk, o) /\ UNCHANGED <<disk, secrets, records>>
      /\ remoteFs' = None /\ cycle' = NoCycle
  BY DEF BindingInv, TypeOK, Reload
<1> HIDE DEF o
<1>3. records.of \in {None, disk.synced}
  BY DEF BindingInv, RecordsTarget, SavedIdentity, ClearedPhases, NoRecords
<1> QED
  BY <1>1, <1>2, <1>3, CompareBinding
  DEF BindingInv, RecordsTarget, FolderFirst, NoFolder, isLocked

(* What the user's operations share before their first await. *)
LEMMA Entered ==
  ASSUME NEW kind, NEW at, Enter(kind, at)
  PROVE  /\ op'.kind = kind /\ op'.at = at /\ op'.held = settings.data /\ ~op'.changed
         /\ op.at = "idle"
         /\ UNCHANGED <<settings, disk, secrets, remoteFs, ckpt, cycle, pending, records>>
BY DEF Enter, Idle, Connecting, sync

LEMMA EnterBinding ==
  ASSUME BindingInv, TypeOK', NEW kind, NEW at, Enter(kind, at),
         \/ at = "auth" /\ kind = "connect" /\ settings.data.auth
         \/ /\ at = "auth" /\ kind = "authPick"
            /\ settings.data.auth /\ settings.type \notin KeepsFolder
         \/ at = "choose" /\ kind \in {"pick", "bind"} /\ settings.type \notin KeepsFolder
         \/ at = "reset" /\ kind = "disconnect"
         \/ at = "sweep" /\ kind = "switch"
  PROVE  BindingInv'
<1>1. op'.kind = kind /\ op'.at = at /\ op'.held = settings.data /\ ~op'.changed
  BY Entered
<1>2. op.at = "idle" /\ UNCHANGED <<settings, disk, secrets, remoteFs, cycle, records>>
  BY Entered
<1>3. /\ PhaseKinds' /\ CycleTarget' /\ LiveTarget' /\ BuiltTarget'
      /\ RecordsTarget' /\ SavedIdentity' /\ ClearedPhases'
  BY <1>1, <1>2
  DEF BindingInv, PhaseKinds, CycleTarget, LiveTarget, BuiltTarget, RecordsTarget,
      SavedIdentity, ClearedPhases, isLocked, isConnected
<1>4. FolderFirst'
  BY <1>1, <1>2 DEF BindingInv, FolderFirst, NoFolder
<1> QED
  BY <1>3, <1>4 DEF BindingInv

UserEnters ==
  \/ CompleteBackendConnect \/ CompleteBackendAuthFolderPick
  \/ CompleteBackendFolderPick \/ BindDefaultRemoteVault
  \/ DisconnectBackend \/ SwitchBackend

LEMMA UserEntersBinding ==
  ASSUME BindingInv, TypeOK', UserEnters PROVE BindingInv'
<1>1. settings.data.pick => settings.type \notin KeepsFolder
  BY DEF BindingInv, FolderFirst
<1> QED
  BY <1>1, EnterBinding
  DEF UserEnters, CompleteBackendConnect, CompleteBackendAuthFolderPick,
      CompleteBackendFolderPick, BindDefaultRemoteVault, DisconnectBackend, SwitchBackend

(* The nonces of a folder pick. *)
LEMMA PickStarted ==
  ASSUME TypeOK, StartBackendFolderPick
  PROVE  /\ settings'.type = settings.type /\ settings'.synced = settings.synced
         /\ settings'.data.folder = None /\ settings.data.folder = None
         /\ settings'.data.pick
         /\ settings' = disk'
         /\ settings.type \in secrets /\ settings.type \notin KeepsFolder
         /\ UNCHANGED <<secrets, remoteFs, op, ckpt, cycle, pending, records>>
BY DEF StartBackendFolderPick, TypeOK, Settings, Data, sync

(* The direct connection writes the bag back that it read before the await. *)
LEMMA AuthBinding ==
  ASSUME BindingInv, TypeOK', CompleteAuth PROVE BindingInv'
<1>1. /\ settings'.type = settings.type /\ settings'.synced = settings.synced
      /\ op.kind # "connect" => settings'.data.folder = settings.data.folder
      /\ op.kind = "connect" => settings'.data.folder = op.held.folder
      /\ settings'.data.auth = FALSE
      /\ settings'.data.pick => settings.data.pick \/ op.held.pick
  BY DEF CompleteAuth, BindingInv, TypeOK, Settings, Data, Operations
<1>2. /\ op' = [op EXCEPT !.at = "saveAuth"]
      /\ op.at = "auth" /\ op.kind \in {"connect", "authPick"}
      /\ secrets' = secrets \cup {settings.type}
      /\ UNCHANGED <<disk, remoteFs, cycle, records>>
  BY DEF CompleteAuth, Go, BindingInv, PhaseKinds, sync
<1>3. op'.at = "saveAuth" /\ op'.kind = op.kind /\ op'.changed = op.changed /\ ~op.changed
  BY <1>2 DEF BindingInv, TypeOK, Operations, PhaseKinds
<1>4. PhaseKinds' /\ CycleTarget' /\ LiveTarget' /\ RecordsTarget'
  BY <1>1, <1>2, <1>3
  DEF BindingInv, PhaseKinds, CycleTarget, LiveTarget, RecordsTarget, isLocked
<1>5. BuiltTarget' /\ SavedIdentity' /\ ClearedPhases'
  BY <1>1, <1>2, <1>3 DEF BindingInv, BuiltTarget, SavedIdentity, ClearedPhases
<1>6. settings.type \in KeepsFolder => settings'.data.folder # None /\ ~settings'.data.pick
  BY <1>1, <1>2 DEF BindingInv, FolderFirst, NoFolder
<1>7. NoFolder(disk) => disk.type # settings.type
  BY <1>2 DEF BindingInv, FolderFirst, NoFolder
<1>8. FolderFirst'
  BY <1>1, <1>2, <1>3, <1>6, <1>7 DEF BindingInv, FolderFirst, NoFolder
<1> QED
  BY <1>4, <1>5, <1>8 DEF BindingInv

LEMMA BindingSteps ==
  ASSUME BindingInv, BindingSaved, Next PROVE BindingInv'
<1>1. TypeOK'
  BY TypeSteps DEF BindingInv
<1> USE <1>1
    DEF BindingInv, PhaseKinds, CycleTarget, LiveTarget, BuiltTarget, RecordsTarget,
        SavedIdentity, ClearedPhases, FolderFirst, isLocked
<1>2. CASE InitCompare
  BY <1>2, InitCompareBinding
<1>3. CASE InitClear
  BY <1>3, SMT DEF InitClear, clearSyncState, NoFolder, isConnected, NoRecords
<1>4. CASE InitSave
  BY <1>4, SMT DEF InitSave, Go, sync, NoFolder, isConnected
<1>5. CASE InitBuild
  BY <1>5, SMT DEF InitBuild, Close, Launch, Cycle, Go, createFs, sync, TypeOK, Operations, Idle
<1>6. CASE InitReset
  BY <1>6, SMT DEF InitReset, Close, Launch, Cycle, sync, Idle
<1>7. CASE InitThrows
  BY <1>7, SMT DEF InitThrows, MayThrow, BindingSaved, Close, Launch, Cycle, sync, Idle
<1>8. CASE StartBackendConnect
  BY <1>8, SMT DEF StartBackendConnect, sync, TypeOK, Settings, Data, NoFolder, isConnected
<1>9. CASE StartBackendFolderPick
  BY <1>9, PickStarted DEF NoFolder, isConnected
<1>10. CASE UserEnters
  BY <1>10, UserEntersBinding
<1>11. ASSUME NEW t \in Targets, EditFolder(t) PROVE BindingInv'
  BY <1>11, BackendAssumption, SMT
  DEF EditFolder, Connecting, sync, TypeOK, Settings, Data, NoFolder, isConnected, Idle
<1>12. CASE CompleteAuth
  BY <1>12, AuthBinding
<1>13. CASE SaveSettings
  BY <1>13, SMT
  DEF SaveSettings, Go, Close, Launch, Cycle, sync, TypeOK, Operations, NoFolder, Idle
<1>14. CASE ResetAllCheckpoint
  <2>1. cycle'.asked = cycle.asked /\ cycle'.fs = cycle.fs
    BY <1>14 DEF ResetAllCheckpoint, Forget, TypeOK, Cycles
  <2>2. isLocked' => isLocked
    BY <1>14 DEF ResetAllCheckpoint, Forget, NoCycle
  <2> QED
    BY <1>14, <2>1, <2>2, SMT DEF ResetAllCheckpoint, Go, sync, NoFolder
<1>15. CASE ResetAllRecords
  BY <1>15, SMT
  DEF ResetAllRecords, clearSyncState, Go, Fresh, NoData, TypeOK, Operations, NoRecords
<1>16. CASE Rebuild
  BY <1>16, SMT
  DEF Rebuild, Go, Close, createFs, sync, TypeOK, Settings, Operations, NoFolder, NoRecords, Idle
<1>17. CASE ChooseFolder
  BY <1>17, SMT DEF ChooseFolder, Go, sync, NoFolder
<1>18. CASE Revoke
  BY <1>18, SMT DEF Revoke, Go, Fresh, NoData, NoRecords, sync
<1>19. CASE SweepSecrets
  BY <1>19, SMT DEF SweepSecrets, Go, sync
<1>20. CASE ProviderRefuses
  BY <1>20, SMT DEF ProviderRefuses, Close, Launch, Cycle, sync, Idle
<1>21. CASE OperationThrows
  BY <1>21, SMT DEF OperationThrows, MayThrow, BindingSaved, Close, Launch, Cycle, sync, Idle
<1>22. CASE RunSync
  BY <1>22, RunSyncBinding
<1>23. CASE VaultChange
  BY <1>23, SMT DEF VaultChange, isConnected
<1>24. CASE DebouncedSync
  BY <1>24, SMT DEF DebouncedSync, runSync, Connecting, Cycle, sync, isConnected
<1>25. CASE EndCycle
  BY <1>25, SMT DEF EndCycle, NoFolder, isConnected
<1>26. CASE Reload
  BY <1>26, ReloadBinding
<1> QED
  BY <1>2, <1>3, <1>4, <1>5, <1>6, <1>7, <1>8, <1>9, <1>10, <1>11, <1>12, <1>13, <1>14,
     <1>15, <1>16, <1>17, <1>18, <1>19, <1>20, <1>21, <1>22, <1>23, <1>24, <1>25, <1>26
  DEF Next, Operation, User, initBackend, UserEnters

LEMMA BindingStutters ==
  ASSUME BindingInv, UNCHANGED vars PROVE BindingInv'
BY DEF BindingInv, vars, sync, TypeOK, PhaseKinds, CycleTarget, LiveTarget, BuiltTarget,
       RecordsTarget, SavedIdentity, ClearedPhases, FolderFirst, NoFolder, isLocked, isConnected

(* A cycle works on the records, and asks for the checkpoint, of its own   *)
(* target, through every schedule of operations, cycles and reloads        *)
(* (backend-manager.ts:64-71).                                             *)
THEOREM OwnRecordsHold == ASSUME BindingSaved PROVE Spec => []OwnRecords
<1>1. BindingInv /\ [Next]_vars => BindingInv'
  BY BindingSteps, BindingStutters
<1>2. BindingInv => OwnRecords
  BY DEF BindingInv, OwnRecords, CycleTarget, RecordsTarget
<1> QED
  BY <1>1, <1>2, BindingInit, PTL DEF Spec

-----------------------------------------------------------------------------
(* The invariant behind ResumesWhole.                                      *)

Whole(t) == records = [of |-> t, whole |-> TRUE]

(* A checkpoint that must not be resumed: the records do not hold every    *)
(* file it speaks for.                                                     *)
Stale(t) == t # None /\ t \in ckpt /\ ~Whole(t)

(* What resetAll resets. *)
Target == IF remoteFs # None THEN remoteFs ELSE settings.data.folder

(* The bag a direct connection writes back is still the settings' own, and *)
(* a pick stays asked for until its folder is chosen.                      *)
HeldBag ==
  op.at = "auth" /\ op.kind = "connect" =>
    op.held.folder = settings.data.folder /\ (op.held.pick => settings.data.pick)
PickPending ==
  op.kind \in {"authPick", "pick"} /\ op.at \in {"auth", "saveAuth", "reset", "clear", "choose"} =>
    settings.data.pick

(* A bound folder is saved, but while it is being saved. *)
SavedBinding ==
  /\ settings.data.folder # None /\ op.at # "savePick" =>
       disk.data.folder = settings.data.folder /\ disk.type = settings.type
  /\ op.at = "compare" =>
       disk.data.folder = settings.data.folder /\ disk.synced = settings.synced

(* Who has an identity has a folder, the same one while a pick is open. *)
PickKeeps(s) == s.data.pick /\ s.synced # None => s.data.folder = s.synced
Unbound(s) == s.data.folder = None => s.synced = None
BoundIdentity == PickKeeps(settings) /\ PickKeeps(disk) /\ Unbound(settings) /\ Unbound(disk)

(* What initBackend works on in each of its phases. *)
InitTarget ==
  /\ op.at \in {"initSave", "build"} => settings.data.folder = settings.synced
  /\ op.at = "initClear" =>
       op.id = settings.data.folder /\ settings.synced \notin {None, op.id}
  /\ op.changed => op.id = settings.synced
  /\ op.at = "initReset" => op.changed /\ remoteFs = settings.synced /\ remoteFs # None

(* A folder is bound that was bound before and left a checkpoint: it       *)
(* differs from the identity, and an initBackend with tokens is under way  *)
(* to find that out.                                                       *)
Returning(s) == s.data.folder \notin {None, s.synced} /\ s.data.folder \in ckpt
Guarded ==
  /\ Returning(settings) =>
       /\ settings.synced # None /\ settings.type \in secrets
       /\ op.at \in {"savePick", "compare", "initClear"}
  /\ Returning(disk) =>
       /\ disk.synced # None /\ disk.type \in secrets
       /\ op.at \in {"compare", "initClear"} \/ (op.changed /\ op.at = "initSave")

(* An outdated checkpoint of the target synced last is reset before        *)
(* anything runs on it: by the initBackend under way, or because another   *)
(* folder is bound, whose initBackend forgets this one first.              *)
Doomed ==
  /\ Stale(settings.synced) =>
       /\ ~isLocked
       /\ \/ op.changed /\ isConnected(settings)
          \/ remoteFs = None /\ settings.data.folder # settings.synced
  /\ Stale(disk.synced) => disk.data.folder # disk.synced \/ (op.changed /\ Owed)

(* Between the two halves of resetAll the cycle in flight cannot commit a  *)
(* cursor, nor can another begin.                                          *)
ResetFirst ==
  op.at = "clear" =>
    ~pending /\ Target \notin ckpt /\ (isLocked /\ cycle.fs = Target => cycle.hit)

TrustsWhole == isLocked /\ cycle.delta => Whole(cycle.fs)

ResumeInv ==
  /\ BindingInv
  /\ HeldBag /\ PickPending /\ SavedBinding /\ BoundIdentity /\ InitTarget
  /\ Guarded /\ Doomed /\ ResetFirst /\ TrustsWhole

LEMMA ResumeInit == Init => ResumeInv
<1> SUFFICES ASSUME Init PROVE ResumeInv
  OBVIOUS
<1>1. PICK ty \in Types : settings = Fresh(ty)
  BY DEF Init
<1> QED
  BY <1>1, BindingInit
  DEF Init, Fresh, Idle, NoData, NoRecords, ResumeInv, HeldBag, PickPending, SavedBinding,
      BoundIdentity, PickKeeps, Unbound, InitTarget, Guarded, Returning, Doomed, Stale, Whole,
      ResetFirst, TrustsWhole, isLocked, isConnected

(* A comparison: a folder that was bound before is found to differ, and no *)
(* outdated checkpoint is taken for the identity's.                        *)
LEMMA CompareResume ==
  ASSUME NEW s \in Settings, NEW o \in Operations, Compare(s, o), ~o.changed, BindingInv',
         UNCHANGED <<disk, secrets, ckpt, records>>,
         s.data.folder # None => disk.data.folder = s.data.folder /\ disk.type = s.type,
         PickKeeps(s), PickKeeps(disk), Unbound(s), Unbound(disk),
         Returning(s) => s.synced # None /\ s.type \in secrets,
         Returning(disk) => /\ disk.synced # None /\ disk.type \in secrets
                            /\ s.data.folder = disk.data.folder /\ s.synced = disk.synced,
         Stale(s.synced) => ~isLocked' /\ remoteFs' = None /\ s.data.folder # s.synced,
         Stale(disk.synced) => disk.data.folder # disk.synced,
         (isLocked /\ cycle.delta)' => Whole(cycle'.fs)
  PROVE  ResumeInv'
<1>1. /\ ~op'.changed /\ op'.id = s.data.folder
      /\ settings'.type = s.type /\ settings'.data = s.data
      /\ op'.at \in {"build", "initClear", "initSave"}
      /\ s.synced # None => settings' = s
      /\ op'.at = "build" => settings' = s /\ s.data.folder \in {None, s.synced}
      /\ op'.at = "initClear" =>
           s.data.folder \notin {None, s.synced} /\ s.synced # None /\ settings' = s
      /\ op'.at = "initSave" =>
           s.data.folder = settings'.synced /\ s.synced = None /\ s.data.folder # None
  BY Compared
<1>2. HeldBag' /\ PickPending' /\ SavedBinding' /\ ResetFirst'
  BY <1>1 DEF HeldBag, PickPending, SavedBinding, ResetFirst
<1>3. BoundIdentity'
  BY <1>1 DEF BoundIdentity, PickKeeps, Unbound
<1>4. InitTarget'
  BY <1>1 DEF InitTarget, Unbound
<1>5. Guarded'
  BY <1>1 DEF Guarded, Returning
<1>6. Doomed'
  <2>1. \A t : Stale(t)' <=> Stale(t)
    BY DEF Stale, Whole
  <2>2. CASE op'.at = "initSave"
    <3>1. ~Stale(settings'.synced)
      BY <1>1, <2>2 DEF Stale, Returning
    <3> QED BY <1>1, <2>1, <3>1 DEF Doomed, Stale, Whole
  <2>3. CASE settings' = s
    BY <1>1, <2>1, <2>3 DEF Doomed, Stale, Whole
  <2> QED BY <1>1, <2>2, <2>3
<1>7. TrustsWhole'
  BY DEF TrustsWhole, Whole
<1> QED
  BY <1>2, <1>3, <1>4, <1>5, <1>6, <1>7 DEF ResumeInv

LEMMA InitCompareResume ==
  ASSUME ResumeInv, BindingInv', InitCompare PROVE ResumeInv'
<1>1. /\ settings \in Settings /\ op \in Operations /\ Compare(settings, op)
      /\ UNCHANGED <<disk, secrets, remoteFs, ckpt, cycle, records>>
  BY DEF ResumeInv, BindingInv, TypeOK, InitCompare, sync
<1>2. op.at = "compare" /\ ~op.changed
  BY DEF InitCompare, ResumeInv, BindingInv, PhaseKinds
<1>3. Returning(settings) => settings.synced # None /\ settings.type \in secrets
  BY DEF ResumeInv, Guarded
<1>4. Returning(disk) =>
        /\ disk.synced # None /\ disk.type \in secrets
        /\ settings.data.folder = disk.data.folder /\ settings.synced = disk.synced
  BY <1>2 DEF ResumeInv, Guarded, SavedBinding
<1>5. Stale(settings.synced) =>
        ~isLocked /\ remoteFs = None /\ settings.data.folder # settings.synced
  BY <1>2 DEF ResumeInv, Doomed
<1>6. Stale(disk.synced) => disk.data.folder # disk.synced
  BY <1>2 DEF ResumeInv, Doomed
<1> QED
  BY <1>1, <1>2, <1>3, <1>4, <1>5, <1>6, CompareResume
  DEF ResumeInv, SavedBinding, BoundIdentity, TrustsWhole, isLocked

LEMMA RunSyncResume ==
  ASSUME ResumeInv, BindingInv', RunSync PROVE ResumeInv'
<1>1. op.at = "idle" /\ ~op.changed
  BY DEF RunSync, Connecting, ResumeInv, BindingInv, PhaseKinds
<1>2. CASE remoteFs # None
  <2>1. remoteFs = settings.synced
    BY <1>1, <1>2 DEF ResumeInv, BindingInv, LiveTarget
  <2>2. ~Stale(settings.synced)
    BY <1>1, <1>2 DEF ResumeInv, Doomed
  <2>3. /\ cycle' = Cycle(remoteFs, remoteFs, ckpt)
        /\ UNCHANGED <<settings, disk, secrets, remoteFs, op, ckpt, records>>
    BY <1>2 DEF RunSync, sync
  <2>4. TrustsWhole'
    BY <1>2, <2>1, <2>2, <2>3 DEF TrustsWhole, Stale, Whole, Cycle, ByDelta
  <2>5. Doomed'
    BY <2>2, <2>3 DEF ResumeInv, Doomed, Stale, Whole, Owed
  <2>6. /\ HeldBag' /\ PickPending' /\ SavedBinding' /\ BoundIdentity' /\ InitTarget'
        /\ Guarded' /\ ResetFirst'
    BY <1>1, <2>3
    DEF ResumeInv, HeldBag, PickPending, SavedBinding, BoundIdentity, PickKeeps, Unbound,
        InitTarget, Guarded, Returning, ResetFirst
  <2> QED
    BY <2>4, <2>5, <2>6 DEF ResumeInv
<1>3. CASE remoteFs = None
  <2> DEFINE o == [Idle EXCEPT !.kind = "init", !.then = TRUE]
  <2>1. o \in Operations /\ ~o.changed
    BY NewInit
  <2>2. /\ settings \in Settings /\ Compare(settings, o)
        /\ UNCHANGED <<disk, secrets, remoteFs, ckpt, cycle, records>>
    BY <1>3 DEF ResumeInv, BindingInv, TypeOK, RunSync, sync
  <2> HIDE DEF o
  <2>3. Returning(settings) => settings.synced # None /\ settings.type \in secrets
    BY DEF ResumeInv, Guarded
  <2>4. ~Returning(disk)
    BY <1>1 DEF ResumeInv, Guarded
  <2>5. Stale(settings.synced) =>
          ~isLocked /\ remoteFs = None /\ settings.data.folder # settings.synced
    BY <1>1 DEF ResumeInv, Doomed
  <2>6. Stale(disk.synced) => disk.data.folder # disk.synced
    BY <1>1 DEF ResumeInv, Doomed
  <2> QED
    BY <1>1, <2>1, <2>2, <2>3, <2>4, <2>5, <2>6, CompareResume
    DEF ResumeInv, SavedBinding, BoundIdentity, TrustsWhole, isLocked
<1> QED
  BY <1>2, <1>3

LEMMA ReloadResume ==
  ASSUME ResumeInv, CheckpointsReset, BindingInv', Reload PROVE ResumeInv'
<1> DEFINE o == [Idle EXCEPT !.kind = "init"]
<1>1. o \in Operations /\ ~o.changed
  BY NewInit
<1>2. /\ disk \in Settings /\ Compare(disk, o)
      /\ UNCHANGED <<disk, secrets, ckpt, records>>
      /\ remoteFs' = None /\ cycle' = NoCycle /\ ~(op.changed /\ Owed)
  BY DEF ResumeInv, BindingInv, TypeOK, Reload, CheckpointsReset
<1> HIDE DEF o
<1>3. Returning(disk) => disk.synced # None /\ disk.type \in secrets
  BY DEF ResumeInv, Guarded
<1>4. Stale(disk.synced) => disk.data.folder # disk.synced
  BY <1>2 DEF ResumeInv, Doomed
<1> QED
  BY <1>1, <1>2, <1>3, <1>4, CompareResume DEF ResumeInv, BoundIdentity, isLocked

(* A default folder is looked for where none is bound, a picked one while  *)
(* the identity's is: neither brings an outdated checkpoint back.          *)
LEMMA ChooseResume ==
  ASSUME ResumeInv, CheckpointsReset, BindingInv', ChooseFolder
  PROVE  ResumeInv'
<1>1. PICK t \in Targets :
        /\ Bindable(t)
        /\ op.kind = "bind" => settings.data.folder \in {None, t}
        /\ settings' = [settings EXCEPT !.data.folder = t, !.data.pick = @ /\ op.kind = "bind"]
  BY DEF ChooseFolder
<1>2. /\ settings'.type = settings.type /\ settings'.synced = settings.synced
      /\ settings'.data.folder = t
      /\ settings'.data.pick => settings.data.pick /\ op.kind = "bind"
  BY <1>1 DEF ResumeInv, BindingInv, TypeOK, Settings, Data
<1>3. /\ op.at = "choose" /\ settings.type \in secrets
      /\ op'.at = "savePick" /\ op'.changed = op.changed /\ ~op.changed
  BY DEF ChooseFolder, Go, ResumeInv, BindingInv, TypeOK, Operations, PhaseKinds
<1>4. UNCHANGED <<disk, secrets, remoteFs, ckpt, cycle, records>>
  BY DEF ChooseFolder, sync
<1>5. t \notin ckpt \/ settings.synced # None
  BY <1>1, <1>3 DEF Bindable, Unguarded, CheckpointsReset
<1>6. t # None
  BY BackendAssumption
<1>7. BoundIdentity'
  BY <1>1, <1>2, <1>3, <1>4, <1>6 DEF ResumeInv, BoundIdentity, PickKeeps, Unbound
<1>8. Guarded'
  BY <1>2, <1>3, <1>4, <1>5 DEF ResumeInv, Guarded, Returning
<1>9. settings.synced # None /\ settings.data.folder # settings.synced => t # settings.synced
  <2>1. CASE op.kind = "bind"
    BY <1>1, <2>1 DEF ResumeInv, BoundIdentity, Unbound
  <2>2. CASE op.kind # "bind"
    <3>1. settings.data.pick
      BY <1>3, <2>2 DEF ResumeInv, PickPending, BindingInv, PhaseKinds
    <3> QED
      BY <3>1 DEF ResumeInv, BoundIdentity, PickKeeps
  <2> QED BY <2>1, <2>2
<1>10. Doomed'
  BY <1>2, <1>3, <1>4, <1>9 DEF ResumeInv, Doomed, Stale, Whole, isLocked, isConnected, Owed
<1>11. HeldBag' /\ PickPending' /\ SavedBinding' /\ InitTarget' /\ ResetFirst'
  BY <1>3 DEF HeldBag, PickPending, SavedBinding, InitTarget, ResetFirst
<1>12. TrustsWhole'
  BY <1>4 DEF ResumeInv, TrustsWhole, Whole, isLocked
<1> QED
  BY <1>7, <1>8, <1>10, <1>11, <1>12 DEF ResumeInv

(* A clean cycle leaves all the records of its target, or none were        *)
(* missing; another one leaves the checkpoint as it was.                   *)
LEMMA EndCycleResume ==
  ASSUME ResumeInv, CheckpointsReset, BindingInv', EndCycle
  PROVE  ResumeInv'
<1>0. PICK f : f = cycle.fs
  OBVIOUS
<1>1. /\ isLocked /\ cycle.asked = f
      /\ f # None /\ f = settings.synced /\ f = disk.synced
  BY <1>0 DEF EndCycle, ResumeInv, BindingInv, CycleTarget, SavedIdentity, ClearedPhases
<1>2. remoteFs \in {None, f}
  BY <1>0, <1>1 DEF ResumeInv, BindingInv, LiveTarget, ClearedPhases, BuiltTarget
<1>3. PICK clean \in BOOLEAN :
        /\ ckpt' = IF ~clean THEN ckpt ELSE IF cycle.hit THEN ckpt \ {f} ELSE ckpt \cup {f}
        /\ records' = [of |-> f, whole |-> (clean /\ ~cycle.delta) \/ Whole(f)]
        /\ recover' = ~clean
  BY <1>0 DEF EndCycle, CheckpointsReset, Whole
<1>4. /\ cycle' = IF pending /\ remoteFs # None
                  THEN [asked |-> f, fs |-> remoteFs, hit |-> FALSE,
                        delta |-> ByDelta(f, records', tracker', ckpt', recover')]
                  ELSE NoCycle
      /\ pending' = FALSE /\ UNCHANGED <<settings, secrets, remoteFs, op>>
      /\ disk' \in {settings, disk}
  BY <1>1 DEF EndCycle
<1>5. Whole(f) => Whole(f)'
  BY <1>3 DEF Whole
<1>6. clean => Whole(f)'
  BY <1>0, <1>1, <1>3, <1>5 DEF Whole, ResumeInv, TrustsWhole
<1>7. ~Stale(f)'
  BY <1>1, <1>3, <1>5, <1>6 DEF ResumeInv, Doomed, Stale
<1>8. Doomed'
  BY <1>1, <1>4, <1>7 DEF Doomed, Stale
<1>9. TrustsWhole'
  <2>1. CASE pending /\ remoteFs # None
    <3>1. /\ cycle'.fs = f
          /\ cycle'.delta => ByDelta(f, records', tracker', ckpt', recover')
      BY <1>2, <1>4, <2>1
    <3> QED BY <1>3, <1>6, <3>1 DEF TrustsWhole, ByDelta
  <2>2. CASE ~(pending /\ remoteFs # None)
    BY <1>4, <2>2 DEF TrustsWhole, isLocked
  <2> QED BY <2>1, <2>2
<1>10. ResetFirst'
  BY <1>0, <1>1, <1>3, <1>4 DEF ResumeInv, ResetFirst, Target, isLocked
<1>11. op.at = "savePick" => disk' = disk
  BY DEF EndCycle, Connecting, ResumeInv, BindingInv, PhaseKinds
<1>12. HeldBag' /\ PickPending' /\ SavedBinding' /\ BoundIdentity' /\ InitTarget'
  BY <1>1, <1>4, <1>11
  DEF ResumeInv, HeldBag, PickPending, SavedBinding, BoundIdentity, PickKeeps, Unbound,
      InitTarget
<1>13. Guarded'
  BY <1>1, <1>3, <1>4, <1>11 DEF ResumeInv, Guarded, Returning
<1> QED
  BY <1>8, <1>9, <1>10, <1>12, <1>13 DEF ResumeInv

LEMMA UserEntersResume ==
  ASSUME ResumeInv, BindingInv', UserEnters PROVE ResumeInv'
<1>1. PICK kind, at :
        /\ Enter(kind, at)
        /\ at \in {"auth", "choose", "reset", "sweep"}
        /\ kind \in {"authPick", "pick"} => settings.data.pick
  BY DEF UserEnters, CompleteBackendConnect, CompleteBackendAuthFolderPick,
         CompleteBackendFolderPick, BindDefaultRemoteVault, DisconnectBackend, SwitchBackend
<1>2. /\ op'.kind = kind /\ op'.at = at /\ op'.held = settings.data /\ ~op'.changed
      /\ op.at = "idle" /\ ~op.changed
      /\ UNCHANGED <<settings, disk, secrets, remoteFs, ckpt, cycle, pending, records>>
  BY <1>1, Entered DEF ResumeInv, BindingInv, PhaseKinds
<1>3. HeldBag' /\ PickPending' /\ SavedBinding' /\ BoundIdentity'
  BY <1>1, <1>2
  DEF ResumeInv, HeldBag, PickPending, SavedBinding, BoundIdentity, PickKeeps, Unbound
<1>4. InitTarget' /\ Guarded' /\ ResetFirst'
  BY <1>1, <1>2 DEF ResumeInv, InitTarget, Guarded, Returning, ResetFirst
<1>5. Doomed' /\ TrustsWhole'
  BY <1>1, <1>2 DEF ResumeInv, Doomed, Stale, Whole, TrustsWhole, isLocked, isConnected
<1> QED
  BY <1>3, <1>4, <1>5 DEF ResumeInv

LEMMA ResumeSteps ==
  ASSUME ResumeInv, CheckpointsReset, Next PROVE ResumeInv'
<1>1. BindingInv'
  BY BindingSteps DEF ResumeInv, CheckpointsReset
<1> USE <1>1, BackendAssumption
    DEF ResumeInv, HeldBag, PickPending, SavedBinding, BoundIdentity, PickKeeps, Unbound,
        InitTarget, Guarded, Returning, Doomed, Stale, Whole, Owed, ResetFirst, Target,
        TrustsWhole, isLocked, isConnected
<1>2. CASE InitCompare
  BY <1>2, InitCompareResume
<1>3. CASE InitClear
  BY <1>3, SMT DEF InitClear, clearSyncState, BindingInv, ClearedPhases
<1>4. CASE InitSave
  BY <1>4, SMT DEF InitSave, Go, sync, BindingInv, ClearedPhases, NoRecords
<1>5. CASE InitBuild
  BY <1>5, SMT
  DEF InitBuild, Close, Launch, Cycle, ByDelta, Go, createFs, Idle, sync, BindingInv, TypeOK,
      Operations
<1>6. CASE InitReset
  <2>1. Doomed'
    <3>1. /\ settings.synced # None /\ disk.synced = settings.synced
          /\ settings.synced \notin ckpt' /\ UNCHANGED <<settings, disk>>
      BY <1>6 DEF InitReset, BindingInv, SavedIdentity
    <3> QED BY <3>1
  <2> QED
    BY <1>6, <2>1, SMT
    DEF InitReset, Close, Launch, Cycle, ByDelta, Idle, sync, BindingInv, BuiltTarget
<1>7. CASE InitThrows
  BY <1>7, SMT
  DEF InitThrows, MayThrow, CheckpointsReset, BindingSaved, Close, Launch, Cycle, ByDelta,
      Idle, sync, BindingInv, PhaseKinds, BuiltTarget, LiveTarget, CycleTarget, SavedIdentity
<1>8. CASE StartBackendConnect
  BY <1>8, SMT DEF StartBackendConnect, sync, BindingInv, TypeOK, Settings, Data
<1>9. CASE StartBackendFolderPick
  BY <1>9, PickStarted DEF BindingInv
<1>10. CASE UserEnters
  BY <1>10, UserEntersResume
<1>11. ASSUME NEW t \in Targets, EditFolder(t) PROVE ResumeInv'
  BY <1>11, SMT
  DEF EditFolder, Bindable, Unguarded, CheckpointsReset, Connecting, Idle, sync, BindingInv,
      TypeOK, Settings, Data, FolderFirst, PhaseKinds, NoFolder, LiveTarget, CycleTarget,
      RecordsTarget
<1>12. CASE CompleteAuth
  BY <1>12, SMT
  DEF CompleteAuth, Go, sync, BindingInv, TypeOK, Settings, Data, Operations, PhaseKinds
<1>13. CASE SaveSettings
  BY <1>13, SMT
  DEF SaveSettings, Go, Close, Launch, Cycle, ByDelta, Idle, sync, BindingInv, TypeOK,
      Operations, ClearedPhases, LiveTarget, PhaseKinds, NoRecords, SavedIdentity, CycleTarget
<1>14. CASE ResetAllCheckpoint
  <2>1. /\ cycle'.asked = cycle.asked /\ cycle'.fs = cycle.fs /\ cycle'.delta = cycle.delta
        /\ cycle.fs = Target /\ Target # None => cycle'.hit
        /\ ckpt' = ckpt \ {Target} /\ ~pending
    BY <1>14
    DEF ResetAllCheckpoint, Forget, MayThrow, CheckpointsReset, BindingInv, TypeOK, Cycles
  <2>2. isLocked' <=> isLocked
    BY <1>14 DEF ResetAllCheckpoint, Forget, NoCycle
  <2> QED
    BY <1>14, <2>1, <2>2, SMT
    DEF ResetAllCheckpoint, Go, sync, BindingInv, PhaseKinds, CycleTarget
<1>15. CASE ResetAllRecords
  BY <1>15, SMT
  DEF ResetAllRecords, clearSyncState, Go, Fresh, NoData, NoRecords, BindingInv, TypeOK,
      Operations, PhaseKinds, LiveTarget, RecordsTarget, SavedIdentity, CycleTarget
<1>16. CASE Rebuild
  BY <1>16, SMT
  DEF Rebuild, Go, Close, createFs, Idle, sync, BindingInv, TypeOK, Settings, Operations,
      PhaseKinds, ClearedPhases, NoRecords, LiveTarget, SavedIdentity
<1>17. CASE ChooseFolder
  BY <1>17, ChooseResume
<1>18. CASE Revoke
  BY <1>18, SMT
  DEF Revoke, Go, Fresh, NoData, NoRecords, sync, BindingInv, ClearedPhases, PhaseKinds,
      SavedIdentity
<1>19. CASE SweepSecrets
  BY <1>19, SMT DEF SweepSecrets, Go, sync, BindingInv, PhaseKinds, SavedIdentity
<1>20. CASE ProviderRefuses
  BY <1>20, SMT
  DEF ProviderRefuses, Close, Launch, Cycle, ByDelta, Idle, sync, BindingInv, PhaseKinds,
      LiveTarget
<1>21. CASE OperationThrows
  BY <1>21, SMT
  DEF OperationThrows, MayThrow, CheckpointsReset, BindingSaved, Close, Launch, Cycle,
      ByDelta, Idle, sync, BindingInv, PhaseKinds, LiveTarget
<1>22. CASE RunSync
  BY <1>22, RunSyncResume
<1>23. CASE VaultChange
  BY <1>23, SMT DEF VaultChange
<1>24. CASE DebouncedSync
  BY <1>24, SMT
  DEF DebouncedSync, runSync, Connecting, Cycle, ByDelta, sync, BindingInv, LiveTarget,
      PhaseKinds
<1>25. CASE EndCycle
  BY <1>25, EndCycleResume
<1>26. CASE Reload
  BY <1>26, ReloadResume
<1> QED
  BY <1>2, <1>3, <1>4, <1>5, <1>6, <1>7, <1>8, <1>9, <1>10, <1>11, <1>12, <1>13, <1>14,
     <1>15, <1>16, <1>17, <1>18, <1>19, <1>20, <1>21, <1>22, <1>23, <1>24, <1>25, <1>26
  DEF Next, Operation, User, initBackend, UserEnters

LEMMA ResumeStutters ==
  ASSUME ResumeInv, UNCHANGED vars PROVE ResumeInv'
<1>1. BindingInv'
  BY BindingStutters DEF ResumeInv
<1> QED
  BY <1>1
  DEF vars, sync, ResumeInv, HeldBag, PickPending, SavedBinding, BoundIdentity, PickKeeps,
      Unbound, InitTarget, Guarded, Returning, Doomed, Stale, Whole, Owed, ResetFirst, Target,
      TrustsWhole, isLocked, isConnected

(* A cycle resumes a checkpoint only over the records of every file it     *)
(* speaks for (resetAll, and backend-manager.ts:106-110).                  *)
THEOREM ResumesWholeHolds == ASSUME CheckpointsReset PROVE Spec => []ResumesWhole
<1>1. ResumeInv /\ [Next]_vars => ResumeInv'
  BY ResumeSteps, ResumeStutters
<1>2. ResumeInv => ResumesWhole
  BY DEF ResumeInv, BindingInv, TrustsWhole, ResumesWhole, isLocked, Whole, NoCycle
<1> QED
  BY <1>1, <1>2, ResumeInit, PTL DEF Spec
=============================================================================
