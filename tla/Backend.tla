------------------------------ MODULE Backend ------------------------------
(***************************************************************************)
(* The life of a remote binding: BackendManager (src/src/fs/               *)
(* backend-manager.ts) connects, binds a folder, disconnects and switches  *)
(* the backend while the orchestrator's sync cycles run and the plugin may *)
(* be reloaded.  Four things are kept apart and must keep describing the   *)
(* same remote folder ("target"): the settings (in memory and on disk),    *)
(* the live remote file system, the checkpoint stores (one per target) and *)
(* the sync records, of which there is ONE store whatever the target.      *)
(*                                                                         *)
(* A step of an operation is what runs between two of its awaits, so the   *)
(* cycle's steps, the user's and a reload come in between.  A cycle is     *)
(* seen from outside: which target it runs on, whether it trusts the       *)
(* checkpoint and the records it finds, and what it leaves of both; its    *)
(* inside is SyncCycle's.  The providers are those of Google Drive; the    *)
(* PKCE ones have the same shape (pkce-app-folder-provider.ts).            *)
(***************************************************************************)
EXTENDS Naturals, FiniteSets

CONSTANTS
  Types,        \* registered backends
  Targets,      \* remote folders, each of one backend: the identity of a binding
  TypeOf,       \* [Targets -> Types]
  KeepsFolder,  \* SUBSET Types: disconnect keeps the folder id (custom OAuth)
  None,
  Modes,        \* SUBSET of the behaviours below
  Faults        \* SUBSET of the calls below that may throw
(***************************************************************************)
(* Modes: "returns" - a folder is bound whose checkpoint store an earlier  *)
(* binding left behind, and nothing resets it: after a disconnect or a     *)
(* switch no identity is stored to differ from, and without tokens a       *)
(* change of identity resets no checkpoint; "abandons" - initBackend is    *)
(* cut short, by a crash or the record store, with such a checkpoint still *)
(* to be reset; "relists" - a cycle in flight, its file system reset under *)
(* it, still reads a file, or makes another round: either lists the remote *)
(* again, which gives it a cursor to commit; "edits" - the folder id is    *)
(* edited while an operation runs.                                         *)
(* Faults: "revoke", "save", "clear" (the record store), "identity" (a     *)
(* save that binds a folder or records the synced identity), "teardown"    *)
(* (the record store, in a disconnect), "reset" (the checkpoint store).    *)
(* An authorization or a choice of folder that fails is no fault.  The     *)
(* state is finite: nothing is bounded.                                    *)
(***************************************************************************)

ASSUME BackendAssumption ==
  /\ TypeOf \in [Targets -> Types]
  /\ KeepsFolder \subseteq Types
  /\ None \notin Targets

VARIABLES
  settings, \* backendType, the backendData bag and lastSyncedIdentity
  disk,     \* the settings as last saved
  secrets,  \* SUBSET Types: backends with tokens in SecretStorage
  remoteFs, \* target of the live remote file system, or None
  op,       \* the lifecycle operation that holds `connecting`
  ckpt,     \* SUBSET Targets: stores that hold a committed cursor
  records,  \* whose records the one store holds, and whether all of them
  tracker,  \* LocalChangeTracker: initialized, and a dirty path
  cycle,    \* the cycle that holds the sync mutex
  pending,  \* syncPending
  recover   \* recoverViaColdScan

vars == <<settings, disk, secrets, remoteFs, op, ckpt, records, tracker,
          cycle, pending, recover>>
sync == <<records, tracker, recover>>

NoData == [folder |-> None, auth |-> FALSE, pick |-> FALSE]
Fresh(ty) == [type |-> ty, data |-> NoData, synced |-> None]
Idle == [kind |-> "none", at |-> "idle", held |-> NoData, id |-> None,
         changed |-> FALSE, then |-> FALSE]
NoRecords == [of |-> None, whole |-> FALSE]
NoCycle == [asked |-> None, fs |-> None, delta |-> FALSE, hit |-> FALSE]

Data == [folder : Targets \cup {None}, auth : BOOLEAN, pick : BOOLEAN]
Settings == [type : Types, data : Data, synced : Targets \cup {None}]
Kinds == {"none", "init", "connect", "authPick", "pick", "bind", "disconnect", "switch"}
Phases == {"idle", "compare", "initClear", "initSave", "build", "initReset",
           "auth", "saveAuth", "reset", "clear", "rebuild", "saveId", "choose",
           "savePick", "revoke", "saveOff", "sweep", "saveSwitch"}
Operations == [kind : Kinds, at : Phases, held : Data, id : Targets \cup {None},
               changed : BOOLEAN, then : BOOLEAN]
Cycles == [asked : Targets \cup {None}, fs : Targets \cup {None},
           delta : BOOLEAN, hit : BOOLEAN]

TypeOK ==
  /\ settings \in Settings /\ disk \in Settings
  /\ secrets \subseteq Types
  /\ remoteFs \in Targets \cup {None}
  /\ op \in Operations
  /\ ckpt \subseteq Targets
  /\ records \in [of : Targets \cup {None}, whole : BOOLEAN]
  /\ tracker \in [ready : BOOLEAN, dirty : BOOLEAN]
  /\ cycle \in Cycles
  /\ pending \in BOOLEAN /\ recover \in BOOLEAN

Init ==
  /\ \E ty \in Types : settings = Fresh(ty)
  /\ disk = settings
  /\ secrets = {} /\ remoteFs = None /\ op = Idle /\ ckpt = {}
  /\ records = NoRecords
  /\ tracker = [ready |-> FALSE, dirty |-> FALSE]
  /\ cycle = NoCycle /\ pending = FALSE /\ recover = FALSE

-----------------------------------------------------------------------------
(* What the providers answer, and the gates.                               *)

Connecting == op.at # "idle"
isLocked == cycle # NoCycle

isConnected(s) == s.type \in secrets /\ s.data.folder # None
createFs(s) == IF isConnected(s) THEN s.data.folder ELSE None

MayThrow(call) == call \in Faults

\* A target that no operation resets when it is bound although its store still
\* holds a cursor: no identity is stored to differ from, or initBackend returns
\* before the reset because there are no tokens.
Unguarded(t) == t \in ckpt /\ (settings.synced = None \/ settings.type \notin secrets)
Bindable(t) ==
  /\ TypeOf[t] = settings.type
  /\ "returns" \in Modes \/ ~Unguarded(t)

\* How the next cycle works on fs: from the delta, trusting checkpoint and
\* records, or by a full listing of both sides.
ByDelta(asked, rec, trk, ck, rv) ==
  /\ asked \in ck /\ ~rv
  /\ (trk.ready /\ trk.dirty) \/ rec # NoRecords

Cycle(asked, fs, ck) ==
  [asked |-> asked, fs |-> fs, hit |-> FALSE,
   delta |-> ByDelta(asked, records, tracker, ck, recover)]

\* onRemoteBound: the plugin's runSync, dropped when the mutex is held.
Launch(fs, ck, again) ==
  IF fs = None THEN UNCHANGED <<cycle, pending>>
  ELSE /\ cycle' = IF isLocked THEN cycle ELSE Cycle(fs, fs, ck)
       /\ pending' = IF isLocked THEN pending \/ again ELSE again

Go(at) == op' = [op EXCEPT !.at = at]
Enter(kind, at) ==
  /\ ~Connecting
  /\ op' = [Idle EXCEPT !.kind = kind, !.at = at, !.held = settings.data]
  /\ UNCHANGED <<settings, disk, secrets, remoteFs, ckpt, cycle, pending, sync>>

\* The store of the target just bound has a cursor initBackend is yet to reset.
Owed == op.id \in ckpt

\* The operation is over: `finally { connecting = false }`.
Close(fs, signal) ==
  /\ op' = Idle
  /\ remoteFs' = fs
  /\ IF signal THEN Launch(fs, ckpt', op.then) ELSE UNCHANGED <<cycle, pending>>

\* resetCheckpoint on the live file system, whatever its cycle is doing, or
\* clearCheckpointStore by the folder id when there is none.
Forget(t) ==
  /\ ckpt' = ckpt \ {t}
  /\ cycle' = IF cycle.fs = t /\ t # None THEN [cycle EXCEPT !.hit = TRUE] ELSE cycle

\* Mutant of clearSyncState: outside the sync mutex.
clearSyncStateUnlocked == records' = NoRecords

\* clearSyncState waits for the mutex; nothing can run before it is done.
clearSyncState == ~isLocked /\ records' = NoRecords

-----------------------------------------------------------------------------
(* initBackend.                                                            *)

\* Up to its first await, on settings s: the identity is compared.
Compare(s, o) ==
  LET id  == s.data.folder
      new == id # None /\ id # s.synced
  IN  /\ op' = [o EXCEPT !.id = id,
                  !.at = IF ~new THEN "build"
                         ELSE IF s.synced # None THEN "initClear"
                         ELSE "initSave"]
      /\ settings' = IF new /\ s.synced = None THEN [s EXCEPT !.synced = id] ELSE s

InitCompare ==
  /\ op.at = "compare"
  /\ Compare(settings, op)
  /\ UNCHANGED <<disk, secrets, remoteFs, ckpt, cycle, pending, sync>>

InitClear ==
  /\ op.at = "initClear"
  /\ clearSyncState
  /\ settings' = [settings EXCEPT !.synced = op.id]
  /\ op' = [op EXCEPT !.at = "initSave", !.changed = TRUE]
  /\ UNCHANGED <<disk, secrets, remoteFs, ckpt, cycle, pending, tracker, recover>>

InitSave ==
  /\ op.at = "initSave"
  /\ disk' = settings
  /\ Go("build")
  /\ UNCHANGED <<settings, secrets, remoteFs, ckpt, cycle, pending, sync>>

\* Mutant of InitBuild: whatever the identity, the store is kept.
InitBuildKeepsStore ==
  /\ op.at = "build"
  /\ UNCHANGED ckpt
  /\ Close(createFs(settings), isConnected(settings))
  /\ UNCHANGED <<settings, disk, secrets, sync>>

\* Disconnected: return without a signal.  Otherwise the new file system is
\* live, and a changed identity drops what its store kept from before.
InitBuild ==
  /\ op.at = "build"
  /\ IF op.changed /\ isConnected(settings)
     THEN /\ remoteFs' = createFs(settings)
          /\ Go("initReset")
          /\ UNCHANGED <<ckpt, cycle, pending>>
     ELSE UNCHANGED ckpt /\ Close(createFs(settings), isConnected(settings))
  /\ UNCHANGED <<settings, disk, secrets, sync>>

InitReset ==
  /\ op.at = "initReset"
  /\ ckpt' = ckpt \ {remoteFs}
  /\ Close(remoteFs, TRUE)
  /\ UNCHANGED <<settings, disk, secrets, sync>>

\* A throw anywhere ends in the catch, and the signal still fires for
\* whatever file system is live.
InitThrows ==
  /\ \/ /\ op.at = "initClear" /\ ~isLocked /\ MayThrow("clear")
        /\ "abandons" \in Modes \/ ~Owed
     \/ op.at = "initSave" /\ MayThrow("identity")
     \/ op.at = "initReset" /\ MayThrow("reset")
  /\ UNCHANGED ckpt
  /\ Close(remoteFs, TRUE)
  /\ UNCHANGED <<settings, disk, secrets, sync>>

initBackend == InitCompare \/ InitClear \/ InitSave \/ InitBuild \/ InitReset \/ InitThrows

-----------------------------------------------------------------------------
(* Connecting, binding, disconnecting, switching.  Each is a first step    *)
(* taken by the user or a deep link, then the awaits it shares with the    *)
(* others: completeAuth and its save, resetAll (checkpoint, then records), *)
(* the choice of the folder and its save.                                  *)

\* startBackendConnect and startBackendFolderPick are not guarded by
\* `connecting`: they put the state nonce of the coming callback in the bag.
StartBackendConnect ==
  /\ settings.type \notin secrets /\ ~settings.data.auth
  /\ settings.type \in KeepsFolder => settings.data.folder # None
  /\ settings' = [settings EXCEPT !.data.auth = TRUE]
  /\ disk' = settings'
  /\ UNCHANGED <<secrets, remoteFs, op, ckpt, cycle, pending, sync>>

StartBackendFolderPick ==
  /\ settings.type \in secrets \ KeepsFolder /\ ~settings.data.pick
  /\ settings.data.folder = None
  /\ settings' = [settings EXCEPT !.data.auth = TRUE, !.data.pick = TRUE]
  /\ disk' = settings'
  /\ UNCHANGED <<secrets, remoteFs, op, ckpt, cycle, pending, sync>>

CompleteBackendConnect == settings.data.auth /\ Enter("connect", "auth")
CompleteBackendAuthFolderPick ==
  settings.data.auth /\ settings.data.pick /\ Enter("authPick", "auth")
CompleteBackendFolderPick == settings.data.pick /\ Enter("pick", "choose")
BindDefaultRemoteVault == settings.type \in secrets \ KeepsFolder /\ Enter("bind", "choose")
DisconnectBackend == settings.type \in secrets /\ Enter("disconnect", "reset")
\* The backend switched to is chosen where it first shows, in the settings.
SwitchBackend == Types # {settings.type} /\ Enter("switch", "sweep")

\* The folder id field of the custom OAuth settings, open while disconnected:
\* the bag is written and saved, then initBackend, which returns at once when
\* an operation is under way.
EditFolder(t) ==
  /\ settings.type \in KeepsFolder /\ ~isConnected(settings)
  /\ t # settings.data.folder /\ Bindable(t)
  /\ "edits" \in Modes \/ ~Connecting
  /\ settings' = [settings EXCEPT !.data.folder = t]
  /\ disk' = settings'
  /\ op' = IF Connecting THEN op ELSE [Idle EXCEPT !.kind = "init", !.at = "compare"]
  /\ UNCHANGED <<secrets, remoteFs, ckpt, cycle, pending, sync>>

\* completeAuth answers.  The direct connection writes back the bag it read
\* before the await; the combined callback re-reads it.
CompleteAuth ==
  /\ op.at = "auth"
  /\ secrets' = secrets \cup {settings.type}
  /\ LET bag == IF op.kind = "connect" THEN op.held ELSE settings.data
     IN  settings' = [settings EXCEPT !.data = [bag EXCEPT !.auth = FALSE]]
  /\ Go("saveAuth")
  /\ UNCHANGED <<disk, remoteFs, ckpt, cycle, pending, sync>>

SaveSettings ==
  /\ UNCHANGED ckpt
  /\ \/ op.at = "saveAuth" /\ Go("reset") /\ UNCHANGED <<remoteFs, cycle, pending>>
     \/ op.at = "savePick" /\ Go("compare") /\ UNCHANGED <<remoteFs, cycle, pending>>
     \/ op.at = "saveSwitch" /\ Go("compare") /\ UNCHANGED <<remoteFs, cycle, pending>>
     \/ op.at = "saveId" /\ Close(remoteFs, TRUE)
     \/ op.at = "saveOff" /\ Close(None, FALSE)
  /\ disk' = settings
  /\ UNCHANGED <<settings, secrets, sync>>

ResetAllCheckpoint ==
  /\ op.at = "reset"
  /\ "relists" \in Modes \/ ~pending
  /\ \/ MayThrow("reset") /\ UNCHANGED <<ckpt, cycle>>
     \/ Forget(IF remoteFs # None THEN remoteFs ELSE settings.data.folder)
  /\ Go("clear")
  /\ UNCHANGED <<settings, disk, secrets, remoteFs, pending, sync>>

ResetAllRecords ==
  /\ op.at = "clear"
  /\ clearSyncState
  /\ IF op.kind = "switch"
     THEN /\ \E ty \in Types \ {settings.type} : settings' = Fresh(ty)
          /\ remoteFs' = None
          /\ Go("saveSwitch")
     ELSE /\ Go(CASE op.kind = "connect" -> "rebuild"
                  [] op.kind = "authPick" -> "choose"
                  [] op.kind = "disconnect" -> "revoke")
          /\ UNCHANGED <<settings, remoteFs>>
  /\ UNCHANGED <<disk, secrets, ckpt, cycle, pending, tracker, recover>>

\* After a connection the file system is built at once if a folder is still
\* bound, and the identity it syncs is recorded.
Rebuild ==
  /\ op.at = "rebuild"
  /\ UNCHANGED ckpt
  /\ IF isConnected(settings)
     THEN /\ remoteFs' = createFs(settings)
          /\ settings' = [settings EXCEPT !.synced = settings.data.folder]
          /\ Go("saveId")
          /\ UNCHANGED <<cycle, pending>>
     ELSE UNCHANGED settings /\ Close(None, FALSE)
  /\ UNCHANGED <<disk, secrets, sync>>

\* The folder: a picked one, or resolveRemoteVault's, which keeps a bound id
\* and else finds or creates one by a name the user or the vault gives.
ChooseFolder ==
  /\ op.at = "choose"
  /\ settings.type \in secrets
  /\ \E t \in Targets :
       /\ Bindable(t)
       /\ op.kind = "bind" => settings.data.folder \in {None, t}
       /\ settings' = [settings EXCEPT !.data.folder = t,
                                       !.data.pick = @ /\ op.kind = "bind"]
  /\ Go("savePick")
  /\ UNCHANGED <<disk, secrets, remoteFs, ckpt, cycle, pending, sync>>

\* provider.disconnect: tokens revoked and swept, the bag back to defaults.
Revoke ==
  /\ op.at = "revoke"
  /\ secrets' = secrets \ {settings.type}
  /\ settings' = [Fresh(settings.type) EXCEPT
                    !.data.folder = IF settings.type \in KeepsFolder
                                    THEN settings.data.folder ELSE None]
  /\ Go("saveOff")
  /\ UNCHANGED <<disk, remoteFs, ckpt, cycle, pending, sync>>

SweepSecrets ==
  /\ op.at = "sweep"
  /\ secrets' = {}
  /\ Go("reset")
  /\ UNCHANGED <<settings, disk, remoteFs, ckpt, cycle, pending, sync>>

\* What a refusal by the provider (a state that does not match, a network
\* error, a folder out of reach) or a throw does depends on the operation: a
\* disconnect goes on when the records could not be cleared, and always drops
\* the file system; a connect signals for the file system it still has; the
\* others just end.
ProviderRefuses ==
  /\ op.at \in {"auth", "choose"}
  /\ UNCHANGED ckpt
  /\ Close(remoteFs, op.kind = "connect")
  /\ UNCHANGED <<settings, disk, secrets, sync>>

OperationThrows ==
  /\ \/ op.at = "revoke" /\ MayThrow("revoke")
     \/ op.at \in {"saveAuth", "saveOff", "saveSwitch"} /\ MayThrow("save")
     \/ op.at \in {"savePick", "saveId"} /\ MayThrow("identity")
     \/ op.at = "clear" /\ ~isLocked /\ op.kind # "disconnect" /\ MayThrow("clear")
     \/ op.at = "clear" /\ ~isLocked /\ op.kind = "disconnect" /\ MayThrow("teardown")
  /\ UNCHANGED ckpt
  /\ IF op.kind = "disconnect" /\ op.at = "clear"
     THEN Go("revoke") /\ UNCHANGED <<remoteFs, cycle, pending>>
     ELSE Close(IF op.kind = "disconnect" THEN None ELSE remoteFs, op.kind = "connect")
  /\ UNCHANGED <<settings, disk, secrets, sync>>

-----------------------------------------------------------------------------
(* The plugin's and the orchestrator's runSync, the cycle, a reload.       *)

\* "Sync now", a status-bar click, layout ready: dropped while a cycle runs;
\* without a file system, initBackend first and the orchestrator after it.
RunSync ==
  /\ ~isLocked
  /\ IF remoteFs = None
     THEN /\ ~Connecting
          /\ Compare(settings, [Idle EXCEPT !.kind = "init", !.then = TRUE])
          /\ UNCHANGED <<cycle, pending>>
     ELSE /\ ~Connecting
          /\ cycle' = Cycle(remoteFs, remoteFs, ckpt)
          /\ pending' = FALSE
          /\ UNCHANGED <<op, settings>>
  /\ UNCHANGED <<disk, secrets, remoteFs, ckpt, sync>>

\* Mutant of runSync: the lock is looked at before the gates.
runSyncLockFirst ==
  IF isLocked THEN pending' = TRUE /\ UNCHANGED cycle
  ELSE IF remoteFs = None \/ Connecting THEN UNCHANGED <<cycle, pending>>
  ELSE cycle' = Cycle(remoteFs, remoteFs, ckpt) /\ pending' = FALSE

\* The debounced sync of a vault change: the gates in the code's order.
runSync ==
  IF remoteFs = None \/ Connecting THEN UNCHANGED <<cycle, pending>>
  ELSE IF isLocked THEN pending' = TRUE /\ UNCHANGED cycle
  ELSE cycle' = Cycle(remoteFs, remoteFs, ckpt) /\ pending' = FALSE

VaultChange ==
  /\ ~tracker.dirty
  /\ tracker' = [tracker EXCEPT !.dirty = TRUE]
  /\ UNCHANGED <<settings, disk, secrets, remoteFs, op, ckpt, records, recover,
                 cycle, pending>>

DebouncedSync ==
  /\ tracker.dirty
  /\ runSync
  /\ UNCHANGED <<settings, disk, secrets, remoteFs, op, ckpt, sync>>

\* A cycle ends.  Clean, it commits the checkpoint of the file system it ran
\* on: no cursor if that was reset under it and nothing listed again.  With
\* failures it commits nothing and the next one is cold.  Either way the
\* changes are acknowledged, the settings saved unless the backend is
\* connecting, and a sync asked for meanwhile makes another round, which asks
\* the file system captured at the start for its checkpoint and works on the
\* one live by then.
EndCycle ==
  /\ isLocked
  /\ \E clean \in BOOLEAN, relisted \in IF "relists" \in Modes THEN BOOLEAN ELSE {FALSE} :
       /\ relisted => clean /\ cycle.hit
       /\ ckpt' = IF ~clean THEN ckpt
                  ELSE IF cycle.hit /\ ~relisted THEN ckpt \ {cycle.fs}
                  ELSE ckpt \cup {cycle.fs}
       /\ records' = [of |-> cycle.fs,
                      whole |-> /\ (clean /\ ~cycle.delta)
                                   \/ records = [of |-> cycle.fs, whole |-> TRUE]
                                /\ ~relisted]
       /\ recover' = ~clean
  /\ tracker' = [ready |-> TRUE, dirty |-> FALSE]
  /\ cycle' = IF pending /\ remoteFs # None
              THEN [asked |-> cycle.asked, fs |-> remoteFs, hit |-> FALSE,
                    delta |-> ByDelta(cycle.asked, records', tracker', ckpt', recover')]
              ELSE NoCycle
  /\ pending' = FALSE
  /\ disk' = IF remoteFs # None /\ ~Connecting THEN settings ELSE disk
  /\ UNCHANGED <<settings, secrets, remoteFs, op>>

\* A crash or a reload: what is not on disk, in SecretStorage or in IndexedDB
\* is gone, and onload runs initBackend, with no await before it.
Reload ==
  /\ "abandons" \in Modes \/ ~(op.changed /\ Owed)
  /\ Compare(disk, [Idle EXCEPT !.kind = "init"])
  /\ remoteFs' = None
  /\ tracker' = [ready |-> FALSE, dirty |-> FALSE]
  /\ cycle' = NoCycle /\ pending' = FALSE /\ recover' = FALSE
  /\ UNCHANGED <<disk, secrets, ckpt, records>>

-----------------------------------------------------------------------------
Operation ==
  \/ initBackend
  \/ CompleteAuth \/ SaveSettings \/ ResetAllCheckpoint \/ ResetAllRecords
  \/ Rebuild \/ ChooseFolder \/ Revoke \/ SweepSecrets
  \/ ProviderRefuses \/ OperationThrows

User ==
  \/ StartBackendConnect \/ StartBackendFolderPick
  \/ CompleteBackendConnect \/ CompleteBackendAuthFolderPick
  \/ CompleteBackendFolderPick \/ BindDefaultRemoteVault
  \/ DisconnectBackend
  \/ SwitchBackend
  \/ \E t \in Targets : EditFolder(t)
  \/ RunSync \/ VaultChange \/ DebouncedSync

Next == Operation \/ User \/ EndCycle \/ Reload

\* Requests are answered and transfers end; nothing is assumed of the user.
Fairness == WF_vars(Operation) /\ WF_vars(EndCycle)

Spec == Init /\ [][Next]_vars /\ Fairness

-----------------------------------------------------------------------------
(* A cycle never joins one target's files with records another target      *)
(* made, although the record store is keyed by the vault alone, and it     *)
(* asks for the checkpoint of the target it works on: otherwise every      *)
(* local file "matches", or is deleted because the new folder lacks it     *)
(* (backend-manager.ts:64-71).                                             *)
OwnRecords == isLocked => cycle.asked = cycle.fs /\ records.of \in {None, cycle.fs}

(* A cycle works from the delta only with the records of every file its    *)
(* checkpoint speaks for; with fewer, a file that only the remote has and  *)
(* that does not change again would never be pulled (the reason for        *)
(* backend-manager.ts:106-110 and for resetAll).                           *)
ResumesWhole == cycle.delta => records = [of |-> cycle.fs, whole |-> TRUE]

(* `connecting` always falls again, though operations wait for the sync    *)
(* mutex and a burst of cycles lasts as long as vault changes ask for      *)
(* another: no sync gets past runSync's gate while it is up.  (Unless the  *)
(* plugin is reloaded again and again: every reload starts initBackend.)   *)
ConnectingEnds == <>[][~Reload]_vars => (Connecting ~> ~Connecting)
=============================================================================
