---------------------------- MODULE SyncTriggers ----------------------------
(***************************************************************************)
(* What starts a sync cycle, and what keeps one from starting: the events  *)
(* the scheduler listens to (src/src/sync/scheduler.ts), the gates of      *)
(* runSync and the syncPending flag by which a request that finds the mutex *)
(* taken asks for another round (src/src/sync/orchestrator.ts), the mutex  *)
(* every user of the sync state queues for (src/src/queue/async-queue.ts), *)
(* and what starts a cycle when the workspace or a backend gets ready      *)
(* (src/src/main.ts, src/src/fs/backend-manager.ts).                       *)
(*                                                                         *)
(* Of a cycle there is its snapshot of the tracker, the local paths its    *)
(* detection looks at, and its end: well, or fatal (the snapshot is not    *)
(* acknowledged).  What becomes of the changes is module SyncCycle's.      *)
(*                                                                         *)
(* The code loses requests in some schedules.  Losses names those this     *)
(* instance lets happen.                                                   *)
(***************************************************************************)
EXTENDS Naturals, Sequences

CONSTANTS Paths,
          Events,  \* what may happen besides edits, departures and returns
          Losses,
          MaxActs  \* bound: edits, commands, connects, aborts, losses of the network

(* unread: a request arrives while a single pull holds the mutex.          *)
(* abort: a cycle ends by its fatal return.                                *)
(* onlineDropped: the network returns while the mutex is taken, and marks  *)
(*   wait that its holder will not take along.                             *)
(* connectFails: connecting ends over a bound remote without a request.    *)
(* boundDropped: connecting ends while the mutex is taken.                 *)
(* sweeps: a path of the running snapshot changes once more after the cycle *)
(*   has looked at it.                                                     *)
AllLosses == {"unread", "abort", "onlineDropped", "connectFails", "boundDropped", "sweeps"}

ASSUME TriggerAssumption == MaxActs \in Nat /\ Paths # {} /\ Losses \subseteq AllLosses

VARIABLES
  holder,       \* who holds syncMutex: "none", "sync", "reset", "pull", "clear"
  queue,        \* AsyncMutex.waiting
  syncPending,  \* SyncOrchestrator.syncPending
  dirty,        \* LocalChangeTracker.dirtyPaths
  initialized,  \* LocalChangeTracker.initialized
  snapshot,     \* the dirty paths the running cycle has captured
  looks,        \* the paths the running cycle has still to look at
  seen,         \* those it has looked at, and that have not changed since
  edited,       \* the paths whose last change no finished cycle has seen
  debounce,     \* the debounce timer is armed
  coldOwed,     \* a rescan discarded the checkpoint; no cycle ended well since
  resuming,     \* rescans whose reset is done and whose runSync is to come
  departed,     \* scheduler.departed
  left,         \* the app was left, and no cycle has started since
  cooling,      \* the foreground cooldown window is open
  online,       \* navigator.onLine
  bound,        \* there is a remote file system
  connecting,   \* BackendManager.connecting
  ready,        \* workspace.layoutReady
  loaded,       \* onload is past its initBackend: commands and scheduler are there
  acts          \* how many of the bounded happenings there were

lock       == <<holder, queue>>
cycle      == <<snapshot, looks, seen, left>>
rescans    == <<coldOwed, resuming>>
signals    == <<departed, cooling>>
connection == <<online, bound, connecting, ready, loaded>>

trigVars == <<lock, syncPending, dirty, initialized, cycle, edited, debounce, rescans,
              signals, connection, acts>>

Waiters == {"reset", "pull", "clear"}

TriggerTypeOK == /\ holder \in {"none", "sync"} \cup Waiters
                 /\ queue \in Seq(Waiters)
                 /\ \A set \in {dirty, snapshot, looks, seen, edited} : set \subseteq Paths
                 /\ \A flag \in {syncPending, initialized, debounce, coldOwed, departed, left,
                                 cooling, online, bound, connecting, ready, loaded} : flag \in BOOLEAN
                 /\ resuming \in 0..MaxActs
                 /\ acts \in 0..MaxActs

(* The plugin's first initBackend is under way, perhaps before the         *)
(* workspace is ready; anything may have changed while it was not running. *)
Init == /\ holder = "none" /\ queue = <<>>
        /\ syncPending = FALSE
        /\ dirty = {} /\ initialized = FALSE
        /\ snapshot = {} /\ looks = {} /\ seen = {}
        /\ edited = Paths
        /\ debounce = FALSE
        /\ coldOwed = FALSE /\ resuming = 0
        /\ departed = FALSE /\ left = FALSE /\ cooling = FALSE
        /\ online = TRUE /\ bound = FALSE /\ connecting = TRUE
        /\ ready \in BOOLEAN /\ loaded = FALSE
        /\ acts = 0

Happens == acts < MaxActs /\ acts' = acts + 1

-----------------------------------------------------------------------------
(* The orchestrator. *)

(* collectChanges: hot looks at the marked paths; warm and cold look at all *)
(* (cold also after failures and changes of scope, which are not followed   *)
(* here).                                                                  *)
LooksAt(marks, warmedUp) ==
  IF warmedUp /\ marks # {} /\ ~coldOwed THEN {marks, Paths} ELSE {Paths}

(* The head of the do/while: the request flag is cleared and the tracker's *)
(* state frozen.                                                           *)
BeginCycle(marks, warmedUp) ==
  /\ syncPending' = FALSE
  /\ snapshot' = marks
  /\ looks' \in LooksAt(marks, warmedUp)
  /\ seen' = {}
  /\ left' = FALSE

NoCycle == /\ snapshot' = {} /\ looks' = {} /\ seen' = {}
           /\ UNCHANGED left

StartCycle == holder' = "sync" /\ BeginCycle(dirty, initialized)
StartsNothing == UNCHANGED <<holder, syncPending, cycle>>

(* Commands and scheduler are there, and the scheduler has wired its events. *)
Listening == loaded /\ ready

Gated == ~bound \/ connecting \/ ~ready

(* Mutant: a request that finds the mutex taken is dropped. *)
RunSyncUnnoted == IF Gated \/ holder # "none" THEN StartsNothing ELSE StartCycle

(* runSync: nothing without a remote, while connecting or before the       *)
(* workspace is ready; a request that finds the mutex taken leaves a note. *)
RunSync ==
  \/ Gated /\ StartsNothing
  \/ ~Gated /\ holder = "none" /\ StartCycle
  \/ ~Gated /\ holder # "none" /\ syncPending' = TRUE /\ UNCHANGED <<holder, cycle>>

(* The note of a request would be left to nobody: pullSingle does not read it. *)
Unread == ~Gated /\ holder = "pull"

(* The plugin's own runSync: dropped while the mutex is taken. *)
PluginRunSync == IF holder = "none" THEN RunSync ELSE StartsNothing

(* release(): straight to the next waiter, if there is one. *)
HandOver == IF queue = <<>> THEN holder' = "none" /\ queue' = queue
                            ELSE holder' = Head(queue) /\ queue' = Tail(queue)

(* The detection of the attempt that gets through. *)
Detect ==
  /\ holder = "sync" /\ looks # {} /\ bound
  /\ seen' = looks
  /\ looks' = {}
  /\ UNCHANGED <<lock, syncPending, dirty, initialized, snapshot, left, edited, debounce,
                 rescans, signals, connection, acts>>

(* A cycle ends and acknowledges its snapshot (every path of it, whatever  *)
(* has marked it since); it leaves the loop unless somebody asked for      *)
(* another.                                                                *)
CycleEnds ==
  /\ holder = "sync" /\ looks = {}
  /\ dirty' = dirty \ snapshot
  /\ initialized' = TRUE
  /\ edited' = edited \ seen
  /\ coldOwed' = FALSE
  /\ IF syncPending THEN BeginCycle(dirty', TRUE) /\ UNCHANGED lock
                    ELSE NoCycle /\ HandOver /\ UNCHANGED syncPending
  /\ UNCHANGED <<debounce, resuming, signals, connection, acts>>

(* executeWithRetry gave up: runSync returns from the middle of the loop.  *)
(* It has to where the remote is gone when detection begins.               *)
CycleAborts ==
  /\ holder = "sync"
  /\ \/ looks # {} /\ ~bound /\ UNCHANGED acts
     \/ "abort" \in Losses /\ Happens
  /\ NoCycle
  /\ HandOver
  /\ UNCHANGED <<syncPending, dirty, initialized, edited, debounce, rescans, signals,
                 connection>>

Acquire(who) == IF holder = "none" THEN holder' = who /\ queue' = queue
                                   ELSE holder' = holder /\ queue' = Append(queue, who)

OfflineGated == "pauseWhenOffline" \in Events /\ ~online

(* pullSingle of a file that is opened, and the clearSyncState that a      *)
(* change of the connection awaits.                                        *)
LockFor(who) ==
  /\ who \in Events \cap {"pull", "clear"} /\ Happens
  /\ who = "pull" => Listening /\ bound /\ ~OfflineGated
  /\ who = "clear" => connecting
  /\ Acquire(who)
  /\ UNCHANGED <<syncPending, dirty, initialized, cycle, edited, debounce, rescans, signals,
                 connection>>

(* A completed pull takes its path's mark: the path was found unchanged.   *)
Unlock ==
  /\ holder \in {"pull", "clear"}
  /\ \/ UNCHANGED dirty
     \/ holder = "pull" /\ \E path \in dirty \ edited : dirty' = dirty \ {path}
  /\ HandOver
  /\ UNCHANGED <<syncPending, initialized, cycle, edited, debounce, rescans, signals,
                 connection, acts>>

(* rescan: the reset under the mutex, then a request like any other. *)
RescanCommand ==
  /\ "rescan" \in Events /\ loaded /\ Happens
  /\ Acquire("reset")
  /\ UNCHANGED <<syncPending, dirty, initialized, cycle, edited, debounce, rescans, signals,
                 connection>>

ResetDone ==
  /\ holder = "reset"
  /\ coldOwed' = (coldOwed \/ bound)
  /\ resuming' = resuming + 1
  /\ HandOver
  /\ UNCHANGED <<syncPending, dirty, initialized, cycle, edited, debounce, signals,
                 connection, acts>>

RescanRuns ==
  /\ resuming > 0 /\ (Unread => "unread" \in Losses)
  /\ resuming' = resuming - 1
  /\ RunSync
  /\ UNCHANGED <<queue, dirty, initialized, edited, debounce, coldOwed, signals, connection,
                 acts>>

(* The command and the status bar icon.  (Without a remote it connects     *)
(* first, as ConnectBegins may at any time.)                               *)
SyncNow ==
  /\ "syncNow" \in Events /\ loaded
  /\ PluginRunSync
  /\ UNCHANGED <<queue, dirty, initialized, edited, debounce, rescans, signals, connection,
                 acts>>

-----------------------------------------------------------------------------
(* The scheduler, which listens from when the workspace is ready. *)

(* A vault event marks the path and arms the debounce. *)
VaultChange(path) ==
  /\ Listening /\ Happens
  /\ holder = "sync" /\ looks = {} /\ path \in snapshot => "sweeps" \in Losses
  /\ dirty' = dirty \cup {path}
  /\ edited' = edited \cup {path}
  /\ seen' = seen \ {path}
  /\ debounce' = TRUE
  /\ UNCHANGED <<lock, syncPending, initialized, snapshot, looks, left, rescans, signals,
                 connection>>

DebounceFires ==
  /\ debounce /\ (Unread /\ ~OfflineGated => "unread" \in Losses)
  /\ debounce' = FALSE
  /\ IF OfflineGated THEN StartsNothing ELSE RunSync
  /\ UNCHANGED <<queue, dirty, initialized, edited, rescans, signals, connection, acts>>

GoOffline ==
  /\ "pauseWhenOffline" \in Events /\ Happens
  /\ online
  /\ online' = FALSE
  /\ UNCHANGED <<lock, syncPending, dirty, initialized, cycle, edited, debounce, rescans,
                 signals, bound, connecting, ready, loaded>>

(* What is marked has a request to come, or the running cycle has it. *)
MarksProvidedFor == debounce \/ (holder = "sync" /\ dirty \subseteq snapshot)

(* triggerSync: dropped while the mutex is taken, by whomever. *)
Online ==
  /\ ~online
  /\ Listening /\ holder # "none" /\ ~MarksProvidedFor => "onlineDropped" \in Losses
  /\ online' = TRUE
  /\ IF Listening /\ holder = "none" THEN RunSync ELSE StartsNothing
  /\ UNCHANGED <<queue, dirty, initialized, edited, debounce, rescans, signals, bound,
                 connecting, ready, loaded, acts>>

(* blur, or visibilitychange to hidden. *)
Depart ==
  /\ Listening
  /\ departed' = TRUE
  /\ left' = TRUE
  /\ UNCHANGED <<lock, syncPending, dirty, initialized, snapshot, looks, seen, edited, debounce,
                 rescans, cooling, connection, acts>>

(* Mutant: the departure is forgotten before the mutex is looked at. *)
ReturnForgets ==
  /\ Listening /\ bound /\ ~OfflineGated /\ departed /\ ~cooling
  /\ departed' = FALSE
  /\ cooling' = TRUE
  /\ PluginRunSync
  /\ UNCHANGED <<queue, dirty, initialized, edited, debounce, rescans, connection, acts>>

(* triggerForegroundSync, past its own early returns; those of runSync come *)
(* after the departure is forgotten and the cooldown begun.                *)
Return ==
  /\ Listening /\ bound /\ ~OfflineGated /\ holder = "none" /\ departed /\ ~cooling
  /\ departed' = FALSE
  /\ cooling' = TRUE
  /\ RunSync
  /\ UNCHANGED <<queue, dirty, initialized, edited, debounce, rescans, connection, acts>>

CooldownEnds ==
  /\ cooling
  /\ cooling' = FALSE
  /\ UNCHANGED <<lock, syncPending, dirty, initialized, cycle, edited, debounce, rescans,
                 departed, connection, acts>>

-----------------------------------------------------------------------------
(* The workspace and the connection. *)

(* Mutant: the plugin waits for the first event. *)
LayoutReadyIdly ==
  /\ ~ready /\ ready' = TRUE
  /\ StartsNothing
  /\ UNCHANGED <<queue, dirty, initialized, edited, debounce, rescans, signals, online, bound,
                 connecting, loaded, acts>>

(* onLayoutReady: the scheduler begins to listen, and one cycle catches up. *)
LayoutReady ==
  /\ ~ready /\ ready' = TRUE
  /\ IF loaded /\ ~OfflineGated /\ bound /\ ~connecting /\ holder = "none"
     THEN StartCycle ELSE StartsNothing
  /\ UNCHANGED <<queue, dirty, initialized, edited, debounce, rescans, signals, online, bound,
                 connecting, loaded, acts>>

(* A backend is connected, a folder chosen, or either given up. *)
ConnectBegins ==
  /\ "connect" \in Events /\ loaded /\ Happens
  /\ ~connecting
  /\ connecting' = TRUE
  /\ UNCHANGED <<lock, syncPending, dirty, initialized, cycle, edited, debounce, rescans,
                 signals, online, bound, ready, loaded>>

ClearAwaited == holder = "clear" \/ \E i \in DOMAIN queue : queue[i] = "clear"

(* There is a file system: onRemoteBound, after the flag is down; to the   *)
(* plugin's runSync.                                                       *)
ConnectHandsOver ==
  /\ connecting /\ ~ClearAwaited
  /\ holder # "none" => "boundDropped" \in Losses
  /\ connecting' = FALSE /\ loaded' = TRUE
  /\ bound' = TRUE
  /\ IF ready /\ holder = "none" THEN StartCycle ELSE StartsNothing
  /\ UNCHANGED <<queue, dirty, initialized, edited, debounce, rescans, signals, online, ready,
                 acts>>

(* A folder that cannot be bound: the file system there was stays, and     *)
(* nobody is told.                                                         *)
ConnectFails ==
  /\ connecting /\ ~ClearAwaited
  /\ bound => "connectFails" \in Losses
  /\ connecting' = FALSE /\ loaded' = TRUE
  /\ UNCHANGED <<lock, syncPending, dirty, initialized, cycle, edited, debounce, rescans,
                 signals, online, bound, ready, acts>>

(* Disconnected, switched, or without tokens. *)
Disconnects ==
  /\ "connect" \in Events /\ connecting /\ ~ClearAwaited
  /\ bound /\ bound' = FALSE
  /\ connecting' = FALSE /\ loaded' = TRUE
  /\ UNCHANGED <<lock, syncPending, dirty, initialized, cycle, edited, debounce, rescans,
                 signals, online, ready, acts>>

ConnectEnds == ConnectHandsOver \/ ConnectFails \/ Disconnects

Next ==
  \/ Detect
  \/ CycleEnds
  \/ CycleAborts
  \/ \E who \in Waiters : LockFor(who)
  \/ Unlock
  \/ RescanCommand
  \/ ResetDone
  \/ RescanRuns
  \/ SyncNow
  \/ \E path \in Paths : VaultChange(path)
  \/ DebounceFires
  \/ GoOffline
  \/ Online
  \/ Depart
  \/ Return
  \/ CooldownEnds
  \/ LayoutReady
  \/ ConnectBegins
  \/ ConnectEnds

Spec == Init /\ [][Next]_trigVars

(* What is under way ends, a timer that is armed fires, the workspace      *)
(* loads, and the network comes back.  The user need not come back: a      *)
(* foreground signal is fair only in what it may find over and over again. *)
FairSpec ==
  /\ Spec
  /\ WF_trigVars(Detect) /\ WF_trigVars(CycleEnds) /\ WF_trigVars(CycleAborts)
  /\ WF_trigVars(Unlock)
  /\ WF_trigVars(ResetDone) /\ WF_trigVars(RescanRuns)
  /\ WF_trigVars(DebounceFires) /\ WF_trigVars(CooldownEnds)
  /\ WF_trigVars(LayoutReady) /\ WF_trigVars(ConnectEnds) /\ WF_trigVars(Online)
  /\ SF_trigVars(Return)

(* A user who keeps leaving the app as well. *)
ReturningUserSpec == FairSpec /\ WF_trigVars(Depart)

-----------------------------------------------------------------------------
(* Every local change is seen by a cycle that ends well, while there is a  *)
(* remote: those made before the plugin was loaded by the catch-up cycle,  *)
(* those made during a cycle because the debounced request leaves a note   *)
(* and the do/while runs another (ADR 0004), those made offline or while   *)
(* connecting by what ends either.  Without a user who leaves and comes    *)
(* back this takes Losses = {}; with one, nothing is lost for good.        *)
EditsReachACycle == \A path \in Paths : path \in edited ~> (path \notin edited \/ ~bound)

RescanOwed == coldOwed \/ holder = "reset" \/ \E i \in DOMAIN queue : queue[i] = "reset"

(* Every rescan gets its reset and then its cold cycle (main.ts rescan: "a *)
(* cold cycle still runs once the current one finishes"), whoever holds    *)
(* the mutex or waits for it when it is asked for and when the reset is    *)
(* done, and whatever gate the request meets.                              *)
RescansReachACycle == RescanOwed ~> (~RescanOwed \/ ~bound)

(* After every departure a foreground signal leads to a cycle that started *)
(* later than it, without the user leaving again (ADR 0007: "never miss a  *)
(* return"; scheduler.ts, departed "is cleared only here, when we actually *)
(* run the resume sync"), also if the signal comes during a cycle, in the  *)
(* cooldown, offline or while connecting.                                  *)
ReturnsReachACycle == left ~> (~left \/ ~bound)
=============================================================================
