# TLA+ models and proofs of VaultBridge

VaultBridge is an Obsidian plugin that keeps a vault and a folder at a cloud
provider (Google Drive, Dropbox, OneDrive) in agreement. This directory holds
TLA+ models of its sync engine, TLC configurations that check them on small
instances, and TLAPS proofs of what holds for every instance. Paths below are
relative to the plugin's source, `src/src/`; `ADR n` is `src/docs/adr/000n-*.md`.

The question all of it serves is the one the code's own documents put first:
**can a change made on one side be forgotten, or a file be deleted, without the
user having asked for it**, whatever fails or races in between?

    tlc  -config CycleHolds.cfg MCSyncCycle.tla     model-check one run
    tlapm SyncCycle_proofs.tla                      check one module's proofs

`PROJECT.json` lists the runs, which source lines each definition stands for,
the hazards, the findings, and for each property a change to the model that breaks it.

## 1. The system

| Component | State it keeps | Operations | Talks to |
|---|---|---|---|
| Orchestrator (`sync/orchestrator.ts`) | `recoverViaColdScan`, held and approved deletions, `syncPending`, the mutex | `runSync` (cycle, retry, commit), `pullSingle`, `rescan`, `clearSyncState`, approvals | everything below |
| Change detection (`sync/change-detector.ts`) | none | hot, warm, cold collection; confirmation of remote deletions | both file systems, records, tracker |
| Decision engine, deletion guards | the rolling deletion window | action per path; hold deletions; refuse a suspicious listing | orchestrator |
| Plan executor, state committer | none between plans | three phases of actions, each I/O followed by its record | both file systems, records, pool |
| Conflict resolution | history, tracker file | merge, newest wins, duplicate | executor |
| Local tracker (`sync/local-tracker.ts`) | dirty paths, rename pairs | mark, snapshot, acknowledge | scheduler writes it, cycles read it |
| Caching remote file system (`fs/caching/`) | file map, cursor, `touchedPaths`, `pendingFullPersist`, fingerprint | load, full scan, delta, write/delete/rename/read, commit, reset | provider, metadata store |
| Metadata store, state store (IndexedDB) | committed map + cursor + fingerprint; SyncRecords | transactions | the two above |
| Transfer pool, mutex (`queue/`) | counters, queues, adaptive limit | run, drain, 429 back-off; acquire, release | executor, orchestrator |
| Scheduler (`sync/scheduler.ts`) | debounce, `departed`, cooldown | vault, online, foreground and timer events | orchestrator |
| Backend manager, providers (`fs/backend-manager.ts`) | settings, the live file system, `connecting` | connect, choose a folder, disconnect, switch | settings, orchestrator, both stores |
| OAuth (`fs/oauth-pkce.ts`, `fs/*/auth*.ts`) | token managers, SecretStorage | refresh, rotate, consent, revoke | request wrappers, backend manager |
| Renames, folders, pruning | none of their own | refine a plan by rename pairs; remove empty folders | executor |
| Deletion dialog (`ui/deletion-modal.ts`) | none | delete in cloud, store and vault at once | remote file system, records, vault |
| Wake lock | the screen lock | acquire, release | orchestrator |

Three pieces of state carry the correctness argument. **A** is the committed
checkpoint: a cursor, the file map that goes with it and the scope fingerprint,
in one transaction. **B** is the set of SyncRecords: what each side held when a
path was last reconciled, written after each action. **C** lives in memory: the
live cursor, the live file map, the dirty set, the recovery flag. C runs ahead
of A during every cycle and is thrown away by a restart; B is written in the
middle of cycles; A only at the end of clean ones. Everything hard in the
system is a question of which of the three knows a change that another one has
already dropped:

* a cycle fails, in part or as a whole, after C's cursor moved (only the next
  cold cycle can still find what was missed);
* the process dies between a record (B) and the checkpoint (A);
* a delta or a full listing breaks off half-way through the live map;
* the user or another device changes a file between detection and execution;
* a user holds, approves or re-scopes something between two cycles;
* a trigger arrives while the mutex is held, offline, in a cooldown, or before a
  backend or the workspace is ready;
* a rename is told by one side while the other changed what it moves;
* the remote itself is exchanged for another one, with a cycle in flight;
* a token is refreshed, rotated or withdrawn under concurrent requests;
* a transfer fails, or is throttled, while others queue behind it.

What would make each component correct:

* *checkpoint and file system*: cursor and map agree, in memory and in the store;
  what a commit does not rewrite in the store has not changed;
* *cycle*: the committed checkpoint never covers a remote change that no record
  baselines; nor does the live cursor, unless the next cycle is cold or the
  path is held; a local file is deleted only if the remote one is really gone;
  once edits and faults stop, both sides agree and stay so;
* *pool*: no slot, byte or wake-up is lost, limits hold, throttling sheds load,
  nobody starves;
* *triggers*: every edit, every rescan and every return to the app gets a cycle;
* *metadata cache*: its indexes describe one tree, the provider's, and every
  path that changed is told;
* *mutations in phases*: callers cannot tell them from single steps;
* *transfers and conflicts*: no edit disappears, none goes unnoticed;
* *renames, folders*: no content is lost, a refined plan has the effect of the
  plain one;
* *backend lifecycle*: no cycle trusts what belongs to another folder;
* *tokens*: no false sign-out, no mixture of two consents, every request ends.

## 2. The modules

    CachingRemoteFs  <-- EXTENDS --  SyncCycle      AdaptivePool       SyncTriggers
    (remote-fs.ts,                   (one device's  (async-queue.ts)   (scheduler.ts, gates,
     metadata-store.ts)               engine)          |                mutex, syncPending)
        ^       |                        |          AdaptivePool_proofs
        |   CachingRemoteFs_proofs <- SyncCycle_proofs
     INSTANCE (refinement)
        |
    RemoteOps <- RemoteOps_proofs    MetadataCache <- RemoteTree <- IdDelta
    (withCacheMutex, its phases)     (the cache)      (provider)    (feeds, rescan)
                                                                       |
                                                                  IdDelta_proofs

    Transfer              Renames               Backend               Tokens
    (one file's action,   (tracker, optimisers, (backend-manager.ts)  (OAuth, refresh)
     step by step)         plan, pruning)                |              |
        |                                         Backend_proofs      Tokens_proofs
    Transfer_proofs

`MCxxx` modules give the constants of a run values TLC can use. The modules take
the system apart by what its properties tell apart: SyncCycle has whole actions
on flat paths and every fault around a cycle; Transfer the steps inside one
action on one path; Renames trees and plans, with actions whole; IdDelta the
folders of the remote side; Backend cycles seen from outside.

### CachingRemoteFs

The remote file system as its callers see it, with the store beneath and the
provider above. The main abstraction: a **cursor is the set of paths the
provider has still to report to its holder** (`unseen` for the cursor in memory,
`storeUnseen` for the committed one). A remote change, by whomever, adds the
path to both; replaying the feed empties the first; a commit copies the first
into the second. The feed reports a path once however often it changed, which is
what a replay of several entries of one file amounts to. Contents are values of
a small set; a path is a file, never a folder.

| In the model | In the code |
|---|---|
| `LoadFromCache` | `ensureInitialized` with a stored cursor |
| `BeginFullScan`, `EndFullScan`, `ScanThrows` | `fullScan`: start cursor, empty cache, then the listing. Other devices act in between |
| `FetchDelta`, `FetchPageThenThrow` | `fetchChanges` over a provider's incremental sync; `Reported` drops a tombstone whose id the map does not know (`id-delta.ts`) |
| `ReportedAfterExpiry` | `diffById` after an expired cursor |
| `WriteFile`, `DeleteFile`, `RenameFile`, `ReadNotFound` | the mutations, each as one step (RemoteOps has their phases); a 404 on reading evicts the entry |
| `CommitCheckpoint`, `CommitThrows`, `ResetCheckpoint`, `Restart` | `commitCheckpoint` (whole map, or touched paths), its failure, `resetCheckpoint`, a fresh object over the same store |

`FsSpec` lets any caller do any of this in any order. It is the abstract
specification that the engine is shown to refine.

### SyncCycle

One engine over that file system: `runSync`, `executeWithRetry`,
`executeSyncOnce` and what they call. `pc` says where the cycle is: `idle`,
`detect` (fetch, planning, guards), `exec` (the plan's actions, one by one, in
any order the phases allow). A SyncRecord is the pair of contents it baselines.
Between any two steps the user edits local files and other devices edit remote
ones.

| In the model | In the code |
|---|---|
| `StartCycle` | the head of `runSync`: forced flag, snapshot, fingerprint |
| `Temperature`, `Candidates` | hot, warm, cold and the paths each looks at |
| `Decide` | `decideAction` |
| `SuspiciousListing`, `Unapproved`, `Hold` | `enforceListingCompleteness`, `splitPlanAtLimit`; the velocity window is a choice of its answer |
| `DetectByDelta`, `DetectByScan`, `DetectByRescan` | `collectChanges` to `executePlan`, by what the fetch had to do |
| `ExecuteAction`, `ActionOvertaken` | `runActionIO` with `commitAction`; an action whose premise is gone |
| `ActionFails`, `ActionFailsLate`, `ActionRefused`, `AuthAbort` | failure before the I/O; after it, or with the answer lost; a repeated permanent refusal; an AuthError out of the plan |
| `CompleteCycle`, `CommitFails`, `SaveSettingsFails` | clean-cycle test, commit, acknowledge, recovery flag; their failures |
| `FetchFails`, `FetchBreaks`, `DetectThrows`, `RetryOrGiveUp` | what `executeWithRetry` catches, and what it then does |
| `ApproveDeletions`, `SetScope`, `Rescan`, `PullSingle`, `Crash`, `Reload` | what happens around the cycles |
| `DirectDelete`, `DirectCommit`, `DirectForget`, `DirectVaultDelete` | the four awaits of `executeDirectDelete`, which holds no lock of the cycle's |

Deliberate abstractions. Comparison of files is equality of contents (Transfer and
Renames have hashes, mtimes and their gaps). A conflict ends with either side's
content on both; the sibling copy of the loser is followed in Transfer. The reads
and writes *inside* one action are one step. A direct deletion needs a loaded file
system, and does not fall on a path whose planned action is `match`. Which permanent failures `FailedActionTracker` blocks is a
choice over the actions it may block. The `storageFull` branch of
`executeWithRetry` (orchestrator.ts:509-517) is reached only by an error outside
of the plan's actions, where the model's `RetryOrGiveUp` leaves the flag alone;
in the plan, `executeAction` catches everything but an AuthError.

Which faults and outside events may happen is the constant `Events`, one name
per event; `MaxEvents` bounds how many of them a behaviour has. This is how one
model answers different questions: a run names what it allows.

### AdaptivePool

`queue/async-queue.ts`'s `AdaptivePool` at the grain of its awaits. What the code
does between two awaits runs alone, so the end of a task is a chain of steps
(`phase`) nothing interrupts: ramp and its drain, release and its drain, one
turn of the drain's loop per step. A task that ended may be submitted again,
standing for the next of its size.

### SyncTriggers

What starts a cycle and what keeps one from starting.

| In the model | In the code |
|---|---|
| `RunSync`, `Gated`, `PluginRunSync` | `runSync`: nothing without a remote, while `connecting`, before the layout is ready; `syncPending` when the mutex is taken. The plugin's own `runSync` drops its request in that case |
| `BeginCycle`, `LooksAt`, `Detect`, `CycleEnds`, `CycleAborts` | the do/while: snapshot, the paths a hot or a full detection looks at, acknowledgement of *every* path of the snapshot, another round if one was asked for; the fatal return, which leaves the loop and its flag |
| `Acquire`, `HandOver`, `LockFor`, `Unlock`, `RescanCommand`, `ResetDone`, `RescanRuns` | `AsyncMutex` with its direct hand-over among cycle, a rescan's reset, `pullSingle` and `clearSyncState`; the `runSync` that follows a reset |
| `VaultChange`, `DebounceFires`, `Online`, `Depart`, `Return`, `CooldownEnds` | the scheduler. `Return` forgets the departure and begins the cooldown *before* `runSync` looks at its gates |
| `LayoutReady` | the scheduler begins to listen, one cycle catches up |
| `ConnectBegins`, `ConnectHandsOver`, `ConnectFails`, `Disconnects` | `connecting` up; down with `onRemoteBound`, with the old file system and no request, with none at all |

What is followed of an edit is whether a cycle that ends well has looked at it since
(`edited`, `seen`); marked is something else (`dirty`). Where the code loses a
request, the schedule has a name in `Losses`: `unread` (a request noted while a
single pull has the mutex: `pullSingle` does not read `syncPending`), `abort` (a cycle
ends by its fatal return), `onlineDropped` (`triggerSync` drops the online event while
the mutex is taken, though its holder will not take the waiting marks along),
`connectFails` (connecting ends over a bound remote without `onRemoteBound`),
`boundDropped` (`onRemoteBound` while the mutex is taken), `sweeps` (a path of the
running snapshot is changed and marked once more after the cycle has looked at it,
and the acknowledgement sweeps the new mark). `SyncNow` without a remote connects
first, which is `ConnectBegins`.

### RemoteOps

`withCacheMutex` as it is: resolve under the mutex, the request without it, the
update under it again unless the path's id has changed (`Stale`, `SkipStale`).
Threads are the pooled transfers of a plan; full scans, deltas, commits, other
clients and restarts come between any two phases. A file is an id and a version,
the feed a set of pairs of an id and the path it was changed at.

RemoteOps implements CachingRemoteFs (`PromiseKept == FS!FsSpec`). The refinement
mapping lets a mutation take effect when the provider has done it: the abstract
cache already has the outcome of an executed operation whose update is still to
come, and the abstract `touchedPaths` the path of an executed deletion. So the
one-step mutations SyncCycle is built on are justified: by TLC on the run's
instance, by `MutationsAreAtomic` for any number of paths, threads and writes.

### MetadataCache, RemoteTree, IdDelta

`MetadataCache` has the operations of `AbstractMetadataCache` as operators on a
record (file by path, path by id, folders, the children index). `RemoteTree` is
the provider, external code: a tree other clients change, and its feed, keyed by
ids (Google Drive, OneDrive) or by paths (Dropbox). `IdDelta` reads the feed in
pages of any length: `ApplyIdPage` (sort and `applyEntry`), `ReadDropboxPage` (drain,
reorder, apply), `FullScanWithDelta` (`diffById`).

`TreeEvents` names the feeds the application does not survive; `Delta.cfg` has
none of them, each is a finding. They are told apart by predicates on the tree
and the cache (`Escapes`, `TakesOver`, `LateParent`, `Inverts`, `ComesInFilled`,
`Depleted`), not by switching code off.

### Transfer

One file, one action at a time, each read, check, write, hash, stat and record a
step (`Steps` gives the list of an action, `act.todo` what is left of it). A content
is the set of edits it shows, so a lost edit is a number that no file and no copy
shows. The user and other devices act between any two steps except in a *window*
the run excludes: the steps between which the code takes no precaution
(`WindowsNow` are those a local edit would fall into).
`Transfer.cfg` opens no window; each of the seven that loses an edit or hides one
is a finding. Stop is a failure or a crash after any step.

### Renames

Trees of two levels on both sides, what vault events tell the tracker, detection
at the three temperatures, the plan, `refinePlan` and its optimisers, folder
protection, the executor's phases over the rewritten plan, records with
`rewritePaths`, pruning. A cycle is planned in one step and executed in another; in
between the user acts. `Orders` are the two orders a plan may list its paths in.
`Modes` names what else may happen: the default run has none of them.
`SameAsPlain` compares plans of which no action fails. The coalesced rename of a
folder renamed here always fails, on the folder its own push created (`folder_rename`),
so of renames made here it compares those of files; of the failed ones `ContentKept`,
`QuietMeansEqual` and `Converges` speak.

### Backend

`BackendManager` await by await: `op` is the operation under way and the step it is
at, `settings` and `disk` are what is in memory and saved, `ckpt` the targets that
have a checkpoint store, `records` the target and completeness of the one record
store. A cycle is what it captured when it began (`asked`, `fs`), whether it
works from the delta, and how it ends. `Reload` may come at any step. The state is
finite without a bound. `Modes` names four ways to an outdated checkpoint beside
emptied records, each a finding: a folder bound again to which nothing is
compared, an `initBackend` cut short between its two resets, a cycle that lists
again after it was reset, a folder id edited under an operation. `Faults` are the
calls that may throw.

### Tokens

Token managers (in the provider's slot, in the live file system, detached ones
of the settings page), the refresh they share, the cooldown, SecretStorage, the
consent dialogue and disconnecting. The authorization server is external and of
one of three policies: it never rotates a refresh token, rotates and honours the
old one, or honours the newest only. `Allowed` names the schedules `Modes` may
put back; `Superseded` is the one the proof of `OneGrant` brought to light: a
request of the old file system between the storing of a new consent and the
rebind.

## 3. Properties and runs

| Property | What it excludes |
|---|---|
| `StoreFaithful`, `CacheFaithful`, `TouchedCoversDrift` | the map and its cursor disagree, in the store or in memory; an incremental commit leaves out a path that drifted |
| `MissesOnlyDeletions` | with torn deltas: a map that holds an outdated copy of an existing file (a ghost of a deleted one it may hold) |
| `CheckpointHonest` | after a restart, a remote change that neither the cursor will report nor a record knows |
| `SessionHonest` | the same for the next cycle of the running process |
| `DeleteLocalOnEvidence` | a planned local deletion whose remote file exists and is not news |
| `Converges` (SyncCycle, Renames), `SidesMeet` | vault, remote and records never settle |
| `FsSpec` (of SyncCycle) | the engine uses the file system in a way its specification does not allow |
| `MemoryFaithful`, `PromiseKept` | a phase overwrites what a delta brought; callers see a mutation half done |
| `CacheIsATree`, `CacheMirrorsTree`, `EveryChangeReported` | indexes that contradict each other; a cache that is not the provider's tree; a change nobody is told of |
| `NoEditLost`, `EditsNoticed`, `QuietMeansEqual` (Transfer) | an edit that no file or copy shows; one a listing does not show; a record of what was not synchronized |
| `ContentKept`, `SameAsPlain`, `QuietMeansEqual` (Renames) | content lost in a rename; a rewritten plan with another effect; a rename that baselines what it did not carry |
| `OwnRecords`, `ResumesWhole`, `ConnectingEnds` | a cycle over another folder's records, or over half of its own by delta; sync locked out for ever |
| `NoFalseSignOut`, `OneGrant`, `RequestsEnd` | reconnecting for no reason; tokens of two consents together; a request that hangs |
| `Accounting`, `Bounded`, `BudgetRespected`, `NoLostWakeup`, `ShedsLoad`, `EveryTaskRuns` | leaks, overshoot, forgotten or overtaken waiters |
| `EditsReachACycle`, `RescansReachACycle`, `ReturnsReachACycle` | an edit no cycle ever looks at; a rescan without its cold cycle; a return whose signals are used up by a gate |

Runs that pass:

| Run | Module, states | Bounds | Shows |
|---|---|---|---|
| `cycle_holds` | MCSyncCycle, 687 thousand | 2 paths, 3 contents, 2 events, limit of 1 deletion | the honesty of A and C, and the faithfulness of the maps, under failing scans, fetches, actions, commits, lost answers, refusals, approvals, reloads, rescans, single pulls |
| `cycle_faults` | MCSyncCycle, 2.5 million | 2 paths, 2 contents, 2 events, listing floor 2, all paths in scope or none | types, deletion on evidence and refinement under every event but a rescan that throws: crashes, torn deltas, races of settings, AuthErrors, direct deletions included |
| `cycle_converges` | MCSyncCycle, 1.3 million | 2 paths, 3 contents, 2 scopes, 2 events | `Converges`, under fairness; `CheckpointHonest` while the scope changes |
| `pool` | MCPool, 5.4 thousand | sizes 1, 1, 1, 2, 6; budget 5; limit 1 to 3 | all of the pool's properties |
| `triggers` | SyncTriggers, 164 thousand | 2 paths, 4 acts, no loss | every edit, rescan and return gets its cycle, whatever held mutex, network, cooldown, connecting or loading the requests meet |
| `delta` | MCDelta, 98 thousand | two folders, a file, two names, 3 initial trees, 3 changes | the cache under feeds by ids and by paths, with an expired cursor |
| `remote_ops` | MCRemoteOps, 231 thousand | 2 paths, 2 threads, 3 ids or versions | phases of mutations implement single steps |
| `transfer` | Transfer, 342 thousand | 1 file, 3 edits, 1 stop | every action step by step, against the user and other devices outside the seven windows |
| `renames` | MCRenames, 92 thousand | 2 folders, 2 names, 2 acts, 1 failing action | renames on either side, of files and folders |
| `backend` | MCBackend, 150 thousand | 2 backends, 4 folders | no cycle has another folder's records or checkpoint, or half of its own, and no connecting lasts, in any life of a binding around cycles, reloads and calls that throw |
| `tokens` | MCTokens, 678 thousand | 2 requests, 2 managers, 2 consents, 3 refresh and 3 access tokens, 1 event | refresh, rotation, consent |

One run shows a disagreement between document and code: `folder_rename` violates
`ContentKept`. A folder is renamed here, and nothing else. The plan has a push of the
new folder, which nobody has a record of, and one coalesced rename. The push runs first
and creates the folder, so the rename fails on it; then the old folder is trashed with
its files, whose records stay. One of the files, moved back before the next cycle, is
deleted here as well. Any plain folder rename goes this way up to the failed action;
left alone, the cold cycle that follows uploads the files again.

The other findings of `PROJECT.json` are behaviours the passing runs leave out by
name, so that each can be put back and TLC asked: an event of SyncCycle, a feed
in `TreeEvents`, a window of Transfer, a mode of RemoteOps, Renames, Backend or
Tokens, a fault of Backend. Each finding says which, and which property then
fails:

| Left out of | What |
|---|---|
| `CycleHolds.cfg`, `Events` | `crash`, `pageThrows`, `cursorExpires`, `detectThrows`, `saveFails`, `authFails`, `directDelete`, `scopeRace`; `cycle_faults` has them all, with the properties that survive them |
| `CycleFaults.cfg`, `Events` | `rescanThrows` |
| `Triggers.cfg`, `Losses` | `unread`, `abort`, `onlineDropped`, `connectFails`, `boundDropped`, `sweeps`. Each alone breaks `EditsReachACycle` under `FairSpec`; `unread` and `abort` break `RescansReachACycle` too, `connectFails` and `boundDropped` all three |
| `Delta.cfg`, `TreeEvents` | `escapes`, `lateParent`, `inverts`, `takesOver`, `comesIn`, `twins`, `depleted`, `changesMidDrain` |
| `RemoteOps.cfg`, `Modes` | `stragglers`; `both` (a restart after a rename, whose paths no commit buffers) |
| `Transfer.cfg`, `Windows` | `afterCheck`, `openDownload`, `resolving`, `hashing`, `mergeBase`, `deleting`, `overwriting` |
| `Renames.cfg`, `Modes` | `editsRenamed`, `editsDuring`, `foldersReused`, `movesBack` (the run above), `recreates` (needs `MaxOps` 3) |
| `Backend.cfg`, `Modes`, `Faults` | `returns`, `abandons`, `relists`, `edits`; `reset`, `identity`, `teardown`. `OwnRecords` survives the modes and `reset` |
| `Tokens.cfg`, `Modes` | `overlaps`, `unsaved`, `loses`, `detached`, `partial` |

**Deadlock** is checked but in `transfer` and `tokens`, where the system
may rightly stop: nothing is left to transfer, or nobody asks for anything. What
must not stop there is a liveness property. `folder_rename` ends at its violation.

**Why the bounds are enough.** *SyncCycle*: two paths are the least at which a plan
has two actions, one of which may fail, be held or be refused while the other
goes through, a page of a delta is a proper part of it, and a scope is. Paths do
not interact otherwise; the only things that count paths are the deletion limit
(1; 0, no limit, in `cycle_converges`), the listing guard (floor 2 in
`cycle_faults`; 10, as in the code, switches it off at two paths) and "no record at
all" (the cold test). `MaxTick` counts the contents ever written: the first is what
both sides may start with, so 3 leaves two edits. Two events are a fault and
another one in its aftermath. `MaxRetries` is 2 instead of 3: a first and a last
attempt. *Pool*: four tasks, one more than the limit allows, fill the budget
exactly and one exceeds it; the limit crosses both ends. *IdDelta*: two folders
nest, swap and replace each other, with a file to take along; three changes are
a move, another of the same or its parent, and an end. *RemoteOps*: two operations
on one path or on a path and a rename's other end. *Transfer*: one edit on each
side and one in the middle. *Renames*: two folders of two names hold every shape
the optimisers tell apart (whole, with a child missing, an occupied destination, a
swap of files); two acts are a rename and what the other side makes of it.
*Backend*: nothing is bounded but the folders, two of each kind of backend, of which
a binding is left and returned to. *Tokens*: two managers are the live one and
a detached or a new one; a third refresh token lets a consent be renewed and the
old one rotate after it. The bounded counters (`tick`, `events`, `acts`, `ops`,
`made`) only disable the environment, never the system.

**Fairness.** SyncCycle: a request is answered or fails (every one has a time-out),
an action of a plan is run, and a further cycle starts sooner or later
(`StartCycle`), since each vault event, timer, return to the app or to the network
triggers one. No fairness on users, other devices or faults. Transfer and
Renames: the same of one file's actions and of whole cycles. The pool: a drain
runs on, and a transfer ends. SyncTriggers: `FairSpec` says that what is under way
ends, an armed timer fires, the workspace loads, connecting ends and a lost network
returns, with strong fairness of `Return`, since a cycle, a cooldown or a lost network
disables it for a while. `ReturningUserSpec` adds a user who keeps leaving the app: a habit of users, which
nothing in the code gives, so no listed run rests on it. With it and every loss TLC
finds `EditsReachACycle` kept (46 thousand states at 3 acts): once nothing is marked, a
cycle looks at everything. Backend: a step of
an operation and the end of a cycle; `ConnectingEnds` asks that reloads end, since
each starts an `initBackend`. Tokens: the server and the API answer.

## 4. What is proved

For every value of the constants: any sets of paths, contents, fingerprints, tasks
and threads, any numbers of edits, events and retries. The assumptions are
`FsAssumption`, `CycleAssumption`, `PoolAssumption`, `OpsAssumption`,
`TransferAssumption`, `TokenBounds`, `BackendAssumption`, `CacheAssumption`,
`RemoteTreeAssumption` and `DeltaAssumption`, which type the constants, and the
hypotheses a theorem names. A hypothesis leaves out behaviours of which a finding shows that the
property fails with them; TLC has confirmed that each is needed.

| Theorem | Hypothesis | Property |
|---|---|---|
| `CheckpointIsFaithful`, `MemoryIsFaithful`, `TouchedIsEnough`; of the engine: `EngineKeepsCheckpointFaithful`, `EngineKeepsMemoryFaithful`, `EngineBuffersDrift` | `FaithfulEvents` | `StoreFaithful`, `CacheFaithful`, `TouchedCoversDrift` |
| `OnlyDeletionsMissed`, `EngineMissesOnlyDeletions` | `NoFailedRescan` | `MissesOnlyDeletions` |
| `TypesHold`, `EngineRefinesFs` | | `TypeOK`, `FsSpec` |
| `DeletionsRestOnEvidence` | `NoFailedRescan` | `DeleteLocalOnEvidence` |
| `NoChangeLostForRestart`, `NoChangeLostForSession` | `HonestEvents`, `ListingsComplete` | `CheckpointHonest`, `SessionHonest` |
| `MutationsAreAtomic`, `MemoryStaysFaithful`, `StoreKeepsUp` | `KeptModes` | `PromiseKept`, `MemoryFaithful`, `StoreKept` |
| `StepsInOrder` | | `TypeInv` |
| `EditsAreNoticed` | `NoHashingWindow` | `EditsNoticed` |
| `NoEditIsLost` | `NoWindows` | `NoEditLost` |
| `QuietIsEqual` | `NoResolvingWindow` | `QuietMeansEqual` |
| `ConsentsNeverMix` | `NoMixing` | `OneGrant` |
| `SignedOutOnlyWhenWithdrawn` | `NoModes` | `NoFalseSignOut` |
| `OwnRecordsHold` | `BindingSaved` | `OwnRecords` |
| `ResumesWholeHolds` | `CheckpointsReset` | `ResumesWhole` |
| `PoolTypesHold`, `NeverBeyondMax`, `NobodyForgotten`, `QueueStaysWellFormed`, `PoolShedsLoad` | | `PoolTypeOK`, `Bounded`, `NoLostWakeup`, `QueueWellFormed`, `ShedsLoad` |
| `NothingLeaks`, `BudgetHolds` | | `Accounting`, `BudgetRespected` |
| `CacheStaysATree` | `IdTrees` | `CacheIsATree` |
| `ChangesAreReported` | `IdTrees`, no `takesOver` | `EveryChangeReported` |
| `CacheShowsTheTree` | `PlainTrees`, `MetadataApart` | `CacheMirrorsTree` |

**The file system** (CachingRemoteFs_proofs). `FsInv` is inductive as it stands. To
show `StoreFaithful` one needs `TouchedCoversDrift` (a path an incremental commit
does not write reads the same in the store), for that `CacheFaithful` and, as a
first commit has no stored map to build on, `FirstCommitIsFull`; `ScanStates` keeps
an unfinished scan from being taken for a filled map. These three assume
`FaithfulEvents`: no torn delta, no rescan that throws, no rename.
`MissesOnlyDeletions` assumes only that no rescan throws; then what is buffered
covers drift up to deletions (`DriftIsDeletion`), which is inductive together with
the property.

**The engine** (SyncCycle_proofs). `CycleInv` adds to the types that a cycle under
way carries a real fingerprint, without which a commit would not be one the file
system's specification has. One lemma per group of actions shows that its steps are
steps of `FsNext` or leave the file system alone; for the commit of a direct
deletion, which takes the fingerprint in memory, that needs the file system's types
as well. The file system's theorems carry over to the engine by this refinement: no
schedule of cycles, crashes, edits and other faults makes map and cursor disagree.

**Evidence and honesty** (SyncCycle_proofs). A planned local deletion was decided on
a map that misses nothing but deletions, so its file was gone then; what comes back
meanwhile goes into the cursor. The honesty of the two cursors needs the whole
cycle: `HonestInv` says at each `pc` where a remote change that no record baselines
is known, be it the live cursor, the plan, the actions that failed, the held
deletions or the recovery flag that makes the next cycle cold. `HonestEvents` are the
events of `CycleHolds.cfg`; add any one of `loadFails`, `cursorExpires`, `detectThrows`,
`authFails`, `saveFails`, `crash`, `fileOpenMisses`, `directDelete`, `pageThrows` to that
run and TLC breaks one of the two properties. A change of scope is honest where
every cycle ends in a commit or asks for a cold one, as in `cycle_converges`, but
not with a race of settings, with refused actions, or with deletions held.
`ListingsComplete` says that the guard never refuses the listing of a cold scan: the
cycle that gives up over one forgets that it was to recover (with a floor of 1, TLC
shows the loss).

**Mutations in phases** (RemoteOps_proofs). `KeptModes` leaves out a restart after a
rename and transfers that outlive their plan, both findings. The heart of `OpsInv`:
wherever a map differs from the provider, its cursor tells of both the id the
map has there and the id the provider has, at that very path (`Drift`,
`TellsRemote`); the entry an operation was resolved from stands until it is applied, or another
deletion of the same file was applied (`Resolved`); what it carried out is still
to be told (`Carried`). From these the abstract cache of the refinement mapping
agrees with the provider wherever the cursor is silent, and each phase is a step of
`FsNext` or stutters under the mapping.

**One action, step by step** (Transfer_proofs). `Now` and `Left` are
the step an action is at and those it has left, with which every fact about an
action is said; `StepsInOrder` shows that they are what `Steps` lists. `Told`: a
recorded mtime is the record's own or unknown, and what `putRecord` stores was
hashed from what the vault holds. `KeptInv` is a ledger of edits: an edit is safe on
a side if that side or a copy shows it, or if somebody deleted it. The record's
hash is safe on the remote, its remote side in the vault, a merge base on both; of a
file about to be overwritten, everything is shown by its replacement or safe
elsewhere. TLC breaks `NoEditLost` with any one of the seven windows open.
`QuietIsEqual` needs only one of them closed. A record may have two contents that
differ: a download wrote here what it found, while the remote's side is the
cache's. The invariant is that then the remote, and all that is made of it,
shows an edit newer than both and than the merge base, or has become what was
written (`Fresh`), or is what the base was made of (`Beyond`, closed under a merge
of two such contents): so one of the sides has changed, and the record is not quiet.

**Tokens** (Tokens_proofs). `GrantInv` says why a refresh brings tokens of the consent
its manager holds (`Calls`) and may be published over what is stored: where
nothing rotates it does not publish, because a refresh goes out and comes back
with its manager's own token and the slot's is the stored one (`Unrotated`); where
tokens rotate, all that is in use is of the stored consent (`Rotated`). `NoMixing`
closes `overlaps` and `partial`; with either of them TLC breaks `OneGrant`. For
`NoFalseSignOut`, `SignedInv` adds that a refusal, a cooldown or a denied refresh has
a withdrawn consent behind it (`Refusals`). A request refused twice is the hard
case: its second token is new to everybody when it is issued (`Pending`, from the
server's count of tokens, `Numbered`) and is not dropped before it is used
(`Retries`). With a strict server only the live manager is used, and it never holds a
spent token but while the answer that replaces it is under way (`Unspent`); it can
be rebuilt from SecretStorage only when the two agree. `NoModes` leaves out all
five schedules, each of which breaks this property alone.

**The binding** (Backend_proofs). `BindingInv` says, for each await an operation can
stand at, whose target the live file system, the records, the cycle in flight and the
saved identity are: between resetting the stores and saving the new settings the four
disagree, and only there (`ClearedPhases`, `BuiltTarget`). It needs the saves that
bind a folder, and the record store in a disconnect, not to throw (`BindingSaved`):
with either fault TLC breaks `OwnRecords`, which needs no mode left out. `ResumeInv` adds why a checkpoint that
speaks for more than the records hold (`Stale`) is never resumed: it is of the
identity or of a folder bound before. In the first case an `initBackend` that has
seen another folder is about to reset it, or no file system is built on it
(`Doomed`); in the second the `initBackend` that will compare it with the identity
is under way and has tokens (`Guarded`); and between the two halves of `resetAll`
no cycle can write the cursor again (`ResetFirst`). `CheckpointsReset` leaves out
the four schedules of `Modes`, the saving of the identity that throws and the
checkpoint store that throws; with any one of these TLC breaks the property. A record
store that throws in a disconnect does not break it, but `BindingInv` does not hold
with it.

**The pool** (AdaptivePool_proofs). The strengthening is that `running` is the
number of active tasks; with it a full pool is one whose slots are really taken. For
`Accounting` and `BudgetRespected` the bytes in flight have to be the sum over the
active tasks, a fold. That adding or removing one task changes the sum by that
task's bytes is proved without induction: if it failed for a set, it would fail for a
smallest one (`SmallestSet`), and what it does on that set follows from the set with
one task less.

**The cache** (IdDelta_proofs). That the two maps, the children and the folders of the
cache describe one tree is not inductive: a move could put a folder into its own
subtree, and rewriting the paths below it would then lose it. `CacheInv` adds that
there is no ring of folders, some where the cache has them and the rest where the
provider has them by now (`Inverts`). Every entry keeps it, in whatever order the sort
leaves a page, since it gives one folder the parent that folder has by now.
`PlacedApplies`, `MoveIsGood`, `NewIsGood` and `RemovedGood` are the cases of
`applyFileChange`: an eviction of what was at the new path, a move of a subtree, a new
entry, a removal. `FoldLeft`, `PathsIn`, `ListedPath` and `Ancestors` are recursive
functions; that each exists is shown row by row, the least row without a value taking
the place of an induction. `IdTrees` leaves out the feeds keyed by paths,
rings (with `inverts` TLC breaks the property: two folders that change places
are enough) and two files of one name in a folder, which a full scan leaves at one
path with two ids (TLC: `twins` with `expires`). The proof has corrected the model:
`Inverts` had been about pairs of folders, and the invariant could not be shown
for rings of three. For `EveryChangeReported`, `CacheInv` adds `Tells`, the property
after any entry of any page, and `Sound` carries both through the fold. An entry
notes the path it goes to and those it leaves, of a folder all that was below it
(`EntryNotes`), so what it evicts must not be a folder: nobody notes what that one
had in it. Hence `TakesOver` is in the invariant too; an entry brings it about
for no one, since every other id keeps its folder and its name. A rescan reports the
difference of the two listings by id (`DiffTells`). With `takesOver` TLC breaks the
property.

`CacheMirrorsTree` speaks of the end of a delta, when no entry is to come. `MirrorInv`
says of the middle that an id which is *not* to come is `Settled`: it is cached right
below the folder it is in by now, under its name, or it has gone and so has the folder
the cache has it in; and whatever is tracked is cached. Paths are left out on purpose,
for those of the folders above may still change; once nothing is to come,
`SettledMirrors` makes whole paths of the single steps. An entry settles its id
(`EntrySettles`) if the folder it goes to is cached when its turn comes. That is
what `Ordered` is for, an id is in the feed once and a folder before what is in it, and
`PageOrdered`: the sort may put an id before its folder only if that one is cached. A
folder that is tracked and cached stays so through the page (`KeepsFolders`), as
none that stays was in one that goes (`Escapes`). `PlainTrees` excludes the changes
that an id-keyed delta does not survive: a folder that has left another one which goes
(`escapes`), goes where another is cached (`takesOver`), is mentioned after something
that went into it (`lateParent`), or comes in from outside with content the feed does
not mention (`comesIn`). `MetadataApart` excludes a folder that is renamed to
`.airsync` and has a `metadata.json` in it: `rewriteChildPaths` takes the file to the
reserved path, and it stays cached until a full scan. With any of these TLC finds the
property violated, so none can be dropped. `MirrorInv` was checked with TLC before it
was proved.

**Model-checked only.** Liveness (`Converges`, `EveryTaskRuns`, `EditsReachACycle`,
`RescansReachACycle`, `ReturnsReachACycle`, `SidesMeet`, `RequestsEnd`,
`ConnectingEnds`) is beyond the prover. Of `delta`, all of Dropbox's feed stays with TLC: its entries are reordered
and folded several times before they are applied. The properties of Renames
quantify over plans that several folds over sequences rewrite, one after the other;
facts about those would need an induction with an operator parameter for each.

## 5. What is not modelled

* *Folders on the remote side of the engine*: SyncCycle's paths are files; folders
  are in IdDelta and Renames. `mkdir` of missing parents on the way to an upload,
  and the choice of the vault's own folder, are left out.
* *Comparison heuristics*: the tolerance of mtimes and the checksum kinds of the
  providers (`content-identity.ts`); contents that differ, differ in mtime or size.
* *The mobile size filter, the deletion window's arithmetic, `AsyncPool`*, and
  FailedActionTracker's back-off (a choice in SyncCycle).
* *Google Workspace documents*, whose deletion is a no-op of the adapter
  (`googledrive/index.ts:74-85`), and a merge that throws and falls back to
  `keep_newer` (Transfer has that strategy from its start only).
* *The wake lock*: it keeps the screen on; nothing rests on it.
* *Upload sessions and paging* of the clients: HTTP and its chunks. Retries inside a
  request are its success or failure.
* *The dialogs and settings screens*, but for the direct deletion of one file.
* Out of the models for good: provider formats, hashing, ignore patterns, logging
  and wording. They hold no state the other parts' correctness rests on, or are
  pure functions that test vectors suit better.

The lines of `map` are what a definition stands for, its abstracted detail
included. Definitions of RemoteTree, the servers of Tokens, users and other
devices stand for nothing under `src/` and are marked external.

## 6. What is left

1. **Proofs**: the three properties of `delta` for feeds keyed by paths.
2. **Directions for the models**: several actions in flight at once in Transfer (two
   paths of one rename), direct deletion of folders, the wake lock, the chunk loop
   of the OneDrive upload session.
