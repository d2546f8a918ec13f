----------------------------- MODULE RemoteOps -----------------------------
(***************************************************************************)
(* The mutations of the caching remote file system at the grain of their   *)
(* awaits: resolved under the cache mutex, executed at the provider with   *)
(* the mutex released, applied to the cache under it again unless the      *)
(* path's id has changed (remote-fs.ts withCacheMutex, delete and read;    *)
(* write and rename of the three backends).  Pooled operations, other      *)
(* clients, deltas, commits and restarts happen between any two phases.    *)
(*                                                                         *)
(* Paths are those of files; folders are the business of IdDelta.  A file  *)
(* is its id and a version.  What a cursor has still to report is a set of *)
(* pairs of an id and a path it was changed at; a tombstone tells the id.  *)
(* FS!FsSpec, in which a mutation is one step, is what callers are told.   *)
(* An upload to a path that was taken meanwhile replaces what is there, as *)
(* Dropbox and OneDrive have it; Google Drive would make a second file of  *)
(* that name.                                                              *)
(***************************************************************************)
EXTENDS Naturals

CONSTANTS Path, Thread,
          None,           \* no file
          NoFingerprint, Fingerprint,
          MaxStamp,       \* how many times files are written
          Modes           \* what an instance allows: renames, restarts, both,
                          \* deltas during a transfer that outlived its plan

ASSUME OpsAssumption == /\ MaxStamp \in Nat \ {0}
                        /\ None \notin (1..MaxStamp) \X (1..MaxStamp)
                        /\ Fingerprint # {} /\ NoFingerprint \notin Fingerprint
                        /\ Modes \subseteq {"renames", "restarts", "both", "stragglers"}

File    == (1..MaxStamp) \X (1..MaxStamp)  \* <<id, version>>
Idle    == [phase |-> "idle", kind |-> "none"]

VARIABLES
  mode,         \* one of Modes, fixed
  remote,       \* the provider's files
  stamp,        \* the last id or version given out
  cache, unseen, touchedPaths, pendingFullPersist, initialized,
  scan,         \* a full scan holds the mutex
  saved, storeCache, storeUnseen,
  op            \* what each thread is doing

memVars   == <<cache, unseen, touchedPaths, pendingFullPersist, initialized, scan>>
storeVars == <<saved, storeCache, storeUnseen>>
vars == <<mode, remote, stamp, memVars, storeVars, op>>

NoFiles == [p \in Path |-> None]
IdOf(f) == f[1]
IdAt(files, p) == IF files[p] = None THEN 0 ELSE IdOf(files[p])  \* 0: no id

Init == /\ mode \in Modes
        /\ remote \in [Path -> {None, <<1, 1>>}]
        /\ \A p, q \in Path : remote[p] # None /\ remote[q] # None => p = q
        /\ stamp = 1
        /\ cache = NoFiles /\ unseen = {} /\ touchedPaths = {}
        /\ pendingFullPersist = FALSE /\ initialized = FALSE /\ scan = FALSE
        /\ saved = FALSE /\ storeCache = NoFiles /\ storeUnseen = {}
        /\ op = [t \in Thread |-> Idle]

AllIdle == \A t \in Thread : op[t] = Idle

-----------------------------------------------------------------------------
(* The provider. *)

(* Files change, and every cursor that exists will be shown the ids.       *)
RemoteBecomes(files, told) ==
  /\ remote' = files
  /\ unseen' = IF initialized \/ scan THEN unseen \cup told ELSE unseen
  /\ storeUnseen' = IF saved THEN storeUnseen \cup told ELSE storeUnseen

OthersWrite(p) ==
  /\ stamp < MaxStamp
  /\ stamp' = stamp + 1
  /\ LET id == IF remote[p] = None THEN stamp + 1 ELSE IdOf(remote[p])
     IN  RemoteBecomes([remote EXCEPT ![p] = <<id, stamp + 1>>], {<<id, p>>})
  /\ UNCHANGED <<mode, cache, touchedPaths, pendingFullPersist, initialized, scan, saved,
                 storeCache, op>>

OthersDelete(p) ==
  /\ remote[p] # None
  /\ RemoteBecomes([remote EXCEPT ![p] = None], {<<IdOf(remote[p]), p>>})
  /\ UNCHANGED <<mode, stamp, cache, touchedPaths, pendingFullPersist, initialized, scan, saved,
                 storeCache, op>>

-----------------------------------------------------------------------------
(* Phase 1: the id is looked up under the mutex.  The engine never has two *)
(* operations on one path at a time, but for two deletions, one of them of *)
(* the folder around (ADR 0001, T7).                                       *)

PathsOf(o) == CASE o.phase = "idle" -> {}
                [] o.kind = "rename" -> {o.path, o.to}
                [] OTHER -> {o.path}

Resolve(t, kind, p, to) ==
  /\ op[t] = Idle /\ initialized /\ ~scan
  /\ \A u \in Thread : \/ {p, to} \cap PathsOf(op[u]) = {}
                       \/ kind = "delete" /\ op[u].kind = "delete"
  /\ op' = [op EXCEPT ![t] = [phase |-> "resolved", kind |-> kind, path |-> p, to |-> to,
                              expected |-> IdAt(cache, p), result |-> None]]
  /\ UNCHANGED <<mode, remote, stamp, memVars, storeVars>>

ResolveWrite(t, p)  == Resolve(t, "write", p, p)
ResolveDelete(t, p) == cache[p] # None /\ Resolve(t, "delete", p, p)
ResolveRead(t, p)   == cache[p] # None /\ Resolve(t, "read", p, p)

ResolveRename(t, p, to) == /\ mode \in {"renames", "both"}
                           /\ p # to
                           /\ cache[p] # None /\ cache[to] = None
                           /\ Resolve(t, "rename", p, to)

-----------------------------------------------------------------------------
(* Phase 2: the request. *)

Answered(t, result) ==
  op' = [op EXCEPT ![t].phase = "executed", ![t].result = result]

(* A request fails, is refused, or its target is gone: nothing changes. *)
RequestFails(t) ==
  /\ op[t].phase = "resolved"
  /\ op' = [op EXCEPT ![t] = Idle]
  /\ UNCHANGED <<mode, remote, stamp, memVars, storeVars>>

(* An upload replaces what is at the path, in place, or creates a file.    *)
UploadFile(t) ==
  LET p  == op[t].path
      id == IF remote[p] # None THEN IdOf(remote[p]) ELSE stamp + 1
      f  == <<id, stamp + 1>>
  IN  /\ op[t].phase = "resolved" /\ op[t].kind = "write"
      /\ stamp < MaxStamp
      /\ stamp' = stamp + 1
      /\ RemoteBecomes([remote EXCEPT ![p] = f], {<<id, p>>})
      /\ Answered(t, f)
      /\ UNCHANGED <<mode, cache, touchedPaths, pendingFullPersist, initialized, scan, saved,
                     storeCache>>

(* By id: what has been put at the path since is left alone, and a file    *)
(* that has gone already counts as deleted.                                *)
DeleteRemote(t) ==
  LET p == op[t].path
      hit == IdAt(remote, p) = op[t].expected
  IN  /\ op[t].phase = "resolved" /\ op[t].kind = "delete"
      /\ RemoteBecomes(IF hit THEN [remote EXCEPT ![p] = None] ELSE remote,
                       IF hit THEN {<<op[t].expected, p>>} ELSE {})
      /\ Answered(t, None)
      /\ UNCHANGED <<mode, stamp, cache, touchedPaths, pendingFullPersist, initialized, scan, saved,
                     storeCache>>

MoveRemote(t) ==
  LET p == op[t].path
      f == <<op[t].expected, stamp + 1>>
  IN  /\ op[t].phase = "resolved" /\ op[t].kind = "rename"
      /\ IdAt(remote, p) = op[t].expected /\ remote[op[t].to] = None
      /\ stamp < MaxStamp
      /\ stamp' = stamp + 1
      /\ RemoteBecomes([remote EXCEPT ![p] = None, ![op[t].to] = f],
                       {<<IdOf(f), p>>, <<IdOf(f), op[t].to>>})
      /\ Answered(t, f)
      /\ UNCHANGED <<mode, cache, touchedPaths, pendingFullPersist, initialized, scan, saved,
                     storeCache>>

DownloadFile(t) ==
  /\ op[t].phase = "resolved" /\ op[t].kind = "read"
  /\ IF IdAt(remote, op[t].path) = op[t].expected
     THEN op' = [op EXCEPT ![t] = Idle]
     ELSE Answered(t, None)  \* 404
  /\ UNCHANGED <<mode, remote, stamp, memVars, storeVars>>

-----------------------------------------------------------------------------
(* Phase 3: compare the id, then write the cache. *)

Stale(t) == IdAt(cache, op[t].path) # op[t].expected

SkipStale(t) ==
  /\ op[t].phase = "executed" /\ op[t].kind # "read"
  /\ Stale(t)
  /\ op' = [op EXCEPT ![t] = Idle]
  /\ UNCHANGED <<mode, remote, stamp, memVars, storeVars>>

UpdateAfterWrite(t) ==
  /\ op[t].phase = "executed" /\ op[t].kind = "write"
  /\ ~Stale(t)
  /\ cache' = [cache EXCEPT ![op[t].path] = op[t].result]
  /\ op' = [op EXCEPT ![t] = Idle]
  /\ UNCHANGED <<mode, remote, stamp, unseen, touchedPaths, pendingFullPersist, initialized,
                 scan, storeVars>>

(* Mutant: the path is not buffered for the commit. *)
UpdateAfterDeleteUnbuffered(t) ==
  /\ op[t].phase = "executed" /\ op[t].kind = "delete"
  /\ ~Stale(t)
  /\ cache' = [cache EXCEPT ![op[t].path] = None]
  /\ op' = [op EXCEPT ![t] = Idle]
  /\ UNCHANGED <<mode, remote, stamp, unseen, touchedPaths, pendingFullPersist, initialized,
                 scan, storeVars>>

UpdateAfterDelete(t) ==
  /\ op[t].phase = "executed" /\ op[t].kind = "delete"
  /\ ~Stale(t)
  /\ cache' = [cache EXCEPT ![op[t].path] = None]
  /\ touchedPaths' = touchedPaths \cup {op[t].path}
  /\ op' = [op EXCEPT ![t] = Idle]
  /\ UNCHANGED <<mode, remote, stamp, unseen, pendingFullPersist, initialized, scan,
                 storeVars>>

(* Neither path is buffered in touchedPaths. *)
UpdateAfterRename(t) ==
  /\ op[t].phase = "executed" /\ op[t].kind = "rename"
  /\ ~Stale(t)
  /\ cache' = IF IdAt(cache, op[t].to) \in {0, op[t].expected}
              THEN [cache EXCEPT ![op[t].path] = None, ![op[t].to] = op[t].result]
              ELSE cache
  /\ op' = [op EXCEPT ![t] = Idle]
  /\ UNCHANGED <<mode, remote, stamp, unseen, touchedPaths, pendingFullPersist, initialized,
                 scan, storeVars>>

(* A 404 evicts the entry, whichever it is by now. *)
EvictAfterRead(t) ==
  /\ op[t].phase = "executed" /\ op[t].kind = "read"
  /\ cache' = [cache EXCEPT ![op[t].path] = None]
  /\ touchedPaths' = touchedPaths \cup {op[t].path}
  /\ op' = [op EXCEPT ![t] = Idle]
  /\ UNCHANGED <<mode, remote, stamp, unseen, pendingFullPersist, initialized, scan,
                 storeVars>>

-----------------------------------------------------------------------------
(* The other users of the mutex.  A delta is read when no operation is     *)
(* under way, unless it has outlived its plan (plan-executor.ts: AuthError *)
(* rejects the Promise.all and the other transfers go on).                 *)

Between == AllIdle \/ mode = "stragglers"

(* The cursor is taken, then everything listed, the mutex held throughout. *)
BeginFullScan ==
  /\ ~initialized /\ ~saved /\ ~scan
  /\ scan' = TRUE
  /\ UNCHANGED <<mode, remote, stamp, cache, unseen, touchedPaths, pendingFullPersist,
                 initialized, storeVars, op>>

EndFullScan ==
  /\ scan
  /\ scan' = FALSE
  /\ initialized' = TRUE
  /\ cache' = remote
  /\ touchedPaths' = {} /\ pendingFullPersist' = TRUE
  /\ UNCHANGED <<mode, remote, stamp, unseen, storeVars, op>>

(* Mutant: the map is restored, and a cursor is taken anew. *)
LoadFromCacheNewCursor ==
  /\ ~initialized /\ saved /\ ~scan
  /\ initialized' = TRUE
  /\ cache' = storeCache /\ unseen' = {}
  /\ UNCHANGED <<mode, remote, stamp, touchedPaths, pendingFullPersist, scan, storeVars, op>>

LoadFromCache ==
  /\ ~initialized /\ saved /\ ~scan
  /\ initialized' = TRUE
  /\ cache' = storeCache /\ unseen' = storeUnseen
  /\ UNCHANGED <<mode, remote, stamp, touchedPaths, pendingFullPersist, scan, storeVars, op>>

(* An id in the feed: where the provider has it the file is put, where     *)
(* only the cache has it the entry goes, and these paths are reported.     *)
FetchDelta ==
  LET ids == {e[1] : e \in unseen}
      here == {p \in Path : IdAt(remote, p) \in ids}
      left == {p \in Path : IdAt(cache, p) \in ids}
  IN  /\ initialized /\ ~scan /\ Between
      /\ cache' = [p \in Path |-> IF p \in here \cup left THEN remote[p] ELSE cache[p]]
      /\ touchedPaths' = touchedPaths \cup here \cup left
      /\ unseen' = {}
      /\ UNCHANGED <<mode, remote, stamp, pendingFullPersist, initialized, scan, storeVars, op>>

CommitCheckpoint ==
  /\ initialized /\ AllIdle /\ ~scan
  /\ saved' = TRUE
  /\ storeCache' = [p \in Path |-> IF pendingFullPersist \/ p \in touchedPaths THEN cache[p]
                                   ELSE storeCache[p]]
  /\ storeUnseen' = unseen
  /\ pendingFullPersist' = FALSE /\ touchedPaths' = {}
  /\ UNCHANGED <<mode, remote, stamp, cache, unseen, initialized, scan, op>>

(* The process ends; a request that was sent may have been carried out. *)
Restart ==
  /\ mode # "renames"
  /\ initialized \/ scan
  /\ initialized' = FALSE /\ scan' = FALSE
  /\ cache' = NoFiles /\ unseen' = {} /\ touchedPaths' = {} /\ pendingFullPersist' = FALSE
  /\ op' = [t \in Thread |-> Idle]
  /\ UNCHANGED <<mode, remote, stamp, storeVars>>

Phase1(t) == \E p, to \in Path : \/ ResolveWrite(t, p) \/ ResolveDelete(t, p)
                                 \/ ResolveRead(t, p) \/ ResolveRename(t, p, to)
Phase2(t) == \/ UploadFile(t) \/ DeleteRemote(t) \/ MoveRemote(t)
             \/ DownloadFile(t) \/ RequestFails(t)
Phase3(t) == \/ UpdateAfterWrite(t) \/ UpdateAfterDelete(t) \/ UpdateAfterRename(t)
             \/ EvictAfterRead(t) \/ SkipStale(t)

Next == \/ \E p \in Path : OthersWrite(p) \/ OthersDelete(p)
        \/ \E t \in Thread : Phase1(t) \/ Phase2(t) \/ Phase3(t)
        \/ BeginFullScan \/ EndFullScan \/ LoadFromCache
        \/ FetchDelta \/ CommitCheckpoint \/ Restart

Spec == Init /\ [][Next]_vars

-----------------------------------------------------------------------------
(* Refinement: a mutation is done when the provider has done it.  The      *)
(* cache a caller is promised has the outcome of an executed operation     *)
(* already, and touchedPaths the path of an executed deletion.             *)

Executed == {t \in Thread : op[t].phase = "executed" /\ op[t].kind # "read" /\ ~Stale(t)}
Pending(p) == {t \in Executed : p \in PathsOf(op[t])}

Outcome(t, p) == IF p = op[t].to THEN op[t].result ELSE None
PromisedCache == [p \in Path |-> IF Pending(p) = {} THEN cache[p]
                                 ELSE Outcome(CHOOSE t \in Pending(p) : TRUE, p)]
PromisedTouched == touchedPaths \cup {op[t].path : t \in {u \in Executed : op[u].kind = "delete"}}
PathsTold(pairs) == {e[2] : e \in pairs}
Fp == CHOOSE fp \in Fingerprint : TRUE
FpIf(known) == IF known THEN Fp ELSE NoFingerprint

FS == INSTANCE CachingRemoteFs WITH
        Version <- File \cup {None}, Absent <- None,
        Events <- {"renames"},
        cache <- PromisedCache, touchedPaths <- PromisedTouched,
        unseen <- PathsTold(unseen), storeUnseen <- PathsTold(storeUnseen),
        scan <- IF scan THEN "stat" ELSE "no", knownBefore <- {},
        fingerprint <- FpIf(initialized /\ saved), storeFingerprint <- FpIf(saved)

(* What callers are told: however the phases of pooled operations, other   *)
(* clients, deltas, commits and restarts interleave, each mutation takes   *)
(* effect at one moment (remote-fs.ts withCacheMutex, delete, read).       *)
PromiseKept == FS!FsSpec

(* The cache, with what is under way, agrees with the cursor in memory: no *)
(* phase has overwritten what a delta brought (remote-fs.ts:145, "from     *)
(* silent cache corruption to a logged skip").                             *)
MemoryFaithful == FS!CacheFaithful

(* The committed map neither runs ahead of the committed cursor nor behind *)
(* it (remote-fs.ts commitCache).                                          *)
StoreKept == FS!StoreFaithful
=============================================================================
