--------------------------- MODULE RemoteOps_proofs ---------------------------
(***************************************************************************)
(* The phases of pooled mutations, deltas, commits and restarts implement  *)
(* the caching file system in which a mutation is one step, for any paths, *)
(* threads and number of writes, where renames do not meet restarts and no *)
(* transfer outlives its plan.  The invariant is about what the cursors    *)
(* have still to tell: wherever a map and the provider differ, the ids of  *)
(* both are among it, at that very path.                                   *)
(***************************************************************************)
EXTENDS RemoteOps, TLAPS

(* The modes in which the promise is kept; RemoteOps.cfg has both.         *)
KeptModes == Modes \subseteq {"renames", "restarts"}

Ids   == 1..MaxStamp
Pairs == Ids \X Path

Operation == [phase : {"resolved", "executed"}, kind : {"write", "delete", "read", "rename"},
              path : Path, to : Path, expected : 0..MaxStamp, result : File \cup {None}]

OpsTypeOK ==
  /\ mode \in Modes
  /\ remote \in [Path -> File \cup {None}]
  /\ stamp \in Ids
  /\ cache \in [Path -> File \cup {None}]
  /\ unseen \in SUBSET Pairs
  /\ touchedPaths \in SUBSET Path
  /\ pendingFullPersist \in BOOLEAN /\ initialized \in BOOLEAN /\ scan \in BOOLEAN
  /\ saved \in BOOLEAN
  /\ storeCache \in [Path -> File \cup {None}]
  /\ storeUnseen \in SUBSET Pairs
  /\ op \in [Thread -> {Idle} \cup Operation]

(* Ids and versions are given out once, and a file is at one path.         *)
RemoteIds ==
  /\ \A p \in Path : remote[p] # None => IdOf(remote[p]) <= stamp /\ remote[p][2] <= stamp
  /\ \A p, q \in Path : remote[p] # None /\ IdAt(remote, p) = IdAt(remote, q) => p = q

(* The cursor will tell of the file at the path. *)
Told(cursor, p, f) == f # None => <<IdOf(f), p>> \in cursor

(* A cursor that tells of a path, or of the file there, tells of both. *)
TellsRemote(cursor) ==
  /\ \A e \in cursor : e[1] <= stamp
  /\ \A p \in Path : (\/ \E e \in cursor : e[2] = p
                      \/ \E e \in cursor : e[1] = IdAt(remote, p))
                     => Told(cursor, p, remote[p])

(* Wherever a map differs from the provider, its cursor tells of both.     *)
Drift(files, cursor) ==
  \A p \in Path : \/ files[p] = remote[p]
                  \/ Told(cursor, p, files[p]) /\ Told(cursor, p, remote[p])

(* Memory is fresh until it is loaded. *)
MemoryStates ==
  /\ ~initialized => /\ cache = NoFiles /\ touchedPaths = {}
                     /\ ~pendingFullPersist /\ AllIdle
  /\ ~initialized /\ ~scan => unseen = {}
  /\ scan => ~initialized /\ ~saved
  /\ initialized /\ ~saved => pendingFullPersist
  /\ mode = "renames" /\ saved => initialized

CursorsTell ==
  /\ TellsRemote(unseen)
  /\ saved => TellsRemote(storeUnseen)
  /\ initialized => Drift(cache, unseen)

(* Renames leave the store behind; nothing is loaded from it in their mode. *)
StoreTells ==
  mode = "restarts" /\ saved =>
    /\ Drift(storeCache, storeUnseen)
    /\ initialized /\ ~pendingFullPersist =>
         \A p \in Path : \/ p \in touchedPaths
                         \/ storeCache[p] = cache[p]
                         \/ /\ cache[p] # None
                            /\ Told(unseen, p, cache[p]) /\ Told(unseen, p, storeCache[p])

Active(t) == op[t] # Idle
Deletes(t) == op[t].kind = "delete"

(* Operations are on paths of their own, but for deletions of one file.    *)
OwnPaths ==
  \A t, u \in Thread : t # u /\ Active(t) /\ Active(u) =>
    \/ PathsOf(op[t]) \cap PathsOf(op[u]) = {}
    \/ Deletes(t) /\ Deletes(u) /\ op[t].expected = op[u].expected

(* The entry an operation was resolved from stands until it is applied, or *)
(* another deletion was.                                                   *)
Resolved(t) ==
  LET o == op[t] IN
  /\ o.kind # "write" => o.expected # 0
  /\ o.kind # "rename" => o.to = o.path
  /\ o.kind = "rename" => o.to # o.path /\ cache[o.to] = None /\ mode = "renames"
  /\ o.expected <= stamp
  /\ \/ IdAt(cache, o.path) = o.expected
     \/ Deletes(t) /\ cache[o.path] = None /\ IdAt(remote, o.path) # o.expected

(* What was carried out is still to be told.                               *)
Carried(t) ==
  LET o == op[t] IN
  /\ o.kind \in {"write", "rename"} => o.result # None /\ Told(unseen, o.to, o.result)
  /\ o.kind \in {"read", "delete"} => o.result = None
  /\ Deletes(t) => IdAt(remote, o.path) # o.expected
  /\ o.kind = "rename" => IdOf(o.result) = o.expected
  /\ cache[o.path] # None => <<o.expected, o.path>> \in unseen
  /\ (Deletes(t) => cache[o.path] # None) =>
       \A p \in PathsOf(o) : Told(unseen, p, remote[p])

OperationsStand ==
  \A t \in Thread : Active(t) => /\ Resolved(t)
                                 /\ op[t].phase = "executed" => Carried(t)

OpsInv == /\ OpsTypeOK
          /\ RemoteIds
          /\ MemoryStates
          /\ CursorsTell
          /\ StoreTells
          /\ OwnPaths
          /\ OperationsStand
-----------------------------------------------------------------------------
(* Types. *)

LEMMA StampFacts ==
  /\ MaxStamp \in Nat /\ 1 \in Ids /\ <<1, 1>> \in File
  /\ \A i, v \in Ids : <<i, v>> \in File
  /\ None \notin File
  /\ NoFiles \in [Path -> File \cup {None}]
BY OpsAssumption DEF Ids, File, NoFiles

LEMMA FileFacts ==
  ASSUME NEW f \in File
  PROVE  /\ IdOf(f) \in Ids /\ f[2] \in Ids /\ f # None
         /\ f = <<IdOf(f), f[2]>> /\ IdOf(f) # 0
BY OpsAssumption DEF Ids, File, IdOf

LEMMA IdAtType ==
  ASSUME NEW files \in [Path -> File \cup {None}], NEW p \in Path
  PROVE  /\ IdAt(files, p) \in 0..MaxStamp
         /\ IdAt(files, p) = 0 <=> files[p] = None
         /\ files[p] # None => files[p] \in File /\ IdAt(files, p) = IdOf(files[p])
BY StampFacts, FileFacts DEF IdAt, Ids

LEMMA ActiveType ==
  ASSUME OpsTypeOK, NEW t \in Thread, op[t] # Idle \/ op[t].phase # "idle"
  PROVE  op[t] # Idle /\ op[t] \in Operation
BY DEF OpsTypeOK, Idle

(* A change of the provider keeps the cursors' types. *)
LEMMA BecomesType ==
  ASSUME OpsTypeOK, NEW files \in [Path -> File \cup {None}], NEW told \in SUBSET Pairs,
         RemoteBecomes(files, told)
  PROVE  /\ remote' \in [Path -> File \cup {None}]
         /\ unseen' \in SUBSET Pairs /\ storeUnseen' \in SUBSET Pairs
BY DEF OpsTypeOK, RemoteBecomes

LEMMA OthersType ==
  ASSUME OpsTypeOK, NEW p \in Path, OthersWrite(p) \/ OthersDelete(p) PROVE OpsTypeOK'
<1> USE StampFacts
<1>1. CASE OthersWrite(p)
  <2> DEFINE id == IF remote[p] = None THEN stamp + 1 ELSE IdOf(remote[p])
  <2>1. stamp' \in Ids /\ id \in Ids /\ stamp' = stamp + 1
    BY <1>1, FileFacts DEF OthersWrite, OpsTypeOK, Ids
  <2>2. [remote EXCEPT ![p] = <<id, stamp + 1>>] \in [Path -> File \cup {None}]
    BY <2>1 DEF OpsTypeOK
  <2>3. {<<id, p>>} \in SUBSET Pairs
    BY <2>1 DEF Pairs
  <2>4. RemoteBecomes([remote EXCEPT ![p] = <<id, stamp + 1>>], {<<id, p>>})
    BY <1>1 DEF OthersWrite
  <2> HIDE DEF id
  <2> QED
    BY <1>1, <2>1, <2>2, <2>3, <2>4, BecomesType DEF OthersWrite, OpsTypeOK
<1>2. CASE OthersDelete(p)
  <2>1. [remote EXCEPT ![p] = None] \in [Path -> File \cup {None}]
    BY DEF OpsTypeOK
  <2>2. {<<IdOf(remote[p]), p>>} \in SUBSET Pairs
    BY <1>2, FileFacts DEF OthersDelete, OpsTypeOK, Pairs
  <2> QED
    BY <1>2, <2>1, <2>2, BecomesType DEF OthersDelete, OpsTypeOK
<1> QED
  BY <1>1, <1>2

LEMMA Phase1Type ==
  ASSUME OpsTypeOK, NEW t \in Thread, Phase1(t) PROVE OpsTypeOK'
<1>1. PICK p \in Path, to \in Path, kind \in {"write", "delete", "read", "rename"} :
        Resolve(t, kind, p, to)
  BY DEF Phase1, ResolveWrite, ResolveDelete, ResolveRead, ResolveRename
<1>2. [phase |-> "resolved", kind |-> kind, path |-> p, to |-> to,
       expected |-> IdAt(cache, p), result |-> None] \in Operation
  BY IdAtType DEF OpsTypeOK, Operation
<1> QED
  BY <1>1, <1>2 DEF Resolve, OpsTypeOK, memVars, storeVars

LEMMA AnsweredType ==
  ASSUME OpsTypeOK, NEW t \in Thread, op[t].phase # "idle", NEW result \in File \cup {None},
         Answered(t, result)
  PROVE  /\ op' \in [Thread -> {Idle} \cup Operation]
         /\ op' = [op EXCEPT ![t] = op'[t]]
         /\ op'[t] \in Operation
         /\ op'[t].phase = "executed" /\ op'[t].result = result
         /\ op'[t].kind = op[t].kind /\ op'[t].path = op[t].path /\ op'[t].to = op[t].to
         /\ op'[t].expected = op[t].expected
<1>1. op[t] \in Operation
  BY ActiveType
<1>2. op'[t] = [op[t] EXCEPT !.phase = "executed", !.result = result]
  BY DEF Answered, OpsTypeOK
<1>3. /\ op'[t] \in Operation
      /\ op'[t].phase = "executed" /\ op'[t].result = result
      /\ op'[t].kind = op[t].kind /\ op'[t].path = op[t].path /\ op'[t].to = op[t].to
      /\ op'[t].expected = op[t].expected
  BY <1>1, <1>2 DEF Operation
<1> QED
  BY <1>3 DEF Answered, OpsTypeOK

LEMMA Phase2Type ==
  ASSUME OpsTypeOK, OperationsStand, NEW t \in Thread, Phase2(t) PROVE OpsTypeOK'
<1> USE StampFacts
<1>1. op[t].phase = "resolved" /\ op[t] \in Operation /\ op[t].path \in Path /\ op[t].to \in Path
  BY ActiveType
  DEF Phase2, UploadFile, DeleteRemote, MoveRemote, DownloadFile, RequestFails, Operation
<1>2. CASE UploadFile(t)
  <2> DEFINE p  == op[t].path
             id == IF remote[p] # None THEN IdOf(remote[p]) ELSE stamp + 1
             f  == <<id, stamp + 1>>
  <2>1. stamp' \in Ids /\ id \in Ids /\ stamp' = stamp + 1
    BY <1>1, <1>2, FileFacts DEF UploadFile, OpsTypeOK, Ids
  <2>2. f \in File /\ {<<id, p>>} \in SUBSET Pairs
    BY <1>1, <2>1 DEF Pairs
  <2>3. RemoteBecomes([remote EXCEPT ![p] = f], {<<id, p>>}) /\ Answered(t, f)
    BY <1>2 DEF UploadFile
  <2>4. [remote EXCEPT ![p] = f] \in [Path -> File \cup {None}]
    BY <2>2 DEF OpsTypeOK
  <2>5. UNCHANGED <<mode, cache, touchedPaths, pendingFullPersist, initialized, scan, saved,
                    storeCache>>
    BY <1>2 DEF UploadFile
  <2> HIDE DEF f, id, p
  <2> QED
    BY <1>1, <2>1, <2>2, <2>3, <2>4, <2>5, BecomesType, AnsweredType DEF OpsTypeOK
<1>3. CASE DeleteRemote(t)
  <2> DEFINE p   == op[t].path
             hit == IdAt(remote, p) = op[t].expected
             files == IF hit THEN [remote EXCEPT ![p] = None] ELSE remote
             told  == IF hit THEN {<<op[t].expected, p>>} ELSE {}
  <2>1. files \in [Path -> File \cup {None}]
    BY DEF OpsTypeOK
  <2>2. op[t].expected \in Ids
    BY <1>1, <1>3 DEF DeleteRemote, OperationsStand, Active, Idle, Resolved, Operation, Ids
  <2>3. told \in SUBSET Pairs
    BY <1>1, <2>2 DEF Pairs
  <2>4. RemoteBecomes(files, told) /\ Answered(t, None)
        /\ UNCHANGED <<mode, stamp, cache, touchedPaths, pendingFullPersist, initialized,
                       scan, saved, storeCache>>
    BY <1>3 DEF DeleteRemote
  <2> HIDE DEF files, told
  <2> QED
    BY <1>1, <2>1, <2>3, <2>4, BecomesType, AnsweredType DEF OpsTypeOK
<1>4. CASE MoveRemote(t)
  <2> DEFINE p == op[t].path
             f == <<op[t].expected, stamp + 1>>
             told == {<<IdOf(f), p>>, <<IdOf(f), op[t].to>>}
  <2>1. stamp' \in Ids /\ stamp' = stamp + 1
    BY <1>4 DEF MoveRemote, OpsTypeOK, Ids
  <2>2. op[t].expected \in Ids
    BY <1>1, <1>4 DEF MoveRemote, OperationsStand, Active, Idle, Resolved, Operation, Ids
  <2>3. f \in File /\ told \in SUBSET Pairs
    BY <1>1, <2>1, <2>2 DEF Pairs, IdOf
  <2>4. [remote EXCEPT ![p] = None, ![op[t].to] = f] \in [Path -> File \cup {None}]
    BY <2>3 DEF OpsTypeOK
  <2>5. RemoteBecomes([remote EXCEPT ![p] = None, ![op[t].to] = f], told) /\ Answered(t, f)
        /\ UNCHANGED <<mode, cache, touchedPaths, pendingFullPersist, initialized, scan,
                       saved, storeCache>>
    BY <1>4 DEF MoveRemote
  <2> HIDE DEF f, told, p
  <2> QED
    BY <1>1, <2>1, <2>3, <2>4, <2>5, BecomesType, AnsweredType DEF OpsTypeOK
<1>5. CASE DownloadFile(t) \/ RequestFails(t)
  <2>1. op' \in [Thread -> {Idle} \cup Operation]
    BY <1>1, <1>5, AnsweredType DEF DownloadFile, RequestFails, OpsTypeOK
  <2> QED
    BY <1>5, <2>1 DEF DownloadFile, RequestFails, OpsTypeOK, memVars, storeVars
<1> QED
  BY <1>2, <1>3, <1>4, <1>5 DEF Phase2

LEMMA Phase3Type ==
  ASSUME OpsTypeOK, NEW t \in Thread, Phase3(t) PROVE OpsTypeOK'
<1>1. op[t] \in Operation
  BY ActiveType
  DEF Phase3, UpdateAfterWrite, UpdateAfterDelete, UpdateAfterRename, EvictAfterRead, SkipStale
<1>2. /\ op[t].path \in Path /\ op[t].to \in Path /\ op[t].result \in File \cup {None}
      /\ op' = [op EXCEPT ![t] = Idle]
  BY <1>1
  DEF Operation, Phase3, UpdateAfterWrite, UpdateAfterDelete, UpdateAfterRename,
      EvictAfterRead, SkipStale
<1>3. CASE SkipStale(t)
  BY <1>2, <1>3 DEF SkipStale, OpsTypeOK, memVars, storeVars
<1>4. CASE UpdateAfterWrite(t) \/ UpdateAfterDelete(t)
  BY <1>2, <1>4 DEF UpdateAfterWrite, UpdateAfterDelete, OpsTypeOK, storeVars
<1>5. CASE UpdateAfterRename(t) \/ EvictAfterRead(t)
  BY <1>2, <1>5 DEF UpdateAfterRename, EvictAfterRead, OpsTypeOK, storeVars
<1> QED
  BY <1>3, <1>4, <1>5 DEF Phase3

LEMMA MutexType ==
  ASSUME OpsTypeOK,
         \/ BeginFullScan \/ EndFullScan \/ LoadFromCache
         \/ FetchDelta \/ CommitCheckpoint \/ Restart
  PROVE  OpsTypeOK'
<1> USE StampFacts DEF OpsTypeOK, storeVars
<1>1. CASE BeginFullScan \/ EndFullScan \/ LoadFromCache
  BY <1>1 DEF BeginFullScan, EndFullScan, LoadFromCache
<1>2. CASE FetchDelta
  BY <1>2 DEF FetchDelta
<1>3. CASE CommitCheckpoint
  BY <1>3 DEF CommitCheckpoint
<1>4. CASE Restart
  BY <1>4 DEF Restart
<1> QED
  BY <1>1, <1>2, <1>3, <1>4
-----------------------------------------------------------------------------
(* The provider changes, by whoever's hand: the cursors are told of what   *)
(* was and of what is at each path that changes, and ids are not reused.   *)
Tells(files, told) ==
  /\ RemoteBecomes(files, told)
  /\ UNCHANGED <<mode, cache, touchedPaths, pendingFullPersist, initialized, scan, saved,
                 storeCache>>
  /\ stamp' \in {stamp, stamp + 1}
  /\ \A e \in told : e[1] <= stamp'
  /\ \A p \in Path : \/ files[p] = remote[p]
                     \/ Told(told, p, remote[p]) /\ Told(told, p, files[p])
  /\ \A p \in Path : (\E e \in told : e[2] = p \/ e[1] = IdAt(files, p))
                       => Told(told, p, files[p])

LEMMA TellsCursor ==
  ASSUME OpsInv, NEW files \in [Path -> File \cup {None}], NEW told \in SUBSET Pairs,
         Tells(files, told), NEW cursor \in SUBSET Pairs, TellsRemote(cursor)
  PROVE  /\ \A e \in cursor \cup told : e[1] <= stamp'
         /\ \A p \in Path : (\/ \E e \in cursor \cup told : e[2] = p
                             \/ \E e \in cursor \cup told : e[1] = IdAt(files, p))
                            => Told(cursor \cup told, p, files[p])
<1>1. stamp \in Nat /\ \A e \in Pairs : e[1] \in Nat
  BY OpsAssumption DEF OpsInv, OpsTypeOK, Ids, Pairs
<1>2. \A e \in cursor \cup told : e[1] <= stamp'
  BY <1>1 DEF Tells, TellsRemote
<1>3. ASSUME NEW p \in Path, files[p] = remote[p],
             \/ \E e \in cursor \cup told : e[2] = p
             \/ \E e \in cursor \cup told : e[1] = IdAt(files, p)
      PROVE  Told(cursor \cup told, p, files[p])
  <2>1. IdAt(files, p) = IdAt(remote, p)
    BY <1>3 DEF IdAt
  <2>2. Told(cursor, p, remote[p]) \/ Told(told, p, files[p])
    BY <1>3, <2>1 DEF Tells, TellsRemote
  <2> QED
    BY <1>3, <2>2 DEF Told
<1>4. ASSUME NEW p \in Path, files[p] # remote[p]
      PROVE  Told(cursor \cup told, p, files[p])
  BY <1>4 DEF Tells, Told
<1> QED
  BY <1>2, <1>3, <1>4

LEMMA TellsDrift ==
  ASSUME OpsInv, NEW files \in [Path -> File \cup {None}], NEW told \in SUBSET Pairs,
         Tells(files, told), NEW cursor \in SUBSET Pairs, NEW map, Drift(map, cursor)
  PROVE  \A p \in Path : \/ map[p] = files[p]
                         \/ /\ Told(cursor \cup told, p, map[p])
                            /\ Told(cursor \cup told, p, files[p])
BY DEF Tells, Drift, Told

LEMMA TellsState ==
  ASSUME OpsInv, NEW files \in [Path -> File \cup {None}], NEW told \in SUBSET Pairs,
         Tells(files, told)
  PROVE  /\ CursorsTell' /\ StoreTells'
         /\ unseen \subseteq unseen' /\ (initialized => unseen' = unseen \cup told)
<1>1. /\ remote' = files
      /\ unseen' = IF initialized \/ scan THEN unseen \cup told ELSE unseen
      /\ storeUnseen' = IF saved THEN storeUnseen \cup told ELSE storeUnseen
      /\ UNCHANGED <<mode, cache, touchedPaths, pendingFullPersist, initialized, scan, saved,
                     storeCache>>
  BY DEF Tells, RemoteBecomes
<1>2. unseen \in SUBSET Pairs /\ storeUnseen \in SUBSET Pairs
  BY DEF OpsInv, OpsTypeOK
<1>3. TellsRemote(unseen)'
  <2>1. CASE initialized \/ scan
    BY <1>1, <1>2, <2>1, TellsCursor DEF OpsInv, CursorsTell, TellsRemote, IdAt, Told
  <2>2. CASE ~initialized /\ ~scan
    BY <1>1, <2>2 DEF OpsInv, MemoryStates, TellsRemote
  <2> QED
    BY <2>1, <2>2
<1>4. saved => TellsRemote(storeUnseen)'
  BY <1>1, <1>2, TellsCursor DEF OpsInv, CursorsTell, TellsRemote, IdAt, Told
<1>5. initialized => Drift(cache, unseen)'
  BY <1>1, <1>2, TellsDrift DEF OpsInv, CursorsTell, Drift, Told
<1>6. StoreTells'
  <2>1. mode = "restarts" /\ saved => Drift(storeCache, storeUnseen)'
    BY <1>1, <1>2, TellsDrift DEF OpsInv, StoreTells, Drift, Told
  <2> QED
    BY <1>1, <2>1 DEF OpsInv, StoreTells, Told
<1> QED
  BY <1>1, <1>3, <1>4, <1>5, <1>6 DEF CursorsTell

(* What stood before a change of the provider stands after it.             *)
LEMMA TellsStands ==
  ASSUME OpsInv, NEW files \in [Path -> File \cup {None}], NEW told \in SUBSET Pairs,
         Tells(files, told), NEW t \in Thread, Active(t),
         op'[t].kind = op[t].kind, op'[t].path = op[t].path, op'[t].to = op[t].to,
         op'[t].expected = op[t].expected,
         Deletes(t) => \/ IdAt(files, op[t].path) \in {0, IdAt(remote, op[t].path)}
                       \/ IdAt(files, op[t].path) > stamp
  PROVE  Resolved(t)' /\ (op'[t] = op[t] /\ Carried(t) => Carried(t)')
<1>1. /\ op[t] \in Operation /\ initialized /\ Resolved(t)
      /\ op[t].expected \in Nat /\ stamp \in Nat /\ op[t].expected <= stamp
  BY ActiveType
  DEF OpsInv, OperationsStand, MemoryStates, AllIdle, Active, Operation, OpsTypeOK, Ids, Resolved
<1>2. /\ remote' = files /\ cache' = cache /\ unseen' = unseen \cup told /\ mode' = mode
      /\ stamp' \in {stamp, stamp + 1}
  BY <1>1, TellsState DEF Tells, RemoteBecomes
<1>3. Deletes(t) /\ IdAt(remote, op[t].path) # op[t].expected
        => IdAt(files, op[t].path) # op[t].expected
  BY <1>1 DEF Resolved, Deletes
<1>4. Resolved(t)'
  BY <1>1, <1>2, <1>3 DEF Resolved, Deletes, IdAt
<1>5. ASSUME op'[t] = op[t], Carried(t) PROVE Carried(t)'
  <2>1. PathsOf(op[t]) \subseteq Path
    BY <1>1 DEF PathsOf, Operation
  <2>2. \A p \in PathsOf(op[t]) : Told(unseen, p, remote[p]) => Told(unseen', p, files[p])
    BY <1>2, <2>1 DEF Tells, Told
  <2>3. IdAt(remote', op[t].path) = IdAt(files, op[t].path)
    BY <1>2
  <2> QED
    BY <1>2, <1>3, <1>5, <2>2, <2>3 DEF Carried, Deletes, Told
<1> QED
  BY <1>4, <1>5
LEMMA RemoteFacts ==
  ASSUME OpsInv, NEW p \in Path
  PROVE  /\ stamp \in Nat /\ remote \in [Path -> File \cup {None}]
         /\ IdAt(remote, p) \in Nat /\ IdAt(remote, p) <= stamp
         /\ remote[p] # None => /\ remote[p] \in File /\ IdAt(remote, p) = IdOf(remote[p])
                                /\ IdAt(remote, p) # 0
         /\ remote[p] = None => IdAt(remote, p) = 0
BY IdAtType, OpsAssumption DEF OpsInv, OpsTypeOK, RemoteIds, Ids, IdAt

(* One path changes: a file is written in place or anew, or goes.          *)
LEMMA PathTells ==
  ASSUME OpsInv, NEW p \in Path, NEW id \in Ids, NEW v \in File \cup {None},
         v # None => IdOf(v) = id /\ v[2] <= stamp',
         stamp' \in {stamp, stamp + 1},
         id = IdAt(remote, p) \/ (id = stamp + 1 /\ id <= stamp' /\ remote[p] = None),
         RemoteBecomes([remote EXCEPT ![p] = v], {<<id, p>>}),
         UNCHANGED <<mode, cache, touchedPaths, pendingFullPersist, initialized, scan, saved,
                     storeCache>>
  PROVE  /\ Tells([remote EXCEPT ![p] = v], {<<id, p>>})
         /\ [remote EXCEPT ![p] = v] \in [Path -> File \cup {None}]
         /\ {<<id, p>>} \in SUBSET Pairs
         /\ RemoteIds'
         /\ \A q \in Path : \/ IdAt([remote EXCEPT ![p] = v], q) \in {0, IdAt(remote, q)}
                             \/ IdAt([remote EXCEPT ![p] = v], q) > stamp
<1> DEFINE files == [remote EXCEPT ![p] = v]
           told  == {<<id, p>>}
<1> USE RemoteFacts
<1>1. /\ files \in [Path -> File \cup {None}] /\ files[p] = v
      /\ \A q \in Path : q # p => files[q] = remote[q]
      /\ told \in SUBSET Pairs /\ remote' = files
      /\ id \in Nat /\ id # 0 /\ id <= stamp' /\ stamp' \in Nat /\ stamp \in Nat
      /\ stamp <= stamp'
  BY OpsAssumption DEF Pairs, RemoteBecomes, Ids
<1>2. \A q \in Path : IdAt(files, q) = IF q # p THEN IdAt(remote, q)
                                       ELSE IF v = None THEN 0 ELSE id
  BY <1>1 DEF IdAt
<1>3. \A q \in Path : q # p => IdAt(remote, q) # id
  <2>1. CASE id = IdAt(remote, p)
    BY <1>1, <2>1 DEF OpsInv, RemoteIds
  <2>2. CASE id = stamp + 1
    BY <2>2
  <2> QED
    BY <2>1, <2>2
<1> HIDE DEF files
<1>4. Told(told, p, remote[p]) /\ Told(told, p, files[p])
  <2>1. remote[p] # None => IdOf(remote[p]) = id
    OBVIOUS
  <2> QED
    BY <1>1, <2>1 DEF Told
<1>5. \A e \in told : e[1] = id /\ e[2] = p
  OBVIOUS
<1> HIDE DEF told
<1>6. Tells(files, told)
  <2>1. \A q \in Path : (\E e \in told : e[2] = q \/ e[1] = IdAt(files, q)) => q = p
    BY <1>2, <1>3, <1>5
  <2>2. RemoteBecomes(files, told)
    BY DEF files, told
  <2> QED
    BY <1>1, <1>4, <1>5, <2>1, <2>2 DEF Tells
<1>7. RemoteIds'
  <2>1. \A q \in Path : files[q] # None => IdOf(files[q]) <= stamp' /\ files[q][2] <= stamp'
    <3>1. ASSUME NEW q \in Path, q # p, remote[q] # None
          PROVE  IdOf(remote[q]) <= stamp' /\ remote[q][2] <= stamp'
      <4>1. remote[q][2] \in Nat /\ IdOf(remote[q]) \in Nat
        BY <3>1, OpsAssumption, FileFacts DEF Ids
      <4> QED
        BY <1>1, <3>1, <4>1 DEF OpsInv, RemoteIds
    <3> QED
      BY <1>1, <3>1
  <2>2. \A q, r \in Path : files[q] # None /\ IdAt(files, q) = IdAt(files, r) => q = r
    <3>1. ASSUME NEW q \in Path, NEW r \in Path, files[q] # None,
                 IdAt(files, q) = IdAt(files, r), q # r
          PROVE  FALSE
      <4>1. CASE q = p
        BY <1>1, <1>2, <1>3, <3>1, <4>1
      <4>2. CASE q # p /\ r # p
        BY <1>1, <1>2, <3>1, <4>2 DEF OpsInv, RemoteIds
      <4>3. CASE q # p /\ r = p
        BY <1>1, <1>2, <1>3, <3>1, <4>3
      <4> QED
        BY <4>1, <4>2, <4>3
    <3> QED
      BY <3>1
  <2>3. \A q \in Path : IdAt(files, q) = IdAt(remote, q)'
    BY <1>1 DEF IdAt
  <2> QED
    BY <1>1, <2>1, <2>2, <2>3 DEF RemoteIds
<1>8. \A q \in Path : IdAt(files, q) \in {0, IdAt(remote, q)} \/ IdAt(files, q) > stamp
  BY <1>1, <1>2
<1> QED
  BY <1>1, <1>6, <1>7, <1>8 DEF files, told

LEMMA OthersTell ==
  ASSUME OpsInv, NEW p \in Path, OthersWrite(p) \/ OthersDelete(p)
  PROVE  \E files \in [Path -> File \cup {None}], told \in SUBSET Pairs :
           /\ Tells(files, told)
           /\ \A q \in Path : IdAt(files, q) \in {0, IdAt(remote, q)} \/ IdAt(files, q) > stamp
           /\ RemoteIds'
<1> USE StampFacts, RemoteFacts
<1>1. CASE OthersWrite(p)
  <2> DEFINE id == IF remote[p] = None THEN stamp + 1 ELSE IdOf(remote[p])
             f  == <<id, stamp + 1>>
  <2>1. /\ stamp' = stamp + 1 /\ stamp' \in Ids /\ id \in Ids
        /\ id = IdAt(remote, p) \/ (id = stamp + 1 /\ remote[p] = None)
    BY <1>1, FileFacts DEF OthersWrite, OpsInv, OpsTypeOK, Ids
  <2>2. f \in File /\ IdOf(f) = id /\ f[2] = stamp'
    BY <2>1 DEF IdOf
  <2>3. /\ RemoteBecomes([remote EXCEPT ![p] = f], {<<id, p>>})
        /\ UNCHANGED <<mode, cache, touchedPaths, pendingFullPersist, initialized, scan, saved,
                       storeCache>>
    BY <1>1 DEF OthersWrite
  <2> HIDE DEF id, f
  <2>4. /\ f \in File \cup {None} /\ f # None /\ f[2] <= stamp'
        /\ stamp' \in {stamp, stamp + 1}
        /\ id = IdAt(remote, p) \/ (id = stamp + 1 /\ id <= stamp' /\ remote[p] = None)
    BY <2>1, <2>2
  <2>5. /\ Tells([remote EXCEPT ![p] = f], {<<id, p>>})
        /\ [remote EXCEPT ![p] = f] \in [Path -> File \cup {None}]
        /\ {<<id, p>>} \in SUBSET Pairs
        /\ RemoteIds'
        /\ \A q \in Path : \/ IdAt([remote EXCEPT ![p] = f], q) \in {0, IdAt(remote, q)}
                            \/ IdAt([remote EXCEPT ![p] = f], q) > stamp
    BY <2>1, <2>2, <2>3, <2>4, PathTells
  <2> QED
    BY <2>5
<1>2. CASE OthersDelete(p)
  <2> DEFINE id == IdOf(remote[p])
  <2>1. /\ id = IdAt(remote, p) /\ id \in Ids /\ None \in File \cup {None}
        /\ stamp' \in {stamp, stamp + 1}
        /\ RemoteBecomes([remote EXCEPT ![p] = None], {<<id, p>>})
        /\ UNCHANGED <<mode, stamp, cache, touchedPaths, pendingFullPersist, initialized,
                       scan, saved, storeCache>>
    BY <1>2, FileFacts DEF OthersDelete
  <2> HIDE DEF id
  <2>2. Tells([remote EXCEPT ![p] = None], {<<id, p>>})
    BY <2>1, PathTells
  <2> QED
    BY <2>1, <2>2, PathTells
<1> QED
  BY <1>1, <1>2

LEMMA OthersInv ==
  ASSUME OpsInv, NEW p \in Path, OthersWrite(p) \/ OthersDelete(p) PROVE OpsInv'
<1>1. PICK files \in [Path -> File \cup {None}], told \in SUBSET Pairs :
        /\ Tells(files, told)
        /\ \A q \in Path : IdAt(files, q) \in {0, IdAt(remote, q)} \/ IdAt(files, q) > stamp
        /\ RemoteIds'
  BY OthersTell
<1>2. op' = op
  BY DEF OthersWrite, OthersDelete
<1>3. OpsTypeOK' /\ CursorsTell' /\ StoreTells'
  BY <1>1, OthersType, TellsState DEF OpsInv
<1>4. OwnPaths' /\ MemoryStates'
  BY <1>1, <1>2 DEF OpsInv, OwnPaths, Active, Deletes, MemoryStates, AllIdle, Tells, RemoteBecomes
<1>5. OperationsStand'
  <2>1. ASSUME NEW t \in Thread, Active(t)
        PROVE  Resolved(t)' /\ (op[t].phase = "executed" => Carried(t)')
    <3>1. op[t].path \in Path
      BY <2>1, ActiveType DEF OpsInv, Active, Operation
    <3> QED
      BY <1>1, <1>2, <2>1, <3>1, TellsStands DEF OpsInv, OperationsStand
  <2> QED
    BY <1>2, <2>1 DEF OperationsStand, Active
<1> QED
  BY <1>1, <1>3, <1>4, <1>5 DEF OpsInv
(* What an operation owns. *)
LEMMA PathsFacts ==
  ASSUME NEW o \in Operation
  PROVE  /\ o # Idle /\ o.phase # "idle"
         /\ PathsOf(o) = (IF o.kind = "rename" THEN {o.path, o.to} ELSE {o.path})
         /\ PathsOf(o) \subseteq Path /\ o.path \in PathsOf(o)
BY DEF Operation, PathsOf, Idle

LEMMA OwnPathsKept ==
  ASSUME OpsInv, OpsTypeOK', NEW t \in Thread, \A u \in Thread \ {t} : op'[u] = op[u],
         \/ op'[t] = Idle
         \/ /\ Active(t) /\ op'[t] # Idle
            /\ op'[t].kind = op[t].kind /\ op'[t].path = op[t].path /\ op'[t].to = op[t].to
            /\ op'[t].expected = op[t].expected
  PROVE  OwnPaths'
<1> SUFFICES ASSUME NEW u \in Thread, NEW v \in Thread, u # v, Active(u)', Active(v)'
             PROVE  \/ PathsOf(op'[u]) \cap PathsOf(op'[v]) = {}
                    \/ /\ op'[u].kind = "delete" /\ op'[v].kind = "delete"
                       /\ op'[u].expected = op'[v].expected
  BY DEF OwnPaths, Deletes
<1>1. ASSUME NEW w \in Thread, Active(w)'
      PROVE  /\ Active(w) /\ PathsOf(op'[w]) = PathsOf(op[w])
             /\ op'[w].kind = op[w].kind /\ op'[w].expected = op[w].expected
  <2>1. /\ Active(w)
        /\ op'[w].kind = op[w].kind /\ op'[w].path = op[w].path /\ op'[w].to = op[w].to
        /\ op'[w].expected = op[w].expected
    BY <1>1 DEF Active
  <2>2. op[w] \in Operation /\ op'[w] \in Operation
    BY <1>1, <2>1 DEF OpsInv, OpsTypeOK, Active
  <2> QED
    BY <2>1, <2>2, PathsFacts
<1> QED
  BY <1>1 DEF OpsInv, OwnPaths, Deletes

(* An operation of another thread is on other paths, or is another         *)
(* deletion of the same file.                                              *)
LEMMA OthersElsewhere ==
  ASSUME OpsInv, NEW t \in Thread, NEW u \in Thread, t # u, Active(t), Active(u)
  PROVE  \/ \A p \in PathsOf(op[t]) : op[u].path # p /\ op[u].to # p /\ p \notin PathsOf(op[u])
         \/ /\ Deletes(t) /\ Deletes(u) /\ op[t].expected = op[u].expected
<1>1. op[t] \in Operation /\ op[u] \in Operation
  BY DEF Active, OpsInv, OpsTypeOK
<1>2. op[u].path \in PathsOf(op[u]) /\ op[u].to \in PathsOf(op[u])
  BY <1>1, PathsFacts DEF OpsInv, OperationsStand, Resolved
<1> QED
  BY <1>2 DEF OpsInv, OwnPaths

(* Steps of an operation that leave everything but itself alone.           *)
LEMMA QuietInv ==
  ASSUME OpsInv, OpsTypeOK', NEW t \in Thread, \A u \in Thread \ {t} : op'[u] = op[u],
         OwnPaths', Active(t)' => Resolved(t)' /\ (op'[t].phase = "executed" => Carried(t)'),
         initialized,
         UNCHANGED <<mode, remote, stamp, memVars, storeVars>>
  PROVE  OpsInv'
<1> USE DEF OpsInv, memVars, storeVars
<1>1. RemoteIds' /\ CursorsTell' /\ StoreTells'
  BY DEF RemoteIds, CursorsTell, TellsRemote, Drift, Told, IdAt, StoreTells
<1>2. MemoryStates'
  BY DEF MemoryStates
<1>3. ASSUME NEW u \in Thread, u # t, Active(u)'
      PROVE  Resolved(u)' /\ (op'[u].phase = "executed" => Carried(u)')
  <2>1. Active(u) /\ Resolved(u) /\ (op[u].phase = "executed" => Carried(u))
    BY <1>3 DEF OperationsStand, Active
  <2> QED
    BY <1>3, <2>1 DEF Resolved, Carried, Deletes, IdAt, Told
<1>4. OperationsStand'
  BY <1>3 DEF OperationsStand
<1> QED
  BY <1>1, <1>2, <1>4

(* The ids of the loaded map have been given out. *)
LEMMA CacheIds ==
  ASSUME OpsInv, initialized, NEW p \in Path
  PROVE  /\ cache \in [Path -> File \cup {None}]
         /\ IdAt(cache, p) \in Nat /\ IdAt(cache, p) <= stamp
         /\ IdAt(cache, p) = 0 <=> cache[p] = None
         /\ cache[p] # None => IdAt(cache, p) = IdOf(cache[p])
<1>1. /\ cache \in [Path -> File \cup {None}] /\ IdAt(cache, p) \in Nat
      /\ IdAt(cache, p) = 0 <=> cache[p] = None
      /\ cache[p] # None => IdAt(cache, p) = IdOf(cache[p])
  BY IdAtType DEF OpsInv, OpsTypeOK
<1>2. CASE cache[p] = remote[p]
  <2>1. IdAt(cache, p) = IdAt(remote, p)
    BY <1>2 DEF IdAt
  <2> QED
    BY <1>1, <2>1, RemoteFacts
<1>3. CASE cache[p] # remote[p] /\ cache[p] # None
  <2>1. <<IdOf(cache[p]), p>> \in unseen
    BY <1>3 DEF OpsInv, CursorsTell, Drift, Told
  <2> QED
    BY <1>1, <1>3, <2>1 DEF OpsInv, CursorsTell, TellsRemote
<1>4. CASE cache[p] = None
  BY <1>1, <1>4, RemoteFacts
<1> QED
  BY <1>1, <1>2, <1>3, <1>4

LEMMA Phase1Inv ==
  ASSUME KeptModes, OpsInv, NEW t \in Thread, Phase1(t) PROVE OpsInv'
<1>1. PICK p \in Path, to \in Path, kind \in {"write", "delete", "read", "rename"} :
        /\ Resolve(t, kind, p, to)
        /\ kind = "write" \/ cache[p] # None
        /\ IF kind = "rename" THEN p # to /\ cache[to] = None /\ mode \in {"renames", "both"}
                              ELSE p = to
  BY DEF Phase1, ResolveWrite, ResolveDelete, ResolveRead, ResolveRename
<1>2. OpsTypeOK'
  BY Phase1Type DEF OpsInv
<1> DEFINE new == [phase |-> "resolved", kind |-> kind, path |-> p, to |-> to,
                   expected |-> IdAt(cache, p), result |-> None]
<1>3. /\ op[t] = Idle /\ initialized /\ ~scan
      /\ \A u \in Thread : \/ {p, to} \cap PathsOf(op[u]) = {}
                           \/ kind = "delete" /\ op[u].kind = "delete"
      /\ op' = [op EXCEPT ![t] = new]
      /\ UNCHANGED <<mode, remote, stamp, memVars, storeVars>>
  BY <1>1 DEF Resolve
<1>4. op'[t] = new /\ \A u \in Thread \ {t} : op'[u] = op[u]
  BY <1>3 DEF OpsInv, OpsTypeOK
<1>5. /\ new \in Operation /\ new # Idle /\ PathsOf(new) = {p, to}
      /\ new.kind = kind /\ new.path = p /\ new.to = to /\ new.expected = IdAt(cache, p)
      /\ new.phase = "resolved"
  <2>1. new \in Operation
    BY IdAtType DEF OpsInv, OpsTypeOK, Operation
  <2> QED
    BY <1>1, <2>1, PathsFacts
<1> HIDE DEF new
<1>6. ASSUME NEW u \in Thread \ {t}, Active(u)
      PROVE  \/ PathsOf(new) \cap PathsOf(op[u]) = {}
             \/ new.kind = "delete" /\ op[u].kind = "delete" /\ new.expected = op[u].expected
  <2>1. CASE {p, to} \cap PathsOf(op[u]) = {}
    BY <1>5, <2>1
  <2>2. CASE kind = "delete" /\ op[u].kind = "delete"
    <3>1. op[u] \in Operation /\ PathsOf(op[u]) = {op[u].path} /\ Resolved(u)
      BY <1>6, <2>2, PathsFacts DEF OpsInv, OpsTypeOK, Active, OperationsStand
    <3>2. CASE op[u].path = p
      BY <1>1, <1>5, <2>2, <3>1, <3>2 DEF Resolved
    <3>3. CASE op[u].path # p
      BY <1>1, <1>5, <2>2, <3>1, <3>3
    <3> QED
      BY <3>2, <3>3
  <2> QED
    BY <1>3, <2>1, <2>2
<1>7. OwnPaths'
  <2> SUFFICES ASSUME NEW u \in Thread, NEW v \in Thread, u # v, Active(u)', Active(v)'
               PROVE  \/ PathsOf(op'[u]) \cap PathsOf(op'[v]) = {}
                      \/ /\ op'[u].kind = "delete" /\ op'[v].kind = "delete"
                         /\ op'[u].expected = op'[v].expected
    BY DEF OwnPaths, Deletes
  <2>1. CASE u # t /\ v # t
    BY <1>4, <2>1 DEF OpsInv, OwnPaths, Active, Deletes
  <2>2. CASE u = t
    BY <1>4, <1>6, <2>2 DEF Active
  <2>3. CASE v = t
    BY <1>4, <1>6, <2>3 DEF Active
  <2> QED
    BY <2>1, <2>2, <2>3
<1>8. Resolved(t)'
  <2>1. IdAt(cache, p) <= stamp /\ (kind # "write" => IdAt(cache, p) # 0)
    BY <1>1, <1>3, CacheIds
  <2>2. kind = "rename" => mode = "renames"
    BY <1>1 DEF KeptModes, OpsInv, OpsTypeOK
  <2> QED
    BY <1>1, <1>3, <1>4, <1>5, <2>1, <2>2 DEF Resolved, Deletes, memVars, IdAt
<1> QED
  BY <1>2, <1>3, <1>4, <1>5, <1>7, <1>8, QuietInv DEF Active
(* An operation under way has been loaded for, and is known by its parts.  *)
LEMMA ActiveFacts ==
  ASSUME OpsInv, NEW t \in Thread, Active(t) \/ op[t].phase # "idle"
  PROVE  /\ Active(t) /\ op[t] \in Operation /\ Resolved(t) /\ initialized /\ ~scan
         /\ op[t].path \in Path /\ op[t].to \in Path /\ op[t].expected \in Nat
         /\ op[t].expected <= stamp /\ op[t].result \in File \cup {None}
         /\ op[t].phase \in {"resolved", "executed"}
         /\ op[t].phase = "executed" => Carried(t)
         /\ Drift(cache, unseen) /\ cache \in [Path -> File \cup {None}]
<1>1. Active(t) /\ op[t] \in Operation
  BY ActiveType DEF OpsInv, Active
<1>2. initialized /\ ~scan /\ Drift(cache, unseen)
  BY <1>1 DEF OpsInv, MemoryStates, AllIdle, Active, CursorsTell
<1>3. Resolved(t) /\ (op[t].phase = "executed" => Carried(t))
  BY <1>1 DEF OpsInv, OperationsStand
<1> QED
  BY <1>1, <1>2, <1>3 DEF Operation, OpsInv, OpsTypeOK, Resolved

(* What has to be told of a path whose entry is not the provider's file.   *)
LEMMA EntryTold ==
  ASSUME OpsInv, NEW t \in Thread, Active(t), IdAt(cache, op[t].path) = op[t].expected,
         IdAt(remote, op[t].path) # op[t].expected
  PROVE  /\ cache[op[t].path] # None => <<op[t].expected, op[t].path>> \in unseen
         /\ Told(unseen, op[t].path, remote[op[t].path])
<1>1. Drift(cache, unseen) /\ op[t].path \in Path
  BY ActiveFacts
<1>2. cache[op[t].path] # remote[op[t].path]
  BY DEF IdAt
<1>3. cache[op[t].path] # None => IdOf(cache[op[t].path]) = op[t].expected
  BY DEF IdAt
<1> QED
  BY <1>1, <1>2, <1>3 DEF Drift, Told

(* A request changes the provider's files. *)
LEMMA TellsInv ==
  ASSUME OpsInv, OpsTypeOK', NEW files \in [Path -> File \cup {None}], NEW told \in SUBSET Pairs,
         Tells(files, told), RemoteIds', NEW t \in Thread, Active(t),
         \A u \in Thread \ {t} : op'[u] = op[u],
         op'[t] # Idle,
         op'[t].kind = op[t].kind, op'[t].path = op[t].path, op'[t].to = op[t].to,
         op'[t].expected = op[t].expected,
         \A u \in Thread : Active(u) /\ Deletes(u) =>
           \/ IdAt(files, op[u].path) \in {0, IdAt(remote, op[u].path)}
           \/ IdAt(files, op[u].path) > stamp,
         Carried(t)'
  PROVE  OpsInv'
<1>1. CursorsTell' /\ StoreTells'
  BY TellsState DEF OpsInv
<1>2. OwnPaths'
  BY OwnPathsKept
<1>3. MemoryStates'
  BY ActiveFacts DEF OpsInv, MemoryStates, Tells
<1>4. Resolved(t)'
  BY TellsStands
<1>5. ASSUME NEW u \in Thread, u # t, Active(u)'
      PROVE  Resolved(u)' /\ (op'[u].phase = "executed" => Carried(u)')
  <2>1. op'[u] = op[u] /\ Active(u)
    BY <1>5 DEF Active
  <2>2. op[u].phase = "executed" => Carried(u)
    BY <2>1, ActiveFacts
  <2>3. Resolved(u)' /\ (op'[u] = op[u] /\ Carried(u) => Carried(u)')
    BY <2>1, TellsStands
  <2> QED
    BY <2>1, <2>2, <2>3
<1>6. OperationsStand'
  BY <1>4, <1>5 DEF OperationsStand
<1> QED
  BY <1>1, <1>2, <1>3, <1>6 DEF OpsInv

LEMMA UploadInv ==
  ASSUME OpsInv, NEW t \in Thread, UploadFile(t) PROVE OpsInv'
<1> USE StampFacts
<1> DEFINE p  == op[t].path
           id == IF remote[p] # None THEN IdOf(remote[p]) ELSE stamp + 1
           f  == <<id, stamp + 1>>
<1>1. /\ op[t].phase = "resolved" /\ op[t].kind = "write"
      /\ stamp' = stamp + 1 /\ stamp < MaxStamp
      /\ RemoteBecomes([remote EXCEPT ![p] = f], {<<id, p>>}) /\ Answered(t, f)
      /\ UNCHANGED <<mode, cache, touchedPaths, pendingFullPersist, initialized, scan, saved,
                     storeCache>>
  BY DEF UploadFile
<1>2. /\ Active(t) /\ op[t] \in Operation /\ Resolved(t) /\ p \in Path /\ initialized
      /\ Drift(cache, unseen)
  BY <1>1, ActiveFacts
<1>3. OpsTypeOK'
  BY Phase2Type DEF Phase2, OpsInv
<1>4. /\ stamp' \in Ids /\ id \in Ids /\ id <= stamp' /\ stamp' \in Nat
      /\ id = IdAt(remote, p) \/ (id = stamp + 1 /\ remote[p] = None)
  BY <1>1, <1>2, FileFacts, RemoteFacts DEF OpsInv, OpsTypeOK, Ids
<1>5. f \in File /\ f # None /\ IdOf(f) = id /\ f[2] = stamp'
  BY <1>1, <1>4, FileFacts DEF IdOf
<1> HIDE DEF id, f
<1>6. /\ op'[t] \in Operation /\ op'[t] # Idle
      /\ op'[t].phase = "executed" /\ op'[t].result = f
      /\ op'[t].kind = op[t].kind /\ op'[t].path = op[t].path /\ op'[t].to = op[t].to
      /\ op'[t].expected = op[t].expected
      /\ \A u \in Thread \ {t} : op'[u] = op[u]
  BY <1>1, <1>5, AnsweredType, PathsFacts DEF OpsInv, OpsTypeOK
<1>7. /\ f \in File \cup {None} /\ f # None /\ IdOf(f) = id /\ f[2] <= stamp'
      /\ stamp' \in {stamp, stamp + 1} /\ p \in Path /\ id \in Ids
      /\ id = IdAt(remote, p) \/ (id = stamp + 1 /\ id <= stamp' /\ remote[p] = None)
  BY <1>1, <1>2, <1>4, <1>5
<1> HIDE DEF p
<1>8. /\ Tells([remote EXCEPT ![p] = f], {<<id, p>>})
      /\ [remote EXCEPT ![p] = f] \in [Path -> File \cup {None}]
      /\ {<<id, p>>} \in SUBSET Pairs
      /\ RemoteIds'
      /\ \A q \in Path : \/ IdAt([remote EXCEPT ![p] = f], q) \in {0, IdAt(remote, q)}
                          \/ IdAt([remote EXCEPT ![p] = f], q) > stamp
  BY <1>1, <1>7, PathTells
<1>9. unseen' = unseen \cup {<<id, p>>} /\ remote'[p] = f /\ cache' = cache
  BY <1>1, <1>2 DEF RemoteBecomes, OpsInv, OpsTypeOK
<1>10. Carried(t)'
  <2>1. op[t].to = p /\ IdAt(cache, p) = op[t].expected
    BY <1>1, <1>2 DEF Resolved, Deletes, p
  <2>2. cache[p] # None => <<op[t].expected, p>> \in unseen'
    <3>1. CASE IdAt(remote, p) = op[t].expected /\ cache[p] # None
      <4>1. op[t].expected # 0
        BY <1>2, <2>1, <3>1, CacheIds
      <4>2. id = op[t].expected
        BY <1>2, <1>4, <3>1, <4>1, RemoteFacts
      <4> QED
        BY <1>9, <4>2
    <3>2. CASE IdAt(remote, p) # op[t].expected
      BY <1>2, <1>9, <2>1, <3>2, EntryTold DEF p
    <3> QED
      BY <3>1, <3>2
  <2>3. Told(unseen', p, f)
    BY <1>5, <1>9 DEF Told
  <2>4. PathsOf(op'[t]) = {p}
    BY <1>1, <1>6, PathsFacts DEF p
  <2> QED
    BY <1>1, <1>5, <1>6, <1>9, <2>1, <2>2, <2>3, <2>4 DEF Carried, Deletes, p
<1>11. \A u \in Thread : Active(u) => op[u].path \in Path
  BY ActiveFacts
<1> QED
  BY <1>2, <1>3, <1>6, <1>8, <1>10, <1>11, TellsInv

LEMMA DeleteInv ==
  ASSUME OpsInv, NEW t \in Thread, DeleteRemote(t) PROVE OpsInv'
<1> USE StampFacts
<1> DEFINE p   == op[t].path
           hit == IdAt(remote, p) = op[t].expected
<1>1. /\ op[t].phase = "resolved" /\ op[t].kind = "delete"
      /\ RemoteBecomes(IF hit THEN [remote EXCEPT ![p] = None] ELSE remote,
                       IF hit THEN {<<op[t].expected, p>>} ELSE {})
      /\ Answered(t, None)
      /\ UNCHANGED <<mode, stamp, cache, touchedPaths, pendingFullPersist, initialized, scan,
                     saved, storeCache>>
  BY DEF DeleteRemote
<1>2. /\ Active(t) /\ op[t] \in Operation /\ Resolved(t) /\ p \in Path /\ initialized
      /\ Drift(cache, unseen) /\ op[t].expected # 0 /\ op[t].expected \in Nat
      /\ op[t].to = p /\ op[t].expected \in Ids
      /\ IdAt(cache, p) = op[t].expected \/ (cache[p] = None /\ ~hit)
  <2>1. /\ Active(t) /\ op[t] \in Operation /\ Resolved(t) /\ p \in Path /\ initialized
        /\ Drift(cache, unseen) /\ op[t].expected \in Nat /\ op[t].expected \in 0..MaxStamp
    BY <1>1, ActiveFacts DEF Operation
  <2> QED
    BY <1>1, <2>1 DEF Resolved, Ids
<1>3. OpsTypeOK'
  BY Phase2Type DEF Phase2, OpsInv
<1>4. /\ op'[t] \in Operation /\ op'[t] # Idle
      /\ op'[t].phase = "executed" /\ op'[t].result = None
      /\ op'[t].kind = op[t].kind /\ op'[t].path = op[t].path /\ op'[t].to = op[t].to
      /\ op'[t].expected = op[t].expected
      /\ \A u \in Thread \ {t} : op'[u] = op[u]
  BY <1>1, AnsweredType, PathsFacts DEF OpsInv, OpsTypeOK
<1>5. PathsOf(op'[t]) = {p}
  BY <1>1, <1>4, PathsFacts
<1>6. \A u \in Thread : Active(u) => op[u].path \in Path
  BY ActiveFacts
<1> HIDE DEF p
<1>7. CASE hit
  <2>1. RemoteBecomes([remote EXCEPT ![p] = None], {<<op[t].expected, p>>})
    BY <1>1, <1>7
  <2>2. stamp' \in {stamp, stamp + 1} /\ op[t].expected = IdAt(remote, p)
    BY <1>1, <1>7
  <2>3. /\ Tells([remote EXCEPT ![p] = None], {<<op[t].expected, p>>})
        /\ [remote EXCEPT ![p] = None] \in [Path -> File \cup {None}]
        /\ {<<op[t].expected, p>>} \in SUBSET Pairs
        /\ RemoteIds'
        /\ \A q \in Path : \/ IdAt([remote EXCEPT ![p] = None], q) \in {0, IdAt(remote, q)}
                            \/ IdAt([remote EXCEPT ![p] = None], q) > stamp
    BY <1>1, <1>2, <2>1, <2>2, PathTells
  <2>4. /\ unseen' = unseen \cup {<<op[t].expected, p>>} /\ remote'[p] = None /\ cache' = cache
        /\ IdAt(remote', p) = 0
    BY <1>1, <1>2, <2>1 DEF RemoteBecomes, OpsInv, OpsTypeOK, IdAt
  <2>5. Carried(t)'
    BY <1>1, <1>2, <1>4, <1>5, <2>4 DEF Carried, Deletes, Told, p
  <2> QED
    BY <1>2, <1>3, <1>4, <1>6, <2>3, <2>5, TellsInv
<1>8. CASE ~hit
  <2>1. RemoteBecomes(remote, {})
    BY <1>1, <1>8
  <2>2. remote' = remote /\ unseen' = unseen /\ cache' = cache /\ stamp' = stamp
    BY <1>1, <1>2, <2>1 DEF RemoteBecomes
  <2>3. Tells(remote, {}) /\ remote \in [Path -> File \cup {None}] /\ {} \in SUBSET Pairs
    BY <1>1, <2>1 DEF Tells, OpsInv, OpsTypeOK
  <2>4. RemoteIds'
    BY <2>2 DEF OpsInv, RemoteIds, IdAt
  <2>5. Carried(t)'
    <3>1. cache[p] # None => IdAt(cache, p) = op[t].expected
      BY <1>2
    <3>2. cache[p] # None => /\ <<op[t].expected, p>> \in unseen
                             /\ Told(unseen, p, remote[p])
      BY <1>2, <1>8, <3>1, EntryTold DEF p
    <3>3. IdAt(remote', p) = IdAt(remote, p)
      BY <2>2
    <3> QED
      BY <1>1, <1>2, <1>4, <1>5, <1>8, <2>2, <3>2, <3>3 DEF Carried, Deletes, p
  <2> QED
    BY <1>2, <1>3, <1>4, <1>6, <2>3, <2>4, <2>5, TellsInv
<1> QED
  BY <1>7, <1>8
LEMMA MoveInv ==
  ASSUME OpsInv, NEW t \in Thread, MoveRemote(t) PROVE OpsInv'
<1> USE StampFacts
<1> DEFINE p  == op[t].path
           to == op[t].to
           id == op[t].expected
           f  == <<id, stamp + 1>>
           files == [remote EXCEPT ![p] = None, ![to] = f]
           told  == {<<id, p>>, <<id, to>>}
<1>1. /\ op[t].phase = "resolved" /\ op[t].kind = "rename"
      /\ IdAt(remote, p) = id /\ remote[to] = None
      /\ stamp' = stamp + 1 /\ stamp < MaxStamp
      /\ RemoteBecomes(files, told) /\ Answered(t, f)
      /\ UNCHANGED <<mode, cache, touchedPaths, pendingFullPersist, initialized, scan, saved,
                     storeCache>>
  BY DEF MoveRemote, IdOf
<1>2. /\ Active(t) /\ op[t] \in Operation /\ Resolved(t) /\ p \in Path /\ to \in Path
      /\ initialized /\ id # 0 /\ id \in Ids /\ to # p
  <2>1. /\ Active(t) /\ op[t] \in Operation /\ Resolved(t) /\ p \in Path /\ to \in Path
        /\ initialized /\ id \in 0..MaxStamp
    BY <1>1, ActiveFacts DEF Operation
  <2> QED
    BY <1>1, <2>1 DEF Resolved, Ids
<1>3. OpsTypeOK'
  BY Phase2Type DEF Phase2, OpsInv
<1>4. /\ stamp' \in Ids /\ stamp' \in Nat /\ stamp \in Nat /\ id \in Nat /\ id <= stamp
  BY <1>1, <1>2, RemoteFacts DEF OpsInv, OpsTypeOK, Ids
<1>5. f \in File /\ f # None /\ IdOf(f) = id /\ f[2] = stamp'
  BY <1>1, <1>2, <1>4, FileFacts DEF IdOf
<1> HIDE DEF f
<1>6. /\ op'[t] \in Operation /\ op'[t] # Idle
      /\ op'[t].phase = "executed" /\ op'[t].result = f
      /\ op'[t].kind = op[t].kind /\ op'[t].path = p /\ op'[t].to = to
      /\ op'[t].expected = id
      /\ \A u \in Thread \ {t} : op'[u] = op[u]
  BY <1>1, <1>5, AnsweredType, PathsFacts DEF OpsInv, OpsTypeOK
<1>7. PathsOf(op'[t]) = {p, to} /\ PathsOf(op[t]) = {p, to}
  BY <1>1, <1>2, <1>6, PathsFacts
<1>8. \A u \in Thread : Active(u) /\ Deletes(u) => op[u].path \in Path \ {to}
  BY <1>1, <1>2, <1>7, ActiveFacts, OthersElsewhere DEF Deletes
<1> HIDE DEF p, to, id
<1>9. /\ files \in [Path -> File \cup {None}] /\ told \in SUBSET Pairs
      /\ files[p] = None /\ files[to] = f
      /\ \A q \in Path \ {p, to} : files[q] = remote[q]
  BY <1>2, <1>5, RemoteFacts DEF Pairs
<1>10. \A q \in Path : IdAt(files, q) = IF q = p THEN 0
                                        ELSE IF q = to THEN id ELSE IdAt(remote, q)
  BY <1>2, <1>5, <1>9 DEF IdAt
<1>11. \A q \in Path : IdAt(remote, q) = id => q = p
  BY <1>1, <1>2, RemoteFacts DEF OpsInv, RemoteIds
<1>12. remote' = files /\ unseen' = unseen \cup told /\ cache' = cache
  BY <1>1, <1>2 DEF RemoteBecomes
<1>13. /\ \A e \in told : e[1] = id /\ e[2] \in {p, to}
       /\ <<id, p>> \in told /\ <<id, to>> \in told
  OBVIOUS
<1> HIDE DEF files, told
<1>14. Tells(files, told)
  <2>1. Told(told, p, remote[p])
    BY <1>1, <1>2, <1>13, RemoteFacts DEF Told
  <2>2. Told(told, to, files[to]) /\ Told(told, p, files[p]) /\ Told(told, to, remote[to])
    BY <1>1, <1>5, <1>9, <1>13 DEF Told
  <2>3. \A q \in Path : (\E e \in told : e[2] = q \/ e[1] = IdAt(files, q)) => q \in {p, to}
    BY <1>10, <1>11, <1>13
  <2>4. \A q \in Path : \/ files[q] = remote[q]
                        \/ Told(told, q, remote[q]) /\ Told(told, q, files[q])
    BY <1>9, <2>1, <2>2
  <2>5. \A e \in told : e[1] <= stamp'
    BY <1>1, <1>4, <1>13
  <2>6. stamp' \in {stamp, stamp + 1}
    BY <1>1
  <2> QED
    BY <1>1, <2>2, <2>3, <2>4, <2>5, <2>6 DEF Tells
<1>15. RemoteIds'
  <2>1. ASSUME NEW q \in Path, files[q] # None
        PROVE  IdOf(files[q]) <= stamp' /\ files[q][2] <= stamp'
    <3>1. CASE q = to
      BY <1>1, <1>4, <1>5, <1>9, <3>1
    <3>2. CASE q # to
      <4>1. files[q] = remote[q] /\ remote[q] # None
        BY <1>9, <2>1, <3>2
      <4>2. remote[q][2] \in Nat /\ IdOf(remote[q]) \in Nat
        BY <4>1, OpsAssumption, RemoteFacts, FileFacts DEF Ids
      <4> QED
        BY <1>1, <1>4, <4>1, <4>2 DEF OpsInv, RemoteIds
    <3> QED
      BY <3>1, <3>2
  <2>2. ASSUME NEW q \in Path, NEW r \in Path, files[q] # None, IdAt(files, q) = IdAt(files, r),
               q # r
        PROVE  FALSE
    <3>1. CASE q = to
      BY <1>2, <1>10, <1>11, <2>2, <3>1
    <3>2. CASE r = to
      BY <1>2, <1>9, <1>10, <1>11, <2>2, <3>2
    <3>3. CASE q # to /\ r # to
      <4>1. remote[q] # None /\ q # p /\ files[q] = remote[q] /\ IdAt(remote, q) # 0
        BY <1>9, <2>2, <3>3, RemoteFacts
      <4> QED
        BY <1>10, <2>2, <3>3, <4>1 DEF OpsInv, RemoteIds
    <3> QED
      BY <3>1, <3>2, <3>3
  <2>3. \A q \in Path : IdAt(files, q) = IdAt(remote, q)'
    BY <1>12 DEF IdAt
  <2> QED
    BY <1>12, <2>1, <2>2, <2>3 DEF RemoteIds
<1>16. Carried(t)'
  <2>1. Told(unseen', to, f) /\ Told(unseen', p, files[p]) /\ Told(unseen', to, files[to])
    BY <1>5, <1>9, <1>12, <1>13 DEF Told
  <2>2. <<id, p>> \in unseen'
    BY <1>12, <1>13
  <2> QED
    BY <1>1, <1>5, <1>6, <1>7, <1>12, <2>1, <2>2 DEF Carried, Deletes
<1>17. \A u \in Thread : Active(u) /\ Deletes(u) =>
         \/ IdAt(files, op[u].path) \in {0, IdAt(remote, op[u].path)}
         \/ IdAt(files, op[u].path) > stamp
  BY <1>8, <1>10
<1> QED
  <2>1. op'[t].path = op[t].path /\ op'[t].to = op[t].to /\ op'[t].expected = op[t].expected
    BY <1>6 DEF p, to, id
  <2> QED
    BY <1>2, <1>3, <1>6, <1>9, <1>14, <1>15, <1>16, <1>17, <2>1, TellsInv

LEMMA Phase2Inv ==
  ASSUME OpsInv, NEW t \in Thread, Phase2(t) PROVE OpsInv'
<1>1. CASE DownloadFile(t) \/ RequestFails(t)
  <2>1. op[t].phase = "resolved" /\ UNCHANGED <<mode, remote, stamp, memVars, storeVars>>
    BY <1>1 DEF DownloadFile, RequestFails
  <2>2. Active(t) /\ op[t] \in Operation /\ Resolved(t) /\ initialized
    BY <2>1, ActiveFacts
  <2>3. OpsTypeOK'
    BY Phase2Type DEF OpsInv
  <2>4. CASE op' = [op EXCEPT ![t] = Idle]
    <3>1. op'[t] = Idle /\ \A u \in Thread \ {t} : op'[u] = op[u]
      BY <2>4 DEF OpsInv, OpsTypeOK
    <3>2. OwnPaths'
      BY <2>3, <3>1, OwnPathsKept
    <3> QED
      BY <2>1, <2>2, <2>3, <3>1, <3>2, QuietInv DEF Active
  <2>5. CASE /\ op[t].kind = "read" /\ IdAt(remote, op[t].path) # op[t].expected
             /\ Answered(t, None)
    <3>1. /\ op'[t] \in Operation /\ op'[t] # Idle
          /\ op'[t].phase = "executed" /\ op'[t].result = None
          /\ op'[t].kind = op[t].kind /\ op'[t].path = op[t].path /\ op'[t].to = op[t].to
          /\ op'[t].expected = op[t].expected
          /\ \A u \in Thread \ {t} : op'[u] = op[u]
      BY <2>1, <2>5, AnsweredType, PathsFacts DEF OpsInv, OpsTypeOK
    <3>2. OwnPaths'
      BY <2>2, <2>3, <3>1, OwnPathsKept
    <3>3. remote' = remote /\ unseen' = unseen /\ cache' = cache /\ stamp' = stamp /\ mode' = mode
      BY <2>1 DEF memVars
    <3>4. Resolved(t)'
      BY <2>2, <2>5, <3>1, <3>3 DEF Resolved, Deletes, IdAt
    <3>5. IdAt(cache, op[t].path) = op[t].expected
      BY <2>2, <2>5 DEF Resolved, Deletes
    <3>6. /\ cache[op[t].path] # None => <<op[t].expected, op[t].path>> \in unseen
          /\ Told(unseen, op[t].path, remote[op[t].path])
      BY <2>2, <2>5, <3>5, EntryTold
    <3>7. PathsOf(op'[t]) = {op[t].path}
      BY <2>5, <3>1, PathsFacts
    <3>8. Carried(t)'
      BY <2>5, <3>1, <3>3, <3>6, <3>7 DEF Carried, Deletes
    <3> QED
      BY <2>1, <2>2, <2>3, <3>1, <3>2, <3>4, <3>8, QuietInv
  <2> QED
    BY <1>1, <2>4, <2>5 DEF DownloadFile, RequestFails
<1> QED
  BY <1>1, UploadInv, DeleteInv, MoveInv DEF Phase2
(* An outcome is put into the cache. *)
LEMMA AppliedInv ==
  ASSUME OpsInv, OpsTypeOK', NEW t \in Thread, Active(t), op' = [op EXCEPT ![t] = Idle],
         UNCHANGED <<mode, remote, stamp, unseen, pendingFullPersist, initialized, scan,
                     storeVars>>,
         touchedPaths \subseteq touchedPaths',
         \A q \in Path \ PathsOf(op[t]) : cache'[q] = cache[q],
         \A q \in PathsOf(op[t]) : \/ cache'[q] = cache[q]
                                   \/ Told(unseen, q, cache'[q]) /\ Told(unseen, q, remote[q]),
         mode = "restarts" => \A q \in PathsOf(op[t]) :
                                \/ q \in touchedPaths'
                                \/ /\ cache'[q] # None
                                   /\ Told(unseen, q, cache'[q]) /\ Told(unseen, q, cache[q]),
         Deletes(t) => /\ cache'[op[t].path] = None
                       /\ IdAt(remote, op[t].path) # op[t].expected
  PROVE  OpsInv'
<1>1. /\ op[t] \in Operation /\ PathsOf(op[t]) \subseteq Path /\ initialized /\ ~scan
      /\ Drift(cache, unseen)
  BY ActiveFacts, PathsFacts
<1>2. op'[t] = Idle /\ \A u \in Thread \ {t} : op'[u] = op[u]
  BY DEF OpsInv, OpsTypeOK
<1>3. RemoteIds'
  BY DEF OpsInv, RemoteIds, IdAt
<1>4. MemoryStates'
  BY <1>1 DEF OpsInv, MemoryStates, storeVars
<1>5. CursorsTell'
  <2>1. Drift(cache, unseen)'
    BY <1>1 DEF Drift, Told
  <2> QED
    BY <1>1, <2>1 DEF OpsInv, CursorsTell, TellsRemote, Told, IdAt, storeVars
<1>6. StoreTells'
  <2> SUFFICES ASSUME mode = "restarts", saved
               PROVE  /\ Drift(storeCache, storeUnseen)'
                      /\ ~pendingFullPersist =>
                           \A p \in Path :
                             \/ p \in touchedPaths'
                             \/ storeCache[p] = cache'[p]
                             \/ /\ cache'[p] # None
                                /\ Told(unseen, p, cache'[p]) /\ Told(unseen, p, storeCache[p])
    BY DEF StoreTells, storeVars, Told
  <2>1. Drift(storeCache, storeUnseen)'
    BY DEF OpsInv, StoreTells, Drift, Told, storeVars
  <2>2. ASSUME ~pendingFullPersist, NEW p \in Path
        PROVE  \/ p \in touchedPaths'
               \/ storeCache[p] = cache'[p]
               \/ /\ cache'[p] # None
                  /\ Told(unseen, p, cache'[p]) /\ Told(unseen, p, storeCache[p])
    <3>1. \/ p \in touchedPaths
          \/ storeCache[p] = cache[p]
          \/ /\ cache[p] # None
             /\ Told(unseen, p, cache[p]) /\ Told(unseen, p, storeCache[p])
      BY <1>1, <2>2 DEF OpsInv, StoreTells
    <3>2. \/ cache'[p] = cache[p] \/ p \in touchedPaths'
          \/ /\ cache'[p] # None
             /\ Told(unseen, p, cache'[p]) /\ Told(unseen, p, cache[p])
      OBVIOUS
    <3> QED
      BY <3>1, <3>2
  <2> QED
    BY <2>1, <2>2
<1>7. OwnPaths'
  BY <1>2, OwnPathsKept
<1>8. ASSUME NEW u \in Thread, Active(u)'
      PROVE  Resolved(u)' /\ (op'[u].phase = "executed" => Carried(u)')
  <2>1. u # t /\ op'[u] = op[u] /\ Active(u)
    BY <1>2, <1>8 DEF Active
  <2>2. /\ op[u] \in Operation /\ Resolved(u) /\ (op[u].phase = "executed" => Carried(u))
        /\ op[u].path \in Path /\ op[u].to \in Path /\ op[t].path \in PathsOf(op[t])
    BY <1>1, <2>1, ActiveFacts, PathsFacts
  <2>3. CASE op[u].path \notin PathsOf(op[t]) /\ op[u].to \notin PathsOf(op[t])
    <3>1. cache'[op[u].path] = cache[op[u].path] /\ cache'[op[u].to] = cache[op[u].to]
      BY <2>2, <2>3
    <3>2. IdAt(cache', op[u].path) = IdAt(cache, op[u].path)
      BY <3>1 DEF IdAt
    <3>3. IdAt(remote', op[u].path) = IdAt(remote, op[u].path)
      OBVIOUS
    <3>4. Resolved(u)'
      BY <2>1, <2>2, <3>1, <3>2, <3>3 DEF Resolved, Deletes
    <3> QED
      BY <2>1, <2>2, <3>1, <3>3, <3>4 DEF Carried, Deletes, Told
  <2>4. CASE /\ Deletes(t) /\ Deletes(u) /\ op[t].expected = op[u].expected
             /\ op[u].path \in PathsOf(op[t])
    <3>1. op[u].path = op[t].path
      BY <1>1, <2>4, PathsFacts DEF Deletes
    <3>2. cache'[op[u].path] = None /\ IdAt(remote', op[u].path) # op[u].expected
      BY <2>4, <3>1
    <3>3. Resolved(u)'
      BY <2>1, <2>2, <2>4, <3>2 DEF Resolved, Deletes
    <3> QED
      BY <2>1, <2>2, <2>4, <3>2, <3>3 DEF Carried, Deletes
  <2>5. Deletes(u) => op[u].to = op[u].path
    BY <2>2 DEF Resolved, Deletes
  <2> QED
    BY <2>1, <2>3, <2>4, <2>5, OthersElsewhere
<1>9. OperationsStand'
  BY <1>8 DEF OperationsStand
<1> QED
  BY <1>3, <1>4, <1>5, <1>6, <1>7, <1>9 DEF OpsInv

LEMMA Phase3Inv ==
  ASSUME OpsInv, NEW t \in Thread, Phase3(t) PROVE OpsInv'
<1> DEFINE p == op[t].path
           to == op[t].to
<1>1. op[t].phase = "executed" /\ op' = [op EXCEPT ![t] = Idle]
  BY DEF Phase3, UpdateAfterWrite, UpdateAfterDelete, UpdateAfterRename, EvictAfterRead,
         SkipStale
<1>2. /\ Active(t) /\ op[t] \in Operation /\ Resolved(t) /\ Carried(t) /\ p \in Path /\ to \in Path
      /\ initialized /\ op[t].result \in File \cup {None}
      /\ cache \in [Path -> File \cup {None}]
      /\ PathsOf(op[t]) = (IF op[t].kind = "rename" THEN {p, to} ELSE {p})
  BY <1>1, ActiveFacts, PathsFacts
<1>3. OpsTypeOK'
  BY Phase3Type DEF OpsInv
<1>4. CASE SkipStale(t)
  <2>1. op'[t] = Idle /\ \A u \in Thread \ {t} : op'[u] = op[u]
    BY <1>1 DEF OpsInv, OpsTypeOK
  <2>2. OwnPaths'
    BY <1>3, <2>1, OwnPathsKept
  <2> QED
    BY <1>2, <1>3, <1>4, <2>1, <2>2, QuietInv DEF SkipStale, Active
<1>5. CASE UpdateAfterWrite(t)
  <2>1. /\ op[t].kind = "write" /\ IdAt(cache, p) = op[t].expected
        /\ cache' = [cache EXCEPT ![p] = op[t].result]
        /\ UNCHANGED <<mode, remote, stamp, unseen, touchedPaths, pendingFullPersist, initialized,
                       scan, storeVars>>
    BY <1>5 DEF UpdateAfterWrite, Stale
  <2>2. to = p /\ PathsOf(op[t]) = {p}
    BY <1>2, <2>1 DEF Resolved
  <2>3. cache'[p] = op[t].result /\ \A q \in Path \ {p} : cache'[q] = cache[q]
    BY <1>2, <2>1
  <2>4. Told(unseen, p, op[t].result) /\ Told(unseen, p, remote[p]) /\ op[t].result # None
    BY <1>2, <2>1, <2>2 DEF Carried, Deletes
  <2>5. Told(unseen, p, cache[p])
    BY <1>2, <2>1 DEF Carried, Told, IdAt
  <2> QED
    BY <1>1, <1>2, <1>3, <2>1, <2>2, <2>3, <2>4, <2>5, AppliedInv DEF Deletes
<1>6. CASE UpdateAfterDelete(t) \/ EvictAfterRead(t)
  <2>1. /\ op[t].kind \in {"delete", "read"}
        /\ cache' = [cache EXCEPT ![p] = None]
        /\ touchedPaths' = touchedPaths \cup {p}
        /\ UNCHANGED <<mode, remote, stamp, unseen, pendingFullPersist, initialized, scan,
                       storeVars>>
        /\ Deletes(t) => IdAt(cache, p) = op[t].expected
    BY <1>6 DEF UpdateAfterDelete, EvictAfterRead, Stale, Deletes
  <2>2. PathsOf(op[t]) = {p}
    BY <1>2, <2>1
  <2>3. cache'[p] = None /\ \A q \in Path \ {p} : cache'[q] = cache[q]
    BY <1>2, <2>1
  <2>4. Deletes(t) => IdAt(remote, p) # op[t].expected /\ cache[p] # None
    BY <1>2, <2>1 DEF Carried, Resolved, Deletes, IdAt
  <2>5. Told(unseen, p, None) /\ Told(unseen, p, remote[p])
    BY <1>2, <2>1, <2>2, <2>4 DEF Carried, Told
  <2> QED
    BY <1>1, <1>2, <1>3, <2>1, <2>2, <2>3, <2>4, <2>5, AppliedInv
<1>7. CASE UpdateAfterRename(t)
  <2>1. /\ op[t].kind = "rename"
        /\ cache' \in {cache, [cache EXCEPT ![p] = None, ![to] = op[t].result]}
        /\ UNCHANGED <<mode, remote, stamp, unseen, touchedPaths, pendingFullPersist, initialized,
                       scan, storeVars>>
    BY <1>7 DEF UpdateAfterRename
  <2>2. to # p /\ PathsOf(op[t]) = {p, to} /\ mode = "renames"
    BY <1>2, <2>1 DEF Resolved
  <2>3. /\ \A q \in Path \ {p, to} : cache'[q] = cache[q]
        /\ cache'[p] \in {cache[p], None} /\ cache'[to] \in {cache[to], op[t].result}
    BY <1>2, <2>1, <2>2
  <2>4. /\ Told(unseen, to, op[t].result) /\ Told(unseen, p, None)
        /\ Told(unseen, p, remote[p]) /\ Told(unseen, to, remote[to])
    BY <1>2, <2>1, <2>2 DEF Carried, Deletes, Told
  <2> QED
    BY <1>1, <1>2, <1>3, <2>1, <2>2, <2>3, <2>4, AppliedInv DEF Deletes
<1> QED
  BY <1>4, <1>5, <1>6, <1>7 DEF Phase3
(* A map that differs from the provider at a path, and a path it differs   *)
(* at, are among what the next delta applies.                              *)
LEMMA DeltaReaches ==
  ASSUME OpsInv, initialized, NEW p \in Path,
         \A e \in unseen : IdAt(remote, p) # e[1] /\ IdAt(cache, p) # e[1]
  PROVE  /\ cache[p] = remote[p]
         /\ Told(unseen, p, cache[p]) => cache[p] = None
<1>1. Told(unseen, p, cache[p]) => cache[p] = None
  BY DEF Told, IdAt
<1>2. Told(unseen, p, remote[p]) => remote[p] = None
  BY DEF Told, IdAt
<1>3. cache[p] = remote[p]
  BY <1>1, <1>2 DEF OpsInv, CursorsTell, Drift
<1> QED
  BY <1>1, <1>2, <1>3
LEMMA MutexInv ==
  ASSUME KeptModes, OpsInv,
         \/ BeginFullScan \/ EndFullScan \/ LoadFromCache
         \/ FetchDelta \/ CommitCheckpoint \/ Restart
  PROVE  OpsInv'
<1>1. OpsTypeOK'
  BY MutexType DEF OpsInv
<1>2. /\ mode \in {"renames", "restarts"} /\ remote \in [Path -> File \cup {None}]
      /\ cache \in [Path -> File \cup {None}] /\ storeCache \in [Path -> File \cup {None}]
  BY DEF KeptModes, OpsInv, OpsTypeOK
<1>3. AllIdle' /\ remote' = remote /\ stamp' = stamp /\ mode' = mode
  <2>1. CASE BeginFullScan \/ EndFullScan \/ LoadFromCache \/ FetchDelta \/ CommitCheckpoint
    BY <1>2, <2>1
    DEF OpsInv, BeginFullScan, EndFullScan, LoadFromCache, FetchDelta, CommitCheckpoint,
        MemoryStates, AllIdle, Between
  <2>2. CASE Restart
    BY <2>2 DEF Restart, AllIdle
  <2> QED
    BY <2>1, <2>2
<1>4. RemoteIds' /\ OwnPaths' /\ OperationsStand'
  BY <1>3 DEF OpsInv, RemoteIds, IdAt, OwnPaths, OperationsStand, Active, AllIdle
<1>5. CASE BeginFullScan
  BY <1>1, <1>3, <1>4, <1>5
  DEF BeginFullScan, OpsInv, MemoryStates, CursorsTell, TellsRemote, Told, IdAt, StoreTells,
      storeVars
<1>6. CASE EndFullScan
  <2>1. MemoryStates' /\ StoreTells'
    BY <1>3, <1>6 DEF EndFullScan, OpsInv, MemoryStates, StoreTells, storeVars
  <2>2. Drift(cache, unseen)'
    BY <1>6 DEF EndFullScan, Drift
  <2>3. CursorsTell'
    BY <1>3, <1>6, <2>2
    DEF EndFullScan, OpsInv, CursorsTell, TellsRemote, Told, IdAt, storeVars
  <2> QED
    BY <1>1, <1>4, <2>1, <2>3 DEF OpsInv
<1>7. CASE LoadFromCache
  <2>1. mode = "restarts" /\ saved /\ ~pendingFullPersist /\ touchedPaths = {}
    BY <1>2, <1>7 DEF LoadFromCache, OpsInv, MemoryStates
  <2>2. MemoryStates'
    BY <1>3, <1>7, <2>1 DEF LoadFromCache, OpsInv, MemoryStates, storeVars
  <2>3. Drift(storeCache, storeUnseen) /\ TellsRemote(storeUnseen)
    BY <2>1 DEF OpsInv, StoreTells, CursorsTell
  <2>4. CursorsTell' /\ StoreTells'
    BY <1>3, <1>7, <2>3
    DEF LoadFromCache, CursorsTell, StoreTells, TellsRemote, Drift, Told, IdAt, storeVars
  <2> QED
    BY <1>1, <1>4, <2>2, <2>4 DEF OpsInv
<1>8. CASE FetchDelta
  <2> DEFINE here == {p \in Path : IdAt(remote, p) \in {e[1] : e \in unseen}}
             left == {p \in Path : IdAt(cache, p) \in {e[1] : e \in unseen}}
  <2>1. /\ initialized /\ ~scan
        /\ cache' = [p \in Path |-> IF p \in here \cup left THEN remote[p] ELSE cache[p]]
        /\ touchedPaths' = touchedPaths \cup here \cup left
        /\ unseen' = {}
        /\ UNCHANGED <<mode, remote, stamp, pendingFullPersist, initialized, scan, storeVars, op>>
    BY <1>8 DEF FetchDelta
  <2>2. \A p \in Path \ (here \cup left) :
          /\ cache[p] = remote[p]
          /\ Told(unseen, p, cache[p]) => cache[p] = None
    BY <2>1, DeltaReaches
  <2> HIDE DEF here, left
  <2>3. \A p \in Path : cache'[p] = remote[p]
    BY <2>1, <2>2
  <2>4. MemoryStates'
    BY <1>3, <2>1 DEF OpsInv, MemoryStates, storeVars
  <2>5. CursorsTell'
    BY <1>3, <2>1, <2>3 DEF OpsInv, CursorsTell, TellsRemote, Drift, Told, IdAt, storeVars
  <2>6. StoreTells'
    BY <1>3, <2>1, <2>2, <2>3 DEF OpsInv, StoreTells, Drift, Told, storeVars
  <2> QED
    BY <1>1, <1>4, <2>4, <2>5, <2>6 DEF OpsInv
<1>9. CASE CommitCheckpoint
  <2>1. /\ initialized /\ ~scan /\ saved'
        /\ storeCache' = [p \in Path |-> IF pendingFullPersist \/ p \in touchedPaths
                                         THEN cache[p] ELSE storeCache[p]]
        /\ storeUnseen' = unseen
        /\ ~pendingFullPersist' /\ touchedPaths' = {}
        /\ UNCHANGED <<mode, remote, stamp, cache, unseen, initialized, scan, op>>
    BY <1>9 DEF CommitCheckpoint
  <2>2. MemoryStates'
    BY <1>3, <2>1 DEF OpsInv, MemoryStates
  <2>3. TellsRemote(unseen) /\ Drift(cache, unseen)
    BY <2>1 DEF OpsInv, CursorsTell
  <2>4. CursorsTell'
    BY <1>3, <2>1, <2>3 DEF CursorsTell, TellsRemote, Drift, Told, IdAt
  <2>5. ASSUME mode = "restarts", NEW p \in Path
        PROVE  \/ storeCache'[p] = cache[p]
               \/ /\ cache[p] # None
                  /\ Told(unseen, p, cache[p]) /\ Told(unseen, p, storeCache'[p])
    BY <2>1, <2>5 DEF OpsInv, StoreTells, MemoryStates
  <2>6. ASSUME mode = "restarts", NEW p \in Path
        PROVE  \/ storeCache'[p] = remote[p]
               \/ Told(unseen, p, storeCache'[p]) /\ Told(unseen, p, remote[p])
    <3>1. CASE storeCache'[p] = cache[p]
      BY <2>3, <3>1 DEF Drift
    <3>2. CASE /\ cache[p] # None
               /\ Told(unseen, p, cache[p]) /\ Told(unseen, p, storeCache'[p])
      <4>1. \E e \in unseen : e[2] = p
        BY <3>2 DEF Told
      <4> QED
        BY <2>3, <3>2, <4>1 DEF TellsRemote
    <3> QED
      BY <2>5, <2>6, <3>1, <3>2
  <2>7. StoreTells'
    BY <1>3, <2>1, <2>5, <2>6 DEF StoreTells, Drift, Told
  <2> QED
    BY <1>1, <1>4, <2>2, <2>4, <2>7 DEF OpsInv
<1>10. CASE Restart
  <2>1. MemoryStates'
    BY <1>2, <1>3, <1>10 DEF Restart, MemoryStates, OpsInv
  <2>2. CursorsTell' /\ StoreTells'
    BY <1>3, <1>10
    DEF Restart, OpsInv, CursorsTell, StoreTells, TellsRemote, Drift, Told, IdAt, storeVars
  <2> QED
    BY <1>1, <1>4, <2>1, <2>2 DEF OpsInv
<1> QED
  BY <1>5, <1>6, <1>7, <1>8, <1>9, <1>10

LEMMA OpsInit == Init => OpsInv
<1> SUFFICES ASSUME Init PROVE OpsInv
  OBVIOUS
<1> USE StampFacts DEF Init
<1>1. OpsTypeOK
  BY DEF OpsTypeOK, Idle, Ids
<1>2. RemoteIds
  <2>1. \A p \in Path : remote[p] # None => remote[p] = <<1, 1>>
    OBVIOUS
  <2>2. \A p, q \in Path : remote[p] # None /\ remote[q] # None => p = q
    OBVIOUS
  <2> QED
    BY <2>1, <2>2 DEF RemoteIds, IdAt, IdOf
<1> QED
  BY <1>1, <1>2
  DEF OpsInv, MemoryStates, AllIdle, CursorsTell, TellsRemote, StoreTells, OwnPaths, Active,
      OperationsStand
LEMMA OpsStep == ASSUME KeptModes, OpsInv, [Next]_vars PROVE OpsInv'
<1>1. CASE UNCHANGED vars
  BY <1>1
  DEF vars, memVars, storeVars, OpsInv, OpsTypeOK, RemoteIds, IdAt, MemoryStates, AllIdle,
      CursorsTell, TellsRemote, Told, Drift, StoreTells, OwnPaths, Active, Deletes,
      OperationsStand, Resolved, Carried
<1>2. CASE Next
  BY <1>2, OthersInv, Phase1Inv, Phase2Inv, Phase3Inv, MutexInv DEF Next
<1> QED
  BY <1>1, <1>2

(* Whatever the phases, the deltas, the commits and the restarts do, what  *)
(* a map and the provider disagree on is still to be told by its cursor,   *)
(* and a mutation finds the entry it was resolved from or lets it be.      *)
THEOREM OpsInvariant == ASSUME KeptModes PROVE Spec => []OpsInv
BY OpsInit, OpsStep, PTL DEF Spec
-----------------------------------------------------------------------------
(* The paths of what has been carried out and is not yet in the cache are  *)
(* still to be told.                                                       *)
LEMMA PendingFacts ==
  ASSUME OpsInv, NEW p \in Path, NEW t \in Pending(p)
  PROVE  /\ t \in Thread /\ op[t].phase = "executed" /\ op[t].kind # "read" /\ Active(t)
         /\ Resolved(t) /\ Carried(t) /\ initialized /\ ~scan
         /\ IdAt(cache, op[t].path) = op[t].expected /\ op[t] \in Operation
         /\ p \in PathsOf(op[t]) /\ p \in {op[t].path, op[t].to}
         /\ p \in PathsTold(unseen)
<1>1. /\ t \in Thread /\ op[t].phase = "executed" /\ op[t].kind # "read"
      /\ IdAt(cache, op[t].path) = op[t].expected /\ p \in PathsOf(op[t])
  BY DEF Pending, Executed, Stale
<1>2. Active(t) /\ op[t] \in Operation /\ Resolved(t) /\ Carried(t) /\ initialized /\ ~scan
  BY <1>1, ActiveFacts
<1>3. p \in {op[t].path, op[t].to}
  BY <1>1, <1>2, PathsFacts
<1>4. op[t].kind \in {"write", "delete", "rename"}
  BY <1>1, <1>2 DEF Operation
<1>5. \E id : <<id, p>> \in unseen
  <2>1. CASE p = op[t].path /\ op[t].kind # "write"
    <3>1. cache[p] # None
      BY <1>1, <1>2, <2>1 DEF Resolved, IdAt
    <3> QED
      BY <1>2, <2>1, <3>1 DEF Carried
  <2>2. CASE p = op[t].to /\ op[t].kind # "delete"
    BY <1>2, <1>4, <2>2 DEF Carried, Told
  <2>3. CASE p = op[t].path /\ op[t].kind = "write"
    BY <1>2, <2>2, <2>3 DEF Resolved
  <2>4. CASE p = op[t].to /\ op[t].kind = "delete"
    BY <1>2, <2>1, <2>4 DEF Resolved
  <2> QED
    BY <1>3, <2>1, <2>2, <2>3, <2>4
<1> QED
  BY <1>1, <1>2, <1>3, <1>5 DEF PathsTold

(* MemoryFaithful: no phase has overwritten what a delta brought; the      *)
(* cache, with the outcomes under way, agrees with the cursor in memory.   *)
THEOREM MemoryStaysFaithful == ASSUME KeptModes PROVE Spec => []MemoryFaithful
<1>1. ASSUME OpsInv PROVE MemoryFaithful
  <2> SUFFICES ASSUME initialized, ~scan, NEW p \in Path
               PROVE  p \in PathsTold(unseen) \/ PromisedCache[p] = remote[p]
    BY DEF MemoryFaithful, FS!CacheFaithful
  <2>1. CASE Pending(p) = {}
    <3>1. PromisedCache[p] = cache[p]
      BY <2>1 DEF PromisedCache
    <3>2. CASE cache[p] # remote[p]
      <4>1. Told(unseen, p, cache[p]) /\ Told(unseen, p, remote[p])
        BY <1>1, <3>2 DEF OpsInv, CursorsTell, Drift
      <4>2. \E id : <<id, p>> \in unseen
        BY <3>2, <4>1 DEF Told
      <4> QED
        BY <4>2 DEF PathsTold
    <3> QED
      BY <3>1, <3>2
  <2>2. CASE Pending(p) # {}
    BY <1>1, <2>2, PendingFacts
  <2> QED
    BY <2>1, <2>2
<1> QED
  BY <1>1, OpsInvariant, PTL
-----------------------------------------------------------------------------
(* What callers are promised. *)

LEMMA PromiseIdle ==
  \A p \in Path : Pending(p) = {} => PromisedCache[p] = cache[p]
BY DEF PromisedCache

(* Who shares a path deletes the same file: their outcomes are one.        *)
LEMMA PromiseMade ==
  OpsInv => \A p \in Path : \A t \in Pending(p) : PromisedCache[p] = Outcome(t, p)
<1> SUFFICES ASSUME OpsInv, NEW p \in Path, NEW t \in Pending(p)
             PROVE  PromisedCache[p] = Outcome(t, p)
  OBVIOUS
<1>1. PICK u \in Pending(p) : PromisedCache[p] = Outcome(u, p)
  BY DEF PromisedCache
<1>2. CASE u # t
  <2>1. Deletes(t) /\ Deletes(u)
    BY <1>2, PendingFacts DEF OpsInv, OwnPaths
  <2>2. Outcome(t, p) = None /\ Outcome(u, p) = None
    BY <2>1, PendingFacts DEF Outcome, Carried, Deletes
  <2> QED
    BY <1>1, <2>2
<1> QED
  BY <1>1, <1>2

LEMMA PromiseIdleNext == (\A p \in Path : Pending(p) = {} => PromisedCache[p] = cache[p])'
BY PromiseIdle, PTL

LEMMA PromiseMadeNext ==
  (OpsInv => \A p \in Path : \A t \in Pending(p) : PromisedCache[p] = Outcome(t, p))'
BY PromiseMade, PTL

LEMMA PromiseDomain ==
  /\ PromisedCache = [p \in Path |-> PromisedCache[p]]
  /\ PromisedCache' = [p \in Path |-> PromisedCache'[p]]
BY DEF PromisedCache

(* Nobody else is at the paths of an operation but for other deletions.    *)
LEMMA Alone ==
  ASSUME OpsInv, NEW t \in Thread, Active(t), NEW p \in PathsOf(op[t]), NEW u \in Pending(p),
         u # t
  PROVE  /\ Deletes(t) /\ Deletes(u) /\ op[u].expected = op[t].expected /\ p = op[t].path
         /\ p = op[u].path /\ PromisedCache[p] = None /\ p \in PromisedTouched
         /\ IdAt(remote, p) # op[t].expected
<1>1. op[t] \in Operation /\ Resolved(t) /\ p \in Path
  BY ActiveFacts, PathsFacts
<1>2. Deletes(t) /\ Deletes(u) /\ op[u].expected = op[t].expected
  BY <1>1, PendingFacts DEF OpsInv, OwnPaths
<1>3. p = op[t].path /\ p = op[u].path
  BY <1>1, <1>2, PathsFacts, PendingFacts DEF Deletes
<1>4. PromisedCache[p] = None
  BY <1>1, <1>2, PromiseMade, PendingFacts DEF Outcome, Carried, Deletes
<1>5. p \in PromisedTouched
  BY <1>2, <1>3 DEF PromisedTouched, Pending, Deletes
<1> QED
  BY <1>1, <1>2, <1>3, <1>4, <1>5, PendingFacts DEF Carried

LEMMA FsStutters ==
  ASSUME PromisedCache' = PromisedCache, PromisedTouched' = PromisedTouched,
         UNCHANGED <<remote, unseen, pendingFullPersist, initialized, scan, storeVars>>
  PROVE  UNCHANGED FS!fsVars
BY DEF FS!fsVars, FS!memVars, FS!storeVars, storeVars
(* Nothing that counts as done changes. *)
LEMMA PromiseStands ==
  ASSUME OpsInv, OpsInv', cache' = cache, touchedPaths' = touchedPaths, Executed' = Executed,
         \A u \in Executed : op'[u] = op[u]
  PROVE  PromisedCache' = PromisedCache /\ PromisedTouched' = PromisedTouched
<1>1. \A p \in Path : Pending(p)' = Pending(p)
  BY DEF Pending
<1>2. \A p \in Path : PromisedCache'[p] = PromisedCache[p]
  <2> SUFFICES ASSUME NEW p \in Path PROVE PromisedCache'[p] = PromisedCache[p]
    OBVIOUS
  <2>1. CASE Pending(p) = {}
    BY <1>1, <2>1, PromiseIdle, PromiseIdleNext
  <2>2. ASSUME NEW u \in Pending(p) PROVE PromisedCache'[p] = PromisedCache[p]
    <3>1. u \in Pending(p)' /\ op'[u] = op[u]
      BY <1>1 DEF Pending
    <3>2. Outcome(u, p)' = Outcome(u, p)
      BY <3>1 DEF Outcome
    <3> QED
      BY <3>1, <3>2, PromiseMade, PromiseMadeNext
  <2> QED
    BY <2>1, <2>2
<1>3. PromisedTouched' = PromisedTouched
  BY DEF PromisedTouched
<1> QED
  BY <1>2, <1>3, PromiseDomain

LEMMA TouchedPromise ==
  OpsInv => /\ PromisedTouched \subseteq Path
            /\ \A p \in Path : p \in PromisedTouched
                 <=> p \in touchedPaths \/ \E t \in Pending(p) : Deletes(t)
<1> SUFFICES ASSUME OpsInv
             PROVE  /\ PromisedTouched \subseteq Path
                    /\ \A p \in Path : p \in PromisedTouched
                         <=> p \in touchedPaths \/ \E t \in Pending(p) : Deletes(t)
  OBVIOUS
<1>1. ASSUME NEW t \in Executed, Deletes(t)
      PROVE  op[t].path \in Path /\ PathsOf(op[t]) = {op[t].path}
  BY <1>1, ActiveFacts, PathsFacts DEF Executed, Deletes
<1> QED
  BY <1>1 DEF PromisedTouched, Pending, Deletes, OpsInv, OpsTypeOK

LEMMA TouchedPromiseNext ==
  (OpsInv => /\ PromisedTouched \subseteq Path
             /\ \A p \in Path : p \in PromisedTouched
                  <=> p \in touchedPaths \/ \E t \in Pending(p) : Deletes(t))'
BY TouchedPromise, PTL

(* A step of an operation changes no promise about other paths.            *)
LEMMA PromisedElsewhere ==
  ASSUME OpsInv, OpsInv', NEW t \in Thread, Active(t), \A u \in Thread \ {t} : op'[u] = op[u],
         \/ op'[t] = Idle
         \/ op'[t] \in Operation /\ PathsOf(op'[t]) = PathsOf(op[t]),
         NEW q \in Path, q \notin PathsOf(op[t]),
         \A r \in Path \ PathsOf(op[t]) : /\ cache'[r] = cache[r]
                                          /\ r \in touchedPaths' <=> r \in touchedPaths
  PROVE  /\ PromisedCache'[q] = PromisedCache[q]
         /\ q \in PromisedTouched' <=> q \in PromisedTouched
<1>1. \A u \in Pending(q) \cup Pending(q)' : u \in Thread /\ u # t /\ op'[u] = op[u]
  BY DEF Pending, Executed, PathsOf, Idle
<1>2. \A u \in Pending(q) \cup Pending(q)' :
        Active(u) /\ op[u].path \notin PathsOf(op[t]) /\ op[u].path \in Path
  <2> SUFFICES ASSUME NEW u \in Pending(q) \cup Pending(q)'
               PROVE  Active(u) /\ op[u].path \notin PathsOf(op[t]) /\ op[u].path \in Path
    OBVIOUS
  <2>1. u \in Thread /\ u # t /\ op[u].phase = "executed" /\ q \in PathsOf(op[u])
    BY <1>1 DEF Pending, Executed
  <2>2. Active(u) /\ op[u].path \in Path /\ op[u] \in Operation /\ op[t] \in Operation
    BY <2>1, ActiveFacts
  <2> QED
    BY <2>1, <2>2, OthersElsewhere, PathsFacts DEF Deletes
<1>3. \A u \in Pending(q) \cup Pending(q)' : IdAt(cache', op[u].path) = IdAt(cache, op[u].path)
  BY <1>2 DEF IdAt
<1>4. Pending(q)' = Pending(q)
  BY <1>1, <1>3 DEF Pending, Executed, Stale
<1>5. PromisedCache'[q] = PromisedCache[q]
  <2>1. CASE Pending(q) = {}
    BY <1>4, <2>1, PromiseIdle, PromiseIdleNext
  <2>2. ASSUME NEW u \in Pending(q) PROVE PromisedCache'[q] = PromisedCache[q]
    <3>1. u \in Pending(q)' /\ Outcome(u, q)' = Outcome(u, q)
      BY <1>1, <1>4 DEF Outcome
    <3> QED
      BY <3>1, PromiseMade, PromiseMadeNext
  <2> QED
    BY <2>1, <2>2
<1>6. q \in PromisedTouched' <=> q \in PromisedTouched
  BY <1>1, <1>4, TouchedPromise, TouchedPromiseNext DEF Deletes
<1> QED
  BY <1>5, <1>6
-----------------------------------------------------------------------------
(* Every step is one of the caching file system's, or none. *)

LEMMA PathsToldFacts ==
  /\ PathsTold({}) = {}
  /\ \A a, b : PathsTold(a \cup b) = PathsTold(a) \cup PathsTold(b)
  /\ \A id, p : PathsTold({<<id, p>>}) = {p}
BY DEF PathsTold

(* The cursors are shown the paths that change. *)
LEMMA Shown ==
  ASSUME NEW files, NEW told, RemoteBecomes(files, told)
  PROVE  /\ remote' = files
         /\ PathsTold(unseen)' = IF initialized \/ scan THEN PathsTold(unseen) \cup PathsTold(told)
                                                       ELSE PathsTold(unseen)
         /\ PathsTold(storeUnseen)' = IF saved THEN PathsTold(storeUnseen) \cup PathsTold(told)
                                               ELSE PathsTold(storeUnseen)
BY PathsToldFacts DEF RemoteBecomes

LEMMA ShownAt ==
  ASSUME NEW p \in Path, NEW id, NEW v, RemoteBecomes([remote EXCEPT ![p] = v], {<<id, p>>})
  PROVE  FS!RemoteBecomes(p, v)
<1>1. /\ remote' = [remote EXCEPT ![p] = v]
      /\ PathsTold(unseen)' = IF initialized \/ scan
                                THEN PathsTold(unseen) \cup PathsTold({<<id, p>>})
                                ELSE PathsTold(unseen)
      /\ PathsTold(storeUnseen)' = IF saved
                                THEN PathsTold(storeUnseen) \cup PathsTold({<<id, p>>})
                                ELSE PathsTold(storeUnseen)
  BY Shown
<1>2. PathsTold({<<id, p>>}) = {p}
  BY PathsToldFacts
<1>3. (IF scan THEN "stat" ELSE "no") # "no" <=> scan
  OBVIOUS
<1> QED
  BY <1>1, <1>2, <1>3 DEF FS!RemoteBecomes

LEMMA FingerprintKept ==
  ASSUME UNCHANGED <<initialized, saved>>
  PROVE  UNCHANGED <<FpIf(initialized /\ saved), FpIf(saved)>>
BY DEF FpIf

LEMMA OthersKeep ==
  ASSUME OpsInv, OpsInv', NEW p \in Path, OthersWrite(p) \/ OthersDelete(p)
  PROVE  FS!FsNext
<1>1. PICK v \in File \cup {None} : \E id :
        /\ v # remote[p]
        /\ RemoteBecomes([remote EXCEPT ![p] = v], {<<id, p>>})
  <2>1. CASE OthersWrite(p)
    <3> DEFINE id == IF remote[p] = None THEN stamp + 1 ELSE IdOf(remote[p])
               f  == <<id, stamp + 1>>
    <3>1. RemoteBecomes([remote EXCEPT ![p] = f], {<<id, p>>}) /\ stamp + 1 \in Ids
      BY <2>1 DEF OthersWrite, OpsInv, OpsTypeOK, Ids
    <3>2. id \in Ids
      BY <3>1, RemoteFacts, FileFacts
    <3>3. f \in File /\ f[2] = stamp + 1
      BY <3>1, <3>2, StampFacts
    <3>4. remote[p] # None => remote[p][2] <= stamp /\ remote[p][2] \in Nat
      BY RemoteFacts, FileFacts, OpsAssumption DEF OpsInv, RemoteIds, Ids
    <3>5. f # remote[p]
      BY <3>3, <3>4, RemoteFacts, StampFacts
    <3> HIDE DEF id, f
    <3> QED
      BY <3>1, <3>3, <3>5
  <2>2. CASE OthersDelete(p)
    BY <2>2 DEF OthersDelete
  <2> QED
    BY <2>1, <2>2
<1>2. UNCHANGED <<cache, touchedPaths, pendingFullPersist, initialized, scan, saved, storeCache,
                  op>>
  BY DEF OthersWrite, OthersDelete
<1>3. Executed' = Executed
  BY <1>2 DEF Executed, Stale, IdAt
<1>4. PromisedCache' = PromisedCache /\ PromisedTouched' = PromisedTouched
  BY <1>2, <1>3, PromiseStands
<1>5. FS!RemoteBecomes(p, v)
  BY <1>1, ShownAt
<1>6. UNCHANGED <<FpIf(initialized /\ saved), FpIf(saved)>>
  BY <1>2, FingerprintKept
<1>7. FS!OthersChange(p, v)
  BY <1>1, <1>2, <1>4, <1>5, <1>6 DEF FS!OthersChange
<1> QED
  BY <1>7 DEF FS!FsNext

(* Resolving, a request without effect, an answer that comes too late.     *)
LEMMA QuietKeep ==
  ASSUME OpsInv, OpsInv', NEW t \in Thread, \A u \in Thread \ {t} : op'[u] = op[u],
         t \notin Executed, t \notin Executed',
         UNCHANGED <<remote, stamp, memVars, storeVars>>
  PROVE  UNCHANGED FS!fsVars
<1>1. Executed' = Executed
  BY DEF Executed, Stale, IdAt, memVars
<1>2. PromisedCache' = PromisedCache /\ PromisedTouched' = PromisedTouched
  BY <1>1, PromiseStands DEF memVars, Executed
<1> QED
  BY <1>2, FsStutters DEF memVars

(* An operation counts as done when its request has been carried out.      *)
LEMMA CarriedOut ==
  ASSUME OpsInv, OpsInv', NEW t \in Thread, op[t].phase = "resolved", op[t].kind # "read",
         ~Stale(t), NEW result \in File \cup {None}, Answered(t, result),
         cache' = cache, touchedPaths' = touchedPaths
  PROVE  /\ \A q \in Path \ PathsOf(op[t]) :
              /\ PromisedCache'[q] = PromisedCache[q]
              /\ q \in PromisedTouched' <=> q \in PromisedTouched
         /\ \A p \in PathsOf(op[t]) :
              /\ PromisedCache'[p] = IF p = op[t].to THEN result ELSE None
              /\ p \in PromisedTouched' <=> p \in PromisedTouched \/ Deletes(t)
<1>1. Active(t) /\ op[t] \in Operation /\ PathsOf(op[t]) \subseteq Path
  BY ActiveFacts, PathsFacts
<1>2. /\ op'[t] \in Operation /\ op'[t].phase = "executed" /\ op'[t].result = result
      /\ op'[t].kind = op[t].kind /\ op'[t].path = op[t].path /\ op'[t].to = op[t].to
      /\ op'[t].expected = op[t].expected
      /\ \A u \in Thread \ {t} : op'[u] = op[u]
  BY AnsweredType DEF OpsInv, OpsTypeOK
<1>3. PathsOf(op'[t]) = PathsOf(op[t])
  BY <1>1, <1>2, PathsFacts
<1>4. \A p \in PathsOf(op[t]) : Pending(p)' = Pending(p) \cup {t}
  <2>1. t \in Executed'
    BY <1>2 DEF Executed, Stale, IdAt
  <2>2. Executed' = Executed \cup {t}
    BY <1>2, <2>1 DEF Executed, Stale, IdAt
  <2> QED
    BY <1>2, <1>3, <2>2 DEF Pending, Executed
<1>5. ASSUME NEW p \in PathsOf(op[t])
      PROVE  PromisedCache'[p] = IF p = op[t].to THEN result ELSE None
  <2>1. PromisedCache'[p] = Outcome(t, p)'
    BY <1>1, <1>4, PromiseMadeNext
  <2> QED
    BY <1>2, <2>1 DEF Outcome
<1>6. ASSUME NEW p \in PathsOf(op[t])
      PROVE  p \in PromisedTouched' <=> p \in PromisedTouched \/ Deletes(t)
  <2>1. /\ p \in PromisedTouched <=> p \in touchedPaths \/ \E u \in Pending(p) : Deletes(u)
        /\ p \in PromisedTouched'
             <=> p \in touchedPaths' \/ \E u \in Pending(p)' : op'[u].kind = "delete"
    BY <1>1, TouchedPromise, TouchedPromiseNext DEF Deletes
  <2>2. \A u \in Pending(p) : u # t /\ op'[u] = op[u]
    BY <1>2 DEF Pending, Executed
  <2> QED
    BY <1>2, <1>4, <2>1, <2>2 DEF Deletes
<1>7. \A q \in Path \ PathsOf(op[t]) :
        /\ PromisedCache'[q] = PromisedCache[q]
        /\ q \in PromisedTouched' <=> q \in PromisedTouched
  BY <1>1, <1>2, <1>3, PromisedElsewhere
<1> QED
  BY <1>5, <1>6, <1>7

LEMMA UploadKeeps ==
  ASSUME OpsInv, OpsInv', NEW t \in Thread, UploadFile(t) PROVE FS!FsNext
<1>1. PICK p \in Path : p = op[t].path
  BY ActiveFacts DEF UploadFile
<1> DEFINE id == IF remote[p] # None THEN IdOf(remote[p]) ELSE stamp + 1
           f  == <<id, stamp + 1>>
<1>2. /\ op[t].phase = "resolved" /\ op[t].kind = "write"
      /\ RemoteBecomes([remote EXCEPT ![p] = f], {<<id, p>>}) /\ Answered(t, f)
      /\ UNCHANGED <<cache, touchedPaths, pendingFullPersist, initialized, scan, saved,
                     storeCache>>
      /\ stamp + 1 \in Ids
  BY <1>1 DEF UploadFile, OpsInv, OpsTypeOK, Ids
<1>3. Active(t) /\ op[t] \in Operation /\ Resolved(t) /\ initialized /\ ~scan
  BY <1>2, ActiveFacts
<1>4. f \in File /\ f # None
  <2>1. id \in Ids
    BY <1>2, RemoteFacts, FileFacts
  <2> QED
    BY <1>2, <2>1, StampFacts
<1> HIDE DEF f, id
<1>5. op[t].to = p /\ ~Stale(t) /\ PathsOf(op[t]) = {p} /\ ~Deletes(t)
  BY <1>1, <1>2, <1>3, PathsFacts DEF Resolved, Deletes, Stale
<1>6. /\ \A q \in Path \ {p} :
           /\ PromisedCache'[q] = PromisedCache[q]
           /\ q \in PromisedTouched' <=> q \in PromisedTouched
      /\ PromisedCache'[p] = f
      /\ p \in PromisedTouched' <=> p \in PromisedTouched
  <2>1. /\ cache' = cache /\ touchedPaths' = touchedPaths /\ f \in File \cup {None}
        /\ op[t].phase = "resolved" /\ op[t].kind # "read" /\ ~Stale(t) /\ Answered(t, f)
    BY <1>2, <1>4, <1>5
  <2>2. /\ \A q \in Path \ PathsOf(op[t]) :
             /\ PromisedCache'[q] = PromisedCache[q]
             /\ q \in PromisedTouched' <=> q \in PromisedTouched
        /\ \A q \in PathsOf(op[t]) :
             /\ PromisedCache'[q] = IF q = op[t].to THEN f ELSE None
             /\ q \in PromisedTouched' <=> q \in PromisedTouched \/ Deletes(t)
    BY <2>1, CarriedOut
  <2> QED
    BY <1>2, <1>4, <1>5, <2>2
<1>7. PromisedTouched' = PromisedTouched
  BY <1>6, TouchedPromise, TouchedPromiseNext
<1>8. PromisedCache' = [PromisedCache EXCEPT ![p] = f]
  BY <1>6, PromiseDomain
<1>9. FS!RemoteBecomes(p, f)
  BY <1>2, ShownAt
<1>10. UNCHANGED <<FpIf(initialized /\ saved), FpIf(saved)>>
  BY <1>2, FingerprintKept
<1>11. FS!WriteFile(p, f)
  BY <1>2, <1>3, <1>4, <1>7, <1>8, <1>9, <1>10 DEF FS!WriteFile
<1> QED
  BY <1>4, <1>11 DEF FS!FsNext

LEMMA DeleteKeeps ==
  ASSUME OpsInv, OpsInv', NEW t \in Thread, DeleteRemote(t)
  PROVE  FS!FsNext \/ UNCHANGED FS!fsVars
<1>1. PICK p \in Path : p = op[t].path
  BY ActiveFacts DEF DeleteRemote
<1> DEFINE hit == IdAt(remote, p) = op[t].expected
<1>2. /\ op[t].phase = "resolved" /\ op[t].kind = "delete"
      /\ RemoteBecomes(IF hit THEN [remote EXCEPT ![p] = None] ELSE remote,
                       IF hit THEN {<<op[t].expected, p>>} ELSE {})
      /\ Answered(t, None)
      /\ UNCHANGED <<stamp, cache, touchedPaths, pendingFullPersist, initialized, scan,
                     saved, storeCache>>
  BY <1>1 DEF DeleteRemote
<1>3. /\ Active(t) /\ op[t] \in Operation /\ Resolved(t) /\ initialized /\ ~scan
      /\ Drift(cache, unseen) /\ op[t].expected # 0
      /\ op[t].to = p /\ PathsOf(op[t]) = {p} /\ Deletes(t)
  BY <1>1, <1>2, ActiveFacts, PathsFacts DEF Resolved, Deletes
<1>4. ~hit => /\ remote' = remote /\ unseen' = unseen /\ storeUnseen' = storeUnseen
  BY <1>2, <1>3 DEF RemoteBecomes
<1>5. CASE Stale(t)
  <2>1. ~hit
    BY <1>1, <1>3, <1>5 DEF Stale, Resolved
  <2>2. op'[t].expected = op[t].expected /\ op'[t].path = p /\ \A u \in Thread \ {t} : op'[u] = op[u]
    BY <1>1, <1>2, StampFacts, AnsweredType DEF OpsInv, OpsTypeOK
  <2>3. t \notin Executed /\ t \notin Executed'
    BY <1>1, <1>2, <1>5, <2>2 DEF Executed, Stale, IdAt
  <2> QED
    BY <1>2, <1>4, <2>1, <2>2, <2>3, QuietKeep DEF memVars, storeVars
<1>6. CASE ~Stale(t)
  <2>1. /\ \A q \in Path \ {p} :
             /\ PromisedCache'[q] = PromisedCache[q]
             /\ q \in PromisedTouched' <=> q \in PromisedTouched
        /\ PromisedCache'[p] = None
        /\ p \in PromisedTouched'
    <3>1. /\ cache' = cache /\ touchedPaths' = touchedPaths /\ None \in File \cup {None}
          /\ op[t].phase = "resolved" /\ op[t].kind # "read" /\ ~Stale(t) /\ Answered(t, None)
      BY <1>2, <1>3, <1>6
    <3>2. /\ \A q \in Path \ PathsOf(op[t]) :
               /\ PromisedCache'[q] = PromisedCache[q]
               /\ q \in PromisedTouched' <=> q \in PromisedTouched
          /\ \A q \in PathsOf(op[t]) :
               /\ PromisedCache'[q] = IF q = op[t].to THEN None ELSE None
               /\ q \in PromisedTouched' <=> q \in PromisedTouched \/ Deletes(t)
      BY <3>1, CarriedOut
    <3> QED
      BY <1>2, <1>3, <1>6, <3>2
  <2>2. PromisedTouched' = PromisedTouched \cup {p}
    BY <2>1, TouchedPromise, TouchedPromiseNext
  <2>3. PromisedCache' = [PromisedCache EXCEPT ![p] = None]
    BY <2>1, PromiseDomain
  <2>4. UNCHANGED <<FpIf(initialized /\ saved), FpIf(saved)>>
    BY <1>2, FingerprintKept
  <2>5. IdAt(cache, p) = op[t].expected /\ cache[p] # None
    BY <1>1, <1>3, <1>6 DEF Stale, IdAt
  <2>6. CASE Pending(p) = {}
    <3>1. PromisedCache[p] # None
      BY <2>5, <2>6, PromiseIdle
    <3>2. CASE hit
      <4>1. FS!RemoteBecomes(p, None)
        BY <1>2, <3>2, ShownAt
      <4>2. FS!DeleteFile(p)
        BY <1>2, <1>3, <2>2, <2>3, <2>4, <3>1, <4>1 DEF FS!DeleteFile
      <4> QED
        BY <4>2 DEF FS!FsNext
    <3>3. CASE ~hit
      <4>1. <<op[t].expected, p>> \in unseen
        BY <1>1, <1>3, <2>5, <3>3, EntryTold
      <4>2. p \in PathsTold(unseen)
        BY <4>1 DEF PathsTold
      <4>3. PathsTold(unseen)' = PathsTold(unseen) /\ PathsTold(storeUnseen)' = PathsTold(storeUnseen)
        BY <1>4, <3>3
      <4>4. FS!ReadNotFound(p)
        BY <1>2, <1>3, <1>4, <2>2, <2>3, <2>4, <3>1, <3>3, <4>2, <4>3
        DEF FS!ReadNotFound, FS!storeVars
      <4> QED
        BY <4>4 DEF FS!FsNext
    <3> QED
      BY <3>2, <3>3
  <2>7. ASSUME NEW u \in Pending(p) PROVE UNCHANGED FS!fsVars
    <3>1. u # t
      BY <1>2 DEF Pending, Executed
    <3>2. PromisedCache[p] = None /\ p \in PromisedTouched /\ ~hit
      BY <1>1, <1>3, <3>1, Alone
    <3>3. PromisedCache' = PromisedCache /\ PromisedTouched' = PromisedTouched
      BY <2>2, <2>3, <3>2, PromiseDomain
    <3> QED
      BY <1>2, <1>4, <3>2, <3>3, FsStutters DEF storeVars
  <2> QED
    BY <2>6, <2>7
<1> QED
  BY <1>5, <1>6
LEMMA MoveKeeps ==
  ASSUME OpsInv, OpsInv', NEW t \in Thread, MoveRemote(t) PROVE FS!FsNext
<1>1. PICK p \in Path, to \in Path : p = op[t].path /\ to = op[t].to
  BY ActiveFacts DEF MoveRemote
<1> DEFINE id == op[t].expected
           f  == <<id, stamp + 1>>
           told == {<<id, p>>, <<id, to>>}
<1>2. /\ op[t].phase = "resolved" /\ op[t].kind = "rename"
      /\ IdAt(remote, p) = id
      /\ RemoteBecomes([remote EXCEPT ![p] = None, ![to] = f], told) /\ Answered(t, f)
      /\ UNCHANGED <<cache, touchedPaths, pendingFullPersist, initialized, scan, saved,
                     storeCache>>
      /\ stamp + 1 \in Ids
  BY <1>1 DEF MoveRemote, IdOf, OpsInv, OpsTypeOK, Ids
<1>3. /\ Active(t) /\ op[t] \in Operation /\ Resolved(t) /\ initialized /\ ~scan
      /\ id # 0 /\ id \in Ids /\ to # p /\ PathsOf(op[t]) = {p, to} /\ ~Deletes(t) /\ ~Stale(t)
  <2>1. /\ Active(t) /\ op[t] \in Operation /\ Resolved(t) /\ initialized /\ ~scan
        /\ id \in 0..MaxStamp
    BY <1>2, ActiveFacts DEF Operation
  <2> QED
    BY <1>1, <1>2, <2>1, PathsFacts DEF Resolved, Deletes, Stale, Ids
<1>4. f \in File /\ f # None
  BY <1>2, <1>3, StampFacts
<1> HIDE DEF f
<1>5. /\ \A q \in Path \ {p, to} :
           /\ PromisedCache'[q] = PromisedCache[q]
           /\ q \in PromisedTouched' <=> q \in PromisedTouched
      /\ PromisedCache'[p] = None /\ PromisedCache'[to] = f
      /\ p \in PromisedTouched' <=> p \in PromisedTouched
      /\ to \in PromisedTouched' <=> to \in PromisedTouched
  <2>1. /\ cache' = cache /\ touchedPaths' = touchedPaths /\ f \in File \cup {None}
        /\ op[t].phase = "resolved" /\ op[t].kind # "read" /\ ~Stale(t) /\ Answered(t, f)
    BY <1>2, <1>3, <1>4
  <2>2. /\ \A q \in Path \ PathsOf(op[t]) :
             /\ PromisedCache'[q] = PromisedCache[q]
             /\ q \in PromisedTouched' <=> q \in PromisedTouched
        /\ \A q \in PathsOf(op[t]) :
             /\ PromisedCache'[q] = IF q = op[t].to THEN f ELSE None
             /\ q \in PromisedTouched' <=> q \in PromisedTouched \/ Deletes(t)
    BY <2>1, CarriedOut
  <2> QED
    BY <1>1, <1>3, <2>2
<1>6. PromisedTouched' = PromisedTouched
  BY <1>5, TouchedPromise, TouchedPromiseNext
<1>7. PromisedCache' = [PromisedCache EXCEPT ![p] = None, ![to] = f]
  BY <1>3, <1>5, PromiseDomain
<1>8. PromisedCache[p] # None
  <2>1. Pending(p) = {}
    <3>1. \A u \in Pending(p) : u # t
      BY <1>2 DEF Pending, Executed
    <3> QED
      BY <1>3, <3>1, Alone
  <2> QED
    BY <1>1, <1>3, <2>1, PromiseIdle DEF Stale, IdAt
<1>9. /\ remote' = [remote EXCEPT ![p] = None, ![to] = f]
      /\ PathsTold(unseen)' = PathsTold(unseen) \cup {p, to}
      /\ PathsTold(storeUnseen)' = IF saved THEN PathsTold(storeUnseen) \cup {p, to}
                                            ELSE PathsTold(storeUnseen)
  <2>1. PathsTold(told) = {p, to}
    BY DEF PathsTold
  <2> HIDE DEF told
  <2>2. /\ remote' = [remote EXCEPT ![p] = None, ![to] = f]
        /\ PathsTold(unseen)' = IF initialized \/ scan THEN PathsTold(unseen) \cup PathsTold(told)
                                                       ELSE PathsTold(unseen)
        /\ PathsTold(storeUnseen)' = IF saved THEN PathsTold(storeUnseen) \cup PathsTold(told)
                                               ELSE PathsTold(storeUnseen)
    BY <1>2, Shown
  <2> QED
    BY <1>3, <2>1, <2>2
<1>10. UNCHANGED <<FpIf(initialized /\ saved), FpIf(saved)>>
  BY <1>2, FingerprintKept
<1>11. FS!RenameFile(p, to, f)
  BY <1>2, <1>3, <1>4, <1>6, <1>7, <1>8, <1>9, <1>10 DEF FS!RenameFile
<1> QED
  BY <1>4, <1>11 DEF FS!FsNext
LEMMA Phase1Keeps ==
  ASSUME OpsInv, OpsInv', NEW t \in Thread, Phase1(t) PROVE UNCHANGED FS!fsVars
<1>1. PICK p \in Path, to \in Path, kind \in {"write", "delete", "read", "rename"} :
        Resolve(t, kind, p, to)
  BY DEF Phase1, ResolveWrite, ResolveDelete, ResolveRead, ResolveRename
<1>2. /\ op[t] = Idle /\ op'[t].phase = "resolved" /\ \A u \in Thread \ {t} : op'[u] = op[u]
      /\ UNCHANGED <<remote, stamp, memVars, storeVars>>
  BY <1>1 DEF Resolve, OpsInv, OpsTypeOK
<1>3. t \notin Executed /\ t \notin Executed'
  BY <1>2 DEF Executed, Idle
<1> QED
  BY <1>2, <1>3, QuietKeep

LEMMA Phase2Keeps ==
  ASSUME OpsInv, OpsInv', NEW t \in Thread, Phase2(t)
  PROVE  FS!FsNext \/ UNCHANGED FS!fsVars
<1>1. CASE DownloadFile(t) \/ RequestFails(t)
  <2>1. /\ op[t].phase = "resolved"
        /\ \/ op' = [op EXCEPT ![t] = Idle]
           \/ op[t].kind = "read" /\ Answered(t, None)
        /\ UNCHANGED <<remote, stamp, memVars, storeVars>>
    BY <1>1 DEF DownloadFile, RequestFails
  <2>2. \A u \in Thread \ {t} : op'[u] = op[u]
    BY <2>1 DEF OpsInv, OpsTypeOK, Answered
  <2>3. op'[t].phase = "idle" \/ op'[t].kind = "read"
    BY <2>1, AnsweredType DEF OpsInv, OpsTypeOK, Idle
  <2>4. t \notin Executed /\ t \notin Executed'
    BY <2>1, <2>3 DEF Executed
  <2> QED
    BY <2>1, <2>2, <2>4, QuietKeep
<1> QED
  BY <1>1, UploadKeeps, DeleteKeeps, MoveKeeps DEF Phase2

(* An outcome reaches the cache: it was promised already.                  *)
LEMMA AppliedKeeps ==
  ASSUME OpsInv, OpsInv', NEW t \in Thread, Active(t), op' = [op EXCEPT ![t] = Idle],
         \A q \in Path \ PathsOf(op[t]) : /\ cache'[q] = cache[q]
                                          /\ q \in touchedPaths' <=> q \in touchedPaths,
         Deletes(t) => cache'[op[t].path] = None
  PROVE  /\ \A q \in Path \ PathsOf(op[t]) :
              /\ PromisedCache'[q] = PromisedCache[q]
              /\ q \in PromisedTouched' <=> q \in PromisedTouched
         /\ \A p \in PathsOf(op[t]) :
              /\ PromisedCache'[p] = cache'[p]
              /\ p \in PromisedTouched' <=> p \in touchedPaths'
<1>1. /\ op'[t] = Idle /\ \A u \in Thread \ {t} : op'[u] = op[u]
      /\ op[t] \in Operation /\ PathsOf(op[t]) \subseteq Path
  BY ActiveFacts, PathsFacts DEF OpsInv, OpsTypeOK
<1>2. ASSUME NEW p \in PathsOf(op[t]), NEW u \in Pending(p)' PROVE FALSE
  <2>1. u \in Thread /\ u # t /\ op'[u] = op[u] /\ op[u].phase = "executed" /\ p \in PathsOf(op[u])
    BY <1>1, <1>2 DEF Pending, Executed, Idle
  <2>2. Active(u) /\ op[u] \in Operation /\ Resolved(u)
    BY <2>1, ActiveFacts
  <2>3. Deletes(t) /\ Deletes(u)
    BY <2>1, <2>2 DEF OpsInv, OwnPaths
  <2>4. p = op[u].path /\ p = op[t].path
    BY <1>1, <2>1, <2>2, <2>3, PathsFacts DEF Deletes
  <2>5. op[u].expected # 0 /\ IdAt(cache', op[u].path) = op[u].expected
    BY <1>2, <2>1, <2>2, <2>3 DEF Pending, Executed, Stale, Resolved, Deletes
  <2> QED
    BY <2>3, <2>4, <2>5 DEF IdAt
<1>3. \A p \in PathsOf(op[t]) : Pending(p)' = {}
  BY <1>2
<1>4. \A p \in PathsOf(op[t]) : /\ PromisedCache'[p] = cache'[p]
                                /\ p \in PromisedTouched' <=> p \in touchedPaths'
  BY <1>1, <1>3, PromiseIdleNext, TouchedPromiseNext
<1>5. \A q \in Path \ PathsOf(op[t]) :
        /\ PromisedCache'[q] = PromisedCache[q]
        /\ q \in PromisedTouched' <=> q \in PromisedTouched
  BY <1>1, PromisedElsewhere
<1> QED
  BY <1>4, <1>5
LEMMA Phase3Keeps ==
  ASSUME OpsInv, OpsInv', NEW t \in Thread, Phase3(t)
  PROVE  FS!FsNext \/ UNCHANGED FS!fsVars
<1>1. op[t].phase = "executed" /\ op' = [op EXCEPT ![t] = Idle]
  BY DEF Phase3, UpdateAfterWrite, UpdateAfterDelete, UpdateAfterRename, EvictAfterRead,
         SkipStale
<1>2. PICK p \in Path, to \in Path : p = op[t].path /\ to = op[t].to
  BY <1>1, ActiveFacts
<1>3. /\ Active(t) /\ op[t] \in Operation /\ Resolved(t) /\ Carried(t) /\ initialized /\ ~scan
      /\ op[t].result \in File \cup {None} /\ cache \in [Path -> File \cup {None}]
      /\ PathsOf(op[t]) = (IF op[t].kind = "rename" THEN {p, to} ELSE {p})
      /\ PathsOf(op[t]) \subseteq Path
  BY <1>1, <1>2, ActiveFacts, PathsFacts
<1>4. ASSUME ~Deletes(t), NEW q \in PathsOf(op[t])
      PROVE  q \in PromisedTouched <=> q \in touchedPaths
  <2>1. \A u \in Pending(q) : u = t
    BY <1>3, <1>4, Alone
  <2> QED
    BY <1>3, <1>4, <2>1, TouchedPromise
<1>5. CASE SkipStale(t)
  <2>1. t \notin Executed /\ t \notin Executed' /\ \A u \in Thread \ {t} : op'[u] = op[u]
    BY <1>1, <1>5 DEF SkipStale, Executed, Idle, OpsInv, OpsTypeOK
  <2> QED
    BY <1>5, <2>1, QuietKeep DEF SkipStale
<1>6. CASE UpdateAfterWrite(t)
  <2>1. /\ op[t].kind = "write" /\ ~Stale(t)
        /\ cache' = [cache EXCEPT ![p] = op[t].result]
        /\ UNCHANGED <<remote, unseen, touchedPaths, pendingFullPersist, initialized, scan,
                       storeVars>>
    BY <1>2, <1>6 DEF UpdateAfterWrite
  <2>2. to = p /\ PathsOf(op[t]) = {p} /\ ~Deletes(t)
    BY <1>2, <1>3, <2>1 DEF Resolved, Deletes
  <2>3. cache'[p] = op[t].result /\ \A q \in Path \ {p} : cache'[q] = cache[q]
    BY <1>3, <2>1
  <2>4. t \in Pending(p)
    BY <1>1, <2>1, <2>2 DEF Pending, Executed
  <2>5. PromisedCache[p] = op[t].result
    BY <1>2, <2>2, <2>4, PromiseMade DEF Outcome
  <2>6. /\ \A q \in Path \ {p} :
             /\ PromisedCache'[q] = PromisedCache[q]
             /\ q \in PromisedTouched' <=> q \in PromisedTouched
        /\ PromisedCache'[p] = cache'[p]
        /\ p \in PromisedTouched' <=> p \in touchedPaths
    BY <1>1, <1>3, <2>1, <2>2, <2>3, AppliedKeeps
  <2>7. PromisedCache' = PromisedCache
    BY <2>3, <2>5, <2>6, PromiseDomain
  <2>8. PromisedTouched' = PromisedTouched
    BY <1>4, <2>2, <2>6, TouchedPromise, TouchedPromiseNext
  <2> QED
    BY <2>1, <2>7, <2>8, FsStutters
<1>7. CASE UpdateAfterDelete(t)
  <2>1. /\ op[t].kind = "delete" /\ ~Stale(t)
        /\ cache' = [cache EXCEPT ![p] = None]
        /\ touchedPaths' = touchedPaths \cup {p}
        /\ UNCHANGED <<remote, unseen, pendingFullPersist, initialized, scan, storeVars>>
    BY <1>2, <1>7 DEF UpdateAfterDelete
  <2>2. to = p /\ PathsOf(op[t]) = {p} /\ Deletes(t)
    BY <1>2, <1>3, <2>1 DEF Resolved, Deletes
  <2>3. cache'[p] = None /\ \A q \in Path \ {p} : cache'[q] = cache[q]
    BY <1>3, <2>1
  <2>4. t \in Pending(p)
    BY <1>1, <2>1, <2>2 DEF Pending, Executed
  <2>5. PromisedCache[p] = None /\ p \in PromisedTouched
    <3>1. op[t].result = None
      BY <1>3, <2>1 DEF Carried
    <3> QED
      BY <2>2, <2>4, <3>1, PromiseMade, TouchedPromise DEF Outcome
  <2>6. /\ \A q \in Path \ {p} :
             /\ PromisedCache'[q] = PromisedCache[q]
             /\ q \in PromisedTouched' <=> q \in PromisedTouched
        /\ PromisedCache'[p] = None
        /\ p \in PromisedTouched'
    BY <1>1, <1>2, <1>3, <2>1, <2>2, <2>3, AppliedKeeps
  <2>7. PromisedCache' = PromisedCache
    BY <2>5, <2>6, PromiseDomain
  <2>8. PromisedTouched' = PromisedTouched
    BY <2>5, <2>6, TouchedPromise, TouchedPromiseNext
  <2> QED
    BY <2>1, <2>7, <2>8, FsStutters
<1>8. CASE UpdateAfterRename(t)
  <2>1. /\ op[t].kind = "rename" /\ ~Stale(t)
        /\ cache' = IF IdAt(cache, to) \in {0, op[t].expected}
                    THEN [cache EXCEPT ![p] = None, ![to] = op[t].result]
                    ELSE cache
        /\ UNCHANGED <<remote, unseen, touchedPaths, pendingFullPersist, initialized, scan,
                       storeVars>>
    BY <1>2, <1>8 DEF UpdateAfterRename
  <2>2. to # p /\ PathsOf(op[t]) = {p, to} /\ ~Deletes(t) /\ IdAt(cache, to) = 0
    BY <1>2, <1>3, <2>1 DEF Resolved, Deletes, IdAt
  <2>3. /\ cache'[p] = None /\ cache'[to] = op[t].result
        /\ \A q \in Path \ {p, to} : cache'[q] = cache[q]
    BY <1>3, <2>1, <2>2
  <2>4. t \in Pending(p) /\ t \in Pending(to)
    BY <1>1, <2>1, <2>2 DEF Pending, Executed
  <2>5. PromisedCache[p] = None /\ PromisedCache[to] = op[t].result
    BY <1>2, <2>2, <2>4, PromiseMade DEF Outcome
  <2>6. /\ \A q \in Path \ {p, to} :
             /\ PromisedCache'[q] = PromisedCache[q]
             /\ q \in PromisedTouched' <=> q \in PromisedTouched
        /\ \A q \in {p, to} : /\ PromisedCache'[q] = cache'[q]
                              /\ q \in PromisedTouched' <=> q \in touchedPaths
    BY <1>1, <1>3, <2>1, <2>2, <2>3, AppliedKeeps
  <2>7. PromisedCache' = PromisedCache
    BY <2>3, <2>5, <2>6, PromiseDomain
  <2>8. PromisedTouched' = PromisedTouched
    BY <1>4, <2>2, <2>6, TouchedPromise, TouchedPromiseNext
  <2> QED
    BY <2>1, <2>7, <2>8, FsStutters
<1>9. CASE EvictAfterRead(t)
  <2>1. /\ op[t].kind = "read"
        /\ cache' = [cache EXCEPT ![p] = None]
        /\ touchedPaths' = touchedPaths \cup {p}
        /\ UNCHANGED <<remote, unseen, pendingFullPersist, initialized, scan, storeVars>>
    BY <1>2, <1>9 DEF EvictAfterRead
  <2>2. PathsOf(op[t]) = {p} /\ ~Deletes(t)
    BY <1>3, <2>1 DEF Deletes
  <2>3. cache'[p] = None /\ \A q \in Path \ {p} : cache'[q] = cache[q]
    BY <1>3, <2>1
  <2>4. /\ \A q \in Path \ {p} :
             /\ PromisedCache'[q] = PromisedCache[q]
             /\ q \in PromisedTouched' <=> q \in PromisedTouched
        /\ PromisedCache'[p] = None
        /\ p \in PromisedTouched'
    BY <1>1, <1>3, <2>1, <2>2, <2>3, AppliedKeeps
  <2>5. PromisedCache[p] # None
    <3>1. Pending(p) = {}
      <4>1. \A u \in Pending(p) : u # t
        BY <2>1 DEF Pending, Executed
      <4> QED
        BY <1>3, <2>2, <4>1, Alone
    <3> QED
      BY <1>2, <1>3, <2>1, <3>1, PromiseIdle DEF Resolved, Deletes, IdAt
  <2>6. p \in PathsTold(unseen)
    <3>1. cache[p] # None
      BY <1>2, <1>3, <2>1 DEF Resolved, Deletes, IdAt
    <3>2. <<op[t].expected, p>> \in unseen
      BY <1>2, <1>3, <3>1 DEF Carried
    <3> QED
      BY <3>2 DEF PathsTold
  <2>7. PromisedCache' = [PromisedCache EXCEPT ![p] = None]
    BY <2>4, PromiseDomain
  <2>8. PromisedTouched' = PromisedTouched \cup {p}
    BY <2>4, TouchedPromise, TouchedPromiseNext
  <2>9. UNCHANGED <<FpIf(initialized /\ saved), FpIf(saved)>>
    BY <2>1, FingerprintKept DEF storeVars
  <2>10. FS!ReadNotFound(p)
    BY <1>3, <2>1, <2>5, <2>6, <2>7, <2>8, <2>9 DEF FS!ReadNotFound, FS!storeVars, storeVars
  <2> QED
    BY <2>10 DEF FS!FsNext
<1> QED
  BY <1>5, <1>6, <1>7, <1>8, <1>9 DEF Phase3
LEMMA AllIdlePromise ==
  OpsInv /\ AllIdle => PromisedCache = cache /\ PromisedTouched = touchedPaths
<1> SUFFICES ASSUME OpsInv, AllIdle
             PROVE  PromisedCache = cache /\ PromisedTouched = touchedPaths
  OBVIOUS
<1>1. Executed = {} /\ cache \in [Path -> File \cup {None}]
  BY DEF AllIdle, Executed, Idle, OpsInv, OpsTypeOK
<1>2. \A p \in Path : Pending(p) = {}
  BY <1>1 DEF Pending
<1> QED
  BY <1>1, <1>2, PromiseIdle, PromiseDomain DEF PromisedTouched

LEMMA AllIdlePromiseNext ==
  (OpsInv /\ AllIdle => PromisedCache = cache /\ PromisedTouched = touchedPaths)'
BY AllIdlePromise, PTL

(* A delta brings what the feed reports and nothing else.                  *)
LEMMA DeltaKeeps ==
  ASSUME KeptModes, OpsInv, OpsInv', FetchDelta PROVE FS!FsNext
<1> DEFINE here == {p \in Path : IdAt(remote, p) \in {e[1] : e \in unseen}}
           left == {p \in Path : IdAt(cache, p) \in {e[1] : e \in unseen}}
<1>1. /\ initialized /\ ~scan /\ AllIdle /\ AllIdle'
      /\ cache' = [p \in Path |-> IF p \in here \cup left THEN remote[p] ELSE cache[p]]
      /\ touchedPaths' = touchedPaths \cup here \cup left
      /\ unseen' = {}
      /\ UNCHANGED <<remote, pendingFullPersist, initialized, scan, storeVars>>
  BY DEF FetchDelta, Between, KeptModes, OpsInv, OpsTypeOK, AllIdle
<1>2. /\ PromisedCache = cache /\ PromisedTouched = touchedPaths
      /\ PromisedCache' = cache' /\ PromisedTouched' = touchedPaths'
  BY <1>1, AllIdlePromise, AllIdlePromiseNext
<1>3. TellsRemote(unseen) /\ Drift(cache, unseen) /\ \A e \in unseen : e[1] # 0
  BY <1>1 DEF OpsInv, CursorsTell, OpsTypeOK, Pairs, Ids
<1>4. \A p \in Path : /\ cache[p] # None => IdAt(cache, p) = IdOf(cache[p])
                      /\ remote[p] # None => IdAt(remote, p) = IdOf(remote[p])
                      /\ cache[p] = None => IdAt(cache, p) = 0
                      /\ remote[p] = None => IdAt(remote, p) = 0
  BY DEF IdAt
<1>5. \A p \in Path : p \in PathsTold(unseen) <=> \E e \in unseen : e[2] = p
  BY DEF PathsTold
<1>6. ASSUME NEW p \in here \cup left
      PROVE  p \in Path /\ p \in PathsTold(unseen) /\ (cache[p] # None \/ remote[p] # None)
  <2>1. PICK e \in unseen : e[1] = IdAt(remote, p) \/ e[1] = IdAt(cache, p)
    BY <1>6
  <2>2. p \in Path /\ (cache[p] # None \/ remote[p] # None)
    BY <1>3, <1>4, <1>6, <2>1
  <2>3. CASE cache[p] = remote[p]
    <3>1. Told(unseen, p, remote[p])
      BY <1>3, <1>4, <2>1, <2>2, <2>3 DEF TellsRemote
    <3>2. <<IdOf(remote[p]), p>> \in unseen
      BY <2>2, <2>3, <3>1 DEF Told
    <3> QED
      BY <1>5, <2>2, <3>2
  <2>4. CASE cache[p] # remote[p]
    <3>1. Told(unseen, p, cache[p]) /\ Told(unseen, p, remote[p])
      BY <1>3, <2>2, <2>4 DEF Drift
    <3>2. \E id : <<id, p>> \in unseen
      BY <2>2, <3>1 DEF Told
    <3> QED
      BY <1>5, <2>2, <3>2
  <2> QED
    BY <2>2, <2>3, <2>4
<1>7. ASSUME NEW p \in Path, p \in PathsTold(unseen), cache[p] # None \/ remote[p] # None
      PROVE  p \in here \cup left
  <2>1. Told(unseen, p, remote[p])
    BY <1>3, <1>5, <1>7 DEF TellsRemote
  <2>2. CASE remote[p] # None
    BY <1>4, <2>1, <2>2 DEF Told
  <2>3. CASE remote[p] = None
    <3>1. Told(unseen, p, cache[p])
      BY <1>3, <1>7, <2>3 DEF Drift
    <3> QED
      BY <1>4, <1>7, <2>3, <3>1 DEF Told
  <2> QED
    BY <2>2, <2>3
<1> HIDE DEF here, left
<1>8. touchedPaths' = touchedPaths \cup FS!Reported
  BY <1>1, <1>2, <1>6, <1>7 DEF FS!Reported, PathsTold, OpsInv, OpsTypeOK, Pairs
<1>9. cache' = FS!CacheWithDelta(PathsTold(unseen))
  <2>1. \A p \in Path : p \in here \cup left => p \in PathsTold(unseen)
    BY <1>6
  <2>2. \A p \in Path : p \in PathsTold(unseen) /\ p \notin here \cup left => cache[p] = remote[p]
    BY <1>7
  <2> QED
    BY <1>1, <1>2, <2>1, <2>2 DEF FS!CacheWithDelta
<1>10. UNCHANGED <<FpIf(initialized /\ saved), FpIf(saved), PathsTold(storeUnseen)>>
  BY <1>1, FingerprintKept DEF storeVars
<1>11. PathsTold(unseen)' = {}
  BY <1>1, PathsToldFacts
<1>12. FS!FetchDelta
  BY <1>1, <1>2, <1>8, <1>9, <1>10, <1>11 DEF FS!FetchDelta, FS!storeVars, storeVars
<1> QED
  BY <1>12 DEF FS!FsNext
LEMMA MutexKeeps ==
  ASSUME KeptModes, OpsInv, OpsInv',
         \/ BeginFullScan \/ EndFullScan \/ LoadFromCache \/ CommitCheckpoint \/ Restart
  PROVE  FS!FsNext
<1>1. /\ remote \in [Path -> File \cup {None}] /\ cache \in [Path -> File \cup {None}]
      /\ remote = [p \in Path |-> remote[p]]
  BY DEF OpsInv, OpsTypeOK
<1>2. PathsTold({}) = {} /\ NoFiles = FS!NoFiles
  BY PathsToldFacts DEF NoFiles, FS!NoFiles
<1>3. CASE BeginFullScan
  <2>1. /\ ~initialized /\ ~saved /\ ~scan /\ scan' /\ AllIdle /\ AllIdle'
        /\ cache = NoFiles /\ unseen = {}
        /\ UNCHANGED <<remote, cache, unseen, touchedPaths, pendingFullPersist, initialized,
                       storeVars>>
    BY <1>3 DEF BeginFullScan, OpsInv, MemoryStates, AllIdle
  <2>2. /\ PromisedCache = cache /\ PromisedTouched = touchedPaths
        /\ PromisedCache' = cache' /\ PromisedTouched' = touchedPaths'
    BY <2>1, AllIdlePromise, AllIdlePromiseNext
  <2>3. UNCHANGED <<FpIf(initialized /\ saved), FpIf(saved)>>
    BY <2>1, FingerprintKept DEF storeVars
  <2>4. FS!BeginFullScan("stat")
    BY <1>2, <2>1, <2>2, <2>3 DEF FS!BeginFullScan, FS!storeVars, storeVars
  <2> QED
    BY <2>4 DEF FS!FsNext, FS!ScanKinds
<1>4. CASE EndFullScan
  <2>1. /\ scan /\ ~scan' /\ ~saved /\ ~initialized /\ initialized' /\ AllIdle /\ AllIdle'
        /\ cache' = remote /\ touchedPaths' = {} /\ pendingFullPersist'
        /\ pendingFullPersist' = TRUE /\ initialized' = TRUE
        /\ UNCHANGED <<remote, unseen, storeVars>>
    BY <1>4 DEF EndFullScan, OpsInv, MemoryStates, AllIdle
  <2>2. PromisedCache' = cache' /\ PromisedTouched' = touchedPaths'
    BY <2>1, AllIdlePromiseNext
  <2>3. UNCHANGED <<FpIf(initialized /\ saved), FpIf(saved)>>
    BY <2>1 DEF FpIf, storeVars
  <2>4. FS!EndFullScan
    BY <2>1, <2>2, <2>3 DEF FS!EndFullScan, FS!storeVars, storeVars
  <2> QED
    BY <2>4 DEF FS!FsNext
<1>5. CASE LoadFromCache
  <2>1. /\ ~initialized /\ saved /\ ~scan /\ initialized' = TRUE /\ AllIdle /\ AllIdle'
        /\ cache' = storeCache /\ unseen' = storeUnseen
        /\ UNCHANGED <<remote, touchedPaths, pendingFullPersist, scan, storeVars>>
    BY <1>5 DEF LoadFromCache, OpsInv, MemoryStates, AllIdle
  <2>2. /\ PromisedTouched = touchedPaths
        /\ PromisedCache' = cache' /\ PromisedTouched' = touchedPaths'
    BY <2>1, AllIdlePromise, AllIdlePromiseNext
  <2>3. FpIf(initialized /\ saved)' = FpIf(saved) /\ FpIf(saved)' = FpIf(saved)
    BY <2>1 DEF FpIf, storeVars
  <2>4. FS!LoadFromCache
    BY <2>1, <2>2, <2>3 DEF FS!LoadFromCache, FS!storeVars, storeVars
  <2> QED
    BY <2>4 DEF FS!FsNext
<1>6. CASE CommitCheckpoint
  <2>1. /\ initialized /\ AllIdle /\ AllIdle' /\ ~scan /\ saved' = TRUE
        /\ storeCache' = [p \in Path |-> IF pendingFullPersist \/ p \in touchedPaths
                                         THEN cache[p] ELSE storeCache[p]]
        /\ storeUnseen' = unseen
        /\ pendingFullPersist' = FALSE /\ touchedPaths' = {}
        /\ UNCHANGED <<remote, cache, unseen, initialized, scan>>
    BY <1>6 DEF CommitCheckpoint, AllIdle
  <2>2. /\ PromisedCache = cache /\ PromisedTouched = touchedPaths
        /\ PromisedCache' = cache' /\ PromisedTouched' = touchedPaths'
    BY <2>1, AllIdlePromise, AllIdlePromiseNext
  <2>3. /\ FpIf(initialized /\ saved)' = Fp /\ FpIf(saved)' = Fp /\ Fp \in Fingerprint
    BY <2>1, OpsAssumption DEF FpIf, Fp
  <2>4. storeCache' = FS!CacheToStore
    BY <2>1, <2>2 DEF FS!CacheToStore
  <2>5. FS!CommitCheckpoint(Fp)
    BY <2>1, <2>2, <2>3, <2>4 DEF FS!CommitCheckpoint
  <2> QED
    BY <2>3, <2>5 DEF FS!FsNext
<1>7. CASE Restart
  <2>1. /\ initialized' = FALSE /\ scan' = FALSE /\ AllIdle'
        /\ cache' = NoFiles /\ unseen' = {} /\ touchedPaths' = {}
        /\ pendingFullPersist' = FALSE
        /\ UNCHANGED <<remote, storeVars>>
    BY <1>7 DEF Restart, AllIdle
  <2>2. PromisedCache' = cache' /\ PromisedTouched' = touchedPaths'
    BY <2>1, AllIdlePromiseNext
  <2>3. FpIf(initialized /\ saved)' = NoFingerprint /\ FpIf(saved)' = FpIf(saved)
    BY <2>1 DEF FpIf, storeVars
  <2>4. FS!Restart
    BY <1>2, <2>1, <2>2, <2>3 DEF FS!Restart, FS!FreshMemory, FS!storeVars, storeVars
  <2> QED
    BY <2>4 DEF FS!FsNext
<1> QED
  BY <1>3, <1>4, <1>5, <1>6, <1>7

LEMMA StepKeeps ==
  ASSUME KeptModes, OpsInv, OpsInv', [Next]_vars PROVE [FS!FsNext]_FS!fsVars
<1>1. CASE UNCHANGED vars
  <2>1. \A t \in Thread : op'[t] = op[t]
    BY <1>1 DEF vars
  <2>2. Executed' = Executed
    BY <1>1 DEF vars, memVars, Executed, Stale, IdAt
  <2>3. PromisedCache' = PromisedCache /\ PromisedTouched' = PromisedTouched
    BY <1>1, <2>1, <2>2, PromiseStands DEF vars, memVars, Executed
  <2> QED
    BY <1>1, <2>3, FsStutters DEF vars, memVars
<1>2. CASE Next
  <2>1. ASSUME NEW p \in Path, OthersWrite(p) \/ OthersDelete(p) PROVE FS!FsNext
    BY <2>1, OthersKeep
  <2>2. ASSUME NEW t \in Thread, Phase1(t) \/ Phase2(t) \/ Phase3(t)
        PROVE  FS!FsNext \/ UNCHANGED FS!fsVars
    BY <2>2, Phase1Keeps, Phase2Keeps, Phase3Keeps
  <2> QED
    BY <1>2, <2>1, <2>2, MutexKeeps, DeltaKeeps DEF Next
<1> QED
  BY <1>1, <1>2

LEMMA InitKeeps == Init => FS!FsInit
<1> SUFFICES ASSUME Init PROVE FS!FsInit
  OBVIOUS
<1>1. AllIdle /\ OpsInv
  BY OpsInit DEF Init, AllIdle
<1>2. PromisedCache = cache /\ PromisedTouched = touchedPaths
  BY <1>1, AllIdlePromise
<1>3. remote \in [Path -> File \cup {None}]
  BY <1>1 DEF OpsInv, OpsTypeOK
<1>4. FpIf(initialized /\ saved) = NoFingerprint /\ FpIf(saved) = NoFingerprint
  BY DEF Init, FpIf
<1> QED
  BY <1>2, <1>3, <1>4, PathsToldFacts DEF Init, FS!FsInit, FS!NoFiles, NoFiles

(* PromiseKept: however the phases of pooled operations, other clients,    *)
(* deltas, commits and restarts interleave, each mutation takes effect at  *)
(* one moment, and callers see the caching file system of CachingRemoteFs. *)
THEOREM MutationsAreAtomic == ASSUME KeptModes PROVE Spec => PromiseKept
<1>1. KeptModes /\ OpsInv /\ OpsInv' /\ [Next]_vars => [FS!FsNext]_FS!fsVars
  BY StepKeeps
<1> QED
  BY <1>1, InitKeeps, OpsInvariant, PTL DEF Spec, PromiseKept, FS!FsSpec
(* StoreKept: where nothing is renamed, the committed map is neither ahead *)
(* of the committed cursor nor behind it, so that what a restart loads     *)
(* replays to the truth (remote-fs.ts commitCache, loadFromCache).         *)
THEOREM StoreKeepsUp == ASSUME KeptModes PROVE Spec => [](mode = "restarts" => StoreKept)
<1>1. ASSUME OpsInv, mode = "restarts" PROVE StoreKept
  <2> SUFFICES ASSUME saved, NEW p \in Path, storeCache[p] # remote[p]
               PROVE  p \in PathsTold(storeUnseen)
    BY DEF StoreKept, FS!StoreFaithful
  <2>1. Told(storeUnseen, p, storeCache[p]) /\ Told(storeUnseen, p, remote[p])
    BY <1>1 DEF OpsInv, StoreTells, Drift
  <2>2. \E id : <<id, p>> \in storeUnseen
    BY <2>1 DEF Told
  <2> QED
    BY <2>2 DEF PathsTold
<1> QED
  BY <1>1, OpsInvariant, PTL
===============================================================================
