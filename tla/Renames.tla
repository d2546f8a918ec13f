------------------------------ MODULE Renames ------------------------------
(***************************************************************************)
(* Renames, on either side, and what a sync cycle makes of them: the       *)
(* tracker of vault events (local-tracker.ts), detection at its three      *)
(* temperatures (change-detector.ts), the plan and the rename optimisers   *)
(* that rewrite it (rename-optimizer.ts, optimize-local-renames.ts,        *)
(* optimize-remote-renames.ts), its execution phase by phase               *)
(* (plan-executor.ts), the records (state-committer.ts, state.ts) and the  *)
(* pruning of empty folders (prune-empty-folders.ts).                      *)
(*                                                                         *)
(* A tree has folders and, in them, files.  A content stands for the bytes, *)
(* the mtime and the remote checksum, all of which a rename keeps; every   *)
(* edit makes a new one, and all have the same size.  A cycle is planned in *)
(* one step and executed in another; the user may act in between (see       *)
(* Fragile), other devices between cycles.  Guards against mass deletion   *)
(* and the order of single requests are the business of SyncCycle and      *)
(* Transfer.                                                               *)
(***************************************************************************)
EXTENDS Naturals, Sequences, FiniteSets, FiniteSetsExt, SequencesExt

CONSTANTS Folders, Names,
          Absent, Dir,     \* nothing at a path; a folder
          None,
          PathOrder,       \* all paths, in one of the orders a plan may list them in
          InitTrees,       \* the trees the two sides may start with, in sync
          MaxOps,          \* how often users and devices act
          MaxFaults,       \* how many actions fail for no reason of their own
          Modes            \* what else may happen:
  (* "editsRenamed"  other devices edit a file that they rename in the same delta
     "editsDuring"   the user acts on what the cycle renames, resolves or deletes
     "movesBack"     a file comes back to where a failed cycle left its record
     "foldersReused" a folder takes the name of one deleted since the last sync
     "recreates"     a file that the cycle deletes is written anew meanwhile     *)

ASSUME RenamesAssumption ==
  /\ MaxOps \in Nat /\ MaxFaults \in Nat
  /\ Modes \subseteq {"editsRenamed", "editsDuring", "movesBack",
                      "foldersReused", "recreates"}

FolderPaths == {<<f>> : f \in Folders}
FilePaths   == Folders \X Names
Paths       == FolderPaths \cup FilePaths

IsFolder(p)        == Len(p) = 1
Folder(p)          == <<p[1]>>
Under(p, folder)   == ~IsFolder(p) /\ Folder(p) = folder
Subtree(p)         == {q \in Paths : q = p \/ Under(q, p)}
Carried(q, to)     == to \o Tail(q)     \* where q goes when its folder becomes `to`

VARIABLES
  local, remote,     \* the two trees
  rec,               \* the sync records
  kept,              \* the contents of `.conflict` copies
  dirtyPaths, renamePairs, folderRenamePairs, initialized,   \* LocalChangeTracker
  told, remoteRenamePairs,   \* the delta that the next cycle is given
  recoverViaColdScan,
  stage, cycle,      \* "idle" or "planned"; the plan of the cycle under way
  live,              \* the contents that somebody would miss
  tick, ops, faults

tracker == <<dirtyPaths, renamePairs, folderRenamePairs, initialized>>
vars == <<local, remote, rec, kept, tracker, told, remoteRenamePairs, recoverViaColdScan,
          stage, cycle, live, tick, ops, faults>>

NoRecord    == [l |-> Absent, r |-> Absent]
Synced(v)   == [l |-> v, r |-> v]
NoCycle     == [plan |-> {}]

Init == /\ local \in InitTrees /\ remote = local
        /\ rec = [p \in Paths |-> Synced(local[p])]
        /\ kept = {}
        /\ dirtyPaths = {} /\ renamePairs = {} /\ folderRenamePairs = {}
        /\ initialized \in BOOLEAN
        /\ told = {} /\ remoteRenamePairs = {}
        /\ recoverViaColdScan = FALSE
        /\ stage = "idle" /\ cycle = NoCycle
        /\ live = {local[p] : p \in FilePaths} \ {Absent}
        /\ tick = Cardinality(live) /\ ops = 0 /\ faults = 0

-----------------------------------------------------------------------------
(* Trees. *)

Put(tree, p, v) == [tree EXCEPT ![p] = v, ![Folder(p)] = Dir]
Drop(tree, p)   == [q \in Paths |-> IF q \in Subtree(p) THEN Absent ELSE tree[q]]
Move(tree, from, to) ==
  IF IsFolder(from)
  THEN [q \in Paths |-> IF Folder(q) = from THEN Absent
                        ELSE IF Folder(q) = to THEN tree[Carried(q, from)] ELSE tree[q]]
  ELSE Put([tree EXCEPT ![from] = Absent], to, tree[from])

(* The tracker.  A pair is a new path and the old one it came from. *)

Pair(new, old) == [new |-> new, old |-> old]

(* markRenamed and markFolderRenamed: a chain becomes one pair, a rename   *)
(* back to where the file was becomes none.                                *)
Resolved(pairs, old) ==
  IF \E c \in pairs : c.new = old THEN (CHOOSE c \in pairs : c.new = old).old ELSE old
MarkRenamed(pairs, new, old) ==
  LET rest == {c \in pairs : c.new # old}
  IN  IF Resolved(pairs, old) = new THEN rest
      ELSE {c \in rest : c.new # new} \cup {Pair(new, Resolved(pairs, old))}

(* deleteMatching *)
DeleteMatching(pairs, captured) == pairs \ captured

-----------------------------------------------------------------------------
(* Detection and the plain plan. *)

Recorded(p)      == rec[p] # NoRecord
LocalChanged(p)  == local[p] \notin {Absent, Dir, rec[p].l}
RemoteChanged(p) == remote[p] \notin {Absent, Dir, rec[p].r}

(* decideAction *)
Decide(p) ==
  LET here == local[p] # Absent
      there == remote[p] # Absent
  IN  CASE Recorded(p) /\ here /\ there ->
             (CASE LocalChanged(p) /\ RemoteChanged(p) -> "conflict"
                [] LocalChanged(p) /\ ~RemoteChanged(p) -> "push"
                [] ~LocalChanged(p) /\ RemoteChanged(p) -> "pull"
                [] OTHER -> None)
        [] Recorded(p) /\ here /\ ~there -> IF LocalChanged(p) THEN "conflict" ELSE "delete_local"
        [] Recorded(p) /\ ~here /\ there -> IF RemoteChanged(p) THEN "conflict" ELSE "delete_remote"
        [] Recorded(p) /\ ~here /\ ~there -> "cleanup"
        [] ~Recorded(p) /\ here /\ there -> IF local[p] = remote[p] THEN "match" ELSE "conflict"
        [] ~Recorded(p) /\ here /\ ~there -> "push"
        [] ~Recorded(p) /\ ~here /\ there -> "pull"
        [] OTHER -> None

(* Mutant: a failed cycle is followed by one like any other. *)
TemperatureUnrecovered ==
  IF initialized /\ dirtyPaths # {} /\ folderRenamePairs = {} THEN "hot"
  ELSE IF \A p \in Paths : ~Recorded(p) THEN "cold" ELSE "warm"

(* Folder renames and a tracker that is not yet filled want a listing. *)
Temperature ==
  IF /\ ~recoverViaColdScan /\ initialized /\ dirtyPaths # {} /\ folderRenamePairs = {}
  THEN "hot"
  ELSE IF recoverViaColdScan \/ \A p \in Paths : ~Recorded(p) THEN "cold" ELSE "warm"

PairPaths(pairs) == {c.new : c \in pairs} \cup {c.old : c \in pairs}

(* collectHot, collectWarm, collectCold *)
Candidates ==
  CASE Temperature = "hot"  -> dirtyPaths \cup told
    [] Temperature = "warm" -> {p \in Paths : local[p] # Absent /\ (~Recorded(p) \/ LocalChanged(p))}
                               \cup {p \in Paths : local[p] = Absent /\ Recorded(p)}
                               \cup told \cup PairPaths(renamePairs)
    [] OTHER -> Paths

(* The files whose hash is known: all that were stated, and those that     *)
(* enrichHashesForRenames reads because a rename might have made them.     *)
Hashed ==
  IF Temperature = "hot" THEN Paths
  ELSE {p \in FilePaths :
          \/ \E c \in renamePairs : c.new = p
          \/ \E c \in folderRenamePairs : Under(p, c.new)
          \/ ~Recorded(p) /\ \E q \in Candidates \cap FilePaths : local[q] = Absent /\ Recorded(q)}

ActionOn(p, kind) ==
  [action |-> kind, path |-> p, oldPath |-> None, local |-> local[p], remote |-> remote[p],
   hasContentChange |-> FALSE, descendants |-> {}]

(* planSync *)
PlainPlan == {ActionOn(p, Decide(p)) : p \in {q \in Candidates : Decide(q) # None}}

-----------------------------------------------------------------------------
(* The optimisers.  A plan has at most one action per path until they have *)
(* been at it; `order` is the order in which the plan lists the paths.     *)

Is(plan, kind, p) == \E a \in plan : a.action = kind /\ a.path = p
Has(plan, kind, p) == CHOOSE a \in plan : a.action = kind /\ a.path = p

(* replaceConsumed *)
ReplaceConsumed(plan, consumed, renames) == {a \in plan : a.path \notin consumed} \cup renames

Renaming(kind, new, old, mine, theirs) ==
  [action |-> kind, path |-> new, oldPath |-> old, local |-> mine, remote |-> theirs,
   hasContentChange |-> FALSE, descendants |-> {}]
FolderRenaming(kind, c, moved) ==
  [Renaming(kind, c.new, c.old, Absent, Absent) EXCEPT !.descendants = moved]

(* isValidLocalRename *)
IsValidLocalRename(plan, c) ==
  /\ Is(plan, "delete_remote", c.old) /\ Is(plan, "push", c.new)
  /\ c.new \in Hashed /\ local[c.new] = rec[c.old].l

(* The pairs below a renamed folder: known ones, and deletions in the old. *)
ChildPairs(plan, c, pairs) ==
  {Pair(Carried(q, c.new), q) :
     q \in {p \in FilePaths : Under(p, c.old) /\ (\/ Pair(Carried(p, c.new), p) \in pairs
                                                   \/ Is(plan, "delete_remote", p))}}

(* coalesceLocalFolderRenames: all children purely renamed, no other file  *)
(* uploaded into the new folder.                                           *)
Coalesces(plan, c, pairs) ==
  LET children == ChildPairs(plan, c, pairs)
  IN  /\ children # {}
      /\ \A a \in plan : a.action = "push" /\ Under(a.path, c.new) => \E d \in children : d.new = a.path
      /\ \A d \in children : IsValidLocalRename(plan, d)
CoalesceLocalFolderRenames(plan, folderPairs, pairs) ==
  LET whole    == {c \in folderPairs : Coalesces(plan, c, pairs)}
      absorbed == UNION {ChildPairs(plan, c, pairs) : c \in whole}
      rest     == {c \in pairs : \A d \in absorbed : d.new # c.new}
      found    == {d \in UNION {ChildPairs(plan, c, {}) : c \in folderPairs \ whole} :
                     /\ {d.new, d.old} \cap PairPaths(absorbed) = {}
                     /\ \A c \in rest : c.new # d.new}
  IN  [plan |-> ReplaceConsumed(plan, PairPaths(absorbed),
                  {FolderRenaming("rename_remote", c, ChildPairs(plan, c, pairs)) : c \in whole}),
       pairs |-> rest \cup found]

(* Mutant: the pair is taken for a rename of what is uploaded anyway. *)
OptimizeLocalFileRenamesPure(plan, pairs) ==
  LET renamed == {c \in pairs : /\ Is(plan, "delete_remote", c.old) /\ Is(plan, "push", c.new)
                                /\ c.new \in Hashed}
  IN  ReplaceConsumed(plan, PairPaths(renamed),
        {Renaming("rename_remote", c.new, c.old, local[c.new], remote[c.old]) : c \in renamed})

(* optimizeLocalFileRenames: with another content the file is moved, then  *)
(* written.                                                                *)
OptimizeLocalFileRenames(plan, pairs) ==
  LET renamed == {c \in pairs : /\ Is(plan, "delete_remote", c.old) /\ Is(plan, "push", c.new)
                                /\ c.new \in Hashed}
  IN  ReplaceConsumed(plan, PairPaths(renamed),
        {[Renaming("rename_remote", c.new, c.old, local[c.new], remote[c.old])
            EXCEPT !.hasContentChange = local[c.new] # rec[c.old].l] : c \in renamed})

(* optimizeHeuristicRenames, one deletion after the other: of the uploads  *)
(* with the content of the deleted file the one with its name, or the only *)
(* one.                                                                    *)
BestMatch(available, p) ==
  IF \E q \in available : q[2] = p[2]
  THEN {q \in available : q[2] = p[2]}
  ELSE IF Cardinality(available) = 1 THEN available ELSE {}
MatchDeletion(plan, order, pairs, p) ==
  LET available == {q \in FilePaths \cap Hashed : /\ Is(plan, "push", q) /\ local[q] = rec[p].l
                                                  /\ \A c \in pairs : c.new # q}
      best == SelectSeq(order, LAMBDA q : q \in BestMatch(available, p))
  IN  IF best = <<>> THEN pairs ELSE pairs \cup {Pair(Head(best), p)}
OptimizeHeuristicRenames(plan, order) ==
  LET deleted == SelectSeq(order, LAMBDA p : ~IsFolder(p) /\ Is(plan, "delete_remote", p))
      pairs[n \in 0..Len(deleted)] ==
        IF n = 0 THEN {} ELSE MatchDeletion(plan, order, pairs[n - 1], deleted[n])
      renamed == pairs[Len(deleted)]
  IN  ReplaceConsumed(plan, PairPaths(renamed),
        {Renaming("rename_remote", c.new, c.old, local[c.new], remote[c.old]) : c \in renamed})

(* coalesceRemoteFolderRenames: unless an action finds something of the    *)
(* vault in the new folder.  Children that are not pulled move as well.    *)
CoalesceRemoteFolderRenames(plan, pairs) ==
  LET moved(c) == {Pair(Carried(a.path, c.new), a.path) :
                     a \in {b \in plan : b.action = "delete_local" /\ Under(b.path, c.old)}}
      whole == {c \in pairs : /\ IsFolder(c.new) /\ moved(c) # {}
                              /\ \A a \in plan : Under(a.path, c.new) => a.local = Absent}
      consumed == UNION {PairPaths(moved(c)) : c \in whole}
  IN  [plan |-> ReplaceConsumed(plan, consumed,
                  {FolderRenaming("rename_local", c, moved(c)) : c \in whole}),
       pairs |-> {c \in pairs : ~IsFolder(c.new) /\ {c.new, c.old} \cap consumed = {}}]

(* optimizeRemoteFileRenames: "no hash verification is needed". *)
OptimizeRemoteFileRenames(plan, pairs) ==
  LET renamed == {c \in pairs : Is(plan, "delete_local", c.old) /\ Is(plan, "pull", c.new)}
  IN  ReplaceConsumed(plan, PairPaths(renamed),
        {Renaming("rename_local", c.new, c.old, Has(plan, "delete_local", c.old).local,
                  Has(plan, "pull", c.new).remote) : c \in renamed})

(* refinePlan; a cold scan comes without a delta. *)
RefinePlan(plan, order) ==
  LET folders == CoalesceLocalFolderRenames(plan, folderRenamePairs, renamePairs)
      mine    == OptimizeHeuristicRenames(OptimizeLocalFileRenames(folders.plan, folders.pairs), order)
      theirs  == CoalesceRemoteFolderRenames(mine,
                   IF Temperature = "cold" THEN {} ELSE remoteRenamePairs)
  IN  OptimizeRemoteFileRenames(theirs.plan, theirs.pairs)

Deletions == {"delete_local", "delete_remote"}

(* Mutant: folders are deleted whatever is still to be kept in them. *)
ProtectNoFolders(plan) == plan

(* protectFoldersWithSurvivors *)
ProtectFoldersWithSurvivors(plan) ==
  LET survivors == {a.path : a \in {b \in plan : b.action \notin Deletions \cup {"cleanup"}}}
  IN  {a \in plan : a.action \in Deletions /\ IsFolder(a.path)
                      => \A p \in survivors : ~Under(p, a.path)}

-----------------------------------------------------------------------------
(* Execution.  w is what the cycle has done so far: the trees, the records, *)
(* the copies, and which actions have succeeded and failed.                *)

World == [local |-> local, remote |-> remote, rec |-> rec, kept |-> kept,
          succeeded |-> {}, failed |-> {}]

Done(a, w) == [w EXCEPT !.succeeded = @ \cup {a}]
Fail(a, w) == [w EXCEPT !.failed = @ \cup {a}]
Record(w, p, r) == [w EXCEPT !.rec[p] = r]

Push(a, w) ==
  LET p == a.path
  IN  IF IsFolder(p)
      THEN Done(a, Record([w EXCEPT !.remote = Put(@, p, Dir)], p, Synced(Dir)))
      ELSE IF w.local[p] = Absent THEN Fail(a, w)
      ELSE Done(a, Record([w EXCEPT !.remote = Put(@, p, w.local[p])], p, Synced(w.local[p])))

(* Nothing that has changed since the plan is overwritten. *)
Pull(a, w) ==
  LET p == a.path
  IN  IF IsFolder(p)
      THEN Done(a, Record([w EXCEPT !.local = Put(@, p, Dir)], p, Synced(Dir)))
      ELSE IF w.local[p] # a.local THEN Fail(a, w)
      ELSE Done(a, Record([w EXCEPT !.local = Put(@, p, w.remote[p])], p, Synced(w.remote[p])))

(* A conflict, under the strategy "duplicate"; a side that is gone gets the *)
(* other's file back.                                                      *)
Resolve(a, w) ==
  LET p    == a.path
      mine == w.local[p]
      theirs == w.remote[p]
  IN  IF a.local = Absent
      THEN Done(a, Record([w EXCEPT !.local = Put(@, p, theirs)], p, Synced(theirs)))
      ELSE IF mine = Absent THEN Fail(a, w)
      ELSE Done(a, Record([w EXCEPT !.remote = Put(@, p, mine),
                                    !.kept = @ \cup ({theirs} \ {Absent, mine})],
                          p, Synced(mine)))

(* rewritePaths: all are read before any is written. *)
Rewrite(records, pairs) ==
  [p \in Paths |->
     IF \E c \in pairs : c.new = p /\ records[c.old] # NoRecord
     THEN records[(CHOOSE c \in pairs : c.new = p).old]
     ELSE IF \E c \in pairs : c.old = p THEN NoRecord ELSE records[p]]

Committed(a, w, r) ==
  Done(a, IF IsFolder(a.path)
          THEN [w EXCEPT !.rec = Rewrite(@, a.descendants \cup {Pair(a.path, a.oldPath)})]
          ELSE Record(Record(w, a.oldPath, NoRecord), a.path, r))

(* A rename needs its source and a free destination. *)
RenameRemote(a, w) ==
  LET p == a.path
      moved == [w EXCEPT !.remote = Move(@, a.oldPath, p)]
  IN  IF w.remote[a.oldPath] = Absent \/ w.remote[p] # Absent THEN Fail(a, w)
      ELSE IF ~a.hasContentChange
      THEN Committed(a, moved, [l |-> IF w.local[p] = Absent THEN a.local ELSE w.local[p],
                                r |-> moved.remote[p]])
      ELSE IF w.local[p] = Absent THEN Fail(a, moved)
      ELSE Committed(a, [moved EXCEPT !.remote = Put(@, p, w.local[p])], Synced(w.local[p]))

RenameLocal(a, w) ==
  LET p == a.path
      moved == [w EXCEPT !.local = Move(@, a.oldPath, p)]
  IN  IF w.local[a.oldPath] = Absent \/ w.local[p] # Absent THEN Fail(a, w)
      ELSE Committed(a, moved, [l |-> moved.local[p], r |-> a.remote])

Delete(a, w) ==
  Done(a, Record(IF a.action = "delete_local" THEN [w EXCEPT !.local = Drop(@, a.path)]
                                              ELSE [w EXCEPT !.remote = Drop(@, a.path)],
                 a.path, NoRecord))

(* executeAction; `broken` are the actions whose request fails. *)
Execute(a, w, broken) ==
  IF a \in broken THEN Fail(a, w)
  ELSE CASE a.action = "push"          -> Push(a, w)
         [] a.action = "pull"          -> Pull(a, w)
         [] a.action = "conflict"      -> Resolve(a, w)
         [] a.action = "match"         -> Done(a, Record(w, a.path, [l |-> a.local, r |-> a.remote]))
         [] a.action = "cleanup"       -> Done(a, Record(w, a.path, NoRecord))
         [] a.action = "rename_remote" -> RenameRemote(a, w)
         [] a.action = "rename_local"  -> RenameLocal(a, w)
         [] OTHER                      -> Delete(a, w)

(* The phases: transfers with what only records; conflicts; renames; then  *)
(* deletions.  The two lanes of the last two do not meet.                  *)
Phases == <<"push", "pull", "match", "cleanup", "conflict",
            "rename_remote", "rename_local", "delete_remote", "delete_local">>
Schedule(plan, order) ==
  LET n == Len(order)
  IN  SelectSeq([i \in 1..(Len(Phases) * n) |-> <<Phases[((i - 1) \div n) + 1],
                                                  order[((i - 1) % n) + 1]>>],
                LAMBDA s : Is(plan, s[1], s[2]))

(* pruneEmptyParentFolders *)
Vacated(w, kinds) ==
  {Folder(p) : p \in {IF a.oldPath = None THEN a.path ELSE a.oldPath :
                        a \in {b \in w.succeeded : b.action \in kinds}} \cap FilePaths}
Empty(tree, folder) == \A q \in Paths : Under(q, folder) => tree[q] = Absent
Pruned(tree, vacated) ==
  [p \in Paths |-> IF p \in vacated /\ Empty(tree, p) THEN Absent ELSE tree[p]]
Prune(w) ==
  [w EXCEPT !.local  = Pruned(@, Vacated(w, {"delete_local", "rename_local"})),
            !.remote = Pruned(@, Vacated(w, {"delete_remote", "rename_remote"}))]

(* executePlan *)
ExecutePlan(plan, order, broken) ==
  LET steps == Schedule(plan, order)
      world[n \in 0..Len(steps)] ==
        IF n = 0 THEN World
        ELSE Execute(Has(plan, steps[n][1], steps[n][2]), world[n - 1], broken)
  IN  Prune(world[Len(steps)])

-----------------------------------------------------------------------------
(* Actions. *)

Orders == {PathOrder, Reverse(PathOrder)}

(* The snapshot of the tracker, detection, the plan. *)
StartCycle ==
  /\ stage = "idle" /\ stage' = "planned"
  /\ \E order \in Orders :
       cycle' = [order |-> order, plain |-> PlainPlan,
                 plan |-> ProtectFoldersWithSurvivors(RefinePlan(PlainPlan, order)),
                 dirtyPaths |-> dirtyPaths, renamePairs |-> renamePairs,
                 folderRenamePairs |-> folderRenamePairs]
  /\ told' = {} /\ remoteRenamePairs' = {}
  /\ UNCHANGED <<local, remote, rec, kept, tracker, recoverViaColdScan, live, tick, ops, faults>>

(* What the vault tells the tracker of the cycle's own writes, and the     *)
(* remote the next delta.                                                  *)
Echoed(w) == {p \in Paths : w.local[p] # local[p]}
OwnRenames(w, folders) ==
  {a \in w.succeeded : a.action = "rename_local" /\ IsFolder(a.path) = folders}
MarkOwn(pairs, w, folders) ==
  FoldSet(LAMBDA a, ps : MarkRenamed(ps, a.path, a.oldPath), pairs, OwnRenames(w, folders))

FinishCycle ==
  /\ stage = "planned" /\ stage' = "idle"
  /\ \E broken \in {{}} \cup {{a} : a \in cycle.plan} :
       /\ faults + Cardinality(broken) <= MaxFaults
       /\ faults' = faults + Cardinality(broken)
       /\ LET w == ExecutePlan(cycle.plan, cycle.order, broken)
          IN  /\ local' = w.local /\ remote' = w.remote /\ rec' = w.rec /\ kept' = w.kept
              /\ dirtyPaths' = (dirtyPaths \cup Echoed(w)) \ cycle.dirtyPaths
              /\ renamePairs' = DeleteMatching(MarkOwn(renamePairs, w, FALSE), cycle.renamePairs)
              /\ folderRenamePairs' =
                   DeleteMatching(MarkOwn(folderRenamePairs, w, TRUE), cycle.folderRenamePairs)
              /\ told' = told \cup {p \in Paths : w.remote[p] \notin {Absent, remote[p]}}
              /\ recoverViaColdScan' = (w.failed # {})
  /\ initialized' = TRUE
  /\ cycle' = NoCycle
  /\ UNCHANGED <<remoteRenamePairs, live, tick, ops>>

(* Where the executor does not look again before it acts, and where a      *)
(* rename records what the vault has by then.                              *)
Fragile ==
  IF stage = "idle" \/ "editsDuring" \in Modes THEN {}
  ELSE UNION {Subtree(a.path) \cup (IF a.oldPath = None THEN {} ELSE Subtree(a.oldPath)) :
                a \in {b \in cycle.plan :
                         \/ b.action \in {"delete_local", "conflict", "rename_local"}
                         \/ b.action = "rename_remote" /\ ~b.hasContentChange}}

UserActs(paths) == /\ ops < MaxOps /\ ops' = ops + 1
                   /\ paths \cap Fragile = {}
                   /\ UNCHANGED <<remote, rec, kept, initialized, told, remoteRenamePairs,
                                  recoverViaColdScan, stage, cycle, faults>>
(* A file is put back to where a failed cycle has left its record, when the *)
(* other side does not have it any more.                                   *)
MovesBack(old, new, other, side) ==
  recoverViaColdScan /\ \E p \in FilePaths : /\ new[p] \notin {Absent, old[p]}
                                             /\ new[p] = rec[p][side] /\ other[p] = Absent
(* A file that the cycle found gone, and that the tracker will forget with  *)
(* the rest of its snapshot, is there again before the cycle ends.          *)
Recreates(tree) ==
  stage = "planned" /\ \E p \in cycle.dirtyPaths \cap FilePaths : local[p] = Absent /\ tree[p] # Absent
LocalBecomes(tree) == /\ local' = tree
                      /\ MovesBack(local, tree, remote, "l") => "movesBack" \in Modes
                      /\ Recreates(tree) => "recreates" \in Modes
(* A folder takes the name of one that was deleted since the last sync. *)
Reuses(q) == IsFolder(q) /\ Recorded(q)

MarkDirty(paths) == dirtyPaths' = dirtyPaths \cup paths
WithParent(p) == {p} \cup {q \in {Folder(p)} : local[q] = Absent}

(* A file is written: a new one, or an old one anew. *)
EditLocal(p) ==
  /\ UserActs({p})
  /\ tick' = tick + 1
  /\ LocalBecomes(Put(local, p, tick'))
  /\ live' = (live \ {local[p]}) \cup {tick'}
  /\ MarkDirty(WithParent(p))
  /\ UNCHANGED <<renamePairs, folderRenamePairs>>

CopyLocal(p, q) ==
  /\ local[p] # Absent /\ local[q] = Absent
  /\ UserActs({q})
  /\ LocalBecomes(Put(local, q, local[p]))
  /\ MarkDirty(WithParent(q))
  /\ UNCHANGED <<renamePairs, folderRenamePairs, live, tick>>

DeleteLocal(p) ==
  /\ local[p] # Absent
  /\ UserActs(Subtree(p))
  /\ local' = Drop(local, p)
  /\ live' = live \ {local[q] : q \in Subtree(p)}
  /\ MarkDirty({q \in Subtree(p) : local[q] # Absent})
  /\ UNCHANGED <<renamePairs, folderRenamePairs, tick>>

(* The app tells of renames made in it: of a file, or only of the folder.  *)
RenameFileLocal(p, q) ==
  /\ local[p] # Absent /\ local[q] = Absent
  /\ UserActs({p, q})
  /\ LocalBecomes(Move(local, p, q))
  /\ renamePairs' = MarkRenamed(renamePairs, q, p)
  /\ MarkDirty((WithParent(q) \ {q})
               \cup (IF Resolved(renamePairs, p) = q THEN {} ELSE {Resolved(renamePairs, p), q}))
  /\ UNCHANGED <<folderRenamePairs, live, tick>>

RenameFolderLocal(p, q) ==
  /\ local[p] = Dir /\ local[q] = Absent
  /\ Reuses(q) => "foldersReused" \in Modes
  /\ UserActs(Subtree(p) \cup Subtree(q))
  /\ LocalBecomes(Move(local, p, q))
  /\ folderRenamePairs' = MarkRenamed(folderRenamePairs, q, p)
  /\ UNCHANGED <<dirtyPaths, renamePairs, live, tick>>

(* A move by another program, onto whatever is there: a deletion and a     *)
(* creation or a change.                                                   *)
MoveExternally(p, q) ==
  /\ p # q /\ local[p] # Absent
  /\ UserActs({p, q})
  /\ LocalBecomes(Move(local, p, q))
  /\ live' = live \ {local[q]}
  /\ MarkDirty({p} \cup WithParent(q))
  /\ UNCHANGED <<renamePairs, folderRenamePairs, tick>>

(* The app is closed and opened: what the tracker knew is forgotten.  (With *)
(* a recovery pending the delta would come again: see SyncCycle.)          *)
Restart ==
  /\ stage = "idle" /\ ~recoverViaColdScan
  /\ ops < MaxOps /\ ops' = ops + 1
  /\ dirtyPaths' = {} /\ renamePairs' = {} /\ folderRenamePairs' = {} /\ initialized' = FALSE
  /\ UNCHANGED <<local, remote, rec, kept, told, remoteRenamePairs, recoverViaColdScan,
                 stage, cycle, live, tick, faults>>

OthersAct == /\ stage = "idle"
             /\ ops < MaxOps /\ ops' = ops + 1
             /\ UNCHANGED <<local, rec, kept, tracker, recoverViaColdScan, stage, cycle, faults>>
RenamedSinceDelta(p) == \E c \in remoteRenamePairs : p \in Subtree(c.new) \cup Subtree(c.old)

OthersEdit(p) ==
  /\ OthersAct
  /\ RenamedSinceDelta(p) => "editsRenamed" \in Modes
  /\ tick' = tick + 1
  /\ remote' = Put(remote, p, tick')
  /\ live' = (live \ {remote[p]}) \cup {tick'}
  /\ told' = told \cup {p, Folder(p)}
  /\ UNCHANGED remoteRenamePairs

OthersDelete(p) ==
  /\ OthersAct
  /\ remote[p] # Absent
  /\ Reuses(p) /\ p \in PairPaths(folderRenamePairs) => "foldersReused" \in Modes
  /\ remote' = Drop(remote, p)
  /\ live' = live \ {remote[q] : q \in Subtree(p)}
  /\ told' = told \cup {q \in Subtree(p) : remote[q] # Absent}
  /\ remoteRenamePairs' = {c \in remoteRenamePairs : c.new \notin Subtree(p)}
  /\ UNCHANGED tick

(* One rename of a file per delta.  With an edit in the same delta only if  *)
(* the instance says so.                                                   *)
OthersRename(p, q) ==
  /\ OthersAct
  /\ IsFolder(p) = IsFolder(q)
  /\ remote[p] # Absent /\ remote[q] = Absent
  /\ Reuses(q) => "foldersReused" \in Modes
  /\ \A s \in Subtree(p) \cup Subtree(q) : ~RenamedSinceDelta(s)
  /\ \A s \in Subtree(p) : Recorded(s) /\ RemoteChanged(s) => "editsRenamed" \in Modes
  /\ remote' = Move(remote, p, q)
  /\ MovesBack(remote, remote', local, "r") => "movesBack" \in Modes
  /\ told' = told \cup {s \in Paths : remote'[s] # remote[s]}
  /\ remoteRenamePairs' = remoteRenamePairs \cup {Pair(q, p)}
  /\ UNCHANGED <<live, tick>>

Next == \/ StartCycle
        \/ FinishCycle
        \/ \E p \in FilePaths : EditLocal(p)
        \/ \E p, q \in FilePaths : CopyLocal(p, q)
        \/ \E p \in Paths : DeleteLocal(p)
        \/ \E p, q \in FilePaths : RenameFileLocal(p, q)
        \/ \E p, q \in FolderPaths : RenameFolderLocal(p, q)
        \/ \E p, q \in FilePaths : MoveExternally(p, q)
        \/ Restart
        \/ \E p \in FilePaths : OthersEdit(p)
        \/ \E p \in Paths : OthersDelete(p)
        \/ \E p, q \in Paths : OthersRename(p, q)

Spec == Init /\ [][Next]_vars

(* The scheduler starts a cycle again and again (only StartCycle makes the *)
(* stage "planned"), and a cycle ends.                                     *)
FairSpec == /\ Spec
            /\ WF_stage(stage = "idle" /\ stage' = "planned")
            /\ WF_stage(stage = "planned" /\ stage' = "idle")

-----------------------------------------------------------------------------
FilesAgree == \A p \in FilePaths : local[p] = remote[p]

(* No content that somebody wrote, and that nobody deleted or wrote over,  *)
(* is lost, whatever was renamed on either side, into whatever, and        *)
(* whichever rename fails half-way (optimize-remote-renames.ts: never a    *)
(* "dangling delete under a renamed folder").                              *)
ContentKept ==
  live \subseteq kept \cup {local[p] : p \in FilePaths} \cup {remote[p] : p \in FilePaths}

(* Where the record of a file says that neither side has changed, the two  *)
(* have the same content: no rename baselines what it did not carry over.  *)
QuietMeansEqual ==
  stage = "idle" =>
    \A p \in FilePaths : Recorded(p) /\ ~LocalChanged(p) /\ ~RemoteChanged(p)
                         /\ local[p] # Absent /\ remote[p] # Absent => local[p] = remote[p]

(* A plan that was rewritten for renames, when none of its actions fails,  *)
(* leaves the files and their records exactly as the plain plan would have *)
(* (rename-optimizer.ts: a pure stage of the pipeline).                    *)
SameAsPlain ==
  stage = "planned" =>
    LET w == ExecutePlan(cycle.plan, cycle.order, {})
        v == ExecutePlan(ProtectFoldersWithSurvivors(cycle.plain), cycle.order, {})
    IN  w.failed = {} =>
          \A p \in FilePaths : <<w.local[p], w.remote[p], w.rec[p]>> = <<v.local[p], v.remote[p], v.rec[p]>>

(* After the last rename and edit the two sides come to hold the same      *)
(* files: a rename that cannot be done as one is done in pieces by a later *)
(* cycle.                                                                  *)
Converges == <>[]FilesAgree
=============================================================================
