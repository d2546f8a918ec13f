------------------------------ MODULE IdDelta ------------------------------
(***************************************************************************)
(* How a delta reaches the metadata cache: page by page where the feed is  *)
(* keyed by ids (fs/caching/id-delta.ts, googledrive/ and                  *)
(* onedrive/incremental-sync.ts), drained first and reordered where it is  *)
(* keyed by paths (fs/dropbox/incremental-sync.ts); and the rescan that    *)
(* replaces it when the cursor has expired (remote-fs.ts diffById).  What  *)
(* is done between two requests runs alone and is one step.                *)
(***************************************************************************)
EXTENDS RemoteTree

CONSTANTS InitialTrees  \* what the provider may hold at first

ASSUME DeltaAssumption == \A t \in InitialTrees : IsTree(t)

VARIABLES
  cache,         \* the metadata cache
  base,          \* what it was when the delta began
  changedPaths,  \* what the delta reports so far
  renamedPaths,
  drained,       \* Dropbox: the entries of the pages read so far
  reading        \* a delta is being read

deltaVars == <<base, changedPaths, renamedPaths, drained, reading>>
vars == <<backend, tree, feed, acts, cache, deltaVars>>

Listing(t) == [id \in Tracked(t) |-> [id |-> id, parent |-> t[id].parent, name |-> t[id].name]]

Init == /\ backend \in Backends
        /\ tree \in InitialTrees
        /\ feed = <<>> /\ acts = 0
        /\ cache = BuildFromFiles(Listing(tree))
        /\ base = cache
        /\ changedPaths = {} /\ renamedPaths = {}
        /\ drained = <<>> /\ reading = FALSE

ProviderChanges == /\ OthersChange(cache)
                   /\ backend = "path" /\ reading => "changesMidDrain" \in TreeEvents
                   /\ UNCHANGED <<cache, deltaVars>>

-----------------------------------------------------------------------------
(* What an entry does to [cache, changed, renamed]. *)

Touched(acc, paths) == [acc EXCEPT !.changed = @ \cup paths]

RemoveReported(acc, path) ==
  [Touched(acc, {path} \cup CollectDescendants(acc.cache, path)) EXCEPT
     !.cache = RemoveTree(@, path)]

Renamed(acc, old, new) == [acc EXCEPT !.renamed = @ \cup {<<old, new>>}]

(* The id-keyed entry: its id, and where the provider has it. *)
EntryOf(id) == IF tree[id] = Gone THEN [id |-> id, live |-> FALSE]
               ELSE [id |-> id, live |-> TRUE, parent |-> tree[id].parent, name |-> tree[id].name]

(* Mutant: a moved folder's content is reported at its new paths only. *)
ApplyEntryNewOnly(acc, e) ==
  LET old  == PathById(acc.cache, e.id)
      next == ApplyFileChange(acc.cache, e)
      new  == PathById(next, e.id)
  IN  IF ~e.live
      THEN IF old = NoPath THEN acc ELSE RemoveReported(acc, old)
      ELSE IF new = NoPath /\ old = NoPath THEN [acc EXCEPT !.cache = next]
      ELSE IF new = NoPath THEN RemoveReported(acc, old)
      ELSE [Touched(acc, {new} \cup CollectDescendants(next, new)) EXCEPT !.cache = next]

ApplyEntry(acc, e) ==
  LET old         == PathById(acc.cache, e.id)
      descendants == IF old \in acc.cache.folders THEN CollectDescendants(acc.cache, old) ELSE {}
      next        == ApplyFileChange(acc.cache, e)
      new         == PathById(next, e.id)
      placed      == Touched([acc EXCEPT !.cache = next], {new})
  IN  IF ~e.live
      THEN IF old = NoPath THEN acc ELSE RemoveReported(acc, old)
      ELSE IF new = NoPath
      THEN [acc EXCEPT !.cache = next,
                       !.changed = @ \cup (IF old = NoPath THEN {} ELSE {old} \cup descendants)]
      ELSE IF old \in {NoPath, new} THEN placed
      ELSE Renamed(Touched(placed, {old} \cup descendants \cup
                             (IF descendants = {} THEN {} ELSE CollectDescendants(next, new))),
                   old, new)

(* Folders first, those the cache has nearer to the root before deeper     *)
(* ones, one it does not have as near as can be; otherwise as they came.   *)
Rank(c, id) == IF id \notin Folder THEN 99
               ELSE IF PathById(c, id) = NoPath THEN 1 ELSE Len(PathById(c, id))

Precedes(s, rank, m, n) == \/ rank[s[m]] < rank[s[n]]
                           \/ rank[s[m]] = rank[s[n]] /\ m < n
StableSort(s, rank) ==
  LET NthOf(k) == CHOOSE n \in DOMAIN s :
                    Cardinality({m \in DOMAIN s : Precedes(s, rank, m, n)}) = k - 1
  IN  [k \in DOMAIN s |-> s[NthOf(k)]]

PageOrder(c, ids) ==
  LET sorted == StableSort(ids, [id \in ToSet(ids) |-> Rank(c, id)])
  IN  [n \in DOMAIN ids |-> EntryOf(sorted[n])]

(* What the delta has done before this page; a first page starts anew. *)
SoFar == [cache   |-> cache,
          changed |-> IF reading THEN changedPaths ELSE {},
          renamed |-> IF reading THEN renamedPaths ELSE {}]

Publish(acc, more) == /\ cache' = acc.cache
                      /\ changedPaths' = acc.changed
                      /\ renamedPaths' = acc.renamed
                      /\ base' = IF reading THEN base ELSE cache
                      /\ reading' = more

(* applyIdDeltaPage: the page's ids, shown as they are now. *)
ApplyIdPage(n) ==
  /\ backend = "id"
  /\ n \in 1..Len(feed)
  /\ Publish(FoldLeft(ApplyEntry, SoFar, PageOrder(cache, SubSeq(feed, 1, n))), n < Len(feed))
  /\ feed' = SubSeq(feed, n + 1, Len(feed))
  /\ UNCHANGED <<backend, tree, acts, drained>>

-----------------------------------------------------------------------------
(* Dropbox. *)

IsDeleted(e)     == e.id = NoPath
Untrackable(e)   == e.path = Reserved
FolderEntry(e)   == e.id \in Folder
Upserts(entries) == SelectSeq(entries, LAMBDA e : ~IsDeleted(e))
Deletes(entries) == SelectSeq(entries, IsDeleted)

UpsertOrder(entries) ==
  StableSort(entries, [e \in ToSet(entries) |-> Len(e.path) + IF FolderEntry(e) THEN 0 ELSE 99])

(* setEntry: whoever else is at the path is evicted first. *)
SetEntry(c, path, id) ==
  LET freed == IF ~HasFile(c, path) \/ c.file[path] = id THEN c
               ELSE IF path \in c.folders THEN RemoveTree(c, path)
               ELSE RemoveEntry(c, path)
  IN  SetFile(freed, path, id)

ApplyRename(acc, e, old) ==
  LET c           == acc.cache
      wasFolder   == old \in c.folders
      descendants == IF wasFolder THEN CollectDescendants(c, old) ELSE {}
      displaced   == IF HasFile(c, e.path) THEN CollectDescendants(c, e.path) ELSE {}
      placed      == SetEntry(RemoveEntry(c, old), e.path, e.id)
      next        == IF wasFolder THEN RewriteChildPaths(placed, old, e.path) ELSE placed
  IN  Renamed(Touched([acc EXCEPT !.cache = next],
                      {e.path, old} \cup descendants \cup displaced \cup
                      (IF wasFolder THEN CollectDescendants(next, e.path) ELSE {})),
              old, e.path)

ApplyUpsertEntry(acc, e) ==
  LET old == PathById(acc.cache, e.id)
  IN  IF Untrackable(e) THEN IF old = NoPath THEN acc ELSE RemoveReported(acc, old)
      ELSE IF old \notin {NoPath, e.path} THEN ApplyRename(acc, e, old)
      ELSE [Touched(acc, {e.path} \cup (IF old # NoPath THEN {}
                                        ELSE CollectDescendants(acc.cache, e.path)))
            EXCEPT !.cache = SetEntry(@, e.path, e.id)]

ApplyDeleteEntry(acc, e, upsertedPaths) ==
  IF ~HasFile(acc.cache, e.path) \/ e.path \in upsertedPaths THEN acc
  ELSE RemoveReported(acc, e.path)

(* applyEntries: upserts first, then the deletions they left standing. *)
ApplyEntries(acc, entries) ==
  LET upserts == UpsertOrder(Upserts(entries))
      upsertedPaths == {e.path : e \in {u \in ToSet(upserts) : ~Untrackable(u)}}
  IN  FoldLeft(LAMBDA a, e : ApplyDeleteEntry(a, e, upsertedPaths),
               FoldLeft(ApplyUpsertEntry, acc, upserts), Deletes(entries))

(* A page is read; the last one is followed by the application of all. *)
ReadDropboxPage(n) ==
  /\ backend = "path"
  /\ n \in 1..Len(feed)
  /\ feed' = SubSeq(feed, n + 1, Len(feed))
  /\ LET entries == drained \o SubSeq(feed, 1, n)
     IN  IF n < Len(feed)
         THEN /\ drained' = entries
              /\ Publish(SoFar, TRUE)
         ELSE /\ drained' = <<>>
              /\ Publish(ApplyEntries(SoFar, entries), FALSE)
  /\ UNCHANGED <<backend, tree, acts>>

-----------------------------------------------------------------------------
(* The cursor has expired: everything is listed again, and the difference  *)
(* is taken by id.                                                         *)
DiffById(old, new) ==
  LET moved == {id \in DOMAIN old.pathOf \cap DOMAIN new.pathOf : old.pathOf[id] # new.pathOf[id]}
      came  == DOMAIN new.pathOf \ DOMAIN old.pathOf
      went  == DOMAIN old.pathOf \ DOMAIN new.pathOf
  IN  [modified |-> {new.pathOf[id] : id \in came \cup moved},
       deleted  |-> {old.pathOf[id] : id \in went \cup moved},
       renamed  |-> {<<old.pathOf[id], new.pathOf[id]>> : id \in moved}]

FullScanWithDelta ==
  LET new == BuildFromFiles(Listing(tree))
      diff == DiffById(cache, new)
  IN  /\ "expires" \in TreeEvents
      /\ ~reading
      /\ cache.file # <<>>
      /\ base' = cache
      /\ cache' = new
      /\ changedPaths' = diff.modified \cup diff.deleted
      /\ renamedPaths' = diff.renamed
      /\ feed' = <<>>
      /\ UNCHANGED <<backend, tree, acts, drained, reading>>

(* Nothing is asked any more. *)
Quiet == acts = MaxActs /\ feed = <<>> /\ UNCHANGED vars

Next == \/ ProviderChanges
        \/ \E n \in DOMAIN feed : ApplyIdPage(n)
        \/ \E n \in DOMAIN feed : ReadDropboxPage(n)
        \/ FullScanWithDelta
        \/ Quiet

Spec == Init /\ [][Next]_vars

-----------------------------------------------------------------------------
(* The two maps, the folders and the index describe one tree after every   *)
(* page, whatever moved or went, in whichever order (metadata-cache.ts).   *)
CacheIsATree == IndexesAgree(cache)

(* When the feed has been read to its end, the cache has exactly what the  *)
(* provider has, each file at its path (incremental-sync.ts; ADR 0006).    *)
CacheMirrorsTree ==
  (feed = <<>> /\ ~reading) =>
    cache.pathOf = [id \in Tracked(tree) |-> PathsIn(tree)[id]]

(* A path that is another file's, nobody's or somebody's after a delta is  *)
(* among the paths the delta reports, so the engine looks at it (ADR 0006, *)
(* Decision 4; remote-fs.ts diffById).                                     *)
EveryChangeReported ==
  ~reading => \A path \in DOMAIN base.file \cup DOMAIN cache.file :
                IdAt(base, path) # IdAt(cache, path) => path \in changedPaths
=============================================================================
