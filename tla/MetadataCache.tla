--------------------------- MODULE MetadataCache ---------------------------
(***************************************************************************)
(* The metadata cache every backend shares (fs/caching/metadata-cache.ts): *)
(* the map from paths to files, its reverse by backend id, the folders and *)
(* the index from a folder to its children.  A path is the sequence of its *)
(* names; a file is represented by its id, and what the provider says of   *)
(* it (name and parent) by the entry an operation is given.  The children  *)
(* index, a set of paths per parent, is the set "indexed" of all of them.  *)
(***************************************************************************)
EXTENDS SequencesExt

CONSTANTS Id,       \* backend ids
          Folder,   \* those of folders: an id never changes its kind
          Root,     \* the id of the folder that is synchronized
          Reserved, \* the path of the plugin's own metadata file
          NoPath    \* no path

ASSUME CacheAssumption == /\ Folder \subseteq Id
                          /\ Root \notin Id
                          /\ NoPath # Reserved

Put(f, x, v) == [y \in DOMAIN f \cup {x} |-> IF y = x THEN v ELSE f[y]]
Without(f, S) == [y \in DOMAIN f \ S |-> f[y]]

Parent(path) == Front(path)
Below(path, q) == IsStrictPrefix(path, q)

PathById(c, id) == IF id \in DOMAIN c.pathOf THEN c.pathOf[id] ELSE NoPath
HasFile(c, path) == path \in DOMAIN c.file
IdAt(c, path) == IF HasFile(c, path) THEN {c.file[path]} ELSE {}

(* The paths indexed under a folder. *)
Children(c, path) == {q \in c.indexed : q # <<>> /\ Parent(q) = path}

(* The walk through the index reaches a path when every folder between is  *)
(* in the index as well.                                                   *)
CollectDescendants(c, path) ==
  {q \in c.indexed : /\ Below(path, q)
                     /\ \A n \in (Len(path) + 1)..Len(q) : SubSeq(q, 1, n) \in c.indexed}

-----------------------------------------------------------------------------
(* Mutations. *)

FoldersWith(c, path, id) == IF id \in Folder THEN c.folders \cup {path} ELSE c.folders

(* setFile: no eviction of whoever is at the path. *)
SetFile(c, path, id) ==
  IF path = Reserved THEN c
  ELSE [file    |-> Put(c.file, path, id),
        pathOf  |-> Put(c.pathOf, id, path),
        folders |-> FoldersWith(c, path, id),
        indexed |-> c.indexed \cup {path}]

RemoveEntries(c, paths) ==
  [file    |-> Without(c.file, paths),
   pathOf  |-> Without(c.pathOf, {c.file[q] : q \in paths \cap DOMAIN c.file}),
   folders |-> c.folders \ paths,
   indexed |-> c.indexed \ paths]

RemoveEntry(c, path) == RemoveEntries(c, {path})

RemoveTree(c, path) ==
  LET rest == RemoveEntries(c, {path} \cup CollectDescendants(c, path))
  IN  [rest EXCEPT !.indexed = @ \ Children(rest, path)]

RewriteChildPaths(c, old, new) ==
  LET moved     == CollectDescendants(c, old)
      There(q)  == new \o SubSeq(q, Len(old) + 1, Len(q))
      Back(q)   == old \o SubSeq(q, Len(new) + 1, Len(q))
      arrived   == {There(q) : q \in moved}
      ids       == {c.file[q] : q \in moved}
  IN  [file    |-> [q \in (DOMAIN c.file \ moved) \cup arrived |->
                      IF q \in arrived THEN c.file[Back(q)] ELSE c.file[q]],
       pathOf  |-> [id \in DOMAIN c.pathOf \cup ids |->
                      IF id \in ids THEN There(CHOOSE q \in moved : c.file[q] = id)
                                    ELSE c.pathOf[id]],
       folders |-> (c.folders \ moved) \cup {There(q) : q \in moved \cap c.folders},
       indexed |-> (c.indexed \ moved) \cup arrived]

-----------------------------------------------------------------------------
(* Resolution of an entry [id, parent, name, live] by parent ids. *)

ResolvePathFromCache(c, e) ==
  IF e.parent = Root THEN <<e.name>>
  ELSE IF e.parent \in DOMAIN c.pathOf THEN Append(c.pathOf[e.parent], e.name)
  ELSE NoPath

(* Mutant: the children stay behind. *)
LeaveOldPathAlone(c, id, old, path) == RemoveEntry(c, old)

(* The entry leaves the path it was cached at, its children with it. *)
LeaveOldPath(c, id, old, path) ==
  LET wasFolder == old \in c.folders
      left == [file    |-> Without(c.file, {old}),
               pathOf  |-> Without(c.pathOf, {id}),
               folders |-> c.folders \ {old},
               indexed |-> c.indexed \ {old}]
  IN  IF wasFolder THEN RewriteChildPaths(left, old, path) ELSE left

PlaceAt(c, id, path) ==
  [file    |-> Put(c.file, path, id),
   pathOf  |-> Put(c.pathOf, id, path),
   folders |-> IF id \in Folder THEN c.folders \cup {path} ELSE c.folders \ {path},
   indexed |-> c.indexed \cup {path}]

(* Mutant: whoever is cached at the path is not evicted. *)
ApplyFileChangeKeeping(c, e) ==
  LET path == ResolvePathFromCache(c, e)
      old  == PathById(c, e.id)
  IN  IF path \in {NoPath, Reserved}
      THEN IF old = NoPath THEN c ELSE RemoveTree(c, old)
      ELSE PlaceAt(IF old \in {NoPath, path} THEN c ELSE LeaveOldPath(c, e.id, old, path),
                   e.id, path)

ApplyFileChange(c, e) ==
  LET path  == ResolvePathFromCache(c, e)
      old   == PathById(c, e.id)
      freed == IF HasFile(c, path) /\ c.file[path] # e.id THEN RemoveTree(c, path) ELSE c
  IN  IF path \in {NoPath, Reserved}
      THEN IF old = NoPath THEN c ELSE RemoveTree(c, old)
      ELSE PlaceAt(IF old \in {NoPath, path} THEN freed
                                             ELSE LeaveOldPath(freed, e.id, old, path),
                   e.id, path)

-----------------------------------------------------------------------------
(* A flat listing, entries by id, becomes a cache.  A parent that is not   *)
(* in the listing, or a cycle of parents, truncates the path.              *)

ListedPath(listing) ==
  LET up[n \in 0..Cardinality(Id)] ==
        [id \in DOMAIN listing |->
           LET e == listing[id]
           IN  IF e.parent = Root \/ e.parent \notin DOMAIN listing \/ n = 0
               THEN <<e.name>>
               ELSE Append(up[n - 1][e.parent], e.name)]
  IN  up[Cardinality(Id)]

(* bulkLoad of pairs of a path and an id; of several for one path the one  *)
(* that "wins" is kept, and the reverse map has them all.                  *)
BulkLoad(pathOf) ==
  LET kept  == {id \in DOMAIN pathOf : pathOf[id] # Reserved}
      paths == {pathOf[id] : id \in kept}
      file  == [q \in paths |-> CHOOSE id \in kept : pathOf[id] = q]
  IN  [file    |-> file,
       pathOf  |-> [id \in kept |-> pathOf[id]],
       folders |-> {pathOf[id] : id \in kept \cap Folder},
       indexed |-> paths]

BuildFromFiles(listing) == BulkLoad(ListedPath(listing))

-----------------------------------------------------------------------------
(* The maps describe one tree: each of the two maps is the inverse of the  *)
(* other, the index and the folders are those of the files, and no entry   *)
(* is without the folder it is in (phantoms of a subtree that has gone).   *)
IndexesAgree(c) ==
  /\ \A path \in DOMAIN c.file : PathById(c, c.file[path]) = path
  /\ \A id \in DOMAIN c.pathOf : IdAt(c, c.pathOf[id]) = {id}
  /\ c.indexed = DOMAIN c.file
  /\ c.folders = {path \in DOMAIN c.file : c.file[path] \in Folder}
  /\ \A path \in DOMAIN c.file : Len(path) = 1 \/ Parent(path) \in c.folders
=============================================================================
