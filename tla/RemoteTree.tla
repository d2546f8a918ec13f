----------------------------- MODULE RemoteTree -----------------------------
(***************************************************************************)
(* The provider's side of a delta: a tree of files and folders, changed by *)
(* other clients, and the feed of what a holder of the cursor has not been *)
(* shown yet.  Nothing of it is code of the plugin; it is what             *)
(* googledrive/, onedrive/ and dropbox/incremental-sync.ts consume.        *)
(*                                                                         *)
(* A feed keyed by ids (Google Drive, OneDrive) has an id once, at the     *)
(* place of its latest change, and shows its state at the time it is read. *)
(* It has no entries for what is in a folder that moved or was deleted.    *)
(* A feed keyed by paths (Dropbox) has a path once, with the latest of it; *)
(* a moved folder is the deletion of each path in it and entries for the   *)
(* new ones (crash-safety-contract.test.ts stages renames like this).      *)
(***************************************************************************)
EXTENDS MetadataCache

CONSTANTS Name,       \* the names files may have
          Outside,    \* the id of a folder that is not synchronized
          Gone,       \* the place of an id that does not exist
          Backends,   \* "id", "path": how a feed may be keyed
          TreeEvents, \* the changes this instance allows beside the plain ones
          MaxActs     \* how many changes other clients make

VARIABLES backend, tree, feed, acts

AnyName == Name \cup {Reserved[1]}

ASSUME RemoteTreeAssumption ==
  /\ IsFiniteSet(Id)
  /\ Outside \notin Id \cup {Root}
  /\ Gone \notin [parent : Folder \cup {Root, Outside}, name : AnyName]
  /\ NoPath \notin Seq(AnyName)

Place == [parent : Folder \cup {Root, Outside}, name : Name]
           \cup {[parent |-> Root, name |-> Reserved[1]]}

(* The path of each id in a tree, NoPath for one that is not under Root. *)
PathsIn(t) ==
  LET up[n \in 0..Cardinality(Id)] ==
        [id \in Id |->
           IF t[id] = Gone \/ t[id].parent = Outside \/ n = 0 THEN NoPath
           ELSE IF t[id].parent = Root THEN <<t[id].name>>
           ELSE LET above == up[n - 1][t[id].parent]
                IN  IF above = NoPath THEN NoPath ELSE Append(above, t[id].name)]
  IN  up[Cardinality(Id)]

Tracked(t) == {id \in Id : PathsIn(t)[id] \notin {NoPath, Reserved}}

Ancestors(t, id) ==
  LET up[n \in 0..Cardinality(Folder)] ==
        [m \in Id |-> IF n = 0 \/ t[m] = Gone \/ t[m].parent \notin Folder THEN {}
                      ELSE {t[m].parent} \cup up[n - 1][t[m].parent]]
  IN  up[Cardinality(Folder)][id]
Inside(t, folder) == {id \in Id : t[id] # Gone /\ folder \in Ancestors(t, id)}
Subtree(t, id) == {id} \cup Inside(t, id)

(* Where the plugin keeps its metadata there is no folder. *)
MetadataIsAFile(t) == \A id \in Folder : PathsIn(t)[id] # Reserved

(* A tree: nothing is in itself, and no two are at the same place. *)
IsIn(t, id, ids) == t[id] # Gone /\ t[id].parent \in ids
IsTree(t) ==
  /\ t \in [Id -> Place \cup {Gone}]
  /\ \A ids \in (SUBSET Folder) \ {{}} : \E id \in ids : ~IsIn(t, id, ids)
  /\ \A a, b \in Id : t[a] = t[b] /\ t[a] # Gone => a = b
  /\ MetadataIsAFile(t)

(* A place an id may be put at: its parent exists and is not inside it, no *)
(* other file is there, unless the provider does not mind (Google Drive).   *)
Free(t, id, place) ==
  /\ place.parent \in Folder => t[place.parent] # Gone /\ place.parent \notin Subtree(t, id)
  /\ \/ \A other \in Id \ {id} : t[other] # place
     \/ backend = "id" /\ "twins" \in TreeEvents

-----------------------------------------------------------------------------
(* Entries of the two feeds. *)

Mention(f, id) == Append(RemoveFirst(f, id), id)

Shallowest(paths, ids) ==
  SetToSortSeq(ids, LAMBDA p, q : Len(paths[p]) < Len(paths[q]))

Upsert(id, path) == [id |-> id, path |-> path]
Deleted(path)    == [id |-> NoPath, path |-> path]

(* What a path-keyed feed says of a change from tree t to u of an id: each *)
(* path of the subtree that is left is deleted, each that is taken is an   *)
(* upsert.  The latest word on a path wins; the deletions come first, the  *)
(* order the tests of ADR 0006 take to be the adverse one.                 *)
PathEntries(t, u, id) ==
  LET old   == PathsIn(t)
      new   == PathsIn(u)
      here  == {m \in Subtree(u, id) : u[m] # Gone /\ new[m] # NoPath}
      left  == {m \in Subtree(t, id) : old[m] \notin {NoPath, new[m]}}
      about == {new[m] : m \in here} \cup {old[m] : m \in left}
      outs  == Shallowest(old, left)
      ins   == Shallowest(new, here)
  IN  SelectSeq(feed, LAMBDA e : e.path \notin about)
        \o [n \in DOMAIN outs |-> Deleted(old[outs[n]])]
        \o [n \in DOMAIN ins |-> Upsert(ins[n], new[ins[n]])]

Report(t, u, id) == feed' = IF backend = "id" THEN Mention(feed, id)
                                              ELSE PathEntries(t, u, id)

Change(id, u) == /\ acts < MaxActs
                 /\ MetadataIsAFile(u)
                 /\ acts' = acts + 1
                 /\ UNCHANGED backend
                 /\ tree' = u
                 /\ Report(tree, u, id)

-----------------------------------------------------------------------------
(* Other clients.  "cached" is what the plugin's cache has at this moment; *)
(* it only serves to tell changes apart that the id-keyed application does *)
(* not survive, each allowed by an event of its own.                       *)

Unshown == IF backend = "id" THEN ToSet(feed) ELSE {feed[n].id : n \in DOMAIN feed}

(* A folder was cached inside one that goes, and has left it: the end of   *)
(* the outer one takes the inner one along, with all that is in it.        *)
Escapes(cached, u) ==
  \E from, id \in Folder \cap DOMAIN cached.pathOf :
    /\ Below(cached.pathOf[from], cached.pathOf[id])
    /\ PathsIn(u)[from] = NoPath /\ PathsIn(u)[id] # NoPath

(* It comes to where the cache has another folder, which is gone or        *)
(* elsewhere by now, and is evicted with all that the cache has in it.     *)
TakesOver(cached, u) ==
  \E other \in Folder \cap DOMAIN cached.pathOf : \E id \in Id \ {other} :
    u[id] # Gone /\ cached.pathOf[other] = ResolvePathFromCache(cached, u[id])

(* A folder is mentioned after something that went into it. *)
LateParent(u, id) == Inside(u, id) \cap Unshown # {}

(* What was outside comes in, with content the feed does not mention. *)
ComesInFilled(u, id) == PathsIn(tree)[id] = NoPath /\ Inside(u, id) # {}

(* A folder goes into one that is cached inside it, or several are each    *)
(* inside the next, some in the cache and some by now: as the entries are  *)
(* applied one by one, a folder may come to be moved into itself.          *)
CachedIn(c, id, ids) ==
  id \in DOMAIN c.pathOf /\ IdAt(c, Parent(c.pathOf[id])) \cap ids # {}
Inverts(cached, u) ==
  \E ids \in (SUBSET Folder) \ {{}} :
    \A id \in ids : CachedIn(cached, id, ids) \/ IsIn(u, id, ids)

(* A folder has moved and something that was in it has gone, and the feed  *)
(* tells its end at a path other than the one the folder took it along to. *)
Depleted(cached, u, id) ==
  \E f, m \in DOMAIN cached.pathOf :
    LET old == cached.pathOf[f]
        new == PathsIn(u)[f]
        gone == cached.pathOf[m]
    IN  /\ Below(old, gone) /\ new \notin {NoPath, old} /\ PathsIn(u)[m] = NoPath
        /\ Deleted(new \o SubSeq(gone, Len(old) + 1, Len(gone)))
             \notin ToSet(PathEntries(tree, u, id))

Survivable(cached, u, id) ==
  IF backend = "path"
  THEN Depleted(cached, u, id) => "depleted" \in TreeEvents
  ELSE
    /\ Escapes(cached, u) => "escapes" \in TreeEvents
    /\ TakesOver(cached, u) => "takesOver" \in TreeEvents
    /\ Inverts(cached, u) => "inverts" \in TreeEvents
    /\ LateParent(u, id) => "lateParent" \in TreeEvents
    /\ ComesInFilled(u, id) => "comesIn" \in TreeEvents

Create(cached, id, place) ==
  LET u == [tree EXCEPT ![id] = place]
  IN  /\ tree[id] = Gone /\ place.parent # Outside /\ Free(tree, id, place)
      /\ id \notin DOMAIN cached.pathOf /\ id \notin Unshown
      /\ Survivable(cached, u, id)
      /\ Change(id, u)

(* Its content or another attribute changes. *)
Touch(cached, id) == /\ tree[id] # Gone
                     /\ Survivable(cached, tree, id)
                     /\ Change(id, tree)

Move(cached, id, place) ==
  LET u == [tree EXCEPT ![id] = place]
  IN  /\ tree[id] # Gone /\ tree[id] # place /\ Free(tree, id, place)
      /\ Survivable(cached, u, id)
      /\ Change(id, u)

Delete(cached, id) ==
  LET u == [m \in Id |-> IF m \in Subtree(tree, id) THEN Gone ELSE tree[m]]
  IN  /\ tree[id] # Gone
      /\ Survivable(cached, u, id)
      /\ Change(id, u)

OthersChange(cached) ==
  \E id \in Id :
    \/ \E place \in Place : Create(cached, id, place) \/ Move(cached, id, place)
    \/ Touch(cached, id)
    \/ Delete(cached, id)
=============================================================================
