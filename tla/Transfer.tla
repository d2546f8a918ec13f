------------------------------ MODULE Transfer ------------------------------
(***************************************************************************)
(* One file on its way between the vault and the remote: detection of its  *)
(* change, the action that is planned, and the steps of that action        *)
(* (plan-executor.ts, transfer-guards.ts, conflict.ts, merge.ts,           *)
(* state-committer.ts, pullSingle of orchestrator.ts), while the user and  *)
(* other devices go on editing it and any step may be the last.            *)
(*                                                                         *)
(* The content of a file is the set of the edits it shows.  An edit is made *)
(* once, on top of what is there; contents that differ differ in mtime or   *)
(* size too.  Steps in the middle of which an edit does harm are "windows"; *)
(* Windows says in which of them this instance lets edits fall.             *)
(***************************************************************************)
EXTENDS Naturals, Sequences

CONSTANTS Absent,      \* no file; also no record and no merge base
          Unknown,     \* an mtime of 0 in a record
          MaxEdits,    \* how many edits are made, on all devices
          MaxStops,    \* how many actions end before they are through
          Windows

LocalWindows == {"afterCheck", "openDownload", "resolving", "hashing", "mergeBase", "deleting"}

ASSUME TransferAssumption ==
  /\ MaxEdits \in Nat \ {0} /\ MaxStops \in Nat
  /\ \A content \in SUBSET (1..MaxEdits) : content # Absent
  /\ Windows \subseteq LocalWindows \cup {"overwriting"}

Content == SUBSET (1..MaxEdits)
Version == Content \cup {Absent}

VARIABLES
  strategy,      \* conflictStrategy of the settings; bases are stored under
                 \* either (enableThreeWayMerge), and read under auto_merge
  local, remote,
  seen,          \* the remote content in the cache
  copies,        \* the edits shown in `.conflict` copies
  rec,           \* l: what the hash is of; m: whose mtime; r: the remote side
  base,          \* the content stored for a 3-way merge
  act,           \* the action under way
  made,          \* the edits 1..made have been made
  dropped,       \* edits in files that the user or another device deleted
  stops

vars == <<strategy, local, remote, seen, copies, rec, base, act, made, dropped, stops>>

NoRecord == [l |-> Absent, m |-> Absent, r |-> Absent]

(* planned: the local side the action was planned on; hashed: what the     *)
(* entity to be recorded has the hash of; known: whether its mtime is taken *)
(* from the vault; todo: the steps that are left.                          *)
Idle == [kind |-> "none", todo |-> <<>>, planned |-> Absent, mine |-> Absent,
         theirs |-> Absent, merged |-> Absent, hashed |-> Absent, known |-> FALSE]

Init == /\ strategy \in {"auto_merge", "duplicate"}
        /\ local \in {Absent, {1}} /\ remote \in {Absent, {}, {1}}
        /\ made = IF {1} \in {local, remote} THEN 1 ELSE 0
        /\ seen = Absent /\ copies = {} /\ dropped = {}
        /\ rec = NoRecord /\ base = Absent
        /\ act = Idle /\ stops = 0

-----------------------------------------------------------------------------
(* Detection: hasChanged, hasRemoteChanged, decideAction. *)

(* A stat has a hash, which decides; a listing has only the mtime and size. *)
LocalChanged(stated) ==
  IF stated THEN local # rec.l ELSE rec.m = Unknown \/ local # rec.m

(* The ways a conflict can be resolved; auto_merge falls back to           *)
(* keep_newer, whose winner is the side with the later mtime, and to       *)
(* duplicate where the mtimes do not tell.                                 *)
Resolutions ==
  {"duplicate"} \cup (IF strategy = "auto_merge" THEN {"winnerLocal", "winnerRemote"} ELSE {})
                \cup (IF strategy = "auto_merge" /\ base # Absent THEN {"merge"} ELSE {})

(* keepNewer, where the mtimes do not tell: a stated file has a hash, and   *)
(* has changed into what the remote has changed into.                      *)
ChangedAlike(stated, theirs) == strategy = "auto_merge" /\ stated /\ local = theirs

(* planSync on one path; where both sides are new, equal contents match if  *)
(* the remote's checksum is one that can be computed here, and the sides   *)
(* were listed, not stated (enrichHashesForInitialMatch).                  *)
Decide(stated, theirs) ==
  LET here         == local # Absent
      there        == theirs # Absent
      known        == rec # NoRecord
      changedHere  == LocalChanged(stated)
      changedThere == theirs # rec.r
  IN  {kind \in Resolutions : here /\ there /\ (known => changedHere /\ changedThere)}
      \cup {kind \in {"match", "push", "pull", "keepLocal", "deleteLocal", "keepRemote",
                      "deleteRemote", "cleanup"} :
              \/ kind = "match" /\ here /\ there /\ ~known /\ local = theirs
              \/ kind = "push" /\ here /\ there /\ known /\ changedHere /\ ~changedThere
              \/ kind = "pull" /\ here /\ there /\ known /\ ~changedHere /\ changedThere
              \/ kind = "push" /\ here /\ ~there /\ ~known
              \/ kind = "keepLocal" /\ here /\ ~there /\ known /\ changedHere
              \/ /\ kind = "keepLocal" /\ here /\ known /\ changedHere /\ changedThere
                 /\ ChangedAlike(stated, theirs)
              \/ kind = "deleteLocal" /\ here /\ ~there /\ known /\ ~changedHere
              \/ kind = "pull" /\ ~here /\ there /\ ~known
              \/ kind = "keepRemote" /\ ~here /\ there /\ known /\ changedThere
              \/ kind = "deleteRemote" /\ ~here /\ there /\ known /\ ~changedThere
              \/ kind = "cleanup" /\ ~here /\ ~there /\ known}

Commit == <<"putRecord", "putBase">>

Steps(kind) ==
  CASE kind = "push"         -> <<"readLocal", "upload", "hashPushed", "putRecord", "putBase">>
    [] kind = "pull"         -> <<"download", "checkLocal", "writeLocal", "putRecord", "putBase">>
    [] kind = "match"        -> Commit
    [] kind = "deleteLocal"  -> <<"deleteLocal", "dropRecord">>
    [] kind = "deleteRemote" -> <<"deleteRemote", "dropRecord">>
    [] kind = "cleanup"      -> <<"dropRecord">>
    [] kind = "keepLocal"    -> <<"readLocal", "upload", "statLocal", "putRecord", "putBase">>
    [] kind = "keepRemote"   -> <<"download", "writeLocal", "statLocal", "putRecord", "putBase">>
    [] kind = "merge"        -> <<"readLocal", "download", "writeLocal", "upload", "statLocal",
                                  "putRecord", "putBase">>
    [] kind = "winnerLocal"  -> <<"readLocal", "download", "saveCopy", "upload", "statLocal",
                                  "putRecord", "putBase">>
    [] kind = "winnerRemote" -> <<"readLocal", "download", "saveCopy", "writeLocal", "statLocal",
                                  "putRecord", "putBase">>
    [] kind = "duplicate"    -> <<"download", "readLocal", "saveCopy", "upload", "statLocal",
                                  "putRecord", "putBase">>
    [] kind = "pullSingle"   -> <<"download", "writeLocal", "putRecord">>

Conflicts == {"keepLocal", "keepRemote", "merge", "winnerLocal", "winnerRemote", "duplicate"}

Begin(kind) == act' = [Idle EXCEPT !.kind = kind, !.todo = Steps(kind), !.planned = local,
                                   !.hashed = local]

(* The delta is read, the path compared, and its action begun. *)
Detect(stated) ==
  /\ act = Idle
  /\ \E kind \in Decide(stated, remote) : Begin(kind)
  /\ seen' = remote
  /\ UNCHANGED <<strategy, local, remote, copies, rec, base, made, dropped, stops>>

(* The priority pull of a file that is opened: only a fast-forward, checked *)
(* here, before the download.                                              *)
PullSingle ==
  /\ act = Idle
  /\ remote # Absent
  /\ IF rec = NoRecord THEN local = Absent
                       ELSE local # Absent /\ ~LocalChanged(TRUE) /\ remote # rec.r
  /\ Begin("pullSingle")
  /\ seen' = remote
  /\ UNCHANGED <<strategy, local, remote, copies, rec, base, made, dropped, stops>>

-----------------------------------------------------------------------------
(* The steps of an action. *)

At(step) == act.todo # <<>> /\ Head(act.todo) = step
Rest == Tail(act.todo)

(* The rest of an action that is through is nothing. *)
Goes(next) == act' = IF next.todo = <<>> THEN Idle ELSE next
Onward == Goes([act EXCEPT !.todo = Rest])
(* The resolution ends here: the stat and the commit are left. *)
ToCommit(a) == [a EXCEPT !.todo = <<"statLocal", "putRecord", "putBase">>]

(* threeWayMerge: what both have, and what either has added to the base;   *)
(* where hunks overlap, both versions between markers.                     *)
Merges(b, mine, theirs) ==
  {(mine \cap theirs) \cup (mine \ b) \cup (theirs \ b), mine \cup theirs}

(* Both sides are read.  Equal ones need no copy and no write; a merge that *)
(* throws or would break the file falls back to both being read again.     *)
BothRead(a) ==
  IF a.kind = "merge"
  THEN \/ \E m \in Merges(base, a.mine, a.theirs) :
            act' = [a EXCEPT !.merged = m, !.todo = Rest]
       \/ \E fallback \in {"winnerLocal", "winnerRemote", "duplicate"} :
            act' = [a EXCEPT !.kind = fallback, !.todo = Steps(fallback),
                             !.mine = Absent, !.theirs = Absent]
  ELSE act' = IF a.mine = a.theirs THEN ToCommit(a) ELSE [a EXCEPT !.todo = Rest]

BothSides == {"merge", "winnerLocal", "winnerRemote", "duplicate"}

ReadLocal ==
  /\ At("readLocal") /\ local # Absent
  /\ LET a == [act EXCEPT !.mine = local]
     IN  IF act.kind \in BothSides /\ act.theirs # Absent THEN BothRead(a)
         ELSE act' = [a EXCEPT !.todo = Rest]
  /\ UNCHANGED <<strategy, local, remote, seen, copies, rec, base, made, dropped, stops>>

Download ==
  /\ At("download") /\ remote # Absent
  /\ LET a == [act EXCEPT !.theirs = remote, !.hashed = remote, !.known = TRUE]
     IN  IF act.kind \in BothSides /\ act.mine # Absent THEN BothRead(a)
         ELSE act' = [a EXCEPT !.todo = Rest]
  /\ UNCHANGED <<strategy, local, remote, seen, copies, rec, base, made, dropped, stops>>

(* Mutant: the vault is not looked at again. *)
CheckLocalNot ==
  /\ At("checkLocal")
  /\ Onward
  /\ UNCHANGED <<strategy, local, remote, seen, copies, rec, base, made, dropped, stops>>

(* assertLocalUnchangedSincePlan; otherwise the action fails (Stop). *)
CheckLocal ==
  /\ At("checkLocal") /\ local = act.planned
  /\ Onward
  /\ UNCHANGED <<strategy, local, remote, seen, copies, rec, base, made, dropped, stops>>

(* Mutant: the loser is not kept. *)
SaveCopyNot ==
  /\ At("saveCopy")
  /\ Onward
  /\ UNCHANGED <<strategy, local, remote, seen, copies, rec, base, made, dropped, stops>>

(* The `.conflict` copy, under a name that is free on both sides. *)
SaveCopy ==
  /\ At("saveCopy")
  /\ copies' = copies \cup (IF act.kind = "winnerRemote" THEN act.mine ELSE act.theirs)
  /\ Onward
  /\ UNCHANGED <<strategy, local, remote, seen, rec, base, made, dropped, stops>>

WriteLocal ==
  /\ At("writeLocal")
  /\ local' = IF act.kind = "merge" THEN act.merged ELSE act.theirs
  /\ Onward
  /\ UNCHANGED <<strategy, remote, seen, copies, rec, base, made, dropped, stops>>

Upload ==
  /\ At("upload")
  /\ remote' = IF act.kind = "merge" THEN act.merged ELSE act.mine
  /\ seen' = remote'
  /\ Onward
  /\ UNCHANGED <<strategy, local, copies, rec, base, made, dropped, stops>>

(* The upload of a merge fails: the vault is put back. *)
RestoreLocal ==
  /\ At("upload") /\ act.kind = "merge"
  /\ stops < MaxStops /\ stops' = stops + 1
  /\ local' = act.mine
  /\ act' = Idle
  /\ UNCHANGED <<strategy, remote, seen, copies, rec, base, made, dropped>>

(* No second look at the file (the user's deletion is to be propagated, or *)
(* the other side's); what is deleted is what is there.                    *)
DeleteLocal ==
  /\ At("deleteLocal")
  /\ local' = Absent
  /\ Onward
  /\ UNCHANGED <<strategy, remote, seen, copies, rec, base, made, dropped, stops>>

DeleteRemote ==
  /\ At("deleteRemote")
  /\ remote' = Absent /\ seen' = Absent
  /\ Onward
  /\ UNCHANGED <<strategy, local, copies, rec, base, made, dropped, stops>>

(* Mutant: the uploaded hash beside the mtime of whatever is there now. *)
HashPushedKeepsMtime ==
  /\ At("hashPushed")
  /\ act' = [act EXCEPT !.todo = Rest, !.hashed = act.mine, !.known = TRUE]
  /\ UNCHANGED <<strategy, local, remote, seen, copies, rec, base, made, dropped, stops>>

(* Mutant: whatever is there now is what was pushed. *)
HashPushedTrustsStat ==
  /\ At("hashPushed")
  /\ act' = [act EXCEPT !.todo = Rest, !.known = TRUE,
                        !.hashed = IF local = Absent THEN act.planned ELSE local]
  /\ UNCHANGED <<strategy, local, remote, seen, copies, rec, base, made, dropped, stops>>

(* localEntityForPushedContent: the uploaded hash, and the mtime of the    *)
(* file only if that still is what was uploaded.                           *)
HashPushed ==
  /\ At("hashPushed")
  /\ act' = [act EXCEPT !.todo = Rest, !.hashed = act.mine, !.known = local = act.mine]
  /\ UNCHANGED <<strategy, local, remote, seen, copies, rec, base, made, dropped, stops>>

(* executeConflictAction: the file as it is now, or as it was planned. *)
StatLocal ==
  /\ At("statLocal")
  /\ act' = [act EXCEPT !.todo = Rest, !.known = TRUE,
                        !.hashed = IF local = Absent THEN act.planned ELSE local]
  /\ UNCHANGED <<strategy, local, remote, seen, copies, rec, base, made, dropped, stops>>

(* LocalFs.stat and write take the mtime after the hash has been computed. *)
MtimeTaken ==
  IF act.kind = "match" \/ local = Absent THEN act.hashed
  ELSE IF act.known THEN local ELSE Unknown

PutRecord ==
  /\ At("putRecord")
  /\ rec' = [l |-> act.hashed, m |-> MtimeTaken, r |-> seen]
  /\ Onward
  /\ UNCHANGED <<strategy, local, remote, seen, copies, base, made, dropped, stops>>

(* maybeStoreMergeBase reads the vault once more.  A file that is gone, too *)
(* large or not text leaves the base as it was.                            *)
PutBase ==
  /\ At("putBase")
  /\ \/ local # Absent /\ base' = local
     \/ UNCHANGED base
  /\ Onward
  /\ UNCHANGED <<strategy, local, remote, seen, copies, rec, made, dropped, stops>>

DropRecord ==
  /\ At("dropRecord")
  /\ rec' = NoRecord /\ base' = Absent
  /\ Onward
  /\ UNCHANGED <<strategy, local, remote, seen, copies, made, dropped, stops>>

(* A request fails, a read finds no file, the check refuses, or the process *)
(* ends.                                                                   *)
Stop ==
  /\ act # Idle
  /\ \/ At("readLocal") /\ local = Absent /\ UNCHANGED stops
     \/ At("download") /\ remote = Absent /\ UNCHANGED stops
     \/ At("checkLocal") /\ local # act.planned /\ UNCHANGED stops
     \/ stops < MaxStops /\ stops' = stops + 1
  /\ act' = Idle
  /\ UNCHANGED <<strategy, local, remote, seen, copies, rec, base, made, dropped>>

-----------------------------------------------------------------------------
(* The user and the other devices. *)

StepsLeft == {act.todo[i] : i \in 1..Len(act.todo)}

(* A merge base will be read that shows more than the record tells. *)
BaseDrifts == /\ "putBase" \in StepsLeft
              /\ \/ act.kind = "push" /\ act.mine # Absent
                 \/ act.kind = "match" \/ At("putBase")

(* The windows that a change of the vault would fall into now. *)
WindowsNow ==
  {w \in LocalWindows :
     \/ w = "afterCheck" /\ act.kind = "pull" /\ At("writeLocal")
     \/ w = "openDownload" /\ act.kind = "pullSingle" /\ "writeLocal" \in StepsLeft
     \/ w = "resolving" /\ act.kind \in Conflicts /\ "statLocal" \in StepsLeft
                         /\ (act.kind = "keepRemote" \/ act.mine # Absent)
     \/ w = "hashing" /\ act.kind # "match" /\ At("putRecord")
     \/ w = "mergeBase" /\ strategy = "auto_merge" /\ BaseDrifts
     \/ w = "deleting" /\ At("deleteLocal")}

(* What is on the remote is about to be overwritten or deleted unseen. *)
Overwriting == \/ act.kind \in {"push", "keepLocal"} /\ "upload" \in StepsLeft
               \/ act.theirs # Absent /\ "upload" \in StepsLeft
               \/ "deleteRemote" \in StepsLeft

Edited(v) == (IF v = Absent THEN {} ELSE v) \cup {made + 1}

EditLocal ==
  /\ WindowsNow \subseteq Windows
  /\ made < MaxEdits /\ made' = made + 1
  /\ local' = Edited(local)
  /\ UNCHANGED <<strategy, remote, seen, copies, rec, base, act, dropped, stops>>

DropLocal ==
  /\ WindowsNow \subseteq Windows
  /\ local # Absent /\ local' = Absent
  /\ dropped' = dropped \cup local
  /\ UNCHANGED <<strategy, remote, seen, copies, rec, base, act, made, stops>>

OthersEdit ==
  /\ Overwriting => "overwriting" \in Windows
  /\ made < MaxEdits /\ made' = made + 1
  /\ remote' = Edited(remote)
  /\ UNCHANGED <<strategy, local, seen, copies, rec, base, act, dropped, stops>>

OthersDrop ==
  /\ remote # Absent /\ remote' = Absent
  /\ dropped' = dropped \cup remote
  /\ UNCHANGED <<strategy, local, seen, copies, rec, base, act, made, stops>>

Execute == \/ ReadLocal \/ Download \/ CheckLocal \/ SaveCopy \/ WriteLocal \/ Upload
           \/ DeleteLocal \/ DeleteRemote \/ HashPushed \/ StatLocal
           \/ PutRecord \/ PutBase \/ DropRecord

Next == \/ \E stated \in BOOLEAN : Detect(stated)
        \/ PullSingle \/ Execute \/ RestoreLocal \/ Stop
        \/ EditLocal \/ DropLocal \/ OthersEdit \/ OthersDrop

Spec == Init /\ [][Next]_vars

(* The scheduler starts cycles, and what they have at least is a listing    *)
(* (the tracker's paths, which are stated, do not survive a restart); a     *)
(* started action ends.                                                    *)
FairSpec == /\ Spec
            /\ WF_vars(Detect(FALSE)) /\ WF_vars(Execute) /\ WF_vars(Stop)

-----------------------------------------------------------------------------
Shown(v) == IF v = Absent THEN {} ELSE v

(* No edit vanishes: whatever was ever typed on any device is in the vault, *)
(* on the remote or in a `.conflict` copy, unless a file that showed it was *)
(* deleted by someone (transfer-guards.ts; conflict.ts keepNewer, "never    *)
(* grounds to discard the other side's edits").  It takes a record, a merge *)
(* base or a write that describes other bytes than were synced, and a later *)
(* edit elsewhere, to break it.                                            *)
NoEditLost ==
  1..made \subseteq Shown(local) \cup Shown(remote) \cup copies \cup dropped

(* Between actions an edit the record does not know shows in a hash-less   *)
(* listing as well as in a stat: after a restart nothing else would find it *)
(* (localEntityForPushedContent, "so both the hash and the mtime change    *)
(* checks see the newer edit").                                            *)
EditsNoticed ==
  act = Idle /\ rec # NoRecord /\ LocalChanged(TRUE) => LocalChanged(FALSE)

(* Where a record says that neither side has changed, they are the same:   *)
(* nothing is ever baselined that was not synced.                          *)
QuietMeansEqual ==
  act = Idle /\ rec # NoRecord /\ local = rec.l /\ remote = rec.r => local = remote

(* Once the edits cease the two sides become equal and stay so, whatever   *)
(* conflicts are resolved and whichever actions stop half-way              *)
(* (plan-executor.ts, "re-detected on the next sync cycle").               *)
SidesMeet == <>[](local = remote)
=============================================================================
