---------------------------- MODULE Transfer_proofs ----------------------------
(***************************************************************************)
(* Proofs about Transfer: what the steps of every action keep, for any      *)
(* number of edits and of stops.                                           *)
(*                                                                         *)
(* That no edit is lost, as long as none of the windows is open, is argued *)
(* by a ledger of edits.  An edit is safe on a side if that side or a copy  *)
(* shows it, or somebody has deleted it.  Of what the next cycle rests on  *)
(* (the record's hash, its remote side, the merge base) the invariant says *)
(* on which side its edits are safe; of an action under way it says that   *)
(* what is about to be overwritten shows nothing that what it is           *)
(* overwritten by does not show.                                           *)
(*                                                                         *)
(* That a record in which neither side has changed describes equal sides   *)
(* is argued in the last part, whatever other windows are open.            *)
(***************************************************************************)
EXTENDS Transfer, TLAPS

-----------------------------------------------------------------------------
(* Where an action is.  Now is the step that is next, Left(s) says that s is *)
(* still to come; everything below speaks of the control in these terms.   *)

NextOf(todo) == IF todo = <<>> THEN "end" ELSE Head(todo)
StepsOf(todo) == {todo[i] : i \in 1..Len(todo)}

Now == NextOf(act.todo)
Left(step) == step \in StepsLeft

(* The whole lists. *)
AllPush      == <<"readLocal", "upload", "hashPushed", "putRecord", "putBase">>
AllPull      == <<"download", "checkLocal", "writeLocal", "putRecord", "putBase">>
AllDropHere  == <<"deleteLocal", "dropRecord">>
AllDropThere == <<"deleteRemote", "dropRecord">>
AllKeepLocal == <<"readLocal", "upload", "statLocal", "putRecord", "putBase">>
AllKeepRemote == <<"download", "writeLocal", "statLocal", "putRecord", "putBase">>
AllMerge     == <<"readLocal", "download", "writeLocal", "upload", "statLocal",
                 "putRecord", "putBase">>
AllWinLocal  == <<"readLocal", "download", "saveCopy", "upload", "statLocal",
                 "putRecord", "putBase">>
AllWinRemote == <<"readLocal", "download", "saveCopy", "writeLocal", "statLocal",
                 "putRecord", "putBase">>
AllDuplicate == <<"download", "readLocal", "saveCopy", "upload", "statLocal",
                 "putRecord", "putBase">>
AllOpen      == <<"download", "writeLocal", "putRecord">>

(* What is left of them on the way. *)
ToBase      == <<"putBase">>
ToForget    == <<"dropRecord">>
ToStat      == <<"statLocal", "putRecord", "putBase">>
ToUpload    == <<"upload", "statLocal", "putRecord", "putBase">>
ToWrite     == <<"writeLocal", "statLocal", "putRecord", "putBase">>
ToWriteBoth == <<"writeLocal", "upload", "statLocal", "putRecord", "putBase">>
ToCopyHere  == <<"saveCopy", "writeLocal", "statLocal", "putRecord", "putBase">>
ToCopyThere == <<"saveCopy", "upload", "statLocal", "putRecord", "putBase">>
PushUpload  == <<"upload", "hashPushed", "putRecord", "putBase">>
PushHash    == <<"hashPushed", "putRecord", "putBase">>
PullCheck   == <<"checkLocal", "writeLocal", "putRecord", "putBase">>
PullWrite   == <<"writeLocal", "putRecord", "putBase">>
OpenWrite   == <<"writeLocal", "putRecord">>
OpenRecord  == <<"putRecord">>
MergeFetch  == <<"download", "writeLocal", "upload", "statLocal", "putRecord", "putBase">>
HereFetch   == <<"download", "saveCopy", "upload", "statLocal", "putRecord", "putBase">>
ThereFetch  == <<"download", "saveCopy", "writeLocal", "statLocal", "putRecord", "putBase">>
BothRead2   == <<"readLocal", "saveCopy", "upload", "statLocal", "putRecord", "putBase">>

(* The lists an action of a kind can have left. *)
OnCourse ==
  /\ act.kind = "none" => act = Idle
  /\ act.kind = "push" =>
       act.todo \in {AllPush, PushUpload, PushHash, Commit, ToBase}
  /\ act.kind = "pull" =>
       act.todo \in {AllPull, PullCheck, PullWrite, Commit, ToBase}
  /\ act.kind = "match" => act.todo \in {Commit, ToBase}
  /\ act.kind = "deleteLocal" => act.todo \in {AllDropHere, ToForget}
  /\ act.kind = "deleteRemote" => act.todo \in {AllDropThere, ToForget}
  /\ act.kind = "cleanup" => act.todo = ToForget
  /\ act.kind = "keepLocal" =>
       act.todo \in {AllKeepLocal, ToUpload, ToStat, Commit, ToBase}
  /\ act.kind = "keepRemote" =>
       act.todo \in {AllKeepRemote, ToWrite, ToStat, Commit, ToBase}
  /\ act.kind = "merge" =>
       act.todo \in {AllMerge, MergeFetch, ToWriteBoth, ToUpload, ToStat, Commit, ToBase}
  /\ act.kind = "winnerLocal" =>
       act.todo \in {AllWinLocal, HereFetch, ToCopyThere, ToUpload, ToStat, Commit, ToBase}
  /\ act.kind = "winnerRemote" =>
       act.todo \in {AllWinRemote, ThereFetch, ToCopyHere, ToWrite, ToStat, Commit, ToBase}
  /\ act.kind = "duplicate" =>
       act.todo \in {AllDuplicate, BothRead2, ToCopyThere, ToUpload, ToStat, Commit, ToBase}
  /\ act.kind = "pullSingle" => act.todo \in {AllOpen, OpenWrite, OpenRecord}

Kinds == Conflicts \cup {"none", "push", "pull", "match", "deleteLocal", "deleteRemote",
                         "cleanup", "pullSingle"}
Pulls == {"pull", "pullSingle"}
Reads == {"push", "keepLocal"} \cup BothSides
Downloads == Pulls \cup {"keepRemote"} \cup BothSides
(* Both sides end with what is uploaded. *)
Meeting == {"merge", "winnerLocal", "duplicate"}

IsAction(a) ==
  a = [kind |-> a.kind, todo |-> a.todo, planned |-> a.planned, mine |-> a.mine,
       theirs |-> a.theirs, merged |-> a.merged, hashed |-> a.hashed, known |-> a.known]

Types ==
  /\ strategy \in {"auto_merge", "duplicate"}
  /\ local \in Version /\ remote \in Version /\ seen \in Version /\ base \in Version
  /\ copies \subseteq 1..MaxEdits /\ dropped \subseteq 1..MaxEdits
  /\ rec.l \in Version /\ rec.m \in Version \cup {Unknown} /\ rec.r \in Version
  /\ made \in 0..MaxEdits /\ stops \in Nat
  /\ IsAction(act)
  /\ act.kind \in Kinds /\ act.known \in BOOLEAN
  /\ act.planned \in Version /\ act.mine \in Version /\ act.theirs \in Version
  /\ act.merged \in Version /\ act.hashed \in Version
  /\ OnCourse

(* The lists are those of Steps. *)
LEMMA Lists ==
  /\ Steps("push") = AllPush
  /\ Steps("pull") = AllPull
  /\ Steps("deleteLocal") = AllDropHere
  /\ Steps("deleteRemote") = AllDropThere
  /\ Steps("keepLocal") = AllKeepLocal
  /\ Steps("keepRemote") = AllKeepRemote
  /\ Steps("merge") = AllMerge
  /\ Steps("winnerLocal") = AllWinLocal
  /\ Steps("winnerRemote") = AllWinRemote
  /\ Steps("duplicate") = AllDuplicate
  /\ Steps("pullSingle") = AllOpen
  /\ Steps("match") = Commit
  /\ Steps("cleanup") = ToForget
  BY DEF Steps, ToForget, AllPush, AllPull, AllDropHere, AllDropThere, AllKeepLocal, AllKeepRemote,
       AllMerge, AllWinLocal, AllWinRemote, AllDuplicate, AllOpen

LEMMA Heads ==
  /\ NextOf(<<>>) = "end"
  /\ NextOf(ToBase) = "putBase" /\ NextOf(ToForget) = "dropRecord"
  /\ NextOf(Commit) = "putRecord" /\ NextOf(OpenRecord) = "putRecord"
  /\ NextOf(ToStat) = "statLocal" /\ NextOf(PushHash) = "hashPushed"
  /\ NextOf(ToUpload) = "upload" /\ NextOf(PushUpload) = "upload"
  /\ NextOf(ToWrite) = "writeLocal" /\ NextOf(ToWriteBoth) = "writeLocal"
  /\ NextOf(PullWrite) = "writeLocal" /\ NextOf(OpenWrite) = "writeLocal"
  /\ NextOf(ToCopyHere) = "saveCopy" /\ NextOf(ToCopyThere) = "saveCopy"
  /\ NextOf(PullCheck) = "checkLocal" /\ NextOf(BothRead2) = "readLocal"
  /\ NextOf(MergeFetch) = "download" /\ NextOf(HereFetch) = "download"
  /\ NextOf(ThereFetch) = "download"
  /\ NextOf(AllPush) = "readLocal" /\ NextOf(AllKeepLocal) = "readLocal"
  /\ NextOf(AllMerge) = "readLocal" /\ NextOf(AllWinLocal) = "readLocal"
  /\ NextOf(AllWinRemote) = "readLocal"
  /\ NextOf(AllPull) = "download" /\ NextOf(AllOpen) = "download"
  /\ NextOf(AllKeepRemote) = "download" /\ NextOf(AllDuplicate) = "download"
  /\ NextOf(AllDropHere) = "deleteLocal"
  /\ NextOf(AllDropThere) = "deleteRemote"
  BY DEF NextOf, AllPush, AllPull, AllDropHere, AllDropThere, AllKeepLocal, AllKeepRemote,
       AllMerge, AllWinLocal, AllWinRemote, AllDuplicate, AllOpen,
       ToBase, ToForget, Commit, OpenRecord, ToStat, PushHash, ToUpload,
       PushUpload, ToWrite, ToWriteBoth, PullWrite, OpenWrite, ToCopyHere, ToCopyThere,
       PullCheck, BothRead2, MergeFetch, HereFetch, ThereFetch

LEMMA Tails ==
  /\ Tail(ToBase) = <<>> /\ Tail(ToForget) = <<>> /\ Tail(OpenRecord) = <<>>
  /\ Tail(Commit) = ToBase /\ Tail(ToStat) = Commit /\ Tail(PushHash) = Commit
  /\ Tail(ToUpload) = ToStat /\ Tail(PushUpload) = PushHash /\ Tail(ToWrite) = ToStat
  /\ Tail(ToWriteBoth) = ToUpload /\ Tail(PullWrite) = Commit /\ Tail(OpenWrite) = OpenRecord
  /\ Tail(ToCopyHere) = ToWrite /\ Tail(ToCopyThere) = ToUpload /\ Tail(PullCheck) = PullWrite
  /\ Tail(BothRead2) = ToCopyThere /\ Tail(MergeFetch) = ToWriteBoth
  /\ Tail(HereFetch) = ToCopyThere /\ Tail(ThereFetch) = ToCopyHere
  /\ Tail(AllPush) = PushUpload /\ Tail(AllPull) = PullCheck
  /\ Tail(AllDropHere) = ToForget /\ Tail(AllDropThere) = ToForget
  /\ Tail(AllKeepLocal) = ToUpload /\ Tail(AllKeepRemote) = ToWrite
  /\ Tail(AllMerge) = MergeFetch /\ Tail(AllWinLocal) = HereFetch
  /\ Tail(AllWinRemote) = ThereFetch /\ Tail(AllDuplicate) = BothRead2
  /\ Tail(AllOpen) = OpenWrite
<1>1. /\ Tail(ToBase) = <<>> /\ Tail(ToForget) = <<>> /\ Tail(OpenRecord) = <<>>
      /\ Tail(Commit) = ToBase /\ Tail(OpenWrite) = OpenRecord
  BY DEF ToBase, ToForget, Commit, OpenRecord, OpenWrite
<1>2. /\ Tail(ToStat) = Commit /\ Tail(PushHash) = Commit /\ Tail(PullWrite) = Commit
  BY DEF ToStat, PushHash, PullWrite, Commit
<1>3. /\ Tail(ToUpload) = ToStat /\ Tail(PushUpload) = PushHash /\ Tail(ToWrite) = ToStat
      /\ Tail(PullCheck) = PullWrite
  BY DEF ToUpload, PushUpload, ToWrite, ToStat, PushHash, PullCheck, PullWrite
<1>4. /\ Tail(ToWriteBoth) = ToUpload /\ Tail(ToCopyHere) = ToWrite
      /\ Tail(ToCopyThere) = ToUpload
  BY DEF ToWriteBoth, ToUpload, ToCopyHere, ToWrite, ToCopyThere
<1>5. /\ Tail(BothRead2) = ToCopyThere /\ Tail(MergeFetch) = ToWriteBoth
      /\ Tail(HereFetch) = ToCopyThere /\ Tail(ThereFetch) = ToCopyHere
  BY DEF BothRead2, ToCopyThere, MergeFetch, ToWriteBoth, HereFetch, ThereFetch, ToCopyHere
<1>6. /\ Tail(AllDropHere) = ToForget /\ Tail(AllDropThere) = ToForget
      /\ Tail(AllOpen) = OpenWrite
  BY DEF ToForget, OpenWrite, AllDropHere, AllDropThere, AllOpen
<1>7. /\ Tail(AllPush) = PushUpload /\ Tail(AllPull) = PullCheck
      /\ Tail(AllKeepLocal) = ToUpload /\ Tail(AllKeepRemote) = ToWrite
  BY DEF PushUpload, PullCheck, ToUpload, ToWrite, AllPush, AllPull, AllKeepLocal, AllKeepRemote
<1>8. /\ Tail(AllMerge) = MergeFetch /\ Tail(AllWinLocal) = HereFetch
      /\ Tail(AllWinRemote) = ThereFetch /\ Tail(AllDuplicate) = BothRead2
  BY DEF MergeFetch, HereFetch, ThereFetch, BothRead2, AllMerge, AllWinLocal, AllWinRemote,
         AllDuplicate
<1> QED
  BY <1>1, <1>2, <1>3, <1>4, <1>5, <1>6, <1>7, <1>8

LEMMA Members ==
  /\ StepsOf(<<>>) = {}
  /\ StepsOf(ToBase) = {"putBase"} /\ StepsOf(ToForget) = {"dropRecord"}
  /\ StepsOf(OpenRecord) = {"putRecord"} /\ StepsOf(Commit) = {"putRecord", "putBase"}
  /\ StepsOf(ToStat) = {"statLocal", "putRecord", "putBase"}
  /\ StepsOf(PushHash) = {"hashPushed", "putRecord", "putBase"}
  /\ StepsOf(ToUpload) = {"upload", "statLocal", "putRecord", "putBase"}
  /\ StepsOf(PushUpload) = {"upload", "hashPushed", "putRecord", "putBase"}
  /\ StepsOf(ToWrite) = {"writeLocal", "statLocal", "putRecord", "putBase"}
  /\ StepsOf(ToWriteBoth) = {"writeLocal", "upload", "statLocal", "putRecord", "putBase"}
  /\ StepsOf(PullWrite) = {"writeLocal", "putRecord", "putBase"}
  /\ StepsOf(OpenWrite) = {"writeLocal", "putRecord"}
  /\ StepsOf(ToCopyHere) = {"saveCopy", "writeLocal", "statLocal", "putRecord", "putBase"}
  /\ StepsOf(ToCopyThere) = {"saveCopy", "upload", "statLocal", "putRecord", "putBase"}
  /\ StepsOf(PullCheck) = {"checkLocal", "writeLocal", "putRecord", "putBase"}
  /\ StepsOf(BothRead2) = {"readLocal", "saveCopy", "upload", "statLocal", "putRecord", "putBase"}
  /\ StepsOf(MergeFetch) =
       {"download", "writeLocal", "upload", "statLocal", "putRecord", "putBase"}
  /\ StepsOf(HereFetch) = {"download", "saveCopy", "upload", "statLocal", "putRecord", "putBase"}
  /\ StepsOf(ThereFetch) =
       {"download", "saveCopy", "writeLocal", "statLocal", "putRecord", "putBase"}
  BY DEF StepsOf, ToBase, ToForget, Commit, OpenRecord, ToStat, PushHash, ToUpload,
       PushUpload, ToWrite, ToWriteBoth, PullWrite, OpenWrite, ToCopyHere, ToCopyThere,
       PullCheck, BothRead2, MergeFetch, HereFetch, ThereFetch

(* The steps of a whole list, one tuple of each shape at a time. *)
LEMMA Three == \A a, b, c : StepsOf(<<a, b, c>>) = {a, b, c}
  BY DEF StepsOf
LEMMA Five == \A a, b, c, d, e : StepsOf(<<a, b, c, d, e>>) = {a, b, c, d, e}
  BY DEF StepsOf
LEMMA Seven ==
  \A a, b, c, d, e, f, g : StepsOf(<<a, b, c, d, e, f, g>>) = {a, b, c, d, e, f, g}
  BY DEF StepsOf

LEMMA AllMembers ==
  /\ StepsOf(AllPush) = {"readLocal", "upload", "hashPushed", "putRecord", "putBase"}
  /\ StepsOf(AllPull) = {"download", "checkLocal", "writeLocal", "putRecord", "putBase"}
  /\ StepsOf(AllDropHere) = {"deleteLocal", "dropRecord"}
  /\ StepsOf(AllDropThere) = {"deleteRemote", "dropRecord"}
  /\ StepsOf(AllKeepLocal) = {"readLocal", "upload", "statLocal", "putRecord", "putBase"}
  /\ StepsOf(AllKeepRemote) =
       {"download", "writeLocal", "statLocal", "putRecord", "putBase"}
  /\ StepsOf(AllMerge) =
       {"readLocal", "download", "writeLocal", "upload", "statLocal", "putRecord", "putBase"}
  /\ StepsOf(AllWinLocal) =
       {"readLocal", "download", "saveCopy", "upload", "statLocal", "putRecord", "putBase"}
  /\ StepsOf(AllWinRemote) =
       {"readLocal", "download", "saveCopy", "writeLocal", "statLocal", "putRecord", "putBase"}
  /\ StepsOf(AllDuplicate) =
       {"download", "readLocal", "saveCopy", "upload", "statLocal", "putRecord", "putBase"}
  /\ StepsOf(AllOpen) = {"download", "writeLocal", "putRecord"}
<1>1. StepsOf(AllDropHere) = {"deleteLocal", "dropRecord"}
  BY DEF StepsOf, AllDropHere
<1>2. StepsOf(AllDropThere) = {"deleteRemote", "dropRecord"}
  BY DEF StepsOf, AllDropThere
<1> QED
  BY <1>1, <1>2, Three, Five, Seven
     DEF AllPush, AllPull, AllDropHere, AllDropThere, AllKeepLocal, AllKeepRemote,
       AllMerge, AllWinLocal, AllWinRemote, AllDuplicate, AllOpen
(* The same of the action under way. *)
LEMMA Control ==
  /\ Now = NextOf(act.todo) /\ StepsLeft = StepsOf(act.todo)
  /\ \A step : step # "end" => (At(step) <=> Now = step)
  BY DEF Now, NextOf, StepsLeft, StepsOf, At

LEMMA ControlNext ==
  /\ Now' = NextOf(act'.todo) /\ StepsLeft' = StepsOf(act'.todo)
  /\ \A step : step # "end" => (At(step)' <=> Now' = step)
  BY DEF Now, NextOf, StepsLeft, StepsOf, At

(* Where an action stands, told by the step that is next. *)
LEMMA Position ==
  ASSUME Types
  PROVE  /\ Now = "readLocal" =>
              \/ act.kind = "push" /\ act.todo = AllPush
              \/ act.kind = "keepLocal" /\ act.todo = AllKeepLocal
              \/ act.kind = "merge" /\ act.todo = AllMerge
              \/ act.kind = "winnerLocal" /\ act.todo = AllWinLocal
              \/ act.kind = "winnerRemote" /\ act.todo = AllWinRemote
              \/ act.kind = "duplicate" /\ act.todo = BothRead2
         /\ Now = "download" =>
              \/ act.kind = "pull" /\ act.todo = AllPull
              \/ act.kind = "pullSingle" /\ act.todo = AllOpen
              \/ act.kind = "keepRemote" /\ act.todo = AllKeepRemote
              \/ act.kind = "merge" /\ act.todo = MergeFetch
              \/ act.kind = "winnerLocal" /\ act.todo = HereFetch
              \/ act.kind = "winnerRemote" /\ act.todo = ThereFetch
              \/ act.kind = "duplicate" /\ act.todo = AllDuplicate
         /\ Now = "checkLocal" => act.kind = "pull" /\ act.todo = PullCheck
         /\ Now = "saveCopy" =>
              \/ act.kind \in {"winnerLocal", "duplicate"} /\ act.todo = ToCopyThere
              \/ act.kind = "winnerRemote" /\ act.todo = ToCopyHere
         /\ Now = "writeLocal" =>
              \/ act.kind = "pull" /\ act.todo = PullWrite
              \/ act.kind = "pullSingle" /\ act.todo = OpenWrite
              \/ act.kind \in {"keepRemote", "winnerRemote"} /\ act.todo = ToWrite
              \/ act.kind = "merge" /\ act.todo = ToWriteBoth
         /\ Now = "upload" =>
              \/ act.kind = "push" /\ act.todo = PushUpload
              \/ act.kind \in {"keepLocal", "merge", "winnerLocal", "duplicate"}
                 /\ act.todo = ToUpload
         /\ Now = "hashPushed" => act.kind = "push" /\ act.todo = PushHash
         /\ Now = "statLocal" => act.kind \in Conflicts /\ act.todo = ToStat
         /\ Now = "putRecord" =>
              \/ act.kind = "pullSingle" /\ act.todo = OpenRecord
              \/ act.kind \in {"push", "pull", "match"} \cup Conflicts /\ act.todo = Commit
         /\ Now = "putBase" =>
              act.kind \in {"push", "pull", "match"} \cup Conflicts /\ act.todo = ToBase
         /\ Now = "deleteLocal" => act.kind = "deleteLocal" /\ act.todo = AllDropHere
         /\ Now = "deleteRemote" => act.kind = "deleteRemote" /\ act.todo = AllDropThere
         /\ Now = "dropRecord" =>
              act.kind \in {"deleteLocal", "deleteRemote", "cleanup"} /\ act.todo = ToForget
<1>1. act.kind = "none" => Now = "end"
  BY Control, Heads DEF Types, OnCourse, Idle
<1> QED
  BY <1>1, Control, Heads DEF Types, OnCourse, Kinds, Conflicts

-----------------------------------------------------------------------------
(* What each step does to the action under way. *)

KeepsData ==
  /\ act'.kind = act.kind /\ act'.planned = act.planned /\ act'.mine = act.mine
  /\ act'.theirs = act.theirs /\ act'.merged = act.merged /\ act'.hashed = act.hashed
  /\ act'.known = act.known

Ended == act' = Idle /\ Now' = "end" /\ StepsLeft' = {}

LEMMA EndedMeans ==
  ASSUME act' = Idle
  PROVE  /\ Ended /\ IsAction(act') /\ act'.kind = "none" /\ act'.todo = <<>> /\ act'.known = FALSE
         /\ act'.planned = Absent /\ act'.mine = Absent /\ act'.theirs = Absent
         /\ act'.merged = Absent /\ act'.hashed = Absent
  BY ControlNext, Heads, Members DEF Ended, Idle, IsAction

LEMMA OnwardMeans ==
  ASSUME IsAction(act), Onward
  PROVE  /\ Rest = <<>> => act' = Idle
         /\ Rest # <<>> => act'.todo = Rest /\ KeepsData /\ IsAction(act')
  BY DEF Onward, Goes, IsAction, KeepsData

(* What is left is not nothing. *)
LEMMA NotNothing ==
  /\ ToBase # <<>> /\ ToForget # <<>> /\ OpenRecord # <<>> /\ Commit # <<>> /\ ToStat # <<>>
  /\ PushHash # <<>> /\ ToUpload # <<>> /\ PushUpload # <<>> /\ ToWrite # <<>>
  /\ ToWriteBoth # <<>> /\ PullWrite # <<>> /\ OpenWrite # <<>> /\ ToCopyHere # <<>>
  /\ ToCopyThere # <<>> /\ PullCheck # <<>> /\ BothRead2 # <<>> /\ MergeFetch # <<>>
  /\ HereFetch # <<>> /\ ThereFetch # <<>>
  BY Heads

(* The steps that pass on to the next and leave what the action carries. *)
LEMMA SaveCopyMoves ==
  ASSUME Types, SaveCopy
  PROVE  /\ KeepsData /\ IsAction(act') /\ Now = "saveCopy"
         /\ \/ act.kind \in {"winnerLocal", "duplicate"}
               /\ act.todo = ToCopyThere /\ act'.todo = ToUpload
            \/ act.kind = "winnerRemote" /\ act.todo = ToCopyHere /\ act'.todo = ToWrite
  BY OnwardMeans, Control, Position, Tails, NotNothing DEF Types, SaveCopy, Rest

LEMMA CheckLocalMoves ==
  ASSUME Types, CheckLocal
  PROVE  /\ KeepsData /\ IsAction(act') /\ Now = "checkLocal"
         /\ act.kind = "pull" /\ act.todo = PullCheck /\ act'.todo = PullWrite
  BY OnwardMeans, Control, Position, Tails, NotNothing DEF Types, CheckLocal, Rest

LEMMA WriteLocalMoves ==
  ASSUME Types, WriteLocal
  PROVE  /\ KeepsData /\ IsAction(act') /\ Now = "writeLocal"
         /\ \/ act.kind = "pull" /\ act.todo = PullWrite /\ act'.todo = Commit
            \/ act.kind = "pullSingle" /\ act.todo = OpenWrite /\ act'.todo = OpenRecord
            \/ act.kind \in {"keepRemote", "winnerRemote"}
               /\ act.todo = ToWrite /\ act'.todo = ToStat
            \/ act.kind = "merge" /\ act.todo = ToWriteBoth /\ act'.todo = ToUpload
  BY OnwardMeans, Control, Position, Tails, NotNothing DEF Types, WriteLocal, Rest

LEMMA UploadMoves ==
  ASSUME Types, Upload
  PROVE  /\ KeepsData /\ IsAction(act') /\ Now = "upload"
         /\ \/ act.kind = "push" /\ act.todo = PushUpload /\ act'.todo = PushHash
            \/ act.kind \in {"keepLocal", "merge", "winnerLocal", "duplicate"}
               /\ act.todo = ToUpload /\ act'.todo = ToStat
  BY OnwardMeans, Control, Position, Tails, NotNothing DEF Types, Upload, Rest

LEMMA DeletesMove ==
  ASSUME Types, DeleteLocal \/ DeleteRemote
  PROVE  /\ KeepsData /\ IsAction(act')
         /\ \/ DeleteLocal /\ Now = "deleteLocal" /\ act.kind = "deleteLocal"
               /\ act.todo = AllDropHere /\ act'.todo = ToForget
            \/ DeleteRemote /\ Now = "deleteRemote" /\ act.kind = "deleteRemote"
               /\ act.todo = AllDropThere /\ act'.todo = ToForget
  BY OnwardMeans, Control, Position, Tails, NotNothing DEF Types, DeleteLocal, DeleteRemote, Rest

LEMMA HashPushedMoves ==
  ASSUME Types, HashPushed
  PROVE  /\ Now = "hashPushed" /\ act.kind = "push" /\ act.todo = PushHash
         /\ act'.todo = Commit /\ IsAction(act') /\ act'.kind = "push"
         /\ act'.hashed = act.mine /\ act'.known = (local = act.mine)
         /\ act'.planned = act.planned /\ act'.mine = act.mine
         /\ act'.theirs = act.theirs /\ act'.merged = act.merged
  BY Control, Position, Tails DEF Types, IsAction, HashPushed, Rest

LEMMA StatLocalMoves ==
  ASSUME Types, StatLocal
  PROVE  /\ Now = "statLocal" /\ act.kind \in Conflicts /\ act.todo = ToStat
         /\ act'.todo = Commit /\ IsAction(act') /\ act'.kind = act.kind
         /\ act'.hashed = (IF local = Absent THEN act.planned ELSE local) /\ act'.known = TRUE
         /\ act'.planned = act.planned /\ act'.mine = act.mine
         /\ act'.theirs = act.theirs /\ act'.merged = act.merged
  BY Control, Position, Tails DEF Types, IsAction, StatLocal, Rest

LEMMA PutRecordMoves ==
  ASSUME Types, PutRecord
  PROVE  /\ Now = "putRecord"
         /\ \/ act.kind = "pullSingle" /\ act.todo = OpenRecord /\ act' = Idle
            \/ act.kind \in {"push", "pull", "match"} \cup Conflicts
               /\ act.todo = Commit /\ act'.todo = ToBase /\ KeepsData /\ IsAction(act')
  BY OnwardMeans, Control, Position, Tails, NotNothing DEF Types, PutRecord, Rest

LEMMA LastMoves ==
  ASSUME Types, PutBase \/ DropRecord
  PROVE  /\ act' = Idle
         /\ \/ PutBase /\ Now = "putBase" /\ act.todo = ToBase
               /\ act.kind \in {"push", "pull", "match"} \cup Conflicts
            \/ DropRecord /\ Now = "dropRecord" /\ act.todo = ToForget
               /\ act.kind \in {"deleteLocal", "deleteRemote", "cleanup"}
  BY OnwardMeans, Control, Position, Tails DEF Types, PutBase, DropRecord, Rest
(* A side is known from the moment it has been read. *)
Gathered ==
  /\ act.kind \in Reads => (act.mine = Absent <=> Left("readLocal"))
  /\ act.kind \in Downloads => (act.theirs = Absent <=> Left("download"))

LEMMA ReadLocalMoves ==
  ASSUME Types, Gathered, ReadLocal
  PROVE  /\ Now = "readLocal" /\ local # Absent /\ IsAction(act') /\ act'.kind = act.kind
         /\ act'.mine = local /\ act'.planned = act.planned /\ act'.theirs = act.theirs
         /\ act'.merged = act.merged /\ act'.hashed = act.hashed /\ act'.known = act.known
         /\ \/ act.kind = "push" /\ act.todo = AllPush /\ act'.todo = PushUpload
            \/ act.kind = "keepLocal" /\ act.todo = AllKeepLocal /\ act'.todo = ToUpload
            \/ act.kind = "merge" /\ act.todo = AllMerge /\ act'.todo = MergeFetch
            \/ act.kind = "winnerLocal" /\ act.todo = AllWinLocal /\ act'.todo = HereFetch
            \/ act.kind = "winnerRemote" /\ act.todo = AllWinRemote /\ act'.todo = ThereFetch
            \/ act.kind = "duplicate" /\ act.todo = BothRead2
               /\ act'.todo = IF local = act.theirs THEN ToStat ELSE ToCopyThere
<1>1. Now = "readLocal"
  BY Control DEF ReadLocal
<1>2. act.kind \in BothSides \ {"duplicate"} => act.theirs = Absent
  BY <1>1, Control, Position, Members, AllMembers DEF Types, Gathered, Downloads, Left, BothSides
<1>3. act.kind = "duplicate" => act.theirs # Absent
  BY <1>1, Control, Position, Members DEF Types, Gathered, Downloads, Left, BothSides
<1>4. CASE act.kind = "duplicate"
  <2>1. act' = IF local = act.theirs THEN ToCommit([act EXCEPT !.mine = local])
               ELSE [act EXCEPT !.mine = local, !.todo = Rest]
    BY <1>3, <1>4 DEF ReadLocal, BothRead, BothSides, Types, IsAction
  <2> QED
    BY <2>1, <1>1, <1>4, Position, Tails DEF ReadLocal, Rest, ToCommit, ToStat, Types, IsAction
<1>5. CASE act.kind # "duplicate"
  <2>1. act' = [act EXCEPT !.mine = local, !.todo = Rest]
    BY <1>2, <1>5 DEF ReadLocal, BothSides, Types, IsAction
  <2> QED
    BY <2>1, <1>1, <1>5, Position, Tails DEF ReadLocal, Rest, Types, IsAction
<1> QED
  BY <1>4, <1>5

LEMMA DownloadMoves ==
  ASSUME Types, Gathered, Download
  PROVE  /\ Now = "download" /\ remote # Absent /\ IsAction(act')
         /\ act'.planned = act.planned /\ act'.hashed = remote /\ act'.known = TRUE
         /\ \/ /\ act'.kind = act.kind /\ act'.mine = act.mine /\ act'.theirs = remote
               /\ act.kind = "merge" => act'.merged \in Merges(base, act.mine, remote)
               /\ act.kind # "merge" => act'.merged = act.merged
               /\ \/ act.kind = "pull" /\ act.todo = AllPull /\ act'.todo = PullCheck
                  \/ act.kind = "pullSingle" /\ act.todo = AllOpen /\ act'.todo = OpenWrite
                  \/ act.kind = "keepRemote" /\ act.todo = AllKeepRemote /\ act'.todo = ToWrite
                  \/ act.kind = "duplicate" /\ act.todo = AllDuplicate /\ act'.todo = BothRead2
                  \/ act.kind = "merge" /\ act.todo = MergeFetch /\ act'.todo = ToWriteBoth
                  \/ act.kind = "winnerLocal" /\ act.todo = HereFetch
                     /\ act'.todo = IF act.mine = remote THEN ToStat ELSE ToCopyThere
                  \/ act.kind = "winnerRemote" /\ act.todo = ThereFetch
                     /\ act'.todo = IF act.mine = remote THEN ToStat ELSE ToCopyHere
            \/ /\ act.kind = "merge" /\ act.todo = MergeFetch
               /\ act'.mine = Absent /\ act'.theirs = Absent /\ act'.merged = act.merged
               /\ \/ act'.kind = "winnerLocal" /\ act'.todo = AllWinLocal
                  \/ act'.kind = "winnerRemote" /\ act'.todo = AllWinRemote
                  \/ act'.kind = "duplicate" /\ act'.todo = AllDuplicate
<1> DEFINE a == [act EXCEPT !.theirs = remote, !.hashed = remote, !.known = TRUE]
<1>1. Now = "download"
  BY Control DEF Download
<1>2. act.kind \in {"merge", "winnerLocal", "winnerRemote"} => act.mine # Absent
  BY <1>1, Control, Position, Members DEF Types, Gathered, Reads, Left, BothSides
<1>3. act.kind = "duplicate" => act.mine = Absent
  BY <1>1, Control, Position, AllMembers DEF Types, Gathered, Reads, Left, BothSides
<1>4. CASE act.kind = "merge"
  <2>1. BothRead(a)
    BY <1>2, <1>4 DEF Download, BothSides
  <2>2. a.kind = "merge" /\ a.mine = act.mine /\ a.theirs = remote
    BY <1>4 DEF Types, IsAction
  <2>3. CASE \E m \in Merges(base, a.mine, a.theirs) : act' = [a EXCEPT !.merged = m, !.todo = Rest]
    BY <2>2, <2>3, <1>1, <1>4, Position, Tails DEF Rest, Types, IsAction, Download
  <2>4. CASE \E fallback \in {"winnerLocal", "winnerRemote", "duplicate"} :
               act' = [a EXCEPT !.kind = fallback, !.todo = Steps(fallback),
                                !.mine = Absent, !.theirs = Absent]
    BY <2>2, <2>4, <1>1, <1>4, Position, Lists DEF Types, IsAction, Download
  <2> QED
    BY <2>1, <2>2, <2>3, <2>4 DEF BothRead
<1>5. CASE act.kind \in {"winnerLocal", "winnerRemote"}
  <2>1. act' = IF act.mine = remote THEN ToCommit(a) ELSE [a EXCEPT !.todo = Rest]
    BY <1>2, <1>5 DEF Download, BothRead, BothSides, Types, IsAction
  <2> QED
    BY <2>1, <1>1, <1>5, Position, Tails DEF Download, Rest, ToCommit, ToStat, Types, IsAction
<1>6. CASE act.kind \notin {"merge", "winnerLocal", "winnerRemote"}
  <2>1. act' = [a EXCEPT !.todo = Rest]
    BY <1>3, <1>6 DEF Download, BothSides, Types, IsAction
  <2> QED
    BY <2>1, <1>1, <1>6, Position, Tails DEF Download, Rest, Types, IsAction
<1> QED
  BY <1>4, <1>5, <1>6

LEMMA BeginMoves ==
  ASSUME NEW kind \in Kinds \ {"none"}, Begin(kind)
  PROVE  /\ IsAction(act') /\ act'.kind = kind /\ act'.todo = Steps(kind)
         /\ act'.planned = local /\ act'.hashed = local /\ act'.known = FALSE
         /\ act'.mine = Absent /\ act'.theirs = Absent /\ act'.merged = Absent
  BY DEF Begin, Idle, IsAction

(* Where an action begins. *)
LEMMA BeginStands ==
  ASSUME NEW kind \in Kinds \ {"none"}, Begin(kind)
  PROVE  /\ kind \in Reads => Left("readLocal")'
         /\ kind \in Downloads => Left("download")'
         /\ Now' = "putRecord" => kind = "match"
         /\ Now' = "deleteLocal" => kind = "deleteLocal"
         /\ Now' = "deleteRemote" => kind = "deleteRemote"
         /\ Now' \notin {"writeLocal", "upload", "statLocal", "hashPushed", "putBase"}
<1>1. Now' = NextOf(Steps(kind)) /\ StepsLeft' = StepsOf(Steps(kind))
  BY BeginMoves, ControlNext
<1>2. CASE kind \in {"push", "pull", "match", "pullSingle"}
  BY <1>1, <1>2, Lists, Heads, AllMembers DEF Left, Reads, Downloads, Pulls, BothSides
<1>3. CASE kind \in {"deleteLocal", "deleteRemote", "cleanup"}
  BY <1>1, <1>3, Lists, Heads DEF Reads, Downloads, Pulls, BothSides
<1>4. CASE kind \in Conflicts
  BY <1>1, <1>4, Lists, Heads, AllMembers
     DEF Left, Reads, Downloads, Pulls, BothSides, Conflicts
<1> QED
  BY <1>2, <1>3, <1>4 DEF Kinds

LEMMA DecideKinds ==
  ASSUME NEW stated \in BOOLEAN, NEW theirs, NEW kind \in Decide(stated, theirs)
  PROVE  kind \in Kinds \ {"none", "pullSingle"}
  BY DEF Decide, Resolutions, Kinds, Conflicts

(* A merge shows what either side has. *)
LEMMA MergesAreContents ==
  ASSUME NEW b, NEW mine \in Content, NEW theirs \in Content, NEW m \in Merges(b, mine, theirs)
  PROVE  m \in Content
  BY DEF Merges, Content

LEMMA EditedIsContent ==
  ASSUME NEW v \in Version, made \in 0..MaxEdits, made < MaxEdits
  PROVE  /\ Edited(v) \in Content /\ made + 1 \in 0..MaxEdits
         /\ made + 1 \in Edited(v) /\ Shown(v) \subseteq Edited(v)
<1>1. made + 1 \in 1..MaxEdits /\ made + 1 \in 0..MaxEdits
  BY TransferAssumption
<1>2. Shown(v) \subseteq 1..MaxEdits
  BY DEF Shown, Version, Content
<1>3. Edited(v) = Shown(v) \cup {made + 1}
  BY DEF Edited, Shown
<1> QED
  BY <1>1, <1>2, <1>3 DEF Content

LEMMA ContentIsNotAbsent == \A v \in Content : v # Absent
  BY TransferAssumption DEF Content

-----------------------------------------------------------------------------
(* Types, and where the control is: these hold whatever windows are open. *)

TypeInv == Types /\ Gathered

LEMMA TypesInit == Init => TypeInv
<1>1. 1 \in 1..MaxEdits /\ {1} \in Content /\ {} \in Content
  BY TransferAssumption DEF Content
<1> SUFFICES ASSUME Init PROVE TypeInv
  OBVIOUS
<1>2. local \in Version /\ remote \in Version /\ seen \in Version /\ base \in Version
  BY <1>1 DEF Init, Version
<1>3. act = Idle /\ act.kind = "none"
  BY DEF Init, Idle
<1>4. /\ IsAction(act) /\ act.known \in BOOLEAN /\ act.planned \in Version
      /\ act.mine \in Version /\ act.theirs \in Version /\ act.merged \in Version
      /\ act.hashed \in Version
  BY <1>3 DEF Idle, IsAction, Version
<1>5. made \in 0..MaxEdits
  BY TransferAssumption DEF Init
<1>6. rec.l \in Version /\ rec.m \in Version \cup {Unknown} /\ rec.r \in Version
  BY DEF Init, NoRecord, Version
<1>7. Types
  BY <1>2, <1>3, <1>4, <1>5, <1>6 DEF Init, Types, Kinds, OnCourse
<1>8. Gathered
  BY <1>3 DEF Gathered, Reads, Downloads, Pulls, BothSides
<1> QED
  BY <1>7, <1>8 DEF TypeInv

LEMMA TypesBegin ==
  ASSUME TypeInv, NEW kind \in Kinds \ {"none"}, Begin(kind), seen' = remote,
         UNCHANGED <<strategy, local, remote, copies, rec, base, made, dropped, stops>>
  PROVE  TypeInv'
<1>1. /\ IsAction(act') /\ act'.kind = kind /\ act'.todo = Steps(kind)
      /\ act'.planned = local /\ act'.hashed = local /\ act'.known = FALSE
      /\ act'.mine = Absent /\ act'.theirs = Absent /\ act'.merged = Absent
  BY BeginMoves
<1>2. Types'
  <2>1. OnCourse'
    BY <1>1, Lists DEF OnCourse
  <2> QED
    BY <1>1, <2>1 DEF TypeInv, Types, Version
<1>3. Gathered'
  BY <1>1, Lists, ControlNext, Members, AllMembers
     DEF Gathered, Left, Reads, Downloads, Pulls, BothSides
<1> QED
  BY <1>2, <1>3 DEF TypeInv

LEMMA TypesReads ==
  ASSUME TypeInv, ReadLocal \/ Download
  PROVE  TypeInv'
<1> USE DEF TypeInv
<1>1. CASE ReadLocal
  <2>1. UNCHANGED <<strategy, local, remote, seen, copies, rec, base, made, dropped, stops>>
    BY <1>1 DEF ReadLocal
  <2>2. OnCourse'
    BY <1>1, ReadLocalMoves DEF OnCourse, BothRead2, ToStat
  <2>3. Types'
    BY <1>1, <2>1, <2>2, ReadLocalMoves DEF Types
  <2>4. Gathered'
    BY <1>1, ReadLocalMoves, Control, ControlNext, Members, AllMembers
       DEF Gathered, Left, Reads, Downloads, Pulls, BothSides
  <2> QED
    BY <2>3, <2>4
<1>2. CASE Download
  <2>1. UNCHANGED <<strategy, local, remote, seen, copies, rec, base, made, dropped, stops>>
    BY <1>2 DEF Download
  <2>2. OnCourse'
    BY <1>2, DownloadMoves DEF OnCourse
  <2>3. act'.merged \in Version
    <3>1. act.kind = "merge" /\ Now = "download" => act.mine \in Content
      BY Control, Position, Members DEF Types, Gathered, Left, Reads, BothSides, Version
    <3> QED
      BY <1>2, <3>1, DownloadMoves, MergesAreContents DEF Types, Version
  <2>4. /\ act'.kind \in Kinds /\ act'.known \in BOOLEAN /\ IsAction(act')
        /\ act'.planned \in Version /\ act'.mine \in Version /\ act'.theirs \in Version
        /\ act'.hashed \in Version
    BY <1>2, DownloadMoves DEF Types, Kinds, Conflicts, Version
  <2>5. Types'
    BY <2>1, <2>2, <2>3, <2>4 DEF Types
  <2>6. CASE act'.kind = act.kind
    <3>1. /\ "download" \notin StepsLeft' /\ act'.theirs # Absent /\ act'.mine = act.mine
          /\ act.kind \in Reads =>
               ("readLocal" \in StepsLeft' <=> "readLocal" \in StepsLeft)
      <4>1. CASE act.kind \in {"pull", "pullSingle", "keepRemote"}
        BY <1>2, <2>6, <4>1, DownloadMoves, ControlNext, Members DEF Reads, BothSides
      <4>2. CASE act.kind = "merge"
        BY <1>2, <2>6, <4>2, DownloadMoves, Control, ControlNext, Members
      <4>3. CASE act.kind \in {"winnerLocal", "winnerRemote"}
        BY <1>2, <2>6, <4>3, DownloadMoves, Control, ControlNext, Members
      <4>4. CASE act.kind = "duplicate"
        BY <1>2, <2>6, <4>4, DownloadMoves, Control, ControlNext, Members, AllMembers
      <4> QED
        BY <1>2, <4>1, <4>2, <4>3, <4>4, DownloadMoves
    <3> QED
      BY <2>5, <2>6, <3>1 DEF Gathered, Left
  <2>7. CASE act'.kind # act.kind
    <3>1. /\ act'.mine = Absent /\ act'.theirs = Absent
          /\ act'.kind \in BothSides \ {"merge"}
          /\ "readLocal" \in StepsLeft' /\ "download" \in StepsLeft'
      BY <1>2, <2>7, DownloadMoves, ControlNext, AllMembers DEF BothSides
    <3> QED
      BY <2>5, <3>1 DEF Gathered, Left
  <2> QED
    BY <2>5, <2>6, <2>7
<1> QED
  BY <1>1, <1>2

LEMMA TypesSteps ==
  ASSUME TypeInv,
         \/ CheckLocal \/ SaveCopy \/ WriteLocal \/ Upload \/ DeleteLocal \/ DeleteRemote
         \/ HashPushed \/ StatLocal \/ PutRecord \/ PutBase \/ DropRecord
  PROVE  TypeInv'
<1> USE DEF TypeInv
<1>1. CASE CheckLocal
  <2>1. OnCourse'
    BY <1>1, CheckLocalMoves DEF KeepsData, OnCourse
  <2>2. Types'
    BY <1>1, <2>1, CheckLocalMoves DEF Types, KeepsData, CheckLocal
  <2> QED
    BY <1>1, <2>2, CheckLocalMoves, Control, ControlNext, Members
       DEF KeepsData, Gathered, Left, Reads, Downloads, Pulls, BothSides
<1>2. CASE SaveCopy
  <2>1. OnCourse'
    BY <1>2, SaveCopyMoves DEF KeepsData, OnCourse
  <2>2. copies' \subseteq 1..MaxEdits
    <3>1. act.mine # Absent /\ act.theirs # Absent
      BY <1>2, SaveCopyMoves, Control, Members
         DEF Gathered, Left, Reads, Downloads, Pulls, BothSides
    <3> QED
      BY <1>2, <3>1 DEF SaveCopy, Types, Version, Content
  <2>3. Types'
    BY <1>2, <2>1, <2>2, SaveCopyMoves DEF Types, KeepsData, SaveCopy
  <2> QED
    BY <1>2, <2>3, SaveCopyMoves, Control, ControlNext, Members
       DEF KeepsData, Gathered, Left, Reads, Downloads, Pulls, BothSides
<1>3. CASE WriteLocal
  <2>1. OnCourse'
    BY <1>3, WriteLocalMoves DEF KeepsData, OnCourse
  <2>2. Types'
    BY <1>3, <2>1, WriteLocalMoves DEF Types, KeepsData, WriteLocal
  <2>3. /\ "download" \notin StepsLeft /\ "download" \notin StepsLeft'
        /\ "readLocal" \notin StepsLeft /\ "readLocal" \notin StepsLeft'
    BY <1>3, WriteLocalMoves, Control, ControlNext, Members
  <2> QED
    BY <1>3, <2>2, <2>3, WriteLocalMoves DEF KeepsData, Gathered, Left
<1>4. CASE Upload
  <2>1. OnCourse'
    BY <1>4, UploadMoves DEF KeepsData, OnCourse
  <2>2. Types'
    BY <1>4, <2>1, UploadMoves DEF Types, KeepsData, Upload
  <2> QED
    BY <1>4, <2>2, UploadMoves, Control, ControlNext, Members
       DEF KeepsData, Gathered, Left, Reads, Downloads, Pulls, BothSides
<1>5. CASE DeleteLocal \/ DeleteRemote
  <2>1. OnCourse'
    BY <1>5, DeletesMove DEF KeepsData, OnCourse
  <2>2. Types'
    <3>1. UNCHANGED <<strategy, copies, rec, base, made, dropped, stops>>
      BY <1>5 DEF DeleteLocal, DeleteRemote
    <3>2. local' \in Version /\ remote' \in Version /\ seen' \in Version
      BY <1>5 DEF DeleteLocal, DeleteRemote, Types, Version
    <3> QED
      BY <1>5, <2>1, <3>1, <3>2, DeletesMove DEF Types, KeepsData
  <2> QED
    BY <1>5, <2>2, DeletesMove DEF KeepsData, Gathered, Reads, Downloads, Pulls, BothSides
<1>6. CASE HashPushed
  <2>1. OnCourse'
    BY <1>6, HashPushedMoves DEF OnCourse
  <2>2. Types'
    BY <1>6, <2>1, HashPushedMoves DEF Types, HashPushed
  <2> QED
    BY <1>6, <2>2, HashPushedMoves, Control, ControlNext, Members
       DEF Gathered, Left, Reads, Downloads, Pulls, BothSides
<1>7. CASE StatLocal
  <2>1. OnCourse'
    BY <1>7, StatLocalMoves DEF OnCourse, Conflicts
  <2>2. Types'
    BY <1>7, <2>1, StatLocalMoves DEF Types, StatLocal
  <2> QED
    BY <1>7, <2>2, StatLocalMoves, Control, ControlNext, Members
       DEF Gathered, Left, Reads, Downloads, Pulls, BothSides
<1>8. CASE PutRecord
  <2>1. OnCourse'
    BY <1>8, PutRecordMoves, EndedMeans DEF KeepsData, OnCourse, Conflicts
  <2>2. rec'.l \in Version /\ rec'.m \in Version \cup {Unknown} /\ rec'.r \in Version
    BY <1>8 DEF PutRecord, MtimeTaken, Types
  <2>3. /\ act'.kind \in Kinds /\ act'.known \in BOOLEAN /\ IsAction(act')
        /\ act'.planned \in Version /\ act'.mine \in Version /\ act'.theirs \in Version
        /\ act'.merged \in Version /\ act'.hashed \in Version
    BY <1>8, PutRecordMoves, EndedMeans DEF KeepsData, Types, Kinds, Version
  <2>4. Types'
    BY <1>8, <2>1, <2>2, <2>3 DEF Types, PutRecord
  <2>5. CASE act' = Idle
    BY <2>4, <2>5, EndedMeans DEF Gathered, Reads, Downloads, Pulls, BothSides
  <2>6. CASE act'.todo = ToBase /\ act.todo = Commit /\ KeepsData
    <3>1. /\ "download" \notin StepsLeft /\ "download" \notin StepsLeft'
          /\ "readLocal" \notin StepsLeft /\ "readLocal" \notin StepsLeft'
      BY <2>6, Control, ControlNext, Members
    <3> QED
      BY <2>4, <2>6, <3>1 DEF KeepsData, Gathered, Left
  <2> QED
    BY <1>8, <2>5, <2>6, PutRecordMoves
<1>9. CASE PutBase \/ DropRecord
  <2>1. act' = Idle
    BY <1>9, LastMoves
  <2>2. OnCourse' /\ Gathered'
    BY <2>1, EndedMeans DEF OnCourse, Gathered, Reads, Downloads, Pulls, BothSides
  <2>3. /\ base' \in Version
        /\ rec'.l \in Version /\ rec'.m \in Version \cup {Unknown} /\ rec'.r \in Version
    BY <1>9 DEF PutBase, DropRecord, NoRecord, Types, Version
  <2>4. /\ act'.kind \in Kinds /\ act'.known \in BOOLEAN /\ IsAction(act')
        /\ act'.planned \in Version /\ act'.mine \in Version /\ act'.theirs \in Version
        /\ act'.merged \in Version /\ act'.hashed \in Version
    BY <2>1, EndedMeans DEF Kinds, Version
  <2> QED
    BY <1>9, <2>2, <2>3, <2>4 DEF Types, PutBase, DropRecord
<1> QED
  BY <1>1, <1>2, <1>3, <1>4, <1>5, <1>6, <1>7, <1>8, <1>9

LEMMA TypesOutside ==
  ASSUME TypeInv,
         RestoreLocal \/ Stop \/ EditLocal \/ DropLocal \/ OthersEdit \/ OthersDrop
  PROVE  TypeInv'
<1> USE DEF TypeInv
<1>1. CASE RestoreLocal \/ Stop
  <2>1. act' = Idle
    BY <1>1 DEF RestoreLocal, Stop
  <2>2. OnCourse' /\ Gathered'
    BY <2>1, EndedMeans DEF OnCourse, Gathered, Reads, Downloads, Pulls, BothSides
  <2>3. local' \in Version /\ stops' \in Nat
    BY <1>1 DEF RestoreLocal, Stop, Types
  <2>4. /\ act'.kind \in Kinds /\ act'.known \in BOOLEAN /\ IsAction(act')
        /\ act'.planned \in Version /\ act'.mine \in Version /\ act'.theirs \in Version
        /\ act'.merged \in Version /\ act'.hashed \in Version
    BY <2>1, EndedMeans DEF Kinds, Version
  <2> QED
    BY <1>1, <2>2, <2>3, <2>4 DEF Types, RestoreLocal, Stop
<1>2. CASE EditLocal \/ DropLocal \/ OthersEdit \/ OthersDrop
  <2>1. UNCHANGED <<strategy, seen, copies, rec, base, act, stops>>
    BY <1>2 DEF EditLocal, DropLocal, OthersEdit, OthersDrop
  <2>2. OnCourse' /\ Gathered'
    BY <2>1 DEF Types, OnCourse, Gathered, Left, StepsLeft
  <2>3. local' \in Version /\ remote' \in Version /\ made' \in 0..MaxEdits
    BY <1>2, EditedIsContent DEF EditLocal, DropLocal, OthersEdit, OthersDrop, Types, Version
  <2>4. dropped' \subseteq 1..MaxEdits
    BY <1>2 DEF EditLocal, DropLocal, OthersEdit, OthersDrop, Types, Version, Content
  <2> QED
    BY <2>1, <2>2, <2>3, <2>4 DEF Types
<1> QED
  BY <1>1, <1>2

LEMMA TypesNext == TypeInv /\ [Next]_vars => TypeInv'
<1> SUFFICES ASSUME TypeInv, [Next]_vars PROVE TypeInv'
  OBVIOUS
<1>1. ASSUME NEW stated \in BOOLEAN, Detect(stated) PROVE TypeInv'
  BY <1>1, DecideKinds, TypesBegin DEF Detect
<1>2. CASE PullSingle
  BY <1>2, TypesBegin DEF PullSingle, Kinds
<1>3. CASE Execute
  BY <1>3, TypesReads, TypesSteps DEF Execute
<1>4. CASE RestoreLocal \/ Stop \/ EditLocal \/ DropLocal \/ OthersEdit \/ OthersDrop
  BY <1>4, TypesOutside
<1>5. CASE UNCHANGED vars
  BY <1>5 DEF vars, TypeInv, Types, OnCourse, Gathered, Left, StepsLeft
<1> QED
  BY <1>1, <1>2, <1>3, <1>4, <1>5 DEF Next

(* A file's action is always at a step of the list it was begun with, and   *)
(* knows a side exactly when it has read it.                               *)
THEOREM StepsInOrder == Spec => []TypeInv
  BY TypesInit, TypesNext, PTL DEF Spec

(* What a step that is still to come, or a side that is known, says of where *)
(* the action stands.                                                      *)
LEMMA Ahead ==
  ASSUME Types
  PROVE  /\ act.kind \in {"keepRemote", "merge", "winnerRemote"} /\ Left("writeLocal") =>
              Left("statLocal")
         /\ act.kind = "merge" /\ Now = "upload" => Left("statLocal") /\ ~Left("readLocal")
         /\ act.kind = "push" => Left("putBase")
         /\ act.kind \in {"push", "keepLocal"} /\ Left("readLocal") => Left("upload")
         /\ act.kind = "match" /\ Now = "putRecord" => Left("putBase")
         /\ Now = "upload" => Left("upload")
         /\ Now = "putBase" => Left("putBase")
         /\ Now = "deleteRemote" => Left("deleteRemote")
         /\ Now = "statLocal" => Left("statLocal") /\ ~Left("readLocal") /\ ~Left("download")
<1>1. CASE act.kind = "push"
  BY <1>1, Control, Heads, Members, AllMembers DEF Types, OnCourse, Left
<1>2. CASE act.kind \in {"keepLocal", "keepRemote"}
  BY <1>2, Control, Heads, Members, AllMembers DEF Types, OnCourse, Left
<1>3. CASE act.kind = "merge"
  BY <1>3, Control, Heads, Members, AllMembers DEF Types, OnCourse, Left
<1>4. CASE act.kind = "winnerRemote"
  BY <1>4, Control, Heads, Members, AllMembers DEF Types, OnCourse, Left
<1>5. CASE act.kind = "match"
  BY <1>5, Control, Heads, Members, AllMembers DEF Types, OnCourse, Left
<1>6. /\ Now = "upload" => Left("upload")
      /\ Now = "putBase" => Left("putBase")
      /\ Now = "deleteRemote" => Left("deleteRemote")
      /\ Now = "statLocal" => Left("statLocal") /\ ~Left("readLocal") /\ ~Left("download")
  BY Position, Control, Members, AllMembers DEF Left
<1> QED
  BY <1>1, <1>2, <1>3, <1>4, <1>5, <1>6

LEMMA ReadIsKnown ==
  ASSUME TypeInv
  PROVE  /\ act.kind \in {"push", "keepLocal", "merge", "winnerLocal", "winnerRemote", "duplicate"}
              /\ ~Left("readLocal") => act.mine # Absent
         /\ act.kind \in BothSides /\ ~Left("download") => act.theirs # Absent
  BY DEF TypeInv, Gathered, Reads, Downloads, BothSides

-----------------------------------------------------------------------------
(* Where each step leaves the action: the same in terms of Now and Left. *)

LEMMA ReadLocalStands ==
  ASSUME TypeInv, ReadLocal
  PROVE  \/ act.kind = "push" /\ Now' = "upload" /\ Left("readLocal")
            /\ StepsLeft' = {"upload", "hashPushed", "putRecord", "putBase"}
         \/ act.kind = "keepLocal" /\ Now' = "upload" /\ Left("readLocal")
            /\ StepsLeft' = {"upload", "statLocal", "putRecord", "putBase"}
         \/ act.kind = "merge" /\ Now' = "download" /\ Left("upload")
            /\ StepsLeft' =
                 {"download", "writeLocal", "upload", "statLocal", "putRecord", "putBase"}
         \/ act.kind = "winnerLocal" /\ Now' = "download"
            /\ StepsLeft' = {"download", "saveCopy", "upload", "statLocal", "putRecord", "putBase"}
         \/ act.kind = "winnerRemote" /\ Now' = "download"
            /\ StepsLeft' =
                 {"download", "saveCopy", "writeLocal", "statLocal", "putRecord", "putBase"}
         \/ /\ act.kind = "duplicate" /\ Left("upload") /\ ~Left("download")
            /\ act.theirs # Absent
            /\ \/ local = act.theirs /\ Now' = "statLocal"
                  /\ StepsLeft' = {"statLocal", "putRecord", "putBase"}
               \/ Now' = "saveCopy"
                  /\ StepsLeft' = {"saveCopy", "upload", "statLocal", "putRecord", "putBase"}
<1> USE DEF TypeInv
<1>1. CASE act.kind = "duplicate"
  <2>1. StepsLeft = {"readLocal", "saveCopy", "upload", "statLocal", "putRecord", "putBase"}
    BY <1>1, ReadLocalMoves, Control, Members
  <2>2. Left("upload") /\ ~Left("download") /\ act.theirs # Absent
    BY <1>1, <2>1, ReadIsKnown DEF Left, BothSides
  <2> QED
    BY <1>1, <2>2, ReadLocalMoves, ControlNext, Heads, Members
<1>2. CASE act.kind # "duplicate"
  BY <1>2, ReadLocalMoves, Control, ControlNext, Heads, Members, AllMembers DEF Left
<1> QED
  BY <1>1, <1>2

(* The merge failed; both sides are read again. *)
LEMMA DownloadFallsBack ==
  ASSUME TypeInv, Download, act'.kind # act.kind
  PROVE  /\ act'.kind \in {"winnerLocal", "winnerRemote", "duplicate"}
         /\ act'.mine = Absent /\ act'.theirs = Absent /\ Now' \in {"readLocal", "download"}
         /\ Left("readLocal")' /\ Left("download")'
  BY DownloadMoves, ControlNext, Heads, AllMembers DEF TypeInv, Left

LEMMA DownloadStands ==
  ASSUME TypeInv, Download, act'.kind = act.kind
  PROVE  \/ /\ act.kind = "pull" /\ Now' = "checkLocal"
            /\ StepsLeft' = {"checkLocal", "writeLocal", "putRecord", "putBase"}
         \/ /\ act.kind = "pullSingle" /\ Now' = "writeLocal" /\ Left("writeLocal")
            /\ StepsLeft' = {"writeLocal", "putRecord"}
         \/ /\ act.kind = "keepRemote" /\ Now' = "writeLocal" /\ Left("writeLocal")
            /\ StepsLeft' = {"writeLocal", "statLocal", "putRecord", "putBase"}
         \/ /\ act.kind = "duplicate" /\ Now' = "readLocal"
            /\ StepsLeft' =
                 {"readLocal", "saveCopy", "upload", "statLocal", "putRecord", "putBase"}
         \/ /\ act.kind = "merge" /\ Now' = "writeLocal"
            /\ ~Left("readLocal") /\ Left("writeLocal") /\ Left("upload")
            /\ StepsLeft' = {"writeLocal", "upload", "statLocal", "putRecord", "putBase"}
         \/ /\ act.kind = "winnerLocal" /\ ~Left("readLocal") /\ Left("statLocal")
            /\ \/ act.mine = remote /\ Now' = "statLocal"
                  /\ StepsLeft' = {"statLocal", "putRecord", "putBase"}
               \/ Now' = "saveCopy"
                  /\ StepsLeft' = {"saveCopy", "upload", "statLocal", "putRecord", "putBase"}
         \/ /\ act.kind = "winnerRemote" /\ ~Left("readLocal") /\ Left("writeLocal")
            /\ \/ act.mine = remote /\ Now' = "statLocal"
                  /\ StepsLeft' = {"statLocal", "putRecord", "putBase"}
               \/ Now' = "saveCopy"
                  /\ StepsLeft' = {"saveCopy", "writeLocal", "statLocal", "putRecord", "putBase"}
  BY DownloadMoves, Control, ControlNext, Heads, Members, AllMembers DEF TypeInv, Left

LEMMA SaveCopyStands ==
  ASSUME Types, SaveCopy
  PROVE  \/ /\ act.kind \in {"winnerLocal", "duplicate"} /\ Now' = "upload"
            /\ StepsLeft = {"saveCopy", "upload", "statLocal", "putRecord", "putBase"}
            /\ StepsLeft' = {"upload", "statLocal", "putRecord", "putBase"}
         \/ /\ act.kind = "winnerRemote" /\ Now' = "writeLocal"
            /\ StepsLeft = {"saveCopy", "writeLocal", "statLocal", "putRecord", "putBase"}
            /\ StepsLeft' = {"writeLocal", "statLocal", "putRecord", "putBase"}
  BY SaveCopyMoves, Control, ControlNext, Heads, Members

LEMMA WriteLocalStands ==
  ASSUME Types, WriteLocal
  PROVE  \/ /\ act.kind = "pull" /\ Now' = "putRecord"
            /\ StepsLeft = {"writeLocal", "putRecord", "putBase"}
            /\ StepsLeft' = {"putRecord", "putBase"}
         \/ /\ act.kind = "pullSingle" /\ Now' = "putRecord"
            /\ StepsLeft = {"writeLocal", "putRecord"} /\ StepsLeft' = {"putRecord"}
         \/ /\ act.kind \in {"keepRemote", "winnerRemote"} /\ Now' = "statLocal"
            /\ StepsLeft = {"writeLocal", "statLocal", "putRecord", "putBase"}
            /\ StepsLeft' = {"statLocal", "putRecord", "putBase"}
         \/ /\ act.kind = "merge" /\ Now' = "upload"
            /\ StepsLeft = {"writeLocal", "upload", "statLocal", "putRecord", "putBase"}
            /\ StepsLeft' = {"upload", "statLocal", "putRecord", "putBase"}
  BY WriteLocalMoves, Control, ControlNext, Heads, Members

LEMMA UploadStands ==
  ASSUME Types, Upload
  PROVE  \/ /\ act.kind = "push" /\ Now' = "hashPushed"
            /\ StepsLeft = {"upload", "hashPushed", "putRecord", "putBase"}
            /\ StepsLeft' = {"hashPushed", "putRecord", "putBase"}
         \/ /\ act.kind \in {"keepLocal", "merge", "winnerLocal", "duplicate"}
            /\ Now' = "statLocal"
            /\ StepsLeft = {"upload", "statLocal", "putRecord", "putBase"}
            /\ StepsLeft' = {"statLocal", "putRecord", "putBase"}
  BY UploadMoves, Control, ControlNext, Heads, Members

LEMMA StatsStand ==
  ASSUME Types, HashPushed \/ StatLocal
  PROVE  /\ Now' = "putRecord" /\ StepsLeft' = {"putRecord", "putBase"}
         /\ \/ HashPushed /\ StepsLeft = {"hashPushed", "putRecord", "putBase"}
            \/ StatLocal /\ StepsLeft = {"statLocal", "putRecord", "putBase"}
  BY HashPushedMoves, StatLocalMoves, Control, ControlNext, Heads, Members

LEMMA PutRecordStands ==
  ASSUME Types, PutRecord, act' # Idle
  PROVE  /\ KeepsData /\ Now' = "putBase" /\ StepsLeft' = {"putBase"}
         /\ StepsLeft = {"putRecord", "putBase"}
  BY PutRecordMoves, Control, ControlNext, Heads, Members

-----------------------------------------------------------------------------
(* An edit is noticed.  Wherever a record has an mtime it is that of the     *)
(* content its hash is of: the file is not edited between the hash and the *)
(* record unless the window "hashing" is open.                             *)

NoHashingWindow == "hashing" \notin Windows

Told ==
  /\ rec.m \in {Unknown, rec.l}
  /\ act.kind \in Pulls /\ ~Left("download") => act.hashed = act.theirs
  /\ Now = "putRecord" /\ act.kind # "match" /\ local # Absent /\ act.known =>
       local = act.hashed

LEMMA ToldInit == Init => Told
  BY Control, Heads DEF Init, Told, NoRecord, Idle, Pulls

LEMMA ToldIdle ==
  ASSUME Told, act' = Idle, rec'.m \in {Unknown, rec'.l}
  PROVE  Told'
  BY EndedMeans DEF Told, Ended, Pulls

LEMMA ToldBegin ==
  ASSUME Told, NEW kind \in Kinds \ {"none"}, Begin(kind), rec' = rec
  PROVE  Told'
<1>1. act'.kind = kind
  BY BeginMoves
<1>2. /\ act'.kind \in Pulls => Left("download")'
      /\ act'.kind # "match" => Now' # "putRecord"
  BY <1>1, BeginStands DEF Downloads
<1> QED
  BY <1>1, <1>2 DEF Told

LEMMA ToldSteps ==
  ASSUME TypeInv, Told, Execute
  PROVE  Told'
<1> USE DEF TypeInv
<1>1. CASE ReadLocal
  <2>1. act'.kind \notin Pulls /\ Now' # "putRecord" /\ rec' = rec
    BY <1>1, ReadLocalMoves, ControlNext, Heads DEF Pulls, ReadLocal
  <2> QED
    BY <2>1 DEF Told
<1>2. CASE Download
  <2>1. Now' # "putRecord" /\ rec' = rec
    BY <1>2, DownloadMoves, ControlNext, Heads DEF Download
  <2>2. act'.kind \in Pulls => act'.hashed = act'.theirs
    BY <1>2, DownloadMoves DEF Pulls
  <2> QED
    BY <2>1, <2>2 DEF Told
<1>3. CASE CheckLocal
  <2>1. Now' # "putRecord" /\ rec' = rec /\ ~Left("download")
    BY <1>3, CheckLocalMoves, Control, ControlNext, Heads, Members DEF CheckLocal, Left
  <2> QED
    BY <1>3, <2>1, CheckLocalMoves DEF Told, KeepsData
<1>4. CASE SaveCopy
  <2>1. Now' # "putRecord" /\ rec' = rec /\ act'.kind \notin Pulls
    BY <1>4, SaveCopyMoves, ControlNext, Heads DEF SaveCopy, KeepsData, Pulls
  <2> QED
    BY <2>1 DEF Told
<1>5. CASE WriteLocal
  <2>1. rec' = rec /\ ~Left("download")
    BY <1>5, WriteLocalMoves, Control, Members DEF WriteLocal, Left
  <2>2. Now' = "putRecord" => act.kind \in Pulls
    BY <1>5, WriteLocalMoves, ControlNext, Heads DEF Pulls
  <2>3. act.kind \in Pulls => local' = act.theirs
    BY <1>5 DEF WriteLocal, Pulls
  <2> QED
    BY <1>5, <2>1, <2>2, <2>3, WriteLocalMoves DEF Told, KeepsData
<1>6. CASE Upload
  <2>1. Now' # "putRecord" /\ rec' = rec /\ act'.kind \notin Pulls
    BY <1>6, UploadMoves, ControlNext, Heads DEF Upload, KeepsData, Pulls
  <2> QED
    BY <2>1 DEF Told
<1>7. CASE DeleteLocal \/ DeleteRemote
  <2>1. Now' # "putRecord" /\ rec' = rec /\ act'.kind \notin Pulls
    BY <1>7, DeletesMove, ControlNext, Heads DEF DeleteLocal, DeleteRemote, KeepsData, Pulls
  <2> QED
    BY <2>1 DEF Told
<1>8. CASE HashPushed
  <2>1. rec' = rec /\ local' = local
    BY <1>8 DEF HashPushed
  <2> QED
    BY <1>8, <2>1, HashPushedMoves DEF Told, Pulls
<1>9. CASE StatLocal
  <2>1. rec' = rec /\ local' = local
    BY <1>9 DEF StatLocal
  <2> QED
    BY <1>9, <2>1, StatLocalMoves DEF Told, Pulls, Conflicts
<1>10. CASE PutRecord
  <2>1. rec'.m \in {Unknown, rec'.l}
    BY <1>10, PutRecordMoves DEF PutRecord, MtimeTaken, Told
  <2>2. CASE act' = Idle
    BY <2>1, <2>2, ToldIdle
  <2>3. CASE act' # Idle
    <3>1. act'.todo = ToBase /\ KeepsData /\ act.todo = Commit /\ Now' # "putRecord"
      BY <1>10, <2>3, PutRecordMoves, ControlNext, Heads
    <3>2. ~Left("download")
      BY <3>1, Control, Members DEF Left
    <3> QED
      BY <2>1, <3>1, <3>2 DEF Told, KeepsData
  <2> QED
    BY <2>2, <2>3
<1>11. CASE PutBase \/ DropRecord
  BY <1>11, LastMoves, ToldIdle DEF PutBase, DropRecord, NoRecord, Told
<1> QED
  BY <1>1, <1>2, <1>3, <1>4, <1>5, <1>6, <1>7, <1>8, <1>9, <1>10, <1>11 DEF Execute

LEMMA ToldOutside ==
  ASSUME NoHashingWindow, TypeInv, Told,
         EditLocal \/ DropLocal \/ OthersEdit \/ OthersDrop
  PROVE  Told'
<1>1. UNCHANGED <<rec, act>>
  BY DEF EditLocal, DropLocal, OthersEdit, OthersDrop
<1>2. Now' = Now /\ StepsLeft' = StepsLeft
  BY <1>1 DEF Now, StepsLeft
<1>3. CASE EditLocal \/ DropLocal
  <2>1. "hashing" \notin WindowsNow
    BY <1>3 DEF EditLocal, DropLocal, NoHashingWindow
  <2>2. ~(Now = "putRecord" /\ act.kind # "match")
    BY <2>1, Control DEF WindowsNow, LocalWindows
  <2> QED
    BY <1>1, <1>2, <2>2 DEF Told, Left
<1>4. CASE OthersEdit \/ OthersDrop
  BY <1>1, <1>2, <1>4 DEF OthersEdit, OthersDrop, Told, Left
<1> QED
  BY <1>3, <1>4

LEMMA ToldNext == ASSUME NoHashingWindow PROVE TypeInv /\ Told /\ [Next]_vars => Told'
<1> SUFFICES ASSUME TypeInv, Told, [Next]_vars PROVE Told'
  OBVIOUS
<1>1. ASSUME NEW stated \in BOOLEAN, Detect(stated) PROVE Told'
  BY <1>1, DecideKinds, ToldBegin DEF Detect
<1>2. CASE PullSingle
  BY <1>2, ToldBegin DEF PullSingle, Kinds
<1>3. CASE Execute
  BY <1>3, ToldSteps
<1>4. CASE RestoreLocal \/ Stop
  BY <1>4, ToldIdle DEF RestoreLocal, Stop, Told
<1>5. CASE EditLocal \/ DropLocal \/ OthersEdit \/ OthersDrop
  BY <1>5, ToldOutside
<1>6. CASE UNCHANGED vars
  BY <1>6 DEF vars, Told, Left, StepsLeft, Now
<1> QED
  BY <1>1, <1>2, <1>3, <1>4, <1>5, <1>6 DEF Next

(* An edit the record does not know shows in a listing without hashes as    *)
(* well as in a stat, whatever happens before it, while and after the file *)
(* is synchronized (localEntityForPushedContent, executeConflictAction),    *)
(* provided LocalFs takes hash and mtime of one content.                   *)
THEOREM EditsAreNoticed == ASSUME NoHashingWindow PROVE Spec => []EditsNoticed
<1>1. Told => EditsNoticed
  BY DEF Told, EditsNoticed, LocalChanged
<1> QED
  BY <1>1, TypesInit, TypesNext, ToldInit, ToldNext, PTL DEF Spec


-----------------------------------------------------------------------------
(* No edit is lost. *)

Elsewhere == copies \cup dropped

OnLocal(v)  == Shown(v) \subseteq Shown(local) \cup Elsewhere
OnRemote(v) == Shown(v) \subseteq Shown(remote) \cup Elsewhere

(* The edits of v are in w or safe without it. *)
Covered(v, w) == Shown(v) \subseteq Shown(w) \cup Elsewhere

NoWindows == Windows = {}

(* Between actions. *)
Settled ==
  /\ NoEditLost
  /\ OnRemote(rec.l) /\ OnLocal(rec.r)
  /\ strategy = "auto_merge" => OnLocal(base) /\ OnRemote(base)
  /\ OnRemote(seen)

Sides == OnLocal(act.mine) /\ OnRemote(act.theirs)

(* What is downloaded shows all that the plan knew of. *)
Fetched ==
  /\ act.kind \in Pulls => OnRemote(act.planned)
  /\ act.kind \in Pulls /\ ~Left("download") => Covered(act.planned, act.theirs)
  /\ act.kind \in Downloads /\ ~Left("download") /\ (act.kind \in Meeting => Left("upload"))
       => Covered(seen, act.theirs)

(* A merge takes away only what is safe elsewhere, and can be undone. *)
Merging ==
  act.kind = "merge" /\ Left("upload") =>
    /\ strategy = "auto_merge" /\ base # Absent
    /\ ~Left("readLocal") => Covered(base, act.mine) /\ Covered(rec.r, act.mine)
    /\ ~Left("download") =>
         /\ Covered(base, act.theirs) /\ act.merged # Absent
         /\ Covered(act.mine, act.merged) /\ Covered(act.theirs, act.merged)
         /\ act.merged \subseteq act.mine \cup act.theirs

(* The vault's file stands still while it matters. *)
Standing ==
  /\ act.kind = "pullSingle" /\ Left("writeLocal") => local = act.planned
  /\ act.kind = "pull" /\ Now = "writeLocal" => local = act.planned
  /\ act.kind = "keepRemote" /\ Left("writeLocal") => local = Absent
  /\ act.kind \in {"keepLocal", "winnerLocal", "duplicate"} /\ ~Left("readLocal")
       /\ Left("statLocal") => local = act.mine
  /\ act.kind \in {"merge", "winnerRemote"} /\ ~Left("readLocal") /\ Left("writeLocal") =>
       local = act.mine
  /\ act.kind = "merge" /\ Now = "upload" => local = act.merged
  /\ act.kind = "push" /\ strategy = "auto_merge" /\ ~Left("readLocal") => local = act.mine
  /\ Now = "deleteLocal" => Shown(local) \subseteq Elsewhere
  /\ act.kind = "winnerRemote" /\ Now = "writeLocal" => Shown(act.mine) \subseteq Elsewhere

(* The remote file that is to be overwritten or deleted shows nothing more *)
(* than what takes its place.                                              *)
Replaceable ==
  /\ act.kind \in {"push", "keepLocal"} /\ Left("readLocal") => Covered(remote, local)
  /\ act.kind \in {"push", "keepLocal"} /\ Now = "upload" => Covered(remote, act.mine)
  /\ act.kind \in BothSides /\ ~Left("download") /\ Left("upload") =>
       Covered(remote, act.theirs)
  /\ act.kind \in {"winnerLocal", "duplicate"} /\ Now = "upload" =>
       Shown(act.theirs) \subseteq Elsewhere
  /\ Now = "deleteRemote" => Shown(remote) \subseteq Elsewhere

(* What will be recorded is safe on the other side. *)
Recordable ==
  /\ Now = "statLocal" => local # Absent /\ OnRemote(local) /\ OnLocal(seen)
  /\ Now = "hashPushed" => OnRemote(act.mine) /\ OnLocal(seen)
  /\ Now = "putRecord" => OnRemote(act.hashed) /\ OnLocal(seen)
  /\ strategy = "auto_merge" /\ Now \in {"putRecord", "putBase"} => OnRemote(local)

KeptInv == /\ Settled /\ Sides /\ Fetched /\ Merging /\ Standing /\ Replaceable /\ Recordable

Base == TypeInv /\ Told

-----------------------------------------------------------------------------
(* A step that takes no edit from a side keeps the ledger. *)
Grows == /\ Shown(local) \cup Elsewhere \subseteq Shown(local)' \cup Elsewhere'
         /\ Shown(remote) \cup Elsewhere \subseteq Shown(remote)' \cup Elsewhere'
         /\ Elsewhere \subseteq Elsewhere'

LEMMA SettledGrows ==
  ASSUME Settled, Grows, UNCHANGED <<strategy, rec, base, made>>,
         Shown(seen)' \subseteq Shown(remote)' \cup Elsewhere'
  PROVE  Settled'
  BY DEF Settled, Grows, NoEditLost, OnLocal, OnRemote, Elsewhere, Shown

LEMMA KeptIdle ==
  ASSUME Settled', act' = Idle
  PROVE  KeptInv'
<1>1. Now' = "end" /\ StepsLeft' = {} /\ act'.kind = "none" /\ act'.mine = Absent
      /\ act'.theirs = Absent
  BY EndedMeans DEF Ended
<1>2. Sides'
  BY <1>1 DEF Sides, OnLocal, OnRemote, Shown
<1>3. Fetched' /\ Merging' /\ Standing' /\ Replaceable' /\ Recordable'
  BY <1>1 DEF Fetched, Merging, Standing, Replaceable, Recordable, Left, Pulls, Downloads,
              BothSides
<1> QED
  BY <1>2, <1>3 DEF KeptInv

LEMMA KeptInit == Init => KeptInv
<1> SUFFICES ASSUME Init PROVE KeptInv
  OBVIOUS
<1>1. Now = "end" /\ StepsLeft = {} /\ act.kind = "none" /\ act.mine = Absent
      /\ act.theirs = Absent
  BY Control, Heads, Members DEF Init, Idle
<1>2. NoEditLost
  <2>1. {1} # Absent
    BY ContentIsNotAbsent, TransferAssumption DEF Content
  <2>2. CASE {1} \in {local, remote}
    BY <2>1, <2>2 DEF Init, NoEditLost, Shown
  <2>3. CASE {1} \notin {local, remote}
    BY <2>3 DEF Init, NoEditLost
  <2> QED
    BY <2>2, <2>3
<1>3. Settled
  BY <1>2 DEF Init, Settled, OnLocal, OnRemote, Shown, NoRecord
<1>4. Sides
  BY <1>1 DEF Sides, OnLocal, OnRemote, Shown
<1>5. Fetched /\ Merging /\ Standing /\ Replaceable /\ Recordable
  BY <1>1 DEF Fetched, Merging, Standing, Replaceable, Recordable, Left, Pulls, Downloads,
              BothSides
<1> QED
  BY <1>3, <1>4, <1>5 DEF KeptInv

-----------------------------------------------------------------------------
(* The user and the other devices. *)

LEMMA KeptOutside ==
  ASSUME NoWindows, Base, KeptInv, EditLocal \/ DropLocal \/ OthersEdit \/ OthersDrop
  PROVE  KeptInv'
<1> USE DEF Base, TypeInv, KeptInv
<1>1. UNCHANGED <<strategy, seen, copies, rec, base, act, stops>>
  BY DEF EditLocal, DropLocal, OthersEdit, OthersDrop
<1>2. Now' = Now /\ StepsLeft' = StepsLeft
  BY <1>1 DEF Now, StepsLeft
<1>3. Grows
  <2>1. CASE EditLocal
    BY <2>1, <1>1, EditedIsContent, ContentIsNotAbsent DEF EditLocal, Grows, Elsewhere, Shown, Types
  <2>2. CASE DropLocal
    BY <2>2, <1>1 DEF DropLocal, Grows, Elsewhere, Shown
  <2>3. CASE OthersEdit
    BY <2>3, <1>1, EditedIsContent, ContentIsNotAbsent
       DEF OthersEdit, Grows, Elsewhere, Shown, Types
  <2>4. CASE OthersDrop
    BY <2>4, <1>1 DEF OthersDrop, Grows, Elsewhere, Shown
  <2> QED
    BY <2>1, <2>2, <2>3, <2>4
<1>4. Settled'
  <2>1. NoEditLost'
    <3>1. CASE EditLocal
      <4>1. local' = Edited(local) /\ made' = made + 1 /\ made + 1 \in Shown(local')
        BY <3>1, EditedIsContent, ContentIsNotAbsent DEF EditLocal, Types, Shown
      <4>2. 1..(made + 1) \subseteq 1..made \cup {made + 1}
        BY DEF Types
      <4> QED
        BY <3>1, <4>1, <4>2, <1>3 DEF EditLocal, Settled, NoEditLost, Grows, Elsewhere
    <3>2. CASE OthersEdit
      <4>1. remote' = Edited(remote) /\ made' = made + 1 /\ made + 1 \in Shown(remote')
        BY <3>2, EditedIsContent, ContentIsNotAbsent DEF OthersEdit, Types, Shown
      <4>2. 1..(made + 1) \subseteq 1..made \cup {made + 1}
        BY DEF Types
      <4> QED
        BY <3>2, <4>1, <4>2, <1>3 DEF OthersEdit, Settled, NoEditLost, Grows, Elsewhere
    <3>3. CASE DropLocal \/ OthersDrop
      BY <3>3, <1>3 DEF DropLocal, OthersDrop, Settled, NoEditLost, Grows, Elsewhere
    <3> QED
      BY <3>1, <3>2, <3>3
  <2> QED
    BY <2>1, <1>1, <1>3 DEF Settled, Grows, OnLocal, OnRemote, Elsewhere
<1>5. Sides'
  BY <1>1, <1>3 DEF Sides, Grows, OnLocal, OnRemote, Elsewhere
<1>6. Fetched'
  BY <1>1, <1>2, <1>3 DEF Fetched, Grows, OnRemote, Covered, Left
<1>7. Merging'
  BY <1>1, <1>2, <1>3 DEF Merging, Grows, Covered, Left
<1>8. Standing'
  <2>1. CASE OthersEdit \/ OthersDrop
    BY <2>1, <1>1, <1>2, <1>3 DEF OthersEdit, OthersDrop, Standing, Grows, Left
  <2>2. CASE EditLocal \/ DropLocal
    <3>1. WindowsNow = {}
      BY <2>2 DEF EditLocal, DropLocal, NoWindows
    <3>2. /\ ~(act.kind = "pullSingle" /\ Left("writeLocal"))
          /\ ~(act.kind = "pull" /\ Now = "writeLocal")
          /\ ~(act.kind \in Conflicts /\ Left("statLocal")
               /\ (act.kind = "keepRemote" \/ act.mine # Absent))
          /\ Now # "deleteLocal"
          /\ ~(strategy = "auto_merge" /\ act.kind = "push" /\ act.mine # Absent
               /\ Left("putBase"))
      BY <3>1, Control DEF WindowsNow, LocalWindows, Left, BaseDrifts
    <3> QED
      BY <1>1, <1>2, <1>3, <3>2, Ahead, ReadIsKnown DEF Standing, Grows, Left, Conflicts
  <2> QED
    BY <2>1, <2>2
<1>9. Replaceable'
  <2>1. CASE EditLocal \/ DropLocal
    BY <2>1, <1>1, <1>2, <1>3 DEF EditLocal, DropLocal, Replaceable, Grows, Covered, Left
  <2>2. CASE OthersEdit
    <3>1. ~Overwriting
      BY <2>2 DEF OthersEdit, NoWindows
    <3>2. /\ ~(act.kind \in {"push", "keepLocal"} /\ Left("upload"))
          /\ ~(act.kind \in BothSides /\ ~Left("download") /\ Left("upload"))
          /\ Now # "deleteRemote"
      BY <3>1, Ahead, ReadIsKnown DEF Overwriting, Left
    <3> QED
      BY <1>1, <1>2, <1>3, <3>2, Ahead DEF Replaceable, Grows, Left
  <2>3. CASE OthersDrop
    BY <2>3, <1>1, <1>2, <1>3 DEF OthersDrop, Replaceable, Grows, Covered, Left, Shown
  <2> QED
    BY <2>1, <2>2, <2>3
<1>10. Recordable'
  <2>1. CASE OthersEdit \/ OthersDrop
    BY <2>1, <1>1, <1>2, <1>3
       DEF OthersEdit, OthersDrop, Recordable, Grows, OnLocal, OnRemote, Elsewhere
  <2>2. CASE EditLocal \/ DropLocal
    <3>1. WindowsNow = {}
      BY <2>2 DEF EditLocal, DropLocal, NoWindows
    <3>2. Now # "statLocal"
      BY <3>1, Control, Position, Ahead, ReadIsKnown DEF WindowsNow, LocalWindows, Left, Conflicts
    <3>3. ~(strategy = "auto_merge" /\ Now \in {"putRecord", "putBase"})
      BY <3>1, Control, Position, Ahead DEF WindowsNow, LocalWindows, Left, BaseDrifts
    <3> QED
      BY <2>2, <1>1, <1>2, <1>3, <3>2, <3>3
         DEF EditLocal, DropLocal, Recordable, Grows, OnLocal, OnRemote, Elsewhere
  <2> QED
    BY <2>1, <2>2
<1> QED
  BY <1>4, <1>5, <1>6, <1>7, <1>8, <1>9, <1>10

-----------------------------------------------------------------------------
(* Reading the two sides. *)

LEMMA KeptReadLocal ==
  ASSUME Base, KeptInv, ReadLocal
  PROVE  KeptInv'
<1> USE DEF Base, TypeInv, KeptInv
<1>1. UNCHANGED <<strategy, local, remote, seen, copies, rec, base, made, dropped, stops>>
  BY DEF ReadLocal
<1>2. /\ Now = "readLocal" /\ local # Absent /\ act'.kind = act.kind /\ act'.mine = local
      /\ act'.planned = act.planned /\ act'.theirs = act.theirs /\ act'.merged = act.merged
      /\ act'.hashed = act.hashed
  BY ReadLocalMoves
<1>6. Settled'
  BY <1>1 DEF Settled, NoEditLost, OnLocal, OnRemote, Elsewhere
<1>7. Sides'
  BY <1>1, <1>2 DEF Sides, OnLocal, OnRemote, Elsewhere
<1>8. Fetched'
  BY <1>1, <1>2, ReadLocalStands
     DEF Fetched, Left, OnRemote, Covered, Elsewhere, Pulls, Downloads, BothSides, Meeting
<1>9. Merging'
  BY <1>1, <1>2, ReadLocalStands DEF Merging, Left, Settled, OnLocal, Covered, Elsewhere
<1>10. Standing'
  BY <1>1, <1>2, ReadLocalStands DEF Standing, Left
<1>11. Replaceable'
  BY <1>1, <1>2, ReadLocalStands DEF Replaceable, Left, Covered, Elsewhere, BothSides
<1>12. Recordable'
  <2>1. CASE act.kind = "duplicate" /\ local = act.theirs /\ Now' = "statLocal"
    BY <2>1, <1>1, <1>2, ReadLocalStands
       DEF Recordable, Fetched, Sides, OnLocal, OnRemote, Covered, Elsewhere, Downloads, BothSides
  <2>2. CASE Now' \in {"upload", "download", "saveCopy"}
    BY <2>2 DEF Recordable
  <2> QED
    BY ReadLocalStands, <2>1, <2>2
<1> QED
  BY <1>6, <1>7, <1>8, <1>9, <1>10, <1>11, <1>12

(* Of a base that both sides cover, a merge takes away nothing that is not  *)
(* safe elsewhere.                                                         *)
LEMMA MergeCovers ==
  ASSUME NEW b \in Content, NEW mine \in Content, NEW theirs \in Content,
         NEW m \in Merges(b, mine, theirs), Covered(b, mine), Covered(b, theirs)
  PROVE  /\ Covered(mine, m) /\ Covered(theirs, m) /\ m \subseteq mine \cup theirs
         /\ m \in Content /\ m # Absent
<1>1. Shown(b) = b /\ Shown(mine) = mine /\ Shown(theirs) = theirs
  BY ContentIsNotAbsent DEF Shown
<1>2. m \in Content /\ m # Absent /\ Shown(m) = m
  BY MergesAreContents, ContentIsNotAbsent DEF Shown
<1>3. CASE m = mine \cup theirs
  BY <1>1, <1>2, <1>3 DEF Covered
<1>4. CASE m = (mine \cap theirs) \cup (mine \ b) \cup (theirs \ b)
  BY <1>1, <1>2, <1>4 DEF Covered
<1> QED
  BY <1>2, <1>3, <1>4 DEF Merges

LEMMA KeptDownload ==
  ASSUME Base, KeptInv, Download
  PROVE  KeptInv'
<1> USE DEF Base, TypeInv, KeptInv
<1>1. UNCHANGED <<strategy, local, remote, seen, copies, rec, base, made, dropped, stops>>
  BY DEF Download
<1>2. /\ Now = "download" /\ remote # Absent /\ Left("download")
      /\ act'.planned = act.planned /\ act'.hashed = remote
  BY DownloadMoves, Control, Members, AllMembers DEF Left
<1>3. Settled'
  BY <1>1 DEF Settled, NoEditLost, OnLocal, OnRemote, Elsewhere
<1>4. ASSUME act'.kind # act.kind PROVE KeptInv'
  <2>1. /\ act'.kind \in {"winnerLocal", "winnerRemote", "duplicate"}
        /\ act'.mine = Absent /\ act'.theirs = Absent /\ Now' \in {"readLocal", "download"}
        /\ Left("readLocal")' /\ Left("download")'
    BY <1>4, DownloadFallsBack
  <2>2. Sides'
    BY <2>1 DEF Sides, OnLocal, OnRemote, Shown
  <2>3. Fetched' /\ Merging' /\ Standing' /\ Replaceable' /\ Recordable'
    BY <2>1 DEF Fetched, Merging, Standing, Replaceable, Recordable, Pulls
  <2> QED
    BY <1>3, <2>2, <2>3
<1>5. ASSUME act'.kind = act.kind PROVE KeptInv'
  <2>1. /\ act'.mine = act.mine /\ act'.theirs = remote
        /\ act.kind = "merge" => act'.merged \in Merges(base, act.mine, remote)
    BY <1>5, DownloadMoves
  <2>3. Sides'
    BY <1>1, <2>1 DEF Sides, OnLocal, OnRemote, Elsewhere
  <2>4. Fetched'
    BY <1>1, <1>2, <1>5, <2>1 DEF Fetched, Settled, OnRemote, Covered, Elsewhere
  <2>5. Merging'
    <3>1. CASE act.kind = "merge"
      <4>1. /\ strategy = "auto_merge" /\ base \in Content
            /\ Covered(base, act.mine) /\ Covered(rec.r, act.mine)
        BY <1>5, DownloadStands, <3>1 DEF Merging, Types, Version
      <4>2. Covered(base, remote)
        BY <4>1 DEF Settled, OnRemote, Covered
      <4>3. act.mine \in Content /\ remote \in Content
        BY <1>5, <1>2, DownloadStands, <3>1, ReadIsKnown DEF Types, Version
      <4>4. /\ Covered(act.mine, act'.merged) /\ Covered(remote, act'.merged)
            /\ act'.merged \subseteq act.mine \cup remote /\ act'.merged # Absent
        BY <2>1, <3>1, <4>1, <4>2, <4>3, MergeCovers
      <4>5. /\ Covered(base, act.mine)' /\ Covered(rec.r, act.mine)' /\ Covered(base, act.theirs)'
            /\ Covered(act.mine, act.merged)' /\ Covered(act.theirs, act.merged)'
        BY <1>1, <2>1, <4>1, <4>2, <4>4 DEF Covered, Elsewhere, Shown
      <4>6. act'.merged \subseteq act'.mine \cup act'.theirs /\ act'.merged # Absent
        BY <2>1, <4>4
      <4> QED
        BY <1>1, <4>1, <4>5, <4>6, ContentIsNotAbsent DEF Merging
    <3>2. CASE act.kind # "merge"
      BY <1>5, <3>2 DEF Merging
    <3> QED
      BY <3>1, <3>2
  <2>6. Standing'
    BY <1>1, <1>2, <1>5, <2>1, DownloadStands DEF Standing, Left
  <2>7. Replaceable'
    BY <1>1, <1>5, <2>1, DownloadStands DEF Replaceable, Left, Covered, BothSides
  <2>8. Recordable'
    <3>1. CASE Now' = "statLocal"
      <4>1. act.mine = remote /\ local = act.mine
        BY <1>5, DownloadStands, <3>1 DEF Standing
      <4> QED
        BY <1>1, <1>2, <3>1, <4>1 DEF Recordable, Settled, OnLocal, OnRemote, Elsewhere
    <3>2. CASE Now' # "statLocal"
      BY <1>5, DownloadStands, <3>2 DEF Recordable
    <3> QED
      BY <3>1, <3>2
  <2> QED
    BY <1>3, <2>3, <2>4, <2>5, <2>6, <2>7, <2>8
<1> QED
  BY <1>4, <1>5

-----------------------------------------------------------------------------
(* The beginning of an action. *)

(* What a decision says of the two sides. *)
LEMMA DecideMeans ==
  ASSUME NEW stated \in BOOLEAN, NEW kind \in Decide(stated, remote), Types, Told
  PROVE  /\ kind = "push" => local # Absent /\ remote \in {Absent, rec.r}
         /\ kind = "pull" => local \in {Absent, rec.l}
         /\ kind = "match" => local = remote
         /\ kind = "deleteLocal" => remote = Absent /\ local = rec.l
         /\ kind = "deleteRemote" => local = Absent /\ remote = rec.r
         /\ kind = "keepLocal" => remote \in {Absent, local}
         /\ kind = "keepRemote" => local = Absent
         /\ kind = "merge" => strategy = "auto_merge" /\ base # Absent
<1>1. ~LocalChanged(stated) => local = rec.l
  BY DEF LocalChanged, Told
<1> QED
  BY <1>1 DEF Decide, Resolutions, LocalChanged, ChangedAlike

LEMMA KeptBegin ==
  ASSUME Base, KeptInv, NEW kind \in Kinds \ {"none"}, Begin(kind), seen' = remote,
         UNCHANGED <<strategy, local, remote, copies, rec, base, made, dropped, stops>>,
         kind = "push" => local # Absent /\ remote \in {Absent, rec.r},
         kind \in Pulls => local \in {Absent, rec.l},
         kind = "match" => local = remote,
         kind = "deleteLocal" => remote = Absent /\ local = rec.l,
         kind = "deleteRemote" => local = Absent /\ remote = rec.r,
         kind = "keepLocal" => remote \in {Absent, local},
         kind = "keepRemote" => local = Absent,
         kind = "merge" => strategy = "auto_merge" /\ base # Absent
  PROVE  KeptInv'
<1> USE DEF KeptInv
<1>1. /\ act'.kind = kind /\ act'.todo = Steps(kind) /\ act'.planned = local /\ act'.hashed = local
      /\ act'.mine = Absent /\ act'.theirs = Absent
  BY BeginMoves
<1>3. /\ kind \in Reads => Left("readLocal")'
      /\ kind \in Downloads => Left("download")'
      /\ Now' = "putRecord" => kind = "match"
      /\ Now' = "deleteLocal" => kind = "deleteLocal"
      /\ Now' = "deleteRemote" => kind = "deleteRemote"
      /\ Now' \notin {"writeLocal", "upload", "statLocal", "hashPushed", "putBase"}
  BY BeginStands
<1>4. Settled'
  BY DEF Settled, NoEditLost, OnLocal, OnRemote, Elsewhere
<1>5. Sides'
  BY <1>1 DEF Sides, OnLocal, OnRemote, Shown
<1>6. kind \in Pulls => OnRemote(local)
  BY DEF Settled, OnRemote, Shown
<1>7. Fetched'
  BY <1>1, <1>3, <1>6 DEF Fetched, OnRemote, Elsewhere, Pulls, Downloads
<1>8. Merging'
  BY <1>1, <1>3 DEF Merging, Reads, Downloads, BothSides
<1>9. Standing'
  BY <1>1, <1>3 DEF Standing, Settled, OnRemote, Elsewhere, Shown, Reads, BothSides
<1>10. Replaceable'
  BY <1>1, <1>3 DEF Replaceable, Settled, OnLocal, Covered, Elsewhere, Shown, Downloads, BothSides
<1>11. Recordable'
  BY <1>1, <1>3 DEF Recordable, OnLocal, OnRemote, Elsewhere
<1> QED
  BY <1>4, <1>5, <1>7, <1>8, <1>9, <1>10, <1>11

LEMMA KeptDetects ==
  ASSUME Base, KeptInv, (\E stated \in BOOLEAN : Detect(stated)) \/ PullSingle
  PROVE  KeptInv'
<1> USE DEF Base
<1>1. ASSUME NEW stated \in BOOLEAN, Detect(stated) PROVE KeptInv'
  <2>1. PICK kind \in Decide(stated, remote) : Begin(kind)
    BY <1>1 DEF Detect
  <2>2. kind \in Kinds \ {"none", "pullSingle"}
    BY DecideKinds
  <2> QED
    BY <1>1, <2>1, <2>2, DecideMeans, KeptBegin DEF Detect, Pulls, TypeInv
<1>2. CASE PullSingle
  <2>1. local \in {Absent, rec.l}
    BY <1>2 DEF PullSingle, LocalChanged
  <2> QED
    BY <1>2, <2>1, KeptBegin DEF PullSingle, Kinds, Pulls
<1> QED
  BY <1>1, <1>2

-----------------------------------------------------------------------------
(* The steps that write. *)

LEMMA KeptChecksAndCopies ==
  ASSUME Base, KeptInv, CheckLocal \/ SaveCopy
  PROVE  KeptInv'
<1> USE DEF Base, TypeInv, KeptInv
<1>1. CASE CheckLocal
  <2>1. UNCHANGED <<strategy, local, remote, seen, copies, rec, base, made, dropped, stops>>
    BY <1>1 DEF CheckLocal
  <2>2. /\ KeepsData /\ act.kind = "pull" /\ local = act.planned /\ Now' = "writeLocal"
        /\ ~Left("download")
    BY <1>1, CheckLocalMoves, Control, ControlNext, Heads, Members DEF CheckLocal, Left
  <2>3. Settled' /\ Sides'
    BY <2>1, <2>2 DEF Settled, Sides, NoEditLost, OnLocal, OnRemote, Elsewhere, KeepsData
  <2>4. Fetched'
    BY <2>1, <2>2 DEF Fetched, KeepsData, OnRemote, Covered, Elsewhere, Meeting
  <2>5. Merging' /\ Standing' /\ Replaceable' /\ Recordable'
    BY <2>1, <2>2 DEF Merging, Standing, Replaceable, Recordable, KeepsData, BothSides
  <2> QED
    BY <2>3, <2>4, <2>5
<1>2. CASE SaveCopy
  <2>1. UNCHANGED <<strategy, local, remote, seen, rec, base, made, dropped, stops>>
    BY <1>2 DEF SaveCopy
  <2>2. KeepsData /\ Now = "saveCopy"
    BY <1>2, SaveCopyMoves
  <2>4. act.mine # Absent /\ act.theirs # Absent
    BY <1>2, SaveCopyStands, ReadIsKnown DEF Left, BothSides
  <2>5. /\ Elsewhere \subseteq Elsewhere'
        /\ act.kind = "winnerRemote" => Shown(act.mine) \subseteq Elsewhere'
        /\ act.kind # "winnerRemote" => Shown(act.theirs) \subseteq Elsewhere'
    BY <1>2, <2>1, <2>4 DEF SaveCopy, Elsewhere, Shown
  <2>6. Grows
    BY <2>1, <2>5 DEF Grows
  <2>7. Settled'
    BY <2>1, <2>6, SettledGrows DEF Settled, Grows, OnRemote
  <2>8. Sides'
    BY <2>1, <2>2, <2>6 DEF Sides, Grows, OnLocal, OnRemote, KeepsData
  <2>9. Fetched'
    BY <1>2, <2>1, <2>2, SaveCopyStands, <2>5 DEF Fetched, Covered, KeepsData, Left, Pulls
  <2>10. Merging' /\ Recordable'
    BY <1>2, <2>2, SaveCopyStands DEF Merging, Recordable, KeepsData
  <2>11. Standing'
    BY <1>2, <2>1, <2>2, SaveCopyStands, <2>5 DEF Standing, KeepsData, Left
  <2>12. Replaceable'
    BY <1>2, <2>1, <2>2, SaveCopyStands, <2>5 DEF Replaceable, Covered, KeepsData, Left
  <2> QED
    BY <2>7, <2>8, <2>9, <2>10, <2>11, <2>12
<1> QED
  BY <1>1, <1>2
LEMMA KeptWriteLocal ==
  ASSUME Base, KeptInv, WriteLocal
  PROVE  KeptInv'
<1> USE DEF Base, TypeInv, KeptInv
<1>1. UNCHANGED <<strategy, remote, seen, copies, rec, base, made, dropped, stops>>
  BY DEF WriteLocal
<1>2. KeepsData /\ Now = "writeLocal"
  BY WriteLocalMoves
<1>4. local' = IF act.kind = "merge" THEN act.merged ELSE act.theirs
  BY DEF WriteLocal
<1>5. Shown(local) \subseteq Shown(local)' \cup Elsewhere
  <2>1. CASE act.kind \in Pulls
    BY <1>2, WriteLocalStands, <1>4, <2>1 DEF Standing, Fetched, Covered, Pulls, Left, Shown
  <2>2. CASE act.kind = "keepRemote"
    BY WriteLocalStands, <2>2 DEF Standing, Left, Shown
  <2>3. CASE act.kind = "winnerRemote"
    BY <1>2, WriteLocalStands, <2>3 DEF Standing, Left
  <2>4. CASE act.kind = "merge"
    BY WriteLocalStands, <1>4, <2>4 DEF Standing, Merging, Covered, Left, Shown
  <2> QED
    BY WriteLocalStands, <2>1, <2>2, <2>3, <2>4 DEF Pulls
<1>6. Grows
  BY <1>1, <1>5 DEF Grows, Elsewhere, Shown
<1>7. Settled'
  BY <1>1, <1>6, SettledGrows DEF Settled, OnRemote, Elsewhere
<1>8. Sides'
  BY <1>1, <1>2, <1>6 DEF Sides, Grows, OnLocal, OnRemote, KeepsData
<1>9. Fetched'
  BY <1>1, <1>2, WriteLocalStands
     DEF Fetched, Covered, OnRemote, Elsewhere, KeepsData, Left, Pulls, Meeting
<1>10. Merging'
  BY <1>1, <1>2, WriteLocalStands DEF Merging, Covered, Elsewhere, KeepsData, Left
<1>11. Standing'
  BY <1>2, WriteLocalStands, <1>4 DEF Standing, KeepsData, Left
<1>12. Replaceable'
  BY <1>1, <1>2, WriteLocalStands DEF Replaceable, Covered, Elsewhere, KeepsData, Left
<1>13. act.kind # "merge" =>
         /\ local' = act.theirs /\ act.theirs # Absent
         /\ OnRemote(act.theirs) /\ Covered(seen, act.theirs)
  BY WriteLocalStands, <1>4, ReadIsKnown
     DEF Sides, Fetched, Left, Pulls, Downloads, Meeting, Gathered, BothSides
<1>14. act.kind \in Pulls => act.hashed = act.theirs
  BY WriteLocalStands DEF Told, Left, Pulls
<1>15. Recordable'
  BY <1>1, <1>2, WriteLocalStands, <1>13, <1>14
     DEF Recordable, OnLocal, OnRemote, Covered, Elsewhere, KeepsData, Pulls
<1> QED
  BY <1>7, <1>8, <1>9, <1>10, <1>11, <1>12, <1>15

LEMMA KeptUpload ==
  ASSUME Base, KeptInv, Upload
  PROVE  KeptInv'
<1> USE DEF Base, TypeInv, KeptInv
<1>1. UNCHANGED <<strategy, local, copies, rec, base, made, dropped, stops>>
  BY DEF Upload
<1>2. KeepsData /\ Now = "upload"
  BY UploadMoves
<1>4. /\ remote' = IF act.kind = "merge" THEN act.merged ELSE act.mine
      /\ seen' = remote'
  BY DEF Upload
<1>5. act.mine # Absent /\ (act.kind \in BothSides => act.theirs # Absent)
  BY UploadStands, ReadIsKnown DEF Left
<1>6. Shown(remote) \subseteq Shown(remote)' \cup Elsewhere
  <2>1. CASE act.kind \in {"push", "keepLocal"}
    BY <1>2, <1>4, <2>1 DEF Replaceable, Covered, Shown
  <2>2. CASE act.kind \in {"winnerLocal", "duplicate"}
    BY <1>2, UploadStands, <2>2 DEF Replaceable, Covered, Left, BothSides
  <2>3. CASE act.kind = "merge"
    BY UploadStands, <1>4, <2>3 DEF Replaceable, Merging, Covered, Left, BothSides, Shown
  <2> QED
    BY UploadStands, <2>1, <2>2, <2>3
<1>7. Grows
  BY <1>1, <1>6 DEF Grows, Elsewhere, Shown
<1>8. Settled'
  BY <1>1, <1>4, <1>7, SettledGrows
<1>9. Sides'
  BY <1>1, <1>2, <1>7 DEF Sides, Grows, OnLocal, OnRemote, KeepsData
<1>10. Fetched'
  BY <1>2, UploadStands DEF Fetched, KeepsData, Left, Pulls, Downloads, BothSides, Meeting
<1>11. Merging' /\ Replaceable'
  BY <1>2, UploadStands DEF Merging, Replaceable, KeepsData, Left, BothSides
<1>12. Standing'
  BY <1>1, <1>2, UploadStands DEF Standing, KeepsData, Left
<1>13. /\ act.kind = "merge" => local = act.merged /\ act.merged # Absent
       /\ act.kind \in {"keepLocal", "winnerLocal", "duplicate"} => local = act.mine
  BY <1>2, UploadStands DEF Standing, Merging, Left
<1>14. Recordable'
  <2>1. CASE act.kind = "push"
    <3>1. OnRemote(act.mine)'
      BY <1>2, <1>4, <2>1 DEF OnRemote, KeepsData, Shown
    <3>2. OnLocal(seen)'
      BY <1>1, <1>4, <2>1 DEF Sides, OnLocal, Elsewhere, Shown
    <3> QED
      BY UploadStands, <2>1, <3>1, <3>2 DEF Recordable
  <2>2. CASE act.kind # "push"
    <3>1. local' = remote' /\ local' # Absent /\ Now' = "statLocal"
      BY <1>1, UploadStands, <1>4, <1>5, <1>13, <2>2
    <3> QED
      BY <1>4, <3>1 DEF Recordable, OnLocal, OnRemote
  <2> QED
    BY <2>1, <2>2
<1> QED
  BY <1>8, <1>9, <1>10, <1>11, <1>12, <1>14
LEMMA KeptDeletes ==
  ASSUME Base, KeptInv, DeleteLocal \/ DeleteRemote
  PROVE  KeptInv'
<1> USE DEF Base, TypeInv, KeptInv
<1>1. UNCHANGED <<strategy, copies, rec, base, made, dropped, stops>>
  BY DEF DeleteLocal, DeleteRemote
<1>2. /\ KeepsData /\ act.kind \in {"deleteLocal", "deleteRemote"}
      /\ Now' = "dropRecord" /\ StepsLeft' = {"dropRecord"}
  BY DeletesMove, ControlNext, Heads, Members
<1>3. Grows /\ Shown(seen)' \subseteq Shown(remote)' \cup Elsewhere'
  <2>1. CASE DeleteLocal
    <3>1. Shown(local) \subseteq Elsewhere
      BY <2>1, Control DEF DeleteLocal, Standing
    <3> QED
      BY <1>1, <2>1, <3>1 DEF DeleteLocal, Grows, Settled, OnRemote, Elsewhere, Shown
  <2>2. CASE DeleteRemote
    <3>1. Shown(remote) \subseteq Elsewhere
      BY <2>2, Control DEF DeleteRemote, Replaceable
    <3> QED
      BY <1>1, <2>2, <3>1 DEF DeleteRemote, Grows, Elsewhere, Shown
  <2> QED
    BY <2>1, <2>2
<1>4. Settled'
  BY <1>1, <1>3, SettledGrows
<1>5. Sides'
  BY <1>2, <1>3 DEF Sides, Grows, OnLocal, OnRemote, KeepsData
<1>6. Fetched' /\ Merging' /\ Standing' /\ Replaceable' /\ Recordable'
  BY <1>2 DEF Fetched, Merging, Standing, Replaceable, Recordable, KeepsData, Left, Pulls,
              Downloads, BothSides
<1> QED
  BY <1>4, <1>5, <1>6

-----------------------------------------------------------------------------
(* The record and the merge base. *)

LEMMA KeptStats ==
  ASSUME Base, KeptInv, HashPushed \/ StatLocal
  PROVE  KeptInv'
<1> USE DEF Base, TypeInv, KeptInv
<1>1. UNCHANGED <<strategy, local, remote, seen, copies, rec, base, made, dropped, stops>>
  BY DEF HashPushed, StatLocal
<1>2. /\ act'.kind = act.kind /\ act'.planned = act.planned /\ act'.mine = act.mine
      /\ act'.theirs = act.theirs /\ act'.merged = act.merged
      /\ Now' = "putRecord" /\ StepsLeft' = {"putRecord", "putBase"}
      /\ \/ /\ Now = "hashPushed" /\ act.kind = "push" /\ act'.hashed = act.mine
            /\ StepsLeft = {"hashPushed", "putRecord", "putBase"}
         \/ /\ Now = "statLocal" /\ act.kind \in Conflicts
            /\ act'.hashed = (IF local = Absent THEN act.planned ELSE local)
            /\ StepsLeft = {"statLocal", "putRecord", "putBase"}
  BY HashPushedMoves, StatLocalMoves, Control, ControlNext, Heads, Members
<1>3. Settled' /\ Sides'
  BY <1>1, <1>2 DEF Settled, Sides, NoEditLost, OnLocal, OnRemote, Elsewhere
<1>4. Fetched'
  BY <1>1, <1>2 DEF Fetched, Covered, OnRemote, Elsewhere, Left, Meeting, Pulls, Conflicts
<1>5. Merging' /\ Standing' /\ Replaceable'
  BY <1>1, <1>2 DEF Merging, Standing, Replaceable, Left, BothSides
<1>6. Recordable'
  BY <1>1, <1>2 DEF Recordable, Standing, OnLocal, OnRemote, Elsewhere, Left
<1> QED
  BY <1>3, <1>4, <1>5, <1>6

LEMMA KeptPutRecord ==
  ASSUME Base, KeptInv, PutRecord
  PROVE  KeptInv'
<1> USE DEF Base, TypeInv, KeptInv
<1>1. UNCHANGED <<strategy, local, remote, seen, copies, base, made, dropped, stops>>
  BY DEF PutRecord
<1>2. Now = "putRecord" /\ rec'.l = act.hashed /\ rec'.r = seen
  BY PutRecordMoves DEF PutRecord
<1>3. Settled'
  BY <1>1, <1>2 DEF Settled, Recordable, NoEditLost, OnLocal, OnRemote, Elsewhere
<1>4. CASE act' = Idle
  BY <1>3, <1>4, KeptIdle
<1>5. CASE act' # Idle
  <2>1. /\ KeepsData /\ Now' = "putBase" /\ StepsLeft' = {"putBase"}
        /\ StepsLeft = {"putRecord", "putBase"}
    BY <1>5, PutRecordStands
  <2>2. Sides'
    BY <1>1, <2>1 DEF Sides, OnLocal, OnRemote, Elsewhere, KeepsData
  <2>3. Fetched'
    BY <1>1, <2>1 DEF Fetched, Covered, OnRemote, Elsewhere, KeepsData, Left
  <2>4. Merging' /\ Standing' /\ Replaceable'
    BY <1>1, <2>1 DEF Merging, Standing, Replaceable, KeepsData, Left
  <2>5. Recordable'
    BY <1>1, <1>2, <2>1 DEF Recordable, OnRemote, Elsewhere
  <2> QED
    BY <1>3, <2>2, <2>3, <2>4, <2>5
<1> QED
  BY <1>4, <1>5

LEMMA KeptLast ==
  ASSUME Base, KeptInv, PutBase \/ DropRecord \/ RestoreLocal \/ Stop
  PROVE  KeptInv'
<1> USE DEF Base, TypeInv, KeptInv
<1>1. CASE PutBase
  <2>1. strategy = "auto_merge" => OnRemote(local)
    BY <1>1, LastMoves, Control DEF PutBase, Recordable
  <2>2. Settled'
    BY <1>1, <2>1 DEF PutBase, Settled, NoEditLost, OnLocal, OnRemote, Elsewhere
  <2> QED
    BY <1>1, <2>2, LastMoves, KeptIdle
<1>2. CASE DropRecord
  <2>1. Settled'
    BY <1>2 DEF DropRecord, NoRecord, Settled, NoEditLost, OnLocal, OnRemote, Elsewhere, Shown
  <2> QED
    BY <1>2, <2>1, LastMoves, KeptIdle
<1>3. CASE RestoreLocal
  <2>1. Now = "upload" /\ act.kind = "merge" /\ act' = Idle /\ local' = act.mine
    BY <1>3, Control DEF RestoreLocal
  <2>2. StepsLeft = {"upload", "statLocal", "putRecord", "putBase"}
    BY <2>1, Position, Control, Members
  <2>3. /\ local = act.merged /\ act.merged \subseteq act.mine \cup act.theirs
        /\ Covered(base, act.mine) /\ Covered(rec.r, act.mine)
    BY <2>1, <2>2 DEF Standing, Merging, Left
  <2>4. act.mine # Absent /\ act.theirs # Absent
    BY <2>1, <2>2, ReadIsKnown DEF Left, BothSides
  <2>5. Shown(local) \subseteq Shown(local)' \cup Shown(remote) \cup Elsewhere
    BY <2>1, <2>3, <2>4 DEF Sides, OnRemote, Shown
  <2>6. Settled'
    BY <1>3, <2>1, <2>3, <2>5
       DEF RestoreLocal, Settled, NoEditLost, OnLocal, OnRemote, Covered, Elsewhere
  <2> QED
    BY <2>1, <2>6, KeptIdle
<1>4. CASE Stop
  BY <1>4, KeptIdle DEF Stop, Settled, NoEditLost, OnLocal, OnRemote, Elsewhere
<1> QED
  BY <1>1, <1>2, <1>3, <1>4

LEMMA KeptNext ==
  ASSUME NoWindows
  PROVE  Base /\ KeptInv /\ [Next]_vars => KeptInv'
<1> SUFFICES ASSUME Base, KeptInv, [Next]_vars PROVE KeptInv'
  OBVIOUS
<1>1. CASE (\E stated \in BOOLEAN : Detect(stated)) \/ PullSingle
  BY <1>1, KeptDetects
<1>2. CASE Execute
  BY <1>2, KeptReadLocal, KeptDownload, KeptChecksAndCopies, KeptWriteLocal, KeptUpload,
     KeptDeletes, KeptStats, KeptPutRecord, KeptLast DEF Execute
<1>3. CASE RestoreLocal \/ Stop
  BY <1>3, KeptLast
<1>4. CASE EditLocal \/ DropLocal \/ OthersEdit \/ OthersDrop
  BY <1>4, KeptOutside
<1>5. CASE UNCHANGED vars
  BY <1>5 DEF vars, KeptInv, Settled, NoEditLost, Sides, Fetched, Merging, Standing, Replaceable,
              Recordable, OnLocal, OnRemote, Covered, Elsewhere, Left, StepsLeft, Now
<1> QED
  BY <1>1, <1>2, <1>3, <1>4, <1>5 DEF Next

LEMMA BaseHolds == ASSUME NoWindows PROVE Spec => []Base
<1>1. NoHashingWindow
  BY DEF NoWindows, NoHashingWindow
<1>2. Init => Base
  BY TypesInit, ToldInit DEF Base
<1>3. Base /\ [Next]_vars => Base'
  BY <1>1, TypesNext, ToldNext DEF Base
<1> QED
  BY <1>2, <1>3, PTL DEF Spec

(* No edit is lost, on however many devices and in whatever order edits,    *)
(* deletions, syncs, merges and failures follow one another, as long as    *)
(* none falls between the last look at a file and the write, upload or     *)
(* stat that relies on it (plan-executor.ts, conflict.ts,                  *)
(* state-committer.ts): the record and the merge base never make an action *)
(* overwrite what is nowhere else.                                         *)
THEOREM NoEditIsLost == ASSUME NoWindows PROVE Spec => []NoEditLost
<1>1. Base /\ KeptInv /\ [Next]_vars => KeptInv'
  BY KeptNext
<1>2. KeptInv => NoEditLost
  BY DEF KeptInv, Settled
<1> QED
  BY <1>1, <1>2, KeptInit, BaseHolds, PTL DEF Spec

-----------------------------------------------------------------------------
(* What is recorded was synchronized.  A download may find more than the     *)
(* delta told of, and the record then has two different contents: the one  *)
(* written here, and the remote one of the cache.  Nothing is lost by that *)
(* if the remote, and whatever is made of it, is never again what the cache *)
(* had: an edit made since shows in it, or it has become what was written. *)

NoResolvingWindow == "resolving" \notin Windows

(* v is gone, or new, or shows an edit that is in neither content, nor in   *)
(* what a merge takes for known.                                           *)
Fresh(v, new, old) ==
  v \in {Absent, new} \/ ~(Shown(v) \subseteq Shown(new) \cup Shown(old) \cup Shown(base))

(* Or v is what the base was made of, where that was edited since.  A merge *)
(* of two such contents is one again.                                      *)
Beyond(v, new, old) ==
  \/ Fresh(v, new, old)
  \/ /\ ~(Shown(base) \subseteq Shown(new) \cup Shown(old))
     /\ Shown(base) \subseteq Shown(v) /\ Shown(v) \subseteq Shown(base) \cup Shown(new)

Apart(new, old) ==
  new # old =>
    /\ old # Absent
    /\ Fresh(local, new, old) /\ Fresh(remote, new, old)
    /\ Shown(local) \cap Shown(remote) \subseteq Shown(new) \cup Shown(old)

Made(v) == Shown(v) \subseteq 1..made

Numbered ==
  /\ Made(local) /\ Made(remote) /\ Made(seen) /\ Made(base) /\ Made(rec.l) /\ Made(rec.r)
  /\ Made(act.planned) /\ Made(act.mine) /\ Made(act.theirs) /\ Made(act.merged)
  /\ Made(act.hashed)

(* Of the sides, and of what an action has read of them. *)
Parted ==
  rec.l # rec.r =>
    /\ rec.r # Absent
    /\ Beyond(local, rec.l, rec.r) /\ Beyond(remote, rec.l, rec.r)
    /\ Left("putRecord") => Beyond(act.mine, rec.l, rec.r) /\ Beyond(act.theirs, rec.l, rec.r)
    /\ act.kind = "merge" /\ Left("upload") /\ ~Left("download") =>
         Beyond(act.merged, rec.l, rec.r)

(* The file stands still while its conflict is resolved. *)
Resting ==
  /\ act.kind \in {"keepLocal", "winnerLocal", "duplicate"} /\ ~Left("readLocal")
       /\ Left("statLocal") => local = act.mine
  /\ act.kind \in {"merge", "winnerRemote"} /\ ~Left("readLocal") /\ Left("writeLocal") =>
       local = act.mine
  /\ act.kind = "merge" /\ Now = "upload" => local = act.merged

(* Of what is to be recorded. *)
Parting ==
  /\ act.kind \in Downloads => seen # Absent
  /\ act.kind \in Pulls /\ ~Left("download") => act.hashed = act.theirs
  /\ act.kind = "merge" => base # Absent
  /\ act.kind = "merge" /\ ~Left("download") => act.merged # Absent
  /\ act.kind \in Downloads /\ ~Left("download") /\ Left("putRecord")
       /\ (act.kind \in Meeting => Left("upload")) => Fresh(remote, act.theirs, seen)
  /\ Now = "statLocal" =>
       local # Absent /\ (local # seen => seen # Absent /\ Fresh(remote, local, seen))
  /\ Now = "hashPushed" => act.mine = seen
  /\ Now = "putRecord" => Apart(act.hashed, seen)
  /\ Now = "putBase" => Apart(rec.l, rec.r)

Quiet == Parted /\ Resting /\ Parting

QuietInv == Numbered /\ Quiet

-----------------------------------------------------------------------------
LEMMA FreshStays ==
  ASSUME NEW v, NEW w, NEW new, NEW old, Fresh(v, new, old),
         w = v \/ w = Absent \/ made + 1 \in Shown(w),
         Made(new), Made(old), Made(base), made \in Nat
  PROVE  Fresh(w, new, old)
<1>1. made + 1 \notin Shown(new) \cup Shown(old) \cup Shown(base)
  BY DEF Made
<1> QED
  BY <1>1 DEF Fresh

LEMMA BeyondStays ==
  ASSUME NEW v, NEW w, NEW new, NEW old, Beyond(v, new, old),
         w = v \/ w = Absent \/ made + 1 \in Shown(w),
         Made(new), Made(old), Made(base), made \in Nat
  PROVE  Beyond(w, new, old)
<1>1. made + 1 \notin Shown(new) \cup Shown(old) \cup Shown(base)
  BY DEF Made
<1> QED
  BY <1>1 DEF Beyond, Fresh

(* A merge shows the edit that either side was beyond by, or is what both   *)
(* were beyond the base.                                                   *)
LEMMA MergeIsBeyond ==
  ASSUME NEW mine \in Content, NEW theirs \in Content, base \in Content,
         NEW new \in Version, NEW old,
         NEW m \in Merges(base, mine, theirs),
         Beyond(mine, new, old), Beyond(theirs, new, old)
  PROVE  Beyond(m, new, old) /\ m \in Content
<1> DEFINE Both == Shown(new) \cup Shown(old)
<1>1. /\ Shown(mine) = mine /\ Shown(theirs) = theirs /\ Shown(base) = base
      /\ m \in Content /\ Shown(m) = m /\ m # Absent
      /\ mine # Absent /\ theirs # Absent
  BY ContentIsNotAbsent, MergesAreContents DEF Shown
<1>2. /\ (mine \cup theirs) \ base \subseteq m
      /\ mine \cap theirs \subseteq m /\ m \subseteq mine \cup theirs
      /\ m = mine \cup theirs \/ m \subseteq (mine \cap theirs) \cup ((mine \cup theirs) \ base)
  BY DEF Merges
<1>3. CASE ~(mine \cup theirs \subseteq Both \cup base)
  BY <1>1, <1>2, <1>3 DEF Beyond, Fresh
<1>4. CASE mine \cup theirs \subseteq Both \cup base
  <2>1. /\ mine = new \/ (~(base \subseteq Both) /\ base \subseteq mine
                          /\ mine \subseteq base \cup Shown(new))
        /\ theirs = new \/ (~(base \subseteq Both) /\ base \subseteq theirs
                            /\ theirs \subseteq base \cup Shown(new))
    BY <1>1, <1>4 DEF Beyond, Fresh
  <2>2. CASE mine = new /\ theirs = new
    BY <1>1, <1>2, <2>2 DEF Beyond, Fresh
  <2>3. CASE mine # new /\ theirs # new
    BY <1>1, <1>2, <2>1, <2>3 DEF Beyond
  <2>4. CASE mine = new /\ theirs # new
    <3>1. CASE m = mine \cup theirs
      BY <1>1, <2>1, <2>4, <3>1 DEF Beyond
    <3>2. CASE m \subseteq (mine \cap theirs) \cup ((mine \cup theirs) \ base)
      <4>1. base \subseteq theirs /\ theirs \subseteq base \cup mine
        BY <1>1, <2>1, <2>4
      <4>2. m \subseteq mine /\ mine \subseteq m
        BY <1>2, <3>2, <4>1
      <4>3. m = new
        BY <4>2, <2>4
      <4> QED
        BY <1>1, <4>3 DEF Beyond, Fresh
    <3> QED
      BY <1>2, <3>1, <3>2
  <2>5. CASE mine # new /\ theirs = new
    <3>1. CASE m = mine \cup theirs
      BY <1>1, <2>1, <2>5, <3>1 DEF Beyond
    <3>2. CASE m \subseteq (mine \cap theirs) \cup ((mine \cup theirs) \ base)
      <4>1. base \subseteq mine /\ mine \subseteq base \cup theirs
        BY <1>1, <2>1, <2>5
      <4>2. m \subseteq theirs /\ theirs \subseteq m
        BY <1>2, <3>2, <4>1
      <4>3. m = new
        BY <4>2, <2>5
      <4> QED
        BY <1>1, <4>3 DEF Beyond, Fresh
    <3> QED
      BY <1>2, <3>1, <3>2
  <2> QED
    BY <2>2, <2>3, <2>4, <2>5
<1> QED
  BY <1>1, <1>3, <1>4

-----------------------------------------------------------------------------
LEMMA NumberedNext == TypeInv /\ Numbered /\ [Next]_vars => Numbered'
<1> SUFFICES ASSUME TypeInv, Numbered, [Next]_vars PROVE Numbered'
  OBVIOUS
<1> USE DEF TypeInv
<1>1. CASE UNCHANGED made
  <2>1. ASSUME NEW kind \in Kinds \ {"none"}, Begin(kind), seen' = remote,
               UNCHANGED <<local, remote, rec, base>>
        PROVE  Numbered'
    BY <1>1, <2>1, BeginMoves DEF Numbered, Made, Shown
  <2>2. CASE (\E stated \in BOOLEAN : Detect(stated)) \/ PullSingle
    BY <2>1, <2>2, DecideKinds DEF Detect, PullSingle, Kinds
  <2>3. CASE ReadLocal
    BY <1>1, <2>3, ReadLocalMoves DEF ReadLocal, Numbered, Made
  <2>4. CASE Download
    <3>1. Made(act'.merged)
      <4>1. CASE act'.kind = "merge"
        <5>1. act'.merged \in Merges(base, act.mine, remote) /\ act.kind = "merge"
          BY <2>4, <4>1, DownloadMoves
        <5>2. act.mine # Absent /\ remote # Absent
          BY <2>4, <5>1, DownloadMoves, ReadIsKnown, Control, Members DEF Left
        <5>3. act'.merged \in Content
          BY <5>1, <5>2, MergesAreContents DEF Types, Version
        <5>4. act'.merged \subseteq act.mine \cup remote
          BY <5>1 DEF Merges
        <5> QED
          BY <5>2, <5>3, <5>4, ContentIsNotAbsent DEF Numbered, Made, Shown
      <4>2. CASE act'.kind # "merge"
        BY <2>4, <4>2, DownloadMoves DEF Numbered
      <4> QED
        BY <4>1, <4>2
    <3>2. Made(act'.planned) /\ Made(act'.mine) /\ Made(act'.theirs) /\ Made(act'.hashed)
      BY <2>4, DownloadMoves DEF Numbered, Made, Shown
    <3> QED
      BY <1>1, <2>4, <3>1, <3>2 DEF Download, Numbered, Made
  <2>5. CASE CheckLocal \/ SaveCopy
    BY <1>1, <2>5, CheckLocalMoves, SaveCopyMoves
       DEF CheckLocal, SaveCopy, KeepsData, Numbered, Made
  <2>6. CASE WriteLocal
    BY <1>1, <2>6, WriteLocalMoves DEF WriteLocal, KeepsData, Numbered, Made
  <2>7. CASE Upload
    BY <1>1, <2>7, UploadMoves DEF Upload, KeepsData, Numbered, Made
  <2>8. CASE DeleteLocal \/ DeleteRemote
    BY <1>1, <2>8, DeletesMove DEF DeleteLocal, DeleteRemote, KeepsData, Numbered, Made, Shown
  <2>9. CASE HashPushed
    BY <1>1, <2>9, HashPushedMoves DEF HashPushed, Numbered, Made
  <2>10. CASE StatLocal
    BY <1>1, <2>10, StatLocalMoves DEF StatLocal, Numbered, Made
  <2>11. CASE PutRecord
    <3>1. Made(rec'.l) /\ Made(rec'.r)
      BY <2>11 DEF PutRecord, Numbered
    <3>2. CASE act' = Idle
      BY <1>1, <2>11, <3>1, <3>2, EndedMeans DEF PutRecord, Numbered, Made, Shown
    <3>3. CASE KeepsData
      BY <1>1, <2>11, <3>1, <3>3 DEF PutRecord, KeepsData, Numbered, Made
    <3> QED
      BY <2>11, <3>2, <3>3, PutRecordMoves
  <2>12. CASE PutBase \/ DropRecord
    <3>1. Made(base') /\ Made(rec'.l) /\ Made(rec'.r)
      BY <2>12 DEF PutBase, DropRecord, NoRecord, Numbered, Made, Shown
    <3>2. /\ Made(act'.planned) /\ Made(act'.mine) /\ Made(act'.theirs) /\ Made(act'.merged)
          /\ Made(act'.hashed)
      BY <2>12, LastMoves, EndedMeans DEF Made, Shown
    <3> QED
      BY <1>1, <2>12, <3>1, <3>2 DEF PutBase, DropRecord, Numbered, Made
  <2>13. CASE RestoreLocal \/ Stop
    BY <1>1, <2>13, EndedMeans DEF RestoreLocal, Stop, Numbered, Made, Shown
  <2>14. CASE DropLocal \/ OthersDrop
    BY <1>1, <2>14 DEF DropLocal, OthersDrop, Numbered, Made, Shown
  <2>15. CASE UNCHANGED vars
    BY <2>15 DEF vars, Numbered, Made
  <2>16. CASE EditLocal \/ OthersEdit
    BY <1>1, <2>16 DEF EditLocal, OthersEdit, Types
  <2> QED
    BY <2>2, <2>3, <2>4, <2>5, <2>6, <2>7, <2>8, <2>9, <2>10, <2>11, <2>12, <2>13, <2>14,
       <2>15, <2>16 DEF Next, Execute
<1>2. CASE EditLocal \/ OthersEdit
  <2>1. made \in Nat /\ made' = made + 1 /\ UNCHANGED <<seen, rec, base, act>>
    BY <1>2 DEF EditLocal, OthersEdit, Types
  <2>2. \A v : Made(v) => Shown(v) \subseteq 1..made'
    BY <2>1 DEF Made
  <2>3. \A v : Made(v) => Shown(Edited(v)) \subseteq 1..made'
    BY <2>1 DEF Made, Edited, Shown
  <2> QED
    BY <1>2, <2>1, <2>2, <2>3 DEF EditLocal, OthersEdit, Numbered, Made
<1>3. UNCHANGED made \/ EditLocal \/ OthersEdit
  BY DEF Next, Execute, Detect, PullSingle, ReadLocal, Download, CheckLocal, SaveCopy, WriteLocal,
         Upload, DeleteLocal, DeleteRemote, HashPushed, StatLocal, PutRecord, PutBase, DropRecord,
         RestoreLocal, Stop, DropLocal, OthersDrop, vars
<1> QED
  BY <1>1, <1>2, <1>3

-----------------------------------------------------------------------------
LEMMA QuietInit == Init => QuietInv
<1> SUFFICES ASSUME Init PROVE QuietInv
  OBVIOUS
<1>1. /\ Now = "end" /\ StepsLeft = {} /\ act.kind = "none" /\ act.planned = Absent
      /\ act.mine = Absent /\ act.theirs = Absent /\ act.merged = Absent /\ act.hashed = Absent
  BY Control, Heads, Members DEF Init, Idle
<1>2. Numbered
  <2>1. {1} # Absent /\ {} # Absent
    BY ContentIsNotAbsent, TransferAssumption DEF Content
  <2>2. Made(local) /\ Made(remote)
    BY <2>1 DEF Init, Made, Shown
  <2> QED
    BY <1>1, <2>2 DEF Init, Numbered, NoRecord, Made, Shown
<1>3. Parted /\ Resting /\ Parting
  BY <1>1 DEF Init, NoRecord, Parted, Resting, Parting, Left, Downloads, Pulls, BothSides
<1> QED
  BY <1>2, <1>3 DEF QuietInv, Quiet

(* Between actions only the two sides and the record matter. *)
LEMMA QuietIdle ==
  ASSUME act' = Idle,
         (rec.l # rec.r => /\ rec.r # Absent
                           /\ Beyond(local, rec.l, rec.r) /\ Beyond(remote, rec.l, rec.r))'
  PROVE  Quiet'
<1>1. /\ Now' = "end" /\ StepsLeft' = {} /\ act'.kind = "none"
  BY EndedMeans DEF Ended
<1> QED
  BY <1>1 DEF Quiet, Parted, Resting, Parting, Left, Downloads, Pulls, BothSides

LEMMA QuietOutside ==
  ASSUME NoResolvingWindow, TypeInv, QuietInv, EditLocal \/ DropLocal \/ OthersEdit \/ OthersDrop
  PROVE  Quiet'
<1> USE DEF TypeInv, QuietInv, Quiet
<1>1. UNCHANGED <<strategy, seen, copies, rec, base, act, stops>> /\ made \in Nat
  BY DEF EditLocal, DropLocal, OthersEdit, OthersDrop, Types
<1>2. Now' = Now /\ StepsLeft' = StepsLeft
  BY <1>1 DEF Now, StepsLeft
<1>3. made + 1 \in Edited(local) /\ made + 1 \in Edited(remote)
  BY DEF Edited
<1>4. /\ local' = local \/ local' = Absent \/ made + 1 \in Shown(local')
      /\ remote' = remote \/ remote' = Absent \/ made + 1 \in Shown(remote')
  <2>1. CASE EditLocal
    BY <2>1, EditedIsContent, ContentIsNotAbsent DEF EditLocal, Types, Shown
  <2>2. CASE OthersEdit
    BY <2>2, EditedIsContent, ContentIsNotAbsent DEF OthersEdit, Types, Shown
  <2>3. CASE DropLocal \/ OthersDrop
    BY <2>3 DEF DropLocal, OthersDrop
  <2> QED
    BY <2>1, <2>2, <2>3
<1>5. ASSUME NEW new, NEW old, Made(new), Made(old)
      PROVE  /\ Fresh(local, new, old) => Fresh(local, new, old)'
             /\ Fresh(remote, new, old) => Fresh(remote, new, old)'
             /\ Beyond(local, new, old) => Beyond(local, new, old)'
             /\ Beyond(remote, new, old) => Beyond(remote, new, old)'
  <2>1. Made(base)
    BY DEF Numbered
  <2>2. Fresh(local, new, old) => Fresh(local', new, old)
    BY <1>1, <1>4, <1>5, <2>1, FreshStays
  <2>3. Fresh(remote, new, old) => Fresh(remote', new, old)
    BY <1>1, <1>4, <1>5, <2>1, FreshStays
  <2>4. Beyond(local, new, old) => Beyond(local', new, old)
    BY <1>1, <1>4, <1>5, <2>1, BeyondStays
  <2>5. Beyond(remote, new, old) => Beyond(remote', new, old)
    BY <1>1, <1>4, <1>5, <2>1, BeyondStays
  <2> QED
    BY <1>1, <2>2, <2>3, <2>4, <2>5 DEF Fresh, Beyond
<1>6. Parted'
  <2>1. ASSUME NEW v, Beyond(v, rec.l, rec.r) PROVE Beyond(v, rec.l, rec.r)'
    BY <1>1, <2>1 DEF Beyond, Fresh
  <2>2. Made(rec.l) /\ Made(rec.r)
    BY DEF Numbered
  <2>3. rec.l # rec.r => Beyond(local, rec.l, rec.r)' /\ Beyond(remote, rec.l, rec.r)'
    BY <1>1, <1>5, <2>2 DEF Parted
  <2> QED
    BY <1>1, <1>2, <2>1, <2>3 DEF Parted, Left
<1>7. Shown(local)' \cap Shown(remote)' \subseteq Shown(local) \cap Shown(remote)
  <2>1. made + 1 \notin Shown(local) /\ made + 1 \notin Shown(remote)
    BY <1>1 DEF Numbered, Made
  <2>2. \A v \in Version : Shown(Edited(v)) \subseteq Shown(v) \cup {made + 1}
    BY DEF Edited, Shown
  <2> QED
    BY <2>1, <2>2 DEF EditLocal, DropLocal, OthersEdit, OthersDrop, Types, Shown
<1>8. ASSUME NEW new, NEW old, Made(new), Made(old), Apart(new, old)
      PROVE  Apart(new, old)'
  BY <1>5, <1>7, <1>8 DEF Apart, Shown
<1>9. /\ Made(act.hashed) /\ Made(act.theirs) /\ Made(seen) /\ Made(rec.l) /\ Made(rec.r)
  BY DEF Numbered
<1>10. /\ Apart(act.hashed, seen) => Apart(act.hashed, seen)'
       /\ Apart(rec.l, rec.r) => Apart(rec.l, rec.r)'
       /\ Fresh(remote, act.theirs, seen) => Fresh(remote, act.theirs, seen)'
  BY <1>1, <1>5, <1>8, <1>9
<1>11. CASE EditLocal \/ DropLocal
  <2>1. "resolving" \notin WindowsNow
    BY <1>11 DEF EditLocal, DropLocal, NoResolvingWindow
  <2>2. ~(act.kind \in Conflicts /\ Left("statLocal")
          /\ (act.kind = "keepRemote" \/ act.mine # Absent))
    BY <2>1, Control DEF WindowsNow, LocalWindows, Left
  <2>3. Resting'
    BY <1>1, <1>2, <2>2, Ahead, ReadIsKnown DEF Resting, Left, Conflicts
  <2>4. Now # "statLocal"
    BY <2>2, Control, Position, Ahead, ReadIsKnown DEF Left, Conflicts
  <2>5. Parting'
    BY <1>1, <1>2, <1>10, <2>4 DEF Parting, Left
  <2> QED
    BY <1>6, <2>3, <2>5
<1>12. CASE OthersEdit \/ OthersDrop
  <2>1. local' = local
    BY <1>12 DEF OthersEdit, OthersDrop
  <2>2. Resting'
    BY <1>1, <1>2, <2>1 DEF Resting, Left
  <2>3. Fresh(remote, local, seen) => Fresh(remote, local, seen)'
    BY <1>1, <1>5, <2>1 DEF Numbered
  <2>4. Parting'
    BY <1>1, <1>2, <1>10, <2>1, <2>3 DEF Parting, Left
  <2> QED
    BY <1>6, <2>2, <2>4
<1> QED
  BY <1>11, <1>12

-----------------------------------------------------------------------------
LEMMA QuietBegin ==
  ASSUME QuietInv, NEW kind \in Kinds \ {"none"}, Begin(kind), seen' = remote,
         UNCHANGED <<strategy, local, remote, copies, rec, base, made, dropped, stops>>,
         kind \in Downloads => remote # Absent,
         kind = "match" => local = remote,
         kind = "merge" => base # Absent
  PROVE  Quiet'
<1> USE DEF QuietInv, Quiet
<1>1. /\ act'.kind = kind /\ act'.hashed = local /\ act'.mine = Absent /\ act'.theirs = Absent
  BY BeginMoves
<1>2. Parted'
  BY <1>1, BeginStands DEF Parted, Beyond, Fresh, Downloads, BothSides
<1>3. Resting'
  BY <1>1, BeginStands DEF Resting, Reads, BothSides
<1>4. Parting'
  BY <1>1, BeginStands DEF Parting, Apart, Downloads, Pulls, BothSides
<1> QED
  BY <1>2, <1>3, <1>4

LEMMA QuietDetects ==
  ASSUME QuietInv, (\E stated \in BOOLEAN : Detect(stated)) \/ PullSingle
  PROVE  Quiet'
<1>1. ASSUME NEW stated \in BOOLEAN, Detect(stated) PROVE Quiet'
  <2>1. PICK kind \in Decide(stated, remote) : Begin(kind)
    BY <1>1 DEF Detect
  <2>2. kind \in Kinds \ {"none", "pullSingle"}
    BY DecideKinds
  <2>3. /\ kind \in Downloads => remote # Absent
        /\ kind = "match" => local = remote
        /\ kind = "merge" => base # Absent
    BY <2>2 DEF Decide, Resolutions, Downloads, Pulls, BothSides
  <2> QED
    BY <1>1, <2>1, <2>2, <2>3, QuietBegin DEF Detect
<1>2. CASE PullSingle
  BY <1>2, QuietBegin DEF PullSingle, Kinds
<1> QED
  BY <1>1, <1>2

LEMMA QuietReadLocal ==
  ASSUME TypeInv, QuietInv, ReadLocal
  PROVE  Quiet'
<1> USE DEF TypeInv, QuietInv, Quiet
<1>1. UNCHANGED <<strategy, local, remote, seen, copies, rec, base, made, dropped, stops>>
  BY DEF ReadLocal
<1>2. /\ Now = "readLocal" /\ local # Absent /\ act'.kind = act.kind /\ act'.mine = local
      /\ act'.theirs = act.theirs /\ act'.merged = act.merged /\ act'.hashed = act.hashed
      /\ Left("putRecord")
  BY ReadLocalMoves, Control, Members, AllMembers DEF Left
<1>3. Parted'
  BY <1>1, <1>2, ReadLocalStands DEF Parted, Beyond, Fresh, Left
<1>4. Resting'
  BY <1>1, <1>2, ReadLocalStands DEF Resting, Left
<1>5. Parting'
  <2>1. CASE act.kind = "duplicate"
    BY <1>1, <1>2, <2>1, ReadLocalStands
       DEF Parting, Fresh, Left, Downloads, Pulls, BothSides, Meeting
  <2>2. CASE act.kind # "duplicate"
    BY <1>1, <1>2, <2>2, ReadLocalStands
       DEF Parting, Fresh, Left, Downloads, Pulls, BothSides, Meeting
  <2> QED
    BY <2>1, <2>2
<1> QED
  BY <1>3, <1>4, <1>5

LEMMA QuietDownload ==
  ASSUME TypeInv, QuietInv, Download
  PROVE  Quiet'
<1> USE DEF TypeInv, QuietInv, Quiet
<1>1. UNCHANGED <<strategy, local, remote, seen, copies, rec, base, made, dropped, stops>>
  BY DEF Download
<1>2. /\ Now = "download" /\ remote # Absent /\ act'.hashed = remote /\ Left("putRecord")
      /\ act.kind \in Downloads
  BY DownloadMoves, Control, Members, AllMembers DEF Left, Downloads, Pulls, BothSides
<1>3. ASSUME act'.kind # act.kind PROVE Quiet'
  <2>1. Parted'
    BY <1>1, <1>3, DownloadFallsBack DEF Parted, Beyond, Fresh
  <2>2. Resting'
    BY <1>3, DownloadFallsBack DEF Resting
  <2>3. Parting'
    BY <1>1, <1>2, <1>3, DownloadFallsBack DEF Parting, Downloads, Pulls, BothSides
  <2> QED
    BY <2>1, <2>2, <2>3
<1>4. ASSUME act'.kind = act.kind PROVE Quiet'
  <2>1. /\ act'.mine = act.mine /\ act'.theirs = remote
        /\ act.kind = "merge" => act'.merged \in Merges(base, act.mine, remote)
    BY <1>4, DownloadMoves
  <2>2. ASSUME act.kind = "merge"
        PROVE  /\ act'.merged # Absent
               /\ rec.l # rec.r => Beyond(act'.merged, rec.l, rec.r)
    <3>1. act.mine \in Content /\ remote \in Content /\ base \in Content
      BY <1>2, <1>4, <2>2, DownloadStands, ReadIsKnown DEF Parting, Types, Version, Left
    <3>2. act'.merged \in Content
      BY <2>1, <2>2, <3>1, MergesAreContents
    <3>3. ASSUME rec.l # rec.r PROVE Beyond(act'.merged, rec.l, rec.r)
      <4>1. Beyond(act.mine, rec.l, rec.r) /\ Beyond(remote, rec.l, rec.r)
        BY <1>2, <3>3 DEF Parted
      <4> QED
        BY <2>1, <2>2, <3>1, <4>1, MergeIsBeyond DEF Types
    <3> QED
      BY <3>2, <3>3, ContentIsNotAbsent
  <2>3. Parted'
    BY <1>1, <1>2, <1>4, <2>1, <2>2 DEF Parted, Beyond, Fresh
  <2>4. Resting'
    BY <1>1, <1>4, <2>1, DownloadStands DEF Resting, Left
  <2>5. Parting'
    <3>1. CASE Now' = "statLocal"
      <4>1. act.mine = remote /\ local = act.mine
        BY <1>4, <3>1, DownloadStands DEF Resting
      <4> QED
        BY <1>1, <1>2, <1>4, <2>1, <3>1, <4>1, DownloadStands
           DEF Parting, Fresh, Left, Downloads, Pulls, BothSides
    <3>2. CASE Now' # "statLocal"
      BY <1>1, <1>2, <1>4, <2>1, <2>2, <3>2, DownloadStands DEF Parting, Fresh, Pulls
    <3> QED
      BY <3>1, <3>2
  <2> QED
    BY <2>3, <2>4, <2>5
<1> QED
  BY <1>3, <1>4
LEMMA QuietChecksAndCopies ==
  ASSUME TypeInv, QuietInv, CheckLocal \/ SaveCopy
  PROVE  Quiet'
<1> USE DEF TypeInv, QuietInv, Quiet
<1>1. UNCHANGED <<strategy, local, remote, seen, rec, base, made>> /\ KeepsData
  BY CheckLocalMoves, SaveCopyMoves DEF CheckLocal, SaveCopy
<1>2. \/ /\ act.kind = "pull" /\ Now' = "writeLocal"
         /\ StepsLeft = {"checkLocal", "writeLocal", "putRecord", "putBase"}
         /\ StepsLeft' = {"writeLocal", "putRecord", "putBase"}
      \/ /\ act.kind \in {"winnerLocal", "duplicate"} /\ Now' = "upload"
         /\ StepsLeft = {"saveCopy", "upload", "statLocal", "putRecord", "putBase"}
         /\ StepsLeft' = {"upload", "statLocal", "putRecord", "putBase"}
      \/ /\ act.kind = "winnerRemote" /\ Now' = "writeLocal"
         /\ StepsLeft = {"saveCopy", "writeLocal", "statLocal", "putRecord", "putBase"}
         /\ StepsLeft' = {"writeLocal", "statLocal", "putRecord", "putBase"}
  BY SaveCopyStands, CheckLocalMoves, Control, ControlNext, Heads, Members
<1>3. Parted'
  BY <1>1, <1>2 DEF Parted, Beyond, Fresh, KeepsData, Left
<1>4. Resting'
  BY <1>1, <1>2 DEF Resting, KeepsData, Left
<1>5. Parting'
  BY <1>1, <1>2 DEF Parting, Fresh, KeepsData, Left
<1> QED
  BY <1>3, <1>4, <1>5

LEMMA QuietWriteLocal ==
  ASSUME TypeInv, QuietInv, WriteLocal
  PROVE  Quiet'
<1> USE DEF TypeInv, QuietInv, Quiet
<1>1. /\ UNCHANGED <<strategy, remote, seen, copies, rec, base, made, dropped, stops>>
      /\ KeepsData /\ local' = IF act.kind = "merge" THEN act.merged ELSE act.theirs
  BY WriteLocalMoves DEF WriteLocal
<1>2. act.kind # "merge" => act.kind \in Downloads /\ act.theirs # Absent
  BY WriteLocalStands DEF Gathered, Left, Downloads, Pulls, BothSides
<1>3. Parted'
  <2>1. rec.l # rec.r => Beyond(local', rec.l, rec.r)
    BY <1>1, WriteLocalStands DEF Parted, Left
  <2> QED
    BY <1>1, <2>1, WriteLocalStands DEF Parted, Beyond, Fresh, KeepsData, Left
<1>4. Resting'
  BY <1>1, WriteLocalStands DEF Resting, KeepsData, Left
<1>5. act.kind # "merge" => seen # Absent /\ Fresh(remote, act.theirs, seen)
  BY <1>2, WriteLocalStands DEF Parting, Left, Meeting
<1>6. Parting'
  <2>1. CASE act.kind \in Pulls
    <3>1. act'.hashed = local' /\ local' = act.theirs /\ act'.kind = act.kind
      BY <1>1, <2>1, WriteLocalStands DEF Parting, KeepsData, Left, Pulls
    <3>2. seen # Absent /\ Fresh(remote, act.theirs, seen)
      BY <1>5, <2>1 DEF Pulls
    <3>3. Apart(act.hashed, seen)'
      BY <1>1, <3>1, <3>2 DEF Apart, Fresh
    <3>4. Now' = "putRecord" /\ act'.kind \notin Meeting /\ act'.kind # "merge"
      BY <2>1, <3>1, WriteLocalStands DEF Pulls, Meeting
    <3>5. Fresh(remote, act.theirs, seen)' /\ act'.hashed = act'.theirs
      BY <1>1, <3>1, <3>2 DEF Fresh, KeepsData
    <3> QED
      BY <1>1, <3>2, <3>3, <3>4, <3>5 DEF Parting
  <2>2. CASE act.kind \in {"keepRemote", "winnerRemote"}
    BY <1>1, <1>2, <1>5, <2>2, WriteLocalStands DEF Parting, Fresh, KeepsData, Left, Pulls
  <2>3. CASE act.kind = "merge"
    BY <1>1, <2>3, WriteLocalStands DEF Parting, Fresh, KeepsData, Left, Pulls
  <2> QED
    BY <2>1, <2>2, <2>3, WriteLocalStands DEF Pulls
<1> QED
  BY <1>3, <1>4, <1>6

LEMMA QuietUpload ==
  ASSUME TypeInv, QuietInv, Upload
  PROVE  Quiet'
<1> USE DEF TypeInv, QuietInv, Quiet
<1>1. /\ UNCHANGED <<strategy, local, copies, rec, base, made, dropped, stops>> /\ KeepsData
      /\ remote' = IF act.kind = "merge" THEN act.merged ELSE act.mine
      /\ seen' = remote' /\ Now = "upload"
  BY UploadMoves DEF Upload
<1>2. remote' # Absent
  <2>1. act.kind = "merge" => act.merged # Absent
    BY UploadStands DEF Parting, Left
  <2>2. act.mine # Absent
    BY UploadStands, ReadIsKnown DEF Left
  <2> QED
    BY <1>1, <2>1, <2>2
<1>3. Parted'
  <2>1. rec.l # rec.r => Beyond(remote', rec.l, rec.r)
    BY <1>1, UploadStands DEF Parted, Left
  <2> QED
    BY <1>1, <2>1, UploadStands DEF Parted, Beyond, Fresh, KeepsData, Left
<1>4. Resting'
  BY <1>1, UploadStands DEF Resting, KeepsData, Left
<1>5. act.kind # "push" => local = remote'
  BY <1>1, UploadStands DEF Resting, Left
<1>6. Parting'
  BY <1>1, <1>2, <1>5, UploadStands
     DEF Parting, KeepsData, Left, Downloads, Pulls, BothSides, Meeting
<1> QED
  BY <1>3, <1>4, <1>6

LEMMA QuietDeletes ==
  ASSUME TypeInv, QuietInv, DeleteLocal \/ DeleteRemote
  PROVE  Quiet'
<1> USE DEF TypeInv, QuietInv, Quiet
<1>1. /\ UNCHANGED <<strategy, rec, base, made>>
      /\ local' \in {local, Absent} /\ remote' \in {remote, Absent}
  BY DEF DeleteLocal, DeleteRemote
<1>2. /\ KeepsData /\ act.kind \in {"deleteLocal", "deleteRemote"}
      /\ Now' = "dropRecord" /\ StepsLeft' = {"dropRecord"}
  BY DeletesMove, ControlNext, Heads, Members
<1>3. Parted'
  BY <1>1, <1>2 DEF Parted, Beyond, Fresh, KeepsData, Left
<1>4. Resting' /\ Parting'
  BY <1>2 DEF Resting, Parting, KeepsData, Left, Downloads, Pulls, BothSides
<1> QED
  BY <1>3, <1>4

LEMMA QuietStats ==
  ASSUME TypeInv, QuietInv, HashPushed \/ StatLocal
  PROVE  Quiet'
<1> USE DEF TypeInv, QuietInv, Quiet
<1>1. UNCHANGED <<strategy, local, remote, seen, copies, rec, base, made, dropped, stops>>
  BY DEF HashPushed, StatLocal
<1>2. /\ act'.kind = act.kind /\ act'.mine = act.mine /\ act'.theirs = act.theirs
      /\ act'.merged = act.merged
      /\ \/ Now = "hashPushed" /\ act.kind = "push" /\ act'.hashed = act.mine
         \/ /\ Now = "statLocal" /\ act.kind \in Conflicts
            /\ act'.hashed = (IF local = Absent THEN act.planned ELSE local)
  BY HashPushedMoves, StatLocalMoves
<1>3. Parted'
  BY <1>1, <1>2, StatsStand DEF Parted, Beyond, Fresh, Left
<1>4. Resting'
  BY <1>2, StatsStand DEF Resting, Left
<1>5. Apart(act'.hashed, seen)
  BY <1>2 DEF Parting, Apart, Fresh
<1>6. Apart(act.hashed, seen)'
  BY <1>1, <1>5 DEF Apart, Fresh
<1>7. Parting'
  BY <1>1, <1>2, <1>6, StatsStand DEF Parting, Fresh, Left, Pulls, Conflicts
<1> QED
  BY <1>3, <1>4, <1>7

LEMMA QuietPutRecord ==
  ASSUME TypeInv, QuietInv, PutRecord
  PROVE  Quiet'
<1> USE DEF TypeInv, QuietInv, Quiet
<1>1. UNCHANGED <<strategy, local, remote, seen, copies, base, made, dropped, stops>>
  BY DEF PutRecord
<1>2. rec'.l = act.hashed /\ rec'.r = seen /\ Apart(act.hashed, seen)
  BY PutRecordMoves DEF PutRecord, Parting
<1>3. Apart(rec.l, rec.r)'
  BY <1>1, <1>2 DEF Apart, Fresh
<1>4. CASE act' = Idle
  BY <1>3, <1>4, QuietIdle DEF Apart, Beyond
<1>5. CASE act' # Idle
  <2>1. Parted'
    BY <1>3, <1>5, PutRecordStands DEF Parted, Apart, Beyond, Left, KeepsData
  <2>2. Resting'
    BY <1>1, <1>5, PutRecordStands DEF Resting, KeepsData, Left
  <2>3. Parting'
    BY <1>1, <1>3, <1>5, PutRecordStands DEF Parting, KeepsData, Left
  <2> QED
    BY <2>1, <2>2, <2>3
<1> QED
  BY <1>4, <1>5

LEMMA QuietPutBase ==
  ASSUME TypeInv, QuietInv, PutBase
  PROVE  Quiet'
<1> USE DEF TypeInv, QuietInv, Quiet
<1>1. UNCHANGED <<local, remote, rec>> /\ act' = Idle /\ Now = "putBase"
  <2>1. act' = Idle
    BY LastMoves
  <2>2. UNCHANGED <<local, remote, rec>> /\ At("putBase")
    BY DEF PutBase
  <2> QED
    BY <2>1, <2>2, Control
<1>2. base' = base \/ (local # Absent /\ base' = local)
  BY DEF PutBase
<1>3. ASSUME rec.l # rec.r
      PROVE  rec.r # Absent /\ Beyond(local, rec.l, rec.r)' /\ Beyond(remote, rec.l, rec.r)'
  <2>1. /\ rec.r # Absent /\ Fresh(local, rec.l, rec.r) /\ Fresh(remote, rec.l, rec.r)
        /\ Shown(local) \cap Shown(remote) \subseteq Shown(rec.l) \cup Shown(rec.r)
    BY <1>1, <1>3 DEF Parting, Apart
  <2>2. CASE base' = base
    BY <1>1, <2>1, <2>2 DEF Beyond, Fresh
  <2>3. CASE base' = local
    BY <1>1, <2>1, <2>3 DEF Beyond, Fresh, Shown
  <2> QED
    BY <1>2, <2>1, <2>2, <2>3
<1> QED
  BY <1>1, <1>3, QuietIdle

LEMMA QuietEnds ==
  ASSUME TypeInv, QuietInv, DropRecord \/ RestoreLocal \/ Stop
  PROVE  Quiet'
<1> USE DEF TypeInv, QuietInv, Quiet
<1>1. CASE DropRecord
  BY <1>1, LastMoves, QuietIdle DEF DropRecord, NoRecord
<1>2. CASE RestoreLocal
  <2>1. /\ act' = Idle /\ local' = act.mine /\ UNCHANGED <<remote, rec, base>> /\ Now = "upload"
    BY <1>2, Control DEF RestoreLocal
  <2>2. Left("putRecord")
    BY <2>1, Position, Control, Members DEF Left
  <2>3. rec.l # rec.r => Beyond(local', rec.l, rec.r)
    BY <2>1, <2>2 DEF Parted
  <2> QED
    BY <2>1, <2>3, QuietIdle DEF Parted, Beyond, Fresh
<1>3. CASE Stop
  <2>1. act' = Idle /\ UNCHANGED <<local, remote, rec, base>>
    BY <1>3 DEF Stop
  <2> QED
    BY <2>1, QuietIdle DEF Parted, Beyond, Fresh
<1> QED
  BY <1>1, <1>2, <1>3
LEMMA QuietNext ==
  ASSUME NoResolvingWindow
  PROVE  TypeInv /\ QuietInv /\ [Next]_vars => QuietInv'
<1> SUFFICES ASSUME TypeInv, QuietInv, [Next]_vars PROVE Quiet'
  BY NumberedNext DEF QuietInv
<1>1. CASE (\E stated \in BOOLEAN : Detect(stated)) \/ PullSingle
  BY <1>1, QuietDetects
<1>2. CASE Execute
  BY <1>2, QuietReadLocal, QuietDownload, QuietChecksAndCopies, QuietWriteLocal, QuietUpload,
     QuietDeletes, QuietStats, QuietPutRecord, QuietPutBase, QuietEnds DEF Execute
<1>3. CASE RestoreLocal \/ Stop
  BY <1>3, QuietEnds
<1>4. CASE EditLocal \/ DropLocal \/ OthersEdit \/ OthersDrop
  BY <1>4, QuietOutside
<1>5. CASE UNCHANGED vars
  BY <1>5 DEF vars, QuietInv, Quiet, Parted, Resting, Parting, Apart, Beyond, Fresh, Left,
              StepsLeft, Now
<1> QED
  BY <1>1, <1>2, <1>3, <1>4, <1>5 DEF Next

(* Where a record says that neither side has changed, the sides are the     *)
(* same, however a download overtakes the delta, a merge base the record,  *)
(* or an edit the upload (executePull, executeConflictAction,              *)
(* commitExecuted): nothing is baselined that was not synchronized, if the *)
(* file stands still while its conflict is resolved.                       *)
THEOREM QuietIsEqual == ASSUME NoResolvingWindow PROVE Spec => []QuietMeansEqual
<1>1. QuietInv => QuietMeansEqual
  BY DEF QuietInv, Quiet, Parted, QuietMeansEqual, Beyond, Fresh
<1>2. TypeInv /\ QuietInv /\ [Next]_vars => QuietInv'
  BY QuietNext
<1> QED
  BY <1>1, <1>2, TypesInit, TypesNext, QuietInit, PTL DEF Spec
===============================================================================
