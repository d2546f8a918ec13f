---------------------------- MODULE MCBackend ----------------------------
(* Backend with two Google Drive folders and two of a custom OAuth backend. *)
EXTENDS Backend

MCTypes == {"drive", "custom"}
MCTargets == {"d1", "d2", "c1", "c2"}
MCTypeOf == [t \in MCTargets |-> IF t \in {"c1", "c2"} THEN "custom" ELSE "drive"]
MCKeepsFolder == {"custom"}
==========================================================================
