----------------------------- MODULE MCRenames -----------------------------
EXTENDS Renames

Order == <<<<"A">>, <<"A", "x">>, <<"A", "y">>, <<"B">>, <<"B", "x">>, <<"B", "y">>>>

(* A folder with a file, or with two, beside an empty one or none. *)
Tree(files, folders) ==
  [p \in Paths |-> IF p \in DOMAIN files THEN files[p]
                   ELSE IF p \in folders THEN Dir ELSE Absent]
Trees == {Tree(<<"A", "x">> :> 1, {<<"A">>}),
          Tree(<<"A", "x">> :> 1 @@ <<"A", "y">> :> 2, {<<"A">>}),
          Tree(<<"A", "x">> :> 1 @@ <<"B", "x">> :> 2, {<<"A">>, <<"B">>})}
=============================================================================
