------------------------------ MODULE MCDelta ------------------------------
EXTENDS IdDelta
CONSTANTS d1, d2, f1, x, y, meta

At(p, n) == [parent |-> p, name |-> n]
Nothing == [id \in Id |-> Gone]
(* Folder d2 with a file in it, inside folder d1. *)
Nested == [Nothing EXCEPT ![d1] = At(Root, x), ![d2] = At(d1, y), ![f1] = At(d2, x)]
(* Two folders, a file in the second one. *)
Apart == [Nothing EXCEPT ![d1] = At(Root, x), ![d2] = At(Root, y), ![f1] = At(d2, x)]
Trees == {Nothing, Nested, Apart}
ReservedPath == <<meta>>
=============================================================================
