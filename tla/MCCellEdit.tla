----------------------------- MODULE MCCellEdit -----------------------------
(* Instance of CellEdit for TLC: two rows, three keys, two values.         *)
EXTENDS CellEdit, TLC

CONSTANTS r1, r2, k1, k2, k3, a, b

Rows == {r1, r2}
Keys == {k1, k2, k3}
Vals == {a, b}
TwoRows == r1 :> [key |-> k1, val |-> a] @@ r2 :> [key |-> k2, val |-> b]

APage == {Rows, {r1}, {r2}}

(* Nothing is claimed of the cells once edits have overlapped.             *)
Untangled == ~tangled

(* The rows, their keys and their values can be exchanged.                 *)
Exchange == {r1 :> r2 @@ r2 :> r1 @@ k1 :> k2 @@ k2 :> k1 @@ a :> b @@ b :> a}
=============================================================================
