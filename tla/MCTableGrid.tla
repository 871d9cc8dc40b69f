---------------------------- MODULE MCTableGrid ----------------------------
(***************************************************************************)
(* Instances of TableGrid for TLC.                                         *)
(***************************************************************************)
EXTENDS TableGrid, TLC

CONSTANTS t1, t2, all, some

Tables  == {t1, t2}
Rows    == 1..2
Filters == {all, some}
Matches == (all :> Rows) @@ (some :> {2})
(* t1 empty, with one row, with two pages of rows.                         *)
StoredRows == {[t \in Tables |-> IF t = t1 THEN rs ELSE {1}] :
                 rs \in {{}, {1}, Rows}}
(* Two tables whose primary keys have the same name, as `id` mostly is.    *)
SameKey == [t \in Tables |-> "id"]
(* ... and one table without a primary key.                                *)
OneKey  == (t1 :> "id") @@ (t2 :> NoPk)

InOrder  == {"fails", "noKeys", "noCount", "lateOpen"}
NoFaults == {}
Overtake == {"reorder"}
=============================================================================
