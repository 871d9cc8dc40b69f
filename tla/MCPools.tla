------------------------------ MODULE MCPools ------------------------------
(***************************************************************************)
(* Instances of Pools for TLC: runs of their own and of the editor, in a   *)
(* database beside the base pool's.                                        *)
(***************************************************************************)
EXTENDS Pools, TLC

CONSTANTS run, edit, again

Two     == {run, edit}
Three   == {run, edit, again}
Edits   == {edit, again}
OneEdit == {edit}
BatchOf(r) == IF r = run THEN <<"BEGIN">> ELSE <<"SELECT">>
BatchesOfTwo   == [r \in Two   |-> BatchOf(r)]
BatchesOfThree == [r \in Three |-> BatchOf(r)]
BesideOfTwo    == [r \in Two   |-> "db2"]
BesideOfThree  == [r \in Three |-> "db2"]
TwoDbs  == {"db1", "db2"}

(* Of two requests anything may happen to either; of three the run of its  *)
(* own is stopped or too slow, and the client of a run of the editor goes  *)
(* away.                                                                   *)
Everything == FaultKinds \X Two
Some == {<<"cancel", run>>, <<"slow", run>>, <<"clientGone", edit>>}
=============================================================================
