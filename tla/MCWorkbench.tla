---------------------------- MODULE MCWorkbench ----------------------------
(***************************************************************************)
(* Instances of Workbench for TLC.                                         *)
(***************************************************************************)
EXTENDS Workbench, TLC

CONSTANTS c1, t1, t2, s1

Through  == [c \in Conn |-> s1]
Handlers == Permutations(Task)
=============================================================================
