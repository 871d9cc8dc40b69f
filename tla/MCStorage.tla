----------------------------- MODULE MCStorage -----------------------------
(***************************************************************************)
(* Instances of Storage for TLC: a connection the user typed, a managed    *)
(* one, the main window and the float window.                              *)
(***************************************************************************)
EXTENDS Storage, TLC

CONSTANTS main, float, typed, managed, t1, t2, q1, q2,
  MaxAny  \* bound: handlers of any kind

Handlers == Permutations(Task)

VARIABLE alone  \* only the history is used

(* Windows that open, and run and look at statements; the list stays as it *)
(* is.  A statement that a stale cache takes for its newest one needs more *)
(* handlers than the whole of Storage can be checked with.                 *)
HistoryNext ==
  \/ \E t \in Task : TaskStep(t)
  \/ \E t \in Task, w \in Window :
       \/ Activate(t, w)
       \/ \E k \in {"look", "clear"} : Look(t, w, typed, k)
       \/ \E s \in Statement : Record(t, w, typed, s)

NoOffer == [c \in Managed |-> None]

(* A file to import or a managed database that is offered: three handlers  *)
(* leave little to do about the other.                                     *)
MCInit ==
  /\ Init /\ alone \in BOOLEAN
  /\ alone => /\ stored # Nobody /\ keys = Nobody /\ backup.rows = Nobody
              /\ offer = NoOffer
  /\ backup.rows = Nobody \/ offer = NoOffer
MCNext ==
  /\ IF alone THEN HistoryNext /\ faults' = 0 ELSE Next /\ ops' <= MaxAny
  /\ UNCHANGED alone
MCSpec == MCInit /\ [][MCNext]_<<vars, alone>>
=============================================================================
