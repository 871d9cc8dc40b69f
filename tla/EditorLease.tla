---------------------------- MODULE EditorLease ----------------------------
(***************************************************************************)
(* What the helper promises about the editor's session, whatever the runs, *)
(* the server and the network do: a lease on one transaction.              *)
(*                                                                         *)
(* The session is lent to one run at a time.  Only its holder changes      *)
(* whether a transaction is open on it; the reaper and the close take it   *)
(* back when nobody holds it, the reaper not without leaving a notice of   *)
(* the transaction it ends.  An answer gives the lease back, shows the     *)
(* transaction as it is then, and tells what the run noted or else what    *)
(* the reaper left; a run that gives up tells nothing and leaves the       *)
(* reaper's notice for the next.  EditorSession implements this module.    *)
(***************************************************************************)
CONSTANTS Run, Free, Closer

VARIABLES
  holder,      \* who has the lease: a run, the closer, or nobody
  txn,         \* a transaction is open on the session
  noted,       \* the holder has noted that a transaction was lost
  idle,        \* the reaper's notice waits for an answer
  registered,  \* the connection is in the registry
  said,        \* what the last answer told: "none", "lost" or "idle"
  shown        \* the transaction the user sees

lease == <<holder, txn, noted, idle, registered, said, shown>>

Init ==
  /\ holder = Free /\ txn = FALSE /\ noted = FALSE
  /\ idle = FALSE /\ registered = TRUE
  /\ said = "none" /\ shown = FALSE

Acquire(r) ==
  /\ holder = Free
  /\ holder' = r
  /\ UNCHANGED <<txn, noted, idle, registered, said, shown>>

(* Statements begin and end transactions; a loss once noted stays noted.   *)
Work(r) ==
  /\ holder = r
  /\ txn' \in BOOLEAN
  /\ noted' \in {noted, TRUE}
  /\ UNCHANGED <<holder, idle, registered, said, shown>>

Tell ==
  IF noted THEN said' = "lost" /\ idle' = idle
  ELSE said' = (IF idle THEN "idle" ELSE "none") /\ idle' = FALSE

Answer(r) ==
  /\ holder = r
  /\ holder' = Free
  /\ shown' = txn
  /\ Tell
  /\ noted' = FALSE
  /\ UNCHANGED <<txn, registered>>

(* The session is kept as it is, or dropped with its transaction.          *)
GiveUp(r) ==
  /\ holder = r
  /\ holder' = Free
  /\ txn' \in {txn, FALSE}
  /\ noted' = FALSE
  /\ UNCHANGED <<idle, registered, said, shown>>

Reap ==
  /\ holder = Free
  /\ holder' = Closer
  /\ txn' = FALSE
  /\ idle' = (idle \/ txn)
  /\ UNCHANGED <<noted, registered, said, shown>>

Unregister ==
  /\ registered
  /\ registered' = FALSE
  /\ shown' = FALSE
  /\ UNCHANGED <<holder, txn, noted, idle, said>>

Close ==
  /\ ~registered
  /\ holder = Free
  /\ holder' = Closer
  /\ txn' = FALSE
  /\ UNCHANGED <<noted, idle, registered, said, shown>>

Release ==
  /\ holder = Closer
  /\ holder' = Free
  /\ UNCHANGED <<txn, noted, idle, registered, said, shown>>

Next ==
  \/ \E r \in Run : Acquire(r) \/ Work(r) \/ Answer(r) \/ GiveUp(r)
  \/ Reap \/ Unregister \/ Close \/ Release

Spec == Init /\ [][Next]_lease
=============================================================================
