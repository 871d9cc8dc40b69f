-------------------------- MODULE MCEditorSession --------------------------
(***************************************************************************)
(* Instances of EditorSession for TLC.                                     *)
(***************************************************************************)
EXTENDS EditorSession, TLC

CONSTANTS r1, r2, c1, c2, c3

OneRun  == {r1}
TwoRuns == {r1, r2}
Clients == Permutations(TwoRuns)

(* c1 and c2 are two schemas of one database (PostgreSQL) or two databases *)
(* of one server (MySQL); c3 lies in another PostgreSQL database.          *)
OneCtx   == {c1}
TwoCtx   == {c1, c2}
AllCtx   == {c1, c2, c3}
Pools    == [c \in AllCtx |-> IF c = c3 THEN "db2" ELSE "db1"]
OnePool  == [c \in AllCtx |-> "db1"]

(* Transaction control in several runs and inside one, a write behind a    *)
(* read, a writing CTE in front, writes of every class.                    *)
PgBatches   == {<<"BEGIN", "INSERT">>, <<"COMMIT", "INSERT">>,
                <<"SELECT", "INSERT">>}
CteBatches  == PgBatches \cup {<<"ROLLBACK">>, <<"WITH_DML">>}
MyBatches   == {<<"BEGIN", "SELECT">>, <<"USE", "WITH_DML">>, <<"COPY", "DDL">>}
TxnBatches  == {<<"BEGIN", "INSERT">>, <<"COMMIT">>}

AllFaults  == FaultKinds
LiveFaults == {"break", "openFails", "clientGone", "serverError"}
Break      == {"break"}
=============================================================================
