----------------------------- MODULE Statements -----------------------------
(***************************************************************************)
(* What the helper decides about one statement of a batch from its text    *)
(* (sidecar-src/src/sqltext.rs).  A statement is abstracted to its form:   *)
(* the forms are exactly the classes the helper's own decisions tell       *)
(* apart, plus the ones a database server tells apart and the helper does  *)
(* not (WITH_DML reads for classify and writes for the server).            *)
(***************************************************************************)

(* "SELECT"      any plain read                                            *)
(* "WITH_DML"    WITH d AS (DELETE ... RETURNING ...) SELECT ..., or       *)
(*               EXPLAIN ANALYZE of a write                                *)
(* "INSERT"      INSERT / UPDATE / DELETE / MERGE / CALL                   *)
(* "DDL"         CREATE / DROP / ALTER / TRUNCATE ...                      *)
(* "COPY"        anything the helper does not recognise                    *)
(* "BEGIN"       BEGIN / START TRANSACTION                                 *)
(* "COMMIT"      COMMIT / END                                              *)
(* "ROLLBACK"    ROLLBACK, not ROLLBACK TO                                 *)
(* "USE"         USE db, SET search_path: moves the session's context      *)
(* "AUTO_OFF"    SET autocommit = 0 (MySQL)                                *)
Form == {"SELECT", "WITH_DML", "INSERT", "DDL", "COPY",
         "BEGIN", "COMMIT", "ROLLBACK", "USE", "AUTO_OFF"}

(* The first keyword decides, so a writing CTE is a Read, and transaction  *)
(* control and session SETs are Reads too.                                 *)
Classify(s) ==
  CASE s = "INSERT" -> "Write"
    [] s = "DDL"    -> "Ddl"
    [] s = "COPY"   -> "Unknown"
    [] OTHER        -> "Read"

(* How a statement that succeeded moves the tracked transaction state.     *)
(* MySQL commits implicitly around DDL; SET autocommit counts as BEGIN     *)
(* there and means nothing elsewhere.                                      *)
TxnEffect(s, mysql) ==
  CASE s = "BEGIN"                  -> "Begin"
    [] s \in {"COMMIT", "ROLLBACK"} -> "End"
    [] s = "AUTO_OFF" /\ mysql      -> "Begin"
    [] s = "DDL" /\ mysql           -> "End"
    [] OTHER                        -> "None"

(* USE and SET change session state the helper also sets itself.           *)
ChangesSessionContext(s) == s \in {"USE", "AUTO_OFF"}

(* Variant: the gate trusts the first keyword.                             *)
IsReadOnlySafeByKeyword(s) == Classify(s) = "Read"

(* The gate of a read-only connection: a Read that is neither a writing    *)
(* CTE nor EXPLAIN ANALYZE.                                                *)
IsReadOnlySafe(s) == Classify(s) = "Read" /\ s # "WITH_DML"

(* What the server does with the data, whatever the helper thinks.         *)
WritesData(s) == s \in {"WITH_DML", "INSERT", "DDL", "COPY"}
=============================================================================
