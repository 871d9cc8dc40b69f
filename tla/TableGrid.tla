------------------------------ MODULE TableGrid ------------------------------
(***************************************************************************)
(* The table browser of one connection: src/grid/tableData.js and          *)
(* tableGrid.js load pages of a table from the helper, gridedit/rowOps.js  *)
(* and gridedit/cellEdit.js write rows back, columns.js caches the primary *)
(* key of the table that is open.                                          *)
(*                                                                         *)
(* The UI has one thread, but every handler stops at each `await` and goes *)
(* on with whatever `session` holds by then.  A step of the model is the   *)
(* code between two awaits.  What a handler keeps in its locals is a field *)
(* of its record (a load in `loads`, the one row operation in `op`); what  *)
(* it reads again after an await is a variable.                            *)
(***************************************************************************)
EXTENDS Naturals, Sequences, FiniteSets

CONSTANTS
  Table,       \* tables of the connection
  Row,         \* primary-key values a row may have
  Filter,      \* search term and column
  NoFilter,    \* the empty search
  Match,       \* [Filter -> SUBSET Row]: the rows a search finds
  PkName,      \* [Table -> name of the primary-key column, or NoPk]
  Stored,      \* databases to start from
  PageSize,    \* rows per page
  Fault,       \* environment events of this instance, see FaultKinds
  MaxAsk,      \* bound: loads started
  MaxOp,       \* bound: row operations started
  NoTable, NoPk, NoSnap, NoOp, NoCount

FaultKinds == {"fails",      \* a request ends in an error
               "noKeys",     \* /columns fails
               "noCount",    \* the helper's COUNT(*) fails: total is null
               "reorder",    \* answers of two loads overtake each other
               "lateOpen"}   \* a tree click that was still connecting opens
                             \* its table under a dialog

ASSUME NullAssumption ==
  NoTable \notin Table /\ NoFilter \in Filter /\ NoCount \notin Nat
ASSUME MatchAssumption ==
  Row \subseteq Nat /\ IsFiniteSet(Row) /\ Match \in [Filter -> SUBSET Row]
ASSUME StoredAssumption == Stored \subseteq [Table -> SUBSET Row]
ASSUME BoundAssumption ==
  PageSize \in Nat \ {0} /\ MaxAsk \in Nat /\ MaxOp \in Nat
ASSUME FaultAssumption == Fault \subseteq FaultKinds

VARIABLES
  db,         \* the database: [Table -> its rows]
\* session.*
  active,     \* activeTable
  filter,     \* gridSearch and gridSearchCol
  snapshot,   \* tableSnapshot
  totalKey,   \* _totalKey: the table and filter `total` counts
  total,      \* _total
  keys,       \* _pkCache.key: the table whose primary key is known
\* The rest of the UI:
  drawn,      \* the snapshot the results pane shows; NoSnap: "Loading..."
  timer,      \* a debounced search is pending
  loads,      \* calls of loadTableRows that have not returned
  op,         \* the row operation in progress
  asked,      \* loads started
  ops,        \* row operations started
\* History, read by properties only:
  latest,     \* table and filter of the load asked for last
  missed,     \* a load failed, or a write whose answer was lost
  overlap     \* a load was asked for while another was in flight, or a
              \* write was done and its answer lost

session == <<active, filter, snapshot, totalKey, total, keys>>
history == <<latest, missed, overlap>>
vars == <<db, session, drawn, timer, loads, op, asked, ops, history>>

-----------------------------------------------------------------------------
(* What the helper answers.                                                *)

Found(t, f) == db[t] \cap Match[f]

(* The rows found, in key order: how many come before row r ...            *)
Before(t, f, r) == Cardinality({q \in Found(t, f) : q < r})

(* ... and one page of them.                                               *)
PageRows(t, f, p) ==
  [i \in {j \in 1..PageSize : p * PageSize + j <= Cardinality(Found(t, f))} |->
     CHOOSE r \in Found(t, f) : Before(t, f, r) + 1 = p * PageSize + i]

Snap == [of : Table, filter : Filter, page : Nat, rows : Seq(Row),
         count : Nat \cup {NoCount}, n : Nat]
ASSUME SnapAssumption == NoSnap \notin Snap

Key == Table \X Filter

-----------------------------------------------------------------------------
(* loadTableRows up to its request, for a table and filter just set or     *)
(* current.  The cached count is reused for the same table and filter.     *)
Ask(t, f, p, key, cached) ==
  /\ asked < MaxAsk
  /\ asked' = asked + 1
  /\ loads' = loads \cup
       {[n |-> asked + 1, of |-> t, filter |-> f, page |-> p,
         reuse |-> IF key = <<t, f>> THEN cached ELSE NoCount,
         phase |-> "sent", rows |-> <<>>, count |-> NoCount,
         meta |-> NoTable]}
  /\ latest' = <<t, f>>
  /\ overlap' = (overlap \/ loads # {})
  /\ missed' = FALSE

(* With no table open loadTableRows returns at once.                       *)
AskActive(f, p) ==
  IF active = NoTable
  THEN UNCHANGED <<asked, loads, history>>
  ELSE Ask(active, f, p, totalKey, total)

Init ==
  /\ db \in Stored
  /\ active = NoTable /\ filter = NoFilter /\ snapshot = NoSnap
  /\ totalKey = <<>> /\ total = NoCount /\ keys = NoTable
  /\ drawn = NoSnap /\ timer = FALSE /\ loads = {} /\ op = NoOp
  /\ asked = 0 /\ ops = 0
  /\ latest = <<>> /\ missed = FALSE /\ overlap = FALSE

Dialog == op # NoOp /\ op.phase = "dialog"

(* A click needs the pane: no dialog above it, and a grid with controls.   *)
CanClick == ~Dialog /\ drawn # NoSnap

(* openTable: everything about the last table is forgotten and page 0 of   *)
(* the new one asked for.                                                  *)
OpenTable(t) ==
  /\ Dialog => "lateOpen" \in Fault
  /\ active' = t /\ filter' = NoFilter /\ snapshot' = NoSnap
  /\ totalKey' = <<>> /\ total' = NoCount
  /\ drawn' = NoSnap
  /\ Ask(t, NoFilter, 0, <<>>, NoCount)
  /\ UNCHANGED <<db, keys, timer, op, ops>>

(* A query run takes the pane: the table is closed, its snapshot stays.    *)
RunQuery ==
  /\ ~Dialog
  /\ active # NoTable
  /\ active' = NoTable /\ drawn' = NoSnap
  /\ UNCHANGED <<db, filter, snapshot, totalKey, total, keys, timer, loads,
                 op, asked, ops, history>>

(* The Close button.                                                       *)
CloseTable ==
  /\ CanClick
  /\ active' = NoTable /\ snapshot' = NoSnap /\ drawn' = NoSnap
  /\ UNCHANGED <<db, filter, totalKey, total, keys, timer, loads, op, asked,
                 ops, history>>

(* A keystroke in the search box (re)arms the debounce timer.              *)
Keystroke(f) ==
  /\ CanClick
  /\ filter' = f
  /\ timer' = TRUE
  /\ UNCHANGED <<db, active, snapshot, totalKey, total, keys, drawn, loads,
                 op, asked, ops, history>>

(* Variant: the search waits its turn while a load is in flight.           *)
SearchWhenIdle ==
  /\ timer
  /\ timer' = FALSE
  /\ IF loads = {} THEN AskActive(filter, 0)
     ELSE UNCHANGED <<asked, loads, history>>
  /\ UNCHANGED <<db, session, drawn, op, ops>>

(* The debounce timer fires.                                               *)
Search ==
  /\ timer
  /\ timer' = FALSE
  /\ AskActive(filter, 0)
  /\ UNCHANGED <<db, session, drawn, op, ops>>

(* The column filter reloads at once.                                      *)
PickColumn(f) ==
  /\ CanClick
  /\ filter' = f
  /\ AskActive(f, 0)
  /\ UNCHANGED <<db, active, snapshot, totalKey, total, keys, drawn, timer,
                 op, ops>>

(* The last page the pager offers; unknown without a count.                *)
HasNext(s) ==
  IF s.count = NoCount THEN Len(s.rows) = PageSize
  ELSE (s.page + 1) * PageSize < s.count

(* Variant: Prev does not look whether there is a page before.             *)
TurnBackUnguarded(p) ==
  /\ CanClick
  /\ p = drawn.page
  /\ AskActive(filter, p - 1)
  /\ UNCHANGED <<db, session, drawn, timer, op, ops>>

(* Prev, Next, Reload, a sort by a header, another page size: a page of    *)
(* the same filter.                                                        *)
Turn(p) ==
  /\ CanClick
  /\ \/ p \in {0, drawn.page}
     \/ p + 1 = drawn.page
     \/ p = drawn.page + 1 /\ HasNext(drawn)
  /\ AskActive(filter, p)
  /\ UNCHANGED <<db, session, drawn, timer, op, ops>>

-----------------------------------------------------------------------------
(* A load on its way.                                                      *)

(* The helper reads the page, and the count when it is wanted.             *)
Serve(l) ==
  /\ l.phase = "sent"
  /\ \E c \in {Cardinality(Found(l.of, l.filter))}
              \cup (IF "noCount" \in Fault THEN {NoCount} ELSE {}) :
       loads' = (loads \ {l}) \cup
         {[l EXCEPT !.phase = "served",
                    !.rows  = PageRows(l.of, l.filter, l.page),
                    !.count = IF l.reuse = NoCount THEN c ELSE NoCount]}
  /\ UNCHANGED <<db, session, drawn, timer, op, asked, ops, history>>

(* The request fails: a toast.                                             *)
LoadFails(l) ==
  /\ "fails" \in Fault
  /\ l.phase = "sent"
  /\ loads' = loads \ {l}
  /\ missed' = TRUE
  /\ UNCHANGED <<db, session, drawn, timer, op, asked, ops, latest, overlap>>

InTurn(l) ==
  "reorder" \in Fault \/ \A k \in loads : k.phase = "meta" \/ l.n <= k.n

(* The answer arrives: the snapshot is replaced, whatever is open by now,  *)
(* and drawn once the primary key of the table that is open is known.      *)
(* With no table open the handler throws before it draws.                  *)
Land(l) ==
  /\ l.phase = "served"
  /\ InTurn(l)
  /\ LET counted == IF l.reuse = NoCount THEN l.count ELSE l.reuse
         new == [of |-> l.of, filter |-> l.filter, page |-> l.page,
                 rows |-> l.rows, count |-> counted, n |-> l.n]
     IN /\ snapshot' = new
        /\ totalKey' = <<l.of, l.filter>>
        /\ total' = IF l.reuse = NoCount THEN l.count ELSE total
        /\ drawn' = IF active # NoTable /\ keys = active THEN new ELSE drawn
  /\ loads' = IF active = NoTable \/ keys = active
              THEN loads \ {l}
              ELSE (loads \ {l}) \cup
                     {[l EXCEPT !.phase = "meta", !.meta = active]}
  /\ UNCHANGED <<db, active, filter, keys, timer, op, asked, ops, history>>

(* Variant: the grid is drawn only when /columns answered.                 *)
DrawIfKeysKnown(l) ==
  /\ l.phase = "meta"
  /\ loads' = loads \ {l}
  /\ \/ /\ keys' = l.meta
        /\ drawn' = IF active = NoTable THEN NoSnap ELSE snapshot
     \/ "noKeys" \in Fault /\ UNCHANGED <<keys, drawn>>
  /\ UNCHANGED <<db, active, filter, snapshot, totalKey, total, timer, op,
                 asked, ops, history>>

(* /columns answers, or fails, which only costs the headers: the grid is   *)
(* drawn from the session as it is now.                                    *)
Draw(l) ==
  /\ l.phase = "meta"
  /\ loads' = loads \ {l}
  /\ keys' \in {l.meta} \cup (IF "noKeys" \in Fault THEN {keys} ELSE {})
  /\ drawn' = IF active = NoTable THEN NoSnap ELSE snapshot
  /\ UNCHANGED <<db, active, filter, snapshot, totalKey, total, timer, op,
                 asked, ops, history>>

-----------------------------------------------------------------------------
(* A row operation: primary key, dialog, request, answer.                  *)

Kind == {"delete", "update", "insert"}

(* The operation stops; deleteRowFromGrid, editCell and the insert dialog  *)
(* only report.                                                            *)
Stop == op' = NoOp

(* The primary key of table t is known: find the row in the snapshot taken *)
(* at the click and show the statement.  No key, a key the snapshot has no *)
(* column for, an index past its rows or no table open end the operation.  *)
Show(o, t) ==
  IF active = NoTable \/ (o.kind # "insert" /\
       (\/ PkName[t] = NoPk
        \/ PkName[t] # PkName[o.snap.of]
        \/ o.at > Len(o.snap.rows)))
  THEN Stop
  ELSE op' = [o EXCEPT !.phase = "dialog", !.target = active,
                       !.row = IF o.kind = "insert" THEN o.row
                               ELSE o.snap.rows[o.at]]

(* Delete button or double click on row `at` of the grid drawn, or the     *)
(* insert button; ensurePkColumns answers from its cache or asks.          *)
Click(kind, at) ==
  /\ CanClick
  /\ op = NoOp /\ ops < MaxOp
  /\ ops' = ops + 1
  /\ snapshot # NoSnap /\ active # NoTable
  /\ IF kind = "insert" THEN at = 1 ELSE at \in 1..Len(drawn.rows)
  /\ LET o == [kind |-> kind, phase |-> "keys", at |-> at, snap |-> snapshot,
               meta |-> active, target |-> active, row |-> 0]
     IN IF keys = active THEN Show(o, active) ELSE op' = o
  /\ UNCHANGED <<db, session, drawn, timer, loads, asked, history>>

(* The answer of /columns for the operation.                               *)
KeysKnown ==
  /\ op # NoOp /\ op.phase = "keys"
  /\ \/ keys' = op.meta /\ Show(op, op.meta)
     \/ "noKeys" \in Fault /\ UNCHANGED keys /\ Stop
  /\ UNCHANGED <<db, active, filter, snapshot, totalKey, total, drawn, timer,
                 loads, asked, ops, history>>

Dismiss ==
  /\ Dialog
  /\ Stop
  /\ UNCHANGED <<db, session, drawn, timer, loads, asked, ops, history>>

(* Variant: an update, too, is sent to the table open by now.              *)
ConfirmRereads ==
  /\ Dialog
  /\ IF active = NoTable THEN Stop
     ELSE op' = [op EXCEPT !.phase = "sent", !.target = active]
  /\ UNCHANGED <<db, session, drawn, timer, loads, asked, ops, history>>

(* The user confirms.  An update is sent to the table captured with its    *)
(* statement; a delete and an insert to the table open by now.             *)
Confirm ==
  /\ Dialog
  /\ IF op.kind # "update" /\ active = NoTable THEN Stop
     ELSE op' = [op EXCEPT !.phase = "sent",
                           !.target = IF op.kind = "update" THEN op.target
                                      ELSE active]
  /\ UNCHANGED <<db, session, drawn, timer, loads, asked, ops, history>>

(* A WHERE that names another table's key column is an SQL error.          *)
KeyFits ==
  op.kind = "insert" \/ PkName[op.target] = PkName[op.snap.of]

(* The database executes the write.                                        *)
ServeWrite ==
  /\ op # NoOp /\ op.phase = "sent"
  /\ KeyFits
  /\ db' \in CASE op.kind = "delete" ->
                    {[db EXCEPT ![op.target] = @ \ {op.row}]}
               [] op.kind = "insert" ->
                    {[db EXCEPT ![op.target] = @ \cup {r}] :
                       r \in Row \ db[op.target]}
               [] OTHER -> {db}
  /\ op' = [op EXCEPT !.phase = "done"]
  /\ UNCHANGED <<session, drawn, timer, loads, asked, ops, history>>

(* The write is refused, or its answer lost: a toast, and no reload.       *)
WriteFails ==
  /\ op # NoOp
  /\ \/ op.phase = "sent" /\ (KeyFits => "fails" \in Fault)
     \/ op.phase = "done" /\ "fails" \in Fault
  /\ Stop
  /\ missed' = TRUE
  /\ overlap' = (overlap \/ op.phase = "done")
  /\ UNCHANGED <<db, session, drawn, timer, loads, asked, ops, latest>>

(* The answer: an update is written into its snapshot; a delete or insert  *)
(* forgets the count and reloads the page.                                 *)
WriteDone ==
  /\ op # NoOp /\ op.phase = "done"
  /\ Stop
  /\ IF op.kind = "update"
     THEN UNCHANGED <<totalKey, total, asked, loads, history>>
     ELSE /\ totalKey' = <<>> /\ total' = NoCount
          /\ LET p == IF op.kind = "delete" THEN op.snap.page
                      ELSE IF snapshot = NoSnap THEN 0 ELSE snapshot.page
             IN IF active = NoTable
                THEN UNCHANGED <<asked, loads, history>>
                ELSE Ask(active, filter, p, <<>>, NoCount)
  /\ UNCHANGED <<db, active, filter, snapshot, keys, drawn, timer, ops>>

-----------------------------------------------------------------------------
User ==
  \/ \E t \in Table : OpenTable(t)
  \/ RunQuery \/ CloseTable
  \/ \E f \in Filter : Keystroke(f) \/ PickColumn(f)
  \/ \E p \in 0..Cardinality(Row) : Turn(p)
  \/ \E k \in Kind, at \in 1..PageSize : Click(k, at)
  \/ Dismiss \/ Confirm

Answers ==
  \/ \E l \in loads : Serve(l) \/ LoadFails(l) \/ Land(l) \/ Draw(l)
  \/ Search \/ KeysKnown \/ ServeWrite \/ WriteFails \/ WriteDone

Next == User \/ Answers

Spec == Init /\ [][Next]_vars

-----------------------------------------------------------------------------
(* Properties.                                                             *)

LoadRec == [n : Nat, of : Table, filter : Filter, page : Nat,
            reuse : Nat \cup {NoCount}, phase : {"sent", "served", "meta"},
            rows : Seq(Row), count : Nat \cup {NoCount},
            meta : Table \cup {NoTable}]

OpRec == [kind : Kind, phase : {"keys", "dialog", "sent", "done"},
          at : Nat \ {0}, snap : Snap, meta : Table, target : Table, row : Nat]
ASSUME OpAssumption == NoOp \notin OpRec

(* Every variable holds a value of its kind.                               *)
TypeOK ==
  /\ db \in [Table -> SUBSET Row]
  /\ active \in Table \cup {NoTable} /\ keys \in Table \cup {NoTable}
  /\ filter \in Filter
  /\ snapshot \in Snap \cup {NoSnap} /\ drawn \in Snap \cup {NoSnap}
  /\ totalKey \in Key \cup {<<>>} /\ total \in Nat \cup {NoCount}
  /\ timer \in BOOLEAN /\ loads \in SUBSET LoadRec
  /\ op \in OpRec \cup {NoOp}
  /\ asked \in Nat /\ ops \in Nat
  /\ latest \in Key \cup {<<>>}
  /\ missed \in BOOLEAN /\ overlap \in BOOLEAN

(* What the user typed last is what was asked for last, as soon as no      *)
(* debounced search is pending: no click in between swallows a keystroke.  *)
RequestIsCurrent ==
  active # NoTable /\ ~timer => latest = <<active, filter>>

Quiet == loads = {} /\ op = NoOp /\ ~timer /\ active # NoTable /\ ~missed

CountIsRight ==
  drawn.count # NoCount => drawn.count = Cardinality(Found(drawn.of, drawn.filter))

(* When nothing is in flight and nothing failed, the grid shows the page   *)
(* of the database it was asked for last, its own writes included, and the *)
(* number of rows shown is the table's, unless a load was asked for while  *)
(* another was in flight or the answer to a write was lost: either leaves  *)
(* the old count in the cache.                                             *)
GridShowsDatabase ==
  Quiet => /\ drawn # NoSnap
           /\ <<drawn.of, drawn.filter>> = latest
           /\ drawn.rows = PageRows(drawn.of, drawn.filter, drawn.page)
           /\ overlap \/ CountIsRight

(* A write that names a row of a table goes to that table.                 *)
WriteHitsItsTable ==
  op # NoOp /\ op.kind # "insert" /\ op.phase \in {"sent", "done"}
    => op.target = op.snap.of
=============================================================================
