# TEDI SQL Explorer: a verification development

TEDI SQL Explorer is an extension of the TEDI terminal: a panel with a schema
tree, a table grid and a query editor (JavaScript, `src/`), and a small HTTP
server it boots on the loopback interface, the *helper* (Rust, `sidecar-src/`),
which holds the connections to MySQL, PostgreSQL and SQLite. This directory
holds TLA+ modules that model the parts of it where order, failure and memory of
earlier steps matter, the TLC configurations that check them on small instances,
and proofs that TLAPS checks for every instance. File names below are relative
to the repository's root; `query.rs`, `session.rs`, `state.rs`, `routes.rs` and
`sqltext.rs` are in `sidecar-src/src/`, JavaScript files in `src/`.

## 1. Inventory

Every part of the system, with its state, what can happen to it, what makes it
hard, and what it should promise.

### The helper (Rust, tokio)

| part | state | operations | hard part | what makes it correct |
| --- | --- | --- | --- | --- |
| Editor session (`query.rs`, `session.rs`) | per connection: `editor` mutex around an optional `Session {pool, in_transaction, applied}`, `editor_epoch`, `notice` | `/query` with `session: true`, the idle timer, `Connection::close` | the helper guesses from the statement texts what the server's session looks like; connections die, clients vanish, statements time out; timers and runs compete for one mutex | one run at a time on the session; a lost transaction is told; nothing that writes is sent twice; the remembered context and transaction flag agree with the server; an abandoned transaction is closed in the end |
| Statement classification (`sqltext.rs`) | none | `split_statements`, `classify`, `is_read_only_safe`, `txn_effect`, `changes_session_context` | SQL by keyword, not by grammar | a read-only connection lets no write through |
| Registry, pools (`state.rs`, `db.rs`, `routes.rs`) | `connections`, `extra_pools` per PostgreSQL database, `in_flight` requests with the pid of their server process | `/connect`, `/disconnect`, `/cancel`, `backend_for`, `/shutdown` | `/connect` under an id in use; two requests that build a pool for one database; a cancel that reaches the server after its statement ended | a cancel stops the run it names and nothing else; every pool is closed; an entry ends with its request |
| Rows, edits, bound values (`rows.rs`, `edit.rs`, `bind.rs`, `value.rs`) | none | `/table-rows`, `/insert`, `/update`, `/delete` | paging bounds, integers above 2^53, types of bound values | an edit names one row |
| Catalog (`schema.rs`, `meta.rs`) | none | reads of the server's catalog | none beyond SQL text | |
| Export (`export.rs`) | one-off session per export | `/export` | a stream that outlives its request | |
| Authentication, errors (`auth.rs`, `error.rs`) | token | a comparison, a table | none | |

### The extension (JavaScript, one thread per window)

| part | state | operations | hard part | what makes it correct |
| --- | --- | --- | --- | --- |
| Helper client (`sidecar.js`, `index.js`) | `sidecar`, `bootInFlight` per window; one endpoint key in the host's storage | `ensureSidecar`, `respawnSidecar`, `request`, `deactivate` | two windows, processes that die, a retry on another helper, a boot everybody waits for | windows share a helper; no helper is left behind; a request is retried once; every request ends |
| Table grid (`grid/tableData.js`, `grid/tableGrid.js`, `gridedit/*`, `columns.js`) | `activeTable`, `tableSnapshot`, `_total`, `_totalKey`, `_pkCache`, search timer | open, search, page, reload, insert, update, delete | every handler stops at its awaits and goes on with what the session holds by then | the grid ends up showing what was asked for last; an edit goes to the table its row came from |
| Query run (`query/run.js`, `query/editContext.js`) | `requestId`, `inTransaction`, `result` | Run, Explain, Stop, Commit, Rollback | a second run while one is in flight | Stop reaches the run on screen; the bar shows the helper's state |
| Connection flow (`connections/lifecycle.js`, `connections/tunnel.js`, `tree/connState.js`) | per connection: status, in-flight promise, tunnel | connect with retry, disconnect, reconnect after a 404 | a delete that overtakes a connect; forwards two connections share | nothing connects without a handler; a deleted connection leaves nothing behind |
| Saved connections, history, managed databases, backup (`connections/store.js`, `managed.js`, `backup.js`, `query/history.js`) | values in the host's storage and keychain | add, edit, remove, import, export | read-change-write of one shared value by two windows | no entry or password is lost |
| Schema tree (`tree/*.js`) | `treeExpanded`, `treeChildren`, `treeLoadingNodes` | toggle, refresh, filter | an answer that arrives after a refresh or disconnect | no children of a connection that is gone |
| SQL text (`sql.js`, `dialects/*`, `query/sqlRefs.js`) | none | quoting, `destructiveReason` | what counts as destructive | a destructive statement is confirmed |
| AI tools (`ai.js`) | none | `sql_query` and the catalog tools, by connection id | connect under the user's hands; the guard reads the text | a tool leaves the window's connections as it found them; nothing destroys unasked |
| Cell edit (`gridedit/cellEdit.js`, `gridedit/typedEditor.js`, `dialogs.js`, `dom/datePicker.js`, `grid/resultGrid.js`) | a widget in a cell, the edit's original value and key, the question, the update under way | begin, commit, cancel, confirm, redraw | focus, clicks and frames end a widget in any order; the answer meets a grid drawn again | the cell shows what the server holds; a cancelled edit asks nothing |
| Rendering (`render/*`, `dom/*`, `gridedit/structure.js`, ...) | DOM | | | |

### How the parts interact

A click in the tree or the editor calls `fetchJson`, which calls
`request()` of the helper client; that boots or adopts a helper if there is
none and posts JSON to it. Every window of the app runs its own copy of the
extension; windows share the host's process table and storage, and normally one
helper. In the helper, each request is a tokio task that may be dropped at any
await when its HTTP client goes away. A connection is found in the registry by
its id; editor runs share the connection's one session under its mutex, all
other requests borrow from pools. Answers carry `in_transaction` and `notice`,
which the extension mirrors into the toolbar.

The hard behaviours, listed line by line under "hazards" in `PROJECT.json`, are
therefore of six kinds: tasks and timers that compete for the editor session;
handlers dropped, stopped or timed out while a pooled connection is theirs;
two views of one session, the helper's and the server's, that drift apart;
retries after a failure whose effect is unknown; UI state read again after an
await; and windows that boot, replace and kill a process they share.

## 2. Modules

```
EditorLease         what the editor session promises, abstractly
Statements          what the helper decides about one statement from its text
  EditorSession     the editor session: runs, timers, faults, two views of it;
                    implements EditorLease
    MCEditorSession instances for TLC
    EditorSessionProofs
  Pools             the registry, pools, in-flight entries, stops, closes
    MCPools, PoolsProofs
TableGrid           loads, search, paging and row operations of the table grid
    MCTableGrid, TableGridProofs
CellEdit            the edit of one cell of a query's result, widget to update
    MCCellEdit, CellEditProofs
Workbench           one window: connections, forwards, tree, runs, AI tools
    MCWorkbench, WorkbenchProofs
Storage             saved connections, keychain, offers, backup, history
    MCStorage, StorageProofs
SqlText             what is read in a statement's text: questions, edit context
    MCSqlText, SqlTextProofs
Sidecar             windows that find, boot, share, replace, stop the helper
    MCSidecar, SidecarProofs
```

The specifications do not share variables; each takes its neighbour at its
promise. `EditorSession` and `Pools` look at one helper from two sides: the
first follows what the editor's session and its server hold, with the pool a
step of its own; the second follows which request holds which server process,
with the session's contents cut down to "a transaction or a SET is on it".
`Workbench` composes the window's handlers with a small helper (`open`, `txn`,
`busy`) that behaves as `EditorLease` says: one run at a time, a transaction
only a run or the idle timer ends. The grid, the cell editor and the tree see
the helper as a request that ends with an answer or an error, which `Sidecar`
promises (`RequestsEnd`, `TwiceAtMost`).

A definition whose comment begins with "Variant" belongs to no behaviour of its
module: it is the code with one plausible mistake (a dropped guard, an
off-by-one, a forgotten reset). Each checked property fails when one of them
replaces the definition it varies, which shows what the property guards against.

### Statements and EditorSession

A statement is one of ten *forms*: exactly the classes the helper's decisions
tell apart, plus those the server tells apart and the helper does not
(`WITH_DML` is a read to `classify` and a write to the server). `Statements`
has the decisions of `sqltext.rs` for each form.

`EditorSession` is `run_query`'s session branch (`query.rs` 162-240), with
`execute_batch`, `Session` and the life of one `Connection`. Its state:

- `lock`, `slot`, `epoch`, `timers`, `notice`, `pool` are the fields of
  `Connection`; `timers` are the tasks that sleep in `schedule_idle_close`.
- `pc[r]` and the locals `ctx`, `batch`, `at`, `was`, `again`, `note` are a
  run's place in `run_query`. Only the holder of the mutex has locals.
- `server` is the other side: whether the connection is up, its transaction,
  the context names resolve in, the context a rollback would return to, and
  MySQL's autocommit. It moves by the server's rules (`Executed`, `Refused`),
  not by the helper's.
- `shown` and `said` are what the user sees: the transaction bar and the notice.

An action is the code between two awaits. `Arrive`/`TurnAway`/`TakeLock` are
`handle_query` and `try_lock`; `SwitchPool`/`RefuseSwitch` the change of
database; `KeepContext`, `ApplyContext`, `IgnoreRefusedContext`,
`FailRefusedContext`, `FindDead`, `NoSessionYet` the outcomes of
`apply_context`; `OpenSession`/`OpenFails` the new session; `SendStmt`,
`SkipWrite`, `StopCancelled`, `BatchDone` one turn of the statement loop;
`StmtOk`, `StmtError`, `StmtCancelled`, `StmtTimesOut`, `ConnBreaks` the ends of
a statement; `Respond` the answer with the timer it arms. Around a run:
`Cancel`, `ClientGone` (the HTTP client goes away and the handler's future is
dropped where it stands), `ServerDrops`, `IdleTimer`, `CloserDone`, and
`Unregister`, `CloseSession`, `ClosePools` for `/disconnect` or a replacing
`/connect`.

A cancelled or timed-out statement was not started, was executed, or is aborted:
`GiveUp` is the choice. From then on the helper's view may be wrong for good
reason, and `tainted` remembers it; properties about the two views exclude such
sessions, since nothing in the code promises more.

Left out: row decoding and the byte budget of an answer, error texts, the
one-off session of a run with `session: false` (nothing of it survives the run),
SQLite (no server, one connection).

### Pools

One connection id with the `Connection`s registered under it, one after the
other. State:

- `registered`, `life`, `toClose`, `extra`, `shut`: the map `connections`, where
  a Connection's life is (`close()` is followed await by await: the editor's
  mutex, its session, then one pool after the other, the base pool first), the
  cache `extra_pools`, the pools closed so far. A pool is named by who built it,
  so that two built for one database are two.
- `procs[p]`: a server process and what sqlx knows of it: held, on its way back,
  idle, gone; marked `close_on_drop`; what a batch left on it; the statements
  sent to it, which go on when nobody waits for them.
- `reqs[r]`: the place of a request's handler between `require_connection` and
  its answer; `entries[r]`: its `InFlightEntry`, the token and the pid;
  `stops[r]`: the `/cancel` call that names it; `editor`, `armed`: the editor's
  session and its idle timer.

`Connect`, `Disconnect`, `CloseSession`, `SessionClosed`, `ClosePool`,
`PoolDrained` are the registry and `close()`; `DropConnection` the end of the last
`Arc`. `Arrive`, `FindPool`, `Publish`/`BuildFails`, `TryLock`/`Refuse`,
`Borrow`/`AcquireFails` bring a request to its first statement. `ServerDoes` ends
a statement: its handler, if it still waits, observes it and sends the next one
or ends the batch. `StmtCancelled`, `TimeLimit` with `KillOwn`/`KillOwnFails`,
`ClientGone` are the other ways out; `Answer` removes the entry. `Stop`,
`StopFinds`, `StopKills`/`StopMisses` are the three steps of `handle_cancel`: the
pid it read may run something else by the time it is killed. `PingReturned` and
`Lends` are sqlx's pool, external; `Kill` and `Executed` the server.

sqlx's fair queue and its 15 seconds are one choice: a request that cannot
borrow now waits or fails. Left out: requests that only browse (they borrow and
return without an entry), `/connections`, several ids, SQLite.

### EditorLease

Seven variables: who holds the session, whether a transaction is open, whether
its holder noted a loss, whether the idle timer left a notice, whether the
connection is registered, what the last answer said and what the toolbar shows.
A lease is acquired when free, worked on by its holder only, and ends with an
answer (which shows the transaction and tells the run's own notice or else the
stored one) or is given up (which tells nothing and loses nothing stored); the
reaper takes a free session and leaves a notice of the transaction it ends.
`EditorSession!Lease` maps `holder` to the mutex, `txn` to `InTxn`, `noted` and
`idle` to the two notices and `registered` to `pool = "open"`; `LeaseKept` says
that `EditorSession` implements it. What the abstract module leaves out is the
whole inside of a run: contexts, batches, re-runs, the server.

### TableGrid

`loadTableRows`, the handlers that call it, and the row operations. The UI has
one thread; a step is the code between two awaits. A load in flight is a record
of `loads` with the locals the handler captured before its awaits; the one row
operation is `op`; everything the code reads again from `session` after an await
is a variable, so an answer is stored and drawn under whatever table is open by
then. `OpenTable`, `RunQuery`, `CloseTable`, `Keystroke`, `PickColumn`, `Turn`
(previous, next, reload, sort, page size), `Click`, `Dismiss`, `Confirm` are the
user's; `Search` is the debounce timer; `Serve`/`LoadFails`/`Land`/`Draw` a
load's way; `KeysKnown`/`ServeWrite`/`WriteFails`/`WriteDone` a row operation's.
Dialogs are modal: while one is open only a tree click that was still connecting
when it opened can change the table (`lateOpen`). Data is abstracted to primary
keys; a write by WHERE on a key column another table does not have is an SQL
error (`KeyFits`). `PageRows` is the function the server computes for a page,
its k-th row the k-th smallest key it found (`rows.rs` orders by the key).
Left out: cell texts, estimated counts, the sort order,
tables of another connection.

### CellEdit

`editCell` with its widget (`mountTypedEditor`), question (`openConfirmDialog`)
and update, over the result grid that redraws itself. `edits` are the calls of
`editCell` in order, with the value and td they captured; `jobs` the commits
that asked, with the place each is at (one that is finished stays, as "done");
`rows` the result's arrays, `shown` the
cells, `drawn` the page. `Begin`, `Enter`, `Escape`, `Pick`, `Dismiss`,
`ClickAway`, `Blur`, `BlurLate`, `Frame` are the ends of a text field, a menu
and a date; `Press` and `Click` answer a question; `Serve`, `Lose`, `Land` are
the update's way; `Search` and `Redraw` the grid's. `tangled` remembers that two
edits met: of one cell, of a row and its key, or an update whose key belonged, at
the server, to another row of the grid (`Known`). What the browser may do or
leave (a blur when a focused input is removed) is a choice. Left out: the text
of values and their parsing, the SQL that is shown, structure editing.

### Workbench

One window, handler by handler. A handler is a task with its place and its
locals (`task[t]`: kind, connection, the forward it read, the attempt, the
answer under way); a step is the code between two awaits, or what the helper or
the host does meanwhile. `saved`, `target`, `active`, `status`, `session`,
`expanded`, `loading`, `children` are the fields of `state`; `forwards` the
host's open SSH forwards; `open`, `txn`, `busy`, `cat` the helper's registry,
its transactions and runs, and the server's catalog.
`ClickConnection`, `Mount`, `OpenTable`, `Save`, `Test`, `Delete`, `Expand`,
`Collapse`, `Refresh`, `ReloadTree`, `Ddl`, `Run`, `EndTransaction`, `AskAI` are
what the user (or the AI host) starts; `Booted`, `SecretRead`, `Forward`,
`Connect`, `AttemptFails`, `Slept`, `Opened` are `connectWithRetry` and
`connectFromForm`, `Ask`/`Executed`/`BatchLands` a run, `LoadLands` a load of
the tree, `NotFound` the reconnect after a 404, `Persisted`, `Disconnect`,
`ReleaseTunnel`, `Cleanup` a delete. `HelperDies`, `TxnLost`, `CatalogMoves`
happen by themselves. Stop (`cancelActiveQuery`) changes nothing of the window
but names a request: `Cancelled` is the run it names. Left out: several editor
tabs, the contents of results, the session record that is restored at start.

### Storage

Two windows, each with its memory (`memory`, `revision`, `mirror`), over one
settings store (`stored`, `logged`), one keychain (`keys`), the Dev
Environment's offer and a backup file. A handler is a task; `queue` is the order
in which the host serves a window's settings calls, which may fail. `Activate`,
`Mount`, `Loaded`, `Refreshed`, `Sync` are the starts; `Save`, `Delete`, `Key`
the edits; `Export`, `Seal`, `Import`, `Open`, `Place`, `Merge` the backup;
`Record`, `Look`, `Forget` the history. Next to the code's values stand the
wanted ones (`kept`, `pass`, `past`), moved when the user asks, and who parted
from them knowingly (`crossed`, `touched`, `mixed`). Left out: the saved
workbench session, single fields of a record, the cipher, SSH host names.

### SqlText

A text is a sequence of tokens, a word or a mark each. `Bare`, `StatementsOf`
and `Reason` are `bareSql` and `destructiveReason`; `Several` is Explain's check;
`Refs`, `SingleTableSelect`, `Match` and `EditContext` decide whether a result
can be edited and which table it belongs to; `IsReadOnly` and `Writes` are the
AI tools' guard. Beside each stands the server's reading: `Lexed` goes through
the text once from left to right. The user types tokens or pastes a SELECT, runs,
confirms, cancels, explains; the AI queries. Left out: names quoted with
backticks or double quotes, dollar quotes, the words of GRANT and roles.

### Sidecar

Each window runs its own copy of `sidecar.js`; what they share is the host's
process table (`helper`) and one key of its storage (`published`, written
without being awaited: `writes`). `cached[w]` is the module variable `sidecar`,
`boot[w]` the promise `bootInFlight` every caller waits on, `reqs[r]` one call
of `request()`: its fetch, the respawn after a network failure (`Respawn`,
`ReadEndpoint`, `Probe`, `KillStale`) and the second fetch. `BootReads`,
`BootProbes`, `Spawn`, `SpawnFails`, `BootReady`, `BootExits`, `BootTimesOut`
are the boot; `Deactivate`, `KillShared`, `Clear` are `deactivate` in
`index.js`, which drops whatever the window was waiting for. `replaced`
is history: helpers that a window forgot in favour of another one.
Assumed: the probe of a helper that is ready succeeds within its 1.5 s. Left
out: requests the caller aborts, and the token; the reconnect after a 404 is in
`Workbench`.

## 3. Runs

| run | question | instance |
| --- | --- | --- |
| `pg` | Safety on PostgreSQL with everything that can go wrong: types, mutual exclusion, notices kept, no write twice, no hidden transaction, no silent loss; and the refinement: every behaviour is one of `EditorLease`. | two clients, three contexts in two databases, BEGIN;INSERT and COMMIT batches, every fault, two answers |
| `live` | On a read-only MySQL connection nothing writes, the remembered context stays the server's through USE and DDL; every run ends; a session nobody uses is closed unless a run escaped. | two clients, contexts in two databases of one server, batches with a transaction, USE, a writing CTE, COPY and DDL, lost sessions and clients, failed opens and statements, two answers, fair |
| `pools` | Who holds what: types, one holder per process, nothing unclean is lent, one pool per database, entries end with answers. | two runs of the editor and one of its own that begins a transaction, in a database beside the base pool; a stop, a time limit, a client that goes away, a disconnect |
| `answered` | Is every request answered, and does a removed connection close? | one run of the editor, one of its own, pools of two, every fault at either, fair |
| `grid` | Does the grid end up showing what was asked for last, counts and its own writes included? | two tables, one without a key, two rows, page size 1, three loads, one row operation, failures, answers in order |
| `shared` | Do windows share a helper, is every live helper accounted for, is a request retried once, does every call end? | two windows, three requests, two processes, crashes, failed fetches, failed starts, fair |
| `workbench` | Do toolbar, tree, status rows, and what a delete leaves agree with helper and host? | one connection through an SSH forward, two handlers under way of three started, connects and boots that fail, a helper that dies, a transaction that ends unasked |
| `storage` | Does what is stored follow what the user asked for? | two windows, a typed and a managed connection, two handlers under way of three started with one host call that fails, or of five when only the history is used |
| `celledit` | Do cells, arrays and server agree after edits, redraws, lost answers, and does a cancelled edit stay so? | two rows, each widget, two edits, two updates under way, until edits meet |
| `sqltext` | Who is asked before a statement that destroys, what does Explain send, which table does an editable result belong to? | every text of up to five of twelve tokens, 20 000 SELECT statements |
| `writetwice` | expected violation of `WrittenOnce` | one client, a writing CTE |
| `wrongtable` | expected violation of `WriteHitsItsTable` | two tables with equal key names, answers out of order |

### What each property says

`OneRunOnSession`: at most one run is past `try_lock`, and neither timer nor
close takes the session from it. `IdleLossKept`: a transaction the idle timer
rolled back is told by the next answer, whatever runs are refused or fail in
between. `NoWriteTwice`: a batch run again never executes twice a statement the
helper classifies as a write. `NoHiddenTxn`: when the helper thinks no
transaction is open, none is. `SilentLossHasCause`: the bar loses a transaction
without a word only when a run that noticed the loss failed before it answered.
`AppliedIsServerContext`: the remembered context is the server's.
`ReadOnlyNeverWrites`: on a read-only connection the server executes nothing
that writes. `RunsEnd`: an admitted run is answered. `SessionReapedOrEscaped`:
an unused session is closed, unless a run left it without a timer.

`LeaseKept`: the editor session implements `EditorLease`: only the run that holds
the session begins or ends a transaction, one that the idle timer ends is told by
an answer, the toolbar shows what is open at the answer.

`LentAloneAndClean`: a process that a request holds is held by it alone, and a
run of its own shares it with no statement of another, which the kill of its
time limit would otherwise hit; what the pool lends next carries no transaction
and no SET of another batch, unless a statement was abandoned on it. `SamePool`,
`PoolStaysOpen`: two requests about one database use one pool, and nobody closes
it under them but the close of their Connection. `EntriesEnd`: an answered run
leaves no entry. `RequestsAnswered`: every request ends, also with every
connection in use, by the run that needs one more to kill its statement; and a
removed Connection is closed in the end, unless an editor session that its client
left without a timer (`LeftBehind`) keeps its pool from draining.

`RequestIsCurrent`: what was typed last is what was asked for last once no
debounced search is pending. `GridShowsDatabase`: with nothing in flight and
nothing failed, the grid shows that page of the database, and the count of its
rows, unless loads overlapped or a write's answer was lost.

`TwiceAtMost`: one call of `request()` is executed at most twice.
`HelpersAccountedFor`: until something dies or closes, there is one helper; after
that a live helper nobody knows was dropped for another one (`replaced`): by a
respawn that adopted one over it, or by a boot that became ready over one that a
respawn had adopted meanwhile. `RequestsEnd`: every call ends.

`StopNamesTheRun`: Stop cancels a run of this connection that was sent and has
not landed, and every such run can be stopped, unless a second was started beside
it. `BarTellsTruth`: with no answer under way the bar shows the helper's
transaction, unless answers overtook each other, it ended unasked, or the
connection was misused (`raced`): used when it was not saved, or not so, deleted
under a handler, or saved again while it was being deleted.
`TreeSettles`: a node spins only while it loads, an open node has children, and
after a refresh none that are older. `ConnectingHasTask`: a row says that it
connects only while a handler does. `DeletedLeavesNothing`: a deleted connection
leaves no session, status, helper connection or forward, unless it was misused in
one of these ways, another connection may have opened the same forward, or an edit
of its SSH host had left the old one open (`left`).

`SavedStaysSaved`: once all is quiet the store holds every row as it was last
saved, imported or offered, none that was deleted, and the windows show it, but
for writes of a window that had not read what another wrote. `KeychainFollows`:
the password is the one last given. `HistoryKept`: the newest statements, equal
neighbours once, nothing of a deleted connection, unless a window wrote from an
old cache or dropped a statement as a repeat of what only its old cache has.

`CellTellsTruth`: once every update is answered the arrays hold the server's rows
and the cells the arrays, but for overlapping edits, lost answers, a cell redrawn
under its update and an update by the key of a row that is gone. `CancelledStaysCancelled`: a cancelled edit sends
nothing, except a date cancelled before its first frame.

`AskedWhenItDestroys`: whoever runs a text was asked exactly when the server would
drop, empty or clear a table by it, except for the texts its comment lists.
`ExplainsOne`: Explain sends one statement. `EditsWhatIsShown`: an editable result
names the table the server read, its rows are rows of that table and its key and
cells are columns of it, except for renamed columns, names that the cache has not or
more than once, and texts that the two readings split differently.

### Bounds, and why they are enough

- `MaxEpoch` counts answers. Two reach every pair of a run that leaves something
  behind (a session, a notice, a timer, a context) and the run that meets it;
  `writetwice` counts to three.
- Two clients: a third could only be turned away as the second is. They are
  interchangeable in every definition, so `pg`, which has no liveness, uses
  symmetry.
- Three contexts in two databases hold every case of `apply_context`: the same
  context, another schema of the same pool, another pool.
- Batches have one or two statements: re-running depends on whether the
  statement that failed is the first, and the gate and the stop act between two.
- Three loads: two that overtake each other and one that follows. With one row
  per page, two rows have two pages; a delete can empty the last.
- `pools` and `answered` register one Connection: `/disconnect` and the close it
  starts race with requests, stops and timers; that a second Connection replaces
  the first is in the module and in the theorems, not in the runs. Two processes
  are a full pool (`Cap` is two), and a request that finds none left fails as it
  does after 15 seconds. Three requests are two that race for the editor or for
  the pool cache and one that is stopped or too slow.
- Two handlers under way meet in every pair; the third start follows what the two
  left behind (`workbench`, `storage`); five are what it takes until a window drops a
  statement for a repeat that it is not, so `storage` starts in one of two ways and
  goes to five handlers of the history alone, none of whose host calls fails. It also
  starts with a file to import or with a managed database that is offered, not with
  both. Handlers are interchangeable, so both use
  symmetry. One connection in `workbench` leaves out that two share a forward; the
  theorems are about any number of connections, forwards and handlers.
- `celledit` stops a behaviour where two edits have met (`Untangled`), after which
  nothing is claimed of the cells; two rows with three keys and different values
  let an edit move a row onto another's key, and show which row an update hit.
- Five tokens hold a comment or a literal around one statement and another beside
  it; the SELECT statements are enumerated, every shape with every cache of up to
  two tables.
- Two helpers in `shared` are one to lose and one to replace it; a third start
  fails as `SpawnFails`.

Every run turns the deadlock check off: its bounds stop it, and a program
nobody uses rests.

### Fairness

`EditorSession` assumes weak fairness of a run's own steps, of the idle timer and
of the closing tasks: tokio schedules its tasks, `sleep` returns, and a
statement ends with an answer, an error or the time limit, which the code puts
on every statement of the batch. `apply_context` and the opening of a session
have no such limit in the code; that they end is an assumption on the driver
(a hazard of its own). Nothing is assumed of clients or faults.
`Pools` assumes the same of the handlers, the idle timer and `close()`, and that
what the server runs ends and what comes back to a pool is pinged. A borrow from a full
pool fails in the end, which is sqlx's timeout (`db.rs` sets 15 s).
`Sidecar` assumes that the steps of a request already started and of a boot
happen (a fetch and a probe end, the poll loop has a 12 s deadline) and that
`deactivate` runs to its end; nothing is assumed of processes, of publication,
or of users.

## 4. Where the code and its words part

Two runs are expected to end in a counterexample. Each states what a comment says,
and shows a behaviour of the code that does otherwise.

1. **`writetwice`**: `query.rs:218-219` runs a batch again after its connection
   died if its first statement is a read, because "A write is not: the server
   may already have applied it." The question is put to `classify`, which calls
   `WITH d AS (DELETE ... RETURNING *) SELECT ...` and `EXPLAIN ANALYZE` of a
   write reads. The server executes the statement, the connection dies under
   the answer, and it is executed again. (`is_read_only_safe` next to it knows
   better.) `NoWriteTwice` is what does hold.
2. **`wrongtable`**: `cellEdit.js:175-176` aborts an edit whose key column is
   not in the grid, "so we never UPDATE blindly". `loadTableRows` stores a late
   answer under whatever table is open by then; a delete of such a row, whose
   key column has the same name, goes to the other table.

Seen while modelling, reproduced by the model or visible in it, without a run of
its own:

- `session.rs:109-111` skips a context "already in place". On PostgreSQL a
  `SET search_path` made inside a transaction is undone by its ROLLBACK; `observe`
  keeps `applied`, and the next run resolves unqualified names in the earlier
  schema. `AppliedIsServerContext` is therefore claimed for MySQL.
- `query.rs:31-32` promises that an idle session is closed so that "a forgotten
  `BEGIN` cannot hold locks indefinitely". Only an answer arms a timer: if the last
  timer wakes while a run holds the mutex it gives up, and if that run is then
  dropped by its client or ends with an error, nothing closes the session.
  `SessionReapedOrEscaped` is what does hold.
- `sidecar.js:171-172` says a respawn "Kills the stale handle first so a transient
  failure can't leave an orphaned helper process running unreferenced". It adopts
  before it kills (180-183), and the adoption overwrites what is cached by then:
  after one crash a slow respawn adopts the other window's helper over the one its
  own window has booted meanwhile, and a boot that becomes ready after a respawn
  has adopted does the same (`replaced` in `HelpersAccountedFor`).
- `query.rs:189-204`: the note that a transaction was lost is a local; if the
  new session cannot be opened, `?` drops it and no later answer tells
  (`SilentLossHasCause` excludes exactly this: `unsaid`).
- `query.rs:209-215`: `was_in_transaction` is read before the batch. A batch
  that commits and then loses its connection reports a rollback.
- `routes.rs:331-334`: `server_canceled` is set whatever became of
  `cancel_on_server`, which only logs when it finds the base pool full or closed
  or the server gone (`StopMisses` ends like `StopKills`);
  `CHANGELOG.md:254-255` has the user told that a statement may still be running.
- `query.rs:312-339` with `session.rs:151-169`: a statement is observed only if its
  handler saw it end. A `BEGIN` that is stopped or whose client goes away may
  still be executed, on a connection that is not marked and goes back to its
  pool with the transaction, although `README.md:81-84` says a run of its own
  leaves none. `LentAloneAndClean` excludes processes with such a statement (`tainted`).
- `routes.rs:276-298`: the entry of a handler that was dropped stays in
  `in_flight` for good (`EntriesEnd` excludes it).
- A PostgreSQL COMMIT that fails (a deferred constraint) ends the transaction,
  but `observe` only sees successes: the bar still shows it open.
- MySQL with `autocommit = 0`: after a COMMIT the next statement opens a
  transaction the helper does not see; `NoHiddenTxn` is therefore claimed for
  PostgreSQL only.
- `query.rs:192-197`: a context MySQL refuses inside a transaction is ignored,
  with a comment that speaks of failed PostgreSQL transactions; the batch runs
  in the earlier database.
- `tableData.js:69-80`: a page turned while the reload after a delete is in
  flight puts the old row count back (`GridShowsDatabase` claims no count then).
- A fetch that fails while the endpoint's publication is still under way makes
  the respawn kill a live helper, which another window may use by then
  (compare `CHANGELOG.md:372-373`).
- `deactivate` abandons a boot in flight with its process, and with a cached
  helper that is dead its `/shutdown` goes through `request()`, which boots a
  helper in order to stop it.
- `lifecycle.js:51-60`: saving a connection with another SSH host opens the new
  forward and never releases the old one; nothing names it any more (`left`).
- `lifecycle.js:82-105` with `51-60`: a connection that is saved while its deletion
  is under way comes back, and loses its session and status to the deletion's end;
  a run on it then shows nothing of its transaction (`raced`).
- `store.js:80-86` has a window "pick up connections the other one added rather than
  write its own memory back over them", and drops a read that overlaps a write of
  this window. At start the refresh and the managed sync run
  together (`index.js:128,138`): if the sync wins and the offer changed, the
  refresh is dropped and the stale list has already been written over the other
  window's rows. A load that fails leaves an empty list that the next save
  persists (`store.js:10-17`). A refresh that lands in an import replaces the rows
  it has merged before it saves them (`crossed`).
- `managed.js:54-82`: an unreadable offer is an empty one: the managed rows go, with
  what the user set on them, and their passwords and history stay.
- `history.js:22-41`: the cache is never read again: a window writes over another's
  entries and brings back a deleted connection's (`mixed`); two first loads at once
  lose the first entry; a failed read followed by a write loses the older ones.
  `history.js:59` drops a statement that repeats the newest entry, of the cache: run
  it in one window, clear the history in the other and run it again in the first,
  and it is in no history (`Missed`).
- `backup.js:213-215`: an import clears the old password only of a row in this
  window's list; one left in the keychain comes back with an imported row.
- `sqlRefs.js:103-106`: `isSingleTableSelect` "Rejects joins (keyword + comma), set
  operations" (97-101), but line comments are blanked before literals (an order that
  is "mostly cosmetic", 19-21): in `SELECT id, v FROM t WHERE v <> '--' UNION SELECT
  id, v FROM u` all from the `--` in the literal on is gone, and an edit of a row
  that came from `u` is written to `t`. `EditsWhatIsShown` names such texts.
- `sql.js:95-105`: `TRUNCATE t` without TABLE is not asked about, a WHERE of a
  subquery counts for the DELETE around it, and `--` inside a literal hides the
  rest of its line. `sqlRefs.js:62-95` falls through to the first cached table of a
  name; `editContext.js` takes a renamed column for the key it is named as.
- `cellEdit.js:44-57` captures the original value when the edit begins: of two
  overlapping edits of a cell the second may be dropped as unchanged or land first.
  A cell redrawn while its update is on its way shows the old value in its new td.
- `cellEdit.js:91-101` addresses a row by the key its array holds. A row that somebody
  deleted stays in the grid; once its key is given to another row, an edit of the
  dead row changes the other one, and the grid shows the value in the wrong row
  (`Known` in `Serve`).
- `typedEditor.js:153-157` arms the date's click-away listener a frame later: an
  Enter or Escape before it leaves the listener armed, and the next click commits.
  A second Enter in that frame answers the question and commits again.

## 5. Proofs

TLC checks the instances above; the theorems hold for every set of clients,
contexts, batches, databases, tables, windows, requests, handlers, connections,
faults and helpers that satisfies the named assumptions next to the constants.
These say that the marks a model adds (`None`, the mutex's two other values) are
not among the values they stand beside, that a batch is a non-empty sequence of
forms, and that bounds are numbers: `RunAssumption`, `BatchAssumption`,
`OwnerAssumption`, `HelperAssumption`, `SnapAssumption`, `OpAssumption`,
`SessionAssumption`, `StorageAssumption`, `CellEditAssumption` (which also says that
the rows of a result have different keys and that the other column has a value) and
`QueryAssumption`, which says what a pasted SELECT is: a list of items, each with its
own name or renamed, after FROM a name of one to three parts that is no reserved
word, and a rest that is any text; and that rows which are not rows of one table
come from a DISTINCT, a word like JOIN or UNION that the server reads in the rest, or a comma
among the tables. There are no others.

| theorem | states | module |
| --- | --- | --- |
| `MutualExclusion` | `[]OneRunOnSession` | `EditorSessionProofs` |
| `ReadOnlyGate` | `[]ReadOnlyNeverWrites` | `EditorSessionProofs` |
| `OnlyReadsRunAgain` | `[]NoWriteTwice` | `EditorSessionProofs` |
| `IdleNoticeSurvives` | `[]IdleLossKept` | `EditorSessionProofs` |
| `ImplementsLease` | `Spec => LeaseKept` | `EditorSessionProofs` |
| `TypeCorrect` | `[]TypeOK` | `EditorSessionProofs` |
| `NothingHiddenOnPostgres` | `~MySql => []NoHiddenTxn` | `EditorSessionProofs` |
| `RememberedContextOnMySql` | `MySql => []AppliedIsServerContext` | `EditorSessionProofs` |
| `PoolsTyped` | `[]TypeOK` | `PoolsProofs` |
| `OnePoolPerDatabase` | `[]SamePool` | `PoolsProofs` |
| `PoolsStayOpen` | `[]PoolStaysOpen` | `PoolsProofs` |
| `EntriesEndWithRequests` | `[]EntriesEnd` | `PoolsProofs` |
| `LentOnceAndClean` | `[]LentAloneAndClean` | `PoolsProofs` |
| `NoSilentLoss` | `[]SilentLossHasCause` | `EditorSessionProofs` |
| `GridTyped` | `[]TypeOK` | `TableGridProofs` |
| `NoKeystrokeIsLost` | `[]RequestIsCurrent` | `TableGridProofs` |
| `GridShowsWhatIsStored` | `"reorder" \notin Fault => []GridShowsDatabase` | `TableGridProofs` |
| `SidecarTyped` | `[]TypeOK` | `SidecarProofs` |
| `RetriedOnce` | `[]TwiceAtMost` | `SidecarProofs` |
| `HelpersKnown` | `[]HelpersAccountedFor` | `SidecarProofs` |
| `WorkbenchTyped` | `[]TypeOK` | `WorkbenchProofs` |
| `StopIsRight` | `[]StopNamesTheRun` | `WorkbenchProofs` |
| `RowsConnect` | `[]ConnectingHasTask` | `WorkbenchProofs` |
| `TreeIsSettled` | `[]TreeSettles` | `WorkbenchProofs` |
| `DeletionIsClean` | `[]DeletedLeavesNothing` | `WorkbenchProofs` |
| `BarIsRight` | `[]BarTellsTruth` | `WorkbenchProofs` |
| `StorageTyped` | `[]TypeOK` | `StorageProofs` |
| `KeychainIsRight` | `[]KeychainFollows` | `StorageProofs` |
| `SavedIsKept` | `[]SavedStaysSaved` | `StorageProofs` |
| `HistoryIsKept` | `[]HistoryKept` | `StorageProofs` |
| `CellTyped` | `[]TypeOK` | `CellEditProofs` |
| `CancelledIsOver` | `[]CancelledStaysCancelled` | `CellEditProofs` |
| `CellsTellTruth` | `[]CellTellsTruth` | `CellEditProofs` |
| `QuestionIsAsked` | `[]AskedWhenItDestroys` | `SqlTextProofs` |
| `PlanIsOfOne` | `[]ExplainsOne` | `SqlTextProofs` |
| `EditIsOfWhatIsShown` | `[]EditsWhatIsShown` | `SqlTextProofs` |

The arguments:

- **Mutual exclusion.** `OneRunOnSession` is not inductive: it does not say that
  the holder of the mutex is inside. `MutexInv` makes it an equivalence; every
  step past `try_lock` keeps or releases the lock, and timers and closers only
  take a free one. All later proofs use that the other runs stand still.
- **What is executed.** `RunInv` says that a run's locals are at rest unless it
  holds the mutex, and that only a second run whose first statement is a read can
  reach a statement already executed (`k < at \/ (again /\ k = 1)`). `GateInv`
  adds that a run waits only for a statement that passed the gate. Together
  (`BatchInv`) they give `ReadOnlyNeverWrites`, also for batches run again, and
  with `MutexInv` that `repeated` grows only by a read (`NoWriteTwice`).
- **The notice.** `IdleLossKept` is inductive by itself: only `IdleTimer` sets
  the loss, with the notice, and only an answer that says it takes it away.
- **The lease.** The initial states map to the lease's. Steps have three shapes:
  the mapped variables stand still (`SameLease`), the holder works (`HolderWorks`),
  the holder gives up (`HolderGivesUp`); only `TakeLock`, `Respond`, `IdleTimer`
  and the close have one of their own. That it is the holder's step is `MutexInv`;
  that an answer tells one of the two notices needs their types (`TypeOK`).
- **Types.** A statement's type needs that the statement exists, so `TypeOK` is
  proved with `HolderInv`: the holder works for a context and a batch of the
  request, and while it executes there is a session and an index in range.
- **The two views.** `ViewInv` joins the two facts with `AutoInv` (PostgreSQL has
  no autocommit switch). One lemma per server function (`PgExecuted`, `PgRefused`,
  `MyExecuted`, `MyRefused`) says what it does to transaction and context, and
  one per way a session moves (dropped, still, executed, refused, observed).
  The other halves are false, which the list in section 4 shows:
  PostgreSQL undoes a SET, MySQL's autocommit hides a transaction.
- **The pools.** `SamePool` is not inductive: that two requests agree needs that
  each agrees with the cache. `PoolsInv` says that the pool of a request is the
  one its Connection would give it now (`Chosen`), that whoever builds a pool does
  it for a database other than the base pool's, that a cached pool bears its
  Connection's and its database's name, and that a closed pool is one of a
  Connection that is closing or one nobody published, the loser's of a race.
  Typing comes first (`PoolsTyped`), with what each place of a handler knows: a
  pool after `backend_for`, a process while it executes. The steps of handlers
  that touch no pool share one lemma (`SteadyKeepsPools`).
- **Entries.** `EntriesEnd` is inductive over types: one step makes a request
  "done", and it removes the entry.
- **What a client borrows.** `LentAloneAndClean` has two halves. That nobody else
  has the process needs, in one invariant (`HolderInv`), who holds what: a request
  with a lease, the editor, the pool's idle list; no two of them overlap, a
  process that is being closed is held by nobody, and one that works is held by
  the request it works for. That it comes back without a transaction is
  `CleanInv`: an unmarked process carries only what nobody has observed yet, and a
  marked one never becomes idle.
- **A session that is lost.** `SilentLossHasCause` asks what became of an open
  transaction. `OpenInv` relates the server's transaction to what the registry
  and the client know of it, `ToldInv` an answer under way to the session it
  speaks of; together they say that a loss without a notice had one of the three
  causes the property names.
- **The grid.** `RequestIsCurrent` is inductive: whatever changes table or filter
  asks or arms the timer. `GridShowsDatabase` needs that the last load in flight
  is the last asked for: `NumbersInv` orders the loads by number, `ShownInv`
  relates the rows shown to the number they came with, `AloneInv` and `CountInv`
  relate the one edit under way to the load that follows it, and `ReuseInv` says
  when an older answer may still be taken. Where an invariant speaks of the
  oldest or the newest of a set of loads, its existence comes from a
  least-element argument over numbers, not from induction over data.
- **The retry.** `TwiceAtMost` is not inductive: one must know how many
  executions still lie ahead. `Budget` charges each call with those: none done
  while it may still retry and has not been served, one at most after. The kinds
  of the variables (`Kinds`) come with it, since a request's record is updated
  from the helper cached or published by then. `Born` adds where each helper came
  from, which gives `HelpersAccountedFor`.
- **The window.** `TaskInv` says what a handler of each kind holds at each of its
  places, and `SessInv` the same of a session record; every proof about the window
  starts from them. `StopInv`: the query a Stop would name is the run's own, from
  before its request to after its answer. `ConnectInv`: a row that spins is the
  row of the one task that waits for it. `SpinInv` and `FreshInv`: a branch that
  loads has its load, and the load it waits for is the newest. `CleanInv`: a
  session that is open has a row or a handler at work on it (`LiveInv`), a
  deletion knows what it has still to close (`DeleteInv`, `GoneInv`), and a
  forward has a session that uses it (`ForwardInv`). `BarInv`: the bar and the
  session agree, or a handler is on its way that will say so.
- **Storage.** `TypeInv` again says what each handler holds at each place. For the
  keychain, three facts: handlers that work on the same connection are marked
  (`AtInv`); a handler that has still to write a password will leave the one that
  was last asked for (`DueInv`); and where none is under way the keychain has it
  already (`DoneInv`). The second needs the first: a later request may change what
  was asked for only where it shares the connection.
- **The list of connections.** `SavedStaysSaved` speaks of a moment of rest;
  what holds between is about the order of calls. `QueueInv` ties a window's queue
  to its handlers that wait, and `OrderKept` says what a step does to who waits
  behind whom. A window behind which nobody wrote has the stored list, or the one
  it writes last (`MemoryInv`), but for what an import has placed (`ImportInv`);
  a row is in the store as it was asked for, or in the one window that is going to
  write it (`KeptInv`). A load or a refresh replaces a memory and must not undo
  that: what it read is what is stored unless somebody wrote since (`GotInv`), a
  refresh that is taken has all writes of its window before it (`RefreshInv`), a
  window that starts is alone with its load (`UpInv`). Steps have three shapes: they
  leave the list alone (`Calm`), change it and write it (`Persisting`), or take
  one that was read (`Taking`); the rest are the served write and an import's row.
- **The history.** Two proofs in one. The first is about data: `Collapse`, a
  function that recurs over a log, drops each statement that repeats the one before
  it, and `CollapseGrows` says what it makes of a log with one more statement in
  front. The function exists and does what its equation says (`UpToExists`,
  `UpToDoes`) by induction on the length, which `Counting` provides: a set that
  has 0 and with each number its successor has them all, from the theorem on least
  elements. With what a cap does to a longer list (`CappedFront`) it follows that
  `Enter` does to a cache that is right what the user's statement does to the log
  (`EnterCapped`, `WantedEdited`). The second is about order. At rest the store has
  what is wanted (`RestInv`); with writes under way the one window that writes has
  it in its cache (`SoleInv`), and the cache is what its last write carries
  (`LastInv`); a cache behind which nobody wrote is the store's (`CleanInv`), and so
  is an answer since which nobody wrote (`AnswerInv`). Steps have three shapes:
  they leave the history alone (`Aloof`), change the cache and write it or not
  (`Editing`), or serve a write.
- **A cell's edit.** `TypeInv` says with the types that a cell holds the widget of
  an edit of that cell (`MountInv`) and that only an edit that ended asks. An edit
  that was cancelled is over and out of the page (`CancelInv`), so that no key, click
  or blur reaches it; what is left is the frame of a date. For the cells, an edit is
  active while it may ask, asks or waits: no two active edits share a cell
  (`OneInv`), a widget belongs to an active edit (`WidgetInv`), whose original is
  what the array holds (`OriginalInv`), so that a revert shows the array; updates
  under way are of different rows, or of one row and not of its key (`ApartInv`), so
  that each has the key its row has (`AddressInv`). Between the server's step and
  the answer `ServerInv` says what the server has of a row: the value `Worth` under
  the key `Known`, both taken from the updates that are answered there and not yet
  here. All of it is claimed only until edits meet (`CellInv`); the steps revert
  (`BackClear`), ask (`AskClear`), leave the cells alone (`AsideClear`), or are
  `Serve`, `Land`, `Begin` and `Redraw`.

- **Texts.** Nothing has to be known of the three replacements (`Bare`): the
  properties speak of texts on which they agree with the server's reading, and that
  one is a recursive function over the text whose steps are `LexStep`. That it
  exists and does what its equation says is shown as for `Collapse`. It yields words
  of the text (`LexedTyped`), and words that open nothing are read as they stand,
  whatever comes after them (`LexedAfter`, by two inductions: over those words, then
  over the rest, with the result of the rest alone behind them). Statements are what
  lies between two neighbouring cuts, so that words which stand side by side in a
  statement do so in the text (`StatementInText`), and the other way round if neither
  is a `;` (`TextInStatement`, by the last cut before them and the first one
  after). This gives the question (`ReasonIsRight`); an Explain is a prefix
  before a text without a `;` (`CutIsOne`, `ExplainedIsOne`). For the edit context, the
  opening of a SELECT is plain (`ForeIsPlain`), so its table's name is found
  (`FromIsRef`), a comma or word that combines tables is seen (`SingleIsRight`), and
  the first cached entry of the best kind is the only one left (`MatchIsLeft`).
  The state's part is small: `AskedInv`, that a question was put exactly to who
  needed one, and `ShownInv`, that text, dialog, request and result are all of
  the SELECT that was pasted.

Six properties turned out not to hold as they were first stated. They passed
on the runs' instances and failed on larger ones, as their proofs showed first:
`HistoryKept` when a window drops a statement for a repeat that it is not (`storage`
has since been made deep enough for that); `BarTellsTruth` with four handlers;
`DeletedLeavesNothing` with two connections that share a forward, or with an edit
that leaves its old forward behind; `HelpersAccountedFor` when a window starts a
helper over one it had adopted; `CellTellsTruth` with rows of different values, when
an update by a deleted row's key hits the row that has taken that key; and
`EditsWhatIsShown` when a mark in a literal hides a UNION (`sqltext` now has such a
SELECT). The models record these cases (`mixed`, `left`, `raced`, `replaced`,
`tangled`), the properties name them, and section 4 tells what the code does there.

**Only model-checked.** Liveness under fairness (`RunsEnd`,
`SessionReapedOrEscaped`, `RequestsEnd`, `RequestsAnswered`), which the prover
cannot do. Every other invariant and action property of a passing run is a
theorem.

## 6. Not modelled, and why

Catalog queries, authentication, error texts, the panel, menus and completions
keep no state beyond a request or the DOM. Export formats rows on a session of
its own. SQLite has no server to drift from. Performance limits (pool size, byte
budget, row caps) cut answers and change no state. The statement splitter and
keyword scanner of `sqltext.rs` are represented by their verdict per form; quoting
and the encoding of bound values (`bind.rs`, `value.rs`) by what they achieve. The
workbench session that is saved and restored, editor tabs and structure editing
are left out of `Workbench`.

## 7. Plan

Done: the editor session and its abstract lease, the pools, the grid, the helper's
life cycle, the window's handlers, storage, statement texts and cell edits.

Proved: every safety property of these modules, and that the editor session
implements its lease.

After that: the splitter of `sqltext.rs` over small alphabets against a reference
lexer, as `SqlText` does for `sql.js`; and abstract specifications for the pools
and the stored list of connections, which their invariants already describe.
