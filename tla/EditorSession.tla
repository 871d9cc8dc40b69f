--------------------------- MODULE EditorSession ---------------------------
(***************************************************************************)
(* The query editor's long-lived database session inside the helper        *)
(* (sidecar-src/src/query.rs, session.rs, state.rs).                       *)
(*                                                                         *)
(* One Connection of the helper owns ONE session slot, `Connection::       *)
(* editor`, a mutex around an optional Session.  Every run of the editor   *)
(* (POST /query with session: true) takes the mutex without waiting,       *)
(* repairs or opens the session, runs its batch statement by statement,    *)
(* answers, and arms a ten-minute timer that closes the session unless a   *)
(* later run bumped the epoch.  Around it: the user's Stop, statement      *)
(* timeouts, connections that die, HTTP clients that go away (which drops  *)
(* the handler's future where it stands), and the close of the whole       *)
(* Connection by /disconnect or by a /connect that replaces it.            *)
(*                                                                         *)
(* The model keeps two views of the same session: `slot`, what the helper  *)
(* believes, and `server`, what the database does.  The properties are     *)
(* about where the two part and what the user is told when they do.        *)
(***************************************************************************)
EXTENDS Statements, Naturals, Sequences

CONSTANTS
  Run,          \* clients that may post an editor run, one at a time each
  Ctx,          \* database/schema contexts a run may ask for
  PoolOf,       \* [Ctx -> pool]: the database whose pool serves a context
  Batch,        \* batches a run may carry: non-empty sequences of forms
  MySql,        \* TRUE: MySQL semantics, FALSE: PostgreSQL semantics
  AllowWrites,  \* ConnectionConfig::allow_writes
  Fault,        \* environment events of this instance, see FaultKinds
  MaxEpoch,     \* bound: number of runs that complete
  NoCtx,        \* no context applied
  NoSession,    \* the empty slot
  Free, Closer  \* mutex free / held by the idle timer or Connection::close

FaultKinds == {"break", "cancel", "timeout", "openFails", "clientGone",
               "serverError", "close"}

Pool == {PoolOf[c] : c \in Ctx}
Path == Ctx \cup {NoCtx}

ASSUME RunAssumption == Free \notin Run /\ Closer \notin Run /\ Free # Closer
ASSUME CtxAssumption == NoCtx \notin Ctx
ASSUME BatchAssumption ==
  \A b \in Batch : b \in Seq(Form) /\ Len(b) \in Nat \ {0}
ASSUME FlagAssumption ==
  MySql \in BOOLEAN /\ AllowWrites \in BOOLEAN /\ Fault \subseteq FaultKinds
ASSUME MaxEpochAssumption == MaxEpoch \in Nat

(* The helper's Session: the pool it came from, its guess whether a        *)
(* transaction is open, and the context it last applied.                   *)
Session == [pool : Pool, inTxn : BOOLEAN, applied : Path]
ASSUME NoSessionAssumption == NoSession \notin Session

VARIABLES
  lock,       \* editor: Mutex<..>, its holder
  slot,       \* the Option<Session> in it; during a run, the run's session
  epoch,      \* editor_epoch
  timers,     \* epochs for which an idle-close task still sleeps
  notice,     \* Connection::notice: "none" or "idle"
  pool,       \* "open", then "leaving" (removed from the registry),
              \* "closing" (editor session closed), "closed" (pools closed)
  pc,         \* where each run is
  cancelled,  \* runs whose cancellation token fired
\* The locals of the run that holds the mutex:
  ctx,        \* the context it asks for
  batch,      \* its statements
  at,         \* the statement it is at
  was,        \* was_in_transaction
  again,      \* TRUE while the batch runs for the second time
  note,       \* its local `notice`: "none" or "lost"
\* The world outside the helper:
  server,     \* the database's side of the session in `slot`
  shown,      \* the editor's toolbar: "Transaction open"
  said        \* the notice of the last answer: "none", "lost" or "idle"

(* History, read by properties only.                                       *)
VARIABLES
  ran,        \* indexes of this run's statements the server executed
  repeated,   \* forms of the last run's statements executed twice
  userEnded,  \* a COMMIT / ROLLBACK succeeded since the last answer
  unsaid,     \* a "lost" note was dropped without an answer
  idleLoss,   \* the idle timer discarded a transaction, not yet told
  tainted,    \* the session's server side moved without observe()
  escaped     \* a session was left in the slot with no timer to close it

locals  == <<ctx, batch, at, was, again, note>>
slots   == <<lock, slot, epoch, timers, notice, pool>>
user    == <<shown, said>>
history == <<ran, repeated, userEnded, unsaid, idleLoss, tainted, escaped>>
vars    == <<pc, cancelled, locals, slots, server, user, history>>

-----------------------------------------------------------------------------
(* The database's side of one session.                                     *)

Server == [up : BOOLEAN, txn : {"none", "open", "failed"},
           path : Path, revert : Path, auto : BOOLEAN]

(* No connection: whatever it had open is rolled back.                     *)
Down == [up |-> FALSE, txn |-> "none", path |-> NoCtx, revert |-> NoCtx,
         auto |-> TRUE]

Fresh(c) == [Down EXCEPT !.up = TRUE, !.path = c]

(* PostgreSQL undoes a SET when the transaction it ran in is rolled back.  *)
RolledBack(v) ==
  [v EXCEPT !.txn = "none",
            !.path = IF MySql \/ v.txn = "none" THEN v.path ELSE v.revert]

Begun(v) ==
  [v EXCEPT !.txn = "open",
            !.revert = IF v.txn = "none" THEN v.path ELSE v.revert]

(* Inside a failed PostgreSQL transaction only its end is accepted.        *)
Accepts(v, s) == v.txn = "failed" => s \in {"COMMIT", "ROLLBACK"}

(* The states a statement that succeeds may leave the server in.  With     *)
(* autocommit off any statement on data opens a transaction.  MySQL DDL    *)
(* commits first, and may drop the session's own database.                 *)
Executed(v, s) ==
  CASE s = "BEGIN"    -> {Begun(v)}
    [] s = "COMMIT"   -> {IF v.txn = "failed" THEN RolledBack(v)
                          ELSE [v EXCEPT !.txn = "none"]}
    [] s = "ROLLBACK" -> {RolledBack(v)}
    [] s = "USE"      -> {[v EXCEPT !.path = c] : c \in Ctx}
    [] s = "AUTO_OFF" -> {[v EXCEPT !.auto = ~MySql]}
    [] s = "DDL" /\ MySql ->
         {[v EXCEPT !.txn = "none", !.path = c] : c \in {v.path, NoCtx}}
    [] OTHER          -> {IF v.auto \/ v.txn # "none" THEN v ELSE Begun(v)}

(* The state a statement that fails leaves the server in.  A PostgreSQL    *)
(* COMMIT that fails (deferred constraint, serialization) ends the         *)
(* transaction; MySQL DDL has committed before it fails.                   *)
Refused(v, s) ==
  IF MySql
  THEN IF s = "DDL" THEN [v EXCEPT !.txn = "none"] ELSE v
  ELSE IF s = "COMMIT" THEN RolledBack(v)
  ELSE IF v.txn = "open" THEN [v EXCEPT !.txn = "failed"] ELSE v

-----------------------------------------------------------------------------
(* Variant: USE and SET leave what the helper remembers.                   *)
ObserveTrustsUse(sess, s) ==
  LET effect == TxnEffect(s, MySql) IN
  [sess EXCEPT
     !.inTxn   = (effect = "Begin") \/ (effect = "None" /\ sess.inTxn),
     !.applied = IF Classify(s) = "Ddl" THEN NoCtx ELSE sess.applied]

(* Variant: a statement without an effect clears the transaction flag.     *)
ObserveClearsFlag(sess, s) ==
  [sess EXCEPT
     !.inTxn   = TxnEffect(s, MySql) = "Begin",
     !.applied = IF ChangesSessionContext(s) \/ Classify(s) = "Ddl"
                 THEN NoCtx ELSE sess.applied]

(* Session::observe, for a statement that succeeded.                       *)
Observe(sess, s) ==
  LET effect == TxnEffect(s, MySql) IN
  [sess EXCEPT
     !.inTxn   = (effect = "Begin") \/ (effect = "None" /\ sess.inTxn),
     !.applied = IF ChangesSessionContext(s) \/ Classify(s) = "Ddl"
                 THEN NoCtx ELSE sess.applied]

InTxn == slot # NoSession /\ slot.inTxn

Stmt == batch[at]

(* The server executed the current statement of this run.                  *)
RecordRan ==
  /\ ran' = ran \cup {at}
  /\ repeated' = IF at \in ran THEN repeated \cup {Stmt} ELSE repeated

(* Variant: statements counted from zero.                                  *)
ResetLocalsToZero ==
  /\ ctx' = NoCtx /\ batch' = <<>> /\ at' = 0
  /\ was' = FALSE /\ again' = FALSE /\ note' = "none"
  /\ ran' = {}

ResetLocals ==
  /\ ctx' = NoCtx /\ batch' = <<>> /\ at' = 1
  /\ was' = FALSE /\ again' = FALSE /\ note' = "none"
  /\ ran' = {}

Leave(r) ==
  /\ pc' = [pc EXCEPT ![r] = "idle"]
  /\ cancelled' = cancelled \ {r}

(* Variant: the stored notice is taken before the run goes ahead.          *)
AbandonWithNotice(r) ==
  /\ Leave(r)
  /\ ResetLocals
  /\ lock' = Free
  /\ unsaid' = (unsaid \/ note = "lost")
  /\ escaped' = (escaped \/ (slot' # NoSession /\ epoch \notin timers))
  /\ notice' = "none"
  /\ UNCHANGED <<epoch, timers, pool, user, userEnded, idleLoss>>

(* The mutex holder gives up with an error or is dropped: its local notice *)
(* goes with it, and no timer is armed for a session it leaves behind.     *)
Abandon(r) ==
  /\ Leave(r)
  /\ ResetLocals
  /\ lock' = Free
  /\ unsaid' = (unsaid \/ note = "lost")
  /\ escaped' = (escaped \/ (slot' # NoSession /\ epoch \notin timers))
  /\ UNCHANGED <<epoch, timers, notice, pool, user, userEnded, idleLoss>>

Init ==
  /\ pc = [r \in Run |-> "idle"] /\ cancelled = {}
  /\ ctx = NoCtx /\ batch = <<>> /\ at = 1
  /\ was = FALSE /\ again = FALSE /\ note = "none"
  /\ lock = Free /\ slot = NoSession /\ epoch = 0 /\ timers = {}
  /\ notice = "none" /\ pool = "open"
  /\ server = Down
  /\ shown = FALSE /\ said = "none"
  /\ ran = {} /\ repeated = {} /\ userEnded = FALSE /\ unsaid = FALSE
  /\ idleLoss = FALSE /\ tainted = FALSE /\ escaped = FALSE

-----------------------------------------------------------------------------
(* A run: handle_query and run_query up to the first statement.            *)

(* The request is admitted while the Connection is in the registry.        *)
Arrive(r) ==
  /\ pc[r] = "idle"
  /\ pool = "open"
  /\ epoch < MaxEpoch
  /\ pc' = [pc EXCEPT ![r] = "queued"]
  /\ UNCHANGED <<cancelled, locals, slots, server, user, history>>

(* No pool for the database, or the mutex is taken: an error, no queueing. *)
TurnAway(r) ==
  /\ pc[r] = "queued"
  /\ lock # Free \/ "openFails" \in Fault
  /\ Leave(r)
  /\ UNCHANGED <<locals, slots, server, user, history>>

(* editor.try_lock() succeeds.                                             *)
TakeLock(r) ==
  /\ pc[r] = "queued"
  /\ lock = Free
  /\ lock' = r
  /\ pc' = [pc EXCEPT ![r] = "switch"]
  /\ \E c \in Ctx, b \in Batch : ctx' = c /\ batch' = b
  /\ repeated' = {}
  /\ UNCHANGED <<cancelled, at, was, again, note, slot, epoch, timers, notice,
                 pool, server, user, ran, userEnded, unsaid, idleLoss, tainted,
                 escaped>>

OtherPool == slot # NoSession /\ slot.pool # PoolOf[ctx]

(* A session belongs to one database's pool: another one closes it ...     *)
SwitchPool(r) ==
  /\ pc[r] = "switch"
  /\ ~(OtherPool /\ slot.inTxn)
  /\ pc' = [pc EXCEPT ![r] = "apply"]
  /\ IF OtherPool
     THEN slot' = NoSession /\ server' = Down /\ tainted' = FALSE
     ELSE UNCHANGED <<slot, server, tainted>>
  /\ UNCHANGED <<cancelled, locals, lock, epoch, timers, notice, pool, user,
                 ran, repeated, userEnded, unsaid, idleLoss, escaped>>

(* ... unless it has a transaction open: the run is refused.               *)
RefuseSwitch(r) ==
  /\ pc[r] = "switch"
  /\ OtherPool /\ slot.inTxn
  /\ UNCHANGED <<slot, server, tainted, repeated>>
  /\ Abandon(r)

(* Start executing on the session in the slot.                             *)
StartBatch(r) ==
  /\ pc' = [pc EXCEPT ![r] = "exec"]
  /\ was' = slot'.inTxn
  /\ at' = 1
  /\ UNCHANGED <<cancelled, ctx, batch, again, lock, epoch, timers, notice,
                 pool, user, ran, repeated, userEnded, unsaid, idleLoss,
                 escaped>>

(* apply_context: nothing to do when the context is in place, unless the   *)
(* session sat idle outside a transaction and is probed.                   *)
KeepContext(r) ==
  /\ pc[r] = "apply"
  /\ slot # NoSession
  /\ slot.applied = ctx
  /\ UNCHANGED <<slot, server, note, tainted>>
  /\ StartBatch(r)

MayApply == slot # NoSession /\ (slot.applied # ctx \/ ~slot.inTxn)

ApplyContext(r) ==
  /\ pc[r] = "apply"
  /\ MayApply
  /\ server.up /\ server.txn # "failed"
  /\ slot' = [slot EXCEPT !.applied = ctx]
  /\ server' = [server EXCEPT !.path = ctx]
  /\ UNCHANGED <<note, tainted>>
  /\ StartBatch(r)

(* The server refuses the context: a failed PostgreSQL transaction, or     *)
(* a MySQL database that is gone.                                          *)
ContextRefused ==
  /\ MayApply /\ server.up
  /\ server.txn = "failed" \/ (MySql /\ "serverError" \in Fault)

(* Inside a transaction the batch runs all the same ...                    *)
IgnoreRefusedContext(r) ==
  /\ pc[r] = "apply"
  /\ ContextRefused
  /\ slot.inTxn
  /\ UNCHANGED <<slot, server, note, tainted>>
  /\ StartBatch(r)

(* ... and outside one the run ends with the error.                        *)
FailRefusedContext(r) ==
  /\ pc[r] = "apply"
  /\ ContextRefused
  /\ ~slot.inTxn
  /\ UNCHANGED <<slot, server, tainted, repeated>>
  /\ Abandon(r)

(* Variant: the session is replaced without a word.                        *)
FindDeadSilently(r) ==
  /\ pc[r] = "apply"
  /\ MayApply
  /\ ~server.up
  /\ slot' = NoSession /\ server' = Down /\ tainted' = FALSE
  /\ pc' = [pc EXCEPT ![r] = "open"]
  /\ UNCHANGED <<cancelled, locals, lock, epoch, timers, notice, pool, user,
                 ran, repeated, userEnded, unsaid, idleLoss, escaped>>

(* The connection died while idle: the session is dropped, and the loss of *)
(* a transaction noted for the answer.                                     *)
FindDead(r) ==
  /\ pc[r] = "apply"
  /\ MayApply
  /\ ~server.up
  /\ note' = IF slot.inTxn THEN "lost" ELSE note
  /\ slot' = NoSession /\ server' = Down /\ tainted' = FALSE
  /\ pc' = [pc EXCEPT ![r] = "open"]
  /\ UNCHANGED <<cancelled, ctx, batch, at, was, again, lock, epoch, timers,
                 notice, pool, user, ran, repeated, userEnded, unsaid,
                 idleLoss, escaped>>

NoSessionYet(r) ==
  /\ pc[r] = "apply"
  /\ slot = NoSession
  /\ pc' = [pc EXCEPT ![r] = "open"]
  /\ UNCHANGED <<cancelled, locals, slots, server, user, history>>

(* Session::open(sticky), with_pid and apply_context on the new session;   *)
(* first time or for the second run of a batch.                            *)
OpenSession(r) ==
  /\ pc[r] = "open"
  /\ pool # "closed"
  /\ slot' = [pool |-> PoolOf[ctx], inTxn |-> FALSE, applied |-> ctx]
  /\ server' = Fresh(ctx)
  /\ UNCHANGED <<note, tainted>>
  /\ StartBatch(r)

(* Any of the three fails: `?` returns the error.                          *)
OpenFails(r) ==
  /\ pc[r] = "open"
  /\ pool = "closed" \/ "openFails" \in Fault
  /\ UNCHANGED <<slot, server, tainted, repeated>>
  /\ Abandon(r)

-----------------------------------------------------------------------------
(* The batch: execute_batch.                                               *)

(* The batch is done: every statement had its turn.                        *)
BatchDone(r) ==
  /\ pc[r] = "exec"
  /\ at > Len(batch)
  /\ pc' = [pc EXCEPT ![r] = "settle"]
  /\ UNCHANGED <<cancelled, locals, slots, server, user, history>>

(* The token fired between two statements: "canceled", and the batch ends. *)
StopCancelled(r) ==
  /\ pc[r] = "exec"
  /\ at <= Len(batch)
  /\ r \in cancelled
  /\ pc' = [pc EXCEPT ![r] = "settle"]
  /\ UNCHANGED <<cancelled, locals, slots, server, user, history>>

Gated == ~AllowWrites /\ ~IsReadOnlySafe(Stmt)

(* A read-only connection answers an error and goes on.                    *)
SkipWrite(r) ==
  /\ pc[r] = "exec"
  /\ at <= Len(batch)
  /\ r \notin cancelled
  /\ Gated
  /\ at' = at + 1
  /\ UNCHANGED <<pc, cancelled, ctx, batch, was, again, note, slots, server,
                 user, history>>

SendStmt(r) ==
  /\ pc[r] = "exec"
  /\ at <= Len(batch)
  /\ r \notin cancelled
  /\ ~Gated
  /\ pc' = [pc EXCEPT ![r] = "await"]
  /\ UNCHANGED <<cancelled, locals, slots, server, user, history>>

NextStmt(r) ==
  /\ pc' = [pc EXCEPT ![r] = "exec"]
  /\ at' = at + 1
  /\ UNCHANGED <<cancelled, ctx, batch, was, again, note, lock, epoch, timers,
                 notice, pool, user, unsaid, idleLoss, escaped>>

(* The reply arrives before a cancel: the select polls the token first.    *)
StmtOk(r) ==
  /\ pc[r] = "await"
  /\ r \notin cancelled
  /\ server.up /\ Accepts(server, Stmt)
  /\ server' \in Executed(server, Stmt)
  /\ slot' = Observe(slot, Stmt)
  /\ userEnded' = (userEnded \/ TxnEffect(Stmt, MySql) = "End")
  /\ RecordRan
  /\ UNCHANGED tainted
  /\ NextStmt(r)

(* The server answers an error: reported, and the batch goes on.           *)
StmtError(r) ==
  /\ pc[r] = "await"
  /\ r \notin cancelled
  /\ server.up
  /\ ~Accepts(server, Stmt) \/ "serverError" \in Fault
  /\ server' = Refused(server, Stmt)
  /\ UNCHANGED <<slot, ran, repeated, userEnded, tainted>>
  /\ NextStmt(r)

(* The helper stops waiting.  The server had not started the statement,    *)
(* executed it, or is made to abort it (KILL QUERY, pg_cancel_backend).    *)
GiveUp ==
  \/ UNCHANGED <<server, ran, repeated, tainted>>
  \/ /\ server.up /\ Accepts(server, Stmt)
     /\ server' \in Executed(server, Stmt)
     /\ tainted' = (tainted \/ server' # server)
     /\ RecordRan
  \/ /\ server.up
     /\ server' = Refused(server, Stmt)
     /\ tainted' = (tainted \/ (server'.txn = "none" /\ server.txn # "none"))
     /\ UNCHANGED <<ran, repeated>>

(* Stop: the batch ends here, the session is kept.                         *)
StmtCancelled(r) ==
  /\ pc[r] = "await"
  /\ r \in cancelled
  /\ GiveUp
  /\ pc' = [pc EXCEPT ![r] = "settle"]
  /\ UNCHANGED <<cancelled, locals, slots, user, userEnded, unsaid, idleLoss,
                 escaped>>

(* The time limit: the batch goes on with the next statement.              *)
StmtTimesOut(r) ==
  /\ "timeout" \in Fault
  /\ pc[r] = "await"
  /\ r \notin cancelled
  /\ GiveUp
  /\ UNCHANGED <<slot, userEnded>>
  /\ NextStmt(r)

(* The connection dies under the statement, which the server executed or   *)
(* not.  The rest of run_query up to the answer has no await unless the    *)
(* batch is run again:                                                     *)
(*  - a transaction was open when the batch began: noted as lost;          *)
(*  - the very first statement, classified Read: again on a new session;   *)
(*  - otherwise the error is the answer.                                   *)
(* Variants: the batch is run again wherever it broke; without end.        *)
RunsAgainAnywhere == ~was /\ ~again /\ Classify(batch[1]) = "Read"
RunsAgainAlways   == ~was /\ at = 1 /\ Classify(batch[1]) = "Read"

RunsAgain == ~was /\ ~again /\ at = 1 /\ Classify(batch[1]) = "Read"

ConnBreaks(r) ==
  /\ pc[r] = "await"
  /\ r \notin cancelled
  /\ ~server.up \/ "break" \in Fault
  /\ \/ server.up /\ Accepts(server, Stmt) /\ RecordRan
     \/ UNCHANGED <<ran, repeated>>
  /\ slot' = NoSession /\ server' = Down /\ tainted' = FALSE
  /\ note' = IF was /\ ~again THEN "lost" ELSE note
  /\ again' = (again \/ RunsAgain)
  /\ pc' = [pc EXCEPT ![r] = IF RunsAgain THEN "open" ELSE "settle"]
  /\ UNCHANGED <<cancelled, ctx, batch, at, was, lock, epoch, timers, notice,
                 pool, user, userEnded, unsaid, idleLoss, escaped>>

(* Variant: the timer waits for the epoch before this run's.               *)
RespondOldEpoch(r) ==
  /\ pc[r] = "settle"
  /\ Leave(r)
  /\ ResetLocals
  /\ lock' = Free
  /\ said' = IF note # "none" THEN note ELSE notice
  /\ notice' = IF note # "none" THEN notice ELSE "none"
  /\ shown' = InTxn
  /\ epoch' = epoch + 1
  /\ timers' = timers \cup {epoch}
  /\ idleLoss' = (idleLoss /\ said' # "idle")
  /\ unsaid' = FALSE
  /\ escaped' = FALSE
  /\ userEnded' = FALSE
  /\ UNCHANGED <<slot, pool, server, repeated, tainted>>

(* Variant: the stored notice is taken even when the run's own goes first. *)
RespondTakesBoth(r) ==
  /\ pc[r] = "settle"
  /\ Leave(r)
  /\ ResetLocals
  /\ lock' = Free
  /\ said' = IF note # "none" THEN note ELSE notice
  /\ notice' = "none"
  /\ shown' = InTxn
  /\ epoch' = epoch + 1
  /\ timers' = timers \cup {epoch + 1}
  /\ idleLoss' = (idleLoss /\ said' # "idle")
  /\ unsaid' = FALSE
  /\ escaped' = FALSE
  /\ userEnded' = FALSE
  /\ UNCHANGED <<slot, pool, server, repeated, tainted>>

(* The answer: the run's own notice or else the stored one, the            *)
(* transaction flag of the session in the slot, the mutex released and the *)
(* idle timer armed for the new epoch.                                     *)
Respond(r) ==
  /\ pc[r] = "settle"
  /\ Leave(r)
  /\ ResetLocals
  /\ lock' = Free
  /\ said' = IF note # "none" THEN note ELSE notice
  /\ notice' = IF note # "none" THEN notice ELSE "none"
  /\ shown' = InTxn
  /\ epoch' = epoch + 1
  /\ timers' = timers \cup {epoch + 1}
  /\ idleLoss' = (idleLoss /\ said' # "idle")
  /\ unsaid' = FALSE
  /\ escaped' = FALSE
  /\ userEnded' = FALSE
  /\ UNCHANGED <<slot, pool, server, repeated, tainted>>

-----------------------------------------------------------------------------
(* Everything around a run.                                                *)

(* POST /cancel: the token fires.                                          *)
Cancel(r) ==
  /\ "cancel" \in Fault
  /\ pc[r] # "idle"
  /\ r \notin cancelled
  /\ cancelled' = cancelled \cup {r}
  /\ UNCHANGED <<pc, locals, slots, server, user, history>>

(* The HTTP client goes away while the handler awaits: its future is       *)
(* dropped there.  A session of a first run stays in the slot; the one of  *)
(* a second run was not stored yet.                                        *)
ClientGone(r) ==
  /\ "clientGone" \in Fault
  /\ \/ /\ pc[r] = "queued"
        /\ Leave(r)
        /\ UNCHANGED <<locals, slots, server, user, history>>
     \/ /\ pc[r] \in {"apply", "open"}
        /\ UNCHANGED <<slot, server, tainted, repeated>>
        /\ Abandon(r)
     \/ /\ pc[r] = "await"
        /\ \E done \in BOOLEAN :
             /\ done => server.up /\ Accepts(server, Stmt)
             /\ repeated' = IF done /\ at \in ran THEN repeated \cup {Stmt}
                            ELSE repeated
             /\ IF again
                THEN slot' = NoSession /\ server' = Down /\ tainted' = FALSE
                ELSE /\ UNCHANGED slot
                     /\ server' \in IF done THEN Executed(server, Stmt)
                                    ELSE {server}
                     /\ tainted' = (tainted \/ server' # server)
        /\ Abandon(r)

(* The session's connection dies while nobody uses it.                     *)
ServerDrops ==
  /\ "break" \in Fault
  /\ server.up
  /\ server' = Down
  /\ UNCHANGED <<pc, cancelled, locals, slots, user, history>>

(* Variant: the timer does not ask for the mutex.                          *)
IdleTimerUnlocked(e) ==
  /\ e \in timers
  /\ timers' = timers \ {e}
  /\ IF e = epoch /\ slot # NoSession
     THEN /\ lock' = Closer
          /\ slot' = NoSession /\ server' = Down /\ tainted' = FALSE
          /\ notice' = IF slot.inTxn THEN "idle" ELSE notice
          /\ idleLoss' = (idleLoss \/ slot.inTxn)
     ELSE UNCHANGED <<lock, slot, server, notice, idleLoss, tainted>>
  /\ UNCHANGED <<pc, cancelled, locals, epoch, pool, user, ran, repeated,
                 userEnded, unsaid, escaped>>

(* The idle timer of epoch e wakes up.  Only the latest acts, and only if  *)
(* no run holds the mutex.                                                 *)
IdleTimer(e) ==
  /\ e \in timers
  /\ timers' = timers \ {e}
  /\ IF e = epoch /\ lock = Free /\ slot # NoSession
     THEN /\ lock' = Closer
          /\ slot' = NoSession /\ server' = Down /\ tainted' = FALSE
          /\ notice' = IF slot.inTxn THEN "idle" ELSE notice
          /\ idleLoss' = (idleLoss \/ slot.inTxn)
     ELSE UNCHANGED <<lock, slot, server, notice, idleLoss, tainted>>
  /\ UNCHANGED <<pc, cancelled, locals, epoch, pool, user, ran, repeated,
                 userEnded, unsaid, escaped>>

(* The connection is closed and the mutex released.                        *)
CloserDone ==
  /\ lock = Closer
  /\ lock' = Free
  /\ UNCHANGED <<pc, cancelled, locals, slot, epoch, timers, notice, pool,
                 server, user, history>>

(* /disconnect, or a /connect under the same id: out of the registry.  The *)
(* editor learns of the new connection and forgets the transaction.        *)
Unregister ==
  /\ "close" \in Fault
  /\ pool = "open"
  /\ pool' = "leaving"
  /\ shown' = FALSE
  /\ UNCHANGED <<pc, cancelled, locals, lock, slot, epoch, timers, notice,
                 server, said, history>>

(* Connection::close: waits for the mutex, closes the editor session ...   *)
CloseSession ==
  /\ pool = "leaving"
  /\ lock = Free
  /\ pool' = "closing"
  /\ lock' = Closer
  /\ slot' = NoSession /\ server' = Down /\ tainted' = FALSE
  /\ UNCHANGED <<pc, cancelled, locals, epoch, timers, notice, user, ran,
                 repeated, userEnded, unsaid, idleLoss, escaped>>

(* ... and then the pools.                                                 *)
ClosePools ==
  /\ pool = "closing"
  /\ lock # Closer
  /\ pool' = "closed"
  /\ UNCHANGED <<pc, cancelled, locals, lock, slot, epoch, timers, notice,
                 server, user, history>>

-----------------------------------------------------------------------------
(* What a run does by itself once it has arrived.                          *)
RunStep(r) ==
  \/ TurnAway(r) \/ TakeLock(r) \/ SwitchPool(r) \/ RefuseSwitch(r)
  \/ KeepContext(r) \/ ApplyContext(r) \/ IgnoreRefusedContext(r)
  \/ FailRefusedContext(r) \/ FindDead(r) \/ NoSessionYet(r)
  \/ OpenSession(r) \/ OpenFails(r)
  \/ BatchDone(r) \/ StopCancelled(r) \/ SkipWrite(r) \/ SendStmt(r)
  \/ StmtOk(r) \/ StmtError(r) \/ StmtCancelled(r) \/ StmtTimesOut(r)
  \/ ConnBreaks(r) \/ Respond(r)

Around ==
  \/ \E r \in Run : Arrive(r) \/ Cancel(r) \/ ClientGone(r)
  \/ ServerDrops \/ Unregister \/ CloseSession \/ ClosePools \/ CloserDone
  \/ \E e \in timers : IdleTimer(e)

Next == (\E r \in Run : RunStep(r)) \/ Around

Spec == Init /\ [][Next]_vars

(* The helper's tasks are scheduled, the server or the time limit answers, *)
(* and sleeping timers wake up; clients and faults owe nothing.            *)
Fairness ==
  /\ \A r \in Run : WF_vars(RunStep(r))
  /\ WF_vars(\E e \in timers : IdleTimer(e))
  /\ WF_vars(CloserDone) /\ WF_vars(CloseSession) /\ WF_vars(ClosePools)

FairSpec == Spec /\ Fairness

-----------------------------------------------------------------------------
(* Properties.                                                             *)

PcValues == {"idle", "queued", "switch", "apply", "open", "exec", "await",
             "settle"}

(* Every variable holds a value of its kind; a session in the slot is a    *)
(* Session and the mutex is held by nobody, a run or a closer.             *)
TypeOK ==
  /\ pc \in [Run -> PcValues] /\ cancelled \in SUBSET Run
  /\ ctx \in Path /\ batch \in Batch \cup {<<>>} /\ at \in Nat \ {0}
  /\ was \in BOOLEAN /\ again \in BOOLEAN /\ note \in {"none", "lost"}
  /\ lock \in Run \cup {Free, Closer}
  /\ slot \in Session \cup {NoSession}
  /\ epoch \in Nat /\ timers \in SUBSET Nat
  /\ notice \in {"none", "idle"}
  /\ pool \in {"open", "leaving", "closing", "closed"}
  /\ server \in Server
  /\ shown \in BOOLEAN /\ said \in {"none", "lost", "idle"}
  /\ ran \in SUBSET Nat /\ repeated \in SUBSET Form
  /\ userEnded \in BOOLEAN /\ unsaid \in BOOLEAN /\ idleLoss \in BOOLEAN
  /\ tainted \in BOOLEAN /\ escaped \in BOOLEAN

(* At most one run is past try_lock, so two runs never share the session's *)
(* connection, and neither the idle timer nor Connection::close takes it   *)
(* away under a run.                                                       *)
Inside(r) == pc[r] \notin {"idle", "queued"}
OneRunOnSession == \A r \in Run : Inside(r) => lock = r

(* A batch run again after its connection died never makes the server      *)
(* execute a second time a statement the helper classifies as a write,     *)
(* DDL or unknown.                                                         *)
NoWriteTwice == \A s \in repeated : Classify(s) = "Read"

(* What makes the properties inductive.  A run is past try_lock exactly    *)
(* while it holds the mutex.                                               *)
MutexInv ==
  /\ pc \in [Run -> PcValues]
  /\ \A r \in Run : Inside(r) <=> lock = r

(* The mutex holder works for a context and a batch of the request; while  *)
(* it executes there is a session, and it only waits for a statement of    *)
(* the batch.                                                              *)
HolderInv ==
  \A r \in Run :
    /\ Inside(r) => ctx \in Ctx /\ batch \in Batch
    /\ pc[r] \in {"exec", "await"} => slot # NoSession
    /\ pc[r] = "await" => at \in 1..Len(batch)

(* The locals are at rest unless a run holds the mutex, and only a second  *)
(* run whose first statement reads may reach a statement the server        *)
(* already executed.                                                       *)
LocalsAtRest == ran = {} /\ ~again /\ note = "none"

RunInv ==
  /\ at \in Nat \ {0} /\ ran \subseteq Nat \ {0}
  /\ lock \notin Run => LocalsAtRest
  /\ \A r \in Run :
       /\ pc[r] \in {"switch", "apply"} => LocalsAtRest
       /\ pc[r] = "open" =>
            \/ ran = {} /\ ~again
            \/ ran \subseteq {1} /\ again
       /\ pc[r] \in {"exec", "await"} =>
            \A k \in ran : k < at \/ (again /\ k = 1)
  /\ again => Classify(batch[1]) = "Read"

(* What the server executed on a read-only connection passed the gate.     *)
GateInv ==
  /\ AllowWrites \/ \A k \in ran : IsReadOnlySafe(batch[k])
  /\ \A r \in Run : pc[r] = "await" => ~Gated

(* On a read-only connection the server executes nothing that writes, also *)
(* when a batch stops, times out or is run again.                          *)
ReadOnlyNeverWrites == AllowWrites \/ \A k \in ran : ~WritesData(batch[k])

(* PostgreSQL has no autocommit switch.                                    *)
AutoInv == MySql \/ server.auto

(* When the helper thinks no transaction is open on its session, none is:  *)
(* nothing the user runs sits in a transaction nobody shows, unless a      *)
(* statement was abandoned half way.                                       *)
NoHiddenTxn ==
  slot # NoSession /\ ~slot.inTxn /\ ~tainted => server.txn = "none"

(* A transaction the idle timer rolled back is told by the next answer:    *)
(* no refused or failing run in between loses the notice.                  *)
IdleLossKept == idleLoss => notice = "idle"

Answered == epoch' # epoch

(* The toolbar loses a transaction without a word only when a run that had *)
(* noticed the loss failed before it could answer.                         *)
SilentLossHasCause ==
  [][Answered /\ pool = "open" /\ shown /\ ~shown' /\ ~userEnded
       => said' # "none" \/ unsaid]_vars

(* The context the helper remembers is the one the server resolves names   *)
(* in, unless a statement was abandoned half way.                          *)
AppliedIsServerContext ==
  slot # NoSession /\ slot.applied # NoCtx /\ server.up /\ ~tainted
    => server.path = slot.applied

(* A statement that writes is executed once per run, whatever its class.   *)
WrittenOnce == \A s \in repeated : ~WritesData(s)

(* A run that was admitted is answered: nothing waits for the session      *)
(* mutex, and every run that holds it gives it back.                       *)
RunsEnd == \A r \in Run : pc[r] = "queued" ~> pc[r] = "idle"

Busy == \E r \in Run : pc[r] # "idle"

(* A session nobody uses is closed in the end, so an open transaction on   *)
(* it does not hold its locks for ever, unless a run that failed or was    *)
(* dropped left it behind without a timer.                                 *)
SessionReapedOrEscaped == []<>(slot = NoSession \/ Busy \/ escaped)


-----------------------------------------------------------------------------
(* What a user of the session sees of it: who holds the mutex, the         *)
(* transaction the helper believes in, and what is still to be told.       *)
Lease == INSTANCE EditorLease WITH
  holder <- lock, txn <- InTxn, noted <- note = "lost",
  idle <- notice = "idle", registered <- pool = "open",
  said <- said, shown <- shown

(* Whatever fails, the session is a lease: only the run that holds it      *)
(* begins or ends a transaction, what the idle timer ends is told by an    *)
(* answer, and the toolbar shows the transaction there is at the answer.   *)
LeaseKept == Lease!Spec
=============================================================================
