------------------------------- MODULE Pools -------------------------------
(***************************************************************************)
(* The helper's connection registry, pools and in-flight requests          *)
(* (sidecar-src/src/state.rs, routes.rs, db.rs, and the parts of query.rs  *)
(* and session.rs that borrow, return and kill database connections).      *)
(*                                                                         *)
(* One connection id is followed through the Connections registered under  *)
(* it by /connect and removed by /disconnect.  A Connection owns a base    *)
(* pool, one pool per further database (PostgreSQL), and the editor's      *)
(* session.  Requests borrow a pooled connection, i.e. a server process,   *)
(* send it statements, give it back, and may be stopped by /cancel, by the *)
(* time limit, or by a client that goes away, which drops the handler's    *)
(* future where it stands.  A step is the code between two awaits.         *)
(***************************************************************************)
EXTENDS Statements, Naturals, Sequences, FiniteSets

CONSTANTS
  Req,        \* requests that run SQL
  Editor,     \* those of the editor (session: true)
  Batch,      \* [Req -> its statements]
  DbOf,       \* [Req -> the database it asks for]
  Db, Home,   \* databases; the one the base pool is attached to
  Cap,        \* max_pool
  MaxConn,    \* bound: Connections registered
  MaxPid,     \* bound: server processes started
  MaxStop,    \* bound: /cancel calls
  Fault,      \* what may happen to which requests, see FaultKinds
  MySql,      \* which engine; only PostgreSQL has further databases
  None

Conn == 1..MaxConn
Pid  == 1..MaxPid

FaultKinds == {"cancel",     \* the user stops a run
               "slow",       \* a statement exceeds its time limit
               "clientGone", \* the HTTP client goes away
               "noServer"}   \* the database cannot be reached

ASSUME RequestAssumption ==
  /\ Editor \subseteq Req
  /\ \A r \in Req : Batch[r] \in Seq(Form) /\ DbOf[r] \in Db
  /\ \A r, q \in Editor : DbOf[r] = DbOf[q]
ASSUME NumberAssumption ==
  Cap \in Nat \ {0} /\ MaxConn \in Nat /\ MaxPid \in Nat
  /\ MaxStop \in Nat
ASSUME NoneAssumption == None \notin Nat /\ None \notin Req
ASSUME EngineAssumption ==
  MySql \in BOOLEAN /\ Home \in Db /\ (MySql => Db = {Home})
ASSUME FaultAssumption == Fault \subseteq FaultKinds \X Req

VARIABLES
  registered, \* `connections`: the Connection under the id, or None
  life,       \* [Conn -> where its life is], see Life
  toClose,    \* [Conn -> pools its close() has still to close]
  extra,      \* [Conn -> [Db -> pool in extra_pools, or None]]
  shut,       \* pools that are closed
  editor,     \* [Conn -> process of the editor's session, or None]
  armed,      \* Connections with an idle timer for the last editor answer
  procs,      \* [Pid -> server process, with what the pool knows of it]
  reqs,       \* [Req -> the handler's place and locals]
  entries,    \* [Req -> its InFlightEntry]
  stops       \* [Req -> the /cancel call that names it]

conns == <<registered, life, toClose, extra, shut>>
vars  == <<conns, editor, armed, procs, reqs, entries, stops>>

(* "session": close() waits for the editor's mutex; "closing": it closes   *)
(* its session; "pools": one pool after the other; "closed": close() has   *)
(* returned; "dropped": the last reference is gone.                        *)
Life ==
  {"unborn", "open", "session", "closing", "pools", "closed", "dropped"}

(* A pool is named by its Connection, its database and who built it.       *)
PoolId == [conn : Conn, db : Db, by : Req \cup {None}]
Base(c) == [conn |-> c, db |-> Home, by |-> None]
ASSUME PoolAssumption == None \notin PoolId

(* A process is held, on its way back (the pool pings it), idle or gone.   *)
(* `drop`: close_on_drop; `txn`, `moved`: a transaction or a SET of the    *)
(* user's is on it; `tainted`: from a statement nobody waited for; `work`: *)
(* statements sent, the first one running.                                 *)
NoProc == [pool |-> None, st |-> "unborn", drop |-> FALSE, txn |-> FALSE,
           moved |-> FALSE, tainted |-> FALSE, work |-> <<>>]

(* A handler's locals; the entry of a request that is not in the map.      *)
NoReq(pc) == [pc |-> pc, conn |-> None, pool |-> None, pid |-> None,
              at |-> 1]
NoEntry == [on |-> FALSE, fired |-> FALSE, pid |-> None]

Pc == {"new", "find", "build", "lock", "acquire", "await", "kill",
       "ended", "done", "gone"}
Active(r) == reqs[r].pc \notin {"new", "done", "gone"}
(* Past the editor's try_lock.                                             *)
Inside(r) == r \in Editor /\ reqs[r].pc \in {"acquire", "await", "kill"}

Init ==
  /\ registered = None
  /\ life = [c \in Conn |-> "unborn"] /\ toClose = [c \in Conn |-> {}]
  /\ extra = [c \in Conn |-> [d \in Db |-> None]]
  /\ shut = {} /\ editor = [c \in Conn |-> None] /\ armed = {}
  /\ procs = [p \in Pid |-> NoProc]
  /\ reqs = [r \in Req |-> NoReq("new")]
  /\ entries = [r \in Req |-> NoEntry]
  /\ stops = [r \in Req |-> [pc |-> "none", pid |-> None, conn |-> None]]

-----------------------------------------------------------------------------
(* Pools (sqlx, as the helper uses it).                                    *)

ProcsOf(P, sts) == {p \in Pid : procs[p].st \in sts /\ procs[p].pool = P}
Room(P) == P \notin shut /\ Cardinality(ProcsOf(P, {"held", "back"})) < Cap
Unborn == {p \in Pid : procs[p].st = "unborn"}

(* acquire(): an idle connection, or a new one if none is idle.            *)
Lends(P, p) ==
  IF ProcsOf(P, {"idle"}) # {} THEN p \in ProcsOf(P, {"idle"})
  ELSE p \in Unborn /\ \A q \in Unborn : p <= q

(* The connection is closed: its process ends, with all that was on it.    *)
Closed(v) == [NoProc EXCEPT !.st = "gone"]

(* A PooledConnection is dropped: closed if it was marked, or else sent    *)
(* back to the pool.                                                       *)
Returned(v) == IF v.drop THEN Closed(v) ELSE [v EXCEPT !.st = "back"]

(* The pool pings what comes back, which waits for what it still runs; a   *)
(* closed pool closes it.                                                  *)
PingReturned(p) ==
  /\ procs[p].st = "back" /\ procs[p].work = <<>>
  /\ procs' = [procs EXCEPT ![p] = IF @.pool \in shut THEN Closed(@)
                                   ELSE [@ EXCEPT !.st = "idle"]]
  /\ UNCHANGED <<conns, editor, armed, reqs, entries, stops>>

-----------------------------------------------------------------------------
(* /connect and /disconnect.                                               *)

Retire(l) ==
  IF registered = None THEN l ELSE [l EXCEPT ![registered] = "session"]

(* The Connection registered before is closed by a task of its own.        *)
Connect ==
  /\ \E c \in Conn :
       /\ life[c] = "unborn" /\ \A b \in Conn : b < c => life[b] # "unborn"
       /\ registered' = c
       /\ life' = [Retire(life) EXCEPT ![c] = "open"]
  /\ UNCHANGED <<toClose, extra, shut, editor, armed, procs, reqs, entries,
                 stops>>

Disconnect ==
  /\ registered # None
  /\ registered' = None
  /\ life' = Retire(life)
  /\ UNCHANGED <<toClose, extra, shut, editor, armed, procs, reqs, entries,
                 stops>>

(* Every pool this Connection owns now.                                    *)
AllBackends(c) == {Base(c)} \cup ({extra[c][d] : d \in Db} \ {None})

EditorFree(c) == \A r \in Req : Inside(r) => reqs[r].conn # c

(* close() lists its pools once the editor's session is closed.            *)
ListPools(c) ==
  /\ life' = [life EXCEPT ![c] = "pools"]
  /\ toClose' = [toClose EXCEPT ![c] = AllBackends(c)]

(* Variant: the editor's session is left to its pool.                      *)
CloseKeepsSession(c) ==
  /\ life[c] = "session" /\ EditorFree(c)
  /\ ListPools(c)
  /\ UNCHANGED <<registered, extra, shut, editor, armed, procs, reqs, entries,
                 stops>>

(* close(): waits for the editor's mutex and takes its session ...         *)
CloseSession(c) ==
  /\ life[c] = "session" /\ EditorFree(c)
  /\ IF editor[c] = None THEN ListPools(c)
     ELSE life' = [life EXCEPT ![c] = "closing"] /\ UNCHANGED toClose
  /\ UNCHANGED <<registered, extra, shut, editor, armed, procs, reqs, entries,
                 stops>>

(* ... and holds the mutex until the server has let it go.                 *)
SessionClosed(c) ==
  /\ life[c] = "closing"
  /\ procs' = [procs EXCEPT ![editor[c]] = Closed(@)]
  /\ editor' = [editor EXCEPT ![c] = None]
  /\ ListPools(c)
  /\ UNCHANGED <<registered, extra, shut, armed, reqs, entries, stops>>

(* close_backend: one pool at a time, the base pool first.  Its idle       *)
(* connections end ...                                                     *)
ClosePool(c, P) ==
  /\ life[c] = "pools"
  /\ P \in toClose[c] \ shut
  /\ toClose[c] \cap shut = {}
  /\ Base(c) \in toClose[c] => P = Base(c)
  /\ shut' = shut \cup {P}
  /\ procs' = [p \in Pid |-> IF p \in ProcsOf(P, {"idle"})
                             THEN Closed(procs[p]) ELSE procs[p]]
  /\ UNCHANGED <<registered, life, toClose, extra, editor, armed, reqs,
                 entries, stops>>

(* ... and it waits until the others have come back.                       *)
PoolDrained(c, P) ==
  /\ P \in toClose[c] \cap shut
  /\ ProcsOf(P, {"held", "back"}) = {}
  /\ toClose' = [toClose EXCEPT ![c] = @ \ {P}]
  /\ life' = IF toClose[c] = {P} THEN [life EXCEPT ![c] = "closed"] ELSE life
  /\ UNCHANGED <<registered, extra, shut, editor, armed, procs, reqs, entries,
                 stops>>

(* The last Arc goes: a pool opened too late for close(), and what is on   *)
(* it, goes with it.                                                       *)
DropConnection(c) ==
  /\ life[c] = "closed"
  /\ \A r \in Req : /\ Active(r) => reqs[r].conn # c
                    /\ stops[r].pc = "kill" => stops[r].conn # c
  /\ life' = [life EXCEPT ![c] = "dropped"]
  /\ shut' = shut \cup AllBackends(c)
  /\ editor' = [editor EXCEPT ![c] = None]
  /\ procs' = [p \in Pid |-> IF procs[p].pool # None /\ procs[p].pool.conn = c
                             THEN Closed(procs[p]) ELSE procs[p]]
  /\ UNCHANGED <<registered, toClose, extra, armed, reqs, entries, stops>>

-----------------------------------------------------------------------------
(* A request: find the Connection and its pool, borrow, run, give back.    *)

Goto(r, pc) == reqs' = [reqs EXCEPT ![r].pc = pc]

(* require_connection; a run is entered in `in_flight`.                    *)
Arrive(r) ==
  /\ reqs[r].pc = "new"
  /\ registered # None
  /\ reqs' = [reqs EXCEPT ![r].pc = "find", ![r].conn = registered]
  /\ entries' = [entries EXCEPT ![r].on = TRUE]
  /\ UNCHANGED <<conns, editor, armed, procs, stops>>

Next1(r) == IF r \in Editor THEN "lock" ELSE "acquire"

(* backend_for: the base pool, the cached one, or none yet.                *)
FindPool(r) ==
  LET c == reqs[r].conn
      P == IF DbOf[r] = Home THEN Base(c) ELSE extra[c][DbOf[r]]
  IN /\ reqs[r].pc = "find"
     /\ reqs' = [reqs EXCEPT ![r].pc = IF P = None THEN "build" ELSE Next1(r),
                             ![r].pool = P]
     /\ UNCHANGED <<conns, editor, armed, procs, entries, stops>>

Built(r) == [conn |-> reqs[r].conn, db |-> DbOf[r], by |-> r]

(* Variant: the pool built last is published.                              *)
PublishLast(r) ==
  LET c == reqs[r].conn
      d == DbOf[r]
  IN /\ reqs[r].pc = "build"
     /\ extra' = [extra EXCEPT ![c][d] = Built(r)]
     /\ reqs' = [reqs EXCEPT ![r].pc = Next1(r), ![r].pool = Built(r)]
     /\ UNCHANGED <<registered, life, toClose, shut, editor, armed, procs,
                    entries, stops>>

(* Variant: the loser of the race closes the winner's pool.                *)
PublishClosesWinner(r) ==
  LET c == reqs[r].conn
      d == DbOf[r]
      won == extra[c][d] = None
  IN /\ reqs[r].pc = "build"
     /\ extra' = [extra EXCEPT ![c][d] = Built(r)]
     /\ shut' = IF won THEN shut ELSE shut \cup {extra[c][d]}
     /\ reqs' = [reqs EXCEPT ![r].pc = Next1(r), ![r].pool = Built(r)]
     /\ UNCHANGED <<registered, life, toClose, editor, armed, procs, entries,
                    stops>>

(* ... which is published unless another request was faster: then its pool *)
(* is used and ours closed.                                                *)
Publish(r) ==
  LET c == reqs[r].conn
      d == DbOf[r]
      won == extra[c][d] = None
      P == IF won THEN Built(r) ELSE extra[c][d]
  IN /\ reqs[r].pc = "build"
     /\ extra' = [extra EXCEPT ![c][d] = P]
     /\ shut' = IF won THEN shut ELSE shut \cup {Built(r)}
     /\ reqs' = [reqs EXCEPT ![r].pc = Next1(r), ![r].pool = P]
     /\ UNCHANGED <<registered, life, toClose, editor, armed, procs, entries,
                    stops>>

(* An error before there is a session: the answer follows.                 *)
Fail(r) ==
  /\ Goto(r, "ended")
  /\ UNCHANGED <<conns, editor, armed, procs, entries, stops>>

BuildFails(r) ==
  /\ reqs[r].pc = "build"
  /\ <<"noServer", r>> \in Fault
  /\ Fail(r)

(* Variant: a run does not keep the mutex while it awaits.                 *)
OccupiedByClose(c) == life[c] = "closing"

(* The editor's mutex is held, by a run or by close().                     *)
Occupied(c) == life[c] = "closing" \/ ~EditorFree(c)

(* execute_batch at its statement k: sent, unless the batch is over or the *)
(* token fired; then the session is dropped, which closes a one-off one or *)
(* gives it back, and arms the idle timer of the editor's.                 *)
GoesOn(r, k) == k <= Len(Batch[r]) /\ ~entries[r].fired
Left(r, v) == IF r \in Editor THEN v ELSE Returned(v)
Sent(r, k, v) ==
  IF GoesOn(r, k) THEN [v EXCEPT !.work = Append(@, <<r, k>>)] ELSE Left(r, v)
Handler(r, k, q) ==
  IF GoesOn(r, k) THEN [q EXCEPT !.pc = "await", !.at = k]
  ELSE [q EXCEPT !.pc = "ended", !.pid = None]
Timers(r, k) ==
  IF r \in Editor /\ ~GoesOn(r, k) THEN armed \cup {reqs[r].conn} ELSE armed

(* The editor's try_lock; the session it kept is used, its pid given to    *)
(* /cancel.                                                                *)
TryLock(r) ==
  LET c == reqs[r].conn
      p == editor[c]
      q == [reqs[r] EXCEPT !.pid = p]
  IN /\ reqs[r].pc = "lock"
     /\ ~Occupied(c)
     /\ IF p = None
        THEN Goto(r, "acquire") /\ UNCHANGED <<procs, entries, armed>>
        ELSE /\ reqs' = [reqs EXCEPT ![r] = Handler(r, 1, q)]
             /\ procs' = [procs EXCEPT ![p] = Sent(r, 1, @)]
             /\ entries' = [entries EXCEPT ![r].pid = p]
             /\ armed' = Timers(r, 1)
     /\ UNCHANGED <<conns, editor, stops>>

Refuse(r) ==
  /\ reqs[r].pc = "lock"
  /\ Occupied(reqs[r].conn)
  /\ Fail(r)

(* Session::open and with_pid; the editor's session stays in its slot, to  *)
(* be closed when it is dropped.  /cancel may read the pid from now on.    *)
Borrow(r) ==
  /\ reqs[r].pc = "acquire"
  /\ Room(reqs[r].pool)
  /\ \E p \in Pid :
       /\ Lends(reqs[r].pool, p)
       /\ LET v == IF procs[p].st = "idle" THEN [procs[p] EXCEPT !.st = "held"]
                   ELSE [NoProc EXCEPT !.pool = reqs[r].pool, !.st = "held"]
          IN procs' = [procs EXCEPT ![p] = Sent(r, 1, v)]
       /\ reqs' = [reqs EXCEPT ![r] = Handler(r, 1, [@ EXCEPT !.pid = p])]
       /\ entries' = [entries EXCEPT ![r].pid = p]
       /\ editor' = IF r \in Editor THEN [editor EXCEPT ![reqs[r].conn] = p]
                    ELSE editor
  /\ armed' = Timers(r, 1)
  /\ UNCHANGED <<conns, stops>>

(* The pool is closed, or has none to lend for 15 seconds.                 *)
AcquireFails(r) ==
  /\ reqs[r].pc = "acquire"
  /\ \/ ~Room(reqs[r].pool)
     \/ <<"noServer", r>> \in Fault
     \/ ~\E p \in Pid : Lends(reqs[r].pool, p)
  /\ Fail(r)

(* The token fires while a statement is awaited: the batch ends there.     *)
StmtCancelled(r) ==
  /\ reqs[r].pc = "await"
  /\ entries[r].fired
  /\ procs' = [procs EXCEPT ![reqs[r].pid] = Left(r, @)]
  /\ reqs' = [reqs EXCEPT ![r].pc = "ended", ![r].pid = None]
  /\ armed' = IF r \in Editor THEN armed \cup {reqs[r].conn} ELSE armed
  /\ UNCHANGED <<conns, editor, entries, stops>>

(* Variant: an error returns before the entry is removed.                  *)
AnswerKeepsEntry(r) ==
  /\ reqs[r].pc = "ended"
  /\ reqs' = [reqs EXCEPT ![r] = NoReq("done")]
  /\ entries' = IF entries[r].pid # None
                THEN [entries EXCEPT ![r] = NoEntry] ELSE entries
  /\ UNCHANGED <<conns, editor, armed, procs, stops>>

(* The answer, with or without an error: the entry is removed.             *)
Answer(r) ==
  /\ reqs[r].pc = "ended"
  /\ reqs' = [reqs EXCEPT ![r] = NoReq("done")]
  /\ entries' = [entries EXCEPT ![r] = NoEntry]
  /\ UNCHANGED <<conns, editor, armed, procs, stops>>

(* The handler's future is dropped: what it held goes back, its entry      *)
(* stays.                                                                  *)
ClientGone(r) ==
  /\ <<"clientGone", r>> \in Fault
  /\ Active(r)
  /\ procs' = IF reqs[r].pid = None THEN procs
              ELSE [procs EXCEPT ![reqs[r].pid] = Left(r, @)]
  /\ reqs' = [reqs EXCEPT ![r] = NoReq("gone")]
  /\ UNCHANGED <<conns, editor, armed, entries, stops>>

-----------------------------------------------------------------------------
(* The server.                                                             *)

(* The handler sees the end of its statement, unless its token has fired:  *)
(* the select is biased.                                                   *)
Awaits(r, k) ==
  reqs[r].pc = "await" /\ reqs[r].at = k /\ ~entries[r].fired

(* What a statement leaves on the process; MySQL ends a transaction before *)
(* DDL.                                                                    *)
Executed(v, s) ==
  [v EXCEPT !.txn = CASE TxnEffect(s, MySql) = "Begin" -> TRUE
                      [] TxnEffect(s, MySql) = "End"   -> FALSE
                      [] OTHER                         -> v.txn,
            !.moved = v.moved \/ ChangesSessionContext(s)]

(* Session::observe: a connection that may carry a transaction or a SET is *)
(* marked close_on_drop.                                                   *)
Observe(v, s) ==
  [v EXCEPT !.drop = \/ v.drop
                     \/ TxnEffect(s, MySql) = "Begin"
                     \/ ChangesSessionContext(s)]

(* The running statement ends; if its handler no longer waits, nobody      *)
(* observes what it did.                                                   *)
ServerDoes(p) ==
  /\ procs[p].work # <<>>
  /\ LET r == Head(procs[p].work)[1]
         k == Head(procs[p].work)[2]
         s == Batch[r][k]
         v == [Executed(procs[p], s) EXCEPT !.work = Tail(@)]
     IN IF Awaits(r, k)
        THEN /\ procs' = [procs EXCEPT ![p] = Sent(r, k + 1, Observe(v, s))]
             /\ reqs' = [reqs EXCEPT ![r] = Handler(r, k + 1, @)]
             /\ armed' = Timers(r, k + 1)
        ELSE /\ procs' = [procs EXCEPT ![p] =
                  [v EXCEPT !.tainted = @ \/ TxnEffect(s, MySql) # "None"
                                          \/ ChangesSessionContext(s)]]
             /\ UNCHANGED <<reqs, armed>>
  /\ UNCHANGED <<conns, editor, entries, stops>>

(* KILL QUERY / pg_cancel_backend: whatever the process runs by now fails, *)
(* and its handler, if it still waits, goes on.                            *)
Kill(p) ==
  IF procs[p].work = <<>> THEN UNCHANGED <<procs, reqs, armed>>
  ELSE LET r == Head(procs[p].work)[1]
           k == Head(procs[p].work)[2]
           v == [procs[p] EXCEPT !.work = Tail(@)]
       IN IF Awaits(r, k)
          THEN /\ procs' = [procs EXCEPT ![p] = Sent(r, k + 1, v)]
               /\ reqs' = [reqs EXCEPT ![r] = Handler(r, k + 1, @)]
               /\ armed' = Timers(r, k + 1)
          ELSE /\ procs' = [procs EXCEPT ![p] = v]
               /\ UNCHANGED <<reqs, armed>>

-----------------------------------------------------------------------------
(* The time limit: the helper kills its own statement from a second        *)
(* connection of the same pool, and goes on with the batch.                *)

TimeLimit(r) ==
  /\ <<"slow", r>> \in Fault
  /\ reqs[r].pc = "await" /\ ~entries[r].fired
  /\ Goto(r, "kill")
  /\ UNCHANGED <<conns, editor, armed, procs, entries, stops>>

(* The batch goes on after the kill, which found process state v.          *)
AfterKill(r, v) ==
  LET k == reqs[r].at + 1 IN
  /\ procs' = [procs EXCEPT ![reqs[r].pid] = Sent(r, k, v)]
  /\ reqs' = [reqs EXCEPT ![r] = Handler(r, k, @)]
  /\ armed' = Timers(r, k)
  /\ UNCHANGED <<conns, editor, entries, stops>>

KillOwn(r) ==
  LET v == procs[reqs[r].pid] IN
  /\ reqs[r].pc = "kill"
  /\ Room(reqs[r].pool)
  /\ AfterKill(r, IF v.work = <<>> THEN v ELSE [v EXCEPT !.work = Tail(@)])

(* Variant: it waits for a second connection as long as it takes.          *)
KillOwnWaits(r) == FALSE /\ UNCHANGED vars

(* No second connection in 15 seconds, or the pool is closed: logged.      *)
KillOwnFails(r) ==
  /\ reqs[r].pc = "kill"
  /\ ~Room(reqs[r].pool) \/ <<"noServer", r>> \in Fault
  /\ AfterKill(r, procs[reqs[r].pid])

-----------------------------------------------------------------------------
(* The editor's idle timer: only the one of the last answer acts, and only *)
(* if no run holds the mutex.                                              *)
IdleClose(c) ==
  /\ c \in armed
  /\ armed' = armed \ {c}
  /\ IF Occupied(c) \/ editor[c] = None
     THEN UNCHANGED <<editor, procs>>
     ELSE /\ procs' = [procs EXCEPT ![editor[c]] = Closed(@)]
          /\ editor' = [editor EXCEPT ![c] = None]
  /\ UNCHANGED <<conns, reqs, entries, stops>>

-----------------------------------------------------------------------------
(* /cancel for request r: the token fires, and the pid is read, under the  *)
(* lock of the map ...                                                     *)
Stop(r) ==
  /\ <<"cancel", r>> \in Fault
  /\ stops[r].pc = "none"
  /\ Cardinality({q \in Req : stops[q].pc # "none"}) < MaxStop
  /\ entries[r].on
  /\ entries' = [entries EXCEPT ![r].fired = TRUE]
  /\ stops' = [stops EXCEPT ![r].pc = IF entries[r].pid = None THEN "done"
                                      ELSE "found",
                            ![r].pid = entries[r].pid]
  /\ UNCHANGED <<conns, editor, armed, procs, reqs>>

(* Variant: the Connection is taken to be there.                           *)
StopFindsAny(r) ==
  /\ stops[r].pc = "found"
  /\ stops' = [stops EXCEPT ![r].pc = "kill", ![r].conn = registered]
  /\ UNCHANGED <<conns, editor, armed, procs, reqs, entries>>

(* ... then the Connection is looked up under its id ...                   *)
StopFinds(r) ==
  /\ stops[r].pc = "found"
  /\ stops' = [stops EXCEPT ![r].pc = IF registered = None THEN "done"
                                      ELSE "kill",
                            ![r].conn = registered]
  /\ UNCHANGED <<conns, editor, armed, procs, reqs, entries>>

StopEnds(r) ==
  stops' = [stops EXCEPT ![r].pc = "done", ![r].conn = None, ![r].pid = None]

(* ... and the kill sent from its base pool: it hits what the process runs *)
(* by now.                                                                 *)
StopKills(r) ==
  /\ stops[r].pc = "kill"
  /\ Room(Base(stops[r].conn))
  /\ StopEnds(r)
  /\ Kill(stops[r].pid)
  /\ UNCHANGED <<conns, editor, entries>>

(* The base pool is closed, has no connection for 15 seconds, or cannot    *)
(* reach the server: the error is logged, and the answer is the same.      *)
StopMisses(r) ==
  /\ stops[r].pc = "kill"
  /\ ~Room(Base(stops[r].conn)) \/ <<"noServer", r>> \in Fault
  /\ StopEnds(r)
  /\ UNCHANGED <<conns, editor, armed, procs, reqs, entries>>

-----------------------------------------------------------------------------
ReqStep(r) ==
  \/ FindPool(r) \/ Publish(r) \/ BuildFails(r) \/ TryLock(r) \/ Refuse(r)
  \/ Borrow(r) \/ AcquireFails(r) \/ StmtCancelled(r) \/ Answer(r)
  \/ TimeLimit(r) \/ KillOwn(r) \/ KillOwnFails(r)

CloseStep(c) ==
  \/ CloseSession(c) \/ SessionClosed(c)
  \/ \E P \in toClose[c] : ClosePool(c, P) \/ PoolDrained(c, P)

Next ==
  \/ Connect \/ Disconnect
  \/ \E c \in Conn : CloseStep(c) \/ DropConnection(c) \/ IdleClose(c)
  \/ \E r \in Req : Arrive(r) \/ ReqStep(r) \/ ClientGone(r)
  \/ \E r \in Req : Stop(r) \/ StopFinds(r) \/ StopKills(r) \/ StopMisses(r)
  \/ \E p \in Pid : ServerDoes(p) \/ PingReturned(p)

Spec == Init /\ [][Next]_vars

(* Tasks are scheduled, timers wake, and what the server runs ends.        *)
Fairness ==
  /\ \A r \in Req : WF_vars(ReqStep(r))
  /\ \A c \in Conn : WF_vars(CloseStep(c)) /\ WF_vars(IdleClose(c))
  /\ \A p \in Pid : WF_vars(ServerDoes(p)) /\ WF_vars(PingReturned(p))

FairSpec == Spec /\ Fairness

-----------------------------------------------------------------------------
(* Properties.                                                             *)

ProcRec == [pool : PoolId \cup {None},
            st : {"unborn", "held", "back", "idle", "gone"}, drop : BOOLEAN,
            txn : BOOLEAN, moved : BOOLEAN, tainted : BOOLEAN,
            work : Seq(Req \X (Nat \ {0}))]

ReqRec == [pc : Pc, conn : Conn \cup {None}, pool : PoolId \cup {None},
           pid : Pid \cup {None}, at : Nat \ {0}]

Holds(r) == reqs[r].pc \in {"await", "kill"}
HasPool(r) == reqs[r].pc \in {"lock", "acquire", "await", "kill"}

(* Every variable holds a value of its kind; a request past backend_for    *)
(* has a pool, one that executes a process, and a /cancel call that goes   *)
(* to the server knows the process and the Connection.                     *)
TypeOK ==
  /\ registered \in Conn \cup {None}
  /\ life \in [Conn -> Life]
  /\ toClose \in [Conn -> SUBSET PoolId]
  /\ extra \in [Conn -> [Db -> PoolId \cup {None}]]
  /\ shut \in SUBSET PoolId
  /\ editor \in [Conn -> Pid \cup {None}] /\ armed \in SUBSET Conn
  /\ procs \in [Pid -> ProcRec]
  /\ reqs \in [Req -> ReqRec]
  /\ entries \in [Req -> [on : BOOLEAN, fired : BOOLEAN,
                          pid : Pid \cup {None}]]
  /\ stops \in [Req -> [pc : {"none", "found", "kill", "done"},
                        pid : Pid \cup {None}, conn : Conn \cup {None}]]
  /\ \A r \in Req :
       /\ Active(r) => reqs[r].conn # None
       /\ HasPool(r) => reqs[r].pool # None
       /\ Holds(r) => reqs[r].pid # None
       /\ stops[r].pc \in {"found", "kill"} => stops[r].pid # None
       /\ stops[r].pc = "kill" => stops[r].conn # None

(* The pool lends nothing that is closed or still on its way back, and a   *)
(* process serves one request at a time.  A run of its own shares it with  *)
(* no statement of another, which the kill of its time limit would hit     *)
(* instead.                                                                *)
OneHolder ==
  \A r \in Req : Holds(r) =>
    /\ procs[reqs[r].pid].st = "held"
    /\ \A q \in Req : Holds(q) /\ reqs[q].pid = reqs[r].pid => q = r
    /\ r \notin Editor => \A i \in DOMAIN procs[reqs[r].pid].work :
                            procs[reqs[r].pid].work[i][1] = r

(* What is lent is lent alone, and what the pool lends next carries no     *)
(* transaction and no SET of another batch, unless a statement was         *)
(* abandoned half way on it.                                               *)
LentAloneAndClean ==
  /\ OneHolder
  /\ \A p \in Pid : procs[p].st = "idle" /\ ~procs[p].tainted
                    => ~procs[p].txn /\ ~procs[p].moved

(* Requests about one database of one Connection share one pool, also when *)
(* two of them built one at the same time.                                 *)
SamePool ==
  \A r, q \in Req :
    /\ HasPool(r) /\ HasPool(q)
    /\ reqs[r].conn = reqs[q].conn /\ DbOf[r] = DbOf[q]
    => reqs[r].pool = reqs[q].pool

(* Nobody closes the pool of a request unless its Connection is closed.    *)
PoolStaysOpen ==
  \A r \in Req : HasPool(r) /\ reqs[r].pool \in shut
                 => life[reqs[r].conn] \in {"pools", "closed"}

(* An in-flight entry ends with its request, however that ends, unless the *)
(* client went away.                                                       *)
EntriesEnd == \A r \in Req : entries[r].on => reqs[r].pc # "done"

(* A session that a client left behind without a timer keeps a pool open.  *)
LeftBehind(c) == editor[c] # None /\ c \notin armed /\ ~Occupied(c)

(* A request is answered, also when every connection is in use and the     *)
(* time limit needs one more; and a Connection that was replaced or        *)
(* removed is closed in the end, whatever still ran on it.                 *)
RequestsAnswered ==
  /\ \A r \in Req : reqs[r].pc = "find" ~> reqs[r].pc \in {"done", "gone"}
  /\ \A c \in Conn :
       life[c] = "session" ~> (life[c] \in {"closed", "dropped"} \/ LeftBehind(c))
=============================================================================
