----------------------------- MODULE Workbench -----------------------------
(***************************************************************************)
(* One window of the extension: connections that are selected, saved,      *)
(* tested and deleted (connections/lifecycle.js, dialog.js), the SSH       *)
(* forwards they use (tunnel.js), the schema tree (tree/*.js), the query   *)
(* editor's Run, Commit and Rollback (query/run.js), and the AI tools      *)
(* (ai.js), over the helper's registry.                                    *)
(*                                                                         *)
(* Every handler is a task.  The window has one thread: a step of a task   *)
(* is the code between two awaits, or what the helper or the host does     *)
(* while the task waits, and steps of several tasks interleave.            *)
(***************************************************************************)
EXTENDS Naturals, FiniteSets

CONSTANTS
  Conn,      \* connection ids
  Target,    \* what an SSH forward leads to: an SSH host, a server, a port
  Task,      \* handlers that may be under way at one time
  Saved, TargetOf, \* the stored connections and their forwards
  MaxAttempts, \* MAX_CONNECT_ATTEMPTS
  MaxStart,  \* bound: handlers started
  MaxEvents, \* bound: tables created or dropped, helpers that die,
             \* transactions that end unasked
  None

ASSUME WorkbenchAssumption ==
  /\ Saved \subseteq Conn /\ TargetOf \in [Conn -> Target \cup {None}]
  /\ MaxAttempts \in Nat \ {0}
  /\ MaxStart \in Nat /\ MaxEvents \in Nat
  /\ None \notin Conn \cup Target \cup Task \cup Nat

VARIABLES
  saved,     \* state.connections: the ids
  target,    \* [Conn -> the forward its record asks for, or None]
  active,    \* state.active
  status,    \* connStatus; "none" is no entry
  session,   \* state.sessions; None is no entry
  expanded, loading, \* treeExpanded, treeLoadingNodes
  children,  \* treeChildren: the version of the catalog, or None
  task,      \* [Task -> a handler's place and locals]
  starts,    \* handlers started so far
  forwards,  \* the host's open SSH forwards
  open,      \* the helper's registry: [Conn -> what it goes through]
  txn,       \* [Conn -> the helper has a transaction open in its editor]
  busy,      \* [Conn -> the run that holds its editor session, or None]
  cat,       \* [Conn -> version of the databases and tables there are]
  losses,    \* helpers that died, transactions that ended unasked so far
  due,       \* history: [node -> version when it was last refreshed]
  late,      \* history: nodes refreshed while a load of them was under way
  blurred,   \* history: connections whose answers overlapped
  lost,      \* history: connections whose transaction ended unasked
  doubled,   \* history: connections with a run started beside another
  raced,     \* history: connections somebody used when they were not saved,
             \* or not so, or while they were deleted
  left       \* history: forwards of records before an edit

tree   == <<expanded, loading, children>>
conns  == <<saved, target, active>>
helper == <<open, txn, busy, cat, losses>>
marks  == <<due, late, blurred, lost, doubled>>
races  == <<raced, left>>
hist   == <<marks, races>>
vars   == <<conns, status, session, tree, task, starts, forwards, helper, hist>>

Node == Conn \X {"conn", "db"}
Closed == "closed"
Idle == [kind |-> "none", pc |-> "idle", conn |-> None, node |-> None,
         via |-> None, try |-> 0, again |-> FALSE, sess |-> FALSE,
         got |-> None]
NewSession == [bar |-> FALSE, request |-> None]
Session == [bar : BOOLEAN, request : Task \cup {None}]
ASSUME SessionAssumption == None \notin Session

Init ==
  /\ saved = Saved /\ target = TargetOf
  /\ active \in saved \cup {None} /\ status = [c \in Conn |-> "none"]
  /\ session = [c \in Conn |-> None]
  /\ expanded = {} /\ loading = {} /\ children = [n \in Node |-> None]
  /\ task = [t \in Task |-> Idle] /\ starts = 0
  /\ forwards = {} /\ open = [c \in Conn |-> Closed]
  /\ txn = [c \in Conn |-> FALSE] /\ busy = [c \in Conn |-> None]
  /\ cat = [c \in Conn |-> 0] /\ losses = 0
  /\ due = [n \in Node |-> 0] /\ late = {} /\ blurred = {} /\ lost = {}
  /\ doubled = {} /\ raced = {} /\ left = {}

-----------------------------------------------------------------------------
(* Handlers.                                                               *)

Goto(t, pc) == task' = [task EXCEPT ![t].pc = pc]
Finish(t) == task' = [task EXCEPT ![t] = Idle]
Live(c) == {t \in Task : task[t].pc # "idle" /\ task[t].conn = c}
Loads(n) == {t \in Task : task[t].kind = "load" /\ task[t].node = n}
Runs(c) == {t \in Task : task[t].kind = "run" /\ task[t].conn = c}

(* The bounds.                                                             *)
MayHappen(c) == losses + cat[c] < MaxEvents
Room(n) == starts + n <= MaxStart /\ starts' = starts + n

(* A handler starts on a task of its own.  It may leave something behind   *)
(* that nobody cleans up: it works on a connection that is not saved, or   *)
(* not so, or is deleted meanwhile.  An edit leaves the forward it had.    *)
Begin(k, c) == [Idle EXCEPT !.kind = k, !.pc = "boot", !.conn = c]
Strays(v) ==
  \/ v.conn \notin saved /\ v.kind # "save"
  \/ v.kind = "test" /\ v.via # target[v.conn]
  \/ v.kind = "delete" /\ Live(v.conn) # {}
  \/ v.kind = "save" /\ \E t \in Live(v.conn) : task[t].kind = "delete"
Leaves(v) ==
  IF v.kind = "save" /\ v.conn \in saved /\ v.via # target[v.conn]
  THEN {target[v.conn]} ELSE {}
Starts(t, v) ==
  /\ task[t] = Idle /\ Room(1) /\ task' = [task EXCEPT ![t] = v]
  /\ raced' = IF Strays(v) THEN raced \cup {v.conn} ELSE raced
  /\ left' = left \cup Leaves(v)

EnsureSession(c) ==
  IF session[c] = None THEN [session EXCEPT ![c] = NewSession] ELSE session

(* A handler gives up: a load collapses its node, a run shows the error.   *)
Fail(t) ==
  /\ Finish(t)
  /\ LET n == {task[t].node} IN
     IF task[t].kind = "load"
     THEN /\ expanded' = expanded \ n /\ loading' = loading \ n
          /\ UNCHANGED children
     ELSE UNCHANGED tree
  /\ session' = IF task[t].kind = "run" /\ task[t].sess
                THEN [session EXCEPT ![task[t].conn].request = None]
                ELSE session

-----------------------------------------------------------------------------
(* connectFromForm and connectWithRetry.                                   *)

Retries(t) == task[t].kind \notin {"save", "test"}

(* The record is read now; the password comes from the keychain.           *)
Reconnect(t) ==
  task' = [task EXCEPT ![t].pc = "secret", ![t].via = target[task[t].conn],
                       ![t].again = @ \/ task[t].pc = "ask"]

Attempt(t, n) ==
  /\ task' = [task EXCEPT ![t].pc = "tunnel", ![t].try = n]
  /\ status' = [status EXCEPT ![task[t].conn] =
                  IF n = 1 THEN "connecting" ELSE "reconnecting"]
  /\ UNCHANGED <<conns, session, tree, starts, forwards, helper, hist>>

SecretRead(t) == task[t].pc = "secret" /\ Attempt(t, 1)

Slept(t) == task[t].pc = "sleep" /\ Attempt(t, task[t].try + 1)

(* ctx.ssh.openForward, which reuses a forward that is there.              *)
Forward(t) ==
  /\ task[t].pc = "tunnel"
  /\ forwards' = forwards \cup ({task[t].via} \ {None})
  /\ Goto(t, "connect")
  /\ UNCHANGED <<conns, status, session, tree, starts, helper, hist>>

(* Answers of the helper about c's editor that have not landed.            *)
Answers(c) ==
  {t \in Task : task[t].conn = c /\ task[t].kind # "test" /\
     \/ task[t].pc \in {"exec", "opened"}
     \/ task[t].pc = "answer" /\ task[t].kind \in {"run", "end"}}
Blur(t) == IF Answers(task[t].conn) \subseteq {t}
           THEN blurred \ {task[t].conn} ELSE blurred \cup {task[t].conn}

(* /connect replaces what the id stood for, the editor's session included; *)
(* a run of the old one goes on there.  A test has an id of its own.       *)
Connect(t) ==
  LET c == task[t].conn IN
  /\ task[t].pc = "connect"
  /\ task[t].via = None \/ task[t].via \in forwards
  /\ Goto(t, "opened")
  /\ IF task[t].kind = "test" THEN UNCHANGED <<helper, blurred, lost>>
     ELSE /\ open' = [open EXCEPT ![c] = task[t].via]
          /\ txn' = [txn EXCEPT ![c] = FALSE]
          /\ busy' = [busy EXCEPT ![c] = None]
          /\ blurred' = Blur(t) /\ lost' = lost \ {c}
          /\ UNCHANGED <<cat, losses>>
  /\ UNCHANGED <<conns, status, session, tree, starts, forwards, due, late,
                 doubled, races>>

(* Variant: the last failure is only thrown.                               *)
AttemptFailsSilently(t) ==
  /\ task[t].pc \in {"tunnel", "connect"}
  /\ IF Retries(t) /\ task[t].try < MaxAttempts
     THEN Goto(t, "sleep") /\ UNCHANGED <<session, tree>>
     ELSE Fail(t)
  /\ UNCHANGED <<conns, status, starts, forwards, helper, hist>>

(* No forward, no server: after the last time the row turns red.           *)
AttemptFails(t) ==
  /\ task[t].pc \in {"tunnel", "connect"}
  /\ IF Retries(t) /\ task[t].try < MaxAttempts
     THEN Goto(t, "sleep") /\ UNCHANGED <<session, tree, status>>
     ELSE /\ Fail(t)
          /\ status' = IF Retries(t)
                       THEN [status EXCEPT ![task[t].conn] = "error"]
                       ELSE status
  /\ UNCHANGED <<conns, starts, forwards, helper, hist>>

(* What a handler does with an open connection.                            *)
GoOn(t) ==
  IF task[t].kind \in {"select", "open"} THEN Finish(t)
  ELSE task' = [task EXCEPT ![t].pc = "ask", ![t].via = None, ![t].try = 0]

(* Variant: the bar keeps what the replaced connection had open.           *)
BarAfterConnectKept(c) == session

(* The transaction of the replaced connection is gone.                     *)
BarAfterConnect(c) ==
  IF session[c] = None THEN session ELSE [session EXCEPT ![c].bar = FALSE]

(* The answer of /connect.  A test disconnects again, its forward stays.   *)
Opened(t) ==
  LET c == task[t].conn IN
  /\ task[t].pc = "opened"
  /\ IF Retries(t) THEN GoOn(t) ELSE Finish(t)
  /\ session' =
       CASE task[t].kind = "test" -> session
         [] session[c] = None /\ Retries(t) /\ ~task[t].again ->
              EnsureSession(c)
         [] OTHER -> BarAfterConnect(c)
  /\ status' = IF task[t].kind = "test" THEN status
               ELSE [status EXCEPT ![c] = "connected"]
  /\ active' = IF task[t].kind = "save" THEN c ELSE active
  /\ UNCHANGED <<saved, target, tree, starts, forwards, helper, hist>>

-----------------------------------------------------------------------------
(* Handlers that need an open connection: a click on a connection, on a    *)
(* node, on a table, and the AI tools.                                     *)

(* selectConnection; the node opens too, and is loaded if it never was.    *)
ClickConnection(t, u, c) ==
  LET n == <<c, "conn">>
      loads == n \notin expanded /\ children[n] = None
  IN /\ c \in saved /\ t # u /\ task[t] = Idle /\ task[u] = Idle
     /\ Room(IF loads THEN 2 ELSE 1)
     /\ active' = c
     /\ expanded' = expanded \cup {n}
     /\ loading' = IF loads THEN loading \cup {n} ELSE loading
     /\ task' = [task EXCEPT ![t] = Begin("select", c),
                   ![u] = IF loads THEN [Begin("load", c) EXCEPT !.node = n]
                          ELSE @]
     /\ UNCHANGED <<saved, target, status, session, children, forwards,
                    helper, hist>>

(* The pane is shown: the restored connection is selected.                 *)
Mount(t) ==
  /\ active # None /\ status[active] # "connected"
  /\ Starts(t, Begin("select", active))
  /\ UNCHANGED <<conns, status, session, tree, forwards, helper, marks>>

OpenTable(t, c) ==
  /\ c \in saved /\ Starts(t, Begin("open", c))
  /\ <<c, "db">> \in expanded
  /\ active' = c
  /\ UNCHANGED <<saved, target, status, session, tree, forwards, helper, marks>>

AskAI(t, c) ==
  /\ c \in saved /\ Starts(t, Begin("ai", c))
  /\ UNCHANGED <<conns, status, session, tree, forwards, helper, marks>>

(* ensureConnected of a connection that was deleted meanwhile.             *)
Gone(t) ==
  /\ Fail(t)
  /\ status' = IF task[t].kind = "open"
               THEN [status EXCEPT ![task[t].conn] = "error"] ELSE status

(* ensureSidecar has ended: runActiveQuery takes an id, selectConnection   *)
(* and ensureConnected go on with the connections there are now.           *)
Booted(t) ==
  LET c == task[t].conn
      k == task[t].kind
      needs == k \in {"load", "open", "ai"}
  IN /\ task[t].pc = "boot"
     /\ CASE k = "run" ->
               /\ Goto(t, "ask")
               /\ session' = IF task[t].sess
                             THEN [session EXCEPT ![c].request = t]
                             ELSE session
               /\ UNCHANGED <<status, tree>>
          [] k \in {"save", "test"} ->
               Goto(t, "tunnel") /\ UNCHANGED <<status, session, tree>>
          [] k = "select" /\ c \notin saved ->
               Fail(t) /\ status' = [status EXCEPT ![c] = "disconnected"]
          [] needs /\ c \notin saved -> Gone(t)
          [] needs /\ c \in saved /\ status[c] = "connected" ->
               /\ GoOn(t) /\ session' = EnsureSession(c)
               /\ UNCHANGED <<status, tree>>
          [] OTHER -> Goto(t, "list") /\ UNCHANGED <<status, session, tree>>
     /\ UNCHANGED <<conns, starts, forwards, helper, hist>>

(* The helper cannot be started: an error nobody has shown yet.            *)
BootFails(t) ==
  /\ task[t].pc = "boot"
  /\ Fail(t)
  /\ status' = IF task[t].kind \in {"select", "open"}
               THEN [status EXCEPT ![task[t].conn] = "error"] ELSE status
  /\ UNCHANGED <<conns, starts, forwards, helper, hist>>

(* GET /connections: open already, to be opened, or deleted meanwhile.     *)
Listed(t) ==
  LET c == task[t].conn IN
  /\ task[t].pc = "list"
  /\ \/ /\ open[c] # Closed
        /\ GoOn(t) /\ session' = EnsureSession(c)
        /\ status' = IF task[t].kind \in {"select", "open"}
                     THEN [status EXCEPT ![c] = "connected"] ELSE status
        /\ UNCHANGED tree
     \/ /\ open[c] = Closed /\ c \in saved
        /\ Reconnect(t) /\ UNCHANGED <<status, session, tree>>
     \/ open[c] = Closed /\ c \notin saved /\ Gone(t)
  /\ UNCHANGED <<conns, starts, forwards, helper, hist>>

-----------------------------------------------------------------------------
(* The dialog's Save and Test, and Delete.                                 *)

Save(t, c, via) ==
  /\ Starts(t, [Begin("save", c) EXCEPT !.pc = "persist", !.via = via])
  /\ saved' = saved \cup {c} /\ target' = [target EXCEPT ![c] = via]
  /\ UNCHANGED <<active, status, session, tree, forwards, helper, marks>>

Test(t, c, via) ==
  /\ Starts(t, [Begin("test", c) EXCEPT !.via = via])
  /\ UNCHANGED <<conns, status, session, tree, forwards, helper, marks>>

Delete(t, c) ==
  /\ c \in saved
  /\ Starts(t, [Begin("delete", c) EXCEPT !.pc = "persist", !.via = target[c]])
  /\ saved' = saved \ {c}
  /\ UNCHANGED <<target, active, status, session, tree, forwards, helper,
                 marks>>

(* The list, the password and the history are stored.                      *)
Persisted(t) ==
  /\ task[t].pc = "persist"
  /\ Goto(t, IF task[t].kind = "save" THEN "boot" ELSE "leave")
  /\ UNCHANGED <<conns, status, session, tree, starts, forwards, helper, hist>>

(* /disconnect, whether it fails or not ...                                *)
Disconnect(t) ==
  LET c == task[t].conn IN
  /\ task[t].pc = "leave"
  /\ open' = [open EXCEPT ![c] = Closed]
  /\ txn' = [txn EXCEPT ![c] = FALSE] /\ busy' = [busy EXCEPT ![c] = None]
  /\ lost' = lost \cup {c}
  /\ Goto(t, "release")
  /\ UNCHANGED <<conns, status, session, tree, starts, forwards, cat, losses,
                 due, late, blurred, doubled, races>>

(* Variant: the forward is left to the host.                               *)
ReleaseNothing(t) ==
  /\ task[t].pc = "release"
  /\ Goto(t, "clean")
  /\ UNCHANGED <<conns, status, session, tree, starts, forwards, helper, hist>>

(* ... then the forward is closed ...                                      *)
ReleaseTunnel(t) ==
  /\ task[t].pc = "release"
  /\ forwards' = forwards \ {task[t].via}
  /\ Goto(t, "clean")
  /\ UNCHANGED <<conns, status, session, tree, starts, helper, hist>>

(* ... and what the window keeps of the connection is dropped.  Handlers   *)
(* that captured its session write to nobody's.                            *)
Cleanup(t) ==
  LET c == task[t].conn IN
  /\ task[t].pc = "clean"
  /\ active' = IF active = c THEN None ELSE active
  /\ status' = [status EXCEPT ![c] = "none"]
  /\ session' = [session EXCEPT ![c] = None]
  /\ task' = [u \in Task |-> IF u = t THEN Idle
                             ELSE IF task[u].conn = c
                             THEN [task[u] EXCEPT !.sess = FALSE]
                             ELSE task[u]]
  /\ UNCHANGED <<saved, target, tree, starts, forwards, helper, hist>>

-----------------------------------------------------------------------------
(* The schema tree.                                                        *)

Visible(n) ==
  /\ n[1] \in saved
  /\ n[2] = "db" => /\ <<n[1], "conn">> \in expanded
                    /\ children[<<n[1], "conn">>] # None

Collapse(n) ==
  /\ Visible(n) /\ n \in expanded
  /\ expanded' = expanded \ {n}
  /\ UNCHANGED <<conns, status, session, loading, children, task, starts,
                 forwards, helper, hist>>

(* onTreeToggle on a closed node: its children are there, or are loaded.   *)
(* Only a connection's node connects first.                                *)
LoadOf(n) ==
  [Begin("load", n[1]) EXCEPT !.node = n,
                              !.pc = IF n[2] = "conn" THEN "boot" ELSE "ask"]

Expand(t, n) ==
  /\ Visible(n) /\ n \notin expanded
  /\ expanded' = expanded \cup {n}
  /\ \/ /\ children[n] # None
        /\ UNCHANGED <<loading, task, starts, races>>
     \/ /\ children[n] = None
        /\ loading' = loading \cup {n}
        /\ Starts(t, LoadOf(n))
  /\ UNCHANGED <<conns, status, session, children, forwards, helper, marks>>

Noted(ns) ==
  /\ due' = [n \in Node |-> IF n \in ns THEN cat[n[1]] ELSE due[n]]
  /\ late' = {n \in Node : IF n \in ns THEN Loads(n) # {} ELSE n \in late}
  /\ UNCHANGED <<blurred, lost, doubled>>

(* Variant: the node is closed and opened again with what it has.          *)
RefreshKeeps(t, n) ==
  /\ Visible(n) /\ n \in expanded /\ children[n] # None
  /\ Noted({n})
  /\ UNCHANGED <<conns, status, session, tree, task, starts, forwards, helper,
                 races>>

(* refreshNode: forget, and load again if it is open.                      *)
Refresh(t, n) ==
  /\ Visible(n)
  /\ children' = [children EXCEPT ![n] = None]
  /\ \/ /\ n \in expanded
        /\ loading' = loading \cup {n}
        /\ Starts(t, LoadOf(n))
     \/ n \notin expanded /\ UNCHANGED <<loading, task, starts, races>>
  /\ Noted({n})
  /\ UNCHANGED <<conns, status, session, expanded, forwards, helper>>

ReloadTree ==
  /\ \E n \in Node : n \in expanded \/ children[n] # None
  /\ expanded' = {} /\ loading' = {} /\ children' = [n \in Node |-> None]
  /\ Noted(Node)
  /\ UNCHANGED <<conns, status, session, task, starts, forwards, helper, races>>

(* Truncate or Drop from a table's menu.                                   *)
Ddl(t, c) ==
  /\ c \in saved /\ <<c, "db">> \in expanded
  /\ Starts(t, [Begin("ddl", c) EXCEPT !.pc = "ask", !.node = <<c, "db">>])
  /\ UNCHANGED <<conns, status, session, tree, forwards, helper, marks>>

-----------------------------------------------------------------------------
(* The query editor.                                                       *)

(* runActiveQuery, its statement confirmed.                                *)
Run(t) ==
  /\ active # None
  /\ Starts(t, [Begin("run", active) EXCEPT !.sess = TRUE])
  /\ session' = EnsureSession(active)
  /\ doubled' = IF Runs(active) = {} THEN doubled \ {active}
                ELSE doubled \cup {active}
  /\ UNCHANGED <<conns, status, tree, forwards, helper, due, late, blurred,
                 lost>>

(* endTransaction, from the bar.                                           *)
EndTransaction(t) ==
  /\ active # None /\ session[active] # None /\ session[active].bar
  /\ Starts(t, [Begin("end", active) EXCEPT !.sess = TRUE, !.pc = "ask"])
  /\ UNCHANGED <<conns, status, session, tree, forwards, helper, marks>>

-----------------------------------------------------------------------------
(* Requests.                                                               *)

(* The helper does not know the connection: request() has it opened once,  *)
(* and asks again.                                                         *)
NotFound(t) ==
  /\ task[t].pc = "ask" /\ open[task[t].conn] = Closed
  /\ IF task[t].again \/ task[t].conn \notin saved THEN Fail(t)
     ELSE Reconnect(t) /\ UNCHANGED <<session, tree>>
  /\ UNCHANGED <<conns, status, starts, forwards, helper, hist>>

(* A batch takes the editor's session; anything else is answered.          *)
Ask(t) ==
  LET c == task[t].conn
      k == task[t].kind
  IN /\ task[t].pc = "ask" /\ open[c] \in forwards \cup {None}
     /\ k = "ddl" => MayHappen(c)
     /\ \/ /\ k \in {"run", "end"} /\ busy[c] = None
           /\ Goto(t, "exec") /\ busy' = [busy EXCEPT ![c] = t]
           /\ UNCHANGED cat
        \/ /\ k \notin {"run", "end"}
           /\ task' = [task EXCEPT ![t].pc = "answer", ![t].got = cat[c]]
           /\ cat' = IF k = "ddl" THEN [cat EXCEPT ![c] = @ + 1] ELSE cat
           /\ UNCHANGED busy
     /\ UNCHANGED <<conns, status, session, tree, starts, forwards, open, txn,
                    losses, hist>>

(* A second run is refused; the forward is gone; the statement fails.      *)
AskFails(t) ==
  /\ task[t].pc = "ask" /\ open[task[t].conn] # Closed
  /\ Fail(t)
  /\ UNCHANGED <<conns, status, starts, forwards, helper, hist>>

(* A batch ends, with a transaction open or not; one that went on on a     *)
(* connection that was replaced says what was true there.                  *)
Executed(t) ==
  LET c == task[t].conn IN
  /\ task[t].pc = "exec"
  /\ \E b \in BOOLEAN :
       /\ task[t].kind = "end" => ~b
       /\ task' = [task EXCEPT ![t].pc = "answer", ![t].got = b]
       /\ IF busy[c] = t
          THEN /\ txn' = [txn EXCEPT ![c] = b]
               /\ busy' = [busy EXCEPT ![c] = None]
               /\ lost' = lost \ {c} /\ blurred' = Blur(t)
          ELSE blurred' = blurred \cup {c} /\ UNCHANGED <<txn, busy, lost>>
  /\ UNCHANGED <<conns, status, session, tree, starts, forwards, open, cat,
                 losses, due, late, doubled, races>>

(* The run ends in an error of the request: nobody tells the bar.          *)
ExecFails(t) ==
  LET c == task[t].conn IN
  /\ task[t].pc = "exec"
  /\ Fail(t)
  /\ IF busy[c] = t
     THEN /\ txn' = [txn EXCEPT ![c] = FALSE]
          /\ busy' = [busy EXCEPT ![c] = None]
          /\ lost' = lost \cup {c}
     ELSE UNCHANGED <<txn, busy, lost>>
  /\ UNCHANGED <<conns, status, starts, forwards, open, cat, losses, due, late,
                 blurred, doubled, races>>

(* Variant: a run that ends leaves its id.                                 *)
LandsKeepsId(t) ==
  /\ task[t].pc = "answer" /\ task[t].kind \in {"run", "end"}
  /\ session' = IF task[t].sess
                THEN [session EXCEPT ![task[t].conn].bar = task[t].got]
                ELSE session
  /\ Finish(t)
  /\ UNCHANGED <<conns, status, tree, starts, forwards, helper, hist>>

(* Variant: the answer's flag as it is; a Commit's answer may lack it.     *)
LandsAsItIs(t) ==
  LET v == task[t] IN
  /\ v.pc = "answer" /\ v.kind \in {"run", "end"}
  /\ session' = IF v.sess
                THEN [session EXCEPT
                        ![v.conn].bar = IF v.kind = "end" THEN None ELSE v.got,
                        ![v.conn].request = IF v.kind = "run" THEN None ELSE @]
                ELSE session
  /\ Finish(t)
  /\ UNCHANGED <<conns, status, tree, starts, forwards, helper, hist>>

(* applySessionState; a run clears the id, whosever it is by now.          *)
BatchLands(t) ==
  LET v == task[t] IN
  /\ v.pc = "answer" /\ v.kind \in {"run", "end"}
  /\ session' = IF v.sess
                THEN [session EXCEPT ![v.conn].bar = v.got,
                        ![v.conn].request = IF v.kind = "run" THEN None ELSE @]
                ELSE session
  /\ Finish(t)
  /\ UNCHANGED <<conns, status, tree, starts, forwards, helper, hist>>

(* The children are stored whatever was refreshed or closed meanwhile.     *)
LoadLands(t) ==
  /\ task[t].pc = "answer" /\ task[t].kind = "load"
  /\ children' = [children EXCEPT ![task[t].node] = task[t].got]
  /\ loading' = loading \ {task[t].node}
  /\ Finish(t)
  /\ UNCHANGED <<conns, status, session, expanded, starts, forwards, helper,
                 hist>>

(* The table's siblings are refreshed.                                     *)
DdlLands(t) ==
  LET n == task[t].node IN
  /\ task[t].pc = "answer" /\ task[t].kind = "ddl"
  /\ children' = [children EXCEPT ![n] = None]
  /\ IF n \in expanded
     THEN loading' = loading \cup {n} /\ task' = [task EXCEPT ![t] = LoadOf(n)]
     ELSE Finish(t) /\ UNCHANGED loading
  /\ Noted({n})
  /\ UNCHANGED <<conns, status, session, expanded, starts, forwards, helper,
                 races>>

ToolLands(t) ==
  /\ task[t].pc = "answer" /\ task[t].kind = "ai"
  /\ Finish(t)
  /\ UNCHANGED <<conns, status, session, tree, starts, forwards, helper, hist>>

-----------------------------------------------------------------------------
(* Around the window.                                                      *)

(* The idle timer, or the server, ends a transaction.                      *)
TxnLost(c) ==
  /\ txn[c] /\ busy[c] = None
  /\ MayHappen(c) /\ losses' = losses + 1
  /\ txn' = [txn EXCEPT ![c] = FALSE] /\ lost' = lost \cup {c}
  /\ UNCHANGED <<conns, status, session, tree, task, starts, forwards, open,
                 busy, cat, due, late, blurred, doubled, races>>

(* Someone else creates a table.                                           *)
CatalogMoves(c) ==
  /\ MayHappen(c)
  /\ cat' = [cat EXCEPT ![c] = @ + 1]
  /\ UNCHANGED <<conns, status, session, tree, task, starts, forwards, open,
                 txn, busy, losses, hist>>

(* The helper dies; request() boots another, which knows nothing, and      *)
(* sends what was in flight again.                                         *)
HelperDies ==
  /\ (\A c \in Conn : MayHappen(c)) /\ losses' = losses + 1
  /\ open' = [c \in Conn |-> Closed] /\ txn' = [c \in Conn |-> FALSE]
  /\ busy' = [c \in Conn |-> None]
  /\ task' = [t \in Task |-> IF task[t].pc = "exec"
                             THEN [task[t] EXCEPT !.pc = "ask"] ELSE task[t]]
  /\ lost' = Conn
  /\ UNCHANGED <<conns, status, session, tree, starts, forwards, cat, due, late,
                 blurred, doubled, races>>

-----------------------------------------------------------------------------
TaskStep(t) ==
  \/ Booted(t) \/ BootFails(t) \/ Listed(t) \/ SecretRead(t) \/ Slept(t)
  \/ Forward(t) \/ Connect(t) \/ AttemptFails(t) \/ Opened(t) \/ Persisted(t)
  \/ Disconnect(t) \/ ReleaseTunnel(t) \/ Cleanup(t) \/ NotFound(t) \/ Ask(t)
  \/ AskFails(t) \/ Executed(t) \/ ExecFails(t) \/ BatchLands(t)
  \/ LoadLands(t) \/ DdlLands(t) \/ ToolLands(t)

(* The workbench: its toolbar, and what mounts it.                         *)
Pane(t) == Mount(t) \/ Run(t) \/ EndTransaction(t)

(* The sidebar: clicks, toggles and the actions of rows and of the header. *)
Sidebar(t) ==
  \/ \E c \in Conn : \/ \E u \in Task : ClickConnection(t, u, c)
                     \/ OpenTable(t, c) \/ Delete(t, c)
  \/ \E n \in Node : Expand(t, n)

(* The right-click menu of a node.                                         *)
Menu(t) ==
  \/ \E n \in Node : Refresh(t, n)
  \/ \E c \in Conn : Ddl(t, c)

(* The connection dialog, for a new connection or one being edited.        *)
Dialog(t) ==
  \E c \in Conn, via \in Target \cup {None} : Save(t, c, via) \/ Test(t, c, via)

User(t) ==
  Pane(t) \/ Sidebar(t) \/ Menu(t) \/ Dialog(t) \/ \E c \in Conn : AskAI(t, c)

Next ==
  \/ \E t \in Task : TaskStep(t) \/ User(t)
  \/ \E n \in Node : Collapse(n)
  \/ \E c \in Conn : TxnLost(c) \/ CatalogMoves(c)
  \/ ReloadTree \/ HelperDies

Spec == Init /\ [][Next]_vars

-----------------------------------------------------------------------------
(* Properties.                                                             *)

(* Every variable holds a value of its kind.                               *)
TypeOK ==
  /\ saved \subseteq Conn /\ target \in [Conn -> Target \cup {None}]
  /\ active \in Conn \cup {None}
  /\ session \in [Conn -> Session \cup {None}]
  /\ expanded \cup loading \cup late \subseteq Node
  /\ children \in [Node -> Nat \cup {None}]
  /\ forwards \subseteq Target
  /\ open \in [Conn -> Target \cup {None, Closed}]
  /\ txn \in [Conn -> BOOLEAN] /\ busy \in [Conn -> Task \cup {None}]
  /\ cat \in [Conn -> Nat] /\ due \in [Node -> Nat]

(* cancelActiveQuery: the request Stop names to the helper.                *)
Cancelled(c) == IF session[c] = None THEN None ELSE session[c].request

(* What Stop would cancel is a run of that connection that was sent and    *)
(* has not landed; and every run that was sent can be stopped, unless      *)
(* another was started beside it (its end clears the id of both) or its    *)
(* connection was deleted.                                                 *)
StopNamesTheRun ==
  /\ \A c \in Conn : Cancelled(c) # None =>
       LET v == task[Cancelled(c)] IN
       v.kind = "run" /\ v.conn = c /\ v.sess /\ v.pc # "boot"
  /\ \A t \in Task : task[t].kind = "run" /\ task[t].pc # "boot" =>
       \/ Cancelled(task[t].conn) = t
       \/ task[t].conn \in doubled \/ ~task[t].sess

(* With no answer under way, the bar shows the helper's transaction,       *)
(* unless answers overtook each other, the transaction ended unasked, or   *)
(* the connection was deleted under a run.                                 *)
BarTellsTruth ==
  \A c \in Conn \ (blurred \cup lost \cup raced) :
    session[c] # None /\ Answers(c) = {} => session[c].bar = txn[c]

(* A spinner turns only while its node loads, and an open node that does   *)
(* not load has children: collapse, refresh and failures in any order.     *)
(* After a refresh the tree shows what there was then or later, unless a   *)
(* load was under way: its answer may land after the new one, and stays.   *)
TreeSettles ==
  \A n \in Node :
    /\ Loads(n) = {} => n \notin loading /\ (n \in expanded => children[n] # None)
    /\ n \notin late /\ children[n] # None => children[n] >= due[n]

(* A row says that it connects only while a handler does.                  *)
ConnectingHasTask ==
  \A c \in Conn : status[c] \in {"connecting", "reconnecting"} =>
    \E t \in Live(c) : task[t].pc \in {"tunnel", "connect", "opened", "sleep"}

(* A deleted connection leaves nothing behind, in the window, the helper   *)
(* or the host, unless a handler was using it, another connection may have *)
(* opened the same forward, or an edit left it open.                       *)
DeletedLeavesNothing ==
  \A c \in Conn \ (saved \cup raced) : Live(c) = {} =>
    /\ open[c] = Closed /\ session[c] = None /\ active # c
    /\ status[c] = "none"
    /\ target[c] \in forwards \ left =>
         \E d \in Conn \ {c} : d \in saved \cup raced \/ Live(d) # {}
=============================================================================
