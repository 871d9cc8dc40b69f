-------------------------- MODULE WorkbenchProofs --------------------------
(***************************************************************************)
(* Theorems about Workbench, for any number of connections, forwards and   *)
(* handlers under way at one time.                                         *)
(***************************************************************************)
EXTENDS Workbench, TLAPS

-----------------------------------------------------------------------------
(* A handler: where it can be, and what its locals hold there.             *)

Road == {"secret", "tunnel", "connect", "sleep", "opened"}
Batch == {"run", "end"}

TaskRec ==
  [kind : {"none", "select", "open", "load", "ai", "ddl", "run", "end",
           "save", "test", "delete"},
   pc : {"idle", "boot", "list", "ask", "exec", "answer", "persist", "leave",
         "release", "clean"} \cup Road,
   conn : Conn \cup {None}, node : Node \cup {None},
   via : Target \cup {None}, try : Nat, again : BOOLEAN, sess : BOOLEAN,
   got : Nat \cup BOOLEAN \cup {None}]

Placed(k, pc) ==
  \/ k = "none" /\ pc = "idle"
  \/ k \in {"select", "open", "load", "ai"} /\ pc \in {"boot", "list"} \cup Road
  \/ k \in {"load", "ai", "ddl", "run", "end"} /\ pc \in {"ask", "answer"} \cup Road
  \/ k \in Batch /\ pc = "exec"
  \/ k \in {"run", "save", "test"} /\ pc = "boot"
  \/ k \in {"save", "test"} /\ pc \in {"tunnel", "connect", "opened"}
  \/ k \in {"save", "delete"} /\ pc = "persist"
  \/ k = "delete" /\ pc \in {"leave", "release", "clean"}

Handler(v) ==
  /\ v \in TaskRec
  /\ Placed(v.kind, v.pc)
  /\ v.pc = "idle" => v = Idle
  /\ v.pc # "idle" => v.conn \in Conn
  /\ v.kind \in {"load", "ddl"} => v.node \in Node /\ v.node[1] = v.conn
  /\ v.sess => v.kind \in Batch
  /\ v.pc = "answer" => IF v.kind \in Batch THEN v.got \in BOOLEAN
                        ELSE v.got \in Nat

TaskInv == task \in [Task -> TaskRec] /\ \A t \in Task : Handler(task[t])

LEMMA IdleHandler == Handler(Idle)
BY WorkbenchAssumption DEF Idle, Handler, TaskRec, Placed, Road

LEMMA IdleFields ==
  /\ Idle.kind = "none" /\ Idle.pc = "idle" /\ Idle.conn = None
  /\ Idle.via = None /\ Idle.node = None /\ ~Idle.sess
BY DEF Idle

LEMMA OneKept ==
  ASSUME TaskInv, NEW t \in Task, NEW v, Handler(v),
         task' = [task EXCEPT ![t] = v]
  PROVE  TaskInv'
BY DEF TaskInv, Handler

(* Handlers as they start.                                                 *)
LEMMA BegunHandler ==
  ASSUME NEW c \in Conn
  PROVE  /\ \A k \in {"select", "open", "ai", "run", "test"} :
              Handler(Begin(k, c))
         /\ \A n \in Node :
              n[1] = c => Handler([Begin("load", c) EXCEPT !.node = n])
         /\ Handler([Begin("run", c) EXCEPT !.sess = TRUE])
         /\ Handler([Begin("end", c) EXCEPT !.sess = TRUE, !.pc = "ask"])
         /\ Handler([Begin("ddl", c) EXCEPT !.pc = "ask", !.node = <<c, "db">>])
         /\ \A via \in Target \cup {None} :
              /\ Handler([Begin("save", c) EXCEPT !.pc = "persist", !.via = via])
              /\ Handler([Begin("test", c) EXCEPT !.via = via])
              /\ Handler([Begin("delete", c) EXCEPT !.pc = "persist",
                                                    !.via = via])
<1> USE WorkbenchAssumption DEF Begin, Idle, Handler, TaskRec, Placed, Road, Batch
<1>1. ASSUME NEW k \in {"select", "open", "ai", "run", "test"}
      PROVE  Handler(Begin(k, c))
  OBVIOUS
<1>2. \A n \in Node :
        n[1] = c => Handler([Begin("load", c) EXCEPT !.node = n])
  BY ZenonT(40)
<1>3. Handler([Begin("run", c) EXCEPT !.sess = TRUE])
  OBVIOUS
<1>4. Handler([Begin("end", c) EXCEPT !.sess = TRUE, !.pc = "ask"])
  OBVIOUS
<1>5. Handler([Begin("ddl", c) EXCEPT !.pc = "ask", !.node = <<c, "db">>])
  BY DEF Node
<1>6. ASSUME NEW via \in Target \cup {None}
      PROVE  /\ Handler([Begin("save", c) EXCEPT !.pc = "persist", !.via = via])
             /\ Handler([Begin("test", c) EXCEPT !.via = via])
             /\ Handler([Begin("delete", c) EXCEPT !.pc = "persist",
                                                   !.via = via])
  OBVIOUS
<1> QED
  BY <1>1, <1>2, <1>3, <1>4, <1>5, <1>6

LEMMA LoadHandler ==
  ASSUME NEW n \in Node
  PROVE  Handler(LoadOf(n)) /\ LoadOf(n).conn = n[1] /\ LoadOf(n).kind = "load"
BY WorkbenchAssumption DEF LoadOf, Begin, Idle, Handler, TaskRec, Placed, Road,
   Batch, Node

(* What a step of task t leaves: t alone moves, and keeps its place's kind *)
(* until it ends, or a DDL goes on as a load of its node.                  *)
Moves(t) ==
  /\ task' = [task EXCEPT ![t] = task'[t]] /\ Handler(task'[t])
  /\ \/ task'[t] = Idle
     \/ task[t].kind = "ddl" /\ task'[t] = LoadOf(task[t].node)
     \/ /\ task'[t].kind = task[t].kind /\ task'[t].conn = task[t].conn
        /\ task'[t].node = task[t].node /\ task'[t].sess = task[t].sess

LEMMA GotoMoves ==
  ASSUME TaskInv, NEW t \in Task, NEW pc, Goto(t, pc),
         pc \notin {"idle", "answer"}, task[t].pc # "idle",
         Placed(task[t].kind, pc)
  PROVE  Moves(t) /\ task'[t].pc = pc
<1>1. task' = [task EXCEPT ![t] = task'[t]]
  BY DEF Goto, TaskInv
<1>2. task'[t] = [task[t] EXCEPT !.pc = pc]
  BY DEF Goto, TaskInv
<1>3. Handler(task[t])
  BY DEF TaskInv
<1>4. task'[t] \in TaskRec
  BY <1>2, <1>3 DEF Handler, TaskRec, Placed, Road, Batch
<1>5. /\ task'[t].kind = task[t].kind /\ task'[t].conn = task[t].conn
      /\ task'[t].node = task[t].node /\ task'[t].sess = task[t].sess
      /\ task'[t].pc = pc /\ task'[t].via = task[t].via
  BY <1>2, <1>3 DEF Handler, TaskRec
<1>6. Handler(task'[t])
  BY <1>3, <1>4, <1>5 DEF Handler
<1> QED
  BY <1>1, <1>5, <1>6 DEF Moves

LEMMA FinishMoves ==
  ASSUME TaskInv, NEW t \in Task, Finish(t)
  PROVE  Moves(t) /\ task'[t] = Idle
BY IdleHandler DEF Finish, TaskInv, Moves

(* The other fields a handler changes on its way.                          *)
LEMMA SetMoves ==
  ASSUME TaskInv, NEW t \in Task,
         task' = [task EXCEPT ![t] = task'[t]], task'[t] \in TaskRec,
         task'[t].kind = task[t].kind, task'[t].conn = task[t].conn,
         task'[t].node = task[t].node, task'[t].sess = task[t].sess,
         task[t].pc # "idle", Placed(task[t].kind, task'[t].pc),
         task'[t].pc # "idle",
         task'[t].pc = "answer" =>
           IF task[t].kind \in Batch THEN task'[t].got \in BOOLEAN
           ELSE task'[t].got \in Nat
  PROVE  Moves(t)
BY DEF TaskInv, Handler, Moves

(* The steps of connectWithRetry.                                          *)
LEMMA ReconnectMoves ==
  ASSUME TypeOK, TaskInv, NEW t \in Task, Reconnect(t), task[t].pc # "idle",
         task[t].conn \in Conn, Placed(task[t].kind, "secret")
  PROVE  /\ Moves(t) /\ task'[t].pc = "secret"
         /\ task'[t].via = target[task[t].conn]
         /\ task'[t].kind = task[t].kind /\ task'[t].conn = task[t].conn
         /\ task'[t].node = task[t].node /\ task'[t].sess = task[t].sess
<1>1. task' = [task EXCEPT ![t] = task'[t]]
  BY DEF Reconnect, TaskInv
<1>2. task'[t] = [task[t] EXCEPT !.pc = "secret", !.via = target[task[t].conn],
                                 !.again = @ \/ task[t].pc = "ask"]
  BY DEF Reconnect, TaskInv
<1>3. Handler(task[t]) /\ target[task[t].conn] \in Target \cup {None}
  BY DEF TaskInv, TypeOK
<1>4. task'[t] \in TaskRec
  BY <1>2, <1>3 DEF Handler, TaskRec, Road
<1>5. /\ task'[t].kind = task[t].kind /\ task'[t].conn = task[t].conn
      /\ task'[t].node = task[t].node /\ task'[t].sess = task[t].sess
      /\ task'[t].pc = "secret" /\ task'[t].via = target[task[t].conn]
  BY <1>2, <1>3 DEF Handler, TaskRec
<1> QED
  BY <1>1, <1>4, <1>5, SetMoves
LEMMA GoOnMoves ==
  ASSUME TaskInv, NEW t \in Task, GoOn(t), task[t].pc # "idle",
         task[t].kind \in {"select", "open"} \/ Placed(task[t].kind, "ask")
  PROVE  /\ Moves(t)
         /\ \/ task'[t] = Idle
            \/ /\ task'[t].pc = "ask" /\ task'[t].via = None
               /\ task'[t].kind = task[t].kind /\ task'[t].conn = task[t].conn
               /\ task'[t].node = task[t].node /\ task'[t].sess = task[t].sess
<1>1. CASE task[t].kind \in {"select", "open"}
  <2>1. Finish(t)
    BY <1>1 DEF GoOn
  <2> QED
    BY <2>1, FinishMoves
<1>2. CASE task[t].kind \notin {"select", "open"}
  <2>1. task' = [task EXCEPT ![t] = task'[t]]
    BY <1>2 DEF GoOn, TaskInv
  <2>2. task'[t] = [task[t] EXCEPT !.pc = "ask", !.via = None, !.try = 0]
    BY <1>2 DEF GoOn, TaskInv
  <2>3. task[t] \in TaskRec
    BY DEF TaskInv
  <2>4. task'[t] \in TaskRec
    <3>1. PICK z \in Nat : z = 0
      OBVIOUS
    <3>2. task'[t] = [task[t] EXCEPT !.pc = "ask", !.via = None, !.try = z]
      BY <2>2, <3>1
    <3>3. task'[t] \in TaskRec
      BY <2>3, <3>2 DEF TaskRec
    <3> QED
      BY <3>3
  <2>5. /\ task'[t].kind = task[t].kind /\ task'[t].conn = task[t].conn
        /\ task'[t].node = task[t].node /\ task'[t].sess = task[t].sess
        /\ task'[t].pc = "ask" /\ task'[t].via = None
    BY <2>2, <2>3 DEF Handler, TaskRec
  <2> QED
    BY <1>2, <2>1, <2>4, <2>5, SetMoves
<1> QED
  BY <1>1, <1>2

(* Every step of a handler, but the last of a deletion.                    *)
LEMMA TaskStepMoves ==
  ASSUME TypeOK, TaskInv, NEW t \in Task, TaskStep(t)
  PROVE  Moves(t) \/ Cleanup(t)
<1> DEFINE v == task[t]
<1>0. Handler(v) /\ v \in TaskRec
  BY DEF TaskInv, Handler
<1>1. CASE Booted(t)
  <2>1. v.pc = "boot" /\ v.conn \in Conn
    BY <1>0, <1>1 DEF Booted, Handler
  <2>2. CASE v.kind \in {"run", "save", "test"}
    <3>1. \/ Goto(t, "ask") /\ v.kind = "run"
          \/ Goto(t, "tunnel") /\ v.kind \in {"save", "test"}
      BY <1>1, <2>2 DEF Booted
    <3> QED
      BY <3>1, <2>1, GotoMoves DEF Placed, Road
  <2>3. CASE v.kind \notin {"run", "save", "test"}
    <3>1. Finish(t) \/ GoOn(t) \/ Goto(t, "list")
      BY <1>1, <2>3 DEF Booted, Fail, Gone
    <3>2. v.kind \in {"select", "open", "load", "ai"}
      BY <1>0, <2>1, <2>3 DEF Handler, Placed, Road, Batch
    <3>3. Placed(v.kind, "list") /\ (v.kind \in {"load", "ai"} => Placed(v.kind, "ask"))
      BY <3>2 DEF Placed
    <3> HIDE DEF v
    <3>4. CASE Finish(t)
      BY <3>4, FinishMoves
    <3>5. CASE GoOn(t)
      BY <3>5, <3>2, <3>3, <2>1, GoOnMoves DEF v
    <3>6. CASE Goto(t, "list")
      BY <3>6, <3>3, <2>1, GotoMoves DEF v
    <3> QED
      BY <3>1, <3>4, <3>5, <3>6
  <2> QED
    BY <2>2, <2>3
<1> HIDE DEF v
<1>2. CASE \/ BootFails(t) \/ AskFails(t) \/ ExecFails(t) \/ BatchLands(t)
           \/ LoadLands(t) \/ ToolLands(t)
  <2>1. Finish(t)
    BY <1>2 DEF BootFails, AskFails, ExecFails, BatchLands, LoadLands,
                ToolLands, Fail
  <2> QED
    BY <2>1, FinishMoves
<1>3. CASE Listed(t)
  <2>1. v.pc = "list" /\ v.conn \in Conn
    BY <1>0, <1>3 DEF Listed, Handler, v
  <2>2. /\ Placed(v.kind, "secret")
        /\ v.kind \in {"select", "open"} \/ Placed(v.kind, "ask")
    BY <1>0, <2>1 DEF Handler, Placed, Road, Batch
  <2>3. Finish(t) \/ GoOn(t) \/ Reconnect(t)
    BY <1>3 DEF Listed, Gone, Fail
  <2>4. CASE Finish(t)
    BY <2>4, FinishMoves
  <2>5. CASE GoOn(t)
    BY <2>1, <2>2, <2>5, GoOnMoves DEF v
  <2>6. CASE Reconnect(t)
    BY <2>1, <2>2, <2>6, ReconnectMoves DEF v
  <2> QED
    BY <2>3, <2>4, <2>5, <2>6
<1>4. CASE SecretRead(t) \/ Slept(t)
  <2>1. PICK n \in Nat : task' = [task EXCEPT ![t].pc = "tunnel", ![t].try = n]
    <3>1. v.try \in Nat
      BY <1>0 DEF TaskRec
    <3> QED
      BY <1>4, <3>1 DEF SecretRead, Slept, Attempt, v
  <2>2. task' = [task EXCEPT ![t] = task'[t]]
    BY <2>1 DEF TaskInv
  <2>3. task'[t] = [v EXCEPT !.pc = "tunnel", !.try = n]
    BY <2>1 DEF TaskInv, v
  <2>4. task'[t] \in TaskRec
    BY <1>0, <2>3 DEF TaskRec, Road
  <2>5. /\ task'[t].kind = v.kind /\ task'[t].conn = v.conn
        /\ task'[t].node = v.node /\ task'[t].sess = v.sess
        /\ task'[t].pc = "tunnel"
    BY <1>0, <2>3 DEF TaskRec
  <2>6. v.pc \in {"secret", "sleep"}
    BY <1>4 DEF SecretRead, Slept, v
  <2>7. Placed(v.kind, "tunnel")
    BY <1>0, <2>6 DEF Handler, Placed, Road, Batch
  <2> QED
    BY <2>2, <2>4, <2>5, <2>6, <2>7, SetMoves DEF v
<1>5. CASE Forward(t) \/ Connect(t) \/ Persisted(t) \/ Disconnect(t) \/ ReleaseTunnel(t)
  <2>1. \/ v.pc = "tunnel" /\ Goto(t, "connect")
        \/ v.pc = "connect" /\ Goto(t, "opened")
        \/ v.pc = "persist" /\ v.kind = "save" /\ Goto(t, "boot")
        \/ v.pc = "persist" /\ v.kind # "save" /\ Goto(t, "leave")
        \/ v.pc = "leave" /\ Goto(t, "release")
        \/ v.pc = "release" /\ Goto(t, "clean")
    BY <1>5 DEF Forward, Connect, Persisted, Disconnect, ReleaseTunnel, v
  <2>2. /\ v.pc = "tunnel" => Placed(v.kind, "connect")
        /\ v.pc = "connect" => Placed(v.kind, "opened")
        /\ v.kind = "save" => Placed(v.kind, "boot")
        /\ v.pc = "persist" /\ v.kind # "save" => Placed(v.kind, "leave")
        /\ v.pc = "leave" => Placed(v.kind, "release")
        /\ v.pc = "release" => Placed(v.kind, "clean")
    BY <1>0 DEF Handler, Placed, Road, Batch
  <2> QED
    BY <2>1, <2>2, GotoMoves DEF v
<1>6. CASE AttemptFails(t)
  <2>1. \/ Finish(t)
        \/ Goto(t, "sleep") /\ v.kind \notin {"save", "test"}
    BY <1>6 DEF AttemptFails, Retries, Fail, v
  <2>2. v.pc \in {"tunnel", "connect"}
    BY <1>6 DEF AttemptFails, v
  <2>3. v.kind \notin {"save", "test"} => Placed(v.kind, "sleep")
    BY <1>0, <2>2 DEF Handler, Placed, Road, Batch
  <2> QED
    BY <2>1, <2>2, <2>3, GotoMoves, FinishMoves DEF v
<1>7. CASE Opened(t)
  <2>1. \/ Finish(t)
        \/ GoOn(t) /\ v.kind \notin {"save", "test"}
    BY <1>7 DEF Opened, Retries, v
  <2>2. v.pc = "opened"
    BY <1>7 DEF Opened, v
  <2>3. v.kind \notin {"save", "test"} =>
          v.kind \in {"select", "open"} \/ Placed(v.kind, "ask")
    BY <1>0, <2>2 DEF Handler, Placed, Road, Batch
  <2>4. CASE Finish(t)
    BY <2>4, FinishMoves
  <2>5. CASE GoOn(t) /\ v.kind \notin {"save", "test"}
    BY <2>2, <2>3, <2>5, GoOnMoves DEF v
  <2> QED
    BY <2>1, <2>4, <2>5
<1>8. CASE NotFound(t)
  <2>1. Finish(t) \/ Reconnect(t)
    BY <1>8 DEF NotFound, Fail
  <2>2. v.pc = "ask" /\ v.conn \in Conn
    BY <1>0, <1>8 DEF NotFound, Handler, v
  <2>3. Placed(v.kind, "secret")
    BY <1>0, <2>2 DEF Handler, Placed, Road, Batch
  <2> QED
    BY <2>1, <2>2, <2>3, FinishMoves, ReconnectMoves DEF v
<1>9. CASE Ask(t)
  <2>1. v.pc = "ask" /\ v.conn \in Conn
    BY <1>0, <1>9 DEF Ask, Handler, v
  <2>2. \/ v.kind \in Batch /\ Goto(t, "exec")
        \/ /\ v.kind \notin Batch
           /\ task' = [task EXCEPT ![t].pc = "answer", ![t].got = cat[v.conn]]
    BY <1>9 DEF Ask, Batch, v
  <2>3. CASE v.kind \in Batch /\ Goto(t, "exec")
    BY <2>1, <2>3, GotoMoves DEF Placed, v
  <2>4. CASE /\ v.kind \notin Batch
             /\ task' = [task EXCEPT ![t].pc = "answer", ![t].got = cat[v.conn]]
    <3>1. task' = [task EXCEPT ![t] = task'[t]]
      BY <2>4 DEF TaskInv
    <3>2. task'[t] = [v EXCEPT !.pc = "answer", !.got = cat[v.conn]]
      BY <2>4 DEF TaskInv, v
    <3>3. cat[v.conn] \in Nat
      BY <2>1 DEF TypeOK
    <3>4. task'[t] \in TaskRec
      BY <1>0, <3>2, <3>3 DEF TaskRec
    <3>5. /\ task'[t].kind = v.kind /\ task'[t].conn = v.conn
          /\ task'[t].node = v.node /\ task'[t].sess = v.sess
          /\ task'[t].pc = "answer" /\ task'[t].got = cat[v.conn]
      BY <1>0, <3>2 DEF TaskRec
    <3>6. Placed(v.kind, "answer")
      BY <1>0, <2>1 DEF Handler, Placed, Road, Batch
    <3> QED
      BY <2>1, <2>4, <3>1, <3>3, <3>4, <3>5, <3>6, SetMoves DEF v
  <2> QED
    BY <2>2, <2>3, <2>4
<1>10. CASE Executed(t)
  <2>1. PICK b \in BOOLEAN :
          task' = [task EXCEPT ![t].pc = "answer", ![t].got = b]
    BY <1>10 DEF Executed
  <2>2. task' = [task EXCEPT ![t] = task'[t]]
    BY <2>1 DEF TaskInv
  <2>3. task'[t] = [v EXCEPT !.pc = "answer", !.got = b]
    BY <2>1 DEF TaskInv, v
  <2>4. task'[t] \in TaskRec
    BY <1>0, <2>3 DEF TaskRec
  <2>5. /\ task'[t].kind = v.kind /\ task'[t].conn = v.conn
        /\ task'[t].node = v.node /\ task'[t].sess = v.sess
        /\ task'[t].pc = "answer" /\ task'[t].got = b
    BY <1>0, <2>3 DEF TaskRec
  <2>6. v.pc = "exec"
    BY <1>10 DEF Executed, v
  <2>7. Placed(v.kind, "answer") /\ v.kind \in Batch
    BY <1>0, <2>6 DEF Handler, Placed, Road, Batch
  <2> QED
    BY <2>2, <2>4, <2>5, <2>6, <2>7, SetMoves DEF v
<1>11. CASE DdlLands(t)
  <2>1. v.pc = "answer" /\ v.kind = "ddl" /\ v.node \in Node
    BY <1>0, <1>11 DEF DdlLands, Handler, v
  <2>2. Finish(t) \/ task' = [task EXCEPT ![t] = LoadOf(v.node)]
    BY <1>11 DEF DdlLands, v
  <2>3. CASE task' = [task EXCEPT ![t] = LoadOf(v.node)]
    BY <2>1, <2>3, LoadHandler DEF TaskInv, Moves, v
  <2> QED
    BY <2>2, <2>3, FinishMoves
<1> QED
  BY <1>1, <1>2, <1>3, <1>4, <1>5, <1>6, <1>7, <1>8, <1>9, <1>10, <1>11
     DEF TaskStep
(* A handler that starts takes an idle task.                               *)
Begun(t) ==
  /\ task[t] = Idle /\ task' = [task EXCEPT ![t] = task'[t]]
  /\ Handler(task'[t])

LEMMA StartsBegin ==
  ASSUME TaskInv, NEW t \in Task, NEW v, Handler(v), Starts(t, v)
  PROVE  Begun(t) /\ task'[t] = v
BY DEF Starts, Begun, TaskInv

LEMMA UserBegins ==
  ASSUME TypeOK, TaskInv, NEW t \in Task, User(t)
  PROVE  \/ Begun(t) \/ UNCHANGED task
         \/ \E c \in Conn, u \in Task : ClickConnection(t, u, c)
<1>1. CASE Pane(t)
  <2>0. active # None => active \in Conn
    BY DEF TypeOK
  <2>1. CASE Mount(t)
    BY <2>0, <2>1, BegunHandler, StartsBegin DEF Mount
  <2>2. CASE Run(t)
    BY <2>0, <2>2, BegunHandler, StartsBegin DEF Run
  <2>3. CASE EndTransaction(t)
    BY <2>0, <2>3, BegunHandler, StartsBegin DEF EndTransaction
  <2> QED
    BY <1>1, <2>1, <2>2, <2>3 DEF Pane
<1>2. CASE Sidebar(t)
  <2>1. ASSUME NEW c \in Conn, OpenTable(t, c)
        PROVE  Begun(t)
    BY <2>1, BegunHandler, StartsBegin DEF OpenTable
  <2>2. ASSUME NEW c \in Conn, Delete(t, c)
        PROVE  Begun(t)
    <3>1. target[c] \in Target \cup {None}
      BY DEF TypeOK
    <3> QED
      BY <2>2, <3>1, BegunHandler, StartsBegin DEF Delete
  <2>3. ASSUME NEW n \in Node, Expand(t, n)
        PROVE  Begun(t) \/ UNCHANGED task
    BY <2>3, LoadHandler, StartsBegin DEF Expand
  <2> QED
    BY <1>2, <2>1, <2>2, <2>3 DEF Sidebar
<1>3. CASE Menu(t)
  <2>1. ASSUME NEW n \in Node, Refresh(t, n)
        PROVE  Begun(t) \/ UNCHANGED task
    BY <2>1, LoadHandler, StartsBegin DEF Refresh
  <2>2. ASSUME NEW c \in Conn, Ddl(t, c)
        PROVE  Begun(t)
    BY <2>2, BegunHandler, StartsBegin DEF Ddl
  <2> QED
    BY <1>3, <2>1, <2>2 DEF Menu
<1>4. CASE Dialog(t)
  <2>1. ASSUME NEW c \in Conn, NEW via \in Target \cup {None},
               Save(t, c, via) \/ Test(t, c, via)
        PROVE  Begun(t)
    <3>1. CASE Save(t, c, via)
      BY <3>1, BegunHandler, StartsBegin DEF Save
    <3>2. CASE Test(t, c, via)
      BY <3>2, BegunHandler, StartsBegin DEF Test
    <3> QED
      BY <2>1, <3>1, <3>2
  <2> QED
    BY <1>4, <2>1 DEF Dialog
<1>5. ASSUME NEW c \in Conn, AskAI(t, c)
      PROVE  Begun(t)
  BY <1>5, BegunHandler, StartsBegin DEF AskAI
<1> QED
  BY <1>1, <1>2, <1>3, <1>4, <1>5 DEF User

(* What each of them starts.                                               *)
Fresh(t, k, pc, c, via) ==
  /\ Begun(t) /\ c \in Conn
  /\ task'[t].kind = k /\ task'[t].pc = pc /\ task'[t].conn = c
  /\ task'[t].via = via /\ task'[t].sess = (k \in Batch)
  /\ raced' = IF Strays(task'[t]) THEN raced \cup {c} ELSE raced
  /\ left' = left \cup Leaves(task'[t])

Fields(v, k, pc, c, via, sess) ==
  v.kind = k /\ v.pc = pc /\ v.conn = c /\ v.via = via /\ v.sess = sess

LEMMA StartsFresh ==
  ASSUME TaskInv, NEW t \in Task, NEW v, Handler(v), Starts(t, v),
         NEW k, NEW pc, NEW c \in Conn, NEW via, NEW sess, sess = (k \in Batch),
         Fields(v, k, pc, c, via, sess)
  PROVE  Fresh(t, k, pc, c, via) /\ task'[t] = v
<1>1. Begun(t) /\ task'[t] = v
  BY StartsBegin
<1> QED
  BY <1>1 DEF Fresh, Starts, Fields

LEMMA BeginFields ==
  ASSUME NEW c
  PROVE  /\ \A k : Fields(Begin(k, c), k, "boot", c, None, FALSE)
         /\ Fields([Begin("run", c) EXCEPT !.sess = TRUE],
                   "run", "boot", c, None, TRUE)
         /\ Fields([Begin("end", c) EXCEPT !.sess = TRUE, !.pc = "ask"],
                   "end", "ask", c, None, TRUE)
         /\ Fields([Begin("ddl", c) EXCEPT !.pc = "ask", !.node = <<c, "db">>],
                   "ddl", "ask", c, None, FALSE)
         /\ \A via :
              /\ Fields([Begin("save", c) EXCEPT !.pc = "persist", !.via = via],
                        "save", "persist", c, via, FALSE)
              /\ Fields([Begin("test", c) EXCEPT !.via = via],
                        "test", "boot", c, via, FALSE)
              /\ Fields([Begin("delete", c) EXCEPT !.pc = "persist", !.via = via],
                        "delete", "persist", c, via, FALSE)
BY DEF Begin, Idle, Fields

LEMMA LoadFields ==
  ASSUME NEW n \in Node
  PROVE  /\ LoadOf(n).kind = "load" /\ LoadOf(n).conn = n[1] /\ LoadOf(n).node = n
         /\ LoadOf(n).via = None /\ LoadOf(n).sess = FALSE
         /\ LoadOf(n).pc \in {"boot", "ask"} /\ n[1] \in Conn
BY DEF LoadOf, Begin, Idle, Node

LEMMA UserStarts ==
  ASSUME TypeOK, TaskInv, NEW t \in Task
  PROVE  /\ Mount(t) => Fresh(t, "select", "boot", active, None)
         /\ Run(t) => Fresh(t, "run", "boot", active, None)
         /\ EndTransaction(t) => Fresh(t, "end", "ask", active, None)
         /\ \A c \in Conn :
              /\ OpenTable(t, c) => Fresh(t, "open", "boot", c, None)
              /\ AskAI(t, c) => Fresh(t, "ai", "boot", c, None)
              /\ Ddl(t, c) => Fresh(t, "ddl", "ask", c, None)
              /\ Delete(t, c) => Fresh(t, "delete", "persist", c, target[c])
              /\ \A via \in Target \cup {None} :
                   /\ Save(t, c, via) => Fresh(t, "save", "persist", c, via)
                   /\ Test(t, c, via) => Fresh(t, "test", "boot", c, via)
         /\ \A n \in Node :
              Starts(t, LoadOf(n)) =>
                /\ Fresh(t, "load", LoadOf(n).pc, n[1], None)
                /\ task'[t].node = n
<1>1. Mount(t) => Fresh(t, "select", "boot", active, None)
  <2> SUFFICES ASSUME Mount(t)
               PROVE  Fresh(t, "select", "boot", active, None)
    OBVIOUS
  <2> DEFINE v == Begin("select", active)
  <2>1. active \in Conn /\ Starts(t, v)
    BY DEF Mount, TypeOK
  <2>2. Handler(v)
    BY <2>1, BegunHandler
  <2>3. Fields(v, "select", "boot", active, None, FALSE)
    BY BeginFields
  <2>4. FALSE = ("select" \in Batch)
    BY DEF Batch
  <2> HIDE DEF v
  <2> QED
    BY <2>1, <2>2, <2>3, <2>4, StartsFresh
<1>2. Run(t) => Fresh(t, "run", "boot", active, None)
  <2> SUFFICES ASSUME Run(t)
               PROVE  Fresh(t, "run", "boot", active, None)
    OBVIOUS
  <2> DEFINE v == [Begin("run", active) EXCEPT !.sess = TRUE]
  <2>1. active \in Conn /\ Starts(t, v)
    BY DEF Run, TypeOK
  <2>2. Handler(v)
    BY <2>1, BegunHandler
  <2>3. Fields(v, "run", "boot", active, None, TRUE)
    BY BeginFields
  <2>4. TRUE = ("run" \in Batch)
    BY DEF Batch
  <2> HIDE DEF v
  <2> QED
    BY <2>1, <2>2, <2>3, <2>4, StartsFresh
<1>3. EndTransaction(t) => Fresh(t, "end", "ask", active, None)
  <2> SUFFICES ASSUME EndTransaction(t)
               PROVE  Fresh(t, "end", "ask", active, None)
    OBVIOUS
  <2> DEFINE v == [Begin("end", active) EXCEPT !.sess = TRUE, !.pc = "ask"]
  <2>1. active \in Conn /\ Starts(t, v)
    BY DEF EndTransaction, TypeOK
  <2>2. Handler(v)
    BY <2>1, BegunHandler
  <2>3. Fields(v, "end", "ask", active, None, TRUE)
    BY BeginFields
  <2>4. TRUE = ("end" \in Batch)
    BY DEF Batch
  <2> HIDE DEF v
  <2> QED
    BY <2>1, <2>2, <2>3, <2>4, StartsFresh
<1>4. ASSUME NEW c \in Conn
      PROVE  /\ OpenTable(t, c) => Fresh(t, "open", "boot", c, None)
             /\ AskAI(t, c) => Fresh(t, "ai", "boot", c, None)
             /\ Ddl(t, c) => Fresh(t, "ddl", "ask", c, None)
             /\ Delete(t, c) => Fresh(t, "delete", "persist", c, target[c])
  <2>0. target[c] \in Target \cup {None}
    BY DEF TypeOK
  <2>1. OpenTable(t, c) => Fresh(t, "open", "boot", c, None)
    <3> SUFFICES ASSUME OpenTable(t, c)
                 PROVE  Fresh(t, "open", "boot", c, None)
      OBVIOUS
    <3> DEFINE v == Begin("open", c)
    <3>1. c \in Conn /\ Starts(t, v)
      BY DEF OpenTable, TypeOK
    <3>2. Handler(v)
      BY <3>1, BegunHandler
    <3>3. Fields(v, "open", "boot", c, None, FALSE)
      BY BeginFields
    <3>4. FALSE = ("open" \in Batch)
      BY DEF Batch
    <3> HIDE DEF v
    <3> QED
      BY <3>1, <3>2, <3>3, <3>4, StartsFresh
  <2>2. AskAI(t, c) => Fresh(t, "ai", "boot", c, None)
    <3> SUFFICES ASSUME AskAI(t, c)
                 PROVE  Fresh(t, "ai", "boot", c, None)
      OBVIOUS
    <3> DEFINE v == Begin("ai", c)
    <3>1. c \in Conn /\ Starts(t, v)
      BY DEF AskAI, TypeOK
    <3>2. Handler(v)
      BY <3>1, BegunHandler
    <3>3. Fields(v, "ai", "boot", c, None, FALSE)
      BY BeginFields
    <3>4. FALSE = ("ai" \in Batch)
      BY DEF Batch
    <3> HIDE DEF v
    <3> QED
      BY <3>1, <3>2, <3>3, <3>4, StartsFresh
  <2>3. Ddl(t, c) => Fresh(t, "ddl", "ask", c, None)
    <3> SUFFICES ASSUME Ddl(t, c)
                 PROVE  Fresh(t, "ddl", "ask", c, None)
      OBVIOUS
    <3> DEFINE v == [Begin("ddl", c) EXCEPT !.pc = "ask", !.node = <<c, "db">>]
    <3>1. c \in Conn /\ Starts(t, v)
      BY DEF Ddl, TypeOK
    <3>2. Handler(v)
      BY <3>1, BegunHandler
    <3>3. Fields(v, "ddl", "ask", c, None, FALSE)
      BY BeginFields
    <3>4. FALSE = ("ddl" \in Batch)
      BY DEF Batch
    <3> HIDE DEF v
    <3> QED
      BY <3>1, <3>2, <3>3, <3>4, StartsFresh
  <2>4. Delete(t, c) => Fresh(t, "delete", "persist", c, target[c])
    <3> SUFFICES ASSUME Delete(t, c)
                 PROVE  Fresh(t, "delete", "persist", c, target[c])
      OBVIOUS
    <3> DEFINE v == [Begin("delete", c) EXCEPT !.pc = "persist", !.via = target[c]]
    <3>1. c \in Conn /\ Starts(t, v)
      BY DEF Delete, TypeOK
    <3>2. Handler(v)
      BY <3>1, BegunHandler, <2>0
    <3>3. Fields(v, "delete", "persist", c, target[c], FALSE)
      BY BeginFields
    <3>4. FALSE = ("delete" \in Batch)
      BY DEF Batch
    <3> HIDE DEF v
    <3> QED
      BY <3>1, <3>2, <3>3, <3>4, StartsFresh
  <2> QED
    BY <2>1, <2>2, <2>3, <2>4
<1>5. ASSUME NEW c \in Conn, NEW via \in Target \cup {None}
      PROVE  /\ Save(t, c, via) => Fresh(t, "save", "persist", c, via)
             /\ Test(t, c, via) => Fresh(t, "test", "boot", c, via)
  <2>1. Save(t, c, via) => Fresh(t, "save", "persist", c, via)
    <3> SUFFICES ASSUME Save(t, c, via)
                 PROVE  Fresh(t, "save", "persist", c, via)
      OBVIOUS
    <3> DEFINE v == [Begin("save", c) EXCEPT !.pc = "persist", !.via = via]
    <3>1. c \in Conn /\ Starts(t, v)
      BY DEF Save, TypeOK
    <3>2. Handler(v)
      BY <3>1, BegunHandler
    <3>3. Fields(v, "save", "persist", c, via, FALSE)
      BY BeginFields
    <3>4. FALSE = ("save" \in Batch)
      BY DEF Batch
    <3> HIDE DEF v
    <3> QED
      BY <3>1, <3>2, <3>3, <3>4, StartsFresh
  <2>2. Test(t, c, via) => Fresh(t, "test", "boot", c, via)
    <3> SUFFICES ASSUME Test(t, c, via)
                 PROVE  Fresh(t, "test", "boot", c, via)
      OBVIOUS
    <3> DEFINE v == [Begin("test", c) EXCEPT !.via = via]
    <3>1. c \in Conn /\ Starts(t, v)
      BY DEF Test, TypeOK
    <3>2. Handler(v)
      BY <3>1, BegunHandler
    <3>3. Fields(v, "test", "boot", c, via, FALSE)
      BY BeginFields
    <3>4. FALSE = ("test" \in Batch)
      BY DEF Batch
    <3> HIDE DEF v
    <3> QED
      BY <3>1, <3>2, <3>3, <3>4, StartsFresh
  <2> QED
    BY <2>1, <2>2
<1>6. ASSUME NEW n \in Node, Starts(t, LoadOf(n))
      PROVE  /\ Fresh(t, "load", LoadOf(n).pc, n[1], None)
             /\ task'[t].node = n
  <2>1. Fields(LoadOf(n), "load", LoadOf(n).pc, n[1], None, FALSE)
    BY LoadFields DEF Fields
  <2>2. FALSE = ("load" \in Batch)
    BY DEF Batch
  <2> DEFINE v == LoadOf(n)
  <2>4. Starts(t, v) /\ Handler(v) /\ Fields(v, "load", v.pc, n[1], None, FALSE)
        /\ n[1] \in Conn
    BY <1>6, <2>1, LoadHandler, LoadFields
  <2> HIDE DEF v
  <2>3. Fresh(t, "load", v.pc, n[1], None) /\ task'[t] = v
    BY <2>2, <2>4, StartsFresh
  <2> QED
    BY <2>3, LoadFields DEF v
<1> QED
  BY <1>1, <1>2, <1>3, <1>4, <1>5, <1>6

(* A click on a connection starts one handler or two.                      *)
LEMMA ClickBegins ==
  ASSUME TaskInv, NEW t \in Task, NEW u \in Task, NEW c \in Conn,
         ClickConnection(t, u, c)
  PROVE  /\ t # u /\ task[t] = Idle /\ task[u] = Idle
         /\ task' = [[task EXCEPT ![t] = task'[t]] EXCEPT ![u] = task'[u]]
         /\ Handler(task'[t]) /\ Handler(task'[u])
         /\ task'[t].kind = "select" /\ task'[t].conn = c
         /\ task'[t].via = None /\ ~task'[t].sess /\ task'[t].pc = "boot"
         /\ \/ /\ task'[u] = Idle
               /\ <<c, "conn">> \in expanded \/ children[<<c, "conn">>] # None
               /\ loading' = loading
            \/ /\ task'[u].kind = "load" /\ task'[u].conn = c
               /\ task'[u].via = None /\ ~task'[u].sess /\ task'[u].pc = "boot"
               /\ task'[u].node = <<c, "conn">>
               /\ loading' = loading \cup {<<c, "conn">>}
<1> DEFINE n == <<c, "conn">>
           loads == n \notin expanded /\ children[n] = None
           load == [Begin("load", c) EXCEPT !.node = n]
<1>1. /\ t # u /\ task[t] = Idle /\ task[u] = Idle
      /\ loading' = IF loads THEN loading \cup {n} ELSE loading
      /\ task' = [task EXCEPT ![t] = Begin("select", c),
                              ![u] = IF loads THEN load ELSE @]
  BY DEF ClickConnection
<1>2. /\ task'[t] = Begin("select", c)
      /\ task'[u] = IF loads THEN load ELSE Idle
      /\ task' = [[task EXCEPT ![t] = task'[t]] EXCEPT ![u] = task'[u]]
  BY <1>1 DEF TaskInv
<1>3. n \in Node /\ n[1] = c
  BY DEF Node
<1>4. Handler(Begin("select", c)) /\ Handler(load)
  BY <1>3, BegunHandler
<1>5. /\ Begin("select", c).kind = "select" /\ Begin("select", c).conn = c
      /\ Begin("select", c).via = None /\ ~Begin("select", c).sess
      /\ Begin("select", c).pc = "boot"
      /\ load.kind = "load" /\ load.conn = c /\ load.via = None /\ ~load.sess
      /\ load.pc = "boot" /\ load.node = n
  BY DEF Begin, Idle
<1> HIDE DEF n, load
<1> QED
  BY <1>1, <1>2, <1>4, <1>5, IdleHandler DEF n

(* The end of a deletion, and the death of the helper.                     *)
LEMMA CleanupMoves ==
  ASSUME TaskInv, NEW t \in Task, Cleanup(t)
  PROVE  /\ task' \in [Task -> TaskRec]
         /\ \A u \in Task :
              /\ Handler(task'[u])
              /\ u = t => task'[u] = Idle
              /\ u # t => /\ task'[u].kind = task[u].kind
                          /\ task'[u].pc = task[u].pc
                          /\ task'[u].conn = task[u].conn
                          /\ task'[u].node = task[u].node
                          /\ task'[u].via = task[u].via
                          /\ task'[u].got = task[u].got
                          /\ task'[u].sess =
                               (task[u].sess /\ task[u].conn # task[t].conn)
<1>1. ASSUME NEW u \in Task
      PROVE  task'[u] = IF u = t THEN Idle
                        ELSE IF task[u].conn = task[t].conn
                        THEN [task[u] EXCEPT !.sess = FALSE] ELSE task[u]
  BY DEF Cleanup
<1>2. ASSUME NEW u \in Task, u # t
      PROVE  /\ task'[u].kind = task[u].kind
             /\ task'[u].pc = task[u].pc
             /\ task'[u].conn = task[u].conn
             /\ task'[u].node = task[u].node
             /\ task'[u].via = task[u].via
             /\ task'[u].got = task[u].got
             /\ task'[u].sess = (task[u].sess /\ task[u].conn # task[t].conn)
             /\ Handler(task'[u])
  <2>1. Handler(task[u]) /\ task[u] \in TaskRec
    BY DEF TaskInv
  <2>2. CASE task[u].conn # task[t].conn
    BY <1>1, <1>2, <2>1, <2>2 DEF TaskRec
  <2>3. CASE task[u].conn = task[t].conn
    <3>1. task'[u] = [task[u] EXCEPT !.sess = FALSE]
      BY <1>1, <1>2, <2>3
    <3>2. task'[u] \in TaskRec
      BY <2>1, <3>1 DEF TaskRec
    <3>3. /\ task'[u].kind = task[u].kind
          /\ task'[u].pc = task[u].pc
          /\ task'[u].conn = task[u].conn
          /\ task'[u].node = task[u].node
          /\ task'[u].via = task[u].via
          /\ task'[u].got = task[u].got
          /\ task'[u].sess = FALSE
      BY <2>1, <3>1 DEF TaskRec
    <3>4. task[t].conn \in Conn
      BY DEF Cleanup, TaskInv, Handler
    <3>5. task[u].pc # "idle"
      BY <2>1, <2>3, <3>4, WorkbenchAssumption DEF Handler, Idle
    <3> QED
      BY <2>1, <2>3, <3>2, <3>3, <3>5 DEF Handler
  <2> QED
    BY <2>2, <2>3
<1>3. task' = [u \in Task |-> task'[u]]
  BY DEF Cleanup
<1>4. \A u \in Task : Handler(task'[u]) /\ (u = t => task'[u] = Idle)
  BY <1>1, <1>2, IdleHandler
<1> QED
  BY <1>2, <1>3, <1>4 DEF Handler

LEMMA HelperDiesMoves ==
  ASSUME TaskInv, HelperDies
  PROVE  /\ task' \in [Task -> TaskRec]
         /\ \A u \in Task :
              /\ Handler(task'[u])
              /\ task'[u].kind = task[u].kind /\ task'[u].conn = task[u].conn
              /\ task'[u].node = task[u].node /\ task'[u].via = task[u].via
              /\ task'[u].sess = task[u].sess /\ task'[u].got = task[u].got
              /\ task'[u].pc = IF task[u].pc = "exec" THEN "ask" ELSE task[u].pc
<1>1. \A u \in Task : task'[u] = IF task[u].pc = "exec"
                                THEN [task[u] EXCEPT !.pc = "ask"] ELSE task[u]
  BY DEF HelperDies
<1>2. ASSUME NEW u \in Task
      PROVE  /\ Handler(task'[u])
             /\ task'[u].kind = task[u].kind /\ task'[u].conn = task[u].conn
             /\ task'[u].node = task[u].node /\ task'[u].via = task[u].via
             /\ task'[u].sess = task[u].sess /\ task'[u].got = task[u].got
             /\ task'[u].pc = IF task[u].pc = "exec" THEN "ask" ELSE task[u].pc
  <2>1. Handler(task[u]) /\ task[u] \in TaskRec
    BY DEF TaskInv
  <2>2. CASE task[u].pc = "exec"
    <3>1. task'[u] = [task[u] EXCEPT !.pc = "ask"]
      BY <1>1, <2>2
    <3>2. task'[u] \in TaskRec
      BY <2>1, <3>1 DEF TaskRec
    <3>3. /\ task'[u].kind = task[u].kind /\ task'[u].conn = task[u].conn
          /\ task'[u].node = task[u].node /\ task'[u].via = task[u].via
          /\ task'[u].sess = task[u].sess /\ task'[u].got = task[u].got
          /\ task'[u].pc = "ask"
      BY <2>1, <3>1 DEF TaskRec
    <3>4. Placed(task[u].kind, "ask")
      BY <2>1, <2>2 DEF Handler, Placed, Road, Batch
    <3> QED
      BY <2>1, <2>2, <3>2, <3>3, <3>4 DEF Handler
  <2>3. CASE task[u].pc # "exec"
    BY <1>1, <2>1, <2>3
  <2> QED
    BY <2>2, <2>3
<1>3. task' = [u \in Task |-> task'[u]]
  BY DEF HelperDies
<1> QED
  BY <1>2, <1>3 DEF Handler

(* Handlers stay in their places.                                          *)
LEMMA TaskKept ==
  ASSUME TypeOK, TaskInv, [Next]_vars
  PROVE  TaskInv'
<1>1. ASSUME NEW t \in Task, Moves(t) \/ Begun(t)
      PROVE  TaskInv'
  BY <1>1, OneKept DEF Moves, Begun
<1>2. ASSUME NEW t \in Task, NEW u \in Task, NEW c \in Conn,
             ClickConnection(t, u, c)
      PROVE  TaskInv'
  <2>1. /\ task' = [[task EXCEPT ![t] = task'[t]] EXCEPT ![u] = task'[u]]
        /\ Handler(task'[t]) /\ Handler(task'[u])
    BY <1>2, ClickBegins
  <2> QED
    BY <2>1 DEF TaskInv, Handler
<1>3. ASSUME NEW t \in Task, Cleanup(t)
      PROVE  TaskInv'
  BY <1>3, CleanupMoves DEF TaskInv
<1>4. CASE HelperDies
  BY <1>4, HelperDiesMoves DEF TaskInv
<1>5. ASSUME UNCHANGED task
      PROVE  TaskInv'
  BY <1>5 DEF TaskInv
<1>6. ASSUME NEW t \in Task, TaskStep(t)
      PROVE  TaskInv'
  BY <1>1, <1>3, <1>6, TaskStepMoves
<1>7. ASSUME NEW t \in Task, User(t)
      PROVE  TaskInv'
  BY <1>1, <1>2, <1>5, <1>7, UserBegins
<1> QED
  BY <1>4, <1>5, <1>6, <1>7
     DEF Next, Collapse, TxnLost, CatalogMoves, ReloadTree, vars
-----------------------------------------------------------------------------
(* The window's sessions, and every variable's type.                       *)

(* A batch that has its session finds it where it left it.                 *)
SessInv == \A t \in Task : task[t].sess => session[task[t].conn] # None

(* A step that drops no session.                                           *)
SessionGrows ==
  /\ session' \in [Conn -> Session \cup {None}]
  /\ \A c \in Conn : session[c] # None => session'[c] # None

LEMMA SetSession ==
  ASSUME session \in [Conn -> Session \cup {None}], NEW c \in Conn,
         NEW s \in Session, session' = [session EXCEPT ![c] = s]
  PROVE  SessionGrows /\ session'[c] # None
BY SessionAssumption DEF SessionGrows

LEMMA EnsureGrows ==
  ASSUME TypeOK, NEW c \in Conn, session' = EnsureSession(c)
  PROVE  SessionGrows /\ session'[c] # None
<1>1. NewSession \in Session
  BY DEF NewSession, Session
<1> QED
  BY <1>1, SetSession DEF TypeOK, EnsureSession, SessionGrows

LEMMA FailGrows ==
  ASSUME TypeOK, TaskInv, SessInv, NEW t \in Task, Fail(t)
  PROVE  SessionGrows
<1>1. CASE task[t].kind = "run" /\ task[t].sess
  <2> DEFINE c == task[t].conn
             s == [session[c] EXCEPT !.request = None]
  <2>1. c \in Conn /\ session[c] \in Session
    <3>1. task[t].pc # "idle"
      BY <1>1 DEF TaskInv, Handler, Idle
    <3>2. c \in Conn
      BY <3>1 DEF TaskInv, Handler
    <3> QED
      BY <1>1, <3>2 DEF SessInv, TypeOK
  <2>2. session' = [session EXCEPT ![c] = s]
    BY <1>1 DEF Fail
  <2>3. s \in Session
    BY <2>1 DEF Session
  <2> HIDE DEF s, c
  <2> QED
    BY <2>1, <2>2, <2>3, SetSession DEF TypeOK
<1>2. CASE ~(task[t].kind = "run" /\ task[t].sess)
  BY <1>2 DEF Fail, SessionGrows, TypeOK
<1> QED
  BY <1>1, <1>2

LEMMA StepGrows ==
  ASSUME TypeOK, TaskInv, SessInv, NEW t \in Task,
         (TaskStep(t) /\ ~Cleanup(t)) \/ User(t)
  PROVE  SessionGrows
<1> DEFINE v == task[t]
           c == task[t].conn
<1>0. /\ Handler(v) /\ v \in TaskRec
      /\ session \in [Conn -> Session \cup {None}]
      /\ v.pc # "idle" => c \in Conn
  BY DEF TaskInv, TypeOK, Handler
<1>1. UNCHANGED session => SessionGrows
  BY <1>0 DEF SessionGrows
<1>2. ASSUME v.sess, v.pc # "idle"
      PROVE  c \in Conn /\ session[c] \in Session
  BY <1>0, <1>2 DEF SessInv
<1>3. CASE Booted(t)
  <2>1. c \in Conn
    BY <1>0, <1>3 DEF Booted
  <2>2. CASE session' = [session EXCEPT ![c].request = t] /\ v.sess
    <3>1. session[c] \in Session
      BY <1>2, <1>3, <2>2 DEF Booted
    <3> DEFINE s == [session[c] EXCEPT !.request = t]
    <3>2. s \in Session
      BY <3>1 DEF Session
    <3>3. session' = [session EXCEPT ![c] = s]
      BY <2>2
    <3> HIDE DEF s
    <3> QED
      BY <1>0, <2>1, <3>2, <3>3, SetSession
  <2>3. \/ UNCHANGED session \/ Fail(t) \/ session' = EnsureSession(c)
        \/ session' = [session EXCEPT ![c].request = t] /\ v.sess
    BY <1>3 DEF Booted, Gone
  <2> HIDE DEF v, c
  <2> QED
    BY <1>1, <2>1, <2>2, <2>3, EnsureGrows, FailGrows
<1>4. CASE Listed(t)
  <2>1. c \in Conn
    BY <1>0, <1>4 DEF Listed
  <2>2. UNCHANGED session \/ Fail(t) \/ session' = EnsureSession(c)
    BY <1>4 DEF Listed, Gone
  <2> QED
    BY <1>1, <2>1, <2>2, EnsureGrows, FailGrows
<1>5. CASE Opened(t)
  <2>1. c \in Conn
    BY <1>0, <1>5 DEF Opened
  <2>2. CASE session' = [session EXCEPT ![c].bar = FALSE] /\ session[c] # None
    <3> DEFINE s == [session[c] EXCEPT !.bar = FALSE]
    <3>1. session[c] \in Session
      BY <1>0, <2>1, <2>2
    <3>2. s \in Session
      BY <3>1 DEF Session
    <3>3. session' = [session EXCEPT ![c] = s]
      BY <2>2
    <3> HIDE DEF s
    <3> QED
      BY <1>0, <2>1, <3>2, <3>3, SetSession
  <2>3. \/ UNCHANGED session \/ session' = EnsureSession(c)
        \/ session' = [session EXCEPT ![c].bar = FALSE] /\ session[c] # None
    BY <1>5 DEF Opened, BarAfterConnect
  <2> QED
    BY <1>1, <2>1, <2>2, <2>3, EnsureGrows
<1>6. CASE BatchLands(t)
  <2>1. v.pc = "answer" /\ v.kind \in Batch /\ v.got \in BOOLEAN
    BY <1>0, <1>6 DEF BatchLands, Handler, Batch
  <2>2. CASE v.sess
    <3> DEFINE r == IF v.kind = "run" THEN None ELSE session[c].request
               s == [session[c] EXCEPT !.bar = v.got, !.request = r]
    <3>1. c \in Conn /\ session[c] \in Session
      BY <1>2, <2>1, <2>2
    <3>2. r \in Task \cup {None}
      BY <3>1 DEF Session
    <3>3. s \in Session
      BY <2>1, <3>1, <3>2 DEF Session
    <3>4. session' = [session EXCEPT ![c] = s]
      BY <1>6, <2>2, <3>1 DEF BatchLands, Session
    <3> HIDE DEF s
    <3> QED
      BY <1>0, <3>1, <3>3, <3>4, SetSession
  <2>3. CASE ~v.sess
    BY <1>1, <1>6, <2>3 DEF BatchLands
  <2> QED
    BY <2>2, <2>3
<1>7. CASE BootFails(t) \/ AskFails(t) \/ ExecFails(t)
  BY <1>7, FailGrows DEF BootFails, AskFails, ExecFails
<1>8. CASE AttemptFails(t) \/ NotFound(t)
  BY <1>1, <1>8, FailGrows DEF AttemptFails, NotFound
<1>9. CASE \/ SecretRead(t) \/ Slept(t) \/ Forward(t) \/ Connect(t)
           \/ Persisted(t) \/ Disconnect(t) \/ ReleaseTunnel(t) \/ Ask(t)
           \/ Executed(t) \/ LoadLands(t) \/ DdlLands(t) \/ ToolLands(t)
  <2>1. UNCHANGED session
    BY <1>9 DEF SecretRead, Slept, Attempt, Forward, Connect, Persisted,
       Disconnect, ReleaseTunnel, Ask, Executed, LoadLands, DdlLands, ToolLands
  <2> QED
    BY <1>1, <2>1
<1>10. CASE User(t)
  <2>1. CASE Run(t)
    BY <2>1, EnsureGrows DEF Run, TypeOK
  <2>2. CASE ~Run(t)
    <3>1. UNCHANGED session
      BY <1>10, <2>2 DEF User, Pane, Mount, EndTransaction, Sidebar,
         ClickConnection, OpenTable, Delete, Expand, Menu, Refresh, Ddl, Dialog,
         Save, Test, AskAI
    <3> QED
      BY <1>1, <3>1
  <2> QED
    BY <2>1, <2>2
<1> QED
  BY <1>3, <1>4, <1>5, <1>6, <1>7, <1>8, <1>9, <1>10 DEF TaskStep
LEMMA SessKept ==
  ASSUME TypeOK, TaskInv, SessInv, [Next]_vars
  PROVE  SessInv'
<1>1. ASSUME SessionGrows, NEW t \in Task,
             task' = [task EXCEPT ![t] = task'[t]],
             task'[t].sess =>
               \/ task[t].sess /\ task'[t].conn = task[t].conn
               \/ session'[task'[t].conn] # None
      PROVE  SessInv'
  <2> SUFFICES ASSUME NEW u \in Task, task'[u].sess
               PROVE  session'[task'[u].conn] # None
    BY DEF SessInv
  <2>1. u # t => task'[u] = task[u]
    BY <1>1 DEF TaskInv
  <2>2. \A w \in Task : task[w].sess =>
          task[w].conn \in Conn /\ session'[task[w].conn] # None
    <3> TAKE w \in Task
    <3> SUFFICES ASSUME task[w].sess
                 PROVE  task[w].conn \in Conn /\ session'[task[w].conn] # None
      OBVIOUS
    <3>1. Handler(task[w]) /\ task[w].pc # "idle"
      BY DEF TaskInv, Handler, Idle
    <3> QED
      BY <1>1, <3>1 DEF SessionGrows, SessInv, Handler
  <2> QED
    BY <1>1, <2>1, <2>2
<1>2. ASSUME NEW t \in Task, TaskStep(t) \/ User(t), ~Cleanup(t)
      PROVE  SessionGrows
  BY <1>2, StepGrows
<1>3. ASSUME NEW t \in Task, TaskStep(t), ~Cleanup(t)
      PROVE  SessInv'
  <2>1. Moves(t) /\ SessionGrows
    BY <1>2, <1>3, TaskStepMoves
  <2>2. /\ ~Idle.sess
        /\ task'[t] = LoadOf(task[t].node) => ~task'[t].sess
    BY DEF Idle, LoadOf, Begin
  <2> QED
    BY <1>1, <2>1, <2>2 DEF Moves
<1>4. ASSUME NEW t \in Task, Cleanup(t)
      PROVE  SessInv'
  <2>1. session' = [session EXCEPT ![task[t].conn] = None]
    BY <1>4 DEF Cleanup
  <2> SUFFICES ASSUME NEW u \in Task, task'[u].sess
               PROVE  session'[task'[u].conn] # None
    BY DEF SessInv
  <2>4. u # t
    BY <1>4, CleanupMoves, IdleFields
  <2>5. /\ task'[u].conn = task[u].conn
        /\ task'[u].sess = (task[u].sess /\ task[u].conn # task[t].conn)
    BY <1>4, <2>4, CleanupMoves
  <2>2. /\ task[u].sess /\ task'[u].conn = task[u].conn
        /\ task[u].conn # task[t].conn
    BY <2>5
  <2>3. Handler(task[u]) /\ task[u].pc # "idle"
    BY <2>2 DEF TaskInv, Handler, Idle
  <2> QED
    BY <2>1, <2>2, <2>3 DEF SessInv, TypeOK, Handler
<1>5. ASSUME NEW t \in Task, User(t)
      PROVE  SessInv'
  <2>0. SessionGrows
    BY <1>5, StepGrows
  <2>1. ASSUME NEW k, NEW pc, NEW c, NEW via, Fresh(t, k, pc, c, via),
               k \in Batch => session'[c] # None
        PROVE  SessInv'
    <3>1. /\ task' = [task EXCEPT ![t] = task'[t]]
          /\ task'[t].sess => session'[task'[t].conn] # None
      BY <2>1 DEF Fresh, Begun
    <3> QED
      BY <1>1, <2>0, <3>1
  <2>2. CASE Run(t) \/ EndTransaction(t)
    <3>1. session'[active] # None
      BY <2>2, EnsureGrows DEF Run, EndTransaction, TypeOK
    <3> QED
      BY <2>1, <2>2, <3>1, UserStarts
  <2>3. CASE Mount(t)
    BY <2>1, <2>3, UserStarts DEF Batch
  <2>4. ASSUME NEW c \in Conn,
               OpenTable(t, c) \/ AskAI(t, c) \/ Ddl(t, c) \/ Delete(t, c)
        PROVE  SessInv'
    BY <2>1, <2>4, UserStarts DEF Batch
  <2>5. ASSUME NEW c \in Conn, NEW via \in Target \cup {None},
               Save(t, c, via) \/ Test(t, c, via)
        PROVE  SessInv'
    BY <2>1, <2>5, UserStarts DEF Batch
  <2>6. ASSUME UNCHANGED <<task, session>>
        PROVE  SessInv'
    BY <2>6 DEF SessInv
  <2>7. ASSUME NEW n \in Node, Expand(t, n) \/ Refresh(t, n)
        PROVE  SessInv'
    <3>1. \/ UNCHANGED <<task, session>>
          \/ Starts(t, LoadOf(n))
      BY <2>7 DEF Expand, Refresh
    <3> QED
      BY <2>1, <2>6, <3>1, UserStarts DEF Batch
  <2>8. ASSUME NEW c \in Conn, NEW u \in Task, ClickConnection(t, u, c)
        PROVE  SessInv'
    <3>1. /\ UNCHANGED session
          /\ \A w \in Task : task'[w].sess =>
               task[w].sess /\ task'[w].conn = task[w].conn
      <4>1. /\ task' = [[task EXCEPT ![t] = task'[t]] EXCEPT ![u] = task'[u]]
            /\ ~task'[t].sess /\ ~task'[u].sess
        BY <2>8, ClickBegins, IdleFields
      <4> QED
        BY <2>8, <4>1 DEF ClickConnection, TaskInv
    <3> QED
      BY <3>1 DEF SessInv
  <2> QED
    BY <1>5, <2>2, <2>3, <2>4, <2>5, <2>7, <2>8
       DEF User, Pane, Sidebar, Menu, Dialog
<1>6. CASE HelperDies
  BY <1>6, HelperDiesMoves DEF HelperDies, SessInv
<1>7. ASSUME UNCHANGED <<task, session>>
      PROVE  SessInv'
  BY <1>7 DEF SessInv
<1> QED
  BY <1>3, <1>4, <1>5, <1>6, <1>7
     DEF Next, Collapse, TxnLost, CatalogMoves, ReloadTree, vars
LEMMA TypeKept ==
  ASSUME TypeOK, TaskInv, SessInv, [Next]_vars
  PROVE  TypeOK'
<1> DEFINE Tree == /\ expanded' \cup loading' \subseteq Node
                   /\ children' \in [Node -> Nat \cup {None}]
           Notes == late' \subseteq Node /\ due' \in [Node -> Nat]
           Conns == /\ saved' \subseteq Conn
                    /\ target' \in [Conn -> Target \cup {None}]
                    /\ active' \in Conn \cup {None}
           Helper == /\ open' \in [Conn -> Target \cup {None, Closed}]
                     /\ txn' \in [Conn -> BOOLEAN]
                     /\ busy' \in [Conn -> Task \cup {None}]
                     /\ cat' \in [Conn -> Nat]
           Sessions == session' \in [Conn -> Session \cup {None}]
           Forwards == forwards' \subseteq Target
<1>1. /\ UNCHANGED tree => Tree
      /\ UNCHANGED <<late, due>> => Notes
      /\ UNCHANGED conns => Conns
      /\ UNCHANGED helper => Helper
      /\ UNCHANGED session => Sessions
      /\ UNCHANGED forwards => Forwards
  BY DEF TypeOK, tree, conns, helper
<1>2. Tree /\ Notes /\ Conns /\ Helper /\ Sessions /\ Forwards => TypeOK'
  BY DEF TypeOK
<1>3. \A t \in Task : (TaskStep(t) /\ ~Cleanup(t)) \/ User(t) => Sessions
  BY StepGrows DEF SessionGrows
<1>4. \A t \in Task : Handler(task[t])
  BY DEF TaskInv
<1>5. ASSUME NEW ns, Noted(ns)
      PROVE  Notes
  <2>1. \A n \in Node : cat[n[1]] \in Nat
    BY DEF TypeOK, Node
  <2> QED
    BY <1>5, <2>1 DEF Noted, TypeOK
<1>6. ASSUME NEW t \in Task, Fail(t)
      PROVE  Tree
  BY <1>6 DEF Fail, TypeOK, tree
<1> HIDE DEF Notes, Sessions
<1>7. ASSUME NEW t \in Task,
             \/ Booted(t) \/ BootFails(t) \/ Listed(t) \/ SecretRead(t)
             \/ Slept(t) \/ Forward(t) \/ AttemptFails(t) \/ Persisted(t)
             \/ ReleaseTunnel(t) \/ NotFound(t) \/ AskFails(t) \/ BatchLands(t)
             \/ ToolLands(t)
      PROVE  TypeOK'
  <2>1. Sessions
    BY <1>3, <1>7 DEF TaskStep, Cleanup, ReleaseTunnel, Booted, BootFails,
       Listed, SecretRead, Slept, Forward, AttemptFails, Persisted, NotFound,
       AskFails, BatchLands, ToolLands
  <2>2. Tree
    <3>1. Fail(t) \/ UNCHANGED tree
      BY <1>7 DEF Booted, BootFails, Listed, SecretRead, Slept, Attempt,
         Forward, AttemptFails, Persisted, ReleaseTunnel, NotFound, AskFails,
         BatchLands, ToolLands, Gone
    <3> QED
      BY <1>1, <1>6, <3>1
  <2>3. /\ UNCHANGED <<conns, helper, late, due>>
        /\ \/ UNCHANGED forwards
           \/ forwards' = forwards \cup ({task[t].via} \ {None})
           \/ forwards' \subseteq forwards
    BY <1>7 DEF Booted, BootFails, Listed, SecretRead, Slept, Attempt, Forward,
       AttemptFails, Persisted, ReleaseTunnel, NotFound, AskFails, BatchLands,
       ToolLands, hist, marks
  <2>4. task[t].via \in Target \cup {None}
    BY <1>4 DEF Handler, TaskRec
  <2>5. Forwards
    BY <2>3, <2>4 DEF TypeOK
  <2>6. Notes /\ Conns /\ Helper
    BY <1>1, <2>3
  <2> QED
    BY <1>2, <2>1, <2>2, <2>5, <2>6
<1>8. ASSUME NEW t \in Task, Connect(t) \/ Disconnect(t) \/ Ask(t) \/ Executed(t)
      PROVE  TypeOK'
  <2>1. /\ task[t].conn \in Conn /\ task[t].via \in Target \cup {None}
        /\ UNCHANGED <<session, tree, conns, late, due, forwards>>
    BY <1>4, <1>8 DEF Handler, TaskRec, Connect, Disconnect, Ask, Executed, hist, marks
  <2>2. CASE Connect(t) \/ Disconnect(t)
    <3>1. \/ UNCHANGED helper
          \/ /\ open' = [open EXCEPT ![task[t].conn] = task[t].via]
             /\ txn' = [txn EXCEPT ![task[t].conn] = FALSE]
             /\ busy' = [busy EXCEPT ![task[t].conn] = None]
             /\ UNCHANGED cat
          \/ /\ open' = [open EXCEPT ![task[t].conn] = Closed]
             /\ txn' = [txn EXCEPT ![task[t].conn] = FALSE]
             /\ busy' = [busy EXCEPT ![task[t].conn] = None]
             /\ UNCHANGED cat
      BY <2>2 DEF Connect, Disconnect
    <3>2. Helper
      BY <1>1, <2>1, <3>1 DEF TypeOK
    <3> QED
      BY <1>1, <1>2, <2>1, <3>2
  <2>3. CASE Ask(t)
    <3>1. /\ UNCHANGED <<open, txn>>
          /\ busy' = busy \/ busy' = [busy EXCEPT ![task[t].conn] = t]
          /\ \/ cat' = cat
             \/ cat' = [cat EXCEPT ![task[t].conn] = @ + 1]
      BY <2>3 DEF Ask
    <3>2. cat[task[t].conn] + 1 \in Nat
      BY <2>1 DEF TypeOK
    <3>3. Helper
      BY <2>1, <3>1, <3>2 DEF TypeOK
    <3> QED
      BY <1>1, <1>2, <2>1, <3>3
  <2>4. CASE Executed(t)
    <3>1. /\ UNCHANGED <<open, cat>>
          /\ \/ UNCHANGED <<txn, busy>>
             \/ /\ \E b \in BOOLEAN : txn' = [txn EXCEPT ![task[t].conn] = b]
                /\ busy' = [busy EXCEPT ![task[t].conn] = None]
      BY <2>4 DEF Executed
    <3>2. Helper
      BY <2>1, <3>1 DEF TypeOK
    <3> QED
      BY <1>1, <1>2, <2>1, <3>2
  <2> QED
    BY <1>8, <2>2, <2>3, <2>4
<1>9. ASSUME NEW t \in Task, Opened(t) \/ Cleanup(t)
      PROVE  TypeOK'
  <2>1. /\ task[t].conn \in Conn
        /\ UNCHANGED <<tree, saved, target, helper, late, due, forwards>>
        /\ active' \in {active, task[t].conn, None}
    BY <1>4, <1>9 DEF Handler, Opened, Cleanup, hist, marks
  <2>2. Conns
    BY <2>1 DEF TypeOK
  <2>3. Sessions
    <3>1. CASE Cleanup(t)
      BY <2>1, <3>1 DEF Cleanup, Sessions, TypeOK
    <3>2. CASE ~Cleanup(t)
      BY <1>3, <1>9, <3>2 DEF TaskStep
    <3> QED
      BY <3>1, <3>2
  <2> QED
    BY <1>1, <1>2, <2>1, <2>2, <2>3
<1>10. ASSUME NEW t \in Task, ExecFails(t)
       PROVE  TypeOK'
  <2>1. /\ UNCHANGED <<conns, forwards, late, due, open, cat>> /\ Fail(t)
        /\ \/ UNCHANGED <<txn, busy>>
           \/ /\ txn' = [txn EXCEPT ![task[t].conn] = FALSE]
              /\ busy' = [busy EXCEPT ![task[t].conn] = None]
    BY <1>10 DEF ExecFails
  <2>2. Helper
    BY <2>1 DEF TypeOK
  <2>3. Sessions
    BY <2>1, FailGrows DEF SessionGrows, Sessions
  <2> QED
    BY <1>1, <1>2, <1>6, <2>1, <2>2, <2>3
<1>11. ASSUME NEW t \in Task, LoadLands(t) \/ DdlLands(t)
       PROVE  TypeOK'
  <2>1. /\ task[t].node \in Node /\ (LoadLands(t) => task[t].got \in Nat)
    BY <1>4, <1>11 DEF Handler, LoadLands, DdlLands, Batch
  <2>2. /\ UNCHANGED <<session, conns, helper, forwards, expanded>>
        /\ \/ UNCHANGED <<late, due>>
           \/ Noted({task[t].node})
        /\ loading' \subseteq loading \cup {task[t].node}
        /\ \/ children' = [children EXCEPT ![task[t].node] = task[t].got]
              /\ LoadLands(t)
           \/ children' = [children EXCEPT ![task[t].node] = None]
    BY <1>11 DEF LoadLands, DdlLands, hist, marks
  <2>3. Tree
    BY <2>1, <2>2 DEF TypeOK
  <2>4. Notes
    BY <1>1, <1>5, <2>2
  <2> QED
    BY <1>1, <1>2, <2>2, <2>3, <2>4
<1>12. ASSUME NEW t \in Task,
              Pane(t) \/ Dialog(t) \/ \E c \in Conn : \/ OpenTable(t, c)
                 \/ Delete(t, c) \/ Ddl(t, c) \/ AskAI(t, c)
       PROVE  TypeOK'
  <2>1. Sessions
    BY <1>3, <1>12 DEF User, Sidebar, Menu
  <2>2. /\ UNCHANGED <<tree, helper, late, due, forwards>>
        /\ saved' \subseteq Conn
        /\ \/ target' = target
           \/ \E c \in Conn, via \in Target \cup {None} :
                target' = [target EXCEPT ![c] = via]
        /\ active' \in Conn \cup {active}
    BY <1>12 DEF Pane, Mount, Run, EndTransaction, Dialog, Save, Test, OpenTable,
       Delete, Ddl, AskAI, conns, marks, TypeOK
  <2>3. Conns
    BY <2>2 DEF TypeOK
  <2> QED
    BY <1>1, <1>2, <2>1, <2>2, <2>3
<1>13. ASSUME NEW t \in Task, NEW n \in Node, Expand(t, n) \/ Refresh(t, n)
       PROVE  TypeOK'
  <2>1. /\ UNCHANGED <<session, conns, helper, forwards>>
        /\ UNCHANGED <<late, due>> \/ Noted({n})
        /\ expanded' \subseteq expanded \cup {n}
        /\ loading' \subseteq loading \cup {n}
        /\ children' = children \/ children' = [children EXCEPT ![n] = None]
    BY <1>13 DEF Expand, Refresh, marks
  <2>2. Tree
    BY <2>1 DEF TypeOK
  <2> QED
    BY <1>1, <1>2, <1>5, <2>1, <2>2
<1>14. ASSUME NEW t \in Task, NEW u \in Task, NEW c \in Conn,
              ClickConnection(t, u, c)
       PROVE  TypeOK'
  <2>1. /\ UNCHANGED <<session, saved, target, helper, forwards, late, due, children>>
        /\ active' = c
        /\ expanded' = expanded \cup {<<c, "conn">>}
        /\ loading' \subseteq loading \cup {<<c, "conn">>}
    BY <1>14 DEF ClickConnection, hist, marks
  <2>2. Tree
    BY <2>1 DEF TypeOK, Node
  <2>3. Conns
    BY <2>1 DEF TypeOK
  <2> QED
    BY <1>1, <1>2, <2>1, <2>2, <2>3
<1>15. ASSUME NEW t \in Task, TaskStep(t) \/ User(t)
       PROVE  TypeOK'
  BY <1>7, <1>8, <1>9, <1>10, <1>11, <1>12, <1>13, <1>14, <1>15
     DEF TaskStep, User, Sidebar, Menu, Pane
<1>16. CASE ReloadTree \/ \E n \in Node : Collapse(n)
  <2>1. /\ UNCHANGED <<session, conns, helper, forwards>>
        /\ UNCHANGED <<late, due>> \/ Noted(Node)
        /\ expanded' \subseteq expanded /\ loading' \subseteq loading
        /\ children' = children \/ children' = [n \in Node |-> None]
    BY <1>16 DEF ReloadTree, Collapse, hist, marks
  <2>2. Tree
    BY <2>1 DEF TypeOK
  <2> QED
    BY <1>1, <1>2, <1>5, <2>1, <2>2
<1>17. CASE HelperDies \/ \E c \in Conn : TxnLost(c) \/ CatalogMoves(c)
  <2>1. UNCHANGED <<session, conns, forwards, late, due, tree>>
    BY <1>17 DEF HelperDies, TxnLost, CatalogMoves, hist, marks
  <2>2. Helper
    <3>1. CASE HelperDies
      BY <3>1 DEF HelperDies, TypeOK
    <3>2. ASSUME NEW c \in Conn, TxnLost(c)
          PROVE  Helper
      BY <3>2 DEF TxnLost, TypeOK
    <3>3. ASSUME NEW c \in Conn, CatalogMoves(c)
          PROVE  Helper
      <4>1. cat[c] + 1 \in Nat
        BY DEF TypeOK
      <4> QED
        BY <3>3, <4>1 DEF CatalogMoves, TypeOK
    <3> QED
      BY <1>17, <3>1, <3>2, <3>3
  <2> QED
    BY <1>1, <1>2, <2>1, <2>2
<1>18. CASE UNCHANGED vars
  BY <1>1, <1>2, <1>18 DEF vars, hist, marks
<1> QED
  BY <1>15, <1>16, <1>17, <1>18 DEF Next

(* Every variable keeps its type: in particular the bar shows a flag, the  *)
(* tree a version of the catalog, and no answer of one kind is taken for   *)
(* another's.                                                              *)
THEOREM WorkbenchTyped == Spec => []TypeOK
<1>1. Init => TypeOK /\ TaskInv /\ SessInv
  <2> SUFFICES ASSUME Init
               PROVE  TypeOK /\ TaskInv /\ SessInv
    OBVIOUS
  <2>1. TypeOK
    BY WorkbenchAssumption DEF Init, TypeOK
  <2>2. TaskInv /\ SessInv
    BY IdleHandler, IdleFields DEF Init, TaskInv, SessInv, Handler
  <2> QED
    BY <2>1, <2>2
<1>2. TypeOK /\ TaskInv /\ SessInv /\ [Next]_vars
        => TypeOK' /\ TaskInv' /\ SessInv'
  BY TypeKept, TaskKept, SessKept
<1> QED
  BY <1>1, <1>2, PTL DEF Spec
-----------------------------------------------------------------------------
(* Stop.  Two runs of a connection were started beside each other.         *)

StopInv ==
  /\ StopNamesTheRun
  /\ \A t, u \in Task : /\ task[t].kind = "run" /\ task[u].kind = "run"
                        /\ task[t].conn = task[u].conn /\ t # u
                        => task[t].conn \in doubled

(* What a step does to the ids that Stop would name.                       *)
Named(d, new) == \A c \in Conn : Cancelled(c)' = IF c = d THEN new ELSE Cancelled(c)
NamesKept == \A c \in Conn : Cancelled(c)' = Cancelled(c)
Sent(t) == task[t].kind = "run" /\ task[t].sess

StepCancels(t) ==
  \/ /\ NamesKept
     /\ Sent(t) => /\ task'[t] # Idle
                   /\ (task[t].pc = "boot") <=> (task'[t].pc = "boot")
  \/ Sent(t) /\ task'[t] = Idle /\ Named(task[t].conn, None)
  \/ Sent(t) /\ task'[t].pc # "boot" /\ task'[t] # Idle /\ Named(task[t].conn, t)

LEMMA EnsureNames ==
  ASSUME TypeOK, NEW c \in Conn, session' = EnsureSession(c)
  PROVE  NamesKept
BY DEF NamesKept, Cancelled, EnsureSession, NewSession, TypeOK

LEMMA FailCancels ==
  ASSUME TypeOK, TaskInv, SessInv, NEW t \in Task, Fail(t)
  PROVE  StepCancels(t)
<1>0. task'[t] = Idle
  BY DEF Fail, Finish, TaskInv
<1>1. CASE Sent(t)
  <2>1. task[t].conn \in Conn /\ session[task[t].conn] \in Session
    <3>1. task[t].conn \in Conn
      BY <1>1, IdleFields DEF Sent, TaskInv, Handler
    <3> QED
      BY <1>1, <3>1 DEF Sent, SessInv, TypeOK
  <2>2. session' = [session EXCEPT ![task[t].conn].request = None]
    BY <1>1 DEF Fail, Sent
  <2>3. Named(task[t].conn, None)
    <3> SUFFICES ASSUME NEW c \in Conn
                 PROVE  Cancelled(c)' = IF c = task[t].conn THEN None
                                        ELSE Cancelled(c)
      BY DEF Named
    <3>1. CASE c = task[t].conn
      BY <2>1, <2>2, <3>1 DEF Cancelled, TypeOK, Session
    <3>2. CASE c # task[t].conn
      BY <2>2, <3>2 DEF Cancelled, TypeOK
    <3> QED
      BY <3>1, <3>2
  <2> QED
    BY <1>0, <1>1, <2>3 DEF StepCancels
<1>2. CASE ~Sent(t)
  BY <1>2 DEF Fail, Sent, StepCancels, NamesKept, Cancelled
<1> QED
  BY <1>1, <1>2

LEMMA TaskStepCancels ==
  ASSUME TypeOK, TaskInv, SessInv, NEW t \in Task, TaskStep(t), ~Cleanup(t)
  PROVE  StepCancels(t)
<1> DEFINE v == task[t]
           c == task[t].conn
<1>0. /\ Handler(v) /\ v \in TaskRec
      /\ session \in [Conn -> Session \cup {None}]
      /\ v.pc # "idle" => c \in Conn
  BY DEF TaskInv, TypeOK, Handler
<1>1. ASSUME v.sess, v.pc # "idle"
      PROVE  c \in Conn /\ session[c] \in Session
  BY <1>0, <1>1 DEF SessInv
<1>2. UNCHANGED session => NamesKept
  BY DEF NamesKept, Cancelled
<1>3. ASSUME NamesKept, ~Sent(t)
      PROVE  StepCancels(t)
  BY <1>3 DEF StepCancels
<1>4. ASSUME NamesKept, v.pc # "boot", task'[t].pc # "idle",
             task'[t].pc # "boot" \/ ~Sent(t)
      PROVE  StepCancels(t)
  BY <1>4, IdleFields DEF StepCancels
<1>5. CASE Booted(t)
  <2>1. c \in Conn /\ v.pc = "boot"
    BY <1>0, <1>5 DEF Booted
  <2>2. CASE Sent(t)
    <3>1. session[c] \in Session
      BY <1>1, <2>1, <2>2 DEF Sent
    <3>2. session' = [session EXCEPT ![c].request = t] /\ Goto(t, "ask")
      BY <1>5, <2>2 DEF Booted, Sent
    <3>3. task'[t].pc = "ask"
      BY <1>0, <3>2 DEF Goto, TaskInv, TaskRec
    <3>4. Named(c, t)
      <4> SUFFICES ASSUME NEW d \in Conn
                   PROVE  Cancelled(d)' = IF d = c THEN t ELSE Cancelled(d)
        BY DEF Named
      <4>1. CASE d = c
        <5>1. session'[c] = [session[c] EXCEPT !.request = t]
          BY <1>0, <2>1, <3>2
        <5>2. session'[c] \in Session /\ session'[c].request = t
          BY <3>1, <5>1 DEF Session
        <5> QED
          BY <4>1, <5>2, SessionAssumption DEF Cancelled
      <4>2. CASE d # c
        BY <1>0, <3>2, <4>2 DEF Cancelled
      <4> QED
        BY <4>1, <4>2
    <3> QED
      BY <2>2, <3>3, <3>4, IdleFields DEF StepCancels
  <2>3. CASE ~Sent(t)
    <3>1. \/ UNCHANGED session \/ Fail(t) \/ session' = EnsureSession(c)
      BY <1>5, <2>3 DEF Booted, Gone, Sent
    <3> QED
      BY <1>2, <1>3, <2>1, <2>3, <3>1, EnsureNames, FailCancels
  <2> QED
    BY <2>2, <2>3
<1>6. CASE BootFails(t) \/ AskFails(t) \/ ExecFails(t)
  BY <1>6, FailCancels DEF BootFails, AskFails, ExecFails
<1>7. CASE Listed(t)
  <2>1. c \in Conn /\ ~Sent(t)
    BY <1>0, <1>7 DEF Listed, Handler, Placed, Road, Batch, Sent
  <2>2. UNCHANGED session \/ Fail(t) \/ session' = EnsureSession(c)
    BY <1>7 DEF Listed, Gone
  <2> QED
    BY <1>2, <1>3, <2>1, <2>2, EnsureNames, FailCancels
<1>8. CASE \/ SecretRead(t) \/ Slept(t) \/ Forward(t) \/ Connect(t)
           \/ Persisted(t) \/ Disconnect(t) \/ ReleaseTunnel(t) \/ Ask(t)
           \/ Executed(t)
  <2>1. UNCHANGED session /\ v.pc # "idle" /\ (v.pc = "boot" => ~Sent(t))
    BY <1>8 DEF SecretRead, Slept, Attempt, Forward, Connect, Persisted,
       Disconnect, ReleaseTunnel, Ask, Executed
  <2>2. task'[t].pc # "idle" /\ (task'[t].pc # "boot" \/ ~Sent(t))
    BY <1>0, <1>8 DEF Sent, SecretRead, Slept, Attempt, Forward, Connect, Persisted,
       Disconnect, ReleaseTunnel, Ask, Executed, Goto, TaskInv, TaskRec
  <2> QED
    BY <1>2, <1>3, <1>4, <2>1, <2>2
<1>9. CASE AttemptFails(t) \/ NotFound(t)
  <2>1. \/ Fail(t)
        \/ UNCHANGED session /\ v.pc # "boot" /\ (Goto(t, "sleep") \/ Reconnect(t))
    BY <1>9 DEF AttemptFails, NotFound
  <2>2. Goto(t, "sleep") \/ Reconnect(t) => task'[t].pc \notin {"idle", "boot"}
    BY <1>0 DEF Goto, Reconnect, TaskInv, TaskRec
  <2> QED
    BY <1>2, <1>4, <2>1, <2>2, FailCancels
<1>10. CASE Opened(t)
  <2>1. c \in Conn /\ v.pc = "opened"
    BY <1>0, <1>10 DEF Opened
  <2>2. NamesKept
    <3>1. CASE session' = [session EXCEPT ![c].bar = FALSE] /\ session[c] # None
      <4>1. session[c] \in Session
        BY <1>0, <2>1, <3>1
      <4>2. /\ session'[c] = [session[c] EXCEPT !.bar = FALSE]
            /\ \A d \in Conn \ {c} : session'[d] = session[d]
        BY <1>0, <2>1, <3>1
      <4>3. session'[c].request = session[c].request /\ session'[c] \in Session
        BY <4>1, <4>2 DEF Session
      <4>4. \A d \in Conn : d = c => Cancelled(d)' = Cancelled(d)
        BY <3>1, <4>3, SessionAssumption DEF Cancelled
      <4>5. \A d \in Conn : d # c => Cancelled(d)' = Cancelled(d)
        BY <4>2 DEF Cancelled
      <4> QED
        BY <4>4, <4>5 DEF NamesKept
    <3>2. \/ UNCHANGED session \/ session' = EnsureSession(c)
          \/ session' = [session EXCEPT ![c].bar = FALSE] /\ session[c] # None
      BY <1>10 DEF Opened, BarAfterConnect
    <3> QED
      BY <1>2, <2>1, <3>1, <3>2, EnsureNames
  <2>3. Sent(t) => task'[t].pc = "ask"
    BY <1>0, <1>10 DEF Sent, Opened, Retries, GoOn, TaskInv, TaskRec
  <2> QED
    BY <2>1, <2>2, <2>3, <1>3, <1>4
<1>11. CASE BatchLands(t)
  <2>1. v.pc = "answer" /\ v.kind \in Batch /\ task'[t] = Idle
    BY <1>11 DEF BatchLands, Batch, Finish, TaskInv
  <2>2. CASE v.sess
    <3> DEFINE r == IF v.kind = "run" THEN None ELSE session[c].request
    <3>1. c \in Conn /\ session[c] \in Session
      BY <1>1, <2>1, <2>2
    <3>2. /\ session'[c] = [session[c] EXCEPT !.bar = v.got, !.request = r]
          /\ \A d \in Conn \ {c} : session'[d] = session[d]
      BY <1>0, <1>11, <2>2, <3>1 DEF BatchLands, Session
    <3>3. session'[c].request = r
      BY <3>1, <3>2 DEF Session
    <3>4. session'[c] # None /\ session[c] # None
      BY <1>11, <3>1, StepGrows, SessionAssumption DEF SessionGrows, TaskStep, Cleanup
    <3>5. CASE v.kind = "run"
      <4>1. Named(c, None)
        BY <3>2, <3>3, <3>4, <3>5 DEF Named, Cancelled
      <4> QED
        BY <2>1, <2>2, <3>5, <4>1 DEF StepCancels, Sent
    <3>6. CASE v.kind # "run"
      <4>1. NamesKept
        BY <3>2, <3>3, <3>4, <3>6 DEF NamesKept, Cancelled
      <4> QED
        BY <1>3, <3>6, <4>1 DEF Sent
    <3> QED
      BY <3>5, <3>6
  <2>3. CASE ~v.sess
    BY <1>2, <1>3, <1>11, <2>3 DEF BatchLands, Sent
  <2> QED
    BY <2>2, <2>3
<1>12. CASE LoadLands(t) \/ DdlLands(t) \/ ToolLands(t)
  BY <1>2, <1>3, <1>12 DEF LoadLands, DdlLands, ToolLands, Sent
<1> QED
  BY <1>5, <1>6, <1>7, <1>8, <1>9, <1>10, <1>11, <1>12 DEF TaskStep
LEMMA CancelledTask ==
  ASSUME TypeOK, NEW c \in Conn
  PROVE  Cancelled(c) \in Task \cup {None}
BY DEF Cancelled, TypeOK, Session

(* What a step may do to the runs, when it sends and ends none.            *)
SameRun(t) ==
  /\ task[t].kind = "run" /\ task'[t].kind = "run"
  /\ task'[t].conn = task[t].conn /\ task'[t].sess = task[t].sess
  /\ (task'[t].pc = "boot") <=> (task[t].pc = "boot")
NoRun(t) == task'[t].kind # "run" /\ task[t].kind # "run"
LooseRun(t) ==
  /\ task[t].kind = "run" /\ ~task[t].sess
  /\ task'[t].kind = "run" => task'[t].conn = task[t].conn /\ ~task'[t].sess
NewRun(t) ==
  /\ task'[t].kind = "run" /\ task[t].kind # "run" /\ task'[t].pc = "boot"
  /\ \A u \in Task : /\ task[u].kind = "run" /\ task[u].conn = task'[t].conn
                     => task'[t].conn \in doubled'
  /\ \A u \in Task \ {t} : task'[u] = task[u]

LEMMA StopQuiet ==
  ASSUME TypeOK, TaskInv', StopInv, NamesKept,
         \A t, u \in Task :
           task[t].kind = "run" /\ task[u].kind = "run"
             /\ task[t].conn = task[u].conn /\ t # u
             => task[t].conn \in doubled',
         \A c \in doubled : c \in doubled' \/ \A t \in Task :
           ~(task[t].kind = "run" /\ task[t].conn = c),
         \A t \in Task : SameRun(t) \/ NoRun(t) \/ NewRun(t) \/ LooseRun(t)
  PROVE  StopInv'
<1>0. \A t \in Task : task'[t].kind = "run" => task'[t].conn \in Conn
  BY IdleFields DEF TaskInv, Handler
<1>1. ASSUME NEW c \in Conn, Cancelled(c)' # None
      PROVE  LET v == task'[Cancelled(c)'] IN
             v.kind = "run" /\ v.conn = c /\ v.sess /\ v.pc # "boot"
  <2>1. PICK k \in Task : k = Cancelled(c) /\ k = Cancelled(c)' /\ k # None
    BY <1>1, CancelledTask DEF NamesKept
  <2>2. task[k].kind = "run" /\ task[k].conn = c /\ task[k].sess /\ task[k].pc # "boot"
    BY <2>1 DEF StopInv, StopNamesTheRun
  <2>3. SameRun(k)
    BY <2>2 DEF NoRun, NewRun, LooseRun
  <2> QED
    BY <2>1, <2>2, <2>3 DEF SameRun
<1>2. ASSUME NEW t \in Task, task'[t].kind = "run", task'[t].pc # "boot"
      PROVE  \/ \A c \in Conn : c = task'[t].conn => Cancelled(c)' = t
             \/ task'[t].conn \in doubled' \/ ~task'[t].sess
  <2> SUFFICES ASSUME SameRun(t)
               PROVE  \/ \A c \in Conn : c = task'[t].conn => Cancelled(c)' = t
                      \/ task'[t].conn \in doubled' \/ ~task'[t].sess
    BY <1>2 DEF NoRun, NewRun, LooseRun
  <2>2. \/ Cancelled(task[t].conn) = t
        \/ task[t].conn \in doubled \/ ~task[t].sess
    BY <1>2 DEF SameRun, StopInv, StopNamesTheRun
  <2>3. task[t].conn \in doubled => task[t].conn \in doubled'
    BY DEF SameRun
  <2> QED
    BY <1>0, <1>2, <2>2, <2>3 DEF SameRun, NamesKept
<1>3. StopNamesTheRun'
  BY <1>0, <1>1, <1>2 DEF StopNamesTheRun
<1>4. ASSUME NEW t \in Task, NEW u \in Task, t # u,
             task'[t].kind = "run", task'[u].kind = "run",
             task'[t].conn = task'[u].conn
      PROVE  task'[t].conn \in doubled'
  BY <1>4 DEF SameRun, NoRun, NewRun, LooseRun
<1> QED
  BY <1>3, <1>4 DEF StopInv

(* A run that is sent takes the id, one that ends clears it.               *)
LEMMA StopSent ==
  ASSUME TypeOK, TaskInv, TaskInv', StopInv, NEW t \in Task, Moves(t),
         doubled' = doubled, Sent(t),
         \/ task'[t] = Idle /\ Named(task[t].conn, None)
         \/ /\ task'[t].pc # "boot" /\ task'[t] # Idle
            /\ Named(task[t].conn, t)
  PROVE  StopInv'
<1>1. \A u \in Task \ {t} : task'[u] = task[u]
  BY DEF Moves, TaskInv
<1>2. /\ task[t].conn \in Conn /\ task[t].kind = "run" /\ task[t].sess
      /\ \A u \in Task : task[u].kind = "run" => task[u].conn \in Conn
  BY IdleFields DEF Sent, TaskInv, Handler
<1>4. \/ task'[t] = Idle
      \/ /\ task'[t].conn = task[t].conn /\ task'[t].sess = task[t].sess
         /\ task'[t].kind = "run"
  BY <1>2 DEF Moves
<1>5. \A u, w \in Task :
        task'[u].kind = "run" /\ task'[w].kind = "run"
          /\ task'[u].conn = task'[w].conn /\ u # w => task'[u].conn \in doubled'
  <2> SUFFICES ASSUME NEW u \in Task, NEW w \in Task, u # w,
                      task'[u].kind = "run", task'[w].kind = "run",
                      task'[u].conn = task'[w].conn
               PROVE  task'[u].conn \in doubled'
    OBVIOUS
  <2>1. task[u].kind = "run" /\ task[u].conn = task'[u].conn
    BY <1>1, <1>2, <1>4, IdleFields
  <2>2. task[w].kind = "run" /\ task[w].conn = task'[w].conn
    BY <1>1, <1>2, <1>4, IdleFields
  <2> QED
    BY <2>1, <2>2 DEF StopInv
<1>6. ASSUME NEW c \in Conn, Cancelled(c)' # None
      PROVE  LET v == task'[Cancelled(c)'] IN
             v.kind = "run" /\ v.conn = c /\ v.sess /\ v.pc # "boot"
  <2>1. CASE c # task[t].conn
    <3>1. PICK k \in Task : k = Cancelled(c) /\ k = Cancelled(c)' /\ k # None
      BY <1>6, <2>1, CancelledTask DEF Named
    <3>2. /\ task[k].kind = "run" /\ task[k].conn = c /\ task[k].sess
          /\ task[k].pc # "boot"
      BY <3>1 DEF StopInv, StopNamesTheRun
    <3> QED
      BY <1>1, <2>1, <3>1, <3>2
  <2>2. CASE c = task[t].conn
    <3>1. Cancelled(c)' = t /\ task'[t].pc # "boot" /\ task'[t] # Idle
      BY <1>6, <2>2 DEF Named
    <3> QED
      BY <1>2, <1>4, <2>2, <3>1
  <2> QED
    BY <2>1, <2>2
<1>7. ASSUME NEW u \in Task, task'[u].kind = "run", task'[u].pc # "boot"
      PROVE  \/ \A c \in Conn : c = task'[u].conn => Cancelled(c)' = u
             \/ task'[u].conn \in doubled' \/ ~task'[u].sess
  <2>1. CASE u = t
    BY <1>2, <1>4, <1>7, <2>1, IdleFields DEF Named
  <2>2. CASE u # t
    <3>1. task'[u] = task[u]
      BY <1>1, <2>2
    <3>2. CASE task[u].conn = task[t].conn
      BY <1>2, <1>7, <2>2, <3>1, <3>2 DEF StopInv
    <3>3. CASE task[u].conn # task[t].conn
      BY <1>2, <1>7, <3>1, <3>3 DEF StopInv, StopNamesTheRun, Named
    <3> QED
      BY <3>2, <3>3
  <2> QED
    BY <2>1, <2>2
<1>8. \A u \in Task : task'[u].kind = "run" => task'[u].conn \in Conn
  BY IdleFields DEF TaskInv, Handler
<1>9. StopNamesTheRun'
  BY <1>6, <1>7, <1>8 DEF StopNamesTheRun
<1> QED
  BY <1>5, <1>9 DEF StopInv

(* What a user's action does to a handler: it starts it, or leaves it.     *)
LEMMA UserTasks ==
  ASSUME TypeOK, TaskInv, NEW t \in Task, User(t)
  PROVE  \A u \in Task :
           \/ task'[u] = task[u]
           \/ /\ task[u] = Idle /\ task'[u].kind # "none"
              /\ task'[u].kind = "run" => Run(t)
              /\ task'[u].pc \in {"boot", "ask", "persist"}
<1>1. ASSUME NEW k, NEW pc, NEW c, NEW via, Fresh(t, k, pc, c, via),
             k # "none", k # "run", pc \in {"boot", "ask", "persist"}
      PROVE  \A u \in Task :
               \/ task'[u] = task[u]
               \/ /\ task[u] = Idle /\ task'[u].kind # "none"
                  /\ task'[u].kind = "run" => Run(t)
                  /\ task'[u].pc \in {"boot", "ask", "persist"}
  BY <1>1 DEF Fresh, Begun, TaskInv
<1>2. ASSUME Run(t)
      PROVE  \A u \in Task :
               \/ task'[u] = task[u]
               \/ /\ task[u] = Idle /\ task'[u].kind # "none"
                  /\ task'[u].kind = "run" => Run(t)
                  /\ task'[u].pc \in {"boot", "ask", "persist"}
  <2>1. Fresh(t, "run", "boot", active, None)
    BY <1>2, UserStarts
  <2> QED
    BY <1>2, <2>1 DEF Fresh, Begun, TaskInv
<1>3. ASSUME Pane(t), ~Run(t)
      PROVE  \A u \in Task :
               \/ task'[u] = task[u]
               \/ /\ task[u] = Idle /\ task'[u].kind # "none"
                  /\ task'[u].kind = "run" => Run(t)
                  /\ task'[u].pc \in {"boot", "ask", "persist"}
  <2>1. CASE Mount(t)
    BY <1>1, <2>1, UserStarts
  <2>2. CASE EndTransaction(t)
    BY <1>1, <2>2, UserStarts
  <2> QED
    BY <1>3, <2>1, <2>2 DEF Pane
<1>4. ASSUME NEW c \in Conn, NEW via \in Target \cup {None},
             \/ OpenTable(t, c) \/ Delete(t, c) \/ Ddl(t, c) \/ AskAI(t, c)
             \/ Save(t, c, via) \/ Test(t, c, via)
      PROVE  \A u \in Task :
               \/ task'[u] = task[u]
               \/ /\ task[u] = Idle /\ task'[u].kind # "none"
                  /\ task'[u].kind = "run" => Run(t)
                  /\ task'[u].pc \in {"boot", "ask", "persist"}
  <2>1. CASE OpenTable(t, c)
    BY <1>1, <2>1, UserStarts
  <2>2. CASE Delete(t, c)
    BY <1>1, <2>2, UserStarts
  <2>3. CASE Ddl(t, c)
    BY <1>1, <2>3, UserStarts
  <2>4. CASE AskAI(t, c)
    BY <1>1, <2>4, UserStarts
  <2>5. CASE Save(t, c, via)
    BY <1>1, <2>5, UserStarts
  <2>6. CASE Test(t, c, via)
    BY <1>1, <2>6, UserStarts
  <2> QED
    BY <1>4, <2>1, <2>2, <2>3, <2>4, <2>5, <2>6
<1>5. ASSUME NEW n \in Node, Expand(t, n) \/ Refresh(t, n)
      PROVE  \A u \in Task :
               \/ task'[u] = task[u]
               \/ /\ task[u] = Idle /\ task'[u].kind # "none"
                  /\ task'[u].kind = "run" => Run(t)
                  /\ task'[u].pc \in {"boot", "ask", "persist"}
  <2>1. CASE UNCHANGED task
    BY <2>1
  <2>2. CASE Starts(t, LoadOf(n))
    <3>1. PICK pc \in {"boot", "ask"} : pc = LoadOf(n).pc
      BY LoadFields
    <3>2. Fresh(t, "load", pc, n[1], None)
      BY <2>2, <3>1, UserStarts
    <3> QED
      BY <1>1, <3>2
  <2> QED
    BY <1>5, <2>1, <2>2 DEF Expand, Refresh
<1>6. ASSUME NEW c \in Conn, NEW u \in Task, ClickConnection(t, u, c)
      PROVE  \A w \in Task :
               \/ task'[w] = task[w]
               \/ /\ task[w] = Idle /\ task'[w].kind # "none"
                  /\ task'[w].kind = "run" => Run(t)
                  /\ task'[w].pc \in {"boot", "ask", "persist"}
  <2>1. /\ task[t] = Idle /\ task[u] = Idle
        /\ task' = [[task EXCEPT ![t] = task'[t]] EXCEPT ![u] = task'[u]]
        /\ \/ task'[u] = Idle
           \/ task'[u].kind = "load" /\ task'[u].pc = "boot"
    BY <1>6, ClickBegins
  <2>2. \A w \in Task : w # t /\ w # u => task'[w] = task[w]
    BY <2>1 DEF TaskInv
  <2>3. task'[t].kind = "select" /\ task'[t].pc = "boot"
    BY <1>6, ClickBegins
  <2> QED
    BY <2>1, <2>2, <2>3
<1>7. None \in Target \cup {None}
  OBVIOUS
<1> QED
  BY <1>2, <1>3, <1>4, <1>5, <1>6, <1>7
     DEF User, Pane, Sidebar, Menu, Dialog

LEMMA StopKept ==
  ASSUME TypeOK, TaskInv, SessInv, StopInv, [Next]_vars
  PROVE  StopInv'
<1>0. /\ \A t \in Task : Handler(task[t]) /\ Handler(task'[t])
      /\ TaskInv'
  BY TaskKept DEF TaskInv
<1>1. UNCHANGED session => NamesKept
  BY DEF NamesKept, Cancelled
<1>2. ASSUME NamesKept, UNCHANGED doubled,
             \A t \in Task : SameRun(t) \/ NoRun(t) \/ LooseRun(t)
      PROVE  StopInv'
  <2>1. \A t, u \in Task :
           task[t].kind = "run" /\ task[u].kind = "run"
             /\ task[t].conn = task[u].conn /\ t # u
             => task[t].conn \in doubled'
    BY <1>2 DEF StopInv
  <2> QED
    BY <1>0, <1>2, <2>1, StopQuiet
<1>3. ASSUME NEW t \in Task, TaskStep(t), ~Cleanup(t)
      PROVE  StopInv'
  <2>1. UNCHANGED doubled
    BY <1>3 DEF TaskStep, Booted, BootFails, Listed, SecretRead, Slept, Attempt,
       Forward, Connect, AttemptFails, Opened, Persisted, Disconnect,
       ReleaseTunnel, NotFound, Ask, AskFails, Executed, ExecFails, BatchLands,
       LoadLands, DdlLands, Noted, ToolLands, hist, marks
  <2>2. Moves(t) /\ StepCancels(t)
    BY <1>3, TaskStepMoves, TaskStepCancels
  <2>3. \A u \in Task \ {t} : task'[u] = task[u]
    BY <2>2 DEF Moves, TaskInv
  <2>4. CASE /\ NamesKept
             /\ Sent(t) => /\ task'[t] # Idle
                           /\ (task[t].pc = "boot") <=> (task'[t].pc = "boot")
    <3>1. \A u \in Task \ {t} : SameRun(u) \/ NoRun(u)
      BY <2>3 DEF SameRun, NoRun
    <3>2. LoadOf(task[t].node).kind # "run"
      BY DEF LoadOf, Begin, Idle
    <3>3. CASE task[t].kind # "run"
      <4>1. NoRun(t)
        BY <2>2, <3>2, <3>3, IdleFields DEF Moves, NoRun
      <4> QED
        BY <1>2, <2>1, <2>4, <3>1, <4>1
    <3>4. CASE task[t].kind = "run" /\ ~task[t].sess
      <4>1. LooseRun(t)
        BY <2>2, <3>4, IdleFields DEF Moves, LooseRun
      <4> QED
        BY <1>2, <2>1, <2>4, <3>1, <4>1
    <3>5. CASE Sent(t)
      <4>1. SameRun(t)
        BY <2>2, <2>4, <3>5 DEF Moves, Sent, SameRun
      <4> QED
        BY <1>2, <2>1, <2>4, <3>1, <4>1
    <3> QED
      BY <3>3, <3>4, <3>5 DEF Sent
  <2>5. CASE \/ Sent(t) /\ task'[t] = Idle /\ Named(task[t].conn, None)
             \/ /\ Sent(t) /\ task'[t].pc # "boot" /\ task'[t] # Idle
                /\ Named(task[t].conn, t)
    BY <1>0, <2>1, <2>2, <2>5, StopSent
  <2> QED
    BY <2>2, <2>4, <2>5 DEF StepCancels
<1>4. ASSUME NEW t \in Task, Cleanup(t)
      PROVE  StopInv'
  <2> DEFINE d == task[t].conn
  <2>1. /\ d \in Conn /\ task[t].kind = "delete"
        /\ session' = [session EXCEPT ![d] = None] /\ UNCHANGED doubled
    BY <1>0, <1>4 DEF Cleanup, Handler, Placed, Road, hist, marks
  <2>2. \A u \in Task : task'[u] = IF u = t THEN Idle
                                   ELSE IF task[u].conn = d
                                   THEN [task[u] EXCEPT !.sess = FALSE]
                                   ELSE task[u]
    BY <1>4 DEF Cleanup
  <2>3. ASSUME NEW u \in Task
        PROVE  NoRun(u) \/ LooseRun(u) \/ SameRun(u)
               \/ /\ task[u].kind = "run" /\ task'[u].kind = "run"
                  /\ task[u].conn = d /\ task'[u].conn = d /\ ~task'[u].sess
    <3>1. task[u] \in TaskRec
      BY DEF TaskInv
    <3> HIDE DEF d
    <3> QED
      BY <2>1, <2>2, <3>1, IdleFields DEF NoRun, LooseRun, SameRun, TaskRec, d
  <2> HIDE DEF d
  <2>4. \A c \in Conn : Cancelled(c)' = IF c = d THEN None ELSE Cancelled(c)
    BY <2>1 DEF Cancelled, TypeOK
  <2>5. ASSUME NEW c \in Conn, Cancelled(c)' # None
        PROVE  LET v == task'[Cancelled(c)'] IN
               v.kind = "run" /\ v.conn = c /\ v.sess /\ v.pc # "boot"
    <3>1. PICK k \in Task : k = Cancelled(c) /\ k = Cancelled(c)' /\ k # None
      BY <2>4, <2>5, CancelledTask
    <3>2. /\ task[k].kind = "run" /\ task[k].conn = c /\ task[k].sess
          /\ task[k].pc # "boot"
      BY <3>1 DEF StopInv, StopNamesTheRun
    <3>3. c # d
      BY <2>4, <2>5
    <3>4. task'[k] = task[k]
      BY <2>1, <2>2, <3>2, <3>3 DEF d
    <3> QED
      BY <3>1, <3>2, <3>4
  <2>6. ASSUME NEW u \in Task, task'[u].kind = "run", task'[u].pc # "boot"
        PROVE  \/ \A c \in Conn : c = task'[u].conn => Cancelled(c)' = u
               \/ task'[u].conn \in doubled' \/ ~task'[u].sess
    <3>1. CASE task[u].conn = d
      <4>1. task[u] \in TaskRec
        BY DEF TaskInv
      <4>2. ~task'[u].sess
        BY <2>2, <3>1, <4>1, IdleFields DEF TaskRec
      <4> QED
        BY <4>2
    <3>2. CASE task[u].conn # d
      <4>1. task'[u] = task[u]
        BY <2>2, <2>6, <3>2, IdleFields
      <4> QED
        BY <2>1, <2>4, <2>6, <3>2, <4>1 DEF StopInv, StopNamesTheRun
    <3> QED
      BY <3>1, <3>2
  <2>7. \A u \in Task : task'[u].kind = "run" =>
          task[u].kind = "run" /\ task'[u].conn = task[u].conn
    BY <2>3 DEF NoRun, LooseRun, SameRun
  <2>8. \A u \in Task : task'[u].kind = "run" => task'[u].conn \in Conn
    BY <1>0, IdleFields DEF Handler
  <2>9. StopNamesTheRun'
    BY <2>5, <2>6, <2>8 DEF StopNamesTheRun
  <2> QED
    BY <2>1, <2>7, <2>9 DEF StopInv
<1>5. ASSUME NEW t \in Task, Run(t)
      PROVE  StopInv'
  <2> DEFINE v == [Begin("run", active) EXCEPT !.sess = TRUE]
  <2>1. active \in Conn
    BY <1>5 DEF Run, TypeOK
  <2>2. /\ task[t] = Idle /\ task' = [task EXCEPT ![t] = v]
        /\ session' = EnsureSession(active)
        /\ doubled' = IF Runs(active) = {} THEN doubled \ {active}
                      ELSE doubled \cup {active}
    BY <1>5 DEF Run, Starts
  <2>3. v.kind = "run" /\ v.conn = active /\ v.pc = "boot"
    BY DEF Begin, Idle
  <2> HIDE DEF v
  <2>4. /\ task'[t] = v /\ \A u \in Task \ {t} : task'[u] = task[u]
    BY <2>2 DEF TaskInv
  <2>5. NamesKept
    BY <2>1, <2>2, EnsureNames
  <2>6. \A u \in Task : task[u].kind = "run" /\ task[u].conn = active
                          => active \in doubled'
    BY <2>2 DEF Runs
  <2>7. NewRun(t) /\ \A u \in Task \ {t} : SameRun(u) \/ NoRun(u)
    BY <2>2, <2>3, <2>4, <2>6, IdleFields DEF NewRun, SameRun, NoRun
  <2>8. \A u, w \in Task :
           task[u].kind = "run" /\ task[w].kind = "run"
             /\ task[u].conn = task[w].conn /\ u # w
             => task[u].conn \in doubled'
    BY <2>2, <2>6 DEF StopInv
  <2>9. \A c \in doubled : c \in doubled' \/ \A u \in Task :
           ~(task[u].kind = "run" /\ task[u].conn = c)
    BY <2>2, <2>6
  <2> QED
    BY <1>0, <2>5, <2>7, <2>8, <2>9, StopQuiet
<1>6. ASSUME NEW t \in Task, User(t), ~Run(t)
      PROVE  StopInv'
  <2>1. UNCHANGED <<session, doubled>>
    BY <1>6 DEF User, Pane, Mount, EndTransaction, Sidebar, ClickConnection,
       OpenTable, Delete, Expand, Menu, Refresh, Ddl, Noted, Dialog, Save, Test,
       AskAI, hist, marks
  <2>2. \A u \in Task : SameRun(u) \/ NoRun(u)
    BY <1>6, UserTasks, IdleFields DEF SameRun, NoRun
  <2> QED
    BY <1>1, <1>2, <2>1, <2>2
<1>7. ASSUME \/ HelperDies \/ ReloadTree \/ \E n \in Node : Collapse(n)
             \/ \E c \in Conn : TxnLost(c) \/ CatalogMoves(c)
             \/ UNCHANGED vars
      PROVE  StopInv'
  <2>1. UNCHANGED <<session, doubled>>
    BY <1>7 DEF HelperDies, ReloadTree, Collapse, TxnLost, CatalogMoves, Noted,
       vars, hist, marks
  <2>2. ASSUME NEW u \in Task
        PROVE  SameRun(u) \/ NoRun(u)
    <3>1. task[u] \in TaskRec
      BY DEF TaskInv
    <3>2. \/ task'[u] = task[u]
          \/ task[u].pc = "exec" /\ task'[u] = [task[u] EXCEPT !.pc = "ask"]
      BY <1>7 DEF HelperDies, ReloadTree, Collapse, TxnLost, CatalogMoves, vars
    <3> QED
      BY <3>1, <3>2 DEF TaskRec, SameRun, NoRun
  <2> QED
    BY <1>1, <1>2, <2>1, <2>2
<1> QED
  BY <1>3, <1>4, <1>5, <1>6, <1>7 DEF Next

(* Stop names the run that was sent on its connection, and a run that was  *)
(* sent can be stopped unless another was started beside it or its         *)
(* connection was deleted: whatever fails, lands or dies meanwhile.        *)
THEOREM StopIsRight == Spec => []StopNamesTheRun
<1>1. Init => TypeOK /\ TaskInv /\ SessInv /\ StopInv
  <2> SUFFICES ASSUME Init
               PROVE  TypeOK /\ TaskInv /\ SessInv /\ StopInv
    OBVIOUS
  <2>1. TypeOK
    BY WorkbenchAssumption DEF Init, TypeOK
  <2>2. TaskInv /\ SessInv /\ StopInv
    BY IdleHandler, IdleFields DEF Init, TaskInv, SessInv, Handler, StopInv,
       StopNamesTheRun, Cancelled
  <2> QED
    BY <2>1, <2>2
<1>2. TypeOK /\ TaskInv /\ SessInv /\ StopInv /\ [Next]_vars
        => TypeOK' /\ TaskInv' /\ SessInv' /\ StopInv'
  BY TypeKept, TaskKept, SessKept, StopKept
<1>3. StopInv => StopNamesTheRun
  BY DEF StopInv
<1> QED
  BY <1>1, <1>2, <1>3, PTL DEF Spec
-----------------------------------------------------------------------------
(* The rows of the connections.  While a row connects, the handler that    *)
(* connects is on its way, and it is one whose end the row is told.        *)

Connecting == {"connecting", "reconnecting"}
Waits(t) ==
  Retries(t) /\ task[t].pc \in {"tunnel", "connect", "opened", "sleep"}

ConnectInv ==
  /\ status \in [Conn -> Connecting \cup
                   {"none", "connected", "disconnected", "error"}]
  /\ \A c \in Conn : status[c] \in Connecting =>
       \E t \in Task : task[t].conn = c /\ Waits(t)

(* What a step of a handler may do to its row.                             *)
StepWaits(t) ==
  /\ status' \in [Conn -> Connecting \cup
                    {"none", "connected", "disconnected", "error"}]
  /\ \A c \in Conn : status'[c] \in Connecting =>
       IF c = task[t].conn
       THEN \/ Waits(t)' /\ task'[t].conn = c
            \/ status[c] \in Connecting /\ ~Waits(t)
       ELSE status[c] \in Connecting

LEMMA TaskStepWaits ==
  ASSUME TypeOK, TaskInv, ConnectInv, NEW t \in Task, TaskStep(t)
  PROVE  StepWaits(t)
<1> DEFINE c == task[t].conn
<1>0. /\ Handler(task[t]) /\ task[t] \in TaskRec
      /\ task[t].pc # "idle" => c \in Conn
      /\ status \in [Conn -> Connecting \cup
                       {"none", "connected", "disconnected", "error"}]
  BY DEF TaskInv, Handler, ConnectInv
<1>1. ASSUME UNCHANGED status, ~Waits(t)
      PROVE  StepWaits(t)
  BY <1>0, <1>1 DEF StepWaits
<1>2. ASSUME NEW s \in {"none", "connected", "disconnected", "error"},
             status' = [status EXCEPT ![c] = s]
      PROVE  StepWaits(t)
  BY <1>0, <1>2 DEF StepWaits, Connecting
<1>3. ASSUME Waits(t)', task'[t].conn = c,
             \/ status' = status
             \/ \E s \in Connecting : status' = [status EXCEPT ![c] = s]
      PROVE  StepWaits(t)
  <2>1. CASE status' = status
    BY <1>0, <1>3, <2>1 DEF StepWaits
  <2>2. ASSUME NEW s \in Connecting, status' = [status EXCEPT ![c] = s]
        PROVE  StepWaits(t)
    <3>1. /\ status' \in [Conn -> Connecting \cup
                          {"none", "connected", "disconnected", "error"}]
          /\ \A d \in Conn : d # c => status'[d] = status[d]
      BY <1>0, <2>2
    <3> QED
      BY <1>3, <3>1 DEF StepWaits
  <2> QED
    BY <1>3, <2>1, <2>2
<1>4. CASE Booted(t) \/ BootFails(t) \/ Listed(t) \/ Cleanup(t)
  <2>1. ~Waits(t)
    BY <1>4 DEF Booted, BootFails, Listed, Cleanup, Waits
  <2>2. \/ UNCHANGED status
        \/ \E s \in {"none", "connected", "disconnected", "error"} :
             status' = [status EXCEPT ![c] = s]
    BY <1>4 DEF Booted, BootFails, Listed, Cleanup, Gone
  <2> QED
    BY <1>1, <1>2, <2>1, <2>2
<1>5. CASE SecretRead(t) \/ Slept(t)
  <2>1. /\ task'[t].pc = "tunnel" /\ task'[t].conn = c
        /\ task'[t].kind = task[t].kind
    BY <1>0, <1>5 DEF SecretRead, Slept, Attempt, TaskInv, TaskRec
  <2>2. Retries(t) /\ Retries(t)'
    BY <1>0, <1>5, <2>1 DEF SecretRead, Slept, Handler, Placed, Road, Batch, Retries
  <2>3. Waits(t)'
    BY <2>1, <2>2 DEF Waits
  <2>4. \E s \in Connecting : status' = [status EXCEPT ![c] = s]
    BY <1>5 DEF SecretRead, Slept, Attempt, Connecting
  <2> QED
    BY <1>3, <2>1, <2>3, <2>4
<1>6. CASE Forward(t) \/ Connect(t)
  <2>1. /\ task'[t].pc \in {"connect", "opened"} /\ task'[t].conn = c
        /\ task'[t].kind = task[t].kind /\ UNCHANGED status
    BY <1>0, <1>6 DEF Forward, Connect, Goto, TaskInv, TaskRec
  <2>2. CASE Retries(t)
    BY <1>3, <2>1, <2>2 DEF Waits, Retries
  <2>3. CASE ~Retries(t)
    BY <1>1, <2>1, <2>3 DEF Waits
  <2> QED
    BY <2>2, <2>3
<1>7. CASE AttemptFails(t)
  <2>1. CASE ~Retries(t)
    BY <1>1, <1>7, <2>1 DEF AttemptFails, Waits
  <2>2. CASE Retries(t) /\ task[t].try < MaxAttempts
    <3>1. /\ task'[t].pc = "sleep" /\ task'[t].conn = c
          /\ task'[t].kind = task[t].kind /\ UNCHANGED status
      BY <1>0, <1>7, <2>2 DEF AttemptFails, Goto, TaskInv, TaskRec
    <3> QED
      BY <1>3, <2>2, <3>1 DEF Waits, Retries
  <2>3. CASE Retries(t) /\ ~(task[t].try < MaxAttempts)
    BY <1>2, <1>7, <2>3 DEF AttemptFails
  <2> QED
    BY <2>1, <2>2, <2>3
<1>8. CASE Opened(t)
  <2>1. CASE task[t].kind = "test"
    BY <1>1, <1>8, <2>1 DEF Opened, Waits, Retries
  <2>2. CASE task[t].kind # "test"
    BY <1>2, <1>8, <2>2 DEF Opened
  <2> QED
    BY <2>1, <2>2
<1>9. CASE \/ Persisted(t) \/ Disconnect(t) \/ ReleaseTunnel(t) \/ NotFound(t)
           \/ Ask(t) \/ AskFails(t) \/ Executed(t) \/ ExecFails(t)
           \/ BatchLands(t) \/ LoadLands(t) \/ DdlLands(t) \/ ToolLands(t)
  <2>1. UNCHANGED status /\ ~Waits(t)
    BY <1>9 DEF Persisted, Disconnect, ReleaseTunnel, NotFound, Ask, AskFails,
       Executed, ExecFails, BatchLands, LoadLands, DdlLands, ToolLands, Waits
  <2> QED
    BY <1>1, <2>1
<1> QED
  BY <1>4, <1>5, <1>6, <1>7, <1>8, <1>9 DEF TaskStep

LEMMA ConnectKept ==
  ASSUME TypeOK, TaskInv, ConnectInv, [Next]_vars
  PROVE  ConnectInv'
<1>1. ASSUME NEW t \in Task, TaskStep(t)
      PROVE  ConnectInv'
  <2>1. StepWaits(t)
    BY <1>1, TaskStepWaits
  <2>2. ASSUME NEW u \in Task, u # t
        PROVE  /\ task'[u].conn = task[u].conn
               /\ Waits(u) => Waits(u)'
    <3>1. CASE Cleanup(t)
      <4>1. /\ task'[u].conn = task[u].conn /\ task'[u].kind = task[u].kind
            /\ task'[u].pc = task[u].pc
        BY <2>2, <3>1, CleanupMoves
      <4> QED
        BY <4>1 DEF Waits, Retries
    <3>2. CASE Moves(t)
      <4>1. task'[u] = task[u]
        BY <2>2, <3>2 DEF Moves, TaskInv
      <4> QED
        BY <4>1 DEF Waits, Retries
    <3> QED
      BY <1>1, <3>1, <3>2, TaskStepMoves
  <2>3. ASSUME NEW c \in Conn, status'[c] \in Connecting
        PROVE  \E u \in Task : task'[u].conn = c /\ Waits(u)'
    <3>1. CASE Waits(t)' /\ task'[t].conn = c
      BY <3>1
    <3>2. CASE status[c] \in Connecting /\ (c = task[t].conn => ~Waits(t))
      <4>1. PICK u \in Task : task[u].conn = c /\ Waits(u)
        BY <3>2 DEF ConnectInv
      <4>2. u # t
        BY <3>2, <4>1
      <4> QED
        BY <2>2, <4>1, <4>2
    <3> QED
      BY <2>1, <2>3, <3>1, <3>2 DEF StepWaits
  <2> QED
    BY <2>1, <2>3 DEF ConnectInv, StepWaits
<1>2. ASSUME UNCHANGED status,
             \A u \in Task : Waits(u) => Waits(u)' /\ task'[u].conn = task[u].conn
      PROVE  ConnectInv'
  BY <1>2 DEF ConnectInv
<1>3. ASSUME NEW t \in Task, User(t)
      PROVE  ConnectInv'
  <2>1. UNCHANGED status
    BY <1>3 DEF User, Pane, Mount, Run, EndTransaction, Sidebar, ClickConnection,
       OpenTable, Delete, Expand, Menu, Refresh, Ddl, Dialog, Save, Test, AskAI
  <2>2. \A u \in Task : Waits(u) => task'[u] = task[u]
    BY <1>3, UserTasks, IdleFields DEF Waits
  <2> QED
    BY <1>2, <2>1, <2>2 DEF Waits, Retries
<1>4. ASSUME \/ HelperDies \/ ReloadTree \/ \E n \in Node : Collapse(n)
             \/ \E c \in Conn : TxnLost(c) \/ CatalogMoves(c)
             \/ UNCHANGED vars
      PROVE  ConnectInv'
  <2>1. UNCHANGED status
    BY <1>4 DEF HelperDies, ReloadTree, Collapse, TxnLost, CatalogMoves, vars
  <2>2. \A u \in Task : Waits(u) => task'[u] = task[u]
    BY <1>4 DEF HelperDies, ReloadTree, Collapse, TxnLost, CatalogMoves, vars, Waits
  <2> QED
    BY <1>2, <2>1, <2>2 DEF Waits, Retries
<1> QED
  BY <1>1, <1>3, <1>4 DEF Next

(* A row says that it connects only while a handler does, whichever of     *)
(* several handlers told the row last.                                     *)
THEOREM RowsConnect == Spec => []ConnectingHasTask
<1>1. Init => TypeOK /\ TaskInv /\ SessInv /\ ConnectInv
  <2> SUFFICES ASSUME Init
               PROVE  TypeOK /\ TaskInv /\ SessInv /\ ConnectInv
    OBVIOUS
  <2>1. TypeOK
    BY WorkbenchAssumption DEF Init, TypeOK
  <2>2. TaskInv /\ SessInv /\ ConnectInv
    BY IdleHandler, IdleFields DEF Init, TaskInv, SessInv, Handler, ConnectInv,
       Connecting
  <2> QED
    BY <2>1, <2>2
<1>2. TypeOK /\ TaskInv /\ SessInv /\ ConnectInv /\ [Next]_vars
        => TypeOK' /\ TaskInv' /\ SessInv' /\ ConnectInv'
  BY TypeKept, TaskKept, SessKept, ConnectKept
<1>3. ConnectInv => ConnectingHasTask
  BY DEF ConnectInv, ConnectingHasTask, Connecting, Waits, Live
<1> QED
  BY <1>1, <1>2, <1>3, PTL DEF Spec
-----------------------------------------------------------------------------
(* The schema tree.  A node whose spinner turns, or that is open without   *)
(* children, is being loaded ...                                           *)

Waiting(n) == n \in loading \/ (n \in expanded /\ children[n] = None)
SpinInv == \A n \in Node : Waiting(n) => Loads(n) # {}

(* ... and what is shown, or will be, is as new as the last refresh.       *)
FreshAt(n) ==
  /\ children[n] # None => children[n] >= due[n]
  /\ \A t \in Task :
       task[t].kind = "load" /\ task[t].node = n /\ task[t].pc = "answer" =>
         task[t].got >= due[n]
FreshInv ==
  /\ \A n \in Node : due[n] <= cat[n[1]]
  /\ \A n \in Node \ late : FreshAt(n)

LoadsStay ==
  \A u \in Task : task[u].kind = "load" =>
    task'[u].kind = "load" /\ task'[u].node = task[u].node
AnswersFresh ==
  \A u \in Task : task'[u].kind = "load" /\ task'[u].pc = "answer" =>
    \/ /\ task[u].kind = "load" /\ task[u].pc = "answer"
       /\ task'[u].node = task[u].node /\ task'[u].got = task[u].got
    \/ task'[u].got = cat[task'[u].node[1]]
CatGrows == cat' \in [Conn -> Nat] /\ \A c \in Conn : cat[c] <= cat'[c]

LEMMA TaskStepAnswers ==
  ASSUME TypeOK, TaskInv, NEW t \in Task, TaskStep(t)
  PROVE  AnswersFresh
<1>0. Handler(task[t]) /\ task[t] \in TaskRec
  BY DEF TaskInv
<1>1. CASE Cleanup(t)
  BY <1>1, CleanupMoves, IdleFields DEF AnswersFresh
<1>2. CASE Moves(t)
  <2>1. \A u \in Task \ {t} : task'[u] = task[u]
    BY <1>2 DEF Moves, TaskInv
  <2> SUFFICES ASSUME task'[t].kind = "load", task'[t].pc = "answer"
               PROVE  task'[t].got = cat[task'[t].node[1]]
    BY <2>1 DEF AnswersFresh
  <2>2. task[t].kind = "load" /\ task'[t].node = task[t].node
    <3>1. task'[t] # Idle
      BY IdleFields
    <3>2. ~(task[t].kind = "ddl" /\ task'[t] = LoadOf(task[t].node))
      BY <1>0, LoadFields DEF Handler
    <3> QED
      BY <1>2, <3>1, <3>2 DEF Moves
  <2>3. CASE Ask(t)
    BY <1>0, <2>2, <2>3 DEF Ask, Handler, TaskInv, TaskRec
  <2>4. CASE ~Ask(t)
    <3>1. \/ task'[t] = Idle
          \/ \E pc \in {"list", "tunnel", "sleep", "connect", "opened", "boot",
                        "leave", "release", "clean", "ask", "exec", "secret"} :
               task'[t].pc = pc
          \/ task[t].kind # "load"
      <4>1. CASE Booted(t) \/ Listed(t) \/ Opened(t)
        BY <1>0, <4>1 DEF Booted, Listed, Opened, Gone, Fail, GoOn, Goto, Finish,
           Reconnect, TaskInv, TaskRec
      <4>2. CASE \/ BootFails(t) \/ SecretRead(t) \/ Slept(t) \/ Forward(t)
                 \/ Connect(t) \/ AttemptFails(t) \/ Persisted(t)
                 \/ Disconnect(t) \/ ReleaseTunnel(t)
        BY <1>0, <4>2 DEF BootFails, SecretRead, Slept, Attempt, Forward, Connect,
           AttemptFails, Persisted, Disconnect, ReleaseTunnel, Fail, Goto, Finish,
           TaskInv, TaskRec
      <4>3. CASE \/ NotFound(t) \/ AskFails(t) \/ Executed(t) \/ ExecFails(t)
                 \/ BatchLands(t) \/ LoadLands(t) \/ DdlLands(t) \/ ToolLands(t)
                 \/ Cleanup(t)
        <5>1. CASE NotFound(t) \/ AskFails(t)
          BY <1>0, <5>1 DEF NotFound, AskFails, Fail, Finish, Reconnect, TaskInv,
             TaskRec
        <5>2. CASE Executed(t) \/ ExecFails(t) \/ BatchLands(t)
          BY <1>0, <5>2 DEF Executed, ExecFails, BatchLands, Finish, TaskInv,
             TaskRec, Handler, Placed, Road, Batch
        <5>3. CASE LoadLands(t) \/ DdlLands(t) \/ ToolLands(t) \/ Cleanup(t)
          BY <1>0, <5>3 DEF LoadLands, DdlLands, ToolLands, Cleanup, Fail, Finish,
             TaskInv, TaskRec
        <5> QED
          BY <4>3, <5>1, <5>2, <5>3
      <4> QED
        BY <2>4, <4>1, <4>2, <4>3 DEF TaskStep
    <3> QED
      BY <2>2, <3>1, IdleFields
  <2> QED
    BY <2>3, <2>4
<1> QED
  BY <1>1, <1>2, TaskStepMoves

LEMMA TaskStepTree ==
  ASSUME TypeOK, TaskInv, NEW t \in Task, TaskStep(t)
  PROVE  /\ CatGrows
         /\ \/ /\ UNCHANGED <<tree, due, late>> /\ LoadsStay
            \/ /\ UNCHANGED <<due, late>> /\ Fail(t) /\ task[t].kind = "load"
            \/ LoadLands(t) \/ DdlLands(t)
<1>0. Handler(task[t]) /\ task[t] \in TaskRec
  BY DEF TaskInv
<1>1. CatGrows
  <2>1. \/ cat' = cat
        \/ cat' = [cat EXCEPT ![task[t].conn] = @ + 1] /\ task[t].conn \in Conn
    BY <1>0 DEF TaskStep, Booted, BootFails, Listed, SecretRead, Slept, Attempt,
       Forward, Connect, AttemptFails, Opened, Persisted, Disconnect,
       ReleaseTunnel, Cleanup, NotFound, Ask, AskFails, Executed, ExecFails,
       BatchLands, LoadLands, DdlLands, ToolLands, helper, Handler
  <2>2. cat \in [Conn -> Nat]
    BY DEF TypeOK
  <2> QED
    BY <2>1, <2>2 DEF CatGrows
<1>2. ~DdlLands(t) => UNCHANGED <<due, late>>
  BY DEF TaskStep, Booted, BootFails, Listed, SecretRead, Slept, Attempt,
     Forward, Connect, AttemptFails, Opened, Persisted, Disconnect,
     ReleaseTunnel, Cleanup, NotFound, Ask, AskFails, Executed, ExecFails,
     BatchLands, LoadLands, ToolLands, hist, marks
<1>3. \/ UNCHANGED tree \/ Fail(t) \/ LoadLands(t) \/ DdlLands(t)
  BY DEF TaskStep, Booted, BootFails, Listed, SecretRead, Slept, Attempt,
     Forward, Connect, AttemptFails, Opened, Persisted, Disconnect,
     ReleaseTunnel, Cleanup, NotFound, Ask, AskFails, Executed, ExecFails,
     BatchLands, ToolLands, Gone, tree
<1>4. CASE task[t].kind # "load"
  <2>1. LoadsStay
    <3>1. CASE Cleanup(t)
      BY <1>4, <3>1, CleanupMoves DEF LoadsStay
    <3>2. CASE Moves(t)
      BY <1>4, <3>2 DEF LoadsStay, Moves, TaskInv
    <3> QED
      BY <3>1, <3>2, TaskStepMoves
  <2>2. \/ UNCHANGED tree \/ DdlLands(t)
    BY <1>3, <1>4 DEF Fail, LoadLands
  <2> QED
    BY <1>1, <1>2, <2>1, <2>2
<1>5. CASE task[t].kind = "load"
  <2>1. Moves(t) /\ ~DdlLands(t)
    BY <1>0, <1>5, TaskStepMoves DEF Cleanup, Handler, Placed, Road, Batch, DdlLands
  <2>2. CASE task'[t] # Idle
    <3>1. LoadsStay
      BY <1>5, <2>1, <2>2 DEF LoadsStay, Moves, TaskInv
    <3>2. ~Fail(t)
      BY <2>2 DEF Fail, Finish, TaskInv
    <3> QED
      BY <1>1, <1>2, <1>3, <2>1, <3>1, <3>2
  <2>3. CASE task'[t] = Idle
    <3>1. Fail(t) \/ LoadLands(t)
      <4>1. CASE Booted(t) \/ Listed(t) \/ Opened(t) \/ AttemptFails(t) \/ NotFound(t)
        BY <1>0, <1>5, <2>3, <4>1, IdleFields DEF Booted, Listed, Opened, AttemptFails,
           NotFound, Retries, Gone, GoOn, Goto, Reconnect, TaskInv, TaskRec
      <4>2. CASE \/ SecretRead(t) \/ Slept(t) \/ Forward(t) \/ Connect(t)
                 \/ Persisted(t) \/ Disconnect(t) \/ ReleaseTunnel(t) \/ Ask(t)
                 \/ Executed(t)
        BY <1>0, <2>3, <4>2, IdleFields DEF SecretRead, Slept, Attempt, Forward,
           Connect, Persisted, Disconnect, ReleaseTunnel, Ask, Executed, Goto,
           TaskInv, TaskRec
      <4>3. CASE \/ BootFails(t) \/ AskFails(t) \/ ExecFails(t) \/ BatchLands(t)
                 \/ LoadLands(t) \/ DdlLands(t) \/ ToolLands(t) \/ Cleanup(t)
        BY <1>0, <1>5, <4>3 DEF BootFails, AskFails, ExecFails, BatchLands, DdlLands,
           ToolLands, Cleanup, Handler, Placed, Road, Batch
      <4> QED
        BY <4>1, <4>2, <4>3 DEF TaskStep
    <3> QED
      BY <1>1, <1>2, <1>5, <2>1, <3>1
  <2> QED
    BY <2>2, <2>3
<1> QED
  BY <1>4, <1>5
LEMMA SpinSame ==
  ASSUME SpinInv, LoadsStay, \A n \in Node : Waiting(n)' => Waiting(n)
  PROVE  SpinInv'
BY DEF SpinInv, LoadsStay, Loads

LEMMA TaskStepSpins ==
  ASSUME TypeOK, TaskInv, SpinInv, NEW t \in Task, TaskStep(t)
  PROVE  SpinInv'
<1>0. Handler(task[t]) /\ task[t] \in TaskRec
  BY DEF TaskInv
<1>1. CASE UNCHANGED tree /\ LoadsStay
  BY <1>1, SpinSame DEF tree, Waiting
<1>2. CASE task[t].kind = "load" /\ (Fail(t) \/ LoadLands(t))
  <2> DEFINE m == task[t].node
  <2>1. m \in Node
    BY <1>0, <1>2 DEF Handler
  <2>2. ~(m \in loading' \/ (m \in expanded' /\ children'[m] = None))
    <3>1. CASE Fail(t)
      BY <1>2, <3>1 DEF Fail
    <3>2. CASE LoadLands(t)
      <4>1. task[t].got \in Nat /\ task[t].got # None
        BY <1>0, <3>2, WorkbenchAssumption DEF LoadLands, Handler, Batch
      <4> QED
        BY <2>1, <3>2, <4>1 DEF LoadLands, TypeOK
    <3> QED
      BY <1>2, <3>1, <3>2
  <2>3. \A n \in Node \ {m} : Waiting(n)' => Waiting(n)
    BY <1>2 DEF Fail, LoadLands, Waiting, TypeOK
  <2>4. \A u \in Task \ {t} : task'[u] = task[u]
    BY <1>2 DEF Fail, LoadLands, Finish, TaskInv
  <2>5. ASSUME NEW n \in Node \ {m}, Waiting(n)'
        PROVE  Loads(n)' # {}
    <3>1. PICK u \in Task : task[u].kind = "load" /\ task[u].node = n
      BY <2>3, <2>5 DEF SpinInv, Loads
    <3>2. u # t
      BY <3>1
    <3> QED
      BY <2>4, <3>1, <3>2 DEF Loads
  <2>6. \A n \in Node : n = m => ~Waiting(n)'
    BY <2>2 DEF Waiting
  <2> QED
    BY <2>5, <2>6 DEF SpinInv
<1>3. CASE DdlLands(t)
  <2> DEFINE m == task[t].node
  <2>1. m \in Node /\ task[t].kind = "ddl"
    BY <1>0, <1>3 DEF DdlLands, Handler
  <2>2. \A n \in Node \ {m} : Waiting(n)' => Waiting(n)
    BY <1>3, <2>1 DEF DdlLands, Waiting, TypeOK
  <2>3. \A u \in Task \ {t} : task'[u] = task[u]
    BY <1>3 DEF DdlLands, Finish, TaskInv
  <2>4. LoadsStay
    BY <2>1, <2>3 DEF LoadsStay
  <2>5. ASSUME NEW n \in Node, n = m, Waiting(n)'
        PROVE  Loads(n)' # {}
    <3>1. CASE n \in expanded
      <4>1. task'[t].kind = "load" /\ task'[t].node = n
        BY <1>3, <2>1, <2>5, <3>1, LoadFields DEF DdlLands, TaskInv
      <4> QED
        BY <4>1 DEF Loads
    <3>2. CASE n \notin expanded
      <4>1. Waiting(n)
        BY <1>3, <2>5, <3>2 DEF DdlLands, Waiting
      <4> QED
        BY <2>4, <4>1 DEF SpinInv, Loads, LoadsStay
    <3> QED
      BY <3>1, <3>2
  <2>6. ASSUME NEW n \in Node \ {m}, Waiting(n)'
        PROVE  Loads(n)' # {}
    BY <2>2, <2>4, <2>6 DEF SpinInv, Loads, LoadsStay
  <2> QED
    BY <2>5, <2>6 DEF SpinInv
<1> QED
  BY <1>1, <1>2, <1>3, TaskStepTree DEF LoadLands

(* A click opens the node and loads it, or it has children.                *)
LEMMA UserSpins ==
  ASSUME TypeOK, TaskInv, SpinInv, NEW t \in Task, User(t)
  PROVE  SpinInv' /\ LoadsStay
<1>0. LoadsStay
  BY UserTasks, IdleFields DEF LoadsStay
<1>1. ASSUME UNCHANGED tree
      PROVE  SpinInv'
  BY <1>0, <1>1, SpinSame DEF tree, Waiting
<1>2. ASSUME NEW m \in Node, \A n \in Node \ {m} : Waiting(n)' => Waiting(n),
             \/ Waiting(m)' => Waiting(m)
             \/ \E u \in Task : task'[u].kind = "load" /\ task'[u].node = m
      PROVE  SpinInv'
  BY <1>0, <1>2 DEF SpinInv, Loads, LoadsStay
<1>3. ASSUME NEW n \in Node, Expand(t, n)
      PROVE  SpinInv'
  <2>1. \A m \in Node \ {n} : Waiting(m)' => Waiting(m)
    BY <1>3 DEF Expand, Waiting
  <2>2. CASE Starts(t, LoadOf(n))
    BY <1>2, <2>1, <2>2, UserStarts DEF Fresh
  <2>3. CASE children[n] # None /\ UNCHANGED loading
    BY <1>2, <1>3, <2>1, <2>3 DEF Expand, Waiting
  <2> QED
    BY <1>3, <2>2, <2>3 DEF Expand
<1>4. ASSUME NEW n \in Node, Refresh(t, n)
      PROVE  SpinInv'
  <2>1. \A m \in Node \ {n} : Waiting(m)' => Waiting(m)
    BY <1>4 DEF Refresh, Waiting, TypeOK
  <2>2. CASE Starts(t, LoadOf(n))
    BY <1>2, <2>1, <2>2, UserStarts DEF Fresh
  <2>3. CASE n \notin expanded /\ UNCHANGED loading
    BY <1>2, <1>4, <2>1, <2>3 DEF Refresh, Waiting
  <2> QED
    BY <1>4, <2>2, <2>3 DEF Refresh
<1>5. ASSUME NEW u \in Task, NEW c \in Conn, ClickConnection(t, u, c)
      PROVE  SpinInv'
  <2> DEFINE m == <<c, "conn">>
  <2>1. m \in Node
    BY DEF Node
  <2>2. \A n \in Node \ {m} : Waiting(n)' => Waiting(n)
    BY <1>5 DEF ClickConnection, Waiting
  <2>3. CASE task'[u].kind = "load" /\ task'[u].node = m
    BY <1>2, <2>1, <2>2, <2>3
  <2>4. CASE /\ loading' = loading
             /\ m \in expanded \/ children[m] # None
    <3>1. Waiting(m)' => Waiting(m)
      BY <1>5, <2>4 DEF ClickConnection, Waiting
    <3> HIDE DEF m
    <3> QED
      BY <1>2, <2>1, <2>2, <3>1
  <2> QED
    BY <1>5, <2>3, <2>4, ClickBegins
<1>6. CASE \/ Pane(t) \/ Dialog(t)
           \/ \E c \in Conn : OpenTable(t, c) \/ Delete(t, c) \/ Ddl(t, c) \/ AskAI(t, c)
  BY <1>0, <1>1, <1>6 DEF Pane, Mount, Run, EndTransaction, Dialog, Save, Test,
     OpenTable, Delete, Ddl, AskAI
<1> QED
  BY <1>0, <1>3, <1>4, <1>5, <1>6 DEF User, Sidebar, Menu

LEMMA SpinKept ==
  ASSUME TypeOK, TaskInv, SpinInv, [Next]_vars
  PROVE  SpinInv'
<1>1. CASE \/ HelperDies \/ ReloadTree \/ \E n \in Node : Collapse(n)
           \/ \E c \in Conn : TxnLost(c) \/ CatalogMoves(c)
           \/ UNCHANGED vars
  <2>1. ASSUME NEW u \in Task, task[u].kind = "load"
        PROVE  task'[u].kind = "load" /\ task'[u].node = task[u].node
    <3>1. task[u].pc # "exec"
      BY <2>1 DEF TaskInv, Handler, Placed, Road, Batch
    <3> QED
      BY <1>1, <2>1, <3>1 DEF HelperDies, ReloadTree, Collapse, TxnLost,
         CatalogMoves, vars
  <2>2. LoadsStay
    BY <2>1 DEF LoadsStay
  <2>3. \A n \in Node : Waiting(n)' => Waiting(n)
    BY <1>1 DEF HelperDies, ReloadTree, Collapse, TxnLost, CatalogMoves, vars,
       tree, Waiting
  <2> QED
    BY <2>2, <2>3, SpinSame
<1> QED
  BY <1>1, TaskStepSpins, UserSpins DEF Next
(* The catalog only grows, an answer of now is as new as any refresh, and  *)
(* a node that is refreshed while it is being loaded is late.              *)
LEMMA FreshSame ==
  ASSUME TypeOK, TypeOK', FreshInv, TaskInv', UNCHANGED <<children, due, late>>,
         CatGrows, AnswersFresh
  PROVE  FreshInv'
<1>1. ASSUME NEW n \in Node
      PROVE  due'[n] <= cat'[n[1]]
  <2>1. n[1] \in Conn
    BY DEF Node
  <2>2. due[n] \in Nat /\ cat[n[1]] \in Nat /\ cat'[n[1]] \in Nat
    BY <2>1 DEF TypeOK
  <2> QED
    BY <2>1, <2>2 DEF FreshInv, CatGrows
<1>2. ASSUME NEW n \in Node \ late, NEW u \in Task, task'[u].kind = "load",
             task'[u].node = n, task'[u].pc = "answer"
      PROVE  task'[u].got >= due'[n]
  <2>1. n[1] \in Conn
    BY DEF Node
  <2>2. due[n] \in Nat /\ cat[n[1]] \in Nat
    BY <2>1 DEF TypeOK
  <2>3. \/ /\ task[u].kind = "load" /\ task[u].pc = "answer"
           /\ task[u].node = n /\ task'[u].got = task[u].got
        \/ task'[u].got = cat[n[1]]
    BY <1>2 DEF AnswersFresh
  <2>4. due[n] <= cat[n[1]]
    BY DEF FreshInv
  <2>5. CASE task'[u].got = cat[n[1]]
    BY <2>2, <2>4, <2>5
  <2>6. CASE /\ task[u].kind = "load" /\ task[u].pc = "answer"
             /\ task[u].node = n /\ task'[u].got = task[u].got
    BY <2>6 DEF FreshInv, FreshAt
  <2> QED
    BY <2>3, <2>5, <2>6
<1>3. ASSUME NEW n \in Node \ late
      PROVE  FreshAt(n)'
  BY <1>2 DEF FreshInv, FreshAt
<1> QED
  BY <1>1, <1>3 DEF FreshInv

(* Nodes are noted: refreshed, and what they show is forgotten.            *)
LEMMA FreshNoted ==
  ASSUME TypeOK, FreshInv, AnswersFresh, UNCHANGED cat, NEW ns \in SUBSET Node,
         Noted(ns), TaskInv,
         \A n \in Node : children'[n] = IF n \in ns THEN None ELSE children[n],
         \A u \in Task : task'[u].kind = "load" /\ task'[u].pc = "answer" =>
           task'[u] = task[u]
  PROVE  FreshInv'
<1>1. ASSUME NEW n \in Node
      PROVE  due'[n] <= cat'[n[1]]
  <2>1. n[1] \in Conn
    BY DEF Node
  <2>2. due[n] \in Nat /\ cat[n[1]] \in Nat
    BY <2>1 DEF TypeOK
  <2> QED
    BY <2>2 DEF FreshInv, Noted
<1>2. ASSUME NEW n \in Node \ late'
      PROVE  FreshAt(n)'
  <2>1. CASE n \in ns
    <3>1. Loads(n) = {} /\ children'[n] = None
      BY <1>2, <2>1 DEF Noted
    <3> QED
      BY <3>1 DEF Loads, FreshAt
  <2>2. CASE n \notin ns
    <3>1. n \notin late /\ due'[n] = due[n] /\ children'[n] = children[n]
      BY <1>2, <2>2 DEF Noted
    <3> QED
      BY <3>1 DEF FreshInv, FreshAt
  <2> QED
    BY <2>1, <2>2
<1> QED
  BY <1>1, <1>2 DEF FreshInv

LEMMA FreshKept ==
  ASSUME TypeOK, TypeOK', TaskInv, TaskInv', FreshInv, [Next]_vars
  PROVE  FreshInv'
<1>0. /\ cat \in [Conn -> Nat]
      /\ UNCHANGED cat => CatGrows
  BY DEF TypeOK, CatGrows
<1>1. ASSUME NEW t \in Task, TaskStep(t), ~LoadLands(t), ~DdlLands(t)
      PROVE  FreshInv'
  <2>1. CatGrows /\ UNCHANGED <<children, due, late>>
    BY <1>1, TaskStepTree DEF Fail, tree
  <2> QED
    BY <1>1, <2>1, TaskStepAnswers, FreshSame
<1>2. ASSUME NEW t \in Task, LoadLands(t)
      PROVE  FreshInv'
  <2> DEFINE m == task[t].node
  <2>0. task[t].kind = "load" /\ task[t].pc = "answer" /\ m \in Node
    BY <1>2 DEF LoadLands, TaskInv, Handler
  <2>1. /\ UNCHANGED <<due, late, cat>> /\ Finish(t)
        /\ children' = [children EXCEPT ![m] = task[t].got]
    BY <1>2 DEF LoadLands, hist, marks, helper
  <2>2. \A u \in Task : task'[u].kind = "load" => task'[u] = task[u]
    BY <2>1, IdleFields DEF Finish, TaskInv
  <2>3. ASSUME NEW n \in Node \ late, children'[n] # None
        PROVE  children'[n] >= due[n]
    BY <2>0, <2>1, <2>3 DEF FreshInv, FreshAt, TypeOK
  <2>4. ASSUME NEW n \in Node \ late
        PROVE  FreshAt(n)'
    BY <2>1, <2>2, <2>3 DEF FreshInv, FreshAt
  <2> QED
    BY <2>1, <2>4 DEF FreshInv
<1>3. ASSUME NEW t \in Task, DdlLands(t)
      PROVE  FreshInv'
  <2> DEFINE m == task[t].node
  <2>1. /\ m \in Node /\ Noted({m}) /\ UNCHANGED cat
        /\ children' = [children EXCEPT ![m] = None]
    BY <1>3 DEF DdlLands, helper, TaskInv, Handler
  <2>2. \A u \in Task : task'[u].kind = "load" /\ task'[u].pc = "answer" =>
          task'[u] = task[u]
    BY <1>3, <2>1, IdleFields, LoadFields DEF DdlLands, Finish, TaskInv
  <2>3. AnswersFresh
    BY <2>2 DEF AnswersFresh
  <2>4. \A n \in Node : children'[n] = IF n \in {m} THEN None ELSE children[n]
    BY <2>1 DEF TypeOK
  <2>5. {m} \in SUBSET Node
    BY <2>1
  <2> HIDE DEF m
  <2> QED
    BY <2>1, <2>2, <2>3, <2>4, <2>5, FreshNoted
<1>4. ASSUME NEW t \in Task, User(t)
      PROVE  FreshInv'
  <2>1. \A u \in Task : task'[u].kind = "load" /\ task'[u].pc = "answer" =>
          task'[u] = task[u]
    BY <1>4, UserTasks
  <2>2. AnswersFresh
    BY <2>1 DEF AnswersFresh
  <2>3. UNCHANGED cat
    BY <1>4 DEF User, Pane, Mount, Run, EndTransaction, Sidebar, ClickConnection,
       OpenTable, Delete, Expand, Menu, Refresh, Ddl, Dialog, Save, Test, AskAI,
       helper
  <2>4. CASE UNCHANGED <<children, due, late>>
    BY <1>0, <2>2, <2>3, <2>4, FreshSame
  <2>5. ASSUME NEW n \in Node, Refresh(t, n)
        PROVE  FreshInv'
    <3>1. /\ Noted({n}) /\ children' = [children EXCEPT ![n] = None]
      BY <2>5 DEF Refresh
    <3>2. \A m \in Node : children'[m] = IF m \in {n} THEN None ELSE children[m]
      BY <3>1 DEF TypeOK
    <3> QED
      BY <2>1, <2>2, <2>3, <3>1, <3>2, FreshNoted
  <2>6. ~(\E n \in Node : Refresh(t, n)) => UNCHANGED <<children, due, late>>
    BY <1>4 DEF User, Pane, Mount, Run, EndTransaction, Sidebar, ClickConnection,
       OpenTable, Delete, Expand, Menu, Ddl, Dialog, Save, Test, AskAI, hist,
       marks, tree
  <2> QED
    BY <2>4, <2>5, <2>6
<1>5. ASSUME ReloadTree
      PROVE  FreshInv'
  <2>1. /\ Noted(Node) /\ UNCHANGED <<cat, task>>
        /\ \A n \in Node : children'[n] = IF n \in Node THEN None ELSE children[n]
    BY <1>5 DEF ReloadTree, helper
  <2>2. AnswersFresh
    BY <2>1 DEF AnswersFresh
  <2> QED
    BY <2>1, <2>2, FreshNoted
<1>6. ASSUME \/ HelperDies \/ \E n \in Node : Collapse(n)
             \/ \E c \in Conn : TxnLost(c) \/ CatalogMoves(c)
             \/ UNCHANGED vars
      PROVE  FreshInv'
  <2>1. UNCHANGED <<children, due, late>>
    BY <1>6 DEF HelperDies, Collapse, TxnLost, CatalogMoves, vars, hist, marks, tree
  <2>2. \A u \in Task : task'[u].pc = "answer" => task'[u] = task[u]
    <3> SUFFICES ASSUME NEW u \in Task, task'[u] # task[u]
                 PROVE  task'[u].pc # "answer"
      OBVIOUS
    <3>1. task'[u] = [task[u] EXCEPT !.pc = "ask"] /\ task[u] \in TaskRec
      BY <1>6 DEF HelperDies, Collapse, TxnLost, CatalogMoves, vars, TaskInv
    <3> QED
      BY <3>1 DEF TaskRec
  <2>3. CatGrows
    <3>1. cat' = cat \/ \E c \in Conn : cat' = [cat EXCEPT ![c] = @ + 1]
      BY <1>6 DEF HelperDies, Collapse, TxnLost, CatalogMoves, vars, helper
    <3> QED
      BY <1>0, <3>1 DEF CatGrows
  <2>4. AnswersFresh
    BY <2>2 DEF AnswersFresh
  <2> QED
    BY <2>1, <2>3, <2>4, FreshSame
<1> QED
  BY <1>1, <1>2, <1>3, <1>4, <1>5, <1>6 DEF Next, TaskStep

(* A spinner turns only while its node loads, an open node that does not   *)
(* load has children, and after a refresh the tree is as new as that       *)
(* refresh unless an older load was under way: whatever is collapsed,      *)
(* refreshed, dropped or fails meanwhile.                                  *)
THEOREM TreeIsSettled == Spec => []TreeSettles
<1>1. Init => TypeOK /\ TaskInv /\ SessInv /\ SpinInv /\ FreshInv
  <2> SUFFICES ASSUME Init
               PROVE  TypeOK /\ TaskInv /\ SessInv /\ SpinInv /\ FreshInv
    OBVIOUS
  <2>1. TypeOK
    BY WorkbenchAssumption DEF Init, TypeOK
  <2>2. TaskInv /\ SessInv
    BY IdleHandler, IdleFields DEF Init, TaskInv, SessInv, Handler
  <2>3. SpinInv /\ FreshInv
    <3>1. /\ loading = {} /\ expanded = {} /\ \A n \in Node : children[n] = None
          /\ \A u \in Task : task[u].kind = "none"
          /\ \A n \in Node : due[n] = 0 /\ cat[n[1]] = 0
      BY IdleFields DEF Init, Node
    <3> QED
      BY <3>1 DEF SpinInv, Waiting, FreshInv, FreshAt
  <2> QED
    BY <2>1, <2>2, <2>3
<1>2. /\ TypeOK /\ TaskInv /\ SessInv /\ SpinInv /\ FreshInv /\ [Next]_vars
      => TypeOK' /\ TaskInv' /\ SessInv' /\ SpinInv' /\ FreshInv'
  BY TypeKept, TaskKept, SessKept, SpinKept, FreshKept
<1>3. SpinInv /\ FreshInv => TreeSettles
  BY DEF SpinInv, Waiting, FreshInv, FreshAt, TreeSettles
<1> QED
  BY <1>1, <1>2, <1>3, PTL DEF Spec
-----------------------------------------------------------------------------
(* What is left of a connection.  A step of a handler is about its own     *)
(* connection, and a handler that a user starts is about a connection that *)
(* is saved, unless it strays.                                             *)

LEMMA OwnOnly ==
  ASSUME TypeOK, TaskInv, ConnectInv, NEW t \in Task, TaskStep(t)
  PROVE  /\ UNCHANGED <<saved, target, raced, left>>
         /\ \A c \in Conn : c # task[t].conn =>
              /\ open'[c] = open[c] /\ txn'[c] = txn[c]
              /\ session'[c] = session[c] /\ status'[c] = status[c]
              /\ c \in blurred' <=> c \in blurred
              /\ c \in lost' <=> c \in lost
         /\ active' = active \/ active' = None
            \/ (active' = task[t].conn /\ task[t].kind = "save")
<1>1. UNCHANGED <<saved, target, raced, left>>
  BY DEF TaskStep, Booted, BootFails, Listed, SecretRead, Slept, Attempt,
     Forward, Connect, AttemptFails, Opened, Persisted, Disconnect,
     ReleaseTunnel, Cleanup, NotFound, Ask, AskFails, Executed, ExecFails,
     BatchLands, LoadLands, DdlLands, ToolLands, hist, marks, races, conns
<1>2. active' = active \/ active' = None
      \/ (active' = task[t].conn /\ task[t].kind = "save")
  BY DEF TaskStep, Booted, BootFails, Listed, SecretRead, Slept, Attempt,
     Forward, Connect, AttemptFails, Opened, Persisted, Disconnect,
     ReleaseTunnel, Cleanup, NotFound, Ask, AskFails, Executed, ExecFails,
     BatchLands, LoadLands, DdlLands, ToolLands, conns
<1>3. ASSUME NEW c \in Conn, c # task[t].conn
      PROVE  open'[c] = open[c] /\ txn'[c] = txn[c]
  BY <1>3 DEF TaskStep, Booted, BootFails, Listed, SecretRead, Slept, Attempt,
     Forward, Connect, AttemptFails, Opened, Persisted, Disconnect,
     ReleaseTunnel, Cleanup, NotFound, Ask, AskFails, Executed, ExecFails,
     BatchLands, LoadLands, DdlLands, ToolLands, helper, TypeOK
<1>4. ASSUME NEW c \in Conn, c # task[t].conn
      PROVE  session'[c] = session[c]
  BY <1>4 DEF TaskStep, Booted, BootFails, Listed, SecretRead, Slept, Attempt,
     Forward, Connect, AttemptFails, Opened, Persisted, Disconnect,
     ReleaseTunnel, Cleanup, NotFound, Ask, AskFails, Executed, ExecFails,
     BatchLands, LoadLands, DdlLands, ToolLands, TypeOK, Fail, Gone,
     EnsureSession, BarAfterConnect
<1>5. ASSUME NEW c \in Conn, c # task[t].conn
      PROVE  status'[c] = status[c]
  BY <1>5 DEF TaskStep, Booted, BootFails, Listed, SecretRead, Slept, Attempt,
     Forward, Connect, AttemptFails, Opened, Persisted, Disconnect,
     ReleaseTunnel, Cleanup, NotFound, Ask, AskFails, Executed, ExecFails,
     BatchLands, LoadLands, DdlLands, ToolLands, Gone, ConnectInv
<1>6. ASSUME NEW c \in Conn, c # task[t].conn
      PROVE  /\ c \in blurred' <=> c \in blurred
             /\ c \in lost' <=> c \in lost
  BY <1>6 DEF TaskStep, Booted, BootFails, Listed, SecretRead, Slept, Attempt,
     Forward, Connect, AttemptFails, Opened, Persisted, Disconnect,
     ReleaseTunnel, Cleanup, NotFound, Ask, AskFails, Executed, ExecFails,
     BatchLands, LoadLands, DdlLands, Noted, ToolLands, hist, marks, Blur
<1> QED
  BY <1>1, <1>2, <1>3, <1>4, <1>5, <1>6

(* A handler that starts.                                                  *)
Started(u) ==
  LET c == task'[u].conn
      k == task'[u].kind
      via == task'[u].via
  IN /\ task[u] = Idle /\ task'[u].pc \in {"boot", "ask", "persist"}
     /\ c \in Conn /\ k # "none" /\ (task'[u].sess <=> k \in Batch)
     /\ \/ /\ k = "save" /\ saved' = saved \cup {c}
           /\ target' = [target EXCEPT ![c] = via]
           /\ left' = left \cup Leaves(task'[u])
           /\ (\E w \in Live(c) : task[w].kind = "delete") => c \in raced'
        \/ /\ k = "delete" /\ saved' = saved \ {c} /\ target' = target
           /\ c \in saved /\ via = target[c] /\ task'[u].pc = "persist"
           /\ Live(c) # {} => c \in raced'
        \/ /\ k \notin {"save", "delete"} /\ UNCHANGED <<saved, target>>
           /\ c \in saved \cup raced'
           /\ via # None => c \in raced' \/ via = target[c]

LEMMA UserStarted ==
  ASSUME TypeOK, TaskInv, NEW t \in Task, User(t)
  PROVE  /\ \A u \in Task : task'[u] = task[u] \/ Started(u)
         /\ raced \subseteq raced' /\ left \subseteq left'
         /\ UNCHANGED <<saved, target>> \/ \E u \in Task : Started(u)
         /\ \A u, w \in Task :
              Started(u) /\ task'[u].kind \in {"save", "delete"} /\ w # u =>
                task'[w] = task[w]
<1> DEFINE Goal ==
      /\ \A u \in Task : task'[u] = task[u] \/ Started(u)
      /\ raced \subseteq raced' /\ left \subseteq left'
      /\ UNCHANGED <<saved, target>> \/ \E u \in Task : Started(u)
      /\ \A u, w \in Task :
           Started(u) /\ task'[u].kind \in {"save", "delete"} /\ w # u =>
             task'[w] = task[w]
<1>1. ASSUME NEW k, NEW pc, NEW c, NEW via, Fresh(t, k, pc, c, via), Started(t)
      PROVE  Goal
  <2>1. \A u \in Task \ {t} : task'[u] = task[u]
    BY <1>1 DEF Fresh, Begun, TaskInv
  <2>2. \A u \in Task \ {t} : ~Started(u)
    BY <2>1, IdleFields DEF Started
  <2>3. raced \subseteq raced' /\ left \subseteq left'
    BY <1>1 DEF Fresh
  <2> QED
    BY <1>1, <2>1, <2>2, <2>3
<1>2. ASSUME NEW k \in {"select", "run", "end", "open", "ai", "ddl", "load"},
             NEW pc \in {"boot", "ask"}, NEW c,
             Fresh(t, k, pc, c, None), UNCHANGED <<saved, target>>
      PROVE  Goal
  <2>1. c \in saved \cup raced'
    BY <1>2 DEF Fresh, Strays
  <2>2. task'[t].sess <=> k \in Batch
    BY <1>2 DEF Fresh
  <2>3. Started(t)
    BY <1>2, <2>1, <2>2 DEF Fresh, Begun, Started
  <2> QED
    BY <1>1, <1>2, <2>3
<1>3. ASSUME Pane(t)
      PROVE  Goal
  <2>1. CASE Mount(t)
    <3>1. UNCHANGED <<saved, target>>
      BY <2>1 DEF Mount, conns
    <3> QED
      BY <1>2, <2>1, <3>1, UserStarts
  <2>2. CASE Run(t)
    <3>1. UNCHANGED <<saved, target>>
      BY <2>2 DEF Run, conns
    <3> QED
      BY <1>2, <2>2, <3>1, UserStarts
  <2>3. CASE EndTransaction(t)
    <3>1. UNCHANGED <<saved, target>>
      BY <2>3 DEF EndTransaction, conns
    <3> QED
      BY <1>2, <2>3, <3>1, UserStarts
  <2> QED
    BY <1>3, <2>1, <2>2, <2>3 DEF Pane
<1>4. ASSUME NEW c \in Conn, OpenTable(t, c) \/ Ddl(t, c) \/ AskAI(t, c)
      PROVE  Goal
  <2>1. UNCHANGED <<saved, target>>
    BY <1>4 DEF OpenTable, Ddl, AskAI, conns
  <2>2. \/ Fresh(t, "open", "boot", c, None) \/ Fresh(t, "ddl", "ask", c, None)
        \/ Fresh(t, "ai", "boot", c, None)
    BY <1>4, UserStarts
  <2> QED
    BY <1>2, <2>1, <2>2
<1>5. ASSUME NEW n \in Node, Expand(t, n) \/ Refresh(t, n)
      PROVE  Goal
  <2>1. UNCHANGED <<saved, target>>
    BY <1>5 DEF Expand, Refresh, conns
  <2>2. CASE Starts(t, LoadOf(n))
    <3>1. PICK pc \in {"boot", "ask"} : pc = LoadOf(n).pc
      BY LoadFields
    <3>2. Fresh(t, "load", pc, n[1], None)
      BY <2>2, <3>1, UserStarts
    <3> QED
      BY <1>2, <2>1, <3>2
  <2>3. CASE UNCHANGED <<task, races>>
    BY <2>1, <2>3, IdleFields DEF races, Started
  <2> QED
    BY <1>5, <2>2, <2>3 DEF Expand, Refresh
<1>6. ASSUME NEW c \in Conn, NEW u \in Task, ClickConnection(t, u, c)
      PROVE  Goal
  <2>1. c \in saved /\ UNCHANGED <<saved, target, raced, left>>
    BY <1>6 DEF ClickConnection, hist, races
  <2>2. /\ task' = [[task EXCEPT ![t] = task'[t]] EXCEPT ![u] = task'[u]]
        /\ task[t] = Idle /\ task[u] = Idle
    BY <1>6, ClickBegins
  <2>3. \A w \in Task : w # t /\ w # u => task'[w] = task[w]
    BY <2>2 DEF TaskInv
  <2>4. Started(t)
    BY ZenonT(40), <1>6, <2>1, ClickBegins DEF Started, Batch
  <2>5. task'[u] = Idle \/ Started(u)
    <3>1. task'[u] = Idle \/ task'[u].kind = "load"
      BY <1>6, ClickBegins
    <3>2. ASSUME task'[u].kind = "load"
          PROVE  task'[u].conn = c /\ task'[u].via = None
      BY <1>6, <3>2, ClickBegins, IdleFields
    <3>3. ASSUME task'[u].kind = "load"
          PROVE  ~task'[u].sess
      BY <1>6, <3>3, ClickBegins, IdleFields
    <3>4. ASSUME task'[u].kind = "load"
          PROVE  task'[u].pc = "boot"
      BY <1>6, <3>4, ClickBegins, IdleFields
    <3> QED
      BY <2>1, <2>2, <3>1, <3>2, <3>3, <3>4 DEF Started, Batch
  <2>6. \A w \in Task : Started(w) => task'[w].kind \notin {"save", "delete"}
    <3>1. task'[t].kind = "select"
      BY <1>6, ClickBegins
    <3>2. task'[u].kind \in {"none", "load"}
      BY <1>6, ClickBegins, IdleFields
    <3>3. \A w \in Task : w # t /\ w # u => ~Started(w)
      BY <2>3, IdleFields DEF Started
    <3> QED
      BY <3>1, <3>2, <3>3
  <2> QED
    BY <2>1, <2>2, <2>3, <2>4, <2>5, <2>6
<1>7. ASSUME NEW c \in Conn, Delete(t, c)
      PROVE  Goal
  <2>1. Fresh(t, "delete", "persist", c, target[c])
    BY <1>7, UserStarts
  <2>2. c \in saved /\ saved' = saved \ {c} /\ target' = target
    BY <1>7 DEF Delete
  <2>3. Live(c) # {} => c \in raced'
    BY <2>1 DEF Fresh, Strays
  <2>4. Started(t)
    BY <2>1, <2>2, <2>3 DEF Fresh, Begun, Started, Batch
  <2> QED
    BY <1>1, <2>1, <2>4
<1>8. ASSUME NEW c \in Conn, NEW via \in Target \cup {None}, Save(t, c, via)
      PROVE  Goal
  <2>1. Fresh(t, "save", "persist", c, via)
    BY <1>8, UserStarts
  <2>2. saved' = saved \cup {c} /\ target' = [target EXCEPT ![c] = via]
    BY <1>8 DEF Save
  <2>3. (\E w \in Live(c) : task[w].kind = "delete") => c \in raced'
    BY <2>1 DEF Fresh, Strays
  <2>4. Started(t)
    BY <2>1, <2>2, <2>3 DEF Fresh, Begun, Started, Batch
  <2> QED
    BY <1>1, <2>1, <2>4
<1>9. ASSUME NEW c \in Conn, NEW via \in Target \cup {None}, Test(t, c, via)
      PROVE  Goal
  <2>1. Fresh(t, "test", "boot", c, via)
    BY <1>9, UserStarts
  <2>2. UNCHANGED <<saved, target>>
    BY <1>9 DEF Test, conns
  <2>3. /\ c \in saved \cup raced'
        /\ c \in raced' \/ via = target[c]
    BY <2>1 DEF Fresh, Strays
  <2>4. Started(t)
    BY <2>1, <2>2, <2>3 DEF Fresh, Begun, Started, Batch
  <2> QED
    BY <1>1, <2>1, <2>4
<1> HIDE DEF Goal
<1>10. Goal
  <2>1. Sidebar(t) => Goal
    BY <1>4, <1>5, <1>6, <1>7 DEF Sidebar
  <2>2. Menu(t) => Goal
    BY <1>4, <1>5 DEF Menu
  <2>3. Dialog(t) => Goal
    BY <1>8, <1>9 DEF Dialog
  <2>4. (\E c \in Conn : AskAI(t, c)) => Goal
    BY <1>4
  <2> QED
    BY <1>3, <2>1, <2>2, <2>3, <2>4 DEF User
<1> QED
  BY <1>10 DEF Goal

(* The rest of a user's action.                                            *)
LEMMA UserFrame ==
  ASSUME TypeOK, TaskInv, NEW t \in Task, User(t)
  PROVE  /\ UNCHANGED <<open, txn, forwards, blurred, lost, status>>
         /\ active' = active \/ (active' \in saved /\ saved' = saved)
         /\ \A c \in Conn :
              \/ session'[c] = session[c]
              \/ /\ session[c] = None /\ session'[c] = NewSession
                 /\ \E u \in Task : Started(u) /\ task'[u].conn = c
<1>1. UNCHANGED <<open, txn, forwards, blurred, lost, status>>
  BY DEF User, Pane, Mount, Run, EndTransaction, Sidebar, ClickConnection,
     OpenTable, Delete, Expand, Menu, Refresh, Noted, Ddl, Dialog, Save, Test,
     AskAI, hist, marks, helper
<1>2. active' = active \/ (active' \in saved /\ saved' = saved)
  BY DEF User, Pane, Mount, Run, EndTransaction, Sidebar, ClickConnection,
     OpenTable, Delete, Expand, Menu, Refresh, Ddl, Dialog, Save, Test, AskAI,
     conns
<1>3. CASE Run(t)
  <2>1. Fresh(t, "run", "boot", active, None) /\ session' = EnsureSession(active)
    BY <1>3, UserStarts DEF Run
  <2>2. task'[t] # task[t] /\ task'[t].conn = active
    BY <2>1, IdleFields DEF Fresh, Begun
  <2>3. Started(t)
    BY <2>2, UserStarted
  <2> QED
    BY <1>1, <1>2, <2>1, <2>2, <2>3 DEF EnsureSession, TypeOK
<1>4. CASE ~Run(t)
  <2>1. UNCHANGED session
    BY <1>4 DEF User, Pane, Mount, EndTransaction, Sidebar, ClickConnection,
       OpenTable, Delete, Expand, Menu, Refresh, Ddl, Dialog, Save, Test, AskAI
  <2> QED
    BY <1>1, <1>2, <2>1
<1> QED
  BY <1>3, <1>4
(* Whatever is under way is about a connection that is saved, or that was  *)
(* misused; and it has its session, unless a deletion took it away.        *)
LiveInv ==
  \A t \in Task :
    /\ task[t].kind \notin {"none", "delete"} => task[t].conn \in saved \cup raced
    /\ task[t].kind \in Batch /\ ~task[t].sess => task[t].conn \in raced

(* A deletion has its connection to itself.                                *)
DeleteInv ==
  \A t \in Task : task[t].kind = "delete" /\ task[t].conn \notin raced =>
    /\ task[t].conn \notin saved /\ Live(task[t].conn) = {t}
    /\ task[t].pc \in {"release", "clean"} =>
         open[task[t].conn] = Closed /\ ~txn[task[t].conn]

LEMMA Alone ==
  ASSUME TaskInv, NEW t \in Task, task[t].kind # "none"
  PROVE  /\ t \in Live(task[t].conn) /\ task[t].pc # "idle"
         /\ task[t].conn \in Conn
BY IdleFields DEF TaskInv, Handler, Placed, Batch, Road, Live

(* What becomes of the other handlers when one takes a step.               *)
LEMMA OthersKept ==
  ASSUME TypeOK, TaskInv, NEW t \in Task, TaskStep(t)
  PROVE  /\ \A u \in Task \ {t} :
              /\ task'[u].kind = task[u].kind /\ task'[u].conn = task[u].conn
              /\ task'[u].pc = task[u].pc /\ task'[u].via = task[u].via
              /\ task'[u].got = task[u].got
              /\ (task'[u].sess <=> task[u].sess)
                 \/ (Cleanup(t) /\ task[u].conn = task[t].conn)
         /\ \/ task'[t].kind = "none" /\ task'[t].pc = "idle" /\ task'[t] = Idle
            \/ /\ task'[t].conn = task[t].conn /\ task'[t].pc # "idle"
               /\ task'[t].kind # "none" /\ task[t].kind # "none"
               /\ \/ task[t].kind = "ddl" /\ task'[t].kind = "load"
                  \/ task'[t].kind = task[t].kind
               /\ task'[t].sess <=> task[t].sess
<1>0. Handler(task[t])
  BY DEF TaskInv
<1>1. CASE Cleanup(t)
  <2>1. \A u \in Task \ {t} :
              /\ task'[u].kind = task[u].kind /\ task'[u].conn = task[u].conn
              /\ task'[u].pc = task[u].pc /\ task'[u].via = task[u].via
              /\ task'[u].got = task[u].got
    BY <1>1, CleanupMoves
  <2>2. ASSUME NEW u \in Task \ {t}, task[u].conn # task[t].conn
        PROVE  task'[u] = task[u]
    BY <1>1, <2>2 DEF Cleanup
  <2>3. task'[t] = Idle
    BY <1>1 DEF Cleanup
  <2> QED
    BY <1>1, <2>1, <2>2, <2>3, IdleFields
<1>2. CASE Moves(t)
  <2>1. \A u \in Task \ {t} : task'[u] = task[u]
    BY <1>2 DEF Moves, TaskInv
  <2>2. CASE task'[t] = Idle
    BY <2>1, <2>2, IdleFields
  <2>3. CASE task[t].kind = "ddl" /\ task'[t] = LoadOf(task[t].node)
    <3>1. /\ task'[t].conn = task[t].conn /\ task'[t].pc # "idle"
          /\ task'[t].kind = "load" /\ ~task'[t].sess
      <4>1. PICK n \in Node : n = task[t].node /\ n[1] = task[t].conn
        BY <1>0, <2>3 DEF Handler
      <4>2. task'[t] = LoadOf(n)
        BY <2>3, <4>1
      <4> QED
        BY ZenonT(40), <4>1, <4>2, LoadFields
    <3>2. ~task[t].sess
      BY <1>0, <2>3 DEF Handler, Batch
    <3> QED
      BY <2>1, <2>3, <3>1, <3>2
  <2>4. CASE /\ task'[t] # Idle
             /\ task'[t].kind = task[t].kind /\ task'[t].conn = task[t].conn
             /\ task'[t].node = task[t].node /\ task'[t].sess = task[t].sess
    <3>1. task'[t].pc # "idle" /\ task'[t].kind # "none"
      BY <1>2, <2>4 DEF Moves, Handler, Placed, Road, Batch
    <3> QED
      BY <2>1, <2>4, <3>1
  <2> QED
    BY <1>2, <2>2, <2>3, <2>4 DEF Moves
<1> QED
  BY <1>1, <1>2, TaskStepMoves

(* The steps that belong to no handler.                                    *)
Around ==
  \/ HelperDies \/ ReloadTree \/ \E n \in Node : Collapse(n)
  \/ \E c \in Conn : TxnLost(c) \/ CatalogMoves(c)
  \/ UNCHANGED vars

LEMMA AroundFrame ==
  ASSUME TypeOK, TaskInv, Around
  PROVE  /\ UNCHANGED <<saved, target, active, status, session, forwards, raced,
                        left>>
         /\ \A u \in Task :
              /\ task'[u].kind = task[u].kind /\ task'[u].conn = task[u].conn
              /\ task'[u].via = task[u].via /\ (task'[u].sess <=> task[u].sess)
              /\ \/ task'[u] = task[u]
                 \/ HelperDies /\ task[u].pc = "exec" /\ task'[u].pc = "ask"
         /\ \A c \in Conn : /\ open[c] = Closed => open'[c] = Closed
                            /\ ~txn[c] => ~txn'[c]
<1>1. UNCHANGED <<saved, target, active, status, session, forwards, raced, left>>
  BY DEF Around, HelperDies, ReloadTree, Collapse, TxnLost, CatalogMoves, vars,
     conns, hist, races
<1>2. ASSUME NEW u \in Task
      PROVE  /\ task'[u].kind = task[u].kind /\ task'[u].conn = task[u].conn
             /\ task'[u].via = task[u].via /\ (task'[u].sess <=> task[u].sess)
             /\ \/ task'[u] = task[u]
                \/ HelperDies /\ task[u].pc = "exec" /\ task'[u].pc = "ask"
  <2>1. task[u] \in TaskRec
    BY DEF TaskInv
  <2>2. \/ task'[u] = task[u]
        \/ /\ HelperDies /\ task[u].pc = "exec"
           /\ task'[u] = [task[u] EXCEPT !.pc = "ask"]
    BY DEF Around, HelperDies, ReloadTree, Collapse, TxnLost, CatalogMoves, vars
  <2> QED
    BY <2>1, <2>2 DEF TaskRec
<1>3. ASSUME NEW c \in Conn
      PROVE  /\ open[c] = Closed => open'[c] = Closed
             /\ ~txn[c] => ~txn'[c]
  <2>1. CASE HelperDies
    BY <2>1 DEF HelperDies
  <2>2. CASE ~HelperDies
    BY <2>2 DEF Around, ReloadTree, Collapse, TxnLost, CatalogMoves, vars,
       helper, TypeOK
  <2> QED
    BY <2>1, <2>2
<1> QED
  BY <1>1, <1>2, <1>3

LEMMA LiveKept ==
  ASSUME TypeOK, TaskInv, ConnectInv, LiveInv, DeleteInv, [Next]_vars
  PROVE  LiveInv'
<1>1. ASSUME NEW t \in Task, TaskStep(t)
      PROVE  LiveInv'
  <2>1. UNCHANGED <<saved, raced>>
    BY <1>1, OwnOnly
  <2>2. task'[t].kind \notin {"none", "delete"} => task'[t].conn \in saved \cup raced
    BY <1>1, OthersKept DEF LiveInv
  <2>3. task'[t].kind \in Batch /\ ~task'[t].sess => task'[t].conn \in raced
    BY <1>1, OthersKept DEF LiveInv, Batch
  <2>4. ASSUME NEW u \in Task \ {t}
        PROVE  /\ task'[u].kind \notin {"none", "delete"} =>
                    task'[u].conn \in saved \cup raced
               /\ task'[u].kind \in Batch /\ ~task'[u].sess =>
                    task'[u].conn \in raced
    <3>1. task'[u].kind = task[u].kind /\ task'[u].conn = task[u].conn
      BY <1>1, OthersKept
    <3>2. CASE task'[u].sess <=> task[u].sess
      BY <3>1, <3>2 DEF LiveInv
    <3>3. CASE Cleanup(t) /\ task[u].conn = task[t].conn
      <4>1. task[t].kind = "delete" /\ task[t].pc = "clean"
        BY <3>3 DEF Cleanup, TaskInv, Handler, Placed, Road, Batch
      <4>2. task[u].kind # "none" => u \in Live(task[t].conn)
        BY <3>3, Alone
      <4>3. task[u].kind # "none" => task[u].conn \in raced
        BY <3>3, <4>1, <4>2 DEF DeleteInv
      <4> QED
        BY <3>1, <4>3 DEF Batch
    <3> QED
      BY <1>1, <3>2, <3>3, OthersKept
  <2> QED
    BY <2>1, <2>2, <2>3, <2>4 DEF LiveInv
<1>2. ASSUME NEW t \in Task, User(t)
      PROVE  LiveInv'
  <2>0. raced \subseteq raced'
    BY <1>2, UserStarted
  <2>1. ASSUME NEW u \in Task, Started(u)
        PROVE  /\ task'[u].kind \notin {"none", "delete"} =>
                    task'[u].conn \in saved' \cup raced'
               /\ task'[u].kind \in Batch /\ ~task'[u].sess =>
                    task'[u].conn \in raced'
    BY <2>1 DEF Started
  <2>2. ASSUME NEW u \in Task, task'[u] = task[u]
        PROVE  /\ task'[u].kind \notin {"none", "delete"} =>
                    task'[u].conn \in saved' \cup raced'
               /\ task'[u].kind \in Batch /\ ~task'[u].sess =>
                    task'[u].conn \in raced'
    <3>1. task[u].kind \in Batch /\ ~task[u].sess => task[u].conn \in raced
      BY DEF LiveInv
    <3>2. SUFFICES ASSUME task[u].kind \notin {"none", "delete"}
                   PROVE  task[u].conn \in saved' \cup raced'
      BY <2>0, <2>2, <3>1
    <3>3. task[u].conn \in saved \cup raced /\ Live(task[u].conn) # {}
      BY <3>2, Alone DEF LiveInv
    <3>4. CASE saved' = saved
      BY <2>0, <3>3, <3>4
    <3>5. ASSUME NEW w \in Task, Started(w), saved' # saved
          PROVE  task[u].conn \in saved' \cup raced'
      BY <2>0, <3>3, <3>5 DEF Started
    <3> QED
      BY <1>2, <3>4, <3>5, UserStarted
  <2> QED
    BY <1>2, <2>1, <2>2, UserStarted DEF LiveInv
<1>3. CASE Around
  BY <1>3, AroundFrame DEF LiveInv
<1> QED
  BY <1>1, <1>2, <1>3 DEF Next, Around
(* A deletion goes on: it stays the only handler of its connection, which  *)
(* is closed once /disconnect was answered.                                *)
LEMMA OwnDeletion ==
  ASSUME TypeOK, TaskInv, ConnectInv, DeleteInv, NEW t \in Task, TaskStep(t),
         task'[t].kind = "delete", task'[t].pc \in {"release", "clean"},
         task[t].conn \notin raced
  PROVE  open'[task[t].conn] = Closed /\ ~txn'[task[t].conn]
<1>0. /\ task[t].kind = "delete" /\ Handler(task[t]) /\ task[t].conn \in Conn
      /\ task[t].pc \in {"persist", "leave", "release", "clean"}
      /\ task[t] \in TaskRec
  <2>1. task[t].kind = "delete"
    BY OthersKept
  <2> QED
    BY <2>1, Alone DEF TaskInv, Handler, Placed, Road, Batch
<1>1. CASE Persisted(t)
  BY <1>0, <1>1 DEF Persisted, Goto, TaskInv, TaskRec
<1>2. CASE Disconnect(t)
  BY <1>0, <1>2 DEF Disconnect, TypeOK
<1>3. CASE ReleaseTunnel(t)
  BY <1>0, <1>3 DEF ReleaseTunnel, DeleteInv, helper
<1>4. CASE Cleanup(t)
  BY <1>0, <1>4 DEF Cleanup, DeleteInv, helper
<1> QED
  BY <1>0, <1>1, <1>2, <1>3, <1>4 DEF TaskStep, Booted, BootFails, Listed,
     SecretRead, Slept, Forward, Connect, AttemptFails, Opened, NotFound, Ask,
     AskFails, Executed, ExecFails, BatchLands, LoadLands, DdlLands, ToolLands

LEMMA DeleteKept ==
  ASSUME TypeOK, TaskInv, TaskInv', ConnectInv, DeleteInv, [Next]_vars
  PROVE  DeleteInv'
<1>1. ASSUME NEW t \in Task, TaskStep(t)
      PROVE  DeleteInv'
  <2>1. UNCHANGED <<saved, raced>>
    BY <1>1, OwnOnly
  <2> SUFFICES ASSUME NEW u \in Task, NEW c \in Conn, task'[u].kind = "delete",
                      task'[u].conn = c, c \notin raced
               PROVE  /\ c \notin saved /\ Live(c)' = {u}
                      /\ task'[u].pc \in {"release", "clean"} =>
                           open'[c] = Closed /\ ~txn'[c]
    <3>1. \A u \in Task : task'[u].kind = "delete" => task'[u].conn \in Conn
      BY DEF TaskInv, Handler, Placed
    <3> QED
      BY <2>1, <3>1 DEF DeleteInv
  <2>2. task[u].kind = "delete" /\ task[u].conn = c
    BY <1>1, OthersKept
  <2>3. c \notin saved /\ Live(c) = {u}
    BY <2>2 DEF DeleteInv
  <2>4. Live(c)' = {u}
    <3>1. u \in Live(c)'
      BY <1>1, <2>3, OthersKept DEF Live
    <3>2. ASSUME NEW w \in Live(c)'
          PROVE  w \in Live(c)
      BY <1>1, <3>2, Alone, OthersKept, IdleFields DEF Live
    <3> QED
      BY <2>3, <3>1, <3>2
  <2>5. ASSUME task'[u].pc \in {"release", "clean"}
        PROVE  open'[c] = Closed /\ ~txn'[c]
    <3>1. CASE u = t
      BY <1>1, <2>2, <2>5, <3>1, OwnDeletion
    <3>2. CASE u # t
      <4>1. task[u].pc = task'[u].pc
        BY <1>1, <3>2, OthersKept
      <4>2. c # task[t].conn
        <5>1. task[t].pc # "idle"
          BY <1>1 DEF TaskStep, Booted, BootFails, Listed, SecretRead, Slept,
             Forward, Connect, AttemptFails, Opened, Persisted, Disconnect,
             ReleaseTunnel, Cleanup, NotFound, Ask, AskFails, Executed,
             ExecFails, BatchLands, LoadLands, DdlLands, ToolLands
        <5> QED
          BY <2>3, <3>2, <5>1 DEF Live
      <4>3. open[c] = Closed /\ ~txn[c]
        BY <2>2, <2>5, <4>1 DEF DeleteInv
      <4> QED
        BY <1>1, <4>2, <4>3, OwnOnly
    <3> QED
      BY <3>1, <3>2
  <2> QED
    BY <2>3, <2>4, <2>5
<1>2. ASSUME NEW t \in Task, User(t)
      PROVE  DeleteInv'
  <2>1. raced \subseteq raced' /\ UNCHANGED <<open, txn>>
    BY <1>2, UserStarted, UserFrame
  <2> SUFFICES ASSUME NEW u \in Task, NEW c \in Conn, task'[u].kind = "delete",
                      task'[u].conn = c, c \notin raced'
               PROVE  /\ c \notin saved' /\ Live(c)' = {u}
                      /\ task'[u].pc \in {"release", "clean"} =>
                           open'[c] = Closed /\ ~txn'[c]
    <3>1. \A u \in Task : task'[u].kind = "delete" => task'[u].conn \in Conn
      BY DEF TaskInv, Handler, Placed
    <3> QED
      BY <3>1 DEF DeleteInv
  <2>2. CASE task'[u] = task[u]
    <3>1. c \notin saved /\ Live(c) = {u}
      BY <2>1, <2>2 DEF DeleteInv
    <3>2. ASSUME NEW w \in Task, Started(w), task'[w].conn = c
          PROVE  FALSE
      BY <2>1, <2>2, <3>1, <3>2 DEF Started
    <3>3. c \notin saved'
      <4>1. CASE saved' = saved
        BY <3>1, <4>1
      <4>2. ASSUME NEW w \in Task, Started(w)
            PROVE  c \notin saved'
        BY <3>1, <3>2, <4>2 DEF Started
      <4> QED
        BY <1>2, <4>1, <4>2, UserStarted
    <3>4. Live(c)' = {u}
      BY <1>2, <2>2, <3>1, <3>2, UserStarted DEF Live
    <3> QED
      BY <2>1, <2>2, <3>3, <3>4 DEF DeleteInv
  <2>3. CASE task'[u] # task[u]
    <3>1. Started(u)
      BY <1>2, <2>3, UserStarted
    <3>2. /\ Live(c) = {} /\ saved' = saved \ {c} /\ task'[u].pc = "persist"
          /\ task[u] = Idle
      BY <3>1 DEF Started
    <3>3. ASSUME NEW w \in Live(c)'
          PROVE  w = u
      <4>1. task'[w] # task[w] /\ task'[w].conn = c
        BY <3>2, <3>3 DEF Live
      <4>2. w \in Task
        BY <3>3 DEF Live
      <4> QED
        BY <1>2, <3>1, <4>1, <4>2, UserStarted
    <3> QED
      BY <3>2, <3>3 DEF Live
  <2> QED
    BY <2>2, <2>3
<1>3. CASE Around
  <2>1. UNCHANGED <<saved, raced>>
    BY <1>3, AroundFrame
  <2>2. ASSUME NEW u \in Task
        PROVE  /\ task'[u].kind = task[u].kind /\ task'[u].conn = task[u].conn
               /\ task'[u].pc # task[u].pc => task'[u].pc = "ask" /\ task[u].pc = "exec"
    BY <1>3, AroundFrame
  <2>3. \A c \in Conn : Live(c)' = Live(c)
    BY <2>2 DEF Live
  <2>4. ASSUME NEW u \in Task, NEW c \in Conn, task'[u].kind = "delete",
               task'[u].conn = c, c \notin raced
        PROVE  /\ c \notin saved /\ Live(c)' = {u}
               /\ task'[u].pc \in {"release", "clean"} =>
                    open'[c] = Closed /\ ~txn'[c]
    <3>1. task[u].kind = "delete" /\ task[u].conn = c
      BY <2>2, <2>4
    <3>2. c \notin saved /\ Live(c) = {u}
      BY <2>4, <3>1 DEF DeleteInv
    <3>3. ASSUME task'[u].pc \in {"release", "clean"}
          PROVE  open'[c] = Closed /\ ~txn'[c]
      <4>1. task[u].pc = task'[u].pc
        BY <2>2, <3>3
      <4>2. open[c] = Closed /\ ~txn[c]
        BY <2>4, <3>1, <3>3, <4>1 DEF DeleteInv
      <4> QED
        BY <1>3, <4>2, AroundFrame
    <3> QED
      BY <2>3, <3>2, <3>3
  <2>5. \A u \in Task : task'[u].kind = "delete" => task'[u].conn \in Conn
    BY DEF TaskInv, Handler, Placed
  <2> QED
    BY <2>1, <2>4, <2>5 DEF DeleteInv
<1> QED
  BY <1>1, <1>2, <1>3 DEF Next, Around
(* A connection that is deleted, and that nobody misused, is closed and    *)
(* forgotten once its deletion has ended.                                  *)
GoneInv ==
  \A c \in Conn \ (saved \cup raced) : Live(c) = {} =>
    open[c] = Closed /\ session[c] = None /\ active # c /\ status[c] = "none"

LEMMA GoneKept ==
  ASSUME TypeOK, TaskInv, ConnectInv, LiveInv, DeleteInv, GoneInv, [Next]_vars
  PROVE  GoneInv'
<1>1. ASSUME NEW t \in Task, TaskStep(t)
      PROVE  GoneInv'
  <2>1. UNCHANGED <<saved, raced>>
    BY <1>1, OwnOnly
  <2> SUFFICES ASSUME NEW c \in Conn \ (saved \cup raced), Live(c)' = {}
               PROVE  /\ open'[c] = Closed /\ session'[c] = None
                      /\ active' # c /\ status'[c] = "none"
    BY <2>1 DEF GoneInv
  <2>2. ASSUME NEW u \in Task \ {t}
        PROVE  u \notin Live(c)
    BY <1>1, OthersKept DEF Live
  <2>3. CASE task[t].conn # c
    <3>1. Live(c) = {}
      BY <2>2, <2>3 DEF Live
    <3>2. /\ open[c] = Closed /\ session[c] = None /\ active # c
          /\ status[c] = "none"
      BY <3>1 DEF GoneInv
    <3> QED
      BY <1>1, <2>3, <3>2, OwnOnly, WorkbenchAssumption
  <2>4. CASE task[t].conn = c
    <3>1. task[t].pc # "idle" /\ task[t].kind # "none"
      BY <1>1 DEF TaskStep, Booted, BootFails, Listed, SecretRead, Slept,
         Forward, Connect, AttemptFails, Opened, Persisted, Disconnect,
         ReleaseTunnel, Cleanup, NotFound, Ask, AskFails, Executed,
         ExecFails, BatchLands, LoadLands, DdlLands, ToolLands, TaskInv,
         Handler, Placed, Road, Batch
    <3>2. task[t].kind = "delete"
      BY <2>4, <3>1 DEF LiveInv
    <3>3. task'[t] = Idle
      <4>1. task'[t].pc # "idle" => t \in Live(c)'
        BY <1>1, <2>4, OthersKept, IdleFields DEF Live
      <4> QED
        BY <1>1, <4>1, OthersKept
    <3>4. Cleanup(t)
      <4>1. task[t] \in TaskRec /\ Handler(task[t])
        BY DEF TaskInv
      <4>2. task[t].pc \in {"persist", "leave", "release", "clean"}
        BY <3>2, <4>1 DEF Handler, Placed, Road, Batch
      <4>3. ~(Persisted(t) \/ Disconnect(t) \/ ReleaseTunnel(t))
        BY <3>3, <4>1, IdleFields DEF Persisted, Disconnect, ReleaseTunnel, Goto,
           TaskInv, TaskRec
      <4> QED
        BY <1>1, <3>2, <4>2, <4>3 DEF TaskStep, Booted, BootFails, Listed,
           SecretRead, Slept, Forward, Connect, AttemptFails, Opened, NotFound,
           Ask, AskFails, Executed, ExecFails, BatchLands, LoadLands, DdlLands,
           ToolLands
    <3>5. open[c] = Closed
      BY <2>4, <3>2, <3>4 DEF DeleteInv, Cleanup
    <3>6. /\ open' = open /\ session' = [session EXCEPT ![c] = None]
          /\ status' = [status EXCEPT ![c] = "none"]
          /\ active' = IF active = c THEN None ELSE active
      BY <2>4, <3>4 DEF Cleanup, helper
    <3> QED
      BY <3>5, <3>6, WorkbenchAssumption DEF TypeOK, ConnectInv
  <2> QED
    BY <2>3, <2>4
<1>2. ASSUME NEW t \in Task, User(t)
      PROVE  GoneInv'
  <2> SUFFICES ASSUME NEW c \in Conn \ (saved' \cup raced'), Live(c)' = {}
               PROVE  /\ open'[c] = Closed /\ session'[c] = None
                      /\ active' # c /\ status'[c] = "none"
    BY DEF GoneInv
  <2>1. ASSUME NEW u \in Task, Started(u)
        PROVE  task'[u].conn # c
    BY <2>1 DEF Started, Live
  <2>2. c \notin saved /\ c \notin raced
    <3>1. CASE saved' = saved
      BY <1>2, <3>1, UserStarted
    <3>2. ASSUME NEW u \in Task, Started(u)
          PROVE  c \notin saved
      BY <2>1, <3>2 DEF Started
    <3> QED
      BY <1>2, <3>1, <3>2, UserStarted
  <2>3. Live(c) = {}
    <3>1. ASSUME NEW u \in Live(c)
          PROVE  u \in Live(c)'
      <4>1. task[u] # Idle
        BY IdleFields DEF Live
      <4> QED
        BY <1>2, <4>1, UserStarted DEF Live, Started
    <3> QED
      BY <3>1
  <2>4. /\ open[c] = Closed /\ session[c] = None /\ active # c
        /\ status[c] = "none"
    BY <2>2, <2>3 DEF GoneInv
  <2>5. /\ UNCHANGED <<open, status>>
        /\ active' = active \/ active' \in saved
        /\ session'[c] = session[c] \/ \E u \in Task : Started(u) /\ task'[u].conn = c
    BY <1>2, UserFrame
  <2> QED
    BY <2>1, <2>2, <2>4, <2>5
<1>3. CASE Around
  <2>1. UNCHANGED <<saved, raced, active, status, session>>
    BY <1>3, AroundFrame
  <2>2. ASSUME NEW u \in Task
        PROVE  /\ task'[u].conn = task[u].conn
               /\ task'[u].pc = "idle" => task[u].pc = "idle"
    BY <1>3, AroundFrame
  <2>3. \A c \in Conn : Live(c)' = {} => Live(c) = {}
    BY <2>2 DEF Live
  <2> QED
    BY <1>3, <2>1, <2>3, AroundFrame DEF GoneInv
<1> QED
  BY <1>1, <1>2, <1>3 DEF Next, Around

(* Every open forward belongs to somebody: to a record that is saved, to a *)
(* deletion that has yet to close it, to a connection somebody misused, or *)
(* an edit has left it.                                                    *)
Owned(f) ==
  \E d \in Conn :
    \/ d \in raced
    \/ d \in saved /\ target[d] = f
    \/ \E t \in Live(d) : task[t].kind = "delete" /\ task[t].via = f
                          /\ task[t].pc # "clean"
Rightful(v) ==
  \/ v.via \in left \/ v.conn \in raced
  \/ v.conn \in saved /\ v.via = target[v.conn]
ForwardInv ==
  /\ \A f \in forwards \ left : Owned(f)
  /\ \A t \in Task : task[t].kind # "delete" /\ task[t].via # None =>
       Rightful(task[t])

(* Where a handler's forward comes from.                                   *)
LEMMA ViaKept ==
  ASSUME TypeOK, TaskInv, NEW t \in Task, TaskStep(t), task'[t].via # None
  PROVE  \/ task'[t].via = task[t].via /\ task'[t].kind = task[t].kind
         \/ task[t].conn \in saved /\ task'[t].via = target[task[t].conn]
<1>0. task[t] \in TaskRec /\ Handler(task[t])
  BY DEF TaskInv
<1>1. CASE Booted(t) \/ BootFails(t) \/ Listed(t) \/ Opened(t) \/ NotFound(t)
  <2>1. CASE Booted(t)
    BY <1>0, <2>1, IdleFields DEF Booted, Fail, Finish, Gone, GoOn, Goto, TaskInv,
       TaskRec
  <2>2. CASE Listed(t)
    <3>1. GoOn(t) \/ Reconnect(t) \/ Gone(t)
      BY <2>2 DEF Listed
    <3>2. CASE GoOn(t)
      BY <1>0, <3>2, IdleFields DEF GoOn, Finish, TaskInv, TaskRec
    <3>4. CASE Gone(t)
      BY <1>0, <3>4, IdleFields DEF Gone, Fail, Finish, TaskInv, TaskRec
    <3>3. CASE Reconnect(t)
      BY <1>0, <3>3, IdleFields DEF Reconnect, TaskInv, TaskRec
    <3> QED
      BY <3>1, <3>2, <3>3, <3>4
  <2>3. CASE Opened(t)
    BY <1>0, <2>3, IdleFields DEF Opened, Fail, Finish, Gone, GoOn, Goto,
       Reconnect, TaskInv, TaskRec
  <2>4. CASE BootFails(t) \/ NotFound(t)
    BY <1>0, <2>4, IdleFields DEF BootFails, NotFound, Fail, Finish, Gone, Goto,
       Reconnect, TaskInv, TaskRec
  <2> QED
    BY <1>1, <2>1, <2>2, <2>3, <2>4
<1>2. CASE \/ SecretRead(t) \/ Slept(t) \/ Forward(t) \/ Connect(t)
           \/ AttemptFails(t) \/ Persisted(t) \/ Disconnect(t)
           \/ ReleaseTunnel(t) \/ Cleanup(t)
  BY <1>0, <1>2, IdleFields DEF SecretRead, Slept, Attempt, Forward, Connect,
     AttemptFails, Persisted, Disconnect, ReleaseTunnel, Cleanup, Fail, Finish,
     Goto, TaskInv, TaskRec
<1>3. CASE \/ Ask(t) \/ AskFails(t) \/ Executed(t) \/ ExecFails(t)
           \/ BatchLands(t) \/ LoadLands(t) \/ ToolLands(t)
  BY <1>0, <1>3, IdleFields DEF Ask, AskFails, Executed, ExecFails, BatchLands,
     LoadLands, ToolLands, Fail, Finish, Goto, TaskInv, TaskRec
<1>4. CASE DdlLands(t)
  <2>1. task'[t] = Idle \/ task'[t] = LoadOf(task[t].node)
    BY <1>4 DEF DdlLands, Finish, TaskInv
  <2>2. task[t].node \in Node
    BY <1>0, <1>4 DEF DdlLands, Handler
  <2> QED
    BY <2>1, <2>2, LoadFields, IdleFields
<1> QED
  BY <1>1, <1>2, <1>3, <1>4 DEF TaskStep
LEMMA ForwardKept ==
  ASSUME TypeOK, TaskInv, TaskInv', ConnectInv, ForwardInv, [Next]_vars
  PROVE  ForwardInv'
<1>1. ASSUME NEW t \in Task, TaskStep(t)
      PROVE  ForwardInv'
  <2>0. task[t] \in TaskRec /\ Handler(task[t])
    BY DEF TaskInv
  <2>1. UNCHANGED <<saved, target, raced, left>>
    BY <1>1, OwnOnly
  <2>2. CASE Forward(t)
    <3>1. /\ forwards' = forwards \cup ({task[t].via} \ {None})
          /\ task[t].kind # "delete" /\ task[t].conn \in Conn
      BY <2>0, <2>2 DEF Forward, Handler, Placed, Road, Batch
    <3>2. ASSUME NEW f \in forwards' \ left, f = task[t].via
          PROVE  Owned(f)'
      <4>1. task[t].via \notin left /\ task[t].via # None => Rightful(task[t])
        BY <3>1 DEF ForwardInv
      <4>2. None \notin forwards
        BY WorkbenchAssumption DEF TypeOK
      <4>3. task[t].via \in forwards' => task[t].via # None
        BY <3>1, <4>2
      <4> QED
        BY <2>1, <3>1, <3>2, <4>1, <4>3 DEF Rightful, Owned
    <3>3. ASSUME NEW f \in forwards \ left
          PROVE  Owned(f)'
      <4>1. Owned(f)
        BY DEF ForwardInv
      <4>2. \A d \in Conn : \A w \in Live(d) :
              task[w].kind = "delete" => task'[w] = task[w] /\ w \in Live(d)'
        BY <2>2, <3>1 DEF Forward, Goto, TaskInv, Live
      <4> QED
        BY <2>1, <4>1, <4>2 DEF Owned
    <3>4. \A f \in (forwards \ left)' : Owned(f)'
      BY <2>1, <3>1, <3>2, <3>3
    <3>5. \A u \in Task : /\ task'[u].kind = task[u].kind
                          /\ task'[u].conn = task[u].conn
                          /\ task'[u].via = task[u].via
      BY <2>0, <2>2 DEF Forward, Goto, TaskInv, TaskRec
    <3> QED
      BY <2>1, <3>4, <3>5 DEF ForwardInv, Rightful
  <2>3. CASE ~Forward(t)
    <3>1. forwards' = forwards \/ (ReleaseTunnel(t) /\ forwards' = forwards \ {task[t].via})
      BY <1>1, <2>3 DEF TaskStep, Booted, BootFails, Listed, SecretRead, Slept,
         Attempt, Connect, AttemptFails, Opened, Persisted, Disconnect,
         ReleaseTunnel, Cleanup, NotFound, Ask, AskFails, Executed, ExecFails,
         BatchLands, LoadLands, DdlLands, ToolLands
    <3>2. ASSUME NEW f \in forwards' \ left, NEW d \in Conn, NEW w \in Live(d),
                 task[w].kind = "delete", task[w].via = f, task[w].pc # "clean"
          PROVE  /\ w \in Live(d)' /\ task'[w].kind = "delete"
                 /\ task'[w].via = f /\ task'[w].pc # "clean"
      <4>1. CASE w # t
        BY <1>1, <3>2, <4>1, OthersKept DEF Live
      <4>2. CASE w = t
        <5>1. task[t].pc \in {"persist", "leave", "release"}
          BY <2>0, <3>2, <4>2 DEF Handler, Placed, Road, Batch, Live
        <5>2. ~ReleaseTunnel(t)
          BY <3>2, <4>2 DEF ReleaseTunnel
        <5>3. Persisted(t) \/ Disconnect(t)
          BY <1>1, <3>2, <4>2, <5>1, <5>2 DEF TaskStep, Booted, BootFails, Listed,
             SecretRead, Slept, Forward, Connect, AttemptFails, Opened, Cleanup,
             NotFound, Ask, AskFails, Executed, ExecFails, BatchLands, LoadLands,
             DdlLands, ToolLands
        <5> QED
          BY <2>0, <3>2, <4>2, <5>3 DEF Persisted, Disconnect, Goto, TaskInv,
             TaskRec, Live
      <4> QED
        BY <4>1, <4>2
    <3>3. ASSUME NEW f \in forwards' \ left
          PROVE  Owned(f)'
      <4>1. Owned(f)
        BY <3>1 DEF ForwardInv
      <4> QED
        BY <2>1, <3>2, <4>1 DEF Owned
    <3>4. ASSUME NEW u \in Task, task'[u].kind # "delete", task'[u].via # None
          PROVE  Rightful(task[u])' 
      <4>1. CASE u # t
        <5>1. /\ task'[u].kind = task[u].kind /\ task'[u].conn = task[u].conn
              /\ task'[u].via = task[u].via
          BY <1>1, <4>1, OthersKept
        <5> QED
          BY <2>1, <3>4, <5>1 DEF ForwardInv, Rightful
      <4>2. CASE u = t
        <5>1. task'[t].conn = task[t].conn
          BY <1>1, <3>4, <4>2, OthersKept, IdleFields
        <5>2. \/ task'[t].via = task[t].via /\ task'[t].kind = task[t].kind
              \/ task[t].conn \in saved /\ task'[t].via = target[task[t].conn]
          BY <1>1, <3>4, <4>2, ViaKept
        <5> QED
          BY <2>1, <3>4, <4>2, <5>1, <5>2 DEF ForwardInv, Rightful
      <4> QED
        BY <4>1, <4>2
    <3> QED
      BY <2>1, <3>3, <3>4 DEF ForwardInv
  <2> QED
    BY <2>2, <2>3
<1>2. ASSUME NEW t \in Task, User(t)
      PROVE  ForwardInv'
  <2>0. /\ UNCHANGED forwards /\ raced \subseteq raced' /\ left \subseteq left'
        /\ \A u \in Task : task'[u] = task[u] \/ Started(u)
        /\ UNCHANGED <<saved, target>> \/ \E u \in Task : Started(u)
        /\ target \in [Conn -> Target \cup {None}]
    BY <1>2, UserStarted, UserFrame DEF TypeOK
  <2>1. ASSUME NEW d \in saved, NEW f, f = target[d], f \notin left'
        PROVE  /\ Owned(f)'
               /\ Live(d) # {} =>
                    d \in raced' \/ (d \in saved' /\ target'[d] = f)
    <3>0. d \in Conn
      BY DEF TypeOK
    <3>1. CASE UNCHANGED <<saved, target>>
      BY <2>1, <3>0, <3>1 DEF Owned
    <3>2. ASSUME NEW u \in Task, Started(u)
          PROVE  /\ Owned(f)'
                 /\ Live(d) # {} =>
                      d \in raced' \/ (d \in saved' /\ target'[d] = f)
      <4> DEFINE c == task'[u].conn
                 via == task'[u].via
      <4>1. CASE task'[u].kind = "save"
        <5>1. /\ saved' = saved \cup {c} /\ target' = [target EXCEPT ![c] = via]
              /\ left' = left \cup Leaves(task'[u])
          BY <3>2, <4>1 DEF Started
        <5>2. target'[d] = target[d]
          <6>1. CASE d # c
            BY <2>0, <3>0, <5>1, <6>1
          <6>2. CASE d = c
            <7>1. via = target[d]
              BY <2>1, <4>1, <5>1, <6>2 DEF Leaves
            <7> QED
              BY <2>0, <3>0, <5>1, <6>2, <7>1
          <6> QED
            BY <6>1, <6>2
        <5> QED
          BY <2>1, <3>0, <5>1, <5>2 DEF Owned
      <4>2. CASE task'[u].kind = "delete"
        <5>1. /\ saved' = saved \ {c} /\ target' = target /\ c \in Conn
              /\ via = target[c] /\ task'[u].pc = "persist"
              /\ Live(c) # {} => c \in raced'
          BY <3>2, <4>2 DEF Started
        <5>2. CASE d # c
          BY <2>1, <3>0, <5>1, <5>2 DEF Owned
        <5>3. CASE d = c
          <6>1. u \in Live(d)'
            BY <5>1, <5>3 DEF Live
          <6> QED
            BY <2>1, <3>0, <4>2, <5>1, <5>3, <6>1 DEF Owned
        <5> QED
          BY <5>2, <5>3
      <4>3. CASE task'[u].kind \notin {"save", "delete"}
        <5>1. UNCHANGED <<saved, target>>
          BY <3>2, <4>3 DEF Started
        <5> QED
          BY <2>1, <3>0, <5>1 DEF Owned
      <4> QED
        BY <4>1, <4>2, <4>3
    <3> QED
      BY <2>0, <3>1, <3>2
  <2>2. ASSUME NEW f \in forwards \ left'
        PROVE  Owned(f)'
    <3>1. PICK d \in Conn :
            \/ d \in raced
            \/ d \in saved /\ target[d] = f
            \/ \E w \in Live(d) : task[w].kind = "delete" /\ task[w].via = f
                                  /\ task[w].pc # "clean"
      BY <2>0 DEF ForwardInv, Owned
    <3>2. CASE d \in raced
      BY <2>0, <3>2 DEF Owned
    <3>3. CASE d \in saved /\ target[d] = f
      BY <2>1, <3>3
    <3>4. ASSUME NEW w \in Live(d), task[w].kind = "delete", task[w].via = f,
                 task[w].pc # "clean"
          PROVE  Owned(f)'
      <4>1. task'[w] = task[w] /\ w \in Live(d)'
        BY <2>0, <3>4, IdleFields DEF Started, Live
      <4> QED
        BY <3>4, <4>1 DEF Owned
    <3> QED
      BY <3>1, <3>2, <3>3, <3>4
  <2>3. ASSUME NEW u \in Task, task'[u].kind # "delete", task'[u].via # None
        PROVE  Rightful(task[u])'
    <3>1. CASE task'[u] = task[u]
      <4>1. Rightful(task[u])
        BY <2>3, <3>1 DEF ForwardInv
      <4>2. task[u].kind # "none"
        BY <2>3, <3>1, IdleFields DEF TaskInv, Handler, Placed, Batch
      <4>3. Live(task[u].conn) # {}
        BY <4>2, Alone
      <4>4. CASE task[u].via \in left \/ task[u].conn \in raced
        BY <2>0, <3>1, <4>4 DEF Rightful
      <4>5. CASE /\ task[u].conn \in saved /\ task[u].via = target[task[u].conn]
                 /\ task[u].via \notin left'
        BY <2>1, <3>1, <4>3, <4>5 DEF Rightful
      <4>6. CASE task[u].via \in left'
        BY <3>1, <4>6 DEF Rightful
      <4> QED
        BY <4>1, <4>4, <4>5, <4>6 DEF Rightful
    <3>2. CASE Started(u)
      <4>1. CASE task'[u].kind = "save"
        BY <2>0, <3>2, <4>1 DEF Started, Rightful
      <4>2. CASE task'[u].kind # "save"
        BY <2>3, <3>2, <4>2 DEF Started, Rightful
      <4> QED
        BY <4>1, <4>2
    <3> QED
      BY <2>0, <3>1, <3>2
  <2> QED
    BY <2>0, <2>2, <2>3 DEF ForwardInv
<1>3. CASE Around
  <2>1. UNCHANGED <<saved, target, raced, left, forwards>>
    BY <1>3, AroundFrame
  <2>2. ASSUME NEW u \in Task
        PROVE  /\ task'[u].kind = task[u].kind /\ task'[u].conn = task[u].conn
               /\ task'[u].via = task[u].via
               /\ task'[u].pc # task[u].pc => task'[u].pc = "ask" /\ task[u].pc = "exec"
    BY <1>3, AroundFrame
  <2>3. \A f \in forwards \ left : Owned(f)'
    BY <2>1, <2>2 DEF ForwardInv, Owned, Live
  <2>4. ASSUME NEW u \in Task, task'[u].kind # "delete", task'[u].via # None
        PROVE  Rightful(task[u])'
    BY <2>1, <2>2, <2>4 DEF ForwardInv, Rightful
  <2> QED
    BY <2>1, <2>3, <2>4 DEF ForwardInv
<1> QED
  BY <1>1, <1>2, <1>3 DEF Next, Around

(* What the invariants say of a connection that was deleted.               *)
LEMMA NothingLeft ==
  ASSUME GoneInv, ForwardInv
  PROVE  DeletedLeavesNothing
<1> SUFFICES ASSUME NEW c \in Conn \ (saved \cup raced), Live(c) = {}
             PROVE  /\ open[c] = Closed /\ session[c] = None /\ active # c
                    /\ status[c] = "none"
                    /\ target[c] \in forwards \ left =>
                         \E d \in Conn \ {c} : d \in saved \cup raced \/ Live(d) # {}
  BY DEF DeletedLeavesNothing
<1>1. target[c] \in forwards \ left => Owned(target[c])
  BY DEF ForwardInv
<1>2. Owned(target[c]) =>
        \E d \in Conn \ {c} : d \in saved \cup raced \/ Live(d) # {}
  BY DEF Owned
<1> QED
  BY <1>1, <1>2 DEF GoneInv

CleanInv ==
  /\ TypeOK /\ TaskInv /\ SessInv /\ ConnectInv
  /\ LiveInv /\ DeleteInv /\ GoneInv /\ ForwardInv

LEMMA CleanInit == Init => CleanInv
<1> SUFFICES ASSUME Init
             PROVE  CleanInv
  OBVIOUS
<1>1. TypeOK
  BY WorkbenchAssumption DEF Init, TypeOK
<1>2. TaskInv /\ SessInv /\ ConnectInv
  BY IdleHandler, IdleFields DEF Init, TaskInv, SessInv, Handler, ConnectInv,
     Connecting
<1>3. \A t \in Task : task[t] = Idle
  BY DEF Init
<1>4. LiveInv /\ DeleteInv
  BY <1>3, IdleFields DEF LiveInv, DeleteInv, Batch
<1>5. GoneInv
  BY WorkbenchAssumption DEF Init, GoneInv
<1>6. ForwardInv
  BY <1>3, IdleFields DEF Init, ForwardInv
<1> QED
  BY <1>1, <1>2, <1>4, <1>5, <1>6 DEF CleanInv

LEMMA CleanKept == CleanInv /\ [Next]_vars => CleanInv'
<1> SUFFICES ASSUME CleanInv, [Next]_vars
             PROVE  CleanInv'
  OBVIOUS
<1> USE DEF CleanInv
<1>1. TypeOK' /\ TaskInv' /\ SessInv' /\ ConnectInv'
  BY TypeKept, TaskKept, SessKept, ConnectKept
<1>2. LiveInv' /\ DeleteInv' /\ GoneInv'
  BY <1>1, LiveKept, DeleteKept, GoneKept
<1>3. ForwardInv'
  BY <1>1, ForwardKept
<1> QED
  BY <1>1, <1>2, <1>3

(* A deleted connection leaves nothing behind in the window, the helper or *)
(* the host, unless it was used while it was deleted, another connection   *)
(* may have opened the same forward, or an edit left the forward open.     *)
THEOREM DeletionIsClean == Spec => []DeletedLeavesNothing
<1>1. CleanInv => DeletedLeavesNothing
  BY NothingLeft DEF CleanInv
<1> QED
  BY <1>1, CleanInit, CleanKept, PTL DEF Spec
-----------------------------------------------------------------------------
(* The transaction bar.  An answer that is on its way tells what the       *)
(* helper has now, and with none on its way but of batches that still run, *)
(* the bar tells it already.                                               *)

BarAt(c) ==
  /\ \A t \in Answers(c) : task[t].pc = "opened" => ~txn[c]
  /\ \A t \in Answers(c) : task[t].pc = "answer" => task[t].got = txn[c]
  /\ session[c] = None => ~txn[c]
  /\ session[c] # None /\ (\A t \in Answers(c) : task[t].pc = "exec") =>
       session[c].bar = txn[c]
BarInv == \A c \in Conn \ (blurred \cup lost \cup raced) : BarAt(c)

(* The bar of a connection: kept, or a new one that shows nothing open.    *)
BarKept(c) ==
  \/ session[c] = None /\ session'[c] = None
  \/ session[c] # None /\ session'[c] # None /\ session'[c].bar = session[c].bar
  \/ session[c] = None /\ session'[c] # None /\ session'[c].bar = FALSE

(* Answers that stay on their way, and batches that start or give up.      *)
AnswersKept(c) ==
  /\ \A t \in Answers(c)' :
       \/ task'[t].pc = "exec"
       \/ t \in Answers(c) /\ task'[t].pc = task[t].pc /\ task'[t].got = task[t].got
  /\ \A t \in Answers(c) :
       \/ task[t].pc = "exec"
       \/ t \in Answers(c)' /\ task'[t].pc = task[t].pc

LEMMA NewBar == NewSession # None /\ NewSession.bar = FALSE
<1>1. NewSession \in Session
  BY DEF NewSession, Session
<1>2. NewSession.bar = FALSE
  BY DEF NewSession
<1> QED
  BY <1>1, <1>2, SessionAssumption

LEMMA BarSame ==
  ASSUME TypeOK, NEW c \in Conn, BarAt(c), txn'[c] = txn[c], BarKept(c),
         AnswersKept(c)
  PROVE  BarAt(c)'
<1>1. /\ \A t \in Answers(c)' : task'[t].pc = "opened" => ~txn'[c]
      /\ \A t \in Answers(c)' : task'[t].pc = "answer" => task'[t].got = txn'[c]
  BY DEF AnswersKept, BarAt
<1>2. session'[c] = None => ~txn'[c]
  BY DEF BarKept, BarAt
<1>3. ASSUME session'[c] # None, \A t \in Answers(c)' : task'[t].pc = "exec"
      PROVE  session'[c].bar = txn'[c]
  <2>1. \A t \in Answers(c) : task[t].pc = "exec"
    BY <1>3 DEF AnswersKept
  <2>2. CASE session[c] # None
    BY <1>3, <2>1, <2>2 DEF BarKept, BarAt
  <2>3. CASE session[c] = None
    <3>1. ~txn[c] /\ txn[c] \in BOOLEAN /\ session'[c].bar = FALSE
      BY <1>3, <2>3 DEF BarKept, BarAt, TypeOK
    <3> QED
      BY <3>1
  <2> QED
    BY <2>2, <2>3
<1> QED
  BY <1>1, <1>2, <1>3 DEF BarAt

(* A user's action: answers stay on their way.                             *)
LEMMA UserBars ==
  ASSUME TypeOK, TaskInv, BarInv, NEW t \in Task, User(t)
  PROVE  BarInv'
<1> SUFFICES ASSUME NEW c \in Conn \ (blurred' \cup lost' \cup raced')
             PROVE  BarAt(c)'
  BY DEF BarInv
<1>1. /\ UNCHANGED <<txn, blurred, lost>> /\ raced \subseteq raced'
      /\ \A u \in Task : task'[u] = task[u] \/ Started(u)
  BY UserStarted, UserFrame
<1>2. BarAt(c)
  BY <1>1 DEF BarInv
<1>3. BarKept(c)
  <2>1. session'[c] = session[c] \/ (session[c] = None /\ session'[c] = NewSession)
    BY UserFrame
  <2> QED
    BY <2>1, NewBar DEF BarKept
<1>4. AnswersKept(c)
  BY <1>1, IdleFields DEF AnswersKept, Answers, Started
<1> QED
  BY <1>1, <1>2, <1>3, <1>4, BarSame

LEMMA AroundBars ==
  ASSUME TypeOK, TaskInv, BarInv, Around
  PROVE  BarInv'
<1> SUFFICES ASSUME NEW c \in Conn \ (blurred' \cup lost' \cup raced')
             PROVE  BarAt(c)'
  BY DEF BarInv
<1>1. ~HelperDies
  BY DEF HelperDies
<1>2. /\ txn'[c] = txn[c] /\ blurred' = blurred /\ lost \subseteq lost'
      /\ UNCHANGED <<raced, session, task>>
  BY <1>1 DEF Around, ReloadTree, Collapse, TxnLost, CatalogMoves, vars, helper,
     hist, marks, races, Noted, TypeOK
<1>3. BarAt(c)
  BY <1>2 DEF BarInv
<1>4. BarKept(c) /\ AnswersKept(c)
  BY <1>2 DEF BarKept, AnswersKept, Answers
<1> QED
  BY <1>2, <1>3, <1>4, BarSame

(* A step of a handler, as the bars of other connections see it.           *)
LEMMA OtherBars ==
  ASSUME TypeOK, TaskInv, ConnectInv, BarInv, NEW t \in Task, TaskStep(t),
         NEW c \in Conn \ (blurred' \cup lost' \cup raced'), c # task[t].conn
  PROVE  BarAt(c)'
<1>1. /\ txn'[c] = txn[c] /\ session'[c] = session[c]
      /\ c \notin blurred \cup lost \cup raced
  BY OwnOnly
<1>2. BarAt(c)
  BY <1>1 DEF BarInv
<1>3. ASSUME NEW u \in Task
      PROVE  /\ u \in Answers(c)' <=> u \in Answers(c)
             /\ u \in Answers(c) => /\ task'[u].pc = task[u].pc
                                    /\ task'[u].got = task[u].got
  <2>1. CASE u = t
    <3>1. task[t].conn # c /\ task'[t].conn # c
      BY OthersKept, IdleFields, WorkbenchAssumption
    <3> QED
      BY <2>1, <3>1 DEF Answers
  <2>2. CASE u # t
    BY <2>2, OthersKept DEF Answers
  <2> QED
    BY <2>1, <2>2
<1>4. BarKept(c) /\ AnswersKept(c)
  BY <1>1, <1>3 DEF BarKept, AnswersKept, Answers
<1> QED
  BY <1>1, <1>2, <1>4, BarSame

(* The connection's own bar: a step that brings no answer of it, and of   *)
(* which nothing but a batch that starts or gives up is seen.              *)
LEMMA QuietBars ==
  ASSUME TypeOK, TaskInv, ConnectInv, BarInv, NEW t \in Task, TaskStep(t),
         NEW c \in Conn \ (blurred' \cup lost' \cup raced'), c = task[t].conn,
         \A d \in Conn : d = c => (t \notin Answers(d)' \/ task'[t].pc = "exec"),
         UNCHANGED <<txn, blurred, lost>>, BarKept(c),
         t \notin Answers(c) \/ task[t].pc = "exec"
  PROVE  BarAt(c)'
<1>1. c \notin blurred \cup lost \cup raced
  BY OwnOnly
<1>2. BarAt(c)
  BY <1>1 DEF BarInv
<1>3. ASSUME NEW u \in Task, u # t
      PROVE  /\ u \in Answers(c)' <=> u \in Answers(c)
             /\ task'[u].pc = task[u].pc /\ task'[u].got = task[u].got
  BY <1>3, OthersKept DEF Answers
<1>4. AnswersKept(c)
  BY <1>3 DEF AnswersKept, Answers
<1> QED
  BY <1>2, <1>4, BarSame
LEMMA FailBar ==
  ASSUME TypeOK, TaskInv, SessInv, NEW t \in Task, NEW c \in Conn,
         c = task[t].conn, Fail(t)
  PROVE  BarKept(c)
<1>1. CASE task[t].kind = "run" /\ task[t].sess
  <2>1. session[c] \in Session /\ session[c] # None
    BY <1>1, SessionAssumption DEF SessInv, TypeOK
  <2>2. session'[c] = [session[c] EXCEPT !.request = None]
    BY <1>1 DEF Fail, TypeOK
  <2>3. session'[c] \in Session /\ session'[c].bar = session[c].bar
    BY <2>1, <2>2 DEF Session
  <2> QED
    BY <2>1, <2>3, SessionAssumption DEF BarKept
<1>2. CASE ~(task[t].kind = "run" /\ task[t].sess)
  BY <1>2 DEF Fail, BarKept
<1> QED
  BY <1>1, <1>2

LEMMA EnsureBar ==
  ASSUME TypeOK, NEW c \in Conn, session' = EnsureSession(c)
  PROVE  BarKept(c)
BY NewBar DEF EnsureSession, BarKept, TypeOK

(* /connect is answered: the bar, if there is one, is put out, and the     *)
(* connection has nothing open.                                            *)
LEMMA OpenedBars ==
  ASSUME TypeOK, TaskInv, SessInv, ConnectInv, BarInv, NEW t \in Task, Opened(t),
         NEW c \in Conn \ (blurred' \cup lost' \cup raced'), c = task[t].conn,
         task[t].kind # "test"
  PROVE  BarAt(c)'
<1>0. TaskStep(t) /\ UNCHANGED <<txn, blurred, lost, raced>>
  BY DEF TaskStep, Opened, helper, hist, marks, races
<1>1. t \in Answers(c) /\ task[t].pc = "opened"
  BY DEF Answers, Opened
<1>2. ~txn'[c] /\ txn[c] \in BOOLEAN /\ BarAt(c)
  BY <1>0, <1>1 DEF BarInv, BarAt, TypeOK
<1>3. t \notin Answers(c)'
  <2>1. task'[t].pc \in {"idle", "ask"}
    BY IdleFields DEF Opened, GoOn, Finish, TaskInv, TaskRec
  <2> QED
    BY <2>1 DEF Answers
<1>4. ASSUME NEW u \in Answers(c)'
      PROVE  u \in Answers(c) /\ task'[u].pc = task[u].pc /\ task'[u].got = task[u].got
  BY <1>0, <1>3, <1>4, OthersKept DEF Answers
<1>5. session'[c] = None \/ session'[c].bar = FALSE
  <2>1. \/ session' = EnsureSession(c) /\ session[c] = None
        \/ session' = BarAfterConnect(c)
    BY DEF Opened
  <2>2. CASE session' = EnsureSession(c) /\ session[c] = None
    BY <2>2, NewBar DEF EnsureSession, TypeOK
  <2>3. CASE session' = BarAfterConnect(c) /\ session[c] # None
    <3>1. session'[c] = [session[c] EXCEPT !.bar = FALSE] /\ session[c] \in Session
      BY <2>3 DEF BarAfterConnect, TypeOK
    <3> QED
      BY <3>1 DEF Session
  <2>4. CASE session' = BarAfterConnect(c) /\ session[c] = None
    BY <2>4 DEF BarAfterConnect
  <2> QED
    BY <2>1, <2>2, <2>3, <2>4
<1>6. txn'[c] = FALSE
  BY <1>0, <1>2
<1> QED
  BY <1>0, <1>2, <1>4, <1>5, <1>6 DEF BarAt

(* A batch lands, and the bar shows what it told.                          *)
LEMMA LandedBars ==
  ASSUME TypeOK, TaskInv, SessInv, ConnectInv, LiveInv, BarInv, NEW t \in Task,
         BatchLands(t), NEW c \in Conn \ (blurred' \cup lost' \cup raced'),
         c = task[t].conn
  PROVE  BarAt(c)'
<1>0. TaskStep(t) /\ UNCHANGED <<txn, blurred, lost, raced>>
  BY DEF TaskStep, BatchLands, helper, hist, marks, races
<1>1. t \in Answers(c) /\ task[t].pc = "answer" /\ task[t].kind \in Batch
  BY DEF Answers, BatchLands, Batch
<1>2. task[t].got = txn[c] /\ BarAt(c)
  BY <1>0, <1>1 DEF BarInv, BarAt
<1>3. task[t].sess /\ session[c] \in Session /\ session[c] # None
  <2>1. task[t].sess
    BY <1>0, <1>1 DEF LiveInv
  <2> QED
    BY <2>1, SessionAssumption DEF SessInv, TypeOK
<1>4. session'[c].bar = txn[c]
  <2> DEFINE r == IF task[t].kind = "run" THEN None ELSE session[c].request
  <2>1. session'[c] = [session[c] EXCEPT !.bar = task[t].got, !.request = r]
    BY <1>3 DEF BatchLands, TypeOK, Session
  <2> HIDE DEF r
  <2> QED
    BY <1>2, <1>3, <2>1 DEF Session
<1>5. session'[c] # None
  <2>1. SessionGrows
    BY <1>0, StepGrows, <1>1 DEF Cleanup
  <2> QED
    BY <1>3, <2>1 DEF SessionGrows
<1>6. task'[t].pc = "idle"
  BY IdleFields DEF BatchLands, Finish, TaskInv
<1>7. ASSUME NEW u \in Answers(c)'
      PROVE  u \in Answers(c) /\ task'[u].pc = task[u].pc /\ task'[u].got = task[u].got
  BY <1>0, <1>6, <1>7, OthersKept DEF Answers
<1> QED
  BY <1>0, <1>2, <1>4, <1>5, <1>7 DEF BarAt

(* /connect reached the helper, or a batch ended there: nothing else is on *)
(* its way, or the connection is blurred.                                  *)
LEMMA HelperBars ==
  ASSUME TypeOK, TaskInv, SessInv, ConnectInv, LiveInv, BarInv, NEW t \in Task,
         (Connect(t) /\ task[t].kind # "test") \/ (Executed(t) /\ busy[task[t].conn] = t),
         NEW c \in Conn \ (blurred' \cup lost' \cup raced'), c = task[t].conn
  PROVE  BarAt(c)'
<1>0. TaskStep(t) /\ UNCHANGED <<session, raced>> /\ task[t].pc # "idle"
  BY DEF TaskStep, Connect, Executed, races
<1>1. Answers(c) \subseteq {t}
  BY DEF Connect, Executed, Blur
<1>2. ASSUME NEW u \in Answers(c)'
      PROVE  u = t
  <2>1. u # t => u \in Answers(c)
    BY <1>0, <1>2, OthersKept DEF Answers
  <2> QED
    BY <1>1, <2>1
<1>3. CASE Connect(t)
  <2>1. task'[t].pc = "opened" /\ task'[t].conn = c /\ task'[t].kind # "test"
    BY <1>3 DEF Connect, Executed, Goto, TaskInv, TaskRec
  <2>2. ~txn'[c]
    BY <1>3 DEF Connect, Executed, TypeOK
  <2>3. t \in Answers(c)'
    BY <2>1 DEF Answers
  <2> QED
    BY <1>2, <2>1, <2>2, <2>3 DEF BarAt
<1>4. CASE Executed(t)
  <2>1. PICK b \in BOOLEAN :
          /\ task' = [task EXCEPT ![t].pc = "answer", ![t].got = b]
          /\ txn' = [txn EXCEPT ![c] = b]
    BY <1>4 DEF Connect, Executed
  <2>2. task[t] \in TaskRec /\ Handler(task[t]) /\ task[t].pc = "exec"
    BY <1>4 DEF TaskInv, Executed
  <2>3. /\ task'[t].pc = "answer" /\ task'[t].got = b /\ task'[t].conn = c
        /\ task'[t].kind = task[t].kind
    BY <2>1, <2>2 DEF TaskInv, TaskRec
  <2>4. task[t].kind \in Batch
    BY <2>2 DEF Handler, Placed, Road, Batch
  <2>5. session[c] # None
    <3>1. task[t].sess
      BY <1>0, <2>4 DEF LiveInv
    <3> QED
      BY <3>1 DEF SessInv
  <2>6. t \in Answers(c)'
    BY <2>3, <2>4 DEF Answers, Batch
  <2>7. txn'[c] = b
    BY <2>1 DEF TypeOK
  <2> QED
    BY <1>0, <1>2, <2>3, <2>5, <2>6, <2>7 DEF BarAt
<1> QED
  BY <1>3, <1>4

LEMMA CleanupBars ==
  ASSUME TypeOK, TaskInv, ConnectInv, DeleteInv, BarInv, NEW t \in Task,
         Cleanup(t), NEW c \in Conn \ (blurred' \cup lost' \cup raced'),
         c = task[t].conn
  PROVE  BarAt(c)'
<1>1. UNCHANGED <<txn, blurred, lost, raced>> /\ session'[c] = None
  BY DEF Cleanup, helper, hist, marks, races, TypeOK
<1>2. task[t].kind = "delete" /\ task[t].pc = "clean"
  BY DEF Cleanup, TaskInv, Handler, Placed, Road, Batch
<1>3. ~txn[c] /\ Live(c) = {t}
  BY <1>1, <1>2 DEF DeleteInv
<1>4. Answers(c)' = {}
  <2>1. ASSUME NEW u \in Answers(c)'
        PROVE  FALSE
    <3>1. CASE u = t
      BY <2>1, <3>1, CleanupMoves, IdleFields DEF Answers
    <3>2. CASE u # t
      <4>1. u \in Live(c)
        BY <2>1, <3>2, CleanupMoves DEF Answers, Live
      <4> QED
        BY <1>3, <3>2, <4>1
    <3> QED
      BY <3>1, <3>2
  <2> QED
    BY <2>1
<1> QED
  BY <1>1, <1>3, <1>4 DEF BarAt
LEMMA OwnBars ==
  ASSUME TypeOK, TaskInv, SessInv, ConnectInv, LiveInv, DeleteInv, BarInv,
         NEW t \in Task, TaskStep(t),
         NEW c \in Conn \ (blurred' \cup lost' \cup raced'), c = task[t].conn
  PROVE  BarAt(c)'
<1>0. task[t] \in TaskRec /\ Handler(task[t])
  BY DEF TaskInv
<1>1. CASE Connect(t) /\ task[t].kind # "test"
  BY <1>1, HelperBars
<1>2. CASE Executed(t)
  <2>1. busy[c] = t
    BY <1>2 DEF Executed
  <2> QED
    BY <1>2, <2>1, HelperBars
<1>3. CASE Opened(t) /\ task[t].kind # "test"
  BY <1>3, OpenedBars
<1>4. CASE BatchLands(t)
  BY <1>4, LandedBars
<1>5. CASE Cleanup(t)
  BY <1>5, CleanupBars
<1>6. CASE Disconnect(t)
  BY <1>6 DEF Disconnect
<1>7. CASE ExecFails(t)
  <2>1. UNCHANGED <<txn, blurred, lost>> /\ Fail(t) /\ task[t].pc = "exec"
    BY <1>7 DEF ExecFails
  <2>2. \A d \in Conn : d = c => t \notin Answers(d)'
    BY <2>1, IdleFields DEF Fail, Finish, TaskInv, Answers
  <2> QED
    BY <2>1, <2>2, QuietBars, FailBar
<1>8. CASE \/ Connect(t) /\ task[t].kind = "test"
           \/ Opened(t) /\ task[t].kind = "test"
  <2>1. UNCHANGED <<txn, blurred, lost, session>>
    <3>1. CASE Connect(t) /\ task[t].kind = "test"
      BY <3>1 DEF Connect, helper
    <3>2. CASE Opened(t) /\ task[t].kind = "test"
      <4>1. session' = session
        BY <3>2 DEF Opened, Retries
      <4>2. UNCHANGED <<helper, hist>>
        BY <3>2 DEF Opened
      <4> QED
        BY <4>1, <4>2 DEF helper, hist, marks
    <3> QED
      BY <1>8, <3>1, <3>2
  <2>2. task'[t].kind \in {"none", "test"}
    BY <1>0, <1>8, IdleFields DEF Connect, Opened, Retries, Goto, Finish, TaskInv,
       TaskRec
  <2>3. \A d \in Conn : d = c => t \notin Answers(d)'
    <3>1. \A d \in Conn : t \in Answers(d)' => task'[t].pc # "idle" /\ task'[t].kind # "test"
      BY DEF Answers
    <3>2. task'[t].kind = "none" => task'[t].pc = "idle"
      BY <1>8, OthersKept DEF TaskStep
    <3> QED
      BY <2>2, <3>1, <3>2
  <2>4. t \notin Answers(c) /\ BarKept(c)
    BY <1>8, <2>1 DEF Answers, BarKept
  <2> QED
    BY <2>1, <2>3, <2>4, QuietBars
<1>9. CASE \/ SecretRead(t) \/ Slept(t) \/ Forward(t) \/ Persisted(t)
           \/ ReleaseTunnel(t) \/ Ask(t) \/ LoadLands(t) \/ DdlLands(t)
           \/ ToolLands(t)
  <2>1. UNCHANGED <<txn, blurred, lost, session>>
    BY <1>9 DEF SecretRead, Slept, Attempt, Forward, Persisted, ReleaseTunnel, Ask,
       LoadLands, DdlLands, Noted, ToolLands, helper, hist, marks
  <2>2. t \notin Answers(c)
    BY <1>9 DEF SecretRead, Slept, Forward, Persisted, ReleaseTunnel, Ask,
       LoadLands, DdlLands, ToolLands, Answers
  <2>3. \/ task'[t].pc \in {"tunnel", "connect", "boot", "leave", "clean", "idle",
                           "exec", "ask"}
        \/ task'[t].kind \notin {"run", "end"} /\ task'[t].pc = "answer"
    <3>1. CASE DdlLands(t)
      <4>1. task'[t] = Idle \/ task'[t] = LoadOf(task[t].node)
        BY <3>1 DEF DdlLands, Finish, TaskInv
      <4>2. task[t].node \in Node
        BY <1>0, <3>1 DEF DdlLands, Handler
      <4>3. LoadOf(task[t].node).pc \in {"boot", "ask"}
        BY <4>2, LoadFields
      <4> QED
        BY <4>1, <4>3, IdleFields
    <3>2. CASE ~DdlLands(t)
      BY <1>0, <1>9, <3>2, IdleFields DEF SecretRead, Slept, Attempt, Forward,
         Persisted, ReleaseTunnel, Ask, LoadLands, ToolLands, Goto, Finish,
         TaskInv, TaskRec
    <3> QED
      BY <3>1, <3>2
  <2>4. \A d \in Conn : d = c => (t \notin Answers(d)' \/ task'[t].pc = "exec")
    BY <2>3 DEF Answers
  <2>5. BarKept(c)
    BY <2>1 DEF BarKept
  <2> QED
    BY <2>1, <2>2, <2>4, <2>5, QuietBars
<1>10. CASE \/ Booted(t) \/ BootFails(t) \/ Listed(t) \/ AttemptFails(t)
            \/ NotFound(t) \/ AskFails(t)
  <2>1. UNCHANGED <<txn, blurred, lost>>
    BY <1>10 DEF Booted, BootFails, Listed, AttemptFails, NotFound, AskFails,
       helper, hist, marks
  <2>2. t \notin Answers(c)
    BY <1>10 DEF Booted, BootFails, Listed, AttemptFails, NotFound, AskFails, Answers
  <2>3. task'[t].pc \in {"idle", "ask", "tunnel", "list", "secret", "sleep"}
    <3>1. CASE Booted(t) \/ Listed(t)
      BY <1>0, <3>1, IdleFields DEF Booted, Listed, Gone, Fail, Finish, GoOn, Goto,
         Reconnect, TaskInv, TaskRec
    <3>2. CASE BootFails(t) \/ AttemptFails(t) \/ NotFound(t) \/ AskFails(t)
      BY <1>0, <3>2, IdleFields DEF BootFails, AttemptFails, NotFound, AskFails,
         Fail, Finish, Goto, Reconnect, TaskInv, TaskRec
    <3> QED
      BY <1>10, <3>1, <3>2
  <2>4. \A d \in Conn : d = c => t \notin Answers(d)'
    BY <2>3 DEF Answers
  <2>5. BarKept(c)
    <3>1. \/ UNCHANGED session \/ Fail(t) \/ session' = EnsureSession(c)
          \/ /\ task[t].kind = "run" /\ task[t].sess
             /\ session' = [session EXCEPT ![c].request = t]
      BY <1>10 DEF Booted, BootFails, Listed, AttemptFails, NotFound, AskFails, Gone
    <3>2. CASE /\ task[t].kind = "run" /\ task[t].sess
               /\ session' = [session EXCEPT ![c].request = t]
      <4>1. session[c] \in Session /\ session[c] # None
        BY <3>2, SessionAssumption DEF SessInv, TypeOK
      <4>2. session'[c] = [session[c] EXCEPT !.request = t]
        BY <3>2 DEF TypeOK
      <4>3. session'[c] \in Session /\ session'[c].bar = session[c].bar
        BY <4>1, <4>2 DEF Session
      <4> QED
        BY <4>1, <4>3, SessionAssumption DEF BarKept
    <3>3. UNCHANGED session => BarKept(c)
      BY DEF BarKept
    <3> QED
      BY <3>1, <3>2, <3>3, FailBar, EnsureBar
  <2> QED
    BY <2>1, <2>2, <2>4, <2>5, QuietBars
<1> QED
  BY <1>1, <1>2, <1>3, <1>4, <1>5, <1>6, <1>7, <1>8, <1>9, <1>10 DEF TaskStep

LEMMA BarsKept == CleanInv /\ BarInv /\ [Next]_vars => BarInv'
<1> SUFFICES ASSUME CleanInv, BarInv, [Next]_vars
             PROVE  BarInv'
  OBVIOUS
<1> USE DEF CleanInv
<1>1. ASSUME NEW t \in Task, TaskStep(t)
      PROVE  BarInv'
  <2> SUFFICES ASSUME NEW c \in Conn \ (blurred' \cup lost' \cup raced')
               PROVE  BarAt(c)'
    BY DEF BarInv
  <2> QED
    BY <1>1, OtherBars, OwnBars
<1>2. ASSUME NEW t \in Task, User(t)
      PROVE  BarInv'
  BY <1>2, UserBars
<1>3. Around => BarInv'
  BY AroundBars
<1> QED
  BY <1>1, <1>2, <1>3 DEF Next, Around

(* With no answer on its way the bar shows the transaction the helper has, *)
(* whatever connected, ran, committed or failed in between, unless answers *)
(* overtook each other, the transaction ended unasked, or the connection   *)
(* was misused.                                                            *)
THEOREM BarIsRight == Spec => []BarTellsTruth
<1>1. Init => BarInv
  <2> SUFFICES ASSUME Init
               PROVE  BarInv
    OBVIOUS
  <2>1. \A c \in Conn : Answers(c) = {}
    BY IdleFields DEF Init, Answers
  <2> QED
    BY <2>1 DEF Init, BarInv, BarAt
<1>2. BarInv => BarTellsTruth
  BY DEF BarInv, BarAt, BarTellsTruth
<1> QED
  BY <1>1, <1>2, CleanInit, CleanKept, BarsKept, PTL DEF Spec
=============================================================================
