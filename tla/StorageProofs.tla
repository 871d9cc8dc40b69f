---------------------------- MODULE StorageProofs ----------------------------
(***************************************************************************)
(* Theorems about Storage, for any windows, connections, handlers,         *)
(* statements and faults: every variable has its type, the keychain        *)
(* follows what was asked of it, and so do the list of connections and the *)
(* query history.                                                          *)
(***************************************************************************)
EXTENDS Storage, SequenceTheorems, WellFoundedInduction, TLAPS

-----------------------------------------------------------------------------
(* Types: what a handler of each kind holds at each of its places.         *)

Password  == Nat \cup {None}
Passwords == [Conn -> Password]
Offers    == [Managed -> Nat \cup {None}]
Backups   == [rows : Rows, pw : Passwords]
Value     == Rows \cup Log \cup Offers \cup Backups \cup {None}

Kind == {"none", "load", "refresh", "sync", "save", "delete", "export",
         "import", "record", "look", "clear"}
Pc == {"idle", "get", "got", "file", "offers", "put", "key", "wipe",
       "history", "hget", "hgot", "hput", "seal", "open", "each"}

TaskRec == [kind : Kind, pc : Pc, win : Window, conn : Conn \cup {None},
            text : Statement \cup (SUBSET Conn) \cup {None}, rev : Nat,
            ver : Nat, val : Value, pw : Password \cup Passwords,
            todo : SUBSET Conn, at : SUBSET Conn]

Logs == {"record", "look", "clear"}

Stands(k, pc) ==
  \/ k = "none" /\ pc = "idle"
  \/ k = "load" /\ pc \in {"get", "got", "file", "offers", "put"}
  \/ k = "refresh" /\ pc \in {"get", "got"}
  \/ k = "sync" /\ pc \in {"file", "offers", "put"}
  \/ k = "save" /\ pc \in {"put", "key"}
  \/ k = "delete" /\ pc \in {"put", "wipe", "history", "hget", "hgot", "hput"}
  \/ k = "export" /\ pc = "seal"
  \/ k = "import" /\ pc \in {"open", "each", "key", "wipe", "put"}
  \/ k \in Logs /\ pc \in {"hget", "hgot", "hput"}

(* The value a handler carries.                                            *)
Carries(v) ==
  /\ v.pc \in {"put", "got"} \/ v.kind = "export" => v.val \in Rows
  /\ v.pc = "offers" => v.val \in Offers
  /\ v.kind = "import" /\ v.pc # "put" => v.val \in Backups
  /\ v.pc \in {"hgot", "hput"} => v.val \in Log
  /\ v.pw \in IF v.kind = "export" THEN Passwords ELSE Password
  /\ v.kind = "record" => v.text \in Statement
  /\ v.kind = "save" /\ v.pc = "key" => v.pw # None

(* The connections it is about.                                            *)
About(v) ==
  /\ v.kind \in {"save", "delete"} \cup Logs \/ v.pc \in {"key", "wipe"}
       => v.conn \in Conn
  /\ v.kind \in {"save", "delete"} => v.at = {v.conn}
  /\ v.kind = "import" =>
       /\ v.todo \subseteq v.at
       /\ v.pc = "open" => v.todo = v.at
       /\ v.pc \in {"key", "wipe"} => v.conn \in v.at \ v.todo
  /\ v.kind \notin {"save", "delete", "import"} => v.at = {}

Handler(v) ==
  /\ v \in TaskRec /\ Stands(v.kind, v.pc)
  /\ v.kind = "none" => v = Idle
  /\ Carries(v) /\ About(v)

TaskInv == task \in [Task -> TaskRec] /\ \A t \in Task : Handler(task[t])

HostOK ==
  /\ stored \in Rows /\ keys \in Passwords /\ offer \in Offers
  /\ backup \in Backups /\ logged \in Log
  /\ kept \in Rows /\ pass \in Passwords /\ past \in Log
WindowOK ==
  /\ up \subseteq Window /\ memory \in [Window -> Rows]
  /\ revision \in [Window -> Nat] /\ mirror \in [Window -> Log \cup {None}]
  /\ queue \in [Window -> Seq(Task)]
  /\ view \in [Window -> Nat] /\ hview \in [Window -> Nat]
CountOK ==
  /\ ops \in Nat /\ faults \in Nat /\ version \in Nat /\ hversion \in Nat
  /\ crossed \subseteq Conn /\ touched \subseteq Conn /\ mixed \in BOOLEAN

TypeInv == HostOK /\ WindowOK /\ CountOK /\ TaskInv

LEMMA TypesHold == TypeInv => TypeOK
BY DEF TypeInv, HostOK, WindowOK, TypeOK, Passwords, Password, Offers, Backups

LEMMA IdleHandler == Handler(Idle)
<1>1. Main \in Window
  BY StorageAssumption
<1>2. Idle \in TaskRec
  BY <1>1 DEF Idle, TaskRec, Kind, Pc, Value, Password
<1> QED
  BY <1>2 DEF Handler, Idle, Stands, Carries, About, Logs, Password

LEMMA NobodyTypes == Nobody \in Rows /\ Nobody \in Passwords /\ Blank \in Log
BY EmptySeq DEF Nobody, Rows, Passwords, Password, Blank, Log

LEMMA HadType == ASSUME NEW rows PROVE Had(rows) \in SUBSET Conn
BY DEF Had

(* One handler moves.                                                      *)
LEMMA OneMoves ==
  ASSUME TaskInv, NEW t \in Task, NEW v, Handler(v),
         task' = [task EXCEPT ![t] = v]
  PROVE  TaskInv'
BY DEF TaskInv, Handler

LEMMA GoesTo ==
  ASSUME TaskInv, NEW t \in Task, NEW p \in Pc, Goto(t, p),
         Handler([task[t] EXCEPT !.pc = p])
  PROVE  TaskInv'
<1>1. task' = [task EXCEPT ![t] = [task[t] EXCEPT !.pc = p]]
  BY DEF Goto, TaskInv
<1> QED
  BY <1>1, OneMoves

LEMMA Finishes ==
  ASSUME TaskInv, NEW t \in Task, Finish(t)
  PROVE  TaskInv'
BY OneMoves, IdleHandler DEF Finish
-----------------------------------------------------------------------------
(* Calls and queues.                                                       *)
LEMMA QueueGrows ==
  ASSUME WindowOK, NEW t \in Task, NEW w \in Window,
         queue' = [queue EXCEPT ![w] = Append(@, t)]
  PROVE  queue' \in [Window -> Seq(Task)]
<1>1. Append(queue[w], t) \in Seq(Task)
  BY AppendProperties DEF WindowOK
<1> QED
  BY <1>1 DEF WindowOK

LEMMA QueueShrinks ==
  ASSUME WindowOK, TaskInv, NEW t \in Task, First(t), Served(t)
  PROVE  queue' \in [Window -> Seq(Task)]
<1> DEFINE w == task[t].win
<1>1. w \in Window /\ queue[w] \in Seq(Task) /\ queue[w] # <<>>
  BY DEF WindowOK, TaskInv, TaskRec, First
<1>2. Tail(queue[w]) \in Seq(Task)
  BY <1>1, HeadTailProperties
<1> QED
  BY <1>1, <1>2 DEF WindowOK, Served

(* After the write, the handler is at the password or done.                *)
LEMMA AfterPutTyped ==
  ASSUME TaskInv, NEW t \in Task, task[t].pc = "put", AfterPut(t, task[t])
  PROVE  TaskInv'
<1> DEFINE v == task[t]
<1>1. Handler(v)
  BY DEF TaskInv
<1>2. CASE v.kind = "save" /\ v.pw # None
  <2>1. Handler([v EXCEPT !.pc = "key"])
    BY <1>1, <1>2 DEF Handler, TaskRec, Pc, Stands, Carries, About, Logs
  <2>2. Goto(t, "key")
    BY <1>2 DEF AfterPut
  <2> QED
    BY <2>1, <2>2, GoesTo DEF Pc
<1>3. CASE v.kind = "delete"
  <2>1. Handler([v EXCEPT !.pc = "wipe"])
    BY <1>1, <1>3 DEF Handler, TaskRec, Pc, Stands, Carries, About, Logs
  <2>2. Goto(t, "wipe")
    BY <1>3 DEF AfterPut
  <2> QED
    BY <2>1, <2>2, GoesTo DEF Pc
<1>4. CASE ~(v.kind = "save" /\ v.pw # None) /\ v.kind # "delete"
  BY <1>4, Finishes DEF AfterPut
<1> QED
  BY <1>2, <1>3, <1>4

LEMMA PutTyped ==
  ASSUME TypeInv, NEW t \in Task, Put(t)
  PROVE  TypeInv'
<1> DEFINE v == task[t]
<1>0. Handler(v) /\ v.win \in Window /\ v.val \in Rows
  BY DEF TypeInv, TaskInv, Handler, TaskRec, Carries, Put
<1>1. TaskInv'
  BY AfterPutTyped DEF TypeInv, Put
<1>2. queue' \in [Window -> Seq(Task)]
  BY QueueShrinks DEF TypeInv, Put
<1>3. HostOK'
  BY <1>0 DEF TypeInv, HostOK, Put, ideal
<1>4. WindowOK'
  <2>1. view' \in [Window -> Nat]
    <3>1. view' = [view EXCEPT ![v.win] = version + 1] \/ view' = view
      BY DEF Put
    <3>2. view \in [Window -> Nat] /\ version \in Nat
      BY DEF TypeInv, WindowOK, CountOK
    <3> QED
      BY <3>1, <3>2, <1>0
  <2> QED
    BY <1>2, <2>1 DEF TypeInv, WindowOK, Put, window
<1>5. CountOK'
  BY <1>0 DEF TypeInv, CountOK, Put, counts
<1> QED
  BY <1>1, <1>3, <1>4, <1>5 DEF TypeInv

LEMMA PutFailsTyped ==
  ASSUME TypeInv, NEW t \in Task, PutFails(t)
  PROVE  TypeInv'
<1> DEFINE v == task[t]
<1>0. Handler(v) /\ v.win \in Window
  BY DEF TypeInv, TaskInv, Handler, TaskRec
<1>1. TaskInv'
  BY AfterPutTyped DEF TypeInv, PutFails
<1>2. queue' \in [Window -> Seq(Task)]
  BY QueueShrinks DEF TypeInv, PutFails
<1>3. HostOK'
  BY DEF TypeInv, HostOK, PutFails, ideal, host
<1>4. WindowOK'
  BY <1>0, <1>2 DEF TypeInv, WindowOK, CountOK, PutFails, window
<1>5. CountOK'
  BY DEF TypeInv, CountOK, PutFails, MayFail
<1> QED
  BY <1>1, <1>3, <1>4, <1>5 DEF TypeInv

LEMMA GotTyped ==
  ASSUME TypeInv, NEW t \in Task, Got(t)
  PROVE  TypeInv'
<1> DEFINE v == task[t]
           u == [v EXCEPT !.pc = "got", !.val = stored, !.ver = version]
<1>0. Handler(v)
  BY DEF TypeInv, TaskInv
<1>1. TaskInv'
  <2>1. Handler(u)
    BY ZenonT(40), <1>0 DEF TypeInv, HostOK, CountOK, Got, Handler, TaskRec, Pc, Value,
                Stands, Carries, About, Logs
  <2>2. task' = [task EXCEPT ![t] = u]
    BY DEF Got, TypeInv, TaskInv
  <2> QED
    BY <2>1, <2>2, OneMoves DEF TypeInv
<1>2. queue' \in [Window -> Seq(Task)]
  BY QueueShrinks DEF TypeInv, Got
<1> QED
  BY <1>1, <1>2 DEF TypeInv, HostOK, WindowOK, CountOK, Got, host, window,
                    counts, views, ideal, marks

LEMMA GetFailsTyped ==
  ASSUME TypeInv, NEW t \in Task, GetFails(t)
  PROVE  TypeInv'
<1> DEFINE v == task[t]
<1>0. Handler(v)
  BY DEF TypeInv, TaskInv
<1>1. TaskInv'
  <2>1. CASE v.kind = "load"
    <3>1. Handler([v EXCEPT !.pc = "file"])
      BY <1>0, <2>1 DEF Handler, TaskRec, Pc, Stands, Carries, About, Logs
    <3> QED
      BY <3>1, <2>1, GoesTo DEF TypeInv, GetFails, Pc
  <2>2. CASE v.kind # "load"
    BY <2>2, Finishes DEF TypeInv, GetFails
  <2> QED
    BY <2>1, <2>2
<1>2. queue' \in [Window -> Seq(Task)]
  BY QueueShrinks DEF TypeInv, GetFails
<1> QED
  BY <1>1, <1>2 DEF TypeInv, HostOK, WindowOK, CountOK, GetFails, MayFail, host,
                    window, counts, views, ideal, marks

-----------------------------------------------------------------------------
(* Activation, mounting and managed databases.                             *)
LEMMA CallsTyped ==
  ASSUME TypeInv, NEW t \in Task, NEW v, Handler(v), Calls(t, v)
  PROVE  TaskInv' /\ queue' \in [Window -> Seq(Task)]
<1>1. v.win \in Window
  BY DEF Handler, TaskRec
<1> QED
  BY <1>1, OneMoves, QueueGrows DEF TypeInv, Calls

LEMMA BeginTyped ==
  ASSUME NEW k \in Kind, NEW w \in Window
  PROVE  LET b == Begin(k, w) IN
         /\ b \in TaskRec /\ b.kind = k /\ b.pc = "idle" /\ b.win = w
         /\ b.conn = None /\ b.text = None /\ b.rev = 0 /\ b.ver = 0
         /\ b.val = None /\ b.pw = None /\ b.todo = {} /\ b.at = {}
<1>1. Idle \in TaskRec
  BY IdleHandler DEF Handler
<1>2. Begin(k, w) \in TaskRec
  BY <1>1 DEF Begin, TaskRec
<1> QED
  BY <1>2 DEF Begin, Idle

LEMMA ActivateTyped ==
  ASSUME TypeInv, NEW t \in Task, NEW w \in Window, Activate(t, w)
  PROVE  TypeInv'
<1> DEFINE v == [Begin("load", w) EXCEPT !.pc = "get"]
<1>1. Handler(v)
  BY BeginTyped DEF Handler, Kind, TaskRec, Pc, Stands, Carries, About, Logs,
                    Password
<1>2. TaskInv' /\ queue' \in [Window -> Seq(Task)]
  BY <1>1, CallsTyped DEF Activate
<1>3. touched' = touched
  BY BeginTyped DEF Activate, Starts, Kind
<1> QED
  BY <1>2, <1>3 DEF TypeInv, HostOK, WindowOK, CountOK, Activate, Starts, host,
                    views, ideal

LEMMA LoadedTyped ==
  ASSUME TypeInv, NEW t \in Task, Loaded(t)
  PROVE  TypeInv'
<1> DEFINE v == task[t]
<1>0. Handler(v) /\ v.win \in Window /\ v.val \in Rows /\ v.ver \in Nat
  BY DEF TypeInv, TaskInv, Handler, TaskRec, Carries, Loaded
<1>1. TaskInv'
  <2>1. Handler([v EXCEPT !.pc = "file"])
    BY <1>0 DEF Loaded, Handler, TaskRec, Pc, Stands, Carries, About, Logs
  <2> QED
    BY <2>1, GoesTo DEF TypeInv, Loaded, Pc
<1>2. memory' \in [Window -> Rows] /\ view' \in [Window -> Nat]
  <2>1. memory \in [Window -> Rows] /\ view \in [Window -> Nat]
    BY DEF TypeInv, WindowOK
  <2> QED
    BY <1>0, <2>1 DEF Loaded
<1> QED
  BY <1>1, <1>2 DEF TypeInv, HostOK, WindowOK, CountOK, Loaded, host, counts,
                    ideal, marks

LEMMA MountTyped ==
  ASSUME TypeInv, NEW t \in Task, NEW u \in Task, NEW w \in Window,
         Mount(t, u, w)
  PROVE  TypeInv'
<1> DEFINE b == Begin("refresh", w)
           x == [b EXCEPT !.pc = "get", !.rev = revision[w]]
           y == [Begin("sync", w) EXCEPT !.pc = "file"]
<1>0. revision[w] \in Nat
  BY DEF TypeInv, WindowOK
<1>1. Handler(x)
  <2>1. /\ x \in TaskRec /\ x.kind = "refresh" /\ x.pc = "get" /\ x.at = {}
        /\ x.pw = None
    <3>1. /\ b \in TaskRec /\ b.kind = "refresh" /\ b.at = {} /\ b.pw = None
          /\ "get" \in Pc
      BY BeginTyped DEF Kind, Pc
    <3> HIDE DEF b
    <3> QED
      BY <3>1, <1>0 DEF TaskRec
  <2> HIDE DEF x
  <2> QED
    BY <2>1 DEF Handler, Stands, Carries, About, Logs, Password
<1>2. Handler(y)
  BY BeginTyped DEF Handler, Kind, TaskRec, Pc, Stands, Carries, About, Logs,
                    Password
<1>3. TaskInv'
  <2>1. task' = [task EXCEPT ![t] = x, ![u] = y]
    BY DEF Mount
  <2> HIDE DEF x, y
  <2> QED
    BY <1>1, <1>2, <2>1 DEF TypeInv, TaskInv, Handler
<1>4. queue' \in [Window -> Seq(Task)]
  BY QueueGrows DEF TypeInv, Mount
<1> QED
  BY <1>3, <1>4 DEF TypeInv, HostOK, WindowOK, CountOK, Mount, host, window,
                    views, ideal, marks

LEMMA RefreshedTyped ==
  ASSUME TypeInv, NEW t \in Task, Refreshed(t)
  PROVE  TypeInv'
<1> DEFINE v == task[t]
<1>0. Handler(v) /\ v.win \in Window /\ v.val \in Rows /\ v.ver \in Nat
  BY DEF TypeInv, TaskInv, Handler, TaskRec, Carries, Refreshed
<1>1. TaskInv'
  BY Finishes DEF TypeInv, Refreshed
<1>2. memory' \in [Window -> Rows] /\ view' \in [Window -> Nat]
  <2>1. memory \in [Window -> Rows] /\ view \in [Window -> Nat]
    BY DEF TypeInv, WindowOK
  <2> QED
    BY <1>0, <2>1 DEF Refreshed
<1>3. crossed' \subseteq Conn
  <2>1. crossed' = crossed \/ crossed' = crossed \cup Imported(v.win)
    BY DEF Refreshed
  <2>2. Imported(v.win) \subseteq Conn
    BY DEF Imported, TypeInv, TaskInv, TaskRec
  <2> QED
    BY <2>1, <2>2 DEF TypeInv, CountOK
<1> QED
  BY <1>1, <1>2, <1>3 DEF TypeInv, HostOK, WindowOK, CountOK, Refreshed, host,
                          counts, ideal

LEMMA OfferMovesTyped ==
  ASSUME TypeInv, OfferMoves
  PROVE  TypeInv'
<1>1. offer' \in Offers
  BY DEF TypeInv, HostOK, Offers, OfferMoves
<1> QED
  BY <1>1 DEF TypeInv, HostOK, WindowOK, CountOK, TaskInv, OfferMoves, window,
              views, ideal, marks

LEMMA FileReadTyped ==
  ASSUME TypeInv, NEW t \in Task, FileRead(t)
  PROVE  TypeInv'
<1> DEFINE v == task[t]
<1>0. Handler(v)
  BY DEF TypeInv, TaskInv
<1>1. TaskInv'
  <2>1. PICK o \in Offers :
          task' = [task EXCEPT ![t] = [v EXCEPT !.pc = "offers", !.val = o]]
    BY DEF FileRead, TypeInv, TaskInv, HostOK, Offers
  <2>2. Handler([v EXCEPT !.pc = "offers", !.val = o])
    BY ZenonT(40), <1>0 DEF FileRead, Handler, TaskRec, Pc, Value, Stands, Carries, About,
                Logs
  <2> QED
    BY <2>1, <2>2, OneMoves DEF TypeInv
<1> QED
  BY <1>1 DEF TypeInv, HostOK, WindowOK, CountOK, FileRead, MayFail, host,
              window, views, ideal, marks

LEMMA SyncedTyped ==
  ASSUME NEW rows \in Rows, NEW o \in Offers
  PROVE  Synced(rows, o) \in Rows
<1> SUFFICES ASSUME NEW c \in Conn
             PROVE  Synced(rows, o)[c] \in Row \cup {None}
  BY DEF Synced, Rows
<1>1. rows[c] \in Row \cup {None}
  BY DEF Rows
<1>2. c \in Managed => o[c] \in Nat \cup {None}
  BY DEF Offers
<1> QED
  BY <1>1, <1>2 DEF Synced, Row

LEMMA OwedTyped ==
  ASSUME kept \in Rows, NEW c \in Managed, NEW a \in Nat \cup {None}
  PROVE  Owed(c, a) \in Row \cup {None}
<1>1. kept[c] \in Row \cup {None}
  BY StorageAssumption DEF Rows
<1> QED
  BY <1>1 DEF Owed, Row

(* persistConnections.                                                     *)
LEMMA PersistsTyped ==
  ASSUME TypeInv, NEW t \in Task, NEW v, NEW rows \in Rows, v.win \in Window,
         Handler([v EXCEPT !.pc = "put", !.val = rows]), Persists(t, v, rows)
  PROVE  /\ TaskInv' /\ queue' \in [Window -> Seq(Task)]
         /\ memory' \in [Window -> Rows] /\ revision' \in [Window -> Nat]
<1>1. memory \in [Window -> Rows] /\ revision \in [Window -> Nat]
  BY DEF TypeInv, WindowOK
<1> QED
  BY <1>1, CallsTyped DEF Persists

LEMMA SyncTyped ==
  ASSUME TypeInv, NEW t \in Task, Sync(t)
  PROVE  TypeInv'
<1> DEFINE v == task[t]
           next == Synced(memory[v.win], v.val)
           w == [v EXCEPT !.pc = "put", !.val = next]
<1>0. Handler(v) /\ v.win \in Window /\ v.val \in Offers
  BY DEF TypeInv, TaskInv, Handler, TaskRec, Carries, Sync
<1>1. next \in Rows
  BY <1>0, SyncedTyped DEF TypeInv, WindowOK
<1>2. CASE next = memory[v.win]
  <2>1. TaskInv' /\ UNCHANGED <<memory, revision, queue, kept>>
    BY <1>2, Finishes DEF TypeInv, Sync
  <2> QED
    BY <2>1 DEF TypeInv, HostOK, WindowOK, CountOK, Sync, host, counts, views,
                marks
<1>3. CASE next # memory[v.win]
  <2>1. Handler(w)
    <3> HIDE DEF next
    <3> QED
      BY ZenonT(40), <1>0, <1>1 DEF Sync, Handler, TaskRec, Pc, Value, Stands, Carries,
                        About, Logs
  <2>2. Persists(t, v, next)
    BY <1>3 DEF Sync
  <2>3. /\ TaskInv' /\ queue' \in [Window -> Seq(Task)]
        /\ memory' \in [Window -> Rows] /\ revision' \in [Window -> Nat]
    <3> HIDE DEF next
    <3> QED
      BY <1>0, <1>1, <2>1, <2>2, PersistsTyped
  <2>4. kept' \in Rows
    <3>1. kept' = [c \in Conn |-> IF c \in Managed
                                  THEN Owed(c, v.val[c]) ELSE kept[c]]
      BY <1>3 DEF Sync
    <3>2. \A c \in Managed : v.val[c] \in Nat \cup {None}
      BY <1>0 DEF Offers
    <3>3. kept \in Rows
      BY DEF TypeInv, HostOK
    <3>4. \A c \in Managed : Owed(c, v.val[c]) \in Row \cup {None}
      BY <3>2, <3>3, OwedTyped
    <3> QED
      BY <3>1, <3>3, <3>4 DEF Rows
  <2> QED
    BY <2>3, <2>4 DEF TypeInv, HostOK, WindowOK, CountOK, Sync, host, counts,
                      views, marks
<1> QED
  BY <1>2, <1>3

-----------------------------------------------------------------------------
(* Saving, deleting and the keychain.                                      *)
LEMMA TouchedTyped ==
  ASSUME TypeInv, NEW t \in Task, NEW v, v.at \subseteq Conn, Starts(t, v)
  PROVE  touched' \subseteq Conn
BY DEF TypeInv, CountOK, Starts

LEMMA SaveTyped ==
  ASSUME TypeInv, NEW t \in Task, NEW w \in Window, NEW c \in Conn, Save(t, w, c)
  PROVE  TypeInv'
<1>1. PICK p \in {None, ops + 1} :
       LET v == [Begin("save", w) EXCEPT !.conn = c, !.pw = p, !.at = {c}]
           row  == [addr |-> IF memory[w][c] = None THEN 0 ELSE memory[w][c].addr,
                    own  |-> ops + 1]
           next == [memory[w] EXCEPT ![c] = row]
       IN /\ Starts(t, v)
          /\ memory' = [memory EXCEPT ![w] = next]
          /\ revision' = [revision EXCEPT ![w] = @ + 1]
          /\ queue' = [queue EXCEPT ![w] = Append(@, t)]
          /\ task' = [u \in Task |->
               IF u = t THEN [v EXCEPT !.pc = "put", !.val = next]
               ELSE IF task[u].pc = "seal" /\ task[u].win = w
                       /\ task[u].val = memory[w]
               THEN [task[u] EXCEPT !.val = next,
                       !.todo = @ \cup ({c} \ Had(memory[w]))]
               ELSE task[u]]
          /\ kept' = [kept EXCEPT ![c] = row]
          /\ pass' = IF p = None THEN pass ELSE [pass EXCEPT ![c] = p]
  BY DEF Save
<1> DEFINE b == Begin("save", w)
           v == [b EXCEPT !.conn = c, !.pw = p, !.at = {c}]
           row == [addr |-> IF memory[w][c] = None THEN 0 ELSE memory[w][c].addr,
                   own  |-> ops + 1]
           next == [memory[w] EXCEPT ![c] = row]
           x == [v EXCEPT !.pc = "put", !.val = next]
           y(u) == [task[u] EXCEPT !.val = next,
                      !.todo = @ \cup ({c} \ Had(memory[w]))]
<1>2. memory[w] \in Rows /\ memory \in [Window -> Rows] /\ ops \in Nat
  BY DEF TypeInv, WindowOK, CountOK
<1>3. row \in Row
  <2>1. memory[w][c] \in Row \cup {None}
    BY <1>2 DEF Rows
  <2> QED
    BY <2>1, <1>2 DEF Row
<1>4. next \in Rows
  <2> HIDE DEF row
  <2> QED
    BY <1>2, <1>3 DEF Rows
<1>5. p \in Password
  BY <1>2 DEF Password
<1>6. v \in TaskRec /\ v.kind = "save" /\ v.win = w /\ v.conn = c /\ v.pw = p
      /\ v.at = {c}
  <2>1. b \in TaskRec /\ b.kind = "save" /\ b.win = w
    BY BeginTyped DEF Kind
  <2> HIDE DEF b
  <2> QED
    BY <2>1, <1>5 DEF TaskRec
<1>7. Handler(x)
  <2> HIDE DEF v, next
  <2> QED
    BY ZenonT(40), <1>4, <1>5, <1>6 DEF Handler, TaskRec, Pc, Value, Stands, Carries, About,
                            Logs
<1>8. TaskInv'
  <2>1. ASSUME NEW u \in Task, task[u].pc = "seal" PROVE Handler(y(u))
    <3>1. Handler(task[u])
      BY DEF TypeInv, TaskInv
    <3>2. task[u].todo \cup ({c} \ Had(memory[w])) \in SUBSET Conn
      BY <3>1 DEF Handler, TaskRec
    <3> DEFINE todo == task[u].todo \cup ({c} \ Had(memory[w]))
    <3>3. y(u) = [task[u] EXCEPT !.val = next, !.todo = todo]
      OBVIOUS
    <3>4. task[u].kind = "export"
      BY <3>1, <2>1 DEF Handler, Stands, Logs
    <3> HIDE DEF todo, next, y
    <3> QED
      BY <1>4, <2>1, <3>1, <3>2, <3>3, <3>4
         DEF Handler, TaskRec, Value, Stands, Carries, About, Logs, todo
  <2>2. task' = [u \in Task |->
          IF u = t THEN x
          ELSE IF task[u].pc = "seal" /\ task[u].win = w
                  /\ task[u].val = memory[w] THEN y(u) ELSE task[u]]
    BY <1>1
  <2> HIDE DEF x, y
  <2>3. \A u \in Task : Handler(task'[u])
    BY <1>7, <2>1, <2>2 DEF TypeInv, TaskInv
  <2> QED
    BY <2>2, <2>3 DEF TaskInv, Handler
<1>9. queue' \in [Window -> Seq(Task)]
  BY <1>1, QueueGrows DEF TypeInv
<1>10. memory' \in [Window -> Rows] /\ revision' \in [Window -> Nat]
  <2>1. revision \in [Window -> Nat]
    BY DEF TypeInv, WindowOK
  <2>2. memory' = [memory EXCEPT ![w] = next]
        /\ revision' = [revision EXCEPT ![w] = @ + 1]
    BY <1>1
  <2> HIDE DEF next
  <2> QED
    BY <1>2, <1>4, <2>1, <2>2
<1>11. kept' \in Rows
  <2>1. kept' = [kept EXCEPT ![c] = row] /\ kept \in Rows
    BY <1>1 DEF TypeInv, HostOK
  <2> HIDE DEF row
  <2> QED
    BY <1>3, <2>1 DEF Rows
<1>12. pass' \in Passwords
  <2>1. pass' = (IF p = None THEN pass ELSE [pass EXCEPT ![c] = p])
        /\ pass \in Passwords
    BY <1>1 DEF TypeInv, HostOK
  <2> QED
    BY <1>5, <2>1 DEF Passwords
<1>13. touched' \subseteq Conn /\ ops' \in Nat
  <2>1. Starts(t, v)
    BY <1>1
  <2> HIDE DEF v
  <2> QED
    BY <1>2, <1>6, <2>1, TouchedTyped DEF Starts
<1> QED
  BY <1>8, <1>9, <1>10, <1>11, <1>12, <1>13
     DEF TypeInv, HostOK, WindowOK, CountOK, Save, host, views

LEMMA DeleteTyped ==
  ASSUME TypeInv, NEW t \in Task, NEW w \in Window, NEW c \in Conn, Delete(t, w, c)
  PROVE  TypeInv'
<1> DEFINE b == Begin("delete", w)
           v == [b EXCEPT !.conn = c, !.at = {c}]
           next == [memory[w] EXCEPT ![c] = None]
           x == [v EXCEPT !.pc = "put", !.val = next]
<1>1. Starts(t, v) /\ Persists(t, v, next)
      /\ kept' = [kept EXCEPT ![c] = None] /\ pass' = [pass EXCEPT ![c] = None]
  BY DEF Delete
<1>2. next \in Rows
  BY DEF TypeInv, WindowOK, Rows
<1>3. v \in TaskRec /\ v.kind = "delete" /\ v.win = w /\ v.conn = c
      /\ v.pw = None /\ v.at = {c}
  <2>1. b \in TaskRec /\ b.kind = "delete" /\ b.win = w /\ b.pw = None
    BY BeginTyped DEF Kind
  <2> HIDE DEF b
  <2> QED
    BY <2>1 DEF TaskRec
<1>4. Handler(x)
  <2> HIDE DEF v, next
  <2> QED
    BY ZenonT(40), <1>2, <1>3 DEF Handler, TaskRec, Pc, Value, Stands, Carries, About,
                      Logs, Password
<1>5. /\ TaskInv' /\ queue' \in [Window -> Seq(Task)]
      /\ memory' \in [Window -> Rows] /\ revision' \in [Window -> Nat]
  <2> HIDE DEF v, next
  <2> QED
    BY <1>1, <1>2, <1>3, <1>4, PersistsTyped
<1>6. kept' \in Rows /\ pass' \in Passwords
  <2>1. kept \in Rows /\ pass \in Passwords
    BY DEF TypeInv, HostOK
  <2> QED
    BY <1>1, <2>1 DEF Rows, Passwords, Password
<1>7. touched' \subseteq Conn /\ ops' \in Nat
  <2> HIDE DEF v
  <2> QED
    BY <1>1, <1>3, TouchedTyped DEF Starts, TypeInv, CountOK
<1> QED
  BY <1>5, <1>6, <1>7 DEF TypeInv, HostOK, WindowOK, CountOK, Delete, host, views

LEMMA KeyTyped ==
  ASSUME TypeInv, NEW t \in Task, Key(t)
  PROVE  TypeInv'
<1> DEFINE v == task[t]
<1>0. Handler(v) /\ v.conn \in Conn
  BY DEF TypeInv, TaskInv, Handler, About, Key
<1>1. TaskInv'
  <2>1. CASE v.kind = "delete"
    <3>1. Handler([v EXCEPT !.pc = "history"])
      BY <1>0, <2>1 DEF Key, Handler, TaskRec, Pc, Stands, Carries, About, Logs
    <3> QED
      BY <2>1, <3>1, GoesTo DEF TypeInv, Key, Pc
  <2>2. CASE v.kind = "import"
    <3>1. Handler([v EXCEPT !.pc = "each"])
      BY <1>0, <2>2 DEF Key, Handler, TaskRec, Pc, Stands, Carries, About, Logs
    <3> QED
      BY <2>2, <3>1, GoesTo DEF TypeInv, Key, Pc
  <2>3. CASE v.kind \notin {"delete", "import"}
    BY <2>3, Finishes DEF TypeInv, Key
  <2> QED
    BY <2>1, <2>2, <2>3
<1>2. keys' \in Passwords
  <2>1. keys \in Passwords
    BY DEF TypeInv, HostOK
  <2>2. v.pc = "key" => v.pw \in Password
    BY <1>0 DEF Handler, Carries, Stands, Logs
  <2> QED
    BY <1>0, <2>1, <2>2 DEF Key, Passwords, Password
<1>3. touched' \subseteq Conn
  BY <1>0 DEF Key, TypeInv, CountOK
<1> QED
  BY <1>1, <1>2, <1>3 DEF TypeInv, HostOK, WindowOK, CountOK, Key, MayFail,
                          window, views, ideal

-----------------------------------------------------------------------------
(* Backup.                                                                 *)
LEMMA ExportTyped ==
  ASSUME TypeInv, NEW t \in Task, NEW w \in Window, Export(t, w)
  PROVE  TypeInv'
<1> DEFINE b == Begin("export", w)
           m == memory[w]
           d == Had(memory[w])
           v == [b EXCEPT !.pc = "seal", !.val = m, !.pw = Nobody, !.todo = d]
<1>1. Starts(t, v) /\ task' = [task EXCEPT ![t] = v]
  BY DEF Export
<1>2. m \in Rows /\ d \in SUBSET Conn /\ Nobody \in Passwords
  BY HadType, NobodyTypes DEF TypeInv, WindowOK
<1>3. b \in TaskRec /\ b.kind = "export" /\ b.at = {}
  BY BeginTyped DEF Kind
<1>4. Handler(v) /\ v.at = {}
  <2> HIDE DEF b, m, d
  <2> QED
    <3>1. v \in TaskRec
      BY <1>2, <1>3 DEF TaskRec, Pc, Value
    <3>2. /\ v.kind = "export" /\ v.at = {} /\ v.pc = "seal" /\ v.val = m
          /\ v.pw = Nobody /\ v.todo = d
      BY <1>3 DEF TaskRec
    <3> HIDE DEF v
    <3> QED
      BY <1>2, <3>1, <3>2 DEF Handler, Stands, Carries, About, Logs
<1>5. TaskInv'
  <2> HIDE DEF v
  <2> QED
    BY <1>1, <1>4, OneMoves DEF TypeInv
<1>6. touched' \subseteq Conn /\ ops' \in Nat
  <2> HIDE DEF v
  <2> QED
    BY <1>1, <1>4, TouchedTyped DEF Starts, TypeInv, CountOK
<1> QED
  BY <1>5, <1>6 DEF TypeInv, HostOK, WindowOK, CountOK, Export, host, window,
                    views, ideal

LEMMA SealTyped ==
  ASSUME TypeInv, NEW t \in Task, Seal(t)
  PROVE  TypeInv'
<1> DEFINE v == task[t]
<1>0. Handler(v) /\ v.kind = "export"
  BY DEF TypeInv, TaskInv, Handler, Stands, Logs, Seal
<1>1. v.val \in Rows /\ v.pw \in Passwords
  BY <1>0 DEF Handler, Carries
<1>2. ASSUME NEW c \in v.todo,
             task' = [task EXCEPT ![t].todo = @ \ {c}, ![t].pw[c] = keys[c]],
             UNCHANGED backup
      PROVE  TypeInv'
  <2> DEFINE d == v.todo \ {c}
             q == [v.pw EXCEPT ![c] = keys[c]]
             x == [v EXCEPT !.todo = d, !.pw = q]
  <2>1. task' = [task EXCEPT ![t] = x]
    BY <1>2 DEF TypeInv, TaskInv
  <2>2. d \in SUBSET Conn /\ c \in Conn
    BY <1>0 DEF Handler, TaskRec
  <2>3. q \in Passwords
    BY <1>1, <2>2 DEF TypeInv, HostOK, Passwords
  <2>4. Handler(x)
    <3> HIDE DEF d, q
    <3> QED
      BY <1>0, <1>1, <2>2, <2>3 DEF Handler, TaskRec, Stands, Carries, About,
                                    Logs, Seal
  <2>5. TaskInv'
    <3> HIDE DEF x
    <3> QED
      BY <2>1, <2>4, OneMoves DEF TypeInv
  <2> QED
    BY <1>2, <2>5 DEF TypeInv, HostOK, WindowOK, CountOK, Seal, window, counts,
                      views, ideal, marks
<1>3. ASSUME backup' = [rows |-> v.val, pw |-> v.pw], Finish(t)
      PROVE  TypeInv'
  <2>1. backup' \in Backups
    BY <1>1, <1>3 DEF Backups
  <2>2. TaskInv'
    BY <1>3, Finishes DEF TypeInv
  <2> QED
    BY <2>1, <2>2 DEF TypeInv, HostOK, WindowOK, CountOK, Seal, window, counts,
                      views, ideal, marks
<1> QED
  BY <1>2, <1>3 DEF Seal

LEMMA ImportTyped ==
  ASSUME TypeInv, NEW t \in Task, NEW w \in Window, Import(t, w)
  PROVE  TypeInv'
<1> DEFINE b == Begin("import", w)
           d == Had(backup.rows)
           v == [b EXCEPT !.pc = "open", !.val = backup, !.at = d, !.todo = d]
<1>1. Starts(t, v) /\ task' = [task EXCEPT ![t] = v]
  BY DEF Import
<1>2. backup \in Backups /\ d \in SUBSET Conn
  BY HadType DEF TypeInv, HostOK
<1>3. b \in TaskRec /\ b.kind = "import" /\ b.pw = None
  BY BeginTyped DEF Kind
<1>4. Handler(v) /\ v.at \subseteq Conn
  <2> HIDE DEF b, d
  <2> QED
    BY ZenonT(40), <1>2, <1>3 DEF Handler, TaskRec, Pc, Value, Stands, Carries, About,
                      Logs, Password
<1>5. TaskInv'
  <2> HIDE DEF v
  <2> QED
    BY <1>1, <1>4, OneMoves DEF TypeInv
<1>6. touched' \subseteq Conn /\ ops' \in Nat
  <2> HIDE DEF v
  <2> QED
    BY <1>1, <1>4, TouchedTyped DEF Starts, TypeInv, CountOK
<1> QED
  BY <1>5, <1>6 DEF TypeInv, HostOK, WindowOK, CountOK, Import, host, window,
                    views, ideal

LEMMA OpenTyped ==
  ASSUME TypeInv, NEW t \in Task, Open(t)
  PROVE  TypeInv'
<1> DEFINE v == task[t]
           h == Had(memory[v.win])
           x == [v EXCEPT !.pc = "each", !.text = h]
<1>0. Handler(v)
  BY DEF TypeInv, TaskInv
<1>1. Handler(x)
  <2>1. h \in SUBSET Conn
    BY HadType
  <2> HIDE DEF h
  <2> QED
    BY <1>0, <2>1 DEF Handler, TaskRec, Pc, Stands, Carries, About, Logs, Open
<1>2. task' = [task EXCEPT ![t] = x] \/ Finish(t)
  BY DEF Open, TypeInv, TaskInv
<1>3. TaskInv'
  <2> HIDE DEF x
  <2> QED
    BY <1>1, <1>2, OneMoves, Finishes DEF TypeInv
<1> QED
  BY <1>3 DEF TypeInv, HostOK, WindowOK, CountOK, Open, host, window, counts,
              views, ideal, marks

LEMMA PlaceTyped ==
  ASSUME TypeInv, NEW t \in Task, Place(t)
  PROVE  TypeInv'
<1> DEFINE v == task[t]
<1>0. Handler(v) /\ v.kind = "import" /\ v.pc = "each"
  BY DEF TypeInv, TaskInv, Handler, Stands, Logs, Place
<1>1. v.val \in Backups /\ v.win \in Window /\ v.todo \subseteq v.at
      /\ v.at \subseteq Conn /\ v \in TaskRec
  BY <1>0 DEF Handler, Carries, About, TaskRec
<1>2. PICK c \in v.todo :
       /\ memory' = [memory EXCEPT ![v.win][c] = v.val.rows[c]]
       /\ task' = [task EXCEPT ![t].todo = @ \ {c}, ![t].conn = c,
                     ![t].pc = PlaceKey(v, c), ![t].pw = v.val.pw[c]]
       /\ kept' = [kept EXCEPT ![c] = v.val.rows[c]]
       /\ pass' = [pass EXCEPT ![c] = v.val.pw[c]]
       /\ touched' = IF c \notin v.text /\ keys[c] # None
                     THEN touched \cup {c} ELSE touched
  BY DEF Place
<1> DEFINE d == v.todo \ {c}
           p == PlaceKey(v, c)
           q == v.val.pw[c]
           x == [v EXCEPT !.todo = d, !.conn = c, !.pc = p, !.pw = q]
<1>3. c \in Conn /\ q \in Password /\ v.val.rows[c] \in Row \cup {None}
  BY <1>1 DEF Backups, Passwords, Rows
<1>4. p \in {"key", "wipe", "each"}
  BY DEF PlaceKey
<1>5. d \subseteq v.todo /\ c \in v.at \ d
  BY <1>1
<1>6. Handler(x)
  <2> HIDE DEF d, p, q
  <2>1. x \in TaskRec
    BY <1>1, <1>3, <1>4, <1>5 DEF TaskRec, Pc
  <2>2. /\ x.kind = "import" /\ x.pc = p /\ x.conn = c /\ x.todo = d
        /\ x.at = v.at /\ x.val = v.val /\ x.pw = q
    BY <1>0, <1>1 DEF TaskRec
  <2> HIDE DEF x
  <2> QED
    BY <2>1, <2>2, <1>0, <1>1, <1>3, <1>4, <1>5
       DEF Handler, Stands, Carries, About, Logs
<1>7. TaskInv'
  <2>1. task' = [task EXCEPT ![t] = x]
    BY <1>2 DEF TypeInv, TaskInv
  <2> HIDE DEF x
  <2> QED
    BY <2>1, <1>6, OneMoves DEF TypeInv
<1>8. memory' \in [Window -> Rows]
  <2>1. memory \in [Window -> Rows]
    BY DEF TypeInv, WindowOK
  <2> QED
    BY <2>1, <1>1, <1>2, <1>3 DEF Rows
<1>9. kept' \in Rows /\ pass' \in Passwords
  <2>1. kept \in Rows /\ pass \in Passwords
    BY DEF TypeInv, HostOK
  <2> QED
    BY <1>2, <1>3, <2>1 DEF Rows, Passwords
<1>10. touched' \subseteq Conn
  BY <1>2, <1>3 DEF TypeInv, CountOK
<1> QED
  BY <1>7, <1>8, <1>9, <1>10
     DEF TypeInv, HostOK, WindowOK, CountOK, Place, host, counts, views

LEMMA MergeTyped ==
  ASSUME TypeInv, NEW t \in Task, Merge(t)
  PROVE  TypeInv'
<1> DEFINE v == task[t]
           m == memory[v.win]
           x == [v EXCEPT !.pc = "put", !.val = m]
<1>0. Handler(v) /\ v.kind = "import" /\ v.win \in Window
  BY DEF TypeInv, TaskInv, Handler, TaskRec, Stands, Logs, Merge
<1>1. m \in Rows
  BY <1>0 DEF TypeInv, WindowOK
<1>2. Handler(x)
  <2> HIDE DEF m
  <2> QED
    BY ZenonT(40), <1>0, <1>1 DEF Handler, TaskRec, Pc, Value, Stands, Carries, About,
                      Logs, Merge
<1>3. /\ TaskInv' /\ queue' \in [Window -> Seq(Task)]
      /\ memory' \in [Window -> Rows] /\ revision' \in [Window -> Nat]
  <2>1. Persists(t, v, m)
    BY DEF Merge
  <2> HIDE DEF m
  <2> QED
    BY <1>0, <1>1, <1>2, <2>1, PersistsTyped
<1> QED
  BY <1>3 DEF TypeInv, HostOK, WindowOK, CountOK, Merge, host, counts, views,
              ideal, marks

-----------------------------------------------------------------------------
(* The query history.                                                      *)

(* A handler that may write the history.                                   *)
Writer(v) ==
  /\ v \in TaskRec /\ v.kind \in Logs \cup {"delete"} /\ v.conn \in Conn
  /\ v.kind = "delete" => v.at = {v.conn}
  /\ v.kind # "delete" => v.at = {}
  /\ v.pw \in Password
  /\ v.kind = "record" => v.text \in Statement

LEMMA EnterTyped ==
  ASSUME NEW list \in Seq(Statement), NEW s \in Statement
  PROVE  Enter(list, s) \in Seq(Statement)
<1> DEFINE all == <<s>> \o list
           n == IF Len(all) < MaxEntries THEN Len(all) ELSE MaxEntries
<1>1. all \in Seq(Statement) /\ Len(all) \in Nat
  BY ConcatProperties, LenProperties
<1>2. n \in 0..Len(all)
  BY <1>1, StorageAssumption
<1>3. SubSeq(all, 1, n) \in Seq(Statement)
  <2> HIDE DEF all, n
  <2> QED
    BY <1>1, <1>2, SubSeqProperties
<1> QED
  BY <1>3 DEF Enter

LEMMA EditedTyped ==
  ASSUME NEW v, Writer(v), NEW all \in Log
  PROVE  Edited(v, all) \in Log
<1>1. v.conn \in Conn /\ v.kind \in {"record", "look", "clear", "delete"}
  BY DEF Writer, Logs
<1>2. <<>> \in Seq(Statement) /\ all[v.conn] \in Seq(Statement)
  BY <1>1 DEF Log
<1>3. CASE v.kind = "record"
  <2>1. Enter(all[v.conn], v.text) \in Seq(Statement)
    BY <1>2, <1>3, EnterTyped DEF Writer
  <2> QED
    BY <1>3, <2>1 DEF Log, Edited
<1>4. CASE v.kind \in {"delete", "clear"}
  BY <1>2, <1>4 DEF Log, Edited
<1>5. CASE v.kind = "look"
  BY <1>5 DEF Edited
<1> QED
  BY <1>1, <1>3, <1>4, <1>5

LEMMA WriteTyped ==
  ASSUME TypeInv, NEW t \in Task, NEW v, Writer(v), NEW all \in Log,
         Write(t, v, all)
  PROVE  /\ mirror' \in [Window -> Log \cup {None}] /\ past' \in Log
         /\ TaskInv' /\ queue' \in [Window -> Seq(Task)]
<1> DEFINE next == Edited(v, all)
<1>1. v.win \in Window /\ v.conn \in Conn /\ v.kind \in {"record", "look", "clear", "delete"}
  BY DEF Writer, TaskRec, Logs
<1>2. <<>> \in Seq(Statement) /\ all[v.conn] \in Seq(Statement)
  BY <1>1 DEF Log
<1>3. next \in Log
  BY EditedTyped
<1>4. mirror' \in [Window -> Log \cup {None}]
  <2>1. mirror' = [mirror EXCEPT ![v.win] = next]
    BY DEF Write
  <2> HIDE DEF next
  <2> QED
    BY <1>1, <1>3, <2>1 DEF TypeInv, WindowOK
<1>5. past' \in Log
  <2>1. past \in Log
    BY DEF TypeInv, HostOK
  <2>2. CASE v.kind = "record"
    <3>1. past' = [past EXCEPT ![v.conn] = <<v.text>> \o @]
      BY <2>2 DEF Write
    <3>2. <<v.text>> \o past[v.conn] \in Seq(Statement)
      BY <1>1, <2>1, <2>2, ConcatProperties DEF Log, Writer
    <3> QED
      BY <2>1, <3>1, <3>2 DEF Log
  <2>3. CASE v.kind \in {"delete", "clear"}
    BY <1>2, <2>1, <2>3 DEF Write, Log
  <2>4. CASE v.kind = "look"
    BY <2>1, <2>4 DEF Write
  <2> QED
    BY <1>1, <2>2, <2>3, <2>4
<1>6. TaskInv' /\ queue' \in [Window -> Seq(Task)]
  <2> DEFINE x == [v EXCEPT !.pc = "hput", !.val = next]
  <2>1. (Finish(t) /\ UNCHANGED queue) \/ (Calls(t, x) /\ v.kind # "look")
    BY DEF Write
  <2>2. Handler(x)
    <3> HIDE DEF next
    <3> QED
      <4>1. v \in TaskRec /\ x \in TaskRec
        BY <1>1, <1>3 DEF Writer, Handler, TaskRec, Pc, Value, Logs
      <4>2. x.kind = v.kind /\ x.pc = "hput" /\ x.val = next /\ x.conn = v.conn
        BY <4>1 DEF TaskRec
      <4> QED
        BY <1>1, <1>3, <4>1, <4>2 DEF Writer, Handler, TaskRec, Stands, Carries,
           About, Logs
  <2>3. CASE Finish(t) /\ UNCHANGED queue
    BY <2>3, Finishes DEF TypeInv, WindowOK
  <2>4. CASE Calls(t, x)
    <3> HIDE DEF x
    <3> QED
      BY <2>2, <2>4, CallsTyped
  <2> QED
    BY <2>1, <2>3, <2>4
<1> QED
  BY <1>4, <1>5, <1>6

LEMMA LoadTyped ==
  ASSUME TypeInv, NEW t \in Task, NEW v, Writer(v), Load(t, v)
  PROVE  /\ mirror' \in [Window -> Log \cup {None}] /\ past' \in Log
         /\ TaskInv' /\ queue' \in [Window -> Seq(Task)] /\ mixed' \in BOOLEAN
<1>1. v.win \in Window
  BY DEF Writer, TaskRec
<1>2. CASE mirror[v.win] # None
  BY <1>1, <1>2, WriteTyped DEF Load, TypeInv, WindowOK, CountOK
<1>3. CASE mirror[v.win] = None
  <2>1. Handler([v EXCEPT !.pc = "hget"])
    BY DEF Writer, Handler, TaskRec, Pc, Stands, Carries, About, Logs
  <2> QED
    BY <1>3, <2>1, CallsTyped DEF Load, TypeInv, HostOK, WindowOK, CountOK
<1> QED
  BY <1>2, <1>3

LEMMA RecordTyped ==
  ASSUME TypeInv, NEW t \in Task, NEW w \in Window, NEW c \in Conn,
         NEW s \in Statement, Record(t, w, c, s)
  PROVE  TypeInv'
<1> DEFINE b == Begin("record", w)
           v == [b EXCEPT !.conn = c, !.text = s]
<1>1. b \in TaskRec /\ b.kind = "record" /\ b.at = {} /\ b.pw = None
  BY BeginTyped DEF Kind
<1>2. Starts(t, v) /\ Load(t, v)
  BY DEF Record
<1>3. Writer(v) /\ v.at = {}
  <2> HIDE DEF b
  <2> QED
    BY <1>1 DEF Writer, TaskRec, Logs, Password
<1> HIDE DEF v
<1>4. touched' \subseteq Conn /\ ops' \in Nat
  BY <1>2, <1>3, TouchedTyped DEF Starts, TypeInv, CountOK
<1>5. /\ mirror' \in [Window -> Log \cup {None}] /\ past' \in Log
      /\ TaskInv' /\ queue' \in [Window -> Seq(Task)] /\ mixed' \in BOOLEAN
  BY <1>2, <1>3, LoadTyped
<1> QED
  BY <1>4, <1>5 DEF TypeInv, HostOK, WindowOK, CountOK, Record, host, views

LEMMA LookTyped ==
  ASSUME TypeInv, NEW t \in Task, NEW w \in Window, NEW c \in Conn,
         NEW k \in {"look", "clear"}, Look(t, w, c, k)
  PROVE  TypeInv'
<1> DEFINE b == Begin(k, w)
           v == [b EXCEPT !.conn = c]
<1>1. b \in TaskRec /\ b.kind = k /\ b.at = {} /\ b.pw = None
  BY BeginTyped DEF Kind
<1>2. Starts(t, v) /\ Load(t, v)
  BY DEF Look
<1>3. Writer(v) /\ v.at = {}
  <2> HIDE DEF b
  <2> QED
    BY <1>1 DEF Writer, TaskRec, Logs, Password
<1> HIDE DEF v
<1>4. touched' \subseteq Conn /\ ops' \in Nat
  BY <1>2, <1>3, TouchedTyped DEF Starts, TypeInv, CountOK
<1>5. /\ mirror' \in [Window -> Log \cup {None}] /\ past' \in Log
      /\ TaskInv' /\ queue' \in [Window -> Seq(Task)] /\ mixed' \in BOOLEAN
  BY <1>2, <1>3, LoadTyped
<1> QED
  BY <1>4, <1>5 DEF TypeInv, HostOK, WindowOK, CountOK, Look, host, views

LEMMA HandlerWrites ==
  ASSUME NEW v, Handler(v), v.pc \in {"history", "hgot"}
  PROVE  Writer(v)
BY DEF Handler, Stands, Carries, About, Writer, Logs

LEMMA ForgetTyped ==
  ASSUME TypeInv, NEW t \in Task, Forget(t)
  PROVE  TypeInv'
<1>1. Writer(task[t]) /\ Load(t, task[t])
  BY HandlerWrites DEF Forget, TypeInv, TaskInv
<1>2. /\ mirror' \in [Window -> Log \cup {None}] /\ past' \in Log
      /\ TaskInv' /\ queue' \in [Window -> Seq(Task)] /\ mixed' \in BOOLEAN
  BY <1>1, LoadTyped
<1> QED
  BY <1>2 DEF TypeInv, HostOK, WindowOK, CountOK, Forget, host, counts, views,
              marks

LEMMA HistoryGotMoves ==
  ASSUME TypeInv, NEW t \in Task, HistoryGot(t)
  PROVE  \E o \in Log, n \in Nat :
           task' = [task EXCEPT ![t] = [task[t] EXCEPT !.pc = "hgot", !.val = o,
                                                       !.ver = n]]
<1> DEFINE v == task[t]
<1>1. /\ task \in [Task -> TaskRec] /\ logged \in Log /\ hversion \in Nat
      /\ Blank \in Log
  BY NobodyTypes DEF TypeInv, TaskInv, HostOK, CountOK
<1>2. CASE task' = [task EXCEPT ![t].pc = "hgot", ![t].val = logged,
                                ![t].ver = hversion]
  BY <1>1, <1>2
<1>3. CASE task' = [task EXCEPT ![t].pc = "hgot", ![t].val = Blank,
                                ![t].ver = 0]
  <2>1. task' = [task EXCEPT ![t] = [v EXCEPT !.pc = "hgot", !.val = Blank,
                                              !.ver = 0]]
    BY <1>1, <1>3
  <2> QED
    BY <1>1, <2>1
<1> QED
  BY <1>2, <1>3 DEF HistoryGot

LEMMA HistoryGotTyped ==
  ASSUME TypeInv, NEW t \in Task, HistoryGot(t)
  PROVE  TypeInv'
<1> DEFINE v == task[t]
<1>0. Handler(v)
  BY DEF TypeInv, TaskInv
<1>1. PICK o \in Log, n \in Nat :
        task' = [task EXCEPT ![t] = [v EXCEPT !.pc = "hgot", !.val = o, !.ver = n]]
  BY HistoryGotMoves
<1>2. Handler([v EXCEPT !.pc = "hgot", !.val = o, !.ver = n])
  BY ZenonT(40), <1>0 DEF HistoryGot, Handler, TaskRec, Pc, Value, Stands, Carries, About,
              Logs
<1>3. TaskInv'
  BY <1>1, <1>2, OneMoves DEF TypeInv
<1>4. queue' \in [Window -> Seq(Task)]
  BY QueueShrinks DEF TypeInv, HistoryGot
<1> QED
  BY <1>3, <1>4 DEF TypeInv, HostOK, WindowOK, CountOK, HistoryGot, MayFail,
                    host, window, views, ideal, marks

LEMMA HistoryLoadedTyped ==
  ASSUME TypeInv, NEW t \in Task, HistoryLoaded(t)
  PROVE  TypeInv'
<1> DEFINE v == task[t]
<1>1. Writer(v) /\ v.val \in Log /\ v.win \in Window /\ v.ver \in Nat
  BY HandlerWrites
     DEF HistoryLoaded, TypeInv, TaskInv, Handler, Carries, TaskRec
<1>2. /\ mirror' \in [Window -> Log \cup {None}] /\ past' \in Log
      /\ TaskInv' /\ queue' \in [Window -> Seq(Task)]
  BY <1>1, WriteTyped DEF HistoryLoaded
<1>3. hview' \in [Window -> Nat]
  <2>1. hview \in [Window -> Nat]
    BY DEF TypeInv, WindowOK
  <2> QED
    BY <1>1, <2>1 DEF HistoryLoaded
<1>4. mixed' \in BOOLEAN
  BY DEF HistoryLoaded
<1> QED
  BY <1>2, <1>3, <1>4 DEF TypeInv, HostOK, WindowOK, CountOK, HistoryLoaded,
                          host, counts

LEMMA HistoryPutTyped ==
  ASSUME TypeInv, NEW t \in Task, HistoryPut(t)
  PROVE  TypeInv'
<1> DEFINE v == task[t]
<1>0. Handler(v) /\ v.win \in Window /\ v.val \in Log
  BY DEF TypeInv, TaskInv, Handler, TaskRec, Carries, HistoryPut
<1>1. TaskInv'
  BY Finishes DEF TypeInv, HistoryPut
<1>2. queue' \in [Window -> Seq(Task)]
  BY QueueShrinks DEF TypeInv, HistoryPut
<1>3. hview' \in [Window -> Nat] /\ hversion' \in Nat
  <2>1. hview \in [Window -> Nat] /\ hversion \in Nat
    BY DEF TypeInv, WindowOK, CountOK
  <2>2. /\ hview' = [hview EXCEPT ![v.win] = @ + 1] \/ hview' = hview
        /\ hversion' = hversion + 1 \/ hversion' = hversion
    BY DEF HistoryPut
  <2> QED
    BY <1>0, <2>1, <2>2
<1>4. logged' \in Log /\ mixed' \in BOOLEAN /\ faults' \in Nat
  <2>1. /\ logged' = v.val \/ logged' = logged
        /\ faults' = faults + 1 \/ faults' = faults
    BY DEF HistoryPut, MayFail
  <2>2. logged \in Log /\ faults \in Nat /\ mixed \in BOOLEAN
    BY DEF TypeInv, HostOK, CountOK
  <2>3. mixed' \in BOOLEAN
    BY <2>2 DEF HistoryPut
  <2> QED
    BY <1>0, <2>1, <2>2, <2>3
<1> QED
  BY <1>1, <1>2, <1>3, <1>4 DEF TypeInv, HostOK, WindowOK, CountOK, HistoryPut,
                                window, ideal

-----------------------------------------------------------------------------
LEMMA TypeInit == Init => TypeInv
<1> SUFFICES ASSUME Init PROVE TypeInv
  OBVIOUS
<1> USE StorageAssumption, NobodyTypes
<1>1. stored \in Rows
  BY DEF Init, Nobody, Rows, Row
<1>2. keys \in Passwords
  BY <1>1 DEF Init, Nobody, Passwords, Password, Had
<1>3. offer \in Offers
  BY DEF Init, Offers
<1>4. backup \in Backups
  <2>1. \A c \in Conn : [Nobody EXCEPT ![c] = [addr |-> 1, own |-> 9]] \in Rows
    BY DEF Nobody, Rows, Row
  <2>2. \A c \in Conn : \A p \in {None, 9} :
          [Nobody EXCEPT ![c] = p] \in Passwords
    BY DEF Nobody, Passwords, Password
  <2> QED
    <3>1. \A f \in Files : \E r \in Rows, p \in Passwords :
            f = [rows |-> r, pw |-> p]
      <4> TAKE f \in Files
      <4>1. CASE f = [rows |-> Nobody, pw |-> Nobody]
        BY <4>1
      <4>2. CASE f \in {[rows |-> [Nobody EXCEPT ![c] = [addr |-> 1, own |-> 9]],
                         pw   |-> [Nobody EXCEPT ![c] = p]] :
                           c \in Conn \ Managed, p \in {None, 9}}
        <5>1. PICK c \in Conn, p \in {None, 9} :
                f = [rows |-> [Nobody EXCEPT ![c] = [addr |-> 1, own |-> 9]],
                     pw   |-> [Nobody EXCEPT ![c] = p]]
          BY <4>2
        <5> QED
          BY <5>1, <2>1, <2>2
      <4> QED
        BY <4>1, <4>2 DEF Files
    <3> QED
      BY <3>1 DEF Init, Backups
<1>5. HostOK
  BY <1>1, <1>2, <1>3, <1>4 DEF Init, HostOK
<1>6. WindowOK
  BY <1>1, EmptySeq DEF Init, WindowOK
<1>7. CountOK
  BY DEF Init, CountOK
<1>8. TaskInv
  BY IdleHandler DEF Init, TaskInv, Handler
<1> QED
  BY <1>5, <1>6, <1>7, <1>8 DEF TypeInv

LEMMA TypeStep == TypeInv /\ [Next]_vars => TypeInv'
<1> SUFFICES ASSUME TypeInv, [Next]_vars PROVE TypeInv'
  OBVIOUS
<1>1. ASSUME NEW t \in Task, TaskStep(t) PROVE TypeInv'
  BY <1>1, PutTyped, PutFailsTyped, GotTyped, GetFailsTyped, LoadedTyped,
     RefreshedTyped, FileReadTyped, SyncTyped, KeyTyped, SealTyped, OpenTyped,
     PlaceTyped, MergeTyped, ForgetTyped, HistoryGotTyped, HistoryLoadedTyped,
     HistoryPutTyped DEF TaskStep
<1>2. ASSUME NEW t \in Task, NEW w \in Window, User(t, w) PROVE TypeInv'
  BY <1>2, ActivateTyped, ExportTyped, ImportTyped, MountTyped, SaveTyped,
     DeleteTyped, LookTyped, RecordTyped DEF User
<1>3. CASE UNCHANGED vars
  BY <1>3 DEF vars, host, window, counts, ideal, marks, views, TypeInv, HostOK,
              WindowOK, CountOK, TaskInv, Handler, TaskRec, Stands, Carries,
              About, Logs, Kind, Pc, Value
<1> QED
  BY <1>1, <1>2, <1>3, OfferMovesTyped DEF Next

(* The store, the keychain, the history, each window's copies and queue    *)
(* hold values of their kind, whatever fails and however handlers of       *)
(* several windows interleave.                                             *)
THEOREM StorageTyped == Spec => []TypeOK
<1>1. Spec => []TypeInv
  BY TypeInit, TypeStep, PTL DEF Spec
<1> QED
  BY <1>1, TypesHold, PTL

-----------------------------------------------------------------------------
(* Passwords.  Two handlers share a connection only where it is marked; a  *)
(* handler that is still going to write a password leaves the one that was *)
(* last asked for, and where none is under way the keychain has it.        *)
Pending(v, c) ==
  /\ v.conn = c
  /\ \/ v.kind = "save" /\ v.pw # None
     \/ v.kind = "delete" /\ v.pc \in {"put", "wipe"}
     \/ v.kind = "import" /\ v.pc \in {"key", "wipe"}

Leaving(v) ==
  IF v.kind = "save" \/ (v.kind = "import" /\ v.pc = "key") THEN v.pw ELSE None

AtInv == \A t, u \in Task : t # u => task[t].at \cap task[u].at \subseteq touched
DueInv == \A c \in Conn \ touched : \A t \in Task :
            Pending(task[t], c) => Leaving(task[t]) = pass[c]
DoneInv == \A c \in Conn \ touched :
             (\A t \in Task : ~Pending(task[t], c)) => keys[c] = pass[c]
KeyInv == AtInv /\ DueInv /\ DoneInv

Same(v, w) ==
  /\ v.at \subseteq w.at
  /\ \A c \in Conn : /\ Pending(v, c) <=> Pending(w, c)
                     /\ Pending(v, c) => Leaving(v) = Leaving(w)

LEMMA KeyInit == Init => KeyInv
BY DEF Init, KeyInv, AtInv, DueInv, DoneInv, Pending, Idle

LEMMA KeyDone == TypeInv /\ KeyInv => KeychainFollows
<1> SUFFICES ASSUME TypeInv, KeyInv, Quiet, NEW c \in Conn \ touched
             PROVE  keys[c] = pass[c]
  BY DEF KeychainFollows
<1> QED
  BY DEF Quiet, KeyInv, DoneInv, Pending, Idle

LEMMA PendingAt ==
  ASSUME NEW v, Handler(v), NEW c \in Conn, Pending(v, c)
  PROVE  c \in v.at
BY DEF Handler, About, Pending

LEMMA NothingMoves ==
  ASSUME KeyInv, \A u \in Task : Same(task'[u], task[u]),
         UNCHANGED <<keys, pass, touched>>
  PROVE  KeyInv'
<1>1. AtInv'
  BY DEF KeyInv, AtInv, Same
<1>2. DueInv'
  <2> SUFFICES ASSUME NEW c \in Conn \ touched, NEW t \in Task,
                      Pending(task'[t], c)
               PROVE  Leaving(task'[t]) = pass[c]
    BY DEF DueInv
  <2> QED
    BY DEF KeyInv, DueInv, Same
<1>3. DoneInv'
  <2> SUFFICES ASSUME NEW c \in Conn \ touched,
                      \A t \in Task : ~Pending(task'[t], c)
               PROVE  keys[c] = pass[c]
    BY DEF DoneInv
  <2> QED
    BY DEF KeyInv, DoneInv, Same
<1> QED
  BY <1>1, <1>2, <1>3 DEF KeyInv

LEMMA MovesQuietly ==
  ASSUME TypeInv, KeyInv, NEW t \in Task, NEW v,
         task' = [task EXCEPT ![t] = v], Same(v, task[t]),
         UNCHANGED <<keys, pass, touched>>
  PROVE  KeyInv'
<1>1. \A u \in Task : Same(task[u], task[u])
  BY DEF Same
<1>2. \A u \in Task : Same(task'[u], task[u])
  BY <1>1 DEF TypeInv, TaskInv
<1> QED
  BY <1>2, NothingMoves

LEMMA EndsQuietly ==
  ASSUME TypeInv, KeyInv, NEW t \in Task, Finish(t),
         \A c \in Conn : ~Pending(task[t], c), UNCHANGED <<keys, pass, touched>>
  PROVE  KeyInv'
<1>1. Same(Idle, task[t])
  BY DEF Same, Pending, Idle
<1> QED
  BY <1>1, MovesQuietly DEF Finish

LEMMA GoesQuietly ==
  ASSUME TypeInv, KeyInv, NEW t \in Task, NEW p \in Pc, Goto(t, p),
         Same([task[t] EXCEPT !.pc = p], task[t]),
         UNCHANGED <<keys, pass, touched>>
  PROVE  KeyInv'
<1>1. task' = [task EXCEPT ![t] = [task[t] EXCEPT !.pc = p]]
  BY DEF Goto, TypeInv, TaskInv
<1> QED
  BY <1>1, MovesQuietly

(* A handler starts, with nothing to write to the keychain yet.            *)
LEMMA StartsQuietly ==
  ASSUME TypeInv, KeyInv, NEW t \in Task, NEW v, NEW x, Starts(t, v),
         task' = [task EXCEPT ![t] = x], x.at = v.at,
         \A c \in Conn : ~Pending(x, c), UNCHANGED <<keys, pass>>
  PROVE  KeyInv'
<1>1. task[t].at = {} /\ \A c \in Conn : ~Pending(task[t], c)
  BY DEF Starts, Idle, Pending
<1>2. \A u \in Task : task'[u] = IF u = t THEN x ELSE task[u]
  BY DEF TypeInv, TaskInv
<1>3. touched \subseteq touched' /\ \A u \in Task : v.at \cap task[u].at \subseteq touched'
  BY DEF Starts
<1>4. AtInv'
  BY <1>2, <1>3 DEF KeyInv, AtInv
<1>5. DueInv'
  <2> SUFFICES ASSUME NEW c \in Conn \ touched', NEW u \in Task,
                      Pending(task'[u], c)
               PROVE  Leaving(task'[u]) = pass[c]
    BY DEF DueInv
  <2> QED
    BY <1>2, <1>3 DEF KeyInv, DueInv
<1>6. DoneInv'
  <2> SUFFICES ASSUME NEW c \in Conn \ touched',
                      \A u \in Task : ~Pending(task'[u], c)
               PROVE  keys[c] = pass[c]
    BY DEF DoneInv
  <2>1. \A u \in Task : ~Pending(task[u], c)
    BY <1>1, <1>2
  <2> QED
    BY <1>3, <2>1 DEF KeyInv, DoneInv
<1> QED
  BY <1>4, <1>5, <1>6 DEF KeyInv

(* A handler starts that was asked for a password, or to keep the one      *)
(* there is.                                                               *)
LEMMA AsksFor ==
  ASSUME TypeInv, KeyInv, NEW t \in Task, NEW c \in Conn, NEW v, NEW x,
         Starts(t, v), v.at = {c}, x.at = {c}, x.conn = c,
         task'[t] = x, \A u \in Task \ {t} : Same(task'[u], task[u]),
         \/ Pending(x, c) /\ pass' = [pass EXCEPT ![c] = Leaving(x)]
         \/ ~Pending(x, c) /\ pass' = pass,
         UNCHANGED keys
  PROVE  KeyInv'
<1>1. \A d \in Conn : ~Pending(task[t], d)
  BY DEF Starts, Idle, Pending
<1>2. \A d \in Conn : Pending(x, d) => d = c
  BY DEF Pending
<1>3. touched \subseteq touched' /\ \A u \in Task : v.at \cap task[u].at \subseteq touched'
  BY DEF Starts
<1>5. pass \in [Conn -> Password]
  BY DEF TypeInv, HostOK, Passwords
<1>6. AtInv'
  <2> SUFFICES ASSUME NEW u \in Task, NEW w \in Task, u # w
               PROVE  task'[u].at \cap task'[w].at \subseteq touched'
    BY DEF AtInv
  <2>1. \A y \in Task \ {t} : task'[y].at \subseteq task[y].at
    BY DEF Same
  <2>2. CASE u = t
    BY <1>3, <2>1, <2>2
  <2>3. CASE w = t
    BY <1>3, <2>1, <2>3
  <2>4. CASE u # t /\ w # t
    BY <1>3, <2>1, <2>4 DEF KeyInv, AtInv
  <2> QED
    BY <2>2, <2>3, <2>4
<1>7. DueInv'
  <2> SUFFICES ASSUME NEW d \in Conn \ touched', NEW u \in Task,
                      Pending(task'[u], d)
               PROVE  Leaving(task'[u]) = pass'[d]
    BY DEF DueInv
  <2>1. CASE u = t
    BY <1>2, <1>5, <2>1
  <2>2. CASE u # t
    <3>1. Pending(task[u], d) /\ Leaving(task'[u]) = Leaving(task[u])
      BY <2>2 DEF Same
    <3>2. d \in task[u].at
      BY <3>1, PendingAt DEF TypeInv, TaskInv
    <3>3. d # c
      BY <1>3, <3>2
    <3> QED
      BY <1>3, <1>5, <3>1, <3>3 DEF KeyInv, DueInv
  <2> QED
    BY <2>1, <2>2
<1>8. DoneInv'
  <2> SUFFICES ASSUME NEW d \in Conn \ touched',
                      \A u \in Task : ~Pending(task'[u], d)
               PROVE  keys[d] = pass'[d]
    BY DEF DoneInv
  <2>1. \A u \in Task : ~Pending(task[u], d)
    BY <1>1 DEF Same
  <2>2. keys[d] = pass[d]
    BY <1>3, <2>1 DEF KeyInv, DoneInv
  <2>3. pass'[d] = pass[d]
    BY <1>5
  <2> QED
    BY <2>2, <2>3
<1> QED
  BY <1>6, <1>7, <1>8 DEF KeyInv

LEMMA SaveKey ==
  ASSUME TypeInv, KeyInv, NEW t \in Task, NEW w \in Window, NEW c \in Conn,
         Save(t, w, c)
  PROVE  KeyInv'
<1>1. PICK p \in {None, ops + 1} :
       LET v == [Begin("save", w) EXCEPT !.conn = c, !.pw = p, !.at = {c}]
           row  == [addr |-> IF memory[w][c] = None THEN 0 ELSE memory[w][c].addr,
                    own  |-> ops + 1]
           next == [memory[w] EXCEPT ![c] = row]
       IN /\ Starts(t, v)
          /\ task' = [u \in Task |->
               IF u = t THEN [v EXCEPT !.pc = "put", !.val = next]
               ELSE IF task[u].pc = "seal" /\ task[u].win = w
                       /\ task[u].val = memory[w]
               THEN [task[u] EXCEPT !.val = next,
                       !.todo = @ \cup ({c} \ Had(memory[w]))]
               ELSE task[u]]
          /\ pass' = IF p = None THEN pass ELSE [pass EXCEPT ![c] = p]
  BY DEF Save
<1> DEFINE b == Begin("save", w)
           v == [b EXCEPT !.conn = c, !.pw = p, !.at = {c}]
           row == [addr |-> IF memory[w][c] = None THEN 0 ELSE memory[w][c].addr,
                   own  |-> ops + 1]
           next == [memory[w] EXCEPT ![c] = row]
           x == [v EXCEPT !.pc = "put", !.val = next]
           more == {c} \ Had(memory[w])
           y(u) == [task[u] EXCEPT !.val = next, !.todo = @ \cup more]
<1>2. Starts(t, v)
      /\ pass' = (IF p = None THEN pass ELSE [pass EXCEPT ![c] = p])
      /\ task' = [u \in Task |->
           IF u = t THEN x
           ELSE IF task[u].pc = "seal" /\ task[u].win = w
                   /\ task[u].val = memory[w] THEN y(u) ELSE task[u]]
  BY <1>1
<1>3. b \in TaskRec /\ b.kind = "save"
  BY BeginTyped DEF Kind
<1>4. v.at = {c} /\ x.at = {c} /\ x.conn = c /\ x.kind = "save" /\ x.pw = p
  <2> HIDE DEF b, next
  <2> QED
    BY <1>3 DEF TaskRec
<1>5. \A u \in Task : Same(task[u], task[u])
  BY DEF Same
<1>6. ASSUME NEW u \in Task, task[u].pc = "seal" PROVE Same(y(u), task[u])
  <2>1. task[u] \in TaskRec /\ task[u].kind = "export"
    BY <1>6 DEF TypeInv, TaskInv, Handler, Stands, Logs
  <2>2. y(u).at = task[u].at /\ y(u).kind = task[u].kind
    <3> HIDE DEF next, more
    <3> QED
      BY <2>1 DEF TaskRec
  <2> HIDE DEF y
  <2> QED
    BY <2>1, <2>2 DEF Same, Pending
<1>7. task'[t] = x /\ \A u \in Task \ {t} : Same(task'[u], task[u])
  <2> HIDE DEF x, y
  <2> QED
    BY <1>2, <1>5, <1>6
<1>8. \/ Pending(x, c) /\ pass' = [pass EXCEPT ![c] = Leaving(x)]
      \/ ~Pending(x, c) /\ pass' = pass
  <2> HIDE DEF x
  <2> QED
    BY <1>2, <1>4 DEF Pending, Leaving
<1>9. keys' = keys
  BY DEF Save, host
<1> HIDE DEF v, x
<1> QED
  BY <1>2, <1>4, <1>7, <1>8, <1>9, AsksFor

LEMMA DeleteKey ==
  ASSUME TypeInv, KeyInv, NEW t \in Task, NEW w \in Window, NEW c \in Conn,
         Delete(t, w, c)
  PROVE  KeyInv'
<1> DEFINE b == Begin("delete", w)
           v == [b EXCEPT !.conn = c, !.at = {c}]
           next == [memory[w] EXCEPT ![c] = None]
           x == [v EXCEPT !.pc = "put", !.val = next]
<1>1. Starts(t, v) /\ task' = [task EXCEPT ![t] = x]
      /\ pass' = [pass EXCEPT ![c] = None] /\ keys' = keys
  BY DEF Delete, Persists, Calls, host
<1>2. b \in TaskRec /\ b.kind = "delete"
  BY BeginTyped DEF Kind
<1>3. v.at = {c} /\ x.at = {c} /\ x.conn = c /\ x.kind = "delete" /\ x.pc = "put"
  <2> HIDE DEF b, next
  <2> QED
    BY <1>2 DEF TaskRec, Pc
<1> HIDE DEF v, x
<1>4. Pending(x, c) /\ Leaving(x) = None
  BY <1>3 DEF Pending, Leaving
<1>5. \A u \in Task : Same(task[u], task[u])
  BY DEF Same
<1>6. task'[t] = x /\ \A u \in Task \ {t} : Same(task'[u], task[u])
  BY <1>1, <1>5 DEF TypeInv, TaskInv
<1> QED
  BY <1>1, <1>3, <1>4, <1>6, AsksFor

LEMMA PlaceKeyed ==
  ASSUME TypeInv, KeyInv, NEW t \in Task, Place(t)
  PROVE  KeyInv'
<1> DEFINE v == task[t]
<1>0. Handler(v) /\ v.kind = "import" /\ v.pc = "each" /\ v \in TaskRec
      /\ v.todo \subseteq v.at /\ v.at \subseteq Conn
  BY DEF TypeInv, TaskInv, Handler, Stands, About, Logs, Place, TaskRec
<1>2. PICK c \in v.todo :
       /\ task' = [task EXCEPT ![t].todo = @ \ {c}, ![t].conn = c,
                     ![t].pc = PlaceKey(v, c), ![t].pw = v.val.pw[c]]
       /\ pass' = [pass EXCEPT ![c] = v.val.pw[c]]
       /\ touched' = IF c \notin v.text /\ keys[c] # None
                     THEN touched \cup {c} ELSE touched
  BY DEF Place
<1> DEFINE q == v.val.pw[c]
           p == PlaceKey(v, c)
           k == v.todo \ {c}
           x == [v EXCEPT !.todo = k, !.conn = c, !.pc = p, !.pw = q]
<1>3. /\ p = "key" \/ (p = "wipe" /\ q = None)
         \/ (p = "each" /\ q = None /\ c \notin v.text)
  BY DEF PlaceKey
<1>4. x.at = v.at /\ x.conn = c /\ x.kind = "import" /\ x.pc = p /\ x.pw = q
  <2> HIDE DEF p, q, k
  <2> QED
    BY <1>0 DEF TaskRec
<1>5. task' = [task EXCEPT ![t] = x] /\ c \in Conn /\ c \in v.at
  BY <1>0, <1>2 DEF TypeInv, TaskInv
<1>6. pass' = [pass EXCEPT ![c] = q] /\ keys' = keys /\ pass \in [Conn -> Password]
  BY <1>2 DEF Place, host, TypeInv, HostOK, Passwords
<1>7. touched \subseteq touched'
      /\ (c \notin v.text /\ keys[c] # None => c \in touched')
  BY <1>2
<1> HIDE DEF q, p, k, x
<1>8. task'[t] = x /\ \A u \in Task \ {t} : task'[u] = task[u]
  BY <1>5 DEF TypeInv, TaskInv
<1>9. \A u \in Task \ {t} : c \notin touched' => ~Pending(task[u], c)
  <2> SUFFICES ASSUME NEW u \in Task \ {t}, Pending(task[u], c)
               PROVE  c \in touched'
    OBVIOUS
  <2>1. c \in task[u].at
    BY <1>5, PendingAt DEF TypeInv, TaskInv
  <2> QED
    BY <1>5, <1>7, <2>1 DEF KeyInv, AtInv
<1>10. \A d \in Conn : ~Pending(v, d)
  BY <1>0 DEF Pending
<1>11. AtInv'
  BY <1>4, <1>7, <1>8 DEF KeyInv, AtInv
<1>12. DueInv'
  <2> SUFFICES ASSUME NEW d \in Conn \ touched', NEW u \in Task,
                      Pending(task'[u], d)
               PROVE  Leaving(task'[u]) = pass'[d]
    BY DEF DueInv
  <2>1. CASE u = t
    <3>1. d = c /\ p \in {"key", "wipe"}
      BY <1>4, <1>8, <2>1 DEF Pending
    <3>2. Leaving(x) = q
      BY <1>3, <1>4, <3>1 DEF Leaving
    <3> QED
      BY <1>5, <1>6, <1>8, <2>1, <3>1, <3>2
  <2>2. CASE u # t
    BY <1>5, <1>6, <1>7, <1>8, <1>9, <2>2 DEF KeyInv, DueInv
  <2> QED
    BY <2>1, <2>2
<1>13. DoneInv'
  <2> SUFFICES ASSUME NEW d \in Conn \ touched',
                      \A u \in Task : ~Pending(task'[u], d)
               PROVE  keys[d] = pass'[d]
    BY <1>6 DEF DoneInv
  <2>1. CASE d = c
    <3>1. p \notin {"key", "wipe"}
      BY <1>4, <1>8, <2>1 DEF Pending
    <3> QED
      BY <1>3, <1>5, <1>6, <1>7, <2>1, <3>1
  <2>2. CASE d # c
    <3>1. \A u \in Task : ~Pending(task[u], d)
      BY <1>8, <1>10
    <3> QED
      BY <1>6, <1>7, <2>2, <3>1 DEF KeyInv, DoneInv
  <2> QED
    BY <2>1, <2>2
<1> QED
  BY <1>11, <1>12, <1>13 DEF KeyInv

(* The keychain takes the password, or refuses.                            *)
LEMMA KeyKeyed ==
  ASSUME TypeInv, KeyInv, NEW t \in Task, Key(t)
  PROVE  KeyInv'
<1> DEFINE v == task[t]
           c == v.conn
<1>0. Handler(v) /\ v \in TaskRec /\ v.pc \in {"key", "wipe"} /\ c \in Conn
      /\ v.kind \in {"save", "delete", "import"}
  BY DEF TypeInv, TaskInv, Handler, About, Stands, Logs, Key
<1>1. PICK x : /\ task' = [task EXCEPT ![t] = x] /\ x.at \subseteq v.at
               /\ \A d \in Conn : ~Pending(x, d)
  <2>1. CASE v.kind = "delete"
    <3> DEFINE x == [v EXCEPT !.pc = "history"]
    <3>1. task' = [task EXCEPT ![t] = x]
      BY <2>1 DEF Key, Goto, TypeInv, TaskInv
    <3>2. x.at = v.at /\ x.kind = "delete" /\ x.pc = "history"
      BY <1>0, <2>1 DEF TaskRec, Pc
    <3> HIDE DEF x
    <3> QED
      BY <3>1, <3>2 DEF Pending
  <2>2. CASE v.kind = "import"
    <3> DEFINE x == [v EXCEPT !.pc = "each"]
    <3>1. task' = [task EXCEPT ![t] = x]
      BY <2>2 DEF Key, Goto, TypeInv, TaskInv
    <3>2. x.at = v.at /\ x.kind = "import" /\ x.pc = "each"
      BY <1>0, <2>2 DEF TaskRec, Pc
    <3> HIDE DEF x
    <3> QED
      BY <3>1, <3>2 DEF Pending
  <2>3. CASE v.kind = "save"
    <3>1. task' = [task EXCEPT ![t] = Idle]
      BY <2>3 DEF Key, Finish
    <3>2. Idle.at \subseteq v.at /\ Idle.kind = "none"
      BY DEF Idle
    <3>3. \A d \in Conn : ~Pending(Idle, d)
      BY <3>2 DEF Pending
    <3> QED
      BY <3>1, <3>2, <3>3
  <2> QED
    BY <1>0, <2>1, <2>2, <2>3
<1>2. task'[t] = x /\ \A u \in Task \ {t} : task'[u] = task[u]
  BY <1>1 DEF TypeInv, TaskInv
<1>3. Pending(v, c)
  BY <1>0 DEF Handler, Carries, Stands, Logs, Pending
<1>4. Leaving(v) = IF v.pc = "key" THEN v.pw ELSE None
  BY <1>0 DEF Handler, Stands, Logs, Leaving
<1>5. pass' = pass /\ touched \subseteq touched'
  BY DEF Key, ideal
<1>6. c \notin touched' => keys' = [keys EXCEPT ![c] = Leaving(v)]
  BY <1>4 DEF Key
<1>7. keys \in [Conn -> Password]
  BY DEF TypeInv, HostOK, Passwords
<1>8. \A d \in Conn \ {c} : keys'[d] = keys[d]
  <2>1. keys' = keys \/ \E k : keys' = [keys EXCEPT ![c] = k]
    BY DEF Key
  <2> QED
    BY <1>7, <2>1
<1>9. AtInv'
  BY <1>1, <1>2, <1>5 DEF KeyInv, AtInv
<1>10. DueInv'
  BY <1>1, <1>2, <1>5 DEF KeyInv, DueInv
<1>11. DoneInv'
  <2> SUFFICES ASSUME NEW d \in Conn \ touched',
                      \A u \in Task : ~Pending(task'[u], d)
               PROVE  keys'[d] = pass[d]
    BY <1>5 DEF DoneInv
  <2>1. CASE d = c
    BY <1>0, <1>3, <1>5, <1>6, <1>7, <2>1 DEF KeyInv, DueInv
  <2>2. CASE d # c
    <3>1. \A u \in Task : ~Pending(task[u], d)
      BY <1>2, <2>2 DEF Pending
    <3> QED
      BY <1>5, <1>8, <2>2, <3>1 DEF KeyInv, DoneInv
  <2> QED
    BY <2>1, <2>2
<1> QED
  BY <1>9, <1>10, <1>11 DEF KeyInv

(* The steps that leave every password where it is.                        *)
LEMMA PutKey ==
  ASSUME TypeInv, KeyInv, NEW t \in Task, task[t].pc = "put",
         AfterPut(t, task[t]), UNCHANGED <<keys, pass, touched>>
  PROVE  KeyInv'
<1> DEFINE v == task[t]
<1>0. Handler(v) /\ v \in TaskRec
  BY DEF TypeInv, TaskInv, Handler
<1>1. CASE v.kind = "save" /\ v.pw # None
  <2>1. Same([v EXCEPT !.pc = "key"], v)
    BY <1>0, <1>1 DEF Same, Pending, Leaving, TaskRec
  <2> QED
    BY <1>1, <2>1, GoesQuietly DEF AfterPut, Pc
<1>2. CASE v.kind = "delete"
  <2>1. Same([v EXCEPT !.pc = "wipe"], v)
    BY <1>0, <1>2 DEF Same, Pending, Leaving, TaskRec
  <2> QED
    BY <1>2, <2>1, GoesQuietly DEF AfterPut, Pc
<1>3. CASE ~(v.kind = "save" /\ v.pw # None) /\ v.kind # "delete"
  BY <1>3, EndsQuietly DEF AfterPut, Pending
<1> QED
  BY <1>1, <1>2, <1>3

(* A handler of a kind that has nothing to do with passwords.              *)
LEMMA OtherKind ==
  ASSUME NEW v, v.kind \notin {"save", "delete", "import"}
  PROVE  \A c \in Conn : ~Pending(v, c)
BY DEF Pending

LEMMA OtherMoves ==
  ASSUME TypeInv, KeyInv, NEW t \in Task, NEW v, task' = [task EXCEPT ![t] = v],
         v.at = task[t].at, \A c \in Conn : ~Pending(v, c) /\ ~Pending(task[t], c),
         UNCHANGED <<keys, pass, touched>>
  PROVE  KeyInv'
<1>1. Same(v, task[t])
  BY DEF Same
<1> QED
  BY <1>1, MovesQuietly

LEMMA WriteKey ==
  ASSUME TypeInv, KeyInv, NEW t \in Task, task[t].pc \in {"history", "hgot"},
         NEW all, Write(t, task[t], all), UNCHANGED <<keys, pass, touched>>
  PROVE  KeyInv'
<1> DEFINE v == task[t]
<1>0. v \in TaskRec /\ v.kind \in Logs \cup {"delete"}
  BY DEF TypeInv, TaskInv, Handler, Stands, Logs
<1>1. \A c \in Conn : ~Pending(v, c)
  BY <1>0 DEF Pending, Logs
<1>2. CASE Finish(t)
  BY <1>1, <1>2, EndsQuietly
<1>3. ASSUME NEW next, Calls(t, [v EXCEPT !.pc = "hput", !.val = next])
      PROVE  KeyInv'
  <2> DEFINE x == [v EXCEPT !.pc = "hput", !.val = next]
  <2>1. x.at = v.at /\ x.kind = v.kind /\ x.pc = "hput"
    BY <1>0 DEF TaskRec
  <2>2. task' = [task EXCEPT ![t] = x]
    BY <1>3 DEF Calls
  <2> HIDE DEF x
  <2>3. \A c \in Conn : ~Pending(x, c)
    BY <1>0, <2>1 DEF Pending, Logs
  <2> QED
    BY <1>1, <2>1, <2>2, <2>3, OtherMoves
<1> QED
  BY <1>2, <1>3 DEF Write

LEMMA LoadKey ==
  ASSUME TypeInv, KeyInv, NEW t \in Task, task[t].pc = "history",
         Load(t, task[t]), UNCHANGED <<keys, pass, touched>>
  PROVE  KeyInv'
<1> DEFINE v == task[t]
           x == [v EXCEPT !.pc = "hget"]
<1>0. v \in TaskRec /\ v.kind \in Logs \cup {"delete"}
  BY DEF TypeInv, TaskInv, Handler, Stands, Logs
<1>1. \A c \in Conn : ~Pending(v, c)
  BY <1>0 DEF Pending, Logs
<1>2. CASE mirror[v.win] # None
  BY <1>2, WriteKey DEF Load
<1>3. CASE mirror[v.win] = None
  <2>1. x.at = v.at /\ x.kind = v.kind /\ x.pc = "hget"
    BY <1>0 DEF TaskRec
  <2>2. task' = [task EXCEPT ![t] = x]
    BY <1>3 DEF Load, Calls
  <2> HIDE DEF x
  <2>3. \A c \in Conn : ~Pending(x, c)
    BY <1>0, <2>1 DEF Pending, Logs
  <2> QED
    BY <1>1, <2>1, <2>2, <2>3, OtherMoves
<1> QED
  BY <1>2, <1>3

(* A handler that starts at the history.                                   *)
LEMMA StartsLog ==
  ASSUME TypeInv, KeyInv, NEW t \in Task, NEW v, Writer(v), v.kind \in Logs,
         Starts(t, v), Load(t, v), UNCHANGED <<keys, pass>>
  PROVE  KeyInv'
<1>0. v \in TaskRec
  BY DEF Writer
<1>1. PICK x : task' = [task EXCEPT ![t] = x] /\ x.at = v.at
               /\ x.kind \in Logs \cup {"none"}
  <2>1. CASE Finish(t)
    <3>1. v.at = {} /\ Idle.at = {} /\ Idle.kind = "none"
      BY DEF Writer, Logs, Idle
    <3>2. task' = [task EXCEPT ![t] = Idle]
      BY <2>1 DEF Finish
    <3> QED
      BY <3>1, <3>2
  <2>2. ASSUME NEW next, Calls(t, [v EXCEPT !.pc = "hput", !.val = next])
        PROVE  \E x : task' = [task EXCEPT ![t] = x] /\ x.at = v.at
                      /\ x.kind \in Logs \cup {"none"}
    <3> DEFINE x == [v EXCEPT !.pc = "hput", !.val = next]
    <3>1. task' = [task EXCEPT ![t] = x] /\ x.at = v.at /\ x.kind = v.kind
      BY <1>0, <2>2 DEF Calls, TaskRec
    <3> HIDE DEF x
    <3> QED
      BY <3>1
  <2>3. CASE Calls(t, [v EXCEPT !.pc = "hget"])
    <3> DEFINE x == [v EXCEPT !.pc = "hget"]
    <3>1. task' = [task EXCEPT ![t] = x] /\ x.at = v.at /\ x.kind = v.kind
      BY <1>0, <2>3 DEF Calls, TaskRec
    <3> HIDE DEF x
    <3> QED
      BY <3>1
  <2> QED
    BY <2>1, <2>2, <2>3 DEF Load, Write
<1>2. \A c \in Conn : ~Pending(x, c)
  BY <1>1, OtherKind DEF Logs
<1> QED
  BY <1>1, <1>2, StartsQuietly

LEMMA TaskKey ==
  ASSUME TypeInv, KeyInv, NEW t \in Task, TaskStep(t)
  PROVE  KeyInv'
<1> DEFINE v == task[t]
<1>0. Handler(v) /\ v \in TaskRec /\ task \in [Task -> TaskRec]
  BY DEF TypeInv, TaskInv, Handler
<1>1. CASE Put(t) \/ PutFails(t)
  BY <1>1, PutKey DEF Put, PutFails, host, ideal
<1>2. CASE Got(t)
  <2> DEFINE x == [v EXCEPT !.pc = "got", !.val = stored, !.ver = version]
  <2>1. task' = [task EXCEPT ![t] = x]
    BY <1>0, <1>2 DEF Got
  <2>2. x.at = v.at /\ x.kind = v.kind /\ v.kind \notin {"save", "delete", "import"}
    BY <1>0, <1>2 DEF Got, TaskRec, Handler, Stands, Logs
  <2> HIDE DEF x
  <2> QED
    BY <1>2, <2>1, <2>2, OtherKind, OtherMoves DEF Got, host, ideal, marks
<1>3. CASE GetFails(t)
  <2>1. v.kind \notin {"save", "delete", "import"}
    BY <1>0, <1>3 DEF GetFails, Handler, Stands, Logs
  <2>2. CASE Goto(t, "file")
    <3> DEFINE x == [v EXCEPT !.pc = "file"]
    <3>1. task' = [task EXCEPT ![t] = x] /\ x.at = v.at /\ x.kind = v.kind
      BY <1>0, <2>2 DEF Goto, TaskRec
    <3> HIDE DEF x
    <3> QED
      BY <1>3, <2>1, <3>1, OtherKind, OtherMoves DEF GetFails, host, ideal, marks
  <2>3. CASE Finish(t)
    BY <1>3, <2>1, <2>3, OtherKind, EndsQuietly DEF GetFails, host, ideal, marks
  <2> QED
    BY <1>3, <2>2, <2>3 DEF GetFails
<1>4. CASE Loaded(t)
  <2> DEFINE x == [v EXCEPT !.pc = "file"]
  <2>1. task' = [task EXCEPT ![t] = x] /\ x.at = v.at /\ x.kind = v.kind
    BY <1>0, <1>4 DEF Loaded, Goto, TaskRec
  <2> HIDE DEF x
  <2> QED
    BY <1>4, <2>1, OtherKind, OtherMoves DEF Loaded, host, ideal, marks
<1>5. CASE Refreshed(t)
  BY <1>5, OtherKind, EndsQuietly DEF Refreshed, host, ideal
<1>6. CASE FileRead(t)
  <2>1. PICK o : task' = [task EXCEPT ![t] = [v EXCEPT !.pc = "offers", !.val = o]]
    BY <1>0, <1>6 DEF FileRead
  <2> DEFINE x == [v EXCEPT !.pc = "offers", !.val = o]
  <2>2. x.at = v.at /\ x.kind = v.kind /\ v.kind \notin {"save", "delete", "import"}
    BY <1>0, <1>6 DEF FileRead, TaskRec, Handler, Stands, Logs
  <2>3. task' = [task EXCEPT ![t] = x]
    BY <2>1
  <2> HIDE DEF x
  <2> QED
    BY <1>6, <2>2, <2>3, OtherKind, OtherMoves DEF FileRead, host, ideal, marks
<1>7. CASE Sync(t)
  <2>1. v.kind \notin {"save", "delete", "import"}
    BY <1>0, <1>7 DEF Sync, Handler, Stands, Logs
  <2>2. CASE Finish(t)
    BY <1>7, <2>1, <2>2, OtherKind, EndsQuietly DEF Sync, host, marks
  <2>3. ASSUME NEW next, Persists(t, v, next)
        PROVE  KeyInv'
    <3> DEFINE x == [v EXCEPT !.pc = "put", !.val = next]
    <3>1. task' = [task EXCEPT ![t] = x] /\ x.at = v.at /\ x.kind = v.kind
      BY <1>0, <2>3 DEF Persists, Calls, TaskRec
    <3> HIDE DEF x
    <3> QED
      BY <1>7, <2>1, <3>1, OtherKind, OtherMoves DEF Sync, host, marks
  <2> QED
    BY <1>7, <2>2, <2>3 DEF Sync
<1>8. CASE Key(t)
  BY <1>8, KeyKeyed
<1>9. CASE Seal(t)
  <2>1. v.kind \notin {"save", "delete", "import"}
    BY <1>0, <1>9 DEF Seal, Handler, Stands, Logs
  <2>2. CASE Finish(t)
    BY <1>9, <2>1, <2>2, OtherKind, EndsQuietly DEF Seal, ideal, marks
  <2>3. ASSUME NEW c \in v.todo,
               task' = [task EXCEPT ![t].todo = @ \ {c}, ![t].pw[c] = keys[c]]
        PROVE  KeyInv'
    <3> DEFINE d == v.todo \ {c}
               q == [v.pw EXCEPT ![c] = keys[c]]
               x == [v EXCEPT !.todo = d, !.pw = q]
    <3>1. task' = [task EXCEPT ![t] = x]
      BY <1>0, <2>3
    <3>2. x.at = v.at /\ x.kind = v.kind
      <4> HIDE DEF d, q
      <4> QED
        BY <1>0 DEF TaskRec
    <3> HIDE DEF x
    <3> QED
      BY <1>9, <2>1, <3>1, <3>2, OtherKind, OtherMoves DEF Seal, ideal, marks
  <2> QED
    BY <1>9, <2>2, <2>3 DEF Seal
<1>10. CASE Open(t)
  <2>1. \A c \in Conn : ~Pending(v, c)
    BY <1>10 DEF Open, Pending, Handler, Stands, Logs, TypeInv, TaskInv
  <2>2. CASE Finish(t)
    BY <1>10, <2>1, <2>2, EndsQuietly DEF Open, host, ideal, marks
  <2>3. ASSUME NEW h, task' = [task EXCEPT ![t].pc = "each", ![t].text = h]
        PROVE  KeyInv'
    <3> DEFINE x == [v EXCEPT !.pc = "each", !.text = h]
    <3>1. task' = [task EXCEPT ![t] = x]
      BY <1>0, <2>3
    <3>2. x.at = v.at /\ x.kind = "import" /\ x.pc = "each"
      BY <1>0, <1>10 DEF TaskRec, Open, Handler, Stands, Logs
    <3> HIDE DEF x
    <3>3. \A c \in Conn : ~Pending(x, c)
      BY <3>2 DEF Pending
    <3> QED
      BY <1>10, <2>1, <3>1, <3>2, <3>3, OtherMoves DEF Open, host, ideal, marks
  <2> QED
    BY <1>10, <2>2, <2>3 DEF Open
<1>11. CASE Place(t)
  BY <1>11, PlaceKeyed
<1>12. CASE Merge(t)
  <2>1. v.kind = "import" /\ v.pc = "each"
    BY <1>0, <1>12 DEF Merge, Handler, Stands, Logs
  <2> DEFINE m == memory[v.win]
             x == [v EXCEPT !.pc = "put", !.val = m]
  <2>2. task' = [task EXCEPT ![t] = x]
    BY <1>12 DEF Merge, Persists, Calls
  <2>3. x.at = v.at /\ x.kind = "import" /\ x.pc = "put"
    <3> HIDE DEF m
    <3> QED
      BY <1>0, <2>1 DEF TaskRec
  <2> HIDE DEF x
  <2>4. \A c \in Conn : ~Pending(x, c) /\ ~Pending(v, c)
    BY <2>1, <2>3 DEF Pending
  <2> QED
    BY <1>12, <2>2, <2>3, <2>4, OtherMoves DEF Merge, host, ideal, marks
<1>13. CASE Forget(t)
  BY <1>13, LoadKey DEF Forget, host, marks
<1>14. CASE HistoryGot(t)
  <2>1. PICK o, n : task' = [task EXCEPT ![t] = [v EXCEPT !.pc = "hgot",
                                                   !.val = o, !.ver = n]]
    BY <1>14, HistoryGotMoves
  <2> DEFINE x == [v EXCEPT !.pc = "hgot", !.val = o, !.ver = n]
  <2>2. task' = [task EXCEPT ![t] = x]
    BY <2>1
  <2>3. /\ x.at = v.at /\ x.kind = v.kind /\ x.pc = "hgot"
        /\ v.kind \in Logs \cup {"delete"} /\ v.pc = "hget"
    BY <1>0, <1>14 DEF HistoryGot, TaskRec, Handler, Stands, Logs
  <2> HIDE DEF x
  <2>4. \A c \in Conn : ~Pending(x, c) /\ ~Pending(v, c)
    BY <2>3 DEF Pending, Logs
  <2> QED
    BY <1>14, <2>2, <2>3, <2>4, OtherMoves DEF HistoryGot, host, ideal, marks
<1>15. CASE HistoryLoaded(t)
  BY <1>15, WriteKey DEF HistoryLoaded, host
<1>16. CASE HistoryPut(t)
  <2>1. \A c \in Conn : ~Pending(v, c)
    BY <1>0, <1>16 DEF HistoryPut, Pending, Handler, Stands, Logs
  <2> QED
    BY <1>16, <2>1, EndsQuietly DEF HistoryPut, ideal
<1> QED
  BY <1>1, <1>2, <1>3, <1>4, <1>5, <1>6, <1>7, <1>8, <1>9, <1>10, <1>11, <1>12,
     <1>13, <1>14, <1>15, <1>16 DEF TaskStep

LEMMA UserKey ==
  ASSUME TypeInv, KeyInv, NEW t \in Task, NEW w \in Window, User(t, w)
  PROVE  KeyInv'
<1>1. CASE Activate(t, w)
  <2> DEFINE b == Begin("load", w)
             x == [b EXCEPT !.pc = "get"]
  <2>1. Starts(t, b) /\ task' = [task EXCEPT ![t] = x]
    BY <1>1 DEF Activate, Calls
  <2>2. b \in TaskRec /\ b.kind = "load"
    BY BeginTyped DEF Kind
  <2> HIDE DEF b
  <2>3. x.at = b.at /\ x.kind = "load"
    BY <2>2 DEF TaskRec
  <2> HIDE DEF x
  <2> QED
    BY <1>1, <2>1, <2>3, OtherKind, StartsQuietly DEF Activate, host, ideal
<1>2. CASE Export(t, w)
  <2> DEFINE b == Begin("export", w)
             m == memory[w]
             d == Had(memory[w])
             v == [b EXCEPT !.pc = "seal", !.val = m, !.pw = Nobody, !.todo = d]
  <2>1. Starts(t, v) /\ task' = [task EXCEPT ![t] = v]
    BY <1>2 DEF Export
  <2>2. b \in TaskRec /\ b.kind = "export"
    BY BeginTyped DEF Kind
  <2> HIDE DEF b, m, d
  <2>3. v.kind = "export"
    BY <2>2 DEF TaskRec
  <2> HIDE DEF v
  <2> QED
    BY <1>2, <2>1, <2>3, OtherKind, StartsQuietly DEF Export, host, ideal
<1>3. CASE Import(t, w)
  <2> DEFINE b == Begin("import", w)
             d == Had(backup.rows)
             v == [b EXCEPT !.pc = "open", !.val = backup, !.at = d, !.todo = d]
  <2>1. Starts(t, v) /\ task' = [task EXCEPT ![t] = v]
    BY <1>3 DEF Import
  <2>2. b \in TaskRec /\ b.kind = "import"
    BY BeginTyped DEF Kind
  <2> HIDE DEF b, d
  <2>3. v.kind = "import" /\ v.pc = "open"
    BY <2>2 DEF TaskRec
  <2> HIDE DEF v
  <2>4. \A c \in Conn : ~Pending(v, c)
    BY <2>3 DEF Pending
  <2> QED
    BY <1>3, <2>1, <2>4, StartsQuietly DEF Import, host, ideal
<1>4. ASSUME NEW u \in Task, Mount(t, u, w) PROVE KeyInv'
  <2> DEFINE b == Begin("refresh", w)
             r == revision[w]
             x == [b EXCEPT !.pc = "get", !.rev = r]
             e == Begin("sync", w)
             y == [e EXCEPT !.pc = "file"]
  <2>1. task' = [task EXCEPT ![t] = x, ![u] = y] /\ t # u
        /\ task[t] = Idle /\ task[u] = Idle
    BY <1>4 DEF Mount
  <2>2. /\ b \in TaskRec /\ b.kind = "refresh" /\ b.at = {}
        /\ e \in TaskRec /\ e.kind = "sync" /\ e.at = {}
    BY BeginTyped DEF Kind
  <2> HIDE DEF b, r, e
  <2>3. x.kind = "refresh" /\ x.at = {} /\ y.kind = "sync" /\ y.at = {}
    BY <2>2 DEF TaskRec
  <2> HIDE DEF x, y
  <2>4. Same(x, task[t]) /\ Same(y, task[u])
    BY <2>1, <2>3 DEF Same, Pending, Idle
  <2>5. \A z \in Task : Same(task[z], task[z])
    BY DEF Same
  <2>6. \A z \in Task : Same(task'[z], task[z])
    BY <2>1, <2>4, <2>5 DEF TypeInv, TaskInv
  <2> QED
    BY <1>4, <2>6, NothingMoves DEF Mount, host, ideal, marks
<1>5. ASSUME NEW c \in Conn, NEW k \in {"look", "clear"}, Look(t, w, c, k)
      PROVE  KeyInv'
  <2> DEFINE b == Begin(k, w)
             v == [b EXCEPT !.conn = c]
  <2>1. b \in TaskRec /\ b.kind = k /\ b.at = {} /\ b.pw = None
    BY BeginTyped DEF Kind
  <2>2. Starts(t, v) /\ Load(t, v)
    BY <1>5 DEF Look
  <2>3. Writer(v) /\ v.kind \in Logs
    <3> HIDE DEF b
    <3> QED
      BY <2>1 DEF Writer, TaskRec, Logs, Password
  <2> HIDE DEF v
  <2> QED
    BY <1>5, <2>2, <2>3, StartsLog DEF Look, host
<1>6. ASSUME NEW c \in Conn, NEW s \in Statement, Record(t, w, c, s)
      PROVE  KeyInv'
  <2> DEFINE b == Begin("record", w)
             v == [b EXCEPT !.conn = c, !.text = s]
  <2>1. b \in TaskRec /\ b.kind = "record" /\ b.at = {} /\ b.pw = None
    BY BeginTyped DEF Kind
  <2>2. Starts(t, v) /\ Load(t, v)
    BY <1>6 DEF Record
  <2>3. Writer(v) /\ v.kind \in Logs
    <3> HIDE DEF b
    <3> QED
      BY <2>1 DEF Writer, TaskRec, Logs, Password
  <2> HIDE DEF v
  <2> QED
    BY <1>6, <2>2, <2>3, StartsLog DEF Record, host
<1>7. ASSUME NEW c \in Conn, Save(t, w, c) \/ Delete(t, w, c) PROVE KeyInv'
  BY <1>7, SaveKey, DeleteKey
<1> QED
  BY <1>1, <1>2, <1>3, <1>4, <1>5, <1>6, <1>7 DEF User

LEMMA KeyStep == TypeInv /\ KeyInv /\ [Next]_vars => KeyInv'
<1> SUFFICES ASSUME TypeInv, KeyInv, [Next]_vars PROVE KeyInv'
  OBVIOUS
<1>1. CASE UNCHANGED vars
  BY <1>1 DEF vars, host, ideal, marks, KeyInv, AtInv, DueInv, DoneInv
<1>2. CASE OfferMoves
  BY <1>2 DEF OfferMoves, ideal, marks, KeyInv, AtInv, DueInv, DoneInv
<1> QED
  BY <1>1, <1>2, TaskKey, UserKey DEF Next

(* With nothing under way the keychain holds the password that was last    *)
(* given for a connection, and none that a delete or an import took away,  *)
(* unless two handlers were at it, the keychain refused, or an import      *)
(* brought back a row whose password had been left behind: for any number  *)
(* of windows, of connections and of handlers, and any order of awaits.    *)
THEOREM KeychainIsRight == Spec => []KeychainFollows
<1>1. Spec => [](TypeInv /\ KeyInv)
  BY TypeInit, TypeStep, KeyInit, KeyStep, PTL DEF Spec
<1> QED
  BY <1>1, KeyDone, PTL

-----------------------------------------------------------------------------
(* The order of calls: who waits, and who waits behind whom.               *)
Within(q) == {q[i] : i \in 1..Len(q)}
Once(q) == \A i, j \in 1..Len(q) : q[i] = q[j] => i = j
After(q, t, u) == \E i, j \in 1..Len(q) : i < j /\ q[i] = t /\ q[j] = u

LEMMA AfterWithin ==
  ASSUME NEW q, NEW t, NEW u, After(q, t, u)
  PROVE  t \in Within(q) /\ u \in Within(q)
BY DEF After, Within

LEMMA JoinsLast ==
  ASSUME NEW q \in Seq(Task), NEW t \in Task, Once(q), t \notin Within(q)
  PROVE  /\ Once(Append(q, t)) /\ Within(Append(q, t)) = Within(q) \cup {t}
         /\ \A x, y \in Task : After(Append(q, t), x, y) <=>
              After(q, x, y) \/ (x \in Within(q) /\ y = t)
<1> DEFINE r == Append(q, t)
           n == Len(q)
<1>1. /\ n \in Nat /\ Len(r) = n + 1 /\ r[n + 1] = t
      /\ \A i \in 1..n : r[i] = q[i]
  BY AppendProperties, LenProperties
<1> HIDE DEF r
<1>2. 1..Len(r) = 1..n \cup {n + 1}
  BY <1>1
<1>3. \A i \in 1..n : q[i] # t
  BY DEF Within
<1>4. Once(r)
  BY <1>1, <1>2, <1>3 DEF Once
<1>5. Within(r) = Within(q) \cup {t}
  BY <1>1, <1>2 DEF Within
<1>6. ASSUME NEW x \in Task, NEW y \in Task
      PROVE  After(r, x, y) <=> After(q, x, y) \/ (x \in Within(q) /\ y = t)
  <2>1. ASSUME After(r, x, y)
        PROVE  After(q, x, y) \/ (x \in Within(q) /\ y = t)
    <3>1. PICK i, j \in 1..Len(r) : i < j /\ r[i] = x /\ r[j] = y
      BY <2>1 DEF After
    <3>2. i \in 1..n
      BY <1>1, <1>2, <3>1
    <3> QED
      BY <1>1, <1>2, <3>1, <3>2 DEF After, Within
  <2>2. ASSUME After(q, x, y) PROVE After(r, x, y)
    BY <1>1, <1>2, <2>2 DEF After
  <2>3. ASSUME x \in Within(q), y = t PROVE After(r, x, y)
    <3>1. PICK i \in 1..n : q[i] = x
      BY <2>3 DEF Within
    <3>2. i < n + 1 /\ r[i] = x /\ r[n + 1] = y /\ i \in 1..Len(r)
          /\ n + 1 \in 1..Len(r)
      BY <1>1, <1>2, <2>3, <3>1
    <3> QED
      BY <3>2 DEF After
  <2> QED
    BY <2>1, <2>2, <2>3
<1> QED
  BY <1>4, <1>5, <1>6 DEF r

LEMMA LeavesFirst ==
  ASSUME NEW q \in Seq(Task), Once(q), q # <<>>
  PROVE  /\ Once(Tail(q)) /\ Within(Tail(q)) = Within(q) \ {Head(q)}
         /\ \A x, y \in Task : After(Tail(q), x, y) <=>
              After(q, x, y) /\ x # Head(q)
         /\ \A y \in Within(q) \ {Head(q)} : After(q, Head(q), y)
<1> DEFINE r == Tail(q)
           n == Len(q)
           h == Head(q)
<1>1. /\ n \in Nat \ {0} /\ Len(r) = n - 1 /\ h = q[1]
      /\ \A i \in 1..(n - 1) : r[i] = q[i + 1]
  BY HeadTailProperties, LenProperties, EmptySeq
<1> HIDE DEF r, h
<1>2. \A i \in 2..n : q[i] # h
  BY <1>1 DEF Once
<1>3. \A i \in 1..n : i = 1 \/ i \in 2..n
  BY <1>1
<1>4. Once(r)
  <2> SUFFICES ASSUME NEW i \in 1..Len(r), NEW j \in 1..Len(r), r[i] = r[j]
               PROVE  i = j
    BY DEF Once
  <2>1. i + 1 \in 1..n /\ j + 1 \in 1..n /\ q[i + 1] = q[j + 1]
    BY <1>1
  <2>2. i + 1 = j + 1
    BY <2>1 DEF Once
  <2> QED
    BY <2>2, <1>1
<1>5. Within(r) = Within(q) \ {h}
  <2>1. ASSUME NEW x \in Within(r) PROVE x \in Within(q) \ {h}
    <3>1. PICK i \in 1..Len(r) : r[i] = x
      BY DEF Within
    <3>2. i + 1 \in 2..n /\ q[i + 1] = x
      BY <1>1, <3>1
    <3>3. i + 1 \in 1..n
      BY <1>1, <3>2
    <3> QED
      BY <1>2, <3>2, <3>3 DEF Within
  <2>2. ASSUME NEW x \in Within(q) \ {h} PROVE x \in Within(r)
    <3>1. PICK i \in 1..n : q[i] = x
      BY DEF Within
    <3>2. i \in 2..n
      BY <1>1, <1>3, <3>1
    <3>3. i - 1 \in 1..Len(r) /\ r[i - 1] = x
      BY <1>1, <3>1, <3>2
    <3> QED
      BY <3>3 DEF Within
  <2> QED
    BY <2>1, <2>2
<1>6. ASSUME NEW x \in Task, NEW y \in Task
      PROVE  After(r, x, y) <=> After(q, x, y) /\ x # h
  <2>1. ASSUME After(r, x, y) PROVE After(q, x, y) /\ x # h
    <3>1. PICK i, j \in 1..Len(r) : i < j /\ r[i] = x /\ r[j] = y
      BY <2>1 DEF After
    <3>2. /\ i + 1 \in 1..n /\ j + 1 \in 1..n /\ i + 1 < j + 1
          /\ q[i + 1] = x /\ q[j + 1] = y /\ i + 1 \in 2..n
      BY <1>1, <3>1
    <3> QED
      BY <1>2, <3>2 DEF After
  <2>2. ASSUME After(q, x, y), x # h PROVE After(r, x, y)
    <3>1. PICK i, j \in 1..n : i < j /\ q[i] = x /\ q[j] = y
      BY <2>2 DEF After
    <3>2. i \in 2..n
      BY <1>1, <1>3, <2>2, <3>1
    <3>3. /\ i - 1 \in 1..Len(r) /\ j - 1 \in 1..Len(r) /\ i - 1 < j - 1
          /\ r[i - 1] = x /\ r[j - 1] = y
      BY <1>1, <3>1, <3>2
    <3> QED
      BY <3>3 DEF After
  <2> QED
    BY <2>1, <2>2
<1>7. ASSUME NEW y \in Within(q) \ {h} PROVE After(q, h, y)
  <2>1. PICK j \in 1..n : q[j] = y
    BY DEF Within
  <2>2. j \in 2..n
    BY <1>1, <1>3, <2>1
  <2>3. 1 \in 1..n /\ 1 < j
    BY <1>1, <2>2
  <2> QED
    BY <1>1, <2>1, <2>3 DEF After
<1> QED
  BY <1>4, <1>5, <1>6, <1>7 DEF r, h

Waiting == {"put", "get", "hget", "hput"}

QueueInv == \A w \in Window :
  /\ Once(queue[w])
  /\ \A t \in Task : t \in Within(queue[w]) <=>
                       task[t].win = w /\ task[t].pc \in Waiting

-----------------------------------------------------------------------------
(* The list of connections: what each window still has to write, what an   *)
(* import has put in its memory, and how far it is from the store.         *)
Puts(w) == {t \in Task : task[t].pc = "put" /\ task[t].win = w}
Placed(v) == IF v.kind = "import" /\ v.pc # "put" THEN v.at \ v.todo ELSE {}

(* A window goes by no list there never was; one that starts is alone with *)
(* its first handler.                                                      *)
UpInv ==
  /\ \A w \in Window : view[w] <= version /\ (w \notin up => view[w] = 0)
  /\ \A t \in Task : task[t].kind # "none" => task[t].win \in up
  /\ \A t \in Task : task[t].kind = "load" => \A u \in Task \ {t} :
       task[u].kind # "none" => task[u].win # task[t].win

(* What was read is what is stored, unless somebody wrote since.           *)
GotInv == \A t \in Task : task[t].pc = "got" =>
  task[t].ver <= version /\ (task[t].ver = version => task[t].val = stored)

(* A refresh that will be taken has all writes of its window before it.    *)
RefreshInv == \A w \in Window : \A t \in Task :
  task[t].kind = "refresh" /\ task[t].win = w =>
    /\ task[t].rev <= revision[w]
    /\ task[t].rev = revision[w] =>
         \A u \in Puts(w) : task[t].pc = "get" /\ ~After(queue[w], t, u)

(* A window behind which nobody wrote has the stored list, or the one it   *)
(* writes last, but for what an import has put there.                      *)
MemoryInv == \A w \in Window : view[w] = version =>
  \A c \in Conn \ Imported(w) :
    /\ Puts(w) = {} => memory[w][c] = stored[c]
    /\ \A t \in Puts(w) : (\A u \in Puts(w) : ~After(queue[w], t, u)) =>
         memory[w][c] = task[t].val[c]

(* A row is in the store as it was asked for, or in the one window that is *)
(* going to write it there.                                                *)
KeptInv == \A c \in Conn \ crossed : (\A w \in Window : c \notin Imported(w)) =>
  /\ (\A w \in Window : Puts(w) = {}) => stored[c] = kept[c]
  /\ \A w \in Window :
       Puts(w) # {} /\ view[w] = version /\ (\A u \in Window \ {w} : Puts(u) = {})
         => memory[w][c] = kept[c]

(* A row that an import has put in a memory will be written as asked for.  *)
ImportInv == \A w \in Window : \A c \in Imported(w) \ crossed :
  view[w] = version
    /\ (\A u \in Window \ {w} : Puts(u) = {} /\ c \notin Imported(u))
  => memory[w][c] = kept[c]

-----------------------------------------------------------------------------
(* What one step does to the handlers and the calls.                       *)
Aside(v) == v.pc \notin Waiting \cup {"got", "hgot"} /\ v.kind \notin {"refresh", "import"}
Alike(x, y) == x = y \/ (Aside(x) /\ Aside(y))
Others(t) == \A u \in Task \ {t} : Alike(task'[u], task[u])

Stays(t) == /\ task[t].pc \notin Waiting /\ task'[t].pc \notin Waiting
            /\ queue' = queue
Serves(t) == /\ task[t].pc \in Waiting /\ task'[t].pc \notin Waiting
             /\ First(t) /\ Served(t)
Joins(t) == /\ task[t].pc \notin Waiting /\ task'[t].pc \in Waiting
            /\ queue' = [queue EXCEPT ![task'[t].win] = Append(@, t)]
Steps(t) == Others(t) /\ (Stays(t) \/ Serves(t) \/ Joins(t))

LEMMA OrderKept ==
  ASSUME TypeInv, TypeInv', QueueInv, NEW t \in Task, Steps(t)
  PROVE  /\ QueueInv'
         /\ \A w \in Window : \A x, y \in Task :
              /\ After(queue'[w], x, y) =>
                   \/ After(queue[w], x, y)
                   \/ Joins(t) /\ w = task'[t].win /\ y = t
                      /\ x \in Within(queue[w])
              /\ After(queue[w], x, y) /\ x \in Within(queue'[w])
                   => After(queue'[w], x, y)
         /\ Joins(t) => \A x \in Within(queue[task'[t].win]) :
                          After(queue'[task'[t].win], x, t)
         /\ Serves(t) => \A y \in Within(queue[task[t].win]) \ {t} :
                           After(queue[task[t].win], t, y)
<1>1. /\ queue \in [Window -> Seq(Task)] /\ task[t].win \in Window
      /\ task'[t].win \in Window
  BY DEF TypeInv, WindowOK, TaskInv, TaskRec
<1>2. \A w \in Window : Once(queue[w]) /\ queue[w] \in Seq(Task)
  BY <1>1 DEF QueueInv
<1>3. \A u \in Task \ {t} : \A w \in Window :
        (task'[u].win = w /\ task'[u].pc \in Waiting) <=>
        (task[u].win = w /\ task[u].pc \in Waiting)
  BY DEF Steps, Others, Alike, Aside
<1>4. \A w \in Window : \A u \in Task : u \in Within(queue[w]) <=>
        task[u].win = w /\ task[u].pc \in Waiting
  BY DEF QueueInv
<1>5. CASE Stays(t)
  <2>1. queue' = queue /\ ~Joins(t) /\ ~Serves(t)
    BY <1>5 DEF Stays, Joins, Serves
  <2>2. \A w \in Window : \A u \in Task : u \in Within(queue'[w]) <=>
          task'[u].win = w /\ task'[u].pc \in Waiting
    BY <1>3, <1>4, <1>5, <2>1 DEF Stays
  <2>3. QueueInv'
    BY <1>2, <2>1, <2>2 DEF QueueInv
  <2> QED
    BY <2>1, <2>3
<1>6. CASE Serves(t)
  <2> DEFINE z == task[t].win
  <2>1. /\ queue[z] # <<>> /\ Head(queue[z]) = t /\ ~Joins(t)
        /\ queue' = [queue EXCEPT ![z] = Tail(@)]
        /\ task'[t].pc \notin Waiting
    BY <1>6 DEF Serves, First, Served, Joins
  <2>2. /\ Once(Tail(queue[z]))
        /\ Within(Tail(queue[z])) = Within(queue[z]) \ {t}
        /\ \A x, y \in Task : After(Tail(queue[z]), x, y) <=>
             After(queue[z], x, y) /\ x # t
        /\ \A y \in Within(queue[z]) \ {t} : After(queue[z], t, y)
    BY <1>1, <1>2, <2>1, LeavesFirst
  <2>3. /\ queue'[z] = Tail(queue[z])
        /\ \A w \in Window \ {z} : queue'[w] = queue[w]
    BY <1>1, <2>1
  <2>4. \A w \in Window : \A u \in Task : u \in Within(queue'[w]) <=>
          task'[u].win = w /\ task'[u].pc \in Waiting
    BY <1>3, <1>4, <2>1, <2>2, <2>3
  <2>5. QueueInv'
    BY <1>2, <2>2, <2>3, <2>4 DEF QueueInv
  <2>6. ASSUME NEW w \in Window, NEW x \in Task, NEW y \in Task
        PROVE  /\ After(queue'[w], x, y) => After(queue[w], x, y)
               /\ After(queue[w], x, y) /\ x \in Within(queue'[w])
                    => After(queue'[w], x, y)
    BY <2>2, <2>3
  <2> QED
    BY <2>1, <2>2, <2>5, <2>6
<1>7. CASE Joins(t)
  <2> DEFINE z == task'[t].win
  <2>1. /\ task[t].pc \notin Waiting /\ task'[t].pc \in Waiting
        /\ queue' = [queue EXCEPT ![z] = Append(@, t)] /\ ~Serves(t)
    BY <1>7 DEF Joins, Serves
  <2>2. t \notin Within(queue[z])
    BY <1>1, <1>4, <2>1
  <2>3. /\ Once(Append(queue[z], t))
        /\ Within(Append(queue[z], t)) = Within(queue[z]) \cup {t}
        /\ \A x, y \in Task : After(Append(queue[z], t), x, y) <=>
             After(queue[z], x, y) \/ (x \in Within(queue[z]) /\ y = t)
    BY <1>1, <1>2, <2>2, JoinsLast
  <2>4. /\ queue'[z] = Append(queue[z], t)
        /\ \A w \in Window \ {z} : queue'[w] = queue[w]
    BY <1>1, <2>1
  <2>5. \A w \in Window : \A u \in Task : u \in Within(queue'[w]) <=>
          task'[u].win = w /\ task'[u].pc \in Waiting
    BY <1>3, <1>4, <2>1, <2>3, <2>4
  <2>6. QueueInv'
    BY <1>2, <2>3, <2>4, <2>5 DEF QueueInv
  <2>7. ASSUME NEW w \in Window, NEW x \in Task, NEW y \in Task
        PROVE  /\ After(queue'[w], x, y) =>
                   \/ After(queue[w], x, y)
                   \/ w = z /\ y = t /\ x \in Within(queue[w])
               /\ After(queue[w], x, y) => After(queue'[w], x, y)
    BY <2>3, <2>4
  <2>8. \A x \in Within(queue[z]) : x \in Task
    BY <1>1 DEF Within
  <2>9. \A x \in Within(queue[z]) : After(queue'[z], x, t)
    BY <2>3, <2>4, <2>8
  <2> QED
    BY <1>7, <2>1, <2>6, <2>7, <2>9
<1> QED
  BY <1>5, <1>6, <1>7 DEF Steps

ListInv == MemoryInv /\ KeptInv /\ ImportInv
ReadInv == GotInv /\ RefreshInv

LEMMA ImportedIs ==
  ASSUME NEW w \in Window, NEW c
  PROVE  /\ c \in Imported(w) <=> \E u \in Task : task[u].win = w /\ c \in Placed(task[u])
         /\ c \in Imported(w)' <=>
              \E u \in Task : task'[u].win = w /\ c \in Placed(task'[u])
<1>1. c \in Imported(w) <=> \E u \in Task : task[u].win = w /\ c \in Placed(task[u])
  BY DEF Imported, Placed
<1>2. c \in Imported(w)' <=>
        \E u \in Task : task'[u].win = w /\ c \in Placed(task'[u])
  BY DEF Imported, Placed
<1> QED
  BY <1>1, <1>2

LEMMA OthersKeep ==
  ASSUME NEW t \in Task, Others(t)
  PROVE  \A u \in Task \ {t} :
           /\ task[u].pc \in Waiting \cup {"got", "hgot"}
                \/ task'[u].pc \in Waiting \cup {"got", "hgot"}
                \/ task[u].kind = "refresh" \/ task'[u].kind = "refresh"
                \/ Placed(task[u]) # {} \/ Placed(task'[u]) # {}
              => task'[u] = task[u]
BY DEF Others, Alike, Aside, Placed

(* A step that has nothing to do with the list but to read it.             *)
Calm(t) ==
  LET v == task[t]
      x == task'[t]
  IN /\ Steps(t) /\ v.pc # "put" /\ x.pc # "put"
     /\ Placed(x) = Placed(v) /\ (Placed(v) # {} => x.win = v.win)
     /\ x.pc = "got" => /\ v.pc = "get" /\ x.val = stored /\ x.ver = version
                        /\ x.kind = v.kind /\ x.rev = v.rev /\ x.win = v.win
     /\ x.kind = "refresh" /\ x.pc # "got" => x.pc = "get" /\ x.rev = revision[x.win]
                                              /\ Joins(t)
     /\ UNCHANGED <<memory, revision, stored, kept, view, version, crossed>>

LEMMA CalmSame ==
  ASSUME TypeInv, TypeInv', QueueInv, NEW t \in Task, Calm(t)
  PROVE  /\ \A w \in Window : /\ Puts(w)' = Puts(w) /\ Imported(w)' = Imported(w)
                              /\ t \notin Puts(w)
         /\ \A w \in Window : \A u \in Puts(w) : task'[u] = task[u]
         /\ \A w \in Window : \A u, z \in Puts(w) :
              After(queue'[w], u, z) <=> After(queue[w], u, z)
<1>0. QueueInv' /\ Others(t)
  BY OrderKept DEF Calm, Steps
<1>1. \A u \in Task \ {t} : task[u].pc = "put" \/ task'[u].pc = "put" => task'[u] = task[u]
  BY <1>0, OthersKeep DEF Waiting
<1>2. task[t].pc # "put" /\ task'[t].pc # "put"
  BY DEF Calm
<1>3. ASSUME NEW w \in Window
      PROVE  /\ Puts(w)' = Puts(w) /\ t \notin Puts(w)
             /\ \A u \in Puts(w) : task'[u] = task[u]
  BY <1>1, <1>2 DEF Puts
<1>4. ASSUME NEW w \in Window
      PROVE  Imported(w)' = Imported(w)
  <2>1. \A u \in Task \ {t} : Placed(task[u]) # {} \/ Placed(task'[u]) # {}
          => task'[u] = task[u]
    BY <1>0, OthersKeep
  <2>2. Placed(task'[t]) = Placed(task[t])
        /\ (Placed(task[t]) # {} => task'[t].win = task[t].win)
    BY DEF Calm
  <2>3. \A c : c \in Imported(w)' <=> c \in Imported(w)
    <3> TAKE c
    <3>1. \A u \in Task : (task'[u].win = w /\ c \in Placed(task'[u]))
                      <=> (task[u].win = w /\ c \in Placed(task[u]))
      BY <2>1, <2>2
    <3> QED
      BY <3>1, ImportedIs
  <2> QED
    BY <2>3
<1>5. ASSUME NEW w \in Window, NEW u \in Puts(w), NEW z \in Puts(w)
      PROVE  After(queue'[w], u, z) <=> After(queue[w], u, z)
  <2>1. u \in Task /\ z \in Task /\ z # t
    BY <1>3 DEF Puts
  <2>2. u \in Within(queue'[w])
    <3>1. task'[u].pc = "put" /\ task'[u].win = w
      BY <1>3 DEF Puts
    <3> QED
      BY <1>0, <2>1, <3>1 DEF QueueInv, Waiting
  <2> QED
    BY <2>1, <2>2, OrderKept DEF Calm
<1> QED
  BY <1>3, <1>4, <1>5

LEMMA CalmList ==
  ASSUME TypeInv, TypeInv', QueueInv, ListInv, NEW t \in Task, Calm(t)
  PROVE  ListInv'
<1> USE CalmSame
<1>1. UNCHANGED <<memory, stored, kept, view, version, crossed>>
  BY DEF Calm
<1>2. MemoryInv'
  <2> SUFFICES ASSUME NEW w \in Window, view[w] = version,
                      NEW c \in Conn \ Imported(w)
               PROVE  /\ Puts(w) = {} => memory[w][c] = stored[c]
                      /\ \A z \in Puts(w) :
                           (\A u \in Puts(w) : ~After(queue'[w], z, u)) =>
                              memory[w][c] = task'[z].val[c]
    BY <1>1 DEF MemoryInv
  <2> QED
    BY DEF ListInv, MemoryInv
<1>3. KeptInv'
  BY <1>1 DEF ListInv, KeptInv
<1>4. ImportInv'
  BY <1>1 DEF ListInv, ImportInv
<1> QED
  BY <1>2, <1>3, <1>4 DEF ListInv

LEMMA CalmRead ==
  ASSUME TypeInv, TypeInv', QueueInv, ReadInv, NEW t \in Task, Calm(t)
  PROVE  ReadInv'
<1>0. QueueInv' /\ Others(t)
  BY OrderKept DEF Calm, Steps
<1>1. UNCHANGED <<memory, revision, stored, version>>
  BY DEF Calm
<1>2. version \in Nat /\ \A w \in Window : revision[w] \in Nat
  BY DEF TypeInv, CountOK, WindowOK
<1>3. GotInv'
  <2> SUFFICES ASSUME NEW u \in Task, task'[u].pc = "got"
               PROVE  /\ task'[u].ver <= version
                      /\ task'[u].ver = version => task'[u].val = stored
    BY <1>1 DEF GotInv
  <2>1. CASE u = t
    BY <1>2, <2>1 DEF Calm
  <2>2. CASE u # t
    <3>1. task'[u] = task[u]
      BY <1>0, <2>2, OthersKeep
    <3> QED
      BY <3>1 DEF ReadInv, GotInv
  <2> QED
    BY <2>1, <2>2
<1>4. RefreshInv'
  <2> SUFFICES ASSUME NEW w \in Window, NEW u \in Task,
                      task'[u].kind = "refresh", task'[u].win = w
               PROVE  /\ task'[u].rev <= revision[w]
                      /\ task'[u].rev = revision[w] =>
                           \A z \in Puts(w)' :
                             /\ task'[u].pc = "get" /\ ~After(queue'[w], u, z)
    BY <1>1 DEF RefreshInv
  <2>0. w \in Window
    OBVIOUS
  <2>00. \A z \in Puts(w) : z \in Task /\ z # t
    BY <2>0, CalmSame DEF Puts
  <2>1. CASE u = t /\ task'[t].pc = "got"
    <3>1. /\ task[t].pc = "get" /\ task'[t].rev = task[t].rev
          /\ task[t].win = w /\ task[t].kind = "refresh"
      BY <2>1 DEF Calm
    <3>2. Serves(t)
      BY <2>1, <3>1 DEF Calm, Steps, Stays, Joins, Waiting
    <3>3. \A z \in Puts(w) : After(queue[w], t, z)
      <4> TAKE z \in Puts(w)
      <4>1. z \in Within(queue[w]) /\ z # t
        BY <2>0, <2>00 DEF QueueInv, Puts, Waiting
      <4> QED
        BY <3>1, <3>2, <4>1, OrderKept DEF Calm
    <3>4. task[t].rev = revision[w] => Puts(w) = {}
      BY <3>1, <3>3 DEF ReadInv, RefreshInv
    <3>5. task[t].rev <= revision[w]
      BY <3>1 DEF ReadInv, RefreshInv
    <3> QED
      BY <2>0, <2>1, <3>1, <3>4, <3>5, CalmSame
  <2>2. CASE u = t /\ task'[t].pc # "got"
    <3>1. task'[t].pc = "get" /\ task'[t].rev = revision[w] /\ Joins(t)
      BY <2>2 DEF Calm
    <3>2. t \notin Within(queue[w])
      BY <2>0, <3>1 DEF Joins, QueueInv
    <3>3. \A z \in Puts(w) : ~After(queue'[w], t, z)
      BY <2>0, <2>00, <3>2, AfterWithin, OrderKept DEF Calm
    <3> QED
      BY <1>2, <2>0, <2>2, <3>1, <3>3, CalmSame
  <2>3. CASE u # t
    <3>1. task'[u] = task[u]
      BY <1>0, <2>3, OthersKeep
    <3>2. \A z \in Puts(w) : After(queue'[w], u, z) => After(queue[w], u, z)
      BY <2>0, <2>00, OrderKept DEF Calm
    <3> QED
      BY <2>0, <3>1, <3>2, CalmSame DEF ReadInv, RefreshInv
  <2> QED
    BY <2>1, <2>2, <2>3
<1> QED
  BY <1>3, <1>4 DEF ReadInv

(* A window has changed its list, and writes it.                           *)
Persisting(t, w, rows) ==
  LET v == task[t]
      x == task'[t]
  IN /\ x.win = w /\ Others(t) /\ Joins(t) /\ x.pc = "put" /\ x.val = rows
     /\ x.kind # "refresh" /\ (Placed(v) # {} => v.win = w)
     /\ memory' = [memory EXCEPT ![w] = rows]
     /\ revision' = [revision EXCEPT ![w] = @ + 1]
     /\ UNCHANGED <<stored, view, version, crossed>>
     /\ \A c \in Conn : memory[w][c] = kept[c] => rows[c] = kept'[c]

LEMMA PersistingMoves ==
  ASSUME TypeInv, TypeInv', QueueInv, NEW t \in Task,
         NEW w \in Window, NEW rows, Persisting(t, w, rows)
  PROVE  /\ QueueInv' /\ t \in Puts(w)'
         /\ \A z \in Window \ {w} :
              Puts(z)' = Puts(z) /\ Imported(z)' = Imported(z) /\ t \notin Puts(z)
         /\ Imported(w)' \subseteq Imported(w)
         /\ \A z \in Window : \A u \in Puts(z) : task'[u] = task[u] /\ u # t
         /\ \A u \in Puts(w)' \ {t} : After(queue'[w], u, t)
         /\ \A z \in Window \ {w} : \A u \in Task, y \in Task :
              After(queue'[z], u, y) => After(queue[z], u, y)
         /\ \A z \in Window : \A u \in Puts(z), y \in Task :
              After(queue[z], u, y) => After(queue'[z], u, y)
<1>0. QueueInv' /\ Others(t) /\ Joins(t) /\ Steps(t) /\ task'[t].win = w
  BY OrderKept DEF Persisting, Steps
<1>1. \A u \in Task \ {t} : task[u].pc = "put" \/ task'[u].pc = "put" => task'[u] = task[u]
  BY <1>0, OthersKeep DEF Waiting
<1>2. task[t].pc # "put" /\ task'[t].pc = "put"
  BY <1>0 DEF Persisting, Joins, Waiting
<1>3. \A z \in Window \ {w} : Puts(z)' = Puts(z) /\ t \notin Puts(z)
  BY <1>0, <1>1, <1>2 DEF Puts
<1>4. t \in Puts(w)'
  BY <1>0, <1>2 DEF Puts
<1>5. \A z \in Window : \A u \in Puts(z) : task'[u] = task[u] /\ u # t /\ u \in Task
  BY <1>1, <1>2 DEF Puts
<1>6. \A u \in Task \ {t} : Placed(task[u]) # {} \/ Placed(task'[u]) # {}
        => task'[u] = task[u]
  BY <1>0, OthersKeep
<1>7. Placed(task'[t]) = {} /\ (Placed(task[t]) # {} => task[t].win = w)
  BY <1>2 DEF Persisting, Placed
<1>8. ASSUME NEW z \in Window \ {w} PROVE Imported(z)' = Imported(z)
  <2>1. \A c : c \in Imported(z)' <=> c \in Imported(z)
    <3> TAKE c
    <3>1. \A u \in Task : (task'[u].win = z /\ c \in Placed(task'[u]))
                      <=> (task[u].win = z /\ c \in Placed(task[u]))
      BY <1>6, <1>7
    <3> QED
      BY <3>1, ImportedIs
  <2> QED
    BY <2>1
<1>9. Imported(w)' \subseteq Imported(w)
  BY <1>0, <1>6, <1>7, ImportedIs
<1>10. \A u \in Puts(w)' \ {t} : After(queue'[w], u, t)
  <2> TAKE u \in Puts(w)' \ {t}
  <2>1. u \in Task /\ task[u].pc = "put" /\ task[u].win = w
    BY <1>1 DEF Puts
  <2>2. u \in Within(queue[w])
    BY <1>0, <2>1 DEF QueueInv, Waiting
  <2> QED
    BY <1>0, <2>2, OrderKept
<1>11. \A z \in Window \ {w} : \A u \in Task, y \in Task :
         After(queue'[z], u, y) => After(queue[z], u, y)
  BY <1>0, OrderKept
<1>12. \A z \in Window : \A u \in Puts(z), y \in Task :
         After(queue[z], u, y) => After(queue'[z], u, y)
  <2> TAKE z \in Window
  <2> TAKE u \in Puts(z), y \in Task
  <2>1. u \in Task /\ task'[u].pc = "put" /\ task'[u].win = z
    BY <1>5 DEF Puts
  <2>2. u \in Within(queue'[z])
    BY <1>0, <2>1 DEF QueueInv, Waiting
  <2> QED
    BY <1>0, <2>1, <2>2, OrderKept
<1> QED
  BY <1>0, <1>3, <1>4, <1>5, <1>8, <1>9, <1>10, <1>11, <1>12

LEMMA PersistingList ==
  ASSUME TypeInv, TypeInv', QueueInv, ListInv, NEW t \in Task,
         NEW w \in Window, NEW rows, Persisting(t, w, rows)
  PROVE  ListInv'
<1>0. memory \in [Window -> Rows]
  BY DEF TypeInv, WindowOK
<1>1. /\ memory' = [memory EXCEPT ![w] = rows] /\ task'[t].val = rows
      /\ UNCHANGED <<stored, view, version, crossed>>
      /\ \A c \in Conn : memory[w][c] = kept[c] => rows[c] = kept'[c]
  BY DEF Persisting
<1>2. /\ t \in Puts(w)'
      /\ \A z \in Window \ {w} :
           Puts(z)' = Puts(z) /\ Imported(z)' = Imported(z) /\ t \notin Puts(z)
      /\ Imported(w)' \subseteq Imported(w)
      /\ \A z \in Window : \A u \in Puts(z) : task'[u] = task[u] /\ u # t
      /\ \A u \in Puts(w)' \ {t} : After(queue'[w], u, t)
      /\ \A z \in Window : \A u \in Puts(z), y \in Task :
           After(queue[z], u, y) => After(queue'[z], u, y)
  BY PersistingMoves
<1>3. memory'[w] = rows /\ \A z \in Window \ {w} : memory'[z] = memory[z]
  BY <1>0, <1>1, <1>2
<1>4. MemoryInv'
  <2> SUFFICES ASSUME NEW z \in Window, view[z] = version,
                      NEW c \in Conn \ Imported(z)'
               PROVE  /\ Puts(z)' = {} => memory'[z][c] = stored[c]
                      /\ \A y \in Puts(z)' :
                           (\A u \in Puts(z)' : ~After(queue'[z], y, u)) =>
                              memory'[z][c] = task'[y].val[c]
    BY <1>1 DEF MemoryInv
  <2>1. CASE z = w
    BY <1>1, <1>2, <1>3, <2>1
  <2>2. CASE z # w
    <3>1. Puts(z)' = Puts(z) /\ Imported(z)' = Imported(z) /\ memory'[z] = memory[z]
      BY <1>2, <1>3, <2>2
    <3>2. \A y \in Puts(z) : y \in Task /\ task'[y] = task[y]
      BY <1>2 DEF Puts
    <3> QED
      BY <1>2, <3>1, <3>2 DEF ListInv, MemoryInv
  <2> QED
    BY <2>1, <2>2
<1>5. \A c \in Conn \ crossed : view[w] = version /\
        (\A z \in Window \ {w} : Puts(z) = {} /\ c \notin Imported(z))
          => memory[w][c] = kept[c]
  <2> TAKE c \in Conn \ crossed
  <2> HAVE view[w] = version
           /\ (\A z \in Window \ {w} : Puts(z) = {} /\ c \notin Imported(z))
  <2>1. CASE c \in Imported(w)
    BY <1>2, <2>1 DEF ListInv, ImportInv
  <2>2. CASE c \notin Imported(w) /\ Puts(w) # {}
    BY <1>2, <2>2 DEF ListInv, KeptInv
  <2>3. CASE c \notin Imported(w) /\ Puts(w) = {}
    <3>1. stored[c] = kept[c]
      BY <2>3 DEF ListInv, KeptInv
    <3>2. memory[w][c] = stored[c]
      BY <1>2, <2>3 DEF ListInv, MemoryInv
    <3> QED
      BY <3>1, <3>2
  <2> QED
    BY <2>1, <2>2, <2>3
<1>6. KeptInv'
  <2> SUFFICES ASSUME NEW c \in Conn \ crossed,
                      \A z \in Window : c \notin Imported(z)',
                      NEW z \in Window, view[z] = version,
                      \A u \in Window \ {z} : Puts(u)' = {}
               PROVE  memory'[z][c] = kept'[c]
    BY <1>1, <1>2 DEF KeptInv
  <2>1. z = w
    BY <1>2
  <2>2. \A u \in Window \ {w} : Puts(u) = {} /\ c \notin Imported(u)
    BY <1>2, <2>1
  <2> QED
    BY <1>1, <1>3, <1>5, <2>1, <2>2
<1>7. ImportInv'
  <2> SUFFICES ASSUME NEW z \in Window, NEW c \in Imported(z)' \ crossed,
                      view[z] = version,
                      \A u \in Window \ {z} : Puts(u)' = {} /\ c \notin Imported(u)'
               PROVE  memory'[z][c] = kept'[c]
    BY <1>1 DEF ImportInv
  <2>1. z = w
    BY <1>2
  <2>2. \A u \in Window \ {w} : Puts(u) = {} /\ c \notin Imported(u)
    BY <1>2, <2>1
  <2>3. c \in Conn
    <3>1. Imported(w)' \subseteq Conn
      BY DEF Imported, TypeInv, TaskInv, TaskRec
    <3> QED
      BY <2>1, <3>1
  <2> QED
    BY <1>1, <1>3, <1>5, <2>1, <2>2, <2>3
<1> QED
  BY <1>4, <1>6, <1>7 DEF ListInv

LEMMA PersistingRead ==
  ASSUME TypeInv, TypeInv', QueueInv, ReadInv, NEW t \in Task,
         NEW w \in Window, NEW rows, Persisting(t, w, rows)
  PROVE  ReadInv'
<1>0. /\ revision \in [Window -> Nat] /\ Others(t) /\ task'[t].pc = "put"
      /\ task'[t].kind # "refresh"
      /\ revision' = [revision EXCEPT ![w] = @ + 1]
      /\ UNCHANGED <<stored, version>>
  BY DEF TypeInv, WindowOK, Persisting
<1>1. /\ \A z \in Window \ {w} : Puts(z)' = Puts(z)
      /\ \A z \in Window \ {w} : \A u \in Task, y \in Task :
           After(queue'[z], u, y) => After(queue[z], u, y)
  BY PersistingMoves
<1>2. \A u \in Task : task'[u].pc = "got" \/ task'[u].kind = "refresh"
        => task'[u] = task[u]
  BY <1>0, OthersKeep
<1>3. GotInv'
  BY <1>0, <1>2 DEF ReadInv, GotInv
<1>4. RefreshInv'
  <2> SUFFICES ASSUME NEW z \in Window, NEW u \in Task,
                      task'[u].kind = "refresh", task'[u].win = z
               PROVE  /\ task'[u].rev <= revision'[z]
                      /\ task'[u].rev = revision'[z] =>
                           \A y \in Puts(z)' :
                             /\ task'[u].pc = "get" /\ ~After(queue'[z], u, y)
    BY DEF RefreshInv
  <2>1. /\ task'[u] = task[u] /\ task[u].rev <= revision[z]
        /\ task[u].rev \in Nat /\ revision[z] \in Nat
    BY <1>0, <1>2 DEF ReadInv, RefreshInv, TypeInv, TaskInv, TaskRec
  <2>2. CASE z = w
    BY <1>0, <1>1, <2>1, <2>2
  <2>3. CASE z # w
    <3>1. revision'[z] = revision[z] /\ Puts(z)' = Puts(z)
      BY <1>0, <1>1, <2>3
    <3>2. \A y \in Puts(z) : y \in Task
      BY DEF Puts
    <3> QED
      BY <1>1, <2>1, <2>3, <3>1, <3>2 DEF ReadInv, RefreshInv
  <2> QED
    BY <2>2, <2>3
<1> QED
  BY <1>3, <1>4 DEF ReadInv

(* A write is served.                                                      *)
LEMMA AfterPutMoves ==
  ASSUME TypeInv, NEW t \in Task, task[t].pc = "put", AfterPut(t, task[t])
  PROVE  /\ \A u \in Task \ {t} : task'[u] = task[u]
         /\ \/ task'[t] = Idle
            \/ task'[t] = [task[t] EXCEPT !.pc = "key"] /\ task[t].kind = "save"
            \/ task'[t] = [task[t] EXCEPT !.pc = "wipe"] /\ task[t].kind = "delete"
<1>1. task \in [Task -> TaskRec]
  BY DEF TypeInv, TaskInv
<1>2. \/ task' = [task EXCEPT ![t] = Idle]
      \/ task' = [task EXCEPT ![t] = [task[t] EXCEPT !.pc = "key"]]
         /\ task[t].kind = "save"
      \/ task' = [task EXCEPT ![t] = [task[t] EXCEPT !.pc = "wipe"]]
         /\ task[t].kind = "delete"
  BY <1>1 DEF AfterPut, Goto, Finish
<1> QED
  BY <1>1, <1>2

LEMMA PutMoves ==
  ASSUME TypeInv, TypeInv', QueueInv, NEW t \in Task, NEW w \in Window,
         task[t].win = w, task[t].pc = "put", First(t), Served(t),
         AfterPut(t, task[t])
  PROVE  /\ QueueInv' /\ Serves(t) /\ task'[t].pc \notin Waiting \cup {"got"}
         /\ \A u \in Task \ {t} : task'[u] = task[u]
         /\ task'[t].kind # "refresh"
         /\ \A z \in Window : /\ Puts(z)' = Puts(z) \ {t}
                              /\ Imported(z)' = Imported(z)
         /\ \A z \in Window \ {w} : t \notin Puts(z)
         /\ t \in Puts(w)
         /\ \A y \in Puts(w) \ {t} : After(queue[w], t, y)
         /\ \A z \in Window : \A u \in Task, y \in Task :
              After(queue'[z], u, y) => After(queue[z], u, y)
         /\ \A z \in Window : \A u \in Puts(z) \ {t}, y \in Task :
              After(queue[z], u, y) => After(queue'[z], u, y)
<1>1. /\ \A u \in Task \ {t} : task'[u] = task[u]
      /\ \/ task'[t] = Idle
         \/ task'[t] = [task[t] EXCEPT !.pc = "key"] /\ task[t].kind = "save"
         \/ task'[t] = [task[t] EXCEPT !.pc = "wipe"] /\ task[t].kind = "delete"
  BY AfterPutMoves
<1>2. task'[t].pc \in {"idle", "key", "wipe"} /\ Placed(task'[t]) = {}
      /\ task'[t].kind # "refresh"
  <2>1. task[t] \in TaskRec
    BY DEF TypeInv, TaskInv
  <2>2. CASE task'[t] = Idle
    BY <2>2 DEF Idle, Placed
  <2>3. CASE task'[t] = [task[t] EXCEPT !.pc = "key"] /\ task[t].kind = "save"
    BY <2>1, <2>3 DEF TaskRec, Placed
  <2>4. CASE task'[t] = [task[t] EXCEPT !.pc = "wipe"] /\ task[t].kind = "delete"
    BY <2>1, <2>4 DEF TaskRec, Placed
  <2> QED
    BY <1>1, <2>2, <2>3, <2>4
<1>3. Serves(t) /\ Steps(t) /\ ~Joins(t)
  BY <1>1, <1>2 DEF Serves, Steps, Others, Alike, Waiting, Joins
<1>4. QueueInv'
  BY <1>3, OrderKept
<1>5. \A z \in Window : Puts(z)' = Puts(z) \ {t} /\ \A u \in Puts(z) : u \in Task
  BY <1>1, <1>2 DEF Puts
<1>6. t \in Puts(w) /\ \A z \in Window \ {w} : t \notin Puts(z)
  BY DEF Puts
<1>7. ASSUME NEW z \in Window PROVE Imported(z)' = Imported(z)
  <2>0. Placed(task[t]) = {}
    BY DEF Placed
  <2>1. \A c : c \in Imported(z)' <=> c \in Imported(z)
    <3> TAKE c
    <3>1. \A u \in Task : (task'[u].win = z /\ c \in Placed(task'[u]))
                      <=> (task[u].win = z /\ c \in Placed(task[u]))
      BY <1>1, <1>2, <2>0
    <3> QED
      BY <3>1, ImportedIs
  <2> QED
    BY <2>1
<1>8. \A y \in Puts(w) \ {t} : After(queue[w], t, y)
  <2> TAKE y \in Puts(w) \ {t}
  <2>1. y \in Within(queue[w])
    BY DEF Puts, QueueInv, Waiting
  <2> QED
    BY <1>3, <2>1, OrderKept
<1>9. \A z \in Window : \A u \in Task, y \in Task :
        After(queue'[z], u, y) => After(queue[z], u, y)
  BY <1>3, OrderKept
<1>10. \A z \in Window : \A u \in Puts(z) \ {t}, y \in Task :
         After(queue[z], u, y) => After(queue'[z], u, y)
  <2> TAKE z \in Window
  <2> TAKE u \in Puts(z) \ {t}, y \in Task
  <2>1. u \in Task /\ task'[u].pc = "put" /\ task'[u].win = z
    BY <1>1 DEF Puts
  <2>2. u \in Within(queue'[z])
    BY <1>4, <2>1 DEF QueueInv, Waiting
  <2> QED
    BY <1>3, <2>1, <2>2, OrderKept
<1> QED
  BY <1>1, <1>2, <1>3, <1>4, <1>5, <1>6, <1>7, <1>8, <1>9, <1>10
     DEF Waiting

LEMMA PutRead ==
  ASSUME TypeInv, TypeInv', QueueInv, ReadInv, NEW t \in Task,
         task[t].pc = "put", First(t), Served(t), AfterPut(t, task[t]),
         version' = version + 1, revision' = revision
  PROVE  ReadInv'
<1>0. task[t].win \in Window /\ version \in Nat
  BY DEF TypeInv, TaskInv, TaskRec, CountOK
<1>1. /\ task'[t].pc # "got" /\ task'[t].kind # "refresh"
      /\ \A u \in Task \ {t} : task'[u] = task[u]
      /\ \A z \in Window : Puts(z)' = Puts(z) \ {t}
      /\ \A z \in Window : \A u \in Task, y \in Task :
           After(queue'[z], u, y) => After(queue[z], u, y)
  BY <1>0, PutMoves
<1>2. GotInv'
  <2> SUFFICES ASSUME NEW u \in Task, task'[u].pc = "got"
               PROVE  task'[u].ver <= version' /\ task'[u].ver # version'
    BY DEF GotInv
  <2>1. task'[u] = task[u] /\ task[u].ver <= version /\ task[u].ver \in Nat
    BY <1>1 DEF ReadInv, GotInv, TypeInv, TaskInv, TaskRec
  <2> QED
    BY <1>0, <2>1
<1>3. RefreshInv'
  <2> SUFFICES ASSUME NEW z \in Window, NEW u \in Task,
                      task'[u].kind = "refresh", task'[u].win = z
               PROVE  /\ task'[u].rev <= revision'[z]
                      /\ task'[u].rev = revision'[z] =>
                           \A y \in Puts(z)' :
                             /\ task'[u].pc = "get" /\ ~After(queue'[z], u, y)
    BY DEF RefreshInv
  <2>1. task'[u] = task[u] /\ \A y \in Puts(z) : y \in Task
    BY <1>1 DEF Puts
  <2> QED
    BY <1>1, <2>1 DEF ReadInv, RefreshInv
<1> QED
  BY <1>2, <1>3 DEF ReadInv

LEMMA PutList ==
  ASSUME TypeInv, TypeInv', QueueInv, UpInv, ListInv, NEW t \in Task, Put(t)
  PROVE  ListInv'
<1>9. PICK w \in Window : w = task[t].win
  BY DEF TypeInv, TaskInv, TaskRec
<1>0. w \in Window /\ version \in Nat /\ view \in [Window -> Nat]
      /\ kept \in Rows /\ stored' \in Rows
  BY DEF TypeInv, TaskInv, TaskRec, CountOK, WindowOK, HostOK
<1>1. /\ stored' = task[t].val /\ version' = version + 1
      /\ UNCHANGED <<memory, kept>>
      /\ \/ /\ view[w] = version /\ view' = [view EXCEPT ![w] = version + 1]
            /\ crossed' = crossed
         \/ /\ view[w] # version /\ view' = view
            /\ crossed' = crossed \cup {c \in Conn : task[t].val[c] # kept[c]}
  BY <1>9 DEF Put, window, ideal
<1>2. /\ \A u \in Task \ {t} : task'[u] = task[u]
      /\ \A z \in Window : Puts(z)' = Puts(z) \ {t} /\ Imported(z)' = Imported(z)
      /\ \A z \in Window \ {w} : t \notin Puts(z)
      /\ t \in Puts(w)
      /\ \A y \in Puts(w) \ {t} : After(queue[w], t, y)
      /\ \A z \in Window : \A u \in Puts(z) \ {t}, y \in Task :
           After(queue[z], u, y) => After(queue'[z], u, y)
  BY <1>9, PutMoves DEF Put
<1>3. \A z \in Window : view[z] <= version
  BY DEF UpInv
<1>4. \A z \in Window : view'[z] = version' <=> z = w /\ view[w] = version
  BY <1>0, <1>1, <1>3
<1>5. ~After(queue[w], t, t)
  <2>1. Once(queue[w]) /\ queue[w] \in Seq(Task)
    BY <1>0 DEF QueueInv, TypeInv, WindowOK
  <2> QED
    BY <2>1 DEF Once, After
<1>6. MemoryInv'
  <2> SUFFICES ASSUME view[w] = version, NEW c \in Conn \ Imported(w)
               PROVE  /\ Puts(w)' = {} => memory[w][c] = stored'[c]
                      /\ \A y \in Puts(w)' :
                           (\A u \in Puts(w)' : ~After(queue'[w], y, u)) =>
                              memory[w][c] = task'[y].val[c]
    BY <1>1, <1>2, <1>4 DEF MemoryInv
  <2>1. /\ Puts(w)' = Puts(w) \ {t} /\ t \in Task
        /\ \A y \in Puts(w) : y \in Task
    BY <1>0, <1>2 DEF Puts
  <2>2. ASSUME Puts(w)' = {} PROVE memory[w][c] = stored'[c]
    <3>1. Puts(w) = {t}
      BY <1>2, <2>1, <2>2
    <3> QED
      BY <1>0, <1>1, <1>5, <3>1 DEF ListInv, MemoryInv
  <2>3. ASSUME NEW y \in Puts(w)', \A u \in Puts(w)' : ~After(queue'[w], y, u)
        PROVE  memory[w][c] = task'[y].val[c]
    <3>1. y \in Puts(w) \ {t} /\ task'[y] = task[y]
      BY <1>2, <2>1
    <3>2. ~After(queue[w], y, t)
      <4>1. t \notin Within(queue'[w])
        BY <1>9, PutMoves DEF Put, QueueInv
      <4> QED
        BY <1>0, <1>2, <2>1, <3>1, <4>1, AfterWithin
    <3>3. \A u \in Puts(w) : ~After(queue[w], y, u)
      BY <1>0, <1>2, <2>1, <2>3, <3>1, <3>2
    <3> QED
      BY <1>0, <3>1, <3>3 DEF ListInv, MemoryInv
  <2> QED
    BY <2>2, <2>3
<1>7. KeptInv'
  <2>1. ASSUME NEW c \in Conn \ crossed', \A z \in Window : c \notin Imported(z),
               \A z \in Window : Puts(z)' = {}
        PROVE  stored'[c] = kept[c]
    <3>1. CASE view[w] # version
      BY <1>1, <2>1, <3>1
    <3>2. CASE view[w] = version
      <4>1. Puts(w) # {} /\ \A z \in Window \ {w} : Puts(z) = {}
        BY <1>2, <2>1
      <4>2. memory[w][c] = kept[c]
        BY <1>0, <1>1, <2>1, <3>2, <4>1 DEF ListInv, KeptInv
      <4>3. memory[w][c] = stored'[c]
        BY <1>0, <1>1, <1>2, <1>4, <1>6, <2>1, <3>2 DEF MemoryInv
      <4> QED
        BY <4>2, <4>3
    <3> QED
      BY <3>1, <3>2
  <2>2. ASSUME NEW c \in Conn \ crossed', \A z \in Window : c \notin Imported(z),
               NEW z \in Window, Puts(z)' # {}, view'[z] = version',
               \A u \in Window \ {z} : Puts(u)' = {}
        PROVE  memory[z][c] = kept[c]
    <3>1. z = w /\ view[w] = version
      BY <1>4, <2>2
    <3>2. \A u \in Window \ {w} : Puts(u) = {}
      BY <1>2, <2>2, <3>1
    <3> QED
      BY <1>1, <1>2, <2>2, <3>1, <3>2 DEF ListInv, KeptInv
  <2> QED
    BY <1>1, <1>2, <2>1, <2>2 DEF KeptInv
<1>8. ImportInv'
  <2> SUFFICES ASSUME NEW z \in Window, NEW c \in Imported(z)' \ crossed',
                      view'[z] = version',
                      \A u \in Window \ {z} : Puts(u)' = {} /\ c \notin Imported(u)'
               PROVE  memory[z][c] = kept[c]
    BY <1>1 DEF ImportInv
  <2>1. z = w /\ view[w] = version /\ crossed' = crossed
    BY <1>1, <1>4
  <2>2. \A u \in Window \ {w} : Puts(u) = {} /\ c \notin Imported(u)
    BY <1>2, <2>1
  <2> QED
    BY <1>2, <2>1, <2>2 DEF ListInv, ImportInv
<1> QED
  BY <1>6, <1>7, <1>8 DEF ListInv

LEMMA PutFailsList ==
  ASSUME TypeInv, TypeInv', QueueInv, UpInv, ListInv, NEW t \in Task, PutFails(t)
  PROVE  ListInv'
<1> DEFINE w == task[t].win
<1>0. w \in Window /\ version \in Nat /\ view \in [Window -> Nat]
  BY DEF TypeInv, TaskInv, TaskRec, CountOK, WindowOK
<1>1. /\ view' = [view EXCEPT ![w] = 0] /\ version' = version + 1
      /\ crossed' = crossed \cup {c \in Conn : stored[c] # kept[c]}
      /\ UNCHANGED <<stored, kept>>
  BY DEF PutFails, host, ideal
<1>2. \A z \in Window : view[z] <= version
  BY DEF UpInv
<1>3. \A z \in Window : view'[z] # version'
  BY <1>0, <1>1, <1>2
<1>4. MemoryInv' /\ ImportInv'
  BY <1>3 DEF MemoryInv, ImportInv
<1>5. KeptInv'
  BY <1>1, <1>3 DEF KeptInv
<1> QED
  BY <1>4, <1>5 DEF ListInv

(* A list that was read is taken.                                          *)
Taking(t, w) ==
  LET v == task[t]
      x == task'[t]
  IN /\ v.win = w /\ v.pc = "got" /\ x.pc \notin Waiting \cup {"got"}
     /\ x.kind # "refresh" /\ Placed(v) = {} /\ Placed(x) = {}
     /\ \A u \in Task \ {t} : task'[u] = task[u]
     /\ Puts(w) = {} /\ Imported(w) \subseteq crossed' /\ crossed \subseteq crossed'
     /\ memory' = [memory EXCEPT ![w] = v.val]
     /\ view' = [view EXCEPT ![w] = v.ver]
     /\ UNCHANGED <<queue, revision, stored, kept, version>>

LEMMA TakingSame ==
  ASSUME NEW t \in Task, NEW w \in Window, Taking(t, w)
  PROVE  \A z \in Window : Puts(z)' = Puts(z) /\ Imported(z)' = Imported(z)
<1>1. ASSUME NEW z \in Window PROVE Puts(z)' = Puts(z)
  BY DEF Taking, Waiting, Puts
<1>2. ASSUME NEW z \in Window PROVE Imported(z)' = Imported(z)
  <2>1. \A c : c \in Imported(z)' <=> c \in Imported(z)
    <3> TAKE c
    <3>1. \A u \in Task : (task'[u].win = z /\ c \in Placed(task'[u]))
                      <=> (task[u].win = z /\ c \in Placed(task[u]))
      BY DEF Taking
    <3> QED
      BY <3>1, ImportedIs
  <2> QED
    BY <2>1
<1> QED
  BY <1>1, <1>2

LEMMA TakingKeeps ==
  ASSUME TypeInv, ListInv, ReadInv, NEW t \in Task, NEW w \in Window,
         Taking(t, w)
  PROVE  ListInv' /\ ReadInv'
<1>0. memory \in [Window -> Rows] /\ view \in [Window -> Nat]
  BY DEF TypeInv, WindowOK
<1>1. /\ \A z \in Window : Puts(z)' = Puts(z) /\ Imported(z)' = Imported(z)
      /\ \A z \in Window : \A u \in Puts(z) : u \in Task /\ task'[u] = task[u]
  BY TakingSame DEF Taking, Puts
<1>2. /\ memory'[w] = task[t].val /\ view'[w] = task[t].ver
      /\ \A z \in Window \ {w} : memory'[z] = memory[z] /\ view'[z] = view[z]
      /\ UNCHANGED <<queue, revision, stored, kept, version>>
      /\ Puts(w) = {} /\ Imported(w) \subseteq crossed' /\ crossed \subseteq crossed'
  BY <1>0 DEF Taking
<1>3. task[t].ver = version => task[t].val = stored
  BY DEF ReadInv, GotInv, Taking
<1>4. MemoryInv'
  <2> SUFFICES ASSUME NEW z \in Window, view'[z] = version,
                      NEW c \in Conn \ Imported(z)
               PROVE  /\ Puts(z) = {} => memory'[z][c] = stored[c]
                      /\ \A y \in Puts(z) :
                           (\A u \in Puts(z) : ~After(queue[z], y, u)) =>
                              memory'[z][c] = task'[y].val[c]
    BY <1>1, <1>2 DEF MemoryInv
  <2>1. CASE z = w
    BY <1>2, <1>3, <2>1
  <2>2. CASE z # w
    BY <1>1, <1>2, <2>2 DEF ListInv, MemoryInv
  <2> QED
    BY <2>1, <2>2
<1>5. KeptInv'
  BY <1>1, <1>2 DEF ListInv, KeptInv
<1>6. ImportInv'
  BY <1>1, <1>2 DEF ListInv, ImportInv
<1>7. GotInv'
  BY <1>2 DEF ReadInv, GotInv, Taking
<1>8. RefreshInv'
  BY <1>1, <1>2 DEF ReadInv, RefreshInv, Taking
<1> QED
  BY <1>4, <1>5, <1>6, <1>7, <1>8 DEF ListInv, ReadInv

LEMMA LoadedList ==
  ASSUME TypeInv, UpInv, ListInv, ReadInv, NEW t \in Task, Loaded(t)
  PROVE  ListInv' /\ ReadInv'
<1>1. PICK w \in Window : w = task[t].win
  BY DEF TypeInv, TaskInv, TaskRec
<1>2. task \in [Task -> TaskRec] /\ task[t].kind = "load" /\ task[t].pc = "got"
  BY DEF TypeInv, TaskInv, Loaded
<1>3. task' = [task EXCEPT ![t] = [task[t] EXCEPT !.pc = "file"]]
  BY <1>2 DEF Loaded, Goto
<1>4. /\ task'[t].pc = "file" /\ task'[t].kind = "load"
      /\ \A u \in Task \ {t} : task'[u] = task[u]
  BY <1>2, <1>3 DEF TaskRec
<1>5. \A u \in Task \ {t} : task[u].kind # "none" => task[u].win # w
  BY <1>1, <1>2 DEF UpInv
<1>6. \A u \in Task : task[u].pc = "put" => task[u].kind # "none"
  BY DEF TypeInv, TaskInv, Handler, Idle
<1>7. Puts(w) = {}
  BY <1>2, <1>5, <1>6 DEF Puts
<1>8. Imported(w) = {}
  BY <1>2, <1>5 DEF Imported
<1>9. /\ memory' = [memory EXCEPT ![w] = task[t].val]
      /\ view' = [view EXCEPT ![w] = task[t].ver]
      /\ UNCHANGED <<queue, revision, stored, kept, version, crossed>>
  BY <1>1 DEF Loaded, host, ideal, marks
<1>10. Taking(t, w)
  BY <1>1, <1>2, <1>4, <1>7, <1>8, <1>9 DEF Taking, Placed, Waiting
<1> QED
  BY <1>10, TakingKeeps

LEMMA RefreshedList ==
  ASSUME TypeInv, TypeInv', QueueInv, ListInv, ReadInv, NEW t \in Task,
         Refreshed(t)
  PROVE  ListInv' /\ ReadInv'
<1>1. PICK w \in Window : w = task[t].win
  BY DEF TypeInv, TaskInv, TaskRec
<1>2. /\ task[t].kind = "refresh" /\ task[t].pc = "got" /\ task'[t] = Idle
      /\ \A u \in Task \ {t} : task'[u] = task[u]
  BY DEF TypeInv, TaskInv, Refreshed, Finish
<1>3. /\ task'[t].pc = "idle" /\ task'[t].kind = "none"
      /\ Placed(task[t]) = {} /\ Placed(task'[t]) = {}
  BY <1>2 DEF Idle, Placed
<1>4. UNCHANGED <<queue, revision, stored, kept, version>>
  BY DEF Refreshed, host, ideal
<1>5. CASE revision[w] = task[t].rev
  <2>1. Puts(w) = {}
    BY <1>1, <1>2, <1>5 DEF ReadInv, RefreshInv
  <2>2. /\ memory' = [memory EXCEPT ![w] = task[t].val]
        /\ view' = [view EXCEPT ![w] = task[t].ver]
        /\ crossed' = crossed \cup Imported(w)
    BY <1>1, <1>5 DEF Refreshed
  <2>3. Taking(t, w)
    BY <1>1, <1>2, <1>3, <1>4, <2>1, <2>2 DEF Taking, Waiting
  <2> QED
    BY <2>3, TakingKeeps
<1>6. CASE revision[w] # task[t].rev
  <2>1. UNCHANGED <<memory, view, crossed>>
    BY <1>1, <1>6 DEF Refreshed
  <2>2. Calm(t)
    BY <1>2, <1>3, <1>4, <2>1 DEF Calm, Steps, Stays, Others, Alike, Waiting
  <2> QED
    BY <2>2, CalmList, CalmRead
<1> QED
  BY <1>5, <1>6

(* A record of the backup is placed.                                       *)
LEMMA PlaceList ==
  ASSUME TypeInv, ListInv, ReadInv, NEW t \in Task, Place(t)
  PROVE  ListInv' /\ ReadInv'
<1> DEFINE v == task[t]
<1>0. Handler(v) /\ v.kind = "import" /\ v.pc = "each" /\ v \in TaskRec
      /\ v.todo \subseteq v.at /\ v.at \subseteq Conn
  BY DEF TypeInv, TaskInv, Handler, Stands, About, Logs, Place, TaskRec
<1>1. PICK w \in Window : w = task[t].win
  BY <1>0 DEF TaskRec
<1>2. PICK c \in v.todo :
       /\ memory' = [memory EXCEPT ![w][c] = v.val.rows[c]]
       /\ task' = [task EXCEPT ![t].todo = @ \ {c}, ![t].conn = c,
                     ![t].pc = PlaceKey(v, c), ![t].pw = v.val.pw[c]]
       /\ kept' = [kept EXCEPT ![c] = v.val.rows[c]]
  BY <1>1 DEF Place
<1> DEFINE q == v.val.pw[c]
           p == PlaceKey(v, c)
           k == v.todo \ {c}
           r == v.val.rows[c]
           x == [v EXCEPT !.todo = k, !.conn = c, !.pc = p, !.pw = q]
<1>3. p \in {"key", "wipe", "each"}
  BY DEF PlaceKey
<1>4. x.at = v.at /\ x.kind = "import" /\ x.pc = p /\ x.todo = k /\ x.win = w
  <2> HIDE DEF p, q, k
  <2> QED
    BY <1>0, <1>1 DEF TaskRec
<1>5. /\ task' = [task EXCEPT ![t] = x] /\ c \in Conn /\ c \in v.at
      /\ task \in [Task -> TaskRec]
  BY <1>0, <1>2 DEF TypeInv, TaskInv
<1>6. Placed(x) = Placed(v) \cup {c}
  <2> HIDE DEF p, x
  <2> QED
    BY <1>0, <1>3, <1>4, <1>5 DEF Placed
<1>7. /\ memory \in [Window -> Rows] /\ kept \in Rows
      /\ memory' = [memory EXCEPT ![w][c] = r] /\ kept' = [kept EXCEPT ![c] = r]
  BY <1>2 DEF TypeInv, WindowOK, HostOK
<1>8. UNCHANGED <<queue, revision, stored, view, version, crossed>>
  BY DEF Place, host, counts, views
<1> HIDE DEF q, p, k, x, r
<1>9. /\ memory'[w][c] = r /\ kept'[c] = r
      /\ \A d \in Conn \ {c} : memory'[w][d] = memory[w][d] /\ kept'[d] = kept[d]
      /\ \A z \in Window \ {w} : memory'[z] = memory[z]
  BY <1>5, <1>7 DEF Rows
<1>10. /\ task'[t] = x /\ \A u \in Task \ {t} : task'[u] = task[u]
       /\ x.pc \notin Waiting \cup {"got"} /\ v.pc \notin Waiting \cup {"got"}
       /\ x.kind # "refresh" /\ v.kind # "refresh"
  BY <1>0, <1>3, <1>4, <1>5 DEF Waiting
<1>11. /\ \A z \in Window : Puts(z)' = Puts(z)
       /\ \A z \in Window : \A u \in Puts(z) : u \in Task /\ task'[u] = task[u]
  BY <1>10 DEF Puts, Waiting
<1>12. ASSUME NEW z \in Window, NEW d
       PROVE  d \in Imported(z)' <=> d \in Imported(z) \/ (z = w /\ d = c)
  <2>1. \A u \in Task : (task'[u].win = z /\ d \in Placed(task'[u])) <=>
          \/ task[u].win = z /\ d \in Placed(task[u])
          \/ u = t /\ z = w /\ d = c
    BY <1>1, <1>4, <1>6, <1>10
  <2> QED
    BY <2>1, ImportedIs
<1>13. MemoryInv'
  <2> SUFFICES ASSUME NEW z \in Window, view[z] = version,
                      NEW d \in Conn, d \notin Imported(z)'
               PROVE  /\ Puts(z) = {} => memory'[z][d] = stored[d]
                      /\ \A y \in Puts(z) :
                           (\A u \in Puts(z) : ~After(queue[z], y, u)) =>
                              memory'[z][d] = task'[y].val[d]
    BY <1>8, <1>11 DEF MemoryInv
  <2>1. d \notin Imported(z) /\ memory'[z][d] = memory[z][d]
    BY <1>9, <1>12
  <2> QED
    BY <1>11, <2>1 DEF ListInv, MemoryInv
<1>14. KeptInv'
  <2> SUFFICES ASSUME NEW d \in Conn \ crossed,
                      \A z \in Window : d \notin Imported(z)'
               PROVE  /\ (\A z \in Window : Puts(z) = {}) => stored[d] = kept'[d]
                      /\ \A z \in Window :
                           Puts(z) # {} /\ view[z] = version
                             /\ (\A u \in Window \ {z} : Puts(u) = {})
                           => memory'[z][d] = kept'[d]
    BY <1>8, <1>11 DEF KeptInv
  <2>1. d # c /\ \A z \in Window : d \notin Imported(z)
    BY <1>12
  <2>2. kept'[d] = kept[d] /\ \A z \in Window : memory'[z][d] = memory[z][d]
    BY <1>9, <2>1
  <2> QED
    BY <2>1, <2>2 DEF ListInv, KeptInv
<1>15. ImportInv'
  <2> SUFFICES ASSUME NEW z \in Window, NEW d, d \in Imported(z)', d \notin crossed,
                      view[z] = version,
                      \A u \in Window \ {z} : Puts(u) = {} /\ d \notin Imported(u)'
               PROVE  memory'[z][d] = kept'[d]
    BY <1>8, <1>11 DEF ImportInv
  <2>1. CASE d = c
    <3>1. z = w
      BY <1>12, <2>1
    <3> QED
      BY <1>9, <2>1, <3>1
  <2>2. CASE d # c
    <3>1. d \in Imported(z) /\ \A u \in Window \ {z} : d \notin Imported(u)
      BY <1>12, <2>2
    <3>2. d \in Conn
      <4>1. Imported(z) \subseteq Conn
        BY DEF Imported, TypeInv, TaskInv, TaskRec
      <4> QED
        BY <3>1, <4>1
    <3>3. kept'[d] = kept[d] /\ memory'[z][d] = memory[z][d]
      BY <1>9, <2>2, <3>2
    <3> QED
      BY <3>1, <3>3 DEF ListInv, ImportInv
  <2> QED
    BY <2>1, <2>2
<1>16. GotInv'
  BY <1>8, <1>10 DEF ReadInv, GotInv
<1>17. RefreshInv'
  BY <1>8, <1>10, <1>11 DEF ReadInv, RefreshInv
<1> QED
  BY <1>13, <1>14, <1>15, <1>16, <1>17 DEF ListInv, ReadInv

(* A step of a handler keeps its kind and its window, or ends it.          *)
Follows(t) ==
  /\ \A u \in Task \ {t} : /\ task'[u].kind = task[u].kind
                           /\ task'[u].win = task[u].win
  /\ \/ task'[t].kind = "none"
     \/ task'[t].kind = task[t].kind /\ task'[t].win = task[t].win

LEMMA CalmBy ==
  ASSUME TypeInv, NEW t \in Task, NEW x, task' = [task EXCEPT ![t] = x],
         task[t].pc # "put", x.pc \notin {"put", "got"}, x.kind # "refresh",
         Placed(x) = Placed(task[t]),
         x.kind = "none" \/ (x.kind = task[t].kind /\ x.win = task[t].win),
         \/ queue' = queue /\ task[t].pc \notin Waiting /\ x.pc \notin Waiting
         \/ First(t) /\ Served(t) /\ task[t].pc \in Waiting /\ x.pc \notin Waiting
         \/ queue' = [queue EXCEPT ![x.win] = Append(@, t)]
            /\ task[t].pc \notin Waiting /\ x.pc \in Waiting,
         UNCHANGED <<memory, revision, stored, kept, view, version, crossed>>
  PROVE  Calm(t) /\ Follows(t)
<1>1. task'[t] = x /\ \A u \in Task \ {t} : task'[u] = task[u]
  BY DEF TypeInv, TaskInv
<1>2. Steps(t)
  BY <1>1 DEF Steps, Others, Alike, Stays, Serves, Joins
<1>3. Placed(task[t]) # {} => x.win = task[t].win
  BY DEF Placed
<1> QED
  BY <1>1, <1>2, <1>3 DEF Calm, Follows

LEMMA CalmEnds ==
  ASSUME TypeInv, NEW t \in Task, Finish(t), task[t].pc # "put",
         Placed(task[t]) = {},
         \/ queue' = queue /\ task[t].pc \notin Waiting
         \/ First(t) /\ Served(t) /\ task[t].pc \in Waiting,
         UNCHANGED <<memory, revision, stored, kept, view, version, crossed>>
  PROVE  Calm(t) /\ Follows(t)
<1>1. Idle.pc = "idle" /\ Idle.kind = "none" /\ Placed(Idle) = {}
  BY DEF Idle, Placed
<1>2. task' = [task EXCEPT ![t] = Idle]
  BY DEF Finish
<1> QED
  BY <1>1, <1>2, CalmBy DEF Waiting

(* load, and what follows it.                                              *)
LEMMA CalmWrite ==
  ASSUME TypeInv, NEW t \in Task, task[t].pc \in {"history", "hgot"},
         NEW all, Write(t, task[t], all),
         UNCHANGED <<memory, revision, stored, kept, view, version, crossed>>
  PROVE  Calm(t) /\ Follows(t)
<1> DEFINE v == task[t]
<1>0. v \in TaskRec /\ v.kind \in Logs \cup {"delete"} /\ Placed(v) = {}
  BY DEF TypeInv, TaskInv, Handler, Stands, Logs, Placed
<1>1. CASE Finish(t) /\ UNCHANGED queue
  BY <1>0, <1>1, CalmEnds DEF Waiting
<1>2. ASSUME NEW next, Calls(t, [v EXCEPT !.pc = "hput", !.val = next])
      PROVE  Calm(t) /\ Follows(t)
  <2> DEFINE x == [v EXCEPT !.pc = "hput", !.val = next]
  <2>1. x.win = v.win /\ x.kind = v.kind /\ x.pc = "hput" /\ x.at = v.at
    BY <1>0 DEF TaskRec
  <2>2. task' = [task EXCEPT ![t] = x] /\ queue' = [queue EXCEPT ![x.win] = Append(@, t)]
    BY <1>2, <2>1 DEF Calls
  <2> HIDE DEF x
  <2>3. Placed(x) = {} /\ x.kind # "refresh"
    BY <1>0, <2>1 DEF Placed, Logs
  <2> QED
    BY <1>0, <2>1, <2>2, <2>3, CalmBy DEF Waiting
<1> QED
  BY <1>1, <1>2 DEF Write

LEMMA CalmTask ==
  ASSUME TypeInv, NEW t \in Task,
         \/ Got(t) \/ GetFails(t) \/ FileRead(t) \/ Key(t) \/ Seal(t) \/ Open(t)
         \/ Forget(t) \/ HistoryGot(t) \/ HistoryLoaded(t) \/ HistoryPut(t)
  PROVE  Calm(t) /\ Follows(t)
<1> DEFINE v == task[t]
<1>0. Handler(v) /\ v \in TaskRec /\ task \in [Task -> TaskRec]
  BY DEF TypeInv, TaskInv, Handler
<1>1. CASE Got(t)
  <2> DEFINE x == [v EXCEPT !.pc = "got", !.val = stored, !.ver = version]
  <2>1. task' = [task EXCEPT ![t] = x]
    BY <1>0, <1>1 DEF Got
  <2>2. /\ x.kind = v.kind /\ x.win = v.win /\ x.pc = "got" /\ x.rev = v.rev
        /\ x.val = stored /\ x.ver = version /\ v.pc = "get"
        /\ v.kind # "import"
    BY <1>0, <1>1 DEF Got, TaskRec, Handler, Stands, Logs
  <2> HIDE DEF x
  <2>3. task'[t] = x /\ \A u \in Task \ {t} : task'[u] = task[u]
    BY <1>0, <2>1
  <2>4. Steps(t)
    BY <1>1, <2>2, <2>3 DEF Got, Steps, Others, Alike, Serves, Waiting
  <2>5. UNCHANGED <<memory, revision, stored, kept, view, version, crossed>>
    BY <1>1 DEF Got, host, window, views, ideal, marks
  <2> QED
    BY <2>2, <2>3, <2>4, <2>5 DEF Calm, Follows, Placed
<1>2. CASE GetFails(t)
  <2>0. UNCHANGED <<memory, revision, stored, kept, view, version, crossed>>
    BY <1>2 DEF GetFails, host, window, views, ideal, marks
  <2>1. v.kind \in {"load", "refresh"} /\ Placed(v) = {} /\ v.pc = "get"
    BY <1>0, <1>2 DEF GetFails, Handler, Stands, Logs, Placed
  <2>2. CASE v.kind = "load"
    <3> DEFINE x == [v EXCEPT !.pc = "file"]
    <3>1. /\ task' = [task EXCEPT ![t] = x] /\ x.kind = v.kind /\ x.win = v.win
          /\ x.pc = "file"
      BY <1>0, <1>2, <2>2 DEF GetFails, Goto, TaskRec
    <3> HIDE DEF x
    <3>2. Placed(x) = {}
      BY <2>2, <3>1 DEF Placed
    <3> QED
      BY <1>2, <2>0, <2>1, <2>2, <3>1, <3>2, CalmBy DEF GetFails, Waiting
  <2>3. CASE v.kind # "load"
    BY <1>2, <2>0, <2>1, <2>3, CalmEnds DEF GetFails, Waiting
  <2> QED
    BY <2>2, <2>3
<1>3. CASE FileRead(t)
  <2>0. UNCHANGED <<memory, revision, stored, kept, view, version, crossed, queue>>
    BY <1>3 DEF FileRead, host, window, views, ideal, marks
  <2>1. PICK o : task' = [task EXCEPT ![t] = [v EXCEPT !.pc = "offers", !.val = o]]
    BY <1>0, <1>3 DEF FileRead
  <2> DEFINE x == [v EXCEPT !.pc = "offers", !.val = o]
  <2>2. x.kind = v.kind /\ x.win = v.win /\ x.pc = "offers" /\ v.pc = "file"
        /\ v.kind \in {"load", "sync"}
    BY <1>0, <1>3 DEF FileRead, TaskRec, Handler, Stands, Logs
  <2>3. task' = [task EXCEPT ![t] = x]
    BY <2>1
  <2> HIDE DEF x
  <2>4. Placed(x) = {} /\ Placed(v) = {}
    BY <2>2 DEF Placed
  <2> QED
    BY <2>0, <2>2, <2>3, <2>4, CalmBy DEF Waiting
<1>4. CASE Key(t)
  <2>0. UNCHANGED <<memory, revision, stored, kept, view, version, crossed, queue>>
    BY <1>4 DEF Key, window, views, ideal
  <2>1. v.pc \in {"key", "wipe"} /\ v.kind \in {"save", "delete", "import"}
    BY <1>0, <1>4 DEF Key, Handler, Stands, Logs
  <2>2. ASSUME NEW p \in {"history", "each"}, Goto(t, p) PROVE Calm(t) /\ Follows(t)
    <3> DEFINE x == [v EXCEPT !.pc = p]
    <3>1. /\ task' = [task EXCEPT ![t] = x] /\ x.kind = v.kind /\ x.win = v.win
          /\ x.pc = p /\ x.at = v.at /\ x.todo = v.todo
      BY <1>0, <2>2 DEF Goto, TaskRec
    <3> HIDE DEF x
    <3>2. Placed(x) = Placed(v)
      BY <2>1, <3>1 DEF Placed
    <3> QED
      BY <2>0, <2>1, <3>1, <3>2, CalmBy DEF Waiting
  <2>3. CASE v.kind = "save"
    <3>1. Finish(t) /\ Placed(v) = {}
      BY <1>4, <2>3 DEF Key, Placed
    <3> QED
      BY <2>0, <2>1, <3>1, CalmEnds DEF Waiting
  <2> QED
    BY <1>4, <2>1, <2>2, <2>3 DEF Key
<1>5. CASE Seal(t)
  <2>0. UNCHANGED <<memory, revision, stored, kept, view, version, crossed, queue>>
    BY <1>5 DEF Seal, window, views, ideal, marks
  <2>1. v.kind = "export" /\ v.pc = "seal" /\ Placed(v) = {}
    BY <1>0, <1>5 DEF Seal, Handler, Stands, Logs, Placed
  <2>2. CASE Finish(t)
    BY <2>0, <2>1, <2>2, CalmEnds DEF Waiting
  <2>3. ASSUME NEW c \in v.todo,
               task' = [task EXCEPT ![t].todo = @ \ {c}, ![t].pw[c] = keys[c]]
        PROVE  Calm(t) /\ Follows(t)
    <3> DEFINE d == v.todo \ {c}
               q == [v.pw EXCEPT ![c] = keys[c]]
               x == [v EXCEPT !.todo = d, !.pw = q]
    <3>1. task' = [task EXCEPT ![t] = x]
      BY <1>0, <2>3
    <3>2. x.kind = v.kind /\ x.win = v.win /\ x.pc = v.pc
      <4> HIDE DEF d, q
      <4> QED
        BY <1>0 DEF TaskRec
    <3> HIDE DEF x
    <3>3. Placed(x) = {}
      BY <2>1, <3>2 DEF Placed
    <3> QED
      BY <2>0, <2>1, <3>1, <3>2, <3>3, CalmBy DEF Waiting
  <2> QED
    BY <1>5, <2>2, <2>3 DEF Seal
<1>6. CASE Open(t)
  <2>0. UNCHANGED <<memory, revision, stored, kept, view, version, crossed, queue>>
    BY <1>6 DEF Open, host, window, views, ideal, marks
  <2>1. v.kind = "import" /\ v.pc = "open" /\ v.todo = v.at
    BY <1>0, <1>6 DEF Open, Handler, Stands, Logs, About
  <2>2. Placed(v) = {}
    BY <2>1 DEF Placed
  <2>3. CASE Finish(t)
    BY <2>0, <2>1, <2>2, <2>3, CalmEnds DEF Waiting
  <2>4. ASSUME NEW h, task' = [task EXCEPT ![t].pc = "each", ![t].text = h]
        PROVE  Calm(t) /\ Follows(t)
    <3> DEFINE x == [v EXCEPT !.pc = "each", !.text = h]
    <3>1. task' = [task EXCEPT ![t] = x]
      BY <1>0, <2>4
    <3>2. /\ x.kind = v.kind /\ x.win = v.win /\ x.pc = "each" /\ x.at = v.at
          /\ x.todo = v.todo
      BY <1>0 DEF TaskRec
    <3> HIDE DEF x
    <3>3. Placed(x) = {}
      BY <2>1, <3>2 DEF Placed
    <3> QED
      BY <2>0, <2>1, <2>2, <3>1, <3>2, <3>3, CalmBy DEF Waiting
  <2> QED
    BY <1>6, <2>3, <2>4 DEF Open
<1>7. CASE Forget(t)
  <2>0. UNCHANGED <<memory, revision, stored, kept, view, version, crossed>>
    BY <1>7 DEF Forget, host, views, marks
  <2>1. v.pc = "history" /\ v.kind = "delete" /\ Placed(v) = {}
    BY <1>0, <1>7 DEF Forget, Handler, Stands, Logs, Placed
  <2>2. CASE mirror[v.win] # None
    BY <1>7, <2>0, <2>1, <2>2, CalmWrite DEF Forget, Load
  <2>3. CASE mirror[v.win] = None
    <3> DEFINE x == [v EXCEPT !.pc = "hget"]
    <3>1. x.win = v.win /\ x.kind = v.kind /\ x.pc = "hget"
      BY <1>0 DEF TaskRec
    <3>2. task' = [task EXCEPT ![t] = x]
          /\ queue' = [queue EXCEPT ![x.win] = Append(@, t)]
      BY <1>7, <2>3, <3>1 DEF Forget, Load, Calls
    <3> HIDE DEF x
    <3>3. Placed(x) = {}
      BY <2>1, <3>1 DEF Placed
    <3> QED
      BY <2>0, <2>1, <3>1, <3>2, <3>3, CalmBy DEF Waiting
  <2> QED
    BY <2>2, <2>3
<1>8. CASE HistoryGot(t)
  <2>0. UNCHANGED <<memory, revision, stored, kept, view, version, crossed>>
    BY <1>8 DEF HistoryGot, host, window, views, ideal, marks
  <2>1. PICK o \in Log, n \in Nat :
          task' = [task EXCEPT ![t] = [v EXCEPT !.pc = "hgot", !.val = o, !.ver = n]]
    BY <1>8, HistoryGotMoves
  <2> DEFINE x == [v EXCEPT !.pc = "hgot", !.val = o, !.ver = n]
  <2>2. /\ x.win = v.win /\ x.kind = v.kind /\ x.pc = "hgot" /\ v.pc = "hget"
        /\ v.kind \in Logs \cup {"delete"}
    BY <1>0, <1>8 DEF HistoryGot, TaskRec, Handler, Stands, Logs
  <2>3. task' = [task EXCEPT ![t] = x]
    BY <2>1
  <2> HIDE DEF x
  <2>4. Placed(x) = {} /\ Placed(v) = {} /\ x.kind # "refresh"
    BY <2>2 DEF Placed, Logs
  <2> QED
    BY <1>8, <2>0, <2>2, <2>3, <2>4, CalmBy DEF HistoryGot, Waiting
<1>9. CASE HistoryLoaded(t)
  <2>0. UNCHANGED <<memory, revision, stored, kept, view, version, crossed>>
    BY <1>9 DEF HistoryLoaded, host
  <2> QED
    BY <1>9, <2>0, CalmWrite DEF HistoryLoaded
<1>10. CASE HistoryPut(t)
  <2>0. UNCHANGED <<memory, revision, stored, kept, view, version, crossed>>
    BY <1>10 DEF HistoryPut, window, ideal
  <2>1. v.pc = "hput" /\ Placed(v) = {}
    BY <1>0, <1>10 DEF HistoryPut, Handler, Stands, Logs, Placed
  <2> QED
    BY <1>10, <2>0, <2>1, CalmEnds DEF HistoryPut, Waiting
<1> QED
  BY <1>1, <1>2, <1>3, <1>4, <1>5, <1>6, <1>7, <1>8, <1>9, <1>10

LEMMA SyncedOwed ==
  ASSUME NEW c \in Conn, NEW rows \in Rows, NEW o \in Offers,
         rows[c] = kept[c], kept \in Rows
  PROVE  Synced(rows, o)[c] = IF c \in Managed THEN Owed(c, o[c]) ELSE kept[c]
<1>1. kept[c] \in Row \cup {None}
  BY DEF Rows
<1>2. CASE c \notin Managed
  BY <1>2 DEF Synced
<1>3. CASE c \in Managed /\ o[c] = None
  BY <1>3 DEF Synced, Owed
<1>4. CASE c \in Managed /\ o[c] # None /\ kept[c] = None
  BY <1>4 DEF Synced, Owed
<1>5. CASE c \in Managed /\ o[c] # None /\ kept[c] # None
  <2>1. kept[c] \in Row
    BY <1>1, <1>5
  <2>2. [addr |-> o[c], own |-> kept[c].own] = [kept[c] EXCEPT !.addr = o[c]]
    BY <2>1 DEF Row
  <2> QED
    BY <1>5, <2>2 DEF Synced, Owed
<1> QED
  BY <1>2, <1>3, <1>4, <1>5

LEMMA SyncDoes ==
  ASSUME TypeInv, NEW t \in Task, NEW w \in Window, task[t].win = w, Sync(t)
  PROVE  /\ Follows(t)
         /\ Calm(t) \/ \E rows : Persisting(t, w, rows)
<1> DEFINE v == task[t]
           next == Synced(memory[w], v.val)
           x == [v EXCEPT !.pc = "put", !.val = next]
<1>0. Handler(v) /\ v \in TaskRec /\ task \in [Task -> TaskRec] /\ v.val \in Offers
      /\ memory[w] \in Rows /\ kept \in Rows
  BY DEF TypeInv, TaskInv, Handler, Carries, Sync, WindowOK, HostOK
<1>1. v.pc = "offers" /\ v.kind \in {"load", "sync"} /\ Placed(v) = {}
  BY <1>0 DEF Sync, Handler, Stands, Logs, Placed
<1>2. CASE next = memory[w]
  <2>1. Finish(t) /\ UNCHANGED <<memory, revision, queue, kept>>
    BY <1>2 DEF Sync
  <2>2. UNCHANGED <<stored, view, version, crossed>>
    BY DEF Sync, host, views, marks
  <2> QED
    BY <1>1, <2>1, <2>2, CalmEnds DEF Waiting
<1>3. CASE next # memory[w]
  <2>1. /\ Persists(t, v, next)
        /\ kept' = [c \in Conn |-> IF c \in Managed
                                   THEN Owed(c, v.val[c]) ELSE kept[c]]
        /\ UNCHANGED <<stored, view, version, crossed>>
    BY <1>3 DEF Sync, host, views, marks
  <2>2. \A c \in Conn : memory[w][c] = kept[c] => next[c] = kept'[c]
    BY <1>0, <2>1, SyncedOwed
  <2> HIDE DEF next
  <2>3. x.kind = v.kind /\ x.win = w /\ x.pc = "put" /\ x.val = next
    BY <1>0 DEF TaskRec
  <2>4. /\ task' = [task EXCEPT ![t] = x]
        /\ queue' = [queue EXCEPT ![w] = Append(@, t)]
        /\ memory' = [memory EXCEPT ![w] = next]
        /\ revision' = [revision EXCEPT ![w] = @ + 1]
    BY <2>1, <2>3 DEF Persists, Calls
  <2> HIDE DEF x
  <2>5. task'[t] = x /\ \A u \in Task \ {t} : task'[u] = task[u]
    BY <1>0, <2>4
  <2>6. Others(t) /\ Joins(t)
    BY <1>1, <2>3, <2>4, <2>5 DEF Others, Alike, Joins, Waiting
  <2>7. Persisting(t, w, next)
    BY <1>1, <2>1, <2>2, <2>3, <2>4, <2>5, <2>6 DEF Persisting
  <2>8. Follows(t)
    BY <2>3, <2>5 DEF Follows
  <2> QED
    BY <2>7, <2>8
<1> QED
  BY <1>2, <1>3

LEMMA MergeDoes ==
  ASSUME TypeInv, NEW t \in Task, NEW w \in Window, task[t].win = w, Merge(t)
  PROVE  Follows(t) /\ Persisting(t, w, memory[w])
<1> DEFINE v == task[t]
           m == memory[w]
           x == [v EXCEPT !.pc = "put", !.val = m]
<1>0. Handler(v) /\ v \in TaskRec /\ task \in [Task -> TaskRec]
  BY DEF TypeInv, TaskInv, Handler
<1>1. v.pc = "each" /\ v.kind = "import"
  BY <1>0 DEF Merge, Handler, Stands, Logs
<1>2. Persists(t, v, m) /\ UNCHANGED <<stored, kept, view, version, crossed>>
  BY DEF Merge, host, ideal, views, marks
<1> HIDE DEF m
<1>3. x.kind = v.kind /\ x.win = w /\ x.pc = "put" /\ x.val = m
  BY <1>0 DEF TaskRec
<1>4. /\ task' = [task EXCEPT ![t] = x]
      /\ queue' = [queue EXCEPT ![w] = Append(@, t)]
      /\ memory' = [memory EXCEPT ![w] = m]
      /\ revision' = [revision EXCEPT ![w] = @ + 1]
  BY <1>2, <1>3 DEF Persists, Calls
<1> HIDE DEF x
<1>5. task'[t] = x /\ \A u \in Task \ {t} : task'[u] = task[u]
  BY <1>0, <1>4
<1>6. Others(t) /\ Joins(t)
  BY <1>1, <1>3, <1>4, <1>5 DEF Others, Alike, Joins, Waiting
<1>7. Persisting(t, w, m)
  BY <1>1, <1>2, <1>3, <1>4, <1>5, <1>6 DEF Persisting, m
<1>8. Follows(t)
  BY <1>3, <1>5 DEF Follows
<1> QED
  BY <1>7, <1>8 DEF m

(* A handler starts in a window that is ready.                             *)
Enters(t, w) ==
  /\ Ready(w) /\ UNCHANGED <<up, view, version>>
  /\ \A u \in Task :
       \/ task'[u].kind = task[u].kind /\ task'[u].win = task[u].win
       \/ task'[u].kind = "none"
       \/ task'[u].kind # "load" /\ task'[u].win = w

LEMMA CalmBegins ==
  ASSUME TypeInv, NEW t \in Task, NEW x, task' = [task EXCEPT ![t] = x],
         task[t] = Idle, x.pc \notin {"put", "got"}, x.kind # "refresh",
         Placed(x) = {},
         \/ queue' = queue /\ x.pc \notin Waiting
         \/ queue' = [queue EXCEPT ![x.win] = Append(@, t)] /\ x.pc \in Waiting,
         UNCHANGED <<memory, revision, stored, kept, view, version, crossed>>
  PROVE  Calm(t) /\ task'[t] = x /\ \A u \in Task \ {t} : task'[u] = task[u]
<1>1. task'[t] = x /\ \A u \in Task \ {t} : task'[u] = task[u]
  BY DEF TypeInv, TaskInv
<1>2. task[t].pc = "idle" /\ Placed(task[t]) = {}
  BY DEF Idle, Placed
<1>3. Steps(t)
  BY <1>1, <1>2 DEF Steps, Others, Alike, Stays, Joins, Waiting
<1> QED
  BY <1>1, <1>2, <1>3 DEF Calm

LEMMA CalmLog ==
  ASSUME TypeInv, NEW t \in Task, NEW v, Writer(v), v.kind \in Logs,
         task[t] = Idle, Load(t, v), Ready(v.win), UNCHANGED up,
         UNCHANGED <<memory, revision, stored, kept, view, version, crossed>>
  PROVE  Calm(t) /\ Enters(t, v.win)
<1>0. v \in TaskRec
  BY DEF Writer
<1>1. CASE Finish(t) /\ UNCHANGED queue
  <2>1. Idle.pc = "idle" /\ Idle.kind = "none" /\ Placed(Idle) = {}
    BY DEF Idle, Placed
  <2>2. task' = [task EXCEPT ![t] = Idle]
    BY <1>1 DEF Finish
  <2>3. Calm(t) /\ task'[t] = Idle /\ \A u \in Task \ {t} : task'[u] = task[u]
    BY <1>1, <2>1, <2>2, CalmBegins DEF Waiting
  <2> QED
    BY <2>1, <2>3 DEF Enters
<1>2. ASSUME NEW x, Calls(t, x), x.kind = v.kind, x.win = v.win,
             x.pc \in {"hput", "hget"}
      PROVE  Calm(t) /\ Enters(t, v.win)
  <2>1. /\ task' = [task EXCEPT ![t] = x]
        /\ queue' = [queue EXCEPT ![x.win] = Append(@, t)]
        /\ x.kind \notin {"refresh", "import", "load"}
    BY <1>2 DEF Calls, Logs
  <2>2. Placed(x) = {}
    BY <2>1 DEF Placed
  <2>3. Calm(t) /\ task'[t] = x /\ \A u \in Task \ {t} : task'[u] = task[u]
    BY <1>2, <2>1, <2>2, CalmBegins DEF Waiting
  <2> QED
    BY <1>2, <2>1, <2>3 DEF Enters
<1>3. ASSUME NEW next, Calls(t, [v EXCEPT !.pc = "hput", !.val = next])
      PROVE  Calm(t) /\ Enters(t, v.win)
  <2> DEFINE x == [v EXCEPT !.pc = "hput", !.val = next]
  <2>1. x.kind = v.kind /\ x.win = v.win /\ x.pc = "hput"
    BY <1>0 DEF TaskRec
  <2>2. Calls(t, x)
    BY <1>3
  <2> HIDE DEF x
  <2> QED
    BY <1>2, <2>1, <2>2
<1>4. ASSUME Calls(t, [v EXCEPT !.pc = "hget"])
      PROVE  Calm(t) /\ Enters(t, v.win)
  <2> DEFINE x == [v EXCEPT !.pc = "hget"]
  <2>1. x.kind = v.kind /\ x.win = v.win /\ x.pc = "hget"
    BY <1>0 DEF TaskRec
  <2>2. Calls(t, x)
    BY <1>4
  <2> HIDE DEF x
  <2> QED
    BY <1>2, <2>1, <2>2
<1> QED
  BY <1>1, <1>3, <1>4 DEF Load, Write

LEMMA ExportDoes ==
  ASSUME TypeInv, NEW t \in Task, NEW w \in Window, Export(t, w)
  PROVE  Calm(t) /\ Enters(t, w) /\ task'[t].pc = "seal"
<1> DEFINE b == Begin("export", w)
           m == memory[w]
           h == Had(memory[w])
           v == [b EXCEPT !.pc = "seal", !.val = m, !.pw = Nobody, !.todo = h]
<1>1. task' = [task EXCEPT ![t] = v] /\ task[t] = Idle /\ Ready(w)
      /\ UNCHANGED <<queue, up, memory, revision, stored, kept, view, version, crossed>>
  BY DEF Export, Starts, host, window, views, ideal
<1>2. b \in TaskRec /\ b.kind = "export" /\ b.win = w
  BY BeginTyped DEF Kind
<1>3. v.kind = "export" /\ v.win = w /\ v.pc = "seal"
  <2> HIDE DEF b, m, h
  <2> QED
    BY <1>2 DEF TaskRec
<1> HIDE DEF v
<1>4. Placed(v) = {}
  BY <1>3 DEF Placed
<1>5. Calm(t) /\ task'[t] = v /\ \A u \in Task \ {t} : task'[u] = task[u]
  BY <1>1, <1>3, <1>4, CalmBegins DEF Waiting
<1> QED
  BY <1>1, <1>3, <1>5 DEF Enters

LEMMA ImportDoes ==
  ASSUME TypeInv, NEW t \in Task, NEW w \in Window, Import(t, w)
  PROVE  Calm(t) /\ Enters(t, w) /\ task'[t].pc = "open"
<1> DEFINE b == Begin("import", w)
           h == Had(backup.rows)
           v == [b EXCEPT !.pc = "open", !.val = backup, !.at = h, !.todo = h]
<1>1. task' = [task EXCEPT ![t] = v] /\ task[t] = Idle /\ Ready(w)
      /\ UNCHANGED <<queue, up, memory, revision, stored, kept, view, version, crossed>>
  BY DEF Import, Starts, host, window, views, ideal
<1>2. b \in TaskRec /\ b.kind = "import" /\ b.win = w
  BY BeginTyped DEF Kind
<1>3. v.kind = "import" /\ v.win = w /\ v.pc = "open" /\ v.at = h /\ v.todo = h
  <2> HIDE DEF b, h
  <2> QED
    BY <1>2 DEF TaskRec
<1> HIDE DEF v
<1>4. Placed(v) = {}
  BY <1>3 DEF Placed
<1>5. Calm(t) /\ task'[t] = v /\ \A u \in Task \ {t} : task'[u] = task[u]
  BY <1>1, <1>3, <1>4, CalmBegins DEF Waiting
<1> QED
  BY <1>1, <1>3, <1>5 DEF Enters

LEMMA RecordDoes ==
  ASSUME TypeInv, NEW t \in Task, NEW w \in Window, NEW c \in Conn,
         NEW s \in Statement, Record(t, w, c, s)
  PROVE  Calm(t) /\ Enters(t, w)
<1> DEFINE b == Begin("record", w)
           v == [b EXCEPT !.conn = c, !.text = s]
<1>1. b \in TaskRec /\ b.kind = "record" /\ b.at = {} /\ b.pw = None /\ b.win = w
  BY BeginTyped DEF Kind
<1>2. Writer(v) /\ v.kind \in Logs /\ v.win = w
  <2> HIDE DEF b
  <2> QED
    BY <1>1 DEF Writer, TaskRec, Logs, Password
<1>3. task[t] = Idle /\ Load(t, v) /\ Ready(w) /\ UNCHANGED up
      /\ UNCHANGED <<memory, revision, stored, kept, view, version, crossed>>
  BY DEF Record, Starts, host, views
<1> HIDE DEF v
<1> QED
  BY <1>2, <1>3, CalmLog

LEMMA LookDoes ==
  ASSUME TypeInv, NEW t \in Task, NEW w \in Window, NEW c \in Conn,
         NEW k \in {"look", "clear"}, Look(t, w, c, k)
  PROVE  Calm(t) /\ Enters(t, w)
<1> DEFINE b == Begin(k, w)
           v == [b EXCEPT !.conn = c]
<1>1. b \in TaskRec /\ b.kind = k /\ b.at = {} /\ b.pw = None /\ b.win = w
  BY BeginTyped DEF Kind
<1>2. Writer(v) /\ v.kind \in Logs /\ v.win = w
  <2> HIDE DEF b
  <2> QED
    BY <1>1 DEF Writer, TaskRec, Logs, Password
<1>3. task[t] = Idle /\ Load(t, v) /\ Ready(w) /\ UNCHANGED up
      /\ UNCHANGED <<memory, revision, stored, kept, view, version, crossed>>
  BY DEF Look, Starts, host, views
<1> HIDE DEF v
<1> QED
  BY <1>2, <1>3, CalmLog

LEMMA MountDoes ==
  ASSUME TypeInv, NEW t \in Task, NEW u \in Task, NEW w \in Window,
         Mount(t, u, w)
  PROVE  Calm(t) /\ Enters(t, w) /\ task'[t].pc = "get"
<1> DEFINE b == Begin("refresh", w)
           d == Begin("sync", w)
           r == revision[w]
           x == [b EXCEPT !.pc = "get", !.rev = r]
           y == [d EXCEPT !.pc = "file"]
<1>1. /\ b \in TaskRec /\ b.kind = "refresh" /\ b.win = w
      /\ d \in TaskRec /\ d.kind = "sync" /\ d.win = w
  BY BeginTyped DEF Kind
<1>2. /\ x.kind = "refresh" /\ x.win = w /\ x.pc = "get" /\ x.rev = revision[w]
      /\ y.kind = "sync" /\ y.win = w /\ y.pc = "file"
  <2> HIDE DEF b, d
  <2> QED
    BY <1>1 DEF TaskRec
<1>3. /\ task' = [task EXCEPT ![t] = x, ![u] = y] /\ t # u
      /\ task[t] = Idle /\ task[u] = Idle /\ Ready(w)
      /\ queue' = [queue EXCEPT ![w] = Append(@, t)]
      /\ UNCHANGED <<up, memory, revision, stored, kept, view, version, crossed>>
  BY DEF Mount, host, window, views, ideal, marks
<1> HIDE DEF x, y
<1>4. /\ task'[t] = x /\ task'[u] = y
      /\ \A z \in Task \ {t, u} : task'[z] = task[z]
  BY <1>3 DEF TypeInv, TaskInv
<1>5. Idle.pc = "idle" /\ Idle.kind = "none"
  BY DEF Idle
<1>6. Others(t) /\ Joins(t)
  BY <1>2, <1>3, <1>4, <1>5 DEF Others, Alike, Aside, Joins, Waiting
<1>7. Placed(task[t]) = {} /\ Placed(x) = {}
  BY <1>2, <1>3, <1>5 DEF Placed
<1>8. Calm(t)
  BY <1>2, <1>3, <1>4, <1>5, <1>6, <1>7 DEF Calm, Steps
<1>9. Enters(t, w)
  BY <1>2, <1>3, <1>4 DEF Enters
<1> QED
  BY <1>2, <1>4, <1>8, <1>9

LEMMA DeleteDoes ==
  ASSUME TypeInv, NEW t \in Task, NEW w \in Window, NEW c \in Conn,
         Delete(t, w, c)
  PROVE  Enters(t, w) /\ \E rows : Persisting(t, w, rows)
<1> DEFINE b == Begin("delete", w)
           v == [b EXCEPT !.conn = c, !.at = {c}]
           next == [memory[w] EXCEPT ![c] = None]
           x == [v EXCEPT !.pc = "put", !.val = next]
<1>1. b \in TaskRec /\ b.kind = "delete" /\ b.win = w
  BY BeginTyped DEF Kind
<1>2. v.kind = "delete" /\ v.win = w /\ v \in TaskRec
  <2> HIDE DEF b
  <2> QED
    BY <1>1 DEF TaskRec
<1>3. /\ Persists(t, v, next) /\ task[t] = Idle /\ Ready(w)
      /\ kept' = [kept EXCEPT ![c] = None]
      /\ UNCHANGED <<up, stored, view, version, crossed>>
  BY DEF Delete, Starts, host, views
<1>4. memory[w] \in Rows /\ kept \in Rows
  BY DEF TypeInv, WindowOK, HostOK
<1>5. \A d \in Conn : memory[w][d] = kept[d] => next[d] = kept'[d]
  BY <1>3, <1>4 DEF Rows
<1> HIDE DEF v, next
<1>6. x.kind = "delete" /\ x.win = w /\ x.pc = "put" /\ x.val = next
  BY <1>2 DEF TaskRec
<1>7. /\ task' = [task EXCEPT ![t] = x]
      /\ queue' = [queue EXCEPT ![w] = Append(@, t)]
      /\ memory' = [memory EXCEPT ![w] = next]
      /\ revision' = [revision EXCEPT ![w] = @ + 1]
  BY <1>2, <1>3, <1>6 DEF Persists, Calls
<1> HIDE DEF x
<1>8. task'[t] = x /\ \A u \in Task \ {t} : task'[u] = task[u]
  BY <1>7 DEF TypeInv, TaskInv
<1>9. Idle.pc = "idle" /\ Idle.kind = "none" /\ Placed(Idle) = {}
  BY DEF Idle, Placed
<1>10. Others(t) /\ Joins(t)
  BY <1>3, <1>6, <1>7, <1>8, <1>9 DEF Others, Alike, Joins, Waiting
<1>11. Persisting(t, w, next)
  BY <1>3, <1>5, <1>6, <1>7, <1>8, <1>9, <1>10 DEF Persisting
<1>12. Enters(t, w)
  BY <1>3, <1>6, <1>8 DEF Enters
<1> QED
  BY <1>11, <1>12

LEMMA SaveDoes ==
  ASSUME TypeInv, NEW t \in Task, NEW w \in Window, NEW c \in Conn,
         Save(t, w, c)
  PROVE  Enters(t, w) /\ \E rows : Persisting(t, w, rows)
<1>1. PICK p \in {None, ops + 1} :
       LET v == [Begin("save", w) EXCEPT !.conn = c, !.pw = p, !.at = {c}]
           row  == [addr |-> IF memory[w][c] = None THEN 0 ELSE memory[w][c].addr,
                    own  |-> ops + 1]
           next == [memory[w] EXCEPT ![c] = row]
       IN /\ Starts(t, v)
          /\ memory' = [memory EXCEPT ![w] = next]
          /\ revision' = [revision EXCEPT ![w] = @ + 1]
          /\ queue' = [queue EXCEPT ![w] = Append(@, t)]
          /\ task' = [u \in Task |->
               IF u = t THEN [v EXCEPT !.pc = "put", !.val = next]
               ELSE IF task[u].pc = "seal" /\ task[u].win = w
                       /\ task[u].val = memory[w]
               THEN [task[u] EXCEPT !.val = next,
                       !.todo = @ \cup ({c} \ Had(memory[w]))]
               ELSE task[u]]
          /\ kept' = [kept EXCEPT ![c] = row]
          /\ pass' = IF p = None THEN pass ELSE [pass EXCEPT ![c] = p]
  BY DEF Save
<1> DEFINE b == Begin("save", w)
           v == [b EXCEPT !.conn = c, !.pw = p, !.at = {c}]
           row == [addr |-> IF memory[w][c] = None THEN 0 ELSE memory[w][c].addr,
                   own  |-> ops + 1]
           next == [memory[w] EXCEPT ![c] = row]
           x == [v EXCEPT !.pc = "put", !.val = next]
           todo(u) == task[u].todo \cup ({c} \ Had(memory[w]))
           y(u) == [task[u] EXCEPT !.val = next, !.todo = todo(u)]
<1>2. memory[w] \in Rows /\ kept \in Rows /\ task \in [Task -> TaskRec]
      /\ \A u \in Task : Handler(task[u])
  BY DEF TypeInv, WindowOK, HostOK, TaskInv
<1>3. /\ task[t] = Idle /\ memory' = [memory EXCEPT ![w] = next]
      /\ revision' = [revision EXCEPT ![w] = @ + 1]
      /\ queue' = [queue EXCEPT ![w] = Append(@, t)]
      /\ kept' = [kept EXCEPT ![c] = row]
  BY <1>1 DEF Starts
<1>4. \A d \in Conn : memory[w][d] = kept[d] => next[d] = kept'[d]
  <2> HIDE DEF row
  <2> QED
    BY <1>2, <1>3 DEF Rows
<1>5. Ready(w) /\ UNCHANGED <<up, stored, view, version, crossed>>
  BY DEF Save, host, views
<1>6. x.kind = "save" /\ x.win = w /\ x.pc = "put" /\ x.val = next
  <2>1. b \in TaskRec /\ b.kind = "save" /\ b.win = w
    BY BeginTyped DEF Kind
  <2> HIDE DEF b, next
  <2> QED
    BY <2>1 DEF TaskRec
<1>7. task' = [u \in Task |->
         IF u = t THEN x
         ELSE IF task[u].pc = "seal" /\ task[u].win = w
                 /\ task[u].val = memory[w] THEN y(u) ELSE task[u]]
  BY <1>1
<1>8. ASSUME NEW u \in Task, task[u].pc = "seal"
      PROVE  /\ y(u).kind = "export" /\ y(u).pc = "seal" /\ y(u).win = task[u].win
             /\ task[u].kind = "export"
  <2>1. task[u].kind = "export" /\ task[u] \in TaskRec
    BY <1>2, <1>8 DEF Handler, Stands, Logs
  <2> HIDE DEF next, todo
  <2> QED
    BY <1>8, <2>1 DEF TaskRec
<1> HIDE DEF x, y, next
<1>9. task'[t] = x /\ \A u \in Task \ {t} :
        task'[u] = task[u] \/ (task'[u] = y(u) /\ task[u].pc = "seal")
  BY <1>7
<1>10. \A u \in Task \ {t} : /\ Alike(task'[u], task[u])
                             /\ task'[u].kind = task[u].kind
                             /\ task'[u].win = task[u].win
  <2> TAKE u \in Task \ {t}
  <2>1. CASE task'[u] = task[u]
    BY <2>1 DEF Alike
  <2>2. CASE task'[u] = y(u) /\ task[u].pc = "seal"
    BY <1>8, <2>2 DEF Alike, Aside, Waiting
  <2> QED
    BY <1>9, <2>1, <2>2
<1>11. Idle.pc = "idle" /\ Idle.kind = "none" /\ Placed(Idle) = {}
  BY DEF Idle, Placed
<1>12. Others(t) /\ Joins(t)
  BY <1>3, <1>6, <1>9, <1>10, <1>11 DEF Others, Joins, Waiting
<1>13. Persisting(t, w, next)
  BY <1>3, <1>4, <1>5, <1>6, <1>9, <1>11, <1>12 DEF Persisting
<1>14. Enters(t, w)
  BY <1>5, <1>6, <1>9, <1>10 DEF Enters
<1> QED
  BY <1>13, <1>14

(* Where a window goes by is never ahead of the store.                     *)
Moves ==
  /\ up' = up
  /\ \A w \in Window : view'[w] <= version' /\ (w \notin up => view'[w] = 0)
  /\ \A u \in Task :
       \/ task'[u].kind = task[u].kind /\ task'[u].win = task[u].win
       \/ task'[u].kind = "none"
       \/ task'[u].kind # "load" /\ Ready(task'[u].win)

LEMMA UpKept ==
  ASSUME UpInv, Moves
  PROVE  UpInv'
<1>1. ASSUME NEW u \in Task, task'[u].kind # "none" PROVE task'[u].win \in up
  BY <1>1 DEF UpInv, Moves, Ready
<1>2. ASSUME NEW u \in Task, task'[u].kind = "load",
             NEW z \in Task \ {u}, task'[z].kind # "none"
      PROVE  task'[z].win # task'[u].win
  <2>1. task[u].kind = "load" /\ task'[u].win = task[u].win
    BY <1>2 DEF Moves
  <2>2. CASE task'[z].kind = task[z].kind /\ task'[z].win = task[z].win
    BY <1>2, <2>1, <2>2 DEF UpInv
  <2>3. CASE Ready(task'[z].win)
    BY <2>1, <2>3 DEF Ready
  <2> QED
    BY <1>2, <2>2, <2>3 DEF Moves
<1> QED
  BY <1>1, <1>2 DEF UpInv, Moves

LEMMA EntersUp ==
  ASSUME UpInv, NEW t \in Task, NEW w \in Window, Enters(t, w)
  PROVE  UpInv'
<1>1. Moves
  BY DEF UpInv, Enters, Moves
<1> QED
  BY <1>1, UpKept

LEMMA FollowsUp ==
  ASSUME UpInv, NEW t \in Task, Follows(t), UNCHANGED <<up, view, version>>
  PROVE  UpInv'
<1>1. Moves
  BY DEF UpInv, Follows, Moves
<1> QED
  BY <1>1, UpKept

LEMMA ActivateDoes ==
  ASSUME TypeInv, UpInv, NEW t \in Task, NEW w \in Window, Activate(t, w)
  PROVE  Calm(t) /\ UpInv' /\ task'[t].pc = "get"
<1> DEFINE b == Begin("load", w)
           x == [b EXCEPT !.pc = "get"]
<1>1. b \in TaskRec /\ b.kind = "load" /\ b.win = w
  BY BeginTyped DEF Kind
<1>2. x.kind = "load" /\ x.win = w /\ x.pc = "get"
  <2> HIDE DEF b
  <2> QED
    BY <1>1 DEF TaskRec
<1>3. /\ task' = [task EXCEPT ![t] = x] /\ task[t] = Idle /\ w \notin up
      /\ queue' = [queue EXCEPT ![x.win] = Append(@, t)] /\ up' = up \cup {w}
      /\ UNCHANGED <<memory, revision, stored, kept, view, version, crossed>>
  BY DEF Activate, Starts, Calls, host, views, ideal
<1> HIDE DEF x
<1>4. Placed(x) = {}
  BY <1>2 DEF Placed
<1>5. Calm(t) /\ task'[t] = x /\ \A u \in Task \ {t} : task'[u] = task[u]
  BY <1>2, <1>3, <1>4, CalmBegins DEF Waiting
<1>6. \A u \in Task \ {t} : task[u].kind # "none" => task[u].win # w
  BY <1>3 DEF UpInv
<1>7. UpInv'
  BY <1>2, <1>3, <1>5, <1>6 DEF UpInv
<1> QED
  BY <1>2, <1>5, <1>7

-----------------------------------------------------------------------------
(* The invariant of the list, step by step.                                *)
StoreInv == QueueInv /\ UpInv /\ ListInv /\ ReadInv

LEMMA StoreInit == ASSUME Init PROVE StoreInv
<1>1. /\ task = [t \in Task |-> Idle] /\ queue = [w \in Window |-> <<>>]
      /\ up = {Main} /\ version = 1 /\ kept = stored
      /\ view = [w \in Window |-> IF w = Main THEN 1 ELSE 0]
      /\ memory = [w \in Window |-> IF w = Main THEN stored ELSE Nobody]
  BY DEF Init
<1>2. Idle.pc = "idle" /\ Idle.kind = "none" /\ Placed(Idle) = {}
  BY DEF Idle, Placed
<1>3. \A w \in Window : Puts(w) = {} /\ Imported(w) = {}
  <2> TAKE w \in Window
  <2>1. Puts(w) = {}
    BY <1>1, <1>2 DEF Puts
  <2>2. Imported(w) = {}
    BY <1>1, <1>2, ImportedIs
  <2> QED
    BY <2>1, <2>2
<1>4. QueueInv
  <2>1. Once(<<>>) /\ Within(<<>>) = {}
    BY DEF Once, Within
  <2> QED
    BY <1>1, <1>2, <2>1 DEF QueueInv, Waiting
<1>5. UpInv
  BY <1>1, <1>2 DEF UpInv
<1>6. MemoryInv
  BY <1>1, <1>3 DEF MemoryInv
<1>7. KeptInv /\ ImportInv
  BY <1>1, <1>3 DEF KeptInv, ImportInv
<1>8. ReadInv
  BY <1>1, <1>2 DEF ReadInv, GotInv, RefreshInv
<1> QED
  BY <1>4, <1>5, <1>6, <1>7, <1>8 DEF StoreInv, ListInv

LEMMA CalmKeeps ==
  ASSUME TypeInv, TypeInv', StoreInv, UpInv', NEW t \in Task, Calm(t)
  PROVE  StoreInv'
<1>1. QueueInv'
  BY OrderKept DEF Calm, StoreInv
<1>2. ListInv' /\ ReadInv'
  BY CalmList, CalmRead DEF StoreInv
<1> QED
  BY <1>1, <1>2 DEF StoreInv

LEMMA PersistingKeeps ==
  ASSUME TypeInv, TypeInv', StoreInv, UpInv', NEW t \in Task,
         NEW w \in Window, NEW rows, Persisting(t, w, rows)
  PROVE  StoreInv'
<1>1. QueueInv'
  BY PersistingMoves DEF StoreInv
<1>2. ListInv' /\ ReadInv'
  BY PersistingList, PersistingRead DEF StoreInv
<1> QED
  BY <1>1, <1>2 DEF StoreInv

LEMMA PutKeeps ==
  ASSUME TypeInv, TypeInv', StoreInv, NEW t \in Task, Put(t) \/ PutFails(t)
  PROVE  StoreInv'
<1>0. task[t].pc = "put" /\ First(t) /\ Served(t) /\ AfterPut(t, task[t])
      /\ version' = version + 1 /\ revision' = revision /\ up' = up
  BY DEF Put, PutFails, window
<1>1. PICK w \in Window : w = task[t].win
  BY DEF TypeInv, TaskInv, TaskRec
<1>2. QueueInv' /\ task'[t].kind \in {"none", task[t].kind}
      /\ (task'[t].kind # "none" => task'[t].win = task[t].win)
      /\ \A u \in Task \ {t} : task'[u] = task[u]
  <2>1. QueueInv'
    BY <1>0, <1>1, PutMoves DEF StoreInv
  <2>2. task[t] \in TaskRec /\ Idle.kind = "none"
    BY DEF TypeInv, TaskInv, Idle
  <2> QED
    BY ZenonT(40), <1>0, <2>1, <2>2, AfterPutMoves DEF TaskRec
<1>3. ReadInv'
  BY <1>0, PutRead DEF StoreInv
<1>4. ListInv'
  BY PutList, PutFailsList DEF StoreInv
<1>5. \A z \in Window : view'[z] <= version' /\ (z \notin up => view'[z] = 0)
  <2>1. /\ version \in Nat /\ view \in [Window -> Nat]
        /\ \A z \in Window : view[z] <= version /\ (z \notin up => view[z] = 0)
    BY DEF TypeInv, CountOK, WindowOK, StoreInv, UpInv
  <2>2. \/ view' = view
        \/ view' = [view EXCEPT ![w] = version + 1]
        \/ view' = [view EXCEPT ![w] = 0]
    BY <1>1 DEF Put, PutFails
  <2>3. w \in up
    <3>1. task[t].kind # "none"
      BY <1>0 DEF TypeInv, TaskInv, Handler, Idle
    <3> QED
      BY <1>1, <3>1 DEF StoreInv, UpInv
  <2> QED
    BY <1>0, <2>1, <2>2, <2>3
<1>6. Moves
  BY <1>0, <1>2, <1>5 DEF Moves
<1> QED
  BY <1>2, <1>3, <1>4, <1>6, UpKept DEF StoreInv

LEMMA TakenMoves ==
  ASSUME TypeInv, NEW t \in Task, Loaded(t) \/ Refreshed(t)
  PROVE  /\ task[t].pc = "got" /\ task[t].kind # "none" /\ UNCHANGED <<up, version>>
         /\ task'[t].kind \in {"none", task[t].kind}
         /\ task'[t].pc \in {"idle", "file"}
         /\ task'[t].kind # "none" => task'[t].win = task[t].win
         /\ \A u \in Task \ {t} : task'[u] = task[u]
         /\ Steps(t)
<1> DEFINE v == task[t]
<1>2. /\ v.pc = "got" /\ v \in TaskRec /\ queue' = queue
      /\ UNCHANGED <<up, version>>
      /\ v.kind # "none"
  BY DEF TypeInv, TaskInv, Loaded, Refreshed
<1>3. /\ task'[t].kind \in {"none", v.kind} /\ task'[t].pc \in {"idle", "file"}
      /\ task'[t].kind # "none" => task'[t].win = v.win
      /\ \A u \in Task \ {t} : task'[u] = task[u]
  <2>1. task \in [Task -> TaskRec] /\ Idle.kind = "none" /\ Idle.pc = "idle"
    BY DEF TypeInv, TaskInv, Idle
  <2>2. CASE Loaded(t)
    <3>1. task' = [task EXCEPT ![t] = [v EXCEPT !.pc = "file"]]
      BY <2>1, <2>2 DEF Loaded, Goto
    <3> QED
      BY <1>2, <2>1, <3>1 DEF TaskRec
  <2>3. CASE Refreshed(t)
    BY <2>1, <2>3 DEF Refreshed, Finish
  <2> QED
    BY <2>2, <2>3
<1>4. Steps(t)
  BY <1>2, <1>3 DEF Steps, Stays, Others, Alike, Waiting
<1> QED
  BY <1>2, <1>3, <1>4

LEMMA TakenKeeps ==
  ASSUME TypeInv, TypeInv', StoreInv, NEW t \in Task, Loaded(t) \/ Refreshed(t)
  PROVE  StoreInv'
<1> DEFINE v == task[t]
<1>1. PICK w \in Window : w = task[t].win
  BY DEF TypeInv, TaskInv, TaskRec
<1>2. /\ v.pc = "got" /\ v.kind # "none" /\ UNCHANGED <<up, version>>
      /\ task'[t].kind \in {"none", v.kind}
      /\ task'[t].kind # "none" => task'[t].win = v.win
      /\ \A u \in Task \ {t} : task'[u] = task[u]
      /\ Steps(t)
  BY TakenMoves
<1>5. QueueInv'
  BY <1>2, OrderKept DEF StoreInv
<1>6. ListInv' /\ ReadInv'
  BY LoadedList, RefreshedList DEF StoreInv
<1>7. \A z \in Window : view'[z] <= version' /\ (z \notin up => view'[z] = 0)
  <2>1. /\ version \in Nat /\ view \in [Window -> Nat]
        /\ \A z \in Window : view[z] <= version /\ (z \notin up => view[z] = 0)
    BY DEF TypeInv, CountOK, WindowOK, StoreInv, UpInv
  <2>2. view' = view \/ view' = [view EXCEPT ![w] = v.ver]
    BY <1>1 DEF Loaded, Refreshed
  <2>3. w \in up /\ v.ver <= version
    BY <1>1, <1>2 DEF StoreInv, UpInv, ReadInv, GotInv
  <2> QED
    BY <1>2, <2>1, <2>2, <2>3
<1>8. Moves
  BY <1>2, <1>7 DEF Moves
<1> QED
  BY <1>5, <1>6, <1>8, UpKept DEF StoreInv

LEMMA PlaceMoves ==
  ASSUME TypeInv, NEW t \in Task, Place(t)
  PROVE  /\ Steps(t) /\ Follows(t) /\ task[t].pc = "each"
         /\ task'[t].pc \in {"key", "wipe", "each"}
<1> DEFINE v == task[t]
<1>0. v \in TaskRec /\ v.pc = "each" /\ UNCHANGED <<queue, up, view, version>>
  BY DEF TypeInv, TaskInv, Place, views
<1>1. PICK c \in v.todo :
        task' = [task EXCEPT ![t].todo = @ \ {c}, ![t].conn = c,
                     ![t].pc = PlaceKey(v, c), ![t].pw = v.val.pw[c]]
  BY DEF Place
<1> DEFINE q == v.val.pw[c]
           p == PlaceKey(v, c)
           k == v.todo \ {c}
           x == [v EXCEPT !.todo = k, !.conn = c, !.pc = p, !.pw = q]
<1>2. p \in {"key", "wipe", "each"}
  BY DEF PlaceKey
<1>3. task' = [task EXCEPT ![t] = x]
  BY <1>1 DEF TypeInv, TaskInv
<1>4. x.kind = v.kind /\ x.pc = p /\ x.win = v.win
  <2> HIDE DEF p, q, k
  <2> QED
    BY <1>0 DEF TaskRec
<1> HIDE DEF p, x
<1>5. task'[t] = x /\ \A u \in Task \ {t} : task'[u] = task[u]
  BY <1>3 DEF TypeInv, TaskInv
<1>6. Steps(t) /\ Follows(t)
  BY <1>0, <1>2, <1>4, <1>5 DEF Steps, Stays, Others, Alike, Waiting, Follows
<1> QED
  BY <1>0, <1>2, <1>4, <1>5, <1>6

LEMMA PlaceKeeps ==
  ASSUME TypeInv, TypeInv', StoreInv, NEW t \in Task, Place(t)
  PROVE  StoreInv'
<1>1. Steps(t) /\ Follows(t) /\ UNCHANGED <<up, view, version>>
  BY PlaceMoves DEF Place, views
<1>2. QueueInv'
  BY <1>1, OrderKept DEF StoreInv
<1>3. ListInv' /\ ReadInv'
  BY PlaceList DEF StoreInv
<1>4. UpInv'
  BY <1>1, FollowsUp DEF StoreInv
<1> QED
  BY <1>2, <1>3, <1>4 DEF StoreInv

LEMMA TaskKeeps ==
  ASSUME TypeInv, TypeInv', StoreInv, NEW t \in Task, TaskStep(t)
  PROVE  StoreInv'
<1>1. CASE \/ Got(t) \/ GetFails(t) \/ FileRead(t) \/ Key(t) \/ Seal(t) \/ Open(t)
           \/ Forget(t) \/ HistoryGot(t) \/ HistoryLoaded(t) \/ HistoryPut(t)
  <2>1. Calm(t) /\ Follows(t)
    BY <1>1, CalmTask
  <2>2. up' = up
    BY <1>1 DEF Got, GetFails, FileRead, Key, Seal, Open, Forget, HistoryGot,
                HistoryLoaded, HistoryPut, window
  <2>3. UpInv'
    BY <2>1, <2>2, FollowsUp DEF StoreInv, Calm
  <2> QED
    BY <2>1, <2>3, CalmKeeps
<1>2. CASE Sync(t) \/ Merge(t)
  <2>1. PICK w \in Window : w = task[t].win
    BY DEF TypeInv, TaskInv, TaskRec
  <2>2. Follows(t) /\ (Calm(t) \/ \E rows : Persisting(t, w, rows))
    BY <1>2, <2>1, SyncDoes, MergeDoes
  <2>3. UNCHANGED <<up, view, version>>
    BY <1>2 DEF Sync, Merge, views
  <2>4. UpInv'
    BY <2>2, <2>3, FollowsUp DEF StoreInv
  <2> QED
    BY <2>2, <2>4, CalmKeeps, PersistingKeeps
<1> QED
  BY <1>1, <1>2, PutKeeps, TakenKeeps, PlaceKeeps DEF TaskStep

LEMMA UserKeeps ==
  ASSUME TypeInv, TypeInv', StoreInv, NEW t \in Task, NEW w \in Window,
         User(t, w)
  PROVE  StoreInv'
<1>1. CASE Activate(t, w)
  BY <1>1, ActivateDoes, CalmKeeps DEF StoreInv
<1>2. ASSUME Calm(t), Enters(t, w) PROVE StoreInv'
  BY <1>2, EntersUp, CalmKeeps DEF StoreInv
<1>3. ASSUME Enters(t, w), NEW rows, Persisting(t, w, rows) PROVE StoreInv'
  BY <1>3, EntersUp, PersistingKeeps DEF StoreInv
<1> QED
  BY <1>1, <1>2, <1>3, ExportDoes, ImportDoes, RecordDoes, LookDoes, MountDoes,
     SaveDoes, DeleteDoes DEF User

LEMMA StoreStep == TypeInv /\ StoreInv /\ [Next]_vars => StoreInv'
<1> SUFFICES ASSUME TypeInv, StoreInv, [Next]_vars PROVE StoreInv'
  OBVIOUS
<1>0. TypeInv'
  BY TypeStep
<1>1. ASSUME UNCHANGED <<task, queue, up, memory, revision, stored, kept, view,
                         version, crossed>>
      PROVE  StoreInv'
  <2>1. \A w \in Window : Puts(w)' = Puts(w) /\ Imported(w)' = Imported(w)
    BY <1>1 DEF Puts, Imported
  <2>2. ListInv'
    BY <1>1, <2>1 DEF StoreInv, ListInv, MemoryInv, KeptInv, ImportInv
  <2>3. ReadInv'
    BY <1>1, <2>1 DEF StoreInv, ReadInv, GotInv, RefreshInv
  <2>4. QueueInv' /\ UpInv'
    BY <1>1 DEF StoreInv, QueueInv, UpInv
  <2> QED
    BY <2>2, <2>3, <2>4 DEF StoreInv
<1>2. CASE OfferMoves
  BY <1>1, <1>2 DEF OfferMoves, window, views, ideal, marks
<1>3. CASE UNCHANGED vars
  BY <1>1, <1>3 DEF vars, host, window, views, ideal, marks
<1> QED
  BY <1>0, <1>2, <1>3, TaskKeeps, UserKeeps DEF Next

(* With nothing under way nobody is going to write or has rows placed.     *)
LEMMA StoreDone == TypeInv /\ StoreInv => SavedStaysSaved
<1> SUFFICES ASSUME TypeInv, StoreInv, Quiet
             PROVE  /\ \A c \in Conn \ crossed : stored[c] = kept[c]
                    /\ \A w \in up : view[w] = version => memory[w] = stored
  BY DEF SavedStaysSaved
<1>1. Idle.pc = "idle" /\ Placed(Idle) = {}
  BY DEF Idle, Placed
<1>2. \A w \in Window : Puts(w) = {} /\ Imported(w) = {}
  <2> TAKE w \in Window
  <2>1. Puts(w) = {}
    BY <1>1 DEF Puts, Quiet
  <2>2. Imported(w) = {}
    BY <1>1, ImportedIs DEF Quiet
  <2> QED
    BY <2>1, <2>2
<1>3. \A c \in Conn \ crossed : stored[c] = kept[c]
  BY <1>2 DEF StoreInv, ListInv, KeptInv
<1>4. ASSUME NEW w \in up, view[w] = version PROVE memory[w] = stored
  <2>1. w \in Window /\ memory[w] \in Rows /\ stored \in Rows
    BY DEF TypeInv, WindowOK, HostOK
  <2>2. \A c \in Conn : memory[w][c] = stored[c]
    BY <1>2, <1>4, <2>1 DEF StoreInv, ListInv, MemoryInv
  <2> QED
    BY <2>1, <2>2 DEF Rows
<1> QED
  BY <1>3, <1>4

(* With nothing under way the store has every connection that was saved,   *)
(* imported or offered, as it was asked for, and none that was deleted,    *)
(* unless a window wrote without having read what another had written, a   *)
(* write failed, or a refresh landed in an import; and a window behind     *)
(* which nobody wrote shows the stored list: for any number of windows,    *)
(* connections and handlers, and any order of awaits and failures.         *)
THEOREM SavedIsKept == Spec => []SavedStaysSaved
<1>1. Init => StoreInv
  BY StoreInit
<1>2. Spec => [](TypeInv /\ StoreInv)
  BY <1>1, TypeInit, TypeStep, StoreStep, PTL DEF Spec
<1> QED
  BY <1>2, StoreDone, PTL

-----------------------------------------------------------------------------
(* The history: a statement that repeats the one before it is not counted. *)

(* What holds of 0 and of the successor of each number holds of all.       *)
LEMMA Counting ==
  ASSUME NEW S, 0 \in S, \A n \in Nat : n \in S => n + 1 \in S
  PROVE  Nat \subseteq S
<1> DEFINE R == OpToRel(<, Nat)
           T == {n \in Nat : n \notin S}
<1>1. IsWellFoundedOn(R, Nat)
  BY NatLessThanWellFounded
<1>2. \A n, m \in Nat : n < m => <<n, m>> \in R
  BY DEF OpToRel
<1> HIDE DEF R
<1> SUFFICES ASSUME T # {} PROVE FALSE
  OBVIOUS
<1>3. PICK m \in T : \A n \in T : ~(<<n, m>> \in R)
  BY <1>1, WFMin
<1>4. m \in Nat /\ m # 0 /\ m - 1 \in Nat /\ m - 1 < m
  OBVIOUS
<1>5. m - 1 \notin T
  BY <1>2, <1>3, <1>4
<1>6. (m - 1) + 1 \in S
  BY <1>4, <1>5
<1> QED
  BY <1>4, <1>6

(* The function that Collapse applies.                                     *)
Take(s, f, n) == IF n = 0 THEN <<>>
                 ELSE IF n > 1 /\ s[n] = s[n - 1] THEN f[n - 1]
                 ELSE Append(f[n - 1], s[n])
UpTo(s) == CHOOSE f : f = [n \in 0..Len(s) |-> Take(s, f, n)]

LEMMA CollapseIs == ASSUME NEW s PROVE Collapse(s) = UpTo(s)[Len(s)]
BY DEF Collapse, UpTo, Take

LEMMA UpToExists ==
  ASSUME NEW s \in Seq(Statement), NEW k \in 0..Len(s)
  PROVE  \E f : f = [n \in 0..k |-> Take(s, f, n)]
<1> DEFINE S == {m \in Nat : \E f : f = [n \in 0..m |-> Take(s, f, n)]}
<1>1. 0 \in S
  <2> DEFINE f == [n \in 0..0 |-> <<>>]
  <2>1. \A n \in 0..0 : Take(s, f, n) = <<>>
    BY DEF Take
  <2>2. f = [n \in 0..0 |-> Take(s, f, n)]
    BY <2>1
  <2> QED
    BY <2>2
<1>2. ASSUME NEW m \in Nat, m \in S
      PROVE  m + 1 \in S
  <2>1. PICK f : f = [n \in 0..m |-> Take(s, f, n)]
    BY <1>2
  <2> DEFINE g == [n \in 0..(m + 1) |-> IF n = m + 1 THEN Take(s, f, n) ELSE f[n]]
  <2>2. \A n \in 0..(m + 1) : n = 0 \/ (n - 1 \in 0..m /\ g[n - 1] = f[n - 1])
    OBVIOUS
  <2>3. \A n \in 0..(m + 1) : Take(s, g, n) = Take(s, f, n)
    BY <2>2 DEF Take
  <2>4. \A n \in 0..(m + 1) : n = m + 1 \/ (n \in 0..m /\ f[n] = Take(s, f, n))
    BY <2>1
  <2>5. g = [n \in 0..(m + 1) |-> Take(s, g, n)]
    BY <2>3, <2>4
  <2> HIDE DEF g
  <2>6. m + 1 \in Nat /\ \E h : h = [n \in 0..(m + 1) |-> Take(s, h, n)]
    BY <2>5
  <2> QED
    BY <2>6
<1> HIDE DEF S
<1>3. Nat \subseteq S
  BY <1>1, <1>2, Counting
<1>4. k \in S
  BY <1>3, LenProperties
<1> QED
  BY <1>4 DEF S

LEMMA UpToDoes ==
  ASSUME NEW s \in Seq(Statement)
  PROVE  /\ \A n \in 0..Len(s) : UpTo(s)[n] = Take(s, UpTo(s), n)
         /\ \A n \in 0..Len(s) : UpTo(s)[n] \in Seq(Statement)
<1> DEFINE f == UpTo(s)
           S == {n \in Nat : n <= Len(s) => f[n] \in Seq(Statement)}
<1>0. Len(s) \in Nat /\ Len(s) \in 0..Len(s) /\ \A n \in 1..Len(s) : s[n] \in Statement
  BY LenProperties, ElementOfSeq
<1>1. f = [n \in 0..Len(s) |-> Take(s, f, n)]
  BY <1>0, UpToExists DEF UpTo
<1> HIDE DEF f
<1>2. \A n \in 0..Len(s) : f[n] = Take(s, f, n)
  BY <1>1
<1>3. 0 \in S
  <2>1. 0 \in 0..Len(s) /\ Take(s, f, 0) = <<>> /\ <<>> \in Seq(Statement)
    BY <1>0 DEF Take
  <2> QED
    BY <1>2, <2>1
<1>4. ASSUME NEW n \in Nat, n \in S PROVE n + 1 \in S
  <2> SUFFICES ASSUME n + 1 <= Len(s) PROVE f[n + 1] \in Seq(Statement)
    OBVIOUS
  <2>1. /\ n + 1 \in 0..Len(s) /\ n + 1 \in 1..Len(s) /\ (n + 1) - 1 = n
        /\ n + 1 # 0 /\ f[n] \in Seq(Statement)
    BY <1>0, <1>4
  <2>2. f[n + 1] = f[n] \/ f[n + 1] = Append(f[n], s[n + 1])
    BY <1>2, <2>1 DEF Take
  <2> QED
    <3>1. s[n + 1] \in Statement
      BY <1>0, <2>1
    <3>2. Append(f[n], s[n + 1]) \in Seq(Statement)
      BY <2>1, <3>1, AppendProperties
    <3> QED
      BY <2>1, <2>2, <3>2
<1> HIDE DEF S
<1>5. Nat \subseteq S
  BY <1>3, <1>4, Counting
<1>6. \A n \in 0..Len(s) : f[n] \in Seq(Statement)
  BY <1>0, <1>5 DEF S
<1> QED
  BY <1>2, <1>6 DEF f

LEMMA CollapseTyped ==
  ASSUME NEW s \in Seq(Statement)
  PROVE  Collapse(s) \in Seq(Statement)
BY CollapseIs, UpToDoes, LenProperties

LEMMA CollapseEmpty == Collapse(<<>>) = <<>>
<1>1. <<>> \in Seq(Statement) /\ Len(<<>>) = 0 /\ 0 \in 0..0
  OBVIOUS
<1>2. UpTo(<<>>)[0] = Take(<<>>, UpTo(<<>>), 0)
  BY <1>1, UpToDoes
<1> QED
  BY <1>1, <1>2, CollapseIs DEF Take

(* A sequence in front of another and its last element.                    *)
LEMMA InFront ==
  ASSUME NEW x \in Statement, NEW s \in Seq(Statement), NEW e \in Statement
  PROVE  Append(<<x>> \o s, e) = <<x>> \o Append(s, e)
OBVIOUS

(* A statement in front of a log counts, unless it is the newest of it.    *)
LEMMA CollapseGrows ==
  ASSUME NEW x \in Statement, NEW s \in Seq(Statement), s # <<>>
  PROVE  /\ Collapse(s) # <<>> /\ Head(Collapse(s)) = Head(s)
         /\ Collapse(<<x>> \o s) = IF Head(s) = x THEN Collapse(s)
                                   ELSE <<x>> \o Collapse(s)
<1> DEFINE r == <<x>> \o s
           f == UpTo(s)
           g == UpTo(r)
           k == Len(s)
           P(n) == /\ f[n] # <<>> /\ Head(f[n]) = s[1]
                   /\ g[n + 1] = IF s[1] = x THEN f[n] ELSE <<x>> \o f[n]
           S == {n \in Nat : n + 1 <= k => P(n + 1)}
<1>0. /\ k \in Nat \ {0} /\ s[1] = Head(s) /\ \A n \in 1..k : s[n] \in Statement
  BY LenProperties, ElementOfSeq, EmptySeq, HeadTailProperties
<1>1. /\ r \in Seq(Statement) /\ Len(r) = k + 1 /\ r[1] = x
      /\ \A n \in 1..k : r[n + 1] = s[n]
  <2>1. <<x>> \in Seq(Statement) /\ Len(<<x>>) = 1
    OBVIOUS
  <2> QED
    BY <1>0, <2>1, ConcatProperties
<1>2. /\ \A n \in 0..k : f[n] = Take(s, f, n) /\ f[n] \in Seq(Statement)
      /\ \A n \in 0..(k + 1) : g[n] = Take(r, g, n) /\ g[n] \in Seq(Statement)
  BY <1>1, UpToDoes
<1> HIDE DEF f, g, r, k
<1>3. P(1)
  <2>1. f[0] = <<>> /\ g[0] = <<>>
    <3>1. 0 \in 0..k /\ 0 \in 0..(k + 1)
      BY <1>0
    <3>2. f[0] = Take(s, f, 0) /\ g[0] = Take(r, g, 0)
      BY <1>2, <3>1
    <3> QED
      BY <3>2 DEF Take
  <2>2. f[1] = <<s[1]>> /\ g[1] = <<x>>
    <3>1. 1 \in 0..k /\ 1 \in 0..(k + 1) /\ 1 - 1 = 0 /\ 1 # 0 /\ ~(1 > 1)
      BY <1>0
    <3>2. f[1] = Append(f[0], s[1]) /\ g[1] = Append(g[0], r[1])
      BY <1>2, <3>1 DEF Take
    <3> QED
      BY <1>1, <2>1, <3>2
  <2>3. g[2] = IF r[2] = r[1] THEN g[1] ELSE Append(g[1], r[2])
    <3>1. 2 \in 0..(k + 1) /\ 2 > 1 /\ 2 # 0 /\ 2 - 1 = 1
      BY <1>0
    <3>2. g[2] = Take(r, g, 2)
      BY <1>2, <3>1
    <3> QED
      BY <3>1, <3>2 DEF Take
  <2>4. r[2] = s[1] /\ r[1] = x
    BY <1>0, <1>1
  <2>5. Append(<<x>>, s[1]) = <<x>> \o <<s[1]>>
    BY <1>0
  <2>6. f[1] # <<>> /\ Head(f[1]) = s[1] /\ 1 + 1 = 2
    BY <2>2
  <2>7. g[2] = IF s[1] = x THEN f[1] ELSE <<x>> \o f[1]
    BY <2>2, <2>3, <2>4, <2>5
  <2> QED
    BY <2>6, <2>7
<1>4. ASSUME NEW n \in Nat \ {0}, n + 1 <= k, P(n)
      PROVE  P(n + 1)
  <2>1. /\ n \in 1..k /\ n + 1 \in 1..k /\ n + 1 \in 0..k /\ n + 2 \in 0..(k + 1)
        /\ n + 1 > 1 /\ n + 2 > 1 /\ n + 1 # 0 /\ n + 2 # 0
        /\ (n + 1) - 1 = n /\ (n + 2) - 1 = n + 1 /\ (n + 1) + 1 = n + 2
        /\ n \in 0..k
    BY <1>0, <1>4
  <2>2. r[n + 2] = s[n + 1] /\ r[n + 1] = s[n] /\ s[n + 1] \in Statement
    BY <1>0, <1>1, <2>1
  <2>3. f[n + 1] = IF s[n + 1] = s[n] THEN f[n] ELSE Append(f[n], s[n + 1])
    BY <1>2, <2>1 DEF Take
  <2>4. g[n + 2] = IF s[n + 1] = s[n] THEN g[n + 1] ELSE Append(g[n + 1], s[n + 1])
    BY <1>2, <2>1, <2>2 DEF Take
  <2>5. CASE s[n + 1] = s[n]
    BY <1>4, <2>1, <2>3, <2>4, <2>5
  <2>6. CASE s[n + 1] # s[n]
    <3>1. f[n] \in Seq(Statement) /\ f[n] # <<>>
      BY <1>2, <1>4, <2>1
    <3>2. f[n + 1] # <<>> /\ Head(f[n + 1]) = Head(f[n])
      BY <2>2, <2>3, <2>6, <3>1, SMTT(40)
    <3>3. Append(<<x>> \o f[n], s[n + 1]) = <<x>> \o Append(f[n], s[n + 1])
      BY <2>2, <3>1, InFront
    <3> QED
      BY <1>4, <2>1, <2>3, <2>4, <2>6, <3>2, <3>3
  <2> QED
    BY <2>5, <2>6
<1>5. Nat \subseteq S
  <2>1. 0 \in S
    BY <1>3
  <2>2. ASSUME NEW n \in Nat, n \in S PROVE n + 1 \in S
    <3> SUFFICES ASSUME (n + 1) + 1 <= k PROVE P((n + 1) + 1)
      OBVIOUS
    <3>1. n + 1 \in Nat \ {0} /\ n + 1 <= k
      BY <1>0
    <3>2. P(n + 1)
      BY <2>2, <3>1
    <3> HIDE DEF P
    <3> QED
      BY <1>4, <3>1, <3>2
  <2> HIDE DEF S
  <2> QED
    BY <2>1, <2>2, Counting
<1>6. P(k)
  <2>1. k - 1 \in Nat /\ (k - 1) + 1 = k
    BY <1>0
  <2>2. k - 1 \in S
    BY <1>5, <2>1
  <2> HIDE DEF P
  <2> QED
    BY <1>0, <2>1, <2>2
<1>7. Collapse(s) = f[k] /\ Collapse(r) = g[k + 1]
  BY <1>1, CollapseIs DEF f, g, k
<1> QED
  BY <1>0, <1>6, <1>7 DEF r

LEMMA CollapseOne == ASSUME NEW x \in Statement PROVE Collapse(<<x>>) = <<x>>
<1> DEFINE s == <<x>>
<1>1. s \in Seq(Statement) /\ Len(s) = 1 /\ s[1] = x /\ 0 \in 0..1 /\ 1 \in 0..1
  OBVIOUS
<1> HIDE DEF s
<1>2. UpTo(s)[0] = Take(s, UpTo(s), 0) /\ UpTo(s)[1] = Take(s, UpTo(s), 1)
  BY <1>1, UpToDoes
<1>3. UpTo(s)[0] = <<>>
  BY <1>2 DEF Take
<1>4. UpTo(s)[1] = Append(UpTo(s)[1 - 1], s[1])
  BY <1>2 DEF Take
<1>5. Collapse(s) = Append(<<>>, x)
  BY <1>1, <1>3, <1>4, CollapseIs, SMTT(40)
<1> QED
  BY <1>5 DEF s

(* The newest entries.                                                     *)
Capped(s) == SubSeq(s, 1, IF Len(s) < MaxEntries THEN Len(s) ELSE MaxEntries)

LEMMA CappedIs ==
  ASSUME NEW s \in Seq(Statement)
  PROVE  /\ Capped(s) \in Seq(Statement)
         /\ Len(Capped(s)) = IF Len(s) < MaxEntries THEN Len(s) ELSE MaxEntries
         /\ \A i \in 1..Len(Capped(s)) : Capped(s)[i] = s[i]
<1> DEFINE n == IF Len(s) < MaxEntries THEN Len(s) ELSE MaxEntries
<1>1. Len(s) \in Nat /\ MaxEntries \in Nat \ {0}
  BY LenProperties, StorageAssumption
<1>2. n \in Nat /\ n <= Len(s)
  BY <1>1
<1>3. \A i \in 1..n : s[i] \in Statement
  BY <1>1, <1>2, ElementOfSeq
<1>4. Capped(s) = SubSeq(s, 1, n)
  BY DEF Capped
<1> HIDE DEF n
<1>5. /\ SubSeq(s, 1, n) \in Seq(Statement) /\ Len(SubSeq(s, 1, n)) = n
      /\ \A i \in 1..n : SubSeq(s, 1, n)[i] = s[i]
  BY <1>1, <1>2, <1>3, SubSeqProperties
<1> QED
  BY <1>4, <1>5 DEF n

LEMMA CappedEmpty == Capped(<<>>) = <<>>
<1> DEFINE e == <<>>
<1>1. e \in Seq(Statement) /\ Len(e) = 0 /\ MaxEntries \in Nat \ {0}
  BY StorageAssumption
<1> HIDE DEF e
<1>2. /\ Capped(e) \in Seq(Statement)
      /\ Len(Capped(e)) = IF Len(e) < MaxEntries THEN Len(e) ELSE MaxEntries
  BY <1>1, CappedIs
<1>3. Len(Capped(e)) = 0
  BY <1>1, <1>2
<1> QED
  BY <1>2, <1>3, EmptySeq DEF e

(* What was pushed out before is pushed out by one more entry as well.     *)
LEMMA CappedFront ==
  ASSUME NEW s \in Seq(Statement), NEW x \in Statement
  PROVE  Capped(<<x>> \o Capped(s)) = Capped(<<x>> \o s)
<1> DEFINE k == Capped(s)
           a == <<x>> \o k
           b == <<x>> \o s
<1>1. Len(s) \in Nat /\ MaxEntries \in Nat \ {0}
  BY LenProperties, StorageAssumption
<1>2. /\ k \in Seq(Statement)
      /\ Len(k) = IF Len(s) < MaxEntries THEN Len(s) ELSE MaxEntries
      /\ \A i \in 1..Len(k) : k[i] = s[i]
  BY CappedIs
<1> HIDE DEF k
<1>3. <<x>> \in Seq(Statement) /\ Len(<<x>>) = 1 /\ <<x>>[1] = x
  OBVIOUS
<1>4. /\ a \in Seq(Statement) /\ Len(a) = Len(k) + 1 /\ a[1] = x
      /\ \A i \in 1..Len(a) : i > 1 => a[i] = k[i - 1]
  BY <1>2, <1>3, ConcatProperties
<1>5. /\ b \in Seq(Statement) /\ Len(b) = Len(s) + 1 /\ b[1] = x
      /\ \A i \in 1..Len(b) : i > 1 => b[i] = s[i - 1]
  BY <1>3, ConcatProperties
<1> HIDE DEF a, b
<1>6. /\ Capped(a) \in Seq(Statement) /\ Capped(b) \in Seq(Statement)
      /\ Len(Capped(a)) = Len(Capped(b))
      /\ Len(Capped(a)) <= Len(a) /\ Len(Capped(b)) <= Len(b)
      /\ \A i \in 1..Len(Capped(a)) : Capped(a)[i] = a[i]
      /\ \A i \in 1..Len(Capped(b)) : Capped(b)[i] = b[i]
  <2>1. /\ Capped(a) \in Seq(Statement)
        /\ Len(Capped(a)) = IF Len(a) < MaxEntries THEN Len(a) ELSE MaxEntries
        /\ \A i \in 1..Len(Capped(a)) : Capped(a)[i] = a[i]
    BY <1>4, CappedIs
  <2>2. /\ Capped(b) \in Seq(Statement)
        /\ Len(Capped(b)) = IF Len(b) < MaxEntries THEN Len(b) ELSE MaxEntries
        /\ \A i \in 1..Len(Capped(b)) : Capped(b)[i] = b[i]
    BY <1>5, CappedIs
  <2> QED
    BY <1>1, <1>2, <1>4, <1>5, <2>1, <2>2
<1>7. ASSUME NEW i \in 1..Len(Capped(a)) PROVE Capped(a)[i] = Capped(b)[i]
  <2>1. CASE i = 1
    BY <1>4, <1>5, <1>6, <2>1
  <2>2. CASE i # 1
    <3>1. i > 1 /\ i \in 1..Len(a) /\ i \in 1..Len(b) /\ i - 1 \in 1..Len(k)
      BY <1>1, <1>2, <1>4, <1>5, <1>6, <2>2, LenProperties
    <3>2. a[i] = s[i - 1] /\ b[i] = s[i - 1]
      BY <1>2, <1>4, <1>5, <3>1
    <3> QED
      BY <1>6, <3>2
  <2> QED
    BY <2>1, <2>2
<1>8. Capped(a) = Capped(b)
  BY <1>6, <1>7, SeqEqual
<1> QED
  BY <1>8 DEF a, b, k

(* What a statement does to the cache is what it does to the log.          *)
LEMMA EnterCapped ==
  ASSUME NEW s \in Seq(Statement), NEW x \in Statement
  PROVE  Enter(Capped(Collapse(s)), x) = Capped(Collapse(<<x>> \o s))
<1> DEFINE k == Collapse(s)
<1>1. k \in Seq(Statement) /\ Capped(k) \in Seq(Statement)
  BY CollapseTyped, CappedIs
<1>2. Enter(Capped(k), x) = IF Capped(k) # <<>> /\ Head(Capped(k)) = x
                            THEN Capped(k) ELSE Capped(<<x>> \o Capped(k))
  BY DEF Enter, Capped
<1>3. CASE s = <<>>
  <2>1. k = <<>> /\ Capped(k) = <<>> /\ <<x>> \o <<>> = <<x>>
    BY <1>3, CollapseEmpty, CappedEmpty
  <2> HIDE DEF k
  <2>2. Enter(Capped(k), x) = Capped(<<x>>)
    BY <1>2, <2>1
  <2>3. Collapse(<<x>> \o s) = <<x>>
    BY <1>3, <2>1, CollapseOne
  <2> QED
    BY <2>2, <2>3 DEF k
<1>4. CASE s # <<>>
  <2>1. /\ k # <<>> /\ Head(k) = Head(s)
        /\ Collapse(<<x>> \o s) = IF Head(s) = x THEN k ELSE <<x>> \o k
    BY <1>4, CollapseGrows
  <2> HIDE DEF k
  <2>2. Capped(k) # <<>> /\ Head(Capped(k)) = Head(k)
    <3>1. Len(k) \in Nat \ {0} /\ MaxEntries \in Nat \ {0} /\ Head(k) = k[1]
      BY <1>1, <2>1, EmptySeq, LenProperties, StorageAssumption, HeadTailProperties
    <3>2. /\ Len(Capped(k)) = IF Len(k) < MaxEntries THEN Len(k) ELSE MaxEntries
          /\ \A i \in 1..Len(Capped(k)) : Capped(k)[i] = k[i]
      BY <1>1, CappedIs
    <3>3. 1 \in 1..Len(Capped(k)) /\ Capped(k) # <<>>
      BY <3>1, <3>2
    <3> QED
      BY <1>1, <3>1, <3>2, <3>3, HeadTailProperties
  <2> QED
    BY <1>1, <1>2, <2>1, <2>2, CappedFront DEF k
<1> QED
  BY <1>3, <1>4

(* What the history is to be, and the windows that have a write under way. *)
Wanted == [c \in Conn |-> Capped(Collapse(past[c]))]
Writes(w) == {t \in Task : task[t].pc = "hput" /\ task[t].win = w}

(* No window goes by a history there never was, and none writes without a  *)
(* cache.                                                                  *)
VersionInv ==
  /\ hversion > 0 /\ \A w \in Window : hview[w] <= hversion
  /\ \A w \in Window : mirror[w] = None => Writes(w) = {}

(* What was read is what is stored, unless somebody wrote since.           *)
AnswerInv == \A t \in Task : task[t].pc = "hgot" =>
  task[t].ver <= hversion /\ (task[t].ver = hversion => task[t].val = logged)

(* The cache of a window is what it writes last.                           *)
LastInv == \A w \in Window : \A t \in Writes(w) :
  (\A u \in Writes(w) : ~After(queue[w], t, u)) => task[t].val = mirror[w]

(* The one window that is going to write, and behind which nobody wrote,   *)
(* has every statement in its cache; with no write under way the store has *)
(* them, and so has every cache behind which nobody wrote.                 *)
SoleInv == \A w \in Window :
  Writes(w) # {} /\ hview[w] = hversion /\ (\A z \in Window \ {w} : Writes(z) = {})
    => mirror[w] = Wanted
RestInv == (\A w \in Window : Writes(w) = {}) => logged = Wanted
CleanInv == \A w \in Window :
  mirror[w] # None /\ hview[w] = hversion /\ Writes(w) = {} => mirror[w] = logged

CacheInv == LastInv /\ SoleInv /\ RestInv /\ CleanInv
LogInv   == VersionInv /\ AnswerInv /\ (mixed \/ CacheInv)

LEMMA LogInit == TypeInv /\ Init => LogInv
<1> SUFFICES ASSUME TypeInv, Init PROVE LogInv
  OBVIOUS
<1>1. /\ task = [t \in Task |-> Idle] /\ Idle.pc = "idle" /\ logged = Blank
      /\ past = Blank /\ hversion = 1 /\ hview = [w \in Window |-> 0]
      /\ mirror = [w \in Window |-> None] /\ mixed = FALSE
  BY DEF Init, Idle
<1>2. \A w \in Window : Writes(w) = {}
  BY <1>1 DEF Writes
<1>3. logged = Wanted
  <2>1. Collapse(<<>>) = <<>> /\ Capped(<<>>) = <<>>
    BY CollapseEmpty, CappedEmpty
  <2>2. \A c \in Conn : Capped(Collapse(past[c])) = <<>>
    BY <1>1, <2>1 DEF Blank
  <2> QED
    BY <1>1, <2>2 DEF Wanted, Blank
<1>4. VersionInv /\ AnswerInv
  BY <1>1, <1>2 DEF VersionInv, AnswerInv
<1>5. CacheInv
  BY <1>1, <1>2, <1>3 DEF CacheInv, LastInv, SoleInv, RestInv, CleanInv
<1> QED
  BY <1>4, <1>5 DEF LogInv

(* A step that makes no write of the history and ends none.                *)
LEMMA WritesKept ==
  ASSUME TypeInv, TypeInv', QueueInv, NEW t \in Task, Steps(t),
         task[t].pc # "hput", task'[t].pc # "hput"
  PROVE  /\ QueueInv'
         /\ \A w \in Window : Writes(w)' = Writes(w)
         /\ \A w \in Window : \A u \in Writes(w) : task'[u] = task[u]
         /\ \A w \in Window : \A u, z \in Writes(w) :
              After(queue'[w], u, z) <=> After(queue[w], u, z)
<1>0. QueueInv' /\ Others(t)
  BY OrderKept DEF Steps
<1>1. \A u \in Task \ {t} : task[u].pc = "hput" \/ task'[u].pc = "hput"
        => task'[u] = task[u]
  BY <1>0, OthersKeep DEF Waiting
<1>2. ASSUME NEW w \in Window
      PROVE  /\ Writes(w)' = Writes(w)
             /\ \A u \in Writes(w) : u \in Task \ {t} /\ task'[u] = task[u]
                                     /\ u \in Within(queue'[w])
  <2>1. Writes(w)' = Writes(w)
        /\ \A u \in Writes(w) : u \in Task \ {t} /\ task'[u] = task[u]
    BY <1>1 DEF Writes
  <2>2. \A u \in Writes(w) : u \in Within(queue'[w])
    BY <1>0, <2>1 DEF QueueInv, Waiting, Writes
  <2> QED
    BY <2>1, <2>2
<1>3. ASSUME NEW w \in Window, NEW u \in Writes(w), NEW z \in Writes(w)
      PROVE  After(queue'[w], u, z) <=> After(queue[w], u, z)
  <2>1. u \in Task /\ z \in Task /\ z # t /\ u \in Within(queue'[w])
    BY <1>2
  <2> QED
    BY <2>1, OrderKept
<1> QED
  BY <1>0, <1>2, <1>3

(* A step that has nothing to do with the history but to read it.          *)
Aloof(t) ==
  LET x == task'[t]
  IN /\ Steps(t) /\ task[t].pc # "hput" /\ x.pc # "hput"
     /\ x.pc = "hgot" => /\ x.ver <= hversion
                         /\ x.ver = hversion => x.val = logged
     /\ UNCHANGED <<logged, past, mirror, hversion, hview, mixed>>

LEMMA AloofLog ==
  ASSUME TypeInv, TypeInv', QueueInv, LogInv, NEW t \in Task, Aloof(t)
  PROVE  LogInv'
<1>1. /\ \A w \in Window : Writes(w)' = Writes(w)
      /\ \A w \in Window : \A u \in Writes(w) : task'[u] = task[u]
      /\ \A w \in Window : \A u, z \in Writes(w) :
           After(queue'[w], u, z) <=> After(queue[w], u, z)
      /\ Wanted' = Wanted
  BY WritesKept DEF Aloof, Wanted
<1>2. UNCHANGED <<logged, past, mirror, hversion, hview, mixed>>
  BY DEF Aloof
<1>3. VersionInv'
  BY <1>1, <1>2 DEF LogInv, VersionInv
<1>4. AnswerInv'
  <2>1. \A u \in Task \ {t} : task'[u].pc = "hgot" => task'[u] = task[u]
    BY OthersKeep DEF Aloof, Steps
  <2> QED
    BY <1>2, <2>1 DEF LogInv, AnswerInv, Aloof
<1>5. ASSUME CacheInv PROVE CacheInv'
  <2>1. LastInv'
    BY <1>1, <1>2, <1>5 DEF CacheInv, LastInv
  <2>2. SoleInv' /\ RestInv' /\ CleanInv'
    BY <1>1, <1>2, <1>5 DEF CacheInv, SoleInv, RestInv, CleanInv
  <2> QED
    BY <2>1, <2>2 DEF CacheInv
<1> QED
  BY <1>2, <1>3, <1>4, <1>5 DEF LogInv

(* The statements that are wanted change with what a handler asks for.     *)
LEMMA WantedEdited ==
  ASSUME TypeInv, NEW t \in Task, NEW v, Writer(v), NEW all, Write(t, v, all)
  PROVE  Wanted' = Edited(v, Wanted)
<1> DEFINE d == v.conn
<1>1. past \in Log /\ d \in Conn /\ v.kind \in {"record", "look", "clear", "delete"}
  BY DEF TypeInv, HostOK, Writer, Logs
<1>2. /\ Wanted = [c \in Conn |-> Capped(Collapse(past[c]))]
      /\ Wanted' = [c \in Conn |-> Capped(Collapse(past'[c]))]
  BY DEF Wanted
<1>3. ASSUME NEW s, NEW e, past' = [past EXCEPT ![d] = s], Capped(Collapse(s)) = e
      PROVE  Wanted' = [Wanted EXCEPT ![d] = e]
  <2>1. \A c \in Conn : past'[c] = IF c = d THEN s ELSE past[c]
    BY <1>1, <1>3 DEF Log
  <2> QED
    BY <1>1, <1>2, <1>3, <2>1
<1>4. CASE v.kind = "record"
  <2>1. past' = [past EXCEPT ![d] = <<v.text>> \o past[d]]
    BY <1>1, <1>4 DEF Write, Log
  <2>2. past[d] \in Seq(Statement) /\ v.text \in Statement
    BY <1>1, <1>4 DEF Log, Writer
  <2>3. Capped(Collapse(<<v.text>> \o past[d])) = Enter(Capped(Collapse(past[d])), v.text)
    BY <2>2, EnterCapped
  <2>4. Wanted[d] = Capped(Collapse(past[d]))
    BY <1>1, <1>2
  <2>5. Wanted' = [Wanted EXCEPT ![d] = Enter(Wanted[d], v.text)]
    BY <1>3, <2>1, <2>3, <2>4
  <2>6. Edited(v, Wanted) = [Wanted EXCEPT ![d] = Enter(Wanted[d], v.text)]
    BY <1>4 DEF Edited
  <2> QED
    BY <2>5, <2>6
<1>5. CASE v.kind \in {"delete", "clear"}
  <2>1. past' = [past EXCEPT ![d] = <<>>]
    BY <1>5 DEF Write
  <2>2. Capped(Collapse(<<>>)) = <<>>
    BY CollapseEmpty, CappedEmpty
  <2>3. Wanted' = [Wanted EXCEPT ![d] = <<>>]
    BY <1>3, <2>1, <2>2
  <2> QED
    BY <1>5, <2>3 DEF Edited
<1>6. CASE v.kind = "look"
  BY <1>2, <1>6 DEF Write, Edited
<1> QED
  BY <1>1, <1>4, <1>5, <1>6

LEMMA WantedTyped == ASSUME TypeInv PROVE Wanted \in Log
<1>1. \A c \in Conn : past[c] \in Seq(Statement)
  BY DEF TypeInv, HostOK, Log
<1>2. \A c \in Conn : Capped(Collapse(past[c])) \in Seq(Statement)
  BY <1>1, CollapseTyped, CappedIs
<1> QED
  BY <1>2 DEF Wanted, Log


(* A handler changes the cache of its window, which was `all` then.        *)
Editing(t, v, w, all, ver) ==
  /\ Writer(v) /\ v.win = w /\ all \in Log /\ ver \in Nat /\ ver <= hversion
  /\ task[t].pc \notin Waiting /\ Write(t, v, all)
  /\ hview' = [hview EXCEPT ![w] = ver] /\ UNCHANGED <<logged, hversion>>
  /\ ~mixed' =>
       /\ ~mixed /\ ~Missed(v, all, ver)
       /\ IF Writes(w) = {} THEN ver = hversion => all = logged
          ELSE /\ all = mirror[w]
               /\ ver = hversion /\ (\A z \in Window \ {w} : Writes(z) = {})
                    => all = Wanted

LEMMA EditingKnows ==
  ASSUME TypeInv, LogInv, NEW t \in Task, NEW v, NEW w \in Window,
         NEW all, NEW ver, Editing(t, v, w, all, ver), ~mixed'
  PROVE  /\ CacheInv /\ Wanted' = Edited(v, Wanted)
         /\ ver = hversion /\ (\A z \in Window \ {w} : Writes(z) = {})
              => all = Wanted
<1>1. CacheInv
  BY DEF LogInv, Editing
<1>2. Wanted' = Edited(v, Wanted)
  BY WantedEdited DEF Editing
<1>3. ASSUME ver = hversion, \A z \in Window \ {w} : Writes(z) = {}
      PROVE  all = Wanted
  <2>1. CASE Writes(w) = {}
    BY <1>1, <1>3, <2>1 DEF Editing, CacheInv, RestInv
  <2>2. CASE Writes(w) # {}
    BY <1>3, <2>2 DEF Editing
  <2> QED
    BY <2>1, <2>2
<1> QED
  BY <1>1, <1>2, <1>3

(* What the handler made of the cache is a log, and the window's own now.  *)
LEMMA EditingCache ==
  ASSUME TypeInv, LogInv, NEW t \in Task, NEW v, NEW w \in Window,
         NEW all, NEW ver, Editing(t, v, w, all, ver)
  PROVE  /\ Edited(v, all) \in Log /\ Edited(v, all) # None
         /\ mirror'[w] = Edited(v, all) /\ hview'[w] = ver
         /\ \A z \in Window \ {w} : mirror'[z] = mirror[z] /\ hview'[z] = hview[z]
         /\ hversion > 0 /\ \A z \in Window : hview'[z] <= hversion
         /\ UNCHANGED <<logged, hversion>>
<1>1. Edited(v, all) \in Log
  BY EditedTyped DEF Editing
<1>2. None \notin Log
  BY StorageAssumption DEF Log
<1>3. mirror' = [mirror EXCEPT ![w] = Edited(v, all)]
  BY DEF Editing, Write
<1>4. mirror \in [Window -> Log \cup {None}] /\ hview \in [Window -> Nat]
  BY DEF TypeInv, WindowOK
<1>5. /\ mirror'[w] = Edited(v, all) /\ hview'[w] = ver
      /\ \A z \in Window \ {w} : mirror'[z] = mirror[z] /\ hview'[z] = hview[z]
  BY <1>3, <1>4 DEF Editing
<1>6. hversion > 0 /\ (\A z \in Window : hview[z] <= hversion) /\ ver <= hversion
  BY DEF LogInv, VersionInv, Editing
<1>7. UNCHANGED <<logged, hversion>>
  BY DEF Editing
<1> QED
  BY <1>1, <1>2, <1>5, <1>6, <1>7

(* Nothing is written: the dialog is shown, or the statement repeats the   *)
(* newest one.                                                             *)
LEMMA EditingEnds ==
  ASSUME TypeInv, TypeInv', QueueInv, LogInv, NEW t \in Task, NEW v,
         NEW w \in Window, NEW all, NEW ver, Editing(t, v, w, all, ver),
         Finish(t), UNCHANGED queue,
         v.kind = "look" \/ (v.kind = "record" /\ Edited(v, all) = all)
  PROVE  LogInv'
<1>1. task'[t] = Idle /\ Idle.pc = "idle" /\ \A u \in Task \ {t} : task'[u] = task[u]
  BY DEF TypeInv, TaskInv, Finish, Idle
<1>2. Steps(t) /\ task[t].pc # "hput" /\ task'[t].pc \notin {"hput", "hgot"}
  BY <1>1 DEF Editing, Steps, Others, Alike, Stays, Waiting
<1>3. /\ \A z \in Window : Writes(z)' = Writes(z)
      /\ \A z \in Window : \A u \in Writes(z) : task'[u] = task[u]
  BY <1>2, WritesKept
<1>4. Edited(v, all) = all
  BY DEF Edited
<1>5. /\ all # None /\ mirror'[w] = all /\ hview'[w] = ver
      /\ \A z \in Window \ {w} : mirror'[z] = mirror[z] /\ hview'[z] = hview[z]
      /\ hversion > 0 /\ \A z \in Window : hview'[z] <= hversion
      /\ UNCHANGED <<logged, hversion>>
  BY <1>4, EditingCache
<1>6. VersionInv'
  BY <1>3, <1>5 DEF LogInv, VersionInv
<1>7. AnswerInv'
  BY <1>1, <1>2, <1>5 DEF LogInv, AnswerInv
<1>8. ASSUME ~mixed' PROVE CacheInv'
  <2>1. /\ CacheInv /\ Wanted' = Edited(v, Wanted)
        /\ ver = hversion /\ (\A z \in Window \ {w} : Writes(z) = {})
             => all = Wanted
    BY <1>8, EditingKnows
  <2>2. Wanted' = Wanted
    <3>1. CASE v.kind = "look"
      BY <2>1, <3>1 DEF Edited
    <3>2. CASE v.kind = "record"
      <4>1. ~Behind(w, ver)
        BY <1>4, <1>8, <3>2 DEF Editing, Missed
      <4>2. ver = hversion /\ \A z \in Window \ {w} : Writes(z) = {}
        BY <4>1 DEF Behind, Writes
      <4> QED
        BY <1>4, <2>1, <4>2
    <3> QED
      BY <3>1, <3>2
  <2>3. LastInv'
    <3> SUFFICES ASSUME NEW z \in Window, NEW u \in Writes(z),
                        \A y \in Writes(z) : ~After(queue[z], u, y)
                 PROVE  task'[u].val = mirror'[z]
      BY <1>3 DEF LastInv
    <3>1. task'[u].val = mirror[z]
      BY <1>3, <2>1 DEF CacheInv, LastInv
    <3>2. CASE z = w
      BY <1>5, <1>8, <3>1, <3>2 DEF Editing
    <3>3. CASE z # w
      BY <1>5, <3>1, <3>3
    <3> QED
      BY <3>2, <3>3
  <2>4. SoleInv'
    <3> SUFFICES ASSUME NEW z \in Window, Writes(z) # {}, hview'[z] = hversion,
                        \A y \in Window \ {z} : Writes(y) = {}
                 PROVE  mirror'[z] = Wanted
      BY <1>3, <1>5, <2>2 DEF SoleInv
    <3>1. CASE z = w
      BY <1>5, <2>1, <3>1
    <3>2. CASE z # w
      BY <1>5, <2>1, <3>2 DEF CacheInv, SoleInv
    <3> QED
      BY <3>1, <3>2
  <2>5. RestInv'
    BY <1>3, <1>5, <2>1, <2>2 DEF CacheInv, RestInv
  <2>6. CleanInv'
    <3> SUFFICES ASSUME NEW z \in Window, mirror'[z] # None, hview'[z] = hversion,
                        Writes(z) = {}
                 PROVE  mirror'[z] = logged
      BY <1>3, <1>5 DEF CleanInv
    <3>1. CASE z = w
      BY <1>5, <1>8, <3>1 DEF Editing
    <3>2. CASE z # w
      BY <1>5, <2>1, <3>2 DEF CacheInv, CleanInv
    <3> QED
      BY <3>1, <3>2
  <2> QED
    BY <2>3, <2>4, <2>5, <2>6 DEF CacheInv
<1> QED
  BY <1>6, <1>7, <1>8 DEF LogInv

(* The changed cache is written, behind the writes that wait already.      *)
LEMMA EditingWrites ==
  ASSUME TypeInv, TypeInv', QueueInv, LogInv, NEW t \in Task, NEW v,
         NEW w \in Window, NEW all, NEW ver, Editing(t, v, w, all, ver),
         Calls(t, [v EXCEPT !.pc = "hput", !.val = Edited(v, all)])
  PROVE  LogInv'
<1> DEFINE next == Edited(v, all)
           x == [v EXCEPT !.pc = "hput", !.val = next]
<1>0. v \in TaskRec
  BY DEF Editing, Writer
<1>1. x.pc = "hput" /\ x.val = next /\ x.win = w
  <2> HIDE DEF next
  <2> QED
    BY <1>0 DEF TaskRec, Editing
<1>2. Calls(t, x)
  OBVIOUS
<1> HIDE DEF x
<1>3. /\ task'[t] = x /\ \A u \in Task \ {t} : task'[u] = task[u]
      /\ queue' = [queue EXCEPT ![w] = Append(@, t)]
  BY <1>1, <1>2 DEF Calls, TypeInv, TaskInv
<1>4. Joins(t) /\ Steps(t) /\ task[t].pc # "hput"
  BY <1>1, <1>3 DEF Editing, Joins, Steps, Others, Alike, Waiting
<1>5. /\ Writes(w)' = Writes(w) \cup {t} /\ t \notin Writes(w)
      /\ \A z \in Window \ {w} : Writes(z)' = Writes(z) /\ t \notin Writes(z)
      /\ \A z \in Window : \A u \in Writes(z) : u \in Task /\ task'[u] = task[u]
  BY <1>1, <1>3, <1>4 DEF Writes
<1>6. \A u \in Writes(w) : After(queue'[w], u, t)
  <2>1. \A u \in Writes(w) : u \in Within(queue[w])
    BY DEF Writes, QueueInv, Waiting
  <2> QED
    BY <1>1, <1>3, <1>4, <2>1, OrderKept
<1>7. \A z \in Window \ {w} : queue'[z] = queue[z]
  BY <1>3 DEF TypeInv, WindowOK
<1>8. /\ next # None /\ mirror'[w] = next /\ hview'[w] = ver
      /\ \A z \in Window \ {w} : mirror'[z] = mirror[z] /\ hview'[z] = hview[z]
      /\ hversion > 0 /\ \A z \in Window : hview'[z] <= hversion
      /\ UNCHANGED <<logged, hversion>>
  BY EditingCache
<1>9. VersionInv'
  BY <1>5, <1>8 DEF LogInv, VersionInv
<1>10. AnswerInv'
  BY <1>1, <1>3, <1>8 DEF LogInv, AnswerInv
<1>11. ASSUME ~mixed' PROVE CacheInv'
  <2>1. /\ CacheInv /\ Wanted' = Edited(v, Wanted)
        /\ ver = hversion /\ (\A z \in Window \ {w} : Writes(z) = {})
             => all = Wanted
    BY <1>11, EditingKnows
  <2>2. LastInv'
    <3> SUFFICES ASSUME NEW z \in Window, NEW u \in Writes(z)',
                        \A y \in Writes(z)' : ~After(queue'[z], u, y)
                 PROVE  task'[u].val = mirror'[z]
      BY DEF LastInv
    <3>1. CASE z = w
      <4>1. u = t
        BY <1>5, <1>6, <3>1
      <4> QED
        BY <1>1, <1>3, <1>8, <3>1, <4>1
    <3>2. CASE z # w
      <4>1. u \in Writes(z) /\ \A y \in Writes(z) : ~After(queue[z], u, y)
        BY <1>5, <1>7, <3>2
      <4> QED
        BY <1>5, <1>8, <2>1, <3>2, <4>1 DEF CacheInv, LastInv
    <3> QED
      BY <3>1, <3>2
  <2>3. SoleInv'
    <3> SUFFICES ASSUME NEW z \in Window, hview'[z] = hversion,
                        \A y \in Window \ {z} : Writes(y)' = {}
                 PROVE  mirror'[z] = Wanted'
      BY <1>8 DEF SoleInv
    <3>1. z = w
      BY <1>5
    <3>2. all = Wanted
      BY <1>5, <1>8, <2>1, <3>1
    <3> QED
      BY <1>8, <2>1, <3>1, <3>2
  <2>4. RestInv'
    BY <1>5 DEF RestInv
  <2>5. CleanInv'
    <3> SUFFICES ASSUME NEW z \in Window, mirror'[z] # None, hview'[z] = hversion,
                        Writes(z)' = {}
                 PROVE  mirror'[z] = logged
      BY <1>8 DEF CleanInv
    <3>1. z # w
      BY <1>5
    <3> QED
      BY <1>5, <1>8, <2>1, <3>1 DEF CacheInv, CleanInv
  <2> QED
    BY <2>2, <2>3, <2>4, <2>5 DEF CacheInv
<1> QED
  BY <1>9, <1>10, <1>11 DEF LogInv

LEMMA EditingLog ==
  ASSUME TypeInv, TypeInv', QueueInv, LogInv, NEW t \in Task, NEW v,
         NEW w \in Window, NEW all, NEW ver, Editing(t, v, w, all, ver)
  PROVE  LogInv'
<1>1. \/ /\ Finish(t) /\ UNCHANGED queue
         /\ v.kind = "look" \/ (v.kind = "record" /\ Edited(v, all) = all)
      \/ Calls(t, [v EXCEPT !.pc = "hput", !.val = Edited(v, all)])
  BY DEF Editing, Write
<1> QED
  BY <1>1, EditingEnds, EditingWrites


(* The host has the history.  The window was the only one to write it, and *)
(* nobody wrote behind it.                                                 *)
LEMMA PutsLog ==
  ASSUME TypeInv, TypeInv', QueueInv, LogInv, NEW t \in Task, NEW w \in Window,
         w = task[t].win, HistoryPut(t), ~mixed'
  PROVE  CacheInv'
<1>1. /\ task[t].pc = "hput" /\ First(t) /\ Served(t) /\ Finish(t)
      /\ logged' = task[t].val /\ hversion' = hversion + 1
      /\ hview[w] = hversion /\ hview' = [hview EXCEPT ![w] = @ + 1]
      /\ mirror' = mirror /\ past' = past
  BY DEF HistoryPut, window, ideal
<1>2. CacheInv
  BY DEF HistoryPut, LogInv
<1>3. task'[t] = Idle /\ Idle.pc = "idle" /\ \A u \in Task \ {t} : task'[u] = task[u]
  BY <1>1 DEF TypeInv, TaskInv, Finish, Idle
<1>4. Serves(t) /\ Steps(t) /\ ~Joins(t)
  BY <1>1, <1>3 DEF Serves, Joins, Steps, Others, Alike, Waiting
<1>5. /\ Writes(w)' = Writes(w) \ {t} /\ t \in Writes(w)
      /\ \A z \in Window \ {w} : Writes(z)' = Writes(z)
      /\ \A z \in Window : \A u \in Writes(z) \ {t} : u \in Task /\ task'[u] = task[u]
  BY <1>1, <1>3 DEF Writes
<1>6. QueueInv' /\ \A z \in Window : \A x, y \in Task :
        After(queue[z], x, y) /\ x \in Within(queue'[z]) => After(queue'[z], x, y)
  BY <1>4, OrderKept
<1>7. t \notin Within(queue'[w])
  BY <1>3, <1>6 DEF QueueInv, Waiting
<1>8. ASSUME NEW z \in Window, NEW u \in Writes(z)', NEW y \in Task,
             After(queue[z], u, y)
      PROVE  After(queue'[z], u, y)
  <2>1. u \in Task /\ task'[u].pc = "hput" /\ task'[u].win = z
    BY DEF Writes
  <2>2. u \in Within(queue'[z])
    BY <1>6, <2>1 DEF QueueInv, Waiting
  <2> QED
    BY <1>6, <1>8, <2>1, <2>2
<1>9. /\ hversion \in Nat /\ hview'[w] = hversion'
      /\ \A z \in Window \ {w} : hview'[z] # hversion'
  <2>1. hview \in [Window -> Nat] /\ hversion \in Nat
    BY DEF TypeInv, WindowOK, CountOK
  <2>2. \A z \in Window : hview[z] <= hversion
    BY DEF LogInv, VersionInv
  <2> QED
    BY <1>1, <2>1, <2>2
<1>10. Wanted' = Wanted
  BY <1>1 DEF Wanted
<1>11. LastInv'
  <2> SUFFICES ASSUME NEW z \in Window, NEW u \in Writes(z)',
                      \A y \in Writes(z)' : ~After(queue'[z], u, y)
               PROVE  task'[u].val = mirror[z]
    BY <1>1 DEF LastInv
  <2>1. u \in Writes(z) \ {t}
    BY <1>5 DEF Writes
  <2>2. ASSUME NEW y \in Writes(z), After(queue[z], u, y) PROVE FALSE
    <3>1. y \in Task /\ After(queue'[z], u, y)
      BY <1>8, <2>2 DEF Writes
    <3>2. y \in Within(queue'[z])
      BY <3>1, AfterWithin
    <3>3. y = t => z = w
      BY <2>2 DEF Writes
    <3>4. y # t
      BY <1>7, <3>2, <3>3
    <3>5. y \in Writes(z)'
      BY <1>5, <2>2, <3>4
    <3> QED
      BY <3>1, <3>5
  <2>3. task[u].val = mirror[z]
    BY <1>2, <2>1, <2>2 DEF CacheInv, LastInv
  <2> QED
    BY <1>5, <2>1, <2>3
<1>12. SoleInv'
  <2> SUFFICES ASSUME NEW z \in Window, hview'[z] = hversion',
                      \A y \in Window \ {z} : Writes(y)' = {}
               PROVE  mirror[z] = Wanted
    BY <1>1, <1>10 DEF SoleInv
  <2>1. z = w
    BY <1>9
  <2> QED
    BY <1>1, <1>2, <1>5, <2>1 DEF CacheInv, SoleInv
<1>13. Writes(w)' = {} => logged' = mirror[w]
  <2> SUFFICES ASSUME Writes(w)' = {} PROVE task[t].val = mirror[w]
    BY <1>1
  <2>1. Writes(w) = {t}
    BY <1>5
  <2>2. ~After(queue[w], t, t)
    <3>1. Once(queue[w]) /\ queue[w] \in Seq(Task)
      BY DEF QueueInv, TypeInv, WindowOK
    <3>2. \A i, j \in 1..Len(queue[w]) : i < j => i # j
      BY <3>1, LenProperties
    <3> QED
      BY <3>1, <3>2 DEF Once, After
  <2> QED
    BY <1>2, <2>1, <2>2 DEF CacheInv, LastInv
<1>14. RestInv'
  <2> SUFFICES ASSUME \A z \in Window : Writes(z)' = {} PROVE logged' = Wanted
    BY <1>10 DEF RestInv
  <2>1. mirror[w] = Wanted
    BY <1>1, <1>2, <1>5 DEF CacheInv, SoleInv
  <2> QED
    BY <1>13, <2>1
<1>15. CleanInv'
  BY <1>1, <1>9, <1>13 DEF CleanInv
<1> QED
  BY <1>11, <1>12, <1>14, <1>15 DEF CacheInv

LEMMA HistoryPutLog ==
  ASSUME TypeInv, TypeInv', QueueInv, LogInv, NEW t \in Task, HistoryPut(t)
  PROVE  LogInv'
<1>1. PICK w \in Window : w = task[t].win
  BY DEF TypeInv, TaskInv, TaskRec
<1>2. /\ mirror' = mirror /\ Finish(t)
      /\ \/ UNCHANGED <<logged, hversion, hview>>
         \/ /\ hversion' = hversion + 1
            /\ hview' = hview \/ (/\ hview' = [hview EXCEPT ![w] = @ + 1]
                                  /\ hview[w] = hversion)
  BY <1>1 DEF HistoryPut, window
<1>3. task'[t] = Idle /\ Idle.pc = "idle" /\ \A u \in Task \ {t} : task'[u] = task[u]
  BY <1>2 DEF TypeInv, TaskInv, Finish, Idle
<1>4. \A z \in Window : Writes(z)' \subseteq Writes(z)
  BY <1>3 DEF Writes
<1>5. /\ hversion \in Nat /\ hview \in [Window -> Nat] /\ hversion > 0
      /\ \A z \in Window : hview[z] <= hversion
  BY DEF TypeInv, WindowOK, CountOK, LogInv, VersionInv
<1>6. VersionInv'
  <2>1. hversion' > 0 /\ \A z \in Window : hview'[z] <= hversion'
    BY <1>2, <1>5
  <2>2. \A z \in Window : mirror'[z] = None => Writes(z)' = {}
    BY <1>2, <1>4 DEF LogInv, VersionInv
  <2> QED
    BY <2>1, <2>2 DEF VersionInv
<1>7. AnswerInv'
  <2>1. \A u \in Task : task'[u].pc = "hgot" => task'[u] = task[u]
    BY <1>3
  <2>2. \A u \in Task : task[u].ver \in Nat
    BY DEF TypeInv, TaskInv, TaskRec
  <2>3. CASE UNCHANGED <<logged, hversion, hview>>
    BY <2>1, <2>3 DEF LogInv, AnswerInv
  <2>4. CASE hversion' = hversion + 1
    BY <1>5, <2>1, <2>2, <2>4 DEF LogInv, AnswerInv
  <2> QED
    BY <1>2, <2>3, <2>4
<1> QED
  BY <1>1, <1>6, <1>7, PutsLog DEF LogInv

(* The read that a handler makes for want of a cache, and its answer.      *)
LEMMA HistoryGotLog ==
  ASSUME TypeInv, TypeInv', QueueInv, LogInv, NEW t \in Task, HistoryGot(t)
  PROVE  LogInv'
<1> DEFINE v == task[t]
<1>0. v \in TaskRec /\ task \in [Task -> TaskRec] /\ v.pc = "hget"
      /\ hversion > 0 /\ hversion \in Nat
  BY DEF TypeInv, TaskInv, CountOK, HistoryGot, LogInv, VersionInv
<1>1. \/ task' = [task EXCEPT ![t] = [v EXCEPT !.pc = "hgot", !.val = logged,
                                               !.ver = hversion]]
      \/ task' = [task EXCEPT ![t] = [v EXCEPT !.pc = "hgot", !.val = Blank,
                                               !.ver = 0]]
  BY <1>0 DEF HistoryGot
<1>2. /\ task'[t].pc = "hgot" /\ task'[t].ver <= hversion
      /\ task'[t].ver = hversion => task'[t].val = logged
      /\ \A u \in Task \ {t} : task'[u] = task[u]
  <2>1. CASE task' = [task EXCEPT ![t] = [v EXCEPT !.pc = "hgot", !.val = logged,
                                                   !.ver = hversion]]
    BY <1>0, <2>1 DEF TaskRec
  <2>2. CASE task' = [task EXCEPT ![t] = [v EXCEPT !.pc = "hgot", !.val = Blank,
                                                   !.ver = 0]]
    BY <1>0, <2>2 DEF TaskRec
  <2> QED
    BY <1>1, <2>1, <2>2
<1>3. Steps(t)
  BY <1>0, <1>2 DEF HistoryGot, Steps, Serves, Others, Alike, Waiting
<1>4. UNCHANGED <<logged, past, mirror, hversion, hview, mixed>>
  BY DEF HistoryGot, host, window, views, ideal, marks
<1>5. Aloof(t)
  BY <1>0, <1>2, <1>3, <1>4 DEF Aloof
<1> QED
  BY <1>5, AloofLog

LEMMA HistoryLoadedLog ==
  ASSUME TypeInv, TypeInv', QueueInv, LogInv, NEW t \in Task, HistoryLoaded(t)
  PROVE  LogInv'
<1> DEFINE v == task[t]
<1>1. Writer(v) /\ v.val \in Log /\ v.win \in Window /\ v.ver \in Nat /\ v.pc = "hgot"
  BY HandlerWrites
     DEF HistoryLoaded, TypeInv, TaskInv, Handler, Carries, TaskRec
<1>2. v.ver <= hversion /\ (v.ver = hversion => v.val = logged)
  BY <1>1 DEF LogInv, AnswerInv
<1>3. /\ Write(t, v, v.val) /\ hview' = [hview EXCEPT ![v.win] = v.ver]
      /\ UNCHANGED <<logged, hversion>>
      /\ ~mixed' => ~mixed /\ ~Missed(v, v.val, v.ver) /\ mirror[v.win] = None
  BY DEF HistoryLoaded, host
<1>4. mirror[v.win] = None => Writes(v.win) = {}
  BY <1>1 DEF LogInv, VersionInv
<1>5. Editing(t, v, v.win, v.val, v.ver)
  BY <1>1, <1>2, <1>3, <1>4 DEF Editing, Waiting
<1> QED
  BY <1>1, <1>5, EditingLog

(* load, by a handler that has no call under way.                          *)
LEMMA LoadLog ==
  ASSUME TypeInv, TypeInv', QueueInv, LogInv, NEW t \in Task, NEW v, Writer(v),
         task[t].pc \notin Waiting, Load(t, v), UNCHANGED <<logged, hversion, hview>>
  PROVE  LogInv'
<1> DEFINE w == v.win
<1>0. /\ w \in Window /\ v \in TaskRec /\ mirror[w] \in Log \cup {None}
      /\ hview \in [Window -> Nat]
  BY DEF Writer, TaskRec, TypeInv, WindowOK
<1>1. CASE mirror[w] # None
  <2>1. /\ Write(t, v, mirror[w]) /\ mirror[w] \in Log
        /\ ~mixed' => ~mixed /\ ~Missed(v, mirror[w], hview[w])
    BY <1>0, <1>1 DEF Load
  <2>2. /\ hview' = [hview EXCEPT ![w] = hview[w]] /\ hview[w] \in Nat
        /\ hview[w] <= hversion
    BY <1>0 DEF LogInv, VersionInv
  <2>3. ASSUME ~mixed
        PROVE  IF Writes(w) = {} THEN hview[w] = hversion => mirror[w] = logged
               ELSE hview[w] = hversion /\ (\A z \in Window \ {w} : Writes(z) = {})
                      => mirror[w] = Wanted
    BY <1>0, <1>1, <2>3 DEF LogInv, CacheInv, CleanInv, SoleInv
  <2>4. Editing(t, v, w, mirror[w], hview[w])
    BY <2>1, <2>2, <2>3 DEF Editing
  <2> QED
    BY <1>0, <2>4, EditingLog
<1>2. CASE mirror[w] = None
  <2> DEFINE x == [v EXCEPT !.pc = "hget"]
  <2>1. Calls(t, x) /\ UNCHANGED <<mirror, past, mixed>>
    BY <1>2 DEF Load
  <2>2. x.pc = "hget" /\ x.win = w
    BY <1>0 DEF TaskRec
  <2> HIDE DEF x
  <2>3. /\ task'[t] = x /\ \A u \in Task \ {t} : task'[u] = task[u]
        /\ queue' = [queue EXCEPT ![w] = Append(@, t)]
    BY <2>1, <2>2 DEF Calls, TypeInv, TaskInv
  <2>4. Steps(t)
    BY <2>2, <2>3 DEF Steps, Joins, Others, Alike, Waiting
  <2>5. Aloof(t)
    BY <2>1, <2>2, <2>3, <2>4 DEF Aloof, Waiting
  <2> QED
    BY <2>5, AloofLog
<1> QED
  BY <1>1, <1>2


(* Of the other handlers only one that deletes a connection ever gets to   *)
(* the history, and not in these steps.                                    *)
LEMMA AloofCalm ==
  ASSUME TypeInv, TypeInv', QueueInv, LogInv, NEW t \in Task, Calm(t),
         task[t].pc # "hput", task'[t].pc \notin {"hput", "hgot"},
         UNCHANGED <<logged, past, mirror, hversion, hview, mixed>>
  PROVE  LogInv'
<1>1. Aloof(t)
  BY DEF Aloof, Calm
<1> QED
  BY <1>1, AloofLog

LEMMA AloofPersisting ==
  ASSUME TypeInv, TypeInv', QueueInv, LogInv, NEW t \in Task,
         NEW w, NEW rows, Persisting(t, w, rows),
         UNCHANGED <<logged, past, mirror, hversion, hview, mixed>>
  PROVE  LogInv'
<1>1. Aloof(t)
  BY DEF Aloof, Persisting, Steps, Joins, Waiting
<1> QED
  BY <1>1, AloofLog

LEMMA HostLog ==
  ASSUME TypeInv, TypeInv', QueueInv, LogInv, NEW t \in Task,
         Put(t) \/ PutFails(t) \/ Loaded(t) \/ Refreshed(t) \/ Place(t)
  PROVE  LogInv'
<1>1. CASE Put(t) \/ PutFails(t)
  <2>1. PICK w \in Window : w = task[t].win
    BY DEF TypeInv, TaskInv, TaskRec
  <2>2. task[t].pc = "put" /\ First(t) /\ Served(t) /\ AfterPut(t, task[t])
        /\ UNCHANGED <<logged, past, mirror, hversion, hview, mixed>>
    BY <1>1 DEF Put, PutFails, host, window, ideal
  <2>3. Serves(t) /\ task'[t].pc \notin Waiting /\ \A u \in Task \ {t} : task'[u] = task[u]
    BY <2>1, <2>2, PutMoves
  <2>4. task'[t].pc # "hgot"
    <3>1. task[t] \in TaskRec /\ Idle.pc = "idle"
      BY DEF TypeInv, TaskInv, Idle
    <3> QED
      BY <2>2, <3>1, AfterPutMoves DEF TaskRec
  <2>5. Aloof(t)
    BY <2>2, <2>3, <2>4 DEF Aloof, Steps, Others, Alike, Waiting
  <2> QED
    BY <2>5, AloofLog
<1>2. CASE Loaded(t) \/ Refreshed(t)
  <2>1. UNCHANGED <<logged, past, mirror, hversion, hview, mixed>>
    BY <1>2 DEF Loaded, Refreshed, host, ideal, marks
  <2>2. Aloof(t)
    BY <1>2, <2>1, TakenMoves DEF Aloof
  <2> QED
    BY <2>2, AloofLog
<1>3. CASE Place(t)
  <2>1. UNCHANGED <<logged, past, mirror, hversion, hview, mixed>>
    BY <1>3 DEF Place, host, views
  <2>2. Aloof(t)
    BY <1>3, <2>1, PlaceMoves DEF Aloof
  <2> QED
    BY <2>2, AloofLog
<1> QED
  BY <1>1, <1>2, <1>3

LEMMA HandlerLog ==
  ASSUME TypeInv, TypeInv', QueueInv, LogInv, NEW t \in Task,
         \/ Got(t) \/ GetFails(t) \/ FileRead(t) \/ Key(t) \/ Seal(t) \/ Open(t)
         \/ Sync(t) \/ Merge(t)
  PROVE  LogInv'
<1> DEFINE v == task[t]
           x == task'[t]
<1>0. Handler(v) /\ Handler(x) /\ v \in TaskRec /\ task \in [Task -> TaskRec]
  BY DEF TypeInv, TaskInv
<1>1. ASSUME Follows(t), v.kind \notin Logs \cup {"delete"}
      PROVE  x.pc \notin {"hput", "hgot"} /\ v.pc # "hput"
  <2>1. x.kind = "none" \/ x.kind = v.kind
    BY <1>1 DEF Follows
  <2>2. Stands(x.kind, x.pc) /\ Stands(v.kind, v.pc)
    BY <1>0 DEF Handler
  <2> HIDE DEF x, v
  <2>3. x.kind \notin Logs \cup {"delete"}
    BY <1>1, <2>1 DEF Logs
  <2> QED
    BY <1>1, <2>2, <2>3 DEF Stands
<1>2. UNCHANGED <<logged, past, mirror, hversion, hview, mixed>>
  BY DEF Got, GetFails, FileRead, Key, Seal, Open, Sync, Merge, host, window,
         views, ideal, marks
<1>3. CASE Got(t) \/ GetFails(t) \/ FileRead(t) \/ Seal(t) \/ Open(t)
  <2>1. v.pc \in {"get", "file", "seal", "open"}
    BY <1>3 DEF Got, GetFails, FileRead, Seal, Open
  <2>2. v.kind \notin Logs \cup {"delete"}
    BY <1>0, <2>1 DEF Handler, Stands, Logs
  <2>3. Calm(t) /\ Follows(t)
    BY <1>3, CalmTask
  <2> QED
    BY <1>1, <1>2, <2>2, <2>3, AloofCalm
<1>4. CASE Key(t)
  <2>1. v.pc \in {"key", "wipe"} /\ v.kind \in {"save", "delete", "import"}
    BY <1>0, <1>4 DEF Key, Handler, Stands, Logs
  <2>2. Calm(t) /\ Follows(t)
    BY <1>4, CalmTask
  <2>3. CASE v.kind = "delete"
    <3>1. task' = [task EXCEPT ![t] = [v EXCEPT !.pc = "history"]]
      BY <1>0, <1>4, <2>3 DEF Key, Goto
    <3>2. x.pc = "history"
      BY <1>0, <3>1 DEF TaskRec
    <3> QED
      BY <1>2, <2>1, <2>2, <3>2, AloofCalm
  <2>4. CASE v.kind # "delete"
    BY <1>1, <1>2, <2>1, <2>2, <2>4, AloofCalm DEF Logs
  <2> QED
    BY <2>3, <2>4
<1>5. CASE Sync(t) \/ Merge(t)
  <2>1. PICK w \in Window : w = task[t].win
    BY DEF TypeInv, TaskInv, TaskRec
  <2>2. Follows(t) /\ (Calm(t) \/ \E rows : Persisting(t, w, rows))
    BY <1>5, <2>1, SyncDoes, MergeDoes
  <2>3. v.pc \in {"offers", "each"}
    BY <1>5 DEF Sync, Merge
  <2>4. v.kind \notin Logs \cup {"delete"}
    BY <1>0, <2>3 DEF Handler, Stands, Logs
  <2> QED
    BY <1>1, <1>2, <2>2, <2>4, AloofCalm, AloofPersisting
<1> QED
  BY <1>3, <1>4, <1>5

LEMMA TaskLog ==
  ASSUME TypeInv, TypeInv', QueueInv, LogInv, NEW t \in Task, TaskStep(t)
  PROVE  LogInv'
<1>1. CASE Forget(t)
  <2>1. Writer(task[t])
    BY <1>1, HandlerWrites DEF Forget, TypeInv, TaskInv
  <2>2. task[t].pc = "history" /\ Load(t, task[t])
        /\ UNCHANGED <<logged, hversion, hview>>
    BY <1>1 DEF Forget, host, views
  <2> QED
    BY <2>1, <2>2, LoadLog DEF Waiting
<1> QED
  BY <1>1, HostLog, HandlerLog, HistoryGotLog, HistoryLoadedLog, HistoryPutLog
     DEF TaskStep

LEMMA RecordLog ==
  ASSUME TypeInv, TypeInv', QueueInv, LogInv, NEW t \in Task, NEW w \in Window,
         NEW c \in Conn, NEW s \in Statement, Record(t, w, c, s)
  PROVE  LogInv'
<1> DEFINE b == Begin("record", w)
           v == [b EXCEPT !.conn = c, !.text = s]
<1>1. b \in TaskRec /\ b.kind = "record" /\ b.at = {} /\ b.pw = None
  BY BeginTyped DEF Kind
<1>2. Writer(v)
  <2> HIDE DEF b
  <2> QED
    BY <1>1 DEF Writer, TaskRec, Logs, Password
<1>3. task[t] = Idle /\ Load(t, v) /\ UNCHANGED <<logged, hversion, hview>>
  BY DEF Record, Starts, host, views
<1> HIDE DEF v
<1> QED
  BY <1>2, <1>3, LoadLog DEF Idle, Waiting

LEMMA LookLog ==
  ASSUME TypeInv, TypeInv', QueueInv, LogInv, NEW t \in Task, NEW w \in Window,
         NEW c \in Conn, NEW k \in {"look", "clear"}, Look(t, w, c, k)
  PROVE  LogInv'
<1> DEFINE b == Begin(k, w)
           v == [b EXCEPT !.conn = c]
<1>1. b \in TaskRec /\ b.kind = k /\ b.at = {} /\ b.pw = None
  BY BeginTyped DEF Kind
<1>2. Writer(v)
  <2> HIDE DEF b
  <2> QED
    BY <1>1 DEF Writer, TaskRec, Logs, Password
<1>3. task[t] = Idle /\ Load(t, v) /\ UNCHANGED <<logged, hversion, hview>>
  BY DEF Look, Starts, host, views
<1> HIDE DEF v
<1> QED
  BY <1>2, <1>3, LoadLog DEF Idle, Waiting

LEMMA UserLog ==
  ASSUME TypeInv, TypeInv', QueueInv, UpInv, LogInv, NEW t \in Task,
         NEW w \in Window, User(t, w)
  PROVE  LogInv'
<1>1. CASE Activate(t, w) \/ Export(t, w) \/ Import(t, w)
           \/ \E u \in Task : Mount(t, u, w)
  <2>1. Calm(t) /\ task'[t].pc \notin {"hput", "hgot"}
    BY <1>1, ActivateDoes, ExportDoes, ImportDoes, MountDoes
  <2>2. task[t] = Idle /\ UNCHANGED <<logged, past, mirror, hversion, hview, mixed>>
    BY <1>1 DEF Activate, Export, Import, Mount, Starts, host, window, views,
       ideal, marks
  <2>3. task[t].pc # "hput"
    BY <2>2 DEF Idle
  <2> QED
    BY <2>1, <2>2, <2>3, AloofCalm
<1>2. ASSUME NEW c \in Conn, Save(t, w, c) \/ Delete(t, w, c) PROVE LogInv'
  <2>1. UNCHANGED <<logged, past, mirror, hversion, hview, mixed>>
    BY <1>2 DEF Save, Delete, host, views
  <2> QED
    BY <1>2, <2>1, SaveDoes, DeleteDoes, AloofPersisting
<1> QED
  BY <1>1, <1>2, RecordLog, LookLog DEF User

LEMMA LogStep == TypeInv /\ StoreInv /\ LogInv /\ [Next]_vars => LogInv'
<1> SUFFICES ASSUME TypeInv, StoreInv, LogInv, [Next]_vars PROVE LogInv'
  OBVIOUS
<1>0. TypeInv' /\ QueueInv /\ UpInv
  BY TypeStep DEF StoreInv
<1>1. ASSUME UNCHANGED <<task, queue, logged, past, mirror, hversion, hview, mixed>>
      PROVE  LogInv'
  <2>1. (\A w \in Window : Writes(w)' = Writes(w)) /\ Wanted' = Wanted
    BY <1>1 DEF Writes, Wanted
  <2>2. VersionInv' /\ AnswerInv'
    BY <1>1, <2>1 DEF LogInv, VersionInv, AnswerInv
  <2>3. CacheInv => CacheInv'
    BY <1>1, <2>1 DEF CacheInv, LastInv, SoleInv, RestInv, CleanInv
  <2> QED
    BY <1>1, <2>2, <2>3 DEF LogInv
<1>2. CASE OfferMoves
  BY <1>1, <1>2 DEF OfferMoves, window, views, ideal, marks
<1>3. CASE UNCHANGED vars
  BY <1>1, <1>3 DEF vars, host, window, views, ideal, marks
<1> QED
  BY <1>0, <1>2, <1>3, TaskLog, UserLog DEF Next

LEMMA LogDone == LogInv => HistoryKept
<1> SUFFICES ASSUME LogInv, Quiet, ~mixed, NEW c \in Conn
             PROVE  logged[c] = Capped(Collapse(past[c]))
  BY DEF HistoryKept, Capped
<1>1. \A w \in Window : Writes(w) = {}
  BY DEF Quiet, Idle, Writes
<1>2. logged = Wanted
  BY <1>1 DEF LogInv, CacheInv, RestInv
<1> QED
  BY <1>2 DEF Wanted

(* With nothing under way the history holds the newest statements, each    *)
(* run of equal ones once, and nothing of a deleted connection, unless a   *)
(* window wrote it from a cache older than the store, took a statement for *)
(* the newest in such a cache, or a write failed: for any number of        *)
(* windows, handlers and statements, any cap, and any order of awaits.     *)
THEOREM HistoryIsKept == Spec => []HistoryKept
<1>1. Init => TypeInv /\ StoreInv /\ LogInv
  BY TypeInit, StoreInit, LogInit
<1>2. Spec => [](TypeInv /\ StoreInv /\ LogInv)
  BY <1>1, TypeStep, StoreStep, LogStep, PTL DEF Spec
<1> QED
  BY <1>2, LogDone, PTL
==============================================================================
