------------------------------ MODULE Storage ------------------------------
(***************************************************************************)
(* What the extension keeps: the saved connections (connections/store.js), *)
(* their passwords in the keychain, the databases another extension offers *)
(* (managed.js), the encrypted backup (backup.js, backupDialog.js) and the *)
(* query history (query/history.js).                                       *)
(*                                                                         *)
(* Each window runs a copy of the extension with a memory of its own over  *)
(* one settings store, where the list and the history are one value each.  *)
(* A handler is a task; it waits for the host at every await, and tasks of *)
(* one window and of several interleave there.  The host serves the        *)
(* settings calls of one window in the order they were made.               *)
(***************************************************************************)
EXTENDS Naturals, Sequences, FiniteSets

CONSTANTS
  Window, Main, \* the windows, and the one that is there at first
  Conn,       \* connection ids
  Managed,    \* those the Dev Environment owns
  Task,       \* handlers that may be under way at one time
  Statement,  \* what is run
  MaxEntries, \* MAX_ENTRIES
  MaxOp,      \* bound: handlers started, changes of the offer
  MaxFault,   \* bound: host calls that fail
  None

ASSUME StorageAssumption ==
  /\ Main \in Window /\ Managed \subseteq Conn /\ MaxEntries \in Nat \ {0}
  /\ MaxOp \in Nat /\ MaxFault \in Nat
  /\ None \notin Conn \cup Task \cup Statement \cup Nat
  /\ None \notin [Conn -> Seq(Statement)]

VARIABLES
  stored,   \* settings "connections": [Conn -> row or None]
  logged,   \* settings "queryHistory": [Conn -> statements, newest first]
  keys,     \* the keychain: [Conn -> password or None]
  offer,    \* dev-environment.json: [Managed -> address or None]
  backup,   \* the backup file there is
  up,       \* windows that are there
  memory,   \* [Window -> state.connections]
  revision, \* [Window -> revision]
  mirror,   \* [Window -> the history's cache, or None]
  task,     \* [Task -> a handler's place and locals]
  queue,    \* [Window -> tasks whose settings call the host has to serve]
  ops, faults,       \* handlers and changes, failures so far
  version, hversion, \* history: writes of the list, of the history
  view, hview,       \* history: [Window -> the version it goes by]
  kept, pass, past,  \* history: what the handlers asked to have in `stored`,
                     \* in `keys` and, without an end, in `logged`
  crossed,  \* history: rows a window wrote, or dropped, without knowing better
  touched,  \* history: passwords that two handlers were at, or that failed
  mixed     \* history: a window went by an older log than the stored one

host   == <<stored, logged, keys, offer, backup>>
window == <<up, memory, revision, mirror>>
counts == <<ops, faults>>
ideal  == <<kept, pass, past>>
marks  == <<crossed, touched, mixed>>
views  == <<version, hversion, view, hview>>
vars   == <<host, window, task, queue, counts, views, ideal, marks>>

(* A row: where the database is, and what the user made of it.             *)
Row    == [addr : Nat, own : Nat]
Rows   == [Conn -> Row \cup {None}]
Log    == [Conn -> Seq(Statement)]
Nobody == [c \in Conn |-> None]
Blank  == [c \in Conn |-> <<>>]
Had(rows) == {c \in Conn : rows[c] # None}

Idle == [kind |-> "none", pc |-> "idle", win |-> Main, conn |-> None,
         text |-> None, rev |-> 0, ver |-> 0, val |-> None, pw |-> None,
         todo |-> {}, at |-> {}]

Files == {[rows |-> Nobody, pw |-> Nobody]} \cup
         {[rows |-> [Nobody EXCEPT ![c] = [addr |-> 1, own |-> 9]],
           pw   |-> [Nobody EXCEPT ![c] = p]] :
            c \in Conn \ Managed, p \in {None, 9}}

Init ==
  /\ stored \in {Nobody} \cup
       {[Nobody EXCEPT ![c] = [addr |-> 0, own |-> 0]] : c \in Conn \ Managed}
  /\ keys \in {Nobody} \cup {[Nobody EXCEPT ![c] = 0] : c \in Had(stored)}
  /\ logged = Blank /\ backup \in Files
  /\ offer \in [Managed -> {None, 0}]
  /\ up = {Main} /\ mirror = [w \in Window |-> None]
  /\ memory = [w \in Window |-> IF w = Main THEN stored ELSE Nobody]
  /\ revision = [w \in Window |-> 0]
  /\ task = [t \in Task |-> Idle] /\ queue = [w \in Window |-> <<>>]
  /\ ops = 0 /\ faults = 0
  /\ version = 1 /\ hversion = 1
  /\ view = [w \in Window |-> IF w = Main THEN 1 ELSE 0]
  /\ hview = [w \in Window |-> 0]
  /\ kept = stored /\ pass = keys /\ past = Blank
  /\ crossed = {} /\ touched = {} /\ mixed = FALSE

-----------------------------------------------------------------------------
(* Handlers and the calls they make.                                       *)

Finish(t) == task' = [task EXCEPT ![t] = Idle]
Goto(t, pc) == task' = [task EXCEPT ![t].pc = pc]
Begin(k, w) == [Idle EXCEPT !.kind = k, !.win = w]

(* A handler starts.  One that is at a password while another is shares it.*)
Starts(t, v) ==
  /\ task[t] = Idle /\ ops < MaxOp /\ ops' = ops + 1
  /\ touched' = touched \cup UNION {v.at \cap task[u].at : u \in Task}

(* settings.get, settings.set: the value is taken along, the call waits.   *)
Calls(t, v) ==
  /\ task' = [task EXCEPT ![t] = v]
  /\ queue' = [queue EXCEPT ![v.win] = Append(@, t)]
First(t) == queue[task[t].win] # <<>> /\ Head(queue[task[t].win]) = t
Served(t) == queue' = [queue EXCEPT ![task[t].win] = Tail(@)]

(* persistConnections, from a window whose list is now `rows`.             *)
Persists(t, v, rows) ==
  /\ memory' = [memory EXCEPT ![v.win] = rows]
  /\ revision' = [revision EXCEPT ![v.win] = @ + 1]
  /\ Calls(t, [v EXCEPT !.pc = "put", !.val = rows])

(* What follows the write: the password, or nothing.                       *)
AfterPut(t, v) ==
  CASE v.kind = "save" /\ v.pw # None -> Goto(t, "key")
    [] v.kind = "delete" -> Goto(t, "wipe")
    [] OTHER -> Finish(t)

MayFail == faults < MaxFault /\ faults' = faults + 1

(* The host has the list.  A window that goes by an older one writes what  *)
(* it knew of the others' rows.                                            *)
Put(t) ==
  LET v == task[t] IN
  /\ v.pc = "put" /\ First(t) /\ Served(t)
  /\ stored' = v.val /\ version' = version + 1
  /\ IF view[v.win] = version
     THEN view' = [view EXCEPT ![v.win] = version + 1] /\ UNCHANGED crossed
     ELSE /\ crossed' = crossed \cup {c \in Conn : v.val[c] # kept[c]}
          /\ UNCHANGED view
  /\ AfterPut(t, v)
  /\ UNCHANGED <<logged, keys, offer, backup, window, counts, hversion, hview,
                 ideal, touched, mixed>>

(* The store refuses: a warning in the log, and the handler goes on.  No   *)
(* window goes by what is stored then.                                     *)
PutFails(t) ==
  LET v == task[t] IN
  /\ v.pc = "put" /\ First(t) /\ Served(t) /\ MayFail
  /\ view' = [view EXCEPT ![v.win] = 0] /\ version' = version + 1
  /\ crossed' = crossed \cup {c \in Conn : stored[c] # kept[c]}
  /\ AfterPut(t, v)
  /\ UNCHANGED <<host, window, ops, hversion, hview, ideal, touched, mixed>>

Got(t) ==
  /\ task[t].pc = "get" /\ First(t) /\ Served(t)
  /\ task' = [task EXCEPT ![t].pc = "got", ![t].val = stored,
                          ![t].ver = version]
  /\ UNCHANGED <<host, window, counts, views, ideal, marks>>

-----------------------------------------------------------------------------
(* Activation and mounting.                                                *)

(* activate() of a second window: loadSavedConnections.                    *)
Activate(t, w) ==
  /\ w \notin up /\ Starts(t, Begin("load", w)) /\ up' = up \cup {w}
  /\ Calls(t, [Begin("load", w) EXCEPT !.pc = "get"])
  /\ UNCHANGED <<host, memory, revision, mirror, faults, views, ideal, crossed,
                 mixed>>

Ready(w) == w \in up /\ \A t \in Task : task[t].win = w => task[t].kind # "load"

(* The list is read, or not; then the managed ones are synchronised.       *)
Loaded(t) ==
  LET v == task[t] IN
  /\ v.kind = "load" /\ v.pc = "got"
  /\ memory' = [memory EXCEPT ![v.win] = v.val]
  /\ view' = [view EXCEPT ![v.win] = v.ver]
  /\ Goto(t, "file")
  /\ UNCHANGED <<host, up, revision, mirror, queue, counts, version, hversion,
                 hview, ideal, marks>>

(* A read that fails leaves the list as it is; a load goes on without it.  *)
GetFails(t) ==
  /\ task[t].pc = "get" /\ First(t) /\ Served(t) /\ MayFail
  /\ IF task[t].kind = "load" THEN Goto(t, "file") ELSE Finish(t)
  /\ UNCHANGED <<host, window, ops, views, ideal, marks>>

(* The pane mounts: the list is refreshed and the managed databases are    *)
(* synchronised, side by side.                                             *)
Mount(t, u, w) ==
  /\ Ready(w) /\ t # u /\ task[t] = Idle /\ task[u] = Idle
  /\ ops < MaxOp /\ ops' = ops + 1
  /\ task' = [task EXCEPT
       ![t] = [Begin("refresh", w) EXCEPT !.pc = "get", !.rev = revision[w]],
       ![u] = [Begin("sync", w) EXCEPT !.pc = "file"]]
  /\ queue' = [queue EXCEPT ![w] = Append(@, t)]
  /\ UNCHANGED <<host, window, faults, views, ideal, marks>>

(* Rows that an import under way has put in the memory of the window.      *)
Imported(w) ==
  UNION {task[t].at \ task[t].todo : t \in {u \in Task :
           task[u].kind = "import" /\ task[u].win = w /\ task[u].pc # "put"}}

(* refreshSavedConnections: dropped when this window wrote meanwhile.      *)
Refreshed(t) ==
  LET v == task[t] IN
  /\ v.kind = "refresh" /\ v.pc = "got"
  /\ IF revision[v.win] = v.rev
     THEN /\ memory' = [memory EXCEPT ![v.win] = v.val]
          /\ view' = [view EXCEPT ![v.win] = v.ver]
          /\ crossed' = crossed \cup Imported(v.win)
     ELSE UNCHANGED <<memory, view, crossed>>
  /\ Finish(t)
  /\ UNCHANGED <<host, up, revision, mirror, queue, counts, version, hversion,
                 hview, ideal, touched, mixed>>

-----------------------------------------------------------------------------
(* Managed databases.                                                      *)

OfferMoves ==
  /\ ops < MaxOp /\ ops' = ops + 1
  /\ \E m \in Managed : \E a \in {None, 0, 1} \ {offer[m]} :
       offer' = [offer EXCEPT ![m] = a]
  /\ UNCHANGED <<stored, logged, keys, backup, window, task, queue, faults,
                 views, ideal, marks>>

(* readOfferedConnections; a file that cannot be read offers nothing.      *)
FileRead(t) ==
  /\ task[t].pc = "file"
  /\ \/ /\ task' = [task EXCEPT ![t].pc = "offers", ![t].val = offer]
        /\ UNCHANGED faults
     \/ /\ MayFail
        /\ task' = [task EXCEPT ![t].pc = "offers",
                      ![t].val = [m \in Managed |-> None]]
  /\ UNCHANGED <<host, window, queue, ops, views, ideal, marks>>

(* Variant: a row that is there is written anew.                           *)
SyncedAnew(rows, offers) ==
  [c \in Conn |->
     IF c \notin Managed THEN rows[c]
     ELSE IF offers[c] = None THEN None
     ELSE [addr |-> offers[c], own |-> 0]]

(* Variant: a row that is not there yet gets no settings.                  *)
SyncedBare(rows, offers) ==
  [c \in Conn |->
     IF c \notin Managed THEN rows[c]
     ELSE IF offers[c] = None THEN None
     ELSE [addr |-> offers[c],
           own  |-> IF rows[c] = None THEN None ELSE rows[c].own]]

(* Only the address is taken from the file; a row it does not offer goes.  *)
Synced(rows, offers) ==
  [c \in Conn |->
     IF c \notin Managed THEN rows[c]
     ELSE IF offers[c] = None THEN None
     ELSE [addr |-> offers[c],
           own  |-> IF rows[c] = None THEN 0 ELSE rows[c].own]]

(* What syncManagedConnections owes the user of row m: the address that is *)
(* offered, and the settings that were there.                              *)
Owed(m, a) ==
  IF a = None THEN None
  ELSE IF kept[m] = None THEN [addr |-> a, own |-> 0]
  ELSE [kept[m] EXCEPT !.addr = a]

Sync(t) ==
  LET v    == task[t]
      next == Synced(memory[v.win], v.val)
  IN /\ v.pc = "offers"
     /\ IF next = memory[v.win]
        THEN Finish(t) /\ UNCHANGED <<memory, revision, queue, kept>>
        ELSE /\ Persists(t, v, next)
             /\ kept' = [c \in Conn |-> IF c \in Managed
                                        THEN Owed(c, v.val[c]) ELSE kept[c]]
     /\ UNCHANGED <<host, up, mirror, counts, views, pass, past, marks>>

-----------------------------------------------------------------------------
(* Saving and deleting.                                                    *)

(* saveAndConnect; a password left blank keeps the one there is.  The row  *)
(* is placed in the list itself, which an export under way may be reading. *)
Save(t, w, c) ==
  /\ Ready(w)
  /\ c \in Managed => memory[w][c] # None
  /\ \E p \in {None, ops + 1} :
       LET v == [Begin("save", w) EXCEPT !.conn = c, !.pw = p, !.at = {c}]
           row  == [addr |-> IF memory[w][c] = None THEN 0 ELSE memory[w][c].addr,
                    own  |-> ops + 1]
           next == [memory[w] EXCEPT ![c] = row]
       IN /\ Starts(t, v)
          /\ memory' = [memory EXCEPT ![w] = next]
          /\ revision' = [revision EXCEPT ![w] = @ + 1]
          /\ queue' = [queue EXCEPT ![w] = Append(@, t)]
          /\ task' = [u \in Task |->
               IF u = t THEN [v EXCEPT !.pc = "put", !.val = next]
               ELSE IF task[u].pc = "seal" /\ task[u].win = w
                       /\ task[u].val = memory[w]
               THEN [task[u] EXCEPT !.val = next,
                       !.todo = @ \cup ({c} \ Had(memory[w]))]
               ELSE task[u]]
          /\ kept' = [kept EXCEPT ![c] = row]
          /\ pass' = IF p = None THEN pass ELSE [pass EXCEPT ![c] = p]
  /\ UNCHANGED <<host, up, mirror, faults, views, past, crossed, mixed>>

Delete(t, w, c) ==
  LET v == [Begin("delete", w) EXCEPT !.conn = c, !.at = {c}] IN
  /\ Ready(w) /\ memory[w][c] # None
  /\ Starts(t, v)
  /\ Persists(t, v, [memory[w] EXCEPT ![c] = None])
  /\ kept' = [kept EXCEPT ![c] = None] /\ pass' = [pass EXCEPT ![c] = None]
  /\ UNCHANGED <<host, up, mirror, faults, views, past, crossed, mixed>>

(* setSecret and deleteSecret; a keychain that refuses is only warned of.  *)
Key(t) ==
  LET v == task[t] IN
  /\ v.pc \in {"key", "wipe"}
  /\ \/ /\ keys' = [keys EXCEPT ![v.conn] = IF v.pc = "key" THEN v.pw ELSE None]
        /\ UNCHANGED <<faults, touched>>
     \/ MayFail /\ touched' = touched \cup {v.conn} /\ UNCHANGED keys
  /\ CASE v.kind = "delete" -> Goto(t, "history")
       [] v.kind = "import" -> Goto(t, "each")
       [] OTHER -> Finish(t)
  /\ UNCHANGED <<stored, logged, offer, backup, window, queue, ops, views,
                 ideal, crossed, mixed>>

-----------------------------------------------------------------------------
(* Backup.                                                                 *)

Export(t, w) ==
  LET v == [Begin("export", w) EXCEPT !.pc = "seal", !.val = memory[w],
              !.pw = Nobody, !.todo = Had(memory[w])]
  IN /\ Ready(w) /\ Had(memory[w]) # {} /\ Starts(t, v)
     /\ task' = [task EXCEPT ![t] = v]
     /\ UNCHANGED <<host, window, queue, faults, views, ideal, crossed, mixed>>

(* buildBackup: the passwords one by one, and then the file.               *)
Seal(t) ==
  LET v == task[t] IN
  /\ v.pc = "seal"
  /\ \/ \E c \in v.todo :
          /\ task' = [task EXCEPT ![t].todo = @ \ {c}, ![t].pw[c] = keys[c]]
          /\ UNCHANGED backup
     \/ /\ v.todo = {} /\ backup' = [rows |-> v.val, pw |-> v.pw]
        /\ Finish(t)
  /\ UNCHANGED <<stored, logged, keys, offer, window, queue, counts, views,
                 ideal, marks>>

Import(t, w) ==
  LET v == [Begin("import", w) EXCEPT !.pc = "open", !.val = backup,
              !.at = Had(backup.rows), !.todo = Had(backup.rows)]
  IN /\ Ready(w) /\ Had(backup.rows) # {} /\ Starts(t, v)
     /\ task' = [task EXCEPT ![t] = v]
     /\ UNCHANGED <<host, window, queue, faults, views, ideal, crossed, mixed>>

(* Decrypted before the list is touched, or not at all; `text` remembers   *)
(* the rows that were there (existing).                                    *)
Open(t) ==
  /\ task[t].pc = "open"
  /\ \/ task' = [task EXCEPT ![t].pc = "each",
                   ![t].text = Had(memory[task[t].win])]
     \/ Finish(t)
  /\ UNCHANGED <<host, window, queue, counts, views, ideal, marks>>

(* Variant: the password of a row that is replaced stays.                  *)
PlaceKeyKept(v, c) == IF v.val.pw[c] # None THEN "key" ELSE "each"

(* A replaced row must not keep a password the file does not carry.        *)
PlaceKey(v, c) ==
  IF v.val.pw[c] # None THEN "key"
  ELSE IF c \in v.text THEN "wipe" ELSE "each"

(* applyBackup, one record; a password left over where the list had no row *)
(* is not looked for.                                                      *)
Place(t) ==
  LET v == task[t] IN
  /\ v.pc = "each"
  /\ \E c \in v.todo :
       /\ memory' = [memory EXCEPT ![v.win][c] = v.val.rows[c]]
       /\ task' = [task EXCEPT ![t].todo = @ \ {c}, ![t].conn = c,
                     ![t].pc = PlaceKey(v, c), ![t].pw = v.val.pw[c]]
       /\ kept' = [kept EXCEPT ![c] = v.val.rows[c]]
       /\ pass' = [pass EXCEPT ![c] = v.val.pw[c]]
       /\ touched' = IF c \notin v.text /\ keys[c] # None
                     THEN touched \cup {c} ELSE touched
  /\ UNCHANGED <<host, up, revision, mirror, queue, counts, views, past,
                 crossed, mixed>>

Merge(t) ==
  LET v == task[t] IN
  /\ v.pc = "each" /\ v.todo = {}
  /\ Persists(t, v, memory[v.win])
  /\ UNCHANGED <<host, up, mirror, counts, views, ideal, marks>>

-----------------------------------------------------------------------------
(* The query history.                                                      *)

(* Variant: deduped against the oldest entry.                              *)
EnterOldest(list, s) ==
  IF list # <<>> /\ list[Len(list)] = s THEN list
  ELSE LET all == <<s>> \o list IN
       SubSeq(all, 1, IF Len(all) < MaxEntries THEN Len(all) ELSE MaxEntries)

(* Deduped against the newest entry, and capped.                           *)
Enter(list, s) ==
  IF list # <<>> /\ Head(list) = s THEN list
  ELSE LET all == <<s>> \o list IN
       SubSeq(all, 1, IF Len(all) < MaxEntries THEN Len(all) ELSE MaxEntries)

(* What a handler makes of the cache.                                      *)
Edited(v, all) ==
  CASE v.kind = "record" -> [all EXCEPT ![v.conn] = Enter(@, v.text)]
    [] v.kind \in {"delete", "clear"} -> [all EXCEPT ![v.conn] = <<>>]
    [] OTHER -> all

(* A statement that repeats the newest entry of the cache is dropped, but  *)
(* another window has written the log since, or is about to.               *)
Behind(w, ver) ==
  ver # hversion \/ \E t \in Task : task[t].pc = "hput" /\ task[t].win # w
Missed(v, all, ver) ==
  v.kind = "record" /\ Edited(v, all) = all /\ Behind(v.win, ver)

(* The cache, loaded by now, is changed and written.                       *)
Write(t, v, all) ==
  LET next == Edited(v, all)
  IN /\ mirror' = [mirror EXCEPT ![v.win] = next]
     /\ past' = CASE v.kind = "record" -> [past EXCEPT ![v.conn] = <<v.text>> \o @]
                  [] v.kind \in {"delete", "clear"} -> [past EXCEPT ![v.conn] = <<>>]
                  [] OTHER -> past
     /\ IF v.kind = "look" \/ (v.kind = "record" /\ next = all)
        THEN Finish(t) /\ UNCHANGED queue
        ELSE Calls(t, [v EXCEPT !.pc = "hput", !.val = next])

(* load: the cache at once, or a read.                                     *)
Load(t, v) ==
  IF mirror[v.win] # None
  THEN /\ Write(t, v, mirror[v.win])
       /\ mixed' = (mixed \/ Missed(v, mirror[v.win], hview[v.win]))
  ELSE /\ Calls(t, [v EXCEPT !.pc = "hget"])
       /\ UNCHANGED <<mirror, past, mixed>>

(* record, after a run that the server accepted; the History dialog and    *)
(* its Clear button; forgetConnection, the last step of a delete.          *)
Record(t, w, c, s) ==
  LET v == [Begin("record", w) EXCEPT !.conn = c, !.text = s] IN
  /\ Ready(w) /\ memory[w][c] # None
  /\ Starts(t, v) /\ Load(t, v)
  /\ UNCHANGED <<host, up, memory, revision, faults, views, kept, pass, crossed>>

Look(t, w, c, k) ==
  LET v == [Begin(k, w) EXCEPT !.conn = c] IN
  /\ Ready(w) /\ memory[w][c] # None
  /\ Starts(t, v) /\ Load(t, v)
  /\ UNCHANGED <<host, up, memory, revision, faults, views, kept, pass, crossed>>

Forget(t) ==
  /\ task[t].pc = "history" /\ Load(t, task[t])
  /\ UNCHANGED <<host, up, memory, revision, counts, views, kept, pass, crossed,
                 touched>>

HistoryGot(t) ==
  /\ task[t].pc = "hget" /\ First(t) /\ Served(t)
  /\ \/ /\ task' = [task EXCEPT ![t].pc = "hgot", ![t].val = logged,
                                ![t].ver = hversion]
        /\ UNCHANGED faults
     \/ /\ task' = [task EXCEPT ![t].pc = "hgot", ![t].val = Blank,
                                ![t].ver = 0]
        /\ MayFail
  /\ UNCHANGED <<host, window, ops, views, ideal, marks>>

(* The answer becomes the cache, in the place of the one that another load *)
(* of this window may have set meanwhile.                                  *)
HistoryLoaded(t) ==
  LET v == task[t] IN
  /\ v.pc = "hgot" /\ Write(t, v, v.val)
  /\ hview' = [hview EXCEPT ![v.win] = v.ver]
  /\ mixed' = (mixed \/ mirror[v.win] # None \/ Missed(v, v.val, v.ver))
  /\ UNCHANGED <<host, up, memory, revision, counts, version, hversion, view,
                 kept, pass, crossed, touched>>

HistoryPut(t) ==
  LET v == task[t] IN
  /\ v.pc = "hput" /\ First(t) /\ Served(t) /\ Finish(t)
  /\ \/ /\ logged' = v.val /\ hversion' = hversion + 1
        /\ IF hview[v.win] = hversion
           THEN hview' = [hview EXCEPT ![v.win] = @ + 1] /\ UNCHANGED mixed
           ELSE mixed' = TRUE /\ UNCHANGED hview
        /\ UNCHANGED faults
     \/ /\ MayFail /\ mixed' = TRUE
        /\ UNCHANGED <<logged, hversion, hview>>
  /\ UNCHANGED <<stored, keys, offer, backup, window, ops, version, view,
                 ideal, crossed, touched>>

-----------------------------------------------------------------------------
TaskStep(t) ==
  \/ Put(t) \/ PutFails(t) \/ Got(t) \/ GetFails(t) \/ Loaded(t)
  \/ Refreshed(t) \/ FileRead(t) \/ Sync(t) \/ Key(t) \/ Seal(t) \/ Open(t)
  \/ Place(t) \/ Merge(t) \/ Forget(t) \/ HistoryGot(t) \/ HistoryLoaded(t)
  \/ HistoryPut(t)

User(t, w) ==
  \/ Activate(t, w) \/ Export(t, w) \/ Import(t, w)
  \/ \E u \in Task : Mount(t, u, w)
  \/ \E c \in Conn :
       \/ Save(t, w, c) \/ Delete(t, w, c)
       \/ \E k \in {"look", "clear"} : Look(t, w, c, k)
       \/ \E s \in Statement : Record(t, w, c, s)

Next ==
  \/ \E t \in Task : TaskStep(t) \/ \E w \in Window : User(t, w)
  \/ OfferMoves

Spec == Init /\ [][Next]_vars

-----------------------------------------------------------------------------
(* Properties.                                                             *)

Quiet == \A t \in Task : task[t] = Idle

(* Every variable holds a value of its kind.                               *)
TypeOK ==
  /\ stored \in Rows /\ kept \in Rows /\ memory \in [Window -> Rows]
  /\ logged \in Log /\ past \in Log
  /\ mirror \in [Window -> Log \cup {None}]
  /\ keys \in [Conn -> Nat \cup {None}] /\ pass \in [Conn -> Nat \cup {None}]
  /\ offer \in [Managed -> Nat \cup {None}] /\ backup.rows \in Rows
  /\ queue \in [Window -> Seq(Task)] /\ revision \in [Window -> Nat]

(* With nothing under way the store has every row that was saved, imported *)
(* or offered, as it was asked for, and none that was deleted, unless a    *)
(* window wrote without having read what another had written, a write      *)
(* failed, or a refresh landed in an import; and a window that nobody      *)
(* wrote behind shows the stored list.                                     *)
SavedStaysSaved ==
  Quiet => /\ \A c \in Conn \ crossed : stored[c] = kept[c]
           /\ \A w \in up : view[w] = version => memory[w] = stored

(* ... and the keychain holds the password that was last given for a       *)
(* connection, and none that a delete or an import took away, unless two   *)
(* handlers were at it, the keychain refused, or an import brought back a  *)
(* row whose password had been left behind.                                *)
KeychainFollows == Quiet => \A c \in Conn \ touched : keys[c] = pass[c]

(* Each run of equal statements once.                                      *)
Collapse(s) ==
  LET upTo[n \in 0..Len(s)] ==
        IF n = 0 THEN <<>>
        ELSE IF n > 1 /\ s[n] = s[n - 1] THEN upTo[n - 1]
        ELSE Append(upTo[n - 1], s[n])
  IN upTo[Len(s)]

(* ... and the history holds the newest statements, each run of equal ones *)
(* once, and nothing of a deleted connection, unless a window wrote it     *)
(* from a cache that was older than the store, took a statement for the    *)
(* newest in such a cache, or a write failed.                              *)
HistoryKept ==
  Quiet /\ ~mixed => \A c \in Conn :
    LET all == Collapse(past[c]) IN
    logged[c] = SubSeq(all, 1, IF Len(all) < MaxEntries THEN Len(all)
                               ELSE MaxEntries)
=============================================================================
