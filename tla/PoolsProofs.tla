---------------------------- MODULE PoolsProofs ----------------------------
(***************************************************************************)
(* Theorems about the registry, the pools and the in-flight requests, for  *)
(* any requests, databases, faults and bounds.                             *)
(***************************************************************************)
EXTENDS Pools, TLAPS

-----------------------------------------------------------------------------
(* What the operators on a process and on a handler's locals return.       *)

Work == Seq(Req \X (Nat \ {0}))

LEMMA NoneApart == None \notin Conn /\ None \notin Pid
BY NoneAssumption, NumberAssumption DEF Conn, Pid

LEMMA NoProcType == NoProc \in ProcRec
BY DEF NoProc, ProcRec

LEMMA ClosedType ==
  ASSUME NEW v
  PROVE  Closed(v) \in ProcRec
BY NoProcType DEF Closed, ProcRec

LEMMA MovedType ==
  ASSUME NEW v \in ProcRec
  PROVE  /\ [v EXCEPT !.st = "idle"] \in ProcRec
         /\ [v EXCEPT !.st = "held"] \in ProcRec
BY DEF ProcRec

LEMMA LeftType ==
  ASSUME NEW r \in Req, NEW v \in ProcRec
  PROVE  Left(r, v) \in ProcRec
BY ClosedType DEF Left, Returned, ProcRec

LEMMA SentType ==
  ASSUME NEW r \in Req, NEW k \in Nat \ {0}, NEW v \in ProcRec
  PROVE  Sent(r, k, v) \in ProcRec
<1>1. Append(v.work, <<r, k>>) \in Work
  BY DEF ProcRec, Work
<1> QED
  BY <1>1, LeftType DEF Sent, ProcRec, Work

LEMMA HandlerType ==
  ASSUME NEW r \in Req, NEW k \in Nat \ {0}, NEW q \in ReqRec
  PROVE  /\ Handler(r, k, q) \in ReqRec
         /\ Handler(r, k, q).conn = q.conn
         /\ Handler(r, k, q).pool = q.pool
         /\ \/ /\ Handler(r, k, q).pc = "await"
               /\ Handler(r, k, q).pid = q.pid
            \/ Handler(r, k, q).pc = "ended"
BY DEF Handler, ReqRec, Pc

LEMMA ObserveType ==
  ASSUME NEW v \in ProcRec, NEW s
  PROVE  Observe(v, s) \in ProcRec
<1>1. (\/ v.drop
       \/ TxnEffect(s, MySql) = "Begin"
       \/ ChangesSessionContext(s)) \in BOOLEAN
  OBVIOUS
<1> QED
  BY <1>1 DEF Observe, ProcRec

LEMMA ExecutedType ==
  ASSUME NEW v \in ProcRec, NEW s
  PROVE  Executed(v, s) \in ProcRec
<1>1. (v.moved \/ ChangesSessionContext(s)) \in BOOLEAN
  OBVIOUS
<1>2. (CASE TxnEffect(s, MySql) = "Begin" -> TRUE
         [] TxnEffect(s, MySql) = "End"   -> FALSE
         [] OTHER                         -> v.txn) \in BOOLEAN
  BY DEF ProcRec
<1> QED
  BY <1>1, <1>2 DEF Executed, ProcRec

(* The first statement a process has been sent is some request's.          *)
LEMMA HeadOfWork ==
  ASSUME NEW v \in ProcRec, v.work # <<>>
  PROVE  /\ Head(v.work)[1] \in Req
         /\ Head(v.work)[2] \in Nat \ {0}
         /\ Tail(v.work) \in Work
         /\ [v EXCEPT !.work = Tail(@)] \in ProcRec
<1>1. v.work \in Work
  BY DEF ProcRec, Work
<1>2. Head(v.work) \in Req \X (Nat \ {0}) /\ Tail(v.work) \in Work
  BY <1>1 DEF Work
<1> QED
  BY <1>2 DEF ProcRec, Work

-----------------------------------------------------------------------------
(* Type correctness, by the actions that touch a kind of variable.         *)

(* TypeOK says these three things.                                         *)
Types ==
  /\ registered \in Conn \cup {None}
  /\ life \in [Conn -> Life]
  /\ toClose \in [Conn -> SUBSET PoolId]
  /\ extra \in [Conn -> [Db -> PoolId \cup {None}]]
  /\ shut \in SUBSET PoolId
  /\ editor \in [Conn -> Pid \cup {None}] /\ armed \in SUBSET Conn
  /\ procs \in [Pid -> ProcRec]
  /\ reqs \in [Req -> ReqRec]
  /\ entries \in [Req -> [on : BOOLEAN, fired : BOOLEAN,
                          pid : Pid \cup {None}]]

StopsKnown ==
  /\ stops \in [Req -> [pc : {"none", "found", "kill", "done"},
                        pid : Pid \cup {None}, conn : Conn \cup {None}]]
  /\ \A r \in Req :
       /\ stops[r].pc \in {"found", "kill"} => stops[r].pid # None
       /\ stops[r].pc = "kill" => stops[r].conn # None

Known(r) ==
  /\ Active(r) => reqs[r].conn # None
  /\ HasPool(r) => reqs[r].pool # None
  /\ Holds(r) => reqs[r].pid # None

LEMMA TypeParts ==
  TypeOK <=> Types /\ StopsKnown /\ \A r \in Req : Known(r)
BY DEF TypeOK, Types, StopsKnown, Known

LEMMA BaseType ==
  ASSUME NEW c \in Conn
  PROVE  Base(c) \in PoolId
BY EngineAssumption DEF Base, PoolId

LEMMA BackendsType ==
  ASSUME Types, NEW c \in Conn
  PROVE  AllBackends(c) \in SUBSET PoolId
BY BaseType DEF AllBackends, Types

LEMMA ListType ==
  ASSUME Types, NEW c \in Conn, ListPools(c)
  PROVE  life' \in [Conn -> Life] /\ toClose' \in [Conn -> SUBSET PoolId]
BY BackendsType DEF ListPools, Types, Life

LEMMA RetireType ==
  ASSUME Types
  PROVE  Retire(life) \in [Conn -> Life]
BY DEF Retire, Types, Life

(* The steps of the registry and of close() leave requests alone.          *)
LEMMA RegistryType ==
  ASSUME TypeOK,
         \/ Connect \/ Disconnect
         \/ \E c \in Conn : CloseStep(c) \/ DropConnection(c) \/ IdleClose(c)
         \/ \E p \in Pid : PingReturned(p)
  PROVE  TypeOK'
<1> Types /\ StopsKnown /\ \A r \in Req : Known(r)
  BY TypeParts
<1>1. UNCHANGED <<reqs, stops>>
  BY DEF Connect, Disconnect, CloseStep, CloseSession, SessionClosed,
         ClosePool, PoolDrained, DropConnection, IdleClose, PingReturned
<1>2. StopsKnown' /\ \A r \in Req : Known(r)'
  BY <1>1 DEF StopsKnown, Known, Active, HasPool, Holds
<1>3. Types'
  <2>1. CASE Connect
    <3>1. PICK c \in Conn : /\ registered' = c
                            /\ life' = [Retire(life) EXCEPT ![c] = "open"]
      BY <2>1 DEF Connect
    <3> QED
      BY <2>1, <3>1, RetireType DEF Connect, Types, Life
  <2>2. CASE Disconnect
    BY <2>2, RetireType DEF Disconnect, Types
  <2>3. ASSUME NEW c \in Conn, CloseSession(c)
        PROVE  Types'
    <3>1. life' \in [Conn -> Life] /\ toClose' \in [Conn -> SUBSET PoolId]
      BY <2>3, ListType DEF CloseSession, Types, Life
    <3> QED
      BY <2>3, <3>1 DEF CloseSession, Types
  <2>4. ASSUME NEW c \in Conn, SessionClosed(c)
        PROVE  Types'
    BY <2>4, ListType, ClosedType DEF SessionClosed, Types
  <2>5. ASSUME NEW c \in Conn, NEW P \in toClose[c], ClosePool(c, P)
        PROVE  Types'
    BY <2>5, ClosedType DEF ClosePool, Types
  <2>6. ASSUME NEW c \in Conn, NEW P \in toClose[c], PoolDrained(c, P)
        PROVE  Types'
    BY <2>6 DEF PoolDrained, Types, Life
  <2>7. ASSUME NEW c \in Conn, DropConnection(c)
        PROVE  Types'
    BY <2>7, ClosedType, BackendsType DEF DropConnection, Types, Life
  <2>8. ASSUME NEW c \in Conn, IdleClose(c)
        PROVE  Types'
    <3>1. procs' \in [Pid -> ProcRec] /\ editor' \in [Conn -> Pid \cup {None}]
      <4>1. CASE UNCHANGED <<editor, procs>>
        BY <4>1 DEF Types
      <4>2. CASE /\ procs' = [procs EXCEPT ![editor[c]] = Closed(@)]
                 /\ editor' = [editor EXCEPT ![c] = None]
        BY <4>2, ClosedType DEF Types
      <4> QED
        BY <2>8, <4>1, <4>2, Zenon DEF IdleClose
    <3> QED
      BY <2>8, <3>1 DEF IdleClose, Types, conns
  <2>9. ASSUME NEW p \in Pid, PingReturned(p)
        PROVE  Types'
    <3>1. procs[p] \in ProcRec
      BY DEF Types
    <3>2. [procs[p] EXCEPT !.st = "idle"] \in ProcRec
      BY <3>1, MovedType
    <3> QED
      BY <2>9, <3>2, ClosedType DEF PingReturned, Types, conns
  <2> QED
    BY <2>1, <2>2, <2>3, <2>4, <2>5, <2>6, <2>7, <2>8, <2>9 DEF CloseStep
<1> QED
  BY <1>2, <1>3, TypeParts DEF TypeOK, Types, StopsKnown, Known

LEMMA KnownElse ==
  ASSUME TypeOK, NEW r \in Req,
         \A q \in Req \ {r} : reqs'[q] = reqs[q],
         Known(r)'
  PROVE  \A q \in Req : Known(q)'
<1> SUFFICES ASSUME NEW q \in Req \ {r}
             PROVE  Known(q)'
  OBVIOUS
<1> QED
  BY TypeParts DEF Known, Active, HasPool, Holds

(* A handler that moves on, on whatever it holds, and what it sends there. *)
LEMMA StepType ==
  ASSUME TypeOK, NEW r \in Req, NEW k \in Nat \ {0}, NEW p \in Pid,
         NEW q \in ReqRec, q.conn # None, q.pool # None, q.pid # None,
         NEW v \in ProcRec,
         reqs' = [reqs EXCEPT ![r] = Handler(r, k, q)],
         procs' = [procs EXCEPT ![p] = Sent(r, k, v)],
         reqs[r].conn \in Conn,
         armed' = Timers(r, k),
         editor' \in [Conn -> Pid \cup {None}],
         entries' \in [Req -> [on : BOOLEAN, fired : BOOLEAN,
                               pid : Pid \cup {None}]],
         StopsKnown', UNCHANGED conns
  PROVE  TypeOK'
<1> Types /\ StopsKnown /\ \A s \in Req : Known(s)
  BY TypeParts
<1>1. Handler(r, k, q) \in ReqRec
  BY HandlerType
<1>2. Types'
  BY <1>1, SentType DEF Types, conns, Timers
<1>3. Known(r)'
  <2>1. reqs'[r] = Handler(r, k, q)
    BY DEF Types
  <2> QED
    BY <2>1, HandlerType DEF Known, Active, HasPool, Holds
<1>4. \A s \in Req : Known(s)'
  BY <1>3, KnownElse DEF Types
<1> QED
  BY <1>2, <1>4, TypeParts DEF TypeOK, Types, StopsKnown, Known

(* The places where a handler keeps all it has but its program counter.    *)
LEMMA GotoType ==
  ASSUME TypeOK, NEW r \in Req, NEW pc \in Pc, Goto(r, pc), Active(r),
         pc \in {"await", "kill"} => Holds(r),
         pc \in {"lock", "acquire", "await", "kill"} => HasPool(r),
         UNCHANGED <<conns, editor, armed, procs, entries, stops>>
  PROVE  TypeOK'
<1> Types /\ StopsKnown /\ \A s \in Req : Known(s)
  BY TypeParts
<1>1. [reqs[r] EXCEPT !.pc = pc] \in ReqRec
  BY ZenonT(40) DEF Types, ReqRec
<1>2. Types'
  BY <1>1 DEF Types, conns, Goto
<1>3. Known(r)'
  BY DEF Known, Active, HasPool, Holds, Goto, Types, ReqRec
<1>4. StopsKnown' /\ \A s \in Req : Known(s)'
  BY <1>3, KnownElse DEF Types, Goto, StopsKnown
<1> QED
  BY <1>2, <1>4, TypeParts DEF TypeOK, Types, StopsKnown, Known

(* A handler that gives up what it had and goes: "done" or "gone".         *)
LEMMA LeaveType ==
  ASSUME TypeOK, NEW r \in Req, NEW pc \in {"done", "gone"},
         reqs' = [reqs EXCEPT ![r] = NoReq(pc)],
         procs' \in [Pid -> ProcRec],
         entries' \in [Req -> [on : BOOLEAN, fired : BOOLEAN,
                               pid : Pid \cup {None}]],
         UNCHANGED <<conns, editor, armed, stops>>
  PROVE  TypeOK'
<1> Types /\ StopsKnown /\ \A s \in Req : Known(s)
  BY TypeParts
<1>1. NoReq(pc) \in ReqRec
  BY DEF NoReq, ReqRec, Pc
<1>2. Types'
  BY <1>1 DEF Types, conns
<1>3. Known(r)'
  BY DEF Known, Active, HasPool, Holds, NoReq, Types
<1>4. StopsKnown' /\ \A s \in Req : Known(s)'
  BY <1>3, KnownElse DEF Types, StopsKnown
<1> QED
  BY <1>2, <1>4, TypeParts DEF TypeOK, Types, StopsKnown, Known

LEMMA EntryType ==
  ASSUME Types, NEW r \in Req, NEW p \in Pid
  PROVE  /\ NoEntry \in [on : BOOLEAN, fired : BOOLEAN, pid : Pid \cup {None}]
         /\ [entries EXCEPT ![r].pid = p] \in
              [Req -> [on : BOOLEAN, fired : BOOLEAN, pid : Pid \cup {None}]]
BY DEF NoEntry, Types

(* Up to the pool.                                                         *)
LEMMA FindingType ==
  ASSUME TypeOK, NEW r \in Req,
         Arrive(r) \/ FindPool(r) \/ Publish(r) \/ BuildFails(r) \/ Refuse(r)
         \/ AcquireFails(r) \/ TimeLimit(r)
  PROVE  TypeOK'
<1> Types /\ StopsKnown /\ \A s \in Req : Known(s)
  BY TypeParts
<1>a. Next1(r) \in {"lock", "acquire"} /\ Next1(r) \in Pc
  BY DEF Next1, Pc
<1>b. reqs[r] \in ReqRec
  BY DEF Types
<1>1. CASE Arrive(r)
  <2>1. [reqs[r] EXCEPT !.pc = "find", !.conn = registered] \in ReqRec
    BY <1>b DEF ReqRec, Types, Pc
  <2>2. Types'
    BY <1>1, <2>1 DEF Arrive, Types, conns
  <2>3. Known(r)'
    BY <1>1, <1>b DEF Arrive, Known, Active, HasPool, Holds, Types, ReqRec
  <2>4. StopsKnown' /\ \A s \in Req : Known(s)'
    BY <1>1, <2>3, KnownElse DEF Arrive, Types, StopsKnown
  <2> QED
    BY <2>2, <2>4, TypeParts DEF TypeOK, Types, StopsKnown, Known
<1>2. CASE FindPool(r)
  <2> DEFINE P == IF DbOf[r] = Home THEN Base(reqs[r].conn)
                  ELSE extra[reqs[r].conn][DbOf[r]]
             pc == IF P = None THEN "build" ELSE Next1(r)
  <2>0. reqs[r].conn \in Conn
    BY <1>2, <1>b DEF FindPool, Known, Active, ReqRec
  <2>1. P \in PoolId \cup {None} /\ pc \in Pc
    BY <1>a, <2>0, BaseType, RequestAssumption DEF Types, Pc
  <2>c. pc \in {"build", "lock", "acquire"} /\ (pc # "build" => P # None)
    BY <1>a
  <2>2. reqs' = [reqs EXCEPT ![r].pc = pc, ![r].pool = P]
    BY <1>2 DEF FindPool
  <2> HIDE DEF P, pc
  <2>3. [reqs[r] EXCEPT !.pc = pc, !.pool = P] \in ReqRec
    BY <1>b, <2>1 DEF ReqRec
  <2>4. Types'
    <3>1. reqs' \in [Req -> ReqRec]
      BY <2>2, <2>3 DEF Types
    <3>2. UNCHANGED <<conns, editor, armed, procs, entries>>
      BY <1>2 DEF FindPool
    <3> QED
      BY <3>1, <3>2 DEF Types, conns
  <2>5. Known(r)'
    BY <1>b, <2>c, <2>0, <2>2, NoneApart
       DEF Known, Active, HasPool, Holds, Types, ReqRec
  <2>6. StopsKnown' /\ \A s \in Req : Known(s)'
    BY <1>2, <2>2, <2>5, KnownElse DEF FindPool, Types, StopsKnown
  <2> QED
    BY <2>4, <2>6, TypeParts DEF TypeOK, Types, StopsKnown, Known
<1>3. CASE Publish(r)
  <2> DEFINE c == reqs[r].conn
             d == DbOf[r]
             P == IF extra[c][d] = None THEN Built(r) ELSE extra[c][d]
  <2>0. c \in Conn /\ d \in Db
    BY <1>3, <1>b, RequestAssumption DEF Publish, Known, Active, ReqRec
  <2>1. Built(r) \in PoolId /\ P \in PoolId
    BY <2>0 DEF Built, PoolId, Types
  <2>2. reqs' = [reqs EXCEPT ![r].pc = Next1(r), ![r].pool = P]
    BY <1>3 DEF Publish
  <2>3. extra' = [extra EXCEPT ![c][d] = P]
    BY <1>3 DEF Publish
  <2>4. shut' = shut \/ shut' = shut \cup {Built(r)}
    BY <1>3 DEF Publish
  <2> HIDE DEF c, d, P
  <2>5. [reqs[r] EXCEPT !.pc = Next1(r), !.pool = P] \in ReqRec
    BY <1>a, <1>b, <2>1 DEF ReqRec
  <2>6. extra' \in [Conn -> [Db -> PoolId \cup {None}]]
    BY <2>0, <2>1, <2>3 DEF Types
  <2>7. Types'
    <3>1. reqs' \in [Req -> ReqRec]
      BY <2>2, <2>5 DEF Types
    <3>2. shut' \in SUBSET PoolId
      BY <2>1, <2>4 DEF Types
    <3>3. UNCHANGED <<registered, life, toClose, editor, armed, procs, entries>>
      BY <1>3 DEF Publish
    <3> QED
      BY <2>6, <3>1, <3>2, <3>3 DEF Types
  <2>8. Known(r)'
    BY <1>a, <1>b, <2>0, <2>1, <2>2, NoneApart, PoolAssumption
       DEF Known, Active, HasPool, Holds, Types, ReqRec, c
  <2>9. StopsKnown' /\ \A s \in Req : Known(s)'
    BY <1>3, <2>2, <2>8, KnownElse DEF Publish, Types, StopsKnown
  <2> QED
    BY <2>7, <2>9, TypeParts DEF TypeOK, Types, StopsKnown, Known
<1>4. CASE BuildFails(r) \/ Refuse(r) \/ AcquireFails(r)
  <2>1. Fail(r) /\ Active(r)
    BY <1>4 DEF BuildFails, Refuse, AcquireFails, Active
  <2> QED
    BY <2>1, GotoType DEF Fail, Pc
<1>5. CASE TimeLimit(r)
  <2>1. Active(r) /\ Holds(r) /\ HasPool(r)
    BY <1>5 DEF TimeLimit, Active, Holds, HasPool
  <2> QED
    BY <1>5, <2>1, GotoType DEF TimeLimit, Pc
<1> QED
  BY <1>1, <1>2, <1>3, <1>4, <1>5

(* A handler that holds a process has everything.                          *)
LEMMA HolderType ==
  ASSUME TypeOK, NEW r \in Req, Holds(r)
  PROVE  /\ reqs[r] \in ReqRec /\ reqs[r].conn \in Conn
         /\ reqs[r].pid \in Pid /\ reqs[r].at + 1 \in Nat \ {0}
         /\ reqs[r].conn # None /\ reqs[r].pool # None /\ reqs[r].pid # None
         /\ procs[reqs[r].pid] \in ProcRec
<1>1. Types /\ Known(r)
  BY TypeParts
<1>2. reqs[r] \in ReqRec /\ Active(r) /\ HasPool(r)
  BY <1>1 DEF Types, Holds, HasPool, Active
<1>3. /\ reqs[r].conn \in Conn /\ reqs[r].pid \in Pid
      /\ reqs[r].at + 1 \in Nat \ {0}
      /\ reqs[r].conn # None /\ reqs[r].pool # None /\ reqs[r].pid # None
  BY <1>1, <1>2 DEF Known, ReqRec
<1> QED
  BY <1>1, <1>2, <1>3 DEF Types

(* The editor's session, and a fresh process.                              *)
LEMMA OpeningType ==
  ASSUME TypeOK, NEW r \in Req, TryLock(r) \/ Borrow(r)
  PROVE  TypeOK'
<1> Types /\ StopsKnown /\ Known(r)
  BY TypeParts
<1>0. /\ reqs[r] \in ReqRec /\ reqs[r].conn \in Conn
      /\ reqs[r].conn # None /\ reqs[r].pool # None
  BY DEF TryLock, Borrow, Types, Known, Active, HasPool, ReqRec
<1>1. CASE TryLock(r)
  <2> DEFINE p == editor[reqs[r].conn]
             q == [reqs[r] EXCEPT !.pid = p]
  <2>1. CASE p = None
    <3>1. Goto(r, "acquire") /\ UNCHANGED <<procs, entries, armed>>
      BY <1>1, <2>1 DEF TryLock
    <3>2. UNCHANGED <<conns, editor, stops>> /\ Active(r) /\ HasPool(r)
      BY <1>1 DEF TryLock, Active, HasPool
    <3> QED
      BY <3>1, <3>2, GotoType DEF Pc
  <2>2. CASE p # None
    <3>1. p \in Pid
      BY <1>0, <2>2 DEF Types
    <3>2. q \in ReqRec /\ q.conn = reqs[r].conn /\ q.pool = reqs[r].pool
          /\ q.pid = p
      BY <1>0, <3>1 DEF ReqRec
    <3>3. /\ reqs' = [reqs EXCEPT ![r] = Handler(r, 1, q)]
          /\ procs' = [procs EXCEPT ![p] = Sent(r, 1, procs[p])]
          /\ entries' = [entries EXCEPT ![r].pid = p]
          /\ armed' = Timers(r, 1)
          /\ UNCHANGED <<conns, editor, stops>>
      BY <1>1, <2>2 DEF TryLock
    <3>4. procs[p] \in ProcRec
      BY <3>1 DEF Types
    <3> HIDE DEF p, q
    <3>5. StopsKnown' /\ editor' \in [Conn -> Pid \cup {None}]
      BY <3>3 DEF StopsKnown, Types
    <3>6. p # None
      BY <3>1, NoneApart
    <3>7. entries' \in [Req -> [on : BOOLEAN, fired : BOOLEAN,
                                pid : Pid \cup {None}]]
      BY <3>1, <3>3, EntryType
    <3>8. 1 \in Nat \ {0}
      OBVIOUS
    <3>9. q.conn # None /\ q.pool # None /\ q.pid # None
      BY <1>0, <3>2, <3>6
    <3> QED
      BY <1>0, <3>1, <3>2, <3>3, <3>4, <3>5, <3>7, <3>8, <3>9, StepType
  <2> QED
    BY <2>1, <2>2
<1>2. CASE Borrow(r)
  <2>1. PICK p \in Pid :
          LET v == IF procs[p].st = "idle" THEN [procs[p] EXCEPT !.st = "held"]
                   ELSE [NoProc EXCEPT !.pool = reqs[r].pool, !.st = "held"]
          IN /\ procs' = [procs EXCEPT ![p] = Sent(r, 1, v)]
             /\ reqs' = [reqs EXCEPT
                           ![r] = Handler(r, 1, [reqs[r] EXCEPT !.pid = p])]
             /\ entries' = [entries EXCEPT ![r].pid = p]
             /\ editor' = IF r \in Editor
                          THEN [editor EXCEPT ![reqs[r].conn] = p] ELSE editor
    BY <1>2 DEF Borrow
  <2> DEFINE q == [reqs[r] EXCEPT !.pid = p]
             v == IF procs[p].st = "idle" THEN [procs[p] EXCEPT !.st = "held"]
                  ELSE [NoProc EXCEPT !.pool = reqs[r].pool, !.st = "held"]
  <2>2. q \in ReqRec /\ q.conn = reqs[r].conn /\ q.pool = reqs[r].pool
        /\ q.pid = p
    BY <1>0 DEF ReqRec
  <2>3. v \in ProcRec
    <3>1. procs[p] \in ProcRec
      BY DEF Types
    <3>2. [NoProc EXCEPT !.pool = reqs[r].pool, !.st = "held"] \in ProcRec
      BY <1>0, NoProcType DEF ProcRec, ReqRec
    <3> QED
      BY <3>1, <3>2, MovedType
  <2>4. /\ procs' = [procs EXCEPT ![p] = Sent(r, 1, v)]
        /\ reqs' = [reqs EXCEPT ![r] = Handler(r, 1, q)]
    BY <2>1
  <2> HIDE DEF q, v
  <2>5. armed' = Timers(r, 1) /\ UNCHANGED <<conns, stops>>
    BY <1>2 DEF Borrow
  <2>6. StopsKnown' /\ editor' \in [Conn -> Pid \cup {None}]
    BY <1>0, <2>1, <2>5 DEF StopsKnown, Types
  <2>7. p # None
    BY NoneApart
  <2>8. entries' \in [Req -> [on : BOOLEAN, fired : BOOLEAN,
                              pid : Pid \cup {None}]]
    BY <2>1, EntryType
  <2>9. q.conn # None /\ q.pool # None /\ q.pid # None
    BY <1>0, <2>2, <2>7
  <2>10. 1 \in Nat \ {0}
    OBVIOUS
  <2> QED
    BY <1>0, <2>2, <2>3, <2>4, <2>5, <2>6, <2>8, <2>9, <2>10, StepType
<1> QED
  BY <1>1, <1>2

(* The end of a request, and the batch that goes on after a time limit.    *)
LEMMA EndingType ==
  ASSUME TypeOK, NEW r \in Req,
         StmtCancelled(r) \/ Answer(r) \/ ClientGone(r) \/ KillOwn(r)
         \/ KillOwnFails(r)
  PROVE  TypeOK'
<1> Types /\ StopsKnown /\ \A s \in Req : Known(s)
  BY TypeParts
<1>1. CASE StmtCancelled(r)
  <2>1. Holds(r)
    BY <1>1 DEF StmtCancelled, Holds
  <2>2. Left(r, procs[reqs[r].pid]) \in ProcRec
    BY <2>1, HolderType, LeftType
  <2>3. [reqs[r] EXCEPT !.pc = "ended", !.pid = None] \in ReqRec
    BY <2>1, HolderType DEF ReqRec, Pc
  <2>4. reqs' \in [Req -> ReqRec]
    BY <1>1, <2>3 DEF StmtCancelled, Types
  <2>5. procs' \in [Pid -> ProcRec] /\ armed' \in SUBSET Conn
    BY <1>1, <2>1, <2>2, HolderType DEF StmtCancelled, Types
  <2>6. UNCHANGED <<conns, editor, entries, stops>>
    BY <1>1 DEF StmtCancelled
  <2>7. Types' /\ StopsKnown'
    BY <2>4, <2>5, <2>6 DEF Types, conns, StopsKnown
  <2>8. Known(r)'
    BY <1>1, <2>1, HolderType
       DEF StmtCancelled, Known, Active, HasPool, Holds, Types, ReqRec
  <2>9. \A s \in Req : Known(s)'
    BY <1>1, <2>8, KnownElse DEF StmtCancelled, Types
  <2> QED
    BY <2>7, <2>9, TypeParts DEF TypeOK, Types, StopsKnown, Known
<1>2. CASE Answer(r)
  <2>1. entries' \in [Req -> [on : BOOLEAN, fired : BOOLEAN,
                              pid : Pid \cup {None}]]
    BY <1>2 DEF Answer, Types, NoEntry
  <2>2. procs' \in [Pid -> ProcRec]
    BY <1>2 DEF Answer, Types
  <2> QED
    BY <1>2, <2>1, <2>2, LeaveType DEF Answer
<1>3. CASE ClientGone(r)
  <2>1. procs' \in [Pid -> ProcRec]
    <3>1. CASE reqs[r].pid = None
      BY <1>3, <3>1 DEF ClientGone, Types
    <3>2. CASE reqs[r].pid # None
      <4>1. reqs[r].pid \in Pid /\ procs[reqs[r].pid] \in ProcRec
        BY <3>2 DEF Types, ReqRec
      <4>2. Left(r, procs[reqs[r].pid]) \in ProcRec
        BY <4>1, LeftType
      <4> QED
        BY <1>3, <3>2, <4>2 DEF ClientGone, Types
    <3> QED
      BY <3>1, <3>2
  <2> QED
    BY <1>3, <2>1, LeaveType DEF ClientGone, Types
<1>4. ASSUME NEW v \in ProcRec, AfterKill(r, v), Holds(r)
      PROVE  TypeOK'
  <2>1. /\ procs' = [procs EXCEPT ![reqs[r].pid] = Sent(r, reqs[r].at + 1, v)]
        /\ reqs' = [reqs EXCEPT ![r] = Handler(r, reqs[r].at + 1, reqs[r])]
        /\ armed' = Timers(r, reqs[r].at + 1)
        /\ UNCHANGED <<conns, editor, entries, stops>>
    BY <1>4 DEF AfterKill
  <2>2. /\ StopsKnown' /\ editor' \in [Conn -> Pid \cup {None}]
        /\ entries' \in [Req -> [on : BOOLEAN, fired : BOOLEAN,
                                 pid : Pid \cup {None}]]
    BY <2>1 DEF StopsKnown, Types
  <2> QED
    BY <1>4, <2>1, <2>2, HolderType, StepType
<1>5. CASE KillOwn(r)
  <2> DEFINE v == procs[reqs[r].pid]
             w == IF v.work = <<>> THEN v ELSE [v EXCEPT !.work = Tail(@)]
  <2>1. Holds(r) /\ AfterKill(r, w)
    BY <1>5 DEF KillOwn, Holds
  <2>2. w \in ProcRec
    BY <2>1, HolderType, HeadOfWork
  <2> QED
    BY <2>1, <2>2, <1>4
<1>6. CASE KillOwnFails(r)
  BY <1>6, <1>4, HolderType DEF KillOwnFails, Holds
<1> QED
  BY <1>1, <1>2, <1>3, <1>5, <1>6

(* A handler that waits for statement k goes on with k + 1.                *)
LEMMA AwaitsType ==
  ASSUME TypeOK, NEW r \in Req, NEW k \in Nat \ {0}, Awaits(r, k),
         NEW p \in Pid, NEW v \in ProcRec,
         procs' = [procs EXCEPT ![p] = Sent(r, k + 1, v)],
         reqs' = [reqs EXCEPT ![r] = Handler(r, k + 1, @)],
         armed' = Timers(r, k + 1),
         UNCHANGED <<conns, editor, entries>>, StopsKnown'
  PROVE  TypeOK'
<1> Types
  BY TypeParts
<1>1. Holds(r) /\ k + 1 \in Nat \ {0}
  BY DEF Awaits, Holds
<1>2. /\ editor' \in [Conn -> Pid \cup {None}]
      /\ entries' \in [Req -> [on : BOOLEAN, fired : BOOLEAN,
                               pid : Pid \cup {None}]]
  BY DEF Types
<1> QED
  BY <1>1, <1>2, HolderType, StepType

LEMMA ProcsType ==
  ASSUME TypeOK, NEW p \in Pid, NEW v \in ProcRec,
         procs' = [procs EXCEPT ![p] = v],
         UNCHANGED <<conns, editor, armed, reqs, entries>>, StopsKnown'
  PROVE  TypeOK'
<1> Types /\ \A r \in Req : Known(r)
  BY TypeParts
<1>1. Types'
  BY DEF Types, conns
<1>2. \A r \in Req : Known(r)'
  BY DEF Known, Active, HasPool, Holds
<1> QED
  BY <1>1, <1>2, TypeParts DEF TypeOK, Types, StopsKnown, Known

LEMMA ServerType ==
  ASSUME TypeOK, NEW p \in Pid, ServerDoes(p)
  PROVE  TypeOK'
<1> Types /\ StopsKnown
  BY TypeParts
<1> DEFINE r == Head(procs[p].work)[1]
           k == Head(procs[p].work)[2]
           s == Batch[r][k]
           v == [Executed(procs[p], s) EXCEPT !.work = Tail(@)]
           w == [v EXCEPT !.tainted = @ \/ TxnEffect(s, MySql) # "None"
                                        \/ ChangesSessionContext(s)]
<1>1. procs[p] \in ProcRec /\ procs[p].work # <<>>
  BY DEF ServerDoes, Types
<1>2. r \in Req /\ k \in Nat \ {0}
  BY <1>1, HeadOfWork
<1>3. Executed(procs[p], s) \in ProcRec
  BY <1>1, ExecutedType
<1>4. Executed(procs[p], s).work = procs[p].work
  BY <1>1 DEF Executed, ProcRec
<1>5. v \in ProcRec
  BY <1>1, <1>3, <1>4, HeadOfWork
<1>6. /\ \/ /\ Awaits(r, k)
            /\ procs' = [procs EXCEPT ![p] = Sent(r, k + 1, Observe(v, s))]
            /\ reqs' = [reqs EXCEPT ![r] = Handler(r, k + 1, @)]
            /\ armed' = Timers(r, k + 1)
         \/ /\ procs' = [procs EXCEPT ![p] = w]
            /\ UNCHANGED <<reqs, armed>>
      /\ UNCHANGED <<conns, editor, entries, stops>>
  BY DEF ServerDoes
<1>7. (v.tainted \/ TxnEffect(s, MySql) # "None" \/ ChangesSessionContext(s))
        \in BOOLEAN
  OBVIOUS
<1> HIDE DEF r, k, s, v
<1>8. w \in ProcRec
  BY <1>5, <1>7 DEF ProcRec
<1>9. Observe(v, s) \in ProcRec
  BY <1>5, ObserveType
<1>10. StopsKnown'
  BY <1>6 DEF StopsKnown
<1> HIDE DEF w
<1> QED
  BY <1>2, <1>6, <1>8, <1>9, <1>10, AwaitsType, ProcsType

(* A kill reaches the process whatever it runs by now.                     *)
LEMMA KillType ==
  ASSUME TypeOK, NEW p \in Pid, Kill(p),
         UNCHANGED <<conns, editor, entries>>, StopsKnown'
  PROVE  TypeOK'
<1> Types
  BY TypeParts
<1> DEFINE r == Head(procs[p].work)[1]
           k == Head(procs[p].work)[2]
           v == [procs[p] EXCEPT !.work = Tail(@)]
<1>0. procs[p] \in ProcRec
  BY DEF Types
<1>1. CASE procs[p].work = <<>>
  <2>1. procs' = [procs EXCEPT ![p] = procs[p]] /\ UNCHANGED <<reqs, armed>>
    BY <1>1 DEF Kill, Types
  <2> QED
    BY <1>0, <2>1, ProcsType
<1>2. CASE procs[p].work # <<>>
  <2>1. r \in Req /\ k \in Nat \ {0} /\ v \in ProcRec
    BY <1>0, <1>2, HeadOfWork
  <2>2. \/ /\ Awaits(r, k)
           /\ procs' = [procs EXCEPT ![p] = Sent(r, k + 1, v)]
           /\ reqs' = [reqs EXCEPT ![r] = Handler(r, k + 1, @)]
           /\ armed' = Timers(r, k + 1)
        \/ /\ procs' = [procs EXCEPT ![p] = v]
           /\ UNCHANGED <<reqs, armed>>
    BY <1>2 DEF Kill
  <2> HIDE DEF r, k, v
  <2> QED
    BY <2>1, <2>2, AwaitsType, ProcsType
<1> QED
  BY <1>1, <1>2

LEMMA StopType ==
  ASSUME TypeOK, NEW r \in Req,
         Stop(r) \/ StopFinds(r) \/ StopKills(r) \/ StopMisses(r)
  PROVE  TypeOK'
<1> Types /\ StopsKnown /\ \A s \in Req : Known(s)
  BY TypeParts
<1>1. StopsKnown'
  <2>1. CASE Stop(r)
    BY ZenonT(40), <2>1 DEF Stop, StopsKnown, Types
  <2>2. CASE StopFinds(r)
    <3>1. registered \in Conn \cup {None} /\ stops[r].pid # None
      BY <2>2 DEF StopFinds, StopsKnown, Types
    <3> QED
      BY ZenonT(40), <2>2, <3>1 DEF StopFinds, StopsKnown
  <2>3. CASE StopKills(r) \/ StopMisses(r)
    BY <2>3 DEF StopKills, StopMisses, StopEnds, StopsKnown
  <2> QED
    BY <2>1, <2>2, <2>3
<1>2. CASE Stop(r) \/ StopFinds(r) \/ StopMisses(r)
  <2>1. UNCHANGED <<conns, editor, armed, procs, reqs>>
    BY <1>2, Zenon DEF Stop, StopFinds, StopMisses
  <2>2. entries' \in [Req -> [on : BOOLEAN, fired : BOOLEAN,
                              pid : Pid \cup {None}]]
    <3>1. entries' = entries \/ entries' = [entries EXCEPT ![r].fired = TRUE]
      BY <1>2 DEF Stop, StopFinds, StopMisses
    <3> QED
      BY ZenonT(40), <3>1 DEF Types
  <2>3. Types'
    BY <2>1, <2>2 DEF Types, conns
  <2>4. \A s \in Req : Known(s)'
    BY <2>1 DEF Known, Active, HasPool, Holds
  <2> QED
    BY <1>1, <2>3, <2>4, TypeParts DEF TypeOK, Types, StopsKnown, Known
<1>3. CASE StopKills(r)
  <2>1. stops[r].pid \in Pid
    BY <1>3 DEF StopKills, StopsKnown
  <2> QED
    BY <1>1, <1>3, <2>1, KillType DEF StopKills
<1> QED
  BY <1>2, <1>3

(* Every variable keeps its type, and no step of a request, of the server  *)
(* or of /cancel works on a Connection, a pool or a process it has not     *)
(* got.                                                                    *)
THEOREM PoolsTyped == Spec => []TypeOK
<1>1. Init => TypeOK
  <2> SUFFICES ASSUME Init
               PROVE  TypeOK
    OBVIOUS
  <2>1. Types
    BY NoProcType DEF Init, Types, Life, NoReq, NoEntry, ReqRec, Pc
  <2>2. StopsKnown /\ \A r \in Req : Known(r)
    BY DEF Init, StopsKnown, Known, Active, HasPool, Holds, NoReq
  <2> QED
    BY <2>1, <2>2, TypeParts
<1>2. TypeOK /\ [Next]_vars => TypeOK'
  <2> SUFFICES ASSUME TypeOK, [Next]_vars
               PROVE  TypeOK'
    OBVIOUS
  <2>1. CASE UNCHANGED vars
    BY <2>1 DEF vars, conns, TypeOK, Active, HasPool, Holds
  <2>2. CASE Next
    BY <2>2, RegistryType, FindingType, OpeningType, EndingType, ServerType,
       StopType DEF Next, ReqStep
  <2> QED
    BY <2>1, <2>2
<1> QED
  BY <1>1, <1>2, PTL DEF Spec

-----------------------------------------------------------------------------
(* One pool per database, and nobody's pool is closed.  A request uses the *)
(* pool that is published; a published pool is named after its Connection, *)
(* its database and a request that is past building it; what was closed    *)
(* was never published or belongs to a Connection that is closing.         *)

Chosen(c, d) == IF d = Home THEN Base(c) ELSE extra[c][d]
Started(r) == reqs[r].pc \notin {"new", "find", "build"}

ChosenInv ==
  \A r \in Req : HasPool(r) => reqs[r].pool = Chosen(reqs[r].conn, DbOf[r])
BuildInv == \A r \in Req : reqs[r].pc = "build" => DbOf[r] # Home
NamesInv ==
  \A c \in Conn, d \in Db : extra[c][d] # None =>
    /\ extra[c][d].conn = c /\ extra[c][d].db = d
    /\ extra[c][d].by \in Req /\ Started(extra[c][d].by)
OpenInv == registered # None => life[registered] = "open"
AliveInv == \A r \in Req : Active(r) => life[reqs[r].conn] # "dropped"
ListInv ==
  \A c \in Conn : /\ \A P \in toClose[c] : P.conn = c
                  /\ toClose[c] # {} => life[c] = "pools"

Ending == {"pools", "closed", "dropped"}
Unpublished(P) ==
  P.by \in Req /\ Started(P.by) /\ extra[P.conn][P.db] # P
ShutInv == \A P \in shut : life[P.conn] \in Ending \/ Unpublished(P)

PoolsInv ==
  /\ ChosenInv /\ BuildInv /\ NamesInv /\ OpenInv /\ AliveInv /\ ListInv
  /\ ShutInv

(* Names stay good while the published pools are left alone and nobody who  *)
(* has started goes back.                                                  *)
LEMMA NamesKept ==
  ASSUME NamesInv, UNCHANGED extra, \A q \in Req : Started(q) => Started(q)'
  PROVE  NamesInv'
<1> SUFFICES ASSUME NEW c \in Conn, NEW d \in Db, extra'[c][d] # None
             PROVE  /\ extra'[c][d].conn = c /\ extra'[c][d].db = d
                    /\ extra'[c][d].by \in Req /\ Started(extra[c][d].by)'
  BY DEF NamesInv
<1>1. extra'[c][d] = extra[c][d]
  OBVIOUS
<1>2. /\ extra[c][d].conn = c /\ extra[c][d].db = d
      /\ extra[c][d].by \in Req /\ Started(extra[c][d].by)
  BY <1>1 DEF NamesInv
<1>3. Started(extra[c][d].by)'
  BY <1>1, <1>2 DEF Started
<1> QED
  BY <1>1, <1>2, <1>3

(* So does a pool that is shut and no longer, or not yet, published.       *)
LEMMA UnpublishedKept ==
  ASSUME NEW P, Unpublished(P), UNCHANGED extra,
         \A q \in Req : Started(q) => Started(q)'
  PROVE  Unpublished(P)'
<1>1. P.by \in Req /\ Started(P.by) /\ extra[P.conn][P.db] # P
  BY DEF Unpublished
<1>2. Started(P.by)'
  BY <1>1 DEF Started
<1> QED
  BY <1>1, <1>2 DEF Unpublished

(* A request that keeps its Connection and its pool, or leaves.            *)
Steady(q) ==
  \/ reqs'[q] = reqs[q]
  \/ Started(q)' /\ ~Active(q)'
  \/ /\ Started(q)' /\ Active(q) /\ (HasPool(q)' => HasPool(q))
     /\ reqs'[q].conn = reqs[q].conn /\ reqs'[q].pool = reqs[q].pool

(* Most steps know nothing of pools.                                       *)
LEMMA SteadyKeepsPools ==
  ASSUME TypeOK, PoolsInv, UNCHANGED conns, \A q \in Req : Steady(q)
  PROVE  PoolsInv'
<1>1. \A q \in Req : Started(q) => Started(q)'
  BY DEF Steady, Started, Active
<1>2. ChosenInv'
  BY DEF PoolsInv, ChosenInv, Chosen, Steady, HasPool, Active, conns
<1>3. BuildInv'
  BY DEF PoolsInv, BuildInv, Steady, Started
<1>4. NamesInv'
  BY <1>1, NamesKept DEF PoolsInv, conns
<1>5. OpenInv' /\ ListInv'
  BY DEF PoolsInv, OpenInv, ListInv, conns
<1>6. AliveInv'
  BY DEF PoolsInv, AliveInv, Steady, Active, conns
<1>7. ShutInv'
  <2> SUFFICES ASSUME NEW P \in shut'
               PROVE  life'[P.conn] \in Ending \/ Unpublished(P)'
    BY DEF ShutInv
  <2>1. P \in shut /\ UNCHANGED extra /\ life' = life
    BY DEF conns
  <2>2. life[P.conn] \in Ending \/ Unpublished(P)
    BY <2>1 DEF PoolsInv, ShutInv
  <2> QED
    BY <1>1, <2>1, <2>2, UnpublishedKept
<1> QED
  BY <1>2, <1>3, <1>4, <1>5, <1>6, <1>7 DEF PoolsInv

LEMMA ActiveConn ==
  ASSUME TypeOK, NEW r \in Req, Active(r)
  PROVE  reqs[r].conn \in Conn
<1>1. Known(r) /\ reqs[r] \in ReqRec
  BY TypeParts DEF Types
<1> QED
  BY <1>1 DEF Known, ReqRec

LEMMA SteadySteps ==
  ASSUME TypeOK, NEW r \in Req,
         \/ BuildFails(r) \/ TryLock(r) \/ Refuse(r) \/ Borrow(r)
         \/ AcquireFails(r) \/ StmtCancelled(r) \/ Answer(r) \/ ClientGone(r)
         \/ TimeLimit(r) \/ KillOwn(r) \/ KillOwnFails(r)
  PROVE  UNCHANGED conns /\ \A q \in Req : Steady(q)
<1> Types
  BY TypeParts
<1>1. UNCHANGED conns
  BY DEF BuildFails, TryLock, Refuse, Borrow, AcquireFails, StmtCancelled,
         Answer, ClientGone, TimeLimit, KillOwn, KillOwnFails, AfterKill, Fail
<1>2. \A q \in Req \ {r} : reqs'[q] = reqs[q]
  BY DEF BuildFails, TryLock, Refuse, Borrow, AcquireFails, StmtCancelled,
         Answer, ClientGone, TimeLimit, KillOwn, KillOwnFails, AfterKill, Fail,
         Goto, Types
<1> SUFFICES Steady(r)
  BY <1>1, <1>2 DEF Steady
<1>3. reqs[r] \in ReqRec
  BY DEF Types
<1>4. ASSUME NEW k \in Nat \ {0}, NEW q \in ReqRec, q.conn = reqs[r].conn,
             q.pool = reqs[r].pool, HasPool(r),
             reqs'[r] = Handler(r, k, q)
      PROVE  Steady(r)
  <2>1. /\ reqs'[r].conn = q.conn /\ reqs'[r].pool = q.pool
        /\ reqs'[r].pc \in {"await", "ended"}
    BY <1>4, HandlerType
  <2> QED
    BY <1>4, <2>1 DEF Steady, Started, Active, HasPool
<1>5. CASE BuildFails(r) \/ Refuse(r) \/ AcquireFails(r)
  BY <1>5, <1>3 DEF BuildFails, Refuse, AcquireFails, Fail, Goto, Steady,
     Started, Active, HasPool, Types, ReqRec
<1>6. CASE TryLock(r)
  <2>1. HasPool(r)
    BY <1>6 DEF TryLock, HasPool
  <2>2. CASE editor[reqs[r].conn] = None
    BY <1>6, <2>1, <2>2, <1>3 DEF TryLock, Goto, Steady, Started, Active,
       HasPool, Types, ReqRec
  <2>3. CASE editor[reqs[r].conn] # None
    <3> DEFINE q == [reqs[r] EXCEPT !.pid = editor[reqs[r].conn]]
    <3>1. reqs[r].conn \in Conn
      BY <2>1, ActiveConn DEF Active, HasPool
    <3>2. q \in ReqRec /\ q.conn = reqs[r].conn /\ q.pool = reqs[r].pool
      BY <1>3, <3>1 DEF ReqRec, Types
    <3>3. reqs' = [reqs EXCEPT ![r] = Handler(r, 1, q)]
      BY <1>6, <2>3 DEF TryLock
    <3> HIDE DEF q
    <3>4. reqs'[r] = Handler(r, 1, q)
      BY <3>3 DEF Types
    <3> QED
      BY <2>1, <3>2, <3>4, <1>4
  <2> QED
    BY <2>2, <2>3
<1>7. CASE Borrow(r)
  <2>1. PICK p \in Pid : reqs' = [reqs EXCEPT ![r] =
                                    Handler(r, 1, [reqs[r] EXCEPT !.pid = p])]
    BY <1>7 DEF Borrow
  <2> DEFINE q == [reqs[r] EXCEPT !.pid = p]
  <2>2. q \in ReqRec /\ q.conn = reqs[r].conn /\ q.pool = reqs[r].pool
    BY <1>3 DEF ReqRec
  <2>3. HasPool(r)
    BY <1>7 DEF Borrow, HasPool
  <2>4. reqs' = [reqs EXCEPT ![r] = Handler(r, 1, q)]
    BY <2>1
  <2> HIDE DEF q
  <2>5. reqs'[r] = Handler(r, 1, q)
    BY <2>4 DEF Types
  <2> QED
    BY <2>2, <2>3, <2>5, <1>4
<1>8. CASE StmtCancelled(r) \/ TimeLimit(r)
  BY <1>8, <1>3 DEF StmtCancelled, TimeLimit, Goto, Steady, Started, Active,
     HasPool, Types, ReqRec
<1>9. CASE Answer(r) \/ ClientGone(r)
  BY <1>9 DEF Answer, ClientGone, NoReq, Steady, Started, Active, Types
<1>10. CASE KillOwn(r) \/ KillOwnFails(r)
  <2>1. /\ HasPool(r) /\ Holds(r)
        /\ reqs'[r] = Handler(r, reqs[r].at + 1, reqs[r])
    BY <1>10 DEF KillOwn, KillOwnFails, AfterKill, HasPool, Holds, Types
  <2>2. reqs[r].at + 1 \in Nat \ {0}
    BY <2>1, HolderType
  <2> QED
    BY <2>1, <2>2, <1>3, <1>4
<1> QED
  BY <1>5, <1>6, <1>7, <1>8, <1>9, <1>10

LEMMA SteadyServer ==
  ASSUME TypeOK,
         \/ \E p \in Pid : ServerDoes(p) \/ PingReturned(p)
         \/ \E c \in Conn : IdleClose(c)
         \/ \E r \in Req : Stop(r) \/ StopFinds(r) \/ StopKills(r)
                           \/ StopMisses(r)
  PROVE  UNCHANGED conns /\ \A q \in Req : Steady(q)
<1> Types /\ StopsKnown
  BY TypeParts
<1>a. ASSUME NEW r \in Req, NEW k \in Nat \ {0}, Awaits(r, k),
             reqs' = [reqs EXCEPT ![r] = Handler(r, k + 1, @)]
      PROVE  \A q \in Req : Steady(q)
  <2>1. reqs[r] \in ReqRec /\ reqs[r].pc = "await"
    BY <1>a DEF Awaits, Types
  <2>2. reqs'[r] = Handler(r, k + 1, reqs[r]) /\ k + 1 \in Nat \ {0}
    BY <1>a DEF Types
  <2>3. /\ reqs'[r].conn = reqs[r].conn /\ reqs'[r].pool = reqs[r].pool
        /\ reqs'[r].pc \in {"await", "ended"}
    BY <2>1, <2>2, HandlerType
  <2>4. Steady(r)
    BY <2>1, <2>3 DEF Steady, Started, Active, HasPool
  <2>5. \A q \in Req \ {r} : Steady(q)
    BY <1>a DEF Steady, Types
  <2> QED
    BY <2>4, <2>5
<1>1. ASSUME NEW p \in Pid, procs[p].work # <<>>,
             LET r == Head(procs[p].work)[1]
                 k == Head(procs[p].work)[2]
             IN \/ Awaits(r, k) /\ reqs' = [reqs EXCEPT
                                              ![r] = Handler(r, k + 1, @)]
                \/ UNCHANGED reqs
      PROVE  \A q \in Req : Steady(q)
  <2> DEFINE r == Head(procs[p].work)[1]
             k == Head(procs[p].work)[2]
  <2>1. r \in Req /\ k \in Nat \ {0}
    BY <1>1, HeadOfWork DEF Types
  <2>2. \/ Awaits(r, k) /\ reqs' = [reqs EXCEPT ![r] = Handler(r, k + 1, @)]
        \/ UNCHANGED reqs
    BY <1>1
  <2> HIDE DEF r, k
  <2>3. CASE Awaits(r, k) /\ reqs' = [reqs EXCEPT ![r] = Handler(r, k + 1, @)]
    BY <1>a, <2>1, <2>3
  <2>4. CASE UNCHANGED reqs
    BY <2>4 DEF Steady
  <2> QED
    BY <2>2, <2>3, <2>4
<1>2. ASSUME NEW p \in Pid, ServerDoes(p)
      PROVE  UNCHANGED conns /\ \A q \in Req : Steady(q)
  BY <1>1, <1>2 DEF ServerDoes
<1>3. ASSUME NEW r \in Req, StopKills(r)
      PROVE  UNCHANGED conns /\ \A q \in Req : Steady(q)
  <2>1. stops[r].pid \in Pid /\ UNCHANGED conns
    BY <1>3 DEF StopKills, StopsKnown
  <2>2. CASE procs[stops[r].pid].work = <<>>
    BY <1>3, <2>1, <2>2 DEF StopKills, Kill, Steady
  <2>3. CASE procs[stops[r].pid].work # <<>>
    BY <1>1, <1>3, <2>1, <2>3 DEF StopKills, Kill
  <2> QED
    BY <2>1, <2>2, <2>3
<1>4. CASE \/ \E p \in Pid : PingReturned(p)
           \/ \E c \in Conn : IdleClose(c)
           \/ \E r \in Req : Stop(r) \/ StopFinds(r) \/ StopMisses(r)
  BY <1>4 DEF PingReturned, IdleClose, Stop, StopFinds, StopMisses, Steady
<1> QED
  BY <1>2, <1>3, <1>4

LEMMA RegistryKeepsPools ==
  ASSUME TypeOK, PoolsInv,
         \/ Connect \/ Disconnect
         \/ \E c \in Conn : CloseStep(c) \/ DropConnection(c)
  PROVE  PoolsInv'
<1> Types
  BY TypeParts
<1>1. UNCHANGED <<reqs, extra>>
  BY DEF Connect, Disconnect, CloseStep, CloseSession, SessionClosed,
         ClosePool, PoolDrained, DropConnection
<1>2. ChosenInv' /\ BuildInv' /\ NamesInv'
  <2>1. ChosenInv' /\ BuildInv'
    BY <1>1 DEF PoolsInv, ChosenInv, Chosen, BuildInv, HasPool
  <2>2. \A q \in Req : Started(q) => Started(q)'
    BY <1>1 DEF Started
  <2>3. NamesInv'
    BY <1>1, <2>2, NamesKept DEF PoolsInv
  <2> QED
    BY <2>1, <2>3
<1>3. ASSUME NEW P
      PROVE  Unpublished(P)' <=> Unpublished(P)
  BY <1>1, Zenon DEF Unpublished, Started
<1>4. \A r \in Req : Active(r)' <=> Active(r)
  BY <1>1 DEF Active
<1>5. \A P \in shut : P.conn \in Conn
  BY DEF Types, PoolId
<1>6. CASE Connect \/ Disconnect
  <2>1. \A c \in Conn : /\ life[c] \in Ending => life'[c] = life[c]
                        /\ life'[c] = "dropped" => life[c] = "dropped"
    BY <1>6 DEF Connect, Disconnect, Retire, PoolsInv, OpenInv, Types, Ending
  <2>2. UNCHANGED <<shut, toClose>> /\ OpenInv'
    <3>1. CASE Connect
      <4>1. PICK c \in Conn : /\ registered' = c
                              /\ life' = [Retire(life) EXCEPT ![c] = "open"]
        BY <3>1 DEF Connect
      <4> QED
        BY <3>1, <4>1, RetireType DEF Connect, OpenInv
    <3>2. CASE Disconnect
      BY <3>2 DEF Disconnect, OpenInv
    <3> QED
      BY <1>6, <3>1, <3>2
  <2>3. ShutInv'
    BY <1>3, <1>5, <2>1, <2>2 DEF PoolsInv, ShutInv
  <2>4. AliveInv'
    BY <1>1, <1>4, <2>1, ActiveConn DEF PoolsInv, AliveInv
  <2>5. ListInv'
    BY <2>1, <2>2 DEF PoolsInv, ListInv, Ending
  <2> QED
    BY <1>2, <2>2, <2>3, <2>4, <2>5 DEF PoolsInv
<1>7. ASSUME NEW c \in Conn, CloseSession(c) \/ SessionClosed(c)
      PROVE  PoolsInv'
  <2>1. \/ life' = [life EXCEPT ![c] = "closing"] /\ UNCHANGED toClose
        \/ life' = [life EXCEPT ![c] = "pools"]
           /\ toClose' = [toClose EXCEPT ![c] = AllBackends(c)]
    BY <1>7 DEF CloseSession, SessionClosed, ListPools
  <2>2. life[c] \in {"session", "closing"} /\ UNCHANGED <<shut, registered>>
    BY <1>7 DEF CloseSession, SessionClosed
  <2>3. OpenInv' /\ AliveInv'
    BY <1>1, <1>4, <2>1, <2>2, ActiveConn
       DEF PoolsInv, OpenInv, AliveInv, Types
  <2>4. \A P \in AllBackends(c) : P.conn = c
    BY DEF AllBackends, Base, PoolsInv, NamesInv
  <2>5. ListInv'
    <3>1. toClose[c] = {}
      BY <2>2 DEF PoolsInv, ListInv
    <3> QED
      BY <2>1, <2>4, <3>1 DEF PoolsInv, ListInv, Types
  <2>6. ShutInv'
    BY <1>3, <1>5, <2>1, <2>2 DEF PoolsInv, ShutInv, Ending, Types
  <2> QED
    BY <1>2, <2>3, <2>5, <2>6 DEF PoolsInv
<1>8. ASSUME NEW c \in Conn, NEW P \in toClose[c], ClosePool(c, P)
      PROVE  PoolsInv'
  <2>1. UNCHANGED <<registered, life, toClose>> /\ shut' = shut \cup {P}
        /\ life[c] = "pools" /\ P.conn = c
    BY <1>8 DEF ClosePool, PoolsInv, ListInv
  <2>2. ShutInv'
    BY <1>3, <2>1 DEF PoolsInv, ShutInv, Ending
  <2> QED
    BY <1>1, <1>2, <1>4, <2>1, <2>2
       DEF PoolsInv, OpenInv, AliveInv, ListInv
<1>9. ASSUME NEW c \in Conn, NEW P \in toClose[c], PoolDrained(c, P)
      PROVE  PoolsInv'
  <2>1. /\ UNCHANGED <<registered, shut>>
        /\ toClose' = [toClose EXCEPT ![c] = toClose[c] \ {P}]
        /\ life' = life \/ life' = [life EXCEPT ![c] = "closed"]
    BY <1>9 DEF PoolDrained
  <2>2. life[c] = "pools"
    BY <1>9 DEF PoolsInv, ListInv
  <2>3. toClose[c] # {P} => life' = life
    BY <1>9 DEF PoolDrained
  <2>4. OpenInv' /\ AliveInv'
    BY <1>1, <1>4, <2>1, <2>2, ActiveConn
       DEF PoolsInv, OpenInv, AliveInv, Types
  <2>5. ListInv'
    BY <2>1, <2>2, <2>3 DEF PoolsInv, ListInv, Types
  <2>6. ShutInv'
    BY <1>3, <1>5, <2>1, <2>2 DEF PoolsInv, ShutInv, Ending, Types
  <2> QED
    BY <1>2, <2>4, <2>5, <2>6 DEF PoolsInv
<1>10. ASSUME NEW c \in Conn, DropConnection(c)
       PROVE  PoolsInv'
  <2>1. /\ UNCHANGED <<registered, toClose>>
        /\ life' = [life EXCEPT ![c] = "dropped"]
        /\ shut' = shut \cup AllBackends(c)
        /\ life[c] = "closed"
        /\ \A r \in Req : Active(r) => reqs[r].conn # c
    BY <1>10 DEF DropConnection
  <2>2. \A P \in AllBackends(c) : P.conn = c
    BY DEF AllBackends, Base, PoolsInv, NamesInv
  <2>3. OpenInv' /\ AliveInv' /\ ListInv'
    BY <1>1, <1>4, <2>1, ActiveConn
       DEF PoolsInv, OpenInv, AliveInv, ListInv, Types
  <2>4. ShutInv'
    BY <1>3, <1>5, <2>1, <2>2 DEF PoolsInv, ShutInv, Ending, Types
  <2> QED
    BY <1>2, <2>3, <2>4 DEF PoolsInv
<1> QED
  BY <1>6, <1>7, <1>8, <1>9, <1>10 DEF CloseStep

(* A request that is new, that finds a pool, or that publishes one.        *)
LEMMA FindingKeepsPools ==
  ASSUME TypeOK, PoolsInv, NEW r \in Req,
         Arrive(r) \/ FindPool(r) \/ Publish(r)
  PROVE  PoolsInv'
<1> Types
  BY TypeParts
<1>0. reqs[r] \in ReqRec /\ DbOf[r] \in Db
  BY RequestAssumption DEF Types
<1>1. \A q \in Req \ {r} : reqs'[q] = reqs[q]
  BY DEF Arrive, FindPool, Publish, Types
<1>2. \A q \in Req : Started(q) => Started(q)'
  BY <1>1 DEF Arrive, FindPool, Publish, Started
<1>3. UNCHANGED <<registered, life, toClose>>
  BY DEF Arrive, FindPool, Publish, conns
<1>4. OpenInv' /\ ListInv'
  BY <1>3 DEF PoolsInv, OpenInv, ListInv
<1>5. CASE Arrive(r)
  <2>1. UNCHANGED <<extra, shut>>
    BY <1>5 DEF Arrive, conns
  <2>2. reqs'[r].pc = "find" /\ reqs'[r].conn = registered /\ registered # None
    BY <1>5, <1>0 DEF Arrive, Types, ReqRec
  <2>3. ChosenInv' /\ BuildInv'
    BY <1>1, <2>1, <2>2 DEF PoolsInv, ChosenInv, Chosen, BuildInv, HasPool
  <2>4. NamesInv' /\ ShutInv'
    BY <1>2, <1>3, <2>1, Zenon
       DEF PoolsInv, NamesInv, ShutInv, Unpublished
  <2>5. AliveInv'
    BY <1>1, <1>3, <2>2 DEF PoolsInv, AliveInv, OpenInv, Active
  <2> QED
    BY <1>4, <2>3, <2>4, <2>5 DEF PoolsInv
<1>6. CASE FindPool(r)
  <2>1. UNCHANGED <<extra, shut>>
    BY <1>6 DEF FindPool, conns
  <2>2. Active(r) /\ reqs[r].conn \in Conn
    BY <1>6, ActiveConn DEF FindPool, Active
  <2>3. LET P == Chosen(reqs[r].conn, DbOf[r])
        IN reqs' = [reqs EXCEPT ![r].pc = IF P = None THEN "build" ELSE Next1(r),
                                ![r].pool = P]
    BY <1>6 DEF FindPool, Chosen
  <2>4. /\ reqs'[r].pool = Chosen(reqs[r].conn, DbOf[r])
        /\ reqs'[r].conn = reqs[r].conn
        /\ reqs'[r].pc = "build" => Chosen(reqs[r].conn, DbOf[r]) = None
        /\ reqs'[r].pc \in {"build", "lock", "acquire"}
    BY <1>0, <2>3 DEF Types, ReqRec, Next1
  <2>5. ChosenInv'
    BY <1>1, <2>1, <2>4 DEF PoolsInv, ChosenInv, Chosen, HasPool
  <2>6. BuildInv'
    BY <1>1, <2>2, <2>4, BaseType, PoolAssumption
       DEF PoolsInv, BuildInv, Chosen
  <2>7. NamesInv' /\ ShutInv'
    BY <1>2, <1>3, <2>1, Zenon
       DEF PoolsInv, NamesInv, ShutInv, Unpublished
  <2>8. AliveInv'
    BY <1>1, <1>3, <2>2, <2>4 DEF PoolsInv, AliveInv, Active
  <2> QED
    BY <1>4, <2>5, <2>6, <2>7, <2>8 DEF PoolsInv
<1>7. CASE Publish(r)
  <2> DEFINE c == reqs[r].conn
             d == DbOf[r]
             P == IF extra[c][d] = None THEN Built(r) ELSE extra[c][d]
  <2>1. Active(r) /\ c \in Conn /\ d \in Db /\ d # Home
    BY <1>0, <1>7, ActiveConn DEF Publish, Active, PoolsInv, BuildInv
  <2>2. /\ extra' = [extra EXCEPT ![c][d] = P]
        /\ shut' = IF extra[c][d] = None THEN shut ELSE shut \cup {Built(r)}
        /\ reqs' = [reqs EXCEPT ![r].pc = Next1(r), ![r].pool = P]
        /\ reqs[r].pc = "build"
    BY <1>7 DEF Publish
  <2>3. /\ Built(r).conn = c /\ Built(r).db = d /\ Built(r).by = r
        /\ Built(r) \in PoolId
    BY <2>1 DEF Built, PoolId
  <2>4. P # None /\ (extra[c][d] # None => P = extra[c][d])
    BY <2>3, PoolAssumption
  <2>5. /\ reqs'[r].pool = P /\ reqs'[r].conn = c
        /\ reqs'[r].pc \in {"lock", "acquire"}
    BY <1>0, <2>2 DEF Types, ReqRec, Next1
  <2>6. Started(r)' /\ ~Started(r)
    BY <2>2, <2>5 DEF Started
  <2>7. /\ extra'[c][d] = P
        /\ \A b \in Conn, e \in Db :
             b # c \/ e # d => extra'[b][e] = extra[b][e]
    BY <2>1, <2>2 DEF Types
  <2> HIDE DEF P
  <2>8. ChosenInv'
    <3>1. ASSUME NEW q \in Req, HasPool(q)'
          PROVE  (reqs[q].pool = Chosen(reqs[q].conn, DbOf[q]))'
      <4>1. CASE q = r
        BY <2>1, <2>5, <2>7, <4>1 DEF Chosen
      <4>2. CASE q # r
        <5>1. reqs'[q] = reqs[q] /\ HasPool(q)
          BY <1>1, <3>1, <4>2 DEF HasPool
        <5>2. reqs[q].pool = Chosen(reqs[q].conn, DbOf[q])
          BY <5>1 DEF PoolsInv, ChosenInv
        <5>3. reqs[q].conn \in Conn /\ DbOf[q] \in Db /\ reqs[q].pool # None
          BY <5>1, ActiveConn, TypeParts, RequestAssumption
             DEF HasPool, Active, Known
        <5> QED
          BY <2>4, <2>7, <5>1, <5>2, <5>3 DEF Chosen, Base
      <4> QED
        BY <4>1, <4>2
    <3> QED
      BY <3>1 DEF ChosenInv
  <2>9. BuildInv'
    BY <1>1, <2>5 DEF PoolsInv, BuildInv
  <2>10. AliveInv'
    BY <1>1, <1>3, <2>1, <2>5 DEF PoolsInv, AliveInv, Active
  <2>11. NamesInv'
    BY <1>2, <2>3, <2>4, <2>6, <2>7 DEF PoolsInv, NamesInv, P
  <2>12. ShutInv'
    <3>1. ASSUME NEW S \in shut'
          PROVE  life[S.conn] \in Ending \/ Unpublished(S)'
      <4>1. CASE S = Built(r)
        BY <2>1, <2>2, <2>3, <2>6, <2>7, <3>1, <4>1
           DEF Unpublished, PoolsInv, ShutInv, NamesInv, P
      <4>2. CASE S \in shut /\ S # Built(r)
        BY <1>2, <2>3, <2>6, <2>7, <4>2
           DEF Unpublished, PoolsInv, ShutInv, P, Types, PoolId
      <4> QED
        BY <2>2, <3>1, <4>1, <4>2
    <3> QED
      BY <1>3, <3>1 DEF ShutInv
  <2> QED
    BY <1>4, <2>8, <2>9, <2>10, <2>11, <2>12 DEF PoolsInv
<1> QED
  BY <1>5, <1>6, <1>7

LEMMA PoolsInvariant == Spec => []PoolsInv
<1>1. Init => PoolsInv
  BY DEF Init, PoolsInv, ChosenInv, BuildInv, NamesInv, OpenInv, AliveInv,
         ListInv, ShutInv, HasPool, Active, NoReq
<1>2. TypeOK /\ PoolsInv /\ [Next]_vars => PoolsInv'
  <2> SUFFICES ASSUME TypeOK, PoolsInv, [Next]_vars
               PROVE  PoolsInv'
    OBVIOUS
  <2>1. CASE UNCHANGED vars
    BY <2>1, SteadyKeepsPools DEF vars, Steady
  <2>2. CASE Next
    BY <2>2, SteadySteps, SteadyServer, SteadyKeepsPools, RegistryKeepsPools,
       FindingKeepsPools DEF Next, ReqStep
  <2> QED
    BY <2>1, <2>2
<1> QED
  BY <1>1, <1>2, PoolsTyped, PTL DEF Spec

(* Two requests about one database of one Connection use one pool, however *)
(* many of them built one at the same time (backend_for publishes under    *)
(* the write lock and keeps what it finds).                                *)
THEOREM OnePoolPerDatabase == Spec => []SamePool
<1>1. PoolsInv => SamePool
  BY DEF PoolsInv, ChosenInv, SamePool
<1> QED
  BY <1>1, PoolsInvariant, PTL

(* The pool that the loser of that race closes is used by nobody: a        *)
(* request finds its pool closed only when its Connection is closing.      *)
THEOREM PoolsStayOpen == Spec => []PoolStaysOpen
<1>1. TypeOK /\ PoolsInv => PoolStaysOpen
  <2> SUFFICES ASSUME TypeOK, PoolsInv, NEW r \in Req, HasPool(r),
                      reqs[r].pool \in shut
               PROVE  life[reqs[r].conn] \in {"pools", "closed"}
    BY DEF PoolStaysOpen
  <2> DEFINE c == reqs[r].conn
             P == reqs[r].pool
  <2>1. Active(r) /\ c \in Conn /\ P # None /\ DbOf[r] \in Db
    BY ActiveConn, TypeParts, RequestAssumption DEF HasPool, Active, Known
  <2>2. P = Chosen(c, DbOf[r])
    BY DEF PoolsInv, ChosenInv
  <2>3. CASE DbOf[r] = Home
    <3>1. P.conn = c /\ P.by \notin Req
      BY <2>2, <2>3, NoneAssumption DEF Chosen, Base
    <3> QED
      BY <2>1, <3>1 DEF PoolsInv, ShutInv, Unpublished, Ending, AliveInv
  <2>4. CASE DbOf[r] # Home
    <3>1. P = extra[c][DbOf[r]]
      BY <2>2, <2>4 DEF Chosen
    <3>2. P.conn = c /\ P.db = DbOf[r]
      BY <2>1, <3>1 DEF PoolsInv, NamesInv
    <3>3. ~Unpublished(P)
      BY <3>1, <3>2 DEF Unpublished
    <3> QED
      BY <2>1, <3>2, <3>3 DEF PoolsInv, ShutInv, Ending, AliveInv
  <2> QED
    BY <2>3, <2>4
<1> QED
  BY <1>1, PoolsInvariant, PoolsTyped, PTL

-----------------------------------------------------------------------------
(* In-flight entries.                                                      *)

(* No step but an answer makes a request "done", and that one removes its  *)
(* entry; only an arrival makes one.                                       *)
LEMMA EntriesStep ==
  ASSUME TypeOK, EntriesEnd, [Next]_vars, NEW q \in Req
  PROVE  entries'[q].on => reqs'[q].pc # "done"
<1> DEFINE Goal == entries'[q].on => reqs'[q].pc # "done"
<1>0. Types /\ StopsKnown
  BY TypeParts
<1>1. CASE UNCHANGED <<reqs, entries>>
  BY <1>1 DEF EntriesEnd
<1>2. ASSUME NEW r \in Req, NEW w, w.pc # "done",
             reqs' = [reqs EXCEPT ![r] = w],
             q # r => entries'[q] = entries[q]
      PROVE  Goal
  <2>1. CASE q = r
    BY <1>0, <1>2, <2>1 DEF Types
  <2>2. CASE q # r
    BY <1>0, <1>2, <2>2 DEF Types, EntriesEnd
  <2> QED
    BY <2>1, <2>2
<1>3. ASSUME NEW r \in Req, NEW k \in Nat \ {0}, NEW w \in ReqRec,
             reqs' = [reqs EXCEPT ![r] = Handler(r, k, w)],
             \/ UNCHANGED entries
             \/ \E p : entries' = [entries EXCEPT ![r].pid = p]
      PROVE  Goal
  <2>1. Handler(r, k, w).pc # "done"
    BY DEF Handler, ReqRec
  <2>2. q # r => entries'[q] = entries[q]
    BY <1>0, <1>3 DEF Types
  <2> HIDE DEF Goal
  <2> QED
    BY <1>2, <1>3, <2>1, <2>2
<1>4. ASSUME NEW r \in Req, reqs[r] \in ReqRec
      PROVE  ReqStep(r) \/ Arrive(r) \/ ClientGone(r) => Goal
  <2> DEFINE w == reqs[r]
  <2>1. ASSUME NEW pc, pc # "done", reqs' = [reqs EXCEPT ![r].pc = pc],
               q # r => entries'[q] = entries[q]
        PROVE  Goal
    <3>1. reqs' = [reqs EXCEPT ![r] = [w EXCEPT !.pc = pc]]
      BY <2>1
    <3>2. [w EXCEPT !.pc = pc].pc # "done"
      BY <1>4, <2>1 DEF ReqRec
    <3> HIDE DEF Goal
    <3> QED
      BY <1>2, <2>1, <3>1, <3>2
  <2>2. ASSUME Arrive(r)
        PROVE  Goal
    <3>1. reqs' = [reqs EXCEPT ![r] =
                     [w EXCEPT !.pc = "find", !.conn = registered]]
      BY <2>2 DEF Arrive
    <3>2. [w EXCEPT !.pc = "find", !.conn = registered].pc # "done"
      BY <1>4 DEF ReqRec
    <3>3. q # r => entries'[q] = entries[q]
      BY <1>0, <2>2 DEF Arrive, Types
    <3> HIDE DEF Goal
    <3> QED
      BY <1>2, <3>1, <3>2, <3>3
  <2>3. ASSUME NEW pc, NEW P, pc # "done", UNCHANGED entries,
               reqs' = [reqs EXCEPT ![r].pc = pc, ![r].pool = P]
        PROVE  Goal
    <3>1. reqs' = [reqs EXCEPT ![r] = [w EXCEPT !.pc = pc, !.pool = P]]
      BY <2>3
    <3>2. [w EXCEPT !.pc = pc, !.pool = P].pc # "done"
      BY <1>4, <2>3 DEF ReqRec
    <3> HIDE DEF Goal
    <3> QED
      BY <1>2, <2>3, <3>1, <3>2
  <2>4. ASSUME FindPool(r) \/ Publish(r)
        PROVE  Goal
    <3>1. Next1(r) # "done"
      BY DEF Next1
    <3> HIDE DEF Goal
    <3>2. CASE FindPool(r)
      <4> DEFINE P == IF DbOf[r] = Home THEN Base(reqs[r].conn)
                      ELSE extra[reqs[r].conn][DbOf[r]]
                 pc == IF P = None THEN "build" ELSE Next1(r)
      <4>1. /\ reqs' = [reqs EXCEPT ![r].pc = pc, ![r].pool = P]
            /\ UNCHANGED entries
        BY <3>2 DEF FindPool
      <4>2. pc # "done"
        BY <3>1
      <4> HIDE DEF P, pc
      <4> QED
        BY <2>3, <4>1, <4>2
    <3>3. CASE Publish(r)
      <4>1. PICK P : reqs' = [reqs EXCEPT ![r].pc = Next1(r), ![r].pool = P]
        BY <3>3 DEF Publish
      <4>2. UNCHANGED entries
        BY <3>3 DEF Publish
      <4> QED
        BY <2>3, <3>1, <4>1, <4>2
    <3> QED
      BY <2>4, <3>2, <3>3
  <2>5. ASSUME BuildFails(r) \/ Refuse(r) \/ AcquireFails(r) \/ TimeLimit(r)
        PROVE  Goal
    <3>1. PICK pc \in {"ended", "kill"} : reqs' = [reqs EXCEPT ![r].pc = pc]
      BY <2>5 DEF BuildFails, Refuse, AcquireFails, TimeLimit, Fail, Goto
    <3>2. UNCHANGED entries
      BY <2>5 DEF BuildFails, Refuse, AcquireFails, TimeLimit, Fail
    <3> HIDE DEF Goal
    <3> QED
      BY <2>1, <3>1, <3>2
  <2>6. ASSUME StmtCancelled(r)
        PROVE  Goal
    <3>1. reqs' = [reqs EXCEPT ![r] = [w EXCEPT !.pc = "ended",
                                                !.pid = None]]
      BY <2>6 DEF StmtCancelled
    <3>2. [w EXCEPT !.pc = "ended", !.pid = None].pc # "done"
      BY <1>4 DEF ReqRec
    <3>3. UNCHANGED entries
      BY <2>6 DEF StmtCancelled
    <3> HIDE DEF Goal
    <3> QED
      BY <1>2, <3>1, <3>2, <3>3
  <2>7. ASSUME Answer(r)
        PROVE  Goal
    BY <1>0, <2>7 DEF Answer, NoReq, NoEntry, EntriesEnd, Types
  <2>8. ASSUME ClientGone(r)
        PROVE  Goal
    <3>1. reqs' = [reqs EXCEPT ![r] = NoReq("gone")] /\ UNCHANGED entries
      BY <2>8 DEF ClientGone
    <3>2. NoReq("gone").pc # "done"
      BY DEF NoReq
    <3> HIDE DEF Goal
    <3> QED
      BY <1>2, <3>1, <3>2
  <2>9. ASSUME TryLock(r)
        PROVE  Goal
    <3> DEFINE c == reqs[r].conn
               p == editor[c]
    <3>1. CASE p = None
      <4>1. reqs' = [reqs EXCEPT ![r].pc = "acquire"] /\ UNCHANGED entries
        BY <2>9, <3>1 DEF TryLock, Goto
      <4> HIDE DEF Goal
      <4> QED
        BY <2>1, <4>1
    <3>2. CASE p # None
      <4>1. /\ reqs' = [reqs EXCEPT ![r] =
                          Handler(r, 1, [w EXCEPT !.pid = p])]
            /\ entries' = [entries EXCEPT ![r].pid = p]
        BY <2>9, <3>2 DEF TryLock
      <4>2. c \in Conn
        BY <1>0, <2>9, ActiveConn DEF TryLock, Active, Types, Known
      <4>3. [w EXCEPT !.pid = p] \in ReqRec
        BY <1>0, <1>4, <4>2 DEF Types, ReqRec
      <4> DEFINE u == [w EXCEPT !.pid = p]
                 n == 1
      <4>4. u \in ReqRec /\ n \in Nat \ {0}
        BY <4>3
      <4>5. /\ reqs' = [reqs EXCEPT ![r] = Handler(r, n, u)]
            /\ \E z : entries' = [entries EXCEPT ![r].pid = z]
        BY <4>1
      <4> HIDE DEF Goal, u, n
      <4> QED
        BY <1>3, <4>4, <4>5
    <3> QED
      BY <3>1, <3>2
  <2>10. ASSUME Borrow(r)
         PROVE  Goal
    <3>1. PICK p \in Pid :
            /\ reqs' = [reqs EXCEPT ![r] =
                          Handler(r, 1, [@ EXCEPT !.pid = p])]
            /\ entries' = [entries EXCEPT ![r].pid = p]
      BY <2>10 DEF Borrow
    <3>2. reqs' = [reqs EXCEPT ![r] = Handler(r, 1, [w EXCEPT !.pid = p])]
      BY <3>1
    <3>3. [w EXCEPT !.pid = p] \in ReqRec
      BY <1>4 DEF ReqRec
    <3> DEFINE u == [w EXCEPT !.pid = p]
               n == 1
    <3>4. u \in ReqRec /\ n \in Nat \ {0}
      BY <3>3
    <3>5. /\ reqs' = [reqs EXCEPT ![r] = Handler(r, n, u)]
          /\ \E z : entries' = [entries EXCEPT ![r].pid = z]
      BY <3>1, <3>2
    <3> HIDE DEF Goal, u, n
    <3> QED
      BY <1>3, <3>4, <3>5
  <2>11. ASSUME KillOwn(r) \/ KillOwnFails(r)
         PROVE  Goal
    <3> DEFINE k == reqs[r].at + 1
    <3>1. reqs' = [reqs EXCEPT ![r] = Handler(r, k, w)]
      BY <2>11 DEF KillOwn, KillOwnFails, AfterKill
    <3>2. UNCHANGED entries
      BY <2>11 DEF KillOwn, KillOwnFails, AfterKill
    <3>3. k \in Nat \ {0}
      BY <1>4 DEF ReqRec
    <3> HIDE DEF Goal, w, k
    <3> QED
      BY <1>3, <1>4, <3>1, <3>2, <3>3 DEF w
  <2> HIDE DEF Goal
  <2> QED
    BY <2>2, <2>4, <2>5, <2>6, <2>7, <2>8, <2>9, <2>10, <2>11 DEF ReqStep
<1>5. ASSUME NEW p \in Pid,
             ServerDoes(p) \/ (UNCHANGED entries /\ Kill(p))
      PROVE  Goal
  <2>1. UNCHANGED entries
    BY <1>5 DEF ServerDoes
  <2>2. CASE UNCHANGED reqs
    BY <1>1, <2>1, <2>2
  <2>3. CASE reqs' # reqs
    <3> DEFINE r == Head(procs[p].work)[1]
               k == Head(procs[p].work)[2]
    <3>1. procs[p].work # <<>>
      BY <1>5, <2>3 DEF ServerDoes, Kill
    <3>a. procs[p] \in ProcRec
      BY <1>0 DEF Types
    <3>b. r \in Req /\ k \in Nat \ {0}
      BY <3>a, <3>1, HeadOfWork
    <3>2. r \in Req /\ k + 1 \in Nat \ {0}
      BY <3>b
    <3>3. reqs' = [reqs EXCEPT ![r] = Handler(r, k + 1, reqs[r])]
      BY <1>5, <2>3, <3>1 DEF ServerDoes, Kill
    <3>4. reqs[r] \in ReqRec
      BY <1>0, <3>2 DEF Types
    <3> DEFINE n == k + 1
    <3> HIDE DEF Goal, r, n
    <3> QED
      BY <1>3, <2>1, <3>2, <3>3, <3>4 DEF n
  <2> QED
    BY <2>2, <2>3
<1>6. \A r \in Req : reqs[r] \in ReqRec
  BY <1>0 DEF Types
<1>7. ASSUME NEW r \in Req, Stop(r)
      PROVE  Goal
  <2>1. reqs' = reqs /\ (entries'[q].on => entries[q].on)
    BY <1>0, <1>7 DEF Stop, Types
  <2> QED
    BY <2>1 DEF EntriesEnd
<1>8. ASSUME NEW r \in Req, StopFinds(r) \/ StopKills(r) \/ StopMisses(r)
      PROVE  Goal
  <2>1. CASE StopFinds(r) \/ StopMisses(r)
    BY <1>1, <2>1 DEF StopFinds, StopMisses
  <2>2. CASE StopKills(r)
    <3>1. stops[r].pid \in Pid
      BY <1>0, <2>2 DEF StopKills, StopsKnown, Types
    <3> HIDE DEF Goal
    <3> QED
      BY <1>5, <2>2, <3>1 DEF StopKills
  <2> QED
    BY <1>8, <2>1, <2>2
<1>9. ASSUME Connect \/ Disconnect \/ (\E c \in Conn :
               CloseStep(c) \/ DropConnection(c) \/ IdleClose(c))
             \/ (\E p \in Pid : PingReturned(p)) \/ UNCHANGED vars
      PROVE  Goal
  <2>1. UNCHANGED <<reqs, entries>>
    BY <1>9 DEF Connect, Disconnect, CloseStep, CloseSession, SessionClosed,
       ClosePool, PoolDrained, DropConnection, IdleClose, PingReturned, vars
  <2> QED
    BY <1>1, <2>1
<1> HIDE DEF Goal
<1>10. Goal
  BY <1>4, <1>5, <1>6, <1>7, <1>8, <1>9 DEF Next
<1> QED
  BY <1>10 DEF Goal

(* A run that is answered, with or without an error, leaves no entry in    *)
(* in_flight (query_handler removes it after every way out of              *)
(* execute_batch); what a client abandons is not covered.                  *)
THEOREM EntriesEndWithRequests == Spec => []EntriesEnd
<1>1. Init => EntriesEnd
  BY DEF Init, EntriesEnd, NoReq, NoEntry
<1>2. TypeOK /\ EntriesEnd /\ [Next]_vars => EntriesEnd'
  BY EntriesStep DEF EntriesEnd
<1> QED
  BY <1>1, <1>2, PoolsTyped, PTL DEF Spec
-----------------------------------------------------------------------------
(* What a process carries.  A process that is not marked carries neither a *)
(* transaction nor a SET, unless a statement on it was abandoned; and what *)
(* is in the pool, or on its way back, is not marked.                      *)

CleanProc(v) ==
  /\ ~v.drop /\ ~v.tainted => ~v.txn /\ ~v.moved
  /\ v.st \in {"idle", "back"} => ~v.drop

CleanInv == \A p \in Pid : CleanProc(procs[p])

LEMMA CleanClosed ==
  ASSUME NEW v
  PROVE  CleanProc(Closed(v))
BY DEF CleanProc, Closed, NoProc

LEMMA CleanLeft ==
  ASSUME NEW r \in Req, NEW v \in ProcRec, CleanProc(v)
  PROVE  CleanProc(Left(r, v))
BY CleanClosed DEF Left, Returned, CleanProc, ProcRec

LEMMA CleanSent ==
  ASSUME NEW r \in Req, NEW k \in Nat \ {0}, NEW v \in ProcRec, CleanProc(v)
  PROVE  CleanProc(Sent(r, k, v))
BY CleanLeft DEF Sent, CleanProc, ProcRec

LEMMA CleanTail ==
  ASSUME NEW v \in ProcRec, CleanProc(v)
  PROVE  CleanProc([v EXCEPT !.work = Tail(@)])
BY DEF CleanProc, ProcRec

LEMMA CleanPinged ==
  ASSUME NEW v \in ProcRec, CleanProc(v), v.st = "back"
  PROVE  CleanProc([v EXCEPT !.st = "idle"])
BY DEF CleanProc, ProcRec

(* What a statement leaves behind is observed by the handler that waits    *)
(* for it, or else taints the process.                                     *)
LEMMA CleanExecuted ==
  ASSUME NEW v \in ProcRec, CleanProc(v), NEW s
  PROVE  LET w == [Executed(v, s) EXCEPT !.work = Tail(@)] IN
         /\ v.st = "held" => CleanProc(Observe(w, s))
         /\ CleanProc([w EXCEPT !.tainted =
              @ \/ TxnEffect(s, MySql) # "None" \/ ChangesSessionContext(s)])
<1> DEFINE w == [Executed(v, s) EXCEPT !.work = Tail(@)]
           t == CASE TxnEffect(s, MySql) = "Begin" -> TRUE
                  [] TxnEffect(s, MySql) = "End"   -> FALSE
                  [] OTHER                         -> v.txn
           u == [w EXCEPT !.tainted =
              @ \/ TxnEffect(s, MySql) # "None" \/ ChangesSessionContext(s)]
<1>1. /\ w.txn = t /\ w.moved = (v.moved \/ ChangesSessionContext(s))
      /\ w.drop = v.drop /\ w.tainted = v.tainted /\ w.st = v.st
  BY DEF Executed, ProcRec
<1>2. t => v.txn \/ TxnEffect(s, MySql) = "Begin"
  OBVIOUS
<1>3. DOMAIN w = {"pool", "st", "drop", "txn", "moved", "tainted", "work"}
  BY DEF Executed, ProcRec
<1>4. /\ Observe(w, s).drop = (\/ v.drop \/ TxnEffect(s, MySql) = "Begin"
                               \/ ChangesSessionContext(s))
      /\ Observe(w, s).txn = t /\ Observe(w, s).tainted = v.tainted
      /\ Observe(w, s).moved = (v.moved \/ ChangesSessionContext(s))
      /\ Observe(w, s).st = v.st
  BY <1>1, <1>3 DEF Observe
<1>5. /\ u.drop = v.drop /\ u.txn = t
      /\ u.tainted = (\/ v.tainted \/ TxnEffect(s, MySql) # "None"
                      \/ ChangesSessionContext(s))
      /\ u.moved = (v.moved \/ ChangesSessionContext(s))
      /\ u.st = v.st
  BY <1>1, <1>3
<1> HIDE DEF w, t, u
<1>6. v.st = "held" => CleanProc(Observe(w, s))
  BY <1>2, <1>4 DEF CleanProc
<1>7. CleanProc(u)
  <2>1. TxnEffect(s, MySql) = "Begin" => TxnEffect(s, MySql) # "None"
    OBVIOUS
  <2> QED
    BY <2>1, <1>2, <1>5 DEF CleanProc
<1> QED
  BY <1>6, <1>7 DEF w, u
-----------------------------------------------------------------------------
(* Who holds a process.                                                    *)

(* The requests whose statements are in a queue of work.                   *)
Whose(w) == {w[i][1] : i \in DOMAIN w}

LEMMA WhoseWork ==
  /\ Whose(<<>>) = {}
  /\ \A w \in Work : \A r \in Req : \A k \in Nat \ {0} :
       Whose(Append(w, <<r, k>>)) = Whose(w) \cup {r}
  /\ \A w \in Work : w # <<>> => Head(w)[1] \in Whose(w)
                                 /\ Whose(Tail(w)) \subseteq Whose(w)
<1>1. Whose(<<>>) = {}
  BY DEF Whose
<1>2. ASSUME NEW w \in Work, NEW r \in Req, NEW k \in Nat \ {0}
      PROVE  Whose(Append(w, <<r, k>>)) = Whose(w) \cup {r}
  <2> DEFINE a == Append(w, <<r, k>>)
  <2>1. /\ Len(w) \in Nat /\ DOMAIN w = 1..Len(w)
        /\ DOMAIN a = 1..(Len(w) + 1) /\ a[Len(w) + 1] = <<r, k>>
        /\ \A i \in 1..Len(w) : a[i] = w[i]
    BY DEF Work
  <2> HIDE DEF a
  <2>2. ASSUME NEW s \in Whose(a)
        PROVE  s \in Whose(w) \cup {r}
    BY <2>1 DEF Whose
  <2>3. ASSUME NEW s \in Whose(w) \cup {r}
        PROVE  s \in Whose(a)
    <3>1. CASE s = r
      <4>1. Len(w) + 1 \in DOMAIN a /\ a[Len(w) + 1][1] = s
        BY <2>1, <3>1
      <4> QED
        BY <4>1 DEF Whose
    <3>2. CASE s \in Whose(w)
      BY <2>1, <3>2 DEF Whose
    <3> QED
      BY <3>1, <3>2
  <2> QED
    BY <2>2, <2>3 DEF a
<1>3. ASSUME NEW w \in Work, w # <<>>
      PROVE  Head(w)[1] \in Whose(w) /\ Whose(Tail(w)) \subseteq Whose(w)
  <2>1. /\ Len(w) \in Nat /\ Len(w) > 0 /\ DOMAIN w = 1..Len(w)
        /\ Head(w) = w[1] /\ DOMAIN Tail(w) = 1..(Len(w) - 1)
        /\ \A i \in 1..(Len(w) - 1) : Tail(w)[i] = w[i + 1]
    BY <1>3 DEF Work
  <2>2. 1 \in DOMAIN w
    BY <2>1
  <2>3. ASSUME NEW s \in Whose(Tail(w))
        PROVE  s \in Whose(w)
    <3>1. PICK i \in 1..(Len(w) - 1) : s = w[i + 1][1]
      BY <2>1, <2>3 DEF Whose
    <3>2. i + 1 \in DOMAIN w
      BY <2>1
    <3> QED
      BY <3>1, <3>2 DEF Whose
  <2> QED
    BY <2>1, <2>2, <2>3 DEF Whose
<1> QED
  BY <1>1, <1>2, <1>3

LEMMA WhoseReq ==
  ASSUME NEW w \in Work
  PROVE  Whose(w) \subseteq Req
BY DEF Work, Whose

(* Before a request has a process nothing of it is at the server.          *)
Fresh(r) == reqs[r].pc \in {"new", "find", "build", "lock", "acquire"}

(* A process that is lent belongs to the Connection of its request; it is  *)
(* the editor's session, or no editor's, and then runs nothing of others.  *)
LeaseInv ==
  \A r \in Req :
    /\ reqs[r].pid # None => Holds(r)
    /\ Holds(r) =>
         LET p == reqs[r].pid IN
         /\ procs[p].st = "held" /\ procs[p].pool # None
         /\ procs[p].pool.conn = reqs[r].conn
         /\ r \in Editor => editor[reqs[r].conn] = p
         /\ r \notin Editor => /\ Whose(procs[p].work) \subseteq {r}
                               /\ \A c \in Conn : editor[c] # p
HoldApart ==
  \A r, q \in Req : Holds(r) /\ Holds(q) /\ reqs[r].pid = reqs[q].pid => r = q
EditorApart ==
  \A r, q \in Req :
    Inside(r) /\ Inside(q) /\ reqs[r].conn = reqs[q].conn => r = q

(* The editor's session is a held process of its Connection; close() takes *)
(* one while no run is inside.                                             *)
SlotInv ==
  \A c \in Conn : editor[c] # None =>
    /\ procs[editor[c]].st = "held" /\ procs[editor[c]].pool # None
    /\ procs[editor[c]].pool.conn = c
ClosingInv ==
  \A c \in Conn : life[c] = "closing" => EditorFree(c) /\ editor[c] # None

(* What a process was sent is run by nobody who holds another one.         *)
WorkInv ==
  \A p \in Pid :
    /\ procs[p].st \in {"idle", "unborn", "gone"} => procs[p].work = <<>>
    /\ \A r \in Whose(procs[p].work) :
         ~Fresh(r) /\ (Holds(r) => reqs[r].pid = p)

LockInv == \A r \in Req : reqs[r].pc = "lock" => r \in Editor

HolderInv ==
  /\ LeaseInv /\ HoldApart /\ EditorApart /\ SlotInv /\ ClosingInv /\ WorkInv
  /\ LockInv

(* A request that enters nothing and takes nothing.                        *)
Calm(r) ==
  /\ Holds(r)' => Holds(r)
  /\ Inside(r)' => Inside(r)
  /\ Holds(r)' \/ Inside(r)' => /\ reqs'[r].conn = reqs[r].conn
                                /\ reqs'[r].pid = reqs[r].pid
  /\ ~Fresh(r) => ~Fresh(r)'
  /\ reqs'[r].pid # None => Holds(r)'
  /\ reqs'[r].pc = "lock" => r \in Editor

(* A process that is lent to nobody new, and stays with whom it is lent to.*)
Quiet(p) ==
  /\ Whose(procs'[p].work) \subseteq Whose(procs[p].work)
  /\ procs'[p].st \in {"idle", "unborn", "gone"} => procs'[p].work = <<>>
  /\ procs[p].st = "held" =>
       \/ procs'[p].st = "held" /\ procs'[p].pool = procs[p].pool
       \/ /\ \A r \in Req : Holds(r)' => reqs[r].pid # p
          /\ \A c \in Conn : editor'[c] # p

(* A Connection whose session stays, or goes while no run is inside.       *)
Kept(c) ==
  /\ editor'[c] = editor[c] \/ (editor'[c] = None /\ EditorFree(c)')
  /\ life'[c] = "closing" =>
       /\ editor'[c] = editor[c]
       /\ life[c] = "closing" \/ (EditorFree(c) /\ editor[c] # None)

LEMMA CalmKeeps ==
  ASSUME TypeOK, HolderInv, \A r \in Req : Calm(r), \A p \in Pid : Quiet(p),
         \A c \in Conn : Kept(c)
  PROVE  HolderInv'
<1> Types /\ \A r \in Req : Known(r)
  BY TypeParts
<1>1. ASSUME NEW r \in Req, Holds(r)'
      PROVE  /\ Holds(r) /\ reqs[r].pid \in Pid /\ reqs[r].conn \in Conn
             /\ reqs'[r].conn = reqs[r].conn /\ reqs'[r].pid = reqs[r].pid
  BY <1>1 DEF Calm, Types, Known, ReqRec, Holds, Active
<1>2. LeaseInv'
  <2> SUFFICES ASSUME NEW r \in Req, Holds(r)'
               PROVE  /\ procs'[reqs'[r].pid].st = "held"
                      /\ procs'[reqs'[r].pid].pool # None
                      /\ procs'[reqs'[r].pid].pool.conn = reqs'[r].conn
                      /\ r \in Editor => editor'[reqs'[r].conn] = reqs'[r].pid
                      /\ r \notin Editor =>
                           /\ Whose(procs'[reqs'[r].pid].work) \subseteq {r}
                           /\ \A c \in Conn : editor'[c] # reqs'[r].pid
    BY DEF LeaseInv, Calm
  <2> DEFINE p == reqs[r].pid
             c == reqs[r].conn
  <2>1. /\ Holds(r) /\ p \in Pid /\ c \in Conn
        /\ reqs'[r].conn = c /\ reqs'[r].pid = p
    BY <1>1
  <2>2. /\ procs[p].st = "held" /\ procs[p].pool # None
        /\ procs[p].pool.conn = c
        /\ r \in Editor => editor[c] = p
        /\ r \notin Editor => /\ Whose(procs[p].work) \subseteq {r}
                              /\ \A e \in Conn : editor[e] # p
    BY <2>1 DEF HolderInv, LeaseInv
  <2> HIDE DEF p, c
  <2>3. procs'[p].st = "held" /\ procs'[p].pool = procs[p].pool
    BY <2>1, <2>2 DEF Quiet, p
  <2>4. r \in Editor => editor'[c] = p
    BY <2>1, <2>2 DEF Kept, EditorFree, Inside, Holds
  <2>5. r \notin Editor => /\ Whose(procs'[p].work) \subseteq {r}
                           /\ \A e \in Conn : editor'[e] # p
    BY <2>1, <2>2, NoneApart DEF Quiet, Kept
  <2> QED
    BY <2>1, <2>2, <2>3, <2>4, <2>5
<1>3. HoldApart'
  BY <1>1 DEF HolderInv, HoldApart
<1>4. EditorApart'
  BY DEF HolderInv, EditorApart, Calm
<1>5. SlotInv'
  <2> SUFFICES ASSUME NEW c \in Conn, editor'[c] # None
               PROVE  /\ procs'[editor'[c]].st = "held"
                      /\ procs'[editor'[c]].pool # None
                      /\ procs'[editor'[c]].pool.conn = c
    BY DEF SlotInv
  <2>1. editor'[c] = editor[c] /\ editor[c] \in Pid
    BY DEF Kept, Types
  <2>2. /\ procs[editor[c]].st = "held" /\ procs[editor[c]].pool # None
        /\ procs[editor[c]].pool.conn = c
    BY <2>1 DEF HolderInv, SlotInv
  <2>3. /\ procs'[editor[c]].st = "held"
        /\ procs'[editor[c]].pool = procs[editor[c]].pool
    BY <2>1, <2>2 DEF Quiet
  <2> QED
    BY <2>1, <2>2, <2>3
<1>6. ClosingInv'
  <2> SUFFICES ASSUME NEW c \in Conn, life'[c] = "closing"
               PROVE  EditorFree(c)' /\ editor'[c] # None
    BY DEF ClosingInv
  <2>1. EditorFree(c) /\ editor[c] # None /\ editor'[c] = editor[c]
    BY DEF Kept, HolderInv, ClosingInv
  <2> QED
    BY <2>1 DEF EditorFree, Calm
<1>7. WorkInv'
  <2> SUFFICES ASSUME NEW p \in Pid, NEW r \in Whose(procs'[p].work)
               PROVE  ~Fresh(r)' /\ (Holds(r)' => reqs'[r].pid = p)
    BY DEF WorkInv, Quiet
  <2>1. r \in Whose(procs[p].work)
    BY DEF Quiet
  <2>2. r \in Req
    BY <2>1, WhoseReq DEF Types, ProcRec, Work
  <2>3. ~Fresh(r) /\ (Holds(r) => reqs[r].pid = p)
    BY <2>1 DEF HolderInv, WorkInv
  <2> QED
    BY <2>2, <2>3, <1>1 DEF Calm
<1>8. LockInv'
  BY DEF LockInv, Calm
<1> QED
  BY <1>2, <1>3, <1>4, <1>5, <1>6, <1>7, <1>8 DEF HolderInv
(* A handler that sends its next statement to a process that nobody else   *)
(* holds, or is through and leaves it.                                     *)
Runs(r, c, k, p, v, q) ==
  /\ procs' = [procs EXCEPT ![p] = Sent(r, k, v)]
  /\ reqs' = [reqs EXCEPT ![r] = Handler(r, k, q)]
  /\ UNCHANGED life
  /\ reqs[r].conn = c /\ q.conn = c /\ q.pid = p
  /\ v.st = "held" /\ v.pool # None /\ v.pool.conn = c
  /\ Whose(v.work) \subseteq Whose(procs[p].work)
  /\ Fresh(r) \/ (Holds(r) /\ reqs[r].pid = p)
  /\ \A s \in Req \ {r} : Holds(s) => reqs[s].pid # p
  /\ \A e \in Conn \ {c} : editor[e] # p
  /\ r \in Editor => /\ Inside(r) \/ ~Occupied(c)
                     /\ editor' = [editor EXCEPT ![c] = p]
  /\ r \notin Editor => /\ UNCHANGED editor /\ editor[c] # p
                        /\ Whose(v.work) \subseteq {r}

LEMMA RunsKeeps ==
  ASSUME TypeOK, HolderInv,
         NEW r \in Req, NEW c \in Conn, NEW k \in Nat \ {0}, NEW p \in Pid,
         NEW v \in ProcRec, NEW q \in ReqRec, Runs(r, c, k, p, v, q)
  PROVE  HolderInv'
<1> USE DEF Runs
<1> Types /\ \A s \in Req : Known(s)
  BY TypeParts
<1> DEFINE u == Sent(r, k, v)
           h == Handler(r, k, q)
<1>1. /\ procs'[p] = u /\ reqs'[r] = h
      /\ \A o \in Pid \ {p} : procs'[o] = procs[o]
      /\ \A s \in Req \ {r} : reqs'[s] = reqs[s]
  BY DEF Types
<1>2. \/ /\ GoesOn(r, k)
         /\ u.st = "held" /\ u.pool = v.pool
         /\ Whose(u.work) = Whose(v.work) \cup {r}
         /\ h.pc = "await" /\ h.conn = c /\ h.pid = p
      \/ /\ ~GoesOn(r, k)
         /\ h.pc = "ended" /\ h.conn = c /\ h.pid = None
         /\ r \in Editor => u = v
         /\ r \notin Editor => \/ u.st = "back" /\ u.work = v.work
                               \/ u.st = "gone" /\ u.work = <<>>
  <2>1. CASE GoesOn(r, k)
    <3>1. u.st = "held" /\ u.pool = v.pool /\ u.work = Append(v.work, <<r, k>>)
      BY <2>1 DEF Sent, ProcRec
    <3>2. v.work \in Work
      BY DEF ProcRec, Work
    <3>3. Whose(u.work) = Whose(v.work) \cup {r}
      BY <3>1, <3>2, WhoseWork
    <3>4. h.pc = "await" /\ h.conn = c /\ h.pid = p
      BY <2>1 DEF Handler, ReqRec
    <3> QED
      BY <2>1, <3>1, <3>3, <3>4
  <2>2. CASE ~GoesOn(r, k)
    <3>1. h.pc = "ended" /\ h.conn = c /\ h.pid = None
      BY <2>2 DEF Handler, ReqRec
    <3>2. /\ r \in Editor => u = v
          /\ r \notin Editor => \/ u.st = "back" /\ u.work = v.work
                                \/ u.st = "gone" /\ u.work = <<>>
      BY <2>2 DEF Sent, Left, Returned, Closed, NoProc, ProcRec
    <3> QED
      BY <2>2, <3>1, <3>2
  <2> QED
    BY <2>1, <2>2
<1> HIDE DEF u, h
<1>3. Whose(u.work) \subseteq Whose(procs[p].work) \cup {r}
  BY <1>2, WhoseWork
<1>4. Holds(r)' => h.pid = p /\ h.conn = c /\ GoesOn(r, k)
  BY <1>1, <1>2 DEF Holds
<1>5. /\ \A s \in Req \ {r} : /\ Holds(s)' <=> Holds(s)
                              /\ Inside(s)' <=> Inside(s)
                              /\ Fresh(s)' <=> Fresh(s)
      /\ ~Fresh(r)'
  BY <1>1, <1>2 DEF Holds, Inside, Fresh
<1>6. /\ \A e \in Conn \ {c} : editor'[e] = editor[e]
      /\ r \in Editor => editor'[c] = p
      /\ r \notin Editor => editor'[c] = editor[c]
  BY DEF Types
<1>7. LeaseInv'
  <2> SUFFICES ASSUME NEW s \in Req
               PROVE  /\ reqs'[s].pid # None => Holds(s)'
                      /\ Holds(s)' =>
                           LET o == reqs'[s].pid IN
                           /\ procs'[o].st = "held" /\ procs'[o].pool # None
                           /\ procs'[o].pool.conn = reqs'[s].conn
                           /\ s \in Editor => editor'[reqs'[s].conn] = o
                           /\ s \notin Editor =>
                                /\ Whose(procs'[o].work) \subseteq {s}
                                /\ \A e \in Conn : editor'[e] # o
    BY DEF LeaseInv
  <2>1. CASE s = r
    <3>1. reqs'[s].pid # None => Holds(s)'
      BY <2>1, <1>1, <1>2 DEF Holds
    <3>2. ASSUME Holds(s)'
          PROVE  /\ reqs'[s].pid = p /\ reqs'[s].conn = c
                 /\ procs'[p].st = "held" /\ procs'[p].pool # None
                 /\ procs'[p].pool.conn = c
                 /\ s \in Editor => editor'[c] = p
                 /\ s \notin Editor => /\ Whose(procs'[p].work) \subseteq {s}
                                       /\ \A e \in Conn : editor'[e] # p
      BY <2>1, <3>2, <1>1, <1>2, <1>4, <1>6
    <3> QED
      BY <3>1, <3>2
  <2>2. CASE s # r
    <3>1. /\ reqs'[s] = reqs[s] /\ (Holds(s)' <=> Holds(s))
          /\ reqs[s].pid # None => Holds(s)
      BY <2>2, <1>1, <1>5 DEF HolderInv, LeaseInv
    <3>2. ASSUME Holds(s)
          PROVE  LET o == reqs[s].pid IN
                 /\ procs'[o].st = "held" /\ procs'[o].pool # None
                 /\ procs'[o].pool.conn = reqs[s].conn
                 /\ s \in Editor => editor'[reqs[s].conn] = o
                 /\ s \notin Editor =>
                      /\ Whose(procs'[o].work) \subseteq {s}
                      /\ \A e \in Conn : editor'[e] # o
      <4> DEFINE o == reqs[s].pid
      <4>1. o \in Pid /\ o # p /\ reqs[s].conn \in Conn
        BY <2>2, <3>2 DEF Types, Known, ReqRec, Holds, Active
      <4>2. /\ procs[o].st = "held" /\ procs[o].pool # None
            /\ procs[o].pool.conn = reqs[s].conn
            /\ s \in Editor => editor[reqs[s].conn] = o
            /\ s \notin Editor => /\ Whose(procs[o].work) \subseteq {s}
                                  /\ \A e \in Conn : editor[e] # o
        BY <3>2 DEF HolderInv, LeaseInv
      <4> HIDE DEF o
      <4>3. procs'[o] = procs[o]
        BY <4>1, <1>1
      <4>4. s \in Editor => editor'[reqs[s].conn] = o
        <5> SUFFICES ASSUME s \in Editor, r \in Editor, reqs[s].conn = c
                     PROVE  FALSE
          BY <4>1, <4>2, <1>6
        <5>1. Inside(s)
          BY <3>2 DEF Inside, Holds
        <5> QED
          BY <5>1, <2>2 DEF HolderInv, EditorApart, Occupied, EditorFree
      <4>5. s \notin Editor => \A e \in Conn : editor'[e] # o
        BY <4>1, <4>2, <1>6
      <4> QED
        BY <4>2, <4>3, <4>4, <4>5 DEF o
    <3> QED
      BY <3>1, <3>2
  <2> QED
    BY <2>1, <2>2
<1>8. HoldApart'
  BY <1>1, <1>4, <1>5 DEF HolderInv, HoldApart
<1>9. EditorApart'
  <2>1. ASSUME NEW s \in Req \ {r}, Inside(s), Inside(r)', reqs[s].conn = c
        PROVE  FALSE
    BY <2>1 DEF HolderInv, EditorApart, Occupied, EditorFree, Inside
  <2>2. reqs'[r].conn = c
    BY <1>1, <1>2
  <2> QED
    BY <2>1, <2>2, <1>1, <1>5 DEF HolderInv, EditorApart
<1>10. SlotInv'
  <2> SUFFICES ASSUME NEW e \in Conn, editor'[e] # None
               PROVE  /\ procs'[editor'[e]].st = "held"
                      /\ procs'[editor'[e]].pool # None
                      /\ procs'[editor'[e]].pool.conn = e
    BY DEF SlotInv
  <2>1. CASE editor'[e] = p
    <3>1. e = c /\ r \in Editor
      BY <2>1, <1>6
    <3> QED
      BY <2>1, <3>1, <1>1, <1>2
  <2>2. CASE editor'[e] # p
    <3>1. editor'[e] = editor[e] /\ editor[e] \in Pid \ {p}
      BY <2>2, <1>6 DEF Types
    <3> QED
      BY <3>1, <1>1 DEF HolderInv, SlotInv
  <2> QED
    BY <2>1, <2>2
<1>11. ClosingInv'
  <2> SUFFICES ASSUME NEW e \in Conn, life[e] = "closing"
               PROVE  EditorFree(e)' /\ editor'[e] # None
    BY DEF ClosingInv
  <2>1. EditorFree(e) /\ editor[e] # None
    BY DEF HolderInv, ClosingInv
  <2>2. r \in Editor => e # c
    BY <2>1 DEF EditorFree, Occupied
  <2>3. editor'[e] # None
    BY <2>1, <2>2, <1>6
  <2>4. EditorFree(e)'
    BY <2>1, <2>2, <1>1, <1>2, <1>5 DEF EditorFree, Inside
  <2> QED
    BY <2>3, <2>4
<1>12. WorkInv'
  <2> SUFFICES ASSUME NEW o \in Pid
               PROVE  /\ procs'[o].st \in {"idle", "unborn", "gone"}
                           => procs'[o].work = <<>>
                      /\ \A s \in Whose(procs'[o].work) :
                           ~Fresh(s)' /\ (Holds(s)' => reqs'[s].pid = o)
    BY DEF WorkInv
  <2>1. procs'[o].st \in {"idle", "unborn", "gone"} => procs'[o].work = <<>>
    BY <1>1, <1>2 DEF HolderInv, WorkInv
  <2>2. ASSUME NEW s \in Whose(procs'[o].work)
        PROVE  ~Fresh(s)' /\ (Holds(s)' => reqs'[s].pid = o)
    <3>1. s \in Whose(procs[o].work) \/ (o = p /\ s = r)
      BY <2>2, <1>1, <1>3
    <3>2. CASE s = r
      <4>1. Holds(r)' => o = p
        BY <3>1, <3>2 DEF HolderInv, WorkInv
      <4> QED
        BY <3>2, <4>1, <1>1, <1>4, <1>5
    <3>3. CASE s # r
      <4>1. s \in Req /\ ~Fresh(s) /\ (Holds(s) => reqs[s].pid = o)
        BY <3>1, <3>3, WhoseReq DEF HolderInv, WorkInv, Types, ProcRec, Work
      <4> QED
        BY <4>1, <3>3, <1>1, <1>5
    <3> QED
      BY <3>2, <3>3
  <2> QED
    BY <2>1, <2>2
<1>13. LockInv'
  BY <1>1, <1>2 DEF HolderInv, LockInv
<1> QED
  BY <1>7, <1>8, <1>9, <1>10, <1>11, <1>12, <1>13 DEF HolderInv
(* The same for a handler that holds the process already.                  *)
LEMMA RunsOn ==
  ASSUME TypeOK, HolderInv, NEW r \in Req, NEW k \in Nat \ {0}, NEW v \in ProcRec,
         Holds(r),
         procs' = [procs EXCEPT ![reqs[r].pid] = Sent(r, k, v)],
         reqs' = [reqs EXCEPT ![r] = Handler(r, k, reqs[r])],
         UNCHANGED <<life, editor>>,
         v.st = procs[reqs[r].pid].st, v.pool = procs[reqs[r].pid].pool,
         Whose(v.work) \subseteq Whose(procs[reqs[r].pid].work)
  PROVE  HolderInv'
<1> Types /\ Known(r)
  BY TypeParts
<1> DEFINE p == reqs[r].pid
           c == reqs[r].conn
<1>1. reqs[r] \in ReqRec /\ p \in Pid /\ c \in Conn
  BY DEF Types, Known, ReqRec, Holds, Active
<1>2. /\ procs[p].st = "held" /\ procs[p].pool # None /\ procs[p].pool.conn = c
      /\ r \in Editor => editor[c] = p
      /\ r \notin Editor => /\ Whose(procs[p].work) \subseteq {r}
                            /\ \A e \in Conn : editor[e] # p
  BY DEF HolderInv, LeaseInv
<1>3. \A s \in Req \ {r} : Holds(s) => reqs[s].pid # p
  BY DEF HolderInv, HoldApart
<1>4. \A e \in Conn \ {c} : editor[e] # p
  BY <1>1, <1>2, NoneApart DEF HolderInv, SlotInv
<1>5. r \in Editor => Inside(r) /\ editor' = [editor EXCEPT ![c] = p]
  BY <1>1, <1>2 DEF Inside, Holds, Types
<1> HIDE DEF p, c
<1>6. /\ procs' = [procs EXCEPT ![p] = Sent(r, k, v)]
      /\ v.st = "held" /\ v.pool # None /\ v.pool.conn = c
      /\ Whose(v.work) \subseteq Whose(procs[p].work)
      /\ reqs[r].conn = c /\ reqs[r].pid = p /\ UNCHANGED <<life, editor>>
  BY <1>2 DEF p, c
<1>7. r \notin Editor => /\ UNCHANGED editor /\ editor[c] # p
                         /\ Whose(v.work) \subseteq {r}
  BY <1>1, <1>2, <1>6
<1>8. Runs(r, c, k, p, v, reqs[r])
  BY <1>3, <1>4, <1>5, <1>6, <1>7 DEF Runs
<1> QED
  BY <1>1, <1>8, RunsKeeps

(* The editor's session is nobody's while no run is inside.                *)
LEMMA FreeSession ==
  ASSUME TypeOK, HolderInv, NEW c \in Conn, EditorFree(c), editor[c] # None
  PROVE  /\ editor[c] \in Pid
         /\ \A r \in Req : Holds(r) => reqs[r].pid # editor[c]
         /\ \A e \in Conn \ {c} : editor[e] # editor[c]
<1> Types /\ \A s \in Req : Known(s)
  BY TypeParts
<1>1. ASSUME NEW r \in Req, Holds(r), reqs[r].pid = editor[c]
      PROVE  FALSE
  <2>1. r \in Editor
    BY <1>1 DEF HolderInv, LeaseInv
  <2>2. reqs[r].conn = c
    BY <1>1 DEF HolderInv, LeaseInv, SlotInv
  <2> QED
    BY <1>1, <2>1, <2>2 DEF EditorFree, Inside, Holds
<1>2. \A e \in Conn \ {c} : editor[e] # editor[c]
  BY DEF HolderInv, SlotInv
<1> QED
  BY <1>1, <1>2 DEF Types

LEMMA RegistryKeepsHolders ==
  ASSUME TypeOK, HolderInv,
         \/ Connect \/ Disconnect
         \/ \E c \in Conn : CloseStep(c) \/ DropConnection(c) \/ IdleClose(c)
         \/ \E p \in Pid : PingReturned(p)
  PROVE  HolderInv'
<1> Types /\ \A r \in Req : Known(r)
  BY TypeParts
<1>1. UNCHANGED reqs
  BY DEF Connect, Disconnect, CloseStep, CloseSession, SessionClosed,
         ClosePool, PoolDrained, DropConnection, IdleClose, PingReturned
<1>2. \A r \in Req : /\ Calm(r) /\ (Holds(r)' <=> Holds(r))
                     /\ (Inside(r)' <=> Inside(r))
  BY <1>1 DEF Calm, Holds, Inside, Fresh, HolderInv, LeaseInv, LockInv
<1>3. \A c \in Conn : EditorFree(c)' <=> EditorFree(c)
  BY <1>1 DEF EditorFree, Inside
<1>4. UNCHANGED procs => \A p \in Pid : Quiet(p)
  BY DEF Quiet, HolderInv, WorkInv
<1>5. \A v : Closed(v).st = "gone" /\ Closed(v).work = <<>>
  BY DEF Closed, NoProc
<1>6. CASE Connect \/ Disconnect
  <2>1. UNCHANGED <<procs, editor>>
    BY <1>6 DEF Connect, Disconnect
  <2>2. ASSUME NEW c \in Conn, life'[c] = "closing"
        PROVE  life[c] = "closing"
    BY <1>6, <2>2, RetireType DEF Connect, Disconnect, Retire, Types
  <2> QED
    BY <2>1, <2>2, <1>2, <1>4, CalmKeeps DEF Kept
<1>7. ASSUME NEW c \in Conn, CloseSession(c)
      PROVE  HolderInv'
  <2>1. UNCHANGED <<procs, editor>> /\ EditorFree(c)
    BY <1>7 DEF CloseSession
  <2>2. ASSUME NEW e \in Conn, life'[e] = "closing"
        PROVE  life[e] = "closing" \/ (EditorFree(e) /\ editor[e] # None)
    BY <1>7, <2>1, <2>2 DEF CloseSession, ListPools, Types
  <2> QED
    BY <2>1, <2>2, <1>2, <1>4, CalmKeeps DEF Kept
<1>8. ASSUME NEW c \in Conn, EditorFree(c), editor[c] # None,
             procs' = [procs EXCEPT ![editor[c]] = Closed(@)],
             editor' = [editor EXCEPT ![c] = None],
             life'[c] # "closing",
             \A e \in Conn \ {c} : life'[e] = life[e]
      PROVE  HolderInv'
  <2>1. /\ editor[c] \in Pid
        /\ \A r \in Req : Holds(r) => reqs[r].pid # editor[c]
        /\ \A e \in Conn \ {c} : editor[e] # editor[c]
    BY <1>8, FreeSession
  <2>2. ASSUME NEW p \in Pid
        PROVE  Quiet(p)
    <3>1. CASE p = editor[c]
      <4>1. procs'[p].st = "gone" /\ procs'[p].work = <<>>
        BY <1>8, <2>1, <3>1, <1>5 DEF Types
      <4>2. \A e \in Conn : editor'[e] # p
        BY <1>8, <2>1, <3>1, NoneApart DEF Types
      <4>3. \A r \in Req : Holds(r)' => reqs[r].pid # p
        BY <2>1, <3>1, <1>2
      <4> QED
        BY <4>1, <4>2, <4>3, WhoseWork DEF Quiet
    <3>2. CASE p # editor[c]
      <4>1. procs'[p] = procs[p]
        BY <1>8, <2>1, <3>2 DEF Types
      <4> QED
        BY <4>1 DEF Quiet, HolderInv, WorkInv
    <3> QED
      BY <3>1, <3>2
  <2>3. \A e \in Conn : Kept(e)
    BY <1>8, <1>3 DEF Kept, Types
  <2> QED
    BY <2>2, <2>3, <1>2, CalmKeeps
<1>9. ASSUME NEW c \in Conn, SessionClosed(c)
      PROVE  HolderInv'
  <2>1. EditorFree(c) /\ editor[c] # None
    BY <1>9 DEF SessionClosed, HolderInv, ClosingInv
  <2> QED
    BY <1>8, <1>9, <2>1 DEF SessionClosed, ListPools, Types
<1>10. ASSUME NEW c \in Conn, IdleClose(c)
       PROVE  HolderInv'
  <2>1. UNCHANGED life
    BY <1>10 DEF IdleClose, conns
  <2>2. CASE Occupied(c) \/ editor[c] = None
    <3>1. UNCHANGED <<procs, editor>>
      BY <1>10, <2>2 DEF IdleClose
    <3> QED
      BY <2>1, <3>1, <1>2, <1>4, CalmKeeps DEF Kept
  <2>3. CASE ~(Occupied(c) \/ editor[c] = None)
    BY <1>8, <1>10, <2>1, <2>3 DEF IdleClose, Occupied
  <2> QED
    BY <2>2, <2>3
<1>11. ASSUME NEW c \in Conn, NEW P \in toClose[c],
              ClosePool(c, P) \/ PoolDrained(c, P)
       PROVE  HolderInv'
  <2>1. \A e \in Conn : Kept(e)
    BY <1>11 DEF ClosePool, PoolDrained, Kept, Types
  <2>2. ASSUME NEW p \in Pid
        PROVE  Quiet(p)
    <3>1. \/ procs'[p] = procs[p]
          \/ procs[p].st = "idle" /\ procs'[p] = Closed(procs[p])
      BY <1>11 DEF ClosePool, PoolDrained, ProcsOf
    <3> QED
      BY <3>1, <1>5, WhoseWork DEF Quiet, HolderInv, WorkInv
  <2> QED
    BY <2>1, <2>2, <1>2, CalmKeeps
<1>12. ASSUME NEW c \in Conn, DropConnection(c)
       PROVE  HolderInv'
  <2>1. \A r \in Req : Active(r) => reqs[r].conn # c
    BY <1>12 DEF DropConnection
  <2>2. EditorFree(c)'
    BY <2>1, <1>3 DEF EditorFree, Inside, Active
  <2>3. \A e \in Conn : Kept(e)
    BY <1>12, <2>2 DEF DropConnection, Kept, Types
  <2>4. ASSUME NEW p \in Pid
        PROVE  Quiet(p)
    <3>1. CASE procs[p].pool # None /\ procs[p].pool.conn = c
      <4>1. procs'[p].st = "gone" /\ procs'[p].work = <<>>
        BY <1>12, <3>1, <1>5 DEF DropConnection
      <4>2. \A e \in Conn : editor'[e] # p
        BY <1>12, <3>1, NoneApart DEF DropConnection, Types, HolderInv, SlotInv
      <4>3. \A r \in Req : Holds(r)' => reqs[r].pid # p
        BY <2>1, <3>1, <1>2 DEF HolderInv, LeaseInv, Holds, Active
      <4> QED
        BY <4>1, <4>2, <4>3, WhoseWork DEF Quiet
    <3>2. CASE ~(procs[p].pool # None /\ procs[p].pool.conn = c)
      <4>1. procs'[p] = procs[p]
        BY <1>12, <3>2 DEF DropConnection
      <4> QED
        BY <4>1 DEF Quiet, HolderInv, WorkInv
    <3> QED
      BY <3>1, <3>2
  <2> QED
    BY <2>3, <2>4, <1>2, CalmKeeps
<1>13. ASSUME NEW o \in Pid, PingReturned(o)
       PROVE  HolderInv'
  <2>1. \A e \in Conn : Kept(e)
    BY <1>13 DEF PingReturned, conns, Kept
  <2>2. ASSUME NEW p \in Pid
        PROVE  Quiet(p)
    <3>1. CASE p = o
      <4>1. /\ procs[p].st = "back" /\ procs[p].work = <<>>
            /\ procs'[p].work = <<>>
        BY <1>13, <3>1, <1>5 DEF PingReturned, Types, ProcRec
      <4> QED
        BY <4>1 DEF Quiet
    <3>2. CASE p # o
      <4>1. procs'[p] = procs[p]
        BY <1>13, <3>2 DEF PingReturned, Types
      <4> QED
        BY <4>1 DEF Quiet, HolderInv, WorkInv
    <3> QED
      BY <3>1, <3>2
  <2> QED
    BY <2>1, <2>2, <1>2, CalmKeeps
<1> QED
  BY <1>6, <1>7, <1>9, <1>10, <1>11, <1>12, <1>13 DEF CloseStep
LEMMA PoolOfConn ==
  ASSUME TypeOK, PoolsInv, NEW r \in Req, HasPool(r)
  PROVE  reqs[r].pool # None /\ reqs[r].pool.conn = reqs[r].conn
<1>1. Known(r) /\ Active(r) /\ reqs[r].conn \in Conn
  BY TypeParts, ActiveConn DEF HasPool, Active
<1>2. reqs[r].pool # None /\ reqs[r].pool = Chosen(reqs[r].conn, DbOf[r])
  BY <1>1 DEF Known, PoolsInv, ChosenInv
<1> QED
  BY <1>1, <1>2, RequestAssumption DEF Chosen, Base, PoolsInv, NamesInv

(* Steps that only move a handler, or touch no process at all.             *)
LEMMA FindingKeepsHolders ==
  ASSUME TypeOK, HolderInv, NEW r \in Req,
         \/ Arrive(r) \/ FindPool(r) \/ Publish(r) \/ BuildFails(r)
         \/ Refuse(r) \/ AcquireFails(r) \/ TimeLimit(r) \/ Answer(r)
         \/ Stop(r) \/ StopFinds(r) \/ StopMisses(r)
  PROVE  HolderInv'
<1> Types
  BY TypeParts
<1>1. UNCHANGED <<life, editor, procs>>
  BY DEF Arrive, FindPool, Publish, BuildFails, Refuse, AcquireFails,
         TimeLimit, Answer, Stop, StopFinds, StopMisses, Fail, conns
<1>2. (\A p \in Pid : Quiet(p)) /\ \A c \in Conn : Kept(c)
  BY <1>1 DEF Quiet, Kept, HolderInv, WorkInv
<1>3. ASSUME NEW s \in Req, reqs'[s] = reqs[s]
      PROVE  Calm(s)
  BY <1>3 DEF Calm, Holds, Inside, Fresh, HolderInv, LeaseInv, LockInv
<1>4. ASSUME Arrive(r) \/ FindPool(r) \/ Publish(r) \/ BuildFails(r)
             \/ Refuse(r) \/ AcquireFails(r) \/ TimeLimit(r) \/ Answer(r)
      PROVE  \A s \in Req : Calm(s)
  <2>1. \A s \in Req \ {r} : reqs'[s] = reqs[s]
    BY <1>4 DEF Arrive, FindPool, Publish, BuildFails, Refuse, AcquireFails,
       TimeLimit, Answer, Fail, Goto, Types
  <2>2. reqs[r] \in ReqRec /\ (reqs[r].pid # None => Holds(r))
    BY DEF Types, HolderInv, LeaseInv
  <2>3. CASE Arrive(r) \/ BuildFails(r) \/ Refuse(r) \/ AcquireFails(r)
    <3>1. /\ reqs'[r].pid = reqs[r].pid /\ Fresh(r)
          /\ reqs'[r].pc \in {"find", "ended"}
      BY <1>4, <2>2, <2>3 DEF Arrive, BuildFails, Refuse, AcquireFails, Fail,
         Goto, Types, ReqRec, Fresh
    <3>2. Calm(r)
      BY <2>2, <3>1 DEF Calm, Holds, Inside, Fresh
    <3> QED
      BY <2>1, <3>2, <1>3
  <2>4. CASE FindPool(r) \/ Publish(r)
    <3>1. /\ reqs'[r].pid = reqs[r].pid /\ reqs[r].pc \in {"find", "build"}
          /\ reqs'[r].pc \in {"build", Next1(r)}
      BY <2>2, <2>4 DEF FindPool, Publish, Types, ReqRec
    <3>2. Next1(r) \in {"lock", "acquire"} /\ (r \in Editor <=> Next1(r) = "lock")
      BY DEF Next1
    <3>3. Calm(r)
      BY <2>2, <3>1, <3>2 DEF Calm, Holds, Inside, Fresh
    <3> QED
      BY <2>1, <3>3, <1>3
  <2>5. CASE TimeLimit(r)
    <3>1. /\ reqs'[r].pid = reqs[r].pid /\ reqs'[r].conn = reqs[r].conn
          /\ reqs[r].pc = "await" /\ reqs'[r].pc = "kill"
      BY <2>2, <2>5 DEF TimeLimit, Goto, Types, ReqRec
    <3>2. Calm(r)
      BY <3>1 DEF Calm, Holds, Inside, Fresh
    <3> QED
      BY <2>1, <3>2, <1>3
  <2>6. CASE Answer(r)
    <3>1. reqs'[r].pid = None /\ reqs'[r].pc = "done"
      BY <2>6 DEF Answer, NoReq, Types
    <3>2. Calm(r)
      BY <3>1 DEF Calm, Holds, Inside, Fresh
    <3> QED
      BY <2>1, <3>2, <1>3
  <2> QED
    BY <1>4, <2>3, <2>4, <2>5, <2>6
<1>5. CASE Stop(r) \/ StopFinds(r) \/ StopMisses(r)
  <2>1. UNCHANGED reqs
    BY <1>5 DEF Stop, StopFinds, StopMisses
  <2> QED
    BY <2>1, <1>2, <1>3, CalmKeeps
<1>6. CASE Arrive(r) \/ FindPool(r) \/ Publish(r) \/ BuildFails(r)
           \/ Refuse(r) \/ AcquireFails(r) \/ TimeLimit(r) \/ Answer(r)
  BY <1>6, <1>2, <1>4, CalmKeeps
<1> QED
  BY <1>5, <1>6

(* A handler that takes a process: the session it finds, or one the pool   *)
(* lends.                                                                  *)
LEMMA TakingKeepsHolders ==
  ASSUME TypeOK, PoolsInv, HolderInv, NEW r \in Req, TryLock(r) \/ Borrow(r)
  PROVE  HolderInv'
<1> Types
  BY TypeParts
<1> DEFINE c == reqs[r].conn
<1>0. /\ reqs[r] \in ReqRec /\ c \in Conn /\ HasPool(r) /\ Fresh(r)
      /\ ~Holds(r) /\ reqs[r].pid = None
  <2>1. reqs[r].pc \in {"lock", "acquire"}
    BY DEF TryLock, Borrow
  <2> QED
    BY <2>1, ActiveConn DEF Active, HasPool, Fresh, Holds, Types, HolderInv,
       LeaseInv
<1>1. CASE TryLock(r)
  <2>1. ~Occupied(c) /\ EditorFree(c) /\ UNCHANGED <<life, editor>>
    BY <1>1 DEF TryLock, Occupied, conns
  <2>2. r \in Editor
    BY <1>1 DEF TryLock, HolderInv, LockInv
  <2>3. CASE editor[c] = None
    <3>1. reqs' = [reqs EXCEPT ![r].pc = "acquire"] /\ UNCHANGED procs
      BY <1>1, <2>3 DEF TryLock, Goto
    <3>2. /\ reqs'[r].pc = "acquire" /\ reqs'[r].conn = c
          /\ reqs'[r].pid = reqs[r].pid
          /\ \A s \in Req \ {r} : reqs'[s] = reqs[s]
      BY <1>0, <3>1 DEF Types, ReqRec
    <3>3. \A s \in Req : /\ Holds(s)' <=> Holds(s)
                         /\ Fresh(s)' <=> Fresh(s)
                         /\ reqs'[s].conn = reqs[s].conn
                         /\ reqs'[s].pid = reqs[s].pid
                         /\ Inside(s)' => Inside(s) \/ s = r
      BY <1>0, <3>2 DEF Holds, Fresh, Inside
    <3>4. LeaseInv' /\ HoldApart' /\ SlotInv'
      BY <2>1, <3>1, <3>3 DEF HolderInv, LeaseInv, HoldApart, SlotInv
    <3>5. EditorApart'
      BY <2>1, <3>3 DEF HolderInv, EditorApart, EditorFree
    <3>6. ClosingInv'
      BY <2>1, <3>3 DEF HolderInv, ClosingInv, Occupied, EditorFree
    <3>7. WorkInv'
      <4> SUFFICES ASSUME NEW p \in Pid, NEW s \in Whose(procs[p].work)
                   PROVE  ~Fresh(s)' /\ (Holds(s)' => reqs'[s].pid = p)
        BY <3>1 DEF WorkInv, HolderInv
      <4>1. s \in Req
        BY WhoseReq DEF Types, ProcRec, Work
      <4> QED
        BY <4>1, <3>3 DEF HolderInv, WorkInv
    <3>8. LockInv'
      BY <3>2 DEF HolderInv, LockInv
    <3> QED
      BY <3>4, <3>5, <3>6, <3>7, <3>8 DEF HolderInv
  <2>4. CASE editor[c] # None
    <3> DEFINE p == editor[c]
               q == [reqs[r] EXCEPT !.pid = p]
    <3>1. /\ p \in Pid
          /\ \A s \in Req : Holds(s) => reqs[s].pid # p
          /\ \A e \in Conn \ {c} : editor[e] # p
      BY <1>0, <2>1, <2>4, FreeSession
    <3>2. q \in ReqRec /\ q.conn = c /\ q.pid = p
      BY <1>0, <3>1 DEF ReqRec
    <3>3. /\ procs[p] \in ProcRec /\ procs[p].st = "held"
          /\ procs[p].pool # None /\ procs[p].pool.conn = c
      BY <1>0, <2>4, <3>1 DEF HolderInv, SlotInv, Types
    <3>4. /\ procs' = [procs EXCEPT ![p] = Sent(r, 1, procs[p])]
          /\ reqs' = [reqs EXCEPT ![r] = Handler(r, 1, q)]
      BY <1>1, <2>4 DEF TryLock
    <3>5. editor' = [editor EXCEPT ![c] = p]
      BY <2>1 DEF Types
    <3>6. 1 \in Nat \ {0}
      OBVIOUS
    <3> HIDE DEF p, q
    <3>7. reqs[r].conn = c
      OBVIOUS
    <3> HIDE DEF c
    <3>8. Runs(r, c, 1, p, procs[p], q)
      BY <1>0, <2>1, <2>2, <3>1, <3>2, <3>3, <3>4, <3>5, <3>7 DEF Runs
    <3> QED
      BY <1>0, <3>1, <3>2, <3>3, <3>6, <3>8, RunsKeeps
  <2> QED
    BY <2>3, <2>4
<1>2. CASE Borrow(r)
  <2> DEFINE P == reqs[r].pool
             lent(p) == IF procs[p].st = "idle"
                        THEN [procs[p] EXCEPT !.st = "held"]
                        ELSE [NoProc EXCEPT !.pool = P, !.st = "held"]
  <2>1. PICK p \in Pid :
          /\ Lends(P, p)
          /\ procs' = [procs EXCEPT ![p] = Sent(r, 1, lent(p))]
          /\ reqs' = [reqs EXCEPT ![r] =
                        Handler(r, 1, [reqs[r] EXCEPT !.pid = p])]
          /\ editor' = IF r \in Editor THEN [editor EXCEPT ![c] = p]
                       ELSE editor
    BY <1>2 DEF Borrow
  <2> DEFINE q == [reqs[r] EXCEPT !.pid = p]
             v == lent(p)
  <2>2. \/ procs[p].st = "idle" /\ procs[p].pool = P
        \/ procs[p].st = "unborn"
    BY <2>1 DEF Lends, ProcsOf, Unborn
  <2>3. P \in PoolId /\ P # None /\ P.conn = c
    BY <1>0, PoolOfConn DEF ReqRec
  <2>4. procs[p] \in ProcRec /\ procs[p].work = <<>>
    BY <2>2 DEF Types, HolderInv, WorkInv
  <2>5. v \in ProcRec
    BY <2>3, <2>4, NoProcType, MovedType DEF ProcRec
  <2>6. v.st = "held" /\ v.pool = P /\ v.work = <<>>
    BY <2>2, <2>4 DEF NoProc, ProcRec
  <2>7. Whose(v.work) = {}
    BY <2>6, WhoseWork
  <2>8. q \in ReqRec /\ q.conn = c /\ q.pid = p
    BY <1>0 DEF ReqRec
  <2>9. \A s \in Req : Holds(s) => reqs[s].pid # p
    BY <2>2 DEF HolderInv, LeaseInv
  <2>10. \A e \in Conn : editor[e] # p
    BY <2>2, NoneApart DEF HolderInv, SlotInv
  <2>11. UNCHANGED life /\ (r \in Editor => Inside(r))
    BY <1>2 DEF Borrow, conns, Inside
  <2>12. 1 \in Nat \ {0} /\ reqs[r].conn = c
    OBVIOUS
  <2>13. /\ procs' = [procs EXCEPT ![p] = Sent(r, 1, v)]
         /\ reqs' = [reqs EXCEPT ![r] = Handler(r, 1, q)]
         /\ r \in Editor => editor' = [editor EXCEPT ![c] = p]
         /\ r \notin Editor => UNCHANGED editor
    BY <2>1
  <2> HIDE DEF v, q, P, c, lent
  <2>14. r \notin Editor => /\ UNCHANGED editor /\ editor[c] # p
                            /\ Whose(v.work) \subseteq {r}
    BY <1>0, <2>7, <2>10, <2>13
  <2>15. Runs(r, c, 1, p, v, q)
    BY <1>0, <2>3, <2>6, <2>7, <2>8, <2>9, <2>10, <2>11, <2>12, <2>13, <2>14
       DEF Runs
  <2> QED
    BY <1>0, <2>5, <2>8, <2>12, <2>15, RunsKeeps
<1> QED
  BY <1>1, <1>2
(* A handler that leaves what it holds: a session stays in its slot, and a *)
(* process of its own goes back or is closed.                              *)
LEMMA LeavingKeepsHolders ==
  ASSUME TypeOK, HolderInv, NEW r \in Req, StmtCancelled(r) \/ ClientGone(r)
  PROVE  HolderInv'
<1> Types
  BY TypeParts
<1> DEFINE p == reqs[r].pid
<1>0. reqs[r] \in ReqRec /\ Active(r)
  BY DEF StmtCancelled, ClientGone, Active, Types
<1>1. /\ UNCHANGED <<life, editor>>
      /\ \A s \in Req \ {r} : reqs'[s] = reqs[s]
      /\ reqs'[r].pc \in {"ended", "gone"} /\ reqs'[r].pid = None
      /\ p = None => UNCHANGED procs
      /\ p # None => procs' = [procs EXCEPT ![p] = Left(r, @)]
  <2>1. CASE StmtCancelled(r)
    <3>1. p # None
      BY <2>1, HolderType DEF StmtCancelled, Holds
    <3> QED
      BY <2>1, <3>1, <1>0 DEF StmtCancelled, conns, Types, ReqRec
  <2>2. CASE ClientGone(r)
    BY <2>2 DEF ClientGone, conns, Types, NoReq
  <2> QED
    BY <2>1, <2>2
<1>2. \A s \in Req : Calm(s)
  BY <1>1 DEF Calm, Holds, Inside, Fresh, HolderInv, LeaseInv, LockInv
<1>3. \A c \in Conn : Kept(c)
  BY <1>1 DEF Kept
<1>4. ASSUME NEW o \in Pid
      PROVE  Quiet(o)
  <2>1. CASE procs'[o] = procs[o]
    BY <2>1 DEF Quiet, HolderInv, WorkInv
  <2>2. CASE procs'[o] # procs[o]
    <3>1. p = o /\ p # None /\ procs'[o] = Left(r, procs[o])
      BY <1>1, <2>2 DEF Types
    <3>2. procs[o] \in ProcRec
      BY DEF Types
    <3>3. r \notin Editor /\ procs'[o] = Returned(procs[o])
      BY <2>2, <3>1 DEF Left
    <3>4. \/ procs'[o].st = "back" /\ procs'[o].work = procs[o].work
          \/ procs'[o].st = "gone" /\ procs'[o].work = <<>>
      BY <3>2, <3>3 DEF Returned, Closed, NoProc, ProcRec
    <3>5. \A c \in Conn : editor'[c] # o
      BY <1>1, <3>1, <3>3 DEF HolderInv, LeaseInv
    <3>6. \A s \in Req : Holds(s)' => reqs[s].pid # o
      <4> SUFFICES ASSUME NEW s \in Req, Holds(s)', reqs[s].pid = o
                   PROVE  FALSE
        OBVIOUS
      <4>1. s # r /\ Holds(s)
        BY <1>1, <1>2 DEF Calm, Holds
      <4>2. Holds(r)
        BY <3>1 DEF HolderInv, LeaseInv
      <4> QED
        BY <3>1, <4>1, <4>2 DEF HolderInv, HoldApart
    <3> QED
      BY <3>4, <3>5, <3>6, WhoseWork DEF Quiet
  <2> QED
    BY <2>1, <2>2
<1> QED
  BY <1>2, <1>3, <1>4, CalmKeeps

LEMMA KillOwnKeepsHolders ==
  ASSUME TypeOK, HolderInv, NEW r \in Req, KillOwn(r) \/ KillOwnFails(r)
  PROVE  HolderInv'
<1> Types
  BY TypeParts
<1> DEFINE v == procs[reqs[r].pid]
           w == IF v.work = <<>> THEN v ELSE [v EXCEPT !.work = Tail(@)]
<1>1. Holds(r) /\ v \in ProcRec
  <2>1. Holds(r)
    BY DEF KillOwn, KillOwnFails, Holds
  <2> QED
    BY <2>1, HolderType
<1>2. ASSUME NEW u \in ProcRec, AfterKill(r, u), u.st = v.st, u.pool = v.pool,
             Whose(u.work) \subseteq Whose(v.work)
      PROVE  HolderInv'
  <2>1. reqs[r].at + 1 \in Nat \ {0}
    BY <1>1, HolderType
  <2>2. /\ procs' = [procs EXCEPT ![reqs[r].pid] = Sent(r, reqs[r].at + 1, u)]
        /\ reqs' = [reqs EXCEPT ![r] = Handler(r, reqs[r].at + 1, reqs[r])]
        /\ UNCHANGED <<life, editor>>
    BY <1>2 DEF AfterKill, conns
  <2> QED
    BY <1>1, <1>2, <2>1, <2>2, RunsOn
<1>3. CASE KillOwn(r)
  <2>1. /\ w \in ProcRec /\ w.st = v.st /\ w.pool = v.pool
        /\ Whose(w.work) \subseteq Whose(v.work)
    <3>1. CASE v.work = <<>>
      BY <3>1, <1>1
    <3>2. CASE v.work # <<>>
      <4>1. w \in ProcRec
        BY <1>1, <3>2, HeadOfWork
      <4>2. w.st = v.st /\ w.pool = v.pool /\ w.work = Tail(v.work)
        BY <1>1, <3>2 DEF ProcRec
      <4>3. v.work \in Work
        BY <1>1 DEF ProcRec, Work
      <4> QED
        BY <3>2, <4>1, <4>2, <4>3, WhoseWork
    <3> QED
      BY <3>1, <3>2
  <2>2. AfterKill(r, w)
    BY <1>3 DEF KillOwn
  <2> QED
    BY <2>1, <2>2, <1>2
<1>4. CASE KillOwnFails(r)
  BY <1>1, <1>2, <1>4 DEF KillOwnFails
<1> QED
  BY <1>3, <1>4

(* The statement a process runs ends, and if its handler still waits for   *)
(* it, that one goes on where it is.                                       *)
LEMMA HeadKeepsHolders ==
  ASSUME TypeOK, HolderInv, NEW p \in Pid, procs[p].work # <<>>,
         NEW v \in ProcRec, v.st = procs[p].st, v.pool = procs[p].pool,
         v.work = Tail(procs[p].work), UNCHANGED <<life, editor>>,
         LET r == Head(procs[p].work)[1]
             k == Head(procs[p].work)[2]
         IN \/ /\ Awaits(r, k)
               /\ procs' = [procs EXCEPT ![p] = Sent(r, k + 1, v)]
               /\ reqs' = [reqs EXCEPT ![r] = Handler(r, k + 1, @)]
            \/ /\ procs' = [procs EXCEPT ![p] = v]
               /\ UNCHANGED reqs
  PROVE  HolderInv'
<1> Types
  BY TypeParts
<1> DEFINE r == Head(procs[p].work)[1]
           k == Head(procs[p].work)[2]
<1>1. procs[p] \in ProcRec /\ procs[p].work \in Work
  BY DEF Types, ProcRec, Work
<1>2. /\ r \in Req /\ k + 1 \in Nat \ {0} /\ r \in Whose(procs[p].work)
      /\ Whose(v.work) \subseteq Whose(procs[p].work)
  <2>1. r \in Req /\ k \in Nat \ {0}
    BY <1>1, HeadOfWork
  <2>2. r \in Whose(procs[p].work)
    BY <1>1, WhoseWork
  <2>3. Whose(v.work) \subseteq Whose(procs[p].work)
    BY <1>1, WhoseWork
  <2> QED
    BY SMTT(40), <2>1, <2>2, <2>3
<1>3. \/ /\ Awaits(r, k)
         /\ procs' = [procs EXCEPT ![p] = Sent(r, k + 1, v)]
         /\ reqs' = [reqs EXCEPT ![r] = Handler(r, k + 1, @)]
      \/ /\ procs' = [procs EXCEPT ![p] = v]
         /\ UNCHANGED reqs
  OBVIOUS
<1> HIDE DEF r, k
<1>4. CASE /\ Awaits(r, k)
           /\ procs' = [procs EXCEPT ![p] = Sent(r, k + 1, v)]
           /\ reqs' = [reqs EXCEPT ![r] = Handler(r, k + 1, @)]
  <2>1. Holds(r) /\ reqs[r].pid = p
    BY <1>2, <1>4 DEF Awaits, Holds, HolderInv, WorkInv
  <2>2. reqs' = [reqs EXCEPT ![r] = Handler(r, k + 1, reqs[r])]
    BY <1>4
  <2> QED
    BY <1>2, <1>4, <2>1, <2>2, RunsOn
<1>5. CASE procs' = [procs EXCEPT ![p] = v] /\ UNCHANGED reqs
  <2>1. ASSUME NEW o \in Pid
        PROVE  Quiet(o)
    <3>1. CASE o = p
      <4>1. procs'[o] = v
        BY <1>5, <3>1 DEF Types
      <4>2. procs[p].st \notin {"idle", "unborn", "gone"}
        BY DEF HolderInv, WorkInv
      <4> QED
        BY <1>2, <3>1, <4>1, <4>2 DEF Quiet
    <3>2. CASE o # p
      <4>1. procs'[o] = procs[o]
        BY <1>5, <3>2 DEF Types
      <4> QED
        BY <4>1 DEF Quiet, HolderInv, WorkInv
    <3> QED
      BY <3>1, <3>2
  <2>2. \A s \in Req : Calm(s)
    BY <1>5 DEF Calm, Holds, Inside, Fresh, HolderInv, LeaseInv, LockInv
  <2>3. \A c \in Conn : Kept(c)
    BY DEF Kept
  <2> QED
    BY <2>1, <2>2, <2>3, CalmKeeps
<1> QED
  BY <1>3, <1>4, <1>5
LentInv == HolderInv /\ CleanInv

LEMMA ServerKeepsLent ==
  ASSUME TypeOK, LentInv, NEW p \in Pid, ServerDoes(p)
  PROVE  LentInv'
<1> Types
  BY TypeParts
<1> DEFINE r == Head(procs[p].work)[1]
           k == Head(procs[p].work)[2]
           s == Batch[r][k]
           x == Executed(procs[p], s)
           v == [x EXCEPT !.work = Tail(@)]
           w == [v EXCEPT !.tainted = @ \/ TxnEffect(s, MySql) # "None"
                                        \/ ChangesSessionContext(s)]
           o == Observe(v, s)
<1>1. /\ procs[p] \in ProcRec /\ procs[p].work # <<>>
      /\ CleanProc(procs[p]) /\ HolderInv
  BY DEF ServerDoes, Types, LentInv, CleanInv
<1>2. r \in Req /\ k \in Nat \ {0} /\ r \in Whose(procs[p].work)
  BY <1>1, HeadOfWork, WhoseWork DEF ProcRec, Work
<1>3. /\ x \in ProcRec /\ x.work = procs[p].work /\ x.st = procs[p].st
      /\ x.pool = procs[p].pool
  BY ZenonT(40), <1>1, ExecutedType DEF Executed, ProcRec
<1>4. /\ v \in ProcRec /\ v.work = Tail(procs[p].work) /\ v.st = procs[p].st
      /\ v.pool = procs[p].pool
  <2>1. v \in ProcRec
    BY <1>1, <1>3, HeadOfWork
  <2> HIDE DEF x
  <2> QED
    BY <1>3, <2>1 DEF ProcRec
<1>5. /\ \/ /\ Awaits(r, k)
            /\ procs' = [procs EXCEPT ![p] = Sent(r, k + 1, o)]
            /\ reqs' = [reqs EXCEPT ![r] = Handler(r, k + 1, @)]
         \/ /\ procs' = [procs EXCEPT ![p] = w]
            /\ UNCHANGED reqs
      /\ UNCHANGED <<life, editor>>
  BY DEF ServerDoes, conns
<1>6. (procs[p].st = "held" => CleanProc(o)) /\ CleanProc(w)
  BY <1>1, CleanExecuted
<1>7. (v.tainted \/ TxnEffect(s, MySql) # "None" \/ ChangesSessionContext(s))
        \in BOOLEAN
  OBVIOUS
<1> HIDE DEF r, k, s, x, v
<1>8. /\ w \in ProcRec /\ w.work = Tail(procs[p].work)
      /\ w.st = procs[p].st /\ w.pool = procs[p].pool
  BY <1>4, <1>7 DEF ProcRec
<1>9. /\ o \in ProcRec /\ o.work = Tail(procs[p].work)
      /\ o.st = procs[p].st /\ o.pool = procs[p].pool
  <2>1. o \in ProcRec
    BY <1>4, ObserveType
  <2> QED
    BY <1>4, <2>1 DEF Observe, ProcRec
<1> HIDE DEF w, o
<1>10. CASE /\ Awaits(r, k)
            /\ procs' = [procs EXCEPT ![p] = Sent(r, k + 1, o)]
            /\ reqs' = [reqs EXCEPT ![r] = Handler(r, k + 1, @)]
  <2>1. HolderInv'
    BY <1>1, <1>5, <1>9, <1>10, HeadKeepsHolders DEF r, k
  <2>2. procs[p].st = "held"
    BY <1>1, <1>2, <1>10
       DEF HolderInv, WorkInv, LeaseInv, Awaits, Holds
  <2>3. CleanProc(Sent(r, k + 1, o))
    <3>1. k + 1 \in Nat \ {0}
      BY <1>2
    <3> QED
      BY <1>2, <1>6, <1>9, <2>2, <3>1, CleanSent
  <2>4. CleanInv'
    BY <1>10, <2>3 DEF LentInv, CleanInv, Types
  <2> QED
    BY <2>1, <2>4 DEF LentInv
<1>11. CASE procs' = [procs EXCEPT ![p] = w] /\ UNCHANGED reqs
  <2>1. HolderInv'
    BY <1>1, <1>5, <1>8, <1>11, HeadKeepsHolders
  <2>2. CleanInv'
    BY <1>6, <1>11 DEF LentInv, CleanInv, Types
  <2> QED
    BY <2>1, <2>2 DEF LentInv
<1> QED
  BY <1>5, <1>10, <1>11

LEMMA KillKeepsLent ==
  ASSUME TypeOK, LentInv, NEW p \in Pid, Kill(p), UNCHANGED <<conns, editor>>
  PROVE  LentInv'
<1> Types
  BY TypeParts
<1> DEFINE r == Head(procs[p].work)[1]
           k == Head(procs[p].work)[2]
           v == [procs[p] EXCEPT !.work = Tail(@)]
<1>1. procs[p] \in ProcRec /\ CleanProc(procs[p]) /\ HolderInv
  BY DEF Types, LentInv, CleanInv
<1>2. CASE procs[p].work = <<>>
  <2>1. UNCHANGED <<procs, reqs, life, editor>>
    BY <1>2 DEF Kill, conns
  <2>2. /\ \A s \in Req : Calm(s)
        /\ \A o \in Pid : Quiet(o)
        /\ \A c \in Conn : Kept(c)
    BY <1>1, <2>1 DEF Calm, Quiet, Kept, Holds, Inside, Fresh, HolderInv,
       LeaseInv, LockInv, WorkInv
  <2> QED
    BY <1>1, <2>1, <2>2, CalmKeeps DEF LentInv, CleanInv
<1>3. CASE procs[p].work # <<>>
  <2>1. r \in Req /\ k \in Nat \ {0} /\ v \in ProcRec
    BY <1>1, <1>3, HeadOfWork
  <2>2. /\ v.st = procs[p].st /\ v.pool = procs[p].pool
        /\ v.work = Tail(procs[p].work) /\ CleanProc(v)
    BY <1>1, CleanTail DEF ProcRec
  <2>3. /\ \/ /\ Awaits(r, k)
              /\ procs' = [procs EXCEPT ![p] = Sent(r, k + 1, v)]
              /\ reqs' = [reqs EXCEPT ![r] = Handler(r, k + 1, @)]
           \/ /\ procs' = [procs EXCEPT ![p] = v]
              /\ UNCHANGED reqs
        /\ UNCHANGED <<life, editor>>
    BY <1>3 DEF Kill, conns
  <2> HIDE DEF v
  <2>4. HolderInv'
    BY <1>1, <1>3, <2>1, <2>2, <2>3, HeadKeepsHolders
  <2> HIDE DEF r, k
  <2>5. CleanProc(Sent(r, k + 1, v))
    BY <2>1, <2>2, CleanSent
  <2>6. CleanInv'
    BY <2>2, <2>3, <2>5 DEF LentInv, CleanInv, Types
  <2> QED
    BY <2>4, <2>6 DEF LentInv
<1> QED
  BY <1>2, <1>3

(* Processes stay clean where the registry and the handlers touch them.    *)
LEMMA RegistryKeepsClean ==
  ASSUME TypeOK, LentInv,
         \/ Connect \/ Disconnect
         \/ \E c \in Conn : CloseStep(c) \/ DropConnection(c) \/ IdleClose(c)
         \/ \E p \in Pid : PingReturned(p)
  PROVE  CleanInv'
<1> Types /\ CleanInv
  BY TypeParts DEF LentInv
<1>1. ASSUME NEW o \in Pid
      PROVE  \/ procs'[o] = procs[o] \/ procs'[o] = Closed(procs[o])
             \/ /\ procs[o].st = "back"
                /\ procs'[o] = [procs[o] EXCEPT !.st = "idle"]
  <2>1. CASE \/ Connect \/ Disconnect
             \/ \E c \in Conn : CloseSession(c) \/ IdleClose(c)
                                \/ SessionClosed(c)
    BY <2>1 DEF Connect, Disconnect, CloseSession, IdleClose, SessionClosed,
       Types
  <2>2. ASSUME NEW c \in Conn, NEW P \in toClose[c],
               ClosePool(c, P) \/ PoolDrained(c, P)
        PROVE  procs'[o] = procs[o] \/ procs'[o] = Closed(procs[o])
    BY <2>2 DEF ClosePool, PoolDrained
  <2>3. ASSUME NEW c \in Conn, DropConnection(c)
        PROVE  procs'[o] = procs[o] \/ procs'[o] = Closed(procs[o])
    BY <2>3 DEF DropConnection
  <2>4. ASSUME NEW p \in Pid, PingReturned(p)
        PROVE  \/ procs'[o] = procs[o] \/ procs'[o] = Closed(procs[o])
               \/ /\ procs[o].st = "back"
                  /\ procs'[o] = [procs[o] EXCEPT !.st = "idle"]
    BY <2>4 DEF PingReturned, Types
  <2> QED
    BY <2>1, <2>2, <2>3, <2>4 DEF CloseStep
<1>2. ASSUME NEW o \in Pid
      PROVE  CleanProc(procs'[o])
  <2>1. procs[o] \in ProcRec /\ CleanProc(procs[o])
    BY DEF CleanInv, Types
  <2>2. CleanProc(Closed(procs[o]))
    BY CleanClosed
  <2>3. procs[o].st = "back" => CleanProc([procs[o] EXCEPT !.st = "idle"])
    BY <2>1, CleanPinged
  <2> QED
    BY <1>1, <2>1, <2>2, <2>3
<1> QED
  BY <1>2 DEF CleanInv

LEMMA HandlerKeepsClean ==
  ASSUME TypeOK, LentInv, NEW r \in Req,
         \/ TryLock(r) \/ Borrow(r) \/ StmtCancelled(r) \/ ClientGone(r)
         \/ KillOwn(r) \/ KillOwnFails(r)
  PROVE  CleanInv'
<1> Types /\ CleanInv
  BY TypeParts DEF LentInv
<1>1. reqs[r] \in ReqRec /\ reqs[r].at + 1 \in Nat \ {0} /\ 1 \in Nat \ {0}
  BY DEF Types, ReqRec
<1>2. ASSUME NEW p, NEW k \in Nat \ {0}, NEW v \in ProcRec, CleanProc(v),
             \/ procs' = [procs EXCEPT ![p] = Sent(r, k, v)]
             \/ procs' = [procs EXCEPT ![p] = Left(r, v)]
             \/ UNCHANGED procs
      PROVE  CleanInv'
  <2>1. CleanProc(Sent(r, k, v)) /\ CleanProc(Left(r, v))
    BY <1>2, CleanSent, CleanLeft
  <2> QED
    BY <1>2, <2>1 DEF CleanInv, Types
<1>3. ASSUME NEW p, p \in Pid
      PROVE  procs[p] \in ProcRec /\ CleanProc(procs[p])
  BY <1>3 DEF Types, CleanInv
<1>4. CASE TryLock(r)
  <2>1. CASE editor[reqs[r].conn] = None
    BY <1>4, <2>1 DEF TryLock, CleanInv
  <2>2. CASE editor[reqs[r].conn] # None
    <3>1. reqs[r].conn \in Conn
      BY <1>4, ActiveConn DEF TryLock, Active
    <3>2. editor[reqs[r].conn] \in Pid
      BY <2>2, <3>1 DEF Types
    <3> DEFINE p == editor[reqs[r].conn]
    <3>3. procs' = [procs EXCEPT ![p] = Sent(r, 1, procs[p])]
      BY <1>4, <2>2 DEF TryLock
    <3>4. procs[p] \in ProcRec /\ CleanProc(procs[p])
      BY <1>3, <3>2
    <3> HIDE DEF p
    <3> QED
      BY <1>1, <1>2, <3>3, <3>4
  <2> QED
    BY <2>1, <2>2
<1>5. CASE Borrow(r)
  <2> DEFINE lent(p) == IF procs[p].st = "idle"
                        THEN [procs[p] EXCEPT !.st = "held"]
                        ELSE [NoProc EXCEPT !.pool = reqs[r].pool, !.st = "held"]
  <2>1. PICK p \in Pid : procs' = [procs EXCEPT ![p] = Sent(r, 1, lent(p))]
    BY <1>5 DEF Borrow
  <2>2. lent(p) \in ProcRec /\ CleanProc(lent(p))
    <3>1. procs[p] \in ProcRec /\ CleanProc(procs[p])
      BY <1>3
    <3>2. reqs[r].pool \in PoolId \cup {None}
      BY <1>1 DEF ReqRec
    <3> QED
      <4>1. CASE procs[p].st = "idle"
        BY <3>1, <4>1, MovedType DEF CleanProc, ProcRec
      <4>2. CASE procs[p].st # "idle"
        BY <3>2, <4>2, NoProcType DEF CleanProc, NoProc, ProcRec
      <4> QED
        BY <4>1, <4>2
  <2> HIDE DEF lent
  <2> QED
    BY <1>1, <1>2, <2>1, <2>2
<1>6. CASE StmtCancelled(r)
  BY <1>1, <1>2, <1>3, <1>6, HolderType DEF StmtCancelled, Holds
<1>7. CASE ClientGone(r)
  <2>1. CASE reqs[r].pid = None
    BY <1>7, <2>1 DEF ClientGone, CleanInv
  <2>2. CASE reqs[r].pid # None
    <3>1. reqs[r].pid \in Pid
      BY <1>1, <2>2 DEF ReqRec
    <3> QED
      BY <1>1, <1>2, <1>3, <1>7, <2>2, <3>1 DEF ClientGone
  <2> QED
    BY <2>1, <2>2
<1>8. CASE KillOwn(r) \/ KillOwnFails(r)
  <2> DEFINE v == procs[reqs[r].pid]
             w == [v EXCEPT !.work = Tail(@)]
  <2>1. v \in ProcRec /\ CleanProc(v)
    BY <1>3, <1>8, HolderType DEF KillOwn, KillOwnFails, Holds
  <2>2. \/ procs' = [procs EXCEPT ![reqs[r].pid] = Sent(r, reqs[r].at + 1, v)]
        \/ /\ v.work # <<>>
           /\ procs' = [procs EXCEPT ![reqs[r].pid] =
                          Sent(r, reqs[r].at + 1, w)]
    BY <1>8 DEF KillOwn, KillOwnFails, AfterKill
  <2>3. v.work # <<>> => w \in ProcRec /\ CleanProc(w)
    BY <2>1, HeadOfWork, CleanTail
  <2> HIDE DEF v, w
  <2> QED
    BY <1>1, <1>2, <2>1, <2>2, <2>3
<1> QED
  BY <1>4, <1>5, <1>6, <1>7, <1>8

LEMMA LentInvariant == Spec => []LentInv
<1>1. Init => LentInv
  <2> SUFFICES ASSUME Init
               PROVE  LentInv
    OBVIOUS
  <2>1. CleanInv
    BY DEF Init, CleanInv, CleanProc, NoProc
  <2>2. LeaseInv /\ HoldApart /\ EditorApart /\ SlotInv /\ ClosingInv /\ LockInv
    BY DEF Init, LeaseInv, HoldApart, EditorApart, SlotInv, ClosingInv,
           LockInv, Holds, Inside, NoReq
  <2>3. WorkInv
    BY WhoseWork DEF Init, WorkInv, NoProc
  <2> QED
    BY <2>1, <2>2, <2>3 DEF LentInv, HolderInv
<1>2. TypeOK /\ PoolsInv /\ LentInv /\ [Next]_vars => LentInv'
  <2> SUFFICES ASSUME TypeOK, PoolsInv, LentInv, [Next]_vars
               PROVE  LentInv'
    OBVIOUS
  <2>0. HolderInv /\ (UNCHANGED procs => CleanInv')
    BY DEF LentInv, CleanInv
  <2>1. CASE \/ Connect \/ Disconnect
             \/ \E c \in Conn : CloseStep(c) \/ DropConnection(c)
                                \/ IdleClose(c)
             \/ \E p \in Pid : PingReturned(p)
    BY <2>0, <2>1, RegistryKeepsHolders, RegistryKeepsClean DEF LentInv
  <2>2. ASSUME NEW r \in Req,
               \/ Arrive(r) \/ FindPool(r) \/ Publish(r) \/ BuildFails(r)
               \/ Refuse(r) \/ AcquireFails(r) \/ TimeLimit(r) \/ Answer(r)
               \/ Stop(r) \/ StopFinds(r) \/ StopMisses(r)
        PROVE  LentInv'
    <3>1. UNCHANGED procs
      BY <2>2 DEF Arrive, FindPool, Publish, BuildFails, Refuse, AcquireFails,
         TimeLimit, Answer, Stop, StopFinds, StopMisses, Fail
    <3> QED
      BY <2>0, <2>2, <3>1, FindingKeepsHolders DEF LentInv
  <2>3. ASSUME NEW r \in Req, TryLock(r) \/ Borrow(r)
        PROVE  LentInv'
    BY <2>0, <2>3, TakingKeepsHolders, HandlerKeepsClean DEF LentInv
  <2>4. ASSUME NEW r \in Req, StmtCancelled(r) \/ ClientGone(r)
        PROVE  LentInv'
    BY <2>0, <2>4, LeavingKeepsHolders, HandlerKeepsClean DEF LentInv
  <2>5. ASSUME NEW r \in Req, KillOwn(r) \/ KillOwnFails(r)
        PROVE  LentInv'
    BY <2>0, <2>5, KillOwnKeepsHolders, HandlerKeepsClean DEF LentInv
  <2>6. ASSUME NEW r \in Req, StopKills(r)
        PROVE  LentInv'
    <3>1. stops[r].pid \in Pid
      BY <2>6, TypeParts DEF StopKills, StopsKnown
    <3> QED
      BY <2>6, <3>1, KillKeepsLent DEF StopKills
  <2>7. ASSUME NEW p \in Pid, ServerDoes(p)
        PROVE  LentInv'
    BY <2>7, ServerKeepsLent
  <2>8. CASE UNCHANGED vars
    <3>1. HolderInv'
      BY <2>0, <2>8, CalmKeeps DEF Calm, Quiet, Kept, Holds, Inside, Fresh,
         HolderInv, LeaseInv, LockInv, WorkInv, vars, conns
    <3> QED
      BY <2>0, <2>8, <3>1 DEF LentInv, vars
  <2> QED
    BY <2>1, <2>2, <2>3, <2>4, <2>5, <2>6, <2>7, <2>8 DEF Next, ReqStep
<1> QED
  BY <1>1, <1>2, PoolsTyped, PoolsInvariant, PTL DEF Spec

(* A server process is lent to one request at a time, what the pool lends  *)
(* is idle, a run of its own shares its process with no statement of       *)
(* another (Session::open, execute_batch and the drop of a session), and a *)
(* transaction or a SET reaches the next borrower only through a statement *)
(* that nobody waited for (Session::observe, close_on_drop).               *)
THEOREM LentOnceAndClean == Spec => []LentAloneAndClean
<1>1. TypeOK /\ LentInv => LentAloneAndClean
  <2> SUFFICES ASSUME TypeOK, LentInv
               PROVE  LentAloneAndClean
    OBVIOUS
  <2>1. ASSUME NEW p \in Pid, procs[p].st = "idle", ~procs[p].tainted
        PROVE  ~procs[p].txn /\ ~procs[p].moved
    BY <2>1 DEF LentInv, CleanInv, CleanProc
  <2>2. ASSUME NEW r \in Req, Holds(r)
        PROVE  /\ procs[reqs[r].pid].st = "held"
               /\ \A q \in Req : Holds(q) /\ reqs[q].pid = reqs[r].pid => q = r
               /\ r \notin Editor =>
                    \A i \in DOMAIN procs[reqs[r].pid].work :
                      procs[reqs[r].pid].work[i][1] = r
    <3>1. /\ procs[reqs[r].pid].st = "held"
          /\ r \notin Editor => Whose(procs[reqs[r].pid].work) \subseteq {r}
      BY <2>2 DEF LentInv, HolderInv, LeaseInv
    <3>2. \A q \in Req : Holds(q) /\ reqs[q].pid = reqs[r].pid => q = r
      BY <2>2 DEF LentInv, HolderInv, HoldApart
    <3>3. \A i \in DOMAIN procs[reqs[r].pid].work :
            procs[reqs[r].pid].work[i][1] \in Whose(procs[reqs[r].pid].work)
      BY DEF Whose
    <3> QED
      BY <3>1, <3>2, <3>3
  <2> QED
    BY <2>1, <2>2 DEF LentAloneAndClean, OneHolder
<1> QED
  BY <1>1, LentInvariant, PoolsTyped, PTL
=============================================================================
