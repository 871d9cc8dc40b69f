------------------------ MODULE EditorSessionProofs ------------------------
(***************************************************************************)
(* Theorems about EditorSession, for every set of runs, contexts, batches  *)
(* and faults: first about runs and their owners, then about the two views *)
(* of the session: no transaction is hidden on PostgreSQL, the remembered  *)
(* context is the server's on MySQL, a transaction that is lost has a      *)
(* cause; and EditorSession implements EditorLease.                        *)
(***************************************************************************)
EXTENDS EditorSession, TLAPS

-----------------------------------------------------------------------------
(* The mutex.                                                              *)

LEMMA AbandonMutex ==
  ASSUME NEW r \in Run, MutexInv, Inside(r), Abandon(r)
  PROVE  MutexInv'
BY RunAssumption DEF MutexInv, Inside, Abandon, Leave, PcValues

LEMMA StartMutex ==
  ASSUME NEW r \in Run, MutexInv, Inside(r), StartBatch(r)
  PROVE  MutexInv'
BY DEF MutexInv, Inside, StartBatch, PcValues

LEMMA NextStmtMutex ==
  ASSUME NEW r \in Run, MutexInv, Inside(r), NextStmt(r)
  PROVE  MutexInv'
BY DEF MutexInv, Inside, NextStmt, PcValues

LEMMA RunStepMutex ==
  ASSUME NEW r \in Run, MutexInv, RunStep(r)
  PROVE  MutexInv'
<1>1. CASE TurnAway(r)
  BY <1>1 DEF TurnAway, Leave, slots, MutexInv, Inside, PcValues
<1>2. CASE TakeLock(r)
  BY <1>2, RunAssumption DEF TakeLock, MutexInv, Inside, PcValues
<1>3. CASE SwitchPool(r)
  BY <1>3 DEF SwitchPool, MutexInv, Inside, PcValues
<1>4. CASE RefuseSwitch(r)
  BY <1>4, AbandonMutex DEF RefuseSwitch, Inside
<1>5. CASE KeepContext(r)
  BY <1>5, StartMutex DEF KeepContext, Inside
<1>6. CASE ApplyContext(r)
  BY <1>6, StartMutex DEF ApplyContext, Inside
<1>7. CASE IgnoreRefusedContext(r)
  BY <1>7, StartMutex DEF IgnoreRefusedContext, Inside
<1>8. CASE FailRefusedContext(r)
  BY <1>8, AbandonMutex DEF FailRefusedContext, Inside
<1>9. CASE FindDead(r)
  BY <1>9 DEF FindDead, MutexInv, Inside, PcValues
<1>10. CASE NoSessionYet(r)
  BY <1>10 DEF NoSessionYet, slots, MutexInv, Inside, PcValues
<1>11. CASE OpenSession(r)
  BY <1>11, StartMutex DEF OpenSession, Inside
<1>12. CASE OpenFails(r)
  BY <1>12, AbandonMutex DEF OpenFails, Inside
<1>13. CASE BatchDone(r)
  BY <1>13 DEF BatchDone, slots, MutexInv, Inside, PcValues
<1>14. CASE StopCancelled(r)
  BY <1>14 DEF StopCancelled, slots, MutexInv, Inside, PcValues
<1>15. CASE SkipWrite(r)
  BY <1>15 DEF SkipWrite, slots, MutexInv, Inside, PcValues
<1>16. CASE SendStmt(r)
  BY <1>16 DEF SendStmt, slots, MutexInv, Inside, PcValues
<1>17. CASE StmtOk(r)
  BY <1>17, NextStmtMutex DEF StmtOk, Inside
<1>18. CASE StmtError(r)
  BY <1>18, NextStmtMutex DEF StmtError, Inside
<1>19. CASE StmtCancelled(r)
  BY <1>19 DEF StmtCancelled, slots, MutexInv, Inside, PcValues
<1>20. CASE StmtTimesOut(r)
  BY <1>20, NextStmtMutex DEF StmtTimesOut, Inside
<1>21. CASE ConnBreaks(r)
  BY <1>21 DEF ConnBreaks, MutexInv, Inside, PcValues
<1>22. CASE Respond(r)
  BY <1>22, RunAssumption DEF Respond, Leave, MutexInv, Inside, PcValues
<1> QED
  BY <1>1, <1>2, <1>3, <1>4, <1>5, <1>6, <1>7, <1>8, <1>9, <1>10, <1>11,
     <1>12, <1>13, <1>14, <1>15, <1>16, <1>17, <1>18, <1>19, <1>20, <1>21,
     <1>22 DEF RunStep

LEMMA AroundMutex ==
  ASSUME MutexInv, Around
  PROVE  MutexInv'
<1>1. ASSUME NEW r \in Run, Arrive(r) PROVE MutexInv'
  BY <1>1 DEF Arrive, slots, MutexInv, Inside, PcValues
<1>2. ASSUME NEW r \in Run, Cancel(r) PROVE MutexInv'
  BY <1>2 DEF Cancel, slots, MutexInv, Inside, PcValues
<1>3. ASSUME NEW r \in Run, ClientGone(r) PROVE MutexInv'
  <2>1. CASE pc[r] = "queued" /\ Leave(r) /\ UNCHANGED slots
    BY <2>1 DEF Leave, slots, MutexInv, Inside, PcValues
  <2>2. CASE Inside(r) /\ Abandon(r)
    BY <2>2, AbandonMutex
  <2> QED
    BY <1>3, <2>1, <2>2 DEF ClientGone, Inside
<1>4. CASE ServerDrops
  BY <1>4 DEF ServerDrops, slots, MutexInv, Inside
<1>5. CASE Unregister
  BY <1>5 DEF Unregister, MutexInv, Inside
<1>6. CASE CloseSession
  BY <1>6, RunAssumption DEF CloseSession, MutexInv, Inside
<1>7. CASE ClosePools
  BY <1>7 DEF ClosePools, MutexInv, Inside
<1>8. CASE CloserDone
  BY <1>8, RunAssumption DEF CloserDone, MutexInv, Inside
<1>9. ASSUME NEW e \in timers, IdleTimer(e) PROVE MutexInv'
  BY <1>9, RunAssumption DEF IdleTimer, MutexInv, Inside
<1> QED
  BY <1>1, <1>2, <1>3, <1>4, <1>5, <1>6, <1>7, <1>8, <1>9 DEF Around

LEMMA StutterMutex == MutexInv /\ UNCHANGED vars => MutexInv'
BY DEF MutexInv, Inside, vars, slots

LEMMA InvMutex == Spec => []MutexInv
<1>1. Init => MutexInv
  BY RunAssumption DEF Init, MutexInv, Inside, PcValues
<1>2. MutexInv /\ [Next]_vars => MutexInv'
  BY RunStepMutex, AroundMutex, StutterMutex DEF Next
<1> QED
  BY <1>1, <1>2, PTL DEF Spec

(* At most one run is past try_lock of the editor mutex, so no two runs,   *)
(* nor a run and a closer, use the session's connection together.          *)
THEOREM MutualExclusion == Spec => []OneRunOnSession
<1>1. MutexInv => OneRunOnSession
  BY DEF MutexInv, OneRunOnSession
<1> QED
  BY <1>1, InvMutex, PTL

-----------------------------------------------------------------------------
(* The batch: what the server executed so far.                             *)

BatchInv == RunInv /\ GateInv

(* Only the mutex holder is past try_lock, so a step of it that moves only *)
(* its own program counter leaves every other run outside.                 *)
LEMMA OthersOutside ==
  ASSUME NEW r \in Run, NEW q \in Run, MutexInv, Inside(r), q # r
  PROVE  ~Inside(q)
BY DEF MutexInv

LEMMA AbandonBatch ==
  ASSUME NEW r \in Run, MutexInv, Inside(r), BatchInv, Abandon(r)
  PROVE  BatchInv'
<1>1. \A q \in Run : pc'[q] \in {"idle", "queued"}
  BY OthersOutside DEF Abandon, Leave, Inside, MutexInv
<1>2. LocalsAtRest' /\ ran' = {} /\ at' = 1
  BY DEF Abandon, ResetLocals, LocalsAtRest
<1> QED
  BY <1>1, <1>2 DEF BatchInv, RunInv, GateInv, LocalsAtRest

LEMMA StartBatchInv ==
  ASSUME NEW r \in Run, MutexInv, Inside(r), BatchInv, StartBatch(r),
         pc[r] \in {"apply", "open"}, UNCHANGED note
  PROVE  BatchInv'
<1>1. \A q \in Run : q # r => pc'[q] \in {"idle", "queued"}
  BY OthersOutside DEF StartBatch, Inside, MutexInv
<1>2. pc'[r] = "exec" /\ lock' = r
  BY DEF StartBatch, MutexInv, Inside
<1>3. at' = 1 /\ ran' = ran /\ again' = again /\ batch' = batch
  BY DEF StartBatch
<1>4. \A k \in ran : again /\ k = 1
  BY DEF BatchInv, RunInv, LocalsAtRest
<1> QED
  BY <1>1, <1>2, <1>3, <1>4 DEF BatchInv, RunInv, GateInv, Gated, Stmt

(* A statement leaves "await" with the server having executed it or not.   *)
LEMMA AdvanceBatch ==
  ASSUME NEW r \in Run, MutexInv, BatchInv, at' \in {at, at + 1},
         pc[r] = "await", UNCHANGED <<lock, batch, again, note>>,
         NEW p \in {"exec", "settle"}, pc' = [pc EXCEPT ![r] = p],
         ran' \in {ran, ran \cup {at}}, p = "exec" => at' = at + 1
  PROVE  BatchInv'
<1>1. \A q \in Run : q # r => pc'[q] \in {"idle", "queued"}
  BY OthersOutside DEF Inside, MutexInv
<1>2. pc'[r] = p /\ lock' = r
  BY DEF MutexInv, Inside
<1>3. \A k \in ran : k < at \/ (again /\ k = 1)
  BY DEF BatchInv, RunInv
<1>4. AllowWrites \/ IsReadOnlySafe(batch[at])
  BY DEF BatchInv, GateInv, Gated, Stmt
<1>5. GateInv'
  BY <1>1, <1>2, <1>4 DEF BatchInv, GateInv
<1>6. RunInv'
  <2>1. p = "exec" => \A k \in ran' : k < at' \/ (again' /\ k = 1)
    BY <1>3 DEF BatchInv, RunInv
  <2> QED
    BY <1>1, <1>2, <2>1 DEF BatchInv, RunInv
<1> QED
  BY <1>5, <1>6 DEF BatchInv

(* A step of a run that touches no statement, by the mutex holder or by    *)
(* one that stays outside.                                                 *)
LEMMA QuietBatch ==
  ASSUME BatchInv, MutexInv, MutexInv',
         UNCHANGED <<batch, at, again, note, ran>>,
         \A q \in Run : pc'[q] = pc[q] \/ pc'[q] \in {"idle", "queued", "settle"},
         lock' \notin Run => LocalsAtRest
  PROVE  BatchInv'
<1>1. GateInv'
  BY DEF BatchInv, GateInv, Gated, Stmt
<1>2. RunInv'
  BY DEF BatchInv, RunInv, LocalsAtRest
<1> QED
  BY <1>1, <1>2 DEF BatchInv

LEMMA RunStepBatch ==
  ASSUME NEW r \in Run, MutexInv, MutexInv', BatchInv, RunStep(r)
  PROVE  BatchInv'
<1> USE DEF Inside
<1>a. LocalsAtRest \/ lock \in Run
  BY DEF BatchInv, RunInv
<1>1. CASE TurnAway(r)
  BY <1>1, <1>a, QuietBatch
     DEF TurnAway, Leave, slots, locals, history, MutexInv
<1>2. CASE TakeLock(r)
  <2>1. \A q \in Run : q # r => pc'[q] \in {"idle", "queued"}
    BY <1>2, RunAssumption DEF TakeLock, MutexInv
  <2>2. LocalsAtRest /\ lock' = r /\ pc'[r] = "switch" /\ at' = at
    BY <1>2, RunAssumption DEF TakeLock, MutexInv, BatchInv, RunInv
  <2>3. UNCHANGED <<ran, again, note>>
    BY <1>2 DEF TakeLock
  <2>4. LocalsAtRest' /\ ran' = {}
    BY <2>2, <2>3 DEF LocalsAtRest
  <2> QED
    BY <2>1, <2>2, <2>4 DEF BatchInv, RunInv, GateInv, LocalsAtRest
<1>3. CASE SwitchPool(r)
  <2>1. \A q \in Run : q # r => pc'[q] \in {"idle", "queued"}
    BY <1>3, OthersOutside DEF SwitchPool, MutexInv
  <2>2. LocalsAtRest /\ pc'[r] = "apply" /\ UNCHANGED <<locals, lock, ran>>
    BY <1>3 DEF SwitchPool, MutexInv, BatchInv, RunInv
  <2>3. LocalsAtRest' /\ ran' = {}
    BY <2>2 DEF LocalsAtRest, locals
  <2> QED
    BY <2>1, <2>2, <2>3 DEF BatchInv, RunInv, GateInv, LocalsAtRest, locals
<1>4. CASE RefuseSwitch(r)
  BY <1>4, AbandonBatch DEF RefuseSwitch
<1>5. CASE KeepContext(r)
  BY <1>5, StartBatchInv DEF KeepContext
<1>6. CASE ApplyContext(r)
  BY <1>6, StartBatchInv DEF ApplyContext
<1>7. CASE IgnoreRefusedContext(r)
  BY <1>7, StartBatchInv DEF IgnoreRefusedContext
<1>8. CASE FailRefusedContext(r)
  BY <1>8, AbandonBatch DEF FailRefusedContext
<1>9. CASE FindDead(r) \/ NoSessionYet(r)
  <2>1. \A q \in Run : q # r => pc'[q] \in {"idle", "queued"}
    BY <1>9, OthersOutside DEF FindDead, NoSessionYet, MutexInv
  <2>2. /\ LocalsAtRest /\ lock = r /\ pc'[r] = "open"
        /\ UNCHANGED <<lock, ran, again, at, batch>>
    BY <1>9 DEF FindDead, NoSessionYet, MutexInv, BatchInv, RunInv, slots,
                locals, history
  <2> QED
    BY <2>1, <2>2 DEF BatchInv, RunInv, GateInv, LocalsAtRest
<1>10. CASE OpenSession(r)
  BY <1>10, StartBatchInv DEF OpenSession
<1>11. CASE OpenFails(r)
  BY <1>11, AbandonBatch DEF OpenFails
<1>12. CASE BatchDone(r) \/ StopCancelled(r)
  <2>1. /\ pc' = [pc EXCEPT ![r] = "settle"] /\ lock = r
        /\ UNCHANGED <<locals, slots, history>>
    BY <1>12 DEF BatchDone, StopCancelled, MutexInv
  <2> QED
    BY <2>1, QuietBatch DEF MutexInv, locals, slots, history
<1>13. CASE SkipWrite(r)
  <2>1. /\ pc' = pc /\ at' = at + 1 /\ lock' = lock
        /\ UNCHANGED <<batch, again, note, ran>>
    BY <1>13 DEF SkipWrite, slots, history
  <2>2. pc[r] = "exec" /\ \A q \in Run : q # r => pc[q] \in {"idle", "queued"}
    BY <1>13, OthersOutside DEF SkipWrite, MutexInv
  <2>3. \A k \in ran : k < at' \/ (again /\ k = 1)
    BY <2>1, <2>2 DEF BatchInv, RunInv
  <2> QED
    BY <2>1, <2>2, <2>3 DEF BatchInv, RunInv, GateInv, LocalsAtRest
<1>14. CASE SendStmt(r)
  <2>1. \A q \in Run : q # r => pc'[q] \in {"idle", "queued"}
    BY <1>14, OthersOutside DEF SendStmt, MutexInv
  <2>2. /\ ~Gated /\ pc[r] = "exec" /\ pc'[r] = "await" /\ lock = r
        /\ UNCHANGED <<batch, again, note, ran, at, lock>>
    BY <1>14 DEF SendStmt, MutexInv, slots, history, locals
  <2> QED
    BY <2>1, <2>2 DEF BatchInv, RunInv, GateInv, LocalsAtRest, Gated, Stmt
<1>15. CASE StmtOk(r)
  BY <1>15, AdvanceBatch DEF StmtOk, NextStmt, RecordRan
<1>16. CASE StmtError(r)
  BY <1>16, AdvanceBatch DEF StmtError, NextStmt
<1>17. CASE StmtCancelled(r)
  <2>1. ran' \in {ran, ran \cup {at}}
    BY <1>17 DEF StmtCancelled, GiveUp, RecordRan
  <2> QED
    BY <1>17, <2>1, AdvanceBatch DEF StmtCancelled, locals, slots
<1>18. CASE StmtTimesOut(r)
  <2>1. ran' \in {ran, ran \cup {at}}
    BY <1>18 DEF StmtTimesOut, GiveUp, RecordRan
  <2> QED
    BY <1>18, <2>1, AdvanceBatch DEF StmtTimesOut, NextStmt
<1>19. CASE ConnBreaks(r)
  <2>1. ran' \in {ran, ran \cup {at}}
    BY <1>19 DEF ConnBreaks, RecordRan
  <2>2. \A q \in Run : q # r => pc'[q] \in {"idle", "queued"}
    BY <1>19, OthersOutside DEF ConnBreaks, MutexInv
  <2>3. /\ pc[r] = "await" /\ lock = r /\ lock' = lock /\ at' = at
        /\ batch' = batch /\ again' = (again \/ RunsAgain)
        /\ pc'[r] = IF RunsAgain THEN "open" ELSE "settle"
    BY <1>19 DEF ConnBreaks, MutexInv
  <2>4. GateInv'
    BY <2>1, <2>2, <2>3 DEF BatchInv, GateInv, Gated, Stmt
  <2>5. RunsAgain => ran' \subseteq {1}
    <3>1. RunsAgain => at = 1 /\ ~again
      BY DEF RunsAgain
    <3>2. \A k \in ran : k \in Nat \ {0} /\ (k < at \/ again)
      BY <2>3 DEF BatchInv, RunInv
    <3>3. RunsAgain => ran = {}
      BY <3>1, <3>2
    <3> QED
      BY <2>1, <3>1, <3>3
  <2>6. again' => Classify(batch'[1]) = "Read"
    <3>1. CASE RunsAgain
      BY <2>3, <3>1 DEF RunsAgain
    <3>2. CASE ~RunsAgain
      <4>1. again' => again
        BY <2>3, <3>2
      <4> QED
        BY <2>3, <4>1 DEF BatchInv, RunInv
    <3> QED
      BY <3>1, <3>2
  <2>7. RunsAgain => again'
    BY <2>3
  <2>8. RunInv'
    BY <2>1, <2>2, <2>3, <2>5, <2>6, <2>7 DEF BatchInv, RunInv
  <2> QED
    BY <2>4, <2>8 DEF BatchInv
<1>20. CASE Respond(r)
  <2>1. \A q \in Run : pc'[q] \in {"idle", "queued"}
    BY <1>20, OthersOutside DEF Respond, Leave, MutexInv
  <2>2. LocalsAtRest' /\ ran' = {} /\ at' = 1
    BY <1>20 DEF Respond, ResetLocals, LocalsAtRest
  <2> QED
    BY <2>1, <2>2 DEF BatchInv, RunInv, GateInv, LocalsAtRest
<1> QED
  BY <1>1, <1>2, <1>3, <1>4, <1>5, <1>6, <1>7, <1>8, <1>9, <1>10, <1>11,
     <1>12, <1>13, <1>14, <1>15, <1>16, <1>17, <1>18, <1>19, <1>20
     DEF RunStep

LEMMA AroundBatch ==
  ASSUME MutexInv, MutexInv', BatchInv, Around
  PROVE  BatchInv'
<1> USE DEF Inside
<1>a. LocalsAtRest \/ lock \in Run
  BY DEF BatchInv, RunInv
<1>1. ASSUME NEW r \in Run, Arrive(r) \/ Cancel(r) PROVE BatchInv'
  BY <1>1, <1>a, QuietBatch
     DEF Arrive, Cancel, slots, locals, history, MutexInv
<1>2. ASSUME NEW r \in Run, ClientGone(r) PROVE BatchInv'
  <2>1. CASE pc[r] = "queued" /\ Leave(r) /\ UNCHANGED <<locals, slots, history>>
    BY <2>1, <1>a, QuietBatch DEF Leave, slots, locals, history, MutexInv
  <2>2. CASE Inside(r) /\ Abandon(r)
    BY <2>2, AbandonBatch
  <2> QED
    BY <1>2, <2>1, <2>2 DEF ClientGone
<1>3. CASE ServerDrops \/ Unregister \/ ClosePools
  BY <1>3, <1>a, QuietBatch
     DEF ServerDrops, Unregister, ClosePools, slots, locals, history
<1>4. CASE CloseSession \/ CloserDone
  BY <1>4, <1>a, QuietBatch, RunAssumption
     DEF CloseSession, CloserDone, locals, history
<1>5. ASSUME NEW e \in timers, IdleTimer(e) PROVE BatchInv'
  BY <1>5, <1>a, QuietBatch, RunAssumption DEF IdleTimer, locals
<1> QED
  BY <1>1, <1>2, <1>3, <1>4, <1>5 DEF Around

LEMMA InvBatch == Spec => []BatchInv
<1>1. Init => BatchInv
  BY RunAssumption DEF Init, BatchInv, RunInv, GateInv, LocalsAtRest
<1>2. MutexInv /\ MutexInv' /\ BatchInv /\ [Next]_vars => BatchInv'
  <2>1. MutexInv /\ MutexInv' /\ BatchInv /\ UNCHANGED vars => BatchInv'
    BY DEF BatchInv, RunInv, GateInv, LocalsAtRest, Gated, Stmt, vars, slots,
           locals, history
  <2> QED
    BY <2>1, RunStepBatch, AroundBatch DEF Next
<1> QED
  BY <1>1, <1>2, InvMutex, PTL DEF Spec

(* What the server executed on a read-only connection passed the gate, and *)
(* a statement that passes the gate writes nothing.                        *)
LEMMA GatedWritesNothing ==
  \A s : IsReadOnlySafe(s) => ~WritesData(s)
BY DEF IsReadOnlySafe, WritesData, Classify

(* On a connection opened without allow_writes no batch makes the server   *)
(* execute a statement that writes, however it stops, times out or repeats.*)
THEOREM ReadOnlyGate == Spec => []ReadOnlyNeverWrites
<1>1. BatchInv => ReadOnlyNeverWrites
  BY GatedWritesNothing DEF BatchInv, GateInv, ReadOnlyNeverWrites
<1> QED
  BY <1>1, InvBatch, PTL

-----------------------------------------------------------------------------
(* The second run of a batch.                                              *)

(* The only statement a run can reach after the server executed it is the  *)
(* first one of a second run, and that one reads.                          *)
LEMMA OnlyReadsRepeat ==
  ASSUME NEW r \in Run, BatchInv, pc[r] = "await", at \in ran
  PROVE  Classify(Stmt) = "Read"
<1>1. at \in Nat \ {0} /\ (at < at \/ (again /\ at = 1))
  BY DEF BatchInv, RunInv
<1>2. again /\ at = 1
  BY <1>1
<1> QED
  BY <1>2 DEF BatchInv, RunInv, Stmt

LEMMA RecordKeeps ==
  ASSUME NEW r \in Run, BatchInv, pc[r] = "await", NoWriteTwice, RecordRan
  PROVE  NoWriteTwice'
<1>1. CASE at \in ran
  BY <1>1, OnlyReadsRepeat DEF RecordRan, NoWriteTwice
<1>2. CASE at \notin ran
  BY <1>2 DEF RecordRan, NoWriteTwice
<1> QED
  BY <1>1, <1>2

LEMMA RunStepRepeats ==
  ASSUME NEW r \in Run, BatchInv, NoWriteTwice, RunStep(r)
  PROVE  NoWriteTwice'
<1>1. CASE UNCHANGED repeated
  BY <1>1 DEF NoWriteTwice
<1>2. CASE TakeLock(r)
  BY <1>2 DEF TakeLock, NoWriteTwice
<1>3. CASE StmtOk(r)
  BY <1>3, RecordKeeps DEF StmtOk
<1>4. CASE StmtCancelled(r)
  BY <1>4, <1>1, RecordKeeps DEF StmtCancelled, GiveUp
<1>5. CASE StmtTimesOut(r)
  BY <1>5, <1>1, RecordKeeps DEF StmtTimesOut, GiveUp
<1>6. CASE ConnBreaks(r)
  BY <1>6, <1>1, RecordKeeps DEF ConnBreaks
<1>7. CASE TurnAway(r) \/ NoSessionYet(r) \/ BatchDone(r) \/ StopCancelled(r)
            \/ SkipWrite(r) \/ SendStmt(r)
  BY <1>7, <1>1 DEF TurnAway, NoSessionYet, BatchDone, StopCancelled,
                    SkipWrite, SendStmt, history
<1>8. CASE SwitchPool(r) \/ RefuseSwitch(r) \/ FailRefusedContext(r)
            \/ FindDead(r) \/ OpenFails(r) \/ StmtError(r) \/ Respond(r)
  BY <1>8, <1>1 DEF SwitchPool, RefuseSwitch, FailRefusedContext, FindDead,
                    OpenFails, StmtError, Respond
<1>9. CASE KeepContext(r) \/ ApplyContext(r) \/ IgnoreRefusedContext(r)
            \/ OpenSession(r)
  BY <1>9, <1>1 DEF KeepContext, ApplyContext, IgnoreRefusedContext,
                    OpenSession, StartBatch
<1> QED
  BY <1>2, <1>3, <1>4, <1>5, <1>6, <1>7, <1>8, <1>9 DEF RunStep

LEMMA AroundRepeats ==
  ASSUME BatchInv, NoWriteTwice, Around
  PROVE  NoWriteTwice'
<1>1. CASE UNCHANGED repeated
  BY <1>1 DEF NoWriteTwice
<1>2. ASSUME NEW r \in Run, ClientGone(r) PROVE NoWriteTwice'
  <2>1. CASE pc[r] = "await"
    <3>1. \/ UNCHANGED repeated
          \/ at \in ran /\ repeated' = repeated \cup {Stmt}
      BY <1>2, <2>1 DEF ClientGone
    <3>2. at \in ran => Classify(Stmt) = "Read"
      BY <2>1, OnlyReadsRepeat
    <3> QED
      BY <3>1, <3>2 DEF NoWriteTwice
  <2>2. CASE pc[r] # "await"
    BY <1>2, <2>2, <1>1 DEF ClientGone, history
  <2> QED
    BY <2>1, <2>2
<1>3. CASE (\E r \in Run : Arrive(r) \/ Cancel(r)) \/ ServerDrops
            \/ Unregister \/ CloseSession \/ ClosePools \/ CloserDone
            \/ \E e \in timers : IdleTimer(e)
  BY <1>3, <1>1 DEF Arrive, Cancel, ServerDrops, Unregister, CloseSession,
                    ClosePools, CloserDone, IdleTimer, history
<1> QED
  BY <1>2, <1>3 DEF Around

(* Running a batch again after its connection died never makes the server  *)
(* execute a second time what the helper classifies as anything but a read.*)
THEOREM OnlyReadsRunAgain == Spec => []NoWriteTwice
<1>1. Init => NoWriteTwice
  BY DEF Init, NoWriteTwice
<1>2. BatchInv /\ NoWriteTwice /\ [Next]_vars => NoWriteTwice'
  <2>1. NoWriteTwice /\ UNCHANGED vars => NoWriteTwice'
    BY DEF NoWriteTwice, vars, history
  <2> QED
    BY <2>1, RunStepRepeats, AroundRepeats DEF Next
<1> QED
  BY <1>1, <1>2, InvBatch, PTL DEF Spec

-----------------------------------------------------------------------------
(* The notice of the idle timer.                                           *)

LEMMA RunStepNotice ==
  ASSUME NEW r \in Run, IdleLossKept, RunStep(r)
  PROVE  IdleLossKept'
<1>1. CASE UNCHANGED <<notice, idleLoss>>
  BY <1>1 DEF IdleLossKept
<1>2. CASE Respond(r)
  BY <1>2 DEF Respond, IdleLossKept
<1>3. CASE TurnAway(r) \/ NoSessionYet(r) \/ BatchDone(r) \/ StopCancelled(r)
            \/ SkipWrite(r) \/ SendStmt(r)
  BY <1>3, <1>1 DEF TurnAway, NoSessionYet, BatchDone, StopCancelled,
                    SkipWrite, SendStmt, history, slots
<1>4. CASE TakeLock(r) \/ SwitchPool(r) \/ FindDead(r) \/ ConnBreaks(r)
  BY <1>4, <1>1 DEF TakeLock, SwitchPool, FindDead, ConnBreaks
<1>5. CASE RefuseSwitch(r) \/ FailRefusedContext(r) \/ OpenFails(r)
  BY <1>5, <1>1 DEF RefuseSwitch, FailRefusedContext, OpenFails, Abandon
<1>6. CASE KeepContext(r) \/ ApplyContext(r) \/ IgnoreRefusedContext(r)
            \/ OpenSession(r)
  BY <1>6, <1>1 DEF KeepContext, ApplyContext, IgnoreRefusedContext,
                    OpenSession, StartBatch
<1>7. CASE StmtOk(r) \/ StmtError(r) \/ StmtTimesOut(r) \/ StmtCancelled(r)
  BY <1>7, <1>1 DEF StmtOk, StmtError, StmtTimesOut, StmtCancelled, NextStmt,
                    slots
<1> QED
  BY <1>2, <1>3, <1>4, <1>5, <1>6, <1>7 DEF RunStep

LEMMA AroundNotice ==
  ASSUME IdleLossKept, Around
  PROVE  IdleLossKept'
<1>1. CASE UNCHANGED <<notice, idleLoss>>
  BY <1>1 DEF IdleLossKept
<1>2. ASSUME NEW r \in Run, Arrive(r) \/ Cancel(r) \/ ClientGone(r)
      PROVE  IdleLossKept'
  BY <1>2, <1>1 DEF Arrive, Cancel, ClientGone, Abandon, slots, history
<1>3. CASE ServerDrops \/ Unregister \/ CloseSession \/ ClosePools
            \/ CloserDone
  BY <1>3, <1>1 DEF ServerDrops, Unregister, CloseSession, ClosePools,
                    CloserDone, slots, history
<1>4. ASSUME NEW e \in timers, IdleTimer(e) PROVE IdleLossKept'
  BY <1>4 DEF IdleTimer, IdleLossKept
<1> QED
  BY <1>2, <1>3, <1>4 DEF Around

(* The notice that the idle timer rolled a transaction back stays stored   *)
(* until an answer carries it: no refused or failing run takes it away.    *)
THEOREM IdleNoticeSurvives == Spec => []IdleLossKept
<1>1. Init => IdleLossKept
  BY DEF Init, IdleLossKept
<1>2. IdleLossKept /\ [Next]_vars => IdleLossKept'
  <2>1. IdleLossKept /\ UNCHANGED vars => IdleLossKept'
    BY DEF IdleLossKept, vars, slots, history
  <2> QED
    BY <2>1, RunStepNotice, AroundNotice DEF Next
<1> QED
  BY <1>1, <1>2, PTL DEF Spec

-----------------------------------------------------------------------------
(* What the operators on the session and on the server return.             *)

LEMMA ObserveType ==
  ASSUME NEW sess \in Session, NEW s
  PROVE  Observe(sess, s) \in Session
<1>1. ((TxnEffect(s, MySql) = "Begin")
        \/ (TxnEffect(s, MySql) = "None" /\ sess.inTxn)) \in BOOLEAN
  OBVIOUS
<1> QED
  BY <1>1 DEF Observe, Session, Path

LEMMA DownType == Down \in Server
BY DEF Down, Server, Path

LEMMA FreshType ==
  ASSUME NEW c \in Ctx
  PROVE  Fresh(c) \in Server
BY DEF Fresh, Down, Server, Path

LEMMA RolledBackType ==
  ASSUME NEW v \in Server
  PROVE  RolledBack(v) \in Server /\ RolledBack(v).txn = "none"
BY DEF RolledBack, Server

LEMMA BegunType ==
  ASSUME NEW v \in Server
  PROVE  Begun(v) \in Server
BY DEF Begun, Server

LEMMA ExecutedType ==
  ASSUME NEW v \in Server, NEW s, NEW w \in Executed(v, s)
  PROVE  w \in Server
<1>1. CASE s \in {"BEGIN", "COMMIT", "ROLLBACK"}
  BY <1>1, RolledBackType, BegunType DEF Executed, Server
<1>2. CASE s = "USE"
  BY <1>2 DEF Executed, Server, Path
<1>3. CASE s = "AUTO_OFF"
  BY <1>3, FlagAssumption DEF Executed, Server
<1>4. CASE s = "DDL"
  <2>1. Executed(v, s) =
          IF MySql THEN {[v EXCEPT !.txn = "none", !.path = c] : c \in {v.path, NoCtx}}
          ELSE {IF v.auto \/ v.txn # "none" THEN v ELSE Begun(v)}
    BY <1>4 DEF Executed
  <2>2. CASE MySql
    <3>1. PICK c \in {v.path, NoCtx} : w = [v EXCEPT !.txn = "none", !.path = c]
      BY <2>1, <2>2
    <3> QED
      BY <3>1 DEF Server, Path
  <2>3. CASE ~MySql
    BY <2>1, <2>3, BegunType
  <2> QED
    BY <2>2, <2>3
<1>5. CASE s \notin {"BEGIN", "COMMIT", "ROLLBACK", "USE", "AUTO_OFF", "DDL"}
  BY <1>5, BegunType DEF Executed
<1> QED
  BY <1>1, <1>2, <1>3, <1>4, <1>5

LEMMA RefusedType ==
  ASSUME NEW v \in Server, NEW s
  PROVE  Refused(v, s) \in Server
BY RolledBackType DEF Refused, Server

LEMMA StmtType ==
  ASSUME batch \in Batch, at \in 1..Len(batch)
  PROVE  Stmt \in Form
BY BatchAssumption DEF Stmt

-----------------------------------------------------------------------------
(* Type correctness.                                                       *)

TypeInv == TypeOK /\ HolderInv

SlotType == Session \cup {NoSession}

LEMMA ResetType ==
  ASSUME ResetLocals
  PROVE  /\ ctx' \in Path /\ batch' \in Batch \cup {<<>>}
         /\ at' \in Nat \ {0} /\ was' \in BOOLEAN /\ again' \in BOOLEAN
         /\ note' \in {"none", "lost"} /\ ran' \in SUBSET Nat
<1>1. was' \in BOOLEAN /\ again' \in BOOLEAN /\ batch' \in Batch \cup {<<>>}
  BY Zenon DEF ResetLocals
<1> QED
  BY <1>1 DEF ResetLocals, Path

LEMMA AbandonType ==
  ASSUME NEW r \in Run, TypeOK, Abandon(r), slot' \in SlotType,
         server' \in Server, tainted' \in BOOLEAN, repeated' \in SUBSET Form
  PROVE  TypeOK'
BY ResetType DEF TypeOK, Abandon, Leave, PcValues, user, SlotType

LEMMA StartType ==
  ASSUME NEW r \in Run, TypeOK, StartBatch(r), slot' \in Session,
         server' \in Server, tainted' \in BOOLEAN, UNCHANGED note
  PROVE  TypeOK'
BY DEF TypeOK, StartBatch, PcValues, user, Session

LEMMA NextStmtType ==
  ASSUME NEW r \in Run, TypeOK, NextStmt(r), slot' \in SlotType,
         server' \in Server, tainted' \in BOOLEAN, userEnded' \in BOOLEAN,
         ran' \in SUBSET Nat, repeated' \in SUBSET Form
  PROVE  TypeOK'
BY DEF TypeOK, NextStmt, PcValues, user, SlotType

(* What a run may assume when it is in its batch.                          *)
LEMMA AwaitFacts ==
  ASSUME NEW r \in Run, TypeInv, pc[r] = "await"
  PROVE  /\ slot \in Session /\ server \in Server
         /\ Stmt \in Form /\ at \in Nat
         /\ RecordRan => ran' \in SUBSET Nat /\ repeated' \in SUBSET Form
<1>1. /\ slot \in Session /\ server \in Server
      /\ Stmt \in Form /\ at \in Nat
  BY StmtType DEF TypeInv, TypeOK, HolderInv, Inside
<1> QED
  BY <1>1 DEF RecordRan, TypeInv, TypeOK

LEMMA GiveUpType ==
  ASSUME NEW r \in Run, TypeInv, pc[r] = "await", GiveUp
  PROVE  /\ server' \in Server /\ tainted' \in BOOLEAN
         /\ ran' \in SUBSET Nat /\ repeated' \in SUBSET Form
<1> USE AwaitFacts
<1>1. CASE UNCHANGED <<server, ran, repeated, tainted>>
  BY <1>1 DEF TypeInv, TypeOK
<1>2. CASE /\ server' \in Executed(server, Stmt)
           /\ tainted' = (tainted \/ server' # server) /\ RecordRan
  BY <1>2, ExecutedType DEF TypeInv, TypeOK
<1>3. CASE /\ server' = Refused(server, Stmt) /\ UNCHANGED <<ran, repeated>>
           /\ tainted' = (tainted \/ (server'.txn = "none" /\ server.txn # "none"))
  BY <1>3, RefusedType DEF TypeInv, TypeOK
<1> QED
  BY <1>1, <1>2, <1>3 DEF GiveUp

LEMMA RunStepType ==
  ASSUME NEW r \in Run, TypeInv, RunStep(r)
  PROVE  TypeOK'
<1> USE DEF TypeInv
<1>1. CASE TurnAway(r)
  BY <1>1 DEF TurnAway, Leave, TypeOK, PcValues, locals, slots, user, history
<1>2. CASE TakeLock(r)
  BY <1>2 DEF TakeLock, TypeOK, PcValues, user, Path
<1>3. CASE SwitchPool(r)
  <2>1. tainted' \in BOOLEAN
    BY <1>3 DEF SwitchPool, TypeOK
  <2>2. slot' \in SlotType /\ server' \in Server
    BY <1>3, DownType DEF SwitchPool, TypeOK, SlotType
  <2> QED
    BY <1>3, <2>1, <2>2 DEF SwitchPool, TypeOK, PcValues, locals, user, SlotType
<1>4. CASE RefuseSwitch(r)
  BY <1>4, AbandonType DEF RefuseSwitch, TypeOK, SlotType
<1>5. CASE KeepContext(r)
  BY <1>5, StartType DEF KeepContext, TypeOK
<1>6. CASE ApplyContext(r)
  <2>1. slot \in Session /\ server \in Server /\ ctx \in Path
    BY <1>6 DEF ApplyContext, MayApply, TypeOK
  <2>2. slot' \in Session /\ server' \in Server
    BY <1>6, <2>1 DEF ApplyContext, Session, Server
  <2> QED
    BY <1>6, <2>2, StartType DEF ApplyContext, TypeOK
<1>7. CASE IgnoreRefusedContext(r)
  BY <1>7, StartType DEF IgnoreRefusedContext, ContextRefused, MayApply, TypeOK
<1>8. CASE FailRefusedContext(r)
  BY <1>8, AbandonType DEF FailRefusedContext, TypeOK, SlotType
<1>9. CASE FindDead(r)
  <2>1. tainted' \in BOOLEAN /\ note' \in {"none", "lost"}
    BY <1>9 DEF FindDead, TypeOK
  <2> QED
    BY <1>9, <2>1, DownType DEF FindDead, TypeOK, PcValues, user
<1>10. CASE NoSessionYet(r)
  BY <1>10 DEF NoSessionYet, TypeOK, PcValues, locals, slots, user, history
<1>11. CASE OpenSession(r)
  <2>1. ctx \in Ctx
    BY <1>11 DEF OpenSession, HolderInv, Inside
  <2>2. slot' \in Session /\ server' \in Server
    BY <1>11, <2>1, FreshType DEF OpenSession, Session, Pool, Path
  <2> QED
    BY <1>11, <2>2, StartType DEF OpenSession, TypeOK
<1>12. CASE OpenFails(r)
  BY <1>12, AbandonType DEF OpenFails, TypeOK, SlotType
<1>13. CASE BatchDone(r) \/ StopCancelled(r) \/ SendStmt(r)
  <2>1. pc' \in [Run -> PcValues] /\ cancelled' \in SUBSET Run
    BY <1>13 DEF BatchDone, StopCancelled, SendStmt, TypeOK, PcValues
  <2>2. UNCHANGED <<locals, slots, server, user, history>>
    BY <1>13 DEF BatchDone, StopCancelled, SendStmt
  <2> QED
    BY <2>1, <2>2 DEF TypeOK, locals, slots, user, history
<1>14. CASE SkipWrite(r)
  BY <1>14 DEF SkipWrite, TypeOK, slots, user, history
<1>15. CASE StmtOk(r)
  <2>1. /\ slot' \in SlotType /\ server' \in Server /\ tainted' \in BOOLEAN
        /\ ran' \in SUBSET Nat /\ repeated' \in SUBSET Form
        /\ userEnded' \in BOOLEAN
    BY <1>15, AwaitFacts, ObserveType, ExecutedType
       DEF StmtOk, SlotType, TypeOK
  <2> QED
    BY <1>15, <2>1, NextStmtType DEF StmtOk
<1>16. CASE StmtError(r)
  <2>1. /\ slot' \in SlotType /\ server' \in Server /\ tainted' \in BOOLEAN
        /\ ran' \in SUBSET Nat /\ repeated' \in SUBSET Form
        /\ userEnded' \in BOOLEAN
    BY <1>16, AwaitFacts, RefusedType DEF StmtError, SlotType, TypeOK
  <2> QED
    BY <1>16, <2>1, NextStmtType DEF StmtError
<1>17. CASE StmtCancelled(r)
  <2>1. /\ server' \in Server /\ tainted' \in BOOLEAN
        /\ ran' \in SUBSET Nat /\ repeated' \in SUBSET Form
    BY <1>17, GiveUpType DEF StmtCancelled
  <2> QED
    BY <1>17, <2>1 DEF StmtCancelled, TypeOK, PcValues, locals, slots, user
<1>18. CASE StmtTimesOut(r)
  <2>1. /\ server' \in Server /\ tainted' \in BOOLEAN
        /\ ran' \in SUBSET Nat /\ repeated' \in SUBSET Form
    BY <1>18, GiveUpType DEF StmtTimesOut
  <2> QED
    BY <1>18, <2>1, NextStmtType DEF StmtTimesOut, SlotType, TypeOK
<1>19. CASE ConnBreaks(r)
  <2>1. ran' \in SUBSET Nat /\ repeated' \in SUBSET Form
    BY <1>19, AwaitFacts DEF ConnBreaks, TypeOK
  <2>2. again' \in BOOLEAN /\ tainted' \in BOOLEAN
    BY <1>19 DEF ConnBreaks, TypeOK
  <2>3. note' \in {"none", "lost"} /\ pc' \in [Run -> PcValues]
    BY <1>19 DEF ConnBreaks, TypeOK, PcValues
  <2>4. slot' \in SlotType /\ server' \in Server
    BY <1>19, DownType DEF ConnBreaks, SlotType
  <2> QED
    BY <1>19, <2>1, <2>2, <2>3, <2>4 DEF ConnBreaks, TypeOK, user, SlotType
<1>20. CASE Respond(r)
  <2>1. InTxn \in BOOLEAN
    BY DEF InTxn
  <2>2. /\ epoch' \in Nat /\ timers' \in SUBSET Nat
        /\ said' \in {"none", "lost", "idle"} /\ notice' \in {"none", "idle"}
        /\ idleLoss' \in BOOLEAN
    BY <1>20 DEF Respond, TypeOK
  <2>3. shown' \in BOOLEAN
    BY <1>20, <2>1 DEF Respond
  <2> QED
    BY <1>20, <2>2, <2>3, ResetType DEF Respond, Leave, TypeOK, PcValues
<1> QED
  BY <1>1, <1>2, <1>3, <1>4, <1>5, <1>6, <1>7, <1>8, <1>9, <1>10, <1>11,
     <1>12, <1>13, <1>14, <1>15, <1>16, <1>17, <1>18, <1>19, <1>20
     DEF RunStep

LEMMA AroundType ==
  ASSUME TypeInv, Around
  PROVE  TypeOK'
<1> USE DEF TypeInv
<1>1. ASSUME NEW r \in Run, Arrive(r) PROVE TypeOK'
  BY <1>1 DEF Arrive, TypeOK, PcValues, locals, slots, user, history
<1>2. ASSUME NEW r \in Run, Cancel(r) PROVE TypeOK'
  BY <1>2 DEF Cancel, TypeOK, locals, slots, user, history
<1>3. ASSUME NEW r \in Run, ClientGone(r) PROVE TypeOK'
  <2>1. CASE pc[r] = "queued"
    <3>1. Leave(r) /\ UNCHANGED <<locals, slots, server, user, history>>
      BY <1>3, <2>1 DEF ClientGone
    <3> QED
      BY <3>1 DEF Leave, TypeOK, PcValues, locals, slots, user, history
  <2>2. CASE pc[r] \in {"apply", "open"}
    BY <1>3, <2>2, AbandonType DEF ClientGone, TypeOK, SlotType
  <2>3. CASE pc[r] = "await"
    <3>1. /\ slot' \in SlotType /\ server' \in Server /\ tainted' \in BOOLEAN
          /\ repeated' \in SUBSET Form
      BY <1>3, <2>3, AwaitFacts, ExecutedType, DownType
         DEF ClientGone, SlotType, TypeOK
    <3> QED
      BY <1>3, <2>3, <3>1, AbandonType DEF ClientGone
  <2> QED
    BY <1>3, <2>1, <2>2, <2>3 DEF ClientGone
<1>4. CASE ServerDrops \/ ClosePools \/ CloserDone
  <2>1. /\ pool' \in {pool, "closed"} /\ lock' \in {lock, Free}
        /\ server' \in {server, Down}
    BY <1>4 DEF ServerDrops, ClosePools, CloserDone, slots
  <2>2. UNCHANGED <<pc, cancelled, locals, slot, epoch, timers, notice, user,
                    history>>
    BY <1>4 DEF ServerDrops, ClosePools, CloserDone, slots
  <2> QED
    BY <2>1, <2>2, DownType DEF TypeOK, locals, user, history
<1>6. CASE Unregister \/ CloseSession
  <2>1. shown' \in BOOLEAN /\ tainted' \in BOOLEAN
    BY <1>6 DEF Unregister, CloseSession, TypeOK, user, history
  <2>2. /\ pool' \in {"leaving", "closing"} /\ lock' \in {lock, Closer}
        /\ slot' \in {slot, NoSession} /\ server' \in {server, Down}
    BY <1>6 DEF Unregister, CloseSession
  <2>3. UNCHANGED <<pc, cancelled, locals, epoch, timers, notice, said, ran,
                    repeated, userEnded, unsaid, idleLoss, escaped>>
    BY <1>6 DEF Unregister, CloseSession, user, history
  <2> QED
    BY <2>1, <2>2, <2>3, DownType DEF TypeOK, locals
<1>5. ASSUME NEW e \in timers, IdleTimer(e) PROVE TypeOK'
  <2>1. idleLoss' \in BOOLEAN /\ tainted' \in BOOLEAN
    BY <1>5 DEF IdleTimer, TypeOK
  <2>2. /\ lock' \in {lock, Closer} /\ slot' \in {slot, NoSession}
        /\ server' \in {server, Down} /\ notice' \in {"none", "idle"}
        /\ timers' \in SUBSET Nat
    BY <1>5 DEF IdleTimer, TypeOK
  <2>3. UNCHANGED <<pc, cancelled, locals, epoch, pool, user, ran, repeated,
                    userEnded, unsaid, escaped>>
    BY <1>5 DEF IdleTimer
  <2> QED
    BY <2>1, <2>2, <2>3, DownType DEF TypeOK, locals, user
<1> QED
  BY <1>1, <1>2, <1>3, <1>4, <1>5, <1>6 DEF Around

-----------------------------------------------------------------------------
(* The mutex holder has what its next step needs.                          *)

LEMMA HolderFree ==
  ASSUME MutexInv', lock' \notin Run
  PROVE  HolderInv'
BY DEF MutexInv, HolderInv, Inside

LEMMA HolderQuiet ==
  ASSUME HolderInv, UNCHANGED <<ctx, batch, at, slot>>,
         \A q \in Run : pc'[q] \in {pc[q], "idle", "queued"}
  PROVE  HolderInv'
BY DEF HolderInv, Inside

LEMMA HolderMoves ==
  ASSUME NEW r \in Run, MutexInv, MutexInv', Inside(r), lock' = lock, HolderInv,
         UNCHANGED <<ctx, batch>>,
         pc'[r] \in {"exec", "await"} => slot' # NoSession,
         pc'[r] = "await" => at' \in 1..Len(batch)
  PROVE  HolderInv'
<1>1. \A q \in Run : q # r => ~Inside(q)'
  BY DEF MutexInv, Inside
<1>2. ctx' \in Ctx /\ batch' \in Batch
  BY DEF HolderInv
<1> QED
  BY <1>1, <1>2 DEF HolderInv, Inside

LEMMA RunStepHolder ==
  ASSUME NEW r \in Run, MutexInv, MutexInv', TypeInv, RunStep(r)
  PROVE  HolderInv'
<1> USE DEF TypeInv
<1>1. CASE TurnAway(r)
  BY <1>1, HolderQuiet DEF TurnAway, Leave, slots, locals, MutexInv
<1>2. CASE TakeLock(r)
  <2>1. ctx' \in Ctx /\ batch' \in Batch /\ pc'[r] = "switch" /\ lock' = r
    BY <1>2 DEF TakeLock, MutexInv
  <2>2. \A q \in Run : q # r => ~Inside(q)'
    BY <2>1 DEF MutexInv
  <2> QED
    BY <2>1, <2>2 DEF HolderInv, Inside
<1>3. CASE RefuseSwitch(r) \/ FailRefusedContext(r) \/ OpenFails(r) \/ Respond(r)
  <2>1. lock' = Free
    BY <1>3 DEF RefuseSwitch, FailRefusedContext, OpenFails, Respond, Abandon
  <2> QED
    BY <2>1, HolderFree, RunAssumption
<1>4. CASE KeepContext(r) \/ ApplyContext(r) \/ IgnoreRefusedContext(r)
            \/ OpenSession(r)
  <2>1. StartBatch(r) /\ Inside(r)
    BY <1>4 DEF KeepContext, ApplyContext, IgnoreRefusedContext, OpenSession,
                Inside
  <2>2. slot' # NoSession
    <3>1. CASE KeepContext(r)
      BY <3>1 DEF KeepContext
    <3>2. CASE IgnoreRefusedContext(r)
      BY <3>2 DEF IgnoreRefusedContext, ContextRefused, MayApply
    <3>3. CASE ApplyContext(r)
      <4>1. slot \in Session /\ ctx \in Path
        BY <3>3 DEF ApplyContext, MayApply, TypeOK
      <4>2. slot' \in Session
        BY <3>3, <4>1 DEF ApplyContext, Session
      <4> QED
        BY <4>2, NoSessionAssumption
    <3>4. CASE OpenSession(r)
      <4>1. ctx \in Ctx
        BY <3>4 DEF OpenSession, HolderInv, Inside
      <4>2. slot' \in Session
        BY <3>4, <4>1 DEF OpenSession, Session, Pool, Path
      <4> QED
        BY <4>2, NoSessionAssumption
    <3> QED
      BY <1>4, <3>1, <3>2, <3>3, <3>4
  <2>3. pc'[r] = "exec"
    BY <2>1 DEF StartBatch, MutexInv
  <2> QED
    BY <2>1, <2>2, <2>3, HolderMoves DEF StartBatch
<1>5. CASE SwitchPool(r) \/ FindDead(r) \/ NoSessionYet(r)
  <2>1. /\ pc'[r] \in {"apply", "open"} /\ Inside(r)
        /\ UNCHANGED <<ctx, batch, lock>>
    BY <1>5 DEF SwitchPool, FindDead, NoSessionYet, MutexInv, Inside, locals,
                slots
  <2> QED
    BY <2>1, HolderMoves
<1>6. CASE BatchDone(r) \/ StopCancelled(r) \/ StmtCancelled(r)
            \/ ConnBreaks(r)
  <2>1. /\ pc'[r] \in {"settle", "open"} /\ Inside(r)
        /\ UNCHANGED <<ctx, batch, lock>>
    BY <1>6 DEF BatchDone, StopCancelled, StmtCancelled, ConnBreaks, MutexInv,
                Inside, locals, slots
  <2> QED
    BY <2>1, HolderMoves
<1>7. CASE SkipWrite(r) \/ SendStmt(r)
  <2>1. /\ pc'[r] \in {"exec", "await"} /\ pc[r] = "exec" /\ Inside(r)
        /\ pc'[r] = "await" => at' = at /\ at <= Len(batch)
        /\ UNCHANGED <<ctx, batch, lock, slot>>
    BY <1>7 DEF SkipWrite, SendStmt, MutexInv, Inside, locals, slots
  <2>2. at \in Nat \ {0} /\ Len(batch) \in Nat /\ slot # NoSession
    BY <2>1, BatchAssumption DEF TypeOK, HolderInv
  <2> QED
    BY <2>1, <2>2, HolderMoves
<1>8. CASE StmtOk(r) \/ StmtError(r) \/ StmtTimesOut(r)
  <2>1. pc[r] = "await" /\ NextStmt(r)
    BY <1>8 DEF StmtOk, StmtError, StmtTimesOut
  <2>2. slot \in Session
    BY <2>1, AwaitFacts
  <2>3. slot' \in Session
    BY <1>8, <2>2, ObserveType DEF StmtOk, StmtError, StmtTimesOut
  <2> QED
    BY <2>1, <2>3, HolderMoves, NoSessionAssumption
       DEF NextStmt, MutexInv, Inside
<1> QED
  BY <1>1, <1>2, <1>3, <1>4, <1>5, <1>6, <1>7, <1>8 DEF RunStep

LEMMA AroundHolder ==
  ASSUME MutexInv, MutexInv', TypeInv, Around
  PROVE  HolderInv'
<1> USE DEF TypeInv
<1>1. ASSUME NEW r \in Run, Arrive(r) \/ Cancel(r) PROVE HolderInv'
  BY <1>1, HolderQuiet DEF Arrive, Cancel, slots, locals, MutexInv
<1>2. ASSUME NEW r \in Run, ClientGone(r) PROVE HolderInv'
  <2>1. CASE Abandon(r)
    BY <2>1, HolderFree, RunAssumption DEF Abandon
  <2>2. CASE Leave(r) /\ UNCHANGED <<locals, slots>>
    BY <2>2, HolderQuiet DEF Leave, slots, locals, MutexInv
  <2> QED
    BY <1>2, <2>1, <2>2 DEF ClientGone
<1>3. CASE ServerDrops \/ Unregister \/ ClosePools \/ CloserDone
  BY <1>3, HolderQuiet
     DEF ServerDrops, Unregister, ClosePools, CloserDone, slots, locals
<1>4. CASE CloseSession
  BY <1>4, HolderFree, RunAssumption DEF CloseSession
<1>5. ASSUME NEW e \in timers, IdleTimer(e) PROVE HolderInv'
  <2>1. CASE lock' = Closer
    BY <2>1, HolderFree, RunAssumption
  <2>2. CASE lock' # Closer
    BY <1>5, <2>2, HolderQuiet DEF IdleTimer, locals
  <2> QED
    BY <2>1, <2>2
<1> QED
  BY <1>1, <1>2, <1>3, <1>4, <1>5 DEF Around

LEMMA InvType == Spec => []TypeInv
<1>1. Init => TypeInv
  <2>1. Init => TypeOK
    <3>1. ASSUME NEW b, b = FALSE PROVE b \in BOOLEAN
      BY <3>1
    <3>2. Init => /\ was \in BOOLEAN /\ again \in BOOLEAN /\ shown \in BOOLEAN
                  /\ userEnded \in BOOLEAN /\ unsaid \in BOOLEAN
                  /\ idleLoss \in BOOLEAN /\ tainted \in BOOLEAN
                  /\ escaped \in BOOLEAN
      BY <3>1, Zenon DEF Init
    <3>3. Init => batch \in Batch \cup {<<>>}
      BY Zenon DEF Init
    <3> QED
      BY <3>2, <3>3, DownType DEF Init, TypeOK, PcValues, Path
  <2>2. Init => HolderInv
    BY DEF Init, HolderInv, Inside
  <2> QED
    BY <2>1, <2>2 DEF TypeInv
<1>2. MutexInv /\ MutexInv' /\ TypeInv /\ [Next]_vars => TypeInv'
  <2>1. TypeInv /\ UNCHANGED vars => TypeInv'
    BY DEF TypeInv, TypeOK, HolderInv, Inside, vars, locals, slots, user, history
  <2> QED
    BY <2>1, RunStepType, AroundType, RunStepHolder, AroundHolder
       DEF Next, TypeInv
<1> QED
  BY <1>1, <1>2, InvMutex, PTL DEF Spec

(* Every variable of the model keeps its type: in particular a run in its  *)
(* batch has a session, a statement and a context.                         *)
THEOREM TypeCorrect == Spec => []TypeOK
<1>1. TypeInv => TypeOK
  BY DEF TypeInv
<1> QED
  BY <1>1, InvType, PTL

-----------------------------------------------------------------------------
(* The helper's view of the session against the server's: on PostgreSQL    *)
(* the transaction, on MySQL the context.                                  *)

ViewInv ==
  /\ AutoInv
  /\ MySql \/ NoHiddenTxn
  /\ ~MySql \/ AppliedIsServerContext

LEMMA PgExecuted ==
  ASSUME ~MySql, NEW v \in Server, v.auto, NEW s, NEW w \in Executed(v, s)
  PROVE  /\ w.auto
         /\ TxnEffect(s, MySql) = "End" => w.txn = "none"
         /\ TxnEffect(s, MySql) = "None" /\ v.txn = "none" => w.txn = "none"
<1>1. CASE s = "BEGIN"
  BY <1>1 DEF Executed, TxnEffect, Begun, Server
<1>2. CASE s \in {"COMMIT", "ROLLBACK"}
  BY <1>2 DEF Executed, TxnEffect, RolledBack, Server
<1>3. CASE s = "USE"
  BY <1>3 DEF Executed, TxnEffect, Server
<1>4. CASE s = "AUTO_OFF"
  BY <1>4 DEF Executed, TxnEffect, Server
<1>5. CASE s \notin {"BEGIN", "COMMIT", "ROLLBACK", "USE", "AUTO_OFF"}
  <2>1. w = v /\ TxnEffect(s, MySql) = "None"
    BY <1>5 DEF Executed, TxnEffect
  <2> QED
    BY <2>1
<1> QED
  BY <1>1, <1>2, <1>3, <1>4, <1>5

LEMMA PgRefused ==
  ASSUME ~MySql, NEW v \in Server, v.auto, NEW s
  PROVE  /\ Refused(v, s).auto
         /\ v.txn = "none" => Refused(v, s).txn = "none"
BY DEF Refused, RolledBack, Server

(* A MySQL statement that moves the path makes the helper forget it.       *)
LEMMA MyExecuted ==
  ASSUME MySql, NEW v \in Server, NEW s, NEW w \in Executed(v, s)
  PROVE  \/ ChangesSessionContext(s) \/ Classify(s) = "Ddl"
         \/ w.path = v.path
<1>1. CASE s \in {"BEGIN", "COMMIT", "ROLLBACK"}
  BY <1>1 DEF Executed, Begun, RolledBack, Server
<1>2. CASE s \in {"USE", "AUTO_OFF", "DDL"}
  BY <1>2 DEF ChangesSessionContext, Classify
<1>3. CASE s \notin {"BEGIN", "COMMIT", "ROLLBACK", "USE", "AUTO_OFF", "DDL"}
  BY <1>3 DEF Executed, Begun, Server
<1> QED
  BY <1>1, <1>2, <1>3

LEMMA MyRefused ==
  ASSUME MySql, NEW v \in Server, NEW s
  PROVE  Refused(v, s).path = v.path /\ Refused(v, s).up = v.up
BY DEF Refused, Server

(* The session is dropped, or nothing it is made of moves.                 *)
LEMMA ViewDropped ==
  ASSUME slot' = NoSession, server' = Down
  PROVE  ViewInv'
<1>1. Down.auto
  BY DEF Down
<1>2. AutoInv'
  BY <1>1 DEF AutoInv
<1> QED
  BY <1>2 DEF ViewInv, NoHiddenTxn, AppliedIsServerContext

LEMMA ViewSame ==
  ASSUME ViewInv, UNCHANGED <<slot, server, tainted>>
  PROVE  ViewInv'
BY DEF ViewInv, AutoInv, NoHiddenTxn, AppliedIsServerContext

LEMMA ViewStill ==
  ASSUME ViewInv, UNCHANGED <<slot, server>>,
         tainted' = (tainted \/ server' # server)
  PROVE  ViewInv'
<1>1. tainted' \/ ~tainted
  OBVIOUS
<1> QED
  BY <1>1 DEF ViewInv, AutoInv, NoHiddenTxn, AppliedIsServerContext

(* The server moves without the helper, which is noted.                    *)
LEMMA ViewExecuted ==
  ASSUME ViewInv, slot \in Session, server \in Server, UNCHANGED slot,
         server' \in Executed(server, Stmt),
         tainted' = (tainted \/ server' # server)
  PROVE  ViewInv'
<1>1. CASE server' = server
  BY <1>1, ViewStill
<1>2. CASE server' # server
  <2>1. tainted'
    BY <1>2
  <2>2. AutoInv'
    BY PgExecuted, <1>2 DEF ViewInv, AutoInv
  <2> QED
    BY <2>1, <2>2 DEF ViewInv, NoHiddenTxn, AppliedIsServerContext
<1> QED
  BY <1>1, <1>2

LEMMA ViewRefused ==
  ASSUME ViewInv, slot \in Session, server \in Server, UNCHANGED slot,
         server' = Refused(server, Stmt), tainted' \/ ~tainted
  PROVE  ViewInv'
<1>1. CASE MySql
  BY <1>1, MyRefused DEF ViewInv, AutoInv, AppliedIsServerContext
<1>2. CASE ~MySql
  BY <1>2, PgRefused DEF ViewInv, AutoInv, NoHiddenTxn
<1> QED
  BY <1>1, <1>2

LEMMA ViewOk ==
  ASSUME ViewInv, slot \in Session, server \in Server, server.up,
         slot' = Observe(slot, Stmt), server' \in Executed(server, Stmt),
         UNCHANGED tainted
  PROVE  ViewInv'
<1>1. CASE MySql
  <2>1. /\ AutoInv' /\ slot # NoSession
    BY <1>1, NoSessionAssumption DEF AutoInv
  <2>2. slot'.applied # NoCtx =>
          slot'.applied = slot.applied /\ server'.path = server.path
    BY <1>1, MyExecuted DEF Observe, Session
  <2> QED
    BY <1>1, <2>1, <2>2 DEF ViewInv, AppliedIsServerContext
<1>2. CASE ~MySql
  <2>1. server.auto /\ slot # NoSession
    BY <1>2, NoSessionAssumption DEF ViewInv, AutoInv
  <2>2. ~slot'.inTxn => \/ TxnEffect(Stmt, MySql) = "End"
                        \/ TxnEffect(Stmt, MySql) = "None" /\ ~slot.inTxn
    BY DEF Observe, Session, TxnEffect
  <2>3. ~slot'.inTxn /\ ~tainted => server'.txn = "none"
    BY <1>2, <2>1, <2>2, PgExecuted DEF ViewInv, NoHiddenTxn
  <2>4. AutoInv'
    BY <1>2, <2>1, PgExecuted DEF AutoInv
  <2> QED
    BY <1>2, <2>3, <2>4 DEF ViewInv, NoHiddenTxn
<1> QED
  BY <1>1, <1>2

LEMMA RunStepView ==
  ASSUME NEW r \in Run, TypeInv, ViewInv, RunStep(r)
  PROVE  ViewInv'
<1>1. CASE TurnAway(r) \/ NoSessionYet(r) \/ BatchDone(r) \/ StopCancelled(r)
            \/ SkipWrite(r) \/ SendStmt(r)
  BY <1>1, ViewSame DEF TurnAway, NoSessionYet, BatchDone, StopCancelled,
                        SkipWrite, SendStmt, history, slots
<1>2. CASE TakeLock(r) \/ RefuseSwitch(r) \/ KeepContext(r)
            \/ IgnoreRefusedContext(r) \/ FailRefusedContext(r)
            \/ OpenFails(r) \/ Respond(r)
  BY <1>2, ViewSame DEF TakeLock, RefuseSwitch, KeepContext,
     IgnoreRefusedContext, FailRefusedContext, OpenFails, Respond
<1>3. CASE SwitchPool(r)
  BY <1>3, ViewSame, ViewDropped DEF SwitchPool
<1>4. CASE FindDead(r) \/ ConnBreaks(r)
  BY <1>4, ViewDropped DEF FindDead, ConnBreaks
<1>5. CASE ApplyContext(r)
  <2>1. slot \in Session /\ slot # NoSession /\ server \in Server
    BY <1>5 DEF ApplyContext, MayApply, TypeInv, TypeOK
  <2>2. /\ slot'.inTxn = slot.inTxn /\ slot'.applied = ctx
        /\ server'.path = ctx /\ server'.txn = server.txn
        /\ server'.auto = server.auto /\ tainted' = tainted
    BY <1>5, <2>1 DEF ApplyContext, Session, Server
  <2> QED
    BY <2>1, <2>2 DEF ViewInv, AutoInv, NoHiddenTxn, AppliedIsServerContext
<1>6. CASE OpenSession(r)
  BY <1>6 DEF OpenSession, Fresh, Down, ViewInv, AutoInv, NoHiddenTxn,
              AppliedIsServerContext
<1>7. CASE StmtOk(r)
  BY <1>7, ViewOk, AwaitFacts DEF StmtOk
<1>8. CASE StmtError(r)
  BY <1>8, ViewRefused, AwaitFacts DEF StmtError
<1>9. CASE StmtCancelled(r) \/ StmtTimesOut(r)
  <2>1. pc[r] = "await" /\ GiveUp /\ UNCHANGED slot
    BY <1>9 DEF StmtCancelled, StmtTimesOut, slots
  <2>2. slot \in Session /\ server \in Server
    BY <2>1, AwaitFacts
  <2> QED
    BY <2>1, <2>2, ViewSame, ViewExecuted, ViewRefused DEF GiveUp
<1> QED
  BY <1>1, <1>2, <1>3, <1>4, <1>5, <1>6, <1>7, <1>8, <1>9 DEF RunStep

LEMMA AroundView ==
  ASSUME TypeInv, ViewInv, Around
  PROVE  ViewInv'
<1>1. CASE Unregister \/ ClosePools \/ CloserDone
            \/ \E r \in Run : Arrive(r) \/ Cancel(r)
  BY <1>1, ViewSame
     DEF Unregister, ClosePools, CloserDone, Arrive, Cancel, slots, history
<1>2. CASE CloseSession
  BY <1>2, ViewDropped DEF CloseSession
<1>3. CASE \E e \in timers : IdleTimer(e)
  BY <1>3, ViewDropped, ViewSame DEF IdleTimer
<1>4. CASE ServerDrops
  BY <1>4 DEF ServerDrops, Down, slots, history, ViewInv, AutoInv,
              NoHiddenTxn, AppliedIsServerContext
<1>5. ASSUME NEW r \in Run, ClientGone(r) PROVE ViewInv'
  <2>1. CASE pc[r] # "await"
    BY <1>5, <2>1, ViewSame DEF ClientGone, slots, history
  <2>2. CASE pc[r] = "await" /\ again
    BY <1>5, <2>2, ViewDropped DEF ClientGone
  <2>3. CASE pc[r] = "await" /\ ~again
    <3>1. slot \in Session /\ server \in Server
      BY <2>3, AwaitFacts
    <3>2. /\ UNCHANGED slot /\ tainted' = (tainted \/ server' # server)
          /\ server' = server \/ server' \in Executed(server, Stmt)
      BY <1>5, <2>3 DEF ClientGone
    <3>3. CASE server' = server
      BY <3>1, <3>2, <3>3, ViewStill
    <3> QED
      BY <3>1, <3>2, <3>3, ViewExecuted
  <2> QED
    BY <2>1, <2>2, <2>3
<1> QED
  BY <1>1, <1>2, <1>3, <1>4, <1>5 DEF Around

LEMMA InvView == Spec => []ViewInv
<1>1. Init => ViewInv
  BY DEF Init, Down, ViewInv, AutoInv, NoHiddenTxn, AppliedIsServerContext
<1>2. TypeInv /\ ViewInv /\ [Next]_vars => ViewInv'
  <2>1. ViewInv /\ UNCHANGED vars => ViewInv'
    BY ViewSame DEF vars, slots, history
  <2> QED
    BY <2>1, RunStepView, AroundView DEF Next
<1> QED
  BY <1>1, <1>2, InvType, PTL DEF Spec

(* On PostgreSQL the helper never believes its session free of a           *)
(* transaction while the server holds one open there, whatever is          *)
(* executed, refused or lost, unless a statement was abandoned half way.   *)
THEOREM NothingHiddenOnPostgres ==
  ASSUME ~MySql
  PROVE  Spec => []NoHiddenTxn
<1>1. ViewInv => NoHiddenTxn
  BY DEF ViewInv
<1> QED
  BY <1>1, InvView, PTL

(* On MySQL the context the helper remembers as applied, and therefore     *)
(* skips applying, is the database the server's session is in.             *)
THEOREM RememberedContextOnMySql ==
  ASSUME MySql
  PROVE  Spec => []AppliedIsServerContext
<1>1. ViewInv => AppliedIsServerContext
  BY DEF ViewInv
<1> QED
  BY <1>1, InvView, PTL

-----------------------------------------------------------------------------
(* The transaction the toolbar shows.                                      *)

(* A session is opened only where there is none.                           *)
OpenInv == \A r \in Run : pc[r] = "open" => slot = NoSession

(* Until an answer, a transaction the toolbar shows is open, or its end    *)
(* will be told, by the run or by the stored notice; a run in its batch    *)
(* remembers that it found the transaction open.                           *)
ToldInv ==
  pool = "open" /\ shown /\ ~userEnded /\ ~unsaid =>
    \/ note = "lost" \/ notice = "idle"
    \/ InTxn /\ \A r \in Run : pc[r] \in {"exec", "await"} => was /\ ~again

LossInv == OpenInv /\ ToldInv

(* Nothing it speaks of moves, and no run enters a session or its batch.   *)
LEMMA LossSame ==
  ASSUME LossInv,
         UNCHANGED <<slot, pool, userEnded, unsaid, note, notice, was, again>>,
         shown' => shown,
         \A q \in Run : pc'[q] \in {"exec", "await"} => pc[q] \in {"exec", "await"},
         \A q \in Run : pc'[q] = "open" => pc[q] = "open"
  PROVE  LossInv'
BY DEF LossInv, OpenInv, ToldInv, InTxn

(* A run that gives up takes its note with it, and that is remembered.     *)
LEMMA LossAbandon ==
  ASSUME NEW r \in Run, MutexInv, Inside(r), LossInv, Abandon(r),
         slot' = slot \/ (pc[r] = "await" /\ again)
  PROVE  LossInv'
<1>1. \A q \in Run : pc'[q] \in {"idle", "queued"}
  BY OthersOutside DEF Abandon, Leave, Inside, MutexInv
<1>2. /\ UNCHANGED <<pool, shown, userEnded, notice>>
      /\ unsaid' = (unsaid \/ note = "lost")
  BY DEF Abandon, user
<1>3. ToldInv'
  BY <1>1, <1>2 DEF LossInv, ToldInv, InTxn
<1> QED
  BY <1>1, <1>3 DEF LossInv, OpenInv

(* The batch starts on the session of the answer before, or on a new one   *)
(* when that one is gone.                                                  *)
LEMMA LossStart ==
  ASSUME NEW r \in Run, MutexInv, Inside(r), LossInv, StartBatch(r),
         UNCHANGED note, InTxn => ~again /\ InTxn'
  PROVE  LossInv'
<1>1. \A q \in Run : q # r => pc'[q] \in {"idle", "queued"}
  BY OthersOutside DEF StartBatch, Inside, MutexInv
<1>2. /\ pc'[r] = "exec" /\ was' = slot'.inTxn
      /\ UNCHANGED <<again, notice, pool, shown, userEnded, unsaid>>
  BY DEF StartBatch, MutexInv, user
<1>3. ToldInv'
  BY <1>1, <1>2 DEF LossInv, ToldInv, InTxn
<1> QED
  BY <1>1, <1>2, <1>3 DEF LossInv, OpenInv

(* A statement ends: what the helper observed ends a transaction only by a *)
(* statement of the user.                                                  *)
LEMMA LossNext ==
  ASSUME NEW r \in Run, MutexInv, LossInv, pc[r] = "await", NextStmt(r),
         userEnded' \/ (InTxn => InTxn'), ~userEnded' => ~userEnded
  PROVE  LossInv'
<1>1. \A q \in Run : q # r => pc'[q] \in {"idle", "queued"}
  BY OthersOutside DEF NextStmt, Inside, MutexInv
<1>2. /\ pc'[r] = "exec"
      /\ UNCHANGED <<was, again, note, notice, pool, shown, unsaid>>
  BY DEF NextStmt, MutexInv, user
<1>3. ToldInv'
  BY <1>1, <1>2 DEF LossInv, ToldInv
<1> QED
  BY <1>1, <1>2, <1>3 DEF LossInv, OpenInv

LEMMA RunStepLoss ==
  ASSUME NEW r \in Run, MutexInv, TypeInv, RunInv, LossInv, RunStep(r)
  PROVE  LossInv'
<1> USE DEF Inside
<1>1. CASE TurnAway(r) \/ TakeLock(r) \/ BatchDone(r) \/ StopCancelled(r)
            \/ SkipWrite(r) \/ SendStmt(r)
  BY <1>1, LossSame DEF TurnAway, Leave, TakeLock, BatchDone, StopCancelled,
     SkipWrite, SendStmt, slots, locals, history, user, MutexInv
<1>2. CASE SwitchPool(r)
  <2>1. pc'[r] = "apply" /\ \A q \in Run : q # r => pc'[q] \in {"idle", "queued"}
    BY <1>2, OthersOutside DEF SwitchPool, MutexInv
  <2>2. /\ InTxn => slot' = slot
        /\ UNCHANGED <<note, notice, pool, shown, userEnded, unsaid>>
    BY <1>2 DEF SwitchPool, InTxn, locals, user
  <2>3. ToldInv'
    BY <2>1, <2>2 DEF LossInv, ToldInv, InTxn
  <2> QED
    BY <2>1, <2>3 DEF LossInv, OpenInv
<1>3. CASE RefuseSwitch(r) \/ FailRefusedContext(r) \/ OpenFails(r)
  BY <1>3, LossAbandon DEF RefuseSwitch, FailRefusedContext, OpenFails
<1>4. CASE KeepContext(r) \/ ApplyContext(r) \/ IgnoreRefusedContext(r)
  <2>1. pc[r] = "apply" /\ StartBatch(r) /\ UNCHANGED note /\ slot \in Session
    BY <1>4 DEF KeepContext, ApplyContext, IgnoreRefusedContext, ContextRefused,
       MayApply, TypeInv, TypeOK
  <2>2. slot' = slot \/ (slot' = [slot EXCEPT !.applied = ctx] /\ ctx \in Path)
    BY <1>4 DEF KeepContext, ApplyContext, IgnoreRefusedContext, TypeInv, TypeOK
  <2>3. slot' \in Session /\ slot'.inTxn = slot.inTxn
    BY <2>1, <2>2 DEF Session
  <2>4. InTxn => ~again /\ InTxn'
    BY <2>1, <2>3, NoSessionAssumption DEF InTxn, RunInv, LocalsAtRest
  <2> QED
    BY <2>1, <2>4, LossStart
<1>5. CASE FindDead(r)
  <2>1. pc'[r] = "open" /\ \A q \in Run : q # r => pc'[q] \in {"idle", "queued"}
    BY <1>5, OthersOutside DEF FindDead, MutexInv
  <2>2. /\ slot' = NoSession /\ note' = IF slot.inTxn THEN "lost" ELSE note
        /\ UNCHANGED <<notice, pool, shown, userEnded, unsaid>>
    BY <1>5 DEF FindDead, user
  <2>3. ToldInv'
    BY <2>1, <2>2 DEF LossInv, ToldInv, InTxn
  <2> QED
    BY <2>1, <2>2, <2>3 DEF LossInv, OpenInv
<1>6. CASE NoSessionYet(r)
  <2>1. pc'[r] = "open" /\ \A q \in Run : q # r => pc'[q] \in {"idle", "queued"}
    BY <1>6, OthersOutside DEF NoSessionYet, MutexInv
  <2>2. slot = NoSession /\ UNCHANGED <<locals, slots, user, history>>
    BY <1>6 DEF NoSessionYet
  <2> QED
    BY <2>1, <2>2 DEF LossInv, OpenInv, ToldInv, InTxn, locals, slots, user, history
<1>7. CASE OpenSession(r)
  <2>1. ~InTxn
    BY <1>7 DEF OpenSession, LossInv, OpenInv, InTxn
  <2> QED
    BY <1>7, <2>1, LossStart DEF OpenSession
<1>8. CASE StmtOk(r)
  <2>1. slot \in Session
    BY <1>8, AwaitFacts DEF StmtOk
  <2>2. slot' = Observe(slot, Stmt) /\ slot' \in Session
    BY <1>8, <2>1, ObserveType DEF StmtOk
  <2>3. TxnEffect(Stmt, MySql) \in {"Begin", "End", "None"}
    BY DEF TxnEffect
  <2>4. userEnded' = (userEnded \/ TxnEffect(Stmt, MySql) = "End")
    BY <1>8 DEF StmtOk
  <2>5. TxnEffect(Stmt, MySql) # "End" /\ InTxn => InTxn'
    BY <2>1, <2>2, <2>3, NoSessionAssumption DEF InTxn, Observe, Session
  <2> QED
    BY <1>8, <2>4, <2>5, LossNext DEF StmtOk
<1>9. CASE StmtError(r) \/ StmtTimesOut(r)
  BY <1>9, LossNext DEF StmtError, StmtTimesOut, InTxn
<1>10. CASE StmtCancelled(r)
  BY <1>10, LossSame DEF StmtCancelled, slots, locals, user, MutexInv
<1>11. CASE ConnBreaks(r)
  <2>1. /\ pc'[r] \in {"open", "settle"}
        /\ \A q \in Run : q # r => pc'[q] \in {"idle", "queued"}
    BY <1>11, OthersOutside DEF ConnBreaks, MutexInv
  <2>2. /\ slot' = NoSession /\ pc[r] = "await"
        /\ note' = IF was /\ ~again THEN "lost" ELSE note
        /\ UNCHANGED <<notice, pool, shown, userEnded, unsaid>>
    BY <1>11 DEF ConnBreaks, user
  <2>3. ToldInv'
    BY <2>1, <2>2 DEF LossInv, ToldInv
  <2> QED
    BY <2>2, <2>3 DEF LossInv, OpenInv
<1>12. CASE Respond(r)
  <2>1. \A q \in Run : pc'[q] \in {"idle", "queued"}
    BY <1>12, OthersOutside DEF Respond, Leave, MutexInv
  <2>2. shown' = InTxn /\ slot' = slot
    BY <1>12 DEF Respond
  <2> QED
    BY <2>1, <2>2 DEF LossInv, OpenInv, ToldInv, InTxn
<1> QED
  BY <1>1, <1>2, <1>3, <1>4, <1>5, <1>6, <1>7, <1>8, <1>9, <1>10, <1>11,
     <1>12 DEF RunStep

LEMMA AroundLoss ==
  ASSUME MutexInv, LossInv, Around
  PROVE  LossInv'
<1> USE DEF Inside
<1>1. ASSUME NEW r \in Run, Arrive(r) \/ Cancel(r) PROVE LossInv'
  BY <1>1, LossSame DEF Arrive, Cancel, slots, locals, history, user, MutexInv
<1>2. ASSUME NEW r \in Run, ClientGone(r) PROVE LossInv'
  <2>1. CASE pc[r] = "queued" /\ Leave(r) /\ UNCHANGED <<locals, slots, user, history>>
    BY <2>1, LossSame DEF Leave, slots, locals, history, user, MutexInv
  <2>2. CASE pc[r] \in {"apply", "open"} /\ UNCHANGED slot /\ Abandon(r)
    BY <2>2, LossAbandon
  <2>3. CASE pc[r] = "await" /\ Abandon(r) /\ (again \/ UNCHANGED slot)
    BY <2>3, LossAbandon
  <2> QED
    BY <1>2, <2>1, <2>2, <2>3 DEF ClientGone
<1>3. CASE ServerDrops \/ CloserDone
  BY <1>3, LossSame DEF ServerDrops, CloserDone, slots, locals, history, user
<1>4. CASE Unregister \/ CloseSession \/ ClosePools
  <2>1. pool' # "open" /\ pc' = pc /\ slot' \in {slot, NoSession}
    BY <1>4 DEF Unregister, CloseSession, ClosePools
  <2> QED
    BY <2>1 DEF LossInv, OpenInv, ToldInv
<1>5. ASSUME NEW e \in timers, IdleTimer(e) PROVE LossInv'
  <2>1. UNCHANGED <<pc, locals, pool, user, userEnded, unsaid>>
    BY <1>5 DEF IdleTimer
  <2>2. \/ UNCHANGED <<slot, notice>>
        \/ slot' = NoSession /\ (notice' = IF InTxn THEN "idle" ELSE notice)
    BY <1>5 DEF IdleTimer, InTxn
  <2>3. OpenInv'
    BY <2>1, <2>2 DEF LossInv, OpenInv
  <2>4. ToldInv'
    BY <2>1, <2>2 DEF LossInv, ToldInv, InTxn, locals, user
  <2> QED
    BY <2>3, <2>4 DEF LossInv
<1> QED
  BY <1>1, <1>2, <1>3, <1>4, <1>5 DEF Around

LEMMA InvLoss == Spec => []LossInv
<1>1. Init => LossInv
  BY DEF Init, LossInv, OpenInv, ToldInv
<1>2. MutexInv /\ TypeInv /\ BatchInv /\ LossInv /\ [Next]_vars => LossInv'
  <2>1. LossInv /\ UNCHANGED vars => LossInv'
    BY LossSame DEF vars, slots, locals, history, user
  <2> QED
    BY <2>1, RunStepLoss, AroundLoss DEF Next, BatchInv
<1> QED
  BY <1>1, <1>2, InvMutex, InvType, InvBatch, PTL DEF Spec

(* Only an answer moves the epoch.                                         *)
LEMMA AnswersRespond ==
  ASSUME [Next]_vars, Answered
  PROVE  \E r \in Run : Respond(r)
<1>1. ASSUME NEW r \in Run, RunStep(r), ~Respond(r) PROVE epoch' = epoch
  BY <1>1 DEF RunStep, TurnAway, TakeLock, SwitchPool, RefuseSwitch, Abandon,
     KeepContext, ApplyContext, IgnoreRefusedContext, StartBatch,
     FailRefusedContext, FindDead, NoSessionYet, OpenSession, OpenFails,
     BatchDone, StopCancelled, SkipWrite, SendStmt, StmtOk, StmtError,
     StmtCancelled, StmtTimesOut, NextStmt, ConnBreaks, slots
<1>2. Around => epoch' = epoch
  BY DEF Around, Arrive, Cancel, ClientGone, Abandon, ServerDrops, Unregister,
     CloseSession, ClosePools, CloserDone, IdleTimer, slots
<1>3. UNCHANGED vars => epoch' = epoch
  BY DEF vars, slots
<1> QED
  BY <1>1, <1>2, <1>3 DEF Answered, Next

(* A transaction the toolbar shows is never gone at the next answer        *)
(* without a word, unless the user ended it or a run that had noticed the  *)
(* loss failed before it could answer: whatever died, timed out, was       *)
(* stopped or ran again in between.                                        *)
THEOREM NoSilentLoss == Spec => SilentLossHasCause
<1>1. LossInv /\ [Next]_vars =>
        [Answered /\ pool = "open" /\ shown /\ ~shown' /\ ~userEnded
           => said' # "none" \/ unsaid]_vars
  <2> SUFFICES ASSUME LossInv, [Next]_vars, Answered, pool = "open", shown,
                      ~shown', ~userEnded, ~unsaid
               PROVE  said' # "none"
    OBVIOUS
  <2>1. PICK r \in Run : Respond(r)
    BY AnswersRespond
  <2>2. /\ said' = IF note # "none" THEN note ELSE notice
        /\ shown' = InTxn
    BY <2>1 DEF Respond
  <2> QED
    BY <2>2 DEF LossInv, ToldInv
<1> QED
  BY <1>1, InvLoss, PTL DEF Spec, SilentLossHasCause

-----------------------------------------------------------------------------
(* EditorSession implements EditorLease: every step of a run, of the       *)
(* timer and of the close is one step of the lease, or leaves it alone.    *)
(* The mutual exclusion of EditorSessionProofs says whose step it is, the  *)
(* types above which notices there are to tell.                            *)

LeaseStep == Lease!Next \/ UNCHANGED Lease!lease

-----------------------------------------------------------------------------
(* The shapes of a step.                                                   *)

LEMMA SameLease ==
  ASSUME UNCHANGED <<lock, slot, note, notice, pool, said, shown>>
  PROVE  LeaseStep
BY DEF LeaseStep, Lease!lease, InTxn

LEMMA HolderWorks ==
  ASSUME NEW r \in Run, lock = r,
         UNCHANGED <<lock, notice, pool, said, shown>>,
         note' = note \/ note' = "lost"
  PROVE  LeaseStep
<1>1. InTxn' \in BOOLEAN
  BY DEF InTxn
<1>2. (note' = "lost") \in {note = "lost", TRUE}
  OBVIOUS
<1>3. Lease!Work(r)
  BY <1>1, <1>2 DEF Lease!Work
<1> QED
  BY <1>3 DEF LeaseStep, Lease!Next

LEMMA HolderGivesUp ==
  ASSUME NEW r \in Run, lock = r, Abandon(r),
         slot' = slot \/ slot' = NoSession
  PROVE  LeaseStep
<1>1. InTxn' \in {InTxn, FALSE}
  BY DEF InTxn
<1>2. lock' = Free /\ note' = "none" /\ UNCHANGED <<notice, pool, said, shown>>
  BY DEF Abandon, ResetLocals, user
<1>3. Lease!GiveUp(r)
  BY <1>1, <1>2 DEF Lease!GiveUp
<1> QED
  BY <1>3 DEF LeaseStep, Lease!Next

-----------------------------------------------------------------------------
(* The steps of a run.                                                     *)

LEMMA RunStepLease ==
  ASSUME NEW r \in Run, MutexInv, TypeOK, RunStep(r)
  PROVE  LeaseStep
<1>0. pc[r] \notin {"idle", "queued"} => lock = r
  BY DEF MutexInv, Inside
<1>1. CASE TurnAway(r)
  BY <1>1, SameLease DEF TurnAway, locals, slots, user
<1>2. CASE TakeLock(r)
  <2>1. lock = Free /\ lock' = r
        /\ UNCHANGED <<slot, note, notice, pool, said, shown>>
    BY <1>2 DEF TakeLock, user
  <2>2. Lease!Acquire(r)
    BY <2>1 DEF Lease!Acquire, InTxn
  <2> QED
    BY <2>2 DEF LeaseStep, Lease!Next
<1>3. CASE SwitchPool(r) \/ FindDead(r) \/ NoSessionYet(r)
  BY <1>0, <1>3, HolderWorks
  DEF SwitchPool, FindDead, NoSessionYet, locals, slots, user
<1>4. CASE RefuseSwitch(r) \/ FailRefusedContext(r) \/ OpenFails(r)
  BY <1>0, <1>4, HolderGivesUp
  DEF RefuseSwitch, FailRefusedContext, OpenFails
<1>5. CASE KeepContext(r) \/ ApplyContext(r) \/ IgnoreRefusedContext(r)
            \/ OpenSession(r)
  BY <1>0, <1>5, HolderWorks
  DEF KeepContext, ApplyContext, IgnoreRefusedContext, OpenSession,
      StartBatch, user
<1>6. CASE BatchDone(r) \/ StopCancelled(r) \/ SkipWrite(r) \/ SendStmt(r)
  BY <1>6, SameLease
  DEF BatchDone, StopCancelled, SkipWrite, SendStmt, locals, slots, user
<1>7. CASE StmtOk(r) \/ StmtError(r) \/ StmtTimesOut(r) \/ StmtCancelled(r)
  BY <1>0, <1>7, HolderWorks
  DEF StmtOk, StmtError, StmtTimesOut, StmtCancelled, NextStmt, locals,
      slots, user
<1>8. CASE ConnBreaks(r)
  BY <1>0, <1>8, HolderWorks DEF ConnBreaks, user
<1>9. CASE Respond(r)
  <2>1. lock = r
    BY <1>0, <1>9 DEF Respond
  <2>2. /\ lock' = Free /\ note' = "none" /\ shown' = InTxn
        /\ said' = IF note # "none" THEN note ELSE notice
        /\ notice' = IF note # "none" THEN notice ELSE "none"
        /\ UNCHANGED <<slot, pool>>
    BY <1>9 DEF Respond, ResetLocals
  <2>3. note \in {"none", "lost"} /\ notice \in {"none", "idle"}
    BY DEF TypeOK
  <2>4. Lease!Tell
    BY <2>2, <2>3 DEF Lease!Tell
  <2>5. Lease!Answer(r)
    BY <2>1, <2>2, <2>4 DEF Lease!Answer, InTxn
  <2> QED
    BY <2>5 DEF LeaseStep, Lease!Next
<1> QED
  BY <1>1, <1>2, <1>3, <1>4, <1>5, <1>6, <1>7, <1>8, <1>9 DEF RunStep

-----------------------------------------------------------------------------
(* The steps around a run.                                                 *)

LEMMA ClientGoneLease ==
  ASSUME NEW r \in Run, MutexInv, ClientGone(r)
  PROVE  LeaseStep
<1>1. CASE pc[r] = "queued"
  BY <1>1, SameLease DEF ClientGone, locals, slots, user
<1>2. CASE pc[r] # "queued"
  <2>1. lock = r
    BY <1>2 DEF ClientGone, MutexInv, Inside
  <2>2. Abandon(r) /\ (slot' = slot \/ slot' = NoSession)
    BY <1>2 DEF ClientGone
  <2> QED
    BY <2>1, <2>2, HolderGivesUp
<1> QED
  BY <1>1, <1>2

LEMMA AroundLease ==
  ASSUME MutexInv, TypeOK, Around
  PROVE  LeaseStep
<1>1. CASE \E r \in Run : Arrive(r) \/ Cancel(r)
  BY <1>1, SameLease DEF Arrive, Cancel, locals, slots, user
<1>2. CASE \E r \in Run : ClientGone(r)
  BY <1>2, ClientGoneLease
<1>3. CASE ServerDrops \/ ClosePools
  <2>1. CASE ServerDrops
    BY <2>1, SameLease DEF ServerDrops, locals, slots, user
  <2>2. CASE ClosePools
    BY <2>2 DEF ClosePools, LeaseStep, Lease!lease, InTxn, locals, user
  <2> QED
    BY <1>3, <2>1, <2>2
<1>4. CASE Unregister
  <2>1. Lease!Unregister
    BY <1>4 DEF Unregister, Lease!Unregister, InTxn, locals
  <2> QED
    BY <2>1 DEF LeaseStep, Lease!Next
<1>5. CASE CloseSession
  <2>1. Lease!Close
    BY <1>5 DEF CloseSession, Lease!Close, InTxn, locals, user
  <2> QED
    BY <2>1 DEF LeaseStep, Lease!Next
<1>6. CASE CloserDone
  <2>1. Lease!Release
    BY <1>6 DEF CloserDone, Lease!Release, InTxn, locals, user
  <2> QED
    BY <2>1 DEF LeaseStep, Lease!Next
<1>7. ASSUME NEW e \in timers, IdleTimer(e) PROVE LeaseStep
  <2>1. CASE e = epoch /\ lock = Free /\ slot # NoSession
    <3>1. /\ lock' = Closer /\ slot' = NoSession
          /\ notice' = IF slot.inTxn THEN "idle" ELSE notice
          /\ UNCHANGED <<note, pool, said, shown>>
      BY <1>7, <2>1 DEF IdleTimer, locals, user
    <3>2. Lease!Reap
      BY <2>1, <3>1 DEF Lease!Reap, InTxn
    <3> QED
      BY <3>2 DEF LeaseStep, Lease!Next
  <2>2. CASE ~(e = epoch /\ lock = Free /\ slot # NoSession)
    BY <1>7, <2>2, SameLease DEF IdleTimer, locals, user
  <2> QED
    BY <2>1, <2>2
<1> QED
  BY <1>1, <1>2, <1>3, <1>4, <1>5, <1>6, <1>7 DEF Around

-----------------------------------------------------------------------------
(* The refinement.  It needs the type of the two notices and that a run is *)
(* past try_lock only while it holds the mutex.                            *)

LEMMA StepLease ==
  ASSUME MutexInv, TypeOK, [Next]_vars
  PROVE  [Lease!Next]_(Lease!lease)
<1>1. CASE Next
  BY <1>1, RunStepLease, AroundLease DEF Next, LeaseStep
<1>2. CASE UNCHANGED vars
  BY <1>2, SameLease DEF vars, locals, slots, user, LeaseStep
<1> QED
  BY <1>1, <1>2

(* What the helper does to the editor's session is the lease EditorLease   *)
(* promises: a transaction begins and ends under its holder only, one that *)
(* the idle timer ends is told by an answer, which shows what is open.     *)
THEOREM ImplementsLease == Spec => LeaseKept
<1>1. Init => Lease!Init
  BY DEF Init, Lease!Init, InTxn
<1>2. MutexInv /\ TypeOK /\ [Next]_vars => [Lease!Next]_(Lease!lease)
  BY StepLease
<1> QED
  BY <1>1, <1>2, InvMutex, TypeCorrect, PTL DEF Spec, Lease!Spec, LeaseKept

=============================================================================
