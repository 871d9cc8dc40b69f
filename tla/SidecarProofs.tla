--------------------------- MODULE SidecarProofs ---------------------------
(***************************************************************************)
(* Theorems about Sidecar, for any number of windows, requests and helper  *)
(* processes.                                                              *)
(***************************************************************************)
EXTENDS Sidecar, FiniteSetTheorems, TLAPS

HelperOrNone == Helper \cup {None}

ReqRec == [pc : Pc, url : HelperOrNone, saved : HelperOrNone,
           dead : HelperOrNone, retry : BOOLEAN, execs : Nat]

(* The kinds the argument needs.                                           *)
Kinds ==
  /\ published \in HelperOrNone
  /\ cached \in [Window -> HelperOrNone]
  /\ boot \in [Window -> [phase : BootPhase, at : HelperOrNone]]
  /\ writes \subseteq Window \X HelperOrNone
  /\ reqs \in [Request -> ReqRec]

(* Phases with an execution still ahead.                                   *)
Ahead == {"new", "boot", "get", "probe", "kill", "sent"}

(* Executions done and those ahead, the one of the retry included, are two *)
(* at most.                                                                *)
Spent(q) ==
  /\ q.execs <= 2
  /\ q.pc \in Ahead => q.execs <= 1
  /\ q.pc \in Ahead /\ q.retry => q.execs = 0
  /\ q.pc = "served" /\ q.retry => q.execs <= 1

Budget == \A r \in Request : Spent(reqs[r])

IInv == Kinds /\ Budget

Good(q) == q \in ReqRec /\ Spent(q)

LEMMA SentGood ==
  ASSUME NEW q, Good(q), NEW h \in HelperOrNone, q.pc \in Ahead
  PROVE  Good(Sent(q, h)) /\ Good([Sent(q, None) EXCEPT !.pc = "boot"])
BY DEF Good, Spent, Sent, ReqRec, Ahead, Pc, HelperOrNone

LEMMA EndGood ==
  ASSUME NEW q, Good(q), NEW pc \in {"done", "failed"}
  PROVE  Good(End(q, pc))
BY DEF Good, Spent, Sent, End, ReqRec, Ahead, Pc, HelperOrNone

LEMMA ServedRecord ==
  ASSUME NEW q \in ReqRec, NEW m \in Nat
  PROVE  /\ [q EXCEPT !.pc = "served", !.execs = m] \in ReqRec
         /\ [q EXCEPT !.pc = "served", !.execs = m].pc = "served"
         /\ [q EXCEPT !.pc = "served", !.execs = m].execs = m
         /\ [q EXCEPT !.pc = "served", !.execs = m].retry = q.retry
BY DEF ReqRec, Pc

LEMMA ServedGood ==
  ASSUME NEW q, Good(q), q.pc = "sent"
  PROVE  Good([q EXCEPT !.pc = "served", !.execs = q.execs + 1])
<1>1. q.execs \in Nat /\ q.execs <= 1 /\ (q.retry => q.execs = 0)
  BY DEF Good, Spent, ReqRec, Ahead
<1>2. PICK m \in Nat : m = q.execs + 1
  BY <1>1
<1>3. m <= 2 /\ (q.retry => m <= 1)
  BY <1>1, <1>2
<1>4. Good([q EXCEPT !.pc = "served", !.execs = m])
  BY <1>3, ServedRecord DEF Good, Spent, Ahead
<1> QED BY <1>2, <1>4

(* A step that replaces the record of one request by a good one.           *)
LEMMA OneReq ==
  ASSUME IInv, NEW r \in Request, NEW q, Good(q),
         reqs' = [reqs EXCEPT ![r] = q]
  PROVE  reqs' \in [Request -> ReqRec] /\ Budget'
BY DEF IInv, Kinds, Budget, Good

LEMMA ReqGood ==
  ASSUME IInv, NEW r \in Request
  PROVE  Good(reqs[r]) /\ Owner[r] \in Window
BY OwnerAssumption DEF IInv, Kinds, Budget, Good

LEMMA EnsureGood ==
  ASSUME IInv, NEW r \in Request, NEW c \in HelperOrNone,
         Ensure(r, reqs[r], Owner[r], c), reqs[r].pc \in Ahead
  PROVE  /\ cached' \in [Window -> HelperOrNone]
         /\ boot' \in [Window -> [phase : BootPhase, at : HelperOrNone]]
         /\ reqs' \in [Request -> ReqRec]
         /\ Budget'
<1>1. Good(reqs[r]) /\ Owner[r] \in Window
  BY ReqGood
<1>2. cached' \in [Window -> HelperOrNone]
  BY <1>1 DEF Ensure, IInv, Kinds
<1>3. boot' \in [Window -> [phase : BootPhase, at : HelperOrNone]]
  BY <1>1 DEF Ensure, IInv, Kinds, BootPhase, HelperOrNone
<1>4. reqs' \in [Request -> ReqRec] /\ Budget'
  <2>1. CASE c # None
    BY <2>1, <1>1, SentGood, OneReq DEF Ensure
  <2>2. CASE c = None
    BY <2>2, <1>1, SentGood, OneReq DEF Ensure
  <2> QED BY <2>1, <2>2
<1> QED BY <1>2, <1>3, <1>4

LEMMA NotAdoptedGood ==
  ASSUME IInv, NEW r \in Request, NotAdopted(r), reqs[r].pc \in {"get", "probe"}
  PROVE  /\ cached' \in [Window -> HelperOrNone]
         /\ boot' \in [Window -> [phase : BootPhase, at : HelperOrNone]]
         /\ reqs' \in [Request -> ReqRec]
         /\ Budget'
<1>1. Good(reqs[r]) /\ Owner[r] \in Window
  BY ReqGood
<1>2. reqs[r].pc \in Ahead /\ cached[Owner[r]] \in HelperOrNone
  BY <1>1 DEF Ahead, IInv, Kinds
<1>3. CASE reqs[r].dead = None
  BY <1>3, <1>2, EnsureGood DEF NotAdopted
<1>4. CASE reqs[r].dead # None
  <2>1. Good([reqs[r] EXCEPT !.pc = "kill"])
    BY <1>1 DEF Good, Spent, ReqRec, Ahead, Pc
  <2> QED BY <2>1, <1>4, OneReq DEF NotAdopted, IInv, Kinds
<1> QED BY <1>3, <1>4

LEMMA SettleGood ==
  ASSUME IInv, NEW w \in Window, NEW h \in HelperOrNone, Settle(w, h)
  PROVE  /\ boot' \in [Window -> [phase : BootPhase, at : HelperOrNone]]
         /\ reqs' \in [Request -> ReqRec]
         /\ Budget'
<1>1. boot' \in [Window -> [phase : BootPhase, at : HelperOrNone]]
  BY DEF Settle, Idle, IInv, Kinds, BootPhase, HelperOrNone
<1>2. ASSUME NEW r \in Request PROVE Good(reqs'[r])
  <2>1. Good(reqs[r])
    BY ReqGood
  <2>2. CASE Owner[r] # w \/ reqs[r].pc # "boot"
    BY <2>1, <2>2 DEF Settle
  <2>3. CASE ~(Owner[r] # w \/ reqs[r].pc # "boot") /\ h = None
    <3>1. Good(End(reqs[r], "failed"))
      BY <2>1, EndGood
    <3> QED BY <3>1, <2>3 DEF Settle
  <2>4. CASE ~(Owner[r] # w \/ reqs[r].pc # "boot") /\ h # None
    <3>1. Good(Sent(reqs[r], h))
      BY <2>1, <2>4, SentGood DEF Ahead
    <3> QED BY <3>1, <2>4 DEF Settle
  <2> QED BY <2>2, <2>3, <2>4
<1>3. reqs' \in [Request -> ReqRec] /\ Budget'
  BY <1>2 DEF Settle, Good, Budget
<1> QED BY <1>1, <1>3

(* One step of a request.                                                  *)
LEMMA ReqStepGood ==
  ASSUME IInv, NEW r \in Request, ReqStep(r)
  PROVE  IInv'
<1> DEFINE q == reqs[r]
<1>0. Good(q) /\ Owner[r] \in Window /\ cached[Owner[r]] \in HelperOrNone
  BY ReqGood DEF IInv, Kinds
<1> USE DEF IInv
<1>1. CASE Start(r)
  <2>1. q.pc \in Ahead
    BY <1>1 DEF Start, Ahead
  <2> QED BY <2>1, <1>0, <1>1, EnsureGood DEF Start, Kinds
<1>2. CASE Execute(r)
  <2>1. Good([q EXCEPT !.pc = "served", !.execs = @ + 1])
    BY <1>0, <1>2, ServedGood DEF Execute
  <2>2. reqs' = [reqs EXCEPT ![r] = [q EXCEPT !.pc = "served",
                                              !.execs = @ + 1]]
    BY <1>2 DEF Execute, Kinds
  <2> QED BY <2>1, <2>2, <1>2, OneReq DEF Execute, Kinds
<1>3. CASE Answer(r)
  <2>1. Good(End(q, "done"))
    BY <1>0, EndGood
  <2> QED BY <2>1, <1>3, OneReq DEF Answer, Kinds
<1>4. CASE GiveUp(r)
  <2>1. Good(End(q, "failed"))
    BY <1>0, EndGood
  <2> QED BY <2>1, <1>4, OneReq DEF GiveUp, Kinds
<1>5. CASE Respawn(r)
  <2> DEFINE n == [q EXCEPT !.pc = "get", !.retry = FALSE, !.url = None,
                            !.dead = cached[Owner[r]]]
  <2>1. Good(n)
    BY <1>0, <1>5
    DEF Respawn, Broken, Good, Spent, ReqRec, Ahead, Pc, HelperOrNone
  <2>2. reqs' = [reqs EXCEPT ![r] = n]
    BY <1>5 DEF Respawn, Kinds
  <2>3. cached' \in [Window -> HelperOrNone]
    BY <1>5, <1>0 DEF Respawn, Kinds, HelperOrNone
  <2> HIDE DEF n
  <2> QED BY <2>1, <2>2, <2>3, <1>5, OneReq DEF Respawn, Kinds
<1>6. CASE ReadEndpoint(r)
  <2>1. CASE published = None
    BY <2>1, <1>6, NotAdoptedGood DEF ReadEndpoint, Kinds
  <2>2. CASE published # None
    <3>1. Good([q EXCEPT !.pc = "probe", !.saved = published])
      BY <1>0, <1>6 DEF ReadEndpoint, Good, Spent, ReqRec, Ahead, Pc, Kinds
    <3>2. reqs' = [reqs EXCEPT ![r] = [q EXCEPT !.pc = "probe",
                                                !.saved = published]]
      BY <1>6, <2>2 DEF ReadEndpoint, Kinds
    <3> QED BY <3>1, <3>2, <2>2, <1>6, OneReq DEF ReadEndpoint, Kinds
  <2> QED BY <2>1, <2>2
<1>7. CASE Probe(r)
  <2>1. q.pc \in Ahead /\ q.pc = "probe" /\ q.saved \in HelperOrNone
    BY <1>7, <1>0 DEF Probe, Ahead, Good, ReqRec
  <2>2. CASE Ensure(r, reqs[r], Owner[r], reqs[r].saved)
    BY <2>1, <2>2, <1>7, EnsureGood DEF Probe, Kinds
  <2>3. CASE NotAdopted(r)
    BY <2>1, <2>3, <1>7, NotAdoptedGood DEF Probe, Kinds
  <2> QED BY <2>2, <2>3, <1>7 DEF Probe
<1>8. CASE KillStale(r)
  <2>1. q.pc \in Ahead
    BY <1>8 DEF KillStale, Ahead
  <2> QED BY <2>1, <1>0, <1>8, EnsureGood DEF KillStale, Kinds
<1> QED
  BY <1>1, <1>2, <1>3, <1>4, <1>5, <1>6, <1>7, <1>8 DEF ReqStep

(* One step of a boot.                                                     *)
LEMMA BootStepGood ==
  ASSUME IInv, NEW w \in Window, BootSteps(w)
  PROVE  IInv'
<1>0. /\ boot[w].at \in HelperOrNone
      /\ None \in HelperOrNone
      /\ \A h \in HelperOrNone : [cached EXCEPT ![w] = h]
                                    \in [Window -> HelperOrNone]
  BY DEF IInv, Kinds, HelperOrNone
<1>a. ASSUME NEW phase \in BootPhase, NEW h \in HelperOrNone,
             BootStep(w, phase, h)
      PROVE  /\ boot' \in [Window -> [phase : BootPhase, at : HelperOrNone]]
             /\ reqs' = reqs
  BY <1>a DEF BootStep, IInv, Kinds
<1>b. reqs' = reqs => Budget'
  BY DEF IInv, Budget
<1> USE DEF IInv
<1>1. CASE BootReads(w)
  BY <1>1, <1>a, <1>b DEF BootReads, BootPhase, Kinds
<1>2. CASE BootProbes(w)
  <2>1. CASE Settle(w, boot[w].at) /\ cached' = [cached EXCEPT ![w] = boot[w].at]
    BY <2>1, <1>2, <1>0, SettleGood DEF BootProbes, Kinds
  <2>2. CASE BootStep(w, "spawn", None) /\ UNCHANGED cached
    BY <2>2, <1>2, <1>0, <1>a, <1>b DEF BootProbes, BootPhase, Kinds
  <2> QED BY <2>1, <2>2, <1>2 DEF BootProbes
<1>3. CASE Spawn(w)
  <2>1. PICK h \in Unborn : BootStep(w, "logs", h)
    BY <1>3 DEF Spawn
  <2>2. h \in HelperOrNone
    BY DEF Unborn, HelperOrNone
  <2> QED BY <2>1, <2>2, <1>3, <1>a, <1>b DEF Spawn, BootPhase, Kinds
<1>4. CASE SpawnFails(w)
  BY <1>4, <1>0, SettleGood DEF SpawnFails, Kinds
<1>5. CASE BootReady(w)
  BY <1>5, <1>0, SettleGood DEF BootReady, Kinds
<1>6. CASE BootExits(w)
  BY <1>6, <1>0, SettleGood DEF BootExits, Kinds
<1>7. CASE BootTimesOut(w)
  BY <1>7, <1>0, SettleGood DEF BootTimesOut, Kinds
<1> QED
  BY <1>1, <1>2, <1>3, <1>4, <1>5, <1>6, <1>7 DEF BootSteps

(* One step of a deactivation.                                             *)
LEMMA WindowStepGood ==
  ASSUME IInv, NEW w \in Window, WindowStep(w)
  PROVE  IInv'
<1> USE DEF IInv
<1> DEFINE r == Farewell[w]
<1>1. CASE OpenWindow(w)
  BY <1>1 DEF OpenWindow, Kinds, Budget
<1>2. CASE Deactivate(w)
  <2> DEFINE n == [reqs[r] EXCEPT !.pc  = IF cached[w] = None THEN "clear"
                                          ELSE "sent",
                                  !.url = cached[w]]
  <2>1. r \in Request /\ cached[w] \in HelperOrNone
    BY <1>2, OwnerAssumption DEF Deactivate, Kinds
  <2>2. Good(n)
    BY <2>1, <1>2, ReqGood DEF Deactivate, Good, Spent, ReqRec, Ahead, Pc
  <2>3. reqs' = [reqs EXCEPT ![r] = n]
    BY <1>2, <2>1 DEF Deactivate, Kinds
  <2> HIDE DEF n
  <2> QED BY <2>1, <2>2, <2>3, <1>2, OneReq DEF Deactivate, Kinds
<1>3. CASE KillShared(w)
  <2>1. r \in Request
    BY <1>3, OwnerAssumption DEF KillShared
  <2>2. Good([reqs[r] EXCEPT !.pc = "clear"])
    BY <2>1, <1>3, ReqGood DEF KillShared, Good, Spent, ReqRec, Ahead, Pc
  <2>3. reqs' = [reqs EXCEPT ![r] = [reqs[r] EXCEPT !.pc = "clear"]]
    BY <1>3, <2>1 DEF KillShared, Kinds
  <2> QED BY <2>1, <2>2, <2>3, <1>3, OneReq DEF KillShared, Kinds
<1>4. CASE Clear(w)
  <2>1. ASSUME NEW p \in Request PROVE Good(reqs'[p])
    BY <1>4, ReqGood, EndGood DEF Clear
  <2>2. reqs' \in [Request -> ReqRec] /\ Budget'
    BY <2>1, <1>4 DEF Clear, Good, Budget
  <2>3. /\ cached' \in [Window -> HelperOrNone]
        /\ boot' \in [Window -> [phase : BootPhase, at : HelperOrNone]]
        /\ published' \in HelperOrNone
    BY <1>4 DEF Clear, Kinds, Idle, BootPhase, HelperOrNone
  <2> QED BY <2>2, <2>3, <1>4 DEF Clear, Kinds
<1> QED
  BY <1>1, <1>2, <1>3, <1>4 DEF WindowStep

LEMMA NextGood ==
  ASSUME IInv, [Next]_vars
  PROVE  IInv'
<1>1. ASSUME NEW w \in Window, NEW h \in Helper, Publish(w, h) PROVE IInv'
  BY <1>1 DEF Publish, IInv, Kinds, Budget, HelperOrNone
<1>2. ASSUME NEW h \in Helper, GetReady(h) \/ Crash(h) PROVE IInv'
  BY <1>2 DEF GetReady, Crash, IInv, Kinds, Budget
<1>3. CASE UNCHANGED vars
  BY <1>3 DEF vars, IInv, Kinds, Budget
<1> QED
  BY <1>1, <1>2, <1>3, ReqStepGood, BootStepGood, WindowStepGood DEF Next

-----------------------------------------------------------------------------
(* Every helper that a variable names was started, and a place that uses   *)
(* one names one.                                                          *)
StartedOrNone == Started \cup {None}

Named(q) ==
  /\ {q.url, q.saved, q.dead} \subseteq StartedOrNone
  /\ q.pc \in {"sent", "served"} => q.url # None
  /\ q.pc = "probe" => q.saved # None
  /\ q.pc = "kill" => q.dead # None

BootNamed(b) ==
  /\ b.at \in StartedOrNone
  /\ b.phase \in {"probe", "logs"} => b.at # None

Born ==
  /\ helper \in [Helper -> HelperState]
  /\ published \in StartedOrNone
  /\ \A p \in writes : p[2] \in Started
  /\ \A w \in Window : cached[w] \in StartedOrNone /\ BootNamed(boot[w])
  /\ \A r \in Request : Named(reqs[r])
  /\ replaced \subseteq Started
  /\ open \subseteq Window

TInv == IInv /\ Born

LEMMA TInvTyped == TInv => TypeOK
<1> SUFFICES ASSUME TInv PROVE TypeOK
  OBVIOUS
<1>1. None \notin Helper
  BY HelperAssumption DEF Helper
<1>2. writes \subseteq Window \X Started
  BY DEF TInv, IInv, Kinds, Born
<1>3. \A r \in Request : reqs[r] \in [pc : Pc, url : StartedOrNone,
                           saved : StartedOrNone, dead : StartedOrNone,
                           retry : BOOLEAN, execs : Nat]
  BY DEF TInv, IInv, Kinds, Born, Named, ReqRec
<1>4. \A w \in Window : boot[w] \in [phase : BootPhase, at : StartedOrNone]
  BY DEF TInv, IInv, Kinds, Born, BootNamed
<1> QED
  BY <1>1, <1>2, <1>3, <1>4
  DEF TInv, IInv, Kinds, Born, Named, TypeOK, StartedOrNone

(* A helper that was started stays so, with its record.                    *)
LEMMA NamesStay ==
  ASSUME Started \subseteq Started'
  PROVE  /\ StartedOrNone \subseteq StartedOrNone'
         /\ \A q : Named(q) => Named(q)'
         /\ \A b : BootNamed(b) => BootNamed(b)'
BY DEF StartedOrNone, Named, BootNamed

(* One request's record changes, to one that names started helpers only.   *)
LEMMA OneNamed ==
  ASSUME TInv, NEW r \in Request, NEW q, Named(q),
         reqs' = [reqs EXCEPT ![r] = q], Started \subseteq Started'
  PROVE  \A p \in Request : Named(reqs[p])'
<1>1. \A p \in Request : Named(reqs[p]) /\ (p = r => reqs'[p] = q)
                         /\ (p # r => reqs'[p] = reqs[p])
  BY DEF TInv, Born, IInv, Kinds
<1> QED BY <1>1 DEF Named, StartedOrNone

LEMMA EnsureNames ==
  ASSUME TInv, NEW r \in Request, NEW c \in StartedOrNone,
         Started \subseteq Started', Ensure(r, reqs[r], Owner[r], c)
  PROVE  /\ \A p \in Request : Named(reqs[p])'
         /\ \A w \in Window : /\ cached'[w] \in StartedOrNone
                              /\ BootNamed(boot[w])'
<1>1. Owner[r] \in Window /\ StartedOrNone \subseteq StartedOrNone'
  BY OwnerAssumption DEF StartedOrNone
<1>2. \A w \in Window : cached'[w] \in StartedOrNone
  BY DEF Ensure, TInv, Born, IInv, Kinds
<1>3. \A w \in Window : BootNamed(boot[w])'
  BY <1>1 DEF Ensure, TInv, Born, IInv, Kinds, BootNamed, StartedOrNone
<1>4. Named(Sent(reqs[r], c)) \/ c = None
  BY DEF Sent, Named, TInv, Born, IInv, Kinds, ReqRec, StartedOrNone
<1>5. Named([Sent(reqs[r], None) EXCEPT !.pc = "boot"])
  BY DEF Sent, Named, TInv, Born, IInv, Kinds, ReqRec, StartedOrNone
<1>6. \A p \in Request : Named(reqs[p])'
  BY <1>4, <1>5, OneNamed DEF Ensure
<1> QED BY <1>2, <1>3, <1>6

LEMMA NotAdoptedNames ==
  ASSUME TInv, NEW r \in Request, NotAdopted(r),
         Started \subseteq Started', reqs[r].pc \in {"get", "probe"}
  PROVE  /\ \A p \in Request : Named(reqs[p])'
         /\ \A w \in Window : /\ cached'[w] \in StartedOrNone
                              /\ BootNamed(boot[w])'
<1>1. Owner[r] \in Window /\ StartedOrNone \subseteq StartedOrNone'
      /\ cached[Owner[r]] \in StartedOrNone
  BY OwnerAssumption DEF StartedOrNone, TInv, Born
<1>2. CASE reqs[r].dead = None
  BY <1>1, <1>2, EnsureNames DEF NotAdopted
<1>3. CASE reqs[r].dead # None
  <2>1. Named([reqs[r] EXCEPT !.pc = "kill"])
    BY <1>3 DEF Named, TInv, Born, IInv, Kinds, ReqRec
  <2>2. reqs' = [reqs EXCEPT ![r] = [reqs[r] EXCEPT !.pc = "kill"]]
    BY <1>3 DEF NotAdopted, TInv, IInv, Kinds
  <2> QED
    BY <2>1, <2>2, <1>1, <1>3, OneNamed
    DEF NotAdopted, TInv, Born, BootNamed
<1> QED BY <1>2, <1>3

LEMMA SettleNames ==
  ASSUME TInv, NEW w \in Window, NEW h \in StartedOrNone, Settle(w, h),
         Started \subseteq Started'
  PROVE  /\ \A p \in Request : Named(reqs[p])'
         /\ \A v \in Window : BootNamed(boot[v])'
<1>1. \A v \in Window : BootNamed(boot[v])'
  BY DEF Settle, Idle, TInv, Born, IInv, Kinds, BootNamed, StartedOrNone
<1>2. ASSUME NEW p \in Request PROVE Named(reqs[p])'
  <2>1. Named(reqs[p]) /\ reqs[p] \in ReqRec
    BY DEF TInv, Born, IInv, Kinds
  <2>2. Named(End(reqs[p], "failed")) /\ (h # None => Named(Sent(reqs[p], h)))
    BY <2>1 DEF Named, End, Sent, ReqRec, StartedOrNone
  <2>3. reqs'[p] \in {reqs[p], End(reqs[p], "failed"), Sent(reqs[p], h)}
        /\ (reqs'[p] = Sent(reqs[p], h) => h # None \/ Named(reqs'[p]))
    BY <2>1, <2>2 DEF Settle
  <2>4. Named(reqs'[p])
    BY <2>1, <2>2, <2>3
  <2> QED BY <2>4 DEF Named, StartedOrNone
<1> QED BY <1>1, <1>2

(* The steps that leave every helper as it is keep what refers to it.      *)
LEMMA NothingRenamed ==
  ASSUME TInv, Started \subseteq Started'
  PROVE  /\ UNCHANGED reqs => \A p \in Request : Named(reqs[p])'
         /\ UNCHANGED published => published' \in StartedOrNone'
         /\ UNCHANGED writes => \A p \in writes' : p[2] \in Started'
         /\ UNCHANGED replaced => replaced' \subseteq Started'
         /\ UNCHANGED cached => \A w \in Window : cached'[w] \in StartedOrNone'
         /\ UNCHANGED boot => \A w \in Window : BootNamed(boot[w])'
BY DEF TInv, Born, Named, BootNamed, StartedOrNone

LEMMA ReqStepNames ==
  ASSUME TInv, NEW r \in Request, ReqStep(r)
  PROVE  Born'
<1> DEFINE q == reqs[r]
<1>0. /\ q \in ReqRec /\ Named(q) /\ Owner[r] \in Window
      /\ cached[Owner[r]] \in StartedOrNone /\ None \in StartedOrNone
  BY OwnerAssumption DEF TInv, Born, IInv, Kinds, StartedOrNone
<1>a. /\ Started \subseteq Started'
      /\ helper' \in [Helper -> HelperState]
  <2>1. helper \in [Helper -> HelperState]
    BY DEF TInv, Born
  <2>2. CASE UNCHANGED helper
    BY <2>1, <2>2 DEF Started
  <2>3. CASE Execute(r)
    BY <2>1, <2>3 DEF Execute, Started, HelperState
  <2>4. CASE KillStale(r)
    <3>1. q.dead \in Started
      BY <2>4, <1>0 DEF KillStale, Named, StartedOrNone
    <3> QED BY <2>1, <2>4, <3>1 DEF KillStale, Started, HelperState
  <2> QED BY <2>2, <2>3, <2>4
          DEF ReqStep, Start, Answer, GiveUp, Respawn, ReadEndpoint, Probe
<1> USE NothingRenamed, <1>a
<1>1. CASE Start(r)
  BY <1>1, <1>0, EnsureNames DEF Start, Born, TInv, StartedOrNone
<1>2. CASE Execute(r)
  <2> DEFINE n == [q EXCEPT !.pc = "served", !.execs = @ + 1]
  <2>1. Named(n) /\ reqs' = [reqs EXCEPT ![r] = n]
    BY <1>2, <1>0 DEF Execute, Named, IInv, Kinds, ReqRec, TInv
  <2> HIDE DEF n
  <2> QED BY <1>2, <2>1, OneNamed DEF Execute, Born, TInv
<1>3. CASE Answer(r)
  BY <1>3, <1>0 DEF Answer, Born, TInv, Named, End, Sent, IInv, Kinds, ReqRec, StartedOrNone
<1>4. CASE GiveUp(r)
  BY <1>4, <1>0 DEF GiveUp, Born, TInv, Named, End, Sent, IInv, Kinds, ReqRec, StartedOrNone
<1>5. CASE Respawn(r)
  BY <1>5, <1>0 DEF Respawn, Born, TInv, Named, IInv, Kinds, ReqRec, StartedOrNone
<1>6. CASE ReadEndpoint(r)
  <2>1. CASE published = None
    BY <2>1, <1>6, <1>0, NotAdoptedNames DEF ReadEndpoint, Born, TInv, StartedOrNone
  <2>2. CASE published # None
    <3> DEFINE n == [q EXCEPT !.pc = "probe", !.saved = published]
    <3>1. Named(n) /\ reqs' = [reqs EXCEPT ![r] = n]
      BY <1>6, <2>2, <1>0 DEF ReadEndpoint, Named, IInv, Kinds, ReqRec, TInv, Born
    <3> HIDE DEF n
    <3> QED BY <1>6, <2>2, <3>1, OneNamed DEF ReadEndpoint, Born, TInv
  <2> QED BY <2>1, <2>2
<1>7. CASE Probe(r)
  <2>1. q.pc = "probe" /\ q.saved \in Started /\ q.dead \in StartedOrNone
    BY <1>7, <1>0 DEF Probe, Named, StartedOrNone
  <2>2. CASE Ensure(r, reqs[r], Owner[r], reqs[r].saved)
             /\ Drops({reqs[r].dead, cached[Owner[r]]}, reqs[r].saved)
    BY <2>1, <2>2, <1>7, <1>0, EnsureNames DEF Probe, Drops, Born, TInv, StartedOrNone
  <2>3. CASE NotAdopted(r) /\ UNCHANGED replaced
    BY <2>1, <2>3, <1>7, <1>0, NotAdoptedNames DEF Probe, Born, TInv, StartedOrNone
  <2> QED BY <2>2, <2>3, <1>7 DEF Probe
<1>8. CASE KillStale(r)
  BY <1>8, <1>0, EnsureNames DEF KillStale, Born, TInv, StartedOrNone
<1> QED
  BY <1>1, <1>2, <1>3, <1>4, <1>5, <1>6, <1>7, <1>8 DEF ReqStep

LEMMA BootStepNames ==
  ASSUME TInv, NEW w \in Window, BootSteps(w)
  PROVE  Born'
<1>0. /\ BootNamed(boot[w]) /\ cached[w] \in StartedOrNone
      /\ None \in StartedOrNone
      /\ helper \in [Helper -> HelperState]
  BY DEF TInv, Born, StartedOrNone
<1>a. /\ Started \subseteq Started'
      /\ helper' \in [Helper -> HelperState]
  <2>1. CASE UNCHANGED helper
    BY <2>1, <1>0 DEF Started
  <2>2. CASE Spawn(w)
    BY <2>2, <1>0 DEF Spawn, Unborn, Started, HelperState
  <2>3. CASE BootTimesOut(w)
    BY <2>3, <1>0 DEF BootTimesOut, Started, HelperState
  <2> QED BY <2>1, <2>2, <2>3
          DEF BootSteps, BootReads, BootProbes, SpawnFails, BootReady, BootExits
<1>b. ASSUME NEW phase, NEW h \in StartedOrNone', BootStep(w, phase, h),
             phase \in {"probe", "logs"} => h # None
      PROVE  /\ \A v \in Window : BootNamed(boot[v])'
             /\ \A r \in Request : Named(reqs[r])'
  BY <1>a, <1>b, NothingRenamed
  DEF BootStep, BootNamed, TInv, Born, IInv, Kinds, StartedOrNone
<1> USE NothingRenamed, <1>a
<1>1. CASE BootReads(w)
  <2>1. BootStep(w, IF published = None THEN "spawn" ELSE "probe", published)
    BY <1>1 DEF BootReads
  <2>2. published \in StartedOrNone'
    BY DEF TInv, Born, StartedOrNone
  <2> HIDE NothingRenamed
  <2>3. \A v \in Window : BootNamed(boot[v])'
    BY <2>1, <2>2, <1>b
  <2>4. \A r \in Request : Named(reqs[r])'
    BY <2>1, <2>2, <1>b
  <2> QED BY <2>3, <2>4, <1>1, NothingRenamed DEF BootReads, Born, TInv
<1>2. CASE BootProbes(w)
  <2>1. boot[w].at \in Started
    BY <1>2, <1>0 DEF BootProbes, BootNamed, StartedOrNone
  <2>2. CASE Settle(w, boot[w].at) /\ Drops({cached[w]}, boot[w].at)
             /\ cached' = [cached EXCEPT ![w] = boot[w].at]
    BY <2>1, <2>2, <1>2, <1>0, SettleNames
    DEF BootProbes, Drops, Born, TInv, StartedOrNone, IInv, Kinds
  <2>3. CASE BootStep(w, "spawn", None) /\ UNCHANGED <<cached, replaced>>
    <3>1. /\ \A v \in Window : BootNamed(boot[v])'
          /\ \A r \in Request : Named(reqs[r])'
      BY <2>3, <1>b DEF StartedOrNone
    <3> QED BY <3>1, <2>3, <1>2 DEF BootProbes, Born, TInv
  <2> QED BY <2>2, <2>3, <1>2 DEF BootProbes
<1>3. CASE Spawn(w)
  <2>1. PICK h \in Unborn : /\ helper' = [helper EXCEPT ![h] = "starting"]
                            /\ BootStep(w, "logs", h)
    BY <1>3 DEF Spawn
  <2>2. h \in StartedOrNone' /\ h # None
    BY <2>1, <1>0, HelperAssumption DEF Unborn, StartedOrNone, Started, Helper
  <2>3. /\ \A v \in Window : BootNamed(boot[v])'
        /\ \A r \in Request : Named(reqs[r])'
    BY <2>1, <2>2, <1>b
  <2> QED BY <2>3, <1>3 DEF Spawn, Born, TInv
<1>4. CASE SpawnFails(w)
  BY <1>4, <1>0, SettleNames DEF SpawnFails, Born, TInv
<1>5. CASE BootReady(w)
  <2>1. boot[w].at \in Started
    BY <1>5, <1>0 DEF BootReady, BootNamed, StartedOrNone
  <2> QED BY <2>1, <1>5, <1>0, SettleNames
          DEF BootReady, Drops, Born, TInv, StartedOrNone, IInv, Kinds
<1>6. CASE BootExits(w)
  BY <1>6, <1>0, SettleNames DEF BootExits, Born, TInv
<1>7. CASE BootTimesOut(w)
  BY <1>7, <1>0, SettleNames DEF BootTimesOut, Born, TInv
<1> QED
  BY <1>1, <1>2, <1>3, <1>4, <1>5, <1>6, <1>7 DEF BootSteps

LEMMA WindowStepNames ==
  ASSUME TInv, NEW w \in Window, WindowStep(w)
  PROVE  Born'
<1> DEFINE r == Farewell[w]
<1>0. /\ BootNamed(boot[w]) /\ cached[w] \in StartedOrNone
      /\ None \in StartedOrNone
      /\ helper \in [Helper -> HelperState]
  BY DEF TInv, Born, StartedOrNone
<1>a. /\ Started \subseteq Started'
      /\ helper' \in [Helper -> HelperState]
  <2>1. CASE UNCHANGED helper
    BY <2>1, <1>0 DEF Started
  <2>2. CASE KillShared(w)
    BY <2>2, <1>0 DEF KillShared, Started, StartedOrNone, HelperState
  <2> QED BY <2>1, <2>2 DEF WindowStep, OpenWindow, Deactivate, Clear
<1> USE NothingRenamed, <1>a
<1>1. CASE OpenWindow(w)
  BY <1>1 DEF OpenWindow, Born, TInv
<1>2. CASE Deactivate(w)
  <2> DEFINE n == [reqs[r] EXCEPT !.pc  = IF cached[w] = None THEN "clear"
                                          ELSE "sent",
                                  !.url = cached[w]]
  <2>1. r \in Request
    BY <1>2, OwnerAssumption DEF Deactivate
  <2>2. Named(n) /\ reqs' = [reqs EXCEPT ![r] = n]
    BY <2>1, <1>2, <1>0 DEF Deactivate, TInv, Born, Named, IInv, Kinds, ReqRec
  <2> HIDE DEF n
  <2> QED BY <2>1, <2>2, <1>2, OneNamed DEF Deactivate, Born, TInv
<1>3. CASE KillShared(w)
  <2> DEFINE n == [reqs[r] EXCEPT !.pc = "clear"]
  <2>1. r \in Request
    BY <1>3, OwnerAssumption DEF KillShared
  <2>2. Named(n) /\ reqs' = [reqs EXCEPT ![r] = n]
    BY <2>1, <1>3 DEF KillShared, TInv, Born, Named, IInv, Kinds, ReqRec
  <2> HIDE DEF n
  <2> QED BY <2>1, <2>2, <1>3, OneNamed DEF KillShared, Born, TInv
<1>4. CASE Clear(w)
  <2>1. ASSUME NEW p \in Request PROVE Named(reqs[p])'
    <3>1. Named(reqs[p]) /\ Named(End(reqs[p], "failed"))
      BY DEF TInv, Born, IInv, Kinds, Named, End, Sent, ReqRec, StartedOrNone
    <3>2. reqs'[p] \in {reqs[p], End(reqs[p], "failed")}
      BY <1>4 DEF Clear
    <3> QED BY <3>1, <3>2 DEF Named, StartedOrNone
  <2>2. \A v \in Window : BootNamed(boot[v])' /\ cached'[v] \in StartedOrNone'
    BY <1>4 DEF Clear, TInv, Born, IInv, Kinds, BootNamed, Idle, StartedOrNone
  <2> QED BY <2>1, <2>2, <1>4 DEF Clear, Born, TInv, StartedOrNone
<1> QED
  BY <1>1, <1>2, <1>3, <1>4 DEF WindowStep

LEMMA NextNames ==
  ASSUME TInv, [Next]_vars
  PROVE  TInv'
<1>0. IInv'
  BY NextGood DEF TInv
<1>1. ASSUME NEW w \in Window, NEW h \in Helper, Publish(w, h) PROVE Born'
  <2>1. h \in Started /\ Started' = Started
    BY <1>1 DEF Publish, TInv, Born, Started
  <2> QED BY <2>1, <1>1, NothingRenamed DEF Publish, TInv, Born, StartedOrNone
<1>2. ASSUME NEW h \in Helper, GetReady(h) \/ Crash(h) PROVE Born'
  <2>1. Started \subseteq Started' /\ helper' \in [Helper -> HelperState]
    BY <1>2 DEF GetReady, Crash, Alive, TInv, Born, Started, HelperState
  <2> QED BY <2>1, <1>2, NothingRenamed DEF GetReady, Crash, TInv, Born
<1>3. CASE UNCHANGED vars
  <2>1. Started' = Started
    BY <1>3 DEF vars, Started
  <2> QED BY <2>1, <1>0, <1>3, NothingRenamed DEF vars, TInv, Born
<1> QED
  BY <1>0, <1>1, <1>2, <1>3, ReqStepNames, BootStepNames, WindowStepNames
  DEF Next, TInv

LEMMA InitNames == Init => TInv
<1> SUFFICES ASSUME Init PROVE TInv
  OBVIOUS
<1>1. IInv
  BY DEF Init, IInv, Kinds, Budget, Spent, ReqRec, Pc, BootPhase, Idle,
         HelperOrNone, Ahead
<1>2. Born
  BY OwnerAssumption
  DEF Init, Born, Named, BootNamed, StartedOrNone, Started, HelperState, Idle
<1> QED BY <1>1, <1>2 DEF TInv

(* Every variable of sidecar.js and of the host holds a value of its kind, *)
(* and no handler is sent to, probes, kills or publishes a helper that was *)
(* never started.                                                          *)
THEOREM SidecarTyped == Spec => []TypeOK
BY InitNames, NextNames, TInvTyped, PTL DEF Spec

-----------------------------------------------------------------------------
(* What only ever happens: a call begins, spends its retry, a helper dies. *)
Since(q, p) ==
  /\ p.pc = "new" => q.pc = "new"
  /\ p.retry => q.retry
  /\ p.pc \in {"get", "probe", "kill"} =>
       ~p.retry \/ (q.pc \in {"get", "probe", "kill"} /\ q.retry = p.retry)

LEMMA SinceForms ==
  ASSUME NEW q \in ReqRec, NEW h
  PROVE  /\ Since(q, q) /\ Since(q, Sent(q, h))
         /\ Since(q, [Sent(q, None) EXCEPT !.pc = "boot"])
         /\ Since(q, End(q, "failed")) /\ Since(q, End(q, "done"))
BY DEF Since, Sent, End, ReqRec

LEMMA RequestsGoOn ==
  ASSUME TInv, [Next]_vars
  PROVE  \A p \in Request : Since(reqs[p], reqs'[p])
<1> SUFFICES ASSUME NEW p \in Request PROVE Since(reqs[p], reqs'[p])
  OBVIOUS
<1>0. reqs \in [Request -> ReqRec] /\ reqs[p] \in ReqRec
  BY DEF TInv, IInv, Kinds
<1>a. ASSUME NEW r \in Request, NEW q, reqs' = [reqs EXCEPT ![r] = q],
             Since(reqs[r], q)
      PROVE  Since(reqs[p], reqs'[p])
  BY <1>0, <1>a, SinceForms
<1>b. ASSUME UNCHANGED reqs PROVE Since(reqs[p], reqs'[p])
  BY <1>0, <1>b, SinceForms
<1>c. ASSUME NEW r \in Request, NEW w, NEW c, Ensure(r, reqs[r], w, c)
      PROVE  Since(reqs[p], reqs'[p])
  <2>1. reqs[r] \in ReqRec
    BY <1>0
  <2> QED BY <2>1, <1>a, <1>c, SinceForms DEF Ensure
<1>d. ASSUME NEW r \in Request, NotAdopted(r), reqs[r].pc \in {"get", "probe"}
      PROVE  Since(reqs[p], reqs'[p])
  <2>1. Since(reqs[r], [reqs[r] EXCEPT !.pc = "kill"])
        /\ (reqs' = [reqs EXCEPT ![r].pc = "kill"]
              => reqs' = [reqs EXCEPT ![r] = [reqs[r] EXCEPT !.pc = "kill"]])
    BY <1>0, <1>d DEF Since, ReqRec
  <2> QED BY <2>1, <1>a, <1>c, <1>d DEF NotAdopted
<1>e. ASSUME NEW w, NEW h, Settle(w, h) PROVE Since(reqs[p], reqs'[p])
  <2>1. reqs'[p] \in {reqs[p], End(reqs[p], "failed"), Sent(reqs[p], h)}
    BY <1>e DEF Settle
  <2> QED BY <2>1, <1>0, SinceForms
<1>1. ASSUME NEW r \in Request, ReqStep(r) PROVE Since(reqs[p], reqs'[p])
  <2>0. reqs[r] \in ReqRec
    BY <1>0
  <2>1. CASE Start(r)
    BY <2>1, <1>c DEF Start
  <2>2. CASE Execute(r)
    <3> DEFINE n == [reqs[r] EXCEPT !.pc = "served", !.execs = @ + 1]
    <3>1. Since(reqs[r], n) /\ reqs' = [reqs EXCEPT ![r] = n]
      BY <2>2, <2>0 DEF Execute, Since, ReqRec, TInv, IInv, Kinds
    <3> HIDE DEF n
    <3> QED BY <3>1, <1>a
  <2>3. CASE Answer(r) \/ GiveUp(r)
    BY <2>3, <2>0, <1>a, SinceForms DEF Answer, GiveUp
  <2>4. CASE Respawn(r)
    <3> DEFINE n == [reqs[r] EXCEPT !.pc = "get", !.retry = FALSE, !.url = None,
                                    !.dead = cached[Owner[r]]]
    <3>1. Since(reqs[r], n) /\ reqs' = [reqs EXCEPT ![r] = n]
      BY <2>4, <2>0 DEF Respawn, Broken, Since, ReqRec, TInv, IInv, Kinds
    <3> HIDE DEF n
    <3> QED BY <3>1, <1>a
  <2>5. CASE ReadEndpoint(r)
    <3> DEFINE n == [reqs[r] EXCEPT !.pc = "probe", !.saved = published]
    <3>1. Since(reqs[r], n)
          /\ (published # None => reqs' = [reqs EXCEPT ![r] = n])
      BY <2>5, <2>0 DEF ReadEndpoint, Since, ReqRec, TInv, IInv, Kinds
    <3> HIDE DEF n
    <3> QED BY <3>1, <2>5, <1>a, <1>d DEF ReadEndpoint
  <2>6. CASE Probe(r)
    BY <2>6, <1>c, <1>d DEF Probe
  <2>7. CASE KillStale(r)
    BY <2>7, <1>c DEF KillStale
  <2> QED BY <1>1, <2>1, <2>2, <2>3, <2>4, <2>5, <2>6, <2>7 DEF ReqStep
<1>2. ASSUME NEW w \in Window, BootSteps(w) PROVE Since(reqs[p], reqs'[p])
  BY <1>2, <1>b, <1>e
  DEF BootSteps, BootReads, BootProbes, Spawn, SpawnFails, BootReady, BootExits,
      BootTimesOut, BootStep
<1>3. ASSUME NEW w \in Window, WindowStep(w) PROVE Since(reqs[p], reqs'[p])
  <2> DEFINE r == Farewell[w]
  <2>1. CASE OpenWindow(w)
    BY <2>1, <1>b DEF OpenWindow
  <2>2. CASE Deactivate(w)
    <3> DEFINE n == [reqs[r] EXCEPT !.pc  = IF cached[w] = None THEN "clear"
                                            ELSE "sent",
                                    !.url = cached[w]]
    <3>1. r \in Request
      BY <2>2, OwnerAssumption DEF Deactivate
    <3>2. Since(reqs[r], n) /\ reqs' = [reqs EXCEPT ![r] = n]
      BY <3>1, <2>2 DEF Deactivate, Since, ReqRec, TInv, IInv, Kinds
    <3> HIDE DEF n
    <3> QED BY <3>1, <3>2, <1>a
  <2>3. CASE KillShared(w)
    <3> DEFINE n == [reqs[r] EXCEPT !.pc = "clear"]
    <3>1. r \in Request
      BY <2>3, OwnerAssumption DEF KillShared
    <3>2. Since(reqs[r], n) /\ reqs' = [reqs EXCEPT ![r] = n]
      BY <3>1, <2>3 DEF KillShared, Ended, Since, ReqRec, TInv, IInv, Kinds
    <3> HIDE DEF n
    <3> QED BY <3>1, <3>2, <1>a
  <2>4. CASE Clear(w)
    <3>1. reqs'[p] \in {reqs[p], End(reqs[p], "failed")}
      BY <2>4 DEF Clear
    <3> QED BY <3>1, <1>0, SinceForms
  <2> QED BY <1>3, <2>1, <2>2, <2>3, <2>4 DEF WindowStep
<1> QED
  BY <1>1, <1>2, <1>3, <1>b DEF Next, Publish, GetReady, Crash, vars

-----------------------------------------------------------------------------
(* No window closes; and then no live helper is forgotten but for another. *)
AllStay == \A w \in Window : Stays(w)
Remembered == AllStay =>
  \A h \in Helper : Alive(h) => Known(h) \/ h \in replaced

LEMMA AllStayed ==
  ASSUME TInv, [Next]_vars, AllStay'
  PROVE  AllStay
<1> SUFFICES ASSUME NEW w \in Window PROVE Stays(w)
  BY DEF AllStay
<1>1. Farewell[w] # None => Farewell[w] \in Request
  BY OwnerAssumption
<1> QED BY <1>1, RequestsGoOn DEF AllStay, Stays, Since

(* A window's cached helper is replaced by g; another place keeps its own. *)
LEMMA EnsureRemembers ==
  ASSUME TInv, NEW r \in Request, NEW g \in StartedOrNone,
         Ensure(r, reqs[r], Owner[r], g), Remembered, AllStay,
         NEW h \in Helper, Alive(h), h \notin replaced,
         cached[Owner[r]] = h => g = h,
         reqs[r].pc \in {"get", "probe", "kill"} /\ reqs[r].dead = h => g = h
  PROVE  Known(h)'
<1>0. Owner[r] \in Window /\ h # None
  BY OwnerAssumption, HelperAssumption DEF Helper
<1>1. CASE \E w \in Window : cached[w] = h
  BY <1>0, <1>1 DEF Ensure, Known, TInv, IInv, Kinds
<1>2. CASE \E w \in Window : boot[w] = [phase |-> "logs", at |-> h]
  <2>1. PICK w \in Window : boot[w] = [phase |-> "logs", at |-> h]
    BY <1>2
  <2>2. boot'[w] = boot[w]
    BY <2>1 DEF Ensure, Idle, TInv, IInv, Kinds
  <2> QED BY <2>1, <2>2 DEF Known
<1>3. CASE \E p \in Request : /\ reqs[p].pc \in {"get", "probe", "kill"}
                              /\ reqs[p].dead = h
  <2>1. PICK p \in Request : /\ reqs[p].pc \in {"get", "probe", "kill"}
                             /\ reqs[p].dead = h
    BY <1>3
  <2>2. CASE p = r
    BY <2>1, <2>2, <1>0 DEF Ensure, Known, TInv, IInv, Kinds
  <2>3. CASE p # r
    <3>1. reqs'[p] = reqs[p]
      BY <2>3 DEF Ensure, TInv, IInv, Kinds
    <3> QED BY <3>1, <2>1 DEF Known
  <2> QED BY <2>2, <2>3
<1>4. Known(h)
  BY DEF Remembered
<1> QED BY <1>1, <1>2, <1>3, <1>4 DEF Known

LEMMA NotAdoptedRemembers ==
  ASSUME TInv, NEW r \in Request, NotAdopted(r), Remembered, AllStay,
         reqs[r].pc \in {"get", "probe"},
         NEW h \in Helper, Alive(h), h \notin replaced
  PROVE  Known(h)'
<1>0. Owner[r] \in Window /\ h # None /\ cached[Owner[r]] \in StartedOrNone
  BY OwnerAssumption, HelperAssumption DEF Helper, TInv, Born
<1>1. CASE reqs[r].dead = None
  BY <1>0, <1>1, EnsureRemembers DEF NotAdopted
<1>2. CASE reqs[r].dead # None
  <2>1. \A p \in Request : reqs'[p] = [reqs[p] EXCEPT
                             !.pc = IF p = r THEN "kill" ELSE @]
    BY <1>2 DEF NotAdopted, TInv, IInv, Kinds, ReqRec
  <2>2. \A p \in Request : /\ reqs'[p].dead = reqs[p].dead
                           /\ p # r => reqs'[p].pc = reqs[p].pc
                           /\ p = r => reqs'[p].pc = "kill"
    BY ZenonT(40), <2>1 DEF TInv, IInv, Kinds, ReqRec
  <2> QED BY <1>2, <2>2 DEF NotAdopted, Known, Remembered
<1> QED BY <1>1, <1>2

LEMMA SettleRemembers ==
  ASSUME TInv, NEW w \in Window, NEW g, Settle(w, g), NEW h \in Helper,
         Known(h), boot[w] # [phase |-> "logs", at |-> h],
         \A v \in Window : cached[v] = h => \E u \in Window : cached'[u] = h
  PROVE  Known(h)'
<1>1. \A v \in Window : boot[v] = [phase |-> "logs", at |-> h]
                          => boot'[v] = boot[v]
  BY DEF Settle, TInv, IInv, Kinds
<1>2. \A p \in Request : reqs[p].pc \in {"get", "probe", "kill"}
                          => reqs'[p] = reqs[p]
  BY DEF Settle
<1> QED BY <1>1, <1>2 DEF Known

LEMMA StepRemembers ==
  ASSUME TInv, Remembered, [Next]_vars
  PROVE  Remembered'
<1> SUFFICES ASSUME AllStay', NEW h \in Helper, Alive(h)', h \notin replaced'
             PROVE  Known(h)'
  BY DEF Remembered
<1>0. AllStay /\ h # None /\ None \in StartedOrNone
  BY AllStayed, HelperAssumption DEF Helper, StartedOrNone
<1>a. Alive(h) /\ h \notin replaced => Known(h)
  BY <1>0 DEF Remembered
<1>b. UNCHANGED <<cached, boot, reqs>> /\ Known(h) => Known(h)'
  BY DEF Known
<1>c. ASSUME NEW r \in Request
      PROVE  /\ reqs[r] \in ReqRec /\ Named(reqs[r]) /\ Owner[r] \in Window
             /\ cached[Owner[r]] \in StartedOrNone
  BY OwnerAssumption DEF TInv, Born, IInv, Kinds
<1>d. ASSUME NEW r \in Request, NEW q, reqs' = [reqs EXCEPT ![r] = q],
             UNCHANGED <<cached, boot>>, Known(h),
             reqs[r].pc \notin {"get", "probe", "kill"}
               \/ (q.pc = "probe" /\ q.dead = reqs[r].dead)
      PROVE  Known(h)'
  <2>1. \A p \in Request : reqs'[p] = IF p = r THEN q ELSE reqs[p]
    BY <1>d DEF TInv, IInv, Kinds
  <2> QED BY <2>1, <1>d DEF Known
<1>1. ASSUME NEW r \in Request, ReqStep(r) PROVE Known(h)'
  <2>0. Alive(h) /\ h \notin replaced
    BY <1>1
    DEF ReqStep, Start, Execute, Answer, GiveUp, Respawn, ReadEndpoint, Probe,
        KillStale, Alive, Drops, TInv, Born
  <2>1. CASE Start(r)
    BY <2>0, <2>1, <1>0, <1>c, EnsureRemembers DEF Start
  <2>2. CASE Execute(r)
    <3> DEFINE n == [reqs[r] EXCEPT !.pc = "served", !.execs = @ + 1]
    <3>1. reqs' = [reqs EXCEPT ![r] = n]
      BY <2>2 DEF Execute, TInv, IInv, Kinds
    <3> HIDE DEF n
    <3> QED BY <3>1, <2>0, <2>2, <1>a, <1>d DEF Execute
  <2>3. CASE Answer(r) \/ GiveUp(r)
    BY <2>0, <2>3, <1>a, <1>d DEF Answer, GiveUp, Broken
  <2>4. CASE Respawn(r)
    <3>1. \A p \in Request : p # r => reqs'[p] = reqs[p]
      BY <2>4 DEF Respawn, TInv, IInv, Kinds
    <3>2. reqs'[r].pc = "get" /\ reqs'[r].dead = cached[Owner[r]]
      BY <2>4, <1>c DEF Respawn, TInv, IInv, Kinds, ReqRec
    <3>3. reqs[r].pc \in {"sent", "served"}
      BY <2>4 DEF Respawn, Broken
    <3>4. \A w \in Window : w # Owner[r] => cached'[w] = cached[w]
      BY <2>4 DEF Respawn, TInv, IInv, Kinds
    <3>5. boot' = boot
      BY <2>4 DEF Respawn
    <3> QED
      BY <3>1, <3>2, <3>3, <3>4, <3>5, <2>4, <2>0, <1>a DEF Known
  <2>5. CASE ReadEndpoint(r)
    <3>1. CASE published = None
      BY <3>1, <2>5, <2>0, <1>0, NotAdoptedRemembers DEF ReadEndpoint
    <3>2. CASE published # None
      <4> DEFINE n == [reqs[r] EXCEPT !.pc = "probe", !.saved = published]
      <4>1. reqs' = [reqs EXCEPT ![r] = n]
            /\ n.pc = "probe" /\ n.dead = reqs[r].dead
        BY <3>2, <2>5, <1>c DEF ReadEndpoint, TInv, IInv, Kinds, ReqRec
      <4> HIDE DEF n
      <4> QED BY <4>1, <3>2, <2>5, <2>0, <1>a, <1>d DEF ReadEndpoint
    <3> QED BY <3>1, <3>2
  <2>6. CASE Probe(r)
    <3>0. reqs[r].pc = "probe" /\ reqs[r].saved \in StartedOrNone
          /\ reqs[r].saved # None
      BY <2>6, <1>c DEF Probe, Named
    <3>1. CASE Ensure(r, reqs[r], Owner[r], reqs[r].saved)
               /\ Drops({reqs[r].dead, cached[Owner[r]]}, reqs[r].saved)
      BY <3>0, <3>1, <2>0, <1>0, EnsureRemembers DEF Drops
    <3>2. CASE NotAdopted(r)
      BY <3>0, <3>2, <2>0, <1>0, NotAdoptedRemembers
    <3> QED BY <3>1, <3>2, <2>6 DEF Probe
  <2>7. CASE KillStale(r)
    <3>1. reqs[r].dead # h
      BY <2>7 DEF KillStale, Alive, TInv, Born
    <3> QED BY <3>1, <2>7, <2>0, <1>0, <1>c, EnsureRemembers DEF KillStale
  <2> QED BY <1>1, <2>1, <2>2, <2>3, <2>4, <2>5, <2>6, <2>7 DEF ReqStep
<1>2. ASSUME NEW w \in Window, BootSteps(w) PROVE Known(h)'
  <2>0. cached[w] \in StartedOrNone /\ BootNamed(boot[w])
    BY DEF TInv, Born
  <2>a. ASSUME NEW phase, NEW g, BootStep(w, phase, g), UNCHANGED cached,
               Known(h), boot[w].phase # "logs"
        PROVE  Known(h)'
    <3>1. \A v \in Window : v # w => boot'[v] = boot[v]
      BY <2>a DEF BootStep, TInv, IInv, Kinds
    <3> QED BY <3>1, <2>a DEF BootStep, Known
  <2>b. boot[w].phase # "logs" \/ boot[w].at # h
          => boot[w] # [phase |-> "logs", at |-> h]
    OBVIOUS
  <2>1. CASE BootReads(w)
    BY <2>1, <2>a, <1>a DEF BootReads, Alive
  <2>2. CASE BootProbes(w)
    <3>0. Alive(h) /\ h \notin replaced
      BY <2>2 DEF BootProbes, Alive, Drops
    <3>1. CASE /\ Settle(w, boot[w].at) /\ Drops({cached[w]}, boot[w].at)
               /\ cached' = [cached EXCEPT ![w] = boot[w].at]
      <4>1. cached[w] = h => boot[w].at = h
        BY <3>1, <1>0 DEF Drops
      <4>2. \A v \in Window : cached[v] = h => cached'[v] = h
        BY <4>1, <3>1 DEF TInv, IInv, Kinds
      <4>3. boot[w] # [phase |-> "logs", at |-> h]
        BY <2>2 DEF BootProbes
      <4> QED BY <4>2, <4>3, <3>0, <3>1, <1>a, SettleRemembers
    <3>2. CASE BootStep(w, "spawn", None) /\ UNCHANGED cached
      BY <3>0, <3>2, <2>2, <2>a, <1>a DEF BootProbes
    <3> QED BY <3>1, <3>2, <2>2 DEF BootProbes
  <2>3. CASE Spawn(w)
    <3>1. PICK g \in Unborn : /\ helper' = [helper EXCEPT ![g] = "starting"]
                              /\ BootStep(w, "logs", g)
      BY <2>3 DEF Spawn
    <3>2. CASE g = h
      BY <3>1, <3>2 DEF BootStep, Known, TInv, IInv, Kinds
    <3>3. CASE g # h
      BY <3>1, <3>3, <2>3, <2>a, <1>a DEF Spawn, Alive, TInv, Born
    <3> QED BY <3>2, <3>3
  <2>4. CASE SpawnFails(w)
    BY <2>4, <1>a, <2>b, SettleRemembers DEF SpawnFails, Alive
  <2>5. CASE BootReady(w)
    <3>0. Alive(h) /\ h \notin replaced
      BY <2>5 DEF BootReady, Alive, Drops
    <3>1. CASE boot[w].at = h
      BY <3>1, <2>5 DEF BootReady, Known, TInv, IInv, Kinds
    <3>2. CASE boot[w].at # h
      <4>1. cached[w] # h
        BY <3>2, <2>5, <1>0 DEF BootReady, Drops
      <4>2. \A v \in Window : cached[v] = h => cached'[v] = h
        BY <4>1, <2>5 DEF BootReady, TInv, IInv, Kinds
      <4> QED BY <4>2, <3>0, <3>2, <2>5, <1>a, <2>b, SettleRemembers DEF BootReady
    <3> QED BY <3>1, <3>2
  <2>6. CASE BootExits(w)
    <3>1. Alive(h) /\ h \notin replaced /\ boot[w].at # h
      BY <2>6 DEF BootExits, Alive
    <3> QED BY <3>1, <2>6, <1>a, <2>b, SettleRemembers DEF BootExits
  <2>7. CASE BootTimesOut(w)
    <3>1. Alive(h) /\ h \notin replaced /\ boot[w].at # h
      BY <2>7 DEF BootTimesOut, Alive, TInv, Born
    <3> QED BY <3>1, <2>7, <1>a, <2>b, SettleRemembers DEF BootTimesOut
  <2> QED BY <1>2, <2>1, <2>2, <2>3, <2>4, <2>5, <2>6, <2>7 DEF BootSteps
<1>3. ASSUME NEW w \in Window, WindowStep(w) PROVE Known(h)'
  <2>1. CASE OpenWindow(w)
    BY <2>1, <1>a, <1>b DEF OpenWindow, Alive
  <2>2. CASE Deactivate(w)
    <3>1. Farewell[w] \in Request /\ reqs'[Farewell[w]].pc # "new"
      BY <2>2, <1>c, OwnerAssumption DEF Deactivate, TInv, IInv, Kinds, ReqRec
    <3> QED BY <3>1, OwnerAssumption DEF AllStay, Stays
  <2>3. CASE KillShared(w) \/ Clear(w)
    <3>1. Farewell[w] # None /\ reqs[Farewell[w]].pc # "new"
      BY <2>3, OwnerAssumption DEF KillShared, Clear, Ended
    <3> QED BY <3>1, <1>0 DEF AllStay, Stays
  <2> QED BY <1>3, <2>1, <2>2, <2>3 DEF WindowStep
<1>4. ASSUME NEW w \in Window, NEW g \in Helper, Publish(w, g) PROVE Known(h)'
  BY <1>4, <1>a, <1>b DEF Publish, Alive
<1>5. ASSUME NEW g \in Helper, GetReady(g) \/ Crash(g) PROVE Known(h)'
  <2>1. Alive(h) /\ h \notin replaced
    BY <1>5 DEF GetReady, Crash, Alive, TInv, Born
  <2> QED BY <2>1, <1>5, <1>a, <1>b DEF GetReady, Crash
<1>6. CASE UNCHANGED vars
  BY <1>6, <1>a, <1>b DEF vars, Alive
<1> QED
  BY <1>1, <1>2, <1>3, <1>4, <1>5, <1>6 DEF Next

-----------------------------------------------------------------------------
(* Nothing has gone wrong yet: no window closed, no helper died, no fetch  *)
(* failed.  Then the main window has booted the one helper there is, and   *)
(* published it before another window could open.                          *)
Untouched ==
  /\ AllStay
  /\ \A h \in Helper : helper[h] # "dead"
  /\ \A r \in Request : reqs[r].retry

(* The main window boots, or has the one helper.                           *)
MainHasIt ==
  /\ \A h \in Helper : Alive(h) =>
       cached[Main] = h \/ boot[Main] = [phase |-> "logs", at |-> h]
  /\ boot[Main].phase # "probe"
  /\ cached[Main] # None =>
       boot[Main] = Idle /\ helper[cached[Main]] = "ready"

(* What is published, or on its way, is that helper.                       *)
ItIsPublished ==
  /\ published # None => cached[Main] = published
  /\ \A p \in writes : cached[Main] = p[2]

(* Any other window opens after that, and adopts it.                       *)
OthersAdopt ==
  \A w \in Window \ {Main} :
    /\ w \in open => published # None
    /\ w \notin open => boot[w] = Idle
    /\ boot[w].phase \in {"none", "get", "probe"}
    /\ boot[w].phase = "probe" => boot[w].at = published

NoneRespawns == \A r \in Request : reqs[r].pc \notin {"get", "probe", "kill"}

OneHelper ==
  Untouched => MainHasIt /\ ItIsPublished /\ OthersAdopt /\ NoneRespawns

LEMMA UntouchedBefore ==
  ASSUME TInv, [Next]_vars, Untouched'
  PROVE  Untouched
<1>1. AllStay
  BY AllStayed DEF Untouched
<1>2. \A r \in Request : reqs[r].retry
  BY RequestsGoOn DEF Untouched, Since
<1>3. ASSUME NEW h \in Helper, helper[h] = "dead" PROVE helper'[h] = "dead"
  <2>0. helper \in [Helper -> HelperState]
    BY DEF TInv, Born
  <2>1. ASSUME NEW r \in Request, ReqStep(r) PROVE helper'[h] = "dead"
    BY <2>0, <2>1, <1>3
    DEF ReqStep, Start, Execute, Answer, GiveUp, Respawn, ReadEndpoint, Probe,
        KillStale
  <2>2. ASSUME NEW w \in Window, BootSteps(w) PROVE helper'[h] = "dead"
    BY <2>0, <2>2, <1>3
    DEF BootSteps, BootReads, BootProbes, Spawn, Unborn, SpawnFails, BootReady,
        BootExits, BootTimesOut
  <2>3. ASSUME NEW w \in Window, WindowStep(w) PROVE helper'[h] = "dead"
    BY <2>0, <2>3, <1>3 DEF WindowStep, OpenWindow, Deactivate, KillShared, Clear
  <2> QED
    BY <2>0, <2>1, <2>2, <2>3, <1>3 DEF Next, Publish, GetReady, Crash, vars
<1> QED BY <1>1, <1>2, <1>3 DEF Untouched

LEMMA StepKeepsOne ==
  ASSUME TInv, OneHelper, [Next]_vars
  PROVE  OneHelper'
<1> SUFFICES ASSUME Untouched'
             PROVE  (MainHasIt /\ ItIsPublished /\ OthersAdopt /\ NoneRespawns)'
  BY DEF OneHelper
<1>0. /\ Untouched /\ MainHasIt /\ ItIsPublished /\ OthersAdopt /\ NoneRespawns
      /\ Main \in Window
  BY UntouchedBefore, OwnerAssumption DEF OneHelper
<1>a. /\ helper \in [Helper -> HelperState] /\ None \notin Helper
      /\ cached \in [Window -> HelperOrNone]
      /\ boot \in [Window -> [phase : BootPhase, at : HelperOrNone]]
      /\ published \in HelperOrNone
  BY HelperAssumption DEF TInv, Born, IInv, Kinds, Helper
<1>b. NoneRespawns'
  BY <1>0, RequestsGoOn DEF NoneRespawns, Since, Untouched
<1>1. ASSUME NEW r \in Request, ReqStep(r)
      PROVE  (MainHasIt /\ ItIsPublished /\ OthersAdopt)'
  <2>0. Owner[r] \in Window
    BY OwnerAssumption
  <2>1. CASE Start(r)
    BY <2>0, <2>1, <1>0, <1>a
    DEF Start, Ensure, MainHasIt, ItIsPublished, OthersAdopt, Alive, Idle
  <2>2. CASE Execute(r)
    <3>1. UNCHANGED helper
      BY <2>2, <1>0, <1>a DEF Execute, Untouched, Stays, AllStay, TInv, Born,
         Named, StartedOrNone, Started
    <3> QED BY <3>1, <2>2, <1>0
            DEF Execute, MainHasIt, ItIsPublished, OthersAdopt, Alive, Idle
  <2>3. CASE Answer(r)
    BY <2>3, <1>0 DEF Answer, MainHasIt, ItIsPublished, OthersAdopt, Alive, Idle
  <2>4. ~GiveUp(r)
    BY <1>0 DEF GiveUp, Untouched
  <2>5. CASE Respawn(r)
    <3>1. ~reqs'[r].retry
      BY <2>5 DEF Respawn, TInv, IInv, Kinds, ReqRec
    <3> QED BY <3>1 DEF Untouched
  <2>6. ~ReadEndpoint(r) /\ ~Probe(r) /\ ~KillStale(r)
    BY <1>0 DEF ReadEndpoint, Probe, KillStale, NoneRespawns
  <2> QED BY <1>1, <2>1, <2>2, <2>3, <2>4, <2>5, <2>6 DEF ReqStep
<1>2. ASSUME NEW w \in Window, BootSteps(w)
      PROVE  (MainHasIt /\ ItIsPublished /\ OthersAdopt)'
  <2>0. w # Main /\ boot[w].phase # "none" =>
          published # None /\ helper[published] = "ready"
    BY <1>0 DEF OthersAdopt, ItIsPublished, MainHasIt, Idle
  <2>1. CASE BootReads(w)
    BY <2>0, <2>1, <1>0, <1>a
    DEF BootReads, BootStep, MainHasIt, ItIsPublished, OthersAdopt, Alive, Idle
  <2>2. CASE BootProbes(w)
    <3>1. w # Main /\ boot[w].at = published /\ Healthy(boot[w].at)
      BY <2>0, <2>2, <1>0 DEF BootProbes, MainHasIt, OthersAdopt, Healthy
    <3>2. /\ cached' = [cached EXCEPT ![w] = published]
          /\ boot' = [boot EXCEPT ![w] = Idle]
      BY <3>1, <2>2 DEF BootProbes, Settle
    <3> QED BY <3>1, <3>2, <2>2, <1>0, <1>a
            DEF BootProbes, MainHasIt, ItIsPublished, OthersAdopt, Alive, Idle
  <2>3. CASE Spawn(w)
    <3>1. w = Main /\ cached[Main] = None /\ boot[Main].phase = "spawn"
      BY <2>3, <1>0 DEF Spawn, OthersAdopt, MainHasIt, Idle
    <3>2. \A h \in Helper : ~Alive(h)
      BY <3>1, <1>0, <1>a DEF MainHasIt
    <3>3. PICK g \in Unborn : /\ helper' = [helper EXCEPT ![g] = "starting"]
                              /\ boot' = [boot EXCEPT ![Main] =
                                            [phase |-> "logs", at |-> g]]
      BY <3>1, <2>3 DEF Spawn, BootStep
    <3> QED BY <3>1, <3>2, <3>3, <2>3, <1>0, <1>a
            DEF Spawn, Unborn, MainHasIt, ItIsPublished, OthersAdopt, Alive, Idle
  <2>4. CASE SpawnFails(w)
    <3>1. w = Main /\ cached[Main] = None /\ boot[Main].phase = "spawn"
      BY <2>4, <1>0 DEF SpawnFails, OthersAdopt, MainHasIt, Idle
    <3>2. \A h \in Helper : ~Alive(h)
      BY <3>1, <1>0, <1>a DEF MainHasIt
    <3> QED BY <3>1, <3>2, <2>4, <1>0, <1>a
            DEF SpawnFails, Settle, MainHasIt, ItIsPublished, OthersAdopt, Alive,
                Idle
  <2>5. CASE BootReady(w)
    <3>1. w = Main /\ cached[Main] = None /\ boot[Main].phase = "logs"
      BY <2>5, <1>0 DEF BootReady, OthersAdopt, MainHasIt, Idle
    <3>2. \A h \in Helper : Alive(h) => h = boot[Main].at
      BY <3>1, <1>0, <1>a DEF MainHasIt
    <3>3. /\ published = None /\ writes = {}
      BY <3>1, <1>0, <1>a DEF ItIsPublished, TInv, Born, StartedOrNone, Started
    <3>4. /\ cached' = [cached EXCEPT ![Main] = boot[Main].at]
          /\ boot' = [boot EXCEPT ![Main] = Idle]
          /\ writes' = {<<Main, boot[Main].at>>}
          /\ helper[boot[Main].at] = "ready" /\ UNCHANGED <<helper, published, open>>
      BY <3>1, <3>3, <2>5 DEF BootReady, Settle
    <3> QED BY <3>1, <3>2, <3>3, <3>4, <1>0, <1>a
            DEF MainHasIt, ItIsPublished, OthersAdopt, Alive, Idle
  <2>6. ~BootExits(w)
    BY <1>0, <1>a DEF BootExits, Untouched, TInv, Born, BootNamed, StartedOrNone,
       Started
  <2>7. ~BootTimesOut(w)
    <3> SUFFICES ASSUME BootTimesOut(w) PROVE FALSE
      OBVIOUS
    <3>1. boot[w].at \in Helper
      BY DEF BootTimesOut, TInv, Born, BootNamed, StartedOrNone, Started
    <3>2. helper'[boot[w].at] = "dead"
      BY <3>1, <1>a DEF BootTimesOut
    <3> QED BY <3>1, <3>2 DEF Untouched
  <2> QED BY <1>2, <2>1, <2>2, <2>3, <2>4, <2>5, <2>6, <2>7 DEF BootSteps
<1>3. ASSUME NEW w \in Window, WindowStep(w)
      PROVE  (MainHasIt /\ ItIsPublished /\ OthersAdopt)'
  <2>1. CASE OpenWindow(w)
    BY <2>1, <1>0
    DEF OpenWindow, MainHasIt, ItIsPublished, OthersAdopt, Alive, Idle
  <2>2. CASE Deactivate(w)
    <3>1. Farewell[w] \in Request /\ reqs'[Farewell[w]].pc # "new"
      BY <2>2, OwnerAssumption DEF Deactivate, TInv, IInv, Kinds, ReqRec
    <3> QED BY <3>1, OwnerAssumption DEF Untouched, AllStay, Stays
  <2>3. CASE KillShared(w) \/ Clear(w)
    <3>1. Farewell[w] # None /\ reqs[Farewell[w]].pc # "new"
      BY <2>3, OwnerAssumption DEF KillShared, Clear, Ended
    <3> QED BY <3>1, <1>0 DEF Untouched, AllStay, Stays
  <2> QED BY <1>3, <2>1, <2>2, <2>3 DEF WindowStep
<1>4. ASSUME NEW w \in Window, NEW h \in Helper, Publish(w, h)
      PROVE  (MainHasIt /\ ItIsPublished /\ OthersAdopt)'
  <2>1. cached[Main] = h /\ (published # None => published = h)
    BY <1>4, <1>0 DEF Publish, ItIsPublished
  <2> QED BY <2>1, <1>4, <1>0, <1>a
          DEF Publish, MainHasIt, ItIsPublished, OthersAdopt, Alive, Idle
<1>5. ASSUME NEW h \in Helper, GetReady(h) \/ Crash(h)
      PROVE  (MainHasIt /\ ItIsPublished /\ OthersAdopt)'
  <2>1. ~Crash(h)
    BY <1>a DEF Crash, Untouched
  <2> QED BY <2>1, <1>5, <1>0, <1>a
          DEF GetReady, MainHasIt, ItIsPublished, OthersAdopt, Alive, Idle
<1>6. CASE UNCHANGED vars
  BY <1>6, <1>0, <1>b DEF vars, MainHasIt, ItIsPublished, OthersAdopt, Alive, Idle
<1> QED
  BY <1>b, <1>1, <1>2, <1>3, <1>4, <1>5, <1>6 DEF Next

LEMMA OneIsShared ==
  ASSUME OneHelper, Untouched
  PROVE  Cardinality({h \in Helper : Alive(h)}) <= 1
<1> DEFINE it == IF cached[Main] # None THEN cached[Main] ELSE boot[Main].at
<1>1. ASSUME NEW h \in Helper, Alive(h) PROVE h = it
  <2>1. MainHasIt /\ h # None
    BY HelperAssumption DEF OneHelper, Helper
  <2>2. boot[Main] = [phase |-> "logs", at |-> h]
          => boot[Main].at = h /\ boot[Main] # Idle
    BY DEF Idle
  <2>3. CASE cached[Main] # None
    BY <2>1, <2>2, <2>3, <1>1 DEF MainHasIt
  <2>4. CASE cached[Main] = None
    BY <2>1, <2>2, <2>4, <1>1 DEF MainHasIt
  <2> QED BY <2>3, <2>4
<1>2. {h \in Helper : Alive(h)} \subseteq {it}
  BY <1>1
<1>3. IsFiniteSet({it}) /\ Cardinality({it}) = 1
  BY FS_Singleton
<1>4. Cardinality({h \in Helper : Alive(h)}) <= Cardinality({it})
  <2> HIDE DEF it
  <2> QED BY <1>2, <1>3, FS_Subset
<1> QED BY <1>3, <1>4

(* While no window closes, a live helper is one that a window of           *)
(* sidecar.js has cached, boots, or is about to probe and kill, or it was  *)
(* forgotten for another one; and the windows share one helper until a     *)
(* helper dies or a fetch fails.                                           *)
THEOREM HelpersKnown == Spec => []HelpersAccountedFor
<1> DEFINE HInv == TInv /\ Remembered /\ OneHelper
<1>1. Init => HInv
  <2> SUFFICES ASSUME Init PROVE HInv
    OBVIOUS
  <2>1. \A h \in Helper : ~Alive(h)
    BY DEF Init, Alive
  <2>2. MainHasIt /\ ItIsPublished /\ OthersAdopt /\ NoneRespawns
    BY <2>1, OwnerAssumption
    DEF Init, MainHasIt, ItIsPublished, OthersAdopt, NoneRespawns, Idle
  <2> QED BY <2>1, <2>2, InitNames DEF Remembered, OneHelper
<1>2. HInv /\ [Next]_vars => HInv'
  BY NextNames, StepRemembers, StepKeepsOne
<1>3. HInv => HelpersAccountedFor
  BY OneIsShared DEF Remembered, Untouched, AllStay, HelpersAccountedFor
<1> QED
  BY <1>1, <1>2, <1>3, PTL DEF Spec

(* One call of request() in sidecar.js is executed twice at most, by       *)
(* whichever helpers: its answer may be lost once, its retry is the last.  *)
THEOREM RetriedOnce == Spec => []TwiceAtMost
<1>1. Init => IInv
  BY DEF Init, IInv, Kinds, Budget, Spent, ReqRec, Pc, BootPhase, Idle,
         HelperOrNone, Ahead
<1>2. IInv => TwiceAtMost
  BY DEF IInv, Budget, Spent, TwiceAtMost
<1> QED
  BY <1>1, <1>2, NextGood, PTL DEF Spec
=============================================================================
