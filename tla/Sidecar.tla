------------------------------- MODULE Sidecar -------------------------------
(***************************************************************************)
(* src/sidecar.js: how the windows of the app find, boot, share, replace   *)
(* and stop the helper process, and how a request is retried on another    *)
(* helper.  Each window runs its own copy of the extension; what they      *)
(* share is the host's process table and one key of the host's storage.    *)
(*                                                                         *)
(* A step is the code between two awaits; the host executes a call in one  *)
(* step of its own, at its answer.  A record of `reqs` is one call of      *)
(* request(); boot[w] is the promise bootInFlight of window w.             *)
(***************************************************************************)
EXTENDS Naturals, FiniteSets

CONSTANTS
  Window,      \* windows that run the extension
  Main,        \* the window that is up first
  Request,     \* calls of request() made in this instance
  Owner,       \* [Request -> Window]
  Farewell,    \* [Window -> the /shutdown request of its deactivate]; None:
               \* the window stays
  MaxHelper,   \* bound: helper processes the host can start
  Fault,       \* environment events of this instance, see FaultKinds
  None

Helper == 1..MaxHelper

FaultKinds == {"crash",     \* a helper dies
               "hiccup",    \* a fetch fails although the helper is alive
               "noSpawn"}   \* the host cannot start the binary

ASSUME OwnerAssumption ==
  /\ Main \in Window
  /\ Owner \in [Request -> Window]
  /\ Farewell \in [Window -> Request \cup {None}] /\ None \notin Request
  /\ \A w \in Window : Farewell[w] # None => Owner[Farewell[w]] = w
ASSUME HelperAssumption == MaxHelper \in Nat /\ None \notin Nat
ASSUME FaultAssumption == Fault \subseteq FaultKinds

VARIABLES
  helper,      \* process table: [Helper -> HelperState]
  published,   \* storage: the endpoint key
  writes,      \* storage writes under way: <<window, helper>>
  cached,      \* [Window -> `sidecar`]
  boot,        \* [Window -> bootInFlight]
  reqs,        \* [Request -> one call of request()]
  open,        \* windows whose extension is active
  replaced     \* history: helpers a window forgot for another one

vars == <<helper, published, writes, cached, boot, reqs, open, replaced>>

HelperState == {"unborn", "starting", "ready", "dead"}
Alive(h) == helper[h] \in {"starting", "ready"}

Idle   == [phase |-> "none", at |-> None]
BootPhase == {"none", "get", "probe", "spawn", "logs"}
Pc == {"new", "boot", "sent", "served", "get", "probe", "kill", "done",
       "failed", "clear"}
Ended(r) == reqs[r].pc \in {"done", "failed"}

Init ==
  /\ helper = [h \in Helper |-> "unborn"]
  /\ published = None /\ writes = {}
  /\ cached = [w \in Window |-> None]
  /\ boot = [w \in Window |-> Idle]
  /\ reqs = [r \in Request |->
               [pc |-> "new", url |-> None, saved |-> None, dead |-> None,
                retry |-> TRUE, execs |-> 0]]
  /\ open = {Main}
  /\ replaced = {}

-----------------------------------------------------------------------------
(* The record q about to fetch from helper h, its respawn over; ended.     *)
Sent(q, h) == [q EXCEPT !.pc = "sent", !.url = h, !.saved = None,
                        !.dead = None]
End(q, pc) == [Sent(q, None) EXCEPT !.pc = pc]

(* ensureSidecar, called by request r of window w with `q` its record and  *)
(* c the helper cached by now: use it, or wait for a boot.                 *)
Ensure(r, q, w, c) ==
  /\ cached' = [cached EXCEPT ![w] = c]
  /\ IF c # None
     THEN /\ reqs' = [reqs EXCEPT ![r] = Sent(q, c)]
          /\ UNCHANGED boot
     ELSE /\ reqs' = [reqs EXCEPT ![r] = [Sent(q, None) EXCEPT !.pc = "boot"]]
          /\ boot' = IF boot[w] = Idle
                     THEN [boot EXCEPT ![w] = [phase |-> "get", at |-> None]]
                     ELSE boot

(* Helpers that a window forgets for helper h.                             *)
Drops(hs, h) == replaced' = replaced \cup (hs \ {h, None})

Stays(w) == Farewell[w] = None \/ reqs[Farewell[w]].pc = "new"

(* The float window opens on a click when the main one has published.      *)
OpenWindow(w) ==
  /\ w \notin open /\ Stays(w)
  /\ published # None
  /\ open' = open \cup {w}
  /\ UNCHANGED <<helper, published, writes, cached, boot, reqs, replaced>>

Start(r) ==
  LET w == Owner[r] IN
  /\ r # Farewell[w] /\ w \in open
  /\ reqs[r].pc = "new"
  /\ Ensure(r, reqs[r], w, cached[w])
  /\ UNCHANGED <<helper, published, writes, open, replaced>>

(* The helper runs the request; /shutdown makes it exit.                   *)
Execute(r) ==
  /\ reqs[r].pc = "sent"
  /\ helper[reqs[r].url] = "ready"
  /\ reqs' = [reqs EXCEPT ![r].pc = "served", ![r].execs = @ + 1]
  /\ helper' = IF r = Farewell[Owner[r]]
               THEN [helper EXCEPT ![reqs[r].url] = "dead"] ELSE helper
  /\ UNCHANGED <<published, writes, cached, boot, open, replaced>>

(* The answer arrives; that of /shutdown is sent before the exit.          *)
Answer(r) ==
  /\ reqs[r].pc = "served"
  /\ helper[reqs[r].url] = "ready" \/ r = Farewell[Owner[r]]
  /\ reqs' = [reqs EXCEPT ![r] = End(@, "done")]
  /\ UNCHANGED <<helper, published, writes, cached, boot, open, replaced>>

Broken(r) ==
  /\ reqs[r].pc \in {"sent", "served"}
  /\ helper[reqs[r].url] = "dead" \/ "hiccup" \in Fault

(* fetch rejects for the second time.                                      *)
GiveUp(r) ==
  /\ Broken(r)
  /\ ~reqs[r].retry
  /\ reqs' = [reqs EXCEPT ![r] = End(@, "failed")]
  /\ UNCHANGED <<helper, published, writes, cached, boot, open, replaced>>

(* Variant: the retry may retry again.                                     *)
RespawnForever(r) ==
  /\ Broken(r)
  /\ reqs' = [reqs EXCEPT ![r].pc = "get", ![r].url = None,
                          ![r].dead = cached[Owner[r]]]
  /\ cached' = [cached EXCEPT ![Owner[r]] = None]
  /\ UNCHANGED <<helper, published, writes, boot, open, replaced>>

(* fetch rejects: respawnSidecar takes whatever is cached by now for dead. *)
Respawn(r) ==
  /\ Broken(r)
  /\ reqs[r].retry
  /\ reqs' = [reqs EXCEPT ![r].pc = "get", ![r].retry = FALSE,
                          ![r].url = None,
                          ![r].dead = cached[Owner[r]]]
  /\ cached' = [cached EXCEPT ![Owner[r]] = None]
  /\ UNCHANGED <<helper, published, writes, boot, open, replaced>>

(* adoptRunningSidecar found no helper: kill the dead one, if any.         *)
NotAdopted(r) ==
  LET w == Owner[r] IN
  IF reqs[r].dead = None
  THEN Ensure(r, reqs[r], w, cached[w])
  ELSE reqs' = [reqs EXCEPT ![r].pc = "kill"] /\ UNCHANGED <<cached, boot>>

(* adoptRunningSidecar: the storage answers.                               *)
ReadEndpoint(r) ==
  /\ reqs[r].pc = "get"
  /\ IF published = None
     THEN NotAdopted(r)
     ELSE /\ reqs' = [reqs EXCEPT ![r].pc = "probe", ![r].saved = published]
          /\ UNCHANGED <<cached, boot>>
  /\ UNCHANGED <<helper, published, writes, open, replaced>>

(* /healthz within 1.5 s: the model has no live helper that is slower.     *)
Healthy(h) == helper[h] = "ready"

(* ... and the probe of the endpoint ends.                                 *)
Probe(r) ==
  LET h == reqs[r].saved IN
  /\ reqs[r].pc = "probe"
  /\ \/ /\ Healthy(h) /\ Ensure(r, reqs[r], Owner[r], h)
        /\ Drops({reqs[r].dead, cached[Owner[r]]}, h)
     \/ ~Healthy(h) /\ NotAdopted(r) /\ UNCHANGED replaced
  /\ UNCHANGED <<helper, published, writes, open>>

(* The host kills the process; ensureSidecar goes on.                      *)
KillStale(r) ==
  LET w == Owner[r] IN
  /\ reqs[r].pc = "kill"
  /\ helper' = [helper EXCEPT ![reqs[r].dead] = "dead"]
  /\ Ensure(r, reqs[r], w, cached[w])
  /\ UNCHANGED <<published, writes, open, replaced>>

-----------------------------------------------------------------------------
(* The boot of a window.                                                   *)

(* bootInFlight settles: every caller goes on with helper h, or fails.     *)
Settle(w, h) ==
  /\ boot' = [boot EXCEPT ![w] = Idle]
  /\ reqs' = [r \in Request |->
       IF Owner[r] # w \/ reqs[r].pc # "boot" THEN reqs[r]
       ELSE IF h = None THEN End(reqs[r], "failed")
       ELSE Sent(reqs[r], h)]

BootStep(w, phase, at) ==
  /\ boot' = [boot EXCEPT ![w] = [phase |-> phase, at |-> at]]
  /\ UNCHANGED reqs

(* Variant: a window boots without looking for a published endpoint.       *)
BootUnread(w) ==
  /\ boot[w].phase = "get"
  /\ BootStep(w, "spawn", None)
  /\ UNCHANGED <<helper, published, writes, cached, open, replaced>>

BootReads(w) ==
  /\ boot[w].phase = "get"
  /\ BootStep(w, IF published = None THEN "spawn" ELSE "probe", published)
  /\ UNCHANGED <<helper, published, writes, cached, open, replaced>>

(* The running helper is adopted, or none answers.                         *)
BootProbes(w) ==
  /\ boot[w].phase = "probe"
  /\ \/ /\ Healthy(boot[w].at)
        /\ cached' = [cached EXCEPT ![w] = boot[w].at]
        /\ Drops({cached[w]}, boot[w].at)
        /\ Settle(w, boot[w].at)
     \/ /\ ~Healthy(boot[w].at)
        /\ BootStep(w, "spawn", None)
        /\ UNCHANGED <<cached, replaced>>
  /\ UNCHANGED <<helper, published, writes, open>>

Unborn == {h \in Helper : helper[h] = "unborn"}

Spawn(w) ==
  /\ boot[w].phase = "spawn"
  /\ \E h \in Unborn :
       /\ \A k \in Unborn : h <= k
       /\ helper' = [helper EXCEPT ![h] = "starting"]
       /\ BootStep(w, "logs", h)
  /\ UNCHANGED <<published, writes, cached, open, replaced>>

(* The host cannot start the binary, or MaxHelper processes were started.  *)
SpawnFails(w) ==
  /\ boot[w].phase = "spawn"
  /\ Unborn = {} \/ "noSpawn" \in Fault
  /\ Settle(w, None)
  /\ UNCHANGED <<helper, published, writes, cached, open, replaced>>

(* The READY line: the endpoint is cached, its publication is not awaited. *)
BootReady(w) ==
  LET h == boot[w].at IN
  /\ boot[w].phase = "logs"
  /\ helper[h] = "ready"
  /\ cached' = [cached EXCEPT ![w] = h]
  /\ Drops({cached[w]}, h)
  /\ writes' = writes \cup {<<w, h>>}
  /\ Settle(w, h)
  /\ UNCHANGED <<helper, published, open>>

BootExits(w) ==
  /\ boot[w].phase = "logs"
  /\ helper[boot[w].at] = "dead"
  /\ Settle(w, None)
  /\ UNCHANGED <<helper, published, writes, cached, open, replaced>>

(* Variant: the deadline is set again at each poll.                        *)
BootNeverTimesOut(w) == FALSE /\ UNCHANGED vars

(* No READY line in time: the process is killed.                           *)
BootTimesOut(w) ==
  /\ boot[w].phase = "logs"
  /\ helper[boot[w].at] = "starting"
  /\ helper' = [helper EXCEPT ![boot[w].at] = "dead"]
  /\ Settle(w, None)
  /\ UNCHANGED <<published, writes, cached, open, replaced>>

-----------------------------------------------------------------------------
(* deactivate: /shutdown, kill, forget the endpoint.                       *)

(* Variant: /shutdown is sent whether or not a helper is cached.           *)
DeactivateUnguarded(w) ==
  LET r == Farewell[w] IN
  /\ w \in open /\ r # None
  /\ reqs[r].pc = "new"
  /\ reqs' = [reqs EXCEPT ![r].pc = "sent", ![r].url = cached[w]]
  /\ UNCHANGED <<helper, published, writes, cached, boot, open, replaced>>

Deactivate(w) ==
  LET r == Farewell[w] IN
  /\ w \in open /\ r # None
  /\ reqs[r].pc = "new"
  /\ reqs' = [reqs EXCEPT ![r].pc  = IF cached[w] = None THEN "clear"
                                     ELSE "sent",
                          ![r].url = cached[w]]
  /\ UNCHANGED <<helper, published, writes, cached, boot, open, replaced>>

KillShared(w) ==
  LET r == Farewell[w] IN
  /\ r # None /\ w \in open
  /\ Ended(r)
  /\ helper' = IF cached[w] = None THEN helper
               ELSE [helper EXCEPT ![cached[w]] = "dead"]
  /\ reqs' = [reqs EXCEPT ![r].pc = "clear"]
  /\ UNCHANGED <<published, writes, cached, boot, open, replaced>>

(* The key is deleted and the module's state dropped: whatever the window  *)
(* was waiting for ends in an exception, a helper being booted stays.      *)
Clear(w) ==
  /\ Farewell[w] # None /\ reqs[Farewell[w]].pc = "clear"
  /\ published' = None
  /\ cached' = [cached EXCEPT ![w] = None]
  /\ boot' = [boot EXCEPT ![w] = Idle]
  /\ reqs' = [r \in Request |->
       IF Owner[r] = w /\ reqs[r].pc \notin {"new", "done"}
       THEN End(reqs[r], "failed") ELSE reqs[r]]
  /\ open' = open \ {w}
  /\ UNCHANGED <<helper, writes, replaced>>

-----------------------------------------------------------------------------
(* The host.                                                               *)

Publish(w, h) ==
  /\ <<w, h>> \in writes
  /\ published' = h
  /\ writes' = writes \ {<<w, h>>}
  /\ UNCHANGED <<helper, cached, boot, reqs, open, replaced>>

GetReady(h) ==
  /\ helper[h] = "starting"
  /\ helper' = [helper EXCEPT ![h] = "ready"]
  /\ UNCHANGED <<published, writes, cached, boot, reqs, open, replaced>>

Crash(h) ==
  /\ "crash" \in Fault /\ Alive(h)
  /\ helper' = [helper EXCEPT ![h] = "dead"]
  /\ UNCHANGED <<published, writes, cached, boot, reqs, open, replaced>>

ReqStep(r) ==
  \/ Start(r) \/ Execute(r) \/ Answer(r) \/ GiveUp(r) \/ Respawn(r)
  \/ ReadEndpoint(r) \/ Probe(r) \/ KillStale(r)

BootSteps(w) ==
  \/ BootReads(w) \/ BootProbes(w) \/ Spawn(w) \/ SpawnFails(w)
  \/ BootReady(w) \/ BootExits(w) \/ BootTimesOut(w)

WindowStep(w) == OpenWindow(w) \/ Deactivate(w) \/ KillShared(w) \/ Clear(w)

Next ==
  \/ \E r \in Request : ReqStep(r)
  \/ \E w \in Window : BootSteps(w) \/ WindowStep(w)
  \/ \E w \in Window, h \in Helper : Publish(w, h)
  \/ \E h \in Helper : GetReady(h) \/ Crash(h)

Spec == Init /\ [][Next]_vars

(* The handlers of a window run when their call is answered: a fetch and a *)
(* probe end, boots poll until the deadline, deactivate runs to its end.   *)
Fairness ==
  /\ \A r \in Request : WF_vars(ReqStep(r) /\ reqs[r].pc # "new")
  /\ \A w \in Window : WF_vars(BootSteps(w)) /\ WF_vars(KillShared(w))
                       /\ WF_vars(Clear(w))

FairSpec == Spec /\ Fairness

-----------------------------------------------------------------------------
(* Properties.                                                             *)

(* Every variable holds a value of its kind, and only a helper that was    *)
(* started is cached, published, probed or sent to.                        *)
Started == {h \in Helper : helper[h] # "unborn"}
TypeOK ==
  /\ helper \in [Helper -> HelperState]
  /\ published \in Started \cup {None}
  /\ writes \subseteq Window \X Started
  /\ cached \in [Window -> Started \cup {None}]
  /\ boot \in [Window -> [phase : BootPhase, at : Started \cup {None}]]
  /\ reqs \in [Request -> [pc : Pc, url : Started \cup {None},
                           saved : Started \cup {None},
                           dead : Started \cup {None},
                           retry : BOOLEAN, execs : Nat]]
  /\ \A r \in Request : reqs[r].pc \in {"sent", "served"} => reqs[r].url # None
  /\ replaced \subseteq Started
  /\ open \subseteq Window

(* One call of request() has at most two executions, whatever dies: an     *)
(* answer lost is retried once.                                            *)
TwiceAtMost == \A r \in Request : reqs[r].execs <= 2

(* A live helper is known to a window when it is cached, being booted, or  *)
(* about to be probed and killed.                                          *)
Known(h) ==
  \/ \E w \in Window : cached[w] = h \/ boot[w] = [phase |-> "logs", at |-> h]
  \/ \E r \in Request : reqs[r].pc \in {"get", "probe", "kill"} /\ reqs[r].dead = h

(* Until a helper dies, a fetch fails or a window closes, the windows      *)
(* share one helper: the float window finds the published one.  After      *)
(* that a live helper is forgotten in one way only: another one takes its  *)
(* place, a respawn's over the helper it took for dead or the one cached   *)
(* since, or a boot's over the one a respawn adopted meanwhile.            *)
(* A window that closes may leave one behind.                              *)
HelpersAccountedFor ==
  (\A w \in Window : Stays(w)) =>
    /\ \A h \in Helper : Alive(h) => Known(h) \/ h \in replaced
    /\ (\A h \in Helper : helper[h] # "dead") /\ (\A r \in Request : reqs[r].retry)
         => Cardinality({h \in Helper : Alive(h)}) <= 1

(* Every call of request() ends, with an answer or an exception.           *)
RequestsEnd ==
  \A r \in Request : reqs[r].pc # "new" ~> Ended(r)
=============================================================================
