----------------------------- MODULE TabSession -----------------------------
(***************************************************************************)
(* src/src/core/tab-session.ts: the acquisition of one tab's RDP session,  *)
(* debuggee adapter, gdbstub worker and attach shim, in that order, with a *)
(* checkpoint after each await; its rollback and its normal stop, which    *)
(* are the same function; and the one retry of a lost navigation.  The     *)
(* worker's host (gdb/worker/host.mjs) is here as far as the launcher sees *)
(* it: it listens, dies or is terminated.                                  *)
(*                                                                         *)
(* A launch is a record.  Its steps are functions from record to record,   *)
(* because what an await leads to (the next stage, a rollback, the next    *)
(* phase of that, a retry) is decided without another await.               *)
(***************************************************************************)
EXTENDS Naturals, Sequences

CONSTANTS MaxLaunches,   \* bound: calls of the launcher
          MaxStuck       \* bound: workers whose termination fails

ASSUME TabAssumption == MaxLaunches \in Nat /\ MaxStuck \in Nat

\* A launch is named by its pid, counted from the first.
Launches == 1..MaxLaunches

VARIABLES tab,    \* tab[p]: the state of a launch
          stuck   \* workers whose termination has failed so far

tabVars == <<tab, stuck>>

Stages == <<"initial-target", "sources", "breakpoint-positions", "navigation", "prime-stop",
            "worker-ready", "shim-bind", "ready">>

\* Stages that await an answer from Firefox or a state of the session.
SessionStages == {"initial-target", "sources", "breakpoint-positions", "navigation", "prime-stop"}

After(stage) == Stages[1 + CHOOSE i \in 1..(Len(Stages) - 1) : Stages[i] = stage]

LiveWorker == {"starting", "listening"}

Idle == [stage    |-> "none",     \* stage, and connect while RdpWasmSession.start runs
         outcome  |-> "none",     \* running, published, failed or rollback failed
         attempt  |-> 0,          \* launches are retried once
         lost     |-> FALSE,      \* the error to throw is a NavigationTargetLostError
         aborted  |-> FALSE,      \* signal.aborted
         session  |-> "none",     \* open or closed; closed also stands for disconnected
         adapter  |-> "none",     \* live or disposed
         worker   |-> "none",     \* starting, listening, terminating, gone or stuck
         shim     |-> "none",     \* binding, bound, closing or closed
         stop     |-> "no",       \* what stop() awaits: shim, worker; or done, failed
         reported |-> FALSE]      \* onFailure has been called

Connecting(attempt) == [Idle EXCEPT !.stage = "connect", !.outcome = "running", !.attempt = attempt]

TabInit == tab = [p \in Launches |-> Idle] /\ stuck = 0

\* What a launch holds that somebody has to release.
Holds(t) ==
  (IF t.session = "open" THEN {"session"} ELSE {}) \cup
  (IF t.adapter = "live" THEN {"adapter"} ELSE {}) \cup
  (IF t.worker \in {"starting", "listening", "terminating", "stuck"} THEN {"worker"} ELSE {}) \cup
  (IF t.shim \in {"binding", "bound", "closing"} THEN {"shim"} ELSE {})

-----------------------------------------------------------------------------
(* stop() *)

Terminate(t) == [t EXCEPT !.worker = IF @ \in LiveWorker THEN "terminating" ELSE @]

\* The end of stop(): the adapter and the session go in any case.  A handle that was
\* published is spent; a rollback rejects the launch, or starts it over.
Finish(t, clean) ==
  LET u == [t EXCEPT !.adapter = IF @ = "live" THEN "disposed" ELSE @, !.session = "closed",
                     !.stop = IF clean THEN "done" ELSE "failed", !.lost = FALSE]
  IN IF t.outcome = "published" THEN u
     ELSE IF ~clean THEN [u EXCEPT !.outcome = "rollback failed"]
     ELSE IF t.lost /\ ~t.aborted /\ t.attempt = 1 THEN Connecting(2)
     ELSE [u EXCEPT !.outcome = "failed"]

\* gdbServer?.stop(), shared with whoever has asked for it before.
StopWorker(t) ==
  IF t.worker \in {"none", "gone"} THEN Finish(t, TRUE)
  ELSE IF t.worker = "stuck" THEN Finish(t, FALSE)
  ELSE [Terminate(t) EXCEPT !.stop = "worker"]

\* Mutant.  The shim is left to whoever started it.
StopButShim(t) == StopWorker([t EXCEPT !.stage = "stopping"])

BeginStop(t) ==
  IF t.shim = "bound" THEN [t EXCEPT !.stage = "stopping", !.shim = "closing", !.stop = "shim"]
                      ELSE StopWorker([t EXCEPT !.stage = "stopping"])

\* The catch block of launch.
Rollback(t, lost) == BeginStop([t EXCEPT !.session = "closed", !.lost = lost])

\* Mutant.  Cancellation is noticed, a lost connection is not.
CheckSignal(t, next) ==
  IF t.aborted THEN Rollback(t, FALSE)
  ELSE [t EXCEPT !.stage   = next,
                 !.adapter = IF next = "prime-stop" THEN "live" ELSE @,
                 !.worker  = IF next = "worker-ready" THEN "starting" ELSE @,
                 !.shim    = IF next = "shim-bind" THEN "binding" ELSE @,
                 !.outcome = IF next = "ready" THEN "published" ELSE @]

\* checkpoint(next), and what is acquired from there to the next await.
Checkpoint(t, next) ==
  IF t.aborted \/ t.session # "open" THEN Rollback(t, FALSE)
  ELSE [t EXCEPT !.stage   = next,
                 !.adapter = IF next = "prime-stop" THEN "live" ELSE @,
                 !.worker  = IF next = "worker-ready" THEN "starting" ELSE @,
                 !.shim    = IF next = "shim-bind" THEN "binding" ELSE @,
                 !.outcome = IF next = "ready" THEN "published" ELSE @]

\* Mutant.  Nothing is told to hurry.
AbortQuietly(t) == [t EXCEPT !.aborted = TRUE]

\* The signal fires.  While the launcher listens to it, the session is closed, so that
\* what awaits it settles, and the worker terminated.
Abort(t) ==
  IF t.outcome = "running" /\ t.stage # "connect"
  THEN Terminate([t EXCEPT !.aborted = TRUE, !.session = "closed"])
  ELSE [t EXCEPT !.aborted = TRUE]

-----------------------------------------------------------------------------
(* Awaits of launch *)

Step(p, t) == tab' = [tab EXCEPT ![p] = t] /\ UNCHANGED stuck

Awaiting(p, stage) == tab[p].outcome = "running" /\ tab[p].stage = stage

Connected(p) ==
  /\ Awaiting(p, "connect")
  /\ Step(p, Checkpoint([tab[p] EXCEPT !.session = "open"], "initial-target"))

\* RdpWasmSession.start cleans up after itself.
ConnectFails(p) ==
  /\ Awaiting(p, "connect")
  /\ Step(p, [tab[p] EXCEPT !.outcome = "failed", !.stage = "stopping"])

SessionSettles(p) ==
  \E stage \in SessionStages :
    Awaiting(p, stage) /\ Step(p, Checkpoint(tab[p], After(stage)))

SessionRejects(p) ==
  \E stage \in SessionStages : Awaiting(p, stage) /\ Step(p, Rollback(tab[p], FALSE))

\* The navigation was accepted, and its page disappeared without a successor.
TargetLost(p) ==
  /\ Awaiting(p, "navigation") /\ tab[p].session = "open" /\ ~tab[p].aborted
  /\ Step(p, Rollback(tab[p], TRUE))

WorkerListens(p) ==
  /\ Awaiting(p, "worker-ready") /\ tab[p].worker = "starting"
  /\ Step(p, Checkpoint([tab[p] EXCEPT !.worker = "listening"], "shim-bind"))

\* A bind goes on whatever happens meanwhile.
ShimBinds(p) ==
  /\ Awaiting(p, "shim-bind")
  /\ Step(p, Checkpoint([tab[p] EXCEPT !.shim = "bound"], "ready"))

ShimRefused(p) ==
  /\ Awaiting(p, "shim-bind")
  /\ Step(p, Rollback([tab[p] EXCEPT !.shim = "none"], FALSE))

-----------------------------------------------------------------------------
(* Events *)

\* The session ends for reasons of its own or of Firefox.
SessionLost(p) ==
  /\ tab[p].session = "open"
  /\ Step(p, [tab[p] EXCEPT !.session = "closed", !.reported = @ \/ tab[p].stage = "ready"])

\* A crash, an illegal message or a late start: the host fails and terminates the worker.
\* onFailure passes that on if the launch has been published; before, ready rejects.
WorkerFails(p) ==
  /\ tab[p].worker \in LiveWorker
  /\ Step(p, IF Awaiting(p, "worker-ready") THEN Rollback(Terminate(tab[p]), FALSE)
             ELSE [Terminate(tab[p]) EXCEPT !.reported = @ \/ tab[p].stage = "ready"])

\* terminate() has done its work; if ready was still awaited it rejects now.
WorkerExits(p) ==
  /\ tab[p].worker = "terminating"
  /\ LET t == [tab[p] EXCEPT !.worker = "gone"] IN
     Step(p, IF t.stop = "worker" THEN Finish(t, TRUE)
             ELSE IF Awaiting(p, "worker-ready") THEN Rollback(t, FALSE) ELSE t)

\* terminate() rejects, and the worker stays.
WorkerSticks(p) ==
  /\ tab[p].worker = "terminating" /\ stuck < MaxStuck
  /\ stuck' = stuck + 1
  /\ LET t == [tab[p] EXCEPT !.worker = "stuck"] IN
     tab' = [tab EXCEPT ![p] = IF t.stop = "worker" THEN Finish(t, FALSE) ELSE t]

ShimCloses(p) ==
  /\ tab[p].stop = "shim"
  /\ Step(p, StopWorker([tab[p] EXCEPT !.shim = "closed"]))

\* The steps of a launch that need nobody's consent.
TabStep(p) ==
  \/ Connected(p) \/ ConnectFails(p) \/ SessionSettles(p) \/ SessionRejects(p) \/ TargetLost(p)
  \/ WorkerListens(p) \/ ShimBinds(p) \/ ShimRefused(p) \/ SessionLost(p)
  \/ WorkerFails(p) \/ WorkerExits(p) \/ WorkerSticks(p) \/ ShimCloses(p)

\* What happens without Firefox's help: an aborted connection and calls on a closed
\* session reject, terminate() settles, the operating system binds and closes.
TabFairness(p) ==
  /\ WF_tabVars(tab[p].aborted /\ ConnectFails(p))
  /\ WF_tabVars(tab[p].session = "closed" /\ SessionRejects(p))
  /\ WF_tabVars(WorkerExits(p) \/ WorkerSticks(p))
  /\ WF_tabVars(ShimBinds(p) \/ ShimRefused(p))
  /\ WF_tabVars(ShimCloses(p))
=============================================================================
