------------------------------ MODULE Spawner ------------------------------
(***************************************************************************)
(* src/src/platform/gdb-server-spawner.ts: the owner of the per-tab        *)
(* servers.  It composes the launches of TabSession with the callers of    *)
(* launch, kill and killAll.  An entry of #servers and its promises are a  *)
(* record; between a promise and its continuation other code may run.      *)
(***************************************************************************)
EXTENDS TabSession

VARIABLES entry,     \* entry[p]: the OwnedServer of a launch
          closed,    \* #closed
          closing,   \* #closing: no, draining, drained, failed or timed out
          joined     \* the launches whose stops killAll awaits

spawnerVars == <<entry, closed, closing, joined>>
vars == <<tab, stuck, entry, closed, closing, joined>>

NoEntry == [owned    |-> FALSE,    \* in #servers
            handle   |-> FALSE,    \* handle is set
            stopping |-> "no",     \* pending, done or failed once there is a promise
            call     |-> "none"]   \* the caller's promise: pending, returned or rejected

Init ==
  /\ TabInit
  /\ entry = [p \in Launches |-> NoEntry]
  /\ closed = FALSE /\ closing = "no" /\ joined = {}

SetEntry(p, e) == entry' = [entry EXCEPT ![p] = e] /\ UNCHANGED <<closed, closing, joined>>

SetTab(p, t) == tab' = [tab EXCEPT ![p] = t] /\ UNCHANGED stuck

-----------------------------------------------------------------------------
(* launch *)

\* p is #nextPid.
Launch(p) ==
  /\ ~closed /\ entry[p].call = "none" /\ \A q \in 1..(p - 1) : entry[q].call # "none"
  /\ SetEntry(p, [NoEntry EXCEPT !.owned = TRUE, !.call = "pending"])
  /\ UNCHANGED tabVars

\* The microtask that invokes the launcher.
BeginLaunch(p) ==
  /\ entry[p].call = "pending" /\ tab[p].outcome = "none"
  /\ SetTab(p, IF closed \/ tab[p].aborted
               THEN [tab[p] EXCEPT !.outcome = "failed", !.stage = "stopping"]
               ELSE Connecting(1))
  /\ UNCHANGED spawnerVars

\* Mutant.  A port is published although its server is being stopped.
ReturnsRegardless(p) ==
  /\ entry[p].call = "pending" /\ ~entry[p].handle /\ tab[p].outcome = "published"
  /\ SetEntry(p, [entry[p] EXCEPT !.handle = TRUE, !.call = "returned"])
  /\ UNCHANGED tabVars

\* Between publication by the launcher and here the entry may have been stopped.
LaunchReturns(p) ==
  /\ entry[p].call = "pending" /\ ~entry[p].handle /\ tab[p].outcome = "published"
  /\ LET e == [entry[p] EXCEPT !.handle = TRUE] IN
     SetEntry(p, IF e.stopping # "no" THEN e
                 ELSE IF closed THEN [e EXCEPT !.stopping = "pending"]
                 ELSE [e EXCEPT !.call = "returned"])
  /\ UNCHANGED tabVars

\* await this.#stop(entry), then throw.
LaunchCancelled(p) ==
  /\ entry[p].call = "pending" /\ entry[p].handle /\ entry[p].stopping \in {"done", "failed"}
  /\ SetEntry(p, [entry[p] EXCEPT !.call = "rejected"])
  /\ UNCHANGED tabVars

\* Mutant.  Whatever the reason, a launch that rejects is forgotten.
RejectsAndForgets(p) ==
  /\ entry[p].call = "pending" /\ tab[p].outcome \in {"failed", "rollback failed"}
  /\ SetEntry(p, [entry[p] EXCEPT !.call = "rejected", !.owned = FALSE])
  /\ UNCHANGED tabVars

LaunchRejects(p) ==
  /\ entry[p].call = "pending" /\ tab[p].outcome \in {"failed", "rollback failed"}
  /\ SetEntry(p, [entry[p] EXCEPT !.call = "rejected",
                                  !.owned = @ /\ tab[p].outcome = "rollback failed"])
  /\ UNCHANGED tabVars

-----------------------------------------------------------------------------
(* #stop, kill, killAll *)

\* The part of #stop that runs at once, for a set of entries.  A handle that exists is
\* stopped by its own means, an acquisition is aborted.
Stop(S) ==
  LET fresh == {p \in S : entry[p].stopping = "no"} IN
  /\ entry' = [p \in Launches |->
                 IF p \in fresh THEN [entry[p] EXCEPT !.stopping = "pending"] ELSE entry[p]]
  /\ tab' = [p \in Launches |->
               IF p \in fresh /\ ~entry[p].handle THEN Abort(tab[p]) ELSE tab[p]]
  /\ UNCHANGED stuck

\* A second call joins the first and changes nothing.
Kill(p) ==
  /\ entry[p].owned /\ entry[p].stopping = "no"
  /\ Stop({p})
  /\ UNCHANGED <<closed, closing, joined>>

\* handle.stop(), once the launch has produced one.
StopHandle(p) ==
  /\ entry[p].stopping = "pending" /\ tab[p].outcome = "published" /\ tab[p].stop = "no"
  /\ SetTab(p, BeginStop(tab[p]))
  /\ UNCHANGED spawnerVars

\* What became of the server decides what becomes of the entry.
EntryStopped(p) ==
  /\ entry[p].stopping = "pending"
  /\ \/ /\ \/ tab[p].outcome = "failed"
           \/ tab[p].outcome = "published" /\ tab[p].stop = "done"
        /\ SetEntry(p, [entry[p] EXCEPT !.stopping = "done", !.owned = FALSE])
     \/ /\ \/ tab[p].outcome = "rollback failed"
           \/ tab[p].outcome = "published" /\ tab[p].stop = "failed"
        /\ SetEntry(p, [entry[p] EXCEPT !.stopping = "failed"])
  /\ UNCHANGED tabVars

KillAll ==
  /\ closing = "no"
  /\ closed' = TRUE /\ closing' = "draining"
  /\ joined' = {p \in Launches : entry[p].owned}
  /\ Stop(joined')

Drained ==
  /\ closing = "draining" /\ \A p \in joined : entry[p].stopping \in {"done", "failed"}
  /\ closing' = IF \E p \in joined : entry[p].stopping = "failed" THEN "failed" ELSE "drained"
  /\ UNCHANGED <<tabVars, entry, closed, joined>>

KillAllTimesOut ==
  /\ closing = "draining" /\ closing' = "timed out"
  /\ UNCHANGED <<tabVars, entry, closed, joined>>

-----------------------------------------------------------------------------

Continuation(p) ==
  \/ BeginLaunch(p) \/ LaunchReturns(p) \/ LaunchCancelled(p) \/ LaunchRejects(p)
  \/ StopHandle(p) \/ EntryStopped(p)

Next ==
  \/ \E p \in Launches : Launch(p) \/ Kill(p) \/ Continuation(p)
  \/ KillAll \/ Drained \/ KillAllTimesOut
  \/ (\E p \in Launches : TabStep(p)) /\ UNCHANGED spawnerVars

Spec == Init /\ [][Next]_vars

\* Promise continuations run; no caller and nothing in Firefox is obliged to act.
FairSpec ==
  /\ Spec
  /\ \A p \in Launches : WF_vars(Continuation(p)) /\ TabFairness(p)
  /\ WF_vars(Drained)

-----------------------------------------------------------------------------
(* Properties *)

\* Type invariant of the launches and of their owner; a launch is attempted at most twice.
TypeOK ==
  /\ stuck \in 0..MaxStuck
  /\ tab \in [Launches ->
       [stage    : {"none", "connect", "stopping"} \cup {Stages[i] : i \in 1..Len(Stages)},
        outcome  : {"none", "running", "published", "failed", "rollback failed"},
        attempt  : 0..2,
        lost     : BOOLEAN,
        aborted  : BOOLEAN,
        session  : {"none", "open", "closed"},
        adapter  : {"none", "live", "disposed"},
        worker   : {"none", "starting", "listening", "terminating", "gone", "stuck"},
        shim     : {"none", "binding", "bound", "closing", "closed"},
        stop     : {"no", "shim", "worker", "done", "failed"},
        reported : BOOLEAN]]
  /\ entry \in [Launches -> [owned : BOOLEAN, handle : BOOLEAN,
                             stopping : {"no", "pending", "done", "failed"},
                             call : {"none", "pending", "returned", "rejected"}]]
  /\ closed \in BOOLEAN /\ joined \in SUBSET Launches
  /\ closing \in {"no", "draining", "drained", "failed", "timed out"}

\* Whatever stage a launch fails, is cancelled or is killed in, and however its late results
\* arrive: an entry is forgotten only when nothing is held, and one whose stop or rollback
\* failed is left with the worker that would not go and with nothing else.
NothingLeftBehind ==
  \A p \in Launches :
    /\ ~entry[p].owned => Holds(tab[p]) = {}
    /\ entry[p].stopping = "failed" => Holds(tab[p]) = {"worker"}
    /\ entry[p].call = "rejected" => Holds(tab[p]) \subseteq {"worker"}

\* A shutdown that reports success has released everything (killAll, and the order of the
\* platform's shutdown, which stops Firefox next).
DrainedMeansReleased ==
  closing = "drained" => \A p \in Launches : Holds(tab[p]) = {}

\* A caller that holds a port whose session is gone, without having asked for its end, has
\* been told: either the launch rejects or onFailure is called, with no gap between them.
SessionLossReported ==
  \A p \in Launches :
    entry[p].call = "returned" /\ entry[p].stopping = "no" /\ tab[p].session # "open"
      => tab[p].reported

\* The same for the worker: "Startup failure belongs to launch/rollback; after publication
\* it is a runtime failure even if LLDB is idle and has no request pending"
\* (core/tab-session.ts:188).
WorkerLossReported ==
  \A p \in Launches :
    entry[p].call = "returned" /\ entry[p].stopping = "no" /\ tab[p].worker # "listening"
      => tab[p].reported

\* "Deadlines report incomplete cleanup; they do not relinquish ownership" (INTERNALS.md):
\* after shutdown every launch, late ones too, ends with nothing held and no entry, unless
\* its worker cannot be terminated.
ShutdownReleases ==
  \A p \in Launches :
    closed ~> \/ Holds(tab[p]) = {} /\ ~entry[p].owned
              \/ tab[p].worker = "stuck"

-----------------------------------------------------------------------------
(* Refinement of ServerLease *)

LeaseOf(p) ==
  IF entry[p].call = "none" THEN "none"
  ELSE IF ~entry[p].owned THEN "gone"
  ELSE IF entry[p].stopping = "failed"
          \/ (tab[p].outcome = "rollback failed" /\ entry[p].call = "rejected") THEN "leaked"
  ELSE IF entry[p].stopping # "no" THEN "ending"
  ELSE IF entry[p].call = "returned" THEN "live" ELSE "acquiring"

Lease == INSTANCE ServerLease WITH
  Resources <- {"session", "adapter", "worker", "shim"},
  lease <- [p \in Launches |-> LeaseOf(p)],
  held  <- [p \in Launches |-> Holds(tab[p])],
  told  <- [p \in Launches |-> entry[p].call = "returned"],
  open  <- ~closed

\* The launcher, its rollback and its owner implement the lease: nothing is acquired once the
\* end has begun, nothing published after shutdown, nothing forgotten while it is held.
ImplementsLease == Lease!LeaseSpec
=============================================================================
