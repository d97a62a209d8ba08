--------------------------- MODULE Spawner_proofs ---------------------------
(***************************************************************************)
(* Spawner, proved for every number of launches and of workers that cannot *)
(* be terminated.                                                          *)
(***************************************************************************)
EXTENDS Spawner, TLAPS

-----------------------------------------------------------------------------
(* Types, for one launch at a time.  Each set has a name, so that a proof *)
(* about one field need not look at the values of the others.             *)

StageNames == {"none", "connect", "stopping", "worker-ready", "shim-bind", "ready"} \cup SessionStages
Outcomes == {"none", "running", "published", "failed", "rollback failed"}
Sessions == {"none", "open", "closed"}
Adapters == {"none", "live", "disposed"}
Workers == {"none", "starting", "listening", "terminating", "gone", "stuck"}
Shims == {"none", "binding", "bound", "closing", "closed"}
Stops == {"no", "shim", "worker", "done", "failed"}

TabType ==
  [stage : StageNames, outcome : Outcomes, attempt : 0..2, lost : BOOLEAN, aborted : BOOLEAN,
   session : Sessions, adapter : Adapters, worker : Workers, shim : Shims, stop : Stops,
   reported : BOOLEAN]

Stoppings == {"no", "pending", "done", "failed"}
CallStates == {"none", "pending", "returned", "rejected"}

EntryType == [owned : BOOLEAN, handle : BOOLEAN, stopping : Stoppings, call : CallStates]

-----------------------------------------------------------------------------
(* Where a launch can be, and what it holds there *)

Started == {"listening", "terminating", "gone", "stuck"}

\* Nothing is acquired yet.
Blank(t) ==
  /\ t.session = "none" /\ t.adapter = "none" /\ t.worker = "none" /\ t.shim = "none"
  /\ t.stop = "no"

\* Each stage and what has been acquired before it.
Acquiring(t) ==
  /\ t.stop = "no" /\ t.attempt \in {1, 2}
  /\ \/ t.stage = "connect" /\ Blank(t)
     \/ /\ t.stage \in SessionStages \ {"prime-stop"} /\ t.session # "none"
        /\ t.adapter = "none" /\ t.worker = "none" /\ t.shim = "none"
     \/ /\ t.stage = "prime-stop" /\ t.session # "none"
        /\ t.adapter = "live" /\ t.worker = "none" /\ t.shim = "none"
     \/ /\ t.stage = "worker-ready" /\ t.session # "none"
        /\ t.adapter = "live" /\ t.worker \in {"starting", "terminating", "stuck"} /\ t.shim = "none"
     \/ /\ t.stage = "shim-bind" /\ t.session # "none"
        /\ t.adapter = "live" /\ t.worker \in Started /\ t.shim = "binding"

\* stop() is under way.
Stopping(t) ==
  /\ t.stage = "stopping"
  /\ \/ t.stop = "shim" /\ t.shim = "closing" /\ t.worker \in Started
     \/ t.stop = "worker" /\ t.worker = "terminating" /\ t.shim \in {"none", "closed"}

RollingBack(t) == Stopping(t) /\ t.session = "closed" /\ t.attempt \in {1, 2}

\* What has been published is all there, or has been reported.
Serving(t) ==
  /\ t.stop = "no" /\ t.stage = "ready"
  /\ (t.session = "open" \/ (t.session = "closed" /\ t.reported))
  /\ t.adapter = "live" /\ t.worker \in Started /\ t.shim = "bound"

\* The end: all is given back, or all but a worker that would not go.
Over(t, clean) ==
  /\ t.session # "open" /\ t.adapter # "live" /\ t.shim \in {"none", "closed"}
  /\ IF clean THEN t.worker \in {"none", "gone"} ELSE t.worker = "stuck"

Ended(t) ==
  /\ Over(t, TRUE)
  /\ \/ t.outcome = "failed" /\ t.stop \in {"no", "done"}
     \/ t.outcome = "published" /\ t.stop = "done"

Broken(t) == Over(t, FALSE) /\ t.outcome \in {"published", "rollback failed"} /\ t.stop = "failed"

TabOK(t) ==
  \/ t.outcome = "none" /\ t.stage = "none" /\ Blank(t)
  \/ t.outcome = "running" /\ (Acquiring(t) \/ RollingBack(t))
  \/ t.outcome = "published" /\ (Serving(t) \/ Stopping(t))
  \/ Ended(t)
  \/ Broken(t)

\* What an entry says of its launch.
EntryOK(t, e, shut) ==
  /\ e.call = "none" => ~e.owned /\ ~e.handle /\ e.stopping = "no" /\ t.outcome = "none" /\ ~t.aborted
  /\ t.outcome = "none" => e.call \in {"none", "pending"}
  /\ e.handle => t.outcome = "published"
  /\ e.call = "returned" => e.handle
  /\ e.call = "rejected" => Ended(t) \/ Broken(t)
  /\ e.call = "rejected" /\ t.outcome = "failed" => ~e.owned
  /\ t.outcome = "published" /\ t.stop # "no" => e.stopping # "no"
  /\ ~e.handle /\ e.stopping # "no" => t.aborted
  /\ e.stopping = "done" => ~e.owned
  /\ e.call # "none" /\ ~e.owned => Ended(t)
  /\ e.stopping = "failed" => Broken(t) /\ e.owned
  /\ shut /\ e.owned => e.stopping # "no"

LaunchOK(p) ==
  /\ tab[p] \in TabType /\ TabOK(tab[p])
  /\ entry[p] \in EntryType /\ EntryOK(tab[p], entry[p], closed)

Owner ==
  /\ closed <=> closing # "no"
  /\ closed => \A p \in Launches : entry[p].owned => p \in joined
  /\ closing = "drained" => \A p \in joined : entry[p].stopping = "done"

Types ==
  /\ stuck \in 0..MaxStuck
  /\ tab \in [Launches -> TabType] /\ entry \in [Launches -> EntryType]
  /\ closed \in BOOLEAN /\ joined \in SUBSET Launches
  /\ closing \in {"no", "draining", "drained", "failed", "timed out"}

Inv == Types /\ (\A p \in Launches : LaunchOK(p)) /\ Owner

-----------------------------------------------------------------------------
(* Names *)

LEMMA Names ==
  /\ "none" \in StageNames /\ "connect" \in StageNames /\ "stopping" \in StageNames
  /\ "worker-ready" \in StageNames /\ "shim-bind" \in StageNames /\ "ready" \in StageNames
  /\ "initial-target" \in StageNames /\ "sources" \in StageNames
  /\ "breakpoint-positions" \in StageNames /\ "navigation" \in StageNames
  /\ "prime-stop" \in StageNames
  /\ "none" \in Outcomes /\ "running" \in Outcomes /\ "published" \in Outcomes
  /\ "failed" \in Outcomes /\ "rollback failed" \in Outcomes
  /\ "none" \in Sessions /\ "open" \in Sessions /\ "closed" \in Sessions
  /\ "none" \in Adapters /\ "live" \in Adapters /\ "disposed" \in Adapters
  /\ "none" \in Workers /\ "starting" \in Workers /\ "listening" \in Workers
  /\ "terminating" \in Workers /\ "gone" \in Workers /\ "stuck" \in Workers
  /\ "none" \in Shims /\ "binding" \in Shims /\ "bound" \in Shims
  /\ "closing" \in Shims /\ "closed" \in Shims
  /\ "no" \in Stops /\ "shim" \in Stops /\ "worker" \in Stops /\ "done" \in Stops
  /\ "failed" \in Stops
  BY DEF StageNames, SessionStages, Outcomes, Sessions, Adapters, Workers, Shims, Stops

LEMMA StageList ==
  /\ Len(Stages) = 8
  /\ Stages[1] = "initial-target" /\ Stages[2] = "sources" /\ Stages[3] = "breakpoint-positions"
  /\ Stages[4] = "navigation" /\ Stages[5] = "prime-stop" /\ Stages[6] = "worker-ready"
  /\ Stages[7] = "shim-bind" /\ Stages[8] = "ready"
  BY DEF Stages

LEMMA NextStage ==
  /\ After("initial-target") = "sources"
  /\ After("sources") = "breakpoint-positions"
  /\ After("breakpoint-positions") = "navigation"
  /\ After("navigation") = "prime-stop"
  /\ After("prime-stop") = "worker-ready"
<1>1. ASSUME NEW k \in 1..7 PROVE (CHOOSE i \in 1..(Len(Stages) - 1) : Stages[i] = Stages[k]) = k
  <2>1. \A i \in 1..7 : Stages[i] = Stages[k] => i = k
    BY StageList
  <2>2. QED
    BY <2>1, StageList
<1>2. \A k \in 1..7 : After(Stages[k]) = Stages[1 + k]
  BY <1>1 DEF After
<1>3. QED
  BY <1>2, StageList

LEMMA StageSet ==
  StageNames = {"none", "connect", "stopping"} \cup {Stages[i] : i \in 1..Len(Stages)}
<1>1. 1..8 = {1, 2, 3, 4, 5, 6, 7, 8}
  OBVIOUS
<1>2. {Stages[i] : i \in 1..Len(Stages)} = {"worker-ready", "shim-bind", "ready"} \cup SessionStages
  BY <1>1, StageList DEF SessionStages
<1>3. QED
  BY <1>2 DEF StageNames

-----------------------------------------------------------------------------
(* The end of a stop, on the record of a launch *)

LEMMA IdleIs ==
  /\ Idle \in TabType /\ Idle.outcome = "none" /\ Idle.stage = "none" /\ Blank(Idle)
  /\ Idle.aborted = FALSE
<1>1. Idle \in TabType
  <2>1. 0 \in 0..2 /\ FALSE \in BOOLEAN
    OBVIOUS
  <2>2. /\ "none" \in StageNames /\ "none" \in Outcomes /\ "none" \in Sessions
        /\ "none" \in Adapters /\ "none" \in Workers /\ "none" \in Shims /\ "no" \in Stops
    BY Names
  <2>3. QED
    BY <2>1, <2>2, Zenon DEF Idle, TabType
<1>2. QED
  BY <1>1 DEF Idle, Blank

LEMMA ConnectingIs ==
  ASSUME NEW n \in {1, 2}
  PROVE  /\ Connecting(n) \in TabType /\ Connecting(n).outcome = "running"
         /\ Connecting(n).stage = "connect" /\ Connecting(n).attempt = n
         /\ Blank(Connecting(n)) /\ Connecting(n).aborted = FALSE
<1>1. n \in 0..2
  OBVIOUS
<1>2. Connecting(n) \in TabType
  BY <1>1, IdleIs, Names DEF Connecting, TabType
<1>3. QED
  BY IdleIs, <1>2 DEF Connecting, TabType, Blank

\* Nothing is held that was not held before.
LEMMA HoldsLess ==
  ASSUME NEW t, NEW u, u.session = "open" => t.session = "open",
         u.adapter = "live" => t.adapter = "live",
         u.worker \in {"starting", "listening", "terminating", "stuck"}
           => t.worker \in {"starting", "listening", "terminating", "stuck"},
         u.shim \in {"binding", "bound", "closing"} => t.shim \in {"binding", "bound", "closing"}
  PROVE  Holds(u) \subseteq Holds(t)
  BY DEF Holds

LEMMA HoldsNothing ==
  ASSUME NEW t, Blank(t) \/ Over(t, TRUE)
  PROVE  Holds(t) = {}
  BY DEF Holds, Blank, Over

LEMMA HoldsWorker ==
  ASSUME NEW t, Over(t, FALSE)
  PROVE  Holds(t) = {"worker"}
  BY DEF Holds, Over

\* The common part of every end.
Spent(t, how) ==
  [t EXCEPT !.adapter = IF @ = "live" THEN "disposed" ELSE @, !.session = "closed",
            !.stop = how, !.lost = FALSE]

LEMMA SpentIs ==
  ASSUME NEW t \in TabType, NEW how \in Stops
  PROVE  /\ Spent(t, how) \in TabType
         /\ Spent(t, how).adapter # "live" /\ Spent(t, how).session = "closed"
         /\ Spent(t, how).stop = how
         /\ Spent(t, how).outcome = t.outcome /\ Spent(t, how).aborted = t.aborted
         /\ Spent(t, how).worker = t.worker /\ Spent(t, how).shim = t.shim
<1>1. PICK a \in Adapters : a = (IF t.adapter = "live" THEN "disposed" ELSE t.adapter)
  BY Names DEF TabType
<1>2. a # "live"
  BY <1>1
<1> DEFINE v == [t EXCEPT !.adapter = a, !.session = "closed", !.stop = how, !.lost = FALSE]
<1>3. v \in TabType
  BY Names DEF TabType
<1>4. v.adapter = a /\ v.session = "closed" /\ v.stop = how
  BY DEF TabType
<1>5. v.outcome = t.outcome /\ v.aborted = t.aborted
  BY DEF TabType
<1>6. v.worker = t.worker /\ v.shim = t.shim
  BY DEF TabType
<1>7. Spent(t, how) = v
  BY <1>1 DEF Spent
<1> HIDE DEF v
<1>8. QED
  BY <1>2, <1>3, <1>4, <1>5, <1>6, <1>7

\* What stop(), and the steps that lead to it, make of a record.
Ending(t, u) ==
  /\ u \in TabType /\ TabOK(u) /\ u.aborted = t.aborted /\ Holds(u) \subseteq Holds(t)
  /\ u.outcome \in IF t.outcome = "published" THEN {"published"}
                   ELSE {"running", "failed", "rollback failed"}

\* The end of a stop: of a handle, for good; of a rollback, with one retry.
LEMMA FinishIs ==
  ASSUME NEW t \in TabType, NEW clean \in BOOLEAN,
         t.outcome \in {"running", "published"},
         t.shim \in {"none", "closed"},
         IF clean THEN t.worker \in {"none", "gone"} ELSE t.worker = "stuck"
  PROVE  Ending(t, Finish(t, clean))
<1> DEFINE how == IF clean THEN "done" ELSE "failed"
           u == Spent(t, how)
<1>0. how \in Stops /\ (clean => how = "done") /\ (~clean => how = "failed")
  BY Names
<1>1. Finish(t, clean) =
        IF t.outcome = "published" THEN u
        ELSE IF ~clean THEN [u EXCEPT !.outcome = "rollback failed"]
        ELSE IF t.lost /\ ~t.aborted /\ t.attempt = 1 THEN Connecting(2)
        ELSE [u EXCEPT !.outcome = "failed"]
  BY DEF Finish, Spent
<1> HIDE DEF how
<1>2. /\ u \in TabType /\ u.adapter # "live" /\ u.session = "closed" /\ u.stop = how
      /\ u.outcome = t.outcome /\ u.aborted = t.aborted /\ u.worker = t.worker /\ u.shim = t.shim
  BY <1>0, SpentIs
<1> HIDE DEF u
<1>3. Over(u, clean) /\ Holds(u) \subseteq Holds(t)
  BY <1>2, HoldsLess DEF Over
<1>4. CASE t.outcome = "published"
  <2>1. TabOK(u)
    BY <1>0, <1>2, <1>3, <1>4 DEF TabOK, Ended, Broken
  <2>2. QED
    BY <1>1, <1>2, <1>3, <1>4, <2>1 DEF Ending
<1>5. ASSUME t.outcome = "running", NEW o \in {"failed", "rollback failed"},
             clean => o = "failed", ~clean => o = "rollback failed",
             Finish(t, clean) = [u EXCEPT !.outcome = o]
      PROVE  Ending(t, Finish(t, clean))
  <2> DEFINE v == [u EXCEPT !.outcome = o]
  <2>1. o \in Outcomes
    BY Names
  <2>2. /\ v \in TabType /\ v.adapter = u.adapter /\ v.session = u.session /\ v.aborted = u.aborted
        /\ v.worker = u.worker /\ v.shim = u.shim /\ v.stop = u.stop /\ v.outcome = o
    BY <1>2, <2>1 DEF TabType
  <2> HIDE DEF v
  <2>3. Over(v, clean) /\ Holds(v) \subseteq Holds(t)
    BY <1>2, <2>2, HoldsLess DEF Over
  <2>4. TabOK(v)
    BY <1>0, <1>2, <1>5, <2>2, <2>3 DEF TabOK, Ended, Broken
  <2>5. Finish(t, clean) = v
    BY <1>5 DEF v
  <2>6. QED
    BY <1>2, <1>5, <2>2, <2>3, <2>4, <2>5 DEF Ending
<1>6. CASE t.outcome = "running" /\ clean /\ t.lost /\ ~t.aborted /\ t.attempt = 1
  <2>1. Finish(t, clean) = Connecting(2)
    BY <1>1, <1>6
  <2>2. t.aborted = FALSE
    BY <1>6 DEF TabType
  <2>3. /\ Connecting(2) \in TabType /\ Connecting(2).outcome = "running"
        /\ Connecting(2).stage = "connect" /\ Connecting(2).attempt = 2
        /\ Blank(Connecting(2)) /\ Connecting(2).aborted = FALSE
    BY ConnectingIs
  <2>4. TabOK(Connecting(2)) /\ Holds(Connecting(2)) = {}
    BY <2>3, HoldsNothing DEF TabOK, Acquiring, Blank
  <2>5. QED
    BY <1>6, <2>1, <2>2, <2>3, <2>4 DEF Ending
<1>7. CASE t.outcome = "running" /\ ~(clean /\ t.lost /\ ~t.aborted /\ t.attempt = 1)
  <2>1. PICK o \in {"failed", "rollback failed"} :
          /\ clean => o = "failed"
          /\ ~clean => o = "rollback failed"
          /\ Finish(t, clean) = [u EXCEPT !.outcome = o]
    BY <1>1, <1>7
  <2>2. QED
    BY <1>5, <1>7, <2>1
<1>8. QED
  BY <1>4, <1>6, <1>7

LEMMA TerminateIs ==
  ASSUME NEW t \in TabType
  PROVE  /\ Terminate(t) \in TabType
         /\ Terminate(t).worker = IF t.worker \in LiveWorker THEN "terminating" ELSE t.worker
         /\ Terminate(t).stage = t.stage /\ Terminate(t).outcome = t.outcome
         /\ Terminate(t).attempt = t.attempt /\ Terminate(t).aborted = t.aborted
         /\ Terminate(t).session = t.session /\ Terminate(t).adapter = t.adapter
         /\ Terminate(t).shim = t.shim /\ Terminate(t).stop = t.stop
         /\ Terminate(t).reported = t.reported
<1>1. PICK w \in Workers : w = IF t.worker \in LiveWorker THEN "terminating" ELSE t.worker
  BY Names DEF TabType
<1> DEFINE v == [t EXCEPT !.worker = w]
<1>2. v \in TabType /\ v.worker = w
  BY DEF TabType
<1>3. /\ v.stage = t.stage /\ v.outcome = t.outcome /\ v.attempt = t.attempt
      /\ v.aborted = t.aborted /\ v.session = t.session /\ v.adapter = t.adapter
      /\ v.shim = t.shim /\ v.stop = t.stop /\ v.reported = t.reported
  BY DEF TabType
<1>4. Terminate(t) = v
  BY <1>1 DEF Terminate
<1> HIDE DEF v
<1>5. QED
  BY <1>1, <1>2, <1>3, <1>4

\* The worker's turn in a stop, with a shim that is closed or was never bound.
LEMMA StopWorkerIs ==
  ASSUME NEW t \in TabType, t.stage = "stopping",
         t.outcome = "published" \/ (t.outcome = "running" /\ t.session = "closed" /\ t.attempt \in {1, 2}),
         t.shim \in {"none", "closed"}
  PROVE  Ending(t, StopWorker(t))
<1>1. CASE t.worker \in {"none", "gone"}
  <2>1. StopWorker(t) = Finish(t, TRUE)
    BY <1>1 DEF StopWorker
  <2>2. QED
    BY <1>1, <2>1, FinishIs
<1>2. CASE t.worker = "stuck"
  <2>1. StopWorker(t) = Finish(t, FALSE)
    BY <1>2 DEF StopWorker
  <2>2. QED
    BY <1>2, <2>1, FinishIs
<1>3. CASE t.worker \notin {"none", "gone", "stuck"}
  <2> DEFINE w == Terminate(t)
             v == [w EXCEPT !.stop = "worker"]
  <2>1. t.worker \in {"starting", "listening", "terminating"}
    BY <1>3 DEF TabType, Workers
  <2>2. /\ w \in TabType /\ w.worker = "terminating"
        /\ w.stage = t.stage /\ w.outcome = t.outcome /\ w.attempt = t.attempt
        /\ w.aborted = t.aborted /\ w.session = t.session /\ w.adapter = t.adapter
        /\ w.shim = t.shim
    BY <2>1, TerminateIs DEF LiveWorker
  <2> HIDE DEF w
  <2>3. v \in TabType /\ v.stop = "worker" /\ v.worker = w.worker
    BY <2>2, Names DEF TabType
  <2>4. /\ v.stage = w.stage /\ v.outcome = w.outcome /\ v.attempt = w.attempt
        /\ v.aborted = w.aborted /\ v.session = w.session /\ v.adapter = w.adapter
        /\ v.shim = w.shim
    BY <2>2 DEF TabType
  <2>5. StopWorker(t) = v
    BY <1>3 DEF StopWorker, w
  <2> HIDE DEF v
  <2>6. TabOK(v)
    BY <2>2, <2>3, <2>4 DEF TabOK, RollingBack, Stopping
  <2>7. Holds(v) \subseteq Holds(t)
    BY <2>1, <2>2, <2>3, <2>4, HoldsLess
  <2>8. QED
    BY <2>2, <2>3, <2>4, <2>5, <2>6, <2>7 DEF Ending
<1>4. QED
  BY <1>1, <1>2, <1>3

\* A stop that begins with a shim that is bound, or with none.
Stoppable(t) ==
  /\ t.shim \in {"none", "bound", "closed"}
  /\ t.shim = "bound" => t.worker \in Started

LEMMA BeginStopIs ==
  ASSUME NEW t \in TabType, Stoppable(t),
         t.outcome = "published" \/ (t.outcome = "running" /\ t.session = "closed" /\ t.attempt \in {1, 2})
  PROVE  Ending(t, BeginStop(t))
<1>1. CASE t.shim = "bound"
  <2> DEFINE v == [t EXCEPT !.stage = "stopping", !.shim = "closing", !.stop = "shim"]
  <2>1. v \in TabType /\ v.stage = "stopping" /\ v.shim = "closing" /\ v.stop = "shim"
    BY Names DEF TabType
  <2>2. /\ v.outcome = t.outcome /\ v.attempt = t.attempt /\ v.aborted = t.aborted
        /\ v.session = t.session /\ v.adapter = t.adapter /\ v.worker = t.worker
    BY DEF TabType
  <2>3. BeginStop(t) = v
    BY <1>1 DEF BeginStop
  <2> HIDE DEF v
  <2>4. TabOK(v)
    BY <1>1, <2>1, <2>2 DEF TabOK, RollingBack, Stopping, Stoppable
  <2>5. Holds(v) \subseteq Holds(t)
    BY <1>1, <2>1, <2>2, HoldsLess
  <2>6. QED
    BY <2>1, <2>2, <2>3, <2>4, <2>5 DEF Ending
<1>2. CASE t.shim # "bound"
  <2> DEFINE v == [t EXCEPT !.stage = "stopping"]
  <2>1. v \in TabType /\ v.stage = "stopping"
    BY Names DEF TabType
  <2>2. /\ v.outcome = t.outcome /\ v.attempt = t.attempt /\ v.aborted = t.aborted
        /\ v.session = t.session /\ v.adapter = t.adapter /\ v.worker = t.worker /\ v.shim = t.shim
    BY DEF TabType
  <2>3. BeginStop(t) = StopWorker(v)
    BY <1>2 DEF BeginStop
  <2> HIDE DEF v
  <2>4. Ending(v, StopWorker(v))
    BY <1>2, <2>1, <2>2, StopWorkerIs DEF Stoppable
  <2>5. Holds(v) \subseteq Holds(t)
    BY <2>2, HoldsLess
  <2>6. QED
    BY <2>2, <2>3, <2>4, <2>5 DEF Ending
<1>3. QED
  BY <1>1, <1>2

LEMMA RollbackIs ==
  ASSUME NEW t \in TabType, Stoppable(t), t.outcome = "running", t.attempt \in {1, 2},
         NEW lost \in BOOLEAN
  PROVE  Ending(t, Rollback(t, lost)) /\ "session" \notin Holds(Rollback(t, lost))
<1> DEFINE v == [t EXCEPT !.session = "closed", !.lost = lost]
<1>1. v \in TabType /\ v.session = "closed"
  BY Names DEF TabType
<1>2. /\ v.outcome = t.outcome /\ v.attempt = t.attempt /\ v.aborted = t.aborted
      /\ v.adapter = t.adapter /\ v.worker = t.worker /\ v.shim = t.shim
  BY DEF TabType
<1>3. Rollback(t, lost) = BeginStop(v)
  BY DEF Rollback
<1> HIDE DEF v
<1>4. Ending(v, BeginStop(v))
  BY <1>1, <1>2, BeginStopIs DEF Stoppable
<1>5. Holds(v) \subseteq Holds(t) /\ "session" \notin Holds(v)
  <2>1. "session" \notin Holds(v)
    BY <1>1 DEF Holds
  <2>2. QED
    BY <1>1, <1>2, <2>1, HoldsLess
<1>6. QED
  BY <1>2, <1>3, <1>4, <1>5 DEF Ending

-----------------------------------------------------------------------------
(* The steps of a launch, on its record *)

Kinds == {"session", "adapter", "worker", "shim"}

\* A step of a launch that has neither ended nor been given up: what is known of its record
\* stays known, and at most one thing is acquired, only before it is told to end.
Moves(t, u) ==
  /\ u \in TabType /\ TabOK(u) /\ u.aborted = t.aborted
  /\ u.outcome # "none"
  /\ t.outcome = "published" => u.outcome = "published"
  /\ u.outcome = "published" /\ u.stop # "no" => t.outcome = "published" /\ t.stop # "no"
  /\ \/ Holds(u) \subseteq Holds(t)
     \/ t.outcome = "running" /\ ~t.aborted /\ \E r \in Kinds : Holds(u) = Holds(t) \cup {r}

LEMMA EndingMoves ==
  ASSUME NEW t, NEW u, Ending(t, u),
         t.outcome = "running" \/ (t.outcome = "published" /\ t.stop # "no")
  PROVE  Moves(t, u)
  BY DEF Ending, Moves

\* What has to be there when a launch comes to the checkpoint before a stage.
Before(t, next) ==
  \/ /\ next \in SessionStages
     /\ t.adapter = "none" /\ t.worker = "none" /\ t.shim = "none"
  \/ /\ next = "worker-ready" /\ t.adapter = "live" /\ t.worker = "none" /\ t.shim = "none"
  \/ /\ next = "shim-bind" /\ t.adapter = "live" /\ t.worker = "listening" /\ t.shim = "none"
  \/ /\ next = "ready" /\ t.adapter = "live" /\ t.worker \in Started /\ t.shim = "bound"

LEMMA CheckpointIs ==
  ASSUME NEW t \in TabType, t.outcome = "running", t.attempt \in {1, 2}, t.stop = "no",
         NEW next, Before(t, next)
  PROVE  /\ Moves(t, Checkpoint(t, next))
         /\ next \in SessionStages \ {"prime-stop"} => Holds(Checkpoint(t, next)) \subseteq Holds(t)
         /\ t.aborted => "session" \notin Holds(Checkpoint(t, next))
<1>1. CASE t.aborted \/ t.session # "open"
  <2>1. Checkpoint(t, next) = Rollback(t, FALSE)
    BY <1>1 DEF Checkpoint
  <2>2. Ending(t, Rollback(t, FALSE)) /\ "session" \notin Holds(Rollback(t, FALSE))
    BY RollbackIs DEF Before, Stoppable
  <2>3. QED
    BY <2>1, <2>2, EndingMoves DEF Ending
<1>2. CASE ~t.aborted /\ t.session = "open"
  <2>1. next \in StageNames
    BY DEF Before, StageNames
  <2>2. PICK a \in Adapters : a = IF next = "prime-stop" THEN "live" ELSE t.adapter
    BY Names DEF TabType
  <2>3. PICK w \in Workers : w = IF next = "worker-ready" THEN "starting" ELSE t.worker
    BY Names DEF TabType
  <2>4. PICK s \in Shims : s = IF next = "shim-bind" THEN "binding" ELSE t.shim
    BY Names DEF TabType
  <2>5. PICK o \in Outcomes : o = IF next = "ready" THEN "published" ELSE t.outcome
    BY Names DEF TabType
  <2> DEFINE v == [t EXCEPT !.stage = next, !.adapter = a, !.worker = w, !.shim = s, !.outcome = o]
  <2>6. v \in TabType
    BY <2>1 DEF TabType
  <2>7. v.stage = next /\ v.adapter = a /\ v.worker = w /\ v.shim = s /\ v.outcome = o
    BY DEF TabType
  <2>8. v.attempt = t.attempt /\ v.aborted = t.aborted /\ v.session = t.session /\ v.stop = t.stop
    BY DEF TabType
  <2>9. Checkpoint(t, next) = v
    BY <1>2, <2>2, <2>3, <2>4, <2>5 DEF Checkpoint
  <2> HIDE DEF v
  <2>10. CASE next \in SessionStages \ {"prime-stop"}
    <3>1. a = "none" /\ w = "none" /\ s = "none" /\ o = "running"
      BY <2>2, <2>3, <2>4, <2>5, <2>10 DEF Before, SessionStages
    <3>2. TabOK(v)
      BY <1>2, <2>7, <2>8, <2>10, <3>1 DEF TabOK, Acquiring
    <3>3. Holds(v) \subseteq Holds(t)
      BY <2>7, <2>8, <3>1, HoldsLess
    <3>4. QED
      BY <1>2, <2>6, <2>7, <2>8, <2>9, <3>1, <3>2, <3>3 DEF Moves
  <2>11. CASE next = "prime-stop"
    <3>1. a = "live" /\ w = "none" /\ s = "none" /\ o = "running" /\ t.worker = "none" /\ t.shim = "none"
      BY <2>2, <2>3, <2>4, <2>5, <2>11 DEF Before, SessionStages
    <3>2. TabOK(v)
      BY <1>2, <2>7, <2>8, <2>11, <3>1 DEF TabOK, Acquiring
    <3>3. Holds(v) = Holds(t) \cup {"adapter"}
      BY <2>7, <2>8, <3>1 DEF Holds
    <3>4. QED
      BY <1>2, <2>6, <2>7, <2>8, <2>9, <2>11, <3>1, <3>2, <3>3 DEF Moves, Kinds
  <2>12. CASE next = "worker-ready"
    <3>1. /\ a = "live" /\ w = "starting" /\ s = "none" /\ o = "running"
          /\ t.adapter = "live" /\ t.shim = "none"
      BY <2>2, <2>3, <2>4, <2>5, <2>12 DEF Before, SessionStages
    <3>2. TabOK(v)
      BY <1>2, <2>7, <2>8, <2>12, <3>1 DEF TabOK, Acquiring
    <3>3. Holds(v) = Holds(t) \cup {"worker"}
      BY <2>7, <2>8, <3>1 DEF Holds
    <3>4. QED
      BY <1>2, <2>6, <2>7, <2>8, <2>9, <2>12, <3>1, <3>2, <3>3 DEF Moves, Kinds, SessionStages
  <2>13. CASE next = "shim-bind"
    <3>1. /\ a = "live" /\ w = "listening" /\ s = "binding" /\ o = "running"
          /\ t.adapter = "live" /\ t.worker = "listening"
      BY <2>2, <2>3, <2>4, <2>5, <2>13 DEF Before, SessionStages
    <3>2. TabOK(v)
      BY <1>2, <2>7, <2>8, <2>13, <3>1 DEF TabOK, Acquiring, Started
    <3>3. Holds(v) = Holds(t) \cup {"shim"}
      BY <2>7, <2>8, <3>1 DEF Holds
    <3>4. QED
      BY <1>2, <2>6, <2>7, <2>8, <2>9, <2>13, <3>1, <3>2, <3>3 DEF Moves, Kinds, SessionStages
  <2>14. CASE next = "ready"
    <3>1. /\ a = "live" /\ w = t.worker /\ s = "bound" /\ o = "published"
          /\ t.adapter = "live" /\ t.worker \in Started /\ t.shim = "bound"
      BY <2>2, <2>3, <2>4, <2>5, <2>14 DEF Before, SessionStages
    <3>2. TabOK(v)
      BY <1>2, <2>7, <2>8, <2>14, <3>1 DEF TabOK, Serving
    <3>3. Holds(v) \subseteq Holds(t)
      BY <2>7, <2>8, <3>1, HoldsLess
    <3>4. QED
      BY <1>2, <2>6, <2>7, <2>8, <2>9, <2>14, <3>1, <3>2, <3>3 DEF Moves, SessionStages
  <2>15. QED
    BY <2>10, <2>11, <2>12, <2>13, <2>14 DEF Before
<1>3. QED
  BY <1>1, <1>2

\* The signal of a launch, whatever the launch is doing.
LEMMA AbortIs ==
  ASSUME NEW t \in TabType, TabOK(t)
  PROVE  /\ Abort(t) \in TabType /\ TabOK(Abort(t)) /\ Abort(t).aborted = TRUE
         /\ Abort(t).outcome = t.outcome /\ Abort(t).stop = t.stop
         /\ Ended(t) => Ended(Abort(t))
         /\ Broken(t) => Broken(Abort(t))
         /\ Holds(Abort(t)) \subseteq Holds(t)
         /\ t.outcome # "running" => Holds(Abort(t)) = Holds(t)
<1>1. CASE t.outcome = "running" /\ t.stage # "connect"
  <2> DEFINE v == [t EXCEPT !.aborted = TRUE, !.session = "closed"]
             w == Terminate(v)
  <2>1. v \in TabType /\ v.aborted = TRUE /\ v.session = "closed"
    BY Names DEF TabType
  <2>2. /\ v.stage = t.stage /\ v.outcome = t.outcome /\ v.attempt = t.attempt
        /\ v.adapter = t.adapter /\ v.worker = t.worker /\ v.shim = t.shim /\ v.stop = t.stop
    BY DEF TabType
  <2>3. Abort(t) = w
    BY <1>1 DEF Abort
  <2> HIDE DEF v
  <2>4. /\ w \in TabType
        /\ w.worker = (IF t.worker \in LiveWorker THEN "terminating" ELSE t.worker)
        /\ w.stage = t.stage /\ w.outcome = t.outcome /\ w.attempt = t.attempt /\ w.aborted = TRUE
        /\ w.session = "closed" /\ w.adapter = t.adapter /\ w.shim = t.shim /\ w.stop = t.stop
    BY <2>1, <2>2, TerminateIs
  <2> HIDE DEF w
  <2>5. Acquiring(t) \/ RollingBack(t)
    BY <1>1 DEF TabOK, Ended, Broken
  <2>6. ASSUME Acquiring(t) PROVE Acquiring(w)
    BY <1>1, <2>4, <2>6 DEF Acquiring, LiveWorker, Started
  <2>7. ASSUME RollingBack(t) PROVE RollingBack(w)
    BY <1>1, <2>4, <2>7 DEF RollingBack, Stopping, LiveWorker, Started
  <2>8. TabOK(w)
    BY <1>1, <2>4, <2>5, <2>6, <2>7 DEF TabOK
  <2>9. Holds(w) \subseteq Holds(t)
    BY <2>4, HoldsLess DEF LiveWorker
  <2>10. ~Ended(t) /\ ~Broken(t)
    BY <1>1 DEF Ended, Broken
  <2>11. QED
    BY <1>1, <2>3, <2>4, <2>8, <2>9, <2>10
<1>2. CASE ~(t.outcome = "running" /\ t.stage # "connect")
  <2> DEFINE v == [t EXCEPT !.aborted = TRUE]
  <2>1. v \in TabType /\ v.aborted = TRUE
    BY DEF TabType
  <2>2. /\ v.stage = t.stage /\ v.outcome = t.outcome /\ v.attempt = t.attempt
        /\ v.session = t.session /\ v.adapter = t.adapter /\ v.worker = t.worker
        /\ v.shim = t.shim /\ v.stop = t.stop /\ v.reported = t.reported
    BY DEF TabType
  <2>3. Abort(t) = v
    BY <1>2 DEF Abort
  <2> HIDE DEF v
  <2>4. /\ Ended(t) => Ended(v)
        /\ Broken(t) => Broken(v)
    BY <2>2 DEF Ended, Broken, Over
  <2>5. TabOK(v)
    BY <2>2, <2>4 DEF TabOK, Blank, Acquiring, RollingBack, Stopping, Serving
  <2>6. Holds(v) = Holds(t)
    BY <2>2 DEF Holds
  <2>7. QED
    BY <2>1, <2>2, <2>3, <2>4, <2>5, <2>6
<1>3. QED
  BY <1>1, <1>2

LEMMA MovesVia ==
  ASSUME NEW t, NEW v, NEW u, Moves(v, u),
         v.outcome = t.outcome, v.aborted = t.aborted, v.stop = t.stop, Holds(v) = Holds(t)
  PROVE  Moves(t, u)
  BY DEF Moves

LEMMA EndingVia ==
  ASSUME NEW t, NEW v, NEW u, Ending(v, u),
         v.outcome = t.outcome, v.aborted = t.aborted, Holds(v) \subseteq Holds(t),
         t.outcome = "running" \/ (t.outcome = "published" /\ t.stop # "no")
  PROVE  Moves(t, u)
  BY DEF Moves, Ending

\* What a step of a launch does.
TabMoves(p) ==
  /\ tab[p].outcome \in {"running", "published"} /\ ~Ended(tab[p]) /\ ~Broken(tab[p])
  /\ \E u \in TabType : Moves(tab[p], u) /\ tab' = [tab EXCEPT ![p] = u]
  /\ stuck' \in 0..MaxStuck

LEMMA TabMovesBy ==
  ASSUME Types, NEW p \in Launches, NEW u, Moves(tab[p], u), Step(p, u),
         tab[p].outcome \in {"running", "published"}, ~Ended(tab[p]), ~Broken(tab[p])
  PROVE  TabMoves(p)
<1>1. u \in TabType
  BY DEF Moves
<1>2. QED
  BY <1>1 DEF TabMoves, Step, Types

LEMMA AwaitingIs ==
  ASSUME NEW t \in TabType, TabOK(t), t.outcome = "running"
  PROVE  ~Ended(t) /\ ~Broken(t) /\ (Acquiring(t) \/ RollingBack(t))
  BY DEF TabOK, Ended, Broken

LEMMA ConnectedMoves ==
  ASSUME Types, NEW p \in Launches, TabOK(tab[p]), Connected(p)
  PROVE  TabMoves(p)
<1> DEFINE t == tab[p]
           v == [t EXCEPT !.session = "open"]
           u == Checkpoint(v, "initial-target")
<1>1. t \in TabType /\ t.outcome = "running" /\ t.stage = "connect" /\ Step(p, u)
  BY DEF Types, Connected, Awaiting
<1>2. Acquiring(t) /\ Blank(t) /\ ~Ended(t) /\ ~Broken(t)
  <2>1. ~Ended(t) /\ ~Broken(t) /\ (Acquiring(t) \/ RollingBack(t))
    BY <1>1, AwaitingIs
  <2>2. QED
    BY <1>1, <2>1 DEF Acquiring, RollingBack, Stopping, SessionStages
<1> HIDE DEF t, u
<1>3. v \in TabType /\ v.session = "open"
  BY <1>1, Names DEF TabType
<1>4. /\ v.outcome = t.outcome /\ v.attempt = t.attempt /\ v.aborted = t.aborted
      /\ v.adapter = t.adapter /\ v.worker = t.worker /\ v.shim = t.shim /\ v.stop = t.stop
  BY <1>1 DEF TabType
<1> HIDE DEF v
<1>5. Before(v, "initial-target") /\ "initial-target" \in SessionStages \ {"prime-stop"}
  BY <1>2, <1>4 DEF Before, Blank, SessionStages
<1>6. /\ Moves(v, u) /\ Holds(u) \subseteq Holds(v)
      /\ v.aborted => "session" \notin Holds(u)
  BY <1>1, <1>2, <1>3, <1>4, <1>5, CheckpointIs DEF Acquiring, u
<1>7. Holds(t) = {} /\ Holds(v) = {"session"}
  <2>1. Holds(v) = {"session"}
    BY <1>2, <1>3, <1>4 DEF Blank, Holds
  <2>2. QED
    BY <1>2, <2>1, HoldsNothing
<1>8. Moves(t, u)
  <2>1. Holds(u) = {} \/ (~t.aborted /\ Holds(u) = Holds(t) \cup {"session"})
    BY <1>4, <1>6, <1>7
  <2>2. Holds(u) \subseteq Holds(t) \/ (~t.aborted /\ \E r \in Kinds : Holds(u) = Holds(t) \cup {r})
    BY <1>7, <2>1 DEF Kinds
  <2>3. QED
    BY <1>1, <1>4, <1>6, <2>2 DEF Moves
<1>9. QED
  BY <1>1, <1>2, <1>8, TabMovesBy DEF t

LEMMA ConnectFailsMoves ==
  ASSUME Types, NEW p \in Launches, TabOK(tab[p]), ConnectFails(p)
  PROVE  TabMoves(p)
<1> DEFINE t == tab[p]
           u == [t EXCEPT !.outcome = "failed", !.stage = "stopping"]
<1>1. t \in TabType /\ t.outcome = "running" /\ t.stage = "connect" /\ Step(p, u)
  BY DEF Types, ConnectFails, Awaiting
<1>2. Blank(t) /\ ~Ended(t) /\ ~Broken(t)
  <2>1. ~Ended(t) /\ ~Broken(t) /\ (Acquiring(t) \/ RollingBack(t))
    BY <1>1, AwaitingIs
  <2>2. QED
    BY <1>1, <2>1 DEF Acquiring, RollingBack, Stopping, SessionStages
<1> HIDE DEF t
<1>3. u \in TabType /\ u.outcome = "failed"
  BY <1>1, Names DEF TabType
<1>4. /\ u.aborted = t.aborted /\ u.session = t.session
      /\ u.adapter = t.adapter /\ u.worker = t.worker /\ u.shim = t.shim /\ u.stop = t.stop
  BY <1>1 DEF TabType
<1> HIDE DEF u
<1>5. TabOK(u) /\ Holds(u) \subseteq Holds(t)
  BY <1>2, <1>3, <1>4, HoldsLess DEF TabOK, Ended, Over, Blank
<1>6. Moves(t, u)
  BY <1>1, <1>3, <1>4, <1>5 DEF Moves
<1>7. QED
  BY <1>1, <1>2, <1>6, TabMovesBy DEF t

LEMMA SessionSettlesMoves ==
  ASSUME Types, NEW p \in Launches, TabOK(tab[p]), SessionSettles(p)
  PROVE  TabMoves(p)
<1> DEFINE t == tab[p]
<1>1. PICK stage \in SessionStages : Awaiting(p, stage) /\ Step(p, Checkpoint(t, After(stage)))
  BY DEF SessionSettles
<1>2. t \in TabType /\ t.outcome = "running" /\ t.stage = stage
  BY <1>1 DEF Types, Awaiting
<1>3. ~Ended(t) /\ ~Broken(t) /\ Acquiring(t)
  <2>1. ~Ended(t) /\ ~Broken(t) /\ (Acquiring(t) \/ RollingBack(t))
    BY <1>2, AwaitingIs
  <2>2. QED
    BY <1>2, <2>1 DEF RollingBack, Stopping, SessionStages
<1>4. Before(t, After(stage))
  <2>1. \/ stage = "prime-stop" /\ After(stage) = "worker-ready"
        \/ stage # "prime-stop" /\ After(stage) \in SessionStages
    BY NextStage DEF SessionStages
  <2>2. QED
    BY <1>2, <1>3, <2>1 DEF Acquiring, Before, SessionStages
<1> HIDE DEF t
<1>5. Moves(t, Checkpoint(t, After(stage)))
  BY <1>2, <1>3, <1>4, CheckpointIs DEF Acquiring
<1>6. QED
  BY <1>1, <1>2, <1>3, <1>5, TabMovesBy DEF t

LEMMA SessionRejectsMoves ==
  ASSUME Types, NEW p \in Launches, TabOK(tab[p]), SessionRejects(p) \/ TargetLost(p)
  PROVE  TabMoves(p)
<1> DEFINE t == tab[p]
<1>1. PICK stage \in SessionStages, lost \in BOOLEAN : Awaiting(p, stage) /\ Step(p, Rollback(t, lost))
  BY DEF SessionRejects, TargetLost, SessionStages
<1>2. t \in TabType /\ t.outcome = "running" /\ t.stage = stage
  BY <1>1 DEF Types, Awaiting
<1>3. ~Ended(t) /\ ~Broken(t) /\ Acquiring(t) /\ Stoppable(t)
  <2>1. ~Ended(t) /\ ~Broken(t) /\ (Acquiring(t) \/ RollingBack(t))
    BY <1>2, AwaitingIs
  <2>2. QED
    BY <1>2, <2>1 DEF RollingBack, Stopping, SessionStages, Acquiring, Stoppable
<1> HIDE DEF t
<1>4. Moves(t, Rollback(t, lost))
  BY <1>2, <1>3, RollbackIs, EndingMoves DEF Acquiring
<1>5. QED
  BY <1>1, <1>2, <1>3, <1>4, TabMovesBy DEF t

LEMMA WorkerListensMoves ==
  ASSUME Types, NEW p \in Launches, TabOK(tab[p]), WorkerListens(p)
  PROVE  TabMoves(p)
<1> DEFINE t == tab[p]
           v == [t EXCEPT !.worker = "listening"]
           u == Checkpoint(v, "shim-bind")
<1>1. /\ t \in TabType /\ t.outcome = "running" /\ t.stage = "worker-ready"
      /\ t.worker = "starting" /\ Step(p, u)
  BY DEF Types, WorkerListens, Awaiting
<1>2. Acquiring(t) /\ ~Ended(t) /\ ~Broken(t)
  <2>1. ~Ended(t) /\ ~Broken(t) /\ (Acquiring(t) \/ RollingBack(t))
    BY <1>1, AwaitingIs
  <2>2. QED
    BY <1>1, <2>1 DEF RollingBack, Stopping
<1> HIDE DEF t, u
<1>3. v \in TabType /\ v.worker = "listening"
  BY <1>1, Names DEF TabType
<1>4. /\ v.outcome = t.outcome /\ v.attempt = t.attempt /\ v.aborted = t.aborted
      /\ v.session = t.session /\ v.adapter = t.adapter /\ v.shim = t.shim /\ v.stop = t.stop
  BY <1>1 DEF TabType
<1> HIDE DEF v
<1>5. Before(v, "shim-bind") /\ Holds(v) = Holds(t)
  BY <1>1, <1>2, <1>3, <1>4 DEF Before, Acquiring, Holds, SessionStages
<1>6. Moves(v, u)
  BY <1>1, <1>2, <1>3, <1>4, <1>5, CheckpointIs DEF Acquiring, u
<1>7. QED
  BY <1>1, <1>2, <1>4, <1>5, <1>6, MovesVia, TabMovesBy DEF t

LEMMA ShimBindsMoves ==
  ASSUME Types, NEW p \in Launches, TabOK(tab[p]), ShimBinds(p)
  PROVE  TabMoves(p)
<1> DEFINE t == tab[p]
           v == [t EXCEPT !.shim = "bound"]
           u == Checkpoint(v, "ready")
<1>1. t \in TabType /\ t.outcome = "running" /\ t.stage = "shim-bind" /\ Step(p, u)
  BY DEF Types, ShimBinds, Awaiting
<1>2. Acquiring(t) /\ ~Ended(t) /\ ~Broken(t)
  <2>1. ~Ended(t) /\ ~Broken(t) /\ (Acquiring(t) \/ RollingBack(t))
    BY <1>1, AwaitingIs
  <2>2. QED
    BY <1>1, <2>1 DEF RollingBack, Stopping
<1> HIDE DEF t, u
<1>3. v \in TabType /\ v.shim = "bound"
  BY <1>1, Names DEF TabType
<1>4. /\ v.outcome = t.outcome /\ v.attempt = t.attempt /\ v.aborted = t.aborted
      /\ v.session = t.session /\ v.adapter = t.adapter /\ v.worker = t.worker /\ v.stop = t.stop
  BY <1>1 DEF TabType
<1> HIDE DEF v
<1>5. Before(v, "ready") /\ Holds(v) = Holds(t)
  BY <1>1, <1>2, <1>3, <1>4 DEF Before, Acquiring, Holds, SessionStages
<1>6. Moves(v, u)
  BY <1>1, <1>2, <1>3, <1>4, <1>5, CheckpointIs DEF Acquiring, u
<1>7. QED
  BY <1>1, <1>2, <1>4, <1>5, <1>6, MovesVia, TabMovesBy DEF t

LEMMA ShimRefusedMoves ==
  ASSUME Types, NEW p \in Launches, TabOK(tab[p]), ShimRefused(p)
  PROVE  TabMoves(p)
<1> DEFINE t == tab[p]
           v == [t EXCEPT !.shim = "none"]
           u == Rollback(v, FALSE)
<1>1. t \in TabType /\ t.outcome = "running" /\ t.stage = "shim-bind" /\ Step(p, u)
  BY DEF Types, ShimRefused, Awaiting
<1>2. Acquiring(t) /\ ~Ended(t) /\ ~Broken(t)
  <2>1. ~Ended(t) /\ ~Broken(t) /\ (Acquiring(t) \/ RollingBack(t))
    BY <1>1, AwaitingIs
  <2>2. QED
    BY <1>1, <2>1 DEF RollingBack, Stopping
<1> HIDE DEF t, u
<1>3. v \in TabType /\ v.shim = "none"
  BY <1>1, Names DEF TabType
<1>4. /\ v.outcome = t.outcome /\ v.attempt = t.attempt /\ v.aborted = t.aborted
      /\ v.session = t.session /\ v.adapter = t.adapter /\ v.worker = t.worker
  BY <1>1 DEF TabType
<1> HIDE DEF v
<1>5. Stoppable(v) /\ Holds(v) \subseteq Holds(t)
  BY <1>3, <1>4, HoldsLess DEF Stoppable
<1>6. Ending(v, u)
  BY <1>1, <1>2, <1>3, <1>4, <1>5, RollbackIs DEF Acquiring, u
<1>7. QED
  BY <1>1, <1>2, <1>4, <1>5, <1>6, EndingVia, TabMovesBy DEF t

LEMMA SessionLostMoves ==
  ASSUME Types, NEW p \in Launches, TabOK(tab[p]), SessionLost(p)
  PROVE  TabMoves(p)
<1> DEFINE t == tab[p]
<1>1. PICK told \in BOOLEAN : told = (t.reported \/ t.stage = "ready")
  OBVIOUS
<1> DEFINE u == [t EXCEPT !.session = "closed", !.reported = told]
<1>2. t \in TabType /\ t.session = "open" /\ Step(p, u)
  <2>1. t \in TabType
    BY DEF Types
  <2>2. QED
    BY <1>1, <2>1 DEF SessionLost, TabType
<1>3. /\ ~Ended(t) /\ ~Broken(t)
      /\ \/ t.outcome = "running" /\ Acquiring(t) /\ t.stage # "connect"
         \/ t.outcome = "published" /\ (Serving(t) \/ Stopping(t))
  <2>1. ~Ended(t) /\ ~Broken(t) /\ ~Blank(t) /\ ~RollingBack(t)
    BY <1>2 DEF Ended, Broken, Over, Blank, RollingBack
  <2>2. TabOK(t)
    OBVIOUS
  <2>3. Acquiring(t) => t.stage # "connect"
    BY <2>1, <1>2 DEF Acquiring, SessionStages
  <2> HIDE DEF t
  <2>4. QED
    BY <2>1, <2>2, <2>3 DEF TabOK
<1> HIDE DEF t
<1>4. u \in TabType /\ u.session = "closed" /\ u.reported = told
  BY <1>2, Names DEF TabType
<1>5. /\ u.stage = t.stage /\ u.outcome = t.outcome /\ u.attempt = t.attempt
      /\ u.aborted = t.aborted /\ u.adapter = t.adapter /\ u.worker = t.worker
      /\ u.shim = t.shim /\ u.stop = t.stop
  BY <1>2 DEF TabType
<1> HIDE DEF u
<1>6. Acquiring(t) /\ t.stage # "connect" => Acquiring(u)
  BY <1>4, <1>5 DEF Acquiring
<1>7. Serving(t) => Serving(u)
  BY <1>1, <1>4, <1>5 DEF Serving
<1>8. Stopping(t) => Stopping(u)
  BY <1>5 DEF Stopping
<1>9. TabOK(u)
  BY <1>3, <1>5, <1>6, <1>7, <1>8 DEF TabOK
<1>10. Holds(u) \subseteq Holds(t)
  BY <1>4, <1>5, HoldsLess
<1>11. Moves(t, u)
  BY <1>3, <1>4, <1>5, <1>9, <1>10 DEF Moves
<1>12. QED
  BY <1>2, <1>3, <1>11, TabMovesBy DEF t

\* What there is to know of a launch whose worker has been started and not yet stopped.
LEMMA WorkerAt ==
  ASSUME NEW t, TabOK(t), t.worker \in {"starting", "listening", "terminating"}
  PROVE  /\ ~Ended(t) /\ ~Broken(t) /\ t.outcome \in {"running", "published"}
         /\ \/ /\ t.outcome = "running" /\ Acquiring(t) /\ t.stage \in {"worker-ready", "shim-bind"}
               /\ t.stop = "no" /\ t.attempt \in {1, 2}
            \/ t.outcome = "running" /\ RollingBack(t)
            \/ t.outcome = "published" /\ (Serving(t) \/ Stopping(t))
         /\ t.stage = "worker-ready" => t.outcome = "running" /\ t.shim = "none"
         /\ t.stop = "worker" =>
              /\ t.worker = "terminating" /\ t.shim \in {"none", "closed"}
<1>1. ~Ended(t) /\ ~Broken(t) /\ ~Blank(t)
  BY DEF Ended, Broken, Over, Blank
<1>2. \/ t.outcome = "running" /\ Acquiring(t) /\ t.stage \in {"worker-ready", "shim-bind"}
      \/ t.outcome = "running" /\ RollingBack(t)
      \/ t.outcome = "published" /\ (Serving(t) \/ Stopping(t))
  BY <1>1 DEF TabOK, Acquiring
<1>3. t.stage = "worker-ready" => t.outcome = "running" /\ t.shim = "none"
  BY <1>2 DEF Acquiring, RollingBack, Serving, Stopping, SessionStages
<1>4. t.stop = "worker" => t.worker = "terminating" /\ t.shim \in {"none", "closed"}
  BY <1>2 DEF Acquiring, RollingBack, Serving, Stopping
<1>5. QED
  BY <1>1, <1>2, <1>3, <1>4 DEF Acquiring

\* The worker of a launch changes, and nothing else does; the launch may have been told.
LEMMA WorkerChanges ==
  ASSUME NEW t \in TabType, TabOK(t), t.worker \in {"starting", "listening", "terminating"},
         t.stop # "worker", t.stage # "worker-ready" \/ t.worker = "terminating",
         NEW w \in {"terminating", "gone", "stuck"}, w = "gone" => t.stage # "worker-ready",
         NEW u \in TabType, u.worker = w, t.reported => u.reported,
         u.stage = t.stage, u.outcome = t.outcome, u.attempt = t.attempt,
         u.aborted = t.aborted, u.session = t.session, u.adapter = t.adapter,
         u.shim = t.shim, u.stop = t.stop
  PROVE  Moves(t, u)
<1>1. /\ \/ t.outcome = "running" /\ (Acquiring(t) \/ RollingBack(t))
         \/ t.outcome = "published" /\ (Serving(t) \/ Stopping(t))
  BY WorkerAt
<1>2. Acquiring(t) => Acquiring(u)
  BY DEF Acquiring, Started, Blank
<1>3. Stopping(t) => Stopping(u)
  BY DEF Stopping, Started
<1>4. Serving(t) => Serving(u)
  BY DEF Serving, Started
<1>5. TabOK(u)
  BY <1>1, <1>2, <1>3, <1>4 DEF TabOK, RollingBack
<1>6. Holds(u) \subseteq Holds(t)
  BY HoldsLess
<1>7. QED
  BY <1>1, <1>5, <1>6 DEF Moves

LEMMA WorkerFailsMoves ==
  ASSUME Types, NEW p \in Launches, TabOK(tab[p]), WorkerFails(p)
  PROVE  TabMoves(p)
<1> DEFINE t == tab[p]
           w == Terminate(t)
<1>1. t \in TabType /\ t.worker \in LiveWorker
  BY DEF Types, WorkerFails
<1>2. Step(p, IF Awaiting(p, "worker-ready") THEN Rollback(w, FALSE)
              ELSE [w EXCEPT !.reported = @ \/ t.stage = "ready"])
  BY DEF WorkerFails
<1>3. Awaiting(p, "worker-ready") <=> t.outcome = "running" /\ t.stage = "worker-ready"
  BY DEF Awaiting
<1> HIDE DEF t, w
<1>4. /\ ~Ended(t) /\ ~Broken(t) /\ t.outcome \in {"running", "published"} /\ t.stop # "worker"
      /\ t.stage = "worker-ready" =>
           t.outcome = "running" /\ t.shim = "none" /\ t.attempt \in {1, 2}
  <2>1. TabOK(t) /\ t.worker \in {"starting", "listening"}
    BY <1>1 DEF t, LiveWorker
  <2>2. QED
    BY <2>1, WorkerAt DEF RollingBack
<1>5. /\ w \in TabType /\ w.worker = "terminating" /\ w.stage = t.stage /\ w.outcome = t.outcome
      /\ w.attempt = t.attempt /\ w.aborted = t.aborted /\ w.session = t.session
      /\ w.adapter = t.adapter /\ w.shim = t.shim /\ w.stop = t.stop /\ w.reported = t.reported
  BY <1>1, TerminateIs DEF w
<1>6. Holds(w) \subseteq Holds(t)
  BY <1>1, <1>5, HoldsLess DEF LiveWorker
<1>7. CASE t.stage = "worker-ready"
  <2>1. Step(p, Rollback(w, FALSE))
    BY <1>2, <1>3, <1>4, <1>7
  <2>2. Ending(w, Rollback(w, FALSE))
    BY <1>4, <1>5, <1>7, RollbackIs DEF Stoppable
  <2>3. QED
    BY <1>4, <1>5, <1>6, <1>7, <2>1, <2>2, EndingVia, TabMovesBy DEF t
<1>8. CASE t.stage # "worker-ready"
  <2>1. PICK told \in BOOLEAN : told = (w.reported \/ t.stage = "ready")
    OBVIOUS
  <2> DEFINE u == [w EXCEPT !.reported = told]
  <2>2. Step(p, u)
    BY <1>2, <1>3, <1>5, <1>8, <2>1 DEF TabType
  <2>3. u \in TabType /\ u.reported = told
    BY <1>5 DEF TabType
  <2>4. /\ u.worker = w.worker /\ u.stage = w.stage /\ u.outcome = w.outcome
        /\ u.attempt = w.attempt /\ u.aborted = w.aborted /\ u.session = w.session
        /\ u.adapter = w.adapter /\ u.shim = w.shim /\ u.stop = w.stop
    BY <1>5 DEF TabType
  <2> HIDE DEF u
  <2>5. Moves(t, u)
    <3>1. TabOK(t) /\ t.worker \in {"starting", "listening"}
      BY <1>1 DEF t, LiveWorker
    <3>2. QED
      BY <1>1, <1>4, <1>5, <1>8, <2>1, <2>3, <2>4, <3>1, WorkerChanges
  <2>6. QED
    BY <1>4, <2>2, <2>5, TabMovesBy DEF t
<1>9. QED
  BY <1>7, <1>8

\* terminate() has come to its end, one way or the other, with nobody awaiting it.
LEMMA WorkerEndMoves ==
  ASSUME NEW t \in TabType, TabOK(t), t.worker = "terminating",
         NEW w \in {"gone", "stuck"}, NEW v, v = [t EXCEPT !.worker = w]
  PROVE  /\ ~Ended(t) /\ ~Broken(t) /\ t.outcome \in {"running", "published"}
         /\ t.stop = "worker" => Moves(t, Finish(v, w = "gone"))
         /\ t.stop # "worker" /\ t.stage = "worker-ready" => Moves(t, Rollback(v, FALSE))
         /\ t.stop # "worker" /\ (w = "gone" => t.stage # "worker-ready") => Moves(t, v)
<1>1. w \in Workers
  BY Names
<1>2. v \in TabType /\ v.worker = w
  BY <1>1 DEF TabType
<1>3. /\ v.stage = t.stage /\ v.outcome = t.outcome /\ v.attempt = t.attempt
      /\ v.aborted = t.aborted /\ v.session = t.session /\ v.adapter = t.adapter
      /\ v.shim = t.shim /\ v.stop = t.stop /\ v.reported = t.reported
  BY DEF TabType
<1>4. /\ ~Ended(t) /\ ~Broken(t) /\ t.outcome \in {"running", "published"}
      /\ t.stop = "worker" => t.shim \in {"none", "closed"}
      /\ t.stop # "worker" /\ t.stage = "worker-ready" =>
           t.outcome = "running" /\ t.shim = "none" /\ t.attempt \in {1, 2}
  BY WorkerAt DEF RollingBack
<1>5. Holds(v) \subseteq Holds(t)
  BY <1>3, HoldsLess
<1>6. ASSUME t.stop = "worker" PROVE Moves(t, Finish(v, w = "gone"))
  <2>1. t.outcome = "running" \/ (t.outcome = "published" /\ t.stop # "no")
    BY <1>4, <1>6
  <2>2. PICK clean \in BOOLEAN : clean = (w = "gone")
    OBVIOUS
  <2>3. Ending(v, Finish(v, clean))
    BY <1>2, <1>3, <1>4, <1>6, <2>2, FinishIs
  <2>4. QED
    BY <1>3, <1>5, <2>1, <2>2, <2>3, EndingVia
<1>7. ASSUME t.stop # "worker", t.stage = "worker-ready" PROVE Moves(t, Rollback(v, FALSE))
  <2>1. Ending(v, Rollback(v, FALSE))
    BY <1>2, <1>3, <1>4, <1>7, RollbackIs DEF Stoppable
  <2>2. QED
    BY <1>3, <1>4, <1>5, <1>7, <2>1, EndingVia
<1>8. ASSUME t.stop # "worker", w = "gone" => t.stage # "worker-ready" PROVE Moves(t, v)
  BY <1>2, <1>3, <1>8, WorkerChanges
<1>9. QED
  BY <1>4, <1>6, <1>7, <1>8

LEMMA WorkerExitsMoves ==
  ASSUME Types, NEW p \in Launches, TabOK(tab[p]), WorkerExits(p)
  PROVE  TabMoves(p)
<1> DEFINE t == tab[p]
           v == [t EXCEPT !.worker = "gone"]
<1>1. t \in TabType /\ t.worker = "terminating"
  BY DEF Types, WorkerExits
<1>2. Step(p, IF v.stop = "worker" THEN Finish(v, TRUE)
              ELSE IF Awaiting(p, "worker-ready") THEN Rollback(v, FALSE) ELSE v)
  BY DEF WorkerExits
<1>3. Awaiting(p, "worker-ready") <=> t.outcome = "running" /\ t.stage = "worker-ready"
  BY DEF Awaiting
<1>4. t.stage = "worker-ready" => t.outcome = "running"
  BY <1>1, WorkerAt
<1> HIDE DEF t
<1>5. v.stop = t.stop
  BY <1>1 DEF TabType
<1>6. /\ ~Ended(t) /\ ~Broken(t) /\ t.outcome \in {"running", "published"}
      /\ t.stop = "worker" => Moves(t, Finish(v, TRUE))
      /\ t.stop # "worker" /\ t.stage = "worker-ready" => Moves(t, Rollback(v, FALSE))
      /\ t.stop # "worker" /\ t.stage # "worker-ready" => Moves(t, v)
  <2>1. ("gone" = "gone") = TRUE
    OBVIOUS
  <2>2. QED
    BY <1>1, <2>1, WorkerEndMoves DEF t
<1> HIDE DEF v
<1>7. PICK u : Moves(t, u) /\ Step(p, u)
  BY <1>2, <1>3, <1>4, <1>5, <1>6
<1>8. QED
  BY <1>6, <1>7, TabMovesBy DEF t

LEMMA WorkerSticksMoves ==
  ASSUME Types, NEW p \in Launches, TabOK(tab[p]), WorkerSticks(p)
  PROVE  TabMoves(p)
<1> DEFINE t == tab[p]
           v == [t EXCEPT !.worker = "stuck"]
<1>1. t \in TabType /\ t.worker = "terminating"
  BY DEF Types, WorkerSticks
<1>2. tab' = [tab EXCEPT ![p] = IF v.stop = "worker" THEN Finish(v, FALSE) ELSE v]
  BY DEF WorkerSticks
<1> HIDE DEF t
<1>3. v.stop = t.stop
  BY <1>1 DEF TabType
<1>4. /\ ~Ended(t) /\ ~Broken(t) /\ t.outcome \in {"running", "published"}
      /\ t.stop = "worker" => Moves(t, Finish(v, FALSE))
      /\ t.stop # "worker" => Moves(t, v)
  <2>1. ("stuck" = "gone") = FALSE
    OBVIOUS
  <2>2. QED
    BY <1>1, <2>1, WorkerEndMoves DEF t
<1> HIDE DEF v
<1>5. PICK u : Moves(t, u) /\ tab' = [tab EXCEPT ![p] = u]
  BY <1>2, <1>3, <1>4
<1>6. u \in TabType
  BY <1>5 DEF Moves
<1>7. stuck' \in 0..MaxStuck
  <2>1. stuck \in 0..MaxStuck /\ stuck < MaxStuck /\ stuck' = stuck + 1
    BY DEF WorkerSticks, Types
  <2>2. QED
    BY <2>1, TabAssumption
<1>8. QED
  BY <1>4, <1>5, <1>6, <1>7 DEF TabMoves, t

LEMMA ShimClosesMoves ==
  ASSUME Types, NEW p \in Launches, TabOK(tab[p]), ShimCloses(p)
  PROVE  TabMoves(p)
<1> DEFINE t == tab[p]
           v == [t EXCEPT !.shim = "closed"]
           u == StopWorker(v)
<1>1. t \in TabType /\ t.stop = "shim" /\ Step(p, u)
  BY DEF Types, ShimCloses
<1>2. /\ ~Ended(t) /\ ~Broken(t) /\ t.stage = "stopping"
      /\ \/ t.outcome = "published"
         \/ t.outcome = "running" /\ t.session = "closed" /\ t.attempt \in {1, 2}
  <2>1. ~Ended(t) /\ ~Broken(t) /\ ~Blank(t) /\ ~Acquiring(t) /\ ~Serving(t)
    BY <1>1 DEF Ended, Broken, Blank, Acquiring, Serving
  <2>2. TabOK(t)
    OBVIOUS
  <2> HIDE DEF t
  <2>3. QED
    BY <2>1, <2>2 DEF TabOK, RollingBack, Stopping
<1> HIDE DEF t, u
<1>3. v \in TabType /\ v.shim = "closed"
  BY <1>1, Names DEF TabType
<1>4. /\ v.stage = t.stage /\ v.outcome = t.outcome /\ v.attempt = t.attempt
      /\ v.aborted = t.aborted /\ v.session = t.session /\ v.adapter = t.adapter
      /\ v.worker = t.worker
  BY <1>1 DEF TabType
<1> HIDE DEF v
<1>5. Ending(v, u) /\ Holds(v) \subseteq Holds(t)
  BY <1>2, <1>3, <1>4, StopWorkerIs, HoldsLess DEF u
<1>6. Moves(t, u)
  BY <1>1, <1>2, <1>4, <1>5, EndingVia
<1>7. QED
  BY <1>1, <1>2, <1>6, TabMovesBy DEF t

LEMMA TabStepMoves ==
  ASSUME Types, NEW p \in Launches, TabOK(tab[p]), TabStep(p)
  PROVE  TabMoves(p)
  BY ConnectedMoves, ConnectFailsMoves, SessionSettlesMoves, SessionRejectsMoves,
     WorkerListensMoves, ShimBindsMoves, ShimRefusedMoves, SessionLostMoves, WorkerFailsMoves,
     WorkerExitsMoves, WorkerSticksMoves, ShimClosesMoves DEF TabStep

-----------------------------------------------------------------------------
(* The lease *)

LeaseFor(t, e) ==
  IF e.call = "none" THEN "none"
  ELSE IF ~e.owned THEN "gone"
  ELSE IF e.stopping = "failed"
          \/ (t.outcome = "rollback failed" /\ e.call = "rejected") THEN "leaked"
  ELSE IF e.stopping # "no" THEN "ending"
  ELSE IF e.call = "returned" THEN "live" ELSE "acquiring"

LEMMA LeaseIs == \A p \in Launches : LeaseOf(p) = LeaseFor(tab[p], entry[p])
  BY DEF LeaseOf, LeaseFor

LEMMA HoldsKinds ==
  ASSUME NEW t
  PROVE  Holds(t) \subseteq {"session", "adapter", "worker", "shim"}
  BY DEF Holds

\* What a step may do to one launch, as its lease sees it: from lease l, holding h, with the
\* caller told or not, to lease m.
Permitted(l, h, c, m, k, d, shut) ==
  \/ ~shut /\ l = "none" /\ m = "acquiring" /\ k = h /\ d = c
  \/ l = "acquiring" /\ m = l /\ d = c /\ \E r \in Kinds : k = h \cup {r}
  \/ l \in {"acquiring", "live", "ending"} /\ m = l /\ d = c /\ k \subseteq h
  \/ ~shut /\ l = "acquiring" /\ m = "live" /\ d = TRUE /\ k = h
  \/ l \in {"acquiring", "live"} /\ m = "ending" /\ d = c /\ k \subseteq h
  \/ l \in {"acquiring", "ending"} /\ h = {} /\ m = "gone" /\ d = c /\ k = h
  \/ l \in {"acquiring", "ending"} /\ m = "leaked" /\ d = c /\ k = h
  \/ m = l /\ k = h /\ d = c

LEMMA LeaseStep ==
  ASSUME Types, NEW p \in Launches, NEW t, NEW e,
         tab' = [tab EXCEPT ![p] = t], entry' = [entry EXCEPT ![p] = e], closed' = closed,
         Permitted(LeaseFor(tab[p], entry[p]), Holds(tab[p]), entry[p].call = "returned",
                   LeaseFor(t, e), Holds(t), e.call = "returned", closed)
  PROVE  [Lease!LeaseNext]_(Lease!leaseVars)
<1>1. \A q \in Launches : LeaseOf(q)' = LeaseFor(tab'[q], entry'[q])
  BY DEF LeaseOf, LeaseFor
<1>2. \A q \in Launches : Holds(tab[q])' = Holds(tab'[q])
  BY DEF Holds
<1>3. tab'[p] = t /\ entry'[p] = e
  BY DEF Types
<1>4. \A q \in Launches : q # p => tab'[q] = tab[q] /\ entry'[q] = entry[q]
  BY DEF Types
<1>5. /\ LeaseOf(p) = LeaseFor(tab[p], entry[p]) /\ LeaseOf(p)' = LeaseFor(t, e)
      /\ Holds(tab[p])' = Holds(t)
      /\ \A q \in Launches : q # p => LeaseOf(q)' = LeaseOf(q)
      /\ \A q \in Launches : q # p => Holds(tab[q])' = Holds(tab[q])
  BY <1>1, <1>2, <1>3, <1>4, LeaseIs
<1>6. [q \in Launches |-> LeaseOf(q)]' = [[q \in Launches |-> LeaseOf(q)] EXCEPT ![p] = LeaseFor(t, e)]
  BY <1>5
<1>7. [q \in Launches |-> Holds(tab[q])]' = [[q \in Launches |-> Holds(tab[q])] EXCEPT ![p] = Holds(t)]
  BY <1>5
<1>8. [q \in Launches |-> entry[q].call = "returned"]'
        = [[q \in Launches |-> entry[q].call = "returned"] EXCEPT ![p] = (e.call = "returned")]
  BY <1>3, <1>4
<1> DEFINE l == LeaseFor(tab[p], entry[p])
           h == Holds(tab[p])
           c == entry[p].call = "returned"
           m == LeaseFor(t, e)
           k == Holds(t)
           d == e.call = "returned"
<1>9. /\ [q \in Launches |-> LeaseOf(q)][p] = l
      /\ [q \in Launches |-> Holds(tab[q])][p] = h
  BY <1>5
<1>10. m = l => [q \in Launches |-> LeaseOf(q)]' = [q \in Launches |-> LeaseOf(q)]
  BY <1>5
<1>11. k = h => [q \in Launches |-> Holds(tab[q])]' = [q \in Launches |-> Holds(tab[q])]
  BY <1>5
<1>12. d = c => [q \in Launches |-> entry[q].call = "returned"]'
                  = [q \in Launches |-> entry[q].call = "returned"]
  BY <1>3, <1>4
<1>13. (~closed)' = ~closed
  OBVIOUS
<1>14. Permitted(l, h, c, m, k, d, closed)
  OBVIOUS
<1>15. /\ [q \in Launches |-> LeaseOf(q)]' = [[q \in Launches |-> LeaseOf(q)] EXCEPT ![p] = m]
       /\ [q \in Launches |-> Holds(tab[q])]' = [[q \in Launches |-> Holds(tab[q])] EXCEPT ![p] = k]
       /\ [q \in Launches |-> entry[q].call = "returned"]'
            = [[q \in Launches |-> entry[q].call = "returned"] EXCEPT ![p] = d]
  BY <1>6, <1>7, <1>8
<1> HIDE DEF l, h, c, m, k, d
<1>16. CASE ~closed /\ l = "none" /\ m = "acquiring" /\ k = h /\ d = c
  BY <1>9, <1>11, <1>12, <1>13, <1>15, <1>16 DEF Lease!LeaseNext, Lease!Begin
<1>17. CASE l = "acquiring" /\ m = l /\ d = c /\ \E r \in Kinds : k = h \cup {r}
  <2>1. Lease!Acquire(p)
    BY <1>9, <1>10, <1>12, <1>13, <1>15, <1>17 DEF Lease!Acquire, Kinds
  <2>2. QED
    BY <2>1 DEF Lease!LeaseNext
<1>18. CASE l \in {"acquiring", "live", "ending"} /\ m = l /\ d = c /\ k \subseteq h
  <2>1. Lease!Release(p)
    BY <1>9, <1>10, <1>12, <1>13, <1>15, <1>18 DEF Lease!Release
  <2>2. QED
    BY <2>1 DEF Lease!LeaseNext
<1>19. CASE ~closed /\ l = "acquiring" /\ m = "live" /\ d = TRUE /\ k = h
  BY <1>9, <1>11, <1>13, <1>15, <1>19 DEF Lease!LeaseNext, Lease!Publish
<1>20. CASE l \in {"acquiring", "live"} /\ m = "ending" /\ d = c /\ k \subseteq h
  <2>1. Lease!End(p)
    BY <1>9, <1>12, <1>13, <1>15, <1>20 DEF Lease!End
  <2>2. QED
    BY <2>1 DEF Lease!LeaseNext
<1>21. CASE l \in {"acquiring", "ending"} /\ h = {} /\ m = "gone" /\ d = c /\ k = h
  BY <1>9, <1>11, <1>12, <1>13, <1>15, <1>21 DEF Lease!LeaseNext, Lease!Forget
<1>22. CASE l \in {"acquiring", "ending"} /\ m = "leaked" /\ d = c /\ k = h
  BY <1>9, <1>11, <1>12, <1>13, <1>15, <1>22 DEF Lease!LeaseNext, Lease!Leak
<1>23. CASE m = l /\ k = h /\ d = c
  BY <1>10, <1>11, <1>12, <1>13, <1>23 DEF Lease!leaseVars
<1>24. QED
  BY <1>14, <1>16, <1>17, <1>18, <1>19, <1>20, <1>21, <1>22, <1>23 DEF Permitted

-----------------------------------------------------------------------------
(* The invariant *)

\* What every step does: it keeps the invariant, and the lease allows it.
Kept == Inv' /\ [Lease!LeaseNext]_(Lease!leaseVars)

\* A step of one launch and its entry.
LEMMA OneLaunch ==
  ASSUME Inv, NEW p \in Launches, NEW t \in TabType, NEW e \in EntryType,
         tab' = [tab EXCEPT ![p] = t], entry' = [entry EXCEPT ![p] = e], stuck' \in 0..MaxStuck,
         UNCHANGED <<closed, closing, joined>>,
         TabOK(t), EntryOK(t, e, closed),
         closed => (e.owned => entry[p].owned),
         entry[p].stopping = "done" => e.stopping = "done",
         Permitted(LeaseFor(tab[p], entry[p]), Holds(tab[p]), entry[p].call = "returned",
                   LeaseFor(t, e), Holds(t), e.call = "returned", closed)
  PROVE  Kept
<1>1. tab' \in [Launches -> TabType] /\ entry' \in [Launches -> EntryType]
  BY DEF Inv, Types
<1>2. tab'[p] = t /\ entry'[p] = e
  BY DEF Inv, Types
<1>3. \A q \in Launches : q # p => tab'[q] = tab[q] /\ entry'[q] = entry[q]
  BY DEF Inv, Types
<1>4. \A q \in Launches :
        /\ tab'[q] \in TabType /\ TabOK(tab'[q])
        /\ entry'[q] \in EntryType /\ EntryOK(tab'[q], entry'[q], closed)
  <2> SUFFICES ASSUME NEW q \in Launches
               PROVE  /\ tab'[q] \in TabType /\ TabOK(tab'[q])
                      /\ entry'[q] \in EntryType /\ EntryOK(tab'[q], entry'[q], closed)
    OBVIOUS
  <2>1. CASE q = p
    BY <1>2, <2>1
  <2>2. CASE q # p
    <3>1. LaunchOK(q)
      BY DEF Inv
    <3>2. QED
      BY <1>3, <2>2, <3>1 DEF LaunchOK
  <2>3. QED
    BY <2>1, <2>2
<1>5. \A q \in Launches : LaunchOK(q)'
  BY <1>4 DEF LaunchOK
<1>6. Owner'
  <2>1. Owner
    BY DEF Inv
  <2>2. \A q \in Launches :
          /\ closed /\ entry'[q].owned => entry[q].owned
          /\ entry[q].stopping = "done" => entry'[q].stopping = "done"
    BY <1>2, <1>3
  <2>3. joined \in SUBSET Launches
    BY DEF Inv, Types
  <2>4. QED
    BY <2>1, <2>2, <2>3 DEF Owner
<1>7. Types'
  BY <1>1 DEF Inv, Types
<1>8. [Lease!LeaseNext]_(Lease!leaseVars)
  BY LeaseStep DEF Inv
<1>9. QED
  BY <1>5, <1>6, <1>7, <1>8 DEF Inv, Kept

\* What is known of an entry survives the steps of its launch.
LEMMA EntryKept ==
  ASSUME NEW t, NEW u, NEW e \in EntryType, NEW shut, EntryOK(t, e, shut),
         t.outcome # "none", ~Ended(t), ~Broken(t), u.outcome # "none", u.aborted = t.aborted,
         t.outcome = "published" => u.outcome = "published",
         u.outcome = "published" /\ u.stop # "no" => e.stopping # "no"
  PROVE  EntryOK(u, e, shut)
  BY DEF EntryOK

LEMMA Fields ==
  ASSUME NEW e \in EntryType
  PROVE  /\ e.owned \in BOOLEAN /\ e.handle \in BOOLEAN /\ e.stopping \in Stoppings
         /\ e.call \in CallStates
  BY DEF EntryType

LEMMA EntryNames ==
  /\ "no" \in Stoppings /\ "pending" \in Stoppings /\ "done" \in Stoppings /\ "failed" \in Stoppings
  /\ "none" \in CallStates /\ "pending" \in CallStates /\ "returned" \in CallStates
  /\ "rejected" \in CallStates
  BY DEF Stoppings, CallStates

LEMMA TabStepOK ==
  ASSUME Inv, NEW p \in Launches, TabStep(p), UNCHANGED spawnerVars
  PROVE  Kept
<1>1. Types /\ LaunchOK(p)
  BY DEF Inv
<1>2. TabMoves(p)
  BY <1>1, TabStepMoves DEF LaunchOK
<1>3. PICK u \in TabType : Moves(tab[p], u) /\ tab' = [tab EXCEPT ![p] = u]
  BY <1>2 DEF TabMoves
<1>4. EntryOK(u, entry[p], closed)
  <2>1. /\ EntryOK(tab[p], entry[p], closed) /\ entry[p] \in EntryType
        /\ tab[p].outcome \in {"running", "published"} /\ ~Ended(tab[p]) /\ ~Broken(tab[p])
    BY <1>1, <1>2 DEF LaunchOK, TabMoves
  <2>2. /\ u.outcome # "none" /\ u.aborted = tab[p].aborted
        /\ tab[p].outcome = "published" => u.outcome = "published"
        /\ u.outcome = "published" /\ u.stop # "no" => entry[p].stopping # "no"
    BY <1>3, <2>1 DEF Moves, EntryOK
  <2>3. QED
    BY <2>1, <2>2, EntryKept
<1>5. entry' = [entry EXCEPT ![p] = entry[p]] /\ UNCHANGED <<closed, closing, joined>>
  BY <1>1 DEF Types, spawnerVars
<1>6. stuck' \in 0..MaxStuck /\ TabOK(u) /\ entry[p] \in EntryType
  BY <1>1, <1>2, <1>3 DEF TabMoves, Moves, LaunchOK
<1>7. Permitted(LeaseFor(tab[p], entry[p]), Holds(tab[p]), entry[p].call = "returned",
                LeaseFor(u, entry[p]), Holds(u), entry[p].call = "returned", closed)
  <2> DEFINE t == tab[p]
             e == entry[p]
  <2>1. /\ EntryOK(t, e, closed) /\ e \in EntryType
        /\ t.outcome \in {"running", "published"} /\ ~Ended(t) /\ ~Broken(t)
    BY <1>1, <1>2 DEF LaunchOK, TabMoves
  <2> HIDE DEF t, e
  <2>2. e.call \in {"pending", "returned"} /\ e.owned /\ e.stopping # "failed"
    <3>1. e.call # "none" /\ e.call # "rejected" /\ e.owned /\ e.stopping # "failed"
      BY <2>1 DEF EntryOK
    <3>2. QED
      BY <2>1, <3>1, Fields DEF CallStates
  <2>3. /\ LeaseFor(t, e) = LeaseFor(u, e)
        /\ LeaseFor(t, e) \in {"acquiring", "live", "ending"}
        /\ e.stopping = "no" /\ e.call # "returned" => LeaseFor(t, e) = "acquiring"
    BY <2>2 DEF LeaseFor
  <2>4. t.outcome = "running" /\ ~t.aborted => LeaseFor(t, e) = "acquiring"
    BY <2>1, <2>3 DEF EntryOK
  <2>5. \/ Holds(u) \subseteq Holds(t)
        \/ t.outcome = "running" /\ ~t.aborted /\ \E r \in Kinds : Holds(u) = Holds(t) \cup {r}
    BY <1>3 DEF Moves, t
  <2>6. QED
    BY <2>3, <2>4, <2>5 DEF Permitted, t, e
<1>8. QED
  BY <1>3, <1>4, <1>5, <1>6, <1>7, OneLaunch

\* A step of an entry, with its launch as it is.
LEMMA OneEntry ==
  ASSUME Inv, NEW p \in Launches, NEW e, SetEntry(p, e), UNCHANGED tabVars, e \in EntryType,
         EntryOK(tab[p], e, closed), closed => (e.owned => entry[p].owned),
         entry[p].stopping = "done" => e.stopping = "done",
         Permitted(LeaseFor(tab[p], entry[p]), Holds(tab[p]), entry[p].call = "returned",
                   LeaseFor(tab[p], e), Holds(tab[p]), e.call = "returned", closed)
  PROVE  Kept
<1>1. tab' = [tab EXCEPT ![p] = tab[p]] /\ stuck' \in 0..MaxStuck
  BY DEF Inv, Types, tabVars
<1>2. tab[p] \in TabType /\ TabOK(tab[p])
  BY DEF Inv, LaunchOK
<1>3. QED
  BY <1>1, <1>2, OneLaunch DEF SetEntry

\* A step of a launch on its owner's behalf.
LEMMA OneTab ==
  ASSUME Inv, NEW p \in Launches, NEW t, SetTab(p, t), UNCHANGED spawnerVars, t \in TabType,
         TabOK(t), EntryOK(t, entry[p], closed),
         Permitted(LeaseFor(tab[p], entry[p]), Holds(tab[p]), entry[p].call = "returned",
                   LeaseFor(t, entry[p]), Holds(t), entry[p].call = "returned", closed)
  PROVE  Kept
<1>1. entry' = [entry EXCEPT ![p] = entry[p]] /\ UNCHANGED <<closed, closing, joined>>
  BY DEF Inv, Types, spawnerVars
<1>2. entry[p] \in EntryType /\ stuck' \in 0..MaxStuck
  BY DEF Inv, LaunchOK, SetTab, Types
<1>3. QED
  BY <1>1, <1>2, OneLaunch DEF SetTab

LEMMA LaunchStep ==
  ASSUME Inv, NEW p \in Launches, Launch(p)
  PROVE  Kept
<1> DEFINE e == [NoEntry EXCEPT !.owned = TRUE, !.call = "pending"]
<1>1. /\ SetEntry(p, e) /\ UNCHANGED tabVars /\ ~closed /\ entry[p].call = "none"
      /\ entry[p] \in EntryType /\ EntryOK(tab[p], entry[p], closed)
  BY DEF Launch, Inv, LaunchOK
<1>2. e \in EntryType
  BY EntryNames DEF NoEntry, EntryType
<1>3. e.owned = TRUE /\ e.handle = FALSE /\ e.stopping = "no" /\ e.call = "pending"
  BY DEF NoEntry
<1> HIDE DEF e
<1>4. tab[p].outcome = "none" /\ entry[p].stopping = "no"
  BY <1>1 DEF EntryOK
<1>5. EntryOK(tab[p], e, closed)
  BY <1>1, <1>3, <1>4 DEF EntryOK
<1>6. LeaseFor(tab[p], entry[p]) = "none" /\ LeaseFor(tab[p], e) = "acquiring"
  BY <1>1, <1>3 DEF LeaseFor
<1>7. QED
  BY <1>1, <1>2, <1>3, <1>4, <1>5, <1>6, OneEntry DEF Permitted

LEMMA BeginLaunchStep ==
  ASSUME Inv, NEW p \in Launches, BeginLaunch(p)
  PROVE  Kept
<1> DEFINE t == tab[p]
           v == [t EXCEPT !.outcome = "failed", !.stage = "stopping"]
<1>1. /\ t \in TabType /\ TabOK(t) /\ entry[p] \in EntryType /\ EntryOK(t, entry[p], closed)
      /\ entry[p].call = "pending" /\ t.outcome = "none"
      /\ SetTab(p, IF closed \/ t.aborted THEN v ELSE Connecting(1)) /\ UNCHANGED spawnerVars
  BY DEF BeginLaunch, Inv, LaunchOK
<1> HIDE DEF t
<1>2. Blank(t) /\ Holds(t) = {} /\ ~Ended(t) /\ ~Broken(t)
  BY <1>1, HoldsNothing DEF TabOK, Ended, Broken
<1>3. CASE closed \/ t.aborted
  <2>1. v \in TabType /\ v.outcome = "failed"
    BY <1>1, Names DEF TabType
  <2>2. /\ v.aborted = t.aborted /\ v.session = t.session /\ v.adapter = t.adapter
        /\ v.worker = t.worker /\ v.shim = t.shim /\ v.stop = t.stop
    BY <1>1 DEF TabType
  <2> HIDE DEF v
  <2>3. TabOK(v)
    BY <1>2, <2>1, <2>2 DEF TabOK, Ended, Over, Blank
  <2>4. EntryOK(v, entry[p], closed)
    BY <1>1, <1>2, <2>1, <2>2 DEF EntryOK
  <2>5. LeaseFor(v, entry[p]) = LeaseFor(t, entry[p]) /\ Holds(v) = {}
    BY <1>1, <1>2, <2>2, HoldsNothing DEF LeaseFor, Blank
  <2>6. QED
    BY <1>1, <1>2, <1>3, <2>1, <2>3, <2>4, <2>5, OneTab DEF t, Permitted
<1>4. CASE ~(closed \/ t.aborted)
  <2> DEFINE u == Connecting(1)
  <2>1. /\ u \in TabType /\ u.outcome = "running" /\ u.aborted = FALSE /\ TabOK(u)
        /\ Holds(u) = {}
    BY ConnectingIs, HoldsNothing DEF TabOK, Acquiring, Blank
  <2>2. SetTab(p, u) /\ u.aborted = t.aborted
    BY <1>1, <1>4, <2>1 DEF TabType
  <2> HIDE DEF u
  <2>3. EntryOK(u, entry[p], closed)
    BY <1>1, <1>2, <2>1, <2>2 DEF EntryOK
  <2>4. LeaseFor(u, entry[p]) = LeaseFor(t, entry[p])
    BY <1>1, <2>1 DEF LeaseFor
  <2>5. QED
    BY <1>1, <1>2, <2>1, <2>2, <2>3, <2>4, OneTab DEF t, Permitted
<1>5. QED
  BY <1>3, <1>4

LEMMA LaunchReturnsStep ==
  ASSUME Inv, NEW p \in Launches, LaunchReturns(p)
  PROVE  Kept
<1> DEFINE t == tab[p]
           e == entry[p]
<1>1. /\ t \in TabType /\ TabOK(t) /\ e \in EntryType /\ EntryOK(t, e, closed)
      /\ e.call = "pending" /\ ~e.handle /\ t.outcome = "published" /\ UNCHANGED tabVars
  BY DEF LaunchReturns, Inv, LaunchOK
<1>2. PICK s \in Stoppings, c \in CallStates :
        /\ s = IF e.stopping = "no" /\ closed THEN "pending" ELSE e.stopping
        /\ c = IF e.stopping = "no" /\ ~closed THEN "returned" ELSE "pending"
  <2>1. e.stopping \in Stoppings
    BY <1>1, Fields
  <2>2. QED
    BY <2>1, EntryNames
<1> DEFINE f == [e EXCEPT !.handle = TRUE, !.stopping = s, !.call = c]
<1>3. SetEntry(p, f)
  <2>1. f = IF e.stopping # "no" THEN [e EXCEPT !.handle = TRUE]
            ELSE IF closed THEN [e EXCEPT !.handle = TRUE, !.stopping = "pending"]
            ELSE [e EXCEPT !.handle = TRUE, !.call = "returned"]
    BY <1>1, <1>2 DEF EntryType
  <2>2. QED
    BY <1>1, <2>1 DEF LaunchReturns, EntryType
<1>4. f \in EntryType /\ f.handle = TRUE /\ f.stopping = s /\ f.call = c /\ f.owned = e.owned
  BY <1>1 DEF EntryType
<1> HIDE DEF e, f, t
<1>5. EntryOK(t, f, closed)
  BY <1>1, <1>2, <1>4 DEF EntryOK
<1>6. \/ LeaseFor(t, f) = LeaseFor(t, e) /\ f.call = "pending"
      \/ /\ ~closed /\ LeaseFor(t, e) = "acquiring" /\ LeaseFor(t, f) = "live"
         /\ f.call = "returned"
  <2>1. e.stopping = "no" => e.owned /\ ~closed
    BY <1>1 DEF EntryOK, Ended
  <2>2. QED
    BY <1>1, <1>2, <1>4, <2>1 DEF LeaseFor
<1>7. QED
  BY <1>1, <1>2, <1>3, <1>4, <1>5, <1>6, OneEntry DEF e, t, Permitted

LEMMA LaunchCancelledStep ==
  ASSUME Inv, NEW p \in Launches, LaunchCancelled(p)
  PROVE  Kept
<1> DEFINE t == tab[p]
           e == entry[p]
           f == [e EXCEPT !.call = "rejected"]
<1>1. /\ e \in EntryType /\ EntryOK(t, e, closed) /\ UNCHANGED tabVars /\ SetEntry(p, f)
      /\ e.call = "pending" /\ e.handle /\ e.stopping \in {"done", "failed"}
  BY DEF LaunchCancelled, Inv, LaunchOK
<1> HIDE DEF e
<1>2. /\ f \in EntryType /\ f.call = "rejected" /\ f.handle = e.handle
      /\ f.stopping = e.stopping /\ f.owned = e.owned
  BY <1>1, EntryNames DEF EntryType
<1> HIDE DEF f, t
<1>3. EntryOK(t, f, closed)
  <2>1. Ended(t) \/ Broken(t)
    BY <1>1 DEF EntryOK
  <2>2. QED
    BY <1>1, <1>2, <2>1 DEF EntryOK
<1>4. LeaseFor(t, f) = LeaseFor(t, e)
  BY <1>1, <1>2 DEF LeaseFor, EntryOK
<1>5. QED
  BY <1>1, <1>2, <1>3, <1>4, OneEntry DEF e, t, Permitted

\* The outcome of a launch that has been rolled back says how.
LEMMA Rejected ==
  ASSUME NEW t, TabOK(t)
  PROVE  /\ t.outcome = "failed" => Ended(t)
         /\ t.outcome = "rollback failed" => Broken(t)
         /\ t.outcome = "published" /\ t.stop = "done" => Ended(t)
         /\ t.outcome = "published" /\ t.stop = "failed" => Broken(t)
         /\ Ended(t) => ~Broken(t) /\ t.outcome # "rollback failed" /\ t.stop # "failed"
  BY DEF TabOK, Ended, Broken, Over, Serving, Stopping

LEMMA LaunchRejectsStep ==
  ASSUME Inv, NEW p \in Launches, LaunchRejects(p)
  PROVE  Kept
<1> DEFINE t == tab[p]
           e == entry[p]
<1>1. /\ TabOK(t) /\ e \in EntryType /\ EntryOK(t, e, closed) /\ UNCHANGED tabVars
      /\ e.call = "pending" /\ t.outcome \in {"failed", "rollback failed"}
  BY DEF LaunchRejects, Inv, LaunchOK
<1>2. PICK b \in BOOLEAN : b = (e.owned /\ t.outcome = "rollback failed")
  OBVIOUS
<1> DEFINE f == [e EXCEPT !.call = "rejected", !.owned = b]
<1>3. SetEntry(p, f)
  BY <1>1, <1>2 DEF LaunchRejects, EntryType
<1> HIDE DEF e
<1>4. /\ f \in EntryType /\ f.call = "rejected" /\ f.handle = e.handle
      /\ f.stopping = e.stopping /\ f.owned = b
  BY <1>1, EntryNames DEF EntryType
<1> HIDE DEF f, t
<1>5. /\ t.outcome = "failed" => Ended(t)
      /\ t.outcome = "rollback failed" => Broken(t)
      /\ Ended(t) => ~Broken(t) /\ t.outcome # "rollback failed"
  BY <1>1, Rejected
<1>6. EntryOK(t, f, closed)
  BY <1>1, <1>2, <1>4, <1>5 DEF EntryOK
<1>7. \/ LeaseFor(t, f) = LeaseFor(t, e)
      \/ LeaseFor(t, e) \in {"acquiring", "ending"} /\ LeaseFor(t, f) = "gone" /\ Holds(t) = {}
      \/ LeaseFor(t, e) \in {"acquiring", "ending"} /\ LeaseFor(t, f) = "leaked"
  <2>1. Ended(t) => Holds(t) = {}
    BY HoldsNothing DEF Ended
  <2>2. e.stopping = "failed" => Broken(t)
    BY <1>1 DEF EntryOK
  <2>3. ~e.owned => Ended(t)
    BY <1>1 DEF EntryOK
  <2>4. QED
    BY <1>1, <1>2, <1>4, <1>5, <2>1, <2>2, <2>3 DEF LeaseFor
<1>8. QED
  BY <1>1, <1>2, <1>3, <1>4, <1>6, <1>7, OneEntry DEF e, t, Permitted

LEMMA StopHandleStep ==
  ASSUME Inv, NEW p \in Launches, StopHandle(p)
  PROVE  Kept
<1> DEFINE t == tab[p]
           u == BeginStop(t)
<1>1. /\ t \in TabType /\ TabOK(t) /\ entry[p] \in EntryType /\ EntryOK(t, entry[p], closed)
      /\ entry[p].stopping = "pending" /\ t.outcome = "published" /\ t.stop = "no"
      /\ SetTab(p, u) /\ UNCHANGED spawnerVars
  BY DEF StopHandle, Inv, LaunchOK
<1> HIDE DEF t, u
<1>2. ~Ended(t) /\ ~Broken(t) /\ Stoppable(t)
  BY <1>1 DEF TabOK, Ended, Broken, Serving, Stopping, Stoppable
<1>3. Ending(t, u)
  BY <1>1, <1>2, BeginStopIs DEF u
<1>4. u \in TabType /\ TabOK(u) /\ u.outcome = "published" /\ u.aborted = t.aborted
  BY <1>1, <1>3 DEF Ending
<1>5. EntryOK(u, entry[p], closed)
  BY <1>1, <1>2, <1>4, EntryKept
<1>6. /\ LeaseFor(t, entry[p]) = LeaseFor(u, entry[p])
      /\ LeaseFor(t, entry[p]) = "ending" /\ Holds(u) \subseteq Holds(t)
  <2>1. entry[p].owned /\ entry[p].call # "none"
    BY <1>1, <1>2 DEF EntryOK
  <2>2. QED
    BY <1>1, <1>3, <1>4, <2>1 DEF LeaseFor, Ending
<1>7. QED
  BY <1>1, <1>4, <1>5, <1>6, OneTab DEF t, Permitted

LEMMA EntryStoppedStep ==
  ASSUME Inv, NEW p \in Launches, EntryStopped(p)
  PROVE  Kept
<1> DEFINE t == tab[p]
           e == entry[p]
           f == [e EXCEPT !.stopping = "done", !.owned = FALSE]
           g == [e EXCEPT !.stopping = "failed"]
<1>1. /\ TabOK(t) /\ e \in EntryType /\ EntryOK(t, e, closed) /\ UNCHANGED tabVars
      /\ e.stopping = "pending"
  BY DEF EntryStopped, Inv, LaunchOK
<1>2. \/ (t.outcome = "failed" \/ (t.outcome = "published" /\ t.stop = "done")) /\ SetEntry(p, f)
      \/ (t.outcome = "rollback failed" \/ (t.outcome = "published" /\ t.stop = "failed"))
         /\ SetEntry(p, g)
  BY DEF EntryStopped
<1> HIDE DEF e
<1>3. /\ f \in EntryType /\ f.stopping = "done" /\ f.owned = FALSE /\ f.handle = e.handle
      /\ f.call = e.call
  BY <1>1, EntryNames DEF EntryType
<1>4. /\ g \in EntryType /\ g.stopping = "failed" /\ g.owned = e.owned /\ g.handle = e.handle
      /\ g.call = e.call
  BY <1>1, EntryNames DEF EntryType
<1> HIDE DEF f, g, t
<1>5. CASE Ended(t) /\ SetEntry(p, f)
  <2>1. EntryOK(t, f, closed)
    BY <1>1, <1>3, <1>5 DEF EntryOK
  <2>2. \/ LeaseFor(t, f) = LeaseFor(t, e)
        \/ LeaseFor(t, e) = "ending" /\ LeaseFor(t, f) = "gone"
    BY <1>1, <1>3, <1>5, Rejected DEF LeaseFor
  <2>3. Holds(t) = {}
    BY <1>5, HoldsNothing DEF Ended
  <2>4. QED
    BY <1>1, <1>3, <1>5, <2>1, <2>2, <2>3, OneEntry DEF e, t, Permitted
<1>6. CASE Broken(t) /\ SetEntry(p, g)
  <2>1. ~Ended(t)
    BY <1>1, <1>6, Rejected
  <2>2. EntryOK(t, g, closed)
    BY <1>1, <1>4, <1>6, <2>1 DEF EntryOK
  <2>3. \/ LeaseFor(t, g) = LeaseFor(t, e)
        \/ LeaseFor(t, e) = "ending" /\ LeaseFor(t, g) = "leaked"
    BY <1>1, <1>4 DEF LeaseFor
  <2>4. QED
    BY <1>1, <1>4, <1>6, <2>2, <2>3, OneEntry DEF e, t, Permitted
<1>7. QED
  BY <1>1, <1>2, <1>5, <1>6, Rejected

\* #stop, on the lease of an entry.
StopsLease(told, t, e, u, f) ==
  /\ IF told /\ LeaseFor(t, e) \in {"acquiring", "live"}
     THEN LeaseFor(u, f) = "ending" /\ Holds(u) \subseteq Holds(t)
     ELSE LeaseFor(u, f) = LeaseFor(t, e) /\ Holds(u) = Holds(t)

\* #stop, for any set of entries that the owner has.
LEMMA StopIs ==
  ASSUME Inv, NEW S \in SUBSET Launches, Stop(S), \A p \in S : entry[p].owned,
         NEW shut \in BOOLEAN, shut => closed \/ \A p \in Launches : entry[p].owned => p \in S
  PROVE  /\ stuck' \in 0..MaxStuck
         /\ tab' \in [Launches -> TabType] /\ entry' \in [Launches -> EntryType]
         /\ \A p \in Launches :
              /\ TabOK(tab'[p]) /\ EntryOK(tab'[p], entry'[p], shut)
              /\ entry'[p].owned = entry[p].owned /\ entry'[p].call = entry[p].call
              /\ entry[p].stopping # "no" => entry'[p].stopping = entry[p].stopping
              /\ StopsLease(p \in S, tab[p], entry[p], tab'[p], entry'[p])
<1> DEFINE Told(p) == p \in S /\ entry[p].stopping = "no"
           NewEntry(p) == IF Told(p) THEN [entry[p] EXCEPT !.stopping = "pending"] ELSE entry[p]
           NewTab(p) == IF Told(p) /\ ~entry[p].handle THEN Abort(tab[p]) ELSE tab[p]
<1>1. /\ entry' = [p \in Launches |-> NewEntry(p)]
      /\ tab' = [p \in Launches |-> NewTab(p)]
      /\ UNCHANGED stuck
  BY DEF Stop
<1>2. ASSUME NEW p \in Launches
      PROVE  /\ NewTab(p) \in TabType /\ NewEntry(p) \in EntryType
             /\ TabOK(NewTab(p)) /\ EntryOK(NewTab(p), NewEntry(p), shut)
             /\ NewEntry(p).owned = entry[p].owned /\ NewEntry(p).call = entry[p].call
             /\ entry[p].stopping # "no" => NewEntry(p).stopping = entry[p].stopping
             /\ StopsLease(p \in S, tab[p], entry[p], NewTab(p), NewEntry(p))
  <2> DEFINE t == tab[p]
             e == entry[p]
             f == [e EXCEPT !.stopping = "pending"]
  <2>1. t \in TabType /\ TabOK(t) /\ e \in EntryType /\ EntryOK(t, e, closed)
    BY DEF Inv, LaunchOK
  <2>2. CASE Told(p)
    <3>1. p \in S /\ e.owned /\ e.stopping = "no" /\ NewEntry(p) = f
      BY <2>2
    <3>2. PICK u : u = IF ~e.handle THEN Abort(t) ELSE t
      OBVIOUS
    <3>3. NewTab(p) = u
      BY <2>2, <3>2
    <3> HIDE DEF e, t, NewTab, NewEntry
    <3>4. /\ f \in EntryType /\ f.stopping = "pending" /\ f.owned = e.owned
          /\ f.handle = e.handle /\ f.call = e.call
      BY <2>1, EntryNames DEF EntryType
    <3> HIDE DEF f
    <3>5. /\ u \in TabType /\ TabOK(u) /\ u.outcome = t.outcome /\ u.stop = t.stop
          /\ Ended(t) => Ended(u)
          /\ Broken(t) => Broken(u)
          /\ ~e.handle => u.aborted
          /\ Holds(u) \subseteq Holds(t)
          /\ t.outcome # "running" => Holds(u) = Holds(t)
      BY <2>1, <3>2, AbortIs
    <3>6. e.call # "none"
      BY <2>1, <3>1 DEF EntryOK
    <3>7. EntryOK(u, f, shut)
      BY <2>1, <3>1, <3>4, <3>5, <3>6 DEF EntryOK
    <3>8. StopsLease(TRUE, t, e, u, f)
      BY <3>1, <3>4, <3>5, <3>6 DEF StopsLease, LeaseFor
    <3>9. (p \in S) = TRUE
      BY <3>1
    <3>10. QED
      BY <3>1, <3>3, <3>4, <3>5, <3>7, <3>8, <3>9 DEF e, t
  <2>3. CASE ~Told(p)
    <3>1. NewEntry(p) = e /\ NewTab(p) = t
      BY <2>3
    <3>2. shut /\ e.owned => e.stopping # "no"
      <4>1. closed /\ e.owned => e.stopping # "no"
        BY <2>1 DEF EntryOK
      <4>2. p \in S => e.stopping # "no"
        BY <2>3
      <4>3. QED
        BY <4>1, <4>2
    <3> HIDE DEF e, t, NewTab, NewEntry
    <3>3. EntryOK(t, e, shut)
      BY <2>1, <3>2 DEF EntryOK
    <3>4. p \in S => LeaseFor(t, e) \notin {"acquiring", "live"}
      <4>1. p \in S => e.stopping # "no"
        BY <2>3 DEF e
      <4>2. QED
        BY <4>1 DEF LeaseFor
    <3>5. StopsLease(p \in S, t, e, t, e)
      BY <3>4 DEF StopsLease
    <3>6. QED
      BY <2>1, <3>1, <3>3, <3>5 DEF e, t
  <2>4. QED
    BY <2>2, <2>3
<1> HIDE DEF NewTab, NewEntry
<1>3. \A p \in Launches : tab'[p] = NewTab(p) /\ entry'[p] = NewEntry(p)
  BY <1>1
<1>4. tab' \in [Launches -> TabType] /\ entry' \in [Launches -> EntryType]
  BY <1>1, <1>2
<1>5. stuck' \in 0..MaxStuck
  BY <1>1 DEF Inv, Types
<1>6. QED
  BY <1>2, <1>3, <1>4, <1>5

LEMMA KillStep ==
  ASSUME Inv, NEW p \in Launches, Kill(p)
  PROVE  Kept
<1>1. /\ Stop({p}) /\ {p} \in SUBSET Launches /\ entry[p].owned
      /\ UNCHANGED <<closed, closing, joined>> /\ closed \in BOOLEAN
  BY DEF Kill, Inv, Types
<1> DEFINE t == tab'[p]
           e == entry'[p]
<1>2. /\ stuck' \in 0..MaxStuck /\ t \in TabType /\ e \in EntryType
      /\ TabOK(t) /\ EntryOK(t, e, closed)
      /\ e.owned = entry[p].owned /\ e.call = entry[p].call
      /\ entry[p].stopping # "no" => e.stopping = entry[p].stopping
      /\ StopsLease(p \in {p}, tab[p], entry[p], t, e)
  BY <1>1, StopIs
<1>3. tab' = [tab EXCEPT ![p] = t] /\ entry' = [entry EXCEPT ![p] = e]
  BY <1>1 DEF Stop, Inv, Types
<1> HIDE DEF t, e
<1>4. Permitted(LeaseFor(tab[p], entry[p]), Holds(tab[p]), entry[p].call = "returned",
                LeaseFor(t, e), Holds(t), e.call = "returned", closed)
  BY <1>2 DEF StopsLease, Permitted
<1>5. QED
  BY <1>1, <1>2, <1>3, <1>4, OneLaunch

LEMMA KillAllStep ==
  ASSUME Inv, KillAll
  PROVE  Kept
<1> DEFINE S == {p \in Launches : entry[p].owned}
<1>1. /\ Stop(S) /\ S \in SUBSET Launches /\ closing = "no"
      /\ closed' = TRUE /\ closing' = "draining" /\ joined' = S
  BY DEF KillAll
<1>2. /\ stuck' \in 0..MaxStuck
      /\ tab' \in [Launches -> TabType] /\ entry' \in [Launches -> EntryType]
      /\ \A q \in Launches :
           /\ TabOK(tab'[q]) /\ EntryOK(tab'[q], entry'[q], TRUE)
           /\ entry'[q].owned = entry[q].owned
           /\ entry'[q].call = entry[q].call
           /\ StopsLease(q \in S, tab[q], entry[q], tab'[q], entry'[q])
  BY <1>1, StopIs
<1>3. Types'
  BY <1>1, <1>2 DEF Types
<1>4. \A q \in Launches : LaunchOK(q)'
  BY <1>1, <1>2 DEF LaunchOK
<1>5. Owner'
  BY <1>1, <1>2 DEF Owner
<1>6. Lease!Shutdown
  <2>1. \A q \in Launches :
          /\ LeaseOf(q)' = IF LeaseOf(q) \in {"acquiring", "live"} THEN "ending" ELSE LeaseOf(q)
          /\ Holds(tab[q])' \subseteq Holds(tab[q])
          /\ Holds(tab[q])' \subseteq {"session", "adapter", "worker", "shim"}
    <3> SUFFICES ASSUME NEW q \in Launches
                 PROVE  /\ LeaseOf(q)' = IF LeaseOf(q) \in {"acquiring", "live"}
                                         THEN "ending" ELSE LeaseOf(q)
                        /\ Holds(tab[q])' \subseteq Holds(tab[q])
                        /\ Holds(tab[q])' \subseteq {"session", "adapter", "worker", "shim"}
      OBVIOUS
    <3>1. LeaseOf(q) = LeaseFor(tab[q], entry[q]) /\ LeaseOf(q)' = LeaseFor(tab'[q], entry'[q])
      BY DEF LeaseOf, LeaseFor
    <3>2. Holds(tab[q])' = Holds(tab'[q])
      BY DEF Holds
    <3>3. LeaseFor(tab[q], entry[q]) \in {"acquiring", "live"} => q \in S
      BY DEF LeaseFor
    <3>4. StopsLease(q \in S, tab[q], entry[q], tab'[q], entry'[q])
      BY <1>2
    <3> HIDE DEF S
    <3>5. QED
      BY <3>1, <3>2, <3>3, <3>4, HoldsKinds DEF StopsLease
  <2>2. [q \in Launches |-> LeaseOf(q)]'
          = [q \in Launches |-> IF [r \in Launches |-> LeaseOf(r)][q] \in {"acquiring", "live"}
                                THEN "ending" ELSE [r \in Launches |-> LeaseOf(r)][q]]
    BY <2>1
  <2>3. [q \in Launches |-> Holds(tab[q])]'
          \in [Launches -> SUBSET {"session", "adapter", "worker", "shim"}]
    BY <2>1
  <2>4. \A p \in Launches : [q \in Launches |-> Holds(tab[q])]'[p]
                               \subseteq [q \in Launches |-> Holds(tab[q])][p]
    BY <2>1
  <2>5. [q \in Launches |-> entry[q].call = "returned"]'
          = [q \in Launches |-> entry[q].call = "returned"]
    BY <1>2
  <2>6. ~closed /\ (~closed)' = FALSE
    BY <1>1 DEF Inv, Owner
  <2>7. QED
    BY <2>2, <2>3, <2>4, <2>5, <2>6 DEF Lease!Shutdown
<1>7. QED
  BY <1>3, <1>4, <1>5, <1>6 DEF Inv, Kept, Lease!LeaseNext

LEMMA ClosingStep ==
  ASSUME Inv, Drained \/ KillAllTimesOut \/ UNCHANGED vars
  PROVE  Kept
<1>1. UNCHANGED <<tab, stuck, entry, closed, joined>>
  BY DEF Drained, KillAllTimesOut, vars, tabVars
<1>2. closing' \in {"no", "draining", "drained", "failed", "timed out"}
  BY DEF Inv, Types, Drained, KillAllTimesOut, vars
<1>3. Types'
  BY <1>1, <1>2 DEF Inv, Types
<1>4. \A p \in Launches : LaunchOK(p)'
  BY <1>1 DEF Inv, LaunchOK
<1>5. Owner'
  BY <1>1 DEF Inv, Owner, Drained, KillAllTimesOut, vars
<1>6. UNCHANGED Lease!leaseVars
  <2>1. \A q \in Launches :
          /\ LeaseOf(q)' = LeaseOf(q) /\ Holds(tab[q])' = Holds(tab[q])
          /\ (entry[q].call = "returned")' = (entry[q].call = "returned")
    BY <1>1 DEF LeaseOf, Holds
  <2>2. /\ [q \in Launches |-> LeaseOf(q)]' = [q \in Launches |-> LeaseOf(q)]
        /\ [q \in Launches |-> Holds(tab[q])]' = [q \in Launches |-> Holds(tab[q])]
        /\ [q \in Launches |-> entry[q].call = "returned"]'
             = [q \in Launches |-> entry[q].call = "returned"]
    BY <2>1
  <2>3. QED
    BY <1>1, <2>2 DEF Lease!leaseVars
<1>7. QED
  BY <1>3, <1>4, <1>5, <1>6 DEF Inv, Kept

LEMMA Initially == Init => Inv
<1> SUFFICES ASSUME Init PROVE Inv
  OBVIOUS
<1>1. NoEntry \in EntryType
  BY EntryNames DEF NoEntry, EntryType
<1>2. NoEntry.call = "none" /\ ~NoEntry.owned /\ ~NoEntry.handle /\ NoEntry.stopping = "no"
  BY DEF NoEntry
<1>3. Types
  <2>1. stuck \in 0..MaxStuck
    BY TabAssumption DEF Init, TabInit
  <2>2. tab \in [Launches -> TabType] /\ entry \in [Launches -> EntryType]
    BY <1>1, IdleIs DEF Init, TabInit
  <2>3. closed \in BOOLEAN /\ joined \in SUBSET Launches /\ closing = "no"
    BY DEF Init
  <2>4. QED
    BY <2>1, <2>2, <2>3 DEF Types
<1>4. ASSUME NEW p \in Launches PROVE LaunchOK(p)
  <2>1. tab[p] = Idle /\ entry[p] = NoEntry
    BY DEF Init, TabInit
  <2>2. TabOK(Idle) /\ EntryOK(Idle, NoEntry, closed)
    BY <1>2, IdleIs DEF TabOK, EntryOK, Blank
  <2>3. QED
    BY <1>1, <2>1, <2>2, IdleIs DEF LaunchOK
<1>5. Owner
  BY DEF Init, Owner
<1>6. QED
  BY <1>3, <1>4, <1>5 DEF Inv

LEMMA EveryStep == Inv /\ [Next]_vars => Kept
<1> SUFFICES ASSUME Inv, [Next]_vars PROVE Kept
  OBVIOUS
<1>1. ASSUME NEW p \in Launches, Launch(p) \/ Kill(p) \/ Continuation(p) PROVE Kept
  BY <1>1, LaunchStep, KillStep, BeginLaunchStep, LaunchReturnsStep, LaunchCancelledStep,
     LaunchRejectsStep, StopHandleStep, EntryStoppedStep DEF Continuation
<1>2. ASSUME NEW p \in Launches, TabStep(p), UNCHANGED spawnerVars PROVE Kept
  BY <1>2, TabStepOK
<1>3. QED
  BY <1>1, <1>2, KillAllStep, ClosingStep DEF Next

\* The strengthening is an invariant: it says what a launch holds at each stage, that what is
\* forgotten has ended, and that a launch on the books after shutdown has been told to end.
THEOREM SpawnerInvariant == Spec => []Inv
<1>1. Inv /\ [Next]_vars => Inv'
  BY EveryStep DEF Kept
<1>2. QED
  BY <1>1, Initially, PTL DEF Spec

\* Every record of a launch and of its entry stays within its type, and a launch is attempted
\* at most twice (tab-session.ts, gdb-server-spawner.ts).
THEOREM TypeCorrect == Spec => []TypeOK
<1>1. Inv => TypeOK
  BY StageSet DEF Inv, Types, TypeOK, TabType, Outcomes, Sessions, Adapters, Workers, Shims,
                  Stops, EntryType, Stoppings, CallStates
<1>2. QED
  BY <1>1, SpawnerInvariant, PTL

\* Whatever stage a launch fails, is cancelled or is killed in, an entry is forgotten only
\* when nothing is held, and a stop that failed leaves the worker that would not go and
\* nothing else (launch's catch block, stop() and #stop).
THEOREM NothingIsLeftBehind == Spec => []NothingLeftBehind
<1>1. ASSUME Inv PROVE NothingLeftBehind
  <2> SUFFICES ASSUME NEW p \in Launches
               PROVE  /\ ~entry[p].owned => Holds(tab[p]) = {}
                      /\ entry[p].stopping = "failed" => Holds(tab[p]) = {"worker"}
                      /\ entry[p].call = "rejected" => Holds(tab[p]) \subseteq {"worker"}
    BY DEF NothingLeftBehind
  <2>1. TabOK(tab[p]) /\ EntryOK(tab[p], entry[p], closed)
    BY <1>1 DEF Inv, LaunchOK
  <2>2. ~entry[p].owned => Blank(tab[p]) \/ Over(tab[p], TRUE)
    BY <2>1 DEF EntryOK, TabOK, Ended, Broken
  <2>3. entry[p].stopping = "failed" => Over(tab[p], FALSE)
    BY <2>1 DEF EntryOK, Broken
  <2>4. entry[p].call = "rejected" => Over(tab[p], TRUE) \/ Over(tab[p], FALSE)
    BY <2>1 DEF EntryOK, Ended, Broken
  <2>5. QED
    BY <2>2, <2>3, <2>4, HoldsNothing, HoldsWorker
<1>2. QED
  BY <1>1, SpawnerInvariant, PTL

\* A killAll that reports success has released everything, also what late launches held.
THEOREM ShutdownIsComplete == Spec => []DrainedMeansReleased
<1>1. ASSUME Inv PROVE DrainedMeansReleased
  <2> SUFFICES ASSUME closing = "drained", NEW p \in Launches PROVE Holds(tab[p]) = {}
    BY DEF DrainedMeansReleased
  <2>1. TabOK(tab[p]) /\ EntryOK(tab[p], entry[p], closed) /\ Owner
    BY <1>1 DEF Inv, LaunchOK
  <2>2. ~entry[p].owned
    BY <2>1 DEF Owner, EntryOK
  <2>3. Blank(tab[p]) \/ Over(tab[p], TRUE)
    BY <2>1, <2>2 DEF EntryOK, TabOK, Ended, Broken
  <2>4. QED
    BY <2>3, HoldsNothing
<1>2. QED
  BY <1>1, SpawnerInvariant, PTL

\* There is no gap between the launch that rejects and onFailure: whoever was told a port
\* whose session is gone, and did not ask for its end, has been told that too.
THEOREM LossIsReported == Spec => []SessionLossReported
<1>1. ASSUME Inv PROVE SessionLossReported
  <2> SUFFICES ASSUME NEW p \in Launches, entry[p].call = "returned",
                      entry[p].stopping = "no", tab[p].session # "open"
               PROVE  tab[p].reported
    BY DEF SessionLossReported
  <2>1. TabOK(tab[p]) /\ EntryOK(tab[p], entry[p], closed)
    BY <1>1 DEF Inv, LaunchOK
  <2>2. tab[p].outcome = "published" /\ tab[p].stop = "no"
    BY <2>1 DEF EntryOK
  <2>3. Serving(tab[p])
    BY <2>1, <2>2 DEF TabOK, Ended, Broken, Stopping
  <2>4. QED
    BY <2>3 DEF Serving
<1>2. QED
  BY <1>1, SpawnerInvariant, PTL

\* The launcher, its rollback and its owner do no more than the lease allows: nothing is
\* acquired once the end has begun, no caller is told a port after shutdown, and nothing is
\* forgotten while it is held.
THEOREM LeaseImplemented == Spec => ImplementsLease
<1>1. Init => Lease!LeaseInit
  <2> SUFFICES ASSUME Init PROVE Lease!LeaseInit
    OBVIOUS
  <2>1. \A p \in Launches : /\ LeaseOf(p) = "none" /\ Holds(tab[p]) = {}
                            /\ (entry[p].call = "returned") = FALSE
    BY IdleIs, HoldsNothing DEF Init, TabInit, LeaseOf, NoEntry
  <2>2. /\ [p \in Launches |-> LeaseOf(p)] = [p \in Launches |-> "none"]
        /\ [p \in Launches |-> Holds(tab[p])] = [p \in Launches |-> {}]
        /\ [p \in Launches |-> entry[p].call = "returned"] = [p \in Launches |-> FALSE]
    BY <2>1
  <2>3. ~closed = TRUE
    BY DEF Init
  <2>4. QED
    BY <2>2, <2>3 DEF Lease!LeaseInit
<1>2. Inv /\ [Next]_vars => [Lease!LeaseNext]_(Lease!leaseVars)
  BY EveryStep DEF Kept
<1>3. QED
  BY <1>1, <1>2, SpawnerInvariant, PTL DEF Spec, ImplementsLease, Lease!LeaseSpec

-----------------------------------------------------------------------------
(* How far a launch is.  Nothing takes it back: a retry is a second attempt, *)
(* a stage comes once in an attempt, and within a stage what is given up     *)
(* stays given up.                                                           *)

StageRank(s) ==
  IF s = "none" THEN 0 ELSE IF s = "connect" THEN 1 ELSE IF s = "stopping" THEN 10
  ELSE 1 + CHOOSE i \in 1..Len(Stages) : Stages[i] = s

OutcomeRank(o) == IF o = "none" THEN 0 ELSE IF o = "running" THEN 1 ELSE 2
SessionRank(s) == IF s = "closed" THEN 1 ELSE 0
WorkerRank(w) == IF w = "none" THEN 0 ELSE IF w \in LiveWorker THEN 1 ELSE IF w = "terminating" THEN 2 ELSE 3
StopRank(s) == IF s = "no" THEN 0 ELSE IF s = "shim" THEN 1 ELSE IF s = "worker" THEN 2 ELSE 3
Flag(b) == IF b THEN 1 ELSE 0

\* What a launch has given up in its stage, counted.
Given(t) ==
  OutcomeRank(t.outcome) + SessionRank(t.session) + WorkerRank(t.worker) + StopRank(t.stop) + Flag(t.aborted)

Further(t, u) ==
  \/ u.attempt > t.attempt
  \/ u.attempt = t.attempt /\ StageRank(u.stage) > StageRank(t.stage)

Later(t, u) == Further(t, u) \/ (u.attempt = t.attempt /\ u.stage = t.stage /\ Given(u) > Given(t))

\* What an entry has promised and settled, counted.
CallRank(c) == IF c = "none" THEN 0 ELSE IF c = "pending" THEN 1 ELSE 2
StoppingRank(s) == IF s = "no" THEN 0 ELSE IF s = "pending" THEN 1 ELSE 2
Said(e) == CallRank(e.call) + StoppingRank(e.stopping) + Flag(e.handle)

\* Whoever acts, a launch and its entry move forward or stay as they are; a step of the launch,
\* and a continuation of its owner, moves one of them.
OnlyForward ==
  [][\A p \in Launches :
       /\ tab'[p] = tab[p] \/ Later(tab[p], tab'[p])
       /\ entry'[p] = entry[p] \/ Said(entry'[p]) > Said(entry[p])
       /\ TabStep(p) \/ Continuation(p)
            => Later(tab[p], tab'[p]) \/ Said(entry'[p]) > Said(entry[p])]_vars

LEMMA StageRanks ==
  /\ StageRank("none") = 0 /\ StageRank("connect") = 1 /\ StageRank("initial-target") = 2
  /\ StageRank("sources") = 3 /\ StageRank("breakpoint-positions") = 4
  /\ StageRank("navigation") = 5 /\ StageRank("prime-stop") = 6
  /\ StageRank("worker-ready") = 7 /\ StageRank("shim-bind") = 8 /\ StageRank("ready") = 9
  /\ StageRank("stopping") = 10
<1>1. ASSUME NEW k \in 1..8 PROVE (CHOOSE i \in 1..Len(Stages) : Stages[i] = Stages[k]) = k
  <2>1. \A i \in 1..8 : Stages[i] = Stages[k] => i = k
    BY StageList
  <2>2. QED
    BY <2>1, StageList
<1>2. \A k \in 1..8 : Stages[k] \notin {"none", "connect", "stopping"}
  BY StageList
<1>3. \A k \in 1..8 : StageRank(Stages[k]) = 1 + k
  BY <1>1, <1>2 DEF StageRank
<1>4. StageRank("none") = 0 /\ StageRank("connect") = 1 /\ StageRank("stopping") = 10
  BY DEF StageRank
<1>5. QED
  BY <1>3, <1>4, StageList

LEMMA StageRankType ==
  ASSUME NEW s \in StageNames
  PROVE  StageRank(s) \in 0..10 /\ (s # "stopping" => StageRank(s) < 10)
  BY StageRanks DEF StageNames, SessionStages

LEMMA GivenRises ==
  ASSUME NEW t, NEW u,
         OutcomeRank(u.outcome) >= OutcomeRank(t.outcome),
         SessionRank(u.session) >= SessionRank(t.session),
         WorkerRank(u.worker) >= WorkerRank(t.worker),
         StopRank(u.stop) >= StopRank(t.stop),
         Flag(u.aborted) >= Flag(t.aborted),
         \/ SessionRank(u.session) > SessionRank(t.session)
         \/ WorkerRank(u.worker) > WorkerRank(t.worker)
         \/ StopRank(u.stop) > StopRank(t.stop)
         \/ Flag(u.aborted) > Flag(t.aborted)
  PROVE  Given(u) > Given(t)
<1>1. \A v : /\ OutcomeRank(v.outcome) \in Nat /\ SessionRank(v.session) \in Nat
             /\ WorkerRank(v.worker) \in Nat /\ StopRank(v.stop) \in Nat /\ Flag(v.aborted) \in Nat
  BY DEF OutcomeRank, SessionRank, WorkerRank, StopRank, Flag
<1>2. ASSUME NEW a \in Nat, NEW b \in Nat, NEW c \in Nat, NEW d \in Nat, NEW e \in Nat,
             NEW i \in Nat, NEW j \in Nat, NEW k \in Nat, NEW l \in Nat, NEW m \in Nat,
             i >= a, j >= b, k >= c, l >= d, m >= e, j > b \/ k > c \/ l > d \/ m > e
      PROVE  i + j + k + l + m > a + b + c + d + e
  BY <1>2
<1>3. QED
  BY <1>1, <1>2 DEF Given

\* A launch that is being stopped, or has been started over.
Ends(t, u) ==
  \/ u.stage = "stopping" /\ u.attempt = t.attempt
  \/ u.stage = "connect" /\ u.attempt = 2 /\ t.attempt = 1

LEMMA EndsFurther ==
  ASSUME NEW t \in TabType, NEW u, t.stage # "stopping", Ends(t, u)
  PROVE  Further(t, u)
<1>1. t.stage \in StageNames /\ t.attempt \in 0..2
  BY DEF TabType
<1>2. StageRank(t.stage) < StageRank("stopping")
  BY <1>1, StageRankType, StageRanks
<1>3. QED
  BY <1>1, <1>2 DEF Further, Ends

LEMMA FailureRank ==
  /\ OutcomeRank("failed") >= OutcomeRank("running")
  /\ OutcomeRank("rollback failed") >= OutcomeRank("running")
  BY DEF OutcomeRank

LEMMA FinishForward ==
  ASSUME NEW t \in TabType, NEW clean \in BOOLEAN, t.stage = "stopping",
         t.outcome \in {"running", "published"}, t.stop \in {"no", "shim", "worker"}
  PROVE  Ends(t, Finish(t, clean)) /\ Later(t, Finish(t, clean))
<1> DEFINE how == IF clean THEN "done" ELSE "failed"
           s == Spent(t, how)
<1>0. how \in Stops /\ StopRank(how) = 3
  BY Names DEF StopRank
<1>1. Finish(t, clean) =
        IF t.outcome = "published" THEN s
        ELSE IF ~clean THEN [s EXCEPT !.outcome = "rollback failed"]
        ELSE IF t.lost /\ ~t.aborted /\ t.attempt = 1 THEN Connecting(2)
        ELSE [s EXCEPT !.outcome = "failed"]
  BY DEF Finish, Spent
<1> HIDE DEF how
<1>2. /\ s \in TabType /\ s.session = "closed" /\ s.stop = how
      /\ s.outcome = t.outcome /\ s.aborted = t.aborted /\ s.worker = t.worker
  BY <1>0, SpentIs
<1>3. s.stage = t.stage /\ s.attempt = t.attempt
  BY DEF Spent, TabType
<1> HIDE DEF s
<1>4. ASSUME NEW u, u.session = "closed", u.stop = how, u.aborted = t.aborted, u.worker = t.worker,
             OutcomeRank(u.outcome) >= OutcomeRank(t.outcome), u.stage = t.stage, u.attempt = t.attempt
      PROVE  Ends(t, u) /\ Later(t, u)
  <2>1. SessionRank(u.session) >= SessionRank(t.session)
    BY <1>4 DEF SessionRank
  <2>2. StopRank(u.stop) > StopRank(t.stop) /\ StopRank(u.stop) >= StopRank(t.stop)
    BY <1>0, <1>4 DEF StopRank
  <2>3. WorkerRank(u.worker) >= WorkerRank(t.worker) /\ Flag(u.aborted) >= Flag(t.aborted)
    BY <1>4 DEF WorkerRank, Flag
  <2>4. Given(u) > Given(t)
    BY <1>4, <2>1, <2>2, <2>3, GivenRises
  <2>5. QED
    BY <1>4, <2>4 DEF Ends, Later
<1>5. CASE t.outcome = "published"
  <2>1. OutcomeRank(s.outcome) >= OutcomeRank(t.outcome)
    BY <1>2 DEF OutcomeRank
  <2>2. QED
    BY <1>1, <1>2, <1>3, <1>4, <1>5, <2>1
<1>6. ASSUME t.outcome = "running", NEW o \in {"failed", "rollback failed"},
             Finish(t, clean) = [s EXCEPT !.outcome = o]
      PROVE  Ends(t, Finish(t, clean)) /\ Later(t, Finish(t, clean))
  <2> DEFINE u == [s EXCEPT !.outcome = o]
  <2>1. /\ u.session = s.session /\ u.stop = s.stop /\ u.aborted = s.aborted
        /\ u.worker = s.worker /\ u.stage = s.stage /\ u.attempt = s.attempt /\ u.outcome = o
    BY <1>2 DEF TabType
  <2> HIDE DEF u
  <2>2. OutcomeRank(u.outcome) >= OutcomeRank(t.outcome)
    BY <1>6, <2>1, FailureRank, Zenon
  <2>3. Ends(t, u) /\ Later(t, u)
    BY <1>2, <1>3, <1>4, <2>1, <2>2
  <2>4. QED
    BY <1>6, <2>3 DEF u
<1>7. CASE t.outcome = "running" /\ clean /\ t.lost /\ ~t.aborted /\ t.attempt = 1
  <2>1. Finish(t, clean) = Connecting(2)
    BY <1>1, <1>7
  <2>2. Connecting(2).stage = "connect" /\ Connecting(2).attempt = 2
    BY ConnectingIs
  <2>3. Ends(t, Connecting(2)) /\ Later(t, Connecting(2))
    <3>1. Connecting(2).attempt > t.attempt
      BY <1>7, <2>2
    <3>2. QED
      BY <1>7, <2>2, <3>1 DEF Ends, Later, Further
  <2>4. QED
    BY <2>1, <2>3
<1>8. CASE t.outcome = "running" /\ ~(clean /\ t.lost /\ ~t.aborted /\ t.attempt = 1)
  <2>1. PICK o \in {"failed", "rollback failed"} : Finish(t, clean) = [s EXCEPT !.outcome = o]
    BY <1>1, <1>8
  <2>2. QED
    BY <1>6, <1>8, <2>1
<1>9. QED
  BY <1>5, <1>7, <1>8

LEMMA StopWorkerForward ==
  ASSUME NEW t \in TabType, t.stage = "stopping",
         t.outcome \in {"running", "published"}, t.stop \in {"no", "shim"}
  PROVE  Ends(t, StopWorker(t)) /\ Later(t, StopWorker(t))
<1>1. CASE t.worker \in {"none", "gone", "stuck"}
  <2>1. PICK clean \in BOOLEAN : StopWorker(t) = Finish(t, clean)
    BY <1>1 DEF StopWorker
  <2>2. QED
    BY <2>1, FinishForward
<1>2. CASE t.worker \notin {"none", "gone", "stuck"}
  <2> DEFINE w == Terminate(t)
             v == [w EXCEPT !.stop = "worker"]
  <2>1. /\ w \in TabType /\ w.worker = IF t.worker \in LiveWorker THEN "terminating" ELSE t.worker
        /\ w.stage = t.stage /\ w.outcome = t.outcome /\ w.attempt = t.attempt
        /\ w.aborted = t.aborted /\ w.session = t.session
    BY TerminateIs
  <2> HIDE DEF w
  <2>2. /\ v.stop = "worker" /\ v.worker = w.worker /\ v.stage = w.stage /\ v.outcome = w.outcome
        /\ v.attempt = w.attempt /\ v.aborted = w.aborted /\ v.session = w.session
    BY <2>1 DEF TabType
  <2>3. StopWorker(t) = v
    BY <1>2 DEF StopWorker, w
  <2> HIDE DEF v
  <2>4. StopRank(v.stop) > StopRank(t.stop) /\ StopRank(v.stop) >= StopRank(t.stop)
    BY <2>2 DEF StopRank
  <2>5. WorkerRank(v.worker) >= WorkerRank(t.worker)
    BY <2>1, <2>2 DEF WorkerRank, LiveWorker
  <2>6. /\ OutcomeRank(v.outcome) >= OutcomeRank(t.outcome)
        /\ SessionRank(v.session) >= SessionRank(t.session) /\ Flag(v.aborted) >= Flag(t.aborted)
    BY <2>1, <2>2 DEF OutcomeRank, SessionRank, Flag
  <2>7. Given(v) > Given(t)
    BY <2>4, <2>5, <2>6, GivenRises
  <2>8. QED
    BY <2>1, <2>2, <2>3, <2>7 DEF Ends, Later
<1>3. QED
  BY <1>1, <1>2

LEMMA BeginStopEnds ==
  ASSUME NEW t \in TabType, t.outcome \in {"running", "published"}, t.stop = "no"
  PROVE  Ends(t, BeginStop(t))
<1>1. CASE t.shim = "bound"
  <2>1. BeginStop(t) = [t EXCEPT !.stage = "stopping", !.shim = "closing", !.stop = "shim"]
    BY <1>1 DEF BeginStop
  <2>2. BeginStop(t).stage = "stopping" /\ BeginStop(t).attempt = t.attempt
    BY <2>1 DEF TabType
  <2>3. QED
    BY <2>2 DEF Ends
<1>2. CASE t.shim # "bound"
  <2> DEFINE v == [t EXCEPT !.stage = "stopping"]
  <2>1. v \in TabType /\ v.stage = "stopping"
    BY Names DEF TabType
  <2>2. v.outcome = t.outcome /\ v.attempt = t.attempt /\ v.stop = t.stop
    BY DEF TabType
  <2>3. BeginStop(t) = StopWorker(v)
    BY <1>2 DEF BeginStop
  <2> HIDE DEF v
  <2>4. Ends(v, StopWorker(v))
    BY <2>1, <2>2, StopWorkerForward
  <2>5. QED
    BY <2>2, <2>3, <2>4 DEF Ends
<1>3. QED
  BY <1>1, <1>2

LEMMA RollbackEnds ==
  ASSUME NEW t \in TabType, t.outcome = "running", t.stop = "no", NEW lost \in BOOLEAN
  PROVE  Ends(t, Rollback(t, lost))
<1> DEFINE v == [t EXCEPT !.session = "closed", !.lost = lost]
<1>1. v \in TabType
  BY Names DEF TabType
<1>2. v.outcome = t.outcome /\ v.attempt = t.attempt /\ v.stop = t.stop
  BY DEF TabType
<1>3. Rollback(t, lost) = BeginStop(v)
  BY DEF Rollback
<1> HIDE DEF v
<1>4. Ends(v, BeginStop(v))
  BY <1>1, <1>2, BeginStopEnds
<1>5. QED
  BY <1>2, <1>3, <1>4 DEF Ends

-----------------------------------------------------------------------------
(* The steps of a launch take it forward *)

\* Once a launch has been told to end, what it awaits of its session and of its worker settles.
Heeded(t) ==
  t.outcome = "running" /\ t.aborted /\ t.stage \notin {"connect", "stopping"}
    => t.session = "closed" /\ t.worker \notin LiveWorker

TabForward(p) == Later(tab[p], tab'[p]) /\ (Heeded(tab[p]) => Heeded(tab'[p]))

LEMMA StepForward ==
  ASSUME Types, NEW p \in Launches, NEW u, tab' = [tab EXCEPT ![p] = u],
         Later(tab[p], u), Heeded(tab[p]) => Heeded(u)
  PROVE  TabForward(p)
<1>1. tab'[p] = u
  BY DEF Types
<1>2. QED
  BY <1>1 DEF TabForward

\* A launch that is stopped or started over awaits nothing of before.
LEMMA EndsHeeded ==
  ASSUME NEW t, NEW u, Ends(t, u)
  PROVE  Heeded(u)
  BY DEF Ends, Heeded

LEMMA FurtherVia ==
  ASSUME NEW t, NEW v, NEW u, v.stage = t.stage, v.attempt = t.attempt, Further(v, u)
  PROVE  Later(t, u)
  BY DEF Further, Later

LEMMA LaterVia ==
  ASSUME NEW t, NEW v, NEW u, v.stage = t.stage, v.attempt = t.attempt, Given(v) >= Given(t), Later(v, u)
  PROVE  Later(t, u)
<1>1. Given(t) \in Nat /\ Given(v) \in Nat /\ Given(u) \in Nat
  BY DEF Given, OutcomeRank, SessionRank, WorkerRank, StopRank, Flag
<1>2. QED
  BY <1>1 DEF Further, Later

\* Within a stage the session is lost, or the worker comes nearer to its end.
LEMMA Within ==
  ASSUME NEW t, NEW u, u.stage = t.stage, u.attempt = t.attempt, u.outcome = t.outcome,
         u.aborted = t.aborted, u.stop = t.stop,
         \/ u.session = t.session /\ u.worker # t.worker
         \/ u.session = "closed" /\ t.session # "closed" /\ u.worker = t.worker,
         \/ u.worker = t.worker
         \/ t.worker \in LiveWorker /\ u.worker = "terminating"
         \/ t.worker = "terminating" /\ u.worker \in {"gone", "stuck"}
  PROVE  Later(t, u) /\ (Heeded(t) => Heeded(u)) /\ Given(u) >= Given(t)
<1>1. Given(u) > Given(t)
  <2>1. /\ OutcomeRank(u.outcome) >= OutcomeRank(t.outcome) /\ StopRank(u.stop) >= StopRank(t.stop)
        /\ Flag(u.aborted) >= Flag(t.aborted)
    BY DEF OutcomeRank, StopRank, Flag
  <2>2. SessionRank(u.session) >= SessionRank(t.session)
    BY DEF SessionRank
  <2>3. WorkerRank(u.worker) >= WorkerRank(t.worker)
    BY DEF WorkerRank, LiveWorker
  <2>4. \/ SessionRank(u.session) > SessionRank(t.session)
        \/ WorkerRank(u.worker) > WorkerRank(t.worker)
    BY DEF SessionRank, WorkerRank, LiveWorker
  <2>5. QED
    BY <2>1, <2>2, <2>3, <2>4, GivenRises
<1>2. Given(t) \in Nat /\ Given(u) \in Nat
  BY DEF Given, OutcomeRank, SessionRank, WorkerRank, StopRank, Flag
<1>3. Later(t, u) /\ Given(u) >= Given(t)
  BY <1>1, <1>2 DEF Later
<1>4. Heeded(t) => Heeded(u)
  BY DEF Heeded, LiveWorker
<1>5. QED
  BY <1>3, <1>4

LEMMA CheckpointForward ==
  ASSUME NEW t \in TabType, t.outcome = "running", t.stop = "no", t.stage # "stopping",
         NEW next, StageRank(next) > StageRank(t.stage)
  PROVE  Further(t, Checkpoint(t, next)) /\ Heeded(Checkpoint(t, next))
<1>1. CASE t.aborted \/ t.session # "open"
  <2>1. Checkpoint(t, next) = Rollback(t, FALSE)
    BY <1>1 DEF Checkpoint
  <2>2. Ends(t, Rollback(t, FALSE))
    BY RollbackEnds
  <2>3. QED
    BY <2>1, <2>2, EndsFurther, EndsHeeded
<1>2. CASE ~t.aborted /\ t.session = "open"
  <2> DEFINE a == IF next = "prime-stop" THEN "live" ELSE t.adapter
             w == IF next = "worker-ready" THEN "starting" ELSE t.worker
             s == IF next = "shim-bind" THEN "binding" ELSE t.shim
             o == IF next = "ready" THEN "published" ELSE t.outcome
             v == [t EXCEPT !.stage = next, !.adapter = a, !.worker = w, !.shim = s, !.outcome = o]
  <2>1. Checkpoint(t, next) = v
    BY <1>2 DEF Checkpoint
  <2> HIDE DEF a, w, s, o
  <2>2. v.stage = next /\ v.attempt = t.attempt /\ v.aborted = t.aborted
    BY DEF TabType
  <2> HIDE DEF v
  <2>3. QED
    BY <1>2, <2>1, <2>2 DEF Further, Heeded
<1>3. QED
  BY <1>1, <1>2

LEMMA AwaitingAt ==
  ASSUME Types, NEW p \in Launches, TabOK(tab[p]), NEW stage, stage # "stopping", Awaiting(p, stage)
  PROVE  /\ tab[p] \in TabType /\ tab[p].outcome = "running" /\ tab[p].stage = stage
         /\ tab[p].stop = "no" /\ tab[p].attempt \in {1, 2}
<1> DEFINE t == tab[p]
<1>1. t \in TabType /\ TabOK(t) /\ t.outcome = "running" /\ t.stage = stage
  BY DEF Types, Awaiting
<1> HIDE DEF t
<1>2. Acquiring(t)
  BY <1>1, AwaitingIs DEF RollingBack, Stopping
<1>3. QED
  BY <1>1, <1>2 DEF Acquiring, t

LEMMA AfterFurther ==
  ASSUME NEW stage \in SessionStages
  PROVE  StageRank(After(stage)) > StageRank(stage) /\ stage # "stopping"
  BY NextStage, StageRanks DEF SessionStages

\* What an await of the launcher leads to, when nothing else of the record changes than what
\* it has brought.
LEMMA AwaitForward ==
  ASSUME Types, NEW p \in Launches, TabOK(tab[p]), NEW stage, stage # "stopping", Awaiting(p, stage),
         NEW v \in TabType, v.outcome = "running", v.stage = stage, v.attempt = tab[p].attempt,
         v.stop = "no", NEW u, Step(p, u),
         \/ \E next : u = Checkpoint(v, next) /\ StageRank(next) > StageRank(stage)
         \/ \E lost \in BOOLEAN : u = Rollback(v, lost)
  PROVE  TabForward(p)
<1>1. tab[p].stage = stage
  BY AwaitingAt
<1>2. Further(v, u) /\ Heeded(u)
  <2>1. CASE \E next : u = Checkpoint(v, next) /\ StageRank(next) > StageRank(stage)
    BY <2>1, CheckpointForward
  <2>2. CASE \E lost \in BOOLEAN : u = Rollback(v, lost)
    BY <2>2, RollbackEnds, EndsFurther, EndsHeeded
  <2>3. QED
    BY <2>1, <2>2
<1>3. Later(tab[p], u)
  BY <1>1, <1>2, FurtherVia
<1>4. tab' = [tab EXCEPT ![p] = u]
  BY DEF Step
<1>5. QED
  BY <1>2, <1>3, <1>4, StepForward

LEMMA ConnectedForward ==
  ASSUME Types, NEW p \in Launches, TabOK(tab[p]), Connected(p)
  PROVE  TabForward(p)
<1> DEFINE t == tab[p]
           v == [t EXCEPT !.session = "open"]
           u == Checkpoint(v, "initial-target")
<1>1. Awaiting(p, "connect") /\ Step(p, u)
  BY DEF Connected
<1>2. t \in TabType /\ t.outcome = "running" /\ t.stage = "connect" /\ t.stop = "no"
  BY <1>1, AwaitingAt
<1> HIDE DEF t
<1>3. v \in TabType
  BY <1>2, Names DEF TabType
<1>4. v.outcome = t.outcome /\ v.attempt = t.attempt /\ v.stage = t.stage /\ v.stop = t.stop
  BY <1>2 DEF TabType
<1> HIDE DEF v
<1>5. u = Checkpoint(v, "initial-target") /\ StageRank("initial-target") > StageRank("connect")
  BY StageRanks
<1> HIDE DEF u
<1>6. QED
  BY <1>1, <1>2, <1>3, <1>4, <1>5, AwaitForward DEF t

LEMMA ConnectFailsForward ==
  ASSUME Types, NEW p \in Launches, TabOK(tab[p]), ConnectFails(p)
  PROVE  TabForward(p)
<1> DEFINE t == tab[p]
           u == [t EXCEPT !.outcome = "failed", !.stage = "stopping"]
<1>1. Awaiting(p, "connect") /\ tab' = [tab EXCEPT ![p] = u]
  BY DEF ConnectFails, Step
<1>2. t \in TabType /\ t.stage = "connect"
  BY <1>1, AwaitingAt
<1> HIDE DEF t
<1>3. u.stage = "stopping" /\ u.attempt = t.attempt
  BY <1>2 DEF TabType
<1> HIDE DEF u
<1>4. Ends(t, u)
  BY <1>3 DEF Ends
<1>5. Later(t, u) /\ Heeded(u)
  BY <1>2, <1>4, EndsFurther, EndsHeeded DEF Later
<1>6. QED
  BY <1>1, <1>5, StepForward DEF t

\* The awaits of the session bring nothing but their end.
LEMMA SessionAwaitForward ==
  ASSUME Types, NEW p \in Launches, TabOK(tab[p]), SessionSettles(p) \/ SessionRejects(p) \/ TargetLost(p)
  PROVE  TabForward(p)
<1> DEFINE t == tab[p]
<1>1. PICK stage \in SessionStages :
        /\ Awaiting(p, stage)
        /\ \/ Step(p, Checkpoint(t, After(stage)))
           \/ \E lost \in BOOLEAN : Step(p, Rollback(t, lost))
  BY DEF SessionSettles, SessionRejects, TargetLost, SessionStages
<1>2. StageRank(After(stage)) > StageRank(stage) /\ stage # "stopping"
  BY AfterFurther
<1>3. t \in TabType /\ t.outcome = "running" /\ t.stage = stage /\ t.stop = "no"
  BY <1>1, <1>2, AwaitingAt
<1> HIDE DEF t
<1>4. CASE Step(p, Checkpoint(t, After(stage)))
  BY <1>1, <1>2, <1>3, <1>4, AwaitForward DEF t
<1>5. ASSUME NEW lost \in BOOLEAN, Step(p, Rollback(t, lost)) PROVE TabForward(p)
  BY <1>1, <1>2, <1>3, <1>5, AwaitForward DEF t
<1>6. QED
  BY <1>1, <1>4, <1>5

LEMMA WorkerListensForward ==
  ASSUME Types, NEW p \in Launches, TabOK(tab[p]), WorkerListens(p)
  PROVE  TabForward(p)
<1> DEFINE t == tab[p]
           v == [t EXCEPT !.worker = "listening"]
           u == Checkpoint(v, "shim-bind")
<1>1. Awaiting(p, "worker-ready") /\ Step(p, u)
  BY DEF WorkerListens
<1>2. t \in TabType /\ t.outcome = "running" /\ t.stage = "worker-ready" /\ t.stop = "no"
  BY <1>1, AwaitingAt
<1> HIDE DEF t
<1>3. v \in TabType
  BY <1>2, Names DEF TabType
<1>4. v.outcome = t.outcome /\ v.attempt = t.attempt /\ v.stage = t.stage /\ v.stop = t.stop
  BY <1>2 DEF TabType
<1> HIDE DEF v
<1>5. u = Checkpoint(v, "shim-bind") /\ StageRank("shim-bind") > StageRank("worker-ready")
  BY StageRanks
<1> HIDE DEF u
<1>6. QED
  BY <1>1, <1>2, <1>3, <1>4, <1>5, AwaitForward DEF t

LEMMA ShimBindsForward ==
  ASSUME Types, NEW p \in Launches, TabOK(tab[p]), ShimBinds(p)
  PROVE  TabForward(p)
<1> DEFINE t == tab[p]
           v == [t EXCEPT !.shim = "bound"]
           u == Checkpoint(v, "ready")
<1>1. Awaiting(p, "shim-bind") /\ Step(p, u)
  BY DEF ShimBinds
<1>2. t \in TabType /\ t.outcome = "running" /\ t.stage = "shim-bind" /\ t.stop = "no"
  BY <1>1, AwaitingAt
<1> HIDE DEF t
<1>3. v \in TabType
  BY <1>2, Names DEF TabType
<1>4. v.outcome = t.outcome /\ v.attempt = t.attempt /\ v.stage = t.stage /\ v.stop = t.stop
  BY <1>2 DEF TabType
<1> HIDE DEF v
<1>5. u = Checkpoint(v, "ready") /\ StageRank("ready") > StageRank("shim-bind")
  BY StageRanks
<1> HIDE DEF u
<1>6. QED
  BY <1>1, <1>2, <1>3, <1>4, <1>5, AwaitForward DEF t

LEMMA ShimRefusedForward ==
  ASSUME Types, NEW p \in Launches, TabOK(tab[p]), ShimRefused(p)
  PROVE  TabForward(p)
<1> DEFINE t == tab[p]
           v == [t EXCEPT !.shim = "none"]
<1>1. Awaiting(p, "shim-bind") /\ Step(p, Rollback(v, FALSE))
  BY DEF ShimRefused
<1>2. t \in TabType /\ t.outcome = "running" /\ t.stage = "shim-bind" /\ t.stop = "no"
  BY <1>1, AwaitingAt
<1> HIDE DEF t
<1>3. v \in TabType
  BY <1>2, Names DEF TabType
<1>4. v.outcome = t.outcome /\ v.attempt = t.attempt /\ v.stage = t.stage /\ v.stop = t.stop
  BY <1>2 DEF TabType
<1> HIDE DEF v
<1>5. QED
  BY <1>1, <1>2, <1>3, <1>4, AwaitForward DEF t

LEMMA SessionLostForward ==
  ASSUME Types, NEW p \in Launches, SessionLost(p)
  PROVE  TabForward(p)
<1> DEFINE t == tab[p]
           u == [t EXCEPT !.session = "closed", !.reported = @ \/ t.stage = "ready"]
<1>1. t \in TabType /\ t.session = "open" /\ tab' = [tab EXCEPT ![p] = u]
  BY DEF Types, SessionLost, Step
<1> HIDE DEF t
<1>2. /\ u.session = "closed" /\ u.stage = t.stage /\ u.outcome = t.outcome
      /\ u.attempt = t.attempt /\ u.aborted = t.aborted /\ u.worker = t.worker /\ u.stop = t.stop
  BY <1>1 DEF TabType
<1> HIDE DEF u
<1>3. Later(t, u) /\ (Heeded(t) => Heeded(u))
  BY <1>1, <1>2, Within
<1>4. QED
  BY <1>1, <1>3, StepForward DEF t

LEMMA WorkerFailsForward ==
  ASSUME Types, NEW p \in Launches, TabOK(tab[p]), WorkerFails(p)
  PROVE  TabForward(p)
<1> DEFINE t == tab[p]
           w == Terminate(t)
           u == [w EXCEPT !.reported = @ \/ t.stage = "ready"]
<1>1. /\ t \in TabType /\ t.worker \in LiveWorker
      /\ Step(p, IF Awaiting(p, "worker-ready") THEN Rollback(w, FALSE) ELSE u)
  BY DEF Types, WorkerFails
<1> HIDE DEF t
<1>2. /\ w \in TabType /\ w.worker = "terminating" /\ w.stage = t.stage /\ w.outcome = t.outcome
      /\ w.attempt = t.attempt /\ w.aborted = t.aborted /\ w.session = t.session /\ w.stop = t.stop
  BY <1>1, TerminateIs
<1> HIDE DEF w
<1>3. CASE Awaiting(p, "worker-ready")
  <2>1. Step(p, Rollback(w, FALSE))
    BY <1>1, <1>3
  <2>2. t.stage = "worker-ready" /\ t.outcome = "running" /\ t.stop = "no"
    BY <1>3, AwaitingAt DEF t
  <2>3. QED
    BY <1>2, <1>3, <2>1, <2>2, AwaitForward DEF t
<1>4. CASE ~Awaiting(p, "worker-ready")
  <2>1. tab' = [tab EXCEPT ![p] = u]
    BY <1>1, <1>4 DEF Step
  <2>2. /\ u.worker = w.worker /\ u.stage = w.stage /\ u.outcome = w.outcome
        /\ u.attempt = w.attempt /\ u.aborted = w.aborted /\ u.session = w.session /\ u.stop = w.stop
    BY <1>2 DEF TabType
  <2> HIDE DEF u
  <2>3. u.worker # t.worker
    BY <1>1, <1>2, <2>2 DEF LiveWorker
  <2>4. Later(t, u) /\ (Heeded(t) => Heeded(u))
    BY <1>1, <1>2, <2>2, <2>3, Within
  <2>5. QED
    BY <2>1, <2>4, StepForward DEF t
<1>5. QED
  BY <1>3, <1>4

\* The end of terminate(), in whichever way: a stop that has awaited it ends, a launch that
\* has awaited the worker rolls back.
LEMMA WorkerEndForward ==
  ASSUME Types, NEW p \in Launches, TabOK(tab[p]), tab[p].worker = "terminating",
         NEW w \in {"gone", "stuck"}, NEW v, v = [tab[p] EXCEPT !.worker = w],
         NEW u, tab' = [tab EXCEPT ![p] = u],
         \/ v.stop = "worker" /\ \E clean \in BOOLEAN : u = Finish(v, clean)
         \/ Awaiting(p, "worker-ready") /\ Step(p, u) /\ u = Rollback(v, FALSE)
         \/ u = v
  PROVE  TabForward(p)
<1> DEFINE t == tab[p]
<1>1. t \in TabType /\ t.worker = "terminating" /\ TabOK(t) /\ v = [t EXCEPT !.worker = w]
  BY DEF Types
<1> HIDE DEF t
<1>2. w \in Workers
  BY Names
<1>3. v \in TabType /\ v.worker = w
  BY <1>1, <1>2 DEF TabType
<1>4. /\ v.stage = t.stage /\ v.outcome = t.outcome /\ v.attempt = t.attempt
      /\ v.aborted = t.aborted /\ v.session = t.session /\ v.stop = t.stop
  BY <1>1 DEF TabType
<1>5. Later(t, v) /\ (Heeded(t) => Heeded(v)) /\ Given(v) >= Given(t)
  BY <1>1, <1>3, <1>4, Within
<1>6. ASSUME v.stop = "worker", NEW clean \in BOOLEAN, u = Finish(v, clean) PROVE TabForward(p)
  <2>1. t.stage = "stopping" /\ t.outcome \in {"running", "published"}
    BY <1>1, <1>4, <1>6, WorkerAt DEF RollingBack, Stopping, Serving
  <2>2. Ends(v, u) /\ Later(v, u)
    BY <1>3, <1>4, <1>6, <2>1, FinishForward
  <2>3. Later(t, u) /\ Heeded(u)
    BY <1>4, <1>5, <2>2, LaterVia, EndsHeeded
  <2>4. QED
    BY <2>3, StepForward DEF t
<1>7. CASE Awaiting(p, "worker-ready") /\ Step(p, u) /\ u = Rollback(v, FALSE)
  <2>1. t.stage = "worker-ready" /\ t.outcome = "running" /\ t.stop = "no"
    BY <1>7, AwaitingAt DEF t
  <2>2. QED
    BY <1>3, <1>4, <1>7, <2>1, AwaitForward DEF t
<1>8. CASE u = v
  BY <1>5, <1>8, StepForward DEF t
<1>9. QED
  BY <1>6, <1>7, <1>8

LEMMA WorkerEndsForward ==
  ASSUME Types, NEW p \in Launches, TabOK(tab[p]), WorkerExits(p) \/ WorkerSticks(p)
  PROVE  TabForward(p)
<1>1. CASE WorkerExits(p)
  <2> DEFINE v == [tab[p] EXCEPT !.worker = "gone"]
             u == IF v.stop = "worker" THEN Finish(v, TRUE)
                  ELSE IF Awaiting(p, "worker-ready") THEN Rollback(v, FALSE) ELSE v
  <2>1. tab[p].worker = "terminating" /\ Step(p, u) /\ tab' = [tab EXCEPT ![p] = u]
    BY <1>1 DEF WorkerExits, Step
  <2>2. \/ v.stop = "worker" /\ u = Finish(v, TRUE)
        \/ Awaiting(p, "worker-ready") /\ u = Rollback(v, FALSE)
        \/ u = v
    OBVIOUS
  <2> HIDE DEF u
  <2>3. \E w \in {"gone", "stuck"} : v = [tab[p] EXCEPT !.worker = w]
    OBVIOUS
  <2> HIDE DEF v
  <2>4. QED
    BY <2>1, <2>2, <2>3, WorkerEndForward
<1>2. CASE WorkerSticks(p)
  <2> DEFINE v == [tab[p] EXCEPT !.worker = "stuck"]
             u == IF v.stop = "worker" THEN Finish(v, FALSE) ELSE v
  <2>1. tab[p].worker = "terminating" /\ tab' = [tab EXCEPT ![p] = u]
    BY <1>2 DEF WorkerSticks
  <2>2. (v.stop = "worker" /\ u = Finish(v, FALSE)) \/ u = v
    OBVIOUS
  <2> HIDE DEF u
  <2>3. \E w \in {"gone", "stuck"} : v = [tab[p] EXCEPT !.worker = w]
    OBVIOUS
  <2> HIDE DEF v
  <2>4. QED
    BY <2>1, <2>2, <2>3, WorkerEndForward
<1>3. QED
  BY <1>1, <1>2

LEMMA ShimClosesForward ==
  ASSUME Types, NEW p \in Launches, TabOK(tab[p]), ShimCloses(p)
  PROVE  TabForward(p)
<1> DEFINE t == tab[p]
           v == [t EXCEPT !.shim = "closed"]
           u == StopWorker(v)
<1>1. t \in TabType /\ TabOK(t) /\ t.stop = "shim" /\ tab' = [tab EXCEPT ![p] = u]
  BY DEF Types, ShimCloses, Step
<1> HIDE DEF t, u
<1>2. t.stage = "stopping" /\ t.outcome \in {"running", "published"}
  BY <1>1 DEF TabOK, Ended, Broken, Blank, Acquiring, RollingBack, Serving, Stopping
<1>3. v \in TabType
  BY <1>1, Names DEF TabType
<1>4. /\ v.stage = t.stage /\ v.outcome = t.outcome /\ v.attempt = t.attempt
      /\ v.aborted = t.aborted /\ v.session = t.session /\ v.worker = t.worker /\ v.stop = t.stop
  BY <1>1 DEF TabType
<1> HIDE DEF v
<1>5. Ends(v, u) /\ Later(v, u)
  BY <1>1, <1>2, <1>3, <1>4, StopWorkerForward DEF u
<1>6. Given(v) >= Given(t)
  BY <1>4 DEF Given, OutcomeRank, SessionRank, WorkerRank, StopRank, Flag
<1>7. Later(t, u) /\ Heeded(u)
  BY <1>4, <1>5, <1>6, LaterVia, EndsHeeded
<1>8. QED
  BY <1>1, <1>7, StepForward DEF t

LEMMA TabStepForward ==
  ASSUME Types, NEW p \in Launches, TabOK(tab[p]), TabStep(p)
  PROVE  TabForward(p)
  BY ConnectedForward, ConnectFailsForward, SessionAwaitForward, WorkerListensForward,
     ShimBindsForward, ShimRefusedForward, SessionLostForward, WorkerFailsForward,
     WorkerEndsForward, ShimClosesForward DEF TabStep

-----------------------------------------------------------------------------
(* The steps of the owner, and what lets a stop come to its end *)

\* A launch that was told to end is being stopped, and heeds it.
Bidden(p) ==
  /\ tab[p].outcome = "none" => tab[p].attempt = 0
  /\ tab[p].aborted => entry[p].stopping # "no"
  /\ Heeded(tab[p])

\* Every stop that killAll awaits has begun.
Begun == \A p \in joined : entry[p].stopping # "no"

ProgressInv == Inv /\ (\A p \in Launches : Bidden(p)) /\ Begun

Progress(p) == Later(tab[p], tab'[p]) \/ Said(entry'[p]) > Said(entry[p])

\* What any step does to a launch and its entry.
Moved(p) ==
  /\ tab'[p] = tab[p] \/ Later(tab[p], tab'[p])
  /\ entry'[p] = entry[p] \/ Said(entry'[p]) > Said(entry[p])
  /\ Bidden(p)'
  /\ entry[p].stopping # "no" => entry'[p].stopping # "no"

LEMMA Unmoved ==
  ASSUME NEW p \in Launches, Bidden(p), tab'[p] = tab[p], entry'[p] = entry[p]
  PROVE  Moved(p)
  BY DEF Moved, Bidden, Heeded

\* A step of the entry alone.
LEMMA EntryMoved ==
  ASSUME ProgressInv, NEW p \in Launches, UNCHANGED tabVars, NEW e, SetEntry(p, e),
         Said(e) > Said(entry[p]), entry[p].stopping # "no" => e.stopping # "no"
  PROVE  Moved(p) /\ Progress(p)
<1>1. entry'[p] = e /\ tab' = tab /\ Bidden(p)
  BY DEF SetEntry, ProgressInv, Inv, Types, tabVars
<1>2. Bidden(p)'
  BY <1>1 DEF Bidden, Heeded
<1>3. QED
  BY <1>1, <1>2 DEF Moved, Progress

\* A step of the launch alone, with its signal as it is.
LEMMA TabMoved ==
  ASSUME ProgressInv, NEW p \in Launches, UNCHANGED spawnerVars, NEW u, tab' = [tab EXCEPT ![p] = u],
         Later(tab[p], u), Heeded(u), u.outcome # "none", u.aborted => tab[p].aborted
  PROVE  Moved(p) /\ Progress(p)
<1>1. tab'[p] = u /\ entry' = entry /\ Bidden(p)
  BY DEF ProgressInv, Inv, Types, spawnerVars
<1>2. Bidden(p)'
  <2>1. /\ u.outcome = "none" => u.attempt = 0
        /\ u.aborted => entry[p].stopping # "no"
        /\ Heeded(u)
    BY <1>1 DEF Bidden
  <2>2. QED
    BY <1>1, <2>1 DEF Bidden, Heeded
<1>3. QED
  BY <1>1, <1>2 DEF Moved, Progress

LEMMA LaunchMoved ==
  ASSUME ProgressInv, NEW p \in Launches, Launch(p)
  PROVE  Moved(p)
<1> DEFINE e == [NoEntry EXCEPT !.owned = TRUE, !.call = "pending"]
<1>1. UNCHANGED tabVars /\ SetEntry(p, e) /\ entry[p].call = "none"
  BY DEF Launch
<1>2. entry[p].stopping = "no" /\ ~entry[p].handle
  BY <1>1 DEF ProgressInv, Inv, LaunchOK, EntryOK
<1>3. e.call = "pending" /\ e.stopping = "no" /\ e.handle = FALSE
  BY DEF NoEntry
<1> HIDE DEF e
<1>4. Said(e) > Said(entry[p])
  BY <1>1, <1>2, <1>3 DEF Said, CallRank, StoppingRank, Flag
<1>5. QED
  BY <1>1, <1>2, <1>4, EntryMoved

LEMMA BeginLaunchMoved ==
  ASSUME ProgressInv, NEW p \in Launches, BeginLaunch(p)
  PROVE  Moved(p) /\ Progress(p)
<1> DEFINE t == tab[p]
<1>1. /\ t \in TabType /\ t.outcome = "none" /\ t.stage = "none" /\ t.attempt = 0
      /\ UNCHANGED spawnerVars
      /\ tab' = [tab EXCEPT ![p] = IF closed \/ t.aborted
                                   THEN [t EXCEPT !.outcome = "failed", !.stage = "stopping"]
                                   ELSE Connecting(1)]
  BY DEF BeginLaunch, SetTab, ProgressInv, Bidden, Inv, LaunchOK, TabOK, Ended, Broken
<1> HIDE DEF t
<1>2. CASE closed \/ t.aborted
  <2> DEFINE u == [t EXCEPT !.outcome = "failed", !.stage = "stopping"]
  <2>1. /\ u.stage = "stopping" /\ u.attempt = t.attempt /\ u.outcome = "failed"
        /\ u.aborted = t.aborted
    BY <1>1 DEF TabType
  <2>2. tab' = [tab EXCEPT ![p] = u]
    BY <1>1, <1>2
  <2> HIDE DEF u
  <2>3. Ends(t, u)
    BY <2>1 DEF Ends
  <2>4. Later(t, u) /\ Heeded(u)
    BY <1>1, <2>3, EndsFurther, EndsHeeded DEF Later
  <2>5. QED
    BY <1>1, <2>1, <2>2, <2>4, TabMoved DEF t
<1>3. CASE ~(closed \/ t.aborted)
  <2> DEFINE u == Connecting(1)
  <2>1. /\ u.stage = "connect" /\ u.attempt = 1 /\ u.outcome = "running" /\ u.aborted = FALSE
    BY ConnectingIs
  <2>2. tab' = [tab EXCEPT ![p] = u]
    BY <1>1, <1>3
  <2> HIDE DEF u
  <2>3. Later(t, u) /\ Heeded(u)
    BY <1>1, <2>1 DEF Later, Further, Heeded
  <2>4. QED
    BY <1>1, <2>1, <2>2, <2>3, TabMoved DEF t
<1>4. QED
  BY <1>2, <1>3

LEMMA StopHandleMoved ==
  ASSUME ProgressInv, NEW p \in Launches, StopHandle(p)
  PROVE  Moved(p) /\ Progress(p)
<1> DEFINE t == tab[p]
           u == BeginStop(t)
<1>1. /\ t \in TabType /\ TabOK(t) /\ t.outcome = "published" /\ t.stop = "no"
      /\ UNCHANGED spawnerVars /\ tab' = [tab EXCEPT ![p] = u]
  BY DEF StopHandle, SetTab, ProgressInv, Inv, LaunchOK
<1> HIDE DEF t
<1>2. Serving(t)
  BY <1>1 DEF TabOK, Ended, Broken, Stopping
<1>3. t.stage # "stopping" /\ Stoppable(t)
  BY <1>2 DEF Serving, Stoppable
<1>4. Ends(t, u)
  BY <1>1, BeginStopEnds
<1>5. u.outcome = "published" /\ u.aborted = t.aborted
  BY <1>1, <1>3, BeginStopIs DEF Ending
<1> HIDE DEF u
<1>6. Later(t, u) /\ Heeded(u)
  BY <1>1, <1>3, <1>4, EndsFurther, EndsHeeded DEF Later
<1>7. QED
  BY <1>1, <1>5, <1>6, TabMoved DEF t

LEMMA LaunchReturnsMoved ==
  ASSUME ProgressInv, NEW p \in Launches, LaunchReturns(p)
  PROVE  Moved(p) /\ Progress(p)
<1> DEFINE e == entry[p]
           h == [e EXCEPT !.handle = TRUE]
           s == [h EXCEPT !.stopping = "pending"]
           r == [h EXCEPT !.call = "returned"]
<1>1. /\ e \in EntryType /\ e.call = "pending" /\ ~e.handle /\ UNCHANGED tabVars
      /\ SetEntry(p, IF h.stopping # "no" THEN h ELSE IF closed THEN s ELSE r)
  BY DEF LaunchReturns, ProgressInv, Inv, LaunchOK
<1> HIDE DEF e
<1>2. h.handle = TRUE /\ h.stopping = e.stopping /\ h.call = e.call
  BY <1>1 DEF EntryType
<1>3. s.handle = TRUE /\ s.stopping = "pending" /\ s.call = e.call
  BY <1>1 DEF EntryType
<1>4. r.handle = TRUE /\ r.stopping = e.stopping /\ r.call = "returned"
  BY <1>1 DEF EntryType
<1> HIDE DEF h, s, r
<1>5. CASE e.stopping # "no"
  <2>1. Said(h) > Said(e)
    BY <1>1, <1>2 DEF Said, CallRank, StoppingRank, Flag
  <2>2. QED
    BY <1>1, <1>2, <1>5, <2>1, EntryMoved DEF e
<1>6. CASE e.stopping = "no" /\ closed
  <2>1. Said(s) > Said(e)
    BY <1>1, <1>3, <1>6 DEF Said, CallRank, StoppingRank, Flag
  <2>2. QED
    BY <1>1, <1>2, <1>3, <1>6, <2>1, EntryMoved DEF e
<1>7. CASE e.stopping = "no" /\ ~closed
  <2>1. Said(r) > Said(e)
    BY <1>1, <1>4, <1>7 DEF Said, CallRank, StoppingRank, Flag
  <2>2. QED
    BY <1>1, <1>2, <1>4, <1>7, <2>1, EntryMoved DEF e
<1>8. QED
  BY <1>5, <1>6, <1>7

\* The call rejects, whatever else is said of the entry.
LEMMA LaunchEndMoved ==
  ASSUME ProgressInv, NEW p \in Launches, LaunchCancelled(p) \/ LaunchRejects(p)
  PROVE  Moved(p) /\ Progress(p)
<1> DEFINE e == entry[p]
<1>1. PICK o : /\ e \in EntryType /\ e.call = "pending" /\ UNCHANGED tabVars
               /\ SetEntry(p, [e EXCEPT !.call = "rejected", !.owned = o])
  <2>1. e \in EntryType
    BY DEF ProgressInv, Inv, LaunchOK
  <2>2. [e EXCEPT !.call = "rejected"] = [e EXCEPT !.call = "rejected", !.owned = e.owned]
    BY <2>1 DEF EntryType
  <2>3. CASE LaunchCancelled(p)
    BY <2>1, <2>2, <2>3, Zenon DEF LaunchCancelled
  <2>4. CASE LaunchRejects(p)
    BY <2>1, <2>4, Zenon DEF LaunchRejects
  <2>5. QED
    BY <2>3, <2>4
<1> DEFINE f == [e EXCEPT !.call = "rejected", !.owned = o]
<1> HIDE DEF e
<1>2. f.call = "rejected" /\ f.stopping = e.stopping /\ f.handle = e.handle
  BY <1>1 DEF EntryType
<1>3. SetEntry(p, f)
  BY <1>1
<1> HIDE DEF f
<1>4. Said(f) > Said(e)
  BY <1>1, <1>2 DEF Said, CallRank, StoppingRank, Flag
<1>5. QED
  BY <1>1, <1>2, <1>3, <1>4, EntryMoved DEF e

LEMMA EntryStoppedMoved ==
  ASSUME ProgressInv, NEW p \in Launches, EntryStopped(p)
  PROVE  Moved(p) /\ Progress(p)
<1> DEFINE e == entry[p]
           f == [e EXCEPT !.stopping = "done", !.owned = FALSE]
           g == [e EXCEPT !.stopping = "failed"]
<1>1. /\ e \in EntryType /\ e.stopping = "pending" /\ UNCHANGED tabVars
      /\ SetEntry(p, f) \/ SetEntry(p, g)
  BY DEF EntryStopped, ProgressInv, Inv, LaunchOK
<1> HIDE DEF e
<1>2. /\ f.stopping = "done" /\ f.call = e.call /\ f.handle = e.handle
      /\ g.stopping = "failed" /\ g.call = e.call /\ g.handle = e.handle
  BY <1>1 DEF EntryType
<1> HIDE DEF f, g
<1>3. Said(f) > Said(e) /\ Said(g) > Said(e)
  BY <1>1, <1>2 DEF Said, CallRank, StoppingRank, Flag
<1>4. QED
  BY <1>1, <1>2, <1>3, EntryMoved DEF e

LEMMA ContinuationMoved ==
  ASSUME ProgressInv, NEW p \in Launches, Continuation(p)
  PROVE  Moved(p) /\ Progress(p)
  BY BeginLaunchMoved, LaunchReturnsMoved, LaunchEndMoved, StopHandleMoved, EntryStoppedMoved
     DEF Continuation

LEMMA TabStepMoved ==
  ASSUME ProgressInv, NEW p \in Launches, TabStep(p), UNCHANGED spawnerVars
  PROVE  Moved(p)
<1>1. Types /\ TabOK(tab[p]) /\ Heeded(tab[p])
  BY DEF ProgressInv, Inv, LaunchOK, Bidden
<1>2. TabMoves(p) /\ TabForward(p)
  BY <1>1, TabStepMoves, TabStepForward
<1>3. PICK u \in TabType : Moves(tab[p], u) /\ tab' = [tab EXCEPT ![p] = u]
  BY <1>2 DEF TabMoves
<1>4. tab'[p] = u
  BY <1>1, <1>3 DEF Types
<1>5. Later(tab[p], u) /\ Heeded(u)
  BY <1>1, <1>2, <1>4 DEF TabForward
<1>6. QED
  BY <1>3, <1>5, TabMoved DEF Moves

LEMMA AbortForward ==
  ASSUME NEW t \in TabType, ~t.aborted
  PROVE  /\ Later(t, Abort(t)) /\ Heeded(Abort(t))
         /\ Abort(t).outcome = t.outcome /\ Abort(t).attempt = t.attempt
<1>1. ASSUME NEW u, u.stage = t.stage, u.attempt = t.attempt, u.outcome = t.outcome,
             u.stop = t.stop, u.aborted = TRUE, u.session \in {t.session, "closed"},
             u.worker = IF t.worker \in LiveWorker THEN "terminating" ELSE t.worker
      PROVE  Later(t, u)
  <2>1. /\ OutcomeRank(u.outcome) >= OutcomeRank(t.outcome) /\ StopRank(u.stop) >= StopRank(t.stop)
        /\ Flag(u.aborted) >= Flag(t.aborted) /\ Flag(u.aborted) > Flag(t.aborted)
    BY <1>1 DEF OutcomeRank, StopRank, Flag
  <2>2. SessionRank(u.session) >= SessionRank(t.session)
    BY <1>1 DEF SessionRank
  <2>3. WorkerRank(u.worker) >= WorkerRank(t.worker)
    BY <1>1 DEF WorkerRank, LiveWorker
  <2>4. QED
    BY <1>1, <2>1, <2>2, <2>3, GivenRises DEF Later
<1>2. CASE t.outcome = "running" /\ t.stage # "connect"
  <2> DEFINE v == [t EXCEPT !.aborted = TRUE, !.session = "closed"]
             w == Terminate(v)
  <2>1. v \in TabType /\ v.aborted = TRUE /\ v.session = "closed"
    BY Names DEF TabType
  <2>2. /\ v.stage = t.stage /\ v.outcome = t.outcome /\ v.attempt = t.attempt
        /\ v.worker = t.worker /\ v.stop = t.stop
    BY DEF TabType
  <2>3. Abort(t) = w
    BY <1>2 DEF Abort
  <2> HIDE DEF v
  <2>4. /\ w.worker = (IF t.worker \in LiveWorker THEN "terminating" ELSE t.worker)
        /\ w.stage = t.stage /\ w.outcome = t.outcome /\ w.attempt = t.attempt /\ w.aborted = TRUE
        /\ w.session = "closed" /\ w.stop = t.stop
    BY <2>1, <2>2, TerminateIs
  <2> HIDE DEF w
  <2>5. Later(t, w)
    BY <1>1, <2>4
  <2>6. Heeded(w)
    BY <2>4 DEF Heeded, LiveWorker
  <2>7. QED
    BY <2>3, <2>4, <2>5, <2>6
<1>3. CASE ~(t.outcome = "running" /\ t.stage # "connect")
  <2> DEFINE v == [t EXCEPT !.aborted = TRUE]
  <2>1. /\ v.stage = t.stage /\ v.outcome = t.outcome /\ v.attempt = t.attempt
        /\ v.session = t.session /\ v.worker = t.worker /\ v.stop = t.stop /\ v.aborted = TRUE
    BY DEF TabType
  <2>2. Abort(t) = v
    BY <1>3 DEF Abort
  <2> HIDE DEF v
  <2>3. Heeded(v)
    BY <1>3, <2>1 DEF Heeded
  <2>4. Later(t, v)
    <3>1. /\ OutcomeRank(v.outcome) >= OutcomeRank(t.outcome) /\ StopRank(v.stop) >= StopRank(t.stop)
          /\ SessionRank(v.session) >= SessionRank(t.session)
          /\ WorkerRank(v.worker) >= WorkerRank(t.worker)
      BY <2>1 DEF OutcomeRank, StopRank, SessionRank, WorkerRank
    <3>2. Flag(v.aborted) >= Flag(t.aborted) /\ Flag(v.aborted) > Flag(t.aborted)
      BY <2>1 DEF Flag
    <3>3. QED
      BY <2>1, <3>1, <3>2, GivenRises DEF Later
  <2>5. QED
    BY <2>1, <2>2, <2>3, <2>4
<1>4. QED
  BY <1>2, <1>3

LEMMA StopMoved ==
  ASSUME ProgressInv, NEW S \in SUBSET Launches, Stop(S), NEW p \in Launches
  PROVE  Moved(p) /\ (p \in S => entry'[p].stopping # "no")
<1> DEFINE t == tab[p]
           e == entry[p]
           f == [e EXCEPT !.stopping = "pending"]
<1>1. t \in TabType /\ e \in EntryType /\ Bidden(p)
  BY DEF ProgressInv, Inv, LaunchOK
<1>2. CASE p \in S /\ e.stopping = "no"
  <2>1. entry'[p] = f /\ tab'[p] = IF ~e.handle THEN Abort(t) ELSE t
    BY <1>2 DEF Stop
  <2>2. ~t.aborted /\ (t.outcome = "none" => t.attempt = 0) /\ Heeded(t)
    BY <1>1, <1>2 DEF Bidden
  <2> HIDE DEF t, e
  <2>3. f.stopping = "pending" /\ f.handle = e.handle /\ f.call = e.call
    BY <1>1 DEF EntryType
  <2> HIDE DEF f
  <2>4. Said(f) > Said(e)
    BY <1>2, <2>3 DEF Said, CallRank, StoppingRank, Flag
  <2>5. PICK u : u = IF ~e.handle THEN Abort(t) ELSE t
    OBVIOUS
  <2>6. /\ u = t \/ Later(t, u)
        /\ Heeded(u) /\ (u.outcome = "none" => u.attempt = 0)
    BY <1>1, <2>2, <2>5, AbortForward
  <2>7. Bidden(p)'
    BY <2>1, <2>3, <2>5, <2>6 DEF Bidden, Heeded
  <2>8. QED
    BY <2>1, <2>3, <2>4, <2>5, <2>6, <2>7 DEF Moved, t, e
<1>3. CASE ~(p \in S /\ e.stopping = "no")
  <2>1. entry'[p] = e /\ tab'[p] = t
    BY <1>3 DEF Stop
  <2>2. QED
    BY <1>1, <1>3, <2>1, Unmoved
<1>4. QED
  BY <1>2, <1>3

\* What a step of one launch, or of its entry, leaves alone.
LEMMA OthersMoved ==
  ASSUME ProgressInv, NEW p \in Launches, Moved(p), UNCHANGED joined, NEW u, NEW e,
         tab' = [tab EXCEPT ![p] = u], entry' = [entry EXCEPT ![p] = e]
  PROVE  (\A q \in Launches : Moved(q)) /\ Begun'
<1>1. ASSUME NEW q \in Launches PROVE Moved(q)
  <2>1. CASE q = p
    BY <2>1
  <2>2. CASE q # p
    <3>1. tab'[q] = tab[q] /\ entry'[q] = entry[q] /\ Bidden(q)
      BY <2>2 DEF ProgressInv, Inv, Types
    <3>2. QED
      BY <3>1, Unmoved
  <2>3. QED
    BY <2>1, <2>2
<1>2. Begun'
  BY <1>1 DEF ProgressInv, Inv, Types, Begun, Moved
<1>3. QED
  BY <1>1, <1>2

LEMMA EveryMove ==
  ASSUME ProgressInv, [Next]_vars
  PROVE  (\A p \in Launches : Moved(p)) /\ Begun'
<1>1. /\ \A p \in Launches : Bidden(p) /\ tab = [tab EXCEPT ![p] = tab[p]]
                               /\ entry = [entry EXCEPT ![p] = entry[p]]
      /\ Begun
  BY DEF ProgressInv, Inv, Types
<1>2. ASSUME NEW p \in Launches, Launch(p) \/ Continuation(p)
      PROVE  (\A q \in Launches : Moved(q)) /\ Begun'
  <2>1. Moved(p)
    BY <1>2, LaunchMoved, ContinuationMoved
  <2>2. PICK e : entry' = [entry EXCEPT ![p] = e]
    BY <1>1, <1>2 DEF Launch, Continuation, BeginLaunch, LaunchReturns, LaunchCancelled, LaunchRejects,
                      StopHandle, EntryStopped, SetEntry, spawnerVars
  <2>3. PICK u : tab' = [tab EXCEPT ![p] = u]
    BY <1>1, <1>2 DEF Launch, Continuation, BeginLaunch, LaunchReturns, LaunchCancelled, LaunchRejects,
                      StopHandle, EntryStopped, SetTab, tabVars
  <2>4. UNCHANGED joined
    BY <1>2 DEF Launch, Continuation, BeginLaunch, LaunchReturns, LaunchCancelled, LaunchRejects,
                StopHandle, EntryStopped, SetEntry, spawnerVars
  <2>5. QED
    BY <2>1, <2>2, <2>3, <2>4, OthersMoved
<1>3. ASSUME NEW p \in Launches, Kill(p)
      PROVE  (\A q \in Launches : Moved(q)) /\ Begun'
  <2>1. Stop({p}) /\ {p} \in SUBSET Launches /\ UNCHANGED joined
    BY <1>3 DEF Kill
  <2>2. \A q \in Launches : Moved(q)
    BY <2>1, StopMoved
  <2>3. Begun'
    BY <1>1, <2>1, <2>2 DEF ProgressInv, Inv, Types, Begun, Moved
  <2>4. QED
    BY <2>2, <2>3
<1>4. ASSUME NEW p \in Launches, TabStep(p), UNCHANGED spawnerVars
      PROVE  (\A q \in Launches : Moved(q)) /\ Begun'
  <2>1. TabMoves(p)
    BY <1>4, TabStepMoves DEF ProgressInv, Inv, LaunchOK
  <2>2. PICK u : tab' = [tab EXCEPT ![p] = u]
    BY <2>1 DEF TabMoves
  <2>3. entry' = [entry EXCEPT ![p] = entry[p]] /\ UNCHANGED joined
    BY <1>1, <1>4 DEF spawnerVars
  <2>4. Moved(p)
    BY <1>4, TabStepMoved
  <2>5. QED
    BY <2>2, <2>3, <2>4, OthersMoved
<1>5. ASSUME KillAll
      PROVE  (\A q \in Launches : Moved(q)) /\ Begun'
  <2>1. joined' \in SUBSET Launches /\ Stop(joined')
    BY <1>5 DEF KillAll
  <2>2. \A q \in Launches : Moved(q) /\ (q \in joined' => entry'[q].stopping # "no")
    BY <2>1, StopMoved
  <2>3. Begun'
    BY <2>1, <2>2 DEF Begun
  <2>4. QED
    BY <2>2, <2>3
<1>6. ASSUME Drained \/ KillAllTimesOut \/ UNCHANGED vars
      PROVE  (\A q \in Launches : Moved(q)) /\ Begun'
  <2>1. UNCHANGED <<tab, entry, joined>>
    BY <1>6 DEF Drained, KillAllTimesOut, vars, tabVars
  <2>2. \A q \in Launches : Moved(q)
    BY <1>1, <2>1, Unmoved
  <2>3. Begun'
    BY <1>1, <2>1 DEF Begun
  <2>4. QED
    BY <2>2, <2>3
<1>7. QED
  BY <1>2, <1>3, <1>4, <1>5, <1>6 DEF Next

LEMMA ProgressInvariant == Spec => []ProgressInv
<1>1. Init => ProgressInv
  <2> SUFFICES ASSUME Init PROVE ProgressInv
    OBVIOUS
  <2>1. \A p \in Launches : tab[p] = Idle
    BY DEF Init, TabInit
  <2>2. Idle.attempt = 0 /\ Idle.outcome = "none" /\ Idle.aborted = FALSE
    BY IdleIs DEF Idle
  <2>3. \A p \in Launches : Bidden(p)
    BY <2>1, <2>2 DEF Bidden, Heeded
  <2>4. Begun
    BY DEF Init, Begun
  <2>5. QED
    BY <2>3, <2>4, Initially DEF ProgressInv
<1>2. ProgressInv /\ [Next]_vars => ProgressInv'
  BY EveryMove, EveryStep DEF ProgressInv, Moved, Kept
<1>3. QED
  BY <1>1, <1>2, PTL DEF Spec

\* A stop that has been asked for, and after shutdown whatever is left of a launch.
Unfinished(p) ==
  \/ entry[p].stopping = "pending"
  \/ closed /\ (entry[p].call = "pending" \/ entry[p].owned \/ Holds(tab[p]) # {})

\* The guards of the steps that nobody's consent is needed for: the owner's continuations, then
\* what settles without Firefox's help.
GoesOn(p) ==
  \/ entry[p].call = "pending" /\ tab[p].outcome = "none"
  \/ entry[p].call = "pending" /\ ~entry[p].handle /\ tab[p].outcome = "published"
  \/ entry[p].call = "pending" /\ entry[p].handle /\ entry[p].stopping \in {"done", "failed"}
  \/ entry[p].call = "pending" /\ tab[p].outcome \in {"failed", "rollback failed"}
  \/ entry[p].stopping = "pending" /\ tab[p].outcome = "published" /\ tab[p].stop = "no"
  \/ entry[p].stopping = "pending" /\ \/ tab[p].outcome \in {"failed", "rollback failed"}
                                      \/ tab[p].outcome = "published" /\ tab[p].stop \in {"done", "failed"}
  \/ Awaiting(p, "connect") /\ tab[p].aborted
  \/ tab[p].session = "closed" /\ \E stage \in SessionStages : Awaiting(p, stage)
  \/ tab[p].worker = "terminating"
  \/ Awaiting(p, "shim-bind")
  \/ tab[p].stop = "shim"

\* A worker that cannot be terminated: the launch that awaits it, or the entry it has been left to.
Stranded(p) ==
  tab[p].worker = "stuck" /\ (Awaiting(p, "worker-ready") \/ entry[p].stopping = "failed")

\* Nothing that has been told to end waits for Firefox, for a caller or for another launch, and
\* killAll awaits only stops that have begun.
NobodyWaits ==
  /\ \A p \in Launches : Unfinished(p) => GoesOn(p) \/ Stranded(p)
  /\ \A p \in joined : entry[p].stopping # "no"

\* A launch whose stop is under way.
LEMMA StoppingGoesOn ==
  ASSUME ProgressInv, NEW p \in Launches, entry[p].stopping = "pending"
  PROVE  GoesOn(p) \/ Stranded(p)
<1> DEFINE t == tab[p]
           e == entry[p]
<1>1. /\ t \in TabType /\ TabOK(t) /\ e \in EntryType /\ EntryOK(t, e, closed) /\ Heeded(t)
      /\ e.stopping = "pending"
  BY DEF ProgressInv, Inv, LaunchOK, Bidden
<1>2. \A stage : Awaiting(p, stage) <=> t.outcome = "running" /\ t.stage = stage
  BY DEF Awaiting
<1>3. t.outcome \in Outcomes
  BY <1>1 DEF TabType
<1>4. CASE t.outcome = "none"
  <2>1. e.call = "pending"
    BY <1>1, <1>4 DEF EntryOK
  <2>2. QED
    BY <1>4, <2>1 DEF GoesOn
<1>5. CASE t.outcome = "running"
  <2>1. t.aborted /\ (Acquiring(t) \/ RollingBack(t))
    BY <1>1, <1>5, AwaitingIs DEF EntryOK
  <2>2. t.stage \notin {"connect", "stopping"} => t.session = "closed" /\ t.worker \notin LiveWorker
    BY <1>1, <1>5, <2>1 DEF Heeded
  <2>3. CASE RollingBack(t)
    BY <2>3 DEF RollingBack, Stopping, GoesOn
  <2>4. CASE Acquiring(t)
    <3>1. CASE t.stage = "connect"
      BY <1>2, <1>5, <2>1, <3>1 DEF GoesOn
    <3>2. CASE t.stage \in SessionStages
      <4>1. t.session = "closed"
        BY <2>2, <3>2 DEF SessionStages
      <4>2. QED
        BY <1>2, <1>5, <3>2, <4>1 DEF GoesOn
    <3>3. CASE t.stage = "worker-ready" /\ t.worker \in {"starting", "terminating", "stuck"}
      <4>1. t.worker \in {"terminating", "stuck"}
        BY <2>2, <3>3 DEF LiveWorker
      <4>2. QED
        BY <1>2, <1>5, <3>3, <4>1 DEF GoesOn, Stranded
    <3>4. CASE t.stage = "shim-bind"
      BY <1>2, <1>5, <3>4 DEF GoesOn
    <3>5. QED
      BY <2>4, <3>1, <3>2, <3>3, <3>4 DEF Acquiring, SessionStages
  <2>5. QED
    BY <2>1, <2>3, <2>4
<1>6. CASE t.outcome = "published"
  <2>1. t.stop = "worker" => t.worker = "terminating"
    BY <1>1, <1>6 DEF TabOK, Ended, Broken, Serving, Stopping
  <2>2. t.stop \in Stops
    BY <1>1 DEF TabType
  <2>3. QED
    BY <1>1, <1>6, <2>1, <2>2 DEF GoesOn, Stops
<1>7. CASE t.outcome \in {"failed", "rollback failed"}
  BY <1>1, <1>7 DEF GoesOn
<1>8. QED
  BY <1>3, <1>4, <1>5, <1>6, <1>7 DEF Outcomes

\* After shutdown, an entry whose stop is over or that was never made.
LEMMA ShutGoesOn ==
  ASSUME ProgressInv, NEW p \in Launches, closed, Unfinished(p), entry[p].stopping # "pending"
  PROVE  GoesOn(p) \/ Stranded(p)
<1> DEFINE t == tab[p]
           e == entry[p]
<1>1. /\ t \in TabType /\ TabOK(t) /\ e \in EntryType /\ EntryOK(t, e, closed)
      /\ e.stopping # "pending" /\ (e.call = "pending" \/ e.owned \/ Holds(t) # {})
  BY DEF ProgressInv, Inv, LaunchOK, Unfinished
<1>2. e.stopping \in {"no", "done", "failed"}
  BY <1>1, Fields DEF Stoppings
<1>3. CASE e.owned
  <2>1. e.stopping = "failed" /\ Broken(t)
    BY <1>1, <1>2, <1>3 DEF EntryOK
  <2>2. QED
    BY <2>1 DEF Broken, Over, Stranded
<1>4. CASE ~e.owned
  <2>1. e.call # "none" => Ended(t)
    BY <1>1, <1>4 DEF EntryOK
  <2>2. e.call = "none" => Blank(t)
    BY <1>1 DEF EntryOK, TabOK, Ended, Broken
  <2>3. Holds(t) = {}
    BY <2>1, <2>2, HoldsNothing DEF Ended
  <2>4. e.call = "pending" /\ Ended(t)
    BY <1>1, <1>4, <2>1, <2>3
  <2>5. CASE t.outcome = "failed"
    BY <2>4, <2>5 DEF GoesOn
  <2>6. CASE t.outcome = "published" /\ t.stop = "done"
    <3>1. e.stopping # "no"
      BY <1>1, <2>6 DEF EntryOK
    <3>2. QED
      BY <1>2, <2>4, <2>6, <3>1 DEF GoesOn
  <2>7. QED
    BY <2>4, <2>5, <2>6 DEF Ended
<1>5. QED
  BY <1>3, <1>4

\* The two halves of ShutdownReleases and of killAll's drain that need no fairness.  Whatever has
\* been told to end, a step that is owed to it can be taken, unless its worker cannot be
\* terminated; and no step of anybody takes a launch or its entry back, while each of these
\* steps takes one of them forward.  A launch has two attempts of eleven stages, so that only
\* so many of them are left (#stop, killAll, stop() and the catch block of launch).
THEOREM StopsComeToAnEnd == Spec => []NobodyWaits /\ OnlyForward
<1>1. ProgressInv => NobodyWaits
  BY StoppingGoesOn, ShutGoesOn DEF NobodyWaits, Unfinished, ProgressInv, Begun
<1>2. ProgressInv /\ [Next]_vars =>
        [\A p \in Launches :
           /\ tab'[p] = tab[p] \/ Later(tab[p], tab'[p])
           /\ entry'[p] = entry[p] \/ Said(entry'[p]) > Said(entry[p])
           /\ TabStep(p) \/ Continuation(p)
                => Later(tab[p], tab'[p]) \/ Said(entry'[p]) > Said(entry[p])]_vars
  <2> SUFFICES ASSUME ProgressInv, [Next]_vars, NEW p \in Launches
               PROVE  /\ tab'[p] = tab[p] \/ Later(tab[p], tab'[p])
                      /\ entry'[p] = entry[p] \/ Said(entry'[p]) > Said(entry[p])
                      /\ TabStep(p) \/ Continuation(p)
                           => Later(tab[p], tab'[p]) \/ Said(entry'[p]) > Said(entry[p])
    OBVIOUS
  <2>1. Moved(p)
    BY EveryMove
  <2>2. TabStep(p) => Later(tab[p], tab'[p])
    BY TabStepForward DEF ProgressInv, Inv, LaunchOK, TabForward
  <2>3. Continuation(p) => Progress(p)
    BY ContinuationMoved
  <2>4. QED
    BY <2>1, <2>2, <2>3 DEF Moved, Progress
<1>3. QED
  BY <1>1, <1>2, ProgressInvariant, PTL DEF Spec, OnlyForward
=============================================================================
