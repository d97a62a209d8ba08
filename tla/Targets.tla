------------------------------ MODULE Targets ------------------------------
(***************************************************************************)
(* The target lifecycle of src/src/rdp/session.ts: which threads LLDB can  *)
(* see, under which TID, and to which incarnation (generation) of the page *)
(* they belong, while Firefox announces and destroys targets.              *)
(*                                                                         *)
(* #threads is a set of ThreadInfo records keyed by tid.  The tab lives    *)
(* through several pages (top-level actors) and each page may own workers. *)
(* Firefox is external: it replaces a page destroy-first or                *)
(* announce-first, announces workers of a page before the page itself in   *)
(* the gap between two pages, destroys the workers of a dead page late,    *)
(* and may announce a target it announced before, even one long gone.      *)
(***************************************************************************)
EXTENDS Integers, Sequences, FiniteSets

CONSTANTS TopActors,     \* page targets the tab may go through
          WorkerActors,  \* worker targets
          MaxThreads,    \* 1024 in the code
          MaxTombstones, \* 65536 in the code
          NoPage,        \* the tab has no page
          MaxEchoes,     \* bound: targets announced again
          MaxWire        \* bound: packets sent and not yet handled

Actors == TopActors \cup WorkerActors

ASSUME TargetsAssumption ==
  /\ TopActors \cap WorkerActors = {}
  /\ NoPage \notin Actors
  /\ MaxThreads \in Nat
  /\ MaxTombstones \in Nat
  /\ MaxEchoes \in Nat
  /\ MaxWire \in Nat

ThreadInfo == [tid : Nat, actor : Actors, gen : Nat, top : BOOLEAN]

TargetPackets == [kind : {"available", "destroyed", "source"}, actor : Actors]

VARIABLES
  threads,               \* #threads: the ThreadInfo of every live target
  retiredTargetActors,   \* #retiredTargetActors
  nextTid,               \* #nextTid
  nextGeneration,        \* #nextGeneration
  activeGeneration,      \* #activeGeneration, 0 in the gap between two pages
  generationAborted,     \* #generationAbort.signal.aborted
  pendingTopLevelTid,    \* #pendingTopLevelTid, 0 for undefined
  detachChecks,          \* #pendingDetachChecks: the target each timer speaks for
  sources,               \* #sourceUrlByActor: a source's target, its generation, and as
                         \* history the next generation when it was entered
  closed,                \* #closed
  detached,              \* history: generations reported as closed tabs
  dropped                \* history: targets that left threads or were reported destroyed

sessionVars == <<threads, retiredTargetActors, nextTid, nextGeneration, activeGeneration,
                 generationAborted, pendingTopLevelTid, detachChecks, sources, closed, detached,
                 dropped>>

VARIABLES
  wire,      \* external: packets Firefox has sent, oldest first
  phase,     \* external: unborn, loading (a page not announced), live, dying, gone
  page,      \* external: the tab's current page, NoPage between two
  owner,     \* external: the page that started each worker
  sourced,   \* external: targets whose source has been announced
  echoes     \* external: announcements repeated so far

firefoxVars == <<wire, phase, page, owner, sourced, echoes>>
vars == <<sessionVars, firefoxVars>>

Init ==
  /\ threads = {}
  /\ retiredTargetActors = {}
  /\ nextTid = 1
  /\ nextGeneration = 1
  /\ activeGeneration = 0
  /\ generationAborted = FALSE
  /\ pendingTopLevelTid = 0
  /\ detachChecks = {}
  /\ sources = {}
  /\ closed = FALSE
  /\ detached = {}
  /\ dropped = {}
  /\ wire = <<>>
  /\ phase = [a \in Actors |-> "unborn"]
  /\ page = NoPage
  /\ owner = [w \in WorkerActors |-> NoPage]
  /\ sourced = {}
  /\ echoes = 0

-----------------------------------------------------------------------------
Tops == {i \in threads : i.top}

Known(a) == \E i \in threads : i.actor = a

InfoOf(a) == CHOOSE i \in threads : i.actor = a

OfGeneration(g) == {i \in threads : i.gen = g}

ActorsOf(infos) == {i.actor : i \in infos}

\* Mutant.  Only the page itself is remembered as retired, not its workers.
TombstonesPage(infos) == retiredTargetActors \cup ActorsOf({i \in infos : i.top})

\* #removeThread leaves a tombstone for every target it drops.
Tombstones(infos) == retiredTargetActors \cup ActorsOf(infos)

\* #rememberRetiredTarget refuses the 65537th tombstone by throwing, and #init's
\* handler answers any throw by closing the session.
FitsTombstones(infos) == Cardinality(Tombstones(infos)) <= MaxTombstones

\* RdpWasmSession.close.  What a closed session still remembers is never used.
CloseSession ==
  /\ closed' = TRUE
  /\ generationAborted' = TRUE
  /\ detachChecks' = {}
  /\ UNCHANGED <<threads, retiredTargetActors, nextTid, nextGeneration, activeGeneration,
                 pendingTopLevelTid, sources, detached>>

IgnorePacket ==
  UNCHANGED <<threads, retiredTargetActors, nextTid, nextGeneration, activeGeneration,
              generationAborted, pendingTopLevelTid, detachChecks, sources, closed, detached>>

-----------------------------------------------------------------------------
\* Mutant.  A replacement announced first is a new thread to LLDB.
FreshTid == nextTid

\* The page keeps its TID across a replacement, whichever side is announced first.
PageTid ==
  IF Tops # {} THEN (CHOOSE i \in Tops : TRUE).tid
  ELSE IF pendingTopLevelTid # 0 THEN pendingTopLevelTid ELSE nextTid

\* Mutant.  Workers of the gap stay without a generation.
AdoptNone(infos, gen) == infos

\* Workers announced in the gap join the generation that follows it.
Adopt(infos, gen) == {[i EXCEPT !.gen = IF @ = 0 THEN gen ELSE @] : i \in infos}

\* A page arrives: retire what is left of its predecessor, take over its TID, open
\* a generation, and adopt workers announced in the gap.
TopLevelAvailable(a) ==
  LET old     == IF Tops = {} THEN {} ELSE OfGeneration((CHOOSE i \in Tops : TRUE).gen)
      kept    == threads \ old
      gen     == nextGeneration
      tid     == PageTid
  IN
  IF ~FitsTombstones(old) \/ Cardinality(kept) >= MaxThreads
  THEN CloseSession
  ELSE
  /\ retiredTargetActors' = Tombstones(old)
  /\ threads' = {i \in Adopt(kept, gen) : i.tid # tid}
                  \cup {[tid |-> tid, actor |-> a, gen |-> gen, top |-> TRUE]}
  /\ nextTid' = IF tid = nextTid THEN nextTid + 1 ELSE nextTid
  /\ pendingTopLevelTid' = 0
  /\ nextGeneration' = gen + 1
  /\ activeGeneration' = gen
  /\ generationAborted' = FALSE
  /\ detachChecks' = {}
  /\ sources' = IF Tops = {} THEN sources ELSE {}
  /\ UNCHANGED <<closed, detached>>

WorkerAvailable(a) ==
  IF Cardinality(threads) >= MaxThreads
  THEN CloseSession
  ELSE
  /\ threads' = threads \cup
                  {[tid |-> nextTid, actor |-> a, gen |-> activeGeneration, top |-> FALSE]}
  /\ nextTid' = nextTid + 1
  /\ UNCHANGED <<retiredTargetActors, nextGeneration, activeGeneration, generationAborted,
                 pendingTopLevelTid, detachChecks, sources, closed, detached>>

\* #onEvent targetAvailableForm: tombstoned and already known targets are ignored.
TargetAvailable(a) ==
  IF a \in retiredTargetActors \/ Known(a)
  THEN IgnorePacket
  ELSE IF a \in TopActors THEN TopLevelAvailable(a) ELSE WorkerAvailable(a)

-----------------------------------------------------------------------------
\* Mutant.  The caches outlive the page: the generation of an entry is all that hides it.
GoneKeepsSources(info) ==
  LET old == OfGeneration(info.gen) IN
  /\ threads' = threads \ old
  /\ retiredTargetActors' = Tombstones(old)
  /\ activeGeneration' = IF activeGeneration = info.gen THEN 0 ELSE activeGeneration
  /\ generationAborted' = TRUE
  /\ pendingTopLevelTid' = info.tid
  /\ detachChecks' = detachChecks \cup {info}
  /\ UNCHANGED <<nextTid, nextGeneration, sources, closed, detached>>

\* The page is gone: its whole incarnation goes with it, and a grace timer starts
\* to tell a replacement from a closed tab.
TopLevelDestroyed(info) ==
  LET old == OfGeneration(info.gen) IN
  IF ~FitsTombstones(old)
  THEN CloseSession
  ELSE
  /\ threads' = threads \ old
  /\ retiredTargetActors' = Tombstones(old)
  /\ activeGeneration' = IF activeGeneration = info.gen THEN 0 ELSE activeGeneration
  /\ generationAborted' = TRUE
  /\ sources' = {}
  /\ pendingTopLevelTid' = info.tid
  /\ detachChecks' = detachChecks \cup {info}
  /\ UNCHANGED <<nextTid, nextGeneration, closed, detached>>

\* Mutant.  The destruction of a target not known here is not remembered.
ForgetsUnknown(a) ==
  LET old == {i \in threads : i.actor = a} IN
  /\ threads' = threads \ old
  /\ retiredTargetActors' = Tombstones(old)
  /\ UNCHANGED <<nextTid, nextGeneration, activeGeneration, generationAborted,
                 pendingTopLevelTid, detachChecks, sources, closed, detached>>

\* A worker, or a target this session does not (or no longer) know.
OtherDestroyed(a) ==
  LET old == {i \in threads : i.actor = a} IN
  IF Cardinality(retiredTargetActors \cup {a}) > MaxTombstones
  THEN CloseSession
  ELSE
  /\ threads' = threads \ old
  /\ retiredTargetActors' = retiredTargetActors \cup {a}
  /\ UNCHANGED <<nextTid, nextGeneration, activeGeneration, generationAborted,
                 pendingTopLevelTid, detachChecks, sources, closed, detached>>

TargetDestroyed(a) ==
  IF Known(a) /\ InfoOf(a).top THEN TopLevelDestroyed(InfoOf(a)) ELSE OtherDestroyed(a)

\* #rememberSource, for a target whose ThreadInfo is current.
RememberSource(a) ==
  /\ sources' = {s \in sources : s.actor # a}
                  \cup {[actor |-> a, gen |-> InfoOf(a).gen, since |-> nextGeneration]}
  /\ UNCHANGED <<threads, retiredTargetActors, nextTid, nextGeneration, activeGeneration,
                 generationAborted, pendingTopLevelTid, detachChecks, closed, detached>>

\* #onEvent resourcesAvailableArray, source group: a source counts only while its
\* target is live and belongs to a page.
SourceAvailable(a) ==
  IF ~Known(a) \/ InfoOf(a).gen = 0 THEN IgnorePacket ELSE RememberSource(a)

\* #onEvent on the oldest packet of the wire.
OnEvent(p) ==
  \/ p.kind = "available" /\ TargetAvailable(p.actor)
  \/ p.kind = "destroyed" /\ TargetDestroyed(p.actor)
  \/ p.kind = "source" /\ SourceAvailable(p.actor)

Deliver ==
  /\ ~closed /\ wire # <<>>
  /\ wire' = Tail(wire)
  /\ OnEvent(Head(wire))
  /\ dropped' = dropped \cup (ActorsOf(threads) \ ActorsOf(threads'))
                  \cup (IF Head(wire).kind = "destroyed" THEN {Head(wire).actor} ELSE {})
  /\ UNCHANGED <<phase, page, owner, sourced, echoes>>

\* #wasmSourcesForInfo, jsSources: a thread's answer to `sources` counts while its
\* ThreadInfo is current, a worker of the gap included.
SourcesReply(a) ==
  /\ ~closed /\ Known(a)
  /\ RememberSource(a)
  /\ UNCHANGED <<dropped, firefoxVars>>

\* Mutant.  The TID stays reserved for a page that does not come.
GraceKeepsTid(info) ==
  /\ ~closed /\ info \in detachChecks
  /\ detachChecks' = detachChecks \ {info}
  /\ IF Tops = {} THEN detached' = detached \cup {info.gen} ELSE UNCHANGED detached
  /\ UNCHANGED <<threads, retiredTargetActors, nextTid, nextGeneration, activeGeneration,
                 generationAborted, pendingTopLevelTid, sources, closed, dropped, firefoxVars>>

\* DETACH_GRACE_MS after a page went: with still no page, report a closed tab.
DetachGrace(info) ==
  /\ ~closed /\ info \in detachChecks
  /\ detachChecks' = detachChecks \ {info}
  /\ IF Tops = {}
     THEN pendingTopLevelTid' = 0 /\ detached' = detached \cup {info.gen}
     ELSE UNCHANGED <<pendingTopLevelTid, detached>>
  /\ UNCHANGED <<threads, retiredTargetActors, nextTid, nextGeneration, activeGeneration,
                 generationAborted, sources, closed, dropped, firefoxVars>>

\* session.close by its owner, or the client closing underneath.
SessionClose ==
  /\ ~closed
  /\ CloseSession
  /\ UNCHANGED <<dropped, firefoxVars>>

-----------------------------------------------------------------------------
(* Firefox *)

Emit(kind, a) ==
  /\ Len(wire) < MaxWire
  /\ wire' = Append(wire, [kind |-> kind, actor |-> a])

WorkersOf(t) == {w \in WorkerActors : owner[w] = t /\ phase[w] = "live"}

Dying(t, fate) == [a \in Actors |-> IF a = t THEN fate
                                    ELSE IF a \in WorkersOf(t) THEN "dying" ELSE phase[a]]

\* A new page starts loading; in the gap its workers may be announced before it is.
FirefoxLoads(t) ==
  /\ page = NoPage /\ phase[t] = "unborn"
  /\ page' = t
  /\ phase' = [phase EXCEPT ![t] = "loading"]
  /\ UNCHANGED <<wire, owner, sourced, echoes, sessionVars>>

FirefoxAnnouncesPage(t) ==
  /\ phase[t] = "loading"
  /\ phase' = [phase EXCEPT ![t] = "live"]
  /\ Emit("available", t)
  /\ UNCHANGED <<page, owner, sourced, echoes, sessionVars>>

\* The page goes away, announced or not; its workers are destroyed when Firefox
\* gets round to it.
FirefoxDestroysPage(t) ==
  /\ page = t
  /\ page' = NoPage
  /\ phase' = Dying(t, "gone")
  /\ Emit("destroyed", t)
  /\ UNCHANGED <<owner, sourced, echoes, sessionVars>>

\* A process switch that announces the replacement before destroying the page.
FirefoxSwapsPage(t, u) ==
  /\ page = t /\ phase[t] = "live" /\ phase[u] = "unborn"
  /\ page' = u
  /\ phase' = [Dying(t, "dying") EXCEPT ![u] = "live"]
  /\ Emit("available", u)
  /\ UNCHANGED <<owner, sourced, echoes, sessionVars>>

FirefoxStartsWorker(w) ==
  /\ page # NoPage /\ phase[w] = "unborn"
  /\ phase' = [phase EXCEPT ![w] = "live"]
  /\ owner' = [owner EXCEPT ![w] = page]
  /\ Emit("available", w)
  /\ UNCHANGED <<page, sourced, echoes, sessionVars>>

FirefoxDestroysLate(a) ==
  /\ phase[a] = "dying" \/ (a \in WorkerActors /\ phase[a] = "live")
  /\ phase' = [phase EXCEPT ![a] = "gone"]
  /\ Emit("destroyed", a)
  /\ UNCHANGED <<page, owner, sourced, echoes, sessionVars>>

FirefoxAnnouncesSource(a) ==
  /\ phase[a] \in {"live", "dying"} /\ a \notin sourced
  /\ sourced' = sourced \cup {a}
  /\ Emit("source", a)
  /\ UNCHANGED <<phase, page, owner, echoes, sessionVars>>

\* An announcement is repeated, or leaves only after the destroyed event.
FirefoxEchoes(a) ==
  /\ echoes < MaxEchoes /\ phase[a] \in {"live", "dying", "gone"}
  /\ echoes' = echoes + 1
  /\ Emit("available", a)
  /\ UNCHANGED <<phase, page, owner, sourced, sessionVars>>

Firefox ==
  \/ \E t \in TopActors : FirefoxLoads(t) \/ FirefoxAnnouncesPage(t) \/ FirefoxDestroysPage(t)
  \/ \E t, u \in TopActors : FirefoxSwapsPage(t, u)
  \/ \E w \in WorkerActors : FirefoxStartsWorker(w)
  \/ \E a \in Actors : FirefoxDestroysLate(a) \/ FirefoxAnnouncesSource(a) \/ FirefoxEchoes(a)

Next ==
  \/ Deliver
  \/ \E a \in Actors : SourcesReply(a)
  \/ \E info \in detachChecks : DetachGrace(info)
  \/ SessionClose
  \/ ~closed /\ Firefox     \* nobody watches Firefox afterwards

Spec == Init /\ [][Next]_vars

-----------------------------------------------------------------------------
TopTid == IF Tops # {} THEN (CHOOSE i \in Tops : TRUE).tid ELSE pendingTopLevelTid

\* The session never holds more targets or tombstones than its limits allow.
TypeOK ==
  /\ threads \subseteq ThreadInfo /\ Cardinality(threads) <= MaxThreads
  /\ retiredTargetActors \subseteq Actors
  /\ Cardinality(retiredTargetActors) <= MaxTombstones
  /\ nextTid \in Nat \ {0}
  /\ nextGeneration \in Nat \ {0}
  /\ activeGeneration \in Nat
  /\ generationAborted \in BOOLEAN
  /\ pendingTopLevelTid \in Nat
  /\ detachChecks \subseteq ThreadInfo
  /\ sources \subseteq [actor : Actors, gen : Nat, since : Nat]
  /\ closed \in BOOLEAN
  /\ detached \subseteq Nat
  /\ dropped \subseteq Actors
  /\ wire \in Seq(TargetPackets)
  /\ phase \in [Actors -> {"unborn", "loading", "live", "dying", "gone"}]
  /\ page \in TopActors \cup {NoPage}
  /\ owner \in [WorkerActors -> TopActors \cup {NoPage}]
  /\ sourced \subseteq Actors
  /\ echoes \in Nat

\* Whatever order Firefox announces and destroys in, everything LLDB sees belongs to
\* one incarnation of the page: two pages never coexist, a generation is active
\* exactly while its page is there, and TIDs and actors stay one to one.
OneIncarnation ==
  ~closed =>
    /\ \A i \in threads : i.gen = activeGeneration
    /\ (activeGeneration # 0) <=> (Tops # {})
    /\ \A i, j \in threads : (i.top /\ j.top) \/ i.tid = j.tid \/ i.actor = j.actor => i = j

\* A target that was destroyed, or retired with its page, never comes back, however
\* late or often it is announced again.
NoResurrection == ~closed => ActorsOf(threads) \cap dropped = {}

\* A source the session answers with (urlForSourceActor, fetchModuleBytes: its
\* generation is the active one) was learnt since the last page came, or in the gap
\* since the last one went, also from a worker of an earlier gap, whose generation 0
\* is active again in every gap; and the work of a generation is cancelled when and
\* only when that generation ends.
SourcesAreCurrent ==
  ~closed =>
    /\ \A s \in sources : s.gen = activeGeneration => s.since = nextGeneration
    /\ activeGeneration # 0 => ~generationAborted
    /\ activeGeneration = 0 /\ nextGeneration > 1 => generationAborted

\* LLDB addresses the page by its TID across a replacement: it changes only by way
\* of a reported detach, and every other new thread gets a TID never used before.
StableTids ==
  [][/\ TopTid # 0 /\ TopTid' # TopTid => TopTid' = 0 /\ detached' # detached
     /\ nextTid' >= nextTid
     /\ \A i \in threads' : i.actor \in ActorsOf(threads) \/ i.tid >= nextTid
                              \/ (i.top /\ i.tid = TopTid)]_vars

\* With nothing left in transit the session shows every announced live target, and
\* beyond those only targets whose destruction Firefox still has to report.
AgreesWithFirefox ==
  wire = <<>> /\ ~closed =>
    /\ {a \in Actors : phase[a] = "live"} \subseteq ActorsOf(threads)
    /\ ActorsOf(threads) \subseteq {a \in Actors : phase[a] \in {"live", "dying"}}

\* A tab that stays without a page is eventually reported as closed, and its TID
\* given up.
ClosedTabIsReported == page = NoPage ~> page # NoPage \/ TopTid = 0 \/ closed
=============================================================================
