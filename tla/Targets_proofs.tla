---------------------------- MODULE Targets_proofs ----------------------------
(***************************************************************************)
(* Targets, proved for any pages and workers, any limits, and any length   *)
(* of the wire.                                                            *)
(***************************************************************************)
EXTENDS Targets, FiniteSetTheorems, TLAPS

-----------------------------------------------------------------------------
(* The inductive invariant *)

SessionTypes ==
  /\ threads \subseteq ThreadInfo /\ IsFiniteSet(threads) /\ Cardinality(threads) <= MaxThreads
  /\ retiredTargetActors \subseteq Actors /\ IsFiniteSet(retiredTargetActors)
  /\ Cardinality(retiredTargetActors) <= MaxTombstones
  /\ nextTid \in Nat \ {0} /\ nextGeneration \in Nat \ {0} /\ activeGeneration \in Nat
  /\ generationAborted \in BOOLEAN /\ pendingTopLevelTid \in Nat
  /\ detachChecks \subseteq ThreadInfo /\ sources \subseteq [actor : Actors, gen : Nat, since : Nat]
  /\ closed \in BOOLEAN /\ detached \subseteq Nat /\ dropped \subseteq Actors

FirefoxTypes ==
  /\ wire \in Seq(TargetPackets)
  /\ phase \in [Actors -> {"unborn", "loading", "live", "dying", "gone"}]
  /\ page \in TopActors \cup {NoPage}
  /\ owner \in [WorkerActors -> TopActors \cup {NoPage}]
  /\ sourced \subseteq Actors
  /\ echoes \in Nat

\* Every thread is of the incarnation that is there, and holds a TID that is given out and
\* not reserved.
Placed(i) ==
  /\ i.gen = activeGeneration /\ i.tid # 0 /\ i.tid < nextTid /\ i.tid # pendingTopLevelTid
  /\ i.top <=> i.actor \in TopActors

Threads ==
  /\ \A i \in threads : Placed(i)
  /\ \A i, j \in threads : (i.top /\ j.top) \/ i.tid = j.tid \/ i.actor = j.actor => i = j

\* A generation is the last one given out, and there with its page.  A TID is reserved, and
\* a timer runs, only in the gap.
Generations ==
  /\ (activeGeneration # 0) <=> (Tops # {})
  /\ activeGeneration # 0 => nextGeneration = activeGeneration + 1
  /\ Tops # {} => pendingTopLevelTid = 0 /\ detachChecks = {}
  /\ pendingTopLevelTid < nextTid
  /\ activeGeneration # 0 => ~generationAborted
  /\ activeGeneration = 0 /\ nextGeneration > 1 => generationAborted

\* What has been dropped is a tombstone, and a tombstone is no thread.
Graves == dropped \subseteq retiredTargetActors /\ ActorsOf(threads) \cap retiredTargetActors = {}

\* A source that is of the active generation was entered under it.
Current ==
  \A s \in sources : s.gen < nextGeneration /\ (s.gen = activeGeneration => s.since = nextGeneration)

\* Nothing is reported twice: the timer is the one of the last generation, and what has been
\* reported is older.
Reports ==
  /\ \A i, j \in detachChecks : i = j
  /\ \A i \in detachChecks : i.gen + 1 = nextGeneration /\ \A g \in detached : g < i.gen
  /\ \A g \in detached : g < nextGeneration /\ (activeGeneration # 0 => g < activeGeneration)

Sound == Threads /\ Generations /\ Graves /\ Current /\ Reports

Inv == SessionTypes /\ FirefoxTypes /\ (closed \/ Sound)

-----------------------------------------------------------------------------
(* Firefox leaves the session alone *)

LEMMA Emits ==
  ASSUME FirefoxTypes, NEW kind \in {"available", "destroyed", "source"}, NEW a \in Actors,
         Emit(kind, a)
  PROVE  wire' \in Seq(TargetPackets)
<1>1. [kind |-> kind, actor |-> a] \in TargetPackets
  BY DEF TargetPackets
<1>2. QED
  BY <1>1 DEF Emit, FirefoxTypes

LEMMA FirefoxStep ==
  ASSUME FirefoxTypes, Firefox
  PROVE  FirefoxTypes' /\ UNCHANGED sessionVars
<1> USE DEF FirefoxTypes, Actors
<1> DEFINE Phases == {"unborn", "loading", "live", "dying", "gone"}
<1>1. ASSUME NEW t \in TopActors, FirefoxLoads(t) PROVE FirefoxTypes' /\ UNCHANGED sessionVars
  BY <1>1 DEF FirefoxLoads
<1>2. ASSUME NEW t \in TopActors, FirefoxAnnouncesPage(t)
      PROVE  FirefoxTypes' /\ UNCHANGED sessionVars
  BY <1>2, Emits DEF FirefoxAnnouncesPage
<1>3. ASSUME NEW t \in TopActors, FirefoxDestroysPage(t)
      PROVE  FirefoxTypes' /\ UNCHANGED sessionVars
  <2>1. phase' \in [Actors -> Phases]
    BY <1>3 DEF FirefoxDestroysPage, Dying
  <2>2. QED
    BY <1>3, <2>1, Emits DEF FirefoxDestroysPage
<1>4. ASSUME NEW t \in TopActors, NEW u \in TopActors, FirefoxSwapsPage(t, u)
      PROVE  FirefoxTypes' /\ UNCHANGED sessionVars
  <2>1. Dying(t, "dying") \in [Actors -> Phases]
    BY DEF Dying
  <2>2. phase' \in [Actors -> Phases]
    BY <1>4, <2>1 DEF FirefoxSwapsPage
  <2>3. QED
    BY <1>4, <2>2, Emits DEF FirefoxSwapsPage
<1>5. ASSUME NEW w \in WorkerActors, FirefoxStartsWorker(w)
      PROVE  FirefoxTypes' /\ UNCHANGED sessionVars
  BY <1>5, Emits DEF FirefoxStartsWorker
<1>6. ASSUME NEW a \in Actors, FirefoxDestroysLate(a) PROVE FirefoxTypes' /\ UNCHANGED sessionVars
  BY <1>6, Emits DEF FirefoxDestroysLate
<1>7. ASSUME NEW a \in Actors, FirefoxAnnouncesSource(a)
      PROVE  FirefoxTypes' /\ UNCHANGED sessionVars
  BY <1>7, Emits DEF FirefoxAnnouncesSource
<1>8. ASSUME NEW a \in Actors, FirefoxEchoes(a) PROVE FirefoxTypes' /\ UNCHANGED sessionVars
  BY <1>8, Emits DEF FirefoxEchoes
<1>9. QED
  BY <1>1, <1>2, <1>3, <1>4, <1>5, <1>6, <1>7, <1>8 DEF Firefox

LEMMA Delivered ==
  ASSUME FirefoxTypes, Deliver
  PROVE  FirefoxTypes' /\ Head(wire).actor \in Actors
<1>1. FirefoxTypes' /\ Head(wire) \in TargetPackets
  BY DEF FirefoxTypes, Deliver
<1>2. QED
  BY <1>1 DEF TargetPackets

-----------------------------------------------------------------------------
(* The handlers of the session, one by one *)

Drops(reported) ==
  dropped' = dropped \cup (ActorsOf(threads) \ ActorsOf(threads')) \cup reported

\* What a step may do to the TIDs that LLDB knows.
Steady ==
  /\ TopTid # 0 /\ TopTid' # TopTid => TopTid' = 0 /\ detached' # detached
  /\ nextTid' >= nextTid
  /\ \A i \in threads' : i.actor \in ActorsOf(threads) \/ i.tid >= nextTid
                           \/ (i.top /\ i.tid = TopTid)

SessionOK == SessionTypes' /\ (closed' \/ Sound') /\ Steady

LEMMA SteadyIf ==
  ASSUME SessionTypes, Tops' = Tops, pendingTopLevelTid' = pendingTopLevelTid, nextTid' >= nextTid,
         \A i \in threads' : i \in threads \/ i.tid >= nextTid
  PROVE  Steady
<1>1. TopTid' = TopTid
  BY DEF TopTid
<1>2. QED
  BY <1>1 DEF Steady, ActorsOf

LEMMA TopTidIs ==
  ASSUME Sound, NEW i \in Tops
  PROVE  TopTid = i.tid
  BY DEF TopTid, Tops, Sound, Threads

LEMMA CloseStep ==
  ASSUME SessionTypes, CloseSession, dropped' \subseteq Actors
  PROVE  SessionOK
<1>1. SessionTypes' /\ closed'
  BY DEF SessionTypes, CloseSession
<1>2. Steady
  <2>1. Tops' = Tops /\ pendingTopLevelTid' = pendingTopLevelTid /\ threads' = threads
    BY DEF CloseSession, Tops
  <2>2. nextTid' >= nextTid
    BY DEF CloseSession, SessionTypes
  <2>3. QED
    BY <2>1, <2>2, SteadyIf
<1>3. QED
  BY <1>1, <1>2 DEF SessionOK

LEMMA IgnoreStep ==
  ASSUME SessionTypes, Sound, IgnorePacket, Drops({})
  PROVE  SessionOK
<1>1. dropped' = dropped
  BY DEF IgnorePacket, Drops
<1>2. SessionTypes' /\ Sound'
  BY <1>1 DEF IgnorePacket, SessionTypes, Sound, Threads, Placed, Generations, Tops, Graves,
     ActorsOf, Current, Reports
<1>3. Steady
  <2>1. Tops' = Tops /\ pendingTopLevelTid' = pendingTopLevelTid /\ threads' = threads
    BY DEF IgnorePacket, Tops
  <2>2. nextTid' >= nextTid
    BY DEF IgnorePacket, SessionTypes
  <2>3. QED
    BY <2>1, <2>2, SteadyIf
<1>4. QED
  BY <1>2, <1>3 DEF SessionOK

LEMMA ActorsAre ==
  ASSUME NEW S \in SUBSET ThreadInfo
  PROVE  ActorsOf(S) \subseteq Actors
  BY DEF ActorsOf, ThreadInfo

LEMMA KnownIs ==
  ASSUME SessionTypes, NEW a, Known(a)
  PROVE  InfoOf(a) \in threads /\ InfoOf(a).actor = a
  BY DEF Known, InfoOf

\* Tombstones(old) stays a finite set of actors.
LEMMA TombstonesAre ==
  ASSUME SessionTypes, NEW old \in SUBSET threads
  PROVE  Tombstones(old) \subseteq Actors /\ IsFiniteSet(Tombstones(old))
<1> DEFINE actorOf == [i \in old |-> i.actor]
<1>1. IsFiniteSet(old) /\ ActorsOf(old) \subseteq Actors
  BY FS_Subset, ActorsAre DEF SessionTypes
<1>2. actorOf \in Surjection(old, ActorsOf(old))
  BY DEF Surjection, ActorsOf
<1>3. IsFiniteSet(ActorsOf(old))
  BY <1>1, <1>2, FS_Surjection
<1>4. QED
  BY <1>1, <1>3, FS_Union DEF Tombstones, SessionTypes

\* What TopLevelAvailable works with: the last page with all that came with it, or the
\* threads announced since.
LEMMA Predecessor ==
  ASSUME SessionTypes, Sound, NEW old, NEW kept,
         old = (IF Tops = {} THEN {} ELSE OfGeneration((CHOOSE i \in Tops : TRUE).gen)),
         kept = threads \ old
  PROVE  /\ Tops = {} => old = {} /\ kept = threads /\ activeGeneration = 0
         /\ Tops # {} => old = threads /\ kept = {}
<1>1. CASE Tops = {}
  BY <1>1 DEF Sound, Generations
<1>2. CASE Tops # {}
  <2>1. (CHOOSE i \in Tops : TRUE) \in Tops
    BY <1>2
  <2>2. (CHOOSE i \in Tops : TRUE).gen = activeGeneration
    BY <2>1 DEF Tops, Sound, Threads, Placed
  <2>3. OfGeneration(activeGeneration) = threads
    BY DEF OfGeneration, Sound, Threads, Placed
  <2>4. QED
    BY <1>2, <2>2, <2>3
<1>3. QED
  BY <1>1, <1>2

LEMMA PageTidIs ==
  ASSUME SessionTypes, Sound
  PROVE  /\ PageTid \in Nat /\ PageTid # 0 /\ PageTid <= nextTid
         /\ Tops = {} => \A i \in threads : i.tid # PageTid
         /\ Tops = {} => PageTid = IF pendingTopLevelTid # 0 THEN pendingTopLevelTid ELSE nextTid
         /\ Tops # {} => \E i \in Tops : PageTid = i.tid
<1>1. CASE Tops # {}
  <2>1. PICK i \in Tops : PageTid = i.tid
    BY <1>1 DEF PageTid
  <2>2. i \in threads /\ i.tid \in Nat /\ Placed(i)
    BY <2>1 DEF Tops, SessionTypes, ThreadInfo, Sound, Threads
  <2>3. QED
    BY <1>1, <2>1, <2>2 DEF Placed, SessionTypes
<1>2. CASE Tops = {}
  <2>1. PageTid = IF pendingTopLevelTid # 0 THEN pendingTopLevelTid ELSE nextTid
    BY <1>2 DEF PageTid
  <2>2. \A i \in threads : i.tid # PageTid
    BY <2>1 DEF Sound, Threads, Placed, SessionTypes, ThreadInfo
  <2>3. QED
    BY <1>2, <2>1, <2>2 DEF SessionTypes, Sound, Generations
<1>3. QED
  BY <1>1, <1>2

LEMMA AdoptIs ==
  ASSUME NEW S \in SUBSET ThreadInfo, NEW g \in Nat, \A i \in S : i.gen = 0
  PROVE  /\ Adopt(S, g) = {[i EXCEPT !.gen = g] : i \in S}
         /\ Adopt(S, g) \subseteq ThreadInfo
         /\ \A j \in Adopt(S, g) : \E i \in S :
              j.gen = g /\ j.tid = i.tid /\ j.actor = i.actor /\ j.top = i.top
         /\ \A i \in S : \E j \in Adopt(S, g) :
              j.gen = g /\ j.tid = i.tid /\ j.actor = i.actor /\ j.top = i.top
         /\ IsFiniteSet(S) => IsFiniteSet(Adopt(S, g)) /\ Cardinality(Adopt(S, g)) <= Cardinality(S)
<1>1. Adopt(S, g) = {[i EXCEPT !.gen = g] : i \in S}
  BY DEF Adopt, ThreadInfo
<1>2. ASSUME NEW i \in S
      PROVE  /\ [i EXCEPT !.gen = g] \in ThreadInfo /\ [i EXCEPT !.gen = g].gen = g
             /\ [i EXCEPT !.gen = g].tid = i.tid /\ [i EXCEPT !.gen = g].actor = i.actor
             /\ [i EXCEPT !.gen = g].top = i.top
  BY DEF ThreadInfo
<1>3. ASSUME IsFiniteSet(S)
      PROVE  IsFiniteSet(Adopt(S, g)) /\ Cardinality(Adopt(S, g)) <= Cardinality(S)
  <2> DEFINE f == [i \in S |-> [i EXCEPT !.gen = g]]
  <2>1. f \in Surjection(S, Adopt(S, g))
    BY <1>1 DEF Surjection
  <2>2. QED
    BY <1>3, <2>1, FS_Surjection
<1>4. QED
  BY <1>1, <1>2, <1>3

LEMMA PageStep ==
  ASSUME SessionTypes, Sound, NEW a \in TopActors, ~Known(a), a \notin retiredTargetActors,
         TopLevelAvailable(a), Drops({})
  PROVE  SessionOK
<1> DEFINE old == IF Tops = {} THEN {} ELSE OfGeneration((CHOOSE i \in Tops : TRUE).gen)
           kept == threads \ old
           gen == nextGeneration
           tid == PageTid
           new == [tid |-> tid, actor |-> a, gen |-> gen, top |-> TRUE]
<1>0. dropped' \subseteq Actors
  BY ActorsAre DEF Drops, SessionTypes
<1>1. CASE ~FitsTombstones(old) \/ Cardinality(kept) >= MaxThreads
  <2>1. CloseSession
    BY <1>1 DEF TopLevelAvailable
  <2>2. QED
    BY <1>0, <2>1, CloseStep
<1>2. CASE ~(~FitsTombstones(old) \/ Cardinality(kept) >= MaxThreads)
  <2>1. /\ retiredTargetActors' = Tombstones(old)
        /\ threads' = {i \in Adopt(kept, gen) : i.tid # tid} \cup {new}
        /\ nextTid' = IF tid = nextTid THEN nextTid + 1 ELSE nextTid
        /\ pendingTopLevelTid' = 0 /\ nextGeneration' = gen + 1 /\ activeGeneration' = gen
        /\ generationAborted' = FALSE /\ detachChecks' = {}
        /\ sources' = (IF Tops = {} THEN sources ELSE {})
        /\ closed' = closed /\ detached' = detached
    BY <1>2 DEF TopLevelAvailable
  <2>2. /\ Tops = {} => old = {} /\ kept = threads /\ activeGeneration = 0
        /\ Tops # {} => old = threads /\ kept = {}
    BY Predecessor
  <2>3. FitsTombstones(old) /\ ~(Cardinality(kept) >= MaxThreads)
    BY <1>2
  <2> HIDE DEF old, kept
  <2>4. tid \in Nat /\ tid # 0 /\ tid <= nextTid /\ (Tops = {} => \A i \in threads : i.tid # tid)
    BY PageTidIs
  <2> HIDE DEF tid
  <2>5. new \in ThreadInfo /\ new.tid = tid /\ new.actor = a /\ new.gen = gen /\ new.top = TRUE
    BY <2>4 DEF ThreadInfo, Actors, SessionTypes
  <2> HIDE DEF new
  <2>6. kept \subseteq threads /\ old \subseteq threads /\ kept \subseteq ThreadInfo
        /\ IsFiniteSet(kept) /\ Cardinality(kept) \in Nat /\ \A i \in kept : i.gen = 0
    <3>1. kept \subseteq threads /\ old \subseteq threads /\ \A i \in kept : i.gen = 0
      BY <2>2 DEF Sound, Threads, Placed
    <3>2. QED
      BY <3>1, FS_Subset, FS_CardinalityType DEF SessionTypes
  <2> DEFINE K == Adopt(kept, gen)
  <2>7. /\ K \subseteq ThreadInfo /\ IsFiniteSet(K) /\ Cardinality(K) <= Cardinality(kept)
        /\ \A j \in K : \E i \in kept :
             j.gen = gen /\ j.tid = i.tid /\ j.actor = i.actor /\ j.top = i.top
        /\ \A i \in kept : \E j \in K :
             j.gen = gen /\ j.tid = i.tid /\ j.actor = i.actor /\ j.top = i.top
    <3>1. gen \in Nat
      BY DEF SessionTypes
    <3>2. kept \in SUBSET ThreadInfo
      BY <2>6
    <3>3. QED
      BY <2>6, <3>1, <3>2, AdoptIs, Zenon
  <2> HIDE DEF K
  <2>8. {i \in K : i.tid # tid} = K
    BY <2>2, <2>4, <2>6, <2>7
  <2>9. threads' = K \cup {new}
    BY <2>1, <2>8 DEF K
  <2>10. /\ \A i \in K : i.gen = gen /\ i.tid # tid /\ i.tid # 0 /\ i.tid < nextTid
                         /\ i.top = FALSE /\ i.actor \in ActorsOf(kept) /\ i.actor \notin TopActors
         /\ \A i, j \in K : i.tid = j.tid \/ i.actor = j.actor => i = j
    <3>1. ASSUME NEW j \in K
          PROVE  /\ j.gen = gen /\ j.tid # tid /\ j.tid # 0 /\ j.tid < nextTid
                 /\ j.top = FALSE /\ j.actor \in ActorsOf(kept) /\ j.actor \notin TopActors
      <4>1. PICK i \in kept : j.gen = gen /\ j.tid = i.tid /\ j.actor = i.actor /\ j.top = i.top
        BY <2>7
      <4>2. i \in threads /\ Placed(i) /\ i \in ThreadInfo /\ Tops = {}
        BY <2>2, <2>6, <4>1 DEF Sound, Threads
      <4>3. i.top = FALSE
        BY <4>2 DEF Tops, ThreadInfo
      <4>4. QED
        BY <2>4, <4>1, <4>2, <4>3 DEF Placed, ActorsOf
    <3>2. ASSUME NEW i \in K, NEW j \in K, i.tid = j.tid \/ i.actor = j.actor PROVE i = j
      <4>1. PICK x \in kept : i.gen = gen /\ i.tid = x.tid /\ i.actor = x.actor /\ i.top = x.top
        BY <2>7
      <4>2. PICK y \in kept : j.gen = gen /\ j.tid = y.tid /\ j.actor = y.actor /\ j.top = y.top
        BY <2>7
      <4>3. x = y
        BY <2>6, <3>2, <4>1, <4>2 DEF Sound, Threads
      <4>4. i \in ThreadInfo /\ j \in ThreadInfo
        BY <2>7
      <4>5. QED
        BY <4>1, <4>2, <4>3, <4>4 DEF ThreadInfo
    <3>3. QED
      BY <3>1, <3>2
  <2>11. ActorsOf(threads') = ActorsOf(kept) \cup {a}
    <3>1. ActorsOf(K) = ActorsOf(kept)
      BY <2>7 DEF ActorsOf
    <3>2. QED
      BY <2>5, <2>9, <3>1 DEF ActorsOf
  <2>12. nextTid' \in Nat \ {0} /\ tid < nextTid' /\ nextTid <= nextTid'
    BY <2>1, <2>4 DEF SessionTypes
  <2>13. SessionTypes'
    <3>1. threads' \subseteq ThreadInfo /\ IsFiniteSet(threads')
      BY <2>5, <2>7, <2>9, FS_AddElement
    <3>2. Cardinality(threads') <= MaxThreads
      <4>1. Cardinality(K) \in Nat /\ Cardinality(K) <= Cardinality(kept)
        BY <2>7, FS_CardinalityType
      <4>2. Cardinality(threads') <= Cardinality(K) + 1
        <5>1. Cardinality(K \cup {new})
                = IF new \in K THEN Cardinality(K) ELSE Cardinality(K) + 1
          BY <2>7, FS_AddElement
        <5>2. QED
          BY <2>9, <4>1, <5>1
      <4>3. Cardinality(threads') \in Nat
        BY <3>1, FS_CardinalityType
      <4>4. QED
        BY <2>3, <2>6, <4>1, <4>2, <4>3, TargetsAssumption
    <3>3. /\ retiredTargetActors' \subseteq Actors /\ IsFiniteSet(retiredTargetActors')
          /\ Cardinality(retiredTargetActors') <= MaxTombstones
      <4>1. old \in SUBSET threads
        BY <2>6
      <4>2. QED
        BY <2>1, <2>3, <4>1, TombstonesAre DEF FitsTombstones
    <3>4. /\ nextGeneration' \in Nat \ {0} /\ activeGeneration' \in Nat
          /\ generationAborted' \in BOOLEAN /\ pendingTopLevelTid' \in Nat
          /\ detachChecks' \subseteq ThreadInfo
      <4>1. gen \in Nat \ {0} /\ gen + 1 \in Nat \ {0}
        BY DEF SessionTypes
      <4> HIDE DEF gen
      <4>2. QED
        BY <2>1, <4>1
    <3>5. /\ sources' \subseteq [actor : Actors, gen : Nat, since : Nat]
          /\ closed' \in BOOLEAN /\ detached' \subseteq Nat
      BY <2>1 DEF SessionTypes
    <3>6. QED
      BY <1>0, <2>12, <3>1, <3>2, <3>3, <3>4, <3>5 DEF SessionTypes
  <2>14. Threads'
    <3>1. ASSUME NEW i \in threads' PROVE Placed(i)'
      <4>1. /\ activeGeneration' = gen /\ pendingTopLevelTid' = 0 /\ i \in K \cup {new}
            /\ nextTid \in Nat /\ nextTid' \in Nat /\ tid < nextTid' /\ nextTid <= nextTid'
        BY <2>1, <2>9, <2>12 DEF SessionTypes
      <4>2. CASE i \in K
        <5>1. i.tid \in Nat
          BY <2>7, <4>2 DEF ThreadInfo
        <5>2. QED
          BY <2>10, <4>1, <4>2, <5>1 DEF Placed
      <4>3. CASE i = new
        BY <2>4, <2>5, <4>1, <4>3 DEF Placed
      <4>4. QED
        BY <4>1, <4>2, <4>3
    <3>2. a \notin ActorsOf(kept)
      BY <2>6 DEF Known, ActorsOf
    <3>3. \A i, j \in threads' : (i.top /\ j.top) \/ i.tid = j.tid \/ i.actor = j.actor => i = j
      BY <2>5, <2>9, <2>10, <3>2
    <3>4. QED
      BY <3>1, <3>3 DEF Threads
  <2>15. Generations'
    <3>1. Tops' # {}
      BY <2>5, <2>9 DEF Tops
    <3>2. QED
      BY <2>1, <2>12, <2>13, <3>1 DEF Generations, SessionTypes
  <2>16. Graves'
    <3>1. dropped' \subseteq retiredTargetActors'
      <4>1. ActorsOf(threads) \ ActorsOf(threads') \subseteq ActorsOf(old)
        BY <2>2, <2>11 DEF ActorsOf
      <4>2. QED
        BY <2>1, <4>1 DEF Drops, Sound, Graves, Tombstones
    <3>2. ActorsOf(kept) \cap ActorsOf(old) = {} /\ a \notin ActorsOf(old)
      BY <2>2, <2>6 DEF ActorsOf, Known
    <3>3. ActorsOf(kept) \cap retiredTargetActors = {}
      BY <2>6 DEF ActorsOf, Sound, Graves
    <3>4. ActorsOf(threads)' = ActorsOf(threads')
      BY DEF ActorsOf
    <3>5. QED
      BY <2>1, <2>11, <3>1, <3>2, <3>3, <3>4 DEF Graves, Tombstones
  <2>17. Current'
    <3>1. nextGeneration \in Nat /\ nextGeneration' = nextGeneration + 1 /\ activeGeneration' = nextGeneration
      BY <2>1 DEF SessionTypes
    <3>2. \A s \in sources' : s \in sources /\ s.gen \in Nat /\ s.gen < nextGeneration
      BY <2>1 DEF SessionTypes, Sound, Current
    <3>3. QED
      BY <3>1, <3>2 DEF Current
  <2>18. Reports'
    <3>1. \A g \in detached : g < nextGeneration /\ g \in Nat
      BY DEF Sound, Reports, SessionTypes
    <3>2. QED
      BY <2>1, <3>1 DEF Reports, SessionTypes
  <2>19. Steady
    <3>1. TopTid' = tid
      <4>1. new \in Tops' /\ Sound'
        BY <2>5, <2>9, <2>14, <2>15, <2>16, <2>17, <2>18 DEF Tops, Sound
      <4>2. \A i, j \in Tops' : i = j
        BY <2>14 DEF Threads, Tops
      <4>3. QED
        BY <2>5, <4>1, <4>2 DEF TopTid
    <3>2. tid = TopTid \/ (TopTid = 0 /\ tid = nextTid)
      <4>1. CASE Tops = {}
        BY <4>1, PageTidIs DEF TopTid, tid
      <4>2. CASE Tops # {}
        BY <4>2, PageTidIs, TopTidIs DEF tid
      <4>3. QED
        BY <4>1, <4>2
    <3>3. \A i \in threads' : \/ i.actor \in ActorsOf(threads)
                              \/ i.top /\ i.tid = tid
      BY <2>5, <2>6, <2>9, <2>10 DEF ActorsOf
    <3>4. nextTid' >= nextTid /\ nextTid >= nextTid
      BY <2>12 DEF SessionTypes
    <3>5. QED
      BY <3>1, <3>2, <3>3, <3>4 DEF Steady
  <2>20. QED
    BY <2>13, <2>14, <2>15, <2>16, <2>17, <2>18, <2>19 DEF SessionOK, Sound
<1>3. QED
  BY <1>1, <1>2

LEMMA WorkerStep ==
  ASSUME SessionTypes, Sound, NEW a \in WorkerActors, ~Known(a), a \notin retiredTargetActors,
         WorkerAvailable(a), Drops({})
  PROVE  SessionOK
<1> DEFINE new == [tid |-> nextTid, actor |-> a, gen |-> activeGeneration, top |-> FALSE]
<1>0. dropped' \subseteq Actors
  BY ActorsAre DEF Drops, SessionTypes
<1>1. CASE Cardinality(threads) >= MaxThreads
  BY <1>0, <1>1, CloseStep DEF WorkerAvailable
<1>2. CASE ~(Cardinality(threads) >= MaxThreads)
  <2>1. /\ threads' = threads \cup {new} /\ nextTid' = nextTid + 1
        /\ UNCHANGED <<retiredTargetActors, nextGeneration, activeGeneration, generationAborted,
                       pendingTopLevelTid, detachChecks, sources, closed, detached>>
    BY <1>2 DEF WorkerAvailable
  <2>2. /\ new \in ThreadInfo /\ new.tid = nextTid /\ new.actor = a
        /\ new.gen = activeGeneration /\ new.top = FALSE
    BY DEF ThreadInfo, Actors, SessionTypes
  <2> HIDE DEF new
  <2>3. nextTid \in Nat /\ nextTid # 0 /\ nextTid' \in Nat /\ nextTid' # 0 /\ nextTid < nextTid'
    BY <2>1 DEF SessionTypes
  <2>4. Cardinality(threads') <= MaxThreads /\ IsFiniteSet(threads')
    <3>1. IsFiniteSet(threads) /\ Cardinality(threads) \in Nat
      BY FS_CardinalityType DEF SessionTypes
    <3>2. /\ IsFiniteSet(threads \cup {new})
          /\ Cardinality(threads \cup {new})
               = IF new \in threads THEN Cardinality(threads) ELSE Cardinality(threads) + 1
      BY <3>1, FS_AddElement
    <3>3. QED
      BY <1>2, <2>1, <3>1, <3>2, TargetsAssumption
  <2>5. dropped' = dropped
    BY <2>1 DEF Drops, ActorsOf
  <2>6. SessionTypes'
    BY <2>1, <2>2, <2>3, <2>4, <2>5 DEF SessionTypes
  <2>7. Threads'
    <3>1. ASSUME NEW i \in threads' PROVE Placed(i)'
      <4>1. CASE i \in threads
        <5>1. i.tid \in Nat /\ Placed(i)
          BY <4>1 DEF SessionTypes, ThreadInfo, Sound, Threads
        <5>2. QED
          BY <2>1, <2>3, <5>1 DEF Placed
      <4>2. CASE i = new
        <5>1. a \notin TopActors /\ pendingTopLevelTid < nextTid /\ pendingTopLevelTid \in Nat
          BY TargetsAssumption DEF Sound, Generations, SessionTypes
        <5>2. QED
          BY <2>1, <2>2, <2>3, <4>2, <5>1 DEF Placed
      <4>3. QED
        BY <2>1, <4>1, <4>2
    <3>2. ASSUME NEW i \in threads PROVE i.tid # nextTid /\ i.actor # a
      BY <2>3 DEF SessionTypes, ThreadInfo, Sound, Threads, Placed, Known
    <3>3. \A i, j \in threads' : (i.top /\ j.top) \/ i.tid = j.tid \/ i.actor = j.actor => i = j
      BY <2>1, <2>2, <3>2 DEF Sound, Threads
    <3>4. QED
      BY <3>1, <3>3 DEF Threads
  <2>8. Tops' = Tops
    BY <2>1, <2>2 DEF Tops
  <2>9. Generations'
    BY <2>1, <2>3, <2>8 DEF Sound, Generations, SessionTypes
  <2>10. Graves'
    <3>1. ActorsOf(threads') = ActorsOf(threads) \cup {a}
      BY <2>1, <2>2 DEF ActorsOf
    <3>2. ActorsOf(threads)' = ActorsOf(threads')
      BY DEF ActorsOf
    <3>3. QED
      BY <2>1, <2>5, <3>1, <3>2 DEF Sound, Graves
  <2>11. Current' /\ Reports'
    BY <2>1 DEF Sound, Current, Reports
  <2>12. Steady
    <3>1. \A i \in threads' : i \in threads \/ i.tid >= nextTid
      BY <2>1, <2>2, <2>3
    <3>2. QED
      BY <2>1, <2>3, <2>8, <3>1, SteadyIf
  <2>13. QED
    BY <2>6, <2>7, <2>9, <2>10, <2>11, <2>12 DEF SessionOK, Sound
<1>3. QED
  BY <1>1, <1>2

\* Threads that go leave tombstones, and the rest is as it was.
LEMMA RestThreads ==
  ASSUME SessionTypes, Sound, NEW kept \in SUBSET threads, threads' = kept
  PROVE  /\ threads' \subseteq ThreadInfo /\ IsFiniteSet(threads') /\ Cardinality(threads') <= MaxThreads
         /\ \A i, j \in threads' : (i.top /\ j.top) \/ i.tid = j.tid \/ i.actor = j.actor => i = j
         /\ ActorsOf(threads)' = ActorsOf(kept)
         /\ ActorsOf(kept) \cap ActorsOf(threads \ kept) = {}
<1>1. IsFiniteSet(threads) /\ IsFiniteSet(kept) /\ Cardinality(kept) <= Cardinality(threads)
  BY FS_Subset DEF SessionTypes
<1>2. Cardinality(kept) \in Nat /\ Cardinality(threads) \in Nat
  BY <1>1, FS_CardinalityType
<1>3. Cardinality(kept) <= MaxThreads
  BY <1>1, <1>2, TargetsAssumption DEF SessionTypes
<1>4. \A i, j \in kept : (i.top /\ j.top) \/ i.tid = j.tid \/ i.actor = j.actor => i = j
  BY DEF Sound, Threads
<1>5. ActorsOf(kept) \cap ActorsOf(threads \ kept) = {}
  BY DEF ActorsOf, Sound, Threads
<1>6. ActorsOf(threads)' = ActorsOf(kept)
  BY DEF ActorsOf
<1>7. QED
  BY <1>1, <1>3, <1>4, <1>5, <1>6 DEF SessionTypes

LEMMA PageGoesStep ==
  ASSUME SessionTypes, Sound, NEW info \in threads, info.top, TopLevelDestroyed(info),
         Drops({info.actor})
  PROVE  SessionOK
<1> DEFINE old == OfGeneration(info.gen)
<1>0. dropped' \subseteq Actors /\ info \in ThreadInfo
  BY ActorsAre DEF Drops, SessionTypes, ThreadInfo
<1>1. CASE ~FitsTombstones(old)
  BY <1>0, <1>1, CloseStep DEF TopLevelDestroyed
<1>2. CASE FitsTombstones(old)
  <2>1. /\ threads' = threads \ old /\ retiredTargetActors' = Tombstones(old)
        /\ activeGeneration' = IF activeGeneration = info.gen THEN 0 ELSE activeGeneration
        /\ generationAborted' = TRUE /\ sources' = {} /\ pendingTopLevelTid' = info.tid
        /\ detachChecks' = detachChecks \cup {info}
        /\ UNCHANGED <<nextTid, nextGeneration, closed, detached>>
    BY <1>2 DEF TopLevelDestroyed
  <2>2. Placed(info) /\ info \in Tops /\ old = threads
    BY DEF Tops, Sound, Threads, Placed, OfGeneration
  <2>3. threads' = {} /\ activeGeneration' = 0 /\ activeGeneration # 0 /\ info.gen = activeGeneration
        /\ detachChecks = {}
    BY <2>1, <2>2 DEF Placed, Sound, Generations
  <2> HIDE DEF old
  <2>4. Tops' = {} /\ ActorsOf(threads)' = {} /\ ActorsOf(threads') = {}
    BY <2>3 DEF Tops, ActorsOf
  <2>5. SessionTypes'
    <3>1. {} \in SUBSET threads
      OBVIOUS
    <3>2. threads' \subseteq ThreadInfo /\ IsFiniteSet(threads') /\ Cardinality(threads') <= MaxThreads
      BY <2>3, <3>1, RestThreads
    <3>3. /\ retiredTargetActors' \subseteq Actors /\ IsFiniteSet(retiredTargetActors')
          /\ Cardinality(retiredTargetActors') <= MaxTombstones
      <4>1. old \in SUBSET threads
        BY <2>2
      <4>2. QED
        BY <1>2, <2>1, <4>1, TombstonesAre DEF FitsTombstones
    <3>4. pendingTopLevelTid' \in Nat /\ detachChecks' \subseteq ThreadInfo
      BY <1>0, <2>1, <2>3 DEF ThreadInfo
    <3>5. QED
      BY <1>0, <2>1, <2>3, <3>2, <3>3, <3>4 DEF SessionTypes
  <2>6. Threads'
    BY <2>3 DEF Threads
  <2>7. Generations'
    BY <2>1, <2>2, <2>3, <2>4 DEF Generations, Placed
  <2>8. Graves'
    <3>1. info.actor \in ActorsOf(threads)
      BY DEF ActorsOf
    <3>2. dropped' = dropped \cup ActorsOf(threads)
      BY <2>4, <3>1 DEF Drops
    <3>3. QED
      BY <2>1, <2>2, <2>4, <3>2 DEF Graves, Sound, Tombstones
  <2>9. Current'
    BY <2>1 DEF Current
  <2>10. Reports'
    BY <2>1, <2>3 DEF Reports, Sound, Generations
  <2>11. Steady
    <3>1. TopTid = info.tid /\ TopTid' = info.tid
      BY <2>1, <2>2, <2>4, TopTidIs DEF TopTid
    <3>2. nextTid' >= nextTid
      BY <2>1 DEF SessionTypes
    <3>3. QED
      BY <2>3, <3>1, <3>2 DEF Steady
  <2>12. QED
    BY <2>5, <2>6, <2>7, <2>8, <2>9, <2>10, <2>11 DEF SessionOK, Sound
<1>3. QED
  BY <1>1, <1>2

LEMMA OtherGoesStep ==
  ASSUME SessionTypes, Sound, NEW a \in Actors, ~(Known(a) /\ InfoOf(a).top), OtherDestroyed(a),
         Drops({a})
  PROVE  SessionOK
<1> DEFINE old == {i \in threads : i.actor = a}
           kept == threads \ old
<1>0. dropped' \subseteq Actors
  BY ActorsAre DEF Drops, SessionTypes
<1>1. CASE Cardinality(retiredTargetActors \cup {a}) > MaxTombstones
  BY <1>0, <1>1, CloseStep DEF OtherDestroyed
<1>2. CASE ~(Cardinality(retiredTargetActors \cup {a}) > MaxTombstones)
  <2>1. /\ threads' = kept /\ retiredTargetActors' = retiredTargetActors \cup {a}
        /\ UNCHANGED <<nextTid, nextGeneration, activeGeneration, generationAborted,
                       pendingTopLevelTid, detachChecks, sources, closed, detached>>
    BY <1>2 DEF OtherDestroyed
  <2>2. kept \in SUBSET threads /\ ActorsOf(threads \ kept) \subseteq {a} /\ a \notin ActorsOf(kept)
    BY DEF ActorsOf
  <2>3. \A i \in old : ~i.top
    <3>1. ASSUME NEW i \in old PROVE i = InfoOf(a) /\ Known(a)
      <4>1. Known(a)
        BY DEF Known
      <4>2. InfoOf(a) \in threads /\ InfoOf(a).actor = a
        BY <4>1, KnownIs
      <4>3. QED
        BY <4>1, <4>2 DEF Sound, Threads
    <3>2. QED
      BY <3>1
  <2>4. Tops' = Tops
    BY <2>1, <2>3 DEF Tops
  <2> HIDE DEF old, kept
  <2>5. /\ threads' \subseteq ThreadInfo /\ IsFiniteSet(threads') /\ Cardinality(threads') <= MaxThreads
        /\ \A i, j \in threads' : (i.top /\ j.top) \/ i.tid = j.tid \/ i.actor = j.actor => i = j
        /\ ActorsOf(threads)' = ActorsOf(kept)
    BY <2>1, <2>2, RestThreads
  <2>6. SessionTypes'
    <3>1. IsFiniteSet(retiredTargetActors') /\ Cardinality(retiredTargetActors') <= MaxTombstones
      <4>1. IsFiniteSet(retiredTargetActors \cup {a})
        BY FS_AddElement DEF SessionTypes
      <4>2. Cardinality(retiredTargetActors \cup {a}) \in Nat
        BY <4>1, FS_CardinalityType
      <4>3. QED
        BY <1>2, <2>1, <4>1, <4>2, TargetsAssumption
    <3>2. QED
      BY <1>0, <2>1, <2>5, <3>1 DEF SessionTypes
  <2>7. Threads'
    BY <2>1, <2>2, <2>5 DEF Sound, Threads, Placed
  <2>8. Generations'
    BY <2>1, <2>4 DEF Sound, Generations
  <2>9. Graves'
    <3>1. dropped' \subseteq dropped \cup {a}
      <4>1. ActorsOf(threads) \ ActorsOf(threads') \subseteq {a}
        BY <2>1, <2>2 DEF ActorsOf
      <4>2. QED
        BY <4>1 DEF Drops
    <3>2. ActorsOf(kept) \cap retiredTargetActors = {}
      BY <2>2 DEF ActorsOf, Sound, Graves
    <3>3. QED
      BY <2>1, <2>2, <2>5, <3>1, <3>2 DEF Sound, Graves
  <2>10. Current' /\ Reports'
    BY <2>1 DEF Sound, Current, Reports
  <2>11. Steady
    <3>1. nextTid' >= nextTid
      BY <2>1 DEF SessionTypes
    <3>2. QED
      BY <2>1, <2>2, <2>4, <3>1, SteadyIf
  <2>12. QED
    BY <2>6, <2>7, <2>8, <2>9, <2>10, <2>11 DEF SessionOK, Sound
<1>3. QED
  BY <1>1, <1>2

LEMMA RememberStep ==
  ASSUME SessionTypes, Sound, NEW a \in Actors, Known(a), RememberSource(a), dropped' = dropped
  PROVE  SessionOK
<1> DEFINE new == [actor |-> a, gen |-> InfoOf(a).gen, since |-> nextGeneration]
<1>1. /\ sources' = {s \in sources : s.actor # a} \cup {new}
      /\ UNCHANGED <<threads, retiredTargetActors, nextTid, nextGeneration, activeGeneration,
                     generationAborted, pendingTopLevelTid, detachChecks, closed, detached>>
  BY DEF RememberSource
<1>2. InfoOf(a).gen = activeGeneration
  BY KnownIs DEF Sound, Threads, Placed
<1>3. /\ new \in [actor : Actors, gen : Nat, since : Nat]
      /\ new.gen < nextGeneration /\ new.since = nextGeneration
  BY <1>2 DEF SessionTypes, Sound, Generations
<1> HIDE DEF new
<1>4. dropped' = dropped /\ Tops' = Tops /\ ActorsOf(threads)' = ActorsOf(threads)
  BY <1>1 DEF Tops, ActorsOf
<1>5. SessionTypes'
  BY <1>1, <1>3, <1>4 DEF SessionTypes
<1>6. Threads' /\ Generations' /\ Graves' /\ Reports'
  BY <1>1, <1>4 DEF Sound, Threads, Placed, Generations, Graves, Reports
<1>7. Current'
  BY <1>1, <1>3 DEF Sound, Current
<1>8. nextTid' >= nextTid
  BY <1>1 DEF SessionTypes
<1>9. Steady
  BY <1>1, <1>4, <1>8, SteadyIf
<1>10. QED
  BY <1>5, <1>6, <1>7, <1>9 DEF SessionOK, Sound

LEMMA SourceStep ==
  ASSUME SessionTypes, Sound, NEW a \in Actors, SourceAvailable(a), Drops({})
  PROVE  SessionOK
<1>1. CASE ~Known(a) \/ InfoOf(a).gen = 0
  BY <1>1, IgnoreStep DEF SourceAvailable
<1>2. CASE ~(~Known(a) \/ InfoOf(a).gen = 0)
  <2>1. Known(a) /\ RememberSource(a)
    BY <1>2 DEF SourceAvailable
  <2>2. dropped' = dropped
    BY <2>1 DEF RememberSource, Drops
  <2>3. QED
    BY <2>1, <2>2, RememberStep
<1>3. QED
  BY <1>1, <1>2

LEMMA GraceStep ==
  ASSUME SessionTypes, Sound, NEW info \in detachChecks, DetachGrace(info)
  PROVE  SessionOK
<1>1. /\ Tops = {} /\ info \in ThreadInfo /\ info.gen \in Nat /\ info.gen + 1 = nextGeneration
      /\ \A g \in detached : g < info.gen
  BY DEF SessionTypes, ThreadInfo, Sound, Generations, Reports
<1>2. /\ detachChecks' = detachChecks \ {info} /\ pendingTopLevelTid' = 0
      /\ detached' = detached \cup {info.gen}
      /\ UNCHANGED <<threads, retiredTargetActors, nextTid, nextGeneration, activeGeneration,
                     generationAborted, sources, closed, dropped>>
  BY <1>1 DEF DetachGrace
<1>3. Tops' = {} /\ ActorsOf(threads)' = ActorsOf(threads) /\ detachChecks' = {}
  BY <1>1, <1>2 DEF Tops, ActorsOf, Sound, Reports
<1>4. SessionTypes'
  BY <1>1, <1>2 DEF SessionTypes
<1>5. Threads'
  BY <1>2 DEF Sound, Threads, Placed
<1>6. Generations'
  BY <1>1, <1>2, <1>3 DEF Sound, Generations, SessionTypes
<1>7. Graves' /\ Current'
  BY <1>2, <1>3 DEF Sound, Graves, Current
<1>8. Reports'
  <2>1. activeGeneration = 0 /\ \A g \in detached : g < nextGeneration
    BY <1>1 DEF Sound, Generations, Reports
  <2>2. QED
    BY <1>1, <1>2, <1>3, <2>1 DEF Reports
<1>9. Steady
  <2>1. detached' # detached
    BY <1>1, <1>2
  <2>2. TopTid' = 0
    BY <1>2, <1>3 DEF TopTid
  <2>3. nextTid' >= nextTid
    BY <1>2 DEF SessionTypes
  <2>4. QED
    BY <1>2, <2>1, <2>2, <2>3 DEF Steady, ActorsOf
<1>10. QED
  BY <1>4, <1>5, <1>6, <1>7, <1>8, <1>9 DEF SessionOK, Sound

LEMMA DeliverStep ==
  ASSUME SessionTypes, Sound, Deliver, Head(wire).actor \in Actors
  PROVE  SessionOK
<1> DEFINE a == Head(wire).actor
           kind == Head(wire).kind
<1>1. a \in Actors /\ OnEvent(Head(wire))
      /\ Drops(IF kind = "destroyed" THEN {a} ELSE {})
  BY DEF Deliver, Drops
<1>2. CASE kind = "available"
  <2>1. TargetAvailable(a) /\ Drops({})
    BY <1>1, <1>2 DEF OnEvent
  <2>2. CASE a \in retiredTargetActors \/ Known(a)
    BY <2>1, <2>2, IgnoreStep DEF TargetAvailable
  <2>3. CASE ~(a \in retiredTargetActors \/ Known(a)) /\ a \in TopActors
    <3>1. TopLevelAvailable(a)
      BY <2>1, <2>3 DEF TargetAvailable
    <3>2. QED
      BY <2>1, <2>3, <3>1, PageStep
  <2>4. CASE ~(a \in retiredTargetActors \/ Known(a)) /\ a \notin TopActors
    <3>1. WorkerAvailable(a) /\ a \in WorkerActors
      BY <1>1, <2>1, <2>4 DEF TargetAvailable, Actors
    <3>2. QED
      BY <2>1, <2>4, <3>1, WorkerStep
  <2>5. QED
    BY <2>2, <2>3, <2>4
<1>3. CASE kind = "destroyed"
  <2>1. TargetDestroyed(a) /\ Drops({a})
    BY <1>1, <1>3 DEF OnEvent
  <2>2. CASE Known(a) /\ InfoOf(a).top
    <3>1. TopLevelDestroyed(InfoOf(a)) /\ InfoOf(a) \in threads /\ InfoOf(a).actor = a
      BY <2>1, <2>2, KnownIs DEF TargetDestroyed
    <3>2. QED
      BY <2>1, <2>2, <3>1, PageGoesStep
  <2>3. CASE ~(Known(a) /\ InfoOf(a).top)
    <3>1. OtherDestroyed(a)
      BY <2>1, <2>3 DEF TargetDestroyed
    <3>2. QED
      BY <1>1, <2>1, <2>3, <3>1, OtherGoesStep
  <2>4. QED
    BY <2>2, <2>3
<1>4. CASE kind = "source"
  <2>1. SourceAvailable(a) /\ Drops({})
    BY <1>1, <1>4 DEF OnEvent
  <2>2. QED
    BY <1>1, <2>1, SourceStep
<1>5. QED
  BY <1>1, <1>2, <1>3, <1>4 DEF OnEvent

-----------------------------------------------------------------------------
(* The invariant holds of every state, and every step keeps the TIDs *)

LEMMA Initially ==
  ASSUME Init
  PROVE  Inv
<1>1. SessionTypes
  <2>1. IsFiniteSet({}) /\ Cardinality({}) = 0
    BY FS_EmptySet
  <2>2. Cardinality({}) <= MaxThreads /\ Cardinality({}) <= MaxTombstones
    BY <2>1, TargetsAssumption
  <2>3. /\ IsFiniteSet(threads) /\ Cardinality(threads) <= MaxThreads
        /\ IsFiniteSet(retiredTargetActors) /\ Cardinality(retiredTargetActors) <= MaxTombstones
    BY <2>1, <2>2, Zenon DEF Init
  <2>4. /\ threads \subseteq ThreadInfo /\ retiredTargetActors \subseteq Actors
        /\ detachChecks \subseteq ThreadInfo
        /\ sources \subseteq [actor : Actors, gen : Nat, since : Nat]
        /\ detached \subseteq Nat /\ dropped \subseteq Actors
    BY DEF Init
  <2>5. /\ nextTid = 1 /\ nextGeneration = 1 /\ activeGeneration = 0 /\ pendingTopLevelTid = 0
        /\ generationAborted \in BOOLEAN /\ closed \in BOOLEAN
    BY DEF Init
  <2>6. QED
    BY <2>3, <2>4, <2>5 DEF SessionTypes
<1>2. FirefoxTypes
  BY DEF Init, FirefoxTypes
<1>3. Tops = {} /\ ActorsOf(threads) = {}
  BY DEF Init, Tops, ActorsOf
<1>4. Sound
  BY <1>3 DEF Init, Sound, Threads, Generations, Graves, Current, Reports
<1>5. QED
  BY <1>1, <1>2, <1>4 DEF Inv

LEMMA Step ==
  ASSUME Inv, Next
  PROVE  Inv' /\ Steady
<1>1. SessionTypes /\ FirefoxTypes /\ ~closed /\ Sound
  BY DEF Inv, Next, Deliver, SourcesReply, DetachGrace, SessionClose
<1>2. CASE Deliver
  <2>1. FirefoxTypes' /\ Head(wire).actor \in Actors
    BY <1>1, <1>2, Delivered
  <2>2. SessionOK
    BY <1>1, <1>2, <2>1, DeliverStep
  <2>3. QED
    BY <2>1, <2>2 DEF SessionOK, Inv
<1>3. ASSUME NEW info \in detachChecks, DetachGrace(info) PROVE Inv' /\ Steady
  <2>1. SessionOK
    BY <1>1, <1>3, GraceStep
  <2>2. FirefoxTypes'
    BY <1>1, <1>3 DEF DetachGrace, firefoxVars, FirefoxTypes
  <2>3. QED
    BY <2>1, <2>2 DEF SessionOK, Inv
<1>4. CASE SessionClose
  <2>1. dropped' \subseteq Actors /\ CloseSession
    BY <1>1, <1>4 DEF SessionClose, SessionTypes
  <2>2. SessionOK
    BY <1>1, <2>1, CloseStep
  <2>3. FirefoxTypes'
    BY <1>1, <1>4 DEF SessionClose, firefoxVars, FirefoxTypes
  <2>4. QED
    BY <2>2, <2>3 DEF SessionOK, Inv
<1>5. CASE Firefox
  <2>1. FirefoxTypes' /\ UNCHANGED sessionVars
    BY <1>1, <1>5, FirefoxStep
  <2>2. Tops' = Tops /\ ActorsOf(threads)' = ActorsOf(threads)
    BY <2>1 DEF sessionVars, Tops, ActorsOf
  <2>3. SessionTypes' /\ Sound'
    BY <1>1, <2>1, <2>2 DEF sessionVars, SessionTypes, Sound, Threads, Placed, Generations, Graves,
       Current, Reports
  <2>4. nextTid' >= nextTid
    BY <1>1, <2>1 DEF sessionVars, SessionTypes
  <2>5. Steady
    BY <1>1, <2>1, <2>2, <2>4, SteadyIf DEF sessionVars
  <2>6. QED
    BY <2>1, <2>3, <2>5 DEF Inv
<1>6. ASSUME NEW a \in Actors, SourcesReply(a) PROVE Inv' /\ Steady
  <2>1. SessionOK
    BY <1>1, <1>6, RememberStep DEF SourcesReply
  <2>2. FirefoxTypes'
    BY <1>1, <1>6 DEF SourcesReply, firefoxVars, FirefoxTypes
  <2>3. QED
    BY <2>1, <2>2 DEF SessionOK, Inv
<1>7. QED
  BY <1>2, <1>3, <1>4, <1>5, <1>6 DEF Next

LEMMA Stutter ==
  ASSUME Inv, UNCHANGED vars
  PROVE  Inv'
<1>1. UNCHANGED sessionVars /\ UNCHANGED firefoxVars
  BY DEF vars
<1>2. FirefoxTypes'
  BY <1>1 DEF firefoxVars, FirefoxTypes, Inv
<1>3. Tops' = Tops /\ ActorsOf(threads)' = ActorsOf(threads)
  BY <1>1 DEF sessionVars, Tops, ActorsOf
<1>4. SessionTypes' /\ (closed' \/ Sound')
  BY <1>1, <1>3 DEF Inv, sessionVars, SessionTypes, Sound, Threads, Placed, Generations, Graves,
     Current, Reports
<1>5. QED
  BY <1>2, <1>4 DEF Inv

-----------------------------------------------------------------------------
(* The wire *)

\* Where the packets of a kind about a target are on the wire.
Sent(kind, a) == {n \in DOMAIN wire : wire[n].kind = kind /\ wire[n].actor = a}

\* Positions that have moved up by one.
MovedUp(S, T) ==
  /\ \A n \in S : n \in Nat /\ n >= 1
  /\ \A n \in T : n \in Nat /\ n >= 1
  /\ \A n \in Nat : n >= 1 => (n \in T <=> n + 1 \in S)

LEMMA SentAreAt ==
  ASSUME NEW Kinds, wire \in Seq([kind : Kinds, actor : Actors]), NEW kind, NEW a
  PROVE  \A n \in Sent(kind, a) : n \in Nat /\ n >= 1 /\ n <= Len(wire)
<1>1. DOMAIN wire = 1..Len(wire) /\ Len(wire) \in Nat
  OBVIOUS
<1>2. QED
  BY <1>1 DEF Sent

\* A packet is one more, behind all the others.
Grows(kind, a) ==
  /\ Len(wire) \in Nat /\ Len(wire') = Len(wire) + 1
  /\ \A k, b : Sent(k, b)' = IF k = kind /\ b = a THEN Sent(k, b) \cup {Len(wire) + 1}
                                                  ELSE Sent(k, b)
  /\ \A k, b : \A n \in Sent(k, b) : n < Len(wire) + 1
  /\ \A b : b # a /\ (\A n \in DOMAIN wire : wire[n].actor # b)
              => \A n \in DOMAIN wire' : wire'[n].actor # b

LEMMA WireGrows ==
  ASSUME NEW Kinds, wire \in Seq([kind : Kinds, actor : Actors]), NEW kind \in Kinds,
         NEW a \in Actors, Emit(kind, a)
  PROVE  wire' \in Seq([kind : Kinds, actor : Actors]) /\ Grows(kind, a)
<1> DEFINE p == [kind |-> kind, actor |-> a]
           Packet == [kind : Kinds, actor : Actors]
<1>1. p \in Packet /\ p.kind = kind /\ p.actor = a
  OBVIOUS
<1>2. wire \in Seq(Packet) /\ wire' = Append(wire, p)
  BY DEF Emit
<1> HIDE DEF p, Packet
<1>3. /\ wire' \in Seq(Packet) /\ Len(wire) \in Nat /\ Len(wire') = Len(wire) + 1
      /\ DOMAIN wire = 1..Len(wire) /\ DOMAIN wire' = 1..(Len(wire) + 1)
      /\ wire'[Len(wire) + 1] = p /\ \A n \in 1..Len(wire) : wire'[n] = wire[n]
  BY <1>1, <1>2
<1>4. \A n \in 1..(Len(wire) + 1) : n \in 1..Len(wire) \/ n = Len(wire) + 1
  BY <1>3
<1>5. ASSUME NEW k, NEW b
      PROVE  Sent(k, b)' = IF k = kind /\ b = a THEN Sent(k, b) \cup {Len(wire) + 1} ELSE Sent(k, b)
  BY <1>1, <1>3, <1>4 DEF Sent
<1>6. \A k, b : \A n \in Sent(k, b) : n < Len(wire) + 1
  BY <1>3 DEF Sent
<1>7. \A b : b # a /\ (\A n \in DOMAIN wire : wire[n].actor # b)
               => \A n \in DOMAIN wire' : wire'[n].actor # b
  BY <1>1, <1>3, <1>4
<1>8. QED
  BY <1>3, <1>5, <1>6, <1>7 DEF Packet, Grows

\* The oldest packet goes, and all others move up.
LEMMA WireMoves ==
  ASSUME NEW Kinds, wire \in Seq([kind : Kinds, actor : Actors]), wire # <<>>, wire' = Tail(wire)
  PROVE  /\ wire' \in Seq([kind : Kinds, actor : Actors])
         /\ Len(wire) \in Nat /\ Len(wire) >= 1 /\ Len(wire') = Len(wire) - 1
         /\ Head(wire) \in [kind : Kinds, actor : Actors]
         /\ \A k, b : MovedUp(Sent(k, b), Sent(k, b)')
         /\ \A k, b : 1 \in Sent(k, b) <=> Head(wire).kind = k /\ Head(wire).actor = b
         /\ \A b : (\A n \in DOMAIN wire : wire[n].actor # b)
                     => Head(wire).actor # b /\ \A n \in DOMAIN wire' : wire'[n].actor # b
<1> DEFINE w == wire
           Packet == [kind : Kinds, actor : Actors]
<1>1. w \in Seq(Packet) /\ w # <<>> /\ wire' = Tail(w)
  OBVIOUS
<1> HIDE DEF w, Packet
<1>2. /\ DOMAIN w = 1..Len(w) /\ Len(w) \in Nat /\ Len(w) >= 1 /\ Head(w) = w[1] /\ w[1] \in Packet
      /\ Tail(w) \in Seq(Packet) /\ Len(Tail(w)) = Len(w) - 1
      /\ DOMAIN Tail(w) = 1..(Len(w) - 1)
      /\ \A n \in 1..(Len(w) - 1) : Tail(w)[n] = w[n + 1]
  BY <1>1
<1>3. \A n \in Nat : n >= 1 => (n \in 1..(Len(w) - 1) <=> n + 1 \in 1..Len(w))
  BY <1>2
<1>4. ASSUME NEW k, NEW b PROVE MovedUp(Sent(k, b), Sent(k, b)')
  <2>1. \A n \in Nat : n >= 1 => (n \in Sent(k, b)' <=> n + 1 \in Sent(k, b))
    BY <1>1, <1>2, <1>3 DEF Sent, w
  <2>2. \A n \in Sent(k, b)' : n \in Nat /\ n >= 1
    BY <1>1, <1>2 DEF Sent
  <2>3. \A n \in Sent(k, b) : n \in Nat /\ n >= 1
    BY <1>2 DEF Sent, w
  <2>4. QED
    BY <2>1, <2>2, <2>3 DEF MovedUp
<1>5. \A k, b : 1 \in Sent(k, b) <=> Head(wire).kind = k /\ Head(wire).actor = b
  BY <1>2 DEF Sent, w
<1>6. \A b : (\A n \in DOMAIN wire : wire[n].actor # b)
               => Head(wire).actor # b /\ \A n \in DOMAIN wire' : wire'[n].actor # b
  <2>1. \A n \in 1..(Len(w) - 1) : n + 1 \in 1..Len(w)
    BY <1>2
  <2>2. 1 \in 1..Len(w)
    BY <1>2
  <2>3. QED
    BY <1>1, <1>2, <2>1, <2>2 DEF w
<1>7. QED
  BY <1>1, <1>2, <1>4, <1>5, <1>6 DEF w, Packet

-----------------------------------------------------------------------------
(* Firefox and the session agree *)

\* Where the first announcement of a target is, if its destruction does not come before.
First(a) ==
  {n \in Sent("available", a) : \A m \in Sent("available", a) \cup Sent("destroyed", a) : n <= m}

\* When a target becomes a thread: it is one, is never again, or will be.
Enters(a) ==
  IF Known(a) THEN {0} ELSE IF a \in retiredTargetActors THEN {} ELSE First(a)

\* What makes the session drop a page: its destruction, or another page.
Ends(t) == Sent("destroyed", t) \cup UNION {Enters(u) : u \in TopActors \ {t}}

\* The session has a page no more by the time it handles packet n.
OverBy(t, n) == \A m \in Enters(t) : \E k \in Ends(t) : m < k /\ k < n

\* The session hears of a target only what Firefox knows about it.
Unseen ==
  \A a \in Actors : phase[a] \in {"unborn", "loading"} =>
    ~Known(a) /\ a \notin retiredTargetActors /\ \A n \in DOMAIN wire : wire[n].actor # a

Seen ==
  \A a \in Actors : phase[a] \notin {"unborn", "loading"} =>
    Enters(a) # {} \/ a \in retiredTargetActors \/ Sent("destroyed", a) # {}

Living ==
  \A a \in Actors : phase[a] = "live" => a \notin retiredTargetActors /\ Sent("destroyed", a) = {}

Mourned ==
  \A a \in Actors : phase[a] = "gone" => \A n \in Enters(a) : \E d \in Sent("destroyed", a) : n < d

\* There is one page at a time, and only its workers live.
Pages ==
  /\ \A w \in WorkerActors : /\ phase[w] = "live" => owner[w] = page /\ page # NoPage
                             /\ phase[w] # "loading"
  /\ \A t \in TopActors : phase[t] \in {"loading", "live"} <=> t = page

\* Between two pages, and until the next one is announced, what is on the wire ends all.
Gap ==
  page = NoPage \/ phase[page] = "loading" => \A t \in TopActors : OverBy(t, Len(wire) + 1)

\* A page comes after the pages before it, and its workers come after their end.
Succession ==
  \A a \in Actors : phase[a] = "live" =>
    \A n \in Enters(a), t \in TopActors \ {page} :
      IF a = page THEN \A m \in Enters(t) : m < n ELSE OverBy(t, n)

Agreement == Unseen /\ Seen /\ Living /\ Mourned /\ Pages /\ Gap /\ Succession

AgreeInv == Inv /\ (closed \/ Agreement)

-----------------------------------------------------------------------------
(* What a packet does to the threads and the tombstones *)

LEMMA KnownAre ==
  ASSUME NEW a
  PROVE  Known(a) <=> a \in ActorsOf(threads)
  BY DEF Known, ActorsOf

LEMMA ActorsPrime == ActorsOf(threads)' = ActorsOf(threads')
  BY DEF ActorsOf

LEMMA PageArrives ==
  ASSUME SessionTypes, Sound, NEW a \in TopActors, TopLevelAvailable(a), ~closed'
  PROVE  /\ Tops = {} => /\ ActorsOf(threads') = ActorsOf(threads) \cup {a}
                         /\ retiredTargetActors' = retiredTargetActors
         /\ Tops # {} => /\ ActorsOf(threads') = {a}
                         /\ retiredTargetActors' = retiredTargetActors \cup ActorsOf(threads)
<1> DEFINE old == IF Tops = {} THEN {} ELSE OfGeneration((CHOOSE i \in Tops : TRUE).gen)
           kept == threads \ old
           gen == nextGeneration
           tid == PageTid
           new == [tid |-> tid, actor |-> a, gen |-> gen, top |-> TRUE]
<1>1. ~(~FitsTombstones(old) \/ Cardinality(kept) >= MaxThreads)
  BY DEF TopLevelAvailable, CloseSession
<1>2. /\ retiredTargetActors' = Tombstones(old)
      /\ threads' = {i \in Adopt(kept, gen) : i.tid # tid} \cup {new}
  BY <1>1 DEF TopLevelAvailable
<1>3. /\ Tops = {} => old = {} /\ kept = threads /\ activeGeneration = 0
      /\ Tops # {} => old = threads /\ kept = {}
  BY Predecessor
<1>4. kept \in SUBSET threads
  OBVIOUS
<1> HIDE DEF old, kept
<1>5. Tops = {} => \A i \in threads : i.tid # tid
  BY PageTidIs
<1> HIDE DEF tid
<1>6. new.actor = a
  OBVIOUS
<1> HIDE DEF new
<1> DEFINE K == Adopt(kept, gen)
<1>7. /\ \A j \in K : \E i \in kept : j.tid = i.tid /\ j.actor = i.actor
      /\ \A i \in kept : \E j \in K : j.tid = i.tid /\ j.actor = i.actor
  <2>1. kept \in SUBSET ThreadInfo /\ gen \in Nat /\ \A i \in kept : i.gen = 0
    BY <1>3, <1>4 DEF SessionTypes, Sound, Threads, Placed
  <2>2. /\ \A j \in K : \E i \in kept :
             j.gen = gen /\ j.tid = i.tid /\ j.actor = i.actor /\ j.top = i.top
        /\ \A i \in kept : \E j \in K :
             j.gen = gen /\ j.tid = i.tid /\ j.actor = i.actor /\ j.top = i.top
    <3> HIDE DEF gen
    <3>1. IsFiniteSet(kept)
      BY <1>4, FS_Subset DEF SessionTypes
    <3>2. QED
      BY <2>1, <3>1, AdoptIs, Zenon
  <2>3. QED
    BY <2>2
<1> HIDE DEF K
<1>8. threads' = K \cup {new}
  <2>1. \A j \in K : j.tid # tid
    BY <1>3, <1>4, <1>5, <1>7
  <2>2. QED
    BY <1>2, <2>1 DEF K
<1>9. ActorsOf(K) = ActorsOf(kept)
  BY <1>7 DEF ActorsOf
<1>10. ActorsOf(threads') = ActorsOf(kept) \cup {a}
  BY <1>6, <1>8, <1>9 DEF ActorsOf
<1>11. ActorsOf({}) = {}
  BY DEF ActorsOf
<1>12. QED
  BY <1>2, <1>3, <1>10, <1>11 DEF Tombstones

\* What the packet at the head of the wire does.
Handled(a, kind) ==
  LET known == ActorsOf(threads)
      dead  == retiredTargetActors
      seen  == known \cup dead
      tops  == known \cap TopActors
  IN
  \/ /\ kind = "available" /\ a \notin seen /\ (a \in TopActors => tops = {})
     /\ ActorsOf(threads') = known \cup {a} /\ retiredTargetActors' = dead
  \/ /\ kind = "available" /\ a \notin seen /\ a \in TopActors /\ tops # {}
     /\ ActorsOf(threads') = {a} /\ retiredTargetActors' = dead \cup known
  \/ /\ kind = "source" \/ (kind = "available" /\ a \in seen)
     /\ ActorsOf(threads') = known /\ retiredTargetActors' = dead
  \/ /\ kind = "destroyed" /\ a \in tops
     /\ ActorsOf(threads') = {} /\ retiredTargetActors' = dead \cup known
  \/ /\ kind = "destroyed" /\ a \notin tops
     /\ ActorsOf(threads') = known \ {a} /\ retiredTargetActors' = dead \cup {a}

LEMMA TopsAre ==
  ASSUME Sound
  PROVE  /\ Tops = {} <=> ActorsOf(threads) \cap TopActors = {}
         /\ \A i \in threads : i.top <=> i.actor \in TopActors
  BY DEF Sound, Threads, Placed, Tops, ActorsOf

LEMMA Handles ==
  ASSUME SessionTypes, Sound, Deliver, Head(wire).actor \in Actors, ~closed'
  PROVE  Handled(Head(wire).actor, Head(wire).kind)
<1> DEFINE a == Head(wire).actor
           kind == Head(wire).kind
<1>1. a \in Actors /\ OnEvent(Head(wire))
  BY DEF Deliver
<1>2. CASE kind = "available"
  <2>1. TargetAvailable(a)
    BY <1>1, <1>2 DEF OnEvent
  <2>2. CASE a \in retiredTargetActors \/ Known(a)
    <3>1. IgnorePacket
      BY <2>1, <2>2 DEF TargetAvailable
    <3>2. QED
      BY <1>2, <2>2, <3>1, KnownAre DEF IgnorePacket, Handled
  <2>3. CASE ~(a \in retiredTargetActors \/ Known(a)) /\ a \in TopActors
    <3>1. TopLevelAvailable(a)
      BY <2>1, <2>3 DEF TargetAvailable
    <3>2. QED
      BY <1>2, <2>3, <3>1, KnownAre, TopsAre, PageArrives DEF Handled
  <2>4. CASE ~(a \in retiredTargetActors \/ Known(a)) /\ a \notin TopActors
    <3> DEFINE new == [tid |-> nextTid, actor |-> a, gen |-> activeGeneration, top |-> FALSE]
    <3>1. WorkerAvailable(a)
      BY <2>1, <2>4 DEF TargetAvailable
    <3>2. /\ threads' = threads \cup {new} /\ retiredTargetActors' = retiredTargetActors
      BY <3>1 DEF WorkerAvailable, CloseSession
    <3>3. new.actor = a
      OBVIOUS
    <3> HIDE DEF new
    <3>4. ActorsOf(threads') = ActorsOf(threads) \cup {a}
      BY <3>2, <3>3 DEF ActorsOf
    <3>5. QED
      BY <1>2, <2>4, <3>2, <3>4, KnownAre DEF Handled
  <2>5. QED
    BY <2>2, <2>3, <2>4
<1>3. CASE kind = "destroyed"
  <2>1. TargetDestroyed(a)
    BY <1>1, <1>3 DEF OnEvent
  <2>2. CASE Known(a) /\ InfoOf(a).top
    <3> DEFINE info == InfoOf(a)
    <3>1. TopLevelDestroyed(info) /\ info \in threads /\ info.actor = a /\ info.top
      BY <2>1, <2>2, KnownIs DEF TargetDestroyed
    <3> HIDE DEF info
    <3>2. OfGeneration(info.gen) = threads
      BY <3>1 DEF OfGeneration, Sound, Threads, Placed
    <3>3. threads' = {} /\ retiredTargetActors' = Tombstones(threads)
      BY <3>1, <3>2 DEF TopLevelDestroyed, CloseSession
    <3>4. a \in ActorsOf(threads) \cap TopActors
      BY <3>1, TopsAre DEF ActorsOf
    <3>5. ActorsOf(threads') = {}
      BY <3>3 DEF ActorsOf
    <3>6. QED
      BY <1>3, <3>3, <3>4, <3>5 DEF Handled, Tombstones
  <2>3. CASE ~(Known(a) /\ InfoOf(a).top)
    <3>1. OtherDestroyed(a)
      BY <2>1, <2>3 DEF TargetDestroyed
    <3>2. /\ threads' = threads \ {i \in threads : i.actor = a}
          /\ retiredTargetActors' = retiredTargetActors \cup {a}
      BY <3>1 DEF OtherDestroyed, CloseSession
    <3>3. ActorsOf(threads') = ActorsOf(threads) \ {a}
      BY <3>2 DEF ActorsOf
    <3>4. a \notin ActorsOf(threads) \cap TopActors
      BY <2>3, KnownIs, TopsAre, KnownAre
    <3>5. QED
      BY <1>3, <3>2, <3>3, <3>4 DEF Handled
  <2>4. QED
    BY <2>2, <2>3
<1>4. CASE kind = "source"
  <2>1. SourceAvailable(a)
    BY <1>1, <1>4 DEF OnEvent
  <2>2. UNCHANGED <<threads, retiredTargetActors>>
    BY <2>1 DEF SourceAvailable, RememberSource, IgnorePacket
  <2>3. QED
    BY <1>4, <2>2 DEF Handled
<1>5. QED
  BY <1>1, <1>2, <1>3, <1>4 DEF OnEvent

\* The packets of targets that Targets knows of.
LEMMA TargetWire ==
  ASSUME FirefoxTypes
  PROVE  wire \in Seq([kind : {"available", "destroyed", "source"}, actor : Actors])
  BY DEF FirefoxTypes, TargetPackets

LEMMA EntersAre ==
  ASSUME FirefoxTypes, NEW a
  PROVE  /\ 0 \in Enters(a) <=> Known(a)
         /\ \A n \in Enters(a) : n \in Nat /\ n <= Len(wire) /\ (n >= 1 => n \in First(a))
         /\ \A n \in First(a) : n \in Nat /\ n >= 1 /\ n <= Len(wire)
         /\ \A m, n \in Enters(a) : m = n
<1>1. \A k : \A n \in Sent(k, a) : n \in Nat /\ n >= 1 /\ n <= Len(wire)
  BY TargetWire, SentAreAt, Zenon
<1>2. \A n \in First(a) : n \in Nat /\ n >= 1 /\ n <= Len(wire)
  BY <1>1 DEF First
<1>3. \A m, n \in First(a) : m = n
  BY <1>1 DEF First
<1>4. Len(wire) \in Nat
  BY DEF FirefoxTypes
<1>5. CASE Known(a)
  BY <1>2, <1>4, <1>5 DEF Enters
<1>6. CASE ~Known(a)
  <2>1. Enters(a) \subseteq First(a)
    BY <1>6 DEF Enters
  <2>2. QED
    BY <1>2, <1>3, <1>6, <2>1
<1>7. QED
  BY <1>5, <1>6

LEMMA FirstMoves ==
  ASSUME FirefoxTypes, wire # <<>>, wire' = Tail(wire), NEW a
  PROVE  /\ Head(wire).actor # a \/ Head(wire).kind = "source"
              => \A n \in Nat : n >= 1 => (n \in First(a)' <=> n + 1 \in First(a))
         /\ Head(wire).actor = a /\ Head(wire).kind # "source" => \A n \in First(a) : n = 1
         /\ Head(wire).actor = a /\ Head(wire).kind = "available" => 1 \in First(a)
         /\ 1 \in First(a) => Head(wire).actor = a /\ Head(wire).kind = "available"
<1> DEFINE A == Sent("available", a)
           D == Sent("destroyed", a)
<1>1. /\ MovedUp(A, A') /\ MovedUp(D, D')
      /\ \A k : 1 \in Sent(k, a) <=> Head(wire).kind = k /\ Head(wire).actor = a
      /\ Head(wire).kind \in {"available", "destroyed", "source"}
  <2>1. Head(wire) \in [kind : {"available", "destroyed", "source"}, actor : Actors]
    BY TargetWire, WireMoves, Zenon
  <2>2. MovedUp(A, A') /\ MovedUp(D, D')
    BY TargetWire, WireMoves, Zenon
  <2>3. \A k : 1 \in Sent(k, a) <=> Head(wire).kind = k /\ Head(wire).actor = a
    BY TargetWire, WireMoves, Zenon
  <2>4. QED
    BY <2>1, <2>2, <2>3
<1>2. /\ First(a) = {n \in A : \A m \in A \cup D : n <= m}
      /\ First(a)' = {n \in A' : \A m \in A' \cup D' : n <= m}
  BY DEF First
<1>3. 1 \in A <=> Head(wire).kind = "available" /\ Head(wire).actor = a
  BY <1>1
<1>4. 1 \in D <=> Head(wire).kind = "destroyed" /\ Head(wire).actor = a
  BY <1>1
<1> HIDE DEF A, D
<1>5. ASSUME 1 \notin A \cup D, NEW n \in Nat, n >= 1 PROVE n \in First(a)' <=> n + 1 \in First(a)
  <2>1. ASSUME n \in First(a)', NEW m \in A \cup D PROVE n + 1 <= m
    <3>1. m \in Nat /\ m >= 1 /\ m # 1
      BY <1>1, <1>5, <2>1 DEF MovedUp
    <3>2. m - 1 \in Nat /\ m - 1 >= 1 /\ (m - 1) + 1 = m
      BY <3>1
    <3>3. m - 1 \in A' \cup D'
      BY <1>1, <2>1, <3>2 DEF MovedUp
    <3>4. n <= m - 1
      BY <1>2, <2>1, <3>3
    <3>5. QED
      BY <3>1, <3>4
  <2>2. ASSUME n + 1 \in First(a), NEW m \in A' \cup D' PROVE n <= m
    <3>1. m \in Nat /\ m >= 1 /\ m + 1 \in A \cup D
      BY <1>1, <2>2 DEF MovedUp
    <3>2. n + 1 <= m + 1
      BY <1>2, <2>2, <3>1
    <3>3. QED
      BY <3>1, <3>2
  <2>3. n \in A' <=> n + 1 \in A
    BY <1>1, <1>5 DEF MovedUp
  <2>4. QED
    BY <1>2, <2>1, <2>2, <2>3
<1>6. ASSUME 1 \in A \cup D, NEW n \in First(a) PROVE n = 1
  BY <1>1, <1>2, <1>6 DEF MovedUp
<1>7. 1 \in A => 1 \in First(a)
  BY <1>1, <1>2 DEF MovedUp
<1>8. 1 \in First(a) => 1 \in A
  BY <1>2
<1>9. QED
  BY <1>1, <1>3, <1>4, <1>5, <1>6, <1>7, <1>8

\* The threads to come move up with the wire, and the first of them comes.
LEMMA EntersMove ==
  ASSUME FirefoxTypes, wire # <<>>, wire' = Tail(wire), Handled(Head(wire).actor, Head(wire).kind),
         NEW a
  PROVE  /\ \A n \in Enters(a)' : n >= 1 => n + 1 \in Enters(a)
         /\ 0 \in Enters(a)' => 0 \in Enters(a) \/ 1 \in Enters(a)
         /\ \A n \in Nat : n >= 1 /\ n + 1 \in Enters(a) => n \in Enters(a)'
         /\ 1 \in Enters(a) => 0 \in Enters(a)'
         /\ \A n \in Enters(a)' : n \in Nat
         /\ Known(a) => Known(a)' \/ a \in retiredTargetActors'
         /\ a \in retiredTargetActors => a \in retiredTargetActors'
         /\ 1 \in Sent("destroyed", a) => a \in retiredTargetActors'
<1> DEFINE h == Head(wire).actor
           kind == Head(wire).kind
<1>1. /\ Known(a) <=> a \in ActorsOf(threads)
      /\ Known(a)' <=> a \in ActorsOf(threads')
  BY KnownAre DEF Known, ActorsOf
<1>2. /\ h # a \/ kind = "source"
           => \A n \in Nat : n >= 1 => (n \in First(a)' <=> n + 1 \in First(a))
      /\ h = a /\ kind # "source" => \A n \in First(a) : n = 1
      /\ h = a /\ kind = "available" => 1 \in First(a)
      /\ 1 \in First(a) => h = a /\ kind = "available"
  BY FirstMoves
<1>3. /\ \A n \in First(a) : n \in Nat /\ n >= 1
      /\ \A n \in First(a)' : n \in Nat /\ n >= 1
  <2>1. \A n \in First(a) : n \in Nat /\ n >= 1
    BY EntersAre
  <2>2. \A n \in Sent("available", a)' : n \in Nat /\ n >= 1
    <3>1. MovedUp(Sent("available", a), Sent("available", a)')
      BY TargetWire, WireMoves, Zenon
    <3>2. QED
      BY <3>1 DEF MovedUp
  <2>3. QED
    BY <2>1, <2>2 DEF First
<1>4. Handled(h, kind)
  OBVIOUS
<1>5. kind \in {"available", "destroyed", "source"}
  BY <1>4 DEF Handled
<1>6. 1 \in Sent("destroyed", a) => h = a /\ kind = "destroyed"
  BY TargetWire, WireMoves, Zenon
<1> HIDE DEF h, kind
<1>7. /\ Known(a) => Known(a)' \/ a \in retiredTargetActors'
      /\ a \in retiredTargetActors => a \in retiredTargetActors'
  BY <1>1, <1>4 DEF Handled
<1>8. h = a /\ kind = "destroyed" => a \in retiredTargetActors'
  BY <1>4 DEF Handled
<1>9. h = a /\ kind = "available" => Known(a)' \/ a \in retiredTargetActors'
  BY <1>1, <1>4 DEF Handled
<1>10. h # a \/ kind = "source" =>
         /\ Known(a)' => Known(a)
         /\ ~Known(a) /\ a \notin retiredTargetActors => ~Known(a)' /\ a \notin retiredTargetActors'
  BY <1>1, <1>4 DEF Handled
<1>11. h = a /\ kind = "available" /\ ~Known(a) /\ a \notin retiredTargetActors => Known(a)'
  BY <1>1, <1>4 DEF Handled
<1>12. h = a /\ kind = "destroyed" /\ ~Known(a) => ~Known(a)'
  BY <1>1, <1>4 DEF Handled
<1>13. h = a /\ kind = "available" /\ a \in retiredTargetActors => (Known(a)' => Known(a))
  BY <1>1, <1>4 DEF Handled
<1>14. /\ Enters(a) = IF Known(a) THEN {0} ELSE IF a \in retiredTargetActors THEN {} ELSE First(a)
       /\ Enters(a)' = IF Known(a)' THEN {0}
                       ELSE IF a \in retiredTargetActors' THEN {} ELSE First(a)'
  BY DEF Enters
<1>15. ASSUME NEW n \in Enters(a)', n >= 1 PROVE n + 1 \in Enters(a)
  <2>1. ~Known(a)' /\ a \notin retiredTargetActors' /\ n \in First(a)'
    BY <1>14, <1>15
  <2>2. ~Known(a) /\ a \notin retiredTargetActors
    BY <1>7, <2>1
  <2>3. h # a \/ kind = "source"
    BY <1>5, <1>8, <1>9, <2>1
  <2>4. n \in Nat /\ n + 1 \in First(a)
    BY <1>2, <1>3, <2>1, <2>3
  <2>5. QED
    BY <1>14, <2>2, <2>4
<1>16. 0 \in Enters(a)' => 0 \in Enters(a) \/ 1 \in Enters(a)
  <2>1. ASSUME Known(a)', ~Known(a) PROVE 1 \in Enters(a)
    <3>1. h = a /\ kind = "available" /\ a \notin retiredTargetActors
      BY <1>5, <1>10, <1>12, <1>13, <2>1
    <3>2. QED
      BY <1>2, <1>14, <2>1, <3>1
  <2>2. QED
    BY <1>3, <1>14, <2>1
<1>17. ASSUME NEW n \in Nat, n >= 1, n + 1 \in Enters(a) PROVE n \in Enters(a)'
  <2>1. ~Known(a) /\ a \notin retiredTargetActors /\ n + 1 \in First(a)
    BY <1>14, <1>17
  <2>2. h # a \/ kind = "source"
    BY <1>2, <1>17, <2>1
  <2>3. QED
    BY <1>2, <1>10, <1>14, <1>17, <2>1, <2>2
<1>18. 1 \in Enters(a) => 0 \in Enters(a)'
  BY <1>2, <1>11, <1>14
<1>19. \A n \in Enters(a)' : n \in Nat
  BY <1>3, <1>14
<1>20. QED
  BY <1>6, <1>7, <1>8, <1>15, <1>16, <1>17, <1>18, <1>19

\* A page the session keeps has not ended, and a thread it does not keep has, or its page has.
LEMMA KnownStay ==
  ASSUME FirefoxTypes, wire # <<>>, wire' = Tail(wire), Handled(Head(wire).actor, Head(wire).kind),
         NEW a
  PROVE  /\ a \in TopActors /\ Known(a) /\ Known(a)' => 1 \notin Ends(a)
         /\ Known(a) => \/ Known(a)' \/ 1 \in Sent("destroyed", a)
                        \/ \E t \in TopActors : Known(t) /\ t # a /\ 1 \in Sent("destroyed", t)
                        \/ \E t, u \in TopActors : Known(t) /\ 1 \in Enters(u)
<1> DEFINE h == Head(wire).actor
           kind == Head(wire).kind
<1>1. /\ \A b : Known(b) <=> b \in ActorsOf(threads)
      /\ Known(a)' <=> a \in ActorsOf(threads')
  BY KnownAre DEF Known, ActorsOf
<1>2. \A b : 1 \in Sent("destroyed", b) <=> kind = "destroyed" /\ h = b
  BY TargetWire, WireMoves, Zenon
<1>3. \A b : 1 \in Enters(b) <=> kind = "available" /\ h = b /\ ~Known(b) /\ b \notin retiredTargetActors
  <2>1. ASSUME NEW b
        PROVE  1 \in Enters(b) <=> kind = "available" /\ h = b /\ ~Known(b) /\ b \notin retiredTargetActors
    <3>1. 1 \in First(b) <=> h = b /\ kind = "available"
      BY FirstMoves
    <3>2. QED
      BY <3>1 DEF Enters
  <2>2. QED
    BY <2>1
<1>4. Handled(h, kind)
  OBVIOUS
<1> HIDE DEF h, kind
<1>5. ASSUME a \in TopActors, Known(a), 1 \in Ends(a) PROVE ~Known(a)'
  <2>1. CASE 1 \in Sent("destroyed", a)
    <3>1. kind = "destroyed" /\ h = a /\ a \in ActorsOf(threads) \cap TopActors
      BY <1>1, <1>2, <1>5, <2>1
    <3>2. QED
      BY <1>1, <1>4, <3>1 DEF Handled
  <2>2. ASSUME NEW u \in TopActors \ {a}, 1 \in Enters(u) PROVE ~Known(a)'
    <3>1. /\ kind = "available" /\ h = u /\ u \notin ActorsOf(threads) \cup retiredTargetActors
          /\ a \in ActorsOf(threads) \cap TopActors /\ u \in TopActors
      BY <1>1, <1>3, <1>5, <2>2
    <3>2. QED
      BY <1>1, <1>4, <2>2, <3>1 DEF Handled
  <2>3. QED
    BY <1>5, <2>1, <2>2 DEF Ends
<1>6. ASSUME Known(a), ~Known(a)', 1 \notin Sent("destroyed", a)
      PROVE  \/ \E t \in TopActors : Known(t) /\ t # a /\ 1 \in Sent("destroyed", t)
             \/ \E t, u \in TopActors : Known(t) /\ 1 \in Enters(u)
  <2>1. ~(kind = "destroyed" /\ h = a) /\ a \in ActorsOf(threads) /\ a \notin ActorsOf(threads')
    BY <1>1, <1>2, <1>6
  <2>2. CASE kind = "destroyed"
    <3>1. h \in ActorsOf(threads) \cap TopActors /\ h # a
      BY <1>4, <2>1, <2>2 DEF Handled
    <3>2. QED
      BY <1>1, <1>2, <2>2, <3>1
  <2>3. CASE kind # "destroyed"
    <3>1. /\ kind = "available" /\ h \notin ActorsOf(threads) \cup retiredTargetActors
          /\ h \in TopActors /\ ActorsOf(threads) \cap TopActors # {}
      BY <1>4, <2>1, <2>3 DEF Handled
    <3>2. QED
      BY <1>1, <1>3, <3>1
  <2>4. QED
    BY <2>2, <2>3
<1>7. QED
  BY <1>5, <1>6

LEMMA EndsMove ==
  ASSUME FirefoxTypes, wire # <<>>, wire' = Tail(wire), Handled(Head(wire).actor, Head(wire).kind),
         NEW t, NEW k \in Ends(t)
  PROVE  k \in Nat /\ (k >= 2 => k - 1 \in Ends(t)')
<1>1. CASE k \in Sent("destroyed", t)
  <2>1. MovedUp(Sent("destroyed", t), Sent("destroyed", t)')
    BY TargetWire, WireMoves, Zenon
  <2>2. k \in Nat
    BY <1>1, <2>1 DEF MovedUp
  <2>3. ASSUME k >= 2 PROVE k - 1 \in Sent("destroyed", t)'
    <3>1. k - 1 \in Nat /\ k - 1 >= 1 /\ (k - 1) + 1 = k
      BY <2>2, <2>3
    <3>2. QED
      BY <1>1, <2>1, <3>1 DEF MovedUp
  <2>4. QED
    BY <2>2, <2>3 DEF Ends
<1>2. ASSUME NEW u \in TopActors \ {t}, k \in Enters(u) PROVE k \in Nat /\ (k >= 2 => k - 1 \in Ends(t)')
  <2>1. k \in Nat
    BY <1>2, EntersAre
  <2>2. ASSUME k >= 2 PROVE k - 1 \in Enters(u)'
    <3>1. k - 1 \in Nat /\ k - 1 >= 1 /\ (k - 1) + 1 = k
      BY <2>1, <2>2
    <3>2. QED
      BY <1>2, <3>1, EntersMove
  <2>3. QED
    BY <2>1, <2>2 DEF Ends
<1>3. QED
  BY <1>1, <1>2 DEF Ends

\* What ends a page still does when the packet before it has been handled.
LEMMA OverByMoves ==
  ASSUME FirefoxTypes, wire # <<>>, wire' = Tail(wire), Handled(Head(wire).actor, Head(wire).kind),
         NEW t \in TopActors, NEW n, NEW x \in Nat, n = x + 1 \/ (n = 0 /\ x = 0), OverBy(t, n)
  PROVE  OverBy(t, x)'
<1>1. SUFFICES ASSUME NEW m \in Enters(t)' PROVE \E k \in Ends(t)' : m < k /\ k < x
  BY DEF OverBy
<1>2. m \in Nat /\ n \in Nat
  BY EntersMove
<1>3. CASE m >= 1
  <2>1. m + 1 \in Enters(t)
    BY <1>3, EntersMove
  <2>2. PICK k \in Ends(t) : m + 1 < k /\ k < n
    BY <2>1 DEF OverBy
  <2>3. k \in Nat /\ k >= 2 => k - 1 \in Ends(t)'
    BY EndsMove
  <2>4. k \in Nat /\ k >= 2 /\ m < k - 1 /\ k - 1 < x
    BY <1>2, <1>3, <2>2, EndsMove
  <2>5. QED
    BY <2>3, <2>4
<1>4. CASE m = 0
  <2>1. PICK b \in Enters(t) : b = 0 \/ b = 1
    BY <1>4, EntersMove
  <2>2. PICK k \in Ends(t) : b < k /\ k < n
    BY DEF OverBy
  <2>3. k \in Nat /\ (k >= 2 => k - 1 \in Ends(t)')
    BY EndsMove
  <2>4. k # 1
    <3>1. CASE k = 1
      <4>1. b = 0
        BY <2>1, <2>2, <3>1
      <4>2. Known(t) /\ Known(t)'
        <5>1. Known(t)
          BY <2>1, <4>1, EntersAre
        <5>2. ~Known(t)' => 0 \notin Enters(t)'
          <6>1. 0 \notin First(t)'
            <7>1. MovedUp(Sent("available", t), Sent("available", t)')
              BY TargetWire, WireMoves, Zenon
            <7>2. QED
              BY <7>1 DEF First, MovedUp
          <6>2. QED
            BY <6>1 DEF Enters
        <5>3. QED
          BY <1>4, <5>1, <5>2
      <4>3. QED
        BY <3>1, <4>2, KnownStay
    <3>2. QED
      BY <3>1
  <2>5. k >= 2 /\ 0 < k - 1 /\ k - 1 < x
    BY <1>2, <2>1, <2>2, <2>3, <2>4
  <2>6. QED
    BY <1>4, <2>3, <2>5
<1>5. QED
  BY <1>2, <1>3, <1>4

\* The targets that live are known, or will be: nothing the session does drops one of them.
LEMMA LivingStay ==
  ASSUME SessionTypes, FirefoxTypes, Agreement, wire # <<>>, wire' = Tail(wire),
         Handled(Head(wire).actor, Head(wire).kind), NEW a \in Actors, phase[a] = "live", Known(a)
  PROVE  Known(a)'
<1>1. /\ 0 \in Enters(a) /\ 1 \notin Sent("destroyed", a)
  BY EntersAre DEF Agreement, Living
<1>2. ASSUME NEW t \in TopActors \ {page} PROVE Enters(t) = {}
  <2>1. a = page => \A m \in Enters(t) : m < 0
    BY <1>1 DEF Agreement, Succession
  <2>2. a # page => OverBy(t, 0)
    BY <1>1 DEF Agreement, Succession
  <2>3. \A m \in Enters(t) : m \in Nat
    BY EntersAre
  <2>4. a # page => \A m \in Enters(t) : FALSE
    <3>1. \A k \in Ends(t) : k \in Nat
      BY EndsMove
    <3>2. QED
      BY <2>2, <2>3, <3>1 DEF OverBy
  <2>5. \A m \in Enters(t) : FALSE
    BY <2>1, <2>3, <2>4
  <2>6. QED
    BY <2>5
<1>3. \A t \in TopActors : Enters(t) # {} => t = page
  BY <1>2
<1>4. ASSUME NEW t \in TopActors, Known(t), t # a, 1 \in Sent("destroyed", t) PROVE FALSE
  <2>1. t = page
    BY <1>3, <1>4, EntersAre
  <2>2. phase[t] \in {"loading", "live"} /\ t \in Actors
    BY <2>1 DEF Agreement, Pages, Actors
  <2>3. phase[t] # "live"
    BY <1>4, <2>2 DEF Agreement, Living
  <2>4. phase[t] # "loading"
    BY <1>4, <2>2 DEF Agreement, Unseen
  <2>5. QED
    BY <2>2, <2>3, <2>4
<1>5. ASSUME NEW t \in TopActors, NEW u \in TopActors, Known(t), 1 \in Enters(u) PROVE FALSE
  <2>1. t = page /\ u = page /\ 0 \in Enters(t)
    BY <1>3, <1>5, EntersAre
  <2>2. QED
    BY <1>5, <2>1, EntersAre
<1>6. QED
  BY <1>1, <1>4, <1>5, KnownStay

LEMMA DeliverAgrees ==
  ASSUME SessionTypes, FirefoxTypes, Sound, Agreement, Deliver, ~closed'
  PROVE  Agreement'
<1>1. /\ wire # <<>> /\ wire' = Tail(wire) /\ UNCHANGED <<phase, page, owner>>
      /\ Handled(Head(wire).actor, Head(wire).kind)
  <2>1. Head(wire).actor \in Actors
    BY Delivered
  <2>2. QED
    BY <2>1, Handles DEF Deliver
<1>2. /\ Len(wire) \in Nat /\ Len(wire) >= 1 /\ Len(wire') = Len(wire) - 1
      /\ \A k, b : MovedUp(Sent(k, b), Sent(k, b)')
      /\ \A b : (\A n \in DOMAIN wire : wire[n].actor # b)
                  => Head(wire).actor # b /\ \A n \in DOMAIN wire' : wire'[n].actor # b
  <2> DEFINE Is == /\ Len(wire) \in Nat /\ Len(wire) >= 1 /\ Len(wire') = Len(wire) - 1
                   /\ \A k, b : MovedUp(Sent(k, b), Sent(k, b)')
                   /\ \A b : (\A n \in DOMAIN wire : wire[n].actor # b)
                        => Head(wire).actor # b /\ \A n \in DOMAIN wire' : wire'[n].actor # b
  <2>1. Is
    BY <1>1, TargetWire, WireMoves, Zenon
  <2>2. QED
    BY <2>1
<1>3. Unseen'
  <2>1. ASSUME NEW a \in Actors, phase[a] \in {"unborn", "loading"}
        PROVE  ~Known(a)' /\ a \notin retiredTargetActors'
                 /\ \A n \in DOMAIN wire' : wire'[n].actor # a
    <3>1. ~Known(a) /\ a \notin retiredTargetActors /\ \A n \in DOMAIN wire : wire[n].actor # a
      BY <2>1 DEF Agreement, Unseen
    <3>2. Head(wire).actor # a /\ \A n \in DOMAIN wire' : wire'[n].actor # a
      BY <1>2, <3>1
    <3>3. a \notin ActorsOf(threads)
      BY <3>1, KnownAre
    <3>4. a \notin ActorsOf(threads') /\ a \notin retiredTargetActors'
      BY <1>1, <3>1, <3>2, <3>3 DEF Handled
    <3>5. QED
      BY <3>2, <3>4 DEF Known, ActorsOf
  <2>2. QED
    BY <1>1, <2>1 DEF Unseen
<1>4. Seen'
  <2>1. ASSUME NEW a \in Actors, phase[a] \notin {"unborn", "loading"},
               a \notin retiredTargetActors', Enters(a)' = {}
        PROVE  Sent("destroyed", a)' # {}
    <3>1. a \notin retiredTargetActors /\ 1 \notin Sent("destroyed", a)
      BY <1>1, <2>1, EntersMove
    <3>2. ASSUME NEW n \in Enters(a) PROVE FALSE
      <4>1. n \in Nat
        BY EntersAre
      <4>2. CASE n = 0
        <5>1. Known(a)
          BY <3>2, <4>2, EntersAre
        <5>2. Known(a)'
          BY <1>1, <2>1, <5>1, EntersMove
        <5>3. QED
          BY <2>1, <5>2 DEF Enters
      <4>3. CASE n = 1
        BY <1>1, <2>1, <3>2, <4>3, EntersMove
      <4>4. CASE n >= 2
        <5>1. n - 1 \in Nat /\ n - 1 >= 1 /\ (n - 1) + 1 = n
          BY <4>1, <4>4
        <5>2. n - 1 \in Enters(a)'
          BY <1>1, <3>2, <5>1, EntersMove
        <5>3. QED
          BY <2>1, <5>2
      <4>5. QED
        BY <4>1, <4>2, <4>3, <4>4
    <3>3. PICK d \in Sent("destroyed", a) : TRUE
      BY <2>1, <3>1, <3>2 DEF Agreement, Seen
    <3>4. d \in Nat /\ d >= 1 /\ d # 1
      BY <1>2, <3>1 DEF MovedUp
    <3>5. d - 1 \in Nat /\ d - 1 >= 1 /\ (d - 1) + 1 = d
      BY <3>4
    <3>6. QED
      BY <1>2, <3>5 DEF MovedUp
  <2>2. QED
    BY <1>1, <2>1 DEF Seen
<1>5. Living'
  <2>1. ASSUME NEW a \in Actors, phase[a] = "live"
        PROVE  a \notin retiredTargetActors' /\ Sent("destroyed", a)' = {}
    <3>1. a \notin retiredTargetActors /\ Sent("destroyed", a) = {}
      BY <2>1 DEF Agreement, Living
    <3>2. Sent("destroyed", a)' = {}
      BY <1>2, <3>1 DEF MovedUp
    <3>3. Known(a) => a \in ActorsOf(threads')
      <4>1. Known(a) => Known(a)'
        BY <1>1, <2>1, LivingStay
      <4>2. QED
        BY <4>1 DEF Known, ActorsOf
    <3>4. ~(Head(wire).kind = "destroyed" /\ Head(wire).actor = a)
      <4>1. 1 \in Sent("destroyed", a) <=> Head(wire).kind = "destroyed" /\ Head(wire).actor = a
        BY <1>1, TargetWire, WireMoves, Zenon
      <4>2. QED
        BY <3>1, <4>1
    <3>5. a \notin retiredTargetActors'
      <4>1. Known(a) <=> a \in ActorsOf(threads)
        BY KnownAre
      <4>2. CASE a \notin ActorsOf(threads)
        BY <1>1, <3>1, <3>4, <4>2 DEF Handled
      <4>3. CASE a \in ActorsOf(threads)
        <5>1. a \in ActorsOf(threads')
          BY <3>3, <4>1, <4>3
        <5>2. QED
          BY <1>1, <3>1, <3>4, <4>3, <5>1 DEF Handled
      <4>4. QED
        BY <4>2, <4>3
    <3>6. QED
      BY <3>2, <3>5
  <2>2. QED
    BY <1>1, <2>1 DEF Living
<1>6. Mourned'
  <2>1. ASSUME NEW a \in Actors, phase[a] = "gone", NEW n \in Enters(a)'
        PROVE  \E d \in Sent("destroyed", a)' : n < d
    <3>1. n \in Nat /\ (n >= 1 => n + 1 \in Enters(a)) /\ (n = 0 => 0 \in Enters(a) \/ 1 \in Enters(a))
      BY <1>1, EntersMove
    <3>2. PICK b \in Enters(a) : b = n + 1 \/ (b = 0 /\ n = 0)
      BY <3>1
    <3>3. PICK d \in Sent("destroyed", a) : b < d
      BY <2>1 DEF Agreement, Mourned
    <3>4. d \in Nat /\ d >= 1
      BY <1>2 DEF MovedUp
    <3>5. d # 1
      <4>1. CASE d = 1
        <5>1. 1 \in Sent("destroyed", a) /\ a \in retiredTargetActors'
          BY <1>1, <4>1, EntersMove
        <5>2. Known(a)'
          BY <2>1, <5>1 DEF Enters
        <5>3. Sound' /\ SessionTypes'
          BY <1>1, Delivered, DeliverStep DEF SessionOK
        <5>4. QED
          BY <5>1, <5>2, <5>3 DEF Sound, Graves, Known, ActorsOf
      <4>2. QED
        BY <4>1
    <3>6. d - 1 \in Nat /\ d - 1 >= 1 /\ (d - 1) + 1 = d /\ n < d - 1
      BY <3>1, <3>2, <3>3, <3>4, <3>5
    <3>7. d - 1 \in Sent("destroyed", a)'
      BY <1>2, <3>6 DEF MovedUp
    <3>8. QED
      BY <3>6, <3>7
  <2>2. QED
    BY <1>1, <2>1 DEF Mourned
<1>7. Pages'
  BY <1>1 DEF Agreement, Pages
<1>8. Gap'
  <2>1. ASSUME page = NoPage \/ phase[page] = "loading", NEW t \in TopActors
        PROVE  OverBy(t, Len(wire) + 1)'
    <3>1. OverBy(t, Len(wire) + 1)
      BY <2>1 DEF Agreement, Gap
    <3> DEFINE x == Len(wire)
    <3>2. x \in Nat /\ Len(wire') + 1 = x
      BY <1>2
    <3>3. OverBy(t, x + 1)
      BY <3>1
    <3> HIDE DEF x
    <3>4. \A m \in Enters(t)' : \E k \in Ends(t)' : m < k /\ k < x
      BY <1>1, <3>2, <3>3, OverByMoves DEF OverBy
    <3>5. QED
      BY <3>2, <3>4 DEF OverBy
  <2>2. QED
    BY <1>1, <2>1 DEF Gap
<1>9. Succession'
  <2>1. ASSUME NEW a \in Actors, phase[a] = "live", NEW n \in Enters(a)', NEW t \in TopActors \ {page}
        PROVE  IF a = page THEN \A m \in Enters(t)' : m < n ELSE OverBy(t, n)'
    <3>1. n \in Nat /\ (n >= 1 => n + 1 \in Enters(a)) /\ (n = 0 => 0 \in Enters(a) \/ 1 \in Enters(a))
      BY <1>1, EntersMove
    <3>2. PICK b \in Enters(a) : b = n + 1 \/ (b = 0 /\ n = 0)
      BY <3>1
    <3>3. CASE a # page
      <4>1. OverBy(t, b)
        BY <2>1, <3>3 DEF Agreement, Succession
      <4>2. OverBy(t, n)'
        BY <1>1, <3>1, <3>2, <4>1, OverByMoves
      <4>3. QED
        BY <3>3, <4>2
    <3>4. ASSUME a = page, NEW m \in Enters(t)' PROVE m < n
      <4>1. \A q \in Enters(t) : q < b
        BY <2>1, <3>4 DEF Agreement, Succession
      <4>2. m \in Nat /\ (m >= 1 => m + 1 \in Enters(t)) /\ (m = 0 => 0 \in Enters(t) \/ 1 \in Enters(t))
        BY <1>1, EntersMove
      <4>3. CASE m >= 1
        BY <3>1, <3>2, <4>1, <4>2, <4>3
      <4>4. CASE m = 0 /\ n = 0
        <5>1. b \in {0, 1} /\ \A q \in Enters(t) : q \in Nat
          BY <3>2, <4>4, EntersAre
        <5>2. b = 1 /\ 0 \in Enters(t)
          BY <4>1, <4>2, <4>4, <5>1
        <5>3. Known(t)
          BY <5>2, EntersAre
        <5>4. a \in TopActors
          BY <2>1, <3>4, TargetsAssumption DEF FirefoxTypes
        <5>5. 1 \in Ends(t)
          BY <2>1, <3>2, <3>4, <5>2, <5>4 DEF Ends
        <5>6. ~Known(t)'
          BY <1>1, <5>3, <5>5, KnownStay
        <5>7. 0 \notin First(t)'
          BY <1>2 DEF First, MovedUp
        <5>8. QED
          BY <3>4, <4>4, <5>6, <5>7 DEF Enters
      <4>5. QED
        BY <3>1, <4>2, <4>3, <4>4
    <3>5. QED
      BY <3>3, <3>4
  <2>2. QED
    BY <1>1, <2>1 DEF Succession
<1>10. QED
  BY <1>3, <1>4, <1>5, <1>6, <1>7, <1>8, <1>9 DEF Agreement

-----------------------------------------------------------------------------
(* What a step of Firefox does to the agreement *)

\* The threads to come stay, and only an actor never heard of is one more.
LEMMA EntersGrow ==
  ASSUME FirefoxTypes, NEW kind \in {"available", "destroyed", "source"}, NEW a \in Actors,
         Emit(kind, a), UNCHANGED sessionVars
  PROVE  /\ \A b : (b # a \/ kind # "available") => Enters(b)' = Enters(b)
         /\ Enters(a) # {} \/ a \in retiredTargetActors \/ Sent("destroyed", a) # {}
              => Enters(a)' = Enters(a)
         /\ kind = "available" /\ ~Known(a) /\ a \notin retiredTargetActors
              /\ (\A n \in DOMAIN wire : wire[n].actor # a) => Enters(a)' = {Len(wire) + 1}
<1> DEFINE N == Len(wire) + 1
           A(b) == Sent("available", b)
           D(b) == Sent("destroyed", b)
           Grown == \A k, b : Sent(k, b)' = IF k = kind /\ b = a THEN Sent(k, b) \cup {Len(wire) + 1}
                                                                  ELSE Sent(k, b)
           Below == \A k, b : \A n \in Sent(k, b) : n < Len(wire) + 1
<1>1. Grown /\ Below /\ Len(wire) \in Nat
  <2> DEFINE Kinds == {"available", "destroyed", "source"}
  <2>1. wire \in Seq([kind : Kinds, actor : Actors]) /\ kind \in Kinds
    BY TargetWire
  <2> HIDE DEF Kinds
  <2>2. Grows(kind, a)
    BY <2>1, WireGrows
  <2>3. QED
    BY <2>2 DEF Grows
<1>2. \A k, b : Sent(k, b)' = IF k = kind /\ b = a THEN Sent(k, b) \cup {N} ELSE Sent(k, b)
  BY <1>1
<1>3. \A k, b : \A n \in Sent(k, b) : n \in Nat /\ n >= 1 /\ n < N
  <2>1. \A k, b : \A n \in Sent(k, b) : n \in Nat /\ n >= 1 /\ n <= Len(wire)
    BY TargetWire, SentAreAt, Zenon
  <2>2. QED
    BY <1>1, <2>1
<1>4. N \in Nat
  BY <1>1
<1> HIDE DEF N
<1>5. \A b : Known(b)' = Known(b) /\ retiredTargetActors' = retiredTargetActors
  BY DEF sessionVars, Known
<1>6. \A b : /\ First(b) = {n \in A(b) : \A m \in A(b) \cup D(b) : n <= m}
             /\ First(b)' = {n \in A(b)' : \A m \in A(b)' \cup D(b)' : n <= m}
  BY DEF First
<1>7. ASSUME NEW b, b # a PROVE First(b)' = First(b)
  <2>1. A(b)' = A(b) /\ D(b)' = D(b)
    BY <1>2, <1>7
  <2>2. QED
    BY <1>6, <2>1
<1>8. ASSUME kind # "available" PROVE First(a)' = First(a)
  <2>1. A(a)' = A(a) /\ (D(a)' = D(a) \/ D(a)' = D(a) \cup {N})
    BY <1>2, <1>8
  <2> HIDE DEF A, D
  <2>2. \A n \in A(a) : n <= N
    BY <1>3, <1>4 DEF A
  <2>3. QED
    BY <1>6, <2>1, <2>2
<1>9. ASSUME kind = "available", A(a) \cup D(a) # {} PROVE First(a)' = First(a)
  <2>1. A(a)' = A(a) \cup {N} /\ D(a)' = D(a)
    BY <1>2, <1>9
  <2>2. \A n \in A(a) \cup D(a) : n \in Nat /\ n < N
    BY <1>3
  <2> HIDE DEF A, D
  <2>3. \A n \in A(a) \cup D(a) : n <= N /\ ~(N <= n)
    BY <1>4, <2>2
  <2>4. QED
    BY <1>6, <1>9, <2>1, <2>3
<1>10. ASSUME kind = "available", A(a) = {}, D(a) = {} PROVE First(a)' = {N}
  <2>1. A(a)' = {N} /\ D(a)' = {}
    BY <1>2, <1>10
  <2> HIDE DEF A, D
  <2>2. QED
    BY <1>4, <1>6, <2>1
<1>11. \A b : /\ Enters(b) = IF Known(b) THEN {0} ELSE IF b \in retiredTargetActors THEN {} ELSE First(b)
              /\ Enters(b)' = IF Known(b) THEN {0} ELSE IF b \in retiredTargetActors THEN {} ELSE First(b)'
  BY <1>5 DEF Enters
<1>12. \A b : (b # a \/ kind # "available") => Enters(b)' = Enters(b)
  BY <1>7, <1>8, <1>11
<1>13. ASSUME Enters(a) # {} \/ a \in retiredTargetActors \/ D(a) # {} PROVE Enters(a)' = Enters(a)
  <2>1. CASE kind = "available" /\ ~Known(a) /\ a \notin retiredTargetActors
    <3>1. A(a) \cup D(a) # {}
      BY <1>6, <1>11, <1>13, <2>1
    <3>2. QED
      BY <1>9, <1>11, <2>1, <3>1
  <2>2. QED
    BY <1>11, <1>12, <2>1
<1>14. ASSUME kind = "available", ~Known(a), a \notin retiredTargetActors,
              \A n \in DOMAIN wire : wire[n].actor # a
       PROVE  Enters(a)' = {N}
  <2>1. A(a) = {} /\ D(a) = {}
    BY <1>14 DEF Sent
  <2>2. QED
    BY <1>10, <1>11, <1>14, <2>1
<1>15. QED
  BY <1>12, <1>13, <1>14 DEF N

\* What Firefox sends comes after everything there is, and takes nothing back.
Posts(kind, a) ==
  /\ Len(wire) \in Nat /\ Len(wire') = Len(wire) + 1
  /\ \A b : Known(b)' = Known(b)
  /\ retiredTargetActors' = retiredTargetActors
  /\ \A b : Sent("destroyed", b)' = IF kind = "destroyed" /\ b = a
                                    THEN Sent("destroyed", b) \cup {Len(wire) + 1}
                                    ELSE Sent("destroyed", b)
  /\ \A b : \A n \in Enters(b) \cup Sent("destroyed", b) : n \in Nat /\ n < Len(wire) + 1
  /\ \A b : b # a /\ (\A n \in DOMAIN wire : wire[n].actor # b)
              => \A n \in DOMAIN wire' : wire'[n].actor # b
  /\ \A b : b # a \/ kind # "available" => Enters(b)' = Enters(b)

LEMMA FirefoxPosts ==
  ASSUME FirefoxTypes, NEW kind \in {"available", "destroyed", "source"}, NEW a \in Actors,
         Emit(kind, a), UNCHANGED sessionVars
  PROVE  Posts(kind, a)
<1> DEFINE Grown == \A k, b : Sent(k, b)' = IF k = kind /\ b = a THEN Sent(k, b) \cup {Len(wire) + 1}
                                                                  ELSE Sent(k, b)
           Others == \A b : b # a /\ (\A n \in DOMAIN wire : wire[n].actor # b)
                              => \A n \in DOMAIN wire' : wire'[n].actor # b
<1>1. Grown /\ Others /\ Len(wire) \in Nat /\ Len(wire') = Len(wire) + 1
  <2> DEFINE Kinds == {"available", "destroyed", "source"}
  <2>1. wire \in Seq([kind : Kinds, actor : Actors]) /\ kind \in Kinds
    BY TargetWire
  <2> HIDE DEF Kinds
  <2>2. Grows(kind, a)
    BY <2>1, WireGrows
  <2>3. QED
    BY <2>2 DEF Grows
<1>2. \A b : Known(b)' = Known(b)
  BY DEF sessionVars, Known
<1>3. retiredTargetActors' = retiredTargetActors
  BY DEF sessionVars
<1>4. \A b : \A n \in Enters(b) : n \in Nat /\ n < Len(wire) + 1
  BY <1>1, EntersAre
<1>5. \A b : b # a \/ kind # "available" => Enters(b)' = Enters(b)
  BY EntersGrow
<1>6. \A b : Sent("destroyed", b)' = IF kind = "destroyed" /\ b = a
                                    THEN Sent("destroyed", b) \cup {Len(wire) + 1}
                                    ELSE Sent("destroyed", b)
  BY <1>1
<1>7. \A b : \A n \in Sent("destroyed", b) : n \in Nat /\ n < Len(wire) + 1
  <2>1. \A k, b : \A n \in Sent(k, b) : n \in Nat /\ n >= 1 /\ n <= Len(wire)
    BY TargetWire, SentAreAt, Zenon
  <2>2. QED
    BY <1>1, <2>1
<1>8. QED
  BY <1>1, <1>2, <1>3, <1>4, <1>5, <1>6, <1>7 DEF Posts

\* What ends a page still does.
LEMMA StaysOver ==
  ASSUME NEW kind, NEW a, Posts(kind, a), \A b : Enters(b) # {} => Enters(b)' = Enters(b),
         NEW t \in TopActors, Enters(t)' = Enters(t), NEW n \in Nat, OverBy(t, n)
  PROVE  OverBy(t, n)' /\ (n <= Len(wire) + 1 => OverBy(t, Len(wire) + 1)')
<1>1. ASSUME NEW k \in Ends(t) PROVE k \in Ends(t)' /\ k \in Nat
  <2>1. CASE k \in Sent("destroyed", t)
    BY <2>1 DEF Posts, Ends
  <2>2. ASSUME NEW u \in TopActors \ {t}, k \in Enters(u) PROVE k \in Ends(t)' /\ k \in Nat
    <3>1. k \in Enters(u)' /\ k \in Nat
      BY <2>2 DEF Posts
    <3>2. QED
      BY <3>1 DEF Ends
  <2>3. QED
    BY <1>1, <2>1, <2>2 DEF Ends
<1>2. OverBy(t, n)'
  BY <1>1 DEF OverBy
<1>3. ASSUME n <= Len(wire) + 1 PROVE OverBy(t, Len(wire) + 1)'
  <2>1. ASSUME NEW m \in Enters(t)' PROVE \E k \in Ends(t)' : m < k /\ k < Len(wire') + 1
    <3>1. PICK k \in Ends(t) : m < k /\ k < n
      BY <2>1 DEF OverBy
    <3>2. k \in Ends(t)' /\ k \in Nat
      BY <1>1
    <3>3. k < Len(wire') + 1
      BY <1>3, <3>1, <3>2 DEF Posts
    <3>4. QED
      BY <3>1, <3>2, <3>3
  <2>2. QED
    BY <2>1 DEF OverBy
<1>4. QED
  BY <1>2, <1>3

\* With the session and the wire as they are, so is what is to come.
LEMMA AsItWas ==
  ASSUME UNCHANGED <<threads, retiredTargetActors, wire>>
  PROVE  /\ \A b : Known(b)' = Known(b) /\ Enters(b)' = Enters(b)
         /\ \A k, b : Sent(k, b)' = Sent(k, b)
         /\ \A t, n : OverBy(t, n)' = OverBy(t, n)
<1>1. \A b : Known(b)' = Known(b)
  BY DEF Known
<1>2. \A k, b : Sent(k, b)' = Sent(k, b)
  BY DEF Sent
<1>3. \A b : First(b)' = First(b)
  BY <1>2 DEF First
<1>4. \A b : Enters(b)' = Enters(b)
  BY <1>1, <1>3 DEF Enters
<1>5. \A t : Ends(t)' = Ends(t)
  BY <1>2, <1>4 DEF Ends
<1>6. \A t, n : OverBy(t, n)' = OverBy(t, n)
  BY <1>4, <1>5 DEF OverBy
<1>7. QED
  BY <1>1, <1>2, <1>4, <1>6

LEMMA LoadsAgrees ==
  ASSUME FirefoxTypes, Agreement, NEW t \in TopActors, FirefoxLoads(t)
  PROVE  Agreement'
<1>1. UNCHANGED <<threads, retiredTargetActors, wire, owner>>
  BY DEF FirefoxLoads, sessionVars
<1>2. /\ page = NoPage /\ page' = t /\ phase[t] = "unborn" /\ phase'[t] = "loading"
      /\ \A a \in Actors : a # t => phase'[a] = phase[a]
      /\ t \in Actors /\ t \notin WorkerActors /\ NoPage \notin TopActors
  BY TargetsAssumption DEF FirefoxLoads, FirefoxTypes, Actors
<1>3. \A a \in Actors : phase[a] # "live"
  BY <1>2 DEF Agreement, Pages, Actors
<1>4. \A b : Known(b)' = Known(b) /\ Enters(b)' = Enters(b) /\ Sent("destroyed", b)' = Sent("destroyed", b)
  BY <1>1, AsItWas
<1>5. Unseen' /\ Living'
  BY <1>1, <1>2, <1>3, <1>4 DEF Agreement, Unseen, Living
<1>6. Seen' /\ Mourned'
  BY <1>1, <1>2, <1>4 DEF Agreement, Seen, Mourned
<1>7. Pages'
  BY <1>1, <1>2, <1>3 DEF Agreement, Pages, Actors
<1>8. Gap'
  <2>1. \A b \in TopActors : OverBy(b, Len(wire) + 1)
    BY <1>2 DEF Agreement, Gap
  <2>2. \A b \in TopActors : OverBy(b, Len(wire) + 1)'
    <3> DEFINE N == Len(wire) + 1
    <3>1. \A b \in TopActors : OverBy(b, N)' = OverBy(b, N)
      <4>1. \A b, n : OverBy(b, n)' = OverBy(b, n)
        BY <1>1, AsItWas
      <4>2. N' = N
        BY <1>1
      <4> HIDE DEF N
      <4>3. QED
        BY <4>1, <4>2 DEF OverBy
    <3>2. QED
      BY <2>1, <3>1
  <2>3. QED
    BY <2>2 DEF Gap
<1>9. Succession'
  BY <1>2, <1>3 DEF Succession
<1>10. QED
  BY <1>5, <1>6, <1>7, <1>8, <1>9 DEF Agreement

\* A page that is announced comes after all others.
LEMMA AnnouncesPageAgrees ==
  ASSUME FirefoxTypes, Agreement, NEW t \in TopActors, FirefoxAnnouncesPage(t)
  PROVE  Agreement'
<1> DEFINE N == Len(wire) + 1
<1>1. /\ phase[t] = "loading" /\ phase'[t] = "live" /\ page' = page /\ owner' = owner
      /\ \A a \in Actors : a # t => phase'[a] = phase[a]
      /\ t \in Actors /\ t \notin WorkerActors /\ NoPage \notin TopActors
  BY TargetsAssumption DEF FirefoxAnnouncesPage, FirefoxTypes, Actors
<1>2. page = t
  BY <1>1 DEF Agreement, Pages
<1>3. ~Known(t) /\ t \notin retiredTargetActors /\ \A n \in DOMAIN wire : wire[n].actor # t
  BY <1>1 DEF Agreement, Unseen
<1>4. Posts("available", t) /\ Enters(t)' = {N} /\ Enters(t) = {}
  <2>1. Emit("available", t) /\ UNCHANGED sessionVars
    BY DEF FirefoxAnnouncesPage
  <2>2. Sent("available", t) = {}
    BY <1>3 DEF Sent
  <2>3. QED
    BY <1>1, <1>3, <2>1, <2>2, FirefoxPosts, EntersGrow DEF Enters, First
<1>5. \A b : b # t => Enters(b)' = Enters(b)
  BY <1>4 DEF Posts
<1>6. N \in Nat /\ \A b : \A n \in Enters(b) : n < N
  BY <1>4 DEF Posts
<1> HIDE DEF N
<1>7. Unseen'
  BY <1>1, <1>4 DEF Agreement, Unseen, Posts
<1>8. Seen' /\ Living' /\ Mourned'
  <2>1. Sent("destroyed", t) = {}
    BY <1>3 DEF Sent
  <2>2. QED
    BY <1>1, <1>3, <1>4, <1>5, <2>1 DEF Agreement, Seen, Living, Mourned, Posts
<1>9. Pages'
  BY <1>1, <1>2 DEF Agreement, Pages, Actors
<1>10. Gap'
  BY <1>1, <1>2 DEF Gap
<1>11. Succession'
  <2>1. ASSUME NEW a \in Actors, phase'[a] = "live", NEW n \in Enters(a)', NEW b \in TopActors \ {t}
        PROVE  IF a = t THEN \A m \in Enters(b)' : m < n ELSE OverBy(b, n)'
    <3>1. CASE a = t
      BY <1>4, <1>5, <1>6, <2>1, <3>1
    <3>2. CASE a # t
      <4>1. n \in Enters(a) /\ phase[a] = "live" /\ n \in Nat
        BY <1>1, <1>4, <1>5, <2>1, <3>2 DEF Posts
      <4>2. OverBy(b, n)
        BY <1>2, <2>1, <3>2, <4>1 DEF Agreement, Succession
      <4>3. QED
        BY <1>4, <1>5, <3>2, <4>1, <4>2, StaysOver
    <3>3. QED
      BY <3>1, <3>2
  <2>2. QED
    BY <1>1, <1>2, <2>1 DEF Succession
<1>12. QED
  BY <1>7, <1>8, <1>9, <1>10, <1>11 DEF Agreement

\* A page that goes ends the pages before it with its announcement, and itself with its end.
LEMMA DestroysPageAgrees ==
  ASSUME FirefoxTypes, Agreement, NEW t \in TopActors, FirefoxDestroysPage(t)
  PROVE  Agreement'
<1> DEFINE N == Len(wire) + 1
<1>1. /\ page = t /\ page' = NoPage /\ owner' = owner /\ phase'[t] = "gone"
      /\ \A a \in Actors : \/ a = t \/ phase'[a] = phase[a]
                           \/ a \in WorkerActors /\ phase[a] = "live" /\ phase'[a] = "dying"
      /\ \A w \in WorkerActors : owner[w] = t /\ phase[w] = "live" => phase'[w] = "dying"
      /\ t \in Actors /\ t \notin WorkerActors /\ NoPage \notin TopActors
  BY TargetsAssumption DEF FirefoxDestroysPage, Dying, WorkersOf, FirefoxTypes, Actors
<1>2. phase[t] \in {"loading", "live"}
  BY <1>1 DEF Agreement, Pages
<1>3. Posts("destroyed", t)
  BY <1>1, FirefoxPosts DEF FirefoxDestroysPage
<1>4. \A b : Enters(b)' = Enters(b)
  BY <1>3 DEF Posts
<1>5. N \in Nat /\ \A b : \A n \in Enters(b) : n \in Nat /\ n < N
  BY <1>3 DEF Posts
<1>6. N \in Sent("destroyed", t)' /\ \A b : b # t => Sent("destroyed", b)' = Sent("destroyed", b)
  BY <1>3 DEF Posts
<1>7. \A a \in Actors : phase'[a] # "live"
  BY <1>1 DEF Agreement, Pages, Actors
<1>8. Unseen'
  BY <1>1, <1>3 DEF Agreement, Unseen, Posts
<1>9. Seen' /\ Living' /\ Mourned'
  <2>1. Seen'
    BY <1>1, <1>3, <1>4, <1>6 DEF Agreement, Seen, Posts
  <2>2. Mourned'
    <3> HIDE DEF N
    <3>1. QED
      BY <1>1, <1>4, <1>5, <1>6 DEF Agreement, Mourned
  <2>3. QED
    BY <1>7, <2>1, <2>2 DEF Living
<1>10. Pages'
  BY <1>1, <1>7 DEF Agreement, Pages, Actors
<1>11. ASSUME NEW b \in TopActors PROVE OverBy(b, N)'
  <2>1. CASE b = t
    <3>1. N \in Ends(b)' /\ \A m \in Enters(b)' : m < N /\ N < N + 1
      BY <1>4, <1>5, <1>6, <2>1 DEF Ends
    <3>2. N' = N + 1
      BY <1>3 DEF Posts
    <3> HIDE DEF N
    <3>3. \A m \in Enters(b)' : \E k \in Ends(b)' : m < k /\ k < N'
      BY <1>5, <3>1, <3>2
    <3>4. QED
      BY <3>3 DEF OverBy
  <2>2. CASE b # t /\ phase[t] = "loading"
    <3>1. OverBy(b, N)
      BY <1>1, <2>2 DEF Agreement, Gap
    <3>2. QED
      BY <1>3, <1>4, <1>5, <3>1, StaysOver
  <2>3. CASE b # t /\ phase[t] = "live"
    <3>1. PICK n \in Enters(t) : TRUE
      BY <1>1, <2>3 DEF Agreement, Seen, Living
    <3>2. \A m \in Enters(b) : m < n
      BY <1>1, <2>3, <3>1 DEF Agreement, Succession
    <3>3. n \in Ends(b)'
      BY <1>1, <1>4, <2>3, <3>1 DEF Ends
    <3>4. n \in Nat /\ n < N /\ N' = N + 1
      BY <1>3, <1>5, <3>1 DEF Posts
    <3> HIDE DEF N
    <3>5. ASSUME NEW m \in Enters(b)' PROVE \E k \in Ends(b)' : m < k /\ k < N'
      <4>1. m \in Enters(b)
        BY <1>4, <3>5
      <4>2. m < n /\ n < N'
        BY <1>5, <3>2, <3>4, <4>1
      <4>3. QED
        BY <3>3, <4>2
    <3>6. QED
      BY <3>5 DEF OverBy
  <2>4. QED
    BY <1>2, <2>1, <2>2, <2>3
<1>12. Gap'
  BY <1>11 DEF Gap
<1>13. Succession'
  BY <1>7 DEF Succession
<1>14. QED
  BY <1>8, <1>9, <1>10, <1>12, <1>13 DEF Agreement

LEMMA SwapsPageAgrees ==
  ASSUME FirefoxTypes, Agreement, NEW t \in TopActors, NEW u \in TopActors, FirefoxSwapsPage(t, u)
  PROVE  Agreement'
<1> DEFINE N == Len(wire) + 1
<1>1. /\ page = t /\ page' = u /\ owner' = owner /\ u # t /\ phase[u] = "unborn"
      /\ phase[t] = "live" /\ phase'[u] = "live" /\ phase'[t] = "dying"
      /\ \A a \in Actors : \/ a \in {t, u} \/ phase'[a] = phase[a]
                           \/ a \in WorkerActors /\ phase[a] = "live" /\ phase'[a] = "dying"
      /\ \A w \in WorkerActors : owner[w] = t /\ phase[w] = "live" => phase'[w] = "dying"
  BY TargetsAssumption DEF FirefoxSwapsPage, Dying, WorkersOf, FirefoxTypes, Actors
<1>2. t \in Actors /\ u \in Actors /\ u \notin WorkerActors /\ t \notin WorkerActors
        /\ NoPage \notin TopActors
  BY TargetsAssumption DEF Actors
<1>3. ~Known(u) /\ u \notin retiredTargetActors /\ \A n \in DOMAIN wire : wire[n].actor # u
  BY <1>1, <1>2 DEF Agreement, Unseen
<1>4. Posts("available", u) /\ Enters(u)' = {N}
  BY <1>2, <1>3, FirefoxPosts, EntersGrow DEF FirefoxSwapsPage
<1>5. \A b : b # u => Enters(b)' = Enters(b)
  BY <1>4 DEF Posts
<1>6. N \in Nat /\ \A b : \A n \in Enters(b) : n < N
  BY <1>4 DEF Posts
<1> HIDE DEF N
<1>7. \A a \in Actors : phase'[a] = "live" => a = u
  BY <1>1, <1>2 DEF Agreement, Pages, Actors
<1>8. Unseen'
  BY <1>1, <1>4 DEF Agreement, Unseen, Posts
<1>9. Seen' /\ Living' /\ Mourned'
  <2>1. Sent("destroyed", u) = {}
    BY <1>3 DEF Sent
  <2>2. Seen'
    BY <1>1, <1>2, <1>4, <1>5 DEF Agreement, Seen, Posts
  <2>3. Living'
    BY <1>2, <1>3, <1>4, <1>7, <2>1 DEF Living, Posts
  <2>4. Mourned'
    BY <1>1, <1>4, <1>5 DEF Agreement, Mourned, Posts
  <2>5. QED
    BY <2>2, <2>3, <2>4
<1>10. Pages'
  <2>1. \A w \in WorkerActors : phase'[w] # "live" /\ phase'[w] # "loading"
    BY <1>1, <1>2, <1>7 DEF Agreement, Pages, Actors
  <2>2. \A b \in TopActors : phase'[b] \in {"loading", "live"} <=> b = u
    BY <1>1, <1>2, <1>7, TargetsAssumption DEF Agreement, Pages, Actors
  <2>3. QED
    BY <1>1, <2>1, <2>2 DEF Pages
<1>11. Gap'
  BY <1>1, <1>2 DEF Gap
<1>12. Succession'
  <2>1. ASSUME NEW b \in TopActors \ {u}, NEW n \in Enters(u)', NEW m \in Enters(b)' PROVE m < n
    BY <1>4, <1>5, <1>6, <2>1
  <2>2. QED
    BY <1>1, <1>7, <2>1 DEF Succession
<1>13. QED
  BY <1>8, <1>9, <1>10, <1>11, <1>12 DEF Agreement

\* A worker comes after the announcement of its page, or in the gap before it.
LEMMA StartsWorkerAgrees ==
  ASSUME FirefoxTypes, Agreement, NEW w \in WorkerActors, FirefoxStartsWorker(w)
  PROVE  Agreement'
<1>1. Len(wire) \in Nat
  BY DEF FirefoxTypes
<1> DEFINE L == Len(wire) + 1
<1>2. PICK N \in Nat : N = L
  BY <1>1
<1>3. /\ page # NoPage /\ page' = page /\ phase[w] = "unborn" /\ phase'[w] = "live"
      /\ \A a \in Actors : a # w => phase'[a] = phase[a]
      /\ owner'[w] = page /\ \A v \in WorkerActors : v # w => owner'[v] = owner[v]
      /\ w \in Actors /\ w \notin TopActors /\ page \in TopActors /\ page \in Actors
  BY TargetsAssumption DEF FirefoxStartsWorker, FirefoxTypes, Actors
<1>4. ~Known(w) /\ w \notin retiredTargetActors /\ \A n \in DOMAIN wire : wire[n].actor # w
  BY <1>3 DEF Agreement, Unseen
<1>5. Posts("available", w) /\ Enters(w)' = {N} /\ Enters(w) = {}
  <2>1. Emit("available", w) /\ UNCHANGED sessionVars
    BY DEF FirefoxStartsWorker
  <2>2. Sent("available", w) = {}
    BY <1>4 DEF Sent
  <2>3. QED
    BY <1>3, <1>4, <1>2, <2>1, <2>2, FirefoxPosts, EntersGrow DEF Enters, First
<1>6. \A b : b # w => Enters(b)' = Enters(b)
  BY <1>5 DEF Posts
<1>7. N \in Nat /\ \A b : \A n \in Enters(b) : n \in Nat /\ n < N
  BY <1>5, <1>2 DEF Posts
<1>8. Unseen'
  BY <1>3, <1>5 DEF Agreement, Unseen, Posts
<1>9. Seen' /\ Living' /\ Mourned'
  <2>1. Sent("destroyed", w) = {}
    BY <1>4 DEF Sent
  <2>2. Seen'
    BY <1>3, <1>5, <1>6 DEF Agreement, Seen, Posts
  <2>3. Living'
    BY <1>3, <1>4, <1>5, <2>1 DEF Agreement, Living, Posts
  <2>4. Mourned'
    BY <1>3, <1>5, <1>6 DEF Agreement, Mourned, Posts
  <2>5. QED
    BY <2>2, <2>3, <2>4
<1>10. Pages'
  BY <1>3 DEF Agreement, Pages, Actors
<1>11. ASSUME NEW b \in TopActors, NEW n \in Nat, OverBy(b, n)
       PROVE  OverBy(b, n)' /\ (n <= N => OverBy(b, Len(wire) + 1)')
  <2>1. b # w
    BY <1>3
  <2>2. QED
    BY <1>5, <1>6, <1>2, <1>11, <2>1, StaysOver
<1>12. Gap'
  <2>1. ASSUME phase[page] = "loading", NEW b \in TopActors PROVE OverBy(b, Len(wire) + 1)'
    <3>1. OverBy(b, N)
      BY <1>2, <2>1 DEF Agreement, Gap
    <3>2. N <= N
      BY <1>7
    <3>3. QED
      BY <1>7, <1>11, <3>1, <3>2
  <2>2. page # w
    BY <1>3
  <2>3. QED
    BY <1>3, <2>1, <2>2 DEF Gap
<1>13. ASSUME NEW b \in TopActors \ {page} PROVE OverBy(b, N)'
  <2>1. CASE phase[page] = "loading"
    <3>1. OverBy(b, N)
      BY <1>2, <2>1 DEF Agreement, Gap
    <3>2. QED
      BY <1>7, <1>11, <3>1
  <2>2. CASE phase[page] = "live"
    <3>1. PICK p \in Enters(page) : TRUE
      BY <1>3, <2>2 DEF Agreement, Seen, Living
    <3>2. \A m \in Enters(b) : m < p
      BY <1>3, <2>2, <3>1 DEF Agreement, Succession
    <3>3. p < N
      BY <1>7, <3>1
    <3>4. OverBy(b, N)
      <4>1. p \in Ends(b)
        BY <1>3, <3>1 DEF Ends
      <4>2. QED
        BY <3>2, <3>3, <4>1 DEF OverBy
    <3>5. QED
      BY <1>11, <3>4
  <2>3. QED
    BY <1>3, <2>1, <2>2 DEF Agreement, Pages
<1>14. Succession'
  <2>1. ASSUME NEW a \in Actors, phase'[a] = "live", NEW n \in Enters(a)', NEW b \in TopActors \ {page}
        PROVE  IF a = page THEN \A m \in Enters(b)' : m < n ELSE OverBy(b, n)'
    <3>1. CASE a = w
      BY <1>3, <1>5, <1>13, <2>1, <3>1
    <3>2. CASE a # w
      <4>1. n \in Enters(a) /\ phase[a] = "live" /\ n \in Nat /\ Enters(b)' = Enters(b)
        BY <1>3, <1>6, <1>7, <2>1, <3>2
      <4>2. IF a = page THEN \A m \in Enters(b) : m < n ELSE OverBy(b, n)
        BY <2>1, <4>1 DEF Agreement, Succession
      <4>3. QED
        BY <1>11, <4>1, <4>2
    <3>3. QED
      BY <3>1, <3>2
  <2>2. QED
    BY <1>3, <2>1 DEF Succession
<1>15. QED
  BY <1>8, <1>9, <1>10, <1>12, <1>14 DEF Agreement

\* A target that is heard of, and heard of again, or to the end.
LEMMA HeardOfAgrees ==
  ASSUME FirefoxTypes, Agreement, NEW a \in Actors,
         FirefoxDestroysLate(a) \/ FirefoxAnnouncesSource(a) \/ FirefoxEchoes(a)
  PROVE  Agreement'
<1> DEFINE N == Len(wire) + 1
<1>1. /\ page' = page /\ owner' = owner /\ phase[a] \notin {"unborn", "loading"}
      /\ \A b \in Actors : b # a => phase'[b] = phase[b]
  BY DEF FirefoxDestroysLate, FirefoxAnnouncesSource, FirefoxEchoes, FirefoxTypes
<1>2. PICK kind \in {"available", "destroyed", "source"} :
        /\ Emit(kind, a) /\ UNCHANGED sessionVars
        /\ kind # "destroyed" => phase'[a] = phase[a]
        /\ kind = "destroyed" => /\ phase'[a] = "gone"
                                 /\ phase[a] = "dying" \/ (a \in WorkerActors /\ phase[a] = "live")
  BY DEF FirefoxDestroysLate, FirefoxAnnouncesSource, FirefoxEchoes, FirefoxTypes
<1>3. Posts(kind, a)
  BY <1>2, FirefoxPosts
<1>4. Enters(a) # {} \/ a \in retiredTargetActors \/ Sent("destroyed", a) # {}
  BY <1>1 DEF Agreement, Seen
<1>5. \A b : Enters(b)' = Enters(b)
  BY <1>2, <1>3, <1>4, EntersGrow DEF Posts
<1>6. N \in Nat /\ \A b : \A n \in Enters(b) : n < N
  BY <1>3 DEF Posts
<1>7. /\ kind # "destroyed" => \A b : Sent("destroyed", b)' = Sent("destroyed", b)
      /\ kind = "destroyed" => N \in Sent("destroyed", a)'
      /\ \A b : b # a => Sent("destroyed", b)' = Sent("destroyed", b)
      /\ \A b : Sent("destroyed", b) \subseteq Sent("destroyed", b)'
  BY <1>3 DEF Posts
<1>8. phase[a] # "loading" /\ phase'[a] # "loading" /\ phase'[a] # "unborn"
  BY <1>1, <1>2
<1>9. \A b \in Actors : phase'[b] = "live" => phase[b] = "live" /\ (kind # "destroyed" \/ b # a)
  BY <1>1, <1>2
<1>10. Len(wire) + 1 = N
  OBVIOUS
<1> HIDE DEF N
<1>11. Unseen'
  BY <1>1, <1>3, <1>8 DEF Agreement, Unseen, Posts
<1>12. Seen' /\ Living' /\ Mourned'
  <2>1. Seen'
    BY <1>1, <1>3, <1>5, <1>7 DEF Agreement, Seen, Posts
  <2>2. Living'
    BY <1>3, <1>7, <1>9 DEF Agreement, Living, Posts
  <2>3. Mourned'
    BY <1>1, <1>2, <1>5, <1>6, <1>7 DEF Agreement, Mourned
  <2>4. QED
    BY <2>1, <2>2, <2>3
<1>13. Pages'
  BY <1>1, <1>2, <1>8, <1>9, TargetsAssumption DEF Agreement, Pages, Actors
<1>14. Gap'
  <2>1. ASSUME page = NoPage \/ phase'[page] = "loading", NEW b \in TopActors
        PROVE  OverBy(b, Len(wire) + 1)'
    <3>1. page = NoPage \/ phase[page] = "loading"
      <4>1. page \in TopActors => page \in Actors
        BY DEF Actors
      <4>2. page # a => page = NoPage \/ phase'[page] = phase[page]
        BY <1>1, <4>1 DEF FirefoxTypes
      <4>3. QED
        BY <1>8, <2>1, <4>2
    <3>2. OverBy(b, N)
      BY <1>10, <3>1 DEF Agreement, Gap
    <3>3. N <= Len(wire) + 1
      BY <1>6, <1>10
    <3>4. QED
      BY <1>3, <1>5, <1>6, <3>2, <3>3, StaysOver
  <2>2. QED
    BY <1>1, <2>1 DEF Gap
<1>15. Succession'
  <2>1. ASSUME NEW b \in Actors, phase'[b] = "live", NEW n \in Enters(b), NEW t \in TopActors \ {page}
        PROVE  IF b = page THEN \A m \in Enters(t)' : m < n ELSE OverBy(t, n)'
    <3>1. IF b = page THEN \A m \in Enters(t) : m < n ELSE OverBy(t, n)
      BY <1>9, <2>1 DEF Agreement, Succession
    <3>2. n \in Nat
      BY <1>3 DEF Posts
    <3>3. OverBy(t, n) => OverBy(t, n)'
      BY <1>3, <1>5, <3>2, StaysOver
    <3>4. QED
      BY <1>5, <3>1, <3>3
  <2>2. QED
    BY <1>1, <1>5, <2>1 DEF Succession
<1>16. QED
  BY <1>11, <1>12, <1>13, <1>14, <1>15 DEF Agreement

LEMMA AgreeInitially ==
  ASSUME Init
  PROVE  Agreement
<1>1. /\ \A a : ~Known(a) /\ a \notin retiredTargetActors
      /\ wire = <<>> /\ page = NoPage /\ \A a \in Actors : phase[a] = "unborn"
      /\ NoPage \notin TopActors
  BY TargetsAssumption DEF Init, Known, Actors
<1>2. \A k, a : Sent(k, a) = {}
  BY <1>1 DEF Sent
<1>3. \A a : Enters(a) = {}
  BY <1>1, <1>2 DEF Enters, First
<1>4. \A n \in DOMAIN wire : FALSE
  BY <1>1
<1>5. QED
  BY <1>1, <1>2, <1>3, <1>4
     DEF Agreement, Unseen, Seen, Living, Mourned, Pages, Gap, Succession, OverBy, Actors

LEMMA AgreeUnchanged ==
  ASSUME Agreement, UNCHANGED <<threads, retiredTargetActors, wire, phase, page, owner>>
  PROVE  Agreement'
<1>1. /\ \A b : Known(b)' = Known(b) /\ Enters(b)' = Enters(b)
      /\ \A k, b : Sent(k, b)' = Sent(k, b)
      /\ \A t, n : OverBy(t, n)' = OverBy(t, n)
  BY AsItWas
<1>2. Gap'
  <2>1. PICK N : N = Len(wire) + 1
    OBVIOUS
  <2>2. \A t \in TopActors : OverBy(t, Len(wire) + 1)' = OverBy(t, N)'
    BY <2>1 DEF OverBy
  <2>3. \A t \in TopActors : OverBy(t, Len(wire) + 1) = OverBy(t, N)
    BY <2>1
  <2>4. QED
    BY <1>1, <2>2, <2>3 DEF Agreement, Gap
<1>3. QED
  BY <1>1, <1>2 DEF Agreement, Unseen, Seen, Living, Mourned, Pages, Succession

LEMMA AgreeStep ==
  ASSUME Inv, closed \/ Agreement, [Next]_vars
  PROVE  closed' \/ Agreement'
<1>1. SUFFICES ASSUME ~closed' PROVE Agreement'
  OBVIOUS
<1>2. CASE UNCHANGED vars
  BY <1>1, <1>2, AgreeUnchanged DEF vars, sessionVars, firefoxVars
<1>3. CASE Deliver
  BY <1>1, <1>3, DeliverAgrees DEF Inv, Deliver
<1>4. ASSUME NEW info \in detachChecks, DetachGrace(info) PROVE Agreement'
  BY <1>4, AgreeUnchanged DEF DetachGrace, firefoxVars
<1>5. CASE SessionClose
  BY <1>1, <1>5 DEF SessionClose, CloseSession
<1>6. CASE ~closed /\ Firefox
  <2>1. FirefoxTypes /\ Agreement
    BY <1>6 DEF Inv
  <2>2. QED
    BY <1>6, <2>1, LoadsAgrees, AnnouncesPageAgrees, DestroysPageAgrees, SwapsPageAgrees,
       StartsWorkerAgrees, HeardOfAgrees
       DEF Firefox
<1>7. ASSUME NEW a \in Actors, SourcesReply(a) PROVE Agreement'
  BY <1>7, AgreeUnchanged DEF SourcesReply, RememberSource, firefoxVars
<1>8. QED
  BY <1>2, <1>3, <1>4, <1>5, <1>6, <1>7 DEF Next

\* With an empty wire nobody is still to come.
LEMMA AgreeMeans ==
  ASSUME FirefoxTypes, Agreement, wire = <<>>
  PROVE  /\ {a \in Actors : phase[a] = "live"} \subseteq ActorsOf(threads)
         /\ ActorsOf(threads) \cap Actors \subseteq {a \in Actors : phase[a] \in {"live", "dying"}}
<1>1. \A k, a : Sent(k, a) = {}
  BY DEF Sent
<1>2. \A a : Enters(a) = {} \/ Known(a)
  BY <1>1 DEF Enters, First
<1>3. ASSUME NEW a \in Actors, phase[a] = "live" PROVE a \in ActorsOf(threads)
  <2>1. Enters(a) # {}
    BY <1>3 DEF Agreement, Seen, Living
  <2>2. QED
    BY <1>2, <2>1, KnownAre
<1>4. ASSUME NEW a \in Actors, a \in ActorsOf(threads) PROVE phase[a] \in {"live", "dying"}
  <2>1. Known(a) /\ Enters(a) = {0}
    BY <1>4, KnownAre DEF Enters
  <2>2. phase[a] \notin {"unborn", "loading"}
    BY <2>1 DEF Agreement, Unseen
  <2>3. phase[a] # "gone"
    BY <1>1, <2>1 DEF Agreement, Mourned
  <2>4. QED
    BY <2>2, <2>3 DEF FirefoxTypes
<1>5. QED
  BY <1>3, <1>4

-----------------------------------------------------------------------------
(* A tab that closes is noticed *)

\* A TID is kept in reserve only while a timer is there to give it up.
Reserved == closed \/ (pendingTopLevelTid # 0 => detachChecks # {})

\* While LLDB still sees a page that Firefox has closed for good, the news is under way or a
\* grace timer runs.
ClosedTabIsForeseen ==
  page = NoPage /\ TopTid # 0 /\ ~closed => wire # <<>> \/ detachChecks # {}

\* A grace timer goes away with the session, with a new page, or by reporting its tab.
GraceIsSpent ==
  \A i \in detachChecks \ detachChecks' :
    closed' \/ Tops' # {} \/ (i.gen \in detached' /\ TopTid' = 0)

\* What the handlers do to the timers.
LEMMA TimersAtDelivery ==
  ASSUME Deliver
  PROVE  \/ closed'
         \/ pendingTopLevelTid' = 0 /\ Tops' # {}
         \/ detachChecks' # {} /\ detachChecks \subseteq detachChecks'
         \/ UNCHANGED <<pendingTopLevelTid, detachChecks>>
<1> DEFINE a == Head(wire).actor
           Goal == \/ closed'
                   \/ pendingTopLevelTid' = 0 /\ Tops' # {}
                   \/ detachChecks' # {} /\ detachChecks \subseteq detachChecks'
                   \/ UNCHANGED <<pendingTopLevelTid, detachChecks>>
<1>1. OnEvent(Head(wire))
  BY DEF Deliver
<1>2. CloseSession \/ IgnorePacket => Goal
  BY DEF CloseSession, IgnorePacket
<1>3. CASE TopLevelAvailable(a) /\ ~CloseSession
  <2>1. PICK i : i \in threads' /\ i.top /\ pendingTopLevelTid' = 0
    <3> DEFINE new == [tid |-> PageTid, actor |-> a, gen |-> nextGeneration, top |-> TRUE]
    <3>1. new \in threads' /\ new.top /\ pendingTopLevelTid' = 0
      BY <1>3 DEF TopLevelAvailable
    <3>2. QED
      BY <3>1
  <2>2. QED
    BY <2>1 DEF Tops
<1>4. WorkerAvailable(a) => Goal
  BY <1>2 DEF WorkerAvailable
<1>5. TargetAvailable(a) => Goal
  BY <1>2, <1>3, <1>4 DEF TargetAvailable
<1>6. TopLevelDestroyed(InfoOf(a)) => Goal
  BY <1>2 DEF TopLevelDestroyed
<1>7. OtherDestroyed(a) => Goal
  BY <1>2 DEF OtherDestroyed
<1>8. TargetDestroyed(a) => Goal
  BY <1>6, <1>7 DEF TargetDestroyed
<1>9. SourceAvailable(a) => Goal
  BY <1>2 DEF SourceAvailable, RememberSource
<1>10. QED
  BY <1>1, <1>5, <1>8, <1>9 DEF OnEvent

LEMMA TimersAtGrace ==
  ASSUME Inv, NEW info \in detachChecks, DetachGrace(info)
  PROVE  /\ detachChecks' = detachChecks \ {info} /\ info.gen \in detached'
         /\ pendingTopLevelTid' = 0 /\ TopTid' = 0
<1>1. ~closed /\ Sound
  BY DEF Inv, DetachGrace
<1>2. Tops = {}
  BY <1>1 DEF Sound, Generations
<1>3. Tops' = {}
  BY <1>2 DEF DetachGrace, Tops
<1>4. detachChecks' = detachChecks \ {info} /\ info.gen \in detached' /\ pendingTopLevelTid' = 0
  BY <1>2 DEF DetachGrace
<1>5. QED
  BY <1>3, <1>4 DEF TopTid

LEMMA TimersStep ==
  ASSUME Inv, [Next]_vars
  PROVE  (Reserved => Reserved') /\ GraceIsSpent
<1>1. CASE Deliver
  BY <1>1, TimersAtDelivery DEF Reserved, GraceIsSpent, Deliver
<1>2. ASSUME NEW info \in detachChecks, DetachGrace(info)
      PROVE  (Reserved => Reserved') /\ GraceIsSpent
  BY <1>2, TimersAtGrace DEF Reserved, GraceIsSpent
<1>3. CASE SessionClose
  BY <1>3 DEF SessionClose, CloseSession, Reserved, GraceIsSpent
<1>4. CASE Firefox \/ UNCHANGED vars
  <2>1. UNCHANGED sessionVars
    BY <1>4, FirefoxStep DEF Inv, vars
  <2>2. QED
    BY <2>1 DEF sessionVars, Reserved, GraceIsSpent
<1>5. ASSUME NEW a \in Actors, SourcesReply(a)
      PROVE  (Reserved => Reserved') /\ GraceIsSpent
  BY <1>5 DEF SourcesReply, RememberSource, Reserved, GraceIsSpent, Tops
<1>6. QED
  BY <1>1, <1>2, <1>3, <1>4, <1>5 DEF Next

\* With nothing on the wire a page that has gone is no thread.
LEMMA NoPageIsNoThread ==
  ASSUME FirefoxTypes, Agreement, Sound, page = NoPage, wire = <<>>
  PROVE  Tops = {}
<1>1. SUFFICES ASSUME NEW t \in TopActors, Known(t) PROVE FALSE
  BY TopsAre, KnownAre
<1>2. 0 \in Enters(t)
  BY <1>1, EntersAre
<1>3. OverBy(t, Len(wire) + 1) /\ Len(wire) = 0
  BY DEF Agreement, Gap
<1>4. PICK k \in Ends(t) : 0 < k /\ k < Len(wire) + 1
  BY <1>2, <1>3 DEF OverBy
<1>5. k \in Nat
  <2>1. \A n \in Sent("destroyed", t) : n \in Nat
    BY TargetWire, SentAreAt, Zenon
  <2>2. \A u : \A n \in Enters(u) : n \in Nat
    BY EntersAre
  <2>3. QED
    BY <1>4, <2>1, <2>2 DEF Ends
<1>6. QED
  BY <1>3, <1>4, <1>5

-----------------------------------------------------------------------------
(* The theorems *)

\* However Firefox orders the announcements and destructions of pages and workers, an open
\* session keeps its bookkeeping whole: threads, generation, tombstones and the grace timer
\* speak of the same incarnation of the page, and a source it answers with was learnt since
\* that came, or in the gap since the last one went (#onEvent, #rememberSource, session.ts).
THEOREM SessionInvariant == Spec => []Inv
<1>1. Inv /\ [Next]_vars => Inv'
  BY Step, Stutter
<1>2. QED
  BY <1>1, Initially, PTL DEF Spec

\* The session holds at most MaxThreads targets and MaxTombstones tombstones, however long the
\* tab lives (#registerThread, #rememberRetiredTarget).
THEOREM TypeCorrect == Spec => []TypeOK
<1>1. Inv => TypeOK
  BY DEF Inv, SessionTypes, FirefoxTypes, TypeOK
<1>2. QED
  BY <1>1, SessionInvariant, PTL

\* Everything LLDB sees belongs to one incarnation of the page, a generation is active exactly
\* while its page is there, and TIDs and actors stay one to one.
THEOREM OnePageAtATime == Spec => []OneIncarnation
<1>1. Inv => OneIncarnation
  BY DEF Inv, Sound, Threads, Placed, Generations, OneIncarnation
<1>2. QED
  BY <1>1, SessionInvariant, PTL

\* A target that was destroyed, or retired with its page, is never a thread again, however late
\* or often Firefox announces it (#retiredTargetActors).
THEOREM DroppedStaysDropped == Spec => []NoResurrection
<1>1. Inv => NoResurrection
  BY DEF Inv, Sound, Graves, NoResurrection
<1>2. QED
  BY <1>1, SessionInvariant, PTL

\* A source the session answers with was learnt since the last page came or went, whether an
\* event announced it or a thread answered with it, in the gap too; and the work of a generation
\* is cancelled when and only when that generation ends (#sourceUrlByActor, #generationAbort).
THEOREM SourcesFollowThePage == Spec => []SourcesAreCurrent
<1>1. Inv => SourcesAreCurrent
  BY DEF Inv, Sound, Current, Generations, SourcesAreCurrent
<1>2. QED
  BY <1>1, SessionInvariant, PTL

\* LLDB addresses the page by its TID across a replacement: it changes only by way of a reported
\* detach, and every other new thread gets a TID never used before (#nextTid,
\* #pendingTopLevelTid).
THEOREM TidsAreStable == Spec => StableTids
<1>1. Inv /\ [Next]_vars => [Steady]_vars
  BY Step
<1>2. QED
  BY <1>1, SessionInvariant, PTL DEF Spec, StableTids, Steady

\* What Firefox has told the session of, at every step, and what is still on the wire agree
\* with what Firefox knows: the handlers lose no target and keep none that ended, whatever
\* order they are announced and destroyed in.
THEOREM AgreementInvariant == Spec => []AgreeInv
<1>1. Init => AgreeInv
  BY Initially, AgreeInitially DEF AgreeInv
<1>2. AgreeInv /\ [Next]_vars => AgreeInv'
  <2>1. ASSUME AgreeInv, [Next]_vars PROVE AgreeInv'
    <3>1. Inv'
      BY <2>1, Step, Stutter DEF AgreeInv
    <3>2. closed' \/ Agreement'
      BY <2>1, AgreeStep DEF AgreeInv
    <3>3. QED
      BY <3>1, <3>2 DEF AgreeInv
  <2>2. QED
    BY <2>1
<1>3. QED
  BY <1>1, <1>2, PTL DEF Spec

\* AgreesWithFirefox: once #onEvent has handled every packet sent, #threads holds every target
\* that lives, and only targets whose destruction Firefox has still to report.
THEOREM SessionAgrees == Spec => []AgreesWithFirefox
<1>1. ASSUME AgreeInv PROVE AgreesWithFirefox
  <2>1. Inv /\ (closed \/ Agreement)
    BY <1>1 DEF AgreeInv
  <2>2. ActorsOf(threads) \subseteq Actors
    BY <2>1 DEF Inv, SessionTypes, ActorsOf, ThreadInfo
  <2>3. QED
    BY <2>1, <2>2, AgreeMeans DEF Inv, AgreesWithFirefox
<1>2. QED
  BY <1>1, AgreementInvariant, PTL

\* The safety core of ClosedTabIsReported: a page that Firefox has closed is never left in
\* LLDB's sight with nothing to come.  Its packet is on the wire, or the grace timer that will
\* report it runs; and that timer is never lost: it goes with the session, with the page that
\* replaces the closed one, or by reporting the tab and giving up its TID (DETACH_GRACE_MS).
THEOREM ClosedTabsAreNoticed == Spec => []ClosedTabIsForeseen /\ [][GraceIsSpent]_vars
<1>1. Init => Reserved
  BY DEF Init, Reserved
<1>2. Inv /\ [Next]_vars => (Reserved => Reserved') /\ GraceIsSpent
  BY TimersStep
<1>3. AgreeInv /\ Reserved => ClosedTabIsForeseen
  <2>1. SUFFICES ASSUME AgreeInv, Reserved, page = NoPage, TopTid # 0, ~closed, wire = <<>>
                 PROVE  detachChecks # {}
    BY DEF ClosedTabIsForeseen
  <2>2. Tops = {}
    BY <2>1, NoPageIsNoThread DEF AgreeInv, Inv
  <2>3. QED
    BY <2>1, <2>2 DEF TopTid, Reserved
<1>4. QED
  BY <1>1, <1>2, <1>3, SessionInvariant, AgreementInvariant, PTL DEF Spec
=============================================================================
