-------------------------- MODULE Navigation_proofs --------------------------
(***************************************************************************)
(* Navigation, proved for any number of pages, any limits, and any length  *)
(* of the wire.                                                            *)
(***************************************************************************)
EXTENDS Navigation, Targets_proofs

-----------------------------------------------------------------------------
(* The inductive invariant *)

Documents == [url : Urls, asked : BOOLEAN, moved : BOOLEAN,
              state : {"loading", "halted", "resumed", "interactive", "stopped"}]

NavPackets ==
  [kind : {"available", "start", "document", "stop", "paused"}, actor : TopActors, url : Urls,
   asked : BOOLEAN, tab : BOOLEAN]
    \cup [kind : {"destroyed"}, actor : TopActors]
    \cup [kind : {"reply", "error"}, actor : {NoPage}, url : Urls, asked : BOOLEAN, tab : BOOLEAN]

Progresses == [phase : {"none", "waiting", "destination-ready", "complete", "failed"},
               starting : Nat, destination : Nat, same : BOOLEAN, last : Urls]

NavTypes ==
  /\ wire \in Seq(NavPackets)
  /\ phase \in [Actors -> {"unborn", "loading", "live", "dying", "gone"}]
  /\ page \in TopActors \cup {NoPage}
  /\ doc \in [TopActors -> Documents]
  /\ progress \in Progresses
  /\ origin \in TopActors \cup {NoPage}

\* The document asked for, under a URL that the session has been told.
Named(t) == doc[t].asked /\ doc[t].url # Blank /\ ~doc[t].moved

Due(t) == Named(t) /\ doc[t].state = "stopped"

\* The packets about a page, of some kinds.
About(t, kinds) == {n \in DOMAIN wire : wire[n].actor = t /\ wire[n].kind \in kinds}

\* The event that reports the end of a page's load, behind all that the session must have
\* heard before.
Final(t, n) ==
  /\ n \in About(t, {"stop"}) /\ wire[n].url = doc[t].url
  /\ \A m \in About(t, {"available", "start"}) : m < n

\* What Firefox shows of a page.
Shown(t) ==
  /\ phase[t] \in {"unborn", "loading"} => doc[t].state = "loading"
  /\ phase[t] = "loading" => page = t
  /\ doc[t].asked => Accepted
  /\ doc[t].state \in {"loading", "halted", "resumed"} => ~doc[t].moved
  /\ page = t => phase[t] \in {"loading", "live"}

\* What is said of a page is true of it.
Told(t, p) ==
  /\ phase[t] \notin {"unborn", "loading"}
  /\ p.kind = "destroyed" => phase[t] = "gone"
  /\ p.kind = "start" => p.url = Wanted /\ doc[t].asked /\ (Named(t) => doc[t].url = Wanted)
  /\ p.kind = "available" => (Named(t) => doc[t].url \in {Wanted, p.url})

Telling(t) == \A n \in DOMAIN wire : wire[n].actor = t => Told(t, wire[n])

\* A page is announced once, and what is said of a document comes behind what announces it.
Ordered(t) ==
  /\ \A m, n \in About(t, {"available"}) : m = n
  /\ \A m \in About(t, {"start"}), n \in About(t, {"stop", "document"}) : m < n => wire[n].asked
  /\ \A m \in About(t, {"available"}) :
       doc[t].state = "halted" => \E n \in About(t, {"paused"}) : m < n
  /\ About(t, {"available", "start"}) # {} /\ Due(t) => \E n \in DOMAIN wire : Final(t, n)

PageSound(t) == Shown(t) /\ Telling(t) /\ Ordered(t)

\* The session has not heard of a page before its announcement, and has it once it has
\* handled the last one.
Heard ==
  /\ \A t \in TopActors : phase[t] \in {"unborn", "loading"} => ~Known(t) /\ t \notin retiredTargetActors
  /\ page # NoPage /\ phase[page] = "live" =>
       IF Known(page) THEN \A n \in DOMAIN wire : wire[n].kind # "available"
       ELSE /\ page \notin retiredTargetActors
            /\ \E n \in About(page, {"available"}) :
                 \A m \in DOMAIN wire : wire[m].kind = "available" => m <= n

\* The page that was there when navigate was called is the one of that generation.
Origins ==
  /\ progress.phase \in {"waiting", "destination-ready"}
  /\ progress.starting < nextGeneration /\ progress.destination < nextGeneration
  /\ origin # NoPage => Known(origin) \/ origin \in retiredTargetActors
  /\ \A i \in Tops : i.gen = progress.starting <=> i.actor = origin

Held ==
  \A t \in TopActors : Known(t) /\ doc[t].asked /\ doc[t].state = "halted"
    => t \in resumes \/ About(t, {"paused"}) # {}

\* What is known of the page that is there while its document is awaited.
Watched(i) ==
  LET t == i.actor IN
  /\ t = origin /\ progress.same => doc[t].asked /\ \A n \in About(t, {"stop", "document"}) : wire[n].asked
  /\ t = origin /\ doc[t].asked => progress.same \/ About(t, {"start"}) # {}
  /\ Named(t) => doc[t].url \in {Wanted, progress.last}
  /\ Due(t) /\ progress.destination \in {0, i.gen} => \E n \in DOMAIN wire : Final(t, n)

\* What is known of the page that is there once its document counts as ready.
Ready(i) ==
  /\ i.actor = credited.actor \/ credited.tab
  /\ i.actor = origin => doc[i.actor].asked /\ (credited.actor = origin => credited.asked)

Credited ==
  /\ progress.destination # 0
  /\ \A i \in Tops : i.gen = progress.destination => Ready(i)

Pending ==
  startup = "pending" =>
    /\ Origins /\ Held
    /\ progress.phase = "waiting" => \A i \in Tops : Watched(i)
    /\ progress.phase = "destination-ready" => Credited

Unasked == startup \in {"target", "survey"} => command = "none" /\ request = "none"

NavSound == (\A t \in TopActors : PageSound(t)) /\ Heard /\ Pending

LoadInv == SessionTypes /\ NavTypes /\ Unasked /\ (closed \/ (Sound /\ NavSound))

\* When the packet at n is the oldest, the page t is the tab's: it is now, and no other is
\* announced before, or its own announcement is the last one before.
Staged(t, n) ==
  /\ \A m \in About(t, {"destroyed"}) : n < m
  /\ IF Known(t) THEN \A m \in DOMAIN wire : wire[m].kind = "available" => n < m
     ELSE /\ t \notin retiredTargetActors
          /\ \E k \in About(t, {"available"}) :
               k < n /\ \A m \in DOMAIN wire : wire[m].kind = "available" => m <= k \/ n < m

\* Whoever sends it, a `start` is about the page that is the tab's when it is heard.
InTurn == ~closed => \A t \in TopActors : \A n \in About(t, {"start"}) : Staged(t, n)

NavInv == LoadInv /\ InTurn

-----------------------------------------------------------------------------
(* The wire *)

\* The oldest packet is gone, and all others have moved up.
Shifted ==
  /\ 1 \in DOMAIN wire /\ Head(wire) = wire[1]
  /\ \A n \in DOMAIN wire : n \in Nat /\ n >= 1
                             /\ (n # 1 => n - 1 \in DOMAIN wire' /\ wire'[n - 1] = wire[n])
  /\ \A n \in DOMAIN wire' : n \in Nat /\ n >= 1 /\ n + 1 \in DOMAIN wire /\ wire'[n] = wire[n + 1]

\* The packet p is one more, behind all the others.
Put(p) ==
  LET e == Len(wire) + 1 IN
  /\ e \in DOMAIN wire' /\ wire'[e] = p
  /\ \A n \in DOMAIN wire : n \in Nat /\ n < e /\ n \in DOMAIN wire' /\ wire'[n] = wire[n]
  /\ \A n \in DOMAIN wire' : n \in DOMAIN wire \/ n = e

LEMMA Shifts ==
  ASSUME NavTypes, wire # <<>>, wire' = Tail(wire)
  PROVE  wire' \in Seq(NavPackets) /\ Shifted /\ Head(wire) \in NavPackets
<1> DEFINE w == wire
           v == wire'
<1>1. w \in Seq(NavPackets) /\ w # <<>> /\ v = Tail(w)
  BY DEF NavTypes
<1> HIDE DEF w, v
<1>2. /\ DOMAIN w = 1..Len(w) /\ Len(w) \in Nat /\ Len(w) >= 1 /\ Head(w) = w[1] /\ w[1] \in NavPackets
      /\ v \in Seq(NavPackets) /\ DOMAIN v = 1..(Len(w) - 1)
      /\ \A n \in 1..(Len(w) - 1) : v[n] = w[n + 1]
  BY <1>1
<1>3. \A n \in DOMAIN w : n \in Nat /\ n >= 1 /\ (n # 1 => n - 1 \in DOMAIN v /\ v[n - 1] = w[n])
  BY <1>2
<1>4. \A n \in DOMAIN v : n \in Nat /\ n >= 1 /\ n + 1 \in DOMAIN w /\ v[n] = w[n + 1]
  BY <1>2
<1>5. QED
  BY <1>2, <1>3, <1>4 DEF w, v, Shifted

LEMMA Puts ==
  ASSUME NavTypes, NEW p \in NavPackets, wire' = Append(wire, p)
  PROVE  wire' \in Seq(NavPackets) /\ Put(p)
<1> DEFINE w == wire
           v == wire'
<1>1. w \in Seq(NavPackets) /\ v = Append(w, p)
  BY DEF NavTypes
<1> HIDE DEF w, v
<1>2. /\ DOMAIN w = 1..Len(w) /\ Len(w) \in Nat /\ v \in Seq(NavPackets)
      /\ DOMAIN v = 1..(Len(w) + 1) /\ v[Len(w) + 1] = p
      /\ \A n \in 1..Len(w) : v[n] = w[n]
  BY <1>1
<1>3. QED
  BY <1>2 DEF w, v, Put

\* The packets about a page, in terms of what they were.
MovedAbout(t, K) ==
  /\ \A n \in About(t, K) : n \in Nat /\ n >= 1
                             /\ (n # 1 => n - 1 \in About(t, K)' /\ wire'[n - 1] = wire[n])
  /\ \A n \in About(t, K)' : n \in Nat /\ n >= 1 /\ n + 1 \in About(t, K) /\ wire'[n] = wire[n + 1]
  /\ 1 \in About(t, K) <=> Head(wire).actor = t /\ Head(wire).kind \in K

GrownAbout(p, t, K) ==
  /\ About(t, K)' = About(t, K) \cup IF p.actor = t /\ p.kind \in K THEN {Len(wire) + 1} ELSE {}
  /\ \A n \in About(t, K) : n \in Nat /\ n < Len(wire) + 1 /\ wire'[n] = wire[n]
  /\ wire'[Len(wire) + 1] = p

LEMMA AboutShifts ==
  ASSUME Shifted
  PROVE  \A t, K : MovedAbout(t, K)
  BY DEF Shifted, About, MovedAbout

LEMMA AboutPuts ==
  ASSUME NEW p, Put(p)
  PROVE  \A t, K : GrownAbout(p, t, K)
  BY DEF Put, About, GrownAbout

LEMMA FinalShifts ==
  ASSUME Shifted, NEW t \in TopActors, doc'[t] = doc[t], NEW n \in DOMAIN wire, Final(t, n)
  PROVE  /\ n # 1 => Final(t, n - 1)' /\ n - 1 \in DOMAIN wire'
         /\ n = 1 => About(t, {"available", "start"})' = {} /\ Head(wire).kind = "stop"
                     /\ Head(wire).actor = t /\ Head(wire).url = doc[t].url
<1> DEFINE K == {"available", "start"}
           S == {"stop"}
<1>1. /\ \A m \in About(t, S) : m \in Nat /\ (m # 1 => m - 1 \in About(t, S)' /\ wire'[m - 1] = wire[m])
      /\ \A m \in About(t, K)' : m \in Nat /\ m >= 1 /\ m + 1 \in About(t, K)
      /\ 1 \in About(t, S) <=> Head(wire).actor = t /\ Head(wire).kind \in S
  BY AboutShifts DEF MovedAbout
<1>2. n \in About(t, S) /\ wire[n].url = doc[t].url /\ \A m \in About(t, K) : m < n
  BY DEF Final
<1>3. n # 1 => Final(t, n - 1)' /\ n - 1 \in DOMAIN wire'
  <2>1. ASSUME n # 1 PROVE Final(t, n - 1)' /\ n - 1 \in DOMAIN wire'
    <3>1. n - 1 \in About(t, S)' /\ wire'[n - 1].url = doc'[t].url
      BY <1>1, <1>2, <2>1
    <3>2. \A m \in About(t, K)' : m < n - 1
      BY <1>1, <1>2
    <3>3. QED
      BY <3>1, <3>2 DEF Final, About
  <2>2. QED
    BY <2>1
<1>4. n = 1 => About(t, K)' = {} /\ Head(wire).kind = "stop" /\ Head(wire).actor = t
               /\ Head(wire).url = doc[t].url
  BY <1>1, <1>2 DEF Shifted
<1>5. QED
  BY <1>3, <1>4

\* When the oldest packet goes and the pages stay as they are, so do the facts about them.
LEMMA DeliveryKeeps ==
  ASSUME NavTypes, Shifted, UNCHANGED <<phase, page, doc, command>>, NEW t \in TopActors, PageSound(t)
  PROVE  PageSound(t)'
<1> DEFINE K == {"available", "start"}
<1>1. \A n \in DOMAIN wire' : n + 1 \in DOMAIN wire /\ wire'[n] = wire[n + 1]
  BY DEF Shifted
<1>2. Shown(t)'
  BY DEF PageSound, Shown, Accepted
<1>3. Telling(t)'
  BY <1>1 DEF PageSound, Telling, Told, Named
<1>4. Ordered(t)'
  <2>1. \A M : MovedAbout(t, M)
    BY AboutShifts
  <2>2. ASSUME NEW m \in About(t, {"start"})', NEW n \in About(t, {"stop", "document"})', m < n
        PROVE  wire'[n].asked
    <3>1. m + 1 \in About(t, {"start"}) /\ n + 1 \in About(t, {"stop", "document"})
          /\ m \in Nat /\ n \in Nat /\ wire'[n] = wire[n + 1]
      BY <2>1 DEF MovedAbout
    <3>2. QED
      BY <2>2, <3>1 DEF PageSound, Ordered
  <2>3. ASSUME NEW m \in About(t, {"available"})', doc'[t].state = "halted"
        PROVE  \E n \in About(t, {"paused"})' : m < n
    <3>1. m + 1 \in About(t, {"available"}) /\ m \in Nat /\ m >= 1
      BY <2>1 DEF MovedAbout
    <3>2. PICK n \in About(t, {"paused"}) : m + 1 < n
      BY <2>3, <3>1 DEF PageSound, Ordered
    <3>3. n \in Nat /\ (n # 1 => n - 1 \in About(t, {"paused"})')
      BY <2>1 DEF MovedAbout
    <3>4. QED
      BY <3>1, <3>2, <3>3
  <2>4. ASSUME About(t, K)' # {}, Due(t)' PROVE \E n \in DOMAIN wire' : Final(t, n)'
    <3>1. About(t, K) # {} /\ Due(t)
      <4>1. About(t, K) # {}
        BY <2>1, <2>4 DEF MovedAbout
      <4>2. QED
        BY <2>4, <4>1 DEF Due, Named
    <3>2. PICK n \in DOMAIN wire : Final(t, n)
      BY <3>1 DEF PageSound, Ordered
    <3>3. n # 1
      BY <2>4, <3>2, FinalShifts
    <3>4. QED
      BY <3>2, <3>3, FinalShifts
  <2>5. ASSUME NEW m \in About(t, {"available"})', NEW n \in About(t, {"available"})' PROVE m = n
    <3>1. /\ m \in Nat /\ m + 1 \in About(t, {"available"})
          /\ n \in Nat /\ n + 1 \in About(t, {"available"})
      BY <2>1 DEF MovedAbout
    <3>2. m + 1 = n + 1
      BY <3>1 DEF PageSound, Ordered
    <3>3. QED
      BY <3>1, <3>2
  <2>6. QED
    BY <2>2, <2>3, <2>4, <2>5 DEF Ordered
<1>5. QED
  BY <1>2, <1>3, <1>4 DEF PageSound

\* A page that Firefox says nothing of, and does nothing to, looks as before.
LEMMA OthersKeep ==
  ASSUME NavTypes, NEW p, Put(p), NEW t \in TopActors, p.actor # t, PageSound(t), doc'[t] = doc[t],
         phase'[t] = phase[t], page' = t <=> page = t, Accepted => Accepted'
  PROVE  PageSound(t)'
<1>1. \A M : About(t, M)' = About(t, M) /\ \A n \in About(t, M) : wire'[n] = wire[n]
  <2>1. ASSUME NEW M PROVE About(t, M)' = About(t, M) /\ \A n \in About(t, M) : wire'[n] = wire[n]
    <3>1. GrownAbout(p, t, M)
      BY AboutPuts
    <3>2. QED
      BY <3>1 DEF GrownAbout
  <2>2. QED
    BY <2>1
<1>2. Shown(t)'
  BY DEF PageSound, Shown
<1>3. Telling(t)'
  BY DEF PageSound, Telling, Told, Named, Put
<1>4. \A n : Final(t, n)' <=> Final(t, n)
  BY <1>1 DEF Final
<1>5. Ordered(t)'
  BY <1>1, <1>4 DEF PageSound, Ordered, Due, Named, Put
<1>6. QED
  BY <1>2, <1>3, <1>5 DEF PageSound

-----------------------------------------------------------------------------
(* Steps of Firefox, which leave the session alone *)

\* A state in which the session is open.
Open == SessionTypes /\ NavTypes /\ Unasked /\ ~closed /\ Sound /\ NavSound

LEMMA SessionSame ==
  ASSUME SessionTypes, Sound, ~closed, UNCHANGED sessionVars
  PROVE  /\ SessionTypes' /\ Sound' /\ ~closed' /\ Tops' = Tops /\ threads' = threads
         /\ retiredTargetActors' = retiredTargetActors /\ nextGeneration' = nextGeneration
         /\ \A a : Known(a)' <=> Known(a)
<1>1. /\ Tops' = Tops /\ ActorsOf(threads)' = ActorsOf(threads) /\ \A a : Known(a)' <=> Known(a)
  BY DEF sessionVars, Tops, ActorsOf, Known
<1>2. SessionTypes' /\ Sound'
  BY <1>1 DEF sessionVars, SessionTypes, Sound, Threads, Placed, Generations, Graves, Current, Reports
<1>3. QED
  BY <1>1, <1>2 DEF sessionVars

LEMMA TopsAreThreads ==
  ASSUME SessionTypes, Sound
  PROVE  /\ \A i \in Tops : i \in threads /\ i.actor \in TopActors /\ Known(i.actor)
                           /\ i.gen = activeGeneration /\ i.gen \in Nat /\ i.gen # 0
                           /\ i.gen < nextGeneration
         /\ \A i, j \in Tops : i = j
         /\ \A t \in TopActors : Known(t) => \E i \in Tops : i.actor = t
         /\ \A i \in Tops : TopGeneration = i.gen /\ \A a : IsTop(a) <=> a = i.actor
<1>1. \A i \in Tops : i \in threads /\ i.actor \in TopActors /\ Known(i.actor) /\ i.gen = activeGeneration
  BY DEF Tops, Known, Sound, Threads, Placed
<1>2. \A i, j \in Tops : i = j
  BY DEF Tops, Sound, Threads
<1>3. \A t \in TopActors : Known(t) => \E i \in Tops : i.actor = t
  BY DEF Tops, Known, Sound, Threads, Placed
<1>4. \A i \in Tops : activeGeneration \in Nat /\ activeGeneration # 0 /\ activeGeneration < nextGeneration
  BY DEF SessionTypes, Sound, Generations
<1>5. \A i \in Tops : TopGeneration = i.gen /\ \A a : IsTop(a) <=> a = i.actor
  BY <1>2 DEF TopGeneration, IsTop
<1>6. QED
  BY <1>1, <1>2, <1>3, <1>4, <1>5

LEMMA WatchedStays ==
  ASSUME NEW p, Put(p), NEW i, p.actor # i.actor \/ p.kind = "destroyed",
         doc'[i.actor] = doc[i.actor], UNCHANGED <<progress, origin>>, Watched(i)
  PROVE  Watched(i)'
<1> DEFINE t == i.actor
<1>1. ASSUME NEW M, "destroyed" \notin M
      PROVE  About(t, M)' = About(t, M) /\ \A n \in About(t, M) : wire'[n] = wire[n]
  <2>1. GrownAbout(p, t, M)
    BY AboutPuts
  <2>2. QED
    BY <1>1, <2>1 DEF GrownAbout
<1>2. /\ About(t, {"stop"})' = About(t, {"stop"}) /\ \A n \in About(t, {"stop"}) : wire'[n] = wire[n]
      /\ About(t, {"start"})' = About(t, {"start"})
      /\ About(t, {"available", "start"})' = About(t, {"available", "start"})
      /\ About(t, {"stop", "document"})' = About(t, {"stop", "document"})
      /\ \A n \in About(t, {"stop", "document"}) : wire'[n] = wire[n]
  BY <1>1
<1>3. \A n : Final(t, n)' <=> Final(t, n)
  BY <1>2 DEF Final
<1>4. \A n \in DOMAIN wire : n \in DOMAIN wire'
  BY DEF Put
<1>5. Named(t)' = Named(t) /\ Due(t)' = Due(t)
  BY DEF Named, Due
<1>6. QED
  BY <1>2, <1>3, <1>4, <1>5 DEF Watched

\* A page credited with the destination stays so while it is not loaded anew.
LEMMA CreditedStays ==
  ASSUME Open, Tops' = Tops, UNCHANGED <<progress, origin, credited>>,
         startup = "pending", progress.phase = "destination-ready",
         \A i \in Tops : doc[i.actor].asked => doc'[i.actor].asked
  PROVE  Credited'
<1>1. Credited
  BY DEF Open, NavSound, Pending
<1>2. ASSUME NEW i \in Tops, Ready(i) PROVE Ready(i)'
  BY <1>2 DEF Ready
<1>3. QED
  BY <1>1, <1>2 DEF Credited

\* What the session waits for is not touched by what happens to a page it does not know.
LEMMA PendingStays ==
  ASSUME Open, NEW p, Put(p), UNCHANGED sessionVars,
         UNCHANGED <<callerVars, origin, credited, resumes>>,
         Known(p.actor) => p.kind = "destroyed",
         \A t \in TopActors : Known(t) => doc'[t] = doc[t]
  PROVE  Pending'
<1>1. /\ Tops' = Tops /\ \A a : Known(a)' <=> Known(a)
      /\ retiredTargetActors' = retiredTargetActors /\ nextGeneration' = nextGeneration
  BY SessionSame DEF Open
<1>2. UNCHANGED <<startup, progress, request, origin, credited, resumes>>
  BY DEF callerVars
<1>3. ASSUME startup = "pending" PROVE Origins'
  BY <1>1, <1>2, <1>3 DEF Open, NavSound, Pending, Origins
<1>4. ASSUME startup = "pending" PROVE Held'
  <2>1. ASSUME NEW t \in TopActors, Known(t)', doc'[t].asked, doc'[t].state = "halted"
        PROVE  t \in resumes' \/ About(t, {"paused"})' # {}
    <3>1. t \in resumes \/ About(t, {"paused"}) # {}
      BY <1>1, <1>4, <2>1 DEF Open, NavSound, Pending, Held
    <3>2. GrownAbout(p, t, {"paused"})
      BY AboutPuts
    <3>3. QED
      BY <1>2, <3>1, <3>2 DEF GrownAbout
  <2>2. QED
    BY <2>1 DEF Held
<1>5. ASSUME startup = "pending", progress.phase = "waiting", NEW i \in Tops PROVE Watched(i)'
  <2>1. i.actor \in TopActors /\ Known(i.actor) /\ Watched(i)
    BY <1>5, TopsAreThreads DEF Open, NavSound, Pending
  <2>2. (p.actor # i.actor \/ p.kind = "destroyed") /\ doc'[i.actor] = doc[i.actor]
    BY <2>1
  <2>3. QED
    BY <1>2, <2>1, <2>2, WatchedStays
<1>6. ASSUME startup = "pending", progress.phase = "destination-ready" PROVE Credited'
  <2>1. \A i \in Tops : doc'[i.actor] = doc[i.actor]
    BY TopsAreThreads DEF Open
  <2>2. QED
    BY <1>1, <1>2, <1>6, <2>1, CreditedStays
<1>7. QED
  BY <1>1, <1>2, <1>3, <1>4, <1>5, <1>6 DEF Pending

LEMMA HeardStays ==
  ASSUME Open, NEW p, Put(p), p.kind # "available", UNCHANGED sessionVars,
         \A t \in TopActors : phase'[t] \in {"unborn", "loading"} => phase[t] \in {"unborn", "loading"},
         page' # NoPage /\ phase'[page'] = "live" => page' = page /\ phase[page] = "live"
  PROVE  Heard'
<1>1. retiredTargetActors' = retiredTargetActors /\ \A a : Known(a)' <=> Known(a)
  BY SessionSame DEF Open
<1>2. \A t \in TopActors : phase'[t] \in {"unborn", "loading"}
                            => ~Known(t)' /\ t \notin retiredTargetActors'
  BY <1>1 DEF Open, NavSound, Heard
<1>3. ASSUME page' # NoPage, phase'[page'] = "live"
      PROVE  IF Known(page)' THEN \A n \in DOMAIN wire' : wire'[n].kind # "available"
             ELSE /\ page' \notin retiredTargetActors'
                  /\ \E n \in About(page, {"available"})' :
                       \A m \in DOMAIN wire' : wire'[m].kind = "available" => m <= n
  <2>1. page' = page /\ phase[page] = "live" /\ (Known(page)' <=> Known(page))
    BY <1>1, <1>3 DEF Known
  <2>2. CASE Known(page)
    BY <1>3, <2>1, <2>2 DEF Open, NavSound, Heard, Put
  <2>3. CASE ~Known(page)
    <3>1. /\ page \notin retiredTargetActors
          /\ \E n \in About(page, {"available"}) :
               \A m \in DOMAIN wire : wire[m].kind = "available" => m <= n
      BY <1>3, <2>1, <2>3 DEF Open, NavSound, Heard
    <3>2. PICK n \in About(page, {"available"}) :
               \A m \in DOMAIN wire : wire[m].kind = "available" => m <= n
      BY <3>1
    <3>3. n \in About(page, {"available"})'
      BY <2>1, <3>2 DEF About, Put
    <3>4. \A m \in DOMAIN wire' : wire'[m].kind = "available" => m <= n
      BY <3>2 DEF Put
    <3>5. QED
      BY <1>1, <2>1, <2>3, <3>1, <3>3, <3>4
  <2>4. QED
    BY <2>2, <2>3
<1>4. QED
  BY <1>2, <1>3 DEF Heard

\* An event of the page t, which then shows the document d.
Says(t, d, p) ==
  /\ wire' = Append(wire, p) /\ p \in NavPackets /\ p.actor = t
  /\ p.kind \in {"start", "document", "stop", "paused"}
  /\ doc' = [doc EXCEPT ![t] = d] /\ d \in Documents
  /\ UNCHANGED <<sessionVars, callerVars, origin, credited, resumes, command, page, phase>>

LEMMA SaysKeeps ==
  ASSUME Open, NEW t \in TopActors, NEW d, NEW p, Says(t, d, p), PageSound(t)',
         d.state = "halted" => p.kind = "paused", doc[t].asked => d.asked,
         \A i \in Tops : i.actor = t /\ Watched(i) => Watched(i)'
  PROVE  LoadInv' /\ ~closed'
<1>1. /\ SessionTypes' /\ Sound' /\ ~closed' /\ Tops' = Tops /\ \A a : Known(a)' <=> Known(a)
      /\ retiredTargetActors' = retiredTargetActors /\ nextGeneration' = nextGeneration
  BY SessionSame DEF Open, Says
<1>2. UNCHANGED <<startup, progress, request, origin, credited, resumes, command, page, phase>>
  BY DEF callerVars, Says
<1>3. wire' \in Seq(NavPackets) /\ Put(p)
  BY Puts DEF Open, Says
<1>4. NavTypes' /\ Unasked'
  <2>1. doc' \in [TopActors -> Documents]
    BY DEF Open, NavTypes, Says
  <2>2. QED
    BY <1>2, <1>3, <2>1 DEF Open, NavTypes, Unasked
<1>5. ASSUME NEW u \in TopActors, u # t PROVE doc'[u] = doc[u] /\ PageSound(u)'
  <2>1. doc'[u] = doc[u] /\ p.actor # u
    BY <1>5 DEF Says, Open, NavTypes
  <2>2. PageSound(u) /\ (Accepted => Accepted')
    BY <1>2 DEF Open, NavSound, Accepted
  <2>3. QED
    BY <1>2, <1>3, <2>1, <2>2, OthersKeep DEF Open
<1>6. Heard'
  BY <1>2, <1>3, HeardStays DEF Says
<1>7. doc'[t] = d
  BY DEF Says, Open, NavTypes
<1>8. Pending'
  <2>1. ASSUME startup = "pending" PROVE Origins'
    BY <1>1, <1>2, <2>1 DEF Open, NavSound, Pending, Origins
  <2>2. ASSUME startup = "pending" PROVE Held'
    <3>1. ASSUME NEW u \in TopActors, Known(u)', doc'[u].asked, doc'[u].state = "halted"
          PROVE  u \in resumes' \/ About(u, {"paused"})' # {}
      <4>1. GrownAbout(p, u, {"paused"})
        BY <1>3, AboutPuts
      <4>2. CASE u = t
        BY <1>7, <3>1, <4>1, <4>2 DEF GrownAbout, Says
      <4>3. CASE u # t
        <5>1. u \in resumes \/ About(u, {"paused"}) # {}
          BY <1>1, <1>5, <2>2, <3>1, <4>3 DEF Open, NavSound, Pending, Held
        <5>2. QED
          BY <1>2, <4>1, <5>1 DEF GrownAbout
      <4>4. QED
        BY <4>2, <4>3
    <3>2. QED
      BY <3>1 DEF Held
  <2>3. ASSUME startup = "pending", progress.phase = "waiting", NEW i \in Tops PROVE Watched(i)'
    <3>1. i.actor \in TopActors /\ Watched(i)
      BY <2>3, TopsAreThreads DEF Open, NavSound, Pending
    <3>2. CASE i.actor = t
      BY <3>1, <3>2
    <3>3. CASE i.actor # t
      <4>1. doc'[i.actor] = doc[i.actor] /\ p.actor # i.actor
        BY <1>5, <3>1, <3>3 DEF Says
      <4>2. QED
        BY <1>2, <1>3, <3>1, <4>1, WatchedStays
    <3>4. QED
      BY <3>2, <3>3
  <2>4. ASSUME startup = "pending", progress.phase = "destination-ready" PROVE Credited'
    <3>1. \A i \in Tops : doc[i.actor].asked => doc'[i.actor].asked
      BY <1>5, <1>7, TopsAreThreads DEF Open
    <3>2. QED
      BY <1>1, <1>2, <2>4, <3>1, CreditedStays
  <2>5. QED
    BY <1>1, <1>2, <2>1, <2>2, <2>3, <2>4 DEF Pending
<1>9. \A u \in TopActors : PageSound(u)'
  BY <1>5
<1>10. QED
  BY <1>1, <1>4, <1>6, <1>8, <1>9 DEF LoadInv, NavSound

\* What Post puts on the wire.
LEMMA Sends ==
  ASSUME NEW kind \in {"available", "start", "document", "stop", "paused"}, NEW t \in TopActors,
         NEW d \in Documents, NEW tab \in BOOLEAN, Post(kind, t, d, tab)
  PROVE  \E p \in NavPackets : /\ wire' = Append(wire, p)
                               /\ p.kind = kind /\ p.actor = t /\ p.url = d.url /\ p.asked = d.asked
<1> DEFINE p == [kind |-> kind, actor |-> t, url |-> d.url, asked |-> d.asked, tab |-> tab]
<1>1. p \in NavPackets
  BY DEF NavPackets, Documents
<1>2. wire' = Append(wire, p)
  BY DEF Post
<1>3. p.kind = kind /\ p.actor = t /\ p.url = d.url /\ p.asked = d.asked
  OBVIOUS
<1> HIDE DEF p
<1>4. QED
  BY <1>1, <1>2, <1>3

\* A packet a page sends for itself.
LEMMA SendsPlain ==
  ASSUME NEW kind \in {"available", "start", "document", "stop", "paused"}, NEW t \in TopActors,
         NEW d \in Documents, Send(kind, t, d)
  PROVE  \E p \in NavPackets : /\ wire' = Append(wire, p)
                               /\ p.kind = kind /\ p.actor = t /\ p.url = d.url /\ p.asked = d.asked
<1>1. PICK tab \in BOOLEAN : Post(kind, t, d, tab)
  BY DEF Send
<1>2. QED
  BY <1>1, Sends

\* The document d and the event p say the same, and nothing else than what was said before
\* unless a load begins or leads elsewhere.
Fits(t, d, p) ==
  /\ phase[t] \notin {"unborn", "loading"}
  /\ d.asked => Accepted
  /\ doc[t].asked => d.asked
  /\ d.asked /\ ~doc[t].asked => p.kind = "start"
  /\ d.state \in {"loading", "halted", "resumed"} => ~d.moved
  /\ p.kind = "start" => p.url = Wanted /\ d.asked /\ d.url = Wanted
  /\ d.url = Wanted \/ d.moved \/ (d.url = doc[t].url /\ d.asked = doc[t].asked /\ ~doc[t].moved)
  /\ p.asked = d.asked
  /\ d.state = "halted" => p.kind = "paused"
  /\ d.state = "stopped" => p.kind = "stop" /\ p.url = d.url

LEMMA FitsKeeps ==
  ASSUME Open, NEW t \in TopActors, NEW d, NEW p, Says(t, d, p), Fits(t, d, p)
  PROVE  LoadInv' /\ ~closed'
<1> DEFINE K == {"available", "start"}
<1>0. PICK e : e = Len(wire) + 1
  OBVIOUS
<1>1. /\ doc'[t] = d /\ UNCHANGED <<phase, page, command, progress, origin>> /\ Put(p) /\ PageSound(t)
      /\ p.actor = t /\ p.kind \in {"start", "document", "stop", "paused"}
  BY Puts DEF Says, Open, NavTypes, NavSound, callerVars
<1>2. \A M : GrownAbout(p, t, M)
  BY <1>1, AboutPuts
<1>3. e \in DOMAIN wire' /\ wire'[e] = p /\ (\A n \in DOMAIN wire' : n \in DOMAIN wire \/ n = e)
      /\ \A n \in DOMAIN wire : n \in DOMAIN wire' /\ wire'[n] = wire[n]
  BY <1>0, <1>1 DEF Put
<1>4. ASSUME Due(t)' PROVE Final(t, e)'
  <2>1. p.kind = "stop" /\ p.url = d.url
    BY <1>1, <1>4 DEF Due, Fits
  <2>2. \A m \in About(t, K)' : m < e
    <3>1. GrownAbout(p, t, K)
      BY <1>2
    <3>2. QED
      BY <1>0, <2>1, <3>1 DEF GrownAbout
  <2>3. e \in About(t, {"stop"})'
    BY <1>1, <1>3, <2>1 DEF About
  <2>4. QED
    BY <1>1, <1>3, <2>1, <2>2, <2>3 DEF Final
<1>5. Shown(t)'
  BY <1>1 DEF PageSound, Shown, Fits, Accepted
<1>6. Telling(t)'
  <2>1. \A n \in DOMAIN wire : wire[n].actor = t => Told(t, wire[n])
    BY <1>1 DEF PageSound, Telling
  <2>2. ASSUME NEW n \in DOMAIN wire', NEW q, q = wire'[n], q.actor = t PROVE Told(t, q)'
    <3>1. CASE n \in DOMAIN wire
      BY <1>1, <1>3, <2>1, <2>2, <3>1 DEF Told, Named, Fits
    <3>2. CASE n = e
      BY <1>1, <1>3, <2>2, <3>2 DEF Told, Named, Fits
    <3>3. QED
      BY <1>3, <3>1, <3>2
  <2>3. QED
    BY <2>2 DEF Telling, Told, Named
<1>7. ASSUME NEW n \in About(t, {"stop", "document"})'
      PROVE  \/ n \in About(t, {"stop", "document"}) /\ wire'[n] = wire[n]
             \/ wire'[n].asked = d.asked
  <2>1. GrownAbout(p, t, {"stop", "document"})
    BY <1>2
  <2>2. QED
    BY <2>1 DEF GrownAbout, Fits
<1>8. Ordered(t)'
  <2>1. ASSUME NEW m \in About(t, {"start"})', NEW n \in About(t, {"stop", "document"})', m < n
        PROVE  wire'[n].asked
    <3>1. GrownAbout(p, t, {"start"}) /\ GrownAbout(p, t, {"stop", "document"})
      BY <1>2
    <3>2. m \in About(t, {"start"})
      <4>1. \A x \in About(t, {"stop", "document"})' : x <= Len(wire) + 1 /\ x \in Nat
        BY <1>3, <3>1 DEF GrownAbout, Open, NavTypes
      <4>2. m \in About(t, {"start"}) \/ m = Len(wire) + 1
        BY <3>1 DEF GrownAbout
      <4>3. Len(wire) \in Nat
        BY DEF Open, NavTypes
      <4>4. QED
        BY <2>1, <4>1, <4>2, <4>3
    <3>3. doc[t].asked
      BY <1>1, <3>2 DEF PageSound, Telling, Told, About
    <3>4. CASE n \in About(t, {"stop", "document"}) /\ wire'[n] = wire[n]
      BY <1>1, <2>1, <3>2, <3>4 DEF PageSound, Ordered
    <3>5. CASE wire'[n].asked = d.asked
      BY <3>3, <3>5 DEF Fits
    <3>6. QED
      BY <1>7, <3>4, <3>5
  <2>2. ASSUME NEW m \in About(t, {"available"})', doc'[t].state = "halted"
        PROVE  \E n \in About(t, {"paused"})' : m < n
    <3>1. GrownAbout(p, t, {"available"}) /\ GrownAbout(p, t, {"paused"}) /\ p.kind = "paused"
      BY <1>1, <1>2, <2>2 DEF Fits
    <3>2. QED
      BY <1>1, <3>1 DEF GrownAbout
  <2>3. About(t, {"available"})' = About(t, {"available"})
    <3>1. GrownAbout(p, t, {"available"})
      BY <1>2
    <3>2. QED
      BY <1>1, <3>1 DEF GrownAbout
  <2>4. \A m, n \in About(t, {"available"})' : m = n
    BY <1>1, <2>3 DEF PageSound, Ordered
  <2>5. QED
    BY <1>3, <1>4, <2>1, <2>2, <2>4 DEF Ordered
<1>9. ASSUME NEW i \in Tops, i.actor = t, Watched(i) PROVE Watched(i)'
  <2>1. t = origin /\ progress.same => doc[t].asked /\ \A n \in About(t, {"stop", "document"}) : wire[n].asked
    BY <1>9 DEF Watched
  <2>2. (t = origin /\ progress.same)'
          => doc'[t].asked /\ \A n \in About(t, {"stop", "document"})' : wire'[n].asked
    BY <1>1, <1>7, <2>1 DEF Fits
  <2>3. (t = origin /\ doc[t].asked)' => progress'.same \/ About(t, {"start"})' # {}
    <3>1. GrownAbout(p, t, {"start"})
      BY <1>2
    <3>2. QED
      BY <1>1, <1>9, <3>1 DEF Fits, Watched, GrownAbout
  <2>4. Named(t)' => doc'[t].url \in {Wanted, progress'.last}
    BY <1>1, <1>9 DEF Fits, Named, Watched
  <2>5. QED
    BY <1>1, <1>3, <1>4, <1>9, <2>2, <2>3, <2>4 DEF Watched
<1>10. PageSound(t)' /\ (d.state = "halted" => p.kind = "paused") /\ (doc[t].asked => d.asked)
  BY <1>5, <1>6, <1>8 DEF PageSound, Fits
<1>11. QED
  <2>1. \A i \in Tops : i.actor = t /\ Watched(i) => Watched(i)'
    BY <1>9
  <2>2. QED
    BY <1>10, <2>1, SaysKeeps

LEMMA StartsKeeps ==
  ASSUME Open, NEW t \in TopActors, Starts(t)
  PROVE  LoadInv' /\ ~closed'
<1>1. PICK d \in Documents : d = Document(Wanted, TRUE) /\ d.url = Wanted /\ d.asked = TRUE
                              /\ d.moved = FALSE /\ d.state = "loading"
  <2>1. Document(Wanted, TRUE) \in Documents
    BY DEF Document, Documents, Urls
  <2>2. QED
    BY <2>1 DEF Document
<1>2. doc' = [doc EXCEPT ![t] = d] /\ doc'[t] = d
  BY <1>1 DEF Starts, Open, NavTypes
<1>3. PICK p \in NavPackets : wire' = Append(wire, p) /\ p.kind = "start" /\ p.actor = t
                              /\ p.url = d.url /\ p.asked = d.asked
  <2>1. \E tab \in BOOLEAN : Post("start", t, d, tab)
    BY <1>2 DEF Starts
  <2>2. QED
    BY <2>1, Sends
<1>4. Says(t, d, p)
  BY <1>1, <1>2, <1>3 DEF Says, Starts, Unmoved, OnlyWire
<1>5. Fits(t, d, p)
  BY <1>1, <1>3 DEF Fits, Starts
<1>6. QED
  BY <1>4, <1>5, FitsKeeps

LEMMA InteractiveKeeps ==
  ASSUME Open, NEW t \in TopActors, BecomesInteractive(t)
  PROVE  LoadInv' /\ ~closed'
<1>1. PICK u \in {doc[t].url} \cup (IF doc[t].asked THEN {Other} ELSE {}) :
        doc' = [doc EXCEPT ![t] = [@ EXCEPT !.state = "interactive", !.url = u, !.moved = u # doc[t].url]]
  BY DEF BecomesInteractive
<1> DEFINE d == [doc[t] EXCEPT !.state = "interactive", !.url = u, !.moved = u # doc[t].url]
<1>2. doc[t] \in Documents /\ u \in Urls
  BY <1>1 DEF Open, NavTypes, Documents, Urls
<1>3. /\ d \in Documents /\ d.url = u /\ d.asked = doc[t].asked /\ d.moved = (u # doc[t].url)
      /\ d.state = "interactive"
  BY <1>2 DEF Documents
<1>4. doc' = [doc EXCEPT ![t] = d] /\ doc'[t] = d
  BY <1>1 DEF Open, NavTypes
<1> HIDE DEF d
<1>5. PICK p \in NavPackets : wire' = Append(wire, p) /\ p.kind = "document" /\ p.actor = t
                              /\ p.url = d.url /\ p.asked = d.asked
  <2>1. Send("document", t, d)
    BY <1>4 DEF BecomesInteractive
  <2>2. QED
    BY <1>3, <2>1, SendsPlain
<1>6. Says(t, d, p)
  BY <1>3, <1>4, <1>5 DEF Says, BecomesInteractive, Unmoved, OnlyWire
<1>7. Shown(t) /\ doc[t].asked \in BOOLEAN
  BY <1>2 DEF Open, NavSound, PageSound, Documents
<1>8. Fits(t, d, p)
  BY <1>3, <1>5, <1>7 DEF Fits, BecomesInteractive, Shown
<1>9. QED
  BY <1>6, <1>8, FitsKeeps

LEMMA StopsKeeps ==
  ASSUME Open, NEW t \in TopActors, Stops(t)
  PROVE  LoadInv' /\ ~closed'
<1> DEFINE d == [doc[t] EXCEPT !.state = "stopped"]
<1>1. doc[t] \in Documents
  BY DEF Open, NavTypes
<1>2. /\ d \in Documents /\ d.url = doc[t].url /\ d.asked = doc[t].asked /\ d.moved = doc[t].moved
      /\ d.state = "stopped"
  BY <1>1 DEF Documents
<1>3. doc' = [doc EXCEPT ![t] = d] /\ doc'[t] = d
  BY DEF Stops, Open, NavTypes
<1> HIDE DEF d
<1>4. PICK p \in NavPackets : wire' = Append(wire, p) /\ p.kind = "stop" /\ p.actor = t
                              /\ p.url = doc[t].url /\ p.asked = doc[t].asked
  <2>1. \E tab \in BOOLEAN : Post("stop", t, doc[t], tab)
    BY DEF Stops
  <2>2. QED
    BY <1>1, <2>1, Sends
<1>5. Says(t, d, p)
  BY <1>2, <1>3, <1>4 DEF Says, Stops, Unmoved, OnlyWire
<1>6. Shown(t) /\ doc[t].asked \in BOOLEAN /\ doc[t].moved \in BOOLEAN
  BY <1>1 DEF Open, NavSound, PageSound, Documents
<1>7. Fits(t, d, p)
  BY <1>2, <1>4, <1>6 DEF Fits, Stops, Shown
<1>8. QED
  BY <1>5, <1>7, FitsKeeps

LEMMA PausesKeeps ==
  ASSUME Open, NEW t \in TopActors, Pauses(t)
  PROVE  LoadInv' /\ ~closed'
<1> DEFINE d == [doc[t] EXCEPT !.state = "halted"]
<1>1. doc[t] \in Documents
  BY DEF Open, NavTypes
<1>2. /\ d \in Documents /\ d.url = doc[t].url /\ d.asked = doc[t].asked /\ d.moved = doc[t].moved
      /\ d.state = "halted"
  BY <1>1 DEF Documents
<1>3. doc' = [doc EXCEPT ![t] = d] /\ doc'[t] = d
  BY DEF Pauses, Open, NavTypes
<1> HIDE DEF d
<1>4. PICK p \in NavPackets : wire' = Append(wire, p) /\ p.kind = "paused" /\ p.actor = t
                              /\ p.url = doc[t].url /\ p.asked = doc[t].asked
  <2>1. Send("paused", t, doc[t])
    BY DEF Pauses
  <2>2. QED
    BY <1>1, <2>1, SendsPlain
<1>5. Says(t, d, p)
  BY <1>2, <1>3, <1>4 DEF Says, Pauses, Unmoved, OnlyWire
<1>6. Shown(t) /\ doc[t].asked \in BOOLEAN /\ doc[t].moved \in BOOLEAN
  BY <1>1 DEF Open, NavSound, PageSound, Documents
<1>7. Fits(t, d, p)
  BY <1>2, <1>4, <1>6 DEF Fits, Pauses, Shown
<1>8. QED
  BY <1>5, <1>7, FitsKeeps

\* Steps that put nothing on the wire.
LEMMA SilentKeeps ==
  ASSUME wire' = wire, NEW t \in TopActors, PageSound(t), doc'[t] = doc[t], phase'[t] = phase[t],
         page' = t <=> page = t, Accepted => Accepted'
  PROVE  PageSound(t)'
<1>1. \A M : About(t, M)' = About(t, M)
  BY DEF About
<1>2. \A n : Final(t, n)' <=> Final(t, n)
  BY <1>1 DEF Final
<1>3. Shown(t)'
  BY DEF PageSound, Shown
<1>4. Telling(t)'
  BY DEF PageSound, Telling, Told, Named
<1>5. Ordered(t)'
  BY <1>1, <1>2 DEF PageSound, Ordered, Due, Named
<1>6. QED
  BY <1>3, <1>4, <1>5 DEF PageSound

LEMMA SilentPending ==
  ASSUME Open, wire' = wire, UNCHANGED sessionVars, UNCHANGED <<callerVars, origin, credited>>,
         \A t \in TopActors : Known(t) =>
           /\ doc'[t].url = doc[t].url /\ doc'[t].asked = doc[t].asked /\ doc'[t].moved = doc[t].moved
           /\ doc'[t].state \in {doc[t].state, "resumed"}
           /\ doc'[t].state = "halted" /\ t \in resumes => t \in resumes'
  PROVE  Pending'
<1>1. /\ Tops' = Tops /\ \A a : Known(a)' <=> Known(a)
      /\ retiredTargetActors' = retiredTargetActors /\ nextGeneration' = nextGeneration
  BY SessionSame DEF Open
<1>2. UNCHANGED <<startup, progress, request, origin, credited>>
  BY DEF callerVars
<1>3. \A t, M : About(t, M)' = About(t, M)
  BY DEF About
<1>4. ASSUME startup = "pending" PROVE Origins'
  BY <1>1, <1>2, <1>4 DEF Open, NavSound, Pending, Origins
<1>5. ASSUME startup = "pending" PROVE Held'
  <2>1. ASSUME NEW t \in TopActors, Known(t)', doc'[t].asked, doc'[t].state = "halted"
        PROVE  t \in resumes' \/ About(t, {"paused"})' # {}
    <3>1. Known(t) /\ doc[t].asked /\ doc[t].state = "halted"
      BY <1>1, <2>1
    <3>2. t \in resumes \/ About(t, {"paused"}) # {}
      BY <1>5, <3>1 DEF Open, NavSound, Pending, Held
    <3>3. QED
      BY <1>3, <2>1, <3>1, <3>2
  <2>2. QED
    BY <2>1 DEF Held
<1>6. ASSUME startup = "pending", progress.phase = "waiting", NEW i \in Tops PROVE Watched(i)'
  <2>1. i.actor \in TopActors /\ Known(i.actor) /\ Watched(i)
    BY <1>6, TopsAreThreads DEF Open, NavSound, Pending
  <2>2. /\ doc'[i.actor].url = doc[i.actor].url /\ doc'[i.actor].asked = doc[i.actor].asked
        /\ doc'[i.actor].moved = doc[i.actor].moved
        /\ doc'[i.actor].state \in {doc[i.actor].state, "resumed"}
    BY <2>1
  <2>3. \A n : Final(i.actor, n)' <=> Final(i.actor, n)
    BY <1>3, <2>2 DEF Final
  <2>4. (Named(i.actor)' <=> Named(i.actor)) /\ (Due(i.actor)' => Due(i.actor))
    BY <2>2 DEF Named, Due
  <2>5. QED
    BY <1>2, <1>3, <2>1, <2>2, <2>3, <2>4 DEF Watched
<1>7. ASSUME startup = "pending", progress.phase = "destination-ready" PROVE Credited'
  <2>1. \A i \in Tops : doc[i.actor].asked => doc'[i.actor].asked
    BY TopsAreThreads DEF Open
  <2>2. QED
    BY <1>1, <1>2, <1>7, <2>1, CreditedStays
<1>8. QED
  BY <1>1, <1>2, <1>4, <1>5, <1>6, <1>7 DEF Pending

LEMMA ResumesKeeps ==
  ASSUME Open, NEW t \in TopActors, Resumes(t)
  PROVE  LoadInv' /\ ~closed'
<1>1. /\ wire' = wire /\ UNCHANGED <<phase, page, command>> /\ UNCHANGED sessionVars
      /\ UNCHANGED <<callerVars, origin, credited>> /\ resumes' = resumes \ {t}
      /\ doc' = IF doc[t].state = "halted" THEN [doc EXCEPT ![t].state = "resumed"] ELSE doc
  BY DEF Resumes, vars, firefoxVars
<1>2. /\ SessionTypes' /\ Sound' /\ ~closed' /\ (\A a : Known(a)' <=> Known(a))
      /\ retiredTargetActors' = retiredTargetActors
  BY <1>1, SessionSame DEF Open
<1>3. \A u \in TopActors : doc[u] \in Documents
  BY DEF Open, NavTypes
<1>4. doc' \in [TopActors -> Documents]
  BY <1>1, <1>3 DEF Open, NavTypes, Documents
<1>5. \A u \in TopActors :
        /\ doc'[u].url = doc[u].url /\ doc'[u].asked = doc[u].asked /\ doc'[u].moved = doc[u].moved
        /\ u # t \/ doc[u].state # "halted" => doc'[u] = doc[u]
        /\ u = t /\ doc[u].state = "halted" => doc'[u].state = "resumed"
  BY <1>1, <1>3 DEF Open, NavTypes, Documents
<1>6. NavTypes' /\ Unasked'
  BY <1>1, <1>4 DEF Open, NavTypes, Unasked, callerVars
<1>7. ASSUME NEW u \in TopActors PROVE PageSound(u)'
  <2>1. PageSound(u) /\ (Accepted => Accepted')
    BY <1>1 DEF Open, NavSound, Accepted
  <2>2. CASE u # t \/ doc[u].state # "halted"
    BY <1>1, <1>5, <2>1, <2>2, SilentKeeps
  <2>3. CASE u = t /\ doc[u].state = "halted"
    <3>1. doc'[u].state = "resumed" /\ \A M : About(u, M)' = About(u, M)
      BY <1>1, <1>5, <2>3 DEF About
    <3>2. Shown(u)' /\ Telling(u)'
      BY <1>1, <1>5, <2>1, <2>3, <3>1 DEF PageSound, Shown, Telling, Told, Named
    <3>3. Ordered(u)'
      BY <1>1, <2>1, <3>1 DEF PageSound, Ordered, Due
    <3>4. QED
      BY <3>2, <3>3 DEF PageSound
  <2>4. QED
    BY <2>2, <2>3
<1>8. Heard'
  BY <1>1, <1>2 DEF Open, NavSound, Heard, Known, About
<1>9. Pending'
  <2>1. \A u \in TopActors : Known(u) =>
           /\ doc'[u].url = doc[u].url /\ doc'[u].asked = doc[u].asked /\ doc'[u].moved = doc[u].moved
           /\ doc'[u].state \in {doc[u].state, "resumed"}
           /\ doc'[u].state = "halted" /\ u \in resumes => u \in resumes'
    BY <1>1, <1>5
  <2>2. QED
    BY <1>1, <2>1, SilentPending
<1>10. QED
  BY <1>2, <1>6, <1>7, <1>8, <1>9 DEF LoadInv, NavSound

LEMMA TakesKeeps ==
  ASSUME Open, Takes
  PROVE  LoadInv' /\ ~closed'
<1>1. /\ wire' = wire /\ UNCHANGED <<phase, page, doc>> /\ UNCHANGED sessionVars /\ Accepted'
      /\ UNCHANGED <<callerVars, origin, credited>> /\ resumes' = resumes
  BY DEF Takes, vars, firefoxVars, Accepted
<1>2. /\ SessionTypes' /\ Sound' /\ ~closed' /\ (\A a : Known(a)' <=> Known(a))
      /\ retiredTargetActors' = retiredTargetActors
  BY <1>1, SessionSame DEF Open
<1>3. NavTypes' /\ Unasked'
  BY <1>1 DEF Takes, Open, NavTypes, Unasked, callerVars
<1>4. \A u \in TopActors : PageSound(u)'
  <2>1. ASSUME NEW u \in TopActors PROVE PageSound(u)'
    BY <1>1, SilentKeeps DEF Open, NavSound
  <2>2. QED
    BY <2>1
<1>5. Heard'
  BY <1>1, <1>2 DEF Open, NavSound, Heard, Known, About
<1>6. Pending'
  BY <1>1, SilentPending
<1>7. QED
  BY <1>2, <1>3, <1>4, <1>5, <1>6 DEF LoadInv, NavSound

LEMMA AnswersKeeps ==
  ASSUME Open, Answers
  PROVE  LoadInv' /\ ~closed'
<1>1. PICK p \in NavPackets : wire' = Append(wire, p) /\ p.kind \in {"reply", "error"} /\ p.actor = NoPage
  <2> DEFINE q(k, a) == [kind |-> k, actor |-> NoPage, url |-> Wanted, asked |-> a, tab |-> FALSE]
  <2>1. q("error", FALSE) \in NavPackets /\ q("reply", TRUE) \in NavPackets
    BY DEF NavPackets, Urls
  <2>2. wire' = Append(wire, q("error", FALSE)) \/ wire' = Append(wire, q("reply", TRUE))
    BY DEF Answers, Send, Post, Document
  <2>3. QED
    BY <2>1, <2>2
<1>2. /\ UNCHANGED <<phase, page, doc, resumes>> /\ UNCHANGED sessionVars /\ (Accepted => Accepted')
      /\ UNCHANGED <<callerVars, origin, credited>> /\ (command # "none") /\ UNCHANGED <<startup, request>>
  BY DEF Answers, OnlyWire, callerVars, Accepted
<1>3. /\ SessionTypes' /\ Sound' /\ ~closed'
  BY <1>2, SessionSame DEF Open
<1>4. wire' \in Seq(NavPackets) /\ Put(p)
  BY <1>1, Puts DEF Open
<1>5. NavTypes' /\ Unasked'
  BY <1>2, <1>4 DEF Open, NavTypes, Unasked, callerVars
<1>6. ASSUME NEW u \in TopActors PROVE PageSound(u)'
  <2>1. p.actor # u
    BY <1>1, TargetsAssumption DEF Actors
  <2>2. QED
    BY <1>2, <1>4, <2>1, OthersKeep DEF Open, NavSound
<1>7. Heard'
  BY <1>1, <1>2, <1>4, HeardStays
<1>8. Pending'
  <2>1. ~Known(p.actor)
    BY <1>1, TargetsAssumption DEF Known, Open, SessionTypes, ThreadInfo
  <2>2. QED
    BY <1>2, <1>4, <2>1, PendingStays
<1>9. QED
  BY <1>3, <1>5, <1>6, <1>7, <1>8 DEF LoadInv, NavSound

\* Nothing is on its way about a page that is not announced.
LEMMA NothingTold ==
  ASSUME Open, NEW t \in TopActors, phase[t] \in {"unborn", "loading"}
  PROVE  /\ \A n \in DOMAIN wire : wire[n].actor # t
         /\ \A M : About(t, M) = {}
         /\ ~Known(t) /\ t \notin retiredTargetActors
<1>1. \A n \in DOMAIN wire : wire[n].actor # t
  BY DEF Open, NavSound, PageSound, Telling, Told
<1>2. QED
  BY <1>1 DEF About, Open, NavSound, Heard

\* A page loads its first document.
LEMMA NewDocuments ==
  ASSUME Open, NEW t \in TopActors, NewDocument(t)
  PROVE  /\ doc' \in [TopActors -> Documents] /\ \A u \in TopActors \ {t} : doc'[u] = doc[u]
         /\ doc'[t].asked => Accepted
         /\ ~doc'[t].moved /\ doc'[t].state = "loading"
<1>1. PICK u \in Urls : doc' = [doc EXCEPT ![t] = Document(u, Accepted)]
  BY DEF NewDocument
<1>2. Document(u, Accepted) \in Documents /\ Document(u, Accepted).asked = Accepted
      /\ Document(u, Accepted).moved = FALSE /\ Document(u, Accepted).state = "loading"
  BY DEF Document, Documents, Accepted
<1>3. QED
  BY <1>1, <1>2 DEF Open, NavTypes

LEMMA LoadsKeeps ==
  ASSUME Open, NEW t \in TopActors, Loads(t)
  PROVE  LoadInv' /\ ~closed'
<1>1. /\ page = NoPage /\ page' = t /\ phase[t] = "unborn" /\ phase' = [phase EXCEPT ![t] = "loading"]
      /\ wire' = wire /\ UNCHANGED sessionVars
      /\ UNCHANGED <<callerVars, origin, credited, command, resumes>>
  BY DEF Loads, FirefoxLoads, Unmoved
<1>2. /\ SessionTypes' /\ Sound' /\ ~closed' /\ (\A a : Known(a)' <=> Known(a))
      /\ retiredTargetActors' = retiredTargetActors
  BY <1>1, SessionSame DEF Open
<1>3. /\ doc' \in [TopActors -> Documents] /\ \A u \in TopActors \ {t} : doc'[u] = doc[u]
      /\ doc'[t].asked => Accepted
      /\ ~doc'[t].moved /\ doc'[t].state = "loading"
  BY NewDocuments DEF Loads
<1>4. /\ \A n \in DOMAIN wire : wire[n].actor # t
      /\ \A M : About(t, M) = {}
      /\ ~Known(t) /\ t \notin retiredTargetActors
  BY <1>1, NothingTold
<1>5. /\ phase'[t] = "loading" /\ t # NoPage
      /\ \A u \in TopActors \ {t} : phase'[u] = phase[u] /\ u # NoPage
      /\ phase' \in [Actors -> {"unborn", "loading", "live", "dying", "gone"}]
  BY <1>1, TargetsAssumption DEF Open, NavTypes, Actors
<1>6. NavTypes' /\ Unasked'
  BY <1>1, <1>3, <1>5 DEF Open, NavTypes, Unasked, callerVars
<1>7. ASSUME NEW u \in TopActors PROVE PageSound(u)'
  <2>1. PageSound(u) /\ (Accepted <=> Accepted')
    BY <1>1 DEF Open, NavSound, Accepted
  <2>2. CASE u # t
    <3>1. page' = u <=> page = u
      BY <1>1, <1>5, <2>2
    <3>2. QED
      BY <1>1, <1>3, <1>5, <2>1, <2>2, <3>1, SilentKeeps
  <2>3. CASE u = t
    <3>1. \A M : About(t, M)' = {}
      BY <1>1, <1>4 DEF About
    <3>2. Shown(t)'
      BY <1>1, <1>3, <1>5, <2>1 DEF Shown
    <3>3. Telling(t)'
      BY <1>1, <1>4 DEF Telling
    <3>4. Ordered(t)'
      BY <3>1 DEF Ordered
    <3>5. QED
      BY <2>3, <3>2, <3>3, <3>4 DEF PageSound
  <2>4. QED
    BY <2>2, <2>3
<1>8. Heard'
  BY <1>1, <1>2, <1>4, <1>5 DEF Open, NavSound, Heard
<1>9. Pending'
  <2>1. \A u \in TopActors : Known(u) => doc'[u] = doc[u]
    BY <1>3, <1>4
  <2>2. QED
    BY <1>1, <2>1, SilentPending
<1>10. QED
  BY <1>2, <1>6, <1>7, <1>8, <1>9 DEF LoadInv, NavSound

\* The announcement of t, now the page of the tab, comes behind all others.
LEMMA Announced ==
  ASSUME Open, NEW t \in TopActors, phase[t] \in {"unborn", "loading"}, UNCHANGED sessionVars,
         NEW p, Put(p), p.kind = "available", p.actor = t, p.url = doc'[t].url,
         phase'[t] = "live", page' = t, doc'[t].state = "loading", ~doc'[t].moved,
         doc'[t].asked => Accepted',
         \A u \in TopActors \ {t} : phase'[u] \in {"unborn", "loading"} => phase[u] \in {"unborn", "loading"}
  PROVE  PageSound(t)' /\ Heard'
<1>1. /\ retiredTargetActors' = retiredTargetActors /\ \A a : Known(a)' <=> Known(a)
  BY SessionSame DEF Open
<1>2. /\ \A n \in DOMAIN wire : wire[n].actor # t
      /\ \A M : About(t, M) = {}
      /\ ~Known(t) /\ t \notin retiredTargetActors
  BY NothingTold
<1>3. \A n \in DOMAIN wire' : wire'[n].actor = t => n = Len(wire) + 1 /\ wire'[n] = p
  BY <1>2 DEF Put
<1>4. Shown(t)'
  BY DEF Shown
<1>5. Telling(t)'
  BY <1>3 DEF Telling, Told, Named
<1>6. Ordered(t)'
  <2>1. About(t, {"start"})' = {} /\ ~Due(t)' /\ doc'[t].state # "halted"
    BY <1>3 DEF About, Due
  <2>2. \A m, n \in About(t, {"available"})' : m = n
    BY <1>3 DEF About
  <2>3. QED
    BY <2>1, <2>2 DEF Ordered
<1>7. Heard'
  <2>1. PICK e : e = Len(wire) + 1 /\ e \in Nat
    BY DEF Open, NavTypes
  <2>2. /\ e \in DOMAIN wire' /\ wire'[e] = p
        /\ \A n \in DOMAIN wire' : (n \in DOMAIN wire /\ n \in Nat /\ n < e) \/ n = e
    BY <2>1 DEF Put
  <2>3. e \in About(t, {"available"})'
    BY <2>2 DEF About
  <2>4. \A m \in DOMAIN wire' : m <= e
    BY <2>1, <2>2
  <2>5. \A u \in TopActors : phase'[u] \in {"unborn", "loading"}
                              => ~Known(u)' /\ u \notin retiredTargetActors'
    BY <1>1 DEF Open, NavSound, Heard
  <2>6. ~Known(t)' /\ t \notin retiredTargetActors'
    BY <1>1, <1>2
  <2>7. ~Known(page)' /\ page' \notin retiredTargetActors' /\ e \in About(page, {"available"})'
    BY <2>3, <2>6 DEF Known, About
  <2>8. QED
    BY <2>4, <2>5, <2>7 DEF Heard
<1>8. QED
  BY <1>4, <1>5, <1>6, <1>7 DEF PageSound

LEMMA AnnouncesKeeps ==
  ASSUME Open, NEW t \in TopActors, Announces(t)
  PROVE  LoadInv' /\ ~closed'
<1>1. /\ phase[t] = "loading" /\ phase' = [phase EXCEPT ![t] = "live"] /\ UNCHANGED <<doc, page>>
      /\ UNCHANGED sessionVars /\ UNCHANGED <<callerVars, origin, credited, command, resumes>>
  BY DEF Announces, Unmoved
<1>2. PICK p \in NavPackets : wire' = Append(wire, p) /\ p.kind = "available" /\ p.actor = t
                              /\ p.url = doc[t].url
  <2>1. Send("available", t, doc[t]) /\ doc[t] \in Documents
    BY DEF Announces, Open, NavTypes
  <2>2. QED
    BY <2>1, SendsPlain
<1>3. wire' \in Seq(NavPackets) /\ Put(p)
  BY <1>2, Puts DEF Open
<1>4. /\ phase'[t] = "live" /\ \A u \in TopActors \ {t} : phase'[u] = phase[u]
      /\ phase' \in [Actors -> {"unborn", "loading", "live", "dying", "gone"}]
  BY <1>1 DEF Open, NavTypes, Actors
<1>5. /\ SessionTypes' /\ Sound' /\ ~closed'
  BY <1>1, SessionSame DEF Open
<1>6. NavTypes' /\ Unasked'
  BY <1>1, <1>3, <1>4 DEF Open, NavTypes, Unasked, callerVars
<1>7. PageSound(t)' /\ Heard'
  <2>1. Shown(t) /\ (Accepted => Accepted')
    BY <1>1 DEF Open, NavSound, PageSound, Accepted
  <2>2. page' = t /\ doc'[t].state = "loading" /\ ~doc'[t].moved /\ (doc'[t].asked => Accepted')
    BY <1>1, <2>1 DEF Shown
  <2>3. QED
    BY <1>1, <1>2, <1>3, <1>4, <2>2, Announced
<1>8. ASSUME NEW u \in TopActors \ {t} PROVE PageSound(u)'
  BY <1>1, <1>2, <1>3, <1>4, OthersKeep DEF Open, NavSound, Accepted
<1>9. Pending'
  <2>1. ~Known(t)
    BY <1>1, NothingTold
  <2>2. QED
    BY <1>1, <1>2, <1>3, <2>1, PendingStays
<1>10. \A u \in TopActors : PageSound(u)'
  BY <1>7, <1>8
<1>11. QED
  BY <1>5, <1>6, <1>7, <1>9, <1>10 DEF LoadInv, NavSound

\* A page that is left, or destroyed.
LEMMA LeavingKeeps ==
  ASSUME NavTypes, NEW p, Put(p), NEW t \in TopActors, PageSound(t), doc'[t] = doc[t], page' # t,
         Accepted => Accepted', phase'[t] \in {"dying", "gone"}, phase[t] = "gone" => phase'[t] = "gone",
         p.actor = t => p.kind = "destroyed" /\ phase'[t] = "gone"
  PROVE  PageSound(t)'
<1>1. ASSUME NEW M, "destroyed" \notin M
      PROVE  About(t, M)' = About(t, M) /\ \A n \in About(t, M) : wire'[n] = wire[n]
  <2>1. GrownAbout(p, t, M)
    BY AboutPuts
  <2>2. QED
    BY <1>1, <2>1 DEF GrownAbout
<1>2. /\ About(t, {"stop"})' = About(t, {"stop"}) /\ \A n \in About(t, {"stop"}) : wire'[n] = wire[n]
      /\ About(t, {"start"})' = About(t, {"start"})
      /\ About(t, {"paused"})' = About(t, {"paused"})
      /\ About(t, {"available"})' = About(t, {"available"})
      /\ About(t, {"available", "start"})' = About(t, {"available", "start"})
      /\ About(t, {"stop", "document"})' = About(t, {"stop", "document"})
      /\ \A n \in About(t, {"stop", "document"}) : wire'[n] = wire[n]
  BY <1>1
<1>3. \A n : Final(t, n)' <=> Final(t, n)
  BY <1>2 DEF Final
<1>4. Shown(t)'
  BY DEF PageSound, Shown
<1>5. Telling(t)'
  <2>1. ASSUME NEW n \in DOMAIN wire', NEW q, q = wire'[n], q.actor = t PROVE Told(t, q)'
    <3>1. CASE n \in DOMAIN wire
      BY <2>1, <3>1 DEF PageSound, Telling, Told, Named, Put
    <3>2. CASE q = p
      BY <2>1, <3>2 DEF Told
    <3>3. QED
      BY <2>1, <3>1, <3>2 DEF Put
  <2>2. QED
    BY <2>1 DEF Telling, Told, Named
<1>6. Ordered(t)'
  BY <1>2, <1>3 DEF PageSound, Ordered, Due, Named, Put
<1>7. QED
  BY <1>4, <1>5, <1>6 DEF PageSound

LEMMA DyingIs ==
  ASSUME NavTypes, NEW t \in TopActors, NEW fate \in {"dying", "gone"}
  PROVE  /\ Dying(t, fate) \in [Actors -> {"unborn", "loading", "live", "dying", "gone"}]
         /\ Dying(t, fate)[t] = fate
         /\ \A u \in TopActors \ {t} : Dying(t, fate)[u] = phase[u]
  BY TargetsAssumption DEF Dying, WorkersOf, NavTypes, Actors

LEMMA SwapsKeeps ==
  ASSUME Open, NEW t \in TopActors, NEW u \in TopActors, Swaps(t, u)
  PROVE  LoadInv' /\ ~closed'
<1>1. /\ page = t /\ page' = u /\ phase[t] = "live" /\ phase[u] = "unborn" /\ u # t
      /\ phase' = [Dying(t, "dying") EXCEPT ![u] = "live"]
      /\ UNCHANGED sessionVars /\ UNCHANGED <<callerVars, origin, credited, command, resumes>>
  BY DEF Swaps, Unmoved
<1>2. /\ phase'[t] = "dying" /\ phase'[u] = "live"
      /\ \A x \in TopActors \ {t, u} : phase'[x] = phase[x]
      /\ phase' \in [Actors -> {"unborn", "loading", "live", "dying", "gone"}]
  <2>1. /\ Dying(t, "dying") \in [Actors -> {"unborn", "loading", "live", "dying", "gone"}]
        /\ Dying(t, "dying")[t] = "dying"
        /\ \A x \in TopActors \ {t} : Dying(t, "dying")[x] = phase[x]
    BY DyingIs DEF Open
  <2>2. u \in Actors
    BY DEF Actors
  <2>3. QED
    BY <1>1, <2>1, <2>2 DEF Actors
<1>3. /\ doc' \in [TopActors -> Documents] /\ \A x \in TopActors \ {u} : doc'[x] = doc[x]
      /\ doc'[u].asked => Accepted
      /\ ~doc'[u].moved /\ doc'[u].state = "loading"
  BY NewDocuments DEF Swaps
<1>4. PICK p \in NavPackets : wire' = Append(wire, p) /\ p.kind = "available" /\ p.actor = u
                              /\ p.url = doc'[u].url
  <2>1. PICK d \in Documents : d = doc'[u]
    BY <1>3
  <2>2. Send("available", u, d)
    BY <2>1 DEF Swaps
  <2>3. QED
    BY <2>1, <2>2, SendsPlain
<1>5. wire' \in Seq(NavPackets) /\ Put(p)
  BY <1>4, Puts DEF Open
<1>6. /\ SessionTypes' /\ Sound' /\ ~closed'
  BY <1>1, SessionSame DEF Open
<1>7. NavTypes' /\ Unasked'
  BY <1>1, <1>2, <1>3, <1>5 DEF Open, NavTypes, Unasked, callerVars
<1>8. Accepted <=> Accepted'
  BY <1>1 DEF Accepted
<1>9. PageSound(u)' /\ Heard'
  BY <1>1, <1>2, <1>3, <1>4, <1>5, <1>8, Announced
<1>10. PageSound(t)'
  BY <1>1, <1>2, <1>3, <1>4, <1>5, <1>8, LeavingKeeps DEF Open, NavSound
<1>11. ASSUME NEW x \in TopActors \ {t, u} PROVE PageSound(x)'
  <2>1. page' = x <=> page = x
    BY <1>1
  <2>2. p.actor # x /\ doc'[x] = doc[x] /\ phase'[x] = phase[x] /\ PageSound(x)
    BY <1>2, <1>3, <1>4 DEF Open, NavSound
  <2>3. QED
    BY <1>5, <1>8, <2>1, <2>2, OthersKeep DEF Open
<1>12. Pending'
  <2>1. ~Known(u)
    BY <1>1, NothingTold
  <2>2. \A x \in TopActors : Known(x) => doc'[x] = doc[x]
    BY <1>3, <2>1
  <2>3. QED
    BY <1>1, <1>4, <1>5, <2>1, <2>2, PendingStays
<1>13. \A x \in TopActors : PageSound(x)'
  BY <1>9, <1>10, <1>11
<1>14. QED
  BY <1>6, <1>7, <1>9, <1>12, <1>13 DEF LoadInv, NavSound

\* A page is destroyed.
LEMMA DestroyedKeeps ==
  ASSUME Open, NEW t \in TopActors, Emit("destroyed", t), UNCHANGED navigationVars, UNCHANGED sessionVars,
         phase' \in [Actors -> {"unborn", "loading", "live", "dying", "gone"}], phase'[t] = "gone",
         \A u \in TopActors \ {t} : phase'[u] = phase[u],
         page' = IF page = t THEN NoPage ELSE page
  PROVE  LoadInv' /\ ~closed'
<1>1. UNCHANGED <<startup, progress, request, doc, command, resumes, origin, credited>>
      /\ UNCHANGED callerVars
  BY DEF navigationVars, callerVars
<1>2. PICK p \in NavPackets : wire' = Append(wire, p) /\ p.kind = "destroyed" /\ p.actor = t
  <2>1. [kind |-> "destroyed", actor |-> t] \in NavPackets
    BY DEF NavPackets
  <2>2. QED
    BY <2>1 DEF Emit
<1>3. wire' \in Seq(NavPackets) /\ Put(p)
  BY <1>2, Puts DEF Open
<1>4. /\ SessionTypes' /\ Sound' /\ ~closed'
  BY SessionSame DEF Open
<1>5. t # NoPage
  BY TargetsAssumption DEF Actors
<1>6. NavTypes' /\ Unasked'
  BY <1>1, <1>3 DEF Open, NavTypes, Unasked
<1>7. PageSound(t)'
  BY <1>1, <1>2, <1>3, <1>5, LeavingKeeps DEF Open, NavSound, Accepted
<1>8. ASSUME NEW u \in TopActors \ {t} PROVE PageSound(u)'
  <2>1. page' = u <=> page = u
    BY TargetsAssumption DEF Actors
  <2>2. QED
    BY <1>1, <1>2, <1>3, <2>1, OthersKeep DEF Open, NavSound, Accepted
<1>9. Heard'
  <2>1. page' # NoPage /\ phase'[page'] = "live" => page' = page /\ phase[page] = "live"
    BY <1>5 DEF Open, NavTypes
  <2>2. \A u \in TopActors : phase'[u] \in {"unborn", "loading"} => phase[u] \in {"unborn", "loading"}
    OBVIOUS
  <2>3. QED
    BY <1>2, <1>3, <2>1, <2>2, HeardStays
<1>10. Pending'
  BY <1>1, <1>2, <1>3, PendingStays
<1>11. \A u \in TopActors : PageSound(u)'
  BY <1>7, <1>8
<1>12. QED
  BY <1>4, <1>6, <1>9, <1>10, <1>11 DEF LoadInv, NavSound

LEMMA DestroysKeeps ==
  ASSUME Open, NEW t \in TopActors, FirefoxDestroysPage(t) \/ FirefoxDestroysLate(t),
         UNCHANGED navigationVars
  PROVE  LoadInv' /\ ~closed'
<1>1. CASE FirefoxDestroysPage(t)
  <2>1. /\ phase' = Dying(t, "gone") /\ page' = (IF page = t THEN NoPage ELSE page)
        /\ Emit("destroyed", t) /\ UNCHANGED sessionVars
    BY <1>1 DEF FirefoxDestroysPage
  <2>2. /\ Dying(t, "gone") \in [Actors -> {"unborn", "loading", "live", "dying", "gone"}]
        /\ Dying(t, "gone")[t] = "gone"
        /\ \A u \in TopActors \ {t} : Dying(t, "gone")[u] = phase[u]
    BY DyingIs DEF Open
  <2>3. QED
    BY <2>1, <2>2, DestroyedKeeps
<1>2. CASE FirefoxDestroysLate(t)
  <2>1. /\ phase[t] = "dying" /\ phase' = [phase EXCEPT ![t] = "gone"] /\ page' = page
        /\ Emit("destroyed", t) /\ UNCHANGED sessionVars
    BY <1>2, TargetsAssumption DEF FirefoxDestroysLate
  <2>2. page # t
    BY <2>1, TargetsAssumption DEF Open, NavSound, PageSound, Shown
  <2>3. /\ phase' \in [Actors -> {"unborn", "loading", "live", "dying", "gone"}] /\ phase'[t] = "gone"
        /\ \A u \in TopActors \ {t} : phase'[u] = phase[u]
    BY <2>1 DEF Open, NavTypes, Actors
  <2>4. QED
    BY <2>1, <2>2, <2>3, DestroyedKeeps
<1>3. QED
  BY <1>1, <1>2

LEMMA FirefoxKeeps ==
  ASSUME Open, NavFirefox
  PROVE  LoadInv' /\ ~closed'
  BY LoadsKeeps, AnnouncesKeeps, StartsKeeps, InteractiveKeeps, StopsKeeps, PausesKeeps, ResumesKeeps,
     SwapsKeeps, TakesKeeps, AnswersKeeps, DestroysKeeps DEF NavFirefox

-----------------------------------------------------------------------------
(* What the session hears *)

\* The packet announces a page that the session does not know.
Arrives ==
  LET a == Head(wire).actor IN
  /\ Head(wire).kind = "available" /\ ~Known(a) /\ a \notin retiredTargetActors
  /\ nextGeneration' = nextGeneration + 1
  /\ \A i \in Tops' : i.actor = a /\ i.gen = nextGeneration
  /\ \E i \in Tops' : i.actor = a

NoArrival ==
  /\ threads' \subseteq threads /\ nextGeneration' = nextGeneration
  /\ Head(wire).kind = "available" => Known(Head(wire).actor) \/ Head(wire).actor \in retiredTargetActors

LEMMA Turns ==
  ASSUME SessionTypes, Sound, Deliver, Head(wire).actor \in TopActors
  PROVE  SessionTypes' /\ (closed' \/ Sound') /\ IF closed' THEN threads' = threads ELSE Arrives \/ NoArrival
<1> DEFINE a == Head(wire).actor
<1>1. SessionTypes' /\ (closed' \/ Sound')
  BY DeliverStep DEF SessionOK, Actors
<1>2. ~closed /\ OnEvent(Head(wire))
  BY DEF Deliver
<1>3. ASSUME CloseSession PROVE closed' /\ threads' = threads
  BY <1>3 DEF CloseSession
<1>4. ASSUME IgnorePacket PROVE ~closed' /\ threads' = threads /\ nextGeneration' = nextGeneration
  BY <1>2, <1>4 DEF IgnorePacket
<1>5. ASSUME Head(wire).kind = "available"
      PROVE  IF closed' THEN threads' = threads ELSE Arrives \/ NoArrival
  <2>1. TargetAvailable(a)
    BY <1>2, <1>5 DEF OnEvent
  <2>2. CASE a \in retiredTargetActors \/ Known(a)
    BY <1>4, <2>1, <2>2 DEF TargetAvailable, NoArrival
  <2>3. CASE ~(a \in retiredTargetActors \/ Known(a))
    <3>1. TopLevelAvailable(a)
      BY <2>1, <2>3 DEF TargetAvailable
    <3>2. CASE CloseSession
      BY <1>3, <3>2
    <3>3. CASE ~CloseSession
      <4> DEFINE new == [tid |-> PageTid, actor |-> a, gen |-> nextGeneration, top |-> TRUE]
      <4>1. /\ nextGeneration' = nextGeneration + 1 /\ activeGeneration' = nextGeneration
            /\ new \in threads' /\ closed' = closed
        BY <3>1, <3>3 DEF TopLevelAvailable
      <4>2. new.actor = a /\ new.top
        OBVIOUS
      <4> HIDE DEF new
      <4>3. new \in Tops' /\ Sound'
        BY <1>1, <1>2, <4>1, <4>2 DEF Tops
      <4>4. \A i \in Tops' : i = new /\ i.gen = nextGeneration
        BY <4>1, <4>3 DEF Sound, Threads, Placed, Tops
      <4>5. QED
        BY <1>2, <1>5, <2>3, <4>1, <4>2, <4>3, <4>4 DEF Arrives
    <3>4. QED
      BY <3>2, <3>3
  <2>4. QED
    BY <2>2, <2>3
<1>6. ASSUME Head(wire).kind # "available"
      PROVE  IF closed' THEN threads' = threads ELSE NoArrival
  <2>1. TargetDestroyed(a) \/ SourceAvailable(a)
    BY <1>2, <1>6 DEF OnEvent
  <2>2. CASE SourceAvailable(a)
    BY <1>2, <1>4, <1>6, <2>2 DEF SourceAvailable, RememberSource, NoArrival
  <2>3. CASE TargetDestroyed(a)
    <3>1. CASE CloseSession
      BY <1>3, <3>1
    <3>2. CASE ~CloseSession
      BY <1>2, <1>6, <2>3, <3>2 DEF TargetDestroyed, TopLevelDestroyed, OtherDestroyed, NoArrival
    <3>3. QED
      BY <3>1, <3>2
  <2>4. QED
    BY <2>1, <2>2, <2>3
<1>7. QED
  BY <1>1, <1>5, <1>6

LEMMA HeardMoves ==
  ASSUME Open, Deliver, ~closed', Shifted, Head(wire).actor \in TopActors,
         Head(wire).kind \in {"available", "destroyed"}
  PROVE  /\ Heard'
         /\ \A t \in TopActors :
              t \in retiredTargetActors \/ Known(t) => t \in retiredTargetActors' \/ Known(t)'
<1> DEFINE a == Head(wire).actor
           kind == Head(wire).kind
           known == ActorsOf(threads)
           dead == retiredTargetActors
<1>1. Handled(a, kind)
  BY Handles DEF Open, Actors
<1>2. \A b : (Known(b) <=> b \in known) /\ (Known(b)' <=> b \in ActorsOf(threads'))
  BY KnownAre DEF Known, ActorsOf
<1>3. UNCHANGED <<phase, page>>
  BY DEF Deliver
<1>4. /\ ActorsOf(threads') \subseteq known \cup {a}
      /\ retiredTargetActors' \subseteq dead \cup known \cup {a}
      /\ known \cup dead \subseteq ActorsOf(threads') \cup retiredTargetActors'
  BY <1>1 DEF Handled
<1>5. \A t \in TopActors : phase[t] \in {"unborn", "loading"}
                           => a # t /\ ~Known(t) /\ t \notin dead
  BY NothingTold DEF Shifted
<1>6. \A t \in TopActors : phase'[t] \in {"unborn", "loading"}
                           => ~Known(t)' /\ t \notin retiredTargetActors'
  BY <1>2, <1>3, <1>4, <1>5
<1>7. \A n \in DOMAIN wire' : n \in Nat /\ n >= 1 /\ n + 1 \in DOMAIN wire /\ wire'[n] = wire[n + 1]
  BY DEF Shifted
<1>8. ASSUME page # NoPage, phase[page] = "live"
      PROVE  IF Known(page)' THEN \A n \in DOMAIN wire' : wire'[n].kind # "available"
             ELSE /\ page \notin retiredTargetActors'
                  /\ \E n \in About(page, {"available"})' :
                       \A m \in DOMAIN wire' : wire'[m].kind = "available" => m <= n
  <2>1. page \in TopActors /\ PageSound(page) /\ wire[1] = Head(wire) /\ 1 \in DOMAIN wire
    BY <1>8 DEF Open, NavTypes, NavSound, Shifted
  <2>2. a = page => kind # "destroyed"
    BY <1>8, <2>1 DEF PageSound, Telling, Told
  <2>3. CASE Known(page)
    <3>1. \A n \in DOMAIN wire : wire[n].kind # "available"
      BY <1>8, <2>3 DEF Open, NavSound, Heard
    <3>2. kind = "destroyed" /\ a # page
      BY <2>1, <2>2, <3>1
    <3>3. a \notin known \cap TopActors
      <4>1. PICK i \in Tops : i.actor = page
        BY <2>1, <2>3, TopsAreThreads DEF Open
      <4>2. \A j \in Tops : j.actor # a
        BY <3>2, <4>1, TopsAreThreads DEF Open
      <4>3. QED
        BY <1>2, <4>2, TopsAreThreads DEF Open
    <3>4. page \in ActorsOf(threads')
      BY <1>1, <1>2, <2>3, <3>2, <3>3 DEF Handled
    <3>5. QED
      BY <1>2, <1>3, <1>7, <3>1, <3>4
  <2>4. CASE ~Known(page)
    <3>1. page \notin dead
      BY <1>8, <2>4 DEF Open, NavSound, Heard
    <3>2. PICK n \in About(page, {"available"}) :
            \A m \in DOMAIN wire : wire[m].kind = "available" => m <= n
      BY <1>8, <2>4 DEF Open, NavSound, Heard
    <3>3. n \in Nat /\ n >= 1 /\ (n # 1 => n - 1 \in About(page, {"available"})')
          /\ (1 \in About(page, {"available"}) <=> a = page /\ kind = "available")
      <4>1. MovedAbout(page, {"available"})
        BY AboutShifts
      <4>2. QED
        BY <4>1 DEF MovedAbout
    <3>4. CASE a = page
      <4>1. kind = "available" /\ a \notin known /\ a \notin dead
        BY <1>2, <2>2, <2>4, <3>1, <3>4
      <4>2. n = 1
        BY <2>1, <3>3, <3>4, <4>1 DEF PageSound, Ordered
      <4>3. a \in ActorsOf(threads')
        BY <1>1, <4>1 DEF Handled
      <4>4. \A m \in DOMAIN wire' : wire'[m].kind # "available"
        BY <1>7, <3>2, <4>2
      <4>5. QED
        BY <1>2, <1>3, <3>4, <4>3, <4>4
    <3>5. CASE a # page
      <4>1. page \notin ActorsOf(threads') /\ page \notin retiredTargetActors'
        BY <1>2, <1>4, <2>4, <3>1, <3>5
      <4>2. n - 1 \in About(page, {"available"})'
        BY <3>2, <3>3, <3>5
      <4>3. \A m \in DOMAIN wire' : wire'[m].kind = "available" => m <= n - 1
        BY <1>7, <3>2, <3>3
      <4>4. QED
        BY <1>2, <1>3, <4>1, <4>2, <4>3
    <3>6. QED
      BY <3>4, <3>5
  <2>5. QED
    BY <2>3, <2>4
<1>9. Heard'
  BY <1>3, <1>6, <1>8 DEF Heard, Known, About
<1>10. QED
  BY <1>2, <1>4, <1>9

\* What is watched stays so when a packet is handled that does not end the wait.
LEMMA WatchedMovesOn ==
  ASSUME Shifted, NEW i, i.actor \in TopActors, UNCHANGED <<doc, origin, progress>>, Watched(i),
         Head(wire).actor # i.actor \/ Head(wire).kind # "start",
         Due(i.actor) /\ progress.destination \in {0, i.gen} => ~Final(i.actor, 1)
  PROVE  Watched(i)'
<1> DEFINE t == i.actor
<1>1. \A M : MovedAbout(t, M)
  BY AboutShifts
<1>2. t = origin /\ progress.same => doc[t].asked /\ \A n \in About(t, {"stop", "document"})' : wire'[n].asked
  <2>1. MovedAbout(t, {"stop", "document"})
    BY <1>1
  <2>2. QED
    BY <2>1 DEF MovedAbout, Watched
<1>3. t = origin /\ doc[t].asked => progress.same \/ About(t, {"start"})' # {}
  <2>1. MovedAbout(t, {"start"})
    BY <1>1
  <2>2. QED
    BY <2>1 DEF MovedAbout, Watched
<1>4. ASSUME NEW n \in DOMAIN wire, Final(t, n), n # 1 PROVE n - 1 \in DOMAIN wire' /\ Final(t, n - 1)'
  BY <1>4, FinalShifts
<1>5. Named(t)' = Named(t) /\ Due(t)' = Due(t)
  BY DEF Named, Due
<1>6. QED
  BY <1>2, <1>3, <1>4, <1>5 DEF Watched

\* What is watched, and held, stays so when a packet about something else is handled.
LEMMA WatchedMoves ==
  ASSUME Shifted, NEW i, i.actor \in TopActors, UNCHANGED <<doc, origin, progress>>, Watched(i),
         Head(wire).actor # i.actor \/ Head(wire).kind \notin {"start", "stop"}
  PROVE  Watched(i)'
<1>1. ~Final(i.actor, 1)
  <2>1. MovedAbout(i.actor, {"stop"})
    BY AboutShifts
  <2>2. QED
    BY <2>1 DEF MovedAbout, Final
<1>2. QED
  BY <1>1, WatchedMovesOn

LEMMA HeldMoves ==
  ASSUME Shifted, NEW t \in TopActors, About(t, {"paused"}) # {},
         Head(wire).kind # "paused" \/ Head(wire).actor # t
  PROVE  About(t, {"paused"})' # {}
<1>1. MovedAbout(t, {"paused"})
  BY AboutShifts
<1>2. QED
  BY <1>1 DEF MovedAbout

\* The page that arrives is not the one there was when navigate was called, and all that
\* makes its document the destination is still to come.
LEMMA ArrivesPending ==
  ASSUME Open, Deliver, ~closed', Shifted, Head(wire) \in NavPackets, Head(wire).actor \in TopActors,
         SessionTypes', Sound', Arrives, Observe(Head(wire).url, nextGeneration),
         UNCHANGED <<startup, request, doc, command, resumes, origin, credited>>
  PROVE  Pending'
<1>0. PICK a \in TopActors : a = Head(wire).actor
  OBVIOUS
<1>1. /\ Head(wire).kind = "available" /\ ~Known(a) /\ a \notin retiredTargetActors
      /\ nextGeneration' = nextGeneration + 1
      /\ (\A i \in Tops' : i.actor = a /\ i.gen = nextGeneration) /\ (\E i \in Tops' : i.actor = a)
  BY <1>0 DEF Arrives
<1>2. /\ nextGeneration \in Nat /\ progress.starting \in Nat /\ progress.destination \in Nat
      /\ progress.last \in Urls
      /\ progress \in Progresses
  BY DEF Open, SessionTypes, NavTypes, Progresses
<1>3. \A t \in TopActors : t \in retiredTargetActors \/ Known(t) => t \in retiredTargetActors' \/ Known(t)'
  BY <1>1, HeardMoves
<1>4. \A t \in TopActors : Known(t)' => t = a
  <2>1. \A t \in TopActors : Known(t)' => \E i \in Tops' : i.actor = t
    BY DEF Known, Tops, Sound, Threads, Placed
  <2>2. QED
    BY <1>1, <2>1
<1>5. 1 \in DOMAIN wire /\ wire[1] = Head(wire) /\ 1 \in About(a, {"available"})
      /\ 1 \in About(a, {"available", "start"}) /\ PageSound(a)
  BY <1>0, <1>1 DEF Shifted, About, Open, NavSound
<1>6. ASSUME startup = "pending"
      PROVE  /\ Origins /\ progress'.phase = progress.phase /\ progress'.starting = progress.starting
             /\ progress'.same = progress.same
             /\ progress.phase = "destination-ready" => progress' = progress
             /\ progress'.destination \in {progress.destination, nextGeneration}
             /\ progress.phase = "waiting" /\ Head(wire).url # Blank => progress'.last = Head(wire).url
  <2>1. Origins /\ progress.starting < nextGeneration
    BY <1>6 DEF Open, NavSound, Pending, Origins
  <2>2. CASE progress.phase = "waiting" /\ Head(wire).url # Blank
    <3>1. progress' = [progress EXCEPT !.destination = nextGeneration, !.last = Head(wire).url]
      BY <1>2, <1>6, <2>1, <2>2 DEF Observe, Waiting
    <3>2. QED
      BY <1>2, <2>1, <2>2, <3>1
  <2>3. CASE ~(progress.phase = "waiting" /\ Head(wire).url # Blank)
    BY <2>1, <2>3 DEF Observe, Waiting
  <2>4. QED
    BY <2>2, <2>3
<1>7. a # origin \/ startup # "pending"
  BY <1>1, <1>6, TargetsAssumption DEF Origins, Actors
<1>8. ASSUME startup = "pending" PROVE Origins'
  <2>1. origin # NoPage => Known(origin)' \/ origin \in retiredTargetActors'
    BY <1>3, <1>6, <1>8 DEF Origins, Open, NavTypes
  <2>3. \A i \in Tops' : i.gen = progress'.starting <=> i.actor = origin
    BY <1>1, <1>2, <1>6, <1>7, <1>8 DEF Origins
  <2>4. progress'.starting < nextGeneration' /\ progress'.destination < nextGeneration'
    BY <1>1, <1>2, <1>6, <1>8 DEF Origins
  <2>5. QED
    BY <1>6, <1>8, <2>1, <2>3, <2>4 DEF Origins, Known
<1>9. Held'
  <2>1. ASSUME NEW t \in TopActors, Known(t)', doc[t].state = "halted" PROVE About(t, {"paused"})' # {}
    <3>1. t = a
      BY <1>4, <2>1
    <3>2. About(t, {"paused"}) # {}
      BY <1>5, <2>1, <3>1 DEF PageSound, Ordered
    <3>3. QED
      BY <1>1, <3>2, HeldMoves
  <2>2. QED
    BY <2>1 DEF Held
<1>10. ASSUME startup = "pending", progress.phase = "waiting", NEW i \in Tops' PROVE Watched(i)'
  <2>1. i.actor = a /\ a # origin /\ i.gen = nextGeneration
    BY <1>1, <1>7, <1>10
  <2>2. Named(a) => doc[a].url \in {Wanted, progress'.last}
    <3>1. Named(a) => doc[a].url \in {Wanted, Head(wire).url} /\ doc[a].url # Blank
      BY <1>0, <1>1, <1>5 DEF PageSound, Telling, Told, Named
    <3>2. QED
      BY <1>6, <1>10, <3>1
  <2>3. ASSUME Due(a) PROVE \E n \in DOMAIN wire' : Final(a, n)'
    <3>1. PICK n \in DOMAIN wire : Final(a, n)
      BY <1>5, <2>3 DEF PageSound, Ordered
    <3>2. n # 1
      BY <1>1, <1>5, <3>1 DEF Final, About
    <3>3. n - 1 \in DOMAIN wire' /\ Final(a, n - 1)'
      BY <3>1, <3>2, FinalShifts
    <3>4. QED
      BY <3>3
  <2>4. Named(i.actor)' = Named(a) /\ Due(i.actor)' = Due(a)
    BY <2>1 DEF Named, Due
  <2>5. \A n : Final(i.actor, n)' <=> Final(a, n)'
    BY <2>1 DEF Final, About
  <2>6. QED
    BY <2>1, <2>2, <2>3, <2>4, <2>5 DEF Watched
<1>11. ASSUME startup = "pending", progress.phase = "destination-ready" PROVE Credited'
  <2>1. progress' = progress /\ Credited /\ progress.destination < nextGeneration
    BY <1>6, <1>11 DEF Open, NavSound, Pending, Origins
  <2>2. \A i \in Tops' : i.gen # progress.destination
    BY <1>1, <1>2, <2>1
  <2>3. QED
    BY <2>1, <2>2 DEF Credited
<1>12. QED
  BY <1>6, <1>8, <1>9, <1>10, <1>11 DEF Pending

LEMMA NoArrivalPending ==
  ASSUME Open, Deliver, ~closed', Shifted, Head(wire).actor \in TopActors,
         Head(wire).kind \in {"available", "destroyed"}, SessionTypes', Sound', NoArrival,
         UNCHANGED <<startup, progress, request, doc, command, resumes, origin, credited>>
  PROVE  Pending'
<1>1. Tops' \subseteq Tops /\ nextGeneration' = nextGeneration /\ \A b : Known(b)' => Known(b)
  BY DEF NoArrival, Tops, Known
<1>2. \A t \in TopActors : t \in retiredTargetActors \/ Known(t) => t \in retiredTargetActors' \/ Known(t)'
  BY HeardMoves
<1>3. ASSUME startup = "pending" PROVE Origins'
  <2>1. Origins
    BY <1>3 DEF Open, NavSound, Pending
  <2>2. origin # NoPage => Known(origin)' \/ origin \in retiredTargetActors'
    BY <1>2, <2>1 DEF Origins, Open, NavTypes
  <2>3. QED
    BY <1>1, <2>1, <2>2 DEF Origins, Known
<1>4. ASSUME startup = "pending" PROVE Held'
  <2>1. ASSUME NEW t \in TopActors, Known(t)', doc[t].asked, doc[t].state = "halted"
        PROVE  t \in resumes \/ About(t, {"paused"})' # {}
    <3>1. t \in resumes \/ About(t, {"paused"}) # {}
      BY <1>1, <1>4, <2>1 DEF Open, NavSound, Pending, Held
    <3>2. QED
      BY <3>1, HeldMoves
  <2>2. QED
    BY <2>1 DEF Held
<1>5. ASSUME startup = "pending", progress.phase = "waiting", NEW i \in Tops' PROVE Watched(i)'
  <2>1. i \in Tops /\ i.actor \in TopActors /\ Watched(i)
    BY <1>1, <1>5, TopsAreThreads DEF Open, NavSound, Pending
  <2>2. QED
    BY <2>1, WatchedMoves
<1>6. ASSUME startup = "pending", progress.phase = "destination-ready" PROVE Credited'
  BY <1>1, <1>6 DEF Open, NavSound, Pending, Credited, Ready
<1>7. QED
  BY <1>3, <1>4, <1>5, <1>6 DEF Pending

LEMMA HearTargetKeeps ==
  ASSUME Open, HearTarget
  PROVE  LoadInv'
<1>1. Deliver /\ UNCHANGED <<startup, request, doc, command, resumes, origin, credited>>
  BY DEF HearTarget
<1>2. UNCHANGED <<phase, page>> /\ wire # <<>> /\ wire' = Tail(wire) /\ OnEvent(Head(wire))
  BY <1>1 DEF Deliver
<1>3. wire' \in Seq(NavPackets) /\ Shifted /\ Head(wire) \in NavPackets
  BY <1>2, Shifts DEF Open
<1>4. Head(wire).actor \in TopActors /\ Head(wire).kind \in {"available", "destroyed"}
  BY <1>2, <1>3 DEF OnEvent, NavPackets
<1>5. SessionTypes' /\ (closed' \/ Sound') /\ IF closed' THEN threads' = threads ELSE Arrives \/ NoArrival
  BY <1>1, <1>4, Turns DEF Open
<1>6. threads' \subseteq threads => progress' = progress
  <2>1. ASSUME threads' \subseteq threads PROVE ~\E i \in threads' : i.top /\ ~Known(i.actor)
    BY <2>1 DEF Known
  <2>2. QED
    BY <2>1 DEF HearTarget
<1>7. ~closed' /\ Arrives => Observe(Head(wire).url, nextGeneration)
  <2>1. ASSUME ~closed', Arrives PROVE Observe(Head(wire).url, nextGeneration)
    <3>1. PICK i \in threads' : i.top /\ ~Known(i.actor)
      BY <2>1 DEF Arrives, Tops
    <3>2. PICK j \in threads' : j.top /\ ~Known(j.actor) /\ Observe(Head(wire).url, j.gen)
      BY <3>1 DEF HearTarget
    <3>3. j.gen = nextGeneration
      BY <2>1, <3>2 DEF Arrives, Tops
    <3>4. QED
      BY <3>2, <3>3
  <2>2. QED
    BY <2>1
<1>8. NavTypes'
  <2>1. progress' \in Progresses
    <3>1. CASE threads' \subseteq threads
      BY <1>6, <3>1 DEF Open, NavTypes
    <3>2. CASE ~(threads' \subseteq threads)
      <4>1. ~closed' /\ Arrives
        BY <1>5, <3>2 DEF NoArrival
      <4>2. Head(wire).url \in Urls
        BY <1>3, <4>1 DEF Arrives, NavPackets
      <4>3. nextGeneration \in Nat /\ Observe(Head(wire).url, nextGeneration)
        BY <1>7, <4>1 DEF Open, SessionTypes
      <4>4. QED
        BY <4>2, <4>3 DEF Observe, Open, NavTypes, Progresses
    <3>3. QED
      BY <3>1, <3>2
  <2>2. QED
    BY <1>1, <1>2, <1>3, <2>1 DEF Open, NavTypes
<1>9. Unasked'
  BY <1>1 DEF Open, Unasked
<1>10. CASE closed'
  BY <1>5, <1>8, <1>9, <1>10 DEF LoadInv
<1>11. CASE ~closed'
  <2>1. \A t \in TopActors : PageSound(t)'
    BY <1>1, <1>2, <1>3, DeliveryKeeps DEF Open, NavSound
  <2>2. Heard'
    BY <1>1, <1>3, <1>4, <1>11, HeardMoves
  <2>3. Pending'
    <3>1. CASE Arrives
      BY <1>1, <1>3, <1>4, <1>5, <1>7, <1>11, <3>1, ArrivesPending
    <3>2. CASE NoArrival
      <4>1. progress' = progress
        BY <1>6, <3>2 DEF NoArrival
      <4>2. QED
        BY <1>1, <1>3, <1>4, <1>5, <1>11, <3>2, <4>1, NoArrivalPending
    <3>3. QED
      BY <1>5, <1>11, <3>1, <3>2
  <2>4. QED
    BY <1>5, <1>8, <1>9, <1>11, <2>1, <2>2, <2>3 DEF LoadInv, NavSound
<1>12. QED
  BY <1>10, <1>11

\* A packet that leaves the targets alone.
LEMMA HearIs ==
  ASSUME Open, NEW kind \in {"start", "stop", "document", "paused", "reply", "error"}, Hear(kind)
  PROVE  /\ SessionTypes' /\ Sound' /\ ~closed' /\ Tops' = Tops /\ (\A a : Known(a)' <=> Known(a))
         /\ retiredTargetActors' = retiredTargetActors /\ nextGeneration' = nextGeneration
         /\ wire' \in Seq(NavPackets) /\ Shifted /\ Head(wire) \in NavPackets /\ Head(wire).kind = kind
         /\ (\A t \in TopActors : PageSound(t)') /\ Heard'
         /\ UNCHANGED <<startup, doc, command, origin, phase, page>>
<1>1. /\ wire # <<>> /\ wire' = Tail(wire) /\ Head(wire).kind = kind /\ UNCHANGED sessionVars
      /\ UNCHANGED <<startup, doc, command, origin, phase, page>>
  BY DEF Hear
<1>2. /\ SessionTypes' /\ Sound' /\ ~closed' /\ Tops' = Tops /\ (\A a : Known(a)' <=> Known(a))
      /\ retiredTargetActors' = retiredTargetActors /\ nextGeneration' = nextGeneration
  BY <1>1, SessionSame DEF Open
<1>3. wire' \in Seq(NavPackets) /\ Shifted /\ Head(wire) \in NavPackets
  BY <1>1, Shifts DEF Open
<1>4. \A t \in TopActors : PageSound(t)'
  BY <1>1, <1>3, DeliveryKeeps DEF Open, NavSound
<1>5. Heard'
  <2>1. ASSUME page # NoPage, phase[page] = "live"
        PROVE  IF Known(page)' THEN \A n \in DOMAIN wire' : wire'[n].kind # "available"
               ELSE /\ page \notin retiredTargetActors'
                    /\ \E n \in About(page, {"available"})' :
                         \A m \in DOMAIN wire' : wire'[m].kind = "available" => m <= n
    <3>1. CASE Known(page)
      BY <1>1, <1>2, <1>3, <2>1, <3>1 DEF Open, NavSound, Heard, Shifted, Known
    <3>2. CASE ~Known(page)
      <4>1. PICK n \in About(page, {"available"}) :
              \A m \in DOMAIN wire : wire[m].kind = "available" => m <= n
        BY <2>1, <3>2 DEF Open, NavSound, Heard
      <4>2. MovedAbout(page, {"available"})
        BY <1>3, AboutShifts
      <4>3. n \in Nat /\ n - 1 \in About(page, {"available"})'
        BY <1>1, <4>1, <4>2 DEF MovedAbout
      <4>4. \A m \in DOMAIN wire' : wire'[m].kind = "available" => m <= n - 1
        BY <1>3, <4>1, <4>3 DEF Shifted
      <4>5. page \notin retiredTargetActors' /\ ~Known(page)'
        BY <1>1, <1>2, <2>1, <3>2 DEF Open, NavSound, Heard, Known
      <4>6. QED
        BY <4>3, <4>4, <4>5
    <3>3. QED
      BY <3>1, <3>2
  <2>2. QED
    BY <1>1, <1>2, <2>1 DEF Open, NavSound, Heard, Known, About
<1>6. QED
  BY <1>1, <1>2, <1>3, <1>4, <1>5

LEMMA HearKeeps ==
  ASSUME Open, NEW kind \in {"start", "stop", "document", "paused", "reply", "error"}, Hear(kind),
         progress' \in Progresses,
         Unasked', Pending'
  PROVE  LoadInv'
<1>1. NavTypes'
  BY HearIs DEF Open, NavTypes
<1>2. NavSound'
  BY HearIs DEF NavSound
<1>3. QED
  BY <1>1, <1>2, HearIs DEF LoadInv

\* The session's view of who was there is not touched by these packets.
LEMMA OriginsStay ==
  ASSUME Open, NEW kind \in {"start", "stop", "document", "paused", "reply", "error"}, Hear(kind),
         startup = "pending", progress'.phase \in {"waiting", "destination-ready"},
         progress'.starting = progress.starting, progress'.destination < nextGeneration
  PROVE  Origins'
<1>1. Origins
  BY DEF Open, NavSound, Pending
<1>2. /\ Tops' = Tops /\ (\A a : Known(a)' <=> Known(a)) /\ retiredTargetActors' = retiredTargetActors
      /\ nextGeneration' = nextGeneration /\ origin' = origin
  BY HearIs
<1>3. Known(origin)' <=> Known(origin)
  BY <1>2 DEF Known
<1>4. QED
  BY <1>1, <1>2, <1>3 DEF Origins, Known

LEMMA HeldStays ==
  ASSUME Open, NEW kind \in {"start", "stop", "document", "paused", "reply", "error"}, Hear(kind),
         startup = "pending", resumes \subseteq resumes',
         kind = "paused" => Head(wire).actor \in resumes' \/ ~Known(Head(wire).actor)
  PROVE  Held'
<1>1. Shifted /\ Head(wire).kind = kind /\ (\A a : Known(a)' <=> Known(a)) /\ doc' = doc
  BY HearIs
<1>2. ASSUME NEW t \in TopActors, Known(t)', doc[t].asked, doc[t].state = "halted"
      PROVE  t \in resumes' \/ About(t, {"paused"})' # {}
  <2>1. Known(t) /\ (t \in resumes \/ About(t, {"paused"}) # {})
    BY <1>1, <1>2 DEF Open, NavSound, Pending, Held
  <2>2. CASE kind = "paused" /\ Head(wire).actor = t
    BY <2>1, <2>2
  <2>3. CASE kind # "paused" \/ Head(wire).actor # t
    BY <1>1, <2>1, <2>3, HeldMoves
  <2>4. QED
    BY <2>2, <2>3
<1>3. QED
  BY <1>1, <1>2 DEF Held

LEMMA HearStartKeeps ==
  ASSUME Open, InTurn, HearStart
  PROVE  LoadInv'
<1>1. Hear("start") /\ UNCHANGED <<request, resumes, credited>>
  BY DEF HearStart
<1>2. /\ Tops' = Tops /\ (\A a : Known(a)' <=> Known(a)) /\ nextGeneration' = nextGeneration
      /\ Shifted /\ Head(wire) \in NavPackets /\ Head(wire).kind = "start"
      /\ UNCHANGED <<startup, doc, command, origin>>
  BY <1>1, HearIs
<1>3. PICK a \in TopActors : a = Head(wire).actor
  BY <1>2 DEF NavPackets
<1>4. /\ 1 \in About(a, {"start"}) /\ wire[1] = Head(wire) /\ 1 \in DOMAIN wire
      /\ PageSound(a) /\ Told(a, Head(wire))
  BY <1>2, <1>3 DEF Shifted, About, Open, NavSound, PageSound, Telling
<1>5. Head(wire).url = Wanted /\ doc[a].asked /\ (Named(a) => doc[a].url = Wanted)
  BY <1>2, <1>4 DEF Told
<1>6. Counts(Head(wire)) /\ IsTop(a)
  <2>1. Staged(a, 1)
    BY <1>4 DEF InTurn, Open
  <2>2. \A k \in About(a, {"available"}) : k \in Nat /\ k >= 1
    BY <1>2 DEF Shifted, About
  <2>3. Known(a)
    BY <2>1, <2>2 DEF Staged
  <2>4. QED
    BY <1>3, <2>3, TopsAreThreads DEF Open, Counts
<1>6a. progress' = IF Waiting
                 THEN [progress EXCEPT !.same = TopGeneration = progress.starting, !.last = Wanted]
                 ELSE progress
  BY <1>3, <1>5, <1>6 DEF HearStart
<1>7. progress \in Progresses
  BY DEF Open, NavTypes
<1>8. /\ progress' \in Progresses
      /\ progress'.phase = progress.phase /\ progress'.starting = progress.starting
      /\ progress'.destination = progress.destination
      /\ ~Waiting => progress' = progress
  BY <1>6a, <1>7 DEF Urls, Progresses
<1>9. Unasked'
  BY <1>1, <1>2 DEF Open, Unasked
<1>10. ASSUME startup = "pending" PROVE Origins' /\ Held'
  <2>1. Origins
    BY <1>10 DEF Open, NavSound, Pending
  <2>2. QED
    BY <1>1, <1>8, <1>10, <2>1, OriginsStay, HeldStays DEF Origins
<1>11. ASSUME Waiting, NEW i \in Tops PROVE Watched(i)'
  <2>1. Origins /\ Watched(i) /\ i.actor \in TopActors
    BY <1>11, TopsAreThreads DEF Waiting, Open, NavSound, Pending
  <2>2. TopGeneration = i.gen /\ (IsTop(a) <=> a = i.actor)
    BY <1>11, TopsAreThreads DEF Open
  <2>4. a = i.actor
    BY <1>6, <2>2
  <2>5. QED
    <3>1. progress'.same = (i.gen = progress.starting) /\ progress'.last = Wanted
      BY <1>6a, <1>7, <1>11, <2>2, <2>4
    <3>2. progress'.same <=> a = origin
      BY <1>11, <2>1, <2>4, <3>1 DEF Origins
    <3>3. \A n \in About(a, {"stop", "document"})' : wire'[n].asked
      <4>1. MovedAbout(a, {"stop", "document"})
        BY <1>2, AboutShifts
      <4>2. ASSUME NEW n \in About(a, {"stop", "document"})' PROVE wire'[n].asked
        <5>1. n \in Nat /\ n >= 1 /\ n + 1 \in About(a, {"stop", "document"}) /\ wire'[n] = wire[n + 1]
          BY <4>1 DEF MovedAbout
        <5>2. wire[n + 1].asked
          BY <1>4, <5>1 DEF PageSound, Ordered
        <5>3. QED
          BY <5>1, <5>2
      <4>3. QED
        BY <4>2
    <3>4. ASSUME NEW n \in DOMAIN wire, Final(a, n) PROVE n - 1 \in DOMAIN wire' /\ Final(a, n - 1)'
      BY <1>2, <3>4, FinalShifts
    <3>5. Named(a)' = Named(a) /\ Due(a)' = Due(a)
      BY <1>2 DEF Named, Due
    <3>6. Due(a) /\ progress.destination \in {0, i.gen} => \E n \in DOMAIN wire' : Final(a, n)'
      BY <2>1, <2>4, <3>4 DEF Watched
    <3>7. Watched(i)' <=> LET t == a IN
            /\ t = origin' /\ progress'.same
                 => doc'[t].asked /\ \A n \in About(t, {"stop", "document"})' : wire'[n].asked
            /\ t = origin' /\ doc'[t].asked => progress'.same \/ About(t, {"start"})' # {}
            /\ Named(t)' => doc'[t].url \in {Wanted, progress'.last}
            /\ Due(t)' /\ progress'.destination \in {0, i.gen} => \E n \in DOMAIN wire' : Final(t, n)'
      BY <2>4 DEF Watched, About, Named, Due, Final
    <3>8. QED
      BY <1>2, <1>5, <1>8, <3>1, <3>2, <3>3, <3>5, <3>6, <3>7
<1>12. ASSUME startup = "pending", progress.phase = "destination-ready" PROVE Credited'
  BY <1>1, <1>2, <1>6a, <1>12 DEF Open, NavSound, Pending, Credited, Ready, Waiting
<1>13. Pending'
  BY <1>2, <1>8, <1>10, <1>11, <1>12 DEF Pending, Waiting
<1>14. QED
  BY <1>1, <1>8, <1>9, <1>13, HearKeeps

\* A packet that says nothing of the document of a page.
LEMMA OthersPending ==
  ASSUME Open, NEW kind \in {"paused", "reply", "error"}, Hear(kind), UNCHANGED <<progress, credited>>,
         startup = "pending" => /\ resumes \subseteq resumes'
                                /\ kind = "paused" =>
                                     Head(wire).actor \in resumes' \/ ~Known(Head(wire).actor)
  PROVE  Pending'
<1>1. /\ Tops' = Tops /\ Shifted /\ Head(wire).kind = kind /\ UNCHANGED <<startup, doc, origin>>
  BY HearIs
<1>2. ASSUME startup = "pending" PROVE Origins' /\ Held'
  <2>1. Origins
    BY <1>2 DEF Open, NavSound, Pending
  <2>2. QED
    BY <1>2, <2>1, OriginsStay, HeldStays DEF Origins
<1>3. ASSUME Waiting, NEW i \in Tops PROVE Watched(i)'
  <2>1. Watched(i) /\ i.actor \in TopActors
    BY <1>3, TopsAreThreads DEF Waiting, Open, NavSound, Pending
  <2>2. QED
    BY <1>1, <2>1, WatchedMoves
<1>4. ASSUME startup = "pending", progress.phase = "destination-ready" PROVE Credited'
  BY <1>1, <1>4 DEF Open, NavSound, Pending, Credited, Ready
<1>5. QED
  BY <1>1, <1>2, <1>3, <1>4 DEF Pending, Waiting

LEMMA HearReadyKeeps ==
  ASSUME Open, HearReady
  PROVE  LoadInv'
<1>1. PICK kind \in {"stop", "document"} : Hear(kind)
  BY DEF HearReady
<1>2. /\ Tops' = Tops /\ (\A a : Known(a)' <=> Known(a)) /\ nextGeneration' = nextGeneration
      /\ Shifted /\ Head(wire) \in NavPackets /\ Head(wire).kind = kind
      /\ UNCHANGED <<startup, doc, command, origin>>
  BY <1>1, HearIs
<1>3. PICK a \in TopActors : a = Head(wire).actor
  BY <1>2 DEF NavPackets
<1>4. PICK url \in Urls : url = Head(wire).url
  BY <1>2 DEF NavPackets
<1>5. PICK asked \in BOOLEAN : asked = Head(wire).asked
  BY <1>2 DEF NavPackets
<1>5a. PICK tab \in BOOLEAN : tab = Head(wire).tab
  BY <1>2 DEF NavPackets
<1>6. UNCHANGED <<request, resumes>>
  BY DEF HearReady
<1> DEFINE heard == Tops # {} /\ (tab \/ IsTop(a))
<1>7. IF heard /\ Waiting /\ IsDestination(url, TopGeneration)
      THEN /\ progress' = [progress EXCEPT !.phase = "destination-ready", !.destination = TopGeneration,
                                           !.last = url]
           /\ credited' = [actor |-> a, asked |-> asked, tab |-> tab]
      ELSE UNCHANGED <<progress, credited>>
  BY <1>3, <1>4, <1>5, <1>5a DEF HearReady, Counts, Complete
<1>8. progress \in Progresses
  BY DEF Open, NavTypes
<1>9. Unasked'
  BY <1>2, <1>6 DEF Open, Unasked
<1>10. CASE heard /\ Waiting /\ IsDestination(url, TopGeneration)
  <2>1. PICK i \in Tops : i.actor = a \/ tab
    BY <1>10 DEF IsTop
  <2>2. /\ TopGeneration = i.gen /\ i.gen \in Nat /\ i.gen # 0 /\ i.gen < nextGeneration
        /\ \A j \in Tops : j = i
    BY <2>1, TopsAreThreads DEF Open
  <2>3. Origins /\ Watched(i) /\ startup = "pending"
    BY <1>10 DEF Waiting, Open, NavSound, Pending
  <2>4. /\ progress' \in Progresses
        /\ progress'.phase = "destination-ready" /\ progress'.starting = progress.starting
        /\ progress'.destination = i.gen
        /\ credited'.actor = a /\ credited'.asked = asked /\ credited'.tab = tab
    <3>1. /\ progress' = [progress EXCEPT !.phase = "destination-ready", !.destination = i.gen, !.last = url]
          /\ credited' = [actor |-> a, asked |-> asked, tab |-> tab]
      BY <1>7, <1>10, <2>2
    <3>2. i.gen \in Nat /\ url \in Urls
      BY <2>2
    <3>3. QED
      BY <1>8, <3>1, <3>2 DEF Progresses
  <2>5. ASSUME i.actor = origin PROVE doc[i.actor].asked /\ (a = origin => asked)
    <3>1. i.gen = progress.starting
      BY <2>1, <2>3, <2>5 DEF Origins
    <3>2. progress.same
      BY <1>10, <2>2, <3>1 DEF IsDestination
    <3>3. a = origin => 1 \in About(i.actor, {"stop", "document"}) /\ wire[1] = Head(wire)
      BY <1>2, <1>3, <2>5 DEF Shifted, About
    <3>4. QED
      BY <1>5, <2>1, <2>3, <2>5, <3>2, <3>3 DEF Watched
  <2>6. Credited'
    BY <1>2, <2>1, <2>2, <2>4, <2>5 DEF Credited, Ready
  <2>7. Origins' /\ Held'
    BY <1>1, <1>6, <2>2, <2>3, <2>4, OriginsStay, HeldStays
  <2>8. Pending'
    BY <2>4, <2>6, <2>7 DEF Pending
  <2>9. QED
    BY <1>1, <1>9, <2>4, <2>8, HearKeeps
<1>11. CASE ~(heard /\ Waiting /\ IsDestination(url, TopGeneration))
  <2>1. UNCHANGED <<progress, credited>>
    BY <1>7, <1>11
  <2>2. ASSUME startup = "pending" PROVE Origins' /\ Held'
    <3>1. Origins
      BY <2>2 DEF Open, NavSound, Pending
    <3>2. QED
      BY <1>1, <1>6, <2>1, <2>2, <3>1, OriginsStay, HeldStays DEF Origins
  <2>3. ASSUME Waiting, NEW i \in Tops PROVE Watched(i)'
    <3>1. /\ Origins /\ Watched(i) /\ i.actor \in TopActors
          /\ TopGeneration = i.gen /\ (IsTop(a) <=> a = i.actor)
      BY <2>3, TopsAreThreads DEF Waiting, Open, NavSound, Pending
    <3>2. ASSUME Final(i.actor, 1), Due(i.actor), progress.destination \in {0, i.gen} PROVE FALSE
      <4>1. 1 \in About(i.actor, {"stop"}) /\ wire[1] = Head(wire)
        BY <1>2, <3>2 DEF Final, Shifted
      <4>2. a = i.actor /\ url = doc[a].url
        BY <1>3, <1>4, <3>2, <4>1 DEF About, Final
      <4>3. Named(a) /\ url # Blank /\ url \in {Wanted, progress.last} /\ doc[a].asked
        BY <3>1, <3>2, <4>2 DEF Watched, Due, Named
      <4>4. i.gen = progress.starting => progress.same
        <5>1. ASSUME i.gen = progress.starting PROVE progress.same
          <6>1. a = origin
            BY <2>3, <3>1, <4>2, <5>1 DEF Origins
          <6>2. About(a, {"start"}) = {}
            <7>1. \A m \in About(a, {"available", "start"}) : m < 1 /\ m \in Nat /\ m >= 1
              BY <1>2, <3>2, <4>2 DEF Final, About, Shifted
            <7>2. \A m \in About(a, {"start"}) : m \in About(a, {"available", "start"})
              BY DEF About
            <7>3. QED
              BY <7>1, <7>2
          <6>3. QED
            BY <3>1, <4>2, <4>3, <6>1, <6>2 DEF Watched
        <5>2. QED
          BY <5>1
      <4>5. IsDestination(url, TopGeneration)
        BY <3>1, <3>2, <4>3, <4>4 DEF IsDestination
      <4>6. QED
        BY <1>11, <2>3, <3>1, <4>2, <4>5
    <3>3. QED
      BY <1>2, <2>1, <3>1, <3>2, WatchedMovesOn
  <2>4. ASSUME startup = "pending", progress.phase = "destination-ready" PROVE Credited'
    BY <1>2, <2>1, <2>4 DEF Open, NavSound, Pending, Credited, Ready
  <2>5. Pending'
    BY <1>2, <2>1, <2>2, <2>3, <2>4 DEF Pending, Waiting
  <2>6. QED
    BY <1>1, <1>8, <1>9, <2>1, <2>5, HearKeeps
<1>12. QED
  BY <1>10, <1>11

LEMMA HearPausedKeeps ==
  ASSUME Open, HearPaused
  PROVE  LoadInv'
<1>1. Hear("paused") /\ UNCHANGED <<request, progress, credited>>
      /\ resumes' = resumes \cup ResumeLoad(Head(wire).actor)
  BY DEF HearPaused
<1>2. /\ Tops' = Tops /\ Shifted /\ Head(wire).kind = "paused"
      /\ UNCHANGED <<startup, doc, command, origin>>
  BY <1>1, HearIs
<1>3. Unasked'
  BY <1>1, <1>2 DEF Open, Unasked
<1>4. Pending'
  BY <1>1, <1>2, OthersPending DEF ResumeLoad
<1>5. QED
  BY <1>1, <1>3, <1>4, HearKeeps DEF Open, NavTypes

LEMMA HearReplyKeeps ==
  ASSUME Open, HearReply
  PROVE  LoadInv'
<1>1. PICK kind \in {"reply", "error"} : Hear(kind)
  BY DEF HearReply
<1>2. UNCHANGED <<progress, resumes, credited>> /\ (startup # "pending" => request' = request)
  BY DEF HearReply
<1>3. UNCHANGED <<startup, command>>
  BY <1>1, HearIs
<1>4. Unasked'
  BY <1>2, <1>3 DEF Open, Unasked
<1>5. Pending'
  BY <1>1, <1>2, OthersPending
<1>6. QED
  BY <1>1, <1>2, <1>4, <1>5, HearKeeps DEF Open, NavTypes

-----------------------------------------------------------------------------
(* The launch *)

\* Neither Firefox nor the threads of the session have a part in the step.
LEMMA CallerKeeps ==
  ASSUME Open, SessionTypes', Sound', ~closed',
         UNCHANGED <<threads, retiredTargetActors, wire, phase, page, doc>>, Accepted => Accepted',
         progress' \in Progresses, origin' \in TopActors \cup {NoPage}, Unasked', Pending'
  PROVE  LoadInv'
<1>1. NavTypes'
  BY DEF Open, NavTypes
<1>2. ASSUME NEW t \in TopActors PROVE PageSound(t)'
  BY SilentKeeps DEF Open, NavSound
<1>3. Heard'
  BY DEF Open, NavSound, Heard, Known, About
<1>4. QED
  BY <1>1, <1>2, <1>3 DEF LoadInv, NavSound

LEMMA NavDetachGraceKeeps ==
  ASSUME Open, NavDetachGrace
  PROVE  LoadInv'
<1>1. PICK info \in detachChecks : DetachGrace(info)
  BY DEF NavDetachGrace
<1>2. /\ UNCHANGED <<threads, retiredTargetActors, nextGeneration, closed, wire, phase, page>>
      /\ UNCHANGED <<startup, progress, request, doc, command, resumes, origin, credited>>
  BY <1>1 DEF NavDetachGrace, DetachGrace, firefoxVars, navigationVars, callerVars
<1>3. SessionTypes' /\ Sound'
  BY <1>1, <1>2, GraceStep DEF Open, SessionOK
<1>4. Unasked'
  BY <1>2 DEF Open, Unasked
<1>5. Pending'
  BY <1>2 DEF Open, NavSound, Pending, Origins, Held, Watched, Credited, Ready, Tops, Known, About,
     Named, Due, Final
<1>6. QED
  BY <1>2, <1>3, <1>4, <1>5, CallerKeeps DEF Open, NavTypes, Accepted

\* A step of the launch that does not wait for a destination afterwards.
LEMMA NotPending ==
  ASSUME Open, UNCHANGED <<vars, request, doc, command, origin>>, progress' \in Progresses,
         startup' = "done" \/ (startup = "target" /\ startup' = "survey")
  PROVE  LoadInv'
<1>1. UNCHANGED sessionVars /\ UNCHANGED <<wire, phase, page>>
  BY DEF vars, firefoxVars
<1>2. SessionTypes' /\ Sound' /\ ~closed' /\ threads' = threads /\ retiredTargetActors' = retiredTargetActors
  BY <1>1, SessionSame DEF Open
<1>3. Unasked' /\ Pending'
  BY DEF Open, Unasked, Pending
<1>4. QED
  BY <1>1, <1>2, <1>3, CallerKeeps DEF Open, NavTypes, Accepted

LEMMA NavigateKeeps ==
  ASSUME Open, Navigate
  PROVE  LoadInv'
<1>1. /\ UNCHANGED sessionVars /\ UNCHANGED <<wire, phase, page, doc, resumes>>
      /\ startup = "survey" /\ startup' = "pending"
      /\ origin' = IF Tops = {} THEN NoPage ELSE (CHOOSE i \in Tops : TRUE).actor
  BY DEF Navigate, vars, firefoxVars
<1>2. /\ SessionTypes' /\ Sound' /\ ~closed' /\ Tops' = Tops /\ (\A a : Known(a)' <=> Known(a))
      /\ threads' = threads /\ retiredTargetActors' = retiredTargetActors /\ nextGeneration' = nextGeneration
  BY <1>1, SessionSame DEF Open
<1>3. ~Accepted /\ \A t \in TopActors : ~doc[t].asked
  BY <1>1 DEF Open, Unasked, Accepted, NavSound, PageSound, Shown
<1>4. /\ TopGeneration \in Nat /\ TopGeneration < nextGeneration
      /\ origin' \in TopActors \cup {NoPage} /\ (origin' # NoPage => Known(origin'))
      /\ \A i \in Tops : i.gen = TopGeneration /\ i.actor = origin'
  <2>1. CASE Tops = {}
    BY <1>1, <2>1 DEF TopGeneration, Open, SessionTypes
  <2>2. CASE Tops # {}
    BY <1>1, <2>2, TopsAreThreads DEF Open
  <2>3. QED
    BY <2>1, <2>2
<1>5. /\ progress' \in Progresses /\ progress'.phase = "waiting" /\ progress'.starting = TopGeneration
      /\ progress'.destination = 0 /\ progress'.same = FALSE
  BY <1>4 DEF Navigate, NoProgress, Progresses, Urls
<1>6. Origins'
  <2>1. Known(origin)' <=> Known(origin')
    BY <1>2 DEF Known
  <2>2. nextGeneration > 0
    BY DEF Open, SessionTypes
  <2>3. QED
    BY <1>2, <1>4, <1>5, <2>1, <2>2 DEF Origins, Known
<1>7. Held'
  BY <1>1, <1>3 DEF Held
<1>8. \A i \in Tops : Watched(i)'
  <2>1. ASSUME NEW i \in Tops PROVE Watched(i)'
    <3>1. i.actor \in TopActors /\ ~doc'[i.actor].asked
      BY <1>1, <1>3, TopsAreThreads DEF Open
    <3>2. ~Named(i.actor)' /\ ~Due(i.actor)'
      BY <3>1 DEF Named, Due
    <3>3. QED
      BY <1>5, <3>1, <3>2 DEF Watched
  <2>2. QED
    BY <2>1
<1>9. Unasked' /\ Pending'
  BY <1>1, <1>2, <1>5, <1>6, <1>7, <1>8 DEF Unasked, Pending
<1>10. QED
  BY <1>1, <1>2, <1>3, <1>4, <1>5, <1>9, CallerKeeps

\* The session is closed, or closes now: what is left is typed.
LEMMA FailsKeeps ==
  ASSUME LoadInv, NEW how \in {"failed", "lost"}, Fails(how), progress' \in Progresses
  PROVE  LoadInv'
<1>1. startup' = how /\ UNCHANGED <<request, doc, command, origin>>
  BY DEF Fails
<1>2. SessionTypes' /\ closed' /\ UNCHANGED <<wire, phase, page>>
  <2>1. CASE closed
    BY <2>1 DEF Fails, vars, sessionVars, firefoxVars, LoadInv, SessionTypes
  <2>2. CASE ~closed
    <3>1. CloseSession /\ dropped' = dropped /\ UNCHANGED firefoxVars
      BY <2>2 DEF Fails, SessionClose
    <3>2. SessionOK
      BY <3>1, CloseStep DEF LoadInv, SessionTypes
    <3>3. QED
      BY <3>1, <3>2 DEF SessionOK, CloseSession, firefoxVars
  <2>3. QED
    BY <2>1, <2>2
<1>3. NavTypes' /\ Unasked'
  BY <1>1, <1>2 DEF LoadInv, NavTypes, Unasked
<1>4. QED
  BY <1>2, <1>3 DEF LoadInv

LEMMA NavCloseKeeps ==
  ASSUME Open, NavClose
  PROVE  LoadInv'
<1>1. CloseSession /\ UNCHANGED firefoxVars /\ dropped' = dropped /\ UNCHANGED navigationVars
  BY DEF NavClose, SessionClose
<1>2. SessionTypes' /\ closed'
  BY <1>1, CloseStep DEF Open, SessionOK, CloseSession, SessionTypes
<1>3. NavTypes' /\ Unasked'
  BY <1>1 DEF Open, NavTypes, Unasked, firefoxVars, navigationVars, callerVars
<1>4. QED
  BY <1>2, <1>3 DEF LoadInv

LEMMA GivesUp ==
  ASSUME LoadInv, GiveUp
  PROVE  progress' \in Progresses
  BY DEF GiveUp, LoadInv, NavTypes, Progresses

LEMMA SettleKeeps ==
  ASSUME LoadInv, Settle
  PROVE  LoadInv'
<1>1. CASE ~closed /\ request = "replied" /\ DestinationCurrent
  <2>1. /\ startup' = "done" /\ progress' = [progress EXCEPT !.phase = "complete"]
        /\ UNCHANGED <<vars, request, doc, command, resumes, origin, credited>>
    BY <1>1 DEF Settle
  <2>2. Open
    BY <1>1 DEF LoadInv, Open
  <2>3. progress' \in Progresses
    BY <2>1, <2>2 DEF Open, NavTypes, Progresses
  <2>4. QED
    BY <2>1, <2>2, <2>3, NotPending
<1>2. CASE ~(~closed /\ request = "replied" /\ DestinationCurrent)
  BY <1>2, GivesUp, FailsKeeps DEF Settle
<1>3. QED
  BY <1>1, <1>2

LEMMA TimersKeep ==
  ASSUME LoadInv, Timers
  PROVE  LoadInv'
<1>1. CASE NavDetachGrace
  BY <1>1, NavDetachGraceKeeps DEF NavDetachGrace, DetachGrace, LoadInv, Open
<1>2. CASE NavigationDeadline
  BY <1>2, GivesUp, FailsKeeps DEF NavigationDeadline
<1>3. CASE RequestDeadline
  BY <1>3, GivesUp, FailsKeeps DEF RequestDeadline
<1>4. CASE StartFails
  BY <1>4, FailsKeeps DEF StartFails, LoadInv, NavTypes
<1>5. QED
  BY <1>1, <1>2, <1>3, <1>4 DEF Timers

-----------------------------------------------------------------------------
(* The invariant holds of every state *)

LEMMA NavInitially ==
  ASSUME NavInit
  PROVE  LoadInv
<1>1. SessionTypes
  <2>1. IsFiniteSet({}) /\ Cardinality({}) = 0
    BY FS_EmptySet
  <2>2. Cardinality({}) <= MaxThreads /\ Cardinality({}) <= MaxTombstones
    BY <2>1, TargetsAssumption
  <2>3. /\ IsFiniteSet(threads) /\ Cardinality(threads) <= MaxThreads
        /\ IsFiniteSet(retiredTargetActors) /\ Cardinality(retiredTargetActors) <= MaxTombstones
    BY <2>1, <2>2, Zenon DEF NavInit
  <2>4. /\ threads \subseteq ThreadInfo /\ retiredTargetActors \subseteq Actors
        /\ detachChecks \subseteq ThreadInfo
        /\ sources \subseteq [actor : Actors, gen : Nat, since : Nat]
        /\ detached \subseteq Nat /\ dropped \subseteq Actors
    BY DEF NavInit
  <2>5. /\ nextTid = 1 /\ nextGeneration = 1 /\ activeGeneration = 0 /\ pendingTopLevelTid = 0
        /\ generationAborted \in BOOLEAN /\ closed \in BOOLEAN
    BY DEF NavInit
  <2>6. QED
    BY <2>3, <2>4, <2>5 DEF SessionTypes
<1>2. Tops = {} /\ ActorsOf(threads) = {} /\ \A a : ~Known(a)
  BY DEF NavInit, Tops, ActorsOf, Known
<1>3. Sound
  BY <1>2 DEF NavInit, Sound, Threads, Generations, Graves, Current, Reports
<1>4. \A t \in TopActors : doc[t] \in Documents /\ ~doc[t].asked /\ ~doc[t].moved /\ doc[t].state = "loading"
  <2>1. doc \in [TopActors -> {Document(u, FALSE) : u \in Urls}]
    BY DEF NavInit
  <2>2. ASSUME NEW t \in TopActors PROVE \E u \in Urls : doc[t] = Document(u, FALSE)
    BY <2>1
  <2>3. \A u \in Urls : /\ Document(u, FALSE) \in Documents /\ ~Document(u, FALSE).asked
                        /\ ~Document(u, FALSE).moved /\ Document(u, FALSE).state = "loading"
    BY DEF Document, Documents
  <2>4. QED
    BY <2>2, <2>3
<1>5. /\ wire = <<>> /\ wire \in Seq(NavPackets) /\ DOMAIN wire = {}
  BY DEF NavInit
<1>6. /\ FirstPage \in TopActors /\ page = FirstPage
      /\ phase = [a \in Actors |-> IF a = FirstPage THEN "loading" ELSE "unborn"]
  BY NavigationAssumption DEF NavInit
<1>7. /\ phase \in [Actors -> {"unborn", "loading", "live", "dying", "gone"}]
      /\ \A t \in TopActors : phase[t] = IF t = FirstPage THEN "loading" ELSE "unborn"
  BY <1>6 DEF Actors
<1>8. progress = NoProgress /\ progress \in Progresses
  BY DEF NavInit, NoProgress, Progresses, Urls
<1>9. NavTypes
  <2>1. doc \in [TopActors -> Documents]
    BY <1>4 DEF NavInit
  <2>2. QED
    BY <1>5, <1>6, <1>7, <1>8, <2>1 DEF NavTypes, NavInit
<1>10. \A t \in TopActors : PageSound(t)
  <2>1. \A t, K : About(t, K) = {}
    BY <1>5 DEF About
  <2>2. QED
    BY <1>4, <1>5, <1>6, <1>7, <2>1 DEF PageSound, Shown, Telling, Ordered
<1>11. Heard
  BY <1>2, <1>6, <1>7 DEF Heard, NavInit
<1>12. Unasked /\ Pending
  BY DEF NavInit, Unasked, Pending
<1>13. QED
  BY <1>1, <1>3, <1>9, <1>10, <1>11, <1>12 DEF LoadInv, NavSound

LEMMA NavStutter ==
  ASSUME LoadInv, UNCHANGED navVars
  PROVE  LoadInv'
<1>1. /\ UNCHANGED sessionVars /\ UNCHANGED <<wire, phase, page>>
      /\ UNCHANGED <<startup, progress, request, doc, command, resumes, origin, credited>>
  BY DEF navVars, vars, firefoxVars, navigationVars, callerVars
<1>2. CASE closed
  BY <1>1, <1>2 DEF LoadInv, SessionTypes, sessionVars, NavTypes, Unasked
<1>3. CASE ~closed
  <2>1. Open
    BY <1>3 DEF LoadInv, Open
  <2>2. /\ SessionTypes' /\ Sound' /\ ~closed' /\ Tops' = Tops /\ threads' = threads
        /\ retiredTargetActors' = retiredTargetActors /\ nextGeneration' = nextGeneration
    BY <1>1, <2>1, SessionSame DEF Open
  <2>3. Unasked'
    BY <1>1, <2>1 DEF Open, Unasked
  <2>4. Pending'
    BY <1>1, <2>1, <2>2
       DEF Open, NavSound, Pending, Origins, Held, Watched, Credited, Ready, Known, About, Named, Due, Final
  <2>5. QED
    BY <1>1, <2>1, <2>2, <2>3, <2>4, CallerKeeps DEF Open, NavTypes, Accepted
<1>4. QED
  BY <1>2, <1>3

LEMMA LoadStep ==
  ASSUME LoadInv, InTurn, NavNext
  PROVE  LoadInv'
<1>1. ~closed => Open
  BY DEF LoadInv, Open
<1>2. CASE HearTarget
  BY <1>1, <1>2, HearTargetKeeps DEF HearTarget, Deliver
<1>3. CASE HearStart
  BY <1>1, <1>3, HearStartKeeps DEF HearStart, Hear
<1>4. CASE HearReady
  BY <1>1, <1>4, HearReadyKeeps DEF HearReady, Hear
<1>5. CASE HearPaused
  BY <1>1, <1>5, HearPausedKeeps DEF HearPaused, Hear
<1>6. CASE HearReply
  BY <1>1, <1>6, HearReplyKeeps DEF HearReply, Hear
<1>7. CASE Settle
  BY <1>7, SettleKeeps
<1>8. CASE Timers
  BY <1>8, TimersKeep
<1>9. CASE PageIsThere
  BY <1>1, <1>9, NotPending DEF PageIsThere, LoadInv, NavTypes
<1>10. CASE Navigate
  BY <1>1, <1>10, NavigateKeeps DEF Navigate
<1>11. CASE NoNavigation
  BY <1>1, <1>11, NotPending DEF NoNavigation, LoadInv, NavTypes
<1>12. CASE NavClose
  BY <1>1, <1>12, NavCloseKeeps DEF NavClose, SessionClose
<1>13. CASE ~closed /\ NavFirefox
  BY <1>1, <1>13, FirefoxKeeps
<1>14. QED
  BY <1>2, <1>3, <1>4, <1>5, <1>6, <1>7, <1>8, <1>9, <1>10, <1>11, <1>12, <1>13 DEF NavNext, NavChunk

-----------------------------------------------------------------------------
(* A `start` is about the page that is there *)

\* What Firefox puts on the wire, and when it tells of a start.
LEMMA FirefoxSends ==
  ASSUME LoadInv, ~closed, NavFirefox
  PROVE  /\ UNCHANGED <<threads, retiredTargetActors>>
         /\ \/ wire' = wire
            \/ \E p \in NavPackets : /\ wire' = Append(wire, p)
                                     /\ p.kind = "start" => page = p.actor /\ phase[page] = "live"
<1> DEFINE Mute == wire' = wire
           Says1 == \E p \in NavPackets : wire' = Append(wire, p) /\ p.kind # "start"
           Says2 == \E p \in NavPackets : wire' = Append(wire, p) /\ page = p.actor /\ phase[page] = "live"
           Same == UNCHANGED <<threads, retiredTargetActors>>
<1>1. NavTypes /\ \A t \in TopActors : doc[t] \in Documents
  BY DEF LoadInv, NavTypes
<1>2. ASSUME NEW kind \in {"available", "document", "stop", "paused"}, NEW t \in TopActors,
             NEW d, NEW tab \in BOOLEAN, Post(kind, t, d, tab), d \in Documents
      PROVE  Says1
  <2>1. PICK p \in NavPackets : wire' = Append(wire, p) /\ p.kind = kind
    BY <1>2, Sends
  <2>2. QED
    BY <2>1
<1>3. \A u \in Urls, b \in BOOLEAN : Document(u, b) \in Documents
  BY DEF Document, Documents
<1>4. Accepted \in BOOLEAN
  BY DEF Accepted
<1>5. ASSUME NEW t \in TopActors, Loads(t) \/ Resumes(t) PROVE Mute /\ Same
  BY <1>5 DEF Loads, Resumes, FirefoxLoads, vars, firefoxVars, sessionVars
<1>6. ASSUME NEW t \in TopActors, Announces(t) PROVE Says1 /\ Same
  BY <1>1, <1>2, <1>6 DEF Announces, Send, sessionVars
<1>7. ASSUME NEW t \in TopActors, Starts(t) PROVE Says2 /\ Same
  <2>1. doc'[t] = Document(Wanted, TRUE) /\ Wanted \in Urls
    BY <1>1, <1>7 DEF Starts, LoadInv, NavTypes, Urls
  <2>2. PICK tab \in BOOLEAN : Post("start", t, doc'[t], tab)
    BY <1>7 DEF Starts
  <2>3. doc'[t] \in Documents
    BY <1>3, <2>1
  <2>4. PICK p \in NavPackets : wire' = Append(wire, p) /\ p.actor = t
    BY <2>2, <2>3, Sends
  <2>5. QED
    BY <1>7, <2>4 DEF Starts, OnlyWire, sessionVars
<1>8. ASSUME NEW t \in TopActors, BecomesInteractive(t) PROVE Says1 /\ Same
  <2> DEFINE d(u) == [doc[t] EXCEPT !.state = "interactive", !.url = u, !.moved = u # doc[t].url]
  <2>1. PICK u \in Urls : doc' = [doc EXCEPT ![t] = d(u)]
    BY <1>1, <1>8 DEF BecomesInteractive, Documents, Urls
  <2>2. d(u) \in Documents
    BY <1>1 DEF Documents
  <2>3. doc'[t] = d(u)
    BY <1>1, <2>1 DEF NavTypes
  <2>4. Says1
    BY <1>2, <1>8, <2>2, <2>3 DEF BecomesInteractive, Send
  <2>5. QED
    BY <1>8, <2>4 DEF BecomesInteractive, OnlyWire, sessionVars
<1>9. ASSUME NEW t \in TopActors, Stops(t) PROVE Says1 /\ Same
  BY <1>1, <1>2, <1>9 DEF Stops, OnlyWire, sessionVars
<1>10. ASSUME NEW t \in TopActors, Pauses(t) PROVE Says1 /\ Same
  BY <1>1, <1>2, <1>10 DEF Pauses, Send, OnlyWire, sessionVars
<1>11. ASSUME NEW t \in TopActors, NEW u \in TopActors, Swaps(t, u) PROVE Says1 /\ Same
  <2>1. PICK url \in Urls : doc' = [doc EXCEPT ![u] = Document(url, Accepted)]
    BY <1>11 DEF Swaps, NewDocument
  <2>2. doc'[u] \in Documents
    BY <1>1, <1>3, <1>4, <2>1 DEF LoadInv, NavTypes
  <2>3. QED
    BY <1>2, <1>11, <2>2 DEF Swaps, Send, sessionVars
<1>12. ASSUME NEW t \in TopActors, FirefoxDestroysPage(t) \/ FirefoxDestroysLate(t)
       PROVE  Says1 /\ Same
  <2>1. [kind |-> "destroyed", actor |-> t] \in NavPackets
    BY DEF NavPackets
  <2>2. QED
    BY <1>12, <2>1 DEF FirefoxDestroysPage, FirefoxDestroysLate, Emit, sessionVars
<1>13. Takes => Mute /\ Same
  BY DEF Takes, vars, firefoxVars, sessionVars
<1>14. Answers => Says1 /\ Same
  <2> DEFINE q(k, a) == [kind |-> k, actor |-> NoPage, url |-> Wanted, asked |-> a, tab |-> FALSE]
  <2>1. q("error", FALSE) \in NavPackets /\ q("reply", TRUE) \in NavPackets
    BY DEF NavPackets, Urls
  <2>2. ASSUME Answers PROVE wire' = Append(wire, q("error", FALSE)) \/ wire' = Append(wire, q("reply", TRUE))
    BY <2>2 DEF Answers, Send, Post, Document
  <2>3. QED
    BY <2>1, <2>2 DEF Answers, OnlyWire, sessionVars
<1>15. (Mute \/ Says1 \/ Says2) /\ Same
  BY <1>5, <1>6, <1>7, <1>8, <1>9, <1>10, <1>11, <1>12, <1>13, <1>14 DEF NavFirefox
<1>16. QED
  BY <1>15

\* A packet of Firefox is behind all that stands before a `start`.
LEMMA StagedGrows ==
  ASSUME Open, InTurn, NEW p \in NavPackets, wire' = Append(wire, p),
         p.kind = "start" => page = p.actor /\ phase[page] = "live",
         UNCHANGED <<threads, retiredTargetActors>>
  PROVE  InTurn'
<1>0. PICK e : e = Len(wire) + 1
  OBVIOUS
<1>1. /\ e \in DOMAIN wire' /\ wire'[e] = p
      /\ \A n \in DOMAIN wire : n \in Nat /\ n < e /\ n \in DOMAIN wire' /\ wire'[n] = wire[n]
      /\ \A n \in DOMAIN wire' : n \in DOMAIN wire \/ n = e
  BY <1>0, Puts DEF Open, Put
<1>2. \A t \in TopActors : Known(t)' <=> Known(t)
  BY DEF Known
<1>3. ASSUME NEW t \in TopActors, NEW n \in About(t, {"start"})' PROVE Staged(t, n)'
  <2>1. CASE n \in DOMAIN wire
    <3>1. n \in About(t, {"start"}) /\ n < e /\ Staged(t, n)
      BY <1>1, <1>3, <2>1 DEF About, InTurn, Open
    <3>2. \A m \in About(t, {"destroyed"})' : n < m
      BY <1>1, <3>1 DEF About, Staged
    <3>3. CASE Known(t)
      BY <1>1, <1>2, <3>1, <3>2, <3>3 DEF Staged
    <3>4. CASE ~Known(t)
      <4>1. PICK k \in About(t, {"available"}) :
              k < n /\ \A m \in DOMAIN wire : wire[m].kind = "available" => m <= k \/ n < m
        BY <3>1, <3>4 DEF Staged
      <4>2. k \in About(t, {"available"})'
        BY <1>1, <4>1 DEF About
      <4>3. \A m \in DOMAIN wire' : wire'[m].kind = "available" => m <= k \/ n < m
        BY <1>1, <3>1, <4>1
      <4>4. QED
        BY <1>2, <3>1, <3>2, <3>4, <4>1, <4>2, <4>3 DEF Staged
    <3>5. QED
      BY <3>3, <3>4
  <2>2. CASE n = e
    <3>1. p.kind = "start" /\ t = page /\ phase[page] = "live" /\ page \in TopActors /\ page # NoPage
      BY <1>1, <1>3, <2>2, TargetsAssumption DEF About, Actors
    <3>2. \A m \in About(t, {"destroyed"})' : n < m
      <4>1. \A m \in DOMAIN wire : ~(wire[m].actor = t /\ wire[m].kind = "destroyed")
        BY <3>1 DEF Open, NavSound, PageSound, Telling, Told
      <4>2. QED
        BY <1>1, <3>1, <4>1 DEF About
    <3>3. CASE Known(t)
      <4>1. \A m \in DOMAIN wire : wire[m].kind # "available"
        BY <3>1, <3>3 DEF Open, NavSound, Heard
      <4>2. QED
        BY <1>1, <1>2, <3>1, <3>2, <3>3, <4>1 DEF Staged
    <3>4. CASE ~Known(t)
      <4>1. t \notin retiredTargetActors
        BY <3>1, <3>4 DEF Open, NavSound, Heard
      <4>2. PICK k \in About(t, {"available"}) : \A m \in DOMAIN wire : wire[m].kind = "available" => m <= k
        BY <3>1, <3>4 DEF Open, NavSound, Heard
      <4>3. k \in About(t, {"available"})' /\ k < n
        BY <1>1, <2>2, <4>2 DEF About
      <4>4. \A m \in DOMAIN wire' : wire'[m].kind = "available" => m <= k \/ n < m
        BY <1>1, <3>1, <4>2
      <4>5. QED
        BY <1>2, <3>2, <3>4, <4>1, <4>3, <4>4 DEF Staged
    <3>5. QED
      BY <3>3, <3>4
  <2>3. QED
    BY <1>1, <1>3, <2>1, <2>2 DEF About
<1>4. QED
  BY <1>3 DEF InTurn

\* The announcement that comes first on the wire makes its page the tab's.
LEMMA StagedMoves ==
  ASSUME Open, InTurn, Shifted, Head(wire) \in NavPackets, Head(wire).kind \in {"available", "destroyed"},
         Handled(Head(wire).actor, Head(wire).kind), Head(wire).actor \in TopActors,
         NEW t \in TopActors, NEW n \in About(t, {"start"})'
  PROVE  Staged(t, n)'
<1> DEFINE a == Head(wire).actor
           kind == Head(wire).kind
           known == ActorsOf(threads)
           dead == retiredTargetActors
<1>1. \A b : (Known(b) <=> b \in known) /\ (Known(b)' <=> b \in ActorsOf(threads'))
  BY KnownAre DEF Known, ActorsOf
<1>2. /\ ActorsOf(threads') \subseteq known \cup {a}
      /\ retiredTargetActors' \subseteq dead \cup known \cup {a}
  BY DEF Handled
<1>3. /\ \A m \in DOMAIN wire' : m \in Nat /\ m >= 1 /\ m + 1 \in DOMAIN wire /\ wire'[m] = wire[m + 1]
      /\ \A m \in DOMAIN wire : m \in Nat /\ m >= 1
                              /\ (m # 1 => m - 1 \in DOMAIN wire' /\ wire'[m - 1] = wire[m])
      /\ 1 \in DOMAIN wire /\ wire[1] = Head(wire)
  BY DEF Shifted
<1>4. n \in Nat /\ n >= 1 /\ n + 1 \in About(t, {"start"}) /\ Staged(t, n + 1) /\ PageSound(t)
  BY <1>3 DEF About, InTurn, Open, NavSound
<1>5. a = t => kind = "available"
  <2>1. ASSUME a = t, kind = "destroyed" PROVE FALSE
    <3>1. 1 \in About(t, {"destroyed"})
      BY <1>3, <2>1 DEF About
    <3>2. QED
      BY <1>4, <3>1 DEF Staged
  <2>2. QED
    BY <2>1
<1>6. \A m \in About(t, {"destroyed"})' : n < m
  BY <1>3, <1>4 DEF Staged, About
<1>7. CASE Known(t)
  <2>1. \A m \in DOMAIN wire : wire[m].kind = "available" => n + 1 < m
    BY <1>4, <1>7 DEF Staged
  <2>2. kind = "destroyed" /\ a # t
    BY <1>3, <1>4, <1>5, <2>1
  <2>3. a \notin known \cap TopActors
    <3>1. PICK i \in Tops : i.actor = t
      BY <1>7, TopsAreThreads DEF Open
    <3>2. \A j \in Tops : j.actor # a
      BY <2>2, <3>1, TopsAreThreads DEF Open
    <3>3. QED
      BY <1>1, <3>2, TopsAreThreads DEF Open
  <2>4. t \in ActorsOf(threads')
    BY <1>1, <1>7, <2>2, <2>3 DEF Handled
  <2>5. \A m \in DOMAIN wire' : wire'[m].kind = "available" => n < m
    BY <1>3, <1>4, <2>1
  <2>6. QED
    BY <1>1, <1>6, <2>4, <2>5 DEF Staged
<1>8. CASE ~Known(t)
  <2>1. PICK k \in About(t, {"available"}) :
          k < n + 1 /\ \A m \in DOMAIN wire : wire[m].kind = "available" => m <= k \/ n + 1 < m
    BY <1>4, <1>8 DEF Staged
  <2>2. t \notin dead /\ k \in Nat /\ k >= 1 /\ k \in DOMAIN wire /\ wire[k].actor = t
        /\ wire[k].kind = "available"
    BY <1>3, <1>4, <1>8, <2>1 DEF Staged, About
  <2>3. CASE a = t
    <3>1. 1 \in About(t, {"available"})
      BY <1>3, <1>5, <2>3 DEF About
    <3>2. k = 1
      BY <1>4, <2>1, <3>1 DEF PageSound, Ordered
    <3>3. t \in ActorsOf(threads')
      BY <1>1, <1>5, <1>8, <2>2, <2>3 DEF Handled
    <3>4. \A m \in DOMAIN wire' : wire'[m].kind = "available" => n < m
      BY <1>3, <1>4, <2>1, <3>2
    <3>5. QED
      BY <1>1, <1>6, <3>3, <3>4 DEF Staged
  <2>4. CASE a # t
    <3>1. t \notin ActorsOf(threads') /\ t \notin retiredTargetActors'
      BY <1>1, <1>2, <1>8, <2>2, <2>4
    <3>2. k # 1
      BY <1>3, <2>2, <2>4
    <3>3. k - 1 \in About(t, {"available"})' /\ k - 1 < n
      BY <1>3, <1>4, <2>1, <2>2, <3>2 DEF About
    <3>4. \A m \in DOMAIN wire' : wire'[m].kind = "available" => m <= k - 1 \/ n < m
      BY <1>3, <1>4, <2>1, <2>2
    <3>5. QED
      BY <1>1, <1>6, <3>1, <3>3, <3>4 DEF Staged
  <2>5. QED
    BY <2>3, <2>4
<1>9. QED
  BY <1>7, <1>8

\* Packets about documents do not change who is there.
LEMMA StagedWaits ==
  ASSUME Open, InTurn, Shifted, Head(wire).kind \notin {"available", "destroyed"},
         UNCHANGED <<threads, retiredTargetActors>>, NEW t \in TopActors, NEW n \in About(t, {"start"})'
  PROVE  Staged(t, n)'
<1>1. /\ \A m \in DOMAIN wire' : m \in Nat /\ m >= 1 /\ m + 1 \in DOMAIN wire /\ wire'[m] = wire[m + 1]
      /\ \A m \in DOMAIN wire : m \in Nat /\ m >= 1
                              /\ (m # 1 => m - 1 \in DOMAIN wire' /\ wire'[m - 1] = wire[m])
      /\ 1 \in DOMAIN wire /\ wire[1] = Head(wire)
  BY DEF Shifted
<1>2. n \in Nat /\ n >= 1 /\ n + 1 \in About(t, {"start"}) /\ Staged(t, n + 1)
  BY <1>1 DEF About, InTurn, Open
<1>3. Known(t)' <=> Known(t)
  BY DEF Known
<1>4. \A m \in About(t, {"destroyed"})' : n < m
  BY <1>1, <1>2 DEF Staged, About
<1>5. CASE Known(t)
  BY <1>1, <1>2, <1>3, <1>4, <1>5 DEF Staged
<1>6. CASE ~Known(t)
  <2>1. PICK k \in About(t, {"available"}) :
          k < n + 1 /\ \A m \in DOMAIN wire : wire[m].kind = "available" => m <= k \/ n + 1 < m
    BY <1>2, <1>6 DEF Staged
  <2>2. k \in Nat /\ k # 1 /\ k \in DOMAIN wire /\ wire[k].actor = t /\ wire[k].kind = "available"
    BY <1>1, <2>1 DEF About
  <2>3. k - 1 \in About(t, {"available"})' /\ k - 1 < n
    BY <1>1, <1>2, <2>1, <2>2 DEF About
  <2>4. \A m \in DOMAIN wire' : wire'[m].kind = "available" => m <= k - 1 \/ n < m
    BY <1>1, <1>2, <2>1, <2>2
  <2>5. QED
    BY <1>2, <1>3, <1>4, <1>6, <2>3, <2>4 DEF Staged
<1>7. QED
  BY <1>5, <1>6

LEMMA TurnStep ==
  ASSUME LoadInv, InTurn, [NavNext]_navVars
  PROVE  InTurn'
<1>1. ~closed => Open
  BY DEF LoadInv, Open
<1>2. CASE closed' \/ UNCHANGED <<threads, retiredTargetActors, wire, closed>>
  BY <1>2 DEF InTurn, Staged, About, Known
<1>3. CASE HearTarget /\ ~closed'
  <2>1. Deliver /\ Open /\ wire # <<>> /\ wire' = Tail(wire) /\ OnEvent(Head(wire))
    BY <1>1, <1>3 DEF HearTarget, Deliver
  <2>2. Shifted /\ Head(wire) \in NavPackets
    BY <2>1, Shifts DEF Open
  <2>3. Head(wire).actor \in TopActors /\ Head(wire).kind \in {"available", "destroyed"}
    BY <2>1, <2>2 DEF OnEvent, NavPackets
  <2>4. Handled(Head(wire).actor, Head(wire).kind)
    BY <1>3, <2>1, <2>3, Handles DEF Open, Actors
  <2>5. QED
    BY <2>1, <2>2, <2>3, <2>4, StagedMoves DEF InTurn
<1>4. ASSUME NEW kind \in {"start", "stop", "document", "paused", "reply", "error"}, Hear(kind) PROVE InTurn'
  <2>1. Open
    BY <1>1, <1>4 DEF Hear
  <2>2. Shifted /\ Head(wire).kind = kind /\ UNCHANGED <<threads, retiredTargetActors>>
    BY <1>4, <2>1, HearIs DEF Hear, sessionVars
  <2>3. QED
    BY <2>1, <2>2, StagedWaits DEF InTurn
<1>5. CASE ~closed /\ NavFirefox
  <2>1. Open
    BY <1>1, <1>5
  <2>2. /\ UNCHANGED <<threads, retiredTargetActors>>
        /\ \/ wire' = wire
           \/ \E p \in NavPackets : /\ wire' = Append(wire, p)
                                    /\ p.kind = "start" => page = p.actor /\ phase[page] = "live"
    BY <1>5, FirefoxSends
  <2>3. CASE wire' = wire
    BY <1>5, <2>2, <2>3 DEF InTurn, Staged, About, Known
  <2>4. CASE wire' # wire
    BY <2>1, <2>2, <2>4, StagedGrows
  <2>5. QED
    BY <2>3, <2>4
<1>6. CASE Settle \/ NavigationDeadline \/ RequestDeadline \/ StartFails
  <2>1. closed' \/ UNCHANGED vars
    BY <1>6 DEF Settle, NavigationDeadline, RequestDeadline, StartFails, Fails, SessionClose, CloseSession
  <2>2. QED
    BY <1>2, <2>1 DEF vars, sessionVars, firefoxVars
<1>7. CASE PageIsThere \/ Navigate \/ NoNavigation \/ NavClose \/ NavDetachGrace \/ UNCHANGED navVars
  <2>1. closed' \/ UNCHANGED <<threads, retiredTargetActors, wire, closed>>
    BY <1>7 DEF PageIsThere, Navigate, NoNavigation, NavClose, SessionClose, CloseSession, NavDetachGrace,
       DetachGrace, vars, sessionVars, firefoxVars, navVars
  <2>2. QED
    BY <1>2, <2>1
<1>8. QED
  BY <1>2, <1>3, <1>4, <1>5, <1>6, <1>7
     DEF NavNext, NavChunk, Timers, HearStart, HearReady, HearPaused, HearReply

\* Firefox takes no part in the launch.
LEMMA FirefoxLeaves ==
  ASSUME NavFirefox
  PROVE  UNCHANGED <<startup, request>>
  BY DEF NavFirefox, Loads, Announces, Swaps, Starts, BecomesInteractive, Stops, Pauses, Resumes, Takes,
         Answers, Unmoved, navigationVars, callerVars

\* A navigation succeeds in one way only: navigate returns.
LEMMA OnlySettles ==
  ASSUME LoadInv, NavNext, ~Navigated, Navigated'
  PROVE  Settle /\ startup' = "done"
<1>1. startup' = "done" /\ request' # "none"
  BY DEF Navigated
<1>2. startup' = startup => request' = request \/ startup = "pending"
  <2>1. CASE NavChunk
    BY <2>1 DEF NavChunk, HearTarget, HearStart, HearReady, HearPaused, HearReply, Settle, Fails
  <2>2. CASE Timers \/ PageIsThere \/ Navigate \/ NoNavigation \/ NavClose
    BY <2>2 DEF Timers, NavDetachGrace, NavigationDeadline, RequestDeadline, StartFails, Fails,
       PageIsThere, Navigate, NoNavigation, NavClose, navigationVars, callerVars
  <2>3. CASE NavFirefox
    BY <2>3, FirefoxLeaves
  <2>4. QED
    BY <2>1, <2>2, <2>3 DEF NavNext
<1>3. startup' # startup
  BY <1>1, <1>2 DEF Navigated
<1>4. ~NoNavigation
  BY <1>1 DEF NoNavigation, LoadInv, Unasked
<1>5. Settle
  BY <1>1, <1>3, <1>4, FirefoxLeaves
     DEF NavNext, NavChunk, HearTarget, HearStart, HearReady, HearPaused, HearReply, Hear, Timers,
         NavDetachGrace, NavigationDeadline, RequestDeadline, StartFails, Fails, PageIsThere, Navigate,
         NavClose, navigationVars, callerVars
<1>6. QED
  BY <1>1, <1>5

\* What navigate returns on is the document that was credited, and its page is there.
LEMMA ReturnsOnDestination ==
  ASSUME LoadInv, Settle, startup' = "done"
  PROVE  \E i \in Tops :
           /\ i.actor = credited.actor \/ credited.tab
           /\ i.actor = origin => doc[origin].asked /\ (credited.actor = origin => credited.asked)
<1>1. ~closed /\ request = "replied" /\ DestinationCurrent /\ startup = "pending"
  BY DEF Settle, Decided, Fails
<1>2. progress.phase = "destination-ready"
  BY <1>1 DEF Settle, Decided
<1>3. Credited /\ Open
  BY <1>1, <1>2 DEF LoadInv, NavSound, Pending, Open
<1>4. PICK i \in Tops : TRUE
  BY <1>1, <1>3 DEF DestinationCurrent, TopGeneration, Credited
<1>5. i.gen = progress.destination
  BY <1>1, <1>3, <1>4, TopsAreThreads DEF DestinationCurrent, Open
<1>6. QED
  BY <1>3, <1>4, <1>5 DEF Credited, Ready

-----------------------------------------------------------------------------
(* A navigation cannot be left waiting *)

Over == {"done", "failed", "lost"}

\* Where Firefox's answers to the request are on the wire.
Answer == About(NoPage, {"reply", "error"})

\* The request is answered once, and a launch that fails leaves no open session.
Asked ==
  /\ startup = "pending" => request \in {"sent", "replied", "rejected"}
  /\ startup \in {"failed", "lost"} => closed
  /\ \A m, n \in Answer : m = n
  /\ Answer # {} => command \in {"answered", "refused"}
  /\ startup = "pending" /\ request # "sent" => Answer = {} /\ command \in {"answered", "refused"}

\* Whatever navigate still waits for has its deadline running.
NavigateIsTimed == startup = "pending" => Decided \/ Waiting \/ request = "sent"

FailureCloses == startup \in {"failed", "lost"} => closed

\* A launch ends once; what has been decided stays so, and no deadline starts again.
LaunchGoesForward ==
  /\ startup \in Over => startup' = startup
  /\ startup = "pending" /\ startup' # "pending" => startup' \in Over
  /\ startup = "pending" /\ startup' = "pending" =>
       /\ Decided => Decided'
       /\ Waiting' => Waiting
       /\ request' = "sent" => request = "sent"

LEMMA AnswersMove ==
  ASSUME Shifted
  PROVE  /\ \A n \in Answer' : n \in Nat /\ n >= 1 /\ n + 1 \in Answer
         /\ 1 \in Answer <=> Head(wire).actor = NoPage /\ Head(wire).kind \in {"reply", "error"}
  BY AboutShifts DEF Answer, MovedAbout

\* Packets that are no answer leave the answers where they are, or bring them nearer.
LEMMA AnswersStay ==
  ASSUME NavTypes, NEW p \in NavPackets, wire' = Append(wire, p), p.kind \notin {"reply", "error"}
  PROVE  Answer' = Answer
<1>1. GrownAbout(p, NoPage, {"reply", "error"})
  BY Puts, AboutPuts
<1>2. QED
  BY <1>1 DEF GrownAbout, Answer

LEMMA AnswersSame ==
  ASSUME UNCHANGED wire
  PROVE  Answer' = Answer
  BY DEF Answer, About

\* Nobody but the launch settles a request, and nobody but Firefox answers it.
LEMMA AskedKept ==
  ASSUME Asked, \/ Answer' = Answer
                \/ Shifted,
         UNCHANGED <<startup, request, command>>, closed => closed'
  PROVE  Asked'
<1>1. /\ \A m, n \in Answer' : m = n
      /\ Answer' # {} => Answer # {}
  <2>1. CASE Answer' = Answer
    BY <2>1 DEF Asked
  <2>2. CASE Shifted
    <3>1. \A n \in Answer' : n \in Nat /\ n + 1 \in Answer
      BY <2>2, AnswersMove
    <3>2. \A m, n \in Answer' : m + 1 = n + 1
      BY <3>1 DEF Asked
    <3>3. QED
      BY <3>1, <3>2
  <2>3. QED
    BY <2>1, <2>2
<1>2. QED
  BY <1>1 DEF Asked

LEMMA AskedHeard ==
  ASSUME LoadInv, Asked, HearReply
  PROVE  Asked' /\ (startup = "pending" => request = "sent")
<1>1. PICK kind \in {"reply", "error"} : Hear(kind)
  BY DEF HearReply
<1>2. ~closed /\ Open
  BY <1>1 DEF Hear, LoadInv, Open
<1>3. Shifted /\ Head(wire) \in NavPackets /\ Head(wire).kind = kind
      /\ UNCHANGED <<startup, command>> /\ UNCHANGED closed
  BY <1>1, <1>2, HearIs DEF Hear, sessionVars
<1>4. Head(wire).actor = NoPage
  BY <1>3 DEF NavPackets
<1>5. 1 \in Answer
  BY <1>3, <1>4, AnswersMove
<1>6. ASSUME NEW n \in Answer' PROVE FALSE
  <2>1. n \in Nat /\ n >= 1 /\ n + 1 \in Answer
    BY <1>3, AnswersMove
  <2>2. n + 1 = 1
    BY <1>5, <2>1 DEF Asked
  <2>3. QED
    BY <2>1, <2>2
<1>7. Answer' = {}
  BY <1>6
<1>8. startup = "pending" => request = "sent"
  BY <1>5 DEF Asked
<1>9. startup = "pending" => request' \in {"replied", "rejected"}
  BY DEF HearReply
<1>10. command \in {"answered", "refused"}
  BY <1>5 DEF Asked
<1>11. QED
  BY <1>3, <1>7, <1>8, <1>9, <1>10 DEF Asked

\* The steps of Firefox, as far as the request is concerned.
LEMMA FirefoxOnWire ==
  ASSUME LoadInv, ~closed, NavFirefox
  PROVE  \/ Takes
         \/ Answers
         \/ Answer' = Answer /\ UNCHANGED command
<1> DEFINE Goal == Answer' = Answer /\ UNCHANGED command
<1>1. NavTypes /\ \A t \in TopActors : doc[t] \in Documents
  BY DEF LoadInv, NavTypes
<1>2. ASSUME NEW kind \in {"available", "start", "document", "stop", "paused"}, NEW t \in TopActors,
             NEW d, NEW tab \in BOOLEAN, Post(kind, t, d, tab), d \in Documents, Unmoved
      PROVE  Goal
  <2>1. PICK p \in NavPackets : wire' = Append(wire, p) /\ p.kind = kind
    BY <1>2, Sends
  <2>2. QED
    BY <1>1, <1>2, <2>1, AnswersStay DEF Unmoved
<1>3. \A u \in Urls, b \in BOOLEAN : Document(u, b) \in Documents
  BY DEF Document, Documents
<1>4. Accepted \in BOOLEAN
  BY DEF Accepted
<1>5. ASSUME NEW t \in TopActors, Loads(t) \/ Resumes(t) PROVE Goal
  BY <1>5, AnswersSame DEF Loads, Resumes, FirefoxLoads, Unmoved, vars, firefoxVars
<1>6. ASSUME NEW t \in TopActors, Announces(t) PROVE Goal
  BY <1>1, <1>2, <1>6 DEF Announces, Send
<1>7. ASSUME NEW t \in TopActors, Starts(t) PROVE Goal
  <2>1. doc'[t] = Document(Wanted, TRUE) /\ Wanted \in Urls
    BY <1>1, <1>7 DEF Starts, LoadInv, NavTypes, Urls
  <2>2. doc'[t] \in Documents
    BY <1>3, <2>1
  <2>3. PICK tab \in BOOLEAN : Post("start", t, doc'[t], tab)
    BY <1>7 DEF Starts
  <2>4. QED
    BY <1>2, <1>7, <2>2, <2>3 DEF Starts
<1>8. ASSUME NEW t \in TopActors, BecomesInteractive(t) PROVE Goal
  <2> DEFINE d(u) == [doc[t] EXCEPT !.state = "interactive", !.url = u, !.moved = u # doc[t].url]
  <2>1. PICK u \in Urls : doc' = [doc EXCEPT ![t] = d(u)]
    BY <1>1, <1>8 DEF BecomesInteractive, Documents, Urls
  <2>2. d(u) \in Documents
    BY <1>1 DEF Documents
  <2>3. doc'[t] = d(u)
    BY <1>1, <2>1 DEF NavTypes
  <2>4. QED
    BY <1>2, <1>8, <2>2, <2>3 DEF BecomesInteractive, Send
<1>9. ASSUME NEW t \in TopActors, Stops(t) \/ Pauses(t) PROVE Goal
  <2>1. CASE Stops(t)
    <3>1. PICK tab \in BOOLEAN : Post("stop", t, doc[t], tab)
      BY <2>1 DEF Stops
    <3>2. QED
      BY <1>1, <1>2, <2>1, <3>1 DEF Stops
  <2>2. CASE Pauses(t)
    BY <1>1, <1>2, <2>2 DEF Pauses, Send
  <2>3. QED
    BY <1>9, <2>1, <2>2
<1>10. ASSUME NEW t \in TopActors, NEW u \in TopActors, Swaps(t, u) PROVE Goal
  <2>1. PICK url \in Urls : doc' = [doc EXCEPT ![u] = Document(url, Accepted)]
    BY <1>10 DEF Swaps, NewDocument
  <2>2. doc'[u] \in Documents
    BY <1>1, <1>3, <1>4, <2>1 DEF LoadInv, NavTypes
  <2>3. QED
    BY <1>2, <1>10, <2>2 DEF Swaps, Send
<1>11. ASSUME NEW t \in TopActors, FirefoxDestroysPage(t) \/ FirefoxDestroysLate(t),
              UNCHANGED navigationVars
       PROVE  Goal
  <2>1. PICK p \in NavPackets : wire' = Append(wire, p) /\ p.kind = "destroyed"
    <3>1. [kind |-> "destroyed", actor |-> t] \in NavPackets
      BY DEF NavPackets
    <3>2. QED
      BY <1>11, <3>1 DEF FirefoxDestroysPage, FirefoxDestroysLate, Emit
  <2>2. QED
    BY <1>1, <1>11, <2>1, AnswersStay DEF navigationVars
<1>12. QED
  BY <1>5, <1>6, <1>7, <1>8, <1>9, <1>10, <1>11 DEF NavFirefox

LEMMA AskedAnswered ==
  ASSUME LoadInv, Asked, Answers
  PROVE  Asked'
<1> DEFINE e == Len(wire) + 1
<1>1. PICK p \in NavPackets : wire' = Append(wire, p)
  <2>1. /\ [kind |-> "reply", actor |-> NoPage, url |-> Wanted, asked |-> TRUE, tab |-> FALSE] \in NavPackets
        /\ [kind |-> "error", actor |-> NoPage, url |-> Wanted, asked |-> FALSE, tab |-> FALSE] \in NavPackets
    BY DEF NavPackets, Urls
  <2>2. QED
    BY <2>1 DEF Answers, Send, Post, Document
<1>2. Answer = {}
  BY DEF Answers, Asked
<1>3. GrownAbout(p, NoPage, {"reply", "error"})
  BY <1>1, Puts, AboutPuts DEF LoadInv
<1>4. \A n \in Answer' : n = e
  BY <1>2, <1>3 DEF GrownAbout, Answer
<1>5. command' \in {"answered", "refused"} /\ command \in {"queued", "accepted"}
      /\ UNCHANGED <<startup, request, closed>>
  BY DEF Answers, OnlyWire, callerVars, sessionVars
<1>6. QED
  BY <1>4, <1>5 DEF Asked

LEMMA AskedStep ==
  ASSUME LoadInv, Asked, [NavNext]_navVars
  PROVE  Asked'
<1>1. CASE HearTarget
  <2>1. Shifted /\ UNCHANGED <<startup, request, command>> /\ ~closed
    BY <1>1, Shifts DEF HearTarget, Deliver, LoadInv
  <2>2. QED
    BY <2>1, AskedKept
<1>2. CASE HearStart \/ HearReady \/ HearPaused
  <2>1. PICK kind \in {"start", "stop", "document", "paused"} : Hear(kind)
    BY <1>2 DEF HearStart, HearReady, HearPaused
  <2>2. ~closed /\ Open
    BY <2>1 DEF Hear, LoadInv, Open
  <2>3. Shifted /\ UNCHANGED <<startup, request, command>>
    BY <1>2, <2>1, <2>2, HearIs DEF HearStart, HearReady, HearPaused
  <2>4. QED
    BY <2>2, <2>3, AskedKept
<1>3. CASE HearReply
  BY <1>3, AskedHeard
<1>4. CASE Settle \/ NavigationDeadline \/ RequestDeadline \/ StartFails
  <2>1. /\ UNCHANGED <<wire, request, command>> /\ startup' \in Over
        /\ startup' \in {"failed", "lost"} => closed'
    BY <1>4 DEF Settle, NavigationDeadline, RequestDeadline, StartFails, Fails, SessionClose, CloseSession,
       vars, firefoxVars, sessionVars, Over
  <2>2. QED
    BY <2>1, AnswersSame DEF Asked, Over
<1>5. CASE Navigate
  <2>1. UNCHANGED <<wire, closed>> /\ startup' = "pending" /\ request' = "sent" /\ Answer = {}
    BY <1>5 DEF Navigate, vars, firefoxVars, sessionVars, LoadInv, Unasked, Asked
  <2>2. QED
    BY <2>1, AnswersSame DEF Asked
<1>6. CASE PageIsThere \/ NoNavigation
  <2>1. UNCHANGED <<wire, request, command>> /\ startup' \in {"survey", "done"}
    BY <1>6 DEF PageIsThere, NoNavigation, vars, firefoxVars
  <2>2. QED
    BY <2>1, AnswersSame DEF Asked
<1>7. CASE NavDetachGrace \/ NavClose \/ UNCHANGED navVars
  <2>1. UNCHANGED <<wire, startup, request, command>> /\ (closed => closed')
    BY <1>7 DEF NavDetachGrace, DetachGrace, NavClose, SessionClose, CloseSession, navVars, vars,
       firefoxVars, sessionVars, navigationVars, callerVars
  <2>2. QED
    BY <2>1, AnswersSame, AskedKept
<1>8. CASE ~closed /\ NavFirefox
  <2>1. UNCHANGED <<startup, request>>
    BY <1>8, FirefoxLeaves
  <2>2. CASE Takes
    <3>1. UNCHANGED <<wire, closed>> /\ command = "queued"
      BY <2>2 DEF Takes, vars, firefoxVars, sessionVars
    <3>2. QED
      BY <2>1, <3>1, AnswersSame DEF Asked
  <2>3. CASE Answers
    BY <2>3, AskedAnswered
  <2>4. CASE Answer' = Answer /\ UNCHANGED command
    BY <1>8, <2>1, <2>4, AskedKept
  <2>5. QED
    BY <1>8, <2>2, <2>3, <2>4, FirefoxOnWire
<1>9. QED
  BY <1>1, <1>2, <1>3, <1>4, <1>5, <1>6, <1>7, <1>8 DEF NavNext, NavChunk, Timers

LEMMA ForwardStep ==
  ASSUME LoadInv, Asked, NavNext
  PROVE  LaunchGoesForward
<1> USE DEF LaunchGoesForward, Over
<1>1. CASE HearTarget \/ HearStart \/ HearReady \/ HearPaused
  <2>1. UNCHANGED <<startup, request>> /\ ~closed
    BY <1>1 DEF HearTarget, Deliver, HearStart, HearReady, HearPaused, Hear
  <2>2. progress'.phase = progress.phase \/ (Waiting /\ progress'.phase = "destination-ready")
    BY <1>1 DEF HearTarget, HearStart, HearReady, HearPaused, Observe, Complete, LoadInv, NavTypes, Progresses
  <2>3. QED
    BY <2>1, <2>2 DEF Decided, Waiting
<1>2. CASE HearReply
  <2>1. startup = "pending" => request = "sent"
    BY <1>2, AskedHeard
  <2>2. UNCHANGED <<startup, progress>> /\ ~closed
    BY <1>2 DEF HearReply, Hear
  <2>3. startup = "pending" => request' # "sent"
    BY <1>2 DEF HearReply
  <2>4. QED
    BY <2>1, <2>2, <2>3 DEF Decided, Waiting
<1>3. CASE Settle \/ NavigationDeadline \/ RequestDeadline
  BY <1>3 DEF Settle, Decided, NavigationDeadline, Waiting, RequestDeadline, Fails
<1>4. CASE StartFails \/ PageIsThere \/ Navigate \/ NoNavigation
  BY <1>4 DEF StartFails, Fails, PageIsThere, Navigate, NoNavigation
<1>5. CASE NavDetachGrace \/ NavClose
  <2>1. UNCHANGED <<startup, progress, request>> /\ (closed => closed')
    BY <1>5 DEF NavDetachGrace, DetachGrace, NavClose, SessionClose, CloseSession, navigationVars, callerVars
  <2>2. QED
    BY <2>1 DEF Decided, Waiting
<1>6. CASE ~closed /\ NavFirefox
  <2>1. UNCHANGED <<startup, progress, request>>
    BY <1>6 DEF NavFirefox, Loads, Announces, Swaps, Starts, BecomesInteractive, Stops, Pauses, Resumes,
       Takes, Answers, Unmoved, navigationVars, callerVars
  <2>2. QED
    BY <1>6, <2>1 DEF Decided, Waiting
<1>7. QED
  BY <1>1, <1>2, <1>3, <1>4, <1>5, <1>6 DEF NavNext, NavChunk, Timers

\* navigate of session.ts keeps its account of the load in step with what Firefox does, and has
\* sent, and has still to send: the events of the document that was there are told from those
\* of the one asked for, whatever order pages, documents, pauses and the reply come in.
THEOREM NavigationInvariant == NavSpec => []NavInv
<1>1. NavInit => NavInv
  <2>1. ASSUME NavInit PROVE InTurn
    BY <2>1 DEF NavInit, InTurn, About
  <2>2. QED
    BY <2>1, NavInitially DEF NavInv
<1>2. NavInv /\ [NavNext]_navVars => NavInv'
  BY LoadStep, TurnStep, NavStutter DEF NavInv
<1>3. QED
  BY <1>1, <1>2, PTL DEF NavSpec

\* When navigate returns the document that was there before is gone (#completeNavigation,
\* #observeNavigationTarget), and what made it return was an event about the tab's page, and of
\* the document asked for, or one that the tab actor sent.
THEOREM OldDocumentRefused == NavSpec => NotTheOldDocument
<1>1. NavInv /\ [NavNext]_navVars =>
        [~Navigated /\ Navigated' =>
           \E i \in Tops :
             /\ i.actor = credited.actor \/ credited.tab
             /\ i.actor = origin => doc[origin].asked /\ (credited.actor = origin => credited.asked)
        ]_navVars
  BY OnlySettles, ReturnsOnDestination DEF NavInv
<1>2. QED
  BY <1>1, NavigationInvariant, PTL DEF NavSpec, NotTheOldDocument

\* Once Firefox has answered and the document is loaded, navigate has its destination: same page
\* or new one, under the URL asked for or the one it was announced with (#completeNavigation).
THEOREM DestinationFound == NavSpec => []DestinationNotMissed
<1>1. ASSUME NavInv PROVE DestinationNotMissed
  <2> SUFFICES ASSUME NavQuiet, startup = "pending", request = "replied",
                      progress.destination \in {0, TopGeneration}, page # NoPage, Due(page)
               PROVE  FALSE
    BY DEF DestinationNotMissed, Due, Named
  <2>1. Open /\ page \in TopActors /\ PageSound(page) /\ wire = <<>>
    BY <1>1 DEF NavInv, LoadInv, Open, NavQuiet, NavTypes, NavSound
  <2>2. DOMAIN wire = {} /\ \A t, K : About(t, K) = {}
    BY <2>1 DEF About
  <2>3. phase[page] = "live"
    BY <2>1 DEF PageSound, Shown, Due
  <2>4. Known(page)
    BY <2>1, <2>2, <2>3 DEF Open, NavSound, Heard
  <2>5. PICK i \in Tops : i.actor = page /\ TopGeneration = i.gen
    BY <2>1, <2>4, TopsAreThreads DEF Open
  <2>6. Watched(i)
    BY <2>1, <2>5 DEF NavQuiet, Decided, Open, NavSound, Pending, Origins
  <2>7. QED
    BY <2>2, <2>5, <2>6 DEF Watched
<1>2. QED
  BY <1>1, NavigationInvariant, PTL

\* A destination that pauses while it loads is resumed (onPausedDuringLoad of navigate).
THEOREM LoadGoesOn == NavSpec => []LoadIsNotHeld
<1>1. ASSUME NavInv PROVE LoadIsNotHeld
  <2> SUFFICES ASSUME NavQuiet, startup = "pending", NEW i \in Tops, doc[i.actor].asked,
                      doc[i.actor].state = "halted"
               PROVE  FALSE
    BY DEF LoadIsNotHeld
  <2>1. Open /\ Held /\ wire = <<>> /\ resumes = {}
    BY <1>1 DEF NavInv, LoadInv, Open, NavQuiet, NavSound, Pending
  <2>2. i.actor \in TopActors /\ Known(i.actor)
    BY <2>1, TopsAreThreads DEF Open
  <2>3. About(i.actor, {"paused"}) = {}
    BY <2>1 DEF About
  <2>4. QED
    BY <2>1, <2>2, <2>3 DEF Held
<1>2. QED
  BY <1>1, NavigationInvariant, PTL

\* The safety core of NavigationEnds: whatever Firefox sends or leaves unanswered, navigate has
\* settled, or the deadline of what it still waits for is running (the destination's, the
\* request's).  What has settled is never unsettled, no deadline is armed again, a launch ends
\* once, and one that fails has closed its session.
THEOREM NavigationIsTimed ==
  NavSpec => []NavigateIsTimed /\ []FailureCloses /\ [][LaunchGoesForward]_navVars
<1>1. NavInit => Asked
  <2>1. NavInit => Answer = {} /\ startup = "target"
    BY DEF NavInit, Answer, About
  <2>2. QED
    BY <2>1 DEF Asked
<1>2. NavInv /\ Asked /\ [NavNext]_navVars => Asked'
  BY AskedStep DEF NavInv
<1>3. NavInv /\ Asked /\ [NavNext]_navVars => [LaunchGoesForward]_navVars
  BY ForwardStep DEF NavInv
<1>4. NavInv /\ Asked => NavigateIsTimed /\ FailureCloses
  BY DEF NavInv, LoadInv, NavSound, Pending, Origins, Asked, NavigateIsTimed, FailureCloses, Decided, Waiting
<1>5. QED
  BY <1>1, <1>2, <1>3, <1>4, NavigationInvariant, PTL DEF NavSpec
=============================================================================
