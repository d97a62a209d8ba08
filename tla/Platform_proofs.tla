-------------------------- MODULE Platform_proofs --------------------------
(***************************************************************************)
(* The platform session and the tab watcher under it, proved for every set *)
(* of tabs, of connections of LLDB and of servers, and for any number of   *)
(* starts of Firefox; and, in the second half, the RDP client with which   *)
(* the watcher, and every session, talks to Firefox, proved for every      *)
(* number of actors, lifetimes and requests and for every limit.           *)
(***************************************************************************)
EXTENDS Platform, RdpClient, FiniteSetTheorems, TLAPS

-----------------------------------------------------------------------------
(* The invariant of the watcher *)

Packets == [kind : {"tabs", "primed", "changed"}, tabs : SUBSET Tabs]

Phases ==
  /\ browser \in {"none", "running", "gone"} /\ starts \in 0..MaxStarts
  /\ loop \in {"off", "watching", "waiting", "ended", "threw"} /\ launching \in BOOLEAN
  /\ client \in {"none", "checking", "open"}
  /\ armed \in BOOLEAN /\ dirty \in BOOLEAN /\ startupRetry \in BOOLEAN

TabSets ==
  /\ used \subseteq Tabs /\ tabs \subseteq used /\ configured \subseteq tabs
  /\ request \in {NoRequest, Listing} \cup used
  /\ work \in {Idle, Listing} \cup used
  /\ todo \subseteq used /\ primed \subseteq used /\ shown \subseteq used

WatcherTypes == Phases /\ TabSets /\ toWatcher \in Seq(Packets)

\* A connection that is not established has nothing on its way, and one that exists has
\* Firefox at its other end.
Closed ==
  /\ client # "open" => /\ work = Idle /\ todo = {} /\ request = NoRequest /\ toWatcher = <<>>
                        /\ ~armed /\ configured = {} /\ primed = {}
  /\ client # "none" => loop = "watching" /\ browser = "running"
  /\ browser # "running" => tabs = {}

Sent(i, kind) == i \in 1..Len(toWatcher) /\ toWatcher[i].kind = kind
Answer(i) == Sent(i, "tabs") \/ Sent(i, "primed")
\* A notification follows the packet at i.
ChangeAfter(i) == \E j \in 1..Len(toWatcher) : i < j /\ Sent(j, "changed")

\* There is one request at a time, and what answers it says which one it was.
OneRequest ==
  /\ \A i, j \in 1..Len(toWatcher) : Answer(i) /\ Answer(j) => i = j
  /\ \A i \in 1..Len(toWatcher) :
       Answer(i) => request = NoRequest /\ work # Idle /\ (work = Listing <=> Sent(i, "tabs"))
  /\ request # NoRequest => request = work
  /\ client = "open" /\ work = Idle => ~dirty /\ todo = {}

\* A list on its way is the list of Firefox's tabs, with the next change to be notified; or
\* a notification follows it.  The same is true of the tabs that are shown, until the next
\* list is asked for.
Followed ==
  /\ \A i \in 1..Len(toWatcher) :
       Sent(i, "tabs") => (armed /\ toWatcher[i].tabs = tabs) \/ ChangeAfter(i)
  /\ client = "open" /\ work # Listing => (armed /\ shown = tabs) \/ dirty \/ ChangeAfter(0)

\* primed, or its answer, is about threads that are configured, as long as there is the tab;
\* each tab that is shown is primed, or the refresh under way comes to it.
Primed ==
  /\ primed \cap tabs \subseteq configured
  /\ \A i \in 1..Len(toWatcher) : toWatcher[i].tabs \subseteq used
  /\ \A i \in 1..Len(toWatcher) : Sent(i, "primed") =>
       /\ toWatcher[i].tabs \subseteq {work}
       /\ toWatcher[i].tabs \cap tabs \subseteq configured
       /\ toWatcher[i].tabs = {} => work \notin tabs
  /\ client = "open" /\ work # Listing => shown \cap tabs \subseteq primed \cup todo \cup {work}

WatcherInv == WatcherTypes /\ Closed /\ OneRequest /\ Followed /\ Primed

-----------------------------------------------------------------------------
(* The queue of packets *)

\* What stands in the queue after its head has been heard.
LEMMA AfterHearing ==
  ASSUME toWatcher \in Seq(Packets), toWatcher # <<>>, toWatcher' = Tail(toWatcher)
  PROVE  /\ toWatcher' \in Seq(Packets)
         /\ 1 \in 1..Len(toWatcher) /\ Head(toWatcher) = toWatcher[1]
         /\ toWatcher[1] \in Packets
         /\ Len(toWatcher') = Len(toWatcher) - 1 /\ Len(toWatcher) \in Nat
         /\ \A i \in 1..Len(toWatcher') :
              i + 1 \in 1..Len(toWatcher) /\ toWatcher'[i] = toWatcher[i + 1]
         /\ \A i \in 2..Len(toWatcher) :
              i - 1 \in 1..Len(toWatcher') /\ toWatcher'[i - 1] = toWatcher[i]
<1>1. Len(toWatcher) \in Nat /\ Len(toWatcher) # 0
  OBVIOUS
<1>2. toWatcher' \in Seq(Packets) /\ Len(toWatcher') = Len(toWatcher) - 1
  OBVIOUS
<1>3. \A i \in 1..Len(toWatcher') : toWatcher'[i] = toWatcher[i + 1]
  BY <1>1, <1>2
<1>4. 1 \in 1..Len(toWatcher) /\ Head(toWatcher) = toWatcher[1]
  BY <1>1
<1>5. toWatcher[1] \in Packets
  BY <1>4
<1>6. QED
  BY <1>1, <1>2, <1>3, <1>4, <1>5

LEMMA AfterSending ==
  ASSUME toWatcher \in Seq(Packets), NEW packet \in Packets,
         toWatcher' = Append(toWatcher, packet)
  PROVE  /\ toWatcher' \in Seq(Packets) /\ Len(toWatcher) \in Nat
         /\ Len(toWatcher') = Len(toWatcher) + 1
         /\ \A i \in 1..Len(toWatcher) : i \in 1..Len(toWatcher') /\ toWatcher'[i] = toWatcher[i]
         /\ Len(toWatcher') \in 1..Len(toWatcher') /\ toWatcher'[Len(toWatcher')] = packet
         /\ \A i \in 1..Len(toWatcher') : i \in 1..Len(toWatcher) \/ i = Len(toWatcher')
<1>1. toWatcher' \in Seq(Packets) /\ Len(toWatcher') = Len(toWatcher) + 1
  OBVIOUS
<1>2. Len(toWatcher) \in Nat
  OBVIOUS
<1>3. \A i \in 1..Len(toWatcher) : toWatcher'[i] = toWatcher[i]
  OBVIOUS
<1>4. toWatcher'[Len(toWatcher) + 1] = packet
  OBVIOUS
<1>5. QED
  BY <1>1, <1>2, <1>3, <1>4

\* The notifications in it.
LEMMA HeardChanges ==
  ASSUME toWatcher \in Seq(Packets), toWatcher # <<>>, toWatcher' = Tail(toWatcher)
  PROVE  /\ \A i \in 1..Len(toWatcher') : ChangeAfter(i + 1) => ChangeAfter(i)'
         /\ ChangeAfter(1) => ChangeAfter(0)'
         /\ Head(toWatcher).kind # "changed" /\ ChangeAfter(0) => ChangeAfter(0)'
<1>0. USE AfterHearing
<1>1. ASSUME NEW i \in Nat, ChangeAfter(i + 1)
      PROVE  ChangeAfter(i)'
  <2>1. PICK j \in 1..Len(toWatcher) : i + 1 < j /\ Sent(j, "changed")
    BY <1>1 DEF ChangeAfter
  <2>2. j \in 2..Len(toWatcher)
    BY <2>1
  <2>3. j - 1 \in 1..Len(toWatcher') /\ i < j - 1 /\ toWatcher'[j - 1].kind = "changed"
    BY <2>1, <2>2 DEF Sent
  <2>4. QED
    BY <2>3 DEF ChangeAfter, Sent
<1>2. ChangeAfter(1) => ChangeAfter(0)'
  BY <1>1
<1>3. Head(toWatcher).kind # "changed" /\ ChangeAfter(0) => ChangeAfter(1)
  BY DEF ChangeAfter, Sent
<1>4. QED
  BY <1>1, <1>2, <1>3

LEMMA SentChanges ==
  ASSUME toWatcher \in Seq(Packets), NEW packet \in Packets,
         toWatcher' = Append(toWatcher, packet)
  PROVE  /\ \A i \in Nat : ChangeAfter(i) => ChangeAfter(i)'
         /\ packet.kind = "changed"
              => ChangeAfter(0)' /\ \A i \in 1..Len(toWatcher) : ChangeAfter(i)'
<1>0. USE AfterSending
<1>1. \A i \in Nat : ChangeAfter(i) => ChangeAfter(i)'
  BY DEF ChangeAfter, Sent
<1>2. ASSUME packet.kind = "changed", NEW i \in Nat, i <= Len(toWatcher)
      PROVE  ChangeAfter(i)'
  <2>1. PICK n : n = Len(toWatcher')
    OBVIOUS
  <2>2. n \in 1..Len(toWatcher') /\ i < n /\ toWatcher'[n].kind = "changed"
    BY <1>2, <2>1
  <2>3. QED
    BY <2>2 DEF ChangeAfter, Sent
<1>3. QED
  BY <1>1, <1>2

-----------------------------------------------------------------------------
(* What the watcher does with a packet *)

LEMMA Names ==
  /\ Idle # NoRequest /\ Idle # Listing /\ NoRequest # Listing
  /\ \A t \in Tabs : t # Idle /\ t # NoRequest /\ t # Listing /\ t # NoTab
  BY WatcherAssumption DEF Idle, NoRequest, Listing

LEMMA GoOnIs ==
  ASSUME NEW left, GoOn(left), dirty \in BOOLEAN
  PROVE  \/ \E t \in left : /\ work' = t /\ todo' = left \ {t} /\ request' = t
                            /\ dirty' = dirty
         \/ /\ left = {} /\ dirty' = FALSE
            /\ work' = Listing /\ todo' = {} /\ request' = Listing
         \/ /\ left = {} /\ dirty = FALSE /\ dirty' = FALSE
            /\ work' = Idle /\ todo' = {} /\ request' = NoRequest
<1>1. CASE left # {}
  BY <1>1 DEF GoOn, Await
<1>2. CASE left = {} /\ dirty
  BY <1>2 DEF GoOn, StartQuery, Await
<1>3. CASE left = {} /\ ~dirty
  BY <1>3 DEF GoOn
<1>4. QED
  BY <1>1, <1>2, <1>3

LEMMA ScheduleIs ==
  ASSUME Schedule, client = "open"
  PROVE  \/ /\ work = Idle /\ dirty' = FALSE
            /\ work' = Listing /\ todo' = {} /\ request' = Listing
         \/ /\ work # Idle /\ dirty' = TRUE
            /\ work' = work /\ todo' = todo /\ request' = request
<1>1. CASE work = Idle
  BY <1>1 DEF Schedule, StartQuery, Await
<1>2. CASE work # Idle
  BY <1>2 DEF Schedule
<1>3. QED
  BY <1>1, <1>2

\* With its answer heard, a request has left nothing but notifications behind.
LEMMA AnswerHeard ==
  ASSUME WatcherInv, toWatcher # <<>>, Answer(1), toWatcher' = Tail(toWatcher)
  PROVE  /\ client = "open" /\ loop = "watching" /\ browser = "running"
         /\ request = NoRequest /\ work # Idle /\ toWatcher' \in Seq(Packets)
         /\ \A i \in 1..Len(toWatcher') :
              ~Sent(i, "tabs")' /\ ~Sent(i, "primed")' /\ toWatcher'[i].tabs \subseteq used
<1>0. toWatcher \in Seq(Packets)
  BY DEF WatcherInv, WatcherTypes
<1>1. client = "open" /\ loop = "watching" /\ browser = "running"
  BY DEF WatcherInv, Closed
<1>2. 1 \in 1..Len(toWatcher)
  BY <1>0, AfterHearing
<1>3. request = NoRequest /\ work # Idle
  BY <1>2 DEF WatcherInv, OneRequest
<1>4. ASSUME NEW i \in 1..Len(toWatcher')
      PROVE  ~Sent(i, "tabs")' /\ ~Sent(i, "primed")' /\ toWatcher'[i].tabs \subseteq used
  <2>1. i + 1 \in 1..Len(toWatcher) /\ toWatcher'[i] = toWatcher[i + 1]
    BY <1>0, AfterHearing
  <2>2. ~Answer(i + 1)
    BY <2>1, <1>2 DEF WatcherInv, OneRequest
  <2>3. toWatcher[i + 1].tabs \subseteq used
    BY <2>1 DEF WatcherInv, Primed
  <2>4. QED
    BY <2>1, <2>2, <2>3 DEF Answer, Sent
<1>5. toWatcher' \in Seq(Packets)
  BY <1>0, AfterHearing
<1>6. QED
  BY <1>1, <1>3, <1>4, <1>5

\* The request that comes next, with no answer about.
LEMMA NextRequest ==
  ASSUME NEW left, left \subseteq used, used \subseteq Tabs, dirty \in BOOLEAN, GoOn(left),
         \A i \in 1..Len(toWatcher') : ~Sent(i, "tabs")' /\ ~Sent(i, "primed")'
  PROVE  /\ OneRequest'
         /\ dirty' \in BOOLEAN /\ todo' \subseteq used
         /\ request' \in {NoRequest, Listing} \cup used /\ work' \in {Idle, Listing} \cup used
         /\ work' # Listing => left \subseteq todo' \cup {work'} /\ dirty' = dirty
<1>1. /\ dirty' \in BOOLEAN /\ todo' \subseteq used
      /\ request' \in {NoRequest, Listing} \cup used /\ work' \in {Idle, Listing} \cup used
      /\ work' # Listing => left \subseteq todo' \cup {work'} /\ dirty' = dirty
      /\ request' # NoRequest => request' = work'
      /\ work' = Idle => dirty' = FALSE /\ todo' = {}
  <2>1. CASE \E t \in left : /\ work' = t /\ todo' = left \ {t} /\ request' = t
                             /\ dirty' = dirty
    BY <2>1, Names
  <2>2. CASE /\ left = {} /\ dirty' = FALSE
             /\ work' = Listing /\ todo' = {} /\ request' = Listing
    BY <2>2, Names
  <2>3. CASE /\ left = {} /\ dirty = FALSE /\ dirty' = FALSE
             /\ work' = Idle /\ todo' = {} /\ request' = NoRequest
    BY <2>3, Names
  <2>4. QED
    BY <2>1, <2>2, <2>3, GoOnIs
<1>2. QED
  BY <1>1 DEF OneRequest, Answer, Sent

LEMMA HearTabsStep ==
  ASSUME WatcherInv, HearTabs
  PROVE  WatcherInv'
<1>0. /\ toWatcher # <<>> /\ toWatcher' = Tail(toWatcher) /\ Head(toWatcher).kind = "tabs"
      /\ work = Listing /\ primed' = primed \cap Head(toWatcher).tabs
      /\ shown' = Head(toWatcher).tabs /\ GoOn(Head(toWatcher).tabs \ primed)
      /\ UNCHANGED <<browser, starts, tabs, used, armed, configured, loop, launching, client,
                     startupRetry>>
  BY DEF HearTabs, Hear, OtherFirefox, loopVars
<1>1. toWatcher \in Seq(Packets) /\ Phases /\ TabSets
  BY DEF WatcherInv, WatcherTypes
<1>2. PICK listed : listed = Head(toWatcher).tabs
  OBVIOUS
<1>3. /\ 1 \in 1..Len(toWatcher) /\ toWatcher[1].kind = "tabs" /\ toWatcher[1].tabs = listed
      /\ toWatcher[1] = Head(toWatcher)
  BY <1>0, <1>1, <1>2, AfterHearing
<1>4. Sent(1, "tabs")
  BY <1>3 DEF Sent
<1>5. /\ client = "open" /\ loop = "watching" /\ browser = "running"
      /\ request = NoRequest /\ work # Idle /\ toWatcher' \in Seq(Packets)
      /\ \A i \in 1..Len(toWatcher') :
           ~Sent(i, "tabs")' /\ ~Sent(i, "primed")' /\ toWatcher'[i].tabs \subseteq used
  BY <1>0, <1>4, AnswerHeard DEF Answer
<1>6. listed \subseteq used /\ GoOn(listed \ primed)
  BY <1>0, <1>2, <1>3 DEF WatcherInv, Primed
<1>7. /\ OneRequest'
      /\ dirty' \in BOOLEAN /\ todo' \subseteq used
      /\ request' \in {NoRequest, Listing} \cup used /\ work' \in {Idle, Listing} \cup used
      /\ work' # Listing => listed \ primed \subseteq todo' \cup {work'} /\ dirty' = dirty
  <2>1. listed \ primed \subseteq used /\ used \subseteq Tabs /\ dirty \in BOOLEAN
    BY <1>1, <1>6 DEF Phases, TabSets
  <2>2. QED
    BY <2>1, <1>5, <1>6, NextRequest
<1>8. WatcherTypes'
  BY <1>0, <1>1, <1>2, <1>5, <1>6, <1>7 DEF WatcherTypes, Phases, TabSets
<1>9. Closed'
  BY <1>0, <1>5 DEF WatcherInv, Closed
<1>10. Followed'
  <2>1. (armed /\ listed = tabs) \/ ChangeAfter(1)
    BY <1>3, <1>4 DEF WatcherInv, Followed
  <2>2. ChangeAfter(1) => ChangeAfter(0)'
    BY <1>0, <1>1, HeardChanges
  <2>3. (armed' /\ shown' = tabs') \/ ChangeAfter(0)'
    BY <2>1, <2>2, <1>0, <1>2
  <2>4. QED
    BY <2>3, <1>5 DEF Followed
<1>11. Primed'
  BY <1>0, <1>2, <1>5, <1>7 DEF Primed, WatcherInv
<1>12. QED
  BY <1>7, <1>8, <1>9, <1>10, <1>11 DEF WatcherInv

LEMMA HearPrimedStep ==
  ASSUME WatcherInv, HearPrimed
  PROVE  WatcherInv'
<1>0. /\ toWatcher # <<>> /\ toWatcher' = Tail(toWatcher) /\ Head(toWatcher).kind = "primed"
      /\ primed' = IF Head(toWatcher).tabs # {} THEN primed \cup {work} ELSE primed
      /\ GoOn(todo)
      /\ UNCHANGED <<browser, starts, tabs, used, armed, configured, loop, launching, client,
                     startupRetry, shown>>
  BY DEF HearPrimed, Hear, OtherFirefox, loopVars
<1>1. toWatcher \in Seq(Packets) /\ Phases /\ TabSets
  BY DEF WatcherInv, WatcherTypes
<1>2. /\ 1 \in 1..Len(toWatcher) /\ toWatcher[1].kind = "primed"
      /\ toWatcher[1] = Head(toWatcher)
  BY <1>0, <1>1, AfterHearing
<1>3. Sent(1, "primed") /\ ~Sent(1, "tabs")
  BY <1>2 DEF Sent
<1>4. /\ client = "open" /\ loop = "watching" /\ browser = "running"
      /\ request = NoRequest /\ work # Idle /\ toWatcher' \in Seq(Packets)
      /\ \A i \in 1..Len(toWatcher') :
           ~Sent(i, "tabs")' /\ ~Sent(i, "primed")' /\ toWatcher'[i].tabs \subseteq used
  BY <1>0, <1>3, AnswerHeard DEF Answer
<1>5. work # Listing /\ work \in used
  <2>1. work # Listing
    BY <1>2, <1>3 DEF WatcherInv, OneRequest, Answer
  <2>2. QED
    BY <2>1, <1>1, <1>4 DEF TabSets
<1>6. /\ OneRequest'
      /\ dirty' \in BOOLEAN /\ todo' \subseteq used
      /\ request' \in {NoRequest, Listing} \cup used /\ work' \in {Idle, Listing} \cup used
      /\ work' # Listing => todo \subseteq todo' \cup {work'} /\ dirty' = dirty
  <2>1. todo \subseteq used /\ used \subseteq Tabs /\ dirty \in BOOLEAN
    BY <1>1 DEF Phases, TabSets
  <2>2. QED
    BY <2>1, <1>0, <1>4, NextRequest
<1>7. /\ toWatcher[1].tabs \subseteq {work}
      /\ toWatcher[1].tabs \cap tabs \subseteq configured
      /\ toWatcher[1].tabs = {} => work \notin tabs
      /\ primed \cap tabs \subseteq configured
      /\ shown \cap tabs \subseteq primed \cup todo \cup {work}
  BY <1>2, <1>3, <1>4, <1>5 DEF WatcherInv, Primed
<1>8. WatcherTypes'
  <2>1. primed' \subseteq used
    BY <1>0, <1>1, <1>5 DEF TabSets
  <2>2. QED
    BY <2>1, <1>0, <1>1, <1>4, <1>6 DEF WatcherTypes, Phases, TabSets
<1>9. Closed'
  BY <1>0, <1>4 DEF WatcherInv, Closed
<1>10. Followed'
  <2>1. (armed /\ shown = tabs) \/ dirty \/ ChangeAfter(0)
    BY <1>4, <1>5 DEF WatcherInv, Followed
  <2>2. ChangeAfter(0) => ChangeAfter(0)'
    BY <1>0, <1>1, HeardChanges
  <2>3. QED
    BY <2>1, <2>2, <1>0, <1>4, <1>6 DEF Followed
<1>11. Primed'
  <2>1. primed' \cap tabs \subseteq configured /\ shown \cap tabs \subseteq primed' \cup todo
    BY <1>0, <1>2, <1>7
  <2>2. QED
    BY <2>1, <1>0, <1>4, <1>6 DEF Primed
<1>12. QED
  BY <1>6, <1>8, <1>9, <1>10, <1>11 DEF WatcherInv

\* A refresh is due, the packets being as they were or without a notification at their head.
LEMMA ScheduleStep ==
  ASSUME WatcherInv, Schedule, client = "open", WatcherTypes',
         UNCHANGED <<browser, tabs, used, armed, configured, loop, client, primed, shown>>,
         \/ UNCHANGED toWatcher
         \/ /\ toWatcher # <<>> /\ toWatcher' = Tail(toWatcher)
            /\ Head(toWatcher).kind = "changed"
  PROVE  WatcherInv'
<1>0. toWatcher \in Seq(Packets) /\ TabSets
  BY DEF WatcherInv, WatcherTypes
<1>1. PICK n \in {0, 1} : /\ n = 1 => toWatcher # <<>> /\ toWatcher' = Tail(toWatcher)
                          /\ n = 0 => UNCHANGED toWatcher
  OBVIOUS
<1>2. ASSUME NEW i \in 1..Len(toWatcher')
      PROVE  /\ i + n \in 1..Len(toWatcher) /\ toWatcher'[i] = toWatcher[i + n]
             /\ ChangeAfter(i + n) => ChangeAfter(i)'
  <2>1. CASE n = 0
    BY <2>1, <1>0, <1>1 DEF ChangeAfter, Sent
  <2>2. CASE n = 1
    BY <2>2, <1>0, <1>1, AfterHearing, HeardChanges
  <2>3. QED
    BY <2>1, <2>2
<1>3. \/ /\ work = Idle /\ dirty' = FALSE
         /\ work' = Listing /\ todo' = {} /\ request' = Listing
      \/ /\ work # Idle /\ dirty' = TRUE
         /\ work' = work /\ todo' = todo /\ request' = request
  BY ScheduleIs
<1>4. ASSUME NEW i \in 1..Len(toWatcher'), Answer(i)'
      PROVE  i + n \in 1..Len(toWatcher) /\ Answer(i + n)
  BY <1>2, <1>4 DEF Answer, Sent
<1>5. OneRequest'
  <2>1. ASSUME NEW i \in 1..Len(toWatcher'), NEW j \in 1..Len(toWatcher'), Answer(i)', Answer(j)'
        PROVE  i = j
    <3>1. i + n = j + n
      BY <2>1, <1>4 DEF WatcherInv, OneRequest
    <3>2. QED
      BY <3>1
  <2>2. ASSUME NEW i \in 1..Len(toWatcher'), Answer(i)'
        PROVE  request' = NoRequest /\ work' # Idle /\ (work' = Listing <=> Sent(i, "tabs")')
    <3>1. request = NoRequest /\ work # Idle /\ (work = Listing <=> Sent(i + n, "tabs"))
      BY <2>2, <1>4 DEF WatcherInv, OneRequest
    <3>2. Sent(i, "tabs")' <=> Sent(i + n, "tabs")
      BY <1>2 DEF Sent
    <3>3. QED
      BY <3>1, <3>2, <1>3
  <2>3. /\ request' # NoRequest => request' = work'
        /\ client' = "open" /\ work' = Idle => ~dirty' /\ todo' = {}
    BY <1>3, Names DEF WatcherInv, OneRequest
  <2>4. QED
    BY <2>1, <2>2, <2>3 DEF OneRequest
<1>6. Followed'
  <2>1. ASSUME NEW i \in 1..Len(toWatcher'), Sent(i, "tabs")'
        PROVE  (armed' /\ toWatcher'[i].tabs = tabs') \/ ChangeAfter(i)'
    <3>1. i + n \in 1..Len(toWatcher) /\ Sent(i + n, "tabs")
      BY <2>1, <1>2 DEF Sent
    <3>2. (armed /\ toWatcher[i + n].tabs = tabs) \/ ChangeAfter(i + n)
      BY <3>1 DEF WatcherInv, Followed
    <3>3. QED
      BY <3>2, <1>2
  <2>2. work' # Listing => dirty'
    BY <1>3
  <2>3. QED
    BY <2>1, <2>2 DEF Followed
<1>7. Primed'
  <2>1. ASSUME NEW i \in 1..Len(toWatcher'), Sent(i, "primed")'
        PROVE  /\ toWatcher'[i].tabs \subseteq {work'}
               /\ toWatcher'[i].tabs \cap tabs' \subseteq configured'
               /\ toWatcher'[i].tabs = {} => work' \notin tabs'
    <3>1. i + n \in 1..Len(toWatcher) /\ Sent(i + n, "primed") /\ Answer(i + n)
      BY <2>1, <1>2 DEF Sent, Answer
    <3>2. work # Idle
      BY <3>1 DEF WatcherInv, OneRequest
    <3>3. /\ toWatcher[i + n].tabs \subseteq {work}
          /\ toWatcher[i + n].tabs \cap tabs \subseteq configured
          /\ toWatcher[i + n].tabs = {} => work \notin tabs
      BY <3>1 DEF WatcherInv, Primed
    <3>4. work' = work
      BY <3>2, <1>3
    <3>5. QED
      BY <3>3, <3>4, <1>2
  <2>2. \A i \in 1..Len(toWatcher') : toWatcher'[i].tabs \subseteq used'
    BY <1>2 DEF WatcherInv, Primed
  <2>3. primed' \cap tabs' \subseteq configured'
    BY DEF WatcherInv, Primed
  <2>4. client' = "open" /\ work' # Listing =>
          shown' \cap tabs' \subseteq primed' \cup todo' \cup {work'}
    BY <1>3 DEF WatcherInv, Primed
  <2>5. QED
    BY <2>1, <2>2, <2>3, <2>4 DEF Primed
<1>8. Closed'
  BY DEF WatcherInv, Closed
<1>9. QED
  BY <1>5, <1>6, <1>7, <1>8 DEF WatcherInv

LEMMA HearChangeStep ==
  ASSUME WatcherInv, HearChange
  PROVE  WatcherInv'
<1>0. /\ toWatcher # <<>> /\ toWatcher' = Tail(toWatcher) /\ Head(toWatcher).kind = "changed"
      /\ Schedule
      /\ UNCHANGED <<browser, starts, tabs, used, armed, configured, loop, launching, client,
                     primed, startupRetry, shown>>
  BY DEF HearChange, Hear, OtherFirefox, loopVars
<1>1. client = "open"
  BY <1>0 DEF WatcherInv, Closed
<1>2. toWatcher \in Seq(Packets) /\ Phases /\ TabSets
  BY DEF WatcherInv, WatcherTypes
<1>3. WatcherTypes'
  <2>1. dirty' \in BOOLEAN /\ todo' \subseteq used
    BY <1>1, <1>0, <1>2, ScheduleIs DEF Phases, TabSets
  <2>2. request' \in {NoRequest, Listing} \cup used /\ work' \in {Idle, Listing} \cup used
    BY <1>1, <1>0, <1>2, ScheduleIs DEF TabSets
  <2>3. toWatcher' \in Seq(Packets)
    BY <1>0, <1>2, AfterHearing
  <2>4. QED
    BY <2>1, <2>2, <2>3, <1>0, <1>2 DEF WatcherTypes, Phases, TabSets
<1>4. QED
  BY <1>0, <1>1, <1>3, ScheduleStep

LEMMA StartupRetryStep ==
  ASSUME WatcherInv, StartupRetry
  PROVE  WatcherInv'
<1>0. /\ client = "open" /\ startupRetry' = FALSE /\ Schedule
      /\ UNCHANGED <<browser, starts, tabs, used, armed, configured, loop, launching, client,
                     primed, toWatcher, shown>>
  BY DEF StartupRetry, OtherFirefox, loopVars
<1>1. toWatcher \in Seq(Packets) /\ Phases /\ TabSets
  BY DEF WatcherInv, WatcherTypes
<1>2. WatcherTypes'
  <2>1. dirty' \in BOOLEAN /\ todo' \subseteq used
    BY <1>0, <1>1, ScheduleIs DEF Phases, TabSets
  <2>2. request' \in {NoRequest, Listing} \cup used /\ work' \in {Idle, Listing} \cup used
    BY <1>0, <1>1, ScheduleIs DEF TabSets
  <2>3. QED
    BY <2>1, <2>2, <1>0, <1>1 DEF WatcherTypes, Phases, TabSets
<1>3. QED
  BY <1>0, <1>2, ScheduleStep

-----------------------------------------------------------------------------
(* The connection comes and goes *)

LEMMA CompatibleStep ==
  ASSUME WatcherInv, Compatible
  PROVE  WatcherInv'
<1>0. /\ client = "checking" /\ client' = "open" /\ startupRetry' = TRUE
      /\ dirty' = FALSE /\ work' = Listing /\ todo' = {} /\ request' = Listing
      /\ UNCHANGED <<browser, starts, tabs, used, armed, configured, toWatcher, loop, launching,
                     primed, shown>>
  BY DEF Compatible, StartQuery, Await, loopVars
<1>1. toWatcher = <<>> /\ loop = "watching" /\ browser = "running"
  BY <1>0 DEF WatcherInv, Closed
<1>2. WatcherTypes'
  BY <1>0 DEF WatcherInv, WatcherTypes, Phases, TabSets
<1>3. Closed'
  BY <1>0, <1>1 DEF Closed
<1>4. \A i : i \notin 1..Len(toWatcher')
  BY <1>0, <1>1
<1>5. OneRequest'
  BY <1>0, <1>4, Names DEF OneRequest
<1>6. Followed' /\ Primed'
  BY <1>0, <1>4 DEF Followed, WatcherInv, Primed
<1>7. QED
  BY <1>2, <1>3, <1>5, <1>6 DEF WatcherInv

\* There is no connection any more, for whatever reason.
LEMMA DropStep ==
  ASSUME WatcherInv, Drop, WatcherTypes',
         (tabs' = tabs /\ browser' = browser) \/ (tabs' = {} /\ browser' = "gone")
  PROVE  WatcherInv'
<1>0. /\ client' = "none" /\ work' = Idle /\ todo' = {} /\ primed' = {} /\ request' = NoRequest
      /\ toWatcher' = <<>> /\ armed' = FALSE /\ configured' = {}
  BY DEF Drop
<1>1. Closed'
  BY <1>0 DEF WatcherInv, Closed
<1>2. \A i : i \notin 1..Len(toWatcher')
  BY <1>0
<1>3. OneRequest' /\ Followed' /\ Primed'
  BY <1>0, <1>2 DEF OneRequest, Followed, Primed
<1>4. QED
  BY <1>1, <1>3 DEF WatcherInv

LEMMA DropTypes ==
  ASSUME WatcherTypes, Drop, UNCHANGED <<starts, used, launching, shown>>,
         loop' \in {"off", "watching", "waiting", "ended", "threw"},
         (tabs' = tabs /\ browser' = browser) \/ (tabs' = {} /\ browser' = "gone")
  PROVE  WatcherTypes'
<1>1. Phases'
  BY DEF WatcherTypes, Phases, Drop
<1>2. TabSets'
  BY DEF WatcherTypes, TabSets, Drop
<1>3. QED
  BY <1>1, <1>2 DEF WatcherTypes, Drop

LEMMA ConnectionStep ==
  ASSUME WatcherInv,
         Connect \/ ConnectionLost \/ ProtocolFails \/ Reconnect \/ WatcherAborts \/ Exits
  PROVE  WatcherInv'
<1>0. WatcherTypes /\ Phases /\ TabSets
  BY DEF WatcherInv, WatcherTypes
<1>1. CASE Connect
  <2>0. /\ loop = "watching" /\ client = "none" /\ browser = "running" /\ client' = "checking"
        /\ UNCHANGED <<browser, starts, tabs, used, armed, configured, request, toWatcher, loop,
                       launching, dirty, work, todo, primed, startupRetry, shown>>
    BY <1>1 DEF Connect, firefoxVars, loopVars
  <2>1. WatcherTypes'
    BY <2>0, <1>0 DEF WatcherTypes, Phases, TabSets
  <2>2. Closed' /\ OneRequest'
    BY <2>0 DEF WatcherInv, Closed, OneRequest, Answer, Sent
  <2>3. Followed' /\ Primed'
    BY <2>0 DEF WatcherInv, Followed, Primed, Sent, ChangeAfter
  <2>4. QED
    BY <2>1, <2>2, <2>3 DEF WatcherInv
<1>2. CASE Reconnect
  <2>0. /\ loop = "waiting" /\ loop' = "watching"
        /\ UNCHANGED <<browser, starts, tabs, used, armed, configured, request, toWatcher, client,
                       launching, dirty, work, todo, primed, startupRetry, shown>>
    BY <1>2 DEF Reconnect, firefoxVars, clientVars
  <2>1. WatcherTypes'
    BY <2>0, <1>0 DEF WatcherTypes, Phases, TabSets
  <2>2. Closed' /\ OneRequest'
    BY <2>0 DEF WatcherInv, Closed, OneRequest, Answer, Sent
  <2>3. Followed' /\ Primed'
    BY <2>0 DEF WatcherInv, Followed, Primed, Sent, ChangeAfter
  <2>4. QED
    BY <2>1, <2>2, <2>3 DEF WatcherInv
<1>3. CASE ConnectionLost \/ ProtocolFails \/ WatcherAborts
  <2>1. /\ Drop /\ loop' \in {loop, "threw", "waiting", "ended"}
        /\ UNCHANGED <<starts, used, launching, shown>> /\ tabs' = tabs /\ browser' = browser
    BY <1>3 DEF ConnectionLost, Lose, ProtocolFails, WatcherAborts
  <2>2. loop' \in {"off", "watching", "waiting", "ended", "threw"}
    BY <2>1, <1>0 DEF Phases
  <2>3. WatcherTypes'
    BY <2>1, <2>2, <1>0, DropTypes
  <2>4. QED
    BY <2>1, <2>3, DropStep
<1>4. CASE Exits
  <2>1. /\ Drop /\ loop' \in {loop, "threw", "waiting"} /\ tabs' = {} /\ browser' = "gone"
        /\ UNCHANGED <<starts, used, launching, shown>>
    BY <1>4 DEF Exits, Lose
  <2>2. loop' \in {"off", "watching", "waiting", "ended", "threw"}
    BY <2>1, <1>0 DEF Phases
  <2>3. WatcherTypes'
    BY <2>1, <2>2, <1>0, DropTypes
  <2>4. QED
    BY <2>1, <2>3, DropStep
<1>5. QED
  BY <1>1, <1>2, <1>3, <1>4

-----------------------------------------------------------------------------
(* What Firefox does *)

LEMMA ListsStep ==
  ASSUME WatcherInv, Lists
  PROVE  WatcherInv'
<1> PICK packet : packet = Packet("tabs", tabs)
  OBVIOUS
<1>0. /\ request = Listing /\ request' = NoRequest /\ armed' = TRUE
      /\ toWatcher' = Append(toWatcher, packet) /\ packet.kind = "tabs" /\ packet.tabs = tabs
      /\ UNCHANGED <<browser, starts, tabs, used, configured, loop, launching, client, dirty, work,
                     todo, primed, startupRetry, shown>>
  BY DEF Lists, loopVars, clientVars, Packet
<1>1. toWatcher \in Seq(Packets) /\ Phases /\ TabSets
  BY DEF WatcherInv, WatcherTypes
<1>2. packet \in Packets
  BY <1>1 DEF Packets, Packet, TabSets
<1>3. work = Listing /\ work # Idle /\ request # NoRequest
  BY <1>0, Names DEF WatcherInv, OneRequest
<1>4. client = "open" /\ loop = "watching" /\ browser = "running"
  BY <1>3 DEF WatcherInv, Closed
<1>5. \A i \in 1..Len(toWatcher) : ~Answer(i)
  BY <1>3 DEF WatcherInv, OneRequest
<1>6. PICK n : n = Len(toWatcher')
  OBVIOUS
<1>7. /\ n \in 1..Len(toWatcher') /\ toWatcher'[n] = packet
      /\ \A i \in 1..Len(toWatcher) : toWatcher'[i] = toWatcher[i]
      /\ \A i \in 1..Len(toWatcher') : i \in 1..Len(toWatcher) \/ i = n
      /\ toWatcher' \in Seq(Packets)
  BY <1>0, <1>1, <1>2, <1>6, AfterSending
<1>8. \A i \in 1..Len(toWatcher') : i # n => ~Sent(i, "tabs")' /\ ~Sent(i, "primed")'
  BY <1>5, <1>7 DEF Answer, Sent
<1>9. Sent(n, "tabs")' /\ ~Sent(n, "primed")'
  BY <1>0, <1>7 DEF Sent
<1>10. WatcherTypes'
  BY <1>0, <1>1, <1>7 DEF WatcherTypes, Phases, TabSets
<1>11. Closed'
  BY <1>0, <1>4 DEF WatcherInv, Closed
<1>12. OneRequest'
  BY <1>0, <1>3, <1>8, <1>9 DEF OneRequest, Answer
<1>13. Followed'
  BY <1>0, <1>3, <1>7, <1>8 DEF Followed
<1>14. Primed'
  <2>1. \A i \in 1..Len(toWatcher') : toWatcher'[i].tabs \subseteq used'
    BY <1>0, <1>1, <1>7 DEF WatcherInv, Primed, TabSets
  <2>2. QED
    BY <2>1, <1>0, <1>3, <1>8, <1>9 DEF WatcherInv, Primed
<1>15. QED
  BY <1>10, <1>11, <1>12, <1>13, <1>14 DEF WatcherInv

LEMMA ConfiguresStep ==
  ASSUME WatcherInv, Configures
  PROVE  WatcherInv'
<1> PICK packet : packet = Packet("primed", {request} \cap tabs)
  OBVIOUS
<1>0. /\ request \in Tabs /\ request' = NoRequest
      /\ configured' = configured \cup ({request} \cap tabs)
      /\ toWatcher' = Append(toWatcher, packet)
      /\ packet.kind = "primed" /\ packet.tabs = {request} \cap tabs
      /\ UNCHANGED <<browser, starts, tabs, used, armed, loop, launching, client, dirty, work,
                     todo, primed, startupRetry, shown>>
  BY DEF Configures, loopVars, clientVars, Packet
<1>1. toWatcher \in Seq(Packets) /\ Phases /\ TabSets
  BY DEF WatcherInv, WatcherTypes
<1>2. packet \in Packets
  BY <1>1 DEF Packets, Packet, TabSets
<1>3. work = request /\ work # Idle /\ work # Listing /\ request # NoRequest
  BY <1>0, Names DEF WatcherInv, OneRequest
<1>4. client = "open" /\ loop = "watching" /\ browser = "running"
  BY <1>3 DEF WatcherInv, Closed
<1>5. \A i \in 1..Len(toWatcher) : ~Answer(i)
  BY <1>3 DEF WatcherInv, OneRequest
<1>6. PICK n : n = Len(toWatcher')
  OBVIOUS
<1>7. /\ n \in 1..Len(toWatcher') /\ toWatcher'[n] = packet
      /\ \A i \in 1..Len(toWatcher) : toWatcher'[i] = toWatcher[i]
      /\ \A i \in 1..Len(toWatcher') : i \in 1..Len(toWatcher) \/ i = n
      /\ toWatcher' \in Seq(Packets)
  BY <1>0, <1>1, <1>2, <1>6, AfterSending
<1>8. \A i \in 1..Len(toWatcher') : ~Sent(i, "tabs")' /\ (Sent(i, "primed")' => i = n)
  <2>1. \A i \in 1..Len(toWatcher') : i # n => ~Sent(i, "tabs")' /\ ~Sent(i, "primed")'
    BY <1>5, <1>7 DEF Answer, Sent
  <2>2. ~Sent(n, "tabs")'
    BY <1>0, <1>7 DEF Sent
  <2>3. QED
    BY <2>1, <2>2
<1>10. WatcherTypes'
  BY <1>0, <1>1, <1>7 DEF WatcherTypes, Phases, TabSets
<1>11. Closed'
  BY <1>0, <1>4 DEF WatcherInv, Closed
<1>12. OneRequest'
  BY <1>0, <1>3, <1>8 DEF OneRequest, Answer
<1>13. Followed'
  <2>1. ChangeAfter(0) => ChangeAfter(0)'
    BY <1>0, <1>1, <1>2, SentChanges
  <2>2. QED
    BY <2>1, <1>0, <1>8 DEF WatcherInv, Followed
<1>14. Primed'
  <2>1. \A i \in 1..Len(toWatcher') : toWatcher'[i].tabs \subseteq used'
    BY <1>0, <1>1, <1>7 DEF WatcherInv, Primed, TabSets
  <2>2. ASSUME NEW i \in 1..Len(toWatcher'), Sent(i, "primed")'
        PROVE  /\ toWatcher'[i].tabs \subseteq {work'}
               /\ toWatcher'[i].tabs \cap tabs' \subseteq configured'
               /\ toWatcher'[i].tabs = {} => work' \notin tabs'
    BY <2>2, <1>0, <1>3, <1>7, <1>8
  <2>3. primed' \cap tabs' \subseteq configured'
    BY <1>0 DEF WatcherInv, Primed
  <2>4. client' = "open" /\ work' # Listing =>
          shown' \cap tabs' \subseteq primed' \cup todo' \cup {work'}
    BY <1>0 DEF WatcherInv, Primed
  <2>5. QED
    BY <2>1, <2>2, <2>3, <2>4 DEF Primed
<1>15. QED
  BY <1>10, <1>11, <1>12, <1>13, <1>14 DEF WatcherInv

\* A tab that comes is a new one, to which no answer and no bookkeeping refers.
LEMMA ChangeStep ==
  ASSUME WatcherInv, NEW now, ChangeTabs(now), browser = "running",
         used' \subseteq Tabs, used \subseteq used', now \subseteq used', now \cap used \subseteq tabs
  PROVE  WatcherInv'
<1>0. /\ tabs' = now /\ configured' = configured \cap now /\ armed' = FALSE
      /\ UNCHANGED <<browser, starts, request, loop, launching, client, dirty, work, todo, primed,
                     startupRetry, shown>>
      /\ toWatcher' = IF armed THEN Append(toWatcher, Packet("changed", {})) ELSE toWatcher
  BY DEF ChangeTabs, loopVars, clientVars
<1>1. toWatcher \in Seq(Packets) /\ Phases /\ TabSets
  BY DEF WatcherInv, WatcherTypes
<1>2. PICK packet : packet = Packet("changed", {})
  OBVIOUS
<1>3. packet \in Packets /\ packet.kind = "changed" /\ packet.tabs = {}
  BY <1>2 DEF Packets, Packet
\* What the step makes of the queue.
<1>4. /\ toWatcher' \in Seq(Packets)
      /\ \A i \in 1..Len(toWatcher) : i \in 1..Len(toWatcher') /\ toWatcher'[i] = toWatcher[i]
      /\ \A i \in 1..Len(toWatcher') :
           i \in 1..Len(toWatcher) \/ (toWatcher'[i].kind = "changed" /\ toWatcher'[i].tabs = {})
      /\ \A i \in Nat : ChangeAfter(i) => ChangeAfter(i)'
      /\ armed => ChangeAfter(0)' /\ \A i \in 1..Len(toWatcher) : ChangeAfter(i)'
  <2>1. CASE armed
    <3>1. toWatcher' = Append(toWatcher, packet)
      BY <2>1, <1>0, <1>2
    <3>2. QED
      BY <3>1, <2>1, <1>1, <1>3, AfterSending, SentChanges
  <2>2. CASE ~armed
    <3>1. toWatcher' = toWatcher
      BY <2>2, <1>0
    <3>2. \A i \in Nat : ChangeAfter(i) => ChangeAfter(i)'
      BY <3>1 DEF ChangeAfter, Sent
    <3>3. QED
      BY <3>1, <3>2, <2>2, <1>1
  <2>3. QED
    BY <2>1, <2>2
<1>5. ASSUME NEW i \in 1..Len(toWatcher')
      PROVE  /\ Sent(i, "tabs")' => i \in 1..Len(toWatcher) /\ Sent(i, "tabs")
             /\ Sent(i, "primed")' => i \in 1..Len(toWatcher) /\ Sent(i, "primed")
  <2>1. CASE i \in 1..Len(toWatcher)
    BY <2>1, <1>4 DEF Sent
  <2>2. CASE toWatcher'[i].kind = "changed"
    BY <2>2 DEF Sent
  <2>3. QED
    BY <2>1, <2>2, <1>4
<1>6. ASSUME NEW i \in 1..Len(toWatcher)
      PROVE  i \in 1..Len(toWatcher') /\ (Sent(i, "tabs") => Sent(i, "tabs")')
  BY <1>4 DEF Sent
<1>7. client # "open" => ~armed /\ toWatcher' = <<>> /\ toWatcher = <<>>
  BY <1>0 DEF WatcherInv, Closed
<1>8. WatcherTypes'
  <2>1. configured' \subseteq tabs' /\ tabs' \subseteq used'
    BY <1>0
  <2>2. TabSets'
    BY <2>1, <1>0, <1>1 DEF TabSets
  <2>3. QED
    BY <2>2, <1>0, <1>1, <1>4 DEF WatcherTypes, Phases
<1>9. Closed'
  BY <1>0, <1>7 DEF WatcherInv, Closed
<1>10. OneRequest'
  <2>1. ASSUME NEW i \in 1..Len(toWatcher'), Answer(i)'
        PROVE  /\ i \in 1..Len(toWatcher) /\ Answer(i)
               /\ request' = NoRequest /\ work' # Idle /\ (work' = Listing <=> Sent(i, "tabs")')
    <3>1. i \in 1..Len(toWatcher) /\ Answer(i)
      BY <2>1, <1>5 DEF Answer
    <3>2. request = NoRequest /\ work # Idle /\ (work = Listing <=> Sent(i, "tabs"))
      BY <3>1 DEF WatcherInv, OneRequest
    <3>3. QED
      BY <3>1, <3>2, <1>0, <1>5, <1>6
  <2>2. QED
    BY <2>1, <1>0 DEF WatcherInv, OneRequest
<1>11. Followed'
  <2>1. ASSUME NEW i \in 1..Len(toWatcher'), Sent(i, "tabs")'
        PROVE  ChangeAfter(i)'
    <3>1. i \in 1..Len(toWatcher) /\ Sent(i, "tabs") /\ i \in Nat
      BY <2>1, <1>5
    <3>2. armed \/ ChangeAfter(i)
      BY <3>1 DEF WatcherInv, Followed
    <3>3. QED
      BY <3>1, <3>2, <1>4
  <2>2. client = "open" /\ work # Listing => dirty \/ ChangeAfter(0)'
    BY <1>4 DEF WatcherInv, Followed
  <2>3. QED
    BY <2>1, <2>2, <1>0 DEF Followed
<1>12. Primed'
  <2>1. \A i \in 1..Len(toWatcher') : toWatcher'[i].tabs \subseteq used'
    BY <1>4 DEF WatcherInv, Primed
  <2>2. ASSUME NEW i \in 1..Len(toWatcher'), Sent(i, "primed")'
        PROVE  /\ toWatcher'[i].tabs \subseteq {work'}
               /\ toWatcher'[i].tabs \cap tabs' \subseteq configured'
               /\ toWatcher'[i].tabs = {} => work' \notin tabs'
    <3>1. i \in 1..Len(toWatcher) /\ Sent(i, "primed") /\ toWatcher'[i] = toWatcher[i] /\ Answer(i)
      BY <2>2, <1>4, <1>5 DEF Answer
    <3>2. /\ toWatcher[i].tabs \subseteq {work}
          /\ toWatcher[i].tabs \cap tabs \subseteq configured
          /\ toWatcher[i].tabs = {} => work \notin tabs
          /\ toWatcher[i].tabs \subseteq used
      BY <3>1 DEF WatcherInv, Primed
    <3>3. work \in used
      BY <3>1, <1>1 DEF WatcherInv, OneRequest, TabSets, Answer, Sent
    <3>4. QED
      BY <3>1, <3>2, <3>3, <1>0
  <2>3. primed' \cap tabs' \subseteq configured'
    BY <1>0, <1>1 DEF WatcherInv, Primed, TabSets
  <2>4. client' = "open" /\ work' # Listing =>
          shown' \cap tabs' \subseteq primed' \cup todo' \cup {work'}
    BY <1>0, <1>1 DEF WatcherInv, Primed, TabSets
  <2>5. QED
    BY <2>1, <2>2, <2>3, <2>4 DEF Primed
<1>13. QED
  BY <1>8, <1>9, <1>10, <1>11, <1>12 DEF WatcherInv

LEMMA TabsStep ==
  ASSUME WatcherInv, NEW t \in Tabs, Opens(t) \/ Closes(t)
  PROVE  WatcherInv'
<1>0. TabSets
  BY DEF WatcherInv, WatcherTypes
<1>1. CASE Opens(t)
  <2>1. /\ browser = "running" /\ t \notin used /\ used' = used \cup {t}
        /\ ChangeTabs(tabs \cup {t})
    BY <1>1 DEF Opens
  <2>2. QED
    BY <2>1, <1>0, ChangeStep DEF TabSets
<1>2. CASE Closes(t)
  <2>1. t \in tabs /\ used' = used /\ ChangeTabs(tabs \ {t})
    BY <1>2 DEF Closes
  <2>2. browser = "running"
    BY <2>1 DEF WatcherInv, Closed
  <2>3. QED
    BY <2>1, <2>2, <1>0, ChangeStep DEF TabSets
<1>3. QED
  BY <1>1, <1>2

LEMMA BeginStep ==
  ASSUME WatcherInv,
         \/ Starts
         \/ /\ loop = "off" /\ loop' = "watching"
            /\ UNCHANGED <<launching, firefoxVars, clientVars>>
  PROVE  WatcherInv'
<1>0. WatcherTypes /\ Phases /\ TabSets
  BY DEF WatcherInv, WatcherTypes
<1>1. CASE Starts
  <2>0. /\ browser # "running" /\ browser' = "running" /\ starts < MaxStarts /\ starts' = starts + 1
        /\ UNCHANGED <<tabs, used, armed, configured, request, toWatcher, loop, launching, client,
                       dirty, work, todo, primed, startupRetry, shown>>
    BY <1>1 DEF Starts, loopVars, clientVars
  <2>1. starts' \in 0..MaxStarts
    BY <2>0, <1>0, WatcherAssumption DEF Phases
  <2>2. WatcherTypes'
    BY <2>0, <2>1, <1>0 DEF WatcherTypes, Phases, TabSets
  <2>3. Closed' /\ OneRequest'
    BY <2>0 DEF WatcherInv, Closed, OneRequest, Answer, Sent
  <2>4. Followed' /\ Primed'
    BY <2>0 DEF WatcherInv, Followed, Primed, Sent, ChangeAfter
  <2>5. QED
    BY <2>2, <2>3, <2>4 DEF WatcherInv
<1>2. CASE /\ loop = "off" /\ loop' = "watching"
           /\ UNCHANGED <<launching, firefoxVars, clientVars>>
  <2>0. UNCHANGED <<browser, starts, tabs, used, armed, configured, request, toWatcher, client,
                    launching, dirty, work, todo, primed, startupRetry, shown>>
    BY <1>2 DEF firefoxVars, clientVars
  <2>1. WatcherTypes'
    BY <2>0, <1>0, <1>2 DEF WatcherTypes, Phases, TabSets
  <2>2. Closed' /\ OneRequest'
    BY <2>0, <1>2 DEF WatcherInv, Closed, OneRequest, Answer, Sent
  <2>3. Followed' /\ Primed'
    BY <2>0 DEF WatcherInv, Followed, Primed, Sent, ChangeAfter
  <2>4. QED
    BY <2>1, <2>2, <2>3 DEF WatcherInv
<1>3. QED
  BY <1>1, <1>2

LEMMA WatcherUnmoved ==
  ASSUME WatcherInv, UNCHANGED watcherVars
  PROVE  WatcherInv'
<1>0. UNCHANGED <<browser, starts, tabs, used, armed, configured, request, toWatcher, loop,
                  client, launching, dirty, work, todo, primed, startupRetry, shown>>
  BY DEF watcherVars, firefoxVars, loopVars, clientVars
<1>1. WatcherTypes'
  BY <1>0 DEF WatcherInv, WatcherTypes, Phases, TabSets
<1>2. Closed' /\ OneRequest'
  BY <1>0 DEF WatcherInv, Closed, OneRequest, Answer, Sent
<1>3. Followed' /\ Primed'
  BY <1>0 DEF WatcherInv, Followed, Primed, Sent, ChangeAfter
<1>4. QED
  BY <1>1, <1>2, <1>3 DEF WatcherInv

\* The steps of the watcher, of its Firefox, and of the session that starts and ends both.
WatcherMove ==
  \/ WatcherStep \/ FirefoxStep \/ Starts \/ WatcherAborts
  \/ loop = "off" /\ loop' = "watching" /\ UNCHANGED <<launching, firefoxVars, clientVars>>
  \/ UNCHANGED watcherVars

LEMMA WatcherInvariant ==
  ASSUME WatcherInv, WatcherMove
  PROVE  WatcherInv'
<1>1. CASE WatcherStep
  BY <1>1, HearTabsStep, HearPrimedStep, HearChangeStep, StartupRetryStep, CompatibleStep,
     ConnectionStep DEF WatcherStep
<1>2. CASE FirefoxStep
  BY <1>2, ListsStep, ConfiguresStep, TabsStep, ConnectionStep DEF FirefoxStep
<1>3. CASE UNCHANGED watcherVars
  BY <1>3, WatcherUnmoved
<1>4. CASE \/ Starts
           \/ loop = "off" /\ loop' = "watching" /\ UNCHANGED <<launching, firefoxVars, clientVars>>
  BY <1>4, BeginStep
<1>5. CASE WatcherAborts
  BY <1>5, ConnectionStep
<1>6. QED
  BY <1>1, <1>2, <1>3, <1>4, <1>5 DEF WatcherMove

LEMMA WatcherInitially == WatcherInit => WatcherInv
<1> SUFFICES ASSUME WatcherInit PROVE WatcherInv
  OBVIOUS
<1>1. WatcherTypes
  <2>1. 0 \in 0..MaxStarts
    BY WatcherAssumption
  <2>2. Phases
    BY <2>1 DEF WatcherInit, Phases
  <2>3. TabSets
    BY DEF WatcherInit, TabSets
  <2>4. toWatcher \in Seq(Packets)
    BY DEF WatcherInit
  <2>5. QED
    BY <2>2, <2>3, <2>4 DEF WatcherTypes
<1>2. Closed /\ OneRequest
  BY DEF WatcherInit, Closed, OneRequest
<1>3. Followed /\ Primed
  BY DEF WatcherInit, Followed, Primed
<1>4. QED
  BY <1>1, <1>2, <1>3 DEF WatcherInv

LEMMA QuietMeansCurrent == WatcherInv => TabsAreCurrent
<1> SUFFICES ASSUME WatcherInv, WatcherQuiet
             PROVE  shown = tabs /\ tabs \subseteq configured
  BY DEF TabsAreCurrent
<1>1. client = "open" /\ work = Idle /\ toWatcher = <<>> /\ ~dirty /\ todo = {}
  BY DEF WatcherQuiet, WatcherInv, OneRequest
<1>2. work # Listing /\ work \notin tabs
  BY <1>1, Names DEF WatcherInv, WatcherTypes, TabSets
<1>3. ~ChangeAfter(0)
  BY <1>1 DEF ChangeAfter
<1>4. shown = tabs
  BY <1>1, <1>2, <1>3 DEF WatcherInv, Followed
<1>5. tabs \subseteq configured
  BY <1>1, <1>2, <1>4 DEF WatcherInv, Primed
<1>6. QED
  BY <1>4, <1>5

-----------------------------------------------------------------------------
(* The invariant of the platform's servers *)

Jobs == {"none", "spawning", "wrapping", "rollback", "returned", "rejected"}
Leases == {"none", "acquiring", "live", "ending", "gone", "leaked"}

ServerTypes ==
  /\ lease \in [Launches -> Leases] /\ held \in [Launches -> SUBSET Resources]
  /\ told \in [Launches -> BOOLEAN] /\ open \in BOOLEAN
  /\ job \in [Launches -> Jobs] /\ tabOf \in [Launches -> Tabs \cup {NoTab}]
  /\ serverByTab \in [Tabs -> Launches \cup {NoServer}]
  /\ byPid \subseteq Launches /\ known \subseteq Launches
  /\ handler \in [Clients -> Launches \cup {NoServer}]

\* The server that is, or may become, its tab's: its launch has not rejected, and nobody has
\* killed it.
Owns(p) == job[p] \in {"spawning", "wrapping", "rollback"} \/ p \in byPid

\* #serverByTab names the owner of each tab, and nobody else.
Ownership ==
  /\ \A p \in Launches : Owns(p) /\ tabOf[p] # NoTab => serverByTab[tabOf[p]] = p
  /\ \A t \in Tabs, p \in Launches : serverByTab[t] = p => tabOf[p] = t /\ Owns(p)

\* How far the launch is, and what its owner makes of it.
Progress ==
  /\ \A p \in byPid : job[p] = "returned" /\ tabOf[p] # NoTab /\ (lease[p] = "live" \/ ~open)
  /\ \A p \in known : job[p] = "returned"
  /\ \A p \in Launches :
       /\ lease[p] = "acquiring" => job[p] = "spawning"
       /\ lease[p] = "live" => job[p] \in {"wrapping", "returned"}
       /\ lease[p] = "live" /\ job[p] = "returned" /\ tabOf[p] # NoTab => p \in byPid
       /\ lease[p] = "none" => job[p] = "none"

\* A launch that is over holds nothing, and after shutdown none is under way.
Leasing ==
  /\ \A p \in Launches : lease[p] \in {"none", "gone"} => held[p] = {}
  /\ ~open => \A p \in Launches : lease[p] \notin {"acquiring", "live"}

ServerInv == ServerTypes /\ Ownership /\ Progress /\ Leasing

\* The launches a step does not touch.
Untouched(p) ==
  \A q \in Launches \ {p} :
    /\ job'[q] = job[q] /\ tabOf'[q] = tabOf[q] /\ lease'[q] = lease[q] /\ held'[q] = held[q]
    /\ q \in byPid' <=> q \in byPid

-----------------------------------------------------------------------------
(* Each step of the servers keeps it *)

LEMMA NewServerStep ==
  ASSUME ServerInv, NEW c \in Clients, NEW t \in Tabs \cup {NoTab}, NEW p \in Launches,
         t # NoTab => serverByTab[t] = NoServer, NewServer(c, t, p)
  PROVE  ServerInv'
<1>0. /\ open /\ lease[p] = "none"
      /\ lease' = [lease EXCEPT ![p] = "acquiring"] /\ UNCHANGED <<held, told, open>>
      /\ job' = [job EXCEPT ![p] = "spawning"] /\ tabOf' = [tabOf EXCEPT ![p] = t]
      /\ serverByTab' = IF t = NoTab THEN serverByTab ELSE [serverByTab EXCEPT ![t] = p]
      /\ handler' = [handler EXCEPT ![c] = p] /\ UNCHANGED <<byPid, known>>
  BY DEF NewServer, Begin, Record
<1>1. job[p] = "none" /\ p \notin byPid /\ p \notin known /\ ~Owns(p)
  BY <1>0 DEF ServerInv, Progress, Owns
<1>2. ServerTypes'
  BY <1>0 DEF ServerInv, ServerTypes, Leases, Jobs
<1>3. Untouched(p) /\ job'[p] = "spawning" /\ tabOf'[p] = t /\ lease'[p] = "acquiring"
  BY <1>0 DEF ServerInv, ServerTypes, Untouched
<1>4. Ownership'
  <2>1. ASSUME NEW q \in Launches, Owns(q)', tabOf'[q] # NoTab
        PROVE  serverByTab'[tabOf'[q]] = q
    <3>1. CASE q = p
      BY <3>1, <2>1, <1>0, <1>3 DEF ServerInv, ServerTypes
    <3>2. CASE q # p
      <4>1. Owns(q) /\ tabOf'[q] = tabOf[q]
        BY <3>2, <2>1, <1>3 DEF Owns, Untouched
      <4>2. serverByTab[tabOf[q]] = q
        BY <4>1, <2>1 DEF ServerInv, Ownership
      <4>3. tabOf[q] # t
        BY <4>1, <4>2, <2>1, PlatformAssumption
      <4>4. QED
        BY <4>1, <4>2, <4>3, <1>0 DEF ServerInv, ServerTypes
    <3>3. QED
      BY <3>1, <3>2
  <2>2. ASSUME NEW u \in Tabs, NEW q \in Launches, serverByTab'[u] = q
        PROVE  tabOf'[q] = u /\ Owns(q)'
    <3>1. CASE u = t
      <4>1. q = p
        BY <3>1, <2>2, <1>0, WatcherAssumption DEF ServerInv, ServerTypes
      <4>2. QED
        BY <3>1, <4>1, <1>3 DEF Owns
    <3>2. CASE u # t
      <4>1. serverByTab[u] = q
        BY <3>2, <2>2, <1>0 DEF ServerInv, ServerTypes
      <4>2. tabOf[q] = u /\ Owns(q)
        BY <4>1 DEF ServerInv, Ownership
      <4>3. q # p
        BY <4>2, <1>1
      <4>4. QED
        BY <4>2, <4>3, <1>3 DEF Owns, Untouched
    <3>3. QED
      BY <3>1, <3>2
  <2>3. QED
    BY <2>1, <2>2 DEF Ownership
<1>5. Progress'
  BY <1>0, <1>1, <1>3 DEF ServerInv, Progress, Untouched
<1>6. Leasing'
  BY <1>0, <1>3 DEF ServerInv, Leasing, Untouched
<1>7. QED
  BY <1>2, <1>4, <1>5, <1>6 DEF ServerInv

\* A step that leaves who owns what, and what the owner has made of a launch, as it was.
LEMMA OwnershipKept ==
  ASSUME ServerInv, UNCHANGED <<tabOf, serverByTab>>, \A p \in Launches : Owns(p)' <=> Owns(p)
  PROVE  Ownership'
<1>1. ASSUME NEW p \in Launches, Owns(p)', tabOf'[p] # NoTab
      PROVE  serverByTab'[tabOf'[p]] = p
  BY <1>1 DEF ServerInv, Ownership
<1>2. ASSUME NEW t \in Tabs, NEW p \in Launches, serverByTab'[t] = p
      PROVE  tabOf'[p] = t /\ Owns(p)'
  BY <1>2 DEF ServerInv, Ownership
<1>3. QED
  BY <1>1, <1>2 DEF Ownership

\* The tab of p is left without a server, p having been the one if there was any.
LEMMA OwnershipEnds ==
  ASSUME ServerInv, NEW p \in Launches, Owns(p), ~Owns(p)',
         tabOf' = tabOf, Record(tabOf[p], NoServer),
         \A q \in Launches \ {p} : Owns(q)' <=> Owns(q)
  PROVE  Ownership'
<1>0. /\ serverByTab' = IF tabOf[p] = NoTab THEN serverByTab
                        ELSE [serverByTab EXCEPT ![tabOf[p]] = NoServer]
      /\ tabOf \in [Launches -> Tabs \cup {NoTab}]
      /\ serverByTab \in [Tabs -> Launches \cup {NoServer}]
  BY DEF Record, ServerInv, ServerTypes
<1>1. ASSUME NEW q \in Launches, Owns(q)', tabOf'[q] # NoTab
      PROVE  serverByTab'[tabOf'[q]] = q
  <2>1. q # p /\ Owns(q)
    BY <1>1
  <2>2. serverByTab[tabOf[q]] = q
    BY <2>1, <1>1 DEF ServerInv, Ownership
  <2>3. tabOf[p] # NoTab => serverByTab[tabOf[p]] = p
    BY DEF ServerInv, Ownership
  <2>4. tabOf[q] # tabOf[p]
    BY <2>1, <2>2, <2>3, <1>1
  <2>5. QED
    BY <2>2, <2>4, <1>0, <1>1
<1>2. ASSUME NEW t \in Tabs, NEW q \in Launches, serverByTab'[t] = q
      PROVE  tabOf'[q] = t /\ Owns(q)'
  <2>1. serverByTab[t] = q /\ t # tabOf[p]
    BY <1>0, <1>2, PlatformAssumption, WatcherAssumption
  <2>2. tabOf[q] = t /\ Owns(q)
    BY <2>1 DEF ServerInv, Ownership
  <2>3. q # p
    BY <2>1, <2>2
  <2>4. QED
    BY <2>2, <2>3
<1>3. QED
  BY <1>1, <1>2 DEF Ownership

\* Handlers are told of p, or go on waiting.
LEMMA AnsweredTypes ==
  ASSUME ServerInv, NEW p, Answered(p)
  PROVE  handler' \in [Clients -> Launches \cup {NoServer}]
  BY DEF ServerInv, ServerTypes, Answered

\* What is left to show of a step that touches one launch only.
LEMMA OneLaunch ==
  ASSUME ServerInv, ServerTypes', NEW p \in Launches, Untouched(p), open' = open,
         p \in byPid' => job'[p] = "returned" /\ tabOf'[p] # NoTab /\ (lease'[p] = "live" \/ ~open),
         known' \subseteq known \cup {p}, p \in known' => job'[p] = "returned",
         lease'[p] = "acquiring" => job'[p] = "spawning",
         lease'[p] = "live" => job'[p] \in {"wrapping", "returned"},
         lease'[p] = "live" /\ job'[p] = "returned" /\ tabOf'[p] # NoTab => p \in byPid',
         lease'[p] = "none" => job'[p] = "none",
         lease'[p] \in {"none", "gone"} => held'[p] = {},
         ~open => lease'[p] \notin {"acquiring", "live"}
  PROVE  Progress' /\ Leasing'
<1>1. ASSUME NEW q \in Launches, q # p
      PROVE  /\ job'[q] = job[q] /\ tabOf'[q] = tabOf[q] /\ lease'[q] = lease[q]
             /\ held'[q] = held[q] /\ (q \in byPid' <=> q \in byPid)
             /\ q \in known' => q \in known
  BY <1>1 DEF Untouched
<1>2. byPid \subseteq Launches /\ byPid' \subseteq Launches /\ known' \subseteq Launches
  BY DEF ServerInv, ServerTypes
<1>3. \A q \in byPid' : job'[q] = "returned" /\ tabOf'[q] # NoTab /\ (lease'[q] = "live" \/ ~open')
  BY <1>1, <1>2 DEF ServerInv, Progress
<1>4. \A q \in known' : job'[q] = "returned"
  BY <1>1, <1>2 DEF ServerInv, Progress
<1>5. ASSUME NEW q \in Launches
      PROVE  /\ lease'[q] = "acquiring" => job'[q] = "spawning"
             /\ lease'[q] = "live" => job'[q] \in {"wrapping", "returned"}
             /\ lease'[q] = "live" /\ job'[q] = "returned" /\ tabOf'[q] # NoTab => q \in byPid'
             /\ lease'[q] = "none" => job'[q] = "none"
  BY <1>1 DEF ServerInv, Progress
<1>6. Leasing'
  BY <1>1 DEF ServerInv, Leasing
<1>7. QED
  BY <1>3, <1>4, <1>5, <1>6 DEF Progress

LEMMA ServerPublishedStep ==
  ASSUME ServerInv, NEW p \in Launches, ServerPublished(p)
  PROVE  ServerInv'
<1>0. /\ open /\ lease[p] = "acquiring"
      /\ lease' = [lease EXCEPT ![p] = "live"] /\ told' = [told EXCEPT ![p] = TRUE]
      /\ job' = [job EXCEPT ![p] = "wrapping"]
      /\ UNCHANGED <<held, open, handler, tabOf, serverByTab, byPid, known>>
  BY DEF ServerPublished, Publish
<1>1. job[p] = "spawning" /\ p \notin byPid /\ p \notin known
  BY <1>0 DEF ServerInv, Progress
<1>2. ServerTypes'
  BY <1>0 DEF ServerInv, ServerTypes, Leases, Jobs
<1>3. Untouched(p) /\ job'[p] = "wrapping" /\ lease'[p] = "live" /\ tabOf'[p] = tabOf[p]
  BY <1>0 DEF ServerInv, ServerTypes, Untouched
<1>4. \A q \in Launches : Owns(q)' <=> Owns(q)
  BY <1>0, <1>1, <1>3 DEF Owns, Untouched
<1>5. Ownership'
  BY <1>0, <1>4, OwnershipKept
<1>6. Progress' /\ Leasing'
  BY <1>0, <1>1, <1>2, <1>3, OneLaunch
<1>7. QED
  BY <1>2, <1>5, <1>6 DEF ServerInv

LEMMA WrappedStep ==
  ASSUME ServerInv, NEW p \in Launches, Wrapped(p)
  PROVE  ServerInv'
<1>0. job[p] = "wrapping" /\ UNCHANGED <<lease, held, told, open, tabOf>>
  BY DEF Wrapped, leaseVars
<1>1. p \notin byPid /\ p \notin known /\ lease[p] \notin {"none", "acquiring"} /\ Owns(p)
  BY <1>0 DEF ServerInv, Progress, Owns
<1>2. /\ lease[p] \in {"none", "gone"} => held[p] = {}
      /\ ~open => lease[p] \notin {"acquiring", "live"}
  BY DEF ServerInv, Leasing
<1>3. CASE lease[p] = "live"
  <2>0. /\ job' = [job EXCEPT ![p] = "returned"] /\ UNCHANGED serverByTab /\ Answered(p)
        /\ byPid' = IF tabOf[p] = NoTab THEN byPid ELSE byPid \cup {p}
        /\ known' \in {known, known \cup {p}}
    BY <1>3 DEF Wrapped
  <2>1. ServerTypes'
    BY <1>0, <2>0, AnsweredTypes DEF ServerInv, ServerTypes, Jobs
  <2>2. Untouched(p) /\ job'[p] = "returned"
    BY <1>0, <2>0 DEF ServerInv, ServerTypes, Untouched
  <2>3. \A q \in Launches \ {p} : Owns(q)' <=> Owns(q)
    BY <2>2 DEF Owns, Untouched
  <2>4. Ownership'
    <3>1. CASE tabOf[p] = NoTab
      <4>1. Record(tabOf[p], NoServer) /\ ~Owns(p)'
        BY <3>1, <2>0, <2>2, <1>1 DEF Record, Owns
      <4>2. QED
        BY <4>1, <2>3, <1>0, <1>1, OwnershipEnds
    <3>2. CASE tabOf[p] # NoTab
      <4>1. Owns(p)'
        BY <3>2, <2>0 DEF Owns
      <4>2. QED
        BY <4>1, <2>0, <2>3, <1>0, <1>1, OwnershipKept
    <3>3. QED
      BY <3>1, <3>2
  <2>5. Progress' /\ Leasing'
    BY <1>0, <1>1, <1>2, <1>3, <2>0, <2>1, <2>2, OneLaunch
  <2>6. QED
    BY <2>1, <2>4, <2>5 DEF ServerInv
<1>4. CASE lease[p] = "ending"
  <2>0. /\ job' = [job EXCEPT ![p] = "rollback"]
        /\ UNCHANGED <<handler, serverByTab, byPid, known>>
    BY <1>4 DEF Wrapped
  <2>1. ServerTypes'
    BY <1>0, <2>0 DEF ServerInv, ServerTypes, Jobs
  <2>2. Untouched(p) /\ job'[p] = "rollback"
    BY <1>0, <2>0 DEF ServerInv, ServerTypes, Untouched
  <2>3. \A q \in Launches : Owns(q)' <=> Owns(q)
    BY <2>2, <1>0 DEF Owns, Untouched
  <2>4. Ownership'
    BY <1>0, <2>0, <2>3, OwnershipKept
  <2>5. Progress' /\ Leasing'
    BY <1>0, <1>1, <1>2, <1>4, <2>0, <2>1, <2>2, OneLaunch
  <2>6. QED
    BY <2>1, <2>4, <2>5 DEF ServerInv
<1>5. CASE lease[p] \notin {"live", "ending"}
  <2>0. Rejected(p) /\ UNCHANGED <<byPid, known>>
    BY <1>5 DEF Wrapped
  <2>1. /\ job' = [job EXCEPT ![p] = "rejected"] /\ Record(tabOf[p], NoServer)
        /\ handler' \in [Clients -> Launches \cup {NoServer}]
    BY <2>0, AnsweredTypes DEF Rejected
  <2>2. ServerTypes'
    BY <1>0, <2>0, <2>1 DEF ServerInv, ServerTypes, Jobs, Record
  <2>3. Untouched(p) /\ job'[p] = "rejected"
    BY <1>0, <2>0, <2>1 DEF ServerInv, ServerTypes, Untouched
  <2>4. /\ ~Owns(p)'
        /\ \A q \in Launches \ {p} : Owns(q)' <=> Owns(q)
    BY <2>0, <2>3, <1>1 DEF Owns, Untouched
  <2>5. Ownership'
    BY <1>0, <1>1, <2>1, <2>4, OwnershipEnds
  <2>6. Progress' /\ Leasing'
    BY <1>0, <1>1, <1>2, <1>5, <2>0, <2>2, <2>3, OneLaunch
  <2>7. QED
    BY <2>2, <2>5, <2>6 DEF ServerInv
<1>6. QED
  BY <1>3, <1>4, <1>5

\* What the end of a lease is to the books.
LEMMA EndIs ==
  ASSUME ServerInv, NEW p \in Launches, End(p)
  PROVE  /\ lease[p] \in {"acquiring", "live"} /\ lease' = [lease EXCEPT ![p] = "ending"]
         /\ held' \in [Launches -> SUBSET Resources]
         /\ \A q \in Launches \ {p} : held'[q] = held[q]
         /\ UNCHANGED <<told, open>>
<1>1. PICK kept \in SUBSET held[p] : held' = [held EXCEPT ![p] = kept]
  BY DEF End
<1>2. held \in [Launches -> SUBSET Resources]
  BY DEF ServerInv, ServerTypes
<1>3. QED
  BY <1>1, <1>2 DEF End

LEMMA LaunchFailsStep ==
  ASSUME ServerInv, NEW p \in Launches, LaunchFails(p)
  PROVE  ServerInv'
<1>0. /\ lease[p] = "acquiring" /\ End(p)
      /\ UNCHANGED <<handler, job, tabOf, serverByTab, byPid, known>>
  BY DEF LaunchFails, serverVars
<1>1. /\ lease' = [lease EXCEPT ![p] = "ending"] /\ held' \in [Launches -> SUBSET Resources]
      /\ \A q \in Launches \ {p} : held'[q] = held[q]
      /\ UNCHANGED <<told, open>>
  BY <1>0, EndIs
<1>2. job[p] = "spawning" /\ p \notin byPid /\ p \notin known
  BY <1>0 DEF ServerInv, Progress
<1>3. ServerTypes'
  BY <1>0, <1>1 DEF ServerInv, ServerTypes, Leases
<1>4. Untouched(p) /\ lease'[p] = "ending"
  BY <1>0, <1>1 DEF ServerInv, ServerTypes, Untouched
<1>5. Ownership'
  BY <1>0, OwnershipKept DEF Owns
<1>6. Progress' /\ Leasing'
  BY <1>0, <1>1, <1>2, <1>3, <1>4, OneLaunch
<1>7. QED
  BY <1>3, <1>5, <1>6 DEF ServerInv

\* StopServer ends a lease that runs and leaves every other alone.
LEMMA StopServerIs ==
  ASSUME ServerInv, NEW p \in Launches, StopServer(p)
  PROVE  /\ lease' \in [Launches -> Leases] /\ held' \in [Launches -> SUBSET Resources]
         /\ lease'[p] = IF lease[p] = "live" THEN "ending" ELSE lease[p]
         /\ lease[p] # "live" => held'[p] = held[p]
         /\ \A q \in Launches \ {p} : lease'[q] = lease[q] /\ held'[q] = held[q]
         /\ UNCHANGED <<told, open>>
<1>1. lease \in [Launches -> Leases] /\ held \in [Launches -> SUBSET Resources]
  BY DEF ServerInv, ServerTypes
<1>2. CASE lease[p] = "live"
  BY <1>1, <1>2, EndIs DEF StopServer, Leases
<1>3. CASE lease[p] # "live"
  BY <1>1, <1>3 DEF StopServer, leaseVars
<1>4. QED
  BY <1>2, <1>3

LEMMA WrapFailsStep ==
  ASSUME ServerInv, NEW p \in Launches, WrapFails(p)
  PROVE  ServerInv'
<1>0. /\ job[p] = "wrapping" /\ lease[p] \in {"live", "ending"} /\ StopServer(p)
      /\ job' = [job EXCEPT ![p] = "rollback"]
      /\ UNCHANGED <<handler, tabOf, serverByTab, byPid, known>>
  BY DEF WrapFails
<1>1. /\ lease' \in [Launches -> Leases] /\ held' \in [Launches -> SUBSET Resources]
      /\ lease'[p] = "ending"
      /\ \A q \in Launches \ {p} : lease'[q] = lease[q] /\ held'[q] = held[q]
      /\ UNCHANGED <<told, open>>
  BY <1>0, StopServerIs
<1>2. p \notin byPid /\ p \notin known
  BY <1>0 DEF ServerInv, Progress
<1>3. ServerTypes'
  BY <1>0, <1>1 DEF ServerInv, ServerTypes, Jobs
<1>4. Untouched(p) /\ job'[p] = "rollback"
  BY <1>0, <1>1 DEF ServerInv, ServerTypes, Untouched
<1>5. \A q \in Launches : Owns(q)' <=> Owns(q)
  BY <1>0, <1>4 DEF Owns, Untouched
<1>6. Ownership'
  BY <1>0, <1>5, OwnershipKept
<1>7. Progress' /\ Leasing'
  BY <1>0, <1>1, <1>2, <1>3, <1>4, OneLaunch
<1>8. QED
  BY <1>3, <1>6, <1>7 DEF ServerInv

LEMMA ServerEndsStep ==
  ASSUME ServerInv, NEW p \in Launches, ServerEnds(p)
  PROVE  ServerInv'
<1>0. /\ lease[p] \in {"acquiring", "ending"} /\ UNCHANGED <<held, told, open, tabOf, byPid, known>>
      /\ \/ lease' = [lease EXCEPT ![p] = "gone"] /\ held[p] = {}
         \/ lease' = [lease EXCEPT ![p] = "leaked"]
  BY DEF ServerEnds, Forget, Leak
<1>1. /\ lease' \in [Launches -> Leases] /\ lease'[p] \in {"gone", "leaked"}
      /\ \A q \in Launches \ {p} : lease'[q] = lease[q]
      /\ lease'[p] \in {"none", "gone"} => held'[p] = {}
  BY <1>0 DEF ServerInv, ServerTypes, Leases
<1>2. /\ p \in byPid => job[p] = "returned" /\ tabOf[p] # NoTab /\ ~open
      /\ p \in known => job[p] = "returned"
  BY <1>0 DEF ServerInv, Progress
<1>3. CASE job[p] \in {"spawning", "rollback"}
  <2>1. /\ job' = [job EXCEPT ![p] = "rejected"] /\ Record(tabOf[p], NoServer)
        /\ handler' \in [Clients -> Launches \cup {NoServer}]
    BY <1>3, AnsweredTypes DEF ServerEnds, Rejected
  <2>2. ServerTypes'
    BY <1>0, <1>1, <2>1 DEF ServerInv, ServerTypes, Jobs, Record
  <2>3. Untouched(p) /\ job'[p] = "rejected"
    BY <1>0, <1>1, <2>1 DEF ServerInv, ServerTypes, Untouched
  <2>4. /\ Owns(p) /\ ~Owns(p)'
        /\ \A q \in Launches \ {p} : Owns(q)' <=> Owns(q)
    BY <1>0, <1>2, <1>3, <2>3 DEF Owns, Untouched
  <2>5. Ownership'
    BY <1>0, <2>1, <2>4, OwnershipEnds
  <2>6. Progress' /\ Leasing'
    BY <1>0, <1>1, <1>2, <1>3, <2>2, <2>3, OneLaunch
  <2>7. QED
    BY <2>2, <2>5, <2>6 DEF ServerInv
<1>4. CASE job[p] \notin {"spawning", "rollback"}
  <2>1. /\ job' = job /\ serverByTab' = serverByTab
        /\ handler' \in [Clients -> Launches \cup {NoServer}]
    <3>1. CASE job[p] = "returned"
      BY <3>1, AnsweredTypes DEF ServerEnds
    <3>2. CASE job[p] # "returned"
      BY <1>4, <3>2 DEF ServerEnds, ServerInv, ServerTypes
    <3>3. QED
      BY <3>1, <3>2
  <2>2. ServerTypes'
    BY <1>0, <1>1, <2>1 DEF ServerInv, ServerTypes
  <2>3. Untouched(p)
    BY <1>0, <1>1, <2>1 DEF Untouched
  <2>4. Ownership'
    BY <1>0, <2>1, OwnershipKept DEF Owns
  <2>5. Progress' /\ Leasing'
    BY <1>0, <1>1, <1>2, <2>1, <2>2, <2>3, OneLaunch
  <2>6. QED
    BY <2>2, <2>4, <2>5 DEF ServerInv
<1>5. QED
  BY <1>3, <1>4

LEMMA KillServerStep ==
  ASSUME ServerInv, NEW c \in Clients, NEW p \in Launches, KillServer(c, p)
  PROVE  ServerInv'
<1>0. /\ p \in known /\ StopServer(p) /\ byPid' = byPid \ {p}
      /\ IF p \in byPid THEN Record(tabOf[p], NoServer) ELSE UNCHANGED serverByTab
      /\ handler' = [handler EXCEPT ![c] = IF lease[p] \in {"live", "ending"} THEN p ELSE NoServer]
      /\ UNCHANGED <<job, tabOf, known>>
  BY DEF KillServer
<1>1. /\ lease' \in [Launches -> Leases] /\ held' \in [Launches -> SUBSET Resources]
      /\ lease'[p] = IF lease[p] = "live" THEN "ending" ELSE lease[p]
      /\ lease[p] # "live" => held'[p] = held[p]
      /\ \A q \in Launches \ {p} : lease'[q] = lease[q] /\ held'[q] = held[q]
      /\ UNCHANGED <<told, open>>
  BY <1>0, StopServerIs
<1>2. /\ job[p] = "returned" /\ lease[p] \notin {"none", "acquiring"}
      /\ lease[p] \in {"none", "gone"} => held[p] = {}
  BY <1>0 DEF ServerInv, Progress, Leasing
<1>3. ServerTypes'
  <2>1. handler' \in [Clients -> Launches \cup {NoServer}]
    BY <1>0 DEF ServerInv, ServerTypes
  <2>2. serverByTab' \in [Tabs -> Launches \cup {NoServer}]
    BY <1>0 DEF ServerInv, ServerTypes, Record
  <2>3. QED
    BY <2>1, <2>2, <1>0, <1>1 DEF ServerInv, ServerTypes
<1>4. Untouched(p) /\ p \notin byPid' /\ job'[p] = "returned" /\ lease'[p] # "live"
  BY <1>0, <1>1, <1>2 DEF Untouched
<1>5. ~Owns(p)' /\ \A q \in Launches \ {p} : Owns(q)' <=> Owns(q)
  BY <1>4 DEF Owns, Untouched
<1>6. Ownership'
  <2>1. CASE p \in byPid
    BY <2>1, <1>0, <1>5, OwnershipEnds DEF Owns
  <2>2. CASE p \notin byPid
    <3>1. ~Owns(p)
      BY <2>2, <1>2 DEF Owns
    <3>2. QED
      BY <2>2, <3>1, <1>0, <1>5, OwnershipKept
  <2>3. QED
    BY <2>1, <2>2
<1>7. Progress' /\ Leasing'
  BY <1>0, <1>1, <1>2, <1>3, <1>4, OneLaunch
<1>8. QED
  BY <1>3, <1>6, <1>7 DEF ServerInv

LEMMA ServersUnmoved ==
  ASSUME ServerInv, UNCHANGED <<leaseVars, job, tabOf, serverByTab, byPid>>,
         handler' \in [Clients -> Launches \cup {NoServer}],
         known' \subseteq Launches, \A p \in known' : job[p] = "returned"
  PROVE  ServerInv'
<1>0. UNCHANGED <<lease, held, told, open, job, tabOf, serverByTab, byPid>>
  BY DEF leaseVars
<1>1. ServerTypes'
  BY <1>0 DEF ServerInv, ServerTypes
<1>2. Ownership'
  BY <1>0, OwnershipKept DEF Owns
<1>3. Progress' /\ Leasing'
  BY <1>0 DEF ServerInv, Progress, Leasing
<1>4. QED
  BY <1>1, <1>2, <1>3 DEF ServerInv

LEMMA LaunchForUrlStep ==
  ASSUME ServerInv, NEW c \in Clients, LaunchForUrl(c)
  PROVE  ServerInv'
  BY NewServerStep DEF LaunchForUrl

LEMMA LaunchForTabStep ==
  ASSUME ServerInv, NEW c \in Clients, NEW t \in Tabs, LaunchForTab(c, t)
  PROVE  ServerInv'
<1>1. CASE serverByTab[t] = NoServer
  BY <1>1, NewServerStep DEF LaunchForTab
<1>2. CASE serverByTab[t] # NoServer
  <2>1. PICK p : p = serverByTab[t]
    OBVIOUS
  <2>2. p \in Launches
    BY <1>2, <2>1 DEF ServerInv, ServerTypes
  <2>3. SharedServer(c, p)
    BY <1>2, <2>1 DEF LaunchForTab
  <2>4. /\ UNCHANGED <<leaseVars, job, tabOf, serverByTab, byPid>>
        /\ handler' \in {handler, [handler EXCEPT ![c] = p]}
        /\ \/ known' = known
           \/ job[p] = "returned" /\ known' = known \cup {p}
    BY <2>3 DEF SharedServer
  <2>5. handler' \in [Clients -> Launches \cup {NoServer}]
    BY <2>2, <2>4 DEF ServerInv, ServerTypes
  <2>6. known' \subseteq Launches /\ \A q \in known' : job[q] = "returned"
    BY <2>2, <2>4 DEF ServerInv, ServerTypes, Progress
  <2>7. QED
    BY <2>4, <2>5, <2>6, ServersUnmoved
<1>3. QED
  BY <1>1, <1>2

\* killAll.
LEMMA ShutdownStep ==
  ASSUME ServerInv, Shutdown, UNCHANGED serverVars
  PROVE  ServerInv' /\ ~open'
<1>0. /\ open' = FALSE
      /\ lease' = [p \in Launches |-> IF lease[p] \in {"acquiring", "live"} THEN "ending" ELSE lease[p]]
      /\ held' \in [Launches -> SUBSET Resources] /\ \A p \in Launches : held'[p] \subseteq held[p]
      /\ UNCHANGED <<told, handler, job, tabOf, serverByTab, byPid, known>>
  BY DEF Shutdown, serverVars
<1>1. \A p \in Launches : /\ lease'[p] \notin {"acquiring", "live"}
                          /\ lease'[p] \in {"none", "gone"} => lease'[p] = lease[p]
  BY <1>0
<1>2. ServerTypes'
  <2>1. lease' \in [Launches -> Leases]
    BY <1>0 DEF ServerInv, ServerTypes, Leases
  <2>2. QED
    BY <1>0, <2>1 DEF ServerInv, ServerTypes
<1>3. Ownership'
  BY <1>0, OwnershipKept DEF Owns
<1>4. Progress' /\ Leasing'
  <2>1. Progress'
    BY <1>0, <1>1 DEF ServerInv, Progress
  <2>2. Leasing'
    BY <1>0, <1>1 DEF ServerInv, Leasing
  <2>3. QED
    BY <2>1, <2>2
<1>5. QED
  BY <1>0, <1>2, <1>3, <1>4 DEF ServerInv

-----------------------------------------------------------------------------
(* What each step of the session is to the parts it is made of *)

\* Nothing happens to a server.
ServersRest == UNCHANGED <<leaseVars, serverVars>>

\* The events of the session itself, of its owner and of its browser.
SessionStep ==
  \/ ServersDrain \/ ServersTimeOut \/ ProbeJoined \/ WatcherJoined \/ BrowserCloses
  \/ Bind \/ BrowserStarts \/ Verified \/ StartupFails
  \/ OwnerAborts \/ OwnerShutsDown \/ ProbeEnds \/ WatcherThrows \/ WatcherMoves
  \/ \E p \in Launches : ServerFails(p)
  \/ \E c \in Clients : Accept(c) \/ Leave(c)

ServerStep ==
  \/ \E p \in Launches : ServerPublished(p) \/ Wrapped(p) \/ WrapFails(p) \/ ServerEnds(p)
                           \/ LaunchFails(p)
  \/ \E c \in Clients : \/ LaunchForUrl(c)
                        \/ \E t \in Tabs : LaunchForTab(c, t)
                        \/ \E p \in Launches : KillServer(c, p)

LEMMA Steps == PlatformNext => SessionStep \/ ServerStep \/ ListenerCloses
  BY DEF PlatformNext, SessionStep, ServerStep, Cleanup

LEMMA SessionLeavesServers == SessionStep => ServersRest
<1> SUFFICES ASSUME SessionStep PROVE ServersRest
  OBVIOUS
<1>1. CASE ServersDrain \/ ServersTimeOut \/ ProbeJoined \/ WatcherJoined \/ BrowserCloses
  BY <1>1 DEF ServersDrain, ServersTimeOut, ProbeJoined, WatcherJoined, BrowserCloses, Proceed,
     ServersRest
<1>2. CASE Bind \/ BrowserStarts \/ Verified \/ StartupFails
  BY <1>2 DEF Bind, BrowserStarts, Verified, StartupFails, StartupKeeps, ServersRest
<1>3. CASE \/ OwnerAborts \/ OwnerShutsDown \/ ProbeEnds \/ WatcherThrows \/ WatcherMoves
           \/ \E p \in Launches : ServerFails(p)
           \/ \E c \in Clients : Accept(c) \/ Leave(c)
  BY <1>3 DEF OwnerAborts, OwnerShutsDown, ProbeEnds, WatcherThrows, WatcherMoves, ServerFails,
     Accept, Leave, ServersRest
<1>4. QED
  BY <1>1, <1>2, <1>3 DEF SessionStep

LEMMA ServerStepKeeps == ServerStep => UNCHANGED <<watcherVars, runtimeVars, conn>>
<1> SUFFICES ASSUME ServerStep PROVE UNCHANGED <<watcherVars, runtimeVars, conn>>
  OBVIOUS
<1>1. CASE \E p \in Launches : ServerPublished(p) \/ Wrapped(p) \/ WrapFails(p) \/ ServerEnds(p)
                                 \/ LaunchFails(p)
  BY <1>1 DEF ServerPublished, Wrapped, WrapFails, ServerEnds, LaunchFails, RequestKeeps
<1>2. CASE \E c \in Clients : \/ LaunchForUrl(c)
                              \/ \E t \in Tabs : LaunchForTab(c, t)
                              \/ \E p \in Launches : KillServer(c, p)
  BY <1>2 DEF LaunchForUrl, LaunchForTab, KillServer, RequestKeeps
<1>3. QED
  BY <1>1, <1>2 DEF ServerStep

LEMMA ServerInvariant ==
  ASSUME ServerInv, PlatformNext \/ UNCHANGED platformVars
  PROVE  ServerInv'
<1>1. CASE ServersRest
  <2>1. UNCHANGED <<leaseVars, job, tabOf, serverByTab, byPid>> /\ UNCHANGED <<handler, known>>
    BY <1>1 DEF ServersRest, serverVars
  <2>2. QED
    BY <2>1, ServersUnmoved DEF ServerInv, ServerTypes, Progress
<1>2. CASE ServerStep
  BY <1>2, ServerPublishedStep, WrappedStep, WrapFailsStep, ServerEndsStep, LaunchFailsStep,
     LaunchForUrlStep, LaunchForTabStep, KillServerStep DEF ServerStep
<1>3. CASE ListenerCloses /\ Shutdown
  <2>1. UNCHANGED serverVars
    BY <1>3 DEF ListenerCloses, Proceed
  <2>2. QED
    BY <1>3, <2>1, ShutdownStep
<1>4. ListenerCloses => Shutdown \/ ServersRest
  BY DEF ListenerCloses, Proceed, ServersRest
<1>5. UNCHANGED platformVars => ServersRest
  BY DEF platformVars, ServersRest
<1>6. QED
  BY <1>1, <1>2, <1>3, <1>4, <1>5, Steps, SessionLeavesServers

LEMMA ServersInitially == PlatformInit => ServerInv
<1> SUFFICES ASSUME PlatformInit PROVE ServerInv
  OBVIOUS
<1>0. /\ lease = [p \in Launches |-> "none"] /\ held = [p \in Launches |-> {}]
      /\ told = [p \in Launches |-> FALSE] /\ open = TRUE
      /\ handler = [c \in Clients |-> NoServer] /\ job = [p \in Launches |-> "none"]
      /\ tabOf = [p \in Launches |-> NoTab] /\ serverByTab = [t \in Tabs |-> NoServer]
      /\ byPid = {} /\ known = {}
  BY DEF PlatformInit, LeaseInit
<1>1. ServerTypes
  BY <1>0 DEF ServerTypes, Leases, Jobs
<1>2. Ownership
  BY <1>0, PlatformAssumption DEF Ownership, Owns
<1>3. Progress /\ Leasing
  BY <1>0 DEF Progress, Leasing
<1>4. QED
  BY <1>1, <1>2, <1>3 DEF ServerInv

LEMMA OwnersAreKnown == ServerInv => TabKnowsItsServer
<1> SUFFICES ASSUME ServerInv PROVE TabKnowsItsServer
  OBVIOUS
<1>1. ASSUME NEW p \in Launches, lease[p] = "live", tabOf[p] # NoTab
      PROVE  serverByTab[tabOf[p]] = p
  <2>1. Owns(p)
    BY <1>1 DEF ServerInv, Progress, Owns
  <2>2. QED
    BY <2>1, <1>1 DEF ServerInv, Ownership
<1>2. ASSUME NEW t \in Tabs, NEW p, p = serverByTab[t], p # NoServer, job[p] = "returned"
      PROVE  lease[p] = "live" \/ ~open
  <2>1. p \in Launches
    BY <1>2 DEF ServerInv, ServerTypes
  <2>2. p \in byPid
    BY <2>1, <1>2 DEF ServerInv, Ownership, Owns
  <2>3. QED
    BY <2>2 DEF ServerInv, Progress
<1>3. QED
  BY <1>1, <1>2 DEF TabKnowsItsServer

-----------------------------------------------------------------------------
(* The session takes no step with a server that its owner has not promised *)

LEMMA StopIsALeaseStep ==
  ASSUME NEW p \in Launches, StopServer(p)
  PROVE  LeaseNext \/ UNCHANGED leaseVars
  BY DEF StopServer, LeaseNext

LEMMA LeaseStep ==
  ASSUME PlatformNext \/ UNCHANGED platformVars
  PROVE  LeaseNext \/ UNCHANGED leaseVars
<1>1. CASE SessionStep \/ UNCHANGED platformVars
  BY <1>1, SessionLeavesServers DEF ServersRest, platformVars
<1>2. CASE ListenerCloses
  BY <1>2 DEF ListenerCloses, LeaseNext
<1>3. CASE \E p \in Launches : ServerPublished(p) \/ Wrapped(p) \/ WrapFails(p) \/ ServerEnds(p)
                                 \/ LaunchFails(p)
  <2>1. PICK p \in Launches : \/ ServerPublished(p) \/ Wrapped(p) \/ WrapFails(p) \/ ServerEnds(p)
                              \/ LaunchFails(p)
    BY <1>3
  <2>2. CASE WrapFails(p)
    BY <2>2, StopIsALeaseStep DEF WrapFails
  <2>3. CASE Wrapped(p)
    BY <2>3 DEF Wrapped
  <2>4. CASE ServerPublished(p) \/ ServerEnds(p) \/ LaunchFails(p)
    <3>1. Publish(p) \/ Forget(p) \/ Leak(p) \/ End(p)
      BY <2>4 DEF ServerPublished, ServerEnds, LaunchFails
    <3>2. QED
      BY <3>1 DEF LeaseNext
  <2>5. QED
    BY <2>1, <2>2, <2>3, <2>4
<1>4. CASE \E c \in Clients : \/ LaunchForUrl(c)
                              \/ \E t \in Tabs : LaunchForTab(c, t)
                              \/ \E p \in Launches : KillServer(c, p)
  <2>1. \/ \E c \in Clients, t \in Tabs \cup {NoTab}, p \in Launches : NewServer(c, t, p)
        \/ UNCHANGED leaseVars
        \/ \E p \in Launches : StopServer(p)
    BY <1>4 DEF LaunchForUrl, LaunchForTab, SharedServer, KillServer
  <2>2. ASSUME NEW c \in Clients, NEW t \in Tabs \cup {NoTab}, NEW p \in Launches, NewServer(c, t, p)
        PROVE  LeaseNext
    BY <2>2 DEF NewServer, LeaseNext
  <2>3. QED
    BY <2>1, <2>2, StopIsALeaseStep
<1>5. QED
  BY <1>1, <1>2, <1>3, <1>4, Steps DEF ServerStep

\* After shutdown what is given back stays given back.
LEMMA GoneStaysGone ==
  ASSUME ServerInv, ~open, LeaseNext \/ UNCHANGED leaseVars, NEW p \in Launches,
         lease[p] \in {"none", "gone"}
  PROVE  lease'[p] \in {"none", "gone"} /\ ~open'
<1>0. lease \in [Launches -> Leases]
  BY DEF ServerInv, ServerTypes
<1>1. CASE UNCHANGED leaseVars
  BY <1>1 DEF leaseVars
<1>2. ASSUME NEW q \in Launches,
             \/ Begin(q) \/ Acquire(q) \/ Release(q) \/ Publish(q)
             \/ End(q) \/ Forget(q) \/ Leak(q)
      PROVE  lease'[p] = lease[p] /\ ~open'
  <2>1. CASE Acquire(q) \/ Release(q)
    BY <2>1 DEF Acquire, Release
  <2>2. CASE End(q) \/ Forget(q) \/ Leak(q)
    <3>1. /\ \/ lease[q] \in {"acquiring", "live"} /\ lease' = [lease EXCEPT ![q] = "ending"]
             \/ /\ lease[q] \in {"acquiring", "ending"}
                /\ lease' = [lease EXCEPT ![q] = "gone"] \/ lease' = [lease EXCEPT ![q] = "leaked"]
          /\ open' = open
      BY <2>2 DEF End, Forget, Leak
    <3>2. q # p
      BY <3>1
    <3>3. QED
      BY <3>1, <3>2, <1>0
  <2>3. ~(Begin(q) \/ Publish(q))
    BY DEF Begin, Publish
  <2>4. QED
    BY <1>2, <2>1, <2>2, <2>3
<1>3. ~Shutdown
  BY DEF Shutdown
<1>4. QED
  BY <1>1, <1>2, <1>3 DEF LeaseNext

-----------------------------------------------------------------------------
(* Shutdown and rollback *)

RuntimeTypes ==
  /\ runtime \in {"binding", "browser", "token", "running", "rejected"}
  /\ closing \in {"no", "listener", "servers", "probe", "watcher", "browser", "done"}
  /\ aborted \in BOOLEAN /\ failure \in BOOLEAN /\ errors \in BOOLEAN
  /\ listening \in BOOLEAN /\ probe \in BOOLEAN
  /\ conn \in [Clients -> {"none", "open", "closed"}]

AtRest == loop \in {"off", "ended", "threw"}
ServersReleased == \A p \in Launches : lease[p] \in {"none", "gone"}

\* What each step of the cleanup leaves behind, whatever happens next.
CleanedUp ==
  /\ runtime # "running" => ~probe /\ loop = "off"
  /\ closing # "no" => \A c \in Clients : conn[c] # "open"
  /\ closing \notin {"no", "listener"} => ~listening /\ ~open
  /\ closing \in {"probe", "watcher", "browser", "done"} => errors \/ ServersReleased
  /\ closing \in {"watcher", "browser", "done"} => ~probe
  /\ closing \in {"browser", "done"} => AtRest
  /\ closing = "done" => errors \/ (launching => browser # "running")

SessionInv == RuntimeTypes /\ CleanedUp

\* The safety half of ShutdownReleases: when the cleanup is done, everything is released or
\* an error is reported, and so it stays.
DoneMeansReleased == closing = "done" => errors \/ NothingHeld

\* What a step of the watcher, of Firefox or of a user is to the session.
LEMMA WatcherMovesIs ==
  ASSUME WatcherMoves
  PROVE  /\ AtRest => loop' = loop
         /\ launching' = launching
         /\ launching /\ browser # "running" => browser' # "running"
         /\ UNCHANGED <<leaseVars, runtimeVars, conn>>
<1>0. UNCHANGED <<leaseVars, runtimeVars, conn>>
  BY DEF WatcherMoves
<1>1. CASE WatcherStep
  BY <1>0, <1>1 DEF WatcherStep, HearTabs, HearPrimed, HearChange, StartupRetry, OtherFirefox,
     Connect, Compatible, ConnectionLost, ProtocolFails, Reconnect, Lose, AtRest, loopVars,
     firefoxVars
<1>2. CASE FirefoxStep
  <2>1. CASE Exits
    BY <2>1, <1>0 DEF Exits, Lose, AtRest
  <2>2. CASE Lists \/ Configures \/ \E t \in Tabs : Opens(t) \/ Closes(t)
    BY <2>2, <1>0 DEF Lists, Configures, Opens, Closes, ChangeTabs, loopVars
  <2>3. QED
    BY <1>2, <2>1, <2>2 DEF FirefoxStep
<1>3. CASE UserStarts
  BY <1>3, <1>0 DEF UserStarts, Starts, loopVars
<1>4. QED
  BY <1>1, <1>2, <1>3 DEF WatcherMoves

\* shutdown(), and what it makes of the connections.
LEMMA BeginShutdownIs ==
  ASSUME RuntimeTypes, BeginShutdown
  PROVE  /\ \/ /\ closing = "no" /\ closing' = "listener"
               /\ conn' \in [Clients -> {"none", "open", "closed"}]
               /\ \A c \in Clients : conn'[c] # "open"
            \/ closing # "no" /\ closing' = closing /\ conn' = conn
         /\ AtRest => loop' = loop
         /\ launching' = launching /\ browser' = browser
<1>1. CASE closing = "no"
  <2>1. closing' = "listener" /\ Disconnect /\ (WatcherAborts \/ UNCHANGED watcherVars)
    BY <1>1 DEF BeginShutdown
  <2>2. conn' \in [Clients -> {"none", "open", "closed"}] /\ \A c \in Clients : conn'[c] # "open"
    BY <2>1 DEF Disconnect, RuntimeTypes
  <2>3. (AtRest => loop' = loop) /\ launching' = launching /\ browser' = browser
    BY <2>1 DEF WatcherAborts, watcherVars, loopVars, firefoxVars, AtRest
  <2>4. QED
    BY <1>1, <2>1, <2>2, <2>3
<1>2. CASE closing # "no"
  BY <1>2 DEF BeginShutdown, watcherVars, loopVars, firefoxVars
<1>3. QED
  BY <1>1, <1>2

LEMMA RollbackIs ==
  ASSUME RuntimeTypes, Rollback
  PROVE  /\ closing' = "listener" /\ conn' \in [Clients -> {"none", "open", "closed"}]
         /\ \A c \in Clients : conn'[c] # "open"
  BY DEF Rollback, Disconnect, RuntimeTypes

\* A step that is none of the cleanup's: what has been cleaned up stays so.
LEMMA StaysClean ==
  ASSUME SessionInv, ServerInv, RuntimeTypes', LeaseNext \/ UNCHANGED leaseVars,
         UNCHANGED <<runtime, closing, errors, listening, launching>>,
         probe' => probe, closing # "no" => \A c \in Clients : conn'[c] # "open",
         AtRest => loop' = loop, launching /\ browser # "running" => browser' # "running"
  PROVE  SessionInv'
<1>1. ~open /\ ServersReleased => ServersReleased'
  BY GoneStaysGone DEF ServersReleased
<1>2. ~open => ~open'
  BY DEF LeaseNext, Begin, Acquire, Release, Publish, End, Forget, Leak, Shutdown, leaseVars
<1>3. CleanedUp'
  <2>1. /\ runtime' # "running" => ~probe' /\ loop' = "off"
        /\ closing' # "no" => \A c \in Clients : conn'[c] # "open"
    BY DEF SessionInv, CleanedUp, AtRest
  <2>2. closing' \notin {"no", "listener"} => ~listening' /\ ~open'
    BY <1>2 DEF SessionInv, CleanedUp
  <2>3. closing' \in {"probe", "watcher", "browser", "done"} => errors' \/ ServersReleased'
    BY <1>1 DEF SessionInv, CleanedUp
  <2>4. closing' \in {"watcher", "browser", "done"} => ~probe'
    BY DEF SessionInv, CleanedUp
  <2>5. closing' \in {"browser", "done"} => AtRest'
    BY DEF SessionInv, CleanedUp, AtRest
  <2>6. closing' = "done" => errors' \/ (launching' => browser' # "running")
    BY DEF SessionInv, CleanedUp
  <2>7. QED
    BY <2>1, <2>2, <2>3, <2>4, <2>5, <2>6 DEF CleanedUp
<1>4. QED
  BY <1>3 DEF SessionInv

\* A step that leaves the session running or starting: nothing is to be cleaned up.
LEMMA StaysOpen ==
  ASSUME RuntimeTypes', closing' = "no", runtime' # "running" => ~probe' /\ loop' = "off"
  PROVE  SessionInv'
  BY DEF SessionInv, CleanedUp

\* The cleanup begins.
LEMMA BecomesClosing ==
  ASSUME RuntimeTypes', closing' = "listener", \A c \in Clients : conn'[c] # "open",
         runtime' # "running" => ~probe' /\ loop' = "off"
  PROVE  SessionInv'
  BY DEF SessionInv, CleanedUp

LEMMA StartupStep ==
  ASSUME SessionInv, Bind \/ BrowserStarts \/ Verified \/ StartupFails
  PROVE  SessionInv'
<1>0. /\ closing = "no" /\ runtime # "running" /\ ~probe /\ loop = "off" /\ RuntimeTypes
      /\ UNCHANGED <<aborted, failure, errors>>
  BY DEF Bind, BrowserStarts, Verified, StartupFails, Starting, StartupKeeps, SessionInv, CleanedUp
\* It runs, goes on, or is rolled back.
<1>1. /\ listening' \in BOOLEAN /\ probe' \in BOOLEAN
      /\ \/ Run
         \/ /\ runtime' \in {"binding", "browser", "token"} /\ ~probe' /\ loop' = "off"
            /\ \/ Rollback
               \/ UNCHANGED <<closing, conn>>
  <2>1. CASE Bind
    <3>1. listening' \in BOOLEAN /\ probe' \in BOOLEAN
      <4>1. probe \in BOOLEAN
        BY <1>0 DEF RuntimeTypes
      <4>2. listening' = TRUE /\ probe' \in {probe, TRUE}
        BY <2>1 DEF Bind
      <4>3. QED
        BY <4>1, <4>2
    <3>2. CASE aborted
      BY <3>1, <3>2, <2>1, <1>0 DEF Bind, watcherVars, loopVars
    <3>3. CASE ~aborted /\ launching
      BY <3>1, <3>3, <2>1, <1>0 DEF Bind, watcherVars, loopVars
    <3>4. CASE ~aborted /\ ~launching
      BY <3>1, <3>4, <2>1, <1>0 DEF Bind
    <3>5. QED
      BY <3>2, <3>3, <3>4
  <2>2. CASE BrowserStarts
    BY <2>2, <1>0 DEF BrowserStarts, Starts, loopVars, RuntimeTypes
  <2>3. CASE Verified
    <3>1. CASE aborted
      BY <3>1, <2>3, <1>0 DEF Verified, watcherVars, loopVars, RuntimeTypes
    <3>2. CASE ~aborted
      BY <3>2, <2>3, <1>0 DEF Verified, RuntimeTypes
    <3>3. QED
      BY <3>1, <3>2
  <2>4. CASE StartupFails
    BY <2>4, <1>0 DEF StartupFails, Starting, watcherVars, loopVars, RuntimeTypes
  <2>5. QED
    BY <2>1, <2>2, <2>3, <2>4
<1>2. CASE Run
  <2>1. closing' = "no" /\ conn' = conn /\ runtime' = "running"
    BY <1>0, <1>2 DEF Run
  <2>2. RuntimeTypes'
    BY <2>1, <1>0, <1>1 DEF RuntimeTypes
  <2>3. QED
    BY <2>1, <2>2, StaysOpen
<1>3. CASE Rollback /\ runtime' \in {"binding", "browser", "token"} /\ ~probe' /\ loop' = "off"
  <2>1. RuntimeTypes'
    BY <1>0, <1>1, <1>3, RollbackIs DEF RuntimeTypes
  <2>2. QED
    BY <2>1, <1>0, <1>3, RollbackIs, BecomesClosing
<1>4. CASE /\ UNCHANGED <<closing, conn>>
           /\ runtime' \in {"binding", "browser", "token"} /\ ~probe' /\ loop' = "off"
  <2>1. RuntimeTypes'
    BY <1>0, <1>1, <1>4 DEF RuntimeTypes
  <2>2. QED
    BY <2>1, <1>0, <1>4, StaysOpen
<1>5. QED
  BY <1>1, <1>2, <1>3, <1>4

\* The failure, the abort and the calls of the owner, while the session starts or runs.
LEMMA EventStep ==
  ASSUME SessionInv, ServerInv,
         \/ OwnerAborts \/ OwnerShutsDown \/ ProbeEnds \/ WatcherThrows
         \/ \E p \in Launches : ServerFails(p)
  PROVE  SessionInv'
<1>0. RuntimeTypes
  BY DEF SessionInv
<1>1. /\ UNCHANGED leaseVars /\ runtime' = runtime /\ errors' = errors /\ listening' = listening
      /\ aborted' \in BOOLEAN /\ failure' \in BOOLEAN /\ probe' \in BOOLEAN /\ (probe' => probe)
      /\ \/ BeginShutdown /\ runtime = "running"
         \/ UNCHANGED <<closing, conn, watcherVars>>
  <2>1. CASE OwnerAborts \/ OwnerShutsDown \/ ProbeEnds
    <3>1. CASE OwnerAborts
      BY <3>1, <1>0 DEF OwnerAborts, RuntimeTypes
    <3>2. CASE OwnerShutsDown
      BY <3>2, <1>0 DEF OwnerShutsDown, RuntimeTypes
    <3>3. CASE ProbeEnds
      BY <3>3, <1>0 DEF ProbeEnds, RuntimeTypes
    <3>4. QED
      BY <2>1, <3>1, <3>2, <3>3
  <2>2. CASE WatcherThrows \/ \E p \in Launches : ServerFails(p)
    <3>1. Fail /\ ~failure /\ UNCHANGED <<leaseVars, runtime, errors, listening, probe>>
      BY <2>2 DEF WatcherThrows, ServerFails
    <3>2. /\ failure' = TRUE /\ aborted' \in BOOLEAN
          /\ \/ BeginShutdown /\ runtime = "running"
             \/ UNCHANGED <<closing, conn, watcherVars>>
      BY <3>1, <1>0 DEF Fail, RuntimeTypes
    <3>3. QED
      BY <3>1, <3>2, <1>0 DEF RuntimeTypes
  <2>3. QED
    BY <2>1, <2>2
<1>2. CASE UNCHANGED <<closing, conn, watcherVars>>
  <2>0. closing' = closing /\ conn' = conn /\ loop' = loop /\ launching' = launching /\ browser' = browser
    BY <1>2 DEF watcherVars, loopVars, firefoxVars
  <2>1. RuntimeTypes'
    BY <1>0, <1>1, <2>0 DEF RuntimeTypes
  <2>2. closing # "no" => \A c \in Clients : conn'[c] # "open"
    BY <2>0 DEF SessionInv, CleanedUp
  <2>3. QED
    BY <1>1, <2>0, <2>1, <2>2, StaysClean
<1>3. CASE BeginShutdown /\ runtime = "running"
  <2>1. /\ \/ /\ closing = "no" /\ closing' = "listener"
              /\ conn' \in [Clients -> {"none", "open", "closed"}]
              /\ \A c \in Clients : conn'[c] # "open"
           \/ closing # "no" /\ closing' = closing /\ conn' = conn
        /\ AtRest => loop' = loop
        /\ launching' = launching /\ browser' = browser
    BY <1>0, <1>3, BeginShutdownIs
  <2>2. RuntimeTypes'
    BY <1>0, <1>1, <2>1 DEF RuntimeTypes
  <2>3. CASE closing = "no"
    BY <1>1, <1>3, <2>1, <2>2, <2>3, BecomesClosing
  <2>4. CASE closing # "no"
    <3>1. \A c \in Clients : conn'[c] # "open"
      BY <2>1, <2>4 DEF SessionInv, CleanedUp
    <3>2. QED
      BY <1>1, <2>1, <2>2, <2>4, <3>1, StaysClean
  <2>5. QED
    BY <2>3, <2>4
<1>4. QED
  BY <1>1, <1>2, <1>3

LEMMA ConnectionsStep ==
  ASSUME SessionInv, ServerInv, NEW c \in Clients, Accept(c) \/ Leave(c)
  PROVE  SessionInv'
<1>0. /\ UNCHANGED leaseVars /\ RuntimeTypes
      /\ UNCHANGED <<runtime, closing, aborted, failure, errors, listening, probe>>
      /\ UNCHANGED <<loop, launching, browser>>
      /\ \/ closing = "no" /\ conn' = [conn EXCEPT ![c] = "open"]
         \/ conn' = [conn EXCEPT ![c] = "closed"]
  BY DEF Accept, Leave, RequestKeeps, runtimeVars, watcherVars, loopVars, firefoxVars, SessionInv
<1>1. RuntimeTypes'
  BY <1>0 DEF RuntimeTypes
<1>2. closing # "no" => \A d \in Clients : conn'[d] # "open"
  BY <1>0 DEF SessionInv, CleanedUp, RuntimeTypes
<1>3. QED
  BY <1>0, <1>1, <1>2, StaysClean

\* A step that touches nothing of the session, whatever it does to its servers or tabs.
LEMMA OtherStep ==
  ASSUME SessionInv, ServerInv, LeaseNext \/ UNCHANGED leaseVars,
         WatcherMoves \/ ServerStep \/ UNCHANGED platformVars
  PROVE  SessionInv'
<1>0. /\ UNCHANGED <<runtime, closing, aborted, failure, errors, listening, probe>>
      /\ conn' = conn
  <2>1. UNCHANGED runtimeVars /\ conn' = conn
    BY WatcherMovesIs, ServerStepKeeps DEF platformVars
  <2>2. QED
    BY <2>1 DEF runtimeVars
<1>1. /\ AtRest => loop' = loop
      /\ launching' = launching
      /\ launching /\ browser # "running" => browser' # "running"
  <2>1. CASE WatcherMoves
    BY <2>1, WatcherMovesIs
  <2>2. CASE ServerStep \/ UNCHANGED platformVars
    <3>1. UNCHANGED watcherVars
      BY <2>2, ServerStepKeeps DEF platformVars
    <3>2. QED
      BY <3>1 DEF watcherVars, loopVars, firefoxVars
  <2>3. QED
    BY <2>1, <2>2
<1>2. RuntimeTypes'
  BY <1>0 DEF SessionInv, RuntimeTypes
<1>3. closing # "no" => \A c \in Clients : conn'[c] # "open"
  BY <1>0 DEF SessionInv, CleanedUp
<1>4. QED
  BY <1>0, <1>1, <1>2, <1>3, StaysClean

\* One step of the cleanup: what it joins is at rest from now on.
LEMMA CleanupStep ==
  ASSUME SessionInv, Cleanup
  PROVE  SessionInv'
<1>1. CASE ListenerCloses
  <2>0. /\ closing = "listener" /\ closing' = "servers" /\ errors' = errors /\ listening' = FALSE
        /\ errors \in BOOLEAN /\ UNCHANGED <<aborted, failure, conn, runtime, probe, loop>>
        /\ Shutdown
    BY <1>1 DEF ListenerCloses, Proceed, After, watcherVars, loopVars, SessionInv, RuntimeTypes
  <2>1. RuntimeTypes'
    BY <2>0 DEF SessionInv, RuntimeTypes
  <2>2. CleanedUp'
    BY <2>0 DEF SessionInv, CleanedUp, Shutdown
  <2>3. QED
    BY <2>1, <2>2 DEF SessionInv
<1>2. CASE ServersDrain \/ ServersTimeOut
  <2>0. /\ closing = "servers" /\ closing' = IF runtime = "running" THEN "probe" ELSE "browser"
        /\ UNCHANGED <<aborted, failure, conn, runtime, listening, probe, loop, launching, browser>>
        /\ UNCHANGED <<lease, open>> /\ errors' \in BOOLEAN
        /\ errors' \/ ServersReleased
    <3>1. CASE ServersDrain
      <4>1. /\ closing = "servers" /\ closing' = IF runtime = "running" THEN "probe" ELSE "browser"
            /\ UNCHANGED <<aborted, failure, conn, runtime, listening, probe, loop, launching, browser>>
            /\ UNCHANGED <<lease, open>>
        BY <3>1 DEF ServersDrain, Proceed, After, watcherVars, loopVars, firefoxVars, leaseVars
      <4>2. /\ \A p \in Launches : lease[p] \in {"none", "gone", "leaked"}
            /\ errors' = (errors \/ \E p \in Launches : lease[p] = "leaked")
        BY <3>1 DEF ServersDrain, Proceed
      <4>3. errors' \in BOOLEAN /\ (errors' \/ ServersReleased)
        BY <4>2 DEF ServersReleased
      <4>4. QED
        BY <4>1, <4>3
    <3>2. CASE ServersTimeOut
      <4>1. /\ closing = "servers" /\ closing' = IF runtime = "running" THEN "probe" ELSE "browser"
            /\ UNCHANGED <<aborted, failure, conn, runtime, listening, probe, loop, launching, browser>>
            /\ UNCHANGED <<lease, open>>
        BY <3>2 DEF ServersTimeOut, Proceed, After, watcherVars, loopVars, firefoxVars, leaseVars
      <4>2. errors' = TRUE
        BY <3>2 DEF ServersTimeOut, Proceed
      <4>3. QED
        BY <4>1, <4>2
    <3>3. QED
      BY <1>2, <3>1, <3>2
  <2>1. RuntimeTypes'
    BY <2>0 DEF SessionInv, RuntimeTypes
  <2>2. ServersReleased' <=> ServersReleased
    BY <2>0 DEF ServersReleased
  <2>3. CleanedUp'
    BY <2>0, <2>2 DEF SessionInv, CleanedUp, AtRest
  <2>4. QED
    BY <2>1, <2>3 DEF SessionInv
<1>3. CASE ProbeJoined
  <2>0. /\ closing = "probe" /\ closing' = "watcher" /\ ~probe
        /\ errors' = errors /\ errors \in BOOLEAN
        /\ UNCHANGED <<aborted, failure, conn, runtime, listening, probe, loop, launching, browser>>
        /\ UNCHANGED <<lease, open>>
    BY <1>3 DEF ProbeJoined, Proceed, After, watcherVars, loopVars, firefoxVars, leaseVars,
       SessionInv, RuntimeTypes
  <2>1. RuntimeTypes'
    BY <2>0 DEF SessionInv, RuntimeTypes
  <2>2. ServersReleased' <=> ServersReleased
    BY <2>0 DEF ServersReleased
  <2>3. CleanedUp'
    BY <2>0, <2>2 DEF SessionInv, CleanedUp, AtRest
  <2>4. QED
    BY <2>1, <2>3 DEF SessionInv
<1>4. CASE WatcherJoined
  <2>0. /\ closing = "watcher" /\ closing' = "browser" /\ AtRest
        /\ errors' = errors /\ errors \in BOOLEAN
        /\ UNCHANGED <<aborted, failure, conn, runtime, listening, probe, loop, launching, browser>>
        /\ UNCHANGED <<lease, open>>
    BY <1>4 DEF WatcherJoined, Proceed, After, watcherVars, loopVars, firefoxVars, leaseVars,
       SessionInv, RuntimeTypes, AtRest
  <2>1. RuntimeTypes'
    BY <2>0 DEF SessionInv, RuntimeTypes
  <2>2. ServersReleased' <=> ServersReleased
    BY <2>0 DEF ServersReleased
  <2>3. CleanedUp'
    BY <2>0, <2>2 DEF SessionInv, CleanedUp, AtRest
  <2>4. QED
    BY <2>1, <2>3 DEF SessionInv
<1>5. CASE BrowserCloses
  <2>1. PICK gone \in BOOLEAN :
          /\ Proceed("browser", ~gone)
          /\ IF launching /\ browser = "running" THEN IF gone THEN Exits ELSE UNCHANGED watcherVars
             ELSE gone /\ UNCHANGED watcherVars
    BY <1>5 DEF BrowserCloses
  <2>2. /\ closing = "browser" /\ closing' = "done" /\ errors' = (errors \/ ~gone)
        /\ UNCHANGED <<aborted, failure, conn>>
    BY <2>1 DEF Proceed, After
  <2>3. /\ UNCHANGED <<lease, open, listening, probe>>
        /\ runtime' = IF runtime = "running" THEN runtime ELSE "rejected"
    BY <1>5 DEF BrowserCloses, leaseVars
  <2>4. AtRest
    BY <2>2 DEF SessionInv, CleanedUp
  <2>5. loop' = loop /\ launching' = launching /\ (~gone \/ (launching => browser' # "running"))
    <3>1. CASE Exits
      BY <3>1, <2>4 DEF Exits, Lose, AtRest
    <3>2. CASE UNCHANGED watcherVars /\ ~(gone /\ launching /\ browser = "running")
      BY <3>2 DEF watcherVars, loopVars, firefoxVars
    <3>3. QED
      BY <3>1, <3>2, <2>1
  <2>6. RuntimeTypes'
    BY <2>2, <2>3 DEF SessionInv, RuntimeTypes
  <2>7. ServersReleased' <=> ServersReleased
    BY <2>3 DEF ServersReleased
  <2>8. CleanedUp'
    <3>1. errors' \/ ServersReleased'
      BY <2>2, <2>7 DEF SessionInv, CleanedUp
    <3>2. errors' \/ (launching' => browser' # "running")
      BY <2>2, <2>5
    <3>3. QED
      BY <3>1, <3>2, <2>2, <2>3, <2>4, <2>5 DEF SessionInv, CleanedUp, AtRest
  <2>9. QED
    BY <2>6, <2>8 DEF SessionInv
<1>6. QED
  BY <1>1, <1>2, <1>3, <1>4, <1>5 DEF Cleanup

LEMMA SessionInvariant ==
  ASSUME SessionInv, ServerInv, PlatformNext \/ UNCHANGED platformVars
  PROVE  SessionInv'
<1>1. LeaseNext \/ UNCHANGED leaseVars
  BY LeaseStep
<1>2. CASE SessionStep
  <2>1. CASE Cleanup
    BY <2>1, CleanupStep
  <2>2. CASE Bind \/ BrowserStarts \/ Verified \/ StartupFails
    BY <2>2, StartupStep
  <2>3. CASE \/ OwnerAborts \/ OwnerShutsDown \/ ProbeEnds \/ WatcherThrows
             \/ \E p \in Launches : ServerFails(p)
    BY <2>3, EventStep
  <2>4. CASE WatcherMoves
    BY <2>4, <1>1, OtherStep
  <2>5. CASE \E c \in Clients : Accept(c) \/ Leave(c)
    BY <2>5, ConnectionsStep
  <2>6. QED
    BY <1>2, <2>1, <2>2, <2>3, <2>4, <2>5 DEF SessionStep, Cleanup
<1>3. CASE ServerStep \/ UNCHANGED platformVars
  BY <1>1, <1>3, OtherStep
<1>4. CASE ListenerCloses
  BY <1>4, CleanupStep DEF Cleanup
<1>5. QED
  BY <1>2, <1>3, <1>4, Steps

LEMMA DoneIsReleased == SessionInv /\ ServerInv /\ WatcherInv => DoneMeansReleased
<1> SUFFICES ASSUME SessionInv, ServerInv, WatcherInv, closing = "done", ~errors
             PROVE  NothingHeld
  BY DEF DoneMeansReleased
<1>1. ~listening /\ (\A c \in Clients : conn[c] # "open") /\ ~probe
  BY DEF SessionInv, CleanedUp
<1>2. \A p \in Launches : lease[p] \in {"none", "gone"} /\ held[p] = {}
  BY DEF SessionInv, CleanedUp, ServersReleased, ServerInv, Leasing
<1>3. loop \in {"off", "ended", "threw"} /\ (launching => browser # "running")
  BY DEF SessionInv, CleanedUp, AtRest
<1>4. client = "none"
  BY <1>3 DEF WatcherInv, Closed
<1>5. QED
  BY <1>1, <1>2, <1>3, <1>4 DEF NothingHeld

LEMMA SessionInitially == PlatformInit => SessionInv
  BY DEF PlatformInit, WatcherInit, SessionInv, RuntimeTypes, CleanedUp

-----------------------------------------------------------------------------
(* The theorems *)

\* A step of the platform moves the watcher as the watcher moves, since startup alone begins
\* to watch, and once.
LEMMA PlatformMovesWatcher ==
  ASSUME SessionInv, PlatformNext \/ UNCHANGED platformVars
  PROVE  WatcherMove
<1>1. CASE Cleanup
  BY <1>1 DEF Cleanup, ListenerCloses, ServersDrain, ServersTimeOut, ProbeJoined, WatcherJoined,
     BrowserCloses, WatcherMove, FirefoxStep
<1>2. CASE Bind \/ BrowserStarts \/ Verified \/ StartupFails
  <2>1. loop = "off"
    BY <1>2 DEF Bind, BrowserStarts, Verified, StartupFails, Starting, SessionInv, CleanedUp
  <2>2. Run \/ Starts \/ UNCHANGED watcherVars
    BY <1>2 DEF Bind, BrowserStarts, Verified, StartupFails
  <2>3. QED
    BY <2>1, <2>2 DEF Run, WatcherMove
<1>3. CASE \/ OwnerAborts \/ OwnerShutsDown \/ ProbeEnds \/ WatcherThrows
           \/ \E p \in Launches : ServerFails(p)
  <2>1. WatcherAborts \/ UNCHANGED watcherVars
    BY <1>3 DEF OwnerAborts, OwnerShutsDown, ProbeEnds, WatcherThrows, ServerFails, Fail,
       BeginShutdown
  <2>2. QED
    BY <2>1 DEF WatcherMove
<1>4. CASE WatcherMoves
  BY <1>4 DEF WatcherMoves, UserStarts, WatcherMove
<1>5. CASE \/ ServerStep \/ UNCHANGED platformVars
           \/ \E c \in Clients : Accept(c) \/ Leave(c)
  <2>1. UNCHANGED watcherVars
    BY <1>5, ServerStepKeeps DEF platformVars, Accept, Leave, RequestKeeps
  <2>2. QED
    BY <2>1 DEF WatcherMove
<1>6. QED
  BY <1>1, <1>2, <1>3, <1>4, <1>5, Steps DEF SessionStep, Cleanup

\* What the platform, its servers and its watcher are in every reachable state.
PlatformInv == WatcherInv /\ ServerInv /\ SessionInv

THEOREM PlatformInvariant == PlatformSpec => []PlatformInv
<1>1. PlatformInit => PlatformInv
  BY WatcherInitially, ServersInitially, SessionInitially DEF PlatformInit, PlatformInv
<1>2. PlatformInv /\ [PlatformNext]_platformVars => PlatformInv'
  BY PlatformMovesWatcher, WatcherInvariant, ServerInvariant, SessionInvariant DEF PlatformInv
<1>3. QED
  BY <1>1, <1>2, PTL DEF PlatformSpec

\* A change of Firefox's tabs is not lost among the queries it falls between: with nothing on
\* its way, LLDB is shown the tabs there are, and each of them is configured.
THEOREM ShownTabsAreCurrent == PlatformSpec => []TabsAreCurrent
<1>1. PlatformInv => TabsAreCurrent
  BY QuietMeansCurrent DEF PlatformInv
<1>2. QED
  BY <1>1, PlatformInvariant, PTL

\* A tab and its server know each other, whichever requests, kills, failures and connections
\* overlap.
THEOREM TabsKnowTheirServers == PlatformSpec => []TabKnowsItsServer
<1>1. PlatformInv => TabKnowsItsServer
  BY OwnersAreKnown DEF PlatformInv
<1>2. QED
  BY <1>1, PlatformInvariant, PTL

\* When shutdown or rollback is done, everything is released or an error is reported, and
\* nothing is acquired afterwards.
THEOREM ReleasedForGood == PlatformSpec => []DoneMeansReleased
<1>1. PlatformInv => DoneMeansReleased
  BY DoneIsReleased DEF PlatformInv
<1>2. QED
  BY <1>1, PlatformInvariant, PTL

\* Whatever the session does with its servers, it does nothing their owner has not promised:
\* no launch after shutdown, no second end, nothing forgotten that is held.
THEOREM SessionKeepsTheLease == PlatformSpec => LeaseSpec
<1>1. PlatformInit => LeaseInit
  BY DEF PlatformInit
<1>2. [PlatformNext]_platformVars => [LeaseNext]_leaseVars
  BY LeaseStep
<1>3. QED
  BY <1>1, <1>2, PTL DEF PlatformSpec, LeaseSpec

-----------------------------------------------------------------------------
(* The safety half of ShutdownReleases, for an end that has begun *)

\* What the end of a session relies on, and what makes it begin.  While nothing is being
\* closed, a failure has either happened before the session ran, and then its startup is
\* aborted, or it has not happened; the watcher is started with the session and ends only
\* with it, so that it is at rest by the time anything is awaited; and it is awaited only by a
\* session that has started it.
Ending ==
  /\ closing = "no" => /\ runtime # "rejected"
                       /\ runtime = "running" => loop # "off" /\ loop # "ended" /\ ~failure
                       /\ failure => aborted
  /\ closing \in {"no", "listener"} => open
  /\ closing # "no" => AtRest /\ (runtime = "running" => loop # "off")
  /\ closing \in {"probe", "watcher"} => runtime = "running"

\* Nothing that a failure, a shutdown or a rollback waits for can be withheld from it.  A
\* failure that has begun no shutdown has aborted a startup, which rejects; the servers'
\* owner has not been shut down before; each server is gone, or one is being stopped, for
\* which there is a limit; and the watcher that is joined has ended, or thrown, which is heard.
NothingIsWithheld ==
  failure \/ closing # "no" =>
    CASE closing = "no"       -> Starting /\ aborted
      [] closing = "listener" -> open
      [] closing = "servers"  -> \/ \A p \in Launches : lease[p] \in {"none", "gone", "leaked"}
                                 \/ \E p \in Launches : lease[p] = "ending"
      [] closing = "watcher"  -> loop \in {"ended", "threw"}
      [] OTHER                -> TRUE

\* The order in which things are closed.
Place(step) ==
  CASE step = "no"       -> 0
    [] step = "listener" -> 1
    [] step = "servers"  -> 2
    [] step = "probe"    -> 3
    [] step = "watcher"  -> 4
    [] step = "browser"  -> 5
    [] OTHER             -> 6

\* An end goes one way: each of its own steps brings it nearer to done, no step of anybody
\* takes it back, and nothing it awaits, or has awaited, is started again.
NeverBack ==
  /\ Place(closing') >= Place(closing)
  /\ Cleanup => Place(closing') > Place(closing)
  /\ failure => failure'
  /\ closing # "no" => (probe' => probe) /\ loop' = loop

LEMMA EndingForesees ==
  ASSUME SessionInv, ServerInv, Ending
  PROVE  NothingIsWithheld
<1> SUFFICES ASSUME failure \/ closing # "no"
             PROVE  CASE closing = "no"       -> Starting /\ aborted
                      [] closing = "listener" -> open
                      [] closing = "servers"  ->
                           \/ \A p \in Launches : lease[p] \in {"none", "gone", "leaked"}
                           \/ \E p \in Launches : lease[p] = "ending"
                      [] closing = "watcher"  -> loop \in {"ended", "threw"}
                      [] OTHER                -> TRUE
  BY DEF NothingIsWithheld
<1>1. closing = "no" => Starting /\ aborted
  BY DEF Ending, Starting, SessionInv, RuntimeTypes
<1>2. closing = "listener" => open
  BY DEF Ending
<1>3. ASSUME closing = "servers", \A p \in Launches : lease[p] # "ending"
      PROVE  \A p \in Launches : lease[p] \in {"none", "gone", "leaked"}
  <2>1. ~open
    BY <1>3 DEF SessionInv, CleanedUp
  <2>2. \A p \in Launches : lease[p] \notin {"acquiring", "live"} /\ lease[p] \in Leases
    BY <2>1 DEF ServerInv, Leasing, ServerTypes
  <2>3. QED
    BY <2>2, <1>3 DEF Leases
<1>4. closing = "watcher" => loop \in {"ended", "threw"}
  BY DEF Ending, AtRest
<1>5. QED
  BY <1>1, <1>2, <1>3, <1>4

\* A step that leaves the session as it is.
LEMMA EndingUnmoved ==
  ASSUME Ending, UNCHANGED <<runtime, closing, failure, open, loop>>, aborted => aborted'
  PROVE  Ending'
  BY DEF Ending, AtRest

\* The steps of the cleanup itself.
LEMMA CleanupGoesOn ==
  ASSUME SessionInv, Ending, Cleanup
  PROVE  Ending' /\ NeverBack
<1>1. closing # "no" /\ AtRest /\ (runtime = "running" => loop # "off")
  BY DEF Cleanup, ListenerCloses, ServersDrain, ServersTimeOut, ProbeJoined, WatcherJoined,
     BrowserCloses, Proceed, Ending
<1>2. failure' = failure
  BY DEF Cleanup, ListenerCloses, ServersDrain, ServersTimeOut, ProbeJoined, WatcherJoined,
     BrowserCloses, Proceed
<1>3. probe' = probe
  BY DEF Cleanup, ListenerCloses, ServersDrain, ServersTimeOut, ProbeJoined, WatcherJoined,
     BrowserCloses
<1>4. loop' = loop
  BY <1>1 DEF Cleanup, ListenerCloses, ServersDrain, ServersTimeOut, ProbeJoined, WatcherJoined,
     BrowserCloses, Exits, Lose, AtRest, watcherVars, loopVars
<1>5. runtime' = runtime \/ (closing = "browser" /\ runtime # "running" /\ runtime' = "rejected")
  BY DEF Cleanup, ListenerCloses, ServersDrain, ServersTimeOut, ProbeJoined, WatcherJoined,
     BrowserCloses, Proceed
\* Which step comes next.
<1>6. \/ closing = "listener" /\ closing' = "servers"
      \/ closing = "servers" /\ closing' = "probe" /\ runtime = "running"
      \/ closing = "servers" /\ closing' = "browser"
      \/ closing = "probe" /\ closing' = "watcher"
      \/ closing = "watcher" /\ closing' = "browser"
      \/ closing = "browser" /\ closing' = "done"
  BY DEF Cleanup, ListenerCloses, ServersDrain, ServersTimeOut, ProbeJoined, WatcherJoined,
     BrowserCloses, Proceed, After
<1>7. Ending'
  BY <1>1, <1>4, <1>5, <1>6 DEF Ending, AtRest
<1>8. Place(closing') > Place(closing) /\ Place(closing') >= Place(closing)
  BY <1>6 DEF Place
<1>9. QED
  BY <1>2, <1>3, <1>4, <1>7, <1>8 DEF NeverBack

\* Startup, which runs the session only if nobody has aborted it meanwhile.
LEMMA StartupGoesOn ==
  ASSUME SessionInv, Ending, Bind \/ BrowserStarts \/ Verified \/ StartupFails
  PROVE  Ending' /\ closing = "no" /\ failure' = failure
<1>1. /\ closing = "no" /\ runtime \in {"binding", "browser", "token"} /\ loop = "off"
      /\ UNCHANGED <<aborted, failure, open>>
  BY DEF Bind, BrowserStarts, Verified, StartupFails, Starting, StartupKeeps, SessionInv,
     CleanedUp, leaseVars
<1>2. \/ Run /\ ~aborted
      \/ Rollback /\ runtime' = runtime /\ loop' = loop
      \/ UNCHANGED <<closing, loop>> /\ runtime' \in {"browser", "token"}
  <2>1. CASE Bind
    BY <2>1 DEF Bind, watcherVars, loopVars
  <2>2. CASE BrowserStarts
    BY <2>2 DEF BrowserStarts, Starts, loopVars
  <2>3. CASE Verified
    BY <2>3 DEF Verified, watcherVars, loopVars
  <2>4. CASE StartupFails
    BY <2>4 DEF StartupFails, watcherVars, loopVars
  <2>5. QED
    BY <2>1, <2>2, <2>3, <2>4
<1>3. CASE Run /\ ~aborted
  BY <1>1, <1>3 DEF Run, Ending
<1>4. CASE Rollback /\ runtime' = runtime /\ loop' = loop
  BY <1>1, <1>4 DEF Rollback, Ending, AtRest
<1>5. CASE UNCHANGED <<closing, loop>> /\ runtime' \in {"browser", "token"}
  BY <1>1, <1>5 DEF Ending
<1>6. QED
  BY <1>1, <1>2, <1>3, <1>4, <1>5

\* The failure, the abort and the calls of the owner.
LEMMA EventGoesOn ==
  ASSUME SessionInv, Ending, WatcherTypes,
         \/ OwnerAborts \/ OwnerShutsDown \/ ProbeEnds \/ WatcherThrows
         \/ \E p \in Launches : ServerFails(p)
  PROVE  /\ Ending' /\ (failure => failure') /\ (probe' => probe)
         /\ \/ closing' = closing /\ loop' = loop
            \/ closing = "no" /\ closing' = "listener"
<1>1. /\ open' = open /\ runtime' = runtime /\ (failure => failure') /\ (probe' => probe)
      /\ aborted => aborted'
  BY DEF OwnerAborts, OwnerShutsDown, ProbeEnds, WatcherThrows, ServerFails, Fail, leaseVars
\* A session that runs begins its shutdown; before, the startup is aborted.
<1>2. \/ BeginShutdown /\ runtime = "running"
      \/ UNCHANGED <<closing, loop>> /\ (failure' = failure \/ (runtime # "running" /\ aborted'))
  BY DEF OwnerAborts, OwnerShutsDown, ProbeEnds, WatcherThrows, ServerFails, Fail, watcherVars,
     loopVars
<1>3. CASE BeginShutdown /\ runtime = "running" /\ closing = "no"
  <2>1. closing' = "listener" /\ (IF loop = "threw" THEN loop' = loop ELSE loop' = "ended")
    BY <1>3 DEF BeginShutdown, WatcherAborts, watcherVars, loopVars
  <2>2. open /\ loop' \in {"threw", "ended"}
    BY <2>1, <1>3 DEF Ending
  <2>3. Ending'
    BY <2>1, <2>2, <1>1, <1>3 DEF Ending, AtRest
  <2>4. QED
    BY <2>1, <2>3, <1>1, <1>3
<1>4. CASE BeginShutdown /\ closing # "no"
  <2>1. closing' = closing /\ loop' = loop
    BY <1>4 DEF BeginShutdown, watcherVars, loopVars
  <2>2. Ending'
    BY <2>1, <1>1, <1>4 DEF Ending, AtRest
  <2>3. QED
    BY <2>1, <2>2, <1>1
<1>5. CASE UNCHANGED <<closing, loop>> /\ (failure' = failure \/ (runtime # "running" /\ aborted'))
  <2>1. Ending'
    BY <1>1, <1>5 DEF Ending, AtRest
  <2>2. QED
    BY <2>1, <1>1, <1>5
<1>6. QED
  BY <1>2, <1>3, <1>4, <1>5

\* The watcher does not end by itself: it goes on, waits, or throws.
LEMMA WatcherGoesOn ==
  ASSUME WatcherTypes, WatcherMoves
  PROVE  IF AtRest THEN loop' = loop ELSE loop' \in {"watching", "waiting", "threw"}
<1>1. loop \in {"off", "watching", "waiting", "ended", "threw"}
  BY DEF WatcherTypes, Phases
<1>2. CASE WatcherStep
  <2>1. CASE HearTabs \/ HearPrimed \/ HearChange \/ StartupRetry \/ Connect \/ Compatible
    BY <1>1, <2>1 DEF HearTabs, HearPrimed, HearChange, StartupRetry, OtherFirefox, Connect,
       Compatible, AtRest, loopVars
  <2>2. CASE ConnectionLost \/ ProtocolFails \/ Reconnect
    BY <1>1, <2>2 DEF ConnectionLost, ProtocolFails, Reconnect, Lose, AtRest
  <2>3. QED
    BY <1>2, <2>1, <2>2 DEF WatcherStep
<1>3. CASE FirefoxStep \/ UserStarts
  <2>1. CASE Exits
    BY <1>1, <2>1 DEF Exits, Lose, AtRest
  <2>2. CASE Lists \/ Configures \/ (\E t \in Tabs : Opens(t) \/ Closes(t)) \/ UserStarts
    BY <1>1, <2>2 DEF Lists, Configures, Opens, Closes, ChangeTabs, UserStarts, Starts, loopVars,
       AtRest
  <2>3. QED
    BY <1>3, <2>1, <2>2 DEF FirefoxStep
<1>4. QED
  BY <1>2, <1>3 DEF WatcherMoves

LEMMA WatcherLeavesTheEnd ==
  ASSUME Ending, WatcherTypes, WatcherMoves
  PROVE  /\ Ending' /\ UNCHANGED <<closing, failure, probe>>
         /\ closing # "no" => loop' = loop
<1>1. UNCHANGED <<runtime, closing, failure, aborted, probe, open>>
  BY DEF WatcherMoves, runtimeVars, leaseVars
<1>2. IF AtRest THEN loop' = loop ELSE loop' \in {"watching", "waiting", "threw"}
  BY WatcherGoesOn
<1>3. closing # "no" => loop' = loop
  BY <1>2 DEF Ending
<1>4. Ending'
  BY <1>1, <1>2 DEF Ending, AtRest
<1>5. QED
  BY <1>1, <1>3, <1>4

\* The requests of LLDB and the servers, whose owner stays open for them.
LEMMA RequestsLeaveTheEnd ==
  ASSUME Ending, \/ ServerStep \/ UNCHANGED platformVars
                 \/ \E c \in Clients : Accept(c) \/ Leave(c)
  PROVE  Ending' /\ UNCHANGED <<closing, failure, probe, loop>>
<1>1. UNCHANGED watcherVars /\ UNCHANGED runtimeVars
  BY ServerStepKeeps DEF platformVars, Accept, Leave, RequestKeeps
<1>2. open' = open
  <2>1. CASE \E p \in Launches : ServerPublished(p) \/ Wrapped(p) \/ WrapFails(p) \/ ServerEnds(p)
                                   \/ LaunchFails(p)
    BY <2>1 DEF ServerPublished, Wrapped, WrapFails, ServerEnds, LaunchFails, StopServer, Publish,
       End, Forget, Leak, leaseVars
  <2>2. CASE \E c \in Clients : \/ LaunchForUrl(c)
                                \/ \E t \in Tabs : LaunchForTab(c, t)
                                \/ \E p \in Launches : KillServer(c, p)
    BY <2>2 DEF LaunchForUrl, LaunchForTab, KillServer, NewServer, SharedServer, StopServer, Begin,
       End, leaseVars
  <2>3. CASE UNCHANGED platformVars \/ \E c \in Clients : Accept(c) \/ Leave(c)
    BY <2>3 DEF platformVars, leaseVars, Accept, Leave
  <2>4. QED
    BY <2>1, <2>2, <2>3 DEF ServerStep
<1>3. UNCHANGED <<runtime, closing, failure, aborted, probe, loop>>
  BY <1>1 DEF watcherVars, loopVars, runtimeVars
<1>4. QED
  BY <1>2, <1>3, EndingUnmoved

LEMMA EndingStep ==
  ASSUME PlatformInv, Ending, PlatformNext \/ UNCHANGED platformVars
  PROVE  Ending' /\ NeverBack
<1>1. SessionInv /\ WatcherTypes
  BY DEF PlatformInv, WatcherInv
<1>2. CASE Cleanup
  BY <1>1, <1>2, CleanupGoesOn
<1>3. ASSUME ~Cleanup
      PROVE  Ending' /\ NeverBack
  <2>1. CASE Bind \/ BrowserStarts \/ Verified \/ StartupFails
    <3>1. Ending' /\ closing = "no" /\ failure' = failure
      BY <1>1, <2>1, StartupGoesOn
    <3>2. Place(closing') >= Place(closing)
      BY <3>1 DEF Place
    <3>3. QED
      BY <3>1, <3>2, <1>3 DEF NeverBack
  <2>2. CASE \/ OwnerAborts \/ OwnerShutsDown \/ ProbeEnds \/ WatcherThrows
             \/ \E p \in Launches : ServerFails(p)
    <3>1. /\ Ending' /\ (failure => failure') /\ (probe' => probe)
          /\ \/ closing' = closing /\ loop' = loop
             \/ closing = "no" /\ closing' = "listener"
      BY <1>1, <2>2, EventGoesOn
    <3>2. Place(closing') >= Place(closing)
      BY <3>1 DEF Place
    <3>3. QED
      BY <3>1, <3>2, <1>3 DEF NeverBack
  <2>3. CASE WatcherMoves
    <3>1. /\ Ending' /\ UNCHANGED <<closing, failure, probe>>
          /\ closing # "no" => loop' = loop
      BY <1>1, <2>3, WatcherLeavesTheEnd
    <3>2. Place(closing') >= Place(closing)
      BY <3>1 DEF Place
    <3>3. QED
      BY <3>1, <3>2, <1>3 DEF NeverBack
  <2>4. CASE \/ ServerStep \/ UNCHANGED platformVars
             \/ \E c \in Clients : Accept(c) \/ Leave(c)
    <3>1. Ending' /\ UNCHANGED <<closing, failure, probe, loop>>
      BY <2>4, RequestsLeaveTheEnd
    <3>2. Place(closing') >= Place(closing)
      BY <3>1 DEF Place
    <3>3. QED
      BY <3>1, <3>2, <1>3 DEF NeverBack
  <2>5. QED
    BY <1>3, <2>1, <2>2, <2>3, <2>4, Steps DEF SessionStep, Cleanup
<1>4. QED
  BY <1>2, <1>3

\* A failure, a shutdown and the rollback of a startup cannot come to a halt: whatever they
\* wait for is on its way, and they only go forward.  (That what is on its way arrives, and so
\* ShutdownReleases itself, is the fairness of PlatformSpec.)
THEOREM EndsGoAhead == PlatformSpec => []NothingIsWithheld /\ [][NeverBack]_platformVars
<1>1. PlatformInit => Ending
  BY DEF PlatformInit, WatcherInit, LeaseInit, Ending
<1>2. PlatformInv /\ Ending /\ [PlatformNext]_platformVars => Ending' /\ NeverBack
  BY EndingStep
<1>3. PlatformInv /\ Ending => NothingIsWithheld
  BY EndingForesees DEF PlatformInv
<1>4. QED
  BY <1>1, <1>2, <1>3, PlatformInvariant, PTL DEF PlatformSpec

-----------------------------------------------------------------------------
(* RdpClient: types *)

\* TypeOK but for one conjunct: that pendingCount stays a natural number is not a
\* matter of types, it holds because the counter counts something (SlotsAccounted).
Types ==
  /\ pending \in [Actors -> Seq(RequestId)]
  /\ retiredActors \subseteq Actors
  /\ closed \in BOOLEAN /\ gotRoot \in BOOLEAN
  /\ ready \in {"waiting", "resolved", "rejected"}
  /\ connected \in {"connecting", "open", "failed"}
  /\ nextRequestId \in 1..(MaxRequests + 1)
  /\ lifetime \in [RequestId -> Lifetimes \cup {NoLifetime}]
  /\ abortedLifetimes \subseteq Lifetimes
  /\ outcome \in [RequestId -> Verdicts]
  /\ askedOf \in [RequestId -> Actors]
  /\ answeredBy \in [RequestId -> RequestId \cup {0}]
  /\ misled \subseteq Actors
  /\ socket \in {"open", "destroyed", "gone"}
  /\ server \in [Actors -> Seq(RequestId)]
  /\ acks \in [Actors -> Nat]
  /\ refusals \in [Actors -> Seq(Nat)]

\* A queue that is not empty has a first element, and a tail, of its own type.
LEMMA SeqParts ==
  ASSUME NEW S, NEW s \in Seq(S), s # <<>>
  PROVE  /\ Head(s) \in S /\ Tail(s) \in Seq(S) /\ Len(s) \in Nat \ {0}
         /\ Head(s) = s[1] /\ Len(Tail(s)) = Len(s) - 1
         /\ \A i \in DOMAIN Tail(s) : i + 1 \in DOMAIN s /\ Tail(s)[i] = s[i + 1]
  OBVIOUS

\* p is the end of s.
EndOf(p, s) ==
  /\ Len(p) <= Len(s)
  /\ \A i \in 1..Len(p) : p[i] = s[Len(s) - Len(p) + i]

Ascending(s) == \A i, j \in 1..Len(s) : i < j => s[i] < s[j]

Below(s, n) == \A i \in 1..Len(s) : s[i] < n

\* Both are shortened by their heads, or the end alone is.
LEMMA EndTails ==
  ASSUME NEW S, NEW p \in Seq(S), NEW s \in Seq(S), EndOf(p, s), p # <<>>
  PROVE  /\ s # <<>> /\ Head(p) \in S /\ Tail(p) \in Seq(S) /\ Tail(s) \in Seq(S)
         /\ EndOf(Tail(p), Tail(s)) /\ EndOf(Tail(p), s)
         /\ Len(s) - Len(p) \in Nat /\ Len(s) - Len(p) < Len(s)
         /\ Head(p) = s[Len(s) - Len(p) + 1]
         /\ Len(Tail(s)) - Len(Tail(p)) = Len(s) - Len(p)
         /\ Len(s) - Len(Tail(p)) = (Len(s) - Len(p)) + 1
<1> DEFINE k == Len(s) - Len(p)
<1>1. /\ Len(p) \in Nat \ {0} /\ Len(s) \in Nat /\ Len(p) <= Len(s)
      /\ \A i \in 1..Len(p) : p[i] = s[k + i]
  BY DEF EndOf
<1>2. s # <<>>
  BY <1>1
<1>3. /\ Head(p) = p[1] /\ Head(p) \in S /\ Tail(p) \in Seq(S) /\ Tail(s) \in Seq(S)
      /\ Len(Tail(p)) = Len(p) - 1 /\ Len(Tail(s)) = Len(s) - 1
  BY <1>2
<1>4. \A i \in 1..(Len(p) - 1) : Tail(p)[i] = p[i + 1]
  OBVIOUS
<1>5. \A i \in 1..(Len(s) - 1) : Tail(s)[i] = s[i + 1]
  BY <1>2
<1> HIDE DEF k
<1>6. k \in Nat /\ k = Len(s) - Len(p)
  BY <1>1 DEF k
<1>7. \A i \in 1..(Len(p) - 1) : Tail(p)[i] = s[k + (i + 1)]
  BY <1>1, <1>4
<1>8. EndOf(Tail(p), s)
  <2>1. Len(s) - Len(Tail(p)) = k + 1
    BY <1>1, <1>3, <1>6
  <2>2. \A i \in 1..(Len(p) - 1) : k + (i + 1) = (k + 1) + i
    BY <1>6
  <2>3. QED
    BY <1>1, <1>3, <1>7, <2>1, <2>2 DEF EndOf
<1>9. EndOf(Tail(p), Tail(s))
  <2>1. Len(Tail(s)) - Len(Tail(p)) = k
    BY <1>1, <1>3, <1>6
  <2>2. ASSUME NEW i \in 1..(Len(p) - 1)
        PROVE  Tail(p)[i] = Tail(s)[k + i]
    <3>1. k + i \in 1..(Len(s) - 1) /\ (k + i) + 1 = k + (i + 1)
      BY <1>1, <1>6
    <3>2. QED
      BY <1>5, <1>7, <3>1
  <2>3. QED
    BY <1>1, <1>3, <2>1, <2>2 DEF EndOf
<1>10. Head(p) = s[k + 1] /\ k < Len(s)
  BY <1>1, <1>3, <1>6
<1>11. Len(Tail(s)) - Len(Tail(p)) = k /\ Len(s) - Len(Tail(p)) = k + 1
  BY <1>1, <1>3, <1>6
<1>12. QED
  BY <1>2, <1>3, <1>6, <1>8, <1>9, <1>10, <1>11

\* Both grow by the same element.
LEMMA EndAppends ==
  ASSUME NEW S, NEW p \in Seq(S), NEW s \in Seq(S), EndOf(p, s), NEW x \in S
  PROVE  /\ EndOf(Append(p, x), Append(s, x))
         /\ Len(Append(s, x)) - Len(Append(p, x)) = Len(s) - Len(p)
<1>1. /\ Len(p) \in Nat /\ Len(s) \in Nat /\ Len(p) <= Len(s)
      /\ \A i \in 1..Len(p) : p[i] = s[Len(s) - Len(p) + i]
  BY DEF EndOf
<1>2. /\ Len(Append(p, x)) = Len(p) + 1 /\ Len(Append(s, x)) = Len(s) + 1
      /\ \A i \in 1..Len(p) : Append(p, x)[i] = p[i]
      /\ \A i \in 1..Len(s) : Append(s, x)[i] = s[i]
      /\ Append(p, x)[Len(p) + 1] = x /\ Append(s, x)[Len(s) + 1] = x
  OBVIOUS
<1>3. ASSUME NEW i \in 1..(Len(p) + 1)
      PROVE  Append(p, x)[i] = Append(s, x)[Len(s) - Len(p) + i]
  <2>1. CASE i = Len(p) + 1
    <3>1. Len(s) - Len(p) + i = Len(s) + 1
      BY <1>1, <2>1
    <3>2. QED
      BY <1>2, <2>1, <3>1
  <2>2. CASE i \in 1..Len(p)
    <3>1. Len(s) - Len(p) + i \in 1..Len(s)
      BY <1>1, <2>2
    <3>2. QED
      BY <1>1, <1>2, <2>2, <3>1
  <2>3. QED
    BY <1>1, <2>1, <2>2
<1>4. Len(Append(s, x)) - Len(Append(p, x)) = Len(s) - Len(p)
  BY <1>1, <1>2
<1>5. QED
  BY <1>1, <1>2, <1>3, <1>4 DEF EndOf

\* An end holds what its queue ends with.
Elements(p) == {p[i] : i \in DOMAIN p}
Beyond(s, k) == {s[i] : i \in (k + 1)..Len(s)}

LEMMA EndElements ==
  ASSUME NEW S, NEW p \in Seq(S), NEW s \in Seq(S), EndOf(p, s)
  PROVE  Beyond(s, Len(s) - Len(p)) = Elements(p)
<1> DEFINE k == Len(s) - Len(p)
<1>1. /\ Len(p) \in Nat /\ Len(s) \in Nat /\ Len(p) <= Len(s) /\ DOMAIN p = 1..Len(p)
      /\ \A i \in 1..Len(p) : p[i] = s[k + i]
  BY DEF EndOf
<1>2. k \in Nat /\ Len(s) = k + Len(p)
  BY <1>1
<1> HIDE DEF k
<1>3. ASSUME NEW i \in (k + 1)..Len(s)
      PROVE  i - k \in 1..Len(p) /\ k + (i - k) = i
  BY <1>1, <1>2
<1>4. ASSUME NEW i \in 1..Len(p)
      PROVE  k + i \in (k + 1)..Len(s)
  BY <1>1, <1>2
<1>5. Beyond(s, k) = Elements(p)
  BY <1>1, <1>3, <1>4 DEF Beyond, Elements
<1>6. QED
  BY <1>5 DEF k

LEMMA EmptyEnd ==
  ASSUME NEW S, NEW s \in Seq(S), NEW p \in Seq(S), p = <<>>
  PROVE  EndOf(p, s) /\ Len(p) = 0
<1>1. Len(p) = 0 /\ Len(s) \in Nat
  OBVIOUS
<1>2. QED
  BY <1>1 DEF EndOf

LEMMA QueueOfNumbers ==
  ASSUME NEW s \in Seq(RequestId)
  PROVE  \A i \in 1..Len(s) : s[i] \in Int
<1>1. \A i \in 1..Len(s) : s[i] \in RequestId
  OBVIOUS
<1>2. RequestId \subseteq Int
  BY DEF RequestId
<1>3. QED
  BY <1>1, <1>2

\* Order survives the loss of a head and the arrival of something larger.
LEMMA AscendingTail ==
  ASSUME NEW s \in Seq(RequestId), NEW n, s # <<>>, Ascending(s), Below(s, n)
  PROVE  Ascending(Tail(s)) /\ Below(Tail(s), n)
<1>1. /\ Len(s) \in Nat \ {0} /\ Len(Tail(s)) = Len(s) - 1
      /\ \A i \in 1..(Len(s) - 1) : Tail(s)[i] = s[i + 1]
  OBVIOUS
<1>2. \A i \in 1..(Len(s) - 1) : i + 1 \in 1..Len(s)
  BY <1>1
<1>3. \A i, j \in 1..(Len(s) - 1) : i < j => i + 1 < j + 1
  BY <1>1
<1>4. QED
  BY <1>1, <1>2, <1>3 DEF Ascending, Below

LEMMA AscendingAppend ==
  ASSUME NEW s \in Seq(RequestId), NEW n \in RequestId, Ascending(s), Below(s, n)
  PROVE  Ascending(Append(s, n)) /\ Below(Append(s, n), n + 1)
<1>1. /\ Len(s) \in Nat /\ Len(Append(s, n)) = Len(s) + 1
      /\ \A i \in 1..Len(s) : Append(s, n)[i] = s[i] /\ s[i] \in Int /\ s[i] < n
      /\ Append(s, n)[Len(s) + 1] = n /\ n \in Int
  <2>1. /\ Len(s) \in Nat /\ Len(Append(s, n)) = Len(s) + 1
        /\ \A i \in 1..Len(s) : Append(s, n)[i] = s[i]
        /\ Append(s, n)[Len(s) + 1] = n
    OBVIOUS
  <2>2. n \in Int
    BY DEF RequestId
  <2>3. QED
    BY <2>1, <2>2, QueueOfNumbers DEF Below
<1>2. \A i \in 1..(Len(s) + 1) : i \in 1..Len(s) \/ i = Len(s) + 1
  BY <1>1
<1>3. Below(Append(s, n), n + 1)
  <2>1. \A i \in 1..(Len(s) + 1) : Append(s, n)[i] < n + 1
    BY <1>1, <1>2
  <2>2. QED
    BY <1>1, <2>1 DEF Below
<1>4. Ascending(Append(s, n))
  <2>1. ASSUME NEW i \in 1..(Len(s) + 1), NEW j \in 1..(Len(s) + 1), i < j
        PROVE  Append(s, n)[i] < Append(s, n)[j]
    <3>1. i \in 1..Len(s)
      BY <1>1, <2>1
    <3>2. CASE j \in 1..Len(s)
      BY <1>1, <2>1, <3>1, <3>2 DEF Ascending
    <3>3. CASE j = Len(s) + 1
      BY <1>1, <3>1, <3>3
    <3>4. QED
      BY <1>2, <3>2, <3>3
  <2>2. QED
    BY <1>1, <2>1 DEF Ascending
<1>5. QED
  BY <1>3, <1>4

\* What an ascending queue ends with was never smaller than what it begins with.
LEMMA HeadOfEnd ==
  ASSUME NEW p \in Seq(RequestId), NEW s \in Seq(RequestId), EndOf(p, s), p # <<>>, Ascending(s)
  PROVE  Head(s) = Head(p) \/ Head(s) < Head(p)
<1> DEFINE k == Len(s) - Len(p)
<1>1. s # <<>> /\ k \in Nat /\ k < Len(s) /\ Head(p) = s[k + 1]
  BY EndTails
<1>2. Len(s) \in Nat \ {0} /\ Head(s) = s[1]
  BY <1>1
<1> HIDE DEF k
<1>3. 1 \in 1..Len(s) /\ k + 1 \in 1..Len(s) /\ (k + 1 = 1 \/ 1 < k + 1)
  BY <1>1, <1>2
<1>4. QED
  BY <1>1, <1>2, <1>3 DEF Ascending

\* Closing leaves every book of its type.
LEMMA RejectPendingTypes ==
  ASSUME Types, NEW fresh, RejectPending(fresh)
  PROVE  /\ pending' \in [Actors -> Seq(RequestId)]
         /\ outcome' \in [RequestId -> Verdicts]
  BY DEF Types, RejectPending, Verdicts

LEMMA CloseTypes ==
  ASSUME Types, NEW fresh, Close(fresh),
         connected' \in {"connecting", "open", "failed"},
         retiredActors' \subseteq Actors, abortedLifetimes' \subseteq Lifetimes,
         nextRequestId' \in 1..(MaxRequests + 1)
  PROVE  Types'
<1>1. RejectPending(fresh)
  BY DEF Close
<1>2. QED
  BY <1>1, RejectPendingTypes DEF Close, Types, history, firefox

LEMMA NextIdIsRequest ==
  ASSUME Types, nextRequestId <= MaxRequests
  PROVE  nextRequestId \in RequestId /\ nextRequestId + 1 \in 1..(MaxRequests + 1)
  BY ClientAssumption DEF Types, RequestId

LEMMA TypesInit == Init => Types
<1> SUFFICES ASSUME Init PROVE Types
  OBVIOUS
<1>1. /\ pending \in [Actors -> Seq(RequestId)] /\ server \in [Actors -> Seq(RequestId)]
      /\ acks \in [Actors -> Nat] /\ refusals \in [Actors -> Seq(Nat)]
  BY DEF Init
<1>2. nextRequestId \in 1..(MaxRequests + 1)
  BY ClientAssumption DEF Init
<1>3. /\ lifetime \in [RequestId -> Lifetimes \cup {NoLifetime}]
      /\ outcome \in [RequestId -> Verdicts]
      /\ askedOf \in [RequestId -> Actors] /\ answeredBy \in [RequestId -> RequestId \cup {0}]
  BY ClientAssumption DEF Init, Verdicts
<1>4. QED
  BY <1>1, <1>2, <1>3 DEF Init, Types

LEMMA AcknowledgedOrRefused ==
  ASSUME Types, NEW a \in Actors, Send(a), Append(refusals[a], nextRequestId) \in Seq(Nat)
  PROVE  acks' \in [Actors -> Nat] /\ refusals' \in [Actors -> Seq(Nat)]
<1>1. acks[a] \in Nat
  BY DEF Types
<1>2. CASE acks' = [acks EXCEPT ![a] = @ + 1] /\ UNCHANGED refusals
  BY <1>1, <1>2 DEF Types
<1>3. CASE refusals' = [refusals EXCEPT ![a] = Append(@, nextRequestId)] /\ UNCHANGED acks
  BY <1>3 DEF Types
<1>4. QED
  BY <1>2, <1>3 DEF Send

LEMMA TypesStep == Types /\ [Next]_vars => Types'
<1> SUFFICES ASSUME Types, [Next]_vars
             PROVE  Types'
  OBVIOUS
<1>1. CASE Greeting
  BY <1>1 DEF Greeting, Types, history, firefox
<1>2. CASE ConnectReturns
  BY <1>2 DEF ConnectReturns, Types, history, firefox
<1>3. CASE ConnectFails
  <2>1. CASE closed
    BY <1>3, <2>1 DEF ConnectFails, Types, history, firefox
  <2>2. CASE ~closed
    <3>1. /\ Close({}) /\ connected' = "failed"
          /\ UNCHANGED <<retiredActors, nextRequestId, abortedLifetimes>>
      BY <1>3, <2>2 DEF ConnectFails
    <3>2. QED
      BY <3>1, CloseTypes DEF Types
  <2>3. QED
    BY <2>1, <2>2
<1>4. CASE OwnerClose
  BY <1>4, CloseTypes DEF OwnerClose, Types
<1>5. CASE TransportError
  <2>1. RejectPending({})
    BY <1>5 DEF TransportError
  <2>2. QED
    BY <1>5, <2>1, RejectPendingTypes DEF TransportError, Types, history, firefox
<1>6. CASE TransportClose
  <2>1. RejectPending({})
    BY <1>6 DEF TransportClose
  <2>2. QED
    BY <1>6, <2>1, RejectPendingTypes DEF TransportClose, Types, history, firefox
<1>7. ASSUME NEW a \in Actors, NEW life \in Lifetimes \cup {NoLifetime}, Request(a, life)
      PROVE  Types'
  <2>1. nextRequestId \in RequestId /\ nextRequestId' \in 1..(MaxRequests + 1)
    BY <1>7, NextIdIsRequest DEF Request, MayRequest
  <2>2. /\ pending' \in [Actors -> Seq(RequestId)]
        /\ server' \in [Actors -> Seq(RequestId)]
    BY <1>7, <2>1 DEF Request, Types
  <2>3. QED
    BY <1>7, <2>1, <2>2 DEF Request, Types, Verdicts
<1>8. ASSUME NEW a \in Actors, NEW life \in Lifetimes \cup {NoLifetime},
             RequestUnsendable(a, life)
      PROVE  Types'
  <2>1. nextRequestId' \in 1..(MaxRequests + 1)
    BY <1>8, NextIdIsRequest DEF RequestUnsendable, MayRequest
  <2>2. QED
    BY <1>8, <2>1, CloseTypes DEF RequestUnsendable, Types
<1>9. ASSUME NEW a \in Actors, NEW life \in Lifetimes \cup {NoLifetime},
             RequestOverLimit(a, life)
      PROVE  Types'
  BY <1>9, CloseTypes DEF RequestOverLimit, Types
<1>10. ASSUME NEW a \in Actors, NEW how \in {"resolved", "error"}, DeliverReply(a, how)
       PROVE  Types'
  <2>1. server' \in [Actors -> Seq(RequestId)] /\ Head(server[a]) \in RequestId
    BY <1>10, SeqParts DEF DeliverReply, Types
  <2>2. CASE a \notin retiredActors /\ pending[a] # <<>>
    <3>1. Head(pending[a]) \in RequestId /\ Tail(pending[a]) \in Seq(RequestId)
      BY <2>2, SeqParts DEF Types
    <3>2. pending' = [pending EXCEPT ![a] = Tail(@)]
      BY <1>10, <2>2 DEF DeliverReply
    <3>3. pending' \in [Actors -> Seq(RequestId)]
      BY <3>1, <3>2 DEF Types
    <3>4. /\ outcome' = [outcome EXCEPT ![Head(pending[a])] = how]
          /\ answeredBy' = [answeredBy EXCEPT ![Head(pending[a])] = Head(server[a])]
      BY <1>10, <2>2 DEF DeliverReply
    <3>5. outcome' \in [RequestId -> Verdicts] /\ answeredBy' \in [RequestId -> RequestId \cup {0}]
      BY <2>1, <3>4 DEF Types, Verdicts
    <3>6. QED
      BY <1>10, <2>1, <3>3, <3>5 DEF DeliverReply, Types
  <2>3. CASE ~(a \notin retiredActors /\ pending[a] # <<>>)
    BY <1>10, <2>1, <2>3 DEF DeliverReply, Types
  <2>4. QED
    BY <2>2, <2>3
<1>11. ASSUME NEW a \in Threads, Send(a) \/ DeliverEvent(a)
       PROVE  Types'
  <2>1. a \in Actors /\ acks[a] \in Nat /\ refusals[a] \in Seq(Nat) /\ nextRequestId \in Nat
    BY ClientAssumption DEF Types
  <2>2. acks' \in [Actors -> Nat] /\ refusals' \in [Actors -> Seq(Nat)]
    <3>1. CASE Send(a)
      <4>1. Append(refusals[a], nextRequestId) \in Seq(Nat)
        BY <2>1
      <4>2. QED
        BY <2>1, <3>1, <4>1, AcknowledgedOrRefused
    <3>2. CASE DeliverEvent(a)
      <4>1. acks[a] - 1 \in Nat
        BY <2>1, <3>2 DEF DeliverEvent
      <4>2. QED
        BY <3>2, <4>1 DEF DeliverEvent, Types
    <3>3. QED
      BY <1>11, <3>1, <3>2
  <2>3. UNCHANGED <<rdpVars, socket, server>>
    BY <1>11 DEF Send, DeliverEvent
  <2>4. QED
    BY <2>2, <2>3 DEF rdpVars, Types
<1>12. ASSUME NEW r \in RequestId, RequestTimeout(r)
       PROVE  Types'
  BY <1>12, CloseTypes DEF RequestTimeout, Types
<1>13. ASSUME NEW l \in Lifetimes, Abort(l)
       PROVE  Types'
  <2>1. retiredActors' \subseteq Actors
    BY <1>13 DEF Abort, RetireActors, Listening, Types
  <2>2. /\ pending' \in [Actors -> Seq(RequestId)]
        /\ outcome' \in [RequestId -> Verdicts]
    BY <1>13 DEF Abort, RetireActors, Types, Verdicts
  <2>3. QED
    BY <1>13, <2>1, <2>2 DEF Abort, Types, history, firefox
<1>14. ASSUME NEW l \in Lifetimes, NEW S \in SUBSET Actors, AbortOverLimit(l, S)
       PROVE  Types'
  BY <1>14, CloseTypes DEF AbortOverLimit, Types
<1>15. ASSUME NEW a \in Threads, SendUnsendable(a)
       PROVE  Types'
  BY <1>15, CloseTypes DEF SendUnsendable, Types
<1>16. ASSUME NEW a \in Threads, DeliverRefusal(a)
       PROVE  Types'
  <2>1. a \in Actors /\ refusals[a] # <<>> /\ refusals' = [refusals EXCEPT ![a] = Tail(@)]
    BY <1>16, ClientAssumption DEF DeliverRefusal, RefusalDue
  <2>2. refusals' \in [Actors -> Seq(Nat)]
    BY <2>1, SeqParts DEF Types
  <2>3. CASE a \notin retiredActors /\ pending[a] # <<>>
    <3>1. Head(pending[a]) \in RequestId /\ Tail(pending[a]) \in Seq(RequestId)
      BY <2>1, <2>3, SeqParts DEF Types
    <3>2. pending' \in [Actors -> Seq(RequestId)]
      BY <1>16, <2>3, <3>1 DEF DeliverRefusal, Types
    <3>3. outcome' = [outcome EXCEPT ![Head(pending[a])] = "error"] /\ misled' = misled \cup {a}
      BY <1>16, <2>3 DEF DeliverRefusal
    <3>4. outcome' \in [RequestId -> Verdicts] /\ misled' \subseteq Actors
      BY <2>1, <3>3 DEF Types, Verdicts
    <3>5. QED
      BY <1>16, <2>2, <3>2, <3>4 DEF DeliverRefusal, Types
  <2>4. CASE ~(a \notin retiredActors /\ pending[a] # <<>>)
    BY <1>16, <2>2, <2>4 DEF DeliverRefusal, Types
  <2>5. QED
    BY <2>3, <2>4
<1>17. CASE UNCHANGED vars
  BY <1>17 DEF vars, rdpVars, firefox, Types
<1>18. QED
  BY <1>1, <1>2, <1>3, <1>4, <1>5, <1>6, <1>7, <1>8, <1>9, <1>10, <1>11, <1>12, <1>13,
     <1>14, <1>15, <1>16, <1>17 DEF Next, MakeRequest

\* Every variable but the slot counter keeps its type, whatever the limits.
THEOREM TypesHold == Spec => []Types
<1>1. Types /\ [Next]_vars => Types'
  BY TypesStep
<1>2. QED
  BY TypesInit, <1>1, PTL DEF Spec

-----------------------------------------------------------------------------
(* The books: what the queues, the counter and the promises of the client have to do *)
(* with each other and with what Firefox still owes                                  *)

\* Nothing is queued on a closed client or for a retired actor.
Quiet ==
  \A a \in Actors : (closed \/ a \in retiredActors) => pending[a] = <<>>

\* The FIFO of a live actor is the end of what Firefox owes, in Firefox's order: all of it,
\* unless a refusal of the actor settled a request.
InStep ==
  \A a \in Actors : InUse(a) => /\ EndOf(pending[a], server[a])
                                /\ a \notin misled => pending[a] = server[a]

\* Firefox answers an actor's requests in the order they were made.
InOrder ==
  \A a \in Actors : Ascending(server[a]) /\ Below(server[a], nextRequestId)

\* The history knows the actor of what is queued, and no answer to it.
QueuedHistory ==
  /\ \A a \in Actors : \A i \in DOMAIN pending[a] : askedOf[pending[a][i]] = a
  /\ \A r \in RequestId : outcome[r] \in {"unsent", "pending"} => answeredBy[r] = 0

\* A promise is pending exactly as long as its request is queued.
PendingIsQueued ==
  \A r \in RequestId :
    outcome[r] = "pending" <=> \E a \in Actors : \E i \in DOMAIN pending[a] : pending[a][i] = r

\* Identifiers are not reused.
FreshUnsent ==
  \A r \in RequestId : nextRequestId <= r => outcome[r] = "unsent"

\* No request is queued twice.
QueuedOnce ==
  \A a, b \in Actors : \A i \in DOMAIN pending[a], j \in DOMAIN pending[b] :
    pending[a][i] = pending[b][j] => a = b /\ i = j

WithinLimit == pendingCount <= MaxPending

\* The client's own books: queues, counter and promises.
ClientBooks ==
  /\ Quiet
  /\ PendingIsQueued
  /\ FreshUnsent
  /\ QueuedOnce
  /\ SlotsAccounted
  /\ WithinLimit

Books ==
  /\ ClientBooks
  /\ InStep
  /\ InOrder
  /\ QueuedHistory
  /\ OwnReplyUnlessMisled

PendingRequests == {r \in RequestId : outcome[r] = "pending"}

LEMMA PendingRequestsFinite == IsFiniteSet(PendingRequests)
<1>1. IsFiniteSet(RequestId)
  BY ClientAssumption, FS_Interval DEF RequestId
<1>2. QED
  BY <1>1, FS_Subset DEF PendingRequests

LEMMA BooksInit == Init => Books
<1> SUFFICES ASSUME Init PROVE Books
  OBVIOUS
<1>1. /\ Quiet /\ InStep /\ InOrder /\ QueuedOnce /\ OwnReplyUnlessMisled /\ FreshUnsent
      /\ QueuedHistory /\ WithinLimit
  BY ClientAssumption
  DEF Init, Quiet, InStep, InOrder, EndOf, Ascending, Below, QueuedOnce, OwnReplyUnlessMisled,
      FreshUnsent, QueuedHistory, WithinLimit
<1>2. PendingIsQueued
  BY DEF Init, PendingIsQueued
<1>3. SlotsAccounted
  <2>1. {r \in RequestId : outcome[r] = "pending"} = {}
    BY DEF Init
  <2>2. QED
    BY <2>1, FS_EmptySet DEF Init, SlotsAccounted
<1>4. QED
  BY <1>1, <1>2, <1>3 DEF Books, ClientBooks

\* Whatever closes the client balances the books: every path through #rejectPending.
LEMMA ClosingBalances ==
  ASSUME Types, Books, NEW fresh \in SUBSET RequestId, RejectPending(fresh),
         closed', UNCHANGED <<history, server>>,
         nextRequestId' \in Int, nextRequestId <= nextRequestId',
         \A r \in fresh : r < nextRequestId'
  PROVE  Books'
<1>1. /\ pending' = [a \in Actors |-> <<>>] /\ pendingCount' = 0
      /\ outcome' = [r \in RequestId |-> IF r \in AllQueued \cup fresh THEN "rejected" ELSE outcome[r]]
      /\ askedOf' = askedOf /\ answeredBy' = answeredBy /\ misled' = misled /\ server' = server
  BY DEF RejectPending, history
<1>2. Quiet' /\ InStep' /\ QueuedOnce' /\ WithinLimit'
  BY <1>1, ClientAssumption DEF Quiet, InStep, InUse, QueuedOnce, WithinLimit
<1>3. \A r \in RequestId : outcome'[r] # "pending"
  BY <1>1 DEF Books, ClientBooks, PendingIsQueued, AllQueued, Queued
<1>4. PendingIsQueued'
  BY <1>1, <1>3 DEF PendingIsQueued
<1>5. FreshUnsent'
  <2> SUFFICES ASSUME NEW r \in RequestId, nextRequestId' <= r
               PROVE  outcome'[r] = "unsent"
    BY DEF FreshUnsent
  <2>1. nextRequestId <= r /\ r \notin fresh
    BY DEF RequestId, Types
  <2>2. outcome[r] = "unsent" /\ r \notin AllQueued
    BY <2>1 DEF Books, ClientBooks, FreshUnsent, PendingIsQueued, AllQueued, Queued
  <2>3. QED
    BY <1>1, <2>1, <2>2
<1>6. OwnReplyUnlessMisled' /\ QueuedHistory'
  BY <1>1 DEF Books, OwnReplyUnlessMisled, QueuedHistory
<1>7. InOrder'
  <2> SUFFICES ASSUME NEW a \in Actors
               PROVE  Ascending(server[a]) /\ Below(server[a], nextRequestId')
    BY <1>1 DEF InOrder
  <2>1. Ascending(server[a]) /\ Below(server[a], nextRequestId) /\ server[a] \in Seq(RequestId)
    BY DEF Books, InOrder, Types
  <2>2. \A i \in 1..Len(server[a]) : server[a][i] \in Int
    BY <2>1, QueueOfNumbers
  <2>3. nextRequestId \in Int
    BY DEF Types
  <2>4. \A i \in 1..Len(server[a]) : server[a][i] < nextRequestId'
    BY <2>1, <2>2, <2>3 DEF Below
  <2>5. QED
    BY <2>1, <2>4 DEF Below
<1>8. SlotsAccounted'
  <2>1. {r \in RequestId : outcome'[r] = "pending"} = {}
    BY <1>3
  <2>2. QED
    BY <1>1, <2>1, FS_EmptySet DEF SlotsAccounted
<1>9. QED
  BY <1>2, <1>4, <1>5, <1>6, <1>7, <1>8 DEF Books, ClientBooks

\* The same for RdpClient.close on an open client.
LEMMA CloseBalances ==
  ASSUME Types, Books, NEW fresh \in SUBSET RequestId, Close(fresh),
         nextRequestId' \in Int, nextRequestId <= nextRequestId',
         \A r \in fresh : r < nextRequestId'
  PROVE  Books'
  BY ClosingBalances DEF Close, firefox

\* A new request takes its place at the end of its queue, on both sides.
LEMMA RequestBalances ==
  ASSUME Types, Books, NEW a \in Actors, NEW life, Request(a, life)
  PROVE  Books'
<1> DEFINE n == nextRequestId
<1>1. n \in RequestId /\ n \in Int /\ nextRequestId' = n + 1
  BY NextIdIsRequest DEF Request, MayRequest, Types
<1>2. /\ pending' = [pending EXCEPT ![a] = Append(@, n)]
      /\ server' = [server EXCEPT ![a] = Append(@, n)]
      /\ outcome' = [outcome EXCEPT ![n] = "pending"]
      /\ askedOf' = [askedOf EXCEPT ![n] = a]
      /\ pendingCount' = pendingCount + 1 /\ pendingCount < MaxPending
      /\ ~closed /\ closed' = closed /\ a \notin retiredActors
      /\ retiredActors' = retiredActors /\ answeredBy' = answeredBy /\ misled' = misled
  BY DEF Request, MayRequest
<1>3. outcome[n] = "unsent"
  BY <1>1 DEF Books, ClientBooks, FreshUnsent
<1>4. \A b \in Actors : \A i \in DOMAIN pending[b] : pending[b][i] # n
  BY <1>1, <1>3 DEF Books, ClientBooks, PendingIsQueued
<1>5. \A b \in Actors : pending[b] \in Seq(RequestId)
  BY DEF Types
<1>6. /\ \A b \in Actors \ {a} : pending'[b] = pending[b]
      /\ DOMAIN pending'[a] = DOMAIN pending[a] \cup {Len(pending[a]) + 1}
      /\ Len(pending[a]) + 1 \notin DOMAIN pending[a]
      /\ \A i \in DOMAIN pending[a] : pending'[a][i] = pending[a][i]
      /\ pending'[a][Len(pending[a]) + 1] = n
  <2>1. pending'[a] = Append(pending[a], n) /\ pending[a] \in Seq(RequestId)
    BY <1>2, <1>5 DEF Types
  <2>2. QED
    BY <1>1, <1>2, <2>1 DEF Types
<1>7. Quiet'
  BY <1>2 DEF Books, ClientBooks, Quiet, Types
<1>8. PendingIsQueued'
  <2> SUFFICES ASSUME NEW r \in RequestId
               PROVE  outcome'[r] = "pending"
                        <=> \E b \in Actors : \E i \in DOMAIN pending'[b] : pending'[b][i] = r
    BY DEF PendingIsQueued
  <2>1. CASE r = n
    BY <1>1, <1>2, <1>6, <2>1 DEF Types
  <2>2. CASE r # n
    <3>1. outcome'[r] = outcome[r]
      BY <1>2, <2>2 DEF Types
    <3>2. (\E b \in Actors : \E i \in DOMAIN pending'[b] : pending'[b][i] = r)
            <=> \E b \in Actors : \E i \in DOMAIN pending[b] : pending[b][i] = r
      BY <1>6, <2>2
    <3>3. QED
      BY <3>1, <3>2 DEF Books, ClientBooks, PendingIsQueued
  <2>3. QED
    BY <2>1, <2>2
<1>9. FreshUnsent'
  BY <1>1, <1>2 DEF Books, ClientBooks, FreshUnsent, RequestId, Types
<1>10. QueuedOnce'
  BY <1>4, <1>6 DEF Books, ClientBooks, QueuedOnce
<1>11. OwnReplyUnlessMisled'
  BY <1>1, <1>2 DEF Books, OwnReplyUnlessMisled, Types
<1>12. SlotsAccounted'
  <2>1. {r \in RequestId : outcome'[r] = "pending"} = PendingRequests \cup {n}
    BY <1>1, <1>2 DEF PendingRequests, Types
  <2>2. n \notin PendingRequests
    BY <1>3 DEF PendingRequests
  <2>3. Cardinality(PendingRequests \cup {n}) = Cardinality(PendingRequests) + 1
    BY <2>2, PendingRequestsFinite, FS_AddElement
  <2>4. QED
    BY <1>2, <2>1, <2>3 DEF Books, ClientBooks, SlotsAccounted, PendingRequests
<1>13. /\ \A b \in Actors \ {a} : server'[b] = server[b]
       /\ server[a] \in Seq(RequestId) /\ pending[a] \in Seq(RequestId)
       /\ server'[a] = Append(server[a], n) /\ pending'[a] = Append(pending[a], n)
  BY <1>2 DEF Types
<1>14. InStep'
  <2> SUFFICES ASSUME NEW b \in Actors, InUse(b)
               PROVE  /\ EndOf(pending'[b], server'[b])
                      /\ b \notin misled => pending'[b] = server'[b]
    BY <1>2 DEF InStep, InUse
  <2>1. EndOf(pending[b], server[b]) /\ (b \notin misled => pending[b] = server[b])
    BY DEF Books, InStep
  <2>2. CASE b = a
    BY <1>1, <1>13, <2>1, <2>2, EndAppends
  <2>3. CASE b # a
    BY <1>6, <1>13, <2>1, <2>3
  <2>4. QED
    BY <2>2, <2>3
<1>15. InOrder'
  <2> SUFFICES ASSUME NEW b \in Actors
               PROVE  Ascending(server'[b]) /\ Below(server'[b], n + 1)
    BY <1>1 DEF InOrder
  <2>1. Ascending(server[b]) /\ Below(server[b], n) /\ server[b] \in Seq(RequestId)
    BY DEF Books, InOrder, Types
  <2>2. CASE b = a
    BY <1>1, <1>13, <2>1, <2>2, AscendingAppend
  <2>3. CASE b # a
    <3>1. Below(server[b], n + 1)
      <4>1. \A i \in 1..Len(server[b]) : server[b][i] \in Int /\ server[b][i] < n
        BY <2>1, QueueOfNumbers DEF Below
      <4>2. \A i \in 1..Len(server[b]) : server[b][i] < n + 1
        BY <1>1, <4>1
      <4>3. QED
        BY <4>2 DEF Below
    <3>2. QED
      BY <1>13, <2>1, <2>3, <3>1
  <2>4. QED
    BY <2>2, <2>3
<1>16. QueuedHistory'
  <2>1. \A b \in Actors : \A i \in DOMAIN pending'[b] : askedOf'[pending'[b][i]] = b
    <3> SUFFICES ASSUME NEW b \in Actors, NEW i \in DOMAIN pending'[b]
                 PROVE  askedOf'[pending'[b][i]] = b
      OBVIOUS
    <3>1. CASE b = a /\ i \notin DOMAIN pending[a]
      BY <1>1, <1>2, <1>6, <3>1 DEF Types
    <3>2. CASE b # a \/ i \in DOMAIN pending[a]
      <4>1. i \in DOMAIN pending[b] /\ pending'[b][i] = pending[b][i]
        BY <1>6, <3>2
      <4>2. pending[b][i] \in RequestId /\ pending[b][i] # n
        BY <1>4, <1>5, <4>1
      <4>3. QED
        BY <1>2, <4>1, <4>2 DEF Books, QueuedHistory, Types
    <3>3. QED
      BY <3>1, <3>2
  <2>2. \A r \in RequestId : outcome'[r] \in {"unsent", "pending"} => answeredBy'[r] = 0
    BY <1>1, <1>2, <1>3 DEF Books, QueuedHistory, Types
  <2>3. QED
    BY <2>1, <2>2 DEF QueuedHistory
<1>17. WithinLimit'
  <2>1. pendingCount \in Nat
    BY PendingRequestsFinite, FS_CardinalityType
    DEF Books, ClientBooks, SlotsAccounted, PendingRequests
  <2>2. QED
    BY <1>2, <2>1, ClientAssumption DEF WithinLimit
<1>18. QED
  BY <1>7, <1>8, <1>9, <1>10, <1>11, <1>12, <1>14, <1>15, <1>16, <1>17 DEF Books, ClientBooks

\* What leaves the books alone.
LEMMA BooksUnchanged ==
  ASSUME Books,
         UNCHANGED <<pending, pendingCount, retiredActors, closed, nextRequestId, outcome,
                     history, server>>
  PROVE  Books'
<1>1. ClientBooks'
  BY DEF Books, ClientBooks, Quiet, PendingIsQueued, FreshUnsent, QueuedOnce, SlotsAccounted,
         WithinLimit
<1>2. InStep' /\ InOrder'
  BY DEF Books, InStep, InUse, InOrder, history
<1>3. QueuedHistory' /\ OwnReplyUnlessMisled'
  BY DEF Books, QueuedHistory, OwnReplyUnlessMisled, history
<1>4. QED
  BY <1>1, <1>2, <1>3 DEF Books

\* Whatever settles the oldest request of an actor, the client's own books balance.
LEMMA SettlingBalances ==
  ASSUME Types, Books, NEW a \in Actors, NEW how \in {"resolved", "error"},
         a \notin retiredActors, pending[a] # <<>>,
         pending' = [pending EXCEPT ![a] = Tail(@)],
         pendingCount' = pendingCount - 1,
         outcome' = [outcome EXCEPT ![Head(pending[a])] = how],
         UNCHANGED <<closed, retiredActors, nextRequestId, askedOf>>
  PROVE  /\ ClientBooks'
         /\ \A b \in Actors : \A i \in DOMAIN pending'[b] : askedOf'[pending'[b][i]] = b
<1> DEFINE r0 == Head(pending[a])
<1>7. /\ pending' = [pending EXCEPT ![a] = Tail(@)]
      /\ pendingCount' = pendingCount - 1
      /\ outcome' = [outcome EXCEPT ![r0] = how]
      /\ closed' = closed /\ retiredActors' = retiredActors /\ nextRequestId' = nextRequestId
      /\ askedOf' = askedOf
  OBVIOUS
<1>1. pending' = [pending EXCEPT ![a] = Tail(@)] /\ outcome' = [outcome EXCEPT ![r0] = how]
      /\ pendingCount' = pendingCount - 1
  OBVIOUS
<1>3. /\ pending[a] \in Seq(RequestId) /\ r0 \in RequestId /\ r0 = pending[a][1]
      /\ 1 \in DOMAIN pending[a]
  BY SeqParts DEF Types
<1>4. outcome[r0] = "pending"
  BY <1>3 DEF Books, ClientBooks, PendingIsQueued
<1>5. /\ \A b \in Actors \ {a} : pending'[b] = pending[b]
      /\ pending'[a] = Tail(pending[a])
  BY <1>1 DEF Types
<1>6. /\ \A i \in DOMAIN pending'[a] :
           i \in Nat \ {0} /\ i + 1 \in DOMAIN pending[a] /\ pending'[a][i] = pending[a][i + 1]
      /\ \A i \in DOMAIN pending[a] :
           i = 1 \/ (i \in Int /\ i - 1 \in DOMAIN pending'[a] /\ pending'[a][i - 1] = pending[a][i])
  <2> DEFINE q == pending[a]
  <2>1. q \in Seq(RequestId) /\ q # <<>> /\ pending'[a] = Tail(q)
    BY <1>3, <1>5
  <2> HIDE DEF q
  <2>2. /\ \A i \in DOMAIN Tail(q) : i \in Nat \ {0} /\ i + 1 \in DOMAIN q /\ Tail(q)[i] = q[i + 1]
        /\ \A i \in DOMAIN q : i = 1 \/ (i \in Int /\ i - 1 \in DOMAIN Tail(q) /\ Tail(q)[i - 1] = q[i])
    BY <2>1
  <2>3. QED
    BY <2>1, <2>2 DEF q
<1>8. PendingIsQueued'
  <2> SUFFICES ASSUME NEW r \in RequestId
               PROVE  outcome'[r] = "pending"
                        <=> \E b \in Actors : \E i \in DOMAIN pending'[b] : pending'[b][i] = r
    BY DEF PendingIsQueued
  <2>1. CASE r = r0
    <3>1. \A b \in Actors : \A i \in DOMAIN pending'[b] : pending'[b][i] # r
      <4> SUFFICES ASSUME NEW b \in Actors, NEW i \in DOMAIN pending'[b], pending'[b][i] = r
                   PROVE  FALSE
        OBVIOUS
      <4>1. CASE b = a
        <5>1. i \in Nat \ {0} /\ i + 1 \in DOMAIN pending[a] /\ pending[a][i + 1] = pending[a][1]
          BY <1>3, <1>6, <2>1, <4>1
        <5>2. i + 1 = 1
          BY <1>3, <5>1 DEF Books, ClientBooks, QueuedOnce
        <5>3. QED
          BY <5>1, <5>2
      <4>2. CASE b # a
        <5>1. i \in DOMAIN pending[b] /\ pending[b][i] = pending[a][1]
          BY <1>3, <1>5, <2>1, <4>2
        <5>2. QED
          BY <1>3, <4>2, <5>1 DEF Books, ClientBooks, QueuedOnce
      <4>3. QED
        BY <4>1, <4>2
    <3>2. QED
      BY <1>1, <1>3, <2>1, <3>1 DEF Types
  <2>2. CASE r # r0
    <3>1. outcome'[r] = outcome[r]
      BY <1>1, <2>2 DEF Types
    <3>2. (\E b \in Actors : \E i \in DOMAIN pending'[b] : pending'[b][i] = r)
            <=> \E b \in Actors : \E i \in DOMAIN pending[b] : pending[b][i] = r
      <4>1. ASSUME NEW b \in Actors, NEW i \in DOMAIN pending'[b], pending'[b][i] = r
            PROVE  \E c \in Actors : \E j \in DOMAIN pending[c] : pending[c][j] = r
        BY <1>5, <1>6, <4>1
      <4>2. ASSUME NEW b \in Actors, NEW i \in DOMAIN pending[b], pending[b][i] = r
            PROVE  \E c \in Actors : \E j \in DOMAIN pending'[c] : pending'[c][j] = r
        <5>1. CASE b = a
          <6>1. i # 1
            BY <1>3, <2>2, <4>2, <5>1
          <6>2. i - 1 \in DOMAIN pending'[a] /\ pending'[a][i - 1] = r
            BY <1>6, <4>2, <5>1, <6>1
          <6>3. QED
            BY <6>2
        <5>2. CASE b # a
          BY <1>5, <4>2, <5>2
        <5>3. QED
          BY <5>1, <5>2
      <4>3. QED
        BY <4>1, <4>2
    <3>3. QED
      BY <3>1, <3>2 DEF Books, ClientBooks, PendingIsQueued
  <2>3. QED
    BY <2>1, <2>2
<1>9. FreshUnsent'
  BY <1>7, <1>1, <1>3, <1>4 DEF Books, ClientBooks, FreshUnsent, Types
<1>10. QueuedOnce'
  <2> SUFFICES ASSUME NEW b \in Actors, NEW c \in Actors,
                      NEW i \in DOMAIN pending'[b], NEW j \in DOMAIN pending'[c],
                      pending'[b][i] = pending'[c][j]
               PROVE  b = c /\ i = j
    BY DEF QueuedOnce
  <2> DEFINE Old(d, n) == IF d = a THEN n + 1 ELSE n
  <2>1. /\ Old(b, i) \in DOMAIN pending[b] /\ pending[b][Old(b, i)] = pending'[b][i]
        /\ Old(c, j) \in DOMAIN pending[c] /\ pending[c][Old(c, j)] = pending'[c][j]
    BY <1>5, <1>6
  <2>2. b = c /\ Old(b, i) = Old(c, j)
    BY <2>1 DEF Books, ClientBooks, QueuedOnce
  <2>3. b = a => i \in Int /\ j \in Int
    BY <1>6, <2>2
  <2>4. QED
    BY <2>2, <2>3
<1>12. SlotsAccounted'
  <2>1. {r \in RequestId : outcome'[r] = "pending"} = PendingRequests \ {r0}
    BY <1>1, <1>3 DEF PendingRequests, Types
  <2>2. Cardinality(PendingRequests \ {r0}) = Cardinality(PendingRequests) - 1
    <3>1. r0 \in PendingRequests
      BY <1>3, <1>4 DEF PendingRequests
    <3> HIDE DEF r0
    <3>2. QED
      BY <3>1, PendingRequestsFinite, FS_RemoveElement
  <2>3. QED
    BY <1>1, <2>1, <2>2 DEF Books, ClientBooks, SlotsAccounted, PendingRequests
<1>13. WithinLimit'
  <2>1. pendingCount \in Nat
    BY PendingRequestsFinite, FS_CardinalityType
    DEF Books, ClientBooks, SlotsAccounted, PendingRequests
  <2>2. QED
    BY <1>7, <2>1, ClientAssumption DEF Books, ClientBooks, WithinLimit
<1>14. \A b \in Actors : \A i \in DOMAIN pending'[b] : askedOf'[pending'[b][i]] = b
  BY <1>5, <1>6, <1>7 DEF Books, QueuedHistory
<1>15. Quiet'
  <2> SUFFICES ASSUME NEW b \in Actors, closed \/ b \in retiredActors
               PROVE  pending'[b] = <<>>
    BY <1>7 DEF Quiet
  <2>1. b # a
    BY DEF Books, ClientBooks, Quiet
  <2>2. QED
    BY <1>5, <2>1 DEF Books, ClientBooks, Quiet
<1>16. QED
  BY <1>8, <1>9, <1>10, <1>12, <1>13, <1>14, <1>15 DEF ClientBooks

\* A reply settles the oldest request of its actor: the one Firefox answered, or, behind a
\* refusal that was taken for a reply, a later one.
LEMMA DeliverReplyBalances ==
  ASSUME Types, Books, NEW a \in Actors, NEW how \in {"resolved", "error"},
         DeliverReply(a, how)
  PROVE  Books'
<1> DEFINE r0 == Head(pending[a])
<1>1. /\ server[a] # <<>> /\ server' = [server EXCEPT ![a] = Tail(@)]
      /\ closed' = closed /\ retiredActors' = retiredActors /\ nextRequestId' = nextRequestId
      /\ askedOf' = askedOf /\ misled' = misled
  BY DEF DeliverReply
<1>2. /\ \A b \in Actors \ {a} : server'[b] = server[b]
      /\ server[a] \in Seq(RequestId) /\ pending[a] \in Seq(RequestId)
      /\ server'[a] = Tail(server[a]) /\ Tail(server[a]) \in Seq(RequestId)
  BY <1>1, SeqParts DEF Types
<1>3. InOrder'
  <2> SUFFICES ASSUME NEW b \in Actors
               PROVE  Ascending(server'[b]) /\ Below(server'[b], nextRequestId)
    BY <1>1 DEF InOrder
  <2>1. Ascending(server[b]) /\ Below(server[b], nextRequestId)
    BY DEF Books, InOrder
  <2>2. QED
    BY <1>1, <1>2, <2>1, AscendingTail
<1>4. CASE ~(a \notin retiredActors /\ pending[a] # <<>>)
  <2>1. UNCHANGED <<pending, pendingCount, outcome, answeredBy>>
    BY <1>4 DEF DeliverReply
  <2>2. InStep'
    <3> SUFFICES ASSUME NEW b \in Actors, InUse(b)
                 PROVE  /\ EndOf(pending[b], server'[b])
                        /\ b \notin misled => pending[b] = server'[b]
      BY <1>1, <2>1 DEF InStep, InUse
    <3>1. CASE b = a
      <4>1. pending[a] = <<>>
        BY <1>4, <3>1 DEF InUse
      <4>2. a \in misled
        BY <1>1, <3>1, <4>1 DEF Books, InStep
      <4>3. QED
        BY <1>2, <3>1, <4>1, <4>2, EmptyEnd
    <3>2. CASE b # a
      BY <1>2, <3>2 DEF Books, InStep
    <3>3. QED
      BY <3>1, <3>2
  <2>3. ClientBooks'
    BY <1>1, <2>1
    DEF Books, ClientBooks, Quiet, PendingIsQueued, FreshUnsent, QueuedOnce, SlotsAccounted, WithinLimit
  <2>4. QueuedHistory' /\ OwnReplyUnlessMisled'
    BY <1>1, <2>1 DEF Books, QueuedHistory, OwnReplyUnlessMisled
  <2>5. QED
    BY <1>3, <2>2, <2>3, <2>4 DEF Books
<1>5. CASE a \notin retiredActors /\ pending[a] # <<>>
  <2>1. /\ pending' = [pending EXCEPT ![a] = Tail(@)]
        /\ pendingCount' = pendingCount - 1
        /\ outcome' = [outcome EXCEPT ![r0] = how]
        /\ answeredBy' = [answeredBy EXCEPT ![r0] = Head(server[a])]
    BY <1>5 DEF DeliverReply
  <2>2. /\ ClientBooks'
        /\ \A b \in Actors : \A i \in DOMAIN pending'[b] : askedOf'[pending'[b][i]] = b
    BY <1>1, <1>5, <2>1, SettlingBalances
  <2>3. EndOf(pending[a], server[a]) /\ (a \notin misled => pending[a] = server[a])
    BY <1>5 DEF Books, ClientBooks, Quiet, InUse, InStep
  <2>4. /\ \A b \in Actors \ {a} : pending'[b] = pending[b]
        /\ pending'[a] = Tail(pending[a])
    BY <2>1 DEF Types
  <2>5. EndOf(Tail(pending[a]), Tail(server[a])) /\ r0 \in RequestId
    BY <1>2, <1>5, <2>3, EndTails
  <2>6. InStep'
    <3> SUFFICES ASSUME NEW b \in Actors, InUse(b)
                 PROVE  /\ EndOf(pending'[b], server'[b])
                        /\ b \notin misled => pending'[b] = server'[b]
      BY <1>1 DEF InStep, InUse
    <3>1. CASE b = a
      BY <1>2, <2>3, <2>4, <2>5, <3>1
    <3>2. CASE b # a
      BY <1>2, <2>4, <3>2 DEF Books, InStep
    <3>3. QED
      BY <3>1, <3>2
  <2>7. Head(server[a]) = r0 \/ (a \in misled /\ Head(server[a]) < r0)
    <3>1. Ascending(server[a])
      BY DEF Books, InOrder
    <3>2. Head(server[a]) = r0 \/ Head(server[a]) < r0
      BY <1>2, <1>5, <2>3, <3>1, HeadOfEnd
    <3>3. QED
      BY <2>3, <3>2
  <2>8. askedOf[r0] = a
    BY <1>2, <1>5, SeqParts DEF Books, QueuedHistory
  <2>9. OwnReplyUnlessMisled'
    <3> SUFFICES ASSUME NEW r \in RequestId, outcome'[r] \in {"resolved", "error"}
                 PROVE  answeredBy'[r] = r \/ (askedOf[r] \in misled /\ answeredBy'[r] < r)
      BY <1>1 DEF OwnReplyUnlessMisled
    <3> HIDE DEF r0
    <3>1. CASE r = r0
      BY <2>1, <2>5, <2>7, <2>8, <3>1 DEF Types
    <3>2. CASE r # r0
      BY <2>1, <2>5, <3>2 DEF Books, OwnReplyUnlessMisled, Types
    <3>3. QED
      BY <3>1, <3>2
  <2>10. QueuedHistory'
    <3> HIDE DEF r0
    <3>1. \A r \in RequestId : outcome'[r] \in {"unsent", "pending"} => answeredBy'[r] = 0
      BY <2>1, <2>5 DEF Books, QueuedHistory, Types
    <3>2. QED
      BY <2>2, <3>1 DEF QueuedHistory
  <2>11. QED
    BY <1>3, <2>2, <2>6, <2>9, <2>10 DEF Books
<1>6. QED
  BY <1>4, <1>5

\* A refusal that settles a request misleads: what Firefox owes runs behind by one more.
LEMMA DeliverRefusalBalances ==
  ASSUME Types, Books, NEW a \in Actors, DeliverRefusal(a)
  PROVE  Books'
<1> DEFINE r0 == Head(pending[a])
<1>1. UNCHANGED <<closed, retiredActors, nextRequestId, askedOf, answeredBy, server>>
  BY DEF DeliverRefusal
<1>2. CASE ~(a \notin retiredActors /\ pending[a] # <<>>)
  <2>1. UNCHANGED <<pending, pendingCount, outcome, misled>>
    BY <1>2 DEF DeliverRefusal
  <2>2. QED
    BY <1>1, <2>1, BooksUnchanged DEF history
<1>3. CASE a \notin retiredActors /\ pending[a] # <<>>
  <2>1. /\ pending' = [pending EXCEPT ![a] = Tail(@)]
        /\ pendingCount' = pendingCount - 1
        /\ outcome' = [outcome EXCEPT ![r0] = "error"]
        /\ misled' = misled \cup {a}
    BY <1>3 DEF DeliverRefusal
  <2>2. /\ ClientBooks'
        /\ \A b \in Actors : \A i \in DOMAIN pending'[b] : askedOf'[pending'[b][i]] = b
    BY <1>1, <1>3, <2>1, SettlingBalances
  <2>3. EndOf(pending[a], server[a])
    BY <1>3 DEF Books, ClientBooks, Quiet, InUse, InStep
  <2>4. /\ \A b \in Actors \ {a} : pending'[b] = pending[b]
        /\ pending'[a] = Tail(pending[a])
        /\ pending[a] \in Seq(RequestId) /\ server[a] \in Seq(RequestId)
    BY <2>1 DEF Types
  <2>5. EndOf(Tail(pending[a]), server[a]) /\ r0 \in RequestId
    BY <1>3, <2>3, <2>4, EndTails
  <2>6. InStep'
    <3> SUFFICES ASSUME NEW b \in Actors, InUse(b)
                 PROVE  /\ EndOf(pending'[b], server[b])
                        /\ b \notin misled' => pending'[b] = server[b]
      BY <1>1 DEF InStep, InUse
    <3>1. CASE b = a
      BY <2>1, <2>4, <2>5, <3>1
    <3>2. CASE b # a
      BY <2>1, <2>4, <3>2 DEF Books, InStep
    <3>3. QED
      BY <3>1, <3>2
  <2>7. InOrder'
    BY <1>1 DEF Books, InOrder
  <2>8. askedOf[r0] = a /\ answeredBy[r0] = 0 /\ 0 < r0
    <3>1. r0 = pending[a][1] /\ 1 \in DOMAIN pending[a]
      BY <1>3, <2>4, SeqParts
    <3>2. outcome[r0] = "pending" /\ askedOf[r0] = a
      BY <2>5, <3>1 DEF Books, ClientBooks, PendingIsQueued, QueuedHistory
    <3> HIDE DEF r0
    <3>3. QED
      BY <2>5, <3>2 DEF Books, QueuedHistory, RequestId
  <2> HIDE DEF r0
  <2>9. OwnReplyUnlessMisled'
    BY <1>1, <2>1, <2>5, <2>8 DEF Books, OwnReplyUnlessMisled, Types
  <2>10. \A r \in RequestId : outcome'[r] \in {"unsent", "pending"} => answeredBy'[r] = 0
    BY <1>1, <2>1, <2>5 DEF Books, QueuedHistory, Types
  <2>11. QED
    BY <2>2, <2>6, <2>7, <2>9, <2>10 DEF Books, QueuedHistory
<1>4. QED
  BY <1>2, <1>3

\* Retirement gives back exactly the slots of the queues it empties.
LEMMA RetireBalances ==
  ASSUME Types, Books, NEW S \in SUBSET Actors, RetireActors(S),
         UNCHANGED <<closed, nextRequestId, history, server>>
  PROVE  Books'
<1> DEFINE T == UNION {Queued(a) : a \in S}
<1>1. /\ retiredActors' = retiredActors \cup S
      /\ outcome' = [r \in RequestId |->
                       IF \E a \in S : r \in Queued(a) THEN "rejected" ELSE outcome[r]]
      /\ pending' = [a \in Actors |-> IF a \in S THEN <<>> ELSE pending[a]]
      /\ pendingCount' = pendingCount - Cardinality(T)
      /\ askedOf' = askedOf /\ answeredBy' = answeredBy /\ misled' = misled
  BY DEF RetireActors, history
<1>2. \A r : r \in T <=> \E a \in S : \E i \in DOMAIN pending[a] : pending[a][i] = r
  BY DEF Queued
<1>3. \A r \in RequestId : outcome'[r] = IF r \in T THEN "rejected" ELSE outcome[r]
  BY <1>1
<1>4. T \subseteq PendingRequests
  <2>1. \A a \in S : pending[a] \in Seq(RequestId)
    BY DEF Types
  <2>2. \A a \in S : \A i \in DOMAIN pending[a] : pending[a][i] \in RequestId
    BY <2>1
  <2>3. QED
    BY <1>2, <2>2 DEF Books, ClientBooks, PendingIsQueued, PendingRequests
<1>5. Quiet' /\ InStep' /\ QueuedOnce'
  <2>1. \A b \in Actors \ S : pending'[b] = pending[b]
    BY <1>1
  <2>2. InStep'
    <3> SUFFICES ASSUME NEW b \in Actors, InUse(b)'
                 PROVE  EndOf(pending'[b], server[b]) /\ (b \notin misled => pending'[b] = server[b])
      BY <1>1 DEF InStep, history
    <3>1. b \notin S /\ InUse(b)
      BY <1>1 DEF InUse
    <3>2. QED
      BY <2>1, <3>1 DEF Books, InStep
  <2>3. Quiet' /\ QueuedOnce'
    BY <1>1 DEF Books, ClientBooks, Quiet, QueuedOnce
  <2>4. QED
    BY <2>2, <2>3
<1>6. PendingIsQueued'
  <2> SUFFICES ASSUME NEW r \in RequestId
               PROVE  outcome'[r] = "pending"
                        <=> \E b \in Actors : \E i \in DOMAIN pending'[b] : pending'[b][i] = r
    BY DEF PendingIsQueued
  <2>1. (\E b \in Actors : \E i \in DOMAIN pending'[b] : pending'[b][i] = r)
          <=> \E b \in Actors \ S : \E i \in DOMAIN pending[b] : pending[b][i] = r
    BY <1>1
  <2>2. CASE r \in T
    <3>1. ~ \E b \in Actors \ S : \E i \in DOMAIN pending[b] : pending[b][i] = r
      BY <1>2, <2>2 DEF Books, ClientBooks, QueuedOnce
    <3>2. QED
      BY <1>3, <2>1, <2>2, <3>1
  <2>3. CASE r \notin T
    <3>1. (\E b \in Actors \ S : \E i \in DOMAIN pending[b] : pending[b][i] = r)
            <=> \E b \in Actors : \E i \in DOMAIN pending[b] : pending[b][i] = r
      BY <1>2, <2>3
    <3>2. QED
      BY <1>3, <2>1, <2>3, <3>1 DEF Books, ClientBooks, PendingIsQueued
  <2>4. QED
    BY <2>2, <2>3
<1>7. FreshUnsent'
  BY <1>3, <1>4 DEF Books, ClientBooks, FreshUnsent, PendingRequests
<1>8. OwnReplyUnlessMisled' /\ QueuedHistory' /\ InOrder'
  BY <1>1, <1>3 DEF Books, OwnReplyUnlessMisled, QueuedHistory, InOrder
<1>9. SlotsAccounted'
  <2>1. {r \in RequestId : outcome'[r] = "pending"} = PendingRequests \ T
    BY <1>3 DEF PendingRequests
  <2>2. Cardinality(PendingRequests \ T) = Cardinality(PendingRequests) - Cardinality(T)
    <3> HIDE DEF T
    <3>1. PendingRequests \cap T = T
      BY <1>4
    <3>2. Cardinality(PendingRequests \ T)
            = Cardinality(PendingRequests) - Cardinality(PendingRequests \cap T)
      BY PendingRequestsFinite, FS_Difference
    <3>3. QED
      BY <3>1, <3>2
  <2>3. QED
    BY <1>1, <2>1, <2>2 DEF Books, ClientBooks, SlotsAccounted, PendingRequests
<1>10. WithinLimit'
  <2>1. pendingCount \in Nat
    BY PendingRequestsFinite, FS_CardinalityType
    DEF Books, ClientBooks, SlotsAccounted, PendingRequests
  <2>2. Cardinality(T) \in Nat
    <3> HIDE DEF T
    <3>1. QED
      BY <1>4, PendingRequestsFinite, FS_Subset, FS_CardinalityType
  <2>3. QED
    BY <1>1, <2>1, <2>2, ClientAssumption DEF Books, ClientBooks, WithinLimit
<1>11. QED
  BY <1>5, <1>6, <1>7, <1>8, <1>9, <1>10 DEF Books, ClientBooks

LEMMA BooksStep == Types /\ Books /\ [Next]_vars => Books'
<1> SUFFICES ASSUME Types, Books, [Next]_vars
             PROVE  Books'
  OBVIOUS
<1> nextRequestId \in Int
  BY DEF Types
<1>1. CASE Greeting
  BY <1>1, BooksUnchanged DEF Greeting, firefox
<1>2. CASE ConnectReturns
  BY <1>2, BooksUnchanged DEF ConnectReturns, firefox
<1>3. CASE ConnectFails
  <2>1. CASE closed
    BY <1>3, <2>1, BooksUnchanged DEF ConnectFails, firefox
  <2>2. CASE ~closed
    BY <1>3, <2>2, CloseBalances DEF ConnectFails
  <2>3. QED
    BY <2>1, <2>2
<1>4. CASE OwnerClose
  BY <1>4, CloseBalances DEF OwnerClose
<1>5. CASE TransportError
  BY <1>5, ClosingBalances DEF TransportError, firefox
<1>6. CASE TransportClose
  BY <1>6, ClosingBalances DEF TransportClose, firefox
<1>7. ASSUME NEW a \in Actors, NEW life \in Lifetimes \cup {NoLifetime}, MakeRequest(a, life)
      PROVE  Books'
  <2>1. CASE Request(a, life)
    BY <2>1, RequestBalances
  <2>2. CASE RequestUnsendable(a, life)
    <3>1. nextRequestId \in RequestId /\ nextRequestId' = nextRequestId + 1
      BY <2>2, NextIdIsRequest DEF RequestUnsendable, MayRequest
    <3>2. QED
      BY <2>2, <3>1, CloseBalances DEF RequestUnsendable
  <2>3. CASE RequestOverLimit(a, life)
    BY <2>3, CloseBalances DEF RequestOverLimit
  <2>4. QED
    BY <1>7, <2>1, <2>2, <2>3 DEF MakeRequest
<1>8. ASSUME NEW a \in Actors, NEW how \in {"resolved", "error"}, DeliverReply(a, how)
      PROVE  Books'
  BY <1>8, DeliverReplyBalances
<1>9. ASSUME NEW r \in RequestId, RequestTimeout(r)
      PROVE  Books'
  BY <1>9, CloseBalances DEF RequestTimeout
<1>10. ASSUME NEW l \in Lifetimes, Abort(l)
       PROVE  Books'
  <2>1. Listening(l) \in SUBSET Actors
    BY DEF Listening
  <2>2. QED
    BY <1>10, <2>1, RetireBalances DEF Abort, firefox
<1>11. ASSUME NEW a \in Threads,
              Send(a) \/ SendUnsendable(a) \/ DeliverEvent(a) \/ DeliverRefusal(a)
       PROVE  Books'
  <2>1. a \in Actors
    BY ClientAssumption
  <2>2. CASE Send(a) \/ DeliverEvent(a)
    BY <2>2, BooksUnchanged DEF Send, DeliverEvent, rdpVars, history
  <2>3. CASE SendUnsendable(a)
    BY <2>3, CloseBalances DEF SendUnsendable
  <2>4. QED
    BY <1>11, <2>1, <2>2, <2>3, DeliverRefusalBalances
<1>12. ASSUME NEW l \in Lifetimes, NEW S \in SUBSET Actors, AbortOverLimit(l, S)
       PROVE  Books'
  BY <1>12, CloseBalances DEF AbortOverLimit
<1>13. CASE UNCHANGED vars
  BY <1>13, BooksUnchanged DEF vars, rdpVars, history, firefox
<1>14. QED
  BY <1>1, <1>2, <1>3, <1>4, <1>5, <1>6, <1>7, <1>8, <1>9, <1>10, <1>11, <1>12, <1>13 DEF Next

\* The books balance in every reachable state.
THEOREM BooksBalance == Spec => [](Types /\ Books)
<1>1. Types /\ Books /\ [Next]_vars => (Types /\ Books)'
  BY TypesStep, BooksStep
<1>2. QED
  BY TypesInit, BooksInit, <1>1, PTL DEF Spec

\* Type correctness, the slot counter between 0 and its limit included: it must count, for a
\* slot given back twice would take it below zero.
THEOREM TypeCorrect == Spec => []TypeOK
<1>1. Types /\ Books => TypeOK
  <2> SUFFICES ASSUME Types, Books PROVE TypeOK
    OBVIOUS
  <2>1. pendingCount \in Nat
    BY PendingRequestsFinite, FS_CardinalityType
    DEF Books, ClientBooks, SlotsAccounted, PendingRequests
  <2>2. pendingCount \in 0..MaxPending
    BY <2>1, ClientAssumption DEF Books, ClientBooks, WithinLimit
  <2>3. QED
    BY <2>2 DEF Types, TypeOK
<1>2. QED
  BY <1>1, BooksBalance, PTL

\* Reply correlation: a request is settled by Firefox's answer to that very request, unless
\* an error that refused a slotless send of its actor has been taken for a reply.
THEOREM RepliesAreOwn == Spec => []OwnReplyUnlessMisled
<1>1. Books => OwnReplyUnlessMisled
  BY DEF Books
<1>2. QED
  BY <1>1, BooksBalance, PTL

\* A promise that is still pending belongs to an open client and to a queue.
THEOREM NobodyStranded == Spec => []NoStrandedCaller
<1>1. Types /\ Books => NoStrandedCaller
  BY DEF Books, ClientBooks, Types, Quiet, PendingIsQueued, NoStrandedCaller, AllQueued, Queued
<1>2. QED
  BY <1>1, BooksBalance, PTL

\* The slot counter counts the pending requests, so that the 1024 limit means what it says.
THEOREM SlotsAreAccounted == Spec => []SlotsAccounted
<1>1. Books => SlotsAccounted
  BY DEF Books, ClientBooks
<1>2. QED
  BY <1>1, BooksBalance, PTL

-----------------------------------------------------------------------------
(* Steps *)

\* No step takes a tombstone away, or asks anything of a retired actor.
LEMMA RetiredStep ==
  ASSUME Types, Next, NEW a \in retiredActors
  PROVE  /\ a \in retiredActors'
         /\ server'[a] = server[a] \/ (server[a] # <<>> /\ server'[a] = Tail(server[a]))
<1> a \in Actors
  BY DEF Types
<1>1. CASE Greeting \/ ConnectReturns \/ ConnectFails \/ OwnerClose \/ TransportError \/ TransportClose
  BY <1>1 DEF Greeting, ConnectReturns, ConnectFails, OwnerClose, TransportError, TransportClose, Close,
     firefox
<1>2. ASSUME NEW b \in Actors, NEW life \in Lifetimes \cup {NoLifetime}, MakeRequest(b, life)
      PROVE  a \in retiredActors' /\ server'[a] = server[a]
  <2>1. CASE Request(b, life)
    BY <2>1 DEF Request, MayRequest, Types
  <2>2. CASE RequestUnsendable(b, life) \/ RequestOverLimit(b, life)
    BY <2>2 DEF RequestUnsendable, RequestOverLimit, Close, firefox
  <2>3. QED
    BY <1>2, <2>1, <2>2 DEF MakeRequest
<1>3. ASSUME NEW b \in Actors, NEW how \in {"resolved", "error"}, DeliverReply(b, how)
      PROVE  /\ a \in retiredActors'
             /\ server'[a] = server[a] \/ (server[a] # <<>> /\ server'[a] = Tail(server[a]))
  BY <1>3 DEF DeliverReply, Types
<1>4. ASSUME NEW b \in Threads, Send(b) \/ SendUnsendable(b) \/ DeliverEvent(b) \/ DeliverRefusal(b)
      PROVE  a \in retiredActors' /\ server'[a] = server[a]
  BY <1>4 DEF Send, SendUnsendable, DeliverEvent, DeliverRefusal, Close, rdpVars, firefox
<1>5. ASSUME NEW r \in RequestId, RequestTimeout(r)
      PROVE  a \in retiredActors' /\ server'[a] = server[a]
  BY <1>5 DEF RequestTimeout, Close, firefox
<1>6. ASSUME NEW l \in Lifetimes, Abort(l) \/ \E S \in SUBSET Actors : AbortOverLimit(l, S)
      PROVE  a \in retiredActors' /\ server'[a] = server[a]
  BY <1>6 DEF Abort, AbortOverLimit, RetireActors, Close, firefox
<1>7. QED
  BY <1>1, <1>2, <1>3, <1>4, <1>5, <1>6 DEF Next

\* Tombstones are final: once retired, an actor is asked nothing and settles nothing.
THEOREM RetirementIsFinal == Spec => RetiredIsFinal
<1>1. Types /\ Books /\ (Types /\ Books)' /\ [Next]_vars =>
        [\A a \in retiredActors : /\ a \in retiredActors'
                                  /\ Len(server'[a]) <= Len(server[a])
                                  /\ pending'[a] = <<>>]_vars
  <2> SUFFICES ASSUME Types, Books, Books', Next, NEW a \in retiredActors
               PROVE  /\ a \in retiredActors'
                      /\ Len(server'[a]) <= Len(server[a])
                      /\ pending'[a] = <<>>
    OBVIOUS
  <2>1. a \in Actors /\ server[a] \in Seq(RequestId)
    BY DEF Types
  <2>2. /\ a \in retiredActors'
        /\ server'[a] = server[a] \/ (server[a] # <<>> /\ server'[a] = Tail(server[a]))
    BY RetiredStep
  <2>3. pending'[a] = <<>>
    BY <2>1, <2>2 DEF Books, ClientBooks, Quiet
  <2>4. Len(server'[a]) <= Len(server[a])
    <3>1. CASE server'[a] = server[a]
      BY <2>1, <3>1
    <3>2. CASE server[a] # <<>> /\ server'[a] = Tail(server[a])
      BY <2>1, <3>2, SeqParts
    <3>3. QED
      BY <2>2, <3>1, <3>2
  <2>5. QED
    BY <2>2, <2>3, <2>4
<1>2. QED
  BY <1>1, BooksBalance, PTL DEF Spec, RetiredIsFinal

-----------------------------------------------------------------------------
(* The client implements the ledger *)

LEMMA LedgerInit == Init => Ledger!LedgerInit
  BY DEF Init, InUse, Lag, Ledger!LedgerInit

\* What the ledger says is still awaited is what the client has queued.
LEMMA AwaitedIsQueued ==
  ASSUME Types, Books, NEW a \in Actors
  PROVE  /\ InUse(a) => Ledger!Owed(a) = Queued(a)
         /\ ~InUse(a) => Ledger!Owed(a) = {} /\ Queued(a) = {}
<1>1. CASE ~InUse(a)
  <2>1. Queued(a) = {}
    BY <1>1 DEF Books, ClientBooks, Quiet, InUse, Queued
  <2>2. Ledger!Owed(a) = {}
    BY <1>1 DEF Ledger!Owed
  <2>3. QED
    BY <1>1, <2>1, <2>2
<1>2. CASE InUse(a)
  <2>1. EndOf(pending[a], server[a]) /\ pending[a] \in Seq(RequestId) /\ server[a] \in Seq(RequestId)
    BY <1>2 DEF Books, InStep, Types
  <2>2. Ledger!Owed(a) = {server[a][i] : i \in (Lag(a) + 1)..Len(server[a])}
    BY <1>2 DEF Ledger!Owed
  <2>3. Beyond(server[a], Lag(a)) = Elements(pending[a])
    BY <2>1, EndElements DEF Lag
  <2>4. QED
    BY <1>2, <2>2, <2>3 DEF Queued, Beyond, Elements
<1>3. QED
  BY <1>1, <1>2

\* Whatever closes an open client is a shutdown of the ledger.
LEMMA ClosingIsShutdown ==
  ASSUME Types, Books, ~closed, closed', NEW fresh, RejectPending(fresh)
  PROVE  Ledger!Shutdown(fresh)
<1>1. \A r \in RequestId : r \in AllQueued <=> \E a \in Actors : r \in Ledger!Owed(a)
  BY AwaitedIsQueued DEF AllQueued
<1>2. outcome' = [r \in RequestId |-> IF r \in fresh \/ \E a \in Actors : r \in Ledger!Owed(a)
                                     THEN "rejected" ELSE outcome[r]]
  BY <1>1 DEF RejectPending
<1>3. QED
  BY <1>2 DEF Ledger!Shutdown, InUse

\* Closing once more changes nothing the callers see.
LEMMA ClosingAgain ==
  ASSUME Types, Books, closed, closed', RejectPending({})
  PROVE  UNCHANGED Ledger!ledgerVars
<1>1. AllQueued = {}
  BY DEF Books, ClientBooks, Quiet, AllQueued, Queued
<1>2. outcome' = outcome
  BY <1>1 DEF RejectPending, Types
<1>3. QED
  BY <1>2 DEF Ledger!ledgerVars, InUse

LEMMA CloseIsShutdown ==
  ASSUME Types, Books, ~closed, NEW fresh, Close(fresh)
  PROVE  Ledger!Shutdown(fresh)
  BY ClosingIsShutdown DEF Close

\* A new request is an ask.
LEMMA RequestIsAsk ==
  ASSUME Types, Books, NEW a \in Actors, NEW life, Request(a, life)
  PROVE  nextRequestId \in RequestId /\ Ledger!Ask(nextRequestId, a)
<1>1. nextRequestId \in RequestId /\ outcome[nextRequestId] = "unsent"
  BY NextIdIsRequest DEF Request, MayRequest, Books, ClientBooks, FreshUnsent, Types, RequestId
<1>2. /\ InUse(a) /\ closed' = closed /\ retiredActors' = retiredActors
      /\ \A b \in Actors : InUse(b)' = InUse(b)
  BY DEF Request, MayRequest, InUse
<1>3. /\ server' = [server EXCEPT ![a] = Append(@, nextRequestId)]
      /\ server'[a] = Append(server[a], nextRequestId)
      /\ pending'[a] = Append(pending[a], nextRequestId)
      /\ \A b \in Actors \ {a} : server'[b] = server[b] /\ pending'[b] = pending[b]
  BY <1>1 DEF Request, Types
<1>4. \A b \in Actors : Lag(b)' = Lag(b)
  <2>1. \A b \in Actors \ {a} : Lag(b)' = Lag(b)
    BY <1>3 DEF Lag
  <2>2. EndOf(pending[a], server[a]) /\ pending[a] \in Seq(RequestId) /\ server[a] \in Seq(RequestId)
    BY <1>2 DEF Books, InStep, Types
  <2>3. Len(Append(server[a], nextRequestId)) - Len(Append(pending[a], nextRequestId))
          = Len(server[a]) - Len(pending[a])
    BY <1>1, <2>2, EndAppends
  <2>4. Lag(a)' = Lag(a)
    BY <1>3, <2>3 DEF Lag
  <2>5. QED
    BY <2>1, <2>4
<1>5. /\ [b \in Actors |-> IF InUse(b) THEN server[b] ELSE <<>>]'
           = [[b \in Actors |-> IF InUse(b) THEN server[b] ELSE <<>>]
                EXCEPT ![a] = Append(@, nextRequestId)]
      /\ [b \in Actors |-> IF InUse(b) THEN Lag(b) ELSE 0]'
           = [b \in Actors |-> IF InUse(b) THEN Lag(b) ELSE 0]
  BY <1>2, <1>3, <1>4
<1>6. outcome' = [outcome EXCEPT ![nextRequestId] = "pending"] /\ ~closed /\ a \notin retiredActors
  BY DEF Request, MayRequest
<1>7. QED
  BY <1>1, <1>2, <1>5, <1>6 DEF Ledger!Ask

\* The oldest request in the queue is the one the ledger has waiting longest.
LEMMA OldestIsHead ==
  ASSUME Types, Books, NEW a \in Actors, a \notin retiredActors, pending[a] # <<>>
  PROVE  InUse(a) /\ Ledger!Awaited(a) /\ Ledger!Oldest(a) = Head(pending[a])
<1>1. InUse(a)
  BY DEF Books, ClientBooks, Quiet, InUse
<1>2. Lag(a) < Len(server[a]) /\ Head(pending[a]) = server[a][Lag(a) + 1]
  <2>1. EndOf(pending[a], server[a]) /\ pending[a] \in Seq(RequestId) /\ server[a] \in Seq(RequestId)
    BY <1>1 DEF Books, InStep, Types
  <2>2. QED
    BY <2>1, EndTails DEF Lag
<1>3. QED
  BY <1>1, <1>2 DEF Ledger!Awaited, Ledger!Oldest, InUse

\* A reply that settles something is an answer; one that settles nothing lets the ledger
\* catch up, or is nobody's business.
LEMMA ReplyIsAnswer ==
  ASSUME Types, Books, NEW a \in Actors, NEW how, DeliverReply(a, how)
  PROVE  Ledger!Answer(a, how) \/ Ledger!CatchUp(a) \/ UNCHANGED Ledger!ledgerVars
<1>1. /\ server[a] # <<>> /\ server' = [server EXCEPT ![a] = Tail(@)]
      /\ closed' = closed /\ retiredActors' = retiredActors
      /\ \A b \in Actors : InUse(b)' = InUse(b)
  BY DEF DeliverReply, InUse
<1>2. /\ \A b \in Actors \ {a} : server'[b] = server[b]
      /\ server'[a] = Tail(server[a]) /\ Len(Tail(server[a])) = Len(server[a]) - 1
      /\ server[a] \in Seq(RequestId) /\ pending[a] \in Seq(RequestId) /\ Len(server[a]) \in Nat
  BY <1>1, SeqParts DEF Types
<1>3. CASE a \notin retiredActors /\ pending[a] # <<>>
  <2>1. InUse(a) /\ Ledger!Awaited(a) /\ Ledger!Oldest(a) = Head(pending[a])
    BY <1>3, OldestIsHead
  <2>2. /\ outcome' = [outcome EXCEPT ![Ledger!Oldest(a)] = how]
        /\ \A b \in Actors \ {a} : pending'[b] = pending[b]
        /\ pending'[a] = Tail(pending[a])
    BY <1>3, <2>1 DEF DeliverReply, Types
  <2>3. \A b \in Actors : Lag(b)' = Lag(b)
    <3>1. \A b \in Actors \ {a} : Lag(b)' = Lag(b)
      BY <1>2, <2>2 DEF Lag
    <3>2. EndOf(pending[a], server[a])
      BY <2>1 DEF Books, InStep
    <3>3. Len(Tail(server[a])) - Len(Tail(pending[a])) = Len(server[a]) - Len(pending[a])
      BY <1>2, <1>3, <3>2, EndTails
    <3>4. Lag(a)' = Lag(a)
      BY <1>2, <2>2, <3>3 DEF Lag
    <3>5. QED
      BY <3>1, <3>4
  <2>4. /\ [b \in Actors |-> IF InUse(b) THEN server[b] ELSE <<>>]'
             = [[b \in Actors |-> IF InUse(b) THEN server[b] ELSE <<>>] EXCEPT ![a] = Tail(@)]
        /\ [b \in Actors |-> IF InUse(b) THEN Lag(b) ELSE 0]'
             = [b \in Actors |-> IF InUse(b) THEN Lag(b) ELSE 0]
    BY <1>1, <1>2, <2>1, <2>2, <2>3
  <2>5. QED
    BY <1>1, <2>1, <2>2, <2>4 DEF Ledger!Answer
<1>4. CASE ~(a \notin retiredActors /\ pending[a] # <<>>)
  <2>1. outcome' = outcome /\ pending' = pending
    BY <1>4 DEF DeliverReply
  <2>2. CASE ~InUse(a)
    <3>1. \A b \in Actors : InUse(b) => server'[b] = server[b] /\ Lag(b)' = Lag(b)
      BY <1>2, <2>1, <2>2 DEF Lag
    <3>2. /\ [b \in Actors |-> IF InUse(b) THEN server[b] ELSE <<>>]'
               = [b \in Actors |-> IF InUse(b) THEN server[b] ELSE <<>>]
          /\ [b \in Actors |-> IF InUse(b) THEN Lag(b) ELSE 0]'
               = [b \in Actors |-> IF InUse(b) THEN Lag(b) ELSE 0]
      BY <1>1, <3>1
    <3>3. QED
      BY <1>1, <2>1, <3>2 DEF Ledger!ledgerVars
  <2>3. CASE InUse(a)
    <3>1. pending[a] = <<>>
      BY <1>4, <2>3 DEF InUse
    <3>2. Len(pending[a]) = 0
      BY <1>2, <3>1, EmptyEnd
    <3>3. /\ Lag(a)' = Lag(a) - 1 /\ Lag(a) = Len(server[a])
          /\ \A b \in Actors \ {a} : Lag(b)' = Lag(b)
      BY <1>2, <2>1, <3>2 DEF Lag
    <3>4. /\ [b \in Actors |-> IF InUse(b) THEN server[b] ELSE <<>>]'
               = [[b \in Actors |-> IF InUse(b) THEN server[b] ELSE <<>>] EXCEPT ![a] = Tail(@)]
          /\ [b \in Actors |-> IF InUse(b) THEN Lag(b) ELSE 0]'
               = [[b \in Actors |-> IF InUse(b) THEN Lag(b) ELSE 0]
                    EXCEPT ![a] = @ - 1]
      BY <1>1, <1>2, <2>1, <2>3, <3>3
    <3>5. Ledger!CatchUp(a)
      BY <1>1, <2>1, <2>3, <3>3, <3>4 DEF Ledger!CatchUp, InUse
    <3>6. QED
      BY <3>5
  <2>4. QED
    BY <2>2, <2>3
<1>5. QED
  BY <1>3, <1>4

\* A refusal that settles something is the ledger's mistake.
LEMMA RefusalIsMistake ==
  ASSUME Types, Books, NEW a \in Actors, DeliverRefusal(a)
  PROVE  Ledger!Mistake(a) \/ UNCHANGED Ledger!ledgerVars
<1>1. /\ server' = server /\ closed' = closed /\ retiredActors' = retiredActors
      /\ \A b \in Actors : InUse(b)' = InUse(b)
  BY DEF DeliverRefusal, InUse
<1>2. CASE a \notin retiredActors /\ pending[a] # <<>>
  <2>1. InUse(a) /\ Ledger!Awaited(a) /\ Ledger!Oldest(a) = Head(pending[a])
    BY <1>2, OldestIsHead
  <2>2. /\ outcome' = [outcome EXCEPT ![Ledger!Oldest(a)] = "error"]
        /\ \A b \in Actors \ {a} : pending'[b] = pending[b]
        /\ pending'[a] = Tail(pending[a])
    BY <1>2, <2>1 DEF DeliverRefusal, Types
  <2>3. /\ Lag(a)' = Lag(a) + 1
        /\ \A b \in Actors \ {a} : Lag(b)' = Lag(b)
    <3>1. EndOf(pending[a], server[a]) /\ pending[a] \in Seq(RequestId) /\ server[a] \in Seq(RequestId)
      BY <2>1 DEF Books, InStep, Types
    <3>2. QED
      BY <1>1, <1>2, <2>2, <3>1, EndTails DEF Lag
  <2>4. /\ [b \in Actors |-> IF InUse(b) THEN server[b] ELSE <<>>]'
             = [b \in Actors |-> IF InUse(b) THEN server[b] ELSE <<>>]
        /\ [b \in Actors |-> IF InUse(b) THEN Lag(b) ELSE 0]'
             = [[b \in Actors |-> IF InUse(b) THEN Lag(b) ELSE 0]
                  EXCEPT ![a] = @ + 1]
    BY <1>1, <2>1, <2>2, <2>3
  <2>5. QED
    BY <1>1, <2>1, <2>2, <2>4 DEF Ledger!Mistake
<1>3. CASE ~(a \notin retiredActors /\ pending[a] # <<>>)
  <2>1. outcome' = outcome /\ pending' = pending
    BY <1>3 DEF DeliverRefusal
  <2>2. QED
    BY <1>1, <2>1 DEF Lag, Ledger!ledgerVars
<1>4. QED
  BY <1>2, <1>3

\* The abort of a lifetime retires every actor that still listens for it; on a closed
\* client there is none.
LEMMA AbortIsRetire ==
  ASSUME Types, Books, NEW l \in Lifetimes, Abort(l)
  PROVE  (\E S \in SUBSET Actors : Ledger!Retire(S)) \/ UNCHANGED Ledger!ledgerVars
<1>1. PICK S \in SUBSET Actors : S = Listening(l)
  BY DEF Listening
<1>2. RetireActors(S) /\ UNCHANGED <<closed, server>>
  BY <1>1 DEF Abort, firefox
<1>3. \A a \in S : InUse(a) /\ Ledger!Owed(a) = Queued(a)
  BY <1>1, AwaitedIsQueued DEF Listening
<1>4. CASE closed
  <2>1. S = {}
    BY <1>3, <1>4 DEF InUse
  <2>2. outcome' = outcome
    BY <1>2, <2>1 DEF RetireActors, Types
  <2>3. QED
    BY <1>2, <1>4, <2>2 DEF Ledger!ledgerVars, InUse
<1>5. CASE ~closed
  <2>1. Ledger!Retire(S)
    BY <1>2, <1>3, <1>5 DEF Ledger!Retire, RetireActors, InUse, Lag
  <2>2. QED
    BY <2>1
<1>6. QED
  BY <1>4, <1>5

LEMMA LedgerStep ==
  ASSUME Types, Books, [Next]_vars
  PROVE  [Ledger!LedgerNext]_(Ledger!ledgerVars)
<1> USE DEF Ledger!LedgerNext
<1>1. CASE Greeting
  BY <1>1 DEF Greeting, InUse, Lag, firefox, Ledger!ledgerVars
<1>2. CASE ConnectReturns
  BY <1>2 DEF ConnectReturns, InUse, Lag, firefox, Ledger!ledgerVars
<1>3. CASE ConnectFails
  <2>1. CASE closed
    BY <1>3, <2>1 DEF ConnectFails, InUse, Lag, firefox, Ledger!ledgerVars
  <2>2. CASE ~closed
    BY <1>3, <2>2, CloseIsShutdown DEF ConnectFails
  <2>3. QED
    BY <2>1, <2>2
<1>4. CASE OwnerClose
  BY <1>4, CloseIsShutdown DEF OwnerClose
<1>5. CASE TransportError \/ TransportClose
  <2>1. RejectPending({}) /\ closed'
    BY <1>5 DEF TransportError, TransportClose
  <2>2. QED
    BY <2>1, ClosingIsShutdown, ClosingAgain
<1>6. ASSUME NEW a \in Actors, NEW life \in Lifetimes \cup {NoLifetime}, MakeRequest(a, life)
      PROVE  Ledger!LedgerNext
  <2>1. CASE Request(a, life)
    BY <2>1, RequestIsAsk
  <2>2. CASE RequestUnsendable(a, life)
    <3>1. PICK r \in RequestId : r = nextRequestId
      BY <2>2, NextIdIsRequest DEF RequestUnsendable, MayRequest
    <3>2. ~closed /\ Close({r})
      BY <2>2, <3>1 DEF RequestUnsendable, MayRequest
    <3>3. outcome[r] = "unsent"
      BY <3>1 DEF Books, ClientBooks, FreshUnsent, Types, RequestId
    <3>4. Ledger!Shutdown({r})
      BY <3>2, CloseIsShutdown
    <3>5. QED
      BY <3>3, <3>4
  <2>3. CASE RequestOverLimit(a, life)
    BY <2>3, CloseIsShutdown DEF RequestOverLimit, MayRequest
  <2>4. QED
    BY <1>6, <2>1, <2>2, <2>3 DEF MakeRequest
<1>7. ASSUME NEW a \in Actors, NEW how \in {"resolved", "error"}, DeliverReply(a, how)
      PROVE  [Ledger!LedgerNext]_(Ledger!ledgerVars)
  BY <1>7, ReplyIsAnswer
<1>8. ASSUME NEW a \in Threads,
             Send(a) \/ SendUnsendable(a) \/ DeliverEvent(a) \/ DeliverRefusal(a)
      PROVE  [Ledger!LedgerNext]_(Ledger!ledgerVars)
  <2>1. a \in Actors
    BY ClientAssumption
  <2>2. CASE Send(a) \/ DeliverEvent(a)
    <3>1. UNCHANGED <<pending, server, outcome, closed, retiredActors>>
      BY <2>2 DEF Send, DeliverEvent, rdpVars
    <3>2. QED
      BY <3>1 DEF InUse, Lag, Ledger!ledgerVars
  <2>3. CASE SendUnsendable(a)
    BY <2>3, CloseIsShutdown DEF SendUnsendable, MaySend
  <2>4. CASE DeliverRefusal(a)
    BY <2>1, <2>4, RefusalIsMistake
  <2>5. QED
    BY <1>8, <2>2, <2>3, <2>4
<1>9. ASSUME NEW r \in RequestId, RequestTimeout(r)
      PROVE  Ledger!LedgerNext
  BY <1>9, CloseIsShutdown DEF RequestTimeout
<1>10. ASSUME NEW l \in Lifetimes, Abort(l)
       PROVE  [Ledger!LedgerNext]_(Ledger!ledgerVars)
  BY <1>10, AbortIsRetire
<1>11. ASSUME NEW l \in Lifetimes, NEW S \in SUBSET Actors, AbortOverLimit(l, S)
       PROVE  [Ledger!LedgerNext]_(Ledger!ledgerVars)
  <2>1. RejectPending({}) /\ closed'
    BY <1>11 DEF AbortOverLimit, Close
  <2>2. QED
    BY <2>1, ClosingIsShutdown, ClosingAgain
<1>12. CASE UNCHANGED vars
  BY <1>12 DEF vars, rdpVars, InUse, Lag, firefox, Ledger!ledgerVars
<1>13. QED
  BY <1>1, <1>2, <1>3, <1>4, <1>5, <1>6, <1>7, <1>8, <1>9, <1>10, <1>11, <1>12 DEF Next

\* RdpClient is the ledger: the i-th answer of an actor settles the i-th request made of
\* it, off by exactly the refusals taken for answers since the actor was last owed nothing;
\* retirement and shutdown reject exactly what was still awaited, and both are for good.
THEOREM ClientImplementsLedger == Spec => ImplementsLedger
<1>1. Types /\ Books /\ [Next]_vars => [Ledger!LedgerNext]_(Ledger!ledgerVars)
  BY LedgerStep
<1>2. QED
  BY <1>1, LedgerInit, BooksBalance, PTL DEF Spec, ImplementsLedger, Ledger!LedgerSpec

=============================================================================
