----------------------------- MODULE TabWatcher -----------------------------
(***************************************************************************)
(* src/src/rdp/browser.ts, watchAndPrimeFirefoxTabs: one connection that   *)
(* keeps the list of Firefox's tabs and configures the threads of each     *)
(* before a page loads in it; and watchTabs of                             *)
(* src/src/core/platform-session.ts, which starts it over.                 *)
(*                                                                         *)
(* A tab is named by its browserId.  Firefox is external: it notifies the  *)
(* first change after a list it has sent, and executes requests in order.  *)
(***************************************************************************)
EXTENDS Naturals, Sequences, FiniteSets

CONSTANTS Tabs,        \* browserIds; each is used for one tab
          NoTab,
          MaxStarts    \* bound: how often Firefox is started

\* What refresh awaits and what it has asked for, when that is not a tab.
Idle == "idle"
NoRequest == "none"
Listing == "list"

ASSUME WatcherAssumption == /\ {NoTab, Idle, NoRequest, Listing} \cap Tabs = {}
                            /\ MaxStarts \in Nat

VARIABLES
  \* Firefox
  browser,     \* none, running or gone
  starts,      \* how often it was started
  tabs,        \* its tabs now
  used,        \* the browserIds it has given out
  armed,       \* it will notify the next change
  configured,  \* tabs whose threads are configured over this connection
  request,     \* the watcher's request it has not executed
  toWatcher,   \* packets on their way back
  \* watchTabs
  loop,        \* off, watching, waiting (delay), ended or threw
  launching,   \* ~args.connect: nothing is reconnected
  \* watchAndPrimeFirefoxTabs
  client,      \* none, checking or open
  dirty,
  work,        \* what refresh awaits: idle (no refresh), list, or the tab it primes
  todo,        \* the listed tabs it has not come to
  primed,      \* primedActors
  startupRetry,\* the timer is set
  shown        \* the tabs last passed to onTabs: currentTabs, #liveTabIds

firefoxVars == <<browser, starts, tabs, used, armed, configured, request, toWatcher>>
loopVars    == <<loop, launching>>
clientVars  == <<client, dirty, work, todo, primed, startupRetry, shown>>
watcherVars == <<firefoxVars, loopVars, clientVars>>

WatcherInit ==
  /\ launching \in BOOLEAN
  /\ browser = "none" /\ starts = 0 /\ tabs = {} /\ used = {}
  /\ armed = FALSE /\ configured = {} /\ request = NoRequest /\ toWatcher = <<>>
  /\ loop = "off" /\ client = "none"
  /\ dirty = TRUE /\ work = Idle /\ todo = {} /\ primed = {} /\ startupRetry = FALSE
  /\ shown = {}

-----------------------------------------------------------------------------
(* The refresh loop.  Its steps run from one await to the next. *)

Await(what, left) == work' = what /\ todo' = left /\ request' = what

\* query() from its beginning.
StartQuery == dirty' = FALSE /\ Await(Listing, {})

\* What follows an await: the next tab, the next query, or the end of the refresh.
GoOn(left) ==
  IF left # {} THEN (\E t \in left : Await(t, left \ {t})) /\ UNCHANGED dirty
  ELSE IF dirty THEN StartQuery
  ELSE work' = Idle /\ todo' = {} /\ request' = NoRequest /\ UNCHANGED dirty

\* Mutant.  Somebody is refreshing already.
ScheduleIfIdle ==
  IF client = "open" /\ work = Idle THEN StartQuery ELSE UNCHANGED <<dirty, work, todo, request>>

\* schedule().
Schedule ==
  IF client = "open" /\ work = Idle THEN StartQuery
  ELSE dirty' = TRUE /\ UNCHANGED <<work, todo, request>>

Hear(kind) == toWatcher # <<>> /\ Head(toWatcher).kind = kind /\ toWatcher' = Tail(toWatcher)

OtherFirefox == UNCHANGED <<browser, starts, tabs, used, armed, configured, loopVars>>

\* query() hears the list.
HearTabs ==
  /\ Hear("tabs") /\ work = Listing
  /\ LET listed == Head(toWatcher).tabs IN
     /\ primed' = primed \cap listed
     /\ shown' = listed
     /\ GoOn(listed \ primed)
  /\ OtherFirefox /\ UNCHANGED <<client, startupRetry>>

\* primeTab has its last answer: done, or noSuchActor.
HearPrimed ==
  /\ Hear("primed")
  /\ primed' = IF Head(toWatcher).tabs # {} THEN primed \cup {work} ELSE primed
  /\ GoOn(todo)
  /\ OtherFirefox /\ UNCHANGED <<client, startupRetry, shown>>

\* tabListChanged.
HearChange ==
  /\ Hear("changed")
  /\ Schedule
  /\ OtherFirefox /\ UNCHANGED <<client, primed, startupRetry, shown>>

StartupRetry ==
  /\ startupRetry /\ client = "open"
  /\ startupRetry' = FALSE
  /\ Schedule
  /\ OtherFirefox /\ UNCHANGED <<toWatcher, client, primed, shown>>

-----------------------------------------------------------------------------
(* The connection *)

Connect ==
  /\ loop = "watching" /\ client = "none" /\ browser = "running"
  /\ client' = "checking"
  /\ UNCHANGED <<firefoxVars, loopVars, dirty, work, todo, primed, startupRetry, shown>>

\* requireCompatibleFirefox returns.
Compatible ==
  /\ client = "checking"
  /\ client' = "open" /\ startupRetry' = TRUE
  /\ StartQuery
  /\ UNCHANGED <<browser, starts, tabs, used, armed, configured, toWatcher, loopVars, primed, shown>>

\* Nothing is left of a connection on either side; the next call starts with its own
\* variables.
Drop ==
  /\ client' = "none" /\ work' = Idle /\ todo' = {} /\ startupRetry' = FALSE
  /\ dirty' = TRUE /\ primed' = {}
  /\ request' = NoRequest /\ toWatcher' = <<>> /\ armed' = FALSE /\ configured' = {}

\* The connection is refused or lost, by itself or with the browser.
Lose ==
  /\ Drop
  /\ loop' = IF loop # "watching" THEN loop ELSE IF launching THEN "threw" ELSE "waiting"
  /\ UNCHANGED <<launching, shown>>

ConnectionLost ==
  /\ loop = "watching" /\ (client # "none" \/ browser # "running")
  /\ Lose
  /\ UNCHANGED <<browser, starts, tabs, used>>

\* An incompatible Firefox, an answer that is none, or no answer in time.
ProtocolFails ==
  /\ loop = "watching" /\ client # "none"
  /\ Drop /\ loop' = "threw"
  /\ UNCHANGED <<browser, starts, tabs, used, launching, shown>>

Reconnect ==
  /\ loop = "waiting" /\ loop' = "watching"
  /\ UNCHANGED <<firefoxVars, launching, clientVars>>

\* watcherAbort: the client closes, a delay ends.
WatcherAborts ==
  /\ loop \in {"watching", "waiting"}
  /\ Drop /\ loop' = "ended"
  /\ UNCHANGED <<browser, starts, tabs, used, launching, shown>>

WatcherStep ==
  \/ HearTabs \/ HearPrimed \/ HearChange \/ StartupRetry
  \/ Connect \/ Compatible \/ ConnectionLost \/ ProtocolFails \/ Reconnect

-----------------------------------------------------------------------------
(* Firefox *)

Packet(kind, set) == [kind |-> kind, tabs |-> set]

Lists ==
  /\ request = Listing
  /\ request' = NoRequest /\ armed' = TRUE
  /\ toWatcher' = Append(toWatcher, Packet("tabs", tabs))
  /\ UNCHANGED <<browser, starts, tabs, used, configured, loopVars, clientVars>>

Configures ==
  /\ request \in Tabs
  /\ request' = NoRequest
  /\ configured' = configured \cup ({request} \cap tabs)
  /\ toWatcher' = Append(toWatcher, Packet("primed", {request} \cap tabs))
  /\ UNCHANGED <<browser, starts, tabs, used, armed, loopVars, clientVars>>

\* Its tabs change; the first change after a list is notified.
ChangeTabs(now) ==
  /\ tabs' = now /\ configured' = configured \cap now
  /\ armed' = FALSE
  /\ toWatcher' = IF armed THEN Append(toWatcher, Packet("changed", {})) ELSE toWatcher
  /\ UNCHANGED <<browser, starts, request, loopVars, clientVars>>

Opens(t) ==
  /\ browser = "running" /\ t \notin used
  /\ used' = used \cup {t}
  /\ ChangeTabs(tabs \cup {t})

Closes(t) ==
  /\ t \in tabs
  /\ ChangeTabs(tabs \ {t})
  /\ UNCHANGED used

\* Its first tab is opened like the others.
Starts ==
  /\ browser # "running" /\ starts < MaxStarts
  /\ browser' = "running" /\ starts' = starts + 1
  /\ UNCHANGED <<tabs, used, armed, configured, request, toWatcher, loopVars, clientVars>>

Exits ==
  /\ browser = "running"
  /\ browser' = "gone" /\ tabs' = {}
  /\ Lose
  /\ UNCHANGED <<starts, used>>

FirefoxStep == Lists \/ Configures \/ Exits \/ \E t \in Tabs : Opens(t) \/ Closes(t)

-----------------------------------------------------------------------------
(* Properties *)

\* Nothing is on its way between an established watcher and Firefox.
WatcherQuiet ==
  client = "open" /\ work = Idle /\ request = NoRequest /\ toWatcher = <<>>

\* "The watcher subscribes before querying, coalesces change bursts" (INTERNALS.md:112):
\* a change is not lost among the queries it falls between.  Once nothing is on its way,
\* LLDB is shown the tabs Firefox has, and each of them is configured.
TabsAreCurrent ==
  WatcherQuiet => /\ shown = tabs
                  /\ tabs \subseteq configured
=============================================================================
