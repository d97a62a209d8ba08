------------------------------ MODULE Platform ------------------------------
(***************************************************************************)
(* src/src/core/platform-session.ts and src/src/platform/platform-server.ts*)
(* with the listener of src/src/protocol/rsp-server.ts: startup and its    *)
(* rollback, the requests of LLDB's platform connection, failure and       *)
(* shutdown, over the tab watcher.                                         *)
(*                                                                         *)
(* The owner of the per-tab servers is here as what it promises: its state *)
(* and steps are those of ServerLease, which Spawner implements.  A pid of *)
(* a tab is the tab.                                                       *)
(***************************************************************************)
EXTENDS TabWatcher, ServerLease

CONSTANTS Clients,    \* the connections of LLDB, by number
          NoServer

ASSUME PlatformAssumption == /\ Launches \subseteq Nat /\ Clients \subseteq Nat
                             /\ NoServer \notin Launches

VARIABLES
  runtime,     \* binding, browser (launchFirefox), token (verification), running, or
               \* rejected
  closing,     \* what shutdown or rollback awaits: listener, servers, probe, watcher,
               \* browser; no before and done after
  aborted,     \* opts.signal
  failure,     \* fail() has been called
  errors,      \* a step of shutdown or rollback has failed
  listening,   \* the platform port is bound
  probe,       \* the probe of --connect mode is under way
  conn,        \* conn[c]: none, open or closed
  handler,     \* handler[c]: the server whose start or end its request awaits
  job,         \* job[p], #launchServer: none, spawning, wrapping (the port), rollback,
               \* returned or rejected
  tabOf,       \* the tab it is for
  serverByTab, \* #serverByTab
  byPid,       \* the domain of #tabByServerPid, which leads to tabOf
  known        \* the pids LLDB has been told

runtimeVars  == <<runtime, closing, aborted, failure, errors, listening, probe>>
serverVars   == <<handler, job, tabOf, serverByTab, byPid, known>>
platformVars == <<watcherVars, leaseVars, runtimeVars, conn, serverVars>>

PlatformInit ==
  /\ WatcherInit /\ LeaseInit
  /\ runtime = "binding" /\ closing = "no"
  /\ aborted = FALSE /\ failure = FALSE /\ errors = FALSE /\ listening = FALSE /\ probe = FALSE
  /\ conn = [c \in Clients |-> "none"] /\ handler = [c \in Clients |-> NoServer]
  /\ job = [p \in Launches |-> "none"] /\ tabOf = [p \in Launches |-> NoTab]
  /\ serverByTab = [t \in Tabs |-> NoServer] /\ byPid = {} /\ known = {}

-----------------------------------------------------------------------------
(* Shutdown and rollback *)

\* server.close() destroys the connections; what they have asked for goes on.
Disconnect == conn' = [c \in Clients |-> IF conn[c] = "open" THEN "closed" ELSE conn[c]]

\* The catch block of startup.
Rollback == closing' = "listener" /\ Disconnect

\* shutdown(), shared by all who call it: the watcher is aborted, the listener closed.
BeginShutdown ==
  IF closing = "no"
  THEN /\ closing' = "listener" /\ Disconnect
       /\ IF loop = "threw" THEN UNCHANGED watcherVars ELSE WatcherAborts
  ELSE UNCHANGED <<closing, conn, watcherVars>>

\* fail().  Before the runtime runs, shutdown is not yet initialised: the call throws, and
\* the process, which does not outlive that, has its acquisition aborted by the handler of
\* fatal errors (diagnostics/session-log.ts 258-272, external).
Fail ==
  /\ failure' = TRUE
  /\ IF failure THEN UNCHANGED <<aborted, closing, conn, watcherVars>>
     ELSE IF runtime = "running" THEN BeginShutdown /\ UNCHANGED aborted
     ELSE aborted' = TRUE /\ UNCHANGED <<closing, conn, watcherVars>>

\* Mutant.  A startup that fails has started no server.
AfterSkippingServers(step) ==
  CASE step = "listener" -> IF runtime = "running" THEN "servers" ELSE "browser"
    [] step = "servers"  -> "probe"
    [] step = "probe"    -> "watcher"
    [] step = "watcher"  -> "browser"
    [] OTHER             -> "done"

\* A rollback has no probe and no watcher to join.
After(step) ==
  CASE step = "listener" -> "servers"
    [] step = "servers"  -> IF runtime = "running" THEN "probe" ELSE "browser"
    [] step = "probe"    -> "watcher"
    [] step = "watcher"  -> "browser"
    [] OTHER             -> "done"

Proceed(step, failed) ==
  /\ closing = step
  /\ closing' = After(step)
  /\ errors' = (errors \/ failed)
  /\ UNCHANGED <<aborted, failure, conn, serverVars>>

\* The listener is gone; if the servers are next, killAll is called.
ListenerCloses ==
  /\ Proceed("listener", FALSE)
  /\ listening' = FALSE
  /\ IF closing' = "servers" THEN Shutdown ELSE UNCHANGED leaseVars
  /\ UNCHANGED <<watcherVars, runtime, probe>>

ServersDrain ==
  /\ \A p \in Launches : lease[p] \in {"none", "gone", "leaked"}
  /\ Proceed("servers", \E p \in Launches : lease[p] = "leaked")
  /\ UNCHANGED <<watcherVars, leaseVars, runtime, listening, probe>>

ServersTimeOut ==
  /\ \E p \in Launches : lease[p] = "ending"
  /\ Proceed("servers", TRUE)
  /\ UNCHANGED <<watcherVars, leaseVars, runtime, listening, probe>>

ProbeJoined ==
  /\ ~probe /\ Proceed("probe", FALSE)
  /\ UNCHANGED <<watcherVars, leaseVars, runtime, listening, probe>>

WatcherJoined ==
  /\ loop = "ended" \/ (loop = "threw" /\ failure)
  /\ Proceed("watcher", FALSE)
  /\ UNCHANGED <<watcherVars, leaseVars, runtime, listening, probe>>

\* firefox?.close() kills it, or reports that it could not.
BrowserCloses ==
  /\ \E gone \in BOOLEAN :
       /\ Proceed("browser", ~gone)
       /\ IF launching /\ browser = "running" THEN IF gone THEN Exits ELSE UNCHANGED watcherVars
          ELSE gone /\ UNCHANGED watcherVars
  /\ runtime' = IF runtime = "running" THEN runtime ELSE "rejected"
  /\ UNCHANGED <<leaseVars, listening, probe>>

Cleanup ==
  \/ ListenerCloses \/ ServersDrain \/ ServersTimeOut \/ ProbeJoined \/ WatcherJoined
  \/ BrowserCloses

-----------------------------------------------------------------------------
(* Startup *)

Starting == runtime \in {"binding", "browser", "token"} /\ closing = "no"

StartupKeeps == UNCHANGED <<leaseVars, aborted, failure, errors, serverVars>>

\* After its last await startup begins to watch the tabs.
Run ==
  /\ runtime' = "running" /\ loop' = "watching"
  /\ UNCHANGED <<closing, conn, launching, firefoxVars, clientVars>>

Bind ==
  /\ Starting /\ runtime = "binding"
  /\ listening' = TRUE
  /\ IF aborted THEN Rollback /\ UNCHANGED <<runtime, probe, watcherVars>>
     ELSE IF launching THEN runtime' = "browser" /\ UNCHANGED <<closing, conn, probe, watcherVars>>
     ELSE Run /\ probe' = TRUE
  /\ StartupKeeps

BrowserStarts ==
  /\ Starting /\ runtime = "browser"
  /\ Starts
  /\ IF aborted THEN Rollback /\ UNCHANGED runtime
     ELSE runtime' = "token" /\ UNCHANGED <<closing, conn>>
  /\ StartupKeeps /\ UNCHANGED <<listening, probe>>

\* The RDP port answers with the launch token of this Firefox.
Verified ==
  /\ Starting /\ runtime = "token" /\ browser = "running"
  /\ IF aborted THEN Rollback /\ UNCHANGED <<runtime, watcherVars>> ELSE Run
  /\ StartupKeeps /\ UNCHANGED <<listening, probe>>

\* The port is taken, Firefox does not start, or another one answers.
StartupFails ==
  /\ Starting
  /\ Rollback
  /\ StartupKeeps /\ UNCHANGED <<watcherVars, runtime, listening, probe>>

-----------------------------------------------------------------------------
(* Events of the runtime *)

OwnerAborts ==
  /\ Starting /\ aborted' = TRUE
  /\ UNCHANGED <<watcherVars, leaseVars, runtime, closing, failure, errors, listening, probe,
                 conn, serverVars>>

OwnerShutsDown ==
  /\ runtime = "running" /\ closing = "no"
  /\ BeginShutdown
  /\ UNCHANGED <<leaseVars, runtime, aborted, failure, errors, listening, probe, serverVars>>

ProbeEnds ==
  /\ probe /\ probe' = FALSE
  /\ UNCHANGED <<watcherVars, leaseVars, runtime, closing, aborted, failure, errors, listening,
                 conn, serverVars>>

\* watchTabs(...).catch(fail).
WatcherThrows ==
  /\ loop = "threw" /\ ~failure
  /\ Fail
  /\ UNCHANGED <<leaseVars, runtime, errors, listening, probe, serverVars>>

\* The worker or the session of a published server is lost.
ServerFails(p) ==
  /\ lease[p] = "live" /\ ~failure
  /\ Fail
  /\ UNCHANGED <<leaseVars, runtime, errors, listening, probe, serverVars>>

-----------------------------------------------------------------------------
(* Requests of LLDB.  A connection's requests are handled one by one; a handler goes on
   when its connection is gone, next to those of another connection. *)

RequestKeeps == UNCHANGED <<watcherVars, runtimeVars>>

\* singleConnection
Accept(c) ==
  /\ listening /\ closing = "no" /\ conn[c] = "none"
  /\ \A d \in Clients : d < c => conn[d] = "closed"
  /\ conn' = [conn EXCEPT ![c] = "open"]
  /\ RequestKeeps /\ UNCHANGED <<leaseVars, serverVars>>

Leave(c) ==
  /\ conn[c] = "open" /\ conn' = [conn EXCEPT ![c] = "closed"]
  /\ RequestKeeps /\ UNCHANGED <<leaseVars, serverVars>>

Asks(c) == conn[c] = "open" /\ handler[c] = NoServer

\* Mutant.  The tab learns of its server when there is one.
RecordLater(t, p) == UNCHANGED serverByTab

\* The server that has just been launched joins the tab's, if it is for one.
Record(t, p) == serverByTab' = IF t = NoTab THEN serverByTab ELSE [serverByTab EXCEPT ![t] = p]

NewServer(c, t, p) ==
  /\ lease[p] = "none" /\ \A q \in Launches : q < p => lease[q] # "none"
  /\ Begin(p)
  /\ job' = [job EXCEPT ![p] = "spawning"] /\ tabOf' = [tabOf EXCEPT ![p] = t]
  /\ Record(t, p)
  /\ handler' = [handler EXCEPT ![c] = p]
  /\ UNCHANGED <<byPid, known>>

\* A tab that has a server shares it, or its launch.
SharedServer(c, p) ==
  /\ IF job[p] = "returned" THEN known' = known \cup {p} /\ UNCHANGED handler
                            ELSE handler' = [handler EXCEPT ![c] = p] /\ UNCHANGED known
  /\ UNCHANGED <<leaseVars, job, tabOf, serverByTab, byPid>>

\* qLaunchGDBServer with a pid.
LaunchForTab(c, t) ==
  /\ Asks(c) /\ t \in shown
  /\ IF serverByTab[t] # NoServer THEN SharedServer(c, serverByTab[t])
     ELSE \E p \in Launches : NewServer(c, t, p)
  /\ RequestKeeps /\ UNCHANGED conn

\* qLaunchGDBServer without one.
LaunchForUrl(c) ==
  /\ Asks(c)
  /\ \E p \in Launches : NewServer(c, NoTab, p)
  /\ RequestKeeps /\ UNCHANGED conn

\* handle.stop() or an abort, for a server that is not being stopped.
StopServer(p) == IF lease[p] = "live" THEN End(p) ELSE UNCHANGED leaseVars

\* qKillSpawnedProcess, of a server this LLDB has been told of.
KillServer(c, p) ==
  /\ Asks(c) /\ p \in known
  /\ IF p \in byPid THEN Record(tabOf[p], NoServer) ELSE UNCHANGED serverByTab
  /\ byPid' = byPid \ {p}
  /\ StopServer(p)
  /\ handler' = [handler EXCEPT ![c] = IF lease[p] \in {"live", "ending"} THEN p ELSE NoServer]
  /\ RequestKeeps /\ UNCHANGED <<conn, job, tabOf, known>>

-----------------------------------------------------------------------------
(* What the handlers await *)

\* Everybody who waits for p has an answer.
Answered(p) == handler' = [c \in Clients |-> IF handler[c] = p THEN NoServer ELSE handler[c]]

\* spawner.launch returns, and the port is wrapped.
ServerPublished(p) ==
  /\ Publish(p)
  /\ job' = [job EXCEPT ![p] = "wrapping"]
  /\ RequestKeeps /\ UNCHANGED <<conn, handler, tabOf, serverByTab, byPid, known>>

\* The launch rejects and its tab is without a server.
Rejected(p) ==
  /\ job' = [job EXCEPT ![p] = "rejected"]
  /\ Record(tabOf[p], NoServer)
  /\ Answered(p)

\* await wrapConnectPort, then a look at list().
Wrapped(p) ==
  /\ job[p] = "wrapping"
  /\ IF lease[p] = "live"
     THEN /\ job' = [job EXCEPT ![p] = "returned"]
          /\ byPid' = IF tabOf[p] = NoTab THEN byPid ELSE byPid \cup {p}
          /\ known' = IF \E c \in Clients : handler[c] = p /\ conn[c] = "open"
                      THEN known \cup {p} ELSE known
          /\ Answered(p) /\ UNCHANGED serverByTab
     ELSE /\ IF lease[p] = "ending" THEN /\ job' = [job EXCEPT ![p] = "rollback"]
                                         /\ UNCHANGED <<handler, serverByTab>>
             ELSE Rejected(p)
          /\ UNCHANGED <<byPid, known>>
  /\ RequestKeeps /\ UNCHANGED <<leaseVars, conn, tabOf>>

WrapFails(p) ==
  /\ job[p] = "wrapping" /\ lease[p] \in {"live", "ending"}
  /\ StopServer(p)
  /\ job' = [job EXCEPT ![p] = "rollback"]
  /\ RequestKeeps /\ UNCHANGED <<conn, handler, tabOf, serverByTab, byPid, known>>

\* The server is gone, or stays and is recorded: its launch or its kill is over.
ServerEnds(p) ==
  /\ Forget(p) \/ Leak(p)
  /\ CASE job[p] \in {"spawning", "rollback"} -> Rejected(p)
       [] job[p] = "returned"                 -> Answered(p) /\ UNCHANGED <<job, serverByTab>>
       [] OTHER                               -> UNCHANGED <<job, serverByTab, handler>>
  /\ RequestKeeps /\ UNCHANGED <<conn, tabOf, byPid, known>>

\* An acquisition fails and is rolled back.  (What it has acquired by then is the owner's
\* business: a lease ends when nothing is held.)
LaunchFails(p) ==
  /\ lease[p] = "acquiring" /\ End(p)
  /\ RequestKeeps /\ UNCHANGED <<conn, serverVars>>

-----------------------------------------------------------------------------
\* Somebody else starts the Firefox of --connect mode.
UserStarts == ~launching /\ Starts

WatcherMoves ==
  /\ WatcherStep \/ FirefoxStep \/ UserStarts
  /\ UNCHANGED <<leaseVars, runtimeVars, conn, serverVars>>

PlatformNext ==
  \/ Cleanup
  \/ Bind \/ BrowserStarts \/ Verified \/ StartupFails
  \/ OwnerAborts \/ OwnerShutsDown \/ ProbeEnds \/ WatcherThrows
  \/ \E p \in Launches : ServerFails(p) \/ ServerPublished(p) \/ Wrapped(p) \/ WrapFails(p)
                           \/ ServerEnds(p) \/ LaunchFails(p)
  \/ \E c \in Clients : \/ Accept(c) \/ Leave(c) \/ LaunchForUrl(c)
                        \/ \E t \in Tabs : LaunchForTab(c, t)
                        \/ \E p \in Launches : KillServer(c, p)
  \/ WatcherMoves

\* Sockets close, timers fire, an aborted probe or startup rejects; a watcher that threw is
\* heard.
PlatformSpec ==
  /\ PlatformInit /\ [][PlatformNext]_platformVars
  /\ WF_platformVars(Cleanup)
  /\ WF_platformVars(ProbeEnds)
  /\ WF_platformVars(WatcherThrows)
  /\ WF_platformVars(aborted /\ StartupFails)

-----------------------------------------------------------------------------
(* Properties *)

\* A tab and its server know each other, whichever connections and kills overlap: a server
\* that runs for a tab is the one the next attach shares, so that no tab has two debuggers;
\* and a server LLDB would be told of is running, or everything is about to end.
TabKnowsItsServer ==
  /\ \A p \in Launches : lease[p] = "live" /\ tabOf[p] # NoTab => serverByTab[tabOf[p]] = p
  /\ \A t \in Tabs : LET p == serverByTab[t] IN
       p # NoServer /\ job[p] = "returned" => lease[p] = "live" \/ ~open

NothingHeld ==
  /\ ~listening /\ \A c \in Clients : conn[c] # "open"
  /\ \A p \in Launches : lease[p] \in {"none", "gone"} /\ held[p] = {}
  /\ loop \in {"off", "ended", "threw"} /\ client = "none" /\ ~probe
  /\ launching => browser # "running"

\* A failure, a shutdown and the rollback of a startup all come to an end, and either
\* everything that was acquired is released or the caller hears that it is not
\* (INTERNALS.md:80-85).
ShutdownReleases ==
  (failure \/ closing # "no") ~> (closing = "done" /\ (errors \/ NothingHeld))
=============================================================================
