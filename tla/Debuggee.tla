------------------------------ MODULE Debuggee ------------------------------
(***************************************************************************)
(* The execution half of src/src/gdb/rdp-debuggee.ts: what LLDB's continue *)
(* and step do on top of the all-stop operation, how a stop is labelled,   *)
(* photographed and handed over, and how a page that arrives while LLDB    *)
(* waits is brought to a stop so that LLDB reads its modules.              *)
(*                                                                         *)
(* LLDB is the gdbstub component (vendor/gdbstub-component/src/lib.rs): it *)
(* blocks in EventFuture.finish, answers a stop tagged "interrupted" by    *)
(* continuing at once (nothing ever asks it to interrupt), and panics if   *)
(* finish fails, which ends the tab's session.  The user may press Ctrl-C  *)
(* while any LLDB command is in flight (cli/repl.ts), a read as well.      *)
(***************************************************************************)
EXTENDS AllStop

CONSTANTS FirstPage,  \* the page the session was started on
          ModulePages \* pages that have a module

\* There is room for the page.
ASSUME DebuggeeAssumption == FirstPage \in TopActors /\ MaxThreads >= 1 /\ ModulePages \subseteq TopActors

VARIABLES
  lldb,          \* start, waiting (in finish or primeStop), reading (the snapshot),
                 \* prompt, resuming (after an "interrupted" stop), gone
  attached,      \* primeStop is over
  stepping,      \* stepping_tid of the component, 0 for none
  reason,        \* #stop.reason
  hostInterruptPending,
  forcingResync,
  resyncTid,     \* #resyncTid, 0 for undefined
  resyncTimer,   \* #resyncTimer is running
  read,          \* TIDs whose frames the running snapshot has got
  pausedBefore,  \* the order of the Set #pausedTids: pairs of TIDs, the earlier one first
  ownTids        \* #pausePacketByTid: paused TIDs whose packet is not an interrupt's

adapterVars == <<lldb, attached, stepping, reason, hostInterruptPending, forcingResync, resyncTid,
                 resyncTimer, read>>

VARIABLES
  ownPause,      \* external: threads that last paused for a reason of their own
  published,     \* history: TIDs whose present pause was part of a published stop
  held           \* history: pages that were part of a published stop, and have announced
                 \* no new module since

debuggeeVars == <<adapterVars, pausedBefore, ownTids, ownPause, published, held>>
everything == <<allVars, debuggeeVars>>

\* A session that has been started on a tab, before primeStop.
DebuggeeInit ==
  /\ threads = {[tid |-> 1, actor |-> FirstPage, gen |-> 1, top |-> TRUE]}
  /\ retiredTargetActors = {}
  /\ nextTid = 2 /\ nextGeneration = 2 /\ activeGeneration = 1
  /\ generationAborted = FALSE
  /\ pendingTopLevelTid = 0
  /\ detachChecks = {} /\ sources = {}
  /\ closed = FALSE
  /\ detached = {} /\ dropped = {}
  /\ wire = <<>>
  /\ phase = [a \in Actors |-> IF a = FirstPage THEN "live" ELSE "unborn"]
  /\ page = FirstPage
  /\ owner = [w \in WorkerActors |-> NoPage]
  /\ sourced = {} /\ echoes = 0
  /\ pausedTids = {} /\ resumingTids = {} /\ unwitnessed = {} /\ witnessed = {}
  /\ operation = "idle" /\ collecting = FALSE
  /\ trigger = NoActor /\ interrupted = {} /\ ready = FALSE
  /\ completedStop = NoStop /\ stoppedTid = 1 /\ stops = 0
  /\ running = [a \in Actors |-> TRUE]
  /\ commands = [a \in Actors |-> <<>>]
  /\ pauses = 0 /\ presses = 0
  /\ lldb = "start" /\ attached = FALSE /\ stepping = 0
  /\ reason = "breakpoint"
  /\ hostInterruptPending = FALSE /\ forcingResync = FALSE
  /\ resyncTid = 0 /\ resyncTimer = FALSE
  /\ read = {}
  /\ pausedBefore = {} /\ ownTids = {}
  /\ ownPause = {} /\ published = {} /\ held = {}

-----------------------------------------------------------------------------
(* What follows from a change of the session's pause bookkeeping *)

NewlyPaused == pausedTids' \ pausedTids

\* pausedTids and the packets beside it.
Follow ==
  /\ pausedBefore' = (pausedBefore \cup pausedTids \X NewlyPaused) \cap (pausedTids' \X pausedTids')
  /\ ownTids' = (ownTids \cap pausedTids') \cup {t \in NewlyPaused : ActorOf(t) \in ownPause}

\* Pauses that last stay known to whom they were; nothing else is learnt.
Forget ==
  /\ published' = published \cap pausedTids'
  /\ UNCHANGED held

KeepPauses == Follow /\ Forget /\ UNCHANGED ownPause

Before(t, u) == <<t, u>> \in pausedBefore

OldestPaused == ActorOf(CHOOSE t \in pausedTids : \A u \in pausedTids : ~Before(u, t))

-----------------------------------------------------------------------------
(* The adapter listens to the session *)

ClearResync == resyncTid' = 0 /\ resyncTimer' = FALSE

\* #scheduleResyncCheck
ScheduleResync(tid) == resyncTid' = tid /\ resyncTimer' = TRUE

\* onClose, and what becomes of the component: a failed finish makes it panic.
OnClose ==
  /\ ClearResync
  /\ hostInterruptPending' = FALSE /\ forcingResync' = FALSE
  /\ lldb' = "gone"
  /\ UNCHANGED <<attached, stepping, reason, read>>

PageLeft == \E i \in Tops : i.actor \notin ActorsOf(threads')
PageCame == {i \in threads' : i.top /\ ~Known(i.actor)}

Sourced(infos) == {s.actor : s \in infos}

\* The page whose source the session has just learnt of (wasm-source).
ModuleCame == {i \in Tops : i.actor \in Sourced(sources') \ Sourced(sources)}

\* Mutant.  A module is read with its page, or with the next stop there happens to be.
DeafToModules ==
  IF closed' THEN OnClose
  ELSE /\ IF PageCame # {}
          THEN \E i \in PageCame : ScheduleResync(i.tid)
          ELSE IF PageLeft THEN ClearResync ELSE UNCHANGED <<resyncTid, resyncTimer>>
       /\ UNCHANGED <<lldb, attached, stepping, reason, hostInterruptPending, forcingResync, read>>

\* onNavigated for the page that left, onTarget for one that came, onWasmSource for a
\* module of the page LLDB has not been told of.
ListenToTargets ==
  IF closed' THEN OnClose
  ELSE /\ IF PageCame \cup ModuleCame # {}
          THEN \E i \in PageCame \cup ModuleCame : ScheduleResync(i.tid)
          ELSE IF PageLeft THEN ClearResync ELSE UNCHANGED <<resyncTid, resyncTimer>>
       /\ UNCHANGED <<lldb, attached, stepping, reason, hostInterruptPending, forcingResync, read>>

HearTarget ==
  /\ DeliverTarget /\ ListenToTargets
  /\ Follow /\ UNCHANGED ownPause
  /\ published' = published \cap pausedTids'
  /\ held' = held \ ActorsOf(ModuleCame)

HearThread ==
  /\ \E a \in Actors : DeliverPaused(a) \/ DeliverResumed(a) \/ DeliverStray(a)
  /\ KeepPauses /\ UNCHANGED adapterVars

\* The label of a stop (onStopped): the packet's own reason counts least.
Label ==
  IF hostInterruptPending THEN "signal"
  ELSE IF forcingResync \/ InfoOf(trigger).tid \in ownTids THEN "breakpoint" ELSE "interrupted"

OnStopped ==
  /\ reason' = Label
  /\ hostInterruptPending' = FALSE /\ forcingResync' = FALSE
  /\ ClearResync
  /\ lldb' = "reading" /\ read' = {}
  /\ published' = pausedTids /\ held' = held \cup ActorsOf(Tops)
  /\ UNCHANGED <<attached, stepping>>

\* The collector's continuation.  One whose trigger was retired goes on with the
\* thread that has been paused longest.
Continuation ==
  /\ Settle /\ Follow /\ UNCHANGED ownPause
  /\ IF operation' = "idle" THEN OnStopped
     ELSE /\ ~Known(trigger) /\ pausedTids # {} => trigger' = OldestPaused
          /\ Forget /\ UNCHANGED adapterVars

\* The deadline of the collector, or the session closed by its owner or the client,
\* which is of interest while LLDB waits.
SessionEnds ==
  /\ Deadline \/ (lldb = "waiting" /\ StopSessionClose)
  /\ OnClose /\ KeepPauses

-----------------------------------------------------------------------------
(* The snapshot of a stop *)

\* #finishEvent's tag.
Tag == IF reason = "interrupted" THEN "interrupted" ELSE "breakpoint"

\* The component takes the stop: it lists modules and threads, and LLDB has its turn.
\* A stop tagged "interrupted" it continues from, without looking.
HandOver ==
  IF attached /\ Tag = "interrupted"
  THEN lldb' = "resuming" /\ UNCHANGED <<attached, stepping>>
  ELSE /\ lldb' = "prompt" /\ attached' = TRUE /\ stepping' = 0

\* #snapshotAll: frames of one thread after the other, each an await after which the
\* stop must still be current.  After a Ctrl-C any paused thread may be selected.
SnapshotThread(tid) ==
  /\ lldb = "reading" /\ StopValid
  /\ tid \in completedStop.tids \ read /\ Alive(ActorOf(tid))
  /\ read' = read \cup {tid}
  /\ IF read' = completedStop.tids
     THEN /\ HandOver
          /\ IF reason = "signal" THEN stoppedTid' \in completedStop.tids ELSE UNCHANGED stoppedTid
     ELSE UNCHANGED <<lldb, attached, stepping, stoppedTid>>
  /\ UNCHANGED <<vars, pausedTids, resumingTids, unwitnessed, witnessed, operation, collecting,
                 trigger, interrupted, ready, completedStop, stops, threadVars,
                 reason, hostInterruptPending, forcingResync, resyncTid, resyncTimer,
                 pausedBefore, ownTids, ownPause, published, held>>

\* armStopped, beside the session's armAllStop: a deferred resync gets a new timer.
ArmStopped ==
  /\ resyncTimer' = (resyncTimer \/ resyncTid # 0)
  /\ UNCHANGED resyncTid

\* adoptPausedState of an idle session takes the thread paused longest.
AdoptOldest == AdoptPausedState /\ trigger' = OldestPaused /\ ArmStopped

\* #snapshotStopped: a target joined the stop; wait for it too and start again.
SnapshotAgain ==
  /\ lldb = "reading" /\ ~StopValid /\ CanExtend
  /\ AdoptOldest /\ KeepPauses
  /\ lldb' = "waiting"
  /\ UNCHANGED <<attached, stepping, reason, hostInterruptPending, forcingResync, read>>

\* The stop is not current any more, a target kept joining it for three seconds, or a
\* thread is gone before it answers: finish fails, and with it the session.
SnapshotFails ==
  /\ lldb = "reading"
  /\ ~StopValid \/ \E i \in threads : i.tid \notin read /\ ~Alive(i.actor)
  /\ StopSessionClose /\ OnClose /\ KeepPauses

-----------------------------------------------------------------------------
(* Execution commands *)

\* preferredInterruptTid: a worker that runs, else a page that runs, else whatever
\* there is, paused.
Preferred ==
  LET runs    == {i \in threads : i.tid \notin pausedTids}
      among   == IF runs # {} THEN runs ELSE threads
      workers == {i \in among : ~i.top}
  IN ActorsOf(IF workers # {} THEN workers ELSE among)

\* #interruptForHost
InterruptForHost ==
  IF threads = {} THEN UNCHANGED commands ELSE \E a \in Preferred : SendTo({a}, "interrupt")

\* #doContinue or #doSingleStep that finds a Ctrl-C pending only interrupts.
ArmForHost ==
  /\ Arm /\ InterruptForHost
  /\ UNCHANGED <<vars, pausedTids, resumingTids, unwitnessed, collecting, trigger, interrupted,
                 ready, completedStop, stoppedTid, running, pauses, presses>>

\* The three ways of a command: for a Ctrl-C, for a pause nobody was told of, or to
\* let threads run.
Execute(Run) ==
  /\ \/ hostInterruptPending /\ ArmForHost /\ ArmStopped
     \/ ~hostInterruptPending /\ unwitnessed # {} /\ AdoptOldest
     \/ ~hostInterruptPending /\ Run /\ ArmStopped
  /\ lldb' = "waiting"
  /\ KeepPauses
  /\ UNCHANGED <<attached, reason, hostInterruptPending, forcingResync, read>>

\* LLDB continues, or the component does after an "interrupted" stop.
DoContinue ==
  /\ lldb = "prompt" \/ (lldb = "resuming" /\ stepping = 0)
  /\ Execute(Continue)
  /\ stepping' = 0

\* LLDB steps a thread of the stop it was shown, or the component steps on.
DoSingleStep(tid) ==
  /\ lldb = "prompt" \/ (lldb = "resuming" /\ stepping = tid)
  /\ tid \in pausedTids
  /\ Execute(SingleStep(tid))
  /\ stepping' = tid

\* The component steps on a thread that is not there any more: #info throws.
StepLost ==
  /\ lldb = "resuming" /\ stepping # 0 /\ stepping \notin TidsOf(threads)
  /\ StopSessionClose /\ OnClose /\ KeepPauses

\* primeStop: attach with a stop of the threads there are.
PrimeStop ==
  /\ lldb = "start" /\ threads # {}
  /\ \/ pausedTids # {} /\ AdoptOldest
     \/ (\E a \in Actors : Prime(a)) /\ ArmStopped
  /\ lldb' = "waiting"
  /\ KeepPauses
  /\ UNCHANGED <<attached, stepping, reason, hostInterruptPending, forcingResync, read>>

\* primeStop on a tab without threads.
PrimeNothing ==
  /\ ~closed /\ lldb = "start" /\ threads = {}
  /\ lldb' = "prompt" /\ attached' = TRUE
  /\ UNCHANGED <<allVars, stepping, reason, hostInterruptPending, forcingResync, resyncTid,
                 resyncTimer, read, pausedBefore, ownTids, ownPause, published, held>>

\* #awaitStop gives up after eight seconds and the attach with it.
PrimeTimeout ==
  /\ lldb = "waiting" /\ ~attached
  /\ StopSessionClose /\ OnClose /\ KeepPauses

\* allModules: LLDB asks for the modules at its turn.  The answer may tell of one that
\* the page has yet to announce; one that tells nothing new changes nothing.
AllModules ==
  /\ lldb = "prompt"
  /\ \E t \in ModulePages \ sourced : SourcesReply(t)
  /\ UNCHANGED <<stopVars, threadVars, adapterVars>> /\ KeepPauses

-----------------------------------------------------------------------------
(* Ctrl-C and the resync timer *)

\* triggerInterrupt, while any command of LLDB is in flight.
TriggerInterrupt ==
  /\ ~closed /\ attached /\ presses < MaxInterrupts
  /\ presses' = presses + 1
  /\ ClearResync
  /\ hostInterruptPending' = TRUE /\ forcingResync' = FALSE
  /\ IF operation = "pending" THEN InterruptForHost ELSE UNCHANGED commands
  /\ UNCHANGED <<vars, stopVars, running, pauses, lldb, attached, stepping, reason, read,
                 pausedBefore, ownTids, ownPause, published, held>>

\* Mutant.  A resync that finds no wait is forgotten.
ForgetDeferred ==
  /\ ~closed /\ resyncTimer /\ (operation = "idle" \/ threads = {})
  /\ resyncTimer' = FALSE /\ resyncTid' = 0
  /\ UNCHANGED <<allVars, lldb, attached, stepping, reason, hostInterruptPending, forcingResync,
                 read, pausedBefore, ownTids, ownPause, published, held>>

\* The timer finds nobody waiting, and keeps its intent, or nothing to interrupt.
ResyncDeferred ==
  /\ ~closed /\ resyncTimer /\ (operation = "idle" \/ threads = {})
  /\ resyncTimer' = FALSE
  /\ UNCHANGED <<allVars, lldb, attached, stepping, reason, hostInterruptPending, forcingResync,
                 resyncTid, read, pausedBefore, ownTids, ownPause, published, held>>

\* The timer finds a pause nobody was told of: collect for the oldest, unless a
\* collection runs.
ResyncAdopts ==
  /\ ~closed /\ resyncTimer /\ operation = "pending" /\ threads # {} /\ unwitnessed # {}
  /\ resyncTimer' = FALSE
  /\ IF collecting THEN NotCollecting
     ELSE \E tid \in pausedTids : /\ Begin(ActorOf(tid), threads, pausedTids, resumingTids)
                                 /\ trigger' = OldestPaused
  /\ UNCHANGED <<vars, pausedTids, resumingTids, unwitnessed, witnessed, operation, completedStop,
                 stoppedTid, stops, running, pauses, presses, lldb, attached, stepping,
                 reason, hostInterruptPending, forcingResync, resyncTid, read, pausedBefore, ownTids,
                 ownPause, published, held>>

\* The timer forces the page to stop.
ResyncForces ==
  /\ ~closed /\ resyncTimer /\ operation = "pending" /\ threads # {} /\ unwitnessed = {}
  /\ resyncTimer' = FALSE
  /\ forcingResync' = TRUE
  /\ \E i \in threads : /\ i.tid = resyncTid \/ resyncTid \notin TidsOf(threads)
                        /\ SendTo({i.actor}, "interrupt")
  /\ UNCHANGED <<vars, stopVars, running, pauses, presses, lldb, attached, stepping, reason,
                 hostInterruptPending, resyncTid, read, pausedBefore, ownTids, ownPause, published,
                 held>>

ResyncCheck == ResyncDeferred \/ ResyncAdopts \/ ResyncForces

-----------------------------------------------------------------------------
(* Firefox *)

OwnPause ==
  /\ \E a \in Actors : FirefoxPauses(a) /\ ownPause' = ownPause \cup {a}
  /\ Follow /\ Forget /\ UNCHANGED adapterVars

Execution(a) ==
  /\ FirefoxExecutes(a)
  /\ ownPause' = IF running'[a] # running[a] THEN ownPause \ {a} ELSE ownPause
  /\ Follow /\ Forget /\ UNCHANGED adapterVars

TargetsChange ==
  /\ FirefoxTargets
  /\ KeepPauses /\ UNCHANGED adapterVars

\* A page has compiled its module, at any time of its life.
ModuleCompiled ==
  /\ \E t \in ModulePages : FirefoxAnnouncesSource(t)
  /\ UNCHANGED <<stopVars, threadVars, adapterVars>> /\ KeepPauses

-----------------------------------------------------------------------------
\* Packets of a chunk and the continuations they release.
DebuggeeChunk == HearTarget \/ HearThread \/ Continuation

\* What the component does without being asked.
Component ==
  \/ \E tid \in pausedTids : SnapshotThread(tid)
  \/ SnapshotAgain \/ SnapshotFails
  \/ lldb = "resuming" /\ (DoContinue \/ (\E tid \in pausedTids : DoSingleStep(tid)) \/ StepLost)

\* What LLDB's user may do.
User ==
  \/ PrimeStop \/ PrimeNothing \/ AllModules \/ TriggerInterrupt
  \/ lldb = "prompt" /\ (DoContinue \/ \E tid \in pausedTids : DoSingleStep(tid))

DebuggeeNext ==
  \/ DebuggeeChunk
  \/ ~ready /\ (Component \/ User \/ ResyncCheck \/ PrimeTimeout \/ SessionEnds)
  \/ ~closed /\ (OwnPause \/ (\E a \in Actors : Execution(a)) \/ TargetsChange \/ ModuleCompiled)

DebuggeeSpec == DebuggeeInit /\ [][DebuggeeNext]_everything

-----------------------------------------------------------------------------
\* The paused TIDs are in one order, so that one of them has been paused longest.
InsertionOrder ==
  /\ pausedBefore \subseteq pausedTids \X pausedTids
  /\ \A t, u \in pausedTids : /\ Before(t, u) => ~Before(u, t)
                              /\ t = u \/ Before(t, u) \/ Before(u, t)
  /\ \A t, u, v \in pausedTids : Before(t, u) /\ Before(u, v) => Before(t, v)

DebuggeeTypeOK ==
  /\ AllStopTypeOK
  /\ lldb \in {"start", "waiting", "reading", "prompt", "resuming", "gone"}
  /\ attached \in BOOLEAN /\ stepping \in Nat
  /\ reason \in {"breakpoint", "interrupted", "signal"}
  /\ hostInterruptPending \in BOOLEAN /\ forcingResync \in BOOLEAN
  /\ resyncTid \in Nat /\ resyncTimer \in BOOLEAN
  /\ InsertionOrder
  /\ ownTids \subseteq pausedTids /\ published \subseteq pausedTids
  /\ read \subseteq Nat /\ ownPause \subseteq Actors /\ held \subseteq TopActors
  /\ ~closed => (lldb = "waiting") = (operation = "pending")

\* A thread that stopped for a breakpoint or an exception is let go only after a
\* stop that it was part of.
PauseIsPublished ==
  [][~closed' => \A i \in threads \cap threads' :
       i.tid \in ownTids \ published => i.tid \in pausedTids']_everything

\* Nothing is on its way: no packet, no command a thread has yet to execute, no
\* continuation, timer or request of the component.  Only LLDB's user, a thread on its
\* own account or a deadline can change such a state.
Quiet ==
  /\ ~closed /\ wire = <<>> /\ ~ready /\ ~resyncTimer
  /\ lldb \notin {"reading", "resuming"}
  /\ \A a \in Actors : Alive(a) => commands[a] = <<>>

\* A collection is never stuck: whatever threads pause, resume, come and go meanwhile,
\* with nothing on its way there is nothing left to collect.
CollectionNotStuck == Quiet => ~collecting

\* A page that replaced another, or has compiled a module since it was last stopped, is
\* brought to a stop, whether that happened while LLDB waited or before: it does not run
\* for good while LLDB knows only the modules of the old page, or not the new one.
ReplacementNotMissed ==
  Quiet /\ lldb = "waiting" /\ attached /\ ~hostInterruptPending
    => \A i \in Tops : i.tid \in pausedTids \/ i.actor \in held

\* "Ctrl-C won the race with WIT dispatch. Establish a genuine RDP all-stop now and
\* let the real worker pause resolve EventFuture" (rdp-debuggee.ts 1096): no command
\* that met a Ctrl-C goes on waiting for threads that are there.
CtrlCNotMissed ==
  Quiet /\ lldb = "waiting" /\ hostInterruptPending => threads = {}
=============================================================================
