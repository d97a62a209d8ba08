------------------------------ MODULE AllStop ------------------------------
(***************************************************************************)
(* The stop operation of src/src/rdp/session.ts, on top of the target      *)
(* lifecycle.  LLDB is promised all-stop: when one thread pauses, every    *)
(* thread is paused before the stop is reported.  Firefox has no such      *)
(* notion: each thread pauses, resumes and answers commands on its own,    *)
(* while threads come and go.                                              *)
(*                                                                         *)
(* The collector of an operation is a promise continuation.  Packets of    *)
(* one TCP chunk are handled one after the other before it runs, so that   *)
(* "ready to settle" and "settled" are different states.                   *)
(***************************************************************************)
EXTENDS Targets

CONSTANTS NoActor,        \* no trigger
          NoStop,         \* no completed stop
          MaxStops,       \* bound: operations armed
          MaxPauses,      \* bound: pauses Firefox makes on its own
          MaxInterrupts   \* bound: interrupts sent by the user

ASSUME AllStopAssumption ==
  /\ NoActor \notin Actors
  /\ MaxStops \in Nat /\ MaxPauses \in Nat /\ MaxInterrupts \in Nat

Commands == {"resume", "interrupt"}

VARIABLES
  pausedTids,      \* #pausedTids
  resumingTids,    \* #resumingTids
  unwitnessed,     \* #unwitnessedPausedTids
  witnessed,       \* TIDs whose pauses the active operation watches
  operation,       \* idle or pending: #activeStop
  collecting,      \* #collectStop is running
  trigger,         \* actor of the thread whose pause it collects for
  interrupted,     \* actors it has interrupted
  ready,           \* its state waiter has resolved, its continuation not yet run
  completedStop,   \* #completedStop: [tid, gen, tids]
  stoppedTid,      \* #stoppedTid
  stops            \* operations armed so far

stopVars == <<pausedTids, resumingTids, unwitnessed, witnessed, operation, collecting, trigger,
              interrupted, ready, completedStop, stoppedTid, stops>>

VARIABLES
  running,   \* external: does the thread of a live target run
  commands,  \* external: commands sent to a thread and not yet executed, oldest first
  pauses,    \* external: pauses made for a breakpoint, an exception or a finished step
  presses    \* interrupts the user has asked for

threadVars == <<running, commands, pauses, presses>>
allVars == <<vars, stopVars, threadVars>>

AllStopInit ==
  /\ Init
  /\ pausedTids = {} /\ resumingTids = {} /\ unwitnessed = {}
  /\ witnessed = {}
  /\ operation = "idle" /\ collecting = FALSE
  /\ trigger = NoActor /\ interrupted = {} /\ ready = FALSE
  /\ completedStop = NoStop
  /\ stoppedTid = 1
  /\ stops = 0
  /\ running = [a \in Actors |-> TRUE]
  /\ commands = [a \in Actors |-> <<>>]
  /\ pauses = 0 /\ presses = 0

-----------------------------------------------------------------------------
TidsOf(infos) == {i.tid : i \in infos}

ActorOf(tid) == (CHOOSE i \in threads : i.tid = tid).actor

\* The predicate of #collectStop: nothing left to wait for, because every thread
\* is paused or because the trigger has been retired.
Complete(live, paused, for) ==
  for \notin ActorsOf(live) \/ TidsOf(live) \subseteq paused

\* Threads interruptRunning would send an interrupt to.  A thread being resumed is
\* left until Firefox reports it running, or the interrupt could arrive first.
ToInterrupt(live, paused, resuming, for, already) ==
  IF for \notin ActorsOf(live) THEN {}
  ELSE {i.actor : i \in {j \in live : j.tid \notin paused \cup resuming}} \ already

\* client.send of one command to each thread of S; a destroyed thread hears nothing.
SendTo(S, command) ==
  commands' = [a \in Actors |-> IF a \in S THEN Append(commands[a], command) ELSE commands[a]]

\* Mutant.  The collector is left running.
EndKeepsCollecting ==
  /\ operation' = "idle"
  /\ ready' = FALSE
  /\ trigger' = NoActor /\ interrupted' = {}
  /\ witnessed' = {}
  /\ UNCHANGED collecting

\* The end of an operation, however it comes: listeners and watches are removed.
EndOperation ==
  /\ operation' = "idle"
  /\ collecting' = FALSE /\ ready' = FALSE
  /\ trigger' = NoActor /\ interrupted' = {}
  /\ witnessed' = {}

\* begin: start collecting for the pause of a.
Begin(a, live, paused, resuming) ==
  /\ collecting' = TRUE
  /\ trigger' = a
  /\ ready' = Complete(live, paused, a)
  /\ interrupted' = ToInterrupt(live, paused, resuming, a, {})
  /\ SendTo(interrupted', "interrupt")

\* Mutant.  Threads are interrupted when a collection begins and never again.
CollectOnce(live, paused, resuming) ==
  /\ ready' = (ready \/ Complete(live, paused, trigger))
  /\ UNCHANGED <<collecting, trigger, interrupted, commands>>

\* The listeners of a running collector, after any change of state.
Collect(live, paused, resuming) ==
  LET new == ToInterrupt(live, paused, resuming, trigger, interrupted) IN
  /\ ready' = (ready \/ Complete(live, paused, trigger))
  /\ interrupted' = interrupted \cup new
  /\ SendTo(new, "interrupt")
  /\ UNCHANGED <<collecting, trigger>>

NotCollecting == UNCHANGED <<collecting, trigger, ready, interrupted, commands>>

-----------------------------------------------------------------------------
(* Packets *)

\* Mutant.  A thread is cleaned up after only if its TID goes with it.
LeavingForGood == TidsOf(threads) \ TidsOf(threads')

\* #removeThread: TIDs of the threads the current step drops.
Leaving == TidsOf({i \in threads : i.actor \notin ActorsOf(threads')})

\* A target packet, and what follows from it for the pause bookkeeping: a thread
\* that left takes its pause along, even if its TID lives on.
DeliverTarget ==
  /\ Deliver
  /\ LET paused   == pausedTids \ Leaving
         resuming == resumingTids \ Leaving
     IN
     /\ pausedTids' = paused
     /\ resumingTids' = resuming
     /\ unwitnessed' = unwitnessed \ Leaving
     /\ IF closed' THEN EndOperation /\ UNCHANGED commands
        ELSE /\ witnessed' = IF operation = "pending" THEN witnessed \cup TidsOf(threads')
                                                      ELSE witnessed
             /\ IF collecting THEN Collect(threads', paused, resuming) ELSE NotCollecting
             /\ UNCHANGED operation
  /\ UNCHANGED <<completedStop, stoppedTid, stops, running, pauses, presses>>

\* The oldest packet is about the thread of a target.
Report(kind, a) ==
  /\ ~closed /\ wire # <<>>
  /\ Head(wire) = [kind |-> kind, actor |-> a]
  /\ wire' = Tail(wire)
  /\ UNCHANGED <<sessionVars, phase, page, owner, sourced, echoes>>

\* Mutant.  A pause nobody watches is not recorded.
DropUnwatched(tid) == unwitnessed

\* A pause nobody watches is recorded as unreported.
Unreported(tid) == IF tid \in witnessed THEN unwitnessed ELSE unwitnessed \cup {tid}

\* #onEvent paused.  A pause nobody watches is kept for the next command; a watched
\* one starts a collection, unless one is running.
DeliverPaused(a) ==
  /\ Report("paused", a) /\ Known(a)
  /\ LET tid      == InfoOf(a).tid
         paused   == pausedTids \cup {tid}
         resuming == resumingTids \ {tid}
     IN
     /\ pausedTids' = paused
     /\ resumingTids' = resuming
     /\ unwitnessed' = Unreported(tid)
     /\ IF collecting THEN Collect(threads, paused, resuming)
        ELSE IF operation = "pending" THEN Begin(a, threads, paused, resuming)
        ELSE NotCollecting
  /\ UNCHANGED <<witnessed, operation, completedStop, stoppedTid, stops, running,
                 pauses, presses>>

\* #onEvent resumed.
DeliverResumed(a) ==
  /\ Report("resumed", a) /\ Known(a)
  /\ LET tid == InfoOf(a).tid IN
     /\ completedStop' = NoStop
     /\ pausedTids' = pausedTids \ {tid}
     /\ resumingTids' = resumingTids \ {tid}
     /\ unwitnessed' = unwitnessed \ {tid}
     /\ IF collecting THEN Collect(threads, pausedTids \ {tid}, resumingTids \ {tid})
        ELSE NotCollecting
  /\ UNCHANGED <<witnessed, operation, stoppedTid, stops, running, pauses, presses>>

\* A report about a thread that is not known (any more).
DeliverStray(a) ==
  /\ \E kind \in {"paused", "resumed"} : Report(kind, a)
  /\ ~Known(a)
  /\ UNCHANGED <<stopVars, threadVars>>

-----------------------------------------------------------------------------
(* The collector *)

\* A navigation retired the trigger: the wait goes on, for any pause there is now.
StartOver ==
  /\ IF pausedTids = {}
     THEN /\ collecting' = FALSE /\ ready' = FALSE
          /\ trigger' = NoActor /\ interrupted' = {}
          /\ UNCHANGED commands
     ELSE \E tid \in pausedTids : Begin(ActorOf(tid), threads, pausedTids, resumingTids)
  /\ UNCHANGED <<unwitnessed, witnessed, operation, completedStop, stoppedTid>>

\* Every thread is paused: publish the stop.
Publish ==
  /\ completedStop' = [tid |-> InfoOf(trigger).tid, gen |-> InfoOf(trigger).gen,
                       tids |-> pausedTids]
  /\ stoppedTid' = InfoOf(trigger).tid
  /\ unwitnessed' = {}
  /\ EndOperation
  /\ UNCHANGED commands

\* A target came in the same chunk as the last pause: wait again, same deadline.
WaitAgain ==
  /\ ready' = FALSE
  /\ interrupted' = interrupted \cup
                      ToInterrupt(threads, pausedTids, resumingTids, trigger, interrupted)
  /\ SendTo(interrupted' \ interrupted, "interrupt")
  /\ UNCHANGED <<unwitnessed, witnessed, operation, collecting, trigger, completedStop, stoppedTid>>

\* The continuation behind the state waiter.
Settle ==
  /\ ~closed /\ collecting /\ ready
  /\ \/ trigger \notin ActorsOf(threads) /\ StartOver
     \/ trigger \in ActorsOf(threads) /\ TidsOf(threads) \subseteq pausedTids /\ Publish
     \/ ~Complete(threads, pausedTids, trigger) /\ WaitAgain
  /\ UNCHANGED <<vars, pausedTids, resumingTids, stops, running, pauses, presses>>

\* Three seconds without a complete stop: a thread may be running unseen, so the
\* session fails closed.
Deadline ==
  /\ ~closed /\ collecting /\ ~ready
  /\ CloseSession /\ EndOperation
  /\ UNCHANGED <<dropped, firefoxVars, pausedTids, resumingTids, unwitnessed, completedStop,
                 stoppedTid, stops, threadVars>>

StopSessionClose ==
  /\ SessionClose /\ EndOperation
  /\ UNCHANGED <<pausedTids, resumingTids, unwitnessed, completedStop, stoppedTid, stops, threadVars>>

-----------------------------------------------------------------------------
(* Commands of the debuggee adapter.  LLDB waits for an operation to end before it
   sends the next command; only an interrupt may join one. *)

\* armAllStop
Arm ==
  /\ ~closed /\ operation = "idle" /\ stops < MaxStops
  /\ operation' = "pending"
  /\ witnessed' = TidsOf(threads)
  /\ stops' = stops + 1

\* Mutant.  The threads count as paused until Firefox reports them resumed.
ResumeOptimist(tids) ==
  /\ completedStop' = IF tids = {} THEN completedStop ELSE NoStop
  /\ resumingTids' = resumingTids \cup (tids \cap pausedTids)
  /\ unwitnessed' = unwitnessed \ tids
  /\ SendTo({i.actor : i \in {j \in threads : j.tid \in tids}}, "resume")
  /\ UNCHANGED pausedTids

\* #requestResume for each of a set of threads.
RequestResume(tids) ==
  /\ completedStop' = IF tids = {} THEN completedStop ELSE NoStop
  /\ pausedTids' = pausedTids \ tids
  /\ resumingTids' = resumingTids \cup (tids \cap pausedTids)
  /\ unwitnessed' = unwitnessed \ tids
  /\ SendTo({i.actor : i \in {j \in threads : j.tid \in tids}}, "resume")

\* #doContinue with every pause witnessed.
Continue ==
  /\ Arm /\ unwitnessed = {}
  /\ RequestResume(pausedTids)
  /\ UNCHANGED <<vars, collecting, trigger, interrupted, ready, stoppedTid, running, pauses, presses>>

\* #doSingleStep: one thread is let go, its peers stay as they are.
SingleStep(tid) ==
  /\ Arm /\ unwitnessed = {} /\ tid \in pausedTids
  /\ RequestResume({tid})
  /\ UNCHANGED <<vars, collecting, trigger, interrupted, ready, stoppedTid, running, pauses, presses>>

\* #doSingleStep with the TID of a stopped page that has been replaced since: LLDB can
\* still address it, the replacement runs, and stepOne does not look.
StepReplacement(tid) ==
  /\ Arm /\ unwitnessed = {}
  /\ completedStop # NoStop /\ tid \in (completedStop.tids \cap TidsOf(threads)) \ pausedTids
  /\ RequestResume({tid})
  /\ UNCHANGED <<vars, collecting, trigger, interrupted, ready, stoppedTid, running, pauses, presses>>

\* canExtendStop: a thread announced after the stop has yet to be paused.
CanExtend ==
  /\ completedStop # NoStop
  /\ completedStop.gen = activeGeneration
  /\ Cardinality(completedStop.tids) < Cardinality(threads)
  /\ completedStop.tids \subseteq TidsOf(threads) \cap pausedTids

\* adoptPausedState, by a command that found an unreported pause, or by the
\* snapshot of a stop that a new thread has joined.
AdoptPausedState ==
  /\ Arm /\ (unwitnessed # {} \/ CanExtend)
  /\ \E tid \in pausedTids : Begin(ActorOf(tid), threads, pausedTids, resumingTids)
  /\ UNCHANGED <<vars, pausedTids, resumingTids, unwitnessed, completedStop, stoppedTid, running,
                 pauses, presses>>

\* primeStop on a tab where nothing is paused.
Prime(a) ==
  /\ Arm /\ pausedTids = {} /\ Known(a)
  /\ SendTo({a}, "interrupt")
  /\ UNCHANGED <<vars, pausedTids, resumingTids, unwitnessed, collecting, trigger, interrupted,
                 ready, completedStop, stoppedTid, running, pauses, presses>>

\* The user interrupts a pending execution (#doInterrupt, #interruptForHost).
Interrupt(a) ==
  /\ ~closed /\ operation = "pending" /\ Known(a) /\ presses < MaxInterrupts
  /\ presses' = presses + 1
  /\ SendTo({a}, "interrupt")
  /\ UNCHANGED <<vars, stopVars, running, pauses>>

-----------------------------------------------------------------------------
(* Threads in Firefox *)

Alive(a) == phase[a] \in {"live", "dying"}

FirefoxPauses(a) ==
  /\ Alive(a) /\ running[a] /\ pauses < MaxPauses
  /\ running' = [running EXCEPT ![a] = FALSE]
  /\ pauses' = pauses + 1
  /\ Emit("paused", a)
  /\ UNCHANGED <<sessionVars, phase, page, owner, sourced, echoes, stopVars, commands, presses>>

\* A command that does not fit the thread's state gets an error, which is no event.
FirefoxExecutes(a) ==
  /\ Alive(a) /\ commands[a] # <<>>
  /\ commands' = [commands EXCEPT ![a] = Tail(@)]
  /\ \/ /\ Head(commands[a]) = "resume" /\ ~running[a]
        /\ running' = [running EXCEPT ![a] = TRUE]
        /\ Emit("resumed", a)
     \/ /\ Head(commands[a]) = "interrupt" /\ running[a]
        /\ running' = [running EXCEPT ![a] = FALSE]
        /\ Emit("paused", a)
     \/ /\ (Head(commands[a]) = "resume") <=> running[a]
        /\ UNCHANGED <<running, wire>>
  /\ UNCHANGED <<sessionVars, phase, page, owner, sourced, echoes, stopVars, pauses, presses>>

\* What Targets lets Firefox do, without sources and repeated announcements.
FirefoxTargets ==
  /\ \/ \E t \in TopActors : FirefoxLoads(t) \/ FirefoxAnnouncesPage(t) \/ FirefoxDestroysPage(t)
     \/ \E t, u \in TopActors : FirefoxSwapsPage(t, u)
     \/ \E w \in WorkerActors : FirefoxStartsWorker(w)
     \/ \E a \in Actors : FirefoxDestroysLate(a)
  /\ UNCHANGED <<stopVars, threadVars>>

\* The rest of a chunk and the continuations it released come before anything else
\* the event loop has to do.
Chunk ==
  \/ DeliverTarget
  \/ \E a \in Actors : DeliverPaused(a) \/ DeliverResumed(a) \/ DeliverStray(a)
  \/ Settle

EventLoop ==
  \/ Deadline \/ StopSessionClose
  \/ Continue \/ AdoptPausedState
  \/ \E tid \in pausedTids : SingleStep(tid)
  \/ \E a \in Actors : Prime(a) \/ Interrupt(a)

FirefoxThreads == \E a \in Actors : FirefoxPauses(a) \/ FirefoxExecutes(a)

AllStopNext ==
  \/ Chunk
  \/ ~ready /\ EventLoop
  \/ ~closed /\ (FirefoxTargets \/ FirefoxThreads)

\* The same with LLDB stepping what it believes to be stopped.
ReplacementNext ==
  \/ AllStopNext
  \/ ~ready /\ \E tid \in TidsOf(threads) : StepReplacement(tid)

ReplacementSpec == AllStopInit /\ [][ReplacementNext]_allVars

-----------------------------------------------------------------------------
AllStopTypeOK ==
  /\ pausedTids \subseteq Nat /\ resumingTids \subseteq Nat
  /\ unwitnessed \subseteq Nat /\ witnessed \subseteq Nat
  /\ operation \in {"idle", "pending"}
  /\ collecting \in BOOLEAN /\ ready \in BOOLEAN
  /\ trigger \in Actors \cup {NoActor}
  /\ interrupted \subseteq Actors
  /\ collecting => operation = "pending" /\ trigger # NoActor
  /\ completedStop = NoStop \/
       (completedStop.tid \in Nat /\ completedStop.gen \in Nat /\ completedStop.tids \subseteq Nat)
  /\ stoppedTid \in Nat
  /\ stops \in Nat /\ pauses \in Nat /\ presses \in Nat
  /\ running \in [Actors -> BOOLEAN]
  /\ commands \in [Actors -> Seq(Commands)]

\* assertStopped accepts the completed stop.
StopValid ==
  /\ ~closed /\ completedStop # NoStop
  /\ completedStop.gen = activeGeneration
  /\ Cardinality(completedStop.tids) = Cardinality(threads)
  /\ completedStop.tids \subseteq TidsOf(threads) \cap pausedTids

\* While a stop is valid LLDB reads frames and memory of every thread: none of them
\* runs in Firefox, and none has been told to.
StopIsReal ==
  StopValid => \A i \in threads :
                 Alive(i.actor) => ~running[i.actor] /\ "resume" \notin
                   {commands[i.actor][n] : n \in DOMAIN commands[i.actor]}

\* "Own one execution wait through coherent all-stop" (session.ts 1462): a stop that
\* has just been published is not one that a thread is about to leave.
CoherentAllStop ==
  StopValid => \A i \in threads : Alive(i.actor) => commands[i.actor] = <<>>
                                    \/ "resume" # Head(commands[i.actor])

\* A TID counts as paused for the thread that owns it now, never for the one it was
\* inherited from: that thread stands still in Firefox.  A TID that is being resumed
\* does not count, and every known pause belongs to a live thread.
PausesAreOwned ==
  ~closed => /\ pausedTids \cup resumingTids \subseteq TidsOf(threads)
             /\ pausedTids \cap resumingTids = {}
             /\ unwitnessed \subseteq pausedTids
             /\ \A i \in threads : i.tid \in pausedTids /\ Alive(i.actor) => ~running[i.actor]
=============================================================================
