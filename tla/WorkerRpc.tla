----------------------------- MODULE WorkerRpc -----------------------------
(***************************************************************************)
(* src/src/gdb/worker: the component runs on a thread of its own           *)
(* (component-worker.mjs) and its calls of the debuggee are carried out by *)
(* the event loop of the main thread (host.mjs), over a shared word, a     *)
(* shared buffer and the messages of the worker.  The two threads run      *)
(* side by side: every access to shared memory is a step of its own, and   *)
(* the thread may be terminated between any two of them.                   *)
(***************************************************************************)
EXTENDS Naturals, Sequences

CONSTANTS MaxCalls   \* bound: calls the component makes

ASSUME WorkerRpcAssumption == MaxCalls \in Nat

VARIABLES
  word,       \* CTRL_STATE: idle, request or response
  buffer      \* data and CTRL_LEN: whose request, or the response to it, they hold

VARIABLES
  thread,     \* starting (instantiation), running, written, signalled (rpc() between its
              \* steps), waiting (in its loop), asleep (in Atomics.wait), crashed, finished
              \* or gone
  sequence,   \* nextSequence - 1
  listened,   \* the component has bound its port
  returned    \* history: calls that have returned

VARIABLES
  inbox,      \* messages of the worker the host has not handled
  error,      \* the error event of the worker has not been handled
  exit,       \* its exit event: none, ok or bad (the code), or handled
  host,       \* idle, or responding, notifying: in the handler of a settled dispatch
  currentRpc, \* the call whose dispatch is awaited, 0 for none
  executed,   \* history: calls dispatched
  ready,      \* pending, resolved or rejected
  startupTimer,
  done,
  failure,    \* none, or what fail was called for: startup, crash, exit, protocol
  stopPromise \* it is there: the worker is being terminated

memory    == <<word, buffer>>
thrVars   == <<thread, sequence, listened, returned>>
events    == <<error, exit>>
callVars  == <<host, currentRpc, executed>>
lifeVars  == <<ready, startupTimer, done, failure, stopPromise>>
hostVars  == <<inbox, events, callVars, lifeVars>>
vars      == <<memory, thrVars, hostVars>>

Request(n)  == [kind |-> "request", sequence |-> n]
Response(n) == [kind |-> "response", sequence |-> n]

Init ==
  /\ word = "idle" /\ buffer = Response(0)
  /\ thread = "starting" /\ sequence = 0 /\ listened = FALSE /\ returned = 0
  /\ inbox = <<>> /\ error = FALSE /\ exit = "none"
  /\ host = "idle" /\ currentRpc = 0 /\ executed = 0
  /\ ready = "pending" /\ startupTimer = TRUE /\ done = FALSE
  /\ failure = "none" /\ stopPromise = FALSE

-----------------------------------------------------------------------------
(* The worker *)

Post(message) ==
  /\ inbox' = Append(inbox, message)
  /\ UNCHANGED <<events, callVars, lifeVars>>

Goto(from, to) == thread = from /\ thread' = to

Instantiated ==
  /\ Goto("starting", "running")
  /\ UNCHANGED <<memory, sequence, listened, returned, hostVars>>

\* debugger-listening
Listening ==
  /\ thread = "running" /\ ~listened /\ listened' = TRUE
  /\ Post("listening")
  /\ UNCHANGED <<memory, thread, sequence, returned>>

\* rpc(): the request and its length,
RpcWrites ==
  /\ Goto("running", "written")
  /\ sequence < MaxCalls /\ sequence' = sequence + 1
  /\ buffer' = Request(sequence')
  /\ UNCHANGED <<word, listened, returned, hostVars>>

\* the word,
RpcSignals ==
  /\ Goto("written", "signalled")
  /\ word' = "request"
  /\ UNCHANGED <<buffer, sequence, listened, returned, hostVars>>

\* the message,
RpcPosts ==
  /\ Goto("signalled", "waiting")
  /\ Post("rpc")
  /\ UNCHANGED <<memory, sequence, listened, returned>>

\* Mutant.  The word is looked at, then the thread sleeps.
FallsAsleepBlindly ==
  /\ Goto("waiting", "asleep")
  /\ UNCHANGED <<memory, sequence, listened, returned, hostVars>>

\* and Atomics.wait, which sleeps only if the word has not changed.
FallsAsleep ==
  /\ word = "request" /\ Goto("waiting", "asleep")
  /\ UNCHANGED <<memory, sequence, listened, returned, hostVars>>

\* Mutant.  Whatever ends the wait is taken for the response.
ReturnsUnanswered ==
  /\ Goto("waiting", "running") /\ word' = "idle" /\ returned' = sequence
  /\ UNCHANGED <<buffer, sequence, listened, hostVars>>

\* The loop ends.  A response that is not the one to this call is a failure of the
\* component, uncaught.
RpcReturns ==
  /\ thread = "waiting" /\ word # "request"
  /\ IF word = "response" /\ buffer = Response(sequence)
     THEN word' = "idle" /\ thread' = "running" /\ returned' = sequence
     ELSE thread' = "crashed" /\ UNCHANGED <<word, returned>>
  /\ UNCHANGED <<buffer, sequence, listened, hostVars>>

\* The module cannot be loaded, or the component traps.
Crashes ==
  /\ thread \in {"starting", "running"} /\ thread' = "crashed"
  /\ UNCHANGED <<memory, sequence, listened, returned, hostVars>>

\* debug() has returned: LLDB has closed its connection.
Finishes ==
  /\ Goto("running", "finished")
  /\ Post("done")
  /\ UNCHANGED <<memory, sequence, listened, returned>>

Ends(how) ==
  /\ thread' = "gone" /\ exit' = how
  /\ UNCHANGED <<memory, sequence, listened, returned, inbox, callVars, lifeVars>>

Exits ==
  \/ thread = "finished" /\ Ends("ok") /\ UNCHANGED error
  \/ thread = "crashed" /\ Ends("bad") /\ error' = TRUE

\* worker.terminate() ends it wherever it is.
Terminated == stopPromise /\ thread # "gone" /\ Ends("bad") /\ UNCHANGED error

-----------------------------------------------------------------------------
(* The host *)

Quietly == UNCHANGED lifeVars

\* fail(): the first failure, unless the worker is being stopped anyway.
Fail(why) ==
  IF failure # "none" \/ stopPromise THEN Quietly
  ELSE /\ failure' = why /\ startupTimer' = FALSE
       /\ ready' = IF ready = "pending" THEN "rejected" ELSE ready
       /\ stopPromise' = TRUE
       /\ UNCHANGED done

Handles(message) ==
  /\ host = "idle" /\ inbox # <<>> /\ Head(inbox) = message
  /\ inbox' = Tail(inbox)
  /\ UNCHANGED <<memory, thrVars, events, host>>

\* The worker asks.
HandleRpc ==
  /\ Handles("rpc")
  /\ IF ~stopPromise /\ currentRpc = 0 /\ word = "request" /\ buffer.kind = "request"
     THEN currentRpc' = buffer.sequence /\ executed' = executed + 1 /\ Quietly
     ELSE Fail("protocol") /\ UNCHANGED <<currentRpc, executed>>

HandleListening ==
  /\ Handles("listening")
  /\ IF stopPromise THEN Quietly
     ELSE IF ready = "resolved" THEN Fail("protocol")
     ELSE /\ ready' = "resolved" /\ startupTimer' = FALSE
          /\ UNCHANGED <<done, failure, stopPromise>>
  /\ UNCHANGED <<currentRpc, executed>>

HandleDone ==
  /\ Handles("done")
  /\ done' = (done \/ ~stopPromise)
  /\ UNCHANGED <<currentRpc, executed, ready, startupTimer, failure, stopPromise>>

\* The error event comes on a channel of its own, and may overtake messages.
HandleError ==
  /\ host = "idle" /\ error /\ error' = FALSE
  /\ Fail("crash")
  /\ UNCHANGED <<memory, thrVars, inbox, exit, callVars>>

\* The exit event comes last: Node hands out messages and error before it.
Exit == host = "idle" /\ exit \in {"ok", "bad"} /\ inbox = <<>> /\ ~error /\ exit' = "handled"

\* Mutant.  A worker that ends by itself leaves ready alone.
HandleExitQuietly ==
  /\ Exit /\ startupTimer' = FALSE
  /\ UNCHANGED <<memory, thrVars, inbox, error, callVars, ready, done, failure, stopPromise>>

\* An exit nobody asked for and the component has not announced is a failure.
HandleExit ==
  /\ Exit /\ startupTimer' = FALSE
  /\ ready' = IF ready = "pending" THEN "rejected" ELSE ready
  /\ IF ~stopPromise /\ failure = "none" /\ (~done \/ exit = "bad")
     THEN failure' = "exit" /\ stopPromise' = TRUE ELSE UNCHANGED <<failure, stopPromise>>
  /\ UNCHANGED <<memory, thrVars, inbox, error, callVars, done>>

\* dispatch has a result, or an error: the response, unless nobody is to have it,
DispatchSettles ==
  /\ host = "idle" /\ currentRpc # 0
  /\ currentRpc' = 0
  /\ IF stopPromise THEN UNCHANGED <<host, buffer>>
     ELSE host' = "responding" /\ buffer' = Response(currentRpc)
  /\ UNCHANGED <<word, thrVars, inbox, events, executed, lifeVars>>

\* the word,
Responds ==
  /\ host = "responding" /\ host' = "notifying"
  /\ word' = "response"
  /\ UNCHANGED <<buffer, thrVars, inbox, events, currentRpc, executed, lifeVars>>

\* and Atomics.notify.
Notifies ==
  /\ host = "notifying" /\ host' = "idle"
  /\ thread' = IF thread = "asleep" THEN "waiting" ELSE thread
  /\ UNCHANGED <<memory, sequence, listened, returned, inbox, events, currentRpc, executed, lifeVars>>

StartupTimeout ==
  /\ host = "idle" /\ startupTimer
  /\ Fail("startup")
  /\ UNCHANGED <<memory, thrVars, inbox, events, callVars>>

\* stop(), by the launcher.
Stop ==
  /\ host = "idle" /\ ~stopPromise
  /\ stopPromise' = TRUE /\ startupTimer' = FALSE
  /\ UNCHANGED <<memory, thrVars, inbox, events, callVars, ready, done, failure>>

-----------------------------------------------------------------------------
Rpc == RpcWrites \/ RpcSignals \/ RpcPosts \/ FallsAsleep \/ RpcReturns
Worker == Instantiated \/ Listening \/ Rpc \/ Crashes \/ Finishes \/ Exits \/ Terminated
Handle == HandleRpc \/ HandleListening \/ HandleDone \/ HandleError \/ HandleExit
Host == Handle \/ DispatchSettles \/ Responds \/ Notifies \/ StartupTimeout \/ Stop

Next == Worker \/ Host

\* The event loop handles what has come and timers fire; a thread that has ended or is
\* terminated exits.  Neither the component nor a dispatch has to get anywhere.
Spec ==
  /\ Init /\ [][Next]_vars
  /\ WF_vars(Handle) /\ WF_vars(Responds) /\ WF_vars(Notifies) /\ WF_vars(StartupTimeout)
  /\ WF_vars(Exits) /\ WF_vars(Terminated)

-----------------------------------------------------------------------------
TypeOK ==
  /\ word \in {"idle", "request", "response"}
  /\ buffer \in [kind : {"request", "response"}, sequence : Nat]
  /\ thread \in {"starting", "running", "written", "signalled", "waiting", "asleep", "crashed",
                "finished", "gone"}
  /\ sequence \in Nat /\ returned \in Nat /\ executed \in Nat /\ currentRpc \in Nat
  /\ inbox \in Seq({"rpc", "listening", "done"})
  /\ host \in {"idle", "responding", "notifying"}
  /\ exit \in {"none", "ok", "bad", "handled"}
  /\ ready \in {"pending", "resolved", "rejected"}
  /\ failure \in {"none", "startup", "crash", "exit", "protocol"}
  /\ listened \in BOOLEAN /\ error \in BOOLEAN
  /\ startupTimer \in BOOLEAN /\ done \in BOOLEAN /\ stopPromise \in BOOLEAN

\* A component that keeps to its part is served.  The host never takes what it does for a
\* breach of the protocol ("overlapping gdb worker RPC", "gdb RPC notification without
\* pending request", "duplicate gdb worker readiness"), the response it wakes up to is
\* the one to its call, and while it sleeps somebody is to wake it: the notification is
\* on its way, its call is being carried out, the response is being written, or it is
\* being terminated.
Served ==
  /\ failure # "protocol"
  /\ thread \in {"waiting", "asleep"} /\ word # "request"
       => word = "response" /\ buffer = Response(sequence)
  /\ thread = "asleep"
       => \/ stopPromise
          \/ (\E n \in DOMAIN inbox : inbox[n] = "rpc") \/ currentRpc = sequence
          \/ host \in {"responding", "notifying"}

\* Whoever started the worker learns what becomes of it: ready settles, also if the worker
\* ends or is stopped before it listens; and one that has ended was stopped, is reported
\* as a failure, or had told the host that LLDB's connection is over.
OwnerIsTold ==
  /\ ready = "pending" ~> ready # "pending"
  /\ thread = "gone" ~> (stopPromise \/ (done /\ failure = "none"))

\* A call is a procedure call to the component.
Calls == INSTANCE RemoteCall WITH asked <- sequence

ImplementsCalls == Calls!CallSpec
=============================================================================
