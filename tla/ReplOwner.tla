----------------------------- MODULE ReplOwner -----------------------------
(***************************************************************************)
(* src/src/mcp/repl-owner.ts: one command line at a time, over launches    *)
(* that supersede each other, shutdowns, and cleanups that fail.  Calls    *)
(* queue on one promise chain; each first makes those before it obsolete.  *)
(* The child of the call that has spawned last is PtyRepl's, and the tools *)
(* (mcp/server.ts) send to it what the owner calls active.                 *)
(***************************************************************************)
EXTENDS PtyRepl

CONSTANT MaxCalls   \* bound: calls of replace and shutdown

ASSUME OwnerAssumption == MaxCalls \in Nat

\* A call is named by its number.
Calls == 1..MaxCalls

VARIABLES
  calls,      \* calls[i]: the state of a call
  chain,      \* #changes: calls that have not ended, in order
  revision,
  changing,
  current,    \* the call whose command line is owned, or 0
  pending,    \* the call whose launch can be aborted, or 0
  failure,
  closed,
  child,      \* the call that has spawned PtyRepl's child, or 0
  strays      \* history: a child was spawned while another was running

ownVars == <<calls, chain, revision, changing, current, pending, failure, closed, child, strays>>
vars == <<ptyVars, ownVars>>

NoCall == [kind     |-> "none",    \* replace or shutdown
           stage    |-> "none",    \* queued; what it awaits: stopping, port, launching,
                                   \* retracting; ended
           revision |-> 0,
           aborted  |-> FALSE]     \* the signal of its launch

Init ==
  /\ NoChild
  /\ calls = [i \in Calls |-> NoCall] /\ chain = <<>>
  /\ revision = 0 /\ changing = FALSE /\ current = 0 /\ pending = 0
  /\ failure = FALSE /\ closed = FALSE
  /\ child = 0 /\ strays = FALSE

Running == cli # "exited"

\* active: the command line that the tools use.
Active == IF changing \/ closed \/ failure THEN 0 ELSE current

-----------------------------------------------------------------------------
(* Calls come *)

\* The signal of the launch under way is aborted, and its command line begins to stop.
AbortPending ==
  IF pending # 0 /\ calls[pending].stage = "launching" /\ launch = "waiting"
  THEN StopChild ELSE UNCHANGED ptyVars

Come(i, kind) ==
  /\ calls[i].kind = "none" /\ \A j \in 1..(i - 1) : calls[j].kind # "none"
  /\ AbortPending
  /\ revision' = revision + 1
  /\ changing' = TRUE
  /\ LET queued == [calls EXCEPT ![i] = [NoCall EXCEPT !.kind = kind, !.stage = "queued",
                                                       !.revision = revision + 1]]
     IN calls' = IF pending = 0 THEN queued ELSE [queued EXCEPT ![pending].aborted = TRUE]
  /\ chain' = Append(chain, i)
  /\ UNCHANGED <<current, pending, failure, child, strays>>

Replace(i) == ~closed /\ Come(i, "replace") /\ UNCHANGED closed

Shutdown(i) == Come(i, "shutdown") /\ UNCHANGED closed

\* close() is a shutdown after which no replacement is accepted.
Close(i) == ~closed /\ Come(i, "shutdown") /\ closed' = TRUE

-----------------------------------------------------------------------------
(* Calls take their turn *)

Turn(i, stage) == chain # <<>> /\ Head(chain) = i /\ calls[i].stage = stage

\* finally: the last call to come ends the change.
End(i) ==
  /\ calls' = [calls EXCEPT ![i].stage = "ended"]
  /\ chain' = Tail(chain)
  /\ changing' = (changing /\ calls[i].revision # revision)
  /\ pending' = IF pending = i THEN 0 ELSE pending

Await(i, stage) ==
  calls' = [calls EXCEPT ![i].stage = stage] /\ UNCHANGED <<chain, changing>>

Superseded(i) == calls[i].revision # revision \/ closed

StopCurrent == IF current = 0 THEN UNCHANGED ptyVars ELSE StopChild

\* The turn of a call.  A replacement that is refused leaves the old command line alone.
Begin(i) ==
  /\ Turn(i, "queued")
  /\ IF calls[i].kind = "replace" /\ (failure \/ Superseded(i))
     THEN End(i) /\ UNCHANGED ptyVars
     ELSE StopCurrent /\ Await(i, "stopping") /\ UNCHANGED pending
  /\ UNCHANGED <<revision, current, failure, closed, child, strays>>

\* Mutant.  The stop is not awaited.
StopNotAwaited == TRUE

StopEnded == current # 0 => stop \in {"done", "failed"}

\* The old command line is gone, or could not be stopped.
StopReturns(i) ==
  /\ Turn(i, "stopping") /\ StopEnded
  /\ IF current # 0 /\ stop = "failed"
     THEN failure' = TRUE /\ End(i) /\ UNCHANGED current
     ELSE /\ current' = 0 /\ UNCHANGED failure
          /\ IF calls[i].kind = "shutdown" \/ Superseded(i) THEN End(i)
             ELSE Await(i, "port") /\ pending' = i
  /\ UNCHANGED <<ptyVars, revision, closed, child, strays>>

\* freePort returns: a child is spawned, unless the launch has been aborted.
PortFound(i) ==
  /\ Turn(i, "port")
  /\ IF calls[i].aborted THEN End(i) /\ UNCHANGED <<ptyVars, child, strays>>
     ELSE /\ Spawn /\ child' = i /\ strays' = (strays \/ Running)
          /\ Await(i, "launching") /\ UNCHANGED pending
  /\ UNCHANGED <<revision, current, failure, closed>>

PortFails(i) ==
  /\ Turn(i, "port") /\ End(i)
  /\ UNCHANGED <<ptyVars, revision, current, failure, closed, child, strays>>

\* PtyRepl.launch returns.  Its command line is owned, and stopped again at once if it has
\* been superseded.
LaunchReturns(i) ==
  /\ Turn(i, "launching") /\ launch = "live"
  /\ current' = i
  /\ IF Superseded(i) THEN StopChild /\ Await(i, "retracting") /\ UNCHANGED pending
     ELSE End(i) /\ UNCHANGED ptyVars
  /\ UNCHANGED <<revision, failure, closed, child, strays>>

\* It is rejected after its rollback, which may have failed.
LaunchRejected(i) ==
  /\ Turn(i, "launching") /\ launch = "failed"
  /\ failure' = (failure \/ stop = "failed")
  /\ End(i)
  /\ UNCHANGED <<ptyVars, revision, current, closed, child, strays>>

RetractReturns(i) ==
  /\ Turn(i, "retracting") /\ stop \in {"done", "failed"}
  /\ IF stop = "failed" THEN failure' = TRUE /\ UNCHANGED current
     ELSE current' = 0 /\ UNCHANGED failure
  /\ End(i)
  /\ UNCHANGED <<ptyVars, revision, closed, child, strays>>

-----------------------------------------------------------------------------
Client == \E i \in Calls : Replace(i) \/ Shutdown(i) \/ Close(i)
Owner == \E i \in Calls : \/ Begin(i) \/ StopReturns(i) \/ PortFound(i) \/ PortFails(i)
                          \/ LaunchReturns(i) \/ LaunchRejected(i) \/ RetractReturns(i)
Tools == Active # 0 /\ ((\E c \in Commands : Send(c)) \/ Interrupt) /\ UNCHANGED ownVars
Child == (Driver \/ Lifetime \/ CommandLine) /\ UNCHANGED ownVars

Next == Client \/ Owner \/ Tools \/ Child

\* Continuations run, timers fire and the terminal delivers; the command line owes nothing.
Fairness ==
  /\ WF_vars(Owner)
  /\ WF_vars(SendTimeout /\ UNCHANGED ownVars) /\ WF_vars(InterruptTimeout /\ UNCHANGED ownVars)
  /\ WF_vars(Lifetime /\ UNCHANGED ownVars)
  /\ WF_vars(OnExit /\ UNCHANGED ownVars) /\ WF_vars(OutputArrives /\ UNCHANGED ownVars)

Spec == Init /\ [][Next]_vars /\ Fairness

-----------------------------------------------------------------------------
(* Properties *)

\* active is the child of the latest call, its launch has returned, and nobody stops it.
ActiveIsLatest ==
  Active # 0 => /\ Active = child /\ launch = "live" /\ stop = "no"
                /\ \A i \in Calls : i > Active => calls[i].kind = "none"

\* One command line at a time, hence one Firefox and one user of its ports.  What runs is
\* owned, being launched, or behind a reported failure: a launch that is superseded, aborted
\* or rejected leaves nothing behind, after a close there is nothing, and the tools never
\* talk to a command line that somebody is stopping or has asked to replace.
OneOwned ==
  /\ ~strays
  /\ Running => child = current \/ calls[child].stage = "launching" \/ failure
  /\ closed /\ chain = <<>> => failure \/ ~Running
  /\ ActiveIsLatest

\* Every call ends, and they are finitely many: one of the owner, although the child may
\* ignore whatever it is sent, and a command, which returns, times out or is refused.
Settled == chain = <<>> /\ sendQueue = <<>> /\ \A i \in Commands : sends[i] \notin {"queued", "waiting"}

CallsEnd == []<>Settled

=============================================================================
