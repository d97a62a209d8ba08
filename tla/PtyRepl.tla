------------------------------ MODULE PtyRepl ------------------------------
(***************************************************************************)
(* src/src/mcp/pty-repl.ts, which drives a command line through a          *)
(* pseudo-terminal, and src/src/cli/repl.ts, which is that command line.   *)
(* The driver knows what the other side does from one thing only: a        *)
(* private marker after a prompt, which it counts.                         *)
(*                                                                         *)
(* One child at a time: the actions of its lifetime, which ReplOwner, the  *)
(* owner of the children, composes.  What a command prints is left out,    *)
(* and with it the reads and their cursor; a marker carries, for the       *)
(* properties, what it was written for.                                    *)
(***************************************************************************)
EXTENDS Naturals, Sequences, FiniteSets

CONSTANTS Commands,       \* command lines, each sent once to a child
          JsCommands,     \* those that are not given to LLDB
          MaxQueued,      \* limit of the code: commands queued or running
          MaxInterrupts,  \* bound: calls of interrupt for a child
          None

ASSUME PtyAssumption ==
  /\ JsCommands \subseteq Commands
  /\ MaxQueued \in Nat \ {0} /\ MaxInterrupts \in Nat
  /\ None \notin Commands

VARIABLES
  \* the command line, cli/repl.ts
  cli,          \* booting, up, closed (its REPL) or exited (its process)
  cleaning,     \* the process is cleaning up, and will exit
  lines,        \* queue
  running,      \* the command being dispatched, or None
  interrupted,  \* lastSigintAt has been set
  finished,     \* history: the commands dispatched to their end
  \* the terminal
  input,        \* lines and Ctrl-C on their way in
  output,       \* markers on their way out: start, command or ctrl-c
  \* the driver, mcp/pty-repl.ts
  launch,       \* of PtyRepl.launch: waiting, live, failing or failed
  promptTotal, command, interrupt,
  sends,        \* sends[c]: the call that sends c: none, queued, waiting; and how it has
                \* ended: prompt, timeout or rejected
  sendQueue,    \* calls whose turn has not ended, in order
  hasExited,
  stop,         \* of #shutdown: no, quitting, killing, done or failed
  interrupts,   \* calls of interrupt so far
  misread       \* history: the prompt after a Ctrl-C was taken for a command's

cliVars == <<cli, cleaning, lines, running, interrupted, finished>>
driverVars == <<launch, promptTotal, command, interrupt, sends, sendQueue, hasExited, stop,
                interrupts, misread>>
ptyVars == <<cliVars, input, output, driverVars>>

CtrlC == "ctrl-c"
Quit == "quit"

\* Before the first child it is as after one that is gone.
NoChild ==
  /\ cli = "exited" /\ cleaning = TRUE /\ lines = <<>> /\ running = None
  /\ interrupted = FALSE /\ finished = {}
  /\ input = <<>> /\ output = <<>>
  /\ launch = "failed" /\ promptTotal = 0 /\ command = 0 /\ interrupt = 0
  /\ sends = [c \in Commands |-> "none"] /\ sendQueue = <<>>
  /\ hasExited = TRUE /\ stop = "done" /\ interrupts = 0 /\ misread = FALSE

\* PtyRepl.launch, up to its await.
Spawn ==
  /\ cli' = "booting" /\ cleaning' = FALSE /\ lines' = <<>> /\ running' = None
  /\ interrupted' = FALSE /\ finished' = {}
  /\ input' = <<>> /\ output' = <<>>
  /\ launch' = "waiting" /\ promptTotal' = 0 /\ command' = 0 /\ interrupt' = 0
  /\ sends' = [c \in Commands |-> "none"] /\ sendQueue' = <<>>
  /\ hasExited' = FALSE /\ stop' = "no" /\ interrupts' = 0 /\ misread' = FALSE

-----------------------------------------------------------------------------
(* The command line *)

\* A sessionCommand is running.  A JavaScript command is busy, but not in flight.
Inflight == running \in Commands \ JsCommands

\* One turn of the loop in drain: the next line is dispatched, or there is none and the
\* prompt is shown.
DrainOn(queue, prompted) ==
  \/ /\ queue = <<>> /\ running' = None /\ lines' = queue
     /\ output' = Append(output, prompted)
     /\ UNCHANGED <<cli, cleaning>>
  \/ /\ queue # <<>> /\ Head(queue) = Quit /\ running' = None /\ lines' = Tail(queue)
     /\ cli' = "closed" /\ cleaning' = TRUE
     /\ UNCHANGED output
  \/ /\ queue # <<>> /\ Head(queue) # Quit
     /\ running' = Head(queue) /\ lines' = Tail(queue)
     /\ UNCHANGED <<cli, cleaning, output>>

\* start(): the first prompt; what was typed before it is dispatched.
Start ==
  /\ cli = "booting"
  /\ cli' = "up"
  /\ output' = Append(output, "start")
  /\ IF lines = <<>> THEN UNCHANGED <<cleaning, lines, running>>
     ELSE /\ Head(lines) # Quit /\ running' = Head(lines) /\ lines' = Tail(lines)
          /\ UNCHANGED cleaning
  /\ UNCHANGED <<interrupted, finished, input, driverVars>>

\* As Start, when the line that has been typed is quit.
StartAndQuit ==
  /\ cli = "booting" /\ lines # <<>> /\ Head(lines) = Quit
  /\ cli' = "closed" /\ cleaning' = TRUE /\ lines' = Tail(lines)
  /\ output' = Append(output, "start")
  /\ UNCHANGED <<running, interrupted, finished, input, driverVars>>

\* A line is typed.
Line ==
  /\ input # <<>> /\ Head(input) # CtrlC /\ cli # "exited"
  /\ input' = Tail(input)
  /\ IF cli = "up" /\ running = None
     THEN DrainOn(Append(lines, Head(input)), "command")
     ELSE /\ lines' = IF cli = "closed" THEN lines ELSE Append(lines, Head(input))
          /\ UNCHANGED <<cli, cleaning, running, output>>
  /\ UNCHANGED <<interrupted, finished, driverVars>>

\* A dispatch ends: LLDB has stopped or answered, or the JavaScript is evaluated.
CommandEnds ==
  /\ running # None /\ cli # "exited"
  /\ finished' = finished \cup {running}
  /\ IF cli = "up" THEN DrainOn(lines, "command")
     ELSE running' = None /\ UNCHANGED <<cli, cleaning, lines, output>>
  /\ UNCHANGED <<interrupted, input, driverVars>>

\* Ctrl-C while LLDB runs interrupts the target, which ends the command, or not.
InterruptTarget ==
  /\ input # <<>> /\ Head(input) = CtrlC /\ cli # "exited"
  /\ cli = "closed" \/ Inflight
  /\ input' = Tail(input)
  /\ UNCHANGED <<cliVars, output, driverVars>>

\* At any other time it shows the prompt again,
CtrlCAtPrompt ==
  /\ input # <<>> /\ Head(input) = CtrlC /\ cli = "up" /\ ~Inflight
  /\ input' = Tail(input)
  /\ interrupted' = TRUE
  /\ output' = Append(output, CtrlC)
  /\ UNCHANGED <<cli, cleaning, lines, running, finished, driverVars>>

\* and a second one within a second closes the REPL.
CtrlCAgain ==
  /\ input # <<>> /\ Head(input) = CtrlC /\ cli = "up" /\ ~Inflight
  /\ interrupted
  /\ input' = Tail(input)
  /\ cli' = "closed" /\ cleaning' = TRUE
  /\ UNCHANGED <<lines, running, interrupted, finished, output, driverVars>>

\* The process begins to clean up for another reason: a failure, or its orphan check.
CliFails ==
  /\ cli # "exited" /\ ~cleaning
  /\ cleaning' = TRUE
  /\ UNCHANGED <<cli, lines, running, interrupted, finished, input, output, driverVars>>

CliExits ==
  /\ cli # "exited" /\ cleaning
  /\ cli' = "exited" /\ running' = None /\ lines' = <<>> /\ input' = <<>>
  /\ UNCHANGED <<cleaning, interrupted, finished, output, driverVars>>

-----------------------------------------------------------------------------
(* The driver: the queue of commands *)

\* #assertLive
Live == ~hasExited /\ stop = "no"

\* Mutant.  A command is written although the last one has not shown its prompt.
TurnsAtOnce(queue, s, total, free) ==
  IF queue # <<>> /\ Live
  THEN /\ sends' = [s EXCEPT ![Head(queue)] = "waiting"] /\ sendQueue' = queue
       /\ command' = total + 1
       /\ input' = Append(input, Head(queue))
  ELSE /\ sends' = s /\ sendQueue' = <<>>
       /\ command' = IF command > total THEN command ELSE 0
       /\ UNCHANGED input

\* The turns that come next: the first call in the queue writes its command, unless one is
\* running or interrupted or the child is going, which refuses it and all behind it.
Turns(queue, s, total, free) ==
  IF queue # <<>> /\ free
  THEN /\ sends' = [s EXCEPT ![Head(queue)] = "waiting"] /\ sendQueue' = queue
       /\ command' = total + 1
       /\ input' = Append(input, Head(queue))
  ELSE /\ sends' = [c \in Commands |->
                      IF \E i \in DOMAIN queue : queue[i] = c THEN "rejected" ELSE s[c]]
       /\ sendQueue' = <<>>
       /\ command' = IF command > total THEN command ELSE 0
       /\ UNCHANGED input

Send(c) ==
  /\ launch = "live" /\ sends[c] = "none"
  /\ IF ~Live \/ Len(sendQueue) >= MaxQueued
     THEN sends' = [sends EXCEPT ![c] = "rejected"] /\ UNCHANGED <<sendQueue, command, input>>
     ELSE IF sendQueue # <<>>
     THEN /\ sends' = [sends EXCEPT ![c] = "queued"] /\ sendQueue' = Append(sendQueue, c)
          /\ UNCHANGED <<command, input>>
     ELSE Turns(<<c>>, sends, promptTotal, command = 0 /\ interrupt = 0)
  /\ UNCHANGED <<cliVars, output, launch, promptTotal, interrupt, hasExited, stop, interrupts,
                 misread>>

\* interrupt(): for the command that is running, or for a prompt of its own.
Interrupt ==
  /\ launch = "live" /\ Live /\ interrupt = 0 /\ interrupts < MaxInterrupts
  /\ interrupt' = IF command # 0 THEN command ELSE promptTotal + 1
  /\ interrupts' = interrupts + 1
  /\ input' = Append(input, CtrlC)
  /\ UNCHANGED <<cliVars, output, launch, promptTotal, command, sends, sendQueue, hasExited,
                 stop, misread>>

\* Mutant.  Only the call that waits for the marker clears the command.
OutputForWaiter ==
  \E n \in 1..Len(output) :
    LET total == promptTotal + n
        reached == command \in (promptTotal + 1)..total
    IN /\ output' = SubSeq(output, n + 1, Len(output))
       /\ promptTotal' = total
       /\ misread' = (misread \/ (reached /\ output[command - promptTotal] = CtrlC))
       /\ launch' = IF launch # "waiting" THEN launch
                    ELSE IF stop = "no" THEN "live"
                    ELSE IF stop \in {"done", "failed"} THEN "failed" ELSE "failing"
       /\ interrupt' = IF interrupt > total THEN interrupt ELSE 0
       /\ IF sendQueue # <<>> /\ reached
          THEN Turns(Tail(sendQueue), [sends EXCEPT ![Head(sendQueue)] = "prompt"], total,
                     Live /\ interrupt <= total)
          ELSE UNCHANGED <<command, sends, sendQueue, input>>
       /\ UNCHANGED <<cliVars, hasExited, stop, interrupts>>

\* A chunk of output arrives; its markers settle who waits for one of their numbers.
OutputArrives ==
  \E n \in 1..Len(output) :
    LET total == promptTotal + n
        reached == command \in (promptTotal + 1)..total
    IN /\ output' = SubSeq(output, n + 1, Len(output))
       /\ promptTotal' = total
       /\ misread' = (misread \/ (reached /\ output[command - promptTotal] = CtrlC))
       /\ launch' = IF launch # "waiting" THEN launch
                    ELSE IF stop = "no" THEN "live"
                    ELSE IF stop \in {"done", "failed"} THEN "failed" ELSE "failing"
       /\ interrupt' = IF interrupt > total THEN interrupt ELSE 0
       /\ IF sendQueue # <<>> /\ reached
          THEN Turns(Tail(sendQueue), [sends EXCEPT ![Head(sendQueue)] = "prompt"], total,
                     Live /\ interrupt <= total)
          ELSE /\ command' = IF reached THEN 0 ELSE command
               /\ UNCHANGED <<sends, sendQueue, input>>
       /\ UNCHANGED <<cliVars, hasExited, stop, interrupts>>

\* Mutant.  The queue stops with a call that times out.
SendTimeoutStalls ==
  /\ sendQueue # <<>>
  /\ sends' = [sends EXCEPT ![Head(sendQueue)] = "timeout"] /\ sendQueue' = <<>>
  /\ UNCHANGED <<cliVars, input, output, launch, promptTotal, command, interrupt, hasExited, stop,
                 interrupts, misread>>

\* The timer of a send.  The command stays.
SendTimeout ==
  /\ sendQueue # <<>>
  /\ Turns(Tail(sendQueue), [sends EXCEPT ![Head(sendQueue)] = "timeout"], promptTotal, FALSE)
  /\ UNCHANGED <<cliVars, output, launch, promptTotal, interrupt, hasExited, stop, interrupts,
                 misread>>

InterruptTimeout ==
  /\ interrupt # 0
  /\ interrupt' = 0
  /\ UNCHANGED <<cliVars, input, output, launch, promptTotal, command, sends, sendQueue,
                 hasExited, stop, interrupts, misread>>

-----------------------------------------------------------------------------
(* The driver: the lifetime of the child *)

\* shutdown(), for the first time: quit is typed.
BeginStop ==
  /\ stop' = IF hasExited THEN "done" ELSE "quitting"
  /\ input' = IF hasExited \/ cli = "exited" THEN input ELSE Append(input, Quit)

\* shutdown(), by the owner, or by the signal of a launch under way.
StopChild ==
  \/ stop # "no" /\ UNCHANGED ptyVars
  \/ /\ stop = "no" /\ BeginStop
     /\ UNCHANGED <<cliVars, output, launch, promptTotal, command, interrupt, sends, sendQueue,
                    hasExited, interrupts, misread>>

\* The startup timer.
LaunchTimeout ==
  /\ launch = "waiting"
  /\ launch' = IF stop = "failed" THEN "failed" ELSE "failing"
  /\ IF stop = "no" THEN BeginStop ELSE UNCHANGED <<stop, input>>
  /\ UNCHANGED <<cliVars, output, promptTotal, command, interrupt, sends, sendQueue, hasExited,
                 interrupts, misread>>

\* Quitting takes too long, and so does the end after SIGTERM.
Kill ==
  /\ stop = "quitting"
  /\ stop' = "killing"
  /\ cleaning' = TRUE
  /\ UNCHANGED <<cli, lines, running, interrupted, finished, input, output, launch, promptTotal,
                 command, interrupt, sends, sendQueue, hasExited, interrupts, misread>>

KillTimeout ==
  /\ stop = "killing"
  /\ stop' = "failed"
  /\ launch' = IF launch = "failing" THEN "failed" ELSE launch
  /\ UNCHANGED <<cliVars, input, output, promptTotal, command, interrupt, sends, sendQueue,
                 hasExited, interrupts, misread>>

\* onExit.  Every waiter is rejected, and every call behind it.
OnExit ==
  /\ cli = "exited" /\ ~hasExited
  /\ hasExited' = TRUE
  /\ sends' = [c \in Commands |-> IF sends[c] \in {"waiting", "queued"} THEN "rejected"
                                  ELSE sends[c]]
  /\ sendQueue' = <<>> /\ interrupt' = 0
  /\ stop' = IF stop \in {"quitting", "killing"} \/ (stop = "no" /\ launch = "waiting")
             THEN "done" ELSE stop
  /\ launch' = IF launch \in {"waiting", "failing"} THEN "failed" ELSE launch
  /\ UNCHANGED <<cliVars, input, output, promptTotal, command, interrupts, misread>>

-----------------------------------------------------------------------------
Driver == OutputArrives \/ SendTimeout \/ InterruptTimeout \/ OnExit
Lifetime == LaunchTimeout \/ Kill \/ KillTimeout
CommandLine == \/ Start \/ StartAndQuit \/ Line \/ CommandEnds
               \/ InterruptTarget \/ CtrlCAtPrompt \/ CtrlCAgain \/ CliFails \/ CliExits

-----------------------------------------------------------------------------
(* Properties *)

\* A call that reports a prompt belongs to a command that has been dispatched to its end:
\* markers correlate commands (pty-repl.ts:6).
Correlated == \A c \in Commands : sends[c] = "prompt" => c \in finished

\* As long as no prompt that Ctrl-C has redrawn was taken for the end of a command, the
\* count of markers does correlate them, over timeouts, queues and typed-ahead lines.
OnlyCtrlCMisleads == ~misread => Correlated

\* Nothing is on its way, and the command line waits at its prompt.
AtPrompt == input = <<>> /\ output = <<>> /\ cli = "up" /\ running = None

\* However the count went, the driver does not go on believing that a command runs when the
\* command line is at its prompt: the next command is not refused for ever.
PromptNotMissed == AtPrompt => command = 0 /\ interrupt = 0 /\ launch # "waiting"

=============================================================================
