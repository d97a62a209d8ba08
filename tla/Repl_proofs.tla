---------------------------- MODULE Repl_proofs ----------------------------
(***************************************************************************)
(* PtyRepl and ReplOwner, proved for any commands, any number of calls and *)
(* of interrupts, and any limit of the queue.                              *)
(***************************************************************************)
EXTENDS ReplOwner, TLAPS

-----------------------------------------------------------------------------
(* The command line and its driver *)

Texts == Commands \cup {Quit}
Typed == Commands \cup {Quit, CtrlC}
Markers == {"start", "command", CtrlC}

WireTypes == lines \in Seq(Texts) /\ input \in Seq(Typed) /\ output \in Seq(Markers)

CliTypes ==
  /\ cli \in {"booting", "up", "closed", "exited"} /\ cleaning \in BOOLEAN
  /\ running \in Commands \cup {None} /\ interrupted \in BOOLEAN /\ finished \subseteq Commands

DriverTypes ==
  /\ launch \in {"waiting", "live", "failing", "failed"}
  /\ promptTotal \in Nat /\ command \in Nat /\ interrupt \in Nat
  /\ sends \in [Commands -> {"none", "queued", "waiting", "prompt", "timeout", "rejected"}]
  /\ sendQueue \in Seq(Commands)
  /\ hasExited \in BOOLEAN /\ stop \in {"no", "quitting", "killing", "done", "failed"}
  /\ interrupts \in Nat /\ misread \in BOOLEAN

ChildTypes == WireTypes /\ CliTypes /\ DriverTypes

\* How a child ends, and what its driver knows of that.
Ending ==
  /\ hasExited => cli = "exited" /\ launch \in {"live", "failed"}
  /\ stop = "done" => hasExited
  /\ launch = "failed" => hasExited \/ stop = "failed"

\* What is waited for is the next marker, and there is one on its way unless the command
\* line will still show one or is no longer at work.
Counting ==
  /\ command \in {0, promptTotal + 1} /\ interrupt \in {0, promptTotal + 1}
  /\ cli = "booting" => output = <<>> /\ launch # "live"
  /\ cli = "up" /\ running = None => lines = <<>>
  /\ output = <<>> /\ cli = "up" => launch # "waiting"
  /\ output = <<>> /\ cli = "up" /\ running = None /\ input = <<>> => command = 0 /\ interrupt = 0
  /\ command # 0 => launch = "live"
  /\ sendQueue # <<>> => command # 0

\* The command line has no line to dispatch, unless to quit; or it has d, once.
NoLine ==
  /\ running = None
  /\ \A i \in 1..Len(lines) : lines[i] = Quit
  /\ \A i \in 1..Len(input) : input[i] \in {Quit, CtrlC}

OneLine(d) ==
  /\ \A i \in 1..Len(lines) : lines[i] = Quit
  /\ \/ /\ running = d
        /\ \A i \in 1..Len(input) : input[i] \in {Quit, CtrlC}
     \/ /\ running = None
        /\ \E k \in 1..Len(input) :
             /\ input[k] = d
             /\ \A i \in 1..Len(input) : i # k => input[i] \in {Quit, CtrlC}

\* What the first marker on its way, if it is not a Ctrl-C's, and the lines say of the command
\* that is waited for.
Matching ==
  /\ \A i \in 2..Len(output) : output[i] = CtrlC
  /\ command # 0 /\ output # <<>> /\ sendQueue # <<>> => Head(sendQueue) \in finished
  /\ command = 0 /\ launch = "live" => \A i \in 1..Len(output) : output[i] = CtrlC
  /\ cli \in {"booting", "up"} =>
       IF command # 0 /\ output = <<>>
       THEN \E d \in Commands : OneLine(d) /\ (sendQueue # <<>> => Head(sendQueue) = d)
       ELSE NoLine

Misled == command # 0 /\ output # <<>> /\ Head(output) = CtrlC

Marks == ~misread => Correlated /\ (Misled \/ Matching)



ChildInv == ChildTypes /\ Ending /\ Counting /\ Marks

-----------------------------------------------------------------------------
(* Sequences that a line or a marker is put at the end of, or taken from *)

LEMMA AppendIs ==
  ASSUME NEW S, NEW s \in Seq(S), NEW e \in S
  PROVE  /\ Append(s, e) \in Seq(S) /\ Append(s, e) # <<>> /\ Len(Append(s, e)) = Len(s) + 1
         /\ Len(s) \in Nat
         /\ \A i \in 1..Len(s) : Append(s, e)[i] = s[i]
         /\ Append(s, e)[Len(s) + 1] = e
         /\ s = <<>> => Append(s, e) = <<e>> /\ Head(Append(s, e)) = e /\ Tail(Append(s, e)) = <<>>
         /\ s # <<>> => Head(Append(s, e)) = Head(s)
<1>1. s = <<>> => Append(s, e) = <<e>>
  OBVIOUS
<1>2. Head(<<e>>) = e /\ Tail(<<e>>) = <<>>
  OBVIOUS
<1>3. s # <<>> => Head(Append(s, e)) = Head(s)
  OBVIOUS
<1>4. QED
  BY <1>1, <1>2, <1>3

LEMMA TailIs ==
  ASSUME NEW S, NEW s \in Seq(S), s # <<>>
  PROVE  /\ Head(s) \in S /\ Head(s) = s[1] /\ Tail(s) \in Seq(S)
         /\ Len(s) \in Nat \ {0} /\ Len(Tail(s)) = Len(s) - 1
         /\ \A i \in 1..(Len(s) - 1) : Tail(s)[i] = s[i + 1]
  OBVIOUS

LEMMA AppendWithin ==
  ASSUME NEW S, NEW T, NEW s \in Seq(S), NEW e \in S, e \in T,
         \A i \in 1..Len(s) : s[i] \in T
  PROVE  \A i \in 1..Len(Append(s, e)) : Append(s, e)[i] \in T
  BY AppendIs

LEMMA TailWithin ==
  ASSUME NEW S, NEW T, NEW s \in Seq(S), s # <<>>,
         \A i \in 1..Len(s) : s[i] \in T
  PROVE  \A i \in 1..Len(Tail(s)) : Tail(s)[i] \in T
  BY TailIs

\* A turn of the loop leaves the wire as it should be.
LEMMA DrainIs ==
  ASSUME output \in Seq(Markers), NEW queue \in Seq(Texts), NEW m \in Markers, DrainOn(queue, m)
  PROVE  /\ lines' \in Seq(Texts) /\ output' \in Seq(Markers)
         /\ running' \in Commands \cup {None}
         /\ running' = None => lines' = <<>> \/ cli' = "closed"
         /\ running' # None => cli' = cli
         /\ output' = output \/ output' = Append(output, m)
         /\ cli' \in {cli, "closed"}
         /\ cleaning' \in {cleaning, TRUE}
         /\ cli' # "closed" /\ running' = None => output' # <<>>
         /\ output # <<>> => output' # <<>> /\ Head(output') = Head(output)
<1>1. CASE queue = <<>>
  <2>1. lines' = queue /\ running' = None /\ output' = Append(output, m)
        /\ UNCHANGED <<cli, cleaning>>
    BY <1>1 DEF DrainOn
  <2>2. QED
    BY <1>1, <2>1, AppendIs
<1>2. CASE queue # <<>>
  <2>1. Head(queue) \in Texts /\ Tail(queue) \in Seq(Texts)
    BY <1>2, TailIs
  <2>2. CASE Head(queue) = Quit
    BY <1>2, <2>1, <2>2 DEF DrainOn
  <2>3. CASE Head(queue) # Quit
    <3>1. Head(queue) # None /\ Head(queue) \in Commands
      BY <2>1, <2>3, PtyAssumption DEF Texts
    <3>2. QED
      BY <1>2, <2>1, <2>3, <3>1 DEF DrainOn
  <2>4. QED
    BY <2>2, <2>3
<1>3. QED
  BY <1>1, <1>2

-----------------------------------------------------------------------------
(* Each step of the command line keeps it *)

\* What a step of the command line may do to what its driver counts on.
CliMoves ==
  /\ UNCHANGED driverVars
  /\ WireTypes' /\ CliTypes'
  /\ cli' = "booting" => cli = "booting" /\ output' = output
  /\ cli = "exited" => cli' = "exited"
  /\ cli' = "up" /\ running' = None => lines' = <<>>
  /\ output' = <<>> /\ cli' = "up" => output = <<>> /\ cli = "up"
  /\ output' = <<>> /\ cli' = "up" /\ running' = None /\ input' = <<>>
       => running = None /\ input = <<>>

LEMMA CliMovesKeep ==
  ASSUME ChildInv, CliMoves
  PROVE  ChildTypes' /\ Ending' /\ Counting'
<1>1. ChildTypes'
  BY DEF ChildInv, ChildTypes, CliMoves, DriverTypes, driverVars
<1>2. Ending'
  BY DEF ChildInv, Ending, CliMoves, driverVars
<1>3. Counting'
  BY DEF ChildInv, Counting, CliMoves, driverVars
<1>4. QED
  BY <1>1, <1>2, <1>3

LEMMA StartStep ==
  ASSUME ChildInv, Start \/ StartAndQuit
  PROVE  ChildInv'
<1>0. /\ WireTypes /\ CliTypes /\ cli = "booting" /\ cli' \in {"up", "closed"}
      /\ output' = Append(output, "start") /\ input' = input /\ UNCHANGED driverVars
  BY DEF ChildInv, ChildTypes, Start, StartAndQuit
<1>1. CliMoves
  <2>1. lines # <<>> => Head(lines) \in Texts /\ Tail(lines) \in Seq(Texts)
    BY <1>0, TailIs DEF WireTypes
  <2>2. output' # <<>> /\ output' \in Seq(Markers)
    BY <1>0, AppendIs DEF WireTypes, Markers
  <2>3. /\ lines' \in Seq(Texts) /\ running' \in Commands \cup {None}
        /\ running' = None => lines' = <<>> \/ cli' = "closed"
    <3>1. CASE Start
      BY <1>0, <2>1, <3>1, PtyAssumption DEF Start, Texts, CliTypes, WireTypes
    <3>2. CASE StartAndQuit
      BY <1>0, <2>1, <3>2 DEF StartAndQuit, CliTypes, WireTypes
    <3>3. QED
      BY <3>1, <3>2
  <2>4. cleaning' \in BOOLEAN /\ UNCHANGED <<interrupted, finished>>
    BY <1>0 DEF Start, StartAndQuit, CliTypes
  <2>5. QED
    BY <1>0, <2>2, <2>3, <2>4 DEF CliMoves, WireTypes, CliTypes
<1>4. Marks'
  <2>1. output = <<>> /\ command = 0 /\ output' = <<"start">> /\ launch' = launch /\ launch # "live"
    BY <1>0 DEF ChildInv, Counting, driverVars, ChildTypes, DriverTypes
  <2>2. UNCHANGED <<misread, command, sends, finished, input, sendQueue>>
    BY <1>0 DEF Start, StartAndQuit, driverVars
  <2>3. ASSUME ~misread
        PROVE  Correlated' /\ Matching'
    <3>1. Correlated /\ Matching
      BY <2>1, <2>3 DEF ChildInv, Marks, Misled
    <3>2. cli = "booting"
      BY DEF Start, StartAndQuit
    <3>3. NoLine
      BY <2>1, <3>1, <3>2 DEF Matching
    <3>4. cli' = "up" => NoLine'
      BY <2>2, <3>3 DEF NoLine, Start, StartAndQuit, ChildInv, ChildTypes
    <3>5. QED
      BY <2>1, <2>2, <3>1, <3>4 DEF Correlated, Matching, Start, StartAndQuit
  <2>4. QED
    BY <2>2, <2>3 DEF Marks
<1>5. QED
  BY <1>1, <1>4, CliMovesKeep DEF ChildInv

LEMMA LineStep ==
  ASSUME ChildInv, Line
  PROVE  ChildInv'
<1>0. /\ WireTypes /\ CliTypes /\ UNCHANGED <<driverVars, interrupted, finished>>
      /\ input # <<>> /\ input' = Tail(input) /\ cli # "exited"
  BY DEF ChildInv, ChildTypes, Line
<1>a. Head(input) \in Texts /\ Tail(input) \in Seq(Typed)
  BY <1>0, TailIs DEF WireTypes, Line, Typed, Texts
<1>b. Append(lines, Head(input)) \in Seq(Texts)
  BY <1>0, <1>a, AppendIs DEF WireTypes
<1>1. CliMoves
  <2>1. CASE cli = "up" /\ running = None
    <3>1. DrainOn(Append(lines, Head(input)), "command") /\ output \in Seq(Markers)
      BY <1>0, <2>1 DEF Line, WireTypes
    <3>2. /\ lines' \in Seq(Texts) /\ output' \in Seq(Markers)
          /\ running' \in Commands \cup {None}
          /\ running' = None => lines' = <<>> \/ cli' = "closed"
          /\ running' # None => cli' = cli
          /\ output' = output \/ output' = Append(output, "command")
          /\ cli' \in {cli, "closed"}
          /\ cleaning' \in {cleaning, TRUE}
          /\ cli' # "closed" /\ running' = None => output' # <<>>
      BY <3>1, <1>b, DrainIs DEF Markers
    <3>3. output' = <<>> => output = <<>>
      BY <3>1, <3>2, AppendIs DEF Markers
    <3>4. QED
      BY <1>0, <1>a, <2>1, <3>2, <3>3 DEF CliMoves, WireTypes, CliTypes
  <2>2. CASE ~(cli = "up" /\ running = None)
    <3>1. /\ UNCHANGED <<cli, cleaning, running, output>>
          /\ lines' = IF cli = "closed" THEN lines ELSE Append(lines, Head(input))
      BY <2>2 DEF Line
    <3>2. lines' \in Seq(Texts)
      BY <1>0, <1>b, <3>1 DEF WireTypes
    <3>3. QED
      BY <1>0, <1>a, <2>2, <3>1, <3>2 DEF CliMoves, WireTypes, CliTypes
  <2>3. QED
    BY <2>1, <2>2
<1>4. Marks'
  <2>1. UNCHANGED <<misread, command, sends, finished, sendQueue, launch>>
    BY DEF Line, driverVars
  <2>2. ASSUME ~misread, Misled
        PROVE  Misled'
    BY <2>1, <2>2 DEF Misled, Line, DrainOn, ChildInv, ChildTypes
  <2>3. ASSUME ~misread, Matching
        PROVE  Matching'
    <3>1. ASSUME cli \notin {"booting", "up"}
          PROVE  Matching'
      BY <2>1, <2>3, <3>1 DEF Matching, Line
    <3>2. ASSUME cli \in {"booting", "up"}, NoLine, ~(command # 0 /\ output = <<>>)
          PROVE  Matching'
      <4>1. Head(input) = Quit
        BY <3>2 DEF NoLine, Line, ChildInv, ChildTypes
      <4>2. cli = "up" => cli' = "closed" /\ output' = output
        BY <4>1, <3>2 DEF Line, DrainOn, NoLine, ChildInv, Counting
      <4>3. cli = "booting" => cli' = cli /\ output' = output /\ NoLine'
        <5>1. cli = "booting" => UNCHANGED <<cli, output, running>> /\ lines' = Append(lines, Quit)
          BY <4>1 DEF Line
        <5>2. /\ \A i \in 1..Len(Append(lines, Quit)) : Append(lines, Quit)[i] \in {Quit}
              /\ \A i \in 1..Len(Tail(input)) : Tail(input)[i] \in {Quit, CtrlC}
          BY <1>0, <3>2, AppendWithin, TailWithin DEF NoLine, WireTypes, Texts
        <5>3. QED
          BY <1>0, <3>2, <5>1, <5>2 DEF NoLine
      <4>4. QED
        BY <4>2, <4>3, <3>2, <2>1, <2>3 DEF Matching
    <3>3. ASSUME cli \in {"booting", "up"}, command # 0, output = <<>>,
                 NEW d \in Commands, OneLine(d), sendQueue # <<>> => Head(sendQueue) = d
          PROVE  Matching'
      <4>1. cli = "up"
        BY <3>3 DEF ChildInv, Counting
      <4>2. CASE running = d /\ running # None
        <5>1. Head(input) = Quit /\ cli' = cli /\ output' = output /\ running' = running
          BY <3>3, <4>1, <4>2, PtyAssumption DEF OneLine, Line, ChildInv, ChildTypes
        <5>2. OneLine(d)'
          <6>1. lines' = Append(lines, Quit)
            BY <4>1, <4>2, <5>1 DEF Line
          <6>2. /\ \A i \in 1..Len(Append(lines, Quit)) : Append(lines, Quit)[i] \in {Quit}
                /\ \A i \in 1..Len(Tail(input)) : Tail(input)[i] \in {Quit, CtrlC}
            BY <1>0, <3>3, <4>2, AppendWithin, TailWithin DEF OneLine, WireTypes, Texts
          <6>3. QED
            BY <1>0, <4>2, <5>1, <6>1, <6>2 DEF OneLine
        <5>3. QED
          BY <5>1, <5>2, <4>1, <3>3, <2>1, <2>3 DEF Matching
      <4>3. CASE running = None
        <5>1. PICK k \in 1..Len(input) :
                /\ input[k] = d
                /\ \A i \in 1..Len(input) : i # k => input[i] \in {Quit, CtrlC}
          BY <4>3, <3>3, PtyAssumption DEF OneLine
        <5>2. lines = <<>>
          BY <4>1, <4>3 DEF ChildInv, Counting
        <5>3. CASE Head(input) = Quit
          <6>1. cli' = "closed" /\ output' = output
            BY <4>1, <4>3, <5>2, <5>3 DEF Line, DrainOn
          <6>2. QED
            BY <6>1, <2>1, <2>3, <3>3 DEF Matching
        <5>4. CASE Head(input) # Quit
          <6>1. k = 1 /\ running' = d /\ lines' = <<>> /\ cli' = cli /\ output' = output
                /\ input' = Tail(input)
            BY <4>1, <4>3, <5>1, <5>2, <5>4 DEF Line, DrainOn, ChildInv, ChildTypes
          <6>2. OneLine(d)'
            BY <5>1, <6>1 DEF OneLine, ChildInv, ChildTypes
          <6>3. QED
            BY <6>1, <6>2, <2>1, <2>3, <3>3, <4>1 DEF Matching
        <5>5. QED
          BY <5>3, <5>4
      <4>4. QED
        BY <4>2, <4>3, <3>3 DEF OneLine
    <3>4. QED
      BY <3>1, <3>2, <3>3, <2>3 DEF Matching
  <2>4. Correlated => Correlated'
    BY <2>1 DEF Correlated
  <2>5. QED
    BY <2>1, <2>2, <2>3, <2>4 DEF Marks, ChildInv
<1>5. QED
  BY <1>1, <1>4, CliMovesKeep DEF ChildInv

LEMMA CommandEndsStep ==
  ASSUME ChildInv, CommandEnds
  PROVE  ChildInv'
<1>0. /\ WireTypes /\ CliTypes /\ UNCHANGED <<driverVars, interrupted, input>>
      /\ running # None /\ cli # "exited" /\ finished' = finished \cup {running}
  BY DEF ChildInv, ChildTypes, CommandEnds
<1>a. finished' \subseteq Commands
  BY <1>0 DEF CliTypes
<1>1. CliMoves
  <2>1. CASE cli = "up"
    <3>1. DrainOn(lines, "command") /\ output \in Seq(Markers) /\ lines \in Seq(Texts)
      BY <1>0, <2>1 DEF CommandEnds, WireTypes
    <3>2. /\ lines' \in Seq(Texts) /\ output' \in Seq(Markers)
          /\ running' \in Commands \cup {None}
          /\ running' = None => lines' = <<>> \/ cli' = "closed"
          /\ running' # None => cli' = cli
          /\ output' = output \/ output' = Append(output, "command")
          /\ cli' \in {cli, "closed"}
          /\ cleaning' \in {cleaning, TRUE}
          /\ cli' # "closed" /\ running' = None => output' # <<>>
      BY <3>1, DrainIs DEF Markers
    <3>3. output' = <<>> => output = <<>>
      BY <3>1, <3>2, AppendIs DEF Markers
    <3>4. QED
      BY <1>0, <1>a, <2>1, <3>2, <3>3 DEF CliMoves, WireTypes, CliTypes
  <2>2. CASE cli # "up"
    BY <1>0, <1>a, <2>2 DEF CommandEnds, CliMoves, WireTypes, CliTypes
  <2>3. QED
    BY <2>1, <2>2
<1>4. Marks'
  <2>1. /\ UNCHANGED <<misread, command, sends, input, sendQueue, launch>>
        /\ finished \subseteq finished'
    BY DEF CommandEnds, driverVars
  <2>2. ASSUME ~misread, Misled
        PROVE  Misled'
    BY <2>1, <2>2 DEF Misled, CommandEnds, DrainOn, ChildInv, ChildTypes
  <2>3. ASSUME ~misread, Matching
        PROVE  Matching'
    <3>1. ASSUME cli \notin {"booting", "up"}
          PROVE  Matching'
      <4>1. UNCHANGED <<cli, output>>
        BY <3>1 DEF CommandEnds
      <4>2. QED
        BY <2>1, <2>3, <3>1, <4>1 DEF Matching
    <3>2. ASSUME cli \in {"booting", "up"}
          PROVE  Matching'
      <4>1. ~NoLine
        BY DEF CommandEnds, NoLine
      <4>2. command # 0 /\ output = <<>>
        BY <2>3, <3>2, <4>1 DEF Matching
      <4>3. PICK d \in Commands : OneLine(d) /\ (sendQueue # <<>> => Head(sendQueue) = d)
        BY <2>3, <3>2, <4>2 DEF Matching
      <4>4. cli = "up"
        BY <3>2, <4>2 DEF ChildInv, Counting
      <4>5. /\ running = d /\ d \in finished'
            /\ \A i \in 1..Len(input) : input[i] \in {Quit, CtrlC}
            /\ \A i \in 1..Len(lines) : lines[i] = Quit
        BY <4>3 DEF OneLine, CommandEnds
      <4>6. CASE lines = <<>>
        <5>1. output' = <<"command">> /\ NoLine'
          BY <2>1, <4>2, <4>4, <4>5, <4>6 DEF CommandEnds, DrainOn, NoLine
        <5>2. QED
          BY <2>1, <4>3, <4>5, <4>2, <5>1 DEF Matching
      <4>7. CASE lines # <<>>
        <5>1. Head(lines) = Quit
          BY <4>5, <4>7 DEF ChildInv, ChildTypes
        <5>2. cli' = "closed" /\ output' = output
          BY <4>4, <4>7, <5>1 DEF CommandEnds, DrainOn
        <5>3. QED
          BY <2>1, <5>2, <4>2, <2>3 DEF Matching
      <4>8. QED
        BY <4>6, <4>7
    <3>3. QED
      BY <3>1, <3>2
  <2>4. Correlated => Correlated'
    BY <2>1 DEF Correlated
  <2>5. QED
    BY <2>1, <2>2, <2>3, <2>4 DEF Marks, ChildInv
<1>5. QED
  BY <1>1, <1>4, CliMovesKeep DEF ChildInv

LEMMA InterruptTargetStep ==
  ASSUME ChildInv, InterruptTarget
  PROVE  ChildInv'
<1>0. /\ WireTypes /\ CliTypes /\ UNCHANGED <<driverVars, cliVars, output>>
      /\ input # <<>> /\ input' = Tail(input) /\ Head(input) = CtrlC
  BY DEF ChildInv, ChildTypes, InterruptTarget
<1>1. CliMoves
  <2>1. input' \in Seq(Typed)
    BY <1>0, TailIs DEF WireTypes
  <2>2. output = <<>> /\ cli = "up" => running # None
    BY <1>0, PtyAssumption DEF InterruptTarget, Inflight
  <2>3. cli = "up" /\ running = None => lines = <<>>
    BY DEF ChildInv, Counting
  <2>4. QED
    BY <1>0, <2>1, <2>2, <2>3 DEF CliMoves, WireTypes, CliTypes, cliVars
<1>3. NoLine => NoLine'
  BY <1>0, TailWithin DEF NoLine, WireTypes, cliVars
<1>4. ASSUME NEW d \in Commands, OneLine(d), cli = "up"
      PROVE  OneLine(d)'
  <2>1. running # None
    BY <1>4, PtyAssumption DEF InterruptTarget, Inflight
  <2>2. QED
    BY <1>0, <1>4, <2>1, TailWithin DEF OneLine, WireTypes, cliVars
<1>5. Marks'
  <2>1. Counting
    BY DEF ChildInv
  <2>2. UNCHANGED <<misread, command, sends, finished, sendQueue, launch, output, cli>>
    BY <1>0 DEF driverVars, cliVars
  <2>3. Misled => Misled'
    BY <2>2 DEF Misled
  <2>4. Matching => Matching'
    BY <1>3, <1>4, <2>1, <2>2 DEF Matching, Counting
  <2>5. QED
    BY <2>2, <2>3, <2>4 DEF ChildInv, Marks, Correlated
<1>6. QED
  BY <1>1, <1>5, CliMovesKeep DEF ChildInv

LEMMA CtrlCAtPromptStep ==
  ASSUME ChildInv, CtrlCAtPrompt
  PROVE  ChildInv'
<1>0. /\ WireTypes /\ CliTypes
      /\ UNCHANGED <<cli, cleaning, lines, running, finished, driverVars>>
      /\ input # <<>> /\ input' = Tail(input) /\ Head(input) = CtrlC /\ cli = "up"
      /\ interrupted' = TRUE /\ output' = Append(output, CtrlC)
  BY DEF ChildInv, ChildTypes, CtrlCAtPrompt
<1>a. /\ output' \in Seq(Markers) /\ output' # <<>> /\ Len(output') = Len(output) + 1
      /\ Len(output) \in Nat /\ output'[Len(output) + 1] = CtrlC
      /\ \A i \in 1..Len(output) : output'[i] = output[i]
      /\ output # <<>> => Head(output') = Head(output)
      /\ output = <<>> => Head(output') = CtrlC
  BY <1>0, AppendIs DEF WireTypes, Markers
<1>1. CliMoves
  <2>1. input' \in Seq(Typed)
    BY <1>0, TailIs DEF WireTypes
  <2>2. cli = "up" /\ running = None => lines = <<>>
    BY DEF ChildInv, Counting
  <2>3. QED
    BY <1>0, <1>a, <2>1, <2>2 DEF CliMoves, WireTypes, CliTypes
<1>2. NoLine => NoLine'
  BY <1>0, TailWithin DEF NoLine, WireTypes
<1>3. Marks'
  <2>1. UNCHANGED <<misread, command, sends, finished, sendQueue, launch, cli>>
    BY <1>0 DEF driverVars
  <2>2. Misled => Misled'
    BY <1>a, <2>1 DEF Misled
  <2>3. Matching /\ command # 0 /\ output = <<>> => Misled'
    BY <1>a, <2>1 DEF Misled
  <2>4. ASSUME Matching, ~(command # 0 /\ output = <<>>)
        PROVE  Matching'
    <3>1. NoLine'
      BY <1>0, <1>2, <2>4 DEF Matching
    <3>2. \A i \in 2..Len(output') : output'[i] = CtrlC
      BY <1>a, <2>4 DEF Matching
    <3>3. command = 0 /\ launch = "live" => \A i \in 1..Len(output') : output'[i] = CtrlC
      BY <1>a, <2>4 DEF Matching
    <3>4. QED
      BY <1>a, <2>1, <2>4, <3>1, <3>2, <3>3 DEF Matching
  <2>5. QED
    BY <2>1, <2>2, <2>3, <2>4 DEF ChildInv, Marks, Correlated
<1>4. QED
  BY <1>1, <1>3, CliMovesKeep DEF ChildInv

\* Once the command line has closed or exited, what it had to do is no longer asked for.
LEMMA ClosedMarks ==
  ASSUME ChildInv, UNCHANGED <<driverVars, finished, output>>, cli' \notin {"booting", "up"}
  PROVE  Marks'
<1>1. UNCHANGED <<misread, command, sends, finished, sendQueue, launch, output>>
  BY DEF driverVars
<1>2. Misled => Misled'
  BY <1>1 DEF Misled
<1>3. Matching => Matching'
  BY <1>1 DEF Matching
<1>4. QED
  BY <1>1, <1>2, <1>3 DEF ChildInv, Marks, Correlated

LEMMA CtrlCAgainStep ==
  ASSUME ChildInv, CtrlCAgain
  PROVE  ChildInv'
<1>0. /\ WireTypes /\ CliTypes /\ input # <<>> /\ input' = Tail(input)
      /\ cli = "up" /\ cli' = "closed" /\ cleaning' = TRUE
      /\ UNCHANGED <<lines, running, interrupted, finished, output, driverVars>>
  BY DEF ChildInv, ChildTypes, CtrlCAgain
<1>1. input' \in Seq(Typed)
  BY <1>0, TailIs DEF WireTypes
<1>2. CliMoves
  BY <1>0, <1>1 DEF CliMoves, WireTypes, CliTypes
<1>3. QED
  BY <1>0, <1>2, CliMovesKeep, ClosedMarks DEF ChildInv

LEMMA CliExitsStep ==
  ASSUME ChildInv, CliExits
  PROVE  ChildInv'
<1>0. /\ WireTypes /\ CliTypes /\ cli' = "exited" /\ running' = None
      /\ lines' = <<>> /\ input' = <<>>
      /\ UNCHANGED <<cleaning, interrupted, finished, output, driverVars>>
  BY DEF ChildInv, ChildTypes, CliExits
<1>1. CliMoves
  BY <1>0 DEF CliMoves, WireTypes, CliTypes
<1>2. QED
  BY <1>0, <1>1, CliMovesKeep, ClosedMarks DEF ChildInv

LEMMA CliFailsStep ==
  ASSUME ChildInv, CliFails
  PROVE  ChildInv'
<1>1. /\ cleaning' = TRUE
      /\ UNCHANGED <<cli, lines, running, interrupted, finished, input, output, driverVars>>
  BY DEF CliFails
<1>2. CliMoves
  BY <1>1 DEF ChildInv, ChildTypes, Counting, CliMoves, WireTypes, CliTypes
<1>3. Marks'
  BY <1>1 DEF ChildInv, Marks, Misled, Matching, Correlated, NoLine, OneLine, driverVars
<1>4. QED
  BY <1>2, <1>3, CliMovesKeep DEF ChildInv

LEMMA CommandLineStep ==
  ASSUME ChildInv, CommandLine
  PROVE  ChildInv'
BY StartStep, LineStep, CommandEndsStep, InterruptTargetStep, CtrlCAtPromptStep, CtrlCAgainStep,
   CliFailsStep, CliExitsStep DEF CommandLine

-----------------------------------------------------------------------------
(* Each step of the driver keeps it *)

SendStates == {"none", "queued", "waiting", "prompt", "timeout", "rejected"}

\* What more is typed that is no command leaves the lines as they are.
LEMMA TypedMore ==
  ASSUME WireTypes, NEW e \in {Quit, CtrlC}, input' \in {input, Append(input, e)},
         UNCHANGED <<lines, running>>
  PROVE  /\ input' \in Seq(Typed)
         /\ NoLine => NoLine'
         /\ \A d \in Commands : OneLine(d) => OneLine(d)'
<1>1. e \in Typed /\ input \in Seq(Typed)
  BY DEF WireTypes, Typed
<1>2. CASE input' = input
  BY <1>1, <1>2 DEF NoLine, OneLine
<1>3. CASE input' = Append(input, e)
  <2>1. /\ input' \in Seq(Typed) /\ Len(input') = Len(input) + 1 /\ Len(input) \in Nat
        /\ \A i \in 1..Len(input) : input'[i] = input[i]
        /\ input'[Len(input) + 1] = e
    BY <1>1, <1>3, AppendIs
  <2>2. NoLine => NoLine'
    BY <2>1 DEF NoLine
  <2>3. ASSUME NEW d \in Commands, OneLine(d)
        PROVE  OneLine(d)'
    <3>1. CASE running = d /\ \A i \in 1..Len(input) : input[i] \in {Quit, CtrlC}
      <4>1. \A i \in 1..Len(input') : input'[i] \in {Quit, CtrlC}
        BY <2>1, <3>1
      <4>2. QED
        BY <2>3, <3>1, <4>1 DEF OneLine
    <3>2. ASSUME running = None, NEW k \in 1..Len(input), input[k] = d,
                 \A i \in 1..Len(input) : i # k => input[i] \in {Quit, CtrlC}
          PROVE  OneLine(d)'
      <4>1. /\ k \in 1..Len(input') /\ input'[k] = d
            /\ \A i \in 1..Len(input') : i # k => input'[i] \in {Quit, CtrlC}
        BY <2>1, <3>2
      <4>2. QED
        BY <2>3, <3>2, <4>1 DEF OneLine
    <3>3. QED
      BY <2>3, <3>1, <3>2 DEF OneLine
  <2>4. QED
    BY <2>1, <2>2, <2>3
<1>4. QED
  BY <1>2, <1>3

\* A step of the driver that neither hears a marker nor writes a command.
DriverMoves ==
  /\ UNCHANGED <<cli, lines, running, interrupted, finished, output, promptTotal, command, misread>>
  /\ cleaning' \in {cleaning, TRUE}
  /\ input' \in {input, Append(input, Quit), Append(input, CtrlC)}
  /\ interrupt' \in {interrupt, 0} \/ (input' # <<>> /\ interrupt' = promptTotal + 1)
  /\ DriverTypes'
  /\ launch' = "live" <=> launch = "live"
  /\ launch' = "waiting" => launch = "waiting"
  /\ sendQueue' # <<>> => sendQueue # <<>> /\ Head(sendQueue') = Head(sendQueue)
  /\ \A c \in Commands : sends'[c] = "prompt" => sends[c] = "prompt"

LEMMA DriverMovesKeep ==
  ASSUME ChildInv, DriverMoves
  PROVE  ChildTypes' /\ Counting' /\ Marks'
<1>1. PICK e \in {Quit, CtrlC} : input' \in {input, Append(input, e)}
  BY DEF DriverMoves
<1>2. /\ input' \in Seq(Typed)
      /\ NoLine => NoLine'
      /\ \A d \in Commands : OneLine(d) => OneLine(d)'
  BY <1>1, TypedMore DEF ChildInv, ChildTypes, DriverMoves
<1>3. ChildTypes'
  BY <1>2 DEF ChildInv, ChildTypes, WireTypes, CliTypes, DriverMoves
<1>4. Counting'
  <2>1. input' = <<>> => input = <<>>
    BY <1>1, AppendIs DEF ChildInv, ChildTypes, WireTypes, Typed
  <2>2. promptTotal \in Nat /\ Counting
    BY DEF ChildInv, ChildTypes, DriverTypes
  <2>3. UNCHANGED <<cli, lines, running, output, promptTotal, command>>
    BY DEF DriverMoves
  <2>4. interrupt' \in {0, promptTotal' + 1}
    BY <2>2, <2>3 DEF DriverMoves, Counting
  <2>5. input' = <<>> => interrupt' \in {interrupt, 0}
    BY DEF DriverMoves
  <2>6. /\ launch' = "live" <=> launch = "live"
        /\ launch' = "waiting" => launch = "waiting"
        /\ sendQueue' # <<>> => sendQueue # <<>>
    BY DEF DriverMoves
  <2>7. QED
    BY <2>1, <2>2, <2>3, <2>4, <2>5, <2>6 DEF Counting
<1>5. Marks'
  <2>1. UNCHANGED <<cli, finished, output, command, misread>>
    BY DEF DriverMoves
  <2>2. Misled => Misled'
    BY <2>1 DEF Misled
  <2>3. Matching => Matching'
    BY <1>2, <2>1 DEF Matching, DriverMoves
  <2>4. Correlated => Correlated'
    BY <2>1 DEF Correlated, DriverMoves
  <2>5. QED
    BY <2>1, <2>2, <2>3, <2>4 DEF ChildInv, Marks
<1>6. QED
  BY <1>3, <1>4, <1>5

LEMMA TurnsAre ==
  ASSUME NEW q \in Seq(Commands), NEW s \in [Commands -> SendStates], NEW total \in Nat,
         NEW free \in BOOLEAN, Turns(q, s, total, free), input \in Seq(Typed), command \in Nat
  PROVE  /\ sends' \in [Commands -> SendStates] /\ sendQueue' \in Seq(Commands)
         /\ input' \in Seq(Typed) /\ command' \in Nat
         /\ \A c \in Commands : sends'[c] = "prompt" => s[c] = "prompt"
         /\ \/ /\ q # <<>> /\ free /\ sendQueue' = q /\ command' = total + 1
               /\ input' = Append(input, Head(q)) /\ Head(q) \in Commands
            \/ /\ sendQueue' = <<>> /\ input' = input
               /\ command' = IF command > total THEN command ELSE 0
<1>1. CASE q # <<>> /\ free
  <2>1. Head(q) \in Commands /\ Head(q) \in Typed
    BY <1>1, TailIs DEF Typed
  <2>2. /\ sends' = [s EXCEPT ![Head(q)] = "waiting"] /\ sendQueue' = q
        /\ command' = total + 1 /\ input' = Append(input, Head(q))
    BY <1>1 DEF Turns
  <2>3. input' \in Seq(Typed)
    BY <2>1, <2>2, AppendIs
  <2>4. QED
    BY <1>1, <2>1, <2>2, <2>3 DEF SendStates
<1>2. CASE ~(q # <<>> /\ free)
  <2>1. /\ sends' = [c \in Commands |->
                       IF \E i \in DOMAIN q : q[i] = c THEN "rejected" ELSE s[c]]
        /\ sendQueue' = <<>> /\ input' = input
        /\ command' = IF command > total THEN command ELSE 0
    BY <1>2 DEF Turns
  <2>2. sends' \in [Commands -> SendStates]
    BY <2>1 DEF SendStates
  <2>3. QED
    BY <2>1, <2>2
<1>3. QED
  BY <1>1, <1>2

\* A command that is written to a command line without a line is the one that is waited for.
LEMMA WrittenMarks ==
  ASSUME WireTypes, NEW c \in Commands, input' = Append(input, c),
         sendQueue' # <<>>, Head(sendQueue') = c, command' # 0,
         \A i \in 1..Len(output') : output'[i] = CtrlC, output' \in Seq(Markers),
         UNCHANGED <<cli, lines, running>>, cli \in {"booting", "up"} => NoLine
  PROVE  (Misled \/ Matching)'
<1>1. CASE output' # <<>>
  <2>1. Head(output') = CtrlC
    BY <1>1, TailIs
  <2>2. QED
    BY <1>1, <2>1 DEF Misled
<1>2. CASE output' = <<>>
  <2>1. ASSUME cli \in {"booting", "up"}
        PROVE  OneLine(c)'
    <3>1. c \in Typed /\ input \in Seq(Typed)
      BY DEF WireTypes, Typed
    <3>2. /\ Len(input') = Len(input) + 1 /\ Len(input) \in Nat
          /\ \A i \in 1..Len(input) : input'[i] = input[i]
          /\ input'[Len(input) + 1] = c
      BY <3>1, AppendIs
    <3>3. NoLine
      BY <2>1
    <3>4. /\ Len(input) + 1 \in 1..Len(input')
          /\ \A i \in 1..Len(input') : i # Len(input) + 1 => input'[i] \in {Quit, CtrlC}
      BY <3>2, <3>3 DEF NoLine
    <3>5. QED
      BY <3>2, <3>3, <3>4 DEF NoLine, OneLine
  <2>2. QED
    BY <1>2, <2>1 DEF Matching
<1>3. QED
  BY <1>1, <1>2

LEMMA SendStep ==
  ASSUME ChildInv, NEW c \in Commands, Send(c)
  PROVE  ChildInv'
<1>0. /\ WireTypes /\ CliTypes /\ DriverTypes /\ Counting
      /\ UNCHANGED <<cliVars, output, launch, promptTotal, interrupt, hasExited, stop, interrupts,
                     misread>>
      /\ launch = "live"
  BY DEF ChildInv, ChildTypes, Send
<1>1. Ending'
  BY <1>0 DEF ChildInv, Ending, cliVars
<1>2. CASE ~Live \/ Len(sendQueue) >= MaxQueued
  <2>1. sends' = [sends EXCEPT ![c] = "rejected"] /\ UNCHANGED <<sendQueue, command, input>>
    BY <1>2 DEF Send
  <2>2. DriverTypes'
    BY <1>0, <2>1 DEF DriverTypes
  <2>3. \A d \in Commands : sends'[d] = "prompt" => sends[d] = "prompt"
    BY <1>0, <2>1 DEF DriverTypes
  <2>4. DriverMoves
    BY <1>0, <2>1, <2>2, <2>3 DEF DriverMoves, CliTypes, cliVars
  <2>5. QED
    BY <1>1, <2>4, DriverMovesKeep DEF ChildInv
<1>3. CASE ~(~Live \/ Len(sendQueue) >= MaxQueued) /\ sendQueue # <<>>
  <2>1. /\ sends' = [sends EXCEPT ![c] = "queued"] /\ sendQueue' = Append(sendQueue, c)
        /\ UNCHANGED <<command, input>>
    BY <1>3 DEF Send
  <2>2. sendQueue' \in Seq(Commands) /\ Head(sendQueue') = Head(sendQueue)
    BY <1>0, <1>3, <2>1, AppendIs DEF DriverTypes
  <2>3. DriverTypes'
    BY <1>0, <2>1, <2>2 DEF DriverTypes
  <2>4. \A d \in Commands : sends'[d] = "prompt" => sends[d] = "prompt"
    BY <1>0, <2>1 DEF DriverTypes
  <2>5. DriverMoves
    BY <1>0, <1>3, <2>1, <2>2, <2>3, <2>4 DEF DriverMoves, CliTypes, cliVars
  <2>6. QED
    BY <1>1, <2>5, DriverMovesKeep DEF ChildInv
<1>4. CASE ~(~Live \/ Len(sendQueue) >= MaxQueued) /\ sendQueue = <<>>
  <2> DEFINE free == command = 0 /\ interrupt = 0
  <2>1. Turns(<<c>>, sends, promptTotal, free)
    BY <1>4 DEF Send
  <2>2. <<c>> \in Seq(Commands) /\ <<c>> # <<>> /\ Head(<<c>>) = c
    OBVIOUS
  <2>3. free \in BOOLEAN /\ sends \in [Commands -> SendStates]
    BY <1>0 DEF DriverTypes, SendStates
  <2>4. /\ sends' \in [Commands -> SendStates] /\ sendQueue' \in Seq(Commands)
        /\ input' \in Seq(Typed) /\ command' \in Nat
        /\ \A d \in Commands : sends'[d] = "prompt" => sends[d] = "prompt"
        /\ \/ /\ free /\ sendQueue' = <<c>> /\ command' = promptTotal + 1
              /\ input' = Append(input, c)
           \/ /\ sendQueue' = <<>> /\ input' = input
              /\ command' = IF command > promptTotal THEN command ELSE 0
    <3> HIDE DEF free
    <3>1. QED
      BY <1>0, <2>1, <2>2, <2>3, TurnsAre DEF WireTypes, DriverTypes
  <2>5. DriverTypes'
    BY <1>0, <2>4 DEF DriverTypes, SendStates
  <2>6. CASE sendQueue' = <<>> /\ input' = input
             /\ command' = IF command > promptTotal THEN command ELSE 0
    <3>1. command' = command
      BY <1>0, <2>6 DEF Counting, DriverTypes
    <3>2. DriverMoves
      BY <1>0, <2>4, <2>5, <2>6, <3>1 DEF DriverMoves, CliTypes, cliVars
    <3>3. QED
      BY <1>1, <3>2, DriverMovesKeep DEF ChildInv
  <2>7. CASE free /\ sendQueue' = <<c>> /\ command' = promptTotal + 1 /\ input' = Append(input, c)
    <3>1. ChildTypes'
      BY <1>0, <2>4, <2>5 DEF ChildTypes, WireTypes, CliTypes, cliVars
    <3>2. Counting'
      <4>1. input' # <<>>
        BY <1>0, <2>7, AppendIs DEF WireTypes, Typed
      <4>2. command' \in {0, promptTotal' + 1} /\ command' # 0 /\ promptTotal \in Nat
        BY <1>0, <2>7 DEF DriverTypes
      <4>3. QED
        BY <1>0, <4>1, <4>2 DEF Counting, cliVars
    <3>3. Marks'
      <4>1. SUFFICES ASSUME ~misread
                     PROVE  Correlated' /\ (Misled \/ Matching)'
        BY <1>0 DEF Marks
      <4>2. Correlated /\ Matching
        BY <2>7, <4>1 DEF ChildInv, Marks, Misled
      <4>3. Correlated'
        BY <1>0, <2>4, <4>2 DEF Correlated, cliVars
      <4>4. /\ \A i \in 1..Len(output') : output'[i] = CtrlC
            /\ cli \in {"booting", "up"} => NoLine
        BY <1>0, <2>7, <4>2 DEF Matching
      <4>5. output' \in Seq(Markers) /\ UNCHANGED <<cli, lines, running>> /\ command' # 0
        BY <1>0, <2>7 DEF WireTypes, DriverTypes, cliVars
      <4>6. (Misled \/ Matching)'
        BY <1>0, <2>2, <2>7, <4>4, <4>5, WrittenMarks
      <4>7. QED
        BY <4>3, <4>6
    <3>4. QED
      BY <1>1, <3>1, <3>2, <3>3 DEF ChildInv
  <2>8. QED
    BY <2>4, <2>6, <2>7
<1>5. QED
  BY <1>2, <1>3, <1>4

LEMMA InterruptStep ==
  ASSUME ChildInv, Interrupt
  PROVE  ChildInv'
<1>0. /\ WireTypes /\ CliTypes /\ DriverTypes /\ Counting
      /\ UNCHANGED <<cliVars, output, launch, promptTotal, command, sends, sendQueue, hasExited,
                     stop, misread>>
      /\ input' = Append(input, CtrlC) /\ interrupts' = interrupts + 1
      /\ interrupt' = IF command # 0 THEN command ELSE promptTotal + 1
  BY DEF ChildInv, ChildTypes, Interrupt
<1>1. Ending'
  BY <1>0 DEF ChildInv, Ending, cliVars
<1>2. interrupt' = promptTotal + 1 /\ interrupt' \in Nat
  BY <1>0 DEF Counting, DriverTypes
<1>3. input' # <<>>
  BY <1>0, AppendIs DEF WireTypes, Typed
<1>4. DriverTypes'
  BY <1>0, <1>2 DEF DriverTypes
<1>5. DriverMoves
  BY <1>0, <1>2, <1>3, <1>4 DEF DriverMoves, CliTypes, cliVars
<1>6. QED
  BY <1>1, <1>5, DriverMovesKeep DEF ChildInv

LEMMA SendTimeoutStep ==
  ASSUME ChildInv, SendTimeout
  PROVE  ChildInv'
<1>0. /\ WireTypes /\ CliTypes /\ DriverTypes /\ Counting /\ sendQueue # <<>>
      /\ UNCHANGED <<cliVars, output, launch, promptTotal, interrupt, hasExited, stop, interrupts,
                     misread>>
  BY DEF ChildInv, ChildTypes, SendTimeout
<1>1. Ending'
  BY <1>0 DEF ChildInv, Ending, cliVars
<1>2. Head(sendQueue) \in Commands /\ Tail(sendQueue) \in Seq(Commands)
  BY <1>0, TailIs DEF DriverTypes
<1>3. [sends EXCEPT ![Head(sendQueue)] = "timeout"] \in [Commands -> SendStates]
  BY <1>0, <1>2 DEF DriverTypes, SendStates
<1>4. Turns(Tail(sendQueue), [sends EXCEPT ![Head(sendQueue)] = "timeout"], promptTotal, FALSE)
  BY DEF SendTimeout
<1>5. /\ sends' \in [Commands -> SendStates] /\ sendQueue' = <<>> /\ input' = input
      /\ \A c \in Commands : sends'[c] = "prompt" =>
           [sends EXCEPT ![Head(sendQueue)] = "timeout"][c] = "prompt"
      /\ command' = IF command > promptTotal THEN command ELSE 0
  BY <1>0, <1>2, <1>3, <1>4, TurnsAre DEF DriverTypes, WireTypes
<1>6. command' = command
  BY <1>0, <1>5 DEF Counting, DriverTypes
<1>7. \A c \in Commands : sends'[c] = "prompt" => sends[c] = "prompt"
  BY <1>0, <1>2, <1>5 DEF DriverTypes
<1>8. DriverTypes'
  BY <1>0, <1>5, <1>6 DEF DriverTypes, SendStates
<1>9. DriverMoves
  BY <1>0, <1>5, <1>6, <1>7, <1>8 DEF DriverMoves, CliTypes, cliVars
<1>10. QED
  BY <1>1, <1>9, DriverMovesKeep DEF ChildInv

LEMMA InterruptTimeoutStep ==
  ASSUME ChildInv, InterruptTimeout
  PROVE  ChildInv'
<1>0. /\ CliTypes /\ DriverTypes /\ interrupt' = 0
      /\ UNCHANGED <<cliVars, input, output, launch, promptTotal, command, sends, sendQueue,
                     hasExited, stop, interrupts, misread>>
  BY DEF ChildInv, ChildTypes, InterruptTimeout
<1>1. Ending'
  BY <1>0 DEF ChildInv, Ending, cliVars
<1>2. DriverTypes'
  BY <1>0 DEF DriverTypes
<1>3. DriverMoves
  BY <1>0, <1>2 DEF DriverMoves, CliTypes, cliVars
<1>4. QED
  BY <1>1, <1>3, DriverMovesKeep DEF ChildInv

LEMMA OnExitStep ==
  ASSUME ChildInv, OnExit
  PROVE  ChildInv'
<1>0. /\ CliTypes /\ DriverTypes /\ cli = "exited"
      /\ hasExited' = TRUE /\ sendQueue' = <<>> /\ interrupt' = 0
      /\ sends' = [c \in Commands |-> IF sends[c] \in {"waiting", "queued"} THEN "rejected"
                                      ELSE sends[c]]
      /\ stop' = IF stop \in {"quitting", "killing"} \/ (stop = "no" /\ launch = "waiting")
                 THEN "done" ELSE stop
      /\ launch' = IF launch \in {"waiting", "failing"} THEN "failed" ELSE launch
      /\ UNCHANGED <<cliVars, input, output, promptTotal, command, interrupts, misread>>
  BY DEF ChildInv, ChildTypes, OnExit
<1>1. Ending'
  BY <1>0 DEF ChildInv, Ending, DriverTypes, cliVars
<1>2. DriverTypes'
  BY <1>0 DEF DriverTypes
<1>3. \A c \in Commands : sends'[c] = "prompt" => sends[c] = "prompt"
  BY <1>0
<1>4. launch' = "live" <=> launch = "live"
  BY <1>0
<1>5. DriverMoves
  BY <1>0, <1>2, <1>3, <1>4 DEF DriverMoves, CliTypes, cliVars
<1>6. QED
  BY <1>1, <1>5, DriverMovesKeep DEF ChildInv

LEMMA BeginStopIs ==
  ASSUME ChildInv, BeginStop
  PROVE  /\ stop' \in {"done", "quitting"} /\ (stop' = "done" => hasExited)
         /\ input' \in {input, Append(input, Quit)}
  BY DEF BeginStop

LEMMA ChildStays ==
  ASSUME ChildInv, UNCHANGED ptyVars
  PROVE  ChildInv'
BY DEF ChildInv, ChildTypes, WireTypes, CliTypes, DriverTypes, Ending, Counting, Marks,
   Misled, Matching, Correlated, NoLine, OneLine, ptyVars, cliVars, driverVars

LEMMA StopChildStep ==
  ASSUME ChildInv, StopChild
  PROVE  ChildInv'
<1>1. CASE UNCHANGED ptyVars
  BY <1>1, ChildStays
<1>2. CASE ~UNCHANGED ptyVars
  <2>0. /\ CliTypes /\ DriverTypes /\ stop = "no"
        /\ UNCHANGED <<cliVars, output, launch, promptTotal, command, interrupt, sends, sendQueue,
                       hasExited, interrupts, misread>>
        /\ stop' \in {"done", "quitting"} /\ (stop' = "done" => hasExited)
        /\ input' \in {input, Append(input, Quit)}
    BY <1>2, BeginStopIs DEF ChildInv, ChildTypes, StopChild
  <2>1. Ending'
    BY <2>0 DEF ChildInv, Ending, cliVars
  <2>2. DriverTypes'
    BY <2>0 DEF DriverTypes
  <2>3. DriverMoves
    BY <2>0, <2>2 DEF DriverMoves, CliTypes, cliVars
  <2>4. QED
    BY <2>1, <2>3, DriverMovesKeep DEF ChildInv
<1>3. QED
  BY <1>1, <1>2

LEMMA LaunchTimeoutStep ==
  ASSUME ChildInv, LaunchTimeout
  PROVE  ChildInv'
<1>0. /\ CliTypes /\ DriverTypes /\ launch = "waiting"
      /\ launch' = IF stop = "failed" THEN "failed" ELSE "failing"
      /\ UNCHANGED <<cliVars, output, promptTotal, command, interrupt, sends, sendQueue, hasExited,
                     interrupts, misread>>
  BY DEF ChildInv, ChildTypes, LaunchTimeout
<1>a. \/ /\ stop = "no" /\ stop' \in {"done", "quitting"} /\ (stop' = "done" => hasExited)
         /\ input' \in {input, Append(input, Quit)}
      \/ UNCHANGED <<stop, input>>
  BY BeginStopIs DEF LaunchTimeout
<1>1. Ending'
  BY <1>0, <1>a DEF ChildInv, Ending, cliVars
<1>2. DriverTypes'
  BY <1>0, <1>a DEF DriverTypes
<1>3. DriverMoves
  BY <1>0, <1>a, <1>2 DEF DriverMoves, CliTypes, cliVars
<1>4. QED
  BY <1>1, <1>3, DriverMovesKeep DEF ChildInv

LEMMA KillStep ==
  ASSUME ChildInv, Kill \/ KillTimeout
  PROVE  ChildInv'
<1>0. /\ CliTypes /\ DriverTypes /\ cleaning' \in {cleaning, TRUE}
      /\ UNCHANGED <<cli, lines, running, interrupted, finished, input, output, promptTotal,
                     command, interrupt, sends, sendQueue, hasExited, interrupts, misread>>
      /\ \/ stop = "quitting" /\ stop' = "killing" /\ launch' = launch
         \/ /\ stop = "killing" /\ stop' = "failed"
            /\ launch' = IF launch = "failing" THEN "failed" ELSE launch
  BY DEF ChildInv, ChildTypes, Kill, KillTimeout, cliVars
<1>1. Ending'
  BY <1>0 DEF ChildInv, Ending
<1>2. DriverTypes'
  BY <1>0 DEF DriverTypes
<1>3. DriverMoves
  BY <1>0, <1>2 DEF DriverMoves, CliTypes
<1>4. QED
  BY <1>1, <1>3, DriverMovesKeep DEF ChildInv

LEMMA SpawnStep ==
  ASSUME Spawn
  PROVE  ChildInv'
<1>1. ChildTypes' /\ Ending'
  <2>1. <<>> \in Seq(Texts) /\ <<>> \in Seq(Typed) /\ <<>> \in Seq(Markers)
    OBVIOUS
  <2>2. WireTypes' /\ CliTypes' /\ Ending'
    BY <2>1 DEF WireTypes, CliTypes, Ending, Spawn
  <2>3. DriverTypes'
    <3>1. <<>> \in Seq(Commands) /\ [c \in Commands |-> "none"] \in [Commands -> SendStates]
      BY DEF SendStates
    <3>2. QED
      BY <3>1 DEF DriverTypes, SendStates, Spawn
  <2>4. QED
    BY <2>2, <2>3 DEF ChildTypes
<1>2. Counting'
  BY DEF Counting, Spawn
<1>3. Marks'
  BY DEF Marks, Correlated, Misled, Matching, NoLine, Spawn
<1>4. QED
  BY <1>1, <1>2, <1>3 DEF ChildInv

LEMMA NoChildIs ==
  ASSUME NoChild
  PROVE  ChildInv
<1>1. ChildTypes /\ Ending
  <2>1. <<>> \in Seq(Texts) /\ <<>> \in Seq(Typed) /\ <<>> \in Seq(Markers)
    OBVIOUS
  <2>2. WireTypes /\ CliTypes /\ Ending
    BY <2>1 DEF WireTypes, CliTypes, Ending, NoChild
  <2>3. DriverTypes
    <3>1. <<>> \in Seq(Commands) /\ [c \in Commands |-> "none"] \in [Commands -> SendStates]
      BY DEF SendStates
    <3>2. QED
      BY <3>1 DEF DriverTypes, SendStates, NoChild
  <2>4. QED
    BY <2>2, <2>3 DEF ChildTypes
<1>2. Counting
  BY DEF Counting, NoChild
<1>3. Marks
  BY DEF Marks, Correlated, Misled, Matching, NoLine, NoChild
<1>4. QED
  BY <1>1, <1>2, <1>3 DEF ChildInv

LEMMA OutputArrivesStep ==
  ASSUME ChildInv, OutputArrives
  PROVE  ChildInv'
<1>0. WireTypes /\ CliTypes /\ DriverTypes /\ Counting
  BY DEF ChildInv, ChildTypes
<1> DEFINE reached(t) == command \in (promptTotal + 1)..t
<1> DEFINE wakes(t) ==
      /\ sendQueue # <<>> /\ reached(t)
      /\ Turns(Tail(sendQueue), [sends EXCEPT ![Head(sendQueue)] = "prompt"], t,
               Live /\ interrupt <= t)
<1> DEFINE goesOn(t) ==
      /\ ~(sendQueue # <<>> /\ reached(t))
      /\ command' = IF reached(t) THEN 0 ELSE command
      /\ UNCHANGED <<sends, sendQueue, input>>
<1>1. PICK n \in 1..Len(output) :
        /\ output' = SubSeq(output, n + 1, Len(output))
        /\ promptTotal' = promptTotal + n
        /\ misread' = (misread \/ (/\ reached(promptTotal + n)
                                   /\ output[command - promptTotal] = CtrlC))
        /\ launch' = IF launch # "waiting" THEN launch
                     ELSE IF stop = "no" THEN "live"
                     ELSE IF stop \in {"done", "failed"} THEN "failed" ELSE "failing"
        /\ interrupt' = IF interrupt > promptTotal + n THEN interrupt ELSE 0
        /\ wakes(promptTotal + n) \/ goesOn(promptTotal + n)
        /\ UNCHANGED <<cliVars, hasExited, stop, interrupts>>
  BY DEF OutputArrives
<1>2. /\ n \in Nat \ {0} /\ n <= Len(output) /\ output # <<>> /\ Head(output) = output[1]
      /\ output' \in Seq(Markers) /\ Len(output') = Len(output) - n
      /\ \A i \in 1..Len(output') : i + n \in 2..Len(output) /\ output'[i] = output[i + n]
  BY <1>0, <1>1 DEF WireTypes
<1> DEFINE total == promptTotal + n
<1>3. total \in Nat /\ promptTotal \in Nat /\ total >= promptTotal + 1
  BY <1>0, <1>2 DEF DriverTypes
<1>4. /\ reached(total) <=> command # 0
      /\ command # 0 => command - promptTotal = 1
      /\ interrupt' = 0
  BY <1>0, <1>1, <1>3 DEF Counting, DriverTypes
<1>5. misread' = (misread \/ (command # 0 /\ Head(output) = CtrlC))
  BY <1>1, <1>2, <1>4
<1>6. \/ /\ sendQueue # <<>> /\ command # 0
         /\ sends' \in [Commands -> SendStates] /\ sendQueue' \in Seq(Commands)
         /\ input' \in Seq(Typed) /\ command' \in Nat
         /\ \A c \in Commands : sends'[c] = "prompt" => c = Head(sendQueue) \/ sends[c] = "prompt"
         /\ \/ /\ sendQueue' # <<>> /\ command' = total + 1
               /\ input' = Append(input, Head(sendQueue')) /\ Head(sendQueue') \in Commands
            \/ sendQueue' = <<>> /\ input' = input /\ command' = 0
      \/ /\ sendQueue = <<>> /\ command' = 0
         /\ UNCHANGED <<sends, sendQueue, input>>
  <2>1. CASE sendQueue # <<>> /\ command # 0
    <3> DEFINE free == Live /\ interrupt <= total
    <3>1. Turns(Tail(sendQueue), [sends EXCEPT ![Head(sendQueue)] = "prompt"], total, free)
      BY <1>1, <1>4, <2>1
    <3>2. Head(sendQueue) \in Commands /\ Tail(sendQueue) \in Seq(Commands)
      BY <1>0, <2>1, TailIs DEF DriverTypes
    <3>3. [sends EXCEPT ![Head(sendQueue)] = "prompt"] \in [Commands -> SendStates]
      BY <1>0, <3>2 DEF DriverTypes, SendStates
    <3>4. free \in BOOLEAN
      BY DEF Live
    <3>5. input \in Seq(Typed) /\ command \in Nat
      BY <1>0 DEF WireTypes, DriverTypes
    <3>6. /\ sends' \in [Commands -> SendStates] /\ sendQueue' \in Seq(Commands)
          /\ input' \in Seq(Typed) /\ command' \in Nat
          /\ \A c \in Commands :
               sends'[c] = "prompt" => [sends EXCEPT ![Head(sendQueue)] = "prompt"][c] = "prompt"
          /\ \/ /\ sendQueue' # <<>> /\ command' = total + 1
                /\ input' = Append(input, Head(sendQueue')) /\ Head(sendQueue') \in Commands
             \/ /\ sendQueue' = <<>> /\ input' = input
                /\ command' = IF command > total THEN command ELSE 0
      <4> HIDE DEF free, total
      <4>1. QED
        BY <1>3, <3>1, <3>2, <3>3, <3>4, <3>5, TurnsAre
    <3>7. \A c \in Commands : sends'[c] = "prompt" => c = Head(sendQueue) \/ sends[c] = "prompt"
      BY <1>0, <3>2, <3>6 DEF DriverTypes
    <3>8. sendQueue' = <<>> => command' = 0
      BY <1>3, <1>4, <2>1, <3>6
    <3>9. QED
      BY <2>1, <3>6, <3>7, <3>8, <1>3
  <2>2. CASE ~(sendQueue # <<>> /\ command # 0)
    <3>1. sendQueue = <<>> /\ goesOn(total)
      BY <1>0, <1>1, <1>4, <2>2 DEF Counting
    <3>2. command' = 0
      BY <1>4, <3>1
    <3>3. QED
      BY <3>1, <3>2
  <2>3. QED
    BY <2>1, <2>2
<1>7. UNCHANGED <<cli, cleaning, lines, running, interrupted, finished, hasExited, stop, interrupts>>
  BY <1>1 DEF cliVars
<1>8. ChildTypes'
  <2>1. input' \in Seq(Typed) /\ sendQueue' \in Seq(Commands) /\ command' \in Nat
        /\ sends' \in [Commands -> SendStates]
    BY <1>0, <1>3, <1>6 DEF WireTypes, DriverTypes, SendStates
  <2>2. WireTypes' /\ CliTypes'
    BY <1>0, <1>2, <1>7, <2>1 DEF WireTypes, CliTypes
  <2>3. misread' \in BOOLEAN
    BY <1>0, <1>5 DEF DriverTypes
  <2>4. launch' \in {"waiting", "live", "failing", "failed"}
    BY <1>0, <1>1 DEF DriverTypes
  <2>5. promptTotal' \in Nat
    BY <1>1, <1>3
  <2>6. DriverTypes'
    BY <1>0, <1>4, <1>7, <2>1, <2>3, <2>4, <2>5 DEF DriverTypes, SendStates
  <2>7. QED
    BY <2>2, <2>6 DEF ChildTypes
<1>9. Ending'
  BY <1>1, <1>7 DEF ChildInv, Ending
<1>10. Counting'
  <2>1. promptTotal' = total /\ launch' # "waiting" /\ (launch = "live" => launch' = "live")
    BY <1>0, <1>1 DEF DriverTypes
  <2>2. cli # "booting"
    BY <1>0, <1>2 DEF Counting
  <2>3. command' \in {0, total + 1} /\ (sendQueue' # <<>> => command' # 0)
    BY <1>3, <1>6
  <2>4. command' # 0 => launch' = "live" /\ input' # <<>>
    BY <1>0, <1>3, <1>6, <2>1, AppendIs DEF WireTypes, Typed, Counting
  <2>5. QED
    BY <1>0, <1>4, <1>7, <2>1, <2>2, <2>3, <2>4 DEF Counting
<1>11. Marks'
  <2>1. SUFFICES ASSUME ~misread, ~(command # 0 /\ Head(output) = CtrlC)
                 PROVE  Correlated' /\ (Misled \/ Matching)'
    BY <1>0, <1>5 DEF Marks, DriverTypes
  <2>2. Correlated /\ Matching
    BY <1>2, <2>1 DEF ChildInv, Marks, Misled
  <2>3. \A i \in 1..Len(output') : output'[i] = CtrlC
    BY <1>2, <2>2 DEF Matching
  <2>4. command # 0 /\ sendQueue # <<>> => Head(sendQueue) \in finished
    BY <1>2, <2>2 DEF Matching
  <2>5. Correlated'
    BY <1>6, <1>7, <2>2, <2>4 DEF Correlated
  <2>6. cli \in {"booting", "up"} => NoLine
    BY <1>2, <2>2 DEF Matching
  <2>7. CASE sendQueue' # <<>>
    <3>1. /\ input' = Append(input, Head(sendQueue')) /\ Head(sendQueue') \in Commands
          /\ command' # 0
      BY <1>3, <1>6, <2>7
    <3>2. output' \in Seq(Markers) /\ UNCHANGED <<cli, lines, running>>
      BY <1>2, <1>7
    <3>3. QED
      BY <1>0, <2>3, <2>5, <2>6, <2>7, <3>1, <3>2, WrittenMarks
  <2>8. CASE sendQueue' = <<>>
    <3>1. command' = 0 /\ input' = input
      BY <1>6, <2>8
    <3>2. cli' \in {"booting", "up"} => NoLine'
      BY <1>7, <2>6, <3>1 DEF NoLine
    <3>3. \A i \in 2..Len(output') : output'[i] = CtrlC
      BY <1>2, <2>3
    <3>4. QED
      BY <2>3, <2>5, <2>8, <3>1, <3>2, <3>3 DEF Matching
  <2>9. QED
    BY <2>7, <2>8
<1>12. QED
  BY <1>8, <1>9, <1>10, <1>11 DEF ChildInv

LEMMA ChildStep ==
  ASSUME ChildInv, Driver \/ Lifetime \/ CommandLine
  PROVE  ChildInv'
BY OutputArrivesStep, SendTimeoutStep, InterruptTimeoutStep, OnExitStep, LaunchTimeoutStep,
   KillStep, CommandLineStep DEF Driver, Lifetime
-----------------------------------------------------------------------------
(* The owner *)

OwnerTypes ==
  /\ calls \in [Calls -> [kind : {"none", "replace", "shutdown"},
                          stage : {"none", "queued", "stopping", "port", "launching",
                                   "retracting", "ended"},
                          revision : Nat, aborted : BOOLEAN]]
  /\ chain \in Seq(Calls) /\ revision \in 0..MaxCalls
  /\ current \in 0..MaxCalls /\ pending \in 0..MaxCalls /\ child \in 0..MaxCalls
  /\ changing \in BOOLEAN /\ failure \in BOOLEAN /\ closed \in BOOLEAN /\ strays \in BOOLEAN

\* The calls that have ended.
Past == revision - Len(chain)

\* Calls take their turns as they came, and the last one to come is the last of the chain.
InOrder ==
  /\ Past \in Nat
  /\ \A k \in 1..Len(chain) : chain[k] = Past + k
  /\ changing <=> chain # <<>>
  /\ \A i \in Calls :
       /\ i <= revision => calls[i].kind # "none" /\ calls[i].revision = i
       /\ i <= Past => calls[i].stage = "ended"
       /\ i = Past + 1 /\ i <= revision => calls[i].stage \notin {"none", "ended"}
       /\ Past + 1 < i /\ i <= revision => calls[i].stage = "queued"
       /\ i > revision => calls[i].kind = "none" /\ calls[i].stage = "none"

\* What the call whose turn it is has found, and done.
InTurn ==
  /\ pending # 0 => calls[pending].stage \in {"port", "launching", "retracting"}
  /\ \A i \in Calls :
       /\ calls[i].stage \in {"port", "launching", "retracting"} =>
            pending = i /\ calls[i].kind = "replace"
       /\ calls[i].stage \notin {"none", "queued", "ended"} /\ calls[i].kind = "replace" => ~failure
       /\ calls[i].stage = "port" => current = 0
       /\ calls[i].stage = "launching" =>
            current = 0 /\ child = i /\ (launch = "live" => stop = "no")
       /\ calls[i].stage = "retracting" => current = i

\* Whose the child is.
Owned ==
  /\ ~strays
  /\ current # 0 => current = child /\ launch = "live"
  /\ Running => child # 0 /\ (child = current \/ calls[child].stage = "launching" \/ failure)
  /\ closed => /\ revision # 0 /\ calls[revision].kind = "shutdown"
               /\ chain = <<>> => current = 0 \/ failure
  /\ chain = <<>> /\ current # 0 => closed \/ failure \/ (current = revision /\ stop = "no")

OwnerInv == OwnerTypes /\ InOrder /\ InTurn /\ Owned

-----------------------------------------------------------------------------
(* What the owner sees of a child *)

\* A child that has exited stays so, and one that its launch has returned is not stopped but by
\* its owner.
ChildMoves ==
  /\ cli = "exited" => cli' = "exited"
  /\ launch = "live" => launch' = "live" /\ (stop = "no" => stop' = "no")
  /\ launch # "live" /\ launch' = "live" => stop' = "no"

LEMMA ChildMovesSo ==
  ASSUME ChildInv,
         Driver \/ Lifetime \/ CommandLine \/ Interrupt \/ \E c \in Commands : Send(c)
  PROVE  ChildMoves
<1>0. DriverTypes /\ Ending
  BY DEF ChildInv, ChildTypes
<1>1. CASE Driver \/ Lifetime
  <2>1. CASE OutputArrives
    BY <1>0, <2>1 DEF OutputArrives, ChildMoves, cliVars, DriverTypes
  <2>2. CASE SendTimeout \/ InterruptTimeout
    BY <1>0, <2>2 DEF SendTimeout, InterruptTimeout, ChildMoves, cliVars
  <2>3. CASE OnExit
    BY <1>0, <2>3 DEF OnExit, ChildMoves, cliVars
  <2>4. CASE Lifetime
    BY <1>0, <2>4 DEF Lifetime, LaunchTimeout, Kill, KillTimeout, ChildMoves, cliVars
  <2>5. QED
    BY <1>1, <2>1, <2>2, <2>3, <2>4 DEF Driver
<1>2. CASE CommandLine
  <2>1. UNCHANGED <<launch, stop>>
    BY <1>2 DEF CommandLine, Start, StartAndQuit, Line, CommandEnds, InterruptTarget,
       CtrlCAtPrompt, CtrlCAgain, CliFails, CliExits, driverVars
  <2>2. cli = "exited" => cli' = "exited"
    BY <1>2 DEF CommandLine, Start, StartAndQuit, Line, CommandEnds, InterruptTarget,
       CtrlCAtPrompt, CtrlCAgain, CliFails, CliExits
  <2>3. QED
    BY <2>1, <2>2 DEF ChildMoves
<1>3. CASE Interrupt \/ \E c \in Commands : Send(c)
  BY <1>3 DEF Interrupt, Send, ChildMoves, cliVars
<1>4. QED
  BY <1>1, <1>2, <1>3

\* To stop it changes neither the process nor the launch.
LEMMA StopChildIs ==
  ASSUME StopChild
  PROVE  UNCHANGED <<cli, launch>>
BY DEF StopChild, ptyVars, cliVars, driverVars

-----------------------------------------------------------------------------
(* The chain of calls *)

LEMMA TurnIs ==
  ASSUME OwnerTypes, InOrder, NEW i \in Calls, NEW stage, Turn(i, stage)
  PROVE  /\ i = Past + 1 /\ i <= revision /\ chain # <<>> /\ changing
         /\ calls[i].kind # "none" /\ calls[i].revision = i
         /\ Superseded(i) <=> i < revision \/ closed
         /\ \A j \in Calls : j # i => calls[j].stage \in {"none", "queued", "ended"}
<1>1. chain # <<>> /\ Head(chain) = i /\ Len(chain) \in Nat \ {0} /\ chain[1] = i
  BY TailIs DEF OwnerTypes, Turn
<1>2. i = Past + 1 /\ i <= revision
  <2>1. 1 \in 1..Len(chain) /\ revision \in Nat
    BY <1>1, OwnerAssumption DEF OwnerTypes
  <2>2. chain[1] = Past + 1
    BY <2>1 DEF InOrder
  <2>3. QED
    BY <1>1, <2>1, <2>2 DEF Past
<1>3. calls[i].kind # "none" /\ calls[i].revision = i /\ changing
  BY <1>1, <1>2 DEF InOrder
<1>4. Superseded(i) <=> i < revision \/ closed
  BY <1>2, <1>3 DEF Superseded, OwnerTypes, Calls
<1>5. ASSUME NEW j \in Calls, j # i
      PROVE  calls[j].stage \in {"none", "queued", "ended"}
  <2>1. j <= Past \/ (Past + 1 < j /\ j <= revision) \/ j > revision
    BY <1>2, <1>5 DEF InOrder, OwnerTypes, Calls
  <2>2. QED
    BY <2>1 DEF InOrder
<1>6. QED
  BY <1>1, <1>2, <1>3, <1>4, <1>5

CallStages == {"none", "queued", "stopping", "port", "launching", "retracting", "ended"}
CallType == [kind : {"none", "replace", "shutdown"}, stage : CallStages, revision : Nat,
             aborted : BOOLEAN]

\* What the turn of a call leaves as it was.
OthersStay(i) ==
  /\ \A j \in Calls : calls'[j].kind = calls[j].kind
  /\ \A j \in Calls : calls'[j].revision = calls[j].revision
  /\ \A j \in Calls \ {i} : calls'[j].stage = calls[j].stage

LEMMA EndIs ==
  ASSUME OwnerTypes, InOrder, NEW i \in Calls, NEW stage, Turn(i, stage), End(i),
         revision' = revision
  PROVE  /\ InOrder' /\ OthersStay(i) /\ calls'[i].stage = "ended"
         /\ calls' \in [Calls -> CallType] /\ chain' \in Seq(Calls) /\ changing' \in BOOLEAN
         /\ pending' \in 0..MaxCalls /\ pending' \in {0, pending} \ {i}
         /\ chain' = <<>> <=> i = revision
<1>1. /\ calls' = [calls EXCEPT ![i].stage = "ended"] /\ chain' = Tail(chain)
      /\ changing' = (changing /\ calls[i].revision # revision)
      /\ pending' = IF pending = i THEN 0 ELSE pending
  BY DEF End
<1>2. /\ i = Past + 1 /\ i <= revision /\ chain # <<>> /\ changing /\ calls[i].revision = i
  BY TurnIs
<1>3. calls \in [Calls -> CallType] /\ calls' \in [Calls -> CallType]
  BY <1>1 DEF OwnerTypes, CallType, CallStages
<1>4. OthersStay(i) /\ calls'[i].stage = "ended"
  BY <1>1, <1>3 DEF OthersStay, CallType
<1>5. /\ chain' \in Seq(Calls) /\ Len(chain) \in Nat \ {0} /\ Len(chain') = Len(chain) - 1
      /\ \A k \in 1..Len(chain') : chain'[k] = chain[k + 1]
  BY <1>1, <1>2, TailIs DEF OwnerTypes
<1>6. chain' = <<>> <=> i = revision
  <2>1. chain' = <<>> <=> Len(chain') = 0
    BY <1>5
  <2>2. QED
    BY <1>2, <1>5, <2>1 DEF Past, InOrder, OwnerTypes
<1>7. changing' \in BOOLEAN /\ (changing' <=> chain' # <<>>)
  BY <1>1, <1>2, <1>6
<1>8. InOrder'
  <2>1. Past' = Past + 1 /\ Past' \in Nat
    BY <1>2, <1>5 DEF Past, InOrder, OwnerTypes
  <2>2. \A k \in 1..Len(chain') : chain'[k] = Past' + k
    BY <1>5, <2>1 DEF InOrder
  <2>3. ASSUME NEW j \in Calls
        PROVE  /\ j <= revision => calls'[j].kind # "none" /\ calls'[j].revision = j
               /\ j <= Past' => calls'[j].stage = "ended"
               /\ j = Past' + 1 /\ j <= revision => calls'[j].stage \notin {"none", "ended"}
               /\ Past' + 1 < j /\ j <= revision => calls'[j].stage = "queued"
               /\ j > revision => calls'[j].kind = "none" /\ calls'[j].stage = "none"
    <3>1. j \in Nat /\ Past \in Nat /\ revision \in Nat
      BY DEF Calls, InOrder, OwnerTypes
    <3>2. j # i => calls'[j].stage = calls[j].stage
      BY <1>4 DEF OthersStay
    <3>3. calls'[j].kind = calls[j].kind /\ calls'[j].revision = calls[j].revision
      BY <1>4 DEF OthersStay
    <3>4. j = Past + 2 /\ j <= revision => calls[j].stage = "queued"
      BY <3>1 DEF InOrder
    <3>5. QED
      BY <1>2, <1>4, <2>1, <3>1, <3>2, <3>3, <3>4 DEF InOrder
  <2>4. QED
    BY <1>7, <2>1, <2>2, <2>3 DEF InOrder
<1>9. pending' \in 0..MaxCalls /\ pending' \in {0, pending} \ {i}
  <2>1. i # 0 /\ pending \in 0..MaxCalls /\ 0 \in 0..MaxCalls
    BY OwnerAssumption DEF OwnerTypes, Calls
  <2>2. QED
    BY <1>1, <2>1
<1>10. QED
  BY <1>3, <1>4, <1>5, <1>6, <1>7, <1>8, <1>9

LEMMA AwaitIs ==
  ASSUME OwnerTypes, InOrder, NEW i \in Calls, NEW stage, Turn(i, stage),
         NEW next \in CallStages \ {"none", "ended"}, Await(i, next), revision' = revision
  PROVE  /\ InOrder' /\ OthersStay(i) /\ calls'[i].stage = next
         /\ calls' \in [Calls -> CallType] /\ UNCHANGED <<chain, changing>>
<1>1. calls' = [calls EXCEPT ![i].stage = next] /\ UNCHANGED <<chain, changing>>
  BY DEF Await
<1>2. i = Past + 1 /\ i <= revision
  BY TurnIs
<1>3. calls \in [Calls -> CallType] /\ calls' \in [Calls -> CallType]
  BY <1>1 DEF OwnerTypes, CallType, CallStages
<1>4. OthersStay(i) /\ calls'[i].stage = next
  BY <1>1, <1>3 DEF OthersStay, CallType
<1>5. Past' = Past /\ Past \in Nat
  BY <1>1 DEF Past, InOrder
<1>6. ASSUME NEW j \in Calls
      PROVE  /\ j <= revision => calls'[j].kind # "none" /\ calls'[j].revision = j
             /\ j <= Past => calls'[j].stage = "ended"
             /\ j = Past + 1 /\ j <= revision => calls'[j].stage \notin {"none", "ended"}
             /\ Past + 1 < j /\ j <= revision => calls'[j].stage = "queued"
             /\ j > revision => calls'[j].kind = "none" /\ calls'[j].stage = "none"
  <2>1. j \in Nat /\ Past \in Nat /\ revision \in Nat
    BY DEF Calls, InOrder, OwnerTypes
  <2>2. j # i => calls'[j].stage = calls[j].stage
    BY <1>4 DEF OthersStay
  <2>3. calls'[j].kind = calls[j].kind /\ calls'[j].revision = calls[j].revision
    BY <1>4 DEF OthersStay
  <2>4. QED
    BY <1>2, <1>4, <2>1, <2>2, <2>3 DEF InOrder
<1>7. InOrder'
  BY <1>1, <1>5, <1>6 DEF InOrder
<1>8. QED
  BY <1>1, <1>3, <1>4, <1>7

-----------------------------------------------------------------------------
(* Each step keeps what the owner knows *)

LEMMA ComeStep ==
  ASSUME ChildInv, OwnerInv, NEW i \in Calls, NEW kind \in {"replace", "shutdown"}, Come(i, kind),
         closed' \in BOOLEAN, closed => closed' /\ kind = "shutdown",
         closed' /\ ~closed => kind = "shutdown"
  PROVE  ChildInv' /\ OwnerInv'
<1>0. OwnerTypes /\ InOrder /\ InTurn /\ Owned
  BY DEF OwnerInv
<1>1. i = revision + 1 /\ revision \in Nat /\ calls[i].stage = "none"
  <2>1. i \in Nat /\ i > revision /\ revision \in Nat
    BY <1>0 DEF Come, InOrder, OwnerTypes, Calls
  <2>2. ASSUME i > revision + 1
        PROVE  FALSE
    <3>1. revision + 1 \in 1..(i - 1) /\ revision + 1 \in Calls
      BY <2>1, <2>2, OwnerAssumption DEF Calls
    <3>2. calls[revision + 1].kind = "none"
      BY <1>0, <2>1, <3>1 DEF InOrder
    <3>3. QED
      BY <3>1, <3>2 DEF Come
  <2>3. QED
    BY <1>0, <2>1, <2>2 DEF InOrder
<1>2. \/ UNCHANGED ptyVars
      \/ StopChild /\ launch = "waiting"
  BY DEF Come, AbortPending
<1>3. UNCHANGED <<cli, launch>>
  BY <1>2, StopChildIs DEF ptyVars, cliVars, driverVars
<1>4. ChildInv'
  BY <1>2, StopChildStep, ChildStays
<1>5. launch = "live" => stop' = stop
  BY <1>2 DEF ptyVars, driverVars
<1>6. pending # 0 => pending \in Calls /\ pending # i
  BY <1>0, <1>1 DEF InTurn, OwnerTypes, Calls
<1>7. calls \in [Calls -> CallType]
  BY <1>0 DEF OwnerTypes, CallType, CallStages
<1>8. /\ calls' \in [Calls -> CallType]
      /\ calls'[i].kind = kind /\ calls'[i].stage = "queued" /\ calls'[i].revision = revision + 1
      /\ \A j \in Calls \ {i} : /\ calls'[j].kind = calls[j].kind
                                /\ calls'[j].stage = calls[j].stage
                                /\ calls'[j].revision = calls[j].revision
  <2> DEFINE new == [NoCall EXCEPT !.kind = kind, !.stage = "queued", !.revision = revision + 1]
             queued == [calls EXCEPT ![i] = new]
  <2>1. /\ new \in CallType /\ new.kind = kind /\ new.stage = "queued"
        /\ new.revision = revision + 1
    <3>1. NoCall \in CallType
      BY DEF NoCall, CallType, CallStages
    <3>2. "queued" \in CallStages /\ revision + 1 \in Nat
      BY <1>1 DEF CallStages
    <3>3. QED
      BY <3>1, <3>2 DEF CallType
  <2>2. /\ queued \in [Calls -> CallType] /\ queued[i] = new
        /\ \A j \in Calls \ {i} : queued[j] = calls[j]
    <3> HIDE DEF new
    <3>1. QED
      BY <1>7, <2>1
  <2>3. calls' = IF pending = 0 THEN queued ELSE [queued EXCEPT ![pending].aborted = TRUE]
    BY DEF Come
  <2>4. CASE pending = 0
    <3> HIDE DEF new, queued
    <3>1. QED
      BY <2>1, <2>2, <2>3, <2>4
  <2>5. CASE pending # 0
    <3>1. pending \in Calls /\ pending # i
      BY <1>6, <2>5
    <3> HIDE DEF new, queued
    <3>2. queued[pending] = calls[pending] /\ calls[pending] \in CallType
      BY <1>7, <2>2, <3>1
    <3>3. calls' = [queued EXCEPT ![pending].aborted = TRUE]
      BY <2>3, <2>5
    <3>4. calls' \in [Calls -> CallType]
      BY <2>2, <3>1, <3>2, <3>3 DEF CallType
    <3>5. \A j \in Calls \ {pending} : calls'[j] = queued[j]
      BY <2>2, <3>3
    <3>6. /\ calls'[pending].kind = calls[pending].kind
          /\ calls'[pending].stage = calls[pending].stage
          /\ calls'[pending].revision = calls[pending].revision
      BY <2>2, <3>1, <3>2, <3>3 DEF CallType
    <3>7. QED
      BY <2>1, <2>2, <3>1, <3>4, <3>5, <3>6
  <2>6. QED
    BY <2>4, <2>5
<1>9. /\ revision' = revision + 1 /\ changing' = TRUE /\ chain' = Append(chain, i)
      /\ UNCHANGED <<current, pending, failure, child, strays>>
  BY DEF Come
<1>10. /\ chain' \in Seq(Calls) /\ Len(chain') = Len(chain) + 1 /\ Len(chain) \in Nat
       /\ chain' # <<>> /\ chain'[Len(chain) + 1] = i
       /\ \A k \in 1..Len(chain) : chain'[k] = chain[k]
  BY <1>0, <1>9, AppendIs DEF OwnerTypes
<1>11. OwnerTypes'
  <2>1. revision' \in 0..MaxCalls
    BY <1>1, <1>9 DEF Calls
  <2>2. QED
    BY <1>0, <1>8, <1>9, <1>10, <2>1 DEF OwnerTypes, CallType, CallStages
<1>12. InOrder'
  <2>1. Past' = Past /\ Past \in Nat /\ Past <= revision
    BY <1>0, <1>1, <1>9, <1>10 DEF Past, InOrder
  <2>2. \A k \in 1..Len(chain') : chain'[k] = Past + k
    <3>1. i = Past + (Len(chain) + 1)
      BY <1>1, <1>10 DEF Past
    <3>2. QED
      BY <1>0, <1>10, <3>1 DEF InOrder
  <2>3. ASSUME NEW j \in Calls
        PROVE  /\ j <= revision' => calls'[j].kind # "none" /\ calls'[j].revision = j
               /\ j <= Past => calls'[j].stage = "ended"
               /\ j = Past + 1 /\ j <= revision' => calls'[j].stage \notin {"none", "ended"}
               /\ Past + 1 < j /\ j <= revision' => calls'[j].stage = "queued"
               /\ j > revision' => calls'[j].kind = "none" /\ calls'[j].stage = "none"
    <3>1. CASE j = i
      BY <1>1, <1>8, <1>9, <2>1, <3>1
    <3>2. CASE j # i
      <4>1. /\ calls'[j].kind = calls[j].kind /\ calls'[j].stage = calls[j].stage
            /\ calls'[j].revision = calls[j].revision
        BY <1>8, <3>2
      <4>2. j \in Nat /\ (j <= revision' => j <= revision) /\ (j > revision' => j > revision)
        BY <1>1, <1>9, <3>2 DEF Calls
      <4>3. QED
        BY <1>0, <2>1, <4>1, <4>2 DEF InOrder
    <3>3. QED
      BY <3>1, <3>2
  <2>4. QED
    BY <1>9, <1>10, <2>1, <2>2, <2>3 DEF InOrder
<1>13. InTurn'
  <2>1. pending' # 0 => calls'[pending'].stage \in {"port", "launching", "retracting"}
    BY <1>0, <1>6, <1>8, <1>9 DEF InTurn
  <2>2. launch' = "live" => stop' = stop
    BY <1>3, <1>5
  <2>3. ASSUME NEW j \in Calls
        PROVE  /\ calls'[j].stage \in {"port", "launching", "retracting"} =>
                    pending' = j /\ calls'[j].kind = "replace"
               /\ calls'[j].stage \notin {"none", "queued", "ended"} /\ calls'[j].kind = "replace"
                    => ~failure'
               /\ calls'[j].stage = "port" => current' = 0
               /\ calls'[j].stage = "launching" =>
                    current' = 0 /\ child' = j /\ (launch' = "live" => stop' = "no")
               /\ calls'[j].stage = "retracting" => current' = j
    <3>1. CASE j = i
      BY <1>8, <3>1
    <3>2. CASE j # i
      <4>1. calls'[j].kind = calls[j].kind /\ calls'[j].stage = calls[j].stage
        BY <1>8, <3>2
      <4>2. QED
        BY <1>0, <1>3, <1>9, <2>2, <4>1 DEF InTurn
    <3>3. QED
      BY <3>1, <3>2
  <2>4. QED
    BY <2>1, <2>3 DEF InTurn
<1>14. Owned'
  <2>1. ~strays' /\ (current' # 0 => current' = child' /\ launch' = "live")
    BY <1>0, <1>3, <1>9 DEF Owned
  <2>2. Running' => /\ child' # 0
                    /\ child' = current' \/ calls'[child'].stage = "launching" \/ failure'
    <3>1. Running' <=> Running
      BY <1>3 DEF Running
    <3>2. child \in Calls => child # i \/ calls[child].stage # "launching"
      BY <1>1
    <3>3. Running => child \in Calls
      BY <1>0 DEF Owned, OwnerTypes, Calls
    <3>4. QED
      BY <1>0, <1>8, <1>9, <3>1, <3>2, <3>3 DEF Owned
  <2>3. closed' => revision' # 0 /\ calls'[revision'].kind = "shutdown"
    BY <1>1, <1>8, <1>9
  <2>4. QED
    BY <1>10, <2>1, <2>2, <2>3 DEF Owned
<1>15. QED
  BY <1>4, <1>11, <1>12, <1>13, <1>14 DEF OwnerInv

\* The call whose turn it was has ended.
LEMMA EndKeeps ==
  ASSUME OwnerInv, NEW i \in Calls, NEW stage \in CallStages, Turn(i, stage), End(i),
         UNCHANGED <<revision, closed, child, strays>>,
         current' \in 0..MaxCalls, failure' \in BOOLEAN, failure => failure',
         current' # 0 => current' = child /\ launch' = "live",
         Running' => child # 0 /\ (child = current' \/ failure'),
         closed /\ i = revision => current' = 0 \/ failure',
         i = revision /\ current' # 0 => closed \/ failure' \/ (current' = i /\ stop' = "no")
  PROVE  OwnerInv'
<1>0. OwnerTypes /\ InOrder /\ InTurn /\ Owned
  BY DEF OwnerInv
<1>1. /\ InOrder' /\ OthersStay(i) /\ calls'[i].stage = "ended"
      /\ calls' \in [Calls -> CallType] /\ chain' \in Seq(Calls) /\ changing' \in BOOLEAN
      /\ pending' \in 0..MaxCalls /\ pending' \in {0, pending} \ {i}
      /\ chain' = <<>> <=> i = revision
  BY <1>0, EndIs
<1>2. OwnerTypes'
  BY <1>0, <1>1 DEF OwnerTypes, CallType, CallStages
<1>3. \A j \in Calls : calls'[j].stage \in {"none", "queued", "ended"}
  BY <1>0, <1>1, TurnIs DEF OthersStay
<1>4. pending' = 0
  <2>1. pending' # 0 => pending' \in Calls /\ pending' = pending /\ pending' # i
    BY <1>1 DEF OwnerTypes, Calls
  <2>2. pending # 0 /\ pending \in Calls => pending = i
    BY <1>0, TurnIs DEF InTurn
  <2>3. QED
    BY <2>1, <2>2
<1>5. InTurn'
  BY <1>3, <1>4 DEF InTurn
<1>6. Owned'
  <2>1. revision # 0 => revision \in Calls
    BY <1>0, OwnerAssumption DEF OwnerTypes, Calls
  <2>2. closed' => revision' # 0 /\ calls'[revision'].kind = "shutdown"
    BY <1>0, <1>1, <2>1 DEF Owned, OthersStay
  <2>3. chain' = <<>> => (closed' => current' = 0 \/ failure')
    BY <1>1
  <2>4. chain' = <<>> /\ current' # 0
          => closed' \/ failure' \/ (current' = revision' /\ stop' = "no")
    BY <1>1
  <2>5. Running' => /\ child' # 0
                    /\ child' = current' \/ calls'[child'].stage = "launching" \/ failure'
    OBVIOUS
  <2>6. ~strays'
    BY <1>0 DEF Owned
  <2>7. QED
    BY <2>2, <2>3, <2>4, <2>5, <2>6 DEF Owned
<1>7. QED
  BY <1>1, <1>2, <1>5, <1>6 DEF OwnerInv

\* The call whose turn it is goes on to its next await.
LEMMA AwaitKeeps ==
  ASSUME OwnerInv, NEW i \in Calls, NEW stage, Turn(i, stage),
         NEW next \in {"stopping", "port", "launching", "retracting"}, Await(i, next),
         UNCHANGED <<revision, closed, failure>>, strays' = FALSE,
         current' \in 0..MaxCalls, child' \in 0..MaxCalls,
         next = "stopping" => pending' = 0,
         next # "stopping" => pending' = i /\ calls[i].kind = "replace",
         calls[i].kind = "replace" => ~failure,
         next = "port" => current' = 0,
         next = "launching" => current' = 0 /\ child' = i /\ (launch' = "live" => stop' = "no"),
         next = "retracting" => current' = i,
         current' # 0 => current' = child' /\ launch' = "live",
         Running' => /\ child' # 0
                     /\ child' = current' \/ (child' = i /\ next = "launching") \/ failure
  PROVE  OwnerInv'
<1>0. OwnerTypes /\ InOrder /\ InTurn /\ Owned
  BY DEF OwnerInv
<1>1. next \in CallStages \ {"none", "ended"}
  BY DEF CallStages
<1>2. /\ InOrder' /\ OthersStay(i) /\ calls'[i].stage = next
      /\ calls' \in [Calls -> CallType] /\ UNCHANGED <<chain, changing>>
  BY <1>0, <1>1, AwaitIs
<1>3. chain # <<>> /\ \A j \in Calls : j # i => calls[j].stage \in {"none", "queued", "ended"}
  BY <1>0, TurnIs
<1>4. OwnerTypes'
  <2>1. pending' \in 0..MaxCalls
    BY OwnerAssumption DEF Calls
  <2>2. QED
    BY <1>0, <1>2, <2>1 DEF OwnerTypes, CallType, CallStages
<1>5. \A j \in Calls \ {i} : calls'[j].stage \in {"none", "queued", "ended"}
  BY <1>2, <1>3 DEF OthersStay
<1>6. calls'[i].kind = calls[i].kind
  BY <1>2 DEF OthersStay
<1>7. InTurn'
  BY <1>2, <1>5, <1>6 DEF InTurn
<1>8. Owned'
  <2>1. revision # 0 => revision \in Calls
    BY <1>0, OwnerAssumption DEF OwnerTypes, Calls
  <2>2. closed' => revision' # 0 /\ calls'[revision'].kind = "shutdown"
    BY <1>0, <1>2, <2>1 DEF Owned, OthersStay
  <2>3. chain' # <<>>
    BY <1>2, <1>3
  <2>4. Running' => /\ child' # 0
                    /\ child' = current' \/ calls'[child'].stage = "launching" \/ failure'
    BY <1>2
  <2>5. QED
    BY <2>2, <2>3, <2>4 DEF Owned
<1>9. QED
  BY <1>2, <1>4, <1>7, <1>8 DEF OwnerInv

\* What runs, and whose the abort controller is, at the turn of a call.
LEMMA HeldNow ==
  ASSUME OwnerInv, NEW i \in Calls, NEW stage, Turn(i, stage)
  PROVE  /\ Running => /\ child # 0
                       /\ child = current \/ (child = i /\ stage = "launching") \/ failure
         /\ stage \in {"queued", "stopping"} => pending = 0
         /\ stage \in {"port", "launching", "retracting"} =>
              pending = i /\ calls[i].kind = "replace" /\ ~failure
         /\ stage = "stopping" /\ calls[i].kind = "replace" => ~failure
         /\ stage \in {"port", "launching"} => current = 0
         /\ stage = "launching" => child = i /\ (launch = "live" => stop = "no")
         /\ stage = "retracting" => current = i
         /\ current \in 0..MaxCalls /\ child \in 0..MaxCalls /\ failure \in BOOLEAN
         /\ i # 0 /\ i \in 0..MaxCalls /\ 0 \in 0..MaxCalls
<1>0. OwnerTypes /\ InOrder /\ InTurn /\ Owned
  BY DEF OwnerInv
<1>1. calls[i].stage = stage
  BY DEF Turn
<1>2. \A j \in Calls : j # i => calls[j].stage \in {"none", "queued", "ended"}
  BY <1>0, TurnIs
<1>3. pending # 0 => pending \in Calls
  BY <1>0 DEF OwnerTypes, Calls
<1>4. child # 0 => child \in Calls
  BY <1>0 DEF OwnerTypes, Calls
<1>5. stage \in {"queued", "stopping"} => pending = 0
  BY <1>0, <1>1, <1>2, <1>3 DEF InTurn
<1>6. Running => /\ child # 0
                 /\ child = current \/ (child = i /\ stage = "launching") \/ failure
  BY <1>0, <1>1, <1>2, <1>4 DEF Owned
<1>7. i # 0 /\ i \in 0..MaxCalls /\ 0 \in 0..MaxCalls
  BY OwnerAssumption DEF Calls
<1>8. QED
  BY <1>0, <1>1, <1>5, <1>6, <1>7 DEF InTurn, OwnerTypes

LEMMA BeginStep ==
  ASSUME ChildInv, OwnerInv, NEW i \in Calls, Begin(i)
  PROVE  ChildInv' /\ OwnerInv'
<1>0. /\ OwnerTypes /\ InOrder /\ Owned /\ Turn(i, "queued")
      /\ UNCHANGED <<revision, current, failure, closed, child, strays>>
  BY DEF OwnerInv, Begin
<1>1. /\ pending = 0 /\ current \in 0..MaxCalls /\ child \in 0..MaxCalls /\ failure \in BOOLEAN
      /\ Running => child # 0 /\ (child = current \/ failure)
  BY <1>0, HeldNow
<1>2. current # 0 => current = child /\ launch = "live"
  BY <1>0 DEF Owned
<1>3. CASE calls[i].kind = "replace" /\ (failure \/ Superseded(i))
  <2>1. End(i) /\ UNCHANGED ptyVars
    BY <1>3 DEF Begin
  <2>2. UNCHANGED <<cli, launch, stop>>
    BY <2>1 DEF ptyVars, cliVars, driverVars
  <2>3. Superseded(i) <=> i < revision \/ closed
    BY <1>0, TurnIs
  <2>4. closed => calls[revision].kind = "shutdown"
    BY <1>0 DEF Owned
  <2>5. i = revision => ~(i < revision)
    BY DEF Calls
  <2>6. Running' <=> Running
    BY <2>2 DEF Running
  <2>7. "queued" \in CallStages
    BY DEF CallStages
  <2>8. OwnerInv'
    BY <1>0, <1>1, <1>2, <1>3, <2>1, <2>2, <2>3, <2>4, <2>5, <2>6, <2>7, EndKeeps
  <2>9. QED
    BY <2>1, <2>8, ChildStays
<1>4. CASE ~(calls[i].kind = "replace" /\ (failure \/ Superseded(i)))
  <2>1. StopCurrent /\ Await(i, "stopping") /\ pending' = pending
    BY <1>4 DEF Begin
  <2>2. StopChild \/ UNCHANGED ptyVars
    BY <2>1 DEF StopCurrent
  <2>3. UNCHANGED <<cli, launch>>
    BY <2>2, StopChildIs DEF ptyVars, cliVars, driverVars
  <2>4. ChildInv'
    BY <2>2, StopChildStep, ChildStays
  <2>5. Running' <=> Running
    BY <2>3 DEF Running
  <2>6. strays' = FALSE
    BY <1>0 DEF Owned, OwnerTypes
  <2>7. OwnerInv'
    BY <1>0, <1>1, <1>2, <1>4, <2>1, <2>3, <2>5, <2>6, AwaitKeeps
  <2>8. QED
    BY <2>4, <2>7
<1>5. QED
  BY <1>3, <1>4

LEMMA StopReturnsStep ==
  ASSUME ChildInv, OwnerInv, NEW i \in Calls, StopReturns(i)
  PROVE  ChildInv' /\ OwnerInv'
<1>0. /\ OwnerTypes /\ InOrder /\ Owned /\ Turn(i, "stopping")
      /\ UNCHANGED <<ptyVars, revision, closed, child, strays>>
  BY DEF OwnerInv, StopReturns
<1>1. UNCHANGED <<cli, launch, stop>> /\ (Running' <=> Running)
  BY <1>0 DEF ptyVars, cliVars, driverVars, Running
<1>2. /\ pending = 0 /\ current \in 0..MaxCalls /\ child \in 0..MaxCalls /\ failure \in BOOLEAN
      /\ 0 \in 0..MaxCalls
      /\ Running => child # 0 /\ (child = current \/ failure)
      /\ calls[i].kind = "replace" => ~failure
  BY <1>0, HeldNow
<1>3. current # 0 => current = child /\ launch = "live"
  BY <1>0 DEF Owned
<1>4. ChildInv'
  BY <1>0, ChildStays
<1>5. "stopping" \in CallStages
  BY DEF CallStages
<1>6. CASE current # 0 /\ stop = "failed"
  <2>1. failure' = TRUE /\ End(i) /\ UNCHANGED current
    BY <1>6 DEF StopReturns
  <2>2. OwnerInv'
    BY <1>0, <1>1, <1>2, <1>3, <1>5, <2>1, EndKeeps
  <2>3. QED
    BY <1>4, <2>2
<1>7. CASE ~(current # 0 /\ stop = "failed")
  <2>1. /\ current' = 0 /\ UNCHANGED failure
        /\ IF calls[i].kind = "shutdown" \/ Superseded(i) THEN End(i)
           ELSE Await(i, "port") /\ pending' = i
    BY <1>7 DEF StopReturns
  <2>2. Running => failure
    <3>1. current # 0 => ~Running
      BY <1>7 DEF StopReturns, StopEnded, ChildInv, Ending, Running
    <3>2. QED
      BY <1>2, <3>1
  <2>3. CASE calls[i].kind = "shutdown" \/ Superseded(i)
    <3>1. OwnerInv'
      BY <1>0, <1>1, <1>2, <1>5, <2>1, <2>2, <2>3, EndKeeps
    <3>2. QED
      BY <1>4, <3>1
  <2>4. CASE ~(calls[i].kind = "shutdown" \/ Superseded(i))
    <3>1. calls[i].kind = "replace"
      BY <1>0, <2>4, TurnIs DEF OwnerTypes
    <3>2. strays' = FALSE
      BY <1>0 DEF Owned, OwnerTypes
    <3>3. OwnerInv'
      BY <1>0, <1>1, <1>2, <2>1, <2>2, <2>4, <3>1, <3>2, AwaitKeeps
    <3>4. QED
      BY <1>4, <3>3
  <2>5. QED
    BY <2>3, <2>4
<1>8. QED
  BY <1>6, <1>7

LEMMA PortStep ==
  ASSUME ChildInv, OwnerInv, NEW i \in Calls, PortFound(i) \/ PortFails(i)
  PROVE  ChildInv' /\ OwnerInv'
<1>0. /\ OwnerTypes /\ InOrder /\ Owned /\ Turn(i, "port")
      /\ UNCHANGED <<revision, current, failure, closed>>
  BY DEF OwnerInv, PortFound, PortFails
<1>1. /\ pending = i /\ calls[i].kind = "replace" /\ ~failure /\ current = 0 /\ ~Running
      /\ current \in 0..MaxCalls /\ child \in 0..MaxCalls /\ failure \in BOOLEAN
      /\ i \in 0..MaxCalls
  BY <1>0, HeldNow
<1>2. "port" \in CallStages
  BY DEF CallStages
<1>3. CASE End(i) /\ UNCHANGED <<ptyVars, child, strays>>
  <2>1. UNCHANGED <<cli, launch, stop>> /\ ~Running'
    BY <1>1, <1>3 DEF ptyVars, cliVars, driverVars, Running
  <2>2. OwnerInv'
    BY <1>0, <1>1, <1>2, <1>3, <2>1, EndKeeps
  <2>3. QED
    BY <1>3, <2>2, ChildStays
<1>4. CASE /\ Spawn /\ child' = i /\ strays' = (strays \/ Running)
           /\ Await(i, "launching") /\ UNCHANGED pending
  <2>1. launch' = "waiting" /\ ChildInv'
    BY <1>4, SpawnStep DEF Spawn
  <2>2. strays' = FALSE
    BY <1>0, <1>1, <1>4 DEF Owned, OwnerTypes
  <2>3. i # 0
    BY DEF Calls
  <2>4. OwnerInv'
    BY <1>0, <1>1, <1>4, <2>1, <2>2, <2>3, AwaitKeeps
  <2>5. QED
    BY <2>1, <2>4
<1>5. QED
  BY <1>3, <1>4 DEF PortFound, PortFails

LEMMA LaunchReturnsStep ==
  ASSUME ChildInv, OwnerInv, NEW i \in Calls, LaunchReturns(i)
  PROVE  ChildInv' /\ OwnerInv'
<1>0. /\ OwnerTypes /\ InOrder /\ Owned /\ Turn(i, "launching")
      /\ launch = "live" /\ current' = i
      /\ UNCHANGED <<revision, failure, closed, child, strays>>
  BY DEF OwnerInv, LaunchReturns
<1>1. /\ pending = i /\ calls[i].kind = "replace" /\ ~failure /\ current = 0
      /\ child = i /\ stop = "no"
      /\ child \in 0..MaxCalls /\ failure \in BOOLEAN /\ i \in 0..MaxCalls /\ i # 0
  BY <1>0, HeldNow
<1>2. Superseded(i) <=> i < revision \/ closed
  BY <1>0, TurnIs
<1>3. CASE Superseded(i)
  <2>1. StopChild /\ Await(i, "retracting") /\ UNCHANGED pending
    BY <1>3 DEF LaunchReturns
  <2>2. ChildInv' /\ UNCHANGED <<cli, launch>>
    BY <2>1, StopChildStep, StopChildIs
  <2>3. strays' = FALSE
    BY <1>0 DEF Owned, OwnerTypes
  <2>4. OwnerInv'
    BY <1>0, <1>1, <2>1, <2>2, <2>3, AwaitKeeps
  <2>5. QED
    BY <2>2, <2>4
<1>4. CASE ~Superseded(i)
  <2>1. End(i) /\ UNCHANGED ptyVars
    BY <1>4 DEF LaunchReturns
  <2>2. UNCHANGED <<cli, launch, stop>>
    BY <2>1 DEF ptyVars, cliVars, driverVars
  <2>3. "launching" \in CallStages
    BY DEF CallStages
  <2>4. OwnerInv'
    BY <1>0, <1>1, <1>2, <1>4, <2>1, <2>2, <2>3, EndKeeps
  <2>5. QED
    BY <2>1, <2>4, ChildStays
<1>5. QED
  BY <1>3, <1>4

LEMMA LaunchRejectedStep ==
  ASSUME ChildInv, OwnerInv, NEW i \in Calls, LaunchRejected(i)
  PROVE  ChildInv' /\ OwnerInv'
<1>0. /\ OwnerTypes /\ InOrder /\ Owned /\ Turn(i, "launching")
      /\ launch = "failed" /\ failure' = (failure \/ stop = "failed") /\ End(i)
      /\ UNCHANGED <<ptyVars, revision, current, closed, child, strays>>
  BY DEF OwnerInv, LaunchRejected
<1>1. /\ current = 0 /\ child = i /\ i # 0
      /\ current \in 0..MaxCalls /\ failure \in BOOLEAN
  BY <1>0, HeldNow
<1>2. ChildInv' /\ UNCHANGED <<cli, launch, stop>>
  BY <1>0, ChildStays DEF ptyVars, cliVars, driverVars
<1>3. Running' => failure'
  BY <1>0, <1>2 DEF ChildInv, Ending, Running
<1>4. failure' \in BOOLEAN /\ "launching" \in CallStages
  BY <1>0 DEF CallStages
<1>5. OwnerInv'
  BY <1>0, <1>1, <1>2, <1>3, <1>4, EndKeeps
<1>6. QED
  BY <1>2, <1>5

LEMMA RetractReturnsStep ==
  ASSUME ChildInv, OwnerInv, NEW i \in Calls, RetractReturns(i)
  PROVE  ChildInv' /\ OwnerInv'
<1>0. /\ OwnerTypes /\ InOrder /\ Owned /\ Turn(i, "retracting") /\ End(i)
      /\ stop \in {"done", "failed"}
      /\ \/ stop = "failed" /\ failure' = TRUE /\ current' = current
         \/ stop # "failed" /\ failure' = failure /\ current' = 0
      /\ UNCHANGED <<ptyVars, revision, closed, child, strays>>
  BY DEF OwnerInv, RetractReturns
<1>1. /\ current = i /\ i \in 0..MaxCalls /\ 0 \in 0..MaxCalls /\ ~failure /\ failure \in BOOLEAN
      /\ Running => child # 0
  BY <1>0, HeldNow
<1>2. ChildInv' /\ UNCHANGED <<cli, launch, stop>>
  BY <1>0, ChildStays DEF ptyVars, cliVars, driverVars
<1>3. current # 0 => current = child /\ launch = "live"
  BY <1>0 DEF Owned
<1>4. Running' => child # 0 /\ failure'
  <2>1. stop = "done" => ~Running
    BY DEF ChildInv, Ending, Running
  <2>2. QED
    BY <1>0, <1>1, <1>2, <2>1 DEF Running
<1>5. "retracting" \in CallStages
  BY DEF CallStages
<1>6. OwnerInv'
  BY <1>0, <1>1, <1>2, <1>3, <1>4, <1>5, EndKeeps
<1>7. QED
  BY <1>2, <1>6

\* A step of the child, or of a tool that uses it.
LEMMA ChildMovesKeep ==
  ASSUME OwnerInv, ChildMoves, UNCHANGED ownVars
  PROVE  OwnerInv'
<1>1. UNCHANGED <<calls, chain, revision, changing, current, pending, failure, closed, child,
                  strays>>
  BY DEF ownVars
<1>2. OwnerTypes' /\ InOrder'
  BY <1>1 DEF OwnerInv, OwnerTypes, InOrder, Past
<1>3. InTurn'
  BY <1>1 DEF OwnerInv, InTurn, ChildMoves
<1>4. Owned'
  BY <1>1 DEF OwnerInv, Owned, ChildMoves, Running
<1>5. QED
  BY <1>2, <1>3, <1>4 DEF OwnerInv

LEMMA OwnerInitially ==
  ASSUME Init
  PROVE  ChildInv /\ OwnerInv
<1>1. ChildInv
  BY NoChildIs DEF Init
<1>2. OwnerTypes
  <2>1. NoCall \in CallType /\ 0 \in 0..MaxCalls
    BY OwnerAssumption DEF NoCall, CallType, CallStages
  <2>2. calls \in [Calls -> CallType]
    BY <2>1 DEF Init
  <2>3. <<>> \in Seq(Calls)
    OBVIOUS
  <2>4. /\ chain = <<>> /\ revision = 0 /\ current = 0 /\ pending = 0 /\ child = 0
        /\ changing \in BOOLEAN /\ failure \in BOOLEAN /\ closed \in BOOLEAN /\ strays \in BOOLEAN
    BY DEF Init
  <2>5. QED
    BY <2>1, <2>2, <2>3, <2>4 DEF OwnerTypes, CallType, CallStages
<1>3. calls = [j \in Calls |-> NoCall] /\ NoCall.kind = "none" /\ NoCall.stage = "none"
  BY DEF Init, NoCall
<1>4. InOrder
  BY <1>3 DEF Init, InOrder, Past, Calls
<1>5. InTurn
  BY <1>3 DEF Init, InTurn
<1>6. Owned
  BY DEF Init, Owned, Running, NoChild
<1>7. QED
  BY <1>1, <1>2, <1>4, <1>5, <1>6 DEF OwnerInv

-----------------------------------------------------------------------------
(* The invariant holds of every state *)

\* What the driver and the owner know in every reachable state.
ReplInv == ChildInv /\ OwnerInv

LEMMA ReplStep ==
  ASSUME ReplInv, [Next]_vars
  PROVE  ReplInv'
<1>0. ChildInv /\ OwnerInv
  BY DEF ReplInv
<1>1. CASE UNCHANGED vars
  <2>1. UNCHANGED ptyVars /\ UNCHANGED ownVars
    BY <1>1 DEF vars
  <2>2. ChildMoves
    BY <2>1 DEF ChildMoves, ptyVars, cliVars, driverVars
  <2>3. QED
    BY <1>0, <2>1, <2>2, ChildStays, ChildMovesKeep DEF ReplInv
<1>2. CASE Client
  <2>1. PICK i \in Calls : Replace(i) \/ Shutdown(i) \/ Close(i)
    BY <1>2 DEF Client
  <2>2. PICK kind \in {"replace", "shutdown"} :
          /\ Come(i, kind)
          /\ \/ ~closed /\ closed' = closed
             \/ kind = "shutdown" /\ closed' = closed
             \/ kind = "shutdown" /\ closed' = TRUE
    BY <2>1 DEF Replace, Shutdown, Close
  <2>3. closed \in BOOLEAN
    BY <1>0 DEF OwnerInv, OwnerTypes
  <2>4. /\ closed' \in BOOLEAN
        /\ closed => closed' /\ kind = "shutdown"
        /\ closed' /\ ~closed => kind = "shutdown"
    <3>1. CASE ~closed /\ closed' = closed
      BY <2>3, <3>1
    <3>2. CASE kind = "shutdown" /\ closed' = closed
      BY <2>3, <3>2
    <3>3. CASE kind = "shutdown" /\ closed' = TRUE
      BY <3>3
    <3>4. QED
      BY <2>2, <3>1, <3>2, <3>3
  <2>5. Come(i, kind)
    BY <2>2
  <2>6. QED
    BY <1>0, <2>4, <2>5, ComeStep DEF ReplInv
<1>3. CASE Owner
  BY <1>0, <1>3, BeginStep, StopReturnsStep, PortStep, LaunchReturnsStep, LaunchRejectedStep,
     RetractReturnsStep DEF Owner, ReplInv
<1>4. CASE Tools
  <2>1. (\E c \in Commands : Send(c)) \/ Interrupt
    BY <1>4 DEF Tools
  <2>2. ChildInv'
    BY <1>0, <2>1, SendStep, InterruptStep
  <2>3. ChildMoves
    BY <1>0, <2>1, ChildMovesSo
  <2>4. QED
    BY <1>0, <1>4, <2>2, <2>3, ChildMovesKeep DEF Tools, ReplInv
<1>5. CASE Child
  BY <1>0, <1>5, ChildStep, ChildMovesSo, ChildMovesKeep DEF Child, ReplInv
<1>6. QED
  BY <1>1, <1>2, <1>3, <1>4, <1>5 DEF Next

-----------------------------------------------------------------------------
(* Nobody is left waiting *)

Unanswered == {"queued", "waiting"}
Answered == {"prompt", "timeout", "rejected"}

Stopping == stop \in {"quitting", "killing"}

\* The queue holds the calls of send that have not returned, each once.
QueueIs(q, s) ==
  /\ \A a \in Commands : s[a] \in Unanswered <=> \E n \in DOMAIN q : q[n] = a
  /\ \A m, n \in DOMAIN q : q[m] = q[n] => m = n

ChildWaits ==
  /\ QueueIs(sendQueue, sends)
  /\ hasExited => sendQueue = <<>>
  /\ launch = "failing" => Stopping

\* A call awaits the end of a child only after it has begun to stop it; and a child that has not
\* exited is somebody's.
OwnerWaits ==
  /\ \A i \in Calls :
       (calls[i].stage = "stopping" /\ current # 0) \/ calls[i].stage = "retracting" => stop # "no"
  /\ ~hasExited => child # 0 /\ (child = current \/ calls[child].stage = "launching" \/ failure)

\* What a call of the owner or a command awaits is there, or a timer runs that ends the wait: of
\* the launch, of quit, of SIGTERM, of a send.
NoCallIsForgotten ==
  /\ chain # <<>> =>
       LET stage == calls[Head(chain)].stage IN
       /\ stage \in {"queued", "stopping", "port", "launching", "retracting"}
       /\ stage = "stopping" => StopEnded \/ Stopping
       /\ stage = "launching" => launch # "failing" \/ Stopping
       /\ stage = "retracting" => stop \in {"done", "failed"} \/ Stopping
  /\ \A a \in Commands : sends[a] \in Unanswered => \E n \in DOMAIN sendQueue : sendQueue[n] = a

StageRank(s) ==
  CASE s = "none" -> 0 [] s = "queued" -> 1 [] s = "stopping" -> 2 [] s = "port" -> 3
    [] s = "launching" -> 4 [] s = "retracting" -> 5 [] s = "ended" -> 6

StopRank(s) ==
  CASE s = "no" -> 0 [] s = "quitting" -> 1 [] s = "killing" -> 2 [] s = "failed" -> 3
    [] s = "done" -> 4

CommandsGoForward ==
  \A a \in Commands :
    /\ sends[a] \in Answered => sends'[a] = sends[a]
    /\ sends[a] \in Unanswered => sends'[a] # "none" /\ (sends[a] = "waiting" => sends'[a] # "queued")

\* The stop and the launch of a child go one way, and a command is answered once.
ChildGoesForward ==
  /\ stop' = stop \/ StopRank(stop') > StopRank(stop)
  /\ launch' # launch => launch = "waiting" \/ (launch = "failing" /\ launch' = "failed")
  /\ CommandsGoForward

\* A child is replaced after it has exited, and everything sent to it has been answered.
Replaced == Spawn /\ hasExited /\ \A a \in Commands : sends[a] \notin Unanswered

\* Calls of the owner go through their stages one way.
CallsGoForward ==
  \A i \in Calls : \/ calls'[i].stage = calls[i].stage
                   \/ StageRank(calls'[i].stage) > StageRank(calls[i].stage)

GoesForward == CallsGoForward /\ (Replaced \/ ChildGoesForward)

LEMMA QueueMoves ==
  ASSUME NEW q \in Seq(Commands), q # <<>>, NEW s \in [Commands -> SendStates], QueueIs(q, s),
         NEW how \in Answered
  PROVE  QueueIs(Tail(q), [s EXCEPT ![Head(q)] = how])
<1> DEFINE r == Tail(q)
           t == [s EXCEPT ![Head(q)] = how]
<1>1. /\ DOMAIN q = 1..Len(q) /\ Len(q) \in Nat \ {0} /\ Head(q) = q[1] /\ Head(q) \in Commands
      /\ DOMAIN r = 1..(Len(q) - 1) /\ \A n \in 1..(Len(q) - 1) : r[n] = q[n + 1]
  BY TailIs
<1>2. \A a \in Commands : t[a] = IF a = Head(q) THEN how ELSE s[a]
  BY <1>1
<1>3. how \notin Unanswered
  BY DEF Answered, Unanswered
<1> HIDE DEF r, t
<1>4. \A m, n \in DOMAIN r : r[m] = r[n] => m = n
  <2>1. ASSUME NEW m \in DOMAIN r, NEW n \in DOMAIN r, r[m] = r[n] PROVE m = n
    <3>1. m \in Nat /\ n \in Nat /\ m + 1 \in DOMAIN q /\ n + 1 \in DOMAIN q /\ q[m + 1] = q[n + 1]
      BY <1>1, <2>1
    <3>2. m + 1 = n + 1
      BY <3>1 DEF QueueIs
    <3>3. QED
      BY <3>1, <3>2
  <2>2. QED
    BY <2>1
<1>5. ASSUME NEW a \in Commands PROVE t[a] \in Unanswered <=> \E n \in DOMAIN r : r[n] = a
  <2>1. CASE a = Head(q)
    <3>1. ASSUME NEW n \in DOMAIN r, r[n] = a PROVE FALSE
      <4>1. n \in Nat /\ n + 1 \in DOMAIN q /\ 1 \in DOMAIN q /\ q[n + 1] = q[1] /\ n >= 1
        BY <1>1, <2>1, <3>1
      <4>2. n + 1 = 1
        BY <4>1 DEF QueueIs
      <4>3. QED
        BY <4>1, <4>2
    <3>2. QED
      BY <1>2, <1>3, <2>1, <3>1
  <2>2. CASE a # Head(q)
    <3>1. t[a] \in Unanswered <=> \E n \in DOMAIN q : q[n] = a
      BY <1>2, <2>2 DEF QueueIs
    <3>2. ASSUME NEW n \in DOMAIN q, q[n] = a PROVE n - 1 \in DOMAIN r /\ r[n - 1] = a
      BY <1>1, <2>2, <3>2
    <3>3. ASSUME NEW n \in DOMAIN r, r[n] = a PROVE n + 1 \in DOMAIN q /\ q[n + 1] = a
      BY <1>1, <3>3
    <3>4. QED
      BY <3>1, <3>2, <3>3
  <2>3. QED
    BY <2>1, <2>2
<1>6. QED
  BY <1>4, <1>5 DEF QueueIs, r, t

\* The turns of a queue leave the queue of those who wait, and answer nobody twice.
LEMMA TurnsQueue ==
  ASSUME NEW q \in Seq(Commands), NEW s \in [Commands -> SendStates], NEW total, NEW free,
         Turns(q, s, total, free), QueueIs(q, s)
  PROVE  /\ QueueIs(sendQueue', sends')
         /\ ~free => sendQueue' = <<>>
         /\ \A a \in Commands : /\ s[a] \in Answered => sends'[a] = s[a]
                                /\ s[a] \in Unanswered => sends'[a] \in {s[a], "waiting", "rejected"}
<1>1. CASE q # <<>> /\ free
  <2>1. sends' = [s EXCEPT ![Head(q)] = "waiting"] /\ sendQueue' = q
    BY <1>1 DEF Turns
  <2>2. Head(q) \in Commands /\ Head(q) = q[1] /\ 1 \in DOMAIN q
    BY <1>1, TailIs
  <2>3. s[Head(q)] \in Unanswered
    BY <2>2 DEF QueueIs
  <2>4. \A a \in Commands : sends'[a] = IF a = Head(q) THEN "waiting" ELSE s[a]
    BY <2>1
  <2>5. QueueIs(sendQueue', sends')
    BY <2>1, <2>3, <2>4 DEF QueueIs, Unanswered
  <2>6. QED
    BY <1>1, <2>3, <2>4, <2>5 DEF Unanswered, Answered
<1>2. CASE ~(q # <<>> /\ free)
  <2>1. /\ sends' = [a \in Commands |-> IF \E n \in DOMAIN q : q[n] = a THEN "rejected" ELSE s[a]]
        /\ sendQueue' = <<>>
    BY <1>2 DEF Turns
  <2>2. \A a \in Commands : sends'[a] = IF s[a] \in Unanswered THEN "rejected" ELSE s[a]
    BY <2>1 DEF QueueIs
  <2>3. QueueIs(<<>>, sends')
    BY <2>2 DEF QueueIs, Unanswered
  <2>4. QED
    BY <2>1, <2>2, <2>3 DEF Unanswered, Answered
<1>3. QED
  BY <1>1, <1>2

\* What a step of the child, or of a tool that uses it, may do.
ChildGoesOn == ChildWaits' /\ ChildGoesForward /\ (stop # "no" => stop' # "no") /\ (hasExited => hasExited')

LEMMA SendGoesOn ==
  ASSUME ChildInv, ChildWaits, NEW c \in Commands, Send(c)
  PROVE  ChildGoesOn
<1>0. /\ DriverTypes /\ sends \in [Commands -> SendStates] /\ QueueIs(sendQueue, sends)
      /\ UNCHANGED <<launch, stop, hasExited>> /\ sends[c] = "none"
  BY DEF ChildInv, ChildTypes, DriverTypes, SendStates, ChildWaits, Send
<1>1. \A n \in DOMAIN sendQueue : sendQueue[n] # c
  BY <1>0 DEF QueueIs, Unanswered
<1>2. (hasExited' => sendQueue' = <<>>) /\ QueueIs(sendQueue', sends') /\ CommandsGoForward
  <2>1. CASE ~Live \/ Len(sendQueue) >= MaxQueued
    <3>1. sends' = [sends EXCEPT ![c] = "rejected"] /\ sendQueue' = sendQueue
      BY <2>1 DEF Send
    <3>2. \A a \in Commands : sends'[a] = IF a = c THEN "rejected" ELSE sends[a]
      BY <1>0, <3>1
    <3>3. QED
      BY <1>0, <1>1, <3>1, <3>2 DEF QueueIs, Unanswered, Answered, CommandsGoForward, ChildWaits
  <2>2. CASE ~(~Live \/ Len(sendQueue) >= MaxQueued) /\ sendQueue # <<>>
    <3>1. sends' = [sends EXCEPT ![c] = "queued"] /\ sendQueue' = Append(sendQueue, c) /\ ~hasExited
      BY <2>2 DEF Send, Live
    <3>2. \A a \in Commands : sends'[a] = IF a = c THEN "queued" ELSE sends[a]
      BY <1>0, <3>1
    <3>3. /\ DOMAIN sendQueue = 1..Len(sendQueue) /\ Len(sendQueue) \in Nat
          /\ DOMAIN sendQueue' = 1..(Len(sendQueue) + 1) /\ sendQueue'[Len(sendQueue) + 1] = c
          /\ \A n \in 1..Len(sendQueue) : sendQueue'[n] = sendQueue[n]
      BY <1>0, <3>1 DEF DriverTypes
    <3>4. \A n \in 1..(Len(sendQueue) + 1) : n \in 1..Len(sendQueue) \/ n = Len(sendQueue) + 1
      BY <3>3
    <3>5. \A n \in 1..Len(sendQueue) : n \in 1..(Len(sendQueue) + 1)
      BY <3>3
    <3>6. Len(sendQueue) + 1 \in 1..(Len(sendQueue) + 1)
      BY <3>3
    <3>7. \A m, n \in DOMAIN sendQueue' : sendQueue'[m] = sendQueue'[n] => m = n
      BY <1>0, <1>1, <3>3, <3>4 DEF QueueIs
    <3>8. ASSUME NEW a \in Commands
          PROVE  sends'[a] \in Unanswered <=> \E n \in DOMAIN sendQueue' : sendQueue'[n] = a
      <4>1. CASE a = c
        BY <3>2, <3>3, <3>6, <4>1 DEF Unanswered
      <4>2. CASE a # c
        <5>1. sends'[a] \in Unanswered <=> \E n \in DOMAIN sendQueue : sendQueue[n] = a
          BY <1>0, <3>2, <4>2 DEF QueueIs
        <5>2. QED
          BY <3>3, <3>4, <3>5, <4>2, <5>1
      <4>3. QED
        BY <4>1, <4>2
    <3>9. QED
      BY <1>0, <3>1, <3>2, <3>7, <3>8 DEF QueueIs, CommandsGoForward, Answered, Unanswered
  <2>3. CASE ~(~Live \/ Len(sendQueue) >= MaxQueued) /\ sendQueue = <<>>
    <3>1. Turns(<<c>>, sends, promptTotal, command = 0 /\ interrupt = 0) /\ ~hasExited
      BY <2>3 DEF Send, Live
    <3>2. <<c>> # <<>> /\ Head(<<c>>) = c /\ DOMAIN <<c>> = {1} /\ <<c>>[1] = c
      OBVIOUS
    <3>3. \/ sends' = [sends EXCEPT ![c] = "waiting"] /\ sendQueue' = <<c>>
          \/ /\ sends' = [a \in Commands |-> IF a = c THEN "rejected" ELSE sends[a]]
             /\ sendQueue' = <<>>
      BY <3>1, <3>2 DEF Turns
    <3>4. \A a \in Commands : sends[a] \notin Unanswered
      BY <1>0, <2>3 DEF QueueIs
    <3>5. \A a \in Commands : a # c => sends'[a] = sends[a]
      BY <1>0, <3>3
    <3>6. \/ sends'[c] = "waiting" /\ sendQueue' = <<c>>
          \/ sends'[c] = "rejected" /\ sendQueue' = <<>>
      BY <1>0, <3>3
    <3>7. QueueIs(sendQueue', sends')
      <4>1. CASE sends'[c] = "waiting" /\ sendQueue' = <<c>>
        BY <3>2, <3>4, <3>5, <4>1 DEF QueueIs, Unanswered
      <4>2. CASE sends'[c] = "rejected" /\ sendQueue' = <<>>
        BY <3>4, <3>5, <4>2 DEF QueueIs, Unanswered
      <4>3. QED
        BY <3>6, <4>1, <4>2
    <3>8. QED
      BY <1>0, <3>1, <3>4, <3>5, <3>7 DEF CommandsGoForward, Answered
  <2>4. QED
    BY <2>1, <2>2, <2>3
<1>3. QED
  BY <1>0, <1>2 DEF ChildGoesOn, ChildWaits, ChildGoesForward, Stopping

LEMMA DriverGoesOn ==
  ASSUME ChildInv, ChildWaits, Driver
  PROVE  ChildGoesOn
<1>0. /\ DriverTypes /\ sends \in [Commands -> SendStates] /\ QueueIs(sendQueue, sends)
      /\ input \in Seq(Typed)
  BY DEF ChildInv, ChildTypes, WireTypes, DriverTypes, SendStates, ChildWaits
<1>1. CASE OutputArrives
  <2>1. PICK n \in 1..Len(output) :
          /\ launch' = IF launch # "waiting" THEN launch
                       ELSE IF stop = "no" THEN "live"
                       ELSE IF stop \in {"done", "failed"} THEN "failed" ELSE "failing"
          /\ UNCHANGED <<hasExited, stop>>
          /\ \/ sendQueue # <<>> /\ Turns(Tail(sendQueue), [sends EXCEPT ![Head(sendQueue)] = "prompt"],
                                          promptTotal + n, Live /\ interrupt <= promptTotal + n)
             \/ UNCHANGED <<sends, sendQueue>>
    BY <1>1 DEF OutputArrives
  <2>2. launch' = "failing" => Stopping'
    BY <1>0, <2>1 DEF Stopping, ChildWaits, DriverTypes
  <2>3. launch' # launch => launch = "waiting"
    BY <2>1
  <2>4. (hasExited' => sendQueue' = <<>>) /\ QueueIs(sendQueue', sends') /\ CommandsGoForward
    <3>1. CASE sendQueue # <<>> /\ Turns(Tail(sendQueue), [sends EXCEPT ![Head(sendQueue)] = "prompt"],
                                         promptTotal + n, Live /\ interrupt <= promptTotal + n)
      <4> DEFINE s == [sends EXCEPT ![Head(sendQueue)] = "prompt"]
      <4>1. /\ Head(sendQueue) \in Commands /\ Tail(sendQueue) \in Seq(Commands)
            /\ Head(sendQueue) = sendQueue[1] /\ 1 \in DOMAIN sendQueue
        BY <1>0, <3>1, TailIs DEF DriverTypes
      <4>2. QueueIs(Tail(sendQueue), s)
        BY <1>0, <3>1, QueueMoves DEF DriverTypes, Answered
      <4>3. s \in [Commands -> SendStates]
        BY <1>0 DEF SendStates
      <4>4. \A a \in Commands : s[a] = IF a = Head(sendQueue) THEN "prompt" ELSE sends[a]
        BY <1>0
      <4>5. Turns(Tail(sendQueue), s, promptTotal + n, Live /\ interrupt <= promptTotal + n)
        BY <3>1
      <4> HIDE DEF s
      <4>6. /\ QueueIs(sendQueue', sends')
            /\ \A a \in Commands : /\ s[a] \in Answered => sends'[a] = s[a]
                                   /\ s[a] \in Unanswered => sends'[a] \in {s[a], "waiting", "rejected"}
        BY <4>1, <4>2, <4>3, <4>5, TurnsQueue
      <4>7. sends[Head(sendQueue)] \in Unanswered
        BY <1>0, <4>1 DEF QueueIs
      <4>8. CommandsGoForward
        BY <4>4, <4>6, <4>7 DEF CommandsGoForward, Answered, Unanswered
      <4>9. ~hasExited'
        BY <2>1, <3>1 DEF ChildWaits
      <4>10. QED
        BY <4>6, <4>8, <4>9
    <3>2. CASE UNCHANGED <<sends, sendQueue>>
      BY <1>0, <2>1, <3>2 DEF CommandsGoForward, ChildWaits, Unanswered
    <3>3. QED
      BY <2>1, <3>1, <3>2
  <2>5. QED
    BY <2>1, <2>2, <2>3, <2>4 DEF ChildGoesOn, ChildWaits, ChildGoesForward
<1>2. CASE SendTimeout
  <2> DEFINE s == [sends EXCEPT ![Head(sendQueue)] = "timeout"]
  <2>1. Turns(Tail(sendQueue), s, promptTotal, FALSE) /\ UNCHANGED <<launch, stop, hasExited>>
        /\ sendQueue # <<>>
    BY <1>2 DEF SendTimeout
  <2>2. /\ Head(sendQueue) \in Commands /\ Tail(sendQueue) \in Seq(Commands)
        /\ Head(sendQueue) = sendQueue[1] /\ 1 \in DOMAIN sendQueue
    BY <1>0, <2>1, TailIs DEF DriverTypes
  <2>3. QueueIs(Tail(sendQueue), s)
    BY <1>0, <2>1, QueueMoves DEF DriverTypes, Answered
  <2>4. s \in [Commands -> SendStates]
    BY <1>0 DEF SendStates
  <2>5. \A a \in Commands : s[a] = IF a = Head(sendQueue) THEN "timeout" ELSE sends[a]
    BY <1>0
  <2> HIDE DEF s
  <2>6. /\ QueueIs(sendQueue', sends') /\ sendQueue' = <<>>
        /\ \A a \in Commands : /\ s[a] \in Answered => sends'[a] = s[a]
                               /\ s[a] \in Unanswered => sends'[a] \in {s[a], "waiting", "rejected"}
    BY <2>1, <2>2, <2>3, <2>4, TurnsQueue
  <2>7. sends[Head(sendQueue)] \in Unanswered
    BY <1>0, <2>2 DEF QueueIs
  <2>8. CommandsGoForward
    BY <2>5, <2>6, <2>7 DEF CommandsGoForward, Answered, Unanswered
  <2>9. QED
    BY <2>1, <2>6, <2>8 DEF ChildGoesOn, ChildWaits, ChildGoesForward, Stopping
<1>3. CASE InterruptTimeout
  BY <1>0, <1>3 DEF InterruptTimeout, ChildGoesOn, ChildWaits, ChildGoesForward, CommandsGoForward, Stopping,
     Unanswered
<1>4. CASE OnExit
  <2>1. /\ hasExited' = TRUE /\ sendQueue' = <<>>
        /\ \A a \in Commands : sends'[a] = IF sends[a] \in Unanswered THEN "rejected" ELSE sends[a]
    BY <1>4 DEF OnExit, Unanswered
  <2>2. QueueIs(sendQueue', sends')
    BY <2>1 DEF QueueIs, Unanswered
  <2>3. CommandsGoForward
    BY <2>1 DEF CommandsGoForward, Answered, Unanswered
  <2>4. /\ stop' = stop \/ (stop \in {"no", "quitting", "killing"} /\ stop' = "done")
        /\ launch' # launch => launch \in {"waiting", "failing"} /\ launch' = "failed"
        /\ launch' # "failing"
    BY <1>4 DEF OnExit
  <2>5. stop' = stop \/ StopRank(stop') > StopRank(stop)
    BY <2>4 DEF StopRank
  <2>6. QED
    BY <2>1, <2>2, <2>3, <2>4, <2>5 DEF ChildGoesOn, ChildWaits, ChildGoesForward
<1>5. QED
  BY <1>1, <1>2, <1>3, <1>4 DEF Driver

\* A stop begins, by the owner, the abort of a launch or the startup timer.
LEMMA StopGoesOn ==
  ASSUME ChildInv, ChildWaits, StopChild \/ UNCHANGED ptyVars
  PROVE  ChildGoesOn /\ (StopChild => stop' # "no")
<1>1. /\ UNCHANGED <<launch, sends, sendQueue, hasExited>>
      /\ \/ stop' = stop
         \/ stop = "no" /\ stop' \in {"done", "quitting"}
      /\ StopChild => stop' # "no"
  BY DEF StopChild, BeginStop, ptyVars, driverVars
<1>2. stop' = stop \/ StopRank(stop') > StopRank(stop)
  BY <1>1 DEF StopRank
<1>3. CommandsGoForward
  BY <1>1 DEF CommandsGoForward, Unanswered
<1>4. launch' = "failing" => Stopping'
  BY <1>1 DEF ChildWaits, Stopping
<1>5. QED
  BY <1>1, <1>2, <1>3, <1>4 DEF ChildGoesOn, ChildWaits, ChildGoesForward

LEMMA LifetimeGoesOn ==
  ASSUME ChildInv, ChildWaits, Lifetime
  PROVE  ChildGoesOn
<1>0. DriverTypes /\ Ending
  BY DEF ChildInv, ChildTypes
<1>1. UNCHANGED <<sends, sendQueue, hasExited>>
  BY DEF Lifetime, LaunchTimeout, Kill, KillTimeout
<1>2. /\ \/ stop' = stop
         \/ stop = "no" /\ stop' = "quitting"
         \/ stop = "quitting" /\ stop' = "killing"
         \/ stop = "killing" /\ stop' = "failed"
      /\ launch' # launch => launch = "waiting" \/ (launch = "failing" /\ launch' = "failed")
      /\ launch' = "failing" => Stopping'
  <2>1. CASE LaunchTimeout
    <3>1. ~hasExited /\ launch = "waiting"
      BY <1>0, <2>1 DEF LaunchTimeout, Ending
    <3>2. stop # "done"
      BY <1>0, <3>1 DEF Ending
    <3>3. QED
      BY <1>0, <2>1, <3>1, <3>2 DEF LaunchTimeout, BeginStop, Stopping, DriverTypes
  <2>2. CASE Kill
    BY <2>2 DEF Kill, Stopping
  <2>3. CASE KillTimeout
    BY <2>3 DEF KillTimeout, Stopping
  <2>4. QED
    BY <2>1, <2>2, <2>3 DEF Lifetime
<1>3. stop' = stop \/ StopRank(stop') > StopRank(stop)
  BY <1>2 DEF StopRank
<1>4. CommandsGoForward
  BY <1>1 DEF CommandsGoForward, Unanswered
<1>5. QED
  BY <1>1, <1>2, <1>3, <1>4 DEF ChildGoesOn, ChildWaits, ChildGoesForward

LEMMA ChildDoesGoOn ==
  ASSUME ChildInv, ChildWaits,
         Driver \/ Lifetime \/ CommandLine \/ Interrupt \/ \E c \in Commands : Send(c)
  PROVE  ChildGoesOn
<1>1. CASE CommandLine \/ Interrupt
  <2>1. UNCHANGED <<launch, stop, sends, sendQueue, hasExited>>
    BY <1>1 DEF CommandLine, Start, StartAndQuit, Line, CommandEnds, InterruptTarget, CtrlCAtPrompt,
       CtrlCAgain, CliFails, CliExits, driverVars, Interrupt
  <2>2. QED
    BY <2>1 DEF ChildGoesOn, ChildWaits, ChildGoesForward, CommandsGoForward, Stopping, Unanswered
<1>2. QED
  BY <1>1, DriverGoesOn, LifetimeGoesOn, SendGoesOn

-----------------------------------------------------------------------------
(* The owner goes on *)

\* The turn of a call, which may change its own stage and no other.
LEMMA TurnWaits ==
  ASSUME OwnerInv, OwnerWaits, NEW i \in Calls, NEW stage, Turn(i, stage), OthersStay(i),
         child' \in 0..MaxCalls,
         (calls'[i].stage = "stopping" /\ current' # 0) \/ calls'[i].stage = "retracting" => stop' # "no",
         ~hasExited' => /\ child' # 0
                        /\ child' = current' \/ (child' = i /\ calls'[i].stage = "launching") \/ failure'
  PROVE  OwnerWaits'
<1>1. \A j \in Calls \ {i} : calls'[j].stage \in {"none", "queued", "ended"}
  BY TurnIs DEF OwnerInv, OthersStay
<1>2. \A j \in Calls : (calls'[j].stage = "stopping" /\ current' # 0) \/ calls'[j].stage = "retracting"
                         => stop' # "no"
  BY <1>1
<1>3. ~hasExited' => child' # 0 /\ (child' = current' \/ calls'[child'].stage = "launching" \/ failure')
  OBVIOUS
<1>4. QED
  BY <1>2, <1>3 DEF OwnerWaits

\* What is known, at the turn of a call, of a child that has not exited.
LEMMA HeldStill ==
  ASSUME OwnerInv, OwnerWaits, NEW i \in Calls, NEW stage, Turn(i, stage)
  PROVE  ~hasExited => /\ child # 0
                       /\ child = current \/ (child = i /\ stage = "launching") \/ failure
<1>1. \A j \in Calls : j # i => calls[j].stage \in {"none", "queued", "ended"}
  BY TurnIs DEF OwnerInv
<1>2. child # 0 => child \in Calls
  BY DEF OwnerInv, OwnerTypes, Calls
<1>3. calls[i].stage = stage
  BY DEF Turn
<1>4. QED
  BY <1>1, <1>2, <1>3 DEF OwnerWaits

LEMMA TurnGoesForward ==
  ASSUME NEW i \in Calls, NEW stage, Turn(i, stage), OthersStay(i),
         StageRank(calls'[i].stage) > StageRank(stage)
  PROVE  CallsGoForward
  BY DEF Turn, OthersStay, CallsGoForward

LEMMA EndGoesForward ==
  ASSUME OwnerInv, NEW i \in Calls, NEW stage \in {"queued", "stopping", "port", "launching", "retracting"},
         Turn(i, stage), End(i), revision' = revision
  PROVE  OthersStay(i) /\ calls'[i].stage = "ended" /\ CallsGoForward
<1>1. OthersStay(i) /\ calls'[i].stage = "ended"
  BY EndIs DEF OwnerInv
<1>2. StageRank("ended") > StageRank(stage)
  BY DEF StageRank
<1>3. QED
  BY <1>1, <1>2, TurnGoesForward

LEMMA AwaitGoesForward ==
  ASSUME OwnerInv, NEW i \in Calls, NEW stage, NEW next, Turn(i, stage), Await(i, next), revision' = revision,
         \/ stage = "queued" /\ next = "stopping"
         \/ stage = "stopping" /\ next = "port"
         \/ stage = "port" /\ next = "launching"
         \/ stage = "launching" /\ next = "retracting"
  PROVE  OthersStay(i) /\ calls'[i].stage = next /\ CallsGoForward
<1>1. next \in CallStages \ {"none", "ended"}
  BY DEF CallStages
<1>2. OthersStay(i) /\ calls'[i].stage = next
  BY <1>1, AwaitIs DEF OwnerInv
<1>3. StageRank(next) > StageRank(stage)
  BY DEF StageRank
<1>4. QED
  BY <1>2, <1>3, TurnGoesForward

WaitsInv == ReplInv /\ ChildWaits /\ OwnerWaits

WaitsGoOn == ChildWaits' /\ OwnerWaits' /\ GoesForward

\* A child that is left alone, or begins to stop.
LEMMA ChildStopsOn ==
  ASSUME WaitsInv, StopChild \/ UNCHANGED ptyVars
  PROVE  ChildWaits' /\ ChildGoesForward /\ (stop # "no" => stop' # "no")
         /\ UNCHANGED hasExited /\ (StopChild => stop' # "no")
<1>1. UNCHANGED hasExited
  BY DEF StopChild, ptyVars, driverVars
<1>2. QED
  BY <1>1, StopGoesOn DEF WaitsInv, ReplInv, ChildGoesOn

LEMMA BeginGoesOn ==
  ASSUME WaitsInv, NEW i \in Calls, Begin(i)
  PROVE  WaitsGoOn
<1>0. /\ OwnerInv /\ OwnerWaits /\ Turn(i, "queued")
      /\ UNCHANGED <<revision, current, failure, closed, child, strays>>
  BY DEF WaitsInv, ReplInv, Begin
<1>1. /\ child' \in 0..MaxCalls
      /\ ~hasExited => child # 0 /\ (child = current \/ failure)
  BY <1>0, HeldStill DEF OwnerInv, OwnerTypes
<1>2. CASE End(i) /\ UNCHANGED ptyVars
  <2>1. OthersStay(i) /\ calls'[i].stage = "ended" /\ CallsGoForward
    BY <1>0, <1>2, EndGoesForward
  <2>2. ChildWaits' /\ ChildGoesForward /\ UNCHANGED hasExited
    BY <1>2, ChildStopsOn
  <2>3. OwnerWaits'
    BY <1>0, <1>1, <2>1, <2>2, TurnWaits
  <2>4. QED
    BY <2>1, <2>2, <2>3 DEF WaitsGoOn, GoesForward
<1>3. CASE StopCurrent /\ Await(i, "stopping")
  <2>1. OthersStay(i) /\ calls'[i].stage = "stopping" /\ CallsGoForward
    BY <1>0, <1>3, AwaitGoesForward
  <2>2. /\ StopChild \/ UNCHANGED ptyVars
        /\ current # 0 => StopChild
    BY <1>3 DEF StopCurrent
  <2>3. ChildWaits' /\ ChildGoesForward /\ UNCHANGED hasExited /\ (current # 0 => stop' # "no")
    BY <2>2, ChildStopsOn
  <2>4. OwnerWaits'
    BY <1>0, <1>1, <2>1, <2>3, TurnWaits
  <2>5. QED
    BY <2>1, <2>3, <2>4 DEF WaitsGoOn, GoesForward
<1>4. QED
  BY <1>2, <1>3 DEF Begin

LEMMA StopReturnsGoesOn ==
  ASSUME WaitsInv, NEW i \in Calls, StopReturns(i)
  PROVE  WaitsGoOn
<1>0. /\ OwnerInv /\ OwnerWaits /\ Turn(i, "stopping") /\ StopEnded
      /\ UNCHANGED <<ptyVars, revision, closed, child, strays>>
  BY DEF WaitsInv, ReplInv, StopReturns
<1>1. /\ child' \in 0..MaxCalls
      /\ ~hasExited => child # 0 /\ (child = current \/ failure)
  BY <1>0, HeldStill DEF OwnerInv, OwnerTypes
<1>2. ChildWaits' /\ ChildGoesForward /\ UNCHANGED hasExited
  BY <1>0, ChildStopsOn
<1>3. stop = "done" => hasExited
  BY DEF WaitsInv, ReplInv, ChildInv, Ending
<1>4. \/ current # 0 /\ stop = "failed" /\ failure' = TRUE /\ End(i) /\ UNCHANGED current
      \/ /\ ~(current # 0 /\ stop = "failed") /\ current' = 0 /\ failure' = failure
         /\ End(i) \/ Await(i, "port")
  BY DEF StopReturns
<1>5. /\ OthersStay(i) /\ calls'[i].stage \in {"ended", "port"} /\ CallsGoForward
  BY <1>0, <1>4, EndGoesForward, AwaitGoesForward
<1>6. ~hasExited' => child' # 0 /\ (child' = current' \/ failure')
  BY <1>0, <1>1, <1>2, <1>3, <1>4 DEF StopEnded
<1>7. OwnerWaits'
  BY <1>0, <1>1, <1>5, <1>6, TurnWaits
<1>8. QED
  BY <1>2, <1>5, <1>7 DEF WaitsGoOn, GoesForward

LEMMA PortGoesOn ==
  ASSUME WaitsInv, NEW i \in Calls, PortFound(i) \/ PortFails(i)
  PROVE  WaitsGoOn
<1>0. /\ OwnerInv /\ OwnerWaits /\ Turn(i, "port")
      /\ UNCHANGED <<revision, current, failure, closed>>
  BY DEF WaitsInv, ReplInv, PortFound, PortFails
<1>1. hasExited /\ current = 0 /\ child \in 0..MaxCalls /\ i \in 0..MaxCalls /\ i # 0
  BY <1>0, HeldNow, HeldStill DEF OwnerInv, OwnerTypes
<1>2. CASE End(i) /\ UNCHANGED <<ptyVars, child, strays>>
  <2>1. OthersStay(i) /\ calls'[i].stage = "ended" /\ CallsGoForward
    BY <1>0, <1>2, EndGoesForward
  <2>2. ChildWaits' /\ ChildGoesForward /\ hasExited'
    BY <1>1, <1>2, ChildStopsOn
  <2>3. OwnerWaits'
    BY <1>0, <1>1, <1>2, <2>1, <2>2, TurnWaits
  <2>4. QED
    BY <2>1, <2>2, <2>3 DEF WaitsGoOn, GoesForward
<1>3. CASE Spawn /\ child' = i /\ Await(i, "launching")
  <2>1. OthersStay(i) /\ calls'[i].stage = "launching" /\ CallsGoForward
    BY <1>0, <1>3, AwaitGoesForward
  <2>2. sendQueue = <<>> /\ QueueIs(sendQueue, sends)
    BY <1>1 DEF WaitsInv, ChildWaits
  <2>3. \A a \in Commands : sends[a] \notin Unanswered
    BY <2>2 DEF QueueIs
  <2>4. Replaced
    BY <1>1, <1>3, <2>3 DEF Replaced
  <2>5. ChildWaits'
    <3>1. sends' = [a \in Commands |-> "none"] /\ sendQueue' = <<>> /\ launch' = "waiting"
      BY <1>3 DEF Spawn
    <3>2. QED
      BY <3>1 DEF ChildWaits, QueueIs, Unanswered
  <2>6. OwnerWaits'
    BY <1>0, <1>1, <1>3, <2>1, TurnWaits
  <2>7. QED
    BY <2>1, <2>4, <2>5, <2>6 DEF WaitsGoOn, GoesForward
<1>4. QED
  BY <1>2, <1>3 DEF PortFound, PortFails

LEMMA LaunchGoesOn ==
  ASSUME WaitsInv, NEW i \in Calls, LaunchReturns(i) \/ LaunchRejected(i)
  PROVE  WaitsGoOn
<1>0. /\ OwnerInv /\ OwnerWaits /\ Turn(i, "launching")
      /\ UNCHANGED <<revision, closed, child, strays>>
  BY DEF WaitsInv, ReplInv, LaunchReturns, LaunchRejected
<1>1. child = i /\ child' \in 0..MaxCalls /\ i # 0
  BY <1>0, HeldNow
<1>2. CASE LaunchReturns(i)
  <2>1. /\ current' = i
        /\ \/ StopChild /\ Await(i, "retracting")
           \/ UNCHANGED ptyVars /\ End(i)
    BY <1>2 DEF LaunchReturns
  <2>2. ChildWaits' /\ ChildGoesForward /\ (StopChild => stop' # "no")
    BY <2>1, ChildStopsOn
  <2>3. /\ OthersStay(i) /\ CallsGoForward
        /\ calls'[i].stage = "ended" \/ (calls'[i].stage = "retracting" /\ StopChild)
    BY <1>0, <2>1, EndGoesForward, AwaitGoesForward
  <2>4. OwnerWaits'
    BY <1>0, <1>1, <2>1, <2>2, <2>3, TurnWaits
  <2>5. QED
    BY <2>2, <2>3, <2>4 DEF WaitsGoOn, GoesForward
<1>3. CASE LaunchRejected(i)
  <2>1. /\ launch = "failed" /\ failure' = (failure \/ stop = "failed") /\ End(i)
        /\ UNCHANGED <<ptyVars, current>>
    BY <1>3 DEF LaunchRejected
  <2>2. ChildWaits' /\ ChildGoesForward /\ UNCHANGED hasExited
    BY <2>1, ChildStopsOn
  <2>3. OthersStay(i) /\ CallsGoForward /\ calls'[i].stage = "ended"
    BY <1>0, <2>1, EndGoesForward
  <2>4. hasExited \/ stop = "failed"
    BY <2>1 DEF WaitsInv, ReplInv, ChildInv, Ending
  <2>5. hasExited' \/ failure'
    BY <2>1, <2>2, <2>4, Zenon
  <2>6. OwnerWaits'
    BY <1>0, <1>1, <2>3, <2>5, TurnWaits
  <2>7. QED
    BY <2>2, <2>3, <2>6 DEF WaitsGoOn, GoesForward
<1>4. QED
  BY <1>2, <1>3

LEMMA RetractGoesOn ==
  ASSUME WaitsInv, NEW i \in Calls, RetractReturns(i)
  PROVE  WaitsGoOn
<1>0. /\ OwnerInv /\ OwnerWaits /\ Turn(i, "retracting") /\ End(i)
      /\ \/ stop = "failed" /\ failure' = TRUE
         \/ stop = "done"
      /\ UNCHANGED <<ptyVars, revision, closed, child, strays>>
  BY DEF WaitsInv, ReplInv, RetractReturns
<1>1. ChildWaits' /\ ChildGoesForward /\ UNCHANGED hasExited
  BY <1>0, ChildStopsOn
<1>2. OthersStay(i) /\ CallsGoForward /\ calls'[i].stage = "ended"
  BY <1>0, EndGoesForward
<1>3. stop = "done" => hasExited
  BY DEF WaitsInv, ReplInv, ChildInv, Ending
<1>4. /\ child' \in 0..MaxCalls
      /\ ~hasExited => child # 0
  BY <1>0, HeldStill DEF OwnerInv, OwnerTypes
<1>5. OwnerWaits'
  BY <1>0, <1>1, <1>2, <1>3, <1>4, TurnWaits
<1>6. QED
  BY <1>1, <1>2, <1>5 DEF WaitsGoOn, GoesForward

LEMMA ComeGoesOn ==
  ASSUME WaitsInv, NEW i \in Calls, NEW kind, Come(i, kind)
  PROVE  WaitsGoOn
<1>0. OwnerTypes /\ InOrder /\ OwnerWaits /\ calls \in [Calls -> CallType]
  BY DEF WaitsInv, ReplInv, OwnerInv, OwnerTypes, CallType, CallStages
<1>1. StopChild \/ UNCHANGED ptyVars
  BY DEF Come, AbortPending
<1>2. ChildWaits' /\ ChildGoesForward /\ (stop # "no" => stop' # "no") /\ UNCHANGED hasExited
  BY <1>1, ChildStopsOn
<1>3. UNCHANGED <<current, failure, child>>
  BY DEF Come
<1>4. calls[i].stage = "none"
  BY <1>0 DEF Come, InOrder, OwnerTypes, Calls
<1>5. calls'[i].stage = "queued" /\ \A j \in Calls \ {i} : calls'[j].stage = calls[j].stage
  <2> DEFINE new == [NoCall EXCEPT !.kind = kind, !.stage = "queued", !.revision = revision + 1]
             queued == [calls EXCEPT ![i] = new]
  <2>1. new.stage = "queued"
    BY DEF NoCall
  <2>2. queued[i].stage = "queued" /\ \A j \in Calls \ {i} : queued[j].stage = calls[j].stage
    BY <1>0, <2>1
  <2>3. DOMAIN queued = Calls
    BY <1>0
  <2>4. calls' = IF pending = 0 THEN queued ELSE [queued EXCEPT ![pending].aborted = TRUE]
    BY DEF Come
  <2> HIDE DEF queued
  <2>5. \A j \in Calls : calls'[j].stage = queued[j].stage
    BY <2>3, <2>4
  <2>6. QED
    BY <2>2, <2>5
<1>6. CallsGoForward
  <2>1. StageRank("queued") > StageRank("none")
    BY DEF StageRank
  <2>2. QED
    BY <1>4, <1>5, <2>1 DEF CallsGoForward
<1>7. OwnerWaits'
  <2>1. child # 0 => child \in Calls
    BY <1>0 DEF OwnerTypes, Calls
  <2>2. ~hasExited' => child' # 0 /\ (child' = current' \/ calls'[child'].stage = "launching" \/ failure')
    BY <1>0, <1>2, <1>3, <1>4, <1>5, <2>1 DEF OwnerWaits
  <2>3. \A j \in Calls : (calls'[j].stage = "stopping" /\ current' # 0) \/ calls'[j].stage = "retracting"
                           => stop' # "no"
    BY <1>0, <1>2, <1>3, <1>5 DEF OwnerWaits
  <2>4. QED
    BY <2>2, <2>3 DEF OwnerWaits
<1>8. QED
  BY <1>2, <1>6, <1>7 DEF WaitsGoOn, GoesForward

LEMMA WaitsStep ==
  ASSUME WaitsInv, Next
  PROVE  WaitsGoOn
<1>1. CASE Client
  BY <1>1, ComeGoesOn DEF Client, Replace, Shutdown, Close
<1>2. CASE Owner
  BY <1>2, BeginGoesOn, StopReturnsGoesOn, PortGoesOn, LaunchGoesOn, RetractGoesOn DEF Owner
<1>3. CASE Tools \/ Child
  <2>1. /\ Driver \/ Lifetime \/ CommandLine \/ Interrupt \/ \E c \in Commands : Send(c)
        /\ UNCHANGED <<calls, current, child, failure>>
    BY <1>3 DEF Tools, Child, ownVars
  <2>2. ChildGoesOn
    BY <2>1, ChildDoesGoOn DEF WaitsInv, ReplInv
  <2>3. OwnerWaits'
    BY <2>1, <2>2 DEF WaitsInv, OwnerWaits, ChildGoesOn
  <2>4. CallsGoForward
    BY <2>1 DEF CallsGoForward
  <2>5. QED
    BY <2>2, <2>3, <2>4 DEF WaitsGoOn, GoesForward, ChildGoesOn
<1>4. QED
  BY <1>1, <1>2, <1>3 DEF Next

LEMMA WaitsStay ==
  ASSUME WaitsInv, UNCHANGED vars
  PROVE  ChildWaits' /\ OwnerWaits'
<1>1. /\ UNCHANGED <<launch, stop, sends, sendQueue, hasExited>>
      /\ UNCHANGED <<calls, current, child, failure>>
  BY DEF vars, ptyVars, driverVars, ownVars
<1>2. QED
  BY <1>1 DEF WaitsInv, ChildWaits, OwnerWaits, Stopping

LEMMA WaitsInitially ==
  ASSUME Init
  PROVE  ChildWaits /\ OwnerWaits
<1>1. /\ sends = [a \in Commands |-> "none"] /\ sendQueue = <<>> /\ launch = "failed" /\ hasExited
      /\ calls = [j \in Calls |-> NoCall] /\ NoCall.stage = "none"
  BY DEF Init, NoChild, NoCall
<1>2. QED
  BY <1>1 DEF ChildWaits, QueueIs, Unanswered, OwnerWaits

LEMMA WaitsMean ==
  ASSUME WaitsInv
  PROVE  NoCallIsForgotten
<1>1. ASSUME chain # <<>>
      PROVE  LET stage == calls[Head(chain)].stage IN
             /\ stage \in {"queued", "stopping", "port", "launching", "retracting"}
             /\ stage = "stopping" => StopEnded \/ Stopping
             /\ stage = "launching" => launch # "failing" \/ Stopping
             /\ stage = "retracting" => stop \in {"done", "failed"} \/ Stopping
  <2>1. PICK i \in Calls : i = Head(chain)
    BY <1>1, TailIs DEF WaitsInv, ReplInv, OwnerInv, OwnerTypes
  <2>2. i = Past + 1 /\ i <= revision
    <3>1. Turn(i, calls[i].stage)
      BY <1>1, <2>1 DEF Turn
    <3>2. QED
      BY <3>1, TurnIs DEF WaitsInv, ReplInv, OwnerInv
  <2>3. calls[i].stage \in {"queued", "stopping", "port", "launching", "retracting"}
    BY <2>2 DEF WaitsInv, ReplInv, OwnerInv, InOrder, OwnerTypes
  <2>4. stop \in {"no", "quitting", "killing", "done", "failed"}
    BY DEF WaitsInv, ReplInv, ChildInv, ChildTypes, DriverTypes
  <2>5. QED
    BY <2>1, <2>3, <2>4 DEF WaitsInv, ChildWaits, OwnerWaits, StopEnded, Stopping
<1>2. QED
  BY <1>1 DEF WaitsInv, ChildWaits, QueueIs, NoCallIsForgotten

-----------------------------------------------------------------------------
(* The theorems *)

\* The markers that are still to come, the lines that will print them and the calls that wait
\* for them agree, and the chain of calls says whose the child is.
THEOREM ReplInvariant == Spec => []ReplInv
<1>1. Init => ReplInv
  BY OwnerInitially DEF ReplInv
<1>2. ReplInv /\ [Next]_vars => ReplInv'
  BY ReplStep
<1>3. QED
  BY <1>1, <1>2, PTL DEF Spec

\* Markers correlate commands (pty-repl.ts:6) over timeouts, queued calls and typed-ahead
\* lines, unless a prompt that Ctrl-C has redrawn was taken for one of them.
THEOREM MarkersCorrelate == Spec => []OnlyCtrlCMisleads
<1>1. ReplInv => OnlyCtrlCMisleads
  BY DEF ReplInv, ChildInv, Marks, OnlyCtrlCMisleads
<1>2. QED
  BY <1>1, ReplInvariant, PTL

\* Even then the driver does not go on waiting for a prompt that is there: it never takes an
\* idle command line for a busy one.
THEOREM PromptsAreSeen == Spec => []PromptNotMissed
<1>1. ReplInv => PromptNotMissed
  BY DEF ReplInv, ChildInv, Counting, PromptNotMissed, AtPrompt
<1>2. QED
  BY <1>1, ReplInvariant, PTL

\* There is one command line at a time and it belongs to somebody, for any number of calls that
\* supersede, abort and close each other, and whatever the child does.
THEOREM CommandLineIsOwned == Spec => []OneOwned
<1>1. ASSUME ReplInv
      PROVE  OneOwned
  <2>0. OwnerTypes /\ InOrder /\ Owned
    BY <1>1 DEF ReplInv, OwnerInv
  <2>1. Running => child = current \/ calls[child].stage = "launching" \/ failure
    BY <2>0 DEF Owned
  <2>2. closed /\ chain = <<>> => failure \/ ~Running
    <3>1. ASSUME chain = <<>>, Running
          PROVE  calls[child].stage # "launching"
      <4>1. child \in Calls
        BY <2>0, <3>1 DEF Owned, OwnerTypes, Calls
      <4>2. Past = revision /\ revision \in Nat
        BY <2>0, <3>1 DEF Past, OwnerTypes
      <4>3. calls[child].stage \in {"none", "ended"}
        BY <2>0, <4>1, <4>2 DEF InOrder, Calls
      <4>4. QED
        BY <4>3
    <3>2. QED
      BY <2>0, <3>1 DEF Owned
  <2>3. ActiveIsLatest
    <3>1. SUFFICES ASSUME Active # 0
                   PROVE  /\ Active = child /\ launch = "live" /\ stop = "no"
                          /\ \A i \in Calls : i > Active => calls[i].kind = "none"
      BY DEF ActiveIsLatest
    <3>2. Active = current /\ ~changing /\ ~closed /\ ~failure
      BY <3>1 DEF Active
    <3>3. chain = <<>>
      BY <2>0, <3>2 DEF InOrder
    <3>4. current = child /\ launch = "live" /\ current = revision /\ stop = "no"
      BY <2>0, <3>1, <3>2, <3>3 DEF Owned
    <3>5. QED
      BY <2>0, <3>2, <3>4 DEF InOrder
  <2>4. QED
    BY <2>0, <2>1, <2>2, <2>3 DEF OneOwned, Owned
<1>2. QED
  BY <1>1, ReplInvariant, PTL

\* The safety core of CallsEnd: nobody who calls the command line's owner, or sends it a command,
\* is forgotten.  What a replacement or a shutdown awaits is there, or the timer of the launch, of
\* quit or of SIGTERM is running that ends the wait; a send that has not returned is in the
\* queue, once, and gets its timer.  Calls go through their stages one way, the stop and the launch
\* of a child are never taken back, a command is answered once, and a child is replaced only when
\* it has exited and everything sent to it has been answered (repl-owner.ts, pty-repl.ts).
THEOREM CallsComeToAnEnd == Spec => []NoCallIsForgotten /\ [][GoesForward]_vars
<1>1. Init => ChildWaits /\ OwnerWaits
  BY WaitsInitially
<1>2. ReplInv /\ ChildWaits /\ OwnerWaits /\ [Next]_vars =>
        ChildWaits' /\ OwnerWaits' /\ [GoesForward]_vars
  BY WaitsStep, WaitsStay DEF WaitsInv, WaitsGoOn
<1>3. ReplInv /\ ChildWaits /\ OwnerWaits => NoCallIsForgotten
  BY WaitsMean DEF WaitsInv
<1>4. QED
  BY <1>1, <1>2, <1>3, ReplInvariant, PTL DEF Spec
=============================================================================
