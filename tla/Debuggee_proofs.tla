--------------------------- MODULE Debuggee_proofs ---------------------------
(***************************************************************************)
(* AllStop and Debuggee, proved for any pages and workers, any limits, and *)
(* whatever threads, packets and commands do in between: what the session  *)
(* takes to be paused stands still in Firefox, a pause is let go only      *)
(* after it has been published, and no stop is waited for in vain.         *)
(***************************************************************************)
EXTENDS Debuggee, Targets_proofs

-----------------------------------------------------------------------------
(* The inductive invariant *)

Packets == [kind : {"available", "destroyed", "source", "paused", "resumed"}, actor : Actors]

ThreadTypes ==
  /\ wire \in Seq(Packets)
  /\ phase \in [Actors -> {"unborn", "loading", "live", "dying", "gone"}]
  /\ running \in [Actors -> BOOLEAN]
  /\ commands \in [Actors -> Seq(Commands)]

\* Where the resumes are among the commands of a thread.
Orders(a) == {n \in DOMAIN commands[a] : commands[a][n] = "resume"}

AtMostOne(S) == \A m, n \in S : m = n

\* The session takes the thread to run: it does, or its pause is on the wire.
Runs(a) ==
  /\ Orders(a) = {} /\ Sent("resumed", a) = {}
  /\ AtMostOne(Sent("paused", a)) /\ (running[a] <=> Sent("paused", a) = {})

\* The session takes it to be paused: nothing more is to come from it.
Stands(a) ==
  /\ Orders(a) = {} /\ Sent("resumed", a) = {} /\ Sent("paused", a) = {}
  /\ ~running[a]

\* The resume is with the thread.
Ordered(a) ==
  /\ Orders(a) # {} /\ AtMostOne(Orders(a))
  /\ Sent("resumed", a) = {} /\ Sent("paused", a) = {}
  /\ ~running[a]

\* The resume is done, and the session will hear of it before any further pause.
Resumed(a) ==
  /\ Orders(a) = {}
  /\ Sent("resumed", a) # {} /\ AtMostOne(Sent("resumed", a))
  /\ \A r \in Sent("resumed", a), p \in Sent("paused", a) : r < p
  /\ AtMostOne(Sent("paused", a)) /\ (running[a] <=> Sent("paused", a) = {})

LetGo(a) == Ordered(a) \/ Resumed(a)

Watched(i) ==
  /\ i.tid \in pausedTids => Stands(i.actor)
  /\ i.tid \in resumingTids => LetGo(i.actor)
  /\ i.tid \notin pausedTids \cup resumingTids => Runs(i.actor)
  /\ Sent("available", i.actor) = {} /\ phase[i.actor] \notin {"unborn", "loading"}

\* A target that the session does not know runs when it is announced, and is announced once.
ToCome(a) ==
  /\ phase[a] \in {"unborn", "loading"} =>
       running[a] /\ Orders(a) = {} /\ \A n \in DOMAIN wire : wire[n].actor # a
  /\ Sent("available", a) # {} => Runs(a) /\ AtMostOne(Sent("available", a))
  /\ \A n \in Sent("available", a), p \in Sent("paused", a) : n < p

Tids ==
  /\ pausedTids \cup resumingTids \subseteq TidsOf(threads)
  /\ pausedTids \cap resumingTids = {}
  /\ unwitnessed \subseteq pausedTids

Channels ==
  /\ \A i \in threads : Watched(i)
  /\ \A a \in Actors : ~Known(a) => ToCome(a)

Whole == SessionTypes /\ Sound /\ ThreadTypes /\ Tids /\ Channels

DebuggeeInv == closed \/ Whole

-----------------------------------------------------------------------------
(* The wire and the commands *)

LEMMA SentAre ==
  ASSUME ThreadTypes, NEW kind, NEW a
  PROVE  \A n \in Sent(kind, a) : n \in Nat /\ n >= 1 /\ n <= Len(wire)
<1> DEFINE Kinds == {"available", "destroyed", "source", "paused", "resumed"}
<1>1. wire \in Seq([kind : Kinds, actor : Actors])
  BY DEF ThreadTypes, Packets
<1> HIDE DEF Kinds
<1>2. QED
  BY <1>1, SentAreAt

LEMMA AppendIs ==
  ASSUME ThreadTypes, NEW kind, NEW a \in Actors, Emit(kind, a),
         kind \in {"available", "destroyed", "source", "paused", "resumed"}
  PROVE  /\ wire' \in Seq(Packets)
         /\ \A k, b : Sent(k, b)' = IF k = kind /\ b = a THEN Sent(k, b) \cup {Len(wire) + 1}
                                                         ELSE Sent(k, b)
         /\ \A k, b : \A n \in Sent(k, b) : n < Len(wire) + 1
         /\ Len(wire) + 1 \notin Sent("paused", a) /\ Len(wire) + 1 \notin Sent("resumed", a)
         /\ \A b : b # a /\ (\A n \in DOMAIN wire : wire[n].actor # b)
                     => \A n \in DOMAIN wire' : wire'[n].actor # b
<1> DEFINE Kinds == {"available", "destroyed", "source", "paused", "resumed"}
<1>1. wire \in Seq([kind : Kinds, actor : Actors]) /\ kind \in Kinds
  BY DEF ThreadTypes, Packets
<1> HIDE DEF Kinds
<1>2. wire' \in Seq([kind : Kinds, actor : Actors]) /\ Grows(kind, a)
  BY <1>1, WireGrows
<1>3. wire' \in Seq(Packets)
  BY <1>2 DEF Packets, Kinds
<1>4. \A k, b : \A n \in Sent(k, b) : n \in Nat /\ n < Len(wire) + 1
  BY <1>2, SentAre DEF Grows
<1>5. Len(wire) + 1 \notin Sent("paused", a) /\ Len(wire) + 1 \notin Sent("resumed", a)
  BY <1>4
<1>6. QED
  BY <1>2, <1>3, <1>5 DEF Grows

\* The oldest packet goes, and all others move up.
LEMMA TailIs ==
  ASSUME ThreadTypes, wire # <<>>, wire' = Tail(wire)
  PROVE  /\ wire' \in Seq(Packets) /\ Head(wire) \in Packets
         /\ \A k, b : \A n \in Nat : n >= 1 => (n \in Sent(k, b)' <=> n + 1 \in Sent(k, b))
         /\ \A k, b : \A n \in Sent(k, b)' : n \in Nat /\ n >= 1
         /\ \A k, b : 1 \in Sent(k, b) <=> Head(wire).kind = k /\ Head(wire).actor = b
         /\ \A b : (\A n \in DOMAIN wire : wire[n].actor # b)
                     => Head(wire).actor # b /\ \A n \in DOMAIN wire' : wire'[n].actor # b
<1> DEFINE Kinds == {"available", "destroyed", "source", "paused", "resumed"}
<1>1. wire \in Seq([kind : Kinds, actor : Actors])
  BY DEF ThreadTypes, Packets
<1> HIDE DEF Kinds
<1>2. /\ wire' \in Seq([kind : Kinds, actor : Actors]) /\ Head(wire) \in [kind : Kinds, actor : Actors]
      /\ \A k, b : MovedUp(Sent(k, b), Sent(k, b)')
      /\ \A k, b : 1 \in Sent(k, b) <=> Head(wire).kind = k /\ Head(wire).actor = b
      /\ \A b : (\A n \in DOMAIN wire : wire[n].actor # b)
                  => Head(wire).actor # b /\ \A n \in DOMAIN wire' : wire'[n].actor # b
  BY <1>1, WireMoves, Zenon
<1>3. wire' \in Seq(Packets) /\ Head(wire) \in Packets
  BY <1>2 DEF Packets, Kinds
<1>4. /\ \A k, b : \A n \in Nat : n >= 1 => (n \in Sent(k, b)' <=> n + 1 \in Sent(k, b))
      /\ \A k, b : \A n \in Sent(k, b)' : n \in Nat /\ n >= 1
  BY <1>2 DEF MovedUp
<1>5. QED
  BY <1>2, <1>3, <1>4

LEMMA OrdersAre ==
  ASSUME ThreadTypes, NEW a \in Actors
  PROVE  \A n \in Orders(a) : n \in Nat /\ n >= 1 /\ n <= Len(commands[a])
<1>1. commands[a] \in Seq(Commands)
  BY DEF ThreadTypes
<1>2. DOMAIN commands[a] = 1..Len(commands[a]) /\ Len(commands[a]) \in Nat
  BY <1>1
<1>3. QED
  BY <1>2 DEF Orders

LEMMA SendIs ==
  ASSUME ThreadTypes, NEW S, NEW command \in Commands, SendTo(S, command)
  PROVE  /\ commands' \in [Actors -> Seq(Commands)]
         /\ \A a \in Actors : Orders(a)' = IF a \in S /\ command = "resume"
                                           THEN Orders(a) \cup {Len(commands[a]) + 1} ELSE Orders(a)
<1>1. ASSUME NEW a \in Actors
      PROVE  /\ commands'[a] \in Seq(Commands)
             /\ Orders(a)' = IF a \in S /\ command = "resume"
                             THEN Orders(a) \cup {Len(commands[a]) + 1} ELSE Orders(a)
  <2>1. /\ commands[a] \in Seq(Commands)
        /\ commands'[a] = IF a \in S THEN Append(commands[a], command) ELSE commands[a]
    BY DEF ThreadTypes, SendTo
  <2>2. CASE a \notin S
    BY <2>1, <2>2 DEF Orders
  <2>3. CASE a \in S
    <3> DEFINE c == commands[a]
    <3>1. c \in Seq(Commands) /\ commands'[a] = Append(c, command)
      BY <2>1, <2>3
    <3> HIDE DEF c
    <3>2. /\ commands'[a] \in Seq(Commands) /\ Len(c) \in Nat
          /\ DOMAIN c = 1..Len(c) /\ DOMAIN commands'[a] = 1..(Len(c) + 1)
          /\ commands'[a][Len(c) + 1] = command /\ \A n \in 1..Len(c) : commands'[a][n] = c[n]
      BY <3>1
    <3>3. \A n \in 1..(Len(c) + 1) : n \in 1..Len(c) \/ n = Len(c) + 1
      BY <3>2
    <3>4. Orders(a)' = IF command = "resume" THEN Orders(a) \cup {Len(c) + 1} ELSE Orders(a)
      BY <3>2, <3>3 DEF Orders, c
    <3>5. QED
      BY <2>3, <3>2, <3>4 DEF c
  <2>4. QED
    BY <2>2, <2>3
<1>2. commands' \in [Actors -> Seq(Commands)]
  BY <1>1 DEF SendTo
<1>3. QED
  BY <1>1, <1>2

\* The oldest command of a thread goes.
LEMMA ExecIs ==
  ASSUME ThreadTypes, NEW a \in Actors, commands[a] # <<>>,
         commands' = [commands EXCEPT ![a] = Tail(@)]
  PROVE  /\ commands' \in [Actors -> Seq(Commands)] /\ Head(commands[a]) \in Commands
         /\ \A b \in Actors \ {a} : Orders(b)' = Orders(b)
         /\ \A n \in Nat : n >= 1 => (n \in Orders(a)' <=> n + 1 \in Orders(a))
         /\ \A n \in Orders(a)' : n \in Nat /\ n >= 1
         /\ 1 \in Orders(a) <=> Head(commands[a]) = "resume"
<1> DEFINE c == commands[a]
<1>1. c \in Seq(Commands) /\ c # <<>> /\ commands'[a] = Tail(c)
  BY DEF ThreadTypes
<1> HIDE DEF c
<1>2. /\ DOMAIN c = 1..Len(c) /\ Len(c) \in Nat /\ Len(c) >= 1 /\ Head(c) = c[1] /\ c[1] \in Commands
      /\ Tail(c) \in Seq(Commands)
      /\ DOMAIN Tail(c) = 1..(Len(c) - 1)
      /\ \A n \in 1..(Len(c) - 1) : Tail(c)[n] = c[n + 1]
  BY <1>1
<1>3. \A n \in Nat : n >= 1 => (n \in 1..(Len(c) - 1) <=> n + 1 \in 1..Len(c))
  BY <1>2
<1>4. \A n \in Nat : n >= 1 => (n \in Orders(a)' <=> n + 1 \in Orders(a))
  BY <1>1, <1>2, <1>3 DEF Orders, c
<1>5. \A n \in Orders(a)' : n \in Nat /\ n >= 1
  BY <1>1, <1>2 DEF Orders
<1>6. 1 \in Orders(a) <=> Head(commands[a]) = "resume"
  BY <1>2 DEF Orders, c
<1>7. \A b \in Actors \ {a} : Orders(b)' = Orders(b)
  BY DEF Orders, ThreadTypes
<1>8. commands' \in [Actors -> Seq(Commands)]
  BY <1>1, <1>2 DEF ThreadTypes, c
<1>9. QED
  BY <1>2, <1>4, <1>5, <1>6, <1>7, <1>8 DEF c

LEMMA MovedUpIs ==
  ASSUME NEW S, NEW T, MovedUp(S, T)
  PROVE  /\ 1 \notin S => (T = {} <=> S = {})
         /\ S = {} => T = {}
         /\ AtMostOne(S) => AtMostOne(T)
         /\ 1 \in S /\ AtMostOne(S) => T = {}
<1>1. ASSUME NEW n \in S, n # 1 PROVE n - 1 \in T
  BY <1>1 DEF MovedUp
<1>2. \A n \in T : n + 1 \in S /\ n + 1 # 1 /\ n \in Nat
  BY DEF MovedUp
<1>3. 1 \notin S => (T = {} <=> S = {})
  BY <1>1, <1>2
<1>4. AtMostOne(S) => AtMostOne(T)
  <2>1. ASSUME AtMostOne(S), NEW m \in T, NEW n \in T PROVE m = n
    <3>1. m + 1 = n + 1 /\ m \in Nat /\ n \in Nat
      BY <1>2, <2>1 DEF AtMostOne
    <3>2. QED
      BY <3>1
  <2>2. QED
    BY <2>1 DEF AtMostOne
<1>5. 1 \in S /\ AtMostOne(S) => T = {}
  BY <1>2 DEF AtMostOne
<1>6. QED
  BY <1>2, <1>3, <1>4, <1>5

LEMMA OrderMovesUp ==
  ASSUME NEW R, NEW S, NEW P, NEW Q, MovedUp(R, S), MovedUp(P, Q), \A r \in R, q \in P : r < q
  PROVE  \A r \in S, q \in Q : r < q
<1>1. ASSUME NEW r \in S, NEW q \in Q PROVE r < q
  <2>1. r \in Nat /\ q \in Nat /\ r + 1 \in R /\ q + 1 \in P
    BY DEF MovedUp
  <2>2. r + 1 < q + 1
    BY <2>1
  <2>3. QED
    BY <2>1, <2>2
<1>2. QED
  BY <1>1

LEMMA SentMoveUp ==
  ASSUME ThreadTypes, wire # <<>>, wire' = Tail(wire), NEW k, NEW a
  PROVE  MovedUp(Sent(k, a), Sent(k, a)')
<1>1. \A n \in Sent(k, a) : n \in Nat /\ n >= 1
  BY SentAre
<1>2. /\ \A n \in Sent(k, a)' : n \in Nat /\ n >= 1
      /\ \A n \in Nat : n >= 1 => (n \in Sent(k, a)' <=> n + 1 \in Sent(k, a))
  BY TailIs
<1>3. QED
  BY <1>1, <1>2 DEF MovedUp

\* What is to come from a thread is what was to come.
Unmoved(a) ==
  /\ Runs(a) => Runs(a)'
  /\ Stands(a) => Stands(a)'
  /\ LetGo(a) => LetGo(a)'
  /\ Sent("available", a) = {} => Sent("available", a)' = {}
  /\ ToCome(a) => ToCome(a)'
  /\ phase[a] \notin {"unborn", "loading"} => phase'[a] \notin {"unborn", "loading"}

\* A packet that is not a report of the thread does not change what is to come from it.
LEMMA NotMine ==
  ASSUME ThreadTypes, wire # <<>>, wire' = Tail(wire), NEW a \in Actors,
         Head(wire).actor # a \/ Head(wire).kind \notin {"paused", "resumed"},
         running' = running, Orders(a)' = Orders(a), phase' = phase
  PROVE  Unmoved(a)
<1>1. \A k : MovedUp(Sent(k, a), Sent(k, a)')
  BY SentMoveUp
<1>2. 1 \notin Sent("paused", a) /\ 1 \notin Sent("resumed", a)
  BY TailIs
<1>3. /\ Sent("paused", a)' = {} <=> Sent("paused", a) = {}
      /\ Sent("resumed", a)' = {} <=> Sent("resumed", a) = {}
      /\ \A k : AtMostOne(Sent(k, a)) => AtMostOne(Sent(k, a)')
      /\ \A k : Sent(k, a) = {} => Sent(k, a)' = {}
      /\ 1 \in Sent("available", a) /\ AtMostOne(Sent("available", a)) => Sent("available", a)' = {}
  BY <1>1, <1>2, MovedUpIs
<1>4. \A k : (\A r \in Sent(k, a), p \in Sent("paused", a) : r < p)
               => \A r \in Sent(k, a)', p \in Sent("paused", a)' : r < p
  BY <1>1, OrderMovesUp
<1>5. \A k : AtMostOne(Sent(k, a))' <=> AtMostOne(Sent(k, a)')
  BY DEF AtMostOne
<1>6. AtMostOne(Orders(a))' <=> AtMostOne(Orders(a))
  BY DEF AtMostOne
<1>7. Runs(a) => Runs(a)'
  BY <1>3, <1>5 DEF Runs
<1>8. Stands(a) => Stands(a)'
  BY <1>3 DEF Stands
<1>9. Ordered(a) => Ordered(a)'
  BY <1>3, <1>6 DEF Ordered
<1>10. Resumed(a) => Resumed(a)'
  BY <1>3, <1>4, <1>5 DEF Resumed
<1>11. ToCome(a) => ToCome(a)'
  <2>1. SUFFICES ASSUME ToCome(a) PROVE ToCome(a)'
    OBVIOUS
  <2>2. phase'[a] \in {"unborn", "loading"} =>
          running'[a] /\ Orders(a)' = {} /\ \A n \in DOMAIN wire' : wire'[n].actor # a
    BY <2>1, TailIs DEF ToCome
  <2>3. Sent("available", a)' # {} => Runs(a)' /\ AtMostOne(Sent("available", a)')
    BY <1>3, <1>7, <2>1 DEF ToCome
  <2>4. \A n \in Sent("available", a)', p \in Sent("paused", a)' : n < p
    BY <1>4, <2>1 DEF ToCome
  <2>5. QED
    BY <1>5, <2>2, <2>3, <2>4 DEF ToCome
<1>12. QED
  BY <1>3, <1>7, <1>8, <1>9, <1>10, <1>11 DEF LetGo, Unmoved

\* The same from the commands: neither the wire nor a resume is touched.
LEMMA NotResumed ==
  ASSUME ThreadTypes, NEW a \in Actors, UNCHANGED <<wire, running, phase>>, Orders(a)' = Orders(a)
  PROVE  Unmoved(a)
<1>1. \A k : Sent(k, a)' = Sent(k, a)
  BY DEF Sent
<1>2. /\ Runs(a)' <=> Runs(a)
      /\ Stands(a)' <=> Stands(a)
      /\ Ordered(a)' <=> Ordered(a)
      /\ Resumed(a)' <=> Resumed(a)
      /\ AtMostOne(Sent("available", a))' <=> AtMostOne(Sent("available", a))
  BY <1>1 DEF Runs, Stands, Ordered, Resumed, AtMostOne
<1>3. ToCome(a)' <=> ToCome(a)
  BY <1>1, <1>2 DEF ToCome
<1>4. QED
  BY <1>1, <1>2, <1>3 DEF Unmoved, LetGo

\* A command that only interrupts.
Interrupts == UNCHANGED commands \/ \E S : SendTo(S, "interrupt")

LEMMA InterruptsAre ==
  ASSUME ThreadTypes, Interrupts
  PROVE  /\ commands' \in [Actors -> Seq(Commands)]
         /\ \A a \in Actors : Orders(a)' = Orders(a)
<1>1. CASE UNCHANGED commands
  BY <1>1 DEF ThreadTypes, Orders
<1>2. ASSUME NEW S, SendTo(S, "interrupt")
      PROVE  /\ commands' \in [Actors -> Seq(Commands)]
             /\ \A a \in Actors : Orders(a)' = Orders(a)
  <2>1. "interrupt" \in Commands /\ "interrupt" # "resume"
    BY DEF Commands
  <2>2. QED
    BY <1>2, <2>1, SendIs
<1>3. QED
  BY <1>1, <1>2 DEF Interrupts

\* What a collector does to the threads is to interrupt them.
LEMMA CollectorInterrupts ==
  ASSUME NEW L, NEW P, NEW R, NEW a, Collect(L, P, R) \/ Begin(a, L, P, R) \/ NotCollecting
  PROVE  Interrupts
<1>1. CASE Collect(L, P, R)
  BY <1>1, Zenon DEF Collect, Interrupts
<1>2. CASE Begin(a, L, P, R)
  BY <1>2, Zenon DEF Begin, Interrupts
<1>3. CASE NotCollecting
  BY <1>3 DEF NotCollecting, Interrupts
<1>4. QED
  BY <1>1, <1>2, <1>3

-----------------------------------------------------------------------------
(* The invariant from what a step does to each thread *)

LEMMA WatchedStays ==
  ASSUME NEW i, NEW j, Watched(i), Unmoved(i.actor), j.actor = i.actor, j.tid = i.tid,
         i.tid \in pausedTids' <=> i.tid \in pausedTids,
         i.tid \in resumingTids' <=> i.tid \in resumingTids
  PROVE  Watched(j)'
  BY DEF Watched, Unmoved

\* The threads there are.
LEMMA ThreadsAre ==
  ASSUME Whole
  PROVE  /\ \A i, j \in threads : i.actor = j.actor => i = j
         /\ \A i, j \in threads : i.tid = j.tid => i = j
         /\ \A i \in threads : i.actor \in Actors /\ i.tid \in Nat
  BY DEF Whole, SessionTypes, ThreadInfo, Sound, Threads

LEMMA SessionStays ==
  ASSUME SessionTypes, Sound, UNCHANGED sessionVars
  PROVE  /\ SessionTypes' /\ Sound' /\ threads' = threads
         /\ TidsOf(threads)' = TidsOf(threads)
         /\ \A a : Known(a)' <=> Known(a)
<1>1. Tops' = Tops /\ ActorsOf(threads)' = ActorsOf(threads)
  BY DEF sessionVars, Tops, ActorsOf
<1>2. SessionTypes' /\ Sound'
  BY <1>1 DEF sessionVars, SessionTypes, Sound, Threads, Placed, Generations, Graves, Current,
     Reports
<1>3. QED
  BY <1>2 DEF sessionVars, TidsOf, Known

\* No thread comes or goes, and none changes its standing with the session.
LEMMA ChannelStep ==
  ASSUME Whole, UNCHANGED sessionVars, ThreadTypes', UNCHANGED <<pausedTids, resumingTids>>,
         unwitnessed' \subseteq pausedTids,
         \A a \in Actors : Unmoved(a) \/ (~Known(a) /\ ToCome(a)')
  PROVE  Whole'
<1>1. /\ SessionTypes' /\ Sound' /\ threads' = threads
      /\ TidsOf(threads)' = TidsOf(threads)
      /\ \A a : Known(a)' <=> Known(a)
  BY SessionStays DEF Whole
<1>2. Tids'
  BY <1>1 DEF Whole, Tids
<1>3. ASSUME NEW i \in threads' PROVE Watched(i)'
  <2>1. i \in threads /\ Watched(i) /\ i.actor \in Actors /\ Known(i.actor)
    BY <1>1 DEF Whole, Channels, SessionTypes, ThreadInfo, Known
  <2>2. Unmoved(i.actor)
    BY <2>1
  <2>3. QED
    BY <2>1, <2>2, WatchedStays
<1>4. ASSUME NEW a \in Actors, ~Known(a)' PROVE ToCome(a)'
  <2>1. ~Known(a)
    BY <1>1, <1>4
  <2>2. ToCome(a)
    BY <2>1 DEF Whole, Channels
  <2>3. QED
    BY <2>2 DEF Unmoved
<1>5. Channels'
  BY <1>3, <1>4 DEF Channels
<1>6. QED
  BY <1>1, <1>2, <1>5 DEF Whole

\* Steps that at most interrupt threads.
LEMMA NudgeStep ==
  ASSUME Whole, UNCHANGED vars, UNCHANGED <<pausedTids, resumingTids, running>>,
         unwitnessed' \subseteq pausedTids, Interrupts
  PROVE  Whole'
<1>1. /\ UNCHANGED sessionVars /\ UNCHANGED <<wire, phase>> /\ ThreadTypes
  BY DEF vars, firefoxVars, Whole
<1>2. /\ commands' \in [Actors -> Seq(Commands)]
      /\ \A a \in Actors : Orders(a)' = Orders(a)
  BY <1>1, InterruptsAre
<1>3. ThreadTypes'
  BY <1>1, <1>2 DEF ThreadTypes
<1>4. \A a \in Actors : Unmoved(a)
  BY <1>1, <1>2, NotResumed
<1>5. QED
  BY <1>1, <1>3, <1>4, ChannelStep

-----------------------------------------------------------------------------
(* Packets *)

\* Whom the session watches after a packet about targets: whom it watched, under the same TID,
\* and the target announced.
LEMMA DeliverMoves ==
  ASSUME SessionTypes, Sound, Deliver, Head(wire).actor \in Actors, ~closed'
  PROVE  \A j \in threads' :
           \/ \E i \in threads : i.actor = j.actor /\ i.tid = j.tid
           \/ ~Known(j.actor) /\ Head(wire).kind = "available" /\ Head(wire).actor = j.actor
<1> DEFINE a == Head(wire).actor
           kind == Head(wire).kind
<1>1. OnEvent(Head(wire)) /\ ~closed
  BY DEF Deliver
<1>2. CASE threads' \subseteq threads
  BY <1>2
<1>3. CASE kind = "available"
  <2>1. TargetAvailable(a)
    BY <1>1, <1>3 DEF OnEvent
  <2>2. CASE a \in retiredTargetActors \/ Known(a)
    BY <1>2, <2>1, <2>2 DEF TargetAvailable, IgnorePacket
  <2>3. CASE ~(a \in retiredTargetActors \/ Known(a)) /\ a \in TopActors
    <3> DEFINE old == IF Tops = {} THEN {} ELSE OfGeneration((CHOOSE i \in Tops : TRUE).gen)
               kept == threads \ old
               gen == nextGeneration
               tid == PageTid
               new == [tid |-> tid, actor |-> a, gen |-> gen, top |-> TRUE]
    <3>1. TopLevelAvailable(a)
      BY <2>1, <2>3 DEF TargetAvailable
    <3>2. threads' = {i \in Adopt(kept, gen) : i.tid # tid} \cup {new}
      BY <3>1 DEF TopLevelAvailable, CloseSession
    <3>3. new.actor = a /\ kept \subseteq threads
      OBVIOUS
    <3> HIDE DEF old, kept, gen, tid, new
    <3>4. ASSUME NEW j \in Adopt(kept, gen)
          PROVE  \E i \in threads : i.actor = j.actor /\ i.tid = j.tid
      <4>1. PICK i \in kept : j = [i EXCEPT !.gen = IF @ = 0 THEN gen ELSE @]
        BY DEF Adopt
      <4>2. i \in threads /\ i \in ThreadInfo
        BY <3>3 DEF SessionTypes
      <4>3. j.actor = i.actor /\ j.tid = i.tid
        BY <4>1, <4>2 DEF ThreadInfo
      <4>4. QED
        BY <4>2, <4>3
    <3>5. QED
      BY <1>3, <2>3, <3>2, <3>3, <3>4
  <2>4. CASE ~(a \in retiredTargetActors \/ Known(a)) /\ a \notin TopActors
    <3>1. WorkerAvailable(a)
      BY <2>1, <2>4 DEF TargetAvailable
    <3>2. threads' = threads \cup
                       {[tid |-> nextTid, actor |-> a, gen |-> activeGeneration, top |-> FALSE]}
      BY <3>1 DEF WorkerAvailable, CloseSession
    <3>3. QED
      BY <1>3, <2>4, <3>2
  <2>5. QED
    BY <2>2, <2>3, <2>4
<1>4. CASE kind = "destroyed"
  <2>1. TargetDestroyed(a)
    BY <1>1, <1>4 DEF OnEvent
  <2>2. threads' \subseteq threads
    BY <2>1 DEF TargetDestroyed, TopLevelDestroyed, OtherDestroyed, CloseSession
  <2>3. QED
    BY <1>2, <2>2
<1>5. CASE kind = "source"
  <2>1. SourceAvailable(a)
    BY <1>1, <1>5 DEF OnEvent
  <2>2. threads' = threads
    BY <2>1 DEF SourceAvailable, RememberSource, IgnorePacket
  <2>3. QED
    BY <1>2, <2>2
<1>6. QED
  BY <1>1, <1>3, <1>4, <1>5 DEF OnEvent

LEMMA TargetStep ==
  ASSUME Whole, DeliverTarget
  PROVE  closed' \/ Whole'
<1> SUFFICES ASSUME ~closed' PROVE Whole'
  OBVIOUS
<1>1. /\ Deliver /\ wire # <<>> /\ wire' = Tail(wire)
      /\ UNCHANGED <<phase, running>>
      /\ pausedTids' = pausedTids \ Leaving /\ resumingTids' = resumingTids \ Leaving
      /\ unwitnessed' = unwitnessed \ Leaving
  BY DEF DeliverTarget, Deliver
<1>2. SessionTypes /\ Sound /\ ThreadTypes /\ Tids /\ Channels
  BY DEF Whole
<1>3. Head(wire) \in Packets /\ wire' \in Seq(Packets)
  BY <1>1, <1>2, TailIs
<1>4. Head(wire).kind \in {"available", "destroyed", "source"}
  BY <1>1 DEF Deliver, OnEvent
<1>5. Head(wire) \in TargetPackets /\ Head(wire).actor \in Actors
  <2>1. PICK k \in {"available", "destroyed", "source", "paused", "resumed"}, a \in Actors :
          Head(wire) = [kind |-> k, actor |-> a]
    BY <1>3 DEF Packets
  <2>2. k \in {"available", "destroyed", "source"}
    BY <1>4, <2>1
  <2>3. QED
    BY <2>1, <2>2 DEF TargetPackets
<1>6. SessionTypes' /\ Sound'
  BY <1>1, <1>2, <1>5, DeliverStep DEF SessionOK
<1>7. \A j \in threads' :
        \/ \E i \in threads : i.actor = j.actor /\ i.tid = j.tid
        \/ ~Known(j.actor) /\ Head(wire).kind = "available" /\ Head(wire).actor = j.actor
  BY <1>1, <1>2, <1>5, DeliverMoves
<1>8. Interrupts
  <2>1. Collect(threads', pausedTids \ Leaving, resumingTids \ Leaving) \/ NotCollecting
    BY DEF DeliverTarget
  <2>2. CASE NotCollecting
    BY <2>2 DEF NotCollecting, Interrupts
  <2>3. CASE Collect(threads', pausedTids \ Leaving, resumingTids \ Leaving)
    BY <2>3, Zenon DEF Collect, Interrupts
  <2>4. QED
    BY <2>1, <2>2, <2>3
<1>9. /\ commands' \in [Actors -> Seq(Commands)]
      /\ \A a \in Actors : Orders(a)' = Orders(a)
  BY <1>2, <1>8, InterruptsAre
<1>10. ThreadTypes'
  BY <1>1, <1>2, <1>3, <1>9 DEF ThreadTypes
<1>11. \A a \in Actors : Unmoved(a)
  <2>1. Head(wire).kind \notin {"paused", "resumed"}
    BY <1>4
  <2>2. QED
    BY <1>1, <1>2, <1>9, <2>1, NotMine
<1>12. /\ \A i, j \in threads : i.tid = j.tid \/ i.actor = j.actor => i = j
       /\ \A i, j \in threads' : i.tid = j.tid \/ i.actor = j.actor => i = j
  BY <1>2, <1>6 DEF Sound, Threads
<1>13. \A i \in threads : i.tid \in Leaving <=> i.actor \notin ActorsOf(threads')
  BY <1>12 DEF Leaving, TidsOf
<1>14. ASSUME NEW t \in pausedTids' \cup resumingTids'
       PROVE  \E i \in threads : \E j \in threads' : i.tid = t /\ j.tid = t /\ i.actor = j.actor
  <2>1. t \in pausedTids \cup resumingTids /\ t \notin Leaving
    BY <1>1
  <2>2. PICK i \in threads : i.tid = t
    BY <1>2, <2>1 DEF Tids, TidsOf
  <2>3. PICK j \in threads' : j.actor = i.actor
    BY <1>13, <2>1, <2>2 DEF ActorsOf
  <2>4. Known(j.actor)
    BY <2>3 DEF Known
  <2>5. PICK k \in threads : k.actor = j.actor /\ k.tid = j.tid
    BY <1>7, <2>4
  <2>6. k = i
    BY <1>12, <2>3, <2>5
  <2>7. QED
    BY <2>2, <2>3, <2>5, <2>6
<1>15. Tids'
  <2>1. pausedTids' \cup resumingTids' \subseteq TidsOf(threads)'
    BY <1>14 DEF TidsOf
  <2>2. pausedTids' \cap resumingTids' = {} /\ unwitnessed' \subseteq pausedTids'
    BY <1>1, <1>2 DEF Tids
  <2>3. QED
    BY <2>1, <2>2 DEF Tids
<1>16. ASSUME NEW j \in threads' PROVE Watched(j)'
  <2>1. j.actor \in Actors
    BY <1>6 DEF SessionTypes, ThreadInfo
  <2>2. CASE \E i \in threads : i.actor = j.actor /\ i.tid = j.tid
    <3>1. PICK i \in threads : i.actor = j.actor /\ i.tid = j.tid
      BY <2>2
    <3>2. i.tid \notin Leaving
      BY <1>13, <3>1 DEF ActorsOf
    <3>3. Watched(i) /\ Unmoved(i.actor)
      BY <1>2, <1>11, <2>1, <3>1 DEF Channels
    <3>4. QED
      BY <1>1, <3>1, <3>2, <3>3, WatchedStays
  <2>3. CASE ~Known(j.actor) /\ Head(wire).kind = "available" /\ Head(wire).actor = j.actor
    <3>1. ToCome(j.actor) /\ 1 \in Sent("available", j.actor)
      BY <1>1, <1>2, <2>1, <2>3, TailIs DEF Channels
    <3>2. Runs(j.actor) /\ AtMostOne(Sent("available", j.actor))
      BY <3>1 DEF ToCome
    <3>3. phase[j.actor] \notin {"unborn", "loading"}
      <4>1. \E n \in DOMAIN wire : wire[n].actor = j.actor
        BY <3>1 DEF Sent
      <4>2. QED
        BY <3>1, <4>1 DEF ToCome
    <3>4. Runs(j.actor)' /\ phase'[j.actor] \notin {"unborn", "loading"}
      BY <1>11, <2>1, <3>2, <3>3 DEF Unmoved
    <3>5. Sent("available", j.actor)' = {}
      BY <1>1, <1>2, <3>1, <3>2, SentMoveUp, MovedUpIs
    <3>6. j.tid \notin pausedTids' \cup resumingTids'
      <4>1. SUFFICES ASSUME j.tid \in pausedTids' \cup resumingTids' PROVE FALSE
        OBVIOUS
      <4>2. PICK i \in threads : \E k \in threads' : k.tid = j.tid /\ i.actor = k.actor
        BY <1>14, <4>1
      <4>3. i.actor = j.actor
        BY <1>12, <4>2
      <4>4. QED
        BY <2>3, <4>3 DEF Known
    <3>7. QED
      BY <3>4, <3>5, <3>6 DEF Watched
  <2>4. QED
    BY <1>7, <2>2, <2>3
<1>17. ASSUME NEW a \in Actors, ~Known(a)' PROVE ToCome(a)'
  <2>1. CASE ~Known(a)
    BY <1>2, <1>11, <2>1 DEF Channels, Unmoved
  <2>2. CASE Known(a)
    <3>1. PICK i \in threads : i.actor = a
      BY <2>2 DEF Known
    <3>2. Watched(i)
      BY <1>2 DEF Channels
    <3>3. Sent("available", a)' = {} /\ phase'[a] \notin {"unborn", "loading"}
      BY <1>11, <3>1, <3>2 DEF Watched, Unmoved
    <3>4. QED
      BY <3>3 DEF ToCome
  <2>3. QED
    BY <2>1, <2>2
<1>18. QED
  BY <1>6, <1>10, <1>15, <1>16, <1>17 DEF Whole, Channels

\* A report about a thread that the session watches moves that thread alone.
LEMMA ReportStep ==
  ASSUME Whole, NEW kind \in {"paused", "resumed"}, NEW a \in Actors, Report(kind, a), Known(a),
         UNCHANGED running, Interrupts
  PROVE  /\ SessionTypes' /\ Sound' /\ ThreadTypes'
         /\ UNCHANGED <<sessionVars, threads>> /\ TidsOf(threads)' = TidsOf(threads)
         /\ \A b : Known(b)' <=> Known(b)
         /\ InfoOf(a) \in threads /\ InfoOf(a).actor = a
         /\ \A i \in threads : i.tid = InfoOf(a).tid \/ i.actor = a => i = InfoOf(a)
         /\ \A b \in Actors \ {a} : Unmoved(b)
         /\ Orders(a)' = Orders(a) /\ phase' = phase
         /\ 1 \in Sent(kind, a) /\ \A k : k # kind => 1 \notin Sent(k, a)
         /\ \A k : MovedUp(Sent(k, a), Sent(k, a)')
<1>1. /\ wire # <<>> /\ wire' = Tail(wire) /\ Head(wire).kind = kind /\ Head(wire).actor = a
      /\ UNCHANGED sessionVars /\ phase' = phase
  BY DEF Report
<1>2. SessionTypes /\ Sound /\ ThreadTypes
  BY DEF Whole
<1>3. /\ commands' \in [Actors -> Seq(Commands)]
      /\ \A b \in Actors : Orders(b)' = Orders(b)
  BY <1>2, InterruptsAre
<1>4. wire' \in Seq(Packets)
  BY <1>1, <1>2, TailIs
<1>5. ThreadTypes'
  BY <1>1, <1>2, <1>3, <1>4 DEF ThreadTypes
<1>6. /\ SessionTypes' /\ Sound' /\ threads' = threads
      /\ TidsOf(threads)' = TidsOf(threads)
      /\ \A b : Known(b)' <=> Known(b)
  BY <1>1, <1>2, SessionStays
<1>7. InfoOf(a) \in threads /\ InfoOf(a).actor = a
  BY <1>2, KnownIs
<1>8. \A i \in threads : i.tid = InfoOf(a).tid \/ i.actor = a => i = InfoOf(a)
  BY <1>2, <1>7 DEF Sound, Threads
<1>9. \A b \in Actors \ {a} : Unmoved(b)
  BY <1>1, <1>2, <1>3, NotMine
<1>10. 1 \in Sent(kind, a) /\ \A k : k # kind => 1 \notin Sent(k, a)
  BY <1>1, <1>2, TailIs
<1>11. \A k : MovedUp(Sent(k, a), Sent(k, a)')
  BY <1>1, <1>2, SentMoveUp
<1>12. QED
  BY <1>1, <1>3, <1>5, <1>6, <1>7, <1>8, <1>9, <1>10, <1>11

\* The session takes the pause of one thread out of, or into, its books.
LEMMA OneThread ==
  ASSUME Whole, SessionTypes', Sound', ThreadTypes', Tids', UNCHANGED threads,
         \A b : Known(b)' <=> Known(b),
         NEW me \in threads, \A i \in threads : i.tid = me.tid \/ i.actor = me.actor => i = me,
         \A t : t # me.tid => /\ t \in pausedTids' <=> t \in pausedTids
                              /\ t \in resumingTids' <=> t \in resumingTids,
         \A b \in Actors \ {me.actor} : Unmoved(b),
         Watched(me)'
  PROVE  Whole'
<1>1. ASSUME NEW i \in threads' PROVE Watched(i)'
  <2>1. CASE i = me
    BY <2>1
  <2>2. CASE i # me
    <3>1. i \in threads /\ i.tid # me.tid /\ i.actor # me.actor
      BY <2>2
    <3>2. Watched(i) /\ i.actor \in Actors
      BY <3>1 DEF Whole, Channels, SessionTypes, ThreadInfo
    <3>3. Unmoved(i.actor)
      BY <3>1, <3>2
    <3>4. QED
      BY <3>1, <3>2, <3>3, WatchedStays
  <2>3. QED
    BY <2>1, <2>2
<1>2. ASSUME NEW b \in Actors, ~Known(b)' PROVE ToCome(b)'
  <2>1. ~Known(b) /\ b # me.actor
    BY <1>2 DEF Known
  <2>2. ToCome(b) /\ Unmoved(b)
    BY <2>1 DEF Whole, Channels
  <2>3. QED
    BY <2>2 DEF Unmoved
<1>3. QED
  BY <1>1, <1>2 DEF Whole, Channels

LEMMA PausedStep ==
  ASSUME Whole, NEW a \in Actors, DeliverPaused(a)
  PROVE  Whole'
<1>0. PICK me : me = InfoOf(a)
  OBVIOUS
<1>1. /\ Report("paused", a) /\ Known(a) /\ UNCHANGED running
      /\ pausedTids' = pausedTids \cup {me.tid} /\ resumingTids' = resumingTids \ {me.tid}
      /\ unwitnessed' = Unreported(me.tid)
  BY <1>0 DEF DeliverPaused
<1>2. Interrupts
  <2>1. \/ Collect(threads, pausedTids \cup {me.tid}, resumingTids \ {me.tid})
        \/ Begin(a, threads, pausedTids \cup {me.tid}, resumingTids \ {me.tid})
        \/ NotCollecting
    BY <1>0 DEF DeliverPaused
  <2>2. QED
    BY <2>1, CollectorInterrupts
<1>3. /\ SessionTypes' /\ Sound' /\ ThreadTypes'
      /\ UNCHANGED <<sessionVars, threads>> /\ TidsOf(threads)' = TidsOf(threads)
      /\ \A b : Known(b)' <=> Known(b)
      /\ me \in threads /\ me.actor = a
      /\ \A i \in threads : i.tid = me.tid \/ i.actor = a => i = me
      /\ \A b \in Actors \ {a} : Unmoved(b)
      /\ Orders(a)' = Orders(a) /\ phase' = phase
      /\ 1 \in Sent("paused", a) /\ \A k : k # "paused" => 1 \notin Sent(k, a)
      /\ \A k : MovedUp(Sent(k, a), Sent(k, a)')
  <2>1. "paused" \in {"paused", "resumed"}
    OBVIOUS
  <2>2. QED
    BY <1>0, <1>1, <1>2, <2>1, ReportStep
<1>4. Watched(me) /\ me.tid \in TidsOf(threads)
  BY <1>3 DEF Whole, Channels, TidsOf
<1>5. Runs(a)
  <2>1. ~Stands(a)
    BY <1>3 DEF Stands
  <2>2. ~LetGo(a)
    <3>1. ~Ordered(a)
      BY <1>3 DEF Ordered
    <3>2. ~Resumed(a)
      <4>1. SUFFICES ASSUME Resumed(a) PROVE FALSE
        OBVIOUS
      <4>2. PICK r \in Sent("resumed", a) : r < 1
        BY <1>3, <4>1 DEF Resumed
      <4>3. r \in Nat /\ r >= 1
        BY SentAre DEF Whole
      <4>4. QED
        BY <4>2, <4>3
    <3>3. QED
      BY <3>1, <3>2 DEF LetGo
  <2>3. QED
    BY <1>3, <1>4, <2>1, <2>2 DEF Watched
<1>6. Stands(a)'
  <2>1. Sent("paused", a)' = {} /\ Sent("resumed", a)' = {}
    BY <1>3, <1>5, MovedUpIs DEF Runs
  <2>2. ~running'[a] /\ Orders(a)' = {}
    BY <1>1, <1>3, <1>5 DEF Runs
  <2>3. QED
    BY <2>1, <2>2 DEF Stands
<1>7. Sent("available", a)' = {} /\ phase'[a] \notin {"unborn", "loading"}
  BY <1>3, <1>4, MovedUpIs DEF Watched
<1>8. Watched(me)'
  BY <1>1, <1>3, <1>6, <1>7 DEF Watched
<1>9. Tids'
  BY <1>1, <1>3, <1>4 DEF Whole, Tids, Unreported
<1>10. QED
  BY <1>1, <1>3, <1>8, <1>9, OneThread

LEMMA ResumedStep ==
  ASSUME Whole, NEW a \in Actors, DeliverResumed(a)
  PROVE  Whole'
<1>0. PICK me : me = InfoOf(a)
  OBVIOUS
<1>1. /\ Report("resumed", a) /\ Known(a) /\ UNCHANGED running
      /\ pausedTids' = pausedTids \ {me.tid} /\ resumingTids' = resumingTids \ {me.tid}
      /\ unwitnessed' = unwitnessed \ {me.tid}
  BY <1>0 DEF DeliverResumed
<1>2. Interrupts
  <2>1. \/ Collect(threads, pausedTids \ {me.tid}, resumingTids \ {me.tid})
        \/ NotCollecting
    BY <1>0 DEF DeliverResumed
  <2>2. QED
    BY <2>1, CollectorInterrupts
<1>3. /\ SessionTypes' /\ Sound' /\ ThreadTypes'
      /\ UNCHANGED <<sessionVars, threads>> /\ TidsOf(threads)' = TidsOf(threads)
      /\ \A b : Known(b)' <=> Known(b)
      /\ me \in threads /\ me.actor = a
      /\ \A i \in threads : i.tid = me.tid \/ i.actor = a => i = me
      /\ \A b \in Actors \ {a} : Unmoved(b)
      /\ Orders(a)' = Orders(a) /\ phase' = phase
      /\ 1 \in Sent("resumed", a) /\ \A k : k # "resumed" => 1 \notin Sent(k, a)
      /\ \A k : MovedUp(Sent(k, a), Sent(k, a)')
  <2>1. "resumed" \in {"paused", "resumed"}
    OBVIOUS
  <2>2. QED
    BY <1>0, <1>1, <1>2, <2>1, ReportStep
<1>4. Watched(me) /\ me.tid \in TidsOf(threads)
  BY <1>3 DEF Whole, Channels, TidsOf
<1>5. Resumed(a)
  <2>1. ~Stands(a) /\ ~Runs(a) /\ ~Ordered(a)
    BY <1>3 DEF Stands, Runs, Ordered
  <2>2. QED
    BY <1>3, <1>4, <2>1 DEF Watched, LetGo
<1>6. Runs(a)'
  <2>1. Sent("resumed", a)' = {} /\ AtMostOne(Sent("paused", a)')
        /\ (Sent("paused", a)' = {} <=> Sent("paused", a) = {})
    BY <1>3, <1>5, MovedUpIs DEF Resumed
  <2>2. (running'[a] <=> Sent("paused", a) = {}) /\ Orders(a)' = {}
    BY <1>1, <1>3, <1>5 DEF Resumed
  <2>3. AtMostOne(Sent("paused", a))'
    BY <2>1 DEF AtMostOne
  <2>4. QED
    BY <2>1, <2>2, <2>3 DEF Runs
<1>7. Sent("available", a)' = {} /\ phase'[a] \notin {"unborn", "loading"}
  BY <1>3, <1>4, MovedUpIs DEF Watched
<1>8. Watched(me)'
  BY <1>1, <1>3, <1>6, <1>7 DEF Watched
<1>9. Tids'
  <2>1. me.tid \notin pausedTids
    BY <1>3, <1>4, <1>5 DEF Watched, Stands, Resumed
  <2>2. QED
    BY <1>1, <1>3, <1>4, <2>1 DEF Whole, Tids
<1>10. QED
  BY <1>1, <1>3, <1>8, <1>9, OneThread

LEMMA StrayStep ==
  ASSUME Whole, NEW a \in Actors, DeliverStray(a)
  PROVE  Whole'
<1>1. PICK kind \in {"paused", "resumed"} : Report(kind, a)
  BY DEF DeliverStray
<1>2. /\ ~Known(a) /\ UNCHANGED <<pausedTids, resumingTids, unwitnessed, running, commands>>
      /\ wire # <<>> /\ wire' = Tail(wire) /\ Head(wire).kind = kind /\ Head(wire).actor = a
      /\ UNCHANGED sessionVars /\ phase' = phase
  BY <1>1 DEF DeliverStray, Report, stopVars, threadVars
<1>3. SessionTypes /\ Sound /\ ThreadTypes /\ Tids /\ ToCome(a)
  BY <1>2 DEF Whole, Channels
<1>4. wire' \in Seq(Packets) /\ 1 \in Sent(kind, a)
  BY <1>2, <1>3, TailIs
<1>5. ThreadTypes'
  BY <1>2, <1>3, <1>4 DEF ThreadTypes
<1>6. \A b \in Actors : Orders(b)' = Orders(b)
  BY <1>2 DEF Orders
<1>7. \A b \in Actors \ {a} : Unmoved(b)
  BY <1>2, <1>3, <1>6, NotMine
<1>8. phase[a] \notin {"unborn", "loading"}
  <2>1. \E n \in DOMAIN wire : wire[n].actor = a
    BY <1>4 DEF Sent
  <2>2. QED
    BY <1>3, <2>1 DEF ToCome
<1>9. Sent("available", a) = {}
  <2>1. SUFFICES ASSUME NEW n \in Sent("available", a) PROVE FALSE
    OBVIOUS
  <2>2. Runs(a) /\ \A p \in Sent("paused", a) : n < p
    BY <1>3, <2>1 DEF ToCome
  <2>3. kind = "paused"
    BY <1>4, <2>2 DEF Runs
  <2>4. n < 1
    BY <1>4, <2>2, <2>3
  <2>5. n \in Nat /\ n >= 1
    BY <1>3, SentAre
  <2>6. QED
    BY <2>4, <2>5
<1>10. ToCome(a)'
  <2>1. MovedUp(Sent("available", a), Sent("available", a)')
    BY <1>2, <1>3, SentMoveUp
  <2>2. Sent("available", a)' = {}
    BY <1>9, <2>1, MovedUpIs
  <2>3. QED
    BY <1>2, <1>8, <2>2 DEF ToCome
<1>11. unwitnessed' \subseteq pausedTids
  BY <1>2, <1>3 DEF Tids
<1>12. QED
  BY <1>2, <1>5, <1>7, <1>10, <1>11, ChannelStep

-----------------------------------------------------------------------------
(* Firefox *)

\* A thread pauses, on its own account or when it is interrupted.
LEMMA ThreadPauses ==
  ASSUME ThreadTypes, NEW a \in Actors, running[a], running' = [running EXCEPT ![a] = FALSE],
         Emit("paused", a), phase' = phase, phase[a] \notin {"unborn", "loading"},
         Orders(a) = {} => Orders(a)' = {}, \A b \in Actors \ {a} : Orders(b)' = Orders(b)
  PROVE  \A b \in Actors : Unmoved(b)
<1>1. /\ \A k, b : Sent(k, b)' = IF k = "paused" /\ b = a THEN Sent(k, b) \cup {Len(wire) + 1}
                                                           ELSE Sent(k, b)
      /\ \A k, b : \A n \in Sent(k, b) : n < Len(wire) + 1
      /\ \A b : b # a /\ (\A n \in DOMAIN wire : wire[n].actor # b)
                  => \A n \in DOMAIN wire' : wire'[n].actor # b
  BY AppendIs
<1>2. \A b \in Actors : running'[b] = IF b = a THEN FALSE ELSE running[b]
  BY DEF ThreadTypes
<1>3. ASSUME NEW b \in Actors, b # a PROVE Unmoved(b)
  <2>1. Orders(b)' = Orders(b) /\ running'[b] = running[b] /\ \A k : Sent(k, b)' = Sent(k, b)
    BY <1>1, <1>2, <1>3
  <2>2. /\ Runs(b)' <=> Runs(b)
        /\ Stands(b)' <=> Stands(b)
        /\ Ordered(b)' <=> Ordered(b)
        /\ Resumed(b)' <=> Resumed(b)
        /\ AtMostOne(Sent("available", b))' <=> AtMostOne(Sent("available", b))
    BY <2>1 DEF Runs, Stands, Ordered, Resumed, AtMostOne
  <2>3. ToCome(b) => ToCome(b)'
    BY <1>1, <1>3, <2>1, <2>2 DEF ToCome
  <2>4. QED
    BY <2>1, <2>2, <2>3 DEF Unmoved, LetGo
<1>4. Unmoved(a)
  <2>1. /\ Sent("paused", a)' = Sent("paused", a) \cup {Len(wire) + 1} /\ ~running'[a]
        /\ Sent("resumed", a)' = Sent("resumed", a) /\ Sent("available", a)' = Sent("available", a)
    BY <1>1, <1>2
  <2>2. Runs(a) => Runs(a)'
    <3>1. SUFFICES ASSUME Runs(a) PROVE Runs(a)'
      OBVIOUS
    <3>2. Sent("paused", a)' = {Len(wire) + 1}
      BY <2>1, <3>1 DEF Runs
    <3>3. AtMostOne(Sent("paused", a))'
      BY <3>2 DEF AtMostOne
    <3>4. QED
      BY <2>1, <3>1, <3>2, <3>3 DEF Runs
  <2>3. ~Stands(a) /\ ~Ordered(a)
    BY DEF Stands, Ordered
  <2>4. Resumed(a) => Resumed(a)'
    <3>1. SUFFICES ASSUME Resumed(a) PROVE Resumed(a)'
      OBVIOUS
    <3>2. Sent("paused", a)' = {Len(wire) + 1}
      BY <2>1, <3>1 DEF Resumed
    <3>3. AtMostOne(Sent("paused", a))' /\ AtMostOne(Sent("resumed", a))'
      BY <2>1, <3>1, <3>2 DEF AtMostOne, Resumed
    <3>4. \A r \in Sent("resumed", a)', p \in Sent("paused", a)' : r < p
      BY <1>1, <2>1, <3>2
    <3>5. QED
      BY <2>1, <3>1, <3>2, <3>3, <3>4 DEF Resumed
  <2>5. ToCome(a) => ToCome(a)'
    <3>1. SUFFICES ASSUME ToCome(a) PROVE ToCome(a)'
      OBVIOUS
    <3>2. AtMostOne(Sent("available", a))' <=> AtMostOne(Sent("available", a))
      BY <2>1 DEF AtMostOne
    <3>3. \A n \in Sent("available", a)', p \in Sent("paused", a)' : n < p
      BY <1>1, <2>1, <3>1 DEF ToCome
    <3>4. QED
      BY <2>1, <2>2, <3>1, <3>2, <3>3 DEF ToCome
  <2>6. QED
    BY <2>1, <2>2, <2>3, <2>4, <2>5 DEF Unmoved, LetGo
<1>5. QED
  BY <1>3, <1>4

LEMMA PausesStep ==
  ASSUME Whole, NEW a \in Actors, FirefoxPauses(a)
  PROVE  Whole'
<1>1. /\ running[a] /\ running' = [running EXCEPT ![a] = FALSE] /\ Emit("paused", a)
      /\ phase' = phase /\ phase[a] \notin {"unborn", "loading"} /\ UNCHANGED sessionVars
      /\ UNCHANGED <<pausedTids, resumingTids, unwitnessed, commands>>
  BY DEF FirefoxPauses, Alive, stopVars
<1>2. ThreadTypes /\ Tids
  BY DEF Whole
<1>3. \A b \in Actors : Orders(b)' = Orders(b)
  BY <1>1 DEF Orders
<1>4. wire' \in Seq(Packets)
  BY <1>1, <1>2, AppendIs
<1>5. ThreadTypes'
  BY <1>1, <1>2, <1>4 DEF ThreadTypes
<1>6. \A b \in Actors : Unmoved(b)
  BY <1>1, <1>2, <1>3, ThreadPauses
<1>7. unwitnessed' \subseteq pausedTids
  BY <1>1, <1>2 DEF Tids
<1>8. QED
  BY <1>1, <1>5, <1>6, <1>7, ChannelStep

\* A thread carries out the resume it was told, and says so.
LEMMA ThreadResumes ==
  ASSUME ThreadTypes, NEW a \in Actors, ~running[a], running' = [running EXCEPT ![a] = TRUE],
         Emit("resumed", a), phase' = phase, phase[a] \notin {"unborn", "loading"},
         Orders(a) # {}, AtMostOne(Orders(a)) => Orders(a)' = {},
         \A b \in Actors \ {a} : Orders(b)' = Orders(b)
  PROVE  \A b \in Actors : Unmoved(b)
<1>1. /\ \A k, b : Sent(k, b)' = IF k = "resumed" /\ b = a THEN Sent(k, b) \cup {Len(wire) + 1}
                                                            ELSE Sent(k, b)
      /\ \A b : b # a /\ (\A n \in DOMAIN wire : wire[n].actor # b)
                  => \A n \in DOMAIN wire' : wire'[n].actor # b
  BY AppendIs
<1>2. \A b \in Actors : running'[b] = IF b = a THEN TRUE ELSE running[b]
  BY DEF ThreadTypes
<1>3. ASSUME NEW b \in Actors, b # a PROVE Unmoved(b)
  <2>1. Orders(b)' = Orders(b) /\ running'[b] = running[b] /\ \A k : Sent(k, b)' = Sent(k, b)
    BY <1>1, <1>2, <1>3
  <2>2. /\ Runs(b)' <=> Runs(b)
        /\ Stands(b)' <=> Stands(b)
        /\ Ordered(b)' <=> Ordered(b)
        /\ Resumed(b)' <=> Resumed(b)
        /\ AtMostOne(Sent("available", b))' <=> AtMostOne(Sent("available", b))
    BY <2>1 DEF Runs, Stands, Ordered, Resumed, AtMostOne
  <2>3. ToCome(b) => ToCome(b)'
    BY <1>1, <1>3, <2>1, <2>2 DEF ToCome
  <2>4. QED
    BY <2>1, <2>2, <2>3 DEF Unmoved, LetGo
<1>4. Unmoved(a)
  <2>1. /\ Sent("resumed", a)' = Sent("resumed", a) \cup {Len(wire) + 1} /\ running'[a]
        /\ Sent("paused", a)' = Sent("paused", a) /\ Sent("available", a)' = Sent("available", a)
    BY <1>1, <1>2
  <2>2. ~Runs(a) /\ ~Stands(a) /\ ~Resumed(a)
    BY DEF Runs, Stands, Resumed
  <2>3. Ordered(a) => Resumed(a)'
    <3>1. SUFFICES ASSUME Ordered(a) PROVE Resumed(a)'
      OBVIOUS
    <3>2. Sent("resumed", a)' = {Len(wire) + 1} /\ Sent("paused", a)' = {} /\ Orders(a)' = {}
      BY <2>1, <3>1 DEF Ordered
    <3>3. AtMostOne(Sent("resumed", a))' /\ AtMostOne(Sent("paused", a))'
      BY <3>2 DEF AtMostOne
    <3>4. QED
      BY <2>1, <3>2, <3>3 DEF Resumed
  <2>4. ToCome(a) => ToCome(a)'
    BY <2>1, <2>2 DEF ToCome
  <2>5. QED
    BY <2>1, <2>2, <2>3, <2>4 DEF Unmoved, LetGo
<1>5. QED
  BY <1>3, <1>4

\* A command that does not fit the thread's state.
LEMMA ThreadRefuses ==
  ASSUME ThreadTypes, NEW a \in Actors, UNCHANGED <<wire, running, phase>>,
         \A b \in Actors \ {a} : Orders(b)' = Orders(b),
         phase[a] \notin {"unborn", "loading"},
         \/ Orders(a) # {} /\ running[a]
         \/ (Orders(a)' = {} <=> Orders(a) = {}) /\ (AtMostOne(Orders(a)) => AtMostOne(Orders(a)'))
  PROVE  \A b \in Actors : Unmoved(b)
<1>1. \A k, b : Sent(k, b)' = Sent(k, b)
  BY DEF Sent
<1>2. \A b \in Actors \ {a} : Unmoved(b)
  BY NotResumed
<1>3. CASE Orders(a) # {} /\ running[a]
  <2>1. ~Runs(a) /\ ~Stands(a) /\ ~Ordered(a) /\ ~Resumed(a)
    BY <1>3 DEF Runs, Stands, Ordered, Resumed
  <2>2. ToCome(a) => ToCome(a)'
    BY <1>1, <2>1 DEF ToCome
  <2>3. Unmoved(a)
    BY <1>1, <2>1, <2>2 DEF Unmoved, LetGo
  <2>4. QED
    BY <1>2, <2>3
<1>4. CASE (Orders(a)' = {} <=> Orders(a) = {}) /\ (AtMostOne(Orders(a)) => AtMostOne(Orders(a)'))
  <2>1. AtMostOne(Orders(a)) => AtMostOne(Orders(a))'
    BY <1>4 DEF AtMostOne
  <2>2. /\ \A k : AtMostOne(Sent(k, a))' <=> AtMostOne(Sent(k, a))
    BY <1>1 DEF AtMostOne
  <2>3. /\ Runs(a) => Runs(a)'
        /\ Stands(a) => Stands(a)'
        /\ Ordered(a) => Ordered(a)'
        /\ Resumed(a) => Resumed(a)'
    BY <1>1, <1>4, <2>1, <2>2 DEF Runs, Stands, Ordered, Resumed
  <2>4. ToCome(a) => ToCome(a)'
    BY <1>1, <2>2, <2>3 DEF ToCome
  <2>5. Unmoved(a)
    BY <1>1, <2>3, <2>4 DEF Unmoved, LetGo
  <2>6. QED
    BY <1>2, <2>5
<1>5. QED
  BY <1>3, <1>4

LEMMA ExecutesStep ==
  ASSUME Whole, NEW a \in Actors, FirefoxExecutes(a)
  PROVE  Whole'
<1>1. /\ commands[a] # <<>> /\ commands' = [commands EXCEPT ![a] = Tail(@)]
      /\ phase' = phase /\ phase[a] \notin {"unborn", "loading"} /\ UNCHANGED sessionVars
      /\ UNCHANGED <<pausedTids, resumingTids, unwitnessed>>
  BY DEF FirefoxExecutes, Alive, stopVars
<1>2. ThreadTypes /\ Tids
  BY DEF Whole
<1>3. /\ commands' \in [Actors -> Seq(Commands)] /\ Head(commands[a]) \in Commands
      /\ \A b \in Actors \ {a} : Orders(b)' = Orders(b)
      /\ \A n \in Nat : n >= 1 => (n \in Orders(a)' <=> n + 1 \in Orders(a))
      /\ \A n \in Orders(a)' : n \in Nat /\ n >= 1
      /\ 1 \in Orders(a) <=> Head(commands[a]) = "resume"
  BY <1>1, <1>2, ExecIs
<1>4. MovedUp(Orders(a), Orders(a)')
  <2>1. \A n \in Orders(a) : n \in Nat /\ n >= 1
    BY <1>2, OrdersAre
  <2>2. QED
    BY <1>3, <2>1 DEF MovedUp
<1>5. unwitnessed' \subseteq pausedTids
  BY <1>1, <1>2 DEF Tids
<1>6. CASE Head(commands[a]) = "resume" /\ ~running[a]
  <2>1. running' = [running EXCEPT ![a] = TRUE] /\ Emit("resumed", a)
    BY <1>6 DEF FirefoxExecutes
  <2>2. wire' \in Seq(Packets)
    BY <1>2, <2>1, AppendIs
  <2>3. ThreadTypes'
    BY <1>1, <1>2, <1>3, <2>1, <2>2 DEF ThreadTypes
  <2>4. Orders(a) # {} /\ (AtMostOne(Orders(a)) => Orders(a)' = {})
    BY <1>3, <1>4, <1>6, MovedUpIs
  <2>5. \A b \in Actors : Unmoved(b)
    BY <1>1, <1>2, <1>3, <1>6, <2>1, <2>4, ThreadResumes
  <2>6. QED
    BY <1>1, <1>5, <2>3, <2>5, ChannelStep
<1>7. CASE Head(commands[a]) = "interrupt" /\ running[a]
  <2>1. running' = [running EXCEPT ![a] = FALSE] /\ Emit("paused", a)
    BY <1>7 DEF FirefoxExecutes
  <2>2. wire' \in Seq(Packets)
    BY <1>2, <2>1, AppendIs
  <2>3. ThreadTypes'
    BY <1>1, <1>2, <1>3, <2>1, <2>2 DEF ThreadTypes
  <2>4. Orders(a) = {} => Orders(a)' = {}
    BY <1>4, MovedUpIs
  <2>5. \A b \in Actors : Unmoved(b)
    BY <1>1, <1>2, <1>3, <1>7, <2>1, <2>4, ThreadPauses
  <2>6. QED
    BY <1>1, <1>5, <2>3, <2>5, ChannelStep
<1>8. CASE (Head(commands[a]) = "resume") <=> running[a]
  <2>1. UNCHANGED <<running, wire>>
    BY <1>8 DEF FirefoxExecutes
  <2>2. ThreadTypes'
    BY <1>1, <1>2, <1>3, <2>1 DEF ThreadTypes
  <2>3. \/ Orders(a) # {} /\ running[a]
        \/ (Orders(a)' = {} <=> Orders(a) = {}) /\ (AtMostOne(Orders(a)) => AtMostOne(Orders(a)'))
    BY <1>3, <1>4, <1>8, MovedUpIs
  <2>4. \A b \in Actors : Unmoved(b)
    BY <1>1, <1>2, <1>3, <2>1, <2>3, ThreadRefuses
  <2>5. QED
    BY <1>1, <1>5, <2>2, <2>4, ChannelStep
<1>9. Head(commands[a]) = "resume" \/ Head(commands[a]) = "interrupt"
  BY <1>3 DEF Commands
<1>10. QED
  BY <1>6, <1>7, <1>8, <1>9

\* Targets that go, or are destroyed, as the session sees it: a packet more.
LEMMA GoesStep ==
  ASSUME Whole, NEW a \in Actors, NEW kind \in {"destroyed", "source"}, Emit(kind, a),
         phase' \in [Actors -> {"unborn", "loading", "live", "dying", "gone"}],
         \A b \in Actors : phase'[b] \in {"unborn", "loading"} => b # a /\ phase'[b] = phase[b],
         UNCHANGED <<pausedTids, resumingTids, unwitnessed, running, commands>>,
         UNCHANGED sessionVars
  PROVE  Whole'
<1>1. ThreadTypes /\ Tids
  BY DEF Whole
<1>2. /\ wire' \in Seq(Packets)
      /\ \A k, b : k # kind => Sent(k, b)' = Sent(k, b)
      /\ \A b : b # a /\ (\A n \in DOMAIN wire : wire[n].actor # b)
                  => \A n \in DOMAIN wire' : wire'[n].actor # b
  BY <1>1, AppendIs
<1>3. ThreadTypes'
  BY <1>1, <1>2 DEF ThreadTypes
<1>4. ASSUME NEW b \in Actors PROVE Unmoved(b)
  <2>1. /\ Orders(b)' = Orders(b) /\ running'[b] = running[b]
        /\ Sent("paused", b)' = Sent("paused", b) /\ Sent("resumed", b)' = Sent("resumed", b)
        /\ Sent("available", b)' = Sent("available", b)
    BY <1>2 DEF Orders
  <2>2. /\ Runs(b)' <=> Runs(b)
        /\ Stands(b)' <=> Stands(b)
        /\ Ordered(b)' <=> Ordered(b)
        /\ Resumed(b)' <=> Resumed(b)
        /\ AtMostOne(Sent("available", b))' <=> AtMostOne(Sent("available", b))
    BY <2>1 DEF Runs, Stands, Ordered, Resumed, AtMostOne
  <2>3. ToCome(b) => ToCome(b)'
    BY <1>2, <2>1, <2>2 DEF ToCome
  <2>4. QED
    BY <2>1, <2>2, <2>3 DEF Unmoved, LetGo
<1>5. unwitnessed' \subseteq pausedTids
  BY <1>1 DEF Tids
<1>6. QED
  BY <1>3, <1>4, <1>5, ChannelStep

\* A target is announced that was not there before.
LEMMA ComesStep ==
  ASSUME Whole, NEW a \in Actors, Emit("available", a), phase[a] \in {"unborn", "loading"},
         phase' \in [Actors -> {"unborn", "loading", "live", "dying", "gone"}],
         \A b \in Actors : phase'[b] \in {"unborn", "loading"} => b # a /\ phase'[b] = phase[b],
         UNCHANGED <<pausedTids, resumingTids, unwitnessed, running, commands>>,
         UNCHANGED sessionVars
  PROVE  Whole'
<1>1. ThreadTypes /\ Tids
  BY DEF Whole
<1>2. /\ wire' \in Seq(Packets)
      /\ \A k, b : Sent(k, b)' = IF k = "available" /\ b = a THEN Sent(k, b) \cup {Len(wire) + 1}
                                                             ELSE Sent(k, b)
      /\ \A b : b # a /\ (\A n \in DOMAIN wire : wire[n].actor # b)
                  => \A n \in DOMAIN wire' : wire'[n].actor # b
  BY <1>1, AppendIs
<1>3. ThreadTypes'
  BY <1>1, <1>2 DEF ThreadTypes
<1>4. ASSUME NEW b \in Actors, b # a PROVE Unmoved(b)
  <2>1. /\ Orders(b)' = Orders(b) /\ running'[b] = running[b]
        /\ \A k : Sent(k, b)' = Sent(k, b)
    BY <1>2, <1>4 DEF Orders
  <2>2. /\ Runs(b)' <=> Runs(b)
        /\ Stands(b)' <=> Stands(b)
        /\ Ordered(b)' <=> Ordered(b)
        /\ Resumed(b)' <=> Resumed(b)
        /\ AtMostOne(Sent("available", b))' <=> AtMostOne(Sent("available", b))
    BY <2>1 DEF Runs, Stands, Ordered, Resumed, AtMostOne
  <2>3. ToCome(b) => ToCome(b)'
    BY <1>2, <1>4, <2>1, <2>2 DEF ToCome
  <2>4. QED
    BY <2>1, <2>2, <2>3 DEF Unmoved, LetGo
<1>5. ~Known(a) /\ ToCome(a)
  BY DEF Whole, Channels, Watched, Known
<1>6. ToCome(a)'
  <2>1. running[a] /\ Orders(a) = {} /\ \A n \in DOMAIN wire : wire[n].actor # a
    BY <1>5 DEF ToCome
  <2>2. \A k : Sent(k, a) = {}
    BY <2>1 DEF Sent
  <2>3. /\ Sent("paused", a)' = {} /\ Sent("resumed", a)' = {}
        /\ Sent("available", a)' = {Len(wire) + 1}
        /\ Orders(a)' = {} /\ running'[a]
    BY <1>2, <2>1, <2>2 DEF Orders
  <2>4. AtMostOne(Sent("available", a))' /\ AtMostOne(Sent("paused", a))'
    BY <2>3 DEF AtMostOne
  <2>5. Runs(a)'
    BY <2>3, <2>4 DEF Runs
  <2>6. QED
    BY <2>3, <2>4, <2>5 DEF ToCome
<1>7. unwitnessed' \subseteq pausedTids
  BY <1>1 DEF Tids
<1>8. QED
  BY <1>3, <1>4, <1>5, <1>6, <1>7, ChannelStep

LEMMA DyingIs ==
  ASSUME ThreadTypes, NEW t \in TopActors, NEW fate \in {"dying", "gone"}
  PROVE  /\ Dying(t, fate) \in [Actors -> {"unborn", "loading", "live", "dying", "gone"}]
         /\ \A b \in Actors : Dying(t, fate)[b] \in {"unborn", "loading"}
                                => b # t /\ Dying(t, fate)[b] = phase[b]
  BY DEF Dying, ThreadTypes

LEMMA FirefoxTargetsStep ==
  ASSUME Whole, FirefoxTargets
  PROVE  Whole'
<1> DEFINE Phases == {"unborn", "loading", "live", "dying", "gone"}
<1>1. /\ UNCHANGED <<pausedTids, resumingTids, unwitnessed, running, commands>>
      /\ ThreadTypes /\ Tids /\ unwitnessed' \subseteq pausedTids
  BY DEF FirefoxTargets, stopVars, threadVars, Whole, Tids
<1>2. TopActors \subseteq Actors /\ WorkerActors \subseteq Actors
  BY DEF Actors
<1>3. phase \in [Actors -> Phases]
  BY <1>1 DEF ThreadTypes
<1>4. ASSUME NEW t \in TopActors, FirefoxLoads(t) PROVE Whole'
  <2>1. /\ phase[t] = "unborn" /\ phase' = [phase EXCEPT ![t] = "loading"]
        /\ wire' = wire /\ UNCHANGED sessionVars
    BY <1>4 DEF FirefoxLoads
  <2>2. ThreadTypes'
    BY <1>1, <1>2, <1>3, <2>1 DEF ThreadTypes
  <2>3. ASSUME NEW b \in Actors PROVE Unmoved(b) \/ (~Known(b) /\ ToCome(b)')
    <3>1. Orders(b)' = Orders(b) /\ running'[b] = running[b] /\ \A k : Sent(k, b)' = Sent(k, b)
      BY <1>1, <2>1 DEF Orders, Sent
    <3>2. /\ Runs(b)' <=> Runs(b)
          /\ Stands(b)' <=> Stands(b)
          /\ Ordered(b)' <=> Ordered(b)
          /\ Resumed(b)' <=> Resumed(b)
          /\ AtMostOne(Sent("available", b))' <=> AtMostOne(Sent("available", b))
      BY <3>1 DEF Runs, Stands, Ordered, Resumed, AtMostOne
    <3>3. /\ phase'[b] \in {"unborn", "loading"} <=> phase[b] \in {"unborn", "loading"}
      BY <1>3, <2>1
    <3>4. ToCome(b) => ToCome(b)'
      BY <2>1, <3>1, <3>2, <3>3 DEF ToCome
    <3>5. QED
      BY <3>1, <3>2, <3>3, <3>4 DEF Unmoved, LetGo
  <2>4. QED
    BY <1>1, <2>1, <2>2, <2>3, ChannelStep
<1>5. ASSUME NEW t \in TopActors, FirefoxAnnouncesPage(t) PROVE Whole'
  <2>1. /\ phase[t] = "loading" /\ phase' = [phase EXCEPT ![t] = "live"]
        /\ Emit("available", t) /\ UNCHANGED sessionVars
    BY <1>5 DEF FirefoxAnnouncesPage
  <2>2. /\ phase' \in [Actors -> Phases]
        /\ \A b \in Actors : phase'[b] \in {"unborn", "loading"} => b # t /\ phase'[b] = phase[b]
    BY <1>2, <1>3, <2>1
  <2>3. QED
    BY <1>1, <1>2, <2>1, <2>2, ComesStep
<1>6. ASSUME NEW t \in TopActors, FirefoxDestroysPage(t) PROVE Whole'
  <2>1. phase' = Dying(t, "gone") /\ Emit("destroyed", t) /\ UNCHANGED sessionVars
    BY <1>6 DEF FirefoxDestroysPage
  <2>2. "gone" \in {"dying", "gone"}
    OBVIOUS
  <2>3. /\ phase' \in [Actors -> Phases]
        /\ \A b \in Actors : phase'[b] \in {"unborn", "loading"} => b # t /\ phase'[b] = phase[b]
    BY <1>1, <2>1, <2>2, DyingIs
  <2>4. QED
    BY <1>1, <1>2, <2>1, <2>3, GoesStep
<1>7. ASSUME NEW t \in TopActors, NEW u \in TopActors, FirefoxSwapsPage(t, u) PROVE Whole'
  <2>1. /\ phase[u] = "unborn" /\ phase' = [Dying(t, "dying") EXCEPT ![u] = "live"]
        /\ Emit("available", u) /\ UNCHANGED sessionVars
    BY <1>7 DEF FirefoxSwapsPage
  <2>2. "dying" \in {"dying", "gone"}
    OBVIOUS
  <2>3. /\ Dying(t, "dying") \in [Actors -> Phases]
        /\ \A b \in Actors : Dying(t, "dying")[b] \in {"unborn", "loading"}
                               => b # t /\ Dying(t, "dying")[b] = phase[b]
    BY <1>1, <2>2, DyingIs
  <2>4. /\ phase' \in [Actors -> Phases]
        /\ \A b \in Actors : phase'[b] \in {"unborn", "loading"} => b # u /\ phase'[b] = phase[b]
    BY <1>2, <2>1, <2>3
  <2>5. QED
    BY <1>1, <1>2, <2>1, <2>4, ComesStep
<1>8. ASSUME NEW w \in WorkerActors, FirefoxStartsWorker(w) PROVE Whole'
  <2>1. /\ phase[w] = "unborn" /\ phase' = [phase EXCEPT ![w] = "live"]
        /\ Emit("available", w) /\ UNCHANGED sessionVars
    BY <1>8 DEF FirefoxStartsWorker
  <2>2. /\ phase' \in [Actors -> Phases]
        /\ \A b \in Actors : phase'[b] \in {"unborn", "loading"} => b # w /\ phase'[b] = phase[b]
    BY <1>2, <1>3, <2>1
  <2>3. QED
    BY <1>1, <1>2, <2>1, <2>2, ComesStep
<1>9. ASSUME NEW a \in Actors, FirefoxDestroysLate(a) PROVE Whole'
  <2>1. phase' = [phase EXCEPT ![a] = "gone"] /\ Emit("destroyed", a) /\ UNCHANGED sessionVars
    BY <1>9 DEF FirefoxDestroysLate
  <2>2. /\ phase' \in [Actors -> Phases]
        /\ \A b \in Actors : phase'[b] \in {"unborn", "loading"} => b # a /\ phase'[b] = phase[b]
    BY <1>3, <2>1
  <2>3. QED
    BY <1>1, <2>1, <2>2, GoesStep
<1>10. QED
  BY <1>4, <1>5, <1>6, <1>7, <1>8, <1>9 DEF FirefoxTargets

\* A module is announced, or told of.
AboutModules == AllModules \/ ModuleCompiled

\* All that there is to threads, stops and the adapter stays as it is.
LEMMA ModulesKeep ==
  ASSUME AboutModules
  PROVE  /\ UNCHANGED <<threads, closed, dropped, phase>>
         /\ UNCHANGED stopVars /\ UNCHANGED <<running, commands, pauses, presses>>
         /\ UNCHANGED <<pausedTids, resumingTids, unwitnessed, witnessed, completedStop, stoppedTid>>
         /\ UNCHANGED <<operation, collecting, trigger, interrupted, ready, stops>>
         /\ UNCHANGED adapterVars /\ KeepPauses
         /\ wire' = wire \/ \E a \in Actors : Emit("source", a)
<1>1. UNCHANGED stopVars /\ UNCHANGED threadVars /\ UNCHANGED adapterVars /\ KeepPauses
  BY DEF AboutModules, AllModules, ModuleCompiled
<1>2. ASSUME AllModules
      PROVE  UNCHANGED <<threads, closed, dropped, phase, wire>>
  <2>1. PICK t \in ModulePages \ sourced : SourcesReply(t)
    BY <1>2 DEF AllModules
  <2>2. UNCHANGED <<threads, closed>> /\ UNCHANGED dropped /\ UNCHANGED firefoxVars
    BY <2>1 DEF SourcesReply, RememberSource
  <2>3. QED
    BY <2>2 DEF firefoxVars
<1>3. ASSUME ModuleCompiled
      PROVE  UNCHANGED <<threads, closed, dropped, phase>> /\ \E a \in Actors : Emit("source", a)
  <2>1. PICK t \in ModulePages : FirefoxAnnouncesSource(t)
    BY <1>3 DEF ModuleCompiled
  <2>2. t \in Actors
    BY DebuggeeAssumption DEF Actors
  <2>3. UNCHANGED <<threads, closed, dropped, phase>> /\ Emit("source", t)
    BY <2>1 DEF FirefoxAnnouncesSource, sessionVars
  <2>4. QED
    BY <2>2, <2>3
<1>4. /\ UNCHANGED <<running, commands, pauses, presses>>
      /\ UNCHANGED <<pausedTids, resumingTids, unwitnessed, witnessed, completedStop, stoppedTid>>
      /\ UNCHANGED <<operation, collecting, trigger, interrupted, ready, stops>>
  BY <1>1 DEF stopVars, threadVars
<1>5. QED
  BY <1>1, <1>2, <1>3, <1>4 DEF AboutModules

LEMMA CompiledStep ==
  ASSUME Whole, ModuleCompiled
  PROVE  Whole'
<1>1. PICK t \in ModulePages : FirefoxAnnouncesSource(t)
  BY DEF ModuleCompiled
<1>2. /\ Emit("source", t) /\ UNCHANGED sessionVars /\ phase' = phase /\ t \in Actors
      /\ UNCHANGED <<pausedTids, resumingTids, unwitnessed, running, commands>>
  BY <1>1, DebuggeeAssumption DEF FirefoxAnnouncesSource, ModuleCompiled, stopVars, threadVars, Actors
<1>3. phase[t] \in {"live", "dying"}
  BY <1>1 DEF FirefoxAnnouncesSource
<1>4. /\ phase' \in [Actors -> {"unborn", "loading", "live", "dying", "gone"}]
      /\ \A b \in Actors : phase'[b] \in {"unborn", "loading"} => b # t /\ phase'[b] = phase[b]
  BY <1>2, <1>3 DEF Whole, ThreadTypes
<1>5. QED
  BY <1>2, <1>4, GoesStep

LEMMA AllModulesStep ==
  ASSUME Whole, AllModules
  PROVE  Whole'
<1>1. PICK t \in ModulePages : SourcesReply(t)
  BY DEF AllModules
<1>2. /\ Known(t) /\ RememberSource(t) /\ dropped' = dropped /\ ~closed /\ t \in Actors
      /\ UNCHANGED <<threads, closed, wire, phase>>
  BY <1>1, DebuggeeAssumption DEF SourcesReply, RememberSource, firefoxVars, Actors
<1>3. UNCHANGED <<pausedTids, resumingTids, unwitnessed, running, commands>>
  BY DEF AllModules, stopVars, threadVars
<1>4. SessionTypes /\ Sound /\ ThreadTypes /\ Tids /\ Channels
  BY DEF Whole
<1>5. SessionTypes' /\ Sound'
  BY <1>2, <1>4, RememberStep DEF SessionOK
<1>6. ThreadTypes' /\ Tids'
  BY <1>2, <1>3, <1>4 DEF ThreadTypes, Tids, TidsOf
<1>7. \A a \in Actors : Unmoved(a)
  <2>1. \A a \in Actors : Orders(a)' = Orders(a)
    BY <1>3 DEF Orders
  <2>2. QED
    BY <1>2, <1>3, <1>4, <2>1, NotResumed
<1>8. ASSUME NEW i \in threads' PROVE Watched(i)'
  <2>1. i \in threads /\ Watched(i) /\ i.actor \in Actors
    BY <1>2, <1>4, ThreadsAre DEF Channels
  <2>2. QED
    BY <1>3, <1>7, <2>1, WatchedStays
<1>9. ASSUME NEW a \in Actors, ~Known(a)' PROVE ToCome(a)'
  <2>1. ToCome(a)
    BY <1>2, <1>4, <1>9 DEF Known, Channels
  <2>2. QED
    BY <1>7, <2>1 DEF Unmoved
<1>10. QED
  BY <1>5, <1>6, <1>8, <1>9 DEF Whole, Channels

-----------------------------------------------------------------------------
(* Commands of LLDB *)

\* Paused threads are told to go.
LEMMA ResumeStep ==
  ASSUME Whole, NEW tids, tids \subseteq pausedTids, RequestResume(tids), UNCHANGED vars,
         UNCHANGED running
  PROVE  Whole'
<1> DEFINE S == {i.actor : i \in {j \in threads : j.tid \in tids}}
<1>1. /\ pausedTids' = pausedTids \ tids /\ resumingTids' = resumingTids \cup (tids \cap pausedTids)
      /\ unwitnessed' = unwitnessed \ tids /\ SendTo(S, "resume")
  BY DEF RequestResume
<1>2. SessionTypes /\ Sound /\ ThreadTypes /\ Tids /\ Channels /\ UNCHANGED sessionVars
      /\ UNCHANGED <<wire, phase>>
  BY DEF Whole, vars, firefoxVars
<1>3. /\ SessionTypes' /\ Sound' /\ threads' = threads
      /\ TidsOf(threads)' = TidsOf(threads)
      /\ \A a : Known(a)' <=> Known(a)
  BY <1>2, SessionStays
<1>4. \A i \in threads : i.actor \in S <=> i.tid \in tids
  BY <1>2 DEF Sound, Threads
<1>5. \A a \in S : Known(a)
  BY DEF Known
<1> HIDE DEF S
<1>6. /\ commands' \in [Actors -> Seq(Commands)]
      /\ \A a \in Actors : Orders(a)' = IF a \in S THEN Orders(a) \cup {Len(commands[a]) + 1}
                                                   ELSE Orders(a)
  <2>1. "resume" \in Commands
    BY DEF Commands
  <2>2. QED
    BY <1>1, <1>2, <2>1, SendIs
<1>7. ThreadTypes'
  BY <1>2, <1>6 DEF ThreadTypes
<1>8. Tids'
  BY <1>1, <1>2, <1>3 DEF Tids
<1>9. \A a \in Actors \ S : Unmoved(a)
  BY <1>2, <1>6, NotResumed
<1>10. ASSUME NEW i \in threads' PROVE Watched(i)'
  <2>1. i \in threads /\ Watched(i) /\ i.actor \in Actors
    BY <1>2, <1>3 DEF Channels, SessionTypes, ThreadInfo
  <2>2. CASE i.tid \notin tids
    <3>1. i.actor \notin S
      BY <1>4, <2>1, <2>2
    <3>2. Unmoved(i.actor)
      BY <1>9, <2>1, <3>1
    <3>3. QED
      BY <1>1, <2>1, <2>2, <3>2, WatchedStays
  <2>3. CASE i.tid \in tids
    <3>1. i.actor \in S /\ Stands(i.actor)
      BY <1>4, <2>1, <2>3 DEF Watched
    <3>2. Orders(i.actor)' = {Len(commands[i.actor]) + 1}
      BY <1>6, <2>1, <3>1 DEF Stands
    <3>3. \A k : Sent(k, i.actor)' = Sent(k, i.actor)
      BY <1>2 DEF Sent
    <3>4. AtMostOne(Orders(i.actor))'
      BY <3>2 DEF AtMostOne
    <3>5. Ordered(i.actor)'
      BY <3>1, <3>2, <3>3, <3>4 DEF Ordered, Stands
    <3>6. i.tid \notin pausedTids' /\ i.tid \in resumingTids'
      BY <1>1, <2>3
    <3>7. QED
      BY <1>2, <2>1, <3>3, <3>5, <3>6 DEF Watched, LetGo
  <2>4. QED
    BY <2>2, <2>3
<1>11. ASSUME NEW a \in Actors, ~Known(a)' PROVE ToCome(a)'
  <2>1. ~Known(a) /\ a \notin S
    BY <1>3, <1>5, <1>11
  <2>2. QED
    BY <1>2, <1>9, <2>1 DEF Channels, Unmoved
<1>12. QED
  BY <1>3, <1>7, <1>8, <1>10, <1>11 DEF Whole, Channels

LEMMA ContinuationStep ==
  ASSUME Whole, Settle
  PROVE  Whole'
<1>1. UNCHANGED vars /\ UNCHANGED <<pausedTids, resumingTids, running>>
  BY DEF Settle
<1>2. unwitnessed \subseteq pausedTids
  BY DEF Whole, Tids
<1>3. CASE StartOver
  <2>1. UNCHANGED commands \/ \E tid \in pausedTids :
                                Begin(ActorOf(tid), threads, pausedTids, resumingTids)
    BY <1>3, Zenon DEF StartOver
  <2>2. Interrupts
    BY <2>1, CollectorInterrupts DEF Interrupts
  <2>3. unwitnessed' = unwitnessed
    BY <1>3 DEF StartOver
  <2>4. QED
    BY <1>1, <1>2, <2>2, <2>3, NudgeStep
<1>4. CASE Publish
  <2>1. unwitnessed' = {} /\ Interrupts
    BY <1>4 DEF Publish, Interrupts
  <2>2. QED
    BY <1>1, <2>1, NudgeStep
<1>5. CASE WaitAgain
  <2>1. SendTo(interrupted' \ interrupted, "interrupt") /\ unwitnessed' = unwitnessed
    BY <1>5 DEF WaitAgain
  <2>2. Interrupts
    BY <2>1, Zenon DEF Interrupts
  <2>3. QED
    BY <1>1, <1>2, <2>1, <2>2, NudgeStep
<1>6. QED
  BY <1>3, <1>4, <1>5 DEF Settle

LEMMA AdoptStep ==
  ASSUME Whole, AdoptPausedState
  PROVE  Whole'
<1>1. /\ UNCHANGED vars /\ UNCHANGED <<pausedTids, resumingTids, running, unwitnessed>>
      /\ \E tid \in pausedTids : Begin(ActorOf(tid), threads, pausedTids, resumingTids)
  BY DEF AdoptPausedState
<1>2. Interrupts
  BY <1>1, CollectorInterrupts
<1>3. unwitnessed' \subseteq pausedTids
  BY <1>1 DEF Whole, Tids
<1>4. QED
  BY <1>1, <1>2, <1>3, NudgeStep

\* A thread, or none, is interrupted for LLDB's user or its first stop.
LEMMA InterruptStep ==
  ASSUME Whole, UNCHANGED vars, UNCHANGED <<pausedTids, resumingTids, unwitnessed, running>>,
         UNCHANGED commands \/ \E a \in Actors : SendTo({a}, "interrupt")
  PROVE  Whole'
<1>1. Interrupts
  BY DEF Interrupts
<1>2. unwitnessed' \subseteq pausedTids
  BY DEF Whole, Tids
<1>3. QED
  BY <1>1, <1>2, NudgeStep

LEMMA ForHostIs ==
  ASSUME SessionTypes, InterruptForHost
  PROVE  UNCHANGED commands \/ \E a \in Actors : SendTo({a}, "interrupt")
<1>1. Preferred \subseteq ActorsOf(threads)
  BY DEF Preferred, ActorsOf
<1>2. ActorsOf(threads) \subseteq Actors
  BY ActorsAre DEF SessionTypes
<1>3. QED
  BY <1>1, <1>2 DEF InterruptForHost

LEMMA ForHostStep ==
  ASSUME Whole, ArmForHost
  PROVE  Whole'
<1>1. /\ UNCHANGED vars /\ UNCHANGED <<pausedTids, resumingTids, unwitnessed, running>>
      /\ InterruptForHost /\ SessionTypes
  BY DEF ArmForHost, Whole
<1>2. UNCHANGED commands \/ \E a \in Actors : SendTo({a}, "interrupt")
  BY <1>1, ForHostIs
<1>3. QED
  BY <1>1, <1>2, InterruptStep

LEMMA ContinueStep ==
  ASSUME Whole, DoContinue
  PROVE  Whole'
<1>1. ArmForHost \/ AdoptPausedState \/ Continue
  BY DEF DoContinue, Execute, AdoptOldest
<1>2. CASE Continue
  <2>1. RequestResume(pausedTids) /\ UNCHANGED vars /\ UNCHANGED running
    BY <1>2 DEF Continue
  <2>2. QED
    BY <2>1, ResumeStep
<1>3. QED
  BY <1>1, <1>2, ForHostStep, AdoptStep

LEMMA SingleStepStep ==
  ASSUME Whole, NEW tid \in pausedTids, DoSingleStep(tid)
  PROVE  Whole'
<1>1. ArmForHost \/ AdoptPausedState \/ SingleStep(tid)
  BY DEF DoSingleStep, Execute, AdoptOldest
<1>2. CASE SingleStep(tid)
  <2>1. RequestResume({tid}) /\ UNCHANGED vars /\ UNCHANGED running /\ {tid} \subseteq pausedTids
    BY <1>2 DEF SingleStep
  <2>2. QED
    BY <2>1, ResumeStep
<1>3. QED
  BY <1>1, <1>2, ForHostStep, AdoptStep

LEMMA ComponentStep ==
  ASSUME Whole, Component
  PROVE  closed' \/ Whole'
<1>1. ASSUME NEW tid \in pausedTids, SnapshotThread(tid) PROVE Whole'
  <2>1. UNCHANGED vars /\ UNCHANGED <<pausedTids, resumingTids, unwitnessed, running, commands>>
    BY <1>1 DEF SnapshotThread, threadVars
  <2>2. QED
    BY <2>1, InterruptStep
<1>2. CASE SnapshotAgain
  BY <1>2, AdoptStep DEF SnapshotAgain, AdoptOldest
<1>3. CASE SnapshotFails \/ StepLost
  BY <1>3 DEF SnapshotFails, StepLost, StopSessionClose, SessionClose, CloseSession
<1>4. CASE DoContinue \/ \E tid \in pausedTids : DoSingleStep(tid)
  BY <1>4, ContinueStep, SingleStepStep
<1>5. QED
  BY <1>1, <1>2, <1>3, <1>4 DEF Component

LEMMA UserStep ==
  ASSUME Whole, User
  PROVE  Whole'
<1>1. CASE PrimeStop
  <2>1. CASE AdoptOldest
    BY <2>1, AdoptStep DEF AdoptOldest
  <2>2. ASSUME NEW a \in Actors, Prime(a) PROVE Whole'
    <3>1. /\ UNCHANGED vars /\ UNCHANGED <<pausedTids, resumingTids, unwitnessed, running>>
          /\ SendTo({a}, "interrupt")
      BY <2>2 DEF Prime
    <3>2. QED
      BY <3>1, InterruptStep
  <2>3. QED
    BY <1>1, <2>1, <2>2 DEF PrimeStop
<1>2. CASE PrimeNothing
  <2>1. UNCHANGED vars /\ UNCHANGED <<pausedTids, resumingTids, unwitnessed, running, commands>>
    BY <1>2 DEF PrimeNothing, allVars, stopVars, threadVars
  <2>2. QED
    BY <2>1, InterruptStep
<1>3. CASE TriggerInterrupt
  <2>1. /\ UNCHANGED vars /\ UNCHANGED <<pausedTids, resumingTids, unwitnessed, running>>
        /\ InterruptForHost \/ UNCHANGED commands
    BY <1>3 DEF TriggerInterrupt, stopVars
  <2>2. UNCHANGED commands \/ \E a \in Actors : SendTo({a}, "interrupt")
    BY <2>1, ForHostIs DEF Whole
  <2>3. QED
    BY <2>1, <2>2, InterruptStep
<1>4. CASE DoContinue \/ \E tid \in pausedTids : DoSingleStep(tid)
  BY <1>4, ContinueStep, SingleStepStep
<1>5. CASE AllModules
  BY <1>5, AllModulesStep
<1>6. QED
  BY <1>1, <1>2, <1>3, <1>4, <1>5 DEF User

LEMMA ResyncStep ==
  ASSUME Whole, ResyncCheck
  PROVE  Whole'
<1>1. CASE ResyncDeferred
  <2>1. UNCHANGED vars /\ UNCHANGED <<pausedTids, resumingTids, unwitnessed, running, commands>>
    BY <1>1 DEF ResyncDeferred, allVars, stopVars, threadVars
  <2>2. QED
    BY <2>1, InterruptStep
<1>2. CASE ResyncAdopts
  <2>1. /\ UNCHANGED vars /\ UNCHANGED <<pausedTids, resumingTids, unwitnessed, running>>
        /\ NotCollecting \/ \E tid \in pausedTids :
                              Begin(ActorOf(tid), threads, pausedTids, resumingTids)
    BY <1>2 DEF ResyncAdopts
  <2>2. Interrupts
    BY <2>1, CollectorInterrupts
  <2>3. unwitnessed' \subseteq pausedTids
    BY <2>1 DEF Whole, Tids
  <2>4. QED
    BY <2>1, <2>2, <2>3, NudgeStep
<1>3. CASE ResyncForces
  <2>1. /\ UNCHANGED vars /\ UNCHANGED <<pausedTids, resumingTids, unwitnessed, running>>
        /\ \E i \in threads : SendTo({i.actor}, "interrupt")
    BY <1>3 DEF ResyncForces, stopVars
  <2>2. \A i \in threads : i.actor \in Actors
    BY DEF Whole, SessionTypes, ThreadInfo
  <2>3. QED
    BY <2>1, <2>2, InterruptStep
<1>4. QED
  BY <1>1, <1>2, <1>3 DEF ResyncCheck

-----------------------------------------------------------------------------
(* Every reachable state *)

LEMMA DebuggeeInitially ==
  ASSUME DebuggeeInit
  PROVE  Whole
<1> DEFINE first == [tid |-> 1, actor |-> FirstPage, gen |-> 1, top |-> TRUE]
<1>1. /\ first \in ThreadInfo /\ first.tid = 1 /\ first.actor = FirstPage /\ first.gen = 1
      /\ first.top = TRUE /\ FirstPage \in TopActors
  BY DebuggeeAssumption DEF ThreadInfo, Actors
<1> HIDE DEF first
<1>2. threads = {first} /\ retiredTargetActors = {} /\ detachChecks = {} /\ sources = {}
      /\ detached = {} /\ dropped = {} /\ closed = FALSE /\ generationAborted = FALSE
  BY DEF DebuggeeInit, first
<1>3. nextTid = 2 /\ nextGeneration = 2 /\ activeGeneration = 1 /\ pendingTopLevelTid = 0
  BY DEF DebuggeeInit
<1>4. SessionTypes
  <2>1. IsFiniteSet({}) /\ Cardinality({}) = 0
    BY FS_EmptySet
  <2>2. IsFiniteSet(threads) /\ Cardinality(threads) = 1
    BY <1>2, FS_Singleton
  <2>3. Cardinality(threads) <= MaxThreads /\ Cardinality({}) <= MaxTombstones
    BY <2>1, <2>2, TargetsAssumption, DebuggeeAssumption
  <2>4. IsFiniteSet(retiredTargetActors) /\ Cardinality(retiredTargetActors) <= MaxTombstones
    BY <1>2, <2>1, <2>3
  <2>5. /\ threads \subseteq ThreadInfo /\ retiredTargetActors \subseteq Actors
        /\ detachChecks \subseteq ThreadInfo
        /\ sources \subseteq [actor : Actors, gen : Nat, since : Nat]
        /\ closed \in BOOLEAN /\ detached \subseteq Nat /\ dropped \subseteq Actors
        /\ generationAborted \in BOOLEAN
    BY <1>1, <1>2
  <2>6. /\ nextTid \in Nat \ {0} /\ nextGeneration \in Nat \ {0} /\ activeGeneration \in Nat
        /\ pendingTopLevelTid \in Nat
    BY <1>3
  <2>7. QED
    BY <2>2, <2>3, <2>4, <2>5, <2>6 DEF SessionTypes
<1>5. Tops = {first} /\ ActorsOf(threads) = {FirstPage}
  BY <1>1, <1>2 DEF Tops, ActorsOf
<1>6. Sound
  <2>1. Threads
    BY <1>1, <1>2, <1>3 DEF Threads, Placed
  <2>2. Generations
    BY <1>2, <1>3, <1>5 DEF Generations
  <2>3. Graves /\ Current /\ Reports
    BY <1>2, <1>5 DEF Graves, Current, Reports
  <2>4. QED
    BY <2>1, <2>2, <2>3 DEF Sound
<1>7. wire = <<>> /\ phase = [a \in Actors |-> IF a = FirstPage THEN "live" ELSE "unborn"]
      /\ running = [a \in Actors |-> TRUE] /\ commands = [a \in Actors |-> <<>>]
      /\ pausedTids = {} /\ resumingTids = {} /\ unwitnessed = {}
  BY DEF DebuggeeInit
<1>8. ThreadTypes
  BY <1>7 DEF ThreadTypes
<1>9. /\ DOMAIN wire = {} /\ \A k, a : Sent(k, a) = {}
      /\ \A a \in Actors : Orders(a) = {} /\ running[a]
  BY <1>7 DEF Sent, Orders
<1>10. \A a \in Actors : Runs(a)
  BY <1>9 DEF Runs, AtMostOne
<1>11. Tids
  BY <1>7 DEF Tids
<1>12. Watched(first)
  BY <1>1, <1>7, <1>9, <1>10 DEF Watched, Actors
<1>13. \A a \in Actors : ToCome(a)
  BY <1>9, <1>10 DEF ToCome
<1>14. QED
  BY <1>2, <1>4, <1>6, <1>8, <1>11, <1>12, <1>13 DEF Whole, Channels

\* Nothing is done in a session that is closed.
LEMMA ClosedIsClosed ==
  ASSUME DebuggeeNext
  PROVE  ~closed
<1>1. CASE DebuggeeChunk
  BY <1>1 DEF DebuggeeChunk, HearTarget, HearThread, Continuation, DeliverTarget, Deliver,
     DeliverPaused, DeliverResumed, DeliverStray, Report, Settle
<1>2. Arm \/ StopValid \/ SessionClose => ~closed
  BY DEF Arm, StopValid, SessionClose
<1>3. AdoptPausedState \/ ArmForHost \/ Continue \/ StopSessionClose => ~closed
  BY <1>2 DEF AdoptPausedState, ArmForHost, Continue, StopSessionClose
<1>4. (\E tid : SingleStep(tid)) \/ (\E a : Prime(a)) => ~closed
  BY <1>2 DEF SingleStep, Prime
<1>5. DoContinue \/ (\E tid : DoSingleStep(tid)) => ~closed
  BY <1>3, <1>4 DEF DoContinue, DoSingleStep, Execute, AdoptOldest
<1>6. CASE Component
  BY <1>2, <1>3, <1>5, <1>6 DEF Component, SnapshotThread, SnapshotAgain, SnapshotFails, StepLost,
     AdoptOldest
<1>7. CASE User
  BY <1>3, <1>4, <1>5, <1>7 DEF User, PrimeStop, PrimeNothing, TriggerInterrupt, AdoptOldest,
     AllModules, SourcesReply
<1>8. CASE ResyncCheck \/ PrimeTimeout \/ SessionEnds
  BY <1>3, <1>8 DEF ResyncCheck, ResyncDeferred, ResyncAdopts, ResyncForces, PrimeTimeout,
     SessionEnds, Deadline
<1>9. QED
  BY <1>1, <1>6, <1>7, <1>8 DEF DebuggeeNext

LEMMA DebuggeeStep ==
  ASSUME DebuggeeInv, DebuggeeNext
  PROVE  DebuggeeInv'
<1>1. Whole
  BY ClosedIsClosed DEF DebuggeeInv
<1>2. CASE DebuggeeChunk
  <2>1. CASE HearTarget
    BY <1>1, <2>1, TargetStep DEF HearTarget, DebuggeeInv
  <2>2. CASE HearThread
    BY <1>1, <2>2, PausedStep, ResumedStep, StrayStep DEF HearThread, DebuggeeInv
  <2>3. CASE Continuation
    BY <1>1, <2>3, ContinuationStep DEF Continuation, DebuggeeInv
  <2>4. QED
    BY <1>2, <2>1, <2>2, <2>3 DEF DebuggeeChunk
<1>3. CASE Component
  BY <1>1, <1>3, ComponentStep DEF DebuggeeInv
<1>4. CASE User
  BY <1>1, <1>4, UserStep DEF DebuggeeInv
<1>5. CASE ResyncCheck
  BY <1>1, <1>5, ResyncStep DEF DebuggeeInv
<1>6. CASE PrimeTimeout \/ SessionEnds
  BY <1>6 DEF PrimeTimeout, SessionEnds, Deadline, StopSessionClose, SessionClose, CloseSession,
     DebuggeeInv
<1>7. CASE OwnPause
  BY <1>1, <1>7, PausesStep DEF OwnPause, DebuggeeInv
<1>8. ASSUME NEW a \in Actors, Execution(a) PROVE DebuggeeInv'
  BY <1>1, <1>8, ExecutesStep DEF Execution, DebuggeeInv
<1>9. CASE TargetsChange
  BY <1>1, <1>9, FirefoxTargetsStep DEF TargetsChange, DebuggeeInv
<1>10. CASE ModuleCompiled
  BY <1>1, <1>10, CompiledStep DEF DebuggeeInv
<1>11. QED
  BY <1>2, <1>3, <1>4, <1>5, <1>6, <1>7, <1>8, <1>9, <1>10 DEF DebuggeeNext

LEMMA DebuggeeStutter ==
  ASSUME DebuggeeInv, UNCHANGED everything
  PROVE  DebuggeeInv'
<1>1. /\ UNCHANGED vars /\ closed' = closed
      /\ UNCHANGED <<pausedTids, resumingTids, unwitnessed, running, commands>>
  BY DEF everything, allVars, vars, sessionVars, stopVars, threadVars
<1>2. QED
  BY <1>1, InterruptStep DEF DebuggeeInv

-----------------------------------------------------------------------------
(* What a stop leaves to be done *)

\* Where the interrupts are among the commands of a thread.
Nudges(a) == {n \in DOMAIN commands[a] : commands[a][n] = "interrupt"}

\* The thread pauses after all that it has been told: an interrupt is behind every resume.
Summoned(a) == \E n \in Nudges(a) : \A m \in Orders(a) : m < n

\* A thread that runs, or is about to, will be heard of: it has been told to pause, has paused,
\* or is gone.
Called(a) == phase[a] = "gone" \/ Summoned(a) \/ Sent("paused", a) # {}

\* LLDB waits during an operation and only then, and between two of them every pause has been
\* published or is unreported.
Books ==
  /\ (lldb = "waiting") <=> (operation = "pending")
  /\ collecting => operation = "pending"
  /\ operation = "idle" => witnessed = {} /\ pausedTids \subseteq published \cup unwitnessed

\* The session hears of every target that is gone, after it has heard of the target.
Farewell ==
  /\ \A i \in threads : phase[i.actor] = "gone" => Sent("destroyed", i.actor) # {}
  /\ \A a \in Actors : phase[a] = "gone" =>
       \A n \in Sent("available", a) : \E d \in Sent("destroyed", a) : n < d

\* The threads a collector has interrupted pause or go, and while its trigger is there every
\* thread that runs is one of them.
Answered(i) == i.tid \notin resumingTids /\ (i.tid \in pausedTids \/ Called(i.actor))

Collection ==
  /\ ~ready => ~Complete(threads, pausedTids, trigger)
  /\ trigger \in ActorsOf(threads) =>
       \A i \in threads : i.tid \notin pausedTids \cup resumingTids => i.actor \in interrupted
  /\ \A i \in threads : i.actor \in interrupted => Answered(i)
  /\ interrupted \subseteq ActorsOf(threads) \cup dropped

\* A page that no stop has held yet, or none since it compiled a module, is about to be: a Ctrl-C
\* or a resync is due, or it has been called during the operation that LLDB waits for.
Expected(i) ==
  \/ i.actor \in held \/ hostInterruptPending = TRUE
  \/ resyncTid # 0 /\ (resyncTimer = TRUE \/ operation = "idle")
  \/ operation = "pending" /\ (i.tid \in pausedTids \/ Called(i.actor))

ResyncKept ==
  /\ resyncTimer \in BOOLEAN
  /\ resyncTimer = TRUE => resyncTid # 0
  /\ resyncTid # 0 => \E i \in Tops : i.tid = resyncTid

Replacements ==
  /\ attached \in BOOLEAN
  /\ ResyncKept
  /\ attached = TRUE \/ lldb = "reading" => \A i \in Tops : Expected(i)

\* Threads are let go when an operation begins, and only if no pause is unreported; while it lasts
\* every pause is witnessed, and at its end every thread has paused again.
Witnessing ==
  /\ operation = "idle" => resumingTids = {}
  /\ operation = "pending" => /\ TidsOf(threads) \subseteq witnessed
                              /\ unwitnessed # {} => resumingTids = {}

StopInv ==
  /\ DebuggeeInv /\ ownTids \subseteq pausedTids
  /\ closed \/ (Books /\ Farewell /\ (collecting => Collection) /\ Replacements /\ Witnessing)

-----------------------------------------------------------------------------
(* Calls are not lost *)

LEMMA SendNudges ==
  ASSUME ThreadTypes, NEW S, SendTo(S, "interrupt")
  PROVE  \A a \in Actors : Summoned(a) \/ a \in S => Summoned(a)'
<1>1. ASSUME NEW a \in Actors
      PROVE  Nudges(a) \subseteq Nudges(a)' /\ (a \in S => Len(commands[a]) + 1 \in Nudges(a)')
  <2>1. /\ commands[a] \in Seq(Commands)
        /\ commands'[a] = IF a \in S THEN Append(commands[a], "interrupt") ELSE commands[a]
    BY DEF ThreadTypes, SendTo
  <2>2. CASE a \notin S
    BY <2>1, <2>2 DEF Nudges
  <2>3. CASE a \in S
    <3> DEFINE c == commands[a]
    <3>1. c \in Seq(Commands) /\ commands'[a] = Append(c, "interrupt")
      BY <2>1, <2>3
    <3> HIDE DEF c
    <3>2. /\ Len(c) \in Nat
          /\ DOMAIN c = 1..Len(c) /\ DOMAIN commands'[a] = 1..(Len(c) + 1)
          /\ commands'[a][Len(c) + 1] = "interrupt" /\ \A n \in 1..Len(c) : commands'[a][n] = c[n]
      BY <3>1
    <3>3. Len(c) + 1 \in 1..(Len(c) + 1) /\ \A n \in 1..Len(c) : n \in 1..(Len(c) + 1)
      BY <3>2
    <3>4. QED
      BY <3>2, <3>3 DEF Nudges, c
  <2>4. QED
    BY <2>2, <2>3
<1>2. ASSUME NEW a \in Actors, Summoned(a) \/ a \in S PROVE Summoned(a)'
  <2>1. Orders(a)' = Orders(a)
    <3>1. "interrupt" \in Commands /\ "interrupt" # "resume"
      BY DEF Commands
    <3>2. QED
      BY <3>1, SendIs
  <2>2. CASE Summoned(a)
    BY <1>1, <2>1, <2>2 DEF Summoned
  <2>3. CASE a \in S
    <3>1. Len(commands[a]) + 1 \in Nudges(a)'
      BY <1>1, <2>3
    <3>2. Len(commands[a]) \in Nat
      BY DEF ThreadTypes
    <3>3. \A m \in Orders(a) : m < Len(commands[a]) + 1
      BY <3>2, OrdersAre
    <3>4. QED
      BY <2>1, <3>1, <3>3 DEF Summoned
  <2>4. QED
    BY <1>2, <2>2, <2>3
<1>3. QED
  BY <1>2

LEMMA ExecNudges ==
  ASSUME ThreadTypes, NEW a \in Actors, commands[a] # <<>>,
         commands' = [commands EXCEPT ![a] = Tail(@)]
  PROVE  /\ \A b \in Actors \ {a} : Summoned(b) => Summoned(b)'
         /\ Summoned(a) => Summoned(a)' \/ (Head(commands[a]) = "interrupt" /\ Orders(a) = {})
<1> DEFINE c == commands[a]
<1>1. c \in Seq(Commands) /\ c # <<>> /\ commands'[a] = Tail(c)
  BY DEF ThreadTypes
<1> HIDE DEF c
<1>2. /\ DOMAIN c = 1..Len(c) /\ Len(c) \in Nat /\ Len(c) >= 1 /\ Head(c) = c[1]
      /\ DOMAIN Tail(c) = 1..(Len(c) - 1)
      /\ \A n \in 1..(Len(c) - 1) : Tail(c)[n] = c[n + 1]
  BY <1>1
<1>3. \A n \in 1..Len(c) : n = 1 \/ (n - 1 \in 1..(Len(c) - 1) /\ (n - 1) + 1 = n)
  BY <1>2
<1>4. ASSUME NEW n \in Nudges(a), \A m \in Orders(a) : m < n
      PROVE  Summoned(a)' \/ (Head(commands[a]) = "interrupt" /\ Orders(a) = {})
  <2>1. n \in 1..Len(c) /\ c[n] = "interrupt"
    BY <1>2, <1>4 DEF Nudges, c
  <2>2. CASE n = 1
    <3>1. Head(commands[a]) = "interrupt"
      BY <1>2, <2>1, <2>2 DEF c
    <3>2. \A m \in Orders(a) : m >= 1 /\ m \in Nat
      BY OrdersAre
    <3>3. Orders(a) = {}
      BY <1>4, <2>2, <3>2
    <3>4. QED
      BY <3>1, <3>3
  <2>3. CASE n # 1
    <3>1. n - 1 \in DOMAIN Tail(c) /\ Tail(c)[n - 1] = "interrupt"
      BY <1>2, <1>3, <2>1, <2>3
    <3>2. n - 1 \in Nudges(a)'
      BY <1>1, <3>1 DEF Nudges
    <3>3. ASSUME NEW m \in Orders(a)' PROVE m < n - 1
      <4>1. m \in Nat /\ m + 1 \in Orders(a)
        BY <3>3, ExecIs
      <4>2. m + 1 < n /\ n \in Nat
        BY <1>2, <1>4, <2>1, <4>1
      <4>3. QED
        BY <4>1, <4>2
    <3>4. QED
      BY <3>2, <3>3 DEF Summoned
  <2>4. QED
    BY <2>2, <2>3
<1>5. ASSUME NEW b \in Actors \ {a}, Summoned(b) PROVE Summoned(b)'
  <2>1. commands'[b] = commands[b]
    BY DEF ThreadTypes
  <2>2. QED
    BY <1>5, <2>1 DEF Summoned, Nudges, Orders
<1>6. QED
  BY <1>4, <1>5 DEF Summoned

\* Interrupts that are sent leave the calls that there are.
LEMMA SendCalls ==
  ASSUME ThreadTypes, NEW S, SendTo(S, "interrupt"), UNCHANGED <<wire, phase>>
  PROVE  \A a \in Actors : Called(a) => Called(a)'
<1>1. \A a \in Actors : Summoned(a) => Summoned(a)'
  BY SendNudges
<1>2. \A a : Sent("paused", a)' = Sent("paused", a)
  BY DEF Sent
<1>3. QED
  BY <1>1, <1>2 DEF Called

LEMMA InterruptCalls ==
  ASSUME ThreadTypes, Interrupts
  PROVE  \A a \in Actors : Summoned(a) => Summoned(a)'
<1>1. CASE UNCHANGED commands
  BY <1>1 DEF Summoned, Nudges, Orders
<1>2. ASSUME NEW S, SendTo(S, "interrupt") PROVE \A a \in Actors : Summoned(a) => Summoned(a)'
  BY <1>2, SendNudges
<1>3. QED
  BY <1>1, <1>2 DEF Interrupts

\* A packet that is handled is an answer, or leaves the calls that there are.
LEMMA DeliverCalls ==
  ASSUME ThreadTypes, wire # <<>>, wire' = Tail(wire), phase' = phase, Interrupts, NEW a \in Actors,
         Head(wire).actor # a \/ Head(wire).kind # "paused"
  PROVE  Called(a) => Called(a)'
<1>1. MovedUp(Sent("paused", a), Sent("paused", a)') /\ 1 \notin Sent("paused", a)
  BY SentMoveUp, TailIs
<1>2. Sent("paused", a) # {} => Sent("paused", a)' # {}
  BY <1>1, MovedUpIs
<1>3. QED
  BY <1>2, InterruptCalls DEF Called

\* Threads that run, or are about to, stay called, whatever Firefox does.
StillCalled ==
  \A i \in threads : i.tid \notin pausedTids /\ Called(i.actor) => Called(i.actor)'

LEMMA SentGrows ==
  ASSUME ThreadTypes, NEW kind \in {"available", "destroyed", "source", "paused", "resumed"},
         NEW a \in Actors, Emit(kind, a), NEW k, NEW b
  PROVE  Sent(k, b) \subseteq Sent(k, b)'
  BY AppendIs

LEMMA FirefoxPausesCalls ==
  ASSUME Whole, NEW a \in Actors, FirefoxPauses(a)
  PROVE  StillCalled
<1>1. ThreadTypes /\ Emit("paused", a) /\ UNCHANGED <<phase, commands>>
  BY DEF Whole, FirefoxPauses
<1>2. \A b \in Actors : Sent("paused", b) \subseteq Sent("paused", b)'
  BY <1>1, SentGrows
<1>3. \A b \in Actors : Summoned(b) => Summoned(b)'
  BY <1>1 DEF Summoned, Nudges, Orders
<1>4. \A i \in threads : i.actor \in Actors
  BY DEF Whole, SessionTypes, ThreadInfo
<1>5. QED
  BY <1>1, <1>2, <1>3, <1>4 DEF Called, StillCalled

LEMMA FirefoxExecutesCalls ==
  ASSUME Whole, NEW a \in Actors, FirefoxExecutes(a)
  PROVE  StillCalled
<1>1. /\ ThreadTypes /\ phase' = phase /\ commands[a] # <<>>
      /\ commands' = [commands EXCEPT ![a] = Tail(@)]
      /\ wire' = wire \/ \E kind \in {"paused", "resumed"} : Emit(kind, a)
  BY DEF Whole, FirefoxExecutes
<1>2. \A b \in Actors : Sent("paused", b) \subseteq Sent("paused", b)'
  <2>1. CASE wire' = wire
    BY <2>1 DEF Sent
  <2>2. ASSUME NEW kind \in {"paused", "resumed"}, Emit(kind, a)
        PROVE  \A b \in Actors : Sent("paused", b) \subseteq Sent("paused", b)'
    BY <1>1, <2>2, SentGrows
  <2>3. QED
    BY <1>1, <2>1, <2>2
<1>3. /\ \A b \in Actors \ {a} : Summoned(b) => Summoned(b)'
      /\ Summoned(a) => Summoned(a)' \/ (Head(commands[a]) = "interrupt" /\ Orders(a) = {})
  BY <1>1, ExecNudges
<1>4. ASSUME Head(commands[a]) = "interrupt", Runs(a) \/ Resumed(a) PROVE Sent("paused", a)' # {}
  <2>1. CASE running[a]
    <3>1. Emit("paused", a)
      BY <1>4, <2>1 DEF FirefoxExecutes
    <3>2. Len(wire) + 1 \in Sent("paused", a)'
      BY <1>1, <3>1, AppendIs
    <3>3. QED
      BY <3>2
  <2>2. CASE ~running[a]
    BY <1>2, <1>4, <2>2 DEF Runs, Resumed
  <2>3. QED
    BY <2>1, <2>2
<1>5. ASSUME NEW i \in threads, i.tid \notin pausedTids, Called(i.actor)
      PROVE  Called(i.actor)'
  <2>1. i.actor \in Actors /\ (Runs(i.actor) \/ Ordered(i.actor) \/ Resumed(i.actor))
    BY <1>5 DEF Whole, SessionTypes, ThreadInfo, Channels, Watched, LetGo
  <2>2. CASE i.actor # a
    BY <1>1, <1>2, <1>3, <1>5, <2>1, <2>2 DEF Called
  <2>3. CASE i.actor = a
    <3>1. Orders(a) = {} => Runs(a) \/ Resumed(a)
      BY <2>1, <2>3 DEF Ordered
    <3>2. QED
      BY <1>1, <1>2, <1>3, <1>4, <1>5, <2>1, <2>3, <3>1 DEF Called
  <2>4. QED
    BY <2>2, <2>3
<1>6. QED
  BY <1>5 DEF StillCalled

\* What the session hears of the targets that are gone.
LEMMA FarewellDelivered ==
  ASSUME ThreadTypes, wire # <<>>, wire' = Tail(wire), phase' = phase, Farewell,
         \A j \in threads' : /\ Known(j.actor) \/ Head(wire) = [kind |-> "available", actor |-> j.actor]
                             /\ Head(wire) # [kind |-> "destroyed", actor |-> j.actor]
                             /\ j.actor \in Actors
  PROVE  Farewell'
<1>1. \A k, a : MovedUp(Sent(k, a), Sent(k, a)')
  BY SentMoveUp
<1>2. \A k, a : 1 \in Sent(k, a) <=> Head(wire).kind = k /\ Head(wire).actor = a
  BY TailIs
<1>3. PICK h \in Packets : h = Head(wire)
  BY TailIs
<1>4. ASSUME NEW a \in Actors, phase[a] = "gone", NEW n \in Sent("available", a)'
      PROVE  \E d \in Sent("destroyed", a)' : n < d
  <2>1. n \in Nat /\ n >= 1 /\ n + 1 \in Sent("available", a)
    BY <1>1, <1>4 DEF MovedUp
  <2>2. PICK d \in Sent("destroyed", a) : n + 1 < d
    BY <1>4, <2>1 DEF Farewell
  <2>3. d \in Nat
    BY <1>1 DEF MovedUp
  <2>4. d - 1 \in Nat /\ d - 1 >= 1 /\ (d - 1) + 1 = d /\ n < d - 1
    BY <2>1, <2>2, <2>3
  <2>5. d - 1 \in Sent("destroyed", a)'
    BY <1>1, <2>4 DEF MovedUp
  <2>6. QED
    BY <2>4, <2>5
<1>5. ASSUME NEW j \in threads', phase[j.actor] = "gone" PROVE Sent("destroyed", j.actor)' # {}
  <2>1. CASE Known(j.actor)
    <3>1. Sent("destroyed", j.actor) # {}
      BY <1>5, <2>1 DEF Known, Farewell
    <3>2. 1 \notin Sent("destroyed", j.actor)
      <4>1. h # [kind |-> "destroyed", actor |-> j.actor]
        BY <1>3
      <4>2. h.kind # "destroyed" \/ h.actor # j.actor
        BY <1>3, <4>1 DEF Packets
      <4>3. QED
        BY <1>2, <1>3, <4>2
    <3>3. QED
      BY <1>1, <3>1, <3>2, MovedUpIs
  <2>2. CASE Head(wire) = [kind |-> "available", actor |-> j.actor]
    <3>0. Head(wire).kind = "available" /\ Head(wire).actor = j.actor
      BY <2>2
    <3>1. 1 \in Sent("available", j.actor) /\ j.actor \in Actors
      BY <1>2, <3>0
    <3>2. PICK d \in Sent("destroyed", j.actor) : 1 < d
      BY <1>5, <3>1 DEF Farewell
    <3>3. d \in Nat
      BY <1>1 DEF MovedUp
    <3>4. d - 1 \in Nat /\ d - 1 >= 1 /\ (d - 1) + 1 = d
      BY <3>2, <3>3
    <3>5. QED
      BY <1>1, <3>4 DEF MovedUp
  <2>3. QED
    BY <2>1, <2>2
<1>6. QED
  BY <1>4, <1>5 DEF Farewell

LEMMA FarewellGoes ==
  ASSUME ThreadTypes, Farewell, NEW a \in Actors, Emit("destroyed", a), UNCHANGED threads,
         \A i \in threads : i.actor \in Actors,
         \A b \in Actors : phase'[b] = "gone" => b = a \/ phase[b] = "gone"
  PROVE  Farewell'
<1>1. /\ \A k, b : Sent(k, b)' = IF k = "destroyed" /\ b = a THEN Sent(k, b) \cup {Len(wire) + 1}
                                                              ELSE Sent(k, b)
      /\ \A k, b : \A n \in Sent(k, b) : n < Len(wire) + 1
  BY AppendIs
<1>2. ASSUME NEW i \in threads, phase'[i.actor] = "gone" PROVE Sent("destroyed", i.actor)' # {}
  <2>1. i.actor = a \/ Sent("destroyed", i.actor) # {}
    BY <1>2 DEF Farewell
  <2>2. QED
    BY <1>1, <2>1
<1>3. ASSUME NEW b \in Actors, phase'[b] = "gone", NEW n \in Sent("available", b)'
      PROVE  \E d \in Sent("destroyed", b)' : n < d
  <2>1. n \in Sent("available", b)
    BY <1>1
  <2>2. CASE b = a
    BY <1>1, <2>1, <2>2
  <2>3. CASE b # a
    <3>1. \E d \in Sent("destroyed", b) : n < d
      BY <1>3, <2>1, <2>3 DEF Farewell
    <3>2. QED
      BY <1>1, <2>3, <3>1
  <2>4. QED
    BY <2>2, <2>3
<1>4. QED
  BY <1>2, <1>3 DEF Farewell

LEMMA FarewellStays ==
  ASSUME ThreadTypes, Farewell, UNCHANGED threads, \A i \in threads : i.actor \in Actors,
         NEW kind \in {"available", "source", "paused", "resumed"}, NEW a \in Actors,
         wire' = wire \/ Emit(kind, a), kind = "available" => phase'[a] # "gone",
         \A b \in Actors : phase'[b] = "gone" => phase[b] = "gone"
  PROVE  Farewell'
<1>1. ASSUME NEW k, NEW b, k = "destroyed" \/ (k = "available" /\ phase'[b] = "gone")
      PROVE  Sent(k, b)' = Sent(k, b)
  <2>1. CASE wire' = wire
    BY <2>1 DEF Sent
  <2>2. CASE Emit(kind, a)
    <3>1. Sent(k, b)' = IF k = kind /\ b = a THEN Sent(k, b) \cup {Len(wire) + 1} ELSE Sent(k, b)
      BY <2>2, AppendIs
    <3>2. ~(k = kind /\ b = a)
      BY <1>1
    <3>3. QED
      BY <3>1, <3>2
  <2>3. QED
    BY <2>1, <2>2
<1>2. QED
  BY <1>1 DEF Farewell

LEMMA TargetsChangeStep ==
  ASSUME Whole, Farewell, FirefoxTargets
  PROVE  Farewell' /\ StillCalled
<1> DEFINE GoneStays == \A b \in Actors : phase[b] = "gone" => phase'[b] = "gone"
           Sends == wire' = wire \/ \E kind \in {"available", "destroyed"}, a \in Actors : Emit(kind, a)
<1>1. /\ ThreadTypes /\ TopActors \subseteq Actors /\ WorkerActors \subseteq Actors
      /\ \A i \in threads : i.actor \in Actors
      /\ UNCHANGED commands
  BY DEF Whole, Actors, SessionTypes, ThreadInfo, FirefoxTargets, threadVars
<1>2. phase \in [Actors -> {"unborn", "loading", "live", "dying", "gone"}]
  BY <1>1 DEF ThreadTypes
<1>3. ASSUME NEW t \in TopActors, FirefoxLoads(t) PROVE Farewell' /\ GoneStays /\ Sends
  <2>1. /\ phase[t] = "unborn" /\ phase' = [phase EXCEPT ![t] = "loading"]
        /\ wire' = wire /\ threads' = threads
    BY <1>3 DEF FirefoxLoads, sessionVars
  <2>2. \A b \in Actors : phase'[b] = "gone" <=> phase[b] = "gone"
    BY <1>2, <2>1
  <2>3. "source" \in {"available", "source", "paused", "resumed"}
    OBVIOUS
  <2>4. Farewell'
    BY <1>1, <2>1, <2>2, <2>3, FarewellStays
  <2>5. QED
    BY <2>1, <2>2, <2>4
<1>4. ASSUME NEW t \in TopActors, FirefoxAnnouncesPage(t) PROVE Farewell' /\ GoneStays /\ Sends
  <2>1. /\ phase[t] = "loading" /\ phase' = [phase EXCEPT ![t] = "live"]
        /\ Emit("available", t) /\ threads' = threads /\ t \in Actors
    BY <1>1, <1>4 DEF FirefoxAnnouncesPage, sessionVars
  <2>2. phase'[t] # "gone" /\ \A b \in Actors : phase'[b] = "gone" <=> phase[b] = "gone"
    BY <1>2, <2>1
  <2>3. "available" \in {"available", "source", "paused", "resumed"}
    OBVIOUS
  <2>4. Farewell'
    BY <1>1, <2>1, <2>2, <2>3, FarewellStays
  <2>5. QED
    BY <2>1, <2>2, <2>4
<1>5. ASSUME NEW t \in TopActors, FirefoxDestroysPage(t) PROVE Farewell' /\ GoneStays /\ Sends
  <2>1. phase' = Dying(t, "gone") /\ Emit("destroyed", t) /\ threads' = threads /\ t \in Actors
    BY <1>1, <1>5 DEF FirefoxDestroysPage, sessionVars
  <2>2. \A b \in Actors : /\ phase'[b] = "gone" => b = t \/ phase[b] = "gone"
                          /\ phase[b] = "gone" => phase'[b] = "gone"
    BY <2>1 DEF Dying, WorkersOf
  <2>3. Farewell'
    BY <1>1, <2>1, <2>2, FarewellGoes
  <2>4. QED
    BY <2>1, <2>2, <2>3
<1>6. ASSUME NEW t \in TopActors, NEW u \in TopActors, FirefoxSwapsPage(t, u)
      PROVE  Farewell' /\ GoneStays /\ Sends
  <2>1. /\ phase' = [Dying(t, "dying") EXCEPT ![u] = "live"] /\ phase[t] = "live"
        /\ phase[u] = "unborn"
        /\ Emit("available", u) /\ threads' = threads /\ u \in Actors
    BY <1>1, <1>6 DEF FirefoxSwapsPage, sessionVars
  <2>2. \A b \in Actors : phase'[b] = IF b = u THEN "live" ELSE Dying(t, "dying")[b]
    BY <2>1 DEF Dying
  <2>3. \A b \in Actors : Dying(t, "dying")[b] = "gone" <=> phase[b] = "gone"
    BY <2>1 DEF Dying, WorkersOf
  <2>4. phase'[u] # "gone" /\ \A b \in Actors : phase'[b] = "gone" <=> phase[b] = "gone"
    BY <2>1, <2>2, <2>3
  <2>5. "available" \in {"available", "source", "paused", "resumed"}
    OBVIOUS
  <2>6. Farewell'
    BY <1>1, <2>1, <2>4, <2>5, FarewellStays
  <2>7. QED
    BY <2>1, <2>4, <2>6
<1>7. ASSUME NEW w \in WorkerActors, FirefoxStartsWorker(w) PROVE Farewell' /\ GoneStays /\ Sends
  <2>1. /\ phase[w] = "unborn" /\ phase' = [phase EXCEPT ![w] = "live"]
        /\ Emit("available", w) /\ threads' = threads /\ w \in Actors
    BY <1>1, <1>7 DEF FirefoxStartsWorker, sessionVars
  <2>2. phase'[w] # "gone" /\ \A b \in Actors : phase'[b] = "gone" <=> phase[b] = "gone"
    BY <1>2, <2>1
  <2>3. "available" \in {"available", "source", "paused", "resumed"}
    OBVIOUS
  <2>4. Farewell'
    BY <1>1, <2>1, <2>2, <2>3, FarewellStays
  <2>5. QED
    BY <2>1, <2>2, <2>4
<1>8. ASSUME NEW a \in Actors, FirefoxDestroysLate(a) PROVE Farewell' /\ GoneStays /\ Sends
  <2>1. /\ phase' = [phase EXCEPT ![a] = "gone"] /\ Emit("destroyed", a) /\ threads' = threads
    BY <1>8 DEF FirefoxDestroysLate, sessionVars
  <2>2. \A b \in Actors : /\ phase'[b] = "gone" => b = a \/ phase[b] = "gone"
                          /\ phase[b] = "gone" => phase'[b] = "gone"
    BY <1>2, <2>1
  <2>3. Farewell'
    BY <1>1, <2>1, <2>2, FarewellGoes
  <2>4. QED
    BY <2>1, <2>2, <2>3
<1>9. Farewell' /\ GoneStays /\ Sends
  BY <1>3, <1>4, <1>5, <1>6, <1>7, <1>8 DEF FirefoxTargets
<1>10. \A b \in Actors : Sent("paused", b) \subseteq Sent("paused", b)'
  <2>1. CASE wire' = wire
    BY <2>1 DEF Sent
  <2>2. ASSUME NEW kind \in {"available", "destroyed"}, NEW a \in Actors, Emit(kind, a)
        PROVE  \A b \in Actors : Sent("paused", b) \subseteq Sent("paused", b)'
    BY <1>1, <2>2, SentGrows
  <2>3. QED
    BY <1>9, <2>1, <2>2
<1>11. \A b \in Actors : Summoned(b) => Summoned(b)'
  BY <1>1 DEF Summoned, Nudges, Orders
<1>12. QED
  BY <1>1, <1>9, <1>10, <1>11 DEF StillCalled, Called

\* Modules are no calls.
LEMMA ModuleCalls ==
  ASSUME Whole, AboutModules
  PROVE  StillCalled
<1>1. /\ ThreadTypes /\ UNCHANGED <<phase, commands>>
      /\ wire' = wire \/ \E a \in Actors : Emit("source", a)
  BY ModulesKeep DEF Whole
<1>2. \A b : Sent("paused", b) \subseteq Sent("paused", b)'
  <2>1. CASE wire' = wire
    BY <2>1 DEF Sent
  <2>2. ASSUME NEW a \in Actors, Emit("source", a)
        PROVE  \A b : Sent("paused", b) \subseteq Sent("paused", b)'
    <3>1. "source" \in {"available", "destroyed", "source", "paused", "resumed"}
      OBVIOUS
    <3>2. QED
      BY <1>1, <2>2, <3>1, SentGrows
  <2>3. QED
    BY <1>1, <2>1, <2>2
<1>3. \A b \in Actors : Summoned(b) => Summoned(b)'
  BY <1>1 DEF Summoned, Nudges, Orders
<1>4. \A i \in threads : i.actor \in Actors
  BY ThreadsAre
<1>5. QED
  BY <1>1, <1>2, <1>3, <1>4 DEF StillCalled, Called

\* The session after a packet about targets: the threads it had under their TIDs, and their
\* pauses, and at most a thread that was announced, which runs.
LEMMA TargetMoves ==
  ASSUME Whole, DeliverTarget, ~closed'
  PROVE  /\ Whole' /\ Interrupts /\ wire # <<>> /\ wire' = Tail(wire) /\ phase' = phase
         /\ Head(wire).kind \in {"available", "destroyed", "source"}
         /\ Head(wire) \in TargetPackets
         /\ dropped' = dropped \cup (ActorsOf(threads) \ ActorsOf(threads'))
                         \cup (IF Head(wire).kind = "destroyed" THEN {Head(wire).actor} ELSE {})
         /\ \A j \in threads' :
              \/ \E i \in threads : /\ i.actor = j.actor /\ i.tid = j.tid /\ (i.top <=> j.top)
                                    /\ i.tid \in pausedTids <=> j.tid \in pausedTids'
                                    /\ i.tid \in resumingTids <=> j.tid \in resumingTids'
              \/ /\ ~Known(j.actor) /\ j.tid \notin pausedTids' \cup resumingTids'
                 /\ Head(wire).kind = "available" /\ Head(wire).actor = j.actor
<1>1. /\ Deliver /\ wire # <<>> /\ wire' = Tail(wire) /\ phase' = phase
      /\ pausedTids' = pausedTids \ Leaving /\ resumingTids' = resumingTids \ Leaving
      /\ dropped' = dropped \cup (ActorsOf(threads) \ ActorsOf(threads'))
                      \cup (IF Head(wire).kind = "destroyed" THEN {Head(wire).actor} ELSE {})
  BY DEF DeliverTarget, Deliver
<1>2. SessionTypes /\ Sound /\ ThreadTypes /\ Tids
  BY DEF Whole
<1>3. Whole'
  BY TargetStep
<1>4. SessionTypes' /\ Sound'
  BY <1>3 DEF Whole
<1>5. Head(wire) \in Packets
  BY <1>1, <1>2, TailIs
<1>6. Head(wire).kind \in {"available", "destroyed", "source"}
  BY <1>1 DEF Deliver, OnEvent
<1>7. Head(wire) \in TargetPackets /\ Head(wire).actor \in Actors
  <2>1. PICK k \in {"available", "destroyed", "source", "paused", "resumed"}, a \in Actors :
          Head(wire) = [kind |-> k, actor |-> a]
    BY <1>5 DEF Packets
  <2>2. k \in {"available", "destroyed", "source"}
    BY <1>6, <2>1
  <2>3. QED
    BY <2>1, <2>2 DEF TargetPackets
<1>8. \A j \in threads' :
        \/ \E i \in threads : i.actor = j.actor /\ i.tid = j.tid
        \/ ~Known(j.actor) /\ Head(wire).kind = "available" /\ Head(wire).actor = j.actor
  BY <1>1, <1>2, <1>7, DeliverMoves
<1>9. Interrupts
  <2>1. Collect(threads', pausedTids \ Leaving, resumingTids \ Leaving) \/ NotCollecting
    BY DEF DeliverTarget
  <2>2. CASE NotCollecting
    BY <2>2 DEF NotCollecting, Interrupts
  <2>3. CASE Collect(threads', pausedTids \ Leaving, resumingTids \ Leaving)
    BY <2>3, Zenon DEF Collect, Interrupts
  <2>4. QED
    BY <2>1, <2>2, <2>3
<1>10. /\ \A i, j \in threads : i.tid = j.tid \/ i.actor = j.actor => i = j
       /\ \A i, j \in threads' : i.tid = j.tid \/ i.actor = j.actor => i = j
  BY <1>2, <1>4 DEF Sound, Threads
<1>11. \A i \in threads : i.tid \in Leaving <=> i.actor \notin ActorsOf(threads')
  BY <1>10 DEF Leaving, TidsOf
<1>12. /\ \A i \in threads : i.top <=> i.actor \in TopActors
       /\ \A j \in threads' : j.top <=> j.actor \in TopActors
  BY <1>2, <1>4 DEF Sound, Threads, Placed
<1>13. ASSUME NEW j \in threads', NEW i \in threads, i.actor = j.actor, i.tid = j.tid
       PROVE  /\ i.top <=> j.top
              /\ i.tid \in pausedTids <=> j.tid \in pausedTids'
              /\ i.tid \in resumingTids <=> j.tid \in resumingTids'
  <2>1. i.tid \notin Leaving
    BY <1>11, <1>13 DEF ActorsOf
  <2>2. i.top <=> j.top
    BY <1>12, <1>13
  <2>3. QED
    BY <1>1, <1>13, <2>1, <2>2
<1>14. ASSUME NEW j \in threads', ~Known(j.actor), j.tid \in pausedTids' \cup resumingTids'
       PROVE  FALSE
  <2>1. j.tid \in pausedTids \cup resumingTids /\ j.tid \notin Leaving
    BY <1>1, <1>14
  <2>2. PICK i \in threads : i.tid = j.tid
    BY <1>2, <2>1 DEF Tids, TidsOf
  <2>3. PICK k \in threads' : k.actor = i.actor
    BY <1>11, <2>1, <2>2 DEF ActorsOf
  <2>4. Known(k.actor)
    BY <2>3 DEF Known
  <2>5. PICK h \in threads : h.actor = k.actor /\ h.tid = k.tid
    BY <1>8, <2>4
  <2>6. h = i
    BY <1>10, <2>3, <2>5
  <2>7. k = j
    BY <1>10, <2>2, <2>5, <2>6
  <2>8. QED
    BY <1>14, <2>4, <2>7
<1>15. QED
  BY <1>1, <1>3, <1>6, <1>7, <1>8, <1>9, <1>13, <1>14

LEMMA TargetFarewell ==
  ASSUME Whole, Farewell, DeliverTarget, ~closed'
  PROVE  Farewell'
<1>1. /\ Whole' /\ wire # <<>> /\ wire' = Tail(wire) /\ phase' = phase
      /\ Head(wire).kind \in {"available", "destroyed", "source"}
      /\ Head(wire) \in TargetPackets
      /\ Head(wire).kind = "destroyed" => Head(wire).actor \in dropped'
      /\ \A j \in threads' :
           \/ \E i \in threads : i.actor = j.actor
           \/ Head(wire).kind = "available" /\ Head(wire).actor = j.actor
  <2>1. \A j \in threads' :
              \/ \E i \in threads : /\ i.actor = j.actor /\ i.tid = j.tid /\ (i.top <=> j.top)
                                    /\ i.tid \in pausedTids <=> j.tid \in pausedTids'
                                    /\ i.tid \in resumingTids <=> j.tid \in resumingTids'
              \/ /\ ~Known(j.actor) /\ j.tid \notin pausedTids' \cup resumingTids'
                 /\ Head(wire).kind = "available" /\ Head(wire).actor = j.actor
    BY TargetMoves
  <2>2. \A j \in threads' :
           \/ \E i \in threads : i.actor = j.actor
           \/ Head(wire).kind = "available" /\ Head(wire).actor = j.actor
    BY <2>1
  <2>3. /\ Whole' /\ wire # <<>> /\ wire' = Tail(wire) /\ phase' = phase
        /\ Head(wire).kind \in {"available", "destroyed", "source"}
        /\ Head(wire) \in TargetPackets
        /\ Head(wire).kind = "destroyed" => Head(wire).actor \in dropped'
    BY TargetMoves
  <2>4. QED
    BY <2>2, <2>3
<1>2. SessionTypes' /\ Graves' /\ ThreadTypes
  BY <1>1 DEF Whole, Sound
<1>3. PICK h \in TargetPackets : h = Head(wire)
  BY <1>1
<1>4. ASSUME NEW j \in threads'
      PROVE  /\ Known(j.actor) \/ Head(wire) = [kind |-> "available", actor |-> j.actor]
             /\ Head(wire) # [kind |-> "destroyed", actor |-> j.actor]
             /\ j.actor \in Actors
  <2>1. j.actor \in Actors
    BY <1>2 DEF SessionTypes, ThreadInfo
  <2>2. j.actor \notin dropped'
    BY <1>2 DEF Graves, ActorsOf
  <2>3. h.kind = "destroyed" => h.actor # j.actor
    BY <1>1, <1>3, <2>2
  <2>4. Known(j.actor) \/ (h.kind = "available" /\ h.actor = j.actor)
    BY <1>1, <1>3 DEF Known
  <2>5. h = [kind |-> h.kind, actor |-> h.actor]
    BY DEF TargetPackets
  <2>6. h.kind = "available" /\ h.actor = j.actor => h = [kind |-> "available", actor |-> j.actor]
    BY <2>5
  <2>7. h # [kind |-> "destroyed", actor |-> j.actor]
    BY <2>3
  <2>8. QED
    BY <1>3, <2>1, <2>4, <2>6, <2>7
<1>5. QED
  BY <1>1, <1>2, <1>4, FarewellDelivered

\* A report changes nothing about targets.
LEMMA ReportFarewell ==
  ASSUME Whole, Farewell, NEW kind \in {"paused", "resumed"}, NEW a \in Actors, Report(kind, a)
  PROVE  Farewell'
<1>1. /\ wire # <<>> /\ wire' = Tail(wire) /\ Head(wire) = [kind |-> kind, actor |-> a]
      /\ threads' = threads /\ phase' = phase /\ ThreadTypes
  BY DEF Report, sessionVars, Whole
<1>2. ASSUME NEW j \in threads
      PROVE  /\ Known(j.actor)
             /\ Head(wire) # [kind |-> "destroyed", actor |-> j.actor]
             /\ j.actor \in Actors
  <2>1. Head(wire).kind # "destroyed"
    BY <1>1
  <2>2. Known(j.actor) /\ j.actor \in Actors
    BY DEF Known, Whole, SessionTypes, ThreadInfo
  <2>3. QED
    BY <2>1, <2>2
<1>3. QED
  BY <1>1, <1>2, FarewellDelivered

-----------------------------------------------------------------------------
(* The books *)

\* A step that leaves the session's books alone, but for what KeepPauses says.
LEMMA BooksStay ==
  ASSUME Books, UNCHANGED <<operation, collecting, witnessed, pausedTids, unwitnessed>>,
         (lldb' = "waiting") <=> (lldb = "waiting"), published \cap pausedTids' \subseteq published'
  PROVE  Books'
  BY DEF Books

\* An operation begins.
LEMMA BooksArm ==
  ASSUME operation' = "pending", lldb' = "waiting"
  PROVE  Books'
  BY DEF Books

LEMMA ChunkBooks ==
  ASSUME Books, DebuggeeChunk, ~closed'
  PROVE  Books'
<1>1. CASE HearTarget
  <2>1. /\ pausedTids' = pausedTids \ Leaving /\ unwitnessed' = unwitnessed \ Leaving
        /\ operation' = operation /\ lldb' = lldb /\ published' = published \cap pausedTids'
        /\ operation # "pending" => witnessed' = witnessed
    BY <1>1 DEF HearTarget, DeliverTarget, ListenToTargets
  <2>2. collecting' = collecting
    <3>1. Collect(threads', pausedTids \ Leaving, resumingTids \ Leaving) \/ NotCollecting
      BY <1>1 DEF HearTarget, DeliverTarget
    <3>2. QED
      BY <3>1 DEF Collect, NotCollecting
  <2>3. QED
    BY <2>1, <2>2 DEF Books
<1>2. ASSUME NEW a \in Actors, DeliverPaused(a), HearThread PROVE Books'
  <2>1. PICK tid : tid = InfoOf(a).tid
    OBVIOUS
  <2>2. /\ pausedTids' = pausedTids \cup {tid} /\ unwitnessed' = Unreported(tid)
        /\ UNCHANGED <<operation, witnessed, lldb>> /\ published' = published \cap pausedTids'
    BY <1>2, <2>1 DEF DeliverPaused, HearThread, KeepPauses, Forget, adapterVars
  <2>3. collecting' = collecting \/ operation = "pending"
    <3>1. \/ Collect(threads, pausedTids \cup {tid}, resumingTids \ {tid}) \/ NotCollecting
          \/ operation = "pending"
      BY <1>2, <2>1 DEF DeliverPaused
    <3>2. QED
      BY <3>1 DEF Collect, NotCollecting
  <2>4. QED
    BY <2>2, <2>3 DEF Books, Unreported
<1>3. ASSUME NEW a \in Actors, DeliverResumed(a), HearThread PROVE Books'
  <2>1. PICK tid : tid = InfoOf(a).tid
    OBVIOUS
  <2>2. /\ pausedTids' = pausedTids \ {tid} /\ unwitnessed' = unwitnessed \ {tid}
        /\ UNCHANGED <<operation, witnessed, lldb>> /\ published' = published \cap pausedTids'
    BY <1>3, <2>1 DEF DeliverResumed, HearThread, KeepPauses, Forget, adapterVars
  <2>3. collecting' = collecting
    <3>1. Collect(threads, pausedTids \ {tid}, resumingTids \ {tid}) \/ NotCollecting
      BY <1>3, <2>1 DEF DeliverResumed
    <3>2. QED
      BY <3>1 DEF Collect, NotCollecting
  <2>4. QED
    BY <2>2, <2>3 DEF Books
<1>4. ASSUME NEW a \in Actors, DeliverStray(a), HearThread PROVE Books'
  <2>1. /\ UNCHANGED <<operation, collecting, witnessed, pausedTids, unwitnessed>> /\ lldb' = lldb
        /\ published \cap pausedTids' \subseteq published'
    BY <1>4 DEF DeliverStray, stopVars, HearThread, KeepPauses, Forget, adapterVars
  <2>2. QED
    BY <2>1, BooksStay
<1>5. CASE Continuation
  <2>1. operation = "pending" /\ lldb = "waiting" /\ pausedTids' = pausedTids
    BY <1>5 DEF Continuation, Settle, Books
  <2>2. CASE Publish
    <3>1. operation' = "idle" /\ collecting' = FALSE /\ witnessed' = {}
      BY <2>2 DEF Publish, EndOperation
    <3>2. lldb' = "reading" /\ published' = pausedTids
      BY <1>5, <3>1 DEF Continuation, OnStopped
    <3>3. QED
      BY <2>1, <3>1, <3>2 DEF Books
  <2>3. CASE StartOver \/ WaitAgain
    <3>1. operation' = operation
      BY <2>3 DEF StartOver, WaitAgain
    <3>2. lldb' = lldb
      BY <1>5, <2>1, <3>1 DEF Continuation, adapterVars
    <3>3. QED
      BY <2>1, <3>1, <3>2 DEF Books
  <2>4. QED
    BY <1>5, <2>2, <2>3 DEF Continuation, Settle
<1>6. QED
  BY <1>1, <1>2, <1>3, <1>4, <1>5 DEF DebuggeeChunk, HearThread

\* Continue and step arm an operation, however they go about it.
LEMMA ExecutionArms ==
  ASSUME DoContinue \/ \E tid \in pausedTids : DoSingleStep(tid)
  PROVE  Arm /\ ArmStopped /\ lldb' = "waiting"
<1>1. AdoptOldest => Arm /\ ArmStopped
  BY DEF AdoptOldest, AdoptPausedState
<1>2. CASE DoContinue
  BY <1>1, <1>2 DEF DoContinue, Execute, ArmForHost, Continue
<1>3. ASSUME NEW tid \in pausedTids, DoSingleStep(tid) PROVE Arm /\ ArmStopped /\ lldb' = "waiting"
  BY <1>1, <1>3 DEF DoSingleStep, Execute, ArmForHost, SingleStep
<1>4. QED
  BY <1>2, <1>3

LEMMA BooksStep ==
  ASSUME Books, DebuggeeNext, ~closed'
  PROVE  Books'
<1>1. CASE DebuggeeChunk
  BY <1>1, ChunkBooks
<1>2. CASE DoContinue \/ \E tid \in pausedTids : DoSingleStep(tid)
  <2>1. operation' = "pending" /\ lldb' = "waiting"
    BY <1>2, ExecutionArms DEF Arm
  <2>2. QED
    BY <2>1, BooksArm
<1>3. CASE SnapshotAgain \/ PrimeStop
  <2>1. operation' = "pending" /\ lldb' = "waiting"
    BY <1>3 DEF SnapshotAgain, PrimeStop, AdoptOldest, AdoptPausedState, Prime, Arm
  <2>2. QED
    BY <2>1, BooksArm
<1>4. ASSUME NEW tid \in pausedTids, SnapshotThread(tid) PROVE Books'
  <2>1. /\ UNCHANGED <<operation, collecting, witnessed, pausedTids, unwitnessed>>
        /\ published' = published /\ lldb = "reading" /\ lldb' \in {"reading", "resuming", "prompt"}
    BY <1>4 DEF SnapshotThread, HandOver
  <2>2. QED
    BY <2>1, BooksStay
<1>5. CASE SnapshotFails \/ StepLost \/ PrimeTimeout \/ SessionEnds
  BY <1>5 DEF SnapshotFails, StepLost, PrimeTimeout, SessionEnds, Deadline, StopSessionClose,
     SessionClose, CloseSession
<1>6. CASE PrimeNothing
  <2>1. /\ UNCHANGED <<operation, collecting, witnessed, pausedTids, unwitnessed>>
        /\ published' = published /\ lldb = "start" /\ lldb' = "prompt"
    BY <1>6 DEF PrimeNothing, allVars, stopVars
  <2>2. QED
    BY <2>1, BooksStay
<1>7. CASE TriggerInterrupt
  <2>1. /\ UNCHANGED <<operation, collecting, witnessed, pausedTids, unwitnessed>>
        /\ published' = published /\ lldb' = lldb
    BY <1>7 DEF TriggerInterrupt, stopVars
  <2>2. QED
    BY <2>1, BooksStay
<1>8. CASE ResyncCheck
  <2>1. CASE ResyncAdopts
    <3>1. operation = "pending" /\ UNCHANGED <<operation, lldb>>
      BY <2>1 DEF ResyncAdopts
    <3>2. QED
      BY <3>1 DEF Books
  <2>2. CASE ResyncDeferred \/ ResyncForces
    <3>1. /\ UNCHANGED <<operation, collecting, witnessed, pausedTids, unwitnessed>>
          /\ published' = published /\ lldb' = lldb
      BY <2>2 DEF ResyncDeferred, ResyncForces, allVars, stopVars
    <3>2. QED
      BY <3>1, BooksStay
  <2>3. QED
    BY <1>8, <2>1, <2>2 DEF ResyncCheck
<1>9. CASE OwnPause \/ (\E a \in Actors : Execution(a)) \/ TargetsChange
  <2>1. /\ UNCHANGED <<operation, collecting, witnessed, pausedTids, unwitnessed>>
        /\ published' = published \cap pausedTids' /\ lldb' = lldb
    BY <1>9 DEF OwnPause, Execution, TargetsChange, FirefoxPauses, FirefoxExecutes, FirefoxTargets,
       stopVars, adapterVars, KeepPauses, Forget
  <2>2. QED
    BY <2>1, BooksStay
<1>10. CASE AboutModules
  <2>1. /\ UNCHANGED <<operation, collecting, witnessed, pausedTids, unwitnessed>>
        /\ published' = published \cap pausedTids' /\ lldb' = lldb
    BY <1>10, ModulesKeep DEF adapterVars, KeepPauses, Forget
  <2>2. QED
    BY <2>1, BooksStay
<1>11. QED
  BY <1>1, <1>2, <1>3, <1>4, <1>5, <1>6, <1>7, <1>8, <1>9, <1>10
     DEF DebuggeeNext, Component, User, AboutModules

\* Nobody but Firefox and a packet has anything to do with targets.
LEMMA FarewellStep ==
  ASSUME Whole, Farewell, DebuggeeNext, ~closed'
  PROVE  Farewell'
<1>1. /\ ThreadTypes /\ \A i \in threads : i.actor \in Actors
  BY DEF Whole, SessionTypes, ThreadInfo
<1>2. CASE UNCHANGED vars
  <2>1. UNCHANGED <<threads, wire, phase>>
    BY <1>2 DEF vars, sessionVars, firefoxVars
  <2>2. \A k, a : Sent(k, a)' = Sent(k, a)
    BY <2>1 DEF Sent
  <2>3. QED
    BY <2>1, <2>2 DEF Farewell
<1>3. CASE HearTarget
  BY <1>3, TargetFarewell DEF HearTarget
<1>4. CASE HearThread
  <2>1. \E kind \in {"paused", "resumed"}, a \in Actors : Report(kind, a)
    BY <1>4 DEF HearThread, DeliverPaused, DeliverResumed, DeliverStray
  <2>2. QED
    BY <2>1, ReportFarewell
<1>5. CASE OwnPause \/ \E a \in Actors : Execution(a)
  <2>1. PICK a \in Actors : FirefoxPauses(a) \/ FirefoxExecutes(a)
    BY <1>5 DEF OwnPause, Execution
  <2>2. /\ UNCHANGED <<threads, phase>>
        /\ wire' = wire \/ \E kind \in {"paused", "resumed"} : Emit(kind, a)
    BY <2>1 DEF FirefoxPauses, FirefoxExecutes, sessionVars
  <2>3. \A kind \in {"paused", "resumed"} :
          kind \in {"available", "source", "paused", "resumed"} /\ kind # "available"
    OBVIOUS
  <2>4. CASE wire' = wire
    BY <1>1, <2>2, <2>3, <2>4, FarewellStays
  <2>5. ASSUME NEW kind \in {"paused", "resumed"}, Emit(kind, a) PROVE Farewell'
    BY <1>1, <2>2, <2>3, <2>5, FarewellStays
  <2>6. QED
    BY <2>2, <2>4, <2>5
<1>6. CASE TargetsChange
  BY <1>6, TargetsChangeStep DEF TargetsChange
<1>7. CASE Continuation
  BY <1>2, <1>7 DEF Continuation, Settle
<1>8. CASE SnapshotFails \/ StepLost \/ PrimeTimeout \/ SessionEnds
  BY <1>8 DEF SnapshotFails, StepLost, PrimeTimeout, SessionEnds, Deadline, StopSessionClose,
     SessionClose, CloseSession
<1>9. AdoptOldest \/ ArmForHost \/ Continue \/ (\E tid : SingleStep(tid)) => UNCHANGED vars
  BY DEF AdoptOldest, AdoptPausedState, ArmForHost, Continue, SingleStep
<1>10. CASE DoContinue \/ \E tid \in pausedTids : DoSingleStep(tid)
  BY <1>2, <1>9, <1>10 DEF DoContinue, DoSingleStep, Execute
<1>11. CASE SnapshotAgain \/ PrimeStop \/ PrimeNothing \/ TriggerInterrupt
  BY <1>2, <1>9, <1>11 DEF SnapshotAgain, PrimeStop, Prime, PrimeNothing, TriggerInterrupt, allVars
<1>12. CASE ResyncCheck
  BY <1>2, <1>12 DEF ResyncCheck, ResyncDeferred, ResyncAdopts, ResyncForces, allVars
<1>13. ASSUME NEW tid \in pausedTids, SnapshotThread(tid) PROVE Farewell'
  BY <1>2, <1>13 DEF SnapshotThread
<1>14. CASE AboutModules
  <2>1. /\ UNCHANGED <<threads, phase>> /\ FirstPage \in Actors
        /\ wire' = wire \/ \E a \in Actors : Emit("source", a)
    BY <1>14, ModulesKeep, DebuggeeAssumption DEF Actors
  <2>2. "source" \in {"available", "source", "paused", "resumed"} /\ "source" # "available"
    OBVIOUS
  <2>3. CASE wire' = wire
    BY <1>1, <2>1, <2>2, <2>3, FarewellStays
  <2>4. ASSUME NEW a \in Actors, Emit("source", a) PROVE Farewell'
    BY <1>1, <2>1, <2>2, <2>4, FarewellStays
  <2>5. QED
    BY <2>1, <2>3, <2>4
<1>15. QED
  BY <1>3, <1>4, <1>5, <1>6, <1>7, <1>8, <1>10, <1>11, <1>12, <1>13, <1>14
     DEF DebuggeeNext, DebuggeeChunk, Component, User, AboutModules

-----------------------------------------------------------------------------
(* Collecting *)

\* However threads have come to be interrupted, those that have just been are called.
LEMMA Collects ==
  ASSUME ThreadTypes, NEW L, NEW P, NEW R, NEW t, NEW old, NEW new,
         threads' = L, pausedTids' = P, resumingTids' = R, trigger' = t,
         new = ToInterrupt(L, P, R, t, old), interrupted' = old \cup new, SendTo(new, "interrupt"),
         ready' = TRUE \/ ~Complete(L, P, t),
         \A i, j \in L : i.actor = j.actor => i = j, \A i \in L : i.actor \in Actors,
         \A j \in L : j.actor \in old => Answered(j)',
         old \subseteq ActorsOf(L) \cup dropped'
  PROVE  Collection'
<1>1. \A a \in new : \E k \in L : k.actor = a /\ k.tid \notin P \cup R
  BY DEF ToInterrupt
<1>2. t \in ActorsOf(L) => \A i \in L : i.tid \notin P \cup R => i.actor \in old \cup new
  BY DEF ToInterrupt
<1>3. \A a \in Actors \cap new : Summoned(a)'
  BY SendNudges
<1>4. ASSUME NEW j \in L, j.actor \in interrupted' PROVE Answered(j)'
  <2>1. CASE j.actor \in old
    BY <2>1
  <2>2. CASE j.actor \in new
    <3>1. j.tid \notin P \cup R
      BY <1>1, <2>2
    <3>2. Summoned(j.actor)'
      BY <1>3, <2>2
    <3>3. Called(j.actor)'
      BY <3>2 DEF Called
    <3>4. QED
      BY <3>1, <3>3 DEF Answered
  <2>3. QED
    BY <1>4, <2>1, <2>2
<1>5. new \subseteq ActorsOf(L)
  BY <1>1 DEF ActorsOf
<1>6. ~ready' => ~Complete(L, P, t)
  OBVIOUS
<1>7. interrupted' \subseteq ActorsOf(L) \cup dropped'
  BY <1>5
<1>8. (~ready => ~Complete(threads, pausedTids, trigger))'
  BY <1>6 DEF Complete, ActorsOf, TidsOf
<1>9. QED
  BY <1>2, <1>4, <1>7, <1>8 DEF Collection, ActorsOf

\* The collector that begins.
LEMMA BeginCollects ==
  ASSUME ThreadTypes, NEW L, NEW P, NEW R, NEW a, Begin(a, L, P, R),
         threads' = L, pausedTids' = P, resumingTids' = R,
         \A i, j \in L : i.actor = j.actor => i = j, \A i \in L : i.actor \in Actors
  PROVE  Collection'
<1>0. PICK none : none = {}
  OBVIOUS
<1> DEFINE new == ToInterrupt(L, P, R, a, none)
<1>1. trigger' = a /\ interrupted' = new /\ SendTo(interrupted', "interrupt")
      /\ ready' = Complete(L, P, a)
  BY <1>0 DEF Begin
<1> HIDE DEF new
<1>2. interrupted' = none \cup new /\ SendTo(new, "interrupt")
  BY <1>0, <1>1
<1>3. ready' = TRUE \/ ~Complete(L, P, a)
  <2>1. Complete(L, P, a) \in BOOLEAN
    BY DEF Complete
  <2>2. QED
    BY <1>1, <2>1
<1>4. none \subseteq ActorsOf(L) \cup dropped' /\ \A j \in L : j.actor \in none => Answered(j)'
  BY <1>0
<1>5. new = ToInterrupt(L, P, R, a, none)
  BY DEF new
<1>6. QED
  BY <1>1, <1>2, <1>3, <1>4, <1>5, Collects

\* The collector that runs.
LEMMA CollectCollects ==
  ASSUME ThreadTypes, NEW L, NEW P, NEW R, Collect(L, P, R),
         threads' = L, pausedTids' = P, resumingTids' = R,
         \A i, j \in L : i.actor = j.actor => i = j, \A i \in L : i.actor \in Actors,
         \A j \in L : j.actor \in interrupted => Answered(j)',
         interrupted \subseteq ActorsOf(L) \cup dropped'
  PROVE  Collection'
<1> DEFINE new == ToInterrupt(L, P, R, trigger, interrupted)
<1>1. /\ trigger' = trigger /\ interrupted' = interrupted \cup new /\ SendTo(new, "interrupt")
      /\ ready' = (ready \/ Complete(L, P, trigger))
  BY DEF Collect
<1>2. new = ToInterrupt(L, P, R, trigger, interrupted)
  OBVIOUS
<1> HIDE DEF new
<1>3. ready' = TRUE \/ ~Complete(L, P, trigger)
  <2>1. Complete(L, P, trigger) \in BOOLEAN
    BY DEF Complete
  <2>2. QED
    BY <1>1, <2>1
<1>4. QED
  BY <1>1, <1>2, <1>3, Collects

\* A step that leaves the collector and the session's books alone.
LEMMA CollectionStays ==
  ASSUME Whole, Collection, StillCalled,
         UNCHANGED <<threads, dropped, pausedTids, resumingTids, trigger, interrupted, ready>>
  PROVE  Collection'
<1>1. \A i \in threads : Answered(i) => Answered(i)'
  BY DEF Answered, StillCalled
<1>2. UNCHANGED <<ActorsOf(threads), TidsOf(threads)>>
  BY DEF ActorsOf, TidsOf
<1>3. QED
  BY <1>1, <1>2 DEF Collection, Complete

LEMMA TargetCollection ==
  ASSUME Whole, Collection, DeliverTarget, collecting, ~closed'
  PROVE  Collection'
<1>1. /\ Whole' /\ Interrupts /\ wire # <<>> /\ wire' = Tail(wire) /\ phase' = phase
      /\ Head(wire).kind \in {"available", "destroyed", "source"}
      /\ ActorsOf(threads) \subseteq ActorsOf(threads') \cup dropped' /\ dropped \subseteq dropped'
  BY TargetMoves
<1>2. \A j \in threads' :
        \/ \E i \in threads : /\ i.actor = j.actor /\ i.tid = j.tid /\ (i.top <=> j.top)
                              /\ i.tid \in pausedTids <=> j.tid \in pausedTids'
                              /\ i.tid \in resumingTids <=> j.tid \in resumingTids'
        \/ /\ ~Known(j.actor) /\ j.tid \notin pausedTids' \cup resumingTids'
           /\ Head(wire).kind = "available" /\ Head(wire).actor = j.actor
  BY TargetMoves
<1>3. ThreadTypes /\ Graves'
  BY <1>1 DEF Whole, Sound
<1>4. /\ \A i, j \in threads' : i.actor = j.actor => i = j
      /\ \A i \in threads' : i.actor \in Actors
  BY <1>1 DEF Whole, SessionTypes, ThreadInfo, Sound, Threads
<1>5. Collect(threads', pausedTids \ Leaving, resumingTids \ Leaving)
      /\ pausedTids' = pausedTids \ Leaving /\ resumingTids' = resumingTids \ Leaving
  BY DEF DeliverTarget
<1>6. ASSUME NEW j \in threads', j.actor \in interrupted PROVE Answered(j)'
  <2>1. CASE Known(j.actor)
    <3>1. PICK i \in threads : /\ i.actor = j.actor /\ i.tid = j.tid
                               /\ i.tid \in pausedTids <=> j.tid \in pausedTids'
                               /\ i.tid \in resumingTids <=> j.tid \in resumingTids'
      BY <1>2, <2>1
    <3>2. Answered(i)
      BY <1>6, <3>1 DEF Collection
    <3>3. Called(j.actor) => Called(j.actor)'
      BY <1>1, <1>3, <1>4, DeliverCalls
    <3>4. QED
      BY <3>1, <3>2, <3>3 DEF Answered
  <2>2. CASE ~Known(j.actor)
    <3>1. j.actor \notin ActorsOf(threads)
      BY <2>2 DEF Known, ActorsOf
    <3>2. j.actor \in dropped'
      BY <1>1, <1>6, <3>1 DEF Collection
    <3>3. j.actor \in ActorsOf(threads')
      BY DEF ActorsOf
    <3>4. QED
      BY <1>3, <3>2, <3>3 DEF Graves, ActorsOf
  <2>3. QED
    BY <2>1, <2>2
<1>7. interrupted \subseteq ActorsOf(threads') \cup dropped'
  BY <1>1 DEF Collection
<1>8. QED
  BY <1>3, <1>4, <1>5, <1>6, <1>7, CollectCollects

\* What a report of a thread leaves of the others' calls.
LEMMA ReportCalls ==
  ASSUME Whole, NEW kind, NEW a \in Actors, Report(kind, a), Interrupts,
         NEW b \in Actors, b # a \/ kind # "paused"
  PROVE  Called(b) => Called(b)'
<1>1. /\ ThreadTypes /\ wire # <<>> /\ wire' = Tail(wire) /\ phase' = phase
      /\ Head(wire).kind = kind /\ Head(wire).actor = a
  BY DEF Whole, Report
<1>2. QED
  BY <1>1, DeliverCalls

LEMMA PausedCollection ==
  ASSUME Whole, Books, collecting => Collection, NEW a \in Actors, DeliverPaused(a), collecting'
  PROVE  Collection'
<1>0. PICK me : me = InfoOf(a)
  OBVIOUS
<1>1. /\ Report("paused", a) /\ Known(a)
      /\ pausedTids' = pausedTids \cup {me.tid} /\ resumingTids' = resumingTids \ {me.tid}
      /\ UNCHANGED <<threads, dropped>>
  BY <1>0 DEF DeliverPaused, Report, sessionVars
<1>2. /\ ThreadTypes /\ \A i, j \in threads : i.actor = j.actor => i = j
      /\ \A i \in threads : i.actor \in Actors
  BY ThreadsAre DEF Whole
<1>3. me \in threads /\ me.actor = a
  BY <1>0, <1>1, KnownIs DEF Whole
<1>4. CASE collecting
  <2>1. Collect(threads, pausedTids \cup {me.tid}, resumingTids \ {me.tid})
    BY <1>0, <1>4 DEF DeliverPaused
  <2>2. Interrupts
    BY <2>1, CollectorInterrupts
  <2>3. ASSUME NEW i \in threads, i.actor \in interrupted PROVE Answered(i)'
    <3>1. Answered(i)
      BY <1>4, <2>3 DEF Collection
    <3>2. i # me /\ Called(i.actor) => Called(i.actor)'
      BY <1>1, <1>2, <1>3, <2>2, ReportCalls
    <3>3. QED
      BY <1>1, <3>1, <3>2 DEF Answered
  <2>4. interrupted \subseteq ActorsOf(threads) \cup dropped'
    BY <1>1, <1>4 DEF Collection
  <2>5. QED
    BY <1>1, <1>2, <2>1, <2>3, <2>4, CollectCollects
<1>5. CASE ~collecting
  <2>1. Begin(a, threads, pausedTids \cup {me.tid}, resumingTids \ {me.tid}) \/ NotCollecting
    BY <1>0, <1>5 DEF DeliverPaused
  <2>2. CASE NotCollecting
    BY <1>5, <2>2 DEF NotCollecting
  <2>3. CASE Begin(a, threads, pausedTids \cup {me.tid}, resumingTids \ {me.tid})
    BY <1>1, <1>2, <2>3, BeginCollects
  <2>4. QED
    BY <2>1, <2>2, <2>3
<1>6. QED
  BY <1>4, <1>5

\* A thread that reports to be resumed was about to be.
LEMMA ResumedWas ==
  ASSUME Whole, NEW a \in Actors, DeliverResumed(a)
  PROVE  /\ InfoOf(a) \in threads /\ InfoOf(a).actor = a
         /\ InfoOf(a).tid \in resumingTids /\ InfoOf(a).tid \notin pausedTids
<1>1. /\ wire # <<>> /\ wire' = Tail(wire) /\ Head(wire).kind = "resumed" /\ Head(wire).actor = a
      /\ Known(a) /\ ThreadTypes
  BY DEF DeliverResumed, Report, Whole
<1>2. InfoOf(a) \in threads /\ InfoOf(a).actor = a
  BY <1>1, KnownIs DEF Whole
<1>3. 1 \in Sent("resumed", a)
  BY <1>1, TailIs
<1>4. ~Stands(a) /\ ~Runs(a)
  BY <1>3 DEF Stands, Runs
<1>5. Watched(InfoOf(a))
  BY <1>2 DEF Whole, Channels
<1>6. QED
  BY <1>2, <1>4, <1>5 DEF Watched

LEMMA ResumedCollection ==
  ASSUME Whole, collecting => Collection, NEW a \in Actors, DeliverResumed(a), collecting'
  PROVE  Collection'
<1>0. PICK me : me = InfoOf(a)
  OBVIOUS
<1>1. /\ Report("resumed", a)
      /\ pausedTids' = pausedTids \ {me.tid} /\ resumingTids' = resumingTids \ {me.tid}
      /\ UNCHANGED <<threads, dropped>>
  BY <1>0 DEF DeliverResumed, Report, sessionVars
<1>2. /\ ThreadTypes /\ \A i, j \in threads : i.actor = j.actor => i = j
      /\ \A i \in threads : i.actor \in Actors
  BY ThreadsAre DEF Whole
<1>3. me \in threads /\ me.actor = a /\ me.tid \in resumingTids /\ me.tid \notin pausedTids
  BY <1>0, ResumedWas
<1>4. Collect(threads, pausedTids \ {me.tid}, resumingTids \ {me.tid}) \/ NotCollecting
  BY <1>0 DEF DeliverResumed
<1>5. collecting
  BY <1>4 DEF Collect, NotCollecting
<1>6. Collect(threads, pausedTids \ {me.tid}, resumingTids \ {me.tid})
  BY <1>0, <1>5 DEF DeliverResumed
<1>7. Interrupts
  BY <1>6, CollectorInterrupts
<1>8. ASSUME NEW i \in threads, i.actor \in interrupted PROVE Answered(i)'
  <2>1. Answered(i)
    BY <1>5, <1>8 DEF Collection
  <2>2. Called(i.actor) => Called(i.actor)'
    BY <1>1, <1>2, <1>7, ReportCalls
  <2>3. i.tid # me.tid
    BY <1>3, <2>1 DEF Answered
  <2>4. QED
    BY <1>1, <2>1, <2>2, <2>3 DEF Answered
<1>9. interrupted \subseteq ActorsOf(threads) \cup dropped'
  BY <1>1, <1>5 DEF Collection
<1>10. QED
  BY <1>1, <1>2, <1>6, <1>8, <1>9, CollectCollects

LEMMA StrayCollection ==
  ASSUME Whole, Collection, NEW a \in Actors, DeliverStray(a)
  PROVE  Collection'
<1>1. PICK kind \in {"paused", "resumed"} : Report(kind, a)
  BY DEF DeliverStray
<1>2. /\ UNCHANGED <<threads, dropped, pausedTids, resumingTids, trigger, interrupted, ready>>
      /\ Interrupts /\ ~Known(a)
  BY <1>1 DEF DeliverStray, Report, sessionVars, stopVars, threadVars, Interrupts
<1>3. ASSUME NEW i \in threads, Called(i.actor) PROVE Called(i.actor)'
  <2>1. i.actor \in Actors /\ i.actor # a
    BY <1>2, ThreadsAre DEF Known
  <2>2. QED
    BY <1>1, <1>2, <1>3, <2>1, ReportCalls
<1>4. QED
  BY <1>2, <1>3, CollectionStays DEF StillCalled

LEMMA NudgeCalls ==
  ASSUME Whole, UNCHANGED vars, Interrupts
  PROVE  StillCalled
<1>1. ThreadTypes /\ UNCHANGED <<wire, phase>> /\ \A i \in threads : i.actor \in Actors
  BY ThreadsAre DEF Whole, vars, firefoxVars
<1>2. \A a \in Actors : Summoned(a) => Summoned(a)'
  BY <1>1, InterruptCalls
<1>3. \A a : Sent("paused", a)' = Sent("paused", a)
  BY <1>1 DEF Sent
<1>4. QED
  BY <1>1, <1>2, <1>3 DEF StillCalled, Called

\* A command that is sent while LLDB's command is armed, or by a timer.
LEMMA SessionVarsStay ==
  ASSUME UNCHANGED vars
  PROVE  UNCHANGED <<threads, dropped, closed, wire, phase>>
  BY DEF vars, sessionVars, firefoxVars

LEMMA SettleCollection ==
  ASSUME Whole, Collection, Settle, collecting'
  PROVE  Collection'
<1>1. /\ UNCHANGED <<threads, dropped, pausedTids, resumingTids>> /\ ThreadTypes
      /\ \A i, j \in threads : i.actor = j.actor => i = j
      /\ \A i \in threads : i.actor \in Actors
  BY ThreadsAre, SessionVarsStay DEF Settle, Whole
<1>2. CASE StartOver
  <2>1. PICK a : Begin(a, threads, pausedTids, resumingTids)
    BY <1>2, Zenon DEF StartOver
  <2>2. QED
    BY <1>1, <2>1, BeginCollects
<1>3. CASE Publish
  BY <1>3 DEF Publish, EndOperation
<1>4. CASE WaitAgain /\ ~Complete(threads, pausedTids, trigger)
  <2> DEFINE new == ToInterrupt(threads, pausedTids, resumingTids, trigger, interrupted)
  <2>1. /\ trigger' = trigger /\ interrupted' = interrupted \cup new
        /\ SendTo(interrupted' \ interrupted, "interrupt")
    BY <1>4 DEF WaitAgain
  <2>2. new = ToInterrupt(threads, pausedTids, resumingTids, trigger, interrupted)
    OBVIOUS
  <2>3. new \cap interrupted = {}
    BY DEF ToInterrupt
  <2> HIDE DEF new
  <2>4. interrupted' \ interrupted = new
    BY <2>1, <2>3
  <2>5. SendTo(new, "interrupt")
    BY <2>1, <2>4
  <2>6. ASSUME NEW i \in threads, i.actor \in interrupted PROVE Answered(i)'
    <3>1. Answered(i)
      BY <2>6 DEF Collection
    <3>2. Called(i.actor) => Called(i.actor)'
      <4>1. UNCHANGED <<wire, phase>>
        BY SessionVarsStay DEF Settle
      <4>2. QED
        BY <1>1, <2>5, <4>1, SendCalls
    <3>3. QED
      BY <1>1, <3>1, <3>2 DEF Answered
  <2>7. interrupted \subseteq ActorsOf(threads) \cup dropped'
    BY <1>1 DEF Collection
  <2>8. QED
    BY <1>1, <1>4, <2>1, <2>2, <2>5, <2>6, <2>7, Collects
<1>5. QED
  BY <1>2, <1>3, <1>4 DEF Settle

LEMMA AdoptCollection ==
  ASSUME Whole, AdoptPausedState
  PROVE  Collection'
<1>1. /\ UNCHANGED <<threads, pausedTids, resumingTids>> /\ ThreadTypes
      /\ \A i, j \in threads : i.actor = j.actor => i = j
      /\ \A i \in threads : i.actor \in Actors
      /\ \E a : Begin(a, threads, pausedTids, resumingTids)
  BY ThreadsAre, SessionVarsStay, Zenon DEF AdoptPausedState, Whole
<1>2. QED
  BY <1>1, BeginCollects

\* Nothing is collected between operations.
LEMMA IdleCollectsNothing ==
  ASSUME Books, Arm
  PROVE  ~collecting
  BY DEF Books, Arm

LEMMA ExecutionCollection ==
  ASSUME Whole, Books, DoContinue \/ \E tid \in pausedTids : DoSingleStep(tid), collecting'
  PROVE  Collection'
<1>1. CASE AdoptOldest
  BY <1>1, AdoptCollection DEF AdoptOldest
<1>2. CASE ArmForHost \/ Continue \/ \E tid : SingleStep(tid)
  <2>1. collecting' = collecting /\ Arm
    BY <1>2 DEF ArmForHost, Continue, SingleStep
  <2>2. QED
    BY <2>1, IdleCollectsNothing
<1>3. QED
  BY <1>1, <1>2 DEF DoContinue, DoSingleStep, Execute

LEMMA CollectionStep ==
  ASSUME Whole, Books, Farewell, collecting => Collection, DebuggeeNext, ~closed', collecting'
  PROVE  Collection'
<1>1. CASE HearTarget
  <2>1. DeliverTarget
    BY <1>1 DEF HearTarget
  <2>2. Collect(threads', pausedTids \ Leaving, resumingTids \ Leaving) \/ NotCollecting
    BY <2>1 DEF DeliverTarget
  <2>3. collecting
    BY <2>2 DEF Collect, NotCollecting
  <2>4. QED
    BY <2>1, <2>3, TargetCollection
<1>2. CASE HearThread
  <2>1. PICK a \in Actors : DeliverPaused(a) \/ DeliverResumed(a) \/ DeliverStray(a)
    BY <1>2 DEF HearThread
  <2>2. CASE DeliverStray(a)
    <3>1. collecting
      BY <2>2 DEF DeliverStray, stopVars
    <3>2. QED
      BY <2>2, <3>1, StrayCollection
  <2>3. QED
    BY <2>1, <2>2, PausedCollection, ResumedCollection
<1>3. CASE Continuation
  BY <1>3, SettleCollection DEF Continuation, Settle
<1>4. CASE DoContinue \/ \E tid \in pausedTids : DoSingleStep(tid)
  BY <1>4, ExecutionCollection
<1>5. CASE SnapshotAgain
  BY <1>5, AdoptCollection DEF SnapshotAgain, AdoptOldest
<1>6. CASE PrimeStop
  <2>1. CASE AdoptOldest
    BY <2>1, AdoptCollection DEF AdoptOldest
  <2>2. CASE \E a \in Actors : Prime(a)
    BY <2>2, IdleCollectsNothing DEF Prime
  <2>3. QED
    BY <1>6, <2>1, <2>2 DEF PrimeStop
<1>7. ASSUME UNCHANGED vars, Interrupts,
             UNCHANGED <<pausedTids, resumingTids, trigger, interrupted, ready, collecting>>
      PROVE  Collection'
  <2>1. StillCalled /\ UNCHANGED <<threads, dropped>>
    BY <1>7, NudgeCalls, SessionVarsStay
  <2>2. QED
    BY <1>7, <2>1, CollectionStays
<1>8. ASSUME NEW tid \in pausedTids, SnapshotThread(tid) PROVE Collection'
  BY <1>7, <1>8 DEF SnapshotThread, threadVars, Interrupts
<1>9. CASE PrimeNothing \/ ResyncDeferred
  BY <1>7, <1>9 DEF PrimeNothing, ResyncDeferred, allVars, stopVars, threadVars, Interrupts
<1>10. CASE TriggerInterrupt
  <2>1. /\ UNCHANGED vars
        /\ InterruptForHost \/ UNCHANGED commands
        /\ UNCHANGED <<pausedTids, resumingTids, trigger, interrupted, ready, collecting>>
    BY <1>10 DEF TriggerInterrupt, stopVars
  <2>2. UNCHANGED commands \/ \E a \in Actors : SendTo({a}, "interrupt")
    BY <2>1, ForHostIs DEF Whole
  <2>3. Interrupts
    BY <2>2 DEF Interrupts
  <2>4. QED
    BY <1>7, <2>1, <2>3
<1>11. CASE ResyncForces
  <2>1. /\ UNCHANGED vars /\ \E i \in threads : SendTo({i.actor}, "interrupt")
        /\ UNCHANGED <<pausedTids, resumingTids, trigger, interrupted, ready, collecting>>
    BY <1>11 DEF ResyncForces, stopVars
  <2>2. Interrupts
    BY <2>1 DEF Interrupts
  <2>3. QED
    BY <1>7, <2>1, <2>2
<1>12. CASE ResyncAdopts
  <2>1. /\ UNCHANGED vars /\ UNCHANGED <<pausedTids, resumingTids>>
        /\ NotCollecting \/ (\E a : Begin(a, threads, pausedTids, resumingTids))
    BY <1>12, Zenon DEF ResyncAdopts
  <2>2. CASE NotCollecting
    BY <1>7, <2>1, <2>2 DEF NotCollecting, Interrupts
  <2>3. ASSUME NEW a, Begin(a, threads, pausedTids, resumingTids) PROVE Collection'
    <3>1. /\ UNCHANGED <<threads, pausedTids, resumingTids>> /\ ThreadTypes
          /\ \A i, j \in threads : i.actor = j.actor => i = j
          /\ \A i \in threads : i.actor \in Actors
      BY <2>1, ThreadsAre, SessionVarsStay DEF Whole
    <3>2. QED
      BY <2>3, <3>1, BeginCollects
  <2>4. QED
    BY <2>1, <2>2, <2>3
<1>13. ASSUME StillCalled, UNCHANGED sessionVars, UNCHANGED stopVars PROVE Collection'
  BY <1>13, CollectionStays DEF sessionVars, stopVars
<1>14. CASE OwnPause
  <2>1. PICK a \in Actors : FirefoxPauses(a)
    BY <1>14 DEF OwnPause
  <2>2. UNCHANGED sessionVars /\ UNCHANGED stopVars
    BY <2>1 DEF FirefoxPauses
  <2>3. QED
    BY <1>13, <2>1, <2>2, FirefoxPausesCalls
<1>15. ASSUME NEW a \in Actors, Execution(a) PROVE Collection'
  <2>1. FirefoxExecutes(a)
    BY <1>15 DEF Execution
  <2>2. UNCHANGED sessionVars /\ UNCHANGED stopVars
    BY <2>1 DEF FirefoxExecutes
  <2>3. QED
    BY <1>13, <2>1, <2>2, FirefoxExecutesCalls
<1>16. CASE TargetsChange
  <2>1. FirefoxTargets /\ UNCHANGED stopVars
    BY <1>16 DEF TargetsChange, FirefoxTargets
  <2>2. UNCHANGED sessionVars
    BY <2>1 DEF FirefoxTargets, FirefoxLoads, FirefoxAnnouncesPage, FirefoxDestroysPage,
       FirefoxSwapsPage, FirefoxStartsWorker, FirefoxDestroysLate
  <2>3. QED
    BY <1>13, <2>1, <2>2, TargetsChangeStep
<1>17. CASE SnapshotFails \/ StepLost \/ PrimeTimeout \/ SessionEnds
  BY <1>17 DEF SnapshotFails, StepLost, PrimeTimeout, SessionEnds, Deadline, StopSessionClose,
     SessionClose, CloseSession
<1>18. CASE AboutModules
  <2>1. UNCHANGED <<threads, dropped, pausedTids, resumingTids, collecting, trigger, interrupted, ready>>
    BY <1>18, ModulesKeep
  <2>2. QED
    BY <1>18, <2>1, ModuleCalls, CollectionStays
<1>19. QED
  BY <1>1, <1>2, <1>3, <1>4, <1>5, <1>6, <1>8, <1>9, <1>10, <1>11, <1>12, <1>14, <1>15, <1>16,
     <1>17, <1>18 DEF DebuggeeNext, DebuggeeChunk, Component, User, ResyncCheck, AboutModules

-----------------------------------------------------------------------------
(* Replacements *)

\* A step that leaves the adapter alone, and the pages that are about to stop.
LEMMA ReplacementsStay ==
  ASSUME Replacements,
         UNCHANGED <<threads, held, hostInterruptPending, resyncTid, resyncTimer, operation>>,
         attached' = attached, lldb' = "reading" => lldb = "reading",
         \A i \in Tops : i.tid \in pausedTids \/ Called(i.actor)
                           => i.tid \in pausedTids' \/ Called(i.actor)'
  PROVE  Replacements'
<1>1. Tops' = Tops
  BY DEF Tops
<1>2. attached' \in BOOLEAN /\ ResyncKept'
  BY <1>1 DEF Replacements, ResyncKept
<1>3. ASSUME NEW i \in Tops, Expected(i) PROVE Expected(i)'
  BY <1>3 DEF Expected
<1>4. QED
  BY <1>1, <1>2, <1>3 DEF Replacements

\* LLDB's next command begins an operation, and the resync that was put off with it.
LEMMA ArmReplacements ==
  ASSUME Replacements, Arm, ArmStopped, lldb' = "waiting", lldb # "waiting",
         UNCHANGED <<threads, held, hostInterruptPending, attached>>
  PROVE  Replacements'
<1>1. Tops' = Tops
  BY DEF Tops
<1>2. /\ operation = "idle" /\ operation' = "pending" /\ resyncTid' = resyncTid
      /\ resyncTimer' = (resyncTimer \/ resyncTid # 0)
  BY DEF Arm, ArmStopped
<1>3. ResyncKept /\ attached \in BOOLEAN
  BY DEF Replacements
<1>4. ResyncKept'
  BY <1>1, <1>2, <1>3 DEF ResyncKept
<1>5. ASSUME NEW i \in Tops, Expected(i) PROVE Expected(i)'
  BY <1>2, <1>5 DEF Expected
<1>6. QED
  BY <1>1, <1>3, <1>4, <1>5 DEF Replacements

\* A packet brings the source of a page, or changes the threads.
LEMMA SourceComes ==
  ASSUME DeliverTarget, ~closed', ModuleCame # {}
  PROVE  threads' = threads
<1>1. OnEvent(Head(wire))
  BY DEF DeliverTarget, Deliver
<1>2. PICK s \in sources' : s.actor \notin Sourced(sources)
  BY DEF ModuleCame, Sourced
<1>3. s \notin sources
  BY <1>2 DEF Sourced
<1>4. ~ \E a : TargetAvailable(a) \/ TargetDestroyed(a)
  BY <1>3 DEF TargetAvailable, TopLevelAvailable, WorkerAvailable, IgnorePacket, TargetDestroyed,
     TopLevelDestroyed, OtherDestroyed, CloseSession
<1>5. SourceAvailable(Head(wire).actor)
  BY <1>1, <1>4 DEF OnEvent
<1>6. QED
  BY <1>5 DEF SourceAvailable, RememberSource, IgnorePacket

LEMMA TargetReplacements ==
  ASSUME Whole, Replacements, HearTarget, ~closed'
  PROVE  Replacements'
<1>1. /\ Whole' /\ Interrupts /\ wire # <<>> /\ wire' = Tail(wire) /\ phase' = phase
      /\ Head(wire).kind \in {"available", "destroyed", "source"}
  BY TargetMoves DEF HearTarget
<1>2. \A j \in threads' :
        \/ \E i \in threads : /\ i.actor = j.actor /\ i.tid = j.tid /\ (i.top <=> j.top)
                              /\ i.tid \in pausedTids <=> j.tid \in pausedTids'
                              /\ i.tid \in resumingTids <=> j.tid \in resumingTids'
        \/ /\ ~Known(j.actor) /\ j.tid \notin pausedTids' \cup resumingTids'
           /\ Head(wire).kind = "available" /\ Head(wire).actor = j.actor
  BY TargetMoves DEF HearTarget
<1>3. /\ held' = held \ ActorsOf(ModuleCame) /\ operation' = operation
      /\ UNCHANGED <<lldb, attached, hostInterruptPending>>
  BY DEF HearTarget, DeliverTarget, ListenToTargets
<1>4. /\ \A i, j \in threads : i.actor = j.actor \/ (i.top /\ j.top) => i = j
      /\ \A j \in threads' : j.tid # 0 /\ j.actor \in Actors
  BY <1>1 DEF Whole, Sound, Threads, Placed, SessionTypes, ThreadInfo
<1>5. ASSUME NEW j \in Tops', Known(j.actor)
      PROVE  \E i \in Tops : /\ i.actor = j.actor /\ i.tid = j.tid
                             /\ i.tid \in pausedTids <=> j.tid \in pausedTids'
                             /\ i.tid \in resumingTids <=> j.tid \in resumingTids'
  BY <1>2, <1>5 DEF Tops
<1>6. \A i \in ModuleCame : i \in threads' /\ i.top
  BY SourceComes DEF HearTarget, ModuleCame, Tops
<1>7. attached' \in BOOLEAN
  BY <1>3 DEF Replacements
<1>8. CASE PageCame \cup ModuleCame # {}
  <2>1. PICK i \in PageCame \cup ModuleCame : ScheduleResync(i.tid)
    BY <1>8 DEF HearTarget, ListenToTargets
  <2>2. i \in threads' /\ i.top
    BY <1>6 DEF PageCame
  <2>3. resyncTid' = i.tid /\ resyncTimer' = TRUE /\ i.tid # 0
    BY <1>4, <2>1, <2>2 DEF ScheduleResync
  <2>4. ResyncKept'
    BY <2>2, <2>3 DEF ResyncKept, Tops
  <2>5. \A j \in Tops' : Expected(j)'
    BY <2>3 DEF Expected
  <2>6. QED
    BY <1>7, <2>4, <2>5 DEF Replacements
<1>9. CASE PageCame \cup ModuleCame = {}
  <2>0. held' = held
    BY <1>3, <1>9 DEF ActorsOf
  <2>1. ASSUME NEW j \in Tops' PROVE Known(j.actor)
    BY <1>9 DEF PageCame, Tops
  <2>2. CASE PageLeft
    <3>1. resyncTid' = 0 /\ resyncTimer' = FALSE
      BY <1>9, <2>2 DEF HearTarget, ListenToTargets, ClearResync
    <3>2. ASSUME NEW j \in Tops' PROVE FALSE
      <4>1. PICK i \in Tops : i.actor = j.actor
        BY <1>5, <2>1
      <4>2. PICK k \in Tops : k.actor \notin ActorsOf(threads')
        BY <2>2 DEF PageLeft
      <4>3. i = k
        BY <1>4 DEF Tops
      <4>4. QED
        BY <4>1, <4>2, <4>3 DEF ActorsOf, Tops
    <3>3. ResyncKept' /\ \A j \in Tops' : Expected(j)'
      BY <3>1, <3>2 DEF ResyncKept
    <3>4. QED
      BY <1>7, <3>3 DEF Replacements
  <2>3. CASE ~PageLeft
    <3>1. UNCHANGED <<resyncTid, resyncTimer>>
      BY <1>9, <2>3 DEF HearTarget, ListenToTargets
    <3>2. ASSUME NEW i \in Tops PROVE \E j \in Tops' : j.tid = i.tid
      <4>1. PICK j \in threads' : j.actor = i.actor
        BY <2>3 DEF PageLeft, ActorsOf
      <4>2. i \in threads /\ i.top
        BY DEF Tops
      <4>3. Known(j.actor)
        BY <4>1, <4>2 DEF Known
      <4>4. PICK k \in threads : k.actor = j.actor /\ k.tid = j.tid /\ (k.top <=> j.top)
        BY <1>2, <4>3
      <4>5. k = i
        BY <1>4, <4>1, <4>2, <4>4
      <4>6. QED
        BY <4>2, <4>4, <4>5 DEF Tops
    <3>3. ResyncKept'
      BY <3>1, <3>2 DEF Replacements, ResyncKept
    <3>4. ASSUME NEW j \in Tops', attached = TRUE \/ lldb = "reading" PROVE Expected(j)'
      <4>1. PICK i \in Tops : /\ i.actor = j.actor /\ i.tid = j.tid
                              /\ i.tid \in pausedTids <=> j.tid \in pausedTids'
        BY <1>5, <2>1
      <4>2. Expected(i)
        BY <3>4 DEF Replacements
      <4>3. Called(j.actor) => Called(j.actor)'
        <5>1. j.actor \in Actors
          BY <1>4 DEF Tops
        <5>2. ThreadTypes
          BY DEF Whole
        <5>3. QED
          BY <1>1, <5>1, <5>2, DeliverCalls
      <4>4. QED
        BY <1>3, <2>0, <3>1, <4>1, <4>2, <4>3 DEF Expected
    <3>5. QED
      BY <1>3, <1>7, <3>3, <3>4 DEF Replacements
  <2>4. QED
    BY <2>2, <2>3
<1>10. QED
  BY <1>8, <1>9

LEMMA ThreadReplacements ==
  ASSUME Whole, Replacements, HearThread
  PROVE  Replacements'
<1>1. PICK a \in Actors : DeliverPaused(a) \/ DeliverResumed(a) \/ DeliverStray(a)
  BY DEF HearThread
<1>2. UNCHANGED <<held, hostInterruptPending, resyncTid, resyncTimer, attached, lldb>>
  BY DEF HearThread, adapterVars, KeepPauses, Forget
<1>3. \E kind \in {"paused", "resumed"} : Report(kind, a)
  BY <1>1 DEF DeliverPaused, DeliverResumed, DeliverStray
<1>4. threads' = threads /\ operation' = operation
  BY <1>1, <1>3 DEF DeliverPaused, DeliverResumed, DeliverStray, Report, sessionVars, stopVars
<1>5. Interrupts
  <2>1. PICK tid : tid = InfoOf(a).tid
    OBVIOUS
  <2>2. CASE DeliverPaused(a)
    <3>1. \/ Collect(threads, pausedTids \cup {tid}, resumingTids \ {tid})
          \/ Begin(a, threads, pausedTids \cup {tid}, resumingTids \ {tid}) \/ NotCollecting
      BY <2>1, <2>2 DEF DeliverPaused
    <3>2. QED
      BY <3>1, CollectorInterrupts
  <2>3. CASE DeliverResumed(a)
    <3>1. Collect(threads, pausedTids \ {tid}, resumingTids \ {tid}) \/ NotCollecting
      BY <2>1, <2>3 DEF DeliverResumed
    <3>2. QED
      BY <3>1, CollectorInterrupts
  <2>4. CASE DeliverStray(a)
    BY <2>4 DEF DeliverStray, threadVars, Interrupts
  <2>5. QED
    BY <1>1, <2>2, <2>3, <2>4
<1>6. \A i \in threads : i.actor \in Actors
  BY ThreadsAre
<1>7. CASE DeliverPaused(a)
  <2>1. Report("paused", a) /\ pausedTids' = pausedTids \cup {InfoOf(a).tid} /\ Known(a)
    BY <1>7 DEF DeliverPaused
  <2>2. ASSUME NEW i \in threads, i.tid \in pausedTids \/ Called(i.actor)
        PROVE  i.tid \in pausedTids' \/ Called(i.actor)'
    <3>1. CASE i.actor # a
      BY <1>5, <1>6, <2>1, <2>2, <3>1, ReportCalls
    <3>2. CASE i.actor = a
      <4>1. InfoOf(a) \in threads /\ InfoOf(a).actor = a
        BY <2>1, KnownIs DEF Whole
      <4>2. InfoOf(a) = i
        BY <3>2, <4>1, ThreadsAre
      <4>3. QED
        BY <2>1, <4>2
    <3>3. QED
      BY <3>1, <3>2
  <2>3. QED
    BY <1>2, <1>4, <2>2, ReplacementsStay DEF Tops
<1>8. CASE DeliverResumed(a)
  <2>1. Report("resumed", a) /\ pausedTids' = pausedTids
    BY <1>8, ResumedWas DEF DeliverResumed
  <2>2. ASSUME NEW i \in threads, Called(i.actor) PROVE Called(i.actor)'
    BY <1>5, <1>6, <2>1, <2>2, ReportCalls
  <2>3. QED
    BY <1>2, <1>4, <2>1, <2>2, ReplacementsStay DEF Tops
<1>9. CASE DeliverStray(a)
  <2>1. pausedTids' = pausedTids /\ ~Known(a)
    BY <1>9 DEF DeliverStray, stopVars
  <2>2. ASSUME NEW i \in threads, Called(i.actor) PROVE Called(i.actor)'
    <3>1. i.actor # a
      BY <2>1 DEF Known
    <3>2. QED
      BY <1>3, <1>5, <1>6, <2>2, <3>1, ReportCalls
  <2>3. QED
    BY <1>2, <1>4, <2>1, <2>2, ReplacementsStay DEF Tops
<1>10. QED
  BY <1>1, <1>7, <1>8, <1>9

\* A published stop holds every page there is.
LEMMA ContinuationReplacements ==
  ASSUME Whole, Books, Replacements, Continuation
  PROVE  Replacements'
<1>1. Settle /\ UNCHANGED vars /\ UNCHANGED <<pausedTids, resumingTids>> /\ operation = "pending"
  BY DEF Continuation, Settle, Books
<1>2. threads' = threads /\ Tops' = Tops
  BY <1>1, SessionVarsStay DEF Tops
<1>3. CASE Publish
  <2>1. operation' = "idle"
    BY <1>3 DEF Publish, EndOperation
  <2>2. /\ resyncTid' = 0 /\ resyncTimer' = FALSE /\ attached' = attached
        /\ held' = held \cup ActorsOf(Tops)
    BY <2>1 DEF Continuation, OnStopped, ClearResync
  <2>3. \A i \in Tops : i.actor \in held'
    BY <2>2 DEF ActorsOf
  <2>4. ResyncKept' /\ attached' \in BOOLEAN
    BY <2>2 DEF ResyncKept, Replacements
  <2>5. \A i \in Tops : Expected(i)'
    BY <2>3 DEF Expected
  <2>6. QED
    BY <1>2, <2>4, <2>5 DEF Replacements
<1>4. CASE StartOver \/ WaitAgain
  <2>1. operation' = operation
    BY <1>4 DEF StartOver, WaitAgain
  <2>2. UNCHANGED <<held, hostInterruptPending, resyncTid, resyncTimer, attached, lldb>>
    BY <1>1, <2>1 DEF Continuation, adapterVars, Forget
  <2>3. Interrupts
    <3>1. CASE StartOver
      <4>1. UNCHANGED commands \/ \E a : Begin(a, threads, pausedTids, resumingTids)
        BY <3>1, Zenon DEF StartOver
      <4>2. QED
        BY <4>1, CollectorInterrupts DEF Interrupts
    <3>2. CASE WaitAgain
      <4>1. SendTo(interrupted' \ interrupted, "interrupt")
        BY <3>2 DEF WaitAgain
      <4>2. QED
        BY <4>1, Zenon DEF Interrupts
    <3>3. QED
      BY <1>4, <3>1, <3>2
  <2>4. StillCalled
    BY <1>1, <2>3, NudgeCalls
  <2>5. \A i \in Tops : i.tid \in pausedTids \/ Called(i.actor)
                          => i.tid \in pausedTids' \/ Called(i.actor)'
    BY <1>1, <2>4 DEF StillCalled, Tops
  <2>6. QED
    BY <1>2, <2>1, <2>2, <2>5, ReplacementsStay
<1>5. QED
  BY <1>3, <1>4, <1>1 DEF Settle

LEMMA ExecutionReplacements ==
  ASSUME Whole, Books, Replacements, DoContinue \/ \E tid \in pausedTids : DoSingleStep(tid)
  PROVE  Replacements'
<1>1. Arm /\ ArmStopped /\ lldb' = "waiting" /\ operation = "idle"
  BY ExecutionArms DEF Arm
<1>2. lldb # "waiting"
  BY <1>1 DEF Books
<1>3. UNCHANGED <<held, hostInterruptPending, attached>>
  BY DEF DoContinue, DoSingleStep, Execute, KeepPauses, Forget
<1>4. \/ ArmForHost \/ AdoptPausedState
      \/ Continue \/ \E tid \in pausedTids : SingleStep(tid)
  BY DEF DoContinue, DoSingleStep, Execute, AdoptOldest
<1>5. UNCHANGED vars
  BY <1>4 DEF ArmForHost, AdoptPausedState, Continue, SingleStep
<1>6. threads' = threads
  BY <1>5, SessionVarsStay
<1>7. QED
  BY <1>1, <1>2, <1>3, <1>6, ArmReplacements

LEMMA ComponentReplacements ==
  ASSUME Whole, Books, Replacements, Component, ~closed'
  PROVE  Replacements'
<1>1. ASSUME NEW tid \in pausedTids, SnapshotThread(tid) PROVE Replacements'
  <2>1. /\ UNCHANGED vars /\ UNCHANGED <<held, hostInterruptPending, resyncTid, resyncTimer, operation>>
        /\ UNCHANGED <<pausedTids, commands>> /\ lldb = "reading"
    BY <1>1 DEF SnapshotThread, threadVars
  <2>2. attached' \in BOOLEAN
    BY <1>1 DEF SnapshotThread, HandOver, Replacements
  <2>3. threads' = threads /\ Tops' = Tops
    BY <2>1, SessionVarsStay DEF Tops
  <2>4. ResyncKept'
    BY <2>1, <2>3 DEF Replacements, ResyncKept
  <2>5. StillCalled
    BY <2>1, NudgeCalls DEF Interrupts
  <2>6. ASSUME NEW i \in Tops PROVE Expected(i)'
    <3>1. Expected(i)
      BY <2>1 DEF Replacements
    <3>2. i.tid \in pausedTids \/ ~Called(i.actor) \/ Called(i.actor)'
      BY <2>5 DEF StillCalled, Tops
    <3>3. QED
      BY <2>1, <3>1, <3>2 DEF Expected
  <2>7. QED
    BY <2>2, <2>3, <2>4, <2>6 DEF Replacements
<1>2. CASE SnapshotAgain
  <2>1. AdoptOldest /\ lldb' = "waiting" /\ lldb = "reading"
        /\ UNCHANGED <<held, hostInterruptPending, attached>>
    BY <1>2 DEF SnapshotAgain, KeepPauses, Forget
  <2>2. Arm /\ ArmStopped /\ UNCHANGED vars
    BY <2>1 DEF AdoptOldest, AdoptPausedState
  <2>3. threads' = threads
    BY <2>2, SessionVarsStay
  <2>4. QED
    BY <2>1, <2>2, <2>3, ArmReplacements
<1>3. CASE SnapshotFails \/ StepLost
  BY <1>3 DEF SnapshotFails, StepLost, StopSessionClose, SessionClose, CloseSession
<1>4. CASE DoContinue \/ \E tid \in pausedTids : DoSingleStep(tid)
  BY <1>4, ExecutionReplacements
<1>5. QED
  BY <1>1, <1>2, <1>3, <1>4 DEF Component

LEMMA ModuleReplacements ==
  ASSUME Whole, Replacements, AboutModules
  PROVE  Replacements'
<1>1. /\ UNCHANGED <<threads, held, hostInterruptPending, resyncTid, resyncTimer, operation>>
      /\ UNCHANGED <<attached, lldb, pausedTids>>
  BY ModulesKeep DEF adapterVars, KeepPauses, Forget
<1>2. \A i \in Tops : i.tid \in pausedTids \/ Called(i.actor)
                        => i.tid \in pausedTids' \/ Called(i.actor)'
  BY <1>1, ModuleCalls DEF StillCalled, Tops
<1>3. QED
  BY <1>1, <1>2, ReplacementsStay

LEMMA UserReplacements ==
  ASSUME Whole, Books, Replacements, User
  PROVE  Replacements'
<1>1. CASE PrimeStop
  <2>1. /\ lldb = "start" /\ lldb' = "waiting"
        /\ UNCHANGED <<held, hostInterruptPending, attached>>
        /\ AdoptOldest \/ ((\E a \in Actors : Prime(a)) /\ ArmStopped)
    BY <1>1 DEF PrimeStop, KeepPauses, Forget
  <2>2. Arm /\ ArmStopped /\ UNCHANGED vars
    BY <2>1 DEF AdoptOldest, AdoptPausedState, Prime
  <2>3. threads' = threads
    BY <2>2, SessionVarsStay
  <2>4. QED
    BY <2>1, <2>2, <2>3, ArmReplacements
<1>2. CASE PrimeNothing
  <2>1. /\ threads = {} /\ threads' = threads /\ UNCHANGED <<resyncTid, resyncTimer>>
        /\ attached' = TRUE
    BY <1>2 DEF PrimeNothing, allVars, vars, sessionVars
  <2>2. Tops = {} /\ Tops' = {}
    BY <2>1 DEF Tops
  <2>3. ResyncKept'
    BY <2>1, <2>2 DEF Replacements, ResyncKept
  <2>4. QED
    BY <2>1, <2>2, <2>3 DEF Replacements
<1>3. CASE TriggerInterrupt
  <2>1. /\ UNCHANGED vars /\ UNCHANGED <<held, attached>>
        /\ resyncTid' = 0 /\ resyncTimer' = FALSE /\ hostInterruptPending' = TRUE
    BY <1>3 DEF TriggerInterrupt, ClearResync, stopVars
  <2>2. Tops' = Tops
    BY <2>1, SessionVarsStay DEF Tops
  <2>3. ResyncKept'
    BY <2>1, <2>2 DEF ResyncKept, Replacements
  <2>4. \A i \in Tops : Expected(i)'
    BY <2>1 DEF Expected
  <2>5. attached' \in BOOLEAN
    BY <2>1 DEF Replacements
  <2>6. QED
    BY <2>2, <2>3, <2>4, <2>5 DEF Replacements
<1>4. CASE DoContinue \/ \E tid \in pausedTids : DoSingleStep(tid)
  BY <1>4, ExecutionReplacements
<1>5. CASE AllModules
  BY <1>5, ModuleReplacements DEF AboutModules
<1>6. QED
  BY <1>1, <1>2, <1>3, <1>4, <1>5 DEF User

\* The timer has the page called, or finds it called.
LEMMA ResyncReplacements ==
  ASSUME Whole, Books, collecting => Collection, Replacements, Witnessing, ResyncCheck, ~ready
  PROVE  Replacements'
<1>1. /\ UNCHANGED vars /\ UNCHANGED <<held, attached, lldb>>
      /\ UNCHANGED <<pausedTids, hostInterruptPending, resyncTid, operation>>
      /\ resyncTimer' = FALSE /\ resyncTimer
  BY DEF ResyncCheck, ResyncDeferred, ResyncAdopts, ResyncForces, allVars, stopVars
<1>2. Tops' = Tops /\ threads' = threads
  BY <1>1, SessionVarsStay DEF Tops
<1>3. ResyncKept' /\ attached' \in BOOLEAN
  BY <1>1, <1>2 DEF Replacements, ResyncKept
<1>4. PICK top \in Tops : top.tid = resyncTid
  BY <1>1 DEF Replacements, ResyncKept
<1>5. /\ top \in threads /\ resyncTid # 0 /\ \A i \in Tops : i = top
      /\ \A i, j \in threads : i.tid = j.tid => i = j
      /\ \A i \in threads : i.actor \in Actors
      /\ ThreadTypes /\ SessionTypes
  BY <1>1, <1>4, ThreadsAre DEF Tops, Whole, Sound, Threads, Replacements, ResyncKept
<1>6. SUFFICES ASSUME NEW i \in Tops PROVE Expected(i)'
  BY <1>2, <1>3 DEF Replacements
<1>7. i = top /\ i \in threads
  BY <1>5
<1>8. CASE ResyncDeferred
  <2>1. operation = "idle"
    BY <1>5, <1>8 DEF ResyncDeferred
  <2>2. QED
    BY <1>1, <1>5, <2>1 DEF Expected
<1>9. ASSUME operation = "pending", Summoned(i.actor)' PROVE Expected(i)'
  BY <1>1, <1>9 DEF Expected, Called
<1>10. CASE ResyncForces
  <2>1. PICK k \in threads : /\ k.tid = resyncTid \/ resyncTid \notin TidsOf(threads)
                             /\ SendTo({k.actor}, "interrupt")
    BY <1>10 DEF ResyncForces
  <2>2. k = top
    BY <1>4, <1>5, <2>1 DEF TidsOf
  <2>3. Summoned(i.actor)'
    BY <1>5, <1>7, <2>1, <2>2, SendNudges
  <2>4. operation = "pending"
    BY <1>10 DEF ResyncForces
  <2>5. QED
    BY <1>9, <2>3, <2>4
<1>11. CASE ResyncAdopts
  <2>1. operation = "pending"
    BY <1>11 DEF ResyncAdopts
  <2>2. i.tid \notin resumingTids
    BY <1>11, <2>1 DEF ResyncAdopts, Witnessing
  <2>3. CASE i.tid \in pausedTids
    BY <1>1, <2>1, <2>3 DEF Expected
  <2>4. CASE i.tid \notin pausedTids \cup resumingTids /\ collecting
    <3>1. UNCHANGED commands
      BY <1>11, <2>4 DEF ResyncAdopts, NotCollecting
    <3>2. trigger \in ActorsOf(threads)
      BY <2>4 DEF Collection, Complete
    <3>3. Answered(i)
      BY <1>7, <2>4, <3>2 DEF Collection
    <3>4. Called(i.actor)
      BY <2>4, <3>3 DEF Answered
    <3>5. Called(i.actor)'
      BY <1>1, <1>7, <2>4, <3>1, <3>4, NudgeCalls DEF StillCalled, Interrupts
    <3>6. QED
      BY <1>1, <2>1, <3>5 DEF Expected
  <2>5. CASE i.tid \notin pausedTids \cup resumingTids /\ ~collecting
    <3>1. PICK tid \in pausedTids : Begin(ActorOf(tid), threads, pausedTids, resumingTids)
      BY <1>11, <2>5 DEF ResyncAdopts
    <3>2. ActorOf(tid) \in ActorsOf(threads)
      <4>1. \E k \in threads : k.tid = tid
        BY DEF Whole, Tids, TidsOf
      <4>2. QED
        BY <4>1 DEF ActorOf, ActorsOf
    <3>3. /\ SendTo(interrupted', "interrupt")
          /\ interrupted' = ToInterrupt(threads, pausedTids, resumingTids, ActorOf(tid), {})
      BY <3>1 DEF Begin
    <3>4. i.actor \in interrupted'
      BY <1>7, <2>5, <3>2, <3>3 DEF ToInterrupt
    <3>5. Summoned(i.actor)'
      BY <1>5, <1>7, <3>3, <3>4, SendNudges
    <3>6. QED
      BY <1>9, <2>1, <3>5
  <2>6. QED
    BY <2>2, <2>3, <2>4, <2>5
<1>12. QED
  BY <1>8, <1>10, <1>11 DEF ResyncCheck

LEMMA FirefoxReplacements ==
  ASSUME Whole, Replacements, StillCalled, UNCHANGED sessionVars, UNCHANGED stopVars,
         UNCHANGED adapterVars, Forget
  PROVE  Replacements'
<1>1. /\ UNCHANGED <<threads, held, hostInterruptPending, resyncTid, resyncTimer, operation>>
      /\ UNCHANGED <<attached, lldb, pausedTids>>
  BY DEF sessionVars, stopVars, adapterVars, Forget
<1>2. \A i \in Tops : i.tid \in pausedTids \/ Called(i.actor)
                        => i.tid \in pausedTids' \/ Called(i.actor)'
  BY <1>1 DEF StillCalled, Tops
<1>3. QED
  BY <1>1, <1>2, ReplacementsStay

LEMMA ReplacementsStep ==
  ASSUME Whole, Books, Farewell, collecting => Collection, Replacements, Witnessing, DebuggeeNext,
         ~closed'
  PROVE  Replacements'
<1>1. CASE DebuggeeChunk
  BY <1>1, TargetReplacements, ThreadReplacements, ContinuationReplacements DEF DebuggeeChunk
<1>2. CASE Component
  BY <1>2, ComponentReplacements
<1>3. CASE User
  BY <1>3, UserReplacements
<1>4. CASE ~ready /\ ResyncCheck
  BY <1>4, ResyncReplacements
<1>5. CASE PrimeTimeout \/ SessionEnds
  BY <1>5 DEF PrimeTimeout, SessionEnds, Deadline, StopSessionClose, SessionClose, CloseSession
<1>6. CASE OwnPause
  <2>1. PICK a \in Actors : FirefoxPauses(a)
    BY <1>6 DEF OwnPause
  <2>2. /\ UNCHANGED sessionVars /\ UNCHANGED stopVars
        /\ UNCHANGED adapterVars /\ Forget
    BY <1>6, <2>1 DEF FirefoxPauses, OwnPause
  <2>3. QED
    BY <2>1, <2>2, FirefoxReplacements, FirefoxPausesCalls
<1>7. ASSUME NEW a \in Actors, Execution(a) PROVE Replacements'
  <2>1. /\ FirefoxExecutes(a)
        /\ UNCHANGED sessionVars /\ UNCHANGED stopVars /\ UNCHANGED adapterVars /\ Forget
    BY <1>7 DEF FirefoxExecutes, Execution
  <2>2. QED
    BY <2>1, FirefoxReplacements, FirefoxExecutesCalls
<1>8. CASE TargetsChange
  <2>1. /\ FirefoxTargets /\ UNCHANGED stopVars /\ UNCHANGED adapterVars /\ Forget
    BY <1>8 DEF TargetsChange, FirefoxTargets, KeepPauses
  <2>2. UNCHANGED sessionVars
    BY <2>1 DEF FirefoxTargets, FirefoxLoads, FirefoxAnnouncesPage, FirefoxDestroysPage,
       FirefoxSwapsPage, FirefoxStartsWorker, FirefoxDestroysLate
  <2>3. QED
    BY <2>1, <2>2, FirefoxReplacements, TargetsChangeStep
<1>9. CASE ModuleCompiled
  BY <1>9, ModuleReplacements DEF AboutModules
<1>10. QED
  BY <1>1, <1>2, <1>3, <1>4, <1>5, <1>6, <1>7, <1>8, <1>9 DEF DebuggeeNext

-----------------------------------------------------------------------------
(* Unreported pauses *)

LEMMA WitnessingStays ==
  ASSUME Witnessing, UNCHANGED <<threads, operation, resumingTids, unwitnessed, witnessed>>
  PROVE  Witnessing'
  BY DEF Witnessing, TidsOf

\* An operation begins that lets nobody go, or nothing is unreported.
LEMMA WitnessingArms ==
  ASSUME Witnessing, Arm, threads' = threads,
         UNCHANGED <<resumingTids, unwitnessed>> \/ unwitnessed' = {}
  PROVE  Witnessing'
  BY DEF Witnessing, Arm, TidsOf

LEMMA ChunkWitnessing ==
  ASSUME Whole, Books, Witnessing, DebuggeeChunk, ~closed'
  PROVE  Witnessing'
<1>1. CASE HearTarget
  <2>1. /\ resumingTids' = resumingTids \ Leaving /\ unwitnessed' = unwitnessed \ Leaving
        /\ operation' = operation
        /\ operation = "pending" => witnessed' = witnessed \cup TidsOf(threads')
    BY <1>1 DEF HearTarget, DeliverTarget
  <2>2. TidsOf(threads)' = TidsOf(threads')
    BY DEF TidsOf
  <2>3. QED
    BY <2>1, <2>2 DEF Witnessing
<1>2. ASSUME NEW a \in Actors, DeliverPaused(a) PROVE Witnessing'
  <2>1. PICK me : me = InfoOf(a)
    OBVIOUS
  <2>2. me \in threads
    BY <1>2, <2>1, KnownIs DEF DeliverPaused, Whole
  <2>3. /\ threads' = threads /\ UNCHANGED <<operation, witnessed>>
        /\ resumingTids' \subseteq resumingTids /\ unwitnessed' = Unreported(me.tid)
    BY <1>2, <2>1 DEF DeliverPaused, Report, sessionVars
  <2>4. TidsOf(threads)' = TidsOf(threads) /\ me.tid \in TidsOf(threads)
    BY <2>2, <2>3 DEF TidsOf
  <2>5. operation = "pending" => unwitnessed' = unwitnessed
    BY <2>3, <2>4 DEF Unreported, Witnessing
  <2>6. QED
    BY <2>3, <2>4, <2>5 DEF Witnessing
<1>3. ASSUME NEW a \in Actors, DeliverResumed(a) PROVE Witnessing'
  <2>1. /\ threads' = threads /\ UNCHANGED <<operation, witnessed>>
        /\ resumingTids' \subseteq resumingTids /\ unwitnessed' \subseteq unwitnessed
    BY <1>3 DEF DeliverResumed, Report, sessionVars
  <2>2. TidsOf(threads)' = TidsOf(threads)
    BY <2>1 DEF TidsOf
  <2>3. QED
    BY <2>1, <2>2 DEF Witnessing
<1>4. ASSUME NEW a \in Actors, DeliverStray(a) PROVE Witnessing'
  BY <1>4, WitnessingStays DEF DeliverStray, Report, sessionVars, stopVars
<1>5. CASE Settle
  <2>1. threads' = threads /\ resumingTids' = resumingTids
    BY <1>5, SessionVarsStay DEF Settle
  <2>2. CASE StartOver \/ WaitAgain
    BY <2>1, <2>2, WitnessingStays DEF StartOver, WaitAgain
  <2>3. CASE Publish /\ TidsOf(threads) \subseteq pausedTids
    <3>1. resumingTids = {}
      BY <2>3 DEF Whole, Tids
    <3>2. operation' = "idle"
      BY <2>3 DEF Publish, EndOperation
    <3>3. QED
      BY <2>1, <3>1, <3>2 DEF Witnessing
  <2>4. QED
    BY <1>5, <2>2, <2>3 DEF Settle
<1>6. QED
  BY <1>1, <1>2, <1>3, <1>4, <1>5 DEF DebuggeeChunk, HearThread, Continuation

LEMMA WitnessingStep ==
  ASSUME Whole, Books, Witnessing, DebuggeeNext, ~closed'
  PROVE  Witnessing'
<1>1. CASE DebuggeeChunk
  BY <1>1, ChunkWitnessing
<1>2. CASE AdoptOldest \/ ArmForHost \/ \E a \in Actors : Prime(a)
  <2>1. Arm /\ UNCHANGED vars /\ UNCHANGED <<resumingTids, unwitnessed>>
    BY <1>2 DEF AdoptOldest, AdoptPausedState, ArmForHost, Prime
  <2>2. QED
    BY <2>1, SessionVarsStay, WitnessingArms
<1>3. CASE Continue \/ \E tid \in pausedTids : SingleStep(tid)
  <2>1. Arm /\ UNCHANGED vars /\ unwitnessed' = {}
    BY <1>3 DEF Continue, SingleStep, RequestResume
  <2>2. QED
    BY <2>1, SessionVarsStay, WitnessingArms
<1>4. DoContinue \/ (\E tid \in pausedTids : DoSingleStep(tid)) =>
        ArmForHost \/ AdoptOldest \/ Continue \/ \E tid \in pausedTids : SingleStep(tid)
  BY DEF DoContinue, DoSingleStep, Execute
<1>5. SnapshotAgain \/ PrimeStop => AdoptOldest \/ \E a \in Actors : Prime(a)
  BY DEF SnapshotAgain, PrimeStop
<1>6. CASE SnapshotFails \/ StepLost \/ PrimeTimeout \/ SessionEnds
  BY <1>6 DEF SnapshotFails, StepLost, PrimeTimeout, SessionEnds, Deadline, StopSessionClose,
     SessionClose, CloseSession
<1>7. CASE PrimeNothing \/ TriggerInterrupt \/ ResyncCheck
           \/ \E tid \in pausedTids : SnapshotThread(tid)
  <2>1. UNCHANGED vars /\ UNCHANGED <<operation, resumingTids, unwitnessed, witnessed>>
    BY <1>7 DEF PrimeNothing, TriggerInterrupt, ResyncCheck, ResyncDeferred, ResyncAdopts,
       ResyncForces, SnapshotThread, allVars, stopVars
  <2>2. QED
    BY <2>1, SessionVarsStay, WitnessingStays
<1>8. CASE OwnPause \/ \E a \in Actors : Execution(a)
  <2>1. UNCHANGED <<threads, operation, resumingTids, unwitnessed, witnessed>>
    BY <1>8 DEF OwnPause, Execution, FirefoxPauses, FirefoxExecutes, sessionVars, stopVars
  <2>2. QED
    BY <2>1, WitnessingStays
<1>9. CASE TargetsChange
  <2>1. UNCHANGED <<threads, operation, resumingTids, unwitnessed, witnessed>>
    BY <1>9 DEF TargetsChange, FirefoxTargets, FirefoxLoads, FirefoxAnnouncesPage, FirefoxDestroysPage,
       FirefoxSwapsPage, FirefoxStartsWorker, FirefoxDestroysLate, sessionVars, stopVars
  <2>2. QED
    BY <2>1, WitnessingStays
<1>10. CASE AboutModules
  BY <1>10, ModulesKeep, WitnessingStays
<1>11. QED
  BY <1>1, <1>2, <1>3, <1>4, <1>5, <1>6, <1>7, <1>8, <1>9, <1>10
     DEF DebuggeeNext, Component, User, AboutModules

-----------------------------------------------------------------------------
(* What holds of a stop in every state *)

LEMMA StopInitially ==
  ASSUME DebuggeeInit
  PROVE  StopInv
<1>1. Whole /\ closed = FALSE /\ ownTids = {}
  BY DebuggeeInitially DEF DebuggeeInit
<1>2. Books
  BY DEF DebuggeeInit, Books
<1>3. Farewell
  <2>1. wire = <<>> /\ phase = [a \in Actors |-> IF a = FirstPage THEN "live" ELSE "unborn"]
    BY DEF DebuggeeInit
  <2>2. \A a \in Actors : phase[a] # "gone"
    BY <2>1
  <2>3. \A i \in threads : i.actor \in Actors
    BY <1>1, ThreadsAre
  <2>4. QED
    BY <2>2, <2>3 DEF Farewell
<1>4. Replacements
  <2>1. /\ attached = FALSE /\ lldb = "start" /\ resyncTid = 0 /\ resyncTimer = FALSE
    BY DEF DebuggeeInit
  <2>2. QED
    BY <2>1 DEF Replacements, ResyncKept
<1>5. collecting = FALSE /\ operation = "idle" /\ resumingTids = {}
  BY DEF DebuggeeInit
<1>6. Witnessing
  BY <1>5 DEF Witnessing
<1>7. QED
  BY <1>1, <1>2, <1>3, <1>4, <1>5, <1>6 DEF StopInv, DebuggeeInv

\* A step keeps the books beside the paused TIDs, or touches neither.
PausesFollow ==
  \/ Follow
  \/ UNCHANGED <<pausedTids, pausedBefore, ownTids>>

LEMMA PausesAreFollowed ==
  ASSUME DebuggeeNext
  PROVE  PausesFollow
<1>0. CASE AboutModules
  BY <1>0, ModulesKeep DEF KeepPauses, PausesFollow
<1>1. CASE DebuggeeChunk
  BY <1>1 DEF DebuggeeChunk, HearTarget, HearThread, Continuation, KeepPauses, PausesFollow
<1>2. CASE DoContinue \/ \E tid \in pausedTids : DoSingleStep(tid)
  BY <1>2 DEF DoContinue, DoSingleStep, Execute, KeepPauses, PausesFollow
<1>3. CASE SnapshotAgain \/ SnapshotFails \/ StepLost \/ PrimeStop \/ PrimeTimeout \/ SessionEnds
  BY <1>3 DEF SnapshotAgain, SnapshotFails, StepLost, PrimeStop, PrimeTimeout, SessionEnds,
     KeepPauses, PausesFollow
<1>4. CASE PrimeNothing \/ TriggerInterrupt \/ ResyncCheck
           \/ \E tid \in pausedTids : SnapshotThread(tid)
  BY <1>4 DEF SnapshotThread, PrimeNothing, TriggerInterrupt, ResyncCheck, ResyncDeferred,
     ResyncAdopts, ResyncForces, allVars, stopVars, PausesFollow
<1>5. CASE OwnPause \/ (\E a \in Actors : Execution(a)) \/ TargetsChange
  BY <1>5 DEF OwnPause, Execution, TargetsChange, KeepPauses, PausesFollow
<1>6. QED
  BY <1>0, <1>1, <1>2, <1>3, <1>4, <1>5 DEF DebuggeeNext, Component, User, AboutModules

\* The packets kept beside the pauses are those of threads that are paused.
LEMMA OwnStep ==
  ASSUME ownTids \subseteq pausedTids, DebuggeeNext
  PROVE  ownTids' \subseteq pausedTids'
<1>1. Follow => ownTids' \subseteq pausedTids'
  BY DEF Follow, NewlyPaused
<1>2. QED
  BY <1>1, PausesAreFollowed DEF PausesFollow

LEMMA StopStep ==
  ASSUME StopInv, DebuggeeNext
  PROVE  StopInv'
<1>1. Whole /\ Books /\ Farewell /\ (collecting => Collection) /\ Replacements /\ Witnessing
  BY ClosedIsClosed DEF StopInv, DebuggeeInv
<1>2. DebuggeeInv' /\ ownTids' \subseteq pausedTids'
  BY DebuggeeStep, OwnStep DEF StopInv
<1>3. ASSUME ~closed'
      PROVE  Books' /\ Farewell' /\ (collecting' => Collection') /\ Replacements' /\ Witnessing'
  BY <1>1, <1>3, BooksStep, FarewellStep, CollectionStep, ReplacementsStep, WitnessingStep
<1>4. QED
  BY <1>2, <1>3 DEF StopInv

LEMMA StopStutter ==
  ASSUME StopInv, UNCHANGED everything
  PROVE  StopInv'
<1>1. /\ UNCHANGED <<threads, dropped, closed, wire, phase, commands>>
      /\ UNCHANGED <<pausedTids, resumingTids, unwitnessed, witnessed, operation>>
      /\ UNCHANGED <<collecting, trigger, interrupted, ready>>
      /\ UNCHANGED <<lldb, attached, hostInterruptPending, resyncTid, resyncTimer>>
      /\ UNCHANGED <<ownTids, published, held>>
  BY DEF everything, allVars, vars, sessionVars, firefoxVars, stopVars, threadVars, debuggeeVars,
     adapterVars
<1>2. DebuggeeInv' /\ ownTids' \subseteq pausedTids'
  BY <1>1, DebuggeeStutter DEF StopInv
<1>3. /\ \A k, a : Sent(k, a)' = Sent(k, a)
      /\ \A a : Called(a)' = Called(a)
      /\ Tops' = Tops
  BY <1>1 DEF Sent, Called, Summoned, Nudges, Orders, Tops
<1>4. /\ Books' = Books /\ Farewell' = Farewell /\ ResyncKept' = ResyncKept
      /\ Witnessing' = Witnessing
  BY <1>1, <1>3 DEF Books, Farewell, ResyncKept, Witnessing, TidsOf
<1>5. Collection' = Collection
  BY <1>1, <1>3 DEF Collection, Answered, Complete, TidsOf, ActorsOf
<1>6. Replacements' = Replacements
  BY <1>1, <1>3, <1>4 DEF Replacements, Expected
<1>7. QED
  BY <1>1, <1>2, <1>4, <1>5, <1>6 DEF StopInv

\* With nothing on its way, no thread has been called and none is being let go.
LEMMA QuietThreads ==
  ASSUME Whole, Farewell, Quiet, NEW i \in threads
  PROVE  ~Called(i.actor) /\ i.tid \notin resumingTids
<1>1. /\ \A k, a : Sent(k, a) = {}
      /\ i.actor \in Actors /\ Watched(i) /\ ThreadTypes
  BY ThreadsAre DEF Quiet, Sent, Whole, Channels
<1>2. phase[i.actor] # "gone"
  BY <1>1 DEF Farewell
<1>3. phase[i.actor] \in {"live", "dying"}
  BY <1>1, <1>2 DEF Watched, ThreadTypes
<1>4. commands[i.actor] = <<>>
  BY <1>1, <1>3 DEF Quiet, Alive
<1>5. Nudges(i.actor) = {} /\ Orders(i.actor) = {}
  BY <1>4 DEF Nudges, Orders
<1>6. ~LetGo(i.actor)
  BY <1>1, <1>5 DEF LetGo, Ordered, Resumed
<1>7. QED
  BY <1>1, <1>2, <1>5, <1>6 DEF Called, Summoned, Watched

LEMMA QuietIsCollected ==
  ASSUME StopInv
  PROVE  CollectionNotStuck
<1>1. SUFFICES ASSUME Quiet, collecting PROVE FALSE
  BY DEF CollectionNotStuck
<1>2. Whole /\ Farewell /\ Collection /\ ~ready
  BY <1>1 DEF StopInv, DebuggeeInv, Quiet
<1>3. trigger \in ActorsOf(threads) /\ ~(TidsOf(threads) \subseteq pausedTids)
  BY <1>2 DEF Collection, Complete
<1>4. PICK i \in threads : i.tid \notin pausedTids
  BY <1>3 DEF TidsOf
<1>5. ~Called(i.actor) /\ i.tid \notin resumingTids
  BY <1>1, <1>2, QuietThreads
<1>6. Answered(i)
  BY <1>2, <1>3, <1>4, <1>5 DEF Collection
<1>7. QED
  BY <1>4, <1>5, <1>6 DEF Answered

LEMMA QuietIsReplaced ==
  ASSUME StopInv
  PROVE  ReplacementNotMissed
<1>1. SUFFICES ASSUME Quiet, lldb = "waiting", attached, ~hostInterruptPending, NEW i \in Tops
               PROVE  i.tid \in pausedTids \/ i.actor \in held
  BY DEF ReplacementNotMissed
<1>2. Whole /\ Books /\ Farewell /\ Replacements /\ ~resyncTimer
  BY <1>1 DEF StopInv, DebuggeeInv, Quiet
<1>3. ~Called(i.actor)
  BY <1>1, <1>2, QuietThreads DEF Tops
<1>4. Expected(i) /\ operation = "pending"
  BY <1>1, <1>2 DEF Replacements, Books
<1>5. QED
  BY <1>1, <1>2, <1>3, <1>4 DEF Expected

\* A step that lets a pause go has published it.
LEMMA LetGoIsPublished ==
  ASSUME Books, DoContinue \/ \E tid \in pausedTids : DoSingleStep(tid)
  PROVE  pausedTids \subseteq published \cup pausedTids'
<1>1. operation = "idle"
  BY ExecutionArms DEF Arm
<1>2. CASE ArmForHost \/ AdoptOldest
  BY <1>2 DEF ArmForHost, AdoptOldest, AdoptPausedState
<1>3. CASE Continue \/ \E tid \in pausedTids : SingleStep(tid)
  <2>1. unwitnessed = {}
    BY <1>3 DEF Continue, SingleStep
  <2>2. QED
    BY <1>1, <2>1 DEF Books
<1>4. QED
  BY <1>2, <1>3 DEF DoContinue, DoSingleStep, Execute

LEMMA PausesStay ==
  ASSUME StopInv, DebuggeeNext, ~closed', NEW i \in threads \cap threads',
         i.tid \in pausedTids, i.tid \notin published
  PROVE  i.tid \in pausedTids'
<1>1. Whole /\ Books
  BY ClosedIsClosed DEF StopInv, DebuggeeInv
<1>2. CASE HearTarget
  <2>1. pausedTids' = pausedTids \ Leaving
    BY <1>2 DEF HearTarget, DeliverTarget
  <2>2. i.tid \notin Leaving
    BY <1>1, ThreadsAre DEF Leaving, TidsOf, ActorsOf
  <2>3. QED
    BY <2>1, <2>2
<1>3. CASE HearThread
  <2>1. PICK a \in Actors : DeliverPaused(a) \/ DeliverResumed(a) \/ DeliverStray(a)
    BY <1>3 DEF HearThread
  <2>2. CASE DeliverResumed(a)
    BY <1>1, <2>2, ResumedWas DEF DeliverResumed
  <2>3. QED
    BY <2>1, <2>2 DEF DeliverPaused, DeliverStray, stopVars
<1>4. CASE DoContinue \/ \E tid \in pausedTids : DoSingleStep(tid)
  BY <1>1, <1>4, LetGoIsPublished
<1>5. CASE SnapshotFails \/ StepLost \/ PrimeTimeout \/ SessionEnds
  BY <1>5 DEF SnapshotFails, StepLost, PrimeTimeout, SessionEnds, Deadline, StopSessionClose,
     SessionClose, CloseSession
<1>6. CASE Continuation \/ SnapshotAgain \/ PrimeStop \/ PrimeNothing \/ TriggerInterrupt
           \/ ResyncCheck \/ \E tid \in pausedTids : SnapshotThread(tid)
  BY <1>6 DEF Continuation, Settle, SnapshotAgain, PrimeStop, AdoptOldest, AdoptPausedState, Prime,
     PrimeNothing, TriggerInterrupt, ResyncCheck, ResyncDeferred, ResyncAdopts, ResyncForces,
     SnapshotThread, allVars, stopVars
<1>7. CASE OwnPause \/ (\E a \in Actors : Execution(a)) \/ TargetsChange
  BY <1>7 DEF OwnPause, Execution, TargetsChange, FirefoxPauses, FirefoxExecutes, FirefoxTargets,
     stopVars
<1>8. CASE AboutModules
  BY <1>8, ModulesKeep
<1>9. QED
  BY <1>2, <1>3, <1>4, <1>5, <1>6, <1>7, <1>8
     DEF DebuggeeNext, DebuggeeChunk, Component, User, AboutModules

-----------------------------------------------------------------------------
(* Types *)

\* Only a report makes a TID count as paused, and only one.
LEMMA OnePause ==
  ASSUME DebuggeeNext
  PROVE  AtMostOne(NewlyPaused)
<1>1. ASSUME pausedTids' \subseteq pausedTids PROVE AtMostOne(NewlyPaused)
  BY <1>1 DEF AtMostOne, NewlyPaused
<1>2. CASE DebuggeeChunk
  <2>1. ASSUME NEW a \in Actors, DeliverPaused(a) PROVE AtMostOne(NewlyPaused)
    BY <2>1 DEF DeliverPaused, AtMostOne, NewlyPaused
  <2>2. CASE HearTarget
    BY <1>1, <2>2 DEF HearTarget, DeliverTarget
  <2>3. ASSUME NEW a \in Actors, DeliverResumed(a) \/ DeliverStray(a) PROVE AtMostOne(NewlyPaused)
    BY <1>1, <2>3 DEF DeliverResumed, DeliverStray, stopVars
  <2>4. QED
    BY <1>1, <1>2, <2>1, <2>2, <2>3 DEF DebuggeeChunk, HearThread, Continuation, Settle
<1>3. CASE DoContinue \/ \E tid \in pausedTids : DoSingleStep(tid)
  BY <1>1, <1>3 DEF DoContinue, DoSingleStep, Execute, ArmForHost, AdoptOldest, AdoptPausedState,
     Continue, SingleStep, RequestResume
<1>4. CASE SnapshotFails \/ StepLost \/ PrimeTimeout \/ SessionEnds
  BY <1>1, <1>4 DEF SnapshotFails, StepLost, PrimeTimeout, SessionEnds, Deadline, StopSessionClose
<1>5. CASE SnapshotAgain \/ PrimeStop \/ PrimeNothing \/ TriggerInterrupt \/ ResyncCheck
           \/ \E tid \in pausedTids : SnapshotThread(tid)
  BY <1>1, <1>5 DEF SnapshotAgain, PrimeStop, AdoptOldest, AdoptPausedState, Prime, PrimeNothing,
     TriggerInterrupt, ResyncCheck, ResyncDeferred, ResyncAdopts, ResyncForces, SnapshotThread,
     allVars, stopVars
<1>6. CASE OwnPause \/ (\E a \in Actors : Execution(a)) \/ TargetsChange
  BY <1>1, <1>6 DEF OwnPause, Execution, TargetsChange, FirefoxPauses, FirefoxExecutes,
     FirefoxTargets, stopVars
<1>7. CASE AboutModules
  BY <1>1, <1>7, ModulesKeep
<1>8. QED
  BY <1>2, <1>3, <1>4, <1>5, <1>6, <1>7 DEF DebuggeeNext, Component, User, AboutModules

\* Whoever is new comes behind all that were there.
LEMMA OrderStep ==
  ASSUME InsertionOrder, DebuggeeNext
  PROVE  InsertionOrder'
<1>1. CASE UNCHANGED <<pausedTids, pausedBefore>>
  BY <1>1 DEF InsertionOrder, Before
<1>2. CASE Follow
  <2>1. \A t, u \in pausedTids' : t \notin pausedTids /\ u \notin pausedTids => t = u
    BY OnePause DEF AtMostOne, NewlyPaused
  <2>2. \A t, u \in pausedTids' : Before(t, u)' <=> Before(t, u) \/ (t \in pausedTids /\ u \notin pausedTids)
    BY <1>2 DEF Follow, NewlyPaused, Before
  <2>3. \A t, u : Before(t, u) => t \in pausedTids /\ u \in pausedTids
    BY DEF InsertionOrder, Before
  <2>4. pausedBefore' \subseteq pausedTids' \X pausedTids'
    BY <1>2 DEF Follow
  <2>5. ASSUME NEW t \in pausedTids', NEW u \in pausedTids'
        PROVE  (Before(t, u) => ~Before(u, t))' /\ (t = u \/ Before(t, u)' \/ Before(u, t)')
    BY <2>1, <2>2, <2>3 DEF InsertionOrder
  <2>6. ASSUME NEW t \in pausedTids', NEW u \in pausedTids', NEW v \in pausedTids',
               Before(t, u)', Before(u, v)'
        PROVE  Before(t, v)'
    BY <2>2, <2>3, <2>6 DEF InsertionOrder
  <2>7. QED
    BY <2>4, <2>5, <2>6 DEF InsertionOrder
<1>3. QED
  BY <1>1, <1>2, PausesAreFollowed DEF PausesFollow

\* The TIDs that the session keeps, and the stop it has completed.
TidTypes ==
  /\ pausedTids \subseteq Nat /\ resumingTids \subseteq Nat
  /\ unwitnessed \subseteq Nat /\ witnessed \subseteq Nat
  /\ completedStop = NoStop \/
       (completedStop.tid \in Nat /\ completedStop.gen \in Nat /\ completedStop.tids \subseteq Nat)
  /\ stoppedTid \in Nat /\ read \subseteq Nat

LEMMA TidsAre ==
  ASSUME threads \subseteq ThreadInfo
  PROVE  TidsOf(threads) \subseteq Nat
  BY DEF TidsOf, ThreadInfo

LEMMA ChunkTids ==
  ASSUME Whole, TidTypes, DebuggeeChunk, ~closed' => Whole'
  PROVE  TidTypes'
<1>1. SessionTypes /\ threads \subseteq ThreadInfo
  BY DEF Whole, SessionTypes
<1>2. CASE HearTarget
  <2>1. closed' => witnessed' = {}
    BY <1>2 DEF HearTarget, DeliverTarget, EndOperation
  <2>2. ~closed' => witnessed' \subseteq witnessed \cup TidsOf(threads')
    BY <1>2 DEF HearTarget, DeliverTarget
  <2>3. ~closed' => TidsOf(threads') \subseteq Nat
    BY DEF Whole, SessionTypes, TidsOf, ThreadInfo
  <2>4. /\ pausedTids' \subseteq pausedTids /\ resumingTids' \subseteq resumingTids
        /\ unwitnessed' \subseteq unwitnessed
        /\ UNCHANGED <<completedStop, stoppedTid>>
    BY <1>2 DEF HearTarget, DeliverTarget
  <2>5. read' \subseteq read
    BY <1>2 DEF HearTarget, ListenToTargets, OnClose
  <2>6. QED
    BY <2>1, <2>2, <2>3, <2>4, <2>5 DEF TidTypes
<1>3. CASE HearThread
  <2>1. PICK a \in Actors : DeliverPaused(a) \/ DeliverResumed(a) \/ DeliverStray(a)
    BY <1>3 DEF HearThread
  <2>2. UNCHANGED read
    BY <1>3 DEF HearThread, adapterVars
  <2>3. CASE DeliverStray(a)
    BY <2>2, <2>3 DEF DeliverStray, stopVars, TidTypes
  <2>4. CASE DeliverPaused(a) \/ DeliverResumed(a)
    <3>1. InfoOf(a).tid \in Nat
      BY <1>1, <2>4, KnownIs DEF DeliverPaused, DeliverResumed, ThreadInfo
    <3>2. /\ pausedTids' \subseteq pausedTids \cup {InfoOf(a).tid}
          /\ resumingTids' \subseteq resumingTids
          /\ unwitnessed' \subseteq unwitnessed \cup {InfoOf(a).tid}
          /\ completedStop' \in {completedStop, NoStop}
          /\ UNCHANGED <<witnessed, stoppedTid>>
      BY <2>4 DEF DeliverPaused, DeliverResumed, Unreported
    <3>3. QED
      BY <2>2, <3>1, <3>2 DEF TidTypes
  <2>5. QED
    BY <2>1, <2>3, <2>4
<1>4. CASE Continuation
  <2>1. UNCHANGED <<pausedTids, resumingTids>>
    BY <1>4 DEF Continuation, Settle
  <2>2. read' \subseteq read
    BY <1>4 DEF Continuation, OnStopped, adapterVars
  <2>3. CASE StartOver \/ WaitAgain
    BY <2>1, <2>2, <2>3 DEF StartOver, WaitAgain, TidTypes
  <2>4. CASE trigger \in ActorsOf(threads) /\ Publish
    <3>1. InfoOf(trigger).tid \in Nat /\ InfoOf(trigger).gen \in Nat
      BY <1>1, <2>4, KnownAre, KnownIs DEF ThreadInfo
    <3>2. /\ completedStop'.tid = InfoOf(trigger).tid /\ completedStop'.gen = InfoOf(trigger).gen
          /\ completedStop'.tids = pausedTids /\ stoppedTid' = InfoOf(trigger).tid
          /\ unwitnessed' = {} /\ witnessed' = {}
      BY <2>4 DEF Publish, EndOperation
    <3>3. QED
      BY <2>1, <2>2, <3>1, <3>2 DEF TidTypes
  <2>5. QED
    BY <1>4, <2>3, <2>4 DEF Continuation, Settle
<1>5. QED
  BY <1>2, <1>3, <1>4 DEF DebuggeeChunk

\* A command of LLDB moves TIDs among the sets, and watches every thread.
LEMMA ExecutionTids ==
  ASSUME Whole, TidTypes, DoContinue \/ \E tid \in pausedTids : DoSingleStep(tid)
  PROVE  TidTypes'
<1>1. witnessed' \subseteq Nat
  <2>1. Arm
    BY ExecutionArms
  <2>2. QED
    BY <2>1, TidsAre DEF Arm, Whole, SessionTypes
<1>2. UNCHANGED read
  BY DEF DoContinue, DoSingleStep, Execute
<1>3. CASE ArmForHost \/ AdoptOldest
  BY <1>1, <1>2, <1>3 DEF ArmForHost, AdoptOldest, AdoptPausedState, TidTypes
<1>4. CASE Continue \/ \E tid \in pausedTids : SingleStep(tid)
  <2>1. /\ pausedTids' \subseteq pausedTids /\ resumingTids' \subseteq resumingTids \cup pausedTids
        /\ unwitnessed' \subseteq unwitnessed /\ completedStop' \in {completedStop, NoStop}
        /\ UNCHANGED stoppedTid
    BY <1>4 DEF Continue, SingleStep, RequestResume
  <2>2. QED
    BY <1>1, <1>2, <2>1 DEF TidTypes
<1>5. QED
  BY <1>3, <1>4 DEF DoContinue, DoSingleStep, Execute

LEMMA TidStep ==
  ASSUME Whole, TidTypes, DebuggeeNext, ~closed' => Whole'
  PROVE  TidTypes'
<1>1. CASE DebuggeeChunk
  BY <1>1, ChunkTids
<1>2. CASE DoContinue \/ \E tid \in pausedTids : DoSingleStep(tid)
  BY <1>2, ExecutionTids
<1>3. ASSUME NEW tid \in pausedTids, SnapshotThread(tid) PROVE TidTypes'
  <2>1. /\ UNCHANGED <<pausedTids, resumingTids, unwitnessed, witnessed, completedStop>>
        /\ read' = read \cup {tid} /\ completedStop # NoStop
        /\ stoppedTid' \in completedStop.tids \cup {stoppedTid}
    BY <1>3 DEF SnapshotThread, StopValid
  <2>2. QED
    BY <2>1 DEF TidTypes
<1>4. CASE SnapshotAgain \/ PrimeStop
  <2>1. Arm /\ UNCHANGED <<pausedTids, resumingTids, unwitnessed, completedStop, stoppedTid, read>>
    BY <1>4 DEF SnapshotAgain, PrimeStop, AdoptOldest, AdoptPausedState, Prime
  <2>2. QED
    BY <2>1, TidsAre DEF Arm, Whole, SessionTypes, TidTypes
<1>5. CASE SnapshotFails \/ StepLost \/ PrimeTimeout \/ SessionEnds
  <2>1. /\ UNCHANGED <<pausedTids, resumingTids, unwitnessed, completedStop, stoppedTid, read>>
        /\ witnessed' = {}
    BY <1>5 DEF SnapshotFails, StepLost, PrimeTimeout, SessionEnds, Deadline, StopSessionClose,
       EndOperation, OnClose
  <2>2. QED
    BY <2>1 DEF TidTypes
<1>6. CASE PrimeNothing \/ TriggerInterrupt \/ ResyncCheck \/ OwnPause \/ TargetsChange
           \/ \E a \in Actors : Execution(a)
  <2>1. UNCHANGED <<pausedTids, resumingTids, unwitnessed, witnessed, completedStop, stoppedTid, read>>
    BY <1>6 DEF PrimeNothing, TriggerInterrupt, ResyncCheck, ResyncDeferred, ResyncAdopts,
       ResyncForces, OwnPause, Execution, TargetsChange, FirefoxPauses, FirefoxExecutes,
       FirefoxTargets, allVars, stopVars, adapterVars
  <2>2. QED
    BY <2>1 DEF TidTypes
<1>7. CASE AboutModules
  BY <1>7, ModulesKeep DEF adapterVars, TidTypes
<1>8. QED
  BY <1>1, <1>2, <1>3, <1>4, <1>5, <1>6, <1>7 DEF DebuggeeNext, Component, User, AboutModules

\* The operation and its collector.
CollectorTypes ==
  /\ operation \in {"idle", "pending"} /\ collecting \in BOOLEAN /\ ready \in BOOLEAN
  /\ trigger \in Actors \cup {NoActor} /\ interrupted \subseteq Actors
  /\ collecting => operation = "pending" /\ trigger # NoActor

LEMMA CollectorStays ==
  ASSUME CollectorTypes, UNCHANGED <<collecting, trigger, ready, interrupted>>,
         operation' \in {operation, "pending"}
  PROVE  CollectorTypes'
  BY DEF CollectorTypes

LEMMA CollectorEnds ==
  ASSUME EndOperation
  PROVE  CollectorTypes'
  BY DEF EndOperation, CollectorTypes

LEMMA InterruptsTypes ==
  ASSUME NEW live \in SUBSET ThreadInfo, NEW paused, NEW resuming, NEW for, NEW already
  PROVE  ToInterrupt(live, paused, resuming, for, already) \subseteq Actors
  BY DEF ToInterrupt, ThreadInfo

LEMMA CollectorCollects ==
  ASSUME CollectorTypes, NEW live \in SUBSET ThreadInfo, NEW paused, NEW resuming,
         Collect(live, paused, resuming), UNCHANGED operation
  PROVE  CollectorTypes'
<1>1. ToInterrupt(live, paused, resuming, trigger, interrupted) \subseteq Actors
  BY InterruptsTypes
<1>2. Complete(live, paused, trigger) \in BOOLEAN
  BY DEF Complete
<1>3. QED
  BY <1>1, <1>2 DEF Collect, CollectorTypes

LEMMA CollectorBegins ==
  ASSUME NEW a \in Actors, NEW paused, NEW resuming, threads \subseteq ThreadInfo,
         Begin(a, threads, paused, resuming), operation' = "pending"
  PROVE  CollectorTypes'
<1>1. ToInterrupt(threads, paused, resuming, a, {}) \subseteq Actors
  BY InterruptsTypes
<1>2. Complete(threads, paused, a) \in BOOLEAN
  BY DEF Complete
<1>3. a # NoActor
  BY AllStopAssumption
<1>4. QED
  BY <1>1, <1>2, <1>3 DEF Begin, CollectorTypes

\* A pause that is adopted is that of a thread.
LEMMA PausedActor ==
  ASSUME Whole, NEW tid \in pausedTids
  PROVE  ActorOf(tid) \in Actors
<1>1. \E i \in threads : i.tid = tid
  BY DEF Whole, Tids, TidsOf
<1>2. QED
  BY <1>1, ThreadsAre DEF ActorOf

LEMMA ChunkCollector ==
  ASSUME Whole, Books, CollectorTypes, DebuggeeChunk, ~closed' => Whole'
  PROVE  CollectorTypes'
<1>1. threads \subseteq ThreadInfo
  BY DEF Whole, SessionTypes
<1>2. CASE HearTarget
  <2>1. CASE closed'
    BY <1>2, <2>1, CollectorEnds DEF HearTarget, DeliverTarget
  <2>2. CASE ~closed'
    <3>1. threads' \subseteq ThreadInfo
      BY <2>2 DEF Whole, SessionTypes
    <3>2. UNCHANGED operation
      BY <1>2, <2>2 DEF HearTarget, DeliverTarget
    <3>3. Collect(threads', pausedTids \ Leaving, resumingTids \ Leaving) \/ NotCollecting
      BY <1>2, <2>2 DEF HearTarget, DeliverTarget
    <3>4. QED
      BY <3>1, <3>2, <3>3, CollectorCollects, CollectorStays DEF NotCollecting
  <2>3. QED
    BY <2>1, <2>2
<1>3. ASSUME NEW a \in Actors, DeliverPaused(a) PROVE CollectorTypes'
  <2>1. PICK paused, resuming :
          \/ Collect(threads, paused, resuming)
          \/ operation = "pending" /\ Begin(a, threads, paused, resuming)
          \/ NotCollecting
    BY <1>3 DEF DeliverPaused
  <2>2. UNCHANGED operation
    BY <1>3 DEF DeliverPaused
  <2>3. QED
    BY <1>1, <2>1, <2>2, CollectorCollects, CollectorBegins, CollectorStays DEF NotCollecting
<1>4. ASSUME NEW a \in Actors, DeliverResumed(a) PROVE CollectorTypes'
  <2>1. PICK paused, resuming : Collect(threads, paused, resuming) \/ NotCollecting
    BY <1>4 DEF DeliverResumed
  <2>2. UNCHANGED operation
    BY <1>4 DEF DeliverResumed
  <2>3. QED
    BY <1>1, <2>1, <2>2, CollectorCollects, CollectorStays DEF NotCollecting
<1>5. ASSUME NEW a \in Actors, DeliverStray(a) PROVE CollectorTypes'
  BY <1>5, CollectorStays DEF DeliverStray, stopVars
<1>6. CASE Settle
  <2>1. operation = "pending"
    BY <1>6 DEF Settle, Books
  <2>2. CASE StartOver
    <3>1. UNCHANGED operation
      BY <2>2 DEF StartOver
    <3>2. CASE pausedTids = {}
      BY <2>1, <2>2, <3>1, <3>2 DEF StartOver, CollectorTypes
    <3>3. CASE pausedTids # {}
      <4>1. PICK tid \in pausedTids : Begin(ActorOf(tid), threads, pausedTids, resumingTids)
        BY <2>2, <3>3 DEF StartOver
      <4>2. QED
        BY <1>1, <2>1, <3>1, <4>1, PausedActor, CollectorBegins
    <3>4. QED
      BY <3>2, <3>3
  <2>3. CASE Publish
    BY <2>3, CollectorEnds DEF Publish
  <2>4. CASE WaitAgain
    <3>1. ToInterrupt(threads, pausedTids, resumingTids, trigger, interrupted) \subseteq Actors
      BY <1>1, InterruptsTypes
    <3>2. QED
      BY <2>4, <3>1 DEF WaitAgain, CollectorTypes
  <2>5. QED
    BY <1>6, <2>2, <2>3, <2>4 DEF Settle
<1>7. QED
  BY <1>2, <1>3, <1>4, <1>5, <1>6 DEF DebuggeeChunk, HearThread, Continuation

\* An adoption begins a collection.
LEMMA AdoptCollector ==
  ASSUME Whole, AdoptPausedState
  PROVE  CollectorTypes'
<1>1. threads \subseteq ThreadInfo /\ operation' = "pending"
  BY DEF Whole, SessionTypes, AdoptPausedState, Arm
<1>2. PICK tid \in pausedTids : Begin(ActorOf(tid), threads, pausedTids, resumingTids)
  BY DEF AdoptPausedState
<1>3. QED
  BY <1>1, <1>2, PausedActor, CollectorBegins

LEMMA CollectorStep ==
  ASSUME Whole, Books, CollectorTypes, DebuggeeNext, ~closed' => Whole'
  PROVE  CollectorTypes'
<1>1. CASE DebuggeeChunk
  BY <1>1, ChunkCollector
<1>2. CASE AdoptOldest
  BY <1>2, AdoptCollector DEF AdoptOldest
<1>3. CASE ArmForHost \/ Continue \/ (\E tid \in pausedTids : SingleStep(tid)) \/ \E a \in Actors : Prime(a)
  BY <1>3, CollectorStays DEF ArmForHost, Continue, SingleStep, Prime, Arm
<1>4. CASE SnapshotFails \/ StepLost \/ PrimeTimeout \/ SessionEnds
  BY <1>4, CollectorEnds DEF SnapshotFails, StepLost, PrimeTimeout, SessionEnds, Deadline,
     StopSessionClose
<1>5. CASE ResyncAdopts
  <2>1. CASE NotCollecting
    BY <1>5, <2>1, CollectorStays DEF ResyncAdopts, NotCollecting
  <2>2. CASE \E tid \in pausedTids : Begin(ActorOf(tid), threads, pausedTids, resumingTids)
    <3>1. threads \subseteq ThreadInfo /\ operation' = "pending"
      BY <1>5 DEF ResyncAdopts, Whole, SessionTypes
    <3>2. QED
      BY <2>2, <3>1, PausedActor, CollectorBegins
  <2>3. QED
    BY <1>5, <2>1, <2>2 DEF ResyncAdopts
<1>6. CASE PrimeNothing \/ TriggerInterrupt \/ ResyncDeferred \/ ResyncForces \/ OwnPause
           \/ TargetsChange \/ (\E a \in Actors : Execution(a))
           \/ \E tid \in pausedTids : SnapshotThread(tid)
  BY <1>6, CollectorStays DEF PrimeNothing, TriggerInterrupt, ResyncDeferred, ResyncForces, OwnPause,
     Execution, TargetsChange, FirefoxPauses, FirefoxExecutes, FirefoxTargets, SnapshotThread,
     allVars, stopVars
<1>7. DoContinue \/ (\E tid \in pausedTids : DoSingleStep(tid)) =>
        ArmForHost \/ AdoptOldest \/ Continue \/ \E tid \in pausedTids : SingleStep(tid)
  BY DEF DoContinue, DoSingleStep, Execute
<1>8. SnapshotAgain \/ PrimeStop => AdoptOldest \/ \E a \in Actors : Prime(a)
  BY DEF SnapshotAgain, PrimeStop
<1>9. CASE AboutModules
  BY <1>9, ModulesKeep, CollectorStays
<1>10. QED
  BY <1>1, <1>2, <1>3, <1>4, <1>5, <1>6, <1>7, <1>8, <1>9
     DEF DebuggeeNext, Component, User, ResyncCheck, AboutModules

\* Threads and counters.
RunTypes ==
  /\ running \in [Actors -> BOOLEAN] /\ commands \in [Actors -> Seq(Commands)]
  /\ stops \in Nat /\ pauses \in Nat /\ presses \in Nat

LEMMA RunStep ==
  ASSUME Whole, RunTypes, DebuggeeNext, ~closed' => Whole'
  PROVE  RunTypes'
<1>1. \/ UNCHANGED <<running, commands>>
      \/ running' \in [Actors -> BOOLEAN] /\ commands' \in [Actors -> Seq(Commands)]
  <2>1. CASE closed'
    <3>1. CASE HearTarget
      BY <2>1, <3>1 DEF HearTarget, DeliverTarget
    <3>2. CASE SnapshotFails \/ StepLost \/ PrimeTimeout \/ SessionEnds
      BY <3>2 DEF SnapshotFails, StepLost, PrimeTimeout, SessionEnds, Deadline, StopSessionClose,
         threadVars
    <3>3. UNCHANGED closed => FALSE
      BY <2>1, ClosedIsClosed
    <3>4. HearThread \/ Continuation \/ PrimeNothing \/ TriggerInterrupt \/ ResyncCheck \/ OwnPause
            \/ TargetsChange \/ (\E a \in Actors : Execution(a))
            \/ (\E tid \in pausedTids : SnapshotThread(tid)) => UNCHANGED closed
      BY DEF HearThread, DeliverPaused, DeliverResumed, DeliverStray, Report, Continuation, Settle,
         PrimeNothing, TriggerInterrupt, ResyncCheck, ResyncDeferred, ResyncAdopts, ResyncForces,
         OwnPause, FirefoxPauses, Execution, FirefoxExecutes, TargetsChange, FirefoxTargets,
         FirefoxLoads, FirefoxAnnouncesPage, FirefoxDestroysPage, FirefoxSwapsPage,
         FirefoxStartsWorker, FirefoxDestroysLate, SnapshotThread, allVars, vars, sessionVars
    <3>5. SnapshotAgain \/ PrimeStop \/ DoContinue \/ (\E tid \in pausedTids : DoSingleStep(tid))
            => UNCHANGED closed
      BY DEF SnapshotAgain, PrimeStop, DoContinue, DoSingleStep, Execute, AdoptOldest,
         AdoptPausedState, ArmForHost, Continue, SingleStep, Prime, vars, sessionVars
    <3>6. AboutModules => UNCHANGED closed
      BY ModulesKeep
    <3>7. QED
      BY <3>1, <3>2, <3>3, <3>4, <3>5, <3>6
         DEF DebuggeeNext, DebuggeeChunk, Component, User, AboutModules
  <2>2. CASE ~closed'
    BY <2>2 DEF Whole, ThreadTypes
  <2>3. QED
    BY <2>1, <2>2
<1>2. /\ stops' \in {stops, stops + 1} /\ pauses' \in {pauses, pauses + 1}
      /\ presses' \in {presses, presses + 1}
  <2>1. CASE DebuggeeChunk
    BY <2>1 DEF DebuggeeChunk, HearTarget, DeliverTarget, HearThread, DeliverPaused, DeliverResumed,
       DeliverStray, Continuation, Settle, stopVars, threadVars
  <2>2. CASE SnapshotFails \/ StepLost \/ PrimeTimeout \/ SessionEnds
    BY <2>2 DEF SnapshotFails, StepLost, PrimeTimeout, SessionEnds, Deadline, StopSessionClose,
       threadVars
  <2>3. CASE SnapshotAgain \/ PrimeStop \/ DoContinue \/ (\E tid \in pausedTids : DoSingleStep(tid))
    BY <2>3 DEF SnapshotAgain, PrimeStop, DoContinue, DoSingleStep, Execute, AdoptOldest, Arm,
       AdoptPausedState, ArmForHost, Continue, SingleStep, Prime
  <2>4. CASE PrimeNothing \/ TriggerInterrupt \/ ResyncCheck \/ OwnPause \/ TargetsChange
             \/ (\E a \in Actors : Execution(a)) \/ \E tid \in pausedTids : SnapshotThread(tid)
    BY <2>4 DEF PrimeNothing, TriggerInterrupt, ResyncCheck, ResyncDeferred, ResyncAdopts,
       ResyncForces, OwnPause, FirefoxPauses, Execution, FirefoxExecutes, TargetsChange,
       FirefoxTargets, SnapshotThread, allVars, stopVars, threadVars
  <2>5. CASE AboutModules
    BY <2>5, ModulesKeep
  <2>6. QED
    BY <2>1, <2>2, <2>3, <2>4, <2>5 DEF DebuggeeNext, Component, User, AboutModules
<1>3. QED
  BY <1>1, <1>2 DEF RunTypes

\* The adapter, and what is remembered of pauses.
AdapterTypes ==
  /\ lldb \in {"start", "waiting", "reading", "prompt", "resuming", "gone"}
  /\ attached \in BOOLEAN /\ stepping \in Nat
  /\ reason \in {"breakpoint", "interrupted", "signal"}
  /\ hostInterruptPending \in BOOLEAN /\ forcingResync \in BOOLEAN
  /\ resyncTid \in Nat /\ resyncTimer \in BOOLEAN
  /\ published \subseteq pausedTids /\ ownPause \subseteq Actors /\ held \subseteq TopActors

LEMMA ClosesTypes ==
  ASSUME OnClose
  PROVE  /\ lldb' = "gone" /\ UNCHANGED <<attached, stepping, reason, read>>
         /\ hostInterruptPending' \in BOOLEAN /\ forcingResync' \in BOOLEAN
         /\ resyncTid' = 0 /\ resyncTimer' \in BOOLEAN
  BY Zenon DEF OnClose, ClearResync

LEMMA ChunkAdapter ==
  ASSUME Whole, AdapterTypes, DebuggeeChunk, ~closed' => Whole'
  PROVE  AdapterTypes'
<1>1. CASE HearTarget
  <2>1. /\ published' = published \cap pausedTids' /\ held' \subseteq held
        /\ UNCHANGED ownPause
    BY <1>1 DEF HearTarget
  <2>2. CASE closed'
    BY <1>1, <2>1, <2>2, ClosesTypes DEF HearTarget, ListenToTargets, AdapterTypes
  <2>3. CASE ~closed'
    <3>1. \A i \in threads \cup threads' : i.tid \in Nat
      BY <2>3 DEF Whole, SessionTypes, ThreadInfo
    <3>2. resyncTid' \in Nat /\ resyncTimer' \in BOOLEAN
      <4>1. \/ \E i \in threads \cup threads' : ScheduleResync(i.tid)
            \/ ClearResync
            \/ UNCHANGED <<resyncTid, resyncTimer>>
        <5>1. PageCame \cup ModuleCame \subseteq threads \cup threads'
          BY DEF PageCame, ModuleCame, Tops
        <5>2. QED
          BY <1>1, <2>3, <5>1 DEF HearTarget, ListenToTargets
      <4>2. ASSUME NEW i, ScheduleResync(i.tid) PROVE resyncTimer' \in BOOLEAN
        BY <4>2, Zenon DEF ScheduleResync
      <4>3. ClearResync => resyncTimer' \in BOOLEAN
        BY Zenon DEF ClearResync
      <4>4. (\E i \in threads \cup threads' : ScheduleResync(i.tid)) \/ ClearResync => resyncTid' \in Nat
        BY <3>1 DEF ScheduleResync, ClearResync
      <4>5. QED
        BY <4>1, <4>2, <4>3, <4>4 DEF AdapterTypes
    <3>3. UNCHANGED <<lldb, attached, stepping, reason, hostInterruptPending, forcingResync>>
      BY <1>1, <2>3 DEF HearTarget, ListenToTargets
    <3>4. QED
      BY <2>1, <3>2, <3>3 DEF AdapterTypes
  <2>4. QED
    BY <2>2, <2>3
<1>2. CASE HearThread
  BY <1>2 DEF HearThread, KeepPauses, Forget, adapterVars, AdapterTypes
<1>3. CASE Continuation
  <2>1. pausedTids' = pausedTids /\ UNCHANGED ownPause
    BY <1>3 DEF Continuation, Settle
  <2>2. CASE OnStopped
    <3>1. ActorsOf(Tops) \subseteq TopActors
      BY DEF Whole, Sound, Threads, Placed, Tops, ActorsOf
    <3>2. Label \in {"breakpoint", "interrupted", "signal"}
      BY DEF Label
    <3>3. QED
      BY <2>1, <2>2, <3>1, <3>2 DEF OnStopped, ClearResync, AdapterTypes
  <2>3. CASE Forget /\ UNCHANGED adapterVars
    BY <2>1, <2>3 DEF Forget, adapterVars, AdapterTypes
  <2>4. QED
    BY <1>3, <2>2, <2>3 DEF Continuation
<1>4. QED
  BY <1>1, <1>2, <1>3 DEF DebuggeeChunk

LEMMA AdapterStep ==
  ASSUME Whole, pausedTids \subseteq Nat, AdapterTypes, DebuggeeNext, ~closed' => Whole'
  PROVE  AdapterTypes'
<1>1. KeepPauses => published' \subseteq pausedTids' /\ UNCHANGED <<held, ownPause>>
  BY DEF KeepPauses, Forget
<1>2. ArmStopped => resyncTimer' \in BOOLEAN /\ UNCHANGED resyncTid
  BY DEF ArmStopped
<1>3. CASE DebuggeeChunk
  BY <1>3, ChunkAdapter
<1>4. CASE DoContinue \/ \E tid \in pausedTids : DoSingleStep(tid)
  <2>1. ArmStopped /\ lldb' = "waiting"
    BY <1>4, ExecutionArms
  <2>2. KeepPauses /\ UNCHANGED <<attached, reason, hostInterruptPending, forcingResync>>
    BY <1>4 DEF DoContinue, DoSingleStep, Execute
  <2>3. stepping' \in Nat
    BY <1>4 DEF DoContinue, DoSingleStep
  <2>4. QED
    BY <1>1, <1>2, <2>1, <2>2, <2>3 DEF AdapterTypes
<1>5. CASE SnapshotAgain \/ PrimeStop
  BY <1>1, <1>2, <1>5 DEF SnapshotAgain, PrimeStop, AdoptOldest, AdapterTypes
<1>6. CASE SnapshotFails \/ StepLost \/ PrimeTimeout \/ SessionEnds
  BY <1>1, <1>6, ClosesTypes DEF SnapshotFails, StepLost, PrimeTimeout, SessionEnds, AdapterTypes
<1>7. ASSUME NEW tid \in pausedTids, SnapshotThread(tid) PROVE AdapterTypes'
  <2>1. /\ lldb' \in {lldb, "resuming", "prompt"} /\ stepping' \in {stepping, 0}
        /\ UNCHANGED <<pausedTids, reason, hostInterruptPending, forcingResync, resyncTid, resyncTimer>>
        /\ UNCHANGED <<published, ownPause, held>>
    BY <1>7 DEF SnapshotThread, HandOver
  <2>2. attached' = attached \/ attached' = TRUE
    BY <1>7 DEF SnapshotThread, HandOver
  <2>3. attached' \in BOOLEAN
    BY <2>2, Zenon DEF AdapterTypes
  <2>4. QED
    BY <2>1, <2>3 DEF AdapterTypes
<1>8. CASE PrimeNothing \/ TriggerInterrupt \/ ResyncCheck
  <2>1. /\ attached' \in BOOLEAN /\ hostInterruptPending' \in BOOLEAN
        /\ forcingResync' \in BOOLEAN /\ resyncTimer' \in BOOLEAN
    BY <1>8, Zenon DEF PrimeNothing, TriggerInterrupt, ResyncCheck, ResyncDeferred, ResyncAdopts,
       ResyncForces, ClearResync, AdapterTypes
  <2>2. /\ lldb' \in {lldb, "prompt"} /\ resyncTid' \in {resyncTid, 0}
        /\ UNCHANGED <<stepping, reason, pausedTids, published, ownPause, held>>
    BY <1>8 DEF PrimeNothing, TriggerInterrupt, ResyncCheck, ResyncDeferred, ResyncAdopts,
       ResyncForces, ClearResync, allVars, stopVars
  <2>3. QED
    BY <2>1, <2>2 DEF AdapterTypes
<1>9. CASE OwnPause \/ (\E a \in Actors : Execution(a)) \/ TargetsChange
  <2>1. Forget /\ UNCHANGED adapterVars /\ ownPause' \subseteq ownPause \cup Actors
    BY <1>9 DEF OwnPause, Execution, TargetsChange, KeepPauses
  <2>2. QED
    BY <2>1 DEF Forget, adapterVars, AdapterTypes
<1>10. CASE AboutModules
  <2>1. KeepPauses /\ UNCHANGED adapterVars
    BY <1>10, ModulesKeep
  <2>2. QED
    BY <1>1, <2>1 DEF adapterVars, AdapterTypes
<1>11. QED
  BY <1>3, <1>4, <1>5, <1>6, <1>7, <1>8, <1>9, <1>10 DEF DebuggeeNext, Component, User, AboutModules

\* All of it, with the invariant that the steps need.
TypeInv ==
  StopInv /\ TidTypes /\ CollectorTypes /\ RunTypes /\ AdapterTypes /\ InsertionOrder

LEMMA TypeInitially ==
  ASSUME DebuggeeInit
  PROVE  TypeInv
<1>1. /\ pausedTids = {} /\ resumingTids = {} /\ unwitnessed = {} /\ witnessed = {}
      /\ completedStop = NoStop /\ stoppedTid = 1 /\ read = {}
  BY DEF DebuggeeInit
<1>2. TidTypes
  BY <1>1 DEF TidTypes
<1>3. CollectorTypes
  BY DEF DebuggeeInit, CollectorTypes
<1>4. RunTypes
  <2>1. running = [a \in Actors |-> TRUE] /\ commands = [a \in Actors |-> <<>>]
    BY DEF DebuggeeInit
  <2>2. stops = 0 /\ pauses = 0 /\ presses = 0
    BY DEF DebuggeeInit
  <2>3. QED
    BY <2>1, <2>2 DEF RunTypes
<1>5. AdapterTypes
  BY DEF DebuggeeInit, AdapterTypes
<1>6. pausedBefore = {}
  BY DEF DebuggeeInit
<1>7. QED
  BY <1>1, <1>2, <1>3, <1>4, <1>5, <1>6, StopInitially DEF TypeInv, InsertionOrder

LEMMA TypeStep ==
  ASSUME TypeInv, DebuggeeNext
  PROVE  TypeInv'
<1>1. Whole /\ Books
  BY ClosedIsClosed DEF TypeInv, StopInv, DebuggeeInv
<1>2. StopInv'
  BY StopStep DEF TypeInv
<1>3. ~closed' => Whole'
  BY <1>2 DEF StopInv, DebuggeeInv
<1>4. TidTypes' /\ CollectorTypes' /\ RunTypes'
  BY <1>1, <1>3, TidStep, CollectorStep, RunStep DEF TypeInv
<1>5. AdapterTypes'
  BY <1>1, <1>3, AdapterStep DEF TypeInv, TidTypes
<1>6. QED
  BY <1>2, <1>4, <1>5, OrderStep DEF TypeInv

LEMMA TypeStutter ==
  ASSUME TypeInv, UNCHANGED everything
  PROVE  TypeInv'
<1>1. StopInv'
  BY StopStutter DEF TypeInv
<1>2. /\ UNCHANGED <<pausedTids, resumingTids, unwitnessed, witnessed, completedStop, stoppedTid, read>>
      /\ UNCHANGED <<operation, collecting, ready, trigger, interrupted>>
      /\ UNCHANGED <<running, commands, stops, pauses, presses>>
  BY DEF everything, allVars, stopVars, threadVars, debuggeeVars, adapterVars
<1>3. /\ UNCHANGED <<lldb, attached, stepping, reason, hostInterruptPending, forcingResync>>
      /\ UNCHANGED <<resyncTid, resyncTimer, published, ownPause, held, pausedBefore>>
  BY DEF everything, debuggeeVars, adapterVars
<1>4. TidTypes' /\ CollectorTypes' /\ RunTypes' /\ AdapterTypes'
  BY <1>2, <1>3 DEF TypeInv, TidTypes, CollectorTypes, RunTypes, AdapterTypes
<1>5. InsertionOrder'
  BY <1>2, <1>3 DEF TypeInv, InsertionOrder, Before
<1>6. QED
  BY <1>1, <1>4, <1>5 DEF TypeInv

-----------------------------------------------------------------------------
(* The theorems *)

\* In every state of an open session, what is to come from each thread agrees with what the
\* session takes it to do.
THEOREM DebuggeeInvariant == DebuggeeSpec => []DebuggeeInv
<1>1. DebuggeeInit => DebuggeeInv
  BY DebuggeeInitially DEF DebuggeeInv
<1>2. DebuggeeInv /\ [DebuggeeNext]_everything => DebuggeeInv'
  BY DebuggeeStep, DebuggeeStutter
<1>3. QED
  BY <1>1, <1>2, PTL DEF DebuggeeSpec

\* A TID counts as paused for the thread that owns it now, which stands still in Firefox;
\* whatever pages replace each other under it, no pause is left behind by the one before.
THEOREM PausesBelongToTheirThreads == DebuggeeSpec => []PausesAreOwned
<1>1. DebuggeeInv => PausesAreOwned
  BY DEF DebuggeeInv, Whole, Tids, Channels, Watched, Stands, PausesAreOwned
<1>2. QED
  BY <1>1, DebuggeeInvariant, PTL

\* While a stop is valid, no thread runs in Firefox and none has been told to: LLDB reads
\* frames and memory that stand still.
THEOREM StopsAreReal == DebuggeeSpec => []StopIsReal
<1>1. ASSUME DebuggeeInv, StopValid PROVE TidsOf(threads) \subseteq pausedTids
  <2>1. /\ completedStop.tids \subseteq TidsOf(threads) /\ completedStop.tids \subseteq pausedTids
        /\ Cardinality(completedStop.tids) = Cardinality(threads) /\ IsFiniteSet(threads)
    BY <1>1 DEF StopValid, DebuggeeInv, Whole, SessionTypes
  <2> DEFINE tidOf == [i \in threads |-> i.tid]
  <2>2. tidOf \in Surjection(threads, TidsOf(threads))
    BY DEF Surjection, TidsOf
  <2>3. IsFiniteSet(TidsOf(threads)) /\ Cardinality(TidsOf(threads)) <= Cardinality(threads)
    BY <2>1, <2>2, FS_Surjection
  <2>4. Cardinality(completedStop.tids) <= Cardinality(TidsOf(threads))
    BY <2>1, <2>3, FS_Subset
  <2>5. Cardinality(TidsOf(threads)) \in Nat /\ Cardinality(threads) \in Nat
    BY <2>1, <2>3, FS_CardinalityType
  <2>6. Cardinality(TidsOf(threads)) = Cardinality(completedStop.tids)
    BY <2>1, <2>3, <2>4, <2>5
  <2>7. TidsOf(threads) = completedStop.tids
    BY <2>1, <2>3, <2>6, FS_Subset
  <2>8. QED
    BY <2>1, <2>7
<1>2. ASSUME DebuggeeInv, StopValid, NEW i \in threads
      PROVE  ~running[i.actor] /\ Orders(i.actor) = {}
  <2>1. i.tid \in pausedTids /\ Watched(i)
    BY <1>1, <1>2 DEF TidsOf, DebuggeeInv, Whole, Channels, StopValid
  <2>2. QED
    BY <2>1 DEF Watched, Stands
<1>3. DebuggeeInv => StopIsReal
  BY <1>2 DEF StopIsReal, Orders
<1>4. QED
  BY <1>3, DebuggeeInvariant, PTL

\* A stop that is published is not one a thread is about to leave ("coherent all-stop",
\* session.ts, armAllStop), as long as LLDB steps only threads that are paused: the step of a
\* replaced page (StepReplacement) is the only one that breaks it.
THEOREM AllStopIsCoherent == DebuggeeSpec => []CoherentAllStop
<1>1. ASSUME DebuggeeInv, StopIsReal PROVE CoherentAllStop
  <2> SUFFICES ASSUME StopValid, NEW i \in threads, Alive(i.actor), commands[i.actor] # <<>>
               PROVE  "resume" # Head(commands[i.actor])
    BY DEF CoherentAllStop
  <2>1. commands[i.actor] \in Seq(Commands)
    BY <1>1, ThreadsAre DEF StopValid, DebuggeeInv, Whole, ThreadTypes
  <2>2. 1 \in DOMAIN commands[i.actor] /\ Head(commands[i.actor]) = commands[i.actor][1]
    BY <2>1
  <2>3. "resume" \notin {commands[i.actor][n] : n \in DOMAIN commands[i.actor]}
    BY <1>1 DEF StopIsReal
  <2>4. QED
    BY <2>2, <2>3
<1>2. QED
  BY <1>1, DebuggeeInvariant, StopsAreReal, PTL

\* In every state of an open session, the books of the operation, the destructions to come, the
\* calls of a running collector, the pages LLDB has yet to see held and the pauses it has yet to be
\* told of agree.
THEOREM StopInvariant == DebuggeeSpec => []StopInv
<1>1. DebuggeeInit => StopInv
  BY StopInitially
<1>2. StopInv /\ [DebuggeeNext]_everything => StopInv'
  BY StopStep, StopStutter
<1>3. QED
  BY <1>1, <1>2, PTL DEF DebuggeeSpec

\* A collection that is under way is never stuck: whatever threads pause, resume, come and go
\* meanwhile (session.ts, #collectStop), as long as it lasts something is still on its way.
THEOREM CollectionsEnd == DebuggeeSpec => []CollectionNotStuck
  BY StopInvariant, QuietIsCollected, PTL

\* A page that replaced another while LLDB waits or before it does, or has announced a new module
\* since it was last part of a stop, is brought to a stop (rdp-debuggee.ts, onWasmSource,
\* #scheduleResyncCheck and armStopped): it does not run for good with LLDB knowing only the
\* modules of the page before, or those of an earlier stop.
THEOREM ReplacementsAreHeld == DebuggeeSpec => []ReplacementNotMissed
  BY StopInvariant, QuietIsReplaced, PTL

\* A thread that stopped for a breakpoint or an exception is let go only after a stop that it
\* was part of: no continue or step (#doContinue, #doSingleStep) resumes a pause LLDB was not
\* told of.
THEOREM PausesArePublished == DebuggeeSpec => PauseIsPublished
<1> DEFINE Kept == ~closed' => \A i \in threads \cap threads' :
                     i.tid \in ownTids \ published => i.tid \in pausedTids'
<1>1. ASSUME StopInv, [DebuggeeNext]_everything PROVE [Kept]_everything
  <2>1. CASE UNCHANGED everything
    BY <2>1
  <2>2. CASE DebuggeeNext
    <3>1. Kept
      BY <1>1, <2>2, PausesStay DEF StopInv
    <3>2. QED
      BY <3>1
  <2>3. QED
    BY <1>1, <2>1, <2>2
<1>2. QED
  BY <1>1, StopInvariant, PTL DEF DebuggeeSpec, PauseIsPublished

\* Every variable of the stop operation and of the adapter keeps its type; the paused TIDs are in
\* one order; the packets and published pauses kept beside them are theirs; and LLDB waits during
\* an operation and only then, for any number of threads, commands and stops.
THEOREM DebuggeeTypeCorrect == DebuggeeSpec => []DebuggeeTypeOK
<1>1. TypeInv /\ [DebuggeeNext]_everything => TypeInv'
  BY TypeStep, TypeStutter
<1>2. ASSUME TypeInv PROVE DebuggeeTypeOK
  <2>1. AllStopTypeOK
    BY <1>2 DEF TypeInv, TidTypes, CollectorTypes, RunTypes, AllStopTypeOK
  <2>2. ~closed => ((lldb = "waiting") <=> (operation = "pending"))
    BY <1>2 DEF TypeInv, StopInv, Books
  <2>3. QED
    BY <1>2, <2>1, <2>2 DEF TypeInv, StopInv, TidTypes, AdapterTypes, DebuggeeTypeOK
<1>3. QED
  BY <1>1, <1>2, TypeInitially, PTL DEF DebuggeeSpec
=============================================================================
