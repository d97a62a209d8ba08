----------------------------- MODULE RdpClient -----------------------------
(***************************************************************************)
(* src/src/rdp/client.ts over src/src/rdp/transport.ts: one connection to  *)
(* Firefox, a FIFO of requests per actor, permanent actor retirement and   *)
(* the rule that an unanswered request poisons the whole connection.       *)
(*                                                                         *)
(* An RDP reply names only its sender, so a reply settles the oldest       *)
(* request of that actor.  The model tags each request with an identifier  *)
(* Firefox keeps (server) and the client cannot see; answeredBy records    *)
(* which request a delivered reply was really for.                         *)
(*                                                                         *)
(* Firefox and the wire are one external FIFO per actor: a reply that      *)
(* leaves late and one that travels slowly look the same to the client,    *)
(* and the order across actors is left open.                               *)
(*                                                                         *)
(* A slotless send is acknowledged by an event, or refused with an error   *)
(* (rdp-debuggee.ts 1175-1178: interrupting a paused thread draws          *)
(* alreadyPaused; client.ts 24-26 says an event).  The client cannot tell  *)
(* such an error from a reply, so it settles the oldest request there is.  *)
(***************************************************************************)
EXTENDS Integers, Sequences, FiniteSets

CONSTANTS Actors,        \* actor names on this connection
          Root,          \* the well-known actor that greets
          Threads,       \* actors that are resumed and interrupted, with slotless sends
          Lifetimes,     \* AbortSignals passed as actorLifetime
          NoLifetime,    \* a request made without one
          MaxPending,    \* 1024 in the code
          MaxRetired,    \* 65536 in the code
          MaxRequests,   \* bound: requests ever made
          MaxAcks        \* bound: fire-and-forget sends of one actor not yet responded to

ASSUME ClientAssumption ==
  /\ Root \in Actors /\ Threads \subseteq Actors
  /\ NoLifetime \notin Lifetimes
  /\ MaxPending \in Nat \ {0}
  /\ MaxRetired \in Nat
  /\ MaxRequests \in Nat
  /\ MaxAcks \in Nat

RequestId == 1..MaxRequests

VARIABLES
  pending,        \* #pending: actor -> FIFO of request ids
  pendingCount,   \* #pendingCount
  retiredActors,  \* #retiredActors
  closed,         \* #closed
  gotRoot,        \* the greeting has been seen
  ready,          \* state of the #ready promise
  connected,      \* what connect() has told its caller
  nextRequestId,  \* #nextRequestId
  lifetime,       \* the actorLifetime of each request
  abortedLifetimes, \* lifetimes that have been aborted
  outcome,        \* state of each request's promise
  askedOf,        \* history: the actor each request was made of
  answeredBy,     \* history: the request that a settling packet was really for, 0 for none
  misled,         \* history: actors one of whose refusals settled a request
  socket,         \* open, destroyed (close not yet emitted), gone
  server,         \* external: actor -> requests Firefox has yet to have answered
  acks,           \* external: actor -> events owed for fire-and-forget sends
  refusals        \* external: actor -> errors owed for them, each with the request id it precedes

rdpVars == <<pending, pendingCount, retiredActors, closed, gotRoot, ready, connected,
                nextRequestId, lifetime, abortedLifetimes, outcome, askedOf, answeredBy, misled>>
history == <<askedOf, answeredBy, misled>>
firefox == <<server, acks, refusals>>
vars == <<rdpVars, socket, firefox>>

Init ==
  /\ pending = [a \in Actors |-> <<>>]
  /\ pendingCount = 0
  /\ retiredActors = {}
  /\ closed = FALSE
  /\ gotRoot = FALSE
  /\ ready = "waiting"
  /\ connected = "connecting"
  /\ nextRequestId = 1
  /\ lifetime = [r \in RequestId |-> NoLifetime]
  /\ abortedLifetimes = {}
  /\ outcome = [r \in RequestId |-> "unsent"]
  /\ askedOf = [r \in RequestId |-> Root]
  /\ answeredBy = [r \in RequestId |-> 0]
  /\ misled = {}
  /\ socket = "open"
  /\ server = [a \in Actors |-> <<>>]
  /\ acks = [a \in Actors |-> 0]
  /\ refusals = [a \in Actors |-> <<>>]

-----------------------------------------------------------------------------
Queued(a) == {pending[a][i] : i \in DOMAIN pending[a]}

AllQueued == UNION {Queued(a) : a \in Actors}

\* Mutant.  Closing forgets the queues without rejecting what is in them.
RejectNothing(fresh) ==
  /\ pending' = [a \in Actors |-> <<>>]
  /\ pendingCount' = 0
  /\ UNCHANGED outcome

\* #rejectPending: every queued request fails and both books are cleared.  A
\* request (fresh) already pushed by the caller of this step fails with them.
RejectPending(fresh) ==
  /\ outcome' = [r \in RequestId |-> IF r \in AllQueued \cup fresh THEN "rejected" ELSE outcome[r]]
  /\ pending' = [a \in Actors |-> <<>>]
  /\ pendingCount' = 0

\* RdpClient.close on an open client: fail everything, then destroy the socket.
Close(fresh) ==
  /\ closed' = TRUE
  /\ RejectPending(fresh)
  /\ socket' = IF socket = "open" THEN "destroyed" ELSE socket
  /\ UNCHANGED <<gotRoot, ready, lifetime, history, firefox>>

OwnerClose ==
  /\ connected = "open" /\ ~closed
  /\ Close({})
  /\ UNCHANGED <<connected, retiredActors, nextRequestId, abortedLifetimes>>

-----------------------------------------------------------------------------
\* The first packet of the root actor resolves #ready, whoever is listening.
Greeting ==
  /\ socket # "gone" /\ ~gotRoot
  /\ gotRoot' = TRUE
  /\ ready' = IF ready = "waiting" THEN "resolved" ELSE ready
  /\ UNCHANGED <<pending, pendingCount, retiredActors, closed, connected, nextRequestId,
                 lifetime, abortedLifetimes, outcome, history, socket, firefox>>

ConnectReturns ==
  /\ connected = "connecting" /\ ready = "resolved"
  /\ connected' = "open"
  /\ UNCHANGED <<pending, pendingCount, retiredActors, closed, gotRoot, ready, nextRequestId,
                 lifetime, abortedLifetimes, outcome, history, socket, firefox>>

\* Mutant.  connect() leaves the half-open client to its caller.
ConnectFailsOpen ==
  /\ connected = "connecting"
  /\ connected' = "failed"
  /\ UNCHANGED <<pending, pendingCount, retiredActors, closed, gotRoot, ready, nextRequestId,
                 lifetime, abortedLifetimes, outcome, history, socket, firefox>>

\* connect() loses the race with its greeting timer, or #ready rejects: the
\* half-made client is closed before the error reaches the caller.
ConnectFails ==
  /\ connected = "connecting"
  /\ connected' = "failed"
  /\ IF closed THEN UNCHANGED <<pending, pendingCount, closed, gotRoot, ready, lifetime,
                                outcome, history, socket, firefox>>
               ELSE Close({})
  /\ UNCHANGED <<retiredActors, nextRequestId, abortedLifetimes>>

-----------------------------------------------------------------------------
\* Mutant.  request() forgets to look the actor up among the tombstones.
AskRetired(a, life) ==
  /\ connected = "open" /\ ~closed
  /\ life \notin abortedLifetimes
  /\ nextRequestId <= MaxRequests

\* A request the early returns of request() let through.
MayRequest(a, life) ==
  /\ connected = "open" /\ ~closed
  /\ a \notin retiredActors /\ life \notin abortedLifetimes
  /\ nextRequestId <= MaxRequests

Request(a, life) ==
  /\ MayRequest(a, life) /\ pendingCount < MaxPending
  /\ nextRequestId' = nextRequestId + 1
  /\ pending' = [pending EXCEPT ![a] = Append(@, nextRequestId)]
  /\ pendingCount' = pendingCount + 1
  /\ lifetime' = [lifetime EXCEPT ![nextRequestId] = life]
  /\ outcome' = [outcome EXCEPT ![nextRequestId] = "pending"]
  /\ askedOf' = [askedOf EXCEPT ![nextRequestId] = a]
  /\ server' = [server EXCEPT ![a] = Append(@, nextRequestId)]
  /\ UNCHANGED <<retiredActors, closed, gotRoot, ready, connected, abortedLifetimes, answeredBy,
                 misled, socket, acks, refusals>>

\* The request is already queued when transport.send throws (frame too large or
\* not serializable): the connection closes and takes the request with it.
RequestUnsendable(a, life) ==
  /\ MayRequest(a, life) /\ pendingCount < MaxPending
  /\ nextRequestId' = nextRequestId + 1
  /\ Close({nextRequestId})
  /\ UNCHANGED <<connected, retiredActors, abortedLifetimes>>

RequestOverLimit(a, life) ==
  /\ MayRequest(a, life) /\ pendingCount >= MaxPending
  /\ Close({})
  /\ UNCHANGED <<connected, retiredActors, nextRequestId, abortedLifetimes>>

\* Fire-and-forget: no slot is taken, because Firefox is to acknowledge with an event.
MaySend(a) ==
  /\ connected = "open" /\ ~closed /\ a \notin retiredActors

\* Whether it does, or refuses what it is in no state to do, is Firefox's choice.
Send(a) ==
  /\ MaySend(a) /\ acks[a] + Len(refusals[a]) < MaxAcks
  /\ \/ acks' = [acks EXCEPT ![a] = @ + 1] /\ UNCHANGED refusals
     \/ refusals' = [refusals EXCEPT ![a] = Append(@, nextRequestId)] /\ UNCHANGED acks
  /\ UNCHANGED <<rdpVars, socket, server>>

\* transport.send throws: the connection closes before the caller hears of it.
SendUnsendable(a) ==
  /\ MaySend(a)
  /\ Close({})
  /\ UNCHANGED <<connected, retiredActors, nextRequestId, abortedLifetimes>>

-----------------------------------------------------------------------------
\* Firefox responds in the order it was written to: a refusal is next once every
\* request made before the refused send has been answered.
RefusalDue(a) ==
  /\ refusals[a] # <<>>
  /\ server[a] # <<>> => Head(refusals[a]) <= Head(server[a])

\* Mutant.  An error reply is taken for an event and leaves its request queued.
ErrorIsNoReply(a, how) ==
  /\ socket # "gone" /\ server[a] # <<>> /\ ~RefusalDue(a)
  /\ server' = [server EXCEPT ![a] = Tail(@)]
  /\ IF a \notin retiredActors /\ pending[a] # <<>> /\ how = "resolved"
     THEN LET r == Head(pending[a]) IN
          /\ pending' = [pending EXCEPT ![a] = Tail(@)]
          /\ pendingCount' = pendingCount - 1
          /\ outcome' = [outcome EXCEPT ![r] = how]
          /\ answeredBy' = [answeredBy EXCEPT ![r] = Head(server[a])]
     ELSE UNCHANGED <<pending, pendingCount, outcome, answeredBy>>
  /\ UNCHANGED <<retiredActors, closed, gotRoot, ready, connected, nextRequestId, lifetime,
                 abortedLifetimes, askedOf, misled, socket, acks, refusals>>

\* A packet from a that is neither the greeting nor an event.  The socket may
\* already be destroyed: frames of a chunk in hand are still handed over.
DeliverReply(a, how) ==
  /\ socket # "gone" /\ server[a] # <<>> /\ ~RefusalDue(a)
  /\ server' = [server EXCEPT ![a] = Tail(@)]
  /\ IF a \notin retiredActors /\ pending[a] # <<>>
     THEN LET r == Head(pending[a]) IN
          /\ pending' = [pending EXCEPT ![a] = Tail(@)]
          /\ pendingCount' = pendingCount - 1
          /\ outcome' = [outcome EXCEPT ![r] = how]
          /\ answeredBy' = [answeredBy EXCEPT ![r] = Head(server[a])]
     ELSE UNCHANGED <<pending, pendingCount, outcome, answeredBy>>
  /\ UNCHANGED <<retiredActors, closed, gotRoot, ready, connected, nextRequestId, lifetime,
                 abortedLifetimes, askedOf, misled, socket, acks, refusals>>

\* The same packet handler, given the error that refuses a slotless send: the oldest
\* request of the actor fails with it.  With none queued the packet is unsolicited.
DeliverRefusal(a) ==
  /\ socket # "gone" /\ RefusalDue(a)
  /\ refusals' = [refusals EXCEPT ![a] = Tail(@)]
  /\ IF a \notin retiredActors /\ pending[a] # <<>>
     THEN /\ pending' = [pending EXCEPT ![a] = Tail(@)]
          /\ pendingCount' = pendingCount - 1
          /\ outcome' = [outcome EXCEPT ![Head(pending[a])] = "error"]
          /\ misled' = misled \cup {a}
     ELSE UNCHANGED <<pending, pendingCount, outcome, misled>>
  /\ UNCHANGED <<retiredActors, closed, gotRoot, ready, connected, nextRequestId, lifetime,
                 abortedLifetimes, askedOf, answeredBy, socket, server, acks>>

\* An event bypasses the FIFO however many requests its actor has outstanding.
DeliverEvent(a) ==
  /\ socket # "gone" /\ acks[a] > 0
  /\ acks' = [acks EXCEPT ![a] = @ - 1]
  /\ UNCHANGED <<rdpVars, socket, server, refusals>>

\* Mutant.  A timed-out request leaves its FIFO and the connection stays up.
TimeoutDropsRequest(r) ==
  /\ outcome[r] = "pending" /\ ~closed
  /\ \E a \in Actors :
       /\ r \in Queued(a)
       /\ pending' = [pending EXCEPT ![a] = SelectSeq(@, LAMBDA x : x # r)]
  /\ pendingCount' = pendingCount - 1
  /\ outcome' = [outcome EXCEPT ![r] = "rejected"]
  /\ UNCHANGED <<retiredActors, closed, gotRoot, ready, connected, nextRequestId, lifetime,
                 abortedLifetimes, history, socket, firefox>>

\* Mutant.  Requests are sent without a timer.
NoTimer(r) == FALSE /\ UNCHANGED vars

\* A FIFO with a missing answer cannot be resynchronised: close everything.
RequestTimeout(r) ==
  /\ outcome[r] = "pending" /\ ~closed
  /\ Close({})
  /\ UNCHANGED <<connected, retiredActors, nextRequestId, abortedLifetimes>>

-----------------------------------------------------------------------------
\* Actors with a request still queued under lifetime l: its abort listeners.
Listening(l) == {a \in Actors : \E r \in Queued(a) : lifetime[r] = l}

\* Mutant.  Retirement forgets to give the slots of the retired queue back.
RetireKeepsSlots(S) ==
  /\ retiredActors' = retiredActors \cup S
  /\ outcome' = [r \in RequestId |->
                   IF \E a \in S : r \in Queued(a) THEN "rejected" ELSE outcome[r]]
  /\ pending' = [a \in Actors |-> IF a \in S THEN <<>> ELSE pending[a]]
  /\ UNCHANGED pendingCount

\* #retireActor for every listener: tombstone the actor and fail its queue.
RetireActors(S) ==
  /\ retiredActors' = retiredActors \cup S
  /\ outcome' = [r \in RequestId |->
                   IF \E a \in S : r \in Queued(a) THEN "rejected" ELSE outcome[r]]
  /\ pending' = [a \in Actors |-> IF a \in S THEN <<>> ELSE pending[a]]
  /\ pendingCount' = pendingCount - Cardinality(UNION {Queued(a) : a \in S})

Abort(l) ==
  /\ l \notin abortedLifetimes
  /\ abortedLifetimes' = abortedLifetimes \cup {l}
  /\ Cardinality(retiredActors) + Cardinality(Listening(l)) <= MaxRetired
  /\ RetireActors(Listening(l))
  /\ UNCHANGED <<closed, gotRoot, ready, connected, nextRequestId, lifetime, history,
                 socket, firefox>>

\* The tombstone set is full before every listener ran: evicting one would let
\* a late reply through, so the connection closes instead.
AbortOverLimit(l, S) ==
  /\ l \notin abortedLifetimes
  /\ abortedLifetimes' = abortedLifetimes \cup {l}
  /\ S \subseteq Listening(l)
  /\ Cardinality(retiredActors) + Cardinality(Listening(l)) > MaxRetired
  /\ Cardinality(retiredActors) + Cardinality(S) = MaxRetired
  /\ retiredActors' = retiredActors \cup S
  /\ Close({})
  /\ UNCHANGED <<connected, nextRequestId>>

-----------------------------------------------------------------------------
\* The transport's "error": framing loss, a handler that threw, ECONNRESET or an
\* aborted connect signal.
TransportError ==
  /\ socket # "gone"
  /\ closed' = TRUE
  /\ ready' = IF ready = "waiting" THEN "rejected" ELSE ready
  /\ RejectPending({})
  /\ socket' = "destroyed"
  /\ UNCHANGED <<retiredActors, gotRoot, connected, nextRequestId, lifetime, abortedLifetimes,
                 history, firefox>>

\* The transport's "close", from Firefox (socket still open) or after a destroy.
TransportClose ==
  /\ socket # "gone"
  /\ socket' = "gone"
  /\ closed' = TRUE
  /\ ready' = IF ready = "waiting" THEN "rejected" ELSE ready
  /\ RejectPending({})
  /\ UNCHANGED <<retiredActors, gotRoot, connected, nextRequestId, lifetime, abortedLifetimes,
                 history, firefox>>

-----------------------------------------------------------------------------
MakeRequest(a, life) ==
  \/ Request(a, life)
  \/ RequestUnsendable(a, life)
  \/ RequestOverLimit(a, life)

Next ==
  \/ Greeting \/ ConnectReturns \/ ConnectFails
  \/ OwnerClose \/ TransportError \/ TransportClose
  \/ \E a \in Actors, life \in Lifetimes \cup {NoLifetime} : MakeRequest(a, life)
  \/ \E a \in Actors, how \in {"resolved", "error"} : DeliverReply(a, how)
  \/ \E a \in Threads : Send(a) \/ SendUnsendable(a) \/ DeliverEvent(a) \/ DeliverRefusal(a)
  \/ \E r \in RequestId : RequestTimeout(r)
  \/ \E l \in Lifetimes : Abort(l)
  \/ \E l \in Lifetimes, S \in SUBSET Actors : AbortOverLimit(l, S)

Spec == Init /\ [][Next]_vars

\* Every request carries a timer and connect() a greeting timer (client.ts 167-182,
\* 208-218), and a destroyed socket always emits close.  Firefox owes no answer.
FairSpec ==
  /\ Spec
  /\ \A r \in RequestId : WF_vars(RequestTimeout(r))
  /\ WF_vars(ConnectReturns \/ ConnectFails)
  /\ WF_vars(socket = "destroyed" /\ TransportClose)

-----------------------------------------------------------------------------
Verdicts == {"unsent", "pending", "resolved", "error", "rejected"}

TypeOK ==
  /\ pending \in [Actors -> Seq(RequestId)]
  /\ pendingCount \in 0..MaxPending
  /\ retiredActors \subseteq Actors
  /\ closed \in BOOLEAN /\ gotRoot \in BOOLEAN
  /\ ready \in {"waiting", "resolved", "rejected"}
  /\ connected \in {"connecting", "open", "failed"}
  /\ nextRequestId \in 1..(MaxRequests + 1)
  /\ lifetime \in [RequestId -> Lifetimes \cup {NoLifetime}]
  /\ abortedLifetimes \subseteq Lifetimes
  /\ outcome \in [RequestId -> Verdicts]
  /\ askedOf \in [RequestId -> Actors]
  /\ answeredBy \in [RequestId -> RequestId \cup {0}]
  /\ misled \subseteq Actors
  /\ socket \in {"open", "destroyed", "gone"}
  /\ server \in [Actors -> Seq(RequestId)]
  /\ acks \in [Actors -> Nat]
  /\ refusals \in [Actors -> Seq(Nat)]

\* Reply correlation.  A request is settled by Firefox's answer to that very request,
\* whatever timed out, was retired or was sent without a slot before it.  The one thing
\* that misleads the client is an error that refuses a slotless send: once one has been
\* taken for a reply, later requests of that actor may get an answer to an earlier one,
\* never one to a request that was made after them.
OwnReplyUnlessMisled ==
  \A r \in RequestId : outcome[r] \in {"resolved", "error"} =>
    answeredBy[r] = r \/ (askedOf[r] \in misled /\ answeredBy[r] < r)

\* No caller hangs: an unsettled request is still in a FIFO, hence on an open
\* client whose timer, retirement or close will settle it.
NoStrandedCaller ==
  \A r \in RequestId : outcome[r] = "pending" => ~closed /\ r \in AllQueued

\* The 1024-slot limit is enforced on a counter kept apart from the queues: every
\* settling path has to give back exactly the slots it empties.
SlotsAccounted ==
  pendingCount = Cardinality({r \in RequestId : outcome[r] = "pending"})

\* Tombstones are final: once an actor is retired nothing more is asked of it and
\* no late reply of its settles anything.
RetiredIsFinal ==
  [][\A a \in retiredActors : /\ a \in retiredActors'
                              /\ Len(server'[a]) <= Len(server[a])
                              /\ pending'[a] = <<>>]_vars

\* Every caller gets an answer although Firefox may never give one: the timer of a silent
\* request closes the connection for all, and a connect() whose greeting never comes fails
\* and leaves no open socket.
EveryCallerSettles ==
  /\ \A r \in RequestId : outcome[r] = "pending" ~> outcome[r] # "pending"
  /\ <>(connected # "connecting")
  /\ connected = "failed" ~> socket = "gone"

-----------------------------------------------------------------------------
\* The promise as its callers see it.  What Firefox owes on a retired actor or
\* a closed connection is no longer anybody's business.  What it owes and the client no
\* longer waits for are the answers that lag behind.
InUse(a) == ~closed /\ a \notin retiredActors

Lag(a) == Len(server[a]) - Len(pending[a])

Ledger == INSTANCE RequestLedger WITH
  asked   <- [a \in Actors |-> IF InUse(a) THEN server[a] ELSE <<>>],
  lag     <- [a \in Actors |-> IF InUse(a) THEN Lag(a) ELSE 0],
  verdict <- outcome,
  dead    <- IF closed THEN {} ELSE retiredActors,
  open    <- ~closed

\* The client implements the ledger: the i-th answer of an actor settles the i-th
\* request made of it, off by exactly the refusals that were taken for answers since
\* the actor was last owed nothing.
ImplementsLedger == Ledger!LedgerSpec
=============================================================================
