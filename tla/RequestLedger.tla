--------------------------- MODULE RequestLedger ---------------------------
(***************************************************************************)
(* What RdpClient.request promises its callers, with no sockets, timers or *)
(* queues of the client in sight.  Firefox answers the asks of one actor   *)
(* in the order they were made; the oldest open ask of an actor is the one *)
(* a reply settles.  Retiring an actor rejects everything asked of it, and *)
(* a shutdown rejects everything there is; neither is ever undone.         *)
(*                                                                         *)
(* A packet that answers no ask at all (the refusal of a slotless send) is *)
(* taken for an answer, and the answers that follow lag behind the asks by *)
(* one more, until those asked in the meantime run out.                    *)
(***************************************************************************)
EXTENDS Naturals, Sequences

CONSTANTS Actors,      \* actor names on one connection
          RequestId    \* the requests a caller may make

VARIABLES asked,       \* asked[a]: what Firefox still owes an answer to, oldest first
          lag,         \* lag[a]: how many of these, from the oldest, are settled already
          verdict,     \* what the caller of each request has been told
          dead,        \* actors whose lifetime ended on an open connection
          open         \* the connection has not been shut down

ledgerVars == <<asked, lag, verdict, dead, open>>

Verdicts == {"unsent", "pending", "resolved", "error", "rejected"}

LedgerInit ==
  /\ asked = [a \in Actors |-> <<>>]
  /\ lag = [a \in Actors |-> 0]
  /\ verdict = [r \in RequestId |-> "unsent"]
  /\ dead = {}
  /\ open = TRUE

Ask(r, a) ==
  /\ open /\ a \notin dead /\ verdict[r] = "unsent"
  /\ asked' = [asked EXCEPT ![a] = Append(@, r)]
  /\ verdict' = [verdict EXCEPT ![r] = "pending"]
  /\ UNCHANGED <<lag, dead, open>>

\* Somebody still waits for an answer of actor a, and this ask has waited longest.
Awaited(a) == open /\ a \notin dead /\ lag[a] < Len(asked[a])
Oldest(a) == asked[a][lag[a] + 1]

\* Firefox's next answer from an actor goes to the oldest open ask of it: its own, unless
\* the answers lag behind.
Answer(a, how) ==
  /\ Awaited(a)
  /\ asked' = [asked EXCEPT ![a] = Tail(@)]
  /\ verdict' = [verdict EXCEPT ![Oldest(a)] = how]
  /\ UNCHANGED <<lag, dead, open>>

\* An answer nobody waits for brings the actor back into step by one.
CatchUp(a) ==
  /\ open /\ a \notin dead /\ asked[a] # <<>> /\ lag[a] = Len(asked[a])
  /\ asked' = [asked EXCEPT ![a] = Tail(@)]
  /\ lag' = [lag EXCEPT ![a] = @ - 1]
  /\ UNCHANGED <<verdict, dead, open>>

\* A refusal that is no answer to any ask fails the oldest open one.
Mistake(a) ==
  /\ Awaited(a)
  /\ lag' = [lag EXCEPT ![a] = @ + 1]
  /\ verdict' = [verdict EXCEPT ![Oldest(a)] = "error"]
  /\ UNCHANGED <<asked, dead, open>>

Owed(a) == {asked[a][i] : i \in (lag[a] + 1)..Len(asked[a])}

Retire(S) ==
  /\ open
  /\ dead' = dead \cup S
  /\ asked' = [a \in Actors |-> IF a \in S THEN <<>> ELSE asked[a]]
  /\ lag' = [a \in Actors |-> IF a \in S THEN 0 ELSE lag[a]]
  /\ verdict' = [r \in RequestId |->
                   IF \E a \in S : r \in Owed(a) THEN "rejected" ELSE verdict[r]]
  /\ UNCHANGED open

\* A request whose own transmission broke the connection (fresh) fails with it.
Shutdown(fresh) ==
  /\ open
  /\ open' = FALSE
  /\ dead' = {}
  /\ asked' = [a \in Actors |-> <<>>]
  /\ lag' = [a \in Actors |-> 0]
  /\ verdict' = [r \in RequestId |->
                   IF r \in fresh \/ \E a \in Actors : r \in Owed(a)
                   THEN "rejected" ELSE verdict[r]]

LedgerNext ==
  \/ \E r \in RequestId, a \in Actors : Ask(r, a)
  \/ \E a \in Actors, how \in {"resolved", "error"} : Answer(a, how)
  \/ \E a \in Actors : CatchUp(a) \/ Mistake(a)
  \/ \E S \in SUBSET Actors : Retire(S)
  \/ Shutdown({})
  \/ \E r \in RequestId : verdict[r] = "unsent" /\ Shutdown({r})

LedgerSpec == LedgerInit /\ [][LedgerNext]_ledgerVars
=============================================================================
