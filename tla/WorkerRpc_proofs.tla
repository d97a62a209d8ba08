-------------------------- MODULE WorkerRpc_proofs --------------------------
(***************************************************************************)
(* WorkerRpc, proved for every number of calls.                            *)
(***************************************************************************)
EXTENDS WorkerRpc, SequenceTheorems, TLAPS

-----------------------------------------------------------------------------
(* What is on its way to the host *)

\* One call and one announcement at most, in the order of the component's life.
Inboxes ==
  {<<>>, <<"listening">>, <<"rpc">>, <<"listening", "rpc">>, <<"done">>, <<"listening", "done">>}

Announced == inbox \in {<<"listening">>, <<"listening", "rpc">>, <<"listening", "done">>}
CallPosted == inbox \in {<<"rpc">>, <<"listening", "rpc">>}
DonePosted == inbox \in {<<"done">>, <<"listening", "done">>}

-----------------------------------------------------------------------------
(* The protocol of a call *)

\* Nothing of a call is left on the host's side, but for a notification.
NoCall == ~CallPosted /\ currentRpc = 0 /\ host \in {"idle", "notifying"}

\* Between calls the word is idle and every call made has been carried out.
BetweenCalls ==
  thread \in {"starting", "running", "crashed", "finished"}
    => word = "idle" /\ NoCall /\ returned = sequence /\ executed = sequence

\* A call that is made is not known to the host before its message,
Asking ==
  thread \in {"written", "signalled"}
    => /\ word = (IF thread = "written" THEN "idle" ELSE "request")
       /\ buffer = Request(sequence) /\ NoCall
       /\ sequence = returned + 1 /\ executed = returned

\* and then the host has it in one place: posted, dispatched, or about to be answered;
\* unless the worker is being terminated.
Posted == /\ CallPosted /\ currentRpc = 0 /\ host \in {"idle", "notifying"}
          /\ executed = returned /\ buffer = Request(sequence)
Dispatched == ~CallPosted /\ currentRpc = sequence /\ executed = sequence /\ host = "idle"
Responding == /\ ~CallPosted /\ currentRpc = 0 /\ executed = sequence
              /\ host = "responding" /\ buffer = Response(sequence)
Abandoned == stopPromise /\ NoCall /\ executed \in {returned, sequence}

Waiting ==
  thread \in {"waiting", "asleep"}
    => /\ sequence = returned + 1
       /\ word \in {"request", "response"}
       /\ word = "request" => Posted \/ Dispatched \/ Responding \/ Abandoned

\* A response is the one to the last call, and who sleeps over it is being woken.
Answered ==
  thread \in {"waiting", "asleep"} /\ word = "response"
    => /\ buffer = Response(sequence) /\ executed = sequence /\ NoCall
       /\ thread = "asleep" => host = "notifying"

\* A worker that has ended leaves no call behind that the host would carry out.
Gone == thread = "gone" => stopPromise \/ (~CallPosted /\ currentRpc = 0)

\* The announcement is made once, before any other end of ready than a failure.
Announcement ==
  /\ Announced \/ ready = "resolved" => listened
  /\ Announced => ready # "resolved"
  /\ DonePosted => thread \in {"finished", "gone"}

Inv ==
  /\ TypeOK
  /\ inbox \in Inboxes
  /\ BetweenCalls /\ Asking /\ Waiting /\ Answered /\ Gone /\ Announcement
  /\ failure # "protocol"

-----------------------------------------------------------------------------
(* Tuples, once and for all *)

\* A message after another one.
LEMMA Pair ==
  ASSUME NEW x, NEW y PROVE Append(<<x>>, y) = <<x, y>>
<1> DEFINE S == {x, y}
<1>1. <<x>> \in Seq(S) /\ <<x, y>> \in Seq(S)
  OBVIOUS
<1>2. /\ Append(<<x>>, y) \in Seq(S)
      /\ Len(Append(<<x>>, y)) = 2
      /\ Append(<<x>>, y)[1] = x /\ Append(<<x>>, y)[2] = y
  BY <1>1
<1>3. Len(Append(<<x>>, y)) = Len(<<x, y>>)
  BY <1>2
<1>4. \A i \in 1 .. Len(Append(<<x>>, y)) : Append(<<x>>, y)[i] = <<x, y>>[i]
  BY <1>2
<1> HIDE DEF S
<1>5. QED
  BY <1>1, <1>2, <1>3, <1>4, SeqEqual

\* What posting does to the inboxes there are,
LEMMA Posting ==
  /\ Append(<<>>, "listening") = <<"listening">>
  /\ Append(<<>>, "rpc") = <<"rpc">>
  /\ Append(<<>>, "done") = <<"done">>
  /\ Append(<<"listening">>, "rpc") = <<"listening", "rpc">>
  /\ Append(<<"listening">>, "done") = <<"listening", "done">>
  BY Pair

\* and what handling does.
LEMMA Handling ==
  /\ Head(<<"listening">>) = "listening" /\ Tail(<<"listening">>) = <<>>
  /\ Head(<<"rpc">>) = "rpc" /\ Tail(<<"rpc">>) = <<>>
  /\ Head(<<"done">>) = "done" /\ Tail(<<"done">>) = <<>>
  /\ Head(<<"listening", "rpc">>) = "listening" /\ Tail(<<"listening", "rpc">>) = <<"rpc">>
  /\ Head(<<"listening", "done">>) = "listening" /\ Tail(<<"listening", "done">>) = <<"done">>
  OBVIOUS

\* The inboxes are told apart.
LEMMA Distinct ==
  /\ <<>> \notin {<<"listening">>, <<"rpc">>, <<"done">>, <<"listening", "rpc">>,
                  <<"listening", "done">>}
  /\ <<"listening">> \notin {<<"rpc">>, <<"done">>, <<"listening", "rpc">>, <<"listening", "done">>}
  /\ <<"rpc">> \notin {<<"done">>, <<"listening", "rpc">>, <<"listening", "done">>}
  /\ <<"done">> \notin {<<"listening", "rpc">>, <<"listening", "done">>}
  /\ <<"listening", "rpc">> # <<"listening", "done">>
  OBVIOUS

LEMMA InboxTypes == Inboxes \subseteq Seq({"rpc", "listening", "done"})
  BY DEF Inboxes

\* What a step that posts or handles a message makes of the three questions asked of an inbox.
Holds(box, announced, posted, ended) ==
  /\ box \in Inboxes
  /\ (box \in {<<"listening">>, <<"listening", "rpc">>, <<"listening", "done">>}) = announced
  /\ (box \in {<<"rpc">>, <<"listening", "rpc">>}) = posted
  /\ (box \in {<<"done">>, <<"listening", "done">>}) = ended

LEMMA AfterPost ==
  ASSUME inbox \in Inboxes, ~CallPosted, ~DonePosted
  PROVE  /\ ~Announced => Holds(Append(inbox, "listening"), TRUE, FALSE, FALSE)
         /\ Holds(Append(inbox, "rpc"), Announced, TRUE, FALSE)
         /\ Holds(Append(inbox, "done"), Announced, FALSE, TRUE)
<1>1. inbox \in {<<>>, <<"listening">>}
  BY DEF Inboxes, CallPosted, DonePosted
<1>2. CASE inbox = <<>>
  BY <1>2, Posting, Distinct DEF Holds, Inboxes, Announced
<1>3. CASE inbox = <<"listening">>
  BY <1>3, Posting, Distinct DEF Holds, Inboxes, Announced
<1>4. QED
  BY <1>1, <1>2, <1>3

LEMMA AfterHandling ==
  ASSUME inbox \in Inboxes, inbox # <<>>
  PROVE  /\ Head(inbox) = "listening"
              => Announced /\ Holds(Tail(inbox), FALSE, CallPosted, DonePosted)
         /\ Head(inbox) = "rpc" => CallPosted /\ Holds(Tail(inbox), FALSE, FALSE, FALSE)
         /\ Head(inbox) = "done" => DonePosted /\ Holds(Tail(inbox), FALSE, FALSE, FALSE)
<1>1. CASE inbox = <<"listening">>
  BY <1>1, Handling, Distinct DEF Holds, Inboxes, Announced, CallPosted, DonePosted
<1>2. CASE inbox = <<"rpc">>
  BY <1>2, Handling, Distinct DEF Holds, Inboxes, Announced, CallPosted, DonePosted
<1>3. CASE inbox = <<"done">>
  BY <1>3, Handling, Distinct DEF Holds, Inboxes, Announced, CallPosted, DonePosted
<1>4. CASE inbox = <<"listening", "rpc">>
  BY <1>4, Handling, Distinct DEF Holds, Inboxes, Announced, CallPosted, DonePosted
<1>5. CASE inbox = <<"listening", "done">>
  BY <1>5, Handling, Distinct DEF Holds, Inboxes, Announced, CallPosted, DonePosted
<1>6. QED
  BY <1>1, <1>2, <1>3, <1>4, <1>5 DEF Inboxes

-----------------------------------------------------------------------------
(* The invariant is inductive *)

\* The inbox after a step, and what is asked of it.
Box(announced, posted, ended) ==
  /\ inbox' \in Inboxes /\ inbox' \in Seq({"rpc", "listening", "done"})
  /\ Announced' = announced /\ CallPosted' = posted /\ DonePosted' = ended

LEMMA BoxKept ==
  ASSUME inbox \in Inboxes, UNCHANGED inbox
  PROVE  Box(Announced, CallPosted, DonePosted)
  BY InboxTypes DEF Box, Announced, CallPosted, DonePosted

LEMMA BoxNow ==
  ASSUME NEW a, NEW p, NEW d, Holds(inbox', a, p, d)
  PROVE  Box(a, p, d)
  BY InboxTypes DEF Box, Holds, Announced, CallPosted, DonePosted

LEMMA InvInit == Init => Inv
<1> SUFFICES ASSUME Init PROVE Inv
  OBVIOUS
<1>1. /\ inbox \in Inboxes /\ inbox \in Seq({"rpc", "listening", "done"})
      /\ ~Announced /\ ~CallPosted /\ ~DonePosted
  BY Distinct DEF Init, Inboxes, Announced, CallPosted, DonePosted
<1>2. QED
  BY <1>1 DEF Init, Inv, TypeOK, Response, BetweenCalls, NoCall, Asking, Waiting, Answered, Gone,
              Announcement

\* The types in two parts, since one prover is good with flags and the other with the rest.
Flags ==
  /\ listened \in BOOLEAN /\ error \in BOOLEAN
  /\ startupTimer \in BOOLEAN /\ done \in BOOLEAN /\ stopPromise \in BOOLEAN

Values ==
  /\ word \in {"idle", "request", "response"}
  /\ buffer \in [kind : {"request", "response"}, sequence : Nat]
  /\ thread \in {"starting", "running", "written", "signalled", "waiting", "asleep", "crashed",
                "finished", "gone"}
  /\ sequence \in Nat /\ returned \in Nat /\ executed \in Nat /\ currentRpc \in Nat
  /\ inbox \in Seq({"rpc", "listening", "done"})
  /\ host \in {"idle", "responding", "notifying"}
  /\ exit \in {"none", "ok", "bad", "handled"}
  /\ ready \in {"pending", "resolved", "rejected"}
  /\ failure \in {"none", "startup", "crash", "exit", "protocol"}

LEMMA TypeParts ==
  /\ TypeOK <=> Flags /\ Values
  /\ TypeOK' <=> Flags' /\ Values'
  BY DEF TypeOK, Flags, Values

\* Each step keeps the invariant: first what it makes of the inbox, then the types, then
\* the protocol.
LEMMA InvStep ==
  ASSUME Inv, [Next]_vars PROVE Inv'
<1>0. sequence \in Nat /\ returned \in Nat /\ executed \in Nat /\ Flags /\ Values
  BY TypeParts DEF Inv, Values
<1> USE <1>0 DEF Inv
<1>1. CASE Instantiated
  <2>1. Box(Announced, CallPosted, DonePosted)
    BY <1>1, BoxKept DEF Instantiated, memory, hostVars, events, callVars, lifeVars, Goto
  <2>2. TypeOK'
    <3>1. Flags'
      BY <1>1 DEF Instantiated, memory, hostVars, events, callVars, lifeVars, Goto, Flags
    <3>2. Values'
      BY <1>1, <2>1 DEF Instantiated, memory, hostVars, events, callVars, lifeVars, Goto, Box,
         Values
    <3>3. QED
      BY <3>1, <3>2, TypeParts
  <2>3. QED
    BY <1>1, <2>1, <2>2 DEF Instantiated, memory, hostVars, events, callVars, lifeVars, Goto,
       Box, BetweenCalls, Asking, Waiting, Answered, Gone, Announcement, NoCall, Posted,
       Dispatched, Responding, Abandoned, Request, Response
<1>2. CASE Listening
  <2>1. inbox' = Append(inbox, "listening") /\ ~CallPosted /\ ~DonePosted /\ ~Announced
    BY <1>2 DEF Listening, Post, Goto, BetweenCalls, Asking, NoCall, Announcement
  <2>2. Box(TRUE, FALSE, FALSE)
    BY <2>1, AfterPost, BoxNow
  <2>3. TypeOK'
    <3>1. Flags'
      BY <1>2 DEF Listening, memory, events, callVars, lifeVars, Post, Flags
    <3>2. Values'
      BY <1>2, <2>1, <2>2 DEF Listening, memory, events, callVars, lifeVars, Post, Box, Values
    <3>3. QED
      BY <3>1, <3>2, TypeParts
  <2>4. QED
    BY <1>2, <2>1, <2>2, <2>3 DEF Listening, memory, events, callVars, lifeVars, Post, Box,
       BetweenCalls, Asking, Waiting, Answered, Gone, Announcement, NoCall, Posted, Dispatched,
       Responding, Abandoned, Request, Response
<1>3. CASE RpcWrites
  <2>1. Box(Announced, CallPosted, DonePosted)
    BY <1>3, BoxKept DEF RpcWrites, hostVars, events, callVars, lifeVars, Goto, Request
  <2>2. TypeOK'
    <3>1. Flags'
      BY <1>3 DEF RpcWrites, hostVars, events, callVars, lifeVars, Goto, Request, Flags
    <3>2. Values'
      BY <1>3, <2>1 DEF RpcWrites, hostVars, events, callVars, lifeVars, Goto, Request, Box,
         Values
    <3>3. QED
      BY <3>1, <3>2, TypeParts
  <2>3. QED
    BY <1>3, <2>1, <2>2 DEF RpcWrites, hostVars, events, callVars, lifeVars, Goto, Request, Box,
       BetweenCalls, Asking, Waiting, Answered, Gone, Announcement, NoCall, Posted, Dispatched,
       Responding, Abandoned, Response
<1>4. CASE RpcSignals
  <2>1. Box(Announced, CallPosted, DonePosted)
    BY <1>4, BoxKept DEF RpcSignals, hostVars, events, callVars, lifeVars, Goto
  <2>2. TypeOK'
    <3>1. Flags'
      BY <1>4 DEF RpcSignals, hostVars, events, callVars, lifeVars, Goto, Flags
    <3>2. Values'
      BY <1>4, <2>1 DEF RpcSignals, hostVars, events, callVars, lifeVars, Goto, Box, Values
    <3>3. QED
      BY <3>1, <3>2, TypeParts
  <2>3. QED
    BY <1>4, <2>1, <2>2 DEF RpcSignals, hostVars, events, callVars, lifeVars, Goto, Box,
       BetweenCalls, Asking, Waiting, Answered, Gone, Announcement, NoCall, Posted, Dispatched,
       Responding, Abandoned, Request, Response
<1>5. CASE RpcPosts
  <2>1. inbox' = Append(inbox, "rpc") /\ ~CallPosted /\ ~DonePosted
    BY <1>5 DEF RpcPosts, Post, Goto, BetweenCalls, Asking, NoCall, Announcement
  <2>2. Box(Announced, TRUE, FALSE)
    BY <2>1, AfterPost, BoxNow
  <2>3. TypeOK'
    <3>1. Flags'
      BY <1>5 DEF RpcPosts, memory, events, callVars, lifeVars, Goto, Post, Flags
    <3>2. Values'
      BY <1>5, <2>1, <2>2 DEF RpcPosts, memory, events, callVars, lifeVars, Goto, Post, Box,
         Values
    <3>3. QED
      BY <3>1, <3>2, TypeParts
  <2>4. QED
    BY <1>5, <2>1, <2>2, <2>3 DEF RpcPosts, memory, events, callVars, lifeVars, Goto, Post, Box,
       BetweenCalls, Asking, Waiting, Answered, Gone, Announcement, NoCall, Posted, Dispatched,
       Responding, Abandoned, Request, Response
<1>6. CASE FallsAsleep
  <2>1. Box(Announced, CallPosted, DonePosted)
    BY <1>6, BoxKept DEF FallsAsleep, memory, hostVars, events, callVars, lifeVars, Goto
  <2>2. TypeOK'
    <3>1. Flags'
      BY <1>6 DEF FallsAsleep, memory, hostVars, events, callVars, lifeVars, Goto, Flags
    <3>2. Values'
      BY <1>6, <2>1 DEF FallsAsleep, memory, hostVars, events, callVars, lifeVars, Goto, Box,
         Values
    <3>3. QED
      BY <3>1, <3>2, TypeParts
  <2>3. QED
    BY <1>6, <2>1, <2>2 DEF FallsAsleep, memory, hostVars, events, callVars, lifeVars, Goto,
       Box, BetweenCalls, Asking, Waiting, Answered, Gone, Announcement, NoCall, Posted,
       Dispatched, Responding, Abandoned, Request, Response
<1>7. CASE RpcReturns
  <2>1. Box(Announced, CallPosted, DonePosted)
    BY <1>7, BoxKept DEF RpcReturns, hostVars, events, callVars, lifeVars, Response
  <2>2. TypeOK'
    <3>1. Flags'
      BY <1>7 DEF RpcReturns, hostVars, events, callVars, lifeVars, Response, Flags
    <3>2. Values'
      BY <1>7, <2>1 DEF RpcReturns, hostVars, events, callVars, lifeVars, Response, Box, Values
    <3>3. QED
      BY <3>1, <3>2, TypeParts
  <2>3. QED
    BY <1>7, <2>1, <2>2 DEF RpcReturns, hostVars, events, callVars, lifeVars, Response, Box,
       BetweenCalls, Asking, Waiting, Answered, Gone, Announcement, NoCall, Posted, Dispatched,
       Responding, Abandoned, Request
<1>8. CASE Crashes
  <2>1. Box(Announced, CallPosted, DonePosted)
    BY <1>8, BoxKept DEF Crashes, memory, hostVars, events, callVars, lifeVars
  <2>2. TypeOK'
    <3>1. Flags'
      BY <1>8 DEF Crashes, memory, hostVars, events, callVars, lifeVars, Flags
    <3>2. Values'
      BY <1>8, <2>1 DEF Crashes, memory, hostVars, events, callVars, lifeVars, Box, Values
    <3>3. QED
      BY <3>1, <3>2, TypeParts
  <2>3. QED
    BY <1>8, <2>1, <2>2 DEF Crashes, memory, hostVars, events, callVars, lifeVars, Box,
       BetweenCalls, Asking, Waiting, Answered, Gone, Announcement, NoCall, Posted, Dispatched,
       Responding, Abandoned, Request, Response
<1>9. CASE Finishes
  <2>1. inbox' = Append(inbox, "done") /\ ~CallPosted /\ ~DonePosted
    BY <1>9 DEF Finishes, Post, Goto, BetweenCalls, Asking, NoCall, Announcement
  <2>2. Box(Announced, FALSE, TRUE)
    BY <2>1, AfterPost, BoxNow
  <2>3. TypeOK'
    <3>1. Flags'
      BY <1>9 DEF Finishes, memory, events, callVars, lifeVars, Goto, Post, Flags
    <3>2. Values'
      BY <1>9, <2>1, <2>2 DEF Finishes, memory, events, callVars, lifeVars, Goto, Post, Box,
         Values
    <3>3. QED
      BY <3>1, <3>2, TypeParts
  <2>4. QED
    BY <1>9, <2>1, <2>2, <2>3 DEF Finishes, memory, events, callVars, lifeVars, Goto, Post, Box,
       BetweenCalls, Asking, Waiting, Answered, Gone, Announcement, NoCall, Posted, Dispatched,
       Responding, Abandoned, Request, Response
<1>10. CASE Exits
  <2>1. Box(Announced, CallPosted, DonePosted)
    BY <1>10, BoxKept DEF Exits, memory, callVars, lifeVars, Ends
  <2>2. TypeOK'
    <3>1. Flags'
      BY <1>10 DEF Exits, memory, callVars, lifeVars, Ends, Flags
    <3>2. Values'
      BY <1>10, <2>1 DEF Exits, memory, callVars, lifeVars, Ends, Box, Values
    <3>3. QED
      BY <3>1, <3>2, TypeParts
  <2>3. QED
    BY <1>10, <2>1, <2>2 DEF Exits, memory, callVars, lifeVars, Ends, Box, BetweenCalls, Asking,
       Waiting, Answered, Gone, Announcement, NoCall, Posted, Dispatched, Responding, Abandoned,
       Request, Response
<1>11. CASE Terminated
  <2>1. Box(Announced, CallPosted, DonePosted)
    BY <1>11, BoxKept DEF Terminated, memory, callVars, lifeVars, Ends
  <2>2. TypeOK'
    <3>1. Flags'
      BY <1>11 DEF Terminated, memory, callVars, lifeVars, Ends, Flags
    <3>2. Values'
      BY <1>11, <2>1 DEF Terminated, memory, callVars, lifeVars, Ends, Box, Values
    <3>3. QED
      BY <3>1, <3>2, TypeParts
  <2>3. QED
    BY <1>11, <2>1, <2>2 DEF Terminated, memory, callVars, lifeVars, Ends, Box, BetweenCalls,
       Asking, Waiting, Answered, Gone, Announcement, NoCall, Posted, Dispatched, Responding,
       Abandoned, Request, Response
<1>12. CASE HandleRpc
  <2>1. CallPosted /\ Box(FALSE, FALSE, FALSE)
    BY <1>12, AfterHandling, BoxNow DEF HandleRpc, Handles
  <2>2. thread \in {"waiting", "asleep", "gone"}
    BY <2>1 DEF Values, BetweenCalls, Asking, NoCall
  <2>3. CASE stopPromise
    <3>1. UNCHANGED <<memory, thrVars, events, callVars, lifeVars>>
      BY <1>12, <2>3 DEF HandleRpc, memory, thrVars, events, lifeVars, Fail, Quietly, Handles,
         callVars
    <3>2. TypeOK'
      BY <2>1, <3>1 DEF Box, TypeOK, memory, thrVars, events, callVars, lifeVars
    <3>3. QED
      BY <2>1, <2>2, <2>3, <3>1, <3>2 DEF Box, memory, thrVars, events, callVars, lifeVars,
         BetweenCalls, Asking, Waiting, Answered, Gone, Announcement, NoCall, Posted,
         Dispatched, Responding, Abandoned, Request, Response
  <2>4. CASE ~stopPromise
    <3>1. Posted /\ word = "request" /\ thread \in {"waiting", "asleep"}
      BY <2>1, <2>2, <2>4 DEF Waiting, Answered, NoCall, Dispatched, Responding, Abandoned, Gone
    <3>2. buffer.kind = "request" /\ buffer.sequence = sequence
      BY <3>1 DEF Posted, Request
    <3>3. /\ currentRpc' = sequence /\ executed' = executed + 1
          /\ UNCHANGED <<memory, thrVars, events, host, lifeVars>>
      BY <1>12, <2>4, <3>1, <3>2 DEF Posted, HandleRpc, Handles, Quietly
    <3>4. TypeOK'
      BY <2>1, <3>3 DEF Box, TypeOK, memory, thrVars, events, lifeVars
    <3>5. host = "idle" /\ Dispatched'
      BY <1>12, <2>1, <3>1, <3>3 DEF HandleRpc, Handles, Box, Posted, Dispatched, Waiting, thrVars
    <3>6. QED
      BY <2>1, <2>4, <3>1, <3>3, <3>4, <3>5 DEF Box, memory, thrVars, events, lifeVars,
         BetweenCalls, Asking, Waiting, Answered, Gone, Announcement, NoCall, Posted,
         Dispatched, Responding, Abandoned
  <2>5. QED
    BY <2>3, <2>4
<1>13. CASE HandleListening
  <2>1. Announced /\ Box(FALSE, CallPosted, DonePosted)
    BY <1>13, AfterHandling, BoxNow DEF HandleListening, Handles
  <2>2. TypeOK'
    <3>1. Flags'
      BY <1>13 DEF HandleListening, memory, thrVars, events, lifeVars, Fail, Quietly, Handles,
         Flags
    <3>2. Values'
      BY <1>13, <2>1 DEF HandleListening, memory, thrVars, events, lifeVars, Fail, Quietly,
         Handles, Box, Values
    <3>3. QED
      BY <3>1, <3>2, TypeParts
  <2>3. QED
    BY <1>13, <2>1, <2>2 DEF HandleListening, memory, thrVars, events, lifeVars, Fail, Quietly,
       Handles, Box, BetweenCalls, Asking, Waiting, Answered, Gone, Announcement, NoCall,
       Posted, Dispatched, Responding, Abandoned, Request, Response
<1>14. CASE HandleDone
  <2>1. DonePosted /\ Box(FALSE, FALSE, FALSE)
    BY <1>14, AfterHandling, BoxNow DEF HandleDone, Handles
  <2>2. TypeOK'
    <3>1. Flags'
      BY <1>14 DEF HandleDone, memory, thrVars, events, Handles, Flags
    <3>2. Values'
      BY <1>14, <2>1 DEF HandleDone, memory, thrVars, events, Handles, Box, Values
    <3>3. QED
      BY <3>1, <3>2, TypeParts
  <2>3. QED
    BY <1>14, <2>1, <2>2 DEF HandleDone, memory, thrVars, events, Handles, Box, BetweenCalls,
       Asking, Waiting, Answered, Gone, Announcement, NoCall, Posted, Dispatched, Responding,
       Abandoned, Request, Response
<1>15. CASE HandleError
  <2>1. Box(Announced, CallPosted, DonePosted)
    BY <1>15, BoxKept DEF HandleError, memory, thrVars, callVars, lifeVars, Fail, Quietly
  <2>2. TypeOK'
    <3>1. Flags'
      BY <1>15 DEF HandleError, memory, thrVars, callVars, lifeVars, Fail, Quietly, Flags
    <3>2. Values'
      BY <1>15, <2>1 DEF HandleError, memory, thrVars, callVars, lifeVars, Fail, Quietly, Box,
         Values
    <3>3. QED
      BY <3>1, <3>2, TypeParts
  <2>3. QED
    BY <1>15, <2>1, <2>2 DEF HandleError, memory, thrVars, callVars, lifeVars, Fail, Quietly,
       Box, BetweenCalls, Asking, Waiting, Answered, Gone, Announcement, NoCall, Posted,
       Dispatched, Responding, Abandoned, Request, Response
<1>16. CASE HandleExit
  <2>1. Box(Announced, CallPosted, DonePosted)
    BY <1>16, BoxKept DEF HandleExit, memory, thrVars, callVars, Exit
  <2>2. TypeOK'
    <3>1. Flags'
      BY <1>16 DEF HandleExit, memory, thrVars, callVars, Exit, Flags
    <3>2. Values'
      BY <1>16, <2>1 DEF HandleExit, memory, thrVars, callVars, Exit, Box, Values
    <3>3. QED
      BY <3>1, <3>2, TypeParts
  <2>3. QED
    BY <1>16, <2>1, <2>2 DEF HandleExit, memory, thrVars, callVars, Exit, Box, BetweenCalls,
       Asking, Waiting, Answered, Gone, Announcement, NoCall, Posted, Dispatched, Responding,
       Abandoned, Request, Response
<1>17. CASE DispatchSettles
  <2>1. Box(Announced, CallPosted, DonePosted)
    BY <1>17, BoxKept DEF DispatchSettles, thrVars, events, lifeVars, Response
  <2>2. TypeOK'
    <3>1. Flags'
      BY <1>17 DEF DispatchSettles, thrVars, events, lifeVars, Response, Flags
    <3>2. Values'
      BY <1>17, <2>1 DEF DispatchSettles, thrVars, events, lifeVars, Response, Box, Values
    <3>3. QED
      BY <3>1, <3>2, TypeParts
  <2>3. QED
    BY <1>17, <2>1, <2>2 DEF DispatchSettles, thrVars, events, lifeVars, Response, Box,
       BetweenCalls, Asking, Waiting, Answered, Gone, Announcement, NoCall, Posted, Dispatched,
       Responding, Abandoned, Request
<1>18. CASE Responds
  <2>1. Box(Announced, CallPosted, DonePosted)
    BY <1>18, BoxKept DEF Responds, thrVars, events, lifeVars
  <2>2. TypeOK'
    <3>1. Flags'
      BY <1>18 DEF Responds, thrVars, events, lifeVars, Flags
    <3>2. Values'
      BY <1>18, <2>1 DEF Responds, thrVars, events, lifeVars, Box, Values
    <3>3. QED
      BY <3>1, <3>2, TypeParts
  <2>3. QED
    BY <1>18, <2>1, <2>2 DEF Responds, thrVars, events, lifeVars, Box, BetweenCalls, Asking,
       Waiting, Answered, Gone, Announcement, NoCall, Posted, Dispatched, Responding, Abandoned,
       Request, Response
<1>19. CASE Notifies
  <2>1. Box(Announced, CallPosted, DonePosted)
    BY <1>19, BoxKept DEF Notifies, memory, events, lifeVars
  <2>2. TypeOK'
    <3>1. Flags'
      BY <1>19 DEF Notifies, memory, events, lifeVars, Flags
    <3>2. Values'
      BY <1>19, <2>1 DEF Notifies, memory, events, lifeVars, Box, Values
    <3>3. QED
      BY <3>1, <3>2, TypeParts
  <2>3. QED
    BY <1>19, <2>1, <2>2 DEF Notifies, memory, events, lifeVars, Box, BetweenCalls, Asking,
       Waiting, Answered, Gone, Announcement, NoCall, Posted, Dispatched, Responding, Abandoned,
       Request, Response
<1>20. CASE StartupTimeout
  <2>1. Box(Announced, CallPosted, DonePosted)
    BY <1>20, BoxKept DEF StartupTimeout, memory, thrVars, events, callVars, lifeVars, Fail,
       Quietly
  <2>2. TypeOK'
    <3>1. Flags'
      BY <1>20 DEF StartupTimeout, memory, thrVars, events, callVars, lifeVars, Fail, Quietly,
         Flags
    <3>2. Values'
      BY <1>20, <2>1 DEF StartupTimeout, memory, thrVars, events, callVars, lifeVars, Fail,
         Quietly, Box, Values
    <3>3. QED
      BY <3>1, <3>2, TypeParts
  <2>3. QED
    BY <1>20, <2>1, <2>2 DEF StartupTimeout, memory, thrVars, events, callVars, lifeVars, Fail,
       Quietly, Box, BetweenCalls, Asking, Waiting, Answered, Gone, Announcement, NoCall,
       Posted, Dispatched, Responding, Abandoned, Request, Response
<1>21. CASE Stop
  <2>1. Box(Announced, CallPosted, DonePosted)
    BY <1>21, BoxKept DEF Stop, memory, thrVars, events, callVars
  <2>2. TypeOK'
    <3>1. Flags'
      BY <1>21 DEF Stop, memory, thrVars, events, callVars, Flags
    <3>2. Values'
      BY <1>21, <2>1 DEF Stop, memory, thrVars, events, callVars, Box, Values
    <3>3. QED
      BY <3>1, <3>2, TypeParts
  <2>3. QED
    BY <1>21, <2>1, <2>2 DEF Stop, memory, thrVars, events, callVars, Box, BetweenCalls, Asking,
       Waiting, Answered, Gone, Announcement, NoCall, Posted, Dispatched, Responding, Abandoned,
       Request, Response
<1>22. CASE UNCHANGED vars
  <2>1. Box(Announced, CallPosted, DonePosted)
    BY <1>22, BoxKept DEF vars, hostVars
  <2>2. TypeOK'
    <3>1. Flags'
      BY <1>22 DEF vars, memory, thrVars, hostVars, events, callVars, lifeVars, Flags
    <3>2. Values'
      BY <1>22, <2>1 DEF vars, memory, thrVars, hostVars, events, callVars, lifeVars, Box,
         Values
    <3>3. QED
      BY <3>1, <3>2, TypeParts
  <2>3. QED
    BY <1>22, <2>1, <2>2 DEF vars, memory, thrVars, hostVars, events, callVars, lifeVars, Box,
       BetweenCalls, Asking, Waiting, Answered, Gone, Announcement, NoCall, Posted, Dispatched,
       Responding, Abandoned, Request, Response
<1>23. QED
  BY <1>1, <1>2, <1>3, <1>4, <1>5, <1>6, <1>7, <1>8, <1>9, <1>10, <1>11, <1>12, <1>13,
     <1>14, <1>15, <1>16, <1>17, <1>18, <1>19, <1>20, <1>21, <1>22 DEF
     Next, Worker, Rpc, Host, Handle

\* The invariant holds in every reachable state, for any number of calls.
THEOREM WorkerInvariant == Spec => []Inv
<1>1. QED
  BY InvInit, InvStep, PTL DEF Spec

-----------------------------------------------------------------------------
(* What follows from it *)

\* Type correctness.
THEOREM TypeCorrect == Spec => []TypeOK
<1>1. Inv => TypeOK
  BY DEF Inv
<1>2. QED
  BY <1>1, WorkerInvariant, PTL

LEMMA PostedIsThere ==
  CallPosted => \E n \in DOMAIN inbox : inbox[n] = "rpc"
<1>1. CASE inbox = <<"rpc">>
  <2>1. 1 \in DOMAIN inbox /\ inbox[1] = "rpc"
    BY <1>1
  <2>2. QED
    BY <2>1
<1>2. CASE inbox = <<"listening", "rpc">>
  <2>1. 2 \in DOMAIN inbox /\ inbox[2] = "rpc"
    BY <1>2
  <2>2. QED
    BY <2>1
<1>3. QED
  BY <1>1, <1>2 DEF CallPosted

\* A component that keeps to its part is served: the host does not take it for broken, the
\* response it wakes up to is its own, and while it sleeps there is somebody to wake it.
THEOREM ComponentIsServed == Spec => []Served
<1>1. Inv => Served
  <2> SUFFICES ASSUME Inv PROVE Served
    OBVIOUS
  <2>1. ASSUME thread \in {"waiting", "asleep"}, word # "request"
        PROVE  word = "response" /\ buffer = Response(sequence)
    BY <2>1 DEF Inv, Waiting, Answered
  <2>2. ASSUME thread = "asleep"
        PROVE  \/ stopPromise
               \/ (\E n \in DOMAIN inbox : inbox[n] = "rpc") \/ currentRpc = sequence
               \/ host \in {"responding", "notifying"}
    <3>1. CASE word = "request"
      BY <2>2, <3>1, PostedIsThere DEF Inv, Waiting, Posted, Dispatched, Responding, Abandoned
    <3>2. CASE word = "response"
      BY <2>2, <3>2 DEF Inv, Answered
    <3>3. QED
      BY <2>2, <3>1, <3>2 DEF Inv, Waiting
  <2>3. QED
    BY <2>1, <2>2 DEF Inv, Served
<1>2. QED
  BY <1>1, WorkerInvariant, PTL

\* A call of the component behaves like a procedure call: each is carried out at most once,
\* after it was made, and returns only after it was carried out.
THEOREM CallsAreProcedureCalls == Spec => ImplementsCalls
<1>1. Init => Calls!CallInit
  BY DEF Init, Calls!CallInit
<1>2. ASSUME Inv, [Next]_vars PROVE [Calls!CallNext]_(Calls!callVars)
  <2> USE <1>2 DEF Inv
  <2>0. sequence \in Nat /\ returned \in Nat /\ executed \in Nat
    BY DEF TypeOK
  <2>1. CASE RpcWrites
    BY <2>1, <2>0 DEF RpcWrites, Goto, hostVars, callVars, BetweenCalls, Calls!CallNext, Calls!Ask
  <2>2. CASE HandleRpc
    <3>1. CallPosted
      BY <2>2, AfterHandling DEF HandleRpc, Handles
    <3>2. CASE stopPromise
      BY <2>2, <3>2 DEF HandleRpc, Handles, Fail, Quietly, thrVars, Calls!callVars
    <3>3. CASE ~stopPromise
      <4>1. executed = returned /\ sequence = returned + 1
        BY <3>1, <3>3, <2>0 DEF TypeOK, BetweenCalls, Asking, Waiting, Answered, Gone, NoCall,
           Posted, Dispatched, Responding, Abandoned
      <4>2. executed' \in {executed, executed + 1} /\ UNCHANGED <<sequence, returned>>
        BY <2>2 DEF HandleRpc, Handles, thrVars
      <4>3. QED
        BY <2>0, <4>1, <4>2 DEF Calls!CallNext, Calls!Execute, Calls!callVars
    <3>4. QED
      BY <3>2, <3>3
  <2>3. CASE RpcReturns
    <3>1. executed = sequence /\ sequence = returned + 1
      BY <2>3, <2>0 DEF RpcReturns, Waiting, Answered
    <3>2. returned' \in {returned, sequence} /\ UNCHANGED <<sequence, executed>>
      BY <2>3 DEF RpcReturns, hostVars, callVars
    <3>3. QED
      BY <2>0, <3>1, <3>2 DEF Calls!CallNext, Calls!Return, Calls!callVars
  <2>4. CASE Instantiated \/ Listening \/ RpcSignals \/ RpcPosts \/ FallsAsleep
    BY <2>4 DEF Instantiated, Listening, RpcSignals, RpcPosts, FallsAsleep, memory, hostVars,
       events, callVars, lifeVars, Goto, Post, Calls!callVars
  <2>5. CASE Crashes \/ Finishes \/ Exits \/ Terminated
    BY <2>5 DEF Crashes, Finishes, Exits, Terminated, memory, hostVars, events, callVars,
       lifeVars, Goto, Ends, Post, Calls!callVars
  <2>6. CASE HandleListening \/ HandleDone \/ HandleError \/ HandleExit
    BY <2>6 DEF HandleListening, HandleDone, HandleError, HandleExit, memory, thrVars, events,
       callVars, lifeVars, Exit, Fail, Quietly, Handles, Calls!callVars
  <2>7. CASE DispatchSettles \/ Responds \/ Notifies \/ StartupTimeout \/ Stop
    BY <2>7 DEF DispatchSettles, Responds, Notifies, StartupTimeout, Stop, memory, thrVars,
       events, callVars, lifeVars, Fail, Quietly, Response, Calls!callVars
  <2>8. CASE UNCHANGED vars
    BY <2>8 DEF vars, thrVars, hostVars, callVars, Calls!callVars
  <2>9. QED
    BY <2>1, <2>2, <2>3, <2>4, <2>5, <2>6, <2>7, <2>8 DEF Next, Worker, Rpc, Host, Handle
<1>3. QED
  BY <1>1, <1>2, WorkerInvariant, PTL DEF Spec, ImplementsCalls, Calls!CallSpec

-----------------------------------------------------------------------------
(* The safety half of OwnerIsTold *)

\* Who is still to tell the owner.  The startup timer runs until ready settles or the worker is
\* stopped; a failure stops it; and an exit is handled last of all, when the worker was stopped,
\* or is stopped for it, or had said that it was done.
Telling ==
  /\ thread = "gone" <=> exit # "none"
  /\ failure # "none" => stopPromise
  /\ stopPromise \/ ready # "pending" => ~startupTimer
  /\ ready = "pending" => exit # "handled" /\ (startupTimer \/ stopPromise)
  /\ ready = "rejected" => stopPromise \/ exit = "handled"
  /\ exit = "handled" => inbox = <<>> /\ ~error /\ (stopPromise \/ (done /\ failure = "none"))

\* The owner is never left alone.  As long as ready is pending the exit of the worker is to
\* come, and the timer runs, or the worker is being terminated; and a worker that has ended
\* has an exit the host is still to handle, or the owner knows: it was stopped, or LLDB's
\* connection was over.
OwnerIsNotForgotten ==
  /\ ready = "pending" => exit # "handled" /\ (startupTimer \/ stopPromise)
  /\ thread = "gone"
       => exit \in {"ok", "bad"} \/ (exit = "handled" /\ (stopPromise \/ (done /\ failure = "none")))

Flag(b) == IF b THEN 1 ELSE 0

\* What the host has left to do for a worker that has ended: a dispatch weighs one more than
\* the answer it may turn into.
HostLeft ==
  3 * Flag(currentRpc # 0)
  + (CASE host = "responding" -> 2 [] host = "notifying" -> 1 [] OTHER -> 0)

ErrorLeft == Flag(error)
ExitLeft  == Flag(exit # "handled")
TimerLeft == Flag(startupTimer)
StopLeft  == Flag(~stopPromise)

Left == Len(inbox) + HostLeft + ErrorLeft + ExitLeft + TimerLeft + StopLeft

\* What the owner is told is told once, and is not taken back; a stop is not either, and the
\* timer is not set again.  And once the worker has ended, every step that is taken at all, by
\* whomever, brings the host nearer to having handled its exit.
ToldOnce ==
  /\ ready # "pending" => ready' = ready
  /\ failure # "none" => failure' = failure
  /\ (stopPromise => stopPromise') /\ (done => done') /\ (startupTimer' => startupTimer)
  /\ thread = "gone" => thread' = "gone" /\ Left' < Left

\* How long the inbox is when a message is taken out of it.
LEMMA OneLess ==
  ASSUME inbox \in Inboxes, inbox # <<>>, inbox' = Tail(inbox)
  PROVE  Len(inbox') = Len(inbox) - 1 /\ Len(inbox) \in Nat /\ Len(inbox') \in Nat
<1>1. inbox \in Seq({"rpc", "listening", "done"})
  BY InboxTypes
<1>2. QED
  BY <1>1

\* The owner's side of each kind of step.
Kept == UNCHANGED <<ready, startupTimer, done, failure, stopPromise>>

LEMMA FailIs ==
  ASSUME Telling, NEW why \in {"startup", "crash", "protocol"}, Fail(why)
  PROVE  \/ Kept /\ stopPromise
         \/ /\ ~stopPromise /\ failure = "none" /\ failure' = why /\ stopPromise' = TRUE
            /\ startupTimer' = FALSE /\ done' = done
            /\ ready' = IF ready = "pending" THEN "rejected" ELSE ready
<1>1. CASE stopPromise
  BY <1>1 DEF Fail, Quietly, lifeVars, Kept
<1>2. CASE ~stopPromise
  BY <1>2 DEF Fail, Telling
<1>3. QED
  BY <1>1, <1>2

\* The steps of the worker itself.
LEMMA WorkerTells ==
  ASSUME Inv, Telling, Worker
  PROVE  Telling' /\ ToldOnce
<1>1. thread # "gone" /\ Kept
  BY DEF Worker, Rpc, Instantiated, Listening, RpcWrites, RpcSignals, RpcPosts, FallsAsleep,
     RpcReturns, Crashes, Finishes, Exits, Terminated, Goto, Post, Ends, hostVars, lifeVars, Kept
<1>2. CASE Exits \/ Terminated
  <2>1. thread' = "gone" /\ exit' \in {"ok", "bad"}
    BY <1>2 DEF Exits, Terminated, Ends
  <2>2. Telling'
    BY <1>1, <2>1 DEF Telling, Kept
  <2>3. QED
    BY <1>1, <2>2 DEF ToldOnce, Kept
<1>3. CASE \/ Instantiated \/ Listening \/ RpcWrites \/ RpcSignals \/ RpcPosts \/ FallsAsleep
           \/ RpcReturns \/ Crashes \/ Finishes
  <2>1. exit' = exit /\ thread' # "gone"
    BY <1>1, <1>3 DEF Instantiated, Listening, RpcWrites, RpcSignals, RpcPosts, FallsAsleep,
       RpcReturns, Crashes, Finishes, Goto, Post, hostVars, events
  <2>2. Telling'
    BY <1>1, <2>1 DEF Telling, Kept
  <2>3. QED
    BY <1>1, <2>2 DEF ToldOnce, Kept
<1>4. QED
  BY <1>2, <1>3 DEF Worker, Rpc

\* The messages of the worker.
LEMMA MessageTells ==
  ASSUME Inv, Telling, HandleRpc \/ HandleListening \/ HandleDone
  PROVE  Telling' /\ ToldOnce
<1>1. /\ inbox \in Inboxes /\ inbox # <<>> /\ inbox' = Tail(inbox) /\ host' = host
      /\ thread' = thread /\ exit' = exit /\ error' = error
  BY DEF HandleRpc, HandleListening, HandleDone, Handles, Inv, thrVars, events
<1>2. exit # "handled" /\ (ready = "rejected" => stopPromise)
  BY <1>1 DEF Telling
<1>3. thread = "gone" => currentRpc' = currentRpc
  <2>1. CASE HandleRpc
    <3>1. CallPosted
      BY <2>1, AfterHandling DEF HandleRpc, Handles, Inv
    <3>2. thread = "gone" => stopPromise
      BY <3>1 DEF Inv, Gone
    <3>3. QED
      BY <2>1, <3>2 DEF HandleRpc
  <2>2. CASE HandleListening \/ HandleDone
    BY <2>2 DEF HandleListening, HandleDone
  <2>3. QED
    BY <2>1, <2>2
\* What the owner sees of it.
<1>4. \/ Kept
      \/ /\ done' = (done \/ ~stopPromise)
         /\ UNCHANGED <<ready, startupTimer, failure, stopPromise>>
      \/ /\ ready \in {"pending", "rejected"} /\ ~stopPromise
         /\ ready' = "resolved" /\ startupTimer' = FALSE
         /\ UNCHANGED <<done, failure, stopPromise>>
      \/ /\ ~stopPromise /\ failure = "none" /\ failure' = "protocol" /\ stopPromise' = TRUE
         /\ startupTimer' = FALSE /\ done' = done
         /\ ready' = IF ready = "pending" THEN "rejected" ELSE ready
  <2>1. CASE HandleRpc
    <3>1. Quietly \/ Fail("protocol")
      BY <2>1 DEF HandleRpc
    <3>2. QED
      BY <3>1, FailIs DEF Quietly, lifeVars, Kept
  <2>2. CASE HandleListening
    <3>1. ready \in {"pending", "resolved", "rejected"}
      BY DEF Inv, TypeOK
    <3>2. CASE stopPromise \/ ready = "resolved"
      <4>1. Quietly \/ Fail("protocol")
        BY <2>2, <3>2 DEF HandleListening
      <4>2. QED
        BY <4>1, FailIs DEF Quietly, lifeVars, Kept
    <3>3. CASE ~stopPromise /\ ready # "resolved"
      BY <2>2, <3>1, <3>3 DEF HandleListening
    <3>4. QED
      BY <3>2, <3>3
  <2>3. CASE HandleDone
    BY <2>3 DEF HandleDone
  <2>4. QED
    BY <2>1, <2>2, <2>3
<1>5. /\ ready # "pending" => ready' = ready
      /\ failure # "none" => failure' = failure
      /\ (stopPromise => stopPromise') /\ (done => done') /\ (startupTimer' => startupTimer)
  <2>1. (ready # "pending" => ready' = ready) /\ (failure # "none" => failure' = failure)
    BY <1>2, <1>4 DEF Kept
  <2>2. done => done'
    BY <1>4, Zenon DEF Kept
  <2>3. stopPromise => stopPromise'
    BY <1>4 DEF Kept
  <2>4. startupTimer' => startupTimer
    BY <1>4 DEF Kept
  <2>5. QED
    BY <2>1, <2>2, <2>3, <2>4
<1>6. Telling'
  BY <1>1, <1>2, <1>4 DEF Telling, Kept
<1>7. ASSUME thread = "gone" PROVE Left' < Left
  <2>1. Len(inbox') = Len(inbox) - 1 /\ Len(inbox) \in Nat /\ Len(inbox') \in Nat
    BY <1>1, OneLess
  <2>2. HostLeft' = HostLeft
    BY <1>1, <1>3, <1>7 DEF HostLeft, Flag
  <2>3. HostLeft \in Nat
    BY DEF HostLeft, Flag
  <2>4. /\ ErrorLeft' = ErrorLeft /\ ExitLeft' = ExitLeft
        /\ TimerLeft' <= TimerLeft /\ StopLeft' <= StopLeft
    BY <1>1, <1>5 DEF ErrorLeft, ExitLeft, TimerLeft, StopLeft, Flag
  <2>5. /\ ErrorLeft \in Nat /\ ExitLeft \in Nat
        /\ TimerLeft \in Nat /\ StopLeft \in Nat
        /\ TimerLeft' \in Nat /\ StopLeft' \in Nat
    BY DEF ErrorLeft, ExitLeft, TimerLeft, StopLeft, Flag
  <2>6. QED
    BY <2>1, <2>2, <2>3, <2>4, <2>5 DEF Left
<1>8. QED
  BY <1>1, <1>5, <1>6, <1>7 DEF ToldOnce

\* A step of the host that leaves the inbox alone, and takes one more thing off the list.
LEMMA LessToSum ==
  ASSUME inbox \in Inboxes, inbox' = inbox, HostLeft' <= HostLeft,
         ErrorLeft' <= ErrorLeft, ExitLeft' <= ExitLeft,
         TimerLeft' <= TimerLeft, StopLeft' <= StopLeft,
         \/ HostLeft' < HostLeft
         \/ ErrorLeft' < ErrorLeft
         \/ ExitLeft' < ExitLeft
         \/ StopLeft' < StopLeft
  PROVE  Left' < Left
<1>1. Len(inbox') = Len(inbox) /\ Len(inbox) \in Nat
  BY InboxTypes
<1>2. HostLeft \in Nat /\ HostLeft' \in Nat
  BY DEF HostLeft, Flag
<1>3. /\ ErrorLeft \in Nat /\ ExitLeft \in Nat
      /\ TimerLeft \in Nat /\ StopLeft \in Nat
      /\ ErrorLeft' \in Nat /\ ExitLeft' \in Nat
      /\ TimerLeft' \in Nat /\ StopLeft' \in Nat
  BY DEF ErrorLeft, ExitLeft, TimerLeft, StopLeft, Flag
<1>4. QED
  BY <1>1, <1>2, <1>3 DEF Left

LEMMA LessLeft ==
  ASSUME inbox \in Inboxes, inbox' = inbox,
         HostLeft' <= HostLeft, error' => error, exit = "handled" => exit' = "handled",
         startupTimer' => startupTimer, stopPromise => stopPromise',
         \/ HostLeft' < HostLeft
         \/ error /\ ~error'
         \/ exit # "handled" /\ exit' = "handled"
         \/ ~stopPromise /\ stopPromise'
  PROVE  Left' < Left
<1>1. /\ ErrorLeft' <= ErrorLeft /\ ExitLeft' <= ExitLeft
      /\ TimerLeft' <= TimerLeft /\ StopLeft' <= StopLeft
      /\ \/ HostLeft' < HostLeft \/ ErrorLeft' < ErrorLeft
         \/ ExitLeft' < ExitLeft
         \/ StopLeft' < StopLeft
  BY DEF ErrorLeft, ExitLeft, TimerLeft, StopLeft, Flag
<1>2. QED
  BY <1>1, LessToSum, Zenon

\* The error and the exit of the worker.
LEMMA EventTells ==
  ASSUME Inv, Telling, HandleError \/ HandleExit
  PROVE  Telling' /\ ToldOnce
<1>1. /\ inbox \in Inboxes /\ inbox' = inbox /\ thread' = thread
      /\ host' = host /\ currentRpc' = currentRpc /\ HostLeft' = HostLeft /\ HostLeft \in Nat
  BY DEF HandleError, HandleExit, Exit, Inv, thrVars, callVars, HostLeft, Flag
<1>2. CASE HandleError
  <2>1. error /\ error' = FALSE /\ exit' = exit /\ Fail("crash")
    BY <1>2 DEF HandleError
  <2>2. \/ Kept
        \/ /\ ~stopPromise /\ failure = "none" /\ failure' = "crash" /\ stopPromise' = TRUE
           /\ startupTimer' = FALSE /\ done' = done
           /\ ready' = IF ready = "pending" THEN "rejected" ELSE ready
    BY <2>1, FailIs
  <2>3. exit # "handled" /\ Telling'
    BY <1>1, <2>1, <2>2 DEF Telling, Kept
  <2>4. /\ ready # "pending" => ready' = ready
        /\ failure # "none" => failure' = failure
        /\ (stopPromise => stopPromise') /\ (done => done') /\ (startupTimer' => startupTimer)
    BY <2>2 DEF Kept
  <2>5. Left' < Left
    BY <1>1, <2>1, <2>4, LessLeft
  <2>6. QED
    BY <1>1, <2>3, <2>4, <2>5 DEF ToldOnce
<1>3. CASE HandleExit
  <2>1. /\ inbox = <<>> /\ ~error /\ error' = error /\ exit \in {"ok", "bad"} /\ exit' = "handled"
        /\ startupTimer' = FALSE /\ done' = done
        /\ ready' = IF ready = "pending" THEN "rejected" ELSE ready
        /\ IF ~stopPromise /\ failure = "none" /\ (~done \/ exit = "bad")
           THEN failure' = "exit" /\ stopPromise' = TRUE
           ELSE failure' = failure /\ stopPromise' = stopPromise
    BY <1>3 DEF HandleExit, Exit
  <2>2. /\ ready # "pending" => ready' = ready
        /\ failure # "none" => failure' = failure
        /\ (stopPromise => stopPromise') /\ (done => done') /\ (startupTimer' => startupTimer)
    BY <2>1
  <2>3. Telling'
    BY <1>1, <2>1 DEF Telling
  <2>4. Left' < Left
    <3>1. HostLeft' <= HostLeft
      BY <1>1
    <3>2. (exit # "handled" /\ exit' = "handled") /\ (error' => error)
      BY <2>1
    <3>3. QED
      BY <1>1, <2>2, <3>1, <3>2, LessLeft
  <2>5. QED
    BY <1>1, <2>2, <2>3, <2>4 DEF ToldOnce
<1>4. QED
  BY <1>2, <1>3

\* The answer to a call, the timer, and the owner's stop.
LEMMA HostTells ==
  ASSUME Inv, Telling, DispatchSettles \/ Responds \/ Notifies \/ StartupTimeout \/ Stop
  PROVE  Telling' /\ ToldOnce
<1>1. /\ inbox \in Inboxes /\ inbox' = inbox /\ exit' = exit /\ error' = error
      /\ thread' = "gone" <=> thread = "gone"
  BY DEF DispatchSettles, Responds, Notifies, StartupTimeout, Stop, Inv, thrVars, events
<1>2. CASE DispatchSettles \/ Responds \/ Notifies
  <2>1. Kept
    BY <1>2 DEF DispatchSettles, Responds, Notifies, lifeVars, Kept
  <2>2. HostLeft' < HostLeft
    BY <1>2 DEF DispatchSettles, Responds, Notifies, HostLeft, Flag
  <2>3. HostLeft \in Nat /\ HostLeft' \in Nat
    BY DEF HostLeft, Flag
  <2>4. Left' < Left
    <3>1. HostLeft' <= HostLeft
      BY <2>2, <2>3
    <3>2. /\ ErrorLeft' = ErrorLeft /\ ExitLeft' = ExitLeft
          /\ TimerLeft' = TimerLeft /\ StopLeft' = StopLeft
      BY <1>1, <2>1 DEF ErrorLeft, ExitLeft, TimerLeft, StopLeft, Kept
    <3>3. ErrorLeft \in Nat /\ ExitLeft \in Nat /\ TimerLeft \in Nat /\ StopLeft \in Nat
      BY DEF ErrorLeft, ExitLeft, TimerLeft, StopLeft, Flag
    <3>4. inbox \in Inboxes /\ inbox' = inbox
      BY <1>1
    <3>5. QED
      BY <2>2, <3>1, <3>2, <3>3, <3>4, LessToSum
  <2>5. QED
    BY <1>1, <2>1, <2>4 DEF Telling, ToldOnce, Kept
<1>3. CASE StartupTimeout \/ Stop
  <2>1. HostLeft' = HostLeft /\ HostLeft \in Nat
    BY <1>3 DEF StartupTimeout, Stop, callVars, HostLeft, Flag
  <2>2. ~stopPromise /\ stopPromise' = TRUE /\ startupTimer' = FALSE /\ done' = done
    BY <1>3, FailIs DEF StartupTimeout, Stop, Telling
  <2>3. \/ ready' = ready /\ failure' = failure
        \/ /\ failure = "none" /\ failure' = "startup"
           /\ ready' = IF ready = "pending" THEN "rejected" ELSE ready
    BY <1>3, <2>2, FailIs DEF StartupTimeout, Stop, Kept
  <2>4. Telling'
    <3>1. ready = "pending" => exit # "handled"
      BY <2>2 DEF Telling
    <3>2. QED
      BY <1>1, <2>2, <2>3, <3>1 DEF Telling
  <2>5. Left' < Left
    BY <1>1, <2>1, <2>2, LessLeft
  <2>6. QED
    BY <1>1, <2>2, <2>3, <2>4, <2>5 DEF ToldOnce
<1>4. QED
  BY <1>2, <1>3

\* The owner of a worker is not left waiting: there is always somebody who is to tell it how
\* startup or the worker has ended, it is told once, and nothing that happens after the
\* worker's end puts that off.  (That those who are to tell it do, and so OwnerIsTold itself, is
\* the fairness of Spec.)
THEOREM OwnerIsNotLeftWaiting == Spec => []OwnerIsNotForgotten /\ [][ToldOnce]_vars
<1>1. Init => Telling
  BY DEF Init, Telling
<1>2. ASSUME Inv, Telling, Next PROVE Telling' /\ ToldOnce
  BY <1>2, WorkerTells, MessageTells, EventTells, HostTells DEF Next, Host, Handle
<1>3. Telling /\ UNCHANGED vars => Telling'
  BY DEF Telling, vars, thrVars, hostVars, events, lifeVars
<1>4. Inv /\ Telling /\ [Next]_vars => Telling' /\ [ToldOnce]_vars
  BY <1>2, <1>3
<1>5. Inv /\ Telling => OwnerIsNotForgotten
  BY DEF Inv, TypeOK, Telling, OwnerIsNotForgotten
<1>6. QED
  BY <1>1, <1>4, <1>5, WorkerInvariant, PTL DEF Spec

=============================================================================
