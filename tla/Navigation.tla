----------------------------- MODULE Navigation -----------------------------
(***************************************************************************)
(* The navigation a launch makes (navigate of src/src/rdp/session.ts, its  *)
(* caller in src/src/core/tab-session.ts), on top of the target lifecycle. *)
(*                                                                         *)
(* A launch waits for the page, looks at it, and may then ask Firefox to   *)
(* load Wanted.  Nothing in the protocol relates that request to the       *)
(* events it causes: the session infers from generations and URLs which    *)
(* document is the destination, and needs the reply besides, which comes   *)
(* before, after or never.  Firefox loads the document in the page that is *)
(* there or in a new one, which it may announce as Blank or, redirected,   *)
(* under another URL; the page may also move on by itself.                 *)
(***************************************************************************)
EXTENDS Targets

CONSTANTS FirstPage,  \* the page of the tab when the session begins
          Blank,      \* about:blank
          Wanted,     \* the URL asked for
          Other,      \* any other URL
          NoDocument

Urls == {Blank, Wanted, Other}

ASSUME NavigationAssumption ==
  /\ FirstPage \in TopActors
  /\ Cardinality(Urls) = 3

VARIABLES
  startup,    \* target, survey, pending (in navigate), done, failed, lost
  progress,   \* NavigationProgress: phase, and the facts about the destination
  request     \* the navigateTo request: none, sent, replied, rejected

callerVars == <<startup, progress, request>>

VARIABLES
  doc,        \* external: the document each page shows
  command,    \* external: navigateTo is not there, queued, accepted, answered, refused
  resumes,    \* external: pages with a resume on its way
  origin,     \* history: the page that was known when navigate was called
  credited    \* history: the document whose event made the destination ready

navigationVars == <<callerVars, doc, command, resumes, origin, credited>>
navVars == <<vars, navigationVars>>

NoProgress == [phase |-> "none", starting |-> 0, destination |-> 0, same |-> FALSE, last |-> Wanted]

Document(url, asked) == [url |-> url, asked |-> asked, moved |-> FALSE, state |-> "loading"]

NavInit ==
  /\ threads = {} /\ retiredTargetActors = {}
  /\ nextTid = 1 /\ nextGeneration = 1 /\ activeGeneration = 0
  /\ generationAborted = FALSE /\ pendingTopLevelTid = 0
  /\ detachChecks = {} /\ sources = {} /\ closed = FALSE
  /\ detached = {} /\ dropped = {}
  /\ wire = <<>>
  /\ phase = [a \in Actors |-> IF a = FirstPage THEN "loading" ELSE "unborn"]
  /\ page = FirstPage
  /\ owner = [w \in WorkerActors |-> NoPage]
  /\ sourced = {} /\ echoes = 0
  /\ startup = "target" /\ progress = NoProgress /\ request = "none"
  /\ doc \in [TopActors -> {Document(u, FALSE) : u \in Urls}]
  /\ \A t \in TopActors \ {FirstPage} : doc[t] = Document(Blank, FALSE)
  /\ command = "none" /\ resumes = {}
  /\ origin = NoPage /\ credited = NoDocument

-----------------------------------------------------------------------------
(* What the session learns of a navigation *)

TopGeneration == IF Tops = {} THEN 0 ELSE (CHOOSE i \in Tops : TRUE).gen

Waiting == startup = "pending" /\ progress.phase = "waiting"

\* Mutant.  The URL a new page is announced with is not kept.
ObserveGeneration(url, gen) ==
  IF Waiting /\ gen # progress.starting /\ url # Blank
  THEN progress' = [progress EXCEPT !.destination = gen]
  ELSE UNCHANGED progress

\* #observeNavigationTarget, for the page the current step announces.
Observe(url, gen) ==
  IF Waiting /\ gen # progress.starting /\ url # Blank
  THEN progress' = [progress EXCEPT !.destination = gen, !.last = url]
  ELSE UNCHANGED progress

\* Mutant.  An event of the old document is as good as one of the destination.
IsDestinationAnyDocument(url, gen) ==
  /\ url # Blank
  /\ progress.destination \in {0, gen}
  /\ url \in {Wanted, progress.last}

\* The conditions of #completeNavigation.
IsDestination(url, gen) ==
  /\ url # Blank
  /\ gen = progress.starting => progress.same
  /\ progress.destination \in {0, gen}
  /\ url \in {Wanted, progress.last}

\* #completeNavigation, for an event p about the page of generation gen.
Complete(p, gen) ==
  IF Waiting /\ IsDestination(p.url, gen)
  THEN /\ progress' = [progress EXCEPT !.phase = "destination-ready", !.destination = gen,
                                       !.last = p.url]
       /\ credited' = [actor |-> p.actor, asked |-> p.asked, tab |-> p.tab]
  ELSE UNCHANGED <<progress, credited>>

IsTop(a) == \E i \in Tops : i.actor = a

\* A packet about targets; a new page is a candidate for the destination.
HearTarget ==
  /\ Deliver
  /\ IF \E i \in threads' : i.top /\ ~Known(i.actor)
     THEN \E i \in threads' : /\ i.top /\ ~Known(i.actor)
                              /\ Observe(Head(wire).url, i.gen)
     ELSE UNCHANGED progress
  /\ UNCHANGED <<startup, request, doc, command, resumes, origin, credited>>

\* The oldest packet of the wire, of a kind that is not about targets.
Hear(kind) ==
  /\ ~closed /\ wire # <<>> /\ Head(wire).kind = kind
  /\ wire' = Tail(wire)
  /\ UNCHANGED <<sessionVars, phase, page, owner, sourced, echoes, startup, doc, command, origin>>

\* The event is about the present page, or comes from the tab and is put down to it.
Counts(p) == Tops # {} /\ (p.tab \/ IsTop(p.actor))

\* tabNavigated with state start: the present page itself loads the document.
HearStart ==
  /\ Hear("start")
  /\ progress' = IF Waiting /\ Counts(Head(wire))
                 THEN [progress EXCEPT !.same = TopGeneration = progress.starting,
                                      !.last = Head(wire).url]
                 ELSE progress
  /\ UNCHANGED <<request, resumes, credited>>

\* tabNavigated with state stop, and document-event: the document can be used.
HearReady ==
  /\ Hear("stop") \/ Hear("document")
  /\ IF Counts(Head(wire)) THEN Complete(Head(wire), TopGeneration)
                           ELSE UNCHANGED <<progress, credited>>
  /\ UNCHANGED <<request, resumes>>

\* Mutant.  A page that pauses while it loads is left alone.
LeavePaused(a) == {}

\* onPausedDuringLoad listens for the time of navigate and lets the page go on.
ResumeLoad(a) == IF startup = "pending" /\ Known(a) THEN {a} ELSE {}

HearPaused ==
  /\ Hear("paused")
  /\ resumes' = resumes \cup ResumeLoad(Head(wire).actor)
  /\ UNCHANGED <<request, progress, credited>>

HearReply ==
  /\ Hear("reply") \/ Hear("error")
  /\ request' = IF startup # "pending" THEN request
                ELSE IF Head(wire).kind = "reply" THEN "replied" ELSE "rejected"
  /\ UNCHANGED <<progress, resumes, credited>>

-----------------------------------------------------------------------------
(* The launch *)

\* waitForTopLevelTarget; then the launch reads the page's sources.
PageIsThere ==
  /\ ~closed /\ startup = "target" /\ Tops # {}
  /\ startup' = "survey"
  /\ UNCHANGED <<vars, progress, request, doc, command, resumes, origin, credited>>

\* navigate: the request is sent and the destination awaited at once.
Navigate ==
  /\ ~closed /\ startup = "survey"
  /\ startup' = "pending"
  /\ progress' = [NoProgress EXCEPT !.phase = "waiting", !.starting = TopGeneration]
  /\ request' = "sent" /\ command' = "queued"
  /\ origin' = IF Tops = {} THEN NoPage ELSE (CHOOSE i \in Tops : TRUE).actor
  /\ UNCHANGED <<vars, doc, resumes, credited>>

\* A launch without a navigation goes on to primeStop.
NoNavigation ==
  /\ ~closed /\ startup = "survey"
  /\ startup' = "done"
  /\ UNCHANGED <<vars, progress, request, doc, command, resumes, origin, credited>>

\* The launch fails and is rolled back: the session is closed.
Fails(how) ==
  /\ startup' = how
  /\ IF closed THEN UNCHANGED vars ELSE SessionClose
  /\ UNCHANGED <<request, doc, command, resumes, origin, credited>>

\* The catch of navigate.
GiveUp == progress' = [progress EXCEPT !.phase = "failed"]

\* Something navigate waits for has been decided.
Decided ==
  startup = "pending"
    /\ (closed \/ request = "rejected" \/ (progress.phase = "destination-ready" /\ request = "replied"))

\* The destination is the page of the tab still.
DestinationCurrent == TopGeneration = progress.destination

\* Promise.all of the two halves has settled.
Settle ==
  /\ Decided
  /\ IF ~closed /\ request = "replied" /\ DestinationCurrent
     THEN /\ startup' = "done" /\ progress' = [progress EXCEPT !.phase = "complete"]
          /\ UNCHANGED <<vars, request, doc, command, resumes, origin, credited>>
     ELSE Fails("failed") /\ GiveUp

\* Mutant.  No deadline for the destination.
NoDeadline == FALSE /\ UNCHANGED navVars

\* The destination is not ready in time.  With the page of the start gone and no other
\* in its place the launch may be tried once more on a new connection.
NavigationDeadline ==
  /\ ~Decided /\ Waiting
  /\ GiveUp
  /\ Fails(IF request = "replied" /\ progress.starting # 0 /\ Tops = {} THEN "lost" ELSE "failed")

\* The request is not answered in time.
RequestDeadline ==
  /\ ~Decided /\ startup = "pending" /\ request = "sent"
  /\ GiveUp /\ Fails("failed")

\* No page within ten seconds, or the session closed before navigate was called.
StartFails ==
  /\ startup = "target" \/ (startup = "survey" /\ closed)
  /\ Fails("failed") /\ UNCHANGED progress

\* The owner, or the client underneath, closes the session.
NavClose == SessionClose /\ UNCHANGED navigationVars

NavDetachGrace == (\E info \in detachChecks : DetachGrace(info)) /\ UNCHANGED navigationVars

-----------------------------------------------------------------------------
(* Firefox *)

\* A packet with the URL and the document it is about, sent by the page or by the tab.
Post(kind, t, d, tab) ==
  /\ Len(wire) < MaxWire
  /\ wire' = Append(wire, [kind |-> kind, actor |-> t, url |-> d.url, asked |-> d.asked, tab |-> tab])

Send(kind, t, d) == Post(kind, t, d, FALSE)

Accepted == command \in {"accepted", "answered"}

\* The document a new page starts with, loaded for the request if that has been seen.
NewDocument(t) == \E u \in Urls : doc' = [doc EXCEPT ![t] = Document(u, Accepted)]

Unmoved == UNCHANGED <<callerVars, command, resumes, origin, credited>>
OnlyWire == UNCHANGED <<sessionVars, phase, page, owner, sourced, echoes>>

Loads(t) == FirefoxLoads(t) /\ NewDocument(t) /\ Unmoved

\* Like FirefoxAnnouncesPage, with the URL.
Announces(t) ==
  /\ phase[t] = "loading"
  /\ phase' = [phase EXCEPT ![t] = "live"]
  /\ Send("available", t, doc[t])
  /\ Unmoved /\ UNCHANGED <<doc, page, owner, sourced, echoes, sessionVars>>

\* Like FirefoxSwapsPage, with the URL.
Swaps(t, u) ==
  /\ page = t /\ phase[t] = "live" /\ phase[u] = "unborn"
  /\ page' = u
  /\ phase' = [Dying(t, "dying") EXCEPT ![u] = "live"]
  /\ NewDocument(u)
  /\ Send("available", u, doc'[u])
  /\ Unmoved /\ UNCHANGED <<owner, sourced, echoes, sessionVars>>

\* The page that is there starts on the document asked for.
Starts(t) ==
  /\ page = t /\ phase[t] = "live" /\ Accepted
  /\ doc[t].asked => doc[t].url = Blank
  /\ doc' = [doc EXCEPT ![t] = Document(Wanted, TRUE)]
  /\ \E tab \in BOOLEAN : Post("start", t, doc'[t], tab)
  /\ Unmoved /\ OnlyWire

\* The document becomes interactive, maybe under another URL than it was announced.
BecomesInteractive(t) ==
  /\ phase[t] \in {"live", "dying"} /\ doc[t].state \in {"loading", "resumed"}
  /\ \E u \in {doc[t].url} \cup (IF doc[t].asked THEN {Other} ELSE {}) :
       doc' = [doc EXCEPT ![t] = [@ EXCEPT !.state = "interactive", !.url = u,
                                           !.moved = u # doc[t].url]]
  /\ Send("document", t, doc'[t])
  /\ Unmoved /\ OnlyWire

Stops(t) ==
  /\ phase[t] \in {"live", "dying"} /\ doc[t].state = "interactive"
  /\ doc' = [doc EXCEPT ![t].state = "stopped"]
  /\ \E tab \in BOOLEAN : Post("stop", t, doc[t], tab)
  /\ Unmoved /\ OnlyWire

\* An exception pauses the page while it loads, once; it gets no further by itself.
Pauses(t) ==
  /\ phase[t] = "live" /\ doc[t].state = "loading"
  /\ doc' = [doc EXCEPT ![t].state = "halted"]
  /\ Send("paused", t, doc[t])
  /\ Unmoved /\ OnlyWire

Resumes(t) ==
  /\ t \in resumes
  /\ resumes' = resumes \ {t}
  /\ doc' = IF doc[t].state = "halted" THEN [doc EXCEPT ![t].state = "resumed"] ELSE doc
  /\ UNCHANGED <<vars, callerVars, command, origin, credited>>

\* Firefox takes the request, and answers when it likes.
Takes ==
  /\ command = "queued"
  /\ command' = "accepted"
  /\ UNCHANGED <<vars, callerVars, doc, resumes, origin, credited>>

Answers ==
  /\ \/ command = "queued" /\ command' = "refused" /\ Send("error", NoPage, Document(Wanted, FALSE))
     \/ command = "accepted" /\ command' = "answered" /\ Send("reply", NoPage, Document(Wanted, TRUE))
  /\ OnlyWire /\ UNCHANGED <<callerVars, doc, resumes, origin, credited>>

\* Workers take no part in a navigation.
NavFirefox ==
  \/ \E t \in TopActors : \/ Loads(t) \/ Announces(t) \/ Starts(t) \/ BecomesInteractive(t)
                          \/ Stops(t) \/ Pauses(t) \/ Resumes(t)
  \/ \E t, u \in TopActors : Swaps(t, u)
  \/ Takes \/ Answers
  \/ (\E t \in TopActors : FirefoxDestroysPage(t) \/ FirefoxDestroysLate(t))
       /\ UNCHANGED navigationVars

-----------------------------------------------------------------------------
\* Packets of a chunk, and the continuation they release.
NavChunk == HearTarget \/ HearStart \/ HearReady \/ HearPaused \/ HearReply \/ Settle

Timers == NavDetachGrace \/ NavigationDeadline \/ RequestDeadline \/ StartFails

NavNext ==
  \/ NavChunk
  \/ ~Decided /\ (Timers \/ PageIsThere \/ Navigate \/ NoNavigation \/ NavClose)
  \/ ~closed /\ NavFirefox

\* The event loop handles every packet and every due timer.
NavSpec ==
  /\ NavInit /\ [][NavNext]_navVars
  /\ WF_navVars(NavChunk)
  /\ WF_navVars(NavDetachGrace)
  /\ WF_navVars(NavigationDeadline)
  /\ WF_navVars(RequestDeadline)

-----------------------------------------------------------------------------
Navigated == startup = "done" /\ request # "none"

\* When navigate returns the document that was there before it is gone: the tab shows
\* another page, or the same one on the document asked for.  What made it return was an
\* event about that page, and about that document, unless the tab actor sent it: such a
\* `stop` is put down to the present page, also when it comes late from the last one.
NotTheOldDocument ==
  [][~Navigated /\ Navigated' =>
       \E i \in Tops :
         /\ i.actor = credited.actor \/ credited.tab
         /\ i.actor = origin => doc[origin].asked /\ (credited.actor = origin => credited.asked)]_navVars

\* Nothing is on its way to the session or from it.
NavQuiet == ~closed /\ wire = <<>> /\ resumes = {} /\ ~Decided

\* navigate does not miss its destination: once Firefox has answered and the document
\* is loaded, there is nothing left to wait for, whether it came in the same page or a
\* new one, under the URL asked for or one it was announced with.  (Two are missed: a
\* document that is redirected after it was announced, its URL being neither; and the one
\* of a page announced as Blank in place of a page already taken for the destination.)
DestinationNotMissed ==
  NavQuiet /\ startup = "pending" /\ request = "replied" /\ progress.destination \in {0, TopGeneration}
    => ~(page # NoPage /\ doc[page].asked /\ doc[page].url # Blank
         /\ ~doc[page].moved /\ doc[page].state = "stopped")

\* A destination that pauses while it loads is not left standing: navigate would wait
\* for a document that cannot get any further.
LoadIsNotHeld ==
  NavQuiet /\ startup = "pending"
    => \A i \in Tops : doc[i.actor].asked => doc[i.actor].state # "halted"

\* Every navigation ends, in success or in failure, whatever Firefox leaves unanswered.
NavigationEnds == startup = "pending" ~> startup # "pending"
=============================================================================
