---------------------------- MODULE Breakpoints ----------------------------
(***************************************************************************)
(* src/src/rdp/breakpoints.ts: the breakpoints LLDB wants (desired), and   *)
(* their installation on every thread (applied), while threads and sources *)
(* come and go.  Firefox keeps breakpoints per thread and only takes legal *)
(* positions, so a logical breakpoint (a key) is snapped to a site.        *)
(*                                                                         *)
(* Every call that changes what is wanted queues a reconciliation job on   *)
(* every target.  Jobs of one target run one after the other; each awaits  *)
(* positions and one reply after the other, and anything can happen at an  *)
(* await.  A job compares revisions to notice that it works on old data:   *)
(* stale holds the targets for which a revision has moved since their job  *)
(* took its snapshot.  There is one source URL; its positions are fetched  *)
(* once and cached, so that a job has one await for them.                  *)
(***************************************************************************)
EXTENDS Integers, Sequences, FiniteSets

CONSTANTS Actors,      \* thread actors
          GapActors,   \* bound: those that may be announced in the gap between two pages
          Keys,        \* logical breakpoints of one source URL
          Sites,       \* physical positions
          SiteOf,      \* where a key snaps to; NoSite if nothing there is legal
          NoSite,
          NoKey,
          NoCall,
          CallId,      \* calls that may be under way at once
          MaxErrors    \* bound: requests Firefox refuses

ASSUME BreakpointsAssumption ==
  /\ SiteOf \in [Keys -> Sites \cup {NoSite}]
  /\ NoSite \notin Sites /\ NoKey \notin Keys
  /\ Actors \cap CallId = {} /\ NoCall \notin CallId
  /\ MaxErrors \in Nat

VARIABLES
  desired,   \* #desired: the call whose Desired object a key holds, or NoCall
  present,   \* #targets
  adopted,   \* targets that belong to a page; in the gap between two they do not
  sources,   \* targets that have announced their source
  applied,   \* applied: the sites of each target
  stale,     \* targets whose running job has an old snapshot
  queue,     \* work: whose jobs a target has, the running one first: a call, or the
             \* target whose announcement the session replays breakpoints for
  job,       \* the running job of a target
  closed     \* #closed

VARIABLES
  calls,     \* the latest use of each CallId: [kind, key]
  state,     \* what the promise of that call has come to
  failed,    \* the calls, and replays, one of whose jobs failed
  errors,    \* errors so far
  unsettled  \* history: targets whose last job failed

VARIABLES
  request,   \* external: the request of a target on its way: none, sent, ok or error
  installed, \* external: the sites Firefox stops at
  dead       \* external: threads that are gone in Firefox

owner == <<desired, present, adopted, sources, closed>>
work == <<applied, stale, queue, job, unsettled>>
callers == <<calls, state, failed>>
firefox == <<request, installed, dead>>
vars == <<owner, work, callers, errors, firefox>>

NoJob == [pc |-> "idle", wanted |-> {}, site |-> NoSite, verb |-> "none"]

Init ==
  /\ desired = [k \in Keys |-> NoCall]
  /\ present = {} /\ adopted = {} /\ sources = {}
  /\ applied = [a \in Actors |-> {}]
  /\ stale = {}
  /\ queue = [a \in Actors |-> <<>>]
  /\ job = [a \in Actors |-> NoJob]
  /\ closed = FALSE
  /\ calls = [c \in CallId |-> [kind |-> "none", key |-> NoKey]]
  /\ state = [c \in CallId |-> "idle"]
  /\ failed = {}
  /\ errors = 0
  /\ unsettled = {}
  /\ request = [a \in Actors |-> "none"]
  /\ installed = [a \in Actors |-> {}]
  /\ dead = {}

-----------------------------------------------------------------------------
\* #source: the target's own source, or that of a peer of the same page.
Available(a) ==
  a \in sources \/ (a \in adopted /\ \E p \in sources : p \in adopted)

WantedSites == {SiteOf[k] : k \in {x \in Keys : desired[x] # NoCall}}

\* A caller queues a job on each target of S.
Enqueue(c, S) ==
  queue' = [a \in Actors |-> IF a \in S THEN Append(queue[a], c) ELSE queue[a]]

\* Mutant.  A call returns without waiting for its jobs.
SettledAtOnce(c) == TRUE

\* reconcileAll settles when every job it queued has.
Settled(c) == \A a \in Actors : \A n \in DOMAIN queue[a] : queue[a][n] # c

\* A call of LLDB changes what is wanted and reconciles every target.
Call(c, kind, k, holder) ==
  /\ ~closed /\ state[c] \notin {"working", "rolling back"}
  /\ calls' = [calls EXCEPT ![c] = [kind |-> kind, key |-> k]]
  /\ state' = [state EXCEPT ![c] = "working"]
  /\ failed' = failed \ {c}
  /\ desired' = [desired EXCEPT ![k] = holder]
  /\ stale' = present
  /\ Enqueue(c, present)
  /\ UNCHANGED <<present, adopted, sources, closed, applied, job, unsettled, errors, firefox>>

Set(c, k) == Call(c, "set", k, c)

Remove(c, k) == Call(c, "remove", k, NoCall)

\* addTarget, for a thread announced with its page or in the gap before one.
AddTarget(a, page) ==
  /\ ~closed /\ a \notin present \cup dead
  /\ page \/ a \in GapActors
  /\ present' = present \cup {a}
  /\ adopted' = IF page THEN adopted \cup {a} ELSE adopted
  /\ Enqueue(a, {a})
  /\ UNCHANGED <<desired, sources, closed, applied, stale, job, unsettled, callers, errors, firefox>>

\* addTarget again: the page of a thread announced in the gap has arrived.
AdoptTarget(a) ==
  /\ ~closed /\ a \in present \ adopted
  /\ adopted' = adopted \cup {a}
  /\ stale' = stale \cup {a}
  /\ Enqueue(a, {a})
  /\ UNCHANGED <<desired, present, sources, closed, applied, job, unsettled, callers, errors, firefox>>

\* Mutant.  A source is taken for news to its own target only.
AnnounceAlone(a) ==
  /\ ~closed /\ a \in adopted \ sources
  /\ sources' = sources \cup {a}
  /\ stale' = stale \cup {a}
  /\ Enqueue(a, {a})
  /\ UNCHANGED <<desired, present, adopted, closed, applied, job, unsettled, callers, errors, firefox>>

\* sources: a source is news to every target, its peers may borrow it.
AnnounceSource(a) ==
  /\ ~closed /\ a \in adopted \ sources
  /\ sources' = sources \cup {a}
  /\ stale' = present
  /\ Enqueue(a, present)
  /\ UNCHANGED <<desired, present, adopted, closed, applied, job, unsettled, callers, errors, firefox>>

\* removeTarget: whatever job it has finds out at its next await.
RemoveTarget(a) ==
  /\ ~closed /\ a \in present /\ a \in dead
  /\ present' = present \ {a}
  /\ adopted' = adopted \ {a}
  /\ sources' = sources \ {a}
  /\ UNCHANGED <<desired, closed, work, callers, errors, firefox>>

\* close of the owner, with the client: requests on their way are rejected.
CloseOwner ==
  /\ closed' = TRUE
  /\ present' = {} /\ adopted' = {} /\ sources' = {}
  /\ desired' = [k \in Keys |-> NoCall]
  /\ request' = [a \in Actors |-> IF request[a] = "none" THEN "none" ELSE "error"]
  /\ UNCHANGED <<work, callers, errors, installed, dead>>

Close == ~closed /\ CloseOwner

-----------------------------------------------------------------------------
(* The job of a target: what runs between two of its awaits is one step *)

Gone(a) == closed \/ a \notin present

\* The promise of a job settles.  A failure counts only while its target does.
SettleJob(a, failure) ==
  /\ queue' = [queue EXCEPT ![a] = Tail(@)]
  /\ job' = [job EXCEPT ![a] = NoJob]
  /\ IF failure /\ ~Gone(a)
     THEN failed' = failed \cup {Head(queue[a])} /\ unsettled' = unsettled \cup {a}
     ELSE unsettled' = unsettled \ {a} /\ UNCHANGED failed
  /\ UNCHANGED <<applied, request>>

\* The head of the loop: snapshot the revisions, await the positions.
StartJob(a) ==
  /\ queue[a] # <<>> /\ job[a].pc = "idle" /\ ~Gone(a)
  /\ job' = [job EXCEPT ![a].pc = "snap"]
  /\ stale' = stale \ {a}
  /\ UNCHANGED <<owner, applied, queue, unsettled, callers, errors, firefox>>

\* Mutant.  The work of a removed target never settles.
StayInJob(a) == FALSE /\ UNCHANGED vars

\* The target went while the job awaited its turn or positions.
LeaveJob(a) ==
  /\ queue[a] # <<>> /\ job[a].pc # "sent" /\ Gone(a)
  /\ SettleJob(a, FALSE)
  /\ UNCHANGED <<owner, stale, calls, state, errors, installed, dead>>

Send(a, verb, site, wanted) ==
  /\ job' = [job EXCEPT ![a] = [pc |-> "sent", wanted |-> wanted, site |-> site, verb |-> verb]]
  /\ request' = [request EXCEPT ![a] = "sent"]
  /\ UNCHANGED <<stale, queue, unsettled, failed>>

\* From an await to the next: remove what is not wanted, then, unless a revision
\* moved, set what is missing, then finish; a moved revision goes around again.
Advance(a, has, wanted) ==
  \/ \E site \in has \ wanted : Send(a, "remove", site, wanted)
  \/ /\ has \subseteq wanted /\ a \notin stale
     /\ \E site \in wanted \ has : Send(a, "set", site, wanted)
  \/ /\ has \subseteq wanted /\ a \in stale
     /\ job' = [job EXCEPT ![a] = [NoJob EXCEPT !.pc = "snap"]]
     /\ request' = [request EXCEPT ![a] = "none"]
     /\ stale' = stale \ {a}
     /\ UNCHANGED <<queue, unsettled, failed>>
  \/ /\ has = wanted /\ a \notin stale
     /\ queue' = [queue EXCEPT ![a] = Tail(@)]
     /\ job' = [job EXCEPT ![a] = NoJob]
     /\ request' = [request EXCEPT ![a] = "none"]
     /\ unsettled' = unsettled \ {a}
     /\ UNCHANGED <<stale, failed>>

\* The positions are there and every key with a source has a legal one.  A revision
\* that moved meanwhile makes them old before anything is sent.
Snapped(a) ==
  LET wanted == IF Available(a) THEN WantedSites ELSE {} IN
  /\ job[a].pc = "snap" /\ ~Gone(a) /\ NoSite \notin wanted
  /\ IF a \in stale
     THEN /\ stale' = stale \ {a}      \* continue: the loop takes a new snapshot
          /\ UNCHANGED <<job, request, queue, unsettled, failed>>
     ELSE Advance(a, applied[a], wanted)
  /\ UNCHANGED <<owner, applied, calls, state, errors, installed, dead>>

\* No legal position, or the positions cannot be had: the job fails.
SnapFails(a) ==
  /\ job[a].pc = "snap" /\ ~Gone(a) /\ Available(a) /\ WantedSites # {}
  /\ IF NoSite \in WantedSites THEN UNCHANGED errors
                               ELSE errors < MaxErrors /\ errors' = errors + 1
  /\ SettleJob(a, TRUE)
  /\ UNCHANGED <<owner, stale, calls, state, installed, dead>>

\* What a positive reply puts on the books.
Confirmed(a) ==
  IF job[a].verb = "set" THEN applied[a] \cup {job[a].site} ELSE applied[a] \ {job[a].site}

\* The reply to setBreakpoint or removeBreakpoint.
Reply(a) ==
  /\ job[a].pc = "sent"
  /\ \/ /\ request[a] = "ok" /\ ~Gone(a)
        /\ applied' = [applied EXCEPT ![a] = Confirmed(a)]
        /\ Advance(a, Confirmed(a), job[a].wanted)
     \/ /\ request[a] = "error" \/ (request[a] = "ok" /\ Gone(a))
        /\ queue' = [queue EXCEPT ![a] = Tail(@)]
        /\ job' = [job EXCEPT ![a] = NoJob]
        /\ request' = [request EXCEPT ![a] = "none"]
        /\ IF Gone(a) THEN UNCHANGED <<failed, unsettled>>
           ELSE failed' = failed \cup {Head(queue[a])} /\ unsettled' = unsettled \cup {a}
        /\ UNCHANGED <<applied, stale>>
  /\ UNCHANGED <<owner, calls, state, errors, installed, dead>>

-----------------------------------------------------------------------------
(* The callers *)

Return(c, verdict) ==
  /\ state' = [state EXCEPT ![c] = verdict]
  /\ UNCHANGED <<owner, work, calls, failed, errors, firefox>>

Awaiting(c, kind, phase) ==
  calls[c].kind = kind /\ state[c] = phase /\ Settled(c)

\* Mutant.  A set that failed stays wanted.
NoRollBack(c) ==
  /\ Awaiting(c, "set", "working") /\ c \in failed /\ desired[calls[c].key] = c
  /\ Return(c, "rejected")

\* Mutant.  The request is taken back, and nobody told.
RollBackQuietly(c) ==
  /\ Awaiting(c, "set", "working") /\ c \in failed /\ desired[calls[c].key] = c
  /\ state' = [state EXCEPT ![c] = "rejected"]
  /\ desired' = [desired EXCEPT ![calls[c].key] = NoCall]
  /\ stale' = present
  /\ UNCHANGED <<present, adopted, sources, closed, applied, queue, job, unsettled, calls, failed,
                 errors, firefox>>

\* set, one of its jobs having failed: take the request back, unless another call
\* has replaced it.
RollBack(c) ==
  /\ Awaiting(c, "set", "working") /\ c \in failed /\ desired[calls[c].key] = c
  /\ state' = [state EXCEPT ![c] = "rolling back"]
  /\ desired' = [desired EXCEPT ![calls[c].key] = NoCall]
  /\ stale' = present
  /\ Enqueue(c, present)
  /\ UNCHANGED <<present, adopted, sources, closed, applied, job, unsettled, calls, failed, errors, firefox>>

SetFails(c) ==
  \/ Awaiting(c, "set", "rolling back") /\ Return(c, "rejected")
  \/ /\ Awaiting(c, "set", "working") /\ desired[calls[c].key] # c
     /\ Return(c, IF c \in failed THEN "rejected" ELSE "superseded")

SetReturns(c) ==
  /\ Awaiting(c, "set", "working") /\ c \notin failed /\ desired[calls[c].key] = c
  /\ Return(c, IF \E a \in present : Available(a) /\ SiteOf[calls[c].key] \in applied[a]
               THEN "installed" ELSE "deferred")

RemoveReturns(c) ==
  /\ Awaiting(c, "remove", "working")
  /\ Return(c, IF c \in failed THEN "rejected" ELSE "removed")

\* #observeBreakpointTarget, #observeBreakpointSources: a replay that failed for a
\* thread that is still there closes the session.
ReplayCloses(a) ==
  /\ ~closed /\ a \in failed /\ Settled(a) /\ a \in present
  /\ CloseOwner

CallReturns(c) == RollBack(c) \/ SetFails(c) \/ SetReturns(c) \/ RemoveReturns(c)

-----------------------------------------------------------------------------
(* Firefox *)

\* It does as told, refuses, or does not know the thread any more.
FirefoxAnswers(a) ==
  /\ request[a] = "sent"
  /\ \/ /\ a \notin dead
        /\ installed' = [installed EXCEPT ![a] = IF job[a].verb = "set" THEN @ \cup {job[a].site}
                                                                       ELSE @ \ {job[a].site}]
        /\ request' = [request EXCEPT ![a] = "ok"]
        /\ UNCHANGED errors
     \/ /\ IF a \in dead THEN UNCHANGED errors ELSE errors < MaxErrors /\ errors' = errors + 1
        /\ request' = [request EXCEPT ![a] = "error"]
        /\ UNCHANGED installed
  /\ UNCHANGED <<owner, work, callers, dead>>

FirefoxDestroys(a) ==
  /\ ~closed /\ a \in present \ dead
  /\ dead' = dead \cup {a}
  /\ UNCHANGED <<owner, work, callers, errors, request, installed>>

-----------------------------------------------------------------------------
JobStep(a) == StartJob(a) \/ LeaveJob(a) \/ Snapped(a) \/ SnapFails(a) \/ Reply(a)

Next ==
  \/ \E c \in CallId, k \in Keys : Set(c, k) \/ Remove(c, k)
  \/ \E a \in Actors : \/ \E page \in BOOLEAN : AddTarget(a, page)
                       \/ AdoptTarget(a) \/ AnnounceSource(a) \/ RemoveTarget(a)
                       \/ JobStep(a) \/ ReplayCloses(a)
                       \/ FirefoxAnswers(a) \/ FirefoxDestroys(a)
  \/ \E c \in CallId : CallReturns(c)
  \/ Close

Spec == Init /\ [][Next]_vars

-----------------------------------------------------------------------------
TypeOK ==
  /\ desired \in [Keys -> CallId \cup {NoCall}]
  /\ present \subseteq Actors /\ adopted \subseteq present /\ sources \subseteq adopted
  /\ applied \in [Actors -> SUBSET Sites] /\ installed \in [Actors -> SUBSET Sites]
  /\ stale \subseteq Actors /\ unsettled \subseteq Actors /\ dead \subseteq Actors
  /\ queue \in [Actors -> Seq(CallId \cup Actors)]
  /\ job \in [Actors -> [pc : {"idle", "snap", "sent"}, wanted : SUBSET Sites, site : Sites \cup {NoSite},
                         verb : {"none", "set", "remove"}]]
  /\ closed \in BOOLEAN
  /\ calls \in [CallId -> [kind : {"none", "set", "remove"}, key : Keys \cup {NoKey}]]
  /\ state \in [CallId -> {"idle", "working", "rolling back", "installed", "deferred",
                           "superseded", "rejected", "removed"}]
  /\ failed \subseteq CallId \cup Actors
  /\ errors \in Nat
  /\ request \in [Actors -> {"none", "sent", "ok", "error"}]
  /\ \A a \in Actors : (request[a] # "none") <=> (job[a].pc = "sent")

\* A thread with no job left, the last one good, has exactly what is wanted: Firefox
\* and the books agree, every wanted site of a source it can know is installed, and
\* nothing is installed that no request stands for.
Reconciled ==
  \A a \in present \ (dead \cup unsettled) :
    queue[a] = <<>> =>
      /\ installed[a] = applied[a]
      /\ Available(a) => WantedSites \subseteq applied[a]
      /\ applied[a] \subseteq WantedSites

CallsAbout(site) == {c \in CallId : calls[c].kind # "none" /\ SiteOf[calls[c].key] = site}

\* What LLDB was told is removed, or could not be set, is not wanted for that call any
\* more; and once no call about its site is under way, the site is installed nowhere and
\* nothing on its way will install it, unless another request still stands for it: no old
\* job, late reply or half-done rollback brings a breakpoint back.
NoLateInstall ==
  \A c \in CallId : state[c] \in {"removed", "rejected", "superseded"} =>
    LET site == SiteOf[calls[c].key] IN
    /\ desired[calls[c].key] # c
    /\ (\A d \in CallsAbout(site) : state[d] \notin {"working", "rolling back"}) /\ site \notin WantedSites
       => \A a \in present \ (dead \cup unsettled) :
            site \notin installed[a] /\ ~(job[a].pc = "sent" /\ job[a].verb = "set" /\ job[a].site = site)

\* No set, remove or replay waits for ever: as long as one has not returned there is a
\* job that can go on, a request Firefox has yet to answer, or a result to return.
NoCallIsStuck ==
  (\E c \in CallId : state[c] \in {"working", "rolling back"}) \/ (\E a \in Actors : queue[a] # <<>>)
    => ENABLED ((\E a \in Actors : JobStep(a) \/ FirefoxAnswers(a)) \/ \E c \in CallId : CallReturns(c))
=============================================================================
