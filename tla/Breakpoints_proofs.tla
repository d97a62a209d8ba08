-------------------------- MODULE Breakpoints_proofs --------------------------
(***************************************************************************)
(* Breakpoints, proved for any targets, keys and sites, any number of      *)
(* calls under way, and any number of errors.                              *)
(***************************************************************************)
EXTENDS Breakpoints, TLAPS

-----------------------------------------------------------------------------
(* The inductive invariant *)

OwnerTypes ==
  /\ desired \in [Keys -> CallId \cup {NoCall}]
  /\ present \subseteq Actors /\ adopted \subseteq present /\ sources \subseteq adopted
  /\ dead \subseteq Actors /\ closed \in BOOLEAN
  /\ calls \in [CallId -> [kind : {"none", "set", "remove"}, key : Keys \cup {NoKey}]]
  /\ state \in [CallId -> {"idle", "working", "rolling back", "installed", "deferred",
                           "superseded", "rejected", "removed"}]
  /\ \A c \in CallId : state[c] # "idle" \/ calls[c].kind # "none" => calls[c].key \in Keys
  /\ errors \in Nat

Jobs == [pc : {"idle", "snap", "sent"}, wanted : SUBSET Sites, site : Sites \cup {NoSite},
         verb : {"none", "set", "remove"}]

WorkTypes ==
  /\ applied \in [Actors -> SUBSET Sites] /\ installed \in [Actors -> SUBSET Sites]
  /\ stale \subseteq Actors /\ unsettled \subseteq Actors
  /\ failed \subseteq CallId \cup Actors
  /\ queue \in [Actors -> Seq(CallId \cup Actors)]
  /\ job \in [Actors -> Jobs]
  /\ request \in [Actors -> {"none", "sent", "ok", "error"}]
  /\ \A a \in Actors : (request[a] # "none") <=> (job[a].pc = "sent")

Queued(c, a) == \E n \in DOMAIN queue[a] : queue[a][n] = c

UnderWay(c) == state[c] \in {"working", "rolling back"}

\* Holding these sites is right for a target: a source it knows has all that is wanted, and
\* nothing else is there.  It stays right when a source goes.
Right(has, a) == (Available(a) => WantedSites \subseteq has) /\ has \subseteq WantedSites

\* A call about the site has a job waiting on the target, which will take it away.
Answered(site, a) == \E c \in CallsAbout(site) : Queued(c, a)

\* The books are Firefox's, but for an answer on its way; a job works on what is wanted unless
\* a revision has moved; and what is not wanted any more is the business of a waiting job.
InHand(a) ==
  /\ installed[a] = IF request[a] = "ok" THEN Confirmed(a) ELSE applied[a]
  /\ job[a].pc = "sent" /\ a \notin stale => Right(job[a].wanted, a)
  /\ queue[a] = <<>> /\ a \notin unsettled => Right(applied[a], a)
  /\ a \notin unsettled =>
       \A s \in Sites \ WantedSites :
         s \in applied[a] \/ (job[a].pc = "sent" /\ s \in job[a].wanted) => Answered(s, a)

JobOK(a) ==
  /\ job[a].pc # "idle" => queue[a] # <<>>
  /\ job[a].pc = "sent" =>
       /\ job[a].site \in Sites /\ job[a].verb \in {"set", "remove"}
       /\ job[a].verb = "set" => job[a].site \in job[a].wanted
  /\ \A c \in CallId : Queued(c, a) => UnderWay(c)

\* A target not announced so far has nothing.
Untouched(a) == queue[a] = <<>> /\ applied[a] = {} /\ installed[a] = {}

TargetOK(a) ==
  /\ JobOK(a)
  /\ a \notin present \cup dead /\ ~closed => Untouched(a)
  /\ a \in present => InHand(a)

\* What has been taken back, or replaced, is not held by its call.
TakenBack(c) ==
  \/ state[c] \in {"rolling back", "rejected", "superseded", "removed"}
  \/ state[c] = "working" /\ calls[c].kind = "remove"

CallOK(c) == TakenBack(c) => desired[calls[c].key] # c

Sound ==
  /\ closed => present = {}
  /\ \A a \in Actors : TargetOK(a)
  /\ \A c \in CallId : CallOK(c)

Inv == OwnerTypes /\ WorkTypes /\ Sound

-----------------------------------------------------------------------------
(* Queues *)

LEMMA EnqueueIs ==
  ASSUME WorkTypes, NEW c \in CallId \cup Actors, NEW S \in SUBSET Actors, Enqueue(c, S)
  PROVE  /\ queue' \in [Actors -> Seq(CallId \cup Actors)]
         /\ \A a \in S : queue'[a] # <<>> /\ Queued(c, a)'
         /\ \A a \in Actors \ S : queue'[a] = queue[a]
         /\ \A a \in Actors : queue[a] # <<>> => queue'[a] # <<>>
         /\ \A a \in Actors : \A d : Queued(d, a) => Queued(d, a)'
         /\ \A a \in Actors : \A d : Queued(d, a)' => Queued(d, a) \/ (d = c /\ a \in S)
<1>1. \A a \in Actors : queue[a] \in Seq(CallId \cup Actors)
                          /\ queue'[a] = IF a \in S THEN Append(queue[a], c) ELSE queue[a]
  BY DEF WorkTypes, Enqueue
<1>2. queue' \in [Actors -> Seq(CallId \cup Actors)]
  BY <1>1 DEF Enqueue
<1>3. ASSUME NEW a \in S
      PROVE  /\ queue'[a] # <<>> /\ Queued(c, a)'
             /\ \A d : Queued(d, a) => Queued(d, a)'
             /\ \A d : Queued(d, a)' => Queued(d, a) \/ d = c
  <2> DEFINE q == queue[a]
  <2>1. q \in Seq(CallId \cup Actors) /\ queue'[a] = Append(q, c)
    BY <1>1
  <2>2. /\ DOMAIN q = 1..Len(q) /\ DOMAIN queue'[a] = 1..(Len(q) + 1) /\ Len(q) \in Nat
        /\ queue'[a][Len(q) + 1] = c /\ \A n \in 1..Len(q) : queue'[a][n] = q[n]
    BY <2>1
  <2>3. queue'[a] # <<>>
    BY <2>1
  <2> HIDE DEF q
  <2>4. Queued(c, a)'
    BY <2>2 DEF Queued
  <2>5. \A d : Queued(d, a) => Queued(d, a)'
    BY <2>2 DEF Queued, q
  <2>6. \A d : Queued(d, a)' => Queued(d, a) \/ d = c
    <3>1. \A n \in 1..(Len(q) + 1) : n \in 1..Len(q) \/ n = Len(q) + 1
      BY <2>2
    <3>2. QED
      BY <2>2, <3>1 DEF Queued, q
  <2>7. QED
    BY <2>3, <2>4, <2>5, <2>6
<1>4. \A a \in Actors \ S : queue'[a] = queue[a]
  BY <1>1
<1>5. \A a \in Actors \ S : \A d : Queued(d, a)' <=> Queued(d, a)
  BY <1>4 DEF Queued
<1>6. QED
  BY <1>2, <1>3, <1>4, <1>5

LEMMA TailIs ==
  ASSUME WorkTypes, NEW a \in Actors, queue[a] # <<>>, queue' = [queue EXCEPT ![a] = Tail(@)]
  PROVE  /\ queue' \in [Actors -> Seq(CallId \cup Actors)]
         /\ \A b \in Actors \ {a} : queue'[b] = queue[b]
         /\ \A d : Queued(d, a)' => Queued(d, a)
         /\ Head(queue[a]) \in CallId \cup Actors
<1>1. queue[a] \in Seq(CallId \cup Actors) /\ queue'[a] = Tail(queue[a])
  BY DEF WorkTypes
<1>2. Tail(queue[a]) \in Seq(CallId \cup Actors) /\ Head(queue[a]) \in CallId \cup Actors
  BY <1>1
<1>3. /\ DOMAIN queue[a] = 1..Len(queue[a]) /\ Len(queue[a]) \in Nat
      /\ DOMAIN queue'[a] = 1..(Len(queue[a]) - 1)
      /\ \A n \in 1..(Len(queue[a]) - 1) : queue'[a][n] = queue[a][n + 1]
  <2> DEFINE q == queue[a]
             T == CallId \cup Actors
  <2>1. q \in Seq(T) /\ q # <<>>
    BY <1>1
  <2> HIDE DEF q, T
  <2>2. /\ DOMAIN q = 1..Len(q) /\ Len(q) \in Nat /\ Len(Tail(q)) = Len(q) - 1
        /\ DOMAIN Tail(q) = 1..Len(Tail(q))
        /\ \A n \in 1..(Len(q) - 1) : Tail(q)[n] = q[n + 1]
    BY <2>1
  <2>3. QED
    BY <1>1, <2>2 DEF q
<1>4. \A n \in 1..(Len(queue[a]) - 1) : n + 1 \in 1..Len(queue[a])
  BY <1>3
<1>5. \A d : Queued(d, a)' => Queued(d, a)
  BY <1>3, <1>4 DEF Queued
<1>6. QED
  BY <1>2, <1>5 DEF WorkTypes

-----------------------------------------------------------------------------
(* The job of a target *)

SameOwner == UNCHANGED <<owner, calls, state, dead>>

\* What a job leaves as it was for every other target.
Keeps(b) ==
  /\ queue'[b] = queue[b] /\ job'[b] = job[b] /\ request'[b] = request[b]
  /\ applied'[b] = applied[b] /\ installed'[b] = installed[b]
  /\ b \in stale' <=> b \in stale
  /\ b \in unsettled' <=> b \in unsettled

LEMMA SameWants ==
  ASSUME SameOwner
  PROVE  /\ WantedSites' = WantedSites
         /\ \A a : Available(a)' <=> Available(a)
         /\ \A s : CallsAbout(s)' = CallsAbout(s)
         /\ \A c : UnderWay(c)' <=> UnderWay(c)
         /\ \A c : CallOK(c) => CallOK(c)'
  BY DEF SameOwner, owner, WantedSites, Available, CallsAbout, UnderWay, CallOK, TakenBack

LEMMA Frame ==
  ASSUME NEW b \in Actors, TargetOK(b), Keeps(b), SameOwner
  PROVE  TargetOK(b)'
<1>1. \A c : Queued(c, b)' <=> Queued(c, b)
  BY DEF Keeps, Queued
<1>2. Confirmed(b)' = Confirmed(b)
  BY DEF Keeps, Confirmed
<1>3. JobOK(b)'
  BY <1>1, SameWants DEF TargetOK, JobOK, Keeps
<1>4. b \notin present' \cup dead' /\ ~closed' => Untouched(b)'
  BY DEF TargetOK, Untouched, Keeps, SameOwner, owner
<1>5. \A s : Answered(s, b)' <=> Answered(s, b)
  BY <1>1, SameWants DEF Answered
<1>6. \A has : Right(has, b)' <=> Right(has, b)
  BY SameWants DEF Right
<1>7. b \in present' => InHand(b)'
  <2>1. SUFFICES ASSUME InHand(b) PROVE InHand(b)'
    BY DEF TargetOK, SameOwner, owner
  <2>2. (installed[b] = IF request[b] = "ok" THEN Confirmed(b) ELSE applied[b])'
    BY <1>2, <2>1 DEF InHand, Keeps
  <2>3. /\ (job[b].pc = "sent" /\ b \notin stale => Right(job[b].wanted, b))'
        /\ (queue[b] = <<>> /\ b \notin unsettled => Right(applied[b], b))'
    BY <1>6, <2>1 DEF InHand, Keeps
  <2>4. (b \notin unsettled =>
           \A s \in Sites \ WantedSites :
             s \in applied[b] \/ (job[b].pc = "sent" /\ s \in job[b].wanted) => Answered(s, b))'
    BY <1>5, <2>1, SameWants DEF InHand, Keeps
  <2>5. QED
    BY <2>2, <2>3, <2>4 DEF InHand
<1>8. QED
  BY <1>3, <1>4, <1>7 DEF TargetOK

\* The rest of a job: the books are right, and what is to come is right or will be redone.
LEMMA AdvanceOK ==
  ASSUME WorkTypes, SameOwner, UNCHANGED installed, NEW a \in present, present \subseteq Actors,
         JobOK(a), queue[a] # <<>>,
         NEW has \in SUBSET Sites, NEW wanted \in SUBSET Sites,
         applied' = [applied EXCEPT ![a] = has], installed[a] = has,
         a \notin stale => Right(wanted, a),
         a \notin unsettled => \A s \in (has \cup wanted) \ WantedSites : Answered(s, a),
         Advance(a, has, wanted)
  PROVE  WorkTypes' /\ TargetOK(a)' /\ \A b \in Actors \ {a} : Keeps(b)
<1>0. /\ a \in Actors /\ a \in present' /\ applied'[a] = has /\ installed'[a] = has
      /\ applied' \in [Actors -> SUBSET Sites] /\ installed' \in [Actors -> SUBSET Sites]
      /\ \A b \in Actors \ {a} : applied'[b] = applied[b] /\ installed'[b] = installed[b]
      /\ NoSite \notin Sites
  BY BreakpointsAssumption DEF WorkTypes, SameOwner, owner
<1>1. ASSUME NEW verb \in {"remove", "set"}, NEW site \in Sites, verb = "set" => site \in wanted,
             Send(a, verb, site, wanted)
      PROVE  WorkTypes' /\ TargetOK(a)' /\ \A b \in Actors \ {a} : Keeps(b)
  <2> DEFINE j == [pc |-> "sent", wanted |-> wanted, site |-> site, verb |-> verb]
  <2>1. /\ job' = [job EXCEPT ![a] = j] /\ request' = [request EXCEPT ![a] = "sent"]
        /\ UNCHANGED <<stale, queue, unsettled, failed>>
    BY <1>1 DEF Send
  <2>2. j \in Jobs /\ j.pc = "sent" /\ j.wanted = wanted /\ j.site = site /\ j.verb = verb
    BY <1>1 DEF Jobs
  <2> HIDE DEF j
  <2>3. job'[a] = j /\ request'[a] = "sent" /\ job' \in [Actors -> Jobs]
        /\ request' \in [Actors -> {"none", "sent", "ok", "error"}]
        /\ \A b \in Actors \ {a} : job'[b] = job[b] /\ request'[b] = request[b]
    BY <1>0, <2>1, <2>2 DEF WorkTypes
  <2>4. WorkTypes'
    BY <1>0, <2>1, <2>2, <2>3 DEF WorkTypes
  <2>5. \A c : Queued(c, a)' <=> Queued(c, a)
    BY <2>1 DEF Queued
  <2>6. JobOK(a)'
    BY <1>1, <2>1, <2>2, <2>3, <2>5, SameWants DEF JobOK
  <2>7. \A s : Answered(s, a)' <=> Answered(s, a)
    BY <2>5, SameWants DEF Answered
  <2>8. InHand(a)'
    <3>1. Right(wanted, a)' <=> Right(wanted, a)
      BY SameWants DEF Right
    <3>2. QED
      BY <1>0, <2>1, <2>2, <2>3, <2>7, <3>1, SameWants DEF InHand
  <2>9. QED
    BY <1>0, <2>1, <2>3, <2>4, <2>6, <2>8 DEF TargetOK, Keeps
<1>2. ASSUME a \in stale, job' = [job EXCEPT ![a] = [NoJob EXCEPT !.pc = "snap"]],
             request' = [request EXCEPT ![a] = "none"], stale' = stale \ {a},
             UNCHANGED <<queue, unsettled, failed>>
      PROVE  WorkTypes' /\ TargetOK(a)' /\ \A b \in Actors \ {a} : Keeps(b)
  <2> DEFINE j == [NoJob EXCEPT !.pc = "snap"]
  <2>2. j \in Jobs /\ j.pc = "snap"
    BY DEF Jobs, NoJob
  <2> HIDE DEF j
  <2>3. job'[a] = j /\ request'[a] = "none" /\ job' \in [Actors -> Jobs]
        /\ request' \in [Actors -> {"none", "sent", "ok", "error"}]
        /\ \A b \in Actors \ {a} : job'[b] = job[b] /\ request'[b] = request[b]
    BY <1>0, <1>2, <2>2 DEF WorkTypes, j
  <2>4. WorkTypes'
    BY <1>0, <1>2, <2>2, <2>3 DEF WorkTypes
  <2>5. \A c : Queued(c, a)' <=> Queued(c, a)
    BY <1>2 DEF Queued
  <2>6. JobOK(a)'
    BY <1>2, <2>2, <2>3, <2>5, SameWants DEF JobOK
  <2>7. \A s : Answered(s, a)' <=> Answered(s, a)
    BY <2>5, SameWants DEF Answered
  <2>8. InHand(a)'
    BY <1>0, <1>2, <2>2, <2>3, <2>7, SameWants DEF InHand
  <2>9. QED
    BY <1>0, <1>2, <2>3, <2>4, <2>6, <2>8 DEF TargetOK, Keeps
<1>3. ASSUME has = wanted, a \notin stale, queue' = [queue EXCEPT ![a] = Tail(@)],
             job' = [job EXCEPT ![a] = NoJob], request' = [request EXCEPT ![a] = "none"],
             unsettled' = unsettled \ {a}, UNCHANGED <<stale, failed>>
      PROVE  WorkTypes' /\ TargetOK(a)' /\ \A b \in Actors \ {a} : Keeps(b)
  <2>1. /\ queue' \in [Actors -> Seq(CallId \cup Actors)]
        /\ \A b \in Actors \ {a} : queue'[b] = queue[b]
        /\ \A d : Queued(d, a)' => Queued(d, a)
    BY <1>0, <1>3, TailIs
  <2>2. NoJob \in Jobs /\ NoJob.pc = "idle"
    BY DEF Jobs, NoJob
  <2>3. job'[a] = NoJob /\ request'[a] = "none" /\ job' \in [Actors -> Jobs]
        /\ request' \in [Actors -> {"none", "sent", "ok", "error"}]
        /\ \A b \in Actors \ {a} : job'[b] = job[b] /\ request'[b] = request[b]
    BY <1>0, <1>3, <2>2 DEF WorkTypes
  <2>4. WorkTypes'
    BY <1>0, <1>3, <2>1, <2>2, <2>3 DEF WorkTypes
  <2>6. JobOK(a)'
    BY <2>1, <2>2, <2>3, SameWants DEF JobOK
  <2>7. Right(has, a)' /\ has \subseteq WantedSites'
    BY <1>3, SameWants DEF Right
  <2>8. InHand(a)'
    BY <1>0, <1>3, <2>2, <2>3, <2>7, SameWants DEF InHand
  <2>9. QED
    BY <1>0, <1>3, <2>1, <2>3, <2>4, <2>6, <2>8 DEF TargetOK, Keeps
<1>4. QED
  BY <1>1, <1>2, <1>3 DEF Advance

\* A job that fails, or whose target went, leaves the books as they are.
LEMMA EndOK ==
  ASSUME WorkTypes, SameOwner, UNCHANGED <<installed, applied, stale>>, NEW a \in Actors,
         TargetOK(a), closed => present = {}, queue[a] # <<>>,
         queue' = [queue EXCEPT ![a] = Tail(@)], job' = [job EXCEPT ![a] = NoJob],
         request' = [request EXCEPT ![a] = "none"],
         \/ Gone(a) /\ failed' = failed /\ unsettled' \in {unsettled, unsettled \ {a}}
         \/ /\ ~Gone(a) /\ request[a] # "ok"
            /\ failed' = failed \cup {Head(queue[a])} /\ unsettled' = unsettled \cup {a}
  PROVE  WorkTypes' /\ TargetOK(a)' /\ \A b \in Actors \ {a} : Keeps(b)
<1>1. /\ queue' \in [Actors -> Seq(CallId \cup Actors)]
      /\ \A b \in Actors \ {a} : queue'[b] = queue[b]
      /\ \A d : Queued(d, a)' => Queued(d, a)
      /\ Head(queue[a]) \in CallId \cup Actors
  BY TailIs
<1>2. NoJob \in Jobs /\ NoJob.pc = "idle"
  BY DEF Jobs, NoJob
<1>3. job'[a] = NoJob /\ request'[a] = "none" /\ job' \in [Actors -> Jobs]
      /\ request' \in [Actors -> {"none", "sent", "ok", "error"}]
      /\ \A b \in Actors \ {a} : job'[b] = job[b] /\ request'[b] = request[b]
  BY <1>2 DEF WorkTypes
<1>4. unsettled' \subseteq Actors /\ failed' \subseteq CallId \cup Actors
      /\ \A b \in Actors \ {a} : b \in unsettled' <=> b \in unsettled
  BY <1>1 DEF WorkTypes
<1>5. WorkTypes'
  BY <1>1, <1>2, <1>3, <1>4 DEF WorkTypes
<1>6. JobOK(a)'
  BY <1>1, <1>2, <1>3, SameWants DEF JobOK, TargetOK
<1>7. ~(a \notin present' \cup dead' /\ ~closed')
  BY DEF TargetOK, Untouched, SameOwner, owner
<1>8. a \in present' => InHand(a)'
  <2>1. SUFFICES ASSUME a \in present PROVE InHand(a)'
    BY DEF SameOwner, owner
  <2>2. ~Gone(a) /\ a \in unsettled' /\ request[a] # "ok"
    BY <2>1 DEF Gone
  <2>3. installed[a] = applied[a]
    BY <2>1, <2>2 DEF TargetOK, InHand
  <2>4. QED
    BY <1>2, <1>3, <2>2, <2>3 DEF InHand
<1>9. \A b \in Actors \ {a} : Keeps(b)
  BY <1>1, <1>3, <1>4 DEF Keeps
<1>10. QED
  BY <1>5, <1>6, <1>7, <1>8, <1>9 DEF TargetOK

JobStepOK(a) == WorkTypes' /\ TargetOK(a)' /\ \A b \in Actors \ {a} : Keeps(b)

LEMMA StartOK ==
  ASSUME WorkTypes, NEW a \in Actors, TargetOK(a), StartJob(a)
  PROVE  SameOwner /\ JobStepOK(a)
<1> DEFINE j == [job[a] EXCEPT !.pc = "snap"]
<1>1. /\ queue[a] # <<>> /\ job[a].pc = "idle" /\ a \in present
      /\ job' = [job EXCEPT ![a] = j] /\ stale' = stale \ {a}
      /\ UNCHANGED <<owner, applied, queue, unsettled, callers, errors, firefox>>
  BY DEF StartJob, Gone, WorkTypes
<1>2. SameOwner
  BY <1>1 DEF SameOwner, callers, firefox
<1>3. j \in Jobs /\ j.pc = "snap"
  BY DEF WorkTypes, Jobs
<1> HIDE DEF j
<1>4. job'[a] = j /\ job' \in [Actors -> Jobs] /\ request' = request /\ installed' = installed
      /\ failed' = failed /\ \A b \in Actors \ {a} : job'[b] = job[b]
  BY <1>1, <1>3 DEF WorkTypes, firefox, callers
<1>5. WorkTypes'
  BY <1>1, <1>3, <1>4 DEF WorkTypes
<1>6. \A c : Queued(c, a)' <=> Queued(c, a)
  BY <1>1 DEF Queued
<1>7. \A s : Answered(s, a)' <=> Answered(s, a)
  BY <1>2, <1>6, SameWants DEF Answered
<1>8. JobOK(a)'
  BY <1>1, <1>2, <1>3, <1>4, <1>6, SameWants DEF JobOK, TargetOK
<1>9. InHand(a)'
  <2>1. request[a] = "none" /\ InHand(a)
    BY <1>1 DEF WorkTypes, TargetOK
  <2>2. QED
    BY <1>1, <1>2, <1>3, <1>4, <1>7, <2>1, SameWants DEF InHand
<1>10. a \in present' /\ \A b \in Actors \ {a} : Keeps(b)
  BY <1>1, <1>4 DEF Keeps, owner
<1>11. QED
  BY <1>2, <1>5, <1>8, <1>9, <1>10 DEF TargetOK, JobStepOK

LEMMA LeaveOK ==
  ASSUME WorkTypes, NEW a \in Actors, TargetOK(a), closed => present = {}, LeaveJob(a)
  PROVE  SameOwner /\ JobStepOK(a)
<1>1. /\ queue[a] # <<>> /\ job[a].pc # "sent" /\ Gone(a) /\ SettleJob(a, FALSE)
      /\ UNCHANGED <<owner, stale, calls, state, errors, installed, dead>>
  BY DEF LeaveJob
<1>2. SameOwner
  BY <1>1 DEF SameOwner
<1>3. request' = [request EXCEPT ![a] = "none"]
  BY <1>1 DEF SettleJob, WorkTypes
<1>4. JobStepOK(a)
  BY <1>1, <1>2, <1>3, EndOK DEF SettleJob, JobStepOK
<1>5. QED
  BY <1>2, <1>4

LEMMA SnapFailsOK ==
  ASSUME WorkTypes, NEW a \in Actors, TargetOK(a), closed => present = {}, SnapFails(a)
  PROVE  SameOwner /\ JobStepOK(a)
<1>1. /\ job[a].pc = "snap" /\ ~Gone(a) /\ SettleJob(a, TRUE)
      /\ UNCHANGED <<owner, stale, calls, state, installed, dead>>
  BY DEF SnapFails
<1>2. SameOwner
  BY <1>1 DEF SameOwner
<1>3. request' = [request EXCEPT ![a] = "none"] /\ queue[a] # <<>> /\ request[a] # "ok"
  BY <1>1 DEF SettleJob, WorkTypes, TargetOK, JobOK
<1>4. JobStepOK(a)
  BY <1>1, <1>2, <1>3, EndOK DEF SettleJob, JobStepOK
<1>5. QED
  BY <1>2, <1>4

\* A site that is being kept or set, and is not wanted any more, has a call to answer for it.
LEMMA SnappedOK ==
  ASSUME OwnerTypes, WorkTypes, NEW a \in Actors, TargetOK(a), closed => present = {}, Snapped(a)
  PROVE  SameOwner /\ JobStepOK(a)
<1> DEFINE wanted == IF Available(a) THEN WantedSites ELSE {}
<1>1. /\ job[a].pc = "snap" /\ a \in present /\ ~closed /\ NoSite \notin wanted
      /\ applied' = applied /\ installed' = installed
      /\ UNCHANGED <<owner, calls, state, errors, dead>>
  BY DEF Snapped, Gone
<1>2. SameOwner
  BY <1>1 DEF SameOwner
<1>3. WantedSites \subseteq Sites \cup {NoSite}
  BY BreakpointsAssumption DEF WantedSites
<1>4. wanted \in SUBSET Sites /\ Right(wanted, a) /\ wanted \subseteq WantedSites
  BY <1>1, <1>3 DEF Right
<1> HIDE DEF wanted
<1>5. queue[a] # <<>> /\ request[a] = "none" /\ InHand(a) /\ JobOK(a) /\ applied[a] \in SUBSET Sites
  BY <1>1 DEF TargetOK, JobOK, WorkTypes
<1>6. CASE a \in stale
  <2>1. stale' = stale \ {a} /\ UNCHANGED <<job, request, queue, unsettled, failed>>
    BY <1>6 DEF Snapped
  <2>2. WorkTypes'
    BY <1>1, <2>1 DEF WorkTypes
  <2>3. \A c : Queued(c, a)' <=> Queued(c, a)
    BY <2>1 DEF Queued
  <2>4. \A s : Answered(s, a)' <=> Answered(s, a)
    BY <1>2, <2>3, SameWants DEF Answered
  <2>5. JobOK(a)'
    BY <1>2, <1>5, <2>1, <2>3, SameWants DEF JobOK
  <2>6. InHand(a)'
    BY <1>1, <1>2, <1>5, <2>1, <2>4, SameWants DEF InHand
  <2>7. a \in present' /\ \A b \in Actors \ {a} : Keeps(b)
    BY <1>1, <2>1 DEF Keeps, owner
  <2>8. QED
    BY <1>2, <2>2, <2>5, <2>6, <2>7 DEF TargetOK, JobStepOK
<1>7. CASE a \notin stale
  <2>1. Advance(a, applied[a], wanted)
    BY <1>7 DEF Snapped, wanted
  <2>2. applied' = [applied EXCEPT ![a] = applied[a]]
    BY <1>1 DEF WorkTypes
  <2>3. installed[a] = applied[a]
    BY <1>5 DEF InHand
  <2>4. a \notin unsettled => \A s \in (applied[a] \cup wanted) \ WantedSites : Answered(s, a)
    BY <1>4, <1>5 DEF InHand
  <2>5. QED
    BY <1>1, <1>2, <1>4, <1>5, <2>1, <2>2, <2>3, <2>4, AdvanceOK DEF JobStepOK, OwnerTypes
<1>8. QED
  BY <1>6, <1>7

LEMMA ReplyOK ==
  ASSUME OwnerTypes, WorkTypes, NEW a \in Actors, TargetOK(a), closed => present = {}, Reply(a)
  PROVE  SameOwner /\ JobStepOK(a)
<1>1. job[a].pc = "sent" /\ UNCHANGED <<owner, calls, state, errors, installed, dead>>
      /\ queue[a] # <<>> /\ JobOK(a)
  BY DEF Reply, TargetOK, JobOK
<1>2. SameOwner
  BY <1>1 DEF SameOwner
<1>3. CASE request[a] = "ok" /\ ~Gone(a)
  <2>1. applied' = [applied EXCEPT ![a] = Confirmed(a)] /\ Advance(a, Confirmed(a), job[a].wanted)
    BY <1>3 DEF Reply
  <2>2. a \in present /\ InHand(a) /\ applied[a] \in SUBSET Sites /\ job[a].wanted \in SUBSET Sites
        /\ job[a].site \in Sites
    BY <1>1, <1>3 DEF Gone, TargetOK, WorkTypes, Jobs, JobOK
  <2>3. Confirmed(a) \in SUBSET Sites /\ installed[a] = Confirmed(a)
        /\ Confirmed(a) \subseteq applied[a] \cup job[a].wanted
    BY <1>1, <1>3, <2>2 DEF Confirmed, InHand, JobOK
  <2>4. a \notin stale => Right(job[a].wanted, a)
    BY <1>1, <2>2 DEF InHand
  <2>5. a \notin unsettled =>
          \A s \in (Confirmed(a) \cup job[a].wanted) \ WantedSites : Answered(s, a)
    BY <1>1, <2>2, <2>3 DEF InHand
  <2>6. QED
    BY <1>1, <1>2, <2>1, <2>2, <2>3, <2>4, <2>5, AdvanceOK DEF JobStepOK, OwnerTypes
<1>4. CASE request[a] = "error" \/ (request[a] = "ok" /\ Gone(a))
  <2>1. /\ queue' = [queue EXCEPT ![a] = Tail(@)]
        /\ job' = [job EXCEPT ![a] = NoJob]
        /\ request' = [request EXCEPT ![a] = "none"]
        /\ IF Gone(a) THEN UNCHANGED <<failed, unsettled>>
           ELSE failed' = failed \cup {Head(queue[a])} /\ unsettled' = unsettled \cup {a}
        /\ UNCHANGED <<applied, stale>>
    BY <1>4 DEF Reply
  <2>2. \/ Gone(a) /\ failed' = failed /\ unsettled' \in {unsettled, unsettled \ {a}}
        \/ /\ ~Gone(a) /\ request[a] # "ok"
           /\ failed' = failed \cup {Head(queue[a])} /\ unsettled' = unsettled \cup {a}
    BY <1>4, <2>1
  <2>3. QED
    BY <1>1, <1>2, <2>1, <2>2, EndOK DEF JobStepOK
<1>5. QED
  BY <1>3, <1>4 DEF Reply

LEMMA AnswerOK ==
  ASSUME WorkTypes, NEW a \in Actors, TargetOK(a), FirefoxAnswers(a)
  PROVE  SameOwner /\ JobStepOK(a)
<1>1. request[a] = "sent" /\ job[a].pc = "sent" /\ UNCHANGED <<owner, work, callers, dead>>
  BY DEF FirefoxAnswers, WorkTypes
<1>2. SameOwner
  BY <1>1 DEF SameOwner, callers
<1>3. \/ installed' = [installed EXCEPT ![a] = IF job[a].verb = "set" THEN @ \cup {job[a].site}
                                                                    ELSE @ \ {job[a].site}]
         /\ request' = [request EXCEPT ![a] = "ok"]
      \/ installed' = installed /\ request' = [request EXCEPT ![a] = "error"]
  BY DEF FirefoxAnswers
<1>4. JobOK(a) /\ job[a].site \in Sites /\ applied[a] \in SUBSET Sites /\ installed[a] \in SUBSET Sites
  BY <1>1 DEF TargetOK, JobOK, WorkTypes
<1>5. UNCHANGED <<applied, stale, queue, job, unsettled, failed>>
  BY <1>1 DEF work, callers
<1>6. Confirmed(a)' = Confirmed(a)
  BY <1>5 DEF Confirmed
<1>7. /\ request' \in [Actors -> {"none", "sent", "ok", "error"}] /\ request'[a] \in {"ok", "error"}
      /\ installed' \in [Actors -> SUBSET Sites]
      /\ \A b \in Actors \ {a} : request'[b] = request[b] /\ installed'[b] = installed[b]
  <2>1. CASE installed' = installed /\ request' = [request EXCEPT ![a] = "error"]
    BY <2>1 DEF WorkTypes
  <2>2. ASSUME NEW has \in SUBSET Sites, installed' = [installed EXCEPT ![a] = has],
               request' = [request EXCEPT ![a] = "ok"]
        PROVE  <1>7!:
    BY <2>2 DEF WorkTypes
  <2>3. QED
    BY <1>3, <1>4, <2>1, <2>2
<1>8. WorkTypes'
  BY <1>1, <1>5, <1>7 DEF WorkTypes
<1>9. \A c : Queued(c, a)' <=> Queued(c, a)
  BY <1>5 DEF Queued
<1>10. \A s : Answered(s, a)' <=> Answered(s, a)
  BY <1>2, <1>9, SameWants DEF Answered
<1>11. JobOK(a)'
  BY <1>2, <1>4, <1>5, <1>9, SameWants DEF JobOK
<1>12. a \in present => InHand(a)'
  <2>1. SUFFICES ASSUME a \in present, InHand(a) PROVE InHand(a)'
    BY DEF TargetOK
  <2>2. (installed[a] = IF request[a] = "ok" THEN Confirmed(a) ELSE applied[a])'
    <3>1. installed[a] = applied[a]
      BY <1>1, <2>1 DEF InHand
    <3>2. QED
      BY <1>3, <1>5, <1>6, <3>1 DEF Confirmed, WorkTypes
  <2>3. Right(job[a].wanted, a)' <=> Right(job[a].wanted, a)
    BY <1>2, <1>5, SameWants DEF Right
  <2>4. Right(applied[a], a)' <=> Right(applied[a], a)
    BY <1>2, <1>5, SameWants DEF Right
  <2>5. QED
    BY <1>2, <1>5, <1>10, <2>1, <2>2, <2>3, <2>4, SameWants DEF InHand
<1>13. a \notin present' \cup dead' /\ ~closed' => Untouched(a)'
  BY <1>1, <1>4 DEF TargetOK, Untouched, JobOK, owner
<1>14. \A b \in Actors \ {a} : Keeps(b)
  BY <1>5, <1>7 DEF Keeps
<1>15. QED
  BY <1>1, <1>2, <1>8, <1>11, <1>12, <1>13, <1>14 DEF TargetOK, JobStepOK, owner

-----------------------------------------------------------------------------
(* The calls of LLDB and the session *)

\* Whoever changes what is wanted, or what a target knows, leaves a job with every target it
\* concerns, and takes its running one to be stale.
LEMMA RequeueOK ==
  ASSUME WorkTypes, \A a \in Actors : TargetOK(a),
         NEW c \in CallId \cup Actors, NEW S \in SUBSET present', present' \subseteq Actors,
         present \subseteq present', Enqueue(c, S),
         UNCHANGED <<applied, job, unsettled, request, installed, dead, closed>>,
         failed' \subseteq CallId \cup Actors, stale' \subseteq Actors,
         \A a \in present' \ present : a \in S /\ a \notin dead /\ ~closed,
         \A a \in S \cap present : a \in stale',
         \A a \in present \ S : /\ a \in stale => a \in stale'
                               /\ WantedSites' = WantedSites /\ (Available(a)' => Available(a)),
         \A s \in WantedSites \ WantedSites' : c \in CallsAbout(s)',
         c \in CallId => UnderWay(c)',
         \A d \in CallId : UnderWay(d) => calls'[d] = calls[d] /\ UnderWay(d)'
  PROVE  WorkTypes' /\ \A a \in Actors : TargetOK(a)'
<1>1. S \in SUBSET Actors
  OBVIOUS
<1>2. /\ queue' \in [Actors -> Seq(CallId \cup Actors)]
      /\ \A a \in S : queue'[a] # <<>> /\ Queued(c, a)'
      /\ \A a \in Actors \ S : queue'[a] = queue[a]
      /\ \A a \in Actors : queue[a] # <<>> => queue'[a] # <<>>
      /\ \A a \in Actors : \A d : Queued(d, a) => Queued(d, a)'
      /\ \A a \in Actors : \A d : Queued(d, a)' => Queued(d, a) \/ (d = c /\ a \in S)
  BY <1>1, EnqueueIs
<1>3. WorkTypes'
  BY <1>2 DEF WorkTypes
<1>4. ASSUME NEW a \in Actors PROVE TargetOK(a)'
  <2>1. TargetOK(a)
    OBVIOUS
  <2>2. JobOK(a)'
    BY <1>2, <2>1 DEF TargetOK, JobOK
  <2>3. a \notin present' \cup dead' /\ ~closed' => Untouched(a)'
    <3>1. SUFFICES ASSUME a \notin present', a \notin dead, ~closed PROVE Untouched(a)'
      OBVIOUS
    <3>2. queue'[a] = queue[a] /\ a \notin present
      BY <1>2, <3>1
    <3>3. QED
      BY <2>1, <3>1, <3>2 DEF TargetOK, Untouched
  <2>4. Confirmed(a)' = Confirmed(a)
    BY DEF Confirmed
  <2>5. ASSUME NEW s, Answered(s, a) PROVE Answered(s, a)'
    <3>1. PICK d \in CallsAbout(s) : Queued(d, a)
      BY <2>5 DEF Answered
    <3>2. d \in CallId /\ UnderWay(d) /\ Queued(d, a)'
      BY <1>2, <2>1, <3>1 DEF TargetOK, JobOK, CallsAbout
    <3>3. d \in CallsAbout(s)'
      BY <3>1, <3>2 DEF CallsAbout
    <3>4. QED
      BY <3>2, <3>3 DEF Answered
  <2>6. CASE a \in S /\ a \in present
    <3>1. InHand(a) /\ a \in stale' /\ queue'[a] # <<>> /\ a \in present'
      BY <1>2, <2>1, <2>6 DEF TargetOK
    <3>2. \A s \in WantedSites \ WantedSites' : Answered(s, a)'
      BY <1>2, <2>6 DEF Answered
    <3>3. InHand(a)'
      BY <2>4, <2>5, <3>1, <3>2 DEF InHand
    <3>4. QED
      BY <2>2, <2>3, <3>3 DEF TargetOK
  <2>7. CASE a \in S /\ a \notin present
    <3>1. Untouched(a) /\ job[a].pc = "idle" /\ request[a] = "none" /\ queue'[a] # <<>>
      BY <1>2, <2>1, <2>7 DEF TargetOK, JobOK, Untouched, WorkTypes, Jobs
    <3>2. InHand(a)'
      BY <3>1 DEF InHand, Untouched
    <3>3. QED
      BY <2>2, <2>3, <3>2 DEF TargetOK
  <2>8. CASE a \notin S /\ a \in present
    <3>1. InHand(a) /\ queue'[a] = queue[a] /\ (a \in stale => a \in stale')
          /\ WantedSites' = WantedSites /\ (Available(a)' => Available(a))
      BY <1>2, <2>1, <2>8 DEF TargetOK
    <3>2. /\ Right(job[a].wanted, a) => Right(job[a].wanted, a)'
          /\ Right(applied[a], a) => Right(applied[a], a)'
      BY <3>1 DEF Right
    <3>3. InHand(a)'
      BY <2>4, <2>5, <3>1, <3>2 DEF InHand
    <3>4. QED
      BY <2>2, <2>3, <3>3 DEF TargetOK
  <2>9. CASE a \notin S /\ a \notin present
    <3>1. a \notin present'
      BY <2>9
    <3>2. QED
      BY <2>2, <2>3, <3>1 DEF TargetOK
  <2>10. QED
    BY <2>6, <2>7, <2>8, <2>9
<1>5. QED
  BY <1>3, <1>4

LEMMA WantedIs ==
  /\ \A s : s \in WantedSites <=> \E x \in Keys : desired[x] # NoCall /\ s = SiteOf[x]
  /\ \A s : s \in WantedSites' <=> \E x \in Keys : desired'[x] # NoCall /\ s = SiteOf[x]
BY DEF WantedSites

LEMMA CallStep ==
  ASSUME Inv, NEW c \in CallId, NEW k \in Keys, Set(c, k) \/ Remove(c, k)
  PROVE  Inv'
<1>1. PICK kind \in {"set", "remove"}, holder \in {c, NoCall} :
        Call(c, kind, k, holder) /\ (kind = "remove" => holder = NoCall)
  BY DEF Set, Remove
<1> DEFINE new == [kind |-> kind, key |-> k]
<1>2. /\ ~closed /\ ~UnderWay(c)
      /\ calls' = [calls EXCEPT ![c] = new] /\ state' = [state EXCEPT ![c] = "working"]
      /\ failed' = failed \ {c} /\ desired' = [desired EXCEPT ![k] = holder]
      /\ stale' = present /\ Enqueue(c, present)
      /\ UNCHANGED <<present, adopted, sources, closed, applied, job, unsettled, errors, firefox>>
  BY <1>1 DEF Call, UnderWay
<1>3. new \in [kind : {"none", "set", "remove"}, key : Keys \cup {NoKey}]
      /\ new.kind = kind /\ new.key = k /\ kind # "none"
  OBVIOUS
<1> HIDE DEF new
<1>4. UNCHANGED <<request, installed, dead>> /\ OwnerTypes /\ WorkTypes /\ Sound
  BY <1>2 DEF firefox, Inv
<1>5. /\ calls'[c] = new /\ state'[c] = "working" /\ desired'[k] = holder
      /\ \A d \in CallId \ {c} : calls'[d] = calls[d] /\ state'[d] = state[d]
      /\ \A x \in Keys \ {k} : desired'[x] = desired[x]
      /\ NoCall \notin CallId
  BY <1>2, <1>4, BreakpointsAssumption DEF OwnerTypes
<1>6. OwnerTypes'
  BY <1>2, <1>3, <1>4, <1>5 DEF OwnerTypes
<1>7. WorkTypes' /\ \A a \in Actors : TargetOK(a)'
  <2>1. failed' \subseteq CallId \cup Actors /\ stale' \subseteq Actors /\ present' \subseteq Actors
    BY <1>2, <1>4 DEF OwnerTypes, WorkTypes
  <2>2. \A s \in WantedSites \ WantedSites' : c \in CallsAbout(s)'
    <3>1. ASSUME NEW x \in Keys, desired[x] # NoCall, SiteOf[x] \notin WantedSites' PROVE x = k
      BY <1>5, <3>1, WantedIs
    <3>2. QED
      BY <1>3, <1>5, <3>1, WantedIs DEF CallsAbout
  <2>3. UnderWay(c)' /\ \A d \in CallId : UnderWay(d) => calls'[d] = calls[d] /\ UnderWay(d)'
    BY <1>2, <1>5 DEF UnderWay
  <2>4. QED
    BY <1>2, <1>4, <2>1, <2>2, <2>3, RequeueOK DEF Sound
<1>8. \A d \in CallId : CallOK(d)'
  <2>1. CallOK(c)'
    BY <1>1, <1>3, <1>5 DEF CallOK, TakenBack
  <2>2. ASSUME NEW d \in CallId \ {c} PROVE CallOK(d)'
    <3>1. CallOK(d) /\ (state[d] # "idle" => calls[d].key \in Keys)
      BY <1>4 DEF Sound, OwnerTypes
    <3>2. TakenBack(d)' => TakenBack(d) /\ calls[d].key \in Keys
      BY <1>5, <3>1 DEF TakenBack
    <3>3. \A x \in Keys : desired[x] # d => desired'[x] # d
      BY <1>5
    <3>4. QED
      BY <1>5, <3>1, <3>2, <3>3 DEF CallOK
  <2>3. QED
    BY <2>1, <2>2
<1>9. QED
  BY <1>2, <1>4, <1>6, <1>7, <1>8 DEF Inv, Sound

LEMMA RollBackStep ==
  ASSUME Inv, NEW c \in CallId, RollBack(c)
  PROVE  Inv'
<1> DEFINE k == calls[c].key
<1>1. /\ calls[c].kind = "set" /\ state[c] = "working" /\ Settled(c)
      /\ state' = [state EXCEPT ![c] = "rolling back"] /\ desired' = [desired EXCEPT ![k] = NoCall]
      /\ stale' = present /\ Enqueue(c, present)
      /\ UNCHANGED <<present, adopted, sources, closed, applied, job, unsettled, calls, failed, errors,
                     firefox>>
  BY DEF RollBack, Awaiting
<1>2. UNCHANGED <<request, installed, dead>> /\ OwnerTypes /\ WorkTypes /\ Sound
  BY <1>1 DEF firefox, Inv
<1>3. k \in Keys
  BY <1>1, <1>2 DEF OwnerTypes
<1>4. /\ state'[c] = "rolling back" /\ desired'[k] = NoCall
      /\ \A d \in CallId \ {c} : state'[d] = state[d]
      /\ \A x \in Keys \ {k} : desired'[x] = desired[x]
      /\ NoCall \notin CallId
  BY <1>1, <1>2, <1>3, BreakpointsAssumption DEF OwnerTypes
<1>5. OwnerTypes'
  BY <1>1, <1>2, <1>3, <1>4 DEF OwnerTypes
<1>6. WorkTypes' /\ \A a \in Actors : TargetOK(a)'
  <2>1. failed' \subseteq CallId \cup Actors /\ stale' \subseteq Actors /\ present' \subseteq Actors
    BY <1>1, <1>2 DEF OwnerTypes, WorkTypes
  <2>2. \A s \in WantedSites \ WantedSites' : c \in CallsAbout(s)'
    <3>1. ASSUME NEW x \in Keys, desired[x] # NoCall, SiteOf[x] \notin WantedSites' PROVE x = k
      BY <1>4, <3>1, WantedIs
    <3>2. \A s \in WantedSites \ WantedSites' : s = SiteOf[k]
      BY <3>1, WantedIs
    <3>3. \A s : s = SiteOf[k] => c \in CallsAbout(s)'
      BY <1>1 DEF CallsAbout
    <3>4. QED
      BY <3>2, <3>3
  <2>3. UnderWay(c)' /\ \A d \in CallId : UnderWay(d) => calls'[d] = calls[d] /\ UnderWay(d)'
    BY <1>1, <1>4 DEF UnderWay
  <2>4. QED
    BY <1>1, <1>2, <2>1, <2>2, <2>3, RequeueOK DEF Sound
<1>7. \A d \in CallId : CallOK(d)'
  <2>1. CallOK(c)'
    BY <1>1, <1>4 DEF CallOK, TakenBack
  <2>2. ASSUME NEW d \in CallId \ {c} PROVE CallOK(d)'
    <3>1. CallOK(d) /\ (state[d] # "idle" => calls[d].key \in Keys)
      BY <1>2 DEF Sound, OwnerTypes
    <3>2. QED
      BY <1>1, <1>4, <3>1 DEF CallOK, TakenBack
  <2>3. QED
    BY <2>1, <2>2
<1>8. QED
  BY <1>1, <1>2, <1>5, <1>6, <1>7 DEF Inv, Sound

\* A call returns with nothing of it left in a queue.
LEMMA ReturnStep ==
  ASSUME Inv, NEW c \in CallId,
         NEW verdict \in {"installed", "deferred", "superseded", "rejected", "removed"},
         Return(c, verdict), Settled(c),
         verdict \notin {"installed", "deferred"} => desired[calls[c].key] # c, calls[c].kind # "none"
  PROVE  Inv'
<1>1. /\ state' = [state EXCEPT ![c] = verdict]
      /\ UNCHANGED <<owner, work, calls, failed, errors, firefox>>
  BY DEF Return
<1>2. /\ OwnerTypes /\ WorkTypes /\ Sound
      /\ UNCHANGED <<desired, present, adopted, sources, closed>>
      /\ UNCHANGED <<applied, stale, queue, job, unsettled, request, installed, dead>>
  BY <1>1 DEF owner, work, firefox, Inv
<1>3. state'[c] = verdict /\ \A d \in CallId \ {c} : state'[d] = state[d]
  BY <1>1, <1>2 DEF OwnerTypes
<1>4. OwnerTypes'
  BY <1>1, <1>2, <1>3 DEF OwnerTypes
<1>5. WorkTypes'
  BY <1>1, <1>2 DEF WorkTypes
<1>6. ASSUME NEW a \in Actors PROVE TargetOK(a)'
  <2>1. /\ TargetOK(a) /\ Confirmed(a)' = Confirmed(a)
        /\ \A d : Queued(d, a)' <=> Queued(d, a)
        /\ \A has : Right(has, a)' <=> Right(has, a)
        /\ WantedSites' = WantedSites
    BY <1>2 DEF Sound, Confirmed, Queued, Right, Available, WantedSites
  <2>2. JobOK(a)'
    <3>1. \A d \in CallId : Queued(d, a) => d # c
      BY DEF Settled, Queued
    <3>2. \A d \in CallId : Queued(d, a)' => UnderWay(d)'
      BY <1>3, <2>1, <3>1 DEF TargetOK, JobOK, UnderWay
    <3>3. QED
      BY <1>2, <2>1, <3>2 DEF TargetOK, JobOK
  <2>3. \A s : Answered(s, a)' <=> Answered(s, a)
    BY <1>1, <2>1 DEF Answered, CallsAbout
  <2>4. InHand(a) => InHand(a)'
    BY <1>2, <2>1, <2>3 DEF InHand
  <2>5. QED
    BY <1>2, <2>1, <2>2, <2>4 DEF TargetOK, Untouched
<1>7. ASSUME NEW d \in CallId PROVE CallOK(d)'
  BY <1>1, <1>2, <1>3 DEF Sound, CallOK, TakenBack
<1>8. QED
  BY <1>2, <1>4, <1>5, <1>6, <1>7 DEF Inv, Sound

LEMMA CallReturnsStep ==
  ASSUME Inv, NEW c \in CallId, CallReturns(c)
  PROVE  Inv'
<1>1. CASE RollBack(c)
  BY <1>1, RollBackStep
<1>2. CASE SetFails(c)
  <2>1. PICK verdict \in {"rejected", "superseded"} :
          Return(c, verdict) /\ Settled(c) /\ calls[c].kind = "set"
            /\ (state[c] = "rolling back" \/ desired[calls[c].key] # c)
    BY <1>2 DEF SetFails, Awaiting
  <2>2. desired[calls[c].key] # c
    BY <2>1 DEF Inv, Sound, CallOK, TakenBack
  <2>3. QED
    BY <2>1, <2>2, ReturnStep
<1>3. CASE SetReturns(c)
  <2>1. PICK verdict \in {"installed", "deferred"} :
          Return(c, verdict) /\ Settled(c) /\ calls[c].kind = "set"
    BY <1>3 DEF SetReturns, Awaiting
  <2>2. QED
    BY <2>1, ReturnStep
<1>4. CASE RemoveReturns(c)
  <2>1. PICK verdict \in {"rejected", "removed"} :
          Return(c, verdict) /\ Settled(c) /\ calls[c].kind = "remove" /\ state[c] = "working"
    BY <1>4 DEF RemoveReturns, Awaiting
  <2>2. desired[calls[c].key] # c
    BY <2>1 DEF Inv, Sound, CallOK, TakenBack
  <2>3. QED
    BY <2>1, <2>2, ReturnStep
<1>5. QED
  BY <1>1, <1>2, <1>3, <1>4 DEF CallReturns

\* A target or source that comes changes what some targets know, and nothing that is wanted.
LEMMA NewsStep ==
  ASSUME Inv, NEW a \in Actors,
         (\E page \in BOOLEAN : AddTarget(a, page)) \/ AdoptTarget(a) \/ AnnounceSource(a)
  PROVE  Inv'
<1>1. PICK S \in {{a}, present} :
        /\ Enqueue(a, S) /\ ~closed
        /\ UNCHANGED <<desired, closed, applied, job, unsettled, callers, errors, firefox>>
        /\ \/ /\ S = {a} /\ a \notin present \cup dead /\ present' = present \cup {a}
              /\ adopted' \in {adopted, adopted \cup {a}} /\ UNCHANGED <<sources, stale>>
           \/ /\ S = {a} /\ a \in present \ adopted /\ adopted' = adopted \cup {a}
              /\ stale' = stale \cup {a} /\ UNCHANGED <<present, sources>>
           \/ /\ S = present /\ a \in adopted /\ sources' = sources \cup {a} /\ stale' = present
              /\ UNCHANGED <<present, adopted>>
  BY DEF AddTarget, AdoptTarget, AnnounceSource
<1>2. /\ OwnerTypes /\ WorkTypes /\ Sound
      /\ UNCHANGED <<calls, state, failed, request, installed, dead>>
  BY <1>1 DEF callers, firefox, Inv
<1>3. OwnerTypes'
  BY <1>1, <1>2 DEF OwnerTypes
<1>4. WantedSites' = WantedSites
  BY <1>1 DEF WantedSites
<1>5. \A b \in present \ S : Available(b)' => Available(b)
  BY <1>1, <1>2 DEF Available, OwnerTypes
<1>6. /\ S \in SUBSET present' /\ present' \subseteq Actors /\ present \subseteq present'
      /\ stale' \subseteq Actors /\ failed' \subseteq CallId \cup Actors
      /\ \A b \in present' \ present : b \in S /\ b \notin dead /\ ~closed
      /\ \A b \in S \cap present : b \in stale'
      /\ \A b \in present \ S : b \in stale => b \in stale'
  BY <1>1, <1>2 DEF OwnerTypes, WorkTypes
<1>7. a \notin CallId
  BY BreakpointsAssumption
<1>8. \A d \in CallId : UnderWay(d) => calls'[d] = calls[d] /\ UnderWay(d)'
  BY <1>2 DEF UnderWay
<1>9. /\ \A b \in present \ S : /\ b \in stale => b \in stale'
                               /\ WantedSites' = WantedSites /\ (Available(b)' => Available(b))
      /\ UNCHANGED <<applied, job, unsettled, request, installed, dead, closed>>
  BY <1>1, <1>2, <1>4, <1>5, <1>6
<1>10. WorkTypes' /\ \A b \in Actors : TargetOK(b)'
  <2>1. \A b \in Actors : TargetOK(b)
    BY <1>2 DEF Sound
  <2>2. WantedSites \ WantedSites' = {}
    BY <1>4
  <2>3. QED
    BY <1>1, <1>2, <1>6, <1>7, <1>8, <1>9, <2>1, <2>2, RequeueOK
<1>11. \A d \in CallId : CallOK(d)'
  BY <1>1, <1>2 DEF Sound, CallOK, TakenBack
<1>12. QED
  BY <1>1, <1>2, <1>3, <1>10, <1>11 DEF Inv, Sound

\* A source that goes takes nothing away from what is right.
LEMMA TargetGoesStep ==
  ASSUME Inv, NEW a \in Actors, RemoveTarget(a) \/ FirefoxDestroys(a)
  PROVE  Inv'
<1>1. /\ present' \subseteq present /\ adopted' \subseteq adopted /\ sources' \subseteq sources
      /\ dead \subseteq dead' /\ dead' \subseteq Actors /\ present \ present' \subseteq dead
      /\ adopted' \subseteq present' /\ sources' \subseteq adopted'
      /\ UNCHANGED <<desired, closed, work, callers, errors, request, installed>>
  BY DEF RemoveTarget, FirefoxDestroys, Inv, OwnerTypes, owner, firefox
<1>2. /\ OwnerTypes /\ WorkTypes /\ Sound
      /\ UNCHANGED <<applied, stale, queue, job, unsettled, calls, state, failed>>
  BY <1>1 DEF Inv, work, callers
<1>3. OwnerTypes'
  BY <1>1, <1>2 DEF OwnerTypes
<1>4. WorkTypes'
  BY <1>1, <1>2 DEF WorkTypes
<1>5. ASSUME NEW b \in Actors PROVE TargetOK(b)'
  <2>1. /\ TargetOK(b) /\ Confirmed(b)' = Confirmed(b) /\ WantedSites' = WantedSites
        /\ \A d : Queued(d, b)' <=> Queued(d, b)
        /\ \A d : UnderWay(d)' <=> UnderWay(d)
    BY <1>1, <1>2 DEF Sound, Confirmed, WantedSites, Queued, UnderWay
  <2>2. Available(b)' => Available(b)
    BY <1>1 DEF Available
  <2>3. \A has : Right(has, b) => Right(has, b)'
    BY <2>1, <2>2 DEF Right
  <2>4. \A s : Answered(s, b)' <=> Answered(s, b)
    BY <1>2, <2>1 DEF Answered, CallsAbout
  <2>5. JobOK(b)'
    BY <1>2, <2>1 DEF TargetOK, JobOK
  <2>6. InHand(b) => InHand(b)'
    <3>1. Right(job[b].wanted, b) => Right(job[b].wanted, b)'
      BY <1>2, <2>3
    <3>2. Right(applied[b], b) => Right(applied[b], b)'
      BY <1>2, <2>3
    <3>3. QED
      BY <1>1, <1>2, <2>1, <2>4, <3>1, <3>2 DEF InHand
  <2>7. b \notin present' \cup dead' /\ ~closed' => Untouched(b)'
    BY <1>1, <1>2, <2>1 DEF TargetOK, Untouched
  <2>8. QED
    BY <1>1, <2>1, <2>5, <2>6, <2>7 DEF TargetOK
<1>6. \A d \in CallId : CallOK(d)'
  BY <1>1, <1>2 DEF Sound, CallOK, TakenBack
<1>7. QED
  BY <1>1, <1>2, <1>3, <1>4, <1>5, <1>6 DEF Inv, Sound

LEMMA CloseStep ==
  ASSUME Inv, CloseOwner
  PROVE  Inv'
<1>1. /\ closed' = TRUE /\ present' = {} /\ adopted' = {} /\ sources' = {}
      /\ desired' = [k \in Keys |-> NoCall]
      /\ request' = [a \in Actors |-> IF request[a] = "none" THEN "none" ELSE "error"]
      /\ UNCHANGED <<applied, stale, queue, job, unsettled, calls, state, failed, errors, installed, dead>>
  BY DEF CloseOwner, work, callers
<1>2. OwnerTypes /\ WorkTypes /\ Sound
  BY DEF Inv
<1>3. OwnerTypes'
  BY <1>1, <1>2 DEF OwnerTypes
<1>4. WorkTypes'
  BY <1>1, <1>2 DEF WorkTypes
<1>5. ASSUME NEW b \in Actors PROVE TargetOK(b)'
  <2>1. JobOK(b)'
    BY <1>1, <1>2 DEF Sound, TargetOK, JobOK, Queued, UnderWay
  <2>2. QED
    BY <1>1, <2>1 DEF TargetOK
<1>6. ASSUME NEW c \in CallId PROVE CallOK(c)'
  <2>1. TakenBack(c)' => calls'[c].key \in Keys
    BY <1>1, <1>2 DEF TakenBack, OwnerTypes
  <2>2. c # NoCall
    BY BreakpointsAssumption
  <2>3. QED
    BY <1>1, <2>1, <2>2 DEF CallOK
<1>7. QED
  BY <1>1, <1>3, <1>4, <1>5, <1>6 DEF Inv, Sound

LEMMA WorkStep ==
  ASSUME Inv, NEW a \in Actors, JobStep(a) \/ FirefoxAnswers(a)
  PROVE  Inv'
<1>1. OwnerTypes /\ WorkTypes /\ TargetOK(a) /\ (closed => present = {})
  BY DEF Inv, Sound
<1>2. SameOwner /\ JobStepOK(a)
  BY <1>1, StartOK, LeaveOK, SnappedOK, SnapFailsOK, ReplyOK, AnswerOK DEF JobStep
<1>3. errors' \in Nat
  <2>1. errors' = errors \/ errors' = errors + 1
    BY DEF JobStep, FirefoxAnswers, StartJob, LeaveJob, Snapped, SnapFails, Reply
  <2>2. errors \in Nat
    BY <1>1 DEF OwnerTypes
  <2>3. QED
    BY <2>1, <2>2
<1>4. OwnerTypes'
  BY <1>1, <1>2, <1>3 DEF SameOwner, owner, OwnerTypes
<1>5. ASSUME NEW b \in Actors PROVE TargetOK(b)'
  <2>1. CASE b = a
    BY <1>2, <2>1 DEF JobStepOK
  <2>2. CASE b # a
    BY <1>2, <2>2, Frame DEF JobStepOK, Inv, Sound
  <2>3. QED
    BY <2>1, <2>2
<1>6. \A c \in CallId : CallOK(c)'
  BY <1>2, SameWants DEF Inv, Sound
<1>7. closed' => present' = {}
  BY <1>1, <1>2 DEF SameOwner, owner
<1>8. QED
  BY <1>2, <1>4, <1>5, <1>6, <1>7 DEF Inv, Sound, JobStepOK

-----------------------------------------------------------------------------
(* The invariant holds of every state *)

LEMMA Initially ==
  ASSUME Init
  PROVE  Inv
<1>1. OwnerTypes
  BY DEF Init, OwnerTypes
<1>2. WorkTypes
  <2>1. NoJob \in Jobs /\ NoJob.pc = "idle"
    BY DEF Jobs, NoJob
  <2>2. <<>> \in Seq(CallId \cup Actors)
    OBVIOUS
  <2>3. QED
    BY <2>1, <2>2 DEF Init, WorkTypes
<1>3. ASSUME NEW a \in Actors PROVE TargetOK(a)
  <2>1. queue[a] = <<>> /\ applied[a] = {} /\ installed[a] = {} /\ job[a].pc = "idle" /\ present = {}
    BY <1>3 DEF Init, NoJob
  <2>2. \A c : ~Queued(c, a)
    BY <2>1 DEF Queued
  <2>3. QED
    BY <2>1, <2>2 DEF TargetOK, JobOK, Untouched
<1>4. ASSUME NEW c \in CallId PROVE CallOK(c)
  BY <1>4 DEF Init, CallOK, TakenBack
<1>5. QED
  BY <1>1, <1>2, <1>3, <1>4 DEF Inv, Sound, Init

LEMMA Step ==
  ASSUME Inv, Next
  PROVE  Inv'
<1>1. ASSUME NEW c \in CallId, NEW k \in Keys, Set(c, k) \/ Remove(c, k) PROVE Inv'
  BY <1>1, CallStep
<1>2. ASSUME NEW a \in Actors,
             (\E page \in BOOLEAN : AddTarget(a, page)) \/ AdoptTarget(a) \/ AnnounceSource(a)
      PROVE  Inv'
  BY <1>2, NewsStep
<1>3. ASSUME NEW a \in Actors, RemoveTarget(a) \/ FirefoxDestroys(a) PROVE Inv'
  BY <1>3, TargetGoesStep
<1>4. ASSUME NEW a \in Actors, JobStep(a) \/ FirefoxAnswers(a) PROVE Inv'
  BY <1>4, WorkStep
<1>5. ASSUME NEW a \in Actors, ReplayCloses(a) PROVE Inv'
  BY <1>5, CloseStep DEF ReplayCloses
<1>6. ASSUME NEW c \in CallId, CallReturns(c) PROVE Inv'
  BY <1>6, CallReturnsStep
<1>7. CASE Close
  BY <1>7, CloseStep DEF Close
<1>8. QED
  BY <1>1, <1>2, <1>3, <1>4, <1>5, <1>6, <1>7 DEF Next

LEMMA Stutter ==
  ASSUME Inv, UNCHANGED vars
  PROVE  Inv'
<1>1. /\ OwnerTypes /\ WorkTypes /\ Sound /\ SameOwner
      /\ UNCHANGED <<applied, stale, queue, job, unsettled, failed, errors, request, installed>>
  BY DEF vars, work, callers, firefox, Inv, SameOwner
<1>2. OwnerTypes'
  BY <1>1 DEF SameOwner, owner, OwnerTypes
<1>3. WorkTypes'
  BY <1>1 DEF WorkTypes
<1>4. ASSUME NEW b \in Actors PROVE TargetOK(b)'
  BY <1>1, Frame DEF Keeps, Sound
<1>5. QED
  BY <1>1, <1>2, <1>3, <1>4, SameWants DEF Inv, Sound, SameOwner, owner

\* Whatever comes and goes while the jobs of targets wait at their awaits, the books of a
\* target are Firefox's, a job that works on old data knows it, and what must be taken away is
\* the business of a call that has not returned (breakpoints.ts).
THEOREM BreakpointInvariant == Spec => []Inv
<1>1. Inv /\ [Next]_vars => Inv'
  BY Step, Stutter
<1>2. QED
  BY <1>1, Initially, PTL DEF Spec

\* Every variable keeps its type, and a request is on its way exactly while a job awaits it.
THEOREM TypeCorrect == Spec => []TypeOK
<1>1. Inv => TypeOK
  BY DEF Inv, OwnerTypes, WorkTypes, Jobs, TypeOK
<1>2. QED
  BY <1>1, BreakpointInvariant, PTL

\* A thread with no job left, the last one good, has exactly what is wanted, in Firefox as on
\* the books (#reconcile): no source, target or call that came in between is forgotten.
THEOREM IdleMeansReconciled == Spec => []Reconciled
<1>1. Inv => Reconciled
  <2>1. SUFFICES ASSUME Inv, NEW a \in present \ (dead \cup unsettled), queue[a] = <<>>
                 PROVE  installed[a] = applied[a] /\ Right(applied[a], a)
    BY DEF Reconciled, Right
  <2>2. a \in Actors /\ InHand(a) /\ JobOK(a) /\ (request[a] # "none" <=> job[a].pc = "sent")
    BY <2>1 DEF Inv, OwnerTypes, WorkTypes, Sound, TargetOK
  <2>3. request[a] # "ok"
    BY <2>1, <2>2 DEF JobOK
  <2>4. QED
    BY <2>1, <2>2, <2>3 DEF InHand
<1>2. QED
  BY <1>1, BreakpointInvariant, PTL

\* A breakpoint LLDB was told is removed, or could not be set, is not wanted any more, and no
\* old job or late reply installs its site once no call about the site is under way (set's
\* rollback, remove).
THEOREM NothingComesBack == Spec => []NoLateInstall
<1>1. Inv => NoLateInstall
  <2> SUFFICES ASSUME Inv, NEW c \in CallId, state[c] \in {"removed", "rejected", "superseded"}
               PROVE  LET site == SiteOf[calls[c].key] IN
                      /\ desired[calls[c].key] # c
                      /\ (\A d \in CallsAbout(site) : state[d] \notin {"working", "rolling back"})
                           /\ site \notin WantedSites
                         => \A a \in present \ (dead \cup unsettled) :
                              /\ site \notin installed[a]
                              /\ ~(job[a].pc = "sent" /\ job[a].verb = "set" /\ job[a].site = site)
    BY DEF NoLateInstall
  <2> DEFINE site == SiteOf[calls[c].key]
  <2>1. desired[calls[c].key] # c
    BY DEF Inv, Sound, CallOK, TakenBack
  <2>2. ASSUME \A d \in CallsAbout(site) : ~UnderWay(d), site \notin WantedSites,
               NEW a \in present, a \notin unsettled
        PROVE  /\ site \notin installed[a]
               /\ ~(job[a].pc = "sent" /\ job[a].verb = "set" /\ job[a].site = site)
    <3>1. /\ InHand(a) /\ JobOK(a) /\ (request[a] # "none" <=> job[a].pc = "sent")
          /\ applied[a] \subseteq Sites /\ installed[a] \subseteq Sites
      BY <2>2 DEF Inv, OwnerTypes, WorkTypes, Sound, TargetOK
    <3>2. ~Answered(site, a)
      BY <2>2, <3>1 DEF Answered, JobOK, CallsAbout
    <3> HIDE DEF site
    <3>3. CASE site \in Sites
      <4>1. site \notin applied[a] /\ ~(job[a].pc = "sent" /\ site \in job[a].wanted)
        BY <2>2, <3>1, <3>2, <3>3 DEF InHand
      <4>2. request[a] = "ok" => site \notin Confirmed(a)
        BY <3>1, <4>1 DEF Confirmed, JobOK
      <4>3. QED
        BY <3>1, <4>1, <4>2 DEF InHand, JobOK
    <3>4. CASE site \notin Sites
      BY <3>1, <3>4 DEF JobOK
    <3>5. QED
      BY <3>3, <3>4
  <2>3. QED
    BY <2>1, <2>2 DEF UnderWay
<1>2. QED
  BY <1>1, BreakpointInvariant, PTL

-----------------------------------------------------------------------------
(* Why the calls end.  A call waits for the jobs it has queued, one behind the other on   *)
(* each target; a job goes round its loop as often as a revision moves.  So what has to   *)
(* be known is that something of every call can go on, and that whatever goes on brings a *)
(* target nearer to its last job.  (That what can go on does is fairness.)                *)

Differs(a) == (applied[a] \ job[a].wanted) \cup (job[a].wanted \ applied[a])

SameJob(a) ==
  /\ queue'[a] = queue[a] /\ (a \in stale' <=> a \in stale)
  /\ job'[a].pc = job[a].pc /\ job'[a].wanted = job[a].wanted

\* In this order: jobs, a revision to catch up with, the phase of the job, sites that still
\* have to change, the answer that is awaited.  None can get smaller for ever, as a target
\* has finitely many sites.
Nearer(a) ==
  \/ Len(queue'[a]) < Len(queue[a])
  \/ queue'[a] = queue[a] /\ a \in stale /\ a \notin stale'
  \/ /\ queue'[a] = queue[a] /\ (a \in stale' <=> a \in stale)
     /\ <<job[a].pc, job'[a].pc>> \in {<<"idle", "snap">>, <<"snap", "sent">>}
  \/ /\ SameJob(a)
     /\ \/ Differs(a)' \subseteq Differs(a) /\ Differs(a)' # Differs(a)
        \/ Differs(a)' = Differs(a) /\ request[a] = "sent" /\ request'[a] \in {"ok", "error"}

AsFar(a) ==
  SameJob(a) /\ Differs(a)' = Differs(a) /\ (request'[a] = "sent" <=> request[a] = "sent")

\* What gives the targets more to do: LLDB, a set that failed and is taken back, the page.
News ==
  \/ \E c \in CallId : RollBack(c) \/ \E k \in Keys : Set(c, k) \/ Remove(c, k)
  \/ \E a \in Actors : \/ \E page \in BOOLEAN : AddTarget(a, page)
                       \/ AdoptTarget(a) \/ AnnounceSource(a)

\* Every step of a job brings its target nearer to its end, and only news takes any target
\* further away from it.
NoGoingRound ==
  [][\A a \in Actors : /\ JobStep(a) \/ FirefoxAnswers(a) => Nearer(a)
                       /\ News \/ Nearer(a) \/ AsFar(a)]_vars

\* A request changes something, and in the direction that is wanted.
Useful(a) ==
  job[a].pc = "sent" =>
    IF job[a].verb = "set" THEN job[a].site \in job[a].wanted \ applied[a]
                           ELSE job[a].site \in applied[a] \ job[a].wanted

Phased(c) == /\ UnderWay(c) => calls[c].kind \in {"set", "remove"}
             /\ state[c] = "rolling back" => calls[c].kind = "set"

ProgressInv == Inv /\ (\A a \in Actors : Useful(a)) /\ (\A c \in CallId : Phased(c))

LEMMA TailShorter ==
  ASSUME WorkTypes, NEW a \in Actors, queue[a] # <<>>, queue' = [queue EXCEPT ![a] = Tail(@)]
  PROVE  Len(queue'[a]) < Len(queue[a])
<1> DEFINE q == queue[a]
           T == CallId \cup Actors
<1>1. q \in Seq(T) /\ q # <<>> /\ queue'[a] = Tail(q)
  BY DEF WorkTypes
<1> HIDE DEF q, T
<1>2. Len(q) \in Nat /\ Len(Tail(q)) = Len(q) - 1
  BY <1>1
<1>3. Len(queue'[a]) < Len(q)
  BY <1>1, <1>2
<1>4. QED
  BY <1>3 DEF q

\* Where the rest of a job gets to.
LEMMA AdvanceLeads ==
  ASSUME WorkTypes, NEW a \in Actors, queue[a] # <<>>,
         NEW has \in SUBSET Sites, NEW wanted \in SUBSET Sites, applied'[a] = has,
         Advance(a, has, wanted)
  PROVE  /\ Useful(a)'
         /\ \/ Len(queue'[a]) < Len(queue[a])
            \/ queue'[a] = queue[a] /\ a \in stale /\ a \notin stale'
            \/ /\ queue'[a] = queue[a] /\ stale' = stale
               /\ job'[a].pc = "sent" /\ job'[a].wanted = wanted
<1>1. ASSUME NEW verb \in {"remove", "set"}, NEW site \in Sites, Send(a, verb, site, wanted),
             site \in IF verb = "set" THEN wanted \ has ELSE has \ wanted
      PROVE  /\ Useful(a)' /\ queue'[a] = queue[a] /\ stale' = stale
             /\ job'[a].pc = "sent" /\ job'[a].wanted = wanted
  <2> DEFINE j == [pc |-> "sent", wanted |-> wanted, site |-> site, verb |-> verb]
  <2>1. job' = [job EXCEPT ![a] = j] /\ UNCHANGED <<stale, queue>>
    BY <1>1 DEF Send
  <2>2. j.pc = "sent" /\ j.wanted = wanted /\ j.site = site /\ j.verb = verb
    OBVIOUS
  <2> HIDE DEF j
  <2>3. job'[a] = j
    BY <2>1 DEF WorkTypes
  <2>4. QED
    BY <1>1, <2>1, <2>2, <2>3 DEF Useful
<1>2. ASSUME a \in stale, job' = [job EXCEPT ![a] = [NoJob EXCEPT !.pc = "snap"]],
             stale' = stale \ {a}, UNCHANGED queue
      PROVE  Useful(a)' /\ queue'[a] = queue[a] /\ a \in stale /\ a \notin stale'
  <2>1. job'[a].pc = "snap"
    BY <1>2 DEF WorkTypes, NoJob
  <2>2. QED
    BY <1>2, <2>1 DEF Useful
<1>3. ASSUME queue' = [queue EXCEPT ![a] = Tail(@)], job' = [job EXCEPT ![a] = NoJob]
      PROVE  Useful(a)' /\ Len(queue'[a]) < Len(queue[a])
  <2>1. job'[a].pc = "idle"
    BY <1>3 DEF WorkTypes, NoJob
  <2>2. Useful(a)'
    BY <2>1 DEF Useful
  <2>3. QED
    BY <1>3, <2>2, TailShorter
<1>4. QED
  BY <1>1, <1>2, <1>3 DEF Advance

LEMMA JobNearer ==
  ASSUME Inv, NEW a \in Actors, Useful(a), JobStep(a) \/ FirefoxAnswers(a)
  PROVE  Useful(a)' /\ Nearer(a)
<1>1. WorkTypes /\ TargetOK(a) /\ JobOK(a) /\ (job[a].pc # "idle" => queue[a] # <<>>)
  BY DEF Inv, Sound, TargetOK, JobOK
<1>2. ASSUME queue' = [queue EXCEPT ![a] = Tail(@)], queue[a] # <<>>, job' = [job EXCEPT ![a] = NoJob]
      PROVE  Useful(a)' /\ Nearer(a)
  <2>1. job'[a].pc = "idle"
    BY <1>1, <1>2 DEF WorkTypes, NoJob
  <2>2. Useful(a)'
    BY <2>1 DEF Useful
  <2>3. QED
    BY <1>1, <1>2, <2>2, TailShorter DEF Nearer
<1>3. CASE StartJob(a)
  <2> DEFINE j == [job[a] EXCEPT !.pc = "snap"]
  <2>1. job' = [job EXCEPT ![a] = j] /\ stale' = stale \ {a} /\ queue' = queue
        /\ job[a].pc = "idle"
    BY <1>1, <1>3 DEF StartJob, WorkTypes
  <2>2. j.pc = "snap"
    BY <1>1 DEF WorkTypes, Jobs
  <2> HIDE DEF j
  <2>3. job'[a].pc = "snap"
    BY <1>1, <2>1, <2>2 DEF WorkTypes
  <2>4. QED
    BY <2>1, <2>3 DEF Useful, Nearer
<1>4. CASE LeaveJob(a)
  BY <1>2, <1>4 DEF LeaveJob, SettleJob
<1>5. CASE SnapFails(a)
  BY <1>1, <1>2, <1>5 DEF SnapFails, SettleJob
<1>6. CASE Snapped(a)
  <2> DEFINE wanted == IF Available(a) THEN WantedSites ELSE {}
  <2>1. job[a].pc = "snap" /\ NoSite \notin wanted /\ applied' = applied
    BY <1>6 DEF Snapped
  <2>2. wanted \in SUBSET Sites /\ applied[a] \in SUBSET Sites
    BY <1>1, <2>1, BreakpointsAssumption DEF WantedSites, WorkTypes
  <2>3. CASE a \in stale
    BY <1>6, <2>1, <2>3 DEF Snapped, Useful, Nearer
  <2>4. CASE a \notin stale
    <3>1. Advance(a, applied[a], wanted)
      BY <1>6, <2>4 DEF Snapped
    <3> HIDE DEF wanted
    <3>2. /\ Useful(a)'
          /\ \/ Len(queue'[a]) < Len(queue[a])
             \/ queue'[a] = queue[a] /\ a \in stale /\ a \notin stale'
             \/ /\ queue'[a] = queue[a] /\ stale' = stale
                /\ job'[a].pc = "sent" /\ job'[a].wanted = wanted
      BY <1>1, <2>1, <2>2, <3>1, AdvanceLeads
    <3>3. QED
      BY <2>1, <3>2 DEF Nearer
  <2>5. QED
    BY <2>3, <2>4
<1>7. CASE Reply(a)
  <2>1. CASE request[a] = "ok" /\ ~Gone(a)
    <3>1. /\ job[a].pc = "sent" /\ Advance(a, Confirmed(a), job[a].wanted)
          /\ applied' = [applied EXCEPT ![a] = Confirmed(a)]
      BY <1>7, <2>1 DEF Reply
    <3>2. /\ applied[a] \in SUBSET Sites /\ job[a].wanted \in SUBSET Sites /\ job[a].site \in Sites
          /\ applied'[a] = Confirmed(a)
      BY <1>1, <3>1 DEF WorkTypes, Jobs, JobOK
    <3>3. Confirmed(a) \in SUBSET Sites
      BY <3>2 DEF Confirmed
    <3>4. /\ Useful(a)'
          /\ \/ Len(queue'[a]) < Len(queue[a])
             \/ queue'[a] = queue[a] /\ a \in stale /\ a \notin stale'
             \/ /\ queue'[a] = queue[a] /\ stale' = stale
                /\ job'[a].pc = "sent" /\ job'[a].wanted = job[a].wanted
      BY <1>1, <3>1, <3>2, <3>3, AdvanceLeads
    <3>5. ASSUME job'[a].wanted = job[a].wanted
          PROVE  Differs(a)' = Differs(a) \ {job[a].site} /\ job[a].site \in Differs(a)
      BY <3>1, <3>2, <3>5 DEF Useful, Confirmed, Differs
    <3>6. QED
      BY <3>1, <3>4, <3>5 DEF Nearer, SameJob
  <2>2. CASE request[a] = "error" \/ (request[a] = "ok" /\ Gone(a))
    BY <1>1, <1>2, <1>7, <2>2 DEF Reply
  <2>3. QED
    BY <1>7, <2>1, <2>2 DEF Reply
<1>8. CASE FirefoxAnswers(a)
  <2>1. /\ request[a] = "sent" /\ UNCHANGED <<applied, stale, queue, job>>
        /\ request' = [request EXCEPT ![a] = "ok"] \/ request' = [request EXCEPT ![a] = "error"]
    BY <1>8 DEF FirefoxAnswers, work
  <2>2. request'[a] \in {"ok", "error"}
    BY <1>1, <2>1 DEF WorkTypes
  <2>3. QED
    BY <2>1, <2>2 DEF Useful, Nearer, SameJob, Differs
<1>9. QED
  BY <1>3, <1>4, <1>5, <1>6, <1>7, <1>8 DEF JobStep

\* What neither news nor a job does leaves the targets where they are.
LEMMA OthersKeep ==
  ASSUME Inv, Next, ~News, \A a \in Actors : ~JobStep(a) /\ ~FirefoxAnswers(a)
  PROVE  \A a \in Actors : (Useful(a) => Useful(a)') /\ (Nearer(a) \/ AsFar(a))
<1>1. WorkTypes
  BY DEF Inv
<1>2. ASSUME UNCHANGED work, NEW a \in Actors,
             \/ request' = request
             \/ request' = [b \in Actors |-> IF request[b] = "none" THEN "none" ELSE "error"]
      PROVE  (Useful(a) => Useful(a)') /\ (Nearer(a) \/ AsFar(a))
  <2>1. UNCHANGED <<applied, stale, queue, job>>
    BY <1>2 DEF work
  <2>2. request'[a] = request[a] \/ request'[a] = "error"
    <3>1. CASE request' = request
      BY <3>1
    <3>2. CASE request' = [b \in Actors |-> IF request[b] = "none" THEN "none" ELSE "error"]
      BY <3>2
    <3>3. QED
      BY <1>2, <3>1, <3>2
  <2>3. Useful(a) => Useful(a)'
    BY <2>1 DEF Useful
  <2>4. SameJob(a) /\ Differs(a)' = Differs(a)
    BY <2>1 DEF SameJob, Differs
  <2>5. QED
    BY <2>2, <2>3, <2>4 DEF Nearer, AsFar
<1>3. UNCHANGED work
      /\ \/ request' = request
         \/ request' = [b \in Actors |-> IF request[b] = "none" THEN "none" ELSE "error"]
  <2>1. ASSUME NEW a \in Actors, RemoveTarget(a) \/ FirefoxDestroys(a) PROVE <1>3!:
    BY <2>1 DEF RemoveTarget, FirefoxDestroys, firefox
  <2>2. ASSUME CloseOwner PROVE <1>3!:
    BY <2>2 DEF CloseOwner
  <2>3. ASSUME NEW c \in CallId, SetFails(c) \/ SetReturns(c) \/ RemoveReturns(c) PROVE <1>3!:
    BY <2>3 DEF SetFails, SetReturns, RemoveReturns, Return, firefox
  <2>4. QED
    BY <2>1, <2>2, <2>3 DEF Next, News, ReplayCloses, Close, CallReturns
<1>4. QED
  BY <1>2, <1>3

LEMMA WorkFrame ==
  ASSUME Inv, NEW a \in Actors, JobStep(a) \/ FirefoxAnswers(a)
  PROVE  SameOwner /\ JobStepOK(a)
<1>1. OwnerTypes /\ WorkTypes /\ TargetOK(a) /\ (closed => present = {})
  BY DEF Inv, Sound
<1>2. QED
  BY <1>1, StartOK, LeaveOK, SnappedOK, SnapFailsOK, ReplyOK, AnswerOK DEF JobStep

\* The useful requests stay useful, and every target is as near to its end as it was, unless
\* the step is news.
LEMMA TargetsKeep ==
  ASSUME ProgressInv, Next
  PROVE  /\ \A a \in Actors : Useful(a)'
         /\ \A a \in Actors : JobStep(a) \/ FirefoxAnswers(a) => Nearer(a)
         /\ \A a \in Actors : News \/ Nearer(a) \/ AsFar(a)
<1>1. /\ Inv /\ WorkTypes
      /\ \A a \in Actors : Useful(a)
  BY DEF ProgressInv, Inv
<1>2. CASE \E a \in Actors : JobStep(a) \/ FirefoxAnswers(a)
  <2>1. PICK a \in Actors : JobStep(a) \/ FirefoxAnswers(a)
    BY <1>2
  <2>2. JobStepOK(a)
    BY <1>1, <2>1, WorkFrame
  <2>3. ASSUME NEW b \in Actors \ {a} PROVE Useful(b)' /\ AsFar(b)
    <3>1. Keeps(b) /\ Useful(b)
      BY <1>1, <2>2 DEF JobStepOK
    <3>2. QED
      BY <3>1 DEF Keeps, Useful, AsFar, SameJob, Differs
  <2>4. Useful(a)' /\ Nearer(a)
    BY <1>1, <2>1, JobNearer
  <2>5. ASSUME NEW b \in Actors, JobStep(b) \/ FirefoxAnswers(b) PROVE Nearer(b)
    BY <1>1, <2>5, JobNearer
  <2>6. QED
    BY <2>3, <2>4, <2>5
<1>3. CASE ~(\E a \in Actors : JobStep(a) \/ FirefoxAnswers(a)) /\ ~News
  BY <1>1, <1>3, OthersKeep
<1>4. CASE ~(\E a \in Actors : JobStep(a) \/ FirefoxAnswers(a)) /\ News
  <2>1. UNCHANGED <<applied, job>>
    BY <1>4 DEF News, RollBack, Set, Remove, Call, AddTarget, AdoptTarget, AnnounceSource
  <2>2. \A a \in Actors : Useful(a)'
    BY <1>1, <2>1 DEF Useful
  <2>3. QED
    BY <1>4, <2>2
<1>5. QED
  BY <1>2, <1>3, <1>4

LEMMA PhasesKeep ==
  ASSUME ProgressInv, Next, NEW c \in CallId
  PROVE  Phased(c)'
<1>1. OwnerTypes /\ Phased(c) /\ Inv
  BY DEF ProgressInv, Inv
<1>2. ASSUME NEW d \in CallId, NEW k \in Keys, Set(d, k) \/ Remove(d, k) PROVE Phased(c)'
  <2>1. PICK kind \in {"set", "remove"}, holder \in {d, NoCall} : Call(d, kind, k, holder)
    BY <1>2 DEF Set, Remove
  <2>2. /\ calls' = [calls EXCEPT ![d] = [kind |-> kind, key |-> k]]
        /\ state' = [state EXCEPT ![d] = "working"]
    BY <2>1 DEF Call
  <2>3. CASE c = d
    BY <1>1, <2>2, <2>3 DEF OwnerTypes, Phased, UnderWay
  <2>4. CASE c # d
    BY <1>1, <2>2, <2>4 DEF OwnerTypes, Phased, UnderWay
  <2>5. QED
    BY <2>3, <2>4
<1>3. ASSUME NEW d \in CallId, CallReturns(d) PROVE Phased(c)'
  <2>1. /\ calls' = calls
        /\ \/ state' = [state EXCEPT ![d] = "rolling back"] /\ calls[d].kind = "set"
           \/ \E verdict \in {"installed", "deferred", "superseded", "rejected", "removed"} :
                state' = [state EXCEPT ![d] = verdict]
    BY <1>3 DEF CallReturns, RollBack, SetFails, SetReturns, RemoveReturns, Return, Awaiting
  <2>2. CASE c = d
    BY <1>1, <2>1, <2>2 DEF OwnerTypes, Phased, UnderWay
  <2>3. CASE c # d
    BY <1>1, <2>1, <2>3 DEF OwnerTypes, Phased, UnderWay
  <2>4. QED
    BY <2>2, <2>3
<1>4. ASSUME UNCHANGED <<calls, state>> PROVE Phased(c)'
  BY <1>1, <1>4 DEF Phased, UnderWay
<1>5. ASSUME NEW a \in Actors, JobStep(a) \/ FirefoxAnswers(a) PROVE Phased(c)'
  BY <1>1, <1>4, <1>5, WorkFrame DEF SameOwner
<1>6. ASSUME NEW a \in Actors,
             \/ \E page \in BOOLEAN : AddTarget(a, page)
             \/ AdoptTarget(a) \/ AnnounceSource(a) \/ RemoveTarget(a) \/ FirefoxDestroys(a)
      PROVE  Phased(c)'
  BY <1>4, <1>6 DEF AddTarget, AdoptTarget, AnnounceSource, RemoveTarget, FirefoxDestroys, callers
<1>7. ASSUME CloseOwner PROVE Phased(c)'
  BY <1>4, <1>7 DEF CloseOwner, callers
<1>8. QED
  BY <1>2, <1>3, <1>5, <1>6, <1>7 DEF Next, ReplayCloses, Close

LEMMA ProgressInvariant == Spec => []ProgressInv
<1>1. Init => ProgressInv
  <2>1. SUFFICES ASSUME Init PROVE ProgressInv
    OBVIOUS
  <2>2. \A a \in Actors : Useful(a)
    BY <2>1 DEF Init, NoJob, Useful
  <2>3. \A c \in CallId : Phased(c)
    BY <2>1 DEF Init, Phased, UnderWay
  <2>4. QED
    BY <2>1, <2>2, <2>3, Initially DEF ProgressInv
<1>2. ProgressInv /\ [Next]_vars => ProgressInv'
  <2>1. CASE ProgressInv /\ Next
    BY <2>1, Step, TargetsKeep, PhasesKeep DEF ProgressInv
  <2>2. CASE ProgressInv /\ UNCHANGED vars
    <3>1. UNCHANGED <<applied, job, calls, state>> /\ Inv'
      BY <2>2, Stutter DEF vars, work, callers, ProgressInv
    <3>2. QED
      BY <2>2, <3>1 DEF ProgressInv, Useful, Phased, UnderWay
  <2>3. QED
    BY <2>1, <2>2
<1>3. QED
  BY <1>1, <1>2, PTL DEF Spec

\* The guards of the steps that take the first job of a target further.
JobGoesOn(a) ==
  \/ queue[a] # <<>> /\ job[a].pc # "sent" /\ Gone(a)
  \/ queue[a] # <<>> /\ job[a].pc = "idle" /\ ~Gone(a)
  \/ job[a].pc = "snap" /\ ~Gone(a) /\ (Available(a) => NoSite \notin WantedSites)
  \/ job[a].pc = "snap" /\ ~Gone(a) /\ Available(a) /\ NoSite \in WantedSites
  \/ request[a] = "sent"
  \/ job[a].pc = "sent" /\ request[a] \in {"ok", "error"}

\* The guards of the ends of a call: its verdict, or its rollback.
CallGoesOn(c) ==
  \/ Awaiting(c, "set", "working")
  \/ Awaiting(c, "set", "rolling back")
  \/ Awaiting(c, "remove", "working")

\* Every call under way, whatever the others do, has a result to return or a job of its own in
\* the queue of a target whose first job can go on; the same holds of every replay.
EveryCallGoesOn ==
  /\ \A c \in CallId : UnderWay(c) => CallGoesOn(c) \/ \E a \in Actors : Queued(c, a) /\ JobGoesOn(a)
  /\ \A a \in Actors : queue[a] # <<>> => JobGoesOn(a)

\* NoCallIsStuck for each call by itself, with the guards of the actions written out.
LEMMA CallsGoOn == Spec => []EveryCallGoesOn
<1>1. ProgressInv => EveryCallGoesOn
  <2> SUFFICES ASSUME ProgressInv PROVE EveryCallGoesOn
    OBVIOUS
  <2>1. WorkTypes /\ OwnerTypes
    BY DEF ProgressInv, Inv
  <2>2. ASSUME NEW a \in Actors, queue[a] # <<>> PROVE JobGoesOn(a)
    <3>1. /\ job[a].pc \in {"idle", "snap", "sent"} /\ request[a] \in {"none", "sent", "ok", "error"}
          /\ request[a] # "none" <=> job[a].pc = "sent"
      BY <2>1 DEF WorkTypes, Jobs
    <3>2. QED
      BY <2>2, <3>1 DEF JobGoesOn
  <2>3. ASSUME NEW c \in CallId, UnderWay(c), Settled(c) PROVE CallGoesOn(c)
    BY <2>1, <2>3 DEF ProgressInv, Phased, UnderWay, CallGoesOn, Awaiting
  <2>4. ASSUME NEW c \in CallId, ~Settled(c) PROVE \E a \in Actors : Queued(c, a) /\ queue[a] # <<>>
    BY <2>1, <2>4 DEF Settled, Queued, WorkTypes
  <2>5. QED
    BY <2>2, <2>3, <2>4 DEF EveryCallGoesOn
<1>2. QED
  BY <1>1, ProgressInvariant, PTL

\* No set, remove or replay waits for ever.  Something of it can always go on, and the loop of
\* a job (#reconcile) cannot go round on old news: every step of it, and every answer of
\* Firefox, brings its target nearer to its last job, and apart from a call, a rollback, a
\* target or a source that is announced nothing takes any target away from it.
THEOREM CallsComeToAnEnd == Spec => []EveryCallGoesOn /\ NoGoingRound
<1>1. ProgressInv /\ [Next]_vars =>
        [\A a \in Actors : /\ JobStep(a) \/ FirefoxAnswers(a) => Nearer(a)
                           /\ News \/ Nearer(a) \/ AsFar(a)]_vars
  BY TargetsKeep
<1>2. Spec => NoGoingRound
  BY <1>1, ProgressInvariant, PTL DEF Spec, NoGoingRound
<1>3. QED
  BY <1>2, CallsGoOn
=============================================================================
