---------------------------- MODULE ServerLease ----------------------------
(***************************************************************************)
(* What the owner of the per-tab servers promises, with no stages, workers *)
(* or sockets in sight.  A launch acquires resources until its caller is   *)
(* told the port, or it ends; from the moment its end begins nothing more  *)
(* is acquired; it is forgotten only when nothing is held any more, and a  *)
(* launch that could not let go stays on the books.  Shutdown is terminal: *)
(* no launch begins, and no caller is told a port, afterwards.             *)
(***************************************************************************)

CONSTANTS Launches, Resources

VARIABLES lease,   \* where each launch stands
          held,    \* the resources it holds
          told,    \* whether its caller has been told the port
          open     \* before shutdown

leaseVars == <<lease, held, told, open>>

LeaseInit ==
  /\ lease = [p \in Launches |-> "none"]
  /\ held = [p \in Launches |-> {}]
  /\ told = [p \in Launches |-> FALSE]
  /\ open = TRUE

Begin(p) ==
  /\ open /\ lease[p] = "none"
  /\ lease' = [lease EXCEPT ![p] = "acquiring"]
  /\ UNCHANGED <<held, told, open>>

Acquire(p) ==
  /\ lease[p] = "acquiring"
  /\ \E r \in Resources : held' = [held EXCEPT ![p] = @ \cup {r}]
  /\ UNCHANGED <<lease, told, open>>

\* Resources break, are given back between attempts, or at the end.
Release(p) ==
  /\ lease[p] \in {"acquiring", "live", "ending"}
  /\ \E kept \in SUBSET held[p] : held' = [held EXCEPT ![p] = kept]
  /\ UNCHANGED <<lease, told, open>>

Publish(p) ==
  /\ open /\ lease[p] = "acquiring"
  /\ lease' = [lease EXCEPT ![p] = "live"]
  /\ told' = [told EXCEPT ![p] = TRUE]
  /\ UNCHANGED <<held, open>>

End(p) ==
  /\ lease[p] \in {"acquiring", "live"}
  /\ lease' = [lease EXCEPT ![p] = "ending"]
  /\ \E kept \in SUBSET held[p] : held' = [held EXCEPT ![p] = kept]
  /\ UNCHANGED <<told, open>>

Forget(p) ==
  /\ lease[p] \in {"acquiring", "ending"} /\ held[p] = {}
  /\ lease' = [lease EXCEPT ![p] = "gone"]
  /\ UNCHANGED <<held, told, open>>

Leak(p) ==
  /\ lease[p] \in {"acquiring", "ending"}
  /\ lease' = [lease EXCEPT ![p] = "leaked"]
  /\ UNCHANGED <<held, told, open>>

Shutdown ==
  /\ open /\ open' = FALSE
  /\ lease' = [p \in Launches |-> IF lease[p] \in {"acquiring", "live"} THEN "ending" ELSE lease[p]]
  /\ held' \in [Launches -> SUBSET Resources]
  /\ \A p \in Launches : held'[p] \subseteq held[p]
  /\ UNCHANGED told

LeaseNext ==
  \/ \E p \in Launches : \/ Begin(p) \/ Acquire(p) \/ Release(p) \/ Publish(p)
                         \/ End(p) \/ Forget(p) \/ Leak(p)
  \/ Shutdown

LeaseSpec == LeaseInit /\ [][LeaseNext]_leaseVars
=============================================================================
