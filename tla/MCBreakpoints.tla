--------------------------- MODULE MCBreakpoints ---------------------------
(***************************************************************************)
(* Breakpoints on a small instance: two concurrent calls on the page's     *)
(* thread, with two keys that share a site and one without a legal         *)
(* position; and one call at a time, as LLDB makes them, once there is a   *)
(* worker beside the page.  The calls are interchangeable, and so are the  *)
(* two keys.                                                               *)
(***************************************************************************)
EXTENDS Breakpoints, TLC

CONSTANTS worker, k1, k2, bad, s1, c1, c2

SharedSite == [k \in Keys |-> IF k = bad THEN NoSite ELSE s1]

Interchangeable == Permutations({k1, k2}) \cup Permutations({c1, c2})

KeysInUse == {k \in Keys : desired[k] # NoCall \/ \E c \in CallId : calls[c].key = k}

\* Bound.  A worker joins a page that stays, in a session that stays, for one call at a
\* time about one key that nobody refuses.
OneCallWithPeers ==
  worker \in present \cup dead =>
    /\ ~closed /\ errors = 0 /\ dead \subseteq {worker}
    /\ \E c \in CallId : calls[c].kind = "none"
    /\ KeysInUse \in SUBSET {k1} \cup SUBSET {k2}
=============================================================================
