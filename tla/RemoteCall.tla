----------------------------- MODULE RemoteCall -----------------------------
(***************************************************************************)
(* What the component is promised (INTERNALS.md:237: it "blocks in WIT     *)
(* while the main event loop performs RDP work"): a call of the debuggee   *)
(* behaves like a procedure call.  Calls are made one after the other;     *)
(* each is carried out at most once, by the host, and returns only after   *)
(* it has been carried out.  The host may end it all at any moment.        *)
(***************************************************************************)
EXTENDS Naturals

VARIABLES asked,     \* calls the component has made
          executed,  \* calls the host has carried out, or has begun to
          returned   \* calls that have returned

callVars == <<asked, executed, returned>>

CallInit == asked = 0 /\ executed = 0 /\ returned = 0

Ask     == asked = returned /\ asked' = asked + 1 /\ UNCHANGED <<executed, returned>>
Execute == executed < asked /\ executed' = executed + 1 /\ UNCHANGED <<asked, returned>>
Return  == returned < executed /\ returned' = returned + 1 /\ UNCHANGED <<asked, executed>>

CallNext == Ask \/ Execute \/ Return

CallSpec == CallInit /\ [][CallNext]_callVars
=============================================================================
