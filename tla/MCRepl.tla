------------------------------- MODULE MCRepl -------------------------------
(***************************************************************************)
(* One command for LLDB and one for JavaScript, with room for both, and    *)
(* calls of the owner in any order.                                        *)
(***************************************************************************)
EXTENDS ReplOwner

CONSTANTS c, js

AllCommands == {c, js}
JsOnly == {js}
=============================================================================
