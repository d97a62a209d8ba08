----------------------------- MODULE MCDebuggee -----------------------------
(***************************************************************************)
(* The adapter on a page that is replaced once and one worker.             *)
(***************************************************************************)
EXTENDS Debuggee
=============================================================================
