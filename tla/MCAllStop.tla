----------------------------- MODULE MCAllStop -----------------------------
(***************************************************************************)
(* AllStop with a page that is replaced once and one worker.               *)
(***************************************************************************)
EXTENDS AllStop
=============================================================================
