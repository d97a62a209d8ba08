---------------------------- MODULE MCWorkerRpc ----------------------------
(***************************************************************************)
(* One worker that makes a few calls, and is stopped or ends at any point. *)
(***************************************************************************)
EXTENDS WorkerRpc
=============================================================================
