----------------------------- MODULE MCSpawner -----------------------------
(* Spawner for TLC. *)
EXTENDS Spawner
=============================================================================
