----------------------------- MODULE MCTargets -----------------------------
(***************************************************************************)
(* Targets on a small instance: three pages and two workers, that is two   *)
(* replacements in a row, in either order, with a worker on each side.     *)
(* Pages are interchangeable, and so are workers.                          *)
(***************************************************************************)
EXTENDS Targets, TLC

Interchangeable == Permutations(TopActors) \cup Permutations(WorkerActors)
=============================================================================
