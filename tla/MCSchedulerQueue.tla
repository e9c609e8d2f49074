-------------------------- MODULE MCSchedulerQueue --------------------------
(* SchedulerQueue for TLC. *)
EXTENDS SchedulerQueue, TLC

Symmetry == Permutations(Values) \union Permutations(Poppers)
=============================================================================
