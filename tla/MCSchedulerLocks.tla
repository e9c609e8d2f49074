-------------------------- MODULE MCSchedulerLocks --------------------------
(* Values and symmetry for checking SchedulerLocks with TLC. *)
EXTENDS SchedulerLocks, TLC

CONSTANTS m1, m2

MCTwo == {m1, m2}

(* Masters with one worker each, with two each, and with two and one.      *)
MCOneEach == [m \in Masters |-> 1]
MCTwoEach == [m \in Masters |-> 2]
MCTwoAndOne == [m \in Masters |-> IF m = m1 THEN 2 ELSE 1]

Symmetry == Permutations(Masters) \union Permutations(Services)
=============================================================================
