----------------------------- MODULE MCObservers -----------------------------
(* Values for checking Observers with TLC: two tasks of one definition,    *)
(* which share the ID of their check, behind one service.                  *)
EXTENDS Observers

MCChecksOf == [t \in Tasks |-> Checks]
MCTasksOf == [s \in Services |-> Tasks]
==============================================================================
