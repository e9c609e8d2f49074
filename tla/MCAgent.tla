------------------------------- MODULE MCAgent -------------------------------
(* Values for checking Agent with TLC: what the definitions may say, with  *)
(* the docker and the bash executor.                                       *)
EXTENDS Agent

MCDocker == [probed |-> TRUE, checked |-> TRUE, port |-> FALSE, monitored |-> FALSE]
MCBash == [probed |-> FALSE, checked |-> FALSE, port |-> FALSE, monitored |-> FALSE]
MCBashChecked == [probed |-> FALSE, checked |-> TRUE, port |-> TRUE, monitored |-> FALSE]
MCMonitored == [probed |-> TRUE, checked |-> TRUE, port |-> TRUE, monitored |-> TRUE]
MCAll == {MCDocker, MCBash, MCMonitored}
MCOne == {MCBashChecked}

(* What the environment may do: a fault where the task is issued and       *)
(* unscheduled, and none where it is issued again after that.              *)
MCFewChanges == {[changes |-> 3, faults |-> 0], [changes |-> 2, faults |-> 1]}
MCOneEach == {[changes |-> 1, faults |-> 1]}
==============================================================================
