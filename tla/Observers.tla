------------------------------ MODULE Observers ------------------------------
(***************************************************************************)
(* The health agents and the discovery agent beside each other: what the   *)
(* monitors put and what the checks find decides which tasks the discovery *)
(* agent takes for running.                                                *)
(***************************************************************************)
EXTENDS HealthAgent

CONSTANTS Services, Managing, TasksOf, Clients, MaxEdits

ASSUME ServicesAssumption == TasksOf \in [Services -> SUBSET Tasks]
ASSUME EditsAssumption == MaxEdits \in Nat

VARIABLES registered, known, spc, todo, locked, cpc, edits

D == INSTANCE Discovery

discovery == <<registered, known, spc, todo, locked, cpc, edits>>
vars == <<healthVars, discovery>>

TypeOK == HealthTypeOK /\ D!DiscoveryTypeOK
Init == HealthInit /\ D!DiscoveryInit
Next ==
  \/ HealthNext /\ UNCHANGED discovery
  \/ D!DiscoveryNext /\ UNCHANGED <<entry, listed, monitors, events>>

Spec == Init /\ [][Next]_vars /\ HealthFairness /\ D!DiscoveryFairness

AnswersUntilFound == D!AnswersUntilFound
==============================================================================
