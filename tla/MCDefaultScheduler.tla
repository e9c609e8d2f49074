------------------------- MODULE MCDefaultScheduler -------------------------
(* Values for checking DefaultScheduler with TLC. *)
EXTENDS DefaultScheduler, TLC

CONSTANTS d1, d2, m1, w1, w2, h1, h2

(* The workers, all of one master. *)
MCMasterOf == [w \in Workers |-> m1]

Scale(desired, min, max, version) ==
  [desired |-> desired, min |-> min, max |-> max, version |-> version]

Two == Scale(2, 1, 2, 1)
Three == Scale(3, 1, 3, 1)
Single == Scale(1, 0, 1, 1)
Nothing == Scale(0, 0, 1, 1)

MCPair == [d \in Deployments |-> IF d = d1 THEN Two ELSE Single]
MCThree == [d \in Deployments |-> Three]
MCSingle == [d \in Deployments |-> Single]

(* The tasks become fewer; or one deployment is upgraded to fewer tasks    *)
(* and the other stays; or a single task is upgraded, doubled or given up. *)
MCCount == [d \in Deployments |-> {Three, Scale(1, 1, 3, 1)}]
MCPass == [d \in Deployments |-> IF d = d1 THEN {Two, Scale(1, 1, 1, 2)} ELSE {Single}]
MCEither == [d \in Deployments |-> {Single, Scale(1, 0, 1, 2), Two, Nothing}]

MCNoPorts == [d \in Deployments |-> NoPort]
MCFirstPort == [d \in Deployments |-> IF d = d1 THEN "8080" ELSE NoPort]

Symmetry == Permutations(Hosts)
=============================================================================
