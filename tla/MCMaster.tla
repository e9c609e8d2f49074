------------------------------ MODULE MCMaster ------------------------------
(* Values for checking Master with TLC: the deployments, and the lists an  *)
(* operator may give the cluster, in the order dispatchAll walks them.     *)
EXTENDS Master, TLC

CONSTANTS d1, d2

MCDeployments == {d1, d2}
MCListings == {<< >>, <<d1, d2>>}

MCOneDeployment == {d1}
MCOneListing == {<<d1>>}
=============================================================================
