SPECIFICATION FairSpec
CONSTANTS
  d1 = d1
  d2 = d2
  Deployments <- MCOneDeployment
  Listings <- MCOneListing
  Workers = {w1, w2}
  Nobody = Nobody
  NoDeployment = NoDeployment
  EnqueueCap = 1
  DequeueCap = 1
  EventCap = 1
  GcCap = 1
  Contended = {d1}
  MaxChanges = 1
INVARIANT TypeOK
INVARIANT OneFuture
 
 
CHECK_DEADLOCK FALSE
