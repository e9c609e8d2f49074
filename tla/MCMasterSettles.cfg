SPECIFICATION RunFairSpec
CONSTANTS
  d1 = d1
  d2 = d2
  Deployments <- MCDeployments
  Listings <- MCListings
  Workers = {w1}
  Nobody = Nobody
  NoDeployment = NoDeployment
  EnqueueCap = 1
  DequeueCap = 1
  EventCap = 1
  GcCap = 1
  Contended = {}
  MaxChanges = 1
PROPERTY Settles
