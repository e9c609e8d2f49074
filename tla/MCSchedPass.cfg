SPECIFICATION Spec
CONSTANTS
  d1 = d1
  d2 = d2
  m1 = m1
  w1 = w1
  w2 = w2
  h1 = h1
  h2 = h2
  None = None
  NoPort = NoPort
  Deployments = {d1, d2}
  Masters = {m1}
  Workers = {w1}
  MasterOf <- MCMasterOf
  Hosts = {h1, h2}
  FixedPort <- MCFirstPort
  Packing = {}
  Capacity = 2
  Configs <- MCPass
  FirstConfig <- MCPair
  MaxVersion = 2
  MaxInstances = 2
  MaxChanges = 1
  MaxRejects = 1
  MaxDrains = 0
  MaxFailures = 1
  MaxRestarts = 0
SYMMETRY Symmetry
INVARIANTS TypeOK PassFits
PROPERTY MinKept
PROPERTY LastResort
