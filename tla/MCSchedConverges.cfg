SPECIFICATION FairSpec
CONSTANTS
  d1 = d1
  d2 = d2
  m1 = m1
  w1 = w1
  w2 = w2
  h1 = h1
  h2 = h2
  None = None
  NoPort = NoPort
  Deployments = {d1}
  Masters = {m1}
  Workers = {w1, w2}
  MasterOf <- MCMasterOf
  Hosts = {h1}
  FixedPort <- MCNoPorts
  Packing = {d1}
  Capacity = 2
  Configs <- MCEither
  FirstConfig <- MCSingle
  MaxVersion = 2
  MaxInstances = 2
  MaxChanges = 1
  MaxRejects = 0
  MaxDrains = 1
  MaxFailures = 0
  MaxRestarts = 1
PROPERTY Converges
