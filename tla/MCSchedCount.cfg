SPECIFICATION FairSpec
CONSTANTS
  d1 = d1
  d2 = d2
  m1 = m1
  w1 = w1
  w2 = w2
  h1 = h1
  h2 = h2
  None = None
  NoPort = NoPort
  Deployments = {d1}
  Masters = {m1}
  Workers = {w1}
  MasterOf <- MCMasterOf
  Hosts = {h1}
  FixedPort <- MCNoPorts
  Packing = {}
  Capacity = 3
  Configs <- MCCount
  FirstConfig <- MCThree
  MaxVersion = 1
  MaxInstances = 3
  MaxChanges = 1
  MaxRejects = 1
  MaxDrains = 0
  MaxFailures = 0
  MaxRestarts = 0
PROPERTY CountSettles
