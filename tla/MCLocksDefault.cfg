SPECIFICATION CalmSpec
CONSTANTS
  m1 = m1
  m2 = m2
  Masters <- MCTwo
  Services = {s1}
  Runners <- MCTwoEach
  MaxEnded = 2
  NoMaster = NoMaster
  NoWorker = NoWorker
  NoService = NoService
INVARIANT MutualExclusion
