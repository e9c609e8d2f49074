SPECIFICATION FairSpec
CONSTANTS
  m1 = m1
  m2 = m2
  Masters <- MCTwo
  Services = {s1}
  Runners <- MCTwoAndOne
  MaxEnded = 1
  NoMaster = NoMaster
  NoWorker = NoWorker
  NoService = NoService
CHECK_DEADLOCK FALSE
INVARIANT TypeOK
INVARIANT NoLeakedLock
PROPERTY RequestEnds
PROPERTY KeyComesFree
