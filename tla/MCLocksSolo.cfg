SPECIFICATION KeptSpec
CONSTANTS
  m1 = m1
  m2 = m2
  Masters <- MCTwo
  Services = {s1, s2}
  Runners <- MCOneEach
  MaxEnded = 2
  NoMaster = NoMaster
  NoWorker = NoWorker
  NoService = NoService
CHECK_DEADLOCK FALSE
SYMMETRY Symmetry
INVARIANT SchedulesUnderTheKey
PROPERTY ImplementsRight
