SPECIFICATION Spec
CONSTANTS
  Values = {d1, d2, d3}
  Poppers = {w1, w2}
  Nobody = Nobody
  EnqueueCap = 2
  DequeueCap = 2
SYMMETRY Symmetry
INVARIANT TypeOK
INVARIANT Unique
INVARIANT LoopMovesToEnd
PROPERTY NothingDropped
