SPECIFICATION FairSpec
CONSTANTS
  Tasks = {t1}
  Runners = {r1, r2}
  Definitions <- MCOne
  MaxAttempts = 1
  QueueSize = 1
  Leaves = {"absent"}
  Slow = TRUE
  Budgets <- MCOneEach
PROPERTY RestartsUnhealthy
