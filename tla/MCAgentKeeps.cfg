SPECIFICATION FairSpec
CONSTANTS
  Tasks = {t1}
  Runners = {r1, r2}
  Definitions <- MCAll
  MaxAttempts = 1
  QueueSize = 1
  Leaves = {"absent", "dead"}
  Slow = FALSE
  Budgets <- MCFewChanges
INVARIANT TypeOK
INVARIANT OneStart
INVARIANT AttemptsBounded
PROPERTY HealthyOrGivenUp
PROPERTY StopsUnscheduled
