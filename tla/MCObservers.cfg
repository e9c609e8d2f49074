SPECIFICATION Spec
CONSTANTS
  Hosts = {h1}
  Tasks = {t1, t2}
  Checks = {"http"}
  ChecksOf <- MCChecksOf
  None = None
  Tolerance = 1
  MaxEvents = 3
  Services = {s1}
  Managing = {}
  TasksOf <- MCTasksOf
  Clients = {c1}
  MaxEdits = 2
INVARIANT TypeOK
INVARIANT Backed
PROPERTY Covered
PROPERTY Settled
PROPERTY AnswersUntilFound
