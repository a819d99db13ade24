SPECIFICATION Spec
CONSTANTS
  TaskIDs = {i1}
  Objects = {o1, o2}
  Interval = 3
  RetryDelay = 2
  MaxRetries = 3
  MaxRuns = 2
  NoTask = NoTask
  Hooks = {1, 2, 3}
  Priorities = {0, 10}
  Clients = {c1, c2, trusted}
  Whitelist = {trusted}
  Requests = {r1, r2}
  Buckets = {1, 2, 3, 4}
  None = None
  Rate = 1
  Burst = 2
  MaxLimiters = 1
  MaxCleanups = 1
  Holders = {p1, p2}
  Amounts = {1, 2}
  MaxStray = 3
  MaxMemory = 3
  MaxGoroutines = 1
CHECK_DEADLOCK FALSE
INVARIANTS
  SchedTypeOK
  ShutdownTypeOK
  LimitTypeOK
  PriorityOrderKept
  OutcomeIsOwn
  ReturnedIsOver
  AdmissionsBounded
  ResourcesAccounted
PROPERTIES
  TasksRun
  ShutdownCompletes
