\* A ticket reported as consumed is claimed after another goal of its workspace has
\* prepared a watchdog of its own.
SPECIFICATION WorkspaceSpec
CONSTANTS
  LeaseTicks = 2
  CallTicks = 1
  StaleGrace = 1
  ProbeAge = 1
  EarlyTol = 1
  ClaimDelay = 2
  CollisionMin = 1
  CollisionMax = 2
  IntervalTicks = 2
  RetimeMin = 1
  ExpediteDelays = {}
  DueDelays = {1}
  Occurrences = {"once"}
  Outcomes = {}
  Reports = {"created", "consumed"}
  Tasks = {}
  CallIds = {}
  MaxTime = 1
  MaxGen = 1
  MaxRev = 1
  MaxSeq = 1
  MaxConts = 2
INVARIANTS
  OneScheduledGoal
CHECK_DEADLOCK FALSE
