\* A holder that refreshes its watchdog between two orphan probes.
SPECIFICATION Spec
CONSTANTS
  LeaseTicks = 2
  CallTicks = 1
  StaleGrace = 1
  ProbeAge = 1
  EarlyTol = 1
  ClaimDelay = 2
  CollisionMin = 1
  CollisionMax = 2
  IntervalTicks = 2
  RetimeMin = 1
  ExpediteDelays = {}
  DueDelays = {1}
  Occurrences = {"once"}
  Outcomes = {}
  Reports = {"created", "consumed"}
  Tasks = {}
  CallIds = {}
  MaxTime = 4
  MaxGen = 3
  MaxRev = 2
  MaxSeq = 1
  MaxConts = 3
PROPERTIES
  OrphanStayedSilent
CHECK_DEADLOCK FALSE
