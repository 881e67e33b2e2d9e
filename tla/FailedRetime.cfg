\* A checkpoint or a refresh after the host failed a retime.
SPECIFICATION Spec
CONSTANTS
  LeaseTicks = 2
  CallTicks = 1
  StaleGrace = 1
  ProbeAge = 1
  EarlyTol = 1
  ClaimDelay = 2
  CollisionMin = 1
  CollisionMax = 2
  IntervalTicks = 2
  RetimeMin = 1
  ExpediteDelays = {}
  DueDelays = {1, 3}
  Occurrences = {"once"}
  Outcomes = {}
  Reports = {"created", "reschedule_failed"}
  Tasks = {}
  CallIds = {}
  MaxTime = 4
  MaxGen = 1
  MaxRev = 3
  MaxSeq = 1
  MaxConts = 1
PROPERTIES
  RenewalStopsAtHandoff
CHECK_DEADLOCK FALSE
