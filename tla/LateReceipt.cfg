\* A created receipt between the two last transactions of finish_goal.
SPECIFICATION Spec
CONSTANTS
  LeaseTicks = 2
  CallTicks = 1
  StaleGrace = 1
  ProbeAge = 1
  EarlyTol = 1
  ClaimDelay = 2
  CollisionMin = 2
  CollisionMax = 4
  IntervalTicks = 2
  RetimeMin = 1
  ExpediteDelays = {1}
  DueDelays = {1}
  Occurrences = {"interval"}
  Outcomes = {"completed", "failed"}
  Reports = {"created", "create_failed"}
  Tasks = {}
  CallIds = {}
  MaxTime = 2
  MaxGen = 2
  MaxRev = 2
  MaxSeq = 1
  MaxConts = 1
PROPERTIES
  FinishLeavesNoWatchdog
CHECK_DEADLOCK FALSE
