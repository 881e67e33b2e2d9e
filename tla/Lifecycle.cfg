\* How a goal ends: finish_goal and cancel_goal handlers interleaved with
\* receipts, wakes and cleanup of its recurring watchdog.
SPECIFICATION Spec
CONSTANTS
  LeaseTicks = 2
  CallTicks = 1
  StaleGrace = 1
  ProbeAge = 1
  EarlyTol = 1
  ClaimDelay = 2
  CollisionMin = 2
  CollisionMax = 4
  IntervalTicks = 2
  RetimeMin = 1
  ExpediteDelays = {1}
  DueDelays = {1}
  Occurrences = {"interval"}
  Outcomes = {"completed", "failed"}
  Reports = {"created", "cancelled", "cancel_failed", "cancel_uncertain"}
  Tasks = {}
  CallIds = {}
  MaxTime = 3
  MaxGen = 3
  MaxRev = 2
  MaxSeq = 1
  MaxConts = 1
PROPERTIES
  FinishLeavesNoWatchdog
  CleanupUntilProved
CHECK_DEADLOCK FALSE
