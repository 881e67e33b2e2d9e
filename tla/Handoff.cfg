\* A goal its workers abandon, under these constants; the lease under a one-time
\* ticket (renewals, retimes, the handoff) and every receipt of one-time tickets,
\* under those of the instances in MCRecovery.
SPECIFICATION WakesSpec
CONSTANTS
  LeaseTicks = 2
  CallTicks = 1
  StaleGrace = 1
  ProbeAge = 1
  EarlyTol = 1
  ClaimDelay = 2
  CollisionMin = 2
  CollisionMax = 4
  IntervalTicks = 4
  RetimeMin = 1
  ExpediteDelays = {1}
  DueDelays = {2}
  Occurrences = {"once", "interval"}
  Outcomes = {}
  Reports = {"created"}
  Tasks = {"task"}
  CallIds = {"call"}
  MaxTime = 18
  MaxGen = 3
  MaxRev = 2
  MaxSeq = 2
  MaxConts = 4
  MaxLost = 1
INVARIANTS
  AbandonedGoalIsWoken
  NeverCorrupt
PROPERTIES
  WakeSparesLiveCalls
  LeaseStopsAtHandoff
CHECK_DEADLOCK FALSE
