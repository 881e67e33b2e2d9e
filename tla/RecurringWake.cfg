\* A goal under one recurring watchdog (the only kind the service creates).
SPECIFICATION Spec
CONSTANTS
  LeaseTicks = 2
  CallTicks = 2
  StaleGrace = 1
  ProbeAge = 1
  EarlyTol = 1
  ClaimDelay = 2
  CollisionMin = 2
  CollisionMax = 4
  IntervalTicks = 2
  RetimeMin = 1
  ExpediteDelays = {1}
  DueDelays = {1}
  Occurrences = {"interval"}
  Outcomes = {}
  Reports = {"created"}
  Tasks = {t1}
  CallIds = {c1}
  MaxTime = 3
  MaxGen = 3
  MaxRev = 2
  MaxSeq = 2
  MaxConts = 1
INVARIANTS
  QuietObservationHolds
  OneGrantPerTick
PROPERTIES
  ImplementsFencedJournal
  NoTheftFromLiveCall
  NoTheftFromRunningTask
  OnlyStaleLeaseIsTaken
CHECK_DEADLOCK FALSE
