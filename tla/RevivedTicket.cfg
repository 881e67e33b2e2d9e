\* A create_uncertain receipt for a ticket that has already fired.
SPECIFICATION Spec
CONSTANTS
  LeaseTicks = 2
  CallTicks = 1
  StaleGrace = 1
  ProbeAge = 1
  EarlyTol = 1
  ClaimDelay = 2
  CollisionMin = 1
  CollisionMax = 2
  IntervalTicks = 2
  RetimeMin = 1
  ExpediteDelays = {}
  DueDelays = {1}
  Occurrences = {"once"}
  Outcomes = {}
  Reports = {"created", "create_failed", "create_uncertain"}
  Tasks = {}
  CallIds = {}
  MaxTime = 4
  MaxGen = 3
  MaxRev = 1
  MaxSeq = 1
  MaxConts = 3
INVARIANTS
  OneGrantPerTicket
CHECK_DEADLOCK FALSE
