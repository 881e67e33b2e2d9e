\* Nothing goes wrong, the command merely ends at once.
SPECIFICATION ShellTaskSpec
CONSTANTS
  Clients = {c1}
  Faults = {}
INVARIANTS
  TimedOutMeansKilled
CHECK_DEADLOCK FALSE
