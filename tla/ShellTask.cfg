\* One task, every fault, two clients that look or cancel at any moment.
SPECIFICATION ShellTaskFairSpec
CONSTANTS
  Clients = {c1, c2}
  Faults = {"worker_crash", "stubborn_child", "no_executable", "write_fails", "app_stops"}
INVARIANTS
  NoVerdictOverLiveChild
PROPERTIES
  CompletionStands
  EveryTaskSettles
CHECK_DEADLOCK FALSE
