SPECIFICATION Spec
CONSTANTS
  Calls = {1, 2}
  CallFaults = {"row_error", "restart"}
  Callers = {1, 2}
  Configs = {f1, f2}
  MaxChildren = 2
  NTasks = 3
  MaxConcurrency = 2
  SwarmFaults = {"handle_lost", "abort", "restart"}
  Paths = {pa, pb}
  Concurrency = 2
  Drainers = {d1}
  MaxChanges = 3
  Procs = {p1, p2, p3}
  Launchers = {p2, p3}
  MaxLives = 2
  LockFaults = {"crash", "helper_dies", "unverifiable", "delete_fails", "restore_fails"}
  Apps = {desktop, cli}
  MaxBackups = 3
  MaxWrites = 1
  Retention = 1
  BackupFaults = {"rename_fails"}
  Runtimes = {r1, r2, r3}
  MaxShared = 2
  StateFaults = {"io_error", "crash"}
  BatchCalls = 3
  BatchSets = 2
  MaxParallel = 2
  MaxDependencies = 2
  MaxFailing = 1
  MaxUnsafe = 1
  CommandFaults = {"restart"}
INVARIANTS
  ServicesTypeOK
  StopReachesAllWork
  FencedToTheEnd
  NoChildIsLostAlone
  ReplacedDataCanBeRestored
  ConfirmedChangeStands
  BatchFollowsThePlan
  StoppedMeansStopped
PROPERTIES
  EveryCallIsRecorded
  EveryOperationIsAnswered
  LaunchedInOrder
  SwarmSettles
  GoneMeansGone
  EveryChangeIsLookedAt
  ImplementsLock
  AbortIsPursued
CHECK_DEADLOCK FALSE
