\* One-time tickets fire, collide, are consumed and leave successors behind.
\* Two file operations on two paths; two runtimes, one of which may close, and
\* one call; three requests to the remote controller and two clients to be paired, of
\* which one is remembered.
\* Two queued starts or stops of the tunnel; two tool calls that end beside the
\* installation of an update and the exit.
SPECIFICATION PartsSpec
CONSTANTS
  LeaseTicks = 2
  CallTicks = 1
  StaleGrace = 1
  ProbeAge = 1
  EarlyTol = 1
  ClaimDelay = 2
  CollisionMin = 1
  CollisionMax = 2
  IntervalTicks = 2
  RetimeMin = 1
  ExpediteDelays = {}
  DueDelays = {1}
  Occurrences = {"once"}
  Outcomes = {}
  Reports = {"created", "consumed"}
  Tasks = {}
  CallIds = {}
  MaxTime = 4
  MaxGen = 3
  MaxRev = 2
  MaxSeq = 1
  MaxConts = 3
  MaxFileOps = 2
  NPaths = 2
  FileKinds = {"write", "edit", "patch", "undo", "move", "copy", "delete", "undelete", "external", "sweep"}
  FileFaults = {"write_fails", "cross_device", "binary", "not_utf8", "plain_delete", "stop"}
  NLeases = 2
  MaxToolCalls = 1
  Closers = {1}
  ActivityFaults = {"io_error"}
  MaxRemoteOps = 3
  RemoteClients = {1, 2}
  SavedClients = 1
  RemoteFaults = {"no_executable", "start_fails", "child_exit", "stubborn", "io_error", "restart"}
  MaxJobs = 2
  TunnelFaults = {"cli_error", "child_exit", "crash"}
  MaxRecords = 2
  ExitFaults = {"stop_fails", "close_fails", "listener_fails", "unverifiable"}
INVARIANTS
  OneGrantPerTicket
  WokenGoalHasNextWake
  PartsTypeOK
  NothingLostUnseen
  QuietIsReal
  NoDuplicateTunnel
  SettledIsSaved
  StopHolds
PROPERTIES
  QuietInstall
CHECK_DEADLOCK FALSE
