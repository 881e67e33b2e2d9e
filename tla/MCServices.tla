----------------------------- MODULE MCServices -----------------------------
(***************************************************************************)
(* The services around the durable goals.  They share no state with each   *)
(* other, so each behaviour is one of one service, the focus, while the     *)
(* others stay as they begin: one run checks them all.                     *)
(***************************************************************************)
EXTENDS ToolCalls, McpSessions, AgentSwarm, ManagedProcess, WorkspaceIndex,
        ShellCommand, TunnelLock, Backups, RuntimeState, ToolBatch

VARIABLE focus

Services == {"calls", "mcp", "agents", "process", "index", "command", "lock",
             "backups", "state", "batch"}

serviceVars == <<callVars, mcpVars, swarmVars, procVars, indexVars, commandVars,
                 lockVars, backupVars, stateVars, batchVars, focus>>

FirstConfig == CHOOSE f \in Configs : TRUE
FirstPlan == CHOOSE p \in Plans : TRUE

\* One of the plans that run alike: `unsafe` is not read in a set that is not
\* parallel, nor `parallel` of a set without calls.
Representative(p) ==
  /\ \A c \in p.unsafe : p.parallel[p.set[c]]
  /\ \A s \in Sets : p.parallel[s] \/ \E c \in BatchIds : p.set[c] = s

\* A service that is not looked at begins in one state only.
Init ==
  /\ focus \in Services
  /\ ToolCallsInit
  /\ McpSessionsInit /\ (focus # "mcp" => \A c \in Callers : callers[c].config = FirstConfig)
  /\ AgentSwarmInit
  /\ ManagedProcessInit
  /\ WorkspaceIndexInit
  /\ TunnelLockInit /\ (focus # "lock" => lockFile = NoOwner)
  /\ BackupsInit
  /\ RuntimeStateInit
  /\ ToolBatchInit /\ (IF focus = "batch" THEN Representative(plan) ELSE plan = FirstPlan)
  /\ ShellCommandInit

-----------------------------------------------------------------------------

\* The services other than s stay as they are.
OthersRest(s) ==
  /\ focus = s /\ UNCHANGED focus
  /\ s # "calls" => UNCHANGED callVars
  /\ s # "mcp" => UNCHANGED mcpVars
  /\ s # "agents" => UNCHANGED swarmVars
  /\ s # "process" => UNCHANGED procVars
  /\ s # "index" => UNCHANGED indexVars
  /\ s # "lock" => UNCHANGED lockVars
  /\ s # "backups" => UNCHANGED backupVars
  /\ s # "state" => UNCHANGED stateVars
  /\ s # "batch" => UNCHANGED batchVars
  /\ s # "command" => UNCHANGED commandVars

Next ==
  \/ OthersRest("calls") /\ ToolCallsNext
  \/ OthersRest("mcp") /\ McpSessionsNext
  \/ OthersRest("agents") /\ AgentSwarmNext
  \/ OthersRest("process") /\ ManagedProcessNext
  \/ OthersRest("index") /\ WorkspaceIndexNext
  \/ OthersRest("lock") /\ TunnelLockNext
  \/ OthersRest("backups") /\ BackupsNext
  \/ OthersRest("state") /\ RuntimeStateNext
  \/ OthersRest("batch") /\ ToolBatchNext
  \/ OthersRest("command") /\ ShellCommandNext

\* The fairness of the services, WF of each of these steps; a behaviour has one
\* focus, so one formula stands for the i-th step of every service.
FairStep(i) ==
  \/ focus = "calls" /\ i \in Calls /\ CallStep(i) /\ OthersRest("calls")
  \/ focus = "mcp" /\ i \in Callers /\ CallerStep(i) /\ OthersRest("mcp")
  \/ focus = "agents" /\ i = 1 /\ MonitorStep /\ OthersRest("agents")
  \/ focus = "agents" /\ i = 2 /\ Stopped /\ OthersRest("agents")
  \/ focus = "agents" /\ i = 3 /\ CodexExits /\ OthersRest("agents")
  \/ focus = "index" /\ i \in Slots /\ WorkerStep(i) /\ OthersRest("index")
  \/ focus = "index" /\ i = 3 /\ TimerFires /\ OthersRest("index")
  \/ focus = "command" /\ i = 1 /\ (RunRetries \/ WaitForExitEnds) /\ OthersRest("command")
  \/ focus = "command" /\ i = 2 /\ (SpawnFails \/ ExitEvent) /\ OthersRest("command")

Spec == Init /\ [][Next]_serviceVars /\ \A i \in 1 .. 3 : WF_serviceVars(FairStep(i))

\* Every variable of every service keeps its type.
ServicesTypeOK ==
  /\ ToolCallsTypeOK /\ McpSessionsTypeOK /\ AgentSwarmTypeOK /\ ManagedProcessTypeOK
  /\ WorkspaceIndexTypeOK /\ ShellCommandTypeOK /\ TunnelLockTypeOK
  /\ BackupsTypeOK /\ RuntimeStateTypeOK /\ ToolBatchTypeOK
=============================================================================
