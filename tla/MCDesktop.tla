------------------------------ MODULE MCDesktop ------------------------------
(***************************************************************************)
(* Parts of one machine that share no state: a goal woken by one-time      *)
(* tickets, the files of a workspace, the activity of the MCP runtimes,    *)
(* remote access, the tunnel, the exit of the desktop.  Each behaviour is  *)
(* one of one part, the focus, while the others stay as they begin: one    *)
(* run checks them all, every step against the properties of its part.     *)
(***************************************************************************)
EXTENDS GoalRepository, WorkspaceFiles, SharedActivity, RemoteMcp, TunnelControl,
        DesktopExit

VARIABLE focus

Parts == {"goal", "files", "activity", "remote", "tunnel", "exit"}

partVars == <<vars, fileVars, activityVars, remoteVars, tunnelVars, exitVars, focus>>

\* A part that is not looked at begins in one state only.
PartsInit ==
  /\ focus \in Parts
  /\ Init
  /\ WorkspaceFilesInit
  /\ focus # "files" => trash[0] = EarlierItem("deleted") /\ \A p \in FilePaths : ~Exists(p)
  /\ SharedActivityInit
  /\ RemoteMcpInit
  /\ focus # "remote" => remote.installed /\ remembered = NothingSaved
  /\ TunnelControlInit /\ (focus # "tunnel" => tunnel = FreshController(FALSE, FALSE))
  /\ DesktopExitInit

\* The parts other than s stay as they are.
OtherPartsRest(s) ==
  /\ focus = s /\ UNCHANGED focus
  /\ s # "goal" => UNCHANGED vars
  /\ s # "files" => UNCHANGED fileVars
  /\ s # "activity" => UNCHANGED activityVars
  /\ s # "remote" => UNCHANGED remoteVars
  /\ s # "tunnel" => UNCHANGED tunnelVars
  /\ s # "exit" => UNCHANGED exitVars

PartsNext ==
  \/ OtherPartsRest("goal") /\ Next
  \/ OtherPartsRest("files") /\ WorkspaceFilesNext
  \/ OtherPartsRest("activity") /\ SharedActivityNext
  \/ OtherPartsRest("remote") /\ RemoteMcpNext
  \/ OtherPartsRest("tunnel") /\ TunnelControlNext
  \/ OtherPartsRest("exit") /\ DesktopExitNext

PartsSpec == PartsInit /\ [][PartsNext]_partVars

\* Every variable of every part keeps its type.
PartsTypeOK ==
  CASE focus = "goal" -> TypeOK
    [] focus = "files" -> WorkspaceFilesTypeOK
    [] focus = "activity" -> SharedActivityTypeOK
    [] focus = "remote" -> RemoteMcpTypeOK
    [] focus = "tunnel" -> TunnelControlTypeOK
    [] focus = "exit" -> DesktopExitTypeOK
=============================================================================
