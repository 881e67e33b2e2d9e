------------------------------ MODULE RemoteMcp ------------------------------
(***************************************************************************)
(* RemoteMcpController: the gateway and the cloudflared tunnel that make   *)
(* the local MCP listener reachable, and what is remembered of them: the   *)
(* wish to have it running and the clients that were paired.  Requests of  *)
(* the user, of the start of the application and of remote clients         *)
(* interleave at every await; only start joins a start under way.          *)
(***************************************************************************)
EXTENDS Integers, FiniteSets

CONSTANTS
  MaxRemoteOps,   \* bound: requests
  RemoteClients,  \* clients that ask to be paired
  SavedClients,   \* how many of the paired clients are remembered: 32
  RemoteFaults    \* "no_executable", "start_fails", "child_exit", "stubborn",
                  \* "io_error", "restart"

RemoteOps == 1 .. MaxRemoteOps
\* A start has two attempts.
Tunnels == 1 .. 2 * MaxRemoteOps
RemoteKinds == {"start", "auto", "stop", "close", "install", "reset", "authorize"}

ASSUME RemoteMcpAssumption ==
  /\ MaxRemoteOps \in Nat \ {0} /\ SavedClients \in Nat
  /\ RemoteFaults \subseteq {"no_executable", "start_fails", "child_exit", "stubborn",
                             "io_error", "restart"}

VARIABLES
  remote,      \* the controller
  tunnels,     \* the cloudflared processes
  remoteOps,   \* where each request stands
  remembered,  \* the state file
  remoteSeen   \* history: tunnels that outlived their termination, whether an
               \* installation or the exit of an earlier tunnel was taken for the
               \* state of the present one, whether the file may be behind, whether
               \* close was called with no start under way, and none since

remoteVars == <<remote, tunnels, remoteOps, remembered, remoteSeen>>

RemoteState == [desired : BOOLEAN, trusted : SUBSET RemoteClients]
NothingSaved == [desired |-> FALSE, trusted |-> {}]

RemotePlaces == {"idle", "read", "begin", "ensure", "installing", "gateway", "race", "kill", "unbind",
                 "save", "done"}
NextStages == {"retry", "error", "stop", "close"}

RemoteMcpTypeOK ==
  /\ remote \in [state : {"stopped", "installing", "starting", "running", "error"}, desired : BOOLEAN,
                 trusted : SUBSET RemoteClients, gateway : BOOLEAN, origin : BOOLEAN,
                 child : {0} \cup Tunnels, loaded : BOOLEAN, installed : BOOLEAN]
  /\ tunnels \in [Tunnels -> {"up", "left", "gone"}]
  /\ remoteOps \in [RemoteOps -> [kind : RemoteKinds, at : RemotePlaces, attempt : 1 .. 2, child : {0} \cup Tunnels,
                                  next : NextStages, copy : RemoteState]]
  /\ remembered \in RemoteState
  /\ remoteSeen \in [refused : SUBSET Tunnels, misled : BOOLEAN, behind : BOOLEAN, closed : BOOLEAN]

FreshRemote(installed) ==
  [state |-> "stopped", desired |-> FALSE, trusted |-> {}, gateway |-> FALSE, origin |-> FALSE,
   child |-> 0, loaded |-> FALSE, installed |-> installed]
\* Which of the clients are saved or loaded: slice(0, 32), in whatever order they
\* registered.
Kept(trusted) ==
  {some \in SUBSET trusted : IF Cardinality(trusted) <= SavedClients THEN some = trusted
                            ELSE Cardinality(some) = SavedClients}

IdleRemoteOp == [kind |-> "start", at |-> "idle", attempt |-> 1, child |-> 0, next |-> "stop", copy |-> NothingSaved]

RemoteMcpInit ==
  /\ \E installed \in IF "no_executable" \in RemoteFaults THEN BOOLEAN ELSE {TRUE} :
       remote = FreshRemote(installed)
  /\ tunnels = [t \in Tunnels |-> "gone"]
  /\ remoteOps = [k \in RemoteOps |-> IdleRemoteOp]
  /\ remembered \in {s \in RemoteState : Cardinality(s.trusted) <= SavedClients}
  /\ remoteSeen = [refused |-> {}, misled |-> FALSE, behind |-> FALSE, closed |-> FALSE]

-----------------------------------------------------------------------------
(* What the requests are made of                                           *)

Active(k) == remoteOps[k].at \notin {"idle", "done"}
ActiveRemote == {k \in RemoteOps : Active(k)}
\* startPromise.
Starting == {k \in ActiveRemote : remoteOps[k].kind = "start"}
MayStart == {k \in ActiveRemote : remoteOps[k].kind \in {"start", "auto"}}
Saving == {k \in RemoteOps : remoteOps[k].at = "save"}

Reach(k, at) == [remoteOps EXCEPT ![k].at = at]
Answered(k) == [remoteOps EXCEPT ![k] = [IdleRemoteOp EXCEPT !.at = "done"]]
RemoteRest == UNCHANGED <<tunnels, remembered>>

Behind(b) == remoteSeen' = [remoteSeen EXCEPT !.behind = b]

\* persistState: the state is copied, and written to the file later.  What is
\* written beside another write, or before the file was read, may be overtaken.
BeginSave(k, memory) ==
  /\ \E trusted \in Kept(memory.trusted) :
       remoteOps' = [remoteOps EXCEPT ![k] =
         [@ EXCEPT !.at = "save", !.child = 0, !.next = "stop",
                   !.copy = [desired |-> memory.desired, trusted |-> trusted]]]
  /\ Behind(\E j \in RemoteOps : remoteOps[j].at \in {"save", "read"})

\* stopOwnedRuntime: the tunnel is given up before it is waited for.
GiveUpTunnel(k, memory, next) ==
  LET alive == memory.child # 0 /\ tunnels[memory.child] = "up" IN
  /\ remote' = [memory EXCEPT !.child = 0, !.origin = FALSE, !.gateway = IF alive THEN @ ELSE FALSE]
  /\ remoteOps' = [remoteOps EXCEPT ![k] = [@ EXCEPT !.at = IF alive THEN "kill" ELSE "unbind", !.next = next,
                                                      !.child = IF alive THEN memory.child ELSE 0,
                                                      !.copy = NothingSaved]]

\* A request is made; start and autoStartIfDesired differ until they join.
AskRemote(k) ==
  /\ remoteOps[k].at = "idle" /\ \A j \in RemoteOps : j < k => remoteOps[j].at # "idle"
  /\ \E kind \in RemoteKinds :
       /\ kind = "authorize" => remote.gateway
       /\ remoteOps' = IF kind = "start" /\ Starting # {} THEN Answered(k)
                       ELSE [remoteOps EXCEPT ![k] = [@ EXCEPT !.kind = kind, !.at =
                         IF kind \in {"close", "install", "authorize"} \/ remote.loaded THEN "begin" ELSE "read"]]
       /\ remote' = IF kind \in {"close", "install", "authorize"} THEN remote ELSE [remote EXCEPT !.loaded = TRUE]
       /\ remoteSeen' = [remoteSeen EXCEPT !.closed = @ /\ kind \notin {"start", "auto"}]
  /\ RemoteRest

\* ensurePersistenceLoaded: only the first one waits for the file.
ReadRemembered(k) ==
  /\ remoteOps[k].at = "read"
  /\ remoteOps' = [remoteOps EXCEPT ![k].at = "begin"]
  /\ \/ /\ \E trusted \in Kept(remembered.trusted) :
             remote' = [remote EXCEPT !.desired = remembered.desired, !.trusted = @ \cup trusted]
        /\ UNCHANGED remoteSeen
     \/ "io_error" \in RemoteFaults /\ UNCHANGED remote /\ Behind(TRUE)
  /\ RemoteRest

-----------------------------------------------------------------------------
(* The part of each request that runs without an await, once it is loaded   *)

BeginStart(k) ==
  /\ remoteOps[k].kind \in {"start", "auto"}
  /\ LET wanted == remoteOps[k].kind = "start" \/ (remote.desired /\ remote.trusted # {} /\ Starting = {}) IN
     IF ~wanted \/ remote.state = "running" THEN remoteOps' = Answered(k) /\ UNCHANGED remote
     ELSE /\ remoteOps' = [remoteOps EXCEPT ![k] = [@ EXCEPT !.at = "ensure", !.kind = "start"]]
          /\ remote' = [remote EXCEPT !.state = "starting"]
  /\ UNCHANGED remoteSeen

BeginStop(k) ==
  /\ remoteOps[k].kind \in {"stop", "close"}
  /\ GiveUpTunnel(k, [remote EXCEPT !.state = "stopped",
                                    !.desired = IF remoteOps[k].kind = "stop" THEN FALSE ELSE @],
                  remoteOps[k].kind)
  /\ remoteSeen' = [remoteSeen EXCEPT !.closed = @ \/ (remoteOps[k].kind = "close" /\ MayStart = {})]

BeginInstall(k) ==
  /\ remoteOps[k].kind = "install"
  /\ IF remote.installed THEN remoteOps' = Answered(k) /\ UNCHANGED <<remote, remoteSeen>>
     ELSE /\ remoteOps' = Reach(k, "installing") /\ remote' = [remote EXCEPT !.state = "installing"]
          /\ remoteSeen' = [remoteSeen EXCEPT !.misled = @ \/ Starting # {}]

BeginReset(k) ==
  /\ remoteOps[k].kind = "reset"
  /\ remote' = [remote EXCEPT !.trusted = {}]
  /\ BeginSave(k, remote')

\* handleAuthorize and issueTokens: a client that is paired, or one that was.
BeginAuthorize(k) ==
  /\ remoteOps[k].kind = "authorize"
  /\ \E c \in RemoteClients : remote' = [remote EXCEPT !.trusted = @ \cup {c}]
  /\ BeginSave(k, remote')

BeginRemote(k) ==
  /\ remoteOps[k].at = "begin"
  /\ BeginStart(k) \/ BeginStop(k) \/ BeginInstall(k) \/ BeginReset(k) \/ BeginAuthorize(k)
  /\ RemoteRest

-----------------------------------------------------------------------------
(* startInternal                                                           *)

EnsureEnds(k) ==
  /\ remoteOps[k].at = "ensure"
  /\ \/ /\ remoteOps' = Reach(k, IF remote.installed THEN "gateway" ELSE "installing")
        /\ remote' = IF remote.installed THEN remote ELSE [remote EXCEPT !.state = "installing"]
     \/ "start_fails" \in RemoteFaults /\ GiveUpTunnel(k, remote, "error")
  /\ UNCHANGED remoteSeen /\ RemoteRest

\* installProvider: its end sets the state, whatever was started meanwhile.
InstallEnds(k) ==
  /\ remoteOps[k].at = "installing"
  /\ IF remoteOps[k].kind = "install"
     THEN \E ok \in BOOLEAN :
            /\ remoteOps' = Answered(k)
            /\ remote' = [remote EXCEPT !.state = IF ok THEN "stopped" ELSE "error", !.installed = @ \/ ok]
            /\ remoteSeen' = [remoteSeen EXCEPT !.misled = @ \/ Starting # {} \/ remote.state = "running"]
     ELSE /\ UNCHANGED remoteSeen
          /\ \/ /\ remoteOps' = Reach(k, "gateway")
                /\ remote' = [remote EXCEPT !.state = "starting", !.installed = TRUE]
             \/ GiveUpTunnel(k, remote, "error")
  /\ RemoteRest

\* The process ids that are not in use.
Free == {t \in Tunnels : tunnels[t] = "gone" /\ \A k \in RemoteOps : remoteOps[k].child # t} \ remoteSeen.refused
NewTunnel == CHOOSE t \in Free : \A u \in Free : t <= u

\* startGateway, and spawn: the field is overwritten.
SpawnTunnel(k) ==
  /\ remoteOps[k].at = "gateway"
  /\ \/ /\ Free # {}
        /\ remoteOps' = [remoteOps EXCEPT ![k] = [@ EXCEPT !.at = "race", !.child = NewTunnel]]
        /\ tunnels' = [tunnels EXCEPT ![NewTunnel] = "up"]
        /\ remote' = [remote EXCEPT !.gateway = TRUE, !.child = NewTunnel]
     \/ "start_fails" \in RemoteFaults /\ GiveUpTunnel(k, remote, "error") /\ UNCHANGED tunnels
  /\ UNCHANGED <<remembered, remoteSeen>>

\* The public name is known and the connection registered.
TunnelReady(k) ==
  /\ remoteOps[k].at = "race" /\ tunnels[remoteOps[k].child] = "up"
  /\ remote' = [remote EXCEPT !.origin = TRUE, !.state = "running", !.desired = TRUE]
  /\ BeginSave(k, remote')
  /\ RemoteRest

\* Mutant: an attempt that failed leaves its tunnel to itself.
AttemptFailsLeaving(k) ==
  /\ remoteOps' = IF remoteOps[k].attempt = 1
                  THEN [remoteOps EXCEPT ![k] = [@ EXCEPT !.at = "gateway", !.attempt = 2]] ELSE Answered(k)
  /\ remote' = [remote EXCEPT !.state = IF remoteOps[k].attempt = 1 THEN "starting" ELSE "error"]
AttemptFails(k) == GiveUpTunnel(k, remote, IF remoteOps[k].attempt = 1 THEN "retry" ELSE "error")

\* The process has ended, or thirty seconds are over.
RaceLost(k) ==
  /\ remoteOps[k].at = "race"
  /\ tunnels[remoteOps[k].child] = "gone" \/ "start_fails" \in RemoteFaults
  /\ AttemptFails(k)
  /\ UNCHANGED remoteSeen /\ RemoteRest

-----------------------------------------------------------------------------
(* stopOwnedRuntime, and what follows it                                   *)

\* The tunnel has gone: the gateway is given up, too.
Terminated(k) ==
  /\ remoteOps[k].at = "kill" /\ tunnels[remoteOps[k].child] = "gone"
  /\ remote' = [remote EXCEPT !.gateway = FALSE]
  /\ remoteOps' = [remoteOps EXCEPT ![k] = [@ EXCEPT !.at = "unbind", !.child = 0]]
  /\ UNCHANGED remoteSeen /\ RemoteRest

\* It outlives both signals: no automatic retry; the request fails, a start
\* after it has closed its gateway.
TerminationFails(k) ==
  LET o == remoteOps[k] IN
  /\ "stubborn" \in RemoteFaults /\ o.at = "kill" /\ tunnels[o.child] = "up"
  /\ remoteSeen' = [remoteSeen EXCEPT !.refused = @ \cup {o.child}, !.behind = @ \/ o.next = "stop"]
  /\ IF o.next = "retry" THEN GiveUpTunnel(k, remote, "error")
     ELSE remoteOps' = Answered(k) /\ UNCHANGED remote
  /\ RemoteRest

\* Mutant: what stop saves is what it left when it began to wait.
StopSavesEarlier(k) == BeginSave(k, [remote EXCEPT !.desired = FALSE])
StopSaves(k) == BeginSave(k, remote)

Unbound(k) ==
  LET o == remoteOps[k] IN
  /\ o.at = "unbind"
  /\ \/ /\ o.next = "retry"
        /\ remoteOps' = [remoteOps EXCEPT ![k] = [@ EXCEPT !.at = "gateway", !.attempt = 2, !.next = "stop"]]
        /\ remote' = [remote EXCEPT !.state = "starting"] /\ UNCHANGED remoteSeen
     \/ /\ o.next = "error"
        /\ remoteOps' = Answered(k)
        /\ remote' = [remote EXCEPT !.state = "error"] /\ UNCHANGED remoteSeen
     \/ o.next = "stop" /\ StopSaves(k) /\ UNCHANGED remote
     \/ o.next = "close" /\ remoteOps' = Answered(k) /\ UNCHANGED <<remote, remoteSeen>>
  /\ RemoteRest

SaveEnds(k) ==
  /\ remoteOps[k].at = "save"
  /\ remembered' = remoteOps[k].copy /\ remoteOps' = Answered(k)
  /\ UNCHANGED <<remote, tunnels, remoteSeen>>

\* A start whose state cannot be saved counts as an attempt that failed.
SaveFails(k) ==
  /\ "io_error" \in RemoteFaults /\ remoteOps[k].at = "save"
  /\ IF remoteOps[k].kind = "start" THEN AttemptFails(k)
     ELSE remoteOps' = Answered(k) /\ UNCHANGED remote
  /\ Behind(TRUE) /\ RemoteRest

-----------------------------------------------------------------------------
(* The surroundings                                                        *)

\* error and exit of the child: of whichever child.
TunnelExits(t) ==
  /\ tunnels[t] = "up"
  /\ "child_exit" \in RemoteFaults \/ \E k \in RemoteOps : remoteOps[k].at = "kill" /\ remoteOps[k].child = t
  /\ tunnels' = [tunnels EXCEPT ![t] = "gone"]
  /\ remoteSeen' = [remoteSeen EXCEPT !.misled = @ \/ remote.child \notin {0, t}]
  /\ remote' = [remote EXCEPT !.state = IF @ = "stopped" THEN @ ELSE "error", !.origin = FALSE,
                              !.child = IF @ = t THEN 0 ELSE @]
  /\ UNCHANGED <<remoteOps, remembered>>

\* The application ends, after its close or without, and is started again with the
\* state file as it was left, or torn.  The tunnels that run outlive it, and
\* the next controller does not know them.
RemoteRestart ==
  /\ "restart" \in RemoteFaults /\ remote.loaded
  /\ remote' = FreshRemote(remote.installed)
  /\ tunnels' = [t \in Tunnels |-> IF tunnels[t] = "up" THEN "left" ELSE tunnels[t]]
  /\ remoteOps' = [k \in RemoteOps |-> IF Active(k) THEN [IdleRemoteOp EXCEPT !.at = "done"] ELSE remoteOps[k]]
  /\ remoteSeen' = [remoteSeen EXCEPT !.misled = FALSE, !.behind = FALSE, !.closed = FALSE]
  /\ remembered' \in {remembered} \cup (IF Saving = {} THEN {} ELSE {NothingSaved})

RemoteStep(k) ==
  \/ AskRemote(k) \/ ReadRemembered(k) \/ EnsureEnds(k) \/ InstallEnds(k)
  \/ SpawnTunnel(k) \/ TunnelReady(k) \/ RaceLost(k) \/ Terminated(k) \/ TerminationFails(k)
  \/ Unbound(k) \/ SaveEnds(k) \/ SaveFails(k)

Beginning == {k \in RemoteOps : remoteOps[k].at = "begin"}

\* A request that is loaded begins at once.
RemoteMcpNext ==
  \/ \E k \in Beginning : BeginRemote(k)
  \/ /\ Beginning = {}
     /\ \/ \E k \in RemoteOps : RemoteStep(k)
        \/ \E t \in Tunnels : TunnelExits(t)
        \/ RemoteRestart

RemoteMcpSpec == RemoteMcpInit /\ [][RemoteMcpNext]_remoteVars

-----------------------------------------------------------------------------

Killing == {remoteOps[k].child : k \in {j \in RemoteOps : remoteOps[j].at = "kill"}}

\* While the application lives, a cloudflared process that it started and that runs
\* is the one the controller has or one that is being terminated: a start, its
\* second attempt, a stop and a close leave no tunnel to itself, however they
\* interleave; and once a close with no start under way has been answered, none
\* runs for the end of the application to leave behind.  (A start that is under
\* way goes on after close, which then leaves its second tunnel; so does a crash.)
\* Excepted are a tunnel whose termination was reported to have failed, and what
\* follows once an installation, or the exit of an earlier tunnel, was taken for
\* the state of the present one: a start then puts a second tunnel in its place.
\* ("to avoid duplicate tunnels", remote-mcp-controller.ts:643; 217-322, 561-577)
NoDuplicateTunnel ==
  \A t \in Tunnels \ remoteSeen.refused : tunnels[t] = "up" /\ ~remoteSeen.misled =>
    /\ t = remote.child \/ t \in Killing
    /\ ~(remoteSeen.closed /\ ActiveRemote = {})

\* When nothing is under way, the next start of the application will find what
\* this one shows: whether Remote MCP is to run, and the clients that were paired,
\* all of them as long as they are no more than the 32 that are saved, and 32 of
\* them otherwise: a client that is told it is remembered then may not be --
\* unless the last save ran beside another or before the file was read, or
\* failed.  (stop, start, regeneratePairingCode, handleAuthorize, persistState:
\* remote-mcp-controller.ts:172-182, 281-287, 309-317, 436-441, 524-559)
SettledIsSaved ==
  remote.loaded /\ ActiveRemote = {} /\ ~remoteSeen.behind =>
    /\ remembered.desired = remote.desired
    /\ remembered.trusted \in Kept(remote.trusted)
=============================================================================
