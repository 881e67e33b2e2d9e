---------------------------- MODULE DesktopExit ----------------------------
(***************************************************************************)
(* How the desktop ends: the update install that waits for quiet, the quit *)
(* that goes through the shutdown of the owned runtime, and the local MCP  *)
(* listener, started and stopped by the user, the tunnel and the exit.     *)
(***************************************************************************)
EXTENDS Integers

CONSTANTS
  MaxRecords,  \* bound: starts and ends of tool calls, here and in other processes
  ExitFaults   \* "stop_fails", "close_fails", "listener_fails", "unverifiable"

ASSUME DesktopExitAssumption ==
  /\ MaxRecords \in Nat
  /\ ExitFaults \subseteq {"stop_fails", "close_fails", "listener_fails", "unverifiable"}

VARIABLES
  activity,  \* tool calls of the desktop, and of the processes that share theirs
  update,    \* updateStatus.phase, the request of the user, the running tunnel
  wait,      \* UpdateInstallCoordinator
  leaving,   \* the install callback, the shutdown coordinator, runtime.close
  listener   \* DesktopMcpLifecycle

exitVars == <<activity, update, wait, leaving, listener>>

Tally == [active : 0 .. 1, rev : 0 .. MaxRecords]

DesktopExitTypeOK ==
  /\ activity \in [here : Tally, there : Tally, since : BOOLEAN]
  /\ update \in [phase : {"ready", "installing", "error"}, tunnel : BOOLEAN,
                 asking : {"no", "status", "confirm", "stop"}]
  /\ wait \in [pending : BOOLEAN, off : BOOLEAN, late : BOOLEAN, over : BOOLEAN,
               at : {"rest", "tunnel", "shared", "poll"}, quiet : BOOLEAN,
               seen : Tally, mark : (0 .. MaxRecords) \X (-1 .. MaxRecords)]
  /\ leaving \in [install : {"none", "stop", "backup"}, want : {"none", "normal", "install"},
                  close : {"no", "tunnel", "listener"}, issued : {"none", "normal", "install"}]
  /\ listener \in [on : BOOLEAN, starting : BOOLEAN, stop : {"no", "waits", "closes"},
                   again : BOOLEAN, stopped : BOOLEAN]

NoCalls == [active |-> 0, rev |-> 0]

DesktopExitInit ==
  /\ activity = [here |-> NoCalls, there |-> NoCalls, since |-> FALSE]
  /\ update = [phase |-> "ready", tunnel |-> TRUE, asking |-> "no"]
  /\ wait = [pending |-> FALSE, off |-> FALSE, late |-> FALSE, over |-> FALSE, at |-> "rest",
             quiet |-> FALSE, seen |-> NoCalls, mark |-> <<0, -1>>]
  /\ leaving = [install |-> "none", want |-> "none", close |-> "no", issued |-> "none"]
  /\ listener = [on |-> FALSE, starting |-> FALSE, stop |-> "no", again |-> FALSE, stopped |-> FALSE]

Runs == leaving.issued = "none"

-----------------------------------------------------------------------------
(* Tool calls, and the tunnel as the user turns it                        *)

Recorded(tally) == [active |-> 1 - tally.active, rev |-> tally.rev + 1]

CallHere ==
  /\ activity.here.rev < MaxRecords
  /\ activity' = [activity EXCEPT !.here = Recorded(@), !.since = TRUE]
  /\ UNCHANGED <<update, wait, leaving, listener>>

CallThere ==
  /\ activity.there.rev < MaxRecords
  /\ activity' = [activity EXCEPT !.there = Recorded(@)]
  /\ UNCHANGED <<update, wait, leaving, listener>>

TunnelComesUp ==
  /\ ~update.tunnel /\ Runs
  /\ update' = [update EXCEPT !.tunnel = TRUE]
  /\ UNCHANGED <<activity, wait, leaving, listener>>

-----------------------------------------------------------------------------
(* requestUpdateInstall                                                   *)

RequestUpdateInstall ==
  /\ update.phase = "ready" /\ update.asking = "no" /\ Runs
  /\ update' = [update EXCEPT !.asking = "status"]
  /\ UNCHANGED <<activity, wait, leaving, listener>>

\* confirmTunnelStopForUpdate: a tunnel that runs, or may run, needs consent.
LookAtTunnel ==
  /\ update.asking = "status"
  /\ \/ ~update.tunnel /\ update' = [update EXCEPT !.asking = "stop"]
     \/ /\ update.tunnel \/ "unverifiable" \in ExitFaults
        /\ update' = [update EXCEPT !.asking = "confirm"]
  /\ UNCHANGED <<activity, wait, leaving, listener>>

Confirm ==
  /\ update.asking = "confirm"
  /\ \E answer \in {"no", "stop"} : update' = [update EXCEPT !.asking = answer]
  /\ UNCHANGED <<activity, wait, leaving, listener>>

\* A fresh evaluation of the coordinator.
Evaluated(w) ==
  [w EXCEPT !.at = "tunnel", !.quiet = FALSE, !.seen = activity.here]

\* stopTunnelForUpdateInstall, then the coordinator is asked; it ignores a
\* request while one is pending or after the quit.
StopForUpdate ==
  /\ update.asking = "stop"
  /\ \/ /\ update' = [update EXCEPT !.asking = "no", !.tunnel = FALSE, !.phase = "installing"]
        /\ wait' = IF wait.off \/ wait.pending THEN wait
                   ELSE Evaluated([wait EXCEPT !.pending = TRUE, !.late = FALSE])
     \/ /\ "stop_fails" \in ExitFaults
        /\ update' = [update EXCEPT !.asking = "no", !.phase = "ready"] /\ UNCHANGED wait
  /\ UNCHANGED <<activity, leaving, listener>>

-----------------------------------------------------------------------------
(* UpdateInstallCoordinator                                               *)

\* maybeForceInstall: the grace period of maxWaitMs has passed.
Forced == wait.late

\* The install callback begins.
Installs ==
  /\ wait' = [wait EXCEPT !.pending = FALSE, !.late = FALSE, !.at = "rest"]
  /\ leaving' = [leaving EXCEPT !.install = "stop"]

\* cancel came while an observation was in flight.
Cancelled == wait.off /\ wait' = [wait EXCEPT !.at = "rest"] /\ UNCHANGED <<activity, leaving>>

\* An observation that cannot be trusted, or found calls: poll on, or leave the
\* quiet period for a fresh evaluation, which the deadline may cut short.
NotQuiet ==
  \/ Cancelled
  \/ /\ ~wait.off /\ UNCHANGED activity
     /\ IF wait.quiet /\ Forced THEN Installs
        ELSE /\ wait' = IF wait.quiet THEN Evaluated(wait) ELSE [wait EXCEPT !.at = "poll"]
             /\ UNCHANGED leaving

\* An observation that found none.  In evaluate it starts the quiet period,
\* whose first look follows at once; there it has to find what it found then.
FoundQuiet(mark) ==
  \/ Cancelled
  \/ /\ ~wait.off /\ ~wait.quiet
     /\ activity' = [activity EXCEPT !.since = FALSE]
     /\ IF Forced THEN Installs
        ELSE /\ wait' = [wait EXCEPT !.quiet = TRUE, !.over = FALSE, !.mark = mark,
                                     !.at = "tunnel", !.seen = activity.here]
             /\ UNCHANGED leaving
  \/ /\ wait.quiet /\ mark # wait.mark /\ NotQuiet
  \/ /\ ~wait.off /\ wait.quiet /\ mark = wait.mark /\ UNCHANGED activity
     /\ IF wait.over THEN Installs ELSE wait' = [wait EXCEPT !.at = "poll"] /\ UNCHANGED leaving

Found(active, mark) == IF active = 0 THEN FoundQuiet(mark) ELSE NotQuiet

SameTally(tally) == tally = activity.here

\* Mutant: what was recorded in between does not count.
HereMarkNone == 0
\* The revision a quiet period is held against; -1 where none was read.
HereMark == activity.here.rev

\* tunnelRunning answers: a tunnel or its lock file is there, or may be, and
\* then the shared tally is read as well.
TunnelAnswers ==
  /\ wait.at = "tunnel"
  /\ IF ~SameTally(wait.seen) THEN NotQuiet
     ELSE \/ /\ ~update.tunnel
             /\ Found(activity.here.active, <<HereMark, -1>>)
          \/ /\ update.tunnel \/ "unverifiable" \in ExitFaults
             /\ wait' = [wait EXCEPT !.at = "shared"]
             /\ UNCHANGED <<activity, leaving>>
  /\ UNCHANGED <<update, listener>>

SharedAnswers ==
  /\ wait.at = "shared"
  /\ IF ~SameTally(wait.seen) THEN NotQuiet
     ELSE \/ Found(activity.here.active + activity.there.active,
                   <<HereMark, activity.there.rev>>)
          \/ \* missing, stale or unverifiable
             "unverifiable" \in ExitFaults /\ NotQuiet
  /\ UNCHANGED <<update, listener>>

\* The next look, after the poll interval or what is left of the quiet period.
PollTimer ==
  /\ wait.at = "poll"
  /\ IF Forced THEN Installs
     ELSE wait' = [wait EXCEPT !.at = "tunnel", !.seen = activity.here] /\ UNCHANGED leaving
  /\ UNCHANGED <<activity, update, listener>>

QuietOver ==
  /\ wait.quiet /\ wait.pending /\ ~wait.over
  /\ wait' = [wait EXCEPT !.over = TRUE]
  /\ UNCHANGED <<activity, update, leaving, listener>>

Deadline ==
  /\ wait.pending /\ ~wait.late
  /\ wait' = [wait EXCEPT !.late = TRUE]
  /\ UNCHANGED <<activity, update, leaving, listener>>

-----------------------------------------------------------------------------
(* The install callback, and the quit                                     *)

InstallStopsTunnel ==
  /\ leaving.install = "stop"
  /\ \/ /\ update' = [update EXCEPT !.tunnel = FALSE]
        /\ leaving' = [leaving EXCEPT !.install = "backup"]
     \/ /\ "stop_fails" \in ExitFaults
        /\ update' = [update EXCEPT !.phase = "ready"]
        /\ leaving' = [leaving EXCEPT !.install = "none"]
  /\ UNCHANGED <<activity, wait, listener>>

\* rememberQuitIntent: an install outranks an ordinary quit.
Wanted(intent) == IF intent = "install" \/ leaving.want = "none" THEN intent ELSE leaving.want

\* requestQuit: one shutdown at a time.
RequestQuit(intent) ==
  leaving' = [leaving EXCEPT !.install = IF intent = "install" THEN "none" ELSE @,
                             !.want = Wanted(intent), !.close = IF @ = "no" THEN "tunnel" ELSE @]

\* The backup has ended, well or not.  A portable update without a file ends here.
InstallQuits ==
  /\ leaving.install = "backup" /\ Runs
  /\ \/ RequestQuit("install") /\ UNCHANGED update
     \/ /\ update' = [update EXCEPT !.phase = "error"]
        /\ leaving' = [leaving EXCEPT !.install = "none"]
  /\ UNCHANGED <<activity, wait, listener>>

UserQuits ==
  /\ Runs /\ RequestQuit("normal")
  /\ UNCHANGED <<activity, update, wait, listener>>

\* shutdownForDesktopExit, or a shutdown that cannot be verified: the desktop
\* goes on, and what was wanted is remembered.
CloseTunnel ==
  /\ leaving.close = "tunnel"
  /\ \/ leaving' = [leaving EXCEPT !.close = "listener"]
     \/ "close_fails" \in ExitFaults /\ leaving' = [leaving EXCEPT !.close = "no"]
  /\ UNCHANGED <<activity, update, wait, listener>>

-----------------------------------------------------------------------------
(* DesktopMcpLifecycle                                                    *)

\* start: shares a stop or a start in flight.
ListenerOn(l) ==
  IF l.stop # "no" \/ l.on \/ l.starting THEN l
  ELSE [l EXCEPT !.starting = TRUE, !.stopped = FALSE]

\* stopInternal up to its first await.
StopBegins(l) ==
  CASE l.starting -> [l EXCEPT !.stop = "waits"]
    [] ~l.starting /\ l.on -> [l EXCEPT !.stop = "closes"]
    [] OTHER -> [l EXCEPT !.stopped = TRUE]

\* A stop has ended, and a restart that waited for it starts.
StopEnds(l) ==
  LET ended == [l EXCEPT !.stop = "no", !.again = FALSE, !.stopped = TRUE] IN
    IF l.again THEN ListenerOn(ended) ELSE ended

StartListener ==
  /\ Runs /\ listener' = ListenerOn(listener) /\ listener' # listener
  /\ UNCHANGED <<activity, update, wait, leaving>>

StopListener ==
  /\ Runs /\ listener.stop = "no"
  /\ \E again \in BOOLEAN :
       LET begun == StopBegins(listener) IN
       listener' = IF begun.stop # "no" THEN [begun EXCEPT !.again = again]
                   ELSE IF again THEN ListenerOn(begun) ELSE begun
  /\ UNCHANGED <<activity, update, wait, leaving>>

\* startInternal ends; a stop that waited goes on, or ends with the error.
ListenerStarts ==
  /\ listener.starting
  /\ \/ listener' = [listener EXCEPT !.starting = FALSE, !.on = TRUE,
                                     !.stop = IF @ = "waits" THEN "closes" ELSE @]
     \/ /\ "listener_fails" \in ExitFaults
        /\ LET failed == [listener EXCEPT !.starting = FALSE] IN
             listener' = IF listener.stop = "waits" THEN StopEnds(failed) ELSE failed
  /\ UNCHANGED <<activity, update, wait, leaving>>

\* handle.close; when it fails the handle stays, and a restart with it.
ListenerCloses ==
  /\ listener.stop = "closes"
  /\ \/ listener' = StopEnds([listener EXCEPT !.on = FALSE])
     \/ /\ "listener_fails" \in ExitFaults
        /\ listener' = [listener EXCEPT !.stop = "no", !.again = FALSE]
  /\ UNCHANGED <<activity, update, wait, leaving>>

\* mcpLifecycle.close, the last of runtime.close that may fail; then the quit
\* is issued, and the coordinator of the updates cancelled.
CloseListener ==
  /\ leaving.close = "listener"
  /\ \/ /\ listener.stop = "no" /\ (listener.on \/ listener.starting)
        /\ listener' = StopBegins(listener)
        /\ UNCHANGED <<leaving, wait>>
     \/ /\ listener.stop = "no" /\ ~listener.on /\ ~listener.starting
        /\ leaving' = [leaving EXCEPT !.close = "no", !.issued = leaving.want, !.want = "none"]
        /\ wait' = [wait EXCEPT !.off = TRUE, !.pending = FALSE, !.late = FALSE,
                                !.at = IF @ = "poll" THEN "rest" ELSE @]
        /\ UNCHANGED listener
     \/ /\ "close_fails" \in ExitFaults /\ listener.stop = "no"
        /\ leaving' = [leaving EXCEPT !.close = "no"]
        /\ UNCHANGED <<listener, wait>>
  /\ UNCHANGED <<activity, update>>

-----------------------------------------------------------------------------

CoordinatorStep == TunnelAnswers \/ SharedAnswers \/ PollTimer

DesktopExitNext ==
  \/ CallHere \/ CallThere \/ TunnelComesUp
  \/ RequestUpdateInstall \/ LookAtTunnel \/ Confirm \/ StopForUpdate
  \/ CoordinatorStep \/ QuietOver \/ Deadline
  \/ InstallStopsTunnel \/ InstallQuits \/ UserQuits \/ CloseTunnel
  \/ StartListener \/ StopListener \/ ListenerStarts \/ ListenerCloses \/ CloseListener

DesktopExitSpec == DesktopExitInit /\ [][DesktopExitNext]_exitVars

-----------------------------------------------------------------------------
(* Properties                                                             *)

\* An install that comes before the deadline of its grace period comes at the
\* end of a whole quiet period: no call of this desktop is active, and none
\* began or ended since the period began, however the looks interleave.
\* (evaluate, waitForQuietPeriod, observeActivity: update-install.ts:140-208)
QuietInstall ==
  [][leaving.install = "none" /\ leaving'.install = "stop" /\ ~wait.late
       => activity.here.active = 0 /\ ~activity.since]_exitVars
=============================================================================
