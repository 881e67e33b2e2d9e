---------------------------- MODULE DesktopProofs ----------------------------
(***************************************************************************)
(* What holds of the desktop, its tunnel and its remote access: the order in*)
(* which it exits or installs an update, that a tunnel that was stopped stays*)
(* so whatever timers, restarts and reconciles are still under way, and that*)
(* no tunnel of a remote configuration is one nobody knows of.  At the end,*)
(* that the parts of one machine keep what each of them keeps alone.       *)
(***************************************************************************)
EXTENDS MCDesktop, GoalProofs, DataProofs, ActivityProofs, NumberLemmas, SequenceTheorems,
        TLAPS

-----------------------------------------------------------------------------
(* Exit and update                                                        *)

\* The five parts of the desktop's exit.
Activities == [here : Tally, there : Tally, since : BOOLEAN]
Updates == [phase : {"ready", "installing", "error"}, tunnel : BOOLEAN,
            asking : {"no", "status", "confirm", "stop"}]
Waits == [pending : BOOLEAN, off : BOOLEAN, late : BOOLEAN, over : BOOLEAN,
          at : {"rest", "tunnel", "shared", "poll"}, quiet : BOOLEAN,
          seen : Tally, mark : (0 .. MaxRecords) \X (-1 .. MaxRecords)]
Leavings == [install : {"none", "stop", "backup"}, want : {"none", "normal", "install"},
             close : {"no", "tunnel", "listener"}, issued : {"none", "normal", "install"}]
Listener == [on : BOOLEAN, starting : BOOLEAN, stop : {"no", "waits", "closes"},
             again : BOOLEAN, stopped : BOOLEAN]

ExitTyped ==
  /\ activity \in Activities /\ update \in Updates /\ wait \in Waits
  /\ leaving \in Leavings /\ listener \in Listener

\* What is marked at the start of a quiet period is not ahead of what was
\* recorded here, and as long as it is the same nothing began or ended since.
QuietInv ==
  /\ ExitTyped
  /\ wait.quiet = TRUE =>
       /\ wait.mark[1] <= activity.here.rev
       /\ wait.mark[1] = activity.here.rev => activity.since = FALSE

\* What a step may not do, as a formula of one step.
QuietStep ==
  leaving.install = "none" /\ leaving'.install = "stop" /\ wait.late = FALSE
    => activity.here.active = 0 /\ activity.since = FALSE

\* The invariant of the exit holds when the desktop is started.
LEMMA QuietInvInit == DesktopExitInit => QuietInv
<1> SUFFICES ASSUME DesktopExitInit PROVE QuietInv
  OBVIOUS
<1>1. NoCalls \in Tally /\ <<0, -1>> \in (0 .. MaxRecords) \X (-1 .. MaxRecords)
  BY DesktopExitAssumption DEF NoCalls, Tally
<1>2. activity \in Activities /\ update \in Updates /\ leaving \in Leavings /\ listener \in Listener
  BY <1>1 DEF DesktopExitInit, Activities, Updates, Leavings, Listener
<1>3. wait \in Waits /\ wait.quiet = FALSE
  BY <1>1 DEF DesktopExitInit, Waits
<1> QED  BY <1>2, <1>3 DEF QuietInv, ExitTyped

\* What the operations of the listener return is a listener.
LEMMA ListenerShape ==
  ASSUME NEW l \in Listener
  PROVE  ListenerOn(l) \in Listener /\ StopBegins(l) \in Listener /\ StopEnds(l) \in Listener
<1>1. \A k \in Listener : ListenerOn(k) \in Listener
  BY DEF ListenerOn, Listener
<1>2. StopBegins(l) \in Listener
  BY DEF StopBegins, Listener
<1>3. [l EXCEPT !.stop = "no", !.again = FALSE, !.stopped = TRUE] \in Listener
  BY DEF Listener
<1> QED  BY <1>1, <1>2, <1>3 DEF StopEnds

\* A listener step leaves the rest alone.
LEMMA ListenerStep ==
  ASSUME listener \in Listener,
         StartListener \/ StopListener \/ ListenerStarts \/ ListenerCloses
  PROVE  /\ listener' \in Listener
         /\ UNCHANGED <<activity, update, wait, leaving>>
<1>1. CASE StartListener
  BY <1>1, ListenerShape DEF StartListener
<1>2. CASE StopListener
  <2>1. PICK again \in BOOLEAN :
          listener' = IF StopBegins(listener).stop # "no"
                      THEN [StopBegins(listener) EXCEPT !.again = again]
                      ELSE IF again THEN ListenerOn(StopBegins(listener)) ELSE StopBegins(listener)
    BY <1>2 DEF StopListener
  <2>2. StopBegins(listener) \in Listener
    BY ListenerShape
  <2>3. [StopBegins(listener) EXCEPT !.again = again] \in Listener
    BY <2>2 DEF Listener
  <2> QED  BY <1>2, <2>1, <2>2, <2>3, ListenerShape DEF StopListener
<1>3. CASE ListenerStarts
  <2>1. [listener EXCEPT !.starting = FALSE] \in Listener
    BY DEF Listener
  <2>2. [listener EXCEPT !.starting = FALSE, !.on = TRUE,
                         !.stop = IF @ = "waits" THEN "closes" ELSE @] \in Listener
    BY DEF Listener
  <2> QED  BY <1>3, <2>1, <2>2, ListenerShape DEF ListenerStarts
<1>4. CASE ListenerCloses
  <2>1. [listener EXCEPT !.on = FALSE] \in Listener
    BY DEF Listener
  <2>2. [listener EXCEPT !.stop = "no", !.again = FALSE] \in Listener
    BY DEF Listener
  <2> QED  BY <1>4, <2>1, <2>2, ListenerShape DEF ListenerCloses
<1> QED  BY <1>1, <1>2, <1>3, <1>4

\* What the rest of a step has to show, once its parts are typed.
LEMMA QuietKept ==
  ASSUME QuietInv, ExitTyped',
         \/ wait'.quiet = FALSE
         \/ /\ activity'.here.rev = activity.here.rev /\ activity'.since = activity.since
            /\ wait'.quiet = wait.quiet /\ wait'.mark = wait.mark
  PROVE  QuietInv'
BY DEF QuietInv

\* A look that found calls, or could not be trusted, installs nothing early.
LEMMA NotQuietKeeps ==
  ASSUME QuietInv, NotQuiet, UNCHANGED <<update, listener>>
  PROVE  QuietInv' /\ QuietStep
<1>1. activity' = activity /\ update' = update /\ listener' = listener
  BY DEF NotQuiet, Cancelled
<1>2. ExitTyped
  BY DEF QuietInv
<1>3. CASE leaving' = leaving /\ wait' = [wait EXCEPT !.at = "rest"]
  <2>1. wait' \in Waits /\ wait'.quiet = wait.quiet /\ wait'.mark = wait.mark
    BY <1>2, <1>3 DEF ExitTyped, Waits
  <2> QED  BY <1>1, <1>2, <1>3, <2>1, QuietKept DEF ExitTyped, QuietStep
<1>4. CASE leaving' = leaving /\ wait' = [wait EXCEPT !.at = "poll"]
  <2>1. wait' \in Waits /\ wait'.quiet = wait.quiet /\ wait'.mark = wait.mark
    BY <1>2, <1>4 DEF ExitTyped, Waits
  <2> QED  BY <1>1, <1>2, <1>4, <2>1, QuietKept DEF ExitTyped, QuietStep
<1>5. CASE leaving' = leaving /\ wait' = Evaluated(wait)
  <2>1. wait' \in Waits /\ wait'.quiet = FALSE
    BY <1>2, <1>5 DEF ExitTyped, Waits, Activities, Evaluated
  <2> QED  BY <1>1, <1>2, <1>5, <2>1, QuietKept DEF ExitTyped, QuietStep
<1>6. CASE wait.late = TRUE /\ Installs
  <2>1. wait' \in Waits /\ wait'.quiet = wait.quiet /\ wait'.mark = wait.mark
    BY <1>2, <1>6 DEF ExitTyped, Waits, Installs
  <2>2. leaving' \in Leavings
    BY <1>2, <1>6 DEF ExitTyped, Leavings, Installs
  <2> QED  BY <1>1, <1>2, <1>6, <2>1, <2>2, QuietKept DEF ExitTyped, QuietStep
<1>7. wait.late \in BOOLEAN
  BY <1>2 DEF ExitTyped, Waits
<1> QED  BY <1>3, <1>4, <1>5, <1>6, <1>7 DEF NotQuiet, Cancelled, Forced

\* A look that found no call installs only what it found at the start of the
\* quiet period.
LEMMA FoundQuietKeeps ==
  ASSUME QuietInv, UNCHANGED <<update, listener>>, activity.here.active = 0,
         NEW shared \in -1 .. MaxRecords, FoundQuiet(<<activity.here.rev, shared>>)
  PROVE  QuietInv' /\ QuietStep
<1> DEFINE mark == <<activity.here.rev, shared>>
<1>1. CASE NotQuiet
  BY <1>1, NotQuietKeeps
<1>2. ExitTyped
  BY DEF QuietInv
<1>3. /\ mark \in (0 .. MaxRecords) \X (-1 .. MaxRecords)
      /\ mark[1] = activity.here.rev /\ activity.here.rev \in 0 .. MaxRecords
  BY <1>2 DEF ExitTyped, Activities, Tally
<1> HIDE DEF mark
<1>4. CASE Cancelled
  <2>1. wait' \in Waits /\ wait'.quiet = wait.quiet /\ wait'.mark = wait.mark
    BY <1>2, <1>4 DEF ExitTyped, Waits, Cancelled
  <2> QED  BY <1>2, <1>4, <2>1, QuietKept DEF ExitTyped, QuietStep, Cancelled
<1>5. ASSUME activity' = [activity EXCEPT !.since = FALSE]
      PROVE  /\ activity' \in Activities /\ activity'.here = activity.here
             /\ activity'.since = FALSE
  BY <1>2, <1>5 DEF ExitTyped, Activities
<1>6. CASE wait.late = TRUE /\ Installs /\ activity' = [activity EXCEPT !.since = FALSE]
  <2>1. wait' \in Waits /\ wait'.quiet = wait.quiet /\ wait'.mark = wait.mark
    BY <1>2, <1>6 DEF ExitTyped, Waits, Installs
  <2>2. leaving' \in Leavings
    BY <1>2, <1>6 DEF ExitTyped, Leavings, Installs
  <2> QED  BY <1>2, <1>5, <1>6, <2>1, <2>2 DEF ExitTyped, QuietStep, QuietInv
<1>7. CASE /\ wait' = [wait EXCEPT !.quiet = TRUE, !.over = FALSE, !.mark = mark,
                                   !.at = "tunnel", !.seen = activity.here]
           /\ leaving' = leaving /\ activity' = [activity EXCEPT !.since = FALSE]
  <2>1. wait' \in Waits /\ wait'.mark = mark
    BY <1>2, <1>3, <1>7 DEF ExitTyped, Waits, Activities
  <2>2. wait'.mark[1] <= activity'.here.rev
    BY <1>3, <1>5, <1>7, <2>1
  <2> QED  BY <1>2, <1>5, <1>7, <2>1, <2>2 DEF ExitTyped, QuietStep, QuietInv
<1>8. CASE wait.quiet = TRUE /\ mark = wait.mark /\ Installs /\ activity' = activity
  <2>1. activity.since = FALSE
    BY <1>3, <1>8 DEF QuietInv
  <2>2. wait' \in Waits /\ wait'.quiet = wait.quiet /\ wait'.mark = wait.mark
    BY <1>2, <1>8 DEF ExitTyped, Waits, Installs
  <2>3. leaving' \in Leavings
    BY <1>2, <1>8 DEF ExitTyped, Leavings, Installs
  <2> QED  BY <1>2, <1>8, <2>1, <2>2, <2>3, QuietKept DEF ExitTyped, QuietStep
<1>9. CASE wait' = [wait EXCEPT !.at = "poll"] /\ leaving' = leaving /\ activity' = activity
  <2>1. wait' \in Waits /\ wait'.quiet = wait.quiet /\ wait'.mark = wait.mark
    BY <1>2, <1>9 DEF ExitTyped, Waits
  <2> QED  BY <1>2, <1>9, <2>1, QuietKept DEF ExitTyped, QuietStep
<1>10. wait.late \in BOOLEAN /\ wait.quiet \in BOOLEAN
  BY <1>2 DEF ExitTyped, Waits
<1> QED  BY <1>1, <1>4, <1>6, <1>7, <1>8, <1>9, <1>10 DEF FoundQuiet, Forced, mark

\* Every step keeps the invariant and installs nothing early but after a whole
\* quiet period.
LEMMA QuietInvStep ==
  ASSUME QuietInv, [DesktopExitNext]_exitVars
  PROVE  QuietInv' /\ QuietStep
<1> USE DesktopExitAssumption
<1>0. /\ ExitTyped
      /\ wait.quiet \in BOOLEAN /\ activity.here.rev \in 0 .. MaxRecords
      /\ wait.mark[1] \in 0 .. MaxRecords
  BY DEF QuietInv, ExitTyped, Waits, Activities, Tally
<1>1. CASE CallHere
  <2>1. /\ activity' = [activity EXCEPT !.here = Recorded(activity.here), !.since = TRUE]
        /\ UNCHANGED <<update, wait, leaving, listener>> /\ activity.here.rev < MaxRecords
    BY <1>1 DEF CallHere
  <2>2. Recorded(activity.here) \in Tally /\ Recorded(activity.here).rev = activity.here.rev + 1
    BY <1>0, <2>1 DEF ExitTyped, Activities, Tally, Recorded
  <2>3. activity' \in Activities /\ activity'.here.rev = activity.here.rev + 1
    BY <1>0, <2>1, <2>2 DEF ExitTyped, Activities
  <2>4. ExitTyped'
    BY <1>0, <2>1, <2>3 DEF ExitTyped
  <2> QED  BY <1>0, <2>1, <2>3, <2>4 DEF QuietInv, QuietStep
<1>2. CASE CallThere
  <2>1. Recorded(activity.there) \in Tally
    BY <1>0, <1>2 DEF ExitTyped, Activities, Tally, Recorded, CallThere
  <2>2. /\ activity' \in Activities /\ activity'.here = activity.here
        /\ activity'.since = activity.since
    BY <1>0, <1>2, <2>1 DEF ExitTyped, Activities, CallThere
  <2> QED  BY <1>0, <1>2, <2>2, QuietKept DEF ExitTyped, QuietStep, CallThere
<1>3. CASE \/ TunnelComesUp \/ RequestUpdateInstall \/ LookAtTunnel \/ Confirm
           \/ InstallStopsTunnel
  <2>1. update' \in Updates
    BY <1>0, <1>3 DEF ExitTyped, Updates, TunnelComesUp, RequestUpdateInstall, LookAtTunnel,
                      Confirm, InstallStopsTunnel
  <2>2. leaving' \in Leavings /\ (leaving.install = "none" => leaving' = leaving)
    BY <1>0, <1>3 DEF ExitTyped, Leavings, TunnelComesUp, RequestUpdateInstall, LookAtTunnel,
                      Confirm, InstallStopsTunnel
  <2>3. UNCHANGED <<activity, wait, listener>>
    BY <1>3 DEF TunnelComesUp, RequestUpdateInstall, LookAtTunnel, Confirm, InstallStopsTunnel
  <2> QED  BY <1>0, <2>1, <2>2, <2>3, QuietKept DEF ExitTyped, QuietStep
<1>4. CASE InstallQuits \/ UserQuits \/ CloseTunnel
  <2>1. update' \in Updates /\ UNCHANGED <<activity, wait, listener>>
    BY <1>0, <1>4 DEF ExitTyped, Updates, InstallQuits, UserQuits, CloseTunnel
  <2>2. \A wish \in {"normal", "install"} : RequestQuit(wish) =>
          /\ leaving' \in Leavings
          /\ leaving'.install \in {leaving.install, "none"}
    BY <1>0 DEF ExitTyped, Leavings, RequestQuit, Wanted
  <2>3. \/ leaving' = leaving \/ leaving' = [leaving EXCEPT !.install = "none"]
        \/ leaving' = [leaving EXCEPT !.close = "listener"]
        \/ leaving' = [leaving EXCEPT !.close = "no"]
        \/ RequestQuit("normal") \/ RequestQuit("install")
    BY <1>4 DEF InstallQuits, UserQuits, CloseTunnel
  <2>4. leaving' \in Leavings /\ leaving'.install \in {leaving.install, "none"}
    BY <1>0, <2>2, <2>3 DEF ExitTyped, Leavings
  <2> QED  BY <1>0, <2>1, <2>4, QuietKept DEF ExitTyped, QuietStep
<1>5. CASE StopForUpdate
  <2>1. update' \in Updates /\ UNCHANGED <<activity, leaving, listener>>
    BY <1>0, <1>5 DEF ExitTyped, Updates, StopForUpdate
  <2>2. CASE wait' = wait
    BY <1>0, <2>1, <2>2, QuietKept DEF ExitTyped, QuietStep
  <2>3. CASE wait' = Evaluated([wait EXCEPT !.pending = TRUE, !.late = FALSE])
    <3>1. wait' \in Waits /\ wait'.quiet = FALSE
      BY <1>0, <2>3 DEF ExitTyped, Waits, Activities, Evaluated
    <3> QED  BY <1>0, <2>1, <3>1, QuietKept DEF ExitTyped, QuietStep
  <2> QED  BY <1>5, <2>2, <2>3 DEF StopForUpdate
<1>6. CASE TunnelAnswers
  <2>1. UNCHANGED <<update, listener>>
    BY <1>6 DEF TunnelAnswers
  <2>2. CASE NotQuiet
    BY <2>1, <2>2, NotQuietKeeps
  <2>3. CASE activity.here.active = 0 /\ FoundQuiet(<<activity.here.rev, -1>>)
    <3>1. -1 \in -1 .. MaxRecords
      OBVIOUS
    <3> QED  BY <2>1, <2>3, <3>1, FoundQuietKeeps
  <2>4. CASE wait' = [wait EXCEPT !.at = "shared"] /\ UNCHANGED <<activity, leaving>>
    <3>1. wait' \in Waits /\ wait'.quiet = wait.quiet /\ wait'.mark = wait.mark
      BY <1>0, <2>4 DEF ExitTyped, Waits
    <3> QED  BY <1>0, <2>1, <2>4, <3>1, QuietKept DEF ExitTyped, QuietStep
  <2> QED  BY <1>6, <2>2, <2>3, <2>4 DEF TunnelAnswers, Found, HereMark
<1>7. CASE SharedAnswers
  <2>1. UNCHANGED <<update, listener>>
    BY <1>7 DEF SharedAnswers
  <2>2. CASE NotQuiet
    BY <2>1, <2>2, NotQuietKeeps
  <2>3. CASE /\ activity.here.active + activity.there.active = 0
             /\ FoundQuiet(<<activity.here.rev, activity.there.rev>>)
    <3>1. /\ activity.there.rev \in -1 .. MaxRecords
          /\ activity.here.active = 0
      BY <1>0, <2>3 DEF ExitTyped, Activities, Tally
    <3> QED  BY <2>1, <2>3, <3>1, FoundQuietKeeps
  <2> QED  BY <1>7, <2>2, <2>3 DEF SharedAnswers, Found, HereMark
<1>8. CASE PollTimer
  <2>1. UNCHANGED <<activity, update, listener>>
    BY <1>8 DEF PollTimer
  <2>2. CASE wait.late = TRUE /\ Installs
    <3>1. wait' \in Waits /\ wait'.quiet = wait.quiet /\ wait'.mark = wait.mark
      BY <1>0, <2>2 DEF ExitTyped, Waits, Installs
    <3>2. leaving' \in Leavings
      BY <1>0, <2>2 DEF ExitTyped, Leavings, Installs
    <3> QED  BY <1>0, <2>1, <2>2, <3>1, <3>2, QuietKept DEF ExitTyped, QuietStep
  <2>3. CASE wait' = [wait EXCEPT !.at = "tunnel", !.seen = activity.here] /\ leaving' = leaving
    <3>1. wait' \in Waits /\ wait'.quiet = wait.quiet /\ wait'.mark = wait.mark
      BY <1>0, <2>3 DEF ExitTyped, Waits, Activities
    <3> QED  BY <1>0, <2>1, <2>3, <3>1, QuietKept DEF ExitTyped, QuietStep
  <2>4. wait.late \in BOOLEAN
    BY <1>0 DEF ExitTyped, Waits
  <2> QED  BY <1>8, <2>2, <2>3, <2>4 DEF PollTimer, Forced
<1>9. CASE QuietOver \/ Deadline
  <2>1. UNCHANGED <<activity, update, leaving, listener>>
    BY <1>9 DEF QuietOver, Deadline
  <2>2. wait' \in Waits /\ wait'.quiet = wait.quiet /\ wait'.mark = wait.mark
    BY <1>0, <1>9 DEF ExitTyped, Waits, QuietOver, Deadline
  <2> QED  BY <1>0, <2>1, <2>2, QuietKept DEF ExitTyped, QuietStep
<1>10. CASE StartListener \/ StopListener \/ ListenerStarts \/ ListenerCloses
  <2>1. listener' \in Listener /\ UNCHANGED <<activity, update, wait, leaving>>
    BY <1>0, <1>10, ListenerStep DEF ExitTyped
  <2> QED  BY <1>0, <2>1, QuietKept DEF ExitTyped, QuietStep
<1>11. CASE CloseListener
  <2>1. listener' \in Listener /\ UNCHANGED <<activity, update>>
    BY <1>0, <1>11, ListenerShape DEF ExitTyped, CloseListener
  <2>2. leaving' \in Leavings /\ leaving'.install = leaving.install
    BY <1>0, <1>11 DEF ExitTyped, Leavings, CloseListener
  <2>3. wait' \in Waits /\ wait'.quiet = wait.quiet /\ wait'.mark = wait.mark
    BY <1>0, <1>11 DEF ExitTyped, Waits, CloseListener
  <2> QED  BY <1>0, <2>1, <2>2, <2>3, QuietKept DEF ExitTyped, QuietStep
<1>12. CASE UNCHANGED exitVars
  BY <1>0, <1>12, QuietKept DEF exitVars, ExitTyped, QuietStep
<1> QED  BY <1>1, <1>2, <1>3, <1>4, <1>5, <1>6, <1>7, <1>8, <1>9, <1>10, <1>11, <1>12
         DEF DesktopExitNext, CoordinatorStep

\* The invariant of the exit holds always.
THEOREM QuietInvariant == DesktopExitSpec => []QuietInv
<1>1. QuietInv /\ [DesktopExitNext]_exitVars => QuietInv'
  BY QuietInvStep
<1> QED  BY QuietInvInit, <1>1, PTL DEF DesktopExitSpec

\* UpdateInstallCoordinator: an install that does not come from the deadline
\* comes at the end of a whole quiet period, for any number of calls here and
\* in other processes, however the looks interleave with them.
THEOREM InstallsWaitForQuiet == DesktopExitSpec => QuietInstall
<1>1. QuietInv /\ [DesktopExitNext]_exitVars => [QuietStep]_exitVars
  BY QuietInvStep
<1>2. QuietInv => wait.late \in BOOLEAN /\ activity.since \in BOOLEAN
  BY DEF QuietInv, ExitTyped, Waits, Activities
<1>3. QuietInv /\ [QuietStep]_exitVars
        => [leaving.install = "none" /\ leaving'.install = "stop" /\ ~wait.late
              => activity.here.active = 0 /\ ~activity.since]_exitVars
  BY <1>2 DEF QuietStep
<1> QED  BY QuietInvariant, <1>1, <1>3, PTL DEF DesktopExitSpec, QuietInstall

-----------------------------------------------------------------------------
(* The tunnel                                                             *)

\* The client can be managed, and the settings ask for it: then there is never
\* a child, and else never a supervisor.
Managed == tunnel.native = TRUE /\ tunnel.auto = TRUE

\* Where the job stands that is worked on.
Place == IF jobs = <<>> THEN "none" ELSE jobs[1].at

StartPlaces == {"kick", "probe", "native", "connect", "child"}
StopPlaces == {"halt", "kill", "persist"}

\* The queue: only its first job is worked on, each in a place of its own.
JobsInTurn ==
  /\ jobs \in Seq(Job) /\ Len(jobs) \in 0 .. MaxJobs
  /\ \A i \in 1 .. Len(jobs) :
       /\ i # 1 => jobs[i].at = "queued"
       /\ jobs[i].at \in StartPlaces => jobs[i].op = "start"
       /\ jobs[i].at \in StopPlaces => jobs[i].op = "stop"
NoStartWanted == \A i \in 1 .. Len(jobs) : jobs[i].op = "start" => jobs[i].aborted = TRUE

Intent == [desired : {"running", "stopped"}, owner : BOOLEAN]
Tunnel == [native : BOOLEAN, auto : BOOLEAN, mode : {"none", "native", "child"},
           intentional : BOOLEAN, dirty : BOOLEAN, key : BOOLEAN, lock : BOOLEAN]
Watch == [on : BOOLEAN, running : BOOLEAN, timer : BOOLEAN, reconcile : Reconciles]
RestartState == [exits : 0 .. 1, timer : BOOLEAN, repairs : 0 .. 1]
ClientTunnels == [alias : {"absent", "down", "running"}, child : BOOLEAN, forgotten : BOOLEAN,
                  others : 0 .. 1]
Held == [stopped : BOOLEAN, overlapped : BOOLEAN, exited : BOOLEAN]

TunnelTyped ==
  /\ intent \in Intent /\ tunnel \in Tunnel /\ watch \in Watch /\ stray \in Reconciles
  /\ restart \in RestartState /\ clients \in ClientTunnels
  /\ launch \in {"due", "checking", "done", "closing", "closed"} /\ held \in Held

\* A child and a supervisor exclude each other.
ChildOrSupervisor ==
  /\ watch.on = TRUE \/ tunnel.mode = "native" \/ Place = "halt" => Managed
  /\ \/ clients.child = TRUE \/ clients.forgotten = TRUE
     \/ restart.exits = 1 \/ restart.timer = TRUE \/ restart.repairs = 1
     \/ Place = "child"
     => ~Managed
  /\ clients.alias = "running" \/ stray # "none" => tunnel.native = TRUE
  /\ watch.on = FALSE => watch.reconcile = "none" /\ watch.timer = FALSE
  /\ launch # "closed" /\ watch.on = TRUE => tunnel.mode = "native"

\* A stop that ends a child keeps restarts away until it has ended.
StopsInOrder ==
  /\ Place \in {"kill", "persist"} =>
       tunnel.intentional = TRUE /\ (launch = "closed" \/ watch.on = FALSE)
  /\ Place = "persist" => clients.child = FALSE

\* What holds is held by what is gone: no start is wanted, no reconcile is in
\* flight, and no key is there for a restart.
Holding ==
  /\ held.stopped = TRUE => NoStartWanted
  /\ held.stopped = TRUE /\ held.overlapped = FALSE =>
       /\ ~AnyClient /\ stray = "none" /\ watch.on = FALSE /\ tunnel.key = FALSE
  /\ held.exited = TRUE =>
       /\ NoStartWanted /\ (tunnel.intentional = TRUE \/ tunnel.key = FALSE)
       /\ (launch = "closed" => clients.child = FALSE)

TunnelInv ==
  TunnelTyped /\ JobsInTurn /\ ChildOrSupervisor /\ StopsInOrder /\ Holding

\* A queue that has lost its first job.
LEMMA JobsEnd ==
  ASSUME JobsInTurn, jobs # <<>>, JobEnds
  PROVE  /\ JobsInTurn' /\ Place' \in {"none", "queued"}
         /\ NoStartWanted => NoStartWanted'
<1>1. /\ jobs' \in Seq(Job) /\ Len(jobs') = Len(jobs) - 1 /\ Len(jobs) \in Nat /\ Len(jobs) > 0
      /\ \A i \in 1 .. Len(jobs') : jobs'[i] = jobs[i + 1]
  BY HeadTailProperties, EmptySeq, LenProperties DEF JobsInTurn, JobEnds
<1>2. \A i \in 1 .. Len(jobs') : i + 1 \in 1 .. Len(jobs) /\ i + 1 # 1
  BY <1>1
<1>3. Len(jobs') \in 0 .. MaxJobs
  BY <1>1, TunnelAssumption DEF JobsInTurn
<1>4. \A i \in 1 .. Len(jobs') : jobs'[i].at = "queued"
  BY <1>1, <1>2 DEF JobsInTurn
<1>5. JobsInTurn'
  BY <1>1, <1>3, <1>4 DEF JobsInTurn, StartPlaces, StopPlaces
<1>6. Place' \in {"none", "queued"}
  <2>1. jobs' # <<>> => 1 \in 1 .. Len(jobs')
    BY <1>1, EmptySeq, LenProperties
  <2> QED  BY <1>4, <2>1 DEF Place
<1> QED  BY <1>1, <1>2, <1>5, <1>6 DEF NoStartWanted

\* A queue whose first job goes on.
LEMMA JobGoesOn ==
  ASSUME JobsInTurn, jobs # <<>>, NEW j \in Job, jobs' = [jobs EXCEPT ![1] = j],
         j.op = jobs[1].op, j.aborted = jobs[1].aborted,
         j.at \in StartPlaces => j.op = "start", j.at \in StopPlaces => j.op = "stop"
  PROVE  /\ JobsInTurn' /\ Place' = j.at
         /\ NoStartWanted => NoStartWanted'
<1>1. 1 \in 1 .. Len(jobs) /\ Len(jobs) \in Nat
  BY EmptySeq, LenProperties DEF JobsInTurn
<1>2. /\ jobs' \in Seq(Job) /\ Len(jobs') = Len(jobs) /\ jobs'[1] = j
      /\ \A i \in 1 .. Len(jobs) : i # 1 => jobs'[i] = jobs[i]
  BY <1>1, ExceptSeq DEF JobsInTurn
<1>3. JobsInTurn'
  BY <1>1, <1>2 DEF JobsInTurn
<1>4. jobs' # <<>>
  BY <1>1, <1>2, EmptySeq
<1> QED  BY <1>1, <1>2, <1>3, <1>4 DEF Place, NoStartWanted

\* A queue whose first job goes to its next place.
LEMMA JobMoves ==
  ASSUME JobsInTurn, jobs # <<>>, NEW place \in StartPlaces \cup StopPlaces, GoOn(place),
         jobs[1].op = IF place \in StartPlaces THEN "start" ELSE "stop"
  PROVE  /\ JobsInTurn' /\ Place' = place
         /\ NoStartWanted => NoStartWanted'
<1> DEFINE j == [jobs[1] EXCEPT !.at = place]
<1>1. 1 \in 1 .. Len(jobs) /\ jobs[1] \in Job
  BY EmptySeq, LenProperties, ElementOfSeq DEF JobsInTurn
<1>2. /\ j \in Job /\ j.at = place /\ j.op = jobs[1].op /\ j.aborted = jobs[1].aborted
      /\ place \in StartPlaces => place \notin StopPlaces
  BY <1>1 DEF Job, StartPlaces, StopPlaces
<1>3. jobs' = [jobs EXCEPT ![1] = j]
  BY <1>1 DEF GoOn
<1> HIDE DEF j
<1> QED  BY <1>2, <1>3, JobGoesOn

\* A queue to which a job is added.
LEMMA JobsAdd ==
  ASSUME NEW q \in Seq(Job), Len(q) < MaxJobs, MaxJobs \in Nat, NEW j \in Job, j.at = "queued",
         \A i \in 1 .. Len(q) :
            /\ i # 1 => q[i].at = "queued"
            /\ q[i].at \in StartPlaces => q[i].op = "start"
            /\ q[i].at \in StopPlaces => q[i].op = "stop",
         jobs' = Append(q, j)
  PROVE  /\ JobsInTurn'
         /\ Place' = IF q = <<>> THEN "queued" ELSE q[1].at
         /\ (\A i \in 1 .. Len(q) : q[i].op = "start" => q[i].aborted = TRUE) /\ j.op # "start"
              => NoStartWanted'
<1>1. /\ jobs' \in Seq(Job) /\ Len(jobs') = Len(q) + 1 /\ jobs'[Len(q) + 1] = j
      /\ \A i \in 1 .. Len(q) : jobs'[i] = q[i]
      /\ Len(q) \in Nat
  BY AppendProperties, LenProperties
<1>2. \A i \in 1 .. Len(jobs') : i \in 1 .. Len(q) \/ i = Len(q) + 1
  BY <1>1
<1>3. Len(jobs') \in 0 .. MaxJobs
  BY <1>1
<1>4. JobsInTurn'
  BY <1>1, <1>2, <1>3 DEF JobsInTurn, StartPlaces, StopPlaces
<1>5. Place' = IF q = <<>> THEN "queued" ELSE q[1].at
  <2>1. jobs' # <<>>
    BY <1>1, EmptySeq
  <2>2. CASE q = <<>>
    BY <1>1, <2>1, <2>2, EmptySeq DEF Place
  <2>3. CASE q # <<>>
    <3>1. 1 \in 1 .. Len(q)
      BY <1>1, <2>3, EmptySeq
    <3> QED  BY <1>1, <2>1, <2>3, <3>1 DEF Place
  <2> QED  BY <2>2, <2>3
<1> QED  BY <1>1, <1>2, <1>4, <1>5 DEF NoStartWanted

\* The queue with its starts aborted.
LEMMA JobsAborted ==
  ASSUME JobsInTurn
  PROVE  /\ StartsAborted \in Seq(Job) /\ Len(StartsAborted) = Len(jobs)
         /\ \A i \in 1 .. Len(jobs) : /\ StartsAborted[i].at = jobs[i].at
                                      /\ StartsAborted[i].op = jobs[i].op
                                      /\ jobs[i].op = "start" => StartsAborted[i].aborted = TRUE
         /\ StartsAborted = <<>> <=> jobs = <<>>
<1>1. \A i \in 1 .. Len(jobs) : jobs[i] \in Job
  BY ElementOfSeq DEF JobsInTurn
<1>2. \A i \in 1 .. Len(jobs) :
        /\ [jobs[i] EXCEPT !.aborted = jobs[i].aborted \/ jobs[i].op = "start"] \in Job
        /\ [jobs[i] EXCEPT !.aborted = jobs[i].aborted \/ jobs[i].op = "start"].at = jobs[i].at
        /\ [jobs[i] EXCEPT !.aborted = jobs[i].aborted \/ jobs[i].op = "start"].op = jobs[i].op
        /\ jobs[i].op = "start"
             => [jobs[i] EXCEPT !.aborted = jobs[i].aborted \/ jobs[i].op = "start"].aborted = TRUE
  BY <1>1 DEF Job
<1>3. Len(jobs) \in Nat /\ jobs \in Seq(Job)
  BY LenProperties DEF JobsInTurn
<1> DEFINE abort(i) == [jobs[i] EXCEPT !.aborted = jobs[i].aborted \/ jobs[i].op = "start"]
<1>4. StartsAborted = [i \in 1 .. Len(jobs) |-> abort(i)]
  BY DEF StartsAborted
<1>5. StartsAborted \in Seq(Job) /\ Len(StartsAborted) = Len(jobs)
  BY <1>2, <1>3, <1>4, IsASeq, LenProperties
<1>6. StartsAborted = <<>> <=> jobs = <<>>
  BY <1>3, <1>5, EmptySeq
<1> QED  BY <1>2, <1>4, <1>5, <1>6

\* The types of what the parts hold, and of the first job.
LEMMA TunnelParts ==
  ASSUME TunnelInv
  PROVE  /\ TunnelTyped /\ JobsInTurn /\ ChildOrSupervisor /\ StopsInOrder /\ Holding
         /\ {tunnel.native, tunnel.auto, tunnel.intentional, tunnel.key} \subseteq BOOLEAN
         /\ {clients.child, clients.forgotten} \subseteq BOOLEAN /\ clients.others \in {0, 1}
         /\ {watch.on, watch.timer, restart.timer} \subseteq BOOLEAN
         /\ {held.stopped, held.overlapped, held.exited} \subseteq BOOLEAN
         /\ restart.exits \in {0, 1} /\ restart.repairs \in {0, 1}
         /\ jobs # <<>> => /\ jobs[1] \in Job /\ jobs[1].aborted \in BOOLEAN /\ Place = jobs[1].at
                           /\ Place \in StartPlaces => jobs[1].op = "start"
                           /\ Place \in StopPlaces => jobs[1].op = "stop"
                           /\ NoStartWanted /\ jobs[1].op = "start" => jobs[1].aborted = TRUE
<1>1. TunnelTyped /\ JobsInTurn /\ ChildOrSupervisor /\ StopsInOrder /\ Holding
  BY DEF TunnelInv
<1>2. {tunnel.native, tunnel.auto, tunnel.intentional, tunnel.key} \subseteq BOOLEAN
  BY <1>1 DEF TunnelTyped, Tunnel
<1>3. {clients.child, clients.forgotten} \subseteq BOOLEAN /\ clients.others \in {0, 1}
  BY <1>1 DEF TunnelTyped, ClientTunnels
<1>4. {watch.on, watch.timer, restart.timer} \subseteq BOOLEAN
  BY <1>1 DEF TunnelTyped, Watch, RestartState
<1>5. {held.stopped, held.overlapped, held.exited} \subseteq BOOLEAN
  BY <1>1 DEF TunnelTyped, Held
<1>6. restart.exits \in {0, 1} /\ restart.repairs \in {0, 1}
  BY <1>1 DEF TunnelTyped, RestartState
<1>7. jobs # <<>> => 1 \in 1 .. Len(jobs) /\ jobs[1] \in Job
  BY <1>1, EmptySeq, LenProperties, ElementOfSeq DEF JobsInTurn
<1>8. jobs # <<>> => jobs[1].aborted \in BOOLEAN
  BY <1>7 DEF Job
<1> QED  BY <1>1, <1>2, <1>3, <1>4, <1>5, <1>6, <1>7, <1>8 DEF Place, JobsInTurn, NoStartWanted

\* A start that is asked for ends what was held.
LEMMA StartAsked ==
  ASSUME TunnelInv, NEW replace \in BOOLEAN, AskStart(replace), intent' \in Intent,
         launch' \in {"due", "checking", "done", "closing", "closed"},
         launch' = "closed" <=> launch = "closed",
         UNCHANGED <<tunnel, watch, stray, restart, clients>>
  PROVE  TunnelInv'
<1>1. JobsInTurn /\ TunnelTyped /\ ChildOrSupervisor /\ StopsInOrder
  BY TunnelParts
<1>2. JobsInTurn' /\ (Place' = Place \/ Place' = "queued")
  <2>1. CASE jobs' = jobs
    BY <1>1, <2>1 DEF JobsInTurn, Place
  <2>2. CASE jobs' = Append(jobs, NewJob("start", replace))
    <3>1. NewJob("start", replace) \in Job /\ NewJob("start", replace).at = "queued"
      BY DEF NewJob, Job
    <3>2. Len(jobs) < MaxJobs /\ MaxJobs \in Nat
      BY TunnelAssumption DEF AskStart
    <3> QED  BY <1>1, <2>2, <3>1, <3>2, JobsAdd DEF JobsInTurn, Place
  <2> QED  BY <2>1, <2>2 DEF AskStart
<1>3. held' \in Held /\ held'.stopped = FALSE /\ held'.exited = FALSE
  BY DEF AskStart, NotHeld, Held
<1>4. TunnelTyped'
  BY <1>1, <1>3 DEF TunnelTyped
<1>5. ChildOrSupervisor' /\ StopsInOrder'
  BY <1>1, <1>2 DEF ChildOrSupervisor, StopsInOrder, Managed
<1>6. Holding'
  BY <1>3 DEF Holding
<1> QED  BY <1>2, <1>4, <1>5, <1>6 DEF TunnelInv

\* A stop that is asked for leaves no start wanted.
LEMMA StopAsked ==
  ASSUME TunnelInv, RequestStop, intent' \in Intent,
         launch' \in {"due", "checking", "done", "closing", "closed"},
         launch' = "closed" <=> launch = "closed",
         UNCHANGED <<watch, stray, clients>>
  PROVE  TunnelInv'
<1>1. JobsInTurn /\ TunnelTyped /\ ChildOrSupervisor /\ StopsInOrder /\ Holding
  BY TunnelParts
<1>2. /\ StartsAborted \in Seq(Job) /\ Len(StartsAborted) = Len(jobs) /\ Len(jobs) \in 0 .. MaxJobs
      /\ \A i \in 1 .. Len(jobs) : /\ StartsAborted[i].at = jobs[i].at
                                   /\ StartsAborted[i].op = jobs[i].op
                                   /\ jobs[i].op = "start" => StartsAborted[i].aborted = TRUE
      /\ StartsAborted = <<>> <=> jobs = <<>>
      /\ jobs # <<>> => 1 \in 1 .. Len(jobs)
  <2>1. jobs \in Seq(Job) /\ Len(jobs) \in 0 .. MaxJobs
    BY <1>1 DEF JobsInTurn
  <2>2. jobs # <<>> => 1 \in 1 .. Len(jobs)
    BY <2>1, EmptySeq, LenProperties
  <2> QED  BY <1>1, <2>1, <2>2, JobsAborted
<1>3. JobsInTurn' /\ (Place' = Place \/ Place' = "queued") /\ NoStartWanted'
  <2>1. CASE jobs' = StartsAborted
    BY <1>1, <1>2, <2>1 DEF JobsInTurn, Place, NoStartWanted
  <2>2. CASE jobs' = Append(StartsAborted, NewJob("stop", FALSE))
    <3>1. /\ NewJob("stop", FALSE) \in Job /\ NewJob("stop", FALSE).at = "queued"
          /\ NewJob("stop", FALSE).op # "start"
      BY DEF NewJob, Job
    <3>2. Len(StartsAborted) < MaxJobs /\ MaxJobs \in Nat
      BY <1>2, TunnelAssumption DEF RequestStop
    <3>3. \A i \in 1 .. Len(StartsAborted) :
            /\ i # 1 => StartsAborted[i].at = "queued"
            /\ StartsAborted[i].at \in StartPlaces => StartsAborted[i].op = "start"
            /\ StartsAborted[i].at \in StopPlaces => StartsAborted[i].op = "stop"
      BY <1>1, <1>2 DEF JobsInTurn
    <3>4. /\ JobsInTurn' /\ Place' = IF StartsAborted = <<>> THEN "queued" ELSE StartsAborted[1].at
          /\ NoStartWanted'
      BY <1>2, <2>2, <3>1, <3>2, <3>3, JobsAdd
    <3> QED  BY <1>2, <3>4 DEF Place
  <2> QED  BY <2>1, <2>2 DEF RequestStop
<1>4. /\ tunnel' \in Tunnel /\ tunnel'.native = tunnel.native /\ tunnel'.auto = tunnel.auto
      /\ tunnel'.mode = tunnel.mode /\ tunnel'.key = tunnel.key /\ tunnel'.intentional = TRUE
  BY <1>1 DEF RequestStop, TunnelTyped, Tunnel
<1>5. /\ restart' \in RestartState /\ restart'.exits = restart.exits
      /\ restart'.repairs = restart.repairs /\ restart'.timer = FALSE
  BY <1>1 DEF RequestStop, TunnelTyped, RestartState
<1>6. held' = held
  BY DEF RequestStop
<1>7. TunnelTyped'
  BY <1>1, <1>4, <1>5, <1>6 DEF TunnelTyped
<1>8. ChildOrSupervisor' /\ StopsInOrder'
  BY <1>1, <1>3, <1>4, <1>5 DEF ChildOrSupervisor, StopsInOrder, Managed
<1>9. Holding'
  BY <1>1, <1>3, <1>4, <1>6 DEF Holding, AnyClient
<1> QED  BY <1>3, <1>7, <1>8, <1>9 DEF TunnelInv

\* A reconcile of the supervisor that ends.
LEMMA ReconcileEndsKeeps ==
  ASSUME TunnelInv, NEW result, ReconcileEnds(result), watch.reconcile # "none",
         clients' \in {clients, [clients EXCEPT !.alias = "running"]},
         UNCHANGED <<stray, restart, launch, held>>
  PROVE  TunnelInv'
<1>1. JobsInTurn /\ TunnelTyped /\ ChildOrSupervisor /\ StopsInOrder /\ Holding
  BY TunnelParts
<1>2. watch.on = TRUE /\ Managed
  BY <1>1, TunnelParts DEF ChildOrSupervisor
<1>3. /\ JobsInTurn' /\ (Place' = Place \/ Place' \in {"none", "queued"})
      /\ NoStartWanted => NoStartWanted'
  <2>1. CASE jobs' = jobs
    BY <1>1, <2>1 DEF JobsInTurn, Place, NoStartWanted
  <2>2. CASE jobs # <<>> /\ JobEnds
    BY <1>1, <2>2, JobsEnd
  <2> QED  BY <2>1, <2>2 DEF ReconcileEnds, JobAt
<1>4. /\ tunnel' \in Tunnel /\ tunnel'.native = tunnel.native /\ tunnel'.auto = tunnel.auto
      /\ tunnel'.mode = tunnel.mode /\ tunnel'.intentional = tunnel.intentional
      /\ tunnel'.key \in {FALSE, tunnel.key}
  BY <1>1, TunnelParts DEF ReconcileEnds, TunnelTyped, Tunnel, ClientTunnels
<1>5. intent' \in Intent
  BY <1>1 DEF ReconcileEnds, TunnelTyped, Intent
<1>6. /\ watch' \in Watch /\ watch'.on = TRUE
  BY <1>1, <1>2 DEF ReconcileEnds, TunnelTyped, Watch, Reconciles
<1>7. /\ clients' \in ClientTunnels /\ clients'.child = clients.child
      /\ clients'.others = clients.others /\ clients'.forgotten = clients.forgotten
  BY <1>1 DEF TunnelTyped, ClientTunnels
<1>8. TunnelTyped'
  BY <1>1, <1>4, <1>5, <1>6, <1>7 DEF TunnelTyped
<1>9. ChildOrSupervisor' /\ StopsInOrder'
  BY <1>1, <1>2, <1>3, <1>4, <1>6, <1>7 DEF ChildOrSupervisor, StopsInOrder, Managed
<1>10. Holding'
  BY <1>1, <1>2, <1>3, <1>4, <1>6, <1>7 DEF Holding, AnyClient
<1> QED  BY <1>3, <1>8, <1>9, <1>10 DEF TunnelInv

\* A supervisor that is disposed may leave a reconcile in flight.
LEMMA DisposedLeaves ==
  ASSUME TunnelInv, Disposed
  PROVE  /\ watch' \in Watch /\ watch'.on = FALSE /\ watch'.reconcile = "none" /\ watch'.timer = FALSE
         /\ stray' \in Reconciles /\ (stray' # "none" => tunnel.native = TRUE)
         /\ watch.reconcile = "none" => stray' = stray
<1>1. TunnelTyped /\ ChildOrSupervisor /\ watch.on \in BOOLEAN
  BY TunnelParts
<1>2. watch' \in Watch /\ watch'.on = FALSE /\ watch'.reconcile = "none" /\ watch'.timer = FALSE
  BY DEF Disposed, NoWatch, Watch, Reconciles
<1>3. watch.reconcile \in Reconciles /\ stray \in Reconciles
  BY <1>1 DEF TunnelTyped, Watch
<1> QED  BY <1>1, <1>2, <1>3 DEF Disposed, ChildOrSupervisor, Managed

\* A stop that succeeds ends its job, and is held when no start is wanted.
LEMMA StopLeaves ==
  ASSUME TunnelInv, jobs # <<>>, StopSucceeds
  PROVE  /\ JobsInTurn' /\ Place' \in {"none", "queued"} /\ (NoStartWanted => NoStartWanted')
         /\ intent' \in Intent /\ held' \in Held /\ held'.exited = held.exited
         /\ held'.stopped = TRUE => NoStartWanted'
         /\ held'.overlapped = FALSE =>
              /\ watch.reconcile = "none" /\ stray = "none" /\ launch # "closed"
              /\ clients.forgotten = FALSE /\ clients.others = 0
<1>1. /\ JobsInTurn /\ TunnelTyped /\ clients.others \in {0, 1} /\ clients.forgotten \in BOOLEAN
  BY TunnelParts
<1>2. JobsInTurn' /\ Place' \in {"none", "queued"} /\ (NoStartWanted => NoStartWanted')
  BY <1>1, JobsEnd DEF StopSucceeds
<1>3. intent' \in Intent
  BY <1>1 DEF StopSucceeds, TunnelTyped, Intent
<1> DEFINE none == \A i \in 2 .. Len(jobs) : jobs[i].op # "start" \/ jobs[i].aborted
           others == \/ watch.reconcile # "none" \/ stray # "none"
                     \/ clients.forgotten \/ clients.others > 0
                     \/ launch \in {"closing", "closed"}
<1>4. held' = [held EXCEPT !.stopped = none, !.overlapped = others]
  BY DEF StopSucceeds
<1>5. none \in BOOLEAN /\ others \in BOOLEAN
  OBVIOUS
<1>6. /\ jobs' \in Seq(Job) /\ Len(jobs') = Len(jobs) - 1 /\ Len(jobs) \in Nat /\ Len(jobs) > 0
      /\ \A i \in 1 .. Len(jobs') : jobs'[i] = jobs[i + 1] /\ jobs'[i] \in Job
  BY <1>1, HeadTailProperties, EmptySeq, LenProperties, ElementOfSeq
     DEF JobsInTurn, JobEnds, StopSucceeds
<1>7. none => NoStartWanted'
  <2>1. \A i \in 1 .. Len(jobs') : i + 1 \in 2 .. Len(jobs)
    BY <1>6
  <2>2. \A i \in 1 .. Len(jobs') : jobs'[i].aborted \in BOOLEAN
    BY <1>6 DEF Job
  <2> QED  BY <1>6, <2>1, <2>2 DEF NoStartWanted
<1>8. ~others => /\ watch.reconcile = "none" /\ stray = "none" /\ launch # "closed"
                 /\ clients.forgotten = FALSE /\ clients.others = 0
  BY <1>1
<1> HIDE DEF none, others
<1>9. held' \in Held /\ held'.exited = held.exited /\ held'.stopped = none /\ held'.overlapped = others
  BY <1>1, <1>4, <1>5 DEF TunnelTyped, Held
<1> QED  BY <1>2, <1>3, <1>5, <1>7, <1>8, <1>9

\* A child that is spawned may leave another one behind.
LEMMA SpawnedTyped ==
  ASSUME TunnelInv, Spawned
  PROVE  /\ clients' \in ClientTunnels /\ clients'.alias = clients.alias
         /\ intent' \in Intent
<1>1. TunnelTyped
  BY TunnelParts
<1> DEFINE f == clients.forgotten \/ clients.child
<1>2. f \in BOOLEAN
  OBVIOUS
<1>n. clients' = [clients EXCEPT !.child = TRUE, !.forgotten = f]
  BY DEF Spawned
<1> HIDE DEF f
<1>3. clients' \in ClientTunnels /\ clients'.alias = clients.alias
  BY <1>1, <1>2, <1>n DEF TunnelTyped, ClientTunnels
<1>4. intent' \in Intent
  BY <1>1 DEF Spawned, TunnelTyped, Intent
<1> QED  BY <1>3, <1>4

\* Every step keeps the invariant of the tunnel.
LEMMA TunnelInvStep ==
  ASSUME TunnelInv, [TunnelControlNext]_tunnelVars
  PROVE  TunnelInv'
<1>0. /\ TunnelTyped /\ JobsInTurn /\ ChildOrSupervisor /\ StopsInOrder /\ Holding
      /\ tunnel.native \in BOOLEAN /\ tunnel.auto \in BOOLEAN /\ tunnel.intentional \in BOOLEAN
      /\ tunnel.key \in BOOLEAN /\ clients.child \in BOOLEAN /\ clients.forgotten \in BOOLEAN
      /\ clients.others \in {0, 1}
      /\ watch.on \in BOOLEAN /\ watch.timer \in BOOLEAN /\ restart.timer \in BOOLEAN
      /\ held.stopped \in BOOLEAN /\ held.overlapped \in BOOLEAN /\ held.exited \in BOOLEAN
      /\ restart.exits \in {0, 1} /\ restart.repairs \in {0, 1}
  BY TunnelParts
<1>1. CASE UserStart \/ UserStop
  <2>1. intent' \in Intent
    BY <1>0, <1>1 DEF UserStart, UserStop, TunnelTyped, Intent
  <2> QED  BY <1>0, <1>1, <2>1, StartAsked, StopAsked DEF UserStart, UserStop, TunnelTyped
<1>2. CASE Launch \/ LaunchChecked
  <2>1. /\ launch' \in {"due", "checking", "done", "closing", "closed"}
        /\ launch' = "closed" <=> launch = "closed"
        /\ UNCHANGED <<intent, watch, stray, clients>>
    BY <1>2 DEF Launch, LaunchChecked
  <2>2. CASE AskStart(FALSE) /\ UNCHANGED <<tunnel, restart>>
    BY <1>0, <2>1, <2>2, StartAsked DEF TunnelTyped
  <2>3. CASE RequestStop
    BY <1>0, <2>1, <2>3, StopAsked DEF TunnelTyped
  <2>4. CASE UNCHANGED <<tunnel, restart, jobs, held>>
    <3>1. TunnelTyped'
      BY <1>0, <2>1, <2>4 DEF TunnelTyped
    <3>2. JobsInTurn' /\ ChildOrSupervisor' /\ StopsInOrder' /\ Holding'
      BY <1>0, <2>1, <2>4 DEF JobsInTurn, Place, ChildOrSupervisor, StopsInOrder, Holding,
                             NoStartWanted, AnyClient, Managed
    <3> QED  BY <3>1, <3>2 DEF TunnelInv
  <2> QED  BY <1>2, <2>2, <2>3, <2>4 DEF Launch, LaunchChecked
<1>3. CASE WatchTimer
  <2>u. UNCHANGED <<intent, tunnel, stray, restart, clients, launch, held>> /\ jobs' = jobs
    BY <1>3 DEF WatchTimer
  <2>q. JobsInTurn' /\ Place' = Place /\ (NoStartWanted => NoStartWanted')
    BY <1>0, <2>u DEF JobsInTurn, Place, NoStartWanted
  <2>1. /\ watch' \in Watch /\ watch'.on = watch.on /\ watch.timer = TRUE
    BY <1>0, <1>3 DEF WatchTimer, TunnelTyped, Watch, Reconciles
  <2>t. TunnelTyped'
    BY <1>0, <2>u, <2>q, <2>1 DEF TunnelTyped
  <2>c. ChildOrSupervisor' /\ StopsInOrder'
    BY <1>0, <2>u, <2>q, <2>1 DEF ChildOrSupervisor, StopsInOrder, Managed
  <2>h. Holding'
    BY <1>0, <2>u, <2>q, <2>1 DEF Holding, AnyClient
  <2> QED  BY <2>u, <2>q, <2>1, <2>t, <2>c, <2>h DEF TunnelInv
<1>4. CASE LookAtAlias
  <2>1. CASE \E result \in {"ready", "retry", "operator", "rejected"} : ReconcileEnds(result)
    <3>1. UNCHANGED <<stray, restart, clients, launch, held>> /\ watch.reconcile # "none"
      BY <1>4 DEF LookAtAlias
    <3> QED  BY <2>1, <3>1, ReconcileEndsKeeps
  <2>2. CASE watch' = [watch EXCEPT !.reconcile = "connect"] /\ UNCHANGED <<intent, tunnel, jobs>>
    <3>1. UNCHANGED <<stray, restart, clients, launch, held>> /\ watch.reconcile # "none"
      BY <1>4 DEF LookAtAlias
    <3>2. watch' \in Watch /\ watch'.on = watch.on /\ watch'.timer = watch.timer
      BY <1>0, <2>2 DEF TunnelTyped, Watch, Reconciles
    <3>3. TunnelTyped'
      BY <1>0, <2>2, <3>1, <3>2 DEF TunnelTyped
    <3>4. JobsInTurn' /\ ChildOrSupervisor' /\ StopsInOrder' /\ Holding'
      BY <1>0, <2>2, <3>1, <3>2 DEF JobsInTurn, Place, ChildOrSupervisor, StopsInOrder, Holding,
                                    NoStartWanted, AnyClient, Managed
    <3> QED  BY <3>3, <3>4 DEF TunnelInv
  <2> QED  BY <1>4, <2>1, <2>2 DEF LookAtAlias
<1>5. CASE ConnectAlias
  <2>1. /\ UNCHANGED <<stray, restart, launch, held>> /\ watch.reconcile # "none"
        /\ clients' \in {clients, [clients EXCEPT !.alias = "running"]}
        /\ \E result \in {"ready", "retry", "operator"} : ReconcileEnds(result)
    BY <1>5 DEF ConnectAlias
  <2> QED  BY <2>1, ReconcileEndsKeeps
<1>6. CASE StrayGoesOn
  <2>u. UNCHANGED <<intent, tunnel, watch, restart, launch, held>> /\ jobs' = jobs
    BY <1>6 DEF StrayGoesOn
  <2>q. JobsInTurn' /\ Place' = Place /\ (NoStartWanted => NoStartWanted')
    BY <1>0, <2>u DEF JobsInTurn, Place, NoStartWanted
  <2>1. /\ clients' \in ClientTunnels /\ clients'.child = clients.child
       /\ clients'.others = clients.others /\ clients'.forgotten = clients.forgotten
       /\ clients'.alias \in {clients.alias, "running"}
    BY <1>0, <1>6 DEF StrayGoesOn, TunnelTyped, ClientTunnels
  <2>2. /\ stray' \in Reconciles /\ stray # "none"
    BY <1>0, <1>6 DEF StrayGoesOn, TunnelTyped, Reconciles
  <2>t. TunnelTyped'
    BY <1>0, <2>u, <2>q, <2>1, <2>2 DEF TunnelTyped
  <2>c. ChildOrSupervisor' /\ StopsInOrder'
    BY <1>0, <2>u, <2>q, <2>1, <2>2 DEF ChildOrSupervisor, StopsInOrder, Managed
  <2>h. Holding'
    BY <1>0, <2>u, <2>q, <2>1, <2>2 DEF Holding, AnyClient
  <2> QED  BY <2>u, <2>q, <2>1, <2>2, <2>t, <2>c, <2>h DEF TunnelInv
<1>7. CASE StartJob
  <2>0. /\ jobs # <<>> /\ Place = "queued" /\ jobs[1] \in Job /\ jobs[1].aborted \in BOOLEAN
        /\ jobs[1].op = "start" /\ (NoStartWanted => jobs[1].aborted = TRUE)
        /\ UNCHANGED <<intent, stray, clients, launch, held>>
    BY <1>0, <1>7, TunnelParts DEF StartJob, JobAt
  <2>e. ASSUME JobEnds
      PROVE  JobsInTurn' /\ Place' \in {"none", "queued"} /\ (NoStartWanted => NoStartWanted')
    BY <1>0, <2>0, <2>e, JobsEnd
  <2>m. ASSUME NEW place \in {"kick", "probe"}, GoOn(place)
        PROVE  JobsInTurn' /\ Place' = place /\ (NoStartWanted => NoStartWanted')
    BY <1>0, <2>0, <2>m, JobMoves DEF StartPlaces, StopPlaces
  <2>1. /\ tunnel' \in Tunnel /\ tunnel'.native = tunnel.native /\ tunnel'.auto = tunnel.auto
        /\ tunnel'.mode = tunnel.mode /\ tunnel'.key \in {FALSE, tunnel.key}
        /\ (jobs[1].aborted = TRUE => tunnel'.key = FALSE)
    BY <1>0, <2>0, <1>7 DEF StartJob, TunnelTyped, Tunnel, ClientTunnels
  <2>2. /\ restart' \in RestartState /\ restart'.exits = restart.exits
        /\ restart'.repairs = restart.repairs /\ restart'.timer = FALSE
    BY <1>0, <1>7 DEF StartJob, TunnelTyped, RestartState
  <2>3. CASE jobs[1].aborted = TRUE
    <3>1. JobEnds /\ watch' = watch
      BY <1>7, <2>3 DEF StartJob
    <3>2. JobsInTurn' /\ Place' \in {"none", "queued"} /\ (NoStartWanted => NoStartWanted')
      BY <2>e, <3>1
    <3>t. TunnelTyped'
      BY <1>0, <2>0, <2>1, <2>2, <2>3, <3>1, <3>2 DEF TunnelTyped
    <3>c. ChildOrSupervisor' /\ StopsInOrder'
      BY <1>0, <2>0, <2>1, <2>2, <2>3, <3>1, <3>2 DEF ChildOrSupervisor, StopsInOrder, Managed, StartPlaces, StopPlaces
    <3>h. Holding'
      BY <1>0, <2>0, <2>1, <2>2, <2>3, <3>1, <3>2 DEF Holding, AnyClient
    <3> QED  BY <2>0, <2>1, <2>2, <2>3, <3>1, <3>2, <3>t, <3>c, <3>h DEF TunnelInv
  <2>4. CASE jobs[1].aborted = FALSE
    <3>1. JobsInTurn' /\ Place' \in {"none", "queued", "kick", "probe"}
      <4>1. JobEnds \/ GoOn("kick") \/ GoOn("probe")
        BY <1>7, <2>4 DEF StartJob
      <4> QED  BY <2>e, <2>m, <4>1
    <3>2. /\ watch' \in Watch /\ watch'.on = watch.on
          /\ watch'.on = FALSE => watch'.reconcile = watch.reconcile /\ watch'.timer = watch.timer
      <4>1. \/ watch' = watch
            \/ watch.on = TRUE /\ watch' = Kicked(watch)
            \/ watch.on = TRUE /\ watch' = [watch EXCEPT !.running = TRUE, !.timer = FALSE]
        BY <1>0, <1>7, <2>4 DEF StartJob
      <4> QED  BY <1>0, <4>1 DEF TunnelTyped, Watch, Kicked, Reconciles
    <3>3. held.stopped = FALSE /\ held.exited = FALSE
      BY <1>0, <2>0, <2>4 DEF Holding
    <3>t. TunnelTyped'
      BY <1>0, <2>0, <2>1, <2>2, <3>1, <3>2, <3>3 DEF TunnelTyped
    <3>c. ChildOrSupervisor' /\ StopsInOrder'
      BY <1>0, <2>0, <2>1, <2>2, <3>1, <3>2, <3>3 DEF ChildOrSupervisor, StopsInOrder, Managed, StartPlaces, StopPlaces
    <3>h. Holding'
      BY <1>0, <2>0, <2>1, <2>2, <3>1, <3>2, <3>3 DEF Holding, AnyClient
    <3> QED  BY <2>0, <2>1, <2>2, <3>1, <3>2, <3>3, <3>t, <3>c, <3>h DEF TunnelInv
  <2> QED  BY <2>0, <2>3, <2>4
<1>8. CASE ProbeRunning
  <2>0. /\ jobs # <<>> /\ Place = "probe" /\ jobs[1] \in Job /\ jobs[1].aborted \in BOOLEAN /\ jobs[1].op = "start"
        /\ UNCHANGED <<intent, watch, stray, restart, clients, launch, held>>
    BY <1>0, <1>8, TunnelParts DEF ProbeRunning, JobAt, StartPlaces, StopPlaces
  <2>e. ASSUME JobEnds
      PROVE  JobsInTurn' /\ Place' \in {"none", "queued"} /\ (NoStartWanted => NoStartWanted')
    BY <1>0, <2>0, <2>e, JobsEnd
  <2>f. ASSUME StartFails
        PROVE  /\ tunnel' \in Tunnel /\ tunnel'.native = tunnel.native
               /\ tunnel'.auto = tunnel.auto /\ tunnel'.mode = tunnel.mode
               /\ tunnel'.intentional = tunnel.intentional
               /\ tunnel'.key = FALSE
    BY <1>0, <2>f DEF StartFails, TunnelTyped, Tunnel, ClientTunnels
  <2>1. CASE JobEnds /\ (StartFails \/ tunnel' = tunnel)
    <3>1. JobsInTurn' /\ Place' \in {"none", "queued"} /\ (NoStartWanted => NoStartWanted')
      BY <2>e, <2>1
    <3>2. /\ tunnel' \in Tunnel /\ tunnel'.native = tunnel.native /\ tunnel'.auto = tunnel.auto
          /\ tunnel'.mode = tunnel.mode /\ tunnel'.intentional = tunnel.intentional
          /\ tunnel'.key \in {FALSE, tunnel.key}
      BY <1>0, <2>1, <2>f DEF TunnelTyped
    <3>t. TunnelTyped'
      BY <1>0, <2>0, <3>1, <3>2 DEF TunnelTyped
    <3>c. ChildOrSupervisor' /\ StopsInOrder'
      BY <1>0, <2>0, <3>1, <3>2 DEF ChildOrSupervisor, StopsInOrder, Managed, StartPlaces, StopPlaces
    <3>h. Holding'
      BY <1>0, <2>0, <3>1, <3>2 DEF Holding, AnyClient
    <3> QED  BY <2>0, <3>1, <3>2, <3>t, <3>c, <3>h DEF TunnelInv
  <2>2. CASE /\ jobs' = [jobs EXCEPT ![1] = [jobs[1] EXCEPT !.at = "native", !.external = AnyClient /\ ~tunnel.lock]]
             /\ tunnel' = tunnel
    <3> DEFINE j == [jobs[1] EXCEPT !.at = "native", !.external = AnyClient /\ ~tunnel.lock]
    <3>1. j \in Job /\ j.at = "native" /\ j.op = jobs[1].op /\ j.aborted = jobs[1].aborted
      BY <2>0 DEF Job, AnyClient
    <3>2. jobs' = [jobs EXCEPT ![1] = j]
      BY <2>2
    <3> HIDE DEF j
    <3>3. JobsInTurn' /\ Place' = "native" /\ (NoStartWanted => NoStartWanted')
      BY <1>0, <2>0, <3>1, <3>2, JobGoesOn DEF StopPlaces
    <3>t. TunnelTyped'
      BY <1>0, <2>0, <2>2, <3>3 DEF TunnelTyped
    <3>c. ChildOrSupervisor' /\ StopsInOrder'
      BY <1>0, <2>0, <2>2, <3>3 DEF ChildOrSupervisor, StopsInOrder, Managed, StartPlaces, StopPlaces
    <3>h. Holding'
      BY <1>0, <2>0, <2>2, <3>3 DEF Holding, AnyClient
    <3> QED  BY <2>0, <2>2, <3>3, <3>t, <3>c, <3>h DEF TunnelInv
  <2>3. JobsInTurn /\ jobs[1] = jobs[1]
    BY <1>0
  <2> QED  BY <1>0, <2>0, <1>8, <2>1, <2>2 DEF ProbeRunning, StartFails
<1>9. CASE StartNative
  <2>0. /\ jobs # <<>> /\ Place = "native" /\ jobs[1] \in Job /\ jobs[1].aborted \in BOOLEAN /\ jobs[1].op = "start"
        /\ UNCHANGED <<intent, restart, launch, held>>
    BY <1>0, <1>9, TunnelParts DEF StartNative, JobAt, StartPlaces, StopPlaces
  <2>e. ASSUME JobEnds
      PROVE  JobsInTurn' /\ Place' \in {"none", "queued"} /\ (NoStartWanted => NoStartWanted')
    BY <1>0, <2>0, <2>e, JobsEnd
  <2>f. ASSUME StartFails
        PROVE  /\ tunnel' \in Tunnel /\ tunnel'.native = tunnel.native
               /\ tunnel'.auto = tunnel.auto /\ tunnel'.mode = tunnel.mode
               /\ tunnel'.intentional = tunnel.intentional
               /\ tunnel'.key = FALSE
    BY <1>0, <2>f DEF StartFails, TunnelTyped, Tunnel, ClientTunnels
  <2>m. ASSUME NEW place \in {"connect", "child"}, GoOn(place)
        PROVE  JobsInTurn' /\ Place' = place /\ (NoStartWanted => NoStartWanted')
    BY <1>0, <2>0, <2>m, JobMoves DEF StartPlaces, StopPlaces
  <2>1. tunnel.native = TRUE
    BY <1>0, <1>9 DEF StartNative
  <2>2. CASE StartFails /\ UNCHANGED <<watch, stray, clients>>
    <3>1. JobsInTurn' /\ Place' \in {"none", "queued"} /\ (NoStartWanted => NoStartWanted')
      BY <2>e, <2>2 DEF StartFails
    <3>2. /\ tunnel' \in Tunnel /\ tunnel'.native = tunnel.native /\ tunnel'.auto = tunnel.auto
          /\ tunnel'.mode = tunnel.mode /\ tunnel'.intentional = tunnel.intentional
          /\ tunnel'.key = FALSE
      BY <2>2, <2>f
    <3>t. TunnelTyped'
      BY <1>0, <2>0, <2>2, <3>1, <3>2 DEF TunnelTyped
    <3>c. ChildOrSupervisor' /\ StopsInOrder'
      BY <1>0, <2>0, <2>2, <3>1, <3>2 DEF ChildOrSupervisor, StopsInOrder, Managed, StartPlaces, StopPlaces
    <3>h. Holding'
      BY <1>0, <2>0, <2>2, <3>1, <3>2 DEF Holding, AnyClient
    <3> QED  BY <2>0, <2>2, <3>1, <3>2, <3>t, <3>c, <3>h DEF TunnelInv
  <2>3. ASSUME jobs[1].aborted = FALSE
        PROVE  held.stopped = FALSE /\ held.exited = FALSE
    BY <1>0, <2>0, <2>3, TunnelParts DEF Holding
  <2>4. CASE /\ jobs[1].aborted = FALSE /\ JobEnds /\ tunnel' = [tunnel EXCEPT !.key = TRUE]
             /\ UNCHANGED <<watch, stray, clients>>
    <3>1. JobsInTurn' /\ Place' \in {"none", "queued"}
      BY <2>e, <2>4
    <3>2. /\ tunnel' \in Tunnel /\ tunnel'.native = tunnel.native /\ tunnel'.auto = tunnel.auto
          /\ tunnel'.mode = tunnel.mode /\ tunnel'.intentional = tunnel.intentional
          /\ tunnel'.key = TRUE
      BY <1>0, <2>4 DEF TunnelTyped, Tunnel
    <3>3. held.stopped = FALSE /\ held.exited = FALSE
      BY <2>3, <2>4
    <3>t. TunnelTyped'
      BY <1>0, <2>0, <2>4, <3>1, <3>2, <3>3 DEF TunnelTyped
    <3>c. ChildOrSupervisor' /\ StopsInOrder'
      BY <1>0, <2>0, <2>4, <3>1, <3>2, <3>3 DEF ChildOrSupervisor, StopsInOrder, Managed, StartPlaces, StopPlaces
    <3>h. Holding'
      BY <1>0, <2>0, <2>4, <3>1, <3>2, <3>3 DEF Holding, AnyClient
    <3> QED  BY <2>0, <2>4, <3>1, <3>2, <3>3, <3>t, <3>c, <3>h DEF TunnelInv
  <2>5. CASE /\ jobs[1].aborted = FALSE
             /\ clients' \in {clients, [clients EXCEPT !.alias = "down"]}
             /\ stray' = (IF watch.reconcile = "none" THEN stray ELSE watch.reconcile)
             /\ watch' = IF tunnel.auto THEN Kicked(NoWatch) ELSE NoWatch
             /\ tunnel' = [tunnel EXCEPT !.key = TRUE,
                          !.mode = IF tunnel.auto THEN "native" ELSE IF @ = "native" THEN "none" ELSE @]
             /\ GoOn(IF tunnel.auto THEN "connect" ELSE "child")
    <3>1. JobsInTurn' /\ Place' = (IF tunnel.auto THEN "connect" ELSE "child")
      BY <2>m, <2>5
    <3>2. /\ tunnel' \in Tunnel /\ tunnel'.native = tunnel.native /\ tunnel'.auto = tunnel.auto
          /\ tunnel'.intentional = tunnel.intentional /\ tunnel'.key = TRUE
          /\ tunnel'.mode = "native" <=> tunnel.auto = TRUE
      BY <1>0, <2>5 DEF TunnelTyped, Tunnel
    <3>3. /\ clients' \in ClientTunnels /\ clients'.child = clients.child
          /\ clients'.others = clients.others /\ clients'.forgotten = clients.forgotten
          /\ clients'.alias \in {clients.alias, "down"}
      BY <1>0, <2>5 DEF TunnelTyped, ClientTunnels
    <3>4. /\ watch' \in Watch /\ watch'.on = tunnel.auto
          /\ watch'.on = FALSE => watch'.reconcile = "none" /\ watch'.timer = FALSE
      BY <1>0, <2>5 DEF Watch, Reconciles, NoWatch, Kicked
    <3>5. stray' \in Reconciles
      BY <1>0, <2>5 DEF TunnelTyped, Watch
    <3>6. held.stopped = FALSE /\ held.exited = FALSE
      BY <2>3, <2>5
    <3>t. TunnelTyped'
      BY <1>0, <2>0, <2>1, <3>1, <3>2, <3>3, <3>4, <3>5, <3>6 DEF TunnelTyped
    <3>c. ChildOrSupervisor' /\ StopsInOrder'
      BY <1>0, <2>0, <2>1, <3>1, <3>2, <3>3, <3>4, <3>5, <3>6 DEF ChildOrSupervisor, StopsInOrder, Managed, StartPlaces, StopPlaces
    <3>h. Holding'
      BY <1>0, <2>0, <2>1, <3>1, <3>2, <3>3, <3>4, <3>5, <3>6 DEF Holding, AnyClient
    <3> QED  BY <2>0, <2>1, <3>1, <3>2, <3>3, <3>4, <3>5, <3>6, <3>t, <3>c, <3>h DEF TunnelInv
  <2> QED  BY <2>0, <1>9, <2>2, <2>4, <2>5 DEF StartNative
<1>10. CASE NoNative
  <2>0. /\ jobs # <<>> /\ Place = "native" /\ jobs[1] \in Job /\ jobs[1].aborted \in BOOLEAN /\ jobs[1].op = "start"
        /\ UNCHANGED <<intent, watch, stray, restart, clients, launch, held>>
    BY <1>0, <1>10, TunnelParts DEF NoNative, JobAt, StartPlaces, StopPlaces
  <2>e. ASSUME JobEnds
      PROVE  JobsInTurn' /\ Place' \in {"none", "queued"} /\ (NoStartWanted => NoStartWanted')
    BY <1>0, <2>0, <2>e, JobsEnd
  <2>f. ASSUME StartFails
        PROVE  /\ tunnel' \in Tunnel /\ tunnel'.native = tunnel.native
               /\ tunnel'.auto = tunnel.auto /\ tunnel'.mode = tunnel.mode
               /\ tunnel'.intentional = tunnel.intentional
               /\ tunnel'.key = FALSE
    BY <1>0, <2>f DEF StartFails, TunnelTyped, Tunnel, ClientTunnels
  <2>m. ASSUME NEW place \in {"child"}, GoOn(place)
        PROVE  JobsInTurn' /\ Place' = place /\ (NoStartWanted => NoStartWanted')
    BY <1>0, <2>0, <2>m, JobMoves DEF StartPlaces, StopPlaces
  <2>1. tunnel.native = FALSE
    BY <1>0, <1>10 DEF NoNative
  <2>2. CASE jobs[1].aborted = TRUE
    <3>0. StartFails
      BY <1>10, <2>2 DEF NoNative
    <3>1. JobsInTurn' /\ Place' \in {"none", "queued"} /\ (NoStartWanted => NoStartWanted')
      BY <2>e, <3>0 DEF StartFails
    <3>2. /\ tunnel' \in Tunnel /\ tunnel'.native = tunnel.native /\ tunnel'.auto = tunnel.auto
          /\ tunnel'.mode = tunnel.mode /\ tunnel'.intentional = tunnel.intentional
          /\ tunnel'.key = FALSE
      BY <2>f, <3>0
    <3>t. TunnelTyped'
      BY <1>0, <2>0, <3>1, <3>2 DEF TunnelTyped
    <3>c. ChildOrSupervisor' /\ StopsInOrder'
      BY <1>0, <2>0, <3>1, <3>2 DEF ChildOrSupervisor, StopsInOrder, Managed, StartPlaces, StopPlaces
    <3>h. Holding'
      BY <1>0, <2>0, <3>1, <3>2 DEF Holding, AnyClient
    <3> QED  BY <2>0, <3>1, <3>2, <3>t, <3>c, <3>h DEF TunnelInv
  <2>3. CASE jobs[1].aborted = FALSE
    <3>1. JobsInTurn' /\ Place' = "child"
      BY <1>10, <2>m, <2>3 DEF NoNative
    <3>2. /\ tunnel' \in Tunnel /\ tunnel'.native = tunnel.native /\ tunnel'.auto = tunnel.auto
          /\ tunnel'.mode = tunnel.mode /\ tunnel'.intentional = tunnel.intentional
          /\ tunnel'.key = TRUE
      BY <1>0, <1>10, <2>3 DEF NoNative, TunnelTyped, Tunnel
    <3>3. held.stopped = FALSE /\ held.exited = FALSE
      BY <1>0, <2>0, <2>3, TunnelParts DEF Holding
    <3>t. TunnelTyped'
      BY <1>0, <2>0, <2>1, <3>1, <3>2, <3>3 DEF TunnelTyped
    <3>c. ChildOrSupervisor' /\ StopsInOrder'
      BY <1>0, <2>0, <2>1, <3>1, <3>2, <3>3 DEF ChildOrSupervisor, StopsInOrder, Managed, StartPlaces, StopPlaces
    <3>h. Holding'
      BY <1>0, <2>0, <2>1, <3>1, <3>2, <3>3 DEF Holding, AnyClient
    <3> QED  BY <2>0, <2>1, <3>1, <3>2, <3>3, <3>t, <3>c, <3>h DEF TunnelInv
  <2> QED  BY <2>0, <2>2, <2>3
<1>11. CASE StartChild
  <2>0. /\ jobs # <<>> /\ Place = "child" /\ jobs[1] \in Job /\ jobs[1].aborted \in BOOLEAN
        /\ jobs[1].op = "start" /\ UNCHANGED <<watch, stray, restart, launch, held>>
    BY <1>0, <1>11, TunnelParts DEF StartChild, JobAt, StartPlaces, StopPlaces
  <2>e. ASSUME JobEnds
        PROVE  JobsInTurn' /\ Place' \in {"none", "queued"} /\ (NoStartWanted => NoStartWanted')
    BY <1>0, <2>0, <2>e, JobsEnd
  <2>m. ~Managed
    BY <1>0, <2>0 DEF ChildOrSupervisor
  <2>2. CASE JobEnds /\ (StartFails \/ tunnel' = tunnel) /\ UNCHANGED <<intent, clients>>
    <3>1. JobsInTurn' /\ Place' \in {"none", "queued"} /\ (NoStartWanted => NoStartWanted')
      BY <2>e, <2>2
    <3>2. /\ tunnel' \in Tunnel /\ tunnel'.native = tunnel.native /\ tunnel'.auto = tunnel.auto
          /\ tunnel'.mode = tunnel.mode /\ tunnel'.intentional = tunnel.intentional
          /\ tunnel'.key \in {FALSE, tunnel.key}
      BY <1>0, <2>2 DEF TunnelTyped, Tunnel, ClientTunnels, StartFails
    <3>t. TunnelTyped'
      BY <1>0, <2>0, <2>2, <3>1, <3>2 DEF TunnelTyped
    <3>c. ChildOrSupervisor' /\ StopsInOrder'
      BY <1>0, <2>0, <2>2, <3>1, <3>2 DEF ChildOrSupervisor, StopsInOrder, Managed, StartPlaces, StopPlaces
    <3>h. Holding'
      BY <1>0, <2>0, <2>2, <3>1, <3>2 DEF Holding, AnyClient
    <3> QED  BY <2>0, <2>2, <3>1, <3>2, <3>t, <3>c, <3>h DEF TunnelInv
  <2>3. CASE /\ jobs[1].aborted = FALSE /\ Spawned /\ JobEnds
             /\ tunnel' = [tunnel EXCEPT !.lock = TRUE, !.mode = "child", !.dirty = FALSE]
    <3>1. JobsInTurn' /\ Place' \in {"none", "queued"} /\ (NoStartWanted => NoStartWanted')
      BY <2>e, <2>3
    <3>2. /\ tunnel' \in Tunnel /\ tunnel'.native = tunnel.native /\ tunnel'.auto = tunnel.auto
          /\ tunnel'.mode = "child" /\ tunnel'.intentional = tunnel.intentional
          /\ tunnel'.key = tunnel.key
      BY <1>0, <2>3 DEF TunnelTyped, Tunnel, ClientTunnels
    <3>3. /\ clients' \in ClientTunnels /\ clients'.alias = clients.alias
          /\ intent' \in Intent
      BY <2>3, SpawnedTyped
    <3>4. held.stopped = FALSE /\ held.exited = FALSE
      BY <1>0, <2>0, <2>3, TunnelParts DEF Holding
    <3>t. TunnelTyped'
      BY <1>0, <2>0, <2>m, <3>1, <3>2, <3>3, <3>4 DEF TunnelTyped
    <3>c. ChildOrSupervisor' /\ StopsInOrder'
      BY <1>0, <2>0, <2>m, <3>1, <3>2, <3>3, <3>4 DEF ChildOrSupervisor, StopsInOrder, Managed, StartPlaces, StopPlaces
    <3>h. Holding'
      BY <1>0, <2>0, <2>m, <3>1, <3>2, <3>3, <3>4 DEF Holding, AnyClient
    <3> QED  BY <2>0, <2>m, <3>1, <3>2, <3>3, <3>4, <3>t, <3>c, <3>h DEF TunnelInv
  <2> QED  BY <2>0, <1>11, <2>2, <2>3 DEF StartChild, StartFails
<1>12. CASE StopJob
  <2>0. /\ jobs # <<>> /\ Place = "queued" /\ jobs[1].op = "stop"
        /\ UNCHANGED <<intent, stray, clients, launch, held>>
    BY <1>0, <1>12, TunnelParts DEF StopJob, JobAt
  <2>m. ASSUME NEW place \in StopPlaces, GoOn(place)
        PROVE  JobsInTurn' /\ Place' = place /\ (NoStartWanted => NoStartWanted')
    BY <1>0, <2>0, <2>m, JobMoves DEF StartPlaces, StopPlaces
  <2>2. CASE tunnel.mode = "native" /\ watch.on = TRUE
    <3>0. GoOn("halt") /\ watch' = [watch EXCEPT !.running = FALSE, !.timer = FALSE] /\ UNCHANGED <<tunnel, restart>>
      BY <1>12, <2>2 DEF StopJob
    <3>1. JobsInTurn' /\ Place' = "halt" /\ (NoStartWanted => NoStartWanted')
      BY <2>m, <3>0 DEF StopPlaces
    <3>2. watch' \in Watch /\ watch'.on = TRUE
      BY <1>0, <2>2, <3>0 DEF TunnelTyped, Watch
    <3>t. TunnelTyped'
      BY <1>0, <2>0, <2>2, <3>0, <3>1, <3>2 DEF TunnelTyped
    <3>c. ChildOrSupervisor' /\ StopsInOrder'
      BY <1>0, <2>0, <2>2, <3>0, <3>1, <3>2 DEF ChildOrSupervisor, StopsInOrder, Managed, StartPlaces, StopPlaces
    <3>h. Holding'
      BY <1>0, <2>0, <2>2, <3>0, <3>1, <3>2 DEF Holding, AnyClient
    <3> QED  BY <2>0, <2>2, <3>0, <3>1, <3>2, <3>t, <3>c, <3>h DEF TunnelInv
  <2>3. CASE ~(tunnel.mode = "native" /\ watch.on = TRUE)
    <3>0. /\ GoOn(IF clients.child THEN "kill" ELSE "persist")
          /\ tunnel' = [tunnel EXCEPT !.intentional = TRUE]
          /\ restart' = [restart EXCEPT !.timer = FALSE] /\ watch' = watch
      BY <1>0, <1>12, <2>3 DEF StopJob
    <3>1. /\ JobsInTurn' /\ (NoStartWanted => NoStartWanted') /\ Place' \in {"kill", "persist"}
          /\ Place' = "persist" => clients.child = FALSE
      BY <1>0, <2>m, <3>0 DEF StopPlaces
    <3>r. /\ restart' \in RestartState /\ restart'.exits = restart.exits
          /\ restart'.repairs = restart.repairs /\ restart'.timer = FALSE
      BY <1>0, <3>0 DEF TunnelTyped, RestartState
    <3>2. /\ tunnel' \in Tunnel /\ tunnel'.native = tunnel.native /\ tunnel'.auto = tunnel.auto
          /\ tunnel'.mode = tunnel.mode /\ tunnel'.intentional = TRUE
          /\ tunnel'.key = tunnel.key
      BY <1>0, <3>0 DEF TunnelTyped, Tunnel, ClientTunnels
    <3>w. watch'.on = FALSE \/ launch = "closed"
      BY <1>0, <2>3, <3>0 DEF ChildOrSupervisor
    <3>t. TunnelTyped'
      BY <1>0, <2>0, <3>1, <3>r, <3>2, <3>w, <3>0 DEF TunnelTyped
    <3>c. ChildOrSupervisor' /\ StopsInOrder'
      BY <1>0, <2>0, <3>1, <3>r, <3>2, <3>w, <3>0 DEF ChildOrSupervisor, StopsInOrder, Managed, StartPlaces, StopPlaces
    <3>h. Holding'
      BY <1>0, <2>0, <3>1, <3>r, <3>2, <3>w, <3>0 DEF Holding, AnyClient
    <3> QED  BY <2>0, <3>1, <3>r, <3>2, <3>w, <3>0, <3>t, <3>c, <3>h DEF TunnelInv
  <2> QED  BY <2>2, <2>3
<1>13. CASE Halt
  <2>0. /\ jobs # <<>> /\ Place = "halt" /\ Managed /\ UNCHANGED <<restart, launch>>
    BY <1>0, <1>13, TunnelParts DEF Halt, JobAt, ChildOrSupervisor
  <2>1. clients.child = FALSE /\ clients.forgotten = FALSE
    BY <1>0, <2>0 DEF ChildOrSupervisor
  <2>2. CASE /\ clients' = [clients EXCEPT !.alias = IF clients.alias = "running" THEN "down" ELSE clients.alias]
             /\ Disposed /\ StopSucceeds
             /\ tunnel' = [tunnel EXCEPT !.mode = "none", !.key = FALSE]
    <3>1. /\ JobsInTurn' /\ Place' \in {"none", "queued"} /\ (NoStartWanted => NoStartWanted')
          /\ intent' \in Intent /\ held' \in Held /\ held'.exited = held.exited
          /\ held'.stopped = TRUE => NoStartWanted'
          /\ held'.overlapped = FALSE =>
               /\ watch.reconcile = "none" /\ stray = "none"
               /\ clients.forgotten = FALSE /\ clients.others = 0
      BY <2>0, <2>2, StopLeaves
    <3>3. /\ watch' \in Watch /\ watch'.on = FALSE /\ watch'.reconcile = "none" /\ watch'.timer = FALSE
          /\ stray' \in Reconciles /\ (watch.reconcile = "none" => stray' = stray)
      BY <2>2, DisposedLeaves
    <3>4. /\ clients' \in ClientTunnels /\ clients'.child = clients.child
          /\ clients'.others = clients.others /\ clients'.forgotten = clients.forgotten
          /\ clients'.alias # "running"
      BY <1>0, <2>2 DEF TunnelTyped, ClientTunnels
    <3>2. /\ tunnel' \in Tunnel /\ tunnel'.native = tunnel.native /\ tunnel'.auto = tunnel.auto
          /\ tunnel'.mode = "none" /\ tunnel'.intentional = tunnel.intentional
          /\ tunnel'.key = FALSE
      BY <1>0, <2>2 DEF TunnelTyped, Tunnel, ClientTunnels
    <3>t. TunnelTyped'
      BY <1>0, <2>0, <2>1, <3>1, <3>2, <3>3, <3>4 DEF TunnelTyped
    <3>c. ChildOrSupervisor' /\ StopsInOrder'
      BY <1>0, <2>0, <2>1, <3>1, <3>2, <3>3, <3>4 DEF ChildOrSupervisor, StopsInOrder, Managed, StartPlaces, StopPlaces
    <3>h. Holding'
      BY <1>0, <2>0, <2>1, <3>1, <3>2, <3>3, <3>4 DEF Holding, AnyClient
    <3> QED  BY <2>0, <2>1, <3>1, <3>2, <3>3, <3>4, <3>t, <3>c, <3>h DEF TunnelInv
  <2>3. CASE JobEnds /\ UNCHANGED <<intent, tunnel, watch, stray, clients, held>>
    <3>1. JobsInTurn' /\ Place' \in {"none", "queued"} /\ (NoStartWanted => NoStartWanted')
      BY <1>0, <2>0, <2>3, JobsEnd
    <3>t. TunnelTyped'
      BY <1>0, <2>0, <2>3, <3>1 DEF TunnelTyped
    <3>c. ChildOrSupervisor' /\ StopsInOrder'
      BY <1>0, <2>0, <2>3, <3>1 DEF ChildOrSupervisor, StopsInOrder, Managed, StartPlaces, StopPlaces
    <3>h. Holding'
      BY <1>0, <2>0, <2>3, <3>1 DEF Holding, AnyClient
    <3> QED  BY <2>0, <2>3, <3>1, <3>t, <3>c, <3>h DEF TunnelInv
  <2> QED  BY <1>13, <2>2, <2>3 DEF Halt
<1>14. CASE Kill
  <2>0. /\ jobs # <<>> /\ Place = "kill" /\ jobs[1].op = "stop"
        /\ UNCHANGED <<intent, tunnel, watch, stray, restart, launch, held>>
    BY <1>0, <1>14, TunnelParts DEF Kill, JobAt, StopPlaces
  <2>2. CASE GoOn("persist") /\ clients' = [clients EXCEPT !.child = FALSE]
    <3>1. JobsInTurn' /\ Place' = "persist" /\ (NoStartWanted => NoStartWanted')
      BY <1>0, <2>0, <2>2, JobMoves DEF StartPlaces, StopPlaces
    <3>2. /\ clients' \in ClientTunnels /\ clients'.child = FALSE
          /\ clients'.others = clients.others /\ clients'.forgotten = clients.forgotten
          /\ clients'.alias = clients.alias
      BY <1>0, <2>2 DEF TunnelTyped, ClientTunnels
    <3>t. TunnelTyped'
      BY <1>0, <2>0, <3>1, <3>2 DEF TunnelTyped
    <3>c. ChildOrSupervisor' /\ StopsInOrder'
      BY <1>0, <2>0, <3>1, <3>2 DEF ChildOrSupervisor, StopsInOrder, Managed, StartPlaces, StopPlaces
    <3>h. Holding'
      BY <1>0, <2>0, <3>1, <3>2 DEF Holding, AnyClient
    <3> QED  BY <2>0, <3>1, <3>2, <3>t, <3>c, <3>h DEF TunnelInv
  <2>3. CASE JobEnds /\ clients' = clients
    <3>1. JobsInTurn' /\ Place' \in {"none", "queued"} /\ (NoStartWanted => NoStartWanted')
      BY <1>0, <2>0, <2>3, JobsEnd
    <3>t. TunnelTyped'
      BY <1>0, <2>0, <2>3, <3>1 DEF TunnelTyped
    <3>c. ChildOrSupervisor' /\ StopsInOrder'
      BY <1>0, <2>0, <2>3, <3>1 DEF ChildOrSupervisor, StopsInOrder, Managed, StartPlaces, StopPlaces
    <3>h. Holding'
      BY <1>0, <2>0, <2>3, <3>1 DEF Holding, AnyClient
    <3> QED  BY <2>0, <2>3, <3>1, <3>t, <3>c, <3>h DEF TunnelInv
  <2> QED  BY <1>14, <2>2, <2>3 DEF Kill
<1>15. CASE Persist
  <2> DEFINE down == IF tunnel.native /\ clients.alias = "running" THEN "down" ELSE clients.alias
  <2>0. /\ jobs # <<>> /\ Place = "persist" /\ UNCHANGED <<watch, stray, restart, launch>>
    BY <1>0, <1>15, TunnelParts DEF Persist, JobAt
  <2>1. /\ clients.child = FALSE /\ (launch = "closed" \/ watch.on = FALSE)
        /\ down \in {"absent", "down"}
    <3>1. clients.alias \in {"absent", "down", "running"}
      BY <1>0 DEF TunnelTyped, ClientTunnels
    <3> QED  BY <1>0, <2>0, <3>1 DEF StopsInOrder, ChildOrSupervisor
  <2>c. ASSUME clients' \in {clients, [clients EXCEPT !.alias = down]}
        PROVE  /\ clients' \in ClientTunnels /\ clients'.child = clients.child
               /\ clients'.others = clients.others /\ clients'.forgotten = clients.forgotten
               /\ clients'.alias \in {clients.alias, down}
    BY <1>0, <2>1, <2>c DEF TunnelTyped, ClientTunnels
  <2>2. CASE /\ clients' = [clients EXCEPT !.alias = down] /\ StopSucceeds
             /\ tunnel' = [tunnel EXCEPT !.mode = "none", !.key = FALSE, !.lock = FALSE]
    <3>1. /\ JobsInTurn' /\ Place' \in {"none", "queued"} /\ (NoStartWanted => NoStartWanted')
          /\ intent' \in Intent /\ held' \in Held /\ held'.exited = held.exited
          /\ held'.stopped = TRUE => NoStartWanted'
          /\ held'.overlapped = FALSE =>
               /\ watch.reconcile = "none" /\ stray = "none" /\ launch # "closed"
               /\ clients.forgotten = FALSE /\ clients.others = 0
      BY <2>0, <2>2, StopLeaves
    <3>4. /\ clients' \in ClientTunnels /\ clients'.child = FALSE
          /\ clients'.others = clients.others /\ clients'.forgotten = clients.forgotten
          /\ clients'.alias \in {"absent", "down"}
      <4>1. clients'.alias = down
        BY <1>0, <2>2 DEF TunnelTyped, ClientTunnels
      <4> HIDE DEF down
      <4> QED  BY <2>1, <2>2, <2>c, <4>1
    <3>2. /\ tunnel' \in Tunnel /\ tunnel'.native = tunnel.native /\ tunnel'.auto = tunnel.auto
          /\ tunnel'.mode = "none" /\ tunnel'.intentional = tunnel.intentional
          /\ tunnel'.key = FALSE
      BY <1>0, <2>2 DEF TunnelTyped, Tunnel, ClientTunnels
    <3> HIDE DEF down
    <3>t. TunnelTyped'
      BY <1>0, <2>0, <2>1, <3>1, <3>2, <3>4 DEF TunnelTyped
    <3>c. ChildOrSupervisor' /\ StopsInOrder'
      BY <1>0, <2>0, <2>1, <3>1, <3>2, <3>4 DEF ChildOrSupervisor, StopsInOrder, Managed, StartPlaces, StopPlaces
    <3>h. Holding'
      BY <1>0, <2>0, <2>1, <3>1, <3>2, <3>4 DEF Holding, AnyClient
    <3> QED  BY <2>0, <2>1, <3>1, <3>2, <3>4, <3>t, <3>c, <3>h DEF TunnelInv
  <2>3. CASE JobEnds /\ clients' \in {clients, [clients EXCEPT !.alias = down]} /\ UNCHANGED <<intent, tunnel, held>>
    <3>1. JobsInTurn' /\ Place' \in {"none", "queued"} /\ (NoStartWanted => NoStartWanted')
      BY <1>0, <2>0, <2>3, JobsEnd
    <3> HIDE DEF down
    <3>2. /\ clients' \in ClientTunnels /\ clients'.child = clients.child
          /\ clients'.others = clients.others /\ clients'.forgotten = clients.forgotten
          /\ clients'.alias \in {clients.alias, down}
      BY <2>3, <2>c
    <3>t. TunnelTyped'
      BY <1>0, <2>0, <2>1, <2>3, <3>1, <3>2 DEF TunnelTyped
    <3>c. ChildOrSupervisor' /\ StopsInOrder'
      BY <1>0, <2>0, <2>1, <2>3, <3>1, <3>2 DEF ChildOrSupervisor, StopsInOrder, Managed, StartPlaces, StopPlaces
    <3>h. Holding'
      BY <1>0, <2>0, <2>1, <2>3, <3>1, <3>2 DEF Holding, AnyClient
    <3> QED  BY <2>0, <2>1, <2>3, <3>1, <3>2, <3>t, <3>c, <3>h DEF TunnelInv
  <2> QED  BY <1>15, <2>2, <2>3 DEF Persist
<1>16. CASE SaveConfiguration
  <2>0. UNCHANGED <<intent, jobs, restart, clients, launch, held>>
    BY <1>16 DEF SaveConfiguration
  <2>q. JobsInTurn' /\ Place' = Place /\ (NoStartWanted => NoStartWanted')
    BY <1>0, <2>0 DEF JobsInTurn, Place, NoStartWanted
  <2>1. /\ tunnel' \in Tunnel /\ tunnel'.native = tunnel.native /\ tunnel'.auto = tunnel.auto
        /\ tunnel'.intentional = tunnel.intentional /\ tunnel'.key = FALSE
        /\ tunnel'.mode = (IF tunnel.mode = "native" THEN "none" ELSE tunnel.mode)
    BY <1>0, <1>16 DEF SaveConfiguration, TunnelTyped, Tunnel
  <2>2. CASE Disposed
    <3>1. /\ watch' \in Watch /\ watch'.on = FALSE /\ watch'.reconcile = "none" /\ watch'.timer = FALSE
          /\ stray' \in Reconciles /\ (stray' # "none" => tunnel.native = TRUE)
          /\ watch.reconcile = "none" => stray' = stray
      BY <2>2, DisposedLeaves
    <3>t. TunnelTyped'
      BY <1>0, <2>0, <2>q, <2>1, <3>1 DEF TunnelTyped
    <3>c. ChildOrSupervisor' /\ StopsInOrder'
      BY <1>0, <2>0, <2>q, <2>1, <3>1 DEF ChildOrSupervisor, StopsInOrder, Managed, StartPlaces, StopPlaces
    <3>h. Holding'
      BY <1>0, <2>0, <2>q, <2>1, <3>1 DEF Holding, AnyClient, ChildOrSupervisor
    <3> QED  BY <2>0, <2>q, <2>1, <3>1, <3>t, <3>c, <3>h DEF TunnelInv
  <2>3. CASE tunnel.mode # "native" /\ UNCHANGED <<watch, stray>>
    <3>t. TunnelTyped'
      BY <1>0, <2>0, <2>q, <2>1, <2>3 DEF TunnelTyped
    <3>c. ChildOrSupervisor' /\ StopsInOrder'
      BY <1>0, <2>0, <2>q, <2>1, <2>3 DEF ChildOrSupervisor, StopsInOrder, Managed, StartPlaces, StopPlaces
    <3>h. Holding'
      BY <1>0, <2>0, <2>q, <2>1, <2>3 DEF Holding, AnyClient
    <3> QED  BY <2>0, <2>q, <2>1, <2>3, <3>t, <3>c, <3>h DEF TunnelInv
  <2> QED  BY <1>16, <2>2, <2>3 DEF SaveConfiguration
<1>17. CASE ChildExit
  <2>0. UNCHANGED <<intent, tunnel, jobs, watch, stray, launch, held>> /\ ~Managed
    BY <1>0, <1>17 DEF ChildExit, ChildOrSupervisor
  <2>q. JobsInTurn' /\ Place' = Place /\ (NoStartWanted => NoStartWanted')
    BY <1>0, <2>0 DEF JobsInTurn, Place, NoStartWanted
  <2>1. /\ clients' \in ClientTunnels /\ clients'.child = FALSE
        /\ clients'.others = clients.others /\ clients'.forgotten = clients.forgotten
        /\ clients'.alias = clients.alias
    BY <1>0, <1>17 DEF ChildExit, TunnelTyped, ClientTunnels
  <2>2. restart' \in RestartState
    BY <1>0, <1>17 DEF ChildExit, TunnelTyped, RestartState
  <2>t. TunnelTyped'
    BY <1>0, <2>0, <2>q, <2>1, <2>2 DEF TunnelTyped
  <2>c. ChildOrSupervisor' /\ StopsInOrder'
    BY <1>0, <2>0, <2>q, <2>1, <2>2 DEF ChildOrSupervisor, StopsInOrder, Managed, StartPlaces, StopPlaces
  <2>h. Holding'
    BY <1>0, <2>0, <2>q, <2>1, <2>2 DEF Holding, AnyClient
  <2> QED  BY <2>0, <2>q, <2>1, <2>2, <2>t, <2>c, <2>h DEF TunnelInv
<1>18. CASE ExitRead
  <2>0. UNCHANGED <<tunnel, jobs, watch, stray, clients, launch, held>> /\ ~Managed
    BY <1>0, <1>18 DEF ExitRead, ChildOrSupervisor
  <2>q. JobsInTurn' /\ Place' = Place /\ (NoStartWanted => NoStartWanted')
    BY <1>0, <2>0 DEF JobsInTurn, Place, NoStartWanted
  <2>1. intent' \in Intent
    BY <1>0, <1>18 DEF ExitRead, TunnelTyped, Intent
  <2>2. restart' \in RestartState
    <3>1. CASE tunnel.auto /\ intent.desired = "running"
      <4>1. restart' = [restart EXCEPT !.exits = 0, !.timer = restart.timer \/ ~tunnel.intentional]
        BY <1>18, <3>1 DEF ExitRead
      <4> DEFINE r == [restart EXCEPT !.exits = 0]
      <4>r. r \in RestartState
        BY <1>0 DEF TunnelTyped, RestartState
      <4> HIDE DEF r
      <4>2. CASE restart.timer = TRUE \/ tunnel.intentional = FALSE
        <5>1. (restart.timer \/ ~tunnel.intentional) = TRUE
          BY <4>2
        <5>2. restart' = [r EXCEPT !.timer = TRUE]
          BY <4>1, <5>1, Zenon DEF r
        <5> QED  BY <4>r, <5>2 DEF RestartState
      <4>3. CASE restart.timer = FALSE /\ tunnel.intentional = TRUE
        <5>1. (restart.timer \/ ~tunnel.intentional) = FALSE
          BY <4>3
        <5>2. restart' = [r EXCEPT !.timer = FALSE]
          BY <4>1, <5>1, Zenon DEF r
        <5> QED  BY <4>r, <5>2 DEF RestartState
      <4> QED  BY <1>0, <4>2, <4>3
    <3>2. CASE ~(tunnel.auto /\ intent.desired = "running")
      <4>1. restart' = [restart EXCEPT !.exits = 0]
        BY <1>18, <3>2 DEF ExitRead
      <4> QED  BY <1>0, <4>1 DEF TunnelTyped, RestartState
    <3> QED  BY <3>1, <3>2
  <2>t. TunnelTyped'
    BY <1>0, <2>0, <2>q, <2>1, <2>2 DEF TunnelTyped
  <2>c. ChildOrSupervisor' /\ StopsInOrder'
    BY <1>0, <2>0, <2>q, <2>1, <2>2 DEF ChildOrSupervisor, StopsInOrder, Managed, StartPlaces, StopPlaces
  <2>h. Holding'
    BY <1>0, <2>0, <2>q, <2>1, <2>2 DEF Holding, AnyClient
  <2> QED  BY <2>0, <2>q, <2>1, <2>2, <2>t, <2>c, <2>h DEF TunnelInv
<1>19. CASE RestartTimer
  <2>0. UNCHANGED <<intent, tunnel, jobs, watch, stray, clients, launch, held>> /\ ~Managed
    BY <1>0, <1>19 DEF RestartTimer, ChildOrSupervisor
  <2>q. JobsInTurn' /\ Place' = Place /\ (NoStartWanted => NoStartWanted')
    BY <1>0, <2>0 DEF JobsInTurn, Place, NoStartWanted
  <2>2. restart' \in RestartState
    <3> DEFINE n == IF MayRestart THEN 1 ELSE restart.repairs
    <3>1. n \in 0 .. 1
      BY <1>0
    <3>2. restart' = [restart EXCEPT !.timer = FALSE, !.repairs = n]
      BY <1>19 DEF RestartTimer
    <3> HIDE DEF n
    <3> QED  BY <1>0, <3>1, <3>2 DEF TunnelTyped, RestartState
  <2>t. TunnelTyped'
    BY <1>0, <2>0, <2>q, <2>2 DEF TunnelTyped
  <2>c. ChildOrSupervisor' /\ StopsInOrder'
    BY <1>0, <2>0, <2>q, <2>2 DEF ChildOrSupervisor, StopsInOrder, Managed, StartPlaces, StopPlaces
  <2>h. Holding'
    BY <1>0, <2>0, <2>q, <2>2 DEF Holding, AnyClient
  <2> QED  BY <2>0, <2>q, <2>2, <2>t, <2>c, <2>h DEF TunnelInv
<1>20. CASE Repaired
  <2>0. UNCHANGED <<tunnel, jobs, watch, stray, launch, held>> /\ ~Managed
    BY <1>0, <1>20 DEF Repaired, ChildOrSupervisor
  <2>q. JobsInTurn' /\ Place' = Place /\ (NoStartWanted => NoStartWanted')
    BY <1>0, <2>0 DEF JobsInTurn, Place, NoStartWanted
  <2>2. restart' \in RestartState
    BY <1>0, <1>20 DEF Repaired, TunnelTyped, RestartState
  <2>3. CASE UNCHANGED <<intent, clients>>
    <3>t. TunnelTyped'
      BY <1>0, <2>0, <2>q, <2>2, <2>3 DEF TunnelTyped
    <3>c. ChildOrSupervisor' /\ StopsInOrder'
      BY <1>0, <2>0, <2>q, <2>2, <2>3 DEF ChildOrSupervisor, StopsInOrder, Managed, StartPlaces, StopPlaces
    <3>h. Holding'
      BY <1>0, <2>0, <2>q, <2>2, <2>3 DEF Holding, AnyClient
    <3> QED  BY <2>0, <2>q, <2>2, <2>3, <3>t, <3>c, <3>h DEF TunnelInv
  <2>4. CASE Spawned /\ tunnel.intentional = FALSE /\ tunnel.key = TRUE
    <3>1. /\ clients' \in ClientTunnels /\ clients'.alias = clients.alias
          /\ intent' \in Intent
      BY <2>4, SpawnedTyped
    <3>t. TunnelTyped'
      BY <1>0, <2>0, <2>q, <2>2, <2>4, <3>1 DEF TunnelTyped
    <3>c. ChildOrSupervisor' /\ StopsInOrder'
      BY <1>0, <2>0, <2>q, <2>2, <2>4, <3>1 DEF ChildOrSupervisor, StopsInOrder, Managed, StartPlaces, StopPlaces
    <3>h. Holding'
      BY <1>0, <2>0, <2>q, <2>2, <2>4, <3>1 DEF Holding, AnyClient
    <3> QED  BY <2>0, <2>q, <2>2, <2>4, <3>1, <3>t, <3>c, <3>h DEF TunnelInv
  <2> QED  BY <1>0, <1>20, <2>3, <2>4 DEF Repaired, MayRestart
<1>21. CASE Exit
  <2>0. UNCHANGED <<intent, clients>> /\ launch = "done" /\ jobs' = StartsAborted
    BY <1>21 DEF Exit
  <2>q. JobsInTurn' /\ Place' = Place /\ NoStartWanted'
    <3>1. /\ StartsAborted \in Seq(Job) /\ Len(StartsAborted) = Len(jobs)
          /\ \A i \in 1 .. Len(jobs) : /\ StartsAborted[i].at = jobs[i].at
                                       /\ StartsAborted[i].op = jobs[i].op
                                       /\ jobs[i].op = "start" => StartsAborted[i].aborted = TRUE
          /\ StartsAborted = <<>> <=> jobs = <<>>
      BY <1>0, JobsAborted
    <3>2. jobs # <<>> => 1 \in 1 .. Len(jobs)
      BY <1>0, EmptySeq, LenProperties DEF JobsInTurn
    <3> QED  BY <1>0, <2>0, <3>1, <3>2 DEF JobsInTurn, Place, NoStartWanted
  <2>1. /\ tunnel' \in Tunnel /\ tunnel'.native = tunnel.native /\ tunnel'.auto = tunnel.auto
        /\ tunnel'.intentional = TRUE /\ tunnel'.key = tunnel.key
        /\ tunnel'.mode = (IF tunnel.mode = "native" THEN "none" ELSE tunnel.mode)
    BY <1>0, <1>21 DEF Exit, TunnelTyped, Tunnel
  <2>r. /\ restart' \in RestartState /\ restart'.exits = restart.exits
        /\ restart'.repairs = restart.repairs /\ restart'.timer = FALSE
    BY <1>0, <1>21 DEF Exit, TunnelTyped, RestartState
  <2>g. /\ held' \in Held /\ held'.stopped = held.stopped
        /\ held'.overlapped = held.overlapped /\ held'.exited = TRUE
    BY <1>0, <1>21 DEF Exit, TunnelTyped, Held
  <2>2. CASE tunnel.mode = "native" /\ Disposed /\ launch' = "closed"
    <3>1. /\ watch' \in Watch /\ watch'.on = FALSE /\ watch'.reconcile = "none" /\ watch'.timer = FALSE
          /\ stray' \in Reconciles /\ (stray' # "none" => tunnel.native = TRUE)
          /\ watch.reconcile = "none" => stray' = stray
      BY <2>2, DisposedLeaves
    <3>2. clients.child = FALSE
      BY <1>0, <2>2 DEF ChildOrSupervisor
    <3>t. TunnelTyped'
      BY <1>0, <2>0, <2>q, <2>1, <2>r, <2>g, <2>2, <3>1, <3>2 DEF TunnelTyped
    <3>c. ChildOrSupervisor' /\ StopsInOrder'
      BY <1>0, <2>0, <2>q, <2>1, <2>r, <2>g, <2>2, <3>1, <3>2 DEF ChildOrSupervisor, StopsInOrder, Managed, StartPlaces, StopPlaces
    <3>h. Holding'
      BY <1>0, <2>0, <2>q, <2>1, <2>r, <2>g, <2>2, <3>1, <3>2 DEF Holding, AnyClient, ChildOrSupervisor
    <3> QED  BY <2>0, <2>q, <2>1, <2>r, <2>g, <2>2, <3>1, <3>2, <3>t, <3>c, <3>h DEF TunnelInv
  <2>3. CASE tunnel.mode # "native" /\ launch' = "closing" /\ UNCHANGED <<watch, stray>>
    <3>t. TunnelTyped'
      BY <1>0, <2>0, <2>q, <2>1, <2>r, <2>g, <2>3 DEF TunnelTyped
    <3>c. ChildOrSupervisor' /\ StopsInOrder'
      BY <1>0, <2>0, <2>q, <2>1, <2>r, <2>g, <2>3 DEF ChildOrSupervisor, StopsInOrder, Managed, StartPlaces, StopPlaces
    <3>h. Holding'
      BY <1>0, <2>0, <2>q, <2>1, <2>r, <2>g, <2>3 DEF Holding, AnyClient
    <3> QED  BY <2>0, <2>q, <2>1, <2>r, <2>g, <2>3, <3>t, <3>c, <3>h DEF TunnelInv
  <2> QED  BY <1>21, <2>2, <2>3 DEF Exit
<1>22. CASE ExitKill
  <2>0. UNCHANGED <<jobs, watch, stray, restart>> /\ launch = "closing"
    BY <1>22 DEF ExitKill
  <2>q. JobsInTurn' /\ Place' = Place /\ (NoStartWanted => NoStartWanted')
    BY <1>0, <2>0 DEF JobsInTurn, Place, NoStartWanted
  <2>2. CASE /\ clients' = [clients EXCEPT !.child = FALSE]
             /\ tunnel' = [tunnel EXCEPT !.lock = FALSE, !.mode = "none"]
             /\ intent' = [intent EXCEPT !.owner = FALSE]
             /\ launch' = "closed" /\ held' = held
    <3>1. /\ clients' \in ClientTunnels /\ clients'.child = FALSE
          /\ clients'.others = clients.others /\ clients'.forgotten = clients.forgotten
          /\ clients'.alias = clients.alias
      BY <1>0, <2>2 DEF TunnelTyped, ClientTunnels
    <3>3. intent' \in Intent
      BY <1>0, <2>2 DEF TunnelTyped, Intent
    <3>2. /\ tunnel' \in Tunnel /\ tunnel'.native = tunnel.native /\ tunnel'.auto = tunnel.auto
          /\ tunnel'.mode = "none" /\ tunnel'.intentional = tunnel.intentional
          /\ tunnel'.key = tunnel.key
      BY <1>0, <2>2 DEF TunnelTyped, Tunnel, ClientTunnels
    <3>t. TunnelTyped'
      BY <1>0, <2>0, <2>q, <2>2, <3>1, <3>2, <3>3 DEF TunnelTyped
    <3>c. ChildOrSupervisor' /\ StopsInOrder'
      BY <1>0, <2>0, <2>q, <2>2, <3>1, <3>2, <3>3 DEF ChildOrSupervisor, StopsInOrder, Managed, StartPlaces, StopPlaces
    <3>h. Holding'
      BY <1>0, <2>0, <2>q, <2>2, <3>1, <3>2, <3>3 DEF Holding, AnyClient
    <3> QED  BY <2>0, <2>q, <2>2, <3>1, <3>2, <3>3, <3>t, <3>c, <3>h DEF TunnelInv
  <2>3. CASE /\ launch' = "done" /\ held' = [held EXCEPT !.exited = FALSE]
             /\ UNCHANGED <<intent, tunnel, clients>>
    <3>1. /\ held' \in Held /\ held'.stopped = held.stopped
          /\ held'.overlapped = held.overlapped /\ held'.exited = FALSE
      BY <1>0, <2>3 DEF TunnelTyped, Held
    <3>t. TunnelTyped'
      BY <1>0, <2>0, <2>q, <2>3, <3>1 DEF TunnelTyped
    <3>c. ChildOrSupervisor' /\ StopsInOrder'
      BY <1>0, <2>0, <2>q, <2>3, <3>1 DEF ChildOrSupervisor, StopsInOrder, Managed, StartPlaces, StopPlaces
    <3>h. Holding'
      BY <1>0, <2>0, <2>q, <2>3, <3>1 DEF Holding, AnyClient
    <3> QED  BY <2>0, <2>q, <2>3, <3>1, <3>t, <3>c, <3>h DEF TunnelInv
  <2> QED  BY <1>22, <2>2, <2>3 DEF ExitKill
<1>23. CASE Relaunch
  <2>0. /\ jobs' = <<>> /\ watch' = NoWatch /\ launch' = "due" /\ held' = NotHeld /\ intent' = intent
        /\ restart' = [exits |-> 0, timer |-> FALSE, repairs |-> 0]
    BY <1>23 DEF Relaunch
  <2>q. JobsInTurn' /\ Place' = "none"
    BY <2>0, EmptySeq, TunnelAssumption DEF JobsInTurn, Place
  <2>1. /\ tunnel' \in Tunnel /\ tunnel'.native = tunnel.native /\ tunnel'.auto = tunnel.auto
        /\ tunnel'.mode = "none"
    BY <1>0, <1>23 DEF Relaunch, FreshController, Tunnel
  <2>2. watch' \in Watch /\ watch'.on = FALSE /\ watch'.reconcile = "none" /\ watch'.timer = FALSE
    BY <2>0 DEF NoWatch, Watch, Reconciles
  <2>3. /\ restart' \in RestartState /\ restart'.exits = 0 /\ restart'.repairs = 0
        /\ restart'.timer = FALSE
    BY <2>0 DEF RestartState
  <2>4. held' \in Held /\ held'.stopped = FALSE /\ held'.exited = FALSE
    BY <2>0 DEF NotHeld, Held
  <2>5. /\ clients' \in ClientTunnels /\ clients'.child = FALSE /\ clients'.forgotten = FALSE
        /\ clients'.alias = clients.alias
    <3> DEFINE n == IF clients.child \/ clients.forgotten THEN 1 ELSE clients.others
    <3>1. n \in 0 .. 1
      BY <1>0
    <3>2. clients' = [clients EXCEPT !.child = FALSE, !.forgotten = FALSE, !.others = n]
      BY <1>23 DEF Relaunch
    <3> HIDE DEF n
    <3> QED  BY <1>0, <3>1, <3>2 DEF TunnelTyped, ClientTunnels
  <2>6. stray' \in Reconciles /\ (stray' # "none" => tunnel.native = TRUE)
    BY <1>0, <1>23 DEF Relaunch, Reconciles, ChildOrSupervisor, Managed
  <2>t. TunnelTyped'
    BY <1>0, <2>0, <2>q, <2>1, <2>2, <2>3, <2>4, <2>5, <2>6 DEF TunnelTyped
  <2>c. ChildOrSupervisor' /\ StopsInOrder'
    BY <1>0, <2>0, <2>q, <2>1, <2>2, <2>3, <2>4, <2>5, <2>6 DEF ChildOrSupervisor, StopsInOrder, Managed, StartPlaces, StopPlaces
  <2>h. Holding'
    BY <1>0, <2>0, <2>q, <2>1, <2>2, <2>3, <2>4, <2>5, <2>6 DEF Holding, AnyClient
  <2> QED  BY <2>0, <2>q, <2>1, <2>2, <2>3, <2>4, <2>5, <2>6, <2>t, <2>c, <2>h DEF TunnelInv
<1>24. CASE UNCHANGED tunnelVars
  <2>0. UNCHANGED <<intent, tunnel, jobs, watch, stray, restart, clients, launch, held>>
    BY <1>24 DEF tunnelVars
  <2>q. JobsInTurn' /\ Place' = Place /\ (NoStartWanted => NoStartWanted')
    BY <1>0, <2>0 DEF JobsInTurn, Place, NoStartWanted
  <2>t. TunnelTyped'
    BY <1>0, <2>0, <2>q DEF TunnelTyped
  <2>c. ChildOrSupervisor' /\ StopsInOrder'
    BY <1>0, <2>0, <2>q DEF ChildOrSupervisor, StopsInOrder, Managed, StartPlaces, StopPlaces
  <2>h. Holding'
    BY <1>0, <2>0, <2>q DEF Holding, AnyClient
  <2> QED  BY <2>0, <2>q, <2>t, <2>c, <2>h DEF TunnelInv
<1>25. CASE ForgottenExit
  <2>0. UNCHANGED <<intent, tunnel, jobs, watch, stray, launch, held>> /\ ~Managed
    BY <1>0, <1>25 DEF ForgottenExit, ChildOrSupervisor
  <2>q. JobsInTurn' /\ Place' = Place /\ (NoStartWanted => NoStartWanted')
    BY <1>0, <2>0 DEF JobsInTurn, Place, NoStartWanted
  <2>1. /\ clients' \in ClientTunnels /\ clients'.child = clients.child
        /\ clients'.forgotten = FALSE /\ clients'.others = clients.others
        /\ clients'.alias = clients.alias
    BY <1>0, <1>25 DEF ForgottenExit, TunnelTyped, ClientTunnels
  <2>2. restart' \in RestartState
    BY <1>0, <1>25 DEF ForgottenExit, TunnelTyped, RestartState
  <2>t. TunnelTyped'
    BY <1>0, <2>0, <2>q, <2>1, <2>2 DEF TunnelTyped
  <2>c. ChildOrSupervisor' /\ StopsInOrder'
    BY <1>0, <2>0, <2>q, <2>1, <2>2 DEF ChildOrSupervisor, StopsInOrder, Managed, StartPlaces, StopPlaces
  <2>h. Holding'
    BY <1>0, <2>0, <2>q, <2>1, <2>2 DEF Holding, AnyClient
  <2> QED  BY <2>0, <2>q, <2>1, <2>2, <2>t, <2>c, <2>h DEF TunnelInv
<1> QED  BY <1>1, <1>2, <1>3, <1>4, <1>5, <1>6, <1>7, <1>8, <1>9, <1>10, <1>11, <1>12, <1>13, <1>14,
          <1>15, <1>16, <1>17, <1>18, <1>19, <1>20, <1>21, <1>22, <1>23, <1>24, <1>25 DEF TunnelControlNext

\* The invariant of the tunnel holds when the desktop is started first.
LEMMA TunnelInvInit == TunnelControlInit => TunnelInv
<1> SUFFICES ASSUME TunnelControlInit PROVE TunnelInv
  OBVIOUS
<1>1. TunnelTyped
  BY DEF TunnelControlInit, TunnelTyped, Intent, Tunnel, FreshController, Watch, NoWatch, Reconciles,
         RestartState, ClientTunnels, Held, NotHeld
<1>2. JobsInTurn /\ Place = "none"
  BY EmptySeq, TunnelAssumption DEF TunnelControlInit, JobsInTurn, Place
<1>3. tunnel.mode = "none" /\ watch.on = FALSE /\ watch.reconcile = "none" /\ watch.timer = FALSE
  BY DEF TunnelControlInit, FreshController, NoWatch
<1>4. ChildOrSupervisor /\ StopsInOrder
  BY <1>2, <1>3 DEF TunnelControlInit, ChildOrSupervisor, StopsInOrder
<1>5. Holding
  BY DEF TunnelControlInit, NotHeld, Holding
<1> QED  BY <1>1, <1>2, <1>4, <1>5 DEF TunnelInv

\* The invariant says of every variable what the type invariant says of it.
LEMMA TunnelInvTyped == TunnelInv => TunnelControlTypeOK
<1> SUFFICES ASSUME TunnelInv PROVE TunnelControlTypeOK
  OBVIOUS
<1>1. TunnelTyped /\ JobsInTurn
  BY TunnelParts
<1>2. Len(jobs) \in 0 .. MaxJobs /\ \A i \in 1 .. Len(jobs) : jobs[i] \in Job
  BY <1>1, ElementOfSeq DEF JobsInTurn
<1> QED  BY <1>1, <1>2 DEF TunnelControlTypeOK, TunnelTyped, Intent, Tunnel, Watch, RestartState,
                           ClientTunnels, Held

\* The types of the tunnel of one desktop and the invariant its safety rests
\* on: a child and a supervisor exclude each other, a stop keeps restarts away
\* until the child has ended, and what is held has nothing left that could
\* start a client (TunnelController: tunnel-controller.ts:381-563, 801-818).
THEOREM TunnelInvariant == TunnelControlSpec => [](TunnelInv /\ TunnelControlTypeOK)
<1>1. TunnelControlSpec => []TunnelInv
  BY TunnelInvInit, TunnelInvStep, PTL DEF TunnelControlSpec
<1> QED  BY <1>1, TunnelInvTyped, PTL

\* A stop that succeeded holds until somebody asks for a start, whatever
\* timers, repairs, supervisors and queued jobs are still about; and a desktop
\* that has exited left no child it still knows behind.  A child that a second
\* spawn overwrote is excepted from both, as in StopHolds (spawnRun, stopOnce, shutdownForDesktopExit,
\* scheduleRestart: tunnel-controller.ts:512-563, 801-818).
THEOREM StopsHold == TunnelControlSpec => []StopHolds
<1>1. TunnelInv => StopHolds
  <2> SUFFICES ASSUME TunnelInv PROVE StopHolds
    OBVIOUS
  <2>1. Holding /\ held.stopped \in BOOLEAN /\ held.overlapped \in BOOLEAN /\ held.exited \in BOOLEAN
        /\ clients.child \in BOOLEAN
    BY TunnelParts
  <2>2. held.stopped /\ ~held.overlapped => ~AnyClient
    BY <2>1 DEF Holding
  <2>3. held.exited /\ launch = "closed" => ~clients.child
    BY <2>1 DEF Holding
  <2> QED  BY <2>2, <2>3 DEF StopHolds
<1> QED  BY <1>1, TunnelInvariant, PTL

-----------------------------------------------------------------------------
(* Remote access                                                          *)

Stopping(k) == remoteOps[k].at \in {"kill", "unbind"}
StartUnderWay(k) == Active(k) /\ remoteOps[k].kind = "start"

\* What kind of request may stand where.
PlacesFit ==
  \A k \in RemoteOps :
    /\ remoteOps[k].at \in {"ensure", "gateway", "race"} => remoteOps[k].kind = "start"
    /\ remoteOps[k].at \in {"race", "kill"} => remoteOps[k].child # 0
    /\ remoteOps[k].at = "installing" => remoteOps[k].kind \in {"start", "install"}
    /\ remoteOps[k].at = "read" => remoteOps[k].kind \notin {"close", "install", "authorize"}
    /\ remoteOps[k].at = "save" => remoteOps[k].kind \in {"start", "stop", "reset", "authorize"}
    /\ Stopping(k) => IF remoteOps[k].next \in {"retry", "error"} THEN remoteOps[k].kind = "start"
                      ELSE remoteOps[k].kind = remoteOps[k].next

\* One start at a time, and one request that reads the file.
OneStart ==
  \A j, k \in RemoteOps :
    \/ StartUnderWay(j) /\ StartUnderWay(k)
    \/ remoteOps[j].at = "read" /\ remoteOps[k].at = "read"
    => j = k

\* A tunnel is started by an installation only.
InstalledFirst ==
  \/ remote.installed = TRUE
  \/ /\ remote.state # "running" /\ remote.child = 0
     /\ \A k \in RemoteOps :
          /\ remoteOps[k].at \notin {"gateway", "race"}
          /\ remoteOps[k].at = "save" => remoteOps[k].kind # "start"
          /\ Stopping(k) => remoteOps[k].next # "retry"

\* The tunnel that is there is the one that runs, or that a start waits for.
TunnelOwned ==
  remoteSeen.misled = FALSE /\ remote.child # 0 =>
    /\ \A k \in RemoteOps : StartUnderWay(k) =>
         \/ remoteOps[k].at \in {"read", "begin", "save"}
         \/ remoteOps[k].at = "race" /\ remoteOps[k].child = remote.child
    /\ \/ remote.state = "running"
       \/ \E k \in RemoteOps : remoteOps[k].at = "race" /\ remoteOps[k].child = remote.child

\* Before the file is read nothing is known that it does not hold.
UnreadIsEmpty ==
  remote.loaded = FALSE =>
    /\ remote.gateway = FALSE /\ remote.trusted = {}
    /\ \A k \in RemoteOps : Active(k) => remoteOps[k].kind \in {"close", "install"}
ReadingIsEmpty ==
  \A k \in RemoteOps : remoteOps[k].at = "read" =>
    \/ remoteSeen.behind = TRUE
    \/ remote.trusted = {} /\ \A j \in RemoteOps : remoteOps[j].at # "save"

\* What a save of what is known may write.
Memory == {s \in RemoteState : s.desired = remote.desired /\ s.trusted \in Kept(remote.trusted)}
StopPending(k) == Stopping(k) /\ remoteOps[k].next = "stop"

SavedOrSaving ==
  remote.loaded = TRUE /\ remoteSeen.behind = FALSE =>
    \/ \E k \in RemoteOps : remoteOps[k].at = "read" \/ StopPending(k)
    \/ /\ \A k \in RemoteOps : remoteOps[k].at = "save" => remoteOps[k].copy \in Memory
       /\ \/ \E k \in RemoteOps : remoteOps[k].at = "save"
          \/ remembered \in Memory

\* No more is saved than the limit.
WithinLimit ==
  /\ Cardinality(remembered.trusted) <= SavedClients
  /\ \A k \in RemoteOps : remoteOps[k].at = "save" => Cardinality(remoteOps[k].copy.trusted) <= SavedClients

\* The tunnels that run are known.
TunnelsKnown ==
  \A t \in Tunnels : tunnels[t] = "up" =>
    \/ t = remote.child \/ t \in Killing \/ t \in remoteSeen.refused
    \/ remoteSeen.misled = TRUE

\* After a close nothing is there, and nothing under way, that has or starts a tunnel.
ClosedIsQuiet ==
  remoteSeen.closed = TRUE =>
    remote.child = 0 /\ \A k \in RemoteOps : Active(k) => remoteOps[k].kind \notin {"start", "auto"}

\* The types of the controller, of a request and of the history.
Controller == [state : {"stopped", "installing", "starting", "running", "error"}, desired : BOOLEAN,
               trusted : SUBSET RemoteClients, gateway : BOOLEAN, origin : BOOLEAN,
               child : {0} \cup Tunnels, loaded : BOOLEAN, installed : BOOLEAN]
RemoteOp == [kind : RemoteKinds, at : RemotePlaces, attempt : 1 .. 2, child : {0} \cup Tunnels,
             next : NextStages, copy : RemoteState]
RemoteSeen == [refused : SUBSET Tunnels, misled : BOOLEAN, behind : BOOLEAN, closed : BOOLEAN]

RemoteTyped ==
  /\ remote \in Controller /\ tunnels \in [Tunnels -> {"up", "left", "gone"}]
  /\ remoteOps \in [RemoteOps -> RemoteOp]
  /\ remembered \in RemoteState /\ remoteSeen \in RemoteSeen

RemoteInv ==
  /\ RemoteTyped
  /\ PlacesFit /\ OneStart /\ InstalledFirst /\ TunnelOwned
  /\ UnreadIsEmpty /\ ReadingIsEmpty /\ SavedOrSaving /\ WithinLimit
  /\ TunnelsKnown /\ ClosedIsQuiet

\* The invariant of the remote controller holds at first.
LEMMA RemoteInvInit == RemoteMcpInit => RemoteInv
<1> SUFFICES ASSUME RemoteMcpInit PROVE RemoteInv
  OBVIOUS
<1>1. IdleRemoteOp \in RemoteOp /\ IdleRemoteOp.at = "idle"
  BY DEF IdleRemoteOp, RemoteOp, RemoteKinds, RemotePlaces, NextStages, NothingSaved, RemoteState
<1>2. remote \in Controller /\ remote.child = 0 /\ remote.state = "stopped"
      /\ remote.loaded = FALSE /\ remote.gateway = FALSE /\ remote.trusted = {}
  <2>1. PICK installed \in BOOLEAN : remote = FreshRemote(installed)
    BY DEF RemoteMcpInit
  <2> QED  BY <2>1 DEF FreshRemote, Controller
<1>3. remoteSeen \in RemoteSeen /\ remoteSeen.closed = FALSE
      /\ Cardinality(remembered.trusted) <= SavedClients
  BY DEF RemoteMcpInit, RemoteSeen
<1>4. RemoteTyped /\ \A k \in RemoteOps : remoteOps[k].at = "idle"
  BY <1>1, <1>2, <1>3 DEF RemoteMcpInit, RemoteTyped
<1> HIDE DEF RemoteMcpInit
<1>5. \A t \in Tunnels : tunnels[t] # "up"
  BY DEF RemoteMcpInit
<1> QED  BY <1>2, <1>3, <1>4, <1>5 DEF RemoteInv, PlacesFit, OneStart, InstalledFirst, TunnelOwned, UnreadIsEmpty, ReadingIsEmpty, SavedOrSaving, WithinLimit, TunnelsKnown,
         ClosedIsQuiet, StartUnderWay, Active, Stopping

\* What a request is that changes its place.
LEMMA OpMoves ==
  ASSUME RemoteTyped, NEW k \in RemoteOps, NEW v \in RemoteOp,
         remoteOps' = [remoteOps EXCEPT ![k] = v]
  PROVE  /\ remoteOps' \in [RemoteOps -> RemoteOp]
         /\ remoteOps'[k] = v
         /\ \A j \in RemoteOps \ {k} : remoteOps'[j] = remoteOps[j]
BY DEF RemoteTyped

\* Whoever gives up the tunnel terminates it.
LEMMA GiveUpKeeps ==
  ASSUME RemoteInv, NEW k \in RemoteOps, Active(k), remoteOps[k].at # "read",
         NEW state \in {"stopped", remote.state}, NEW desired \in BOOLEAN,
         NEW next \in NextStages,
         GiveUpTunnel(k, [remote EXCEPT !.state = state, !.desired = desired], next),
         tunnels' = tunnels, remembered' = remembered, remoteSeen' \in RemoteSeen,
         IF next \in {"retry", "error"} THEN remoteOps[k].kind = "start"
         ELSE remoteOps[k].kind = next,
         next = "retry" => remote.installed = TRUE,
         remoteSeen'.misled = remoteSeen.misled, remoteSeen.refused \subseteq remoteSeen'.refused,
         remoteOps[k].at = "kill" => remoteOps[k].child \in remoteSeen'.refused,
         remoteSeen.behind = TRUE \/ StopPending(k) \/ remoteOps[k].at = "save" => remoteSeen'.behind = TRUE,
         desired # remote.desired => next = "stop",
         remoteSeen'.closed = TRUE => remoteSeen.closed = TRUE \/ MayStart = {}
  PROVE  RemoteInv'
<1> DEFINE alive == remote.child # 0 /\ tunnels[remote.child] = "up"
           v == [remoteOps[k] EXCEPT !.at = IF alive THEN "kill" ELSE "unbind", !.next = next,
                                     !.child = IF alive THEN remote.child ELSE 0, !.copy = NothingSaved]
<1>1. RemoteTyped /\ remoteOps[k] \in RemoteOp /\ remote \in Controller
  BY DEF RemoteInv, RemoteTyped
<1>2. remoteOps' = [remoteOps EXCEPT ![k] = v]
  BY <1>1 DEF GiveUpTunnel, Controller
<1>3. /\ remote' \in Controller /\ remote'.child = 0 /\ remote'.state = state
      /\ remote'.desired = desired /\ remote'.trusted = remote.trusted
      /\ remote'.loaded = remote.loaded /\ remote'.installed = remote.installed
      /\ remote.gateway = FALSE => remote'.gateway = FALSE
  BY <1>1 DEF GiveUpTunnel, Controller
<1>4. /\ v \in RemoteOp /\ v.kind = remoteOps[k].kind /\ v.next = next
      /\ v.at = IF alive THEN "kill" ELSE "unbind"
      /\ v.child = IF alive THEN remote.child ELSE 0
  BY <1>1 DEF RemoteOp, Controller, RemotePlaces, NothingSaved, RemoteState
<1> HIDE DEF v
<1>5. /\ remoteOps' \in [RemoteOps -> RemoteOp] /\ remoteOps'[k] = v
      /\ \A j \in RemoteOps \ {k} : remoteOps'[j] = remoteOps[j]
  BY <1>1, <1>2, <1>4, OpMoves
<1>6. RemoteTyped'
  BY <1>1, <1>3, <1>5 DEF RemoteTyped
<1>7. PlacesFit'
  BY <1>4, <1>5 DEF RemoteInv, PlacesFit, Stopping
<1>8. OneStart'
  BY <1>4, <1>5 DEF RemoteInv, OneStart, StartUnderWay, Active
<1>9. InstalledFirst'
  BY <1>3, <1>4, <1>5 DEF RemoteInv, InstalledFirst, Stopping
<1>10. TunnelOwned'
  BY <1>3 DEF TunnelOwned
<1>11. UnreadIsEmpty'
  BY <1>3, <1>4, <1>5 DEF RemoteInv, UnreadIsEmpty, Active
<1>12. ReadingIsEmpty'
  BY <1>3, <1>4, <1>5 DEF RemoteInv, ReadingIsEmpty
<1>13. SavedOrSaving'
  <2>1. CASE next = "stop"
    BY <2>1, <1>4, <1>5 DEF SavedOrSaving, StopPending, Stopping
  <2>2. CASE next # "stop"
    <3>1. Memory' = Memory
      BY <2>2, <1>3 DEF Memory
    <3>2. SUFFICES ASSUME remote'.loaded = TRUE, remoteSeen'.behind = FALSE
                   PROVE  SavedOrSaving'
      BY DEF SavedOrSaving
    <3>3. remoteSeen.behind = FALSE /\ ~StopPending(k) /\ remoteOps[k].at # "save"
      BY <1>1, <3>2 DEF RemoteTyped, RemoteSeen
    <3> QED  BY <1>3, <1>4, <1>5, <3>1, <3>2, <3>3 DEF RemoteInv, SavedOrSaving, StopPending, Stopping
  <2> QED  BY <2>1, <2>2
<1>14. TunnelsKnown'
  <2> SUFFICES ASSUME NEW t \in Tunnels, tunnels[t] = "up", remoteSeen.misled = FALSE,
                      t \notin remoteSeen'.refused
               PROVE  t \in Killing'
    BY <1>1 DEF TunnelsKnown, RemoteTyped, RemoteSeen
  <2>1. t = remote.child \/ t \in Killing
    BY DEF RemoteInv, TunnelsKnown
  <2>2. CASE t = remote.child
    <3>1. t # 0
      BY DEF Tunnels
    <3>2. remoteOps'[k].at = "kill" /\ remoteOps'[k].child = t
      BY <1>4, <1>5, <2>2, <3>1
    <3> QED  BY <3>2 DEF Killing
  <2>3. CASE t \in Killing
    <3>1. PICK j \in RemoteOps : remoteOps[j].at = "kill" /\ remoteOps[j].child = t
      BY <2>3 DEF Killing
    <3>2. j # k
      BY <3>1
    <3>3. remoteOps'[j].at = "kill" /\ remoteOps'[j].child = t
      BY <1>5, <3>1, <3>2
    <3> QED  BY <3>3 DEF Killing
  <2> QED  BY <2>1, <2>2, <2>3
<1>15. WithinLimit'
  BY <1>4, <1>5 DEF RemoteInv, WithinLimit
<1>16. ClosedIsQuiet'
  BY <1>3, <1>4, <1>5 DEF RemoteInv, ClosedIsQuiet, MayStart, ActiveRemote, Active
<1> QED  BY <1>6, <1>7, <1>8, <1>9, <1>10, <1>11, <1>12, <1>13, <1>14, <1>15, <1>16 DEF RemoteInv

\* A save that begins takes a copy of what is known, and says whether another
\* may overtake it.
LEMMA SaveBeginKeeps ==
  ASSUME RemoteInv, NEW k \in RemoteOps, remoteOps[k].at \in {"begin", "race", "unbind"},
         remoteOps[k].kind \in {"start", "stop", "reset", "authorize"},
         remote' \in Controller, NEW memory,
         memory.desired = remote'.desired, memory.trusted = remote'.trusted,
         BeginSave(k, memory), tunnels' = tunnels, remembered' = remembered,
         remote'.child = remote.child, remote'.loaded = remote.loaded,
         remote'.installed = remote.installed, remote'.gateway = remote.gateway,
         \/ remote'.state = remote.state /\ remoteOps[k].kind # "start"
         \/ remote'.state = "running" /\ remoteOps[k].at = "race"
  PROVE  RemoteInv'
<1>0. PICK trusted \in Kept(memory.trusted) :
        remoteOps' = [remoteOps EXCEPT ![k] =
          [@ EXCEPT !.at = "save", !.child = 0, !.next = "stop",
                    !.copy = [desired |-> memory.desired, trusted |-> trusted]]]
  BY DEF BeginSave
<1> DEFINE copy == [desired |-> memory.desired, trusted |-> trusted]
           v == [remoteOps[k] EXCEPT !.at = "save", !.child = 0, !.next = "stop", !.copy = copy]
<1>1. RemoteTyped /\ remoteOps[k] \in RemoteOp /\ remote \in Controller
  BY DEF RemoteInv, RemoteTyped
<1>2. remoteOps' = [remoteOps EXCEPT ![k] = v]
  BY <1>0, <1>1
<1>3. /\ copy \in RemoteState /\ copy.desired = remote'.desired
      /\ copy.trusted \in Kept(remote'.trusted) /\ Cardinality(copy.trusted) <= SavedClients
  <2>1. trusted \in SUBSET remote'.trusted /\ memory.desired \in BOOLEAN
    BY <1>0 DEF Kept, Controller
  <2>2. copy \in RemoteState /\ copy.desired = memory.desired /\ copy.trusted = trusted
    BY <2>1 DEF RemoteState, Controller
  <2>3. Cardinality(trusted) <= SavedClients
    BY <1>0, RemoteMcpAssumption DEF Kept
  <2> QED  BY <1>0, <2>2, <2>3
<1>17. copy \in Memory'
  BY <1>3 DEF Memory
<1> HIDE DEF copy
<1>4. /\ v \in RemoteOp /\ v.kind = remoteOps[k].kind /\ v.at = "save" /\ v.copy = copy
  BY <1>1, <1>3 DEF RemoteOp, RemotePlaces, NextStages
<1> HIDE DEF v
<1>5. /\ remoteOps' \in [RemoteOps -> RemoteOp] /\ remoteOps'[k] = v
      /\ \A j \in RemoteOps \ {k} : remoteOps'[j] = remoteOps[j]
  BY <1>1, <1>2, <1>4, OpMoves
<1>6. /\ remoteSeen' \in RemoteSeen /\ remoteSeen'.misled = remoteSeen.misled
      /\ remoteSeen'.refused = remoteSeen.refused /\ remoteSeen'.closed = remoteSeen.closed
      /\ remoteSeen'.behind = (\E j \in RemoteOps : remoteOps[j].at \in {"save", "read"})
  BY <1>1 DEF BeginSave, Behind, RemoteTyped, RemoteSeen
<1>7. RemoteTyped'
  BY <1>1, <1>5, <1>6 DEF RemoteTyped
<1>8. PlacesFit'
  BY <1>4, <1>5 DEF RemoteInv, PlacesFit, Stopping
<1>9. OneStart'
  BY <1>4, <1>5 DEF RemoteInv, OneStart, StartUnderWay, Active
<1>10. InstalledFirst'
  <2>1. CASE remote.installed = TRUE
    BY <2>1 DEF InstalledFirst
  <2>2. CASE remote.installed # TRUE
    <3>1. remoteOps[k].at # "race"
      BY <2>2 DEF RemoteInv, InstalledFirst
    <3> QED  BY <1>4, <1>5, <2>2, <3>1 DEF RemoteInv, InstalledFirst, Stopping
  <2> QED  BY <2>1, <2>2
<1>11. TunnelOwned'
  <2>1. CASE remote'.state = "running" /\ remoteOps[k].at = "race"
    <3>1. StartUnderWay(k)
      BY <2>1 DEF RemoteInv, PlacesFit, StartUnderWay, Active
    <3>2. \A j \in RemoteOps : StartUnderWay(j)' => j = k
      BY <1>4, <1>5, <3>1 DEF RemoteInv, OneStart, StartUnderWay, Active
    <3> QED  BY <1>4, <1>5, <2>1, <3>2 DEF TunnelOwned
  <2>2. CASE remote'.state = remote.state /\ remoteOps[k].kind # "start"
    <3>1. remoteOps[k].at # "race"
      BY <2>2 DEF RemoteInv, PlacesFit
    <3> QED  BY <1>4, <1>5, <1>6, <2>2, <3>1 DEF RemoteInv, TunnelOwned, StartUnderWay, Active
  <2> QED  BY <2>1, <2>2
<1>12. remote.loaded = TRUE
  BY <1>1 DEF RemoteInv, UnreadIsEmpty, Active, Controller
<1>13. UnreadIsEmpty'
  BY <1>12 DEF UnreadIsEmpty
<1>14. ReadingIsEmpty'
  BY <1>4, <1>5, <1>6 DEF ReadingIsEmpty
<1>15. SavedOrSaving'
  BY <1>4, <1>5, <1>6, <1>17 DEF SavedOrSaving
<1>18. WithinLimit'
  BY <1>3, <1>4, <1>5 DEF RemoteInv, WithinLimit
<1>19. ClosedIsQuiet'
  BY <1>4, <1>5, <1>6 DEF RemoteInv, ClosedIsQuiet, Active
<1>16. TunnelsKnown'
  <2>1. \A t \in Killing : t \in Killing'
    BY <1>5 DEF Killing
  <2> QED  BY <1>6, <2>1 DEF RemoteInv, TunnelsKnown
<1> QED  BY <1>7, <1>8, <1>9, <1>10, <1>11, <1>13, <1>14, <1>15, <1>16, <1>18, <1>19 DEF RemoteInv

\* A request that is answered leaves no tunnel and no wish behind.
LEMMA AnswerKeeps ==
  ASSUME RemoteInv, NEW k \in RemoteOps, Active(k), remoteOps[k].at \notin {"read", "race"},
         remoteOps' = Answered(k), tunnels' = tunnels, remembered' = remembered,
         remote' \in Controller, remoteSeen' \in RemoteSeen,
         remote'.child = remote.child, remote'.loaded = remote.loaded,
         remote'.gateway = remote.gateway, remote'.trusted = remote.trusted, Memory' = Memory,
         remoteSeen'.closed = remoteSeen.closed,
         remote.installed = TRUE => remote'.installed = TRUE,
         remote'.state # "running" \/ remote'.state = remote.state,
         remoteSeen'.misled = FALSE => /\ remoteSeen.misled = FALSE
                                       /\ remote'.state = remote.state \/ remote.child = 0,
         remoteSeen.refused \subseteq remoteSeen'.refused,
         remoteOps[k].at = "kill" => \/ remoteOps[k].child \in remoteSeen'.refused
                                     \/ tunnels[remoteOps[k].child] # "up",
         remoteSeen.behind = TRUE \/ StopPending(k) \/ remoteOps[k].at = "save"
           => remoteSeen'.behind = TRUE
  PROVE  RemoteInv'
<1> DEFINE v == [IdleRemoteOp EXCEPT !.at = "done"]
<1>1. RemoteTyped /\ remote \in Controller
  BY DEF RemoteInv, RemoteTyped
<1>2. v \in RemoteOp /\ v.at = "done"
  <2>1. IdleRemoteOp \in RemoteOp
    BY DEF IdleRemoteOp, RemoteOp, RemoteKinds, RemotePlaces, NextStages, NothingSaved, RemoteState
  <2> QED  BY <2>1 DEF RemoteOp, RemotePlaces
<1>3. remoteOps' = [remoteOps EXCEPT ![k] = v]
  BY DEF Answered
<1> HIDE DEF v
<1>4. /\ remoteOps' \in [RemoteOps -> RemoteOp] /\ remoteOps'[k] = v
      /\ \A j \in RemoteOps \ {k} : remoteOps'[j] = remoteOps[j]
  BY <1>1, <1>2, <1>3, OpMoves
<1>5. RemoteTyped'
  BY <1>1, <1>4 DEF RemoteTyped
<1>6. PlacesFit'
  BY <1>2, <1>4 DEF RemoteInv, PlacesFit, Stopping
<1>7. OneStart'
  BY <1>2, <1>4 DEF RemoteInv, OneStart, StartUnderWay, Active
<1>8. InstalledFirst'
  BY <1>2, <1>4 DEF RemoteInv, InstalledFirst, Stopping
<1>9. TunnelOwned'
  BY <1>2, <1>4 DEF RemoteInv, TunnelOwned, StartUnderWay, Active
<1>11. UnreadIsEmpty'
  BY <1>2, <1>4 DEF RemoteInv, UnreadIsEmpty, Active
<1>12. ReadingIsEmpty'
  BY <1>2, <1>4 DEF RemoteInv, ReadingIsEmpty
<1>13. SavedOrSaving'
  <2>1. SUFFICES ASSUME remote'.loaded = TRUE, remoteSeen'.behind = FALSE
                 PROVE  SavedOrSaving'
    BY DEF SavedOrSaving
  <2>2. remoteSeen.behind = FALSE /\ ~StopPending(k) /\ remoteOps[k].at # "save"
    BY <1>1, <2>1 DEF RemoteTyped, RemoteSeen
  <2> QED  BY <1>2, <1>4, <2>1, <2>2 DEF RemoteInv, SavedOrSaving, StopPending, Stopping
<1>14. TunnelsKnown'
  <2> SUFFICES ASSUME NEW t \in Tunnels, tunnels[t] = "up", remoteSeen'.misled = FALSE,
                      t \notin remoteSeen'.refused, t # remote.child
               PROVE  t \in Killing'
    BY <1>1 DEF TunnelsKnown, RemoteSeen
  <2>1. t \in Killing
    BY DEF RemoteInv, TunnelsKnown
  <2>2. PICK j \in RemoteOps : remoteOps[j].at = "kill" /\ remoteOps[j].child = t
    BY <2>1 DEF Killing
  <2>3. j # k
    BY <2>2
  <2>4. remoteOps'[j].at = "kill" /\ remoteOps'[j].child = t
    BY <1>4, <2>2, <2>3
  <2> QED  BY <2>4 DEF Killing
<1>15. WithinLimit'
  BY <1>2, <1>4 DEF RemoteInv, WithinLimit
<1>16. ClosedIsQuiet'
  BY <1>2, <1>4 DEF RemoteInv, ClosedIsQuiet, Active
<1> QED  BY <1>5, <1>6, <1>7, <1>8, <1>9, <1>11, <1>12, <1>13, <1>14, <1>15, <1>16 DEF RemoteInv

\* A start, or an installation, that goes on finds no tunnel that it could lose.
LEMMA MoveKeeps ==
  ASSUME RemoteInv, NEW k \in RemoteOps, Active(k), ~StopPending(k),
         remoteOps[k].at \in {"begin", "ensure", "installing", "unbind"},
         NEW v \in RemoteOp, remoteOps' = [remoteOps EXCEPT ![k] = v],
         v.at \in {"ensure", "installing", "gateway"},
         v.kind = "start" \/ (v.kind = "install" /\ v.at = "installing"),
         tunnels' = tunnels, remembered' = remembered,
         remote' \in Controller, remoteSeen' \in RemoteSeen,
         remote'.child = remote.child, remote'.loaded = remote.loaded,
         remote'.gateway = remote.gateway, remote'.trusted = remote.trusted, Memory' = Memory,
         remoteSeen'.closed = remoteSeen.closed,
         v.kind = "start" => remoteOps[k].kind \in {"start", "auto"},
         remote.installed = TRUE \/ v.at = "gateway" => remote'.installed = TRUE,
         remote'.state # "running" \/ remote'.state = remote.state,
         v.kind = "start" => /\ remote.loaded = TRUE
                             /\ \A j \in RemoteOps : StartUnderWay(j) => j = k,
         remoteSeen'.misled = FALSE => remoteSeen.misled = FALSE /\ remote.child = 0,
         remoteSeen.refused \subseteq remoteSeen'.refused,
         remoteSeen.behind = remoteSeen'.behind
  PROVE  RemoteInv'
<1>1. RemoteTyped /\ remote \in Controller
  BY DEF RemoteInv, RemoteTyped
<1>4. /\ remoteOps' \in [RemoteOps -> RemoteOp] /\ remoteOps'[k] = v
      /\ \A j \in RemoteOps \ {k} : remoteOps'[j] = remoteOps[j]
  BY <1>1, OpMoves
<1>5. RemoteTyped'
  BY <1>1, <1>4 DEF RemoteTyped
<1>6. PlacesFit'
  BY <1>4 DEF RemoteInv, PlacesFit, Stopping
<1>7. OneStart'
  BY <1>4 DEF RemoteInv, OneStart, StartUnderWay, Active
<1>8. InstalledFirst'
  BY <1>4 DEF RemoteInv, InstalledFirst, Stopping
<1>9. TunnelOwned'
  BY DEF TunnelOwned
<1>11. UnreadIsEmpty'
  BY <1>4 DEF RemoteInv, UnreadIsEmpty, Active
<1>12. ReadingIsEmpty'
  BY <1>4 DEF RemoteInv, ReadingIsEmpty
<1>13. SavedOrSaving'
  BY <1>4 DEF RemoteInv, SavedOrSaving, StopPending, Stopping
<1>14. TunnelsKnown'
  <2>1. \A t \in Killing : t \in Killing'
    BY <1>4 DEF Killing
  <2> QED  BY <1>1, <2>1 DEF RemoteInv, TunnelsKnown, RemoteTyped, RemoteSeen
<1>15. WithinLimit'
  BY <1>4 DEF RemoteInv, WithinLimit
<1>16. ClosedIsQuiet'
  BY <1>4 DEF RemoteInv, ClosedIsQuiet, Active
<1> QED  BY <1>5, <1>6, <1>7, <1>8, <1>9, <1>11, <1>12, <1>13, <1>14, <1>15, <1>16 DEF RemoteInv

\* The starts under way, as the code counts them.
LEMMA StartingIs ==
  /\ \A j \in RemoteOps : j \in Starting <=> StartUnderWay(j)
  /\ Starting = {} => \A j \in RemoteOps : ~StartUnderWay(j)
BY DEF Starting, ActiveRemote, StartUnderWay

\* A request that is asked for, or joins a start, disturbs nothing.
LEMMA AskKeeps ==
  ASSUME RemoteInv, NEW k \in RemoteOps, AskRemote(k)
  PROVE  RemoteInv'
<1>1. RemoteTyped /\ remoteOps[k] \in RemoteOp /\ remote \in Controller
  BY DEF RemoteInv, RemoteTyped
<1>2. PICK kind \in RemoteKinds :
        /\ kind = "authorize" => remote.gateway
        /\ remoteOps' = IF kind = "start" /\ Starting # {} THEN Answered(k)
                        ELSE [remoteOps EXCEPT ![k] = [@ EXCEPT !.kind = kind, !.at =
                          IF kind \in {"close", "install", "authorize"} \/ remote.loaded THEN "begin" ELSE "read"]]
        /\ remote' = IF kind \in {"close", "install", "authorize"} THEN remote
                     ELSE [remote EXCEPT !.loaded = TRUE]
        /\ remoteSeen' = [remoteSeen EXCEPT !.closed = remoteSeen.closed /\ kind \notin {"start", "auto"}]
  BY DEF AskRemote
<1>3. /\ remoteOps[k].at = "idle" /\ tunnels' = tunnels
      /\ remembered' = remembered
      /\ remoteSeen' \in RemoteSeen /\ remoteSeen'.misled = remoteSeen.misled
      /\ remoteSeen'.refused = remoteSeen.refused /\ remoteSeen'.behind = remoteSeen.behind
      /\ remoteSeen'.closed = TRUE => remoteSeen.closed = TRUE /\ kind \notin {"start", "auto"}
  BY <1>1, <1>2 DEF AskRemote, RemoteRest, RemoteInv, RemoteTyped, RemoteSeen
<1> DEFINE joins == kind = "start" /\ Starting # {}
           place == IF kind \in {"close", "install", "authorize"} \/ remote.loaded THEN "begin" ELSE "read"
           v == IF joins THEN [IdleRemoteOp EXCEPT !.at = "done"]
                ELSE [remoteOps[k] EXCEPT !.kind = kind, !.at = place]
<1>4. /\ v \in RemoteOp
      /\ IF joins THEN v.at = "done" ELSE v.at = place /\ v.kind = kind
  <2>1. IdleRemoteOp \in RemoteOp
    BY DEF IdleRemoteOp, RemoteOp, RemoteKinds, RemotePlaces, NextStages, NothingSaved, RemoteState
  <2>2. [IdleRemoteOp EXCEPT !.at = "done"] \in RemoteOp /\ [IdleRemoteOp EXCEPT !.at = "done"].at = "done"
    BY <2>1 DEF RemoteOp, RemotePlaces
  <2>3. place \in RemotePlaces
    BY DEF RemotePlaces
  <2> HIDE DEF place
  <2>4. /\ [remoteOps[k] EXCEPT !.kind = kind, !.at = place] \in RemoteOp
        /\ [remoteOps[k] EXCEPT !.kind = kind, !.at = place].at = place
        /\ [remoteOps[k] EXCEPT !.kind = kind, !.at = place].kind = kind
    BY <1>1, <1>2, <2>3 DEF RemoteOp
  <2> QED  BY <2>2, <2>4
<1>5. remoteOps' = [remoteOps EXCEPT ![k] = v]
  BY <1>1, <1>2 DEF Answered
<1> HIDE DEF v
<1>6. /\ remoteOps' \in [RemoteOps -> RemoteOp] /\ remoteOps'[k] = v
      /\ \A j \in RemoteOps \ {k} : remoteOps'[j] = remoteOps[j]
  BY <1>1, <1>4, <1>5, OpMoves
<1>7. /\ remote' \in Controller /\ remote'.child = remote.child /\ remote'.state = remote.state
      /\ remote'.installed = remote.installed /\ remote'.gateway = remote.gateway
      /\ remote'.trusted = remote.trusted /\ remote'.desired = remote.desired
      /\ remote'.loaded = IF kind \in {"close", "install", "authorize"} THEN remote.loaded ELSE TRUE
  BY <1>1, <1>2 DEF Controller
<1>8. v.at \in {"begin", "read", "done"}
  BY <1>4
<1>9. v.at = "read" => /\ remote.loaded = FALSE /\ kind \notin {"close", "install", "authorize"}
                       /\ v.kind = kind /\ remote'.loaded = TRUE
  BY <1>1, <1>4, <1>7 DEF Controller
<1>10. remote.loaded = FALSE =>
         /\ \A j \in RemoteOps : ~StartUnderWay(j) /\ remoteOps[j].at \notin {"read", "save"}
         /\ remote.trusted = {} /\ remote.gateway = FALSE
  BY DEF RemoteInv, UnreadIsEmpty, StartUnderWay, Active, PlacesFit
<1>11. RemoteTyped'
  BY <1>1, <1>3, <1>6, <1>7 DEF RemoteTyped
<1>12. PlacesFit'
  BY <1>6, <1>8, <1>9 DEF RemoteInv, PlacesFit, Stopping
<1>13. OneStart'
  <2>1. (v.kind = "start" /\ v.at # "done") => \A j \in RemoteOps : ~StartUnderWay(j)
    BY <1>4, StartingIs
  <2>2. v.at = "read" => \A j \in RemoteOps : remoteOps[j].at # "read"
    BY <1>9, <1>10
  <2> QED  BY <1>6, <2>1, <2>2 DEF RemoteInv, OneStart, StartUnderWay, Active
<1>14. InstalledFirst'
  BY <1>6, <1>7, <1>8 DEF RemoteInv, InstalledFirst, Stopping
<1>15. TunnelOwned'
  <2>1. \A j \in RemoteOps : remoteOps[j].at = "race" => remoteOps'[j] = remoteOps[j]
    BY <1>3, <1>6
  <2> QED  BY <1>3, <1>6, <1>7, <1>8, <2>1 DEF RemoteInv, TunnelOwned, StartUnderWay, Active
<1>16. UnreadIsEmpty'
  BY <1>2, <1>4, <1>6, <1>7, <1>10 DEF RemoteInv, UnreadIsEmpty, Active
<1>17. ReadingIsEmpty'
  BY <1>3, <1>6, <1>7, <1>8, <1>9, <1>10 DEF RemoteInv, ReadingIsEmpty
<1>18. SavedOrSaving'
  <2>1. CASE v.at = "read"
    BY <1>6, <2>1 DEF SavedOrSaving
  <2>2. CASE v.at # "read"
    <3>1. remote'.loaded = TRUE => remote.loaded = TRUE
      <4>1. joins => remote.loaded = TRUE
        BY <1>1, <1>10, StartingIs DEF Starting, ActiveRemote, Controller
      <4> QED  BY <1>1, <1>4, <1>7, <2>2, <4>1 DEF Controller
    <3>2. Memory' = Memory
      BY <1>7 DEF Memory
    <3> QED  BY <1>3, <1>6, <1>8, <2>2, <3>1, <3>2 DEF RemoteInv, SavedOrSaving, StopPending, Stopping
  <2> QED  BY <2>1, <2>2
<1>19. TunnelsKnown'
  <2>1. \A t \in Killing : t \in Killing'
    BY <1>3, <1>6 DEF Killing
  <2> QED  BY <1>3, <1>7, <2>1 DEF RemoteInv, TunnelsKnown
<1>20. WithinLimit'
  BY <1>3, <1>6, <1>8 DEF RemoteInv, WithinLimit
<1>21. ClosedIsQuiet'
  BY <1>3, <1>4, <1>6, <1>7 DEF RemoteInv, ClosedIsQuiet, Active
<1> QED  BY <1>11, <1>12, <1>13, <1>14, <1>15, <1>16, <1>17, <1>18, <1>19, <1>20, <1>21 DEF RemoteInv

\* What the file holds is taken over, unless it may be behind.
LEMMA ReadKeeps ==
  ASSUME RemoteInv, NEW k \in RemoteOps, ReadRemembered(k)
  PROVE  RemoteInv'
<1>1. RemoteTyped /\ remoteOps[k] \in RemoteOp /\ remote \in Controller
  BY DEF RemoteInv, RemoteTyped
<1>2. /\ remoteOps[k].at = "read" /\ tunnels' = tunnels /\ remembered' = remembered
  BY DEF ReadRemembered, RemoteRest
<1> DEFINE v == [remoteOps[k] EXCEPT !.at = "begin"]
<1>3. v \in RemoteOp /\ v.kind = remoteOps[k].kind /\ v.at = "begin"
  BY <1>1 DEF RemoteOp, RemotePlaces
<1>4. remoteOps' = [remoteOps EXCEPT ![k] = v]
  BY <1>1 DEF ReadRemembered, RemoteTyped
<1> HIDE DEF v
<1>5. /\ remoteOps' \in [RemoteOps -> RemoteOp] /\ remoteOps'[k] = v
      /\ \A j \in RemoteOps \ {k} : remoteOps'[j] = remoteOps[j]
  BY <1>1, <1>3, <1>4, OpMoves
<1>0. Kept(remembered.trusted) = {remembered.trusted} /\ remembered.trusted \in SUBSET RemoteClients
  BY <1>1 DEF RemoteInv, WithinLimit, Kept, RemoteTyped, RemoteState
<1>6. \/ /\ remote' = [remote EXCEPT !.desired = remembered.desired,
                                     !.trusted = remote.trusted \cup remembered.trusted]
         /\ remoteSeen' = remoteSeen
      \/ remote' = remote /\ remoteSeen' = [remoteSeen EXCEPT !.behind = TRUE]
  BY <1>0 DEF ReadRemembered, Behind
<1>7. /\ remote' \in Controller /\ remote'.child = remote.child /\ remote'.state = remote.state
      /\ remote'.installed = remote.installed /\ remote'.gateway = remote.gateway
      /\ remote'.loaded = remote.loaded
  BY <1>1, <1>6 DEF RemoteTyped, Controller, RemoteState
<1>8. /\ remoteSeen' \in RemoteSeen /\ remoteSeen'.misled = remoteSeen.misled
      /\ remoteSeen'.refused = remoteSeen.refused /\ remoteSeen'.closed = remoteSeen.closed
      /\ remoteSeen'.behind = FALSE => /\ remoteSeen.behind = FALSE
                                       /\ remote'.desired = remembered.desired
                                       /\ remote'.trusted = remote.trusted \cup remembered.trusted
  BY <1>1, <1>6 DEF RemoteTyped, RemoteSeen, Controller, RemoteState
<1>9. remote.loaded = TRUE
  BY <1>1, <1>2 DEF RemoteInv, UnreadIsEmpty, Active, PlacesFit, Controller
<1>10. RemoteTyped'
  BY <1>1, <1>2, <1>5, <1>7, <1>8 DEF RemoteTyped
<1>11. PlacesFit'
  BY <1>3, <1>5 DEF RemoteInv, PlacesFit, Stopping
<1>12. OneStart'
  BY <1>2, <1>3, <1>5 DEF RemoteInv, OneStart, StartUnderWay, Active
<1>13. InstalledFirst'
  BY <1>3, <1>5, <1>7 DEF RemoteInv, InstalledFirst, Stopping
<1>14. TunnelOwned'
  <2>1. \A j \in RemoteOps : remoteOps[j].at = "race" => remoteOps'[j] = remoteOps[j]
    BY <1>2, <1>5
  <2> QED  BY <1>2, <1>3, <1>5, <1>7, <1>8, <2>1 DEF RemoteInv, TunnelOwned, StartUnderWay, Active
<1>15. UnreadIsEmpty'
  BY <1>7, <1>9 DEF UnreadIsEmpty
<1>16. ReadingIsEmpty'
  BY <1>2, <1>3, <1>5 DEF RemoteInv, OneStart, ReadingIsEmpty
<1>17. SavedOrSaving'
  <2>1. SUFFICES ASSUME remoteSeen'.behind = FALSE
                 PROVE  SavedOrSaving'
    BY DEF SavedOrSaving
  <2>2. remote.trusted = {} /\ \A j \in RemoteOps : remoteOps[j].at # "save"
    BY <1>2, <1>8, <2>1 DEF RemoteInv, ReadingIsEmpty
  <2>3. remembered \in Memory'
    <3>1. remote'.trusted = remembered.trusted
      BY <1>8, <2>1, <2>2
    <3> QED  BY <1>0, <1>1, <1>8, <2>1, <3>1 DEF Memory, RemoteTyped
  <2> QED  BY <1>2, <1>3, <1>5, <2>2, <2>3 DEF SavedOrSaving
<1>18. TunnelsKnown'
  <2>1. \A t \in Killing : t \in Killing'
    BY <1>2, <1>5 DEF Killing
  <2> QED  BY <1>2, <1>7, <1>8, <2>1 DEF RemoteInv, TunnelsKnown
<1>19. WithinLimit'
  BY <1>2, <1>3, <1>5 DEF RemoteInv, WithinLimit
<1>20. ClosedIsQuiet'
  BY <1>2, <1>3, <1>5, <1>7, <1>8 DEF RemoteInv, ClosedIsQuiet, Active
<1> QED  BY <1>10, <1>11, <1>12, <1>13, <1>14, <1>15, <1>16, <1>17, <1>18, <1>19, <1>20 DEF RemoteInv


\* A tunnel that is started takes the place of none.
LEMMA SpawnKeeps ==
  ASSUME RemoteInv, NEW k \in RemoteOps, remoteOps[k].at = "gateway", Free # {},
         remoteOps' = [remoteOps EXCEPT ![k] = [@ EXCEPT !.at = "race", !.child = NewTunnel]],
         tunnels' = [tunnels EXCEPT ![NewTunnel] = "up"],
         remote' = [remote EXCEPT !.gateway = TRUE, !.child = NewTunnel],
         remembered' = remembered, remoteSeen' = remoteSeen
  PROVE  RemoteInv'
<1>1. RemoteTyped /\ remoteOps[k] \in RemoteOp /\ remote \in Controller
  BY DEF RemoteInv, RemoteTyped
<1>2. NewTunnel \in Tunnels /\ NewTunnel # 0
  <2>1. Free \subseteq Tunnels /\ Tunnels \subseteq Nat \ {0}
    BY RemoteMcpAssumption DEF Free, Tunnels
  <2>2. \E t \in Free : \A u \in Free : t <= u
    <3>1. 2 * MaxRemoteOps \in Nat /\ Free \in SUBSET (1 .. 2 * MaxRemoteOps)
      BY <2>1, RemoteMcpAssumption DEF Tunnels
    <3> QED  BY <3>1, SmallestOfSome
  <2>3. NewTunnel \in Free
    BY <2>2 DEF NewTunnel
  <2> QED  BY <2>1, <2>3
<1> DEFINE new == NewTunnel
           v == [remoteOps[k] EXCEPT !.at = "race", !.child = new]
<1> HIDE DEF new
<1>3. v \in RemoteOp /\ v.kind = remoteOps[k].kind /\ v.at = "race" /\ v.child = new
  BY <1>1, <1>2 DEF RemoteOp, RemotePlaces, new
<1>4. remoteOps' = [remoteOps EXCEPT ![k] = v] /\ tunnels' = [tunnels EXCEPT ![new] = "up"]
      /\ remote' = [remote EXCEPT !.gateway = TRUE, !.child = new] /\ new \in Tunnels
  BY <1>1, <1>2 DEF new
<1> HIDE DEF v
<1>5. /\ remoteOps' \in [RemoteOps -> RemoteOp] /\ remoteOps'[k] = v
      /\ \A j \in RemoteOps \ {k} : remoteOps'[j] = remoteOps[j]
  BY <1>1, <1>3, <1>4, OpMoves
<1>6. /\ remote' \in Controller /\ remote'.child = new /\ remote'.state = remote.state
      /\ remote'.installed = remote.installed /\ remote'.loaded = remote.loaded
      /\ remote'.trusted = remote.trusted /\ remote'.desired = remote.desired
  BY <1>1, <1>4 DEF Controller
<1>7. StartUnderWay(k)
  BY DEF RemoteInv, PlacesFit, StartUnderWay, Active
<1>8. remote.loaded = TRUE /\ remote.installed = TRUE
  BY <1>1, <1>7 DEF RemoteInv, UnreadIsEmpty, InstalledFirst, StartUnderWay, Controller
<1>9. remoteSeen.misled = FALSE => remote.child = 0
  BY <1>7 DEF RemoteInv, TunnelOwned
<1>10. RemoteTyped'
  BY <1>1, <1>4, <1>5, <1>6 DEF RemoteTyped
<1>11. PlacesFit'
  BY <1>2, <1>3, <1>5 DEF RemoteInv, PlacesFit, Stopping, new
<1>12. OneStart'
  BY <1>3, <1>5, <1>7 DEF RemoteInv, OneStart, StartUnderWay, Active
<1>13. InstalledFirst'
  BY <1>6, <1>8 DEF InstalledFirst
<1>14. TunnelOwned'
  <2>1. \A j \in RemoteOps : StartUnderWay(j)' => j = k
    BY <1>3, <1>5, <1>7 DEF RemoteInv, OneStart, StartUnderWay, Active
  <2> QED  BY <1>3, <1>5, <1>6, <2>1 DEF TunnelOwned
<1>15. UnreadIsEmpty'
  BY <1>6, <1>8 DEF UnreadIsEmpty
<1>16. ReadingIsEmpty'
  BY <1>3, <1>5, <1>6 DEF RemoteInv, ReadingIsEmpty
<1>17. SavedOrSaving'
  <2>1. Memory' = Memory
    BY <1>6 DEF Memory
  <2> QED  BY <1>3, <1>5, <1>6, <2>1 DEF RemoteInv, SavedOrSaving, StopPending, Stopping
<1>18. TunnelsKnown'
  <2> SUFFICES ASSUME NEW t \in Tunnels, tunnels'[t] = "up", remoteSeen.misled = FALSE,
                      t \notin remoteSeen.refused, t # new
               PROVE  t \in Killing'
    BY <1>1, <1>6 DEF TunnelsKnown, RemoteTyped, RemoteSeen
  <2>1. tunnels[t] = "up" /\ t # 0
    BY <1>1, <1>4 DEF RemoteTyped, Tunnels
  <2>2. t \in Killing
    BY <1>9, <2>1 DEF RemoteInv, TunnelsKnown
  <2>3. PICK j \in RemoteOps : remoteOps[j].at = "kill" /\ remoteOps[j].child = t
    BY <2>2 DEF Killing
  <2>4. remoteOps'[j].at = "kill" /\ remoteOps'[j].child = t
    BY <1>5, <2>3
  <2> QED  BY <2>4 DEF Killing
<1>19. WithinLimit'
  BY <1>3, <1>5 DEF RemoteInv, WithinLimit
<1>20. ClosedIsQuiet'
  BY <1>7 DEF RemoteInv, ClosedIsQuiet, StartUnderWay
<1> QED  BY <1>10, <1>11, <1>12, <1>13, <1>14, <1>15, <1>16, <1>17, <1>18, <1>19, <1>20 DEF RemoteInv

\* A request whose tunnel has gone goes on to give up the gateway.
LEMMA TerminatedKeeps ==
  ASSUME RemoteInv, NEW k \in RemoteOps, Terminated(k)
  PROVE  RemoteInv'
<1>1. RemoteTyped /\ remoteOps[k] \in RemoteOp /\ remote \in Controller
  BY DEF RemoteInv, RemoteTyped
<1>2. /\ remoteOps[k].at = "kill" /\ tunnels' = tunnels /\ remembered' = remembered
      /\ remoteSeen' = remoteSeen /\ tunnels[remoteOps[k].child] = "gone"
  BY DEF Terminated, RemoteRest
<1> DEFINE v == [remoteOps[k] EXCEPT !.at = "unbind", !.child = 0]
<1>3. /\ v \in RemoteOp /\ v.kind = remoteOps[k].kind /\ v.at = "unbind" /\ v.next = remoteOps[k].next
  BY <1>1 DEF RemoteOp, RemotePlaces
<1>4. remoteOps' = [remoteOps EXCEPT ![k] = v]
  BY <1>1 DEF Terminated
<1> HIDE DEF v
<1>5. /\ remoteOps' \in [RemoteOps -> RemoteOp] /\ remoteOps'[k] = v
      /\ \A j \in RemoteOps \ {k} : remoteOps'[j] = remoteOps[j]
  BY <1>1, <1>3, <1>4, OpMoves
<1>6. /\ remote' \in Controller /\ remote'.child = remote.child /\ remote'.state = remote.state
      /\ remote'.installed = remote.installed /\ remote'.loaded = remote.loaded
      /\ remote'.trusted = remote.trusted /\ remote'.desired = remote.desired
      /\ remote'.gateway = FALSE
  BY <1>1 DEF Terminated, Controller
<1>7. RemoteTyped'
  BY <1>1, <1>2, <1>5, <1>6 DEF RemoteTyped
<1>8. PlacesFit'
  BY <1>2, <1>3, <1>5 DEF RemoteInv, PlacesFit, Stopping
<1>9. OneStart'
  BY <1>2, <1>3, <1>5 DEF RemoteInv, OneStart, StartUnderWay, Active
<1>10. InstalledFirst'
  BY <1>2, <1>3, <1>5, <1>6 DEF RemoteInv, InstalledFirst, Stopping
<1>11. TunnelOwned'
  <2>1. \A j \in RemoteOps : remoteOps[j].at = "race" => remoteOps'[j] = remoteOps[j]
    BY <1>2, <1>5
  <2> QED  BY <1>2, <1>3, <1>5, <1>6, <2>1 DEF RemoteInv, TunnelOwned, StartUnderWay, Active
<1>12. UnreadIsEmpty'
  BY <1>2, <1>3, <1>5, <1>6 DEF RemoteInv, UnreadIsEmpty, Active
<1>13. ReadingIsEmpty'
  BY <1>2, <1>3, <1>5, <1>6 DEF RemoteInv, ReadingIsEmpty
<1>14. SavedOrSaving'
  <2>1. Memory' = Memory
    BY <1>6 DEF Memory
  <2> QED  BY <1>2, <1>3, <1>5, <1>6, <2>1 DEF RemoteInv, SavedOrSaving, StopPending, Stopping
<1>15. TunnelsKnown'
  <2> SUFFICES ASSUME NEW t \in Tunnels, tunnels[t] = "up", remoteSeen.misled = FALSE,
                      t \notin remoteSeen.refused, t # remote.child
               PROVE  t \in Killing'
    BY <1>1, <1>2, <1>6 DEF TunnelsKnown, RemoteTyped, RemoteSeen
  <2>1. t \in Killing
    BY DEF RemoteInv, TunnelsKnown
  <2>2. PICK j \in RemoteOps : remoteOps[j].at = "kill" /\ remoteOps[j].child = t
    BY <2>1 DEF Killing
  <2>3. remoteOps'[j].at = "kill" /\ remoteOps'[j].child = t
    BY <1>2, <1>5, <2>2
  <2> QED  BY <2>3 DEF Killing
<1>16. WithinLimit'
  BY <1>2, <1>3, <1>5 DEF RemoteInv, WithinLimit
<1>17. ClosedIsQuiet'
  BY <1>2, <1>3, <1>5, <1>6 DEF RemoteInv, ClosedIsQuiet, Active
<1> QED  BY <1>7, <1>8, <1>9, <1>10, <1>11, <1>12, <1>13, <1>14, <1>15, <1>16, <1>17 DEF RemoteInv

\* What is written is what is known, unless it may be behind.
LEMMA SaveEndsKeeps ==
  ASSUME RemoteInv, NEW k \in RemoteOps, SaveEnds(k)
  PROVE  RemoteInv'
<1>1. RemoteTyped /\ remoteOps[k] \in RemoteOp
  BY DEF RemoteInv, RemoteTyped
<1>2. /\ remoteOps[k].at = "save" /\ tunnels' = tunnels /\ remembered' = remoteOps[k].copy
      /\ remoteSeen' = remoteSeen /\ remote' = remote
  BY DEF SaveEnds
<1> DEFINE v == [IdleRemoteOp EXCEPT !.at = "done"]
<1>3. v \in RemoteOp /\ v.at = "done"
  <2>1. IdleRemoteOp \in RemoteOp
    BY DEF IdleRemoteOp, RemoteOp, RemoteKinds, RemotePlaces, NextStages, NothingSaved, RemoteState
  <2> QED  BY <2>1 DEF RemoteOp, RemotePlaces
<1>4. remoteOps' = [remoteOps EXCEPT ![k] = v]
  BY DEF SaveEnds, Answered
<1> HIDE DEF v
<1>5. /\ remoteOps' \in [RemoteOps -> RemoteOp] /\ remoteOps'[k] = v
      /\ \A j \in RemoteOps \ {k} : remoteOps'[j] = remoteOps[j]
  BY <1>1, <1>3, <1>4, OpMoves
<1>6. RemoteTyped'
  BY <1>1, <1>2, <1>5 DEF RemoteTyped, RemoteOp
<1>7. PlacesFit'
  BY <1>3, <1>5 DEF RemoteInv, PlacesFit, Stopping
<1>8. OneStart'
  BY <1>3, <1>5 DEF RemoteInv, OneStart, StartUnderWay, Active
<1>9. InstalledFirst'
  BY <1>2, <1>3, <1>5 DEF RemoteInv, InstalledFirst, Stopping
<1>10. TunnelOwned'
  <2>1. \A j \in RemoteOps : remoteOps[j].at = "race" => remoteOps'[j] = remoteOps[j]
    BY <1>2, <1>5
  <2> QED  BY <1>2, <1>3, <1>5, <2>1 DEF RemoteInv, TunnelOwned, StartUnderWay, Active
<1>11. UnreadIsEmpty'
  BY <1>2, <1>3, <1>5 DEF RemoteInv, UnreadIsEmpty, Active
<1>12. ReadingIsEmpty'
  BY <1>2, <1>3, <1>5 DEF RemoteInv, ReadingIsEmpty
<1>13. SavedOrSaving'
  <2>1. Memory' = Memory
    BY <1>2 DEF Memory
  <2> QED  BY <1>2, <1>3, <1>5, <2>1 DEF RemoteInv, SavedOrSaving, StopPending, Stopping
<1>14. TunnelsKnown'
  <2>1. \A t \in Killing : t \in Killing'
    BY <1>2, <1>5 DEF Killing
  <2> QED  BY <1>2, <2>1 DEF RemoteInv, TunnelsKnown
<1>15. WithinLimit'
  BY <1>2, <1>3, <1>5 DEF RemoteInv, WithinLimit
<1>16. ClosedIsQuiet'
  BY <1>2, <1>3, <1>5 DEF RemoteInv, ClosedIsQuiet, Active
<1> QED  BY <1>6, <1>7, <1>8, <1>9, <1>10, <1>11, <1>12, <1>13, <1>14, <1>15, <1>16 DEF RemoteInv

\* A tunnel that ends is nobody's any more.
LEMMA TunnelExitKeeps ==
  ASSUME RemoteInv, NEW t \in Tunnels, TunnelExits(t)
  PROVE  RemoteInv'
<1>1. RemoteTyped /\ remote \in Controller
  BY DEF RemoteInv, RemoteTyped
<1>2. /\ remoteOps' = remoteOps /\ remembered' = remembered
      /\ tunnels' = [tunnels EXCEPT ![t] = "gone"]
  BY DEF TunnelExits
<1>3. /\ remoteSeen' \in RemoteSeen /\ remoteSeen'.refused = remoteSeen.refused
      /\ remoteSeen'.behind = remoteSeen.behind /\ remoteSeen'.closed = remoteSeen.closed
      /\ remoteSeen'.misled = FALSE => remoteSeen.misled = FALSE /\ remote.child \in {0, t}
  BY <1>1 DEF TunnelExits, RemoteTyped, RemoteSeen
<1>4. /\ remote' \in Controller
      /\ remote'.state = (IF remote.state = "stopped" THEN remote.state ELSE "error")
      /\ remote'.installed = remote.installed /\ remote'.loaded = remote.loaded
      /\ remote'.trusted = remote.trusted /\ remote'.desired = remote.desired
      /\ remote'.gateway = remote.gateway
      /\ remote'.child = (IF remote.child = t THEN 0 ELSE remote.child)
  BY <1>1 DEF TunnelExits, Controller
<1>5. RemoteTyped'
  BY <1>1, <1>2, <1>3, <1>4 DEF RemoteTyped
<1>6. PlacesFit' /\ OneStart' /\ InstalledFirst'
  BY <1>2, <1>4 DEF RemoteInv, PlacesFit, Stopping, OneStart, InstalledFirst, StartUnderWay, Active
<1>7. TunnelOwned'
  BY <1>3, <1>4 DEF TunnelOwned
<1>8. UnreadIsEmpty' /\ ReadingIsEmpty'
  BY <1>2, <1>3, <1>4 DEF RemoteInv, UnreadIsEmpty, ReadingIsEmpty, Active
<1>9. SavedOrSaving'
  <2>1. Memory' = Memory
    BY <1>4 DEF Memory
  <2> QED  BY <1>2, <1>3, <1>4, <2>1 DEF RemoteInv, SavedOrSaving, StopPending, Stopping
<1>10. TunnelsKnown'
  <2>1. Killing' = Killing
    BY <1>2 DEF Killing
  <2>2. \A u \in Tunnels : tunnels'[u] = "up" => tunnels[u] = "up" /\ u # t
    BY <1>1, <1>2 DEF RemoteTyped
  <2> QED  BY <1>1, <1>3, <1>4, <2>1, <2>2 DEF RemoteInv, TunnelsKnown, RemoteTyped, RemoteSeen
<1>11. WithinLimit' /\ ClosedIsQuiet'
  BY <1>2, <1>3, <1>4 DEF RemoteInv, WithinLimit, ClosedIsQuiet, Active
<1> QED  BY <1>5, <1>6, <1>7, <1>8, <1>9, <1>10, <1>11 DEF RemoteInv

\* The application starts again with nothing under way.
LEMMA RemoteRestartKeeps ==
  ASSUME RemoteInv, RemoteRestart
  PROVE  RemoteInv'
<1>1. RemoteTyped /\ remote \in Controller
  BY DEF RemoteInv, RemoteTyped
<1>2. remote.installed \in BOOLEAN
  BY <1>1 DEF Controller
<1>3. /\ remote' \in Controller /\ remote'.child = 0 /\ remote'.state = "stopped"
      /\ remote'.loaded = FALSE /\ remote'.gateway = FALSE /\ remote'.trusted = {}
  BY <1>2 DEF RemoteRestart, FreshRemote, Controller
<1>4. /\ tunnels' \in [Tunnels -> {"up", "left", "gone"}]
      /\ \A t \in Tunnels : tunnels'[t] # "up"
  BY <1>1 DEF RemoteRestart, RemoteTyped
<1>5. [IdleRemoteOp EXCEPT !.at = "done"] \in RemoteOp /\ [IdleRemoteOp EXCEPT !.at = "done"].at = "done"
  <2>1. IdleRemoteOp \in RemoteOp
    BY DEF IdleRemoteOp, RemoteOp, RemoteKinds, RemotePlaces, NextStages, NothingSaved, RemoteState
  <2> QED  BY <2>1 DEF RemoteOp, RemotePlaces
<1>6. /\ remoteOps' \in [RemoteOps -> RemoteOp]
      /\ \A k \in RemoteOps : remoteOps'[k].at \in {"idle", "done"}
  BY <1>1, <1>5 DEF RemoteRestart, RemoteTyped, Active
<1>7. remoteSeen' \in RemoteSeen /\ remoteSeen'.closed = FALSE
  BY <1>1 DEF RemoteRestart, RemoteTyped, RemoteSeen
<1>8. remembered' \in RemoteState /\ Cardinality(remembered'.trusted) <= SavedClients
  <2>1. NothingSaved \in RemoteState /\ NothingSaved.trusted = {}
    BY DEF NothingSaved, RemoteState
  <2>2. Cardinality({}) <= SavedClients
    BY FS_EmptySet, RemoteMcpAssumption
  <2>3. remembered \in RemoteState /\ Cardinality(remembered.trusted) <= SavedClients
    BY <1>1 DEF RemoteInv, RemoteTyped, WithinLimit
  <2> QED  BY <2>1, <2>2, <2>3 DEF RemoteRestart
<1>9. RemoteTyped'
  BY <1>3, <1>4, <1>6, <1>7, <1>8 DEF RemoteTyped
<1> QED  BY <1>3, <1>4, <1>6, <1>7, <1>8, <1>9 DEF RemoteInv, PlacesFit, OneStart, InstalledFirst, TunnelOwned,
         UnreadIsEmpty, ReadingIsEmpty, SavedOrSaving, WithinLimit, TunnelsKnown, ClosedIsQuiet, StartUnderWay, Active, Stopping

\* The request that begins.
LEMMA BeginKeeps ==
  ASSUME RemoteInv, NEW k \in RemoteOps, BeginRemote(k)
  PROVE  RemoteInv'
<1>1. /\ RemoteTyped /\ remoteOps[k] \in RemoteOp /\ remote \in Controller
      /\ remoteSeen \in RemoteSeen
  BY DEF RemoteInv, RemoteTyped
<1>2. /\ remoteOps[k].at = "begin" /\ tunnels' = tunnels /\ remembered' = remembered
      /\ Active(k) /\ ~StopPending(k)
  BY DEF BeginRemote, RemoteRest, Active, StopPending, Stopping
<1>3. CASE remoteOps' = Answered(k) /\ UNCHANGED <<remote, remoteSeen>>
  BY <1>1, <1>2, <1>3, AnswerKeeps DEF Memory
<1>4. CASE BeginStart(k)
  <2>1. CASE /\ remoteOps[k].kind = "start" \/ Starting = {}
             /\ remoteOps[k].kind \in {"start", "auto"}
             /\ remote.state # "running" /\ remoteSeen' = remoteSeen
             /\ remoteOps' = [remoteOps EXCEPT ![k] = [remoteOps[k] EXCEPT !.at = "ensure", !.kind = "start"]]
             /\ remote' = [remote EXCEPT !.state = "starting"]
    <3> DEFINE v == [remoteOps[k] EXCEPT !.at = "ensure", !.kind = "start"]
    <3>1. v \in RemoteOp /\ v.at = "ensure" /\ v.kind = "start"
      BY <1>1 DEF RemoteOp, RemotePlaces, RemoteKinds
    <3>2. remoteOps' = [remoteOps EXCEPT ![k] = v]
      BY <2>1
    <3> HIDE DEF v
    <3>3. /\ remote' \in Controller /\ remote'.child = remote.child
          /\ remote'.loaded = remote.loaded /\ remote'.gateway = remote.gateway
          /\ remote'.installed = remote.installed /\ remote'.state = "starting"
          /\ remote'.desired = remote.desired /\ remote'.trusted = remote.trusted
      BY <1>1, <2>1 DEF Controller
    <3>4. Memory' = Memory
      BY <3>3 DEF Memory
    <3>5. \A j \in RemoteOps : StartUnderWay(j) => j = k
      BY <1>2, <2>1, StartingIs DEF RemoteInv, OneStart, StartUnderWay
    <3>6. remote.loaded = TRUE
      BY <1>1, <1>2, <2>1 DEF RemoteInv, UnreadIsEmpty, Controller
    <3>7. remoteSeen.misled = FALSE => remote.child = 0
      <4>1. \A j \in RemoteOps : remoteOps[j].at # "race"
        BY <1>2, <3>5 DEF RemoteInv, PlacesFit, StartUnderWay, Active
      <4> QED  BY <2>1, <4>1 DEF RemoteInv, TunnelOwned
    <3> QED  BY <1>1, <1>2, <2>1, <3>1, <3>2, <3>3, <3>4, <3>5, <3>6, <3>7, MoveKeeps
  <2>2. \/ remoteOps' = Answered(k) /\ UNCHANGED <<remote, remoteSeen>>
        \/ /\ remoteOps[k].kind = "start" \/ Starting = {}
           /\ remoteOps[k].kind \in {"start", "auto"}
           /\ remote.state # "running" /\ remoteSeen' = remoteSeen
           /\ remoteOps' = [remoteOps EXCEPT ![k] = [remoteOps[k] EXCEPT !.at = "ensure", !.kind = "start"]]
           /\ remote' = [remote EXCEPT !.state = "starting"]
    BY <1>1, <1>4 DEF BeginStart, RemoteTyped
  <2> QED  BY <1>3, <2>1, <2>2
<1>5. CASE BeginStop(k)
  <2>1. PICK desired \in BOOLEAN :
          /\ GiveUpTunnel(k, [remote EXCEPT !.state = "stopped", !.desired = desired], remoteOps[k].kind)
          /\ desired # remote.desired => remoteOps[k].kind = "stop"
    BY <1>1, <1>5 DEF BeginStop, Controller
  <2>2. /\ remoteOps[k].kind \in {"stop", "close"} /\ remoteSeen' \in RemoteSeen
        /\ remoteSeen'.misled = remoteSeen.misled /\ remoteSeen'.refused = remoteSeen.refused
        /\ remoteSeen'.behind = remoteSeen.behind
        /\ remoteSeen'.closed = TRUE => remoteSeen.closed = TRUE \/ MayStart = {}
    BY <1>1, <1>5 DEF BeginStop, RemoteSeen
  <2>3. remoteOps[k].kind \in NextStages
    BY <2>2 DEF NextStages
  <2> QED  BY <1>1, <1>2, <2>1, <2>2, <2>3, GiveUpKeeps
<1>6. CASE BeginInstall(k)
  <2>1. CASE /\ remoteOps[k].kind = "install" /\ remote.installed # TRUE
             /\ remoteOps' = Reach(k, "installing") /\ remote' = [remote EXCEPT !.state = "installing"]
             /\ remoteSeen' = [remoteSeen EXCEPT !.misled = remoteSeen.misled \/ Starting # {}]
    <3> DEFINE v == [remoteOps[k] EXCEPT !.at = "installing"]
    <3>1. v \in RemoteOp /\ v.at = "installing" /\ v.kind = "install"
      BY <1>1, <2>1 DEF RemoteOp, RemotePlaces
    <3>2. remoteOps' = [remoteOps EXCEPT ![k] = v]
      BY <1>1, <2>1 DEF Reach, RemoteTyped
    <3> HIDE DEF v
    <3>3. /\ remote' \in Controller /\ remote'.child = remote.child
          /\ remote'.loaded = remote.loaded /\ remote'.gateway = remote.gateway
          /\ remote'.installed = remote.installed /\ remote'.state = "installing"
          /\ remote'.desired = remote.desired /\ remote'.trusted = remote.trusted
      BY <1>1, <2>1 DEF Controller
    <3>4. Memory' = Memory
      BY <3>3 DEF Memory
    <3>5. remote.child = 0
      BY <2>1 DEF RemoteInv, InstalledFirst
    <3>6. /\ remoteSeen' \in RemoteSeen /\ remoteSeen'.refused = remoteSeen.refused
          /\ remoteSeen'.behind = remoteSeen.behind /\ remoteSeen'.closed = remoteSeen.closed
          /\ remoteSeen'.misled = FALSE => remoteSeen.misled = FALSE
      BY <1>1, <2>1 DEF RemoteSeen
    <3> QED  BY <1>1, <1>2, <2>1, <3>1, <3>2, <3>3, <3>4, <3>5, <3>6, MoveKeeps
  <2> QED  BY <1>1, <1>3, <1>6, <2>1 DEF BeginInstall, Controller
<1>7. CASE BeginReset(k)
  <2>1. /\ remote' \in Controller /\ remote'.child = remote.child
        /\ remote'.loaded = remote.loaded /\ remote'.gateway = remote.gateway
        /\ remote'.installed = remote.installed /\ remote'.state = remote.state
    BY <1>1, <1>7 DEF BeginReset, Controller
  <2>2. BeginSave(k, remote') /\ remoteOps[k].kind = "reset"
    BY <1>7 DEF BeginReset
  <2> QED  BY <1>1, <1>2, <2>1, <2>2, SaveBeginKeeps
<1>8. CASE BeginAuthorize(k)
  <2>1. PICK c \in RemoteClients : remote' = [remote EXCEPT !.trusted = remote.trusted \cup {c}]
    BY <1>8 DEF BeginAuthorize
  <2>2. /\ remote' \in Controller /\ remote'.child = remote.child
        /\ remote'.loaded = remote.loaded /\ remote'.gateway = remote.gateway
        /\ remote'.installed = remote.installed /\ remote'.state = remote.state
    BY <1>1, <2>1 DEF Controller
  <2>3. BeginSave(k, remote') /\ remoteOps[k].kind = "authorize"
    BY <1>8 DEF BeginAuthorize
  <2> QED  BY <1>1, <1>2, <2>2, <2>3, SaveBeginKeeps
<1> QED  BY <1>4, <1>5, <1>6, <1>7, <1>8 DEF BeginRemote

\* GiveUpTunnel of what is there, by a request that failed.
LEMMA FailureKeeps ==
  ASSUME RemoteInv, NEW k \in RemoteOps, Active(k),
         remoteOps[k].at \notin {"read", "begin"},
         remoteOps[k].kind = "start", NEW next \in {"retry", "error"},
         GiveUpTunnel(k, remote, next), next = "retry" => remote.installed = TRUE,
         tunnels' = tunnels, remembered' = remembered, remoteSeen' \in RemoteSeen,
         remoteSeen'.misled = remoteSeen.misled, remoteSeen.refused \subseteq remoteSeen'.refused,
         remoteOps[k].at = "kill" => remoteOps[k].child \in remoteSeen'.refused,
         remoteSeen.behind = TRUE \/ remoteOps[k].at = "save" => remoteSeen'.behind = TRUE,
         remoteSeen'.closed = remoteSeen.closed
  PROVE  RemoteInv'
<1>1. remote \in Controller
  BY DEF RemoteInv, RemoteTyped
<1>2. /\ remote = [remote EXCEPT !.state = remote.state, !.desired = remote.desired]
      /\ remote.desired \in BOOLEAN
  BY <1>1 DEF Controller
<1>3. GiveUpTunnel(k, [remote EXCEPT !.state = remote.state, !.desired = remote.desired], next)
  BY <1>2
<1>4. ~StopPending(k) /\ next \in NextStages
  BY DEF RemoteInv, PlacesFit, StopPending, NextStages
<1> QED  BY <1>2, <1>3, <1>4, GiveUpKeeps

\* A request under way goes one step on.
LEMMA UnderWayKeeps ==
  ASSUME RemoteInv, NEW k \in RemoteOps, RemoteStep(k)
  PROVE  RemoteInv'
<1>1. /\ RemoteTyped /\ remoteOps[k] \in RemoteOp /\ remote \in Controller
      /\ remoteSeen \in RemoteSeen /\ PlacesFit /\ OneStart
  BY DEF RemoteInv, RemoteTyped
<1>2. ASSUME StartUnderWay(k)
      PROVE  /\ \A j \in RemoteOps : StartUnderWay(j) => j = k
             /\ remote.loaded = TRUE
  BY <1>1, <1>2 DEF RemoteInv, OneStart, StartUnderWay, UnreadIsEmpty, Controller
<1>3. CASE AskRemote(k) \/ ReadRemembered(k) \/ Terminated(k) \/ SaveEnds(k)
  BY <1>3, AskKeeps, ReadKeeps, TerminatedKeeps, SaveEndsKeeps
<1>4. CASE EnsureEnds(k)
  <2>1. /\ remoteOps[k].at = "ensure" /\ remoteOps[k].kind = "start" /\ remoteSeen' = remoteSeen
        /\ tunnels' = tunnels /\ remembered' = remembered /\ Active(k) /\ ~StopPending(k)
    BY <1>1, <1>4 DEF EnsureEnds, RemoteRest, PlacesFit, Active, StopPending, Stopping
  <2>2. CASE GiveUpTunnel(k, remote, "error")
    BY <1>1, <2>1, <2>2, FailureKeeps
  <2>3. CASE /\ remoteOps' = Reach(k, IF remote.installed THEN "gateway" ELSE "installing")
             /\ remote' = IF remote.installed THEN remote ELSE [remote EXCEPT !.state = "installing"]
    <3> DEFINE at == IF remote.installed THEN "gateway" ELSE "installing"
               v == [remoteOps[k] EXCEPT !.at = at]
    <3>1. v \in RemoteOp /\ v.at = at /\ v.kind = "start"
      BY <1>1, <2>1 DEF RemoteOp, RemotePlaces
    <3>2. remoteOps' = [remoteOps EXCEPT ![k] = v]
      BY <1>1, <2>3 DEF Reach, RemoteTyped
    <3> HIDE DEF v
    <3>3. /\ remote' \in Controller /\ remote'.child = remote.child
          /\ remote'.loaded = remote.loaded /\ remote'.gateway = remote.gateway
          /\ remote'.installed = remote.installed /\ remote'.state \in {remote.state, "installing"}
          /\ remote'.desired = remote.desired /\ remote'.trusted = remote.trusted
      BY <1>1, <2>3 DEF Controller
    <3>4. Memory' = Memory
      BY <3>3 DEF Memory
    <3>5. remoteSeen.misled = FALSE => remote.child = 0
      BY <2>1 DEF RemoteInv, TunnelOwned, StartUnderWay
    <3>6. StartUnderWay(k)
      BY <2>1 DEF StartUnderWay
    <3>7. remote.installed = TRUE \/ v.at = "gateway" => remote'.installed = TRUE
      BY <1>1, <3>1, <3>3 DEF Controller
    <3>8. v.at \in {"ensure", "installing", "gateway"}
      BY <3>1
    <3> HIDE DEF at
    <3> QED  BY <1>1, <1>2, <2>1, <3>1, <3>2, <3>3, <3>4, <3>5, <3>6, <3>7, <3>8, MoveKeeps
  <2> QED  BY <1>4, <2>2, <2>3 DEF EnsureEnds
<1>5. CASE InstallEnds(k)
  <2>1. /\ remoteOps[k].at = "installing" /\ remoteOps[k].kind \in {"start", "install"}
        /\ tunnels' = tunnels /\ remembered' = remembered /\ Active(k) /\ ~StopPending(k)
    BY <1>1, <1>5 DEF InstallEnds, RemoteRest, PlacesFit, Active, StopPending, Stopping
  <2>2. CASE remoteOps[k].kind = "install"
    <3>1. PICK ok \in BOOLEAN :
            /\ remoteOps' = Answered(k)
            /\ remote' = [remote EXCEPT !.state = IF ok THEN "stopped" ELSE "error",
                                        !.installed = remote.installed \/ ok]
            /\ remoteSeen' = [remoteSeen EXCEPT !.misled = remoteSeen.misled \/ Starting # {} \/ remote.state = "running"]
      BY <1>5, <2>2 DEF InstallEnds
    <3>2. /\ remote' \in Controller /\ remote'.child = remote.child
          /\ remote'.loaded = remote.loaded /\ remote'.gateway = remote.gateway
          /\ remote.installed = TRUE => remote'.installed = TRUE
          /\ remote'.state \in {"stopped", "error"}
          /\ remote'.desired = remote.desired /\ remote'.trusted = remote.trusted
      BY <1>1, <3>1 DEF Controller
    <3>3. Memory' = Memory
      BY <3>2 DEF Memory
    <3>4. /\ remoteSeen' \in RemoteSeen /\ remoteSeen'.refused = remoteSeen.refused
          /\ remoteSeen'.behind = remoteSeen.behind /\ remoteSeen'.closed = remoteSeen.closed
          /\ remoteSeen'.misled = FALSE => /\ remoteSeen.misled = FALSE /\ Starting = {}
                                           /\ remote.state # "running"
      BY <1>1, <3>1 DEF RemoteSeen
    <3>5. remoteSeen'.misled = FALSE => remote.child = 0
      <4>1. Starting = {} => \A j \in RemoteOps : remoteOps[j].at # "race"
        BY <1>1, StartingIs DEF PlacesFit, StartUnderWay, Active
      <4> QED  BY <3>4, <4>1 DEF RemoteInv, TunnelOwned
    <3> QED  BY <1>1, <2>1, <3>1, <3>2, <3>3, <3>4, <3>5, AnswerKeeps
  <2>3. CASE remoteOps[k].kind = "start"
    <3>1. remoteSeen' = remoteSeen /\ StartUnderWay(k)
      BY <1>5, <2>1, <2>3 DEF InstallEnds, StartUnderWay
    <3>2. CASE GiveUpTunnel(k, remote, "error")
      BY <1>1, <2>1, <2>3, <3>1, <3>2, FailureKeeps
    <3>3. CASE /\ remoteOps' = Reach(k, "gateway")
               /\ remote' = [remote EXCEPT !.state = "starting", !.installed = TRUE]
      <4> DEFINE v == [remoteOps[k] EXCEPT !.at = "gateway"]
      <4>1. v \in RemoteOp /\ v.at = "gateway" /\ v.kind = "start"
        BY <1>1, <2>3 DEF RemoteOp, RemotePlaces
      <4>2. remoteOps' = [remoteOps EXCEPT ![k] = v]
        BY <1>1, <3>3 DEF Reach, RemoteTyped
      <4> HIDE DEF v
      <4>3. /\ remote' \in Controller /\ remote'.child = remote.child
            /\ remote'.loaded = remote.loaded /\ remote'.gateway = remote.gateway
            /\ remote'.installed = TRUE /\ remote'.state = "starting"
            /\ remote'.desired = remote.desired /\ remote'.trusted = remote.trusted
        BY <1>1, <3>3 DEF Controller
      <4>4. Memory' = Memory
        BY <4>3 DEF Memory
      <4>5. remoteSeen.misled = FALSE => remote.child = 0
        BY <2>1, <3>1 DEF RemoteInv, TunnelOwned
      <4> QED  BY <1>1, <1>2, <2>1, <2>3, <3>1, <4>1, <4>2, <4>3, <4>4, <4>5, MoveKeeps
    <3> QED  BY <1>5, <2>3, <3>2, <3>3 DEF InstallEnds
  <2> QED  BY <2>1, <2>2, <2>3
<1>6. CASE SpawnTunnel(k)
  <2>1. /\ remoteOps[k].at = "gateway" /\ remoteSeen' = remoteSeen
        /\ remembered' = remembered /\ Active(k) /\ remoteOps[k].kind = "start"
    BY <1>1, <1>6 DEF SpawnTunnel, Active, PlacesFit
  <2>2. CASE GiveUpTunnel(k, remote, "error") /\ tunnels' = tunnels
    BY <1>1, <2>1, <2>2, FailureKeeps
  <2> QED  BY <1>6, <2>1, <2>2, SpawnKeeps DEF SpawnTunnel
<1>7. CASE TunnelReady(k)
  <2>1. /\ remoteOps[k].at = "race" /\ remoteOps[k].kind = "start"
        /\ tunnels' = tunnels /\ remembered' = remembered /\ BeginSave(k, remote')
    BY <1>1, <1>7 DEF TunnelReady, PlacesFit, RemoteRest
  <2>2. /\ remote' \in Controller /\ remote'.child = remote.child
        /\ remote'.loaded = remote.loaded /\ remote'.gateway = remote.gateway
        /\ remote'.installed = remote.installed /\ remote'.state = "running"
    BY <1>1, <1>7 DEF TunnelReady, Controller
  <2> QED  BY <2>1, <2>2, SaveBeginKeeps
<1>8. ASSUME AttemptFails(k), remoteOps[k].kind = "start", remoteOps[k].at \in {"race", "save"},
             tunnels' = tunnels, remembered' = remembered, remoteSeen' \in RemoteSeen,
             remoteSeen'.misled = remoteSeen.misled, remoteSeen'.refused = remoteSeen.refused,
             remoteSeen'.closed = remoteSeen.closed,
             remoteSeen.behind = TRUE \/ remoteOps[k].at = "save" => remoteSeen'.behind = TRUE
      PROVE  RemoteInv'
  <2>1. PICK next \in {"retry", "error"} : GiveUpTunnel(k, remote, next)
    BY <1>8 DEF AttemptFails
  <2>2. remote.installed = TRUE
    BY <1>8 DEF RemoteInv, InstalledFirst
  <2> QED  BY <1>8, <2>1, <2>2, FailureKeeps DEF Active
<1>9. CASE RaceLost(k)
  BY <1>1, <1>8, <1>9 DEF RaceLost, PlacesFit, RemoteRest
<1>10. CASE TerminationFails(k)
  <2>1. /\ remoteOps[k].at = "kill" /\ tunnels' = tunnels /\ remembered' = remembered
        /\ remoteOps[k].child \in Tunnels /\ Active(k)
    BY <1>1, <1>10 DEF TerminationFails, RemoteRest, PlacesFit, Active, RemoteOp
  <2>2. remoteSeen' = [remoteSeen EXCEPT !.refused = remoteSeen.refused \cup {remoteOps[k].child},
                                         !.behind = remoteSeen.behind \/ remoteOps[k].next = "stop"]
    BY <1>10 DEF TerminationFails
  <2>3. /\ remoteSeen' \in RemoteSeen /\ remoteSeen'.misled = remoteSeen.misled
        /\ remoteSeen'.refused = remoteSeen.refused \cup {remoteOps[k].child}
        /\ remoteSeen'.closed = remoteSeen.closed
        /\ remoteSeen.behind = TRUE \/ remoteOps[k].next = "stop" => remoteSeen'.behind = TRUE
    BY <1>1, <2>1, <2>2 DEF RemoteSeen
  <2>4. CASE remoteOps[k].next = "retry" /\ GiveUpTunnel(k, remote, "error")
    <3>1. remoteOps[k].kind = "start"
      BY <1>1, <2>1, <2>4 DEF PlacesFit, Stopping
    <3> QED  BY <2>1, <2>3, <2>4, <3>1, FailureKeeps
  <2>5. CASE remoteOps' = Answered(k) /\ remote' = remote
    <3>1. Memory' = Memory
      BY <2>5 DEF Memory
    <3>2. remoteOps[k].child \in remoteSeen'.refused
      BY <2>3
    <3> QED  BY <1>1, <2>1, <2>3, <2>5, <3>1, <3>2, AnswerKeeps DEF StopPending
  <2> QED  BY <1>10, <2>4, <2>5 DEF TerminationFails
<1>11. CASE Unbound(k)
  <2>1. /\ remoteOps[k].at = "unbind" /\ tunnels' = tunnels /\ remembered' = remembered
        /\ Active(k) /\ Stopping(k)
    BY <1>11 DEF Unbound, RemoteRest, Active, Stopping
  <2>2. CASE /\ remoteOps[k].next = "retry"
             /\ remoteOps' = [remoteOps EXCEPT ![k] = [remoteOps[k] EXCEPT !.at = "gateway", !.attempt = 2, !.next = "stop"]]
             /\ remote' = [remote EXCEPT !.state = "starting"] /\ remoteSeen' = remoteSeen
    <3> DEFINE v == [remoteOps[k] EXCEPT !.at = "gateway", !.attempt = 2, !.next = "stop"]
    <3>0. remoteOps[k].kind = "start"
      BY <1>1, <2>1, <2>2 DEF PlacesFit
    <3>1. v \in RemoteOp /\ v.at = "gateway" /\ v.kind = "start"
      <4>1. 2 \in 1 .. 2 /\ "gateway" \in RemotePlaces /\ "stop" \in NextStages
        BY DEF RemotePlaces, NextStages
      <4> QED  BY <1>1, <3>0, <4>1 DEF RemoteOp
    <3>2. remoteOps' = [remoteOps EXCEPT ![k] = v]
      BY <2>2
    <3> HIDE DEF v
    <3>3. /\ remote' \in Controller /\ remote'.child = remote.child
          /\ remote'.loaded = remote.loaded /\ remote'.gateway = remote.gateway
          /\ remote'.installed = remote.installed /\ remote'.state = "starting"
          /\ remote'.desired = remote.desired /\ remote'.trusted = remote.trusted
      BY <1>1, <2>2 DEF Controller
    <3>4. Memory' = Memory
      BY <3>3 DEF Memory
    <3>5. StartUnderWay(k)
      BY <2>1, <3>0 DEF StartUnderWay
    <3>6. remoteSeen.misled = FALSE => remote.child = 0
      BY <2>1, <3>5 DEF RemoteInv, TunnelOwned
    <3>7. remote.installed = TRUE
      BY <2>1, <2>2 DEF RemoteInv, InstalledFirst
    <3>8. ~StopPending(k)
      BY <2>2 DEF StopPending
    <3> QED  BY <1>1, <1>2, <2>1, <2>2, <3>0, <3>1, <3>2, <3>3, <3>4, <3>5, <3>6, <3>7, <3>8, MoveKeeps
  <2>3. CASE /\ remoteOps[k].next = "error" /\ remoteOps' = Answered(k)
             /\ remote' = [remote EXCEPT !.state = "error"] /\ remoteSeen' = remoteSeen
    <3>1. /\ remote' \in Controller /\ remote'.child = remote.child
          /\ remote'.loaded = remote.loaded /\ remote'.gateway = remote.gateway
          /\ remote'.installed = remote.installed /\ remote'.state = "error"
          /\ remote'.desired = remote.desired /\ remote'.trusted = remote.trusted
      BY <1>1, <2>3 DEF Controller
    <3>2. Memory' = Memory
      BY <3>1 DEF Memory
    <3>3. StartUnderWay(k)
      BY <1>1, <2>1, <2>3 DEF StartUnderWay, PlacesFit
    <3>4. remoteSeen.misled = FALSE => remote.child = 0
      BY <2>1, <3>3 DEF RemoteInv, TunnelOwned
    <3> QED  BY <1>1, <2>1, <2>3, <3>1, <3>2, <3>4, AnswerKeeps DEF StopPending
  <2>4. CASE remoteOps[k].next = "stop" /\ StopSaves(k) /\ remote' = remote
    <3>1. remoteOps[k].kind = "stop"
      BY <1>1, <2>1, <2>4 DEF PlacesFit
    <3> QED  BY <1>1, <2>1, <2>4, <3>1, SaveBeginKeeps DEF StopSaves
  <2>5. CASE /\ remoteOps[k].next = "close" /\ remoteOps' = Answered(k)
             /\ remote' = remote /\ remoteSeen' = remoteSeen
    BY <1>1, <2>1, <2>5, AnswerKeeps DEF StopPending, Memory
  <2> QED  BY <1>11, <2>2, <2>3, <2>4, <2>5 DEF Unbound
<1>12. CASE SaveFails(k)
  <2>1. /\ remoteOps[k].at = "save" /\ tunnels' = tunnels /\ remembered' = remembered
        /\ remoteSeen' = [remoteSeen EXCEPT !.behind = TRUE] /\ Active(k)
    BY <1>12 DEF SaveFails, RemoteRest, Behind, Active
  <2>2. /\ remoteSeen' \in RemoteSeen /\ remoteSeen'.misled = remoteSeen.misled
        /\ remoteSeen'.refused = remoteSeen.refused /\ remoteSeen'.behind = TRUE
        /\ remoteSeen'.closed = remoteSeen.closed
    BY <1>1, <2>1 DEF RemoteSeen
  <2>3. CASE remoteOps[k].kind = "start"
    BY <1>8, <1>12, <2>1, <2>2, <2>3 DEF SaveFails
  <2>4. CASE remoteOps[k].kind # "start"
    <3>1. remoteOps' = Answered(k) /\ remote' = remote
      BY <1>12, <2>4 DEF SaveFails
    <3>2. Memory' = Memory
      BY <3>1 DEF Memory
    <3> QED  BY <1>1, <2>1, <2>2, <3>1, <3>2, AnswerKeeps
  <2> QED  BY <2>3, <2>4
<1> QED  BY <1>3, <1>4, <1>5, <1>6, <1>7, <1>9, <1>10, <1>11, <1>12 DEF RemoteStep

\* The invariant of the remote controller holds always, and its types.
THEOREM RemoteInvariant == RemoteMcpSpec => [](RemoteInv /\ RemoteMcpTypeOK)
<1>1. RemoteInv /\ [RemoteMcpNext]_remoteVars => RemoteInv'
  <2> SUFFICES ASSUME RemoteInv, [RemoteMcpNext]_remoteVars PROVE RemoteInv'
    OBVIOUS
  <2>1. CASE \E k \in Beginning : BeginRemote(k)
    BY <2>1, BeginKeeps DEF Beginning
  <2>2. CASE \E k \in RemoteOps : RemoteStep(k)
    BY <2>2, UnderWayKeeps
  <2>3. CASE \E t \in Tunnels : TunnelExits(t)
    BY <2>3, TunnelExitKeeps
  <2>4. CASE RemoteRestart
    BY <2>4, RemoteRestartKeeps
  <2>5. CASE UNCHANGED remoteVars
    BY <2>5 DEF remoteVars, RemoteInv, RemoteTyped, PlacesFit, OneStart, InstalledFirst, TunnelOwned,
                UnreadIsEmpty, ReadingIsEmpty, SavedOrSaving, WithinLimit, TunnelsKnown, ClosedIsQuiet,
                StartUnderWay, Active, Stopping, StopPending, Memory, Killing
  <2> QED  BY <2>1, <2>2, <2>3, <2>4, <2>5 DEF RemoteMcpNext
<1>2. RemoteInv => RemoteMcpTypeOK
  BY DEF RemoteInv, RemoteTyped, RemoteMcpTypeOK, Controller, RemoteOp, RemoteSeen
<1> QED  BY RemoteInvInit, <1>1, <1>2, PTL DEF RemoteMcpSpec

\* RemoteMcpController: for any number of requests, every cloudflared process of
\* the application that runs is the one the controller has or one that is being
\* terminated, and a close beside no start leaves none to the end of the application
\* -- save those whose termination was reported to have failed, and until an
\* installation, or the exit of an earlier tunnel, is taken for the state of the
\* present one.
THEOREM NoTunnelIsLeft == RemoteMcpSpec => []NoDuplicateTunnel
<1>1. RemoteInv => NoDuplicateTunnel
  <2> SUFFICES ASSUME RemoteInv, NEW t \in Tunnels \ remoteSeen.refused, tunnels[t] = "up", ~remoteSeen.misled
               PROVE  /\ t = remote.child \/ t \in Killing
                      /\ ~(remoteSeen.closed /\ ActiveRemote = {})
    BY DEF NoDuplicateTunnel
  <2>1. t = remote.child \/ t \in Killing
    BY DEF RemoteInv, TunnelsKnown
  <2>2. ASSUME remoteSeen.closed, ActiveRemote = {} PROVE FALSE
    <3>1. remoteSeen.closed = TRUE
      BY <2>2 DEF RemoteInv, RemoteTyped, RemoteSeen
    <3>2. remote.child = 0 /\ t # 0
      BY <3>1 DEF RemoteInv, ClosedIsQuiet, Tunnels
    <3>3. t \notin Killing
      BY <2>2 DEF Killing, ActiveRemote, Active
    <3> QED  BY <2>1, <3>2, <3>3
  <2> QED  BY <2>1, <2>2
<1> QED  BY RemoteInvariant, <1>1, PTL

\* persistState: when nothing is under way the file holds what the controller
\* shows, as many clients of it as are saved, unless the last save ran beside
\* another, before the file was read, or failed.
THEOREM SettledStateIsSaved == RemoteMcpSpec => []SettledIsSaved
<1>1. RemoteInv => SettledIsSaved
  <2> SUFFICES ASSUME RemoteInv, remote.loaded, ActiveRemote = {}, ~remoteSeen.behind
               PROVE  remembered \in Memory
    BY DEF SettledIsSaved, Memory
  <2>1. \A k \in RemoteOps : ~Active(k)
    BY DEF ActiveRemote
  <2>2. remote.loaded = TRUE /\ remoteSeen.behind = FALSE
    BY DEF RemoteInv, RemoteTyped, Controller, RemoteSeen
  <2> QED  BY <2>1, <2>2 DEF RemoteInv, SavedOrSaving, StopPending, Stopping, Active
<1> QED  BY RemoteInvariant, <1>1, PTL

-----------------------------------------------------------------------------
(* The parts of one machine                                               *)

\* A step of the machine is, for each of its parts, a step of that part or none.
LEMMA PartSteps ==
  ASSUME [PartsNext]_partVars
  PROVE  /\ [Next]_vars
         /\ [WorkspaceFilesNext]_fileVars
         /\ [SharedActivityNext]_activityVars
         /\ [RemoteMcpNext]_remoteVars
         /\ [TunnelControlNext]_tunnelVars
         /\ [DesktopExitNext]_exitVars
<1>1. CASE OtherPartsRest("goal") /\ Next
  BY <1>1 DEF OtherPartsRest
<1>2. CASE OtherPartsRest("files") /\ WorkspaceFilesNext
  BY <1>2 DEF OtherPartsRest
<1>3. CASE OtherPartsRest("activity") /\ SharedActivityNext
  BY <1>3 DEF OtherPartsRest
<1>4. CASE OtherPartsRest("remote") /\ RemoteMcpNext
  BY <1>4 DEF OtherPartsRest
<1>5. CASE OtherPartsRest("tunnel") /\ TunnelControlNext
  BY <1>5 DEF OtherPartsRest
<1>6. CASE OtherPartsRest("exit") /\ DesktopExitNext
  BY <1>6 DEF OtherPartsRest
<1>7. CASE UNCHANGED partVars
  BY <1>7 DEF partVars
<1> QED  BY <1>1, <1>2, <1>3, <1>4, <1>5, <1>6, <1>7 DEF PartsNext

\* MCDesktop: what the run composes keeps every part what it is alone.  Whatever
\* is proved of a part holds of it in the behaviours the run explores.
THEOREM PartsImplement ==
  PartsSpec => /\ Spec
               /\ WorkspaceFilesSpec
               /\ SharedActivitySpec
               /\ RemoteMcpSpec
               /\ TunnelControlSpec
               /\ DesktopExitSpec
<1>1. PartsInit => /\ Init
                   /\ WorkspaceFilesInit
                   /\ SharedActivityInit
                   /\ RemoteMcpInit
                   /\ TunnelControlInit
                   /\ DesktopExitInit
  BY DEF PartsInit
<1> QED
  BY <1>1, PartSteps, PTL DEF PartsSpec, Spec, WorkspaceFilesSpec, SharedActivitySpec,
     RemoteMcpSpec, TunnelControlSpec, DesktopExitSpec

\* The focus is one of the parts.
LEMMA FocusStays == PartsSpec => [](focus \in Parts)
<1>1. PartsInit => focus \in Parts
  BY DEF PartsInit
<1>2. focus \in Parts /\ [PartsNext]_partVars => (focus \in Parts)'
  BY DEF PartsNext, OtherPartsRest, partVars
<1> QED  BY <1>1, <1>2, PTL DEF PartsSpec

\* Every variable of every part keeps its type, each part on its own or beside
\* the others.
THEOREM PartsTypes == PartsSpec => []PartsTypeOK
<1>1. FilesInv => WorkspaceFilesTypeOK
  BY DEF FilesInv
<1>2. ActivityInv => SharedActivityTypeOK
  BY DEF ActivityInv, ShapeInv
<1>3. QuietInv => DesktopExitTypeOK
  BY DEF QuietInv, ExitTyped, DesktopExitTypeOK, Activities, Updates, Waits, Leavings, Listener
<1>4. /\ focus \in Parts /\ TypeOK /\ WorkspaceFilesTypeOK /\ SharedActivityTypeOK
      /\ RemoteMcpTypeOK /\ TunnelControlTypeOK /\ DesktopExitTypeOK
      => PartsTypeOK
  BY DEF Parts, PartsTypeOK
<1> QED
  BY <1>1, <1>2, <1>3, <1>4, PartsImplement, FocusStays, TypeCorrect, FilesInvariant,
     ActivityInvariant, RemoteInvariant, TunnelInvariant, QuietInvariant, PTL
=============================================================================
