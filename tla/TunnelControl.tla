--------------------------- MODULE TunnelControl ---------------------------
(***************************************************************************)
(* The tunnel of one desktop: TunnelController with its queue of starts    *)
(* and stops, the supervisor and reconciler of the native runtime (an      *)
(* alias that outlives the desktop), the profile child with its automatic  *)
(* restart, and the durable intent of the user.  Timers, reconciles and    *)
(* restarts run beside the queue.                                          *)
(***************************************************************************)
EXTENDS Naturals, Sequences

CONSTANTS
  MaxJobs,       \* bound: starts and stops queued at once
  TunnelFaults   \* "cli_error", "child_exit", "crash"

ASSUME TunnelAssumption ==
  /\ MaxJobs \in Nat \ {0}
  /\ TunnelFaults \subseteq {"cli_error", "child_exit", "crash"}

VARIABLES
  intent,    \* durable: the desired state, and whether an owner is recorded
  tunnel,    \* settings and fields of the controller
  jobs,      \* lifecycleTail: the starts and stops still to end, in order
  watch,     \* the supervisor and the reconcile it has in flight
  stray,     \* a reconcile in flight of a supervisor that is disposed
  restart,   \* unexpected exits being read, the restart timer, repairs before a spawn
  clients,   \* the tunnel clients of this profile that run: the alias, the child, a child
             \* forgotten (bound: one), and whether some are not of this desktop
  launch,    \* where the automatic start and the exit of the desktop stand
  held       \* history: a stop or an exit has succeeded, no start was asked for since

tunnelVars == <<intent, tunnel, jobs, watch, stray, restart, clients, launch, held>>

Reconciles == {"none", "look", "connect"}
Job == [op : {"start", "stop"}, aborted : BOOLEAN, replace : BOOLEAN, external : BOOLEAN,
        at : {"queued", "kick", "probe", "native", "connect", "child", "halt", "kill", "persist"}]

TunnelControlTypeOK ==
  /\ intent \in [desired : {"running", "stopped"}, owner : BOOLEAN]
  /\ tunnel \in [native : BOOLEAN, auto : BOOLEAN, mode : {"none", "native", "child"},
                 intentional : BOOLEAN, dirty : BOOLEAN, key : BOOLEAN, lock : BOOLEAN]
  /\ Len(jobs) \in 0 .. MaxJobs /\ \A i \in 1 .. Len(jobs) : jobs[i] \in Job
  /\ watch \in [on : BOOLEAN, running : BOOLEAN, timer : BOOLEAN, reconcile : Reconciles]
  /\ stray \in Reconciles
  /\ restart \in [exits : 0 .. 1, timer : BOOLEAN, repairs : 0 .. 1]
  /\ clients \in [alias : {"absent", "down", "running"}, child : BOOLEAN, forgotten : BOOLEAN,
                 others : 0 .. 1]
  /\ launch \in {"due", "checking", "done", "closing", "closed"}
  /\ held \in [stopped : BOOLEAN, overlapped : BOOLEAN, exited : BOOLEAN]

NoWatch == [on |-> FALSE, running |-> FALSE, timer |-> FALSE, reconcile |-> "none"]
NotHeld == [stopped |-> FALSE, overlapped |-> FALSE, exited |-> FALSE]
FreshController(native, auto) ==
  [native |-> native, auto |-> auto, mode |-> "none", intentional |-> FALSE,
   dirty |-> FALSE, key |-> FALSE, lock |-> FALSE]

\* native: the client supports a managed connect; auto: tunnelAutoReconnect.
TunnelControlInit ==
  /\ intent = [desired |-> "running", owner |-> FALSE]
  /\ \E native, auto \in BOOLEAN : tunnel = FreshController(native, auto)
  /\ jobs = <<>> /\ watch = NoWatch /\ stray = "none"
  /\ restart = [exits |-> 0, timer |-> FALSE, repairs |-> 0]
  /\ clients = [alias |-> "absent", child |-> FALSE, forgotten |-> FALSE, others |-> 0]
  /\ launch = "due" /\ held = NotHeld

AnyClient ==
  clients.child \/ clients.forgotten \/ clients.others > 0 \/ clients.alias = "running"

-----------------------------------------------------------------------------
(* The queue                                                              *)

JobAt(place) == jobs # <<>> /\ jobs[1].at = place
GoOn(place) == jobs' = [jobs EXCEPT ![1].at = place]
JobEnds == jobs' = Tail(jobs)
NewJob(op, replace) ==
  [op |-> op, aborted |-> FALSE, replace |-> replace, external |-> FALSE, at |-> "queued"]

\* startWithIntent: a start in flight that is not aborted is shared.
AskStart(replace) ==
  /\ Len(jobs) < MaxJobs
  /\ held' = NotHeld
  /\ jobs' = IF \E i \in 1 .. Len(jobs) : jobs[i].op = "start" /\ ~jobs[i].aborted THEN jobs
             ELSE Append(jobs, NewJob("start", replace))

StartsAborted ==
  [i \in 1 .. Len(jobs) |-> [jobs[i] EXCEPT !.aborted = @ \/ jobs[i].op = "start"]]

\* requestStop: a stop in flight is shared, a start is aborted.
RequestStop ==
  /\ Len(jobs) < MaxJobs
  /\ tunnel' = [tunnel EXCEPT !.intentional = TRUE]
  /\ restart' = [restart EXCEPT !.timer = FALSE]
  /\ jobs' = IF \E i \in 1 .. Len(jobs) : jobs[i].op = "stop" THEN StartsAborted
             ELSE Append(StartsAborted, NewJob("stop", FALSE))
  /\ UNCHANGED held

UserStart ==
  /\ intent' = [intent EXCEPT !.desired = "running"]
  /\ AskStart(TRUE)
  /\ UNCHANGED <<tunnel, watch, stray, restart, clients, launch>>

UserStop ==
  /\ intent' = [intent EXCEPT !.desired = "stopped"]
  /\ RequestStop
  /\ UNCHANGED <<watch, stray, clients, launch>>

\* autoStartPersistentTunnel: a durable stop is enforced after a look at the
\* status; else the tunnel is started, not replacing a configuration.
Launch ==
  /\ launch = "due"
  /\ IF intent.desired = "stopped" THEN launch' = "checking" /\ UNCHANGED <<jobs, held>>
     ELSE /\ launch' = "done"
          /\ IF tunnel.auto /\ ~tunnel.intentional THEN AskStart(FALSE) ELSE UNCHANGED <<jobs, held>>
  /\ UNCHANGED <<intent, tunnel, watch, stray, restart, clients>>

LaunchChecked ==
  /\ launch = "checking" /\ launch' = "done"
  /\ IF AnyClient \/ intent.owner THEN RequestStop ELSE UNCHANGED <<tunnel, restart, jobs, held>>
  /\ UNCHANGED <<intent, watch, stray, clients>>

-----------------------------------------------------------------------------
(* The supervisor                                                         *)

\* disposeRuntimeSupervisor, with the reconcile it may leave in flight.
Disposed ==
  /\ watch.reconcile = "none" \/ stray = "none"
  /\ watch' = NoWatch
  /\ stray' = IF watch.reconcile = "none" THEN stray ELSE watch.reconcile

\* runOnce: joins a reconcile in flight.
Kicked(w) == [w EXCEPT !.on = TRUE, !.running = TRUE, !.timer = FALSE,
                       !.reconcile = IF @ = "none" THEN "look" ELSE @]

WatchTimer ==
  /\ watch.timer
  /\ watch' = [watch EXCEPT !.timer = FALSE, !.reconcile = IF @ = "none" THEN "look" ELSE @]
  /\ UNCHANGED <<intent, tunnel, jobs, stray, restart, clients, launch, held>>

\* The reconcile of the supervisor ends, and so does the start that waits for
\* it: "ready", "retry", "operator" (also an authentication failure), or
\* "rejected", when the desktop's own server is not available.
ReconcileEnds(result) ==
  LET waited == JobAt("kick") \/ JobAt("connect")
      first == JobAt("connect") /\ ~jobs[1].aborted IN
    /\ watch' = [watch EXCEPT !.reconcile = "none",
                              !.timer = watch.running /\ result \in {"ready", "retry"}]
    /\ IF waited THEN JobEnds ELSE UNCHANGED jobs
    /\ intent' = IF first /\ result # "rejected" THEN [intent EXCEPT !.owner = TRUE] ELSE intent
    /\ tunnel' = [tunnel EXCEPT
         !.dirty = IF first /\ result = "ready" THEN FALSE ELSE @,
         !.key = IF waited /\ (jobs[1].aborted \/ result = "rejected") THEN FALSE ELSE @,
         !.lock = IF waited /\ (jobs[1].aborted \/ result = "rejected") THEN @ /\ clients.child ELSE @]

LookAtAlias ==
  /\ watch.reconcile = "look"
  /\ \/ /\ clients.alias = "running"
        /\ ReconcileEnds("ready")
     \/ /\ watch' = [watch EXCEPT !.reconcile = "connect"]
        /\ UNCHANGED <<intent, tunnel, jobs>>
     \/ /\ "cli_error" \in TunnelFaults
        /\ \E result \in {"retry", "operator", "rejected"} : ReconcileEnds(result)
  /\ UNCHANGED <<stray, restart, clients, launch, held>>

\* connect returns, after the alias came up or not.
ConnectAlias ==
  /\ watch.reconcile = "connect"
  /\ \/ /\ clients' = [clients EXCEPT !.alias = "running"]
        /\ ReconcileEnds("ready")
     \/ /\ "cli_error" \in TunnelFaults
        /\ clients' \in {clients, [clients EXCEPT !.alias = "running"]}
        /\ \E result \in {"retry", "operator"} : ReconcileEnds(result)
  /\ UNCHANGED <<stray, restart, launch, held>>

\* A reconcile nobody listens to goes on all the same.
StrayGoesOn ==
  /\ \/ stray = "look" /\ stray' = "connect" /\ UNCHANGED clients
     \/ stray = "look" /\ stray' = "none" /\ UNCHANGED clients
     \/ /\ stray = "connect" /\ stray' = "none"
        /\ clients' \in {clients, [clients EXCEPT !.alias = "running"]}
  /\ UNCHANGED <<intent, tunnel, jobs, watch, restart, launch, held>>

-----------------------------------------------------------------------------
(* startOnce                                                              *)

StartJob ==
  /\ JobAt("queued") /\ jobs[1].op = "start"
  /\ tunnel' = [tunnel EXCEPT !.intentional = FALSE,
                  !.key = IF jobs[1].aborted THEN FALSE ELSE @,
                  !.lock = IF jobs[1].aborted THEN @ /\ clients.child ELSE @]
  /\ restart' = [restart EXCEPT !.timer = FALSE]
  /\ LET supervised == tunnel.mode = "native" /\ watch.on IN
       CASE jobs[1].aborted -> JobEnds /\ UNCHANGED watch
         [] ~jobs[1].aborted /\ supervised /\ tunnel.auto -> GoOn("kick") /\ watch' = Kicked(watch)
         [] OTHER -> /\ IF clients.child THEN JobEnds ELSE GoOn("probe")
                     /\ watch' = IF supervised THEN [watch EXCEPT !.running = TRUE, !.timer = FALSE]
                                 ELSE watch
  /\ UNCHANGED <<intent, stray, clients, launch, held>>

\* StartCancelledError, or an error: the lock goes unless a child lives.
StartFails == JobEnds /\ tunnel' = [tunnel EXCEPT !.key = FALSE, !.lock = @ /\ clients.child]

\* probeExternalRunning is skipped for a holder of the lock.
ProbeRunning ==
  /\ JobAt("probe")
  /\ \/ /\ jobs[1].aborted /\ StartFails
     \/ /\ ~jobs[1].aborted
        /\ jobs' = [jobs EXCEPT ![1] = [@ EXCEPT !.at = "native", !.external = AnyClient /\ ~tunnel.lock]]
        /\ UNCHANGED tunnel
     \/ \* its liveness is unverifiable, and so the start refuses
        /\ "cli_error" \in TunnelFaults /\ ~tunnel.lock /\ JobEnds /\ UNCHANGED tunnel
  /\ UNCHANGED <<intent, watch, stray, restart, clients, launch, held>>

\* tryStartNativeManagedRuntime up to the first reconcile: an alias whose
\* configuration changed is stopped first; one that does not exist is not
\* created beside a client that runs.
StartNative ==
  /\ JobAt("native") /\ tunnel.native
  /\ LET exists == clients.alias # "absent"
         replaced == jobs[1].replace /\ tunnel.dirty /\ clients.alias = "running" IN
       \/ /\ jobs[1].aborted /\ StartFails
          /\ UNCHANGED <<watch, stray, clients>>
       \/ /\ ~jobs[1].aborted /\ ~exists /\ jobs[1].external
          /\ JobEnds /\ tunnel' = [tunnel EXCEPT !.key = TRUE]
          /\ UNCHANGED <<watch, stray, clients>>
       \/ /\ ~jobs[1].aborted /\ (exists \/ ~jobs[1].external)
          /\ clients' = IF replaced THEN [clients EXCEPT !.alias = "down"] ELSE clients
          /\ watch.reconcile = "none" \/ stray = "none"
          /\ stray' = IF watch.reconcile = "none" THEN stray ELSE watch.reconcile
          /\ watch' = IF tunnel.auto THEN Kicked(NoWatch) ELSE NoWatch
          /\ tunnel' = [tunnel EXCEPT !.key = TRUE,
                          !.mode = IF tunnel.auto THEN "native" ELSE IF @ = "native" THEN "none" ELSE @]
          /\ GoOn(IF tunnel.auto THEN "connect" ELSE "child")
       \/ \* status or stop of the alias fails
          /\ "cli_error" \in TunnelFaults /\ ~jobs[1].aborted
          /\ JobEnds /\ tunnel' = [tunnel EXCEPT !.key = TRUE]
          /\ UNCHANGED <<watch, stray, clients>>
  /\ UNCHANGED <<intent, restart, launch, held>>

NoNative ==
  /\ JobAt("native") /\ ~tunnel.native
  /\ IF jobs[1].aborted THEN StartFails
     ELSE GoOn("child") /\ tunnel' = [tunnel EXCEPT !.key = TRUE]
  /\ UNCHANGED <<intent, watch, stray, restart, clients, launch, held>>

\* spawnRun: the new child takes the place of one that may still run, and
\* that no stop and no exit of this desktop will find again.
Spawned ==
  /\ ~clients.child \/ ~clients.forgotten
  /\ clients' = [clients EXCEPT !.child = TRUE, !.forgotten = @ \/ clients.child]
  /\ intent' = [intent EXCEPT !.owner = TRUE]

\* The profile child: not beside a client found running; the lock, the
\* prerequisites, the profile and the doctor first, with a look at the signal
\* after each.
StartChild ==
  /\ JobAt("child")
  /\ \/ /\ jobs[1].aborted /\ StartFails
        /\ UNCHANGED <<intent, clients>>
     \/ /\ ~jobs[1].aborted /\ jobs[1].external
        /\ JobEnds /\ UNCHANGED <<intent, tunnel, clients>>
     \/ /\ ~jobs[1].aborted /\ ~jobs[1].external
        /\ Spawned /\ JobEnds
        /\ tunnel' = [tunnel EXCEPT !.lock = TRUE, !.mode = "child", !.dirty = FALSE]
     \/ \* a foreign owner of the lock, or a prerequisite is missing
        /\ "cli_error" \in TunnelFaults /\ ~jobs[1].aborted /\ ~jobs[1].external
        /\ StartFails /\ UNCHANGED <<intent, clients>>
  /\ UNCHANGED <<watch, stray, restart, launch, held>>

-----------------------------------------------------------------------------
(* stopOnce                                                               *)

StopJob ==
  /\ JobAt("queued") /\ jobs[1].op = "stop"
  /\ IF tunnel.mode = "native" /\ watch.on
     THEN /\ GoOn("halt") /\ watch' = [watch EXCEPT !.running = FALSE, !.timer = FALSE]
          /\ UNCHANGED <<tunnel, restart>>
     ELSE /\ GoOn(IF clients.child THEN "kill" ELSE "persist")
          /\ tunnel' = [tunnel EXCEPT !.intentional = TRUE]
          /\ restart' = [restart EXCEPT !.timer = FALSE] /\ UNCHANGED watch
  /\ UNCHANGED <<intent, stray, clients, launch, held>>

\* What a stop that succeeds leaves to be held: nothing runs, unless a
\* reconcile, a client that is not of this desktop or a child that a second
\* spawn has made it forget is still about, or the desktop is exiting (shutdownForDesktopExit forgets the mode of a start that
\* overtook it, and with it the supervisor a later stop would dispose).
StopSucceeds ==
  /\ JobEnds
  /\ intent' = [intent EXCEPT !.owner = FALSE]
  /\ held' = [held EXCEPT
       !.stopped = \A i \in 2 .. Len(jobs) : jobs[i].op # "start" \/ jobs[i].aborted,
       !.overlapped = \/ watch.reconcile # "none" \/ stray # "none"
                      \/ clients.forgotten \/ clients.others > 0
                      \/ launch \in {"closing", "closed"}]

\* stopRuntime: the alias is seen not to run, or the stop fails and the
\* supervisor stays.
Halt ==
  /\ JobAt("halt")
  /\ \/ /\ clients' = [clients EXCEPT !.alias = IF @ = "running" THEN "down" ELSE @]
        /\ Disposed /\ StopSucceeds
        /\ tunnel' = [tunnel EXCEPT !.mode = "none", !.key = FALSE]
     \/ /\ "cli_error" \in TunnelFaults
        /\ JobEnds /\ UNCHANGED <<intent, tunnel, watch, stray, clients, held>>
  /\ UNCHANGED <<restart, launch>>

\* killOwnedChild: the child is gone, or ownership is retained.
Kill ==
  /\ JobAt("kill")
  /\ \/ GoOn("persist") /\ clients' = [clients EXCEPT !.child = FALSE]
     \/ "cli_error" \in TunnelFaults /\ clients.child /\ JobEnds /\ UNCHANGED clients
  /\ UNCHANGED <<intent, tunnel, watch, stray, restart, launch, held>>

\* stopPersistedNativeRuntimeIfOwned: a native runtime that survived is
\* stopped; a recorded owner is cleared only when nothing runs any more.
Persist ==
  /\ JobAt("persist")
  /\ LET down == IF tunnel.native /\ clients.alias = "running" THEN "down" ELSE clients.alias
         survivors == \/ clients.others > 0 \/ clients.forgotten
                      \/ clients.child \/ down = "running" IN
       \/ /\ intent.owner => ~survivors
          /\ clients' = [clients EXCEPT !.alias = down]
          /\ StopSucceeds
          /\ tunnel' = [tunnel EXCEPT !.mode = "none", !.key = FALSE, !.lock = FALSE]
       \/ /\ (intent.owner /\ survivors) \/ "cli_error" \in TunnelFaults
          /\ clients' \in {clients, [clients EXCEPT !.alias = down]}
          /\ JobEnds /\ UNCHANGED <<intent, tunnel, held>>
  /\ UNCHANGED <<watch, stray, restart, launch>>

-----------------------------------------------------------------------------
(* Beside the queue                                                       *)

\* A saved key or profile: applied by the next explicit start.
SaveConfiguration ==
  /\ ~tunnel.dirty
  /\ tunnel' = [tunnel EXCEPT !.key = FALSE, !.dirty = TRUE,
                              !.mode = IF @ = "native" THEN "none" ELSE @]
  /\ IF tunnel.mode = "native" THEN Disposed ELSE UNCHANGED <<watch, stray>>
  /\ UNCHANGED <<intent, jobs, restart, clients, launch, held>>

\* The child exits: expected when a stop was asked for.
ChildExit ==
  /\ "child_exit" \in TunnelFaults /\ clients.child
  /\ clients' = [clients EXCEPT !.child = FALSE]
  /\ tunnel.intentional \/ restart.exits = 0
  /\ restart' = IF tunnel.intentional THEN restart ELSE [restart EXCEPT !.exits = 1]
  /\ UNCHANGED <<intent, tunnel, jobs, watch, stray, launch, held>>

\* A forgotten child exits, and its handler does the same: the restart it
\* asks for finds a child that runs.
ForgottenExit ==
  /\ "child_exit" \in TunnelFaults /\ clients.forgotten
  /\ clients' = [clients EXCEPT !.forgotten = FALSE]
  /\ tunnel.intentional \/ restart.exits = 0
  /\ restart' = IF tunnel.intentional THEN restart ELSE [restart EXCEPT !.exits = 1]
  /\ UNCHANGED <<intent, tunnel, jobs, watch, stray, launch, held>>

\* applyUnexpectedExit, after the log was read.
ExitRead ==
  /\ restart.exits = 1
  /\ IF tunnel.auto /\ intent.desired = "running"
     THEN restart' = [restart EXCEPT !.exits = 0, !.timer = @ \/ ~tunnel.intentional] /\ UNCHANGED intent
     ELSE restart' = [restart EXCEPT !.exits = 0] /\ intent' = [intent EXCEPT !.owner = FALSE]
  /\ UNCHANGED <<tunnel, jobs, watch, stray, clients, launch, held>>

\* Mutant: a restart looks at nothing.
MayRestartAnyway == TRUE
\* The guard of a restart, looked at when the timer fires and again when the
\* profile has been repaired.
MayRestart == ~tunnel.intentional /\ tunnel.key

RestartTimer ==
  /\ restart.timer
  /\ restart' = [restart EXCEPT !.timer = FALSE, !.repairs = IF MayRestart THEN 1 ELSE @]
  /\ UNCHANGED <<intent, tunnel, jobs, watch, stray, clients, launch, held>>

Repaired ==
  /\ restart.repairs = 1
  /\ restart' = [restart EXCEPT !.repairs = 0]
  /\ \/ MayRestart /\ Spawned
     \/ ~MayRestart /\ UNCHANGED <<intent, clients>>
  /\ UNCHANGED <<tunnel, jobs, watch, stray, launch, held>>

\* shutdownForDesktopExit, beside the queue: a native runtime is left to the
\* next desktop, a child has to be seen to end.
Exit ==
  /\ launch = "done"
  /\ tunnel' = [tunnel EXCEPT !.intentional = TRUE, !.mode = IF @ = "native" THEN "none" ELSE @]
  /\ restart' = [restart EXCEPT !.timer = FALSE]
  /\ jobs' = StartsAborted
  /\ IF tunnel.mode = "native"
     THEN Disposed /\ launch' = "closed"
     ELSE launch' = "closing" /\ UNCHANGED <<watch, stray>>
  /\ held' = [held EXCEPT !.exited = TRUE]
  /\ UNCHANGED <<intent, clients>>

ExitKill ==
  /\ launch = "closing"
  /\ \/ /\ clients' = [clients EXCEPT !.child = FALSE]
        /\ tunnel' = [tunnel EXCEPT !.lock = FALSE, !.mode = "none"]
        /\ intent' = [intent EXCEPT !.owner = FALSE]
        /\ launch' = "closed" /\ UNCHANGED held
     \/ \* the exit is deferred
        /\ "cli_error" \in TunnelFaults /\ launch' = "done"
        /\ held' = [held EXCEPT !.exited = FALSE]
        /\ UNCHANGED <<intent, tunnel, clients>>
  /\ UNCHANGED <<jobs, watch, stray, restart>>

\* The desktop has exited or died and is started again: what is durable, and
\* the clients, stay; a connect already issued may still take effect.
Relaunch ==
  /\ "crash" \in TunnelFaults \/ launch = "closed"
  /\ tunnel' = FreshController(tunnel.native, tunnel.auto)
  /\ jobs' = <<>> /\ watch' = NoWatch
  /\ stray' = IF watch.reconcile = "connect" \/ stray = "connect" THEN "connect" ELSE "none"
  /\ restart' = [exits |-> 0, timer |-> FALSE, repairs |-> 0]
  /\ clients' = [clients EXCEPT !.child = FALSE, !.forgotten = FALSE,
                  !.others = IF clients.child \/ clients.forgotten THEN 1 ELSE @]
  /\ launch' = "due" /\ held' = NotHeld
  /\ UNCHANGED intent

-----------------------------------------------------------------------------

TunnelControlNext ==
  \/ UserStart \/ UserStop \/ Launch \/ LaunchChecked
  \/ WatchTimer \/ LookAtAlias \/ ConnectAlias \/ StrayGoesOn
  \/ StartJob \/ ProbeRunning \/ StartNative \/ NoNative \/ StartChild
  \/ StopJob \/ Halt \/ Kill \/ Persist
  \/ SaveConfiguration \/ ChildExit \/ ForgottenExit \/ ExitRead \/ RestartTimer \/ Repaired
  \/ Exit \/ ExitKill \/ Relaunch

TunnelControlSpec == TunnelControlInit /\ [][TunnelControlNext]_tunnelVars

-----------------------------------------------------------------------------
(* Properties                                                             *)

\* A stop that succeeded holds: until somebody asks for a start, no client of
\* this profile runs again, by a timer, a restart or a supervisor, unless, when
\* it succeeded, a reconcile was in flight, a client of another desktop ran, the
\* exit had begun, or a child ran that the desktop had forgotten; and a desktop
\* that has exited, with no start since its exit began, left no child it still
\* knows behind.  A forgotten child is one a second spawn overwrote (a restart
\* that was repairing the profile while an explicit start spawned, or the other
\* way round: line 740 keeps one child only); stops and exits miss it, and it is
\* excepted from both parts by name.  (stopOnce, shutdownForDesktopExit, scheduleRestart:
\* tunnel-controller.ts:512-563, 801-818)
StopHolds == /\ held.stopped /\ ~held.overlapped => ~AnyClient
             /\ held.exited /\ launch = "closed" => ~clients.child
=============================================================================
