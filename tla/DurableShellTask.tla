-------------------------- MODULE DurableShellTask --------------------------
(***************************************************************************)
(* One background shell task of DurableShellTaskStore.  Its record is a    *)
(* file, task.json, which three parties read, change in memory and write   *)
(* back without a lock: the launcher that creates it, the detached worker  *)
(* process that runs the command, and the clients that look at the task    *)
(* (snapshot, list, wait) or cancel it, possibly from another runtime than *)
(* the one that launched it.  A write is two steps, as writeFile is: the   *)
(* file is truncated, then filled.  No step is assumed to be faster than   *)
(* another, so the delays of the code appear as mere interleavings.        *)
(***************************************************************************)
EXTENDS Naturals

CONSTANTS
  Clients,  \* calls that look at the task or cancel it, at any moment
  Faults    \* what may go wrong in this instance

AllFaults == {"worker_crash", "stubborn_child", "no_executable", "write_fails", "app_stops"}

ASSUME FaultsAssumption == Faults \subseteq AllFaults

VARIABLES
  text,       \* task.json: "absent", "empty", "garbled" or "ok" (parses)
  meta,       \* the record written last, readable while text = "ok"
  published,  \* worker.pid exists
  launcher,   \* where launch stands, and whether its write has truncated
  worker,     \* where the worker stands, and whether its write has truncated
  mine,       \* the worker's own copy of the record
  child,      \* the command's process, seen from the worker
  client      \* for each client: where it stands, its operation and its copy

taskVars == <<text, meta, published, launcher, worker, mine, child, client>>

Terminal == {"completed", "failed", "timed_out", "cancelled"}
Unsettled == {"running", "termination_unverified"}
\* wpid, cpid: the record names its worker, its child.
Record == [state : Terminal \cup Unsettled, wpid : BOOLEAN, cpid : BOOLEAN]
NewRecord == [state |-> "running", wpid |-> FALSE, cpid |-> FALSE]

LauncherWrites == {"record", "fail"}
WorkerWrites == {"announce", "name", "settle"}
ClientWrites == {"mark", "write"}
Ops == {"snapshot", "cancel"}
Idle == [at |-> "idle", torn |-> FALSE, op |-> "snapshot", copy |-> NewRecord]

\* A write that has truncated belongs to a party that is writing.
Launchers == [at : {"idle", "spawn", "publish", "done", "failed", "stopped"}, torn : {FALSE}]
             \cup [at : LauncherWrites, torn : BOOLEAN]
Workers == [at : {"none", "born", "spawn", "watch", "stop", "ended", "dead"}, torn : {FALSE}]
           \cup [at : WorkerWrites, torn : BOOLEAN]
ClientStates ==
  [at : {"idle", "assess", "recheck", "reassess", "stop", "judge"}, torn : {FALSE},
   op : Ops, copy : Record]
  \cup [at : ClientWrites, torn : BOOLEAN, op : Ops, copy : Record]

ShellTaskTypeOK ==
  /\ text \in {"absent", "empty", "garbled", "ok"}
  /\ meta \in Record
  /\ published \in BOOLEAN
  /\ launcher \in Launchers
  /\ worker \in Workers
  /\ mine \in Record
  /\ child \in {"none", "running", "exited", "gone", "killed"}
  /\ client \in [Clients -> ClientStates]

ShellTaskInit ==
  /\ text = "absent" /\ meta = NewRecord /\ published = FALSE
  /\ launcher = [at |-> "idle", torn |-> FALSE]
  /\ worker = [at |-> "none", torn |-> FALSE]
  /\ mine = NewRecord
  /\ child = "none"
  /\ client = [c \in Clients |-> Idle]

-----------------------------------------------------------------------------
(* The two halves of writeFile(task.json)                                 *)

Truncate == text' = "empty" /\ UNCHANGED meta

\* A record laid over one that another writer filled after our truncation
\* parses only when it is the longer of the two.
Fill(record) ==
  /\ meta' = record
  /\ text' \in IF text = "empty" THEN {"ok"} ELSE {"ok", "garbled"}

-----------------------------------------------------------------------------
(* launch                                                                 *)

LaunchBegins ==
  /\ launcher.at = "idle"
  /\ launcher' = [launcher EXCEPT !.at = "record"]
  /\ UNCHANGED <<text, meta, published, worker, mine, child, client>>

LaunchTruncates ==
  /\ launcher.at \in LauncherWrites /\ ~launcher.torn
  /\ Truncate
  /\ launcher' = [launcher EXCEPT !.torn = TRUE]
  /\ UNCHANGED <<published, worker, mine, child, client>>

\* The record of a failed launch names the worker when one was spawned.
LaunchFills ==
  /\ launcher.torn
  /\ \/ /\ launcher.at = "record"
        /\ Fill(NewRecord)
        /\ launcher' = [at |-> "spawn", torn |-> FALSE]
     \/ /\ launcher.at = "fail"
        /\ Fill([NewRecord EXCEPT !.state = "failed", !.wpid = worker.at # "none"])
        /\ launcher' = [at |-> "failed", torn |-> FALSE]
  /\ UNCHANGED <<published, worker, mine, child, client>>

LaunchSpawns ==
  /\ launcher.at = "spawn"
  /\ launcher' = [launcher EXCEPT !.at = "publish"]
  /\ worker' = [at |-> "born", torn |-> FALSE]
  /\ UNCHANGED <<text, meta, published, mine, child, client>>

\* Mutant: the worker's identity goes into task.json.
LaunchPublishesInRecord ==
  /\ launcher.at = "publish"
  /\ Fill([NewRecord EXCEPT !.wpid = TRUE])
  /\ launcher' = [launcher EXCEPT !.at = "done"]
  /\ UNCHANGED <<published, worker, mine, child, client>>

\* worker.pid is a file of its own: task.json belongs to the worker by now.
LaunchPublishes ==
  /\ launcher.at = "publish"
  /\ published' = TRUE
  /\ launcher' = [launcher EXCEPT !.at = "done"]
  /\ UNCHANGED <<text, meta, worker, mine, child, client>>

\* A file of the launch cannot be written, before or after the spawn; the
\* record of that failure may fail too, which is swallowed.
LaunchFails ==
  /\ "write_fails" \in Faults
  /\ \/ launcher.at \in {"record", "spawn", "publish"} /\ launcher' = [at |-> "fail", torn |-> FALSE]
     \/ launcher.at = "fail" /\ launcher' = [at |-> "failed", torn |-> FALSE]
  /\ UNCHANGED <<text, meta, published, worker, mine, child, client>>

-----------------------------------------------------------------------------
(* The worker                                                             *)

WorkerAlive ==
  \/ worker.at \notin {"none", "ended", "dead"}
  \/ worker.at = "ended" /\ child = "running"  \* the child keeps it alive

Die == worker' = [at |-> "dead", torn |-> FALSE]

WorkerReads ==
  /\ worker.at = "born"
  /\ \/ /\ text = "ok"
        /\ mine' = [meta EXCEPT !.wpid = TRUE]
        /\ worker' = [worker EXCEPT !.at = "announce"]
     \/ /\ text # "ok"  \* JSON.parse throws at top level
        /\ Die /\ UNCHANGED mine
  /\ UNCHANGED <<text, meta, published, launcher, child, client>>

WorkerTruncates ==
  /\ worker.at \in WorkerWrites /\ ~worker.torn
  /\ Truncate
  /\ worker' = [worker EXCEPT !.torn = TRUE]
  /\ UNCHANGED <<published, launcher, mine, child, client>>

NextAt == [announce |-> "spawn", name |-> "watch", settle |-> "ended"]

WorkerFills ==
  /\ worker.torn
  /\ Fill(mine)
  /\ worker' = [at |-> NextAt[worker.at], torn |-> FALSE]
  /\ UNCHANGED <<published, launcher, mine, child, client>>

\* Outside the try the failure ends the worker; inside it becomes a verdict
\* on a child that keeps running; in finish it is swallowed.
WorkerWriteFails ==
  /\ "write_fails" \in Faults
  /\ \/ worker.at = "announce" /\ Die /\ UNCHANGED mine
     \/ /\ worker.at = "name"
        /\ worker' = [at |-> "settle", torn |-> FALSE]
        /\ mine' = [mine EXCEPT !.state = "failed"]
     \/ worker.at = "settle" /\ worker' = [at |-> "ended", torn |-> FALSE] /\ UNCHANGED mine
  /\ UNCHANGED <<text, meta, published, launcher, child, client>>

Settle(state) ==
  /\ worker' = [worker EXCEPT !.at = "settle"]
  /\ mine' = [mine EXCEPT !.state = state]

WorkerSpawns ==
  /\ worker.at = "spawn"
  /\ child' = "running"
  /\ mine' = [mine EXCEPT !.cpid = TRUE]
  /\ worker' = [worker EXCEPT !.at = "name"]
  /\ UNCHANGED <<text, meta, published, launcher, client>>

\* spawn throws, or reports its error in an event nobody listens for yet:
\* the event ends the worker while its write may have truncated the file.
WorkerSpawnFails ==
  /\ "no_executable" \in Faults
  /\ worker.at = "spawn"
  /\ \/ Settle("failed") /\ UNCHANGED text
     \/ Die /\ UNCHANGED mine /\ text' \in {text, "empty"}
  /\ UNCHANGED <<meta, published, launcher, child, client>>

\* The listeners are attached after the write that names the child: a close
\* event emitted during that write is lost.
CloseUnheard ==
  /\ worker.at = "name"
  /\ child = "exited"
  /\ child' = "gone"
  /\ UNCHANGED <<text, meta, published, launcher, worker, mine, client>>

CloseHeard ==
  /\ worker.at = "watch"
  /\ child = "exited"
  /\ child' = "gone"
  /\ \E state \in {"completed", "failed"} : Settle(state)
  /\ UNCHANGED <<text, meta, published, launcher, client>>

\* SIGTERM, which a stubborn child survives.
Signalled ==
  IF child # "running" THEN {child}
  ELSE {"killed"} \cup (IF "stubborn_child" \in Faults THEN {"running"} ELSE {})

\* Mutant: the timer leaves a child that already ended to its close event.
TimerDueForRunning == worker.at = "watch" /\ child = "running"

\* A close event still to be delivered comes before the deadline.
TimerDue == worker.at = "watch" /\ child \in {"running", "gone"}

TimerFires ==
  /\ TimerDue
  /\ child' \in Signalled
  /\ worker' = [worker EXCEPT !.at = "stop"]
  /\ UNCHANGED <<text, meta, published, launcher, mine, client>>

TimerJudges ==
  /\ worker.at = "stop"
  /\ Settle(IF child = "running" THEN "termination_unverified" ELSE "timed_out")
  /\ UNCHANGED <<text, meta, published, launcher, child, client>>

WorkerCrashes ==
  /\ "worker_crash" \in Faults
  /\ WorkerAlive
  /\ Die
  /\ UNCHANGED <<text, meta, published, launcher, mine, child, client>>

ChildExits ==
  /\ child = "running"
  /\ child' = "exited"
  /\ UNCHANGED <<text, meta, published, launcher, worker, mine, client>>

-----------------------------------------------------------------------------
(* Clients: reconcile, alone or as the first half of cancel               *)

Goto(c, at, copy) ==
  client' = [client EXCEPT ![c] = [at |-> at, torn |-> FALSE, op |-> @.op, copy |-> copy]]

\* What a read returns: the published pid stands in for a missing one.
Seen == [meta EXCEPT !.wpid = @ \/ published]

\* An operation that meets an unreadable or a terminal record ends at once.
ClientReads(c) ==
  /\ client[c].at = "idle"
  /\ text = "ok" /\ meta.state \in Unsettled
  /\ \E op \in Ops :
       client' = [client EXCEPT ![c] = [at |-> "assess", torn |-> FALSE, op |-> op, copy |-> Seen]]
  /\ UNCHANGED <<text, meta, published, launcher, worker, mine, child>>

\* What follows reconcile: a snapshot returns, cancel stops the processes.
Onward(c) == IF client[c].op = "cancel" THEN "stop" ELSE "idle"

ClientAssesses(c) ==
  /\ client[c].at = "assess"
  /\ Goto(c, IF client[c].copy.wpid /\ WorkerAlive THEN Onward(c) ELSE "recheck", client[c].copy)
  /\ UNCHANGED <<text, meta, published, launcher, worker, mine, child>>

\* After the delay the record is read again; the old copy serves when it is
\* unreadable.
ClientRechecks(c) ==
  /\ client[c].at = "recheck"
  /\ IF text = "ok"
       THEN Goto(c, IF meta.state \in Terminal THEN "idle" ELSE "reassess", Seen)
       ELSE Goto(c, "reassess", client[c].copy)
  /\ UNCHANGED <<text, meta, published, launcher, worker, mine, child>>

\* Mutant: the child's process is not looked at.
ReassessedBlind(c) ==
  LET copy == client[c].copy IN
  CASE copy.wpid /\ WorkerAlive -> Goto(c, Onward(c), copy)
    [] OTHER -> Goto(c, "write", [copy EXCEPT !.state = "failed"])

Reassessed(c) ==
  LET copy == client[c].copy IN
  CASE copy.wpid /\ WorkerAlive -> Goto(c, Onward(c), copy)
    [] ~(copy.wpid /\ WorkerAlive) /\ copy.cpid /\ child = "running" ->
         Goto(c, "mark", [copy EXCEPT !.state = "termination_unverified"])
    [] OTHER ->
         IF copy.state = "termination_unverified" THEN Goto(c, Onward(c), copy)
         ELSE Goto(c, "write", [copy EXCEPT !.state = "failed"])

ClientReassesses(c) ==
  /\ client[c].at = "reassess"
  /\ Reassessed(c)
  /\ UNCHANGED <<text, meta, published, launcher, worker, mine, child>>

\* SIGTERM goes to the worker's group, or to the child of a dead worker.
ClientStops(c) ==
  /\ client[c].at = "stop"
  /\ LET copy == client[c].copy IN
     \/ /\ copy.wpid /\ WorkerAlive
        /\ Die
        /\ child' \in Signalled
        /\ Goto(c, "judge", copy)
     \/ /\ ~(copy.wpid /\ WorkerAlive) /\ copy.cpid
        /\ child' \in Signalled
        /\ Goto(c, "judge", copy)
        /\ UNCHANGED worker
     \/ /\ ~(copy.wpid /\ WorkerAlive) /\ ~copy.cpid
        /\ Goto(c, "write", [copy EXCEPT !.state = "termination_unverified"])
        /\ UNCHANGED <<worker, child>>
  /\ UNCHANGED <<text, meta, published, launcher, mine>>

ClientJudges(c) ==
  /\ client[c].at = "judge"
  /\ LET copy == client[c].copy
         stopped == ~(copy.wpid /\ WorkerAlive) /\ ~(copy.cpid /\ child = "running")
     IN Goto(c, "write",
             [copy EXCEPT !.state = IF stopped THEN "cancelled" ELSE "termination_unverified"])
  /\ UNCHANGED <<text, meta, published, launcher, worker, mine, child>>

ClientTruncates(c) ==
  /\ client[c].at \in ClientWrites /\ ~client[c].torn
  /\ Truncate
  /\ client' = [client EXCEPT ![c] = [@ EXCEPT !.torn = TRUE]]
  /\ UNCHANGED <<published, launcher, worker, mine, child>>

ClientFills(c) ==
  /\ client[c].torn
  /\ Fill(client[c].copy)
  /\ Goto(c, IF client[c].at = "mark" THEN Onward(c) ELSE "idle", client[c].copy)
  /\ UNCHANGED <<published, launcher, worker, mine, child>>

ClientWriteFails(c) ==
  /\ "write_fails" \in Faults
  /\ client[c].at \in ClientWrites
  /\ Goto(c, "idle", client[c].copy)
  /\ UNCHANGED <<text, meta, published, launcher, worker, mine, child>>

\* The application that launches and looks stops; the worker is detached.
AppStops ==
  /\ "app_stops" \in Faults
  /\ launcher' = IF launcher.at \in {"idle", "done", "failed"} THEN launcher
                 ELSE [at |-> "stopped", torn |-> FALSE]
  /\ client' = [c \in Clients |-> Idle]
  /\ UNCHANGED <<text, meta, published, worker, mine, child>>

-----------------------------------------------------------------------------

LauncherStep ==
  \/ LaunchBegins \/ LaunchTruncates \/ LaunchFills
  \/ LaunchSpawns \/ LaunchPublishes \/ LaunchFails

DetachedWorkerStep ==
  \/ WorkerReads \/ WorkerTruncates \/ WorkerFills \/ WorkerWriteFails
  \/ WorkerSpawns \/ WorkerSpawnFails
  \/ CloseUnheard \/ CloseHeard \/ TimerFires \/ TimerJudges

ClientStep(c) ==
  \/ ClientReads(c) \/ ClientAssesses(c) \/ ClientRechecks(c) \/ ClientReassesses(c)
  \/ ClientStops(c) \/ ClientJudges(c)
  \/ ClientTruncates(c) \/ ClientFills(c) \/ ClientWriteFails(c)

ShellTaskNext ==
  \/ LauncherStep
  \/ DetachedWorkerStep
  \/ WorkerCrashes
  \/ ChildExits
  \/ \E c \in Clients : ClientStep(c)
  \/ AppStops

ShellTaskSpec == ShellTaskInit /\ [][ShellTaskNext]_taskVars

\* The event loop of a live worker runs; the child, the clients and the
\* faults owe nothing.
ShellTaskFairSpec == ShellTaskSpec /\ WF_taskVars(DetachedWorkerStep)

-----------------------------------------------------------------------------
(* Properties                                                             *)

\* A verdict the worker wrote is never followed by a record that says the
\* task is running: launcher and clients write their older copies only with
\* a state that is not "running".
CompletionStands == [][meta.state \in {"completed", "timed_out"} => meta'.state # "running"]_taskVars

\* Nobody decides a final state over a child it knows of and that still runs:
\* not reconcile when the worker is dead, not cancel after its signal, not the
\* worker at its deadline.
NoVerdictOverLiveChild ==
  /\ \A c \in Clients :
       /\ client[c].at \in ClientWrites
       /\ client[c].copy.state \in Terminal
       /\ client[c].copy.cpid
       => child # "running"
  /\ mine.state \in {"completed", "timed_out"} => child # "running"

\* A worker that was started reaches its verdict or its end, even when it
\* missed the close event of its child: the timer catches what the listener
\* did not.
EveryTaskSettles == worker.at = "born" ~> worker.at \in {"ended", "dead"}

\* A task is recorded as timed out only when its deadline stopped it, not when
\* its command ended by itself.
TimedOutMeansKilled == meta.state = "timed_out" => child = "killed"
=============================================================================
