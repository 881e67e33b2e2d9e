---------------------------- MODULE ShellCommand ----------------------------
(***************************************************************************)
(* One command the shell capability runs in memory on Windows, and those   *)
(* who may want its end: the caller whose request is aborted, the timeout, *)
(* a user (the shell tool or tasks/cancel) and the cancellation of the     *)
(* goal that tracks it.  They share one attempt at a time to end the       *)
(* process tree; an attempt that proves nothing leaves the command         *)
(* termination_unverified.                                                 *)
(***************************************************************************)
EXTENDS Naturals

CONSTANT
  CommandFaults   \* "restart": the runtime that holds the record ends

ASSUME CommandAssumption == CommandFaults \subseteq {"restart"}

VARIABLES
  command,   \* the record and the processes
  askers,    \* where those stand who wait for the command or its end
  told,      \* the state each of them was answered with
  ending     \* the attempt to end the tree

commandVars == <<command, askers, told, ending>>

Askers == {"run", "user", "goal"}
EndedStates == {"completed", "failed", "timed_out", "cancelled"}
StopStates == {"timed_out", "cancelled"}
\* Of the root: "unborn" has no pid and its error event is due, "gone" has ended
\* unnoticed, "exited" has an exit code, "closed" has had its close event.
Roots == {"none", "unborn", "live", "gone", "exited", "closed"}
\* tree: something of the command still runs.  raced: the exit of the root became
\* known during the attempt that could not find it.  unproved: the root ended, by
\* itself or by a taskkill that reported a failure.
Command == [root : Roots, tree : BOOLEAN,
            state : {"none", "running", "termination_unverified", "lost"} \cup EndedStates,
            target : StopStates \cup {"none"},
            accepted : BOOLEAN, raced : BOOLEAN, unproved : BOOLEAN]
\* waiting: for its synchronous wait or the completion; asking: for the shared
\* attempt; delaying: until it tries again.  aims: the state cancel asks for.
Asker == [at : {"idle", "waiting", "asking", "delaying", "answered"},
          aborted : BOOLEAN, aims : StopStates]

ShellCommandTypeOK ==
  /\ command \in Command
  /\ askers \in [Askers -> Asker]
  /\ told \in [Askers -> {"nothing", "running", "termination_unverified", "skipped",
                          "not_found"} \cup EndedStates]
  /\ ending \in {"none", "killing", "exiting", "racing"}

ShellCommandInit ==
  /\ command = [root |-> "none", tree |-> FALSE, state |-> "none", target |-> "none",
                accepted |-> FALSE, raced |-> FALSE, unproved |-> FALSE]
  /\ askers = [a \in Askers |-> [at |-> "idle", aborted |-> FALSE, aims |-> "cancelled"]]
  /\ told = [a \in Askers |-> "nothing"]
  /\ ending = "none"

-----------------------------------------------------------------------------

\* isVerifiedTerminal
CommandEnded == command.state \in EndedStates
ExitKnown == command.root \in {"exited", "closed"}

Stands(a, place) == [askers EXCEPT ![a].at = place]
AnswersWith(a, state) ==
  /\ askers' = Stands(a, "answered")
  /\ told' = [told EXCEPT ![a] = state]

\* finish: those who wait for the completion or the attempt are answered; the
\* aborted request comes back once more after its delay.
FinishedAskers ==
  [a \in Askers |->
    CASE askers[a].at = "asking" -> [askers[a] EXCEPT !.at = "answered"]
      [] askers[a].at = "waiting" ->
           [askers[a] EXCEPT !.at = IF askers[a].aborted THEN "delaying" ELSE "answered"]
      [] OTHER -> askers[a]]
Finish(record, state) ==
  /\ command' = [record EXCEPT !.state = state, !.target = "none"]
  /\ askers' = FinishedAskers
  /\ told' = [a \in Askers |->
                IF FinishedAskers[a].at = "answered" /\ askers[a].at # "answered"
                  THEN state ELSE told[a]]

\* Mutant: the aborted request does not try again.
AfterFailureWaits(a) == IF a = "goal" THEN "answered" ELSE "waiting"

\* An attempt that proved nothing: the goal is answered, the aborted request
\* tries again unless the root has ended, the others wait for the completion.
AfterFailure(a) ==
  CASE a = "goal" -> "answered"
    [] a = "run" /\ ~ExitKnown -> "delaying"
    [] OTHER -> "waiting"
NotEnded(record, asking) ==
  /\ command' = [record EXCEPT !.state = "termination_unverified", !.raced = FALSE]
  /\ askers' = [a \in Askers |-> IF asking[a].at = "asking"
                                   THEN [asking[a] EXCEPT !.at = AfterFailure(a)] ELSE asking[a]]
  /\ told' = IF asking["goal"].at = "asking"
               THEN [told EXCEPT !["goal"] = "termination_unverified"] ELSE told

-----------------------------------------------------------------------------
(* The command                                                            *)

\* run: in the background it is answered at once.
LaunchCommand ==
  /\ command.state = "none"
  /\ \E root \in {"unborn", "live"} :
       command' = [command EXCEPT !.root = root, !.tree = (root = "live"), !.state = "running"]
  /\ \/ askers' = Stands("run", "waiting") /\ UNCHANGED told
     \/ AnswersWith("run", "running")
  /\ UNCHANGED ending

\* The error event of a spawn that failed: whoever asked for the end has it.
SpawnFails ==
  /\ command.root = "unborn"
  /\ LET unborn == [command EXCEPT !.root = "closed"] IN
       IF command.state = "lost" THEN command' = unborn /\ UNCHANGED <<askers, told>>
       ELSE Finish(unborn, IF command.target # "none" THEN command.target ELSE "failed")
  /\ UNCHANGED ending

\* The root ends by itself, with or without its descendants.
RootEnds ==
  /\ command.root = "live"
  /\ \E tree \in BOOLEAN :
       command' = [command EXCEPT !.root = "gone", !.tree = tree, !.unproved = TRUE]
  /\ UNCHANGED <<askers, told, ending>>

DescendantsEnd ==
  /\ command.tree /\ command.root \in {"gone", "exited", "closed"}
  /\ command' = [command EXCEPT !.tree = FALSE]
  /\ UNCHANGED <<askers, told, ending>>

ExitEvent ==
  /\ command.root = "gone"
  /\ command' = [command EXCEPT !.root = "exited", !.raced = ending \in {"killing", "racing"}]
  /\ UNCHANGED <<askers, told, ending>>

\* The close event counts only while nobody has asked for the end.
CloseSeen ==
  /\ command.root = "exited"
  /\ LET closed == [command EXCEPT !.root = "closed"] IN
       IF command.state = "running" /\ ending = "none"
         THEN \E state \in {"completed", "failed"} : Finish(closed, state)
         ELSE command' = closed /\ UNCHANGED <<askers, told>>
  /\ UNCHANGED ending

-----------------------------------------------------------------------------
(* Those who want its end                                                 *)

\* Mutant: a root that has ended passes for a tree that has.
TreeUnprovableNever == FALSE

\* Nothing can be proved of a command without a pid, nor of descendants once
\* the root has ended by itself.
TreeUnprovable == ~command.accepted /\ (command.root = "unborn" \/ ExitKnown)

\* performTermination, up to its first await; `asking` has the asker in it.
BeginEnding(target, asking) ==
  LET record == [command EXCEPT !.target = target] IN
  IF TreeUnprovable
    THEN NotEnded(record, asking) /\ UNCHANGED ending
    ELSE /\ command' = record /\ askers' = asking
         /\ ending' = (IF command.accepted THEN "exiting" ELSE "killing")
         /\ UNCHANGED told

\* tryTerminate: join the attempt under way, or begin one.
TryEnding(a, target) ==
  LET asking == [askers EXCEPT ![a] = [@ EXCEPT !.at = "asking", !.aims = target]] IN
  IF ending # "none"
    THEN askers' = asking /\ UNCHANGED <<command, told, ending>>
    ELSE BeginEnding(target, asking)

\* The state a cancel asks for: that of an attempt which failed or is under way.
CancelAims == IF command.target # "none" THEN command.target ELSE "cancelled"

\* The signal of the foreground request.
AbortRun ==
  /\ askers["run"].at = "waiting" /\ ~askers["run"].aborted
  /\ LET asking == [askers EXCEPT !["run"] = [at |-> "asking", aborted |-> TRUE,
                                              aims |-> CancelAims]] IN
       IF ending # "none" THEN askers' = asking /\ UNCHANGED <<command, told, ending>>
       ELSE BeginEnding(CancelAims, asking)

\* Its synchronous wait is over: it is answered with the state as it is.
WaitEnds ==
  /\ askers["run"].at = "waiting" /\ ~askers["run"].aborted
  /\ AnswersWith("run", command.state)
  /\ UNCHANGED <<command, ending>>

RunRetries ==
  /\ askers["run"].at = "delaying"
  /\ IF CommandEnded /\ ending = "none"
       THEN AnswersWith("run", command.state) /\ UNCHANGED <<command, ending>>
       ELSE TryEnding("run", askers["run"].aims)

\* cancel, as the shell tool and tasks/cancel call it.
UserCancels ==
  /\ askers["user"].at = "idle" /\ command.state # "none"
  /\ \/ /\ command.state = "lost"
        /\ AnswersWith("user", "not_found") /\ UNCHANGED <<command, ending>>
     \/ /\ CommandEnded
        /\ AnswersWith("user", command.state) /\ UNCHANGED <<command, ending>>
     \/ /\ command.state \in {"running", "termination_unverified"}
        /\ TryEnding("user", CancelAims)

\* cancelTrackedTasks: a task that is not to be cancelled with its goal is left
\* alone; one that is gets one attempt.
GoalCancels ==
  /\ askers["goal"].at = "idle" /\ command.state # "none"
  /\ \/ AnswersWith("goal", "skipped") /\ UNCHANGED <<command, ending>>
     \/ /\ command.state = "lost"
        /\ AnswersWith("goal", "not_found") /\ UNCHANGED <<command, ending>>
     \/ /\ CommandEnded
        /\ AnswersWith("goal", command.state) /\ UNCHANGED <<command, ending>>
     \/ /\ command.state \in {"running", "termination_unverified"}
        /\ TryEnding("goal", "cancelled")

\* The timer is cleared by the first attempt and by the end.
CommandTimesOut ==
  /\ command.state = "running" /\ ending = "none"
  /\ BeginEnding("timed_out", askers)

-----------------------------------------------------------------------------
(* The attempt                                                            *)

\* taskkill took the tree.
TreeKilled ==
  /\ ending = "killing" /\ command.root = "live"
  /\ command' = [command EXCEPT !.root = "gone", !.tree = FALSE, !.accepted = TRUE]
  /\ ending' = "exiting"
  /\ UNCHANGED <<askers, told>>

\* taskkill did not find the root: code 128.
RootNotFound ==
  /\ ending = "killing" /\ command.root \in {"gone", "exited", "closed"}
  /\ ending' = "racing"
  /\ UNCHANGED <<command, askers, told>>

\* taskkill could not be started or reports a failure, having ended nothing or
\* the root and what it got hold of below it.
KillRefused ==
  /\ ending = "killing"
  /\ \/ NotEnded(command, askers)
     \/ /\ command.root = "live"
        /\ \E tree \in BOOLEAN :
             NotEnded([command EXCEPT !.root = "gone", !.tree = tree, !.unproved = TRUE], askers)
  /\ ending' = "none"

\* waitForExit sees the exit.
EndSeen ==
  /\ ending \in {"exiting", "racing"} /\ ExitKnown
  /\ Finish([command EXCEPT !.accepted = TRUE], command.target)
  /\ ending' = "none"

\* It does not within its two seconds.
EndNotSeen ==
  /\ ending \in {"exiting", "racing"} /\ ~ExitKnown
  /\ NotEnded(command, askers)
  /\ ending' = "none"

\* The runtime ends: its requests and its records are gone, not the command.
RuntimeRestarts ==
  /\ "restart" \in CommandFaults /\ command.state \notin {"none", "lost"}
  /\ command' = [command EXCEPT !.state = "lost", !.target = "none"]
  /\ askers' = [a \in Askers |-> IF a = "run" \/ askers[a].at # "idle"
                                   THEN [askers[a] EXCEPT !.at = "answered"] ELSE askers[a]]
  /\ ending' = "none"
  /\ UNCHANGED told

-----------------------------------------------------------------------------

TaskkillAnswers == TreeKilled \/ RootNotFound \/ KillRefused
WaitForExitEnds == EndSeen \/ EndNotSeen

ShellCommandNext ==
  \/ LaunchCommand \/ SpawnFails \/ RootEnds \/ DescendantsEnd \/ ExitEvent \/ CloseSeen
  \/ AbortRun \/ WaitEnds \/ RunRetries \/ UserCancels \/ GoalCancels \/ CommandTimesOut
  \/ TaskkillAnswers \/ WaitForExitEnds \/ RuntimeRestarts

\* Node's timers and events come: the delay of the retry, the two seconds of
\* waitForExit, the exit of the root.  Nothing makes taskkill answer.
ShellCommandSpec ==
  /\ ShellCommandInit /\ [][ShellCommandNext]_commandVars
  /\ WF_commandVars(RunRetries \/ WaitForExitEnds)
  /\ WF_commandVars(SpawnFails \/ ExitEvent)

-----------------------------------------------------------------------------
(* What its readers make of the state                                     *)

\* mapTaskStatus: what the liveness of a goal reads.
LivenessOfTask ==
  CASE command.state = "running" -> "running"
    [] CommandEnded -> "terminal"
    [] command.state = "lost" -> "absent"
    [] OTHER -> "unknown"

\* protocolStatus: what a client of the MCP tasks protocol reads.
ProtocolStatus ==
  CASE command.state \in {"running", "termination_unverified"} -> "working"
    [] command.state \in {"completed", "cancelled"} -> command.state
    [] OTHER -> "failed"

\* isGoalTaskStopped: what cancel_goal counts among the stopped tasks.
ReportedStopped == told["goal"] \in EndedStates \cup {"not_found"}

\* Whoever learns that a command was stopped may rely on it: nothing of it runs
\* any more, whatever raced the attempt, unless taskkill came too late for the
\* root.  And neither is a goal taken over nor a task reported as over while the
\* root is alive, unless the runtime that ran it has ended.
\* (tryTerminate, performTermination, the close handler: shell-backend.ts:265-269,
\* 358-393; stop: windows-process-tree.ts:27-66; mapTaskStatus)
StoppedMeansStopped ==
  /\ \/ command.state \in StopStates
     \/ \E a \in Askers : told[a] \in StopStates
     => ~command.tree \/ command.raced
  /\ \/ LivenessOfTask = "terminal"
     \/ ProtocolStatus \in {"completed", "cancelled"}
     \/ ReportedStopped /\ command.state # "lost"
     => command.root \notin {"unborn", "live"}

\* An aborted request never waits for an end that nobody pursues: until it is
\* answered, its command ended or the runtime gone, taskkill is at work or is
\* tried again, however often it failed and whoever else asked in between.  The
\* two ways out: taskkill itself never returns, and the root ended without an
\* accepted kill, after which its tree cannot be proved gone.
\* (waitForForeground, cancel with autoRetry: shell-backend.ts:306-356)
AbortIsPursued ==
  askers["run"].aborted
    ~> (askers["run"].at = "answered" \/ ending = "killing" \/ command.unproved)
=============================================================================
