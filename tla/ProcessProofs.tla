---------------------------- MODULE ProcessProofs ----------------------------
(***************************************************************************)
(* What holds of the processes the runtime starts and of its backups,      *)
(* whatever fails and for any number of clients and tasks: an in-memory    *)
(* shell command, a managed process, the tasks of an agent swarm, and the  *)
(* backups of the data that several processes have open.  Each part has an *)
(* inductive invariant of its own.                                         *)
(***************************************************************************)
EXTENDS ShellCommand, ManagedProcess, AgentSwarm, Backups, NumberLemmas, SequenceTheorems, TLAPS

-----------------------------------------------------------------------------
(* A shell command                                                        *)

Undecided == command.state \in {"running", "termination_unverified"}

\* Before the launch nothing is there and nobody waits.
BeforeLaunch ==
  command.state = "none" <=> command.root = "none"

\* Who waits for a completion or an attempt waits for a command that has no
\* verdict yet; an aborted request that comes back once more may find one.
WaitersWait ==
  \A a \in Askers : /\ askers[a].at \in {"waiting", "asking"} => Undecided
                    /\ askers[a].at = "delaying" => Undecided \/ CommandEnded

\* An attempt is under way only while there is no verdict, and not at all where
\* there is no pid.  It waits for the exit once taskkill took the tree.
AttemptInOrder ==
  /\ ending # "none" => Undecided /\ command.root # "unborn" /\ command.target \in StopStates
  /\ ending = "exiting" => command.accepted
  /\ ending \in {"killing", "racing"} => ~command.accepted /\ (ExitKnown => command.raced)

\* A tree taskkill took is gone, or its root was found gone too late.
TreeTaken ==
  /\ command.tree => command.root \notin {"none", "unborn"}
  /\ command.raced => ExitKnown
  /\ command.accepted => /\ command.root \in {"gone", "exited", "closed"}
                         /\ ~command.tree \/ (command.raced /\ ~Undecided)

\* A verdict, also one somebody was told of, comes after the exit of the root.
VerdictAfterExit ==
  /\ CommandEnded => ExitKnown
  /\ \A a \in Askers : told[a] \in EndedStates => ExitKnown /\ (CommandEnded \/ command.state = "lost")
  /\ \A a \in Askers : told[a] = "not_found" => command.state = "lost"

\* A verdict that says stopped is right.
StopIsRight ==
  (command.state \in StopStates \/ \E a \in Askers : told[a] \in StopStates)
     => ~command.tree \/ command.raced

CommandInv ==
  /\ ShellCommandTypeOK /\ BeforeLaunch /\ WaitersWait /\ AttemptInOrder
  /\ TreeTaken /\ VerdictAfterExit /\ StopIsRight

\* The invariant of a shell command holds before it is started.
LEMMA CommandInvInit == ASSUME CommandAssumption, ShellCommandInit PROVE CommandInv
BY DEF CommandAssumption, ShellCommandInit, CommandInv, ShellCommandTypeOK, BeforeLaunch, WaitersWait,
  AttemptInOrder, TreeTaken, VerdictAfterExit, StopIsRight, Command, Asker, Askers, Roots, EndedStates,
  StopStates, Undecided, CommandEnded, ExitKnown

\* What a verdict does: those who waited are answered with it.
LEMMA FinishStep ==
  ASSUME ShellCommandTypeOK, NEW record \in Command, NEW state \in EndedStates, Finish(record, state)
  PROVE  /\ command' = [record EXCEPT !.state = state, !.target = "none"]
         /\ command' \in Command
         /\ askers' \in [Askers -> Asker]
         /\ \A a \in Askers : askers'[a].at \notin {"waiting", "asking"}
         /\ told' \in [Askers -> {"nothing", "running", "termination_unverified", "skipped",
                                  "not_found"} \cup EndedStates]
         /\ \A a \in Askers : told'[a] \in {told[a], state}
<1> USE DEF ShellCommandTypeOK
<1>1. command' = [record EXCEPT !.state = state, !.target = "none"]
  BY DEF Finish
<1>2. command' \in Command
  BY <1>1 DEF Command
<1>3. ASSUME NEW a \in Askers
      PROVE  /\ FinishedAskers[a] \in Asker
             /\ FinishedAskers[a].at \notin {"waiting", "asking"}
  <2>1. askers[a] \in Asker
    OBVIOUS
  <2>2. CASE askers[a].at = "asking"
    BY <2>1, <2>2 DEF FinishedAskers, Asker
  <2>3. CASE askers[a].at = "waiting"
    BY <2>1, <2>3 DEF FinishedAskers, Asker
  <2>4. CASE askers[a].at \notin {"waiting", "asking"}
    BY <2>1, <2>4 DEF FinishedAskers, Asker
  <2> QED BY <2>2, <2>3, <2>4
<1>4. FinishedAskers \in [Askers -> Asker]
  BY <1>3 DEF FinishedAskers
<1>5. askers' = FinishedAskers
  BY DEF Finish
<1>6. told' = [a \in Askers |-> IF FinishedAskers[a].at = "answered" /\ askers[a].at # "answered"
                                 THEN state ELSE told[a]]
  BY DEF Finish
<1> QED BY <1>1, <1>2, <1>3, <1>4, <1>5, <1>6

\* What an attempt without a proof does.
LEMMA NotEndedStep ==
  ASSUME ShellCommandTypeOK, NEW record \in Command, NEW asking \in [Askers -> Asker],
         NotEnded(record, asking)
  PROVE  /\ command' = [record EXCEPT !.state = "termination_unverified", !.raced = FALSE]
         /\ command' \in Command
         /\ askers' \in [Askers -> Asker]
         /\ told' \in [Askers -> {"nothing", "running", "termination_unverified", "skipped",
                                  "not_found"} \cup EndedStates]
         /\ \A a \in Askers : told'[a] \in {told[a], "termination_unverified"}
<1> USE DEF ShellCommandTypeOK
<1>1. command' = [record EXCEPT !.state = "termination_unverified", !.raced = FALSE]
  BY DEF NotEnded
<1>2. command' \in Command
  BY <1>1 DEF Command
<1>3. ASSUME NEW a \in Askers
      PROVE  (IF asking[a].at = "asking" THEN [asking[a] EXCEPT !.at = AfterFailure(a)] ELSE asking[a]) \in Asker
  <2>1. asking[a] \in Asker
    OBVIOUS
  <2>2. AfterFailure(a) \in {"answered", "delaying", "waiting"}
    BY DEF AfterFailure
  <2> QED BY <2>1, <2>2 DEF Asker
<1>4. askers' \in [Askers -> Asker]
  BY <1>3 DEF NotEnded
<1>5. told' \in {told, [told EXCEPT !["goal"] = "termination_unverified"]}
  BY DEF NotEnded
<1>6. "goal" \in Askers
  BY DEF Askers
<1> QED BY <1>1, <1>2, <1>4, <1>5, <1>6

\* A verdict keeps the invariant where the exit is known and the tree, if it was
\* taken or stopped, is gone or was raced.
LEMMA FinishKeeps ==
  ASSUME CommandInv, NEW record \in Command, NEW state \in EndedStates, Finish(record, state),
         ending' = "none", Undecided, record.root \in {"exited", "closed"},
         record.tree = command.tree, record.raced = command.raced,
         record.accepted \/ state \in StopStates => ~command.tree \/ command.raced
  PROVE  CommandInv'
<1> USE DEF CommandInv
<1>1. /\ command' = [record EXCEPT !.state = state, !.target = "none"]
      /\ \A a \in Askers : askers'[a].at \notin {"waiting", "asking"}
      /\ \A a \in Askers : told'[a] \in {told[a], state}
  BY FinishStep
<1>2. ShellCommandTypeOK'
  BY FinishStep DEF ShellCommandTypeOK
<1>3. /\ command'.state = state /\ command'.root = record.root /\ command'.tree = command.tree
      /\ command'.raced = command.raced /\ command'.accepted = record.accepted
  BY <1>1 DEF Command
<1>4. /\ CommandEnded' /\ ExitKnown' /\ ~Undecided'
  BY <1>3 DEF CommandEnded, ExitKnown, Undecided, EndedStates
<1>5. \A a \in Askers : told[a] \notin EndedStates \cup {"not_found"}
  BY DEF VerdictAfterExit, Undecided, CommandEnded, EndedStates
<1>6. BeforeLaunch' /\ WaitersWait' /\ AttemptInOrder'
  BY <1>1, <1>3, <1>4 DEF BeforeLaunch, WaitersWait, AttemptInOrder, EndedStates
<1>7. TreeTaken'
  BY <1>3, <1>4 DEF TreeTaken
<1>8. VerdictAfterExit'
  BY <1>1, <1>4, <1>5 DEF VerdictAfterExit, EndedStates
<1>9. StopIsRight'
  BY <1>1, <1>3, <1>5 DEF StopIsRight, StopStates, EndedStates
<1> QED BY <1>2, <1>6, <1>7, <1>8, <1>9

\* An attempt without a proof keeps the invariant.
LEMMA NotEndedKeeps ==
  ASSUME CommandInv, NEW record \in Command, NEW asking \in [Askers -> Asker], NotEnded(record, asking),
         ending' = "none", Undecided, record.accepted = command.accepted,
         \/ record.root = command.root /\ record.tree = command.tree
         \/ command.root = "live" /\ record.root = "gone"
  PROVE  CommandInv'
<1> USE DEF CommandInv
<1>1. /\ command' = [record EXCEPT !.state = "termination_unverified", !.raced = FALSE]
      /\ \A a \in Askers : told'[a] \in {told[a], "termination_unverified"}
  BY NotEndedStep
<1>2. ShellCommandTypeOK'
  BY NotEndedStep DEF ShellCommandTypeOK
<1>3. /\ command'.state = "termination_unverified" /\ command'.root = record.root
      /\ command'.tree = record.tree /\ command'.accepted = command.accepted /\ ~command'.raced
  BY <1>1 DEF Command
<1>4. Undecided' /\ ~CommandEnded'
  BY <1>3 DEF Undecided, CommandEnded, EndedStates
<1>5. \A a \in Askers : told'[a] \notin EndedStates \cup {"not_found"}
  BY <1>1 DEF VerdictAfterExit, Undecided, CommandEnded, EndedStates
<1>6. BeforeLaunch' /\ WaitersWait' /\ AttemptInOrder'
  BY <1>3, <1>4 DEF BeforeLaunch, WaitersWait, AttemptInOrder, Undecided
<1>7. TreeTaken' /\ VerdictAfterExit' /\ StopIsRight'
  BY <1>3, <1>4, <1>5 DEF TreeTaken, VerdictAfterExit, StopIsRight, Undecided, StopStates, EndedStates
<1> QED BY <1>2, <1>6, <1>7

\* So does the begin of an attempt.
LEMMA BeginEndingKeeps ==
  ASSUME CommandInv, NEW target \in StopStates, NEW asking \in [Askers -> Asker],
         Undecided, ending = "none", BeginEnding(target, asking)
  PROVE  CommandInv'
<1> USE DEF CommandInv
<1> DEFINE record == [command EXCEPT !.target = target]
<1>1. /\ record \in Command /\ record.root = command.root /\ record.tree = command.tree
      /\ record.accepted = command.accepted /\ record.state = command.state
      /\ record.raced = command.raced /\ record.target = target
  BY DEF ShellCommandTypeOK, Command
<1>2. CASE TreeUnprovable
  <2>1. NotEnded(record, asking) /\ ending' = "none"
    BY <1>2 DEF BeginEnding
  <2> QED BY <2>1, <1>1, NotEndedKeeps
<1>3. CASE ~TreeUnprovable
  <2> HIDE DEF record
  <2>1. /\ command' = record /\ askers' = asking /\ told' = told
        /\ ending' = (IF command.accepted THEN "exiting" ELSE "killing")
    BY <1>3 DEF BeginEnding, record
  <2>2. ~command.accepted => command.root # "unborn" /\ ~ExitKnown
    BY <1>3 DEF TreeUnprovable
  <2>3. ShellCommandTypeOK'
    BY <2>1, <1>1 DEF ShellCommandTypeOK
  <2>4. Undecided' /\ (ExitKnown' <=> ExitKnown) /\ ~CommandEnded'
    BY <2>1, <1>1 DEF Undecided, ExitKnown, CommandEnded, EndedStates
  <2>5. BeforeLaunch' /\ WaitersWait' /\ AttemptInOrder'
    BY <2>1, <2>2, <2>4, <1>1 DEF BeforeLaunch, WaitersWait, AttemptInOrder, TreeTaken, Undecided
  <2>6. TreeTaken' /\ VerdictAfterExit' /\ StopIsRight'
    BY <2>1, <2>4, <1>1 DEF TreeTaken, VerdictAfterExit, StopIsRight, Undecided, StopStates, EndedStates, CommandEnded
  <2> QED BY <2>3, <2>5, <2>6
<1> QED BY <1>2, <1>3

\* An answer that says what the record says keeps the invariant.
LEMMA AnswerKeeps ==
  ASSUME CommandInv, NEW a \in Askers,
         NEW state \in {"running", "termination_unverified", "skipped", "not_found"} \cup EndedStates,
         state \in EndedStates => command.state = state,
         state = "not_found" => command.state = "lost",
         AnswersWith(a, state), UNCHANGED <<command, ending>>
  PROVE  CommandInv'
<1> USE DEF CommandInv
<1>1. /\ askers' = [askers EXCEPT ![a].at = "answered"]
      /\ told' = [told EXCEPT ![a] = state]
  BY DEF AnswersWith, Stands
<1>2. ShellCommandTypeOK'
  BY <1>1 DEF ShellCommandTypeOK, Asker
<1>3. /\ BeforeLaunch' /\ AttemptInOrder' /\ TreeTaken' /\ (CommandEnded' <=> CommandEnded)
      /\ (ExitKnown' <=> ExitKnown) /\ (Undecided' <=> Undecided)
  BY DEF BeforeLaunch, AttemptInOrder, TreeTaken, CommandEnded, ExitKnown, Undecided
<1>4. \A b \in Askers : askers'[b].at \in {askers[b].at, "answered"} /\ told'[b] \in {told[b], state}
  BY <1>1 DEF ShellCommandTypeOK, Asker
<1>5. WaitersWait'
  BY <1>3, <1>4 DEF WaitersWait
<1>6. VerdictAfterExit'
  BY <1>3, <1>4 DEF VerdictAfterExit, CommandEnded, EndedStates
<1>7. StopIsRight'
  BY <1>4 DEF StopIsRight, StopStates, EndedStates
<1> QED BY <1>2, <1>3, <1>5, <1>6, <1>7

\* So does a try at the end of a command without a verdict.
LEMMA TryEndingKeeps ==
  ASSUME CommandInv, NEW a \in Askers, NEW target \in StopStates, Undecided, TryEnding(a, target)
  PROVE  CommandInv'
<1> DEFINE asking == [askers EXCEPT ![a] = [@ EXCEPT !.at = "asking", !.aims = target]]
<1>1. asking \in [Askers -> Asker]
  BY DEF CommandInv, ShellCommandTypeOK, Asker
<1>2. CASE ending # "none"
  <2>1. askers' = asking /\ UNCHANGED <<command, told, ending>>
    BY <1>2 DEF TryEnding
  <2> QED BY <1>1, <2>1 DEF CommandInv, ShellCommandTypeOK, BeforeLaunch, WaitersWait, AttemptInOrder,
            TreeTaken, VerdictAfterExit, StopIsRight, Undecided, CommandEnded, ExitKnown
<1>3. CASE ending = "none"
  <2>1. BeginEnding(target, asking)
    BY <1>3 DEF TryEnding
  <2> QED BY <1>1, <1>3, <2>1, BeginEndingKeeps
<1> QED BY <1>2, <1>3

\* Every step of a shell command keeps the invariant.
LEMMA CommandInvStep ==
  ASSUME CommandAssumption, CommandInv, [ShellCommandNext]_commandVars
  PROVE  CommandInv'
<1> USE DEF CommandInv
<1>a. command \in Command /\ "run" \in Askers /\ "user" \in Askers /\ "goal" \in Askers
  BY DEF ShellCommandTypeOK, Askers
<1>b. CancelAims \in StopStates
  BY <1>a DEF CancelAims, Command, StopStates
<1>1. CASE LaunchCommand
  <2>1. command.state = "none" /\ ending' = ending
    BY <1>1 DEF LaunchCommand
  <2>2. /\ ending = "none" /\ ~command.accepted
        /\ \A a \in Askers : askers[a].at \notin {"waiting", "asking", "delaying"}
        /\ \A a \in Askers : told[a] \notin EndedStates \cup {"not_found"}
    BY <2>1 DEF BeforeLaunch, WaitersWait, AttemptInOrder, TreeTaken, VerdictAfterExit, Undecided, CommandEnded, EndedStates
  <2>3. PICK root \in {"unborn", "live"} :
          command' = [command EXCEPT !.root = root, !.tree = (root = "live"), !.state = "running"]
    BY <1>1 DEF LaunchCommand
  <2>4. /\ command' \in Command /\ command'.root = root /\ (command'.tree => root = "live")
        /\ command'.state = "running" /\ command'.accepted = command.accepted
        /\ command'.raced = command.raced
    BY <1>a, <2>3 DEF Command, Roots
  <2>5. /\ \/ askers' = [askers EXCEPT !["run"].at = "waiting"] /\ told' = told
           \/ askers' = [askers EXCEPT !["run"].at = "answered"] /\ told' = [told EXCEPT !["run"] = "running"]
    BY <1>1 DEF LaunchCommand, AnswersWith, Stands
  <2>6. ShellCommandTypeOK'
    BY <1>a, <2>1, <2>4, <2>5 DEF ShellCommandTypeOK, Asker
  <2>7. \A a \in Askers : told'[a] \in {told[a], "running"}
    BY <1>a, <2>5 DEF ShellCommandTypeOK
  <2>8. Undecided' /\ ~CommandEnded'
    BY <2>4 DEF Undecided, CommandEnded, EndedStates
  <2>9. ~command.raced
    BY <2>1 DEF BeforeLaunch, TreeTaken, ExitKnown
  <2> QED BY <2>1, <2>2, <2>4, <2>6, <2>7, <2>8, <2>9 DEF BeforeLaunch, WaitersWait, AttemptInOrder, TreeTaken,
            VerdictAfterExit, StopIsRight, StopStates, EndedStates
<1>2. CASE SpawnFails
  <2> DEFINE unborn == [command EXCEPT !.root = "closed"]
  <2>1. command.root = "unborn" /\ ending' = ending /\ ending = "none" /\ ~command.tree /\ ~command.accepted
    BY <1>2, <1>a DEF SpawnFails, AttemptInOrder, TreeTaken, Command
  <2>2. /\ unborn \in Command /\ unborn.root = "closed" /\ unborn.tree = command.tree
        /\ unborn.raced = command.raced /\ unborn.state = command.state /\ unborn.accepted = command.accepted
    BY <1>a DEF Command, Roots
  <2> HIDE DEF unborn
  <2>3. CASE command.state = "lost"
    <3>1. command' = unborn /\ askers' = askers /\ told' = told
      BY <1>2, <2>3 DEF SpawnFails, unborn
    <3> QED BY <2>1, <2>2, <2>3, <3>1 DEF ShellCommandTypeOK, BeforeLaunch, WaitersWait, AttemptInOrder,
              TreeTaken, VerdictAfterExit, StopIsRight, Undecided, CommandEnded, ExitKnown, EndedStates, StopStates
  <2>4. CASE command.state # "lost"
    <3>1. PICK state \in EndedStates : Finish(unborn, state)
      BY <1>2, <2>4, <1>a DEF SpawnFails, unborn, EndedStates, Command, StopStates
    <3>2. Undecided
      BY <1>a, <2>1, <2>4 DEF Undecided, VerdictAfterExit, BeforeLaunch, CommandEnded, ExitKnown, Command
    <3> QED BY <2>1, <2>2, <3>1, <3>2, FinishKeeps
  <2> QED BY <2>3, <2>4
<1>3. CASE RootEnds
  <2>1. PICK tree \in BOOLEAN : command' = [command EXCEPT !.root = "gone", !.tree = tree, !.unproved = TRUE]
    BY <1>3 DEF RootEnds
  <2>2. command.root = "live" /\ UNCHANGED <<askers, told, ending>>
    BY <1>3 DEF RootEnds
  <2>3. /\ command' \in Command /\ command'.root = "gone" /\ command'.state = command.state
        /\ command'.accepted = command.accepted /\ command'.target = command.target
        /\ command'.raced = command.raced
    BY <1>a, <2>1 DEF Command, Roots
  <2>4. ~command.accepted /\ ~command.raced /\ ~ExitKnown /\ ~ExitKnown' /\ (Undecided' <=> Undecided) /\ (CommandEnded' <=> CommandEnded)
    BY <2>2, <2>3 DEF TreeTaken, ExitKnown, Undecided, CommandEnded
  <2>5. ~CommandEnded /\ \A a \in Askers : told[a] \notin EndedStates
    BY <2>4 DEF VerdictAfterExit
  <2> QED BY <2>2, <2>3, <2>4, <2>5 DEF ShellCommandTypeOK, BeforeLaunch, WaitersWait, AttemptInOrder, TreeTaken,
            VerdictAfterExit, StopIsRight, StopStates, EndedStates, CommandEnded
<1>4. CASE DescendantsEnd
  BY <1>4 DEF DescendantsEnd, ShellCommandTypeOK, BeforeLaunch, WaitersWait, AttemptInOrder, TreeTaken,
       VerdictAfterExit, StopIsRight, Command, Undecided, CommandEnded, ExitKnown
<1>5. CASE ExitEvent
  <2>1. /\ command.root = "gone" /\ UNCHANGED <<askers, told, ending>>
        /\ command' = [command EXCEPT !.root = "exited", !.raced = ending \in {"killing", "racing"}]
    BY <1>5 DEF ExitEvent
  <2>2. \/ command' = [command EXCEPT !.root = "exited", !.raced = TRUE]
        \/ ending \notin {"killing", "racing"} /\ command' = [command EXCEPT !.root = "exited", !.raced = FALSE]
    <3>1. (ending \in {"killing", "racing"}) = TRUE \/ (ending \in {"killing", "racing"}) = FALSE
      OBVIOUS
    <3> QED BY <2>1, <3>1, Zenon
  <2>3. /\ command' \in Command /\ command'.root = "exited" /\ command'.state = command.state
        /\ command'.accepted = command.accepted /\ command'.target = command.target
        /\ command'.tree = command.tree /\ (ending \in {"killing", "racing"} => command'.raced)
    BY <1>a, <2>2 DEF Command, Roots
  <2>4. ~ExitKnown /\ ExitKnown' /\ (Undecided' <=> Undecided) /\ (CommandEnded' <=> CommandEnded)
    BY <2>1, <2>3 DEF ExitKnown, Undecided, CommandEnded
  <2>5. ~CommandEnded /\ \A a \in Askers : told[a] \notin EndedStates
    BY <2>4 DEF VerdictAfterExit
  <2>6. command.accepted => ~command.tree
    BY <2>4 DEF TreeTaken
  <2> QED BY <2>1, <2>2, <2>3, <2>4, <2>5, <2>6 DEF ShellCommandTypeOK, BeforeLaunch, WaitersWait, AttemptInOrder,
            TreeTaken, VerdictAfterExit, StopIsRight, StopStates, EndedStates, CommandEnded
<1>6. CASE CloseSeen
  <2> DEFINE closed == [command EXCEPT !.root = "closed"]
  <2>1. command.root = "exited" /\ ending' = ending
    BY <1>6 DEF CloseSeen
  <2>2. /\ closed \in Command /\ closed.root = "closed" /\ closed.tree = command.tree /\ closed.target = command.target
        /\ closed.raced = command.raced /\ closed.state = command.state /\ closed.accepted = command.accepted
    BY <1>a DEF Command, Roots
  <2> HIDE DEF closed
  <2>3. CASE command.state = "running" /\ ending = "none"
    <3>1. PICK state \in {"completed", "failed"} : Finish(closed, state)
      BY <1>6, <2>3 DEF CloseSeen, closed
    <3>2. Undecided /\ state \in EndedStates /\ state \notin StopStates
      BY <2>3, <3>1 DEF Undecided, EndedStates, StopStates
    <3>3. command.accepted => ~command.tree
      BY <3>2 DEF TreeTaken
    <3> QED BY <2>1, <2>2, <2>3, <3>1, <3>2, <3>3, FinishKeeps
  <2>4. CASE ~(command.state = "running" /\ ending = "none")
    <3>1. command' = closed /\ askers' = askers /\ told' = told
      BY <1>6, <2>4 DEF CloseSeen, closed
    <3> QED BY <2>1, <2>2, <3>1 DEF ShellCommandTypeOK, BeforeLaunch, WaitersWait, AttemptInOrder,
              TreeTaken, VerdictAfterExit, StopIsRight, Undecided, CommandEnded, ExitKnown
  <2> QED BY <2>3, <2>4
<1>7. CASE AbortRun
  <2> DEFINE asking == [askers EXCEPT !["run"] = [at |-> "asking", aborted |-> TRUE, aims |-> CancelAims]]
  <2>1. asking \in [Askers -> Asker]
    BY <1>a, <1>b DEF ShellCommandTypeOK, Asker
  <2>2. Undecided
    BY <1>7, <1>a DEF AbortRun, WaitersWait
  <2>3. CASE ending # "none"
    <3>1. askers' = asking /\ UNCHANGED <<command, told, ending>>
      BY <1>7, <2>3 DEF AbortRun
    <3> QED BY <2>1, <2>2, <3>1 DEF ShellCommandTypeOK, BeforeLaunch, WaitersWait, AttemptInOrder,
              TreeTaken, VerdictAfterExit, StopIsRight, Undecided, CommandEnded, ExitKnown
  <2>4. CASE ending = "none"
    <3>1. BeginEnding(CancelAims, asking)
      BY <1>7, <2>4 DEF AbortRun
    <3> QED BY <1>b, <2>1, <2>2, <2>4, <3>1, BeginEndingKeeps
  <2> QED BY <2>3, <2>4
<1>8. CASE WaitEnds
  <2>1. Undecided
    BY <1>8, <1>a DEF WaitEnds, WaitersWait
  <2>2. AnswersWith("run", command.state) /\ UNCHANGED <<command, ending>>
    BY <1>8 DEF WaitEnds
  <2> QED BY <1>a, <2>1, <2>2, AnswerKeeps DEF Undecided, EndedStates
<1>9. CASE RunRetries
  <2>1. CASE CommandEnded /\ ending = "none"
    <3>1. AnswersWith("run", command.state) /\ UNCHANGED <<command, ending>>
      BY <1>9, <2>1 DEF RunRetries
    <3> QED BY <1>a, <2>1, <3>1, AnswerKeeps DEF CommandEnded, EndedStates
  <2>2. CASE ~(CommandEnded /\ ending = "none")
    <3>1. Undecided /\ TryEnding("run", askers["run"].aims)
      BY <1>9, <1>a, <2>2 DEF RunRetries, WaitersWait, AttemptInOrder
    <3>2. askers["run"].aims \in StopStates
      BY <1>a DEF ShellCommandTypeOK, Asker
    <3> QED BY <1>a, <3>1, <3>2, TryEndingKeeps
  <2> QED BY <2>1, <2>2
<1>10. CASE UserCancels
  <2>1. CASE command.state = "lost" /\ AnswersWith("user", "not_found") /\ UNCHANGED <<command, ending>>
    BY <1>a, <2>1, AnswerKeeps DEF EndedStates
  <2>2. CASE CommandEnded /\ AnswersWith("user", command.state) /\ UNCHANGED <<command, ending>>
    BY <1>a, <2>2, AnswerKeeps DEF CommandEnded, EndedStates
  <2>3. CASE Undecided /\ TryEnding("user", CancelAims)
    BY <1>a, <1>b, <2>3, TryEndingKeeps
  <2> QED BY <1>10, <2>1, <2>2, <2>3 DEF UserCancels, Undecided
<1>11. CASE GoalCancels
  <2>1. CASE AnswersWith("goal", "skipped") /\ UNCHANGED <<command, ending>>
    BY <1>a, <2>1, AnswerKeeps DEF EndedStates
  <2>2. CASE command.state = "lost" /\ AnswersWith("goal", "not_found") /\ UNCHANGED <<command, ending>>
    BY <1>a, <2>2, AnswerKeeps DEF EndedStates
  <2>3. CASE CommandEnded /\ AnswersWith("goal", command.state) /\ UNCHANGED <<command, ending>>
    BY <1>a, <2>3, AnswerKeeps DEF CommandEnded, EndedStates
  <2>4. CASE Undecided /\ TryEnding("goal", "cancelled")
    BY <1>a, <2>4, TryEndingKeeps DEF StopStates
  <2> QED BY <1>11, <2>1, <2>2, <2>3, <2>4 DEF GoalCancels, Undecided
<1>12. CASE CommandTimesOut
  <2>1. Undecided /\ ending = "none" /\ BeginEnding("timed_out", askers)
    BY <1>12 DEF CommandTimesOut, Undecided
  <2>2. askers \in [Askers -> Asker] /\ "timed_out" \in StopStates
    BY DEF ShellCommandTypeOK, StopStates
  <2> QED BY <2>1, <2>2, BeginEndingKeeps
<1>13. CASE TreeKilled
  <2>1. /\ ending = "killing" /\ ending' = "exiting" /\ UNCHANGED <<askers, told>> /\ command.root = "live"
        /\ command' = [command EXCEPT !.root = "gone", !.tree = FALSE, !.accepted = TRUE]
    BY <1>13 DEF TreeKilled
  <2>2. /\ command' \in Command /\ command'.root = "gone" /\ command'.state = command.state
        /\ command'.accepted /\ command'.target = command.target /\ ~command'.tree
    BY <1>a, <2>1 DEF Command, Roots
  <2>3. ~ExitKnown' /\ (Undecided' <=> Undecided) /\ (CommandEnded' <=> CommandEnded) /\ Undecided /\ ~ExitKnown
    BY <2>1, <2>2 DEF ExitKnown, Undecided, CommandEnded, AttemptInOrder
  <2> QED BY <2>1, <2>2, <2>3 DEF ShellCommandTypeOK, BeforeLaunch, WaitersWait, AttemptInOrder, TreeTaken,
            VerdictAfterExit, StopIsRight
<1>14. CASE RootNotFound
  BY <1>14 DEF RootNotFound, ShellCommandTypeOK, BeforeLaunch, WaitersWait, AttemptInOrder, TreeTaken,
       VerdictAfterExit, StopIsRight, Undecided, CommandEnded, ExitKnown
<1>15. CASE KillRefused
  <2>1. ending' = "none" /\ Undecided /\ askers \in [Askers -> Asker]
    BY <1>15 DEF KillRefused, AttemptInOrder, ShellCommandTypeOK
  <2>2. CASE NotEnded(command, askers)
    BY <1>a, <2>1, <2>2, NotEndedKeeps
  <2>3. ASSUME command.root = "live", NEW tree \in BOOLEAN,
               NotEnded([command EXCEPT !.root = "gone", !.tree = tree, !.unproved = TRUE], askers)
        PROVE  CommandInv'
    <3> DEFINE record == [command EXCEPT !.root = "gone", !.tree = tree, !.unproved = TRUE]
    <3>1. /\ record \in Command /\ record.root = "gone" /\ record.accepted = command.accepted
          /\ NotEnded(record, askers)
      BY <1>a, <2>3 DEF Command, Roots
    <3> HIDE DEF record
    <3> QED BY <2>1, <2>3, <3>1, NotEndedKeeps
  <2> QED BY <1>15, <2>2, <2>3 DEF KillRefused
<1>16. CASE EndSeen
  <2> DEFINE record == [command EXCEPT !.accepted = TRUE]
  <2>1. ExitKnown /\ Finish(record, command.target) /\ ending' = "none" /\ ending \in {"exiting", "racing"}
    BY <1>16 DEF EndSeen
  <2>2. Undecided /\ command.target \in StopStates
    BY <2>1 DEF AttemptInOrder
  <2>3. /\ record \in Command /\ record.root = command.root /\ record.tree = command.tree
        /\ record.raced = command.raced
    BY <1>a DEF Command
  <2>4. ~command.tree \/ command.raced
    BY <2>1, <2>2 DEF AttemptInOrder, TreeTaken
  <2>5. command.target \in EndedStates /\ record.root \in {"exited", "closed"}
    BY <2>1, <2>2, <2>3 DEF StopStates, EndedStates, ExitKnown
  <2> HIDE DEF record
  <2> QED BY <2>1, <2>2, <2>3, <2>4, <2>5, FinishKeeps
<1>17. CASE EndNotSeen
  <2>1. NotEnded(command, askers) /\ ending' = "none" /\ Undecided
    BY <1>17 DEF EndNotSeen, AttemptInOrder
  <2>2. askers \in [Askers -> Asker]
    BY DEF ShellCommandTypeOK
  <2> QED BY <1>a, <2>1, <2>2, NotEndedKeeps
<1>18. CASE RuntimeRestarts
  <2>1. /\ command' = [command EXCEPT !.state = "lost", !.target = "none"] /\ ending' = "none" /\ told' = told
        /\ askers' = [a \in Askers |-> IF a = "run" \/ askers[a].at # "idle"
                                         THEN [askers[a] EXCEPT !.at = "answered"] ELSE askers[a]]
        /\ command.state \notin {"none", "lost"}
    BY <1>18 DEF RuntimeRestarts
  <2>2. /\ command' \in Command /\ command'.root = command.root /\ command'.state = "lost"
        /\ command'.accepted = command.accepted /\ command'.tree = command.tree /\ command'.raced = command.raced
    BY <1>a, <2>1 DEF Command
  <2>3. askers' \in [Askers -> Asker] /\ \A a \in Askers : askers'[a].at \in {"idle", "answered"}
    BY <2>1 DEF ShellCommandTypeOK, Asker
  <2>4. (ExitKnown' <=> ExitKnown) /\ ~Undecided' /\ ~CommandEnded'
    BY <2>2 DEF ExitKnown, Undecided, CommandEnded, EndedStates
  <2>5. ShellCommandTypeOK'
    BY <2>1, <2>2, <2>3 DEF ShellCommandTypeOK
  <2>6. BeforeLaunch' /\ WaitersWait' /\ AttemptInOrder'
    BY <2>1, <2>2, <2>3, <2>4 DEF BeforeLaunch, WaitersWait, AttemptInOrder
  <2>7. TreeTaken' /\ VerdictAfterExit' /\ StopIsRight'
    BY <2>1, <2>2, <2>4 DEF TreeTaken, VerdictAfterExit, StopIsRight, StopStates
  <2> QED BY <2>5, <2>6, <2>7
<1>90. CASE UNCHANGED commandVars
  BY <1>90 DEF commandVars, ShellCommandTypeOK, BeforeLaunch, WaitersWait, AttemptInOrder, TreeTaken,
       VerdictAfterExit, StopIsRight, Undecided, CommandEnded, ExitKnown
<1> QED BY <1>1, <1>2, <1>3, <1>4, <1>5, <1>6, <1>7, <1>8, <1>9, <1>10, <1>11, <1>12, <1>13, <1>14, <1>15,
          <1>16, <1>17, <1>18, <1>90 DEF ShellCommandNext, TaskkillAnswers, WaitForExitEnds

\* However often taskkill fails, with and without restarts: the verdicts of a shell
\* command, those told and those recorded, come after the exit of its root.
THEOREM CommandInvariant == ShellCommandSpec => []CommandInv
<1>1. ShellCommandInit => CommandInv
  BY CommandInvInit, CommandAssumption
<1>2. CommandInv /\ [ShellCommandNext]_commandVars => CommandInv'
  BY CommandInvStep, CommandAssumption
<1> QED BY <1>1, <1>2, PTL DEF ShellCommandSpec

\* Whoever is told that a command was stopped, completed or ended may rely on it.
THEOREM StoppedCommandsAreStopped == ShellCommandSpec => []StoppedMeansStopped
<1>1. CommandInv => StoppedMeansStopped
  BY DEF CommandInv, StoppedMeansStopped, StopIsRight, VerdictAfterExit, ExitKnown, CommandEnded,
       LivenessOfTask, ProtocolStatus, ReportedStopped, EndedStates, Askers
<1> QED BY <1>1, CommandInvariant, PTL

-----------------------------------------------------------------------------
(* A managed process                                                      *)

\* Before there is a child nobody asks for its end; an attempt is never begun
\* for a child without a pid and never outlives a verified end; and what is
\* told of the end is told when the root is gone.
ProcessInv ==
  /\ ManagedProcessTypeOK
  /\ proc.start \in {"idle", "resolving"} => proc.child = "none" /\ proc.told = "nothing"
  /\ proc.start = "confirming" => proc.child # "none"
  /\ proc.child = "none" => /\ proc.state = "none" /\ ~Attempting
                            /\ \A e \in Enders : enders[e] = "idle"
  /\ Attempting \/ proc.accepted = TRUE => proc.child \notin {"none", "unborn"}
  /\ Attempting => proc.state \notin Verified
  /\ proc.state \in Verified \/ proc.told = "cancelled" => ~ChildLive
  /\ \A e \in {"user", "goal"} : enders[e] = "returned" => ~ChildLive

\* The invariant of a managed process holds before it is started.
LEMMA ProcessInvInit == ManagedProcessInit => ProcessInv
BY DEF ManagedProcessInit, ProcessInv, ManagedProcessTypeOK, Process, ProcEnds, Verified,
       ChildLive, Attempting, Enders

\* What a step may not do, as a formula of one step.
GoneStep ==
  /\ proc'.state \in {"stopped", "timed_out", "exited"} => ~ChildLive'
  /\ proc'.told = "cancelled" => ~ChildLive'
  /\ \A e \in {"user", "goal"} : enders'[e] = "returned" => ~ChildLive'
  /\ proc.state \in Verified => proc'.state = proc.state

\* Every step keeps the invariant and tells nobody too early.
LEMMA ProcessStep ==
  ASSUME ProcessInv, [ManagedProcessNext]_procVars
  PROVE  ProcessInv' /\ GoneStep
<1> USE DEF ProcessInv, ManagedProcessTypeOK, Process, ProcEnds, Verified, ChildLive,
            Attempting, Enders, GoneStep
<1>1. CASE BeginStart
  BY <1>1 DEF BeginStart
<1>2. CASE Resolved
  BY <1>2 DEF Resolved
<1>3. CASE SpawnEvent
  BY <1>3 DEF SpawnEvent
<1>4. CASE ErrorEvent
  BY <1>4 DEF ErrorEvent
<1>5. CASE AbortStart
  <2>1. /\ proc' \in Process /\ proc'.start = proc.start /\ proc'.told = proc.told
        /\ proc'.child = proc.child /\ proc'.state = proc.state
        /\ proc'.accepted = proc.accepted /\ attempt' = attempt
    BY <1>5 DEF AbortStart
  <2>2. enders' = enders \/ (proc.child = "spawned" /\ AsksEnd("start"))
    BY <1>5 DEF AbortStart
  <2> HIDE DEF Process
  <2> QED  BY <2>1, <2>2, SMTT(30) DEF AsksEnd
<1>6. CASE ConfirmStart
  <2>1. CASE proc.aborted = TRUE
    BY <1>6, <2>1, SMTT(30) DEF ConfirmStart, AsksEnd
  <2>2. CASE proc.aborted = FALSE
    <3>1. /\ proc' = [proc EXCEPT !.start = "answered", !.told = "started"]
          /\ enders' = enders /\ attempt' = attempt
      BY <1>6, <2>2 DEF ConfirmStart
    <3>2. /\ proc' \in Process /\ proc'.start = "answered" /\ proc'.told = "started"
          /\ proc'.child = proc.child /\ proc'.state = proc.state
          /\ proc'.accepted = proc.accepted
      BY <3>1
    <3> HIDE DEF Process
    <3> QED  BY <3>1, <3>2, SMTT(30)
  <2> QED  BY <2>1, <2>2
<1>7. CASE RootExits
  BY <1>7 DEF RootExits
<1>8. CASE CloseEvent
  BY <1>8 DEF CloseEvent
<1>9. CASE TimeoutFires
  BY <1>9 DEF TimeoutFires, AsksEnd
<1>10. CASE \E e \in Enders : CallStop(e) \/ RetryTimer(e)
  BY <1>10 DEF CallStop, RetryTimer, AsksEnd
<1>11. CASE TakeVerified
  BY <1>11 DEF TakeVerified, EndersTold, StartTold
<1>12. CASE BeginAttempt
  <2>1. PICK e \in Enders : enders[e] = "trying"
    BY <1>12 DEF BeginAttempt
  <2>2. proc.child # "none" /\ ~Attempting /\ proc.state \notin Verified
    BY <1>12, <2>1 DEF BeginAttempt
  <2>3. CASE proc.child \in {"unborn", "exited", "closed"} /\ ~proc.accepted
    <3>1. PICK target \in {"stopped", "timed_out"} :
            proc' = [proc EXCEPT !.state = "termination_unverified", !.target = target]
      BY <1>12, <2>3 DEF BeginAttempt, Target
    <3>2. enders' = EndersUntold /\ attempt' = attempt
      BY <1>12, <2>3 DEF BeginAttempt
    <3>3. /\ proc' \in Process /\ proc'.start = proc.start /\ proc'.told = proc.told
          /\ proc'.child = proc.child /\ proc'.state = "termination_unverified"
          /\ proc'.accepted = proc.accepted
      BY <3>1
    <3>4. /\ enders' \in [Enders -> {"idle", "trying", "retrying", "waiting", "returned"}]
          /\ \A w \in {"user", "goal"} : enders'[w] = "returned" => enders[w] = "returned"
      BY <3>2, SMTT(30) DEF EndersUntold, Retrying
    <3> HIDE DEF Process
    <3> QED  BY <2>2, <3>2, <3>3, <3>4, SMTT(30)
  <2>4. CASE ~(proc.child \in {"unborn", "exited", "closed"} /\ ~proc.accepted)
    <3>1. PICK target \in {"stopped", "timed_out"} : proc' = [proc EXCEPT !.target = target]
      BY <1>12, <2>4 DEF BeginAttempt, Target
    <3>2. enders' = enders /\ attempt' \in {"exiting", "killing"}
      BY <1>12, <2>4 DEF BeginAttempt
    <3> QED  BY <2>2, <2>4, <3>1, <3>2, SMTT(30)
  <2> QED  BY <2>3, <2>4
<1>13. CASE KillAccepted
  BY <1>13 DEF KillAccepted
<1>14. CASE EndProved
  BY <1>14 DEF EndProved, Proved, EndersTold, StartTold
<1>15. CASE EndUnproved
  BY <1>15 DEF EndUnproved, EndersUntold, Retrying
<1>16. CASE UNCHANGED procVars
  BY <1>16 DEF procVars
<1> QED  BY <1>1, <1>2, <1>3, <1>4, <1>5, <1>6, <1>7, <1>8, <1>9, <1>10,
            <1>11, <1>12, <1>13, <1>14, <1>15, <1>16 DEF ManagedProcessNext

\* The invariant of a managed process holds always.
THEOREM ProcessInvariant == ManagedProcessSpec => []ProcessInv
<1>1. ProcessInv /\ [ManagedProcessNext]_procVars => ProcessInv'
  BY ProcessStep
<1> QED  BY ProcessInvInit, <1>1, PTL DEF ManagedProcessSpec

\* ProcessManager and ProcessService: nobody is told that a process is gone
\* while its root is alive, whoever asked for its end and however often, and
\* an end once verified stays.
THEOREM GoneIsGone == ManagedProcessSpec => GoneMeansGone
<1>1. ProcessInv /\ [ManagedProcessNext]_procVars => [GoneStep]_procVars
  BY ProcessStep
<1> QED  BY ProcessInvariant, <1>1, PTL DEF ManagedProcessSpec, GoneMeansGone, GoneStep

-----------------------------------------------------------------------------
(* An agent swarm                                                         *)

CodexPlaces == {"none", "starting", "live", "succeeded", "failed", "refused", "lost"}
Tickers == [at : {"new", "sleep", "poll", "logs", "run", "off"}, todo : SUBSET SwarmTasks,
            task : 0 .. NTasks, running : 0 .. NTasks]
Cancellers == [at : {"idle", "stopping", "done"}, task : 0 .. NTasks,
               seen : [SwarmTasks -> TaskStates]]

SwarmTyped ==
  /\ deps \in DependencyGraphs /\ rows \in [SwarmTasks -> TaskStates]
  /\ swarm \in {"queued", "running"} \cup Ended
  /\ codex \in [SwarmTasks -> CodexPlaces]
  /\ ticker \in Tickers /\ canceller \in Cancellers /\ halted \in BOOLEAN

\* The task the tick is at, and the one a cancel waits for.
AtTask ==
  /\ ticker.at \in {"new", "sleep", "off"} => ticker.task = 0
  /\ ticker.at \in {"logs", "run"} => ticker.task \in SwarmTasks
  /\ ticker.at \in {"poll", "logs"} /\ ticker.task # 0 => codex[ticker.task] \in {"succeeded", "failed"}
  /\ canceller.at = "stopping" => canceller.task \in SwarmTasks
  /\ canceller.at # "idle" => halted = TRUE \/ ticker.at = "off"

\* The codex processes that rows r tell of, none of them starting.
Settled(r, c) ==
  \A t \in SwarmTasks :
    /\ r[t] \in {"blocked", "queued"} => c[t] = "none"
    /\ r[t] = "running" => c[t] \in {"live", "succeeded", "failed", "lost"}
    /\ r[t] = "completed" => c[t] = "succeeded"
    /\ c[t] = "live" => r[t] = "running"
    /\ c[t] # "starting"
    /\ r[t] = "queued" => \A d \in deps[t] : r[d] = "completed"

\* What the tick read before its awaits still holds, as long as the swarm goes on.
TickHolds ==
  IF ticker.at # "run" THEN Settled(rows, codex)
  ELSE /\ codex[ticker.task] = "starting" /\ ticker.task \notin ticker.todo
       /\ Settled(rows, [codex EXCEPT ![ticker.task] = "none"])
       /\ \A t \in ticker.todo \cup {ticker.task} : rows[t] = "queued"
       /\ Cardinality(Rows(rows, "running")) = ticker.running
       /\ ticker.running < MaxConcurrency

SwarmInv ==
  /\ SwarmTyped /\ AtTask
  /\ ticker.at = "new" => \A t \in SwarmTasks : codex[t] = "none"
  /\ halted = FALSE /\ ticker.at # "off" => TickHolds

\* The first of some tasks is one of them.
LEMMA FirstIsOne ==
  ASSUME NEW T \in SUBSET SwarmTasks, T # {}
  PROVE  FirstOf(T) \in T
<1>1. \E t \in T : \A u \in T : t <= u
  BY SmallestOfSome, SwarmAssumption DEF SwarmTasks
<1> QED  BY <1>1 DEF FirstOf

\* The running tasks can be counted.
LEMMA RunningCount ==
  ASSUME NEW r, NEW state
  PROVE  /\ IsFiniteSet(Rows(r, state))
         /\ Cardinality(Rows(r, state)) \in 0 .. NTasks
<1>1. IsFiniteSet(SwarmTasks) /\ Cardinality(SwarmTasks) = NTasks /\ NTasks \in Nat
  BY FS_Interval, SwarmAssumption DEF SwarmTasks
<1>2. Rows(r, state) \subseteq SwarmTasks
  BY DEF Rows
<1>3. IsFiniteSet(Rows(r, state)) /\ Cardinality(Rows(r, state)) <= Cardinality(SwarmTasks)
  BY <1>1, <1>2, FS_Subset
<1> QED  BY <1>1, <1>3, FS_CardinalityType

\* The state of a swarm is one of its states, whatever its rows say.
LEMMA SummaryTyped ==
  ASSUME NEW r
  PROVE  Summary(r) \in {"queued", "running"} \cup Ended
BY DEF Summary, Ended

\* What is launched next, or that nothing is, leaves the types as they are.
LEMMA LaunchNextTyped ==
  ASSUME SwarmTyped, NEW r \in [SwarmTasks -> TaskStates], NEW c \in [SwarmTasks -> CodexPlaces],
         NEW list \in SUBSET SwarmTasks, NEW running \in Nat, LaunchNext(r, c, list, running),
         UNCHANGED <<deps, canceller, halted>>
  PROVE  /\ SwarmTyped'
         /\ ticker'.at \in {"sleep", "run"}
         /\ ticker'.at = "sleep" => ticker'.task = 0
         /\ ticker'.at = "run" => ticker'.task \in SwarmTasks
<1> DEFINE first == FirstOf(list)
<1>1. CASE list = {} \/ running >= MaxConcurrency \/ halted
  <2>1. /\ ticker' = [ticker EXCEPT !.at = "sleep", !.todo = {}, !.task = 0, !.running = 0]
        /\ swarm' = Summary(r) /\ codex' = c /\ rows' = r
    BY <1>1 DEF LaunchNext
  <2>2. ticker' \in Tickers /\ ticker'.at = "sleep" /\ ticker'.task = 0
    <3>1. ticker \in Tickers /\ 0 \in 0 .. NTasks /\ {} \in SUBSET SwarmTasks
      BY SwarmAssumption DEF SwarmTyped
    <3> QED  BY <2>1, <3>1 DEF Tickers
  <2> QED  BY <2>1, <2>2, SummaryTyped DEF SwarmTyped
<1>2. CASE ~(list = {} \/ running >= MaxConcurrency \/ halted)
  <2>1. /\ ticker' = [ticker EXCEPT !.at = "run", !.todo = list \ {first}, !.task = first,
                                    !.running = running]
        /\ codex' = [c EXCEPT ![first] = "starting"] /\ swarm' = swarm /\ rows' = r
    BY <1>2 DEF LaunchNext
  <2>2. first \in SwarmTasks
    BY <1>2, FirstIsOne
  <2>3. first \in 0 .. NTasks /\ running \in 0 .. NTasks
    BY <1>2, <2>2, SwarmAssumption DEF SwarmTasks
  <2> HIDE DEF first
  <2>4. ticker' \in Tickers /\ ticker'.at = "run" /\ ticker'.task = first
    BY <2>1, <2>3 DEF SwarmTyped, Tickers
  <2>5. codex' \in [SwarmTasks -> CodexPlaces]
    BY <2>1, <2>2 DEF CodexPlaces
  <2> QED  BY <2>1, <2>2, <2>4, <2>5 DEF SwarmTyped
<1> QED  BY <1>1, <1>2

\* What is launched next is launched in order, and what the tick relies on
\* holds at its next await.
LEMMA LaunchNextInOrder ==
  ASSUME SwarmTyped, NEW r \in [SwarmTasks -> TaskStates], NEW c \in [SwarmTasks -> CodexPlaces],
         NEW list \in SUBSET SwarmTasks, NEW running \in Nat, LaunchNext(r, c, list, running),
         UNCHANGED <<deps, canceller, halted>>,
         halted = FALSE => /\ Settled(r, c) /\ \A t \in list : r[t] = "queued"
                           /\ Cardinality(Rows(r, "running")) = running
  PROVE  /\ halted = FALSE => TickHolds'
         /\ ticker'.at = "run" => /\ halted = FALSE /\ ticker'.task \in list
                                  /\ c[ticker'.task] = "none"
                                  /\ \A d \in deps[ticker'.task] : r[d] = "completed"
                                  /\ Cardinality({u \in SwarmTasks : codex'[u] \in {"starting", "live"}})
                                       <= MaxConcurrency
<1> DEFINE first == FirstOf(list)
<1>0. halted \in BOOLEAN
  BY DEF SwarmTyped
<1>1. CASE list = {} \/ running >= MaxConcurrency \/ halted
  <2>1. /\ ticker' = [ticker EXCEPT !.at = "sleep", !.todo = {}, !.task = 0, !.running = 0]
        /\ codex' = c /\ rows' = r
    BY <1>1 DEF LaunchNext
  <2>2. ticker'.at = "sleep"
    BY <2>1 DEF SwarmTyped, Tickers
  <2> QED  BY <2>1, <2>2 DEF TickHolds, Settled
<1>2. CASE ~(list = {} \/ running >= MaxConcurrency \/ halted)
  <2>1. /\ ticker' = [ticker EXCEPT !.at = "run", !.todo = list \ {first}, !.task = first,
                                    !.running = running]
        /\ codex' = [c EXCEPT ![first] = "starting"] /\ rows' = r
    BY <1>2 DEF LaunchNext
  <2>2. first \in list /\ first \in SwarmTasks
    BY <1>2, FirstIsOne
  <2>3. halted = FALSE /\ running < MaxConcurrency /\ MaxConcurrency \in Nat
    BY <1>0, <1>2, SwarmAssumption
  <2> HIDE DEF first
  <2>4. /\ ticker'.at = "run" /\ ticker'.task = first /\ ticker'.todo = list \ {first}
        /\ ticker'.running = running
    BY <2>1 DEF SwarmTyped, Tickers
  <2>5. /\ Settled(r, c) /\ \A t \in list : r[t] = "queued"
        /\ Cardinality(Rows(r, "running")) = running
    BY <2>3
  <2>6. c[first] = "none" /\ \A d \in deps[first] : r[d] = "completed"
    BY <2>2, <2>5 DEF Settled
  <2>7. TickHolds'
    <3>1. codex'[first] = "starting" /\ [codex' EXCEPT ![first] = "none"] = c
      <4>1. \A t \in SwarmTasks : [codex' EXCEPT ![first] = "none"][t] = c[t]
        BY <2>1, <2>2, <2>6
      <4> QED  BY <2>1, <2>2, <4>1
    <3>2. Settled(rows, [codex EXCEPT ![ticker.task] = "none"])'
      BY <2>1, <2>4, <2>5, <3>1 DEF Settled
    <3>3. \A t \in list : rows'[t] = "queued"
      BY <2>1, <2>5
    <3>4. Cardinality(Rows(rows, "running"))' = running
      BY <2>1, <2>5 DEF Rows
    <3> QED  BY <2>2, <2>3, <2>4, <3>1, <3>2, <3>3, <3>4 DEF TickHolds
  <2>8. Cardinality({u \in SwarmTasks : codex'[u] \in {"starting", "live"}}) <= MaxConcurrency
    <3> DEFINE atWork == {u \in SwarmTasks : codex'[u] \in {"starting", "live"}}
               most == Rows(r, "running") \cup {first}
    <3>1. atWork \subseteq most
      BY <2>1, <2>5 DEF Settled, Rows
    <3>2. IsFiniteSet(Rows(r, "running"))
      BY RunningCount
    <3>3. IsFiniteSet(most) /\ Cardinality(most) <= Cardinality(Rows(r, "running")) + 1
      <4>1. first \notin Rows(r, "running")
        BY <2>2, <2>5 DEF Rows
      <4>2. IsFiniteSet(most) /\ Cardinality(most) = Cardinality(Rows(r, "running")) + 1
        BY <3>2, <4>1, FS_AddElement
      <4>3. Cardinality(Rows(r, "running")) \in Nat
        BY <3>2, FS_CardinalityType
      <4> HIDE DEF most
      <4> QED  BY <4>2, <4>3
    <3>4. Cardinality(atWork) <= Cardinality(most) /\ Cardinality(most) \in Nat /\ Cardinality(atWork) \in Nat
      BY <3>1, <3>3, FS_Subset, FS_CardinalityType
    <3> HIDE DEF atWork, most
    <3>5. Cardinality(atWork) <= MaxConcurrency
      BY <2>3, <2>5, <3>3, <3>4
    <3> QED  BY <3>5 DEF atWork
  <2> QED  BY <2>2, <2>3, <2>4, <2>6, <2>7, <2>8
<1> QED  BY <1>1, <1>2

\* Blocked rows that are unblocked or doomed.
LEMMA UnblockKeeps ==
  ASSUME SwarmTyped, Settled(rows, codex)
  PROVE  /\ Settled(Unblock(rows), codex)
         /\ \A t \in SwarmTasks : Unblock(rows)[t] = "completed" => rows[t] = "completed"
<1>0. \A t \in SwarmTasks : deps[t] \subseteq SwarmTasks
  BY DEF SwarmTyped, DependencyGraphs
<1>1. \A t \in SwarmTasks :
        /\ rows[t] # "blocked" => Unblock(rows)[t] = rows[t]
        /\ rows[t] = "blocked" => Unblock(rows)[t] \in {"failed", "queued", "blocked"}
        /\ rows[t] = "blocked" /\ Unblock(rows)[t] = "queued" => \A d \in deps[t] : rows[d] = "completed"
  BY DEF Unblock, Unblocked
<1>2. \A t \in SwarmTasks : rows[t] = "completed" <=> Unblock(rows)[t] = "completed"
  BY <1>1
<1>3. \A t \in SwarmTasks : Unblock(rows)[t] = "queued" => \A d \in deps[t] : rows[d] = "completed"
  BY <1>1 DEF Settled
<1>4. \A t \in SwarmTasks : Unblock(rows)[t] = "queued" => \A d \in deps[t] : Unblock(rows)[d] = "completed"
  BY <1>0, <1>2, <1>3
<1>5. \A t \in SwarmTasks : Unblock(rows)[t] = "running" <=> rows[t] = "running"
  BY <1>1
<1>6. \A t \in SwarmTasks : Unblock(rows)[t] \in {"blocked", "queued"} => rows[t] \in {"blocked", "queued"}
  BY <1>1
<1> QED  BY <1>2, <1>4, <1>5, <1>6 DEF Settled

\* Both kinds of launch go on from what the tick relies on.
LEMMA LaunchKinds ==
  ASSUME SwarmInv, Launches \/ CodexStarts
  PROVE  \E r \in [SwarmTasks -> TaskStates], c \in [SwarmTasks -> CodexPlaces],
            list \in SUBSET SwarmTasks, running \in Nat :
           /\ LaunchNext(r, c, list, running)
           /\ halted = FALSE => /\ Settled(r, c) /\ \A t \in list : r[t] = "queued"
                                /\ Cardinality(Rows(r, "running")) = running
           /\ \A t \in list : c[t] = "none" => codex[t] = "none"
           /\ \A t \in SwarmTasks : halted = FALSE /\ r[t] = "completed"
                                      => rows[t] = "completed" /\ codex[t] = "succeeded"
<1>0. SwarmTyped /\ AtTask /\ rows \in [SwarmTasks -> TaskStates] /\ codex \in [SwarmTasks -> CodexPlaces]
      /\ ticker.todo \subseteq SwarmTasks /\ ticker.running \in Nat
      /\ (halted = FALSE /\ ticker.at # "off" => TickHolds)
  BY SwarmAssumption DEF SwarmInv, SwarmTyped, Tickers
<1>1. CASE Launches
  <2> DEFINE r == Unblock(rows)
  <2>1. ticker.at = "poll" /\ LaunchNext(r, codex, Rows(r, "queued"), Cardinality(Rows(r, "running")))
    BY <1>1 DEF Launches
  <2>2. r \in [SwarmTasks -> TaskStates]
    BY <1>0 DEF Unblock, TaskStates
  <2>3. halted = FALSE => /\ Settled(r, codex)
                          /\ \A t \in SwarmTasks : r[t] = "completed" => rows[t] = "completed"
    BY <1>0, <2>1, UnblockKeeps DEF TickHolds
  <2>4. halted = FALSE => \A t \in SwarmTasks : rows[t] = "completed" => codex[t] = "succeeded"
    BY <1>0, <2>1 DEF TickHolds, Settled
  <2> HIDE DEF r
  <2>5. Rows(r, "queued") \in SUBSET SwarmTasks /\ (\A t \in Rows(r, "queued") : r[t] = "queued")
    BY DEF Rows
  <2>6. Cardinality(Rows(r, "running")) \in Nat
    BY RunningCount
  <2> QED  BY <1>0, <2>1, <2>2, <2>3, <2>4, <2>5, <2>6
<1>2. CASE CodexStarts
  <2> DEFINE t0 == ticker.task
             r1 == [rows EXCEPT ![t0] = "running"]
             c1 == [codex EXCEPT ![t0] = "live"]
             r2 == [rows EXCEPT ![t0] = "failed"]
             c2 == [codex EXCEPT ![t0] = "refused"]
  <2>0. ticker.at = "run" /\ t0 \in SwarmTasks
    BY <1>0, <1>2 DEF CodexStarts, AtTask
  <2>1. LaunchNext(r1, c1, ticker.todo, ticker.running + 1) \/ LaunchNext(r2, c2, ticker.todo, ticker.running)
    BY <1>2 DEF CodexStarts
  <2>2. /\ r1 \in [SwarmTasks -> TaskStates] /\ r2 \in [SwarmTasks -> TaskStates]
        /\ c1 \in [SwarmTasks -> CodexPlaces] /\ c2 \in [SwarmTasks -> CodexPlaces]
    BY <1>0, <2>0 DEF TaskStates, CodexPlaces
  <2>3. \A t \in SwarmTasks : (c1[t] = "none" => codex[t] = "none") /\ (c2[t] = "none" => codex[t] = "none")
    BY <1>0, <2>0
  <2>4. ASSUME halted = FALSE
        PROVE  /\ Settled(r1, c1) /\ Settled(r2, c2)
               /\ \A t \in ticker.todo : r1[t] = "queued" /\ r2[t] = "queued"
               /\ Cardinality(Rows(r1, "running")) = ticker.running + 1
               /\ Cardinality(Rows(r2, "running")) = ticker.running
               /\ \A t \in SwarmTasks : r1[t] = "completed" \/ r2[t] = "completed"
                                          => rows[t] = "completed" /\ codex[t] = "succeeded"
    <3>1. /\ Settled(rows, [codex EXCEPT ![t0] = "none"]) /\ t0 \notin ticker.todo
          /\ \A t \in ticker.todo \cup {t0} : rows[t] = "queued"
          /\ Cardinality(Rows(rows, "running")) = ticker.running
      BY <1>0, <2>0, <2>4 DEF TickHolds
    <3>2. \A t \in SwarmTasks :
            /\ t # t0 => /\ r1[t] = rows[t] /\ r2[t] = rows[t] /\ c1[t] = codex[t] /\ c2[t] = codex[t]
                         /\ [codex EXCEPT ![t0] = "none"][t] = codex[t]
            /\ t = t0 => r1[t] = "running" /\ r2[t] = "failed" /\ c1[t] = "live" /\ c2[t] = "refused"
      BY <1>0, <2>0
    <3>3. rows[t0] = "queued" /\ \A t \in SwarmTasks : deps[t] \subseteq SwarmTasks
      BY <1>0, <3>1 DEF SwarmTyped, DependencyGraphs
    <3>4. \A t \in SwarmTasks : rows[t] = "completed" => r1[t] = "completed" /\ r2[t] = "completed" /\ t # t0
      BY <3>2, <3>3
    <3> HIDE DEF t0, r1, r2, c1, c2
    <3>5. Settled(r1, c1) /\ Settled(r2, c2)
      BY <3>1, <3>2, <3>3, <3>4 DEF Settled
    <3>6. \A t \in SwarmTasks : r1[t] = "completed" \/ r2[t] = "completed"
                                  => rows[t] = "completed" /\ codex[t] = "succeeded"
      BY <3>1, <3>2 DEF Settled
    <3>7. Rows(r2, "running") = Rows(rows, "running")
      BY <3>2, <3>3 DEF Rows
    <3>8. Rows(r1, "running") = Rows(rows, "running") \cup {t0} /\ t0 \notin Rows(rows, "running")
      BY <2>0, <3>2, <3>3 DEF Rows, t0
    <3>9. Cardinality(Rows(r1, "running")) = ticker.running + 1
      BY <3>1, <3>8, RunningCount, FS_AddElement
    <3>10. \A t \in ticker.todo : r1[t] = "queued" /\ r2[t] = "queued"
      BY <1>0, <3>1, <3>2
    <3> QED  BY <3>1, <3>5, <3>6, <3>7, <3>9, <3>10
  <2> HIDE DEF t0, r1, r2, c1, c2
  <2>5. ticker.running + 1 \in Nat
    BY <1>0
  <2>6. CASE LaunchNext(r1, c1, ticker.todo, ticker.running + 1)
    <3>1. halted = FALSE => /\ Settled(r1, c1) /\ \A t \in ticker.todo : r1[t] = "queued"
                            /\ Cardinality(Rows(r1, "running")) = ticker.running + 1
      BY <2>4
    <3>2. \A t \in ticker.todo : c1[t] = "none" => codex[t] = "none"
      BY <1>0, <2>3
    <3>3. \A t \in SwarmTasks : halted = FALSE /\ r1[t] = "completed"
                                 => rows[t] = "completed" /\ codex[t] = "succeeded"
      BY <2>4
    <3>4. ticker.todo \in SUBSET SwarmTasks /\ ticker.running + 1 \in Nat
      BY <1>0, <2>5
    <3> QED  BY <2>2, <2>6, <3>1, <3>2, <3>3, <3>4
  <2>7. CASE LaunchNext(r2, c2, ticker.todo, ticker.running)
    <3>1. halted = FALSE => /\ Settled(r2, c2) /\ \A t \in ticker.todo : r2[t] = "queued"
                            /\ Cardinality(Rows(r2, "running")) = ticker.running
      BY <2>4
    <3>2. \A t \in ticker.todo : c2[t] = "none" => codex[t] = "none"
      BY <1>0, <2>3
    <3>3. \A t \in SwarmTasks : halted = FALSE /\ r2[t] = "completed"
                                 => rows[t] = "completed" /\ codex[t] = "succeeded"
      BY <2>4
    <3>4. ticker.todo \in SUBSET SwarmTasks /\ ticker.running \in Nat
      BY <1>0, <2>5
    <3> QED  BY <2>2, <2>7, <3>1, <3>2, <3>3, <3>4
  <2> QED  BY <2>1, <2>6, <2>7
<1> QED  BY <1>1, <1>2

\* A cancel that goes through the rows leaves the types as they are.
LEMMA CancelFromTyped ==
  ASSUME NEW seen \in [SwarmTasks -> TaskStates], canceller' \in CancelStates(seen),
         NEW first \in Nat, NEW r \in [SwarmTasks -> TaskStates], CancelFrom(first, r),
         swarm \in {"queued", "running"} \cup Ended
  PROVE  /\ rows' \in [SwarmTasks -> TaskStates] /\ swarm' \in {"queued", "running"} \cup Ended
         /\ canceller' \in Cancellers
         /\ canceller'.at = "stopping" => canceller'.task \in SwarmTasks
<1>1. rows' \in [SwarmTasks -> TaskStates]
  BY DEF CancelFrom, TaskStates
<1>2. swarm' \in {"queued", "running"} \cup Ended
  BY DEF CancelFrom, Ended
<1>3. 0 \in 0 .. NTasks /\ SwarmTasks \subseteq 0 .. NTasks
  BY SwarmAssumption DEF SwarmTasks
<1>4. canceller' \in Cancellers /\ (canceller'.at = "stopping" => canceller'.task \in SwarmTasks)
  BY <1>3 DEF CancelStates, Cancellers
<1> QED  BY <1>1, <1>2, <1>4

\* Every step of a swarm keeps its invariant.
LEMMA SwarmInvStep ==
  ASSUME SwarmInv, [AgentSwarmNext]_swarmVars
  PROVE  SwarmInv'
<1>0. /\ SwarmTyped /\ AtTask /\ (ticker.at = "new" => \A t \in SwarmTasks : codex[t] = "none")
      /\ halted = FALSE /\ ticker.at # "off" => TickHolds
      /\ rows \in [SwarmTasks -> TaskStates] /\ codex \in [SwarmTasks -> CodexPlaces]
      /\ ticker \in Tickers /\ canceller \in Cancellers /\ halted \in {TRUE, FALSE}
      /\ ticker.todo \in SUBSET SwarmTasks /\ NTasks \in Nat /\ NTasks > 0
  <2>1. SwarmInv /\ NTasks \in Nat /\ NTasks > 0
    BY SwarmAssumption
  <2>2. SwarmTyped /\ AtTask /\ (ticker.at = "new" => \A t \in SwarmTasks : codex[t] = "none")
        /\ (halted = FALSE /\ ticker.at # "off" => TickHolds)
    BY <2>1 DEF SwarmInv
  <2>3. halted \in {TRUE, FALSE}
    BY <2>2 DEF SwarmTyped
  <2>4. rows \in [SwarmTasks -> TaskStates] /\ codex \in [SwarmTasks -> CodexPlaces]
        /\ ticker \in Tickers /\ canceller \in Cancellers
    BY <2>2 DEF SwarmTyped
  <2>5. ticker.todo \in SUBSET SwarmTasks
    BY <2>4 DEF Tickers
  <2> QED  BY <2>1, <2>2, <2>3, <2>4, <2>5
<1>1. CASE StartSwarm
  <2>1. /\ ticker.at = "new" /\ deps' \in DependencyGraphs
        /\ rows' = [t \in SwarmTasks |-> IF deps'[t] = {} THEN "queued" ELSE "blocked"]
        /\ UNCHANGED <<swarm, codex, canceller, halted>>
    BY <1>1 DEF StartSwarm
  <2>2. ticker' \in Tickers /\ ticker'.at = "sleep" /\ ticker'.task = 0
    BY <1>0, <1>1 DEF StartSwarm, Tickers, AtTask
  <2>3. rows' \in [SwarmTasks -> TaskStates]
    BY <2>1 DEF TaskStates
  <2>4. SwarmTyped' /\ AtTask'
    BY <1>0, <2>1, <2>2, <2>3 DEF SwarmTyped, AtTask
  <2>5. TickHolds'
    <3>1. \A t \in SwarmTasks : /\ rows'[t] \in {"queued", "blocked"} /\ codex'[t] = "none"
                                /\ rows'[t] = "queued" => deps'[t] = {}
      BY <1>0, <2>1
    <3> QED  BY <2>2, <3>1 DEF TickHolds, Settled
  <2> QED  BY <2>2, <2>4, <2>5 DEF SwarmInv
<1>2. CASE Wake
  <2>1. ticker.at = "sleep" /\ UNCHANGED <<deps, rows, swarm, codex, canceller, halted>>
    BY <1>2 DEF Wake
  <2>2. ticker' \in Tickers /\ ticker'.at \in {"off", "poll"} /\ ticker'.task = 0
    <3>1. Rows(rows, "running") \subseteq SwarmTasks
      BY DEF Rows
    <3> QED  BY <1>0, <1>2, <2>1, <3>1 DEF Wake, Tickers, AtTask
  <2>3. SwarmTyped' /\ AtTask'
    BY <1>0, <2>1, <2>2 DEF SwarmTyped, AtTask
  <2>4. halted' = FALSE => TickHolds'
    BY <1>0, <2>1, <2>2 DEF TickHolds, Settled
  <2> QED  BY <2>2, <2>3, <2>4 DEF SwarmInv
<1>3. CASE Poll
  <2> DEFINE t == FirstOf(ticker.todo)
  <2>1. /\ ticker.at = "poll" /\ UNCHANGED <<deps, swarm, codex, canceller, halted>>
        /\ rows' = IF codex[t] = "lost" THEN [rows EXCEPT ![t] = "termination_unverified"] ELSE rows
        /\ ticker' = IF codex[t] \in {"succeeded", "failed"}
                     THEN [ticker EXCEPT !.at = "logs", !.task = t, !.todo = ticker.todo \ {t}]
                     ELSE [ticker EXCEPT !.todo = ticker.todo \ {t}]
    BY <1>3 DEF Poll
  <2>2. t \in SwarmTasks
    BY <1>0, <1>3, FirstIsOne DEF Poll
  <2>3. t \in 0 .. NTasks
    BY <2>2, SwarmAssumption DEF SwarmTasks
  <2> HIDE DEF t
  <2>4. /\ ticker' \in Tickers
        /\ \/ ticker'.at = "logs" /\ ticker'.task = t /\ codex[t] \in {"succeeded", "failed"}
           \/ ticker'.at = "poll" /\ ticker'.task = ticker.task
    BY <1>0, <2>1, <2>3 DEF Tickers
  <2>5. rows' \in [SwarmTasks -> TaskStates]
    BY <1>0, <2>1, <2>2 DEF TaskStates
  <2>6. SwarmTyped' /\ AtTask'
    BY <1>0, <2>1, <2>2, <2>4, <2>5 DEF SwarmTyped, AtTask
  <2>7. ASSUME halted = FALSE PROVE Settled(rows, codex)'
    <3>1. Settled(rows, codex)
      BY <1>0, <2>1, <2>7 DEF TickHolds
    <3>2. CASE rows' = rows
      BY <2>1, <3>1, <3>2 DEF Settled
    <3>3. CASE codex[t] = "lost" /\ rows' = [rows EXCEPT ![t] = "termination_unverified"]
      <4>1. rows[t] # "completed"
        BY <2>2, <3>1, <3>3 DEF Settled
      <4>2. \A u \in SwarmTasks : /\ u # t => rows'[u] = rows[u]
                                  /\ rows'[t] = "termination_unverified"
        BY <1>0, <2>2, <3>3
      <4>3. \A u \in SwarmTasks : deps[u] \subseteq SwarmTasks
        BY <1>0 DEF SwarmTyped, DependencyGraphs
      <4> QED  BY <2>1, <3>1, <3>3, <4>1, <4>2, <4>3 DEF Settled
    <3> QED  BY <2>1, <3>2, <3>3
  <2>8. halted' = FALSE => TickHolds'
    BY <2>1, <2>4, <2>7 DEF TickHolds
  <2> QED  BY <2>4, <2>6, <2>8 DEF SwarmInv
<1>4. CASE Collect
  <2> DEFINE t == ticker.task
  <2>1. /\ ticker.at = "logs" /\ UNCHANGED <<deps, swarm, codex, canceller, halted>>
        /\ rows' = [rows EXCEPT ![t] = IF codex[t] = "succeeded" THEN "completed" ELSE "failed"]
        /\ ticker' = [ticker EXCEPT !.at = "poll"]
    BY <1>4 DEF Collect
  <2>2. t \in SwarmTasks /\ codex[t] \in {"succeeded", "failed"}
    <3>1. t \in SwarmTasks /\ 0 \notin SwarmTasks
      BY <1>0, <2>1 DEF AtTask, SwarmTasks
    <3> QED  BY <1>0, <2>1, <3>1 DEF AtTask
  <2>3. ticker' \in Tickers /\ ticker'.at = "poll" /\ ticker'.task = t
    BY <1>0, <2>1 DEF Tickers
  <2> HIDE DEF t
  <2>4. rows' \in [SwarmTasks -> TaskStates]
    BY <1>0, <2>1, <2>2 DEF TaskStates
  <2>5. SwarmTyped' /\ AtTask'
    BY <1>0, <2>1, <2>2, <2>3, <2>4 DEF SwarmTyped, AtTask
  <2>6. ASSUME halted = FALSE PROVE Settled(rows, codex)'
    <3>1. Settled(rows, codex)
      BY <1>0, <2>1, <2>6 DEF TickHolds
    <3>2. \A u \in SwarmTasks : /\ u # t => rows'[u] = rows[u]
                                /\ rows'[t] = IF codex[t] = "succeeded" THEN "completed" ELSE "failed"
      BY <1>0, <2>1, <2>2
    <3>3. rows[t] = "completed" => rows'[t] = "completed"
      BY <2>2, <3>1, <3>2 DEF Settled
    <3>4. \A u \in SwarmTasks : deps[u] \subseteq SwarmTasks
      BY <1>0 DEF SwarmTyped, DependencyGraphs
    <3> QED  BY <2>1, <2>2, <3>1, <3>2, <3>3, <3>4 DEF Settled
  <2>7. halted' = FALSE => TickHolds'
    BY <2>1, <2>3, <2>6 DEF TickHolds
  <2> QED  BY <2>3, <2>5, <2>7 DEF SwarmInv
<1>5. CASE Launches \/ CodexStarts
  <2>1. PICK r \in [SwarmTasks -> TaskStates], c \in [SwarmTasks -> CodexPlaces],
             list \in SUBSET SwarmTasks, running \in Nat :
           /\ LaunchNext(r, c, list, running)
           /\ halted = FALSE => /\ Settled(r, c) /\ \A t \in list : r[t] = "queued"
                                /\ Cardinality(Rows(r, "running")) = running
    BY <1>5, LaunchKinds
  <2>2. UNCHANGED <<deps, canceller, halted>>
    BY <1>5 DEF Launches, CodexStarts
  <2>3. /\ SwarmTyped' /\ ticker'.at \in {"sleep", "run"}
        /\ ticker'.at = "sleep" => ticker'.task = 0
        /\ ticker'.at = "run" => ticker'.task \in SwarmTasks
    BY <1>0, <2>1, <2>2, LaunchNextTyped
  <2>4. halted = FALSE => TickHolds'
    BY <1>0, <2>1, <2>2, LaunchNextInOrder
  <2>5. AtTask'
    <3>1. ticker.at # "off"
      BY <1>5 DEF Launches, CodexStarts
    <3> QED  BY <1>0, <2>2, <2>3, <3>1 DEF AtTask
  <2> QED  BY <2>2, <2>3, <2>4, <2>5 DEF SwarmInv
<1>6. CASE Cancel
  <2>1. /\ UNCHANGED <<deps, codex, ticker>> /\ halted' = TRUE
        /\ canceller' \in CancelStates(rows) /\ CancelFrom(1, rows)
    BY <1>6 DEF Cancel
  <2>2. /\ rows' \in [SwarmTasks -> TaskStates] /\ swarm' \in {"queued", "running"} \cup Ended
        /\ canceller' \in Cancellers
        /\ canceller'.at = "stopping" => canceller'.task \in SwarmTasks
    BY <1>0, <2>1, CancelFromTyped DEF SwarmTyped
  <2>3. SwarmTyped' /\ AtTask'
    BY <1>0, <2>1, <2>2 DEF SwarmTyped, AtTask
  <2> QED  BY <1>0, <2>1, <2>3 DEF SwarmInv
<1>7. CASE Stopped
  <2> DEFINE t == canceller.task
  <2>1. /\ UNCHANGED <<deps, ticker, halted>> /\ canceller.at = "stopping"
        /\ canceller' \in CancelStates(canceller.seen)
        /\ \E state \in {"cancelled", "termination_unverified"} :
             CancelFrom(t + 1, [rows EXCEPT ![t] = state])
        /\ codex' \in {codex, [codex EXCEPT ![t] = "failed"]} /\ (codex' # codex => codex[t] = "live")
    <3>1. t \in SwarmTasks
      BY <1>0, <1>7 DEF Stopped, AtTask
    <3>2. codex[t] # "live" => [codex EXCEPT ![t] = codex[t]] = codex
      BY <1>0, <3>1
    <3> QED  BY <1>7, <3>2 DEF Stopped
  <2>2. t \in SwarmTasks /\ canceller.seen \in [SwarmTasks -> TaskStates] /\ t + 1 \in Nat
    BY <1>0, <2>1 DEF AtTask, Cancellers, SwarmTasks
  <2> HIDE DEF t
  <2>3. /\ rows' \in [SwarmTasks -> TaskStates] /\ swarm' \in {"queued", "running"} \cup Ended
        /\ canceller' \in Cancellers
        /\ canceller'.at = "stopping" => canceller'.task \in SwarmTasks
    <3>1. \A state \in {"cancelled", "termination_unverified"} :
            [rows EXCEPT ![t] = state] \in [SwarmTasks -> TaskStates]
      BY <1>0, <2>2 DEF TaskStates
    <3> QED  BY <1>0, <2>1, <2>2, <3>1, CancelFromTyped DEF SwarmTyped
  <2>4. codex' \in [SwarmTasks -> CodexPlaces]
    BY <1>0, <2>1, <2>2 DEF CodexPlaces
  <2>5. halted' = TRUE \/ ticker'.at = "off"
    BY <1>0, <2>1 DEF AtTask
  <2>6. ticker.at = "new" => codex' = codex
    BY <1>0, <2>1, <2>2
  <2>7. SwarmTyped' /\ AtTask'
    <3>1. \A u \in SwarmTasks : codex[u] \in {"succeeded", "failed"} => codex'[u] \in {"succeeded", "failed"}
      <4>1. CASE codex' = codex
        BY <4>1
      <4>2. CASE codex' = [codex EXCEPT ![t] = "failed"]
        BY <1>0, <2>2, <4>2
      <4> QED  BY <2>1, <4>1, <4>2
    <3>2. SwarmTyped'
      BY <1>0, <2>1, <2>3, <2>4 DEF SwarmTyped
    <3>3. ticker.task # 0 => ticker.task \in SwarmTasks
      BY <1>0 DEF Tickers, SwarmTasks
    <3>4. AtTask'
      BY <1>0, <2>1, <2>3, <2>5, <3>1, <3>3 DEF AtTask
    <3> QED  BY <3>2, <3>4
  <2> QED  BY <1>0, <2>1, <2>5, <2>6, <2>7 DEF SwarmInv
<1>8. CASE CodexExits \/ HandleLost
  <2>1. PICK t \in SwarmTasks, how \in {"succeeded", "failed", "lost"} :
          codex[t] = "live" /\ codex' = [codex EXCEPT ![t] = how]
    BY <1>8 DEF CodexExits, HandleLost
  <2>2. UNCHANGED <<deps, rows, swarm, ticker, canceller, halted>>
    BY <1>8 DEF CodexExits, HandleLost
  <2>3. /\ codex' \in [SwarmTasks -> CodexPlaces] /\ codex'[t] = how
        /\ \A u \in SwarmTasks : u # t => codex'[u] = codex[u]
    BY <1>0, <2>1 DEF CodexPlaces
  <2>4. SwarmTyped' /\ AtTask'
    <3>1. ticker.task # 0 => ticker.task \in SwarmTasks
      BY <1>0 DEF Tickers, SwarmTasks
    <3> QED  BY <1>0, <2>1, <2>2, <2>3, <3>1 DEF SwarmTyped, AtTask
  <2>5. ticker.at # "new"
    BY <1>0, <2>1
  <2>6. ASSUME halted = FALSE, ticker.at # "off" PROVE TickHolds'
    <3>1. TickHolds
      BY <1>0, <2>6
    <3>2. CASE ticker.at # "run"
      BY <2>1, <2>2, <2>3, <3>1, <3>2 DEF TickHolds, Settled
    <3>3. CASE ticker.at = "run"
      <4> DEFINE was == [codex EXCEPT ![ticker.task] = "none"]
                 is == [codex' EXCEPT ![ticker.task] = "none"]
      <4>1. ticker.task \in SwarmTasks /\ ticker.task # t /\ codex'[ticker.task] = "starting"
        BY <1>0, <2>1, <2>3, <3>1, <3>3 DEF TickHolds, AtTask
      <4>2. was[t] = "live" /\ is[t] = how /\ \A u \in SwarmTasks : u # t => is[u] = was[u]
        BY <1>0, <2>1, <2>3, <4>1
      <4>3. Settled(rows, was)
        BY <3>1, <3>3 DEF TickHolds
      <4> HIDE DEF was, is
      <4>4. Settled(rows, is)
        BY <2>1, <4>2, <4>3 DEF Settled
      <4>5. Settled(rows, [codex EXCEPT ![ticker.task] = "none"])'
        BY <2>2, <4>4 DEF Settled, is
      <4> QED  BY <2>2, <3>1, <3>3, <4>1, <4>5 DEF TickHolds, Rows
    <3> QED  BY <3>2, <3>3
  <2> QED  BY <2>2, <2>4, <2>5, <2>6 DEF SwarmInv
<1>9. CASE RequestAborted
  <2>1. halted' = TRUE /\ ticker.at # "new" /\ UNCHANGED <<deps, rows, swarm, codex, ticker, canceller>>
    BY <1>9 DEF RequestAborted
  <2>2. SwarmTyped' /\ AtTask'
    BY <1>0, <2>1 DEF SwarmTyped, AtTask
  <2> QED  BY <2>1, <2>2 DEF SwarmInv
<1>10. CASE SwarmRestart
  <2>1. /\ ticker' = [at |-> "off", todo |-> {}, task |-> 0, running |-> 0]
        /\ canceller' = [canceller EXCEPT !.at = "done", !.task = 0]
        /\ UNCHANGED <<deps, codex, halted>>
    BY <1>10 DEF SwarmRestart
  <2>2. rows' \in [SwarmTasks -> TaskStates] /\ swarm' \in {"queued", "running"} \cup Ended
    <3>1. rows' \in [SwarmTasks -> TaskStates]
      BY <1>0, <1>10 DEF SwarmRestart, TaskStates
    <3>2. swarm' \in {swarm, "termination_unverified"}
      BY <1>10 DEF SwarmRestart
    <3> QED  BY <1>0, <3>1, <3>2 DEF SwarmTyped, Ended
  <2>3. ticker' \in Tickers /\ ticker'.at = "off" /\ ticker'.task = 0
    BY <1>0, <2>1 DEF Tickers
  <2>4. canceller' \in Cancellers /\ canceller'.at = "done"
    <3>1. 0 \in 0 .. NTasks
      BY <1>0
    <3> QED  BY <1>0, <2>1, <3>1 DEF Cancellers
  <2>5. SwarmTyped' /\ AtTask'
    BY <1>0, <2>1, <2>2, <2>3, <2>4 DEF SwarmTyped, AtTask
  <2> QED  BY <2>3, <2>5 DEF SwarmInv
<1>11. CASE UNCHANGED swarmVars
  <2>1. UNCHANGED <<deps, rows, swarm, codex, ticker, canceller, halted>>
    BY <1>11 DEF swarmVars
  <2>2. SwarmTyped' /\ AtTask'
    BY <1>0, <2>1 DEF SwarmTyped, AtTask
  <2>3. TickHolds => TickHolds'
    BY <2>1 DEF TickHolds, Settled, Rows
  <2> QED  BY <1>0, <2>1, <2>2, <2>3 DEF SwarmInv
<1> QED  BY <1>1, <1>2, <1>3, <1>4, <1>5, <1>6, <1>7, <1>8, <1>9, <1>10, <1>11
         DEF AgentSwarmNext, MonitorStep

\* The invariant of a swarm holds before it is asked for.
LEMMA SwarmInvInit == AgentSwarmInit => SwarmInv
<1> SUFFICES ASSUME AgentSwarmInit PROVE SwarmInv
  OBVIOUS
<1>1. deps \in DependencyGraphs /\ \A t \in SwarmTasks : deps[t] = {}
  BY DEF AgentSwarmInit, DependencyGraphs, Acyclic
<1>2. rows \in [SwarmTasks -> TaskStates] /\ codex \in [SwarmTasks -> CodexPlaces] /\ swarm = "queued"
      /\ \A t \in SwarmTasks : rows[t] = "queued" /\ codex[t] = "none"
  BY DEF AgentSwarmInit, TaskStates, CodexPlaces
<1>3. ticker \in Tickers /\ ticker.at = "new" /\ ticker.task = 0
  BY SwarmAssumption DEF AgentSwarmInit, Tickers
<1>4. canceller \in Cancellers /\ canceller.at = "idle" /\ halted = FALSE
  BY <1>2, SwarmAssumption DEF AgentSwarmInit, Cancellers
<1>5. SwarmTyped /\ AtTask
  BY <1>1, <1>2, <1>3, <1>4 DEF SwarmTyped, AtTask
<1>6. TickHolds
  BY <1>1, <1>2, <1>3 DEF TickHolds, Settled
<1> QED  BY <1>2, <1>5, <1>6 DEF SwarmInv

\* The parts of the invariant's types are those of the swarm.
LEMMA SwarmInvTyped == SwarmInv => AgentSwarmTypeOK
BY DEF SwarmInv, SwarmTyped, AgentSwarmTypeOK, CodexPlaces, Tickers, Cancellers

\* The types of a swarm and the invariant its launches rest on: as long as it is
\* neither cancelled nor aborted, its rows tell of its codex processes, and
\* what a tick read before an await still holds after it
\* (tick: agent-swarm-service.ts:188-244).
THEOREM SwarmInvariant == AgentSwarmSpec => [](SwarmInv /\ AgentSwarmTypeOK)
<1>1. AgentSwarmSpec => []SwarmInv
  BY SwarmInvInit, SwarmInvStep, PTL DEF AgentSwarmSpec
<1> QED  BY <1>1, SwarmInvTyped, PTL

\* Tasks of a swarm are launched at most once, after all they depend on, no more
\* at a time than the limit, and none once it is cancelled, for any number of
\* tasks and any dependencies without a cycle
\* (tick: agent-swarm-service.ts:188-244).
THEOREM TasksLaunchInOrder == AgentSwarmSpec => LaunchedInOrder
<1> DEFINE Ordered ==
      \A t \in SwarmTasks :
        codex'[t] = "starting" /\ ticker # ticker' /\ ticker'.task = t =>
          /\ codex[t] = "none" /\ ~halted
          /\ \A d \in deps[t] : rows[d] = "completed" /\ codex[d] = "succeeded"
          /\ Cardinality({u \in SwarmTasks : codex'[u] \in {"starting", "live"}}) <= MaxConcurrency
<1>1. ASSUME SwarmInv, [AgentSwarmNext]_swarmVars
      PROVE  [Ordered]_swarmVars
  <2> SUFFICES ASSUME NEW t \in SwarmTasks, codex'[t] = "starting", ticker # ticker', ticker'.task = t
               PROVE  /\ codex[t] = "none" /\ ~halted
                      /\ \A d \in deps[t] : rows[d] = "completed" /\ codex[d] = "succeeded"
                      /\ Cardinality({u \in SwarmTasks : codex'[u] \in {"starting", "live"}}) <= MaxConcurrency
    OBVIOUS
  <2>0. /\ SwarmTyped /\ AtTask /\ SwarmInv' /\ AtTask' /\ t # 0
        /\ \A u \in SwarmTasks : deps[u] \subseteq SwarmTasks
    <3>1. SwarmTyped /\ AtTask /\ SwarmInv'
      BY <1>1, SwarmInvStep DEF SwarmInv
    <3>2. AtTask' /\ t # 0
      BY <3>1 DEF SwarmInv, SwarmTasks
    <3>3. \A u \in SwarmTasks : deps[u] \subseteq SwarmTasks
      BY <3>1 DEF SwarmTyped, DependencyGraphs
    <3> QED  BY <3>1, <3>2, <3>3
  <2>1. ticker'.at = "run"
    <3>1. ticker'.at \in {"new", "sleep", "poll", "logs", "run", "off"}
      BY <2>0 DEF SwarmInv, SwarmTyped, Tickers
    <3> QED  BY <2>0, <3>1 DEF AtTask
  <2>2. CASE Launches \/ CodexStarts
    <3>1. PICK r \in [SwarmTasks -> TaskStates], c \in [SwarmTasks -> CodexPlaces],
               list \in SUBSET SwarmTasks, running \in Nat :
             /\ LaunchNext(r, c, list, running)
             /\ halted = FALSE => /\ Settled(r, c) /\ \A u \in list : r[u] = "queued"
                                  /\ Cardinality(Rows(r, "running")) = running
             /\ \A u \in list : c[u] = "none" => codex[u] = "none"
             /\ \A u \in SwarmTasks : halted = FALSE /\ r[u] = "completed"
                                        => rows[u] = "completed" /\ codex[u] = "succeeded"
      BY <1>1, <2>2, LaunchKinds
    <3>2. UNCHANGED <<deps, canceller, halted>>
      BY <2>2 DEF Launches, CodexStarts
    <3>3. /\ halted = FALSE /\ t \in list /\ c[t] = "none"
          /\ \A d \in deps[t] : r[d] = "completed"
          /\ Cardinality({u \in SwarmTasks : codex'[u] \in {"starting", "live"}}) <= MaxConcurrency
      BY <2>0, <2>1, <3>1, <3>2, LaunchNextInOrder
    <3> QED  BY <2>0, <3>1, <3>3
  <2>3. CASE ~(Launches \/ CodexStarts)
    <3>1. ticker' = ticker \/ Wake \/ Poll \/ Collect \/ StartSwarm \/ SwarmRestart
      BY <1>1, <2>3 DEF AgentSwarmNext, MonitorStep, Cancel, Stopped, CodexExits, HandleLost,
                        RequestAborted, swarmVars
    <3>2. ticker \in Tickers
      BY <2>0 DEF SwarmTyped
    <3>3. ticker'.at # "run"
      <4>1. CASE Wake
        BY <3>2, <4>1 DEF Wake, Tickers
      <4>2. CASE Poll
        BY <3>2, <4>2 DEF Poll, Tickers
      <4>3. CASE Collect
        BY <3>2, <4>3 DEF Collect, Tickers
      <4>4. CASE StartSwarm
        BY <3>2, <4>4 DEF StartSwarm, Tickers
      <4>5. CASE SwarmRestart
        BY <4>5 DEF SwarmRestart
      <4> QED  BY <3>1, <4>1, <4>2, <4>3, <4>4, <4>5
    <3> QED  BY <2>1, <3>3
  <2> QED  BY <2>2, <2>3
<1> QED  BY <1>1, SwarmInvariant, PTL DEF AgentSwarmSpec, LaunchedInOrder

-----------------------------------------------------------------------------
(* Backups                                                                *)

Backup == [data : DataContents, file : {"main", "archive"}, manifest : {"main", "archive"}]

\* A backup from which these contents can be had, now or after a move.
KeptIn(k) == Restorable(k) \/ UnderWay(k) \/ k \in split
Kept(v) == \E k \in Ids : backups[k].data = v /\ KeptIn(k)

\* Only processes that have the database open archive; a backup under way has
\* left its manifest behind, and one process moves it.
JobsInOrder ==
  \A p \in Apps :
    /\ apps[p].at # "up" => apps[p].job = "none"
    /\ apps[p].job \in {"file", "moved"} => apps[p].todo # {} /\ apps[p].todo \subseteq Ids
    /\ apps[p].job = "moved" =>
         /\ backups[Moving(p)].file = "archive" /\ backups[Moving(p)].manifest = "main"
         /\ \A q \in Apps \ {p} : apps[q].job = "moved" => Moving(q) # Moving(p)

\* A manifest is archived after its database file.
ManifestFollows == \A k \in Ids : backups[k].manifest = "archive" => backups[k].file = "archive"

\* What is to be restored is a backup.
ClaimsExist ==
  /\ data.marker \in 0 .. Len(backups)
  /\ \A p \in Apps : Restoring(p) => apps[p].claim \in Ids

\* A restore nothing runs beside has kept what it is about to replace.
RestoresKeep ==
  \A p \in Apps : Restoring(p) /\ ~apps[p].beside =>
    /\ \A q \in Apps \ {p} : apps[q].at = "down"
    /\ apps[p].at = "aside" => data.db = Missing \/ Kept(data.db)
    /\ apps[p].at = "place" => data.db = Missing

BackupsTypes == BackupsTypeOK /\ backups \in Seq(Backup)

BackupsInv ==
  /\ BackupsTypes /\ JobsInOrder /\ ManifestFollows /\ ClaimsExist /\ RestoresKeep
  /\ \A v \in displaced : Kept(v)

\* A set of backups that is not empty has a newest one.
LEMMA NewestIsOne ==
  ASSUME NEW n \in Nat, NEW todo \in SUBSET (1 .. n), todo # {}
  PROVE  NewestOf(todo) \in todo
BY GreatestOfSome DEF NewestOf

\* The invariant of the backups holds at first.
LEMMA BackupsInvInit == BackupsInit => BackupsInv
<1> SUFFICES ASSUME BackupsInit PROVE BackupsInv
  OBVIOUS
<1>1. backups = <<>> /\ Len(backups) = 0 /\ backups \in Seq(Backup) /\ Ids = {} /\ displaced = {} /\ split = {}
  BY DEF BackupsInit, Ids
<1>2. DownApp \in App
  BY BackupsAssumption DEF DownApp, App, BackupsAssumption
<1>3. apps \in [Apps -> App] /\ \A p \in Apps : apps[p] = DownApp
  BY <1>2 DEF BackupsInit
<1>4. data \in [db : DataContents, old : DataContents, marker : 0 .. MaxBackups, writes : 0 .. MaxWrites] /\ data.marker = 0
  BY BackupsAssumption DEF BackupsInit, BackupsAssumption, DataContents, Missing
<1>5. \A p \in Apps : apps[p].job = "none" /\ apps[p].at = "down"
  BY <1>3 DEF DownApp
<1> QED BY <1>1, <1>3, <1>4, <1>5, BackupsAssumption DEF BackupsInv, BackupsTypes, BackupsTypeOK, JobsInOrder,
          ManifestFollows, ClaimsExist, RestoresKeep, Restoring, BackupsAssumption

\* Types, with the places of one process.
LEMMA AppTypes ==
  ASSUME BackupsInv, NEW p \in Apps
  PROVE  /\ apps[p] \in App
         /\ Len(backups) \in Nat /\ Len(backups) <= MaxBackups /\ Ids = 1 .. Len(backups)
         /\ \A k \in Ids : backups[k] \in Backup
         /\ apps[p].job \in {"file", "moved"} => Moving(p) \in apps[p].todo /\ Moving(p) \in Ids
<1> USE DEF BackupsInv, BackupsTypes
<1>1. Len(backups) \in Nat /\ Len(backups) <= MaxBackups /\ Ids = 1 .. Len(backups)
  BY BackupsAssumption DEF BackupsTypeOK, BackupsAssumption, Ids
<1>2. ASSUME apps[p].job \in {"file", "moved"} PROVE Moving(p) \in apps[p].todo /\ Moving(p) \in Ids
  <2>1. apps[p].todo # {} /\ apps[p].todo \in SUBSET (1 .. Len(backups))
    BY <1>1, <1>2 DEF JobsInOrder
  <2> QED BY <1>1, <2>1, NewestIsOne DEF Moving
<1> QED BY <1>1, <1>2 DEF BackupsTypeOK, Backup

\* What stays kept while backups are added or moved.
LEMMA KeptStays ==
  ASSUME BackupsInv, Len(backups) <= Len(backups'), Len(backups') \in Nat,
         \A k \in Ids : backups'[k].data = backups[k].data /\ (KeptIn(k) => KeptIn(k)')
  PROVE  \A v : Kept(v) => Kept(v)'
<1>1. Len(backups) \in Nat
  BY BackupsAssumption DEF BackupsInv, BackupsTypes, BackupsTypeOK, BackupsAssumption
<1>2. Ids \subseteq Ids'
  BY <1>1 DEF Ids
<1> QED BY <1>2 DEF Kept

\* Jobs stay in order, and moves under way, where one process goes on and none
\* of its moves begins or ends.
LEMMA JobsStay ==
  ASSUME BackupsInv, NEW p \in Apps, UNCHANGED backups,
         \A q \in Apps \ {p} : apps'[q] = apps[q],
         \/ apps'[p] = apps[p]
         \/ /\ apps[p].job # "moved" /\ apps'[p].job # "moved"
            /\ apps'[p].at # "up" => apps'[p].job = "none"
            /\ apps'[p].job = "file" => apps'[p].todo # {} /\ apps'[p].todo \subseteq Ids
  PROVE  JobsInOrder' /\ \A k \in Ids : UnderWay(k) => UnderWay(k)'
<1> USE DEF BackupsInv
<1>1. \A q \in Apps \ {p} : Moving(q)' = Moving(q)
  BY DEF Moving
<1>2. apps'[p] = apps[p] => Moving(p)' = Moving(p)
  BY DEF Moving
<1>3. Ids' = Ids
  BY DEF Ids
<1>4. \A k \in Ids : UnderWay(k) => UnderWay(k)'
  BY <1>1, <1>2 DEF UnderWay
<1>5. JobsInOrder'
  BY <1>1, <1>2, <1>3 DEF JobsInOrder
<1> QED BY <1>4, <1>5

\* A step of a running process in which no backup changes, and that is no step
\* within a restore.
LEMMA SameBackups ==
  ASSUME BackupsInv, NEW p \in Apps, UNCHANGED <<backups, displaced, split>>,
         data' \in [db : DataContents, old : DataContents, marker : 0 .. MaxBackups, writes : 0 .. MaxWrites],
         data'.marker \in 0 .. Len(backups),
         apps' \in [Apps -> App],
         \A q \in Apps \ {p} : apps'[q] = apps[q],
         JobsInOrder', \A k \in Ids : UnderWay(k) => UnderWay(k)',
         apps[p].at # "down", ~Restoring(p)'
  PROVE  BackupsInv'
<1> USE DEF BackupsInv, BackupsTypes
<1>1. BackupsTypes' /\ Ids' = Ids
  BY DEF BackupsTypeOK, Ids
<1>2. \A q \in Apps \ {p} : Restoring(q)' <=> Restoring(q)
  BY DEF Restoring
<1>3. \A k \in Ids : Restorable(k)' <=> Restorable(k)
  BY DEF Restorable
<1>4. \A v : Kept(v) => Kept(v)'
  BY <1>1, <1>3 DEF Kept, KeptIn
<1>6. ManifestFollows'
  BY <1>1 DEF ManifestFollows
<1>7. ClaimsExist'
  BY <1>1, <1>2 DEF ClaimsExist
<1>8. RestoresKeep'
  <2> SUFFICES ASSUME NEW q \in Apps, Restoring(q)', ~apps'[q].beside
               PROVE  FALSE
    BY DEF RestoresKeep
  <2>1. q # p /\ Restoring(q) /\ ~apps[q].beside
    BY <1>2
  <2> QED BY <2>1 DEF RestoresKeep
<1>9. \A v \in displaced' : Kept(v)'
  BY <1>4
<1> QED BY <1>1, <1>6, <1>7, <1>8, <1>9

\* A process that gives up its restore, or has done it, or opens the database.
LEMMA AnotherPlace ==
  ASSUME BackupsInv, NEW p \in Apps, NEW place \in {"open", "up"},
         UNCHANGED <<backups, displaced, split>>,
         apps' = [apps EXCEPT ![p] = [DownApp EXCEPT !.at = place]],
         data' \in [db : DataContents, old : DataContents, marker : 0 .. MaxBackups, writes : 0 .. MaxWrites],
         data'.marker \in 0 .. Len(backups),
         apps[p].at \notin {"down", "up"}
  PROVE  BackupsInv'
<1>0. DownApp \in App
  BY BackupsAssumption DEF DownApp, App, BackupsAssumption
<1>1. [DownApp EXCEPT !.at = place] \in App
  BY <1>0 DEF App
<1>2. /\ apps' \in [Apps -> App] /\ \A q \in Apps \ {p} : apps'[q] = apps[q]
      /\ apps'[p].at = place /\ apps'[p].job = "none"
  BY <1>1 DEF BackupsInv, BackupsTypes, BackupsTypeOK, DownApp
<1>3. apps[p].job = "none"
  BY DEF BackupsInv, JobsInOrder
<1>4. JobsInOrder' /\ \A k \in Ids : UnderWay(k) => UnderWay(k)'
  BY <1>2, <1>3, JobsStay
<1> QED BY <1>2, <1>4, SameBackups DEF Restoring

\* A backup of what the database holds is added.
LEMMA AddedBackup ==
  ASSUME BackupsInv, NEW p \in Apps, UNCHANGED <<data, displaced, split>>,
         Len(backups) < MaxBackups, backups' = Stored(data.db),
         apps' \in [Apps -> App], apps'[p].job \in {"none", "rotate"}, apps[p].job \in {"none", "rotate"},
         \A q \in Apps \ {p} : apps'[q] = apps[q],
         \/ apps'[p].at = "up" /\ apps[p].at = "up"
         \/ /\ apps[p].at = "emergency" /\ apps'[p].at = "aside" /\ apps'[p].job = "none"
            /\ apps'[p].beside = apps[p].beside /\ apps'[p].claim = apps[p].claim
  PROVE  BackupsInv' /\ Kept(data.db)'
<1> USE DEF BackupsInv, BackupsTypes
<1> DEFINE new == [data |-> data.db, file |-> "main", manifest |-> "main"]
<1>1. new \in Backup /\ new.data = data.db /\ new.file = "main" /\ new.manifest = "main"
  BY DEF Backup, BackupsTypeOK
<1>2. backups' = Append(backups, new)
  BY DEF Stored
<1> HIDE DEF new
<1>3. /\ backups' \in Seq(Backup) /\ Len(backups') = Len(backups) + 1
      /\ \A k \in 1 .. Len(backups) : backups'[k] = backups[k]
      /\ backups'[Len(backups) + 1] = new
  BY <1>1, <1>2, AppendProperties
<1>4. Len(backups) \in Nat /\ Ids = 1 .. Len(backups) /\ Ids' = 1 .. (Len(backups) + 1) /\ Ids \subseteq Ids'
  BY <1>3, AppTypes DEF Ids
<1>5. BackupsTypes'
  <2>1. \A k \in Ids' : backups'[k] \in Backup
    BY <1>3, <1>4, ElementOfSeq
  <2>2. Len(backups') \in 0 .. MaxBackups
    BY <1>3, <1>4, BackupsAssumption DEF BackupsAssumption
  <2>3. split' \subseteq Ids'
    BY <1>4 DEF BackupsTypeOK
  <2> QED BY <1>3, <2>1, <2>2, <2>3 DEF BackupsTypeOK, Backup
<1>6. \A q \in Apps \ {p} : Moving(q)' = Moving(q) /\ (Restoring(q)' <=> Restoring(q))
  BY DEF Moving, Restoring
<1>7. \A k \in Ids : /\ Restorable(k)' <=> Restorable(k)
                     /\ UnderWay(k) => UnderWay(k)'
  BY <1>3, <1>4, <1>6 DEF Restorable, UnderWay
<1>8. \A v : Kept(v) => Kept(v)'
  BY <1>3, <1>4, <1>7 DEF Kept, KeptIn
<1>9. Kept(data.db)'
  BY <1>1, <1>3, <1>4 DEF Kept, KeptIn, Restorable
<1>10. JobsInOrder'
  <2> SUFFICES ASSUME NEW q \in Apps
               PROVE  /\ apps'[q].at # "up" => apps'[q].job = "none"
                      /\ apps'[q].job \in {"file", "moved"} => apps'[q].todo # {} /\ apps'[q].todo \subseteq Ids'
                      /\ apps'[q].job = "moved" =>
                           /\ backups'[Moving(q)'].file = "archive" /\ backups'[Moving(q)'].manifest = "main"
                           /\ \A r \in Apps \ {q} : apps'[r].job = "moved" => Moving(r)' # Moving(q)'
    BY DEF JobsInOrder
  <2>1. CASE q = p
    BY <2>1 DEF JobsInOrder
  <2>2. CASE q # p
    <3>1. apps'[q] = apps[q] /\ Moving(q)' = Moving(q)
      BY <2>2, <1>6
    <3>2. apps[q].job \in {"file", "moved"} => Moving(q) \in Ids
      BY AppTypes
    <3> QED BY <2>2, <3>1, <3>2, <1>3, <1>4, <1>6 DEF JobsInOrder
  <2> QED BY <2>1, <2>2
<1>11. ManifestFollows'
  BY <1>1, <1>3, <1>4 DEF ManifestFollows
<1>12. ClaimsExist'
  BY <1>4, <1>3, <1>6 DEF ClaimsExist, Restoring
<1>13. RestoresKeep'
  <2> SUFFICES ASSUME NEW q \in Apps, Restoring(q)', ~apps'[q].beside
               PROVE  /\ \A r \in Apps \ {q} : apps'[r].at = "down"
                      /\ apps'[q].at = "aside" => data'.db = Missing \/ Kept(data.db)'
                      /\ apps'[q].at = "place" => data'.db = Missing
    BY DEF RestoresKeep
  <2>1. Restoring(q) /\ ~apps[q].beside
    BY <1>6 DEF Restoring
  <2>2. \A r \in Apps \ {q} : apps[r].at = "down"
    BY <2>1 DEF RestoresKeep
  <2>3. q = p
    BY <2>2
  <2> QED BY <1>9, <2>2, <2>3 DEF Restoring
<1>14. \A v \in displaced' : Kept(v)'
  BY <1>8
<1> QED BY <1>5, <1>9, <1>10, <1>11, <1>12, <1>13, <1>14

\* A restore that goes on to its next place.
LEMMA RestoreGoesOn ==
  ASSUME BackupsInv, NEW p \in Apps, NEW place \in {"aside", "place"}, GoAt(p, place), Restoring(p),
         UNCHANGED <<backups, split>>,
         data' \in [db : DataContents, old : DataContents, marker : 0 .. MaxBackups, writes : 0 .. MaxWrites],
         data'.marker = data.marker, data'.db = Missing,
         \A v \in displaced' : v \in DataContents /\ Kept(v)
  PROVE  BackupsInv'
<1> USE DEF BackupsInv, BackupsTypes
<1>1. /\ apps' \in [Apps -> App] /\ \A q \in Apps \ {p} : apps'[q] = apps[q]
      /\ apps'[p].at = place /\ apps'[p].job = apps[p].job /\ apps'[p].todo = apps[p].todo
      /\ apps'[p].beside = apps[p].beside /\ apps'[p].claim = apps[p].claim
  BY AppTypes DEF GoAt, BackupsTypeOK, App
<1>2. apps[p].job = "none"
  BY DEF JobsInOrder, Restoring
<1>3. JobsInOrder' /\ \A k \in Ids : UnderWay(k) => UnderWay(k)'
  BY <1>1, <1>2, JobsStay
<1>4. BackupsTypes' /\ Ids' = Ids
  BY <1>1 DEF BackupsTypeOK, Ids
<1>5. \A v : Kept(v) => Kept(v)'
  BY <1>3, <1>4 DEF Kept, KeptIn, Restorable
<1>6. ManifestFollows' /\ ClaimsExist'
  BY <1>1, <1>4 DEF ManifestFollows, ClaimsExist, Restoring
<1>7. RestoresKeep'
  BY <1>1 DEF RestoresKeep, Restoring
<1> QED BY <1>3, <1>4, <1>5, <1>6, <1>7

\* Every step of a process keeps the invariant of the backups.
LEMMA BackupsInvStep ==
  ASSUME BackupsInv, [BackupsNext]_backupVars
  PROVE  BackupsInv'
<1> USE DEF BackupsInv, BackupsTypes
<1>0. ASSUME NEW p \in Apps
      PROVE  /\ apps[p] \in App /\ (apps[p].at # "up" => apps[p].job = "none")
             /\ Len(backups) \in Nat /\ Len(backups) <= MaxBackups /\ Ids = 1 .. Len(backups)
             /\ \A k \in Ids : backups[k] \in Backup
             /\ apps[p].job \in {"file", "moved"} => Moving(p) \in apps[p].todo /\ Moving(p) \in Ids
  BY <1>0, AppTypes DEF JobsInOrder
<1>d. data \in [db : DataContents, old : DataContents, marker : 0 .. MaxBackups, writes : 0 .. MaxWrites]
  BY DEF BackupsTypeOK
<1>1. ASSUME NEW p \in Apps, WriteData(p) PROVE BackupsInv'
  <2>1. JobsInOrder' /\ \A k \in Ids : UnderWay(k) => UnderWay(k)'
    BY <1>1, JobsStay DEF WriteData
  <2>2. /\ data' \in [db : DataContents, old : DataContents, marker : 0 .. MaxBackups, writes : 0 .. MaxWrites]
        /\ data'.marker = data.marker
    <3>1. data.writes + 1 \in 0 .. MaxWrites /\ data.writes + 1 \in DataContents
      BY <1>1, <1>d, BackupsAssumption DEF WriteData, DataContents, Missing, BackupsAssumption
    <3>2. data' = [data EXCEPT !.db = data.writes + 1, !.writes = data.writes + 1]
      BY <1>1 DEF WriteData
    <3> QED BY <1>d, <3>1, <3>2
  <2> QED BY <1>1, <2>1, <2>2, SameBackups DEF WriteData, Restoring, ClaimsExist, BackupsTypeOK
<1>2. ASSUME NEW p \in Apps, NEW job \in {"none", "rotate", "file", "moved"}, NEW todo \in SUBSET (1 .. MaxBackups),
             BackupJob(p, job, todo)
      PROVE  /\ apps' \in [Apps -> App] /\ \A q \in Apps \ {p} : apps'[q] = apps[q]
             /\ apps'[p].job = job /\ apps'[p].todo = todo /\ apps'[p].at = apps[p].at
             /\ apps'[p].beside = apps[p].beside /\ apps'[p].claim = apps[p].claim
  <2> DEFINE app == [apps[p] EXCEPT !.job = job, !.todo = todo]
  <2>1. /\ app \in App /\ app.job = job /\ app.todo = todo /\ app.at = apps[p].at
        /\ app.beside = apps[p].beside /\ app.claim = apps[p].claim
    BY <1>0 DEF App
  <2>2. apps' = [apps EXCEPT ![p] = app]
    BY <1>2 DEF BackupJob
  <2> HIDE DEF app
  <2> QED BY <2>1, <2>2 DEF BackupsTypeOK
<1>1a. ASSUME NEW k \in Ids, NEW b \in Backup, backups' = [backups EXCEPT ![k] = b],
              apps' \in [Apps -> App], UNCHANGED <<data, displaced>>, split' \subseteq Ids
       PROVE  /\ BackupsTypes' /\ Ids' = Ids /\ backups'[k] = b /\ Len(backups') = Len(backups)
              /\ \A j \in Ids : j # k => backups'[j] = backups[j]
  <2>1. Len(backups) \in Nat /\ Ids = 1 .. Len(backups)
    BY BackupsAssumption DEF BackupsTypeOK, BackupsAssumption, Ids
  <2>2. /\ backups' \in Seq(Backup) /\ Len(backups') = Len(backups) /\ backups'[k] = b
        /\ \A j \in 1 .. Len(backups) : j # k => backups'[j] = backups[j]
    BY <1>1a, <2>1, ExceptSeq
  <2>3. Ids' = Ids /\ \A j \in Ids : backups'[j] \in Backup
    BY <2>1, <2>2, ElementOfSeq DEF Ids
  <2> QED BY <1>1a, <2>1, <2>2, <2>3 DEF BackupsTypeOK, Backup
<1>3. ASSUME NEW p \in Apps, CreateBackup(p) PROVE BackupsInv'
  <2>1. {} \in SUBSET (1 .. MaxBackups)
    OBVIOUS
  <2> QED BY <1>2, <1>3, <2>1, AddedBackup DEF CreateBackup
<1>4. ASSUME NEW p \in Apps, NEW job \in {"none", "file"}, NEW todo \in SUBSET (1 .. MaxBackups),
             BackupJob(p, job, todo), apps[p].job \in {"rotate", "file"}, job = "file" => todo # {} /\ todo \subseteq Ids,
             UNCHANGED <<data, backups, displaced, split>>
      PROVE  BackupsInv'
  <2>1. /\ apps' \in [Apps -> App] /\ \A q \in Apps \ {p} : apps'[q] = apps[q]
        /\ apps'[p].job = job /\ apps'[p].todo = todo /\ apps'[p].at = apps[p].at
    BY <1>2, <1>4
  <2>2. apps[p].at = "up"
    BY <1>0, <1>4
  <2>3. JobsInOrder' /\ \A k \in Ids : UnderWay(k) => UnderWay(k)'
    BY <1>4, <2>1, <2>2, JobsStay
  <2> QED BY <1>4, <1>d, <2>1, <2>2, <2>3, SameBackups DEF Restoring, ClaimsExist
<1>5. ASSUME NEW p \in Apps, ListBackups(p) PROVE BackupsInv'
  <2>1. Surplus \subseteq Ids /\ Surplus \in SUBSET (1 .. MaxBackups)
    <3>1. Surplus \subseteq Ids
      BY DEF Surplus, Listed
    <3>2. Ids \subseteq 1 .. MaxBackups
      BY <1>0, BackupsAssumption DEF BackupsAssumption
    <3> QED BY <3>1, <3>2
  <2> QED BY <1>4, <1>5, <2>1 DEF ListBackups
<1>6. ASSUME NEW p \in Apps, ScheduleRestore(p) PROVE BackupsInv'
  <2>1. JobsInOrder' /\ \A k \in Ids : UnderWay(k) => UnderWay(k)'
    BY <1>6, JobsStay DEF ScheduleRestore
  <2>2. PICK k \in Ids : data' = [data EXCEPT !.marker = k]
    BY <1>6 DEF ScheduleRestore
  <2>3. /\ data' \in [db : DataContents, old : DataContents, marker : 0 .. MaxBackups, writes : 0 .. MaxWrites]
        /\ data'.marker \in 0 .. Len(backups)
    BY <1>0, <1>d, <2>2, BackupsAssumption DEF BackupsAssumption
  <2> QED BY <1>6, <2>1, <2>3, SameBackups DEF ScheduleRestore, Restoring, BackupsTypeOK
<1>7. ASSUME NEW p \in Apps, OpenDatabase(p) PROVE BackupsInv'
  <2>1. /\ data' \in [db : DataContents, old : DataContents, marker : 0 .. MaxBackups, writes : 0 .. MaxWrites]
        /\ data'.marker = data.marker
    BY <1>7, <1>d, BackupsAssumption DEF OpenDatabase, DataContents, Missing, BackupsAssumption
  <2> QED BY <1>7, <2>1, AnotherPlace DEF OpenDatabase, ClaimsExist
<1>8. ASSUME NEW p \in Apps, ArchiveFile(p) PROVE BackupsInv'
  <2>0. /\ apps[p].job = "file" /\ apps[p].at = "up" /\ Moving(p) \in Ids /\ UNCHANGED <<data, displaced, split>>
        /\ apps[p].todo # {} /\ apps[p].todo \subseteq Ids /\ apps[p].todo \in SUBSET (1 .. MaxBackups)
    BY <1>0, <1>8 DEF ArchiveFile, JobsInOrder, App
  <2>1. CASE /\ backups[Moving(p)].file = "main"
             /\ backups' = [backups EXCEPT ![Moving(p)].file = "archive"]
             /\ BackupJob(p, "moved", apps[p].todo)
    <3> DEFINE k == Moving(p)
               b == [backups[k] EXCEPT !.file = "archive"]
    <3>1. b \in Backup /\ b.file = "archive" /\ b.data = backups[k].data /\ b.manifest = backups[k].manifest
      BY <1>0, <2>0 DEF Backup
    <3>2. backups' = [backups EXCEPT ![k] = b]
      BY <2>1
    <3>3. /\ apps' \in [Apps -> App] /\ \A q \in Apps \ {p} : apps'[q] = apps[q]
          /\ apps'[p].job = "moved" /\ apps'[p].todo = apps[p].todo /\ apps'[p].at = "up"
      BY <1>2, <2>0, <2>1
    <3>4. \A q \in Apps : Moving(q)' = Moving(q) /\ (Restoring(q)' <=> Restoring(q))
      BY <2>0, <3>3 DEF Moving, Restoring
    <3>5. b.manifest = "main"
      BY <1>0, <2>0, <2>1, <3>1 DEF ManifestFollows, Backup
    <3>6. \A q \in Apps : apps[q].job = "moved" => Moving(q) # k /\ q # p
      BY <2>0, <2>1 DEF JobsInOrder
    <3> HIDE DEF b
    <3>7. /\ BackupsTypes' /\ Ids' = Ids /\ backups'[k] = b /\ Len(backups') = Len(backups)
          /\ \A j \in Ids : j # k => backups'[j] = backups[j]
      <4>1. split' \subseteq Ids
        BY <1>0, <2>0 DEF BackupsTypeOK
      <4> QED BY <1>1a, <2>0, <3>1, <3>2, <3>3, <4>1
    <3>8. \A j \in Ids : backups'[j].data = backups[j].data /\ (KeptIn(j) => KeptIn(j)')
      <4> SUFFICES ASSUME NEW j \in Ids PROVE backups'[j].data = backups[j].data /\ (KeptIn(j) => KeptIn(j)')
        OBVIOUS
      <4>1. CASE j = k
        BY <4>1, <2>0, <3>1, <3>3, <3>4, <3>7 DEF KeptIn, UnderWay
      <4>2. CASE j # k
        BY <4>2, <2>0, <3>3, <3>4, <3>6, <3>7 DEF KeptIn, UnderWay, Restorable
      <4> QED BY <4>1, <4>2
    <3>9. \A v : Kept(v) => Kept(v)'
      BY <1>0, <3>7, <3>8, KeptStays
    <3>10. JobsInOrder'
      <4> SUFFICES ASSUME NEW q \in Apps
                   PROVE  /\ apps'[q].at # "up" => apps'[q].job = "none"
                          /\ apps'[q].job \in {"file", "moved"} => apps'[q].todo # {} /\ apps'[q].todo \subseteq Ids'
                          /\ apps'[q].job = "moved" =>
                               /\ backups'[Moving(q)'].file = "archive" /\ backups'[Moving(q)'].manifest = "main"
                               /\ \A r \in Apps \ {q} : apps'[r].job = "moved" => Moving(r)' # Moving(q)'
        BY DEF JobsInOrder
      <4>1. CASE q = p
        BY <2>0, <3>1, <3>3, <3>4, <3>5, <3>6, <3>7, <4>1
      <4>2. CASE q # p
        <5>1. /\ apps'[q] = apps[q] /\ Moving(q)' = Moving(q)
              /\ apps[q].job = "moved" => Moving(q) \in Ids /\ backups'[Moving(q)] = backups[Moving(q)] /\ Moving(q) # k
          BY <1>0, <4>2, <2>0, <3>3, <3>4, <3>6, <3>7
        <5> QED BY <4>2, <5>1, <2>0, <3>3, <3>4, <3>6, <3>7 DEF JobsInOrder
      <4> QED BY <4>1, <4>2
    <3>11. ManifestFollows'
      BY <3>1, <3>5, <3>7 DEF ManifestFollows
    <3>12. ClaimsExist'
      BY <2>0, <3>3, <3>4, <3>7 DEF ClaimsExist, Restoring
    <3>13. RestoresKeep'
      BY <2>0, <3>3, <3>4, <3>9 DEF RestoresKeep, Restoring
    <3> QED BY <2>0, <3>7, <3>9, <3>10, <3>11, <3>12, <3>13
  <2>2. CASE BackupJob(p, "none", {}) /\ UNCHANGED backups
    BY <1>4, <2>0, <2>2
  <2> QED BY <1>8, <2>1, <2>2 DEF ArchiveFile
<1>9. ASSUME NEW p \in Apps, ArchiveManifest(p) PROVE BackupsInv'
  <2> DEFINE k == Moving(p)
             rest == apps[p].todo \ {k}
  <2>0. /\ apps[p].job = "moved" /\ apps[p].at = "up" /\ k \in Ids /\ UNCHANGED <<data, displaced>>
        /\ apps[p].todo \subseteq Ids /\ apps[p].todo \in SUBSET (1 .. MaxBackups)
        /\ backups[k].file = "archive" /\ backups[k].manifest = "main"
        /\ \A q \in Apps \ {p} : apps[q].job = "moved" => Moving(q) # k
    BY <1>0, <1>9 DEF ArchiveManifest, JobsInOrder, App
  <2> HIDE DEF k
  <2>1. ASSUME NEW b \in Backup, b.data = backups[k].data, backups' = [backups EXCEPT ![k] = b],
               b.manifest = "archive" => b.file = "archive",
               (b.file = b.manifest /\ split' = split) \/ split' = split \cup {k},
               NEW job \in {"none", "file"}, NEW todo \in SUBSET (1 .. MaxBackups), BackupJob(p, job, todo),
               job = "file" => todo # {} /\ todo \subseteq Ids
        PROVE  BackupsInv'
    <3>3. /\ apps' \in [Apps -> App] /\ \A q \in Apps \ {p} : apps'[q] = apps[q]
          /\ apps'[p].job = job /\ apps'[p].todo = todo /\ apps'[p].at = "up"
      BY <1>2, <2>0, <2>1
    <3>4. \A q \in Apps : /\ q # p => Moving(q)' = Moving(q)
                          /\ Restoring(q)' <=> Restoring(q)
      BY <2>0, <3>3 DEF Moving, Restoring
    <3>7. /\ BackupsTypes' /\ Ids' = Ids /\ backups'[k] = b /\ Len(backups') = Len(backups)
          /\ \A j \in Ids : j # k => backups'[j] = backups[j]
      <4>1. split' \subseteq Ids
        BY <1>0, <2>0, <2>1 DEF BackupsTypeOK
      <4> QED BY <1>1a, <2>0, <2>1, <3>3, <4>1
    <3>8. \A j \in Ids : backups'[j].data = backups[j].data /\ (KeptIn(j) => KeptIn(j)')
      <4> SUFFICES ASSUME NEW j \in Ids PROVE backups'[j].data = backups[j].data /\ (KeptIn(j) => KeptIn(j)')
        OBVIOUS
      <4>1. CASE j = k
        BY <4>1, <2>1, <3>7 DEF KeptIn, Restorable
      <4>2. CASE j # k
        <5>1. UnderWay(j) => UnderWay(j)'
          BY <4>2, <3>3, <3>4 DEF UnderWay, k
        <5>2. j \in split => j \in split'
          BY <2>1
        <5> QED BY <4>2, <5>1, <5>2, <2>0, <3>7 DEF KeptIn, Restorable
      <4> QED BY <4>1, <4>2
    <3>9. \A v : Kept(v) => Kept(v)'
      BY <1>0, <3>7, <3>8, KeptStays
    <3>10. JobsInOrder'
      <4> SUFFICES ASSUME NEW q \in Apps
                   PROVE  /\ apps'[q].at # "up" => apps'[q].job = "none"
                          /\ apps'[q].job \in {"file", "moved"} => apps'[q].todo # {} /\ apps'[q].todo \subseteq Ids'
                          /\ apps'[q].job = "moved" =>
                               /\ backups'[Moving(q)'].file = "archive" /\ backups'[Moving(q)'].manifest = "main"
                               /\ \A r \in Apps \ {q} : apps'[r].job = "moved" => Moving(r)' # Moving(q)'
        BY DEF JobsInOrder
      <4>1. CASE q = p
        BY <2>0, <2>1, <3>3, <3>4, <3>7, <4>1
      <4>2. CASE q # p
        <5>1. /\ apps'[q] = apps[q] /\ Moving(q)' = Moving(q)
              /\ apps[q].job = "moved" => Moving(q) \in Ids /\ backups'[Moving(q)] = backups[Moving(q)] /\ Moving(q) # k
          BY <1>0, <4>2, <2>0, <2>1, <3>3, <3>4, <3>7
        <5> QED BY <4>2, <5>1, <2>0, <2>1, <3>3, <3>4, <3>7 DEF JobsInOrder
      <4> QED BY <4>1, <4>2
    <3>11. ManifestFollows'
      BY <2>1, <3>7 DEF ManifestFollows
    <3>12. ClaimsExist'
      BY <2>0, <3>3, <3>4, <3>7 DEF ClaimsExist, Restoring
    <3>13. RestoresKeep'
      BY <2>0, <3>3, <3>4, <3>9 DEF RestoresKeep, Restoring
    <3> QED BY <2>0, <3>7, <3>9, <3>10, <3>11, <3>12, <3>13
  <2>2. backups[k] \in Backup
    BY <1>0, <2>0
  <2>3. CASE /\ backups' = [backups EXCEPT ![k].manifest = "archive"]
             /\ BackupJob(p, IF rest = {} THEN "none" ELSE "file", rest)
             /\ UNCHANGED split
    <3> DEFINE b == [backups[k] EXCEPT !.manifest = "archive"]
    <3>1. b \in Backup /\ b.file = b.manifest /\ b.data = backups[k].data
      BY <2>0, <2>2 DEF Backup
    <3>2. backups' = [backups EXCEPT ![k] = b]
      BY <2>3
    <3>3. rest \in SUBSET (1 .. MaxBackups) /\ rest \subseteq Ids
      BY <2>0
    <3> HIDE DEF b, rest
    <3>4. CASE rest = {}
      BY <2>1, <2>3, <3>1, <3>2, <3>3, <3>4
    <3>5. CASE rest # {}
      BY <2>1, <2>3, <3>1, <3>2, <3>3, <3>5
    <3> QED BY <3>4, <3>5
  <2>4. CASE backups' = PutBack(k) /\ UNCHANGED split /\ BackupJob(p, "none", {})
    <3> DEFINE b == [backups[k] EXCEPT !.file = "main"]
    <3>1. b \in Backup /\ b.file = b.manifest /\ b.data = backups[k].data
      BY <2>0, <2>2 DEF Backup
    <3>2. backups' = [backups EXCEPT ![k] = b]
      BY <2>4 DEF PutBack
    <3>3. {} \in SUBSET (1 .. MaxBackups)
      OBVIOUS
    <3> HIDE DEF b
    <3> QED BY <2>1, <2>4, <3>1, <3>2, <3>3
  <2>5. CASE UNCHANGED backups /\ split' = split \cup {k} /\ BackupJob(p, "none", {})
    <3>1. backups' = [backups EXCEPT ![k] = backups[k]]
      BY <1>0, <2>0, <2>5
    <3>2. {} \in SUBSET (1 .. MaxBackups)
      OBVIOUS
    <3> QED BY <2>0, <2>1, <2>2, <2>5, <3>1, <3>2
  <2> QED BY <1>9, <2>3, <2>4, <2>5 DEF ArchiveManifest, k
<1>10. ASSUME NEW p \in Apps, LaunchApp(p) PROVE BackupsInv'
  <2>0. /\ apps[p].at = "down" /\ UNCHANGED <<backups, displaced, split>>
        /\ data' = [data EXCEPT !.marker = 0]
    BY <1>10 DEF LaunchApp
  <2>1. /\ data' \in [db : DataContents, old : DataContents, marker : 0 .. MaxBackups, writes : 0 .. MaxWrites]
        /\ data'.marker = 0 /\ data'.db = data.db
    BY <2>0, <1>d, BackupsAssumption DEF BackupsAssumption
  <2>2. ASSUME NEW q \in Apps \ {p}
        PROVE  /\ apps'[q] \in App /\ apps'[q].at = apps[q].at /\ apps'[q].claim = apps[q].claim
               /\ apps'[q].job = apps[q].job /\ apps'[q].todo = apps[q].todo
               /\ Restoring(q) => apps'[q].beside
    <3>1. apps'[q] = [apps[q] EXCEPT !.beside = Restoring(q)]
      BY <1>10 DEF LaunchApp
    <3>2. \/ apps'[q] = [apps[q] EXCEPT !.beside = TRUE]
          \/ ~Restoring(q) /\ apps'[q] = [apps[q] EXCEPT !.beside = FALSE]
      <4>1. Restoring(q) = TRUE \/ Restoring(q) = FALSE
        BY DEF Restoring
      <4> QED BY <3>1, <4>1, Zenon
    <3> QED BY <1>0, <3>2 DEF App
  <2>3. /\ apps'[p] \in App /\ apps'[p].job = "none" /\ apps'[p].at \in {"open", "emergency"}
        /\ apps'[p].at = "emergency" => data.marker # 0 /\ apps'[p].claim = data.marker
        /\ apps'[p].at = "emergency" /\ ~apps'[p].beside => \A o \in Apps \ {p} : apps[o].at = "down"
    <3> DEFINE beside == data.marker # 0 /\ \E o \in Apps \ {p} : apps[o].at # "down"
               place == IF data.marker = 0 THEN "open" ELSE "emergency"
    <3>1. apps'[p] = [DownApp EXCEPT !.at = place, !.claim = data.marker, !.beside = beside]
      BY <1>10 DEF LaunchApp
    <3>2. beside = TRUE \/ beside = FALSE
      OBVIOUS
    <3>3. place \in {"open", "emergency"} /\ (place = "emergency" => data.marker # 0)
      OBVIOUS
    <3>4. ~beside /\ data.marker # 0 => \A o \in Apps \ {p} : apps[o].at = "down"
      OBVIOUS
    <3>5. data.marker \in 0 .. MaxBackups
      BY <1>d
    <3> HIDE DEF beside, place
    <3> QED BY <3>1, <3>2, <3>3, <3>4, <3>5 DEF DownApp, App
  <2>4. apps' \in [Apps -> App]
    BY <2>2, <2>3, <1>10 DEF LaunchApp
  <2>5. BackupsTypes' /\ Ids' = Ids
    BY <2>0, <2>1, <2>4 DEF BackupsTypeOK, Ids
  <2>6. \A q \in Apps \ {p} : Moving(q)' = Moving(q) /\ (Restoring(q)' <=> Restoring(q))
    BY <2>2 DEF Moving, Restoring
  <2>7. apps[p].job = "none"
    BY <1>0, <2>0
  <2>8. \A j \in Ids : backups'[j].data = backups[j].data /\ (KeptIn(j) => KeptIn(j)')
    BY <2>0, <2>2, <2>6, <2>7 DEF KeptIn, Restorable, UnderWay
  <2>9. \A v : Kept(v) => Kept(v)'
    BY <2>5, <2>8 DEF Kept
  <2>10. JobsInOrder'
    BY <2>0, <2>2, <2>3, <2>5, <2>6 DEF JobsInOrder
  <2>11. ManifestFollows' /\ ClaimsExist'
    BY <1>0, <2>0, <2>1, <2>2, <2>3, <2>5, <2>6 DEF ManifestFollows, ClaimsExist, Restoring
  <2>12. RestoresKeep'
    BY <2>2, <2>3, <2>6 DEF RestoresKeep, Restoring
  <2> QED BY <2>0, <2>5, <2>9, <2>10, <2>11, <2>12
<1>11. ASSUME NEW p \in Apps, EmergencyBackup(p) PROVE BackupsInv'
  <2>0. apps[p].at = "emergency" /\ apps[p].job = "none" /\ Len(backups) < MaxBackups /\ UNCHANGED <<data, displaced, split>>
    BY <1>0, <1>11 DEF EmergencyBackup
  <2>1. CASE Restorable(apps[p].claim) /\ NeedsEmergency
    <3>1. backups' = Stored(data.db) /\ GoAt(p, "aside")
      BY <1>11, <2>1 DEF EmergencyBackup
    <3>2. /\ apps' \in [Apps -> App] /\ \A q \in Apps \ {p} : apps'[q] = apps[q]
          /\ apps'[p].at = "aside" /\ apps'[p].job = "none"
          /\ apps'[p].beside = apps[p].beside /\ apps'[p].claim = apps[p].claim
      BY <1>0, <2>0, <3>1 DEF GoAt, BackupsTypeOK, App
    <3> QED BY <2>0, <3>1, <3>2, AddedBackup
  <2>2. CASE Restorable(apps[p].claim) /\ ~NeedsEmergency
    BY <1>11, <2>0, <2>2, <1>d, RestoreGoesOn DEF EmergencyBackup, NeedsEmergency, Restoring, BackupsTypeOK
  <2>3. CASE ~Restorable(apps[p].claim)
    BY <1>11, <1>d, <2>0, <2>3, AnotherPlace DEF EmergencyBackup, Proceed, ClaimsExist
  <2> QED BY <2>1, <2>2, <2>3
<1>12. ASSUME NEW p \in Apps, MoveDatabaseAside(p) PROVE BackupsInv'
  <2>0. apps[p].at = "aside" /\ UNCHANGED <<backups, split>>
    BY <1>12 DEF MoveDatabaseAside
  <2>1. CASE data.db # Missing /\ OpenElsewhere(p)
    <3>1. /\ data' \in [db : DataContents, old : DataContents, marker : 0 .. MaxBackups, writes : 0 .. MaxWrites]
          /\ data'.marker = data.marker
      BY <1>12, <1>d, <2>1, BackupsAssumption DEF MoveDatabaseAside, DataContents, Missing, BackupsAssumption
    <3> QED BY <1>12, <2>0, <2>1, <3>1, AnotherPlace DEF MoveDatabaseAside, Proceed, ClaimsExist
  <2>2. CASE ~(data.db # Missing /\ OpenElsewhere(p))
    <3>1. data' = [data EXCEPT !.old = data.db, !.db = Missing] /\ displaced' = Displaced(p) /\ GoAt(p, "place")
      BY <1>12, <2>2 DEF MoveDatabaseAside
    <3>2. /\ data' \in [db : DataContents, old : DataContents, marker : 0 .. MaxBackups, writes : 0 .. MaxWrites]
          /\ data'.marker = data.marker /\ data'.db = Missing
      <4>1. Missing \in DataContents
        BY BackupsAssumption DEF DataContents, Missing, BackupsAssumption
      <4> QED BY <1>d, <3>1, <4>1
    <3>3. \A v \in displaced' : v \in DataContents /\ Kept(v)
      BY <2>0, <3>1, <1>d DEF Displaced, RestoresKeep, Restoring, BackupsTypeOK
    <3> QED BY <2>0, <3>1, <3>2, <3>3, RestoreGoesOn DEF Restoring
  <2> QED BY <2>1, <2>2
<1>13. ASSUME NEW p \in Apps, PlaceRestored(p) PROVE BackupsInv'
  <2>0. apps[p].at = "place" /\ UNCHANGED <<backups, split>> /\ apps[p].claim \in Ids
    BY <1>13 DEF PlaceRestored, ClaimsExist, Restoring
  <2>1. CASE /\ data' = [data EXCEPT !.db = backups[apps[p].claim].data, !.old = Missing]
             /\ displaced' = Displaced(p) /\ Proceed(p)
    <3>1. backups[apps[p].claim].data \in DataContents /\ Missing \in DataContents
      BY <1>0, <2>0, BackupsAssumption DEF Backup, DataContents, Missing, BackupsAssumption
    <3>2. /\ data' \in [db : DataContents, old : DataContents, marker : 0 .. MaxBackups, writes : 0 .. MaxWrites]
          /\ data'.marker = data.marker
      BY <1>d, <2>1, <3>1
    <3>3. displaced' = displaced
      BY <2>0, <2>1 DEF Displaced, RestoresKeep, Restoring
    <3> QED BY <2>0, <2>1, <3>2, <3>3, AnotherPlace DEF Proceed, ClaimsExist
  <2>2. CASE /\ data' = IF data.db = Missing THEN [data EXCEPT !.db = data.old, !.old = Missing] ELSE data
             /\ Proceed(p) /\ UNCHANGED displaced
    <3>1. Missing \in DataContents
      BY BackupsAssumption DEF DataContents, Missing, BackupsAssumption
    <3>2. /\ data' \in [db : DataContents, old : DataContents, marker : 0 .. MaxBackups, writes : 0 .. MaxWrites]
          /\ data'.marker = data.marker
      BY <1>d, <2>2, <3>1
    <3> QED BY <2>0, <2>2, <3>2, AnotherPlace DEF Proceed, ClaimsExist
  <2> QED BY <1>13, <2>1, <2>2 DEF PlaceRestored
<1>14. ASSUME NEW p \in Apps, StopApp(p) PROVE BackupsInv'
  <2>0. /\ apps' = [apps EXCEPT ![p] = DownApp] /\ UNCHANGED <<data, backups, displaced>>
        /\ split' = IF apps[p].job = "moved" THEN split \cup {Moving(p)} ELSE split
    BY <1>14 DEF StopApp
  <2>1. DownApp \in App /\ DownApp.at = "down" /\ DownApp.job = "none"
    BY BackupsAssumption DEF DownApp, App, BackupsAssumption
  <2>2. /\ apps' \in [Apps -> App] /\ \A q \in Apps \ {p} : apps'[q] = apps[q]
        /\ apps'[p].at = "down" /\ apps'[p].job = "none"
    BY <2>0, <2>1 DEF BackupsTypeOK
  <2>3. split' \subseteq Ids
    BY <1>0, <2>0 DEF BackupsTypeOK
  <2>4. BackupsTypes' /\ Ids' = Ids
    BY <2>0, <2>2, <2>3 DEF BackupsTypeOK, Ids
  <2>5. \A q \in Apps \ {p} : Moving(q)' = Moving(q) /\ (Restoring(q)' <=> Restoring(q))
    BY <2>2 DEF Moving, Restoring
  <2>6. ASSUME NEW j \in Ids, KeptIn(j) PROVE KeptIn(j)'
    <3>1. CASE Restorable(j) \/ j \in split
      BY <2>0, <3>1 DEF KeptIn, Restorable
    <3>2. CASE UnderWay(j)
      <4>1. PICK q \in Apps : apps[q].job = "moved" /\ Moving(q) = j
        BY <3>2 DEF UnderWay
      <4>2. CASE q = p
        BY <2>0, <4>1, <4>2 DEF KeptIn
      <4>3. CASE q # p
        BY <2>2, <2>5, <4>1, <4>3 DEF KeptIn, UnderWay
      <4> QED BY <4>2, <4>3
    <3> QED BY <2>6, <3>1, <3>2 DEF KeptIn
  <2>7. \A v : Kept(v) => Kept(v)'
    BY <2>0, <2>4, <2>6 DEF Kept
  <2>8. JobsInOrder'
    BY <2>0, <2>2, <2>4, <2>5 DEF JobsInOrder
  <2>9. ManifestFollows' /\ ClaimsExist'
    BY <2>0, <2>2, <2>4, <2>5 DEF ManifestFollows, ClaimsExist, Restoring
  <2>10. RestoresKeep'
    BY <2>0, <2>2, <2>5, <2>7 DEF RestoresKeep, Restoring
  <2> QED BY <2>0, <2>4, <2>7, <2>8, <2>9, <2>10
<1>15. CASE UNCHANGED backupVars
  BY <1>15 DEF backupVars, BackupsTypeOK, JobsInOrder, ManifestFollows, ClaimsExist, RestoresKeep, Kept, KeptIn,
       Restorable, UnderWay, Moving, Restoring, Ids
<1> QED BY <1>1, <1>3, <1>5, <1>6, <1>7, <1>8, <1>9, <1>10, <1>11, <1>12, <1>13, <1>14, <1>15
    DEF BackupsNext, AppStep

\* For any number of processes and backups, whatever fails and wherever they stop:
\* the invariant of the backups.
THEOREM BackupsInvariant == BackupsSpec => []BackupsInv
<1>1. BackupsInv /\ [BackupsNext]_backupVars => BackupsInv'
  BY BackupsInvStep
<1> QED BY <1>1, BackupsInvInit, PTL DEF BackupsSpec

\* What a restore replaced, with nothing beside it, is in a backup.
THEOREM ReplacedDataIsKept == BackupsSpec => []ReplacedDataCanBeRestored
<1>1. BackupsInv => ReplacedDataCanBeRestored
  BY DEF BackupsInv, ReplacedDataCanBeRestored, Kept, KeptIn
<1> QED BY <1>1, BackupsInvariant, PTL
=============================================================================
