---------------------------- MODULE WorkspaceGoals ----------------------------
(***************************************************************************)
(* Two goals of one workspace.  Every transaction is of one goal, so the   *)
(* variables of GoalRepository hold the goal the next ones are of, the     *)
(* other one is parked, and the two change places.  Preparing a watchdog   *)
(* is the one operation that looks at the other goals of the workspace.    *)
(***************************************************************************)
EXTENDS GoalRepository

VARIABLE parked   \* the other goal: its rows, calls, observer and handler

workspaceVars == <<vars, parked>>

Goal == [status |-> status, revision |-> revision, gen |-> gen, seq |-> seq,
         lease |-> lease, tracked |-> tracked, journal |-> journal, grants |-> grants,
         conts |-> conts, runs |-> runs, calls |-> calls, obs |-> obs, handler |-> handler]

\* selectActiveScheduledGoalId: an active goal with a row that is live or in
\* cleanup.
IsScheduled(goal) ==
  /\ goal.status = "active"
  /\ \E i \in DOMAIN goal.conts : goal.conts[i].status \in Live

WorkspaceInit == Init /\ parked = Goal

ChangePlaces ==
  /\ parked' = Goal
  /\ status' = parked.status /\ revision' = parked.revision
  /\ gen' = parked.gen /\ seq' = parked.seq /\ lease' = parked.lease
  /\ tracked' = parked.tracked /\ journal' = parked.journal /\ grants' = parked.grants
  /\ conts' = parked.conts /\ runs' = parked.runs /\ calls' = parked.calls
  /\ obs' = parked.obs /\ handler' = parked.handler
  /\ UNCHANGED world

\* A first watchdog is refused while another goal is scheduled; of two that
\* are, the one updated last is taken for the owner.
PrepareAlone(g, e, occ, d) == ~IsScheduled(parked) /\ Prepare(g, e, {}, occ, d)

\* The sessions of either goal, and the host for both.
GoalStep ==
  \/ CreateGoal \/ AcquireFree \/ Pass
  \/ \E g \in 1 .. gen, e \in 0 .. revision, occ \in Occurrences, d \in DueDelays :
       PrepareAlone(g, e, occ, d) \/ Refresh(g, e, {}, occ, d)
  \/ \E trustworthy \in BOOLEAN : Observe(trustworthy)
  \/ \E e \in 0 .. revision : CancelStart(e)
  \/ CancelMark
  \/ \E i \in DOMAIN conts : Wake(i) \/ Receipt(i) \/ CancelWatchdog(i)

WorkspaceNext == ChangePlaces \/ (GoalStep /\ UNCHANGED parked)

WorkspaceSpec == WorkspaceInit /\ [][WorkspaceNext]_workspaceVars

\* At most one goal of a workspace is scheduled: its sessions alone mutate the
\* workspace (prepareScheduledContinuation refuses when the "Workspace already
\* has another active scheduled-continuation mutation owner").
OneScheduledGoal == ~(IsScheduled(Goal) /\ IsScheduled(parked))
=============================================================================
