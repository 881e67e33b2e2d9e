--------------------------- MODULE GoalRepository ---------------------------
(***************************************************************************)
(* One durable goal as its callers drive it: workers with a lease token,   *)
(* wakes of the host scheduler, the goal's owner, the background tasks and *)
(* the clock.  finish_goal and cancel_goal are handlers of several         *)
(* transactions, so they may stop or be overtaken between two of them.     *)
(***************************************************************************)
EXTENDS ScheduledWake

-----------------------------------------------------------------------------
(* finish_goal: validate, mark the watchdog, then finish; one `now`.      *)

FinishStart(g, e, outcome) ==
  /\ handler = Resting
  /\ FinishAllowed(g, e, clock, outcome)
  /\ handler' = [stage |-> "mark_finish", gen |-> g, rev |-> e, at |-> clock,
                 outcome |-> outcome]
  /\ UNCHANGED <<goalRow, wakeRows, calls, world, obs>>

\* Mutant: an unverified task does not stop the handler.
FinishMarkUnverified ==
  /\ handler.stage = "mark_finish"
  /\ MarkGoalFinished(handler.at)
  /\ handler' = IF \E i \in DOMAIN conts' : conts'[i].status = "cancel_required"
                  THEN Resting ELSE [handler EXCEPT !.stage = "finish"]
  /\ UNCHANGED <<goalRow, runs, calls, world, obs>>

\* A watchdog the mark leaves live needs native cleanup first: the handler
\* answers pending_native_cleanup and the goal stays active.
FinishMark ==
  /\ handler.stage = "mark_finish"
  /\ MarkGoalFinished(handler.at)
  /\ handler' = IF \E i \in DOMAIN conts' : conts'[i].status \in Live
                  THEN Resting ELSE [handler EXCEPT !.stage = "finish"]
  /\ UNCHANGED <<goalRow, runs, calls, world, obs>>

FinishCommit ==
  /\ handler.stage = "finish"
  /\ Finish(handler.gen, handler.rev, handler.at, handler.outcome)
  /\ handler' = Resting

\* cancel_goal: cancel, then mark; it swallows a failure of the mark.
CancelStart(e) ==
  /\ handler = Resting
  /\ Cancel(e)
  /\ handler' = [Resting EXCEPT !.stage = "mark_cancel", !.at = clock]

CancelMark ==
  /\ handler.stage = "mark_cancel"
  /\ MarkGoalFinished(handler.at)
  /\ handler' = Resting
  /\ UNCHANGED <<goalRow, runs, calls, world, obs>>

\* The process stops, or a transaction of the handler is refused.
HandlerStops ==
  /\ handler # Resting
  /\ handler' = Resting
  /\ UNCHANGED <<goalRow, wakeRows, calls, world, obs>>

-----------------------------------------------------------------------------
(* The world                                                              *)

Pass ==
  /\ clock < MaxTime
  /\ clock' = clock + 1
  /\ UNCHANGED <<goalRow, wakeRows, calls, tasks, obs, handler>>

StartTask(k) ==
  /\ tasks[k] = "new"
  /\ tasks' = [tasks EXCEPT ![k] = "running"]
  /\ UNCHANGED <<goalRow, wakeRows, calls, clock, obs, handler>>

EndTask(k) ==
  /\ tasks[k] = "running"
  /\ tasks' = [tasks EXCEPT ![k] = "done"]
  /\ UNCHANGED <<goalRow, wakeRows, calls, clock, obs, handler>>

-----------------------------------------------------------------------------

Init ==
  /\ clock = 0
  /\ status = "absent" /\ revision = 0 /\ gen = 0 /\ seq = 0
  /\ lease = NoLease /\ tracked = {} /\ journal = <<>> /\ grants = <<>>
  /\ calls = {} /\ conts = <<>> /\ runs = {}
  /\ tasks = [k \in Tasks |-> "new"]
  /\ obs = NoObs /\ handler = Resting

\* Sessions keep the tokens of every generation they were ever granted and
\* the revisions they last read, so g and e range over the past as well.
WorkerStep ==
  \E g \in 1 .. gen, e \in 0 .. revision :
    \/ \E T \in SUBSET Started, release \in BOOLEAN : Checkpoint(g, e, T, release)
    \/ \E T \in SUBSET Started, occ \in Occurrences, d \in DueDelays :
         Prepare(g, e, T, occ, d) \/ Refresh(g, e, T, occ, d)
    \/ \E i \in DOMAIN conts, d \in ExpediteDelays : Expedite(g, e, i, d)
    \/ \E outcome \in Outcomes : FinishStart(g, e, outcome)

CallStep ==
  \/ \E g \in 1 .. gen, id \in CallIds : BeginCall(g, id)
  \/ \E c \in calls : HeartbeatCall(c) \/ EndCall(c)

OwnerStep ==
  \/ CreateGoal \/ AcquireFree \/ AcquireStale
  \/ \E e \in 0 .. revision : CancelStart(e)
  \/ Reconcile
  \/ \E trustworthy \in BOOLEAN : Observe(trustworthy)
  \/ FinishMark \/ FinishCommit \/ CancelMark \/ HandlerStops

HostStep == \E i \in DOMAIN conts : Wake(i) \/ Receipt(i) \/ CancelWatchdog(i)

WorldStep == Pass \/ \E k \in Tasks : StartTask(k) \/ EndTask(k)

Next == WorkerStep \/ CallStep \/ OwnerStep \/ HostStep \/ WorldStep

Spec == Init /\ [][Next]_vars

-----------------------------------------------------------------------------
(* Properties                                                             *)

\* The type of the durable rows and of the handlers' volatile state.  A goal
\* has as many checkpoints as revisions and one grant for each generation.
GoalTypeOK ==
  /\ status \in {"absent", "active", "cancelled"} \cup Outcomes
  /\ revision \in Nat /\ gen \in Nat /\ seq \in Nat
  /\ lease \in Lease
  /\ tracked \subseteq Tasks
  /\ journal \in Seq(Nat) /\ Len(journal) = revision
  /\ grants \in Seq([by : Nat, tick : Nat]) /\ Len(grants) = gen

WakeTypeOK ==
  /\ conts \in Seq(Row)
  /\ runs \subseteq [cont : Nat, tick : Nat, gen : Nat]

ActorTypeOK ==
  /\ clock \in Nat
  /\ tasks \in [Tasks -> {"new", "running", "done"}]
  /\ calls \subseteq [id : CallIds, gen : Nat, exp : Nat]
  /\ obs \in Observation
  /\ handler \in HandlerState

TypeOK == GoalTypeOK /\ WakeTypeOK /\ ActorTypeOK

\* No row the repository would refuse to read as corrupt, or SQLite to write
\* (validateLeaseState, refreshLive's corrupt checks and the CHECK of the
\* continuation table): a terminal goal holds no lease, a scheduled row has
\* its confirmed native task, a retime in progress knows its task and target.
NeverCorrupt ==
  /\ lease.held => status = "active"
  /\ \A i \in DOMAIN conts :
       /\ conts[i].status = "scheduled" => HostConfirmed(conts[i])
       /\ conts[i].status \in Reschedule => conts[i].native /\ conts[i].pending # NoTime

\* Checkpoints are written in the order in which write authority was granted:
\* no session writes after a later one has, and nobody after the owner closed
\* the goal.
WritersInOrder ==
  \A i, j \in DOMAIN journal : i < j =>
    journal[i] # Owner /\ (journal[j] = Owner \/ journal[i] <= journal[j])

\* The goal row implements a journal with one fenced writer at a time.
Journal == INSTANCE FencedJournal WITH
  issued <- gen,
  holder <- IF lease.held THEN gen ELSE 0,
  log    <- journal,
  phase  <- CASE status = "absent" -> "unborn" [] status = "active" -> "open"
              [] OTHER -> "closed"

ImplementsFencedJournal == Journal!FSpec

\* The compare-and-swap on the activity sequence does its work: while an
\* observation that saw no live call is still current, there is none.
QuietObservationHolds == ObservationCurrent /\ obs.idle => LiveCalls = {}

\* Authority that was not given up is never taken while a fenced call of its
\* holder may still be mutating the workspace.
NoTheftFromLiveCall ==
  [][gen' > gen /\ lease.held => LiveCalls = {}]_vars

\* Neither a wake nor the recovery of a live lease takes authority over while
\* a blocking task the goal tracks is still running.
NoTheftFromRunningTask ==
  [][gen' > gen /\ (LeaseValid \/ grants'[gen'].by # 0)
       => tracked \cap Running = {}]_vars

\* With recurring watchdogs only, a lease that has not lapsed is taken only
\* after its holder has been silent for the stale-recovery grace.
OnlyStaleLeaseIsTaken ==
  [][gen' > gen /\ LeaseValid => clock - lease.hb >= StaleGrace]_vars

\* Duplicate deliveries of one interval firing grant the goal at most once.
OneGrantPerTick ==
  \A i, j \in DOMAIN grants :
    /\ grants[i] = grants[j]
    /\ grants[i].by # 0 /\ conts[grants[i].by].occ = "interval"
    => i = j

-----------------------------------------------------------------------------
(* Properties of goals driven by one-time tickets                         *)

\* A firing ticket is consumed: it never grants the goal a second time.
OneGrantPerTicket ==
  \A i, j \in DOMAIN grants :
    /\ grants[i].by = grants[j].by
    /\ grants[i].by # 0 /\ conts[grants[i].by].occ = "once"
    => i = j

\* A goal that a ticket woke is never left without the row of its next wake.
WokenGoalHasNextWake ==
  \A n \in DOMAIN grants :
    LET i == grants[n].by IN
    i # 0 /\ conts[i].occ = "once" => HasSuccessor(conts, i)

\* No wake takes authority over while a fenced call of its holder is live,
\* even when the handoff cut the lease shorter than the call.
WakeSparesLiveCalls ==
  [][gen' > gen /\ grants'[gen'].by # 0 => LiveCalls = {}]_vars

\* A renewal stops at the handoff to row i, if that is a one-time ticket.
StopsAt(i) ==
  lease'.exp > lease.exp /\ gen' = gen /\ conts'[i].occ = "once"
    => lease'.exp <= HandoffDue(conts'[i])

\* Whoever renews the lease, it never outlives the handoff to the live
\* one-time ticket as the host will fire it.
RenewalStopsAtHandoff == [][\A i \in LiveRows' : StopsAt(i)]_vars

\* The same, as long as the host has not reported that it failed to retime
\* that ticket.
LeaseStopsAtHandoff ==
  [][\A i \in LiveRows' : conts'[i].status # "reschedule_failed" => StopsAt(i)]_vars

\* A ticket recovers a lease that has not lapsed only if its holder has left
\* no durable trace since the first of the two probes.
OrphanStayedSilent ==
  [][\A i \in DOMAIN conts :
       LeaseValid /\ conts[i].status # "claimed" /\ conts'[i].status = "claimed"
         => lease.hb <= conts[i].probe.at]_vars

-----------------------------------------------------------------------------
(* Properties of the end of a goal                                        *)

\* finish_goal completes only once no watchdog can still be runnable.
FinishLeavesNoWatchdog ==
  [][status = "active" /\ status' \in Outcomes => LiveRows = {}]_vars

\* A native task that must be cleaned up is forgotten only on proof that it
\* is gone, whoever else marks, cancels or wakes the goal meanwhile.
CleanupUntilProved ==
  [][\A i \in DOMAIN conts :
       conts[i].native /\ conts[i].status \in Cancelling /\ conts'[i] # conts[i]
         => conts'[i].status \in Cancelling \cup {"cancelled"}]_vars
=============================================================================
