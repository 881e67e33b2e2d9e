------------------------------ MODULE GoalLease ------------------------------
(***************************************************************************)
(* The operations of SqliteGoalRepository on the goal row itself: how its  *)
(* lease is granted, renewed, released and ended, how fenced mutation      *)
(* calls keep it alive, and how the goal becomes terminal.                 *)
(***************************************************************************)
EXTENDS GoalState

\* The UPDATE every takeover runs: a new generation, its activity sequence
\* back at 0.  `by` is the continuation whose wake asked, 0 for run_goal.
Grant(by, tick, exp) ==
  /\ gen < MaxGen
  /\ gen' = gen + 1
  /\ seq' = 0
  /\ lease' = [held |-> TRUE, hb |-> clock, exp |-> exp]
  /\ grants' = Append(grants, [by |-> by, tick |-> tick])

\* insertCheckpoint and revision = revision + 1, always together.
WriteCheckpoint(author) ==
  /\ revision < MaxRev
  /\ revision' = revision + 1
  /\ journal' = Append(journal, author)

\* Mutant: activity is not counted.
BumpActivityNever == seq < MaxSeq /\ seq' = seq

BumpActivity == seq < MaxSeq /\ seq' = seq + 1

RenewLease(exp) == lease' = [held |-> TRUE, hb |-> clock, exp |-> exp]

\* Terminal statuses drop the lease and the tracked tasks.
CloseGoal(outcome, author) ==
  /\ WriteCheckpoint(author)
  /\ status' = outcome
  /\ lease' = NoLease
  /\ tracked' = {}

-----------------------------------------------------------------------------
(* run_goal                                                               *)

CreateGoal ==
  /\ status = "absent"
  /\ status' = "active"
  /\ Grant(0, 0, clock + LeaseTicks)
  /\ UNCHANGED <<revision, tracked, journal, wakeRows, calls, world, obs, handler>>

\* A released or expired lease is handed over with no liveness check.
AcquireFree ==
  /\ status = "active"
  /\ ~LeaseValid
  /\ Grant(0, 0, clock + LeaseTicks)
  /\ UNCHANGED <<status, revision, tracked, journal, wakeRows, calls, world, obs, handler>>

ObservationCurrent == obs.set /\ obs.gen = gen /\ obs.seq = seq

\* Mutant: only the fenced calls count.
InactiveByCalls == obs.idle

\* Mutant: only the tracked tasks count.
InactiveByTasks == tracked \subseteq obs.inactive

\* A tracked task the observation does not name counts as unknown, hence not
\* inactive.
ConfirmedInactive == obs.idle /\ tracked \subseteq obs.inactive

\* Mutant: no grace for a silent holder.
HeartbeatStaleAtOnce == clock >= lease.hb

HeartbeatStale == clock - lease.hb >= StaleGrace

\* assessStaleGoalLeaseRecovery
StaleRecovery ==
  /\ LiveRows # {}
  /\ ObservationCurrent
  /\ ConfirmedInactive
  /\ lease.held
  /\ HeartbeatStale

AcquireStale ==
  /\ status = "active"
  /\ LeaseValid
  /\ StaleRecovery
  /\ Grant(0, 0, clock + LeaseTicks)
  /\ obs' = NoObs
  /\ UNCHANGED <<status, revision, tracked, journal, wakeRows, calls, world, handler>>

-----------------------------------------------------------------------------
(* checkpoint_goal                                                        *)

\* The checkpoint caps the lease at the handoff of a one-time continuation.
CheckpointExpiry ==
  IF LiveRows # {} /\ conts[LiveRow].occ = "once"
    THEN Earlier(clock + LeaseTicks, EffectiveDue(conts[LiveRow]))
    ELSE clock + LeaseTicks

Checkpoint(g, e, T, release) ==
  /\ MutableLease(g, e, clock)
  /\ WriteCheckpoint(g)
  /\ BumpActivity
  /\ tracked' = T
  /\ IF release THEN lease' = NoLease ELSE RenewLease(CheckpointExpiry)
  /\ UNCHANGED <<status, gen, grants, wakeRows, calls, world, obs, handler>>

-----------------------------------------------------------------------------
(* Fenced mutation calls                                                  *)

\* mutationFenceDueAt of a one-time row: a failed retime leaves the host's
\* original schedule in force.
HandoffDue(c) == IF c.status = "reschedule_failed" THEN c.due ELSE EffectiveDue(c)

\* A recurring tick is no handoff.
FencePassed(c) == c.occ = "once" /\ HandoffDue(c) <= clock

\* Mutant: no cap at the handoff.
FenceExpiryUncapped(c) == clock + LeaseTicks

FenceExpiry(c) ==
  IF c.occ = "interval" THEN clock + LeaseTicks
                        ELSE Earlier(clock + LeaseTicks, HandoffDue(c))

\* What admission and heartbeat of a call of generation g share.
FenceRenewal(g) ==
  /\ status = "active"
  /\ g = gen
  /\ LeaseValid
  /\ FenceRows # {}
  /\ ~FencePassed(conts[FenceRow])
  /\ BumpActivity
  /\ RenewLease(FenceExpiry(conts[FenceRow]))

BeginCall(g, id) ==
  /\ FenceRenewal(g)
  /\ \A c \in calls : c.id # id
  /\ calls' = calls \cup {[id |-> id, gen |-> g, exp |-> clock + CallTicks]}
  /\ UNCHANGED <<status, revision, gen, tracked, journal, grants, wakeRows, world, obs, handler>>

HeartbeatCall(c) ==
  /\ FenceRenewal(c.gen)
  /\ calls' = (calls \ {c}) \cup {[c EXCEPT !.exp = clock + CallTicks]}
  /\ UNCHANGED <<status, revision, gen, tracked, journal, grants, wakeRows, world, obs, handler>>

EndCall(c) ==
  /\ calls' = calls \ {c}
  /\ UNCHANGED <<goalRow, wakeRows, world, obs, handler>>

\* GoalMutationFenceService.observe: durable counters and task states.  The
\* observation is untrustworthy when a task provider cannot be read.  `free`
\* and `rev` are what reconcile_goals read of the goal before it.
Observe(trustworthy) ==
  /\ status = "active"
  /\ obs' = [set |-> TRUE, gen |-> gen, seq |-> seq, rev |-> revision,
             idle |-> trustworthy /\ LiveCalls = {},
             free |-> ~LeaseValid,
             inactive |-> tracked \ Running]
  /\ UNCHANGED <<goalRow, wakeRows, calls, world, handler>>

-----------------------------------------------------------------------------
(* Terminal transitions                                                   *)

\* finish and validateFinish: t is the `now` the handler sampled once.  Plan
\* steps and blockers are left out: they only reject more requests.
FinishAllowed(g, e, t, outcome) ==
  /\ MutableLease(g, e, t)
  /\ outcome = "completed" => tracked = {}

Finish(g, e, t, outcome) ==
  /\ FinishAllowed(g, e, t, outcome)
  /\ CloseGoal(outcome, g)
  /\ UNCHANGED <<gen, seq, grants, wakeRows, calls, world, obs>>

\* cancel needs no lease, only the current revision, and completes every
\* open call; a repeated cancel repairs calls left open.
Cancel(e) ==
  /\ e = revision
  /\ \/ status = "active" /\ CloseGoal("cancelled", Owner)
     \/ status = "cancelled" /\ UNCHANGED <<status, revision, lease, tracked, journal>>
  /\ calls' = {}
  /\ UNCHANGED <<gen, seq, grants, wakeRows, world, obs>>

\* reconcile_goals: an abandoned goal whose lease lapsed, judged by one
\* observation and applied by compare-and-swap.
Reconcile ==
  /\ status = "active"
  /\ ObservationCurrent
  /\ obs.rev = revision
  /\ obs.free /\ ~LeaseValid
  /\ ConfirmedInactive
  /\ LiveRows = {}
  /\ CloseGoal("cancelled", Owner)
  /\ calls' = {}
  /\ obs' = NoObs
  /\ UNCHANGED <<gen, seq, grants, wakeRows, world, handler>>
=============================================================================
