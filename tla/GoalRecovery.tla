---------------------------- MODULE GoalRecovery ----------------------------
(***************************************************************************)
(* What the watchdogs are for: a goal whose workers have gone silent is    *)
(* woken in time.  The workers of one goal may go at any moment; the host  *)
(* fires the native task of each row once per occurrence, at its time or   *)
(* within the jitter the code tolerates before it, and may lose MaxLost    *)
(* firings of a recurring task; the session it opens claims the goal and,  *)
(* when the answer asks for it, creates the successor's native task and    *)
(* records the receipt before it returns.  Time does not pass a firing or  *)
(* an answer that is due, so the promise is one with a deadline.           *)
(***************************************************************************)
EXTENDS GoalRepository

CONSTANT MaxLost   \* firings of a recurring task the host may lose

\* A firing is less than an interval early (2 min of 60).  The successor of a
\* claimed ticket is at most as late as that of a collision (25 min), and so is
\* a first ticket; a recurring watchdog fires first within an interval.
ASSUME RecoveryAssumption ==
  /\ MaxLost \in Nat /\ MaxConts # 0
  /\ EarlyTol <= IntervalTicks
  /\ ClaimDelay <= CollisionMax
  /\ "once" \in Occurrences => DueDelays \subseteq 1 .. CollisionMax
  /\ "interval" \in Occurrences => DueDelays \subseteq 1 .. IntervalTicks

VARIABLES
  present,   \* a session works on the goal
  left,      \* since when nobody does: neither a session nor a tracked task
  fired,     \* for each row, the occurrences of its native task fired so far
  woken,     \* the row whose firing opened the session that answers it, or 0
  lost       \* firings lost so far

recoveryVars == <<vars, present, left, fired, woken, lost>>
hostVars     == <<present, left, fired, woken, lost>>

HostInit ==
  /\ present = TRUE /\ left = 0 /\ woken = 0 /\ lost = 0
  /\ fired = [i \in 1 .. MaxConts |-> 0]

FirstWatchdog(occ, d) ==
  [NewRow(occ, d, 0) EXCEPT !.status = "scheduled", !.native = TRUE, !.confirmed = TRUE]

\* The goal just created, its watchdog prepared, its native task created and
\* reported: run_goal, prepare and the receipt, all at one instant.  The
\* session may track tasks it has started.
RecoveryInit ==
  \E occ \in Occurrences, d \in DueDelays, T \in SUBSET Tasks :
    /\ clock = 0
    /\ status = "active" /\ revision = 1 /\ gen = 1 /\ seq = 0
    /\ lease = [held |-> TRUE, hb |-> 0,
                exp |-> IF occ = "once" THEN Earlier(LeaseTicks, d) ELSE LeaseTicks]
    /\ tracked = T /\ tasks = [k \in Tasks |-> IF k \in T THEN "running" ELSE "new"]
    /\ journal = <<1>> /\ grants = <<[by |-> 0, tick |-> 0]>>
    /\ calls = {} /\ runs = {} /\ obs = NoObs /\ handler = Resting
    /\ conts = <<FirstWatchdog(occ, d)>>
    /\ HostInit

-----------------------------------------------------------------------------
(* The session that works, as long as it does                             *)

Works ==
  /\ present
  /\ \/ \E T \in SUBSET Started, release \in BOOLEAN : Checkpoint(gen, revision, T, release)
     \/ \E id \in CallIds : BeginCall(gen, id)
     \/ \E c \in calls : c.gen = gen /\ (HeartbeatCall(c) \/ EndCall(c))
  /\ UNCHANGED hostVars

\* It returns, is cut off or its machine stops: nothing is written.
Leaves ==
  /\ present
  /\ present' = FALSE /\ left' = clock
  /\ UNCHANGED <<vars, fired, woken, lost>>

TaskEnds ==
  /\ \E k \in Tasks :
       /\ EndTask(k)
       /\ left' = IF k \in tracked /\ ~present THEN clock ELSE left
  /\ UNCHANGED <<present, fired, woken, lost>>

-----------------------------------------------------------------------------
(* The host and the session its firing opens                              *)

\* The occurrence the native task of row i has still to fire.
NextFiring(i) == conts[i].due + fired[i] * IntervalTicks

\* A one-time task that has fired is gone.
WillFire(i) == HostConfirmed(conts[i]) /\ (conts[i].occ = "once" => fired[i] = 0)

Fires(i) ==
  /\ woken = 0 /\ WillFire(i)
  /\ clock + EarlyTol >= NextFiring(i)
  /\ fired' = [fired EXCEPT ![i] = @ + 1]
  /\ \/ woken' = i /\ UNCHANGED lost
     \/ /\ conts[i].occ = "interval" /\ lost < MaxLost
        /\ lost' = lost + 1 /\ UNCHANGED woken
  /\ UNCHANGED <<vars, present, left>>

\* The claim takes its observation first; a claim refused because that went
\* stale is made again with a new one.
SessionObserves ==
  /\ woken # 0
  /\ Observe(TRUE)
  /\ UNCHANGED hostVars

\* Granted, the session works; otherwise the wake returns.
SessionClaims ==
  /\ woken # 0
  /\ Wake(woken)
  /\ woken' = 0
  /\ present' = (present \/ gen' > gen)
  /\ UNCHANGED <<left, fired, lost>>

\* already_claimed and not_due: the claim has nothing to do.
SessionReturns ==
  /\ woken # 0
  /\ conts[woken].occ = "interval" /\ (RunRecorded(woken) \/ FiredEarly(conts[woken]))
  /\ woken' = 0 /\ obs' = NoObs
  /\ UNCHANGED <<goalRow, wakeRows, calls, world, handler, present, left, fired, lost>>

\* create_native_task_and_record_receipt_before_current_wake_returns
SessionReports ==
  /\ \E i \in DOMAIN conts : conts[i].status = "prepared" /\ ReceiptCreated(i)
  /\ UNCHANGED <<goalRow, runs, calls, world, obs, handler, hostVars>>

\* A firing is delivered by its time, and answered at once.
TimePasses ==
  /\ woken = 0
  /\ \A i \in DOMAIN conts :
       conts[i].status # "prepared" /\ (WillFire(i) => clock < NextFiring(i))
  /\ Pass
  /\ UNCHANGED hostVars

RecoveryNext ==
  \/ Works \/ Leaves \/ TaskEnds
  \/ \E i \in DOMAIN conts : Fires(i)
  \/ SessionObserves \/ SessionClaims \/ SessionReturns \/ SessionReports
  \/ TimePasses

RecoverySpec == RecoveryInit /\ [][RecoveryNext]_recoveryVars

-----------------------------------------------------------------------------

\* A recurring watchdog finds the lease abandoned once its calls have lapsed
\* and either the heartbeat is stale or the lease is over; until then it may
\* fire in vain, as early as the tolerance.  It looks once per interval, and a
\* firing before its time counts as the one before it, so it may be taken for
\* a repetition.  A ticket may find the lease valid, or a call, until the lease
\* has lapsed; the next one, at most CollisionMax later, does not.
SilenceShows == Later(CallTicks, Earlier(StaleGrace, LeaseTicks))

WakeBound(occ) ==
  IF occ = "interval"
    THEN (SilenceShows - 1) + EarlyTol + (2 + MaxLost) * IntervalTicks
    ELSE (LeaseTicks - 1) + CollisionMax

\* Nobody works on the goal, neither a session nor a tracked task.
Abandoned == status = "active" /\ ~present /\ tracked \cap Running = {}

\* An abandoned goal is woken in time, whatever its last worker left behind.
AbandonedGoalIsWoken == Abandoned /\ gen < MaxGen => clock - left <= WakeBound(conts[1].occ)
=============================================================================
