---------------------------- MODULE ScheduledWake ----------------------------
(***************************************************************************)
(* claimScheduledContinuation: what a firing native task does to the goal. *)
(* A recurring watchdog claims the lease once per interval and is never    *)
(* consumed; a one-time ticket is consumed by firing and leaves a          *)
(* deterministic successor behind.  The claim reads the worker-liveness    *)
(* observation its handler took before the transaction.                    *)
(***************************************************************************)
EXTENDS ScheduledContinuation

-----------------------------------------------------------------------------
(* The deterministic successor of row i.  Its identity is a hash of the    *)
(* firing row's, so row i has at most one, and it is row i + 1.            *)

HasSuccessor(rows, i) == i + 1 \in DOMAIN rows /\ rows[i + 1].from = i

\* prepareFreshClaimSuccessor and assertClaimSuccessorInvariant; `rows` has
\* the firing row already retired.
Reservable(rows, i) ==
  /\ HostConfirmed(rows[i])
  /\ IF HasSuccessor(rows, i)
       THEN rows[i + 1].status \in Unconfirmed
       ELSE /\ \A j \in DOMAIN rows : rows[j].status \notin Live
            /\ i = Len(rows)
            /\ i < MaxConts

\* refreshUnconfirmedClaimSuccessorIfStale: only a truthfully failed create
\* that is past due may be tried again.
Recreatable(c) == c.status = "create_failed" /\ ~c.native /\ c.due <= clock

\* Mutant: the successor is not tied to the firing row.
ReservedUntied(rows, i, due) ==
  IF HasSuccessor(rows, i) THEN rows ELSE Append(rows, NewRow("once", due, 0))

Reserved(rows, i, due) ==
  IF ~HasSuccessor(rows, i) THEN Append(rows, NewRow("once", due, i))
  ELSE IF Recreatable(rows[i + 1])
    THEN [rows EXCEPT ![i + 1] = [@ EXCEPT !.status = "prepared", !.due = due]]
    ELSE rows

\* capGoalLeaseAtClaimSuccessor shortens the lease, never renews it.
CapLease(due) ==
  lease' = IF lease.held THEN [lease EXCEPT !.exp = Earlier(lease.exp, due)] ELSE lease

-----------------------------------------------------------------------------
(* One-time tickets                                                       *)

\* Mutant: a claimed ticket may be claimed again.
ClaimableTwice(c) ==
  /\ c.occ = "once" /\ status = "active"
  /\ c.status \in {"prepared", "scheduled", "create_uncertain", "claimed"}
  /\ HostConfirmed(c)

Claimable(c) ==
  /\ c.occ = "once" /\ status = "active"
  /\ c.status \in {"prepared", "scheduled", "create_uncertain"}
  /\ HostConfirmed(c)

FiredEarly(c) == clock + EarlyTol < c.due

MatchingProbe(c) ==
  ConfirmedInactive /\ c.probe.set /\ c.probe.gen = gen /\ c.probe.seq = seq

OrphanRipe(c) == MatchingProbe(c) /\ clock - c.probe.at >= ProbeAge

\* Two unchanged probes outrank the lease; otherwise it must have lapsed and
\* no worker may be seen.
TicketGrants(c) ==
  /\ Claimable(c) /\ ~FiredEarly(c) /\ ObservationCurrent
  /\ \/ OrphanRipe(c)
     \/ ~LeaseValid /\ ConfirmedInactive

\* claimContinuationLease
ClaimTicket(i) ==
  LET claimed == [conts EXCEPT ![i] =
                    [@ EXCEPT !.status = "claimed", !.pending = NoTime, !.probe = NoProbe]]
      after   == Reserved(claimed, i, clock + ClaimDelay)
  IN /\ TicketGrants(conts[i])
     /\ Reservable(claimed, i)
     /\ OneLive(after)
     /\ conts' = after
     /\ Grant(i, 0, Earlier(clock + LeaseTicks, after[i + 1].due))
     /\ obs' = NoObs
     /\ UNCHANGED <<status, revision, tracked, journal, runs, calls, world, handler>>

\* The probe a collision leaves: the predecessor was seen inactive while its
\* lease was still valid.  A ticket that was waiting for a retime hands its
\* probe start on as it is.
CollisionProbe(c) ==
  LET at == IF c.status \in Reschedule \/ MatchingProbe(c) THEN c.probe.at ELSE clock
  IN IF \/ c.status \in Reschedule /\ c.probe.set
        \/ c.status \notin Reschedule /\ ~FiredEarly(c) /\ LeaseValid /\ ConfirmedInactive
       THEN [set |-> TRUE, at |-> at, gen |-> gen, seq |-> seq]
       ELSE NoProbe

Collides(c) ==
  \/ c.occ = "once" /\ status = "active" /\ c.status \in Reschedule /\ HostConfirmed(c)
  \/ Claimable(c) /\ FiredEarly(c)
  \/ /\ Claimable(c) /\ ~FiredEarly(c) /\ ObservationCurrent
     /\ ~TicketGrants(c)

\* adaptiveCollisionSuccessorSeconds
Backoff(count) ==
  LET doubled == [k \in 0 .. 3 |-> CASE k = 0 -> CollisionMin
                                     [] k = 1 -> 2 * CollisionMin
                                     [] k = 2 -> 4 * CollisionMin
                                     [] k = 3 -> 8 * CollisionMin]
  IN Earlier(CollisionMax, doubled[count])

CollisionDelay(c, probed) ==
  LET aligned == IF LeaseValid THEN (lease.exp - clock) + EarlyTol ELSE 0
      floor   == IF probed THEN ProbeAge + EarlyTol ELSE aligned
  IN Earlier(CollisionMax, Later(Later(CollisionMin, Backoff(c.count)), floor))

\* prepareFreshCollisionSuccessor
Collide(i) ==
  LET c       == conts[i]
      probe   == CollisionProbe(c)
      retired == [conts EXCEPT ![i] =
                    [@ EXCEPT !.status = "superseded", !.pending = NoTime,
                              !.count = Counted(c), !.probe = probe]]
      after   == Reserved(retired, i, clock + CollisionDelay(c, probe.set))
  IN /\ Collides(c)
     /\ Reservable(retired, i)
     /\ conts' = [after EXCEPT ![i + 1] = [@ EXCEPT !.count = Counted(c), !.probe = probe]]
     /\ OneLive(conts')
     /\ CapLease(after[i + 1].due)
     /\ obs' = NoObs
     /\ UNCHANGED <<status, revision, gen, seq, tracked, journal, grants, runs,
                    calls, world, handler>>

\* A wake that was claimed or consumed, delivered again to an active goal,
\* recovers the successor its first delivery may have failed to record.
RecoverSuccessor(i) ==
  LET after == Reserved(conts, i, clock + ClaimDelay)
  IN /\ conts[i].occ = "once" /\ status = "active"
     /\ \/ conts[i].status = "superseded"
        \/ conts[i].status = "claimed" /\ LiveRows \subseteq {i + 1}
     /\ Reservable(conts, i)
     /\ OneLive(after)
     /\ conts' = after
     /\ CapLease(after[i + 1].due)
     /\ UNCHANGED <<status, revision, gen, seq, tracked, journal, grants, runs,
                    calls, world, obs, handler>>

\* A ticket that fires for a goal that is no longer active.
TicketNoop(i) ==
  /\ conts[i].occ = "once" /\ status # "active"
  /\ conts[i].status \notin {"claimed", "superseded", "terminal_noop"}
  /\ PutRow(i, [conts[i] EXCEPT !.status = "terminal_noop"])
  /\ UNCHANGED <<goalRow, runs, calls, world, obs, handler>>

-----------------------------------------------------------------------------
(* The recurring watchdog                                                 *)

\* Mutant: every firing has the key of the first.
TickFirst(c) == 0

\* recurringRunKey
Tick(c) == IF clock < c.due THEN 0 ELSE (clock - c.due) \div IntervalTicks

RunRecorded(i) == \E r \in runs : r.cont = i /\ r.tick = Tick(conts[i])

\* Mutant: the run is not recorded.
RecordRunNever(i, g) == UNCHANGED runs

RecordRun(i, g) == runs' = runs \cup {[cont |-> i, tick |-> Tick(conts[i]), gen |-> g]}

\* Everything a recurring claim checks before it looks at the worker.
RecurringDue(i) ==
  LET c == conts[i] IN
  /\ c.occ = "interval" /\ status = "active"
  /\ c.status \in {"scheduled", "create_uncertain"}
  /\ HostConfirmed(c)
  /\ ~FiredEarly(c)
  /\ ~RunRecorded(i)
  /\ ObservationCurrent

RecurringGrants == ConfirmedInactive /\ (LeaseValid => HeartbeatStale)

RecurringAcquire(i) ==
  /\ RecurringDue(i)
  /\ RecurringGrants
  /\ Grant(i, Tick(conts[i]), clock + LeaseTicks)
  /\ RecordRun(i, gen + 1)
  /\ obs' = NoObs
  /\ UNCHANGED <<status, revision, tracked, journal, conts, calls, world, handler>>

RecurringBusy(i) ==
  /\ RecurringDue(i)
  /\ ~RecurringGrants
  /\ RecordRun(i, 0)
  /\ obs' = NoObs
  /\ UNCHANGED <<goalRow, conts, calls, world, handler>>

\* A wake of a watchdog in terminal cleanup never resumes work.
RecurringCleanup(i) ==
  /\ conts[i].occ = "interval"
  /\ conts[i].status \in Cancelling
  /\ HostConfirmed(conts[i])
  /\ ~RunRecorded(i)
  /\ RecordRun(i, 0)
  /\ UNCHANGED <<goalRow, conts, calls, world, obs, handler>>

Wake(i) ==
  \/ ClaimTicket(i)
  \/ Collide(i)
  \/ RecoverSuccessor(i)
  \/ TicketNoop(i)
  \/ RecurringAcquire(i)
  \/ RecurringBusy(i)
  \/ RecurringCleanup(i)
=============================================================================
