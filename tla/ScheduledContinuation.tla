------------------------ MODULE ScheduledContinuation ------------------------
(***************************************************************************)
(* The operations of SqliteGoalRepository on the scheduled-continuation    *)
(* rows: reserving a watchdog, recording what the host reports about its   *)
(* native task, cancelling it, and claiming the goal when it fires.        *)
(* Callers name a row and its version; a stale version only fails, so      *)
(* versions are left out.                                                  *)
(***************************************************************************)
EXTENDS GoalLease

\* Every write of one row is subject to the one-live index.
PutRow(i, row) ==
  /\ conts' = [conts EXCEPT ![i] = row]
  /\ OneLive(conts')

NewRow(occ, due, from) ==
  [occ |-> occ, status |-> "prepared", native |-> FALSE, confirmed |-> FALSE,
   due |-> due, pending |-> NoTime, probe |-> NoProbe, count |-> 0, from |-> from]

-----------------------------------------------------------------------------
(* prepare_scheduled_continuation.  A request that repeats the fingerprint *)
(* of a live reservation changes nothing and is left out.                  *)

Prepare(g, e, T, occ, d) ==
  /\ MutableLease(g, e, clock)
  /\ LiveRows = {}
  /\ Len(conts) < MaxConts
  /\ WriteCheckpoint(g)
  /\ tracked' = T
  /\ RenewLease(IF occ = "interval" THEN clock + LeaseTicks
                                    ELSE Earlier(clock + LeaseTicks, clock + d))
  /\ conts' = Append(conts, NewRow(occ, clock + d, 0))
  /\ UNCHANGED <<status, gen, seq, grants, runs, calls, world, obs, handler>>

\* refreshLiveScheduledContinuation: a live watchdog is reused; a one-time
\* one is retimed when the requested due time moved enough.
Retimes(c, occ, d) ==
  /\ c.status = "scheduled" /\ c.occ = "once" /\ occ = "once"
  /\ \/ c.due - (clock + d) >= RetimeMin
     \/ (clock + d) - c.due >= RetimeMin

RefreshExpiry(c, occ, d) ==
  CASE c.occ = "interval" -> clock + LeaseTicks
    [] c.occ = "once" /\ Retimes(c, occ, d) -> Earlier(clock + LeaseTicks, clock + d)
    [] OTHER -> Earlier(clock + LeaseTicks, EffectiveDue(c))

Refreshable(c, occ) ==
  /\ c.status \notin Cancelling
  /\ c.status = "scheduled" => HostConfirmed(c)
  /\ c.status = "scheduled" /\ c.occ = "once" /\ occ = "once" => clock < c.due

Refresh(g, e, T, occ, d) ==
  /\ MutableLease(g, e, clock)
  /\ LiveRows # {}
  /\ Refreshable(conts[LiveRow], occ)
  /\ WriteCheckpoint(g)
  /\ tracked' = T
  /\ RenewLease(RefreshExpiry(conts[LiveRow], occ, d))
  /\ conts' = IF Retimes(conts[LiveRow], occ, d)
                THEN [conts EXCEPT ![LiveRow] =
                        [@ EXCEPT !.status = "reschedule_required", !.pending = clock + d]]
                ELSE conts
  /\ UNCHANGED <<status, gen, seq, grants, runs, calls, world, obs, handler>>

\* expedite_scheduled_continuation: one-time rows only (the service refuses
\* recurring ones).  It leaves the goal row alone.
Expedite(g, e, i, d) ==
  /\ MutableLease(g, e, clock)
  /\ conts[i].occ = "once" /\ conts[i].status = "scheduled" /\ HostConfirmed(conts[i])
  /\ clock + d < conts[i].due
  /\ PutRow(i, [conts[i] EXCEPT !.status = "reschedule_required", !.pending = clock + d])
  /\ UNCHANGED <<goalRow, runs, calls, world, obs, handler>>

-----------------------------------------------------------------------------
(* record_scheduled_continuation_receipt, by outcome.                     *)

\* Only the collision backoff reads the count, and it stops growing at 3.
Counted(c) == IF c.count < 3 THEN c.count + 1 ELSE c.count

\* Mutant: the run mode is not recorded.
ReceiptCreatedUnconfirmed(i) ==
  /\ "created" \in Reports
  /\ conts[i].status \in Unconfirmed
  /\ PutRow(i, [conts[i] EXCEPT !.status = "scheduled", !.native = TRUE])

ReceiptCreated(i) ==
  /\ "created" \in Reports
  /\ conts[i].status \in Unconfirmed
  /\ PutRow(i, [conts[i] EXCEPT !.status = "scheduled", !.native = TRUE, !.confirmed = TRUE])

ReceiptRescheduled(i) ==
  LET c == conts[i] IN
  /\ "rescheduled" \in Reports
  /\ c.native
  /\ \/ c.pending # NoTime /\ c.status \in Reschedule
     \/ c.pending = NoTime /\ c.status = "scheduled"
  /\ PutRow(i, [c EXCEPT !.status = "scheduled", !.due = EffectiveDue(c),
                         !.pending = NoTime, !.count = Counted(c)])

\* reschedule_failed and reschedule_uncertain ask for a pending update, not
\* for a status.
ReceiptNotRescheduled(i, outcome) ==
  /\ conts[i].native /\ conts[i].pending # NoTime
  /\ PutRow(i, [conts[i] EXCEPT !.status = outcome])

ReceiptConsumed(i) ==
  /\ "consumed" \in Reports
  /\ conts[i].occ = "once" /\ conts[i].native
  /\ conts[i].status \in Live \ {"prepared"}
  /\ PutRow(i, [conts[i] EXCEPT !.status = "superseded", !.pending = NoTime])

ReceiptCancelled(i) ==
  /\ "cancelled" \in Reports
  /\ conts[i].status \in Cancelling /\ conts[i].native
  /\ PutRow(i, [conts[i] EXCEPT !.status = "cancelled"])

ReceiptNotCancelled(i, outcome, r) ==
  /\ conts[i].status \in Cancelling
  /\ PutRow(i, [conts[i] EXCEPT !.status = outcome, !.confirmed = @ \/ r])

\* create_failed and create_uncertain have no status guard; they may supply
\* a native ID (n) and a confirmed run mode (r).
ReceiptNotCreated(i, outcome, n, r) ==
  /\ PutRow(i, [conts[i] EXCEPT !.status = outcome, !.native = @ \/ n,
                                !.confirmed = @ \/ r])

Receipt(i) ==
  /\ \/ ReceiptCreated(i)
     \/ ReceiptRescheduled(i)
     \/ \E o \in Reports \cap {"reschedule_failed", "reschedule_uncertain"} :
          ReceiptNotRescheduled(i, o)
     \/ ReceiptConsumed(i)
     \/ ReceiptCancelled(i)
     \/ \E o \in Reports \cap {"cancel_failed", "cancel_uncertain"}, r \in BOOLEAN :
          ReceiptNotCancelled(i, o, r)
     \/ \E o \in Reports \cap {"create_failed", "create_uncertain"}, n, r \in BOOLEAN :
          ReceiptNotCreated(i, o, n, r)
  /\ UNCHANGED <<goalRow, runs, calls, world, obs, handler>>

\* Mutant: a failed cleanup is given up.
CancelOutcomeGivesUp(c) ==
  IF c.status \in {"cancel_failed", "cancel_uncertain"} THEN "superseded"
  ELSE IF c.native THEN "cancel_required" ELSE "superseded"

\* cancel_scheduled_continuation; the rows it reports as already cancelled,
\* already fired or already in cleanup stay as they are.
CancelOutcome(c) ==
  CASE c.native /\ c.status \in {"cancel_failed", "cancel_uncertain"} -> "cancel_required"
    [] c.native /\ c.status \in {"scheduled", "create_uncertain"} \cup Reschedule
         -> "cancel_required"
    [] ~c.native /\ c.status \in {"prepared", "create_failed"} -> "superseded"
    [] OTHER -> "cancel_uncertain"

CancelWatchdog(i) ==
  /\ conts[i].status \notin {"cancelled", "superseded", "claimed", "terminal_noop"}
  /\ ~(conts[i].native /\ conts[i].status = "cancel_required")
  /\ PutRow(i, [conts[i] EXCEPT !.status = CancelOutcome(conts[i])])
  /\ UNCHANGED <<goalRow, runs, calls, world, obs, handler>>

\* markGoalFinishedForScheduledContinuation, with the caller's `now` t.
MarkedStatus(c, t) ==
  CASE c.native /\ c.status \in {"scheduled", "create_uncertain"} \cup Reschedule
         -> IF c.occ = "interval" \/ t < EffectiveDue(c) THEN "cancel_required"
                                                         ELSE "cancel_uncertain"
    [] c.status \in Cancelling -> c.status
    [] ~c.native /\ c.status = "prepared" -> "superseded"
    [] OTHER -> "cancel_uncertain"

MarkGoalFinished(t) ==
  IF LiveRows = {} THEN UNCHANGED conts
  ELSE PutRow(LiveRow, [conts[LiveRow] EXCEPT !.status = MarkedStatus(conts[LiveRow], t)])
=============================================================================
