------------------------------ MODULE GoalState ------------------------------
(***************************************************************************)
(* The durable state of one goal: its row in `goals`, its checkpoint rows, *)
(* its fenced mutation calls and its scheduled-continuation rows, together *)
(* with the clock and the observers that read them.  The operations of     *)
(* SqliteGoalRepository are in GoalLease and ScheduledContinuation; each   *)
(* is one BEGIN IMMEDIATE transaction and therefore one action.            *)
(*                                                                         *)
(* Time is counted in ticks.  A lease token is fresh random text for every *)
(* granted lease generation, so a token is modelled by its generation.     *)
(***************************************************************************)
EXTENDS Integers, Sequences

CONSTANTS
  LeaseTicks,      \* the lease a caller asks for (leaseSeconds)
  CallTicks,       \* the lease of one fenced call (callLeaseSeconds)
  StaleGrace,      \* RUN_GOAL_STALE_RECOVERY_GRACE_SECONDS
  ProbeAge,        \* ORPHAN_PROBE_MIN_SECONDS
  EarlyTol,        \* SCHEDULED_WAKE_EARLY_TOLERANCE_SECONDS
  ClaimDelay,      \* due delay of a claimed wake's successor
  CollisionMin,    \* COLLISION_SUCCESSOR_MIN_SECONDS
  CollisionMax,    \* COLLISION_SUCCESSOR_MAX_SECONDS
  IntervalTicks,   \* interval_minutes of a recurring watchdog
  RetimeMin,       \* smallest due change a refresh turns into a retime
  ExpediteDelays,  \* handoff leads an expedite may ask for
  DueDelays,       \* first-firing delays a prepare may ask for
  Occurrences,     \* the occurrences callers ask for
  Outcomes,        \* the terminal statuses finish may record
  Reports,         \* the receipt outcomes the host's client reports
  Tasks,           \* identities of managed background tasks
  CallIds,         \* identities of fenced mutation calls
  MaxTime, MaxGen, MaxRev, MaxSeq, MaxConts   \* bounds of the instance

ASSUME TickAssumption ==
  /\ {StaleGrace, ProbeAge, EarlyTol} \subseteq Nat
  /\ {LeaseTicks, CallTicks} \subseteq Nat \ {0}
  /\ {ClaimDelay, CollisionMin, CollisionMax} \subseteq Nat \ {0}
  /\ {IntervalTicks, RetimeMin} \subseteq Nat \ {0}
  /\ ExpediteDelays \subseteq Nat \ {0}
  /\ DueDelays \subseteq Nat \ {0}
ASSUME BoundAssumption ==
  {MaxTime, MaxGen, MaxRev, MaxSeq, MaxConts} \subseteq Nat
ASSUME ChoiceAssumption ==
  /\ Occurrences \subseteq {"once", "interval"}
  /\ Outcomes \subseteq {"completed", "failed", "blocked"}
\* A fenced call never asks for more than the shortest lease: 30 s against 30 s.
ASSUME CallAssumption == CallTicks <= LeaseTicks

VARIABLES
  clock,
  status, revision, gen, seq, lease, tracked,   \* the goals row
  journal,    \* goal_checkpoints: the lease generation that wrote each row
  grants,     \* history: what each lease generation was granted for
  calls,      \* goal_fenced_mutation_calls with completed_at NULL
  conts,      \* goal_scheduled_continuations, indexed by generation
  runs,       \* goal_scheduled_continuation_runs, the recurring run ledger
  tasks,      \* the managed background tasks themselves
  obs,        \* a worker-liveness observation some handler holds
  handler     \* a finish_goal or cancel_goal handler between transactions

goalRow  == <<status, revision, gen, seq, lease, tracked, journal, grants>>
wakeRows == <<conts, runs>>
world    == <<clock, tasks>>
vars     == <<goalRow, wakeRows, calls, world, obs, handler>>

-----------------------------------------------------------------------------
(* Values.  Due times are always later than some clock value, so 0 can    *)
(* stand for the SQL NULL of pending_due_at.                              *)

Owner   == 0     \* the author of a checkpoint written without a lease
NoTime  == 0
NoLease == [held |-> FALSE, hb |-> 0, exp |-> 0]
NoProbe == [set |-> FALSE, at |-> 0, gen |-> 0, seq |-> 0]
NoObs   == [set |-> FALSE, gen |-> 0, seq |-> 0, rev |-> 0,
            idle |-> FALSE, free |-> FALSE, inactive |-> {}]
Resting == [stage |-> "none", gen |-> 0, rev |-> 0, at |-> 0, outcome |-> "none"]

Reschedule  == {"reschedule_required", "reschedule_failed", "reschedule_uncertain"}
Cancelling  == {"cancel_required", "cancel_failed", "cancel_uncertain"}
Fencing     == {"prepared", "scheduled", "create_uncertain"} \cup Reschedule
Live        == Fencing \cup Cancelling
Historical  == {"create_failed", "claimed", "terminal_noop", "superseded", "cancelled"}
Unconfirmed == {"prepared", "create_failed", "create_uncertain"}

Lease == [held : BOOLEAN, hb : Nat, exp : Nat]
Observation == [set : BOOLEAN, gen : Nat, seq : Nat, rev : Nat, idle : BOOLEAN,
                free : BOOLEAN, inactive : SUBSET Tasks]
HandlerState ==
  [stage : {"none", "mark_cancel"}, gen : Nat, rev : Nat, at : Nat, outcome : {"none"}]
  \cup
  [stage : {"mark_finish", "finish"}, gen : Nat, rev : Nat, at : Nat, outcome : Outcomes]
Probe == [set : BOOLEAN, at : Nat, gen : Nat, seq : Nat]
Row   == [occ : {"once", "interval"}, status : Live \cup Historical,
          native : BOOLEAN, confirmed : BOOLEAN, due : Nat, pending : Nat,
          probe : Probe, count : 0 .. 3, from : Nat]

Earlier(s, t) == IF s <= t THEN s ELSE t
Later(s, t)   == IF s <= t THEN t ELSE s

-----------------------------------------------------------------------------
(* What the operations read.                                              *)

LeaseValid == lease.held /\ clock < lease.exp

\* Mutant: the token hash is not compared.
MutableLeaseAnyToken(g, e, t) ==
  status = "active" /\ e = revision /\ lease.held /\ g \in 1 .. gen /\ t < lease.exp

\* assertMutableLease; t is the `now` the caller sampled, and the holder of
\* generation g presents the token granted with it.
MutableLease(g, e, t) ==
  /\ status = "active"
  /\ e = revision
  /\ lease.held /\ g = gen
  /\ t < lease.exp

LiveRows  == {i \in DOMAIN conts : conts[i].status \in Live}
FenceRows == {i \in DOMAIN conts : conts[i].status \in Fencing}

\* The unique partial index idx_goal_scheduled_continuations_one_live: a
\* statement that would break it fails and rolls its transaction back.
OneLive(rows) ==
  \A i, j \in DOMAIN rows :
    rows[i].status \in Live /\ rows[j].status \in Live => i = j

\* The index leaves one candidate, so ORDER BY ... LIMIT 1 has no choice.
LiveRow  == CHOOSE i \in DOMAIN conts : conts[i].status \in Live
FenceRow == CHOOSE i \in DOMAIN conts : conts[i].status \in Fencing

HostConfirmed(c) == c.native /\ c.confirmed

EffectiveDue(c) == IF c.pending = NoTime THEN c.due ELSE c.pending

LiveCalls == {c \in calls : c.gen = gen /\ clock < c.exp}
Running   == {k \in Tasks : tasks[k] = "running"}
Started   == {k \in Tasks : tasks[k] # "new"}
=============================================================================
