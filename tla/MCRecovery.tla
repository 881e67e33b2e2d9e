------------------------------ MODULE MCRecovery ------------------------------
(***************************************************************************)
(* Three questions about the wakes of one goal, each over a world of its   *)
(* own, the focus: whether an abandoned goal is woken in time (the host    *)
(* and its sessions keep to the protocol, time runs long), how far the     *)
(* lease reaches around a handoff (workers, host and receipts in any       *)
(* order, time runs short), and what receipts in any order make of the     *)
(* rows.  In the last two a session is always present.                     *)
(***************************************************************************)
EXTENDS GoalRecovery

VARIABLE focus

\* Tickets, retimes and expedites; calls as long as the lease.
Handoff == INSTANCE GoalRepository WITH
  CallTicks <- 2, EarlyTol <- 0, CollisionMin <- 1, CollisionMax <- 2, IntervalTicks <- 2,
  Occurrences <- {"once"}, Reports <- {"created", "rescheduled", "reschedule_uncertain"},
  Tasks <- {}, MaxTime <- 3, MaxGen <- 2, MaxRev <- 2, MaxSeq <- 1, MaxConts <- 2

\* Every receipt the tool accepts for a one-time ticket, leases of one tick.
Reported == INSTANCE GoalRepository WITH
  LeaseTicks <- 1, CallTicks <- 1, EarlyTol <- 1, ClaimDelay <- 1, DueDelays <- {1},
  CollisionMin <- 1, CollisionMax <- 2, IntervalTicks <- 2, Occurrences <- {"once"},
  Reports <- {"created", "create_failed", "create_uncertain", "rescheduled",
              "reschedule_failed", "reschedule_uncertain", "consumed",
              "cancelled", "cancel_failed", "cancel_uncertain"},
  Tasks <- {}, CallIds <- {},
  MaxTime <- 1, MaxGen <- 2, MaxRev <- 1, MaxSeq <- 1, MaxConts <- 2

wakeVars == <<recoveryVars, focus>>

WakesInit ==
  \/ focus = "recovery" /\ RecoveryInit
  \/ focus \in {"handoff", "receipts"} /\ Handoff!Init /\ HostInit

WakesNext ==
  \/ focus = "recovery" /\ RecoveryNext /\ UNCHANGED focus
  \/ focus = "handoff" /\ Handoff!Next /\ UNCHANGED <<hostVars, focus>>
  \/ focus = "receipts" /\ Reported!Next /\ UNCHANGED <<hostVars, focus>>

WakesSpec == WakesInit /\ [][WakesNext]_wakeVars
=============================================================================
