----------------------------- MODULE GoalProofs -----------------------------
(***************************************************************************)
(* One durable goal.  First type correctness: every step of every actor    *)
(* leaves rows, calls, runs and handlers of the declared types, one        *)
(* checkpoint for each revision and one grant for each lease generation.   *)
(*                                                                         *)
(* Then who may write a goal, and what a takeover may rely on: the goal    *)
(* implements a journal with one fenced writer at a time, and the worker-  *)
(* liveness observation a takeover consumes still tells the truth about    *)
(* fenced calls and tracked tasks, though it was made in another           *)
(* transaction, as long as the activity sequence has not moved.  The many  *)
(* handlers touch what the journal reads of a goal (its status,            *)
(* generation, checkpoints and whether its lease is held) in six ways      *)
(* only: the proof first classifies every step as one of the six and then  *)
(* reasons about those.                                                    *)
(*                                                                         *)
(* Then the scheduled-continuation rows and what they are good for: what   *)
(* every transaction keeps of a row, whoever writes it; that the           *)
(* repository can read each of them; and what a wake finds when it is      *)
(* delivered again: the run of its firing recorded, or its ticket consumed *)
(* and the row of the next wake there.                                     *)
(*                                                                         *)
(* Last what holds of goals under recurring watchdogs only, the kind that  *)
(* prepare_scheduled_continuation creates: with no handoff to cut a lease  *)
(* short, a lease always covers the calls of its holder.  And where        *)
(* tickets hand the goal over: that renewals stop at the handoff the row   *)
(* shows.                                                                  *)
(***************************************************************************)
EXTENDS GoalRepository, SequenceTheorems, TLAPS

-----------------------------------------------------------------------------
(* Lemmas about the operators the actions share.                          *)

\* The earlier and the later of two times is a time.
LEMMA TimeChoice ==
  ASSUME NEW s \in Nat, NEW t \in Nat
  PROVE  Earlier(s, t) \in Nat /\ Later(s, t) \in Nat
BY DEF Earlier, Later

\* A continuation row counts its interval ticks from zero.
LEMMA TickType ==
  ASSUME clock \in Nat, NEW c \in Row
  PROVE  Tick(c) \in Nat
<1>1. c.due \in Nat
  BY DEF Row
<1>2. CASE clock < c.due
  BY <1>2 DEF Tick
<1>3. CASE ~(clock < c.due)
  <2>1. clock - c.due \in Nat
    BY <1>1, <1>3
  <2>2. IntervalTicks \in Nat \ {0}
    BY TickAssumption
  <2>3. (clock - c.due) \div IntervalTicks \in Nat
    BY <2>1, <2>2, Z3
  <2> QED BY <1>3, <2>3 DEF Tick
<1> QED BY <1>2, <1>3

\* Replacing one row by another leaves a sequence of rows.
LEMMA RowReplaced ==
  ASSUME NEW rows \in Seq(Row), NEW i \in DOMAIN rows, NEW row \in Row
  PROVE  /\ [rows EXCEPT ![i] = row] \in Seq(Row)
         /\ DOMAIN [rows EXCEPT ![i] = row] = DOMAIN rows
BY ExceptSeq, LenProperties

\* A fresh reservation is a row.
LEMMA NewRowType ==
  ASSUME NEW occ \in {"once", "interval"}, NEW due \in Nat, NEW from \in Nat
  PROVE  NewRow(occ, due, from) \in Row
BY DEF NewRow, Row, NoProbe, Probe, NoTime, Live, Fencing, Reschedule, Cancelling, Historical

\* The goal row after a takeover.
LEMMA GrantType ==
  ASSUME GoalTypeOK, clock \in Nat, NEW by \in Nat, NEW tick \in Nat, NEW exp \in Nat,
         Grant(by, tick, exp)
  PROVE  /\ gen' \in Nat /\ seq' \in Nat /\ lease' \in Lease
         /\ grants' \in Seq([by : Nat, tick : Nat]) /\ Len(grants') = gen'
<1>1. grants' = Append(grants, [by |-> by, tick |-> tick])
  BY DEF Grant
<1>2. grants' \in Seq([by : Nat, tick : Nat]) /\ Len(grants') = gen + 1
  BY <1>1, AppendProperties DEF GoalTypeOK
<1> QED BY <1>2 DEF Grant, GoalTypeOK, Lease

\* The goal row after a checkpoint.
LEMMA CheckpointType ==
  ASSUME GoalTypeOK, NEW author \in Nat, WriteCheckpoint(author)
  PROVE  revision' \in Nat /\ journal' \in Seq(Nat) /\ Len(journal') = revision'
<1>1. journal' \in Seq(Nat) /\ Len(journal') = Len(journal) + 1
  BY AppendProperties DEF WriteCheckpoint, GoalTypeOK
<1> QED BY <1>1 DEF WriteCheckpoint, GoalTypeOK

\* Retired, retimed or receipted, a row keeps its type.
LEMMA RowFields ==
  ASSUME NEW c \in Row
  PROVE  /\ Counted(c) \in 0 .. 3
         /\ EffectiveDue(c) \in Nat /\ HandoffDue(c) \in Nat
         /\ \A s \in Live \cup Historical : [c EXCEPT !.status = s] \in Row
BY DEF Row, Counted, EffectiveDue, HandoffDue

\* The live row is a row.
LEMMA LiveRowType ==
  ASSUME WakeTypeOK, LiveRows # {}
  PROVE  LiveRow \in DOMAIN conts /\ conts[LiveRow] \in Row
<1>1. LiveRow \in DOMAIN conts
  BY DEF LiveRows, LiveRow
<1> QED BY <1>1, ElementOfSeq, LenProperties DEF WakeTypeOK

\* The fencing row is a row.
LEMMA FenceRowType ==
  ASSUME WakeTypeOK, FenceRows # {}
  PROVE  FenceRow \in DOMAIN conts /\ conts[FenceRow] \in Row
<1>1. FenceRow \in DOMAIN conts
  BY DEF FenceRows, FenceRow
<1> QED BY <1>1, ElementOfSeq, LenProperties DEF WakeTypeOK

\* An empty hand and a resting handler have their types.
LEMMA RestType == NoObs \in Observation /\ Resting \in HandlerState
BY DEF NoObs, Observation, Resting, HandlerState

\* A lease that is granted, renewed or capped at a time is a lease.
LEMMA ExpiryType ==
  ASSUME TypeOK
  PROVE  /\ clock + LeaseTicks \in Nat
         /\ CheckpointExpiry \in Nat
         /\ FenceRows # {} => FenceExpiry(conts[FenceRow]) \in Nat
<1>1. clock \in Nat /\ LeaseTicks \in Nat
  BY TickAssumption DEF TypeOK, ActorTypeOK
<1>2. clock + LeaseTicks \in Nat
  BY <1>1
<1>3. CheckpointExpiry \in Nat
  <2>1. CASE LiveRows # {}
    <3>1. EffectiveDue(conts[LiveRow]) \in Nat
      BY <2>1, LiveRowType, RowFields DEF TypeOK
    <3> QED BY <3>1, <1>2, TimeChoice DEF CheckpointExpiry
  <2>2. CASE LiveRows = {}
    BY <2>2, <1>2 DEF CheckpointExpiry
  <2> QED BY <2>1, <2>2
<1>4. ASSUME FenceRows # {} PROVE FenceExpiry(conts[FenceRow]) \in Nat
  <2>1. HandoffDue(conts[FenceRow]) \in Nat
    BY <1>4, FenceRowType, RowFields DEF TypeOK
  <2> QED BY <2>1, <1>2, TimeChoice DEF FenceExpiry
<1> QED BY <1>2, <1>3, <1>4

-----------------------------------------------------------------------------
(* The operations on the goal row.                                        *)

\* Every way run_goal obtains the lease keeps the types.
LEMMA AcquireType ==
  ASSUME TypeOK, CreateGoal \/ AcquireFree \/ AcquireStale
  PROVE  TypeOK'
<1>1. Grant(0, 0, clock + LeaseTicks)
  BY DEF CreateGoal, AcquireFree, AcquireStale
<1>2. GoalTypeOK /\ clock \in Nat /\ clock + LeaseTicks \in Nat
  BY ExpiryType DEF TypeOK, ActorTypeOK
<1>3. /\ gen' \in Nat /\ seq' \in Nat /\ lease' \in Lease
      /\ grants' \in Seq([by : Nat, tick : Nat]) /\ Len(grants') = gen'
  BY <1>1, <1>2, GrantType
<1>4. GoalTypeOK'
  BY <1>3 DEF TypeOK, GoalTypeOK, CreateGoal, AcquireFree, AcquireStale
<1>5. WakeTypeOK'
  BY DEF TypeOK, WakeTypeOK, CreateGoal, AcquireFree, AcquireStale, wakeRows
<1>6. ActorTypeOK'
  BY RestType DEF TypeOK, ActorTypeOK, CreateGoal, AcquireFree, AcquireStale, world
<1> QED BY <1>4, <1>5, <1>6 DEF TypeOK

\* A checkpoint keeps the types.
LEMMA CheckpointStepType ==
  ASSUME TypeOK, NEW g \in Nat, NEW e \in Nat, NEW T \in SUBSET Tasks,
         NEW release \in BOOLEAN, Checkpoint(g, e, T, release)
  PROVE  TypeOK'
<1>1. revision' \in Nat /\ journal' \in Seq(Nat) /\ Len(journal') = revision'
  BY CheckpointType DEF Checkpoint, TypeOK
<1>2. lease' \in Lease
  <2>1. CheckpointExpiry \in Nat /\ clock \in Nat
    BY ExpiryType DEF TypeOK, ActorTypeOK
  <2>2. \/ lease' = NoLease
        \/ lease' = [held |-> TRUE, hb |-> clock, exp |-> CheckpointExpiry]
    BY Zenon DEF Checkpoint, RenewLease
  <2>3. NoLease \in Lease
    BY DEF NoLease, Lease
  <2>4. [held |-> TRUE, hb |-> clock, exp |-> CheckpointExpiry] \in Lease
    BY <2>1 DEF Lease
  <2> QED BY <2>2, <2>3, <2>4
<1>3. GoalTypeOK'
  BY <1>1, <1>2 DEF TypeOK, GoalTypeOK, Checkpoint, BumpActivity
<1>4. WakeTypeOK' /\ ActorTypeOK'
  BY DEF TypeOK, WakeTypeOK, ActorTypeOK, Checkpoint, wakeRows, world
<1> QED BY <1>3, <1>4 DEF TypeOK

\* Admission, heartbeat and end of a fenced call keep the types.
LEMMA CallStepType ==
  ASSUME TypeOK, CallStep
  PROVE  TypeOK'
<1>1. clock + CallTicks \in Nat
  BY TickAssumption DEF TypeOK, ActorTypeOK
<1>2. ASSUME NEW g \in Nat, FenceRenewal(g)
      PROVE  seq' \in Nat /\ lease' \in Lease
  BY <1>2, ExpiryType DEF FenceRenewal, BumpActivity, RenewLease, Lease, TypeOK,
     GoalTypeOK, ActorTypeOK
<1>3. ASSUME NEW g \in 1 .. gen, NEW id \in CallIds, BeginCall(g, id)
      PROVE  TypeOK'
  <2>1. g \in Nat
    BY DEF TypeOK, GoalTypeOK
  <2>2. seq' \in Nat /\ lease' \in Lease
    BY <1>2, <1>3, <2>1 DEF BeginCall
  <2>3. calls' \subseteq [id : CallIds, gen : Nat, exp : Nat]
    BY <1>1, <1>3, <2>1 DEF BeginCall, TypeOK, ActorTypeOK
  <2> QED BY <1>3, <2>2, <2>3 DEF BeginCall, TypeOK, GoalTypeOK, WakeTypeOK, ActorTypeOK,
          wakeRows, world
<1>4. ASSUME NEW c \in calls, HeartbeatCall(c)
      PROVE  TypeOK'
  <2>1. c \in [id : CallIds, gen : Nat, exp : Nat]
    BY DEF TypeOK, ActorTypeOK
  <2>2. seq' \in Nat /\ lease' \in Lease
    BY <1>2, <1>4, <2>1 DEF HeartbeatCall
  <2>3. calls' \subseteq [id : CallIds, gen : Nat, exp : Nat]
    BY <1>1, <1>4, <2>1 DEF HeartbeatCall, TypeOK, ActorTypeOK
  <2> QED BY <1>4, <2>2, <2>3 DEF HeartbeatCall, TypeOK, GoalTypeOK, WakeTypeOK,
          ActorTypeOK, wakeRows, world
<1>5. ASSUME NEW c \in calls, EndCall(c)
      PROVE  TypeOK'
  BY <1>5 DEF EndCall, TypeOK, GoalTypeOK, WakeTypeOK, ActorTypeOK, goalRow, wakeRows, world
<1> QED BY <1>3, <1>4, <1>5 DEF CallStep

\* An observation keeps the types.
LEMMA ObserveType ==
  ASSUME TypeOK, NEW trustworthy \in BOOLEAN, Observe(trustworthy)
  PROVE  TypeOK'
<1>1. obs' \in Observation
  <2>1. tracked \ Running \in SUBSET Tasks
    BY DEF TypeOK, GoalTypeOK
  <2>2. gen \in Nat /\ seq \in Nat /\ revision \in Nat
    BY DEF TypeOK, GoalTypeOK
  <2>3. (trustworthy /\ LiveCalls = {}) \in BOOLEAN /\ (~LeaseValid) \in BOOLEAN
    OBVIOUS
  <2> QED BY <2>1, <2>2, <2>3 DEF Observe, Observation
<1> QED BY <1>1 DEF Observe, TypeOK, GoalTypeOK, WakeTypeOK, ActorTypeOK, goalRow,
        wakeRows, world

\* Closing a goal keeps the goal row's type.
LEMMA CloseType ==
  ASSUME GoalTypeOK, NEW author \in Nat, NEW outcome \in {"cancelled"} \cup Outcomes,
         CloseGoal(outcome, author), UNCHANGED <<gen, seq, grants>>
  PROVE  GoalTypeOK'
<1>1. revision' \in Nat /\ journal' \in Seq(Nat) /\ Len(journal') = revision'
  BY CheckpointType DEF CloseGoal
<1> QED BY <1>1 DEF CloseGoal, GoalTypeOK, NoLease, Lease

\* Reconciliation keeps the types.
LEMMA ReconcileType ==
  ASSUME TypeOK, Reconcile
  PROVE  TypeOK'
<1>1. GoalTypeOK'
  BY CloseType DEF Reconcile, TypeOK, Owner
<1> QED BY <1>1, RestType DEF Reconcile, TypeOK, WakeTypeOK, ActorTypeOK, wakeRows, world

\* Validation, commit and stop of the finish and cancel handlers keep the types.
LEMMA HandlerStepType ==
  ASSUME TypeOK,
         \/ \E g \in Nat, e \in Nat, outcome \in Outcomes : FinishStart(g, e, outcome)
         \/ FinishCommit
         \/ \E e \in Nat : CancelStart(e)
         \/ HandlerStops
  PROVE  TypeOK'
<1>1. ASSUME NEW g \in Nat, NEW e \in Nat, NEW outcome \in Outcomes,
             FinishStart(g, e, outcome)
      PROVE  TypeOK'
  <2>1. handler' \in HandlerState
    BY <1>1 DEF FinishStart, HandlerState, TypeOK, ActorTypeOK
  <2> QED BY <1>1, <2>1 DEF FinishStart, TypeOK, GoalTypeOK, WakeTypeOK, ActorTypeOK,
          goalRow, wakeRows, world
<1>2. ASSUME FinishCommit
      PROVE  TypeOK'
  <2>1. handler.gen \in Nat /\ handler.outcome \in Outcomes
    BY <1>2 DEF FinishCommit, TypeOK, ActorTypeOK, HandlerState
  <2>2. CloseGoal(handler.outcome, handler.gen) /\ UNCHANGED <<gen, seq, grants>>
    BY <1>2 DEF FinishCommit, Finish
  <2>3. GoalTypeOK'
    BY <2>1, <2>2, CloseType DEF TypeOK
  <2> QED BY <1>2, <2>3, RestType DEF FinishCommit, Finish, TypeOK, WakeTypeOK, ActorTypeOK,
          wakeRows, world
<1>3. ASSUME NEW e \in Nat, CancelStart(e)
      PROVE  TypeOK'
  <2>1. GoalTypeOK'
    <3>1. CASE CloseGoal("cancelled", Owner)
      BY <1>3, <3>1, CloseType DEF CancelStart, Cancel, TypeOK, Owner
    <3>2. CASE UNCHANGED <<status, revision, lease, tracked, journal>>
      BY <1>3, <3>2 DEF CancelStart, Cancel, TypeOK, GoalTypeOK
    <3> QED BY <1>3, <3>1, <3>2 DEF CancelStart, Cancel
  <2>2. handler' \in HandlerState
    <3>1. clock \in Nat
      BY DEF TypeOK, ActorTypeOK
    <3>2. handler' = [stage |-> "mark_cancel", gen |-> 0, rev |-> 0, at |-> clock,
                      outcome |-> "none"]
      BY <1>3 DEF CancelStart, Resting
    <3> QED BY <3>1, <3>2 DEF HandlerState
  <2> QED BY <1>3, <2>1, <2>2 DEF CancelStart, Cancel, TypeOK, WakeTypeOK, ActorTypeOK,
          wakeRows, world
<1>4. ASSUME HandlerStops
      PROVE  TypeOK'
  BY <1>4, RestType DEF HandlerStops, TypeOK, GoalTypeOK, WakeTypeOK, ActorTypeOK, goalRow,
     wakeRows, world
<1> QED BY <1>1, <1>2, <1>3, <1>4

-----------------------------------------------------------------------------
(* The scheduled-continuation rows.                                       *)

\* A transaction that rewrites one row and nothing else keeps the types.
LEMMA RowStepType ==
  ASSUME TypeOK, NEW i \in DOMAIN conts, NEW row \in Row, PutRow(i, row)
  PROVE  conts' \in Seq(Row)
BY RowReplaced DEF PutRow, TypeOK, WakeTypeOK

\* What an expedite asks for is a row.
LEMMA ExpediteType ==
  ASSUME TypeOK, NEW g \in Nat, NEW e \in Nat, NEW i \in DOMAIN conts,
         NEW d \in ExpediteDelays, Expedite(g, e, i, d)
  PROVE  TypeOK'
<1>1. conts[i] \in Row
  BY ElementOfSeq, LenProperties DEF TypeOK, WakeTypeOK
<1>2. clock + d \in Nat
  BY TickAssumption DEF TypeOK, ActorTypeOK
<1>3. [conts[i] EXCEPT !.status = "reschedule_required", !.pending = clock + d] \in Row
  BY <1>1, <1>2 DEF Row, Live, Fencing, Reschedule
<1>4. conts' \in Seq(Row)
  BY <1>3, RowStepType DEF Expedite
<1> QED BY <1>4 DEF Expedite, TypeOK, GoalTypeOK, WakeTypeOK, ActorTypeOK, goalRow, world

\* Every receipt keeps the types.
LEMMA ReceiptType ==
  ASSUME TypeOK, NEW i \in DOMAIN conts, Receipt(i)
  PROVE  TypeOK'
<1> DEFINE c == conts[i]
<1>1. c \in Row
  BY ElementOfSeq, LenProperties DEF TypeOK, WakeTypeOK
<1>2. /\ Counted(c) \in 0 .. 3
      /\ EffectiveDue(c) \in Nat
  BY <1>1, RowFields
<1>3. \A s \in Live \cup Historical, n, r \in BOOLEAN :
        [c EXCEPT !.status = s, !.native = @ \/ n, !.confirmed = @ \/ r] \in Row
  BY <1>1 DEF Row
<1>4. conts' \in Seq(Row)
  <2>1. CASE ReceiptCreated(i)
    <3>1. [c EXCEPT !.status = "scheduled", !.native = TRUE, !.confirmed = TRUE] \in Row
      BY <1>1 DEF Row, Live, Fencing
    <3> QED BY <2>1, <3>1, RowStepType DEF ReceiptCreated
  <2>2. CASE ReceiptRescheduled(i)
    <3>1. [c EXCEPT !.status = "scheduled", !.due = EffectiveDue(c), !.pending = NoTime,
                    !.count = Counted(c)] \in Row
      BY <1>1, <1>2 DEF Row, Live, Fencing, NoTime
    <3> QED BY <2>2, <3>1, RowStepType DEF ReceiptRescheduled
  <2>3. ASSUME NEW o \in {"reschedule_failed", "reschedule_uncertain"},
               ReceiptNotRescheduled(i, o)
        PROVE  conts' \in Seq(Row)
    <3>1. [c EXCEPT !.status = o] \in Row
      BY <1>1 DEF Row, Live, Fencing, Reschedule
    <3> QED BY <2>3, <3>1, RowStepType DEF ReceiptNotRescheduled
  <2>4. CASE ReceiptConsumed(i)
    <3>1. [c EXCEPT !.status = "superseded", !.pending = NoTime] \in Row
      BY <1>1 DEF Row, Historical, NoTime
    <3> QED BY <2>4, <3>1, RowStepType DEF ReceiptConsumed
  <2>5. CASE ReceiptCancelled(i)
    <3>1. [c EXCEPT !.status = "cancelled"] \in Row
      BY <1>1 DEF Row, Historical
    <3> QED BY <2>5, <3>1, RowStepType DEF ReceiptCancelled
  <2>6. ASSUME NEW o \in {"cancel_failed", "cancel_uncertain"}, NEW r \in BOOLEAN,
               ReceiptNotCancelled(i, o, r)
        PROVE  conts' \in Seq(Row)
    <3>1. [c EXCEPT !.status = o, !.confirmed = @ \/ r] \in Row
      BY <1>1 DEF Row, Live, Cancelling
    <3> QED BY <2>6, <3>1, RowStepType DEF ReceiptNotCancelled
  <2>7. ASSUME NEW o \in {"create_failed", "create_uncertain"}, NEW n \in BOOLEAN,
               NEW r \in BOOLEAN, ReceiptNotCreated(i, o, n, r)
        PROVE  conts' \in Seq(Row)
    <3>1. o \in Live \cup Historical
      BY DEF Live, Fencing, Historical
    <3> QED BY <1>3, <2>7, <3>1, RowStepType DEF ReceiptNotCreated
  <2> QED BY <2>1, <2>2, <2>3, <2>4, <2>5, <2>6, <2>7 DEF Receipt
<1> QED BY <1>4 DEF Receipt, TypeOK, GoalTypeOK, WakeTypeOK, ActorTypeOK, goalRow, world

\* A cancellation of the watchdog keeps the types.
LEMMA CancelWatchdogType ==
  ASSUME TypeOK, NEW i \in DOMAIN conts, CancelWatchdog(i)
  PROVE  TypeOK'
<1>1. conts[i] \in Row
  BY ElementOfSeq, LenProperties DEF TypeOK, WakeTypeOK
<1>2. CancelOutcome(conts[i]) \in Live \cup Historical
  BY DEF CancelOutcome, Live, Cancelling, Historical
<1>3. conts' \in Seq(Row)
  BY <1>1, <1>2, RowFields, RowStepType DEF CancelWatchdog
<1> QED BY <1>3 DEF CancelWatchdog, TypeOK, GoalTypeOK, WakeTypeOK, ActorTypeOK, goalRow, world

\* Marking the watchdog of a goal that ends leaves rows.
LEMMA MarkType ==
  ASSUME TypeOK, NEW t \in Nat, MarkGoalFinished(t)
  PROVE  conts' \in Seq(Row)
<1>1. CASE LiveRows = {}
  BY <1>1 DEF MarkGoalFinished, TypeOK, WakeTypeOK
<1>2. CASE LiveRows # {}
  <2>1. LiveRow \in DOMAIN conts /\ conts[LiveRow] \in Row
    BY <1>2, LiveRowType DEF TypeOK
  <2>2. MarkedStatus(conts[LiveRow], t) \in Live \cup Historical
    BY DEF MarkedStatus, Live, Cancelling, Historical
  <2>3. [conts[LiveRow] EXCEPT !.status = MarkedStatus(conts[LiveRow], t)] \in Row
    BY <2>1, <2>2, RowFields
  <2>4. PutRow(LiveRow, [conts[LiveRow] EXCEPT !.status = MarkedStatus(conts[LiveRow], t)])
    BY <1>2 DEF MarkGoalFinished
  <2> QED BY <2>1, <2>3, <2>4, RowStepType
<1> QED BY <1>1, <1>2

\* The mark transactions of both handlers keep the types.
LEMMA MarkStepType ==
  ASSUME TypeOK, FinishMark \/ CancelMark
  PROVE  TypeOK'
<1>1. handler.at \in Nat /\ handler \in HandlerState
  BY DEF TypeOK, ActorTypeOK, HandlerState
<1>2. conts' \in Seq(Row)
  BY <1>1, MarkType DEF FinishMark, CancelMark
<1>3. handler' \in HandlerState
  <2>1. CASE FinishMark
    <3>1. [handler EXCEPT !.stage = "finish"] \in HandlerState
      BY <1>1, <2>1 DEF FinishMark, HandlerState
    <3>2. handler' = Resting \/ handler' = [handler EXCEPT !.stage = "finish"]
      BY <2>1 DEF FinishMark
    <3> QED BY <3>1, <3>2, RestType
  <2>2. CASE CancelMark
    BY <2>2, RestType DEF CancelMark
  <2> QED BY <2>1, <2>2
<1> QED BY <1>2, <1>3 DEF FinishMark, CancelMark, TypeOK, GoalTypeOK, WakeTypeOK,
        ActorTypeOK, goalRow, world

\* A reservation keeps the types.
LEMMA PrepareType ==
  ASSUME TypeOK, NEW g \in Nat, NEW e \in Nat, NEW T \in SUBSET Tasks,
         NEW occ \in Occurrences, NEW d \in DueDelays, Prepare(g, e, T, occ, d)
  PROVE  TypeOK'
<1>1. clock \in Nat /\ clock + d \in Nat /\ clock + LeaseTicks \in Nat
  BY ExpiryType, TickAssumption DEF TypeOK, ActorTypeOK
<1>2. revision' \in Nat /\ journal' \in Seq(Nat) /\ Len(journal') = revision'
  BY CheckpointType DEF Prepare, TypeOK
<1>3. lease' \in Lease
  <2> DEFINE exp == IF occ = "interval" THEN clock + LeaseTicks
                                        ELSE Earlier(clock + LeaseTicks, clock + d)
  <2>1. exp \in Nat
    BY <1>1, TimeChoice
  <2>2. lease' = [held |-> TRUE, hb |-> clock, exp |-> exp]
    BY DEF Prepare, RenewLease
  <2> HIDE DEF exp
  <2> QED BY <1>1, <2>1, <2>2 DEF Lease
<1>4. conts' \in Seq(Row)
  <2>1. occ \in {"once", "interval"}
    BY ChoiceAssumption
  <2>2. NewRow(occ, clock + d, 0) \in Row
    BY <1>1, <2>1, NewRowType
  <2> QED BY <2>2, AppendProperties DEF Prepare, TypeOK, WakeTypeOK
<1> QED BY <1>2, <1>3, <1>4 DEF Prepare, TypeOK, GoalTypeOK, WakeTypeOK, ActorTypeOK, world

\* A refresh of the live watchdog keeps the types.
LEMMA RefreshType ==
  ASSUME TypeOK, NEW g \in Nat, NEW e \in Nat, NEW T \in SUBSET Tasks,
         NEW occ \in Occurrences, NEW d \in DueDelays, Refresh(g, e, T, occ, d)
  PROVE  TypeOK'
<1> DEFINE c == conts[LiveRow]
<1>1. clock \in Nat /\ clock + d \in Nat /\ clock + LeaseTicks \in Nat
  BY ExpiryType, TickAssumption DEF TypeOK, ActorTypeOK
<1>2. LiveRow \in DOMAIN conts /\ c \in Row
  BY LiveRowType DEF Refresh, TypeOK
<1>3. revision' \in Nat /\ journal' \in Seq(Nat) /\ Len(journal') = revision'
  BY CheckpointType DEF Refresh, TypeOK
<1>4. lease' \in Lease
  <2>1. EffectiveDue(c) \in Nat
    BY <1>2, RowFields
  <2>2. Earlier(clock + LeaseTicks, clock + d) \in Nat
        /\ Earlier(clock + LeaseTicks, EffectiveDue(c)) \in Nat
    BY <1>1, <2>1, TimeChoice
  <2>3. RefreshExpiry(c, occ, d) \in Nat
    BY <1>1, <2>2 DEF RefreshExpiry
  <2>4. lease' = [held |-> TRUE, hb |-> clock, exp |-> RefreshExpiry(c, occ, d)]
    BY DEF Refresh, RenewLease
  <2> QED BY <1>1, <2>3, <2>4 DEF Lease
<1>5. conts' \in Seq(Row)
  <2> DEFINE row == [c EXCEPT !.status = "reschedule_required", !.pending = clock + d]
  <2>1. row \in Row
    BY <1>1, <1>2 DEF Row, Live, Fencing, Reschedule
  <2>2. [conts EXCEPT ![LiveRow] = row] \in Seq(Row)
    BY <1>2, <2>1, RowReplaced DEF TypeOK, WakeTypeOK
  <2>3. conts' = conts \/ conts' = [conts EXCEPT ![LiveRow] = row]
    BY DEF Refresh
  <2> QED BY <2>2, <2>3 DEF TypeOK, WakeTypeOK
<1> QED BY <1>3, <1>4, <1>5 DEF Refresh, TypeOK, GoalTypeOK, WakeTypeOK, ActorTypeOK, world

-----------------------------------------------------------------------------
(* Firing wakes.                                                          *)

\* The rows after a successor was reserved for row i.
LEMMA ReservedType ==
  ASSUME NEW rows \in Seq(Row), NEW i \in DOMAIN rows, NEW due \in Nat,
         Reservable(rows, i)
  PROVE  /\ Reserved(rows, i, due) \in Seq(Row)
         /\ i + 1 \in DOMAIN Reserved(rows, i, due)
<1>1. i \in Nat /\ DOMAIN rows = 1 .. Len(rows) /\ Len(rows) \in Nat
  BY LenProperties
<1>2. CASE ~HasSuccessor(rows, i)
  <2>1. NewRow("once", due, i) \in Row
    BY <1>1, NewRowType
  <2>2. i = Len(rows)
    BY <1>2 DEF Reservable
  <2>3. Append(rows, NewRow("once", due, i)) \in Seq(Row)
        /\ Len(Append(rows, NewRow("once", due, i))) = Len(rows) + 1
    BY <2>1, AppendProperties
  <2>4. Reserved(rows, i, due) = Append(rows, NewRow("once", due, i))
    BY <1>2 DEF Reserved
  <2> QED BY <1>1, <2>2, <2>3, <2>4, LenProperties
<1>3. CASE HasSuccessor(rows, i) /\ Recreatable(rows[i + 1])
  <2> DEFINE row == [rows[i + 1] EXCEPT !.status = "prepared", !.due = due]
  <2>1. i + 1 \in DOMAIN rows /\ rows[i + 1] \in Row
    BY <1>1, <1>3, ElementOfSeq DEF HasSuccessor
  <2>2. row \in Row
    BY <2>1 DEF Row, Live, Fencing
  <2>3. Reserved(rows, i, due) = [rows EXCEPT ![i + 1] = row]
    BY <1>3 DEF Reserved
  <2> QED BY <2>1, <2>2, <2>3, RowReplaced
<1>4. CASE HasSuccessor(rows, i) /\ ~Recreatable(rows[i + 1])
  BY <1>4 DEF Reserved, HasSuccessor
<1> QED BY <1>2, <1>3, <1>4

\* The delay of a collision's successor is a time.
LEMMA CollisionDelayType ==
  ASSUME TypeOK, NEW c \in Row, NEW probed \in BOOLEAN
  PROVE  CollisionDelay(c, probed) \in Nat
<1>1. /\ CollisionMin \in Nat /\ CollisionMax \in Nat /\ EarlyTol \in Nat /\ ProbeAge \in Nat
      /\ clock \in Nat /\ lease \in Lease
  BY TickAssumption DEF TypeOK, GoalTypeOK, ActorTypeOK
<1>2. Backoff(c.count) \in Nat
  <2>1. c.count \in 0 .. 3
    BY DEF Row
  <2>2. 2 * CollisionMin \in Nat /\ 4 * CollisionMin \in Nat /\ 8 * CollisionMin \in Nat
    BY <1>1
  <2> DEFINE doubled == [k \in 0 .. 3 |-> CASE k = 0 -> CollisionMin
                                            [] k = 1 -> 2 * CollisionMin
                                            [] k = 2 -> 4 * CollisionMin
                                            [] k = 3 -> 8 * CollisionMin]
  <2>3. doubled[c.count] \in {CollisionMin, 2 * CollisionMin, 4 * CollisionMin, 8 * CollisionMin}
    BY <2>1
  <2>4. doubled[c.count] \in Nat
    BY <1>1, <2>2, <2>3
  <2>5. Earlier(CollisionMax, doubled[c.count]) \in Nat
    BY <1>1, <2>4, TimeChoice
  <2> QED BY <2>5 DEF Backoff
<1> DEFINE aligned == IF LeaseValid THEN (lease.exp - clock) + EarlyTol ELSE 0
           floor   == IF probed THEN ProbeAge + EarlyTol ELSE aligned
<1>3. aligned \in Nat
  BY <1>1 DEF LeaseValid, Lease
<1>4. floor \in Nat
  <2>1. ProbeAge + EarlyTol \in Nat
    BY <1>1
  <2> QED BY <1>3, <2>1
<1> HIDE DEF floor
<1>5. Later(CollisionMin, Backoff(c.count)) \in Nat
  BY <1>1, <1>2, TimeChoice
<1>6. Later(Later(CollisionMin, Backoff(c.count)), floor) \in Nat
  BY <1>4, <1>5, TimeChoice
<1>7. Earlier(CollisionMax, Later(Later(CollisionMin, Backoff(c.count)), floor)) \in Nat
  BY <1>1, <1>6, TimeChoice
<1> QED BY <1>7 DEF CollisionDelay, floor

\* Capping a lease leaves a lease.
LEMMA CapType ==
  ASSUME GoalTypeOK, NEW due \in Nat, CapLease(due)
  PROVE  lease' \in Lease
<1>1. lease \in Lease /\ lease.exp \in Nat
  BY DEF GoalTypeOK, Lease
<1>2. Earlier(lease.exp, due) \in Nat
  BY <1>1, TimeChoice
<1> QED BY <1>1, <1>2 DEF CapLease, Lease

\* A ticket's claim keeps the types.
LEMMA ClaimTicketType ==
  ASSUME TypeOK, NEW i \in DOMAIN conts, ClaimTicket(i)
  PROVE  TypeOK'
<1> DEFINE row     == [conts[i] EXCEPT !.status = "claimed", !.pending = NoTime,
                                       !.probe = NoProbe]
           claimed == [conts EXCEPT ![i] = row]
           after   == Reserved(claimed, i, clock + ClaimDelay)
<1>1. conts[i] \in Row /\ i \in Nat
  BY ElementOfSeq, LenProperties DEF TypeOK, WakeTypeOK
<1>2. clock \in Nat /\ clock + ClaimDelay \in Nat /\ clock + LeaseTicks \in Nat
  BY ExpiryType, TickAssumption DEF TypeOK, ActorTypeOK
<1>3. row \in Row
  BY <1>1 DEF Row, Historical, NoTime, NoProbe, Probe
<1>4. claimed \in Seq(Row) /\ i \in DOMAIN claimed
  BY <1>3, RowReplaced DEF TypeOK, WakeTypeOK
<1>5. /\ Reservable(claimed, i) /\ conts' = after
      /\ Grant(i, 0, Earlier(clock + LeaseTicks, after[i + 1].due))
  BY DEF ClaimTicket
<1> HIDE DEF row, claimed
<1>6. after \in Seq(Row) /\ i + 1 \in DOMAIN after
  BY <1>2, <1>4, <1>5, ReservedType
<1> HIDE DEF after
<1>7. after[i + 1] \in Row
  BY <1>6, ElementOfSeq, LenProperties
<1>8. after[i + 1].due \in Nat
  BY <1>7 DEF Row
<1>9. Earlier(clock + LeaseTicks, after[i + 1].due) \in Nat
  BY <1>2, <1>8, TimeChoice
<1>10. /\ gen' \in Nat /\ seq' \in Nat /\ lease' \in Lease
       /\ grants' \in Seq([by : Nat, tick : Nat]) /\ Len(grants') = gen'
  BY <1>1, <1>2, <1>5, <1>9, GrantType DEF TypeOK
<1> QED BY <1>5, <1>6, <1>10, RestType DEF ClaimTicket, TypeOK, GoalTypeOK, WakeTypeOK,
        ActorTypeOK, world

\* The probe a collision leaves has the type of a probe.
LEMMA CollisionProbeType ==
  ASSUME TypeOK, NEW c \in Row
  PROVE  CollisionProbe(c) \in Probe
<1>1. clock \in Nat /\ gen \in Nat /\ seq \in Nat /\ c.probe.at \in Nat
  BY DEF TypeOK, GoalTypeOK, ActorTypeOK, Row, Probe
<1> DEFINE at == IF c.status \in Reschedule \/ MatchingProbe(c) THEN c.probe.at ELSE clock
<1>2. at \in Nat
  BY <1>1
<1>3. CollisionProbe(c) = NoProbe
      \/ CollisionProbe(c) = [set |-> TRUE, at |-> at, gen |-> gen, seq |-> seq]
  BY DEF CollisionProbe
<1> HIDE DEF at
<1>4. [set |-> TRUE, at |-> at, gen |-> gen, seq |-> seq] \in Probe
  BY <1>1, <1>2 DEF Probe
<1>5. NoProbe \in Probe
  BY DEF NoProbe, Probe
<1> QED BY <1>3, <1>4, <1>5

\* A collision keeps the types.
LEMMA CollideType ==
  ASSUME TypeOK, NEW i \in DOMAIN conts, Collide(i)
  PROVE  TypeOK'
<1> DEFINE c       == conts[i]
           probe   == CollisionProbe(c)
           row     == [c EXCEPT !.status = "superseded", !.pending = NoTime,
                                !.count = Counted(c), !.probe = probe]
           retired == [conts EXCEPT ![i] = row]
           delay   == CollisionDelay(c, probe.set)
           after   == Reserved(retired, i, clock + delay)
           succ    == [after[i + 1] EXCEPT !.count = Counted(c), !.probe = probe]
<1>1. c \in Row /\ i \in Nat
  BY ElementOfSeq, LenProperties DEF TypeOK, WakeTypeOK
<1>2. probe \in Probe /\ Counted(c) \in 0 .. 3
  BY <1>1, CollisionProbeType, RowFields
<1> HIDE DEF c, probe
<1>3. delay \in Nat
  <2>1. probe.set \in BOOLEAN
    BY <1>2 DEF Probe
  <2> QED BY <1>1, <2>1, CollisionDelayType
<1> HIDE DEF delay
<1>4. clock + delay \in Nat
  BY <1>3 DEF TypeOK, ActorTypeOK
<1>5. row \in Row
  BY <1>1, <1>2 DEF Row, Historical, NoTime
<1> HIDE DEF row
<1>6. retired \in Seq(Row) /\ i \in DOMAIN retired
  BY <1>5, RowReplaced DEF TypeOK, WakeTypeOK
<1>7. /\ Reservable(retired, i) /\ conts' = [after EXCEPT ![i + 1] = succ]
      /\ CapLease(after[i + 1].due)
  BY DEF Collide, c, probe, row, delay
<1> HIDE DEF retired
<1>8. after \in Seq(Row) /\ i + 1 \in DOMAIN after
  BY <1>4, <1>6, <1>7, ReservedType
<1> HIDE DEF after
<1>9. after[i + 1] \in Row
  BY <1>8, ElementOfSeq, LenProperties
<1>10. succ \in Row
  BY <1>2, <1>9 DEF Row
<1>11. conts' \in Seq(Row)
  <2> HIDE DEF succ
  <2> QED BY <1>7, <1>8, <1>10, RowReplaced
<1>12. lease' \in Lease
  <2>1. after[i + 1].due \in Nat
    BY <1>9 DEF Row
  <2> QED BY <1>7, <2>1, CapType DEF TypeOK
<1> QED BY <1>11, <1>12, RestType DEF Collide, TypeOK, GoalTypeOK, WakeTypeOK, ActorTypeOK,
        world

\* Recovering a successor keeps the types.
LEMMA RecoverSuccessorType ==
  ASSUME TypeOK, NEW i \in DOMAIN conts, RecoverSuccessor(i)
  PROVE  TypeOK'
<1> DEFINE after == Reserved(conts, i, clock + ClaimDelay)
<1>1. clock + ClaimDelay \in Nat
  BY TickAssumption DEF TypeOK, ActorTypeOK
<1>2. Reservable(conts, i) /\ conts' = after /\ CapLease(after[i + 1].due)
  BY DEF RecoverSuccessor
<1>3. after \in Seq(Row) /\ i + 1 \in DOMAIN after
  BY <1>1, <1>2, ReservedType DEF TypeOK, WakeTypeOK
<1> HIDE DEF after
<1>4. after[i + 1].due \in Nat
  <2>1. after[i + 1] \in Row
    BY <1>3, ElementOfSeq, LenProperties
  <2> QED BY <2>1 DEF Row
<1>5. lease' \in Lease
  BY <1>2, <1>4, CapType DEF TypeOK
<1> QED BY <1>2, <1>3, <1>5 DEF RecoverSuccessor, TypeOK, GoalTypeOK, WakeTypeOK,
        ActorTypeOK, world

\* A wake of the recurring watchdog keeps the types.
LEMMA RecurringType ==
  ASSUME TypeOK, NEW i \in DOMAIN conts,
         RecurringAcquire(i) \/ RecurringBusy(i) \/ RecurringCleanup(i)
  PROVE  TypeOK'
<1>1. conts[i] \in Row /\ i \in Nat
  BY ElementOfSeq, LenProperties DEF TypeOK, WakeTypeOK
<1>2. Tick(conts[i]) \in Nat
  BY <1>1, TickType DEF TypeOK, ActorTypeOK
<1>3. ASSUME NEW g \in Nat, RecordRun(i, g)
      PROVE  runs' \subseteq [cont : Nat, tick : Nat, gen : Nat]
  BY <1>1, <1>2, <1>3 DEF RecordRun, TypeOK, WakeTypeOK
<1>4. CASE RecurringAcquire(i)
  <2>1. gen + 1 \in Nat /\ clock + LeaseTicks \in Nat /\ clock \in Nat
    BY ExpiryType DEF TypeOK, GoalTypeOK, ActorTypeOK
  <2>2. runs' \subseteq [cont : Nat, tick : Nat, gen : Nat]
    BY <1>3, <1>4, <2>1 DEF RecurringAcquire
  <2>3. Grant(i, Tick(conts[i]), clock + LeaseTicks)
    BY <1>4 DEF RecurringAcquire
  <2>4. /\ gen' \in Nat /\ seq' \in Nat /\ lease' \in Lease
        /\ grants' \in Seq([by : Nat, tick : Nat]) /\ Len(grants') = gen'
    BY <1>1, <1>2, <2>1, <2>3, GrantType DEF TypeOK
  <2> QED BY <1>4, <2>2, <2>4, RestType DEF RecurringAcquire, TypeOK, GoalTypeOK,
          WakeTypeOK, ActorTypeOK, world
<1>5. CASE RecurringBusy(i)
  <2>1. runs' \subseteq [cont : Nat, tick : Nat, gen : Nat]
    BY <1>3, <1>5 DEF RecurringBusy
  <2> QED BY <1>5, <2>1, RestType DEF RecurringBusy, TypeOK, GoalTypeOK, WakeTypeOK,
          ActorTypeOK, goalRow, world
<1>6. CASE RecurringCleanup(i)
  <2>1. runs' \subseteq [cont : Nat, tick : Nat, gen : Nat]
    BY <1>3, <1>6 DEF RecurringCleanup
  <2> QED BY <1>6, <2>1 DEF RecurringCleanup, TypeOK, GoalTypeOK, WakeTypeOK,
          ActorTypeOK, goalRow, world
<1> QED BY <1>4, <1>5, <1>6

\* Every wake keeps the types.
LEMMA WakeType ==
  ASSUME TypeOK, NEW i \in DOMAIN conts, Wake(i)
  PROVE  TypeOK'
<1>1. CASE TicketNoop(i)
  <2>1. conts[i] \in Row
    BY ElementOfSeq, LenProperties DEF TypeOK, WakeTypeOK
  <2>2. [conts[i] EXCEPT !.status = "terminal_noop"] \in Row
    BY <2>1 DEF Row, Historical
  <2>3. conts' \in Seq(Row)
    BY <1>1, <2>2, RowStepType DEF TicketNoop
  <2> QED BY <1>1, <2>3 DEF TicketNoop, TypeOK, GoalTypeOK, WakeTypeOK, ActorTypeOK,
          goalRow, world
<1> QED BY <1>1, ClaimTicketType, CollideType, RecoverSuccessorType, RecurringType DEF Wake

-----------------------------------------------------------------------------
(* The specification.                                                     *)

\* Time and tasks keep the types.
LEMMA WorldStepType ==
  ASSUME TypeOK, WorldStep
  PROVE  TypeOK'
<1>1. clock' \in Nat /\ tasks' \in [Tasks -> {"new", "running", "done"}]
  BY DEF WorldStep, Pass, StartTask, EndTask, TypeOK, ActorTypeOK
<1>2. UNCHANGED <<goalRow, wakeRows, calls, obs, handler>>
  BY DEF WorldStep, Pass, StartTask, EndTask
<1> QED BY <1>1, <1>2 DEF TypeOK, GoalTypeOK, WakeTypeOK, ActorTypeOK, goalRow, wakeRows

\* The initial state has the types.
LEMMA InitType == Init => TypeOK
<1> SUFFICES ASSUME Init PROVE TypeOK
  OBVIOUS
<1>1. GoalTypeOK
  BY EmptySeq DEF Init, GoalTypeOK, NoLease, Lease
<1>2. WakeTypeOK
  BY EmptySeq DEF Init, WakeTypeOK
<1>3. ActorTypeOK
  BY RestType DEF Init, ActorTypeOK
<1> QED BY <1>1, <1>2, <1>3 DEF TypeOK

\* Every step keeps the types.
LEMMA NextType ==
  ASSUME TypeOK, [Next]_vars
  PROVE  TypeOK'
<1>1. gen \in Nat /\ revision \in Nat
  BY DEF TypeOK, GoalTypeOK
<1>2. CASE WorkerStep
  <2>1. PICK g \in 1 .. gen, e \in 0 .. revision :
          \/ \E T \in SUBSET Started, release \in BOOLEAN : Checkpoint(g, e, T, release)
          \/ \E T \in SUBSET Started, occ \in Occurrences, d \in DueDelays :
               Prepare(g, e, T, occ, d) \/ Refresh(g, e, T, occ, d)
          \/ \E i \in DOMAIN conts, d \in ExpediteDelays : Expedite(g, e, i, d)
          \/ \E outcome \in Outcomes : FinishStart(g, e, outcome)
    BY <1>2 DEF WorkerStep
  <2>2. g \in Nat /\ e \in Nat
    BY <1>1
  <2>3. SUBSET Started \subseteq SUBSET Tasks
    BY DEF Started
  <2> QED BY <2>1, <2>2, <2>3, CheckpointStepType, PrepareType, RefreshType, ExpediteType,
          HandlerStepType
<1>3. CASE CallStep
  BY <1>3, CallStepType
<1>4. CASE OwnerStep
  <2>1. ASSUME NEW e \in 0 .. revision, CancelStart(e)
        PROVE  TypeOK'
    BY <1>1, <2>1, HandlerStepType
  <2> QED BY <1>4, <2>1, AcquireType, ReconcileType, ObserveType, MarkStepType,
          HandlerStepType DEF OwnerStep
<1>5. CASE HostStep
  BY <1>5, WakeType, ReceiptType, CancelWatchdogType DEF HostStep
<1>6. CASE WorldStep
  BY <1>6, WorldStepType
<1>7. CASE UNCHANGED vars
  BY <1>7 DEF vars, goalRow, wakeRows, world, TypeOK, GoalTypeOK, WakeTypeOK, ActorTypeOK
<1> QED BY <1>2, <1>3, <1>4, <1>5, <1>6, <1>7 DEF Next

\* Whatever the actors do, the rows and handlers keep their types, a goal has
\* one checkpoint for each revision and one grant for each generation.
THEOREM TypeCorrect == Spec => []TypeOK
<1>1. TypeOK /\ [Next]_vars => TypeOK'
  BY NextType
<1> QED BY InitType, <1>1, PTL DEF Spec

-----------------------------------------------------------------------------
(* The six kinds of step.                                                 *)

Quiet == UNCHANGED <<status, gen, journal>> /\ lease'.held = lease.held

Opens ==
  /\ status = "absent" /\ status' = "active"
  /\ gen' = gen + 1 /\ lease'.held
  /\ UNCHANGED journal

TakesOver ==
  /\ status = "active"
  /\ gen' = gen + 1 /\ lease'.held
  /\ UNCHANGED <<status, journal>>

HolderWrites ==
  /\ status = "active" /\ lease.held
  /\ journal' = Append(journal, gen)
  /\ UNCHANGED <<status, gen>>

Closed == status \in {"cancelled"} \cup Outcomes

HolderCloses ==
  /\ status = "active" /\ lease.held
  /\ journal' = Append(journal, gen)
  /\ Closed' /\ ~lease'.held
  /\ UNCHANGED gen

OwnerCloses ==
  /\ status = "active"
  /\ journal' = Append(journal, Owner)
  /\ Closed' /\ ~lease'.held
  /\ UNCHANGED gen

JournalStep ==
  Quiet \/ Opens \/ TakesOver \/ HolderWrites \/ HolderCloses \/ OwnerCloses

\* A worker's step writes as the holder, or leaves the journal alone.
LEMMA WorkerJournalStep ==
  ASSUME TypeOK, WorkerStep
  PROVE  JournalStep
<1>1. PICK g \in 1 .. gen, e \in 0 .. revision :
        \/ \E T \in SUBSET Started, release \in BOOLEAN : Checkpoint(g, e, T, release)
        \/ \E T \in SUBSET Started, occ \in Occurrences, d \in DueDelays :
             Prepare(g, e, T, occ, d) \/ Refresh(g, e, T, occ, d)
        \/ \E i \in DOMAIN conts, d \in ExpediteDelays : Expedite(g, e, i, d)
        \/ \E outcome \in Outcomes : FinishStart(g, e, outcome)
  BY DEF WorkerStep
<1>2. ASSUME NEW T, NEW release, Checkpoint(g, e, T, release)
      PROVE  HolderWrites
  BY <1>2 DEF Checkpoint, MutableLease, WriteCheckpoint, HolderWrites
<1>3. ASSUME NEW T, NEW occ, NEW d, Prepare(g, e, T, occ, d)
      PROVE  HolderWrites
  BY <1>3 DEF Prepare, MutableLease, WriteCheckpoint, HolderWrites
<1>4. ASSUME NEW T, NEW occ, NEW d, Refresh(g, e, T, occ, d)
      PROVE  HolderWrites
  BY <1>4 DEF Refresh, MutableLease, WriteCheckpoint, HolderWrites
<1>5. ASSUME NEW i, NEW d, Expedite(g, e, i, d)
      PROVE  Quiet
  BY <1>5 DEF Expedite, goalRow, Quiet
<1>6. ASSUME NEW outcome, FinishStart(g, e, outcome)
      PROVE  Quiet
  BY <1>6 DEF FinishStart, goalRow, Quiet
<1> QED BY <1>1, <1>2, <1>3, <1>4, <1>5, <1>6 DEF JournalStep

\* Fenced calls renew a lease that is held; they write nothing.
LEMMA CallJournalStep ==
  ASSUME CallStep
  PROVE  Quiet
<1>1. ASSUME NEW g, NEW id, BeginCall(g, id)
      PROVE  Quiet
  BY <1>1 DEF BeginCall, FenceRenewal, LeaseValid, RenewLease, Quiet
<1>2. ASSUME NEW c, HeartbeatCall(c)
      PROVE  Quiet
  BY <1>2 DEF HeartbeatCall, FenceRenewal, LeaseValid, RenewLease, Quiet
<1>3. ASSUME NEW c, EndCall(c)
      PROVE  Quiet
  BY <1>3 DEF EndCall, goalRow, Quiet
<1> QED BY <1>1, <1>2, <1>3 DEF CallStep

\* The owner's steps open, take over or close the goal.
LEMMA OwnerJournalStep ==
  ASSUME TypeOK, OwnerStep
  PROVE  JournalStep
<1>1. CASE CreateGoal
  BY <1>1 DEF CreateGoal, Grant, Opens, JournalStep
<1>2. CASE AcquireFree \/ AcquireStale
  BY <1>2 DEF AcquireFree, AcquireStale, Grant, TakesOver, JournalStep
<1>3. ASSUME NEW e, CancelStart(e)
      PROVE  OwnerCloses \/ Quiet
  <2>1. Cancel(e)
    BY <1>3 DEF CancelStart
  <2>2. CASE status = "active" /\ CloseGoal("cancelled", Owner)
    BY <2>1, <2>2 DEF Cancel, CloseGoal, WriteCheckpoint, NoLease, OwnerCloses, Closed
  <2>3. CASE UNCHANGED <<status, revision, lease, tracked, journal>>
    BY <2>1, <2>3 DEF Cancel, Quiet
  <2> QED BY <2>1, <2>2, <2>3 DEF Cancel
<1>4. CASE Reconcile
  BY <1>4 DEF Reconcile, CloseGoal, WriteCheckpoint, NoLease, OwnerCloses, Closed,
     JournalStep
<1>5. ASSUME NEW trustworthy, Observe(trustworthy)
      PROVE  Quiet
  BY <1>5 DEF Observe, goalRow, Quiet
<1>6. CASE FinishMark \/ CancelMark \/ HandlerStops
  BY <1>6 DEF FinishMark, CancelMark, HandlerStops, goalRow, Quiet, JournalStep
<1>7. CASE FinishCommit
  <2>1. handler.outcome \in Outcomes
    BY <1>7 DEF FinishCommit, TypeOK, ActorTypeOK, HandlerState
  <2>2. MutableLease(handler.gen, handler.rev, handler.at)
    BY <1>7 DEF FinishCommit, Finish, FinishAllowed
  <2>3. CloseGoal(handler.outcome, handler.gen) /\ UNCHANGED gen
    BY <1>7 DEF FinishCommit, Finish
  <2> QED BY <2>1, <2>2, <2>3 DEF MutableLease, CloseGoal, WriteCheckpoint, NoLease,
          HolderCloses, Closed, JournalStep
<1> QED BY <1>1, <1>2, <1>3, <1>4, <1>5, <1>6, <1>7 DEF OwnerStep, JournalStep

\* A wake takes the goal over or, at most, shortens its lease.
LEMMA HostJournalStep ==
  ASSUME HostStep
  PROVE  JournalStep
<1>1. PICK i \in DOMAIN conts : Wake(i) \/ Receipt(i) \/ CancelWatchdog(i)
  BY DEF HostStep
<1>2. CASE ClaimTicket(i)
  BY <1>2 DEF ClaimTicket, TicketGrants, Claimable, Grant, TakesOver, JournalStep
<1>3. ASSUME NEW due, CapLease(due)
      PROVE  lease'.held = lease.held
  BY <1>3 DEF CapLease
<1>4. CASE Collide(i)
  BY <1>3, <1>4 DEF Collide, Quiet, JournalStep
<1>5. CASE RecoverSuccessor(i)
  BY <1>3, <1>5 DEF RecoverSuccessor, Quiet, JournalStep
<1>6. CASE TicketNoop(i) \/ RecurringBusy(i) \/ RecurringCleanup(i)
  BY <1>6 DEF TicketNoop, RecurringBusy, RecurringCleanup, goalRow, Quiet, JournalStep
<1>7. CASE RecurringAcquire(i)
  BY <1>7 DEF RecurringAcquire, RecurringDue, Grant, TakesOver, JournalStep
<1>8. CASE Receipt(i) \/ CancelWatchdog(i)
  BY <1>8 DEF Receipt, CancelWatchdog, goalRow, Quiet, JournalStep
<1> QED BY <1>1, <1>2, <1>4, <1>5, <1>6, <1>7, <1>8 DEF Wake

\* Every step is of one of the six kinds.
LEMMA StepKinds ==
  ASSUME TypeOK, [Next]_vars
  PROVE  JournalStep
<1>1. CASE WorldStep
  BY <1>1 DEF WorldStep, Pass, StartTask, EndTask, goalRow, Quiet, JournalStep
<1>2. CASE UNCHANGED vars
  BY <1>2 DEF vars, goalRow, Quiet, JournalStep
<1>3. CASE CallStep
  BY <1>3, CallJournalStep DEF JournalStep
<1> QED BY <1>1, <1>2, <1>3, WorkerJournalStep, OwnerJournalStep, HostJournalStep DEF Next

-----------------------------------------------------------------------------
(* The inductive invariant.  Authors never run ahead of the generation; a  *)
(* goal that is not closed has no entry of its owner; only an active goal  *)
(* has a holder, and an active goal has been granted at least once.        *)

JournalInv ==
  /\ \A i \in DOMAIN journal : journal[i] <= gen
  /\ ~Closed => \A i \in DOMAIN journal : journal[i] # Owner
  /\ status = "absent" => gen = 0 /\ journal = <<>> /\ ~lease.held
  /\ status = "active" => gen # 0
  /\ Closed => ~lease.held
  /\ WritersInOrder

\* The statuses of an open goal are not terminal ones.
LEMMA OpenNotClosed == "absent" \notin {"cancelled"} \cup Outcomes
                       /\ "active" \notin {"cancelled"} \cup Outcomes
BY ChoiceAssumption

\* One more entry keeps the journal in order when no earlier entry is the
\* owner's or newer than it.
LEMMA AppendInOrder ==
  ASSUME journal \in Seq(Nat), WritersInOrder, NEW w \in Nat,
         journal' = Append(journal, w),
         \A i \in DOMAIN journal : journal[i] # Owner /\ (w = Owner \/ journal[i] <= w)
  PROVE  WritersInOrder'
<1>1. /\ DOMAIN journal = 1 .. Len(journal) /\ Len(journal) \in Nat
      /\ DOMAIN journal' = 1 .. Len(journal) + 1
      /\ \A i \in 1 .. Len(journal) : journal'[i] = journal[i]
      /\ journal'[Len(journal) + 1] = w
  BY AppendProperties, LenProperties
<1> SUFFICES ASSUME NEW i \in DOMAIN journal', NEW j \in DOMAIN journal', i < j
             PROVE  journal'[i] # Owner /\ (journal'[j] = Owner \/ journal'[i] <= journal'[j])
  BY DEF WritersInOrder
<1>2. i \in DOMAIN journal /\ journal'[i] = journal[i]
  BY <1>1
<1>3. CASE j \in DOMAIN journal
  BY <1>1, <1>2, <1>3 DEF WritersInOrder
<1>4. CASE j = Len(journal) + 1
  BY <1>1, <1>2, <1>4
<1> QED BY <1>1, <1>3, <1>4

\* Every kind of step keeps the journal's invariant.
LEMMA JournalInvStep ==
  ASSUME TypeOK, JournalInv, JournalStep
  PROVE  JournalInv'
<1>1. /\ gen \in Nat /\ journal \in Seq(Nat)
      /\ status \in {"absent", "active", "cancelled"} \cup Outcomes
  BY DEF TypeOK, GoalTypeOK
<1>2. \A i \in DOMAIN journal : journal[i] \in Nat
  BY <1>1, ElementOfSeq, LenProperties
<1>3. ASSUME NEW w \in Nat, journal' = Append(journal, w)
      PROVE  \A i \in DOMAIN journal' : journal'[i] = w \/
               (i \in DOMAIN journal /\ journal'[i] = journal[i])
  <2>1. /\ DOMAIN journal = 1 .. Len(journal) /\ Len(journal) \in Nat
        /\ DOMAIN journal' = 1 .. Len(journal) + 1
        /\ \A i \in 1 .. Len(journal) : journal'[i] = journal[i]
        /\ journal'[Len(journal) + 1] = w
    BY <1>1, <1>3, AppendProperties, LenProperties
  <2> QED BY <2>1
<1>4. CASE Quiet
  BY <1>4 DEF Quiet, JournalInv, Closed, WritersInOrder
<1>5. CASE Opens \/ TakesOver
  <2>1. gen' = gen + 1 /\ journal' = journal /\ status' = "active" /\ status \in {"absent", "active"}
    BY <1>5 DEF Opens, TakesOver
  <2>2. \A i \in DOMAIN journal : journal[i] <= gen /\ journal[i] # Owner
    BY <2>1, OpenNotClosed DEF JournalInv, Closed
  <2> QED BY <1>1, <1>2, <2>1, <2>2, OpenNotClosed DEF JournalInv, Closed, WritersInOrder
<1>6. CASE HolderWrites \/ HolderCloses \/ OwnerCloses
  <2>1. PICK w \in {gen, Owner} : journal' = Append(journal, w) /\ (HolderWrites => w = gen)
    BY <1>6 DEF HolderWrites, HolderCloses, OwnerCloses
  <2>2. status = "active" /\ gen' = gen
    BY <1>6 DEF HolderWrites, HolderCloses, OwnerCloses
  <2>3. \A i \in DOMAIN journal : journal[i] <= gen /\ journal[i] # Owner
    BY <2>2, OpenNotClosed DEF JournalInv, Closed
  <2>4. w \in Nat /\ w <= gen
    BY <1>1 DEF Owner
  <2>5. WritersInOrder'
    BY <1>1, <2>1, <2>3, <2>4, AppendInOrder DEF JournalInv
  <2>6. \A i \in DOMAIN journal' : journal'[i] <= gen'
    BY <1>3, <2>1, <2>2, <2>3, <2>4
  <2>7. gen # 0
    BY <2>2 DEF JournalInv
  <2>8. CASE HolderWrites
    <3>1. status' = "active" /\ w = gen
      BY <2>1, <2>2, <2>8 DEF HolderWrites
    <3>2. \A i \in DOMAIN journal' : journal'[i] # Owner
      BY <1>3, <2>1, <2>3, <2>4, <2>7, <3>1 DEF Owner
    <3> QED BY <2>2, <2>5, <2>6, <2>7, <3>1, <3>2, OpenNotClosed DEF JournalInv, Closed
  <2>9. CASE HolderCloses \/ OwnerCloses
    <3>1. Closed' /\ ~lease'.held
      BY <2>9 DEF HolderCloses, OwnerCloses
    <3>2. status' # "absent" /\ status' # "active"
      BY <3>1, OpenNotClosed DEF Closed
    <3> QED BY <2>5, <2>6, <3>1, <3>2 DEF JournalInv
  <2> QED BY <1>6, <2>8, <2>9
<1> QED BY <1>4, <1>5, <1>6 DEF JournalStep

\* The invariant holds initially.
LEMMA JournalInvInit == Init => JournalInv
BY OpenNotClosed DEF Init, JournalInv, Closed, WritersInOrder, NoLease

\* The invariant holds always.
THEOREM JournalInvariant == Spec => []JournalInv
<1>1. JournalInv /\ TypeOK /\ [Next]_vars => JournalInv'
  BY JournalInvStep, StepKinds
<1> QED BY JournalInvInit, <1>1, TypeCorrect, PTL DEF Spec

\* Checkpoints are written in the order in which leases were granted, for any
\* number of workers, wakes and takeovers: no session whose lease was taken
\* over writes after its successor has.
THEOREM WritersAlwaysInOrder == Spec => []WritersInOrder
<1>1. JournalInv => WritersInOrder
  BY DEF JournalInv
<1> QED BY JournalInvariant, <1>1, PTL

-----------------------------------------------------------------------------
(* The refinement.                                                        *)

\* Each kind of step is a step of the journal, or changes nothing in it.
LEMMA JournalStepRefines ==
  ASSUME TypeOK, TypeOK', JournalInv, JournalStep
  PROVE  [Journal!FNext]_(Journal!fvars)
<1> DEFINE Phase(s) == CASE s = "absent" -> "unborn" [] s = "active" -> "open"
                         [] OTHER -> "closed"
           Holder   == IF lease.held THEN gen ELSE 0
<1>1. /\ status = "absent" => Phase(status) = "unborn"
      /\ status = "active" => Phase(status) = "open"
      /\ Closed' => Phase(status') = "closed"
      /\ status' = "active" => Phase(status') = "open"
      /\ status' = status => Phase(status') = Phase(status)
  BY OpenNotClosed DEF Closed
<1>2. gen \in Nat /\ lease.held \in BOOLEAN /\ lease'.held \in BOOLEAN
  BY DEF TypeOK, GoalTypeOK, Lease
<1>3. CASE Quiet
  <2>1. UNCHANGED <<gen, Holder, journal, Phase(status)>>
    BY <1>3 DEF Quiet
  <2> QED BY <2>1 DEF Journal!fvars
<1>4. CASE Opens
  <2>1. /\ Phase(status) = "unborn" /\ Phase(status') = "open"
        /\ gen' = gen + 1 /\ Holder' = gen' /\ journal' = journal
    BY <1>1, <1>4 DEF Opens
  <2> QED BY <2>1 DEF Journal!FNext, Journal!Open
<1>5. CASE TakesOver
  <2>1. /\ Phase(status) = "open" /\ Phase(status') = "open"
        /\ gen' = gen + 1 /\ Holder' = gen' /\ journal' = journal
    BY <1>1, <1>5 DEF TakesOver
  <2> QED BY <2>1 DEF Journal!FNext, Journal!Issue
<1>6. CASE HolderWrites
  <2>1. /\ Phase(status) = "open" /\ Phase(status') = "open"
        /\ gen' = gen /\ Holder = gen /\ gen # 0
        /\ journal' = Append(journal, Holder)
    BY <1>1, <1>6 DEF HolderWrites, JournalInv
  <2>2. Holder' \in {Holder, 0}
    BY <1>2, <2>1
  <2> QED BY <2>1, <2>2 DEF Journal!FNext, Journal!Write
<1>7. CASE HolderCloses
  <2>1. /\ Phase(status) = "open" /\ Phase(status') = "closed"
        /\ gen' = gen /\ Holder = gen /\ gen # 0 /\ Holder' = 0
        /\ journal' = Append(journal, Holder)
    BY <1>1, <1>7 DEF HolderCloses, JournalInv
  <2> QED BY <2>1 DEF Journal!FNext, Journal!CloseByHolder
<1>8. CASE OwnerCloses
  <2>1. /\ Phase(status) = "open" /\ Phase(status') = "closed"
        /\ gen' = gen /\ Holder' = 0 /\ journal' = Append(journal, 0)
    BY <1>1, <1>8 DEF OwnerCloses, Owner
  <2> QED BY <2>1 DEF Journal!FNext, Journal!CloseByOwner
<1> QED BY <1>3, <1>4, <1>5, <1>6, <1>7, <1>8 DEF JournalStep

\* A goal that does not exist yet is a journal that is not born yet.
LEMMA JournalInitRefines == Init => Journal!FInit
BY DEF Init, Journal!FInit, NoLease

\* Whatever workers, wakes, owners and crashes do to the goal, to its readers
\* it is an append-only journal with one fenced writer at a time.
THEOREM JournalRefinement == Spec => ImplementsFencedJournal
<1>1. TypeOK /\ TypeOK' /\ JournalInv /\ [Next]_vars => [Journal!FNext]_(Journal!fvars)
  BY StepKinds, JournalStepRefines
<1> QED BY JournalInitRefines, <1>1, TypeCorrect, JournalInvariant, PTL
        DEF Spec, ImplementsFencedJournal, Journal!FSpec

-----------------------------------------------------------------------------
(* How a step may move the counters an observation is compared with.      *)

Granted ==
  /\ gen' = gen + 1 /\ seq' = 0
  /\ UNCHANGED <<calls, clock>> /\ obs' \in {obs, NoObs}

Bumped ==
  /\ gen' = gen /\ seq' = seq + 1
  /\ UNCHANGED <<clock, obs>>
  /\ \A c \in calls' : c.gen = gen \/ \E d \in calls : c.gen = d.gen

Observed == \E trustworthy \in BOOLEAN : Observe(trustworthy)

Silent ==
  /\ UNCHANGED <<gen, seq>>
  /\ calls' \subseteq calls /\ clock <= clock'
  /\ obs' \in {obs, NoObs}

CounterStep == Granted \/ Bumped \/ Observed \/ Silent

\* A worker's step counts as activity or moves no counter.
LEMMA WorkerCounterStep ==
  ASSUME TypeOK, WorkerStep
  PROVE  Bumped \/ Silent
<1>1. PICK g \in 1 .. gen, e \in 0 .. revision :
        \/ \E T \in SUBSET Started, release \in BOOLEAN : Checkpoint(g, e, T, release)
        \/ \E T \in SUBSET Started, occ \in Occurrences, d \in DueDelays :
             Prepare(g, e, T, occ, d) \/ Refresh(g, e, T, occ, d)
        \/ \E i \in DOMAIN conts, d \in ExpediteDelays : Expedite(g, e, i, d)
        \/ \E outcome \in Outcomes : FinishStart(g, e, outcome)
  BY DEF WorkerStep
<1>2. clock \in Nat
  BY DEF TypeOK, ActorTypeOK
<1>3. ASSUME NEW T, NEW release, Checkpoint(g, e, T, release)
      PROVE  Bumped
  BY <1>3 DEF Checkpoint, BumpActivity, world, Bumped
<1>4. ASSUME NEW T, NEW occ, NEW d, Prepare(g, e, T, occ, d) \/ Refresh(g, e, T, occ, d)
      PROVE  Silent
  BY <1>2, <1>4 DEF Prepare, Refresh, world, Silent
<1>5. ASSUME NEW i, NEW d, Expedite(g, e, i, d)
      PROVE  Silent
  BY <1>2, <1>5 DEF Expedite, goalRow, world, Silent
<1>6. ASSUME NEW outcome, FinishStart(g, e, outcome)
      PROVE  Silent
  BY <1>2, <1>6 DEF FinishStart, goalRow, world, Silent
<1> QED BY <1>1, <1>3, <1>4, <1>5, <1>6

\* Admission and heartbeat of a fenced call are activity; its end is not.
LEMMA CallCounterStep ==
  ASSUME TypeOK, CallStep
  PROVE  CounterStep
<1>1. clock \in Nat
  BY DEF TypeOK, ActorTypeOK
<1>2. ASSUME NEW g, NEW id, BeginCall(g, id)
      PROVE  Bumped
  BY <1>2 DEF BeginCall, FenceRenewal, BumpActivity, world, Bumped
<1>3. ASSUME NEW c \in calls, HeartbeatCall(c)
      PROVE  Bumped
  <2>1. calls' = (calls \ {c}) \cup {[c EXCEPT !.exp = clock + CallTicks]}
    BY <1>3 DEF HeartbeatCall
  <2>2. [c EXCEPT !.exp = clock + CallTicks].gen = c.gen
    BY DEF TypeOK, ActorTypeOK
  <2>3. \A d \in calls' : \E f \in calls : d.gen = f.gen
    BY <2>1, <2>2
  <2> QED BY <1>3, <2>3 DEF HeartbeatCall, FenceRenewal, BumpActivity, world, Bumped
<1>4. ASSUME NEW c, EndCall(c)
      PROVE  Silent
  BY <1>1, <1>4 DEF EndCall, goalRow, world, Silent
<1> QED BY <1>2, <1>3, <1>4 DEF CallStep, CounterStep

\* The owner's steps take over, observe or leave the counters alone.
LEMMA OwnerCounterStep ==
  ASSUME TypeOK, OwnerStep
  PROVE  CounterStep
<1>1. clock \in Nat
  BY DEF TypeOK, ActorTypeOK
<1>2. CASE CreateGoal \/ AcquireFree \/ AcquireStale
  BY <1>2 DEF CreateGoal, AcquireFree, AcquireStale, Grant, world, Granted, CounterStep
<1>3. ASSUME NEW e, CancelStart(e)
      PROVE  Silent
  BY <1>1, <1>3 DEF CancelStart, Cancel, world, Silent
<1>4. CASE Reconcile
  BY <1>1, <1>4 DEF Reconcile, world, Silent, CounterStep
<1>5. CASE FinishMark \/ CancelMark \/ HandlerStops
  BY <1>1, <1>5 DEF FinishMark, CancelMark, HandlerStops, goalRow, world, Silent, CounterStep
<1>6. CASE FinishCommit
  BY <1>1, <1>6 DEF FinishCommit, Finish, world, Silent, CounterStep
<1> QED BY <1>2, <1>3, <1>4, <1>5, <1>6 DEF OwnerStep, Observed, CounterStep

\* A wake takes over or leaves the counters alone.
LEMMA HostCounterStep ==
  ASSUME TypeOK, HostStep
  PROVE  CounterStep
<1>1. clock \in Nat
  BY DEF TypeOK, ActorTypeOK
<1>2. PICK i \in DOMAIN conts : Wake(i) \/ Receipt(i) \/ CancelWatchdog(i)
  BY DEF HostStep
<1>3. CASE ClaimTicket(i) \/ RecurringAcquire(i)
  BY <1>3 DEF ClaimTicket, RecurringAcquire, Grant, world, Granted, CounterStep
<1>4. CASE Collide(i) \/ RecoverSuccessor(i)
  BY <1>1, <1>4 DEF Collide, RecoverSuccessor, world, Silent, CounterStep
<1>5. CASE TicketNoop(i) \/ RecurringBusy(i) \/ RecurringCleanup(i)
  BY <1>1, <1>5 DEF TicketNoop, RecurringBusy, RecurringCleanup, goalRow, world, Silent,
     CounterStep
<1>6. CASE Receipt(i) \/ CancelWatchdog(i)
  BY <1>1, <1>6 DEF Receipt, CancelWatchdog, goalRow, world, Silent, CounterStep
<1> QED BY <1>2, <1>3, <1>4, <1>5, <1>6 DEF Wake

\* Every step moves the counters in one of the four ways.
LEMMA CounterKinds ==
  ASSUME TypeOK, [Next]_vars
  PROVE  CounterStep
<1>1. clock \in Nat
  BY DEF TypeOK, ActorTypeOK
<1>2. CASE WorldStep
  BY <1>1, <1>2 DEF WorldStep, Pass, StartTask, EndTask, goalRow, Silent, CounterStep
<1>3. CASE UNCHANGED vars
  BY <1>1, <1>3 DEF vars, goalRow, world, Silent, CounterStep
<1> QED BY <1>2, <1>3, WorkerCounterStep, CallCounterStep, OwnerCounterStep, HostCounterStep
        DEF Next, CounterStep

-----------------------------------------------------------------------------
(* An observation never runs ahead of the goal, and one that is level with *)
(* it and saw no live call is right about there being none.                *)

ObservationInv ==
  /\ obs.set => obs.gen <= gen /\ (obs.gen = gen => obs.seq <= seq)
  /\ \A c \in calls : c.gen <= gen
  /\ QuietObservationHolds

\* Every step keeps the observation's invariant.
LEMMA ObservationInvStep ==
  ASSUME TypeOK, TypeOK', ObservationInv, CounterStep
  PROVE  ObservationInv'
<1>1. /\ gen \in Nat /\ seq \in Nat /\ clock \in Nat /\ obs \in Observation
      /\ calls \subseteq [id : CallIds, gen : Nat, exp : Nat]
  BY DEF TypeOK, GoalTypeOK, ActorTypeOK
<1>2. ~NoObs.set
  BY DEF NoObs
<1>3. obs.set \in BOOLEAN /\ obs.gen \in Nat /\ obs.seq \in Nat
  BY <1>1 DEF Observation
<1>4. \A c \in calls : c.gen \in Nat /\ c.exp \in Nat
  BY <1>1
<1>5. CASE Granted
  <2>1. obs'.set => obs' = obs
    BY <1>2, <1>5 DEF Granted
  <2>2. obs'.set => obs'.gen < gen'
    BY <1>1, <1>3, <1>5, <2>1 DEF Granted, ObservationInv
  <2>3. \A c \in calls' : c.gen <= gen'
    BY <1>1, <1>4, <1>5 DEF Granted, ObservationInv
  <2>4. ~ObservationCurrent'
    BY <1>1, <1>3, <1>5, <2>1, <2>2 DEF ObservationCurrent, Granted
  <2> QED BY <1>1, <1>3, <1>5, <2>1, <2>2, <2>3, <2>4
          DEF ObservationInv, QuietObservationHolds, Granted
<1>6. CASE Bumped
  <2>1. obs'.set /\ obs'.gen = gen' => obs'.seq < seq'
    BY <1>1, <1>3, <1>6 DEF Bumped, ObservationInv
  <2>2. \A c \in calls' : c.gen <= gen'
    BY <1>1, <1>4, <1>6 DEF Bumped, ObservationInv
  <2>3. ~ObservationCurrent'
    BY <1>1, <1>3, <1>6, <2>1 DEF ObservationCurrent, Bumped
  <2> QED BY <1>1, <1>3, <1>6, <2>1, <2>2, <2>3
          DEF ObservationInv, QuietObservationHolds, Bumped
<1>7. CASE Observed
  <2>1. UNCHANGED <<gen, seq, calls, clock>>
    BY <1>7 DEF Observed, Observe, goalRow, world
  <2>2. obs'.gen = gen /\ obs'.seq = seq /\ (obs'.idle => LiveCalls = {})
    <3>1. PICK trustworthy \in BOOLEAN : Observe(trustworthy)
      BY <1>7 DEF Observed
    <3>2. obs' = [set |-> TRUE, gen |-> gen, seq |-> seq, rev |-> revision,
                  idle |-> trustworthy /\ LiveCalls = {}, free |-> ~LeaseValid,
                  inactive |-> tracked \ Running]
      BY <3>1 DEF Observe
    <3> HIDE DEF LiveCalls
    <3> QED BY <3>2
  <2>3. LiveCalls' = LiveCalls
    BY <2>1 DEF LiveCalls
  <2> QED BY <1>1, <2>1, <2>2, <2>3 DEF ObservationInv, QuietObservationHolds
<1>8. CASE Silent
  <2>1. obs'.set => obs' = obs
    BY <1>2, <1>8 DEF Silent
  <2>2. LiveCalls' \subseteq LiveCalls
    <3>1. clock' \in Nat
      BY DEF TypeOK, ActorTypeOK
    <3> QED BY <1>1, <1>4, <1>8, <3>1 DEF LiveCalls, Silent
  <2>3. ObservationCurrent' => obs' = obs /\ ObservationCurrent
    BY <1>8, <2>1 DEF Silent, ObservationCurrent
  <2>4. QuietObservationHolds'
    BY <2>2, <2>3 DEF ObservationInv, QuietObservationHolds
  <2> QED BY <1>8, <2>1, <2>4 DEF ObservationInv, Silent
<1> QED BY <1>5, <1>6, <1>7, <1>8 DEF CounterStep

\* The observation's invariant holds always.
THEOREM ObservationInvariant == Spec => []ObservationInv
<1>1. Init => ObservationInv
  BY DEF Init, ObservationInv, QuietObservationHolds, NoObs, ObservationCurrent
<1>2. ObservationInv /\ TypeOK /\ TypeOK' /\ [Next]_vars => ObservationInv'
  BY ObservationInvStep, CounterKinds
<1> QED BY <1>1, <1>2, TypeCorrect, PTL DEF Spec

\* However old it is, an observation whose activity sequence is still the
\* goal's, and that saw no live call, is right: the compare-and-swap on
\* lease_activity_seq makes a two-transaction check safe.
THEOREM QuietObservations == Spec => []QuietObservationHolds
<1>1. ObservationInv => QuietObservationHolds
  BY DEF ObservationInv
<1> QED BY ObservationInvariant, <1>1, PTL

-----------------------------------------------------------------------------
(* Which steps grant a new generation of the lease.                       *)

\* Only five operations grant a lease: two of run_goal's for an existing
\* goal, one for a new goal, and the two kinds of wake.
LEMMA GrantKinds ==
  ASSUME TypeOK, [Next]_vars, gen' # gen
  PROVE  \/ CreateGoal \/ AcquireFree \/ AcquireStale
         \/ \E i \in DOMAIN conts : ClaimTicket(i) \/ RecurringAcquire(i)
<1>1. ~(UNCHANGED vars)
  BY DEF vars, goalRow
<1>2. CASE WorkerStep
  BY <1>2, WorkerCounterStep DEF Bumped, Silent
<1>3. CASE CallStep
  BY <1>3 DEF CallStep, BeginCall, HeartbeatCall, EndCall, goalRow
<1>4. CASE WorldStep
  BY <1>4 DEF WorldStep, Pass, StartTask, EndTask, goalRow
<1>5. CASE HostStep
  BY <1>5 DEF HostStep, Wake, Collide, RecoverSuccessor, TicketNoop, RecurringBusy,
     RecurringCleanup, Receipt, CancelWatchdog, goalRow
<1>6. CASE OwnerStep
  BY <1>6 DEF OwnerStep, CancelStart, Cancel, Reconcile, Observe, FinishMark, CancelMark,
     HandlerStops, FinishCommit, Finish, goalRow
<1> QED BY <1>1, <1>2, <1>3, <1>4, <1>5, <1>6 DEF Next

\* The last grant of a takeover is the one it just recorded.
LEMMA LastGrant ==
  ASSUME TypeOK, NEW by, NEW tick, NEW exp, Grant(by, tick, exp)
  PROVE  grants'[gen'] = [by |-> by, tick |-> tick]
<1>1. grants \in Seq([by : Nat, tick : Nat]) /\ Len(grants) = gen
  BY DEF TypeOK, GoalTypeOK
<1> QED BY <1>1, AppendProperties DEF Grant

\* A wake takes over only on a current observation of an inactive worker.
LEMMA WakeGrant ==
  ASSUME TypeOK, [Next]_vars, gen' > gen, grants'[gen'].by # 0
  PROVE  ObservationCurrent /\ ConfirmedInactive
<1>1. gen' # gen
  BY DEF TypeOK, GoalTypeOK
<1>2. ASSUME NEW tick, NEW exp, Grant(0, tick, exp)
      PROVE  FALSE
  <2>1. grants'[gen'] = [by |-> 0, tick |-> tick]
    BY <1>2, LastGrant
  <2> QED BY <2>1
<1>3. ~CreateGoal /\ ~AcquireFree /\ ~AcquireStale
  BY <1>2 DEF CreateGoal, AcquireFree, AcquireStale
<1>4. PICK i \in DOMAIN conts : ClaimTicket(i) \/ RecurringAcquire(i)
  BY <1>1, <1>3, GrantKinds
<1>5. CASE ClaimTicket(i)
  BY <1>5 DEF ClaimTicket, TicketGrants, OrphanRipe, MatchingProbe
<1>6. CASE RecurringAcquire(i)
  BY <1>6 DEF RecurringAcquire, RecurringDue, RecurringGrants
<1> QED BY <1>4, <1>5, <1>6

\* No wake, of either kind, takes the goal from a worker whose fenced call
\* may still be mutating the workspace.
THEOREM WakesSpareLiveCalls == Spec => WakeSparesLiveCalls
<1>1. ASSUME TypeOK, QuietObservationHolds, [Next]_vars, gen' > gen, grants'[gen'].by # 0
      PROVE  LiveCalls = {}
  BY <1>1, WakeGrant DEF QuietObservationHolds, ConfirmedInactive
<1>2. TypeOK /\ QuietObservationHolds /\ [Next]_vars
      => [gen' > gen /\ grants'[gen'].by # 0 => LiveCalls = {}]_vars
  BY <1>1
<1> QED BY <1>2, TypeCorrect, QuietObservations, PTL DEF Spec, WakeSparesLiveCalls

-----------------------------------------------------------------------------
(* Tracked tasks.  Only a task that was started is ever tracked, and the   *)
(* tasks an observation calls inactive have ended for good.                *)

TaskInv ==
  /\ \A k \in tracked : tasks[k] # "new"
  /\ \A k \in obs.inactive : tasks[k] = "done"

TasksAdvance ==
  \A k \in Tasks : (tasks[k] # "new" => tasks'[k] # "new")
                   /\ (tasks[k] = "done" => tasks'[k] = "done")

TrackingStep ==
  /\ \/ TasksAdvance /\ UNCHANGED tracked
     \/ UNCHANGED tasks /\ tracked' \subseteq tracked \cup Started
  /\ \/ obs'.inactive \subseteq obs.inactive
     \/ obs'.inactive = tracked \ Running /\ UNCHANGED tasks

\* Every step tracks started tasks only, and observes only its own.
LEMMA TrackingKinds ==
  ASSUME TypeOK, [Next]_vars
  PROVE  TrackingStep
<1>0. NoObs.inactive = {}
  BY DEF NoObs
<1>1. CASE WorkerStep
  <2>1. PICK g \in 1 .. gen, e \in 0 .. revision :
          \/ \E T \in SUBSET Started, release \in BOOLEAN : Checkpoint(g, e, T, release)
          \/ \E T \in SUBSET Started, occ \in Occurrences, d \in DueDelays :
               Prepare(g, e, T, occ, d) \/ Refresh(g, e, T, occ, d)
          \/ \E i \in DOMAIN conts, d \in ExpediteDelays : Expedite(g, e, i, d)
          \/ \E outcome \in Outcomes : FinishStart(g, e, outcome)
    BY <1>1 DEF WorkerStep
  <2>2. ASSUME NEW T \in SUBSET Started, NEW release, Checkpoint(g, e, T, release)
        PROVE  TrackingStep
    BY <2>2 DEF Checkpoint, world, TrackingStep
  <2>3. ASSUME NEW T \in SUBSET Started, NEW occ, NEW d,
               Prepare(g, e, T, occ, d) \/ Refresh(g, e, T, occ, d)
        PROVE  TrackingStep
    BY <2>3 DEF Prepare, Refresh, world, TrackingStep
  <2>4. ASSUME NEW i, NEW d, Expedite(g, e, i, d)
        PROVE  TrackingStep
    BY <2>4 DEF Expedite, goalRow, world, TrackingStep
  <2>5. ASSUME NEW outcome, FinishStart(g, e, outcome)
        PROVE  TrackingStep
    BY <2>5 DEF FinishStart, goalRow, world, TrackingStep
  <2> QED BY <2>1, <2>2, <2>3, <2>4, <2>5
<1>2. CASE CallStep
  BY <1>2 DEF CallStep, BeginCall, HeartbeatCall, EndCall, goalRow, world, TrackingStep
<1>3. CASE OwnerStep
  <2>1. CASE CreateGoal \/ AcquireFree \/ AcquireStale
    BY <1>0, <2>1 DEF CreateGoal, AcquireFree, AcquireStale, world, TrackingStep
  <2>2. ASSUME NEW e, CancelStart(e)
        PROVE  TrackingStep
    BY <2>2 DEF CancelStart, Cancel, CloseGoal, world, TrackingStep
  <2>3. CASE Reconcile
    BY <1>0, <2>3 DEF Reconcile, CloseGoal, world, TrackingStep
  <2>4. ASSUME NEW trustworthy, Observe(trustworthy)
        PROVE  TrackingStep
    <3>1. obs'.inactive = tracked \ Running
      BY <2>4 DEF Observe
    <3> QED BY <2>4, <3>1 DEF Observe, goalRow, world, TrackingStep
  <2>5. CASE FinishMark \/ CancelMark \/ HandlerStops
    BY <2>5 DEF FinishMark, CancelMark, HandlerStops, goalRow, world, TrackingStep
  <2>6. CASE FinishCommit
    BY <2>6 DEF FinishCommit, Finish, CloseGoal, world, TrackingStep
  <2> QED BY <1>3, <2>1, <2>2, <2>3, <2>4, <2>5, <2>6 DEF OwnerStep
<1>4. CASE HostStep
  <2>1. PICK i \in DOMAIN conts : Wake(i) \/ Receipt(i) \/ CancelWatchdog(i)
    BY <1>4 DEF HostStep
  <2>2. CASE ClaimTicket(i) \/ Collide(i) \/ RecoverSuccessor(i) \/ TicketNoop(i)
    BY <1>0, <2>2 DEF ClaimTicket, Collide, RecoverSuccessor, TicketNoop, goalRow, world,
       TrackingStep
  <2>3. CASE RecurringAcquire(i) \/ RecurringBusy(i) \/ RecurringCleanup(i)
    BY <1>0, <2>3 DEF RecurringAcquire, RecurringBusy, RecurringCleanup, goalRow, world,
       TrackingStep
  <2>4. CASE Receipt(i) \/ CancelWatchdog(i)
    BY <2>4 DEF Receipt, CancelWatchdog, goalRow, world, TrackingStep
  <2> QED BY <2>1, <2>2, <2>3, <2>4 DEF Wake
<1>5. CASE WorldStep
  <2>1. TasksAdvance
    BY <1>5 DEF WorldStep, Pass, StartTask, EndTask, TasksAdvance, TypeOK, ActorTypeOK
  <2>2. tracked' = tracked /\ obs' = obs
    BY <1>5 DEF WorldStep, Pass, StartTask, EndTask, goalRow
  <2>3. obs'.inactive \subseteq obs.inactive
    BY <2>2
  <2> QED BY <2>1, <2>2, <2>3 DEF TrackingStep
<1>6. CASE UNCHANGED vars
  BY <1>6 DEF vars, goalRow, world, TrackingStep
<1> QED BY <1>1, <1>2, <1>3, <1>4, <1>5, <1>6 DEF Next

\* Every step keeps the tasks' invariant.
LEMMA TaskInvStep ==
  ASSUME TypeOK, TaskInv, TrackingStep
  PROVE  TaskInv'
<1>1. /\ tracked \subseteq Tasks /\ obs.inactive \subseteq Tasks
      /\ tasks \in [Tasks -> {"new", "running", "done"}]
  BY DEF TypeOK, GoalTypeOK, ActorTypeOK, Observation
<1>2. \A k \in tracked' : tasks'[k] # "new"
  BY <1>1 DEF TaskInv, TrackingStep, TasksAdvance, Started
<1>3. \A k \in tracked \ Running : tasks[k] = "done"
  BY <1>1 DEF TaskInv, Running
<1>4. \A k \in obs'.inactive : tasks'[k] = "done"
  BY <1>1, <1>3 DEF TaskInv, TrackingStep, TasksAdvance
<1> QED BY <1>2, <1>4 DEF TaskInv

\* The tasks' invariant holds always.
THEOREM TaskInvariant == Spec => []TaskInv
<1>1. Init => TaskInv
  BY DEF Init, TaskInv, NoObs
<1>2. TaskInv /\ TypeOK /\ [Next]_vars => TaskInv'
  BY TaskInvStep, TrackingKinds
<1> QED BY <1>1, <1>2, TypeCorrect, PTL DEF Spec

\* A wake, or the recovery of a lease that has not lapsed, leaves a worker
\* alone while a task it tracks is running, for any number of tasks.
THEOREM NoTheftFromRunningTasks == Spec => NoTheftFromRunningTask
<1>1. ASSUME TypeOK, TaskInv, ConfirmedInactive
      PROVE  tracked \cap Running = {}
  BY <1>1 DEF ConfirmedInactive, TaskInv, Running
<1>2. ASSUME TypeOK, JournalInv, [Next]_vars, gen' > gen, LeaseValid, grants'[gen'].by = 0
      PROVE  ConfirmedInactive
  <2>1. gen' # gen
    BY <1>2 DEF TypeOK, GoalTypeOK
  <2>2. ~CreateGoal /\ ~AcquireFree
    BY <1>2 DEF CreateGoal, AcquireFree, JournalInv, LeaseValid
  <2>3. CASE AcquireStale
    BY <2>3 DEF AcquireStale, StaleRecovery
  <2>4. ASSUME NEW i \in DOMAIN conts, ClaimTicket(i) \/ RecurringAcquire(i)
        PROVE  ConfirmedInactive
    BY <2>4 DEF ClaimTicket, TicketGrants, OrphanRipe, MatchingProbe, RecurringAcquire,
       RecurringGrants
  <2> QED BY <1>2, <2>1, <2>2, <2>3, <2>4, GrantKinds
<1>3. TypeOK /\ JournalInv /\ TaskInv /\ [Next]_vars
      => [gen' > gen /\ (LeaseValid \/ grants'[gen'].by # 0)
          => tracked \cap Running = {}]_vars
  BY <1>1, <1>2, WakeGrant
<1> QED BY <1>3, TypeCorrect, JournalInvariant, TaskInvariant, PTL
        DEF Spec, NoTheftFromRunningTask

-----------------------------------------------------------------------------
(* Rows are never removed and never change their kind or their origin, and *)
(* a row the repository can read stays one.                                *)

\* The client reports no creation that is over: create_failed and
\* create_uncertain, which the repository takes for a row in any status.
NoLateReports == Reports \cap {"create_failed", "create_uncertain"} = {}

\* Nor a retime that failed.
NoFailedRetime == "reschedule_failed" \notin Reports

\* A row is readable: what is scheduled or being retimed has a native task.
RowSound(c) ==
  /\ c.status = "scheduled" \/ c.pending # NoTime => HostConfirmed(c)
  /\ c.status \in Reschedule => c.pending # NoTime
  /\ c.occ = "interval" \/ c.status = "claimed" => c.pending = NoTime
  /\ NoLateReports => c.status \notin {"create_failed", "create_uncertain"}
  /\ NoFailedRetime => c.status # "reschedule_failed"

\* Where a row is through, and where its native task is to be removed.
Ended     == {"claimed", "terminal_noop", "superseded", "cancelled"}
InCleanup == Cancelling \cup {"cancelled"}

\* What a transaction keeps of a row.
RowKept(c, d) ==
  /\ d.occ = c.occ /\ d.from = c.from /\ (c.native => d.native)
  /\ RowSound(c) => RowSound(d)
  /\ NoLateReports /\ RowSound(c) =>
       /\ c.status = "claimed" => d.status = "claimed"
       /\ c.occ = "interval" /\ c.status \in Ended => d.status \in Ended
       /\ c.occ = "interval" /\ c.native /\ c.status \in InCleanup => d.status \in InCleanup

RowsKept(rows, later) ==
  /\ DOMAIN rows \subseteq DOMAIN later
  /\ \A j \in DOMAIN rows : RowKept(rows[j], later[j])

\* Only a one-time row brings a one-time row forth without being asked for it.
RowsStep ==
  /\ RowsKept(conts, conts')
  /\ \A j \in DOMAIN conts' :
       \/ j \in DOMAIN conts
       \/ /\ RowSound(conts'[j])
          /\ \/ conts'[j].occ \in Occurrences
             \/ \E i \in DOMAIN conts : conts[i].occ = "once"

\* What is kept stays kept from one write to the next.
LEMMA KeptTransitive ==
  ASSUME NEW c, NEW d, NEW e, RowKept(c, d), RowKept(d, e)
  PROVE  RowKept(c, e)
BY DEF RowKept

\* What is left alone is kept.
LEMMA KeptReflexive == ASSUME NEW c PROVE RowKept(c, c)
BY DEF RowKept

\* A new reservation is readable.
LEMMA NewRowSound ==
  ASSUME NEW occ, NEW due, NEW from
  PROVE  RowSound(NewRow(occ, due, from))
BY DEF NewRow, RowSound, Reschedule, NoTime

\* Writing a row that is kept leaves the others alone.
LEMMA ReplacedRow ==
  ASSUME NEW rows \in Seq(Row), NEW i \in DOMAIN rows, NEW row, RowKept(rows[i], row)
  PROVE  RowsKept(rows, [rows EXCEPT ![i] = row])
BY KeptReflexive, LenProperties DEF RowsKept

\* A transaction that writes one row, which is kept, keeps them all.
LEMMA PutRowKept ==
  ASSUME TypeOK, NEW i \in DOMAIN conts, NEW row, PutRow(i, row), RowKept(conts[i], row)
  PROVE  RowsStep
<1>1. conts \in Seq(Row) /\ conts' = [conts EXCEPT ![i] = row]
  BY DEF TypeOK, WakeTypeOK, PutRow
<1>2. RowsKept(conts, conts')
  BY <1>1, ReplacedRow
<1>3. DOMAIN conts' = DOMAIN conts
  BY <1>1, LenProperties
<1> QED BY <1>2, <1>3 DEF RowsStep

\* Leaving the rows alone keeps them.
LEMMA SameRowsKept == ASSUME UNCHANGED conts PROVE RowsStep
BY KeptReflexive DEF RowsStep, RowsKept

\* Reserving a successor keeps every row; a row it adds is readable.
LEMMA ReservedKept ==
  ASSUME NEW rows \in Seq(Row), NEW i \in DOMAIN rows, NEW due \in Nat,
         Reservable(rows, i)
  PROVE  /\ RowsKept(rows, Reserved(rows, i, due))
         /\ HasSuccessor(Reserved(rows, i, due), i)
         /\ \A j \in DOMAIN Reserved(rows, i, due) \ DOMAIN rows :
              RowSound(Reserved(rows, i, due)[j])
<1>1. i \in Nat /\ DOMAIN rows = 1 .. Len(rows) /\ Len(rows) \in Nat
  BY LenProperties
<1>2. CASE ~HasSuccessor(rows, i)
  <2> DEFINE row == NewRow("once", due, i)
  <2>1. Reserved(rows, i, due) = Append(rows, row) /\ i = Len(rows)
    BY <1>2 DEF Reserved, Reservable
  <2>2. row \in Row /\ row.from = i
    <3>1. row \in Row
      BY <1>1, NewRowType
    <3>2. row.from = i
      BY DEF NewRow
    <3> QED BY <3>1, <3>2
  <2>3. RowSound(row)
    BY NewRowSound
  <2> HIDE DEF row
  <2>4. /\ DOMAIN Append(rows, row) = 1 .. Len(rows) + 1
        /\ \A j \in 1 .. Len(rows) : Append(rows, row)[j] = rows[j]
        /\ Append(rows, row)[Len(rows) + 1] = row
    BY <1>1, <2>2, AppendProperties, LenProperties
  <2>5. RowsKept(rows, Append(rows, row))
    BY <1>1, <2>4, KeptReflexive DEF RowsKept
  <2>6. HasSuccessor(Append(rows, row), i)
    BY <1>1, <2>1, <2>2, <2>4 DEF HasSuccessor
  <2> QED BY <1>1, <2>1, <2>3, <2>4, <2>5, <2>6
<1>3. CASE HasSuccessor(rows, i) /\ Recreatable(rows[i + 1])
  <2> DEFINE row == [rows[i + 1] EXCEPT !.status = "prepared", !.due = due]
  <2>1. i + 1 \in DOMAIN rows /\ rows[i + 1] \in Row /\ rows[i + 1].from = i
    BY <1>1, <1>3, ElementOfSeq DEF HasSuccessor
  <2>2. /\ row.occ = rows[i + 1].occ /\ row.from = rows[i + 1].from
        /\ row.native = rows[i + 1].native /\ row.pending = rows[i + 1].pending
        /\ row.confirmed = rows[i + 1].confirmed
        /\ row.status = "prepared"
    BY <2>1 DEF Row
  <2>3. Reserved(rows, i, due) = [rows EXCEPT ![i + 1] = row]
    BY <1>3 DEF Reserved
  <2> HIDE DEF row
  <2>4. RowKept(rows[i + 1], row)
    BY <1>3, <2>2 DEF RowKept, RowSound, Recreatable, Reschedule, HostConfirmed
  <2>5. DOMAIN [rows EXCEPT ![i + 1] = row] = DOMAIN rows /\ [rows EXCEPT ![i + 1] = row][i + 1] = row
    BY <2>1
  <2>6. RowsKept(rows, [rows EXCEPT ![i + 1] = row])
    BY <2>1, <2>4, ReplacedRow
  <2>7. HasSuccessor([rows EXCEPT ![i + 1] = row], i)
    BY <2>1, <2>2, <2>5 DEF HasSuccessor
  <2> QED BY <2>3, <2>5, <2>6, <2>7
<1>4. CASE HasSuccessor(rows, i) /\ ~Recreatable(rows[i + 1])
  BY <1>4, KeptReflexive DEF Reserved, RowsKept
<1> QED BY <1>2, <1>3, <1>4

\* A ticket that retires its row and leaves a successor keeps every row.
LEMMA TicketKept ==
  ASSUME TypeOK, NEW i \in DOMAIN conts, NEW row \in Row, NEW due \in Nat,
         conts[i].occ = "once", RowKept(conts[i], row),
         Reservable([conts EXCEPT ![i] = row], i),
         DOMAIN conts' = DOMAIN Reserved([conts EXCEPT ![i] = row], i, due),
         RowsKept(Reserved([conts EXCEPT ![i] = row], i, due), conts')
  PROVE  RowsStep /\ HasSuccessor(conts', i)
<1> DEFINE retired == [conts EXCEPT ![i] = row]
           after   == Reserved(retired, i, due)
<1>1. conts \in Seq(Row)
  BY DEF TypeOK, WakeTypeOK
<1>2. retired \in Seq(Row) /\ DOMAIN retired = DOMAIN conts
  BY <1>1, RowReplaced
<1>3. RowsKept(conts, retired)
  BY <1>1, ReplacedRow
<1>4. Reservable(retired, i) /\ DOMAIN conts' = DOMAIN after /\ RowsKept(after, conts')
  OBVIOUS
<1> HIDE DEF retired
<1>5. /\ RowsKept(retired, after) /\ HasSuccessor(after, i)
      /\ \A j \in DOMAIN after \ DOMAIN retired : RowSound(after[j])
  BY <1>2, <1>4, ReservedKept
<1> HIDE DEF after
<1>6. RowsKept(conts, conts')
  BY <1>2, <1>3, <1>4, <1>5, KeptTransitive DEF RowsKept
<1>7. \A j \in DOMAIN conts' \ DOMAIN conts : RowSound(conts'[j])
  BY <1>2, <1>4, <1>5 DEF RowsKept, RowKept
<1>8. HasSuccessor(conts', i)
  BY <1>4, <1>5 DEF HasSuccessor, RowsKept, RowKept
<1> QED BY <1>6, <1>7, <1>8 DEF RowsStep

\* Claiming a ticket, or colliding with a worker, keeps every row and leaves
\* the row of the next wake.
LEMMA FiringKept ==
  ASSUME TypeOK, NEW i \in DOMAIN conts,
         ClaimTicket(i) \/ Collide(i) \/ RecoverSuccessor(i)
  PROVE  RowsStep /\ HasSuccessor(conts', i)
<1>1. conts \in Seq(Row) /\ conts[i] \in Row /\ i \in Nat /\ clock \in Nat
  BY ElementOfSeq, LenProperties DEF TypeOK, WakeTypeOK, ActorTypeOK
<1>2. clock + ClaimDelay \in Nat
  BY <1>1, TickAssumption
<1>3. ASSUME NEW rows
      PROVE  RowsKept(rows, rows)
  BY KeptReflexive DEF RowsKept
<1>4. CASE ClaimTicket(i)
  <2> DEFINE row == [conts[i] EXCEPT !.status = "claimed", !.pending = NoTime,
                                     !.probe = NoProbe]
  <2>1. conts[i].occ = "once"
    BY <1>4 DEF ClaimTicket, TicketGrants, Claimable
  <2>2. row \in Row
    BY <1>1, <2>1 DEF Row, Historical, NoTime, NoProbe, Probe
  <2>4. /\ row.occ = conts[i].occ /\ row.from = conts[i].from /\ row.native = conts[i].native
        /\ row.status = "claimed" /\ row.pending = NoTime
    BY <1>1 DEF Row
  <2>5. RowKept(conts[i], row)
    BY <2>1, <2>4 DEF RowKept, RowSound, Reschedule
  <2>3. /\ Reservable([conts EXCEPT ![i] = row], i)
        /\ conts' = Reserved([conts EXCEPT ![i] = row], i, clock + ClaimDelay)
    BY <1>4 DEF ClaimTicket
  <2> HIDE DEF row
  <2> QED BY <1>2, <1>3, <2>1, <2>2, <2>3, <2>5, TicketKept
<1>5. CASE Collide(i)
  <2> DEFINE c     == conts[i]
             probe == CollisionProbe(c)
             row   == [c EXCEPT !.status = "superseded", !.pending = NoTime,
                                !.count = Counted(c), !.probe = probe]
             delay == CollisionDelay(c, probe.set)
             after == Reserved([conts EXCEPT ![i] = row], i, clock + delay)
             succ  == [after[i + 1] EXCEPT !.count = Counted(c), !.probe = probe]
  <2>1. c.occ = "once"
    BY <1>5 DEF Collide, Collides, Claimable
  <2>2. probe \in Probe /\ Counted(c) \in 0 .. 3
    BY <1>1, CollisionProbeType, RowFields
  <2>3. delay \in Nat
    <3>1. probe.set \in BOOLEAN
      BY <2>2 DEF Probe
    <3> QED BY <1>1, <3>1, CollisionDelayType
  <2>4. row \in Row
    BY <1>1, <2>1, <2>2 DEF Row, Historical, NoTime
  <2>12. /\ row.occ = c.occ /\ row.from = c.from /\ row.native = c.native
         /\ row.status = "superseded" /\ row.pending = NoTime
    BY <1>1 DEF Row
  <2>13. c.status # "claimed"
    BY <1>5 DEF Collide, Collides, Claimable, Reschedule
  <2>14. RowKept(conts[i], row)
    BY <2>1, <2>12, <2>13 DEF RowKept, RowSound, Reschedule
  <2>5. /\ Reservable([conts EXCEPT ![i] = row], i)
        /\ conts' = [after EXCEPT ![i + 1] = succ]
    BY <1>5 DEF Collide
  <2> HIDE DEF row, delay, probe
  <2>6. clock + delay \in Nat
    BY <1>1, <2>3
  <2>7. [conts EXCEPT ![i] = row] \in Seq(Row) /\ i \in DOMAIN [conts EXCEPT ![i] = row]
    BY <1>1, <2>4, RowReplaced
  <2>8. after \in Seq(Row) /\ i + 1 \in DOMAIN after
    BY <2>5, <2>6, <2>7, ReservedType
  <2> HIDE DEF after
  <2>9. after[i + 1] \in Row
    BY <2>8, ElementOfSeq, LenProperties
  <2>10. RowKept(after[i + 1], succ)
    <3>1. /\ succ.occ = after[i + 1].occ /\ succ.from = after[i + 1].from
          /\ succ.native = after[i + 1].native /\ succ.confirmed = after[i + 1].confirmed
          /\ succ.status = after[i + 1].status /\ succ.pending = after[i + 1].pending
      BY <2>9 DEF Row
    <3> HIDE DEF succ
    <3> QED BY <3>1 DEF RowKept, RowSound, HostConfirmed
  <2>11. RowsKept(after, conts') /\ DOMAIN conts' = DOMAIN after
    <3> HIDE DEF succ
    <3> QED BY <2>5, <2>8, <2>10, ReplacedRow
  <2> QED BY <2>1, <2>4, <2>5, <2>6, <2>11, <2>14, TicketKept DEF after
<1>6. CASE RecoverSuccessor(i)
  <2>1. conts[i].occ = "once" /\ Reservable(conts, i)
        /\ conts' = Reserved(conts, i, clock + ClaimDelay)
    BY <1>6 DEF RecoverSuccessor
  <2>2. /\ RowsKept(conts, conts') /\ HasSuccessor(conts', i)
        /\ \A j \in DOMAIN conts' \ DOMAIN conts : RowSound(conts'[j])
    BY <1>1, <1>2, <2>1, ReservedKept
  <2> QED BY <2>1, <2>2 DEF RowsStep
<1> QED BY <1>4, <1>5, <1>6

\* Every receipt, cancellation and late wake keeps the row it writes.
LEMMA HostRowKept ==
  ASSUME TypeOK, NEW i \in DOMAIN conts,
         Receipt(i) \/ CancelWatchdog(i) \/ TicketNoop(i)
  PROVE  RowsStep
<1> DEFINE c == conts[i]
<1>1. c \in Row
  BY ElementOfSeq, LenProperties DEF TypeOK, WakeTypeOK
<1>2. ASSUME NEW row, PutRow(i, row), row.occ = c.occ, row.from = c.from, c.native => row.native,
             RowSound(c) => RowSound(row), c.status # "claimed",
             c.occ = "interval" /\ NoLateReports /\ RowSound(c) =>
               /\ c.status \in Ended => row.status \in Ended
               /\ c.native /\ c.status \in InCleanup => row.status \in InCleanup
      PROVE  RowsStep
  BY <1>2, PutRowKept DEF RowKept
<1> HIDE DEF c
<1>3. CASE ReceiptCreated(i)
  <2> DEFINE row == [c EXCEPT !.status = "scheduled", !.native = TRUE, !.confirmed = TRUE]
  <2>1. row.occ = c.occ /\ row.from = c.from /\ row.native /\ row.confirmed
        /\ row.status = "scheduled" /\ row.pending = c.pending
    BY <1>1 DEF Row
  <2>2. c.status \in {"prepared", "create_failed", "create_uncertain"} /\ PutRow(i, row)
    BY <1>3 DEF ReceiptCreated, Unconfirmed, c
  <2> HIDE DEF row
  <2> QED BY <1>2, <2>1, <2>2 DEF RowSound, HostConfirmed, Reschedule, Ended, InCleanup, Cancelling
<1>4. CASE ReceiptRescheduled(i)
  <2> DEFINE row == [c EXCEPT !.status = "scheduled", !.due = EffectiveDue(c),
                              !.pending = NoTime, !.count = Counted(c)]
  <2>1. row.occ = c.occ /\ row.from = c.from /\ row.native = c.native
        /\ row.confirmed = c.confirmed /\ row.status = "scheduled" /\ row.pending = NoTime
    BY <1>1 DEF Row
  <2>2. PutRow(i, row) /\ c.status \in Reschedule \cup {"scheduled"}
    BY <1>4 DEF ReceiptRescheduled, c
  <2> HIDE DEF row
  <2> QED BY <1>2, <2>1, <2>2 DEF RowSound, HostConfirmed, Reschedule, Ended, InCleanup, Cancelling
<1>5. ASSUME NEW o \in Reports \cap {"reschedule_failed", "reschedule_uncertain"},
             ReceiptNotRescheduled(i, o)
      PROVE  RowsStep
  <2> DEFINE row == [c EXCEPT !.status = o]
  <2>1. row.occ = c.occ /\ row.from = c.from /\ row.native = c.native
        /\ row.confirmed = c.confirmed /\ row.status = o /\ row.pending = c.pending
    BY <1>1 DEF Row
  <2>2. PutRow(i, row) /\ c.pending # NoTime
    BY <1>5 DEF ReceiptNotRescheduled, c
  <2> HIDE DEF row
  <2>3. RowKept(c, row)
    BY <1>5, <2>1, <2>2
       DEF RowKept, RowSound, HostConfirmed, Reschedule, NoLateReports, NoFailedRetime
  <2> QED BY <2>2, <2>3, PutRowKept DEF c
<1>6. CASE ReceiptConsumed(i)
  <2> DEFINE row == [c EXCEPT !.status = "superseded", !.pending = NoTime]
  <2>1. row.occ = c.occ /\ row.from = c.from /\ row.native = c.native
        /\ row.status = "superseded" /\ row.pending = NoTime
    BY <1>1 DEF Row
  <2>2. PutRow(i, row) /\ c.occ = "once" /\ c.status \in Live
    BY <1>6 DEF ReceiptConsumed, c
  <2> HIDE DEF row
  <2> QED BY <1>2, <2>1, <2>2 DEF RowSound, Live, Fencing, Reschedule, Cancelling
<1>7. CASE ReceiptCancelled(i)
  <2> DEFINE row == [c EXCEPT !.status = "cancelled"]
  <2>1. row.occ = c.occ /\ row.from = c.from /\ row.native = c.native
        /\ row.confirmed = c.confirmed /\ row.status = "cancelled" /\ row.pending = c.pending
    BY <1>1 DEF Row
  <2>2. PutRow(i, row) /\ c.status \in Cancelling
    BY <1>7 DEF ReceiptCancelled, c
  <2> HIDE DEF row
  <2> QED BY <1>2, <2>1, <2>2 DEF RowSound, HostConfirmed, Reschedule, Ended, InCleanup, Cancelling
<1>8. ASSUME NEW o \in {"cancel_failed", "cancel_uncertain"}, NEW r \in BOOLEAN,
             ReceiptNotCancelled(i, o, r)
      PROVE  RowsStep
  <2> DEFINE row == [c EXCEPT !.status = o, !.confirmed = @ \/ r]
  <2>1. row.occ = c.occ /\ row.from = c.from /\ row.native = c.native
        /\ (c.confirmed => row.confirmed) /\ row.status = o /\ row.pending = c.pending
    BY <1>1 DEF Row
  <2>2. PutRow(i, row) /\ c.status \in Cancelling
    BY <1>8 DEF ReceiptNotCancelled, c
  <2> HIDE DEF row
  <2> QED BY <1>2, <2>1, <2>2 DEF RowSound, HostConfirmed, Reschedule, Ended, InCleanup, Cancelling
<1>9. ASSUME NEW o \in Reports \cap {"create_failed", "create_uncertain"},
             NEW n \in BOOLEAN, NEW r \in BOOLEAN, ReceiptNotCreated(i, o, n, r)
      PROVE  RowsStep
  <2> DEFINE row == [c EXCEPT !.status = o, !.native = @ \/ n, !.confirmed = @ \/ r]
  <2>1. row.occ = c.occ /\ row.from = c.from /\ (c.native => row.native)
        /\ (c.confirmed => row.confirmed) /\ row.status = o /\ row.pending = c.pending
    BY <1>1 DEF Row
  <2>2. PutRow(i, row) /\ ~NoLateReports
    BY <1>9 DEF ReceiptNotCreated, NoLateReports, c
  <2> HIDE DEF row
  <2>3. RowKept(c, row)
    BY <2>1, <2>2 DEF RowKept, RowSound, HostConfirmed, Reschedule
  <2> QED BY <2>2, <2>3, PutRowKept DEF c
<1>10. CASE CancelWatchdog(i)
  <2> DEFINE row == [c EXCEPT !.status = CancelOutcome(c)]
  <2>1. row.occ = c.occ /\ row.from = c.from /\ row.native = c.native
        /\ row.confirmed = c.confirmed /\ row.status = CancelOutcome(c) /\ row.pending = c.pending
    BY <1>1 DEF Row
  <2>2. PutRow(i, row) /\ c.status \notin {"cancelled", "superseded", "claimed", "terminal_noop"}
    BY <1>10 DEF CancelWatchdog, c
  <2>3. /\ CancelOutcome(c) \in {"cancel_required", "cancel_uncertain", "superseded"}
        /\ c.native => CancelOutcome(c) # "superseded"
    BY DEF CancelOutcome
  <2> HIDE DEF row
  <2> QED BY <1>2, <2>1, <2>2, <2>3 DEF RowSound, HostConfirmed, Reschedule, Ended, InCleanup, Cancelling
<1>11. CASE TicketNoop(i)
  <2> DEFINE row == [c EXCEPT !.status = "terminal_noop"]
  <2>1. row.occ = c.occ /\ row.from = c.from /\ row.native = c.native
        /\ row.confirmed = c.confirmed /\ row.status = "terminal_noop" /\ row.pending = c.pending
    BY <1>1 DEF Row
  <2>2. PutRow(i, row) /\ c.occ = "once" /\ c.status # "claimed"
    BY <1>11 DEF TicketNoop, c
  <2> HIDE DEF row
  <2> QED BY <1>2, <2>1, <2>2 DEF RowSound, HostConfirmed, Reschedule
<1> QED BY <1>3, <1>4, <1>5, <1>6, <1>7, <1>8, <1>9, <1>10, <1>11 DEF Receipt

\* A mark keeps the row it marks.
LEMMA MarkKept ==
  ASSUME TypeOK, NEW t, MarkGoalFinished(t)
  PROVE  RowsStep
<1>1. CASE LiveRows = {}
  BY <1>1, SameRowsKept DEF MarkGoalFinished
<1>2. CASE LiveRows # {}
  <2> DEFINE c   == conts[LiveRow]
             row == [c EXCEPT !.status = MarkedStatus(c, t)]
  <2>1. LiveRow \in DOMAIN conts /\ c \in Row /\ c.status \in Live
    BY <1>2, LiveRowType DEF TypeOK, LiveRow, LiveRows
  <2>2. row.occ = c.occ /\ row.from = c.from /\ row.native = c.native
        /\ row.confirmed = c.confirmed /\ row.status = MarkedStatus(c, t) /\ row.pending = c.pending
    BY <2>1 DEF Row
  <2>3. PutRow(LiveRow, row)
    BY <1>2 DEF MarkGoalFinished
  <2>4. /\ MarkedStatus(c, t) \in Cancelling \cup {"superseded"}
        /\ c.native => MarkedStatus(c, t) # "superseded"
    BY DEF MarkedStatus, Cancelling
  <2> HIDE DEF row
  <2>5. RowKept(c, row)
    BY <2>1, <2>2, <2>4
       DEF RowKept, RowSound, HostConfirmed, Live, Fencing, Reschedule, Ended, InCleanup, Cancelling
  <2> QED BY <2>1, <2>3, <2>5, PutRowKept
<1> QED BY <1>1, <1>2

\* A worker's step keeps the rows: what it reserves is of a kind it asked for.
LEMMA WorkerKept ==
  ASSUME TypeOK, WorkerStep
  PROVE  RowsStep
<1>1. PICK g \in 1 .. gen, e \in 0 .. revision :
        \/ \E T \in SUBSET Started, release \in BOOLEAN : Checkpoint(g, e, T, release)
        \/ \E T \in SUBSET Started, occ \in Occurrences, d \in DueDelays :
             Prepare(g, e, T, occ, d) \/ Refresh(g, e, T, occ, d)
        \/ \E i \in DOMAIN conts, d \in ExpediteDelays : Expedite(g, e, i, d)
        \/ \E outcome \in Outcomes : FinishStart(g, e, outcome)
  BY DEF WorkerStep
<1>2. conts \in Seq(Row) /\ clock \in Nat
  BY DEF TypeOK, WakeTypeOK, ActorTypeOK
<1>3. ASSUME NEW T, NEW occ \in Occurrences, NEW d \in DueDelays, Prepare(g, e, T, occ, d)
      PROVE  RowsStep
  <2> DEFINE row == NewRow(occ, clock + d, 0)
  <2>1. row \in Row /\ row.occ = occ /\ RowSound(row)
    <3>1. occ \in {"once", "interval"} /\ clock + d \in Nat
      BY <1>2, ChoiceAssumption, TickAssumption
    <3>2. row \in Row
      BY <3>1, NewRowType
    <3>3. row.occ = occ
      BY DEF NewRow
    <3> QED BY <3>2, <3>3, NewRowSound
  <2> HIDE DEF row
  <2>2. conts' = Append(conts, row)
    BY <1>3 DEF Prepare, row
  <2>3. /\ DOMAIN conts = 1 .. Len(conts) /\ Len(conts) \in Nat
        /\ DOMAIN conts' = 1 .. Len(conts) + 1
        /\ \A j \in 1 .. Len(conts) : conts'[j] = conts[j]
        /\ conts'[Len(conts) + 1] = row
    BY <1>2, <2>1, <2>2, AppendProperties, LenProperties
  <2> QED BY <2>1, <2>3, KeptReflexive DEF RowsStep, RowsKept
<1>4. ASSUME NEW T, NEW occ, NEW d \in DueDelays, Refresh(g, e, T, occ, d)
      PROVE  RowsStep
  <2> DEFINE row == [conts[LiveRow] EXCEPT !.status = "reschedule_required",
                                           !.pending = clock + d]
  <2>1. LiveRow \in DOMAIN conts /\ conts[LiveRow] \in Row
    BY <1>4, LiveRowType DEF Refresh, TypeOK
  <2>5. /\ row.occ = conts[LiveRow].occ /\ row.from = conts[LiveRow].from
        /\ row.native = conts[LiveRow].native /\ row.confirmed = conts[LiveRow].confirmed
        /\ row.status = "reschedule_required" /\ row.pending = clock + d
    BY <2>1 DEF Row
  <2>6. d # 0 /\ d \in Nat
    BY TickAssumption
  <2>3. \/ conts' = conts
        \/ conts' = [conts EXCEPT ![LiveRow] = row] /\ Retimes(conts[LiveRow], occ, d)
    BY <1>4 DEF Refresh
  <2> HIDE DEF row
  <2>2. Retimes(conts[LiveRow], occ, d) => RowKept(conts[LiveRow], row)
    BY <1>2, <1>4, <2>5, <2>6 DEF Refresh, Refreshable, Retimes, RowKept, RowSound, HostConfirmed, Reschedule,
                        NoTime, Ended, InCleanup, Cancelling
  <2>4. CASE conts' = [conts EXCEPT ![LiveRow] = row] /\ Retimes(conts[LiveRow], occ, d)
    <3>1. RowsKept(conts, conts') /\ DOMAIN conts' = DOMAIN conts
      BY <1>2, <2>1, <2>2, <2>4, ReplacedRow, LenProperties
    <3> QED BY <3>1 DEF RowsStep
  <2> QED BY <2>3, <2>4, SameRowsKept
<1>5. ASSUME NEW i \in DOMAIN conts, NEW d \in ExpediteDelays, Expedite(g, e, i, d)
      PROVE  RowsStep
  <2> DEFINE row == [conts[i] EXCEPT !.status = "reschedule_required", !.pending = clock + d]
  <2>1. conts[i] \in Row /\ d # 0 /\ d \in Nat
    BY ElementOfSeq, LenProperties, TickAssumption DEF TypeOK, WakeTypeOK
  <2>2. /\ row.occ = conts[i].occ /\ row.from = conts[i].from
        /\ row.native = conts[i].native /\ row.confirmed = conts[i].confirmed
        /\ row.status = "reschedule_required" /\ row.pending = clock + d
    BY <2>1 DEF Row
  <2>3. PutRow(i, row)
    BY <1>5 DEF Expedite
  <2> HIDE DEF row
  <2>4. RowKept(conts[i], row)
    BY <1>2, <1>5, <2>1, <2>2 DEF Expedite, RowKept, RowSound, HostConfirmed, Reschedule, NoTime
  <2> QED BY <2>3, <2>4, PutRowKept
<1>6. ASSUME NEW T, NEW release, Checkpoint(g, e, T, release)
      PROVE  UNCHANGED conts
  BY <1>6 DEF Checkpoint, wakeRows
<1>7. ASSUME NEW outcome, FinishStart(g, e, outcome)
      PROVE  UNCHANGED conts
  BY <1>7 DEF FinishStart, wakeRows
<1> QED BY <1>1, <1>3, <1>4, <1>5, <1>6, <1>7, SameRowsKept

\* Every step keeps the rows.
LEMMA EveryStepKeepsRows ==
  ASSUME TypeOK, [Next]_vars
  PROVE  RowsStep
<1>1. CASE CallStep
  BY <1>1, SameRowsKept DEF CallStep, BeginCall, HeartbeatCall, EndCall, wakeRows
<1>2. CASE OwnerStep
  <2>1. CASE CreateGoal \/ AcquireFree \/ AcquireStale \/ Reconcile \/ HandlerStops
    BY <2>1, SameRowsKept DEF CreateGoal, AcquireFree, AcquireStale, Reconcile,
       HandlerStops, wakeRows
  <2>2. ASSUME NEW e, CancelStart(e)
        PROVE  UNCHANGED conts
    BY <2>2 DEF CancelStart, Cancel, wakeRows
  <2>3. ASSUME NEW trustworthy, Observe(trustworthy)
        PROVE  UNCHANGED conts
    BY <2>3 DEF Observe, wakeRows
  <2>4. CASE FinishMark \/ CancelMark
    BY <2>4, MarkKept DEF FinishMark, CancelMark
  <2>5. CASE FinishCommit
    BY <2>5, SameRowsKept DEF FinishCommit, Finish, wakeRows
  <2> QED BY <1>2, <2>1, <2>2, <2>3, <2>4, <2>5, SameRowsKept DEF OwnerStep
<1>3. CASE HostStep
  <2>1. PICK i \in DOMAIN conts : Wake(i) \/ Receipt(i) \/ CancelWatchdog(i)
    BY <1>3 DEF HostStep
  <2>2. CASE RecurringAcquire(i) \/ RecurringBusy(i) \/ RecurringCleanup(i)
    BY <2>2, SameRowsKept DEF RecurringAcquire, RecurringBusy, RecurringCleanup
  <2> QED BY <2>1, <2>2, FiringKept, HostRowKept DEF Wake
<1>4. CASE WorldStep
  BY <1>4, SameRowsKept DEF WorldStep, Pass, StartTask, EndTask, wakeRows
<1>5. CASE UNCHANGED vars
  BY <1>5, SameRowsKept DEF vars, wakeRows
<1> QED BY <1>1, <1>2, <1>3, <1>4, <1>5, WorkerKept DEF Next

-----------------------------------------------------------------------------
(* What the repository reads back is never corrupt.                        *)

RowsInv == \A j \in DOMAIN conts : RowSound(conts[j])

\* Every row is readable always.
THEOREM RowsInvariant == Spec => []RowsInv
<1>1. Init => RowsInv
  BY DEF Init, RowsInv
<1>2. RowsInv /\ TypeOK /\ [Next]_vars => RowsInv'
  <2> SUFFICES ASSUME RowsInv, TypeOK, [Next]_vars PROVE RowsInv'
    OBVIOUS
  <2>1. RowsStep
    BY EveryStepKeepsRows
  <2>2. \A j \in DOMAIN conts : RowSound(conts'[j])
    BY <2>1 DEF RowsStep, RowsKept, RowKept, RowsInv
  <2>3. \A j \in DOMAIN conts' \ DOMAIN conts : RowSound(conts'[j])
    BY <2>1 DEF RowsStep
  <2>4. \A j \in DOMAIN conts' : RowSound(conts'[j])
    BY <2>2, <2>3
  <2> QED BY <2>4 DEF RowsInv, RowSound, HostConfirmed, NoLateReports, NoFailedRetime
<1> QED BY <1>1, <1>2, TypeCorrect, PTL DEF Spec

\* validateLeaseState, the corruption checks of refreshLive and the CHECK of
\* the continuation table never fail on what the transactions left behind.
THEOREM NothingCorrupt == Spec => []NeverCorrupt
<1>1. TypeOK /\ JournalInv /\ RowsInv => NeverCorrupt
  <2> SUFFICES ASSUME TypeOK, JournalInv, RowsInv PROVE NeverCorrupt
    OBVIOUS
  <2>1. lease.held => status = "active"
    BY DEF TypeOK, GoalTypeOK, JournalInv, Closed
  <2>2. \A i \in DOMAIN conts :
          /\ conts[i].status = "scheduled" => HostConfirmed(conts[i])
          /\ conts[i].status \in Reschedule => conts[i].native /\ conts[i].pending # NoTime
    BY DEF RowsInv, RowSound, HostConfirmed
  <2> QED BY <2>1, <2>2 DEF NeverCorrupt
<1> QED BY <1>1, TypeCorrect, JournalInvariant, RowsInvariant, PTL

-----------------------------------------------------------------------------
(* The ledger.  Every grant a recurring watchdog obtained is matched by a  *)
(* run of the same interval tick, and a grant records a new one; every     *)
(* grant a ticket obtained left the row of its next wake, and, unless a    *)
(* late report revives the ticket, consumed it.                            *)

RunOf(n) ==
  \E r \in runs : r.cont = grants[n].by /\ r.tick = grants[n].tick

TicketOf(n) == grants[n].by # 0 /\ conts[grants[n].by].occ = "once"

TicketsConsumed ==
  \A n \in DOMAIN grants : TicketOf(n) => conts[grants[n].by].status = "claimed"

LedgerInv ==
  /\ \A n \in DOMAIN grants : grants[n].by # 0 => grants[n].by \in DOMAIN conts
  /\ \A n \in DOMAIN grants :
       grants[n].by # 0 /\ conts[grants[n].by].occ = "interval" => RunOf(n)
  /\ OneGrantPerTick
  /\ WokenGoalHasNextWake
  /\ NoLateReports => TicketsConsumed /\ OneGrantPerTicket

NewRun(by, tick) ==
  /\ \A r \in runs : ~(r.cont = by /\ r.tick = tick)
  /\ \E r \in runs' : r.cont = by /\ r.tick = tick

Consumes(by) ==
  /\ conts[by].status # "claimed" /\ conts'[by].status = "claimed"
  /\ HasSuccessor(conts', by)

GrantRecorded ==
  \E by \in Nat, tick \in Nat :
    /\ grants' = Append(grants, [by |-> by, tick |-> tick])
    /\ by # 0 => by \in DOMAIN conts
    /\ by # 0 /\ conts[by].occ = "interval" => NewRun(by, tick)
    /\ by # 0 /\ conts[by].occ = "once" => Consumes(by)

LedgerStep ==
  /\ RowsStep
  /\ runs \subseteq runs'
  /\ UNCHANGED grants \/ GrantRecorded

\* Reserving a successor writes no row but the successor's.
LEMMA ReservedElsewhere ==
  ASSUME NEW rows \in Seq(Row), NEW i \in DOMAIN rows, NEW due \in Nat
  PROVE  Reserved(rows, i, due)[i] = rows[i]
<1>1. i \in 1 .. Len(rows) /\ Len(rows) \in Nat /\ i # i + 1
  BY LenProperties
<1>2. NewRow("once", due, i) \in Row
  BY <1>1, NewRowType
<1>3. Append(rows, NewRow("once", due, i))[i] = rows[i]
  BY <1>1, <1>2, AppendProperties
<1> QED BY <1>1, <1>3 DEF Reserved

\* A claim finds its ticket unclaimed, retires it and leaves a successor.
LEMMA TicketConsumed ==
  ASSUME TypeOK, NEW i \in DOMAIN conts, ClaimTicket(i)
  PROVE  Consumes(i)
<1> DEFINE row     == [conts[i] EXCEPT !.status = "claimed", !.pending = NoTime,
                                       !.probe = NoProbe]
           claimed == [conts EXCEPT ![i] = row]
<1>1. conts \in Seq(Row) /\ conts[i] \in Row /\ clock + ClaimDelay \in Nat
  BY ElementOfSeq, LenProperties, TickAssumption DEF TypeOK, WakeTypeOK, ActorTypeOK
<1>2. conts[i].occ = "once" /\ conts[i].status # "claimed"
  BY DEF ClaimTicket, TicketGrants, Claimable
<1>3. row \in Row
  BY <1>1, <1>2 DEF Row, Historical, NoTime, NoProbe, Probe
<1>6. row.status = "claimed"
  BY <1>1 DEF Row
<1>4. conts' = Reserved(claimed, i, clock + ClaimDelay)
  BY DEF ClaimTicket
<1> HIDE DEF row
<1>5. claimed \in Seq(Row) /\ i \in DOMAIN claimed /\ claimed[i] = row
  BY <1>1, <1>3, RowReplaced
<1> HIDE DEF claimed
<1>7. conts'[i] = row
  BY <1>1, <1>4, <1>5, ReservedElsewhere
<1> QED BY <1>2, <1>6, <1>7, FiringKept DEF Consumes

\* Every grant of a recurring watchdog records a run that was not there, and
\* every grant of a ticket consumes it.
LEMMA LedgerKinds ==
  ASSUME TypeOK, [Next]_vars
  PROVE  LedgerStep
<1>1. runs \subseteq runs' /\ (gen' = gen => UNCHANGED grants)
  <2>1. CASE WorkerStep
    <3>1. PICK g \in 1 .. gen, e \in 0 .. revision :
            \/ \E T \in SUBSET Started, release \in BOOLEAN : Checkpoint(g, e, T, release)
            \/ \E T \in SUBSET Started, occ \in Occurrences, d \in DueDelays :
                 Prepare(g, e, T, occ, d) \/ Refresh(g, e, T, occ, d)
            \/ \E i \in DOMAIN conts, d \in ExpediteDelays : Expedite(g, e, i, d)
            \/ \E outcome \in Outcomes : FinishStart(g, e, outcome)
      BY <2>1 DEF WorkerStep
    <3>2. ASSUME NEW T, NEW release, Checkpoint(g, e, T, release)
          PROVE  UNCHANGED <<runs, grants>>
      BY <3>2 DEF Checkpoint, wakeRows
    <3>3. ASSUME NEW T, NEW occ, NEW d, Prepare(g, e, T, occ, d) \/ Refresh(g, e, T, occ, d)
          PROVE  UNCHANGED <<runs, grants>>
      BY <3>3 DEF Prepare, Refresh
    <3>4. ASSUME NEW i, NEW d, Expedite(g, e, i, d)
          PROVE  UNCHANGED <<runs, grants>>
      BY <3>4 DEF Expedite, goalRow
    <3>5. ASSUME NEW outcome, FinishStart(g, e, outcome)
          PROVE  UNCHANGED <<runs, grants>>
      BY <3>5 DEF FinishStart, goalRow, wakeRows
    <3> QED BY <3>1, <3>2, <3>3, <3>4, <3>5
  <2>2. CASE CallStep
    BY <2>2 DEF CallStep, BeginCall, HeartbeatCall, EndCall, goalRow, wakeRows
  <2>3. CASE OwnerStep
    <3>1. CASE CreateGoal \/ AcquireFree \/ AcquireStale
      <4>1. UNCHANGED runs /\ gen' = gen + 1
        BY <3>1 DEF CreateGoal, AcquireFree, AcquireStale, Grant, wakeRows
      <4> QED BY <4>1 DEF TypeOK, GoalTypeOK
    <3>2. ASSUME NEW e, CancelStart(e)
          PROVE  UNCHANGED <<runs, grants>>
      BY <3>2 DEF CancelStart, Cancel, wakeRows
    <3>3. ASSUME NEW trustworthy, Observe(trustworthy)
          PROVE  UNCHANGED <<runs, grants>>
      BY <3>3 DEF Observe, goalRow, wakeRows
    <3>4. CASE Reconcile \/ FinishMark \/ CancelMark \/ HandlerStops \/ FinishCommit
      BY <3>4 DEF Reconcile, FinishMark, CancelMark, HandlerStops, FinishCommit, Finish,
         goalRow, wakeRows
    <3> QED BY <2>3, <3>1, <3>2, <3>3, <3>4 DEF OwnerStep
  <2>4. CASE HostStep
    <3>1. PICK i \in DOMAIN conts : Wake(i) \/ Receipt(i) \/ CancelWatchdog(i)
      BY <2>4 DEF HostStep
    <3>2. CASE ClaimTicket(i) \/ RecurringAcquire(i)
      <4>1. runs \subseteq runs' /\ gen' = gen + 1
        BY <3>2 DEF ClaimTicket, RecurringAcquire, Grant, RecordRun
      <4> QED BY <4>1 DEF TypeOK, GoalTypeOK
    <3>3. CASE Collide(i) \/ RecoverSuccessor(i) \/ TicketNoop(i) \/ RecurringBusy(i)
               \/ RecurringCleanup(i)
      BY <3>3 DEF Collide, RecoverSuccessor, TicketNoop, RecurringBusy, RecurringCleanup,
         RecordRun, goalRow
    <3>4. CASE Receipt(i) \/ CancelWatchdog(i)
      BY <3>4 DEF Receipt, CancelWatchdog, goalRow
    <3> QED BY <3>1, <3>2, <3>3, <3>4 DEF Wake
  <2>5. CASE WorldStep
    BY <2>5 DEF WorldStep, Pass, StartTask, EndTask, goalRow, wakeRows
  <2>6. CASE UNCHANGED vars
    BY <2>6 DEF vars, goalRow, wakeRows
  <2> QED BY <2>1, <2>2, <2>3, <2>4, <2>5, <2>6 DEF Next
<1>2. ASSUME gen' # gen
      PROVE  GrantRecorded
  <2>1. CASE CreateGoal \/ AcquireFree \/ AcquireStale
    <3>1. grants' = Append(grants, [by |-> 0, tick |-> 0])
      BY <2>1 DEF CreateGoal, AcquireFree, AcquireStale, Grant
    <3> QED BY <3>1 DEF GrantRecorded
  <2>2. ASSUME NEW i \in DOMAIN conts, ClaimTicket(i)
        PROVE  GrantRecorded
    <3>1. grants' = Append(grants, [by |-> i, tick |-> 0]) /\ conts[i].occ = "once"
      BY <2>2 DEF ClaimTicket, Grant, TicketGrants, Claimable
    <3>2. i \in Nat
      BY LenProperties DEF TypeOK, WakeTypeOK
    <3> QED BY <2>2, <3>1, <3>2, TicketConsumed DEF GrantRecorded
  <2>3. ASSUME NEW i \in DOMAIN conts, RecurringAcquire(i)
        PROVE  GrantRecorded
    <3> DEFINE tick == Tick(conts[i])
    <3>1. conts[i] \in Row /\ i \in Nat
      BY ElementOfSeq, LenProperties DEF TypeOK, WakeTypeOK
    <3>2. tick \in Nat
      BY <3>1, TickType DEF TypeOK, ActorTypeOK
    <3>3. grants' = Append(grants, [by |-> i, tick |-> tick])
      BY <2>3 DEF RecurringAcquire, Grant
    <3>4. \A r \in runs : ~(r.cont = i /\ r.tick = tick)
      BY <2>3 DEF RecurringAcquire, RecurringDue, RunRecorded
    <3>5. [cont |-> i, tick |-> tick, gen |-> gen + 1] \in runs'
      BY <2>3 DEF RecurringAcquire, RecordRun
    <3> HIDE DEF tick
    <3>6. NewRun(i, tick)
      BY <3>4, <3>5 DEF NewRun
    <3>7. conts[i].occ = "interval"
      BY <2>3 DEF RecurringAcquire, RecurringDue
    <3> QED BY <3>1, <3>2, <3>3, <3>6, <3>7 DEF GrantRecorded
  <2> QED BY <1>2, <2>1, <2>2, <2>3, GrantKinds
<1> QED BY <1>1, <1>2, EveryStepKeepsRows DEF LedgerStep

\* Every step keeps what the ledger says of recurring watchdogs.
LEMMA FiringsStep ==
  ASSUME TypeOK, LedgerInv, LedgerStep
  PROVE  /\ \A n \in DOMAIN grants' : grants'[n].by # 0 => grants'[n].by \in DOMAIN conts'
         /\ \A n \in DOMAIN grants' :
              grants'[n].by # 0 /\ conts'[grants'[n].by].occ = "interval" => RunOf(n)'
         /\ OneGrantPerTick'
<1>1. /\ grants \in Seq([by : Nat, tick : Nat]) /\ conts \in Seq(Row)
      /\ DOMAIN grants = 1 .. Len(grants) /\ Len(grants) \in Nat
  BY LenProperties DEF TypeOK, GoalTypeOK, WakeTypeOK
<1>2. /\ DOMAIN conts \subseteq DOMAIN conts'
      /\ \A j \in DOMAIN conts : conts'[j].occ = conts[j].occ
      /\ runs \subseteq runs'
  BY DEF LedgerStep, RowsStep, RowsKept, RowKept
<1>3. CASE UNCHANGED grants
  BY <1>2, <1>3 DEF LedgerInv, RunOf, OneGrantPerTick
<1>4. CASE GrantRecorded
  <2>1. PICK by \in Nat, tick \in Nat :
          /\ grants' = Append(grants, [by |-> by, tick |-> tick])
          /\ by # 0 => by \in DOMAIN conts
          /\ by # 0 /\ conts[by].occ = "interval" => NewRun(by, tick)
    BY <1>4 DEF GrantRecorded
  <2> DEFINE last == Len(grants) + 1
  <2>2. /\ DOMAIN grants' = 1 .. last
        /\ \A n \in 1 .. Len(grants) : grants'[n] = grants[n]
        /\ grants'[last] = [by |-> by, tick |-> tick]
    BY <1>1, <2>1, AppendProperties, LenProperties
  <2>3. \A n \in DOMAIN grants' : n \in DOMAIN grants \/ n = last
    BY <1>1, <2>2
  <2>4. \A n \in DOMAIN grants : grants'[n] = grants[n]
    BY <1>1, <2>2
  <2>5. grants'[last].by = by /\ grants'[last].tick = tick
    BY <2>2
  <2> HIDE DEF last
  <2>6. \A n \in DOMAIN grants' : grants'[n].by # 0 => grants'[n].by \in DOMAIN conts
    BY <2>1, <2>3, <2>4, <2>5 DEF LedgerInv
  <2>7. \A n \in DOMAIN grants :
          grants'[n].by # 0 /\ conts'[grants'[n].by].occ = "interval"
          => RunOf(n) /\ conts[grants[n].by].occ = "interval"
    BY <1>2, <2>4 DEF LedgerInv
  <2>8. by # 0 /\ conts'[by].occ = "interval" => NewRun(by, tick)
    BY <1>2, <2>1
  <2>9. \A n \in DOMAIN grants' :
          grants'[n].by # 0 /\ conts'[grants'[n].by].occ = "interval" => RunOf(n)'
    BY <1>2, <2>3, <2>4, <2>5, <2>7, <2>8 DEF RunOf, NewRun
  <2>10. \A n \in DOMAIN grants :
           grants'[n].by # 0 /\ conts'[grants'[n].by].occ = "interval"
           => grants'[n] # grants'[last]
    <3> SUFFICES ASSUME NEW n \in DOMAIN grants, grants'[n].by # 0,
                        conts'[grants'[n].by].occ = "interval", grants'[n] = grants'[last]
                 PROVE  FALSE
      OBVIOUS
    <3>1. grants[n].by = by /\ grants[n].tick = tick
      BY <2>4, <2>5
    <3>2. PICK r \in runs : r.cont = by /\ r.tick = tick
      BY <2>7, <3>1 DEF RunOf
    <3>3. NewRun(by, tick)
      BY <2>4, <2>8, <3>1
    <3> QED BY <3>2, <3>3 DEF NewRun
  <2>11. OneGrantPerTick'
    <3> SUFFICES ASSUME NEW m \in DOMAIN grants', NEW n \in DOMAIN grants',
                        grants'[m] = grants'[n], grants'[m].by # 0,
                        conts'[grants'[m].by].occ = "interval"
                 PROVE  m = n
      BY DEF OneGrantPerTick
    <3>1. CASE m \in DOMAIN grants /\ n \in DOMAIN grants
      BY <2>4, <2>7, <3>1 DEF LedgerInv, OneGrantPerTick
    <3>2. CASE m \in DOMAIN grants /\ n = last
      BY <2>10, <3>2
    <3>3. CASE m = last /\ n \in DOMAIN grants
      BY <2>10, <3>3
    <3> QED BY <2>3, <3>1, <3>2, <3>3
  <2> QED BY <1>2, <2>6, <2>9, <2>11
<1> QED BY <1>3, <1>4 DEF LedgerStep

\* Every step keeps what the ledger says of one-time tickets.
LEMMA TicketsStep ==
  ASSUME TypeOK, RowsInv, LedgerInv, LedgerStep
  PROVE  /\ WokenGoalHasNextWake'
         /\ NoLateReports => TicketsConsumed' /\ OneGrantPerTicket'
<1>1. /\ grants \in Seq([by : Nat, tick : Nat]) /\ conts \in Seq(Row)
      /\ DOMAIN grants = 1 .. Len(grants) /\ Len(grants) \in Nat
  BY LenProperties DEF TypeOK, GoalTypeOK, WakeTypeOK
<1>2. \A j \in DOMAIN conts :
        /\ j \in DOMAIN conts' /\ conts'[j].occ = conts[j].occ
        /\ HasSuccessor(conts, j) => HasSuccessor(conts', j)
        /\ NoLateReports /\ conts[j].status = "claimed" => conts'[j].status = "claimed"
  BY DEF LedgerStep, RowsStep, RowsKept, RowKept, RowsInv, HasSuccessor
<1>3. \A n \in DOMAIN grants :
        LET i == grants[n].by IN
        i # 0 /\ conts'[i].occ = "once" =>
          /\ i \in DOMAIN conts /\ conts[i].occ = "once"
          /\ HasSuccessor(conts', i)
          /\ NoLateReports => conts[i].status = "claimed" /\ conts'[i].status = "claimed"
  BY <1>2 DEF LedgerInv, WokenGoalHasNextWake, TicketsConsumed, TicketOf
<1>4. CASE UNCHANGED grants
  <2>1. WokenGoalHasNextWake' /\ (NoLateReports => TicketsConsumed')
    BY <1>3, <1>4 DEF WokenGoalHasNextWake, TicketsConsumed, TicketOf
  <2>2. NoLateReports => OneGrantPerTicket'
    BY <1>3, <1>4 DEF LedgerInv, OneGrantPerTicket
  <2> QED BY <2>1, <2>2
<1>5. CASE GrantRecorded
  <2>1. PICK by \in Nat, tick \in Nat :
          /\ grants' = Append(grants, [by |-> by, tick |-> tick])
          /\ by # 0 => by \in DOMAIN conts
          /\ by # 0 /\ conts[by].occ = "once" => Consumes(by)
    BY <1>5 DEF GrantRecorded
  <2> DEFINE last == Len(grants) + 1
  <2>2. /\ DOMAIN grants' = 1 .. last
        /\ \A n \in 1 .. Len(grants) : grants'[n] = grants[n]
        /\ grants'[last] = [by |-> by, tick |-> tick]
    BY <1>1, <2>1, AppendProperties, LenProperties
  <2>3. \A n \in DOMAIN grants' : n \in DOMAIN grants \/ n = last
    BY <1>1, <2>2
  <2>4. \A n \in DOMAIN grants : grants'[n] = grants[n]
    BY <1>1, <2>2
  <2>5. grants'[last].by = by
    BY <2>2
  <2> HIDE DEF last
  <2>6. by # 0 /\ conts'[by].occ = "once" => Consumes(by)
    BY <1>2, <2>1
  <2>7. WokenGoalHasNextWake' /\ (NoLateReports => TicketsConsumed')
    BY <1>3, <2>3, <2>4, <2>5, <2>6 DEF WokenGoalHasNextWake, TicketsConsumed, TicketOf, Consumes
  <2>8. ASSUME NoLateReports PROVE OneGrantPerTicket'
    <3> SUFFICES ASSUME NEW m \in DOMAIN grants', NEW n \in DOMAIN grants',
                        grants'[m].by = grants'[n].by, grants'[m].by # 0,
                        conts'[grants'[m].by].occ = "once"
                 PROVE  m = n
      BY DEF OneGrantPerTicket
    <3>1. CASE m \in DOMAIN grants /\ n \in DOMAIN grants
      BY <1>3, <2>4, <2>8, <3>1 DEF LedgerInv, OneGrantPerTicket
    <3>2. ASSUME m \in DOMAIN grants, n = last PROVE FALSE
      BY <1>3, <2>4, <2>5, <2>6, <2>8, <3>2 DEF Consumes
    <3>3. ASSUME m = last, n \in DOMAIN grants PROVE FALSE
      BY <1>3, <2>4, <2>5, <2>6, <2>8, <3>3 DEF Consumes
    <3> QED BY <2>3, <3>1, <3>2, <3>3
  <2> QED BY <2>7, <2>8
<1> QED BY <1>4, <1>5 DEF LedgerStep

\* The ledger's invariant holds always.
THEOREM LedgerInvariant == Spec => []LedgerInv
<1>1. Init => LedgerInv
  BY DEF Init, LedgerInv, OneGrantPerTick, OneGrantPerTicket, WokenGoalHasNextWake,
     TicketsConsumed
<1>2. LedgerInv /\ TypeOK /\ RowsInv /\ [Next]_vars => LedgerInv'
  <2> SUFFICES ASSUME LedgerInv, TypeOK, RowsInv, [Next]_vars PROVE LedgerInv'
    OBVIOUS
  <2>1. LedgerStep
    BY LedgerKinds
  <2> QED BY <2>1, FiringsStep, TicketsStep DEF LedgerInv, NoLateReports
<1> QED BY <1>1, <1>2, TypeCorrect, RowsInvariant, PTL DEF Spec

\* However often the host delivers one firing of a recurring watchdog, and
\* whatever happens between the deliveries, it grants the goal at most once.
THEOREM OneGrantPerFiring == Spec => []OneGrantPerTick
<1>1. LedgerInv => OneGrantPerTick
  BY DEF LedgerInv
<1> QED BY LedgerInvariant, <1>1, PTL

\* A goal that a ticket woke always has the row of its next wake, whatever
\* the host reports and whoever marks, cancels or retires rows meanwhile.
THEOREM WokenGoalsHaveNextWake == Spec => []WokenGoalHasNextWake
<1>1. LedgerInv => WokenGoalHasNextWake
  BY DEF LedgerInv
<1> QED BY LedgerInvariant, <1>1, PTL

\* A one-time ticket grants the goal at most once, however often and however
\* late it is delivered, as long as the client reports no creation that is
\* over: recordReceipt would take such a report for the claimed row.
THEOREM OneGrantForEachTicket ==
  ASSUME NoLateReports
  PROVE  Spec => []OneGrantPerTicket
<1>1. LedgerInv => OneGrantPerTicket
  BY DEF LedgerInv
<1> QED BY LedgerInvariant, <1>1, PTL

-----------------------------------------------------------------------------
(* Goals whose callers ask for recurring watchdogs only.                  *)

Recurring == \A i \in DOMAIN conts : conts[i].occ = "interval"

\* A goal that is only asked for recurring watchdogs has no one-time ticket.
THEOREM OnlyRecurring ==
  ASSUME Occurrences \subseteq {"interval"}
  PROVE  Spec => []Recurring
<1>1. Init => Recurring
  BY DEF Init, Recurring
<1>2. Recurring /\ TypeOK /\ [Next]_vars => Recurring'
  <2> SUFFICES ASSUME Recurring, TypeOK, [Next]_vars PROVE Recurring'
    OBVIOUS
  <2>1. RowsStep
    BY EveryStepKeepsRows
  <2> QED BY <2>1 DEF RowsStep, RowsKept, RowKept, Recurring
<1> QED BY <1>1, <1>2, TypeCorrect, PTL DEF Spec

\* Only the stale recovery takes over a lease that has not lapsed.
LEMMA StaleTakeover ==
  ASSUME TypeOK, JournalInv, Recurring, [Next]_vars, gen' > gen, LeaseValid
  PROVE  HeartbeatStale
<1>1. gen' # gen
  BY DEF TypeOK, GoalTypeOK
<1>2. ~CreateGoal /\ ~AcquireFree
  BY DEF CreateGoal, AcquireFree, JournalInv, LeaseValid
<1>3. CASE AcquireStale
  BY <1>3 DEF AcquireStale, StaleRecovery
<1>4. ASSUME NEW i \in DOMAIN conts, ClaimTicket(i)
      PROVE  FALSE
  BY <1>4 DEF ClaimTicket, TicketGrants, Claimable, Recurring
<1>5. ASSUME NEW i \in DOMAIN conts, RecurringAcquire(i)
      PROVE  HeartbeatStale
  BY <1>5 DEF RecurringAcquire, RecurringGrants
<1> QED BY <1>1, <1>2, <1>3, <1>4, <1>5, GrantKinds

\* Under recurring watchdogs a lease that has not lapsed is taken only after
\* its holder has been silent for the stale-recovery grace.
THEOREM OnlyStaleLeasesAreTaken ==
  ASSUME Occurrences \subseteq {"interval"}
  PROVE  Spec => OnlyStaleLeaseIsTaken
<1>1. TypeOK /\ JournalInv /\ Recurring /\ [Next]_vars
      => [gen' > gen /\ LeaseValid => clock - lease.hb >= StaleGrace]_vars
  BY StaleTakeover DEF HeartbeatStale
<1> QED BY <1>1, TypeCorrect, JournalInvariant, OnlyRecurring, PTL
        DEF Spec, OnlyStaleLeaseIsTaken

-----------------------------------------------------------------------------
(* Under recurring watchdogs no call of the current holder outlives its    *)
(* lease, so a lease that lapsed has no live call.                         *)

CallsInLease ==
  lease.held =>
    /\ lease.exp <= clock + LeaseTicks
    /\ \A c \in calls : c.gen = gen => c.exp <= lease.exp

LeaseGranted ==
  /\ gen' = gen + 1 /\ lease'.exp = clock + LeaseTicks
  /\ UNCHANGED <<calls, clock>>

LeaseRenewed ==
  /\ lease.held /\ lease'.exp = clock + LeaseTicks
  /\ UNCHANGED <<gen, clock>>
  /\ \A c \in calls' : c \in calls \/ c.exp = clock + CallTicks

LeaseKept ==
  /\ lease' = lease \/ lease' = NoLease
  /\ gen' = gen /\ calls' \subseteq calls /\ clock <= clock'

GoalLeaseStep == LeaseGranted \/ LeaseRenewed \/ LeaseKept

\* The live watchdog of such a goal is no ticket, nor is the fencing one.
LEMMA RecurringRow ==
  ASSUME Recurring
  PROVE  /\ LiveRows # {} => conts[LiveRow].occ = "interval"
         /\ FenceRows # {} => conts[FenceRow].occ = "interval"
<1>1. LiveRows # {} => LiveRow \in DOMAIN conts
  BY DEF LiveRows, LiveRow
<1>2. FenceRows # {} => FenceRow \in DOMAIN conts
  BY DEF FenceRows, FenceRow
<1> QED BY <1>1, <1>2 DEF Recurring

\* A worker of such a goal renews its lease in full or leaves it alone.
LEMMA WorkerLeaseStep ==
  ASSUME TypeOK, Recurring, Occurrences \subseteq {"interval"}, WorkerStep
  PROVE  GoalLeaseStep
<1>1. PICK g \in 1 .. gen, e \in 0 .. revision :
        \/ \E T \in SUBSET Started, release \in BOOLEAN : Checkpoint(g, e, T, release)
        \/ \E T \in SUBSET Started, occ \in Occurrences, d \in DueDelays :
             Prepare(g, e, T, occ, d) \/ Refresh(g, e, T, occ, d)
        \/ \E i \in DOMAIN conts, d \in ExpediteDelays : Expedite(g, e, i, d)
        \/ \E outcome \in Outcomes : FinishStart(g, e, outcome)
  BY DEF WorkerStep
<1>2. clock \in Nat
  BY DEF TypeOK, ActorTypeOK
<1>3. ASSUME NEW T, NEW release \in BOOLEAN, Checkpoint(g, e, T, release)
      PROVE  GoalLeaseStep
  <2>1. lease.held /\ UNCHANGED <<gen, calls, clock>>
    BY <1>3 DEF Checkpoint, MutableLease, world
  <2>2. CheckpointExpiry = clock + LeaseTicks
    BY RecurringRow DEF CheckpointExpiry
  <2>3. lease' = NoLease \/ RenewLease(CheckpointExpiry)
    BY <1>3, Zenon DEF Checkpoint
  <2>4. CASE lease' = NoLease
    BY <1>2, <2>1, <2>4 DEF LeaseKept, GoalLeaseStep
  <2>5. CASE RenewLease(CheckpointExpiry)
    BY <2>1, <2>2, <2>5 DEF RenewLease, LeaseRenewed, GoalLeaseStep
  <2> QED BY <2>3, <2>4, <2>5
<1>4. ASSUME NEW T, NEW occ \in Occurrences, NEW d, Prepare(g, e, T, occ, d)
      PROVE  GoalLeaseStep
  <2>1. lease.held /\ UNCHANGED <<gen, calls, clock>>
    BY <1>4 DEF Prepare, MutableLease, world
  <2>2. RenewLease(clock + LeaseTicks)
    BY <1>4 DEF Prepare
  <2> QED BY <2>1, <2>2 DEF RenewLease, LeaseRenewed, GoalLeaseStep
<1>5. ASSUME NEW T, NEW occ, NEW d, Refresh(g, e, T, occ, d)
      PROVE  GoalLeaseStep
  <2>1. lease.held /\ UNCHANGED <<gen, calls, clock>>
    BY <1>5 DEF Refresh, MutableLease, world
  <2>2. conts[LiveRow].occ = "interval"
    BY <1>5, RecurringRow DEF Refresh
  <2>3. RefreshExpiry(conts[LiveRow], occ, d) = clock + LeaseTicks
    BY <2>2 DEF RefreshExpiry
  <2>4. RenewLease(clock + LeaseTicks)
    BY <1>5, <2>3 DEF Refresh
  <2> QED BY <2>1, <2>4 DEF RenewLease, LeaseRenewed, GoalLeaseStep
<1>6. ASSUME NEW i, NEW d, Expedite(g, e, i, d)
      PROVE  LeaseKept
  BY <1>2, <1>6 DEF Expedite, goalRow, world, LeaseKept
<1>7. ASSUME NEW outcome, FinishStart(g, e, outcome)
      PROVE  LeaseKept
  BY <1>2, <1>7 DEF FinishStart, goalRow, world, LeaseKept
<1> QED BY <1>1, <1>3, <1>4, <1>5, <1>6, <1>7 DEF GoalLeaseStep

\* A call of such a goal renews its lease in full.
LEMMA CallLeaseStep ==
  ASSUME TypeOK, Recurring, CallStep
  PROVE  GoalLeaseStep
<1>1. clock \in Nat
  BY DEF TypeOK, ActorTypeOK
<1>2. ASSUME NEW g, FenceRenewal(g)
      PROVE  lease.held /\ lease'.exp = clock + LeaseTicks
  <2>1. FenceExpiry(conts[FenceRow]) = clock + LeaseTicks
    BY <1>2, RecurringRow DEF FenceRenewal, FenceExpiry
  <2> QED BY <1>2, <2>1 DEF FenceRenewal, LeaseValid, RenewLease
<1>3. ASSUME NEW g, NEW id, BeginCall(g, id)
      PROVE  LeaseRenewed
  BY <1>2, <1>3 DEF BeginCall, world, LeaseRenewed
<1>4. ASSUME NEW c \in calls, HeartbeatCall(c)
      PROVE  LeaseRenewed
  <2>1. [c EXCEPT !.exp = clock + CallTicks].exp = clock + CallTicks
    BY DEF TypeOK, ActorTypeOK
  <2>2. \A d \in calls' : d \in calls \/ d.exp = clock + CallTicks
    BY <1>4, <2>1 DEF HeartbeatCall
  <2> QED BY <1>2, <1>4, <2>2 DEF HeartbeatCall, world, LeaseRenewed
<1>5. ASSUME NEW c, EndCall(c)
      PROVE  LeaseKept
  BY <1>1, <1>5 DEF EndCall, goalRow, world, LeaseKept
<1> QED BY <1>3, <1>4, <1>5 DEF CallStep, GoalLeaseStep

\* Every step of such a goal grants, renews or keeps its lease.
LEMMA LeaseKinds ==
  ASSUME TypeOK, Recurring, Occurrences \subseteq {"interval"}, [Next]_vars
  PROVE  GoalLeaseStep
<1>1. clock \in Nat
  BY DEF TypeOK, ActorTypeOK
<1>2. CASE OwnerStep
  <2>1. CASE CreateGoal \/ AcquireFree \/ AcquireStale
    BY <2>1 DEF CreateGoal, AcquireFree, AcquireStale, Grant, world, LeaseGranted, GoalLeaseStep
  <2>2. ASSUME NEW e, CancelStart(e)
        PROVE  LeaseKept
    BY <1>1, <2>2 DEF CancelStart, Cancel, CloseGoal, world, LeaseKept
  <2>3. ASSUME NEW trustworthy, Observe(trustworthy)
        PROVE  LeaseKept
    BY <1>1, <2>3 DEF Observe, goalRow, world, LeaseKept
  <2>4. CASE Reconcile
    BY <1>1, <2>4 DEF Reconcile, CloseGoal, world, LeaseKept, GoalLeaseStep
  <2>5. CASE FinishMark \/ CancelMark \/ HandlerStops
    BY <1>1, <2>5 DEF FinishMark, CancelMark, HandlerStops, goalRow, world, LeaseKept,
       GoalLeaseStep
  <2>6. CASE FinishCommit
    BY <1>1, <2>6 DEF FinishCommit, Finish, CloseGoal, world, LeaseKept, GoalLeaseStep
  <2> QED BY <1>2, <2>1, <2>2, <2>3, <2>4, <2>5, <2>6 DEF OwnerStep, GoalLeaseStep
<1>3. CASE HostStep
  <2>1. PICK i \in DOMAIN conts : Wake(i) \/ Receipt(i) \/ CancelWatchdog(i)
    BY <1>3 DEF HostStep
  <2>2. ~ClaimTicket(i) /\ ~Collide(i) /\ ~RecoverSuccessor(i)
    BY DEF Recurring, ClaimTicket, TicketGrants, Claimable, Collide, Collides,
       RecoverSuccessor
  <2>3. CASE RecurringAcquire(i)
    BY <2>3 DEF RecurringAcquire, Grant, world, LeaseGranted, GoalLeaseStep
  <2>4. CASE TicketNoop(i) \/ RecurringBusy(i) \/ RecurringCleanup(i)
    BY <1>1, <2>4 DEF TicketNoop, RecurringBusy, RecurringCleanup, goalRow, world,
       LeaseKept, GoalLeaseStep
  <2>5. CASE Receipt(i) \/ CancelWatchdog(i)
    BY <1>1, <2>5 DEF Receipt, CancelWatchdog, goalRow, world, LeaseKept, GoalLeaseStep
  <2> QED BY <2>1, <2>2, <2>3, <2>4, <2>5 DEF Wake
<1>4. CASE WorldStep
  BY <1>1, <1>4 DEF WorldStep, Pass, StartTask, EndTask, goalRow, LeaseKept, GoalLeaseStep
<1>5. CASE UNCHANGED vars
  BY <1>1, <1>5 DEF vars, goalRow, world, LeaseKept, GoalLeaseStep
<1> QED BY <1>2, <1>3, <1>4, <1>5, WorkerLeaseStep, CallLeaseStep DEF Next

\* Every step of such a goal keeps its calls within its lease.
LEMMA CallsInLeaseStep ==
  ASSUME TypeOK, TypeOK', ObservationInv, CallsInLease, GoalLeaseStep
  PROVE  CallsInLease'
<1>1. /\ clock \in Nat /\ clock' \in Nat /\ gen \in Nat /\ lease \in Lease /\ lease' \in Lease
      /\ LeaseTicks \in Nat /\ CallTicks \in Nat
  BY TickAssumption DEF TypeOK, GoalTypeOK, ActorTypeOK
<1>2. lease.exp \in Nat /\ lease'.exp \in Nat
  BY <1>1 DEF Lease
<1>3. \A c \in calls : c.gen \in Nat /\ c.exp \in Nat
  BY DEF TypeOK, ActorTypeOK
<1>4. CASE LeaseGranted
  <2>1. \A c \in calls' : c.gen # gen'
    BY <1>1, <1>3, <1>4 DEF LeaseGranted, ObservationInv
  <2> QED BY <1>1, <1>4, <2>1 DEF LeaseGranted, CallsInLease
<1>5. CASE LeaseRenewed
  <2>1. \A c \in calls' : c.gen = gen => c.exp <= clock + LeaseTicks
    BY <1>1, <1>2, <1>3, <1>5, CallAssumption DEF LeaseRenewed, CallsInLease
  <2> QED BY <1>1, <1>5, <2>1 DEF LeaseRenewed, CallsInLease
<1>6. CASE LeaseKept
  <2>1. CASE lease' = NoLease
    BY <2>1 DEF CallsInLease, NoLease
  <2>2. CASE lease' = lease
    BY <1>1, <1>2, <1>6, <2>2 DEF LeaseKept, CallsInLease
  <2> QED BY <1>6, <2>1, <2>2 DEF LeaseKept
<1> QED BY <1>4, <1>5, <1>6 DEF GoalLeaseStep

\* The calls of such a goal always stay within its lease.
THEOREM CallsStayInLease ==
  ASSUME Occurrences \subseteq {"interval"}
  PROVE  Spec => []CallsInLease
<1>1. Init => CallsInLease
  BY DEF Init, CallsInLease, NoLease
<1>2. CallsInLease /\ TypeOK /\ TypeOK' /\ ObservationInv /\ Recurring /\ [Next]_vars
      => CallsInLease'
  BY CallsInLeaseStep, LeaseKinds
<1> QED BY <1>1, <1>2, TypeCorrect, ObservationInvariant, OnlyRecurring, PTL DEF Spec

\* Under recurring watchdogs nobody, not even a caller that finds the lease
\* lapsed, takes a goal from a holder whose fenced call is still live.
THEOREM NoTheftFromLiveCalls ==
  ASSUME Occurrences \subseteq {"interval"}
  PROVE  Spec => NoTheftFromLiveCall
<1>1. ASSUME TypeOK, JournalInv, QuietObservationHolds, CallsInLease, [Next]_vars,
             gen' > gen, lease.held
      PROVE  LiveCalls = {}
  <2>1. gen' # gen /\ clock \in Nat /\ lease.exp \in Nat
        /\ \A c \in calls : c.exp \in Nat
    BY <1>1 DEF TypeOK, GoalTypeOK, ActorTypeOK, Lease
  <2>2. CASE ~LeaseValid
    BY <1>1, <2>1, <2>2 DEF LeaseValid, CallsInLease, LiveCalls
  <2>3. CASE LeaseValid
    <3>1. ~CreateGoal /\ ~AcquireFree
      BY <1>1, <2>3 DEF CreateGoal, AcquireFree, JournalInv
    <3>2. CASE AcquireStale
      BY <1>1, <3>2 DEF AcquireStale, StaleRecovery, ConfirmedInactive,
         QuietObservationHolds
    <3>3. ASSUME NEW i \in DOMAIN conts, ClaimTicket(i) \/ RecurringAcquire(i)
          PROVE  ObservationCurrent /\ ConfirmedInactive
      BY <3>3 DEF ClaimTicket, TicketGrants, OrphanRipe, MatchingProbe, RecurringAcquire,
         RecurringDue, RecurringGrants
    <3> QED BY <1>1, <2>1, <3>1, <3>2, <3>3, GrantKinds
            DEF QuietObservationHolds, ConfirmedInactive
  <2> QED BY <2>2, <2>3
<1>2. TypeOK /\ JournalInv /\ QuietObservationHolds /\ CallsInLease /\ [Next]_vars
      => [gen' > gen /\ lease.held => LiveCalls = {}]_vars
  BY <1>1
<1> QED BY <1>2, TypeCorrect, JournalInvariant, QuietObservations, CallsStayInLease, PTL
        DEF Spec, NoTheftFromLiveCall

-----------------------------------------------------------------------------
(* The end of such a goal.  A watchdog that is through stays through, and  *)
(* a new one is only prepared with a new revision: what finish_goal found  *)
(* after its mark still holds when it commits, or its revision is stale.   *)

FinishInv ==
  /\ handler.rev <= revision
  /\ handler.stage = "finish" /\ handler.rev = revision => LiveRows = {}

HandlerMoves ==
  \/ UNCHANGED handler
  \/ handler'.stage # "finish" /\ handler'.rev <= revision
  \/ handler'.rev = handler.rev /\ LiveRows' = {}

RowAdded == revision' = revision + 1 /\ UNCHANGED handler

FinishStep ==
  /\ revision' = revision \/ revision' = revision + 1
  /\ RowAdded \/ DOMAIN conts' = DOMAIN conts
  /\ HandlerMoves

\* Writing one row adds none.
LEMMA PutRowDomain ==
  ASSUME NEW i \in DOMAIN conts, NEW row, PutRow(i, row)
  PROVE  DOMAIN conts' = DOMAIN conts
BY DEF PutRow

\* A worker adds a watchdog only with a new revision.
LEMMA WorkerFinishStep ==
  ASSUME TypeOK, WorkerStep
  PROVE  FinishStep
<1>1. PICK g \in 1 .. gen, e \in 0 .. revision :
        \/ \E T \in SUBSET Started, release \in BOOLEAN : Checkpoint(g, e, T, release)
        \/ \E T \in SUBSET Started, occ \in Occurrences, d \in DueDelays :
             Prepare(g, e, T, occ, d) \/ Refresh(g, e, T, occ, d)
        \/ \E i \in DOMAIN conts, d \in ExpediteDelays : Expedite(g, e, i, d)
        \/ \E outcome \in Outcomes : FinishStart(g, e, outcome)
  BY DEF WorkerStep
<1>2. ASSUME NEW T, NEW release, Checkpoint(g, e, T, release)
      PROVE  FinishStep
  BY <1>2 DEF Checkpoint, WriteCheckpoint, wakeRows, FinishStep, HandlerMoves
<1>3. ASSUME NEW T, NEW occ, NEW d, Prepare(g, e, T, occ, d)
      PROVE  FinishStep
  BY <1>3 DEF Prepare, WriteCheckpoint, FinishStep, RowAdded, HandlerMoves
<1>4. ASSUME NEW T, NEW occ, NEW d, Refresh(g, e, T, occ, d)
      PROVE  FinishStep
  BY <1>4 DEF Refresh, WriteCheckpoint, FinishStep, RowAdded, HandlerMoves
<1>5. ASSUME NEW i \in DOMAIN conts, NEW d, Expedite(g, e, i, d)
      PROVE  FinishStep
  <2>1. DOMAIN conts' = DOMAIN conts
    BY <1>5, PutRowDomain DEF Expedite
  <2> QED BY <1>5, <2>1 DEF Expedite, goalRow, FinishStep, HandlerMoves
<1>6. ASSUME NEW outcome, FinishStart(g, e, outcome)
      PROVE  FinishStep
  <2>1. UNCHANGED <<revision, conts>>
    BY <1>6 DEF FinishStart, goalRow, wakeRows
  <2>2. handler'.stage # "finish" /\ handler'.rev <= revision
    BY <1>6 DEF FinishStart, TypeOK, GoalTypeOK
  <2> QED BY <2>1, <2>2 DEF FinishStep, HandlerMoves
<1> QED BY <1>1, <1>2, <1>3, <1>4, <1>5, <1>6

\* An owner adds no watchdog, and finish_goal goes on only when none is live.
LEMMA OwnerFinishStep ==
  ASSUME TypeOK, OwnerStep
  PROVE  FinishStep
<1>1. revision \in Nat /\ Resting.stage = "none" /\ Resting.rev = 0
  BY DEF TypeOK, GoalTypeOK, Resting
<1>2. ASSUME NEW t, MarkGoalFinished(t)
      PROVE  DOMAIN conts' = DOMAIN conts
  <2>1. CASE LiveRows = {}
    BY <1>2, <2>1 DEF MarkGoalFinished
  <2>2. CASE LiveRows # {}
    <3>1. LiveRow \in DOMAIN conts
      BY <2>2, LiveRowType DEF TypeOK
    <3> QED BY <1>2, <2>2, <3>1, PutRowDomain DEF MarkGoalFinished
  <2> QED BY <2>1, <2>2
<1>3. CASE CreateGoal \/ AcquireFree \/ AcquireStale
  BY <1>3 DEF CreateGoal, AcquireFree, AcquireStale, wakeRows, FinishStep, HandlerMoves
<1>4. ASSUME NEW e, CancelStart(e)
      PROVE  FinishStep
  <2>1. UNCHANGED conts /\ (revision' = revision \/ revision' = revision + 1)
    BY <1>4 DEF CancelStart, Cancel, CloseGoal, WriteCheckpoint, wakeRows
  <2>2. handler'.stage # "finish" /\ handler'.rev <= revision
    BY <1>1, <1>4 DEF CancelStart, Resting
  <2> QED BY <2>1, <2>2 DEF FinishStep, HandlerMoves
<1>5. CASE Reconcile
  BY <1>5 DEF Reconcile, CloseGoal, WriteCheckpoint, wakeRows, FinishStep, HandlerMoves
<1>6. ASSUME NEW trustworthy, Observe(trustworthy)
      PROVE  FinishStep
  BY <1>6 DEF Observe, goalRow, wakeRows, FinishStep, HandlerMoves
<1>7. CASE FinishMark
  <2>1. UNCHANGED revision /\ DOMAIN conts' = DOMAIN conts
    BY <1>2, <1>7 DEF FinishMark, goalRow
  <2>2. CASE \E i \in DOMAIN conts' : conts'[i].status \in Live
    BY <1>1, <1>7, <2>1, <2>2 DEF FinishMark, FinishStep, HandlerMoves
  <2>3. CASE ~\E i \in DOMAIN conts' : conts'[i].status \in Live
    <3>1. handler'.rev = handler.rev
      BY <1>7, <2>3 DEF FinishMark, TypeOK, ActorTypeOK, HandlerState
    <3>2. LiveRows' = {}
      BY <2>3 DEF LiveRows
    <3> QED BY <2>1, <3>1, <3>2 DEF FinishStep, HandlerMoves
  <2> QED BY <2>2, <2>3
<1>8. CASE FinishCommit
  BY <1>1, <1>8 DEF FinishCommit, Finish, CloseGoal, WriteCheckpoint, wakeRows, FinishStep,
     HandlerMoves
<1>9. CASE CancelMark
  <2>1. UNCHANGED revision /\ DOMAIN conts' = DOMAIN conts
    BY <1>2, <1>9 DEF CancelMark, goalRow
  <2> QED BY <1>1, <1>9, <2>1 DEF CancelMark, FinishStep, HandlerMoves
<1>10. CASE HandlerStops
  BY <1>1, <1>10 DEF HandlerStops, goalRow, wakeRows, FinishStep, HandlerMoves
<1> QED BY <1>3, <1>4, <1>5, <1>6, <1>7, <1>8, <1>9, <1>10 DEF OwnerStep

\* Every step of such a goal adds a watchdog only with a new revision.
LEMMA FinishKinds ==
  ASSUME TypeOK, Recurring, [Next]_vars
  PROVE  FinishStep
<1>1. CASE HostStep
  <2>1. PICK i \in DOMAIN conts : Wake(i) \/ Receipt(i) \/ CancelWatchdog(i)
    BY <1>1 DEF HostStep
  <2>2. UNCHANGED <<revision, handler>>
    BY <2>1 DEF Wake, ClaimTicket, Collide, RecoverSuccessor, TicketNoop, RecurringAcquire,
       RecurringBusy, RecurringCleanup, Receipt, CancelWatchdog, goalRow
  <2>3. ~ClaimTicket(i) /\ ~Collide(i) /\ ~RecoverSuccessor(i) /\ ~TicketNoop(i)
    BY DEF Recurring, ClaimTicket, TicketGrants, Claimable, Collide, Collides,
       RecoverSuccessor, TicketNoop
  <2>4. DOMAIN conts' = DOMAIN conts
    <3>1. CASE RecurringAcquire(i) \/ RecurringBusy(i) \/ RecurringCleanup(i)
      BY <3>1 DEF RecurringAcquire, RecurringBusy, RecurringCleanup
    <3>2. CASE Receipt(i) \/ CancelWatchdog(i)
      BY <3>2 DEF Receipt, ReceiptCreated, ReceiptRescheduled, ReceiptNotRescheduled,
         ReceiptConsumed, ReceiptCancelled, ReceiptNotCancelled, ReceiptNotCreated,
         CancelWatchdog, PutRow
    <3> QED BY <2>1, <2>3, <3>1, <3>2 DEF Wake
  <2> QED BY <2>2, <2>4 DEF FinishStep, HandlerMoves
<1>2. CASE CallStep \/ WorldStep \/ UNCHANGED vars
  BY <1>2 DEF CallStep, BeginCall, HeartbeatCall, EndCall, WorldStep, Pass, StartTask, EndTask,
     vars, goalRow, wakeRows, FinishStep, HandlerMoves
<1> QED BY <1>1, <1>2, WorkerFinishStep, OwnerFinishStep DEF Next

\* A watchdog that is not live is through, and stays through.
LEMMA QuietRowsStayQuiet ==
  ASSUME NoLateReports, TypeOK, Recurring, RowsInv, RowsStep, LiveRows = {},
         DOMAIN conts' = DOMAIN conts
  PROVE  LiveRows' = {}
<1>1. \A i \in DOMAIN conts : conts[i] \in Row
  BY ElementOfSeq, LenProperties DEF TypeOK, WakeTypeOK
<1>2. \A i \in DOMAIN conts : conts[i].status \in Ended
  BY <1>1 DEF LiveRows, RowsInv, RowSound, Row, Historical, Ended
<1>3. \A i \in DOMAIN conts' : conts'[i].status \in Ended
  BY <1>2 DEF RowsStep, RowsKept, RowKept, RowsInv, Recurring
<1> QED BY <1>3 DEF LiveRows, Live, Fencing, Reschedule, Cancelling, Ended

\* What a finish_goal in flight found of the watchdogs holds, or it is stale.
THEOREM FinishInvariant ==
  ASSUME Occurrences \subseteq {"interval"}, NoLateReports
  PROVE  Spec => []FinishInv
<1>1. Init => FinishInv
  BY DEF Init, FinishInv, Resting
<1>2. FinishInv /\ TypeOK /\ TypeOK' /\ Recurring /\ RowsInv /\ [Next]_vars => FinishInv'
  <2> SUFFICES ASSUME FinishInv, TypeOK, TypeOK', Recurring, RowsInv, [Next]_vars
               PROVE  FinishInv'
    OBVIOUS
  <2>1. FinishStep /\ RowsStep
    BY FinishKinds, EveryStepKeepsRows
  <2>2. revision \in Nat /\ handler.rev \in Nat /\ handler'.rev \in Nat
    BY DEF TypeOK, GoalTypeOK, ActorTypeOK, HandlerState
  <2>3. CASE revision' = revision + 1
    BY <2>1, <2>2, <2>3 DEF FinishStep, HandlerMoves, FinishInv
  <2>4. CASE revision' = revision
    <3>1. DOMAIN conts' = DOMAIN conts
      BY <2>1, <2>2, <2>4 DEF FinishStep, RowAdded
    <3>2. LiveRows = {} => LiveRows' = {}
      BY <2>1, <3>1, QuietRowsStayQuiet
    <3> QED BY <2>1, <2>2, <2>4, <3>2 DEF FinishStep, HandlerMoves, FinishInv
  <2> QED BY <2>1, <2>3, <2>4 DEF FinishStep
<1> QED BY <1>1, <1>2, TypeCorrect, OnlyRecurring, RowsInvariant, PTL DEF Spec

\* Only the commit of finish_goal ends a goal with one of its outcomes.
LEMMA OnlyFinishEnds ==
  ASSUME TypeOK, [Next]_vars, status = "active", status' \in Outcomes
  PROVE  FinishCommit
<1>1. status' # "active" /\ status' # "cancelled" /\ ~(UNCHANGED vars)
  BY ChoiceAssumption DEF vars, goalRow
<1>2. ~CallStep /\ ~WorldStep
  BY <1>1 DEF CallStep, BeginCall, HeartbeatCall, EndCall, WorldStep, Pass, StartTask,
     EndTask, goalRow
<1>3. ~WorkerStep
  <2>1. ASSUME NEW g, NEW e, NEW T, NEW release, Checkpoint(g, e, T, release) PROVE FALSE
    BY <1>1, <2>1 DEF Checkpoint
  <2>2. ASSUME NEW g, NEW e, NEW T, NEW occ, NEW d,
               Prepare(g, e, T, occ, d) \/ Refresh(g, e, T, occ, d)
        PROVE  FALSE
    BY <1>1, <2>2 DEF Prepare, Refresh
  <2>3. ASSUME NEW g, NEW e, NEW i, NEW d, Expedite(g, e, i, d) PROVE FALSE
    BY <1>1, <2>3 DEF Expedite, goalRow
  <2>4. ASSUME NEW g, NEW e, NEW outcome, FinishStart(g, e, outcome) PROVE FALSE
    BY <1>1, <2>4 DEF FinishStart, goalRow
  <2> QED BY <2>1, <2>2, <2>3, <2>4 DEF WorkerStep
<1>4. ~HostStep
  BY <1>1 DEF HostStep, Wake, ClaimTicket, Collide, RecoverSuccessor, TicketNoop,
     RecurringAcquire, RecurringBusy, RecurringCleanup, Receipt, CancelWatchdog, goalRow
<1>5. CASE OwnerStep
  BY <1>1, <1>5 DEF OwnerStep, CreateGoal, AcquireFree, AcquireStale, CancelStart, Cancel,
     CloseGoal, Reconcile, Observe, FinishMark, CancelMark, HandlerStops, goalRow
<1> QED BY <1>1, <1>2, <1>3, <1>4, <1>5 DEF Next

\* finish_goal is three transactions, between which workers, wakes, the host
\* and another owner go on: a goal under recurring watchdogs is still never
\* recorded as finished while one of them could fire.
THEOREM NoWatchdogOutlivesFinish ==
  ASSUME Occurrences \subseteq {"interval"}, NoLateReports
  PROVE  Spec => FinishLeavesNoWatchdog
<1>1. FinishInv /\ TypeOK /\ [Next]_vars
      => [status = "active" /\ status' \in Outcomes => LiveRows = {}]_vars
  <2> SUFFICES ASSUME FinishInv, TypeOK, [Next]_vars, status = "active", status' \in Outcomes
               PROVE  LiveRows = {}
    OBVIOUS
  <2>1. FinishCommit
    BY OnlyFinishEnds
  <2>2. handler.stage = "finish" /\ handler.rev = revision
    BY <2>1 DEF FinishCommit, Finish, FinishAllowed, MutableLease
  <2> QED BY <2>2 DEF FinishInv
<1> QED BY <1>1, FinishInvariant, TypeCorrect, PTL DEF Spec, FinishLeavesNoWatchdog

\* Whoever marks, cancels, wakes or reports on a recurring watchdog in native
\* cleanup, it stays in cleanup until the host proves its task gone.
THEOREM CleanupLastsUntilProved ==
  ASSUME Occurrences \subseteq {"interval"}, NoLateReports
  PROVE  Spec => CleanupUntilProved
<1> DEFINE Stays == \A i \in DOMAIN conts :
                      conts[i].native /\ conts[i].status \in Cancelling /\ conts'[i] # conts[i]
                        => conts'[i].status \in Cancelling \cup {"cancelled"}
<1>1. TypeOK /\ Recurring /\ RowsInv /\ [Next]_vars => [Stays]_vars
  BY EveryStepKeepsRows DEF RowsStep, RowsKept, RowKept, RowsInv, Recurring, InCleanup
<1> QED BY <1>1, TypeCorrect, OnlyRecurring, RowsInvariant, PTL
        DEF Spec, CleanupUntilProved
-----------------------------------------------------------------------------
(* The handoff: whoever renews the lease has read the one live row.        *)

\* A prepared row added where none is live leaves one live row.
LEMMA AddedRowOneLive ==
  ASSUME NEW row \in Row, conts \in Seq(Row), LiveRows = {}, conts' = Append(conts, row)
  PROVE  OneLive(conts')
<1>1. /\ Len(conts) \in Nat /\ DOMAIN conts = 1 .. Len(conts)
      /\ DOMAIN conts' = 1 .. Len(conts) + 1
      /\ \A j \in 1 .. Len(conts) : conts'[j] = conts[j]
  BY AppendProperties, LenProperties
<1>2. \A j \in DOMAIN conts' : conts'[j].status \in Live => j = Len(conts) + 1
  BY <1>1 DEF LiveRows
<1> QED BY <1>2 DEF OneLive

\* A worker's step leaves at most one live row.
LEMMA WorkerOneLive ==
  ASSUME TypeOK, OneLive(conts), WorkerStep
  PROVE  OneLive(conts')
<1>1. PICK g \in 1 .. gen, e \in 0 .. revision :
        \/ \E T \in SUBSET Started, release \in BOOLEAN : Checkpoint(g, e, T, release)
        \/ \E T \in SUBSET Started, occ \in Occurrences, d \in DueDelays :
             Prepare(g, e, T, occ, d) \/ Refresh(g, e, T, occ, d)
        \/ \E i \in DOMAIN conts, d \in ExpediteDelays : Expedite(g, e, i, d)
        \/ \E outcome \in Outcomes : FinishStart(g, e, outcome)
  BY DEF WorkerStep
<1>2. conts \in Seq(Row) /\ clock \in Nat
  BY DEF TypeOK, WakeTypeOK, ActorTypeOK
<1>3. ASSUME NEW T, NEW occ \in Occurrences, NEW d \in DueDelays, Prepare(g, e, T, occ, d)
      PROVE  OneLive(conts')
  <2>1. NewRow(occ, clock + d, 0) \in Row
    BY <1>2, NewRowType, ChoiceAssumption, TickAssumption
  <2>2. LiveRows = {} /\ conts' = Append(conts, NewRow(occ, clock + d, 0))
    BY <1>3 DEF Prepare
  <2> QED BY <1>2, <2>1, <2>2, AddedRowOneLive
<1>4. ASSUME NEW T, NEW occ, NEW d \in DueDelays, Refresh(g, e, T, occ, d)
      PROVE  OneLive(conts')
  <2> DEFINE row == [conts[LiveRow] EXCEPT !.status = "reschedule_required",
                                           !.pending = clock + d]
  <2>1. LiveRow \in DOMAIN conts /\ conts[LiveRow].status \in Live
    BY <1>4 DEF Refresh, LiveRows, LiveRow
  <2>2. conts' = conts \/ conts' = [conts EXCEPT ![LiveRow] = row]
    BY <1>4 DEF Refresh
  <2> HIDE DEF row
  <2>3. DOMAIN conts' = DOMAIN conts /\ \A j \in DOMAIN conts : j # LiveRow => conts'[j] = conts[j]
    BY <1>2, <2>2
  <2> QED BY <2>1, <2>3 DEF OneLive
<1>5. ASSUME NEW i, NEW d, Expedite(g, e, i, d)
      PROVE  OneLive(conts')
  BY <1>5 DEF Expedite, PutRow
<1>6. ASSUME NEW T, NEW release, Checkpoint(g, e, T, release)
      PROVE  UNCHANGED conts
  BY <1>6 DEF Checkpoint, wakeRows
<1>7. ASSUME NEW outcome, FinishStart(g, e, outcome)
      PROVE  UNCHANGED conts
  BY <1>7 DEF FinishStart, wakeRows
<1>8. UNCHANGED conts => OneLive(conts')
  BY DEF OneLive
<1> QED BY <1>1, <1>3, <1>4, <1>5, <1>6, <1>7, <1>8

\* Every step leaves at most one live row.
LEMMA EveryStepOneLive ==
  ASSUME TypeOK, OneLive(conts), [Next]_vars
  PROVE  OneLive(conts')
<1>1. UNCHANGED conts => OneLive(conts')
  BY DEF OneLive
<1>2. CASE CallStep
  BY <1>1, <1>2 DEF CallStep, BeginCall, HeartbeatCall, EndCall, wakeRows
<1>3. CASE OwnerStep
  <2>1. CASE CreateGoal \/ AcquireFree \/ AcquireStale \/ Reconcile \/ HandlerStops
    BY <1>1, <2>1 DEF CreateGoal, AcquireFree, AcquireStale, Reconcile, HandlerStops, wakeRows
  <2>2. ASSUME NEW e, CancelStart(e)
        PROVE  UNCHANGED conts
    BY <2>2 DEF CancelStart, Cancel, wakeRows
  <2>3. ASSUME NEW trustworthy, Observe(trustworthy)
        PROVE  UNCHANGED conts
    BY <2>3 DEF Observe, wakeRows
  <2>4. CASE FinishMark \/ CancelMark
    BY <1>1, <2>4 DEF FinishMark, CancelMark, MarkGoalFinished, PutRow
  <2>5. CASE FinishCommit
    BY <1>1, <2>5 DEF FinishCommit, Finish, wakeRows
  <2> QED BY <1>1, <1>3, <2>1, <2>2, <2>3, <2>4, <2>5 DEF OwnerStep
<1>4. CASE HostStep
  <2>1. PICK i \in DOMAIN conts : Wake(i) \/ Receipt(i) \/ CancelWatchdog(i)
    BY <1>4 DEF HostStep
  <2>2. CASE Receipt(i) \/ CancelWatchdog(i)
    BY <2>2 DEF Receipt, ReceiptCreated, ReceiptRescheduled, ReceiptNotRescheduled,
       ReceiptConsumed, ReceiptCancelled, ReceiptNotCancelled, ReceiptNotCreated,
       CancelWatchdog, PutRow
  <2>3. CASE ClaimTicket(i)
    BY <2>3 DEF ClaimTicket
  <2>4. CASE Collide(i)
    BY <2>4 DEF Collide
  <2>5. CASE RecoverSuccessor(i)
    BY <2>5 DEF RecoverSuccessor
  <2>6. CASE TicketNoop(i)
    BY <2>6 DEF TicketNoop, PutRow
  <2>7. CASE RecurringAcquire(i) \/ RecurringBusy(i) \/ RecurringCleanup(i)
    BY <1>1, <2>7 DEF RecurringAcquire, RecurringBusy, RecurringCleanup
  <2> QED BY <2>1, <2>2, <2>3, <2>4, <2>5, <2>6, <2>7 DEF Wake
<1>5. CASE WorldStep
  BY <1>1, <1>5 DEF WorldStep, Pass, StartTask, EndTask, wakeRows
<1>6. CASE UNCHANGED vars
  BY <1>1, <1>6 DEF vars, wakeRows
<1> QED BY <1>2, <1>3, <1>4, <1>5, <1>6, WorkerOneLive DEF Next

\* idx_goal_scheduled_continuations_one_live: a goal never has two live rows.
THEOREM OneLiveRow == Spec => []OneLive(conts)
<1>1. Init => OneLive(conts)
  BY DEF Init, OneLive
<1>2. OneLive(conts) /\ TypeOK /\ [Next]_vars => OneLive(conts)'
  BY EveryStepOneLive DEF OneLive
<1> QED BY <1>1, <1>2, TypeCorrect, PTL DEF Spec

\* A lease whose term a step ends, shortens or leaves alone.
NotRenewed == lease'.exp <= lease.exp

\* A step after which the lease stops at the live row, unless a retime of that
\* row has failed.
RenewalStops ==
  \A i \in LiveRows' : conts'[i].status # "reschedule_failed" => StopsAt(i)

\* A step that renews the lease and keeps the rows stops at the live one.
LEMMA RenewalOfLiveRow ==
  ASSUME TypeOK, OneLive(conts), NEW i \in LiveRows, UNCHANGED conts,
         conts[i].occ = "once" /\ conts[i].status # "reschedule_failed"
           => lease'.exp <= HandoffDue(conts[i])
  PROVE  RenewalStops
<1>1. LiveRows' = LiveRows
  BY DEF LiveRows
<1>2. \A j \in LiveRows' : j = i
  BY <1>1 DEF LiveRows, OneLive
<1> QED BY <1>2 DEF RenewalStops, StopsAt

\* The earlier of two times is not after the second.
LEMMA EarlierBound ==
  ASSUME NEW s \in Nat, NEW t \in Nat
  PROVE  Earlier(s, t) <= t /\ Earlier(s, t) <= s
BY DEF Earlier

\* A worker renews its lease up to the handoff of the live row.
LEMMA WorkerRenewalStops ==
  ASSUME TypeOK, OneLive(conts), WorkerStep
  PROVE  NotRenewed \/ RenewalStops
<1>1. PICK g \in 1 .. gen, e \in 0 .. revision :
        \/ \E T \in SUBSET Started, release \in BOOLEAN : Checkpoint(g, e, T, release)
        \/ \E T \in SUBSET Started, occ \in Occurrences, d \in DueDelays :
             Prepare(g, e, T, occ, d) \/ Refresh(g, e, T, occ, d)
        \/ \E i \in DOMAIN conts, d \in ExpediteDelays : Expedite(g, e, i, d)
        \/ \E outcome \in Outcomes : FinishStart(g, e, outcome)
  BY DEF WorkerStep
<1>2. /\ conts \in Seq(Row) /\ clock \in Nat /\ clock + LeaseTicks \in Nat
      /\ lease.exp \in Nat
  <2>1. lease \in Lease /\ LeaseTicks \in Nat
    BY TickAssumption DEF TypeOK, GoalTypeOK
  <2> QED BY <2>1 DEF TypeOK, WakeTypeOK, ActorTypeOK, Lease
<1>3. ASSUME NEW i \in DOMAIN conts
      PROVE  EffectiveDue(conts[i]) \in Nat /\ conts[i].occ \in {"once", "interval"}
  <2>1. conts[i] \in Row
    BY <1>2, ElementOfSeq, LenProperties
  <2> QED BY <2>1, RowFields DEF Row
<1>4. ASSUME NEW T, NEW release \in BOOLEAN, Checkpoint(g, e, T, release)
      PROVE  NotRenewed \/ RenewalStops
  <2>1. UNCHANGED conts /\ (lease' = NoLease \/ RenewLease(CheckpointExpiry))
    BY <1>4, Zenon DEF Checkpoint, wakeRows
  <2>2. CASE lease' = NoLease
    BY <1>2, <2>2 DEF NoLease, NotRenewed
  <2>3. CASE RenewLease(CheckpointExpiry) /\ LiveRows = {}
    BY <2>1, <2>3 DEF RenewalStops, StopsAt, LiveRows
  <2>4. CASE RenewLease(CheckpointExpiry) /\ LiveRows # {}
    <3>1. LiveRow \in LiveRows /\ LiveRow \in DOMAIN conts
      BY <2>4 DEF LiveRows, LiveRow
    <3>2. lease'.exp = CheckpointExpiry
      BY <2>4 DEF RenewLease
    <3>3. conts[LiveRow].occ = "once" => lease'.exp <= EffectiveDue(conts[LiveRow])
      BY <1>2, <1>3, <2>4, <3>1, <3>2, EarlierBound DEF CheckpointExpiry
    <3> QED BY <2>1, <3>1, <3>3, RenewalOfLiveRow DEF HandoffDue
  <2> QED BY <2>1, <2>2, <2>3, <2>4
<1>5. ASSUME NEW T, NEW occ \in Occurrences, NEW d \in DueDelays, Prepare(g, e, T, occ, d)
      PROVE  RenewalStops
  <2> DEFINE row == NewRow(occ, clock + d, 0)
  <2>1. clock + d \in Nat
    BY <1>2, TickAssumption
  <2>2. row \in Row
    BY <2>1, NewRowType, ChoiceAssumption
  <2>3. row.occ = occ /\ HandoffDue(row) = clock + d
    BY DEF NewRow, HandoffDue, EffectiveDue
  <2>4. conts' = Append(conts, row) /\ LiveRows = {}
    BY <1>5 DEF Prepare
  <2>5. occ = "once" => lease'.exp <= clock + d
    BY <1>2, <1>5, <2>1, EarlierBound DEF Prepare, RenewLease
  <2> HIDE DEF row
  <2>6. /\ Len(conts) \in Nat /\ DOMAIN conts = 1 .. Len(conts)
        /\ DOMAIN conts' = 1 .. Len(conts) + 1
        /\ \A j \in 1 .. Len(conts) : conts'[j] = conts[j]
        /\ conts'[Len(conts) + 1] = row
    BY <1>2, <2>2, <2>4, AppendProperties, LenProperties
  <2>7. \A j \in LiveRows' : conts'[j] = row
    BY <2>4, <2>6 DEF LiveRows
  <2> QED BY <2>3, <2>5, <2>7 DEF RenewalStops, StopsAt
<1>6. ASSUME NEW T, NEW occ \in Occurrences, NEW d \in DueDelays, Refresh(g, e, T, occ, d)
      PROVE  RenewalStops
  <2>1. PICK i \in DOMAIN conts : i = LiveRow /\ i \in LiveRows
    BY <1>6 DEF Refresh, LiveRows, LiveRow
  <2>2. lease'.exp = RefreshExpiry(conts[i], occ, d)
    BY <1>6, <2>1 DEF Refresh, RenewLease
  <2>3. clock + d \in Nat /\ clock + d # NoTime
    BY <1>2, TickAssumption DEF NoTime
  <2>4. conts[i] \in Row
    BY <1>2, ElementOfSeq, LenProperties
  <2>5. CASE Retimes(conts[i], occ, d)
    <3> DEFINE row == [conts[i] EXCEPT !.status = "reschedule_required", !.pending = clock + d]
    <3>1. row.occ = conts[i].occ /\ row.status = "reschedule_required" /\ row.pending = clock + d
      BY <2>4 DEF Row
    <3>2. conts' = [conts EXCEPT ![i] = row]
      BY <1>6, <2>1, <2>5 DEF Refresh
    <3> HIDE DEF row
    <3>3. HandoffDue(row) = clock + d
      BY <2>3, <3>1 DEF HandoffDue, EffectiveDue
    <3>4. lease'.exp <= clock + d
      <4>1. conts[i].occ = "once"
        BY <2>5 DEF Retimes
      <4> QED BY <1>2, <2>2, <2>3, <2>5, <4>1, EarlierBound DEF RefreshExpiry
    <3>5. DOMAIN conts' = DOMAIN conts /\ conts'[i] = row
          /\ \A j \in DOMAIN conts : j # i => conts'[j] = conts[j]
      BY <1>2, <3>2
    <3>6. \A j \in LiveRows' : j = i
      BY <2>1, <3>5 DEF LiveRows, OneLive
    <3> QED BY <3>3, <3>4, <3>5, <3>6 DEF RenewalStops, StopsAt
  <2>6. CASE ~Retimes(conts[i], occ, d)
    <3>1. UNCHANGED conts
      BY <1>6, <2>1, <2>6 DEF Refresh
    <3>2. conts[i].occ = "once" => lease'.exp <= EffectiveDue(conts[i])
      BY <1>2, <1>3, <2>2, <2>6, EarlierBound DEF RefreshExpiry
    <3> QED BY <2>1, <3>1, <3>2, RenewalOfLiveRow DEF HandoffDue
  <2> QED BY <2>5, <2>6
<1>7. ASSUME NEW i, NEW d, Expedite(g, e, i, d)
      PROVE  NotRenewed
  BY <1>2, <1>7 DEF Expedite, goalRow, NotRenewed
<1>8. ASSUME NEW outcome, FinishStart(g, e, outcome)
      PROVE  NotRenewed
  BY <1>2, <1>8 DEF FinishStart, goalRow, NotRenewed
<1> QED BY <1>1, <1>4, <1>5, <1>6, <1>7, <1>8

\* A fenced call renews the lease up to the handoff of the live row.
LEMMA CallRenewalStops ==
  ASSUME TypeOK, OneLive(conts), CallStep
  PROVE  NotRenewed \/ RenewalStops
<1>1. /\ conts \in Seq(Row) /\ clock \in Nat /\ clock + LeaseTicks \in Nat
      /\ lease.exp \in Nat
  <2>1. lease \in Lease /\ LeaseTicks \in Nat
    BY TickAssumption DEF TypeOK, GoalTypeOK
  <2> QED BY <2>1 DEF TypeOK, WakeTypeOK, ActorTypeOK, Lease
<1>2. ASSUME NEW g, FenceRenewal(g), UNCHANGED conts
      PROVE  RenewalStops
  <2>1. PICK i \in DOMAIN conts : i = FenceRow /\ conts[i].status \in Fencing
    BY <1>2 DEF FenceRenewal, FenceRows, FenceRow
  <2>2. i \in LiveRows
    BY <2>1 DEF LiveRows, Live
  <2>3. conts[i] \in Row
    BY <1>1, ElementOfSeq, LenProperties
  <2>4. HandoffDue(conts[i]) \in Nat
    BY <2>3, RowFields DEF HandoffDue, EffectiveDue
  <2>5. lease'.exp = FenceExpiry(conts[i])
    BY <1>2, <2>1 DEF FenceRenewal, RenewLease
  <2>6. conts[i].occ = "once" => lease'.exp <= HandoffDue(conts[i])
    BY <1>1, <2>4, <2>5, EarlierBound DEF FenceExpiry
  <2> QED BY <1>2, <2>2, <2>6, RenewalOfLiveRow
<1>3. ASSUME NEW g, NEW id, BeginCall(g, id)
      PROVE  RenewalStops
  BY <1>2, <1>3 DEF BeginCall, wakeRows
<1>4. ASSUME NEW c, HeartbeatCall(c)
      PROVE  RenewalStops
  BY <1>2, <1>4 DEF HeartbeatCall, wakeRows
<1>5. ASSUME NEW c, EndCall(c)
      PROVE  NotRenewed
  BY <1>1, <1>5 DEF EndCall, goalRow, NotRenewed
<1> QED BY <1>3, <1>4, <1>5 DEF CallStep

\* A wake grants the goal anew, or does not renew its lease.
LEMMA HostRenewsNothing ==
  ASSUME TypeOK, HostStep
  PROVE  gen' # gen \/ NotRenewed
<1>1. PICK i \in DOMAIN conts : Wake(i) \/ Receipt(i) \/ CancelWatchdog(i)
  BY DEF HostStep
<1>2. gen \in Nat /\ lease \in Lease /\ lease.exp \in Nat /\ clock \in Nat
  BY DEF TypeOK, GoalTypeOK, ActorTypeOK, Lease
<1>3. CASE ClaimTicket(i) \/ RecurringAcquire(i)
  BY <1>2, <1>3 DEF ClaimTicket, RecurringAcquire, Grant
<1>4. CASE TicketNoop(i) \/ RecurringBusy(i) \/ RecurringCleanup(i) \/ Receipt(i)
           \/ CancelWatchdog(i)
  BY <1>2, <1>4 DEF TicketNoop, RecurringBusy, RecurringCleanup, Receipt, CancelWatchdog,
     goalRow, NotRenewed
<1>5. CASE Collide(i) \/ RecoverSuccessor(i)
  <2>1. PICK due : CapLease(due)
    BY <1>5 DEF Collide, RecoverSuccessor
  <2>2. lease' = [lease EXCEPT !.exp = Earlier(lease.exp, due)] \/ lease' = lease
    BY <2>1 DEF CapLease
  <2>3. TypeOK'
    BY <1>1, <1>5, WakeType DEF Wake
  <2>4. lease'.exp \in Nat
    BY <2>3 DEF TypeOK, GoalTypeOK, Lease
  <2>5. lease' = [lease EXCEPT !.exp = Earlier(lease.exp, due)] => NotRenewed
    BY <1>2, <2>4 DEF Lease, Earlier, NotRenewed
  <2> QED BY <1>2, <2>2, <2>5 DEF NotRenewed
<1> QED BY <1>1, <1>3, <1>4, <1>5 DEF Wake

\* Whoever renews the lease in a step, it stops at the handoff to the live
\* row, unless a retime of that row has failed.
LEMMA StepRenewalStops ==
  ASSUME TypeOK, TypeOK', OneLive(conts), [Next]_vars
  PROVE  RenewalStops
<1>1. lease.exp \in Nat /\ lease'.exp \in Nat /\ gen \in Nat
  BY DEF TypeOK, GoalTypeOK, Lease
<1>2. NotRenewed \/ gen' # gen => RenewalStops
  BY <1>1 DEF NotRenewed, RenewalStops, StopsAt
<1>3. CASE OwnerStep
  <2>1. CreateGoal \/ AcquireFree \/ AcquireStale => gen' # gen
    BY <1>1 DEF CreateGoal, AcquireFree, AcquireStale, Grant
  <2>2. \A e : CancelStart(e) => lease' = lease \/ lease' = NoLease
    BY DEF CancelStart, Cancel, CloseGoal
  <2>3. \A trustworthy : Observe(trustworthy) => lease' = lease
    BY DEF Observe, goalRow
  <2>4. Reconcile \/ FinishCommit => lease' = NoLease
    BY DEF Reconcile, FinishCommit, Finish, CloseGoal
  <2>5. FinishMark \/ CancelMark \/ HandlerStops => lease' = lease
    BY DEF FinishMark, CancelMark, HandlerStops, goalRow
  <2>6. lease' = lease \/ lease' = NoLease \/ gen' # gen
    BY <1>3, <2>1, <2>2, <2>3, <2>4, <2>5 DEF OwnerStep
  <2> QED BY <1>1, <1>2, <2>6 DEF NoLease, NotRenewed
<1>4. CASE WorldStep \/ UNCHANGED vars
  BY <1>1, <1>2, <1>4 DEF WorldStep, Pass, StartTask, EndTask, vars, goalRow, NotRenewed
<1> QED BY <1>2, <1>3, <1>4, WorkerRenewalStops, CallRenewalStops, HostRenewsNothing DEF Next

\* mutationFenceDueAt and checkpointLeaseExpiry: whoever renews the lease stops
\* at the handoff to the live one-time ticket, in every step, unless the host
\* has failed to retime that ticket.
THEOREM LeasesStopAtHandoff == Spec => LeaseStopsAtHandoff
<1>1. TypeOK /\ TypeOK' /\ OneLive(conts) /\ [Next]_vars => RenewalStops
  BY StepRenewalStops
<1> QED BY <1>1, TypeCorrect, OneLiveRow, PTL DEF Spec, LeaseStopsAtHandoff, RenewalStops

\* Without a failed retime, the lease always stops at the live ticket.
THEOREM RenewalsStopAtHandoff ==
  ASSUME NoFailedRetime
  PROVE  Spec => RenewalStopsAtHandoff
<1>1. /\ TypeOK /\ TypeOK' /\ RowsInv /\ RowsInv' /\ OneLive(conts) /\ [Next]_vars
      => \A i \in LiveRows' : StopsAt(i)
  BY StepRenewalStops DEF RenewalStops, RowsInv, RowSound, LiveRows
<1> QED BY <1>1, TypeCorrect, RowsInvariant, OneLiveRow, PTL DEF Spec, RenewalStopsAtHandoff
=============================================================================
