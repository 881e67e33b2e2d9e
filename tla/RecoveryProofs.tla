--------------------------- MODULE RecoveryProofs ----------------------------
(***************************************************************************)
(* An abandoned goal is woken in time.  What the last worker leaves behind *)
(* is no younger than its departure, so once the silence shows a claim is  *)
(* granted; until then, and for one repetition and the firings the host    *)
(* loses, the next firing is bounded from the departure on.                *)
(***************************************************************************)
EXTENDS GoalRecovery, GoalProofs

-----------------------------------------------------------------------------
(* What is true of both kinds of watchdog.                                *)

HostTypeOK ==
  /\ present \in BOOLEAN /\ left \in Nat
  /\ fired \in [1 .. MaxConts -> Nat]
  /\ woken \in Nat /\ lost \in 0 .. MaxLost

\* Only workers and wakes touch the goal, and it stays active.
UnderWay == status = "active" /\ gen \in Nat \ {0} /\ handler = Resting

\* Lease and calls end no later than their terms from when somebody was there.
SilentSince(t) ==
  /\ lease.hb <= t /\ lease.exp <= t + LeaseTicks
  /\ \A c \in calls : c.exp <= t + CallTicks

\* An observation is made in the instant of its claim, so it shows what is
\* there, unless a worker has left in the same instant.
ObservedNow ==
  /\ woken = 0 => obs = NoObs
  /\ obs.set /\ Abandoned /\ left < clock
       => tracked \subseteq obs.inactive /\ (obs.idle \/ clock < left + CallTicks)

\* The row whose firing has still to be answered.
WokenRow == woken # 0 => woken \in DOMAIN conts /\ conts[woken].status = "scheduled"

RecoveryInv ==
  /\ TypeOK /\ HostTypeOK /\ UnderWay
  /\ left <= clock
  /\ SilentSince(clock)
  /\ ~present => SilentSince(left)
  /\ ObservedNow

-----------------------------------------------------------------------------
(* The recurring watchdog.                                                *)

Recurs == conts[1].occ = "interval"

\* Its one row never changes.
OneRow ==
  /\ Len(conts) = 1
  /\ conts[1].status = "scheduled" /\ HostConfirmed(conts[1])
  /\ conts[1].due \in 1 .. IntervalTicks

Span(n) == n * IntervalTicks

\* The firings that were lost or have been answered, and the time by which the
\* next one is.
Answered == IF woken = 0 THEN fired[1] ELSE fired[1] - 1
NextDue  == conts[1].due + Span(Answered)

\* The run of the last occurrence is recorded, so the next firing may be taken
\* for its repetition.
LastRecorded == \E r \in runs : r.cont = 1 /\ r.tick + 1 = Answered
Repetitions  == IF LastRecorded THEN 0 ELSE 1

\* The firing that may still be in vain because the silence does not show.
LastVain == left + (SilenceShows - 1) + EarlyTol

FiresInTime ==
  /\ woken \in {0, 1} /\ (woken = 1 => fired[1] # 0)
  /\ clock <= NextDue
  /\ woken = 1 => NextDue <= clock + EarlyTol
  /\ Answered # 0 => NextDue <= clock + EarlyTol + IntervalTicks
  /\ \A r \in runs : r.tick < Answered
  /\ Abandoned => NextDue <= LastVain + IntervalTicks + Span(lost + Repetitions)

RecurringInv == Recurs => OneRow /\ FiresInTime

-----------------------------------------------------------------------------
(* One-time tickets.                                                      *)

\* All but the last ticket are through, the last one has still to be answered.
LastTicket ==
  LET n == Len(conts) IN
  /\ n \in 1 .. MaxConts
  /\ \A i \in 1 .. n : conts[i].occ = "once"
  /\ \A i \in 1 .. n - 1 : conts[i].status \in {"claimed", "superseded"} /\ fired[i] # 0
  /\ conts[n].status \in {"prepared", "scheduled"}
  /\ conts[n].status = "scheduled" => HostConfirmed(conts[n])
  /\ conts[n].status = "prepared" => ~HostConfirmed(conts[n]) /\ woken = 0
  /\ woken \in {0, n}
  /\ \A i \in n .. MaxConts : fired[i] = IF i = woken THEN 1 ELSE 0

TicketInTime ==
  LET due == conts[Len(conts)].due IN
  /\ clock <= due
  /\ woken # 0 => due <= clock + EarlyTol
  /\ due <= clock + CollisionMax
  /\ Abandoned => due <= left + (LeaseTicks - 1) + CollisionMax

TicketInv == ~Recurs => LastTicket /\ TicketInTime
-----------------------------------------------------------------------------
(* Types.                                                                 *)

\* The constants are numbers, the terms and the interval positive ones.
LEMMA RecoveryConstants ==
  /\ LeaseTicks \in Nat \ {0} /\ CallTicks \in Nat \ {0} /\ CallTicks <= LeaseTicks
  /\ StaleGrace \in Nat /\ EarlyTol \in Nat /\ EarlyTol <= IntervalTicks
  /\ IntervalTicks \in Nat \ {0} /\ CollisionMax \in Nat \ {0} /\ CollisionMin \in Nat \ {0}
  /\ ClaimDelay \in Nat \ {0} /\ ClaimDelay <= CollisionMax
  /\ MaxLost \in Nat /\ MaxConts \in Nat \ {0}
BY TickAssumption, BoundAssumption, CallAssumption, RecoveryAssumption

\* What the session, the host and the workers do to the goal are steps of the
\* repository, save that an observation may be dropped.
LEMMA RecoveryStepType ==
  ASSUME TypeOK, UnderWay, WokenRow,
         [RecoveryNext]_recoveryVars
  PROVE  TypeOK'
<1>1. (obs' = NoObs /\ UNCHANGED <<goalRow, wakeRows, calls, world, handler>>) => TypeOK'
  BY RestType DEF TypeOK, GoalTypeOK, WakeTypeOK, ActorTypeOK, goalRow, wakeRows, world
<1>2. gen \in 1 .. gen /\ revision \in 0 .. revision
  BY DEF UnderWay, TypeOK, GoalTypeOK
<1>3. Works => Next
  BY <1>2 DEF Works, Next, WorkerStep, CallStep
<1>4. TaskEnds => Next
  BY DEF TaskEnds, Next, WorldStep
<1>5. SessionObserves => Next
  BY DEF SessionObserves, Next, OwnerStep
<1>6. SessionClaims => Next
  BY DEF WokenRow, SessionClaims, Next, HostStep
<1>7. SessionReports => Next
  BY DEF SessionReports, Next, HostStep, Receipt
<1>8. TimePasses => Next
  BY DEF TimePasses, Next, WorldStep
<1>9. Leaves \/ (\E i \in DOMAIN conts : Fires(i)) => UNCHANGED vars
  BY DEF Leaves, Fires
<1>10. SessionReturns \/ [Next]_vars
  BY <1>3, <1>4, <1>5, <1>6, <1>7, <1>8, <1>9 DEF RecoveryNext, recoveryVars
<1> QED BY <1>1, <1>10, NextType DEF SessionReturns

\* A recovery begins with rows, a goal and a host of their types.
LEMMA RecoveryInitType == RecoveryInit => TypeOK /\ HostTypeOK /\ UnderWay
<1> SUFFICES ASSUME RecoveryInit PROVE TypeOK /\ HostTypeOK /\ UnderWay
  OBVIOUS
<1>1. PICK occ \in Occurrences, d \in DueDelays, T \in SUBSET Tasks :
        /\ clock = 0
        /\ status = "active" /\ revision = 1 /\ gen = 1 /\ seq = 0
        /\ lease = [held |-> TRUE, hb |-> 0,
                    exp |-> IF occ = "once" THEN Earlier(LeaseTicks, d) ELSE LeaseTicks]
        /\ tracked = T /\ tasks = [k \in Tasks |-> IF k \in T THEN "running" ELSE "new"]
        /\ journal = <<1>> /\ grants = <<[by |-> 0, tick |-> 0]>>
        /\ calls = {} /\ runs = {} /\ obs = NoObs /\ handler = Resting
        /\ conts = <<FirstWatchdog(occ, d)>>
        /\ HostInit
  BY DEF RecoveryInit
<1>2. d \in Nat /\ occ \in {"once", "interval"} /\ LeaseTicks \in Nat
  BY TickAssumption, ChoiceAssumption
<1>3. FirstWatchdog(occ, d) \in Row
  <2>1. NewRow(occ, d, 0) \in Row
    BY <1>2, NewRowType
  <2>2. "scheduled" \in Live \cup Historical
    BY DEF Live, Fencing
  <2> QED BY <2>1, <2>2 DEF FirstWatchdog, Row
<1>4. conts \in Seq(Row) /\ Len(conts) = 1
  BY <1>1, <1>3
<1>5. lease \in Lease
  BY <1>1, <1>2, TimeChoice DEF Lease
<1>6. GoalTypeOK
  BY <1>1, <1>5 DEF GoalTypeOK
<1>7. ActorTypeOK
  BY <1>1, RestType DEF ActorTypeOK
<1>8. WakeTypeOK
  BY <1>1, <1>4 DEF WakeTypeOK
<1>9. MaxConts \in Nat \ {0} /\ MaxLost \in Nat
  BY RecoveryConstants
<1> QED BY <1>1, <1>4, <1>6, <1>7, <1>8, <1>9 DEF TypeOK, HostTypeOK, HostInit, UnderWay
-----------------------------------------------------------------------------
(* Silence.                                                               *)

\* The hypotheses of each step, in numbers.
LEMMA RecoveryNumbers ==
  ASSUME TypeOK
  PROVE  /\ clock \in Nat /\ lease \in Lease /\ lease.hb \in Nat /\ lease.exp \in Nat
         /\ \A c \in calls : c.exp \in Nat
         /\ gen \in Nat /\ conts \in Seq(Row) /\ DOMAIN conts = 1 .. Len(conts)
         /\ \A i \in DOMAIN conts : conts[i] \in Row /\ conts[i].due \in Nat
<1>1. conts \in Seq(Row) /\ DOMAIN conts = 1 .. Len(conts)
  BY LenProperties DEF TypeOK, WakeTypeOK
<1>2. \A i \in DOMAIN conts : conts[i] \in Row
  BY <1>1, ElementOfSeq
<1>3. \A c \in calls : c \in [id : CallIds, gen : Nat, exp : Nat]
  BY DEF TypeOK, ActorTypeOK
<1>4. \A c \in calls : c.exp \in Nat
  BY <1>3
<1> QED BY <1>1, <1>2, <1>4 DEF TypeOK, GoalTypeOK, ActorTypeOK, Lease, Row

\* Whatever a session writes lasts no longer than its terms.
LEMMA WorksSilently ==
  ASSUME TypeOK, SilentSince(clock), UnderWay, Works
  PROVE  /\ SilentSince(clock)' /\ UnderWay' /\ present
         /\ UNCHANGED <<clock, obs, runs, conts, hostVars>>
<1> USE RecoveryConstants, RecoveryNumbers
<1>1. UNCHANGED hostVars /\ present
  BY DEF Works
<1>2. ASSUME NEW T, NEW release \in BOOLEAN, Checkpoint(gen, revision, T, release)
      PROVE  /\ lease'.hb <= clock /\ lease'.exp <= clock + LeaseTicks
             /\ UNCHANGED <<calls, status, gen, handler, clock, obs, runs, conts>>
  <2>1. UNCHANGED <<calls, status, gen, handler, clock, obs, runs, conts>>
    BY <1>2 DEF Checkpoint, wakeRows, world
  <2>2. CheckpointExpiry <= clock + LeaseTicks
    <3>1. LiveRows # {} => EffectiveDue(conts[LiveRow]) \in Nat
      BY LiveRowType, RowFields DEF TypeOK
    <3> QED BY <3>1 DEF CheckpointExpiry, Earlier
  <2>3. lease' = NoLease \/ (lease'.hb = clock /\ lease'.exp = CheckpointExpiry)
    BY <1>2 DEF Checkpoint, RenewLease
  <2> QED BY <2>1, <2>2, <2>3 DEF NoLease
<1>3. ASSUME NEW g, FenceRenewal(g)
      PROVE  lease'.hb <= clock /\ lease'.exp <= clock + LeaseTicks
  <2>1. HandoffDue(conts[FenceRow]) \in Nat
    BY <1>3, FenceRowType, RowFields DEF FenceRenewal, TypeOK
  <2>2. FenceExpiry(conts[FenceRow]) <= clock + LeaseTicks
    BY <2>1 DEF FenceExpiry, Earlier
  <2>3. lease'.hb = clock /\ lease'.exp = FenceExpiry(conts[FenceRow])
    BY <1>3 DEF FenceRenewal, RenewLease
  <2> QED BY <2>2, <2>3
<1>4. ASSUME NEW id, BeginCall(gen, id)
      PROVE  SilentSince(clock)' /\ UNCHANGED <<status, gen, handler, clock, obs, runs, conts>>
  BY <1>3, <1>4 DEF BeginCall, SilentSince, world, wakeRows
<1>5. ASSUME NEW c \in calls, HeartbeatCall(c)
      PROVE  SilentSince(clock)' /\ UNCHANGED <<status, gen, handler, clock, obs, runs, conts>>
  <2>1. c \in [id : CallIds, gen : Nat, exp : Nat]
    BY DEF TypeOK, ActorTypeOK
  <2> DEFINE longer == [c EXCEPT !.exp = clock + CallTicks]
  <2>2. longer.exp = clock + CallTicks
    BY <2>1
  <2>3. calls' = (calls \ {c}) \cup {longer} /\ FenceRenewal(c.gen)
    BY <1>5 DEF HeartbeatCall
  <2> HIDE DEF longer
  <2>4. \A d \in calls' : d.exp <= clock + CallTicks
    BY <2>2, <2>3 DEF SilentSince
  <2> QED BY <1>3, <1>5, <2>3, <2>4 DEF HeartbeatCall, SilentSince, world, wakeRows
<1>6. ASSUME NEW c, EndCall(c)
      PROVE  SilentSince(clock)' /\ UNCHANGED <<status, gen, handler, clock, obs, runs, conts>>
  BY <1>6 DEF EndCall, SilentSince, goalRow, world, wakeRows
<1> QED BY <1>1, <1>2, <1>4, <1>5, <1>6 DEF Works, SilentSince, UnderWay

\* What a claim makes of the goal.
LEMMA ClaimKinds ==
  ASSUME TypeOK, WokenRow, UnderWay, SessionClaims
  PROVE  /\ \/ ClaimTicket(woken) \/ Collide(woken)
            \/ RecurringAcquire(woken) \/ RecurringBusy(woken)
         /\ woken \in DOMAIN conts /\ conts[woken].status = "scheduled"
BY DEF SessionClaims, Wake, WokenRow, UnderWay, RecoverSuccessor, TicketNoop, RecurringCleanup,
   Cancelling

\* A claim that grants nothing leaves what the last worker has left.
LEMMA ClaimsSilently ==
  ASSUME TypeOK, present \in BOOLEAN, WokenRow, UnderWay, SilentSince(clock), SessionClaims
  PROVE  /\ SilentSince(clock)' /\ UnderWay'
         /\ obs' = NoObs /\ woken' = 0
         /\ UNCHANGED <<clock, tracked, tasks, left, fired, lost>>
         /\ present' \/ (~present /\ lease'.hb <= lease.hb /\ lease'.exp <= lease.exp)
         /\ calls' = calls /\ (present => present')
<1> USE RecoveryConstants, RecoveryNumbers
<1>1. /\ woken' = 0 /\ UNCHANGED <<left, fired, lost>>
      /\ present' = (present \/ gen' > gen)
  BY DEF SessionClaims
<1>2. lease'.exp \in Nat /\ lease'.hb \in Nat /\ gen' \in Nat
  <2>1. TypeOK'
    BY WakeType, ClaimKinds DEF Wake
  <2> QED BY <2>1 DEF TypeOK, GoalTypeOK, Lease
<1>3. CASE ClaimTicket(woken) \/ RecurringAcquire(woken)
  <2>1. PICK i, t, exp : Grant(i, t, exp) /\ (exp = clock + LeaseTicks
                                                \/ \E due : exp = Earlier(clock + LeaseTicks, due))
    BY <1>3 DEF ClaimTicket, RecurringAcquire
  <2>2. gen' = gen + 1 /\ lease' = [held |-> TRUE, hb |-> clock, exp |-> exp]
    BY <2>1 DEF Grant
  <2>3. lease'.hb = clock /\ lease'.exp = exp
    BY <2>2
  <2>4. exp <= clock + LeaseTicks
    BY <1>2, <2>1, <2>3 DEF Earlier
  <2>5. obs' = NoObs /\ UNCHANGED <<status, calls, handler, clock, tracked, tasks>>
    BY <1>3 DEF ClaimTicket, RecurringAcquire, world
  <2>6. gen' > gen /\ gen' \in Nat \ {0}
    BY <2>2
  <2>7. present'
    BY <1>1, <2>6, Zenon
  <2>8. SilentSince(clock)'
    BY <2>3, <2>4, <2>5 DEF SilentSince
  <2> QED BY <1>1, <2>5, <2>6, <2>7, <2>8 DEF UnderWay
<1>4. CASE Collide(woken)
  <2>1. PICK due : CapLease(due)
    BY <1>4 DEF Collide
  <2>2. /\ obs' = NoObs
        /\ UNCHANGED <<status, gen, calls, handler, clock, tracked, tasks>>
    BY <1>4 DEF Collide, world
  <2>3. lease'.hb = lease.hb /\ (lease'.exp = lease.exp \/ lease'.exp = Earlier(lease.exp, due))
    BY <2>1 DEF CapLease, Lease
  <2>4. lease'.exp <= lease.exp
    BY <1>2, <2>3 DEF Earlier
  <2>5. present' = present
    BY <1>1, <2>2
  <2>6. SilentSince(clock)'
    BY <1>2, <2>2, <2>3, <2>4 DEF SilentSince
  <2> QED BY <1>1, <2>2, <2>3, <2>4, <2>5, <2>6 DEF UnderWay
<1>5. CASE RecurringBusy(woken)
  <2>1. /\ obs' = NoObs
        /\ UNCHANGED <<status, gen, lease, calls, handler, clock, tracked, tasks>>
    BY <1>5 DEF RecurringBusy, goalRow, world
  <2>2. present' = present
    BY <1>1, <2>1
  <2> QED BY <1>1, <2>1, <2>2 DEF SilentSince, UnderWay
<1> QED BY <1>3, <1>4, <1>5, ClaimKinds

\* Who leaves, leaves nothing younger than the departure.
LEMMA RecoveryInvInit == RecoveryInit => RecoveryInv
<1> SUFFICES ASSUME RecoveryInit PROVE RecoveryInv
  OBVIOUS
<1>1. TypeOK /\ HostTypeOK /\ UnderWay
  BY RecoveryInitType
<1>2. clock = 0 /\ left = 0 /\ present = TRUE /\ calls = {} /\ obs = NoObs /\ lease.hb = 0
  BY DEF RecoveryInit, HostInit
<1>3. lease.exp <= LeaseTicks
  <2>1. PICK occ \in Occurrences, d \in DueDelays :
          lease = [held |-> TRUE, hb |-> 0,
                   exp |-> IF occ = "once" THEN Earlier(LeaseTicks, d) ELSE LeaseTicks]
    BY DEF RecoveryInit
  <2>2. d \in Nat /\ LeaseTicks \in Nat
    BY TickAssumption
  <2> QED BY <2>1, <2>2 DEF Earlier
<1> QED BY <1>1, <1>2, <1>3, RecoveryConstants DEF RecoveryInv, SilentSince, ObservedNow, NoObs

\* Only a step of a session that works, or a grant, writes anything new.
LEMMA RecoveryInvStep ==
  ASSUME RecoveryInv, WokenRow, [RecoveryNext]_recoveryVars
  PROVE  RecoveryInv'
<1> USE RecoveryConstants, RecoveryNumbers DEF RecoveryInv
<1>1. TypeOK'
  BY RecoveryStepType
<1>2. clock' \in Nat
  BY <1>1 DEF TypeOK, ActorTypeOK
<1>3. present \in BOOLEAN /\ left \in Nat
  BY DEF HostTypeOK
<1>4. CASE Works
  <2>1. /\ SilentSince(clock)' /\ UnderWay' /\ present
        /\ UNCHANGED <<clock, obs, hostVars>>
    BY <1>4, WorksSilently
  <2> QED BY <1>1, <2>1 DEF hostVars, HostTypeOK, ObservedNow, Abandoned
<1>5. CASE Leaves
  <2>1. /\ present' = FALSE /\ left' = clock
        /\ UNCHANGED <<lease, calls, status, gen, handler, clock, obs, fired, woken, lost>>
    BY <1>5 DEF Leaves, vars, goalRow, world
  <2>2. left' \in Nat /\ left' = clock'
    BY <2>1
  <2>5. HostTypeOK' /\ UnderWay'
    BY <2>1, <2>2 DEF HostTypeOK, UnderWay
  <2>3. SilentSince(clock)' /\ SilentSince(left)'
    BY <2>1 DEF SilentSince
  <2>4. ObservedNow'
    BY <2>1, <2>2 DEF ObservedNow
  <2> QED BY <1>1, <2>2, <2>3, <2>4, <2>5
<1>6. CASE TaskEnds
  <2>1. PICK k \in Tasks : /\ EndTask(k)
                           /\ left' = IF k \in tracked /\ ~present THEN clock ELSE left
    BY <1>6 DEF TaskEnds
  <2>2. UNCHANGED <<lease, calls, status, gen, handler, clock, obs, tracked, present, fired, woken, lost>>
    BY <1>6, <2>1 DEF TaskEnds, EndTask, goalRow
  <2>3. Running \subseteq Running' \cup {k}
    BY <2>1 DEF EndTask, Running, TypeOK, ActorTypeOK
  <2>4. Abandoned' /\ left' < clock' => Abandoned /\ left' = left
    BY <1>3, <2>1, <2>2, <2>3 DEF Abandoned
  <2>5. ObservedNow'
    BY <2>2, <2>4 DEF ObservedNow
  <2>6. left' <= clock' /\ left' \in Nat /\ (left' = left \/ left' = clock)
    BY <1>3, <2>1, <2>2
  <2>7. SilentSince(clock)' /\ (~present' => SilentSince(left)')
    BY <2>2, <2>6 DEF SilentSince
  <2> QED BY <1>1, <2>2, <2>5, <2>6, <2>7 DEF HostTypeOK, UnderWay
<1>7. ASSUME NEW i \in DOMAIN conts, Fires(i)
      PROVE  RecoveryInv'
  <2>1. /\ woken = 0 /\ fired' = [fired EXCEPT ![i] = @ + 1]
        /\ UNCHANGED <<lease, calls, status, gen, handler, clock, obs, tracked, tasks, present, left>>
        /\ \/ woken' = i /\ UNCHANGED lost
           \/ lost < MaxLost /\ lost' = lost + 1 /\ UNCHANGED woken
    BY <1>7 DEF Fires, vars, goalRow, world
  <2>2. HostTypeOK'
    <3>1. Len(conts) \in Nat /\ i \in Nat
      BY LenProperties
    <3>2. fired' \in [1 .. MaxConts -> Nat]
      <4>1. \A j \in 1 .. MaxConts : fired[j] \in Nat /\ fired[j] + 1 \in Nat
        BY DEF HostTypeOK
      <4>2. DOMAIN fired = 1 .. MaxConts
        BY DEF HostTypeOK
      <4> QED BY <2>1, <4>1, <4>2
    <3>3. lost' \in 0 .. MaxLost
      BY <2>1 DEF HostTypeOK
    <3> QED BY <2>1, <3>1, <3>2, <3>3 DEF HostTypeOK
  <2>3. obs = NoObs
    BY <2>1 DEF ObservedNow
  <2> QED BY <1>1, <2>1, <2>2, <2>3 DEF UnderWay, SilentSince, ObservedNow, NoObs
<1>8. CASE SessionObserves
  <2>1. /\ woken # 0
        /\ UNCHANGED <<lease, calls, status, gen, handler, clock, tracked, tasks>>
        /\ UNCHANGED hostVars
    BY <1>8 DEF SessionObserves, Observe, goalRow, world
  <2>2. obs'.inactive = tracked \ Running /\ obs'.idle = (LiveCalls = {})
    BY <1>8 DEF SessionObserves, Observe
  <2>3. ASSUME Abandoned, LiveCalls # {}
        PROVE  clock < left + CallTicks
    BY <1>3, <2>3 DEF Abandoned, LiveCalls, SilentSince
  <2>4. Abandoned => tracked \subseteq obs'.inactive
    BY <2>2 DEF Abandoned
  <2>5. ObservedNow'
    BY <2>1, <2>2, <2>3, <2>4 DEF ObservedNow, Abandoned, Running, hostVars
  <2> QED BY <1>1, <2>1, <2>5 DEF HostTypeOK, UnderWay, SilentSince, hostVars
<1>9. CASE SessionClaims
  <2>1. /\ SilentSince(clock)' /\ UnderWay'
        /\ obs' = NoObs /\ woken' = 0
        /\ UNCHANGED <<clock, tracked, tasks, left, fired, lost>>
        /\ present' \/ (~present /\ lease'.hb <= lease.hb /\ lease'.exp <= lease.exp)
        /\ calls' = calls
    BY <1>3, <1>9, ClaimsSilently
  <2>2. ~present' => SilentSince(left)'
    <3>1. lease'.hb \in Nat /\ lease'.exp \in Nat
      BY <1>1 DEF TypeOK, GoalTypeOK, Lease
    <3> QED BY <1>3, <2>1, <3>1 DEF SilentSince
  <2>3. present' \in BOOLEAN
    BY <1>9 DEF SessionClaims
  <2> QED BY <1>1, <2>1, <2>2, <2>3 DEF HostTypeOK, ObservedNow, NoObs
<1>10. CASE SessionReturns
  <2>1. /\ woken' = 0 /\ obs' = NoObs
        /\ UNCHANGED <<lease, calls, status, gen, handler, clock, present, left, fired, lost>>
    BY <1>10 DEF SessionReturns, goalRow, world
  <2> QED BY <1>1, <2>1 DEF HostTypeOK, UnderWay, SilentSince, ObservedNow, NoObs
<1>11. CASE SessionReports
  <2>1. /\ UNCHANGED <<lease, calls, status, gen, handler, clock, obs, tracked, tasks>>
        /\ UNCHANGED hostVars
    BY <1>11 DEF SessionReports, goalRow, world
  <2> QED BY <1>1, <2>1 DEF HostTypeOK, UnderWay, SilentSince, ObservedNow, Abandoned, Running, hostVars
<1>12. CASE TimePasses
  <2>1. /\ woken = 0 /\ clock' = clock + 1
        /\ UNCHANGED <<lease, calls, status, gen, handler, obs>>
        /\ UNCHANGED hostVars
    BY <1>12 DEF TimePasses, Pass, goalRow
  <2>2. obs = NoObs
    BY <2>1 DEF ObservedNow
  <2>3. SilentSince(clock)' /\ (~present' => SilentSince(left)')
    BY <1>3, <2>1 DEF SilentSince, hostVars
  <2>4. HostTypeOK' /\ UnderWay' /\ left' <= clock'
    BY <1>3, <2>1 DEF HostTypeOK, UnderWay, hostVars
  <2>5. ObservedNow'
    BY <2>1, <2>2 DEF ObservedNow, NoObs, hostVars
  <2> QED BY <1>1, <2>3, <2>4, <2>5
<1>13. CASE UNCHANGED recoveryVars
  BY <1>1, <1>13 DEF recoveryVars, vars, goalRow, world, HostTypeOK, UnderWay, SilentSince,
     ObservedNow, Abandoned, Running
<1> QED BY <1>4, <1>5, <1>6, <1>7, <1>8, <1>9, <1>10, <1>11, <1>12, <1>13 DEF RecoveryNext

\* Once the calls of an abandoned goal are over, a claim sees that nobody works.
LEMMA SilenceIsSeen ==
  ASSUME RecoveryInv, Abandoned, obs.set, left < clock, left + CallTicks <= clock
  PROVE  ConfirmedInactive
BY RecoveryConstants, RecoveryNumbers DEF RecoveryInv, ObservedNow, ConfirmedInactive, HostTypeOK

-----------------------------------------------------------------------------
(* Times that are multiples of the interval.                              *)

\* Intervals add up.
LEMMA Spans ==
  /\ Span(0) = 0 /\ Span(1) = IntervalTicks
  /\ \A n \in Nat : Span(n) \in Nat /\ Span(n + 1) = Span(n) + IntervalTicks
  /\ \A m, n \in Nat : m <= n => Span(m) <= Span(n)
<1>1. IntervalTicks \in Nat \ {0}
  BY RecoveryConstants
<1>2. \A n \in Nat : Span(n) \in Nat /\ Span(n + 1) = Span(n) + IntervalTicks
  BY <1>1 DEF Span
<1>3. ASSUME NEW m \in Nat, NEW n \in Nat, m <= n
      PROVE  Span(m) <= Span(n)
  <2>1. n - m \in Nat /\ (n - m) * IntervalTicks \in Nat
    BY <1>1, <1>3
  <2>2. Span(n) = Span(m) + (n - m) * IntervalTicks
    BY <1>1, <1>3, <2>1 DEF Span
  <2> QED BY <1>2, <2>1, <2>2
<1>4. Span(0) = 0 /\ Span(1) = IntervalTicks
  BY <1>1 DEF Span
<1> QED BY <1>2, <1>3, <1>4

\* recurringRunKey of a firing at the n-th occurrence or less than an interval
\* before it is n or n - 1.
LEMMA RunKeys ==
  ASSUME NEW c \in Row, NEW n \in Nat, clock \in Nat
  PROVE  /\ clock <= c.due + Span(n) => Tick(c) <= n
         /\ c.due + Span(n) <= clock + EarlyTol => n <= Tick(c) + 1
<1> DEFINE q == (clock - c.due) \div IntervalTicks
<1>1. c.due \in Nat /\ IntervalTicks \in Nat \ {0} /\ EarlyTol \in Nat /\ EarlyTol <= IntervalTicks
  BY RecoveryConstants DEF Row
<1>2. CASE clock < c.due
  <2>1. Tick(c) = 0
    BY <1>2 DEF Tick
  <2>2. ASSUME c.due + Span(n) <= clock + EarlyTol, 2 <= n
        PROVE  FALSE
    <3>1. Span(1) = IntervalTicks /\ Span(1) <= Span(n)
      BY <2>2, Spans
    <3>2. Span(n) \in Nat
      BY Spans
    <3> QED BY <1>1, <1>2, <2>2, <3>1, <3>2
  <2> QED BY <2>1, <2>2
<1>3. CASE c.due <= clock
  <2>1. clock - c.due \in Nat /\ q \in Nat /\ Tick(c) = q
    <3>1. clock - c.due \in Nat
      BY <1>1, <1>3
    <3>2. q \in Nat
      BY <1>1, <3>1, Z3
    <3> QED BY <1>1, <1>3, <3>1, <3>2 DEF Tick
  <2>2. q * IntervalTicks <= clock - c.due /\ clock - c.due < (q + 1) * IntervalTicks
    BY <1>1, <2>1, Z3
  <2>3. Span(q) <= clock - c.due /\ clock - c.due < Span(q + 1)
    BY <2>2 DEF Span
  <2> HIDE DEF q
  <2>4. ASSUME clock <= c.due + Span(n)
        PROVE  q <= n
    <3>1. n + 1 <= q => Span(n + 1) <= Span(q)
      BY <2>1, Spans
    <3>2. Span(n + 1) = Span(n) + IntervalTicks /\ Span(n) \in Nat /\ Span(q) \in Nat
      BY <2>1, Spans
    <3> QED BY <1>1, <2>1, <2>3, <2>4, <3>1, <3>2
  <2>5. ASSUME c.due + Span(n) <= clock + EarlyTol
        PROVE  n <= q + 1
    <3>1. q + 2 <= n => Span(q + 2) <= Span(n)
      BY <2>1, Spans
    <3>2. Span(q + 2) = Span(q + 1) + IntervalTicks /\ Span(q + 2) \in Nat /\ Span(q + 1) \in Nat
      <4>1. q + 1 \in Nat /\ (q + 1) + 1 = q + 2
        BY <2>1
      <4> QED BY <2>1, <4>1, Spans
    <3>3. Span(n) \in Nat
      BY Spans
    <3>4. q + 2 <= n => Span(q + 1) <= clock - c.due
      BY <1>1, <2>5, <3>1, <3>2, <3>3
    <3> QED BY <1>1, <2>1, <2>3, <3>2, <3>4
  <2> QED BY <2>1, <2>4, <2>5
<1> QED BY <1>1, <1>2, <1>3

-----------------------------------------------------------------------------
(* The recurring watchdog is answered in time.                            *)

\* It is one row that no step of a recovery changes.
LEMMA RowStays ==
  ASSUME RecoveryInv, Recurs, OneRow, woken \in {0, 1}, [RecoveryNext]_recoveryVars
  PROVE  UNCHANGED conts /\ WokenRow
<1> USE DEF RecoveryInv
<1>1. DOMAIN conts = {1}
  BY RecoveryNumbers DEF OneRow
<1>2. WokenRow
  BY <1>1 DEF WokenRow, OneRow
<1>3. Works => UNCHANGED conts
  BY WorksSilently
<1>4. SessionClaims => UNCHANGED conts
  <2>1. ASSUME SessionClaims PROVE woken = 1
    BY <2>1 DEF SessionClaims
  <2>2. SessionClaims => RecurringAcquire(1) \/ RecurringBusy(1)
    BY <1>2, <2>1, ClaimKinds DEF Recurs, ClaimTicket, TicketGrants, Claimable, Collide, Collides
  <2> QED BY <2>2 DEF RecurringAcquire, RecurringBusy
<1>5. ~SessionReports
  BY <1>1 DEF SessionReports, OneRow
<1> QED BY <1>2, <1>3, <1>4, <1>5 DEF RecoveryNext, recoveryVars, vars, wakeRows, Leaves, TaskEnds,
      EndTask, Fires, SessionObserves, Observe, SessionReturns, TimePasses, Pass

\* The numbers the next steps count with.
LEMMA RecurringNumbers ==
  ASSUME RecoveryInv, Recurs, OneRow, FiresInTime
  PROVE  /\ clock \in Nat /\ left \in Nat /\ lost \in 0 .. MaxLost /\ left <= clock
         /\ conts[1] \in Row /\ conts[1].due \in 1 .. IntervalTicks
         /\ fired[1] \in Nat /\ 1 \in 1 .. MaxConts /\ Answered \in Nat /\ Repetitions \in {0, 1}
         /\ Span(Answered) \in Nat /\ NextDue \in Nat
         /\ SilenceShows \in Nat \ {0} /\ CallTicks <= SilenceShows
         /\ LastVain \in Nat
         /\ \A r \in runs : r.tick \in Nat
<1> USE RecoveryConstants DEF RecoveryInv
<1>1. clock \in Nat /\ conts[1] \in Row
  BY RecoveryNumbers DEF OneRow
<1>2. left \in Nat /\ lost \in 0 .. MaxLost /\ fired \in [1 .. MaxConts -> Nat]
  BY DEF HostTypeOK
<1>3. 1 \in 1 .. MaxConts /\ fired[1] \in Nat
  BY <1>2
<1>4. Answered \in Nat
  BY <1>3 DEF Answered, FiresInTime
<1>5. Span(Answered) \in Nat
  BY <1>4, Spans
<1>6. conts[1].due \in 1 .. IntervalTicks /\ NextDue \in Nat
  BY <1>5 DEF OneRow, NextDue
<1>7. SilenceShows \in Nat \ {0} /\ CallTicks <= SilenceShows
  BY DEF SilenceShows, Later, Earlier
<1>8. LastVain \in Nat
  BY <1>2, <1>7 DEF LastVain
<1>9. \A r \in runs : r \in [cont : Nat, tick : Nat, gen : Nat]
  BY DEF TypeOK, WakeTypeOK
<1>10. \A r \in runs : r.tick \in Nat
  BY <1>9
<1> QED BY <1>1, <1>2, <1>3, <1>4, <1>5, <1>6, <1>7, <1>8, <1>10 DEF Repetitions

\* A goal that has just been abandoned has a firing within the next interval.
LEMMA NextDueOfDeparture ==
  ASSUME RecoveryInv, Recurs, OneRow, FiresInTime
  PROVE  NextDue <= clock + EarlyTol + IntervalTicks
<1> USE RecoveryConstants, RecurringNumbers
<1>1. CASE Answered = 0
  <2>1. Span(Answered) = 0
    BY <1>1, Spans
  <2>2. NextDue = conts[1].due
    BY <2>1 DEF NextDue
  <2> QED BY <2>2
<1>2. CASE Answered # 0
  BY <1>2 DEF FiresInTime
<1> QED BY <1>1, <1>2

\* Steps of others: nothing is fired or answered, and whoever leaves now has
\* the next firing ahead.
LEMMA OthersInTime ==
  ASSUME RecoveryInv, Recurs, OneRow, FiresInTime,
         UNCHANGED <<conts, runs, fired, woken, lost, clock>>,
         Abandoned' => (Abandoned /\ left' = left) \/ left' = clock
  PROVE  FiresInTime'
<1> USE RecoveryConstants, RecurringNumbers
<1>1. UNCHANGED <<Answered, NextDue, LastRecorded, Repetitions>>
  BY DEF Answered, NextDue, LastRecorded, Repetitions
<1>2. ASSUME left' = clock
      PROVE  NextDue <= LastVain' + IntervalTicks + Span(lost + Repetitions)
  <2>1. LastVain' = clock + (SilenceShows - 1) + EarlyTol
    BY <1>2 DEF LastVain
  <2>2. Span(lost + Repetitions) \in Nat
    <3>1. lost + Repetitions \in Nat
      OBVIOUS
    <3> QED BY <3>1, Spans
  <2> QED BY <2>1, <2>2, NextDueOfDeparture
<1>3. left' = left => LastVain' = LastVain
  BY DEF LastVain
<1>4. Abandoned' => NextDue' <= LastVain' + IntervalTicks + Span(lost + Repetitions)'
  <2>1. Span(lost + Repetitions)' = Span(lost + Repetitions)
    BY <1>1
  <2> QED BY <1>1, <1>2, <1>3, <2>1 DEF FiresInTime
<1> QED BY <1>1, <1>4 DEF FiresInTime

\* The native task fires, or would have and is lost.
LEMMA FiresItsTask ==
  ASSUME RecoveryInv, Recurs, OneRow, FiresInTime, Fires(1)
  PROVE  FiresInTime'
<1> USE RecoveryConstants, RecurringNumbers
<1>1. /\ woken = 0 /\ UNCHANGED <<conts, runs, clock, left>> /\ Abandoned' = Abandoned
      /\ fired' = [fired EXCEPT ![1] = fired[1] + 1]
      /\ \/ woken' = 1 /\ lost' = lost
         \/ woken' = 0 /\ lost' = lost + 1
  BY DEF Fires, vars, goalRow, wakeRows, world, Abandoned, Running
<1>2. fired'[1] = fired[1] + 1 /\ Answered = fired[1]
  BY <1>1 DEF RecoveryInv, HostTypeOK, Answered
<1>3. NextDue <= clock + EarlyTol
  <2>1. NextFiring(1) = NextDue
    BY <1>2 DEF NextFiring, NextDue, Span
  <2>2. clock + EarlyTol >= NextFiring(1)
    BY DEF Fires
  <2> QED BY <2>1, <2>2
<1>4. CASE woken' = 1 /\ lost' = lost
  <2>1. Answered' = Answered
    BY <1>2, <1>4 DEF Answered
  <2>2. UNCHANGED <<NextDue, LastRecorded, Repetitions, LastVain>>
    BY <1>1, <2>1 DEF NextDue, LastRecorded, Repetitions, LastVain
  <2>3. Span(lost + Repetitions)' = Span(lost + Repetitions)
    BY <1>4, <2>2
  <2> QED BY <1>1, <1>2, <1>3, <1>4, <2>1, <2>2, <2>3 DEF FiresInTime
<1>5. CASE woken' = 0 /\ lost' = lost + 1
  <2>1. Answered' = Answered + 1
    BY <1>2, <1>5 DEF Answered
  <2>2. NextDue' = NextDue + IntervalTicks /\ LastVain' = LastVain
    <3>1. Span(Answered)' = Span(Answered) + IntervalTicks
      BY <2>1, Spans DEF Span
    <3>2. conts[1].due' = conts[1].due /\ LastVain' = LastVain
      BY <1>1 DEF LastVain
    <3> QED BY <3>1, <3>2 DEF NextDue
  <2>3. \A r \in runs' : r.tick < Answered /\ r.tick < Answered'
    BY <1>1, <2>1 DEF FiresInTime
  <2>4. Repetitions' = 1
    <3>1. \A r \in runs' : r.tick + 1 # Answered'
      BY <1>1, <2>1, <2>3
    <3> QED BY <3>1 DEF Repetitions, LastRecorded
  <2>5. Span(lost + Repetitions)' >= Span(lost + Repetitions) + IntervalTicks
    <3>1. lost + Repetitions \in Nat /\ lost + 2 \in Nat /\ lost + Repetitions + 1 \in Nat
          /\ lost + Repetitions + 1 <= lost + 2
      OBVIOUS
    <3>2. Span(lost + Repetitions)' = Span(lost + 2)
      BY <1>5, <2>4 DEF Span
    <3>3. Span(lost + Repetitions + 1) <= Span(lost + 2)
      BY <3>1, Spans
    <3>4. Span(lost + Repetitions + 1) = Span(lost + Repetitions) + IntervalTicks
      BY <3>1, Spans
    <3> QED BY <3>2, <3>3, <3>4
  <2>6. Span(lost + Repetitions) \in Nat /\ Span(lost + Repetitions)' \in Nat
    <3>1. lost + Repetitions \in Nat /\ lost + 2 \in Nat
      OBVIOUS
    <3> QED BY <1>5, <2>4, <3>1, Spans DEF Span
  <2>7. Abandoned' => NextDue' <= LastVain' + IntervalTicks + Span(lost + Repetitions)'
    BY <1>1, <2>2, <2>5, <2>6 DEF FiresInTime
  <2> QED BY <1>1, <1>3, <1>5, <2>1, <2>2, <2>3, <2>7 DEF FiresInTime
<1> QED BY <1>1, <1>4, <1>5

\* A firing is answered: the goal is taken, the silence does not show yet, or
\* the firing passes for a repetition of the one before it.
LEMMA AnswersInTime ==
  ASSUME RecoveryInv, Recurs, OneRow, FiresInTime, woken = 1, woken' = 0,
         UNCHANGED <<conts, fired, lost, clock, left>>,
         \/ runs' = runs
         \/ \E g : runs' = runs \cup {[cont |-> 1, tick |-> Tick(conts[1]), gen |-> g]},
         Abandoned' => /\ Abandoned
                       /\ \/ clock < left + SilenceShows
                          \/ runs' = runs /\ RunRecorded(1)
  PROVE  FiresInTime'
<1> USE RecoveryConstants, RecurringNumbers
<1>1. Answered' = Answered + 1
  BY DEF Answered
<1>2. NextDue' = NextDue + IntervalTicks /\ LastVain' = LastVain
  <2>1. Span(Answered)' = Span(Answered) + IntervalTicks
    BY <1>1, Spans DEF Span
  <2>2. conts[1].due' = conts[1].due /\ LastVain' = LastVain
    BY DEF LastVain
  <2> QED BY <2>1, <2>2 DEF NextDue
<1>3. NextDue <= clock + EarlyTol
  BY DEF FiresInTime
<1>4. Tick(conts[1]) <= Answered /\ Answered <= Tick(conts[1]) + 1 /\ Tick(conts[1]) \in Nat
  BY <1>3, RunKeys, TickType DEF FiresInTime, NextDue
<1>5. \A r \in runs' : r.tick < Answered'
  BY <1>1, <1>4 DEF FiresInTime
<1>6. Repetitions' \in {0, 1} /\ lost \in Nat /\ lost + Repetitions \in Nat
  BY DEF Repetitions
<1>7. Span(lost + Repetitions) \in Nat /\ Span(lost + Repetitions)' \in Nat
  <2>1. lost + Repetitions' \in Nat
    BY <1>6
  <2>2. Span(lost + Repetitions)' = Span(lost + Repetitions')
    BY DEF Span
  <2> QED BY <1>6, <2>1, <2>2, Spans
<1>8. ASSUME Abandoned, clock < left + SilenceShows
      PROVE  NextDue' <= LastVain' + IntervalTicks + Span(lost + Repetitions)'
  <2>1. NextDue <= LastVain
    BY <1>3, <1>8 DEF LastVain
  <2> QED BY <1>2, <1>7, <2>1
<1>9. ASSUME Abandoned, runs' = runs, RunRecorded(1)
      PROVE  NextDue' <= LastVain' + IntervalTicks + Span(lost + Repetitions)'
  <2>1. PICK r \in runs : r.cont = 1 /\ r.tick = Tick(conts[1])
    BY <1>9 DEF RunRecorded
  <2>2. r.tick + 1 = Answered
    BY <1>4, <2>1 DEF FiresInTime
  <2>3. Repetitions = 0
    BY <2>1, <2>2 DEF Repetitions, LastRecorded
  <2>4. Repetitions' = 1
    <3>1. \A q \in runs' : q.tick < Answered /\ q.tick + 1 # Answered'
      BY <1>1, <1>9 DEF FiresInTime
    <3> QED BY <3>1 DEF Repetitions, LastRecorded
  <2>5. Span(lost + Repetitions)' = Span(lost) + IntervalTicks
    BY <1>6, <2>4, Spans DEF Span
  <2>6. Span(lost + Repetitions) = Span(lost)
    BY <1>6, <2>3
  <2> QED BY <1>2, <1>7, <1>9, <2>5, <2>6 DEF FiresInTime
<1>10. Abandoned' => NextDue' <= LastVain' + IntervalTicks + Span(lost + Repetitions)'
  BY <1>8, <1>9
<1> QED BY <1>1, <1>2, <1>3, <1>5, <1>10 DEF FiresInTime

\* A firing that opens a session is answered by its claim, which is granted
\* once the silence shows, or by its return.
LEMMA ClaimsInTime ==
  ASSUME RecoveryInv, Recurs, OneRow, FiresInTime, SessionClaims \/ SessionReturns
  PROVE  FiresInTime'
<1> USE RecoveryConstants, RecurringNumbers
<1>1. woken = 1 /\ woken' = 0 /\ UNCHANGED conts /\ WokenRow
  <2>1. woken \in {0, 1} /\ woken # 0
    BY DEF FiresInTime, SessionClaims, SessionReturns
  <2>2. [RecoveryNext]_recoveryVars
    BY DEF RecoveryNext
  <2> QED BY <2>1, <2>2, RowStays DEF SessionClaims, SessionReturns
<1>2. CASE SessionClaims
  <2>1. UNCHANGED <<fired, lost, clock, left, tracked, tasks>> /\ (present => present')
    BY <1>1, <1>2, ClaimsSilently DEF RecoveryInv, HostTypeOK
  <2>2. RecurringAcquire(1) \/ RecurringBusy(1)
    BY <1>1, <1>2, ClaimKinds DEF RecoveryInv, Recurs, ClaimTicket, TicketGrants, Claimable,
       Collide, Collides, OneRow
  <2>3. \E g : runs' = runs \cup {[cont |-> 1, tick |-> Tick(conts[1]), gen |-> g]}
    BY <2>2 DEF RecurringAcquire, RecurringBusy, RecordRun
  <2>4. ASSUME Abandoned'
        PROVE  Abandoned /\ clock < left + SilenceShows
    <3>1. ~RecurringAcquire(1)
      <4>1. present' = (present \/ gen' > gen) /\ gen \in Nat
        BY <1>2, RecoveryNumbers DEF SessionClaims, RecoveryInv
      <4>2. RecurringAcquire(1) => gen' = gen + 1
        BY DEF RecurringAcquire, Grant
      <4>3. RecurringAcquire(1) => gen' > gen
        BY <4>1, <4>2
      <4> QED BY <2>4, <4>1, <4>3, Zenon DEF Abandoned
    <3>2. ~RecurringGrants /\ obs.set /\ status' = status
      BY <2>2, <3>1 DEF RecurringBusy, RecurringDue, ObservationCurrent, goalRow
    <3>3. Abandoned
      BY <2>1, <2>4, <3>2 DEF Abandoned, Running
    <3>4. ASSUME left + SilenceShows <= clock
          PROVE  FALSE
      <4>1. ConfirmedInactive
        BY <3>2, <3>3, <3>4, SilenceIsSeen
      <4>2. SilentSince(left) /\ lease.hb \in Nat /\ lease.exp \in Nat
        BY <3>3, RecoveryNumbers DEF RecoveryInv, Abandoned
      <4>3. ASSUME LeaseValid PROVE HeartbeatStale
        <5>1. clock < left + LeaseTicks /\ lease.hb <= left
          BY <4>2, <4>3 DEF SilentSince, LeaseValid
        <5>2. left + StaleGrace <= clock
          BY <3>4, <5>1 DEF SilenceShows, Later, Earlier
        <5> QED BY <4>2, <5>1, <5>2 DEF HeartbeatStale
      <4> QED BY <3>2, <4>1, <4>3 DEF RecurringGrants
    <3> QED BY <3>3, <3>4
  <2> QED BY <1>1, <2>1, <2>3, <2>4, AnswersInTime
<1>3. CASE SessionReturns
  <2>1. /\ UNCHANGED <<runs, fired, lost, clock, left, status, present, tracked, tasks>>
        /\ RunRecorded(1) \/ FiredEarly(conts[1])
    BY <1>1, <1>3 DEF SessionReturns, goalRow, wakeRows, world
  <2>2. ~FiredEarly(conts[1])
    <3>1. NextDue <= clock + EarlyTol
      BY <1>1 DEF FiresInTime
    <3> QED BY <3>1 DEF FiredEarly, NextDue
  <2>3. Abandoned' = Abandoned
    BY <2>1 DEF Abandoned, Running
  <2> QED BY <1>1, <2>1, <2>2, <2>3, AnswersInTime
<1> QED BY <1>2, <1>3

\* Time does not pass a firing that is due.
LEMMA PassInTime ==
  ASSUME RecoveryInv, Recurs, OneRow, FiresInTime, TimePasses
  PROVE  FiresInTime'
<1> USE RecoveryConstants, RecurringNumbers
<1>1. /\ woken = 0 /\ clock' = clock + 1
      /\ UNCHANGED <<conts, runs, fired, woken, lost, left, status, present, tracked, tasks>>
  BY DEF TimePasses, Pass, goalRow, wakeRows, hostVars
<1>2. UNCHANGED <<Answered, NextDue, LastRecorded, Repetitions, LastVain>>
  BY <1>1 DEF Answered, NextDue, LastRecorded, Repetitions, LastVain
<1>3. clock < NextDue
  <2>1. 1 \in DOMAIN conts
    BY RecoveryNumbers DEF RecoveryInv, OneRow
  <2>2. clock < NextFiring(1)
    BY <2>1 DEF TimePasses, WillFire, Recurs, OneRow
  <2>3. NextFiring(1) = NextDue
    BY <1>1 DEF NextFiring, NextDue, Span, Answered
  <2> QED BY <2>2, <2>3
<1>4. Abandoned' = Abandoned /\ Span(lost + Repetitions)' = Span(lost + Repetitions)
  BY <1>1, <1>2 DEF Abandoned, Running
<1> QED BY <1>1, <1>2, <1>3, <1>4 DEF FiresInTime

\* So every step of a recovery by a recurring watchdog is in time.
LEMMA RecurringStep ==
  ASSUME RecoveryInv, Recurs, OneRow, FiresInTime, [RecoveryNext]_recoveryVars
  PROVE  Recurs' /\ OneRow' /\ FiresInTime'
<1> USE RecoveryConstants, RecurringNumbers
<1>1. UNCHANGED conts
  BY RowStays DEF FiresInTime
<1>2. Recurs' /\ OneRow'
  BY <1>1 DEF Recurs, OneRow, HostConfirmed
<1>3. CASE Works
  <2>1. present /\ UNCHANGED <<clock, runs, hostVars>>
    BY <1>3, WorksSilently DEF RecoveryInv
  <2> QED BY <1>1, <1>2, <2>1, OthersInTime DEF hostVars, Abandoned
<1>4. CASE Leaves
  BY <1>1, <1>2, <1>4, OthersInTime DEF Leaves, vars, wakeRows, world
<1>5. CASE TaskEnds
  <2>1. PICK k \in Tasks : /\ EndTask(k)
                           /\ left' = IF k \in tracked /\ ~present THEN clock ELSE left
    BY <1>5 DEF TaskEnds
  <2>2. UNCHANGED <<clock, runs, status, tracked, present, fired, woken, lost>>
    BY <1>5, <2>1 DEF TaskEnds, EndTask, goalRow, wakeRows
  <2>3. Running \subseteq Running' \cup {k}
    BY <2>1 DEF EndTask, Running, RecoveryInv, TypeOK, ActorTypeOK
  <2>4. Abandoned' => (Abandoned /\ left' = left) \/ left' = clock
    BY <2>1, <2>2, <2>3 DEF Abandoned
  <2> QED BY <1>1, <1>2, <2>2, <2>4, OthersInTime
<1>6. CASE \E i \in DOMAIN conts : Fires(i)
  <2>1. Fires(1)
    BY <1>6, RecoveryNumbers DEF RecoveryInv, OneRow
  <2> QED BY <1>2, <2>1, FiresItsTask
<1>7. CASE SessionObserves
  BY <1>1, <1>2, <1>7, OthersInTime DEF SessionObserves, Observe, goalRow, wakeRows, world,
     hostVars, Abandoned, Running
<1>8. CASE SessionClaims \/ SessionReturns
  BY <1>2, <1>8, ClaimsInTime
<1>9. ~SessionReports
  BY RecoveryNumbers DEF RecoveryInv, SessionReports, OneRow
<1>10. CASE TimePasses
  BY <1>2, <1>10, PassInTime
<1>11. CASE UNCHANGED recoveryVars
  BY <1>1, <1>2, <1>11, OthersInTime DEF recoveryVars, vars, goalRow, wakeRows, world,
     Abandoned, Running
<1> QED BY <1>3, <1>4, <1>5, <1>6, <1>7, <1>8, <1>9, <1>10, <1>11 DEF RecoveryNext

-----------------------------------------------------------------------------
(* A ticket and its successors are answered in time.                      *)

\* The numbers the next steps count with.
LEMMA TicketNumbers ==
  ASSUME RecoveryInv, LastTicket
  PROVE  /\ clock \in Nat /\ left \in Nat /\ left <= clock
         /\ Len(conts) \in Nat \ {0} /\ Len(conts) \in 1 .. MaxConts
         /\ DOMAIN conts = 1 .. Len(conts) /\ Len(conts) \in DOMAIN conts
         /\ \A i \in DOMAIN conts : conts[i] \in Row /\ conts[i].due \in Nat
         /\ conts \in Seq(Row) /\ WokenRow /\ ~Recurs
<1>1. Len(conts) \in Nat \ {0} /\ Len(conts) \in 1 .. MaxConts
  BY RecoveryConstants DEF LastTicket
<1>2. clock \in Nat /\ conts \in Seq(Row) /\ DOMAIN conts = 1 .. Len(conts)
      /\ \A i \in DOMAIN conts : conts[i] \in Row /\ conts[i].due \in Nat
  BY RecoveryNumbers DEF RecoveryInv
<1>3. Len(conts) \in DOMAIN conts /\ 1 \in DOMAIN conts
  BY <1>1, <1>2
<1>4. WokenRow
  BY <1>1, <1>3 DEF LastTicket, WokenRow
<1>5. ~Recurs
  BY <1>1, <1>2, <1>3 DEF LastTicket, Recurs
<1> QED BY <1>1, <1>2, <1>3, <1>4, <1>5 DEF RecoveryInv, HostTypeOK

\* Steps of others: the tickets stay, and whoever leaves now has the last one
\* ahead.
LEMMA OthersKeepTickets ==
  ASSUME RecoveryInv, LastTicket, TicketInTime,
         UNCHANGED <<conts, fired, woken, clock>>,
         Abandoned' => (Abandoned /\ left' = left) \/ left' = clock
  PROVE  LastTicket' /\ TicketInTime'
<1>1. LastTicket'
  BY DEF LastTicket, HostConfirmed
<1>2. TicketInTime'
  BY RecoveryConstants, TicketNumbers DEF TicketInTime
<1> QED BY <1>1, <1>2

\* The native task of the last ticket is the only one that may fire.
LEMMA FiresItsTicket ==
  ASSUME RecoveryInv, LastTicket, TicketInTime, NEW i \in DOMAIN conts, Fires(i)
  PROVE  LastTicket' /\ TicketInTime'
<1> USE RecoveryConstants, TicketNumbers
<1>1. i = Len(conts) /\ conts[i].occ = "once" /\ fired[i] = 0 /\ HostConfirmed(conts[i])
  BY DEF Fires, WillFire, LastTicket
<1>2. /\ woken = 0 /\ woken' = i
      /\ fired' = [fired EXCEPT ![i] = fired[i] + 1]
      /\ UNCHANGED <<conts, clock, left, present, status, tracked, tasks>>
  BY <1>1 DEF Fires, vars, goalRow, wakeRows, world
<1>3. conts[i].due <= clock + EarlyTol
  <2>1. NextFiring(i) = conts[i].due
    <3>1. fired[i] * IntervalTicks = 0
      BY <1>1
    <3> QED BY <1>1, <3>1 DEF NextFiring
  <2>2. clock + EarlyTol >= NextFiring(i)
    BY DEF Fires
  <2> QED BY <2>1, <2>2
<1>4. \A j \in 1 .. MaxConts : fired'[j] = IF j = i THEN 1 ELSE fired[j]
  BY <1>1, <1>2 DEF RecoveryInv, HostTypeOK
<1>5. conts[i].status = "scheduled"
  BY <1>1 DEF LastTicket
<1>6. \A j \in i .. MaxConts : fired'[j] = IF j = woken' THEN 1 ELSE 0
  BY <1>1, <1>2, <1>4 DEF LastTicket
<1>7. \A j \in 1 .. i - 1 : fired'[j] # 0
  BY <1>1, <1>4 DEF LastTicket
<1>8. LastTicket'
  BY <1>1, <1>2, <1>5, <1>6, <1>7 DEF LastTicket, HostConfirmed
<1>9. TicketInTime'
  BY <1>1, <1>2, <1>3 DEF TicketInTime, Abandoned, Running
<1> QED BY <1>8, <1>9

\* An answered ticket is retired, and its successor has still to be reported.
LEMMA NextTicket ==
  ASSUME RecoveryInv, LastTicket, woken = Len(conts), woken' = 0, fired' = fired,
         NEW row, NEW next, row.occ = "once", row.status \in {"claimed", "superseded"},
         next.occ = "once", next.status = "prepared", ~HostConfirmed(next),
         Len(conts) < MaxConts, conts' \in Seq(Row), Len(conts') = Len(conts) + 1,
         \A i \in 1 .. Len(conts) - 1 : conts'[i] = conts[i],
         conts'[Len(conts)] = row, conts'[Len(conts) + 1] = next
  PROVE  LastTicket'
<1> USE RecoveryConstants, TicketNumbers
<1>1. PICK n \in Nat : n = Len(conts)
  OBVIOUS
<1>2. \A i \in 1 .. n + 1 : conts'[i].occ = "once"
  BY <1>1 DEF LastTicket
<1>3. \A i \in 1 .. n : conts'[i].status \in {"claimed", "superseded"} /\ fired[i] # 0
  BY <1>1 DEF LastTicket
<1>4. \A i \in n + 1 .. MaxConts : fired[i] = 0
  BY <1>1 DEF LastTicket
<1> QED BY <1>1, <1>2, <1>3, <1>4 DEF LastTicket

\* Rows with a new last one, and rows with one more.
Replaced(after, rows, n, row) ==
  /\ after = [rows EXCEPT ![n] = row]
  /\ Len(after) = n /\ after[n] = row
  /\ \A i \in 1 .. n - 1 : after[i] = rows[i]

Extended(after, rows, n, row) ==
  /\ Len(after) = n + 1 /\ after[n + 1] = row
  /\ \A i \in 1 .. n : after[i] = rows[i]

\* The last row has no successor yet, so the one it reserves is new.
LEMMA NewSuccessor ==
  ASSUME NEW rows \in Seq(Row), NEW n \in Nat \ {0}, Len(rows) = n,
         NEW due \in Nat, Reservable(rows, n)
  PROVE  /\ n < MaxConts
         /\ \E after \in Seq(Row) :
              after = Reserved(rows, n, due) /\ Extended(after, rows, n, NewRow("once", due, n))
<1>1. n < MaxConts /\ ~HasSuccessor(rows, n)
  <2>1. ~HasSuccessor(rows, n)
    BY LenProperties DEF HasSuccessor
  <2> QED BY <2>1 DEF Reservable
<1>2. PICK next \in Row : next = NewRow("once", due, n)
  BY NewRowType
<1>3. PICK after : after = Append(rows, next)
  OBVIOUS
<1>4. after \in Seq(Row) /\ Extended(after, rows, n, next)
  BY <1>3, AppendProperties DEF Extended
<1>5. after = Reserved(rows, n, due)
  BY <1>1, <1>2, <1>3 DEF Reserved
<1> QED BY <1>1, <1>2, <1>4, <1>5

\* The tickets before it stay when the last one is retired.
LEMMA LastReplaced ==
  ASSUME NEW rows \in Seq(Row), NEW n \in Nat \ {0}, Len(rows) = n, NEW row \in Row
  PROVE  \E after \in Seq(Row) : Replaced(after, rows, n, row)
<1>1. PICK after : after = [rows EXCEPT ![n] = row]
  OBVIOUS
<1>2. /\ after \in Seq(Row) /\ Len(after) = n
      /\ \A i \in 1 .. n : after[i] = IF i = n THEN row ELSE rows[i]
  BY <1>1, ExceptSeq
<1>3. after \in Seq(Row) /\ Len(after) = n /\ after[n] = row
      /\ \A i \in 1 .. n - 1 : after[i] = rows[i]
  BY <1>2
<1>4. Replaced(after, rows, n, row)
  BY <1>1, <1>3, Zenon DEF Replaced
<1> QED BY <1>3, <1>4

\* A collision comes back within the longest delay.
LEMMA DelayBound ==
  ASSUME TypeOK, NEW c \in Row, NEW probed \in BOOLEAN
  PROVE  CollisionDelay(c, probed) \in 0 .. CollisionMax
BY RecoveryConstants, CollisionDelayType DEF CollisionDelay, Earlier

\* The claim of a ticket is granted, or it collides while the lease the last
\* worker left may still be valid.
LEMMA TicketClaimsInTime ==
  ASSUME RecoveryInv, LastTicket, TicketInTime, SessionClaims
  PROVE  LastTicket' /\ TicketInTime'
<1>0. /\ clock \in Nat /\ left \in Nat /\ left <= clock
      /\ LeaseTicks \in Nat \ {0} /\ CallTicks \in Nat /\ CallTicks <= LeaseTicks
      /\ ClaimDelay \in Nat /\ CollisionMax \in Nat /\ ClaimDelay <= CollisionMax
      /\ WokenRow /\ ~Recurs
  BY RecoveryConstants, TicketNumbers
<1>1. woken = Len(conts) /\ conts[woken].status = "scheduled" /\ conts[woken].occ = "once"
  BY <1>0, TicketNumbers, ClaimKinds DEF RecoveryInv, LastTicket, SessionClaims
<1>2. PICK n \in Nat \ {0} : Len(conts) = n
  BY TicketNumbers
<1>3. /\ woken' = 0 /\ UNCHANGED <<clock, left, fired, tracked, tasks>>
      /\ present => present'
  BY <1>0, ClaimsSilently DEF RecoveryInv, HostTypeOK
<1>4. conts[n] \in Row /\ conts[n].due \in Nat /\ conts[n].occ = "once" /\ woken = n
      /\ conts \in Seq(Row) /\ n \in DOMAIN conts
  BY <1>1, <1>2, TicketNumbers
<1>5. ClaimTicket(n) \/ Collide(n)
  BY <1>0, <1>1, <1>2, ClaimKinds DEF RecoveryInv, RecurringAcquire, RecurringBusy, RecurringDue
<1>6. CASE ClaimTicket(n)
  <2>1. PICK row : row = [conts[n] EXCEPT !.status = "claimed", !.pending = NoTime, !.probe = NoProbe]
    OBVIOUS
  <2>2. row \in Row /\ row.occ = "once" /\ row.status = "claimed"
    BY <1>4, <2>1 DEF Row, NoTime, NoProbe, Probe, Historical
  <2>3. PICK rows \in Seq(Row) : Replaced(rows, conts, n, row)
    BY <1>2, <1>4, <2>2, LastReplaced
  <2>4. /\ Reservable(rows, n) /\ conts' = Reserved(rows, n, clock + ClaimDelay)
        /\ gen' = gen + 1
    BY <1>6, <2>1, <2>3 DEF ClaimTicket, Grant, Replaced
  <2>5. PICK next : next = NewRow("once", clock + ClaimDelay, n)
    OBVIOUS
  <2>6. /\ n < MaxConts /\ conts' \in Seq(Row) /\ Len(conts') = n + 1
        /\ \A i \in 1 .. n - 1 : conts'[i] = conts[i]
        /\ conts'[n] = row /\ conts'[n + 1] = next
    <3>1. PICK due \in Nat : due = clock + ClaimDelay
      BY <1>0
    <3>2. Len(rows) = n
      BY <2>3 DEF Replaced
    <3>3. n < MaxConts
      BY <2>4, <3>1, <3>2, NewSuccessor
    <3>4. PICK after \in Seq(Row) :
            after = Reserved(rows, n, due) /\ Extended(after, rows, n, NewRow("once", due, n))
      BY <2>4, <3>1, <3>2, NewSuccessor
    <3>5. conts' = after /\ Extended(after, rows, n, next)
      BY <2>4, <2>5, <3>1, <3>4
    <3> QED BY <2>3, <3>3, <3>5 DEF Replaced, Extended
  <2>7. next.occ = "once" /\ next.status = "prepared" /\ ~HostConfirmed(next)
        /\ next.due = clock + ClaimDelay
    BY <2>5 DEF NewRow, HostConfirmed
  <2>8. LastTicket'
    BY <1>1, <1>2, <1>3, <2>2, <2>6, <2>7, NextTicket
  <2>9. ~Abandoned'
    <3>1. present' = (present \/ gen' > gen) /\ gen \in Nat
      BY RecoveryNumbers DEF SessionClaims, RecoveryInv
    <3>2. gen' > gen
      BY <2>4, <3>1
    <3> QED BY <3>1, <3>2, Zenon DEF Abandoned
  <2>10. TicketInTime'
    BY <1>0, <1>3, <2>6, <2>7, <2>9 DEF TicketInTime
  <2> QED BY <2>8, <2>10
<1>7. CASE Collide(n)
  <2>1. PICK c \in Row : c = conts[n]
    BY <1>4
  <2>2. PICK probe \in Probe : probe = CollisionProbe(c)
    BY CollisionProbeType DEF RecoveryInv
  <2>3. PICK delay \in 0 .. CollisionMax : delay = CollisionDelay(c, probe.set)
    BY <2>2, DelayBound DEF RecoveryInv, Probe
  <2>4. PICK row : row = [c EXCEPT !.status = "superseded", !.pending = NoTime,
                                   !.count = Counted(c), !.probe = probe]
    OBVIOUS
  <2>5. row \in Row /\ row.occ = "once" /\ row.status = "superseded"
    <3>1. Counted(c) \in 0 .. 3 /\ c.occ = "once"
      BY <1>4, <2>1 DEF Counted, Row
    <3> QED BY <2>1, <2>4, <3>1 DEF Row, NoTime, Historical
  <2>6. PICK rows \in Seq(Row) : Replaced(rows, conts, n, row)
    BY <1>2, <1>4, <2>5, LastReplaced
  <2>7. PICK after : after = Reserved(rows, n, clock + delay)
    OBVIOUS
  <2>8. /\ Collides(c) /\ Reservable(rows, n)
        /\ conts' = [after EXCEPT ![n + 1] =
                       [after[n + 1] EXCEPT !.count = Counted(c), !.probe = probe]]
        /\ UNCHANGED <<status, gen>>
    BY <1>7, <2>1, <2>2, <2>3, <2>4, <2>6, <2>7 DEF Collide, Replaced
  <2>9. PICK new : new = NewRow("once", clock + delay, n)
    OBVIOUS
  <2>10. /\ n < MaxConts /\ after \in Seq(Row) /\ Len(after) = n + 1
         /\ \A i \in 1 .. n - 1 : after[i] = conts[i]
         /\ after[n] = row /\ after[n + 1] = new
    <3>1. PICK due \in Nat : due = clock + delay
      BY <1>0, <2>3
    <3>2. Len(rows) = n
      BY <2>6 DEF Replaced
    <3>3. n < MaxConts
      BY <2>8, <3>1, <3>2, NewSuccessor
    <3>4. PICK longer \in Seq(Row) :
            longer = Reserved(rows, n, due) /\ Extended(longer, rows, n, NewRow("once", due, n))
      BY <2>8, <3>1, <3>2, NewSuccessor
    <3>5. longer = after /\ Extended(longer, rows, n, new)
      BY <2>7, <2>9, <3>1, <3>4
    <3> QED BY <2>6, <3>3, <3>5 DEF Replaced, Extended
  <2>11. PICK next : next = [new EXCEPT !.count = Counted(c), !.probe = probe]
    OBVIOUS
  <2>12. /\ next \in Row /\ next.occ = "once" /\ next.status = "prepared"
         /\ ~HostConfirmed(next) /\ next.due = clock + delay
    <3>1. Counted(c) \in 0 .. 3
      BY <2>1 DEF Counted, Row
    <3>2. new \in Row
      <4>1. clock + delay \in Nat
        BY <1>0, <2>3
      <4> QED BY <2>9, <4>1, NewRowType
    <3>3. next \in Row
      BY <2>11, <3>1, <3>2 DEF Row
    <3> QED BY <2>9, <2>11, <3>3 DEF NewRow, HostConfirmed
  <2>13. /\ conts' \in Seq(Row) /\ Len(conts') = n + 1
         /\ \A i \in 1 .. n - 1 : conts'[i] = conts[i]
         /\ conts'[n] = row /\ conts'[n + 1] = next
    <3>1. conts' = [after EXCEPT ![n + 1] = next]
      BY <2>8, <2>10, <2>11
    <3>2. /\ conts' \in Seq(Row) /\ Len(conts') = Len(after)
          /\ \A i \in 1 .. n + 1 : conts'[i] = IF i = n + 1 THEN next ELSE after[i]
      BY <2>10, <2>12, <3>1, ExceptSeq
    <3> QED BY <2>10, <3>2
  <2>14. LastTicket'
    BY <1>1, <1>2, <1>3, <2>5, <2>10, <2>12, <2>13, NextTicket
  <2>15. ASSUME Abandoned'
         PROVE  Abandoned /\ clock <= left + (LeaseTicks - 1)
    <3>1. Abandoned
      BY <1>3, <2>8, <2>15 DEF Abandoned, Running
    <3>2. ~FiredEarly(c)
      <4>1. c.due <= clock + EarlyTol
        BY <1>1, <1>2, <1>4, <2>1 DEF TicketInTime
      <4> QED BY <1>0, <1>4, <2>1, <4>1, RecoveryConstants DEF FiredEarly
    <3>3. Claimable(c) /\ obs.set /\ ObservationCurrent /\ ~TicketGrants(c)
      BY <1>1, <1>4, <2>1, <2>8, <3>2 DEF Collides, Claimable, Reschedule, ObservationCurrent
    <3>4. ASSUME left + LeaseTicks <= clock
          PROVE  FALSE
      <4>1. ConfirmedInactive
        BY <1>0, <3>1, <3>3, <3>4, SilenceIsSeen
      <4>2. lease.exp <= left + LeaseTicks /\ lease.exp \in Nat
        BY <3>1, RecoveryNumbers DEF RecoveryInv, Abandoned, SilentSince
      <4>3. ~LeaseValid
        BY <1>0, <3>4, <4>2 DEF LeaseValid
      <4> QED BY <3>2, <3>3, <4>1, <4>3 DEF TicketGrants
    <3> QED BY <1>0, <3>1, <3>4
  <2>16. TicketInTime'
    BY <1>0, <1>3, <2>12, <2>13, <2>15 DEF TicketInTime
  <2> QED BY <2>14, <2>16
<1> QED BY <1>5, <1>6, <1>7

\* The session reports the native task of the successor it was asked for.
LEMMA ReportsInTime ==
  ASSUME RecoveryInv, LastTicket, TicketInTime, SessionReports
  PROVE  LastTicket' /\ TicketInTime'
<1> USE RecoveryConstants, TicketNumbers
<1>1. PICK i \in DOMAIN conts : conts[i].status = "prepared" /\ ReceiptCreated(i)
  BY DEF SessionReports
<1>2. PICK n \in Nat \ {0} : n = Len(conts)
  OBVIOUS
<1>3. i = n /\ n \in DOMAIN conts /\ conts[n] \in Row
  BY <1>1, <1>2 DEF LastTicket
<1>4. PICK row : row = [conts[n] EXCEPT !.status = "scheduled", !.native = TRUE, !.confirmed = TRUE]
  OBVIOUS
<1>5. /\ row \in Row /\ row.occ = "once" /\ row.status = "scheduled" /\ HostConfirmed(row)
      /\ row.due = conts[n].due
  <2>1. conts[n].occ = "once"
    BY <1>2 DEF LastTicket
  <2> QED BY <1>3, <1>4, <2>1 DEF Row, HostConfirmed, Live, Fencing
<1>6. conts' = [conts EXCEPT ![n] = row]
  BY <1>1, <1>3, <1>4 DEF ReceiptCreated, PutRow
<1>7. /\ Len(conts') = n
      /\ \A j \in 1 .. n : conts'[j] = IF j = n THEN row ELSE conts[j]
  BY <1>2, <1>3, <1>5, <1>6, ExceptSeq
<1>8. UNCHANGED <<clock, fired, woken, left, present, status, tracked, tasks>>
  BY DEF SessionReports, goalRow, world, hostVars
<1>9. conts'[n] = row /\ \A j \in 1 .. n - 1 : conts'[j] = conts[j]
  BY <1>7
<1>10. LastTicket'
  <2>1. \A j \in 1 .. n : conts'[j].occ = "once"
    BY <1>2, <1>5, <1>9 DEF LastTicket
  <2> QED BY <1>2, <1>5, <1>7, <1>8, <1>9, <2>1 DEF LastTicket
<1>11. TicketInTime'
  BY <1>2, <1>5, <1>7, <1>8, <1>9 DEF TicketInTime, Abandoned, Running
<1> QED BY <1>10, <1>11

\* Time passes neither a report nor a ticket that is due.
LEMMA PassesNoTicket ==
  ASSUME RecoveryInv, LastTicket, TicketInTime, TimePasses
  PROVE  LastTicket' /\ TicketInTime'
<1> USE RecoveryConstants, TicketNumbers
<1>1. PICK n \in Nat \ {0} : n = Len(conts)
  OBVIOUS
<1>2. /\ woken = 0 /\ clock' = clock + 1
      /\ UNCHANGED <<conts, fired, woken, left, present, status, tracked, tasks>>
  BY DEF TimePasses, Pass, goalRow, wakeRows, hostVars
<1>3. n \in DOMAIN conts /\ n \in n .. MaxConts /\ conts[n].due \in Nat
  BY <1>1
<1>4. HostConfirmed(conts[n]) /\ fired[n] = 0
  BY <1>1, <1>2, <1>3 DEF TimePasses, LastTicket
<1>5. clock < NextFiring(n)
  BY <1>3, <1>4 DEF TimePasses, WillFire
<1>6. NextFiring(n) = conts[n].due
  <2>1. fired[n] * IntervalTicks = 0
    BY <1>4
  <2> QED BY <1>3, <2>1 DEF NextFiring
<1>7. LastTicket'
  BY <1>2 DEF LastTicket, HostConfirmed
<1>8. TicketInTime'
  BY <1>1, <1>2, <1>5, <1>6 DEF TicketInTime, Abandoned, Running
<1> QED BY <1>7, <1>8

\* So every step of a recovery by tickets is in time.
LEMMA TicketStep ==
  ASSUME RecoveryInv, LastTicket, TicketInTime, [RecoveryNext]_recoveryVars
  PROVE  LastTicket' /\ TicketInTime'
<1>1. CASE Works
  <2>1. present /\ UNCHANGED <<conts, clock, hostVars>>
    BY <1>1, WorksSilently DEF RecoveryInv
  <2> QED BY <2>1, OthersKeepTickets DEF hostVars, Abandoned
<1>2. CASE Leaves
  BY <1>2, OthersKeepTickets DEF Leaves, vars, wakeRows, world
<1>3. CASE TaskEnds
  <2>1. PICK k \in Tasks : /\ EndTask(k)
                           /\ left' = IF k \in tracked /\ ~present THEN clock ELSE left
    BY <1>3 DEF TaskEnds
  <2>2. UNCHANGED <<conts, clock, status, tracked, present, fired, woken>>
    BY <1>3, <2>1 DEF TaskEnds, EndTask, goalRow, wakeRows
  <2>3. Running \subseteq Running' \cup {k}
    BY <2>1 DEF EndTask, Running, RecoveryInv, TypeOK, ActorTypeOK
  <2>4. Abandoned' => (Abandoned /\ left' = left) \/ left' = clock
    BY <2>1, <2>2, <2>3 DEF Abandoned
  <2> QED BY <2>2, <2>4, OthersKeepTickets
<1>4. CASE \E i \in DOMAIN conts : Fires(i)
  BY <1>4, FiresItsTicket
<1>5. CASE SessionObserves
  BY <1>5, OthersKeepTickets DEF SessionObserves, Observe, goalRow, wakeRows, world, hostVars,
     Abandoned, Running
<1>6. CASE SessionClaims
  BY <1>6, TicketClaimsInTime
<1>7. ~SessionReturns
  BY RecoveryConstants, TicketNumbers DEF SessionReturns, LastTicket
<1>8. CASE SessionReports
  BY <1>8, ReportsInTime
<1>9. CASE TimePasses
  BY <1>9, PassesNoTicket
<1>10. CASE UNCHANGED recoveryVars
  BY <1>10, OthersKeepTickets DEF recoveryVars, vars, goalRow, wakeRows, world, Abandoned, Running
<1> QED BY <1>1, <1>2, <1>3, <1>4, <1>5, <1>6, <1>7, <1>8, <1>9, <1>10 DEF RecoveryNext

-----------------------------------------------------------------------------
(* Every recovery.                                                        *)

\* A recovery begins with one watchdog that fires in time.
LEMMA RecoveryBegins == RecoveryInit => RecurringInv /\ TicketInv
<1> SUFFICES ASSUME RecoveryInit PROVE RecurringInv /\ TicketInv
  OBVIOUS
<1> USE RecoveryConstants
<1>1. PICK occ \in Occurrences, d \in DueDelays : conts = <<FirstWatchdog(occ, d)>>
  BY DEF RecoveryInit
<1>2. /\ clock = 0 /\ left = 0 /\ present = TRUE /\ woken = 0 /\ lost = 0 /\ runs = {}
      /\ fired = [i \in 1 .. MaxConts |-> 0]
  BY DEF RecoveryInit, HostInit
<1>3. d \in Nat \ {0} /\ occ \in {"once", "interval"}
  BY TickAssumption, ChoiceAssumption
<1>4. PICK row : row = FirstWatchdog(occ, d)
  OBVIOUS
<1>5. row.occ = occ /\ row.status = "scheduled" /\ HostConfirmed(row) /\ row.due = d
  BY <1>4 DEF FirstWatchdog, NewRow, HostConfirmed
<1>6. Len(conts) = 1 /\ conts[1] = row
  BY <1>1, <1>4
<1>7. \A i \in 1 .. MaxConts : fired[i] = 0
  BY <1>2
<1>8. ASSUME Recurs PROVE OneRow /\ FiresInTime
  <2>1. d \in 1 .. IntervalTicks
    BY <1>5, <1>6, <1>8, RecoveryAssumption DEF Recurs
  <2>2. Answered = 0 /\ NextDue = d
    <3>1. Answered = 0
      BY <1>2, <1>7 DEF Answered
    <3>2. Span(Answered) = 0
      BY <3>1, Spans
    <3> QED BY <1>3, <1>5, <1>6, <3>1, <3>2 DEF NextDue
  <2> QED BY <1>2, <1>5, <1>6, <2>1, <2>2 DEF OneRow, FiresInTime, Abandoned
<1>9. ASSUME ~Recurs PROVE LastTicket /\ TicketInTime
  <2>1. occ = "once" /\ d \in 1 .. CollisionMax
    BY <1>3, <1>5, <1>6, <1>9, RecoveryAssumption DEF Recurs
  <2>2. LastTicket
    BY <1>2, <1>5, <1>6, <1>7, <2>1 DEF LastTicket
  <2>3. TicketInTime
    BY <1>2, <1>5, <1>6, <2>1 DEF TicketInTime, Abandoned
  <2> QED BY <2>2, <2>3
<1> QED BY <1>8, <1>9 DEF RecurringInv, TicketInv

\* What every state of a recovery satisfies.
InTime == RecoveryInv /\ RecurringInv /\ TicketInv

\* Whatever its workers, the host and its sessions do, the next firing of a
\* goal's watchdog is no later than its last departure allows.
THEOREM RecoveryInvariant == RecoverySpec => []InTime
<1>1. RecoveryInit => InTime
  BY RecoveryInvInit, RecoveryBegins DEF InTime
<1>2. InTime /\ [RecoveryNext]_recoveryVars => InTime'
  <2> SUFFICES ASSUME InTime, [RecoveryNext]_recoveryVars PROVE InTime'
    OBVIOUS
  <2>1. CASE Recurs
    <3>1. RecoveryInv /\ OneRow /\ FiresInTime
      BY <2>1 DEF InTime, RecurringInv
    <3>2. WokenRow
      BY <2>1, <3>1, RowStays DEF FiresInTime
    <3>3. RecoveryInv'
      BY <3>1, <3>2, RecoveryInvStep
    <3>4. Recurs' /\ OneRow' /\ FiresInTime'
      BY <2>1, <3>1, RecurringStep
    <3> QED BY <3>3, <3>4 DEF InTime, RecurringInv, TicketInv
  <2>2. CASE ~Recurs
    <3>1. RecoveryInv /\ LastTicket /\ TicketInTime
      BY <2>2 DEF InTime, TicketInv
    <3>2. WokenRow
      BY <3>1, TicketNumbers
    <3>3. RecoveryInv'
      BY <3>1, <3>2, RecoveryInvStep
    <3>4. LastTicket' /\ TicketInTime'
      BY <3>1, TicketStep
    <3>5. ~Recurs'
      <4>1. ASSUME RecoveryInv, LastTicket PROVE ~Recurs
        BY <4>1, TicketNumbers
      <4>2. MaxConts \in Nat
        BY RecoveryConstants
      <4> QED BY <3>4, <4>2 DEF LastTicket, Recurs
    <3> QED BY <3>3, <3>4, <3>5 DEF InTime, RecurringInv, TicketInv
  <2> QED BY <2>1, <2>2
<1> QED BY <1>1, <1>2, PTL DEF RecoverySpec

\* At most MaxLost firings are lost and one passes for a repetition.
LEMMA InTimeWakes == InTime => AbandonedGoalIsWoken
<1> SUFFICES ASSUME InTime, Abandoned PROVE clock - left <= WakeBound(conts[1].occ)
  BY DEF AbandonedGoalIsWoken
<1> USE RecoveryConstants
<1>1. CASE Recurs
  <2>1. RecoveryInv /\ OneRow /\ FiresInTime
    BY <1>1 DEF InTime, RecurringInv
  <2>2. /\ clock \in Nat /\ left \in Nat /\ lost \in 0 .. MaxLost /\ Repetitions \in {0, 1}
        /\ NextDue \in Nat /\ SilenceShows \in Nat
    BY <1>1, <2>1, RecurringNumbers
  <2>3. NextDue <= LastVain + IntervalTicks + Span(lost + Repetitions) /\ clock <= NextDue
    BY <2>1 DEF FiresInTime
  <2>4. Span(lost + Repetitions) <= Span(MaxLost + 1) /\ Span(lost + Repetitions) \in Nat
    <3>1. lost + Repetitions \in Nat /\ MaxLost + 1 \in Nat /\ lost + Repetitions <= MaxLost + 1
      BY <2>2
    <3> QED BY <3>1, Spans
  <2>5. Span(MaxLost + 1) + IntervalTicks = (2 + MaxLost) * IntervalTicks
        /\ Span(MaxLost + 1) \in Nat
    <3>1. MaxLost + 1 \in Nat /\ (MaxLost + 1) + 1 = 2 + MaxLost
      OBVIOUS
    <3>2. Span(2 + MaxLost) = Span(MaxLost + 1) + IntervalTicks /\ Span(MaxLost + 1) \in Nat
      BY <3>1, Spans
    <3> QED BY <3>2 DEF Span
  <2>6. (2 + MaxLost) * IntervalTicks \in Nat
    BY <2>5
  <2>7. clock <= LastVain + (2 + MaxLost) * IntervalTicks /\ LastVain \in Int
    BY <2>2, <2>3, <2>4, <2>5, <2>6 DEF LastVain
  <2>8. WakeBound(conts[1].occ) = (SilenceShows - 1) + EarlyTol + (2 + MaxLost) * IntervalTicks
    BY <1>1 DEF WakeBound, Recurs
  <2> QED BY <2>2, <2>6, <2>7, <2>8 DEF LastVain
<1>2. CASE ~Recurs
  <2>1. RecoveryInv /\ LastTicket /\ TicketInTime
    BY <1>2 DEF InTime, TicketInv
  <2>2. clock \in Nat /\ left \in Nat /\ Len(conts) \in DOMAIN conts
        /\ conts[Len(conts)].due \in Nat
    BY <2>1, TicketNumbers
  <2>3. clock <= left + (LeaseTicks - 1) + CollisionMax
    BY <2>1, <2>2 DEF TicketInTime
  <2>4. WakeBound(conts[1].occ) = (LeaseTicks - 1) + CollisionMax
    BY <1>2 DEF WakeBound, Recurs
  <2> QED BY <2>2, <2>3, <2>4
<1> QED BY <1>1, <1>2

\* A goal its workers have abandoned is woken in time, whatever its last worker
\* left behind: the watchdog of a goal has a deadline.
THEOREM AbandonedGoalsAreWoken == RecoverySpec => []AbandonedGoalIsWoken
BY RecoveryInvariant, InTimeWakes, PTL
=============================================================================
