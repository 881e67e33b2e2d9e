------------------------------ MODULE ToolBatch ------------------------------
(***************************************************************************)
(* One batch of tool calls: sets of calls executed one after another, each *)
(* in waves of calls whose dependencies have their results.                *)
(***************************************************************************)
EXTENDS Integers, FiniteSets

CONSTANTS
  BatchCalls,       \* number of calls; calls are numbered in the plan's order
  BatchSets,        \* number of sets
  MaxParallel,      \* calls of a wave
  MaxDependencies,  \* bounds of the plans: dependencies, calls that fail, and
  MaxFailing,       \* calls that are unsafe beside others; a bound as large as
  MaxUnsafe         \* the plan can be leaves every plan

ASSUME ToolBatchAssumption ==
  /\ {BatchCalls, MaxDependencies, MaxFailing, MaxUnsafe} \subseteq Nat
  /\ {BatchSets, MaxParallel} \subseteq Nat \ {0}

VARIABLES
  plan,      \* what the caller asks for, and how each call would end
  batch,     \* the set under way, its wave, and whether the caller aborted
  outcomes,  \* what executeOne has answered of the calls of the wave
  results    \* the results the later waves see

batchVars == <<plan, batch, outcomes, results>>

BatchIds == 1 .. BatchCalls
Sets == 1 .. BatchSets
PastSets == BatchSets + 1
Answers == {"none", "succeeded", "failed", "cancelled"}
Results == Answers \cup {"skipped"}

ToolBatchTypeOK ==
  /\ plan \in [set : [BatchIds -> Sets], deps : [BatchIds -> SUBSET BatchIds],
               parallel : [Sets -> BOOLEAN], unsafe : SUBSET BatchIds, fails : SUBSET BatchIds]
  /\ batch \in [set : Sets \cup {PastSets}, wave : SUBSET BatchIds, aborted : BOOLEAN]
  /\ outcomes \in [BatchIds -> Answers]
  /\ results \in [BatchIds -> Results]

-----------------------------------------------------------------------------
(* The plan                                                               *)

Dependencies(needs) == {e \in BatchIds \X BatchIds : e[2] \in needs[e[1]]}
UpTo(n, things) == Cardinality(things) <= n

\* validatePlan: no call of a group needs one of a later group.  The first
\* set may be the calls outside every group, which may need any call.  A call
\* may need itself, or others that need it.
Valid(p) == \A c \in BatchIds : \A d \in p.deps[c] : p.set[d] <= p.set[c] \/ p.set[c] = 1

Plans ==
  {p \in [set : {s \in [BatchIds -> Sets] : \A c, d \in BatchIds : c <= d => s[c] <= s[d]},
          deps : {n \in [BatchIds -> SUBSET BatchIds] : UpTo(MaxDependencies, Dependencies(n))},
          parallel : [Sets -> BOOLEAN], unsafe : {u \in SUBSET BatchIds : UpTo(MaxUnsafe, u)},
          fails : {f \in SUBSET BatchIds : UpTo(MaxFailing, f)}] : Valid(p)}

ToolBatchInit ==
  /\ plan \in Plans
  /\ batch = [set |-> 1, wave |-> {}, aborted |-> FALSE]
  /\ outcomes = [c \in BatchIds |-> "none"]
  /\ results = [c \in BatchIds |-> "none"]

-----------------------------------------------------------------------------
(* executeSet                                                             *)

InSet == {c \in BatchIds : plan.set[c] = batch.set /\ results[c] = "none"}

BetweenWaves == batch.set \in Sets /\ batch.wave = {}

Conclude(ids, result) ==
  results' = [c \in BatchIds |-> IF c \in ids THEN result ELSE results[c]]

\* executeSet returns and the next group begins.
NextSet ==
  /\ BetweenWaves /\ InSet = {}
  /\ batch' = [batch EXCEPT !.set = @ + 1]
  /\ UNCHANGED <<plan, outcomes, results>>

CancelPending ==
  /\ BetweenWaves /\ InSet # {} /\ batch.aborted
  /\ Conclude(InSet, "cancelled")
  /\ UNCHANGED <<plan, batch, outcomes>>

Ready == {c \in InSet : \A d \in plan.deps[c] : results[d] # "none"}

SkipUnresolved ==
  /\ BetweenWaves /\ InSet # {} /\ ~batch.aborted /\ Ready = {}
  /\ Conclude(InSet, "skipped")
  /\ UNCHANGED <<plan, batch, outcomes>>

\* Mutant: one dependency that succeeded is enough.
BlockedByAll == {c \in Ready : plan.deps[c] # {} /\ \A d \in plan.deps[c] : results[d] # "succeeded"}
Blocked == {c \in Ready : \E d \in plan.deps[c] : results[d] # "succeeded"}
Runnable == Ready \ Blocked

First(ids, n) == {c \in ids : Cardinality({d \in ids : d < c}) < n}

\* selectWave: one call at a time when the set is not parallel, and one alone
\* as long as there is an unsafe one.
SelectWave(ids) ==
  LET unsafe == ids \cap plan.unsafe IN
  IF ~plan.parallel[batch.set] THEN First(ids, 1)
  ELSE IF unsafe # {} THEN First(unsafe, 1) ELSE First(ids, MaxParallel)

\* A round of the loop; the calls of the wave are invoked.
StartWave ==
  /\ BetweenWaves /\ ~batch.aborted /\ Ready # {}
  /\ Conclude(Blocked, "skipped")
  /\ batch' = [batch EXCEPT !.wave = SelectWave(Runnable)]
  /\ UNCHANGED <<plan, outcomes>>

Waiting == {c \in batch.wave : outcomes[c] = "none"}

\* executeOne: the call's promise, or its timeout, which counts as a failure.
CallEnds(c) ==
  /\ c \in Waiting
  /\ outcomes' = [outcomes EXCEPT ![c] = IF c \in plan.fails THEN "failed" ELSE "succeeded"]
  /\ UNCHANGED <<plan, batch, results>>

\* Every call that waits is given up; what it does goes on.
AbortBatch ==
  /\ batch.set \in Sets /\ ~batch.aborted
  /\ batch' = [batch EXCEPT !.aborted = TRUE]
  /\ outcomes' = [c \in BatchIds |-> IF c \in Waiting THEN "cancelled" ELSE outcomes[c]]
  /\ UNCHANGED <<plan, results>>

\* Promise.allSettled
WaveSettles ==
  /\ batch.wave # {} /\ Waiting = {}
  /\ results' = [c \in BatchIds |-> IF c \in batch.wave THEN outcomes[c] ELSE results[c]]
  /\ batch' = [batch EXCEPT !.wave = {}]
  /\ UNCHANGED <<plan, outcomes>>

ToolBatchNext ==
  \/ NextSet \/ CancelPending \/ SkipUnresolved \/ StartWave \/ AbortBatch \/ WaveSettles
  \/ \E c \in BatchIds : CallEnds(c)

ToolBatchSpec == ToolBatchInit /\ [][ToolBatchNext]_batchVars

-----------------------------------------------------------------------------
(* Properties                                                             *)

\* A set closed under what the plan says of success: a call that does not
\* fail, and whose dependencies lie in no later set and succeed, succeeds.
ClosedUnderSuccess(S) ==
  \A c \in BatchIds \ plan.fails :
    (plan.deps[c] \subseteq S /\ \A d \in plan.deps[c] : plan.set[d] <= plan.set[c]) => c \in S

\* The calls that succeed when nobody aborts: the least such set.
Successes == {c \in BatchIds : \A S \in SUBSET BatchIds : ClosedUnderSuccess(S) => c \in S}

\* A batch gives every call one result, and which calls succeed depends on the
\* plan and on how its calls end only: not on parallel, on the bound of a wave,
\* on unsafe calls or on the order the calls end in.  An abort may only take
\* successes away.
\* (executeSet and selectWave: parallel-tool-executor.ts:104-155)
BatchFollowsThePlan ==
  LET succeeded == {c \in BatchIds : results[c] = "succeeded"} IN
  /\ succeeded \subseteq Successes
  /\ batch.set = PastSets => /\ \A c \in BatchIds : results[c] # "none"
                             /\ ~batch.aborted => succeeded = Successes
=============================================================================
