--------------------------- MODULE ServicesProofs ----------------------------
(***************************************************************************)
(* What the services around the goals keep, for any number of callers: the *)
(* tool calls and cancel_goal, a batch of calls, the shared state file of  *)
(* the upgrade runtimes, the lock of the tunnel, the child sessions of the *)
(* MCP extensions, and the queue of a workspace's index.  Each part has an *)
(* inductive invariant of its own; at the end, that these and those of     *)
(* ProcessProofs hold of all the services side by side.                    *)
(***************************************************************************)
EXTENDS MCServices, ProcessProofs, FiniteSetTheorems, SequenceTheorems, TLAPS

-----------------------------------------------------------------------------
(* Tool calls and cancel_goal                                             *)

AtWork(c) == Running(c) /\ calls[c].leased

\* A running call of the goal is registered; cancel_goal waits and reports
\* under its tombstone only.
WorkIsRegistered ==
  /\ \A c \in Calls : AtWork(c) => c \in requests
  /\ stopping.at \in {"waiting", "reported"} => tombstone

\* The row is open from the admission to the end of the operation.
FencedFromAdmission ==
  \A c \in Calls : calls[c].at \in {"execute", "running"} /\ calls[c].fenced => calls[c].row = "open"

CallsInv ==
  /\ ToolCallsTypeOK
  /\ WorkIsRegistered /\ StopReachesAllWork /\ FencedFromAdmission

\* The invariant of the tool calls holds at first.
LEMMA CallsInvInit == ToolCallsInit => CallsInv
<1> SUFFICES ASSUME ToolCallsInit PROVE CallsInv
  OBVIOUS
<1>1. [at |-> "idle", mutates |-> FALSE, leased |-> FALSE, fenced |-> FALSE, aborted |-> FALSE,
       replied |-> FALSE, row |-> "none"] \in Call
  BY DEF Call, CallPlaces
<1>2. ToolCallsTypeOK
  BY <1>1 DEF ToolCallsInit, ToolCallsTypeOK
<1>3. \A c \in Calls : calls[c].at = "idle"
  BY DEF ToolCallsInit
<1> QED BY <1>2, <1>3 DEF ToolCallsInit, CallsInv, WorkIsRegistered, AtWork, StopReachesAllWork,
                          FencedFromAdmission, Running

\* Every step of a tool call keeps the types.
LEMMA CallsTypeStep ==
  ASSUME ToolCallsTypeOK, ToolCallsNext
  PROVE  ToolCallsTypeOK'
<1> USE DEF ToolCallsTypeOK
<1>1. ASSUME NEW c \in Calls, NEW place \in CallPlaces, Move(c, place)
      PROVE  calls' \in [Calls -> Call]
  BY <1>1 DEF Move, Call
<1>2. ASSUME NEW c \in Calls, NEW call \in Call, calls' = [calls EXCEPT ![c] = call]
      PROVE  calls' \in [Calls -> Call]
  BY <1>2
<1>7. ASSUME NEW c \in Calls, Enter(c)
      PROVE  ToolCallsTypeOK'
  <2>1. PICK mutates \in BOOLEAN, leased \in BOOLEAN :
          calls' = [calls EXCEPT ![c] = [calls[c] EXCEPT !.at = "inspect", !.mutates = mutates,
                                                          !.leased = leased]]
    BY <1>7 DEF Enter
  <2>2. [calls[c] EXCEPT !.at = "inspect", !.mutates = mutates, !.leased = leased] \in Call
    BY DEF Call, CallPlaces
  <2> QED BY <1>2, <1>7, <2>1, <2>2 DEF Enter
<1>8. ASSUME NEW c \in Calls, AnswerEarly(c)
      PROVE  ToolCallsTypeOK'
  <2>1. [calls[c] EXCEPT !.aborted = TRUE, !.replied = TRUE] \in Call
    BY DEF Call
  <2> QED BY <1>2, <1>8, <2>1 DEF AnswerEarly, AfterReply
<1>3. ASSUME NEW c \in Calls, CallStep(c)
      PROVE  ToolCallsTypeOK'
  <2>1. CASE Refuse(c) \/ Approve(c) \/ Settles(c)
    BY <1>1, <2>1 DEF Refuse, Approve, Settles, CallPlaces
  <2>2. CASE Execute(c)
    BY <1>1, <2>2 DEF Execute, CallPlaces
  <2>3. CASE InspectFence(c)
    <3>1. PICK fence \in {FALSE, calls[c].mutates /\ goalRow = "active"} :
            IF fence /\ ~calls[c].leased
            THEN Move(c, "ending")
            ELSE calls' = [calls EXCEPT ![c] = [calls[c] EXCEPT !.at = "approve", !.fenced = fence]]
      BY <2>3 DEF InspectFence
    <3>2. fence \in BOOLEAN
      BY DEF Call
    <3>3. [calls[c] EXCEPT !.at = "approve", !.fenced = fence] \in Call
      BY <3>2 DEF Call, CallPlaces
    <3>4. CASE fence /\ ~calls[c].leased
      BY <1>1, <2>3, <3>1, <3>4 DEF InspectFence, CallPlaces
    <3>5. CASE ~(fence /\ ~calls[c].leased)
      BY <1>2, <2>3, <3>1, <3>3, <3>5 DEF InspectFence
    <3> QED BY <3>4, <3>5
  <2>4. CASE Admit(c)
    <3>1. /\ [calls[c] EXCEPT !.at = "execute", !.row = "open"] \in Call
          /\ [calls[c] EXCEPT !.at = "ending"] \in Call
      BY DEF Call, CallPlaces
    <3>2. \E call \in Call : calls' = [calls EXCEPT ![c] = call]
      BY <2>4, <3>1 DEF Admit
    <3> QED BY <1>2, <2>4, <3>2 DEF Admit
  <2>5. CASE CloseFence(c)
    <3>1. CASE calls' = [calls EXCEPT ![c] = [calls[c] EXCEPT
                           !.at = IF @ = "closing" THEN "ending" ELSE @,
                           !.row = IF @ = "open" THEN "ended" ELSE @]]
      <4>1. [calls[c] EXCEPT !.at = IF @ = "closing" THEN "ending" ELSE @,
                             !.row = IF @ = "open" THEN "ended" ELSE @] \in Call
        BY DEF Call, CallPlaces
      <4> QED BY <1>2, <2>5, <3>1, <4>1 DEF CloseFence
    <3>2. CASE Move(c, IF calls[c].replied THEN "lost" ELSE "ending")
      BY <1>1, <2>5, <3>2 DEF CloseFence, CallPlaces
    <3> QED BY <2>5, <3>1, <3>2 DEF CloseFence
  <2>6. CASE EndActivity(c)
    BY <2>6 DEF EndActivity, Call, CallPlaces
  <2> QED BY <1>3, <2>1, <2>2, <2>3, <2>4, <2>5, <2>6 DEF CallStep
<1>4. CASE CancelRow \/ CancelReports
  BY <1>4 DEF CancelRow, CancelReports
<1>5. CASE CancelRequests
  BY <1>5 DEF CancelRequests, Call
<1>6. CASE RestartRuntime
  BY <1>6 DEF RestartRuntime, Call, CallPlaces
<1> QED BY <1>3, <1>4, <1>5, <1>6, <1>7, <1>8 DEF ToolCallsNext

\* A call that is not at work after the step, or was before it and is still
\* told and registered, leaves what cancel_goal knows true.
LEMMA CallsQuiet ==
  ASSUME CallsInv, NEW c \in Calls, UNCHANGED <<tombstone, stopping>>,
         \A b \in Calls \ {c} : calls'[b] = calls[b] /\ (b \in requests => b \in requests'),
         calls'[c].at \in {"execute", "running"} /\ calls'[c].fenced => calls'[c].row = "open",
         AtWork(c)' => /\ c \in requests'
                       /\ AtWork(c) \/ ~tombstone
                       /\ calls[c].aborted => calls'[c].aborted
  PROVE  (WorkIsRegistered /\ StopReachesAllWork /\ FencedFromAdmission)'
<1>1. WorkIsRegistered'
  BY DEF CallsInv, WorkIsRegistered, AtWork, Running
<1>2. FencedFromAdmission'
  BY DEF CallsInv, FencedFromAdmission
<1>3. StopReachesAllWork'
  BY DEF CallsInv, StopReachesAllWork, WorkIsRegistered, AtWork, Running
<1> QED BY <1>1, <1>2, <1>3

\* Every step keeps the registration, the abort and the fence of each call.
LEMMA CallsSafeStep ==
  ASSUME CallsInv, ToolCallsNext
  PROVE  (WorkIsRegistered /\ StopReachesAllWork /\ FencedFromAdmission)'
<1>1. calls \in [Calls -> Call] /\ stopping.at \in {"idle", "marked", "waiting", "reported", "gone"}
  BY DEF CallsInv, ToolCallsTypeOK
<1>2. ASSUME NEW c \in Calls, Enter(c) \/ AnswerEarly(c) \/ CallStep(c)
      PROVE  (WorkIsRegistered /\ StopReachesAllWork /\ FencedFromAdmission)'
  <2> DEFINE Fenced == calls'[c].at \in {"execute", "running"} /\ calls'[c].fenced => calls'[c].row = "open"
  <2>1. calls[c] \in Call
    BY <1>1
  <2>2. /\ AtWork(c) => c \in requests
        /\ calls[c].at \in {"execute", "running"} /\ calls[c].fenced => calls[c].row = "open"
    BY DEF CallsInv, WorkIsRegistered, FencedFromAdmission
  <2>3. ASSUME \A b \in Calls \ {c} : calls'[b] = calls[b],
               calls'[c].at \notin {"execute", "running"}, requests' \in {requests, requests \ {c}},
               UNCHANGED <<tombstone, stopping>>
        PROVE  (WorkIsRegistered /\ StopReachesAllWork /\ FencedFromAdmission)'
    <3>1. ~AtWork(c)'
      BY <2>3 DEF AtWork, Running
    <3> QED BY <2>3, <3>1, CallsQuiet
  <2>4. ASSUME NEW place \in CallPlaces \ {"execute", "running"}, Move(c, place),
               requests' \in {requests, requests \ {c}}, UNCHANGED <<tombstone, stopping>>
        PROVE  (WorkIsRegistered /\ StopReachesAllWork /\ FencedFromAdmission)'
    BY <1>1, <2>1, <2>3, <2>4 DEF Move, Call
  <2>5. CASE Enter(c)
    <3>1. calls'[c].at = "inspect" /\ \A b \in Calls \ {c} : calls'[b] = calls[b]
      BY <1>1, <2>1, <2>5 DEF Enter, Call
    <3> QED BY <2>3, <2>5, <3>1 DEF Enter
  <2>6. CASE AnswerEarly(c)
    <3>1. /\ \A b \in Calls \ {c} : calls'[b] = calls[b]
          /\ calls'[c] = [calls[c] EXCEPT !.aborted = TRUE, !.replied = TRUE]
          /\ requests' = requests /\ UNCHANGED <<tombstone, stopping>>
      BY <1>1, <2>6 DEF AnswerEarly, AfterReply
    <3>2. /\ calls'[c].at = calls[c].at /\ calls'[c].leased = calls[c].leased /\ calls'[c].aborted
          /\ calls'[c].fenced = calls[c].fenced /\ calls'[c].row = calls[c].row
      BY <2>1, <3>1 DEF Call
    <3>3. AtWork(c)' = AtWork(c)
      BY <3>2 DEF AtWork, Running
    <3> QED BY <2>2, <3>1, <3>2, <3>3, CallsQuiet
  <2>7. CASE Refuse(c)
    BY <2>4, <2>7 DEF Refuse, CallPlaces
  <2>8. CASE InspectFence(c)
    <3>1. \E fence \in {FALSE, calls[c].mutates /\ goalRow = "active"} :
            calls' = [calls EXCEPT ![c] = IF fence /\ ~calls[c].leased
                        THEN [calls[c] EXCEPT !.at = "ending"]
                        ELSE [calls[c] EXCEPT !.at = "approve", !.fenced = fence]]
      BY <2>8 DEF InspectFence, Move
    <3>2. \A fence \in {TRUE, FALSE} :
            /\ [calls[c] EXCEPT !.at = "ending"].at = "ending"
            /\ [calls[c] EXCEPT !.at = "approve", !.fenced = fence].at = "approve"
      BY <2>1 DEF Call
    <3>3. calls'[c].at \in {"ending", "approve"} /\ \A b \in Calls \ {c} : calls'[b] = calls[b]
      BY <1>1, <2>1, <3>1, <3>2 DEF Call
    <3> QED BY <2>3, <2>8, <3>3 DEF InspectFence
  <2>9. CASE Approve(c)
    <3>1. /\ \A b \in Calls \ {c} : calls'[b] = calls[b]
          /\ calls'[c] = [calls[c] EXCEPT !.at = IF calls[c].fenced THEN "admit" ELSE "execute"]
          /\ requests' = requests /\ UNCHANGED <<tombstone, stopping>>
      BY <1>1, <2>9 DEF Approve, Move
    <3>2. /\ calls'[c].at = IF calls[c].fenced THEN "admit" ELSE "execute"
          /\ calls'[c].fenced = calls[c].fenced
      BY <2>1, <3>1 DEF Call
    <3>3. ~AtWork(c)' /\ Fenced
      BY <3>2 DEF AtWork, Running
    <3> QED BY <3>1, <3>3, CallsQuiet
  <2>10. CASE Admit(c)
    <3>1. /\ \A b \in Calls \ {c} : calls'[b] = calls[b]
          /\ calls'[c] = IF goalRow = "active" THEN [calls[c] EXCEPT !.at = "execute", !.row = "open"]
                                               ELSE [calls[c] EXCEPT !.at = "ending"]
          /\ requests' = requests /\ UNCHANGED <<tombstone, stopping>>
      BY <1>1, <2>10 DEF Admit
    <3>2. calls'[c].at = "ending" \/ (calls'[c].at = "execute" /\ calls'[c].row = "open")
      BY <2>1, <3>1 DEF Call
    <3>3. ~AtWork(c)' /\ Fenced
      BY <3>2 DEF AtWork, Running
    <3> QED BY <3>1, <3>3, CallsQuiet
  <2>11. CASE Execute(c)
    <3>1. CASE Move(c, "closing") /\ UNCHANGED requests
      BY <2>4, <2>11, <3>1 DEF Execute, CallPlaces
    <3>2. CASE /\ Accepted(c) /\ Move(c, "running")
               /\ requests' = IF calls[c].leased THEN requests \cup {c} ELSE requests
      <4>1. /\ \A b \in Calls \ {c} : calls'[b] = calls[b]
            /\ calls'[c] = [calls[c] EXCEPT !.at = "running"]
            /\ UNCHANGED <<tombstone, stopping>> /\ calls[c].at = "execute"
        BY <1>1, <2>11, <3>2 DEF Execute, Move
      <4>2. /\ calls'[c].leased = calls[c].leased /\ calls'[c].fenced = calls[c].fenced
            /\ calls'[c].row = calls[c].row /\ calls'[c].aborted = calls[c].aborted
        BY <2>1, <4>1 DEF Call
      <4>3. AtWork(c)' => calls[c].leased /\ ~tombstone /\ c \in requests'
        BY <3>2, <4>2 DEF AtWork, Accepted
      <4> QED BY <2>2, <3>2, <4>1, <4>2, <4>3, CallsQuiet
    <3> QED BY <2>11, <3>1, <3>2 DEF Execute
  <2>12. CASE Settles(c)
    BY <2>4, <2>12 DEF Settles, CallPlaces
  <2>13. CASE CloseFence(c)
    <3>1. CASE Move(c, IF calls[c].replied THEN "lost" ELSE "ending")
      BY <2>4, <2>13, <3>1 DEF CloseFence, CallPlaces
    <3>2. CASE calls' = [calls EXCEPT ![c] = [calls[c] EXCEPT
                           !.at = IF @ = "closing" THEN "ending" ELSE @,
                           !.row = IF @ = "open" THEN "ended" ELSE @]]
      <4>1. [calls[c] EXCEPT !.at = IF @ = "closing" THEN "ending" ELSE @,
                             !.row = IF @ = "open" THEN "ended" ELSE @].at = "ending"
        BY <2>1, <2>13 DEF CloseFence, MayClose, Call
      <4>2. calls'[c].at = "ending" /\ \A b \in Calls \ {c} : calls'[b] = calls[b]
        BY <1>1, <3>2, <4>1
      <4> QED BY <2>3, <2>13, <4>2 DEF CloseFence
    <3> QED BY <2>13, <3>1, <3>2 DEF CloseFence
  <2>14. CASE EndActivity(c)
    <3>1. calls'[c].at = "done" /\ \A b \in Calls \ {c} : calls'[b] = calls[b]
      BY <1>1, <2>1, <2>14 DEF EndActivity, Call
    <3> QED BY <2>3, <2>14, <3>1 DEF EndActivity
  <2> QED BY <1>2, <2>5, <2>6, <2>7, <2>8, <2>9, <2>10, <2>11, <2>12, <2>13, <2>14 DEF CallStep
<1>3. CASE CancelRow
  BY <1>1, <1>3 DEF CancelRow, CallsInv, ToolCallsTypeOK, WorkIsRegistered, StopReachesAllWork,
                    FencedFromAdmission, AtWork, Running
<1>4. CASE CancelRequests
  <2>1. \A c \in Calls : /\ c \in requests => calls'[c].aborted
                         /\ calls'[c].at = calls[c].at /\ calls'[c].leased = calls[c].leased
                         /\ calls'[c].fenced = calls[c].fenced /\ calls'[c].row = calls[c].row
    BY <1>1, <1>4 DEF CancelRequests, Call
  <2>2. requests' = requests /\ tombstone' /\ stopping'.at = "waiting"
    BY <1>4 DEF CancelRequests, CallsInv, ToolCallsTypeOK
  <2> QED BY <2>1, <2>2 DEF CallsInv, WorkIsRegistered, StopReachesAllWork, FencedFromAdmission,
                            AtWork, Running
<1>5. CASE CancelReports
  <2>1. /\ UNCHANGED <<tombstone, requests, calls>> /\ stopping.at = "waiting"
        /\ stopping'.remaining = requests
    BY <1>5 DEF CancelReports, CallsInv, ToolCallsTypeOK
  <2> QED BY <2>1 DEF CallsInv, WorkIsRegistered, StopReachesAllWork, FencedFromAdmission, AtWork, Running
<1>6. CASE RestartRuntime
  <2>1. \A c \in Calls : calls'[c].at \notin {"execute", "running"}
    BY <1>1, <1>6 DEF RestartRuntime, InFlight, Call
  <2>2. ~tombstone' /\ stopping'.at \in {"idle", "gone"}
    BY <1>1, <1>6 DEF RestartRuntime, CallsInv, ToolCallsTypeOK
  <2> QED BY <2>1, <2>2 DEF WorkIsRegistered, StopReachesAllWork, FencedFromAdmission, AtWork, Running
<1> QED BY <1>2, <1>3, <1>4, <1>5, <1>6 DEF ToolCallsNext

\* Every step of the tool calls keeps their invariant.
LEMMA CallsInvStep == CallsInv /\ [ToolCallsNext]_callVars => CallsInv'
<1>1. CallsInv /\ ToolCallsNext => CallsInv'
  BY CallsTypeStep, CallsSafeStep DEF CallsInv
<1>2. CallsInv /\ UNCHANGED callVars => CallsInv'
  BY DEF CallsInv, callVars, ToolCallsTypeOK, WorkIsRegistered, StopReachesAllWork,
         FencedFromAdmission, AtWork, Running
<1> QED BY <1>1, <1>2

\* The invariant of the tool calls holds always.
THEOREM CallsInvariant == ToolCallsSpec => []CallsInv
BY CallsInvInit, CallsInvStep, PTL DEF ToolCallsSpec

\* cancel_goal: once it has told the requests to stop, every call of the goal
\* that still runs was told, for any number of calls that enter, are approved
\* or are admitted meanwhile.
THEOREM StopsReachAllWork == ToolCallsSpec => []StopReachesAllWork
<1>1. CallsInv => StopReachesAllWork
  BY DEF CallsInv
<1> QED BY CallsInvariant, <1>1, PTL

\* The registry ends the fence of a mutating call only after its operation has
\* settled, also when the caller was answered early.
THEOREM MutationsFencedToTheEnd == ToolCallsSpec => []FencedToTheEnd
<1>1. CallsInv => FencedToTheEnd
  BY DEF CallsInv, FencedFromAdmission, FencedToTheEnd, Running
<1> QED BY CallsInvariant, <1>1, PTL

-----------------------------------------------------------------------------
(* A batch of calls                                                       *)

\* The calls of the wave have no result yet, and their dependencies succeeded.
WaveInOrder ==
  \A c \in batch.wave :
    /\ c \in InSet
    /\ \A d \in plan.deps[c] : results[d] = "succeeded"

\* What a call was answered is what the plan says, or an abort; it was in a wave.
AnswersFollow ==
  \A c \in BatchIds :
    /\ outcomes[c] # "none" => c \in batch.wave \/ results[c] # "none"
    /\ outcomes[c] = "succeeded" => c \notin plan.fails
    /\ outcomes[c] = "failed" => c \in plan.fails
    /\ outcomes[c] = "cancelled" => batch.aborted

\* Sets come one after another.
SetsInOrder ==
  \A c \in BatchIds :
    /\ plan.set[c] < batch.set => results[c] # "none"
    /\ results[c] # "none" => plan.set[c] <= batch.set

\* Why a call has the result it has.
ResultsFollow ==
  \A c \in BatchIds :
    /\ results[c] = "succeeded" => c \in Successes
    /\ results[c] = "failed" => c \in plan.fails
    /\ results[c] = "cancelled" => batch.aborted
    /\ results[c] = "skipped" =>
         \E d \in plan.deps[c] : \/ results[d] \notin {"none", "succeeded"}
                                 \/ plan.set[d] > plan.set[c]

BatchInv ==
  /\ ToolBatchTypeOK
  /\ WaveInOrder /\ AnswersFollow /\ SetsInOrder /\ ResultsFollow

\* The invariant of a batch holds at first.
LEMMA BatchInvInit == ToolBatchInit => BatchInv
<1> SUFFICES ASSUME ToolBatchInit PROVE BatchInv
  OBVIOUS
<1>1. ToolBatchTypeOK
  <2>1. plan \in [set : [BatchIds -> Sets], deps : [BatchIds -> SUBSET BatchIds],
                  parallel : [Sets -> BOOLEAN], unsafe : SUBSET BatchIds, fails : SUBSET BatchIds]
    BY DEF ToolBatchInit, Plans
  <2> QED BY <2>1, ToolBatchAssumption DEF ToolBatchInit, ToolBatchTypeOK, Sets, Answers, Results
<1>2. \A c \in BatchIds : plan.set[c] \in 1 .. BatchSets
  BY <1>1 DEF ToolBatchTypeOK, Sets
<1> QED BY <1>1, <1>2, ToolBatchAssumption DEF ToolBatchInit, BatchInv, WaveInOrder, AnswersFollow, SetsInOrder, ResultsFollow

\* A wave is chosen among the calls that may run.
LEMMA WaveWithin == ASSUME NEW ids \in SUBSET BatchIds PROVE SelectWave(ids) \subseteq ids
BY DEF SelectWave, First

\* Every step of a batch keeps its types.
LEMMA BatchTypeStep ==
  ASSUME ToolBatchTypeOK, ToolBatchNext
  PROVE  ToolBatchTypeOK'
<1> USE DEF ToolBatchTypeOK
<1>1. ASSUME NEW ids, NEW result \in Results, Conclude(ids, result)
      PROVE  results' \in [BatchIds -> Results]
  BY <1>1 DEF Conclude
<1>2. CASE NextSet
  <2>1. batch.set + 1 \in Sets \cup {PastSets}
    BY <1>2, ToolBatchAssumption DEF NextSet, BetweenWaves, Sets, PastSets
  <2> QED BY <1>2, <2>1 DEF NextSet
<1>3. CASE CancelPending \/ SkipUnresolved
  BY <1>1, <1>3 DEF CancelPending, SkipUnresolved, Results, Answers
<1>4. CASE StartWave
  <2>1. SelectWave(Runnable) \subseteq BatchIds
    BY WaveWithin DEF Runnable, Ready, InSet
  <2>2. results' \in [BatchIds -> Results]
    BY <1>1, <1>4 DEF StartWave, Results
  <2> QED BY <1>4, <2>1, <2>2 DEF StartWave
<1>5. CASE AbortBatch
  BY <1>5 DEF AbortBatch, Answers
<1>6. CASE WaveSettles
  BY <1>6 DEF WaveSettles, Results
<1>7. ASSUME NEW c \in BatchIds, CallEnds(c)
      PROVE  ToolBatchTypeOK'
  BY <1>7 DEF CallEnds, Answers
<1> QED BY <1>2, <1>3, <1>4, <1>5, <1>6, <1>7 DEF ToolBatchNext

\* A result stands, and a set that follows the plan is left to Successes.
LEMMA SuccessesGrow ==
  ASSUME ToolBatchTypeOK, NEW c \in BatchIds \ plan.fails,
         \A d \in plan.deps[c] : d \in Successes /\ plan.set[d] <= plan.set[c]
  PROVE  c \in Successes
<1>1. ASSUME NEW S \in SUBSET BatchIds, ClosedUnderSuccess(S)
      PROVE  c \in S
  <2>1. plan.deps[c] \subseteq S
    BY <1>1 DEF Successes
  <2> QED BY <1>1, <2>1 DEF ClosedUnderSuccess
<1> QED BY <1>1 DEF Successes

\* Whatever a round of the loop concludes has no result before it, and has a
\* reason.
LEMMA ConcludeKeeps ==
  ASSUME BatchInv, NEW ids \in SUBSET InSet, NEW result \in {"cancelled", "skipped"},
         Conclude(ids, result), plan' = plan, outcomes' = outcomes, batch'.set = batch.set,
         batch'.aborted = batch.aborted, batch.wave = {},
         result = "cancelled" => batch.aborted,
         result = "skipped" => \A c \in ids : \E d \in plan.deps[c] :
                                 \/ results'[d] \notin {"none", "succeeded"}
                                 \/ plan.set[d] > plan.set[c]
  PROVE  (AnswersFollow /\ SetsInOrder /\ ResultsFollow)'
<1>1. \A c \in BatchIds : results'[c] = IF c \in ids THEN result ELSE results[c]
  BY DEF Conclude
<1>2. ids \subseteq BatchIds /\ \A c \in ids : results[c] = "none" /\ plan.set[c] = batch.set
  BY DEF InSet
<1>3. /\ batch.set \in Nat
      /\ \A c \in BatchIds : plan.set[c] \in 1 .. BatchSets /\ plan.deps[c] \subseteq BatchIds
  BY ToolBatchAssumption DEF BatchInv, ToolBatchTypeOK, Sets, PastSets
<1>4. AnswersFollow'
  BY <1>1, <1>2 DEF BatchInv, AnswersFollow
<1>5. SetsInOrder'
  BY <1>1, <1>2, <1>3 DEF BatchInv, SetsInOrder
<1>6. Successes' = Successes
  BY DEF Successes, ClosedUnderSuccess
<1>7. ASSUME NEW c \in BatchIds
      PROVE  /\ results'[c] = "succeeded" => c \in Successes'
             /\ results'[c] = "failed" => c \in plan'.fails
             /\ results'[c] = "cancelled" => batch'.aborted
             /\ results'[c] = "skipped" =>
                  \E d \in plan'.deps[c] : \/ results'[d] \notin {"none", "succeeded"}
                                           \/ plan'.set[d] > plan'.set[c]
  <2>1. CASE c \in ids
    BY <1>1, <1>2, <2>1
  <2>2. CASE c \notin ids
    <3>1. results'[c] = results[c]
      BY <1>1, <2>2
    <3>2. results[c] = "skipped" =>
            \E d \in plan.deps[c] : \/ results'[d] \notin {"none", "succeeded"}
                                    \/ plan.set[d] > plan.set[c]
      BY <1>1, <1>2, <1>3 DEF BatchInv, ResultsFollow
    <3> QED BY <1>6, <3>1, <3>2 DEF BatchInv, ResultsFollow
  <2> QED BY <2>1, <2>2
<1> QED BY <1>4, <1>5, <1>7 DEF ResultsFollow

\* Every step of a batch keeps what its plan demands of it.
LEMMA BatchStep ==
  ASSUME BatchInv, ToolBatchNext
  PROVE  (WaveInOrder /\ AnswersFollow /\ SetsInOrder /\ ResultsFollow)'
<1> DEFINE Goal == (WaveInOrder /\ AnswersFollow /\ SetsInOrder /\ ResultsFollow)'
<1>1. /\ batch.set \in Nat /\ batch.wave \subseteq BatchIds
      /\ \A c \in BatchIds : plan.set[c] \in 1 .. BatchSets /\ plan.deps[c] \subseteq BatchIds
      /\ outcomes \in [BatchIds -> Answers] /\ results \in [BatchIds -> Results]
      /\ batch \in [set : Sets \cup {PastSets}, wave : SUBSET BatchIds, aborted : BOOLEAN]
  BY ToolBatchAssumption DEF BatchInv, ToolBatchTypeOK, Sets, PastSets
<1>2. plan' = plan /\ Successes' = Successes
  BY DEF ToolBatchNext, NextSet, CancelPending, SkipUnresolved, StartWave, AbortBatch, WaveSettles,
         CallEnds, Successes, ClosedUnderSuccess
<1>3. CASE NextSet
  <2>1. batch' = [batch EXCEPT !.set = @ + 1] /\ batch.wave = {} /\ UNCHANGED <<outcomes, results>>
    BY <1>3 DEF NextSet, BetweenWaves
  <2>2. batch'.set = batch.set + 1 /\ batch'.wave = {} /\ batch'.aborted = batch.aborted
    BY <1>1, <2>1
  <2>3. \A c \in BatchIds : plan.set[c] = batch.set => results[c] # "none"
    BY <1>3 DEF NextSet, InSet
  <2>4. SetsInOrder'
    BY <1>1, <1>2, <2>1, <2>2, <2>3 DEF SetsInOrder, BatchInv
  <2> QED BY <1>2, <2>1, <2>2, <2>4 DEF BatchInv, WaveInOrder, AnswersFollow, ResultsFollow
<1>4. CASE CancelPending
  <2>1. /\ Conclude(InSet, "cancelled") /\ batch.aborted /\ batch.wave = {}
        /\ UNCHANGED <<plan, batch, outcomes>>
    BY <1>4 DEF CancelPending, BetweenWaves
  <2>2. (AnswersFollow /\ SetsInOrder /\ ResultsFollow)'
    BY <2>1, ConcludeKeeps
  <2> QED BY <2>1, <2>2 DEF WaveInOrder
<1>5. CASE SkipUnresolved
  <2>1. /\ Conclude(InSet, "skipped") /\ Ready = {} /\ batch.wave = {}
        /\ UNCHANGED <<plan, batch, outcomes>>
    BY <1>5 DEF SkipUnresolved, BetweenWaves
  <2>2. ASSUME NEW c \in InSet
        PROVE  \E d \in plan.deps[c] : \/ results'[d] \notin {"none", "succeeded"}
                                       \/ plan.set[d] > plan.set[c]
    <3>1. PICK d \in plan.deps[c] : results[d] = "none"
      BY <2>1 DEF Ready
    <3>2. c \in BatchIds /\ plan.set[c] = batch.set /\ d \in BatchIds
      BY <1>1 DEF InSet
    <3>3. ~(plan.set[d] < batch.set)
      BY <3>1, <3>2 DEF BatchInv, SetsInOrder
    <3>4. CASE plan.set[d] = batch.set
      <4>1. d \in InSet
        BY <3>1, <3>2, <3>4 DEF InSet
      <4>2. results'[d] = "skipped"
        BY <2>1, <3>2, <4>1 DEF Conclude
      <4> QED BY <4>2
    <3> QED BY <1>1, <3>2, <3>3, <3>4
  <2>3. (AnswersFollow /\ SetsInOrder /\ ResultsFollow)'
    BY <2>1, <2>2, ConcludeKeeps
  <2> QED BY <2>1, <2>3 DEF WaveInOrder
<1>6. CASE StartWave
  <2>1. /\ Conclude(Blocked, "skipped") /\ batch.wave = {}
        /\ batch' = [batch EXCEPT !.wave = SelectWave(Runnable)]
        /\ UNCHANGED <<plan, outcomes>>
    BY <1>6 DEF StartWave, BetweenWaves
  <2>2. /\ batch'.set = batch.set /\ batch'.wave = SelectWave(Runnable)
        /\ batch'.aborted = batch.aborted
    BY <1>1, <2>1
  <2>3. ASSUME NEW c \in Blocked
        PROVE  \E d \in plan.deps[c] : \/ results'[d] \notin {"none", "succeeded"}
                                       \/ plan.set[d] > plan.set[c]
    <3>1. PICK d \in plan.deps[c] : results[d] \notin {"none", "succeeded"}
      BY DEF Blocked, Ready
    <3>2. c \in BatchIds
      BY DEF Blocked, Ready, InSet
    <3>3. d \in BatchIds /\ d \notin Blocked
      BY <1>1, <3>1, <3>2 DEF Blocked, Ready, InSet
    <3>4. results'[d] = results[d]
      BY <2>1, <3>3 DEF Conclude
    <3> QED BY <3>1, <3>4
  <2>4. Blocked \subseteq InSet
    BY DEF Blocked, Ready
  <2>5. (AnswersFollow /\ SetsInOrder /\ ResultsFollow)'
    <3>1. \A c \in BatchIds : outcomes[c] # "none" => results[c] # "none"
      BY <2>1 DEF BatchInv, AnswersFollow
    <3> QED BY <2>1, <2>2, <2>3, <2>4, ConcludeKeeps
  <2>6. WaveInOrder'
    <3> SUFFICES ASSUME NEW c \in batch'.wave
                 PROVE  c \in InSet' /\ \A d \in plan'.deps[c] : results'[d] = "succeeded"
      BY DEF WaveInOrder
    <3>1. c \in Runnable
      BY <2>2, WaveWithin DEF Runnable, Ready, InSet
    <3>2. /\ c \in InSet /\ c \in BatchIds /\ c \notin Blocked
          /\ \A d \in plan.deps[c] : results[d] = "succeeded"
      BY <3>1 DEF Runnable, Ready, Blocked, InSet
    <3>3. results'[c] = "none"
      BY <2>1, <3>2 DEF Conclude, InSet
    <3>4. \A d \in plan.deps[c] : results'[d] = "succeeded"
      BY <1>1, <2>1, <2>4, <3>2 DEF Conclude, InSet
    <3> QED BY <2>1, <2>2, <3>2, <3>3, <3>4 DEF InSet
  <2> QED BY <2>5, <2>6
<1>7. CASE AbortBatch
  <2>1. /\ batch'.set = batch.set /\ batch'.wave = batch.wave /\ batch'.aborted
        /\ results' = results
        /\ \A c \in BatchIds : outcomes'[c] = IF c \in Waiting THEN "cancelled" ELSE outcomes[c]
    BY <1>1, <1>7 DEF AbortBatch
  <2>2. AnswersFollow'
    BY <1>2, <2>1 DEF BatchInv, AnswersFollow, Waiting
  <2> QED BY <1>2, <2>1, <2>2 DEF BatchInv, WaveInOrder, SetsInOrder, ResultsFollow, InSet
<1>8. CASE WaveSettles
  <2>1. /\ batch'.set = batch.set /\ batch'.wave = {} /\ batch'.aborted = batch.aborted
        /\ outcomes' = outcomes
        /\ \A c \in BatchIds : results'[c] = IF c \in batch.wave THEN outcomes[c] ELSE results[c]
        /\ \A c \in batch.wave : outcomes[c] # "none" /\ outcomes[c] \in Answers
    BY <1>1, <1>8 DEF WaveSettles, Waiting
  <2>2. \A c \in batch.wave : c \in BatchIds /\ results[c] = "none" /\ plan.set[c] = batch.set
    BY DEF BatchInv, WaveInOrder, InSet
  <2>3. AnswersFollow' /\ SetsInOrder'
    BY <1>1, <1>2, <2>1, <2>2 DEF BatchInv, AnswersFollow, SetsInOrder
  <2>4. ASSUME NEW c \in BatchIds
        PROVE  /\ results'[c] = "succeeded" => c \in Successes'
               /\ results'[c] = "failed" => c \in plan'.fails
               /\ results'[c] = "cancelled" => batch'.aborted
               /\ results'[c] = "skipped" =>
                    \E d \in plan'.deps[c] : \/ results'[d] \notin {"none", "succeeded"}
                                             \/ plan'.set[d] > plan'.set[c]
    <3>1. CASE c \in batch.wave
      <4>1. results'[c] = outcomes[c] /\ outcomes[c] # "skipped"
        BY <2>1, <3>1 DEF Answers
      <4>2. ASSUME outcomes[c] = "succeeded"
            PROVE  c \in Successes
        <5>1. c \notin plan.fails
          BY <4>2 DEF BatchInv, AnswersFollow
        <5>2. ASSUME NEW d \in plan.deps[c]
              PROVE  d \in Successes /\ plan.set[d] <= plan.set[c]
          BY <1>1, <2>2, <3>1 DEF BatchInv, WaveInOrder, SetsInOrder, ResultsFollow
        <5> QED BY <5>1, <5>2, SuccessesGrow DEF BatchInv
      <4> QED BY <1>2, <2>1, <4>1, <4>2 DEF BatchInv, AnswersFollow
    <3>2. CASE c \notin batch.wave
      <4>1. results'[c] = results[c]
        BY <2>1, <3>2
      <4>2. results[c] = "skipped" =>
              \E d \in plan.deps[c] : \/ results'[d] \notin {"none", "succeeded"}
                                      \/ plan.set[d] > plan.set[c]
        BY <1>1, <2>1, <2>2 DEF BatchInv, ResultsFollow
      <4> QED BY <1>2, <2>1, <4>1, <4>2 DEF BatchInv, ResultsFollow
    <3> QED BY <3>1, <3>2
  <2> QED BY <2>1, <2>3, <2>4 DEF WaveInOrder, ResultsFollow
<1>9. ASSUME NEW c \in BatchIds, CallEnds(c)
      PROVE  Goal
  <2>1. /\ c \in batch.wave /\ UNCHANGED <<batch, results>>
        /\ \A b \in BatchIds : outcomes'[b] = IF b = c THEN IF c \in plan.fails THEN "failed" ELSE "succeeded"
                                               ELSE outcomes[b]
    BY <1>1, <1>9 DEF CallEnds, Waiting
  <2>2. AnswersFollow'
    BY <1>2, <2>1 DEF BatchInv, AnswersFollow
  <2> QED BY <1>2, <2>1, <2>2 DEF BatchInv, WaveInOrder, SetsInOrder, ResultsFollow, InSet
<1> QED BY <1>3, <1>4, <1>5, <1>6, <1>7, <1>8, <1>9 DEF ToolBatchNext

\* Every step of a batch keeps its invariant.
LEMMA BatchInvStep == BatchInv /\ [ToolBatchNext]_batchVars => BatchInv'
<1>1. BatchInv /\ ToolBatchNext => BatchInv'
  BY BatchTypeStep, BatchStep DEF BatchInv
<1>2. BatchInv /\ UNCHANGED batchVars => BatchInv'
  BY DEF BatchInv, batchVars, ToolBatchTypeOK, WaveInOrder, AnswersFollow, SetsInOrder, ResultsFollow,
         InSet, Successes, ClosedUnderSuccess
<1> QED BY <1>1, <1>2

\* The invariant of a batch holds always, for any number of calls and sets and
\* any plan: with MaxDependencies no smaller than the pairs of calls, and
\* MaxFailing and MaxUnsafe no smaller than the calls, Plans leaves none out.
THEOREM BatchInvariant == ToolBatchSpec => []BatchInv
BY BatchInvInit, BatchInvStep, PTL DEF ToolBatchSpec

\* ParallelToolExecutor: for every set of calls, dependencies, failures and
\* abort, a call runs only after what it depends on has succeeded, and a batch
\* that ran to its end has run exactly the calls that could succeed.
THEOREM BatchesFollowPlans == ToolBatchSpec => []BatchFollowsThePlan
<1>1. ASSUME BatchInv PROVE BatchFollowsThePlan
  <2> DEFINE succeeded == {c \in BatchIds : results[c] = "succeeded"}
  <2>1. \A c \in BatchIds : plan.set[c] \in 1 .. BatchSets /\ results[c] \in Results
    BY <1>1 DEF BatchInv, ToolBatchTypeOK, Sets
  <2>2. succeeded \subseteq Successes
    BY <1>1 DEF BatchInv, ResultsFollow
  <2>3. ASSUME batch.set = PastSets
        PROVE  \A c \in BatchIds : results[c] # "none"
    <3>1. \A c \in BatchIds : plan.set[c] < batch.set
      BY <2>1, <2>3, ToolBatchAssumption DEF PastSets
    <3> QED BY <1>1, <3>1 DEF BatchInv, SetsInOrder
  <2>4. ASSUME batch.set = PastSets, ~batch.aborted
        PROVE  ClosedUnderSuccess(succeeded)
    <3> SUFFICES ASSUME NEW c \in BatchIds \ plan.fails, plan.deps[c] \subseteq succeeded,
                        \A d \in plan.deps[c] : plan.set[d] <= plan.set[c]
                 PROVE  c \in succeeded
      BY DEF ClosedUnderSuccess
    <3>1. \A d \in plan.deps[c] : results[d] = "succeeded" /\ ~(plan.set[d] > plan.set[c])
      <4>1. plan.deps[c] \subseteq BatchIds
        BY <1>1 DEF BatchInv, ToolBatchTypeOK
      <4> QED BY <2>1, <4>1
    <3>2. results[c] \notin {"none", "failed", "cancelled", "skipped"}
      BY <1>1, <2>3, <2>4, <3>1 DEF BatchInv, ResultsFollow
    <3> QED BY <2>1, <3>2 DEF Results, Answers
  <2>5. batch.set = PastSets /\ ~batch.aborted => Successes \subseteq succeeded
    BY <2>4 DEF Successes
  <2> QED BY <2>2, <2>3, <2>5 DEF BatchFollowsThePlan
<1> QED BY BatchInvariant, <1>1, PTL

-----------------------------------------------------------------------------
(* The shared state file                                                  *)

\* A change under way has a number, and only one that was written is stored.
ChangesNumbered ==
  \A r \in Runtimes :
    /\ runtimes[r].at # "idle" => runtimes[r].change \in Changes
    /\ runtimes[r].stored => runtimes[r].at \in {"release", "check"}

\* While no lock file was mistaken for a stale one: the runtime between lock
\* and release owns the lock file, what it writes over is what it read, and a
\* stored change is in the file.
LockGuardsFile ==
  \A r \in Runtimes :
    /\ Holding(r) => stateLock.by = r
    /\ runtimes[r].at = "check" => runtimes[r].took.by = r
    /\ runtimes[r].at = "write" => runtimes[r].base = sharedFile
    /\ runtimes[r].stored => runtimes[r].change \in sharedFile

StateInv ==
  /\ RuntimeStateTypeOK
  /\ ChangesNumbered
  /\ ~misjudged => LockGuardsFile /\ ConfirmedChangeStands

\* What a runtime starts from.
LEMMA IdleRuntimeType == IdleRuntime \in Runtime
BY RuntimeStateAssumption DEF IdleRuntime, Runtime, NoLockFile, LockFiles

\* The invariant of the shared state holds at first.
LEMMA StateInvInit == RuntimeStateInit => StateInv
<1> SUFFICES ASSUME RuntimeStateInit PROVE StateInv
  OBVIOUS
<1>1. IdleRuntime \in Runtime /\ NoLockFile \in LockFiles
  BY IdleRuntimeType DEF NoLockFile, LockFiles
<1>2. RuntimeStateTypeOK
  BY <1>1 DEF RuntimeStateInit, RuntimeStateTypeOK
<1> QED BY <1>2 DEF RuntimeStateInit, StateInv, ChangesNumbered, LockGuardsFile,
        ConfirmedChangeStands, Holding, IdleRuntime

\* One runtime changes; the others stay as they are.
LEMMA StateTypeStep ==
  ASSUME RuntimeStateTypeOK, ChangesNumbered, RuntimeStateNext
  PROVE  RuntimeStateTypeOK'
<1> USE DEF RuntimeStateTypeOK
<1>1. CASE LockAges
  BY <1>1 DEF LockAges, LockFiles
<1>2. ASSUME NEW r \in Runtimes, RuntimeStep(r)
      PROVE  RuntimeStateTypeOK'
  <2>1. /\ runtimes[r] \in Runtime
        /\ runtimes[r].at # "idle" => runtimes[r].change \in Changes
    BY DEF ChangesNumbered
  <2>2. ASSUME NEW memory \in SUBSET Changes, NotStored(r, memory)
        PROVE  runtimes' \in [Runtimes -> Runtime]
    <3>1. [IdleRuntime EXCEPT !.memory = memory] \in Runtime
      BY IdleRuntimeType DEF Runtime
    <3> QED BY <2>2, <3>1 DEF NotStored
  <2>3. ASSUME NEW place \in {"idle", "lock", "stat", "steal", "read", "write", "release", "check"},
               GoesTo(r, place)
        PROVE  runtimes' \in [Runtimes -> Runtime]
    BY <2>1, <2>3 DEF GoesTo, Runtime
  <2>4. runtimes[r].at # "idle" => runtimes[r].memory \cup {runtimes[r].change} \in SUBSET Changes
    BY <2>1 DEF Runtime
  <2>5. runtimes[r].memory \in SUBSET Changes /\ runtimes[r].base \in SUBSET Changes
    BY <2>1 DEF Runtime
  <2>6. NoLockFile \in LockFiles /\ [by |-> r, old |-> FALSE] \in LockFiles
    BY DEF NoLockFile, LockFiles
  <2>7. CASE \E n \in Changes : BeginChange(r, n)
    <3>1. PICK n \in Changes : BeginChange(r, n)
      BY <2>7
    <3>2. n \in 0 .. MaxShared
      BY RuntimeStateAssumption DEF Changes
    <3>3. [runtimes[r] EXCEPT !.at = "lock", !.change = n] \in Runtime
      BY <2>1, <3>2 DEF Runtime
    <3> QED BY <3>1, <3>3 DEF BeginChange
  <2>8. CASE RefreshMemory(r)
    BY <2>1, <2>8 DEF RefreshMemory, Runtime
  <2>9. CASE TakeLock(r)
    BY <2>3, <2>6, <2>9 DEF TakeLock
  <2>10. CASE LookAtLock(r)
    <3>1. runtimes' \in [Runtimes -> Runtime]
      BY <2>2, <2>3, <2>4, <2>5, <2>10 DEF LookAtLock
    <3> QED BY <2>10, <3>1 DEF LookAtLock
  <2>11. CASE StealLock(r)
    <3>1. misjudged' \in BOOLEAN
      BY <2>11 DEF StealLock, Holding
    <3> QED BY <2>3, <2>6, <2>11, <3>1 DEF StealLock
  <2>12. CASE ReadShared(r)
    <3>2. [runtimes[r] EXCEPT !.at = "write", !.base = sharedFile] \in Runtime
      BY <2>1 DEF Runtime
    <3>1. runtimes' \in [Runtimes -> Runtime]
      BY <2>3, <2>12, <3>2 DEF ReadShared
    <3> QED BY <2>12, <3>1 DEF ReadShared
  <2>13. CASE WriteShared(r)
    <3>2. sharedFile' \subseteq Changes
      BY <2>1, <2>5, <2>13 DEF WriteShared, Base
    <3>3. [runtimes[r] EXCEPT !.at = "release", !.stored = TRUE, !.base = sharedFile'] \in Runtime
      BY <2>1, <3>2 DEF Runtime
    <3>1. runtimes' \in [Runtimes -> Runtime] /\ sharedFile' \subseteq Changes
      BY <2>3, <2>13, <3>2, <3>3 DEF WriteShared
    <3> QED BY <2>13, <3>1 DEF WriteShared
  <2>14. CASE Release(r)
    BY <2>1, <2>6, <2>14 DEF Release, Runtime
  <2>15. CASE CheckReleased(r)
    <3>1. runtimes' \in [Runtimes -> Runtime] /\ confirmed' \subseteq Changes
      BY <2>1, <2>2, <2>4, <2>5, <2>15 DEF CheckReleased
    <3>2. stateLock' \in LockFiles
      BY <2>1, <2>15 DEF CheckReleased, Runtime
    <3> QED BY <2>15, <3>1, <3>2 DEF CheckReleased
  <2>16. CASE RuntimeCrashes(r)
    BY <2>16, IdleRuntimeType DEF RuntimeCrashes
  <2> QED BY <1>2, <2>7, <2>8, <2>9, <2>10, <2>11, <2>12, <2>13, <2>14, <2>15, <2>16
          DEF RuntimeStep
<1> QED BY <1>1, <1>2 DEF RuntimeStateNext

\* Only a change that was written counts as stored.
LEMMA NumberedStep ==
  ASSUME RuntimeStateTypeOK, ChangesNumbered, RuntimeStateNext
  PROVE  ChangesNumbered'
<1> USE DEF ChangesNumbered
<1>1. CASE LockAges
  BY <1>1 DEF LockAges
<1>2. ASSUME NEW r \in Runtimes, RuntimeStep(r)
      PROVE  ChangesNumbered'
  <2>1. runtimes[r] \in Runtime /\ runtimes \in [Runtimes -> Runtime]
    BY DEF RuntimeStateTypeOK
  <2>2. ASSUME NEW memory, NotStored(r, memory)
        PROVE  ChangesNumbered'
    BY <2>1, <2>2 DEF NotStored, IdleRuntime
  <2>3. ASSUME NEW place \in {"idle", "lock", "stat", "steal", "read", "write", "release", "check"},
               GoesTo(r, place), runtimes[r].at # "idle",
               runtimes[r].stored => place \in {"release", "check"}
        PROVE  ChangesNumbered'
    BY <2>1, <2>3 DEF GoesTo, Runtime
  <2>4. CASE \E n \in Changes : BeginChange(r, n)
    BY <2>1, <2>4 DEF BeginChange, Runtime
  <2>5. CASE RefreshMemory(r)
    BY <2>1, <2>5 DEF RefreshMemory, Runtime
  <2>6. CASE TakeLock(r)
    BY <2>3, <2>6 DEF TakeLock
  <2>7. CASE LookAtLock(r)
    BY <2>2, <2>3, <2>7 DEF LookAtLock
  <2>8. CASE StealLock(r)
    BY <2>3, <2>8 DEF StealLock
  <2>9. CASE ReadShared(r)
    <3>1. CASE runtimes' = [runtimes EXCEPT ![r] = [@ EXCEPT !.at = "write", !.base = sharedFile]]
      <4>1. runtimes'[r] = [runtimes[r] EXCEPT !.at = "write", !.base = sharedFile]
        BY <2>1, <3>1
      <4>2. runtimes'[r].at = "write" /\ runtimes'[r].stored = runtimes[r].stored
            /\ runtimes'[r].change = runtimes[r].change
        BY <2>1, <4>1 DEF Runtime
      <4> QED BY <2>1, <2>9, <3>1, <4>2 DEF ReadShared
    <3> QED BY <2>3, <2>9, <3>1 DEF ReadShared
  <2>10. CASE WriteShared(r)
    <3>1. CASE runtimes' = [runtimes EXCEPT ![r] = [@ EXCEPT !.at = "release", !.stored = TRUE,
                                                              !.base = sharedFile']]
      <4>1. runtimes'[r] = [runtimes[r] EXCEPT !.at = "release", !.stored = TRUE, !.base = sharedFile']
        BY <2>1, <3>1
      <4>2. runtimes'[r].at = "release" /\ runtimes'[r].change = runtimes[r].change
        BY <2>1, <4>1 DEF Runtime
      <4> QED BY <2>1, <2>10, <3>1, <4>2 DEF WriteShared
    <3> QED BY <2>3, <2>10, <3>1 DEF WriteShared
  <2>11. CASE Release(r)
    BY <2>1, <2>11 DEF Release, Runtime
  <2>12. CASE CheckReleased(r)
    BY <2>2, <2>12 DEF CheckReleased
  <2>13. CASE RuntimeCrashes(r)
    BY <2>1, <2>13 DEF RuntimeCrashes, IdleRuntime
  <2> QED BY <1>2, <2>4, <2>5, <2>6, <2>7, <2>8, <2>9, <2>10, <2>11, <2>12, <2>13
          DEF RuntimeStep
<1> QED BY <1>1, <1>2 DEF RuntimeStateNext

\* While nothing is misjudged the file only grows, and the lock passes from its
\* owner to nobody before it is taken again.
LEMMA LockGuardStep ==
  ASSUME StateInv, RuntimeStateNext, ~misjudged'
  PROVE  (LockGuardsFile /\ ConfirmedChangeStands)'
<1> USE DEF StateInv
<1>1. ~misjudged /\ LockGuardsFile /\ confirmed \subseteq sharedFile
  <2>1. ASSUME NEW r \in Runtimes, RuntimeStep(r)
        PROVE  misjudged => misjudged'
    BY <2>1 DEF RuntimeStep, BeginChange, RefreshMemory, TakeLock, LookAtLock, StealLock, ReadShared,
                WriteShared, Release, CheckReleased, RuntimeCrashes
  <2>2. ~misjudged
    BY <2>1 DEF RuntimeStateNext, LockAges
  <2> QED BY <2>2 DEF ConfirmedChangeStands
<1>2. runtimes \in [Runtimes -> Runtime] /\ stateLock \in LockFiles
  BY DEF RuntimeStateTypeOK
<1>3. \A r \in Runtimes : r # Nobody
  BY RuntimeStateAssumption DEF Nobody
<1>4. CASE LockAges
  BY <1>1, <1>2, <1>4 DEF LockAges, LockGuardsFile, Holding, ConfirmedChangeStands, LockFiles
<1>5. ASSUME NEW r \in Runtimes, RuntimeStep(r)
      PROVE  (LockGuardsFile /\ ConfirmedChangeStands)'
  <2>1. runtimes[r] \in Runtime
    BY <1>2
  <2>2. ASSUME \A q \in Runtimes \ {r} : runtimes'[q] = runtimes[q],
               ~runtimes'[r].stored, runtimes'[r].at \notin {"read", "write", "release", "check"},
               stateLock'.by = stateLock.by, sharedFile' = sharedFile, confirmed' = confirmed
        PROVE  (LockGuardsFile /\ ConfirmedChangeStands)'
    BY <1>1, <2>2 DEF LockGuardsFile, Holding, ConfirmedChangeStands
  <2>3. ~Holding(r) /\ runtimes[r].at # "check" => ~runtimes[r].stored
    BY DEF ChangesNumbered, Holding
  <2>4. CASE \E n \in Changes : BeginChange(r, n)
    BY <1>2, <2>1, <2>2, <2>3, <2>4 DEF BeginChange, Runtime, Holding
  <2>5. CASE RefreshMemory(r)
    BY <1>2, <2>1, <2>2, <2>3, <2>5 DEF RefreshMemory, Runtime, Holding
  <2>6. CASE TakeLock(r)
    <3>1. CASE stateLock = NoLockFile
      <4>1. \A q \in Runtimes : ~Holding(q)
        BY <1>1, <1>3, <3>1 DEF LockGuardsFile, NoLockFile
      <4> QED BY <1>1, <1>2, <2>1, <2>3, <2>6, <3>1, <4>1
              DEF TakeLock, GoesTo, LockGuardsFile, Holding, ConfirmedChangeStands, Runtime
    <3>2. CASE stateLock # NoLockFile
      BY <1>2, <2>1, <2>2, <2>3, <2>6, <3>2 DEF TakeLock, GoesTo, Runtime, Holding
    <3> QED BY <3>1, <3>2
  <2>7. CASE LookAtLock(r)
    <3>1. \/ GoesTo(r, "steal") \/ GoesTo(r, "lock") \/ \E memory : NotStored(r, memory)
      BY <2>7 DEF LookAtLock
    <3>2. /\ \A q \in Runtimes \ {r} : runtimes'[q] = runtimes[q]
          /\ ~runtimes'[r].stored /\ runtimes'[r].at \notin {"read", "write", "release", "check"}
      BY <1>2, <2>1, <2>3, <2>7, <3>1 DEF LookAtLock, GoesTo, NotStored, IdleRuntime, Runtime, Holding
    <3> QED BY <2>2, <2>7, <3>2 DEF LookAtLock
  <2>8. CASE StealLock(r)
    <3>1. \A q \in Runtimes : ~Holding(q)
      BY <1>1, <1>3, <2>8 DEF StealLock, LockGuardsFile
    <3> QED BY <1>1, <1>2, <2>1, <2>3, <2>8, <3>1
            DEF StealLock, GoesTo, LockGuardsFile, Holding, ConfirmedChangeStands, Runtime
  <2>9. CASE ReadShared(r)
    <3>1. ~runtimes[r].stored
      BY <2>9 DEF ReadShared, ChangesNumbered
    <3>2. CASE GoesTo(r, "release")
      BY <1>1, <1>2, <2>1, <2>9, <3>1, <3>2
         DEF ReadShared, GoesTo, LockGuardsFile, Holding, ConfirmedChangeStands, Runtime
    <3>3. CASE runtimes' = [runtimes EXCEPT ![r] = [@ EXCEPT !.at = "write", !.base = sharedFile]]
      <4>1. /\ runtimes'[r] = [runtimes[r] EXCEPT !.at = "write", !.base = sharedFile]
            /\ \A q \in Runtimes \ {r} : runtimes'[q] = runtimes[q]
        BY <1>2, <3>3
      <4>2. runtimes'[r].at = "write" /\ runtimes'[r].base = sharedFile /\ ~runtimes'[r].stored
        BY <2>1, <3>1, <4>1 DEF Runtime
      <4> QED BY <1>1, <2>9, <4>1, <4>2
              DEF ReadShared, LockGuardsFile, Holding, ConfirmedChangeStands
    <3> QED BY <2>9, <3>2, <3>3 DEF ReadShared
  <2>10. CASE WriteShared(r)
    <3>1. Holding(r) /\ \A q \in Runtimes \ {r} : ~Holding(q)
      BY <1>1, <2>10 DEF WriteShared, LockGuardsFile, Holding
    <3>2. ~runtimes[r].stored /\ runtimes[r].base = sharedFile
      BY <1>1, <2>10 DEF WriteShared, ChangesNumbered, LockGuardsFile
    <3>3. CASE GoesTo(r, "release") /\ UNCHANGED sharedFile
      BY <1>1, <1>2, <2>1, <2>10, <3>1, <3>2, <3>3
         DEF WriteShared, GoesTo, LockGuardsFile, Holding, ConfirmedChangeStands, Runtime
    <3>4. CASE /\ sharedFile' = Base(r) \cup {runtimes[r].change}
               /\ runtimes' = [runtimes EXCEPT ![r] = [@ EXCEPT !.at = "release", !.stored = TRUE,
                                                               !.base = sharedFile']]
      <4>1. sharedFile' = sharedFile \cup {runtimes[r].change}
        BY <3>2, <3>4 DEF Base
      <4>2. /\ runtimes'[r] = [runtimes[r] EXCEPT !.at = "release", !.stored = TRUE, !.base = sharedFile']
            /\ \A q \in Runtimes \ {r} : runtimes'[q] = runtimes[q]
        BY <1>2, <3>4
      <4>3. runtimes'[r].at = "release" /\ runtimes'[r].change = runtimes[r].change
        BY <2>1, <4>2 DEF Runtime
      <4> QED BY <1>1, <2>10, <3>1, <4>1, <4>2, <4>3
              DEF WriteShared, LockGuardsFile, Holding, ConfirmedChangeStands
    <3> QED BY <2>10, <3>3, <3>4 DEF WriteShared
  <2>11. CASE Release(r)
    <3>1. Holding(r) /\ stateLock.by = r /\ \A q \in Runtimes \ {r} : ~Holding(q)
      BY <1>1, <2>11 DEF Release, LockGuardsFile, Holding
    <3> QED BY <1>1, <1>2, <2>1, <2>11, <3>1
            DEF Release, LockGuardsFile, Holding, ConfirmedChangeStands, Runtime
  <2>12. CASE CheckReleased(r)
    <3>1. stateLock' = stateLock
      BY <1>1, <2>12 DEF CheckReleased, LockGuardsFile
    <3>2. \E memory : NotStored(r, memory)
      BY <2>12 DEF CheckReleased
    <3>3. /\ \A q \in Runtimes \ {r} : runtimes'[q] = runtimes[q]
          /\ ~runtimes'[r].stored /\ runtimes'[r].at = "idle"
      BY <1>2, <3>2 DEF NotStored, IdleRuntime
    <3>4. confirmed' \subseteq sharedFile /\ sharedFile' = sharedFile
      BY <1>1, <2>12 DEF CheckReleased, LockGuardsFile
    <3> QED BY <1>1, <3>1, <3>3, <3>4 DEF LockGuardsFile, Holding, ConfirmedChangeStands
  <2>13. CASE RuntimeCrashes(r)
    BY <1>2, <2>1, <2>2, <2>13 DEF RuntimeCrashes, IdleRuntime
  <2> QED BY <1>5, <2>4, <2>5, <2>6, <2>7, <2>8, <2>9, <2>10, <2>11, <2>12, <2>13
          DEF RuntimeStep
<1> QED BY <1>4, <1>5 DEF RuntimeStateNext

\* Every step of the runtimes keeps the invariant of their shared state.
LEMMA StateInvStep == StateInv /\ [RuntimeStateNext]_stateVars => StateInv'
<1>1. StateInv /\ RuntimeStateNext => StateInv'
  BY StateTypeStep, NumberedStep, LockGuardStep DEF StateInv
<1>2. StateInv /\ UNCHANGED stateVars => StateInv'
  BY DEF StateInv, stateVars, RuntimeStateTypeOK, ChangesNumbered, LockGuardsFile, Holding,
         ConfirmedChangeStands
<1> QED BY <1>1, <1>2

\* The invariant of the shared state holds always.
THEOREM StateInvariant == RuntimeStateSpec => []StateInv
BY StateInvInit, StateInvStep, PTL DEF RuntimeStateSpec

\* updateShared and withFileLock: for any number of runtimes and changes, a
\* change that was reported as stored stays in the file, whatever the others
\* read, write, steal or lose by a crash, as long as no lock file was taken for
\* a stale one just after another runtime had renewed it.
THEOREM ConfirmedChangesStand == RuntimeStateSpec => []ConfirmedChangeStands
<1>1. StateInv => ConfirmedChangeStands
  BY DEF StateInv, ConfirmedChangeStands
<1> QED BY StateInvariant, <1>1, PTL

-----------------------------------------------------------------------------
(* The tunnel lock                                                        *)

LockPlaces == {"out", "read", "probe", "publish", "move", "verify", "link", "tidy",
               "let_go", "take_down", "taken_down", "leave"}
User == [life : 0 .. MaxLives, claim : BOOLEAN, seen : Owners, at : LockPlaces]

\* Only a process that runs holds the lock or is in the section.
UserRuns == \A p \in Procs : users[p].claim \/ users[p].at # "out" => users[p].life > 0

\* What a process in the section knows of the file, the mutex being its own:
\* the record it read is still there or has been moved aside by it, and the
\* owner it found dead stays dead.
InSection(p) ==
  /\ users[p].at # "out" => mutex = p
  /\ users[p].at \in {"probe", "move"} => lockFile = users[p].seen
  /\ users[p].at \in {"probe", "move", "verify", "link", "tidy"} => users[p].seen # NoOwner
  /\ users[p].at \in {"move", "verify", "link", "tidy"} => ~LiveOwner(users[p].seen)
  /\ users[p].at \in {"verify", "link", "tidy"} => aside[p] = users[p].seen
  /\ users[p].at \in {"verify", "link", "taken_down"} => lockFile = NoOwner
  /\ users[p].at = "take_down" => lockFile = Me(p)
  /\ users[p].at = "taken_down" => aside[p] = Me(p)
  /\ users[p].at \in {"let_go", "take_down", "taken_down"} => users[p].claim

\* A holder is recorded in the file, unless it is just taking its record down.
HolderRecorded(p) == users[p].claim => lockFile = Me(p) \/ users[p].at = "taken_down"

\* The guarantee ends with the first helper that is killed.
Guarded == ~lost => \A p \in Procs : InSection(p) /\ HolderRecorded(p)

LockInv == TunnelLockTypeOK /\ UserRuns /\ Guarded

\* What the proofs use of the constants of the tunnel lock.
LEMMA LockConstants ==
  /\ MaxLives \in Nat /\ MaxLives > 0 /\ "none" \notin Procs
  /\ NoOwner \in Owners /\ NoUser \in User
  /\ NoUser.life = 0 /\ ~NoUser.claim /\ NoUser.at = "out" /\ NoUser.seen = NoOwner
  /\ \A life \in 1 .. MaxLives :
       LET user == [NoUser EXCEPT !.life = life] IN
         user \in User /\ user.life = life /\ ~user.claim /\ user.at = "out"
<1>1. NoOwner \in Owners
  BY DEF Owners, NoOwner
<1>2. 0 \in 0 .. MaxLives
  BY TunnelLockAssumption
<1>3. NoUser \in User
  BY <1>1, <1>2 DEF NoUser, User, LockPlaces
<1>4. NoUser.life = 0 /\ ~NoUser.claim /\ NoUser.at = "out" /\ NoUser.seen = NoOwner
  BY DEF NoUser
<1>5. ASSUME NEW life \in 1 .. MaxLives
      PROVE  LET user == [NoUser EXCEPT !.life = life] IN
               user \in User /\ user.life = life /\ ~user.claim /\ user.at = "out"
  BY <1>3, <1>4, TunnelLockAssumption DEF User
<1> QED BY <1>1, <1>3, <1>4, <1>5, TunnelLockAssumption

\* The invariant of the tunnel lock holds at first.
LEMMA LockInvInit == TunnelLockInit => LockInv
<1> SUFFICES ASSUME TunnelLockInit PROVE LockInv
  OBVIOUS
<1>1. TunnelLockTypeOK
  <2>1. lockFile \in Owners
    BY LockConstants DEF TunnelLockInit, Owners
  <2>2. users \in [Procs -> User] /\ aside \in [Procs -> Owners]
    BY LockConstants DEF TunnelLockInit
  <2> QED BY <2>1, <2>2 DEF TunnelLockInit, TunnelLockTypeOK, User, LockPlaces
<1>2. \A p \in Procs : users[p].at = "out" /\ ~users[p].claim
  BY LockConstants DEF TunnelLockInit
<1> QED BY <1>1, <1>2 DEF LockInv, UserRuns, Guarded, InSection, HolderRecorded

\* The record of a process that runs is an owner's, and of no other process.
LEMMA OwnRecord ==
  ASSUME LockInv, NEW p \in Procs, users[p].life > 0
  PROVE  /\ Me(p) \in Owners /\ Me(p) # NoOwner /\ LiveOwner(Me(p))
         /\ \A q \in Procs : Me(q) = Me(p) => q = p
BY LockConstants DEF LockInv, TunnelLockTypeOK, Me, NoOwner, Owners, LiveOwner

\* What the steps of a process leave alone.
LEMMA OthersStay ==
  ASSUME LockInv, NEW p \in Procs, UserStep(p), NEW q \in Procs, q # p
  PROVE  users'[q] = users[q] /\ aside'[q] = aside[q]
BY DEF LockInv, TunnelLockTypeOK, UserStep, BeginAcquire, EnterSection, ReadLock, ProbeOwner, PublishOwner,
       MoveStaleOwner, VerifyStaleOwner, LinkOwner, Tidy, BeginRelease, CheckOwn, TakeDown,
       VerifyTakenDown, LeaveSection, EndScript, StartProcess, Crash, HelperDies,
       GoTo, NotReleased, Aside, Restore

\* Every step of the tunnel lock keeps its types.
LEMMA LockTypeStep ==
  ASSUME LockInv, TunnelLockNext
  PROVE  TunnelLockTypeOK'
<1> USE DEF TunnelLockTypeOK
<1>1. PICK p \in Procs : UserStep(p)
  BY DEF TunnelLockNext
<1>2. /\ users \in [Procs -> User] /\ aside \in [Procs -> Owners] /\ lockFile \in Owners
      /\ mutex \in Procs \cup {"none"} /\ lost \in BOOLEAN
  BY DEF LockInv, User, LockPlaces
<1>3. SUFFICES /\ users' \in [Procs -> User] /\ aside' \in [Procs -> Owners] /\ lockFile' \in Owners
               /\ mutex' \in Procs \cup {"none"} /\ lost' \in BOOLEAN
  BY DEF User, LockPlaces
<1>4. ASSUME NEW place \in LockPlaces, GoTo(p, place)
      PROVE  users' \in [Procs -> User]
  BY <1>2, <1>4 DEF GoTo, User
<1>5. ASSUME NotReleased(p)
      PROVE  users' \in [Procs -> User]
  BY <1>2, <1>5 DEF NotReleased, User, LockPlaces
<1>6. Me(p) \in Owners \/ users[p].life = 0
  BY <1>2, LockConstants DEF User, Owners, Me
<1>7. CASE BeginAcquire(p) \/ BeginRelease(p)
  BY <1>2, <1>4, <1>7 DEF BeginAcquire, BeginRelease, EnterSection, LockPlaces
<1>8. CASE ReadLock(p)
  BY <1>2, <1>8 DEF ReadLock, User, LockPlaces
<1>9. CASE ProbeOwner(p)
  BY <1>2, <1>4, <1>9 DEF ProbeOwner, LockPlaces
<1>10. CASE PublishOwner(p)
  <2>1. users' \in [Procs -> User]
    BY <1>2, <1>4, <1>10 DEF PublishOwner, User, LockPlaces
  <2>2. lockFile' \in Owners
    BY <1>2, <1>6, <1>10 DEF PublishOwner, Publish, LockInv, UserRuns
  <2> QED BY <1>2, <1>10, <2>1, <2>2 DEF PublishOwner
<1>11. CASE MoveStaleOwner(p)
  BY <1>2, <1>4, <1>11, LockConstants DEF MoveStaleOwner, Aside, LockPlaces
<1>12. CASE VerifyStaleOwner(p)
  <2>1. lost' \in BOOLEAN /\ lockFile' \in Owners
    BY <1>2, <1>12 DEF VerifyStaleOwner, Restore
  <2> QED BY <1>2, <1>4, <1>12, <2>1, LockConstants DEF VerifyStaleOwner, Restore, LockPlaces
<1>13. CASE LinkOwner(p)
  <2>1. users' \in [Procs -> User]
    BY <1>2, <1>4, <1>13 DEF LinkOwner, User, LockPlaces
  <2>2. lockFile' \in Owners /\ aside' \in [Procs -> Owners]
    BY <1>2, <1>6, <1>13, LockConstants DEF LinkOwner, Publish, Restore, LockInv, UserRuns
  <2>3. lost' \in BOOLEAN
    BY <1>2, <1>13 DEF LinkOwner, Restore
  <2> QED BY <1>2, <1>13, <2>1, <2>2, <2>3 DEF LinkOwner
<1>14. CASE Tidy(p)
  BY <1>2, <1>4, <1>14, LockConstants DEF Tidy, LockPlaces
<1>15. CASE CheckOwn(p)
  BY <1>2, <1>4, <1>5, <1>15 DEF CheckOwn, LockPlaces
<1>16. CASE TakeDown(p)
  BY <1>2, <1>4, <1>5, <1>16, LockConstants DEF TakeDown, Aside, LockPlaces
<1>17. CASE VerifyTakenDown(p)
  <2>1. users' \in [Procs -> User]
    BY <1>2, <1>5, <1>17 DEF VerifyTakenDown, User, LockPlaces
  <2>2. lost' \in BOOLEAN /\ lockFile' \in Owners
    BY <1>2, <1>17 DEF VerifyTakenDown, Restore
  <2> QED BY <1>2, <1>17, <2>1, <2>2, LockConstants DEF VerifyTakenDown, Restore
<1>18. CASE LeaveSection(p)
  BY <1>2, <1>4, <1>18 DEF LeaveSection, ReleaseMutex, LockPlaces
<1>19. CASE EndScript(p) \/ Crash(p)
  BY <1>2, <1>19, LockConstants DEF EndScript, Crash, ReleaseMutex
<1>20. CASE StartProcess(p)
  <2>1. PICK life \in 1 .. MaxLives : users' = [users EXCEPT ![p] = [NoUser EXCEPT !.life = life]]
    BY <1>20 DEF StartProcess
  <2>2. [NoUser EXCEPT !.life = life] \in User
    BY LockConstants DEF User, LockPlaces
  <2> QED BY <1>2, <1>20, <2>1, <2>2 DEF StartProcess
<1>21. CASE HelperDies(p)
  BY <1>2, <1>21 DEF HelperDies
<1> QED BY <1>1, <1>7, <1>8, <1>9, <1>10, <1>11, <1>12, <1>13, <1>14, <1>15, <1>16, <1>17,
           <1>18, <1>19, <1>20, <1>21 DEF UserStep

\* Only a running process gets into the section.
LEMMA UserRunsStep ==
  ASSUME LockInv, TunnelLockNext
  PROVE  UserRuns'
<1>1. PICK p \in Procs : UserStep(p)
  BY DEF TunnelLockNext
<1>2. SUFFICES users'[p].claim \/ users'[p].at # "out" => users'[p].life > 0
  BY <1>1, OthersStay DEF UserRuns, LockInv
<1>3. users \in [Procs -> User] /\ users[p] \in User
  BY DEF LockInv, TunnelLockTypeOK, User, LockPlaces
<1>4. users[p].claim \/ users[p].at # "out" => users[p].life > 0
  BY DEF LockInv, UserRuns
<1>5. ASSUME NEW place \in LockPlaces, GoTo(p, place), users[p].life > 0
      PROVE  users'[p].life > 0
  BY <1>3, <1>5 DEF GoTo, User
<1>6. ASSUME NotReleased(p), users[p].life > 0
      PROVE  users'[p].life > 0
  BY <1>3, <1>6 DEF NotReleased, User
<1>7. CASE BeginAcquire(p) \/ BeginRelease(p)
  BY <1>5, <1>7 DEF BeginAcquire, BeginRelease, EnterSection, LockPlaces
<1>8. CASE ReadLock(p) \/ PublishOwner(p) \/ LinkOwner(p) \/ VerifyTakenDown(p)
  BY <1>3, <1>4, <1>5, <1>6, <1>8 DEF ReadLock, PublishOwner, LinkOwner, VerifyTakenDown, User, LockPlaces
<1>9. CASE ProbeOwner(p) \/ MoveStaleOwner(p) \/ VerifyStaleOwner(p) \/ Tidy(p) \/ CheckOwn(p) \/ TakeDown(p)
           \/ LeaveSection(p)
  BY <1>4, <1>5, <1>6, <1>9 DEF ProbeOwner, MoveStaleOwner, VerifyStaleOwner, Tidy, CheckOwn, TakeDown,
                               LeaveSection, LockPlaces
<1>10. CASE EndScript(p) \/ Crash(p)
  BY <1>3, <1>10, LockConstants DEF EndScript, Crash
<1>11. CASE StartProcess(p)
  <2>1. PICK life \in 1 .. MaxLives : users' = [users EXCEPT ![p] = [NoUser EXCEPT !.life = life]]
    BY <1>11 DEF StartProcess
  <2>2. users'[p].life = life
    BY <1>3, <2>1, LockConstants
  <2> QED BY <2>2, LockConstants
<1>12. CASE HelperDies(p)
  BY <1>4, <1>12 DEF HelperDies
<1> QED BY <1>1, <1>7, <1>8, <1>9, <1>10, <1>11, <1>12 DEF UserStep

\* Nobody else touches the file while a process is in the section.
LEMMA SectionIsAlone ==
  ASSUME LockInv, ~lost, NEW p \in Procs, UserStep(p), NEW q \in Procs, q # p, users[q].at # "out"
  PROVE  /\ lockFile' = lockFile
         /\ (~lost)' => mutex' = mutex
         /\ StartProcess(p) \/ users'[p] = users[p] \/ users'[p] = NoUser
<1>1. mutex = q /\ mutex # p /\ mutex # "none"
  BY LockConstants DEF LockInv, Guarded, InSection
<1>2. users[p].at = "out" /\ users \in [Procs -> User]
  BY <1>1 DEF LockInv, Guarded, InSection, TunnelLockTypeOK, User, LockPlaces
<1>3. StartProcess(p) \/ Crash(p)
  BY <1>1, <1>2 DEF UserStep, BeginAcquire, EnterSection, ReadLock, ProbeOwner, PublishOwner,
       MoveStaleOwner, VerifyStaleOwner, LinkOwner, Tidy, BeginRelease, CheckOwn, TakeDown,
       VerifyTakenDown, LeaveSection, EndScript, HelperDies
<1> QED BY <1>1, <1>2, <1>3 DEF StartProcess, Crash, ReleaseMutex

\* A process keeps its life until it ends; one that starts has a new one.
LEMMA LifeSteps ==
  ASSUME LockInv, NEW p \in Procs, UserStep(p)
  PROVE  \/ users'[p].life = users[p].life
         \/ users'[p] = NoUser
         \/ StartProcess(p)
<1>1. users \in [Procs -> User] /\ users[p] \in User
  BY DEF LockInv, TunnelLockTypeOK, User, LockPlaces
<1>2. ASSUME NEW place \in LockPlaces, GoTo(p, place)
      PROVE  users'[p].life = users[p].life
  BY <1>1, <1>2 DEF GoTo, User
<1>3. ASSUME NotReleased(p)
      PROVE  users'[p].life = users[p].life
  BY <1>1, <1>3 DEF NotReleased, User
<1>4. CASE BeginAcquire(p) \/ BeginRelease(p)
  BY <1>2, <1>4 DEF BeginAcquire, BeginRelease, EnterSection, LockPlaces
<1>5. CASE ReadLock(p) \/ PublishOwner(p) \/ LinkOwner(p) \/ VerifyTakenDown(p)
  BY <1>1, <1>2, <1>3, <1>5 DEF ReadLock, PublishOwner, LinkOwner, VerifyTakenDown, User, LockPlaces
<1>6. CASE ProbeOwner(p) \/ MoveStaleOwner(p) \/ VerifyStaleOwner(p) \/ Tidy(p) \/ CheckOwn(p) \/ TakeDown(p)
           \/ LeaveSection(p)
  BY <1>2, <1>3, <1>6 DEF ProbeOwner, MoveStaleOwner, VerifyStaleOwner, Tidy, CheckOwn, TakeDown,
                          LeaveSection, LockPlaces
<1>7. CASE EndScript(p) \/ Crash(p)
  BY <1>1, <1>7 DEF EndScript, Crash
<1>8. CASE HelperDies(p)
  BY <1>8 DEF HelperDies
<1> QED BY <1>4, <1>5, <1>6, <1>7, <1>8 DEF UserStep

\* An owner found dead stays dead: a pid that is used again starts later.
LEMMA DeadStaysDead ==
  ASSUME LockInv, NEW p \in Procs, UserStep(p), NEW q \in Procs, NEW owner \in Owners \ {NoOwner},
         users[q].seen = owner, ~LiveOwner(owner)
  PROVE  ~LiveOwner(owner)'
<1>1. owner.pid \in Procs /\ owner.life \in 1 .. MaxLives
  BY DEF Owners
<1>2. CASE owner.pid # p
  BY <1>1, <1>2, OthersStay DEF LiveOwner
<1>3. CASE owner.pid = p
  <2>1. CASE users'[p].life = users[p].life
    BY <1>3, <2>1 DEF LiveOwner
  <2>2. CASE users'[p] = NoUser
    BY <1>1, <1>3, <2>2, LockConstants DEF LiveOwner
  <2>3. CASE StartProcess(p)
    <3>1. PICK life \in 1 .. MaxLives :
            /\ users[q].seen.pid = p => life > users[q].seen.life
            /\ users' = [users EXCEPT ![p] = [NoUser EXCEPT !.life = life]]
      BY <2>3 DEF StartProcess
    <3>2. users'[p].life = life
      BY <3>1, LockConstants DEF LockInv, TunnelLockTypeOK
    <3> QED BY <1>1, <1>3, <3>1, <3>2, LockConstants DEF LiveOwner
  <2> QED BY <2>1, <2>2, <2>3, LifeSteps
<1> QED BY <1>2, <1>3

\* A process outside the section, and what is recorded of it, as the others see it.
LEMMA OthersGuarded ==
  ASSUME LockInv, ~lost, NEW p \in Procs, UserStep(p), (~lost)', NEW q \in Procs, q # p
  PROVE  (InSection(q) /\ HolderRecorded(q))'
<1>1. users'[q] = users[q] /\ aside'[q] = aside[q] /\ Me(q)' = Me(q)
  BY OthersStay DEF Me
<1>2. InSection(q) /\ HolderRecorded(q) /\ InSection(p) /\ users[q] \in User /\ users[p] \in User
  BY DEF LockInv, Guarded, TunnelLockTypeOK, User, LockPlaces
<1>3. CASE users[q].at # "out"
  <2>1. lockFile' = lockFile /\ mutex' = mutex
    BY <1>3, SectionIsAlone
  <2>2. users[q].at \in {"move", "verify", "link", "tidy"} => ~LiveOwner(users[q].seen)'
    BY <1>1, <1>2, DeadStaysDead DEF InSection, User, LiveOwner
  <2> QED BY <1>1, <1>2, <2>1, <2>2 DEF InSection, HolderRecorded
<1>4. CASE users[q].at = "out" /\ users[q].claim
  <2>1. lockFile = Me(q) /\ users[q].life > 0
    BY <1>2, <1>4 DEF HolderRecorded, LockInv, UserRuns
  <2>2. lockFile # NoOwner /\ LiveOwner(lockFile) /\ (lockFile = Me(p) => FALSE)
    BY <2>1, OwnRecord
  <2>3. lockFile' = lockFile
    BY <1>2, <2>2 DEF InSection, UserStep, BeginAcquire, EnterSection, ReadLock, ProbeOwner, PublishOwner,
       Publish, MoveStaleOwner, VerifyStaleOwner, LinkOwner, Tidy, BeginRelease, CheckOwn, TakeDown,
       VerifyTakenDown, LeaveSection, EndScript, StartProcess, Crash, HelperDies, Aside, Restore
  <2> QED BY <1>1, <1>4, <2>1, <2>3 DEF InSection, HolderRecorded
<1>5. CASE users[q].at = "out" /\ ~users[q].claim
  BY <1>1, <1>5 DEF InSection, HolderRecorded
<1> QED BY <1>3, <1>4, <1>5

\* The process that takes a step keeps what it knows of the file.
LEMMA OwnGuarded ==
  ASSUME LockInv, ~lost, NEW p \in Procs, UserStep(p), (~lost)'
  PROVE  (InSection(p) /\ HolderRecorded(p))'
<1>1. /\ users \in [Procs -> User] /\ users[p] \in User /\ aside \in [Procs -> Owners]
      /\ lockFile \in Owners
  BY DEF LockInv, TunnelLockTypeOK, User, LockPlaces
<1>2. InSection(p) /\ HolderRecorded(p) /\ (users[p].claim \/ users[p].at # "out" => users[p].life > 0)
  BY DEF LockInv, Guarded, UserRuns
<1>3. \A place \in LockPlaces : GoTo(p, place) => users'[p] = [users[p] EXCEPT !.at = place]
  BY <1>1 DEF GoTo
<1>4. ASSUME NEW place \in LockPlaces, GoTo(p, place)
      PROVE  /\ users'[p].at = place /\ users'[p].seen = users[p].seen /\ users'[p].claim = users[p].claim
             /\ Me(p)' = Me(p)
  BY <1>1, <1>3, <1>4 DEF User, Me
<1>5. ASSUME NotReleased(p)
      PROVE  users'[p].at = "leave" /\ Me(p)' = Me(p)
  BY <1>1, <1>5 DEF NotReleased, User, Me
<1>22. ASSUME users[p].seen # NoOwner, ~LiveOwner(users[p].seen), users'[p].seen = users[p].seen
       PROVE  ~LiveOwner(users[p].seen)'
  BY <1>1, <1>22, DeadStaysDead DEF User, LiveOwner
<1>6. CASE BeginAcquire(p)
  BY <1>2, <1>4, <1>6 DEF BeginAcquire, EnterSection, LockPlaces, InSection, HolderRecorded
<1>7. CASE BeginRelease(p)
  BY <1>2, <1>4, <1>7 DEF BeginRelease, EnterSection, LockPlaces, InSection, HolderRecorded
<1>8. CASE ReadLock(p)
  BY <1>1, <1>2, <1>8 DEF ReadLock, User, LockPlaces, InSection, HolderRecorded, Me
<1>9. CASE ProbeOwner(p)
  BY <1>2, <1>4, <1>9, <1>22 DEF ProbeOwner, LockPlaces, InSection, HolderRecorded
<1>10. CASE PublishOwner(p)
  <2>1. CASE GoTo(p, "leave") /\ UNCHANGED lockFile
    BY <1>2, <1>4, <1>10, <2>1 DEF PublishOwner, LockPlaces, InSection, HolderRecorded
  <2>2. CASE Publish(p) /\ users' = [users EXCEPT ![p] = [@ EXCEPT !.claim = TRUE, !.at = "leave"]]
    <3>1. users'[p] = [users[p] EXCEPT !.claim = TRUE, !.at = "leave"]
      BY <1>1, <2>2
    <3>2. users'[p].at = "leave" /\ users'[p].life = users[p].life
      BY <1>1, <3>1 DEF User
    <3> QED BY <1>2, <1>10, <2>2, <3>2 DEF PublishOwner, Publish, InSection, HolderRecorded, Me
  <2> QED BY <1>10, <2>1, <2>2 DEF PublishOwner
<1>11. CASE MoveStaleOwner(p)
  <2>1. lockFile = users[p].seen /\ users[p].seen # NoOwner /\ ~LiveOwner(users[p].seen)
    BY <1>2, <1>11 DEF MoveStaleOwner, InSection
  <2>2. ~users[p].claim
    BY <1>2, <1>11, <2>1, OwnRecord DEF MoveStaleOwner, HolderRecorded
  <2> QED BY <1>1, <1>2, <1>4, <1>11, <1>22, <2>1, <2>2
          DEF MoveStaleOwner, Aside, LockPlaces, InSection, HolderRecorded
<1>12. CASE VerifyStaleOwner(p)
  BY <1>1, <1>2, <1>4, <1>12, <1>22 DEF VerifyStaleOwner, Restore, LockPlaces, InSection, HolderRecorded
<1>13. CASE LinkOwner(p)
  <2>1. CASE Publish(p) /\ users' = [users EXCEPT ![p] = [@ EXCEPT !.claim = TRUE, !.at = "tidy"]]
             /\ UNCHANGED aside
    <3>1. users'[p] = [users[p] EXCEPT !.claim = TRUE, !.at = "tidy"]
      BY <1>1, <2>1
    <3>2. /\ users'[p].at = "tidy" /\ users'[p].life = users[p].life /\ users'[p].seen = users[p].seen
      BY <1>1, <3>1 DEF User
    <3>3. ~LiveOwner(users[p].seen)'
      BY <1>2, <1>13, <1>22, <3>2 DEF LinkOwner, InSection
    <3> QED BY <1>2, <1>13, <2>1, <3>2, <3>3 DEF LinkOwner, Publish, InSection, HolderRecorded, Me
  <2>2. lockFile = NoOwner
    BY <1>2, <1>13 DEF LinkOwner, InSection
  <2> QED BY <1>13, <2>1, <2>2 DEF LinkOwner
<1>14. CASE Tidy(p)
  BY <1>1, <1>2, <1>4, <1>14 DEF Tidy, LockPlaces, InSection, HolderRecorded
<1>15. CASE CheckOwn(p)
  BY <1>1, <1>2, <1>4, <1>5, <1>15 DEF CheckOwn, LockPlaces, InSection, HolderRecorded
<1>16. CASE TakeDown(p)
  BY <1>1, <1>2, <1>4, <1>5, <1>16 DEF TakeDown, Aside, LockPlaces, InSection, HolderRecorded
<1>17. CASE VerifyTakenDown(p)
  <2>1. CASE users' = [users EXCEPT ![p] = [@ EXCEPT !.claim = FALSE, !.at = "leave"]]
    <3>1. users'[p] = [users[p] EXCEPT !.claim = FALSE, !.at = "leave"]
      BY <1>1, <2>1
    <3>2. users'[p].at = "leave" /\ ~users'[p].claim
      BY <1>1, <3>1 DEF User
    <3> QED BY <1>2, <1>17, <3>2 DEF VerifyTakenDown, InSection, HolderRecorded
  <2>2. CASE NotReleased(p) /\ Restore(p)
    <3>1. aside[p] = Me(p) /\ lockFile = NoOwner
      BY <1>2, <1>17 DEF VerifyTakenDown, InSection
    <3> QED BY <1>2, <1>5, <1>17, <2>2, <3>1 DEF VerifyTakenDown, Restore, InSection, HolderRecorded
  <2> QED BY <1>17, <2>1, <2>2 DEF VerifyTakenDown
<1>18. CASE LeaveSection(p)
  BY <1>2, <1>4, <1>18 DEF LeaveSection, LockPlaces, InSection, HolderRecorded
<1>19. CASE EndScript(p) \/ Crash(p)
  BY <1>1, <1>19, LockConstants DEF EndScript, Crash, InSection, HolderRecorded
<1>20. CASE StartProcess(p)
  BY <1>1, <1>20, LockConstants DEF StartProcess, InSection, HolderRecorded
<1>21. CASE HelperDies(p)
  BY <1>21 DEF HelperDies
<1> QED BY <1>6, <1>7, <1>8, <1>9, <1>10, <1>11, <1>12, <1>13, <1>14, <1>15, <1>16, <1>17, <1>18,
           <1>19, <1>20, <1>21 DEF UserStep

\* Every step keeps the invariant of the tunnel lock.
LEMMA LockInvStep == LockInv /\ [TunnelLockNext]_lockVars => LockInv'
<1>1. ASSUME LockInv, TunnelLockNext
      PROVE  LockInv'
  <2>1. PICK p \in Procs : UserStep(p)
    BY <1>1 DEF TunnelLockNext
  <2>2. lost => lost'
    BY <2>1 DEF UserStep, BeginAcquire, EnterSection, ReadLock, ProbeOwner, PublishOwner,
       MoveStaleOwner, VerifyStaleOwner, LinkOwner, Tidy, BeginRelease, CheckOwn, TakeDown,
       VerifyTakenDown, LeaveSection, EndScript, StartProcess, Crash, HelperDies, Restore
  <2>3. Guarded'
    BY <1>1, <2>1, <2>2, OwnGuarded, OthersGuarded DEF Guarded
  <2> QED BY <1>1, <2>3, LockTypeStep, UserRunsStep DEF LockInv
<1>2. ASSUME LockInv, UNCHANGED lockVars
      PROVE  LockInv'
  BY <1>2 DEF lockVars, LockInv, TunnelLockTypeOK, UserRuns, Guarded, InSection, HolderRecorded, LiveOwner, Me
<1> QED BY <1>1, <1>2

\* The invariant of the tunnel lock holds always.
THEOREM LockInvariant == TunnelLockSpec => []LockInv
BY LockInvInit, LockInvStep, PTL DEF TunnelLockSpec

\* Two processes are never told that they hold the lock.
LEMMA OneHolder ==
  ASSUME LockInv, ~lost, NEW p \in Holders, NEW q \in Holders
  PROVE  p = q
<1>1. /\ p \in Procs /\ users[p].life > 0 /\ InSection(p) /\ HolderRecorded(p) /\ users[p].claim
      /\ q \in Procs /\ users[q].life > 0 /\ InSection(q) /\ HolderRecorded(q) /\ users[q].claim
  BY DEF Holders, LockInv, Guarded, TunnelLockTypeOK
<1>2. Me(p) # NoOwner /\ Me(q) # NoOwner /\ (Me(p) = Me(q) => p = q)
  BY <1>1, OwnRecord
<1> QED BY <1>1, <1>2 DEF InSection, HolderRecorded

\* A process is told that it holds the lock only when nobody holds it.
LEMMA TakenWhenFree ==
  ASSUME LockInv, ~lost, NEW p \in Procs, PublishOwner(p) \/ LinkOwner(p), lockFile = NoOwner
  PROVE  Holders = {}
<1>1. SUFFICES ASSUME NEW q \in Holders PROVE FALSE
  OBVIOUS
<1>2. q \in Procs /\ users[q].life > 0 /\ users[q].claim /\ HolderRecorded(q) /\ InSection(q) /\ InSection(p)
  BY DEF Holders, LockInv, Guarded
<1>3. users[q].at = "taken_down" /\ p # q
  BY <1>2, OwnRecord DEF HolderRecorded, PublishOwner, LinkOwner
<1> QED BY <1>2, <1>3, LockConstants DEF InSection, PublishOwner, LinkOwner

\* Who is a holder after the step: those before it, some of them, or the taker.
LEMMA HoldersStep ==
  ASSUME LockInv, ~lost, NEW p \in Procs, UserStep(p)
  PROVE  \/ Holders' \subseteq Holders
         \/ (PublishOwner(p) \/ LinkOwner(p)) /\ lockFile = NoOwner /\ Holders' \subseteq Holders \cup {p}
                                              /\ p \in Holders'
<1>1. users \in [Procs -> User] /\ users[p] \in User
  BY DEF LockInv, TunnelLockTypeOK, User, LockPlaces
<1>2. \A q \in Procs \ {p} : users'[q] = users[q]
  BY OthersStay
<1>3. users'[p].life > 0 /\ users'[p].claim =>
        \/ users[p].life > 0 /\ users[p].claim
        \/ (PublishOwner(p) \/ LinkOwner(p)) /\ lockFile = NoOwner
  <2>1. /\ users[p].claim => users[p].life > 0
        /\ users[p].at \in {"let_go", "take_down", "taken_down"} => users[p].claim
    BY DEF LockInv, UserRuns, Guarded, InSection
  <2>2. ASSUME NEW place \in LockPlaces, GoTo(p, place)
        PROVE  users'[p].claim = users[p].claim
    BY <1>1, <2>2 DEF GoTo, User
  <2>3. CASE BeginAcquire(p) \/ BeginRelease(p)
    BY <2>1, <2>2, <2>3 DEF BeginAcquire, BeginRelease, EnterSection, LockPlaces
  <2>4. CASE ReadLock(p)
    <3>1. users'[p] = [users[p] EXCEPT !.seen = lockFile, !.at = IF lockFile = NoOwner THEN "publish" ELSE "probe"]
      BY <1>1, <2>4 DEF ReadLock
    <3> QED BY <1>1, <2>1, <3>1 DEF User
  <2>5. CASE PublishOwner(p) \/ LinkOwner(p)
    BY <2>1, <2>2, <2>5 DEF PublishOwner, LinkOwner, Publish, LockPlaces
  <2>6. CASE ProbeOwner(p) \/ MoveStaleOwner(p) \/ VerifyStaleOwner(p) \/ Tidy(p) \/ LeaveSection(p)
    BY <2>1, <2>2, <2>6 DEF ProbeOwner, MoveStaleOwner, VerifyStaleOwner, Tidy, LeaveSection, LockPlaces
  <2>7. CASE CheckOwn(p) \/ TakeDown(p) \/ VerifyTakenDown(p)
    BY <2>1, <2>7 DEF CheckOwn, TakeDown, VerifyTakenDown
  <2>8. CASE EndScript(p) \/ Crash(p)
    BY <1>1, <2>8, LockConstants DEF EndScript, Crash
  <2>9. CASE StartProcess(p)
    BY <1>1, <2>9, LockConstants DEF StartProcess
  <2>10. CASE HelperDies(p)
    BY <2>10 DEF HelperDies
  <2> QED BY <2>3, <2>4, <2>5, <2>6, <2>7, <2>8, <2>9, <2>10 DEF UserStep
<1> QED BY <1>2, <1>3 DEF Holders

\* Every step of the tunnel lock is one of the abstract lock, or none.
LEMMA LockStepRefines ==
  ASSUME LockInv, LockInv', [TunnelLockNext]_lockVars
  PROVE  [Abstract!LetGo \/ \E p \in Procs : Abstract!Take(p)]_(IF lost THEN {} ELSE Holders)
<1>1. CASE UNCHANGED lockVars
  BY <1>1 DEF lockVars, Holders
<1>2. ASSUME NEW p \in Procs, UserStep(p), lost
      PROVE  lost'
  BY <1>2 DEF UserStep, BeginAcquire, EnterSection, ReadLock, ProbeOwner, PublishOwner,
       MoveStaleOwner, VerifyStaleOwner, LinkOwner, Tidy, BeginRelease, CheckOwn, TakeDown,
       VerifyTakenDown, LeaveSection, EndScript, StartProcess, Crash, HelperDies, Restore
<1>3. ASSUME NEW p \in Procs, UserStep(p), ~lost, ~lost'
      PROVE  Holders' = Holders \/ Holders' = {} \/ (Holders = {} /\ Holders' = {p})
  <2>1. CASE Holders' \subseteq Holders
    BY <1>3, <2>1, OneHolder
  <2>2. CASE /\ (PublishOwner(p) \/ LinkOwner(p)) /\ lockFile = NoOwner
             /\ Holders' \subseteq Holders \cup {p} /\ p \in Holders'
    BY <1>3, <2>2, TakenWhenFree
  <2> QED BY <1>3, <2>1, <2>2, HoldersStep
<1>4. CASE TunnelLockNext
  BY <1>2, <1>3, <1>4 DEF TunnelLockNext, Abstract!LetGo, Abstract!Take, Abstract!LockFree
<1> QED BY <1>1, <1>4

\* Until a helper is killed in the section or a record moved aside cannot be put
\* back, the owner file, the mutex and the liveness probes together implement a
\* lock with one holder, for any number of processes, crashes and restarts.
THEOREM LockRefinement == TunnelLockSpec => ImplementsLock
<1>1. TunnelLockInit => Abstract!LockFree
  BY DEF TunnelLockInit, Abstract!LockFree, Holders, NoUser
<1>2. LockInv /\ LockInv' /\ [TunnelLockNext]_lockVars
        => [Abstract!LetGo \/ \E p \in Procs : Abstract!Take(p)]_(IF lost THEN {} ELSE Holders)
  BY LockStepRefines
<1> QED BY <1>1, <1>2, LockInvariant, PTL DEF TunnelLockSpec, ImplementsLock, Abstract!LockSpec

-----------------------------------------------------------------------------
(* The sessions of MCP extensions                                         *)

Slot == [config : Configs, live : BOOLEAN, overlapped : BOOLEAN, queue : Seq(Callers)]

\* A caller's child has been started; no other caller has the one it is connecting.
ChildrenOfCallers ==
  \A c \in Callers :
    /\ Mine(c) \in 0 .. Len(children)
    /\ callers[c].at \in {"list", "queued", "asking"} => Mine(c) # 0
    /\ callers[c].at = "list" => /\ registered # Mine(c)
                                 /\ \A d \in Callers \ {c} : Mine(d) # Mine(c)

\* Only the head of a queue is with the child.
OneAtATime == \A c \in Callers : callers[c].at = "asking" => HeadOf(c)

\* While a session is registered that was connected alone, nobody connects.
RegisteredAlone ==
  registered # 0 /\ ~children[registered].overlapped => \A c \in Callers : ~Connecting(c)

SessionsTypes ==
  /\ callers \in [Callers -> Caller]
  /\ children \in Seq(Slot) /\ Len(children) <= MaxChildren
  /\ registered \in 0 .. Len(children)

SessionsInv == SessionsTypes /\ ChildrenOfCallers /\ OneAtATime /\ RegisteredAlone /\ NoChildIsLostAlone

\* The invariant of the sessions holds at first.
LEMMA SessionsInvInit == McpSessionsInit => SessionsInv
<1> SUFFICES ASSUME McpSessionsInit PROVE SessionsInv
  OBVIOUS
<1>1. children = <<>> /\ Len(children) = 0 /\ children \in Seq(Slot) /\ registered = 0
  BY DEF McpSessionsInit
<1>2. callers \in [Callers -> Caller] /\ \A c \in Callers : callers[c].at = "idle" /\ callers[c].child = 0
  BY MaxChildrenAssumption DEF McpSessionsInit, Caller, CallerPlaces, MaxChildrenAssumption
<1> QED BY <1>1, <1>2, MaxChildrenAssumption DEF SessionsInv, SessionsTypes, ChildrenOfCallers, OneAtATime, RegisteredAlone, NoChildIsLostAlone,
          Mine, MaxChildrenAssumption

\* What a change of one child leaves of the others.
LEMMA ChildChange ==
  ASSUME SessionsTypes, NEW k \in 1 .. Len(children), NEW slot \in Slot,
         children' = [children EXCEPT ![k] = slot]
  PROVE  /\ children' \in Seq(Slot) /\ Len(children') = Len(children)
         /\ children'[k] = slot
         /\ \A j \in 1 .. Len(children) : j # k => children'[j] = children[j]
BY ExceptSeq DEF SessionsTypes

\* A kill.
LEMMA KillStep ==
  ASSUME SessionsTypes, NEW k \in 1 .. Len(children), children' = Killed(k)
  PROVE  /\ children' \in Seq(Slot) /\ Len(children') = Len(children)
         /\ ~children'[k].live
         /\ \A j \in 1 .. Len(children) : /\ children'[j].overlapped = children[j].overlapped
                                          /\ children'[j].queue = children[j].queue
                                          /\ j # k => children'[j] = children[j]
<1> DEFINE slot == [children[k] EXCEPT !.live = FALSE]
<1>1. children[k] \in Slot
  BY ElementOfSeq DEF SessionsTypes
<1>2. slot \in Slot /\ slot.overlapped = children[k].overlapped /\ slot.queue = children[k].queue /\ ~slot.live
  BY <1>1 DEF Slot
<1>3. children' = [children EXCEPT ![k] = slot]
  BY DEF Killed
<1> HIDE DEF slot
<1> QED BY <1>2, <1>3, ChildChange

\* A change of one queue.
LEMMA QueueStep ==
  ASSUME SessionsTypes, NEW k \in 1 .. Len(children), NEW q \in Seq(Callers),
         children' = [children EXCEPT ![k] = [children[k] EXCEPT !.queue = q]]
  PROVE  /\ children' \in Seq(Slot) /\ Len(children') = Len(children)
         /\ children'[k].queue = q
         /\ \A j \in 1 .. Len(children) : /\ children'[j].overlapped = children[j].overlapped
                                          /\ children'[j].live = children[j].live
                                          /\ j # k => children'[j] = children[j]
<1> DEFINE slot == [children[k] EXCEPT !.queue = q]
<1>1. children[k] \in Slot
  BY ElementOfSeq DEF SessionsTypes
<1>2. slot \in Slot /\ slot.overlapped = children[k].overlapped /\ slot.live = children[k].live /\ slot.queue = q
  BY <1>1 DEF Slot
<1> HIDE DEF slot
<1>3. children' = [children EXCEPT ![k] = slot]
  BY DEF slot
<1>4. /\ children' \in Seq(Slot) /\ Len(children') = Len(children) /\ children'[k] = slot
      /\ \A j \in 1 .. Len(children) : j # k => children'[j] = children[j]
  BY <1>2, <1>3, ChildChange
<1> QED BY <1>2, <1>4

\* A caller that moves on.
LEMMA GoStep ==
  ASSUME SessionsTypes, NEW c \in Callers, NEW place \in CallerPlaces, Go(c, place)
  PROVE  /\ callers' \in [Callers -> Caller]
         /\ callers'[c].at = place
         /\ \A d \in Callers : /\ callers'[d].child = callers[d].child
                               /\ d # c => callers'[d] = callers[d]
<1>1. [callers[c] EXCEPT !.at = place] \in Caller
  BY DEF SessionsTypes, Caller
<1> QED BY <1>1 DEF Go, SessionsTypes, Caller

\* A step that closes the registered session, or none.
LEMMA DropKeeps ==
  ASSUME SessionsInv, registered # 0, registered' = 0, children' = Killed(registered),
         callers' \in [Callers -> Caller],
         \A c \in Callers : /\ callers'[c].child = callers[c].child
                            /\ callers'[c].at \in {"list", "queued", "asking"} => callers'[c].at = callers[c].at
                            /\ callers[c].at = "list" => callers'[c].at = "list"
  PROVE  SessionsInv'
<1> USE DEF SessionsInv
<1>1. registered \in 1 .. Len(children)
  BY DEF SessionsTypes
<1>2. /\ children' \in Seq(Slot) /\ Len(children') = Len(children)
      /\ ~children'[registered].live
      /\ \A j \in 1 .. Len(children) : /\ children'[j].overlapped = children[j].overlapped
                                       /\ children'[j].queue = children[j].queue
                                       /\ j # registered => children'[j] = children[j]
  BY <1>1, KillStep
<1>3. SessionsTypes'
  BY <1>1, <1>2 DEF SessionsTypes
<1>4. ChildrenOfCallers'
  BY <1>1, <1>2 DEF ChildrenOfCallers, Mine
<1>5. OneAtATime'
  BY <1>1, <1>2 DEF OneAtATime, HeadOf, ChildrenOfCallers, Mine, SessionsTypes
<1>6. RegisteredAlone'
  BY DEF RegisteredAlone
<1>7. NoChildIsLostAlone'
  BY <1>1, <1>2 DEF NoChildIsLostAlone, Mine
<1> QED BY <1>3, <1>4, <1>5, <1>6, <1>7

\* A step of one caller that leaves the sessions alone.
LEMMA CallerMoves ==
  ASSUME SessionsInv, NEW c \in Callers, UNCHANGED <<children, registered>>,
         callers' \in [Callers -> Caller], callers'[c].child = callers[c].child,
         \A d \in Callers : d # c => callers'[d] = callers[d],
         callers[c].at # "list",
         callers'[c].at \notin {"list", "queued"},
         callers'[c].at = "asking" => callers[c].at = "queued" /\ HeadOf(c),
         callers'[c].at \in {"replace", "connect"} => Connecting(c) \/ registered = 0
  PROVE  SessionsInv'
<1> USE DEF SessionsInv
<1>1. SessionsTypes'
  BY DEF SessionsTypes
<1>2. ChildrenOfCallers'
  BY DEF ChildrenOfCallers, Mine
<1>3. OneAtATime'
  BY DEF OneAtATime, HeadOf, Mine
<1>4. RegisteredAlone'
  BY DEF RegisteredAlone, Connecting
<1>5. NoChildIsLostAlone'
  BY DEF NoChildIsLostAlone, Mine
<1> QED BY <1>1, <1>2, <1>3, <1>4, <1>5

\* A request that leaves its queue, or enters it again behind the others.
LEMMA DequeueKeeps ==
  ASSUME SessionsInv, NEW c \in Callers, callers[c].at = "asking", UNCHANGED registered,
         callers' \in [Callers -> Caller], callers'[c].child = callers[c].child,
         \A d \in Callers : d # c => callers'[d] = callers[d],
         callers'[c].at \in {"queued", "failed", "answered"},
         NEW q \in Seq(Callers), children' = [children EXCEPT ![Mine(c)] = [children[Mine(c)] EXCEPT !.queue = q]]
  PROVE  SessionsInv'
<1> USE DEF SessionsInv
<1>1. Mine(c) \in 1 .. Len(children)
  BY DEF ChildrenOfCallers, SessionsTypes
<1>2. /\ children' \in Seq(Slot) /\ Len(children') = Len(children)
      /\ \A j \in 1 .. Len(children) : /\ children'[j].overlapped = children[j].overlapped
                                       /\ children'[j].live = children[j].live
                                       /\ j # Mine(c) => children'[j] = children[j]
  BY <1>1, QueueStep
<1>3. \A d \in Callers : callers[d].at = "asking" /\ d # c => Mine(d) # Mine(c)
  BY DEF OneAtATime, HeadOf
<1>4. SessionsTypes'
  BY <1>2 DEF SessionsTypes
<1>9. \A d \in Callers : /\ Mine(d)' = Mine(d)
                         /\ callers'[d].at = "list" <=> callers[d].at = "list"
                         /\ callers'[d].at \in {"queued", "asking"} => callers[d].at \in {"queued", "asking"}
  BY DEF Mine
<1>5. ChildrenOfCallers'
  BY <1>2, <1>9 DEF ChildrenOfCallers
<1>6. OneAtATime'
  <2> SUFFICES ASSUME NEW d \in Callers, callers'[d].at = "asking"
               PROVE  HeadOf(d)'
    BY DEF OneAtATime
  <2>1. d # c /\ callers'[d] = callers[d] /\ Mine(d) # Mine(c)
    BY <1>3
  <2>2. HeadOf(d) /\ Mine(d) \in 1 .. Len(children)
    BY <2>1 DEF OneAtATime, ChildrenOfCallers, SessionsTypes
  <2>3. children'[Mine(d)] = children[Mine(d)] /\ Mine(d)' = Mine(d)
    BY <2>1, <2>2, <1>2 DEF Mine
  <2> QED BY <2>2, <2>3 DEF HeadOf
<1>7. RegisteredAlone'
  BY <1>2 DEF RegisteredAlone, Connecting, SessionsTypes
<1>8. NoChildIsLostAlone'
  BY <1>2, <1>9 DEF NoChildIsLostAlone
<1> QED BY <1>4, <1>5, <1>6, <1>7, <1>8

\* Entering the queue of the registered session.
LEMMA EnsureKeeps == ASSUME SessionsInv, NEW c \in Callers, Ensure(c) PROVE SessionsInv'
<1> USE DEF SessionsInv
<1>1. CASE /\ SameLaunch(c)
           /\ callers' = [callers EXCEPT ![c] = [@ EXCEPT !.at = "queued", !.child = registered,
                                                          !.stage = FirstStage(callers[c].op)]]
           /\ children' = [children EXCEPT ![registered].queue = Append(@, c)]
           /\ UNCHANGED registered
  <2> DEFINE q == Append(children[registered].queue, c)
  <2>1. registered \in 1 .. Len(children)
    BY <1>1 DEF SameLaunch, SessionsTypes
  <2>2. children[registered].queue \in Seq(Callers)
    <3>1. children[registered] \in Slot
      BY <2>1, ElementOfSeq DEF SessionsTypes
    <3> QED BY <3>1 DEF Slot
  <2>3. q \in Seq(Callers) /\ q # <<>>
        /\ (children[registered].queue # <<>> => Head(q) = Head(children[registered].queue))
    BY <2>2, AppendProperties
  <2>4. children' = [children EXCEPT ![registered] = [children[registered] EXCEPT !.queue = q]]
    BY <1>1
  <2> HIDE DEF q
  <2>5. /\ children' \in Seq(Slot) /\ Len(children') = Len(children) /\ children'[registered].queue = q
        /\ \A j \in 1 .. Len(children) : /\ children'[j].overlapped = children[j].overlapped
                                         /\ children'[j].live = children[j].live
                                         /\ j # registered => children'[j] = children[j]
    BY <2>1, <2>3, <2>4, QueueStep
  <2>6. callers[c].at = "ensure" /\ FirstStage(callers[c].op) \in {"catalog", "resources", "run"}
    BY DEF Ensure, FirstStage
  <2>7. /\ callers' \in [Callers -> Caller] /\ callers'[c].at = "queued" /\ callers'[c].child = registered
        /\ \A d \in Callers : d # c => callers'[d] = callers[d]
    <3>1. registered \in 0 .. MaxChildren /\ callers[c] \in Caller
      BY <2>1, <2>6, MaxChildrenAssumption, LenProperties DEF SessionsTypes, MaxChildrenAssumption
    <3>2. [callers[c] EXCEPT !.at = "queued", !.child = registered, !.stage = FirstStage(callers[c].op)] \in Caller
      BY <2>1, <2>6, <3>1 DEF Caller, CallerPlaces
    <3> QED BY <1>1, <3>2 DEF SessionsTypes, Caller
  <2>8. SessionsTypes'
    BY <1>1, <2>5, <2>7 DEF SessionsTypes
  <2>9. ChildrenOfCallers'
    BY <1>1, <2>1, <2>5, <2>6, <2>7 DEF ChildrenOfCallers, Mine
  <2>10. OneAtATime'
    <3> SUFFICES ASSUME NEW d \in Callers, callers'[d].at = "asking"
                 PROVE  HeadOf(d)'
      BY DEF OneAtATime
    <3>1. d # c /\ callers'[d] = callers[d]
      BY <2>7
    <3>2. HeadOf(d) /\ Mine(d) \in 1 .. Len(children) /\ Mine(d)' = Mine(d)
      BY <3>1 DEF OneAtATime, ChildrenOfCallers, SessionsTypes, Mine
    <3> QED BY <3>2, <2>3, <2>5 DEF HeadOf
  <2>11. RegisteredAlone'
    BY <1>1, <2>1, <2>5, <2>7 DEF RegisteredAlone, Connecting
  <2>12. NoChildIsLostAlone'
    BY <1>1, <2>5, <2>6, <2>7 DEF NoChildIsLostAlone, Mine
  <2> QED BY <2>8, <2>9, <2>10, <2>11, <2>12
<1>2. CASE ~SameLaunch(c) /\ registered # 0 /\ registered' = 0 /\ children' = Killed(registered) /\ Go(c, "replace")
  <2>1. /\ callers' \in [Callers -> Caller] /\ callers'[c].at = "replace"
        /\ \A d \in Callers : /\ callers'[d].child = callers[d].child
                              /\ d # c => callers'[d] = callers[d]
    BY <1>2, GoStep DEF CallerPlaces
  <2>2. callers[c].at = "ensure"
    BY DEF Ensure
  <2> QED BY <1>2, <2>1, <2>2, DropKeeps
<1>3. CASE registered = 0 /\ Go(c, "connect") /\ UNCHANGED <<children, registered>>
  <2>1. /\ callers' \in [Callers -> Caller] /\ callers'[c].at = "connect"
        /\ \A d \in Callers : /\ callers'[d].child = callers[d].child
                              /\ d # c => callers'[d] = callers[d]
    BY <1>3, GoStep DEF CallerPlaces
  <2>2. callers[c].at = "ensure"
    BY DEF Ensure
  <2> QED BY <1>3, <2>1, <2>2, CallerMoves
<1> QED BY <1>1, <1>2, <1>3 DEF Ensure

\* A child is started, or is not.
LEMMA ConnectKeeps == ASSUME SessionsInv, NEW c \in Callers, Connect(c) PROVE SessionsInv'
<1> USE DEF SessionsInv
<1>0. callers[c].at = "connect" /\ registered' = registered
  BY DEF Connect
<1>1. CASE /\ Len(children) < MaxChildren
           /\ children' = Append(children, [config |-> callers[c].config, live |-> TRUE,
                                            overlapped |-> FALSE, queue |-> <<>>])
           /\ callers' = [callers EXCEPT ![c] = [@ EXCEPT !.at = "list", !.child = Len(children) + 1]]
  <2> DEFINE slot == [config |-> callers[c].config, live |-> TRUE, overlapped |-> FALSE, queue |-> <<>>]
  <2>1. slot \in Slot /\ Len(children) \in Nat
    BY EmptySeq DEF Slot, SessionsTypes, Caller
  <2> HIDE DEF slot
  <2>2. /\ children' \in Seq(Slot) /\ Len(children') = Len(children) + 1
        /\ \A j \in 1 .. Len(children) : children'[j] = children[j]
    BY <1>1, <2>1, AppendProperties DEF SessionsTypes, slot
  <2>3. /\ callers' \in [Callers -> Caller] /\ callers'[c].at = "list" /\ callers'[c].child = Len(children) + 1
        /\ \A d \in Callers : d # c => callers'[d] = callers[d]
    <3>1. Len(children) + 1 \in 0 .. MaxChildren /\ callers[c] \in Caller
      BY <1>1, <2>1, MaxChildrenAssumption, LenProperties DEF SessionsTypes, MaxChildrenAssumption
    <3>2. [callers[c] EXCEPT !.at = "list", !.child = Len(children) + 1] \in Caller
      BY <1>1, <2>1, <3>1 DEF Caller, CallerPlaces
    <3> QED BY <1>1, <3>2 DEF SessionsTypes, Caller
  <2>4. SessionsTypes'
    BY <1>0, <1>1, <2>1, <2>2, <2>3, MaxChildrenAssumption DEF SessionsTypes, MaxChildrenAssumption
  <2>5. ChildrenOfCallers'
    BY <1>0, <2>1, <2>2, <2>3 DEF ChildrenOfCallers, Mine, SessionsTypes
  <2>6. OneAtATime'
    BY <2>1, <2>2, <2>3 DEF OneAtATime, HeadOf, ChildrenOfCallers, Mine, SessionsTypes
  <2>7. RegisteredAlone'
    BY <1>0, <2>1, <2>2, <2>3 DEF RegisteredAlone, Connecting, SessionsTypes
  <2>8. NoChildIsLostAlone'
    BY <1>0, <2>1, <2>2, <2>3 DEF NoChildIsLostAlone, Mine
  <2> QED BY <2>4, <2>5, <2>6, <2>7, <2>8
<1>2. CASE Go(c, "failed") /\ UNCHANGED children
  <2>1. /\ callers' \in [Callers -> Caller] /\ callers'[c].at = "failed"
        /\ \A d \in Callers : /\ callers'[d].child = callers[d].child
                              /\ d # c => callers'[d] = callers[d]
    BY <1>2, GoStep DEF CallerPlaces
  <2> QED BY <1>0, <1>2, <2>1, CallerMoves
<1> QED BY <1>1, <1>2 DEF Connect

\* The session is entered, or its child closed again.
LEMMA FinishEnsureKeeps == ASSUME SessionsInv, NEW c \in Callers, FinishEnsure(c) PROVE SessionsInv'
<1> USE DEF SessionsInv
<1>0. callers[c].at = "list" /\ Mine(c) \in 1 .. Len(children) /\ Connecting(c)
  BY DEF FinishEnsure, ChildrenOfCallers, SessionsTypes, Connecting
<1>1. CASE /\ registered' = Mine(c)
           /\ callers' = [callers EXCEPT ![c] = [@ EXCEPT !.at = "queued", !.stage = FirstStage(callers[c].op)]]
           /\ children' = [children EXCEPT ![Mine(c)] = [@ EXCEPT !.queue = <<c>>,
                             !.overlapped = \E d \in Callers \ {c} : Connecting(d)]]
  <2> DEFINE others == \E d \in Callers \ {c} : Connecting(d)
             slot == [children[Mine(c)] EXCEPT !.queue = <<c>>, !.overlapped = others]
  <2>1. children[Mine(c)] \in Slot /\ <<c>> \in Seq(Callers)
    BY <1>0, ElementOfSeq DEF SessionsTypes
  <2>2. slot \in Slot
    <3>1. others \in BOOLEAN
      OBVIOUS
    <3> QED BY <2>1, <3>1 DEF Slot
  <2>3. slot.overlapped = others /\ slot.live = children[Mine(c)].live
    BY <2>1 DEF Slot
  <2>4. children' = [children EXCEPT ![Mine(c)] = slot]
    BY <1>1
  <2> HIDE DEF slot, others
  <2>5. /\ children' \in Seq(Slot) /\ Len(children') = Len(children) /\ children'[Mine(c)] = slot
        /\ \A j \in 1 .. Len(children) : j # Mine(c) => children'[j] = children[j]
    BY <1>0, <2>2, <2>4, ChildChange
  <2>6. FirstStage(callers[c].op) \in {"catalog", "resources", "run"}
    BY DEF FirstStage
  <2>7. /\ callers' \in [Callers -> Caller] /\ callers'[c].at = "queued"
        /\ \A d \in Callers : callers'[d].child = callers[d].child /\ (d # c => callers'[d] = callers[d])
    BY <1>1, <2>6 DEF SessionsTypes, Caller, CallerPlaces
  <2>8. SessionsTypes'
    BY <1>0, <1>1, <2>5, <2>7 DEF SessionsTypes
  <2>9. \A d \in Callers : d # c => Mine(d) # Mine(c)
    BY <1>0 DEF ChildrenOfCallers
  <2>10. ChildrenOfCallers'
    BY <1>0, <1>1, <2>5, <2>7, <2>9 DEF ChildrenOfCallers, Mine
  <2>11. OneAtATime'
    BY <1>0, <2>5, <2>7, <2>9 DEF OneAtATime, HeadOf, ChildrenOfCallers, Mine, SessionsTypes
  <2>12. RegisteredAlone'
    <3> SUFFICES ASSUME ~children'[registered'].overlapped, NEW d \in Callers, Connecting(d)'
                 PROVE  FALSE
      BY DEF RegisteredAlone
    <3>1. ~others
      BY <1>1, <2>3, <2>5
    <3>2. d # c /\ Connecting(d)
      BY <2>7 DEF Connecting
    <3> QED BY <3>1, <3>2 DEF others
  <2>13. registered # 0 => registered \in 1 .. Len(children) /\ children[registered].overlapped
    BY <1>0 DEF RegisteredAlone, SessionsTypes
  <2>14. NoChildIsLostAlone'
    BY <1>0, <1>1, <2>5, <2>7, <2>9, <2>13 DEF NoChildIsLostAlone, Mine
  <2> QED BY <2>8, <2>10, <2>11, <2>12, <2>14
<1>2. CASE children' = Abandon(c) /\ Go(c, "failed") /\ UNCHANGED registered
  <2>1. /\ callers' \in [Callers -> Caller] /\ callers'[c].at = "failed"
        /\ \A d \in Callers : /\ callers'[d].child = callers[d].child
                              /\ d # c => callers'[d] = callers[d]
    BY <1>2, GoStep DEF CallerPlaces
  <2>2. /\ children' \in Seq(Slot) /\ Len(children') = Len(children) /\ ~children'[Mine(c)].live
        /\ \A j \in 1 .. Len(children) : /\ children'[j].overlapped = children[j].overlapped
                                         /\ children'[j].queue = children[j].queue
                                         /\ j # Mine(c) => children'[j] = children[j]
    BY <1>0, <1>2, KillStep DEF Abandon
  <2>3. SessionsTypes'
    BY <1>2, <2>1, <2>2 DEF SessionsTypes
  <2>4. ChildrenOfCallers'
    BY <1>2, <2>1, <2>2 DEF ChildrenOfCallers, Mine
  <2>5. OneAtATime'
    BY <2>1, <2>2 DEF OneAtATime, HeadOf, ChildrenOfCallers, Mine, SessionsTypes
  <2>6. RegisteredAlone'
    BY <1>2, <2>1, <2>2 DEF RegisteredAlone, Connecting, SessionsTypes
  <2>7. NoChildIsLostAlone'
    BY <1>0, <1>2, <2>1, <2>2 DEF NoChildIsLostAlone, Mine
  <2> QED BY <2>3, <2>4, <2>5, <2>6, <2>7
<1> QED BY <1>1, <1>2 DEF FinishEnsure

\* Every step with an MCP server keeps the invariant.
LEMMA SessionsInvStep == ASSUME SessionsInv, [McpSessionsNext]_mcpVars PROVE SessionsInv'
<1> USE DEF SessionsInv
<1>1. ASSUME NEW c \in Callers, Ask(c) PROVE SessionsInv'
  <2>1. PICK op \in {"describe", "resources", "call"} :
          callers' = [callers EXCEPT ![c] = [@ EXCEPT !.at = "ensure", !.op = op]]
    BY <1>1 DEF Ask
  <2>2. /\ callers' \in [Callers -> Caller] /\ callers'[c].at = "ensure" /\ callers'[c].child = callers[c].child
        /\ \A d \in Callers : d # c => callers'[d] = callers[d]
    BY <2>1 DEF SessionsTypes, Caller, CallerPlaces
  <2>3. callers[c].at = "idle" /\ UNCHANGED <<children, registered>>
    BY <1>1 DEF Ask
  <2> QED BY <2>2, <2>3, CallerMoves
<1>2. ASSUME NEW c \in Callers, NEW place \in CallerPlaces \ {"list", "queued"}, Go(c, place),
             UNCHANGED <<children, registered>>, callers[c].at # "list",
             place = "asking" => callers[c].at = "queued" /\ HeadOf(c),
             place \in {"replace", "connect"} => Connecting(c) \/ registered = 0
      PROVE  SessionsInv'
  <2>1. /\ callers' \in [Callers -> Caller] /\ callers'[c].at = place
        /\ \A d \in Callers : /\ callers'[d].child = callers[d].child
                              /\ d # c => callers'[d] = callers[d]
    BY <1>2, GoStep
  <2> QED BY <1>2, <2>1, CallerMoves
<1>3. ASSUME NEW c \in Callers, Replaced(c) PROVE SessionsInv'
  BY <1>3, <1>2 DEF Replaced, CallerPlaces, Connecting
<1>4. ASSUME NEW c \in Callers, Issue(c) PROVE SessionsInv'
  BY <1>4, <1>2 DEF Issue, CallerPlaces
<1>5. ASSUME NEW c \in Callers, Closed(c) PROVE SessionsInv'
  BY <1>5, <1>2 DEF Closed, CallerPlaces
<1>6. ASSUME NEW c \in Callers, callers[c].at = "asking"
      PROVE  LET queue == children[Mine(c)].queue IN
             /\ Tail(queue) \in Seq(Callers) /\ Append(Tail(queue), c) \in Seq(Callers)
  <2>1. Mine(c) \in 1 .. Len(children)
    BY <1>6 DEF ChildrenOfCallers, SessionsTypes
  <2>2. children[Mine(c)].queue \in Seq(Callers) /\ children[Mine(c)].queue # <<>>
    <3>1. children[Mine(c)] \in Slot
      BY <2>1, ElementOfSeq DEF SessionsTypes
    <3> QED BY <1>6, <3>1 DEF Slot, OneAtATime, HeadOf
  <2>3. Tail(children[Mine(c)].queue) \in Seq(Callers)
    BY <2>2, HeadTailProperties
  <2> QED BY <2>3, AppendProperties
<1>7. ASSUME NEW c \in Callers, NEW place \in {"failed", "answered"}, callers[c].at = "asking",
             Go(c, place), children' = Dequeued(c), UNCHANGED registered
      PROVE  SessionsInv'
  <2>1. /\ callers' \in [Callers -> Caller] /\ callers'[c].at = place
        /\ \A d \in Callers : /\ callers'[d].child = callers[d].child
                              /\ d # c => callers'[d] = callers[d]
    BY <1>7, GoStep DEF CallerPlaces
  <2>2. children' = [children EXCEPT ![Mine(c)] = [children[Mine(c)] EXCEPT !.queue = Tail(children[Mine(c)].queue)]]
    BY <1>7 DEF Dequeued
  <2> QED BY <1>6, <1>7, <2>1, <2>2, DequeueKeeps
<1>8. ASSUME NEW c \in Callers, Answer(c) PROVE SessionsInv'
  <2>1. callers[c].at = "asking" /\ registered' = registered
    BY <1>8 DEF Answer
  <2>2. CASE /\ callers' = [callers EXCEPT ![c] = [@ EXCEPT !.at = "queued", !.stage = "run"]]
             /\ children' = [children EXCEPT ![Mine(c)].queue = Append(Tail(@), c)]
    <3>1. /\ callers' \in [Callers -> Caller] /\ callers'[c].at = "queued" /\ callers'[c].child = callers[c].child
          /\ \A d \in Callers : d # c => callers'[d] = callers[d]
      BY <2>2 DEF SessionsTypes, Caller, CallerPlaces
    <3>2. children' = [children EXCEPT ![Mine(c)] =
                         [children[Mine(c)] EXCEPT !.queue = Append(Tail(children[Mine(c)].queue), c)]]
      BY <2>2
    <3> QED BY <1>6, <2>1, <3>1, <3>2, DequeueKeeps
  <2>3. CASE Go(c, "answered") /\ children' = Dequeued(c)
    BY <1>7, <2>1, <2>3
  <2> QED BY <1>8, <2>2, <2>3 DEF Answer
<1>9. ASSUME NEW c \in Callers, GiveUp(c) PROVE SessionsInv'
  BY <1>7, <1>9 DEF GiveUp
<1>10. ASSUME NEW c \in Callers, Fail(c) PROVE SessionsInv'
  <2>1. CASE callers[c].op = "describe" \/ registered = 0
    BY <1>2, <1>10, <2>1 DEF Fail, CallerPlaces
  <2>2. CASE ~(callers[c].op = "describe" \/ registered = 0)
    <3>1. Go(c, "closing") /\ registered' = 0 /\ children' = Killed(registered) /\ callers[c].at = "failed"
      BY <1>10, <2>2 DEF Fail
    <3>2. /\ callers' \in [Callers -> Caller] /\ callers'[c].at = "closing"
          /\ \A d \in Callers : /\ callers'[d].child = callers[d].child
                                /\ d # c => callers'[d] = callers[d]
      BY <3>1, GoStep DEF CallerPlaces
    <3> QED BY <2>2, <3>1, <3>2, DropKeeps
  <2> QED BY <2>1, <2>2
<1>11. CASE ChildExits
  <2>1. PICK k \in 1 .. Len(children) : children' = Killed(k) /\ UNCHANGED <<callers, registered>>
    BY <1>11 DEF ChildExits
  <2>2. /\ children' \in Seq(Slot) /\ Len(children') = Len(children)
        /\ ~children'[k].live
        /\ \A j \in 1 .. Len(children) : /\ children'[j].overlapped = children[j].overlapped
                                         /\ children'[j].queue = children[j].queue
                                         /\ j # k => children'[j] = children[j]
    BY <2>1, KillStep
  <2> QED BY <2>1, <2>2 DEF SessionsTypes, ChildrenOfCallers, OneAtATime, HeadOf, RegisteredAlone, Connecting,
            NoChildIsLostAlone, Mine
<1>12. CASE CloseRegistered
  <2>1. registered # 0 /\ registered' = 0 /\ children' = Killed(registered) /\ callers' = callers
    BY <1>12 DEF CloseRegistered
  <2> QED BY <2>1, DropKeeps DEF SessionsTypes
<1>13. CASE UNCHANGED mcpVars
  BY <1>13 DEF mcpVars, SessionsTypes, ChildrenOfCallers, OneAtATime, HeadOf, RegisteredAlone, Connecting,
       NoChildIsLostAlone, Mine
<1> QED BY <1>1, <1>3, <1>4, <1>5, <1>8, <1>9, <1>10, <1>11, <1>12, <1>13, EnsureKeeps, ConnectKeeps,
          FinishEnsureKeeps DEF McpSessionsNext, CallerStep

\* Who waits in the queue of a session, and who is with its child.
InQueue(c) == callers[c].at \in {"queued", "asking"}
QueueOf(k) == children[k].queue

Once(q) == \A i, j \in 1 .. Len(q) : q[i] = q[j] => i = j
Occurs(c, q) == \E i \in 1 .. Len(q) : q[i] = c

\* A queue holds who waits for its child, each once.
QueuesHoldWaiters ==
  \A k \in 1 .. Len(children) :
    /\ Once(QueueOf(k))
    /\ \A c \in Callers : Occurs(c, QueueOf(k)) <=> InQueue(c) /\ Mine(c) = k

\* Entering a queue at its end.
LEMMA EntersQueue ==
  ASSUME NEW q \in Seq(Callers), NEW c \in Callers
  PROVE  /\ \A d : Occurs(d, Append(q, c)) <=> Occurs(d, q) \/ d = c
         /\ Once(q) /\ ~Occurs(c, q) => Once(Append(q, c))
<1>1. PICK r : r = Append(q, c)
  OBVIOUS
<1>2. /\ Len(q) \in Nat /\ Len(r) = Len(q) + 1 /\ r[Len(q) + 1] = c
      /\ \A i \in 1 .. Len(q) : r[i] = q[i]
  BY <1>1, AppendProperties, LenProperties
<1>3. \A i \in 1 .. Len(r) : i \in 1 .. Len(q) \/ i = Len(q) + 1
  BY <1>2
<1>4. \A i \in 1 .. Len(q) : i \in 1 .. Len(r)
  BY <1>2
<1>5. Len(q) + 1 \in 1 .. Len(r)
  BY <1>2
<1>6. \A d : Occurs(d, r) <=> Occurs(d, q) \/ d = c
  BY <1>2, <1>3, <1>4, <1>5 DEF Occurs
<1>7. Once(q) /\ ~Occurs(c, q) => Once(r)
  BY <1>2, <1>3 DEF Once, Occurs
<1> QED BY <1>1, <1>6, <1>7

\* Leaving a queue at its head.
LEMMA LeavesQueue ==
  ASSUME NEW q \in Seq(Callers), q # <<>>, Once(q)
  PROVE  /\ Tail(q) \in Seq(Callers) /\ Once(Tail(q))
         /\ \A d : Occurs(d, Tail(q)) <=> Occurs(d, q) /\ d # Head(q)
<1>1. PICK r : r = Tail(q)
  OBVIOUS
<1>2. /\ Len(q) \in Nat \ {0} /\ r \in Seq(Callers) /\ Len(r) = Len(q) - 1 /\ Head(q) = q[1]
      /\ \A i \in 1 .. Len(r) : r[i] = q[i + 1]
  BY <1>1, HeadTailProperties, LenProperties, EmptySeq
<1>3. \A i \in 1 .. Len(r) : i + 1 \in 1 .. Len(q) /\ i + 1 # 1
  BY <1>2
<1>4. \A i \in 1 .. Len(q) : i # 1 => i - 1 \in 1 .. Len(r) /\ (i - 1) + 1 = i
  BY <1>2
<1>5. Once(r)
  <2> SUFFICES ASSUME NEW i \in 1 .. Len(r), NEW j \in 1 .. Len(r), r[i] = r[j]
               PROVE  i = j
    BY DEF Once
  <2>1. q[i + 1] = q[j + 1] /\ i + 1 \in 1 .. Len(q) /\ j + 1 \in 1 .. Len(q)
    BY <1>2, <1>3
  <2>2. i + 1 = j + 1
    BY <2>1 DEF Once
  <2> QED BY <1>2, <2>2
<1>6. ASSUME NEW d PROVE Occurs(d, r) => Occurs(d, q) /\ d # Head(q)
  <2> SUFFICES ASSUME NEW i \in 1 .. Len(r), r[i] = d PROVE Occurs(d, q) /\ d # Head(q)
    BY DEF Occurs
  <2>1. q[i + 1] = d /\ i + 1 \in 1 .. Len(q) /\ i + 1 # 1 /\ 1 \in 1 .. Len(q)
    BY <1>2, <1>3
  <2> QED BY <1>2, <2>1 DEF Occurs, Once
<1>7. ASSUME NEW d, Occurs(d, q), d # Head(q) PROVE Occurs(d, r)
  <2>1. PICK i \in 1 .. Len(q) : q[i] = d
    BY <1>7 DEF Occurs
  <2>2. i # 1
    BY <1>2, <1>7, <2>1
  <2>3. i - 1 \in 1 .. Len(r) /\ r[i - 1] = q[i]
    BY <1>2, <1>4, <2>2
  <2> QED BY <2>1, <2>3 DEF Occurs
<1> QED BY <1>1, <1>2, <1>5, <1>6, <1>7

\* No queue changes, and nobody begins or ends to wait.
LEMMA QueuesStay ==
  ASSUME QueuesHoldWaiters, Len(children') = Len(children),
         \A k \in 1 .. Len(children) : children'[k].queue = children[k].queue,
         \A c \in Callers : /\ callers'[c].at \in {"queued", "asking"} <=> InQueue(c)
                            /\ InQueue(c) => callers'[c].child = callers[c].child
  PROVE  QueuesHoldWaiters'
BY DEF QueuesHoldWaiters, QueueOf, InQueue, Mine

\* One queue changes, for one caller.
LEMMA QueueChanges ==
  ASSUME QueuesHoldWaiters, NEW c \in Callers, NEW k \in 1 .. Len(children), NEW q,
         Len(children') = Len(children), children'[k].queue = q,
         \A j \in 1 .. Len(children) : j # k => children'[j] = children[j],
         \A d \in Callers : d # c => callers'[d] = callers[d],
         InQueue(c) => Mine(c) = k,
         callers'[c].at \in {"queued", "asking"} => callers'[c].child = k,
         Once(q), Occurs(c, q) <=> callers'[c].at \in {"queued", "asking"},
         \A d \in Callers : d # c => (Occurs(d, q) <=> Occurs(d, QueueOf(k)))
  PROVE  QueuesHoldWaiters'
<1>1. ASSUME NEW j \in 1 .. Len(children), j # k
      PROVE  /\ Once(QueueOf(j)')
             /\ \A d \in Callers : Occurs(d, QueueOf(j)') <=> InQueue(d)' /\ Mine(d)' = j
  <2>1. QueueOf(j)' = QueueOf(j)
    BY <1>1 DEF QueueOf
  <2>2. ~(InQueue(c) /\ Mine(c) = j) /\ ~(InQueue(c)' /\ Mine(c)' = j)
    BY <1>1 DEF InQueue, Mine
  <2>3. \A d \in Callers : InQueue(d)' /\ Mine(d)' = j <=> InQueue(d) /\ Mine(d) = j
    BY <2>2 DEF InQueue, Mine
  <2> QED BY <2>1, <2>3 DEF QueuesHoldWaiters
<1>2. /\ Once(QueueOf(k)')
      /\ \A d \in Callers : Occurs(d, QueueOf(k)') <=> InQueue(d)' /\ Mine(d)' = k
  <2>1. QueueOf(k)' = q
    BY DEF QueueOf
  <2>2. Occurs(c, q) <=> InQueue(c)' /\ Mine(c)' = k
    BY DEF InQueue, Mine
  <2>3. \A d \in Callers : d # c => (Occurs(d, q) <=> InQueue(d)' /\ Mine(d)' = k)
    BY DEF InQueue, Mine, QueuesHoldWaiters
  <2> QED BY <2>1, <2>2, <2>3
<1> QED BY <1>1, <1>2 DEF QueuesHoldWaiters, Once, Occurs, InQueue, Mine, QueueOf

\* Every step with an MCP server keeps the queues: a caller enters the queue of
\* the session it has found or made, and leaves it when it is answered or gives up.
LEMMA QueuesStep ==
  ASSUME SessionsInv, QueuesHoldWaiters, [McpSessionsNext]_mcpVars
  PROVE  QueuesHoldWaiters'
<1> USE DEF SessionsInv
<1>1. \A c \in Callers : callers[c] \in Caller /\ callers[c].at \in CallerPlaces
  BY DEF SessionsTypes, Caller
<1>2. \A k \in 1 .. Len(children) : children[k] \in Slot /\ children[k].queue \in Seq(Callers)
  <2>1. \A k \in 1 .. Len(children) : children[k] \in Slot
    BY ElementOfSeq DEF SessionsTypes
  <2> QED BY <2>1 DEF Slot
<1>3. ASSUME NEW k \in 1 .. Len(children), children' = Killed(k)
      PROVE  /\ Len(children') = Len(children)
             /\ \A j \in 1 .. Len(children) : children'[j].queue = children[j].queue
  BY <1>3, KillStep
<1>4. ASSUME NEW c \in Callers, NEW place \in CallerPlaces, Go(c, place),
             place \in {"queued", "asking"} <=> InQueue(c)
      PROVE  \A d \in Callers : /\ callers'[d].at \in {"queued", "asking"} <=> InQueue(d)
                                /\ InQueue(d) => callers'[d].child = callers[d].child
  <2>1. /\ callers'[c].at = place
        /\ \A d \in Callers : /\ callers'[d].child = callers[d].child
                              /\ d # c => callers'[d] = callers[d]
    BY <1>4, GoStep
  <2> QED BY <1>4, <2>1 DEF InQueue
<1>5. ASSUME NEW c \in Callers, NEW place \in CallerPlaces, Go(c, place),
             place \in {"queued", "asking"} <=> InQueue(c), UNCHANGED children
      PROVE  QueuesHoldWaiters'
  BY <1>4, <1>5, QueuesStay
<1>6. ASSUME NEW c \in Callers, NEW place \in CallerPlaces, Go(c, place),
             place \notin {"queued", "asking"}, ~InQueue(c),
             NEW k \in 1 .. Len(children), children' = Killed(k)
      PROVE  QueuesHoldWaiters'
  BY <1>3, <1>4, <1>6, QueuesStay
<1>7. ASSUME NEW c \in Callers, Ask(c) PROVE QueuesHoldWaiters'
  <2>1. PICK op \in {"describe", "resources", "call"} :
          callers' = [callers EXCEPT ![c] = [@ EXCEPT !.at = "ensure", !.op = op]]
    BY <1>7 DEF Ask
  <2>2. /\ callers'[c].at = "ensure" /\ callers[c].at = "idle" /\ children' = children
        /\ \A d \in Callers : d # c => callers'[d] = callers[d]
    BY <1>7, <2>1 DEF Ask, SessionsTypes, Caller
  <2> QED BY <2>2, QueuesStay DEF InQueue
<1>8. ASSUME NEW c \in Callers, Ensure(c) PROVE QueuesHoldWaiters'
  <2>0. callers[c].at = "ensure" /\ ~InQueue(c)
    BY <1>8 DEF Ensure, InQueue
  <2>1. CASE /\ SameLaunch(c)
             /\ callers' = [callers EXCEPT ![c] = [@ EXCEPT !.at = "queued", !.child = registered,
                                                            !.stage = FirstStage(callers[c].op)]]
             /\ children' = [children EXCEPT ![registered].queue = Append(@, c)]
    <3>1. registered \in 1 .. Len(children)
      BY <2>1 DEF SameLaunch, SessionsTypes
    <3>2. PICK q : q = Append(children[registered].queue, c)
      OBVIOUS
    <3>3. children' = [children EXCEPT ![registered] = [children[registered] EXCEPT !.queue = q]]
      BY <2>1, <3>2
    <3>4. q \in Seq(Callers)
      BY <1>2, <3>1, <3>2, AppendProperties
    <3>5. /\ Len(children') = Len(children) /\ children'[registered].queue = q
          /\ \A j \in 1 .. Len(children) : j # registered => children'[j] = children[j]
      BY <3>1, <3>3, <3>4, QueueStep
    <3>6. Once(QueueOf(registered)) /\ ~Occurs(c, QueueOf(registered))
      BY <2>0, <3>1 DEF QueuesHoldWaiters
    <3>7. Once(q) /\ \A d : Occurs(d, q) <=> Occurs(d, QueueOf(registered)) \/ d = c
      BY <1>2, <3>1, <3>2, <3>6, EntersQueue DEF QueueOf
    <3>8. /\ callers'[c].at = "queued" /\ callers'[c].child = registered
          /\ \A d \in Callers : d # c => callers'[d] = callers[d]
      BY <2>1 DEF SessionsTypes, Caller
    <3> QED BY <2>0, <3>1, <3>5, <3>7, <3>8, QueueChanges
  <2>2. CASE registered # 0 /\ children' = Killed(registered) /\ Go(c, "replace")
    <3>1. registered \in 1 .. Len(children)
      BY <2>2 DEF SessionsTypes
    <3> QED BY <1>6, <2>0, <2>2, <3>1 DEF CallerPlaces
  <2>3. CASE Go(c, "connect") /\ UNCHANGED children
    BY <1>5, <2>0, <2>3 DEF CallerPlaces
  <2> QED BY <1>8, <2>1, <2>2, <2>3 DEF Ensure
<1>9. ASSUME NEW c \in Callers, Replaced(c) \/ Issue(c) \/ Closed(c) PROVE QueuesHoldWaiters'
  BY <1>5, <1>9 DEF Replaced, Issue, Closed, CallerPlaces, InQueue
<1>10. ASSUME NEW c \in Callers, Connect(c) PROVE QueuesHoldWaiters'
  <2>0. callers[c].at = "connect" /\ ~InQueue(c)
    BY <1>10 DEF Connect, InQueue
  <2>1. CASE /\ children' = Append(children, [config |-> callers[c].config, live |-> TRUE,
                                              overlapped |-> FALSE, queue |-> <<>>])
             /\ callers' = [callers EXCEPT ![c] = [@ EXCEPT !.at = "list", !.child = Len(children) + 1]]
    <3>1. PICK slot : slot = [config |-> callers[c].config, live |-> TRUE, overlapped |-> FALSE,
                              queue |-> <<>>]
      OBVIOUS
    <3>2. slot \in Slot /\ slot.queue = <<>>
      BY <1>1, <3>1, EmptySeq DEF Slot, Caller
    <3>3. /\ Len(children) \in Nat /\ Len(children') = Len(children) + 1
          /\ children'[Len(children) + 1] = slot
          /\ \A j \in 1 .. Len(children) : children'[j] = children[j]
      BY <2>1, <3>1, <3>2, AppendProperties, LenProperties DEF SessionsTypes
    <3>4. /\ callers'[c].at = "list"
          /\ \A d \in Callers : d # c => callers'[d] = callers[d]
      BY <2>1 DEF SessionsTypes, Caller
    <3>5. \A d \in Callers : (InQueue(d)' <=> InQueue(d)) /\ (InQueue(d) => Mine(d)' = Mine(d))
      BY <2>0, <3>4 DEF InQueue, Mine
    <3>6. ASSUME NEW k \in 1 .. Len(children)
          PROVE  /\ Once(QueueOf(k)')
                 /\ \A d \in Callers : Occurs(d, QueueOf(k)') <=> InQueue(d)' /\ Mine(d)' = k
      <4>1. QueueOf(k)' = QueueOf(k)
        BY <3>3 DEF QueueOf
      <4> QED BY <3>5, <4>1 DEF QueuesHoldWaiters
    <3>7. ASSUME NEW k, k = Len(children) + 1
          PROVE  /\ Once(QueueOf(k)')
                 /\ \A d \in Callers : Occurs(d, QueueOf(k)') <=> InQueue(d)' /\ Mine(d)' = k
      <4>1. QueueOf(k)' = <<>>
        BY <3>2, <3>3, <3>7 DEF QueueOf
      <4>2. Once(<<>>) /\ \A d \in Callers : ~Occurs(d, <<>>)
        BY DEF Once, Occurs
      <4>3. \A d \in Callers : Mine(d) \in 0 .. Len(children)
        BY DEF ChildrenOfCallers
      <4>4. \A d \in Callers : InQueue(d) => Mine(d) # k
        BY <3>3, <3>7, <4>3
      <4> QED BY <3>5, <4>1, <4>2, <4>4
    <3>8. \A k \in 1 .. Len(children') : k \in 1 .. Len(children) \/ k = Len(children) + 1
      BY <3>3
    <3> QED BY <3>6, <3>7, <3>8 DEF QueuesHoldWaiters, Once, Occurs, InQueue, Mine, QueueOf
  <2>2. CASE Go(c, "failed") /\ UNCHANGED children
    BY <1>5, <2>0, <2>2 DEF CallerPlaces
  <2> QED BY <1>10, <2>1, <2>2 DEF Connect
<1>11. ASSUME NEW c \in Callers, FinishEnsure(c) PROVE QueuesHoldWaiters'
  <2>0. /\ callers[c].at = "list" /\ ~InQueue(c) /\ Mine(c) \in 1 .. Len(children)
        /\ \A d \in Callers : d # c => Mine(d) # Mine(c)
    BY <1>11 DEF FinishEnsure, InQueue, ChildrenOfCallers, SessionsTypes
  <2>1. CASE /\ callers' = [callers EXCEPT ![c] = [@ EXCEPT !.at = "queued",
                                                            !.stage = FirstStage(callers[c].op)]]
             /\ children' = [children EXCEPT ![Mine(c)] = [@ EXCEPT !.queue = <<c>>,
                               !.overlapped = \E d \in Callers \ {c} : Connecting(d)]]
    <3>1. PICK slot : slot = [children[Mine(c)] EXCEPT !.queue = <<c>>,
                                !.overlapped = \E d \in Callers \ {c} : Connecting(d)]
      OBVIOUS
    <3>2. slot.queue = <<c>>
      BY <1>2, <2>0, <3>1 DEF Slot
    <3>3. slot \in Slot
      <4> DEFINE others == \E d \in Callers \ {c} : Connecting(d)
      <4>1. others \in BOOLEAN
        OBVIOUS
      <4>2. <<c>> \in Seq(Callers)
        OBVIOUS
      <4>3. slot = [children[Mine(c)] EXCEPT !.queue = <<c>>, !.overlapped = others]
        BY <3>1
      <4> HIDE DEF others
      <4> QED BY <1>2, <2>0, <4>1, <4>2, <4>3 DEF Slot
    <3>4. children' = [children EXCEPT ![Mine(c)] = slot]
      BY <2>1, <3>1
    <3>5. /\ Len(children') = Len(children) /\ children'[Mine(c)] = slot
          /\ \A j \in 1 .. Len(children) : j # Mine(c) => children'[j] = children[j]
      BY <2>0, <3>3, <3>4, ChildChange
    <3>6. /\ callers'[c].at = "queued" /\ callers'[c].child = Mine(c)
          /\ \A d \in Callers : d # c => callers'[d] = callers[d]
      BY <2>1 DEF SessionsTypes, Caller, Mine
    <3>7. PICK q : q = <<c>>
      OBVIOUS
    <3>8. Once(q) /\ \A d : Occurs(d, q) <=> d = c
      BY <3>7 DEF Once, Occurs
    <3>9. \A d \in Callers : d # c => (Occurs(d, q) <=> Occurs(d, QueueOf(Mine(c))))
      BY <2>0, <3>8 DEF QueuesHoldWaiters
    <3> QED BY <2>0, <3>2, <3>5, <3>6, <3>7, <3>8, <3>9, QueueChanges
  <2>2. CASE children' = Abandon(c) /\ Go(c, "failed")
    BY <1>6, <2>0, <2>2 DEF Abandon, CallerPlaces
  <2> QED BY <1>11, <2>1, <2>2 DEF FinishEnsure
<1>12. ASSUME NEW c \in Callers, callers[c].at = "asking"
       PROVE  /\ InQueue(c) /\ Mine(c) \in 1 .. Len(children)
              /\ QueueOf(Mine(c)) \in Seq(Callers) /\ QueueOf(Mine(c)) # <<>>
              /\ Head(QueueOf(Mine(c))) = c /\ Once(QueueOf(Mine(c)))
  <2>1. InQueue(c) /\ Mine(c) \in 1 .. Len(children) /\ HeadOf(c)
    BY <1>12 DEF InQueue, ChildrenOfCallers, OneAtATime, SessionsTypes
  <2> QED BY <1>2, <2>1 DEF HeadOf, QueueOf, QueuesHoldWaiters
<1>13. ASSUME NEW c \in Callers, NEW place \in {"failed", "answered"}, callers[c].at = "asking",
              Go(c, place), children' = Dequeued(c)
       PROVE  QueuesHoldWaiters'
  <2>1. PICK q : q = Tail(QueueOf(Mine(c)))
    OBVIOUS
  <2>2. /\ q \in Seq(Callers) /\ Once(q)
        /\ \A d : Occurs(d, q) <=> Occurs(d, QueueOf(Mine(c))) /\ d # c
    BY <1>12, <1>13, <2>1, LeavesQueue
  <2>3. children' = [children EXCEPT ![Mine(c)] = [children[Mine(c)] EXCEPT !.queue = q]]
    BY <1>13, <2>1 DEF Dequeued, QueueOf
  <2>4. /\ Len(children') = Len(children) /\ children'[Mine(c)].queue = q
        /\ \A j \in 1 .. Len(children) : j # Mine(c) => children'[j] = children[j]
    BY <1>12, <1>13, <2>2, <2>3, QueueStep
  <2>5. /\ callers'[c].at = place
        /\ \A d \in Callers : d # c => callers'[d] = callers[d]
    BY <1>13, GoStep DEF CallerPlaces
  <2> QED BY <1>12, <1>13, <2>2, <2>4, <2>5, QueueChanges
<1>14. ASSUME NEW c \in Callers, Answer(c) PROVE QueuesHoldWaiters'
  <2>1. callers[c].at = "asking"
    BY <1>14 DEF Answer
  <2>2. CASE /\ callers' = [callers EXCEPT ![c] = [@ EXCEPT !.at = "queued", !.stage = "run"]]
             /\ children' = [children EXCEPT ![Mine(c)].queue = Append(Tail(@), c)]
    <3>1. PICK rest, q : rest = Tail(QueueOf(Mine(c))) /\ q = Append(rest, c)
      OBVIOUS
    <3>2. /\ rest \in Seq(Callers) /\ Once(rest)
          /\ \A d : Occurs(d, rest) <=> Occurs(d, QueueOf(Mine(c))) /\ d # c
      BY <1>12, <2>1, <3>1, LeavesQueue
    <3>3. q \in Seq(Callers) /\ Once(q) /\ \A d : Occurs(d, q) <=> Occurs(d, rest) \/ d = c
      BY <3>1, <3>2, EntersQueue, AppendProperties
    <3>4. children' = [children EXCEPT ![Mine(c)] = [children[Mine(c)] EXCEPT !.queue = q]]
      BY <2>2, <3>1 DEF QueueOf
    <3>5. /\ Len(children') = Len(children) /\ children'[Mine(c)].queue = q
          /\ \A j \in 1 .. Len(children) : j # Mine(c) => children'[j] = children[j]
      BY <1>12, <2>1, <3>3, <3>4, QueueStep
    <3>6. /\ callers'[c].at = "queued" /\ callers'[c].child = Mine(c)
          /\ \A d \in Callers : d # c => callers'[d] = callers[d]
      BY <2>2 DEF SessionsTypes, Caller, Mine
    <3> QED BY <1>12, <2>1, <3>2, <3>3, <3>5, <3>6, QueueChanges
  <2>3. CASE Go(c, "answered") /\ children' = Dequeued(c)
    BY <1>13, <2>1, <2>3
  <2> QED BY <1>14, <2>2, <2>3 DEF Answer
<1>15. ASSUME NEW c \in Callers, GiveUp(c) PROVE QueuesHoldWaiters'
  BY <1>13, <1>15 DEF GiveUp
<1>16. ASSUME NEW c \in Callers, Fail(c) PROVE QueuesHoldWaiters'
  <2>1. callers[c].at = "failed" /\ ~InQueue(c)
    BY <1>16 DEF Fail, InQueue
  <2>2. CASE Go(c, "answered") /\ UNCHANGED children
    BY <1>5, <2>1, <2>2 DEF CallerPlaces
  <2>3. CASE registered # 0 /\ Go(c, "closing") /\ children' = Killed(registered)
    <3>1. registered \in 1 .. Len(children)
      BY <2>3 DEF SessionsTypes
    <3> QED BY <1>6, <2>1, <2>3, <3>1 DEF CallerPlaces
  <2> QED BY <1>16, <2>2, <2>3 DEF Fail
<1>17. CASE ChildExits
  <2>1. PICK k \in 1 .. Len(children) : children' = Killed(k) /\ callers' = callers
    BY <1>17 DEF ChildExits
  <2> QED BY <1>3, <2>1, QueuesStay DEF InQueue
<1>18. CASE CloseRegistered
  <2>1. registered \in 1 .. Len(children) /\ children' = Killed(registered) /\ callers' = callers
    BY <1>18 DEF CloseRegistered, SessionsTypes
  <2> QED BY <1>3, <2>1, QueuesStay DEF InQueue
<1>19. CASE UNCHANGED mcpVars
  BY <1>19, QueuesStay DEF mcpVars, InQueue
<1> QED BY <1>7, <1>8, <1>9, <1>10, <1>11, <1>14, <1>15, <1>16, <1>17, <1>18, <1>19
        DEF McpSessionsNext, CallerStep

\* At first nothing is queued.
LEMMA QueuesInit == McpSessionsInit => QueuesHoldWaiters
<1>1. McpSessionsInit => Len(children) = 0
  BY DEF McpSessionsInit
<1> QED BY <1>1 DEF QueuesHoldWaiters

\* No more wait in a queue than there are callers.
LEMMA SessionsTyped == SessionsInv /\ QueuesHoldWaiters => McpSessionsTypeOK
<1> SUFFICES ASSUME SessionsInv, QueuesHoldWaiters PROVE McpSessionsTypeOK
  OBVIOUS
<1>1. ASSUME NEW k \in 1 .. Len(children) PROVE children[k] \in Child
  <2>1. children[k] \in Slot
    BY ElementOfSeq DEF SessionsInv, SessionsTypes
  <2>2. PICK q \in Seq(Callers) : q = children[k].queue
    BY <2>1 DEF Slot
  <2>3. PICK n \in Nat : n = Len(q) /\ q \in [1 .. n -> Callers]
    BY LenProperties
  <2>4. IsFiniteSet(1 .. n) /\ Cardinality(1 .. n) = n
    <3>1. IsFiniteSet(1 .. n) /\ Cardinality(1 .. n) = IF 1 > n THEN 0 ELSE n - 1 + 1
      BY FS_Interval
    <3> QED BY <3>1
  <2>5. IsFiniteSet(Callers) /\ Cardinality(Callers) \in Nat
    BY CallersAssumption, FS_CardinalityType DEF CallersAssumption
  <2>6. \A i, j \in 1 .. n : q[i] = q[j] => i = j
    BY <2>2, <2>3 DEF QueuesHoldWaiters, Once, QueueOf
  <2>7. ~(Cardinality(Callers) < Cardinality(1 .. n))
    BY <2>3, <2>4, <2>5, <2>6, FS_PigeonHole
  <2>8. n \in 0 .. Cardinality(Callers)
    BY <2>4, <2>5, <2>7
  <2> QED BY <2>1, <2>2, <2>3, <2>8 DEF Slot, Child
<1>2. Len(children) \in 0 .. MaxChildren
  BY MaxChildrenAssumption, LenProperties DEF SessionsInv, SessionsTypes, MaxChildrenAssumption
<1> QED BY <1>1, <1>2 DEF SessionsInv, SessionsTypes, McpSessionsTypeOK

\* For any number of callers, configurations and children: the sessions' invariant.
THEOREM SessionsInvariant == McpSessionsSpec => [](SessionsInv /\ McpSessionsTypeOK)
<1>1. SessionsInv /\ QueuesHoldWaiters /\ [McpSessionsNext]_mcpVars
      => SessionsInv' /\ QueuesHoldWaiters'
  BY SessionsInvStep, QueuesStep
<1> QED BY <1>1, SessionsInvInit, QueuesInit, SessionsTyped, PTL DEF McpSessionsSpec

\* A child is lost only where two connections to its server overlapped.
THEOREM ChildrenAreNotLost == McpSessionsSpec => []NoChildIsLostAlone
<1>1. SessionsInv => NoChildIsLostAlone
  BY DEF SessionsInv
<1> QED BY <1>1, SessionsInvariant, PTL

-----------------------------------------------------------------------------
(* The index of a workspace                                               *)

\* A path waits at most once: the queue is no longer than there are paths.
PendingOnce ==
  /\ pending \in Seq(Paths)
  /\ \A i, j \in 1 .. Len(pending) : pending[i] = pending[j] => i = j

IndexInv ==
  /\ disk \in Snapshots /\ changes \in 0 .. MaxChanges
  /\ PendingOnce
  /\ timer \in BOOLEAN
  /\ workers \in [Slots -> Worker]
  /\ owners \in [Slots -> FlushOwners]
  /\ drains \in [Drainers -> {"idle", "flushing", "waiting", "returned", "rejected"}]
  /\ waker \in Drainers \cup {"none"}
  /\ store \in Snapshots /\ temp \in Snapshots \cup {<<>>}
  /\ alive \in BOOLEAN /\ unseen \subseteq Paths

\* A queue without repetitions fits into the paths.
LEMMA IndexInvTyped == IndexInv => WorkspaceIndexTypeOK
<1> SUFFICES ASSUME IndexInv PROVE WorkspaceIndexTypeOK
  OBVIOUS
<1>1. pending \in Seq(Paths) /\ Len(pending) \in Nat
      /\ \A i \in 1 .. Len(pending) : pending[i] \in Paths
  BY LenProperties, ElementOfSeq DEF IndexInv, PendingOnce
<1>2. Len(pending) <= Cardinality(Paths)
  <2> DEFINE places == 1 .. Len(pending)
             f == [i \in places |-> pending[i]]
  <2>1. f \in [places -> Paths]
    BY <1>1
  <2>2. IsFiniteSet(places) /\ Cardinality(places) = Len(pending)
    <3>1. IsFiniteSet(places) /\ Cardinality(places) = IF 1 > Len(pending) THEN 0 ELSE Len(pending) - 1 + 1
      BY <1>1, FS_Interval
    <3> QED BY <1>1, <3>1
  <2>3. \A i, j \in places : f[i] = f[j] => i = j
    BY DEF IndexInv, PendingOnce
  <2>4. IsFiniteSet(Paths) /\ Cardinality(Paths) \in Nat
    BY IndexAssumption, FS_CardinalityType
  <2> HIDE DEF f, places
  <2>5. ~(Cardinality(Paths) < Cardinality(places))
    BY <2>1, <2>2, <2>3, <2>4, FS_PigeonHole
  <2> QED BY <1>1, <2>2, <2>4, <2>5
<1>3. Cardinality(Paths) \in Nat
  BY IndexAssumption, FS_CardinalityType
<1> QED BY <1>1, <1>2, <1>3 DEF IndexInv, WorkspaceIndexTypeOK

\* An idle worker is one.
LEMMA IdleWorkerType == IdleWorker \in Worker
<1>1. (CHOOSE p \in Paths : TRUE) \in Paths
  BY IndexAssumption
<1>2. 1 \in Slots /\ [p \in Paths |-> 0] \in Snapshots
  BY IndexAssumption DEF Slots, Snapshots, Contents
<1> QED BY <1>1, <1>2 DEF IdleWorker, Worker

\* The index begins well.
LEMMA IndexInvInit == WorkspaceIndexInit => IndexInv
<1> SUFFICES ASSUME WorkspaceIndexInit PROVE IndexInv
  OBVIOUS
<1>1. pending = <<>> /\ <<>> \in Seq(Paths) /\ Len(<<>>) = 0
  BY EmptySeq DEF WorkspaceIndexInit
<1>2. PendingOnce
  BY <1>1 DEF PendingOnce
<1>3. disk \in Snapshots /\ store \in Snapshots /\ temp \in Snapshots \cup {<<>>}
  BY DEF WorkspaceIndexInit, Snapshots, Contents
<1>4. changes \in 0 .. MaxChanges
  BY IndexAssumption DEF WorkspaceIndexInit
<1>5. workers \in [Slots -> Worker] /\ owners \in [Slots -> FlushOwners]
  BY IdleWorkerType DEF WorkspaceIndexInit, FlushOwners
<1> QED BY <1>2, <1>3, <1>4, <1>5 DEF WorkspaceIndexInit, IndexInv

\* The workers that are busy, and those that are not, are finitely many.
LEMMA BusyCount ==
  ASSUME NEW ws \in [Slots -> Worker]
  PROVE  /\ IsFiniteSet(Slots) /\ Cardinality(Slots) = Concurrency
         /\ Cardinality(Busy(ws)) \in 0 .. Concurrency
<1>1. IsFiniteSet(Slots) /\ Cardinality(Slots) = Concurrency
  <2>1. IsFiniteSet(1 .. Concurrency)
        /\ Cardinality(1 .. Concurrency) = IF 1 > Concurrency THEN 0 ELSE Concurrency - 1 + 1
    BY IndexAssumption, FS_Interval
  <2> QED BY <2>1, IndexAssumption DEF Slots
<1>2. IsFiniteSet(Busy(ws)) /\ Cardinality(Busy(ws)) <= Cardinality(Slots)
  <2>1. Busy(ws) \in SUBSET Slots
    BY DEF Busy
  <2> QED BY <1>1, <2>1, FS_Subset
<1>3. Cardinality(Busy(ws)) \in Nat
  BY <1>2, FS_CardinalityType
<1> QED BY <1>1, <1>2, <1>3, IndexAssumption

\* The workers a flush hands its paths to.
LEMMA AssignedType ==
  ASSUME PendingOnce, NEW ws \in [Slots -> Worker], NEW f \in Slots
  PROVE  Assigned(ws, f) \in [Slots -> Worker]
<1> DEFINE free == Slots \ Busy(ws)
           rank(s) == Cardinality({r \in free : r <= s})
<1>1. ASSUME NEW s \in free, rank(s) <= Len(pending)
      PROVE  [ws[s] EXCEPT !.step = "load", !.path = pending[rank(s)], !.flush = f] \in Worker
  <2>1. IsFiniteSet({r \in free : r <= s}) /\ s \in {r \in free : r <= s}
    <3>1. IsFiniteSet(Slots)
      BY BusyCount
    <3>2. {r \in free : r <= s} \in SUBSET Slots
      OBVIOUS
    <3>3. s <= s
      BY DEF Slots
    <3>4. IsFiniteSet({r \in free : r <= s})
      BY <3>1, <3>2, FS_Subset
    <3> QED BY <3>3, <3>4
  <2>2. rank(s) \in Nat /\ rank(s) # 0
    <3> DEFINE below == {r \in free : r <= s}
    <3> HIDE DEF below
    <3>1. IsFiniteSet(below) /\ below # {}
      BY <2>1 DEF below
    <3>2. Cardinality(below) \in Nat /\ (Cardinality(below) = 0 <=> below = {})
      BY <3>1, FS_CardinalityType, FS_EmptySet
    <3> QED BY <3>1, <3>2 DEF below
  <2> HIDE DEF rank
  <2>3. pending[rank(s)] \in Paths
    BY <1>1, <2>2, ElementOfSeq DEF PendingOnce
  <2>4. ws[s] \in Worker
    OBVIOUS
  <2> QED BY <2>3, <2>4 DEF Worker
<1> HIDE DEF rank
<1>2. Assigned(ws, f) = [s \in Slots |-> IF s \in free /\ rank(s) <= Len(pending)
         THEN [ws[s] EXCEPT !.step = "load", !.path = pending[rank(s)], !.flush = f] ELSE ws[s]]
  BY DEF Assigned, rank
<1> QED BY <1>1, <1>2

\* What a flush leaves behind waits once, too.
LEMMA LeftOnce ==
  ASSUME PendingOnce, NEW ws \in [Slots -> Worker], pending' = Left(ws)
  PROVE  PendingOnce'
<1>1. PICK k \in Nat : k = Concurrency - Cardinality(Busy(ws))
  BY BusyCount, IndexAssumption
<1>2. pending \in Seq(Paths) /\ Len(pending) \in Nat
  BY LenProperties DEF PendingOnce
<1>3. \A i \in k + 1 .. Len(pending) : pending[i] \in Paths
  BY <1>1, <1>2, ElementOfSeq
<1>4. pending' = SubSeq(pending, k + 1, Len(pending))
  BY <1>1 DEF Left
<1>5. /\ pending' \in Seq(Paths)
      /\ Len(pending') = IF k + 1 <= Len(pending) THEN Len(pending) - (k + 1) + 1 ELSE 0
      /\ \A i \in 1 .. Len(pending) - (k + 1) + 1 : pending'[i] = pending[(k + 1) + i - 1]
  BY <1>1, <1>2, <1>3, <1>4, SubSeqProperties
<1>6. ASSUME NEW i \in 1 .. Len(pending'), NEW j \in 1 .. Len(pending'), pending'[i] = pending'[j]
      PROVE  i = j
  <2>1. pending'[i] = pending[k + i] /\ pending'[j] = pending[k + j]
        /\ k + i \in 1 .. Len(pending) /\ k + j \in 1 .. Len(pending)
    <3>1. (k + 1) + i - 1 = k + i /\ (k + 1) + j - 1 = k + j
          /\ i \in 1 .. Len(pending) - (k + 1) + 1 /\ j \in 1 .. Len(pending) - (k + 1) + 1
          /\ k + i \in 1 .. Len(pending) /\ k + j \in 1 .. Len(pending)
      BY <1>1, <1>2, <1>5
    <3>2. pending'[i] = pending[(k + 1) + i - 1] /\ pending'[j] = pending[(k + 1) + j - 1]
      BY <1>5, <3>1
    <3> QED BY <3>1, <3>2
  <2>2. k + i = k + j
    BY <1>6, <2>1 DEF PendingOnce
  <2> QED BY <1>1, <2>2
<1> QED BY <1>5, <1>6 DEF PendingOnce

\* What a flush may change keeps its type, whoever asks for it.
QueueTyped ==
  /\ PendingOnce
  /\ workers \in [Slots -> Worker]
  /\ owners \in [Slots -> FlushOwners]
  /\ drains \in [Drainers -> {"idle", "flushing", "waiting", "returned", "rejected"}]
  /\ waker \in Drainers \cup {"none"}

\* A flush does.
LEMMA FlushKeeps ==
  ASSUME IndexInv, NEW owner \in FlushOwners, NEW ws \in [Slots -> Worker], Flush(owner, ws)
  PROVE  QueueTyped'
<1> DEFINE States == {"idle", "flushing", "waiting", "returned", "rejected"}
<1>0. /\ PendingOnce /\ owners \in [Slots -> FlushOwners] /\ drains \in [Drainers -> States]
      /\ waker \in Drainers \cup {"none"} /\ (owner # "timer" => owner \in Drainers)
  BY DEF IndexInv, FlushOwners
<1>1. UNCHANGED pending => PendingOnce'
  BY <1>0 DEF PendingOnce
<1>2. \A d, s : s \in States => [drains EXCEPT ![d] = s] \in [Drainers -> States]
  BY <1>0
<1>3. CASE pending = <<>>
  <2> DEFINE over == Busy(ws) = {}
             woken == IF over /\ waker # "none" THEN [drains EXCEPT ![waker] = "returned"] ELSE drains
  <2>1. woken \in [Drainers -> States]
    BY <1>0, <1>2
  <2>2. workers' = ws /\ UNCHANGED <<pending, owners>> /\ drains' = AfterFlush(owner, ws, woken)
        /\ waker' = IF owner # "timer" /\ drains'[owner] = "waiting" THEN owner
                    ELSE IF over THEN "none" ELSE waker
    BY <1>3 DEF Flush
  <2> HIDE DEF woken
  <2>3. AfterFlush(owner, ws, woken) \in [Drainers -> States]
    BY <2>1 DEF AfterFlush
  <2>4. waker' \in Drainers \cup {"none"}
    BY <1>0, <2>2
  <2> QED BY <1>0, <1>1, <2>2, <2>3, <2>4 DEF QueueTyped
<1>4. CASE pending # <<>> /\ Busy(ws) = Slots
  <2>1. workers' = ws /\ UNCHANGED <<pending, owners, waker>>
        /\ (drains' = drains \/ drains' = [drains EXCEPT ![owner] = "rejected"])
    BY <1>4 DEF Flush
  <2> QED BY <1>0, <1>1, <1>2, <2>1 DEF QueueTyped
<1>5. CASE pending # <<>> /\ Busy(ws) # Slots
  <2>1. PICK f \in Slots : /\ workers' = Assigned(ws, f) /\ pending' = Left(ws)
                           /\ owners' = [owners EXCEPT ![f] = owner]
                           /\ (drains' = drains \/ drains' = [drains EXCEPT ![owner] = "flushing"])
                           /\ UNCHANGED waker
    BY <1>5 DEF Flush
  <2>2. PendingOnce'
    BY <1>0, <2>1, LeftOnce
  <2>3. workers' \in [Slots -> Worker]
    BY <1>0, <2>1, AssignedType
  <2>4. owners' \in [Slots -> FlushOwners]
    BY <1>0, <2>1
  <2>5. drains' \in [Drainers -> States]
    BY <1>0, <1>2, <2>1
  <2> QED BY <1>0, <2>1, <2>2, <2>3, <2>4, <2>5 DEF QueueTyped
<1> QED BY <1>3, <1>4, <1>5

\* A path that changes is added if it does not wait already.
LEMMA EnqueuedOnce ==
  ASSUME PendingOnce, NEW p \in Paths, pending' = Enqueued(p)
  PROVE  PendingOnce'
<1>1. CASE pending' = pending
  BY <1>1 DEF PendingOnce
<1>2. CASE pending' # pending
  <2>1. pending' = Append(pending, p) /\ \A i \in 1 .. Len(pending) : pending[i] # p
    BY <1>2 DEF Enqueued
  <2>2. /\ pending' \in Seq(Paths) /\ Len(pending) \in Nat /\ Len(pending') = Len(pending) + 1
        /\ \A i \in 1 .. Len(pending) : pending'[i] = pending[i]
        /\ pending'[Len(pending) + 1] = p
    BY <2>1, AppendProperties, LenProperties DEF PendingOnce
  <2>3. \A i \in 1 .. Len(pending') : i \in 1 .. Len(pending) \/ i = Len(pending) + 1
    BY <2>2
  <2> QED BY <2>1, <2>2, <2>3 DEF PendingOnce
<1> QED BY <1>1, <1>2

\* So does the end of a worker.
LEMMA WorkerEndsKeeps ==
  ASSUME IndexInv, NEW s \in Slots, WorkerEnds(s)
  PROVE  QueueTyped' /\ timer' \in BOOLEAN
<1> DEFINE ws == [workers EXCEPT ![s] = IdleWorker]
           f == workers[s].flush
<1>1. ws \in [Slots -> Worker]
  BY IdleWorkerType DEF IndexInv
<1>2. f \in Slots /\ owners[f] \in FlushOwners
  BY DEF IndexInv, Worker
<1>3. timer' \in BOOLEAN
  BY DEF WorkerEnds, IndexInv
<1>4. \/ workers' = ws /\ UNCHANGED <<pending, owners, drains, waker>>
      \/ Flush(owners[f], ws)
  BY DEF WorkerEnds
<1> HIDE DEF ws, f
<1>5. CASE workers' = ws /\ UNCHANGED <<pending, owners, drains, waker>>
  BY <1>1, <1>3, <1>5 DEF IndexInv, QueueTyped, PendingOnce
<1> QED BY <1>1, <1>2, <1>3, <1>4, <1>5, FlushKeeps

\* Every step keeps the queue and its workers.
LEMMA IndexInvStep == IndexInv /\ [WorkspaceIndexNext]_indexVars => IndexInv'
<1> SUFFICES ASSUME IndexInv, [WorkspaceIndexNext]_indexVars PROVE IndexInv'
  OBVIOUS
<1>1. CASE UNCHANGED indexVars
  BY <1>1 DEF indexVars, IndexInv, PendingOnce
<1>2. CASE Change
  <2>1. PICK p \in Paths, c \in Contents :
          /\ disk' = [disk EXCEPT ![p] = c] /\ unseen' = unseen \cup {p}
          /\ pending' = Enqueued(p)
    BY <1>2 DEF Change
  <2>2. PendingOnce'
    BY <2>1, EnqueuedOnce DEF IndexInv
  <2>3. disk' \in Snapshots /\ unseen' \subseteq Paths
    BY <2>1 DEF IndexInv, Snapshots
  <2>4. changes' \in 0 .. MaxChanges
    BY <1>2, IndexAssumption DEF Change, IndexInv
  <2> QED BY <1>2, <2>2, <2>3, <2>4 DEF Change, IndexInv
<1>3. CASE TimerFires \/ \E d \in Drainers : Drain(d)
  <2>1. PICK owner \in FlushOwners : Flush(owner, workers)
    BY <1>3 DEF TimerFires, Drain, FlushOwners
  <2>2. QueueTyped'
    BY <2>1, FlushKeeps DEF IndexInv
  <2>3. timer' = FALSE /\ alive' \in BOOLEAN /\ UNCHANGED <<disk, changes, store, temp, unseen>>
    BY <1>3 DEF TimerFires, Drain, IndexInv
  <2> QED BY <2>2, <2>3 DEF IndexInv, QueueTyped
<1>4. ASSUME NEW s \in Slots, WorkerStep(s)
      PROVE  IndexInv'
  <2> DEFINE w == workers[s]
  <2>1. w \in Worker /\ w.path \in Paths /\ w.snapshot \in Snapshots
        /\ disk \in Snapshots /\ store \in Snapshots /\ disk[w.path] \in Contents
    BY DEF IndexInv, Worker, Snapshots
  <2>2. ASSUME NEW v \in Worker, Turn(s, v), temp' \in Snapshots \cup {<<>>}, unseen' \subseteq Paths
        PROVE  IndexInv'
    <3>1. workers' = [workers EXCEPT ![s] = v]
          /\ UNCHANGED <<disk, changes, pending, timer, owners, drains, waker, store, alive>>
      BY <2>2 DEF Turn
    <3> QED BY <2>2, <3>1 DEF IndexInv, PendingOnce
  <2>3. ASSUME NEW x \in Contents
        PROVE  [w.snapshot EXCEPT ![w.path] = x] \in Snapshots
    BY <2>1 DEF Snapshots
  <2>4. CASE Load(s)
    <3>1. [w EXCEPT !.step = "look", !.snapshot = store] \in Worker
      BY <2>1 DEF Worker
    <3>2. Turn(s, [w EXCEPT !.step = "look", !.snapshot = store]) /\ UNCHANGED <<temp, unseen>>
      BY <2>4 DEF Load
    <3> QED BY <2>2, <3>1, <3>2 DEF IndexInv
  <2>5. CASE Look(s)
    <3> DEFINE v == [w EXCEPT !.step = "write", !.again = (disk[w.path] = 0),
                              !.snapshot[w.path] = disk[w.path]]
    <3>1. v \in Worker
      <4>1. [w.snapshot EXCEPT ![w.path] = disk[w.path]] \in Snapshots
        BY <2>1, <2>3
      <4> QED BY <2>1, <4>1 DEF Worker
    <3>2. Turn(s, v) /\ UNCHANGED temp /\ unseen' \subseteq unseen
      BY <2>5 DEF Look
    <3> HIDE DEF v
    <3> QED BY <2>2, <3>1, <3>2 DEF IndexInv
  <2>6. CASE Write(s)
    <3>1. [w EXCEPT !.step = "rename"] \in Worker
      BY <2>1 DEF Worker
    <3>2. Turn(s, [w EXCEPT !.step = "rename"]) /\ temp' = w.snapshot /\ UNCHANGED unseen
      BY <2>6 DEF Write
    <3> QED BY <2>1, <2>2, <3>1, <3>2 DEF IndexInv
  <2>7. CASE Rename(s)
    <3>1. CASE WorkerEnds(s)
      <4>1. QueueTyped' /\ timer' \in BOOLEAN
        BY <3>1, WorkerEndsKeeps
      <4>2. /\ UNCHANGED <<disk, changes, alive, unseen>>
            /\ store' \in Snapshots /\ temp' \in Snapshots \cup {<<>>}
        BY <2>7, <3>1 DEF Rename, IndexInv, Turn
      <4> QED BY <4>1, <4>2 DEF IndexInv, QueueTyped
    <3>2. CASE ~WorkerEnds(s)
      <4> DEFINE v == [w EXCEPT !.step = "write", !.again = TRUE, !.snapshot[w.path] = 0]
      <4>1. v \in Worker
        <5>1. [w.snapshot EXCEPT ![w.path] = 0] \in Snapshots
          BY <2>3 DEF Contents
        <5> QED BY <2>1, <5>1 DEF Worker
      <4>2. Turn(s, v) /\ UNCHANGED <<temp, unseen>>
        BY <2>7, <3>2 DEF Rename
      <4> HIDE DEF v
      <4> QED BY <2>2, <4>1, <4>2 DEF IndexInv
    <3> QED BY <3>1, <3>2
  <2> QED BY <1>4, <2>4, <2>5, <2>6, <2>7 DEF WorkerStep
<1> QED BY <1>1, <1>2, <1>3, <1>4 DEF WorkspaceIndexNext

\* The queue of the workspace index: whatever changes, flushes and drains
\* overlap, a path waits at most once and every worker keeps its record.
THEOREM IndexInvariant == WorkspaceIndexSpec => [](IndexInv /\ WorkspaceIndexTypeOK)
<1>1. WorkspaceIndexSpec => []IndexInv
  BY IndexInvInit, IndexInvStep, PTL DEF WorkspaceIndexSpec
<1> QED BY <1>1, IndexInvTyped, PTL

-----------------------------------------------------------------------------
(* The services together                                                  *)

\* A step of the services is, for each of them, a step of that one or none.
LEMMA ServiceSteps ==
  ASSUME [Next]_serviceVars
  PROVE  /\ [ToolCallsNext]_callVars
         /\ [McpSessionsNext]_mcpVars
         /\ [AgentSwarmNext]_swarmVars
         /\ [ManagedProcessNext]_procVars
         /\ [WorkspaceIndexNext]_indexVars
         /\ [TunnelLockNext]_lockVars
         /\ [BackupsNext]_backupVars
         /\ [RuntimeStateNext]_stateVars
         /\ [ToolBatchNext]_batchVars
         /\ [ShellCommandNext]_commandVars
<1>1. CASE OthersRest("calls") /\ ToolCallsNext
  BY <1>1 DEF OthersRest
<1>2. CASE OthersRest("mcp") /\ McpSessionsNext
  BY <1>2 DEF OthersRest
<1>3. CASE OthersRest("agents") /\ AgentSwarmNext
  BY <1>3 DEF OthersRest
<1>4. CASE OthersRest("process") /\ ManagedProcessNext
  BY <1>4 DEF OthersRest
<1>5. CASE OthersRest("index") /\ WorkspaceIndexNext
  BY <1>5 DEF OthersRest
<1>6. CASE OthersRest("lock") /\ TunnelLockNext
  BY <1>6 DEF OthersRest
<1>7. CASE OthersRest("backups") /\ BackupsNext
  BY <1>7 DEF OthersRest
<1>8. CASE OthersRest("state") /\ RuntimeStateNext
  BY <1>8 DEF OthersRest
<1>9. CASE OthersRest("batch") /\ ToolBatchNext
  BY <1>9 DEF OthersRest
<1>10. CASE OthersRest("command") /\ ShellCommandNext
  BY <1>10 DEF OthersRest
<1>11. CASE UNCHANGED serviceVars
  BY <1>11 DEF serviceVars
<1> QED  BY <1>1, <1>2, <1>3, <1>4, <1>5, <1>6, <1>7, <1>8, <1>9, <1>10, <1>11 DEF Next

\* The invariants of all the services.
ServicesInv ==
  /\ CallsInv /\ SessionsInv /\ QueuesHoldWaiters /\ SwarmInv /\ ProcessInv /\ IndexInv
  /\ LockInv /\ BackupsInv /\ StateInv /\ BatchInv /\ CommandInv

\* Every step of the services keeps all their invariants.
LEMMA ServicesInvStep == ServicesInv /\ [Next]_serviceVars => ServicesInv'
<1> SUFFICES ASSUME ServicesInv, [Next]_serviceVars PROVE ServicesInv'
  OBVIOUS
<1>1. /\ [ToolCallsNext]_callVars /\ [McpSessionsNext]_mcpVars /\ [AgentSwarmNext]_swarmVars
      /\ [ManagedProcessNext]_procVars /\ [WorkspaceIndexNext]_indexVars
      /\ [TunnelLockNext]_lockVars /\ [BackupsNext]_backupVars /\ [RuntimeStateNext]_stateVars
      /\ [ToolBatchNext]_batchVars /\ [ShellCommandNext]_commandVars
  BY ServiceSteps
<1>2. CallsInv' /\ StateInv' /\ BatchInv' /\ LockInv' /\ IndexInv'
  BY <1>1, CallsInvStep, StateInvStep, BatchInvStep, LockInvStep, IndexInvStep DEF ServicesInv
<1>3. SessionsInv' /\ QueuesHoldWaiters'
  BY <1>1, SessionsInvStep, QueuesStep DEF ServicesInv
<1>4. SwarmInv'
  BY <1>1, SwarmInvStep DEF ServicesInv
<1>5. ProcessInv'
  BY <1>1, ProcessStep DEF ServicesInv
<1>6. BackupsInv'
  BY <1>1, BackupsInvStep DEF ServicesInv
<1>7. CommandInv'
  BY <1>1, CommandInvStep, CommandAssumption DEF ServicesInv
<1> QED  BY <1>2, <1>3, <1>4, <1>5, <1>6, <1>7 DEF ServicesInv

\* MCServices: what is proved of each service from its first states and its steps
\* holds of all of them in the behaviours the run explores.
THEOREM ServicesInvariant == Spec => []ServicesInv
<1>1. Init => ServicesInv
  BY CallsInvInit, SessionsInvInit, QueuesInit, SwarmInvInit, ProcessInvInit, IndexInvInit, LockInvInit,
     BackupsInvInit, StateInvInit, BatchInvInit, CommandInvInit, CommandAssumption
     DEF Init, ServicesInv
<1> QED  BY <1>1, ServicesInvStep, PTL DEF Spec

\* Every variable of every service keeps its type.
THEOREM ServicesTypes == Spec => []ServicesTypeOK
<1>1. CallsInv /\ StateInv /\ BatchInv /\ LockInv
      => ToolCallsTypeOK /\ RuntimeStateTypeOK /\ ToolBatchTypeOK /\ TunnelLockTypeOK
  BY DEF CallsInv, StateInv, BatchInv, LockInv
<1>2. CommandInv /\ ProcessInv => ShellCommandTypeOK /\ ManagedProcessTypeOK
  BY DEF CommandInv, ProcessInv
<1>3. IndexInv => WorkspaceIndexTypeOK
  BY IndexInvTyped
<1>4. SwarmInv => AgentSwarmTypeOK
  BY SwarmInvTyped
<1>5. BackupsInv => BackupsTypeOK
  BY DEF BackupsInv, BackupsTypes
<1>6. SessionsInv /\ QueuesHoldWaiters => McpSessionsTypeOK
  BY SessionsTyped
<1>7. ServicesInv => ServicesTypeOK
  BY <1>1, <1>2, <1>3, <1>4, <1>5, <1>6 DEF ServicesInv, ServicesTypeOK
<1> QED  BY <1>7, ServicesInvariant, PTL
=============================================================================
