----------------------------- MODULE ToolCalls -----------------------------
(***************************************************************************)
(* Tool calls of one runtime on behalf of one durable goal: the registry's *)
(* invoke with its guards, the mutation fence around the operation, the    *)
(* response that may leave before the operation has settled, and           *)
(* cancel_goal, which stops the calls in flight through                    *)
(* GoalRequestCancellationService.  The goal row and the fenced call rows  *)
(* are durable; the registry of requests and its tombstone live in memory. *)
(***************************************************************************)
EXTENDS Naturals, FiniteSets

CONSTANTS
  Calls,       \* tool calls a client may make
  CallFaults   \* what may go wrong: "row_error", "restart"

ASSUME CallFaultsAssumption == CallFaults \subseteq {"row_error", "restart"}

VARIABLES
  goalRow,     \* "active" or "cancelled"
  tombstone,   \* cancelledGoals has the goal
  requests,    \* the calls registered for the goal
  calls,       \* for each call, where its invoke stands
  stopping     \* where cancel_goal stands, whom it asked and who remained

callVars == <<goalRow, tombstone, requests, calls, stopping>>

\* Where an invoke stands.  "lost": the promise that ends it was rejected
\* after the response had left; "gone": its runtime stopped.
CallPlaces == {"idle", "inspect", "approve", "admit", "execute", "running",
               "closing", "ending", "done", "lost", "gone"}
\* row: the call's row in goal_fenced_mutation_calls.
\* replied: the client has an answer though the operation may go on.
Call == [at : CallPlaces, mutates : BOOLEAN, leased : BOOLEAN, fenced : BOOLEAN,
         aborted : BOOLEAN, replied : BOOLEAN, row : {"none", "open", "ended"}]

ToolCallsTypeOK ==
  /\ goalRow \in {"active", "cancelled"}
  /\ tombstone \in BOOLEAN
  /\ requests \subseteq Calls
  /\ calls \in [Calls -> Call]
  /\ stopping \in [at : {"idle", "marked", "waiting", "reported", "gone"},
                   asked : SUBSET Calls, remaining : SUBSET Calls]

ToolCallsInit ==
  /\ goalRow = "active" /\ tombstone = FALSE /\ requests = {}
  /\ calls = [c \in Calls |-> [at |-> "idle", mutates |-> FALSE, leased |-> FALSE,
                               fenced |-> FALSE, aborted |-> FALSE, replied |-> FALSE,
                               row |-> "none"]]
  /\ stopping = [at |-> "idle", asked |-> {}, remaining |-> {}]

Running(c) == calls[c].at = "running"
InFlight(c) == calls[c].at \notin {"idle", "done", "lost", "gone"}

-----------------------------------------------------------------------------
(* invoke, up to the operation                                            *)

Move(c, place) == calls' = [calls EXCEPT ![c].at = place]

\* The call enters: a tool, with or without a goalLease envelope.
Enter(c) ==
  /\ calls[c].at = "idle"
  /\ \E mutates, leased \in BOOLEAN :
       calls' = [calls EXCEPT ![c] = [@ EXCEPT !.at = "inspect", !.mutates = mutates,
                                                !.leased = leased]]
  /\ UNCHANGED <<goalRow, tombstone, requests, stopping>>

\* An unknown tool, invalid input, a scope or permission that is denied.
Refuse(c) ==
  /\ calls[c].at \in {"inspect", "approve"}
  /\ Move(c, "ending")
  /\ UNCHANGED <<goalRow, tombstone, requests, stopping>>

\* Only an active goal with a live continuation fences its workspace; a mutation
\* without a proof is then refused, one with a proof has to be admitted.
InspectFence(c) ==
  /\ calls[c].at = "inspect"
  /\ \E fence \in {FALSE, calls[c].mutates /\ goalRow = "active"} :
       IF fence /\ ~calls[c].leased
       THEN Move(c, "ending")
       ELSE calls' = [calls EXCEPT ![c] = [@ EXCEPT !.at = "approve", !.fenced = fence]]
  /\ UNCHANGED <<goalRow, tombstone, requests, stopping>>

\* Permission engine and host approval, which may take as long as the user.
Approve(c) ==
  /\ calls[c].at = "approve"
  /\ Move(c, IF calls[c].fenced THEN "admit" ELSE "execute")
  /\ UNCHANGED <<goalRow, tombstone, requests, stopping>>

\* begin of the fence: one transaction that reads the goal row again.
Admit(c) ==
  /\ calls[c].at = "admit"
  /\ calls' = [calls EXCEPT ![c] = IF goalRow = "active"
                 THEN [@ EXCEPT !.at = "execute", !.row = "open"]
                 ELSE [@ EXCEPT !.at = "ending"]]
  /\ UNCHANGED <<goalRow, tombstone, requests, stopping>>

-----------------------------------------------------------------------------
(* executeWithinResponseBudget                                            *)

\* Mutant: the tombstone is not consulted.
AcceptedAlways(c) == TRUE
\* register answers accepted: FALSE once the goal has a tombstone.
Accepted(c) == calls[c].leased => ~tombstone

\* Registration and the start of the operation are one synchronous step.
\* A request whose parent has already ended, or a tool that throws at once,
\* starts nothing and is released before the step ends.
Execute(c) ==
  /\ calls[c].at = "execute"
  /\ \/ /\ Accepted(c)
        /\ Move(c, "running")
        /\ requests' = IF calls[c].leased THEN requests \cup {c} ELSE requests
     \/ Move(c, "closing") /\ UNCHANGED requests
  /\ UNCHANGED <<goalRow, tombstone, stopping>>

AfterReply(c) == requests

\* The response budget is used up or the parent request ends: the operation
\* is aborted and answered for, and may go on.
AnswerEarly(c) ==
  /\ Running(c) /\ ~calls[c].replied
  /\ calls' = [calls EXCEPT ![c] = [@ EXCEPT !.aborted = TRUE, !.replied = TRUE]]
  /\ requests' = AfterReply(c)
  /\ UNCHANGED <<goalRow, tombstone, stopping>>

\* Resolved or rejected; with an early answer this is deferredSettlement.
Settles(c) ==
  /\ Running(c)
  /\ Move(c, "closing")
  /\ requests' = requests \ {c}
  /\ UNCHANGED <<goalRow, tombstone, stopping>>

-----------------------------------------------------------------------------
(* The end of an invoke: the fence first, then the activity               *)

\* Mutant: the fence ends with the response.
MayCloseOnReply(c) == calls[c].at = "closing" \/ (Running(c) /\ calls[c].replied)
\* The fence may be closed once nothing of the call runs any more.
MayClose(c) == calls[c].at = "closing"

CloseFence(c) ==
  /\ MayClose(c)
  /\ \/ calls' = [calls EXCEPT ![c] = [calls[c] EXCEPT
                    !.at = IF @ = "closing" THEN "ending" ELSE @,
                    !.row = IF @ = "open" THEN "ended" ELSE @]]
     \/ \* service.end rejects: caught on the way of the response, unhandled
        \* when the response has left
        /\ "row_error" \in CallFaults /\ calls[c].row = "open"
        /\ Move(c, IF calls[c].replied THEN "lost" ELSE "ending")
  /\ UNCHANGED <<goalRow, tombstone, requests, stopping>>

\* Mutant: an answered call is not ended once its operation has settled.
EndActivityUnanswered(c) ==
  /\ calls[c].at = "ending" /\ ~calls[c].replied
  /\ calls' = [calls EXCEPT ![c] = [@ EXCEPT !.at = "done", !.replied = TRUE]]
  /\ UNCHANGED <<goalRow, tombstone, requests, stopping>>

EndActivity(c) ==
  /\ calls[c].at = "ending"
  /\ calls' = [calls EXCEPT ![c] = [@ EXCEPT !.at = "done", !.replied = TRUE]]
  /\ UNCHANGED <<goalRow, tombstone, requests, stopping>>

-----------------------------------------------------------------------------
(* cancel_goal: the row, then the requests in flight                      *)

CancelRow ==
  /\ stopping.at = "idle" /\ goalRow = "active"
  /\ goalRow' = "cancelled"
  /\ stopping' = [stopping EXCEPT !.at = "marked"]
  /\ UNCHANGED <<tombstone, requests, calls>>

\* The tombstone, the snapshot of the entries and the aborts: synchronous.
CancelRequests ==
  /\ stopping.at = "marked"
  /\ tombstone' = TRUE
  /\ calls' = [c \in Calls |-> IF c \in requests THEN [calls[c] EXCEPT !.aborted = TRUE]
                                                 ELSE calls[c]]
  /\ stopping' = [stopping EXCEPT !.at = "waiting", !.asked = requests]
  /\ UNCHANGED <<goalRow, requests>>

\* All asked have settled, or the wait is over: any time.
CancelReports ==
  /\ stopping.at = "waiting"
  /\ stopping' = [stopping EXCEPT !.at = "reported", !.remaining = requests]
  /\ UNCHANGED <<goalRow, tombstone, requests, calls>>

\* The runtime stops and another takes its place; rows stay as they are.
RestartRuntime ==
  /\ "restart" \in CallFaults
  /\ tombstone' = FALSE /\ requests' = {}
  /\ calls' = [c \in Calls |-> IF InFlight(c) \/ calls[c].at = "lost"
                                 THEN [calls[c] EXCEPT !.at = "gone"] ELSE calls[c]]
  /\ stopping' = [stopping EXCEPT !.at = IF @ = "idle" THEN @ ELSE "gone"]
  /\ UNCHANGED goalRow

-----------------------------------------------------------------------------

CallStep(c) == \/ Refuse(c) \/ InspectFence(c) \/ Approve(c) \/ Admit(c) \/ Execute(c)
               \/ Settles(c) \/ CloseFence(c) \/ EndActivity(c)

ToolCallsNext ==
  \/ \E c \in Calls : Enter(c) \/ AnswerEarly(c) \/ CallStep(c)
  \/ CancelRow \/ CancelRequests \/ CancelReports
  \/ RestartRuntime

\* The handlers of a runtime that stays up go on; operations settle.
ToolCallsFairness == \A c \in Calls : WF_callVars(CallStep(c))

ToolCallsSpec == ToolCallsInit /\ [][ToolCallsNext]_callVars /\ ToolCallsFairness

-----------------------------------------------------------------------------
(* Properties                                                             *)

\* Stopping a goal reaches all of its work in this runtime: from the moment
\* of the tombstone every call of the goal that runs has been told to abort,
\* whenever it registered, and a report of nothing remaining stays true.
\* (register and cancelForGoal, goal-request-cancellation-service.ts:52-119)
StopReachesAllWork ==
  LET atWork == {c \in Calls : Running(c) /\ calls[c].leased} IN
    /\ tombstone => \A c \in atWork : calls[c].aborted
    /\ stopping.at = "reported" => atWork \subseteq stopping.remaining

\* A mutation admitted by the fence is fenced to the end of its operation,
\* also when its client was answered long before, so no other worker can take
\* the goal for idle meanwhile.
\* (deferredSettlement, tool-registry.ts:481-491)
FencedToTheEnd ==
  \A c \in Calls : Running(c) /\ calls[c].fenced => calls[c].row = "open"

\* Every call that enters leaves the activity view again, unless the row of
\* its fence could not be ended after the response had left.
\* (activity.begin and its ends in invoke, tool-registry.ts:261-500)
EveryCallIsRecorded ==
  \A c \in Calls : []<>~InFlight(c)
=============================================================================
