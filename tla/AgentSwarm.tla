----------------------------- MODULE AgentSwarm -----------------------------
(***************************************************************************)
(* One agent swarm: the rows of its tasks, the tick that polls, unblocks   *)
(* and launches them one await at a time, the monitor that repeats it, a   *)
(* cancel that runs beside it, and the restart of the runtime.             *)
(***************************************************************************)
EXTENDS Naturals, FiniteSets

CONSTANTS
  NTasks,          \* tasks of the swarm, numbered in row order
  MaxConcurrency,  \* codex processes it may run at once
  SwarmFaults      \* "handle_lost", "abort", "restart"

ASSUME SwarmAssumption ==
  /\ NTasks \in Nat \ {0} /\ MaxConcurrency \in 1 .. NTasks
  /\ SwarmFaults \subseteq {"handle_lost", "abort", "restart"}

VARIABLES
  deps,       \* the dependency graph of the request
  rows,       \* state of each task row
  swarm,      \* state of the swarm row
  codex,      \* the codex process of each task
  ticker,     \* where start and monitor stand, and what the tick still has to do
  canceller,  \* where cancel stands, and the rows it read
  halted      \* the swarm's or the request's signal is aborted

swarmVars == <<deps, rows, swarm, codex, ticker, canceller, halted>>

SwarmTasks == 1 .. NTasks
TaskStates == {"blocked", "queued", "running", "completed", "failed", "cancelled",
               "termination_unverified"}
Ended == {"completed", "failed", "cancelled", "termination_unverified"}

\* validateStart: dependencies on other tasks of the request, without a cycle.
Acyclic(d) ==
  \A S \in (SUBSET SwarmTasks) \ {{}} : \E t \in S : d[t] \cap S = {}
DependencyGraphs == {d \in [SwarmTasks -> SUBSET SwarmTasks] : Acyclic(d)}

AgentSwarmTypeOK ==
  /\ deps \in DependencyGraphs
  /\ rows \in [SwarmTasks -> TaskStates]
  /\ swarm \in {"queued", "running"} \cup Ended
  /\ codex \in [SwarmTasks -> {"none", "starting", "live", "succeeded", "failed", "refused", "lost"}]
  /\ ticker \in [at : {"new", "sleep", "poll", "logs", "run", "off"}, todo : SUBSET SwarmTasks,
                 task : 0 .. NTasks, running : 0 .. NTasks]
  /\ canceller \in [at : {"idle", "stopping", "done"}, task : 0 .. NTasks,
                    seen : [SwarmTasks -> TaskStates]]
  /\ halted \in BOOLEAN

\* Nothing is asked for yet.
AgentSwarmInit ==
  /\ deps = [t \in SwarmTasks |-> {}]
  /\ rows = [t \in SwarmTasks |-> "queued"]
  /\ swarm = "queued"
  /\ codex = [t \in SwarmTasks |-> "none"]
  /\ ticker = [at |-> "new", todo |-> {}, task |-> 0, running |-> 0]
  /\ canceller = [at |-> "idle", task |-> 0, seen |-> rows]
  /\ halted = FALSE

Rows(r, state) == {t \in SwarmTasks : r[t] = state}
Over(state) == state \in Ended
\* The rows are gone through in their order.
FirstOf(tasks) == CHOOSE t \in tasks : \A u \in tasks : t <= u

-----------------------------------------------------------------------------
(* The tick                                                               *)

\* start: the rows are created and the first tick is due.
StartSwarm ==
  /\ ticker.at = "new"
  /\ deps' \in DependencyGraphs
  /\ rows' = [t \in SwarmTasks |-> IF deps'[t] = {} THEN "queued" ELSE "blocked"]
  /\ ticker' = [ticker EXCEPT !.at = "sleep"]
  /\ UNCHANGED <<swarm, codex, canceller, halted>>

\* refreshSwarmState
Summary(r) ==
  CASE \E t \in SwarmTasks : r[t] = "termination_unverified" -> "termination_unverified"
    [] \A t \in SwarmTasks : r[t] = "cancelled" -> "cancelled"
    [] \A t \in SwarmTasks : r[t] = "completed" -> "completed"
    [] (\A t \in SwarmTasks : Over(r[t])) /\ (\E t \in SwarmTasks : r[t] # "completed")
         /\ (\E t \in SwarmTasks : r[t] # "cancelled") -> "failed"
    [] \A t \in SwarmTasks : r[t] \in {"queued", "blocked"} -> "queued"
    [] OTHER -> "running"

Wake ==
  /\ ticker.at = "sleep"
  /\ ticker' = IF halted \/ Over(swarm) THEN [ticker EXCEPT !.at = "off"]
               ELSE [ticker EXCEPT !.at = "poll", !.todo = Rows(rows, "running")]
  /\ UNCHANGED <<deps, rows, swarm, codex, canceller, halted>>

\* One task that was running when the tick began: its handle is gone, it still
\* runs, or its logs are asked for.
Poll ==
  /\ ticker.at = "poll" /\ ticker.todo # {}
  /\ LET t == FirstOf(ticker.todo) IN
       /\ rows' = IF codex[t] = "lost" THEN [rows EXCEPT ![t] = "termination_unverified"] ELSE rows
       /\ ticker' = IF codex[t] \in {"succeeded", "failed"}
                    THEN [ticker EXCEPT !.at = "logs", !.task = t, !.todo = @ \ {t}]
                    ELSE [ticker EXCEPT !.todo = @ \ {t}]
  /\ UNCHANGED <<deps, swarm, codex, canceller, halted>>

Collect ==
  /\ ticker.at = "logs"
  /\ rows' = [rows EXCEPT ![ticker.task] =
                IF codex[ticker.task] = "succeeded" THEN "completed" ELSE "failed"]
  /\ ticker' = [ticker EXCEPT !.at = "poll"]
  /\ UNCHANGED <<deps, swarm, codex, canceller, halted>>

\* Mutant: one dependency is enough.
UnblockedByOne(t, r) == \E d \in deps[t] : r[d] = "completed"
\* When a blocked task may be queued: everything it depends on has completed.
Unblocked(t, r) == \A d \in deps[t] : r[d] = "completed"

\* Mutant: a dependency that is merely cancelled or unverified does not count.
DoomedByFailure(t, r) == \E d \in deps[t] : r[d] = "cancelled"
\* When a blocked task can no longer be run.
Doomed(t, r) == \E d \in deps[t] : r[d] \in Ended \ {"completed"}

Unblock(r) ==
  [t \in SwarmTasks |-> CASE r[t] = "blocked" /\ Doomed(t, r) -> "failed"
                          [] r[t] = "blocked" /\ ~Doomed(t, r) /\ Unblocked(t, r) -> "queued"
                          [] OTHER -> r[t]]

\* The launch loop goes on with the rest of its list until the next await:
\* the next launch, or the end of the tick.
LaunchNext(r, c, list, running) ==
  /\ rows' = r
  /\ IF list = {} \/ running >= MaxConcurrency \/ halted
     THEN /\ ticker' = [ticker EXCEPT !.at = "sleep", !.todo = {}, !.task = 0, !.running = 0]
          /\ swarm' = Summary(r) /\ codex' = c
     ELSE /\ ticker' = [ticker EXCEPT !.at = "run", !.todo = list \ {FirstOf(list)},
                                      !.task = FirstOf(list), !.running = running]
          /\ codex' = [c EXCEPT ![FirstOf(list)] = "starting"]
          /\ UNCHANGED swarm

Launches ==
  /\ ticker.at = "poll" /\ ticker.todo = {}
  /\ LET r == Unblock(rows) IN
       LaunchNext(r, codex, Rows(r, "queued"), Cardinality(Rows(r, "running")))
  /\ UNCHANGED <<deps, canceller, halted>>

\* codex.run answers; the list and the count are those read before the await.
CodexStarts ==
  /\ ticker.at = "run"
  /\ LET t == ticker.task IN
       \/ LaunchNext([rows EXCEPT ![t] = "running"], [codex EXCEPT ![t] = "live"],
                     ticker.todo, ticker.running + 1)
       \/ LaunchNext([rows EXCEPT ![t] = "failed"], [codex EXCEPT ![t] = "refused"],
                     ticker.todo, ticker.running)
  /\ UNCHANGED <<deps, canceller, halted>>

-----------------------------------------------------------------------------
(* cancel                                                                 *)

\* cancel goes through the rows as it read them: those not started are marked
\* at once, a running one is stopped and waited for.
CancelFrom(first, r) ==
  LET toStop == {t \in first .. NTasks : canceller'.seen[t] = "running"}
      next == IF toStop = {} THEN NTasks + 1 ELSE FirstOf(toStop)
      marked == [t \in SwarmTasks |->
                   IF t \in first .. next - 1 /\ canceller'.seen[t] \in {"queued", "blocked"}
                   THEN "cancelled" ELSE r[t]] IN
    /\ rows' = marked
    /\ IF toStop # {} THEN canceller'.at = "stopping" /\ canceller'.task = next /\ UNCHANGED swarm
       ELSE /\ canceller'.at = "done" /\ canceller'.task = 0
            /\ swarm' = IF Rows(marked, "termination_unverified") # {}
                        THEN "termination_unverified" ELSE "cancelled"

CancelStates(seen) ==
  {[at |-> "stopping", task |-> t, seen |-> seen] : t \in SwarmTasks}
    \cup {[at |-> "done", task |-> 0, seen |-> seen]}

Cancel ==
  /\ canceller.at = "idle" /\ ~Over(swarm) /\ ticker.at # "new"
  /\ halted' = TRUE
  /\ canceller' \in CancelStates(rows)
  /\ CancelFrom(1, rows)
  /\ UNCHANGED <<deps, codex, ticker>>

\* codex.stop answers: the tree is gone, or that could not be shown.
Stopped ==
  /\ canceller.at = "stopping"
  /\ canceller' \in CancelStates(canceller.seen)
  /\ LET t == canceller.task IN
       \/ /\ codex' = [codex EXCEPT ![t] = IF @ = "live" THEN "failed" ELSE @]
          /\ CancelFrom(t + 1, [rows EXCEPT ![t] = "cancelled"])
       \/ /\ "handle_lost" \in SwarmFaults /\ UNCHANGED codex
          /\ CancelFrom(t + 1, [rows EXCEPT ![t] = "termination_unverified"])
  /\ UNCHANGED <<deps, ticker, halted>>

-----------------------------------------------------------------------------
(* The processes, the request, the runtime                                *)

CodexExits ==
  /\ \E t \in SwarmTasks, how \in {"succeeded", "failed"} :
       codex[t] = "live" /\ codex' = [codex EXCEPT ![t] = how]
  /\ UNCHANGED <<deps, rows, swarm, ticker, canceller, halted>>

\* taskStatus knows the task no more.
HandleLost ==
  /\ "handle_lost" \in SwarmFaults
  /\ \E t \in SwarmTasks : codex[t] = "live" /\ codex' = [codex EXCEPT ![t] = "lost"]
  /\ UNCHANGED <<deps, rows, swarm, ticker, canceller, halted>>

\* The request that started the swarm is aborted.
RequestAborted ==
  /\ "abort" \in SwarmFaults /\ ~halted /\ ticker.at \notin {"new", "off"}
  /\ halted' = TRUE
  /\ UNCHANGED <<deps, rows, swarm, codex, ticker, canceller>>

\* The service of the next runtime: tasks it finds active are unverified.
SwarmRestart ==
  /\ "restart" \in SwarmFaults /\ ticker.at \notin {"new", "off"}
  /\ ticker' = [at |-> "off", todo |-> {}, task |-> 0, running |-> 0]
  /\ canceller' = [canceller EXCEPT !.at = "done", !.task = 0]
  /\ rows' = [t \in SwarmTasks |-> IF rows[t] \in {"blocked", "queued", "running"}
                                   THEN "termination_unverified" ELSE rows[t]]
  /\ swarm' = IF swarm \in {"queued", "running"} /\ Rows(rows', "termination_unverified") # {}
              THEN "termination_unverified" ELSE swarm
  /\ UNCHANGED <<deps, codex, halted>>

-----------------------------------------------------------------------------

MonitorStep == Wake \/ Poll \/ Collect \/ Launches \/ CodexStarts

AgentSwarmNext ==
  \/ StartSwarm \/ MonitorStep \/ Cancel \/ Stopped
  \/ CodexExits \/ HandleLost \/ RequestAborted \/ SwarmRestart

\* The monitor's timer fires and its calls answer; codex processes have a
\* timeout, so they end.
AgentSwarmFairness ==
  WF_swarmVars(MonitorStep) /\ WF_swarmVars(Stopped) /\ WF_swarmVars(CodexExits)

AgentSwarmSpec == AgentSwarmInit /\ [][AgentSwarmNext]_swarmVars /\ AgentSwarmFairness

-----------------------------------------------------------------------------
(* Properties                                                             *)

\* A task is launched at most once, only when all it depends on has completed,
\* never more of them at a time than the limit and none once the swarm is
\* cancelled, though the tick decides on rows read before its awaits.
\* (tick, agent-swarm-service.ts:188-244)
LaunchedInOrder ==
  [][\A t \in SwarmTasks :
       codex'[t] = "starting" /\ ticker # ticker' /\ ticker'.task = t =>
         /\ codex[t] = "none" /\ ~halted
         /\ \A d \in deps[t] : rows[d] = "completed" /\ codex[d] = "succeeded"
         /\ Cardinality({u \in SwarmTasks : codex'[u] \in {"starting", "live"}})
              <= MaxConcurrency]_swarmVars

\* A swarm that is neither cancelled nor aborted ends in a final state as long
\* as its runtime lasts, also when tasks others depend on fail or are lost.
\* (monitor, tick, refreshSwarmState: agent-swarm-service.ts:177-254)
SwarmSettles ==
  []<>(Over(swarm) \/ halted \/ ticker.at \in {"new", "off"})
=============================================================================
