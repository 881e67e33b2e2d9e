---------------------------- MODULE McpSessions ----------------------------
(***************************************************************************)
(* The sessions a runtime keeps with one external MCP server: callers that *)
(* describe, list or call at the same time, each with the launch           *)
(* configuration it was given, the child processes they start, the serial  *)
(* queue of requests of every session, and what closes a session.          *)
(***************************************************************************)
EXTENDS Naturals, FiniteSets, Sequences

CONSTANTS
  Callers,      \* operations that may be under way at once
  Configs,      \* launch configurations (their fingerprints)
  MaxChildren   \* bound: child processes started

ASSUME MaxChildrenAssumption == MaxChildren \in Nat \ {0}
ASSUME CallersAssumption == IsFiniteSet(Callers)

VARIABLES
  callers,     \* for each caller, where its operation stands
  children,    \* the child processes started so far, in order
  registered   \* index of the child in sessions, 0 when there is none

mcpVars == <<callers, children, registered>>

CallerPlaces == {"idle", "ensure", "replace", "connect", "list",
                 "queued", "asking", "failed", "closing", "answered"}
\* stage: the request a caller has in the queue of its session.
Caller == [at : CallerPlaces, op : {"describe", "resources", "call"}, config : Configs,
           child : 0 .. MaxChildren, stage : {"catalog", "resources", "run"}]
\* overlapped: when it was registered, another connection was being made.
Child == [config : Configs, live : BOOLEAN, overlapped : BOOLEAN,
          queue : UNION {[1 .. n -> Callers] : n \in 0 .. Cardinality(Callers)}]

McpSessionsTypeOK ==
  /\ callers \in [Callers -> Caller]
  /\ Len(children) \in 0 .. MaxChildren
  /\ \A k \in 1 .. Len(children) : children[k] \in Child
  /\ registered \in 0 .. Len(children)

McpSessionsInit ==
  /\ callers \in [Callers -> {[at |-> "idle", op |-> "call", config |-> f, child |-> 0,
                               stage |-> "catalog"] : f \in Configs}]
  /\ children = <<>> /\ registered = 0

Go(c, place) == callers' = [callers EXCEPT ![c].at = place]
Connecting(c) == callers[c].at \in {"replace", "connect", "list"}
Mine(c) == callers[c].child

\* A child process ends; requests it has still to answer fail.
Killed(k) == [children EXCEPT ![k].live = FALSE]

-----------------------------------------------------------------------------
(* ensure                                                                 *)

Ask(c) ==
  /\ callers[c].at = "idle"
  /\ \E op \in {"describe", "resources", "call"} :
       callers' = [callers EXCEPT ![c] = [@ EXCEPT !.at = "ensure", !.op = op]]
  /\ UNCHANGED <<children, registered>>

FirstStage(op) == IF op = "resources" THEN "resources" ELSE "catalog"

SameLaunch(c) == registered # 0 /\ children[registered].config = callers[c].config

Ensure(c) ==
  /\ callers[c].at = "ensure"
  /\ \/ /\ SameLaunch(c)
        /\ callers' = [callers EXCEPT ![c] = [@ EXCEPT !.at = "queued", !.child = registered,
                                                       !.stage = FirstStage(callers[c].op)]]
        /\ children' = [children EXCEPT ![registered].queue = Append(@, c)]
        /\ UNCHANGED registered
     \/ \* another launch: the session is dropped, its close awaited
        /\ ~SameLaunch(c) /\ registered # 0
        /\ registered' = 0 /\ children' = Killed(registered)
        /\ Go(c, "replace")
     \/ registered = 0 /\ Go(c, "connect") /\ UNCHANGED <<children, registered>>

Replaced(c) ==
  /\ callers[c].at = "replace" /\ Go(c, "connect") /\ UNCHANGED <<children, registered>>

\* The child process is started, or the factory rejects.
Connect(c) ==
  /\ callers[c].at = "connect"
  /\ \/ /\ Len(children) < MaxChildren
        /\ children' = Append(children, [config |-> callers[c].config, live |-> TRUE,
                                         overlapped |-> FALSE, queue |-> <<>>])
        /\ callers' = [callers EXCEPT ![c] = [@ EXCEPT !.at = "list",
                                                        !.child = Len(children) + 1]]
     \/ Go(c, "failed") /\ UNCHANGED children
  /\ UNCHANGED registered

\* Mutant: an aborted connection leaves its child running.
AbandonRunning(c) == children
\* What the error path of ensure does with the child it has started.
Abandon(c) == Killed(Mine(c))

\* The catalog arrived: the session is entered, over whatever was there.
\* It was refused, or the caller is aborted: the child is closed again.
FinishEnsure(c) ==
  /\ callers[c].at = "list"
  /\ \/ /\ registered' = Mine(c)
        /\ callers' = [callers EXCEPT ![c] = [@ EXCEPT !.at = "queued",
                                                       !.stage = FirstStage(callers[c].op)]]
        /\ children' = [children EXCEPT ![Mine(c)] = [@ EXCEPT !.queue = <<c>>,
                                                            !.overlapped = \E d \in Callers \ {c} : Connecting(d)]]
     \/ children' = Abandon(c) /\ Go(c, "failed") /\ UNCHANGED registered

-----------------------------------------------------------------------------
(* Requests of a session, one after the other                             *)

HeadOf(c) == children[Mine(c)].queue # <<>> /\ Head(children[Mine(c)].queue) = c

Issue(c) ==
  /\ callers[c].at = "queued" /\ HeadOf(c)
  /\ Go(c, "asking")
  /\ UNCHANGED <<children, registered>>

\* The request leaves the queue, answered or not.
Dequeued(c) == [children EXCEPT ![Mine(c)].queue = Tail(@)]

\* The child answers: a call is queued again behind the requests that came
\* meanwhile, unless the catalog does not declare the tool.
Answer(c) ==
  /\ callers[c].at = "asking"
  /\ children[Mine(c)].live
  /\ \/ /\ callers[c].op = "call" /\ callers[c].stage = "catalog"
        /\ callers' = [callers EXCEPT ![c] = [@ EXCEPT !.at = "queued", !.stage = "run"]]
        /\ children' = [children EXCEPT ![Mine(c)].queue = Append(Tail(@), c)]
     \/ Go(c, "answered") /\ children' = Dequeued(c)
  /\ UNCHANGED registered

\* Mutant: no timer, only the end of the child.
GivesUpOnExit(c) == ~children[Mine(c)].live
\* When the wait for the child may be given up: the timer, an abort, or an error.
GivesUp(c) == TRUE

GiveUp(c) ==
  /\ callers[c].at = "asking" /\ GivesUp(c)
  /\ Go(c, "failed") /\ children' = Dequeued(c)
  /\ UNCHANGED registered

\* describe answers; the others drop the session of the server by its name,
\* whichever session that is by now.
Fail(c) ==
  /\ callers[c].at = "failed"
  /\ IF callers[c].op = "describe" \/ registered = 0
     THEN Go(c, "answered") /\ UNCHANGED <<children, registered>>
     ELSE Go(c, "closing") /\ registered' = 0 /\ children' = Killed(registered)

Closed(c) ==
  /\ callers[c].at = "closing" /\ Go(c, "answered") /\ UNCHANGED <<children, registered>>

-----------------------------------------------------------------------------

\* A child exits by itself.
ChildExits ==
  /\ \E k \in 1 .. Len(children) : children[k].live /\ children' = Killed(k)
  /\ UNCHANGED <<callers, registered>>

\* close of the manager, or the sweep of a session not used for long.
CloseRegistered ==
  /\ registered # 0
  /\ registered' = 0 /\ children' = Killed(registered)
  /\ UNCHANGED callers

CallerStep(c) == \/ Ensure(c) \/ Replaced(c) \/ Connect(c) \/ FinishEnsure(c) \/ Issue(c)
                 \/ GiveUp(c) \/ Fail(c) \/ Closed(c)

McpSessionsNext ==
  \/ \E c \in Callers : Ask(c) \/ Answer(c) \/ CallerStep(c)
  \/ ChildExits \/ CloseRegistered

\* The runtime's own steps: connections and closes settle, timers fire.
\* A child need not answer.
McpSessionsFairness == \A c \in Callers : WF_mcpVars(CallerStep(c))

McpSessionsSpec == McpSessionsInit /\ [][McpSessionsNext]_mcpVars /\ McpSessionsFairness

-----------------------------------------------------------------------------
(* Properties                                                             *)

\* A child no caller is connecting and no session holds has been closed,
\* unless its connection overlapped another one to the same server.
\* (close, ensure, drop: mcp-session-manager.ts:144-190, 221-226)
NoChildIsLostAlone ==
  \A k \in 1 .. Len(children) :
    \/ ~children[k].live \/ registered = k \/ children[k].overlapped
    \/ \E c \in Callers : callers[c].at = "list" /\ Mine(c) = k

\* Every operation is answered, whatever the child does and however many wait.
\* (enqueue and withTimeout, mcp-session-manager.ts:215-219, 290-336)
EveryOperationIsAnswered ==
  \A c \in Callers : []<>(callers[c].at \in {"idle", "answered"})
=============================================================================
