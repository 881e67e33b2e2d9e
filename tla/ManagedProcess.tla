--------------------------- MODULE ManagedProcess ---------------------------
(***************************************************************************)
(* One process of ProcessManager on Windows as ProcessService uses it: a   *)
(* start that may be aborted at any await, and the four parties that may   *)
(* want its end: the aborted start, the timeout, a user and the            *)
(* cancellation of a goal.  They share one attempt to end the process tree *)
(* at a time.                                                              *)
(***************************************************************************)

VARIABLES
  proc,    \* the start call, the record and the child
  enders,  \* where those who want its end stand
  attempt  \* the attempt to end its tree

procVars == <<proc, enders, attempt>>

Enders == {"start", "timer", "user", "goal"}
\* These try again while the root lives: onAbort of start, stop with autoRetry.
Retrying == {"start", "goal"}

Verified == {"exited", "failed", "stopped", "timed_out"}
ProcEnds == Verified \cup {"termination_unverified"}
\* child: "unborn" has no pid, its error event is due; "exited" is the end of
\* the root, "closed" that of its streams, too.
Process == [start : {"idle", "resolving", "spawning", "confirming", "answered"},
            told : {"nothing", "started", "cancelled", "error"},
            aborted : BOOLEAN,
            child : {"none", "unborn", "spawned", "live", "exited", "closed"},
            state : {"none", "starting", "running"} \cup ProcEnds,
            target : {"stopped", "timed_out"},
            accepted : BOOLEAN]

ManagedProcessTypeOK ==
  /\ proc \in Process
  /\ enders \in [Enders -> {"idle", "trying", "retrying", "waiting", "returned"}]
  /\ attempt \in {"none", "killing", "exiting"}

ManagedProcessInit ==
  /\ proc = [start |-> "idle", told |-> "nothing", aborted |-> FALSE, child |-> "none",
             state |-> "none", target |-> "stopped", accepted |-> FALSE]
  /\ enders = [e \in Enders |-> "idle"]
  /\ attempt = "none"

\* isChildLive: neither an exit code nor a signal.
ChildLive == proc.child \in {"unborn", "spawned", "live"}
Attempting == attempt # "none"
AsksEnd(e) == enders' = [enders EXCEPT ![e] = "trying"]

-----------------------------------------------------------------------------
(* start                                                                  *)

BeginStart ==
  /\ proc.start = "idle"
  /\ proc' = [proc EXCEPT !.start = "resolving"]
  /\ UNCHANGED <<enders, attempt>>

\* The executable is resolved.  An abort meanwhile, or one that is not found,
\* leaves nothing; else the child is spawned and its record kept.
Resolved ==
  /\ proc.start = "resolving"
  /\ \/ proc' = [proc EXCEPT !.start = "answered",
                             !.told = IF proc.aborted THEN "cancelled" ELSE "error"]
     \/ /\ ~proc.aborted
        /\ \E child \in {"unborn", "spawned"} :
             proc' = [proc EXCEPT !.start = "spawning", !.child = child, !.state = "starting"]
  /\ UNCHANGED <<enders, attempt>>

\* The spawn event settles the start, unless an abort came first.
SpawnEvent ==
  /\ proc.child = "spawned"
  /\ proc' = IF proc.aborted THEN [proc EXCEPT !.child = "live"]
             ELSE [proc EXCEPT !.child = "live", !.start = "confirming",
                               !.state = IF @ = "starting" THEN "running" ELSE @]
  /\ UNCHANGED <<enders, attempt>>

\* The error event of a spawn that failed.
ErrorEvent ==
  /\ proc.child = "unborn"
  /\ proc' = [proc EXCEPT !.child = "closed", !.start = "answered",
                          !.told = IF proc.aborted THEN "cancelled" ELSE "error",
                          !.state = IF @ \in ProcEnds THEN @ ELSE "failed"]
  /\ UNCHANGED <<enders, attempt>>

\* The caller's signal.  A child that has a pid and whose start has not
\* settled is ended before the start answers.
AbortStart ==
  /\ ~proc.aborted /\ proc.start \in {"resolving", "spawning", "confirming"}
  /\ proc' = [proc EXCEPT !.aborted = TRUE]
  /\ IF proc.child = "spawned" THEN AsksEnd("start") ELSE UNCHANGED enders
  /\ UNCHANGED attempt

\* ProcessService looks at the signal once more: a child spawned just before
\* the abort is stopped, not handed out.
ConfirmStart ==
  /\ proc.start = "confirming" /\ enders["start"] = "idle"
  /\ IF proc.aborted THEN AsksEnd("start") /\ UNCHANGED proc
     ELSE proc' = [proc EXCEPT !.start = "answered", !.told = "started"] /\ UNCHANGED enders
  /\ UNCHANGED attempt

-----------------------------------------------------------------------------
(* The child                                                              *)

RootExits ==
  /\ proc.child = "live"
  /\ proc' = [proc EXCEPT !.child = "exited"]
  /\ UNCHANGED <<enders, attempt>>

\* Mutant: the close event does not look whether an end was asked for.
CloseEventAlways ==
  /\ proc.child = "exited"
  /\ proc' = [proc EXCEPT !.child = "closed", !.state = IF @ \in ProcEnds THEN @ ELSE "exited"]
  /\ UNCHANGED <<enders, attempt>>

\* The close event leaves the state alone while an attempt is under way.
CloseEvent ==
  /\ proc.child = "exited"
  /\ proc' = [proc EXCEPT !.child = "closed",
                          !.state = IF Attempting \/ @ \in ProcEnds THEN @ ELSE "exited"]
  /\ UNCHANGED <<enders, attempt>>

-----------------------------------------------------------------------------
(* Those who want its end                                                 *)

\* stop by a user, or by the cancellation of the goal that tracks the process.
CallStop(e) ==
  /\ e \in {"user", "goal"} /\ proc.state # "none" /\ enders[e] = "idle"
  /\ AsksEnd(e)
  /\ UNCHANGED <<proc, attempt>>

TimeoutFires ==
  /\ enders["timer"] = "idle" /\ proc.state = "running" /\ ~Attempting
  /\ AsksEnd("timer")
  /\ UNCHANGED <<proc, attempt>>

RetryTimer(e) ==
  /\ enders[e] = "retrying"
  /\ AsksEnd(e)
  /\ UNCHANGED <<proc, attempt>>

\* Those who asked are answered, and finish wakes those who wait for a
\* verified end; the aborted start then comes back once more.
EndersTold ==
  [e \in Enders |-> CASE enders[e] = "trying" -> "returned"
                      [] enders[e] = "waiting" -> IF e = "start" THEN "retrying" ELSE "returned"
                      [] OTHER -> enders[e]]
\* After a failed attempt: again as long as the root lives, or wait.
EndersUntold ==
  [e \in Enders |-> CASE enders[e] # "trying" -> enders[e]
                      [] e = "timer" -> "returned"
                      [] e \in Retrying /\ ChildLive -> "retrying"
                      [] OTHER -> "waiting"]
\* The start that asked answers with its caller's cancellation.
StartTold(record) ==
  IF enders["start"] = "trying" THEN [record EXCEPT !.start = "answered", !.told = "cancelled"]
  ELSE record

\* tryTerminate finds an end that is verified already.
TakeVerified ==
  /\ proc.state \in Verified /\ ~Attempting
  /\ \E e \in Enders : enders[e] = "trying"
  /\ enders' = EndersTold /\ proc' = StartTold(proc)
  /\ UNCHANGED attempt

\* Whose name the end gets: that of an attempt that failed, when there was one.
Target(e) == IF proc.state = "termination_unverified" THEN proc.target
             ELSE IF e = "timer" THEN "timed_out" ELSE "stopped"

\* performTermination: one attempt for all who ask.  Without a pid, or when
\* the root is gone, nothing can be verified.
BeginAttempt ==
  /\ proc.state \notin Verified /\ ~Attempting
  /\ \E e \in Enders :
       /\ enders[e] = "trying"
       /\ IF proc.child \in {"unborn", "exited", "closed"} /\ ~proc.accepted
          THEN /\ proc' = [proc EXCEPT !.state = "termination_unverified", !.target = Target(e)]
               /\ enders' = EndersUntold /\ UNCHANGED attempt
          ELSE /\ proc' = [proc EXCEPT !.target = Target(e)]
               /\ attempt' = IF proc.accepted THEN "exiting" ELSE "killing"
               /\ UNCHANGED enders

\* taskkill took the tree, or found the root gone already; the root has still
\* to be seen to exit.
KillAccepted ==
  /\ attempt = "killing"
  /\ proc' = [proc EXCEPT !.accepted = TRUE]
  /\ attempt' = "exiting"
  /\ UNCHANGED enders

Proved == attempt = "exiting" /\ proc.child \in {"exited", "closed"}

EndProved ==
  /\ Proved
  /\ attempt' = "none"
  /\ enders' = EndersTold
  /\ proc' = StartTold([proc EXCEPT !.state = proc.target])

\* taskkill could not be run or refused, or the root did not exit in time.
EndUnproved ==
  /\ attempt = "killing" \/ (attempt = "exiting" /\ ChildLive)
  /\ attempt' = "none"
  /\ proc' = [proc EXCEPT !.state = "termination_unverified"]
  /\ enders' = EndersUntold

-----------------------------------------------------------------------------

ManagedProcessNext ==
  \/ BeginStart \/ Resolved \/ SpawnEvent \/ ErrorEvent \/ AbortStart \/ ConfirmStart
  \/ RootExits \/ CloseEvent
  \/ TimeoutFires \/ \E e \in Enders : CallStop(e) \/ RetryTimer(e)
  \/ TakeVerified \/ BeginAttempt \/ KillAccepted \/ EndProved \/ EndUnproved

ManagedProcessSpec == ManagedProcessInit /\ [][ManagedProcessNext]_procVars

-----------------------------------------------------------------------------
(* Properties                                                             *)

\* Nobody is told that a process is gone while its root is alive: not the
\* caller of an aborted start, nor those of stop, nor a reader of the record,
\* whoever began the attempt they share; and an end once verified stays.
\* (onAbort, stop, tryTerminate, performTermination: process-manager.ts:96-114,
\* 157-169, 206-241)
GoneMeansGone ==
  [][/\ proc'.state \in {"stopped", "timed_out", "exited"} => ~ChildLive'
     /\ proc'.told = "cancelled" => ~ChildLive'
     /\ \A e \in {"user", "goal"} : enders'[e] = "returned" => ~ChildLive'
     /\ proc.state \in Verified => proc'.state = proc.state]_procVars
=============================================================================
