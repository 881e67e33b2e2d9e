--------------------------- MODULE WorkspaceIndex ---------------------------
(***************************************************************************)
(* The index of one watched workspace: the queue of changed paths with its *)
(* debounce timer, flushes, workers and drains, and the store each worker  *)
(* reads, changes and saves through one temporary file.                    *)
(***************************************************************************)
EXTENDS Naturals, FiniteSets, Sequences

CONSTANTS
  Paths,        \* paths of the workspace
  Concurrency,  \* workers of the queue
  Drainers,     \* callers of drain: stopWatch and indexWorkspace
  MaxChanges    \* bound: changes of files

ASSUME IndexAssumption ==
  /\ Concurrency \in Nat \ {0} /\ MaxChanges \in Nat
  /\ IsFiniteSet(Paths) /\ Paths # {}

VARIABLES
  disk,     \* the content of each path now, 0 when there is none
  changes,  \* changes so far
  pending,  \* the paths to be worked on, in order
  timer,    \* the debounce timer is set
  workers,  \* what each worker does
  owners,   \* who awaits each flush: a drainer, or the timer
  drains,   \* where each drainer stands
  waker,    \* the drainer whose resolver is in wake
  store,    \* the entry of each path in the saved index
  temp,     \* the temporary file: a snapshot, or <<>>
  alive,    \* the process
  unseen    \* history: changed paths no worker has looked at since

indexVars == <<disk, changes, pending, timer, workers, owners, drains, waker, store, temp, alive, unseen>>

Slots == 1 .. Concurrency
Contents == 0 .. 1
Snapshots == [Paths -> Contents]
FlushOwners == Drainers \cup {"timer"}
\* again: the worker saves the removal of a path it found gone.
Worker == [step : {"idle", "load", "look", "write", "rename"}, again : BOOLEAN,
           path : Paths, snapshot : Snapshots, flush : Slots]
Idle(w) == w.step = "idle"
IdleWorker == [step |-> "idle", again |-> FALSE, path |-> CHOOSE p \in Paths : TRUE,
               snapshot |-> [p \in Paths |-> 0], flush |-> 1]

WorkspaceIndexTypeOK ==
  /\ disk \in Snapshots /\ changes \in 0 .. MaxChanges
  /\ Len(pending) \in 0 .. Cardinality(Paths) /\ \A i \in 1 .. Len(pending) : pending[i] \in Paths
  /\ timer \in BOOLEAN
  /\ workers \in [Slots -> Worker]
  /\ owners \in [Slots -> FlushOwners]
  /\ drains \in [Drainers -> {"idle", "flushing", "waiting", "returned", "rejected"}]
  /\ waker \in Drainers \cup {"none"}
  /\ store \in Snapshots /\ temp \in Snapshots \cup {<<>>}
  /\ alive \in BOOLEAN /\ unseen \subseteq Paths

WorkspaceIndexInit ==
  /\ disk = [p \in Paths |-> 1] /\ changes = 0
  /\ pending = <<>> /\ timer = FALSE
  /\ workers = [s \in Slots |-> IdleWorker]
  /\ owners = [s \in Slots |-> "timer"]
  /\ drains = [d \in Drainers |-> "idle"] /\ waker = "none"
  /\ store = disk /\ temp = <<>> /\ alive = TRUE /\ unseen = {}

Busy(ws) == {s \in Slots : ~Idle(ws[s])}

-----------------------------------------------------------------------------
(* The queue                                                              *)

\* Mutant: a path already pending is added once more.
EnqueuedTwice(p) == Append(pending, p)
\* enqueue: coalesced with an event of that path still pending.
Enqueued(p) ==
  IF \E i \in 1 .. Len(pending) : pending[i] = p THEN pending ELSE Append(pending, p)

\* A change the watcher reports.
Change ==
  /\ alive /\ changes < MaxChanges
  /\ \E p \in Paths, c \in Contents :
       /\ c # disk[p] /\ disk' = [disk EXCEPT ![p] = c]
       /\ unseen' = unseen \cup {p}
       /\ pending' = Enqueued(p)
  /\ changes' = changes + 1 /\ timer' = TRUE
  /\ UNCHANGED <<workers, owners, drains, waker, store, temp, alive>>

\* The paths at the head of the queue go to the free workers, as part of flush f.
Assigned(ws, f) ==
  LET free == Slots \ Busy(ws)
      rank(s) == Cardinality({r \in free : r <= s}) IN
    [s \in Slots |-> IF s \in free /\ rank(s) <= Len(pending)
                     THEN [ws[s] EXCEPT !.step = "load", !.path = pending[rank(s)], !.flush = f]
                     ELSE ws[s]]

\* Mutant: a flush takes what it cannot hand to a worker, too.
LeftNothing(ws) == <<>>
\* How many paths stay behind.
Left(ws) == LET free == Concurrency - Cardinality(Busy(ws)) IN
              SubSeq(pending, free + 1, Len(pending))

\* Where a drain goes once its flush has ended with the workers ws.
AfterFlush(owner, ws, ds) ==
  IF owner = "timer" THEN ds
  ELSE [ds EXCEPT ![owner] = IF Busy(ws) # {} \/ timer' THEN "waiting" ELSE "returned"]

\* With no worker free a flush calls itself at once, until the stack is full.
Overflows == pending # <<>> /\ Busy(workers) = Slots

\* flush, as far as it runs without waiting.  One that overflows is rejected,
\* and so is its drain.
Flush(owner, ws) ==
  IF pending = <<>>
  THEN LET over == Busy(ws) = {} IN
       /\ workers' = ws /\ UNCHANGED <<pending, owners>>
       /\ LET woken == IF over /\ waker # "none" THEN [drains EXCEPT ![waker] = "returned"]
                       ELSE drains IN
            drains' = AfterFlush(owner, ws, woken)
       /\ waker' = IF owner # "timer" /\ drains'[owner] = "waiting" THEN owner
                   ELSE IF over THEN "none" ELSE waker
  ELSE IF Busy(ws) = Slots
  THEN /\ workers' = ws /\ UNCHANGED <<pending, owners, waker>>
       /\ drains' = IF owner = "timer" THEN drains ELSE [drains EXCEPT ![owner] = "rejected"]
  ELSE \E f \in Slots \ {ws[s].flush : s \in Busy(ws)} :
         /\ workers' = Assigned(ws, f) /\ pending' = Left(ws)
         /\ owners' = [owners EXCEPT ![f] = owner]
         /\ drains' = IF owner = "timer" THEN drains ELSE [drains EXCEPT ![owner] = "flushing"]
         /\ UNCHANGED waker

\* Nobody handles the rejection of a flush of the timer: a host may let that end
\* the process, as Node does, or go on.
TimerFires ==
  /\ alive /\ timer /\ timer' = FALSE
  /\ Flush("timer", workers)
  /\ alive' \in IF Overflows THEN BOOLEAN ELSE {TRUE}
  /\ UNCHANGED <<disk, changes, store, temp, unseen>>

Drain(d) ==
  /\ alive /\ drains[d] = "idle" /\ timer' = FALSE
  /\ Flush(d, workers)
  /\ UNCHANGED <<disk, changes, store, temp, alive, unseen>>

\* A worker is done; the last one of a flush lets the flush go on.
WorkerEnds(s) ==
  LET ws == [workers EXCEPT ![s] = IdleWorker]
      f == workers[s].flush IN
    /\ timer' = timer
    /\ IF \E r \in Busy(ws) : ws[r].flush = f
       THEN workers' = ws /\ UNCHANGED <<pending, owners, drains, waker>>
       ELSE Flush(owners[f], ws)

-----------------------------------------------------------------------------
(* indexPath                                                              *)

At(s, step) == alive /\ workers[s].step = step
Turn(s, w) == /\ workers' = [workers EXCEPT ![s] = w]
              /\ UNCHANGED <<disk, changes, pending, timer, owners, drains, waker, store, alive>>

Load(s) ==
  /\ At(s, "load")
  /\ Turn(s, [workers[s] EXCEPT !.step = "look", !.snapshot = store])
  /\ UNCHANGED <<temp, unseen>>

\* stat and read of the path itself; one that is gone leaves the index.
Look(s) ==
  /\ At(s, "look")
  /\ Turn(s, [workers[s] EXCEPT !.step = "write", !.again = (disk[workers[s].path] = 0),
                                  !.snapshot[workers[s].path] = disk[workers[s].path]])
  /\ unseen' = unseen \ {workers[s].path} /\ UNCHANGED temp

Write(s) ==
  /\ At(s, "write")
  /\ temp' = workers[s].snapshot
  /\ Turn(s, [workers[s] EXCEPT !.step = "rename"])
  /\ UNCHANGED unseen

\* The rename finds no temporary file when another worker has renamed it: the
\* path is then taken for one that is gone, and removed; a second time the
\* worker fails, which ends it, too.
Rename(s) ==
  /\ At(s, "rename")
  /\ IF temp # <<>>
     THEN store' = temp /\ temp' = <<>> /\ WorkerEnds(s)
          /\ UNCHANGED <<disk, changes, alive>>
     ELSE /\ UNCHANGED temp
          /\ IF workers[s].again
             THEN WorkerEnds(s) /\ UNCHANGED <<disk, changes, store, alive>>
             ELSE Turn(s, [workers[s] EXCEPT !.step = "write", !.again = TRUE,
                                             !.snapshot[workers[s].path] = 0])
  /\ UNCHANGED unseen

WorkerStep(s) == Load(s) \/ Look(s) \/ Write(s) \/ Rename(s)

WorkspaceIndexNext ==
  \/ Change \/ TimerFires
  \/ \E d \in Drainers : Drain(d)
  \/ \E s \in Slots : WorkerStep(s)

\* Timers fire and file operations settle.
WorkspaceIndexFairness ==
  WF_indexVars(TimerFires) /\ \A s \in Slots : WF_indexVars(WorkerStep(s))

WorkspaceIndexSpec == WorkspaceIndexInit /\ [][WorkspaceIndexNext]_indexVars /\ WorkspaceIndexFairness

-----------------------------------------------------------------------------
(* Properties                                                             *)

\* Every path that changed is looked at after its last change, also when
\* changes arrive while all workers are busy, when flushes and drains overlap
\* and when one of them fails on a queue that is full, unless that failure, a
\* rejection nobody handles, ends the process.
\* (enqueue, flush, drain: workspace-index-queue.ts:51-116)
EveryChangeIsLookedAt == \A p \in Paths : []<>(p \notin unseen \/ ~alive)
=============================================================================
