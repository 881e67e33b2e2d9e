--------------------------- MODULE SharedActivity ---------------------------
(***************************************************************************)
(* Each MCP runtime publishes how many tool calls it has in flight in a     *)
(* file of its own, the lease; the desktop reads the leases of all runtimes *)
(* and installs an update when they have been quiet for a while.            *)
(* (activity-tracker.ts, shared-activity-snapshot.ts, update-install.ts)    *)
(***************************************************************************)
EXTENDS Integers, Sequences, FiniteSetsExt, Functions

CONSTANTS
  NLeases,        \* runtimes, each with its lease
  MaxToolCalls,   \* bound: tool calls, of whichever runtime
  Closers,        \* bound: the runtimes that may close in good order; all may die
  ActivityFaults  \* "io_error"

ASSUME SharedActivityAssumption ==
  /\ {NLeases, MaxToolCalls} \subseteq Nat
  /\ Closers \subseteq 1 .. NLeases
  /\ ActivityFaults \subseteq {"io_error"}

Leases == 1 .. NLeases
ToolCallIds == 1 .. MaxToolCalls

VARIABLES
  leases,    \* SharedActivitySnapshotLease of each runtime
  leaseFile, \* the lease on the disk
  toolCalls, \* the calls in ActivityTracker
  reader,    \* readSharedActivitySnapshot
  quiet      \* UpdateInstallCoordinator, while the tunnel runs

activityVars == <<leases, leaseFile, toolCalls, reader, quiet>>

LeaseSnapshot == [count : Nat, rev : Nat]
NoSnapshot == [count |-> 0, rev |-> -1]

LeaseOp == [kind : {"init", "refresh", "close"}] \cup [kind : {"start", "end"}, call : ToolCallIds]

\* beat: whether a publication begun in the present quiet period is out.
LeaseRecord == [life : {"new", "open", "closed", "gone"}, init : BOOLEAN, count : Nat,
          rev : Nat, queue : Seq(LeaseOp),
          at : {"rest", "first", "publish", "moved"}, next : LeaseSnapshot,
          beat : {"no", "writing", "yes"}, missed : BOOLEAN]

\* found: what was read, same: where it is still the last publication; live: whose
\* lease counts; target, aside: the lease that is being quarantined.
Reader == [at : {"rest", "read", "judge", "move", "compare", "fails"}, todo : SUBSET Leases,
           found : [Leases -> LeaseSnapshot \cup {NoSnapshot}], same : SUBSET Leases,
           live : SUBSET Leases, target : 0 .. NLeases,
           aside : LeaseSnapshot \cup {NoSnapshot}]

Key == [owners : SUBSET Leases, rev : Nat]
NoKey == [owners |-> {}, rev |-> 0]

SharedActivityTypeOK ==
  /\ leases \in [Leases -> LeaseRecord]
  /\ leaseFile \in [Leases -> LeaseSnapshot \cup {NoSnapshot}]
  /\ toolCalls \in [ToolCallIds -> [at : {"none", "begins", "runs", "ends", "done"},
                                    lease : 0 .. NLeases, shown : BOOLEAN]]
  /\ reader \in Reader
  /\ quiet \in [mark : Key, covered : BOOLEAN, installs : BOOLEAN,
                since : SUBSET ToolCallIds, old : SUBSET ToolCallIds]

NewLease == [life |-> "new", init |-> FALSE, count |-> 0, rev |-> 0, queue |-> <<>>, at |-> "rest",
             next |-> [count |-> 0, rev |-> 0], beat |-> "no", missed |-> FALSE]
RestingReader == [at |-> "rest", todo |-> {}, found |-> [l \in Leases |-> NoSnapshot], same |-> {},
                  live |-> {}, target |-> 0, aside |-> NoSnapshot]

SharedActivityInit ==
  /\ leases = [l \in Leases |-> NewLease]
  /\ leaseFile = [l \in Leases |-> NoSnapshot]
  /\ toolCalls = [k \in ToolCallIds |-> [at |-> "none", lease |-> 0, shown |-> FALSE]]
  /\ reader = RestingReader
  /\ quiet = [mark |-> NoKey, covered |-> FALSE, installs |-> FALSE,
              since |-> {}, old |-> {}]

-----------------------------------------------------------------------------
(* The lease: a chain of operations, each of which publishes               *)

WithOp(l, op) == [leases[l] EXCEPT !.queue = Append(leases[l].queue, op)]
Enqueue(l, op) == [leases EXCEPT ![l] = WithOp(l, op)]

\* A runtime starts: activityReady.
OpenLease(l) ==
  /\ leases[l].life = "new"
  /\ leases' = [leases EXCEPT ![l] = [WithOp(l, [kind |-> "init"]) EXCEPT !.life = "open"]]
  /\ UNCHANGED <<leaseFile, toolCalls, reader, quiet>>

\* The interval, as far as it tells anything: the first publication in a quiet
\* period, or one that makes good for a publication that failed.
Heartbeat(l) ==
  /\ leases[l].life = "open" /\ leases[l].init /\ leases[l].queue = <<>>
  /\ \/ quiet.mark # NoKey /\ leases[l].beat = "no"
     \/ leaseFile[l] # [count |-> leases[l].count, rev |-> leases[l].rev]
  /\ leases' = Enqueue(l, [kind |-> "refresh"])
  /\ UNCHANGED <<leaseFile, toolCalls, reader, quiet>>

CloseLease(l) ==
  /\ l \in Closers /\ leases[l].life = "open"
  /\ leases' = [leases EXCEPT ![l] = [WithOp(l, [kind |-> "close"]) EXCEPT !.life = "closed"]]
  /\ UNCHANGED <<leaseFile, toolCalls, reader, quiet>>

Ends(l) ==
  /\ leases' = [leases EXCEPT ![l] = [NewLease EXCEPT !.life = "gone"]]
  /\ toolCalls' = [k \in ToolCallIds |-> IF toolCalls[k].lease = l THEN [toolCalls[k] EXCEPT !.at = "done"]
                                         ELSE toolCalls[k]]

\* The process ends, at any moment; its lease stays on the disk.
LeaseGone(l) ==
  /\ leases[l].life \in {"open", "closed"}
  /\ Ends(l)
  /\ UNCHANGED <<leaseFile, reader, quiet>>

\* Mutant: the count may go below nothing.
CountedAfterUnclamped(L, op) ==
  CASE op.kind = "start" -> [L EXCEPT !.count = @ + 1, !.rev = @ + 1]
    [] op.kind = "end" -> [L EXCEPT !.count = @ - 1, !.rev = @ + 1]
    [] OTHER -> L
\* The counters after an operation; an end that was never counted as a start
\* takes one away all the same.
CountedAfter(L, op) ==
  CASE op.kind = "start" -> [L EXCEPT !.count = @ + 1, !.rev = @ + 1]
    [] op.kind = "end" -> [L EXCEPT !.count = IF @ > 0 THEN @ - 1 ELSE 0, !.rev = @ + 1]
    [] OTHER -> L

\* The snapshot is made up before the temporary file is written.
Publishing(L, at) ==
  [L EXCEPT !.at = at, !.next = [count |-> L.count, rev |-> L.rev],
            !.beat = IF @ = "no" /\ quiet.mark # NoKey THEN "writing" ELSE @]

\* The operation at the head of the chain is over; its caller goes on, whether
\* the activity is on the disk (safeRecord swallows the error) or not.
OpOver(l, L, published) ==
  LET op == Head(L.queue) IN
  /\ leases' = [leases EXCEPT ![l] = [L EXCEPT !.queue = Tail(L.queue), !.at = "rest", !.next = NewLease.next]]
  /\ toolCalls' =
       CASE op.kind = "start" -> [toolCalls EXCEPT ![op.call] = [toolCalls[op.call] EXCEPT !.at = "runs", !.shown = published]]
         [] op.kind = "end" -> [toolCalls EXCEPT ![op.call].at = "done"]
         [] OTHER -> toolCalls
  /\ quiet' = IF op.kind = "start" /\ quiet.mark # NoKey THEN [quiet EXCEPT !.since = @ \cup {op.call}]
              ELSE quiet

Busy(l) == leases[l].life \in {"open", "closed"} /\ leases[l].queue # <<>>
\* close has run: only its own operation is left to be done after it.
IsClosed(L) == L.life = "closed" /\ \A i \in 1 .. Len(L.queue) : L.queue[i].kind # "close"

\* An operation begins as soon as it is at the head of the chain, and with
\* nothing that others could see.
Due == {l \in Leases : Busy(l) /\ leases[l].at = "rest" /\ Head(leases[l].queue).kind # "close"}

\* initialize, record, refresh: what is published first.
OpBegins(l) ==
  LET L == leases[l]
      op == Head(L.queue) IN
  /\ IF L.init /\ op.kind \in {"start", "end", "refresh"} /\ ~(op.kind = "refresh" /\ IsClosed(L))
     THEN leases' = [leases EXCEPT ![l] = Publishing(CountedAfter(L, op), "publish")] /\ UNCHANGED <<toolCalls, quiet>>
     ELSE IF ~L.init /\ op.kind # "refresh" /\ ~IsClosed(L)
     THEN leases' = [leases EXCEPT ![l] = Publishing(L, "first")] /\ UNCHANGED <<toolCalls, quiet>>
     ELSE OpOver(l, [L EXCEPT !.missed = @ \/ op.kind = "start"], FALSE)
  /\ UNCHANGED <<leaseFile, reader>>

\* rename of the temporary file; the first publication of a record is followed
\* by its own.
PublishRenames(l) ==
  LET L == leases[l]
      beaten == [L EXCEPT !.beat = IF @ = "writing" THEN "yes" ELSE @]
      op == Head(L.queue) IN
  /\ L.at \in {"first", "publish"}
  /\ leaseFile' = [leaseFile EXCEPT ![l] = L.next]
  /\ reader' = [reader EXCEPT !.same = IF reader.at = "compare" /\ reader.target = l THEN @ ELSE @ \ {l}]
  /\ IF L.at = "first" /\ op.kind # "init"
     THEN /\ leases' = [leases EXCEPT ![l] = Publishing(CountedAfter([beaten EXCEPT !.init = TRUE], op), "publish")]
          /\ UNCHANGED <<toolCalls, quiet>>
     ELSE OpOver(l, [beaten EXCEPT !.init = TRUE], TRUE)

PublishFails(l) ==
  LET L == leases[l] IN
  /\ "io_error" \in ActivityFaults /\ L.at \in {"first", "publish"}
  /\ OpOver(l, [L EXCEPT !.missed = @ \/ (L.at = "first" /\ Head(L.queue).kind = "start"),
                         !.beat = IF @ = "writing" THEN "no" ELSE @], FALSE)
  /\ UNCHANGED <<leaseFile, reader>>

\* close: the lease is set aside, looked at and removed.
CloseMoves(l) ==
  LET L == leases[l] IN
  /\ Busy(l) /\ L.at = "rest" /\ Head(L.queue).kind = "close"
  /\ IF leaseFile[l] = NoSnapshot THEN Ends(l) /\ UNCHANGED leaseFile
     ELSE /\ leases' = [leases EXCEPT ![l] = [L EXCEPT !.at = "moved", !.next = leaseFile[l]]]
          /\ leaseFile' = [leaseFile EXCEPT ![l] = NoSnapshot]
          /\ UNCHANGED toolCalls
  /\ UNCHANGED <<reader, quiet>>

CloseRemoves(l) ==
  LET L == leases[l] IN
  /\ L.at = "moved" /\ Ends(l)
  /\ \/ UNCHANGED leaseFile
     \/ "io_error" \in ActivityFaults /\ leaseFile' = [leaseFile EXCEPT ![l] = L.next]
  /\ UNCHANGED <<reader, quiet>>

-----------------------------------------------------------------------------
(* ActivityTracker                                                         *)

BeginToolCall(k, l) ==
  /\ toolCalls[k].at = "none" /\ leases[l].life = "open"
  /\ \A j \in ToolCallIds : toolCalls[j].at = "none" => k <= j
  /\ toolCalls' = [toolCalls EXCEPT ![k] = [at |-> "begins", lease |-> l, shown |-> FALSE]]
  /\ leases' = Enqueue(l, [kind |-> "start", call |-> k])
  /\ UNCHANGED <<leaseFile, reader, quiet>>

EndToolCall(k) ==
  /\ toolCalls[k].at = "runs"
  /\ toolCalls' = [toolCalls EXCEPT ![k].at = "ends"]
  /\ leases' = Enqueue(toolCalls[k].lease, [kind |-> "end", call |-> k])
  /\ UNCHANGED <<leaseFile, reader, quiet>>

-----------------------------------------------------------------------------
(* readSharedActivitySnapshot                                              *)

Present == {l \in Leases : leaseFile[l] # NoSnapshot}
Opened == {l \in Leases : leases[l].life = "open" /\ leases[l].init}

\* A heartbeat comes every second and the quiet period lasts longer: the look
\* that ends it begins after a publication of each runtime.
LookBegins ==
  /\ reader.at = "rest" /\ ~quiet.installs
  /\ reader' = [RestingReader EXCEPT !.todo = Present,
                                      !.at = IF Present = {} THEN "judge" ELSE "read"]
  /\ quiet' = [quiet EXCEPT !.old = quiet.since,
       !.covered = quiet.mark # NoKey /\ \A l \in Opened : leases[l].beat = "yes"]
  /\ UNCHANGED <<leases, leaseFile, toolCalls>>

\* One lease after the other, by their names; one that is gone is passed over.
NextLease == Min(reader.todo)
Readable(found) == {l \in Leases : found[l] # NoSnapshot}

ReadLease ==
  /\ reader.at = "read"
  /\ \/ LET found == [reader.found EXCEPT ![NextLease] = leaseFile[NextLease]]
            rest == reader.todo \ {NextLease} IN
        reader' = [reader EXCEPT !.found = found, !.same = @ \cup {NextLease},
                                 !.at = IF rest = {} THEN "judge" ELSE "read",
                                 !.todo = IF rest = {} THEN Readable(found) ELSE rest]
     \/ "io_error" \in ActivityFaults /\ reader' = [RestingReader EXCEPT !.at = "fails"]
  /\ UNCHANGED <<leases, leaseFile, toolCalls, quiet>>

\* Five seconds without a publication, or without the owner's process.  A runtime
\* publishes every second as long as it is open.
MayBeStale(l) == leases[l].life \in {"closed", "gone"}
MayBeLive(l) == leases[l].life # "gone"

JudgeLease ==
  LET l == NextLease IN
  /\ reader.at = "judge" /\ reader.todo # {}
  /\ \/ MayBeStale(l) /\ reader' = [reader EXCEPT !.at = "move", !.target = l]
     \/ MayBeLive(l) /\ reader' = [reader EXCEPT !.todo = @ \ {l}, !.live = @ \cup {l}, !.same = @ \ {l}]
     \/ "io_error" \in ActivityFaults /\ reader' = [RestingReader EXCEPT !.at = "fails"]
  /\ UNCHANGED <<leases, leaseFile, toolCalls, quiet>>

\* quarantineStaleCandidate
MoveStale ==
  LET l == reader.target IN
  /\ reader.at = "move"
  /\ IF leaseFile[l] = NoSnapshot
     THEN reader' = [RestingReader EXCEPT !.at = "fails"] /\ UNCHANGED leaseFile
     ELSE /\ reader' = [reader EXCEPT !.at = "compare", !.aside = leaseFile[l]]
          /\ leaseFile' = [leaseFile EXCEPT ![l] = NoSnapshot]
  /\ UNCHANGED <<leases, toolCalls, quiet>>

\* What was moved is removed if it is what was read.  A publication in between
\* is put back, in the place of a newer one if there is one.
CompareStale ==
  LET l == reader.target IN
  /\ reader.at = "compare"
  /\ IF l \in reader.same
     THEN /\ reader' = [reader EXCEPT !.at = "judge", !.todo = @ \ {l}, !.same = @ \ {l}, !.target = 0,
                                      !.found[l] = NoSnapshot, !.aside = NoSnapshot]
          /\ UNCHANGED leaseFile
     ELSE /\ reader' = [RestingReader EXCEPT !.at = "fails"]
          /\ leaseFile' = [leaseFile EXCEPT ![l] = reader.aside]
  /\ UNCHANGED <<leases, toolCalls, quiet>>

-----------------------------------------------------------------------------
(* UpdateInstallCoordinator                                                *)

ActiveCalls == SumFunctionOnSet([l \in Leases |-> reader.found[l].count], reader.live)

\* Mutant: a call that came and went between two looks is not noticed.
ObservedOwners == [owners |-> reader.live, rev |-> 0]
ObservedRev == SumFunctionOnSet([l \in Leases |-> reader.found[l].rev], reader.live)
ObservedKey == [owners |-> reader.live, rev |-> ObservedRev]

LookDone == reader.at = "fails" \/ (reader.at = "judge" /\ reader.todo = {})
Trustworthy == reader.at = "judge" /\ reader.live # {}
FoundIdle == Trustworthy /\ ActiveCalls = 0

RunningCalls == {k \in ToolCallIds : toolCalls[k].at = "runs"}

\* The first idle look starts the quiet period.
QuietBegins ==
  /\ LookDone /\ FoundIdle /\ quiet.mark = NoKey
  /\ quiet' = [quiet EXCEPT !.mark = ObservedKey, !.since = RunningCalls]
  /\ leases' = [l \in Leases |-> [leases[l] EXCEPT !.beat = "no"]]
  /\ reader' = RestingReader
  /\ UNCHANGED <<leaseFile, toolCalls>>

\* Later ones have to find the same; the one after its end installs.
StaysQuiet ==
  /\ LookDone /\ FoundIdle /\ ObservedKey = quiet.mark
  /\ \/ quiet' = [quiet EXCEPT !.covered = FALSE, !.old = {}]
     \/ quiet.covered /\ quiet' = [quiet EXCEPT !.installs = TRUE]
  /\ reader' = RestingReader
  /\ UNCHANGED <<leases, leaseFile, toolCalls>>

NotIdle ==
  /\ LookDone /\ (~FoundIdle \/ (quiet.mark # NoKey /\ ObservedKey # quiet.mark))
  /\ quiet' = [quiet EXCEPT !.mark = NoKey, !.since = {}, !.old = {}, !.covered = FALSE]
  /\ leases' = [l \in Leases |-> [leases[l] EXCEPT !.beat = "no"]]
  /\ reader' = RestingReader
  /\ UNCHANGED <<leaseFile, toolCalls>>

-----------------------------------------------------------------------------

LeaseStep(l) ==
  \/ OpenLease(l) \/ Heartbeat(l) \/ CloseLease(l) \/ LeaseGone(l)
  \/ PublishRenames(l) \/ PublishFails(l) \/ CloseMoves(l) \/ CloseRemoves(l)

ActivityStep ==
  \/ \E l \in Leases : LeaseStep(l)
  \/ \E k \in ToolCallIds : EndToolCall(k) \/ \E l \in Leases : BeginToolCall(k, l)
  \/ LookBegins \/ ReadLease \/ JudgeLease \/ MoveStale \/ CompareStale

\* What is due in a process, nothing that others could see, is done first.  What
\* comes after the install is not looked at.
SharedActivityNext ==
  /\ ~quiet.installs
  /\ \/ LookDone /\ (QuietBegins \/ StaysQuiet \/ NotIdle)
     \/ ~LookDone /\ \E l \in Due : OpBegins(l)
     \/ ~LookDone /\ Due = {} /\ ActivityStep

SharedActivitySpec == SharedActivityInit /\ [][SharedActivityNext]_activityVars

-----------------------------------------------------------------------------

\* When an update is installed for quiet, no call whose start was published ran
\* in any runtime between the look that began the quiet period and the look that
\* ended it: not one that is still running, nor one that came and went; whatever
\* leases were set aside, removed or put back meanwhile.  Excepted are runtimes
\* that could not publish a start at all, and those that are closing.
\* ("updater quiet-time cannot overlap a newly accepted remote call",
\* stdio-mcp-runtime.ts:187-188; update-install.ts:161-181)
QuietIsReal ==
  quiet.installs =>
    \A k \in quiet.old : toolCalls[k].shown =>
      \/ leases[toolCalls[k].lease].life # "open"
      \/ leases[toolCalls[k].lease].missed
=============================================================================
