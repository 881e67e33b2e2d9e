--------------------------- MODULE ActivityProofs ----------------------------
(***************************************************************************)
(* The activity the runtimes publish and the quiet period of the update    *)
(* installer: an update is installed for quiet only when no call whose     *)
(* start was published ran between the look that began the period and the  *)
(* look that ended it.                                                     *)
(*                                                                         *)
(* A floor of a lease is a revision below which nothing of that lease will *)
(* be found on the disk again, whoever sets what aside and puts it back.   *)
(* What a look reads is a floor, and the publication of a start raises it. *)
(* The installer compares the sum of the revisions only; as each of them   *)
(* is at least what the first look read, equal sums have equal terms.  The *)
(* many handlers change a lease in six ways, which are classified first.   *)
(***************************************************************************)
EXTENDS SharedActivity, SequenceTheorems, NumberLemmas

-----------------------------------------------------------------------------
(* Sums over a finite set                                                  *)

\* Some subsets of a finite set have a smallest one.
LEMMA SmallestSubset ==
  ASSUME NEW S, IsFiniteSet(S), NEW B \in SUBSET (SUBSET S), B # {}
  PROVE  \E s \in B : \A t \in B : t \subseteq s => t = s
<1>1. IsWellFoundedOn(StrictSubsetOrdering(S), FiniteSubsetsOf(S))
  BY FS_StrictSubsetOrderingWellFounded
<1>2. B \subseteq FiniteSubsetsOf(S)
  BY FS_FiniteSubsetsOfFinite
<1>3. PICK s \in B : \A t \in B : <<t, s>> \notin StrictSubsetOrdering(S)
  BY <1>1, <1>2, WFMin
<1> QED BY <1>3 DEF StrictSubsetOrdering

\* The equation a sum is computed by, and what it computes for each subset.
SumStep(f, S, sums) ==
  [s \in SUBSET S |-> IF s = {} THEN 0 ELSE LET x == CHOOSE x \in s : TRUE IN f[x] + sums[s \ {x}]]
Sums(f, S) == CHOOSE sums : sums = SumStep(f, S, sums)

\* The sum of the library is that.
LEMMA SumIsLast ==
  ASSUME NEW f, NEW S
  PROVE  SumFunctionOnSet(f, S) = Sums(f, S)[S]
BY DEF SumFunctionOnSet, FoldFunctionOnSet, MapThenFoldSet, Sums, SumStep

\* As many cells as the sum of f over s.
Cells(f, s) == UNION {{x} \X (1 .. f[x]) : x \in s}

\* They are finitely many.
LEMMA CellsFinite ==
  ASSUME NEW S, IsFiniteSet(S), NEW f, \A x \in S : f[x] \in Nat
  PROVE  \A s \in SUBSET S : IsFiniteSet(Cells(f, s))
<1> DEFINE Bad == {s \in SUBSET S : ~IsFiniteSet(Cells(f, s))}
<1> SUFFICES ASSUME Bad # {} PROVE FALSE
  OBVIOUS
<1>1. PICK s \in Bad : \A t \in Bad : t \subseteq s => t = s
  <2>1. Bad \in SUBSET (SUBSET S)
    OBVIOUS
  <2> HIDE DEF Bad
  <2> QED BY <2>1, SmallestSubset
<1>2. CASE s = {}
  <2>1. Cells(f, s) = {}
    BY <1>2 DEF Cells
  <2> QED BY <2>1, FS_EmptySet
<1>3. CASE s # {}
  <2>1. PICK x \in s : TRUE
    BY <1>3
  <2>2. IsFiniteSet(Cells(f, s \ {x}))
    BY <1>1, <2>1
  <2>3. IsFiniteSet({x} \X (1 .. f[x]))
    <3>1. IsFiniteSet(1 .. f[x])
      <4>1. x \in S /\ f[x] \in Int
        BY <1>1, <2>1
      <4> QED BY <4>1, FS_Interval
    <3>2. IsFiniteSet({x})
      BY FS_Singleton
    <3> QED BY <3>1, <3>2, FS_Product
  <2>4. Cells(f, s) = ({x} \X (1 .. f[x])) \cup Cells(f, s \ {x})
    BY <2>1 DEF Cells
  <2>5. IsFiniteSet(Cells(f, s))
    <3> HIDE DEF Cells
    <3>1. IsFiniteSet(({x} \X (1 .. f[x])) \cup Cells(f, s \ {x}))
      BY <2>2, <2>3, FS_Union
    <3> QED BY <2>4, <3>1
  <2> QED BY <1>1, <2>5
<1> QED BY <1>2, <1>3

\* Counting them solves the equation, so it has a solution.
LEMMA SumsStep ==
  ASSUME NEW S, IsFiniteSet(S), NEW f, \A x \in S : f[x] \in Nat
  PROVE  Sums(f, S) = SumStep(f, S, Sums(f, S))
<1> DEFINE counts == [s \in SUBSET S |-> Cardinality(Cells(f, s))]
<1>1. ASSUME NEW s \in SUBSET S, s # {}, NEW x \in s
      PROVE  Cardinality(Cells(f, s)) = f[x] + Cardinality(Cells(f, s \ {x}))
  <2>1. IsFiniteSet(Cells(f, s \ {x}))
    BY CellsFinite
  <2>2. IsFiniteSet({x} \X (1 .. f[x])) /\ Cardinality({x} \X (1 .. f[x])) = f[x]
    <3>1. f[x] \in Nat
      OBVIOUS
    <3>2. IsFiniteSet(1 .. f[x]) /\ Cardinality(1 .. f[x]) = f[x]
      BY <3>1, FS_Interval
    <3>3. IsFiniteSet({x}) /\ Cardinality({x}) = 1
      BY FS_Singleton
    <3> QED BY <3>1, <3>2, <3>3, FS_Product
  <2>3. Cells(f, s) = ({x} \X (1 .. f[x])) \cup Cells(f, s \ {x})
    BY <1>1 DEF Cells
  <2>4. ({x} \X (1 .. f[x])) \cap Cells(f, s \ {x}) = {}
    BY DEF Cells
  <2>5. PICK P, Q : P = {x} \X (1 .. f[x]) /\ Q = Cells(f, s \ {x})
    OBVIOUS
  <2>6. Cardinality(P \cup Q) = Cardinality(P) + Cardinality(Q) - Cardinality(P \cap Q)
    BY <2>1, <2>2, <2>5, FS_Union
  <2>7. Cardinality(Q) \in Nat /\ Cardinality(P \cap Q) = 0
    BY <2>1, <2>4, <2>5, FS_EmptySet, FS_CardinalityType
  <2>8. f[x] \in Nat
    OBVIOUS
  <2> QED BY <2>2, <2>3, <2>5, <2>6, <2>7, <2>8
<1>2. Cardinality(Cells(f, {})) = 0
  <2>1. Cells(f, {}) = {}
    BY DEF Cells
  <2> QED BY <2>1, FS_EmptySet
<1>3. counts = SumStep(f, S, counts)
  <2>1. ASSUME NEW s \in SUBSET S
        PROVE  counts[s] = IF s = {} THEN 0
                           ELSE LET x == CHOOSE x \in s : TRUE IN f[x] + counts[s \ {x}]
    <3>1. CASE s = {}
      BY <1>2, <3>1
    <3>2. CASE s # {}
      <4>1. PICK x : x = CHOOSE y \in s : TRUE
        OBVIOUS
      <4>2. x \in s
        BY <3>2, <4>1
      <4> QED BY <1>1, <3>2, <4>1, <4>2
    <3> QED BY <3>1, <3>2
  <2> HIDE DEF counts
  <2>2. counts = [s \in SUBSET S |-> counts[s]]
    BY DEF counts
  <2> QED BY <2>1, <2>2 DEF SumStep
<1> HIDE DEF counts
<1> QED BY <1>3 DEF Sums

\* Where each is no greater, the sum is no greater, and the same only if each is.
LEMMA SumIsOrdered ==
  ASSUME NEW S, IsFiniteSet(S), NEW f, NEW g,
         \A x \in S : f[x] \in Nat /\ g[x] \in Nat /\ f[x] <= g[x]
  PROVE  /\ SumFunctionOnSet(f, S) \in Nat /\ SumFunctionOnSet(g, S) \in Nat
         /\ SumFunctionOnSet(f, S) <= SumFunctionOnSet(g, S)
         /\ SumFunctionOnSet(f, S) = SumFunctionOnSet(g, S) => \A x \in S : f[x] = g[x]
<1>1. PICK u, v : u = Sums(f, S) /\ v = Sums(g, S)
  OBVIOUS
<1>2. u = SumStep(f, S, u) /\ v = SumStep(g, S, v)
  BY <1>1, SumsStep
<1> DEFINE Good(s) == /\ u[s] \in Nat /\ v[s] \in Nat /\ u[s] <= v[s]
                      /\ u[s] = v[s] => \A x \in s : f[x] = g[x]
           Bad == {s \in SUBSET S : ~Good(s)}
<1>3. ASSUME Bad # {} PROVE FALSE
  <2>1. PICK s \in Bad : \A t \in Bad : t \subseteq s => t = s
    <3>1. Bad \in SUBSET (SUBSET S)
      OBVIOUS
    <3> HIDE DEF Bad
    <3> QED BY <1>3, <3>1, SmallestSubset
  <2>2. CASE s = {}
    <3>1. u[s] = 0 /\ v[s] = 0
      BY <1>2, <2>2 DEF SumStep
    <3> QED BY <2>2, <3>1
  <2>3. CASE s # {}
    <3>1. PICK x \in s : x = CHOOSE y \in s : TRUE
      BY <2>3
    <3>2. u[s] = f[x] + u[s \ {x}] /\ v[s] = g[x] + v[s \ {x}]
      BY <1>2, <2>3, <3>1 DEF SumStep
    <3>3. Good(s \ {x})
      BY <2>1
    <3>4. f[x] \in Nat /\ g[x] \in Nat /\ f[x] <= g[x]
      OBVIOUS
    <3>5. \A y \in s : y = x \/ y \in s \ {x}
      OBVIOUS
    <3> QED BY <3>2, <3>3, <3>4, <3>5
  <2> QED BY <2>2, <2>3
<1>4. Good(S)
  BY <1>3
<1> QED BY <1>1, <1>4, SumIsLast

\* A sum of nothing but zeros is the only one that is zero.
LEMMA SumOfZeros ==
  ASSUME NEW S, IsFiniteSet(S), NEW g, \A x \in S : g[x] \in Nat, SumFunctionOnSet(g, S) = 0
  PROVE  \A x \in S : g[x] = 0
<1> DEFINE f == [x \in S |-> 0]
<1>1. \A x \in S : f[x] \in Nat /\ g[x] \in Nat /\ f[x] <= g[x] /\ f[x] = 0
  OBVIOUS
<1> HIDE DEF f
<1>2. /\ SumFunctionOnSet(f, S) \in Nat /\ SumFunctionOnSet(f, S) <= 0
      /\ SumFunctionOnSet(f, S) = SumFunctionOnSet(g, S) => \A x \in S : f[x] = g[x]
  BY <1>1, SumIsOrdered
<1> QED BY <1>1, <1>2

-----------------------------------------------------------------------------
(* The activity of the runtimes: what holds of a lease and its calls      *)

\* A lease and its chain of operations.
LeaseFits(l) ==
  LET L == leases[l] IN
  /\ L.life \in {"new", "gone"} => L.at = "rest" /\ L.queue = <<>>
  /\ L.at # "rest" => L.queue # <<>>
  /\ L.at \in {"first", "publish"} =>
       /\ L.next = [count |-> L.count, rev |-> L.rev]
       /\ Head(L.queue).kind # "close"
  /\ L.at = "moved" => Head(L.queue).kind = "close"
  /\ \A i \in 1 .. Len(L.queue) : L.queue[i].kind = "close" => L.life = "closed"

\* The calls whose start or end waits in the chain.
QueueFits(l) ==
  LET q == leases[l].queue IN
  /\ \A i \in 1 .. Len(q) :
       /\ q[i].kind = "start" => toolCalls[q[i].call].lease = l /\ toolCalls[q[i].call].at = "begins"
       /\ q[i].kind = "end" => toolCalls[q[i].call].lease = l /\ toolCalls[q[i].call].at = "ends"
  /\ \A i, j \in 1 .. Len(q) :
       {q[i].kind, q[j].kind} \subseteq {"start", "end"} /\ q[i].call = q[j].call => i = j

CallFits(k) ==
  LET c == toolCalls[k] IN
  /\ c.at # "none" => c.lease \in Leases
  /\ c.at \in {"begins", "runs", "ends"} => leases[c.lease].life \in {"open", "closed"}

ShapeInv ==
  /\ SharedActivityTypeOK
  /\ \A l \in Leases : LeaseFits(l) /\ QueueFits(l)
  /\ \A k \in ToolCallIds : CallFits(k)

-----------------------------------------------------------------------------
(* The kinds of step that a lease and its calls can make                  *)

LeaseOnly(l) ==
  /\ leases' \in [Leases -> LeaseRecord]
  /\ \A m \in Leases \ {l} : leases'[m] = leases[m]

\* Only which publications are the last ones is another.
SameReading ==
  /\ reader' \in Reader
  /\ reader'.at = reader.at /\ reader'.todo = reader.todo /\ reader'.found = reader.found
  /\ reader'.live = reader.live /\ reader'.target = reader.target /\ reader'.aside = reader.aside

\* An operation is put at the end of the chain.
Enqueues(l, op) ==
  LET L == leases[l]
      M == leases'[l] IN
  /\ LeaseOnly(l)
  /\ M.queue = Append(L.queue, op) /\ M.at = L.at /\ M.next = L.next
  /\ M.count = L.count /\ M.rev = L.rev /\ M.missed = L.missed
  /\ \/ L.life = "new" /\ M.life = "open" /\ op.kind = "init"
     \/ L.life = "open" /\ M.life = "closed" /\ op.kind = "close"
     \/ L.life \in {"open", "closed"} /\ M.life = L.life /\ op.kind \in {"refresh", "start", "end"}
  /\ \/ op.kind \in {"init", "refresh", "close"} /\ UNCHANGED toolCalls
     \/ /\ op.kind = "start" /\ toolCalls[op.call].at = "none"
        /\ toolCalls' = [toolCalls EXCEPT ![op.call] = [at |-> "begins", lease |-> l, shown |-> FALSE]]
     \/ /\ op.kind = "end" /\ toolCalls[op.call].at = "runs" /\ toolCalls[op.call].lease = l
        /\ toolCalls' = [toolCalls EXCEPT ![op.call].at = "ends"]
  /\ UNCHANGED <<leaseFile, reader, quiet>>

\* The process is gone.
Vanishes(l) ==
  LET L == leases[l] IN
  /\ LeaseOnly(l) /\ L.life \in {"open", "closed"} /\ Ends(l)
  /\ \/ UNCHANGED leaseFile
     \/ L.at = "moved" /\ leaseFile' = [leaseFile EXCEPT ![l] = L.next]
  /\ UNCHANGED <<reader, quiet>>

\* A closing lease is set aside by its owner.
Moves(l) ==
  LET L == leases[l]
      M == leases'[l] IN
  /\ LeaseOnly(l) /\ L.life \in {"open", "closed"}
  /\ L.at = "rest" /\ L.queue # <<>> /\ Head(L.queue).kind = "close"
  /\ M.queue = L.queue /\ M.life = L.life /\ M.missed = L.missed
  /\ M.count = L.count /\ M.rev = L.rev
  /\ leaseFile[l] # NoSnapshot /\ M.at = "moved" /\ M.next = leaseFile[l]
  /\ leaseFile' = [leaseFile EXCEPT ![l] = NoSnapshot]
  /\ UNCHANGED <<toolCalls, reader, quiet>>

\* A publication is made up, at the beginning of an operation or after the
\* first one of the record.
Publishes(l) ==
  LET L == leases[l]
      M == leases'[l]
      op == Head(L.queue) IN
  /\ LeaseOnly(l) /\ L.life \in {"open", "closed"} /\ L.queue # <<>> /\ op.kind # "close"
  /\ M.queue = L.queue /\ M.life = L.life /\ M.missed = L.missed
  /\ M.next = [count |-> M.count, rev |-> M.rev]
  /\ \/ M.at = "first" /\ M.count = L.count /\ M.rev = L.rev
     \/ /\ M.at = "publish"
        /\ op.kind = "start" => M.count = L.count + 1 /\ M.rev = L.rev + 1
        /\ op.kind = "end" => L.count <= M.count + 1 /\ M.rev = L.rev + 1
        /\ op.kind \notin {"start", "end"} => M.count = L.count /\ M.rev = L.rev
  /\ \/ L.at = "rest" /\ UNCHANGED <<leaseFile, reader>>
     \/ /\ L.at = "first" /\ M.at = "publish" /\ SameReading
        /\ leaseFile' = [leaseFile EXCEPT ![l] = L.next]
  /\ UNCHANGED <<toolCalls, quiet>>

\* An operation is over.
OpEnds(l, published) ==
  LET L == leases[l]
      M == leases'[l]
      op == Head(L.queue) IN
  /\ LeaseOnly(l) /\ L.life \in {"open", "closed"} /\ L.queue # <<>> /\ op.kind # "close"
  /\ M.queue = Tail(L.queue) /\ M.at = "rest" /\ M.life = L.life
  /\ M.count = L.count /\ M.rev = L.rev /\ (L.missed = TRUE => M.missed = TRUE)
  /\ op.kind = "start" /\ L.at # "publish" => M.missed = TRUE
  /\ toolCalls' =
       CASE op.kind = "start" -> [toolCalls EXCEPT ![op.call] = [toolCalls[op.call] EXCEPT !.at = "runs", !.shown = published]]
         [] op.kind = "end" -> [toolCalls EXCEPT ![op.call].at = "done"]
         [] OTHER -> toolCalls
  /\ quiet' = IF op.kind = "start" /\ quiet.mark # NoKey THEN [quiet EXCEPT !.since = quiet.since \cup {op.call}]
              ELSE quiet
  /\ \/ published = FALSE /\ UNCHANGED <<leaseFile, reader>>
     \/ /\ published = TRUE /\ SameReading
        /\ op.kind = "start" => L.at = "publish"
        /\ L.at \in {"first", "publish"} /\ leaseFile' = [leaseFile EXCEPT ![l] = L.next]

LeaseKind(l) ==
  \/ \E op \in LeaseOp : Enqueues(l, op)
  \/ Vanishes(l) \/ Moves(l) \/ Publishes(l) \/ OpEnds(l, TRUE) \/ OpEnds(l, FALSE)

-----------------------------------------------------------------------------

\* The operation at the head of a chain.
LEMMA HeadOp ==
  ASSUME NEW q \in Seq(LeaseOp), q # <<>>
  PROVE  Len(q) \in Nat /\ 1 \in 1 .. Len(q) /\ Head(q) = q[1] /\ Head(q) \in LeaseOp
BY HeadTailProperties, EmptySeq, LenProperties

\* An operation is one of a few, and only two of them are about a call.
LEMMA OpTypes ==
  ASSUME NEW op \in LeaseOp
  PROVE  /\ op.kind \in {"init", "refresh", "close", "start", "end"}
         /\ op.kind \in {"start", "end"} => op.call \in ToolCallIds
BY DEF LeaseOp

\* The fields of a lease.
LEMMA LeaseTypes ==
  ASSUME SharedActivityTypeOK, NEW l \in Leases
  PROVE  leases[l] \in LeaseRecord
BY DEF SharedActivityTypeOK

\* Another record of one lease.
LEMMA OneLease ==
  ASSUME SharedActivityTypeOK, NEW l \in Leases, NEW M \in LeaseRecord,
         leases' = [leases EXCEPT ![l] = M]
  PROVE  LeaseOnly(l) /\ leases'[l] = M
BY DEF SharedActivityTypeOK, LeaseOnly

\* A snapshot is not the absence of one.
LEMMA SnapshotTypes ==
  ASSUME NEW s \in LeaseSnapshot \cup {NoSnapshot}
  PROVE  /\ s.count \in Nat /\ s.rev \in Int
         /\ s \in LeaseSnapshot <=> s # NoSnapshot
         /\ s # NoSnapshot => s.rev \in Nat
BY DEF LeaseSnapshot, NoSnapshot

\* An operation that is added.
LEMMA WithOpType ==
  ASSUME SharedActivityTypeOK, NEW l \in Leases, NEW op \in LeaseOp
  PROVE  /\ WithOp(l, op) \in LeaseRecord
         /\ WithOp(l, op).queue = Append(leases[l].queue, op)
         /\ WithOp(l, op).at = leases[l].at /\ WithOp(l, op).next = leases[l].next
         /\ WithOp(l, op).count = leases[l].count /\ WithOp(l, op).rev = leases[l].rev
         /\ WithOp(l, op).missed = leases[l].missed /\ WithOp(l, op).life = leases[l].life
<1>1. leases[l] \in LeaseRecord
  BY LeaseTypes
<1>2. leases[l].queue \in Seq(LeaseOp)
  BY <1>1 DEF LeaseRecord
<1>3. Append(leases[l].queue, op) \in Seq(LeaseOp)
  BY <1>2, AppendProperties
<1> QED BY <1>1, <1>3 DEF WithOp, LeaseRecord

\* Steps that only add an operation.
LEMMA EnqueueKinds ==
  ASSUME ShapeInv, NEW l \in Leases,
         \/ OpenLease(l) \/ Heartbeat(l) \/ CloseLease(l)
         \/ \E k \in ToolCallIds : BeginToolCall(k, l)
         \/ \E k \in ToolCallIds : toolCalls[k].lease = l /\ EndToolCall(k)
  PROVE  \E op \in LeaseOp : Enqueues(l, op)
<1>0. SharedActivityTypeOK
  BY DEF ShapeInv
<1>1. CASE OpenLease(l) \/ CloseLease(l)
  <2>1. PICK kind, life : \/ OpenLease(l) /\ kind = "init" /\ life = "open"
                          \/ CloseLease(l) /\ kind = "close" /\ life = "closed"
    BY <1>1
  <2>2. [kind |-> kind] \in LeaseOp
    BY <2>1 DEF LeaseOp
  <2> DEFINE M == [WithOp(l, [kind |-> kind]) EXCEPT !.life = life]
  <2>3. leases' = [leases EXCEPT ![l] = M]
    BY <2>1 DEF OpenLease, CloseLease
  <2>4. /\ M \in LeaseRecord /\ M.life = life
        /\ M.queue = Append(leases[l].queue, [kind |-> kind])
        /\ M.at = leases[l].at /\ M.next = leases[l].next
        /\ M.count = leases[l].count /\ M.rev = leases[l].rev /\ M.missed = leases[l].missed
    <3>1. PICK W \in LeaseRecord : W = WithOp(l, [kind |-> kind])
      BY <1>0, <2>2, WithOpType
    <3>2. [W EXCEPT !.life = life] \in LeaseRecord /\ [W EXCEPT !.life = life].life = life
      BY <2>1, <3>1 DEF LeaseRecord
    <3>3. \A f \in {"queue", "at", "next", "count", "rev", "missed"} : [W EXCEPT !.life = life][f] = W[f]
      BY <3>1 DEF LeaseRecord
    <3> QED BY <1>0, <2>2, <3>1, <3>2, <3>3, WithOpType
  <2> HIDE DEF M
  <2>5. LeaseOnly(l) /\ leases'[l] = M
    BY <1>0, <2>3, <2>4, OneLease
  <2>6. Enqueues(l, [kind |-> kind])
    BY <2>1, <2>4, <2>5 DEF Enqueues, OpenLease, CloseLease
  <2> QED BY <2>2, <2>6
<1>2. CASE Heartbeat(l)
  <2>1. [kind |-> "refresh"] \in LeaseOp
    BY DEF LeaseOp
  <2>2. leases' = [leases EXCEPT ![l] = WithOp(l, [kind |-> "refresh"])]
    BY <1>2 DEF Heartbeat, Enqueue
  <2>3. LeaseOnly(l) /\ leases'[l] = WithOp(l, [kind |-> "refresh"])
    BY <1>0, <2>1, <2>2, WithOpType, OneLease
  <2>4. Enqueues(l, [kind |-> "refresh"])
    BY <1>0, <1>2, <2>1, <2>3, WithOpType DEF Enqueues, Heartbeat
  <2> QED BY <2>1, <2>4
<1>3. ASSUME NEW k \in ToolCallIds, BeginToolCall(k, l)
      PROVE  \E op \in LeaseOp : Enqueues(l, op)
  <2>1. [kind |-> "start", call |-> k] \in LeaseOp
    BY DEF LeaseOp
  <2>2. leases' = [leases EXCEPT ![l] = WithOp(l, [kind |-> "start", call |-> k])]
    BY <1>3 DEF BeginToolCall, Enqueue
  <2>3. LeaseOnly(l) /\ leases'[l] = WithOp(l, [kind |-> "start", call |-> k])
    BY <1>0, <2>1, <2>2, WithOpType, OneLease
  <2>4. Enqueues(l, [kind |-> "start", call |-> k])
    BY <1>0, <1>3, <2>1, <2>3, WithOpType DEF Enqueues, BeginToolCall
  <2> QED BY <2>1, <2>4
<1>4. ASSUME NEW k \in ToolCallIds, toolCalls[k].lease = l, EndToolCall(k)
      PROVE  \E op \in LeaseOp : Enqueues(l, op)
  <2>1. [kind |-> "end", call |-> k] \in LeaseOp
    BY DEF LeaseOp
  <2>2. leases' = [leases EXCEPT ![l] = WithOp(l, [kind |-> "end", call |-> k])]
    BY <1>4 DEF EndToolCall, Enqueue
  <2>3. LeaseOnly(l) /\ leases'[l] = WithOp(l, [kind |-> "end", call |-> k])
    BY <1>0, <2>1, <2>2, WithOpType, OneLease
  <2>4. leases[l].life \in {"open", "closed"}
    BY <1>4 DEF ShapeInv, CallFits, EndToolCall
  <2>5. Enqueues(l, [kind |-> "end", call |-> k])
    BY <1>0, <1>4, <2>1, <2>3, <2>4, WithOpType DEF Enqueues, EndToolCall
  <2> QED BY <2>1, <2>5
<1> QED BY <1>1, <1>2, <1>3, <1>4

\* Steps after which the process is gone, or its lease set aside.
LEMMA CloseKinds ==
  ASSUME ShapeInv, NEW l \in Leases, LeaseGone(l) \/ CloseMoves(l) \/ CloseRemoves(l)
  PROVE  Vanishes(l) \/ Moves(l)
<1>0. SharedActivityTypeOK /\ leases[l] \in LeaseRecord /\ LeaseFits(l)
  BY LeaseTypes DEF ShapeInv
<1>1. ASSUME Ends(l) PROVE LeaseOnly(l)
  <2>1. [NewLease EXCEPT !.life = "gone"] \in LeaseRecord
    BY EmptySeq DEF NewLease, LeaseRecord, LeaseSnapshot
  <2> QED BY <1>0, <1>1, <2>1, OneLease DEF Ends
<1>2. CASE LeaseGone(l)
  BY <1>1, <1>2 DEF LeaseGone, Vanishes
<1>3. CASE CloseMoves(l) /\ leaseFile[l] = NoSnapshot
  BY <1>1, <1>3 DEF CloseMoves, Vanishes, Busy
<1>4. CASE CloseMoves(l) /\ leaseFile[l] # NoSnapshot
  <2>1. leaseFile[l] \in LeaseSnapshot
    BY <1>0, <1>4 DEF SharedActivityTypeOK
  <2> DEFINE M == [leases[l] EXCEPT !.at = "moved", !.next = leaseFile[l]]
  <2>2. /\ M \in LeaseRecord /\ M.at = "moved" /\ M.next = leaseFile[l]
        /\ M.queue = leases[l].queue /\ M.life = leases[l].life /\ M.missed = leases[l].missed
        /\ M.count = leases[l].count /\ M.rev = leases[l].rev
    BY <1>0, <2>1 DEF LeaseRecord
  <2>3. leases' = [leases EXCEPT ![l] = M]
    BY <1>4 DEF CloseMoves
  <2> HIDE DEF M
  <2>4. LeaseOnly(l) /\ leases'[l] = M
    BY <1>0, <2>2, <2>3, OneLease
  <2> QED BY <1>4, <2>2, <2>4 DEF CloseMoves, Moves, Busy
<1>5. CASE CloseRemoves(l)
  <2>1. leases[l].life \in {"open", "closed"}
    BY <1>0, <1>5 DEF CloseRemoves, LeaseFits, LeaseRecord
  <2> QED BY <1>1, <1>5, <2>1 DEF CloseRemoves, Vanishes
<1> QED BY <1>2, <1>3, <1>4, <1>5

\* What is made up to be published.
LEMMA PublishingType ==
  ASSUME NEW L \in LeaseRecord, NEW at \in {"first", "publish"}
  PROVE  LET M == Publishing(L, at) IN
         /\ M \in LeaseRecord /\ M.at = at /\ M.next = [count |-> M.count, rev |-> M.rev]
         /\ M.queue = L.queue /\ M.life = L.life /\ M.missed = L.missed
         /\ M.count = L.count /\ M.rev = L.rev
<1>1. [count |-> L.count, rev |-> L.rev] \in LeaseSnapshot
  BY DEF LeaseRecord, LeaseSnapshot
<1> QED BY <1>1 DEF Publishing, LeaseRecord

\* The counters after an operation.
LEMMA CountedType ==
  ASSUME NEW L \in LeaseRecord, NEW op \in LeaseOp
  PROVE  LET M == CountedAfter(L, op) IN
         /\ M \in LeaseRecord /\ M.queue = L.queue /\ M.life = L.life /\ M.missed = L.missed
         /\ op.kind = "start" => M.count = L.count + 1 /\ M.rev = L.rev + 1
         /\ op.kind = "end" => L.count <= M.count + 1 /\ M.rev = L.rev + 1
         /\ op.kind \notin {"start", "end"} => M.count = L.count /\ M.rev = L.rev
<1>1. L.count \in Nat /\ L.rev \in Nat
  BY DEF LeaseRecord
<1>2. CASE op.kind = "start"
  <2>1. CountedAfter(L, op) = [L EXCEPT !.count = L.count + 1, !.rev = L.rev + 1]
    BY <1>2 DEF CountedAfter
  <2>2. L.count + 1 \in Nat /\ L.rev + 1 \in Nat
    BY <1>1
  <2> QED BY <1>2, <2>1, <2>2 DEF LeaseRecord
<1>3. CASE op.kind = "end"
  <2>1. PICK c : c = IF L.count > 0 THEN L.count - 1 ELSE 0
    OBVIOUS
  <2>2. CountedAfter(L, op) = [L EXCEPT !.count = c, !.rev = L.rev + 1]
    BY <1>3, <2>1 DEF CountedAfter
  <2>3. c \in Nat /\ L.rev + 1 \in Nat /\ L.count <= c + 1
    BY <1>1, <2>1
  <2> QED BY <1>3, <2>2, <2>3 DEF LeaseRecord
<1>4. CASE op.kind \notin {"start", "end"}
  BY <1>1, <1>4 DEF CountedAfter
<1> QED BY <1>2, <1>3, <1>4

\* An operation that ends, whatever else its record shows.
LEMMA OpOverKind ==
  ASSUME ShapeInv, NEW l \in Leases, NEW L \in LeaseRecord, NEW published \in BOOLEAN,
         leases[l].life \in {"open", "closed"}, leases[l].queue # <<>>,
         Head(leases[l].queue).kind # "close",
         L.queue = leases[l].queue, L.life = leases[l].life,
         L.count = leases[l].count, L.rev = leases[l].rev,
         leases[l].missed = TRUE => L.missed = TRUE,
         Head(leases[l].queue).kind = "start" /\ leases[l].at # "publish" => L.missed = TRUE,
         OpOver(l, L, published),
         \/ published = FALSE /\ UNCHANGED <<leaseFile, reader>>
         \/ /\ published = TRUE /\ SameReading
            /\ Head(leases[l].queue).kind = "start" => leases[l].at = "publish"
            /\ leases[l].at \in {"first", "publish"}
            /\ leaseFile' = [leaseFile EXCEPT ![l] = leases[l].next]
  PROVE  OpEnds(l, published)
<1>0. SharedActivityTypeOK
  BY DEF ShapeInv
<1> DEFINE M == [L EXCEPT !.queue = Tail(L.queue), !.at = "rest", !.next = NewLease.next]
<1>1. L.queue \in Seq(LeaseOp)
  BY DEF LeaseRecord
<1>2. Tail(L.queue) \in Seq(LeaseOp)
  BY <1>1, HeadTailProperties
<1>3. NewLease.next \in LeaseSnapshot
  BY DEF NewLease, LeaseSnapshot
<1>4. /\ M \in LeaseRecord /\ M.queue = Tail(L.queue) /\ M.at = "rest"
      /\ M.life = L.life /\ M.count = L.count /\ M.rev = L.rev /\ M.missed = L.missed
  BY <1>2, <1>3 DEF LeaseRecord
<1>5. leases' = [leases EXCEPT ![l] = M]
  BY DEF OpOver
<1> HIDE DEF M
<1>6. LeaseOnly(l) /\ leases'[l] = M
  BY <1>0, <1>4, <1>5, OneLease
<1> QED BY <1>4, <1>6 DEF OpOver, OpEnds

\* The beginning of an operation.
LEMMA BeginKinds ==
  ASSUME ShapeInv, NEW l \in Due, OpBegins(l)
  PROVE  l \in Leases /\ (Publishes(l) \/ OpEnds(l, FALSE))
<1>0. /\ SharedActivityTypeOK /\ l \in Leases /\ leases[l] \in LeaseRecord /\ LeaseFits(l)
      /\ leases[l].life \in {"open", "closed"} /\ leases[l].queue # <<>> /\ leases[l].at = "rest"
      /\ Head(leases[l].queue).kind # "close"
  BY LeaseTypes DEF ShapeInv, Due, Busy
<1>1. PICK L, op : L = leases[l] /\ op = Head(L.queue)
  OBVIOUS
<1>2. L \in LeaseRecord /\ op \in LeaseOp
  BY <1>0, <1>1, HeadOp DEF LeaseRecord
<1>3. PICK P : P = Publishing(CountedAfter(L, op), "publish")
  OBVIOUS
<1>4. CASE leases' = [leases EXCEPT ![l] = P] /\ UNCHANGED <<toolCalls, quiet, leaseFile, reader>>
  <2>1. /\ P \in LeaseRecord /\ P.at = "publish" /\ P.next = [count |-> P.count, rev |-> P.rev]
        /\ P.queue = L.queue /\ P.life = L.life /\ P.missed = L.missed
        /\ op.kind = "start" => P.count = L.count + 1 /\ P.rev = L.rev + 1
        /\ op.kind = "end" => L.count <= P.count + 1 /\ P.rev = L.rev + 1
        /\ op.kind \notin {"start", "end"} => P.count = L.count /\ P.rev = L.rev
    <3>1. PICK C : C = CountedAfter(L, op)
      OBVIOUS
    <3>2. /\ C \in LeaseRecord /\ C.queue = L.queue /\ C.life = L.life /\ C.missed = L.missed
          /\ op.kind = "start" => C.count = L.count + 1 /\ C.rev = L.rev + 1
          /\ op.kind = "end" => L.count <= C.count + 1 /\ C.rev = L.rev + 1
          /\ op.kind \notin {"start", "end"} => C.count = L.count /\ C.rev = L.rev
      BY <1>2, <3>1, CountedType
    <3> QED BY <1>3, <3>1, <3>2, PublishingType
  <2>2. LeaseOnly(l) /\ leases'[l] = P
    BY <1>0, <1>4, <2>1, OneLease
  <2> QED BY <1>0, <1>1, <1>4, <2>1, <2>2 DEF Publishes
<1>5. CASE leases' = [leases EXCEPT ![l] = Publishing(L, "first")] /\ UNCHANGED <<toolCalls, quiet, leaseFile, reader>>
  <2>1. PICK F : F = Publishing(L, "first")
    OBVIOUS
  <2>2. /\ F \in LeaseRecord /\ F.at = "first" /\ F.next = [count |-> F.count, rev |-> F.rev]
        /\ F.queue = L.queue /\ F.life = L.life /\ F.missed = L.missed
        /\ F.count = L.count /\ F.rev = L.rev
    BY <1>2, <2>1, PublishingType
  <2>3. LeaseOnly(l) /\ leases'[l] = F
    BY <1>0, <1>5, <2>1, <2>2, OneLease
  <2> QED BY <1>0, <1>1, <1>5, <2>2, <2>3 DEF Publishes
<1>6. CASE OpOver(l, [L EXCEPT !.missed = L.missed \/ op.kind = "start"], FALSE) /\ UNCHANGED <<leaseFile, reader>>
  <2>1. PICK M : M = [L EXCEPT !.missed = L.missed \/ op.kind = "start"]
    OBVIOUS
  <2>2. M \in LeaseRecord /\ M.queue = L.queue /\ M.life = L.life /\ M.count = L.count /\ M.rev = L.rev
    BY <1>2, <2>1 DEF LeaseRecord
  <2>3. (L.missed = TRUE => M.missed = TRUE) /\ (op.kind = "start" => M.missed = TRUE)
    BY <1>2, <2>1 DEF LeaseRecord
  <2>4. OpEnds(l, FALSE)
    BY <1>0, <1>1, <1>6, <2>1, <2>2, <2>3, OpOverKind
  <2> QED BY <1>0, <2>4
<1>7. \/ leases' = [leases EXCEPT ![l] = P] /\ UNCHANGED <<toolCalls, quiet, leaseFile, reader>>
      \/ leases' = [leases EXCEPT ![l] = Publishing(L, "first")] /\ UNCHANGED <<toolCalls, quiet, leaseFile, reader>>
      \/ OpOver(l, [L EXCEPT !.missed = L.missed \/ op.kind = "start"], FALSE) /\ UNCHANGED <<leaseFile, reader>>
  BY <1>1, <1>3 DEF OpBegins
<1> QED BY <1>0, <1>4, <1>5, <1>6, <1>7

\* A publication is out.
LEMMA RenameKinds ==
  ASSUME ShapeInv, NEW l \in Leases, PublishRenames(l)
  PROVE  Publishes(l) \/ OpEnds(l, TRUE)
<1>1. PICK L, op, B : /\ L = leases[l] /\ op = Head(L.queue)
                      /\ B = [[L EXCEPT !.beat = IF L.beat = "writing" THEN "yes" ELSE L.beat] EXCEPT !.init = TRUE]
  OBVIOUS
<1>2. /\ SharedActivityTypeOK /\ L \in LeaseRecord /\ LeaseFits(l) /\ L.queue # <<>>
      /\ L.at \in {"first", "publish"} /\ L.life \in {"open", "closed"} /\ op.kind # "close"
  BY <1>1, LeaseTypes DEF ShapeInv, PublishRenames, LeaseFits, LeaseRecord
<1>3. op \in LeaseOp
  BY <1>1, <1>2, HeadOp DEF LeaseRecord
<1>4. /\ B \in LeaseRecord /\ B.queue = L.queue /\ B.life = L.life /\ B.count = L.count /\ B.rev = L.rev
      /\ B.missed = L.missed
  <2>1. PICK b \in {"no", "writing", "yes"} : b = IF L.beat = "writing" THEN "yes" ELSE L.beat
    BY <1>2 DEF LeaseRecord
  <2>2. B = [[L EXCEPT !.beat = b] EXCEPT !.init = TRUE]
    BY <1>1, <2>1
  <2> QED BY <1>2, <2>2 DEF LeaseRecord
<1>5. leaseFile' = [leaseFile EXCEPT ![l] = leases[l].next]
  BY DEF PublishRenames
<1>6. SameReading
  <2>1. PICK S \in SUBSET Leases : reader' = [reader EXCEPT !.same = S]
    <3>1. reader \in Reader
      BY <1>2 DEF SharedActivityTypeOK
    <3>2. reader.same \in SUBSET Leases /\ reader.same \ {l} \in SUBSET Leases
      BY <3>1 DEF Reader
    <3>3. \/ reader' = [reader EXCEPT !.same = reader.same]
          \/ reader' = [reader EXCEPT !.same = reader.same \ {l}]
      BY DEF PublishRenames
    <3> QED BY <3>2, <3>3
  <2> QED BY <1>2, <2>1 DEF SameReading, SharedActivityTypeOK, Reader
<1>7. CASE L.at = "first" /\ op.kind # "init"
  <2>1. PICK P : P = Publishing(CountedAfter(B, op), "publish")
    OBVIOUS
  <2>2. leases' = [leases EXCEPT ![l] = P] /\ UNCHANGED <<toolCalls, quiet>>
    BY <1>1, <1>7, <2>1 DEF PublishRenames
  <2>3. /\ P \in LeaseRecord /\ P.at = "publish" /\ P.next = [count |-> P.count, rev |-> P.rev]
        /\ P.queue = L.queue /\ P.life = L.life /\ P.missed = L.missed
        /\ op.kind = "start" => P.count = L.count + 1 /\ P.rev = L.rev + 1
        /\ op.kind = "end" => L.count <= P.count + 1 /\ P.rev = L.rev + 1
        /\ op.kind \notin {"start", "end"} => P.count = L.count /\ P.rev = L.rev
    <3>1. PICK C : C = CountedAfter(B, op)
      OBVIOUS
    <3>2. /\ C \in LeaseRecord /\ C.queue = L.queue /\ C.life = L.life /\ C.missed = L.missed
          /\ op.kind = "start" => C.count = L.count + 1 /\ C.rev = L.rev + 1
          /\ op.kind = "end" => L.count <= C.count + 1 /\ C.rev = L.rev + 1
          /\ op.kind \notin {"start", "end"} => C.count = L.count /\ C.rev = L.rev
      BY <1>3, <1>4, <3>1, CountedType
    <3> QED BY <2>1, <3>1, <3>2, PublishingType
  <2>4. LeaseOnly(l) /\ leases'[l] = P
    BY <1>2, <2>2, <2>3, OneLease
  <2> QED BY <1>1, <1>2, <1>5, <1>6, <1>7, <2>2, <2>3, <2>4 DEF Publishes
<1>8. CASE ~(L.at = "first" /\ op.kind # "init")
  <2>1. OpOver(l, B, TRUE)
    BY <1>1, <1>8 DEF PublishRenames
  <2>2. op.kind = "start" => L.at = "publish"
    BY <1>2, <1>8
  <2>3. OpEnds(l, TRUE)
    BY <1>1, <1>2, <1>4, <1>5, <1>6, <2>1, <2>2, OpOverKind
  <2> QED BY <2>3
<1> QED BY <1>7, <1>8

\* A publication failed.
LEMMA FailKinds ==
  ASSUME ShapeInv, NEW l \in Leases, PublishFails(l)
  PROVE  OpEnds(l, FALSE)
<1>1. PICK L, op, m, b : /\ L = leases[l] /\ op = Head(L.queue)
                         /\ m = (L.missed \/ (L.at = "first" /\ op.kind = "start"))
                         /\ b = IF L.beat = "writing" THEN "no" ELSE L.beat
  OBVIOUS
<1>2. /\ SharedActivityTypeOK /\ L \in LeaseRecord /\ LeaseFits(l) /\ L.queue # <<>>
      /\ L.at \in {"first", "publish"} /\ L.life \in {"open", "closed"} /\ op.kind # "close"
  BY <1>1, LeaseTypes DEF ShapeInv, PublishFails, LeaseFits, LeaseRecord
<1>3. m \in BOOLEAN /\ b \in {"no", "writing", "yes"}
  BY <1>1, <1>2 DEF LeaseRecord
<1>4. PICK M : M = [L EXCEPT !.missed = m, !.beat = b]
  OBVIOUS
<1>5. /\ M \in LeaseRecord /\ M.queue = L.queue /\ M.life = L.life /\ M.count = L.count /\ M.rev = L.rev
      /\ M.missed = m
  BY <1>2, <1>3, <1>4 DEF LeaseRecord
<1>6. OpOver(l, M, FALSE) /\ UNCHANGED <<leaseFile, reader>>
  BY <1>1, <1>4 DEF PublishFails
<1>7. (L.missed = TRUE => M.missed = TRUE) /\ (op.kind = "start" /\ L.at # "publish" => M.missed = TRUE)
  BY <1>1, <1>2, <1>5
<1> QED BY <1>1, <1>2, <1>5, <1>6, <1>7, OpOverKind

\* Every step of a lease or of a call is of one of the kinds.
LEMMA ActivityLeaseKinds ==
  ASSUME ShapeInv,
         \/ \E l \in Due : OpBegins(l)
         \/ \E l \in Leases : LeaseStep(l)
         \/ \E k \in ToolCallIds : EndToolCall(k) \/ \E l \in Leases : BeginToolCall(k, l)
  PROVE  \E l \in Leases : LeaseKind(l)
<1>1. ASSUME NEW l \in Due, OpBegins(l) PROVE \E m \in Leases : LeaseKind(m)
  BY <1>1, BeginKinds DEF LeaseKind
<1>2. ASSUME NEW l \in Leases, LeaseStep(l) PROVE LeaseKind(l)
  BY <1>2, EnqueueKinds, CloseKinds, RenameKinds, FailKinds DEF LeaseStep, LeaseKind
<1>3. ASSUME NEW k \in ToolCallIds, EndToolCall(k) PROVE \E l \in Leases : LeaseKind(l)
  <2>1. toolCalls[k].lease \in Leases
    BY <1>3 DEF EndToolCall, ShapeInv, CallFits
  <2> QED BY <1>3, <2>1, EnqueueKinds DEF LeaseKind
<1>4. ASSUME NEW k \in ToolCallIds, NEW l \in Leases, BeginToolCall(k, l) PROVE LeaseKind(l)
  BY <1>4, EnqueueKinds DEF LeaseKind
<1> QED BY <1>1, <1>2, <1>3, <1>4

\* Fields of a lease that the reader's and the coordinator's steps leave alone.
SameLeases ==
  /\ leases' \in [Leases -> LeaseRecord]
  /\ \A l \in Leases :
       /\ leases'[l].life = leases[l].life /\ leases'[l].at = leases[l].at
       /\ leases'[l].queue = leases[l].queue /\ leases'[l].next = leases[l].next
       /\ leases'[l].count = leases[l].count /\ leases'[l].rev = leases[l].rev
       /\ leases'[l].missed = leases[l].missed

\* A call and its lease, before any step.
LEMMA CallTypes ==
  ASSUME SharedActivityTypeOK, NEW k \in ToolCallIds
  PROVE  /\ toolCalls[k] \in [at : {"none", "begins", "runs", "ends", "done"}, lease : 0 .. NLeases, shown : BOOLEAN]
         /\ toolCalls[k].at \in {"none", "begins", "runs", "ends", "done"} /\ toolCalls[k].shown \in BOOLEAN
BY DEF SharedActivityTypeOK

\* The call of an operation at the head of a chain.
LEMMA HeadFits ==
  ASSUME ShapeInv, NEW l \in Leases, leases[l].queue # <<>>
  PROVE  LET q == leases[l].queue
             op == Head(q) IN
         /\ q \in Seq(LeaseOp) /\ op \in LeaseOp /\ Len(q) \in Nat /\ Len(q) > 0
         /\ op = q[1] /\ op.kind \in {"init", "refresh", "close", "start", "end"}
         /\ op.kind = "start" => op.call \in ToolCallIds /\ toolCalls[op.call].lease = l /\ toolCalls[op.call].at = "begins"
         /\ op.kind = "end" => op.call \in ToolCallIds /\ toolCalls[op.call].lease = l /\ toolCalls[op.call].at = "ends"
<1>1. PICK q : q = leases[l].queue
  OBVIOUS
<1>2. q \in Seq(LeaseOp)
  BY <1>1, LeaseTypes DEF ShapeInv, LeaseRecord
<1>3. Len(q) \in Nat /\ 1 \in 1 .. Len(q) /\ Head(q) = q[1] /\ Head(q) \in LeaseOp
  BY <1>1, <1>2, HeadOp
<1>4. Len(q) > 0
  BY <1>3
<1> QED BY <1>1, <1>2, <1>3, <1>4, OpTypes DEF ShapeInv, QueueFits

\* An operation that is put in the chain fits.
LEMMA EnqueueShape ==
  ASSUME ShapeInv, NEW l \in Leases, NEW op \in LeaseOp, Enqueues(l, op)
  PROVE  ShapeInv'
<1>0. SharedActivityTypeOK /\ leases' \in [Leases -> LeaseRecord]
  BY DEF ShapeInv, Enqueues, LeaseOnly
<1>1. PICK q, r : q = leases[l].queue /\ r = leases'[l].queue
  OBVIOUS
<1>2. q \in Seq(LeaseOp) /\ Len(q) \in Nat
  BY <1>0, <1>1, LeaseTypes, LenProperties DEF LeaseRecord
<1>3. /\ r # <<>> /\ Len(r) = Len(q) + 1 /\ r[Len(q) + 1] = op
      /\ \A i \in 1 .. Len(q) : r[i] = q[i]
  <2>1. r = Append(q, op)
    BY <1>1 DEF Enqueues
  <2> QED BY <1>2, <2>1, AppendProperties
<1>4. \A i \in 1 .. Len(r) : i \in 1 .. Len(q) \/ i = Len(q) + 1
  BY <1>2, <1>3
<1>5. op.kind \in {"start", "end"} => op.call \in ToolCallIds
  BY OpTypes
<1>6. SharedActivityTypeOK'
  <2>1. \A k \in ToolCallIds : [at |-> "begins", lease |-> l, shown |-> FALSE] \in
          [at : {"none", "begins", "runs", "ends", "done"}, lease : 0 .. NLeases, shown : BOOLEAN]
    BY DEF Leases
  <2>2. op.kind = "end" => [toolCalls[op.call] EXCEPT !.at = "ends"] \in
          [at : {"none", "begins", "runs", "ends", "done"}, lease : 0 .. NLeases, shown : BOOLEAN]
    BY <1>0, <1>5, CallTypes
  <2>3. toolCalls' \in [ToolCallIds -> [at : {"none", "begins", "runs", "ends", "done"}, lease : 0 .. NLeases, shown : BOOLEAN]]
    <3>1. CASE op.kind = "start"
      <4>1. toolCalls' = [toolCalls EXCEPT ![op.call] = [at |-> "begins", lease |-> l, shown |-> FALSE]]
        BY <3>1 DEF Enqueues
      <4> QED BY <1>0, <1>5, <2>1, <3>1, <4>1 DEF SharedActivityTypeOK
    <3>2. CASE op.kind = "end"
      <4>1. toolCalls' = [toolCalls EXCEPT ![op.call] = [toolCalls[op.call] EXCEPT !.at = "ends"]]
        BY <3>2 DEF Enqueues
      <4> QED BY <1>0, <1>5, <2>2, <3>2, <4>1 DEF SharedActivityTypeOK
    <3>3. CASE op.kind \notin {"start", "end"}
      BY <1>0, <3>3 DEF Enqueues, SharedActivityTypeOK
    <3> QED BY <3>1, <3>2, <3>3
  <2> QED BY <1>0, <2>3 DEF Enqueues, SharedActivityTypeOK
<1>7. /\ \A k \in ToolCallIds : toolCalls'[k] # toolCalls[k] =>
           /\ op.kind \in {"start", "end"} /\ k = op.call
           /\ op.kind = "start" => toolCalls[k].at = "none"
           /\ op.kind = "end" => toolCalls[k].at = "runs"
      /\ op.kind = "start" => toolCalls'[op.call].at = "begins" /\ toolCalls'[op.call].lease = l
      /\ op.kind = "end" => toolCalls'[op.call].at = "ends" /\ toolCalls'[op.call].lease = l
  <2>1. CASE op.kind = "start"
    <3>1. toolCalls' = [toolCalls EXCEPT ![op.call] = [at |-> "begins", lease |-> l, shown |-> FALSE]]
          /\ toolCalls[op.call].at = "none"
      BY <2>1 DEF Enqueues
    <3> QED BY <1>0, <1>5, <2>1, <3>1 DEF SharedActivityTypeOK
  <2>2. CASE op.kind = "end"
    <3>1. toolCalls' = [toolCalls EXCEPT ![op.call].at = "ends"]
          /\ toolCalls[op.call].at = "runs" /\ toolCalls[op.call].lease = l
      BY <2>2 DEF Enqueues
    <3> QED BY <1>0, <1>5, <2>2, <3>1 DEF SharedActivityTypeOK
  <2>3. CASE op.kind \notin {"start", "end"}
    BY <2>3 DEF Enqueues
  <2> QED BY <2>1, <2>2, <2>3
<1>8. ASSUME NEW m \in Leases PROVE QueueFits(m)'
  <2>1. ASSUME m # l PROVE QueueFits(m)'
    <3>1. leases'[m] = leases[m] /\ QueueFits(m) /\ leases[m].queue \in Seq(LeaseOp)
      BY <1>0, <2>1, LeaseTypes DEF Enqueues, LeaseOnly, ShapeInv, LeaseRecord
    <3>2. \A i \in 1 .. Len(leases[m].queue) : leases[m].queue[i] \in LeaseOp
      BY <3>1, ElementOfSeq
    <3> QED BY <1>7, <3>1, <3>2, OpTypes DEF QueueFits
  <2>2. ASSUME m = l PROVE QueueFits(m)'
    <3>1. \A i \in 1 .. Len(q) : q[i] \in LeaseOp
      BY <1>2, ElementOfSeq
    <3>2. \A i \in 1 .. Len(q) :
            /\ q[i].kind = "start" => q[i].call \in ToolCallIds /\ toolCalls[q[i].call].lease = l /\ toolCalls[q[i].call].at = "begins"
            /\ q[i].kind = "end" => q[i].call \in ToolCallIds /\ toolCalls[q[i].call].lease = l /\ toolCalls[q[i].call].at = "ends"
      BY <1>1, <3>1, OpTypes DEF ShapeInv, QueueFits
    <3>3. \A i, j \in 1 .. Len(q) :
            {q[i].kind, q[j].kind} \subseteq {"start", "end"} /\ q[i].call = q[j].call => i = j
      BY <1>1 DEF ShapeInv, QueueFits
    <3>4. \A i \in 1 .. Len(r) :
            /\ r[i].kind = "start" => toolCalls'[r[i].call].lease = l /\ toolCalls'[r[i].call].at = "begins"
            /\ r[i].kind = "end" => toolCalls'[r[i].call].lease = l /\ toolCalls'[r[i].call].at = "ends"
      BY <1>3, <1>4, <1>7, <3>2
    <3>5. \A i \in 1 .. Len(q) : {q[i].kind, op.kind} \subseteq {"start", "end"} => q[i].call # op.call
      <4>1. op.kind = "start" => toolCalls[op.call].at = "none"
        BY DEF Enqueues
      <4>2. op.kind = "end" => toolCalls[op.call].at = "runs"
        BY DEF Enqueues
      <4> QED BY <3>2, <4>1, <4>2
    <3>6. \A i, j \in 1 .. Len(r) :
            {r[i].kind, r[j].kind} \subseteq {"start", "end"} /\ r[i].call = r[j].call => i = j
      BY <1>2, <1>3, <1>4, <3>3, <3>5
    <3> QED BY <1>1, <2>2, <3>4, <3>6 DEF QueueFits
  <2> QED BY <2>1, <2>2
<1>9. ASSUME NEW m \in Leases PROVE LeaseFits(m)'
  <2>1. ASSUME m # l PROVE LeaseFits(m)'
    <3>1. leases'[m] = leases[m] /\ LeaseFits(m)
      BY <2>1 DEF Enqueues, LeaseOnly, ShapeInv
    <3> QED BY <3>1 DEF LeaseFits
  <2>2. ASSUME m = l PROVE LeaseFits(m)'
    <3>1. LeaseFits(l)
      BY DEF ShapeInv
    <3>2. leases'[l].life \in {"open", "closed"} /\ leases'[l].at = leases[l].at /\ leases'[l].next = leases[l].next
          /\ leases'[l].count = leases[l].count /\ leases'[l].rev = leases[l].rev
          /\ (leases[l].life = "closed" => leases'[l].life = "closed")
          /\ (op.kind = "close" => leases'[l].life = "closed")
      BY DEF Enqueues
    <3>3. leases[l].at # "rest" => Head(r) = Head(q)
      <4>1. ASSUME leases[l].at # "rest" PROVE q # <<>>
        BY <1>1, <3>1, <4>1 DEF LeaseFits
      <4>2. ASSUME q # <<>> PROVE Head(r) = Head(q)
        <5>1. 1 \in 1 .. Len(q) /\ Head(q) = q[1]
          BY <1>2, <4>2, HeadOp
        <5>2. r \in Seq(LeaseOp)
          BY <1>1, <1>0 DEF LeaseRecord
        <5>3. Head(r) = r[1]
          BY <1>3, <5>2, HeadOp
        <5> QED BY <1>3, <5>1, <5>3
      <4> QED BY <4>1, <4>2
    <3>4. \A i \in 1 .. Len(r) : r[i].kind = "close" => leases'[l].life = "closed"
      BY <1>1, <1>3, <1>4, <3>1, <3>2 DEF LeaseFits
    <3> QED BY <1>1, <1>3, <2>2, <3>1, <3>2, <3>3, <3>4 DEF LeaseFits
  <2> QED BY <2>1, <2>2
<1>10. ASSUME NEW k \in ToolCallIds PROVE CallFits(k)'
  <2>1. \A m \in Leases : leases[m].life \in {"open", "closed"} => leases'[m].life \in {"open", "closed"}
    BY DEF Enqueues, LeaseOnly
  <2>2. leases'[l].life \in {"open", "closed"}
    BY DEF Enqueues
  <2>3. CallFits(k)
    BY DEF ShapeInv
  <2>4. CASE toolCalls'[k] = toolCalls[k]
    BY <2>1, <2>3, <2>4 DEF CallFits
  <2>5. CASE toolCalls'[k] # toolCalls[k]
    BY <1>7, <2>2, <2>5 DEF CallFits
  <2> QED BY <2>4, <2>5
<1> QED BY <1>6, <1>8, <1>9, <1>10 DEF ShapeInv

\* What is left of a process that is gone.
LEMMA VanishShape ==
  ASSUME ShapeInv, NEW l \in Leases, Vanishes(l)
  PROVE  ShapeInv'
<1>0. SharedActivityTypeOK /\ leases' \in [Leases -> LeaseRecord]
  BY DEF ShapeInv, Vanishes, LeaseOnly
<1>1. leases'[l] = [NewLease EXCEPT !.life = "gone"]
      /\ toolCalls' = [k \in ToolCallIds |-> IF toolCalls[k].lease = l THEN [toolCalls[k] EXCEPT !.at = "done"]
                                             ELSE toolCalls[k]]
  BY <1>0 DEF Vanishes, Ends, SharedActivityTypeOK
<1>2. leases'[l].life = "gone" /\ leases'[l].at = "rest" /\ leases'[l].queue = <<>>
  BY <1>1 DEF NewLease
<1>3. \A m \in Leases \ {l} : leases'[m] = leases[m]
  BY DEF Vanishes, LeaseOnly
<1>4. SharedActivityTypeOK'
  <2>1. \A k \in ToolCallIds : [toolCalls[k] EXCEPT !.at = "done"] \in
          [at : {"none", "begins", "runs", "ends", "done"}, lease : 0 .. NLeases, shown : BOOLEAN]
    BY <1>0, CallTypes
  <2>2. toolCalls' \in [ToolCallIds -> [at : {"none", "begins", "runs", "ends", "done"}, lease : 0 .. NLeases, shown : BOOLEAN]]
    BY <1>0, <1>1, <2>1, CallTypes
  <2>3. leases[l].next \in LeaseSnapshot
    BY <1>0, LeaseTypes DEF LeaseRecord
  <2>4. leaseFile' \in [Leases -> LeaseSnapshot \cup {NoSnapshot}]
    BY <1>0, <2>3 DEF Vanishes, SharedActivityTypeOK
  <2> QED BY <1>0, <2>2, <2>4 DEF Vanishes, SharedActivityTypeOK
<1>5. ASSUME NEW k \in ToolCallIds
      PROVE  /\ toolCalls[k].lease # l => toolCalls'[k] = toolCalls[k]
             /\ toolCalls[k].lease = l => toolCalls'[k].lease = l /\ toolCalls'[k].at = "done"
  BY <1>0, <1>1, CallTypes
<1>6. ASSUME NEW m \in Leases PROVE LeaseFits(m)' /\ QueueFits(m)'
  <2>1. CASE m = l
    BY <1>2, <2>1, EmptySeq DEF LeaseFits, QueueFits
  <2>2. CASE m # l
    <3>1. leases'[m] = leases[m] /\ LeaseFits(m) /\ QueueFits(m) /\ leases[m].queue \in Seq(LeaseOp)
      BY <1>0, <1>3, <2>2, LeaseTypes DEF ShapeInv, LeaseRecord
    <3>2. \A i \in 1 .. Len(leases[m].queue) : leases[m].queue[i] \in LeaseOp
      BY <3>1, ElementOfSeq
    <3>3. LeaseFits(m)'
      BY <3>1 DEF LeaseFits
    <3>4. QueueFits(m)'
      BY <1>5, <2>2, <3>1, <3>2, OpTypes DEF QueueFits
    <3> QED BY <3>3, <3>4
  <2> QED BY <2>1, <2>2
<1>7. ASSUME NEW k \in ToolCallIds PROVE CallFits(k)'
  <2>1. CallFits(k)
    BY DEF ShapeInv
  <2> QED BY <1>3, <1>5, <2>1 DEF CallFits
<1> QED BY <1>4, <1>6, <1>7 DEF ShapeInv

\* Where the chain of a lease stays as it is, and all calls do.
LEMMA ChainShape ==
  ASSUME ShapeInv, NEW l \in Leases, LeaseOnly(l), UNCHANGED toolCalls,
         leases'[l].queue = leases[l].queue, leases'[l].life = leases[l].life
  PROVE  /\ \A m \in Leases : QueueFits(m)'
         /\ \A m \in Leases \ {l} : LeaseFits(m)'
         /\ \A k \in ToolCallIds : CallFits(k)'
<1>1. \A m \in Leases : leases'[m].queue = leases[m].queue /\ leases'[m].life = leases[m].life
  BY DEF LeaseOnly
<1>2. \A m \in Leases \ {l} : leases'[m] = leases[m]
  BY DEF LeaseOnly
<1>3. \A m \in Leases : LeaseFits(m) /\ QueueFits(m)
  BY DEF ShapeInv
<1>4. \A k \in ToolCallIds : CallFits(k)
  BY DEF ShapeInv
<1>5. ASSUME NEW m \in Leases PROVE QueueFits(m)'
  BY <1>1, <1>3 DEF QueueFits
<1>6. ASSUME NEW m \in Leases \ {l} PROVE LeaseFits(m)'
  BY <1>2, <1>3 DEF LeaseFits
<1>7. ASSUME NEW k \in ToolCallIds PROVE CallFits(k)'
  BY <1>1, <1>4 DEF CallFits
<1> QED BY <1>5, <1>6, <1>7

\* A lease that is set aside by its owner.
LEMMA MoveShape ==
  ASSUME ShapeInv, NEW l \in Leases, Moves(l)
  PROVE  ShapeInv'
<1>0. SharedActivityTypeOK /\ leases' \in [Leases -> LeaseRecord] /\ LeaseFits(l)
  BY DEF ShapeInv, Moves, LeaseOnly
<1>1. SharedActivityTypeOK'
  BY <1>0 DEF Moves, SharedActivityTypeOK
<1>2. LeaseFits(l)'
  BY <1>0 DEF Moves, LeaseFits
<1>3. \A m \in Leases : LeaseFits(m)' /\ QueueFits(m)'
  BY <1>2, ChainShape DEF Moves
<1>4. \A k \in ToolCallIds : CallFits(k)'
  BY ChainShape DEF Moves
<1> QED BY <1>1, <1>3, <1>4 DEF ShapeInv

\* A publication that is made up.
LEMMA PublishShape ==
  ASSUME ShapeInv, NEW l \in Leases, Publishes(l)
  PROVE  ShapeInv'
<1>0. SharedActivityTypeOK /\ leases' \in [Leases -> LeaseRecord] /\ LeaseFits(l) /\ leases[l] \in LeaseRecord
  BY LeaseTypes DEF ShapeInv, Publishes, LeaseOnly
<1>1. SharedActivityTypeOK'
  <2>1. reader' \in Reader
    BY <1>0 DEF Publishes, SharedActivityTypeOK, SameReading
  <2>2. leases[l].next \in LeaseSnapshot
    BY <1>0 DEF LeaseRecord
  <2>3. leaseFile' \in [Leases -> LeaseSnapshot \cup {NoSnapshot}]
    BY <1>0, <2>2 DEF Publishes, SharedActivityTypeOK
  <2> QED BY <1>0, <2>1, <2>3 DEF Publishes, SharedActivityTypeOK
<1>2. LeaseFits(l)'
  BY <1>0 DEF Publishes, LeaseFits
<1>3. \A m \in Leases : LeaseFits(m)' /\ QueueFits(m)'
  BY <1>2, ChainShape DEF Publishes
<1>4. \A k \in ToolCallIds : CallFits(k)'
  BY ChainShape DEF Publishes
<1> QED BY <1>1, <1>3, <1>4 DEF ShapeInv

\* What an operation does to the calls when it is over.
LEMMA OpEndsCalls ==
  ASSUME ShapeInv, NEW l \in Leases, NEW published \in BOOLEAN, OpEnds(l, published)
  PROVE  LET op == Head(leases[l].queue) IN
         /\ toolCalls' \in [ToolCallIds -> [at : {"none", "begins", "runs", "ends", "done"}, lease : 0 .. NLeases, shown : BOOLEAN]]
         /\ \A k \in ToolCallIds :
              /\ toolCalls'[k].lease = toolCalls[k].lease
              /\ toolCalls'[k] # toolCalls[k] => op.kind \in {"start", "end"} /\ op.call = k
              /\ op.kind = "start" /\ op.call = k =>
                   toolCalls[k].at = "begins" /\ toolCalls'[k].at = "runs" /\ toolCalls'[k].shown = published
              /\ op.kind = "end" /\ op.call = k =>
                   toolCalls[k].at = "ends" /\ toolCalls'[k].at = "done" /\ toolCalls'[k].shown = toolCalls[k].shown
<1>1. PICK op : op = Head(leases[l].queue)
  OBVIOUS
<1>2. /\ SharedActivityTypeOK
      /\ op.kind = "start" => op.call \in ToolCallIds /\ toolCalls[op.call].at = "begins"
      /\ op.kind = "end" => op.call \in ToolCallIds /\ toolCalls[op.call].at = "ends"
  BY <1>1, HeadFits DEF OpEnds, ShapeInv
<1>3. CASE op.kind = "start"
  <2>1. PICK c : c = [toolCalls[op.call] EXCEPT !.at = "runs", !.shown = published]
    OBVIOUS
  <2>2. toolCalls' = [toolCalls EXCEPT ![op.call] = c]
    BY <1>1, <1>3, <2>1 DEF OpEnds
  <2>3. /\ c \in [at : {"none", "begins", "runs", "ends", "done"}, lease : 0 .. NLeases, shown : BOOLEAN]
        /\ c.at = "runs" /\ c.shown = published /\ c.lease = toolCalls[op.call].lease
    BY <1>2, <1>3, <2>1, CallTypes
  <2> QED BY <1>1, <1>2, <1>3, <2>2, <2>3 DEF SharedActivityTypeOK
<1>4. CASE op.kind = "end"
  <2>1. PICK c : c = [toolCalls[op.call] EXCEPT !.at = "done"]
    OBVIOUS
  <2>2. toolCalls' = [toolCalls EXCEPT ![op.call] = c]
    BY <1>1, <1>4, <2>1 DEF OpEnds
  <2>3. /\ c \in [at : {"none", "begins", "runs", "ends", "done"}, lease : 0 .. NLeases, shown : BOOLEAN]
        /\ c.at = "done" /\ c.shown = toolCalls[op.call].shown /\ c.lease = toolCalls[op.call].lease
    BY <1>2, <1>4, <2>1, CallTypes
  <2> QED BY <1>1, <1>2, <1>4, <2>2, <2>3 DEF SharedActivityTypeOK
<1>5. CASE op.kind \notin {"start", "end"}
  <2>1. toolCalls' = toolCalls
    BY <1>1, <1>5 DEF OpEnds
  <2> QED BY <1>1, <1>2, <1>5, <2>1 DEF SharedActivityTypeOK
<1> QED BY <1>3, <1>4, <1>5

\* An operation that is over leaves a chain that fits.
LEMMA OpEndsShape ==
  ASSUME ShapeInv, NEW l \in Leases, NEW published \in BOOLEAN, OpEnds(l, published)
  PROVE  ShapeInv'
<1>0. SharedActivityTypeOK /\ leases' \in [Leases -> LeaseRecord] /\ LeaseFits(l) /\ QueueFits(l)
      /\ leases[l] \in LeaseRecord
  BY LeaseTypes DEF ShapeInv, OpEnds, LeaseOnly
<1>1. PICK op, q, r : q = leases[l].queue /\ r = leases'[l].queue /\ op = Head(q)
  OBVIOUS
<1>2. /\ q \in Seq(LeaseOp) /\ q # <<>> /\ Len(q) \in Nat /\ Len(q) > 0 /\ op = q[1]
      /\ op.kind \in {"init", "refresh", "close", "start", "end"}
      /\ op.kind \in {"start", "end"} => op.call \in ToolCallIds /\ toolCalls[op.call].lease = l
      /\ op.kind = "start" => toolCalls[op.call].at = "begins"
      /\ op.kind = "end" => toolCalls[op.call].at = "ends"
  BY <1>1, HeadFits DEF OpEnds
<1>3. r \in Seq(LeaseOp) /\ Len(r) = Len(q) - 1 /\ \A i \in 1 .. Len(r) : r[i] = q[i + 1]
  <2>1. r = Tail(q)
    BY <1>1 DEF OpEnds
  <2> QED BY <1>2, <2>1, HeadTailProperties
<1>4. /\ toolCalls' \in [ToolCallIds -> [at : {"none", "begins", "runs", "ends", "done"}, lease : 0 .. NLeases, shown : BOOLEAN]]
      /\ \A k \in ToolCallIds :
              /\ toolCalls'[k].lease = toolCalls[k].lease
              /\ toolCalls'[k] # toolCalls[k] => op.kind \in {"start", "end"} /\ op.call = k
              /\ op.kind = "start" /\ op.call = k => toolCalls'[k].at = "runs"
              /\ op.kind = "end" /\ op.call = k => toolCalls'[k].at = "done"
  BY <1>1, OpEndsCalls
<1>5. SharedActivityTypeOK'
  <2>1. reader' \in Reader
    BY <1>0 DEF OpEnds, SharedActivityTypeOK, SameReading
  <2>2. leases[l].next \in LeaseSnapshot
    BY <1>0 DEF LeaseRecord
  <2>3. leaseFile' \in [Leases -> LeaseSnapshot \cup {NoSnapshot}]
    BY <1>0, <2>2 DEF OpEnds, SharedActivityTypeOK
  <2>4. quiet' \in [mark : Key, covered : BOOLEAN, installs : BOOLEAN,
                    since : SUBSET ToolCallIds, old : SUBSET ToolCallIds]
    <3>1. PICK calls \in SUBSET ToolCallIds : quiet' = [quiet EXCEPT !.since = calls]
      <4>1. quiet.since \in SUBSET ToolCallIds /\ quiet = [quiet EXCEPT !.since = quiet.since]
        BY <1>0 DEF SharedActivityTypeOK
      <4>2. \/ quiet' = quiet
            \/ quiet' = [quiet EXCEPT !.since = quiet.since \cup {op.call}] /\ op.kind = "start"
        BY <1>1 DEF OpEnds
      <4>3. op.kind = "start" => quiet.since \cup {op.call} \in SUBSET ToolCallIds
        BY <1>2, <4>1
      <4> QED BY <4>1, <4>2, <4>3
    <3> QED BY <1>0, <3>1 DEF SharedActivityTypeOK
  <2> QED BY <1>0, <1>4, <2>1, <2>3, <2>4 DEF SharedActivityTypeOK
<1>6. \A i \in 1 .. Len(q) : q[i] \in LeaseOp
  BY <1>2, ElementOfSeq
<1>7. ASSUME NEW m \in Leases PROVE LeaseFits(m)' /\ QueueFits(m)'
  <2>1. CASE m = l
    <3>1. leases'[l].at = "rest" /\ leases'[l].life = leases[l].life /\ leases[l].life \in {"open", "closed"}
      BY DEF OpEnds
    <3>2. \A i \in 1 .. Len(r) : i + 1 \in 1 .. Len(q) /\ i + 1 # 1
      BY <1>2, <1>3
    <3>3. LeaseFits(l)'
      BY <1>0, <1>1, <1>3, <3>1, <3>2 DEF LeaseFits
    <3>4. \A i \in 1 .. Len(r) :
            /\ r[i].kind = "start" => toolCalls'[r[i].call].lease = l /\ toolCalls'[r[i].call].at = "begins"
            /\ r[i].kind = "end" => toolCalls'[r[i].call].lease = l /\ toolCalls'[r[i].call].at = "ends"
      <4> SUFFICES ASSUME NEW i \in 1 .. Len(r), r[i].kind \in {"start", "end"}
                   PROVE  toolCalls'[r[i].call] = toolCalls[r[i].call]
        <5>1. \A i \in 1 .. Len(r) : r[i] = q[i + 1] /\ i + 1 \in 1 .. Len(q)
          BY <1>3, <3>2
        <5>2. \A j \in 1 .. Len(q) :
                /\ q[j].kind = "start" => toolCalls[q[j].call].lease = l /\ toolCalls[q[j].call].at = "begins"
                /\ q[j].kind = "end" => toolCalls[q[j].call].lease = l /\ toolCalls[q[j].call].at = "ends"
          BY <1>0, <1>1 DEF QueueFits
        <5>3. \A i \in 1 .. Len(r) :
                /\ r[i].kind = "start" => toolCalls[r[i].call].lease = l /\ toolCalls[r[i].call].at = "begins"
                /\ r[i].kind = "end" => toolCalls[r[i].call].lease = l /\ toolCalls[r[i].call].at = "ends"
          BY <5>1, <5>2
        <5> QED BY <5>3
      <4>1. r[i] = q[i + 1] /\ i + 1 \in 1 .. Len(q) /\ i + 1 # 1 /\ 1 \in 1 .. Len(q) /\ r[i] \in LeaseOp
        BY <1>2, <1>3, <1>6, <3>2
      <4>2. r[i].call \in ToolCallIds
        BY <4>1, OpTypes
      <4>3. ~(op.kind \in {"start", "end"} /\ op.call = r[i].call)
        BY <1>0, <1>1, <1>2, <4>1 DEF QueueFits
      <4> QED BY <1>4, <4>2, <4>3
    <3>5. \A i, j \in 1 .. Len(r) :
            {r[i].kind, r[j].kind} \subseteq {"start", "end"} /\ r[i].call = r[j].call => i = j
      <4> SUFFICES ASSUME NEW i \in 1 .. Len(r), NEW j \in 1 .. Len(r),
                          {r[i].kind, r[j].kind} \subseteq {"start", "end"}, r[i].call = r[j].call
                   PROVE  i = j
        OBVIOUS
      <4>1. r[i] = q[i + 1] /\ r[j] = q[j + 1] /\ i + 1 \in 1 .. Len(q) /\ j + 1 \in 1 .. Len(q)
        BY <1>3, <3>2
      <4>2. i + 1 = j + 1
        BY <1>0, <1>1, <4>1 DEF QueueFits
      <4> QED BY <1>2, <1>3, <4>2
    <3> QED BY <1>1, <2>1, <3>3, <3>4, <3>5 DEF QueueFits
  <2>2. CASE m # l
    <3>1. leases'[m] = leases[m] /\ LeaseFits(m) /\ QueueFits(m) /\ leases[m].queue \in Seq(LeaseOp)
      BY <1>0, <2>2, LeaseTypes DEF ShapeInv, LeaseRecord, OpEnds, LeaseOnly
    <3>2. \A i \in 1 .. Len(leases[m].queue) : leases[m].queue[i] \in LeaseOp
      BY <3>1, ElementOfSeq
    <3>3. LeaseFits(m)'
      BY <3>1 DEF LeaseFits
    <3>4. \A k \in ToolCallIds : toolCalls[k].lease = m => toolCalls'[k] = toolCalls[k]
      BY <1>2, <1>4, <2>2
    <3>5. QueueFits(m)'
      BY <3>1, <3>2, <3>4, OpTypes DEF QueueFits
    <3> QED BY <3>3, <3>5
  <2> QED BY <2>1, <2>2
<1>8. ASSUME NEW k \in ToolCallIds PROVE CallFits(k)'
  <2>1. CallFits(k) /\ \A m \in Leases : leases'[m].life = leases[m].life
    BY DEF ShapeInv, OpEnds, LeaseOnly
  <2>2. toolCalls'[k].lease = toolCalls[k].lease
        /\ (toolCalls'[k] # toolCalls[k] => toolCalls[k].at \in {"begins", "ends"})
    BY <1>2, <1>4
  <2> QED BY <2>1, <2>2 DEF CallFits
<1> QED BY <1>5, <1>7, <1>8 DEF ShapeInv

-----------------------------------------------------------------------------
(* What was published, what was read of it, and what was made of that     *)

\* A lease whose calls are not excepted.
Reliable(l) == leases[l].life = "open" /\ leases[l].missed = FALSE

\* A revision that a lease will not publish again; not even now, where the
\* publication of another start is on its way.
LeaseFloor(n, l) ==
  LET L == leases[l] IN
  L.life \in {"open", "closed"} =>
    /\ n <= L.rev
    /\ L.at # "rest" => n <= L.next.rev
    /\ L.at = "publish" /\ Head(L.queue).kind = "start" => n < L.next.rev

\* Nor will it be found on the disk, whoever puts back what.
Floor(n, l) ==
  /\ leases[l].life # "new"
  /\ LeaseFloor(n, l)
  /\ leaseFile[l] # NoSnapshot => n <= leaseFile[l].rev
  /\ reader.at = "compare" /\ reader.target = l => n <= reader.aside.rev

FileFits(l) ==
  /\ leaseFile[l] # NoSnapshot => leases[l].life # "new" /\ LeaseFloor(leaseFile[l].rev, l)
  /\ reader.found[l] # NoSnapshot => Floor(reader.found[l].rev, l)

ReaderFits ==
  /\ reader.at = "read" => reader.todo # {}
  /\ reader.at \in {"judge", "move", "compare"} =>
       \A l \in reader.todo \cup reader.live : reader.found[l] # NoSnapshot
  /\ reader.todo \cap reader.live = {}
  /\ reader.at \in {"rest", "read", "fails"} => reader.live = {}
  /\ reader.at \in {"move", "compare"} =>
       reader.target \in reader.todo /\ leases[reader.target].life \in {"closed", "gone"}
  /\ reader.at = "compare" => reader.aside # NoSnapshot /\ Floor(reader.aside.rev, reader.target)

-----------------------------------------------------------------------------
(* The steps of the reader and of the coordinator                         *)

\* The lease that is looked at next is one of those left.
LEMMA NextIsLeft ==
  ASSUME NEW S \in SUBSET Leases, S # {}
  PROVE  Min(S) \in S
<1>1. NLeases \in Nat
  BY SharedActivityAssumption
<1>2. \E k \in S : \A l \in S : k <= l
  BY <1>1, SmallestOfSome DEF Leases
<1> QED BY <1>2 DEF Min

\* Leases that change in nothing that matters here keep their shape.
LEMMA SameLeasesShape ==
  ASSUME ShapeInv, SameLeases, UNCHANGED toolCalls
  PROVE  /\ \A l \in Leases : LeaseFits(l)' /\ QueueFits(l)'
         /\ \A k \in ToolCallIds : CallFits(k)'
<1>1. ASSUME NEW l \in Leases PROVE LeaseFits(l)' /\ QueueFits(l)'
  BY DEF ShapeInv, SameLeases, LeaseFits, QueueFits
<1>2. ASSUME NEW k \in ToolCallIds PROVE CallFits(k)'
  BY DEF ShapeInv, SameLeases, CallFits
<1> QED BY <1>1, <1>2

\* A resting reader is one.
LEMMA RestingReaderType == RestingReader \in Reader /\ \A at \in {"rest", "read", "judge", "fails"},
                             todo \in SUBSET Leases : [RestingReader EXCEPT !.todo = todo, !.at = at] \in Reader
<1>1. 0 \in 0 .. NLeases
  BY SharedActivityAssumption
<1> QED BY <1>1 DEF RestingReader, Reader

\* What the reader reads and judges, it can.
LEMMA ReaderShape ==
  ASSUME ShapeInv, ReaderFits, LookBegins \/ ReadLease \/ JudgeLease \/ MoveStale \/ CompareStale
  PROVE  SharedActivityTypeOK' /\ UNCHANGED <<leases, toolCalls>>
<1>0. SharedActivityTypeOK /\ reader \in Reader
  BY DEF ShapeInv, SharedActivityTypeOK
<1>1. UNCHANGED <<leases, toolCalls>>
  BY DEF LookBegins, ReadLease, JudgeLease, MoveStale, CompareStale
<1>2. [RestingReader EXCEPT !.at = "fails"] \in Reader
  BY RestingReaderType DEF RestingReader, Reader
<1>3. CASE LookBegins
  <2>1. reader' \in Reader
    <3>1. Present \in SUBSET Leases
      BY DEF Present
    <3>2. PICK at \in {"read", "judge"} : reader' = [RestingReader EXCEPT !.todo = Present, !.at = at]
      BY <1>3 DEF LookBegins
    <3> QED BY <3>1, <3>2, RestingReaderType
  <2>2. PICK covered \in BOOLEAN : quiet' = [quiet EXCEPT !.old = quiet.since, !.covered = covered]
    BY <1>3 DEF LookBegins
  <2> QED BY <1>0, <1>1, <1>3, <2>1, <2>2 DEF LookBegins, SharedActivityTypeOK
<1>4. CASE ReadLease
  <2>1. PICK found, rest : /\ found = [reader.found EXCEPT ![NextLease] = leaseFile[NextLease]]
                           /\ rest = reader.todo \ {NextLease}
    OBVIOUS
  <2>2. found \in [Leases -> LeaseSnapshot \cup {NoSnapshot}] /\ rest \in SUBSET Leases
        /\ Readable(found) \in SUBSET Leases /\ (NextLease \in Leases => reader.same \cup {NextLease} \in SUBSET Leases)
    <3>1. reader.found \in [Leases -> LeaseSnapshot \cup {NoSnapshot}] /\ reader.todo \in SUBSET Leases
          /\ reader.same \in SUBSET Leases
      BY <1>0 DEF Reader
    <3>2. NextLease \in Leases => leaseFile[NextLease] \in LeaseSnapshot \cup {NoSnapshot}
      BY <1>0 DEF SharedActivityTypeOK
    <3> QED BY <2>1, <3>1, <3>2 DEF Readable
  <2>3. reader' \in Reader
    <3>1. CASE reader' = [RestingReader EXCEPT !.at = "fails"]
      BY <1>2, <3>1
    <3>2. CASE reader' # [RestingReader EXCEPT !.at = "fails"]
      <4>1. PICK at \in {"read", "judge"}, todo \in SUBSET Leases :
              reader' = [reader EXCEPT !.found = found, !.same = reader.same \cup {NextLease}, !.at = at, !.todo = todo]
        BY <1>4, <2>1, <2>2, <3>2 DEF ReadLease
      <4>2. NextLease \in Leases
        <5>1. reader.at = "read" /\ reader.todo \in SUBSET Leases
          BY <1>0, <1>4 DEF ReadLease, Reader
        <5> QED BY <5>1, NextIsLeft DEF ReaderFits, NextLease
      <4> QED BY <1>0, <2>2, <4>1, <4>2 DEF Reader
    <3> QED BY <3>1, <3>2
  <2> QED BY <1>0, <1>1, <1>4, <2>3 DEF ReadLease, SharedActivityTypeOK
<1>5. CASE JudgeLease
  <2>1. NextLease \in reader.todo /\ reader.todo \in SUBSET Leases /\ reader.live \in SUBSET Leases
    BY <1>0, <1>5, NextIsLeft DEF JudgeLease, NextLease, Reader
  <2>2. NextLease \in 0 .. NLeases
    BY <2>1, SharedActivityAssumption DEF Leases
  <2>3. reader' \in Reader
    <3>1. \/ reader' = [reader EXCEPT !.at = "move", !.target = NextLease]
          \/ reader' = [reader EXCEPT !.todo = reader.todo \ {NextLease}, !.live = reader.live \cup {NextLease},
                                      !.same = reader.same \ {NextLease}]
          \/ reader' = [RestingReader EXCEPT !.at = "fails"]
      BY <1>5 DEF JudgeLease
    <3>2. reader.todo \ {NextLease} \in SUBSET Leases /\ reader.live \cup {NextLease} \in SUBSET Leases
          /\ reader.same \ {NextLease} \in SUBSET Leases
      BY <1>0, <2>1 DEF Reader
    <3> QED BY <1>0, <1>2, <2>2, <3>1, <3>2 DEF Reader
  <2> QED BY <1>0, <1>1, <1>5, <2>3 DEF JudgeLease, SharedActivityTypeOK
<1>6. CASE MoveStale
  <2>1. CASE leaseFile[reader.target] = NoSnapshot
    BY <1>0, <1>1, <1>2, <1>6, <2>1 DEF MoveStale, SharedActivityTypeOK
  <2>2. CASE leaseFile[reader.target] # NoSnapshot
    <3>1. leaseFile' = [leaseFile EXCEPT ![reader.target] = NoSnapshot]
          /\ reader' = [reader EXCEPT !.at = "compare", !.aside = leaseFile[reader.target]]
      BY <1>6, <2>2 DEF MoveStale
    <3>2. leaseFile[reader.target] \in LeaseSnapshot \cup {NoSnapshot}
      <4>1. reader.target \in Leases
        BY <1>0, <1>6 DEF ReaderFits, MoveStale, Reader
      <4> QED BY <1>0, <4>1 DEF SharedActivityTypeOK
    <3>3. reader' \in Reader
      BY <1>0, <3>1, <3>2 DEF Reader
    <3> QED BY <1>0, <1>1, <1>6, <3>1, <3>3 DEF MoveStale, SharedActivityTypeOK
  <2> QED BY <2>1, <2>2
<1>7. CASE CompareStale
  <2>1. CASE reader.target \in reader.same
    <3>1. PICK found, todo, same :
            /\ found = [reader.found EXCEPT ![reader.target] = NoSnapshot]
            /\ todo = reader.todo \ {reader.target} /\ same = reader.same \ {reader.target}
      OBVIOUS
    <3>2. reader' = [reader EXCEPT !.at = "judge", !.todo = todo, !.same = same, !.target = 0,
                                   !.found = found, !.aside = NoSnapshot]
          /\ UNCHANGED leaseFile
      BY <1>7, <2>1, <3>1 DEF CompareStale
    <3>3. found \in [Leases -> LeaseSnapshot \cup {NoSnapshot}] /\ todo \in SUBSET Leases /\ same \in SUBSET Leases
      BY <1>0, <3>1 DEF Reader
    <3>4. 0 \in 0 .. NLeases
      BY SharedActivityAssumption
    <3>5. reader' \in Reader
      BY <1>0, <3>2, <3>3, <3>4 DEF Reader
    <3> QED BY <1>0, <1>1, <1>7, <3>2, <3>5 DEF CompareStale, SharedActivityTypeOK
  <2>2. CASE reader.target \notin reader.same
    <3>1. leaseFile' = [leaseFile EXCEPT ![reader.target] = reader.aside]
          /\ reader' = [RestingReader EXCEPT !.at = "fails"]
      BY <1>7, <2>2 DEF CompareStale
    <3>2. reader.aside \in LeaseSnapshot \cup {NoSnapshot}
      BY <1>0 DEF Reader
    <3> QED BY <1>0, <1>1, <1>2, <1>7, <3>1, <3>2 DEF CompareStale, SharedActivityTypeOK
  <2> QED BY <2>1, <2>2
<1> QED BY <1>1, <1>3, <1>4, <1>5, <1>6, <1>7

\* The records of a lease without its heartbeat.
LEMMA BeatForgotten ==
  ASSUME SharedActivityTypeOK, leases' = [l \in Leases |-> [leases[l] EXCEPT !.beat = "no"]]
  PROVE  SameLeases
<1>1. ASSUME NEW l \in Leases
      PROVE  LET M == [leases[l] EXCEPT !.beat = "no"]  IN
             /\ M \in LeaseRecord
             /\ M.life = leases[l].life /\ M.at = leases[l].at
             /\ M.queue = leases[l].queue /\ M.next = leases[l].next
             /\ M.count = leases[l].count /\ M.rev = leases[l].rev
             /\ M.missed = leases[l].missed
  <2>1. leases[l] \in LeaseRecord
    BY LeaseTypes
  <2> QED BY <2>1 DEF LeaseRecord
<1> QED BY <1>1 DEF SameLeases

\* What was observed adds up to a number.
LEMMA ObservedType ==
  ASSUME SharedActivityTypeOK, ReaderFits, LookDone, Trustworthy
  PROVE  /\ IsFiniteSet(reader.live) /\ reader.live \in SUBSET Leases /\ reader.live # {}
         /\ \A l \in reader.live : reader.found[l] # NoSnapshot /\ reader.found[l] \in LeaseSnapshot
                                   /\ reader.found[l].count \in Nat /\ reader.found[l].rev \in Nat
         /\ ObservedKey \in Key /\ ObservedKey # NoKey
<1>1. reader \in Reader /\ reader.live \in SUBSET Leases /\ reader.live # {} /\ reader.at = "judge"
      /\ reader.found \in [Leases -> LeaseSnapshot \cup {NoSnapshot}]
  BY DEF SharedActivityTypeOK, Reader, Trustworthy
<1>2. IsFiniteSet(reader.live)
  <2>1. IsFiniteSet(Leases)
    BY SharedActivityAssumption, FS_Interval DEF Leases
  <2> QED BY <1>1, <2>1, FS_Subset
<1>3. \A l \in reader.live : reader.found[l] # NoSnapshot /\ reader.found[l] \in LeaseSnapshot
                                   /\ reader.found[l].count \in Nat /\ reader.found[l].rev \in Nat
  BY <1>1, SnapshotTypes DEF ReaderFits
<1>4. ObservedRev \in Nat
  <2>1. PICK f : f = [l \in Leases |-> reader.found[l].rev]
    OBVIOUS
  <2>2. \A l \in reader.live : f[l] \in Nat /\ f[l] <= f[l]
    BY <1>1, <1>3, <2>1
  <2>3. SumFunctionOnSet(f, reader.live) \in Nat
    BY <1>2, <2>2, SumIsOrdered
  <2> QED BY <2>1, <2>3 DEF ObservedRev
<1> QED BY <1>1, <1>2, <1>3, <1>4 DEF ObservedKey, Key, NoKey

\* What the coordinator decides.
LEMMA CoordinatorShape ==
  ASSUME ShapeInv, ReaderFits, QuietBegins \/ StaysQuiet \/ NotIdle
  PROVE  /\ SharedActivityTypeOK' /\ SameLeases
         /\ UNCHANGED <<leaseFile, toolCalls>> /\ reader' = RestingReader
<1>0. SharedActivityTypeOK /\ quiet \in [mark : Key, covered : BOOLEAN, installs : BOOLEAN,
                since : SUBSET ToolCallIds, old : SUBSET ToolCallIds]
  BY DEF ShapeInv, SharedActivityTypeOK
<1>1. UNCHANGED <<leaseFile, toolCalls>> /\ reader' = RestingReader
  BY DEF QuietBegins, StaysQuiet, NotIdle
<1>2. SameLeases
  <2>1. CASE UNCHANGED leases
    BY <1>0, <2>1 DEF SameLeases, SharedActivityTypeOK
  <2>2. CASE leases' = [l \in Leases |-> [leases[l] EXCEPT !.beat = "no"]]
    BY <1>0, <2>2, BeatForgotten
  <2> QED BY <2>1, <2>2 DEF QuietBegins, StaysQuiet, NotIdle
<1>3. quiet' \in [mark : Key, covered : BOOLEAN, installs : BOOLEAN,
                since : SUBSET ToolCallIds, old : SUBSET ToolCallIds]
  <2>1. CASE QuietBegins
    <3>1. ObservedKey \in Key
      BY <1>0, <2>1, ObservedType DEF QuietBegins, FoundIdle
    <3>2. RunningCalls \in SUBSET ToolCallIds
      BY DEF RunningCalls
    <3>3. quiet' = [quiet EXCEPT !.mark = ObservedKey, !.since = RunningCalls]
      BY <2>1 DEF QuietBegins
    <3> QED BY <1>0, <3>1, <3>2, <3>3
  <2>2. CASE StaysQuiet
    BY <1>0, <2>2 DEF StaysQuiet
  <2>3. CASE NotIdle
    <3>1. NoKey \in Key
      BY DEF NoKey, Key
    <3> QED BY <1>0, <2>3, <3>1 DEF NotIdle
  <2> QED BY <2>1, <2>2, <2>3
<1>4. RestingReader \in Reader
  BY RestingReaderType
<1> QED BY <1>0, <1>1, <1>2, <1>3, <1>4 DEF SharedActivityTypeOK, SameLeases

\* The shape is kept by every step.
LEMMA ShapeStep ==
  ASSUME ShapeInv, ReaderFits, SharedActivityNext
  PROVE  ShapeInv'
<1>1. ASSUME NEW l \in Leases, LeaseKind(l) PROVE ShapeInv'
  BY <1>1, EnqueueShape, VanishShape, MoveShape, PublishShape, OpEndsShape DEF LeaseKind
<1>2. CASE LookBegins \/ ReadLease \/ JudgeLease \/ MoveStale \/ CompareStale
  <2>1. SharedActivityTypeOK' /\ UNCHANGED <<leases, toolCalls>>
    BY <1>2, ReaderShape
  <2>2. SameLeases
    BY <2>1 DEF SameLeases, ShapeInv, SharedActivityTypeOK
  <2> QED BY <2>1, <2>2, SameLeasesShape DEF ShapeInv
<1>3. CASE QuietBegins \/ StaysQuiet \/ NotIdle
  BY <1>3, CoordinatorShape, SameLeasesShape DEF ShapeInv
<1>4. \/ QuietBegins \/ StaysQuiet \/ NotIdle
      \/ \E l \in Due : OpBegins(l)
      \/ ActivityStep
  BY DEF SharedActivityNext
<1> QED BY <1>1, <1>2, <1>3, <1>4, ActivityLeaseKinds DEF ActivityStep

\* The head of a chain is the same after something was added to it.
LEMMA HeadStays ==
  ASSUME ShapeInv, NEW l \in Leases, NEW op \in LeaseOp, Enqueues(l, op), leases[l].queue # <<>>
  PROVE  Head(leases'[l].queue) = Head(leases[l].queue)
<1>1. PICK q, r : q = leases[l].queue /\ r = leases'[l].queue
  OBVIOUS
<1>2. q \in Seq(LeaseOp) /\ q # <<>>
  BY <1>1, LeaseTypes DEF ShapeInv, LeaseRecord
<1>3. r = Append(q, op)
  BY <1>1 DEF Enqueues
<1>4. r \in Seq(LeaseOp) /\ r # <<>> /\ \A i \in 1 .. Len(q) : r[i] = q[i]
  BY <1>2, <1>3, AppendProperties
<1> QED BY <1>1, <1>2, <1>4, HeadOp

\* The numbers a floor compares.
LEMMA FloorTypes ==
  ASSUME SharedActivityTypeOK, NEW l \in Leases
  PROVE  /\ leases[l].rev \in Nat /\ leases[l].count \in Nat
         /\ leases[l].next \in LeaseSnapshot /\ leases[l].next.rev \in Nat /\ leases[l].next.count \in Nat
         /\ leases[l].next # NoSnapshot
         /\ leases[l].life \in {"new", "open", "closed", "gone"} /\ leases[l].missed \in BOOLEAN
         /\ leases[l].at \in {"rest", "first", "publish", "moved"}
         /\ leaseFile[l] \in LeaseSnapshot \cup {NoSnapshot} /\ leaseFile[l].rev \in Int
         /\ reader.found[l] \in LeaseSnapshot \cup {NoSnapshot} /\ reader.found[l].rev \in Int
<1>1. leases[l] \in LeaseRecord
  BY LeaseTypes
<1>2. leases[l].next \in LeaseSnapshot
  BY <1>1 DEF LeaseRecord
<1>3. leases[l].next.rev \in Nat /\ leases[l].next.count \in Nat /\ leases[l].next # NoSnapshot
  BY <1>2 DEF LeaseSnapshot, NoSnapshot
<1>4. leaseFile[l] \in LeaseSnapshot \cup {NoSnapshot} /\ reader.found[l] \in LeaseSnapshot \cup {NoSnapshot}
  BY DEF SharedActivityTypeOK, Reader
<1> QED BY <1>1, <1>2, <1>3, <1>4, SnapshotTypes DEF LeaseRecord

\* What the step of another lease leaves alone.
LEMMA OtherLease ==
  ASSUME ShapeInv, NEW l \in Leases, LeaseKind(l), NEW m \in Leases, m # l
  PROVE  /\ leases'[m] = leases[m] /\ leaseFile'[m] = leaseFile[m]
<1>1. leaseFile \in [Leases -> LeaseSnapshot \cup {NoSnapshot}]
  BY DEF ShapeInv, SharedActivityTypeOK
<1>2. \/ UNCHANGED leaseFile
      \/ \E s : leaseFile' = [leaseFile EXCEPT ![l] = s]
  BY DEF LeaseKind, Enqueues, Vanishes, Moves, Publishes, OpEnds
<1>3. LeaseOnly(l)
  BY DEF LeaseKind, Enqueues, Vanishes, Moves, Publishes, OpEnds
<1> QED BY <1>1, <1>2, <1>3 DEF LeaseOnly

\* Nor does the step of a lease change what was read.
LEMMA LeaseReading ==
  ASSUME NEW l \in Leases, LeaseKind(l)
  PROVE  /\ reader'.at = reader.at /\ reader'.todo = reader.todo /\ reader'.found = reader.found
         /\ reader'.live = reader.live /\ reader'.target = reader.target /\ reader'.aside = reader.aside
BY DEF LeaseKind, Enqueues, Vanishes, Moves, Publishes, OpEnds, SameReading

\* A floor stays one, of the lease itself,
LEMMA LeaseFloorKept ==
  ASSUME ShapeInv, NEW l \in Leases, LeaseKind(l), NEW n \in Int,
         leases[l].life # "new", LeaseFloor(n, l),
         leaseFile[l] # NoSnapshot => n <= leaseFile[l].rev
  PROVE  /\ leases'[l].life # "new" /\ LeaseFloor(n, l)'
         /\ leaseFile'[l] # NoSnapshot => n <= leaseFile'[l].rev
<1> DEFINE L == leases[l]
           M == leases'[l]
           FileFloor == leaseFile'[l] # NoSnapshot => n <= leaseFile'[l].rev
<1>0. /\ SharedActivityTypeOK /\ LeaseFits(l)
      /\ leaseFile \in [Leases -> LeaseSnapshot \cup {NoSnapshot}]
  BY DEF ShapeInv, SharedActivityTypeOK
<1>1. L.rev \in Nat /\ L.next.rev \in Nat /\ L.at \in {"rest", "first", "publish", "moved"}
      /\ L.life \in {"new", "open", "closed", "gone"}
  BY <1>0, FloorTypes
<1>2. ASSUME NEW op \in LeaseOp, Enqueues(l, op)
      PROVE  M.life # "new" /\ LeaseFloor(n, l)' /\ FileFloor
  <2>1. M.rev = L.rev /\ M.at = L.at /\ M.next = L.next /\ L.life \in {"open", "closed"}
        /\ M.life \in {"open", "closed"} /\ UNCHANGED leaseFile
    BY <1>2 DEF Enqueues
  <2>2. L.at # "rest" => Head(M.queue) = Head(L.queue)
    BY <1>0, <1>2, HeadStays DEF LeaseFits
  <2> QED BY <2>1, <2>2 DEF LeaseFloor
<1>3. ASSUME Vanishes(l)
      PROVE  M.life # "new" /\ LeaseFloor(n, l)' /\ FileFloor
  <2>1. M.life = "gone"
    BY <1>0, <1>3 DEF Vanishes, Ends, SharedActivityTypeOK, NewLease
  <2>2. FileFloor
    BY <1>0, <1>1, <1>3 DEF Vanishes, LeaseFloor
  <2> QED BY <2>1, <2>2 DEF LeaseFloor
<1>4. ASSUME Moves(l)
      PROVE  M.life # "new" /\ LeaseFloor(n, l)' /\ FileFloor
  BY <1>0, <1>4 DEF Moves, LeaseFloor
<1>5. ASSUME Publishes(l)
      PROVE  M.life # "new" /\ LeaseFloor(n, l)' /\ FileFloor
  <2>1. L.life \in {"open", "closed"} /\ M.life = L.life /\ M.queue = L.queue
        /\ M.next = [count |-> M.count, rev |-> M.rev] /\ M.at \in {"first", "publish"}
    BY <1>5 DEF Publishes
  <2>2. \/ M.at = "first" /\ M.rev = L.rev
        \/ M.at = "publish" /\ M.rev \in {L.rev, L.rev + 1} /\ (Head(L.queue).kind = "start" => M.rev = L.rev + 1)
    <3>1. Head(L.queue).kind \in {"init", "refresh", "close", "start", "end"}
      BY <1>5, HeadFits DEF Publishes
    <3> QED BY <1>5, <3>1 DEF Publishes
  <2>3. n <= L.rev
    BY <2>1 DEF LeaseFloor
  <2>4. M.next.rev = M.rev
    BY <2>1
  <2>5. LeaseFloor(n, l)'
    BY <1>1, <2>1, <2>2, <2>3, <2>4 DEF LeaseFloor
  <2>6. FileFloor
    BY <1>0, <1>5, <2>1 DEF Publishes, LeaseFloor
  <2> QED BY <2>1, <2>5, <2>6
<1>6. ASSUME NEW published \in BOOLEAN, OpEnds(l, published)
      PROVE  M.life # "new" /\ LeaseFloor(n, l)' /\ FileFloor
  <2>1. L.life \in {"open", "closed"} /\ M.life = L.life /\ M.rev = L.rev /\ M.at = "rest"
    BY <1>6 DEF OpEnds
  <2>2. FileFloor
    BY <1>0, <1>6, <2>1 DEF OpEnds, LeaseFloor
  <2> QED BY <2>1, <2>2 DEF LeaseFloor
<1> QED BY <1>2, <1>3, <1>4, <1>5, <1>6 DEF LeaseKind

\* and of what lies on the disk.
LEMMA FloorKeptByLease ==
  ASSUME ShapeInv, NEW l \in Leases, LeaseKind(l), NEW n \in Int, NEW m \in Leases, Floor(n, m)
  PROVE  Floor(n, m)'
<1>1. CASE m = l
  BY <1>1, LeaseFloorKept, LeaseReading DEF Floor
<1>2. CASE m # l
  BY <1>2, OtherLease, LeaseReading DEF Floor, LeaseFloor
<1> QED BY <1>1, <1>2

\* The reader puts nothing in a place that was not there.
LEMMA FloorKeptByReader ==
  ASSUME ShapeInv, ReaderFits, LookBegins \/ ReadLease \/ JudgeLease \/ MoveStale \/ CompareStale,
         NEW n \in Int, NEW m \in Leases, Floor(n, m)
  PROVE  Floor(n, m)'
<1>0. UNCHANGED leases /\ leaseFile \in [Leases -> LeaseSnapshot \cup {NoSnapshot}] /\ reader \in Reader
  BY ReaderShape DEF ShapeInv, SharedActivityTypeOK
<1>1. LeaseFloor(n, m)' /\ leases'[m].life # "new"
  BY <1>0 DEF LeaseFloor, Floor
<1>2. CASE LookBegins \/ ReadLease \/ JudgeLease
  <2>1. UNCHANGED leaseFile /\ reader'.at # "compare"
    <3>1. CASE LookBegins
      BY <3>1 DEF LookBegins, RestingReader
    <3>2. CASE ReadLease
      BY <1>0, <3>2 DEF ReadLease, RestingReader, Reader
    <3>3. CASE JudgeLease
      BY <1>0, <3>3 DEF JudgeLease, RestingReader, Reader
    <3> QED BY <1>2, <3>1, <3>2, <3>3
  <2> QED BY <1>1, <2>1 DEF Floor
<1>3. CASE MoveStale
  <2>1. CASE leaseFile[reader.target] = NoSnapshot
    <3>1. reader'.at = "fails" /\ UNCHANGED leaseFile
      BY <1>3, <2>1 DEF MoveStale, RestingReader
    <3> QED BY <1>1, <3>1 DEF Floor
  <2>2. CASE leaseFile[reader.target] # NoSnapshot
    <3>1. reader'.at = "compare" /\ reader'.target = reader.target /\ reader'.aside = leaseFile[reader.target]
      BY <1>0, <1>3, <2>2 DEF MoveStale, Reader
    <3>2. leaseFile' = [leaseFile EXCEPT ![reader.target] = NoSnapshot]
      BY <1>3, <2>2 DEF MoveStale
    <3>3. leaseFile'[m] # NoSnapshot => leaseFile'[m] = leaseFile[m]
      BY <1>0, <3>2
    <3> QED BY <1>1, <2>2, <3>1, <3>3 DEF Floor
  <2> QED BY <2>1, <2>2
<1>4. CASE CompareStale
  <2>1. reader.at = "compare" /\ reader'.at # "compare"
    BY <1>0, <1>4 DEF CompareStale, RestingReader, Reader
  <2>2. leaseFile'[m] = leaseFile[m] \/ (m = reader.target /\ leaseFile'[m] = reader.aside)
    BY <1>0, <1>4 DEF CompareStale
  <2> QED BY <1>1, <2>1, <2>2 DEF Floor
<1> QED BY <1>2, <1>3, <1>4

\* The coordinator only looks.
LEMMA FloorKeptByCoordinator ==
  ASSUME ShapeInv, ReaderFits, QuietBegins \/ StaysQuiet \/ NotIdle, NEW n \in Int, NEW m \in Leases, Floor(n, m)
  PROVE  Floor(n, m)'
<1>1. SameLeases /\ UNCHANGED leaseFile /\ reader' = RestingReader
  BY CoordinatorShape
<1> QED BY <1>1 DEF SameLeases, Floor, LeaseFloor, RestingReader

\* The floors of a lease after a step, of the numbers they are about.
LEMMA FileFitsAfter ==
  ASSUME NEW m \in Leases, NEW n, NEW p, n = leaseFile'[m].rev, p = reader'.found[m].rev,
         leaseFile'[m] # NoSnapshot => leases'[m].life # "new" /\ LeaseFloor(n, m)',
         reader'.found[m] # NoSnapshot => Floor(p, m)'
  PROVE  FileFits(m)'
BY DEF FileFits, LeaseFloor, Floor

\* What a lease publishes is a floor of it.
LEMMA FileFitsLease ==
  ASSUME ShapeInv, NEW l \in Leases, LeaseKind(l), NEW m \in Leases, FileFits(m)
  PROVE  FileFits(m)'
<1> DEFINE L == leases[l]
           M == leases'[l]
<1>0. /\ SharedActivityTypeOK /\ LeaseFits(l)
      /\ leaseFile \in [Leases -> LeaseSnapshot \cup {NoSnapshot}]
  BY DEF ShapeInv, SharedActivityTypeOK
<1>1. PICK p \in Int : p = reader.found[m].rev
  BY <1>0, FloorTypes
<1>2. reader.found[m] # NoSnapshot => Floor(p, m)'
  <2>1. reader.found[m] # NoSnapshot => Floor(p, m)
    BY <1>1 DEF FileFits, Floor, LeaseFloor
  <2> QED BY <2>1, FloorKeptByLease
<1>3. PICK n : n = leaseFile'[m].rev
  OBVIOUS
<1>4. leaseFile'[m] # NoSnapshot => leases'[m].life # "new" /\ LeaseFloor(n, m)'
  <2>1. CASE m # l
    BY <1>3, <2>1, OtherLease DEF FileFits, LeaseFloor
  <2>2. CASE m = l /\ leaseFile'[l] = leaseFile[l]
    <3>1. n \in Int
      BY <1>0, <1>3, <2>2, FloorTypes
    <3>2. leaseFile[l] # NoSnapshot => LeaseFloor(n, l) /\ leases[l].life # "new"
      BY <1>3, <2>2 DEF FileFits, LeaseFloor
    <3>3. leaseFile[l] # NoSnapshot => leases'[l].life # "new" /\ LeaseFloor(n, l)'
      BY <1>3, <2>2, <3>1, <3>2, LeaseFloorKept
    <3> QED BY <2>2, <3>3
  <2>3. CASE m = l /\ leaseFile'[l] # leaseFile[l]
    <3>1. Vanishes(l) \/ Moves(l) \/ Publishes(l) \/ OpEnds(l, TRUE)
      BY <2>3 DEF LeaseKind, Enqueues, OpEnds
    <3>2. CASE Vanishes(l)
      <4>1. M.life = "gone"
        BY <1>0, <3>2 DEF Vanishes, Ends, SharedActivityTypeOK, NewLease
      <4> QED BY <2>3, <4>1 DEF LeaseFloor
    <3>3. CASE Moves(l)
      BY <1>0, <2>3, <3>3 DEF Moves
    <3>4. CASE Publishes(l)
      <4>1. leaseFile'[l] = L.next /\ L.at = "first" /\ L.life \in {"open", "closed"}
            /\ M.life = L.life /\ M.queue = L.queue /\ M.at = "publish"
            /\ M.next = [count |-> M.count, rev |-> M.rev]
        BY <1>0, <2>3, <3>4 DEF Publishes
      <4>2. L.next.rev = L.rev /\ L.rev \in Nat
        BY <1>0, <4>1, FloorTypes DEF LeaseFits
      <4>3. M.rev \in {L.rev, L.rev + 1} /\ (Head(L.queue).kind = "start" => M.rev = L.rev + 1)
        <5>1. Head(L.queue).kind \in {"init", "refresh", "close", "start", "end"}
          BY <3>4, HeadFits DEF Publishes
        <5> QED BY <3>4, <4>1, <5>1 DEF Publishes
      <4>4. M.next.rev = M.rev /\ n = L.rev
        BY <1>3, <2>3, <4>1, <4>2
      <4> QED BY <2>3, <4>1, <4>2, <4>3, <4>4 DEF LeaseFloor
    <3>5. CASE OpEnds(l, TRUE)
      <4>1. leaseFile'[l] = L.next /\ L.at \in {"first", "publish"} /\ L.life \in {"open", "closed"}
            /\ M.life = L.life /\ M.at = "rest" /\ M.rev = L.rev
        BY <1>0, <2>3, <3>5 DEF OpEnds
      <4>2. L.next.rev = L.rev /\ L.rev \in Nat
        BY <1>0, <4>1, FloorTypes DEF LeaseFits
      <4>3. n = L.rev
        BY <1>3, <2>3, <4>1, <4>2
      <4> QED BY <2>3, <4>1, <4>2, <4>3 DEF LeaseFloor
    <3> QED BY <3>1, <3>2, <3>3, <3>4, <3>5
  <2> QED BY <2>1, <2>2, <2>3
<1>5. reader'.found[m] = reader.found[m]
  BY LeaseReading
<1> QED BY <1>1, <1>2, <1>3, <1>4, <1>5, FileFitsAfter

\* A lease whose process may be gone will not open again.
LEMMA ReaderFitsLease ==
  ASSUME ShapeInv, ReaderFits, NEW l \in Leases, LeaseKind(l)
  PROVE  ReaderFits'
<1>1. reader \in Reader /\ reader.aside \in LeaseSnapshot \cup {NoSnapshot} /\ reader.aside.rev \in Int
  BY SnapshotTypes DEF ShapeInv, SharedActivityTypeOK, Reader
<1>2. ASSUME NEW m \in Leases, leases[m].life \in {"closed", "gone"}
      PROVE  leases'[m].life \in {"closed", "gone"}
  <2>1. CASE m # l
    BY <1>2, <2>1, OtherLease
  <2>2. CASE m = l
    <3>1. Vanishes(l) => leases'[l].life = "gone"
      BY DEF Vanishes, Ends, ShapeInv, SharedActivityTypeOK, NewLease
    <3>2. ~Vanishes(l) => leases'[l].life = leases[l].life
      BY <1>2, <2>2 DEF LeaseKind, Enqueues, Moves, Publishes, OpEnds
    <3> QED BY <1>2, <2>2, <3>1, <3>2
  <2> QED BY <2>1, <2>2
<1>3. reader.at \in {"move", "compare"} =>
        reader.target \in Leases /\ leases'[reader.target].life \in {"closed", "gone"}
  BY <1>1, <1>2 DEF ReaderFits, Reader
<1>4. PICK n, t : n \in Int /\ n = reader.aside.rev /\ t = reader.target
  BY <1>1
<1>5. reader.at = "compare" => Floor(n, t)'
  <2>1. reader.at = "compare" => Floor(n, t) /\ t \in Leases
    BY <1>3, <1>4 DEF ReaderFits, Floor, LeaseFloor
  <2>2. n \in Int
    BY <1>4
  <2>3. ASSUME t \in Leases, Floor(n, t) PROVE Floor(n, t)'
    BY <2>2, <2>3, FloorKeptByLease
  <2> QED BY <2>1, <2>3
<1> QED BY <1>3, <1>4, <1>5, LeaseReading DEF ReaderFits, Floor, LeaseFloor

\* What the reader has at hand after each step.
LEMMA ReaderFitsReader ==
  ASSUME ShapeInv, ReaderFits, \A l \in Leases : FileFits(l),
         LookBegins \/ ReadLease \/ JudgeLease \/ MoveStale \/ CompareStale
  PROVE  ReaderFits' /\ \A l \in Leases : FileFits(l)'
<1> DEFINE Resting == reader'.at \in {"rest", "fails"} /\ reader'.todo = {} /\ reader'.live = {}
                      /\ \A l \in Leases : reader'.found[l] = NoSnapshot
<1>0. UNCHANGED leases /\ leaseFile \in [Leases -> LeaseSnapshot \cup {NoSnapshot}] /\ reader \in Reader
      /\ reader.found \in [Leases -> LeaseSnapshot \cup {NoSnapshot}] /\ reader.todo \in SUBSET Leases
      /\ reader.live \in SUBSET Leases /\ SharedActivityTypeOK
  BY ReaderShape DEF ShapeInv, SharedActivityTypeOK, Reader
<1>1. ASSUME NEW m \in Leases, leaseFile'[m] = leaseFile[m] \/ leaseFile'[m] = NoSnapshot,
             reader'.found[m] = reader.found[m] \/ reader'.found[m] = NoSnapshot
      PROVE  FileFits(m)'
  <2>1. PICK n, p : n = leaseFile'[m].rev /\ p = reader'.found[m].rev
    OBVIOUS
  <2>2. leaseFile'[m] # NoSnapshot => leases'[m].life # "new" /\ LeaseFloor(n, m)'
    BY <1>0, <1>1, <2>1 DEF FileFits, LeaseFloor
  <2>3. ASSUME reader'.found[m] # NoSnapshot PROVE Floor(p, m)'
    <3>1. p \in Int /\ Floor(p, m)
      BY <1>0, <1>1, <2>1, <2>3, FloorTypes DEF FileFits, Floor, LeaseFloor
    <3> QED BY <3>1, FloorKeptByReader
  <2> QED BY <2>1, <2>2, <2>3, FileFitsAfter
<1>2. ASSUME reader' = [RestingReader EXCEPT !.at = "fails"] PROVE Resting /\ reader'.at # "compare"
  BY <1>2 DEF RestingReader
<1>3. Resting => ReaderFits'
  BY DEF ReaderFits
<1>4. CASE LookBegins
  <2>1. PICK at \in {"read", "judge"} : reader' = [RestingReader EXCEPT !.todo = Present, !.at = at]
                                        /\ (Present = {} => at = "judge") /\ (Present # {} => at = "read")
    BY <1>4 DEF LookBegins
  <2>2. /\ reader'.todo = Present /\ reader'.at = at /\ reader'.live = {}
        /\ \A l \in Leases : reader'.found[l] = NoSnapshot
    BY <2>1 DEF RestingReader
  <2>3. UNCHANGED leaseFile
    BY <1>4 DEF LookBegins
  <2>4. ReaderFits'
    BY <2>1, <2>2 DEF ReaderFits
  <2> QED BY <1>1, <2>2, <2>3, <2>4
<1>5. CASE ReadLease
  <2>1. CASE reader' = [RestingReader EXCEPT !.at = "fails"]
    <3>1. UNCHANGED leaseFile
      BY <1>5 DEF ReadLease
    <3> QED BY <1>1, <1>2, <1>3, <2>1, <3>1
  <2>2. CASE reader' # [RestingReader EXCEPT !.at = "fails"]
    <3>1. PICK next, found, rest : /\ next = NextLease /\ found = [reader.found EXCEPT ![next] = leaseFile[next]]
                                   /\ rest = reader.todo \ {next}
      OBVIOUS
    <3>2. reader' = [reader EXCEPT !.found = found, !.same = reader.same \cup {next},
                                   !.at = IF rest = {} THEN "judge" ELSE "read",
                                   !.todo = IF rest = {} THEN Readable(found) ELSE rest]
          /\ UNCHANGED leaseFile /\ reader.at = "read"
      BY <1>5, <2>2, <3>1 DEF ReadLease
    <3>3. next \in reader.todo /\ next \in Leases
      BY <1>0, <3>1, <3>2, NextIsLeft DEF NextLease, ReaderFits
    <3>4. /\ reader'.found = found /\ reader'.live = {}
          /\ reader'.at = IF rest = {} THEN "judge" ELSE "read"
          /\ reader'.todo = IF rest = {} THEN Readable(found) ELSE rest
      BY <1>0, <3>2 DEF Reader, ReaderFits
    <3>5. ReaderFits'
      BY <3>4 DEF ReaderFits, Readable
    <3>6. ASSUME NEW m \in Leases PROVE FileFits(m)'
      <4>1. CASE m # next
        BY <1>0, <1>1, <3>1, <3>2, <3>4, <4>1
      <4>2. CASE m = next
        <5>1. leaseFile[m] # NoSnapshot => leases[m].life # "new" /\ LeaseFloor(leaseFile[m].rev, m)
          BY DEF FileFits
        <5>2. reader'.found[m] = leaseFile[m] /\ leaseFile'[m] = leaseFile[m] /\ reader'.at # "compare"
          BY <1>0, <3>1, <3>2, <3>4, <4>2
        <5>3. leaseFile[m].rev \in Int
          BY <1>0, FloorTypes
        <5> QED BY <1>0, <5>1, <5>2, <5>3 DEF FileFits, Floor, LeaseFloor
      <4> QED BY <4>1, <4>2
    <3> QED BY <3>5, <3>6
  <2> QED BY <2>1, <2>2
<1>6. CASE JudgeLease
  <2>0. UNCHANGED leaseFile /\ reader.at = "judge" /\ NextLease \in reader.todo
    BY <1>0, <1>6, NextIsLeft DEF JudgeLease, NextLease
  <2>1. CASE reader' = [RestingReader EXCEPT !.at = "fails"]
    BY <1>1, <1>2, <1>3, <2>0, <2>1
  <2>2. CASE MayBeStale(NextLease) /\ reader' = [reader EXCEPT !.at = "move", !.target = NextLease]
    <3>1. /\ reader'.at = "move" /\ reader'.target = NextLease /\ reader'.found = reader.found
          /\ reader'.todo = reader.todo /\ reader'.live = reader.live
      BY <1>0, <2>2 DEF Reader
    <3>2. ReaderFits'
      BY <1>0, <2>0, <2>2, <3>1 DEF ReaderFits, MayBeStale
    <3> QED BY <1>1, <2>0, <3>1, <3>2
  <2>3. CASE reader' = [reader EXCEPT !.todo = reader.todo \ {NextLease}, !.live = reader.live \cup {NextLease},
                                      !.same = reader.same \ {NextLease}]
    <3>1. /\ reader'.at = "judge" /\ reader'.found = reader.found
          /\ reader'.todo = reader.todo \ {NextLease} /\ reader'.live = reader.live \cup {NextLease}
      BY <1>0, <2>0, <2>3 DEF Reader
    <3>2. ReaderFits'
      BY <1>0, <2>0, <3>1 DEF ReaderFits
    <3> QED BY <1>1, <2>0, <3>1, <3>2
  <2> QED BY <1>6, <2>1, <2>2, <2>3 DEF JudgeLease
<1>7. CASE MoveStale
  <2>1. CASE leaseFile[reader.target] = NoSnapshot
    <3>1. reader' = [RestingReader EXCEPT !.at = "fails"] /\ UNCHANGED leaseFile
      BY <1>7, <2>1 DEF MoveStale
    <3> QED BY <1>1, <1>2, <1>3, <3>1
  <2>2. CASE leaseFile[reader.target] # NoSnapshot
    <3>1. reader' = [reader EXCEPT !.at = "compare", !.aside = leaseFile[reader.target]]
          /\ leaseFile' = [leaseFile EXCEPT ![reader.target] = NoSnapshot] /\ reader.at = "move"
      BY <1>7, <2>2 DEF MoveStale
    <3>2. /\ reader'.at = "compare" /\ reader'.target = reader.target /\ reader'.found = reader.found
          /\ reader'.todo = reader.todo /\ reader'.live = reader.live
          /\ reader'.aside = leaseFile[reader.target]
      BY <1>0, <3>1 DEF Reader
    <3>3. \A m \in Leases : leaseFile'[m] = leaseFile[m] \/ leaseFile'[m] = NoSnapshot
      BY <1>0, <3>1
    <3>4. reader.target \in Leases /\ leaseFile'[reader.target] = NoSnapshot
      BY <1>0, <3>1 DEF ReaderFits
    <3>5. leases[reader.target].life # "new" /\ LeaseFloor(leaseFile[reader.target].rev, reader.target)
      BY <2>2, <3>4 DEF FileFits
    <3>6. leaseFile[reader.target].rev \in Int
      BY <1>0, <3>4, FloorTypes
    <3>7. PICK n, t : n \in Int /\ n = leaseFile[t].rev /\ t = reader.target
      BY <3>6
    <3>8. Floor(n, t)'
      BY <1>0, <3>2, <3>4, <3>5, <3>7 DEF Floor, LeaseFloor
    <3>9. ReaderFits'
      BY <1>0, <2>2, <3>1, <3>2, <3>7, <3>8 DEF ReaderFits, Floor, LeaseFloor
    <3> QED BY <1>1, <3>2, <3>3, <3>9
  <2> QED BY <2>1, <2>2
<1>8. CASE CompareStale
  <2>1. reader.target \in Leases /\ reader.target \in reader.todo /\ reader.at = "compare"
    BY <1>0, <1>8 DEF CompareStale, ReaderFits
  <2>2. CASE reader.target \in reader.same
    <3>1. PICK found, todo, same :
            /\ found = [reader.found EXCEPT ![reader.target] = NoSnapshot]
            /\ todo = reader.todo \ {reader.target} /\ same = reader.same \ {reader.target}
      OBVIOUS
    <3>2. reader' = [reader EXCEPT !.at = "judge", !.todo = todo, !.same = same, !.target = 0,
                                   !.found = found, !.aside = NoSnapshot]
          /\ UNCHANGED leaseFile
      BY <1>8, <2>2, <3>1 DEF CompareStale
    <3>3. reader'.at = "judge" /\ reader'.found = found /\ reader'.todo = todo /\ reader'.live = reader.live
      BY <1>0, <3>2 DEF Reader
    <3>4. ReaderFits'
      BY <1>0, <2>1, <3>1, <3>3 DEF ReaderFits
    <3>5. \A m \in Leases : reader'.found[m] = reader.found[m] \/ reader'.found[m] = NoSnapshot
      BY <1>0, <3>1, <3>3
    <3> QED BY <1>1, <3>2, <3>4, <3>5
  <2>3. CASE reader.target \notin reader.same
    <3>1. leaseFile' = [leaseFile EXCEPT ![reader.target] = reader.aside]
          /\ reader' = [RestingReader EXCEPT !.at = "fails"]
      BY <1>8, <2>3 DEF CompareStale
    <3>2. ASSUME NEW m \in Leases PROVE FileFits(m)'
      <4>1. CASE m # reader.target
        BY <1>0, <1>1, <1>2, <3>1, <4>1
      <4>2. CASE m = reader.target
        <5>1. leases[m].life # "new" /\ LeaseFloor(reader.aside.rev, m)
          BY <2>1, <4>2 DEF ReaderFits, Floor
        <5>2. leaseFile'[m] = reader.aside /\ reader'.found[m] = NoSnapshot
          BY <1>0, <1>2, <3>1, <4>2
        <5> QED BY <1>0, <5>1, <5>2 DEF FileFits, LeaseFloor
      <4> QED BY <4>1, <4>2
    <3> QED BY <1>2, <1>3, <3>1, <3>2
  <2> QED BY <2>2, <2>3
<1> QED BY <1>4, <1>5, <1>6, <1>7, <1>8

\* After the coordinator's decision nothing is at hand.
LEMMA ReaderFitsCoordinator ==
  ASSUME ShapeInv, ReaderFits, \A l \in Leases : FileFits(l), QuietBegins \/ StaysQuiet \/ NotIdle
  PROVE  ReaderFits' /\ \A l \in Leases : FileFits(l)'
<1>1. SameLeases /\ UNCHANGED leaseFile /\ reader' = RestingReader
  BY CoordinatorShape
<1> QED BY <1>1 DEF SameLeases, FileFits, ReaderFits, LeaseFloor, RestingReader

-----------------------------------------------------------------------------
(* What a lease counts                                                    *)

\* The publication on its way is about this call.
IsPublished(l, kind, k) ==
  /\ leases[l].at = "publish"
  /\ Head(leases[l].queue).kind = kind /\ Head(leases[l].queue).call = k

\* The calls that the counter of a lease is about.
CountedCalls(l) == {k \in ToolCallIds :
  /\ toolCalls[k].lease = l
  /\ \/ toolCalls[k].at = "begins" /\ IsPublished(l, "start", k)
     \/ toolCalls[k].at = "runs"
     \/ toolCalls[k].at = "ends" /\ ~IsPublished(l, "end", k)}

\* The counter never falls behind them.
CountFits(l) == Reliable(l) => Cardinality(CountedCalls(l)) <= leases[l].count

\* They are finitely many.
LEMMA CountedFinite ==
  ASSUME NEW S \in SUBSET ToolCallIds
  PROVE  IsFiniteSet(S) /\ Cardinality(S) \in Nat /\ \A T \in SUBSET S : IsFiniteSet(T) /\ Cardinality(T) <= Cardinality(S)
<1>1. IsFiniteSet(ToolCallIds)
  BY SharedActivityAssumption, FS_Interval DEF ToolCallIds
<1>2. IsFiniteSet(S)
  BY <1>1, FS_Subset
<1> QED BY <1>2, FS_Subset, FS_CardinalityType

\* The calls of other leases are left alone.
LEMMA OtherCalls ==
  ASSUME ShapeInv, NEW l \in Leases, LeaseKind(l), NEW k \in ToolCallIds
  PROVE  toolCalls'[k] = toolCalls[k] \/ toolCalls'[k].lease = l
<1>0. SharedActivityTypeOK
  BY DEF ShapeInv
<1>1. ASSUME NEW op \in LeaseOp, Enqueues(l, op)
      PROVE  toolCalls'[k] = toolCalls[k] \/ toolCalls'[k].lease = l
  <2>1. CASE op.kind = "start"
    <3>1. toolCalls' = [toolCalls EXCEPT ![op.call] = [at |-> "begins", lease |-> l, shown |-> FALSE]]
      BY <1>1, <2>1 DEF Enqueues
    <3> QED BY <1>0, <3>1 DEF SharedActivityTypeOK
  <2>2. CASE op.kind = "end"
    <3>1. toolCalls' = [toolCalls EXCEPT ![op.call] = [toolCalls[op.call] EXCEPT !.at = "ends"]]
          /\ toolCalls[op.call].lease = l
      BY <1>1, <2>2 DEF Enqueues
    <3>2. op.call \in ToolCallIds /\ [toolCalls[op.call] EXCEPT !.at = "ends"].lease = l
      BY <1>0, <2>2, <3>1, OpTypes, CallTypes
    <3> QED BY <1>0, <3>1, <3>2 DEF SharedActivityTypeOK
  <2>3. CASE op.kind \notin {"start", "end"}
    BY <1>1, <2>3 DEF Enqueues
  <2> QED BY <2>1, <2>2, <2>3
<1>2. ASSUME Vanishes(l) PROVE toolCalls'[k] = toolCalls[k] \/ toolCalls'[k].lease = l
  <2>1. toolCalls'[k] = IF toolCalls[k].lease = l THEN [toolCalls[k] EXCEPT !.at = "done"] ELSE toolCalls[k]
    BY <1>2 DEF Vanishes, Ends
  <2> QED BY <1>0, <2>1, CallTypes
<1>3. ASSUME Moves(l) \/ Publishes(l) PROVE toolCalls'[k] = toolCalls[k]
  BY <1>3 DEF Moves, Publishes
<1>4. ASSUME NEW published \in BOOLEAN, OpEnds(l, published)
      PROVE  toolCalls'[k] = toolCalls[k] \/ toolCalls'[k].lease = l
  <2>1. PICK op : op = Head(leases[l].queue)
    OBVIOUS
  <2>2. op.kind \in {"start", "end"} => toolCalls[op.call].lease = l
    BY <1>4, <2>1, HeadFits DEF OpEnds
  <2>3. toolCalls'[k].lease = toolCalls[k].lease
        /\ (toolCalls'[k] # toolCalls[k] => op.kind \in {"start", "end"} /\ op.call = k)
    BY <1>4, <2>1, OpEndsCalls
  <2> QED BY <2>2, <2>3
<1> QED BY <1>1, <1>2, <1>3, <1>4 DEF LeaseKind

\* The counter is kept by every step of a lease.
LEMMA CountFitsLease ==
  ASSUME ShapeInv, NEW l \in Leases, LeaseKind(l), NEW m \in Leases, CountFits(m)
  PROVE  CountFits(m)'
<1> SUFFICES ASSUME Reliable(m)' PROVE Cardinality(CountedCalls(m)') <= leases'[m].count
  BY DEF CountFits
<1>0. SharedActivityTypeOK /\ leases[m].count \in Nat /\ leases' \in [Leases -> LeaseRecord]
  <2>1. LeaseOnly(l)
    BY DEF LeaseKind, Enqueues, Vanishes, Moves, Publishes, OpEnds
  <2> QED BY <2>1, FloorTypes DEF ShapeInv, LeaseOnly
<1>1. PICK C, D : C = CountedCalls(m) /\ D = CountedCalls(m)'
  OBVIOUS
<1>2. C \in SUBSET ToolCallIds /\ D \in SUBSET ToolCallIds
  BY <1>1 DEF CountedCalls
<1>3. /\ IsFiniteSet(C) /\ Cardinality(C) \in Nat
      /\ \A T \in SUBSET C : IsFiniteSet(T) /\ Cardinality(T) <= Cardinality(C)
      /\ IsFiniteSet(D) /\ Cardinality(D) \in Nat
  BY <1>2, CountedFinite
<1>4. ASSUME D \subseteq C, Reliable(m), leases'[m].count = leases[m].count
      PROVE  Cardinality(D) <= leases'[m].count
  <2>1. Cardinality(D) <= Cardinality(C)
    BY <1>3, <1>4
  <2>2. Cardinality(C) <= leases[m].count
    BY <1>1, <1>4 DEF CountFits
  <2> QED BY <1>0, <1>3, <1>4, <2>1, <2>2
<1>5. CASE m # l
  <2>1. leases'[m] = leases[m]
    BY <1>5, OtherLease
  <2>2. D \subseteq C
    BY <1>1, <1>5, <2>1, OtherCalls DEF CountedCalls, IsPublished
  <2> QED BY <1>1, <1>4, <2>1, <2>2 DEF Reliable
<1>6. CASE m = l
  <2> DEFINE L == leases[l]
             M == leases'[l]
  <2>0. M.life = "open" /\ M.missed = FALSE /\ L.missed \in BOOLEAN /\ LeaseFits(l)
        /\ L.at \in {"rest", "first", "publish", "moved"}
    BY <1>0, <1>6, FloorTypes DEF Reliable, ShapeInv
  <2>1. ASSUME NEW op \in LeaseOp, Enqueues(l, op), L.life = "new"
        PROVE  Cardinality(D) <= leases'[m].count
    <3>1. UNCHANGED toolCalls
      BY <2>1 DEF Enqueues
    <3>2. \A k \in ToolCallIds : toolCalls[k].at \in {"begins", "runs", "ends"} => toolCalls[k].lease # l
      BY <2>1 DEF ShapeInv, CallFits
    <3>3. D = {}
      BY <1>1, <1>6, <3>1, <3>2 DEF CountedCalls
    <3>4. leases'[m].count = leases[m].count
      BY <1>6, <2>1 DEF Enqueues
    <3> QED BY <1>0, <3>3, <3>4, FS_EmptySet
  <2>2. ASSUME NEW op \in LeaseOp, Enqueues(l, op), L.life # "new"
        PROVE  Cardinality(D) <= leases'[m].count
    <3>1. M.at = L.at /\ M.missed = L.missed /\ M.count = L.count /\ L.life = "open"
      BY <2>0, <2>2 DEF Enqueues
    <3>2. L.at # "rest" => L.queue # <<>> /\ Head(M.queue) = Head(L.queue)
      BY <2>0, <2>2, HeadStays DEF LeaseFits
    <3>3. ASSUME NEW k \in D PROVE k \in C
      <4>1. k \in ToolCallIds /\ toolCalls'[k].lease = l
            /\ \/ toolCalls'[k].at = "begins" /\ IsPublished(l, "start", k)'
               \/ toolCalls'[k].at = "runs"
               \/ toolCalls'[k].at = "ends" /\ ~IsPublished(l, "end", k)'
        BY <1>1, <1>6 DEF CountedCalls
      <4>2. IsPublished(l, "start", k)' <=> IsPublished(l, "start", k)
        BY <3>1, <3>2 DEF IsPublished
      <4>3. IsPublished(l, "end", k)' <=> IsPublished(l, "end", k)
        BY <3>1, <3>2 DEF IsPublished
      <4>4. CASE toolCalls'[k] = toolCalls[k]
        BY <1>1, <1>6, <4>1, <4>2, <4>3, <4>4 DEF CountedCalls
      <4>5. CASE toolCalls'[k] # toolCalls[k] /\ op.kind = "start"
        <5>1. /\ toolCalls' = [toolCalls EXCEPT ![op.call] = [at |-> "begins", lease |-> l, shown |-> FALSE]]
              /\ toolCalls[op.call].at = "none"
          BY <2>2, <4>5 DEF Enqueues
        <5>2. toolCalls[k].at = "none" /\ toolCalls'[k].at = "begins"
          BY <1>0, <4>1, <4>5, <5>1 DEF SharedActivityTypeOK
        <5>3. IsPublished(l, "start", k)
          BY <4>1, <4>2, <5>2
        <5>4. toolCalls[k].at = "begins"
          BY <3>2, <5>3, HeadFits DEF IsPublished
        <5> QED BY <5>2, <5>4
      <4>6. CASE toolCalls'[k] # toolCalls[k] /\ op.kind = "end"
        <5>1. toolCalls' = [toolCalls EXCEPT ![op.call] = [toolCalls[op.call] EXCEPT !.at = "ends"]]
              /\ toolCalls[op.call].lease = l /\ toolCalls[op.call].at = "runs"
          BY <2>2, <4>6 DEF Enqueues
        <5>2. k = op.call
          BY <1>0, <4>1, <4>6, <5>1 DEF SharedActivityTypeOK
        <5> QED BY <1>1, <1>6, <4>1, <5>1, <5>2 DEF CountedCalls
      <4>7. op.kind \notin {"start", "end"} => toolCalls' = toolCalls
        BY <2>2 DEF Enqueues
      <4> QED BY <4>4, <4>5, <4>6, <4>7
    <3>4. Reliable(m)
      BY <1>6, <2>0, <3>1 DEF Reliable
    <3> QED BY <1>4, <1>6, <3>1, <3>3, <3>4
  <2>3. ASSUME Vanishes(l) PROVE FALSE
    <3>1. M.life = "gone"
      BY <1>0, <2>3 DEF Vanishes, Ends, SharedActivityTypeOK, NewLease
    <3> QED BY <2>0, <3>1
  <2>4. ASSUME Moves(l) PROVE FALSE
    <3>1. L.life = "open" /\ L.queue # <<>> /\ Head(L.queue).kind = "close"
      BY <2>0, <2>4 DEF Moves
    <3>2. 1 \in 1 .. Len(L.queue) /\ Head(L.queue) = L.queue[1]
      BY <3>1, HeadFits
    <3> QED BY <2>0, <3>1, <3>2 DEF LeaseFits
  <2>5. ASSUME Publishes(l)
        PROVE  Cardinality(D) <= leases'[m].count
    <3>1. PICK op : op = Head(L.queue)
      OBVIOUS
    <3>2. /\ L.life = "open" /\ L.missed = FALSE /\ L.queue # <<>> /\ M.queue = L.queue
          /\ L.at \in {"rest", "first"} /\ M.at \in {"first", "publish"} /\ UNCHANGED toolCalls
      BY <2>0, <2>5 DEF Publishes
    <3>3. Reliable(l)
      BY <3>2 DEF Reliable
    <3>4. /\ op.kind = "start" => op.call \in ToolCallIds /\ toolCalls[op.call].lease = l /\ toolCalls[op.call].at = "begins"
          /\ op.kind = "end" => op.call \in ToolCallIds /\ toolCalls[op.call].lease = l /\ toolCalls[op.call].at = "ends"
      BY <3>1, <3>2, HeadFits
    <3>5. /\ M.at = "first" => M.count = L.count
          /\ M.at = "publish" /\ op.kind = "start" => M.count = L.count + 1
          /\ M.at = "publish" /\ op.kind = "end" => L.count <= M.count + 1
          /\ M.at = "publish" /\ op.kind \notin {"start", "end"} => M.count = L.count
      BY <2>5, <3>1 DEF Publishes
    <3>6. \A k, kind : ~IsPublished(l, kind, k)
      BY <3>2 DEF IsPublished
    <3>7. CASE M.at = "first" \/ op.kind \notin {"start", "end"}
      <4>1. \A k \in ToolCallIds : ~IsPublished(l, "start", k)' /\ ~IsPublished(l, "end", k)'
        BY <3>1, <3>2, <3>7 DEF IsPublished
      <4>2. D \subseteq C
        BY <1>1, <1>6, <3>2, <3>6, <4>1 DEF CountedCalls
      <4> QED BY <1>4, <1>6, <3>2, <3>3, <3>5, <3>7, <4>2
    <3>8. CASE M.at = "publish" /\ op.kind = "start"
      <4>1. D \subseteq C \cup {op.call}
        BY <1>1, <1>6, <3>1, <3>2, <3>6, <3>8 DEF CountedCalls, IsPublished
      <4>2. IsFiniteSet(C \cup {op.call}) /\ Cardinality(C \cup {op.call}) <= Cardinality(C) + 1
        BY <1>3, FS_AddElement
      <4>3. Cardinality(D) <= Cardinality(C \cup {op.call}) /\ Cardinality(C \cup {op.call}) \in Nat
        BY <4>1, <4>2, FS_Subset, FS_CardinalityType
      <4>4. Cardinality(C) <= leases[m].count
        BY <1>1, <1>6, <3>3 DEF CountFits
      <4>5. leases'[m].count = leases[m].count + 1
        BY <1>6, <3>5, <3>8
      <4> QED BY <1>0, <1>3, <4>2, <4>3, <4>4, <4>5
    <3>9. CASE M.at = "publish" /\ op.kind = "end"
      <4>1. op.call \in C
        BY <1>1, <1>6, <3>4, <3>6, <3>9 DEF CountedCalls
      <4>2. ASSUME NEW k \in D PROVE k \in C /\ k # op.call
        <5>1. k \in ToolCallIds /\ toolCalls[k].lease = l
              /\ \/ toolCalls[k].at = "begins" /\ IsPublished(l, "start", k)'
                 \/ toolCalls[k].at = "runs"
                 \/ toolCalls[k].at = "ends" /\ ~IsPublished(l, "end", k)'
          BY <1>1, <1>6, <3>2 DEF CountedCalls
        <5>2. ~IsPublished(l, "start", k)' /\ (IsPublished(l, "end", k)' <=> k = op.call)
          BY <3>1, <3>2, <3>9 DEF IsPublished
        <5>3. toolCalls[k].at = "runs" \/ (toolCalls[k].at = "ends" /\ k # op.call)
          BY <5>1, <5>2
        <5>4. k \in C
          BY <1>1, <1>6, <3>6, <5>1, <5>3 DEF CountedCalls
        <5> QED BY <3>4, <3>9, <5>3, <5>4
      <4>3. IsFiniteSet(C \ {op.call}) /\ Cardinality(C \ {op.call}) = Cardinality(C) - 1
        BY <1>3, <4>1, FS_RemoveElement
      <4>4. Cardinality(D) <= Cardinality(C \ {op.call})
        <5>1. D \subseteq C \ {op.call}
          BY <4>2
        <5> QED BY <4>3, <5>1, FS_Subset
      <4>5. Cardinality(C) <= leases[m].count
        BY <1>1, <1>6, <3>3 DEF CountFits
      <4>6. leases[m].count <= leases'[m].count + 1 /\ leases'[m].count \in Nat
        BY <1>0, <1>6, <3>5, <3>9 DEF LeaseRecord
      <4> QED BY <1>0, <1>3, <4>3, <4>4, <4>5, <4>6
    <3> QED BY <3>2, <3>7, <3>8, <3>9
  <2>6. ASSUME NEW published \in BOOLEAN, OpEnds(l, published)
        PROVE  Cardinality(D) <= leases'[m].count
    <3>1. PICK op : op = Head(L.queue)
      OBVIOUS
    <3>2. /\ L.life = "open" /\ L.missed = FALSE /\ L.queue # <<>> /\ M.at = "rest" /\ M.count = L.count
          /\ op.kind = "start" => L.at = "publish"
      BY <2>0, <2>6, <3>1 DEF OpEnds
    <3>3. Reliable(l)
      BY <3>2 DEF Reliable
    <3>4. \A k \in ToolCallIds :
              /\ toolCalls'[k].lease = toolCalls[k].lease
              /\ toolCalls'[k] # toolCalls[k] => op.kind \in {"start", "end"} /\ op.call = k
              /\ op.kind = "start" /\ op.call = k => toolCalls[k].at = "begins" /\ toolCalls'[k].at = "runs"
              /\ op.kind = "end" /\ op.call = k => toolCalls[k].at = "ends" /\ toolCalls'[k].at = "done"
      BY <2>6, <3>1, OpEndsCalls
    <3>5. ASSUME NEW k \in D PROVE k \in C
      <4>1. k \in ToolCallIds /\ toolCalls'[k].lease = l /\ toolCalls'[k].at \in {"runs", "ends"}
        BY <1>1, <1>6, <3>2 DEF CountedCalls, IsPublished
      <4>2. CASE op.kind = "start" /\ op.call = k
        BY <1>1, <1>6, <3>1, <3>2, <3>4, <4>1, <4>2 DEF CountedCalls, IsPublished
      <4>3. CASE ~(op.kind = "start" /\ op.call = k)
        <5>1. toolCalls'[k] = toolCalls[k] /\ ~(op.kind = "end" /\ op.call = k)
          BY <3>4, <4>1, <4>3
        <5> QED BY <1>1, <1>6, <3>1, <4>1, <5>1 DEF CountedCalls, IsPublished
      <4> QED BY <4>2, <4>3
    <3> QED BY <1>4, <1>6, <3>2, <3>3, <3>5
  <2>7. ASSUME NEW op \in LeaseOp, Enqueues(l, op)
        PROVE  Cardinality(D) <= leases'[m].count
    BY <2>1, <2>2, <2>7
  <2>8. CASE \E op \in LeaseOp : Enqueues(l, op)
    BY <1>1, <2>7, <2>8
  <2>9. CASE OpEnds(l, TRUE) \/ OpEnds(l, FALSE)
    BY <1>1, <2>6, <2>9
  <2> QED BY <1>1, <2>3, <2>4, <2>5, <2>8, <2>9 DEF LeaseKind
<1> QED BY <1>1, <1>5, <1>6

\* Nor by the others.
LEMMA CountFitsOthers ==
  ASSUME SameLeases, UNCHANGED toolCalls, NEW m \in Leases, CountFits(m)
  PROVE  CountFits(m)'
<1>1. CountedCalls(m)' = CountedCalls(m)
  BY DEF CountedCalls, IsPublished, SameLeases
<1>2. Reliable(m)' => Reliable(m)
  BY DEF Reliable, SameLeases
<1>3. leases'[m].count = leases[m].count
  BY DEF SameLeases
<1>4. PICK C : C = CountedCalls(m)
  OBVIOUS
<1> QED BY <1>1, <1>2, <1>3, <1>4 DEF CountFits

-----------------------------------------------------------------------------
(* The calls that run, and those that ran in a quiet period               *)

Shown(k, l) == toolCalls[k].lease = l /\ toolCalls[k].shown = TRUE

\* A call that runs can be seen, and what was read before it will be found
\* to be another.
ShownFits(l) ==
  Reliable(l) =>
    \A k \in RunningCalls : Shown(k, l) =>
      /\ leaseFile[l] # NoSnapshot /\ leaseFile[l].count > 0
      /\ reader.found[l] # NoSnapshot =>
           reader.found[l].count > 0 \/ Floor(reader.found[l].rev + 1, l)

MarkFits(n, l) ==
  /\ n \in Nat /\ Floor(n, l)
  /\ reader.found[l] # NoSnapshot => n <= reader.found[l].rev

SinceFits(n, k, l) ==
  Shown(k, l) /\ Reliable(l) =>
    /\ leaseFile[l] # NoSnapshot
    /\ l \in quiet.mark.owners => Floor(n + 1, l)

OldFits(n, k, l) ==
  Shown(k, l) /\ Reliable(l) =>
    /\ reader.at = "read" => l \in reader.todo \/ reader.found[l] # NoSnapshot
    /\ reader.at \in {"judge", "move", "compare"} => l \in reader.todo \cup reader.live
    /\ reader.found[l] # NoSnapshot /\ l \in quiet.mark.owners => n < reader.found[l].rev

\* The revisions that the look at the beginning of the quiet period found.
KeptMarks(marks) ==
  /\ quiet.mark.rev = SumFunctionOnSet(marks, quiet.mark.owners)
  /\ \A l \in quiet.mark.owners : MarkFits(marks[l], l)
  /\ \A l \in Leases :
       /\ \A k \in quiet.since : SinceFits(marks[l], k, l)
       /\ \A k \in quiet.old : OldFits(marks[l], k, l)

QuietFits ==
  /\ quiet.old \subseteq quiet.since
  /\ \A k \in quiet.since :
       /\ toolCalls[k].at \in {"runs", "ends", "done"}
       /\ leases[toolCalls[k].lease].life # "new"
  /\ quiet.mark = NoKey => quiet.since = {}
  /\ quiet.mark # NoKey => \E marks \in [Leases -> Int] : KeptMarks(marks)

ActivityInv ==
  /\ ShapeInv /\ ReaderFits
  /\ \A l \in Leases : FileFits(l) /\ CountFits(l) /\ ShownFits(l)
  /\ quiet.installs = FALSE => QuietFits
  /\ QuietIsReal

\* A call that runs, or did, keeps its lease.
LEMMA CallKept ==
  ASSUME ShapeInv, NEW l \in Leases, LeaseKind(l), NEW k \in ToolCallIds,
         toolCalls[k].at \in {"runs", "ends", "done"}
  PROVE  /\ toolCalls'[k].lease = toolCalls[k].lease /\ toolCalls'[k].shown = toolCalls[k].shown
         /\ toolCalls'[k].at \in {"runs", "ends", "done"}
         /\ toolCalls'[k].at = "runs" => toolCalls[k].at = "runs"
<1>0. SharedActivityTypeOK
  BY DEF ShapeInv
<1> DEFINE Same == /\ toolCalls'[k].lease = toolCalls[k].lease /\ toolCalls'[k].shown = toolCalls[k].shown
                   /\ toolCalls'[k].at \in {"runs", "ends", "done"}
                   /\ toolCalls'[k].at = "runs" => toolCalls[k].at = "runs"
<1>1. ASSUME NEW op \in LeaseOp, Enqueues(l, op) PROVE Same
  <2>1. CASE op.kind = "start"
    <3>1. toolCalls' = [toolCalls EXCEPT ![op.call] = [at |-> "begins", lease |-> l, shown |-> FALSE]]
          /\ toolCalls[op.call].at = "none"
      BY <1>1, <2>1 DEF Enqueues
    <3> QED BY <1>0, <3>1 DEF SharedActivityTypeOK
  <2>2. CASE op.kind = "end"
    <3>1. toolCalls' = [toolCalls EXCEPT ![op.call] = [toolCalls[op.call] EXCEPT !.at = "ends"]]
      BY <1>1, <2>2 DEF Enqueues
    <3>2. LET c == [toolCalls[k] EXCEPT !.at = "ends"] IN
          c.lease = toolCalls[k].lease /\ c.shown = toolCalls[k].shown /\ c.at = "ends"
      BY <1>0, CallTypes
    <3> QED BY <1>0, <3>1, <3>2 DEF SharedActivityTypeOK
  <2>3. CASE op.kind \notin {"start", "end"}
    BY <1>1, <2>3 DEF Enqueues
  <2> QED BY <2>1, <2>2, <2>3
<1>2. ASSUME Vanishes(l) PROVE Same
  <2>1. toolCalls'[k] = IF toolCalls[k].lease = l THEN [toolCalls[k] EXCEPT !.at = "done"] ELSE toolCalls[k]
    BY <1>2 DEF Vanishes, Ends
  <2>2. LET c == [toolCalls[k] EXCEPT !.at = "done"] IN
        c.lease = toolCalls[k].lease /\ c.shown = toolCalls[k].shown /\ c.at = "done"
    BY <1>0, CallTypes
  <2> QED BY <2>1, <2>2
<1>3. ASSUME Moves(l) \/ Publishes(l) PROVE Same
  BY <1>3 DEF Moves, Publishes
<1>4. ASSUME NEW published \in BOOLEAN, OpEnds(l, published) PROVE Same
  <2>1. PICK op : op = Head(leases[l].queue)
    OBVIOUS
  <2>2. /\ toolCalls'[k].lease = toolCalls[k].lease
        /\ toolCalls'[k] # toolCalls[k] => op.kind \in {"start", "end"} /\ op.call = k
        /\ op.kind = "start" /\ op.call = k => toolCalls[k].at = "begins"
        /\ op.kind = "end" /\ op.call = k => toolCalls'[k].at = "done"
    BY <1>4, <2>1, OpEndsCalls
  <2>3. CASE toolCalls'[k] = toolCalls[k]
    BY <2>3
  <2>4. CASE toolCalls'[k] # toolCalls[k]
    <3>1. op.kind = "end" /\ op.call = k
      BY <2>2, <2>4
    <3>2. toolCalls' = [toolCalls EXCEPT ![k] = [toolCalls[k] EXCEPT !.at = "done"]]
      BY <1>4, <2>1, <3>1 DEF OpEnds
    <3>3. LET c == [toolCalls[k] EXCEPT !.at = "done"] IN
          c.lease = toolCalls[k].lease /\ c.shown = toolCalls[k].shown /\ c.at = "done"
      BY <1>0, CallTypes
    <3> QED BY <1>0, <3>2, <3>3 DEF SharedActivityTypeOK
  <2> QED BY <2>3, <2>4
<1>5. CASE \E op \in LeaseOp : Enqueues(l, op)
  BY <1>1, <1>5
<1>6. CASE OpEnds(l, TRUE) \/ OpEnds(l, FALSE)
  BY <1>4, <1>6
<1> QED BY <1>2, <1>3, <1>5, <1>6 DEF LeaseKind

\* A runtime that was reliable only in a later state was new before.
LEMMA ReliableBefore ==
  ASSUME ShapeInv, NEW l \in Leases, LeaseKind(l), NEW m \in Leases, leases[m].life # "new"
  PROVE  leases'[m].life # "new" /\ (Reliable(m)' => Reliable(m))
<1>0. SharedActivityTypeOK /\ leases[m].missed \in BOOLEAN
  BY FloorTypes DEF ShapeInv
<1>1. CASE m # l
  BY <1>1, OtherLease DEF Reliable
<1>2. CASE m = l
  <2>1. ASSUME Vanishes(l) PROVE leases'[l].life = "gone"
    BY <1>0, <2>1 DEF Vanishes, Ends, SharedActivityTypeOK, NewLease
  <2>2. ASSUME NEW op \in LeaseOp, Enqueues(l, op)
        PROVE  leases'[l].life # "new" /\ (Reliable(l)' => Reliable(l))
    BY <1>0, <1>2, <2>2 DEF Enqueues, Reliable
  <2>3. ASSUME Moves(l) \/ Publishes(l)
        PROVE  leases'[l].life # "new" /\ (Reliable(l)' => Reliable(l))
    BY <1>0, <1>2, <2>3 DEF Moves, Publishes, Reliable
  <2>4. ASSUME NEW published \in BOOLEAN, OpEnds(l, published)
        PROVE  leases'[l].life # "new" /\ (Reliable(l)' => Reliable(l))
    BY <1>0, <1>2, <2>4 DEF OpEnds, Reliable
  <2>5. CASE \E op \in LeaseOp : Enqueues(l, op)
    BY <1>2, <2>2, <2>5
  <2>6. CASE OpEnds(l, TRUE) \/ OpEnds(l, FALSE)
    BY <1>2, <2>4, <2>6
  <2> QED BY <1>2, <2>1, <2>3, <2>5, <2>6 DEF LeaseKind, Reliable
<1> QED BY <1>1, <1>2

\* The publication of a start raises every floor.
LEMMA FloorRaised ==
  ASSUME ShapeInv, ReaderFits, NEW l \in Leases, OpEnds(l, TRUE), Head(leases[l].queue).kind = "start",
         Reliable(l)', NEW n \in Int, Floor(n, l)
  PROVE  Floor(n + 1, l)' /\ leaseFile'[l] # NoSnapshot
<1>0. SharedActivityTypeOK /\ LeaseFits(l) /\ leaseFile \in [Leases -> LeaseSnapshot \cup {NoSnapshot}]
  BY DEF ShapeInv, SharedActivityTypeOK
<1>1. /\ leases[l].life = "open" /\ leases[l].at = "publish" /\ leaseFile'[l] = leases[l].next
      /\ leases'[l].at = "rest" /\ leases'[l].rev = leases[l].rev /\ leases'[l].life = "open"
      /\ reader'.at = reader.at /\ reader'.target = reader.target
  BY <1>0 DEF OpEnds, Reliable, SameReading
<1>2. leases[l].next.rev \in Nat /\ leases[l].rev = leases[l].next.rev /\ leases[l].next # NoSnapshot
  BY <1>0, <1>1, FloorTypes DEF LeaseFits
<1>3. n < leases[l].next.rev
  BY <1>1 DEF Floor, LeaseFloor
<1>4. n + 1 <= leases[l].next.rev
  BY <1>2, <1>3
<1>5. ~(reader.at = "compare" /\ reader.target = l)
  BY <1>1 DEF ReaderFits
<1> QED BY <1>1, <1>2, <1>4, <1>5 DEF Floor, LeaseFloor

\* What a reliable runtime published stays, or is followed by more.
LEMMA FileStays ==
  ASSUME ShapeInv, NEW l \in Leases, LeaseKind(l), NEW m \in Leases, Reliable(m)', leases[m].life # "new",
         leaseFile[m] # NoSnapshot
  PROVE  leaseFile'[m] # NoSnapshot
<1>0. SharedActivityTypeOK /\ LeaseFits(l) /\ leaseFile \in [Leases -> LeaseSnapshot \cup {NoSnapshot}]
      /\ leases[l].next # NoSnapshot
  BY FloorTypes DEF ShapeInv, SharedActivityTypeOK
<1>1. CASE m # l
  BY <1>1, OtherLease
<1>2. CASE m = l
  <2>1. leases[l].life = "open"
    BY <1>2, ReliableBefore DEF Reliable
  <2>2. ~Moves(l)
    <3>1. leases[l].queue # <<>> /\ Head(leases[l].queue).kind = "close" => 1 \in 1 .. Len(leases[l].queue)
             /\ Head(leases[l].queue) = leases[l].queue[1]
      BY HeadFits
    <3> QED BY <1>0, <2>1, <3>1 DEF Moves, LeaseFits
  <2>3. UNCHANGED leaseFile \/ leaseFile' = [leaseFile EXCEPT ![l] = leases[l].next]
    BY <2>2 DEF LeaseKind, Enqueues, Vanishes, Publishes, OpEnds
  <2> QED BY <1>0, <1>2, <2>3
<1> QED BY <1>1, <1>2

\* A call that runs is counted.
LEMMA RunningIsCounted ==
  ASSUME SharedActivityTypeOK, NEW l \in Leases, CountFits(l), Reliable(l),
         NEW k \in RunningCalls, toolCalls[k].lease = l
  PROVE  leases[l].count > 0
<1>1. PICK C : C = CountedCalls(l)
  OBVIOUS
<1>2. C \in SUBSET ToolCallIds /\ k \in C
  BY <1>1 DEF CountedCalls, RunningCalls
<1>3. IsFiniteSet(C) /\ Cardinality(C) \in Nat
  BY <1>2, CountedFinite
<1>4. Cardinality(C) # 0
  BY <1>2, <1>3, FS_EmptySet
<1>5. Cardinality(C) <= leases[l].count /\ leases[l].count \in Nat
  BY <1>1, FloorTypes DEF CountFits
<1> QED BY <1>3, <1>4, <1>5

\* What is shown of the calls after a step, by the revision that was read.
LEMMA ShownFitsAfter ==
  ASSUME NEW m \in Leases, NEW p, p = reader'.found[m].rev,
         Reliable(m)' => \A k \in RunningCalls' : Shown(k, m)' =>
           /\ leaseFile'[m] # NoSnapshot /\ leaseFile'[m].count > 0
           /\ reader'.found[m] # NoSnapshot => reader'.found[m].count > 0 \/ Floor(p + 1, m)'
  PROVE  ShownFits(m)'
BY DEF ShownFits, Floor, LeaseFloor

\* The steps of a lease show its calls, or leave them in sight.
LEMMA ShownFitsLease ==
  ASSUME ShapeInv, ReaderFits, NEW l \in Leases, LeaseKind(l), NEW m \in Leases,
         FileFits(m), CountFits(m), ShownFits(m)
  PROVE  ShownFits(m)'
<1>0. /\ SharedActivityTypeOK /\ SharedActivityTypeOK'
      /\ leaseFile \in [Leases -> LeaseSnapshot \cup {NoSnapshot}]
      /\ CountFits(m)'
  BY ShapeStep, CountFitsLease, EnqueueShape, VanishShape, MoveShape, PublishShape, OpEndsShape
     DEF ShapeInv, SharedActivityTypeOK, LeaseKind
<1>1. PICK p \in Int : p = reader.found[m].rev
  BY <1>0, FloorTypes
<1>2. reader'.found[m] = reader.found[m] /\ (reader.found[m] # NoSnapshot => Floor(p, m))
  BY <1>1, LeaseReading DEF FileFits, Floor, LeaseFloor
<1> DEFINE Sees == /\ leaseFile'[m] # NoSnapshot /\ leaseFile'[m].count > 0
                   /\ reader'.found[m] # NoSnapshot => reader'.found[m].count > 0 \/ Floor(p + 1, m)'
<1>3. ASSUME Reliable(m)', NEW k \in RunningCalls', Shown(k, m)' PROVE Sees
  <2>1. k \in ToolCallIds /\ toolCalls'[k].at = "runs" /\ toolCalls'[k].lease = m /\ toolCalls'[k].shown = TRUE
    BY <1>3 DEF RunningCalls, Shown
  <2>2. CASE toolCalls[k].at = "runs"
    <3>1. Shown(k, m) /\ k \in RunningCalls
      BY <2>1, <2>2, CallKept DEF Shown, RunningCalls
    <3>2. leases[m].life # "new"
      BY <2>1, <2>2, <3>1 DEF ShapeInv, CallFits, Shown
    <3>3. Reliable(m)
      BY <1>3, <3>2, ReliableBefore
    <3>4. /\ leaseFile[m] # NoSnapshot /\ leaseFile[m].count > 0
          /\ reader.found[m] # NoSnapshot => reader.found[m].count > 0 \/ Floor(p + 1, m)
      BY <1>1, <3>1, <3>3 DEF ShownFits, Floor, LeaseFloor
    <3>5. p + 1 \in Int /\ (Floor(p + 1, m) => Floor(p + 1, m)')
      BY FloorKeptByLease
    <3>6. leaseFile'[m] # NoSnapshot
      BY <1>3, <3>2, <3>4, FileStays
    <3>7. leaseFile'[m].count > 0
      <4>1. CASE leaseFile'[m] = leaseFile[m]
        BY <3>4, <4>1
      <4>2. CASE leaseFile'[m] # leaseFile[m]
        <5>1. m = l
          BY <4>2, OtherLease
        <5>2. leases[l].life = "open" /\ LeaseFits(l)
          BY <3>3, <5>1 DEF Reliable, ShapeInv
        <5>3. Publishes(l) \/ OpEnds(l, TRUE)
          <6>1. ~Vanishes(l)
            BY <1>0, <1>3, <5>1 DEF Vanishes, Ends, SharedActivityTypeOK, NewLease, Reliable
          <6>2. ~Moves(l)
            BY <1>0, <3>6, <5>1 DEF Moves
          <6> QED BY <4>2, <6>1, <6>2 DEF LeaseKind, Enqueues, OpEnds
        <5>4. leaseFile'[l] = leases[l].next /\ leases[l].at \in {"first", "publish"}
          BY <1>0, <4>2, <5>1, <5>3 DEF Publishes, OpEnds
        <5>5. leases[l].count > 0
          BY <1>0, <3>1, <3>3, <5>1, RunningIsCounted DEF Shown
        <5> QED BY <5>1, <5>2, <5>4, <5>5 DEF LeaseFits
      <4> QED BY <4>1, <4>2
    <3> QED BY <1>2, <3>4, <3>5, <3>6, <3>7
  <2>3. CASE toolCalls[k].at # "runs"
    <3>1. OpEnds(l, TRUE) /\ Head(leases[l].queue).kind = "start" /\ Head(leases[l].queue).call = k
      <4>1. ASSUME NEW op \in LeaseOp, Enqueues(l, op) PROVE FALSE
        <5>1. op.kind = "start" => toolCalls'[k] = toolCalls[k] \/ toolCalls'[k].at = "begins"
          BY <1>0, <2>1, <4>1 DEF Enqueues, SharedActivityTypeOK
        <5>2. op.kind = "end" => toolCalls'[k] = toolCalls[k] \/ toolCalls'[k].at = "ends"
          BY <1>0, <2>1, <4>1, CallTypes DEF Enqueues, SharedActivityTypeOK
        <5>3. op.kind \notin {"start", "end"} => toolCalls'[k] = toolCalls[k]
          BY <4>1 DEF Enqueues
        <5> QED BY <2>1, <2>3, <5>1, <5>2, <5>3
      <4>2. ~Vanishes(l)
        <5>1. ASSUME Vanishes(l) PROVE toolCalls'[k] = toolCalls[k] \/ toolCalls'[k] = [toolCalls[k] EXCEPT !.at = "done"]
          BY <2>1, <5>1 DEF Vanishes, Ends
        <5>2. [toolCalls[k] EXCEPT !.at = "done"].at = "done"
          BY <1>0, <2>1, CallTypes
        <5> QED BY <2>1, <2>3, <5>1, <5>2
      <4>3. ~Moves(l) /\ ~Publishes(l)
        BY <2>1, <2>3 DEF Moves, Publishes
      <4>4. ASSUME NEW published \in BOOLEAN, OpEnds(l, published)
            PROVE  published = TRUE /\ Head(leases[l].queue).kind = "start" /\ Head(leases[l].queue).call = k
        <5>1. PICK op : op = Head(leases[l].queue)
          OBVIOUS
        <5> QED BY <2>1, <2>3, <4>4, <5>1, OpEndsCalls
      <4>5. ~OpEnds(l, FALSE)
        BY <4>4
      <4>6. OpEnds(l, TRUE)
        BY <4>1, <4>2, <4>3, <4>5 DEF LeaseKind
      <4> QED BY <4>4, <4>6
    <3>2. m = l
      <4>1. PICK op : op = Head(leases[l].queue)
        OBVIOUS
      <4>2. leases[l].queue # <<>>
        BY <3>1 DEF OpEnds
      <4>3. toolCalls[k].lease = l
        BY <3>1, <4>1, <4>2, HeadFits
      <4>4. toolCalls'[k].lease = toolCalls[k].lease
        BY <2>1, <3>1, <4>1, OpEndsCalls
      <4> QED BY <2>1, <4>3, <4>4
    <3>3. /\ leases[l].at = "publish" /\ leaseFile'[l] = leases[l].next /\ leases'[l].count = leases[l].count
      BY <1>0, <3>1 DEF OpEnds
    <3>4. leases[l].next.count = leases[l].count /\ leases[l].next # NoSnapshot
      <4>1. LeaseFits(l)
        BY DEF ShapeInv
      <4>2. leases[l].next = [count |-> leases[l].count, rev |-> leases[l].rev]
        BY <3>3, <4>1 DEF LeaseFits
      <4> QED BY <1>0, <4>2, FloorTypes
    <3>5. leases'[l].count > 0
      <4>1. PICK D : D = CountedCalls(m)'
        OBVIOUS
      <4>2. D \in SUBSET ToolCallIds /\ k \in D
        BY <2>1, <4>1 DEF CountedCalls
      <4>3. IsFiniteSet(D) /\ Cardinality(D) \in Nat
        BY <4>2, CountedFinite
      <4>4. Cardinality(D) # 0
        BY <4>2, <4>3, FS_EmptySet
      <4>5. Cardinality(D) <= leases'[m].count /\ leases'[m].count \in Nat
        BY <1>0, <1>3, <4>1, FloorTypes, <3>2, <3>3 DEF CountFits
      <4> QED BY <3>2, <4>3, <4>4, <4>5
    <3>6. reader.found[m] # NoSnapshot => Floor(p + 1, m)'
      BY <1>2, <1>3, <3>1, <3>2, FloorRaised
    <3> QED BY <1>2, <3>2, <3>3, <3>4, <3>5, <3>6
  <2> QED BY <2>2, <2>3
<1> QED BY <1>1, <1>2, <1>3, ShownFitsAfter

\* What a reading finds, and where the reader leaves the file alone.
LEMMA ReaderReading ==
  ASSUME ShapeInv, ReaderFits, LookBegins \/ ReadLease \/ JudgeLease \/ MoveStale \/ CompareStale,
         NEW m \in Leases
  PROVE  /\ leases[m].life = "open" => leaseFile'[m] = leaseFile[m]
         /\ reader'.found[m] \in {reader.found[m], NoSnapshot, leaseFile[m]}
<1>0. reader \in Reader /\ leaseFile \in [Leases -> LeaseSnapshot \cup {NoSnapshot}]
      /\ reader.found \in [Leases -> LeaseSnapshot \cup {NoSnapshot}]
  BY DEF ShapeInv, SharedActivityTypeOK, Reader
<1>1. ASSUME NEW at, reader' = [RestingReader EXCEPT !.at = at] PROVE reader'.found[m] = NoSnapshot
  BY <1>1 DEF RestingReader
<1>2. CASE LookBegins
  <2>1. UNCHANGED leaseFile /\ reader'.found[m] = NoSnapshot
    BY <1>2 DEF LookBegins, RestingReader
  <2> QED BY <2>1
<1>3. CASE ReadLease
  <2>1. PICK found : found = [reader.found EXCEPT ![NextLease] = leaseFile[NextLease]]
    OBVIOUS
  <2>2. reader' = [RestingReader EXCEPT !.at = "fails"] \/ reader'.found = found
    BY <1>0, <1>3, <2>1 DEF ReadLease, Reader
  <2>3. found[m] \in {reader.found[m], leaseFile[m]}
    BY <1>0, <2>1
  <2>4. UNCHANGED leaseFile
    BY <1>3 DEF ReadLease
  <2> QED BY <1>1, <2>2, <2>3, <2>4
<1>4. CASE JudgeLease
  <2>1. reader' = [RestingReader EXCEPT !.at = "fails"] \/ reader'.found = reader.found
    BY <1>0, <1>4 DEF JudgeLease, Reader
  <2> QED BY <1>1, <1>4, <2>1 DEF JudgeLease
<1>5. CASE MoveStale
  <2>1. reader' = [RestingReader EXCEPT !.at = "fails"] \/ reader'.found = reader.found
    BY <1>0, <1>5 DEF MoveStale, Reader
  <2>2. leases[m].life = "open" => m # reader.target
    BY <1>5 DEF MoveStale, ReaderFits
  <2>3. leases[m].life = "open" => leaseFile'[m] = leaseFile[m]
    BY <1>0, <1>5, <2>2 DEF MoveStale
  <2> QED BY <1>1, <2>1, <2>3
<1>6. CASE CompareStale
  <2>1. PICK found : found = [reader.found EXCEPT ![reader.target] = NoSnapshot]
    OBVIOUS
  <2>2. reader' = [RestingReader EXCEPT !.at = "fails"] \/ reader'.found = found
    BY <1>0, <1>6, <2>1 DEF CompareStale, Reader
  <2>3. found[m] \in {reader.found[m], NoSnapshot}
    BY <1>0, <2>1
  <2>4. leases[m].life = "open" => m # reader.target
    BY <1>6 DEF CompareStale, ReaderFits
  <2>5. leases[m].life = "open" => leaseFile'[m] = leaseFile[m]
    BY <1>0, <1>6, <2>4 DEF CompareStale
  <2> QED BY <1>1, <2>2, <2>3, <2>5
<1> QED BY <1>2, <1>3, <1>4, <1>5, <1>6

\* The steps of the reader leave the calls in sight.
LEMMA ShownFitsReader ==
  ASSUME ShapeInv, ReaderFits, LookBegins \/ ReadLease \/ JudgeLease \/ MoveStale \/ CompareStale,
         NEW m \in Leases, ShownFits(m)
  PROVE  ShownFits(m)'
<1>0. UNCHANGED <<leases, toolCalls>> /\ SharedActivityTypeOK
  BY ReaderShape DEF ShapeInv
<1>1. PICK n, p : n = reader.found[m].rev /\ p = reader'.found[m].rev
  OBVIOUS
<1>2. ASSUME Reliable(m)', NEW k \in RunningCalls', Shown(k, m)'
      PROVE  /\ leaseFile'[m] # NoSnapshot /\ leaseFile'[m].count > 0
             /\ reader'.found[m] # NoSnapshot => reader'.found[m].count > 0 \/ Floor(p + 1, m)'
  <2>1. Reliable(m) /\ k \in RunningCalls /\ Shown(k, m)
    BY <1>0, <1>2 DEF Reliable, RunningCalls, Shown
  <2>2. /\ leaseFile[m] # NoSnapshot /\ leaseFile[m].count > 0
        /\ reader.found[m] # NoSnapshot => reader.found[m].count > 0 \/ Floor(n + 1, m)
    BY <1>1, <2>1 DEF ShownFits, Floor, LeaseFloor
  <2>3. leaseFile'[m] = leaseFile[m] /\ reader'.found[m] \in {reader.found[m], NoSnapshot, leaseFile[m]}
    BY <2>1, ReaderReading DEF Reliable
  <2>4. n + 1 \in Int /\ (Floor(n + 1, m) => Floor(n + 1, m)')
    BY <1>0, <1>1, FloorTypes, FloorKeptByReader
  <2>5. CASE reader'.found[m] = reader.found[m]
    <3>1. p = n
      BY <1>1, <2>5
    <3> QED BY <2>2, <2>3, <2>4, <2>5, <3>1
  <2>6. CASE reader'.found[m] # reader.found[m]
    BY <2>2, <2>3, <2>6
  <2> QED BY <2>5, <2>6
<1> QED BY <1>1, <1>2, ShownFitsAfter

\* So do the decisions of the coordinator.
LEMMA ShownFitsCoordinator ==
  ASSUME ShapeInv, ReaderFits, QuietBegins \/ StaysQuiet \/ NotIdle, NEW m \in Leases, ShownFits(m)
  PROVE  ShownFits(m)'
<1>1. SameLeases /\ UNCHANGED <<leaseFile, toolCalls>> /\ reader' = RestingReader
  BY CoordinatorShape
<1>2. RestingReader.found[m] = NoSnapshot
  BY DEF RestingReader
<1> QED BY <1>1, <1>2 DEF SameLeases, ShownFits, Reliable, RunningCalls, Shown

-----------------------------------------------------------------------------
(* The quiet period                                                       *)

\* The types of what the coordinator keeps.
LEMMA QuietTypes ==
  ASSUME SharedActivityTypeOK
  PROVE  /\ quiet \in [mark : Key, covered : BOOLEAN, installs : BOOLEAN,
                       since : SUBSET ToolCallIds, old : SUBSET ToolCallIds]
         /\ quiet.mark \in Key /\ quiet.mark.owners \in SUBSET Leases /\ quiet.mark.rev \in Nat
         /\ quiet.since \in SUBSET ToolCallIds /\ quiet.old \in SUBSET ToolCallIds
         /\ quiet.installs \in BOOLEAN
BY DEF SharedActivityTypeOK, Key

\* A mark is kept by the steps of a lease,
LEMMA MarkFitsLease ==
  ASSUME ShapeInv, NEW l \in Leases, LeaseKind(l), NEW n \in Int, NEW m \in Leases, MarkFits(n, m)
  PROVE  MarkFits(n, m)'
<1>1. Floor(n, m)'
  BY FloorKeptByLease DEF MarkFits
<1> QED BY <1>1, LeaseReading DEF MarkFits

\* and so is what is known of a call of the period,
LEMMA SinceFitsLease ==
  ASSUME ShapeInv, NEW l \in Leases, LeaseKind(l), NEW n \in Int, NEW m \in Leases, NEW k \in ToolCallIds,
         toolCalls[k].at \in {"runs", "ends", "done"}, leases[toolCalls[k].lease].life # "new",
         quiet'.mark = quiet.mark, SinceFits(n, k, m)
  PROVE  SinceFits(n, k, m)'
<1> SUFFICES ASSUME Shown(k, m)', Reliable(m)'
             PROVE  leaseFile'[m] # NoSnapshot /\ (m \in quiet'.mark.owners => Floor(n + 1, m)')
  BY DEF SinceFits
<1>1. Shown(k, m) /\ leases[m].life # "new"
  BY CallKept DEF Shown
<1>2. Reliable(m)
  BY <1>1, ReliableBefore
<1>3. leaseFile[m] # NoSnapshot /\ (m \in quiet.mark.owners => Floor(n + 1, m))
  BY <1>1, <1>2 DEF SinceFits
<1>4. leaseFile'[m] # NoSnapshot
  BY <1>1, <1>3, FileStays
<1>5. n + 1 \in Int
  OBVIOUS
<1> QED BY <1>3, <1>4, <1>5, FloorKeptByLease

\* or of one that the present look is to find.
LEMMA OldFitsLease ==
  ASSUME ShapeInv, NEW l \in Leases, LeaseKind(l), NEW n \in Int, NEW m \in Leases, NEW k \in ToolCallIds,
         toolCalls[k].at \in {"runs", "ends", "done"}, leases[toolCalls[k].lease].life # "new",
         quiet'.mark = quiet.mark, OldFits(n, k, m)
  PROVE  OldFits(n, k, m)'
<1> SUFFICES ASSUME Shown(k, m)', Reliable(m)'
             PROVE  /\ reader'.at = "read" => m \in reader'.todo \/ reader'.found[m] # NoSnapshot
                    /\ reader'.at \in {"judge", "move", "compare"} => m \in reader'.todo \cup reader'.live
                    /\ reader'.found[m] # NoSnapshot /\ m \in quiet'.mark.owners => n < reader'.found[m].rev
  BY DEF OldFits
<1>1. Shown(k, m) /\ leases[m].life # "new"
  BY CallKept DEF Shown
<1>2. Reliable(m)
  BY <1>1, ReliableBefore
<1> QED BY <1>1, <1>2, LeaseReading DEF OldFits

\* What the coordinator keeps, and the steps of a lease.
LEMMA LeaseQuiet ==
  ASSUME ShapeInv, NEW l \in Leases, LeaseKind(l)
  PROVE  \/ UNCHANGED quiet
         \/ \E published \in BOOLEAN :
              LET op == Head(leases[l].queue) IN
              /\ OpEnds(l, published) /\ op.kind = "start" /\ quiet.mark # NoKey
              /\ op.call \in ToolCallIds /\ toolCalls[op.call].at = "begins"
              /\ toolCalls[op.call].lease = l /\ leases[l].life \in {"open", "closed"}
              /\ toolCalls'[op.call].at = "runs" /\ toolCalls'[op.call].lease = l
              /\ toolCalls'[op.call].shown = published
              /\ quiet'.since = quiet.since \cup {op.call} /\ quiet'.mark = quiet.mark
              /\ quiet'.old = quiet.old /\ quiet'.installs = quiet.installs
<1>0. SharedActivityTypeOK
  BY DEF ShapeInv
<1>1. ASSUME NEW published \in BOOLEAN, OpEnds(l, published), ~UNCHANGED quiet
      PROVE  LET op == Head(leases[l].queue) IN
              /\ op.kind = "start" /\ quiet.mark # NoKey
              /\ op.call \in ToolCallIds /\ toolCalls[op.call].at = "begins"
              /\ toolCalls[op.call].lease = l /\ leases[l].life \in {"open", "closed"}
              /\ toolCalls'[op.call].at = "runs" /\ toolCalls'[op.call].lease = l
              /\ toolCalls'[op.call].shown = published
              /\ quiet'.since = quiet.since \cup {op.call} /\ quiet'.mark = quiet.mark
              /\ quiet'.old = quiet.old /\ quiet'.installs = quiet.installs
  <2>1. PICK op : op = Head(leases[l].queue)
    OBVIOUS
  <2>2. /\ op.kind = "start" /\ quiet.mark # NoKey /\ leases[l].queue # <<>>
        /\ leases[l].life \in {"open", "closed"}
        /\ quiet' = [quiet EXCEPT !.since = quiet.since \cup {op.call}]
    BY <1>1, <2>1 DEF OpEnds
  <2>3. op.call \in ToolCallIds /\ toolCalls[op.call].lease = l /\ toolCalls[op.call].at = "begins"
    BY <2>1, <2>2, HeadFits
  <2>4. /\ toolCalls'[op.call].lease = toolCalls[op.call].lease
        /\ toolCalls'[op.call].at = "runs" /\ toolCalls'[op.call].shown = published
    BY <1>1, <2>1, <2>2, <2>3, OpEndsCalls
  <2>5. /\ quiet'.since = quiet.since \cup {op.call} /\ quiet'.mark = quiet.mark
        /\ quiet'.old = quiet.old /\ quiet'.installs = quiet.installs
    BY <1>0, <2>2, QuietTypes
  <2> QED BY <2>1, <2>2, <2>3, <2>4, <2>5
<1>2. CASE UNCHANGED quiet
  BY <1>2
<1>3. CASE ~UNCHANGED quiet
  <2>1. OpEnds(l, TRUE) \/ OpEnds(l, FALSE)
    BY <1>3 DEF LeaseKind, Enqueues, Vanishes, Moves, Publishes
  <2> QED BY <1>1, <1>3, <2>1
<1> QED BY <1>2, <1>3

\* The quiet period and the steps of a lease.
LEMMA QuietFitsLease ==
  ASSUME ShapeInv, ReaderFits, NEW l \in Leases, LeaseKind(l), QuietFits
  PROVE  QuietFits' /\ quiet'.installs = quiet.installs
<1>0. SharedActivityTypeOK /\ quiet.since \in SUBSET ToolCallIds /\ quiet.old \in SUBSET quiet.since
      /\ quiet.mark.owners \in SUBSET Leases
  BY QuietTypes DEF ShapeInv, QuietFits
<1>1. ASSUME NEW k \in quiet.since
      PROVE  /\ k \in ToolCallIds /\ toolCalls[k].at \in {"runs", "ends", "done"}
             /\ toolCalls[k].lease \in Leases /\ leases[toolCalls[k].lease].life # "new"
             /\ toolCalls'[k].at \in {"runs", "ends", "done"}
             /\ toolCalls'[k].lease = toolCalls[k].lease /\ leases'[toolCalls'[k].lease].life # "new"
  <2>1. k \in ToolCallIds /\ toolCalls[k].at \in {"runs", "ends", "done"} /\ leases[toolCalls[k].lease].life # "new"
    BY <1>0 DEF QuietFits
  <2>2. toolCalls[k].lease \in Leases
    BY <2>1 DEF ShapeInv, CallFits
  <2> QED BY <2>1, <2>2, CallKept, ReliableBefore
<1>2. CASE UNCHANGED quiet
  <2>1. ASSUME NEW marks \in [Leases -> Int], KeptMarks(marks) PROVE KeptMarks(marks)'
    <3>1. \A m \in quiet.mark.owners : MarkFits(marks[m], m)'
      <4>1. ASSUME NEW m \in quiet.mark.owners PROVE MarkFits(marks[m], m)'
        <5>1. PICK n \in Int : n = marks[m]
          BY <1>0
        <5>2. MarkFits(n, m) /\ m \in Leases
          BY <1>0, <2>1, <5>1 DEF KeptMarks
        <5>3. MarkFits(n, m)'
          BY <5>2, MarkFitsLease
        <5> QED BY <5>1, <5>3
      <4> QED BY <4>1
    <3>2. ASSUME NEW m \in Leases
          PROVE  /\ \A k \in quiet.since : SinceFits(marks[m], k, m)'
                 /\ \A k \in quiet.old : OldFits(marks[m], k, m)'
      <4>1. PICK n \in Int : n = marks[m]
        OBVIOUS
      <4>2. ASSUME NEW k \in quiet.since PROVE SinceFits(n, k, m)'
        <5>1. SinceFits(n, k, m)
          BY <2>1, <4>1 DEF KeptMarks
        <5> QED BY <1>1, <1>2, <5>1, SinceFitsLease
      <4>3. ASSUME NEW k \in quiet.old PROVE OldFits(n, k, m)'
        <5>1. OldFits(n, k, m) /\ k \in quiet.since
          BY <1>0, <2>1, <4>1 DEF KeptMarks
        <5> QED BY <1>1, <1>2, <5>1, OldFitsLease
      <4> QED BY <4>1, <4>2, <4>3
    <3> QED BY <1>2, <2>1, <3>1, <3>2 DEF KeptMarks
  <2>2. ASSUME quiet.mark # NoKey PROVE \E marks \in [Leases -> Int] : KeptMarks(marks)'
    BY <2>1, <2>2 DEF QuietFits
  <2>3. \A k \in quiet.since : toolCalls'[k].at \in {"runs", "ends", "done"} /\ leases'[toolCalls'[k].lease].life # "new"
    BY <1>1
  <2> QED BY <1>2, <2>2, <2>3 DEF QuietFits
<1>3. ASSUME NEW published \in BOOLEAN, NEW started \in ToolCallIds, OpEnds(l, published),
             started = Head(leases[l].queue).call, Head(leases[l].queue).kind = "start", quiet.mark # NoKey,
             toolCalls[started].at = "begins", leases[l].life \in {"open", "closed"},
             toolCalls'[started].at = "runs", toolCalls'[started].lease = l,
             toolCalls'[started].shown = published,
             quiet'.since = quiet.since \cup {started}, quiet'.mark = quiet.mark,
             quiet'.old = quiet.old, quiet'.installs = quiet.installs
      PROVE  QuietFits'
  <2>1. PICK marks \in [Leases -> Int] : KeptMarks(marks)
    BY <1>3 DEF QuietFits
  <2>2. \A m \in quiet.mark.owners : MarkFits(marks[m], m)'
    <3>1. ASSUME NEW m \in quiet.mark.owners PROVE MarkFits(marks[m], m)'
      <4>1. PICK n \in Int : n = marks[m]
        BY <1>0
      <4>2. MarkFits(n, m) /\ m \in Leases
        BY <1>0, <2>1, <4>1 DEF KeptMarks
      <4>3. MarkFits(n, m)'
        BY <4>2, MarkFitsLease
      <4> QED BY <4>1, <4>3
    <3> QED BY <3>1
  <2>3. ASSUME NEW m \in Leases
        PROVE  /\ \A k \in quiet.since \cup {started} : SinceFits(marks[m], k, m)'
               /\ \A k \in quiet.old : OldFits(marks[m], k, m)'
    <3>1. PICK n \in Int : n = marks[m]
      OBVIOUS
    <3>2. ASSUME NEW k \in quiet.since PROVE SinceFits(n, k, m)'
      <4>1. SinceFits(n, k, m)
        BY <2>1, <3>1 DEF KeptMarks
      <4> QED BY <1>1, <1>3, <4>1, SinceFitsLease
    <3>3. ASSUME NEW k \in quiet.old PROVE OldFits(n, k, m)'
      <4>1. OldFits(n, k, m) /\ k \in quiet.since
        BY <1>0, <2>1, <3>1 DEF KeptMarks
      <4> QED BY <1>1, <1>3, <4>1, OldFitsLease
    <3>4. ASSUME Shown(started, m)', Reliable(m)'
          PROVE  leaseFile'[m] # NoSnapshot /\ (m \in quiet'.mark.owners => Floor(n + 1, m)')
      <4>1. m = l /\ published = TRUE
        BY <1>3, <3>4 DEF Shown
      <4>2. m \in quiet.mark.owners => Floor(n, m)
        BY <2>1, <3>1 DEF KeptMarks, MarkFits
      <4>3. leases[l].at = "publish" /\ leaseFile'[l] = leases[l].next
        BY <1>0, <1>3, <4>1 DEF OpEnds, SharedActivityTypeOK
      <4>4. leaseFile'[m] # NoSnapshot
        BY <1>0, <4>1, <4>3, FloorTypes
      <4>5. OpEnds(l, TRUE)
        BY <1>3, <4>1
      <4> QED BY <1>3, <3>4, <4>1, <4>2, <4>4, <4>5, FloorRaised
    <3>5. SinceFits(n, started, m)'
      BY <3>4 DEF SinceFits
    <3> QED BY <3>1, <3>2, <3>3, <3>5
  <2>4. KeptMarks(marks)'
    BY <1>3, <2>1, <2>2, <2>3 DEF KeptMarks
  <2>5. \A k \in quiet'.since : toolCalls'[k].at \in {"runs", "ends", "done"} /\ leases'[toolCalls'[k].lease].life # "new"
    <3>1. leases'[l].life # "new"
      BY <1>3, ReliableBefore
    <3> QED BY <1>1, <1>3, <3>1
  <2> QED BY <1>0, <1>3, <2>4, <2>5 DEF QuietFits
<1> QED BY <1>2, <1>3, LeaseQuiet

\* The mark and the calls of the period, and the steps of the reader.
LEMMA KeptReader ==
  ASSUME ShapeInv, ReaderFits, LookBegins \/ ReadLease \/ JudgeLease \/ MoveStale \/ CompareStale,
         quiet'.mark = quiet.mark, NEW n \in Int, NEW m \in Leases
  PROVE  /\ MarkFits(n, m) => MarkFits(n, m)'
         /\ \A k \in ToolCallIds : SinceFits(n, k, m) => SinceFits(n, k, m)'
<1>0. UNCHANGED <<leases, toolCalls>> /\ SharedActivityTypeOK
  BY ReaderShape DEF ShapeInv
<1>1. reader'.found[m] \in {reader.found[m], NoSnapshot, leaseFile[m]}
      /\ (leases[m].life = "open" => leaseFile'[m] = leaseFile[m])
  BY ReaderReading
<1>2. ASSUME MarkFits(n, m) PROVE MarkFits(n, m)'
  <2>1. Floor(n, m)'
    BY <1>2, FloorKeptByReader DEF MarkFits
  <2>2. leaseFile[m] # NoSnapshot => n <= leaseFile[m].rev
    BY <1>2 DEF MarkFits, Floor
  <2> QED BY <1>1, <1>2, <2>1, <2>2 DEF MarkFits
<1>3. ASSUME NEW k \in ToolCallIds, SinceFits(n, k, m) PROVE SinceFits(n, k, m)'
  <2> SUFFICES ASSUME Shown(k, m)', Reliable(m)'
               PROVE  leaseFile'[m] # NoSnapshot /\ (m \in quiet'.mark.owners => Floor(n + 1, m)')
    BY DEF SinceFits
  <2>1. Shown(k, m) /\ Reliable(m)
    BY <1>0 DEF Shown, Reliable
  <2>2. leaseFile[m] # NoSnapshot /\ (m \in quiet.mark.owners => Floor(n + 1, m))
    BY <1>3, <2>1 DEF SinceFits
  <2>3. leaseFile'[m] = leaseFile[m]
    BY <1>1, <2>1 DEF Reliable
  <2>4. n + 1 \in Int
    OBVIOUS
  <2> QED BY <2>2, <2>3, <2>4, FloorKeptByReader
<1> QED BY <1>2, <1>3

\* A call of the period, and the look that goes on.
LEMMA OldFitsReader ==
  ASSUME ShapeInv, ReaderFits, ReadLease \/ JudgeLease \/ MoveStale \/ CompareStale,
         quiet'.mark = quiet.mark, NEW n \in Int, NEW m \in Leases, NEW k \in ToolCallIds,
         SinceFits(n, k, m), OldFits(n, k, m)
  PROVE  OldFits(n, k, m)'
<1> DEFINE Found == /\ reader'.at = "read" => m \in reader'.todo \/ reader'.found[m] # NoSnapshot
                    /\ reader'.at \in {"judge", "move", "compare"} => m \in reader'.todo \cup reader'.live
                    /\ reader'.found[m] # NoSnapshot /\ m \in quiet'.mark.owners => n < reader'.found[m].rev
<1> SUFFICES ASSUME Shown(k, m)', Reliable(m)' PROVE Found
  BY DEF OldFits
<1>0. /\ UNCHANGED <<leases, toolCalls>> /\ SharedActivityTypeOK /\ reader \in Reader
      /\ leaseFile \in [Leases -> LeaseSnapshot \cup {NoSnapshot}]
      /\ reader.found \in [Leases -> LeaseSnapshot \cup {NoSnapshot}] /\ leaseFile[m].rev \in Int
      /\ reader.todo \in SUBSET Leases
  BY ReaderShape, FloorTypes DEF ShapeInv, SharedActivityTypeOK, Reader
<1>1. Shown(k, m) /\ Reliable(m)
  BY <1>0 DEF Shown, Reliable
<1>2. /\ leaseFile[m] # NoSnapshot /\ (m \in quiet.mark.owners => Floor(n + 1, m))
      /\ reader.at = "read" => m \in reader.todo \/ reader.found[m] # NoSnapshot
      /\ reader.at \in {"judge", "move", "compare"} => m \in reader.todo \cup reader.live
      /\ reader.found[m] # NoSnapshot /\ m \in quiet.mark.owners => n < reader.found[m].rev
  BY <1>1 DEF SinceFits, OldFits
<1>3. m \in quiet.mark.owners => n < leaseFile[m].rev
  BY <1>0, <1>2 DEF Floor
<1>4. ASSUME reader' = [RestingReader EXCEPT !.at = "fails"] PROVE Found
  <2>1. reader'.at = "fails" /\ reader'.found[m] = NoSnapshot
    BY <1>4 DEF RestingReader
  <2> QED BY <2>1
<1>5. CASE ReadLease /\ reader' # [RestingReader EXCEPT !.at = "fails"]
  <2>1. PICK next, found, rest : /\ next = NextLease /\ found = [reader.found EXCEPT ![next] = leaseFile[next]]
                                 /\ rest = reader.todo \ {next}
    OBVIOUS
  <2>2. reader' = [reader EXCEPT !.found = found, !.same = reader.same \cup {next},
                                 !.at = IF rest = {} THEN "judge" ELSE "read",
                                 !.todo = IF rest = {} THEN Readable(found) ELSE rest]
        /\ reader.at = "read"
    BY <1>5, <2>1 DEF ReadLease
  <2>3. reader'.found = found /\ reader'.live = reader.live
        /\ \/ rest = {} /\ reader'.at = "judge" /\ reader'.todo = Readable(found)
           \/ rest # {} /\ reader'.at = "read" /\ reader'.todo = rest
    BY <1>0, <2>2 DEF Reader
  <2>4. found[m] = leaseFile[m] \/ (found[m] = reader.found[m] /\ m # next)
    BY <1>0, <2>1
  <2>5. m \in rest \/ found[m] # NoSnapshot
    BY <1>2, <2>1, <2>2, <2>4
  <2>6. rest = {} => m \in reader'.todo
    BY <2>3, <2>5 DEF Readable
  <2>7. found[m] # NoSnapshot /\ m \in quiet.mark.owners => n < found[m].rev
    BY <1>2, <1>3, <2>4
  <2> QED BY <2>3, <2>5, <2>6, <2>7
<1>6. CASE JudgeLease /\ reader' # [RestingReader EXCEPT !.at = "fails"]
  <2>1. PICK l : l = NextLease
    OBVIOUS
  <2>2. \/ reader' = [reader EXCEPT !.at = "move", !.target = l]
        \/ reader' = [reader EXCEPT !.todo = reader.todo \ {l}, !.live = reader.live \cup {l}, !.same = reader.same \ {l}]
    BY <1>6, <2>1 DEF JudgeLease
  <2>3. reader'.found = reader.found /\ reader'.at \in {"judge", "move"} /\ reader.at = "judge"
        /\ reader'.todo \cup reader'.live = reader.todo \cup reader.live \cup (IF reader'.at = "move" THEN {} ELSE {l})
    BY <1>0, <1>6, <2>2 DEF Reader, JudgeLease
  <2> QED BY <1>2, <2>3
<1>7. CASE MoveStale /\ reader' # [RestingReader EXCEPT !.at = "fails"]
  <2>1. reader' = [reader EXCEPT !.at = "compare", !.aside = leaseFile[reader.target]] /\ reader.at = "move"
    BY <1>7 DEF MoveStale
  <2>2. reader'.found = reader.found /\ reader'.at = "compare" /\ reader'.todo = reader.todo /\ reader'.live = reader.live
    BY <1>0, <2>1 DEF Reader
  <2> QED BY <1>2, <2>1, <2>2
<1>8. CASE CompareStale /\ reader' # [RestingReader EXCEPT !.at = "fails"]
  <2>1. PICK found, todo, same :
          /\ found = [reader.found EXCEPT ![reader.target] = NoSnapshot]
          /\ todo = reader.todo \ {reader.target} /\ same = reader.same \ {reader.target}
    OBVIOUS
  <2>2. reader' = [reader EXCEPT !.at = "judge", !.todo = todo, !.same = same, !.target = 0,
                                 !.found = found, !.aside = NoSnapshot] /\ reader.at = "compare"
    BY <1>8, <2>1 DEF CompareStale
  <2>3. reader'.at = "judge" /\ reader'.found = found /\ reader'.todo = todo /\ reader'.live = reader.live
    BY <1>0, <2>2 DEF Reader
  <2>4. m # reader.target
    BY <1>1, <2>2 DEF ReaderFits, Reliable
  <2>5. found[m] = reader.found[m]
    BY <1>0, <2>1, <2>4
  <2> QED BY <1>2, <2>1, <2>2, <2>3, <2>4, <2>5
<1>9. (ReadLease \/ JudgeLease \/ MoveStale \/ CompareStale) /\ quiet'.mark = quiet.mark
  OBVIOUS
<1> QED BY <1>4, <1>5, <1>6, <1>7, <1>8, <1>9

\* The look that begins will find the calls of the period.
LEMMA OldFitsLook ==
  ASSUME ShapeInv, LookBegins, NEW n \in Int, NEW m \in Leases, NEW k \in ToolCallIds, SinceFits(n, k, m)
  PROVE  OldFits(n, k, m)'
<1> SUFFICES ASSUME Shown(k, m)', Reliable(m)'
             PROVE  /\ reader'.at = "read" => m \in reader'.todo \/ reader'.found[m] # NoSnapshot
                    /\ reader'.at \in {"judge", "move", "compare"} => m \in reader'.todo \cup reader'.live
                    /\ reader'.found[m] # NoSnapshot /\ m \in quiet'.mark.owners => n < reader'.found[m].rev
  BY DEF OldFits
<1>1. leaseFile[m] # NoSnapshot
  BY DEF LookBegins, Shown, Reliable, SinceFits
<1>2. m \in Present
  BY <1>1 DEF Present
<1>3. reader'.todo = Present /\ reader'.found[m] = NoSnapshot
  BY DEF LookBegins, RestingReader
<1> QED BY <1>2, <1>3

\* The quiet period and the steps of the reader.
LEMMA QuietFitsReader ==
  ASSUME ShapeInv, ReaderFits, LookBegins \/ ReadLease \/ JudgeLease \/ MoveStale \/ CompareStale, QuietFits
  PROVE  QuietFits' /\ quiet'.installs = quiet.installs
<1>0. /\ SharedActivityTypeOK /\ quiet.since \in SUBSET ToolCallIds /\ quiet.old \in SUBSET quiet.since
      /\ quiet.mark.owners \in SUBSET Leases /\ UNCHANGED <<leases, toolCalls>>
  BY ReaderShape, QuietTypes DEF ShapeInv, QuietFits
<1>1. /\ quiet'.mark = quiet.mark /\ quiet'.since = quiet.since /\ quiet'.installs = quiet.installs
      /\ \/ LookBegins /\ quiet'.old = quiet.since
         \/ (ReadLease \/ JudgeLease \/ MoveStale \/ CompareStale) /\ quiet'.old = quiet.old
  <2>1. CASE LookBegins
    <3>1. PICK c : c = (quiet.mark # NoKey /\ \A l \in Opened : leases[l].beat = "yes")
      OBVIOUS
    <3>2. quiet' = [quiet EXCEPT !.old = quiet.since, !.covered = c]
      BY <2>1, <3>1, Zenon DEF LookBegins
    <3> QED BY <1>0, <2>1, <3>2, QuietTypes
  <2>2. CASE ReadLease \/ JudgeLease \/ MoveStale \/ CompareStale
    BY <2>2 DEF ReadLease, JudgeLease, MoveStale, CompareStale
  <2> QED BY <2>1, <2>2
<1>2. ASSUME NEW marks \in [Leases -> Int], KeptMarks(marks) PROVE KeptMarks(marks)'
  <2>1. ASSUME NEW m \in quiet.mark.owners PROVE MarkFits(marks[m], m)'
    <3>1. PICK n \in Int : n = marks[m]
      BY <1>0
    <3>2. MarkFits(n, m) /\ m \in Leases
      BY <1>0, <1>2, <3>1 DEF KeptMarks
    <3>3. MarkFits(n, m)'
      BY <1>1, <3>2, KeptReader
    <3> QED BY <3>1, <3>3
  <2>2. ASSUME NEW m \in Leases
        PROVE  /\ \A k \in quiet.since : SinceFits(marks[m], k, m)'
               /\ \A k \in quiet'.old : OldFits(marks[m], k, m)'
    <3>1. PICK n \in Int : n = marks[m]
      OBVIOUS
    <3>2. \A k \in quiet.since : k \in ToolCallIds /\ SinceFits(n, k, m) /\ SinceFits(n, k, m)'
      BY <1>0, <1>1, <1>2, <3>1, KeptReader DEF KeptMarks
    <3>3. ASSUME NEW k \in quiet'.old PROVE OldFits(n, k, m)'
      <4>1. CASE LookBegins /\ quiet'.old = quiet.since
        BY <3>2, <3>3, <4>1, OldFitsLook
      <4>2. CASE (ReadLease \/ JudgeLease \/ MoveStale \/ CompareStale) /\ quiet'.old = quiet.old
        <5>1. k \in quiet.since /\ k \in quiet.old
          BY <1>0, <3>3, <4>2
        <5>2. OldFits(n, k, m)
          BY <1>2, <3>1, <5>1 DEF KeptMarks
        <5> QED BY <1>1, <3>2, <4>2, <5>1, <5>2, OldFitsReader
      <4> QED BY <1>1, <4>1, <4>2
    <3> QED BY <3>1, <3>2, <3>3
  <2> QED BY <1>1, <1>2, <2>1, <2>2 DEF KeptMarks
<1>3. ASSUME quiet.mark # NoKey PROVE \E marks \in [Leases -> Int] : KeptMarks(marks)'
  BY <1>2, <1>3 DEF QuietFits
<1>4. quiet'.old \subseteq quiet.since
  BY <1>0, <1>1
<1> QED BY <1>0, <1>1, <1>3, <1>4 DEF QuietFits

\* What is kept of the quiet period when the reader rests.
LEMMA KeptAtRest ==
  ASSUME ShapeInv, ReaderFits, QuietBegins \/ StaysQuiet \/ NotIdle, NEW n \in Int, NEW m \in Leases
  PROVE  /\ n \in Nat /\ Floor(n, m) => MarkFits(n, m)'
         /\ \A k \in ToolCallIds :
              /\ quiet'.mark = quiet.mark /\ SinceFits(n, k, m) => SinceFits(n, k, m)'
              /\ OldFits(n, k, m)'
<1>1. SameLeases /\ UNCHANGED <<leaseFile, toolCalls>> /\ reader' = RestingReader
  BY CoordinatorShape
<1>2. reader'.found[m] = NoSnapshot /\ reader'.at = "rest"
  BY <1>1 DEF RestingReader
<1>3. ASSUME n \in Nat, Floor(n, m) PROVE MarkFits(n, m)'
  BY <1>2, <1>3, FloorKeptByCoordinator DEF MarkFits
<1>4. ASSUME NEW k \in ToolCallIds, quiet'.mark = quiet.mark, SinceFits(n, k, m) PROVE SinceFits(n, k, m)'
  <2> SUFFICES ASSUME Shown(k, m)', Reliable(m)'
               PROVE  leaseFile'[m] # NoSnapshot /\ (m \in quiet'.mark.owners => Floor(n + 1, m)')
    BY DEF SinceFits
  <2>1. Shown(k, m) /\ Reliable(m)
    BY <1>1 DEF Shown, Reliable, SameLeases
  <2>2. leaseFile[m] # NoSnapshot /\ (m \in quiet.mark.owners => Floor(n + 1, m))
    BY <1>4, <2>1 DEF SinceFits
  <2>3. n + 1 \in Int
    OBVIOUS
  <2> QED BY <1>1, <1>4, <2>2, <2>3, FloorKeptByCoordinator
<1>5. ASSUME NEW k \in ToolCallIds PROVE OldFits(n, k, m)'
  BY <1>2 DEF OldFits
<1> QED BY <1>3, <1>4, <1>5

\* The first idle look: its revisions are the marks.
LEMMA QuietFitsBegins ==
  ASSUME ShapeInv, ReaderFits, \A l \in Leases : FileFits(l) /\ ShownFits(l), QuietBegins, QuietFits
  PROVE  QuietFits' /\ quiet'.installs = quiet.installs
<1>0. /\ SharedActivityTypeOK /\ reader \in Reader /\ LookDone /\ Trustworthy /\ ActiveCalls = 0
      /\ quiet.mark = NoKey /\ UNCHANGED <<leaseFile, toolCalls>> /\ reader' = RestingReader /\ SameLeases
      /\ reader.found \in [Leases -> LeaseSnapshot \cup {NoSnapshot}]
  BY CoordinatorShape DEF ShapeInv, SharedActivityTypeOK, QuietBegins, FoundIdle, Reader
<1>1. /\ quiet'.mark = ObservedKey /\ quiet'.since = RunningCalls /\ quiet'.old = {}
      /\ quiet'.installs = quiet.installs
  <2>1. quiet' = [quiet EXCEPT !.mark = ObservedKey, !.since = RunningCalls]
    BY DEF QuietBegins
  <2>2. quiet.old = {}
    BY <1>0 DEF QuietFits
  <2> QED BY <1>0, <2>1, <2>2, QuietTypes
<1>2. /\ IsFiniteSet(reader.live) /\ reader.live \in SUBSET Leases
      /\ \A l \in reader.live : reader.found[l] # NoSnapshot /\ reader.found[l].count \in Nat /\ reader.found[l].rev \in Nat
  BY <1>0, ObservedType
<1>3. \A l \in reader.live : reader.found[l].count = 0
  <2>1. PICK g : g = [l \in Leases |-> reader.found[l].count]
    OBVIOUS
  <2>2. SumFunctionOnSet(g, reader.live) = 0
    BY <1>0, <2>1 DEF ActiveCalls
  <2>3. \A l \in reader.live : g[l] \in Nat
    BY <1>2, <2>1
  <2>4. \A l \in reader.live : g[l] = 0
    BY <1>2, <2>2, <2>3, SumOfZeros
  <2> QED BY <1>2, <2>1, <2>4
<1>4. PICK marks : marks = [l \in Leases |-> reader.found[l].rev]
  OBVIOUS
<1>5. marks \in [Leases -> Int]
  BY <1>0, <1>4, FloorTypes
<1>6. PICK owners : owners = reader.live
  OBVIOUS
<1>7. ASSUME NEW m \in Leases, NEW n \in Int, n = marks[m]
      PROVE  /\ m \in owners => MarkFits(n, m)'
             /\ \A k \in RunningCalls : SinceFits(n, k, m)'
  <2>1. n = reader.found[m].rev
    BY <1>4, <1>7
  <2>2. m \in owners => n \in Nat /\ Floor(n, m)
    BY <1>2, <1>6, <2>1 DEF FileFits, Floor, LeaseFloor
  <2>3. ASSUME NEW k \in RunningCalls, Shown(k, m)', Reliable(m)'
        PROVE  leaseFile'[m] # NoSnapshot /\ (m \in quiet'.mark.owners => Floor(n + 1, m)')
    <3>1. Shown(k, m) /\ Reliable(m)
      BY <1>0, <2>3 DEF Shown, Reliable, SameLeases
    <3>2. leaseFile[m] # NoSnapshot /\ (reader.found[m] # NoSnapshot => reader.found[m].count > 0 \/ Floor(n + 1, m))
      BY <2>1, <3>1 DEF ShownFits, Floor, LeaseFloor
    <3>3. m \in owners => Floor(n + 1, m)
      BY <1>2, <1>3, <1>6, <3>2
    <3>4. n + 1 \in Int /\ quiet'.mark.owners = owners
      BY <1>1, <1>6 DEF ObservedKey
    <3> QED BY <1>0, <3>2, <3>3, <3>4, FloorKeptByCoordinator
  <2>4. \A k \in RunningCalls : SinceFits(n, k, m)'
    BY <2>3 DEF SinceFits
  <2> QED BY <2>2, <2>4, KeptAtRest
<1>8. KeptMarks(marks)'
  <2>1. quiet'.mark.owners = owners /\ quiet'.mark.rev = SumFunctionOnSet(marks, owners)
    BY <1>1, <1>4, <1>6 DEF ObservedKey, ObservedRev
  <2>2. ASSUME NEW m \in owners PROVE MarkFits(marks[m], m)'
    <3>1. m \in Leases /\ marks[m] \in Int
      BY <1>2, <1>5, <1>6
    <3>2. PICK n \in Int : n = marks[m]
      BY <3>1
    <3> QED BY <1>7, <3>1, <3>2
  <2>3. ASSUME NEW m \in Leases, NEW k \in RunningCalls PROVE SinceFits(marks[m], k, m)'
    <3>1. PICK n \in Int : n = marks[m]
      BY <1>5
    <3> QED BY <1>7, <3>1
  <2> QED BY <1>1, <2>1, <2>2, <2>3 DEF KeptMarks
<1>9. \A k \in RunningCalls : toolCalls'[k].at \in {"runs", "ends", "done"} /\ leases'[toolCalls'[k].lease].life # "new"
  <2>1. ASSUME NEW k \in RunningCalls PROVE toolCalls[k].at = "runs" /\ leases'[toolCalls[k].lease].life # "new"
    <3>1. k \in ToolCallIds /\ toolCalls[k].at = "runs"
      BY DEF RunningCalls
    <3>2. toolCalls[k].lease \in Leases /\ leases[toolCalls[k].lease].life \in {"open", "closed"}
      BY <3>1 DEF ShapeInv, CallFits
    <3> QED BY <1>0, <3>1, <3>2 DEF SameLeases
  <2> QED BY <1>0, <2>1
<1>10. quiet'.mark # NoKey
  BY <1>0, <1>1, ObservedType
<1> QED BY <1>1, <1>5, <1>8, <1>9, <1>10 DEF QuietFits

\* A look that finds the marks again, and no more.
LEMMA QuietFitsStays ==
  ASSUME ShapeInv, ReaderFits, StaysQuiet, quiet.installs = FALSE, QuietFits
  PROVE  quiet'.installs = FALSE => QuietFits'
<1> SUFFICES ASSUME quiet'.installs = FALSE PROVE QuietFits'
  OBVIOUS
<1>0. /\ SharedActivityTypeOK /\ UNCHANGED <<leaseFile, toolCalls>> /\ SameLeases
      /\ quiet.mark.owners \in SUBSET Leases /\ quiet.since \in SUBSET ToolCallIds
  BY CoordinatorShape, QuietTypes DEF ShapeInv
<1>1. quiet'.mark = quiet.mark /\ quiet'.since = quiet.since /\ quiet'.old = {}
  <2>1. quiet' = [quiet EXCEPT !.covered = FALSE, !.old = {}] \/ quiet' = [quiet EXCEPT !.installs = TRUE]
    BY DEF StaysQuiet
  <2> QED BY <1>0, <2>1, QuietTypes
<1>2. ASSUME NEW marks \in [Leases -> Int], KeptMarks(marks) PROVE KeptMarks(marks)'
  <2>1. ASSUME NEW m \in quiet.mark.owners PROVE MarkFits(marks[m], m)'
    <3>1. PICK n \in Int : n = marks[m]
      BY <1>0
    <3>2. n \in Nat /\ Floor(n, m) /\ m \in Leases
      BY <1>0, <1>2, <3>1 DEF KeptMarks, MarkFits
    <3>3. MarkFits(n, m)'
      BY <3>2, KeptAtRest
    <3> QED BY <3>1, <3>3
  <2>2. ASSUME NEW m \in Leases, NEW k \in quiet.since PROVE SinceFits(marks[m], k, m)'
    <3>1. PICK n \in Int : n = marks[m]
      OBVIOUS
    <3>2. SinceFits(n, k, m) /\ k \in ToolCallIds
      BY <1>0, <1>2, <3>1 DEF KeptMarks
    <3>3. SinceFits(n, k, m)'
      BY <1>1, <3>2, KeptAtRest
    <3> QED BY <3>1, <3>3
  <2> QED BY <1>1, <1>2, <2>1, <2>2 DEF KeptMarks
<1>3. ASSUME quiet.mark # NoKey PROVE \E marks \in [Leases -> Int] : KeptMarks(marks)'
  BY <1>2, <1>3 DEF QuietFits
<1>4. \A k \in quiet.since : toolCalls'[k].at \in {"runs", "ends", "done"} /\ leases'[toolCalls'[k].lease].life # "new"
  <2>1. ASSUME NEW k \in quiet.since
        PROVE  toolCalls[k].at \in {"runs", "ends", "done"} /\ leases'[toolCalls[k].lease].life # "new"
    <3>1. k \in ToolCallIds /\ toolCalls[k].at \in {"runs", "ends", "done"} /\ leases[toolCalls[k].lease].life # "new"
      BY <1>0 DEF QuietFits
    <3>2. toolCalls[k].lease \in Leases
      BY <3>1 DEF ShapeInv, CallFits
    <3> QED BY <1>0, <3>1, <3>2 DEF SameLeases
  <2> QED BY <1>0, <2>1
<1> QED BY <1>1, <1>3, <1>4 DEF QuietFits

\* The look that installs found the revisions of the first look, one by one:
\* no call of a reliable runtime was published between them.
LEMMA InstallIsQuiet ==
  ASSUME ShapeInv, ReaderFits, StaysQuiet, QuietFits
  PROVE  \A k \in quiet.old, l \in Leases : ~(Shown(k, l) /\ Reliable(l))
<1> SUFFICES ASSUME NEW k \in quiet.old, NEW l \in Leases, Shown(k, l), Reliable(l) PROVE FALSE
  OBVIOUS
<1>0. /\ SharedActivityTypeOK /\ LookDone /\ Trustworthy /\ reader.at = "judge" /\ reader.todo = {}
      /\ ObservedKey = quiet.mark
  BY DEF ShapeInv, StaysQuiet, FoundIdle, Trustworthy, LookDone
<1>1. /\ IsFiniteSet(reader.live) /\ reader.live \in SUBSET Leases
      /\ \A m \in reader.live : reader.found[m] # NoSnapshot /\ reader.found[m].rev \in Nat
      /\ ObservedKey # NoKey
  BY <1>0, ObservedType
<1>2. PICK marks \in [Leases -> Int] : KeptMarks(marks)
  BY <1>0, <1>1 DEF QuietFits
<1>3. quiet.mark.owners = reader.live /\ quiet.mark.rev = ObservedRev
  BY <1>0 DEF ObservedKey
<1>4. l \in reader.live
  <2>1. OldFits(marks[l], k, l)
    BY <1>2 DEF KeptMarks
  <2> QED BY <1>0, <2>1 DEF OldFits
<1>5. marks[l] < reader.found[l].rev
  <2>1. PICK n \in Int : n = marks[l]
    OBVIOUS
  <2>2. OldFits(n, k, l)
    BY <1>2, <2>1 DEF KeptMarks
  <2> QED BY <1>1, <1>3, <1>4, <2>1, <2>2 DEF OldFits
<1>6. PICK g : g = [m \in Leases |-> reader.found[m].rev]
  OBVIOUS
<1>7. SumFunctionOnSet(marks, reader.live) = SumFunctionOnSet(g, reader.live)
  BY <1>2, <1>3, <1>6 DEF KeptMarks, ObservedRev
<1>8. \A m \in reader.live : marks[m] \in Nat /\ g[m] \in Nat /\ marks[m] <= g[m]
  <2>1. ASSUME NEW m \in reader.live PROVE marks[m] \in Nat /\ marks[m] <= reader.found[m].rev
    BY <1>1, <1>2, <1>3 DEF KeptMarks, MarkFits
  <2> QED BY <1>1, <1>6, <2>1
<1>9. marks[l] = g[l]
  BY <1>1, <1>4, <1>7, <1>8, SumIsOrdered
<1> QED BY <1>1, <1>4, <1>5, <1>6, <1>8, <1>9

\* The decisions of the coordinator.
LEMMA QuietFitsCoordinator ==
  ASSUME ShapeInv, ReaderFits, \A l \in Leases : FileFits(l) /\ ShownFits(l),
         LookDone, QuietBegins \/ StaysQuiet \/ NotIdle, quiet.installs = FALSE, QuietFits
  PROVE  (quiet'.installs = FALSE => QuietFits') /\ QuietIsReal'
<1>0. /\ SharedActivityTypeOK /\ SharedActivityTypeOK' /\ UNCHANGED toolCalls /\ SameLeases
      /\ quiet.old \in SUBSET ToolCallIds /\ quiet' \in [mark : Key, covered : BOOLEAN, installs : BOOLEAN,
                       since : SUBSET ToolCallIds, old : SUBSET ToolCallIds]
  BY CoordinatorShape, QuietTypes DEF ShapeInv, SharedActivityTypeOK
<1>1. quiet'.installs = FALSE => QuietIsReal'
  BY DEF QuietIsReal
<1>2. CASE QuietBegins
  BY <1>1, <1>2, QuietFitsBegins
<1>3. CASE StaysQuiet
  <2>1. quiet'.installs = FALSE => QuietFits'
    BY <1>3, QuietFitsStays
  <2>2. CASE quiet'.installs = TRUE
    <3>1. quiet'.old = quiet.old
      <4>1. quiet' = [quiet EXCEPT !.covered = FALSE, !.old = {}] \/ quiet' = [quiet EXCEPT !.installs = TRUE]
        BY <1>3 DEF StaysQuiet
      <4>2. quiet' # [quiet EXCEPT !.covered = FALSE, !.old = {}]
        <5>1. quiet \in [mark : Key, covered : BOOLEAN, installs : BOOLEAN,
                       since : SUBSET ToolCallIds, old : SUBSET ToolCallIds]
          BY <1>0, QuietTypes
        <5>2. [quiet EXCEPT !.covered = FALSE, !.old = {}].installs = quiet.installs
          BY <5>1
        <5> QED BY <2>2, <5>2
      <4> QED BY <1>0, <4>1, <4>2, QuietTypes
    <3>2. ASSUME NEW k \in quiet.old, toolCalls[k].shown = TRUE
          PROVE  leases'[toolCalls[k].lease].life # "open" \/ leases'[toolCalls[k].lease].missed = TRUE
      <4>1. k \in ToolCallIds /\ toolCalls[k].at # "none"
        BY <1>0 DEF QuietFits
      <4>2. toolCalls[k].lease \in Leases
        BY <4>1 DEF ShapeInv, CallFits
      <4>3. ~Reliable(toolCalls[k].lease)
        BY <1>3, <3>2, <4>2, InstallIsQuiet DEF Shown
      <4>4. leases[toolCalls[k].lease].missed \in BOOLEAN
        BY <1>0, <4>2, FloorTypes
      <4> QED BY <1>0, <4>2, <4>3, <4>4 DEF Reliable, SameLeases
    <3>3. \A k \in ToolCallIds : toolCalls[k].shown \in BOOLEAN
      BY <1>0, CallTypes
    <3>4. ASSUME NEW k \in quiet'.old, toolCalls'[k].shown
          PROVE  leases'[toolCalls'[k].lease].life # "open" \/ leases'[toolCalls'[k].lease].missed
      <4>1. k \in quiet.old /\ k \in ToolCallIds /\ toolCalls'[k] = toolCalls[k] /\ toolCalls[k].shown
        BY <1>0, <3>1, <3>4
      <4>2. toolCalls[k].shown = TRUE
        BY <3>3, <4>1
      <4> QED BY <3>2, <4>1, <4>2
    <3> QED BY <2>2, <3>4 DEF QuietIsReal
  <2>3. quiet'.installs \in BOOLEAN
    BY <1>0
  <2> QED BY <1>1, <2>1, <2>2, <2>3
<1>4. CASE NotIdle
  <2>1. quiet'.mark = NoKey /\ quiet'.since = {} /\ quiet'.old = {} /\ quiet'.installs = quiet.installs
    BY <1>0, <1>4, QuietTypes DEF NotIdle
  <2> QED BY <1>1, <2>1 DEF QuietFits
<1> QED BY <1>2, <1>3, <1>4

-----------------------------------------------------------------------------

\* It holds of the first state
LEMMA ActivityInit == SharedActivityInit => ActivityInv
<1> SUFFICES ASSUME SharedActivityInit PROVE ActivityInv
  OBVIOUS
<1>1. NewLease \in LeaseRecord
  BY EmptySeq DEF NewLease, LeaseRecord, LeaseSnapshot
<1>2. NoKey \in Key /\ RestingReader \in Reader /\ 0 \in 0 .. NLeases
  <2>1. NoKey \in Key
    BY DEF NoKey, Key
  <2>2. 0 \in 0 .. NLeases
    BY SharedActivityAssumption
  <2> QED BY <2>1, <2>2, RestingReaderType
<1>3. SharedActivityTypeOK
  BY <1>1, <1>2 DEF SharedActivityInit, SharedActivityTypeOK
<1>4. \A l \in Leases : LeaseFits(l) /\ QueueFits(l)
  BY DEF SharedActivityInit, NewLease, LeaseFits, QueueFits
<1>5. \A k \in ToolCallIds : CallFits(k)
  BY DEF SharedActivityInit, CallFits
<1>6. ReaderFits
  BY DEF SharedActivityInit, RestingReader, ReaderFits
<1>7. ASSUME NEW l \in Leases PROVE FileFits(l) /\ CountFits(l) /\ ShownFits(l)
  <2>1. leaseFile[l] = NoSnapshot /\ reader.found[l] = NoSnapshot /\ leases[l].life = "new"
    BY DEF SharedActivityInit, RestingReader, NewLease
  <2> QED BY <2>1 DEF FileFits, CountFits, ShownFits, Reliable
<1>8. quiet.old = {} /\ quiet.since = {} /\ quiet.mark = NoKey /\ quiet.installs = FALSE
  BY DEF SharedActivityInit
<1> QED BY <1>3, <1>4, <1>5, <1>6, <1>7, <1>8 DEF ActivityInv, ShapeInv, QuietFits, QuietIsReal

\* and is kept by every step.
LEMMA ActivityStepKept == ActivityInv /\ SharedActivityNext => ActivityInv'
<1> SUFFICES ASSUME ActivityInv, SharedActivityNext PROVE ActivityInv'
  OBVIOUS
<1>0. /\ ShapeInv /\ ReaderFits /\ quiet.installs = FALSE /\ QuietFits /\ SharedActivityTypeOK
      /\ \A l \in Leases : FileFits(l) /\ CountFits(l) /\ ShownFits(l)
  <2>1. ShapeInv /\ ~quiet.installs /\ SharedActivityTypeOK
    BY DEF ActivityInv, ShapeInv, SharedActivityNext
  <2>2. quiet.installs = FALSE
    BY <2>1, QuietTypes
  <2> QED BY <2>1, <2>2 DEF ActivityInv
<1>1. ShapeInv'
  BY <1>0, ShapeStep
<1>2. ASSUME NEW l \in Leases, LeaseKind(l) PROVE ActivityInv'
  <2>1. ReaderFits'
    BY <1>0, <1>2, ReaderFitsLease
  <2>2. \A m \in Leases : FileFits(m)' /\ CountFits(m)' /\ ShownFits(m)'
    BY <1>0, <1>2, FileFitsLease, CountFitsLease, ShownFitsLease
  <2>3. QuietFits' /\ quiet'.installs = FALSE
    BY <1>0, <1>2, QuietFitsLease
  <2> QED BY <1>1, <2>1, <2>2, <2>3 DEF ActivityInv, QuietIsReal
<1>3. CASE LookBegins \/ ReadLease \/ JudgeLease \/ MoveStale \/ CompareStale
  <2>1. ReaderFits' /\ \A m \in Leases : FileFits(m)'
    BY <1>0, <1>3, ReaderFitsReader
  <2>2. \A m \in Leases : CountFits(m)'
    <3>1. UNCHANGED <<leases, toolCalls>> /\ SameLeases
      BY <1>0, <1>3, ReaderShape DEF SameLeases, SharedActivityTypeOK
    <3> QED BY <1>0, <3>1, CountFitsOthers
  <2>3. \A m \in Leases : ShownFits(m)'
    BY <1>0, <1>3, ShownFitsReader
  <2>4. QuietFits' /\ quiet'.installs = FALSE
    BY <1>0, <1>3, QuietFitsReader
  <2> QED BY <1>1, <2>1, <2>2, <2>3, <2>4 DEF ActivityInv, QuietIsReal
<1>4. CASE LookDone /\ (QuietBegins \/ StaysQuiet \/ NotIdle)
  <2>1. ReaderFits' /\ \A m \in Leases : FileFits(m)'
    BY <1>0, <1>4, ReaderFitsCoordinator
  <2>2. \A m \in Leases : CountFits(m)'
    BY <1>0, <1>4, CoordinatorShape, CountFitsOthers
  <2>3. \A m \in Leases : ShownFits(m)'
    BY <1>0, <1>4, ShownFitsCoordinator
  <2>4. (quiet'.installs = FALSE => QuietFits') /\ QuietIsReal'
    BY <1>0, <1>4, QuietFitsCoordinator
  <2> QED BY <1>1, <2>1, <2>2, <2>3, <2>4 DEF ActivityInv
<1>5. \/ LookDone /\ (QuietBegins \/ StaysQuiet \/ NotIdle)
      \/ \E l \in Due : OpBegins(l)
      \/ ActivityStep
  BY DEF SharedActivityNext
<1>6. \/ LookDone /\ (QuietBegins \/ StaysQuiet \/ NotIdle)
      \/ LookBegins \/ ReadLease \/ JudgeLease \/ MoveStale \/ CompareStale
      \/ \E l \in Leases : LeaseKind(l)
  BY <1>0, <1>5, ActivityLeaseKinds DEF ActivityStep
<1> QED BY <1>2, <1>3, <1>4, <1>6

\* The invariant of the runtimes' activity, of what is read of it, and of the
\* quiet period.  (activity-tracker.ts, shared-activity-snapshot.ts,
\* update-install.ts)
THEOREM ActivityInvariant == SharedActivitySpec => []ActivityInv
<1>1. ASSUME ActivityInv, UNCHANGED activityVars PROVE ActivityInv'
  <2>0. UNCHANGED leases /\ UNCHANGED leaseFile /\ UNCHANGED toolCalls /\ UNCHANGED reader /\ UNCHANGED quiet
    BY <1>1 DEF activityVars
  <2>1. ShapeInv'
    BY <1>1, <2>0 DEF ActivityInv, ShapeInv, SharedActivityTypeOK, LeaseFits, QueueFits, CallFits
  <2>2. ReaderFits'
    BY <1>1, <2>0 DEF ActivityInv, ReaderFits, Floor, LeaseFloor
  <2>3. ASSUME NEW l \in Leases PROVE FileFits(l)' /\ CountFits(l)' /\ ShownFits(l)'
    <3>1. FileFits(l)'
      BY <1>1, <2>0 DEF ActivityInv, FileFits, Floor, LeaseFloor
    <3>2. CountedCalls(l)' = CountedCalls(l)
      BY <2>0 DEF CountedCalls, IsPublished
    <3>3. CountFits(l)'
      BY <1>1, <2>0, <3>2 DEF ActivityInv, CountFits, Reliable
    <3>4. ShownFits(l)'
      BY <1>1, <2>0 DEF ActivityInv, ShownFits, RunningCalls, Shown, Reliable, Floor, LeaseFloor
    <3> QED BY <3>1, <3>3, <3>4
  <2>4. ASSUME NEW marks \in [Leases -> Int], KeptMarks(marks) PROVE KeptMarks(marks)'
    BY <2>0, <2>4 DEF KeptMarks, MarkFits, SinceFits, OldFits, Shown, Reliable, Floor, LeaseFloor
  <2>5. QuietFits => QuietFits'
    BY <2>0, <2>4 DEF QuietFits
  <2>6. QuietIsReal'
    BY <1>1, <2>0 DEF ActivityInv, QuietIsReal
  <2> QED BY <1>1, <2>0, <2>1, <2>2, <2>3, <2>5, <2>6 DEF ActivityInv
<1> QED BY <1>1, ActivityInit, ActivityStepKept, PTL DEF SharedActivitySpec

\* An update that is installed for quiet is installed in quiet: no call whose
\* start was published ran between the two looks in a runtime that could
\* publish it.  (update-install.ts:161-181)
THEOREM QuietPeriodsAreQuiet == SharedActivitySpec => []QuietIsReal
<1>1. ActivityInv => QuietIsReal
  BY DEF ActivityInv
<1> QED BY <1>1, ActivityInvariant, PTL
=============================================================================
