---------------------------- MODULE RuntimeState ----------------------------
(***************************************************************************)
(* The shared state of the upgrade runtimes: a file several processes      *)
(* change, each by reading it, changing what it read and renaming a new    *)
(* file over it, under a lock file that is given up when it looks stale.   *)
(***************************************************************************)
EXTENDS Integers, FiniteSets

CONSTANTS
  Runtimes,     \* runtimes, each in a process of its own
  MaxShared,   \* bound: changes of the shared state
  StateFaults   \* "io_error", "crash"

ASSUME RuntimeStateAssumption ==
  /\ MaxShared \in Nat /\ "nobody" \notin Runtimes
  /\ StateFaults \subseteq {"io_error", "crash"}

VARIABLES
  sharedFile,   \* the changes the shared file holds
  stateLock,    \* the lock file: whose it is, whether it is older than 30 s
  runtimes,     \* where each runtime stands
  confirmed,    \* history: changes reported as stored
  misjudged     \* history: a lock was taken from a runtime that still held it

stateVars == <<sharedFile, stateLock, runtimes, confirmed, misjudged>>

Changes == 1 .. MaxShared
Nobody == "nobody"
NoLockFile == [by |-> Nobody, old |-> FALSE]
LockFiles == [by : Runtimes \cup {Nobody}, old : BOOLEAN]

\* change: the change it makes; base: what it read; took: the lock file it
\* moved out of the way when it released.
Runtime == [at : {"idle", "lock", "stat", "steal", "read", "write", "release", "check"},
            memory : SUBSET Changes, change : 0 .. MaxShared,
            base : SUBSET Changes, stored : BOOLEAN, took : LockFiles]

RuntimeStateTypeOK ==
  /\ sharedFile \subseteq Changes /\ confirmed \subseteq Changes
  /\ stateLock \in LockFiles
  /\ runtimes \in [Runtimes -> Runtime]
  /\ misjudged \in BOOLEAN

IdleRuntime == [at |-> "idle", memory |-> {}, change |-> 0, base |-> {},
                stored |-> FALSE, took |-> NoLockFile]

RuntimeStateInit ==
  /\ sharedFile = {} /\ confirmed = {}
  /\ stateLock = NoLockFile
  /\ runtimes = [r \in Runtimes |-> IdleRuntime]
  /\ misjudged = FALSE

-----------------------------------------------------------------------------

Begun == sharedFile \cup confirmed \cup
         UNION {runtimes[r].memory \cup {runtimes[r].change} : r \in Runtimes}
\* The least number no change has.
Fresh(n) == n \notin Begun /\ 1 .. (n - 1) \subseteq Begun

GoesTo(r, place) == runtimes' = [runtimes EXCEPT ![r].at = place]

\* mutateSharedState; the changes of one process follow one another.
BeginChange(r, n) ==
  /\ runtimes[r].at = "idle" /\ Fresh(n)
  /\ runtimes' = [runtimes EXCEPT ![r] = [@ EXCEPT !.at = "lock", !.change = n]]
  /\ UNCHANGED <<sharedFile, stateLock, confirmed, misjudged>>

\* refreshSharedState
RefreshMemory(r) ==
  /\ runtimes[r].at = "idle"
  /\ runtimes' = [runtimes EXCEPT ![r].memory = sharedFile]
  /\ UNCHANGED <<sharedFile, stateLock, confirmed, misjudged>>

TakeLock(r) ==
  /\ runtimes[r].at = "lock"
  /\ IF stateLock = NoLockFile
     THEN stateLock' = [by |-> r, old |-> FALSE] /\ GoesTo(r, "read")
     ELSE GoesTo(r, "stat") /\ UNCHANGED stateLock
  /\ UNCHANGED <<sharedFile, confirmed, misjudged>>

\* The change was not stored: unless the caller forbids it, the memory alone
\* is changed.
NotStored(r, memory) ==
  runtimes' = [runtimes EXCEPT ![r] = [IdleRuntime EXCEPT !.memory = memory]]

\* recoverStaleLock looks at the age of the lock file; after 10 s of waiting
\* the change is given up.
LookAtLock(r) ==
  /\ runtimes[r].at = "stat"
  /\ \/ stateLock.old /\ GoesTo(r, "steal")
     \/ ~stateLock.old /\ GoesTo(r, "lock")
     \/ \E memory \in {runtimes[r].memory, runtimes[r].memory \cup {runtimes[r].change}} :
          NotStored(r, memory)
  /\ UNCHANGED <<sharedFile, stateLock, confirmed, misjudged>>

Holding(r) == runtimes[r].at \in {"read", "write", "release"}

\* The lock file that lies there now is removed, whichever it is.
StealLock(r) ==
  /\ runtimes[r].at = "steal"
  /\ stateLock' = NoLockFile
  /\ misjudged' = (misjudged \/ (stateLock.by # Nobody /\ Holding(stateLock.by)))
  /\ GoesTo(r, "lock")
  /\ UNCHANGED <<sharedFile, confirmed>>

ReadShared(r) ==
  /\ runtimes[r].at = "read"
  /\ \/ runtimes' = [runtimes EXCEPT ![r] = [@ EXCEPT !.at = "write", !.base = sharedFile]]
     \/ "io_error" \in StateFaults /\ GoesTo(r, "release")
  /\ UNCHANGED <<sharedFile, stateLock, confirmed, misjudged>>

\* Mutant: the change is made to what the runtime holds in memory.
BaseInMemory(r) == runtimes[r].memory
\* The change is made to what was read under the lock.
Base(r) == runtimes[r].base

\* writeSharedRecoverySnapshot and atomicWriteJson
WriteShared(r) ==
  /\ runtimes[r].at = "write"
  /\ \/ /\ sharedFile' = Base(r) \cup {runtimes[r].change}
        /\ runtimes' = [runtimes EXCEPT ![r] = [@ EXCEPT !.at = "release", !.stored = TRUE, !.base = sharedFile']]
     \/ "io_error" \in StateFaults /\ GoesTo(r, "release") /\ UNCHANGED sharedFile
  /\ UNCHANGED <<stateLock, confirmed, misjudged>>

\* releaseLock moves the lock file out of the way before it reads it ...
Release(r) ==
  /\ runtimes[r].at = "release"
  /\ runtimes' = [runtimes EXCEPT ![r] = [@ EXCEPT !.at = "check", !.took = stateLock]]
  /\ stateLock' = NoLockFile
  /\ UNCHANGED <<sharedFile, confirmed, misjudged>>

\* ... and puts another runtime's back, over what may lie there by now.
CheckReleased(r) ==
  /\ runtimes[r].at = "check"
  /\ stateLock' = IF runtimes[r].took.by \in {r, Nobody} THEN stateLock ELSE runtimes[r].took
  /\ IF runtimes[r].stored
     THEN /\ NotStored(r, runtimes[r].base)
          /\ confirmed' = confirmed \cup {runtimes[r].change}
     ELSE /\ \E memory \in {runtimes[r].memory, runtimes[r].memory \cup {runtimes[r].change}} :
               NotStored(r, memory)
          /\ UNCHANGED confirmed
  /\ UNCHANGED <<sharedFile, misjudged>>

\* Thirty seconds pass over the lock of a runtime that is gone.
LockAges ==
  /\ stateLock.by # Nobody /\ ~stateLock.old /\ ~Holding(stateLock.by)
  /\ stateLock' = [stateLock EXCEPT !.old = TRUE]
  /\ UNCHANGED <<sharedFile, runtimes, confirmed, misjudged>>

RuntimeCrashes(r) ==
  /\ "crash" \in StateFaults /\ runtimes[r].at # "idle"
  /\ runtimes' = [runtimes EXCEPT ![r] = IdleRuntime]
  /\ UNCHANGED <<sharedFile, stateLock, confirmed, misjudged>>

RuntimeStep(r) ==
  \/ RefreshMemory(r) \/ TakeLock(r) \/ LookAtLock(r) \/ StealLock(r) \/ ReadShared(r)
  \/ WriteShared(r) \/ Release(r) \/ CheckReleased(r) \/ RuntimeCrashes(r)
  \/ \E n \in Changes : BeginChange(r, n)

RuntimeStateNext == LockAges \/ \E r \in Runtimes : RuntimeStep(r)

RuntimeStateSpec == RuntimeStateInit /\ [][RuntimeStateNext]_stateVars

-----------------------------------------------------------------------------

\* A change reported as stored stays in the shared file, whatever the other
\* runtimes store before and after it and wherever they stop, as long as no
\* lock file was mistaken for a stale one that had just been replaced.
\* (updateShared and withFileLock: upgrade-runtime-state-store.ts:90-102, 225-249)
ConfirmedChangeStands == ~misjudged => confirmed \subseteq sharedFile
=============================================================================
