---------------------------- MODULE TunnelLock ----------------------------
(***************************************************************************)
(* The lock file of a tunnel profile, taken and released by the processes  *)
(* of one user: desktops, and launchers, which run the PowerShell script   *)
(* and keep to the same steps.  A named mutex guards both, held for a      *)
(* desktop by a helper process; the file is moved aside and its content    *)
(* compared before it is replaced or removed, and is only ever created     *)
(* where none exists.                                                      *)
(***************************************************************************)
EXTENDS Naturals

CONSTANTS
  Procs,      \* processes that share the profile, each known by its pid
  Launchers,  \* those of them that run start-detunnel-tunnel.ps1
  MaxLives,   \* bound: how often a process is started
  LockFaults  \* "crash", "helper_dies", "unverifiable", "delete_fails", "restore_fails"

ASSUME TunnelLockAssumption ==
  /\ MaxLives \in Nat \ {0} /\ "none" \notin Procs /\ Launchers \subseteq Procs
  /\ LockFaults \subseteq {"crash", "helper_dies", "unverifiable", "delete_fails", "restore_fails"}

VARIABLES
  mutex,      \* the process whose helper holds the mutex
  lockFile,   \* the owner recorded in the lock file
  users,      \* per process: where it stands, and what it read
  aside,      \* per process: the record it has moved aside
  lost        \* history: a helper was killed, and the mutex with it, or a record
              \* could not be put back

lockVars == <<mutex, lockFile, users, aside, lost>>

NoOwner == [pid |-> "none", life |-> 0]
Owners == [pid : Procs, life : 1 .. MaxLives] \cup {NoOwner}

TunnelLockTypeOK ==
  /\ mutex \in Procs \cup {"none"}
  /\ lockFile \in Owners
  /\ users \in [Procs -> [life : 0 .. MaxLives, claim : BOOLEAN, seen : Owners,
       at : {"out", "read", "probe", "publish", "move", "verify", "link", "tidy",
             "let_go", "take_down", "taken_down", "leave"}]]
  /\ aside \in [Procs -> Owners]
  /\ lost \in BOOLEAN

\* life 0: the process does not run.
NoUser == [life |-> 0, claim |-> FALSE, seen |-> NoOwner, at |-> "out"]

\* A lock left by a process of an earlier boot may be there.
TunnelLockInit ==
  /\ mutex = "none"
  /\ lockFile \in {NoOwner} \cup [pid : Procs, life : {1}]
  /\ users = [p \in Procs |-> NoUser]
  /\ aside = [p \in Procs |-> NoOwner]
  /\ lost = FALSE

Me(p) == [pid |-> p, life |-> users[p].life]

\* Who holds the lock: the processes that run and were told so.
Holders == {p \in Procs : users[p].life > 0 /\ users[p].claim}

\* p goes on to another place.
GoTo(p, place) == users' = [users EXCEPT ![p].at = place]

-----------------------------------------------------------------------------
(* withTunnelLockCriticalSection, Invoke-DetunnelTunnelLockCriticalSection *)

EnterSection(p, place) ==
  /\ users[p].at = "out" /\ users[p].life > 0
  /\ mutex = "none" /\ mutex' = p
  /\ GoTo(p, place)
  /\ UNCHANGED <<lockFile, aside, lost>>

ReleaseMutex(p) == mutex' = IF mutex = p THEN "none" ELSE mutex

\* A launcher that was refused the lock, or is through with it, ends.
Through(p) == p \in Launchers /\ ~users[p].claim

LeaveSection(p) ==
  /\ users[p].at = "leave" /\ ~Through(p)
  /\ GoTo(p, "out") /\ ReleaseMutex(p)
  /\ UNCHANGED <<lockFile, aside, lost>>

EndScript(p) ==
  /\ users[p].at = "leave" /\ Through(p)
  /\ users' = [users EXCEPT ![p] = NoUser] /\ ReleaseMutex(p)
  /\ UNCHANGED <<lockFile, aside, lost>>

-----------------------------------------------------------------------------
(* acquireTunnelLock, Enter-DetunnelTunnelLock                             *)

\* Neither the controller nor the script asks for a lock it holds.
BeginAcquire(p) == ~users[p].claim /\ EnterSection(p, "read")

ReadLock(p) ==
  /\ users[p].at = "read"
  /\ users' = [users EXCEPT ![p] = [@ EXCEPT !.seen = lockFile,
                                                !.at = IF lockFile = NoOwner THEN "publish" ELSE "probe"]]
  /\ UNCHANGED <<mutex, lockFile, aside, lost>>

\* Mutant: no owner is found to be live.
LiveOwnerNever(owner) == FALSE
\* A live process is the owner only if it started when the owner did.
LiveOwner(owner) == users[owner.pid].life = owner.life

ProbeOwner(p) ==
  /\ users[p].at = "probe"
  /\ \/ LiveOwner(users[p].seen) /\ GoTo(p, "leave")
     \/ ~LiveOwner(users[p].seen) /\ GoTo(p, "move")
     \/ "unverifiable" \in LockFaults /\ GoTo(p, "leave")
  /\ UNCHANGED <<mutex, lockFile, aside, lost>>

Publish(p) == lockFile = NoOwner /\ lockFile' = Me(p)

PublishOwner(p) ==
  /\ users[p].at = "publish"
  /\ \/ /\ Publish(p)
        /\ users' = [users EXCEPT ![p] = [@ EXCEPT !.claim = TRUE, !.at = "leave"]]
     \/ /\ lockFile # NoOwner
        /\ GoTo(p, "leave") /\ UNCHANGED lockFile
  /\ UNCHANGED <<mutex, aside, lost>>

\* The file is moved aside, to be looked at again.
Aside(p) ==
  /\ lockFile # NoOwner
  /\ aside' = [aside EXCEPT ![p] = lockFile] /\ lockFile' = NoOwner

\* The record moved aside goes back, unless there is another one by now; its
\* link may fail, too, and then the record is gone.
Restore(p) ==
  /\ \/ /\ lockFile' = IF lockFile = NoOwner THEN aside[p] ELSE lockFile
        /\ UNCHANGED lost
     \/ /\ "restore_fails" \in LockFaults /\ lockFile = NoOwner
        /\ lost' = TRUE /\ UNCHANGED lockFile
  /\ aside' = [aside EXCEPT ![p] = NoOwner]

MoveStaleOwner(p) ==
  /\ users[p].at = "move"
  /\ \/ Aside(p) /\ GoTo(p, "verify")
     \/ lockFile = NoOwner /\ GoTo(p, "leave") /\ UNCHANGED <<lockFile, aside>>
  /\ UNCHANGED <<mutex, lost>>

VerifyStaleOwner(p) ==
  /\ users[p].at = "verify"
  /\ \/ aside[p] = users[p].seen /\ GoTo(p, "link") /\ UNCHANGED <<lockFile, aside, lost>>
     \/ aside[p] # users[p].seen /\ GoTo(p, "leave") /\ Restore(p)
  /\ UNCHANGED mutex

LinkOwner(p) ==
  /\ users[p].at = "link"
  /\ \/ /\ Publish(p)
        /\ users' = [users EXCEPT ![p] = [@ EXCEPT !.claim = TRUE, !.at = "tidy"]]
        /\ UNCHANGED <<aside, lost>>
     \/ /\ lockFile # NoOwner
        /\ GoTo(p, "leave") /\ Restore(p)
  /\ UNCHANGED mutex

Tidy(p) ==
  /\ users[p].at = "tidy" /\ GoTo(p, "leave")
  /\ aside' = [aside EXCEPT ![p] = NoOwner]
  /\ UNCHANGED <<mutex, lockFile, lost>>

-----------------------------------------------------------------------------
(* release, Release-DetunnelTunnelLock                                     *)

BeginRelease(p) == users[p].claim /\ EnterSection(p, "let_go")

\* A release that could not be confirmed leaves the claim with the controller;
\* a launcher throws and ends.
NotReleased(p) ==
  users' = [users EXCEPT ![p] = [@ EXCEPT !.claim = p \notin Launchers, !.at = "leave"]]

CheckOwn(p) ==
  /\ users[p].at = "let_go"
  /\ \/ lockFile = Me(p) /\ GoTo(p, "take_down")
     \/ lockFile # Me(p) /\ NotReleased(p)
  /\ UNCHANGED <<mutex, lockFile, aside, lost>>

TakeDown(p) ==
  /\ users[p].at = "take_down"
  /\ \/ Aside(p) /\ GoTo(p, "taken_down")
     \/ lockFile = NoOwner /\ NotReleased(p) /\ UNCHANGED <<lockFile, aside>>
  /\ UNCHANGED <<mutex, lost>>

VerifyTakenDown(p) ==
  /\ users[p].at = "taken_down"
  /\ \/ /\ aside[p] = Me(p) /\ aside' = [aside EXCEPT ![p] = NoOwner]
        /\ users' = [users EXCEPT ![p] = [@ EXCEPT !.claim = FALSE, !.at = "leave"]]
        /\ UNCHANGED <<lockFile, lost>>
     \/ /\ aside[p] # Me(p) \/ "delete_fails" \in LockFaults
        /\ NotReleased(p) /\ Restore(p)
  /\ UNCHANGED mutex

-----------------------------------------------------------------------------
(* Processes start and stop; the helper may be killed on its own          *)

StartProcess(p) ==
  /\ users[p].life = 0
  /\ \E life \in 1 .. MaxLives :
       /\ lockFile.pid = p => life > lockFile.life
       /\ \A q \in Procs : (aside[q].pid = p => life > aside[q].life)
                           /\ (users[q].seen.pid = p => life > users[q].seen.life)
       /\ users' = [users EXCEPT ![p] = [NoUser EXCEPT !.life = life]]
  /\ UNCHANGED <<mutex, lockFile, aside, lost>>

\* What it moved aside stays there, of no use to anyone.
Crash(p) ==
  /\ "crash" \in LockFaults /\ users[p].life > 0
  /\ users' = [users EXCEPT ![p] = NoUser] /\ ReleaseMutex(p)
  /\ aside' = [aside EXCEPT ![p] = NoOwner]
  /\ UNCHANGED <<lockFile, lost>>

HelperDies(p) ==
  /\ "helper_dies" \in LockFaults /\ mutex = p /\ p \notin Launchers
  /\ mutex' = "none" /\ lost' = TRUE
  /\ UNCHANGED <<lockFile, users, aside>>

-----------------------------------------------------------------------------

UserStep(p) ==
  \/ BeginAcquire(p) \/ ReadLock(p) \/ ProbeOwner(p) \/ PublishOwner(p)
  \/ MoveStaleOwner(p) \/ VerifyStaleOwner(p) \/ LinkOwner(p) \/ Tidy(p)
  \/ BeginRelease(p) \/ CheckOwn(p) \/ TakeDown(p) \/ VerifyTakenDown(p)
  \/ LeaveSection(p) \/ EndScript(p) \/ StartProcess(p) \/ Crash(p) \/ HelperDies(p)

TunnelLockNext == \E p \in Procs : UserStep(p)

TunnelLockSpec == TunnelLockInit /\ [][TunnelLockNext]_lockVars

-----------------------------------------------------------------------------
(* Properties                                                             *)

Abstract == INSTANCE AbstractLock WITH holders <- IF lost THEN {} ELSE Holders

\* The lock file is a lock: it passes from a process that runs to another
\* only by a release, whoever crashes in the middle of a takeover or a release
\* and restarts under the same pid, as long as nobody kills a mutex helper and
\* a record moved aside can be put back.
\* (acquireTunnelLock, replaceVerifiedStaleOwner, release: tunnel-lock.ts:44-152)
ImplementsLock == Abstract!LockSpec
=============================================================================
