--------------------------- MODULE AbstractLock ---------------------------
(***************************************************************************)
(* What the tunnel lock promises: of all processes that run, at most one   *)
(* holds it.  A holder that dies holds nothing.                            *)
(***************************************************************************)
CONSTANT Procs

VARIABLE holders

LockFree == holders = {}

Take(p) == LockFree /\ holders' = {p}

LetGo == holders' = {}

LockSpec == LockFree /\ [][LetGo \/ \E p \in Procs : Take(p)]_holders
=============================================================================
