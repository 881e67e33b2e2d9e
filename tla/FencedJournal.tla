---------------------------- MODULE FencedJournal ----------------------------
(***************************************************************************)
(* What a durable goal promises its workers: an append-only journal with   *)
(* one fenced writer at a time.  Write authority is issued in numbered     *)
(* generations; only the holder of the latest one may append, until it     *)
(* lets go or a later generation is issued.  The owner may close the       *)
(* journal at any time with a last entry of its own.                       *)
(***************************************************************************)
EXTENDS Integers, Sequences

VARIABLES
  issued,   \* the latest generation of write authority
  holder,   \* the generation that holds it now, 0 when nobody does
  log,      \* the generation that wrote each entry, 0 for the owner
  phase     \* "unborn", "open" or "closed"

fvars == <<issued, holder, log, phase>>

FInit == issued = 0 /\ holder = 0 /\ log = <<>> /\ phase = "unborn"

Open == phase = "unborn" /\ phase' = "open" /\ issued' = issued + 1
        /\ holder' = issued' /\ UNCHANGED log

Issue == phase = "open" /\ issued' = issued + 1 /\ holder' = issued'
         /\ UNCHANGED <<log, phase>>

Write == phase = "open" /\ holder # 0 /\ log' = Append(log, holder)
         /\ holder' \in {holder, 0} /\ UNCHANGED <<issued, phase>>

CloseByHolder == phase = "open" /\ holder # 0 /\ log' = Append(log, holder)
                 /\ holder' = 0 /\ phase' = "closed" /\ UNCHANGED issued

CloseByOwner == phase = "open" /\ log' = Append(log, 0)
                /\ holder' = 0 /\ phase' = "closed" /\ UNCHANGED issued

FNext == Open \/ Issue \/ Write \/ CloseByHolder \/ CloseByOwner

FSpec == FInit /\ [][FNext]_fvars
=============================================================================
