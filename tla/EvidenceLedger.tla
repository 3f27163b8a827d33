--------------------------- MODULE EvidenceLedger ---------------------------
(***************************************************************************)
(* What the memory store promises of its evidence, whatever requests do:   *)
(* README.md ("immutable memory version history", "Duplicate event IDs     *)
(* contribute nothing") and models.py (uq_observation_user_event_memory,   *)
(* the append-only observations and versions of a memory).                 *)
(*                                                                         *)
(* Every memory has a sequence of evidence events and a sequence of        *)
(* versions.  A write adds at the end of both, never the same event twice  *)
(* and never without a version; an erased memory is gone for good.         *)
(***************************************************************************)
EXTENDS Integers, Sequences

CONSTANTS
    MemoryId,
    NoEvent     \* the event of evidence that came without one

VARIABLES
    status,     \* "unused", "live" or "deleted", by memory
    evidence,   \* the event of every piece of evidence, in order
    history     \* the versions, in order

vars == <<status, evidence, history>>

Extends(longer, shorter) ==
    Len(shorter) <= Len(longer) /\ SubSeq(longer, 1, Len(shorter)) = shorter

NoRepeats(events) ==
    \A i, j \in DOMAIN events : events[i] = events[j] /\ events[i] # NoEvent => i = j

Init ==
    /\ status = [m \in MemoryId |-> "unused"]
    /\ evidence = [m \in MemoryId |-> <<>>]
    /\ history = [m \in MemoryId |-> <<>>]

Written(m) ==
    /\ status[m] # "deleted" /\ status'[m] = "live"
    /\ Extends(evidence'[m], evidence[m])
    /\ NoRepeats(evidence'[m])
    /\ Extends(history'[m], history[m])
    /\ Len(history'[m]) > Len(history[m])

Erased(m) ==
    /\ status[m] = "live" /\ status'[m] = "deleted"
    /\ evidence'[m] = <<>> /\ history'[m] = <<>>

Kept(m) ==
    /\ status'[m] = status[m]
    /\ evidence'[m] = evidence[m]
    /\ history'[m] = history[m]

Next == \A m \in MemoryId : Written(m) \/ Erased(m) \/ Kept(m)

Spec == Init /\ [][Next]_vars
=============================================================================
