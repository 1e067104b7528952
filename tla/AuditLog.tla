------------------------------ MODULE AuditLog ------------------------------
(***************************************************************************)
(* What the persistence path promises (REQ-AUD-001): accepted audit        *)
(* records become durable, nothing durable is ever taken back, and the     *)
(* store is at every moment, also after a crash, a state from which a      *)
(* replay is possible: a durable decision, quote consumption or sweep      *)
(* audit never precedes an event accepted before it.                       *)
(***************************************************************************)
EXTENDS Integers, Sequences

CONSTANTS
    Kind,        \* kinds of audit record
    Event,       \* the kind that replay reads back: canonical events
    Dependent,   \* the kinds that only make sense with the events before them
    MaxLog       \* bound on the records accepted

VARIABLES
    accepted,    \* kinds of the records accepted, in order
    durable      \* positions of the durable ones

(* Whatever is durable, the events accepted before it are durable too.     *)
Replayable(D) ==
    \A i \in D : accepted[i] \in Dependent =>
        \A j \in 1 .. i - 1 : accepted[j] = Event => j \in D

Init == accepted = <<>> /\ durable = {}

Accept(k) ==
    /\ Len(accepted) < MaxLog
    /\ accepted' = Append(accepted, k)
    /\ UNCHANGED durable

Persist ==
    /\ durable' \in {D \in SUBSET DOMAIN accepted : durable \subseteq D /\ Replayable(D)}
    /\ UNCHANGED accepted

Next == Persist \/ \E k \in Kind : Accept(k)

Spec == Init /\ [][Next]_<<accepted, durable>>
=============================================================================
