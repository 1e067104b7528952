---------------------------- MODULE Synchronizer ----------------------------
(***************************************************************************)
(* The synchronizers of the pipeline (synchronization.py), one per symbol: *)
(* each keeps the last event of every kind and the last sequence number    *)
(* of it.  A kind has one source, so the source is left out of the keys.   *)
(***************************************************************************)
EXTENDS Integers

CONSTANTS
    Symbol,          \* the pipeline's symbols
    Kind,            \* EventKind: the kinds a snapshot needs, all alike
    MaxStaleness     \* max_staleness

ASSUME SynchronizerConstantsOK == "options" \in Kind /\ MaxStaleness \in Nat

VARIABLES
    held,            \* _events: at most one event of each kind
    last_sequence    \* _last_sequence

synchronizer == <<held, last_sequence>>

NoSequence == -1

SynchronizerInit ==
    /\ held = [s \in Symbol |-> [kind \in Kind |-> {}]]
    /\ last_sequence = [s \in Symbol |-> [kind \in Kind |-> NoSequence]]

InSequence(s, e) == e.sequence > last_sequence[s][e.kind]
NotOlder(s, e) == \A h \in held[s][e.kind] : e.at >= h.at
Accepts(s, e) == InSequence(s, e) /\ NotOlder(s, e)

(* add, to the synchronizers of several symbols: an event that is in       *)
(* sequence but older than the one held moves the sequence only.           *)
Add(targets, e) ==
    /\ last_sequence' = [s \in Symbol |->
          IF s \in targets /\ InSequence(s, e)
          THEN [last_sequence[s] EXCEPT ![e.kind] = e.sequence]
          ELSE last_sequence[s]]
    /\ held' = [s \in Symbol |->
          IF s \in targets /\ Accepts(s, e) THEN [held[s] EXCEPT ![e.kind] = {e}]
                                            ELSE held[s]]

(* snapshot: there is one, if stale events are allowed or not.             *)
Complete(s) == \A kind \in Kind : held[s][kind] # {}
Current(s, as_of) ==
    /\ Complete(s)
    /\ \A kind \in Kind : \A e \in held[s][kind] : as_of - e.at <= MaxStaleness

Inputs(s) == {e.id : e \in UNION {held[s][kind] : kind \in Kind}}

(* Mutant: only the sequences start again.                                 *)
ResetSequences ==
    /\ last_sequence' = [s \in Symbol |-> [kind \in Kind |-> NoSequence]]
    /\ UNCHANGED held
(* reset_session.                                                          *)
ResetSynchronizers ==
    /\ held' = [s \in Symbol |-> [kind \in Kind |-> {}]]
    /\ last_sequence' = [s \in Symbol |-> [kind \in Kind |-> NoSequence]]
=============================================================================
