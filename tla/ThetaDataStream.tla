-------------------------- MODULE ThetaDataStream --------------------------
(***************************************************************************)
(* ThetaDataOptionsProvider (providers/thetadata.py): on every connection  *)
(* it asks for each contract and request type anew, under fresh request    *)
(* ids, matches the Terminal's answers by id, lets data through only for   *)
(* contracts acknowledged on this connection, and tells the runner once    *)
(* every request it ever made is acknowledged.                             *)
(*                                                                         *)
(* The provider takes an answer to any request it ever made.  The Terminal *)
(* is external: on a connection it answers a request of that connection, at*)
(* any time, more than once, or never, with SUBSCRIBED or a rejection, and *)
(* sends data for any contract (TerminalAnswers, Data).  Diagnostics are   *)
(* not modelled, and `connected` is true whenever a message is read.       *)
(***************************************************************************)
EXTENDS ReconnectingStream, Sequences, FiniteSets, SequencesExt

CONSTANTS
    Contract,        \* the provider's contracts
    RequestType,     \* its request_types
    MaxGenerations   \* bound: connections opened

ASSUME ThetaConstantsOK == /\ IsFiniteSet(Contract) /\ Contract # {}
                           /\ IsFiniteSet(RequestType) /\ RequestType # {}
                           /\ MaxGenerations \in Nat

VARIABLES
    generation,              \* connection_generation
    request_registry,        \* request_registry, its keys are 1 .. its length
    outstanding,             \* outstanding: requests without an acknowledgement
    acknowledged_ids,        \* acknowledged_ids
    acknowledged_contracts,  \* acknowledged_contracts
    signalled,               \* "subscriptions_acknowledged" was reported
    delivered                \* history: contracts with data on this connection

subscriptions == <<generation, request_registry, outstanding, acknowledged_ids,
                   acknowledged_contracts, signalled, delivered>>
vars == <<loop, subscriptions>>

Response == {"SUBSCRIBED", "MAX_STREAMS_REACHED"}
Ids == DOMAIN request_registry
Current == {id \in Ids : request_registry[id].generation = generation}

Init ==
    /\ LoopInit
    /\ generation = 0
    /\ request_registry = <<>>
    /\ outstanding = {}
    /\ acknowledged_ids = {}
    /\ acknowledged_contracts = {}
    /\ signalled = FALSE
    /\ delivered = {}
-----------------------------------------------------------------------------
(* subscription_payloads: the requests of one connection.                  *)
Requests(g) ==
    LET wanted == SetToSeq(Contract \X RequestType)
    IN  [i \in DOMAIN wanted |->
            [contract |-> wanted[i][1], type |-> wanted[i][2], generation |-> g]]

(* Mutant: a reconnection keeps the acknowledged contracts.                *)
ContractsKept == acknowledged_contracts
ContractsAtConnect == {}

(* Mutant: the requests left over from the last connection are dropped.    *)
OutstandingDropped(ids) == ids
OutstandingAtConnect(ids) == outstanding \cup ids

(* The socket opens; the provider forgets which contracts are acknowledged *)
(* and subscribes again.                                                   *)
OpenConnection ==
    /\ Opened
    /\ generation < MaxGenerations
    /\ generation' = generation + 1
    /\ acknowledged_contracts' = ContractsAtConnect
    /\ request_registry' = request_registry \o Requests(generation')
    /\ outstanding' = OutstandingAtConnect(DOMAIN request_registry' \ Ids)
    /\ delivered' = {}
    /\ UNCHANGED <<acknowledged_ids, signalled>>

(* Mutant: as many acknowledgements as this connection has requests.       *)
EnoughAcknowledged(ids) == Cardinality(ids) >= Cardinality(Current)
AllAcknowledged(ids) == Cardinality(ids) = Len(request_registry)

(* _observe_control: an answer to a request that was made, on whichever    *)
(* connection; a repeated one and a rejection change nothing but           *)
(* diagnostics.                                                            *)
Answer(id, response) ==
    /\ phase = "open"
    /\ id \in Ids
    /\ IF id \notin acknowledged_ids /\ response = "SUBSCRIBED"
       THEN /\ outstanding' = outstanding \ {id}
            /\ acknowledged_ids' = acknowledged_ids \cup {id}
            /\ acknowledged_contracts' =
                  acknowledged_contracts \cup {request_registry[id].contract}
            /\ signalled' = (signalled \/ AllAcknowledged(acknowledged_ids'))
       ELSE UNCHANGED <<outstanding, acknowledged_ids, acknowledged_contracts, signalled>>
    /\ UNCHANGED <<loop, generation, request_registry, delivered>>

(* The Terminal knows only the requests of the open connection: an answer  *)
(* to an earlier one went down with its connection.                        *)
TerminalAnswers == \E id \in Current, response \in Response : Answer(id, response)

(* _normalize: data of an acknowledged contract is yielded, other data is  *)
(* dropped.                                                                *)
Data(c) ==
    /\ c \in acknowledged_contracts
    /\ Item
    /\ delivered' = delivered \cup {c}
    /\ UNCHANGED <<generation, request_registry, outstanding, acknowledged_ids,
                   acknowledged_contracts, signalled>>

LoopStep ==
    /\ Connect \/ Retryable \/ Fatal \/ Completes \/ Backoff
    /\ UNCHANGED subscriptions

Next ==
    \/ LoopStep
    \/ OpenConnection
    \/ TerminalAnswers
    \/ \E c \in Contract : Data(c)

(* The event loop runs the loop's own steps: a sleep ends, a connect call  *)
(* begins.  Nothing is assumed of the network or the Terminal.             *)
Fairness == WF_vars(LoopStep /\ (Connect \/ Backoff))

Spec == Init /\ [][Next]_vars /\ Fairness
-----------------------------------------------------------------------------
(* Type invariant of the loop and the subscriptions.                       *)
TypeOK ==
    /\ phase \in Phase
    /\ attempt \in 0 .. MaxAttempts
    /\ fruitless \in 0 .. MaxFailures
    /\ generation \in 0 .. MaxGenerations
    /\ request_registry \in Seq([contract : Contract, type : RequestType, generation : Nat])
    /\ outstanding = Ids \ acknowledged_ids
    /\ acknowledged_ids \subseteq Ids
    /\ acknowledged_contracts \subseteq Contract
    /\ signalled \in BOOLEAN
    /\ delivered \subseteq Contract

(* Data is let through only for a contract with a request of this very     *)
(* connection that the Terminal has acknowledged, however often the stream *)
(* was interrupted ("acknowledged-contract event gating").                 *)
DataAcknowledged ==
    \A c \in delivered : \E id \in Current \cap acknowledged_ids :
        request_registry[id].contract = c

(* The runner is told that the subscriptions are acknowledged, and starts  *)
(* its observation, only when every request of the open connection is.     *)
SignalMeansAll ==
    [][(signalled' /\ ~signalled) => Current' \subseteq acknowledged_ids']_vars

(* CURRENT_STATE.md:538 "waits for correlated ThetaData acknowledgements": *)
(* when every request of the open connection is acknowledged, the runner   *)
(* has been told.                                                          *)
AcknowledgedSignalled ==
    (phase = "open" /\ Current \subseteq acknowledged_ids) => signalled
=============================================================================
