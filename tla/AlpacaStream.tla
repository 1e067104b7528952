---------------------------- MODULE AlpacaStream ----------------------------
(***************************************************************************)
(* AlpacaEquitiesProvider (providers/alpaca.py): on every connection it    *)
(* sends its key pair, waits for the answer if it has never had one, and   *)
(* subscribes.  `authenticated` belongs to the provider, not to the        *)
(* connection.                                                             *)
(*                                                                         *)
(* Alpaca's server is external: it sends what it likes, when it likes, and *)
(* closes the connection at any time.                                      *)
(***************************************************************************)
EXTENDS ReconnectingStream

CONSTANT MaxConnections  \* bound: connections opened

ASSUME AlpacaConstantsOK == MaxConnections \in Nat

VARIABLES
    authenticated,           \* authenticated
    connection_generation,   \* connection_generation
    stage,                   \* how far _connection has come
    rejected                 \* history: an error frame was read

alpaca_subscription == <<authenticated, connection_generation, stage, rejected>>
alpaca_vars == <<loop, alpaca_subscription>>

Stage == {"closed", "authenticating", "streaming"}
Frame == {"connected", "authenticated", "error", "data"}

AlpacaInit ==
    /\ LoopInit
    /\ authenticated = FALSE
    /\ connection_generation = 0
    /\ stage = "closed"
    /\ rejected = FALSE
-----------------------------------------------------------------------------
(* The socket opens and the key pair is sent.  A provider that is already  *)
(* authenticated subscribes without waiting.                               *)
AlpacaConnection ==
    /\ Opened
    /\ connection_generation < MaxConnections
    /\ connection_generation' = connection_generation + 1
    /\ stage' = IF authenticated THEN "streaming" ELSE "authenticating"
    /\ UNCHANGED <<authenticated, rejected>>

(* Mutant: a rejection is tried again like any other failure.              *)
RejectedRetryable == Retryable
(* ProviderError(.., retryable=False).                                     *)
Rejected == Fatal

(* An error frame, read while waiting or while streaming.                  *)
ErrorFrame ==
    /\ stage # "closed"
    /\ Rejected
    /\ rejected' = TRUE
    /\ stage' = "closed"
    /\ UNCHANGED <<authenticated, connection_generation>>

(* _authentication_result: any frame but the answer keeps it waiting.      *)
AuthFrame(frame) ==
    /\ stage = "authenticating"
    /\ authenticated' = (frame = "authenticated")
    /\ stage' = IF authenticated' THEN "streaming" ELSE stage
    /\ UNCHANGED <<loop, connection_generation, rejected>>

(* A frame of the stream: data is yielded, everything else ignored.        *)
StreamFrame(frame) ==
    /\ stage = "streaming"
    /\ IF frame = "data" THEN Item ELSE UNCHANGED loop
    /\ UNCHANGED <<authenticated, connection_generation, stage, rejected>>

(* Mutant: nothing bounds the wait.                                        *)
NoTimeout == FALSE
(* asyncio.timeout around the wait.                                        *)
TimeoutArmed == stage = "authenticating"

AuthTimeout ==
    /\ TimeoutArmed
    /\ Retryable
    /\ stage' = "closed"
    /\ UNCHANGED <<authenticated, connection_generation, rejected>>

(* The connection cannot be opened, is closed, or sends a malformed frame; *)
(* an exception nobody converts leaves the loop; a stream that is closed   *)
(* in good order ends.                                                     *)
Interrupted ==
    /\ Retryable \/ Fatal \/ (stage = "streaming" /\ Completes)
    /\ stage' = "closed"
    /\ UNCHANGED <<authenticated, connection_generation, rejected>>

AlpacaLoopStep ==
    /\ Connect \/ Backoff
    /\ UNCHANGED alpaca_subscription

AlpacaNext ==
    \/ AlpacaLoopStep
    \/ AlpacaConnection
    \/ ErrorFrame
    \/ \E frame \in Frame \ {"error"} : AuthFrame(frame) \/ StreamFrame(frame)
    \/ AuthTimeout
    \/ Interrupted

(* asyncio runs the loop's own steps and fires the timeout; nothing is     *)
(* assumed of the network or the server.                                   *)
AlpacaFairness ==
    /\ WF_alpaca_vars(AlpacaLoopStep)
    /\ WF_alpaca_vars(AuthTimeout)

AlpacaSpec == AlpacaInit /\ [][AlpacaNext]_alpaca_vars /\ AlpacaFairness
-----------------------------------------------------------------------------
(* An error frame is final: after a rejected key, or a rejected            *)
(* subscription on a later connection, the provider never connects again,  *)
(* whatever the retry loop was doing (alpaca.py:42, 67).                   *)
RejectionFinal ==
    [][rejected => UNCHANGED <<connection_generation, phase>>]_alpaca_vars

(* The wait for an answer ends, though the server may send other frames    *)
(* for ever or nothing at all (alpaca.py:57); only the bound on failures   *)
(* may stop the model before.                                              *)
AuthenticationEnds ==
    (stage = "authenticating" /\ fruitless < MaxFailures) ~> (stage # "authenticating")
=============================================================================
