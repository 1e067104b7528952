------------------------- MODULE ReconnectingStream -------------------------
(***************************************************************************)
(* reconnecting_stream (providers/common.py): the loop that connects to a  *)
(* provider, hands on its items and connects again after a failure that    *)
(* can be retried.                                                         *)
(***************************************************************************)
EXTENDS Integers

CONSTANTS
    MaxAttempts,     \* max_attempts
    MaxFailures      \* bound: failures in a row

ASSUME StreamConstantsOK == MaxAttempts \in Nat \ {0} /\ MaxFailures \in Nat

VARIABLES
    phase,           \* where the loop is
    attempt,         \* attempt
    fruitless        \* history: failures since an item was last received

loop == <<phase, attempt, fruitless>>

Phase == {"looping", "connecting", "open", "waiting", "ended", "raised"}

LoopInit == phase = "looping" /\ attempt = 0 /\ fruitless = 0

MayTry == attempt < MaxAttempts

(* The head of the loop.  connect() only makes the generator, so nothing   *)
(* has been reached when the attempts are counted from zero again.         *)
Connect ==
    /\ phase = "looping"
    /\ attempt' = IF MayTry THEN 0 ELSE attempt
    /\ phase' = IF MayTry THEN "connecting" ELSE "ended"
    /\ UNCHANGED fruitless

Opened ==
    /\ phase = "connecting"
    /\ phase' = "open"
    /\ UNCHANGED <<attempt, fruitless>>

Item ==
    /\ phase = "open"
    /\ fruitless' = 0
    /\ UNCHANGED <<phase, attempt>>

(* A ProviderError that is retryable, a timeout or an OSError.             *)
Retryable ==
    /\ phase \in {"connecting", "open"}
    /\ fruitless < MaxFailures
    /\ fruitless' = fruitless + 1
    /\ attempt' = attempt + 1
    /\ phase' = IF attempt' >= MaxAttempts THEN "raised" ELSE "waiting"

(* Any other exception leaves the loop.                                    *)
Fatal ==
    /\ phase \in {"connecting", "open"}
    /\ phase' = "raised"
    /\ UNCHANGED <<attempt, fruitless>>

(* The provider closes the stream in good order.                           *)
Completes ==
    /\ phase = "open"
    /\ phase' = "ended"
    /\ UNCHANGED <<attempt, fruitless>>

(* The backoff sleep is over.                                              *)
Backoff ==
    /\ phase = "waiting"
    /\ phase' = "looping"
    /\ UNCHANGED <<attempt, fruitless>>
=============================================================================
