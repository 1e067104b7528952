----------------------------- MODULE StreamProofs -----------------------------
(***************************************************************************)
(* Proofs about the streams of the two providers, for any number of          *)
(* connections and attempts.                                                 *)
(*                                                                           *)
(* ThetaData, every set of contracts and request types: Gate is inductive    *)
(* because a connection starts with both sets empty and a contract enters    *)
(* the first only with an answer to a request of the connection.  The        *)
(* signal rests on counting: the acknowledged ids are among the registered   *)
(* ones, so as many as there are registered requests are all of them.        *)
(*                                                                           *)
(* Alpaca: that the loop has raised is not enough for a rejection to be      *)
(* final, as a frame could still arrive on an open connection.  The          *)
(* invariant adds that a rejection has closed it, and that an open           *)
(* connection is known to the loop.                                          *)
(***************************************************************************)
EXTENDS ThetaDataStream, AlpacaStream, FiniteSetTheorems, SequenceTheorems, TLAPS

Request == [contract : Contract, type : RequestType, generation : Nat]

(* What is let through was acknowledged on this connection.                *)
Gate ==
    /\ delivered \subseteq acknowledged_contracts
    /\ \A c \in acknowledged_contracts : \E id \in Current \cap acknowledged_ids :
          request_registry[id].contract = c

(* connect() counts the attempts from zero before anything can fail.       *)
AttemptsReset == phase \in {"connecting", "open"} => attempt = 0

StreamInv == TypeOK /\ Gate /\ AttemptsReset

(* The requests of a connection get fresh numbers.                         *)
LEMMA RequestsType ==
  ASSUME NEW g \in Nat
  PROVE  Requests(g) \in Seq(Request)
<1> DEFINE W == Contract \X RequestType
           n == Cardinality(W)
<1>1. IsFiniteSet(W)
  BY ThetaConstantsOK, FS_Product
<1>2. n \in Nat /\ ExistsBijection(1 .. n, W)
  BY <1>1, FS_CardinalityType
<1>3. \E f \in [1 .. n -> W] : IsInjective(f)
  BY <1>2 DEF ExistsBijection, Bijection, Injection
<1>4. SetToSeq(W) \in [1 .. n -> W]
  BY <1>3 DEF SetToSeq
<1> DEFINE wanted == SetToSeq(W)
<1>5. \A i \in 1 .. n : wanted[i][1] \in Contract /\ wanted[i][2] \in RequestType
  <2> HIDE DEF n, wanted
  <2> QED
    BY <1>4 DEF wanted
<1>6. Requests(g) = [i \in 1 .. n |->
                       [contract |-> wanted[i][1], type |-> wanted[i][2], generation |-> g]]
  <2> HIDE DEF n
  <2> QED
    BY <1>4 DEF Requests
<1> HIDE DEF wanted, n
<1> QED
  BY <1>2, <1>5, <1>6 DEF Request

(* A provider that has not connected satisfies the invariant.              *)
THEOREM StreamInit == Init => StreamInv
<1> SUFFICES ASSUME Init PROVE StreamInv
  OBVIOUS
<1>1. /\ 0 \in 0 .. MaxAttempts /\ 0 \in 0 .. MaxFailures /\ 0 \in 0 .. MaxGenerations
  BY StreamConstantsOK, ThetaConstantsOK
<1>2. request_registry = <<>> /\ Ids = {}
  BY DEF Init, Ids
<1>3. request_registry \in Seq([contract : Contract, type : RequestType, generation : Nat])
  BY <1>2
<1>4. TypeOK
  BY <1>1, <1>2, <1>3 DEF Init, LoopInit, TypeOK, Phase
<1> QED
  BY <1>4 DEF Init, LoopInit, StreamInv, Gate, AttemptsReset

(* Connecting, answers, data and failures preserve the invariant.          *)
THEOREM StreamStep == StreamInv /\ [Next]_vars => StreamInv'
<1> SUFFICES ASSUME TypeOK, Gate, AttemptsReset, [Next]_vars PROVE StreamInv'
  BY DEF StreamInv
<1> USE DEF Phase
<1>1. CASE LoopStep
  <2>1. /\ phase' \in Phase /\ attempt' \in 0 .. MaxAttempts /\ fruitless' \in 0 .. MaxFailures
        /\ AttemptsReset'
    <3>1. CASE Connect
      BY <3>1, StreamConstantsOK DEF Connect, MayTry, TypeOK, AttemptsReset
    <3>2. CASE Retryable
      BY <3>2, StreamConstantsOK DEF Retryable, TypeOK, AttemptsReset
    <3>3. CASE Fatal \/ Completes \/ Backoff
      BY <3>3 DEF Fatal, Completes, Backoff, TypeOK, AttemptsReset
    <3> QED
      BY <1>1, <3>1, <3>2, <3>3 DEF LoopStep
  <2>2. UNCHANGED subscriptions
    BY <1>1 DEF LoopStep
  <2> QED
    BY <2>1, <2>2 DEF subscriptions, TypeOK, Gate, StreamInv, Ids, Current
<1>2. CASE OpenConnection
  <2>1. /\ generation' = generation + 1 /\ generation \in Nat
        /\ generation' \in 0 .. MaxGenerations
    BY <1>2, ThetaConstantsOK DEF OpenConnection, TypeOK
  <2>2. Requests(generation') \in Seq(Request)
    BY <2>1, RequestsType
  <2>3. request_registry \in Seq(Request)
    BY DEF TypeOK, Request
  <2>4. /\ request_registry' = request_registry \o Requests(generation')
        /\ request_registry' \in Seq(Request)
        /\ Ids \subseteq DOMAIN request_registry'
    <3>1. request_registry' = request_registry \o Requests(generation')
      BY <1>2 DEF OpenConnection
    <3> QED
      BY <2>2, <2>3, <3>1, ConcatProperties DEF Ids
  <2>5. outstanding' = Ids' \ acknowledged_ids' /\ acknowledged_ids' \subseteq Ids'
    BY <1>2, <2>4 DEF OpenConnection, OutstandingAtConnect, TypeOK, Ids
  <2>6. /\ phase' \in Phase /\ attempt' \in 0 .. MaxAttempts /\ fruitless' \in 0 .. MaxFailures
        /\ AttemptsReset'
    BY <1>2 DEF OpenConnection, Opened, TypeOK, AttemptsReset
  <2>7. acknowledged_contracts' = {} /\ delivered' = {} /\ signalled' \in BOOLEAN
    BY <1>2 DEF OpenConnection, ContractsAtConnect, TypeOK
  <2>8. TypeOK'
    BY <2>1, <2>4, <2>5, <2>6, <2>7 DEF TypeOK, Request
  <2> QED
    BY <2>6, <2>7, <2>8 DEF StreamInv, Gate
<1>3. CASE TerminalAnswers
  <2> PICK id \in Current, response \in Response : Answer(id, response)
    BY <1>3 DEF TerminalAnswers
  <2>1. /\ request_registry' = request_registry /\ generation' = generation
        /\ delivered' = delivered /\ UNCHANGED loop
    BY DEF Answer
  <2>2. id \in Ids /\ request_registry[id].contract \in Contract
    <3>1. id \in DOMAIN request_registry
      BY DEF Current, Ids
    <3>2. request_registry \in Seq(Request)
      BY DEF TypeOK, Request
    <3>3. request_registry[id] \in Request
      BY <3>1, <3>2
    <3> QED
      BY <3>1, <3>3 DEF Ids, Request
  <2>3. CASE id \notin acknowledged_ids /\ response = "SUBSCRIBED"
    <3>1. /\ outstanding' = outstanding \ {id}
          /\ acknowledged_ids' = acknowledged_ids \cup {id}
          /\ acknowledged_contracts' = acknowledged_contracts \cup {request_registry[id].contract}
          /\ signalled' \in BOOLEAN
      BY <2>3 DEF Answer, TypeOK
    <3>2. TypeOK'
      BY <2>1, <2>2, <3>1 DEF TypeOK, Ids, loop
    <3>3. Gate'
      BY <2>1, <3>1 DEF Gate, Current, Ids
    <3> QED
      BY <2>1, <3>2, <3>3 DEF StreamInv, AttemptsReset, loop
  <2>4. CASE ~(id \notin acknowledged_ids /\ response = "SUBSCRIBED")
    <3>1. UNCHANGED <<outstanding, acknowledged_ids, acknowledged_contracts, signalled>>
      BY <2>4 DEF Answer
    <3> QED
      BY <2>1, <3>1 DEF TypeOK, Gate, StreamInv, Current, Ids, loop, AttemptsReset
  <2> QED
    BY <2>3, <2>4
<1>4. CASE \E c \in Contract : Data(c)
  <2> PICK c \in Contract : Data(c)
    BY <1>4
  <2>1. /\ UNCHANGED <<generation, request_registry, outstanding, acknowledged_ids,
                       acknowledged_contracts, signalled, phase, attempt>>
        /\ fruitless' = 0 /\ delivered' = delivered \cup {c} /\ c \in acknowledged_contracts
    BY DEF Data, Item
  <2>2. fruitless' \in 0 .. MaxFailures
    BY <2>1, StreamConstantsOK
  <2> QED
    BY <2>1, <2>2 DEF TypeOK, Gate, StreamInv, Current, Ids, AttemptsReset, Item
<1>5. CASE UNCHANGED vars
  BY <1>5 DEF vars, loop, subscriptions, TypeOK, Gate, StreamInv, Current, Ids, AttemptsReset
<1> QED
  BY <1>1, <1>2, <1>3, <1>4, <1>5 DEF Next

(* The subscription state keeps its type and the gate its reason.          *)
THEOREM StreamInvariant == Spec => []StreamInv
<1> QED
  BY StreamInit, StreamStep, PTL DEF Spec

(* The type invariant of the provider (thetadata.py:166-182).              *)
THEOREM StreamTypeCorrect == Spec => []TypeOK
<1>1. StreamInv => TypeOK
  BY DEF StreamInv
<1> QED
  BY <1>1, StreamInvariant, PTL

(* Data passes only for contracts acknowledged on the open connection      *)
(* (thetadata.py:246, 286, 345).                                           *)
THEOREM StreamGate == Spec => []DataAcknowledged
<1>1. StreamInv => DataAcknowledged
  BY DEF StreamInv, Gate, DataAcknowledged
<1> QED
  BY <1>1, StreamInvariant, PTL

(* "subscriptions_acknowledged" is reported only when every request of the *)
(* open connection is acknowledged (thetadata.py:288-291).                 *)
THEOREM StreamSignal == Spec => SignalMeansAll
<1>1. StreamInv /\ StreamInv' /\ [Next]_vars =>
        [(signalled' /\ ~signalled) => Current' \subseteq acknowledged_ids']_vars
  <2> SUFFICES ASSUME StreamInv', Next, signalled', ~signalled
               PROVE  Current' \subseteq acknowledged_ids'
    BY DEF vars
  <2>1. PICK id \in Current, response \in Response : Answer(id, response)
    BY DEF Next, TerminalAnswers, LoopStep, OpenConnection, Data, subscriptions
  <2>2. /\ Cardinality(acknowledged_ids') = Len(request_registry)
        /\ request_registry' = request_registry
    BY <2>1 DEF Answer, AllAcknowledged
  <2>3. request_registry' \in Seq(Request) /\ acknowledged_ids' \subseteq DOMAIN request_registry'
    BY DEF StreamInv, TypeOK, Ids, Request
  <2>4. DOMAIN request_registry' = 1 .. Len(request_registry') /\ Len(request_registry') \in Nat
    BY <2>3
  <2>5. \A n \in Nat : IsFiniteSet(1 .. n) /\ Cardinality(1 .. n) = n
    <3> SUFFICES ASSUME NEW n \in Nat PROVE IsFiniteSet(1 .. n) /\ Cardinality(1 .. n) = n
      OBVIOUS
    <3> QED
      BY FS_Interval
  <2>6. IsFiniteSet(DOMAIN request_registry')
        /\ Cardinality(DOMAIN request_registry') = Len(request_registry')
    BY <2>4, <2>5
  <2>7. DOMAIN request_registry' = acknowledged_ids'
    BY <2>2, <2>3, <2>6, FS_Subset
  <2> QED
    BY <2>7 DEF Current, Ids
<1> QED
  BY <1>1, StreamInvariant, PTL DEF Spec, SignalMeansAll
-----------------------------------------------------------------------------
(* Alpaca.                                                                 *)

AlpacaTypeOK ==
    /\ phase \in Phase
    /\ stage \in Stage
    /\ authenticated \in BOOLEAN
    /\ rejected \in BOOLEAN
    /\ connection_generation \in 0 .. MaxConnections

RejectedClosed == rejected => phase = "raised"

(* The provider works on a connection exactly while the loop has one.      *)
StageOfLoop == stage # "closed" <=> phase = "open"

(* A stream is only reached with the answer of the server.                 *)
StreamingAuthenticated == stage = "streaming" => authenticated

AlpacaInv == AlpacaTypeOK /\ RejectedClosed /\ StageOfLoop /\ StreamingAuthenticated
-----------------------------------------------------------------------------
(* The provider starts with no connection and no rejection.                *)
LEMMA AlpacaInvInit == AlpacaInit => AlpacaInv
<1> SUFFICES ASSUME AlpacaInit PROVE AlpacaInv
  OBVIOUS
<1>1. connection_generation \in 0 .. MaxConnections
  BY AlpacaConstantsOK DEF AlpacaConstantsOK, AlpacaInit
<1>2. phase = "looping" /\ stage = "closed" /\ authenticated = FALSE /\ rejected = FALSE
  BY DEF AlpacaInit, LoopInit
<1> QED
  BY <1>1, <1>2, Zenon
     DEF AlpacaInv, AlpacaTypeOK, RejectedClosed, StageOfLoop, StreamingAuthenticated,
         Phase, Stage

(* Every step of the loop, the provider or the server keeps the invariant. *)
LEMMA AlpacaInvStep == AlpacaInv /\ [AlpacaNext]_alpaca_vars => AlpacaInv'
<1> SUFFICES ASSUME AlpacaInv, [AlpacaNext]_alpaca_vars PROVE AlpacaInv'
  OBVIOUS
<1> USE DEF AlpacaInv, AlpacaTypeOK, RejectedClosed, StageOfLoop, StreamingAuthenticated,
            Phase, Stage, loop
<1>1. CASE AlpacaLoopStep
  BY <1>1 DEF AlpacaLoopStep, Connect, Backoff, alpaca_subscription
<1>2. CASE AlpacaConnection
  BY <1>2, AlpacaConstantsOK DEF AlpacaConstantsOK, AlpacaConnection, Opened
<1>3. CASE ErrorFrame
  BY <1>3 DEF ErrorFrame, Rejected, Fatal
<1>4. ASSUME NEW frame \in Frame \ {"error"}, AuthFrame(frame) PROVE AlpacaInv'
  BY <1>4 DEF AuthFrame
<1>5. ASSUME NEW frame \in Frame \ {"error"}, StreamFrame(frame) PROVE AlpacaInv'
  BY <1>5 DEF StreamFrame, Item
<1>6. CASE AuthTimeout
  BY <1>6 DEF AuthTimeout, TimeoutArmed, Retryable
<1>7. CASE Interrupted
  BY <1>7 DEF Interrupted, Retryable, Fatal, Completes
<1>8. CASE UNCHANGED alpaca_vars
  BY <1>8 DEF alpaca_vars, alpaca_subscription
<1> QED
  BY <1>1, <1>2, <1>3, <1>4, <1>5, <1>6, <1>7, <1>8 DEF AlpacaNext

(* The inductive invariant of the Alpaca stream.                           *)
THEOREM AlpacaInvariant == AlpacaSpec => []AlpacaInv
BY AlpacaInvInit, AlpacaInvStep, PTL DEF AlpacaSpec

(* After a rejection no step connects, waits or loops (alpaca.py:42, 67):  *)
(* the loop has raised, and the connection is closed.                      *)
LEMMA RejectedStays ==
  ASSUME AlpacaInv, rejected, [AlpacaNext]_alpaca_vars
  PROVE  UNCHANGED <<connection_generation, phase>>
<1>1. phase = "raised" /\ stage = "closed"
  BY DEF AlpacaInv, AlpacaTypeOK, RejectedClosed, StageOfLoop
<1>2. ~AlpacaLoopStep /\ ~AlpacaConnection /\ ~ErrorFrame /\ ~AuthTimeout /\ ~Interrupted
  BY <1>1 DEF AlpacaLoopStep, Connect, Backoff, AlpacaConnection, Opened, ErrorFrame,
              AuthTimeout, TimeoutArmed, Interrupted, Retryable, Fatal, Completes
<1>3. \A frame \in Frame : ~AuthFrame(frame) /\ ~StreamFrame(frame)
  BY <1>1 DEF AuthFrame, StreamFrame
<1>4. UNCHANGED alpaca_vars
  BY <1>2, <1>3 DEF AlpacaNext
<1> QED
  BY <1>4 DEF alpaca_vars, alpaca_subscription, loop

(* A rejection is final, however often the stream was connected before.    *)
THEOREM AlpacaRejectionFinal == AlpacaSpec => RejectionFinal
<1>1. AlpacaInv /\ [AlpacaNext]_alpaca_vars
        => [rejected => UNCHANGED <<connection_generation, phase>>]_alpaca_vars
  BY RejectedStays
<1> QED
  BY <1>1, AlpacaInvariant, PTL DEF AlpacaSpec, RejectionFinal
=============================================================================
