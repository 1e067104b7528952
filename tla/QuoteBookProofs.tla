-------------------------- MODULE QuoteBookProofs --------------------------
(***************************************************************************)
(* The lifecycle invariant of the quote book and the order of its audit,   *)
(* for every number of quotes, contracts and trades.                       *)
(*                                                                         *)
(* The counting needs no induction: in every state with well-typed rows    *)
(* and slots of distinct contracts, an arrival can be chosen for each      *)
(* consumed id, the slots that are pending are other arrivals, and the     *)
(* arrivals are finitely many.  The invariant proved is that those two     *)
(* facts last: BookInv.                                                    *)
(*                                                                         *)
(* The audit rows of one call are numbered by the unaudited slots before   *)
(* theirs.  That this is a bijection to 1 .. their number is the Ranks     *)
(* lemma; AuditInv then lasts because an older row is numbered below the   *)
(* counter and a trade is consumed only when it is not yet seen.           *)
(*                                                                         *)
(* That late trades find their quotes is a part of its own: WindowInv says *)
(* which quotes the windows hold, whatever the order of events.            *)
(*                                                                         *)
(* The last part is the replay.  Where a contract's quotes came in their   *)
(* event-time order, Holds says exactly what a window keeps of the inputs  *)
(* it was given.  It is used twice: of the live window and all inputs, and *)
(* of the replayed one and those that were recorded.                       *)
(***************************************************************************)
EXTENDS Replay, FiniteSetTheorems, FunctionTheorems, SequenceTheorems, TLAPS

(* No two slots hold quotes of one contract: _latest is a dict by key.     *)
SlotsDistinct ==
    \A i, j \in DOMAIN latest : KeyOf(latest[i]) = KeyOf(latest[j]) => i = j

BookInv == TypeOK /\ SlotsDistinct

(* The number of arrivals chosen for the ids consumed.                     *)
ArrivalOf(id) == CHOOSE n \in DOMAIN arrivals : EventId(n) = id
Consumed == {n \in DOMAIN arrivals : EventId(n) \in ConsumedIds}
Others == {n \in DOMAIN arrivals : EventId(n) \notin ConsumedIds}
-----------------------------------------------------------------------------
(* Whatever is counted is finite.                                          *)
LEMMA DomainsFinite ==
  ASSUME TypeOK
  PROVE  /\ IsFiniteSet(DOMAIN arrivals) /\ Cardinality(DOMAIN arrivals) = Len(arrivals)
         /\ IsFiniteSet(DOMAIN latest)
         /\ Len(arrivals) \in Nat
<1>1. /\ DOMAIN arrivals = 1 .. Len(arrivals) /\ Len(arrivals) \in Nat
      /\ DOMAIN latest = 1 .. Len(latest) /\ Len(latest) \in Nat
  BY DEF TypeOK
<1>2. \A n \in Nat : IsFiniteSet(1 .. n) /\ Cardinality(1 .. n) = n
  <2> SUFFICES ASSUME NEW n \in Nat PROVE IsFiniteSet(1 .. n) /\ Cardinality(1 .. n) = n
    OBVIOUS
  <2> QED
    BY FS_Interval
<1> QED
  BY <1>1, <1>2

(* Each consumed id has an arrival of its own.                             *)
LEMMA ConsumedBound ==
  ASSUME TypeOK
  PROVE  /\ IsFiniteSet(ConsumedIds)
         /\ IsFiniteSet(Consumed)
         /\ Cardinality(ConsumedIds) <= Cardinality(Consumed)
<1> DEFINE f == [id \in ConsumedIds |-> ArrivalOf(id)]
<1>1. IsFiniteSet(Consumed)
  BY DomainsFinite, FS_Subset DEF Consumed
<1>2. \A id \in ConsumedIds : ArrivalOf(id) \in DOMAIN arrivals /\ EventId(ArrivalOf(id)) = id
  <2> SUFFICES ASSUME NEW id \in ConsumedIds
               PROVE  \E n \in DOMAIN arrivals : EventId(n) = id
    BY DEF ArrivalOf
  <2> QED
    BY DEF ConsumedIds, TypeOK
<1>3. f \in [ConsumedIds -> Consumed]
  BY <1>2 DEF Consumed
<1>4. \A a, b \in ConsumedIds : f[a] = f[b] => a = b
  BY <1>2
<1>5. f \in Injection(ConsumedIds, Consumed)
  BY <1>3, <1>4 DEF Injection, IsInjective
<1> HIDE DEF f
<1> QED
  BY <1>1, <1>5, FS_Injection

(* Each pending slot holds an arrival of its own, whose id is not consumed.*)
LEMMA PendingBound ==
  ASSUME BookInv
  PROVE  /\ IsFiniteSet(PendingSlots)
         /\ IsFiniteSet(Others)
         /\ Cardinality(PendingSlots) <= Cardinality(Others)
<1> DEFINE g == [i \in PendingSlots |-> latest[i]]
<1>1. IsFiniteSet(Others)
  BY DomainsFinite, FS_Subset DEF Others, BookInv
<1>2. \A i \in DOMAIN latest : latest[i] \in DOMAIN arrivals
  BY DEF BookInv, TypeOK
<1>3. g \in [PendingSlots -> Others]
  BY <1>2 DEF PendingSlots, Others
<1>4. \A a, b \in PendingSlots : g[a] = g[b] => a = b
  BY DEF PendingSlots, BookInv, SlotsDistinct
<1>5. g \in Injection(PendingSlots, Others)
  BY <1>3, <1>4 DEF Injection, IsInjective
<1> HIDE DEF g
<1> QED
  BY <1>1, <1>5, FS_Injection

(* The counting argument for one state.                                    *)
LEMMA BookInvLifecycle ==
  ASSUME BookInv
  PROVE  Lifecycle
<1>1. /\ IsFiniteSet(Consumed) /\ IsFiniteSet(Others)
      /\ IsFiniteSet(ConsumedIds) /\ IsFiniteSet(PendingSlots)
      /\ Cardinality(ConsumedIds) <= Cardinality(Consumed)
      /\ Cardinality(PendingSlots) <= Cardinality(Others)
  BY ConsumedBound, PendingBound DEF BookInv
<1>2. Consumed \cup Others = DOMAIN arrivals /\ Consumed \cap Others = {}
  BY DEF Consumed, Others
<1>3. Cardinality(DOMAIN arrivals) = Cardinality(Consumed) + Cardinality(Others)
  <2>1. Cardinality(Consumed \cup Others) =
          Cardinality(Consumed) + Cardinality(Others) - Cardinality(Consumed \cap Others)
    BY <1>1, FS_Union
  <2>2. Cardinality(Consumed \cap Others) = 0
    BY <1>2, FS_EmptySet
  <2>3. Cardinality(Consumed) \in Nat /\ Cardinality(Others) \in Nat
    BY <1>1, FS_CardinalityType
  <2> QED
    BY <1>2, <2>1, <2>2, <2>3
<1>4. /\ Cardinality(ConsumedIds) \in Nat /\ Cardinality(PendingSlots) \in Nat
      /\ Cardinality(Consumed) \in Nat /\ Cardinality(Others) \in Nat
  BY <1>1, FS_CardinalityType
<1>5. Cardinality(DOMAIN arrivals) = Len(arrivals) /\ Len(arrivals) \in Nat
  BY DomainsFinite DEF BookInv
<1> QED
  BY <1>1, <1>3, <1>4, <1>5
     DEF Lifecycle, quotes_consumed, quotes_pending_at_shutdown, quotes_received
-----------------------------------------------------------------------------
(* Expiry keeps a part of the window.                                      *)
LEMMA ExpiredType ==
  ASSUME NEW N, NEW window \in Seq(N), NEW received, NEW at
  PROVE  Expired(window, received, at) \in Seq(N)
<1> DEFINE old == {i \in DOMAIN window : \A j \in 1 .. i : Old(received[window[j]], at - Window)}
<1>1. DOMAIN window = 1 .. Len(window) /\ Len(window) \in Nat
  OBVIOUS
<1>2. IsFiniteSet(1 .. Len(window))
  BY <1>1, FS_Interval
<1>3. Cardinality(old) \in Nat
  <2>1. old \in SUBSET (1 .. Len(window))
    BY <1>1
  <2> HIDE DEF old
  <2>2. IsFiniteSet(old)
    BY <1>2, <2>1, FS_Subset
  <2> QED
    BY <2>2, FS_CardinalityType
<1> DEFINE m == Cardinality(old) + 1
<1>4. SubSeq(window, m, Len(window)) \in Seq(N)
  <2>1. m \in Int /\ Len(window) \in Int /\ m >= 1
    BY <1>1, <1>3
  <2>2. \A i \in m .. Len(window) : window[i] \in N
    BY <1>1, <2>1
  <2> HIDE DEF m
  <2> QED
    BY <2>1, <2>2, SubSeqProperties
<1> QED
  BY <1>4 DEF Expired

(* The scan returns nothing or an arrival of its contract.                 *)
LEMMA NewestValidType ==
  ASSUME TypeOK, NEW k \in Key, NEW at \in Time
  PROVE  /\ NewestValid(k, at) \in SUBSET DOMAIN arrivals
         /\ Cardinality(NewestValid(k, at)) \in Nat
<1> DEFINE w == Expired(windows[k], arrivals, at)
<1>1. windows[k] \in Seq(DOMAIN arrivals)
  BY DEF TypeOK
<1>2. w \in Seq(DOMAIN arrivals)
  BY <1>1, ExpiredType
<1>3. NewestValid(k, at) \in SUBSET DOMAIN arrivals
  <2> HIDE DEF w
  <2>1. \A i \in DOMAIN w : w[i] \in DOMAIN arrivals
    BY <1>2
  <2> QED
    BY <2>1 DEF NewestValid, LastValid, w
<1>4. IsFiniteSet(NewestValid(k, at))
  BY <1>3, DomainsFinite, FS_Subset
<1> QED
  BY <1>3, <1>4, FS_CardinalityType
-----------------------------------------------------------------------------
(* An empty book satisfies the invariant.                                  *)
THEOREM BookInit == Init => BookInv
<1> SUFFICES ASSUME Init PROVE BookInv
  OBVIOUS
<1>1. 0 \in Time
  BY QuoteConstantsOK DEF Time
<1>2. latest = <<>> /\ DOMAIN latest = {}
  BY DEF Init
<1> QED
  BY <1>1, <1>2 DEF Init, BookInv, TypeOK, SlotsDistinct

(* Receiving and consuming quotes preserve the invariant.                  *)
THEOREM BookStep == BookInv /\ [Next]_vars => BookInv'
<1> SUFFICES ASSUME BookInv, [Next]_vars PROVE BookInv'
  OBVIOUS
<1> USE DEF BookInv
<1>0. TypeOK /\ SlotsDistinct
  OBVIOUS
<1>1. CASE \E k \in Key, at \in Time : Receive(k, at)
  <2> PICK k \in Key, at \in Time : Receive(k, at)
    BY <1>1
  <2> DEFINE n == Len(arrivals) + 1
  <2>1. /\ arrivals' \in Seq(Quote) /\ Len(arrivals') = n
        /\ DOMAIN arrivals \subseteq DOMAIN arrivals' /\ n \in DOMAIN arrivals'
        /\ \A i \in DOMAIN arrivals : arrivals'[i] = arrivals[i]
        /\ arrivals'[n].key = k
    BY DEF Receive, TypeOK, Quote
  <2>2. /\ latest \in Seq(DOMAIN arrivals')
        /\ windows \in [Key -> Seq(DOMAIN arrivals')]
    BY <2>1 DEF TypeOK
  <2>3. latest' = Overwritten(k, n)
    BY DEF Receive
  <2>4. latest' \in Seq(DOMAIN arrivals')
    <3>1. Append(latest, n) \in Seq(DOMAIN arrivals')
      BY <2>1, <2>2
    <3>2. [i \in DOMAIN latest |-> IF KeyOf(latest[i]) = k THEN n ELSE latest[i]]
            \in Seq(DOMAIN arrivals')
      <4>1. \A i \in DOMAIN latest : latest[i] \in DOMAIN arrivals'
        BY <2>2
      <4>2. DOMAIN latest = 1 .. Len(latest) /\ Len(latest) \in Nat
        BY <2>2
      <4> QED
        BY <2>1, <4>1, <4>2
    <3> QED
      BY <2>3, <3>1, <3>2 DEF Overwritten
  <2>5. windows' \in [Key -> Seq(DOMAIN arrivals')]
    <3>1. Append(windows[k], n) \in Seq(DOMAIN arrivals')
      BY <2>1, <2>2
    <3>2. Expired(Append(windows[k], n), arrivals', at) \in Seq(DOMAIN arrivals')
      BY <3>1, ExpiredType
    <3> QED
      BY <2>2, <3>2 DEF Receive
  <2>6. horizon' \in [Key -> Time]
    BY DEF Receive, TypeOK, Later
  <2>7. TypeOK'
    BY <2>1, <2>4, <2>5, <2>6 DEF TypeOK, Receive
  <2>8. SlotsDistinct'
    <3>2. \A i \in DOMAIN latest : latest[i] \in DOMAIN arrivals
                                   /\ arrivals'[latest[i]].key = arrivals[latest[i]].key
      BY <2>1 DEF TypeOK
    <3>3. CASE \E i \in DOMAIN latest : KeyOf(latest[i]) = k
      <4>1. latest' = [i \in DOMAIN latest |-> IF KeyOf(latest[i]) = k THEN n ELSE latest[i]]
        BY <3>3, <2>3 DEF Overwritten
      <4>2. \A i \in DOMAIN latest : arrivals'[latest'[i]].key = arrivals[latest[i]].key
        BY <4>1, <3>2, <2>1 DEF KeyOf
      <4> QED
        BY <4>1, <4>2 DEF SlotsDistinct, KeyOf
    <3>4. CASE ~\E i \in DOMAIN latest : KeyOf(latest[i]) = k
      <4>1. latest' = Append(latest, n)
        BY <3>4, <2>3 DEF Overwritten
      <4>2. /\ latest \in Seq(DOMAIN arrivals)
            /\ DOMAIN latest' = 1 .. Len(latest) + 1 /\ DOMAIN latest = 1 .. Len(latest)
            /\ latest'[Len(latest) + 1] = n
            /\ \A i \in DOMAIN latest : latest'[i] = latest[i]
        BY <4>1 DEF TypeOK
      <4>3. \A i \in DOMAIN latest : arrivals'[latest'[i]].key = arrivals[latest[i]].key
                                     /\ arrivals'[latest'[i]].key # k
        BY <4>2, <3>2, <3>4 DEF KeyOf
      <4> QED
        BY <4>2, <4>3, <2>1, SMTT(30) DEF SlotsDistinct, KeyOf
    <3> QED
      BY <3>3, <3>4
  <2> QED
    BY <2>7, <2>8
<1>2. CASE \E t \in Trade, k \in Key, at \in Time : ConsumeForTrade(t, k, at)
  <2> PICK t \in Trade, k \in Key, at \in Time : ConsumeForTrade(t, k, at)
    BY <1>2
  <2>1. arrivals' = arrivals /\ latest' = latest
    BY DEF ConsumeForTrade
  <2>2. windows' \in [Key -> Seq(DOMAIN arrivals)]
    <3>1. Expired(windows[k], arrivals, at) \in Seq(DOMAIN arrivals)
      BY ExpiredType DEF TypeOK
    <3> QED
      BY <3>1 DEF ConsumeForTrade, TypeOK
  <2>3. NewestValid(k, at) \in SUBSET DOMAIN arrivals /\ Cardinality(NewestValid(k, at)) \in Nat
    BY NewestValidType
  <2>4. /\ consumptions' \subseteq Row
        /\ \A row \in consumptions' : row.quote \in DOMAIN arrivals
    BY <2>3 DEF ConsumeForTrade, TypeOK, Row, NextOrder
  <2>5. consumption_order' \in Nat
    BY <2>3 DEF ConsumeForTrade, TypeOK
  <2>6. seen' \subseteq Trade /\ horizon' \in [Key -> Time]
    BY DEF ConsumeForTrade, TypeOK, Later
  <2> QED
    BY <2>1, <2>2, <2>4, <2>5, <2>6 DEF TypeOK, SlotsDistinct, KeyOf
<1>3. CASE ConsumeCurrentState
  <2>1. \A n \in Nat : Cardinality(UnauditedUpTo(n)) \in Nat
    <3> SUFFICES ASSUME NEW n \in Nat PROVE Cardinality(UnauditedUpTo(n)) \in Nat
      OBVIOUS
    <3>1. IsFiniteSet(1 .. n)
      BY FS_Interval
    <3>2. UnauditedUpTo(n) \in SUBSET (1 .. n)
      BY DEF UnauditedUpTo
    <3>3. IsFiniteSet(UnauditedUpTo(n))
      BY <3>1, <3>2, FS_Subset
    <3> QED
      BY <3>3, FS_CardinalityType
  <2>2. Len(latest) \in Nat /\ DOMAIN latest = 1 .. Len(latest)
        /\ \A i \in 1 .. Len(latest) : latest[i] \in DOMAIN arrivals /\ latest[i] \in Nat
    BY DEF TypeOK
  <2>3. UnauditedUpTo(Len(latest)) \subseteq 1 .. Len(latest)
    BY DEF UnauditedUpTo
  <2>4. \A i \in UnauditedUpTo(Len(latest)) :
          /\ [order |-> consumption_order + Cardinality(UnauditedUpTo(i)),
              quote |-> latest[i], trade |-> NoTrade] \in Row
          /\ latest[i] \in DOMAIN arrivals
    <3> SUFFICES ASSUME NEW i \in 1 .. Len(latest)
                 PROVE  /\ consumption_order + Cardinality(UnauditedUpTo(i)) \in Nat
                        /\ latest[i] \in Nat /\ latest[i] \in DOMAIN arrivals
      BY <2>3 DEF Row
    <3> QED
      <4>1. i \in Nat /\ Cardinality(UnauditedUpTo(i)) \in Nat
        BY <2>1, <2>2
      <4> QED
        BY <4>1, <2>2 DEF TypeOK
  <2>5. /\ consumptions' \subseteq Row
        /\ \A row \in consumptions' : row.quote \in DOMAIN arrivals
    BY <1>3, <2>4 DEF ConsumeCurrentState, TypeOK
  <2>6. consumption_order' \in Nat
    <3>1. Cardinality(UnauditedUpTo(Len(latest))) \in Nat
      BY <2>1, <2>2
    <3> QED
      BY <1>3, <3>1 DEF ConsumeCurrentState, TypeOK
  <2> QED
    BY <1>3, <2>5, <2>6 DEF ConsumeCurrentState, TypeOK, SlotsDistinct, KeyOf
<1>4. CASE UNCHANGED vars
  BY <1>4 DEF vars, TypeOK, SlotsDistinct, KeyOf
<1> QED
  BY <1>1, <1>2, <1>3, <1>4 DEF Next

(* The book's state keeps its type, and its slots belong to distinct       *)
(* contracts, whatever is received and consumed.                           *)
THEOREM BookInvariant == Spec => []BookInv
<1> QED
  BY BookInit, BookStep, PTL DEF Spec

(* The type invariant of the quote book (quote_book.py:36-46).             *)
THEOREM BookTypeCorrect == Spec => []TypeOK
<1>1. BookInv => TypeOK
  BY DEF BookInv
<1> QED
  BY <1>1, BookInvariant, PTL

(* What was consumed and what is pending never exceeds what was received   *)
(* (quote_book.py:64-74, 96-138).                                          *)
THEOREM BookLifecycle == Spec => []Lifecycle
<1>1. BookInv => Lifecycle
  BY BookInvLifecycle
<1> QED
  BY <1>1, BookInvariant, PTL
-----------------------------------------------------------------------------
OrdersRange == {row.order : row \in consumptions} = 1 .. consumption_order
OrdersInjective == \A r, s \in consumptions : r.order = s.order => r = s

(* A row's trade has been handed over.                                     *)
TradesSeen == \A row \in consumptions : row.trade # NoTrade => row.trade \in seen

AuditInv == BookInv /\ OrdersRange /\ OrdersInjective /\ TradesSeen /\ AuditedOnce

(* Orders that are the numbers up to the counter, one for each row, leave  *)
(* as many rows as the counter says.                                       *)
LEMMA AuditInvOrders ==
  ASSUME AuditInv
  PROVE  OrdersUnique
<1> DEFINE f == [row \in consumptions |-> row.order]
           N == 1 .. consumption_order
<1>1. consumption_order \in Nat
  BY DEF AuditInv, BookInv, TypeOK
<1>2. IsFiniteSet(N) /\ Cardinality(N) = consumption_order
  BY <1>1, FS_Interval
<1>3. f \in [consumptions -> N]
  BY DEF AuditInv, OrdersRange
<1>4. \A a, b \in consumptions : f[a] = f[b] => a = b
  BY DEF AuditInv, OrdersInjective
<1>5. \A o \in N : \E row \in consumptions : f[row] = o
  <2> SUFFICES ASSUME NEW o \in N PROVE \E row \in consumptions : row.order = o
    OBVIOUS
  <2> QED
    BY DEF AuditInv, OrdersRange
<1> HIDE DEF f, N
<1>6. f \in Injection(consumptions, N) /\ f \in Surjection(consumptions, N)
  BY <1>3, <1>4, <1>5, Fun_IsInj, Fun_IsSurj
<1>7. Cardinality(consumptions) = Cardinality(N)
  BY <1>2, <1>6, FS_Injection
<1> QED
  BY <1>2, <1>7 DEF OrdersUnique, AuditInv, OrdersRange

(* The rank of an unaudited slot numbers these slots from 1 up, with no    *)
(* gap and no repeat.                                                      *)
LEMMA Ranks ==
  ASSUME NEW n \in Nat
  PROVE  LET U == UnauditedUpTo(n)
             Rank(i) == Cardinality(UnauditedUpTo(i))
         IN  /\ Cardinality(U) \in Nat
             /\ \A i \in U : Rank(i) \in 1 .. Cardinality(U)
             /\ \A i, j \in U : Rank(i) = Rank(j) => i = j
             /\ \A r \in 1 .. Cardinality(U) : \E i \in U : Rank(i) = r
<1> DEFINE U == UnauditedUpTo(n)
           Rank(i) == Cardinality(UnauditedUpTo(i))
           M == 1 .. Cardinality(U)
           f == [i \in U |-> Rank(i)]
<1>1. \A m \in Nat : IsFiniteSet(UnauditedUpTo(m)) /\ Cardinality(UnauditedUpTo(m)) \in Nat
  <2> SUFFICES ASSUME NEW m \in Nat
               PROVE  IsFiniteSet(UnauditedUpTo(m)) /\ Cardinality(UnauditedUpTo(m)) \in Nat
    OBVIOUS
  <2>1. UnauditedUpTo(m) \in SUBSET (1 .. m)
    BY DEF UnauditedUpTo
  <2>2. IsFiniteSet(1 .. m)
    BY FS_Interval
  <2>3. IsFiniteSet(UnauditedUpTo(m))
    BY <2>1, <2>2, FS_Subset
  <2> QED
    BY <2>3, FS_CardinalityType
<1>2. \A i \in U : /\ i \in Nat /\ i <= n /\ i \in UnauditedUpTo(i)
                   /\ UnauditedUpTo(i) \in SUBSET U
  BY DEF UnauditedUpTo
<1>3. \A i \in U : Rank(i) \in M
  <2> SUFFICES ASSUME NEW i \in U PROVE Rank(i) \in M
    OBVIOUS
  <2>1. IsFiniteSet(UnauditedUpTo(i)) /\ Rank(i) \in Nat /\ Cardinality(U) \in Nat
    BY <1>1, <1>2
  <2>2. Rank(i) # 0
    BY <1>2, <2>1, FS_EmptySet
  <2>3. Rank(i) <= Cardinality(U)
    BY <1>1, <1>2, FS_Subset
  <2> QED
    BY <2>1, <2>2, <2>3
<1>4. \A i, j \in U : i < j => Rank(i) # Rank(j)
  <2> SUFFICES ASSUME NEW i \in U, NEW j \in U, i < j PROVE Rank(i) # Rank(j)
    OBVIOUS
  <2>1. UnauditedUpTo(i) \in SUBSET UnauditedUpTo(j) /\ j \notin UnauditedUpTo(i)
    BY <1>2 DEF UnauditedUpTo
  <2>2. IsFiniteSet(UnauditedUpTo(j)) /\ j \in UnauditedUpTo(j)
    BY <1>1, <1>2
  <2> QED
    BY <2>1, <2>2, FS_Subset
<1>5. \A i, j \in U : Rank(i) = Rank(j) => i = j
  <2> SUFFICES ASSUME NEW i \in U, NEW j \in U, Rank(i) = Rank(j), i # j PROVE FALSE
    OBVIOUS
  <2>1. i < j \/ j < i
    <3>1. i \in Nat /\ j \in Nat
      BY <1>2
    <3> QED
      BY <3>1
  <2> QED
    BY <1>4, <2>1
<1>6. \A r \in M : \E i \in U : f[i] = r
  <2>1. f \in Injection(U, M)
    <3>1. f \in [U -> M]
      BY <1>3
    <3>2. \A a, b \in U : f[a] = f[b] => a = b
      BY <1>5
    <3> HIDE DEF f, M, U
    <3> QED
      BY <3>1, <3>2, Fun_IsInj
  <2>2. IsFiniteSet(M) /\ Cardinality(M) = Cardinality(U)
    <3>1. Cardinality(U) \in Nat
      BY <1>1
    <3> QED
      BY <3>1, FS_Interval
  <2> HIDE DEF f, M, U
  <2>3. f \in Surjection(U, M)
    BY <2>1, <2>2, FS_Injection
  <2> QED
    BY <2>3, Fun_SurjectionProperties
<1>7. \A r \in M : \E i \in U : Rank(i) = r
  BY <1>6
<1> QED
  BY <1>1, <1>3, <1>5, <1>7
(* The scan finds at most one quote.                                       *)
LEMMA NewestValidSingle ==
  ASSUME TypeOK, NEW k \in Key, NEW at \in Time
  PROVE  NewestValid(k, at) = {} \/ \E n \in DOMAIN arrivals : NewestValid(k, at) = {n}
<1> DEFINE w == Expired(windows[k], arrivals, at)
           C == {i \in DOMAIN w : At(w[i]) <= at}
           L == {i \in C : \A j \in C : j <= i}
<1>1. w \in Seq(DOMAIN arrivals)
  BY ExpiredType DEF TypeOK
<1>2. C \subseteq Nat /\ \A i \in C : w[i] \in DOMAIN arrivals
  <2> HIDE DEF w
  <2> QED
    BY <1>1
<1>3. NewestValid(k, at) = {w[i] : i \in L}
  BY DEF NewestValid, LastValid
<1> HIDE DEF w, C
<1>4. \A i, j \in L : i = j /\ w[i] \in DOMAIN arrivals
  BY <1>2
<1> QED
  BY <1>3, <1>4

(* A trade's row comes after all others, for a trade without a row.        *)
LEMMA AuditForTrade ==
  ASSUME AuditInv, NEW t \in Trade, NEW k \in Key, NEW at \in Time, ConsumeForTrade(t, k, at)
  PROVE  (OrdersRange /\ OrdersInjective /\ TradesSeen /\ AuditedOnce)'
<1> USE DEF AuditInv, BookInv
<1>1. /\ arrivals' = arrivals /\ seen' = seen \cup {t} /\ t \notin seen
      /\ consumption_order \in Nat /\ t # NoTrade
  BY QuoteConstantsOK DEF ConsumeForTrade, TypeOK
<1>2. CASE NewestValid(k, at) = {}
  <2>1. consumptions' = consumptions /\ consumption_order' = consumption_order
    BY <1>1, <1>2, FS_EmptySet DEF ConsumeForTrade
  <2> QED
    BY <1>1, <2>1
       DEF OrdersRange, OrdersInjective, TradesSeen, AuditedOnce, EventId, KeyOf, At, Role
<1>3. ASSUME NEW n \in DOMAIN arrivals, NewestValid(k, at) = {n}
      PROVE  (OrdersRange /\ OrdersInjective /\ TradesSeen /\ AuditedOnce)'
  <2> DEFINE new == [order |-> consumption_order + 1, quote |-> n, trade |-> t]
  <2>1. /\ consumptions' = consumptions \cup {new}
        /\ consumption_order' = consumption_order + 1
    <3>1. Cardinality({n}) = 1
      BY FS_Singleton
    <3> QED
      BY <1>3, <3>1 DEF ConsumeForTrade, NextOrder
  <2>2. \A row \in consumptions : row.order \in 1 .. consumption_order
    BY DEF OrdersRange
  <2>3. OrdersRange'
    <3>1. \A row \in consumptions' : row.order \in 1 .. consumption_order + 1
      BY <1>1, <2>1, <2>2
    <3>2. \A o \in 1 .. consumption_order + 1 : \E row \in consumptions' : row.order = o
      <4> SUFFICES ASSUME NEW o \in 1 .. consumption_order + 1
                   PROVE  \E row \in consumptions' : row.order = o
        OBVIOUS
      <4>1. CASE o \in 1 .. consumption_order
        BY <2>1, <4>1 DEF OrdersRange
      <4>2. CASE o = consumption_order + 1
        <5>1. new \in consumptions' /\ new.order = o
          BY <2>1, <4>2
        <5> QED
          BY <5>1
      <4> QED
        BY <1>1, <4>1, <4>2
    <3> QED
      BY <2>1, <3>1, <3>2 DEF OrdersRange
  <2>4. OrdersInjective'
    BY <1>1, <2>1, <2>2 DEF OrdersInjective
  <2>5. TradesSeen'
    BY <1>1, <2>1 DEF TradesSeen
  <2>6. AuditedOnce'
    <3>1. \A row \in consumptions : row.trade # t
      BY <1>1 DEF TradesSeen
    <3>2. \A row \in consumptions : row.order < consumption_order + 1
      BY <1>1, <2>2
    <3>3. Role(new) # "CURRENT_STATE"
      BY <1>1 DEF Role
    <3> QED
      BY <1>1, <2>1, <3>1, <3>2, <3>3 DEF AuditedOnce, EventId, KeyOf, At, Role
  <2> QED
    BY <2>3, <2>4, <2>5, <2>6
<1> QED
  BY <1>2, <1>3, NewestValidSingle

(* The rows of one decision are numbered on from the counter, for ids that *)
(* had no row.                                                             *)
LEMMA AuditForState ==
  ASSUME AuditInv, ConsumeCurrentState
  PROVE  (OrdersRange /\ OrdersInjective /\ TradesSeen /\ AuditedOnce)'
<1> USE DEF AuditInv, BookInv
<1> DEFINE U == UnauditedUpTo(Len(latest))
           Rank(i) == Cardinality(UnauditedUpTo(i))
           New(i) == [order |-> consumption_order + Rank(i), quote |-> latest[i],
                      trade |-> NoTrade]
<1>1. /\ consumptions' = consumptions \cup {New(i) : i \in U}
      /\ consumption_order' = consumption_order + Cardinality(U)
      /\ arrivals' = arrivals /\ seen' = seen /\ consumption_order \in Nat
  BY DEF ConsumeCurrentState, TypeOK
<1>2. /\ Cardinality(U) \in Nat
      /\ \A i \in U : Rank(i) \in 1 .. Cardinality(U)
      /\ \A i, j \in U : Rank(i) = Rank(j) => i = j
      /\ \A r \in 1 .. Cardinality(U) : \E i \in U : Rank(i) = r
  <2>1. Len(latest) \in Nat
    BY DEF TypeOK
  <2> QED
    BY <2>1, Ranks
<1>3. \A i \in U : i \in Nat /\ i >= 1 /\ Unaudited(i)
  BY DEF UnauditedUpTo
<1> HIDE DEF U, Rank
<1>4. \A row \in consumptions : row.order \in 1 .. consumption_order
  BY DEF OrdersRange
<1>5. OrdersRange'
  <2>1. \A row \in consumptions' : row.order \in 1 .. consumption_order'
    BY <1>1, <1>2, <1>4
  <2>2. \A o \in 1 .. consumption_order' : \E row \in consumptions' : row.order = o
    <3> SUFFICES ASSUME NEW o \in 1 .. consumption_order + Cardinality(U)
                 PROVE  \E row \in consumptions' : row.order = o
      BY <1>1
    <3>1. CASE o \in 1 .. consumption_order
      BY <1>1, <3>1 DEF OrdersRange
    <3>2. CASE o \notin 1 .. consumption_order
      <4>1. o - consumption_order \in 1 .. Cardinality(U)
        BY <1>1, <1>2, <3>2
      <4>2. PICK i \in U : Rank(i) = o - consumption_order
        BY <1>2, <4>1
      <4>3. New(i).order = o
        BY <1>1, <4>2
      <4> QED
        BY <1>1, <4>3
    <3> QED
      BY <3>1, <3>2
  <2> QED
    BY <2>1, <2>2 DEF OrdersRange
<1>6. OrdersInjective'
  <2> SUFFICES ASSUME NEW r \in consumptions', NEW s \in consumptions', r.order = s.order
               PROVE  r = s
    BY DEF OrdersInjective
  <2>1. CASE r \in consumptions /\ s \in consumptions
    BY <2>1 DEF OrdersInjective
  <2>2. \A row \in consumptions, i \in U : row.order # New(i).order
    BY <1>1, <1>2, <1>4
  <2>3. \A i, j \in U : New(i).order = New(j).order => New(i) = New(j)
    BY <1>1, <1>2
  <2> QED
    BY <1>1, <2>1, <2>2, <2>3
<1>7. TradesSeen'
  BY <1>1 DEF TradesSeen
<1>8. AuditedOnce'
  <2> SUFFICES ASSUME NEW r \in consumptions', NEW s \in consumptions', r # s
               PROVE  /\ r.trade # NoTrade => r.trade # s.trade
                      /\ (Role(r) = "CURRENT_STATE" /\ EventId(r.quote) = EventId(s.quote))
                            => r.order < s.order
    BY <1>1 DEF AuditedOnce, EventId, KeyOf, At, Role
  <2>1. CASE r \in consumptions /\ s \in consumptions
    BY <2>1 DEF AuditedOnce
  <2>2. CASE r \in consumptions /\ s \notin consumptions
    <3>1. PICK i \in U : s = New(i)
      BY <1>1, <2>2
    <3> QED
      BY <1>1, <1>2, <1>4, <2>2, <3>1
  <2>3. CASE r \notin consumptions
    <3>1. PICK i \in U : r = New(i)
      BY <1>1, <2>3
    <3>2. CASE s \in consumptions
      <4>1. EventId(s.quote) \in ConsumedIds
        BY <3>2 DEF ConsumedIds
      <4> QED
        BY <1>3, <3>1, <4>1 DEF Unaudited
    <3>3. CASE s \notin consumptions
      <4>1. PICK j \in U : s = New(j)
        BY <1>1, <3>3
      <4>2. i < j \/ j < i
        BY <1>3, <3>1, <4>1
      <4>3. EventId(latest[i]) # EventId(latest[j])
        <5>1. CASE i < j
          BY <1>3, <5>1 DEF Unaudited
        <5>2. CASE j < i
          BY <1>3, <5>2 DEF Unaudited
        <5> QED
          BY <4>2, <5>1, <5>2
      <4> QED
        BY <3>1, <4>1, <4>3
    <3> QED
      BY <3>2, <3>3
  <2> QED
    BY <2>1, <2>2, <2>3
<1> QED
  BY <1>5, <1>6, <1>7, <1>8
-----------------------------------------------------------------------------
(* An empty book has no audit.                                             *)
LEMMA AuditInit == Init => AuditInv
<1> SUFFICES ASSUME Init PROVE AuditInv
  OBVIOUS
<1>1. consumptions = {} /\ consumption_order = 0
  BY DEF Init
<1> QED
  BY <1>1, BookInit DEF AuditInv, OrdersRange, OrdersInjective, TradesSeen, AuditedOnce

(* Receiving a quote leaves the ids of the audited ones.                   *)
LEMMA AuditStep == AuditInv /\ [Next]_vars => AuditInv'
<1> SUFFICES ASSUME AuditInv, [Next]_vars PROVE AuditInv'
  OBVIOUS
<1>1. BookInv'
  BY BookStep DEF AuditInv
<1>2. ASSUME NEW k \in Key, NEW at \in Time, Receive(k, at)
      PROVE  (OrdersRange /\ OrdersInjective /\ TradesSeen /\ AuditedOnce)'
  <2>1. /\ consumptions' = consumptions /\ consumption_order' = consumption_order
        /\ seen' = seen
    BY <1>2 DEF Receive
  <2>2. \A n \in DOMAIN arrivals : arrivals'[n] = arrivals[n]
    BY <1>2 DEF Receive, AuditInv, BookInv, TypeOK
  <2>3. \A row \in consumptions : row.quote \in DOMAIN arrivals
    BY DEF AuditInv, BookInv, TypeOK
  <2>4. (OrdersRange /\ OrdersInjective /\ TradesSeen)'
    BY <2>1 DEF AuditInv, OrdersRange, OrdersInjective, TradesSeen
  <2>5. \A row \in consumptions : (EventId(row.quote))' = EventId(row.quote)
    BY <2>1, <2>2, <2>3 DEF EventId, KeyOf, At
  <2>6. AuditedOnce'
    <3> SUFFICES ASSUME NEW r \in consumptions, NEW s \in consumptions, r # s
                 PROVE  /\ r.trade # NoTrade => r.trade # s.trade
                        /\ (Role(r) = "CURRENT_STATE"
                              /\ (EventId(r.quote))' = (EventId(s.quote))')
                              => r.order < s.order
      BY <2>1 DEF AuditedOnce, Role
    <3> QED
      BY <2>5 DEF AuditInv, AuditedOnce
  <2> QED
    BY <2>4, <2>6
<1>3. CASE UNCHANGED vars
  <2>1. /\ consumptions' = consumptions /\ consumption_order' = consumption_order
        /\ seen' = seen /\ arrivals' = arrivals
    BY <1>3 DEF vars
  <2>2. (OrdersRange /\ OrdersInjective /\ TradesSeen)'
    BY <2>1 DEF AuditInv, OrdersRange, OrdersInjective, TradesSeen
  <2>3. AuditedOnce'
    BY <2>1 DEF AuditInv, AuditedOnce, EventId, KeyOf, At, Role
  <2> QED
    BY <1>1, <2>2, <2>3 DEF AuditInv
<1> QED
  BY <1>1, <1>2, <1>3, AuditForTrade, AuditForState DEF Next, AuditInv

(* The numbering of the audit and what has been audited last together.     *)
THEOREM AuditInvariant == Spec => []AuditInv
BY AuditInit, AuditStep, PTL DEF Spec

(* Each order up to the counter is the primary key of one row, whether a   *)
(* trade or a decision made it (quote_book.py:88-138).                     *)
THEOREM BookOrders == Spec => []OrdersUnique
<1>1. AuditInv => OrdersUnique
  BY AuditInvOrders
<1> QED
  BY <1>1, AuditInvariant, PTL

(* A quote id is audited as current state at most once, before any trade   *)
(* consumes it, and a trade consumes one quote (quote_book.py:99-120).     *)
THEOREM BookAuditedOnce == Spec => []AuditedOnce
<1>1. AuditInv => AuditedOnce
  BY DEF AuditInv
<1> QED
  BY <1>1, AuditInvariant, PTL
-----------------------------------------------------------------------------
(* Where a quote that classifies a late trade is.  Rising and of one key,  *)
(* a window keeps every quote of its contract that is not older than the   *)
(* latest expiry of it.  No order of event times is needed: what leaves a  *)
(* window is older than the expiry's cutoff, each quote of the prefix.     *)
InWindow(k, n) == \E i \in DOMAIN windows[k] : windows[k][i] = n

WindowsRise ==
    \A k \in Key : \A i, j \in DOMAIN windows[k] : i < j => windows[k][i] < windows[k][j]
WindowKeys == \A k \in Key : \A i \in DOMAIN windows[k] : KeyOf(windows[k][i]) = k
RecentKept ==
    \A k \in Key : \A n \in DOMAIN arrivals :
        (KeyOf(n) = k /\ At(n) >= horizon[k] - Window) => InWindow(k, n)

WindowInv == BookInv /\ WindowsRise /\ WindowKeys /\ RecentKept

LEMMA FirstNumbers ==
  ASSUME NEW n \in Nat
  PROVE  IsFiniteSet(1 .. n) /\ Cardinality(1 .. n) = n
BY FS_Interval

(* Expiry cuts a prefix off, all of it older than the cutoff, up to the    *)
(* first quote that is not.                                                *)
LEMMA ExpiredSuffix ==
  ASSUME NEW N, NEW window \in Seq(N), NEW received, NEW at
  PROVE  \E m \in 0 .. Len(window) :
             /\ Len(Expired(window, received, at)) = Len(window) - m
             /\ \A i \in 1 .. Len(window) - m :
                    Expired(window, received, at)[i] = window[i + m]
             /\ \A i \in 1 .. m : Old(received[window[i]], at - Window)
             /\ m < Len(window) => ~Old(received[window[m + 1]], at - Window)
<1> DEFINE old == {i \in DOMAIN window : \A j \in 1 .. i : Old(received[window[j]], at - Window)}
           m == Cardinality(old)
<1>1. DOMAIN window = 1 .. Len(window) /\ Len(window) \in Nat
  OBVIOUS
<1>2. IsFiniteSet(1 .. Len(window)) /\ Cardinality(1 .. Len(window)) = Len(window)
  BY <1>1, FirstNumbers
<1>3. m \in 0 .. Len(window)
  <2>1. old \in SUBSET (1 .. Len(window))
    BY <1>1
  <2> HIDE DEF old
  <2>2. IsFiniteSet(old) /\ Cardinality(old) <= Len(window)
    BY <1>2, <2>1, FS_Subset
  <2>3. Cardinality(old) \in Nat
    BY <2>2, FS_CardinalityType
  <2> QED
    BY <1>1, <2>2, <2>3
<1>4. \A i \in 1 .. m : i \in old
  <2> SUFFICES ASSUME NEW i \in 1 .. m, i \notin old PROVE FALSE
    OBVIOUS
  <2>1. i \in Nat /\ i - 1 \in Nat /\ i \in DOMAIN window
    BY <1>1, <1>3
  <2>2. old \in SUBSET (1 .. i - 1)
    <3> SUFFICES ASSUME NEW j \in old PROVE j \in 1 .. i - 1
      OBVIOUS
    <3>1. j \in DOMAIN window /\ \A l \in 1 .. j : Old(received[window[l]], at - Window)
      OBVIOUS
    <3>2. ~(i <= j)
      <4> SUFFICES ASSUME i <= j PROVE FALSE
        OBVIOUS
      <4>1. \A l \in 1 .. i : l \in 1 .. j
        BY <1>1, <2>1, <3>1
      <4> QED
        BY <2>1, <3>1, <4>1
    <3> QED
      BY <1>1, <2>1, <3>1, <3>2
  <2>3. IsFiniteSet(1 .. i - 1) /\ Cardinality(1 .. i - 1) = i - 1
    BY <2>1, FirstNumbers
  <2> HIDE DEF old
  <2>4. Cardinality(old) <= i - 1
    BY <2>2, <2>3, FS_Subset, ZenonT(40)
  <2> QED
    BY <1>3, <2>1, <2>4
<1>5. \A i \in 1 .. m : Old(received[window[i]], at - Window)
  BY <1>3, <1>4
<1>6. Expired(window, received, at) = SubSeq(window, m + 1, Len(window))
  BY DEF Expired
<1>8. ASSUME m < Len(window), Old(received[window[m + 1]], at - Window) PROVE FALSE
  <2>1. m \in Nat /\ m + 1 \in DOMAIN window
    BY <1>1, <1>3, <1>8
  <2>2. \A j \in 1 .. m + 1 : j \in 1 .. m \/ j = m + 1
    BY <2>1
  <2>3. \A j \in 1 .. m + 1 : Old(received[window[j]], at - Window)
    BY <1>5, <1>8, <2>2
  <2>4. m + 1 \in old
    BY <2>1, <2>3
  <2>5. 1 .. m + 1 \in SUBSET old
    BY <1>4, <2>2, <2>4
  <2>6. IsFiniteSet(1 .. m + 1) /\ Cardinality(1 .. m + 1) = m + 1
    <3>1. m + 1 \in Nat
      BY <2>1
    <3> HIDE DEF m
    <3> QED
      BY <3>1, FirstNumbers
  <2>7. IsFiniteSet(old)
    <3>1. old \in SUBSET (1 .. Len(window))
      BY <1>1
    <3> HIDE DEF old
    <3> QED
      BY <1>2, <3>1, FS_Subset
  <2> HIDE DEF old
  <2>8. Cardinality(1 .. m + 1) <= Cardinality(old)
    BY <2>5, <2>7, FS_Subset
  <2> QED
    BY <2>1, <2>6, <2>8
<1> HIDE DEF m, old
<1>7. /\ Len(SubSeq(window, m + 1, Len(window))) = Len(window) - m
      /\ \A i \in 1 .. Len(window) - m :
             SubSeq(window, m + 1, Len(window))[i] = window[i + m]
  <2>1. /\ m + 1 \in Int /\ Len(window) \in Int
        /\ \A i \in m + 1 .. Len(window) : window[i] \in N
    BY <1>1, <1>3
  <2>2. /\ Len(SubSeq(window, m + 1, Len(window))) =
               IF m + 1 <= Len(window) THEN Len(window) - (m + 1) + 1 ELSE 0
        /\ \A i \in 1 .. Len(window) - (m + 1) + 1 :
               SubSeq(window, m + 1, Len(window))[i] = window[(m + 1) + i - 1]
    BY <2>1, SubSeqProperties
  <2> DEFINE suffix == SubSeq(window, m + 1, Len(window))
  <2> HIDE DEF suffix
  <2>3. m \in Nat /\ Len(window) \in Nat /\ m <= Len(window)
    BY <1>1, <1>3
  <2>4. Len(suffix) = Len(window) - m
    BY <2>2, <2>3 DEF suffix
  <2>5. ASSUME NEW i \in 1 .. Len(window) - m PROVE suffix[i] = window[i + m]
    <3>1. i \in 1 .. Len(window) - (m + 1) + 1 /\ (m + 1) + i - 1 = i + m
      BY <2>3
    <3> QED
      BY <2>2, <3>1 DEF suffix
  <2> QED
    BY <2>4, <2>5 DEF suffix
<1> QED
  BY <1>3, <1>5, <1>6, <1>7, <1>8

(* What an expired window still holds: the same quotes in the same order,  *)
(* each that is not older than the cutoff among them.                      *)
RecentPart(w, window, received, at) ==
    /\ \A i, j \in DOMAIN w : i < j => w[i] < w[j]
    /\ \A i \in DOMAIN w : \E j \in DOMAIN window : w[i] = window[j]
    /\ \A j \in DOMAIN window : ~Old(received[window[j]], at - Window) =>
           \E i \in DOMAIN w : w[i] = window[j]

LEMMA ExpiredHolds ==
  ASSUME NEW window \in Seq(Nat), NEW received, NEW at,
         \A i, j \in DOMAIN window : i < j => window[i] < window[j]
  PROVE  RecentPart(Expired(window, received, at), window, received, at)
<1> DEFINE w == Expired(window, received, at)
<1>1. w \in Seq(Nat)
  BY ExpiredType
<1> PICK m \in 0 .. Len(window) :
        /\ Len(w) = Len(window) - m
        /\ \A i \in 1 .. Len(window) - m : w[i] = window[i + m]
        /\ \A i \in 1 .. m : Old(received[window[i]], at - Window)
  BY ExpiredSuffix
<1> HIDE DEF w
<1>2. /\ DOMAIN window = 1 .. Len(window) /\ Len(window) \in Nat
      /\ m \in Nat /\ m <= Len(window)
      /\ DOMAIN w = 1 .. Len(window) - m
      /\ \A i \in DOMAIN w : i + m \in DOMAIN window /\ w[i] = window[i + m]
  <2>1. DOMAIN window = 1 .. Len(window) /\ Len(window) \in Nat
    OBVIOUS
  <2>2. m \in Nat /\ m <= Len(window)
    BY <2>1
  <2>3. DOMAIN w = 1 .. Len(w)
    BY <1>1
  <2>4. DOMAIN w = 1 .. Len(window) - m
    BY <2>3
  <2>5. \A i \in DOMAIN w : i + m \in DOMAIN window /\ w[i] = window[i + m]
    BY <2>1, <2>2, <2>4, SMTT(30)
  <2> QED
    BY <2>1, <2>2, <2>4, <2>5
<1>3. ASSUME NEW i \in DOMAIN w, NEW j \in DOMAIN w, i < j PROVE w[i] < w[j]
  <2>1. i + m < j + m /\ i + m \in DOMAIN window /\ j + m \in DOMAIN window
    BY <1>2, <1>3
  <2>2. window[i + m] < window[j + m]
    BY <2>1
  <2> QED
    BY <1>2, <2>2
<1>4. \A i \in DOMAIN w : \E j \in DOMAIN window : w[i] = window[j]
  BY <1>2
<1>5. ASSUME NEW j \in DOMAIN window, ~Old(received[window[j]], at - Window)
      PROVE  \E i \in DOMAIN w : w[i] = window[j]
  <2>1. j > m
    BY <1>2, <1>5
  <2>2. j - m \in DOMAIN w /\ w[j - m] = window[j]
    BY <1>2, <2>1
  <2> QED
    BY <2>2
<1> QED
  BY <1>3, <1>4, <1>5 DEF w, RecentPart

(* Times, horizons and the width of the window are numbers.                *)
LEMMA BookNumbers ==
  ASSUME TypeOK
  PROVE  /\ Window \in Nat /\ Window = Interval + Lateness
         /\ Interval \in Nat /\ Lateness \in Nat /\ Time \subseteq Nat
         /\ \A n \in DOMAIN arrivals : n \in Nat /\ At(n) \in Nat /\ KeyOf(n) \in Key
         /\ \A k \in Key : horizon[k] \in Nat /\ windows[k] \in Seq(DOMAIN arrivals)
                           /\ windows[k] \in Seq(Nat)
<1>1. {Interval, Lateness, LastTime} \subseteq Nat
  BY QuoteConstantsOK
<1>2. Time \subseteq Nat
  BY <1>1 DEF Time
<1>3. \A n \in DOMAIN arrivals : n \in Nat /\ At(n) \in Nat /\ KeyOf(n) \in Key
  <2> SUFFICES ASSUME NEW n \in DOMAIN arrivals
               PROVE  n \in Nat /\ At(n) \in Nat /\ KeyOf(n) \in Key
    OBVIOUS
  <2>1. n \in Nat /\ arrivals[n] \in Quote
    BY DEF TypeOK
  <2> QED
    BY <1>2, <2>1 DEF Quote, At, KeyOf
<1>4. DOMAIN arrivals \subseteq Nat
  BY <1>3
<1>5. \A k \in Key : windows[k] \in Seq(DOMAIN arrivals)
  BY DEF TypeOK
<1>6. \A k \in Key : windows[k] \in Seq(Nat)
  BY <1>4, <1>5
<1>7. Window \in Nat /\ Window = Interval + Lateness
  BY <1>1 DEF Window
<1>8. \A k \in Key : horizon[k] \in Nat
  BY <1>2 DEF TypeOK
<1> QED
  BY <1>1, <1>2, <1>3, <1>5, <1>6, <1>7, <1>8

LEMMA WindowInit == Init => WindowInv
<1> SUFFICES ASSUME Init PROVE WindowInv
  OBVIOUS
<1>1. DOMAIN arrivals = {} /\ \A k \in Key : DOMAIN windows[k] = {}
  BY DEF Init
<1> QED
  BY <1>1, BookInit DEF WindowInv, WindowsRise, WindowKeys, RecentKept

(* A quote joins its window last, before the window is expired to it.      *)
LEMMA WindowReceive ==
  ASSUME WindowInv, BookInv', NEW k \in Key, NEW at \in Time, Receive(k, at)
  PROVE  WindowInv'
<1> DEFINE n == Len(arrivals) + 1
           grown == Append(windows[k], n)
<1> USE DEF WindowInv, BookInv
<1>1. /\ Len(arrivals) \in Nat /\ DOMAIN arrivals = 1 .. Len(arrivals)
      /\ DOMAIN arrivals' = 1 .. n /\ n \in Nat
      /\ arrivals'[n].key = k /\ arrivals'[n].at = at
      /\ \A i \in DOMAIN arrivals : arrivals'[i] = arrivals[i]
  BY DEF Receive, TypeOK
<1>2. /\ Window \in Nat /\ at \in Nat
      /\ horizon[k] \in Nat /\ windows[k] \in Seq(DOMAIN arrivals) /\ windows[k] \in Seq(Nat)
  BY BookNumbers
<1>3. /\ windows' = [windows EXCEPT ![k] = Expired(grown, arrivals', at)]
      /\ horizon' = [horizon EXCEPT ![k] = Later(@, at)]
      /\ DOMAIN windows = Key /\ DOMAIN horizon = Key
  BY DEF Receive, TypeOK
<1>4. /\ grown \in Seq(Nat) /\ DOMAIN grown = 1 .. Len(windows[k]) + 1
      /\ DOMAIN windows[k] = 1 .. Len(windows[k]) /\ Len(windows[k]) \in Nat
      /\ grown[Len(windows[k]) + 1] = n
      /\ \A i \in DOMAIN windows[k] : grown[i] = windows[k][i] /\ windows[k][i] \in DOMAIN arrivals
  BY <1>1, <1>2, SMTT(30)
<1>5. \A i, j \in DOMAIN grown : i < j => grown[i] < grown[j]
  <2> SUFFICES ASSUME NEW i \in DOMAIN grown, NEW j \in DOMAIN grown, i < j
               PROVE  grown[i] < grown[j]
    OBVIOUS
  <2> HIDE DEF grown, n
  <2>1. i \in DOMAIN windows[k] /\ grown[i] = windows[k][i] /\ windows[k][i] \in 1 .. Len(arrivals)
    <3>1. /\ i \in Nat /\ j \in Nat /\ 1 <= i /\ j <= Len(windows[k]) + 1 /\ i < j
          /\ Len(windows[k]) \in Nat
      BY <1>4
    <3>2. i \in 1 .. Len(windows[k])
      BY <3>1
    <3> QED
      BY <1>1, <1>4, <3>2
  <2>2. CASE j \in DOMAIN windows[k]
    <3>1. grown[j] = windows[k][j]
      BY <1>4, <2>2
    <3> QED
      BY <2>1, <2>2, <3>1 DEF WindowsRise
  <2>3. CASE j \notin DOMAIN windows[k]
    <3>1. grown[j] = n
      BY <1>4, <2>3
    <3>2. n = Len(arrivals) + 1
      BY DEF n
    <3> QED
      BY <1>1, <2>1, <3>1, <3>2
  <2> QED
    BY <2>2, <2>3
<1>6. RecentPart(windows'[k], grown, arrivals', at)
  <2> HIDE DEF grown
  <2>1. RecentPart(Expired(grown, arrivals', at), grown, arrivals', at)
    BY <1>4, <1>5, ExpiredHolds
  <2> QED
    BY <1>3, <2>1
<1> HIDE DEF grown
<1>7. WindowsRise'
  <2>1. \A i, j \in DOMAIN windows'[k] : i < j => windows'[k][i] < windows'[k][j]
    BY <1>6 DEF RecentPart
  <2> QED
    BY <1>3, <2>1 DEF WindowsRise
<1>8. WindowKeys'
  <2>1. ASSUME NEW j \in DOMAIN grown PROVE arrivals'[grown[j]].key = k
    <3>1. CASE j \in DOMAIN windows[k]
      <4>1. arrivals'[grown[j]] = arrivals[windows[k][j]]
        BY <1>1, <1>4, <3>1
      <4>2. arrivals[windows[k][j]].key = k
        BY <3>1 DEF WindowKeys, KeyOf
      <4> QED
        BY <4>1, <4>2
    <3>2. CASE j \notin DOMAIN windows[k]
      <4>1. j = Len(windows[k]) + 1
        BY <1>4, <3>2
      <4> QED
        BY <1>1, <1>4, <4>1
    <3> QED
      BY <3>1, <3>2
  <2>2. \A i \in DOMAIN windows'[k] : arrivals'[windows'[k][i]].key = k
    BY <1>6, <2>1 DEF RecentPart
  <2>3. ASSUME NEW q \in Key, q # k, NEW i \in DOMAIN windows'[q]
        PROVE  arrivals'[windows'[q][i]].key = q
    <3>1. windows'[q] = windows[q]
      BY <1>3, <2>3
    <3>2. windows[q] \in Seq(DOMAIN arrivals)
      BY BookNumbers
    <3>3. windows[q][i] \in DOMAIN arrivals
      BY <2>3, <3>1, <3>2
    <3> QED
      BY <1>1, <2>3, <3>1, <3>3 DEF WindowKeys, KeyOf
  <2> QED
    BY <2>2, <2>3 DEF WindowKeys, KeyOf
<1>9. RecentKept'
  <2> SUFFICES ASSUME NEW q \in Key, NEW x \in DOMAIN arrivals',
                      arrivals'[x].key = q, arrivals'[x].at >= horizon'[q] - Window
               PROVE  \E i \in DOMAIN windows'[q] : windows'[q][i] = x
    BY DEF RecentKept, KeyOf, At, InWindow, Window
  <2>1. CASE q # k
    <3>1. windows'[q] = windows[q] /\ horizon'[q] = horizon[q]
      BY <1>3, <2>1
    <3>2. x \in DOMAIN arrivals /\ arrivals'[x] = arrivals[x]
      BY <1>1, <2>1
    <3> QED
      BY <3>1, <3>2 DEF RecentKept, KeyOf, At, InWindow
  <2>2. CASE q = k
    <3>1. horizon'[k] \in Nat /\ horizon'[k] >= horizon[k] /\ horizon'[k] >= at
      BY <1>2, <1>3 DEF Later
    <3>2. arrivals'[x].at \in Nat
      <4>1. arrivals' \in Seq(Quote)
        BY DEF TypeOK
      <4>2. arrivals'[x] \in Quote
        BY <4>1
      <4> QED
        BY <4>2, BookNumbers DEF Quote
    <3>3. \E j \in DOMAIN grown : grown[j] = x
      <4>1. CASE x = n
        BY <1>4, <4>1
      <4>2. CASE x # n
        <5>1. x \in DOMAIN arrivals /\ arrivals'[x] = arrivals[x]
          BY <1>1, <4>2
        <5>2. arrivals[x].at >= horizon[k] - Window
          BY <1>2, <2>2, <3>1, <3>2, <5>1
        <5>3. InWindow(k, x)
          BY <2>2, <5>1, <5>2 DEF RecentKept, KeyOf, At
        <5> QED
          BY <1>4, <5>3 DEF InWindow
      <4> QED
        BY <4>1, <4>2
    <3>4. ~Old(arrivals'[x], at - Window)
      BY <1>2, <2>2, <3>1, <3>2 DEF Old
    <3> QED
      BY <1>6, <2>2, <3>3, <3>4 DEF RecentPart
  <2> QED
    BY <2>1, <2>2
<1> QED
  BY <1>7, <1>8, <1>9

(* A trade expires the window of its contract and leaves the others.       *)
LEMMA WindowConsume ==
  ASSUME WindowInv, BookInv', NEW t \in Trade, NEW k \in Key, NEW at \in Time,
         ConsumeForTrade(t, k, at)
  PROVE  WindowInv'
<1> USE DEF WindowInv, BookInv
<1>1. arrivals' = arrivals
  BY DEF ConsumeForTrade
<1>2. /\ Window \in Nat /\ at \in Nat
      /\ horizon[k] \in Nat /\ windows[k] \in Seq(DOMAIN arrivals) /\ windows[k] \in Seq(Nat)
      /\ \A n \in DOMAIN arrivals : At(n) \in Nat
  BY BookNumbers
<1>3. /\ windows' = [windows EXCEPT ![k] = Expired(@, arrivals, at)]
      /\ horizon' = [horizon EXCEPT ![k] = Later(@, at)]
      /\ DOMAIN windows = Key /\ DOMAIN horizon = Key
  BY DEF ConsumeForTrade, TypeOK
<1>4. windows'[k] = Expired(windows[k], arrivals, at)
  BY <1>3
<1>5. \A i, j \in DOMAIN windows[k] : i < j => windows[k][i] < windows[k][j]
  BY DEF WindowsRise
<1>6. RecentPart(windows'[k], windows[k], arrivals, at)
  BY <1>2, <1>4, <1>5, ExpiredHolds
<1>7. WindowsRise'
  <2>1. \A i, j \in DOMAIN windows'[k] : i < j => windows'[k][i] < windows'[k][j]
    BY <1>6 DEF RecentPart
  <2> QED
    BY <1>3, <2>1 DEF WindowsRise
<1>8. WindowKeys'
  <2>1. \A i \in DOMAIN windows'[k] : KeyOf(windows'[k][i]) = k
    BY <1>6 DEF WindowKeys, RecentPart
  <2> QED
    BY <1>1, <1>3, <2>1 DEF WindowKeys, KeyOf
<1>9. RecentKept'
  <2> SUFFICES ASSUME NEW q \in Key, NEW x \in DOMAIN arrivals,
                      KeyOf(x) = q, At(x) >= horizon'[q] - Window
               PROVE  \E i \in DOMAIN windows'[q] : windows'[q][i] = x
    BY <1>1 DEF RecentKept, KeyOf, At, InWindow, Window
  <2>1. CASE q # k
    <3>1. windows'[q] = windows[q] /\ horizon'[q] = horizon[q]
      BY <1>3, <2>1
    <3> QED
      BY <3>1 DEF RecentKept, InWindow
  <2>2. CASE q = k
    <3>1. horizon'[k] \in Nat /\ horizon'[k] >= horizon[k] /\ horizon'[k] >= at
      BY <1>2, <1>3 DEF Later
    <3>2. At(x) \in Nat /\ At(x) >= horizon[k] - Window
      BY <1>2, <2>2, <3>1
    <3>3. \E j \in DOMAIN windows[k] : windows[k][j] = x
      BY <2>2, <3>2 DEF RecentKept, InWindow
    <3>4. ~Old(arrivals[x], at - Window)
      BY <1>2, <2>2, <3>1, <3>2 DEF Old, At
    <3> QED
      BY <1>6, <2>2, <3>3, <3>4 DEF RecentPart
  <2> QED
    BY <2>1, <2>2
<1> QED
  BY <1>7, <1>8, <1>9

(* Every step of the book keeps the recent quotes in their windows.        *)
LEMMA WindowStep == WindowInv /\ [Next]_vars => WindowInv'
<1> SUFFICES ASSUME WindowInv, [Next]_vars PROVE WindowInv'
  OBVIOUS
<1>1. BookInv'
  BY BookStep DEF WindowInv
<1>2. CASE ConsumeCurrentState \/ UNCHANGED vars
  BY <1>1, <1>2 DEF ConsumeCurrentState, vars, WindowInv, WindowsRise, WindowKeys, RecentKept,
                    InWindow, KeyOf, At
<1> QED
  BY <1>1, <1>2, WindowReceive, WindowConsume DEF Next

(* The windows hold their contracts' recent quotes in order of receipt.    *)
THEOREM WindowInvariant == Spec => []WindowInv
BY WindowInit, WindowStep, PTL DEF Spec

(* No trade within the allowed lateness loses its quote to the pruning     *)
(* (quote_book.py:76-95), in whatever order quotes and trades come.        *)
THEOREM BookClassifies == Spec => []LateTradesClassifiable
<1>1. WindowInv => LateTradesClassifiable
  <2> SUFFICES ASSUME WindowInv, NEW k \in Key, NEW at \in Time,
                      at >= horizon[k] - Lateness,
                      NEW n \in Newest(Before(k, at)), At(n) >= at - Interval
               PROVE  NewestValid(k, at) = Newest(Before(k, at))
    BY DEF LateTradesClassifiable
  <2> DEFINE w == Expired(windows[k], arrivals, at)
  <2>1. /\ Window \in Nat /\ Window = Interval + Lateness
        /\ Interval \in Nat /\ Lateness \in Nat /\ at \in Nat /\ horizon[k] \in Nat
        /\ windows[k] \in Seq(DOMAIN arrivals) /\ windows[k] \in Seq(Nat)
        /\ \A x \in DOMAIN arrivals : x \in Nat /\ At(x) \in Nat
    BY BookNumbers DEF WindowInv, BookInv
  <2>2. /\ n \in DOMAIN arrivals /\ KeyOf(n) = k /\ At(n) <= at
        /\ \A x \in Before(k, at) : x <= n
    BY DEF Newest, Before
  <2>3. Newest(Before(k, at)) = {n}
    <3> SUFFICES ASSUME NEW x \in Newest(Before(k, at)) PROVE x = n
      OBVIOUS
    <3>1. x \in Before(k, at) /\ n \in Before(k, at) /\ n <= x /\ x <= n
      BY DEF Newest
    <3> QED
      BY <2>1, <3>1 DEF Before
  <2>4. \E j \in DOMAIN windows[k] : windows[k][j] = n
    <3>1. At(n) >= horizon[k] - Window
      BY <2>1, <2>2
    <3> QED
      BY <2>2, <3>1 DEF WindowInv, RecentKept, InWindow
  <2>5. ~Old(arrivals[n], at - Window)
    BY <2>1, <2>2 DEF Old, At
  <2>6. RecentPart(w, windows[k], arrivals, at)
    BY <2>1, ExpiredHolds DEF WindowInv, WindowsRise
  <2>7. w \in Seq(Nat)
    BY <2>1, ExpiredType
  <2> HIDE DEF w
  <2>8. PICK j \in DOMAIN w : w[j] = n
    BY <2>4, <2>5, <2>6 DEF RecentPart
  <2> DEFINE C == {i \in DOMAIN w : At(w[i]) <= at}
  <2>9. NewestValid(k, at) = {w[i] : i \in {i \in C : \A l \in C : l <= i}}
    BY DEF NewestValid, LastValid, w
  <2>10. j \in C /\ DOMAIN w \subseteq Nat
    BY <2>2, <2>7, <2>8
  <2>11. \A i \in C : w[i] \in Before(k, at) /\ w[i] \in Nat
    <3> SUFFICES ASSUME NEW i \in C PROVE w[i] \in Before(k, at) /\ w[i] \in Nat
      OBVIOUS
    <3>1. PICK l \in DOMAIN windows[k] : w[i] = windows[k][l]
      BY <2>6 DEF RecentPart
    <3>2. windows[k][l] \in DOMAIN arrivals /\ KeyOf(windows[k][l]) = k
      BY <2>1 DEF WindowInv, WindowKeys
    <3> QED
      BY <2>1, <3>1, <3>2 DEF Before
  <2>12. ASSUME NEW i \in C PROVE i <= j
    <3>1. w[i] <= n /\ n \in Nat /\ w[i] \in Nat
      BY <2>1, <2>2, <2>11
    <3>2. j < i => w[j] < w[i]
      BY <2>6 DEF RecentPart
    <3> QED
      BY <2>8, <2>10, <3>1, <3>2
  <2>13. {i \in C : \A l \in C : l <= i} = {j}
    BY <2>10, <2>12
  <2> QED
    BY <2>3, <2>8, <2>9, <2>13
<1> QED
  BY <1>1, WindowInvariant, PTL

-----------------------------------------------------------------------------
(* Replay.  An input as the windows see it: the quote it brings (0 for a   *)
(* trade), its contract and its time.                                      *)
Log ==
    [i \in DOMAIN ingress |->
        LET input == ingress[i] IN
        IF input.type = "quote"
        THEN [quote |-> input.n, key |-> KeyOf(input.n), at |-> At(input.n)]
        ELSE [quote |-> 0, key |-> input.key, at |-> input.at]]

LogEntry == [quote : Nat, key : Key, at : Nat]

(* The log of quotes received in the order of their numbers.               *)
LogOf(log, received) ==
    /\ log \in Seq(LogEntry)
    /\ \A i, j \in DOMAIN log :
          (i < j /\ log[i].quote # 0 /\ log[j].quote # 0) => log[i].quote < log[j].quote
    /\ \A i \in DOMAIN log : log[i].quote # 0 => received[log[i].quote].at = log[i].at

(* A contract's quotes are logged in event-time order.                     *)
InOrder(log, k) ==
    \A i, j \in DOMAIN log :
        (/\ i < j /\ log[i].quote # 0 /\ log[j].quote # 0
         /\ log[i].key = k /\ log[j].key = k)
        => log[i].at <= log[j].at

(* The inputs of I whose quotes no later one of I has made too old.        *)
Lasting(log, k, I) ==
    {i \in I :
        /\ log[i].quote # 0 /\ log[i].key = k
        /\ \A j \in I : (i < j /\ log[j].key = k) => log[i].at >= log[j].at - Window}

(* A window that was given the inputs I holds just these quotes, in order. *)
Holds(w, log, k, I) ==
    /\ w \in Seq(Nat)
    /\ \A i, j \in DOMAIN w : i < j => w[i] < w[j]
    /\ {w[i] : i \in DOMAIN w} = {log[i].quote : i \in Lasting(log, k, I)}

LEMMA LeastOf ==
  ASSUME NEW S \in SUBSET Nat, S # {}
  PROVE  \E x \in S : \A y \in S : x <= y
<1> DEFINE R == OpToRel(<, Nat)
<1>1. \A x, y \in Nat : y < x => <<y, x>> \in R
  BY DEF OpToRel
<1>2. IsWellFoundedOn(R, Nat)
  BY NatLessThanWellFounded
<1> HIDE DEF R
<1>3. PICK x \in S : \A y \in S : ~(<<y, x>> \in R)
  BY <1>2, WFMin
<1>4. ASSUME NEW y \in S PROVE x <= y
  <2>1. x \in Nat /\ y \in Nat
    OBVIOUS
  <2>2. ~(y < x)
    BY <1>1, <1>3, <2>1
  <2> QED
    BY <2>1, <2>2
<1> QED
  BY <1>4

(* A window whose quotes came in event-time order.                         *)
TimedWindow(window, received) ==
    /\ window \in Seq(Nat)
    /\ \A i, j \in DOMAIN window : i < j => window[i] < window[j]
    /\ \A i \in DOMAIN window : received[window[i]].at \in Nat
    /\ \A i, j \in DOMAIN window : i < j => received[window[i]].at <= received[window[j]].at

(* Of it expiry leaves just those not too old.                             *)
NotTooOld(w, window, received, at) ==
    /\ w \in Seq(Nat)
    /\ \A i, j \in DOMAIN w : i < j => w[i] < w[j]
    /\ \A i \in DOMAIN w :
          \E j \in DOMAIN window : w[i] = window[j] /\ received[w[i]].at >= at - Window
    /\ \A j \in DOMAIN window :
          received[window[j]].at >= at - Window => \E i \in DOMAIN w : w[i] = window[j]

LEMMA ExpiredExact ==
  ASSUME NEW window, NEW received, TimedWindow(window, received), NEW at \in Nat, Window \in Nat
  PROVE  NotTooOld(Expired(window, received, at), window, received, at)
<1> DEFINE w == Expired(window, received, at)
<1>0. /\ window \in Seq(Nat)
      /\ \A i, j \in DOMAIN window : i < j => window[i] < window[j]
      /\ \A i \in DOMAIN window : received[window[i]].at \in Nat
      /\ \A i, j \in DOMAIN window : i < j => received[window[i]].at <= received[window[j]].at
  BY DEF TimedWindow
<1>1. w \in Seq(Nat)
  BY <1>0, ExpiredType
<1>2. RecentPart(w, window, received, at)
  BY <1>0, ExpiredHolds
<1> PICK m \in 0 .. Len(window) :
        /\ Len(w) = Len(window) - m
        /\ \A i \in 1 .. Len(window) - m : w[i] = window[i + m]
        /\ \A i \in 1 .. m : Old(received[window[i]], at - Window)
        /\ m < Len(window) => ~Old(received[window[m + 1]], at - Window)
  BY <1>0, ExpiredSuffix
<1> HIDE DEF w
<1>3. ASSUME NEW i \in DOMAIN w
      PROVE  \E j \in DOMAIN window : w[i] = window[j] /\ received[w[i]].at >= at - Window
  <2>1. DOMAIN window = 1 .. Len(window) /\ Len(window) \in Nat /\ m \in Nat
    BY <1>0
  <2>2. DOMAIN w = 1 .. Len(window) - m
    BY <1>1, <2>1
  <2>3. i \in Nat /\ 1 <= i /\ i <= Len(window) - m
    BY <2>1, <2>2
  <2>4. i + m \in DOMAIN window /\ w[i] = window[i + m] /\ m + 1 \in DOMAIN window
    <3>1. i + m \in 1 .. Len(window) /\ m + 1 \in 1 .. Len(window)
      BY <2>1, <2>3
    <3> QED
      BY <2>1, <2>2, <3>1
  <2> DEFINE T(l) == received[window[l]].at
  <2>5. /\ T(m + 1) \in Nat /\ T(i + m) \in Nat /\ at - Window \in Int
        /\ \A a, b \in DOMAIN window : a < b => T(a) <= T(b)
    <3>1. T(m + 1) \in Nat /\ T(i + m) \in Nat
      BY <1>0, <2>4, Zenon
    <3>2. \A a, b \in DOMAIN window : a < b => T(a) <= T(b)
      BY <1>0, Zenon
    <3>3. at - Window \in Int
      OBVIOUS
    <3> QED
      BY <3>1, <3>2, <3>3, Zenon
  <2>6. ~(T(m + 1) < at - Window)
    BY <2>1, <2>3 DEF Old
  <2> HIDE DEF T
  <2>7. T(i + m) >= at - Window
    <3>1. i = 1 \/ m + 1 < i + m
      BY <2>1, <2>3
    <3>2. CASE i = 1
      <4>1. i + m = m + 1
        BY <2>1, <3>2
      <4> QED
        BY <2>5, <2>6, <4>1
    <3>3. CASE m + 1 < i + m
      <4>1. T(m + 1) <= T(i + m)
        BY <2>4, <2>5, <3>3
      <4> QED
        BY <2>5, <2>6, <4>1
    <3> QED
      BY <3>1, <3>2, <3>3
  <2> QED
    BY <2>4, <2>7 DEF T
<1>4. ASSUME NEW j \in DOMAIN window, received[window[j]].at >= at - Window
      PROVE  \E i \in DOMAIN w : w[i] = window[j]
  <2>1. ~Old(received[window[j]], at - Window)
    BY <1>0, <1>4 DEF Old
  <2> QED
    BY <1>2, <2>1 DEF RecentPart
<1> QED
  BY <1>1, <1>2, <1>3, <1>4 DEF RecentPart, NotTooOld, w

LEMMA LogNumbers ==
  ASSUME NEW log, log \in Seq(LogEntry)
  PROVE  /\ DOMAIN log = 1 .. Len(log) /\ Len(log) \in Nat
         /\ \A i \in DOMAIN log : i \in Nat /\ log[i].quote \in Nat /\ log[i].at \in Nat
<1>1. DOMAIN log = 1 .. Len(log) /\ Len(log) \in Nat
  OBVIOUS
<1>2. ASSUME NEW i \in DOMAIN log PROVE log[i].quote \in Nat /\ log[i].at \in Nat
  <2>1. log[i] \in LogEntry
    OBVIOUS
  <2> QED
    BY <2>1 DEF LogEntry
<1> QED
  BY <1>1, <1>2

(* Given the next input of its contract, a window holds what lasts still.  *)
LEMMA HoldsNext ==
  ASSUME NEW log, NEW received, LogOf(log, received), Window \in Nat,
         NEW k, InOrder(log, k), NEW p \in DOMAIN log, log[p].key = k,
         NEW I \in SUBSET DOMAIN log, \A i \in I : i < p,
         NEW w, Holds(w, log, k, I),
         NEW grown, grown = IF log[p].quote = 0 THEN w ELSE Append(w, log[p].quote)
  PROVE  Holds(Expired(grown, received, log[p].at), log, k, I \cup {p})
<1> DEFINE q == log[p].quote
           at == log[p].at
           J == Lasting(log, k, I)
           G == IF q = 0 THEN J ELSE J \cup {p}
<1>1. /\ \A i \in DOMAIN log : i \in Nat /\ log[i].quote \in Nat /\ log[i].at \in Nat
      /\ \A i, j \in DOMAIN log :
            (i < j /\ log[i].quote # 0 /\ log[j].quote # 0) => log[i].quote < log[j].quote
      /\ \A i \in DOMAIN log : log[i].quote # 0 => received[log[i].quote].at = log[i].at
  BY LogNumbers DEF LogOf
<1>2. /\ J \subseteq I /\ J \subseteq DOMAIN log
      /\ \A a \in J : log[a].quote # 0 /\ log[a].key = k /\ a < p
  BY DEF Lasting
<1>3. /\ w \in Seq(Nat)
      /\ \A i, j \in DOMAIN w : i < j => w[i] < w[j]
      /\ {w[i] : i \in DOMAIN w} = {log[i].quote : i \in J}
  BY DEF Holds
<1>4. \A a \in G : a \in DOMAIN log /\ log[a].quote # 0 /\ log[a].key = k
  BY <1>2
<1>5. /\ grown \in Seq(Nat)
      /\ \A i, j \in DOMAIN grown : i < j => grown[i] < grown[j]
      /\ {grown[i] : i \in DOMAIN grown} = {log[i].quote : i \in G}
  <2>1. CASE q = 0
    BY <1>3, <2>1
  <2>2. CASE q # 0
    <3>1. grown = Append(w, q) /\ q \in Nat
      BY <1>1, <2>2
    <3>2. /\ grown \in Seq(Nat) /\ DOMAIN w = 1 .. Len(w) /\ Len(w) \in Nat
          /\ DOMAIN grown = 1 .. Len(w) + 1
          /\ \A i \in DOMAIN w : grown[i] = w[i]
          /\ grown[Len(w) + 1] = q
      BY <1>3, <3>1
    <3>3. \A i \in DOMAIN grown : i \in DOMAIN w \/ i = Len(w) + 1
      BY <3>2
    <3>4. \A i \in DOMAIN w : w[i] < q
      <4> SUFFICES ASSUME NEW i \in DOMAIN w PROVE w[i] < q
        OBVIOUS
      <4>1. PICK a \in J : w[i] = log[a].quote
        BY <1>3
      <4> QED
        BY <1>1, <1>2, <2>2, <4>1
    <3>5. \A i, j \in DOMAIN grown : i < j => grown[i] < grown[j]
      <4> SUFFICES ASSUME NEW i \in DOMAIN grown, NEW j \in DOMAIN grown, i < j
                   PROVE  grown[i] < grown[j]
        OBVIOUS
      <4>1. i \in DOMAIN w
        BY <3>2
      <4>2. CASE j \in DOMAIN w
        BY <1>3, <3>2, <4>1, <4>2
      <4>3. CASE j = Len(w) + 1
        BY <3>2, <3>4, <4>1, <4>3
      <4> QED
        BY <3>3, <4>2, <4>3
    <3>6. {grown[i] : i \in DOMAIN grown} = {w[i] : i \in DOMAIN w} \cup {q}
      <4>1. Len(w) + 1 \in DOMAIN grown /\ \A i \in DOMAIN w : i \in DOMAIN grown
        BY <3>2
      <4> QED
        BY <3>2, <3>3, <4>1
    <3>7. {log[i].quote : i \in G} = {log[i].quote : i \in J} \cup {q}
      BY <2>2
    <3> QED
      BY <1>3, <3>2, <3>5, <3>6, <3>7
  <2> QED
    BY <2>1, <2>2
<1> HIDE DEF G
<1>6. ASSUME NEW i \in DOMAIN grown
      PROVE  \E a \in G : grown[i] = log[a].quote /\ received[grown[i]].at = log[a].at
  <2>1. PICK a \in G : grown[i] = log[a].quote
    BY <1>5
  <2> QED
    BY <1>1, <1>4, <2>1
<1>7. \A i \in DOMAIN grown : received[grown[i]].at \in Nat
  BY <1>1, <1>4, <1>6
<1>8. ASSUME NEW i \in DOMAIN grown, NEW j \in DOMAIN grown, i < j
      PROVE  received[grown[i]].at <= received[grown[j]].at
  <2>1. PICK a \in G : grown[i] = log[a].quote /\ received[grown[i]].at = log[a].at
    BY <1>6
  <2>2. PICK b \in G : grown[j] = log[b].quote /\ received[grown[j]].at = log[b].at
    BY <1>6
  <2>3. log[a].quote < log[b].quote
    BY <1>5, <1>8, <2>1, <2>2
  <2>4. /\ a \in DOMAIN log /\ b \in DOMAIN log /\ a \in Nat /\ b \in Nat
        /\ log[a].quote # 0 /\ log[b].quote # 0 /\ log[a].key = k /\ log[b].key = k
        /\ log[a].quote \in Nat /\ log[b].quote \in Nat
    BY <1>1, <1>4
  <2>5. a < b
    <3>1. a = b \/ b < a \/ a < b
      BY <2>4
    <3>2. b < a => log[b].quote < log[a].quote
      BY <1>1, <2>4
    <3> QED
      BY <2>3, <2>4, <3>1, <3>2
  <2>6. log[a].at <= log[b].at
    BY <2>4, <2>5 DEF InOrder
  <2> QED
    BY <2>1, <2>2, <2>6
<1> DEFINE kept == Expired(grown, received, at)
<1>9. NotTooOld(kept, grown, received, at)
  <2>1. at \in Nat
    BY <1>1
  <2>2. TimedWindow(grown, received)
    BY <1>5, <1>7, <1>8 DEF TimedWindow
  <2> QED
    BY <2>1, <2>2, ExpiredExact
<1> HIDE DEF kept
<1>10. {kept[i] : i \in DOMAIN kept} = {log[a].quote : a \in {b \in G : log[b].at >= at - Window}}
  <2>1. ASSUME NEW i \in DOMAIN kept
        PROVE  \E a \in G : log[a].at >= at - Window /\ kept[i] = log[a].quote
    <3>1. PICK j \in DOMAIN grown : kept[i] = grown[j] /\ received[kept[i]].at >= at - Window
      BY <1>9 DEF NotTooOld
    <3>2. PICK a \in G : grown[j] = log[a].quote /\ received[grown[j]].at = log[a].at
      BY <1>6
    <3> QED
      BY <3>1, <3>2
  <2>2. ASSUME NEW a \in G, log[a].at >= at - Window
        PROVE  \E i \in DOMAIN kept : kept[i] = log[a].quote
    <3>1. PICK j \in DOMAIN grown : grown[j] = log[a].quote
      BY <1>5
    <3>2. received[grown[j]].at = log[a].at
      BY <1>1, <1>4, <3>1
    <3> QED
      BY <1>9, <2>2, <3>1, <3>2, SMTT(30) DEF NotTooOld
  <2> QED
    BY <2>1, <2>2
<1>11. Lasting(log, k, I \cup {p}) = {b \in G : log[b].at >= at - Window}
  <2>1. p \in Nat /\ at \in Nat /\ at >= at - Window /\ ~(p < p)
    BY <1>1
  <2>2. ASSUME NEW i \in I
        PROVE  i \in Lasting(log, k, I \cup {p}) <=> i \in J /\ log[i].at >= at - Window
    <3>1. i < p /\ i # p
      BY <2>1
    <3> QED
      BY <3>1 DEF Lasting
  <2>3. p \in Lasting(log, k, I \cup {p}) <=> q # 0
    <3>1. \A j \in I \cup {p} : ~(p < j)
      <4>1. \A j \in I : j \in Nat /\ j < p
        BY <1>1
      <4> QED
        BY <2>1, <4>1
    <3> QED
      BY <3>1 DEF Lasting
  <2>4. p \notin J /\ Lasting(log, k, I \cup {p}) \subseteq I \cup {p}
    BY <1>2, <2>1 DEF Lasting
  <2> HIDE DEF J
  <2> QED
    BY <1>2, <2>1, <2>2, <2>3, <2>4 DEF G
<1> QED
  BY <1>9, <1>10, <1>11 DEF Holds, NotTooOld, kept

(* What a window holds does not depend on the rest of the log.             *)
LEMMA HoldsLogged ==
  ASSUME NEW log, NEW other, NEW k, NEW I, \A i \in I : other[i] = log[i],
         NEW w, Holds(w, log, k, I)
  PROVE  Holds(w, other, k, I)
<1>1. Lasting(other, k, I) = Lasting(log, k, I)
  BY DEF Lasting
<1>2. {other[i].quote : i \in Lasting(log, k, I)} = {log[i].quote : i \in Lasting(log, k, I)}
  BY DEF Lasting
<1> QED
  BY <1>1, <1>2 DEF Holds

(* An input of another contract makes no difference to a window.           *)
LEMMA HoldsOther ==
  ASSUME NEW log, NEW k, NEW I, NEW p, log[p].key # k, NEW w, Holds(w, log, k, I)
  PROVE  Holds(w, log, k, I \cup {p})
<1>1. Lasting(log, k, I \cup {p}) = Lasting(log, k, I)
  BY DEF Lasting
<1> QED
  BY <1>1 DEF Holds

(* The last valid quote of a window.                                       *)
LEMMA LastValidIs ==
  ASSUME NEW w \in Seq(Nat), NEW at, NEW n
  PROVE  n \in LastValid(w, at) <=>
             \E i \in DOMAIN w : /\ w[i] = n /\ At(n) <= at
                                 /\ \A j \in DOMAIN w : At(w[j]) <= at => j <= i
BY DEF LastValid
-----------------------------------------------------------------------------
(* The trail of the live run.                                              *)
InputOK(input) ==
    \/ \E n \in DOMAIN arrivals : input = QuoteInput(n)
    \/ \E t \in seen, k \in Key, at \in Time : input = TradeInput(t, k, at)

TrailTypes ==
    /\ ingress = [i \in 1 .. Len(ingress) |-> ingress[i]] /\ Len(ingress) \in Nat
    /\ \A i \in DOMAIN ingress : InputOK(ingress[i])

(* Quotes come in the order of their numbers, trades once.                 *)
QuotesRise ==
    \A i, j \in DOMAIN ingress :
        (i < j /\ ingress[i].type = "quote" /\ ingress[j].type = "quote")
        => ingress[i].n < ingress[j].n
TradesOnce ==
    \A i, j \in DOMAIN ingress :
        (/\ ingress[i].type = "trade" /\ ingress[j].type = "trade"
         /\ ingress[i].trade = ingress[j].trade)
        => i = j

(* What the trade at p found: the quote received last of those before p    *)
(* that are not later than the trade, and no input up to p makes it too    *)
(* old.                                                                    *)
Found(log, p, n) ==
    \E i \in Lasting(log, log[p].key, 1 .. p) :
        /\ i < p /\ log[i].quote = n /\ log[i].at <= log[p].at
        /\ \A j \in 1 .. p - 1 :
              (/\ log[j].quote # 0 /\ log[j].key = log[p].key
               /\ log[j].at <= log[p].at)
              => j <= i

FoundAt(row, p) ==
    /\ ingress[p].type = "trade" /\ ingress[p].trade = row.trade
    /\ Ordered(ingress[p].key) => Found(Log, p, row.quote)
LiveRows ==
    \A row \in consumptions : row.trade # NoTrade => \E p \in DOMAIN ingress : FoundAt(row, p)

LiveWindows ==
    \A k \in Key : Ordered(k) => Holds(windows[k], Log, k, DOMAIN ingress)

TrailInv ==
    BookInv /\ TrailTypes /\ QuotesRise /\ TradesOnce /\ LiveRows /\ LiveWindows

(* The log of a trail.                                                     *)
LogReads(i) ==
    \/ /\ ingress[i].type = "quote" /\ ingress[i].n \in DOMAIN arrivals
       /\ Log[i] = [quote |-> ingress[i].n, key |-> KeyOf(ingress[i].n),
                    at |-> At(ingress[i].n)]
       /\ Log[i].quote # 0
    \/ /\ ingress[i].type = "trade" /\ ingress[i].trade \in seen
       /\ ingress[i].key \in Key /\ ingress[i].at \in Time
       /\ Log[i] = [quote |-> 0, key |-> ingress[i].key, at |-> ingress[i].at]
TrailLogged ==
    /\ DOMAIN ingress = 1 .. Len(ingress) /\ Len(ingress) \in Nat
    /\ DOMAIN Log = DOMAIN ingress
    /\ LogOf(Log, arrivals)
    /\ \A k \in Key : Ordered(k) => InOrder(Log, k)
    /\ \A i \in DOMAIN ingress : LogReads(i)

LEMMA TrailLog == BookInv /\ TrailTypes /\ QuotesRise => TrailLogged
<1> SUFFICES ASSUME BookInv, TrailTypes, QuotesRise PROVE TrailLogged
  OBVIOUS
<1>1. DOMAIN ingress = 1 .. Len(ingress) /\ Len(ingress) \in Nat
  BY DEF TrailTypes
<1>2. DOMAIN Log = DOMAIN ingress
  BY DEF Log
<1>3. \A n \in DOMAIN arrivals : n \in Nat /\ n # 0 /\ At(n) \in Nat /\ KeyOf(n) \in Key
                                 /\ arrivals[n].at = At(n)
  <2>1. DOMAIN arrivals = 1 .. Len(arrivals) /\ Len(arrivals) \in Nat
    BY DEF BookInv, TypeOK
  <2> QED
    BY <2>1, BookNumbers DEF BookInv, At
<1>4. ASSUME NEW i \in DOMAIN ingress PROVE LogReads(i)
  <2> USE DEF LogReads
  <2>1. CASE \E n \in DOMAIN arrivals : ingress[i] = QuoteInput(n)
    <3>1. PICK n \in DOMAIN arrivals : ingress[i] = QuoteInput(n)
      BY <2>1
    <3>2. ingress[i].type = "quote" /\ ingress[i].n = n
      BY <3>1 DEF QuoteInput
    <3>3. Log[i] = [quote |-> n, key |-> KeyOf(n), at |-> At(n)]
      BY <3>2 DEF Log
    <3>4. Log[i].quote # 0
      BY <1>3, <3>3
    <3> QED
      BY <3>2, <3>3, <3>4
  <2>2. CASE \E t \in seen, k \in Key, at \in Time : ingress[i] = TradeInput(t, k, at)
    <3>1. /\ ingress[i].type = "trade" /\ ingress[i].trade \in seen
          /\ ingress[i].key \in Key /\ ingress[i].at \in Time
      BY <2>2 DEF TradeInput
    <3> QED
      BY <3>1 DEF Log
  <2> QED
    BY <2>1, <2>2 DEF TrailTypes, InputOK
<1>5. \A i \in DOMAIN ingress : Log[i].quote # 0 => ingress[i].type = "quote"
  <2> SUFFICES ASSUME NEW i \in DOMAIN ingress, ingress[i].type # "quote" PROVE Log[i].quote = 0
    OBVIOUS
  <2>1. Log[i] = [quote |-> 0, key |-> ingress[i].key, at |-> ingress[i].at]
    BY <1>4 DEF LogReads
  <2> QED
    BY <2>1
<1>6. ASSUME NEW i \in DOMAIN ingress, Log[i].quote # 0
      PROVE  /\ ingress[i].type = "quote" /\ ingress[i].n = Log[i].quote
             /\ Log[i].quote \in DOMAIN arrivals
             /\ Log[i].key = KeyOf(Log[i].quote) /\ Log[i].at = At(Log[i].quote)
  <2>1. Log[i] = [quote |-> ingress[i].n, key |-> KeyOf(ingress[i].n), at |-> At(ingress[i].n)]
    BY <1>5, <1>6 DEF Log
  <2>2. ingress[i].n = Log[i].quote
    BY <2>1
  <2>3. ingress[i].n \in DOMAIN arrivals
    BY <1>4, <1>5, <1>6 DEF LogReads
  <2> QED
    BY <1>5, <1>6, <2>1, <2>2, <2>3
<1>7. LogOf(Log, arrivals)
  <2>1. Log \in Seq(LogEntry)
    <3>1. \A i \in DOMAIN ingress : Log[i] \in LogEntry
      <4> SUFFICES ASSUME NEW i \in DOMAIN ingress PROVE Log[i] \in LogEntry
        OBVIOUS
      <4>1. CASE /\ ingress[i].n \in DOMAIN arrivals
                 /\ Log[i] = [quote |-> ingress[i].n, key |-> KeyOf(ingress[i].n),
                              at |-> At(ingress[i].n)]
        <5>1. /\ ingress[i].n \in Nat /\ KeyOf(ingress[i].n) \in Key
              /\ At(ingress[i].n) \in Nat
          BY <1>3, <4>1
        <5> QED
          BY <4>1, <5>1 DEF LogEntry
      <4>2. CASE /\ ingress[i].key \in Key /\ ingress[i].at \in Time
                 /\ Log[i] = [quote |-> 0, key |-> ingress[i].key, at |-> ingress[i].at]
        <5>1. ingress[i].at \in Nat
          BY <4>2, BookNumbers DEF BookInv
        <5> QED
          BY <4>2, <5>1 DEF LogEntry
      <4> QED
        BY <1>4, <4>1, <4>2 DEF LogReads
    <3>2. Log = [i \in 1 .. Len(ingress) |-> Log[i]]
      BY <1>1 DEF Log
    <3> QED
      BY <1>1, <3>1, <3>2
  <2>2. \A i, j \in DOMAIN Log :
            (i < j /\ Log[i].quote # 0 /\ Log[j].quote # 0) => Log[i].quote < Log[j].quote
    BY <1>2, <1>6 DEF QuotesRise
  <2>3. \A i \in DOMAIN Log : Log[i].quote # 0 => arrivals[Log[i].quote].at = Log[i].at
    BY <1>2, <1>3, <1>6
  <2> QED
    BY <2>1, <2>2, <2>3 DEF LogOf
<1>8. ASSUME NEW k \in Key, Ordered(k) PROVE InOrder(Log, k)
  <2> SUFFICES ASSUME NEW i \in DOMAIN Log, NEW j \in DOMAIN Log, i < j,
                      Log[i].quote # 0, Log[j].quote # 0, Log[i].key = k, Log[j].key = k
               PROVE  Log[i].at <= Log[j].at
    BY DEF InOrder
  <2>1. Log[i].quote < Log[j].quote
    BY <1>7 DEF LogOf
  <2> QED
    BY <1>2, <1>6, <1>8, <2>1 DEF Ordered
<1> QED
  BY <1>1, <1>2, <1>4, <1>7, <1>8 DEF TrailLogged

(* An input appended to the trail.                                         *)
LEMMA AppendedTrail ==
  ASSUME TrailTypes, NEW input
  PROVE  LET trail == Append(ingress, input) IN
         /\ DOMAIN trail = 1 .. Len(ingress) + 1 /\ Len(trail) = Len(ingress) + 1
         /\ DOMAIN trail = DOMAIN ingress \cup {Len(ingress) + 1}
         /\ \A i \in DOMAIN ingress : trail[i] = ingress[i] /\ i < Len(ingress) + 1
         /\ trail[Len(ingress) + 1] = input
         /\ trail = [i \in 1 .. Len(ingress) + 1 |-> trail[i]]
         /\ Len(ingress) + 1 \in Nat
<1>1. DOMAIN ingress = 1 .. Len(ingress) /\ Len(ingress) \in Nat
  BY DEF TrailTypes
<1>2. ingress = [i \in 1 .. Len(ingress) |-> ingress[i]]
  BY DEF TrailTypes
<1> DEFINE S == {ingress[i] : i \in 1 .. Len(ingress)} \cup {input}
           trail == Append(ingress, input)
<1>3. ingress \in Seq(S) /\ input \in S
  BY <1>1, <1>2
<1>4. trail \in Seq(S) /\ Len(trail) = Len(ingress) + 1
  BY <1>3
<1>5. trail[Len(ingress) + 1] = input /\ \A i \in DOMAIN ingress : trail[i] = ingress[i]
  BY <1>1, <1>3
<1> HIDE DEF trail
<1>6. trail = [i \in 1 .. Len(ingress) + 1 |-> trail[i]] /\ DOMAIN trail = 1 .. Len(ingress) + 1
  BY <1>4
<1> QED
  BY <1>1, <1>4, <1>5, <1>6 DEF trail

(* An input appended to the trail leaves the log of the earlier ones.      *)
LEMMA TrailGrows ==
  ASSUME BookInv, TrailTypes, QuotesRise, BookInv', TrailTypes', QuotesRise',
         NEW input, ingress' = Append(ingress, input),
         \A n \in DOMAIN arrivals : n \in DOMAIN arrivals' /\ arrivals'[n] = arrivals[n]
  PROVE  /\ Len(ingress') = Len(ingress) + 1
         /\ DOMAIN ingress' = DOMAIN ingress \cup {Len(ingress) + 1}
         /\ \A i \in DOMAIN ingress : ingress'[i] = ingress[i] /\ Log'[i] = Log[i]
                                      /\ i \in Nat /\ i < Len(ingress) + 1
         /\ ingress'[Len(ingress) + 1] = input
         /\ \A k \in Key : Ordered(k)' => Ordered(k)
<1>1. DOMAIN ingress = 1 .. Len(ingress) /\ Len(ingress) \in Nat
  BY DEF TrailTypes
<1>2. /\ DOMAIN ingress' = 1 .. Len(ingress) + 1 /\ Len(ingress') = Len(ingress) + 1
      /\ \A i \in DOMAIN ingress : ingress'[i] = ingress[i]
      /\ ingress'[Len(ingress) + 1] = input
  BY AppendedTrail
<1>3. DOMAIN ingress' = DOMAIN ingress \cup {Len(ingress) + 1}
  BY <1>1, <1>2
<1>4. ASSUME NEW i \in DOMAIN ingress PROVE Log'[i] = Log[i]
  <2>1. i \in DOMAIN ingress' /\ ingress'[i] = ingress[i]
    BY <1>2, <1>3
  <2>2. CASE ingress[i].type = "quote" /\ ingress[i].n \in DOMAIN arrivals
    <3>1. At(ingress[i].n)' = At(ingress[i].n) /\ KeyOf(ingress[i].n)' = KeyOf(ingress[i].n)
      BY <2>1, <2>2 DEF At, KeyOf
    <3>2. Log[i] = [quote |-> ingress[i].n, key |-> KeyOf(ingress[i].n), at |-> At(ingress[i].n)]
      BY <2>2 DEF Log
    <3>3. Log'[i] = [quote |-> ingress'[i].n, key |-> KeyOf(ingress[i].n)', at |-> At(ingress[i].n)']
      BY <2>1, <2>2 DEF Log
    <3> QED
      BY <2>1, <3>1, <3>2, <3>3
  <2>3. CASE ingress[i].type = "trade"
    <3>1. Log[i] = [quote |-> 0, key |-> ingress[i].key, at |-> ingress[i].at]
      BY <2>3 DEF Log
    <3>2. Log'[i] = [quote |-> 0, key |-> ingress'[i].key, at |-> ingress'[i].at]
      BY <2>1, <2>3 DEF Log
    <3> QED
      BY <2>1, <3>1, <3>2
  <2> QED
    BY <2>2, <2>3, TrailLog DEF TrailLogged, LogReads
<1>5. ASSUME NEW k \in Key, Ordered(k)' PROVE Ordered(k)
  BY <1>5 DEF Ordered, At, KeyOf
<1>6. \A i \in DOMAIN ingress : i \in Nat /\ i < Len(ingress) + 1
  BY <1>1
<1> QED
  BY <1>2, <1>3, <1>4, <1>5, <1>6

(* What an earlier trade found does not depend on what came later.         *)
LEMMA FoundKept ==
  ASSUME NEW log, NEW other, NEW p \in Nat, \A i \in 1 .. p : other[i] = log[i],
         p >= 1, NEW n, Found(log, p, n)
  PROVE  Found(other, p, n)
<1>1. p \in 1 .. p /\ other[p] = log[p] /\ \A j \in 1 .. p - 1 : j \in 1 .. p
  OBVIOUS
<1>2. Lasting(other, log[p].key, 1 .. p) = Lasting(log, log[p].key, 1 .. p)
  BY DEF Lasting
<1>3. Lasting(log, log[p].key, 1 .. p) \subseteq 1 .. p
  BY DEF Lasting
<1> DEFINE L == Lasting(log, log[p].key, 1 .. p)
<1>4. PICK i \in L : /\ i < p /\ log[i].quote = n /\ log[i].at <= log[p].at
                     /\ \A j \in 1 .. p - 1 :
                           (/\ log[j].quote # 0 /\ log[j].key = log[p].key
                            /\ log[j].at <= log[p].at)
                           => j <= i
  BY DEF Found
<1>5. other[i] = log[i]
  BY <1>3, <1>4
<1> HIDE DEF L
<1>6. \A j \in 1 .. p - 1 : (/\ other[j].quote # 0 /\ other[j].key = log[p].key
                             /\ other[j].at <= log[p].at)
                            => j <= i
  BY <1>1, <1>4
<1>7. i \in Lasting(other, other[p].key, 1 .. p)
  BY <1>1, <1>2, <1>4 DEF L
<1> QED
  BY <1>1, <1>4, <1>5, <1>6, <1>7 DEF Found

(* Rows of earlier trades are as they were.                                *)
LEMMA RowKept ==
  ASSUME TrailInv, BookInv', TrailTypes', QuotesRise',
         NEW input, ingress' = Append(ingress, input),
         \A n \in DOMAIN arrivals : n \in DOMAIN arrivals' /\ arrivals'[n] = arrivals[n],
         NEW row \in consumptions, row.trade # NoTrade
  PROVE  \E p \in DOMAIN ingress' : FoundAt(row, p)'
<1>1. PICK p \in DOMAIN ingress : FoundAt(row, p)
  BY DEF TrailInv, LiveRows
<1>2. /\ DOMAIN ingress' = DOMAIN ingress \cup {Len(ingress) + 1}
      /\ \A i \in DOMAIN ingress : ingress'[i] = ingress[i] /\ Log'[i] = Log[i]
      /\ \A k \in Key : Ordered(k)' => Ordered(k)
  BY TrailGrows DEF TrailInv
<1>3. DOMAIN ingress = 1 .. Len(ingress) /\ Len(ingress) \in Nat /\ ingress[p].key \in Key
  BY <1>1, TrailLog DEF TrailInv, TrailLogged, LogReads, FoundAt
<1>4. ASSUME Found(Log, p, row.quote) PROVE Found(Log', p, row.quote)
  <2>1. p \in Nat /\ p >= 1 /\ \A i \in 1 .. p : i \in DOMAIN ingress
    BY <1>3
  <2>2. \A i \in 1 .. p : Log'[i] = Log[i]
    BY <1>2, <2>1
  <2> QED
    BY <1>4, <2>1, <2>2, FoundKept
<1>5. Ordered(ingress[p].key)' => Ordered(ingress[p].key)
  <2>1. ingress'[p] = ingress[p]
    BY <1>2
  <2>2. ingress[p].key \in Key /\ Ordered(ingress[p].key)' => Ordered(ingress[p].key)
    <3> SUFFICES ASSUME ingress[p].key \in Key, Ordered(ingress[p].key)' PROVE Ordered(ingress[p].key)
      OBVIOUS
    <3> QED
      BY <2>1 DEF Ordered, At, KeyOf
  <2> QED
    BY <1>3, <2>2
<1>6. FoundAt(row, p)'
  BY <1>1, <1>2, <1>4, <1>5 DEF FoundAt
<1> QED
  BY <1>2, <1>6

(* The live run begins with an empty trail.                                *)
LEMMA TrailInit == Init /\ ingress = <<>> => TrailInv
<1> SUFFICES ASSUME Init, ingress = <<>> PROVE TrailInv
  OBVIOUS
<1>1. BookInv
  BY BookInit
<1>2. DOMAIN ingress = {} /\ Len(ingress) = 0 /\ ingress = [i \in 1 .. 0 |-> ingress[i]]
  OBVIOUS
<1>3. consumptions = {} /\ windows = [k \in Key |-> <<>>]
  BY DEF Init
<1>4. ASSUME NEW k \in Key PROVE Holds(windows[k], Log, k, DOMAIN ingress)
  <2>1. Lasting(Log, k, DOMAIN ingress) = {}
    BY <1>2 DEF Lasting
  <2>2. windows[k] = <<>> /\ <<>> \in Seq(Nat) /\ DOMAIN <<>> = {}
    BY <1>3
  <2> QED
    BY <2>1, <2>2 DEF Holds
<1> QED
  BY <1>1, <1>2, <1>3, <1>4
     DEF TrailInv, TrailTypes, QuotesRise, TradesOnce, LiveRows, LiveWindows

(* A window that holds the inputs before the next, and that one too.       *)
LEMMA WindowsNext ==
  ASSUME BookInv, TrailTypes, QuotesRise, LiveWindows, BookInv', TrailTypes', QuotesRise',
         NEW input, ingress' = Append(ingress, input),
         \A n \in DOMAIN arrivals : n \in DOMAIN arrivals' /\ arrivals'[n] = arrivals[n],
         NEW k \in Key, Log'[Len(ingress) + 1].key = k,
         NEW grown,
         grown = IF Log'[Len(ingress) + 1].quote = 0 THEN windows[k]
                 ELSE Append(windows[k], Log'[Len(ingress) + 1].quote),
         windows' = [windows EXCEPT ![k] =
                        Expired(grown, arrivals', Log'[Len(ingress) + 1].at)]
  PROVE  LiveWindows'
<1> DEFINE p == Len(ingress) + 1
<1>1. /\ DOMAIN ingress' = DOMAIN ingress \cup {p}
      /\ \A i \in DOMAIN ingress : Log'[i] = Log[i] /\ i < p
      /\ \A q \in Key : Ordered(q)' => Ordered(q)
  BY TrailGrows
<1>2. /\ LogOf(Log', arrivals') /\ DOMAIN Log' = DOMAIN ingress'
      /\ \A q \in Key : Ordered(q)' => InOrder(Log', q)
  <2>1. (BookInv /\ TrailTypes /\ QuotesRise)' => TrailLogged'
    BY TrailLog, PTL
  <2> QED
    BY <2>1 DEF TrailLogged
<1>3. DOMAIN windows = Key /\ Window \in Nat
  BY BookNumbers DEF BookInv, TypeOK
<1> SUFFICES ASSUME NEW q \in Key, Ordered(q)'
             PROVE  Holds(windows'[q], Log', q, DOMAIN ingress')
  BY DEF LiveWindows
<1>4. Holds(windows[q], Log', q, DOMAIN ingress)
  <2>1. Holds(windows[q], Log, q, DOMAIN ingress)
    BY <1>1 DEF LiveWindows
  <2> QED
    BY <1>1, <2>1, HoldsLogged
<1>5. CASE q = k
  <2>1. windows'[q] = Expired(grown, arrivals', Log'[p].at)
    BY <1>3, <1>5
  <2>2. p \in DOMAIN Log' /\ DOMAIN ingress \in SUBSET DOMAIN Log' /\ InOrder(Log', k)
    BY <1>1, <1>2, <1>5
  <2>3. Holds(windows[k], Log', k, DOMAIN ingress)
    BY <1>4, <1>5
  <2> HIDE DEF p
  <2>4. grown = IF Log'[p].quote = 0 THEN windows[k] ELSE Append(windows[k], Log'[p].quote)
    BY DEF p
  <2>5. Log'[p].key = k
    BY DEF p
  <2>6. Holds(Expired(grown, arrivals', Log'[p].at), Log', k, DOMAIN ingress \cup {p})
    BY <1>1, <1>2, <1>3, <2>2, <2>3, <2>4, <2>5, HoldsNext
  <2> QED
    BY <1>1, <1>5, <2>1, <2>6
<1>6. CASE q # k
  <2>1. windows'[q] = windows[q]
    BY <1>3, <1>6
  <2>2. Holds(windows[q], Log', q, DOMAIN ingress \cup {p})
    BY <1>4, <1>6, HoldsOther
  <2> QED
    BY <1>1, <2>1, <2>2
<1> QED
  BY <1>5, <1>6

(* The trail goes on when a quote is received.                             *)
LEMMA TrailReceive ==
  ASSUME TrailInv, BookInv', NEW k \in Key, NEW at \in Time, Receive(k, at),
         ingress' = Append(ingress, QuoteInput(Len(arrivals')))
  PROVE  TrailInv'
<1> DEFINE n == Len(arrivals) + 1
           p == Len(ingress) + 1
           input == QuoteInput(n)
<1>1. /\ TypeOK /\ BookInv /\ TrailTypes /\ QuotesRise /\ TradesOnce /\ LiveRows /\ LiveWindows
      /\ Window \in Nat
  BY BookNumbers DEF TrailInv, BookInv
<1>2. /\ arrivals' = Append(arrivals, [key |-> k, at |-> at]) /\ seen' = seen
      /\ consumptions' = consumptions
      /\ windows' = [windows EXCEPT ![k] = Expired(Append(@, n), arrivals', at)]
  BY DEF Receive
<1>3. /\ DOMAIN arrivals = 1 .. Len(arrivals) /\ Len(arrivals) \in Nat
      /\ DOMAIN arrivals' = 1 .. n /\ Len(arrivals') = n /\ n # 0
      /\ \A i \in DOMAIN arrivals : i \in DOMAIN arrivals' /\ arrivals'[i] = arrivals[i] /\ i < n
      /\ arrivals'[n].key = k /\ arrivals'[n].at = at
  BY <1>1, <1>2 DEF TypeOK
<1>4. /\ ingress' = Append(ingress, input)
      /\ input.type = "quote" /\ input.n = n
  BY <1>3 DEF QuoteInput
<1>5. DOMAIN ingress = 1 .. Len(ingress) /\ Len(ingress) \in Nat
  BY <1>1 DEF TrailTypes
<1>6. /\ DOMAIN ingress' = 1 .. p /\ Len(ingress') = p /\ p \in Nat
      /\ DOMAIN ingress' = DOMAIN ingress \cup {p}
      /\ \A i \in DOMAIN ingress : ingress'[i] = ingress[i] /\ i < p
      /\ ingress'[p] = input
      /\ ingress' = [i \in 1 .. p |-> ingress'[i]]
  BY <1>1, <1>4, AppendedTrail DEF TrailTypes
<1>7. TrailTypes'
  <2>1. ASSUME NEW i \in DOMAIN ingress' PROVE InputOK(ingress[i])'
    <3>1. CASE i = p
      BY <1>3, <1>6, <3>1, SMTT(30) DEF InputOK, QuoteInput
    <3>2. CASE i \in DOMAIN ingress
      <4>1. InputOK(ingress[i])
        BY <1>1, <3>2 DEF TrailTypes
      <4> QED
        BY <1>2, <1>3, <1>6, <3>2, <4>1 DEF InputOK, QuoteInput, TradeInput
    <3> QED
      BY <1>6, <3>1, <3>2
  <2> QED
    BY <1>6, <2>1 DEF TrailTypes
<1>8. QuotesRise'
  <2> SUFFICES ASSUME NEW i \in DOMAIN ingress', NEW j \in DOMAIN ingress', i < j,
                      ingress'[i].type = "quote", ingress'[j].type = "quote"
               PROVE  ingress'[i].n < ingress'[j].n
    BY DEF QuotesRise
  <2>1. i \in DOMAIN ingress /\ ingress'[i] = ingress[i]
    BY <1>5, <1>6
  <2>2. CASE j = p
    <3>1. ingress[i].n \in DOMAIN arrivals
      BY <1>1, <2>1, TrailLog DEF TrailLogged, LogReads
    <3> QED
      BY <1>3, <1>4, <1>6, <2>1, <2>2, <3>1
  <2>3. CASE j \in DOMAIN ingress
    BY <1>1, <1>6, <2>1, <2>3 DEF QuotesRise
  <2> QED
    BY <1>6, <2>2, <2>3
<1>9. TradesOnce'
  <2> SUFFICES ASSUME NEW i \in DOMAIN ingress', NEW j \in DOMAIN ingress',
                      ingress'[i].type = "trade", ingress'[j].type = "trade",
                      ingress'[i].trade = ingress'[j].trade
               PROVE  i = j
    BY DEF TradesOnce
  <2>1. i \in DOMAIN ingress /\ j \in DOMAIN ingress
    BY <1>4, <1>6
  <2> QED
    BY <1>1, <1>6, <2>1 DEF TradesOnce
<1>10. \A i \in DOMAIN arrivals : i \in DOMAIN arrivals' /\ arrivals'[i] = arrivals[i]
  BY <1>3
<1>11. LiveRows'
  <2> SUFFICES ASSUME NEW row \in consumptions, row.trade # NoTrade
               PROVE  \E q \in DOMAIN ingress' : FoundAt(row, q)'
    BY <1>2 DEF LiveRows
  <2> QED
    BY <1>4, <1>7, <1>8, <1>10, RowKept
<1>12. Log'[p] = [quote |-> n, key |-> k, at |-> at]
  <2>1. ingress'[p].type = "quote" /\ ingress'[p].n = n /\ p \in DOMAIN ingress'
    BY <1>4, <1>6
  <2>2. Log'[p] = [quote |-> ingress'[p].n, key |-> arrivals'[ingress'[p].n].key,
                   at |-> arrivals'[ingress'[p].n].at]
    BY <2>1 DEF Log, KeyOf, At
  <2> QED
    BY <1>3, <2>1, <2>2
<1>13. LiveWindows'
  <2> DEFINE grown == Append(windows[k], n)
  <2>1. Log'[p].quote = n /\ Log'[p].key = k /\ Log'[p].at = at /\ n # 0
    BY <1>3, <1>12
  <2>2. grown = IF Log'[p].quote = 0 THEN windows[k] ELSE Append(windows[k], Log'[p].quote)
    BY <2>1
  <2>3. windows' = [windows EXCEPT ![k] = Expired(grown, arrivals', Log'[p].at)]
    BY <1>2, <2>1
  <2> HIDE DEF grown, n, input
  <2> QED
    BY <1>1, <1>4, <1>7, <1>8, <1>10, <2>1, <2>2, <2>3, WindowsNext
<1> QED
  BY <1>7, <1>8, <1>9, <1>11, <1>13 DEF TrailInv

(* The last valid quote of the window at a trade is what the trade found:  *)
(* a quote received after it and not later than the trade would last too.  *)
LEMMA LastValidFound ==
  ASSUME NEW log, LogOf(log, arrivals), Window \in Nat,
         NEW k, InOrder(log, k), NEW p \in DOMAIN log, log[p].quote = 0, log[p].key = k,
         NEW w, Holds(w, log, k, 1 .. p), NEW n \in LastValid(w, log[p].at)
  PROVE  Found(log, p, n)
<1> DEFINE L == Lasting(log, k, 1 .. p)
<1>1. /\ DOMAIN log = 1 .. Len(log) /\ Len(log) \in Nat
      /\ \A i \in DOMAIN log : i \in Nat /\ log[i].quote \in Nat /\ log[i].at \in Nat
  BY LogNumbers DEF LogOf
<1>2. /\ \A i, j \in DOMAIN log :
            (i < j /\ log[i].quote # 0 /\ log[j].quote # 0) => log[i].quote < log[j].quote
      /\ \A i \in DOMAIN log : log[i].quote # 0 => At(log[i].quote) = log[i].at
  BY DEF LogOf, At
<1>3. /\ w \in Seq(Nat)
      /\ \A i, j \in DOMAIN w : i < j => w[i] < w[j]
      /\ {w[i] : i \in DOMAIN w} = {log[i].quote : i \in L}
  BY DEF Holds
<1>4. PICK x \in DOMAIN w : /\ w[x] = n /\ At(n) <= log[p].at
                            /\ \A y \in DOMAIN w : At(w[y]) <= log[p].at => y <= x
  BY <1>3, LastValidIs
<1>5. PICK i \in L : log[i].quote = n
  BY <1>3, <1>4
<1>6. L \subseteq 1 .. p /\ 1 .. p \subseteq DOMAIN log
  BY <1>1 DEF Lasting
<1>7. /\ i \in DOMAIN log /\ i \in Nat /\ p \in Nat /\ i <= p
      /\ log[i].quote # 0 /\ log[i].key = k
      /\ \A j \in 1 .. p : (i < j /\ log[j].key = k) => log[i].at >= log[j].at - Window
  <2>1. i \in 1 .. p
    BY <1>6
  <2> QED
    BY <1>1, <1>6, <2>1 DEF Lasting
<1>8. i < p
  BY <1>7
<1>9. log[i].at <= log[p].at
  BY <1>2, <1>4, <1>5, <1>7
<1>10. ASSUME NEW j \in 1 .. p - 1, log[j].quote # 0, log[j].key = k, log[j].at <= log[p].at
       PROVE  j <= i
  <2> SUFFICES ASSUME i < j PROVE FALSE
    BY <1>7
  <2>1. j \in 1 .. p /\ j \in DOMAIN log
    BY <1>6, <1>7
  <2>2. log[i].at <= log[j].at
    BY <1>7, <1>10, <2>1 DEF InOrder
  <2>3. ASSUME NEW l \in 1 .. p, j < l, log[l].key = k PROVE log[j].at >= log[l].at - Window
    <3>1. l \in DOMAIN log /\ i < l
      BY <1>1, <1>6, <1>7, <2>1, <2>3
    <3>2. log[i].at >= log[l].at - Window
      BY <1>7, <2>3, <3>1
    <3>3. log[i].at \in Nat /\ log[j].at \in Nat /\ log[l].at \in Nat
      BY <1>1, <1>7, <2>1, <3>1
    <3> QED
      BY <2>2, <3>2, <3>3
  <2>4. j \in L
    BY <1>10, <2>1, <2>3 DEF Lasting
  <2>5. PICK y \in DOMAIN w : w[y] = log[j].quote
    BY <1>3, <2>4
  <2>6. y <= x
    <3>1. At(w[y]) <= log[p].at
      BY <1>2, <1>10, <2>1, <2>5
    <3> QED
      BY <1>4, <3>1
  <2>7. w[y] <= w[x] /\ w[x] \in Nat /\ w[y] \in Nat /\ log[i].quote < log[j].quote
    <3>1. x \in Nat /\ y \in Nat /\ w[x] \in Nat /\ w[y] \in Nat
      BY <1>3
    <3>2. y = x \/ y < x
      BY <2>6, <3>1
    <3> QED
      BY <1>2, <1>3, <1>7, <1>10, <2>1, <3>1, <3>2
  <2> QED
    BY <1>4, <1>5, <2>5, <2>7
<1> QED
  BY <1>5, <1>8, <1>9, <1>10 DEF Found

(* The trail goes on when a trade is handed over.                          *)
LEMMA TrailTrade ==
  ASSUME TrailInv, BookInv', NEW t \in Trade, NEW k \in Key, NEW at \in Time,
         ConsumeForTrade(t, k, at),
         ingress' = Append(ingress, TradeInput(t, k, at))
  PROVE  TrailInv'
<1> DEFINE p == Len(ingress) + 1
           input == TradeInput(t, k, at)
<1>1. /\ TypeOK /\ BookInv /\ TrailTypes /\ QuotesRise /\ TradesOnce /\ LiveRows /\ LiveWindows
      /\ Window \in Nat
  BY BookNumbers DEF TrailInv, BookInv
<1>2. /\ arrivals' = arrivals /\ t \notin seen /\ seen' = seen \cup {t}
      /\ consumptions' = consumptions \cup
            {[order |-> NextOrder, quote |-> n, trade |-> t] : n \in NewestValid(k, at)}
      /\ windows' = [windows EXCEPT ![k] = Expired(@, arrivals, at)]
      /\ \A n \in DOMAIN arrivals : n \in DOMAIN arrivals' /\ arrivals'[n] = arrivals[n]
  BY DEF ConsumeForTrade
<1>3. input.type = "trade" /\ input.trade = t /\ input.key = k /\ input.at = at
  BY DEF TradeInput
<1>4. /\ DOMAIN ingress' = 1 .. p /\ Len(ingress') = p /\ p \in Nat
      /\ DOMAIN ingress' = DOMAIN ingress \cup {p}
      /\ \A i \in DOMAIN ingress : ingress'[i] = ingress[i] /\ i < p
      /\ ingress'[p] = input
      /\ ingress' = [i \in 1 .. p |-> ingress'[i]]
      /\ DOMAIN ingress = 1 .. Len(ingress) /\ Len(ingress) \in Nat
  BY <1>1, AppendedTrail DEF TrailTypes
<1>5. TrailTypes'
  <2>1. ASSUME NEW i \in DOMAIN ingress' PROVE InputOK(ingress[i])'
    <3>1. CASE i = p
      <4>1. ingress'[i] = TradeInput(t, k, at) /\ t \in seen'
        BY <1>2, <1>4, <3>1
      <4> QED
        BY <4>1 DEF InputOK, TradeInput
    <3>2. CASE i \in DOMAIN ingress
      <4>1. InputOK(ingress[i])
        BY <1>1, <3>2 DEF TrailTypes
      <4> QED
        BY <1>2, <1>4, <3>2, <4>1 DEF InputOK, QuoteInput, TradeInput
    <3> QED
      BY <1>4, <3>1, <3>2
  <2> QED
    BY <1>4, <2>1 DEF TrailTypes
<1>6. QuotesRise'
  <2> SUFFICES ASSUME NEW i \in DOMAIN ingress', NEW j \in DOMAIN ingress', i < j,
                      ingress'[i].type = "quote", ingress'[j].type = "quote"
               PROVE  ingress'[i].n < ingress'[j].n
    BY DEF QuotesRise
  <2>1. i \in DOMAIN ingress /\ j \in DOMAIN ingress
    BY <1>3, <1>4
  <2> QED
    BY <1>1, <1>4, <2>1 DEF QuotesRise
<1>7. TradesOnce'
  <2> SUFFICES ASSUME NEW i \in DOMAIN ingress', NEW j \in DOMAIN ingress',
                      ingress'[i].type = "trade", ingress'[j].type = "trade",
                      ingress'[i].trade = ingress'[j].trade
               PROVE  i = j
    BY DEF TradesOnce
  <2>1. \A l \in DOMAIN ingress : ingress[l].type = "trade" => ingress[l].trade # t
    BY <1>1, <1>2, TrailLog DEF TrailLogged, LogReads
  <2>2. i = p \/ i \in DOMAIN ingress
    BY <1>4
  <2>3. j = p \/ j \in DOMAIN ingress
    BY <1>4
  <2>4. \A l \in DOMAIN ingress : ingress'[l].type = "trade" => ingress'[l].trade # t
    BY <1>4, <2>1
  <2>5. ingress'[p].trade = t
    BY <1>3, <1>4
  <2>6. CASE i \in DOMAIN ingress /\ j \in DOMAIN ingress
    BY <1>1, <1>4, <2>6 DEF TradesOnce
  <2> QED
    BY <2>2, <2>3, <2>4, <2>5, <2>6
<1>8. /\ Log'[p] = [quote |-> 0, key |-> k, at |-> at]
      /\ Log'[p].quote = 0 /\ Log'[p].key = k /\ Log'[p].at = at
  <2>1. p \in DOMAIN ingress' /\ ingress'[p].type = "trade" /\ ingress'[p].key = k
        /\ ingress'[p].at = at
    BY <1>3, <1>4
  <2>2. Log'[p] = [quote |-> 0, key |-> ingress'[p].key, at |-> ingress'[p].at]
    BY <2>1 DEF Log
  <2> QED
    BY <2>1, <2>2
<1>9. LiveWindows'
  <2>1. windows' = [windows EXCEPT ![k] = Expired(windows[k], arrivals', Log'[p].at)]
    BY <1>2, <1>8
  <2> HIDE DEF input
  <2> QED
    BY <1>1, <1>2, <1>5, <1>6, <1>8, <2>1, WindowsNext
<1>10. ASSUME NEW n \in NewestValid(k, at), Ordered(k)' PROVE Found(Log', p, n)
  <2>1. LogOf(Log', arrivals') /\ DOMAIN Log' = DOMAIN ingress' /\ InOrder(Log', k)
    <3>1. (BookInv /\ TrailTypes /\ QuotesRise)' => TrailLogged'
      BY TrailLog, PTL
    <3> QED
      BY <1>5, <1>6, <1>10, <3>1 DEF TrailLogged
  <2>2. Holds(windows'[k], Log', k, 1 .. p)
    BY <1>4, <1>9, <1>10 DEF LiveWindows
  <2>3. windows'[k] = Expired(windows[k], arrivals, at)
    BY <1>1, <1>2 DEF TypeOK
  <2>4. n \in LastValid(windows'[k], at)
    BY <2>3 DEF NewestValid
  <2>5. LogOf(Log', arrivals) /\ p \in DOMAIN Log' /\ n \in LastValid(windows'[k], Log'[p].at)
    BY <1>2, <1>4, <1>8, <2>1, <2>4
  <2> HIDE DEF p
  <2> QED
    BY <1>1, <1>8, <2>1, <2>2, <2>5, LastValidFound DEF p
<1>11. LiveRows'
  <2> SUFFICES ASSUME NEW row \in consumptions', row.trade # NoTrade
               PROVE  \E q \in DOMAIN ingress' : FoundAt(row, q)'
    BY DEF LiveRows
  <2>1. CASE row \in consumptions
    <3> HIDE DEF input
    <3> QED
      BY <1>2, <1>5, <1>6, <2>1, RowKept
  <2>2. CASE row \notin consumptions
    <3>1. PICK n \in NewestValid(k, at) : row = [order |-> NextOrder, quote |-> n, trade |-> t]
      BY <1>2, <2>2
    <3>2. row.quote = n /\ row.trade = t
      BY <3>1
    <3>3. PICK q \in DOMAIN ingress' : q = p
      BY <1>4
    <3>4. ingress'[q].type = "trade" /\ ingress'[q].trade = t /\ ingress'[q].key = k
      BY <1>3, <1>4, <3>3
    <3>5. Ordered(k)' => Found(Log', q, n)
      BY <1>10, <3>3
    <3>6. Ordered(ingress[q].key)' => Ordered(k)'
      BY <3>4 DEF Ordered, KeyOf, At
    <3>7. FoundAt(row, q)'
      BY <3>2, <3>4, <3>5, <3>6 DEF FoundAt
    <3> QED
      BY <3>7
  <2> QED
    BY <2>1, <2>2
<1> QED
  BY <1>5, <1>6, <1>7, <1>9, <1>11 DEF TrailInv

(* It is left as it was when the current state is consumed, which makes    *)
(* rows of no trade, and when nothing of it changes.                       *)
LEMMA TrailState ==
  ASSUME TrailInv, BookInv', UNCHANGED <<arrivals, windows, seen, ingress>>,
         consumptions \subseteq consumptions',
         \A row \in consumptions' \ consumptions : row.trade = NoTrade
  PROVE  TrailInv'
<1>1. /\ arrivals' = arrivals /\ windows' = windows /\ seen' = seen /\ ingress' = ingress
  OBVIOUS
<1>2. TrailTypes'
  BY <1>1 DEF TrailInv, TrailTypes, InputOK
<1>3. QuotesRise' /\ TradesOnce'
  BY <1>1 DEF TrailInv, QuotesRise, TradesOnce
<1>4. Log' = Log
  BY <1>1 DEF Log, KeyOf, At
<1>5. \A k \in Key : Ordered(k)' = Ordered(k)
  BY <1>1 DEF Ordered, KeyOf, At
<1>6. LiveWindows'
  <2> SUFFICES ASSUME NEW k \in Key, Ordered(k)' PROVE Holds(windows[k], Log, k, DOMAIN ingress)
    BY <1>1, <1>4 DEF LiveWindows
  <2> QED
    BY <1>5 DEF TrailInv, LiveWindows
<1>7. LiveRows'
  <2> SUFFICES ASSUME NEW row \in consumptions', row.trade # NoTrade
               PROVE  \E q \in DOMAIN ingress : FoundAt(row, q)'
    BY <1>1 DEF LiveRows
  <2>1. row \in consumptions
    OBVIOUS
  <2>2. PICK q \in DOMAIN ingress : FoundAt(row, q)
    BY <2>1 DEF TrailInv, LiveRows
  <2>3. FoundAt(row, q)'
    BY <1>1, <1>4, <2>2 DEF FoundAt, Ordered, KeyOf, At
  <2> QED
    BY <2>3
<1> QED
  BY <1>2, <1>3, <1>6, <1>7 DEF TrailInv

(* Every step of the live run keeps the trail, whether it is traced or     *)
(* stands still.                                                           *)
LEMMA TrailLive == TrailInv /\ Live => TrailInv'
<1> SUFFICES ASSUME TrailInv, Live PROVE TrailInv'
  OBVIOUS
<1>1. BookInv'
  BY BookStep DEF TrailInv, Live, Next
<1>2. CASE \E k \in Key, at \in Time :
             Receive(k, at) /\ ingress' = Append(ingress, QuoteInput(Len(arrivals')))
  BY <1>1, <1>2, TrailReceive
<1>3. CASE \E t \in Trade, k \in Key, at \in Time :
             ConsumeForTrade(t, k, at) /\ ingress' = Append(ingress, TradeInput(t, k, at))
  BY <1>1, <1>3, TrailTrade
<1>4. CASE ConsumeCurrentState /\ UNCHANGED ingress
  <2>1. /\ UNCHANGED <<arrivals, windows, seen, ingress>>
        /\ consumptions \subseteq consumptions'
        /\ \A row \in consumptions' \ consumptions : row.trade = NoTrade
    BY <1>4 DEF ConsumeCurrentState
  <2> QED
    BY <1>1, <2>1, TrailState
<1> QED
  BY <1>2, <1>3, <1>4 DEF Live

LEMMA TrailStands ==
  ASSUME TrailInv, UNCHANGED <<vars, ingress>>
  PROVE  TrailInv'
<1>1. UNCHANGED vars /\ UNCHANGED <<arrivals, windows, seen, ingress, consumptions>>
  BY DEF vars
<1>2. BookInv'
  BY <1>1, BookStep DEF TrailInv
<1> QED
  BY <1>1, <1>2, TrailState

-----------------------------------------------------------------------------
(* The replay of the trail.                                                *)
RecordedInputs == {i \in DOMAIN ingress : Recorded(ingress[i])}
Replayed == RecordedInputs \ inputs

NotYetReplaying ==
    ~replaying =>
        inputs = {} /\ replay_windows = [k \in Key |-> <<>>] /\ replay_found = {}

(* Inputs are replayed in their order.                                     *)
ReplayProgress ==
    replaying =>
        /\ inputs \subseteq RecordedInputs
        /\ \A i \in Replayed, j \in inputs : i < j

ReplayWindows ==
    /\ DOMAIN replay_windows = Key
    /\ replaying =>
          \A k \in Key : Ordered(k) => Holds(replay_windows[k], Log, k, Replayed)

(* What was found was found by a trade replayed, and by each of them what  *)
(* it had found live.                                                      *)
OfReplayed == \A found \in replay_found :
    \E p \in Replayed : ingress[p].type = "trade" /\ ingress[p].trade = found.trade
Comparable == ~SharedIds /\ \A k \in Key : Ordered(k)
FoundAsLive ==
    \A live \in LiveFound, p \in Replayed :
        (ingress[p].type = "trade" /\ ingress[p].trade = live.trade)
        => {found \in replay_found : found.trade = live.trade} = {live}
ReplayFound == replaying => OfReplayed /\ (Comparable => FoundAsLive)

ReplayInv ==
    /\ TrailInv
    /\ NotYetReplaying /\ ReplayProgress /\ ReplayWindows /\ ReplayFound

(* What replay reads of the live run does not change while it is replayed. *)
LEMMA LiveKept ==
  ASSUME UNCHANGED <<vars, ingress>>
  PROVE  /\ arrivals' = arrivals /\ consumptions' = consumptions /\ ingress' = ingress
         /\ Log' = Log /\ RecordedInputs' = RecordedInputs /\ LiveFound' = LiveFound
         /\ (Comparable' <=> Comparable)
         /\ \A k \in Key : Ordered(k)' <=> Ordered(k)
<1>1. arrivals' = arrivals /\ consumptions' = consumptions /\ ingress' = ingress
  BY DEF vars
<1>2. Log' = Log
  BY <1>1 DEF Log, KeyOf, At
<1>3. UniqueQuotes' = UniqueQuotes
  BY <1>1 DEF UniqueQuotes, EventId, KeyOf, At
<1>4. RecordedInputs' = RecordedInputs
  BY <1>1, <1>3 DEF RecordedInputs, Recorded
<1>5. LiveFound' = LiveFound
  BY <1>1 DEF LiveFound
<1>6. SharedIds' <=> SharedIds
  BY <1>1 DEF SharedIds, EventId, KeyOf, At
<1>7. \A k \in Key : Ordered(k)' <=> Ordered(k)
  BY <1>1 DEF Ordered, KeyOf, At
<1> QED
  BY <1>1, <1>2, <1>4, <1>5, <1>6, <1>7 DEF Comparable

(* Where no two quotes consumed share an id, every one of them is recorded.*)
LEMMA ConsumedRecorded ==
  ASSUME TypeOK, ~SharedIds, NEW row \in consumptions
  PROVE  row.quote \in UniqueQuotes
<1> DEFINE R == {r \in consumptions : EventId(r.quote) = EventId(row.quote)}
           S == {r.order : r \in R}
<1>1. \A r \in consumptions : r.order \in Nat
  BY DEF TypeOK, Row
<1>2. S \in SUBSET Nat /\ S # {}
  BY <1>1
<1> HIDE DEF S
<1>3. PICK x \in S : \A y \in S : x <= y
  BY <1>2, LeastOf
<1>4. PICK r \in R : r.order = x
  BY <1>3 DEF S
<1>5. \A s \in consumptions : EventId(s.quote) = EventId(r.quote) => r.order <= s.order
  BY <1>3, <1>4 DEF S
<1>6. r.quote \in UniqueQuotes
  BY <1>4, <1>5 DEF UniqueQuotes
<1>7. r.quote = row.quote
  BY <1>4 DEF SharedIds
<1> QED
  BY <1>6, <1>7

(* Inputs up to p, those that bring the quote n before it among them.      *)
WithQuote(I, log, p, n) ==
    I \subseteq 1 .. p /\ \A i \in 1 .. p : (i < p /\ log[i].quote = n) => i \in I

(* A trade that found a quote among all the inputs before it finds it      *)
(* among any of them that include it.                                      *)
LEMMA FoundAgain ==
  ASSUME NEW log, LogOf(log, arrivals), Window \in Nat,
         NEW p \in DOMAIN log, log[p].quote = 0,
         NEW k, log[p].key = k, NEW n, Found(log, p, n),
         NEW I, WithQuote(I, log, p, n),
         NEW w, Holds(w, log, k, I)
  PROVE  n \in LastValid(w, log[p].at) /\ \A m \in LastValid(w, log[p].at) : m = n
<1>1. /\ DOMAIN log = 1 .. Len(log) /\ Len(log) \in Nat
      /\ \A i \in DOMAIN log : i \in Nat /\ log[i].quote \in Nat /\ log[i].at \in Nat
  BY LogNumbers DEF LogOf
<1>2. /\ \A i, j \in DOMAIN log :
            (i < j /\ log[i].quote # 0 /\ log[j].quote # 0) => log[i].quote < log[j].quote
      /\ \A i \in DOMAIN log : log[i].quote # 0 => At(log[i].quote) = log[i].at
  BY DEF LogOf, At
<1>3. /\ w \in Seq(Nat)
      /\ \A i, j \in DOMAIN w : i < j => w[i] < w[j]
      /\ {w[i] : i \in DOMAIN w} = {log[i].quote : i \in Lasting(log, k, I)}
  BY DEF Holds
<1>4. 1 .. p \subseteq DOMAIN log /\ p \in Nat
  BY <1>1
<1>5. PICK i \in Lasting(log, k, 1 .. p) :
          /\ i < p /\ log[i].quote = n /\ log[i].at <= log[p].at
          /\ \A j \in 1 .. p - 1 :
                (/\ log[j].quote # 0 /\ log[j].key = k /\ log[j].at <= log[p].at) => j <= i
  BY DEF Found
<1>6. /\ i \in 1 .. p /\ i \in DOMAIN log /\ log[i].quote # 0 /\ i \in Lasting(log, k, I)
      /\ n \in Nat /\ n # 0 /\ At(n) = log[i].at
  <2>1. i \in 1 .. p /\ log[i].quote # 0
    BY DEF Lasting
  <2>2. i \in I
    BY <1>5, <2>1 DEF WithQuote
  <2>3. i \in Lasting(log, k, I)
    BY <2>2 DEF Lasting, WithQuote
  <2> QED
    BY <1>1, <1>2, <1>4, <1>5, <2>1, <2>3
<1>7. PICK x \in DOMAIN w : w[x] = n
  BY <1>3, <1>5, <1>6
<1>8. ASSUME NEW y \in DOMAIN w, At(w[y]) <= log[p].at PROVE y <= x
  <2>1. PICK j \in Lasting(log, k, I) : w[y] = log[j].quote
    BY <1>3
  <2>2. j \in 1 .. p /\ log[j].quote # 0 /\ log[j].key = k
    BY DEF Lasting, WithQuote
  <2>3. j # p /\ j \in DOMAIN log /\ j \in 1 .. p - 1
    BY <1>4, <2>2
  <2>4. log[j].at <= log[p].at
    BY <1>2, <1>8, <2>1, <2>2, <2>3
  <2>5. j <= i
    BY <1>5, <2>2, <2>3, <2>4
  <2>6. ~(x < y)
    <3>1. j = i \/ j < i
      BY <1>6, <2>3, <2>5
    <3>2. log[j].quote <= log[i].quote /\ log[j].quote \in Nat
      <4>1. log[j].quote \in Nat /\ log[i].quote \in Nat
        BY <1>1, <1>6, <2>3
      <4>2. j < i => log[j].quote < log[i].quote
        BY <1>2, <1>6, <2>2, <2>3
      <4> QED
        BY <3>1, <4>1, <4>2
    <3>3. x < y => w[x] < w[y]
      BY <1>3
    <3> QED
      BY <1>5, <1>6, <1>7, <2>1, <3>2, <3>3
  <2> QED
    BY <1>3, <2>6
<1>9. At(w[x]) <= log[p].at
  BY <1>5, <1>6, <1>7
<1>10. n \in LastValid(w, log[p].at)
  BY <1>3, <1>6, <1>7, <1>8, <1>9, LastValidIs
<1>11. ASSUME NEW m \in LastValid(w, log[p].at) PROVE m = n
  <2>1. PICK z \in DOMAIN w : /\ w[z] = m /\ At(m) <= log[p].at
                              /\ \A y \in DOMAIN w : At(w[y]) <= log[p].at => y <= z
    BY <1>3, LastValidIs
  <2>2. x <= z /\ z <= x
    BY <1>8, <1>9, <2>1
  <2>3. x = z
    BY <1>3, <2>2
  <2> QED
    BY <1>7, <2>1, <2>3
<1> QED
  BY <1>10, <1>11

(* Nothing is replayed at first.                                           *)
LEMMA ReplayInvInit == ReplayInit => ReplayInv
<1> SUFFICES ASSUME ReplayInit PROVE ReplayInv
  OBVIOUS
<1>1. TrailInv
  BY TrailInit DEF ReplayInit
<1>2. /\ replaying = FALSE /\ inputs = {} /\ replay_found = {}
      /\ replay_windows = [k \in Key |-> <<>>]
  BY DEF ReplayInit
<1> QED
  BY <1>1, <1>2
     DEF ReplayInv, NotYetReplaying, ReplayProgress, ReplayWindows, ReplayFound

(* While the run is live there is no replay.                               *)
LEMMA ReplayInvLive == ReplayInv /\ Live => ReplayInv'
<1> SUFFICES ASSUME ReplayInv, Live PROVE ReplayInv'
  OBVIOUS
<1>1. TrailInv'
  BY TrailLive DEF ReplayInv
<1>2. /\ ~replaying /\ ~replaying' /\ inputs' = inputs
      /\ replay_windows' = replay_windows /\ replay_found' = replay_found
  BY DEF Live, replay
<1> QED
  BY <1>1, <1>2
     DEF ReplayInv, NotYetReplaying, ReplayProgress, ReplayWindows, ReplayFound

(* Replay starts with empty windows, and all of the recorded inputs.       *)
LEMMA ReplayInvStart == ReplayInv /\ StartReplay => ReplayInv'
<1> SUFFICES ASSUME ReplayInv, StartReplay PROVE ReplayInv'
  OBVIOUS
<1>1. /\ ~replaying /\ replaying' /\ inputs' = RecordedInputs
      /\ UNCHANGED <<vars, ingress>>
      /\ replay_windows' = [k \in Key |-> <<>>] /\ replay_found' = {}
  BY DEF StartReplay, RecordedInputs, ReplayInv, NotYetReplaying
<1>2. TrailInv'
  BY <1>1, TrailStands DEF ReplayInv
<1>3. RecordedInputs' = RecordedInputs /\ Log' = Log
  BY <1>1, LiveKept
<1>4. Replayed' = {}
  BY <1>1, <1>3 DEF Replayed
<1>5. ASSUME NEW k \in Key PROVE Holds(replay_windows'[k], Log', k, Replayed')
  <2>1. Lasting(Log', k, Replayed') = {}
    BY <1>4 DEF Lasting
  <2>2. replay_windows'[k] = <<>> /\ <<>> \in Seq(Nat) /\ DOMAIN <<>> = {}
    BY <1>1
  <2> QED
    BY <2>1, <2>2 DEF Holds
<1>6. ReplayWindows'
  BY <1>1, <1>5 DEF ReplayWindows
<1>7. ReplayFound'
  BY <1>1, <1>4 DEF ReplayFound, OfReplayed, FoundAsLive
<1> QED
  BY <1>1, <1>2, <1>3, <1>4, <1>6, <1>7 DEF ReplayInv, NotYetReplaying, ReplayProgress

(* The next input comes after those replayed, and joins them.              *)
LEMMA ReplayAdvances ==
  ASSUME ReplayInv, NEW i \in inputs, NextInput(i), inputs' = inputs \ {i},
         UNCHANGED <<vars, ingress, replaying>>
  PROVE  /\ replaying /\ replaying' /\ TrailInv' /\ NotYetReplaying' /\ ReplayProgress'
         /\ i \in DOMAIN ingress /\ i \in RecordedInputs
         /\ Replayed \subseteq DOMAIN ingress /\ \A j \in Replayed : j < i
         /\ \A j \in RecordedInputs : j < i => j \in Replayed
         /\ Replayed' = Replayed \cup {i}
<1>1. replaying /\ replaying'
  BY DEF ReplayInv, NotYetReplaying
<1>2. TrailInv'
  BY TrailStands DEF ReplayInv
<1>3. /\ inputs \subseteq RecordedInputs /\ RecordedInputs \subseteq DOMAIN ingress
      /\ \A a \in Replayed, b \in inputs : a < b
  BY <1>1 DEF ReplayInv, ReplayProgress, RecordedInputs
<1>4. RecordedInputs' = RecordedInputs
  BY LiveKept
<1>5. Replayed' = Replayed \cup {i}
  BY <1>3, <1>4 DEF Replayed
<1>6. DOMAIN ingress \subseteq Nat
  BY TrailLog DEF ReplayInv, TrailInv, TrailLogged
<1>7. \A b \in inputs : i <= b /\ b \in Nat
  BY <1>3, <1>6 DEF NextInput
<1>8. ReplayProgress'
  <2>1. ASSUME NEW a \in Replayed \cup {i}, NEW b \in inputs \ {i} PROVE a < b
    <3>1. CASE a = i
      BY <1>7, <3>1
    <3>2. CASE a \in Replayed
      BY <1>3, <3>2
    <3> QED
      BY <3>1, <3>2
  <2> QED
    BY <1>3, <1>4, <1>5, <2>1 DEF ReplayProgress
<1>9. NotYetReplaying'
  BY <1>1 DEF NotYetReplaying
<1>10. \A j \in RecordedInputs : j < i => j \in Replayed
  <2> SUFFICES ASSUME NEW j \in inputs, j < i PROVE FALSE
    BY DEF Replayed
  <2>1. j \in Nat /\ i \in Nat /\ i <= j
    BY <1>7
  <2> QED
    BY <2>1
<1> QED
  BY <1>1, <1>2, <1>3, <1>5, <1>8, <1>9, <1>10 DEF Replayed

(* The replayed windows are given it.                                      *)
LEMMA ReplayWindowsNext ==
  ASSUME ReplayInv, NEW i \in inputs, NextInput(i), inputs' = inputs \ {i},
         UNCHANGED <<vars, ingress, replaying>>,
         NEW k \in Key, Log[i].key = k,
         NEW grown,
         grown = IF Log[i].quote = 0 THEN replay_windows[k]
                 ELSE Append(replay_windows[k], Log[i].quote),
         replay_windows' = [replay_windows EXCEPT ![k] = Expired(grown, arrivals, Log[i].at)]
  PROVE  ReplayWindows'
<1>1. /\ replaying /\ i \in DOMAIN ingress /\ Replayed' = Replayed \cup {i}
      /\ Replayed \subseteq DOMAIN ingress /\ \A j \in Replayed : j < i
  BY ReplayAdvances
<1>2. Log' = Log /\ \A q \in Key : Ordered(q)' <=> Ordered(q)
  BY LiveKept
<1>3. /\ LogOf(Log, arrivals) /\ DOMAIN Log = DOMAIN ingress /\ Window \in Nat
      /\ \A q \in Key : Ordered(q) => InOrder(Log, q)
  BY TrailLog, BookNumbers DEF ReplayInv, TrailInv, TrailLogged, BookInv
<1>4. /\ DOMAIN replay_windows = Key
      /\ \A q \in Key : Ordered(q) => Holds(replay_windows[q], Log, q, Replayed)
  BY <1>1 DEF ReplayInv, ReplayWindows
<1>5. ASSUME NEW q \in Key, Ordered(q)
      PROVE  Holds(replay_windows'[q], Log, q, Replayed \cup {i})
  <2>1. CASE q = k
    <3>1. replay_windows'[q] = Expired(grown, arrivals, Log[i].at)
      BY <1>4, <2>1
    <3>2. Holds(replay_windows[k], Log, k, Replayed) /\ InOrder(Log, k)
      BY <1>3, <1>4, <1>5, <2>1
    <3>3. Holds(Expired(grown, arrivals, Log[i].at), Log, k, Replayed \cup {i})
      BY <1>1, <1>3, <3>2, HoldsNext
    <3> QED
      BY <2>1, <3>1, <3>3
  <2>2. CASE q # k
    <3>1. replay_windows'[q] = replay_windows[q] /\ Log[i].key # q
      BY <1>4, <2>2
    <3> QED
      BY <1>4, <1>5, <3>1, HoldsOther
  <2> QED
    BY <2>1, <2>2
<1>6. DOMAIN replay_windows' = Key
  BY <1>4
<1> QED
  BY <1>1, <1>2, <1>5, <1>6 DEF ReplayWindows

(* A quote replayed changes no trade's quote.                              *)
LEMMA ReplayInvQuote ==
  ASSUME ReplayInv, NEW i \in inputs, ReplayQuote(i)
  PROVE  ReplayInv'
<1> DEFINE n == ingress[i].n
<1>1. /\ NextInput(i) /\ ingress[i].type = "quote" /\ inputs' = inputs \ {i}
      /\ UNCHANGED <<vars, ingress, replaying>> /\ replay_found' = replay_found
      /\ replay_windows' =
            [replay_windows EXCEPT ![KeyOf(n)] = Expired(Append(@, n), arrivals, At(n))]
  BY DEF ReplayQuote
<1>2. /\ replaying /\ replaying' /\ TrailInv' /\ NotYetReplaying' /\ ReplayProgress'
      /\ i \in DOMAIN ingress /\ Replayed' = Replayed \cup {i}
  BY <1>1, ReplayAdvances
<1>3. /\ n \in DOMAIN arrivals /\ Log[i].quote # 0
      /\ Log[i].quote = n /\ Log[i].key = KeyOf(n) /\ Log[i].at = At(n)
  BY <1>1, <1>2, TrailLog DEF ReplayInv, TrailInv, TrailLogged, LogReads
<1>4. KeyOf(n) \in Key
  BY <1>3, BookNumbers DEF ReplayInv, TrailInv, BookInv
<1>5. ReplayWindows'
  <2> PICK k \in Key : k = KeyOf(n)
    BY <1>4
  <2> PICK grown : grown = Append(replay_windows[k], n)
    OBVIOUS
  <2>1. grown = IF Log[i].quote = 0 THEN replay_windows[k]
                ELSE Append(replay_windows[k], Log[i].quote)
    BY <1>3
  <2>2. replay_windows' = [replay_windows EXCEPT ![k] = Expired(grown, arrivals, Log[i].at)]
    BY <1>1, <1>3
  <2>3. Log[i].key = k
    BY <1>3
  <2> HIDE DEF n
  <2> QED
    BY <1>1, <2>1, <2>2, <2>3, ReplayWindowsNext
<1>6. /\ ingress' = ingress /\ LiveFound' = LiveFound /\ (Comparable' <=> Comparable)
  BY <1>1, LiveKept
<1>7. OfReplayed'
  BY <1>1, <1>2, <1>6 DEF ReplayInv, ReplayFound, OfReplayed
<1>8. Comparable => FoundAsLive'
  <2> SUFFICES ASSUME Comparable, NEW live \in LiveFound, NEW p \in Replayed \cup {i},
                      ingress[p].type = "trade", ingress[p].trade = live.trade
               PROVE  {found \in replay_found : found.trade = live.trade} = {live}
    BY <1>1, <1>2, <1>6 DEF FoundAsLive
  <2>1. p \in Replayed
    BY <1>1
  <2> QED
    BY <1>2, <2>1 DEF ReplayInv, ReplayFound, FoundAsLive
<1> QED
  BY <1>2, <1>5, <1>6, <1>7, <1>8 DEF ReplayInv, ReplayFound

(* A trade replayed finds what it found live: the quote that lasted among  *)
(* all the inputs lasts among those recorded, which it is one of.          *)
LEMMA ReplayedTrade ==
  ASSUME ReplayInv, Comparable, NEW i \in inputs, ReplayTrade(i), ReplayWindows',
         NEW live \in LiveFound, ingress[i].trade = live.trade
  PROVE  LastValid(replay_windows'[ingress[i].key], ingress[i].at) = {live.quote}
<1> DEFINE k == ingress[i].key
<1>1. /\ NextInput(i) /\ ingress[i].type = "trade" /\ inputs' = inputs \ {i}
      /\ UNCHANGED <<vars, ingress, replaying>>
  BY DEF ReplayTrade
<1>2. /\ replaying' /\ i \in DOMAIN ingress /\ Replayed' = Replayed \cup {i}
      /\ Replayed \subseteq DOMAIN ingress /\ \A j \in Replayed : j < i
      /\ \A j \in RecordedInputs : j < i => j \in Replayed
  BY <1>1, ReplayAdvances
<1>3. /\ TypeOK /\ BookInv /\ TrailTypes /\ QuotesRise /\ TradesOnce /\ LiveRows
      /\ Window \in Nat
  BY BookNumbers DEF ReplayInv, TrailInv, BookInv
<1>4. /\ DOMAIN ingress = 1 .. Len(ingress) /\ Len(ingress) \in Nat
      /\ LogOf(Log, arrivals) /\ DOMAIN Log = DOMAIN ingress
      /\ \A j \in DOMAIN ingress : LogReads(j)
  BY <1>3, TrailLog DEF TrailLogged
<1>5. k \in Key /\ Log[i].quote = 0 /\ Log[i].key = k /\ Log[i].at = ingress[i].at
  BY <1>1, <1>2, <1>4 DEF LogReads
<1>6. Ordered(k) /\ Log' = Log
  BY <1>1, <1>5, LiveKept DEF Comparable
<1>7. Holds(replay_windows'[k], Log, k, Replayed \cup {i})
  <2> PICK c \in Key : c = k
    BY <1>5
  <2>1. Ordered(c)'
    BY <1>1, <1>6, LiveKept
  <2>2. Holds(replay_windows'[c], Log', c, Replayed')
    BY <1>2, <2>1 DEF ReplayWindows
  <2> HIDE DEF k
  <2> QED
    BY <1>2, <1>6, <2>2
<1>8. PICK row \in consumptions : row.trade # NoTrade /\ row.trade = live.trade
                                  /\ row.quote = live.quote
  BY DEF LiveFound
<1>9. Found(Log, i, row.quote)
  <2>1. PICK p \in DOMAIN ingress : FoundAt(row, p)
    BY <1>3, <1>8 DEF LiveRows
  <2>2. p = i
    BY <1>1, <1>2, <1>3, <1>8, <2>1 DEF FoundAt, TradesOnce
  <2> QED
    BY <1>6, <2>1, <2>2 DEF FoundAt
<1>10. row.quote \in UniqueQuotes
  BY <1>3, <1>8, ConsumedRecorded DEF Comparable
<1>11. row.quote # 0
  <2>1. row.quote \in DOMAIN arrivals /\ DOMAIN arrivals = 1 .. Len(arrivals)
    BY <1>3 DEF TypeOK
  <2> QED
    BY <2>1
<1>12. ASSUME NEW j \in 1 .. i, j < i, Log[j].quote = row.quote
       PROVE  j \in Replayed \cup {i}
  <2>1. j \in DOMAIN ingress
    BY <1>2, <1>4
  <2>2. Recorded(ingress[j])
    <3>1. LogReads(j) /\ Log[j].quote # 0
      BY <1>4, <1>11, <1>12, <2>1
    <3>2. CASE ingress[j].type = "trade"
      BY <3>2 DEF Recorded
    <3>3. CASE Log[j] = [quote |-> ingress[j].n, key |-> KeyOf(ingress[j].n),
                         at |-> At(ingress[j].n)]
      <4>1. ingress[j].n = row.quote
        BY <1>12, <3>3
      <4> QED
        BY <1>10, <4>1 DEF Recorded
    <3> QED
      BY <3>1, <3>2, <3>3 DEF LogReads
  <2> QED
    BY <1>2, <1>12, <2>1, <2>2 DEF RecordedInputs
<1>13. Replayed \cup {i} \subseteq 1 .. i
  <2> SUFFICES ASSUME NEW j \in Replayed \cup {i} PROVE j \in 1 .. i
    OBVIOUS
  <2>1. j \in Nat /\ 1 <= j /\ i \in Nat /\ 1 <= i
    BY <1>2, <1>4
  <2>2. j <= i
    BY <1>2, <2>1
  <2> QED
    BY <2>1, <2>2
<1>14. LastValid(replay_windows'[k], Log[i].at) = {row.quote}
  <2> PICK w : w = replay_windows'[k]
    OBVIOUS
  <2> PICK I : I = Replayed \cup {i}
    OBVIOUS
  <2>1. I \subseteq 1 .. i /\ \A j \in 1 .. i : (j < i /\ Log[j].quote = row.quote) => j \in I
    BY <1>12, <1>13
  <2>2. Holds(w, Log, k, I) /\ Log[i].key = k
    BY <1>5, <1>7
  <2>3. LastValid(w, Log[i].at) = {row.quote}
    <3>1. i \in DOMAIN Log /\ LogOf(Log, arrivals) /\ Window \in Nat /\ Log[i].quote = 0
      BY <1>2, <1>3, <1>4, <1>5
    <3>2. WithQuote(I, Log, i, row.quote)
      BY <2>1 DEF WithQuote
    <3> DEFINE valid == LastValid(w, Log[i].at)
    <3>3. row.quote \in valid /\ \A m \in valid : m = row.quote
      BY <1>9, <2>2, <3>1, <3>2, FoundAgain, SMTT(30)
    <3> HIDE DEF valid
    <3>4. valid = {row.quote}
      BY <3>3
    <3> QED
      BY <3>4 DEF valid
  <2> QED
    BY <2>3
<1> QED
  BY <1>5, <1>8, <1>14

(* No trade replayed before it is the same.                                *)
LEMMA ReplayInvTrade ==
  ASSUME ReplayInv, NEW i \in inputs, ReplayTrade(i)
  PROVE  ReplayInv'
<1> DEFINE t == ingress[i].trade
           k == ingress[i].key
           at == ingress[i].at
           valid == LastValid(replay_windows'[k], at)
<1>1. /\ NextInput(i) /\ ingress[i].type = "trade" /\ inputs' = inputs \ {i}
      /\ UNCHANGED <<vars, ingress, replaying>>
      /\ replay_windows' = [replay_windows EXCEPT ![k] = Expired(@, arrivals, at)]
  BY DEF ReplayTrade
<1>2. /\ replaying /\ replaying' /\ TrailInv' /\ NotYetReplaying' /\ ReplayProgress'
      /\ i \in DOMAIN ingress /\ Replayed' = Replayed \cup {i}
      /\ Replayed \subseteq DOMAIN ingress /\ \A j \in Replayed : j < i
      /\ DOMAIN ingress \subseteq Nat
  BY <1>1, ReplayAdvances, TrailLog DEF ReplayInv, TrailInv, TrailLogged
<1>3. /\ k \in Key /\ Log[i].quote = 0 /\ Log[i].key = k /\ Log[i].at = at
  BY <1>1, <1>2, TrailLog DEF ReplayInv, TrailInv, TrailLogged, LogReads
<1>4. ReplayWindows'
  <2> PICK c \in Key : c = k
    BY <1>3
  <2> PICK grown : grown = replay_windows[c]
    OBVIOUS
  <2>1. grown = IF Log[i].quote = 0 THEN replay_windows[c]
                ELSE Append(replay_windows[c], Log[i].quote)
    BY <1>3
  <2>2. replay_windows' = [replay_windows EXCEPT ![c] = Expired(grown, arrivals, Log[i].at)]
    BY <1>1, <1>3
  <2>3. Log[i].key = c
    BY <1>3
  <2>4. NextInput(i) /\ inputs' = inputs \ {i} /\ UNCHANGED <<vars, ingress, replaying>>
    BY <1>1
  <2> HIDE DEF k, at
  <2> QED
    BY <2>1, <2>2, <2>3, <2>4, ReplayWindowsNext
<1>5. replay_found' = replay_found \cup {[trade |-> t, quote |-> n] : n \in valid}
  <2>1. replay_windows'[k] = Expired(replay_windows[k], arrivals, at)
    BY <1>1, <1>3 DEF ReplayInv, ReplayWindows
  <2> QED
    BY <2>1 DEF ReplayTrade
<1>6. /\ ingress' = ingress /\ LiveFound' = LiveFound /\ (Comparable' <=> Comparable)
  BY <1>1, LiveKept
<1>7. OfReplayed'
  <2> SUFFICES ASSUME NEW found \in replay_found'
               PROVE  \E p \in Replayed \cup {i} : ingress[p].type = "trade"
                                                   /\ ingress[p].trade = found.trade
    BY <1>2, <1>6 DEF OfReplayed
  <2>1. CASE found \in replay_found
    BY <1>2, <2>1 DEF ReplayInv, ReplayFound, OfReplayed
  <2>2. CASE \E n \in valid : found = [trade |-> t, quote |-> n]
    <3>1. found.trade = t
      BY <2>2
    <3> QED
      BY <1>1, <3>1
  <2> QED
    BY <1>5, <2>1, <2>2
<1>8. ASSUME NEW p \in Replayed, ingress[p].type = "trade" PROVE ingress[p].trade # t
  <2>1. p \in DOMAIN ingress /\ p # i
    BY <1>2
  <2> QED
    BY <1>1, <1>2, <1>8, <2>1 DEF ReplayInv, TrailInv, TradesOnce
<1>9. \A found \in replay_found : found.trade # t
  BY <1>2, <1>8 DEF ReplayInv, ReplayFound, OfReplayed
<1>10. Comparable => FoundAsLive'
  <2> SUFFICES ASSUME Comparable, NEW live \in LiveFound, NEW p \in Replayed \cup {i},
                      ingress[p].type = "trade", ingress[p].trade = live.trade
               PROVE  {found \in replay_found' : found.trade = live.trade} = {live}
    BY <1>1, <1>2, <1>6 DEF FoundAsLive
  <2>1. CASE p \in Replayed
    <3>1. {found \in replay_found : found.trade = live.trade} = {live}
      BY <1>2, <2>1 DEF ReplayInv, ReplayFound, FoundAsLive
    <3>2. live.trade # t
      BY <1>8, <2>1
    <3>3. \A found \in replay_found' : found.trade = live.trade => found \in replay_found
      BY <1>5, <3>2
    <3> QED
      BY <1>5, <3>1, <3>3
  <2>2. CASE p = i
    <3>1. valid = {live.quote}
      BY <1>4, <2>2, ReplayedTrade
    <3>2. live = [trade |-> t, quote |-> live.quote]
      BY <2>2 DEF LiveFound
    <3> HIDE DEF valid
    <3>3. replay_found' = replay_found \cup {live}
      BY <1>5, <3>1, <3>2
    <3> QED
      BY <1>9, <2>2, <3>3
  <2> QED
    BY <2>1, <2>2
<1> QED
  BY <1>2, <1>4, <1>6, <1>7, <1>10 DEF ReplayInv, ReplayFound

LEMMA ReplayStep == ReplayInv /\ [ReplayNext]_replay_vars => ReplayInv'
<1> SUFFICES ASSUME ReplayInv, [ReplayNext]_replay_vars PROVE ReplayInv'
  OBVIOUS
<1>1. CASE Live
  BY <1>1, ReplayInvLive
<1>2. CASE StartReplay
  BY <1>2, ReplayInvStart
<1>3. CASE \E i \in inputs : ReplayQuote(i) \/ ReplayTrade(i)
  BY <1>3, ReplayInvQuote, ReplayInvTrade
<1>4. CASE UNCHANGED replay_vars
  <2>1. UNCHANGED <<vars, ingress>> /\ UNCHANGED replay
    BY <1>4 DEF replay_vars
  <2>2. TrailInv'
    BY <2>1, TrailStands DEF ReplayInv
  <2>3. /\ ingress' = ingress /\ Log' = Log /\ RecordedInputs' = RecordedInputs
        /\ LiveFound' = LiveFound /\ (Comparable' <=> Comparable)
        /\ \A k \in Key : Ordered(k)' <=> Ordered(k)
    BY <2>1, LiveKept
  <2>4. /\ inputs' = inputs /\ replaying' = replaying /\ replay_windows' = replay_windows
        /\ replay_found' = replay_found
    BY <2>1 DEF replay
  <2>5. Replayed' = Replayed
    BY <2>3, <2>4 DEF Replayed
  <2>6. NotYetReplaying' /\ ReplayProgress'
    BY <2>3, <2>4, <2>5 DEF ReplayInv, NotYetReplaying, ReplayProgress
  <2>7. ReplayWindows'
    BY <2>3, <2>4, <2>5 DEF ReplayInv, ReplayWindows
  <2>8. ReplayFound'
    BY <2>3, <2>4, <2>5 DEF ReplayInv, ReplayFound, OfReplayed, FoundAsLive
  <2> QED
    BY <2>2, <2>6, <2>7, <2>8 DEF ReplayInv
<1> QED
  BY <1>1, <1>2, <1>3, <1>4 DEF ReplayNext

(* Through the live run and its replay: each window, live or replayed,     *)
(* holds the quotes that no input given to it made too old; a trade's row  *)
(* is the last quote that was there for it; and the trades replayed so far *)
(* found theirs again.                                                     *)
THEOREM ReplayInvariant == ReplaySpec => []ReplayInv
<1> QED
  BY ReplayInvInit, ReplayStep, PTL DEF ReplaySpec

(* When the trail has been replayed, every trade that consumed a quote     *)
(* live has consumed that quote and no other (replay.py:82): for any       *)
(* contracts, times and number of quotes, if a contract's quotes came in   *)
(* event-time order and no two quotes consumed share an id.                *)
THEOREM ReplayFinds == ReplaySpec => []ReplayExact
<1>1. ReplayInv => ReplayExact
  <2> SUFFICES ASSUME ReplayInv, replaying, inputs = {}, Comparable, NEW live \in LiveFound
               PROVE  {found \in replay_found : found.trade = live.trade} = {live}
    BY DEF ReplayExact, Comparable
  <2>1. PICK row \in consumptions : row.trade # NoTrade /\ row.trade = live.trade
    BY DEF LiveFound
  <2>2. PICK p \in DOMAIN ingress : FoundAt(row, p)
    BY <2>1 DEF ReplayInv, TrailInv, LiveRows
  <2>3. p \in Replayed
    BY <2>2 DEF Replayed, RecordedInputs, Recorded, FoundAt
  <2> QED
    BY <2>1, <2>2, <2>3 DEF ReplayInv, ReplayFound, FoundAsLive, FoundAt
<1> QED
  BY <1>1, ReplayInvariant, PTL

(* A run that is replayed is a run of the quote book, so that what is      *)
(* proved of the book holds of it.                                         *)
THEOREM ReplayOfBook == ReplaySpec => Spec
<1>1. ReplayInit => Init
  BY DEF ReplayInit
<1>2. [ReplayNext]_replay_vars => [Next]_vars
  <2> SUFFICES ASSUME [ReplayNext]_replay_vars PROVE [Next]_vars
    OBVIOUS
  <2>1. CASE Live
    BY <2>1 DEF Live, Next
  <2>2. CASE StartReplay
    BY <2>2 DEF StartReplay
  <2>3. CASE \E i \in inputs : ReplayQuote(i) \/ ReplayTrade(i)
    BY <2>3 DEF ReplayQuote, ReplayTrade
  <2>4. CASE UNCHANGED replay_vars
    BY <2>4 DEF replay_vars
  <2> QED
    BY <2>1, <2>2, <2>3, <2>4 DEF ReplayNext
<1> QED
  BY <1>1, <1>2, PTL DEF ReplaySpec, Spec
=============================================================================
