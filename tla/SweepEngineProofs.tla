------------------------- MODULE SweepEngineProofs -------------------------
(***************************************************************************)
(* Proofs about SweepEngine for every set of contracts, trades and         *)
(* payloads, every threshold and every window.                             *)
(*                                                                         *)
(* SweepInv is inductive.  The argument: (1) a new cluster's id is fresh,  *)
(* because its contract's windows roll forward and the trade lies past the *)
(* last of them; (2) a constituent is added only for a trade that was not  *)
(* seen, and everything held was seen, so no two clusters share one;       *)
(* (3) every step that changes a cluster's constituents recomputes exactly *)
(* that cluster's flag and entry.                                          *)
(***************************************************************************)
EXTENDS SweepEngine, FiniteSetTheorems, TLAPS

(* The image of a finite set under a function is finite.                   *)
LEMMA ImageFinite ==
    ASSUME NEW S, IsFiniteSet(S), NEW f, NEW T,
           \A x \in S : f[x] \in T, \A y \in T : \E x \in S : y = f[x]
    PROVE  IsFiniteSet(T)
<1> DEFINE g == [x \in S |-> f[x]]
<1>1. g \in Surjection(S, T)
    BY DEF Surjection
<1>2. QED
    BY <1>1, FS_Surjection DEF ExistsSurjection

(* There are finitely many clusters.                                       *)
LEMMA ClusterFinite == IsFiniteSet(Cluster)
<1>1. IsFiniteSet(Time)
    BY ConstantsOK, FS_Interval DEF Time
<1>2. QED
    BY <1>1, ConstantsOK, FS_Product DEF Cluster

(* Times are natural numbers.                                              *)
LEMMA TimesAreNat ==
    /\ Time \subseteq Nat
    /\ Window \in Nat
    /\ Freshness \in Nat
    /\ \A c \in Cluster : OpenAt(c) \in Nat /\ CloseAt(c) \in Nat /\ KeyOf(c) \in Key
BY ConstantsOK DEF Time, Cluster, OpenAt, CloseAt, KeyOf
-----------------------------------------------------------------------------
(* Type correctness, one lemma per building block of the actions.          *)

(* The audits of a recomputation have their type.                          *)
LEMMA FlipAuditTyped ==
    ASSUME NEW c \in Cluster, NEW S, NEW n \in Nat
    PROVE  /\ IsFiniteSet(FlipAudit(c, S, n))
           /\ FlipAudit(c, S, n) \subseteq Audits
<1>1. CASE Flips(c, S)
    <2>1. PICK name \in Transition : FlipAudit(c, S, n) = {Audit(c, name, n)}
        BY <1>1 DEF FlipAudit, Transition
    <2>2. Audit(c, name, n) \in Audits
        BY DEF Audit, Audits
    <2>3. QED
        BY <2>1, <2>2, FS_Singleton
<1>2. CASE ~Flips(c, S)
    BY <1>2, FS_EmptySet DEF FlipAudit
<1>3. QED
    BY <1>1, <1>2

(* Numbering audits keeps the order's type.                                *)
LEMMA EmitTyped ==
    ASSUME TypeOK, NEW A, IsFiniteSet(A), A \subseteq Audits, Emit(A)
    PROVE  order' \in Nat /\ emitted' \subseteq Audits
<1>1. Cardinality(A) \in Nat
    BY FS_CardinalityType
<1>2. QED
    BY <1>1 DEF TypeOK, Emit, OrdersUsed

(* recompute keeps the types of what it sets.                              *)
LEMMA RecomputeTyped ==
    ASSUME TypeOK, NEW c \in Cluster, NEW S \in SUBSET Event, Recompute(c, S)
    PROVE  /\ trades' \in [Cluster -> SUBSET Event]
           /\ qualifying' \subseteq Cluster
           /\ \A q \in session_qualifying' : q.cluster \in Cluster
BY DEF TypeOK, Recompute, OtherEntries, SessionEntry

(* One audit for each element of a finite set, with orders by rank.        *)
LEMMA RankedAudits ==
    ASSUME NEW S, IsFiniteSet(S), NEW rank \in Bijection(S, 1 .. Cardinality(S)),
           NEW cl \in [S -> Cluster], NEW name \in Transition, NEW n \in Nat,
           NEW A, A = {Audit(cl[x], name, n + rank[x]) : x \in S}
    PROVE  IsFiniteSet(A) /\ A \subseteq Audits
<1> DEFINE f == [x \in S |-> Audit(cl[x], name, n + rank[x])]
<1>1. Cardinality(S) \in Nat
    BY FS_CardinalityType
<1>2. \A x \in S : rank[x] \in 1 .. Cardinality(S)
    BY DEF Bijection, Injection, Surjection
<1>3. (\A x \in S : f[x] \in A) /\ (\A y \in A : \E x \in S : y = f[x])
    OBVIOUS
<1>4. IsFiniteSet(A)
    <2> HIDE DEF f
    <2> QED
        BY <1>3, ImageFinite
<1>5. A \subseteq Audits
    BY <1>1, <1>2 DEF Audit, Audits
<1>6. QED
    BY <1>4, <1>5

(* A new trade is a constituent.                                           *)
LEMMA NewEventTyped ==
    ASSUME NEW t \in Trade, NEW at \in Time, NEW p \in Payload
    PROVE  NewEvent(t, at, p) \in Event
BY DEF NewEvent, Event

(* A correction replaces a constituent by a constituent.                   *)
LEMMA ReplaceTyped ==
    ASSUME TypeOK, NEW c \in Cluster, NEW S \in SUBSET Event,
           NEW name \in Transition, Replace(c, S, name)
    PROVE  TypeOK'
<1> DEFINE A == {Audit(c, name, order + 1)} \cup FlipAudit(c, S, order + 2)
<1>1. order + 1 \in Nat /\ order + 2 \in Nat
    BY DEF TypeOK
<1>2. IsFiniteSet(FlipAudit(c, S, order + 2)) /\ FlipAudit(c, S, order + 2) \subseteq Audits
    BY <1>1, FlipAuditTyped
<1>3. Audit(c, name, order + 1) \in Audits
    BY <1>1 DEF Audit, Audits
<1>4. IsFiniteSet(A) /\ A \subseteq Audits
    BY <1>2, <1>3, FS_Singleton, FS_Union
<1>5. order' \in Nat /\ emitted' \subseteq Audits
    <2> HIDE DEF A
    <2> QED
        BY <1>4, EmitTyped DEF Replace, A
<1>6. QED
    BY <1>5, RecomputeTyped DEF Replace, TypeOK

(* A tick lists finitely many clusters.                                    *)
LEMMA TickListFinite ==
    ASSUME TypeOK, NEW now
    PROVE  IsFiniteSet(TickList(now))
<1> DEFINE L == TickList(now)
           names == {"active", "closed"}
<1>1. IsFiniteSet(names)
    <2>1. IsFiniteSet({"active"}) /\ IsFiniteSet({"closed"})
        BY FS_Singleton
    <2>2. IsFiniteSet({"active"} \cup {"closed"})
        BY <2>1, FS_Union
    <2>3. names = {"active"} \cup {"closed"}
        OBVIOUS
    <2>4. QED
        BY <2>2, <2>3
<1>2. L \subseteq names \X Cluster
    BY DEF TickList, TypeOK
<1> HIDE DEF L, names
<1>3. IsFiniteSet(names \X Cluster)
    BY <1>1, ClusterFinite, FS_Product
<1>4. QED
    BY <1>2, <1>3, FS_Subset DEF L

(* Every step keeps the types.                                             *)
LEMMA TypeStep ==
    ASSUME TypeOK, [Next]_vars
    PROVE  TypeOK'
<1>1. \A S \in SUBSET Cluster : IsFiniteSet(S)
    BY ClusterFinite, FS_Subset
<1>2. ASSUME NEW t \in Trade, NEW k \in Key, NEW at \in Time,
             NEW eligible \in BOOLEAN, Ignore(t, k, at, eligible)
      PROVE  TypeOK'
    <2>1. order' \in Nat /\ emitted' \subseteq Audits
        BY <1>2, EmitTyped, FS_EmptySet DEF Ignore
    <2>2. QED
        BY <1>2, <2>1 DEF Ignore, FirstSeen, TypeOK
<1>3. ASSUME NEW t \in Trade, NEW k \in Key, NEW at \in Time, NEW p \in Payload,
             JoinCluster(t, k, at, p)
      PROVE  TypeOK'
    <2>1. PICK c \in Joinable(k, at) :
              /\ FirstSeen(t)
              /\ Recompute(c, Without(trades[c], t) \cup {NewEvent(t, at, p)})
              /\ Emit(FlipAudit(c, Without(trades[c], t) \cup {NewEvent(t, at, p)}, order + 1))
              /\ UNCHANGED <<active, closed, expired>>
        BY <1>3 DEF JoinCluster
    <2>2. c \in Cluster /\ order + 1 \in Nat
        BY DEF Joinable, ActiveOf, TypeOK
    <2>3. Without(trades[c], t) \cup {NewEvent(t, at, p)} \in SUBSET Event
        BY <2>2, NewEventTyped DEF Without, TypeOK
    <2>4. order' \in Nat /\ emitted' \subseteq Audits
        BY <2>1, <2>2, FlipAuditTyped, EmitTyped
    <2>5. QED
        BY <2>1, <2>2, <2>3, <2>4, RecomputeTyped DEF FirstSeen, TypeOK
<1>4. ASSUME NEW t \in Trade, NEW k \in Key, NEW at \in Time, NEW p \in Payload,
             OpenCluster(t, k, at, p)
      PROVE  TypeOK'
    <2> DEFINE new == <<k, at>>
               old == ActiveOf(k)
               S == {NewEvent(t, at, p)}
               closing == {Audit(c, "CLUSTER_CLOSED", order + 1) : c \in old}
               flip == FlipAudit(new, S, order + 1 + Cardinality(old))
    <2>1. new \in Cluster /\ S \in SUBSET Event
        BY NewEventTyped DEF Cluster
    <2>2. old \subseteq Cluster /\ IsFiniteSet(old) /\ Cardinality(old) \in Nat
        BY <1>1, FS_CardinalityType DEF ActiveOf, TypeOK
    <2>3. IsFiniteSet(closing) /\ closing \subseteq Audits
        <3>1. order + 1 \in Nat
            BY DEF TypeOK
        <3>2. closing \subseteq Audits
            BY <2>2, <3>1 DEF Audit, Audits, Transition
        <3> DEFINE f == [c \in old |-> Audit(c, "CLUSTER_CLOSED", order + 1)]
        <3>3. (\A c \in old : f[c] \in closing) /\ (\A y \in closing : \E c \in old : y = f[c])
            OBVIOUS
        <3>4. IsFiniteSet(closing)
            <4> HIDE DEF f, closing, old
            <4> QED
                BY <2>2, <3>3, ImageFinite
        <3>5. QED
            BY <3>2, <3>4
    <2>4. IsFiniteSet(flip) /\ flip \subseteq Audits
        <3>1. order + 1 + Cardinality(old) \in Nat
            BY <2>2 DEF TypeOK
        <3>2. QED
            BY <2>1, <3>1, FlipAuditTyped
    <2>5. IsFiniteSet(closing \cup flip) /\ closing \cup flip \subseteq Audits
        <3> HIDE DEF closing, flip
        <3> QED
            BY <2>3, <2>4, FS_Union
    <2>6. order' \in Nat /\ emitted' \subseteq Audits
        <3>1. Emit(closing \cup flip)
            BY <1>4 DEF OpenCluster
        <3> HIDE DEF closing, flip
        <3>2. QED
            BY <2>5, <3>1, EmitTyped
    <2>7. /\ FirstSeen(t) /\ Recompute(new, S) /\ expired' = expired
          /\ active' = (active \ old) \cup {new} /\ closed' = closed \cup old
        BY <1>4 DEF OpenCluster
    <2> HIDE DEF new, old, S
    <2>8. QED
        BY <2>1, <2>2, <2>6, <2>7, RecomputeTyped DEF FirstSeen, TypeOK
<1>5. ASSUME NEW t \in Trade, NEW at \in Time, NEW p \in Payload, Correct(t, at, p)
      PROVE  TypeOK'
    <2> DEFINE new == [id |-> t, at |-> at, payload |-> p, corrected |-> TRUE]
    <2>1. PICK c \in Holders(t) :
              Replace(c, CorrectionBase(trades[c], t) \cup {new}, "SWEEP_CORRECTION")
        BY <1>5 DEF Correct
    <2>2. c \in Cluster
        BY DEF Holders, Live, TypeOK
    <2>3. CorrectionBase(trades[c], t) \cup {new} \in SUBSET Event
        <3>1. new \in Event
            BY DEF Event
        <3> HIDE DEF new
        <3>2. QED
            BY <2>2, <3>1 DEF CorrectionBase, Without, TypeOK
    <2> HIDE DEF new
    <2>4. QED
        BY <2>1, <2>2, <2>3, ReplaceTyped DEF Transition
<1>6. ASSUME NEW t \in Trade, Cancel(t)
      PROVE  TypeOK'
    <2>1. PICK c \in Holders(t) : Replace(c, Without(trades[c], t), "SWEEP_CANCELLATION")
        BY <1>6 DEF Cancel
    <2>2. c \in Cluster
        BY DEF Holders, Live, TypeOK
    <2>3. Without(trades[c], t) \in SUBSET Event
        BY <2>2 DEF Without, TypeOK
    <2>4. QED
        BY <2>1, <2>2, <2>3, ReplaceTyped DEF Transition
<1>7. ASSUME NEW t \in Trade, Uncorrelated(t)
      PROVE  TypeOK'
    <2>1. order' \in Nat /\ emitted' \subseteq Audits
        BY <1>7, EmitTyped, FS_EmptySet DEF Uncorrelated
    <2>2. QED
        BY <1>7, <2>1 DEF Uncorrelated, TypeOK
<1>8. ASSUME NEW now \in Time, Tick(now)
      PROVE  TypeOK'
    <2> DEFINE L == TickList(now)
    <2>1. \A l \in L : l \in {"active", "closed"} \X Cluster
        BY DEF TickList, TypeOK
    <2>2. IsFiniteSet(L)
        BY TickListFinite
    <2>3. PICK rank \in Bijection(L, 1 .. Cardinality(L)) :
              Emit({Audit(l[2], "SWEEP_FRESHNESS_EXPIRED", order + rank[l]) : l \in L})
        BY <1>8 DEF Tick
    <2> DEFINE A == {Audit(l[2], "SWEEP_FRESHNESS_EXPIRED", order + rank[l]) : l \in L}
               cl == [l \in L |-> l[2]]
    <2>4. cl \in [L -> Cluster]
        BY <2>1
    <2>5. A = {Audit(cl[l], "SWEEP_FRESHNESS_EXPIRED", order + rank[l]) : l \in L}
        <3> HIDE DEF L
        <3>1. \A l \in L : cl[l] = l[2]
            OBVIOUS
        <3> HIDE DEF cl
        <3>2. QED
            BY <3>1
    <2>6. IsFiniteSet(A) /\ A \subseteq Audits
        <3>1. order \in Nat /\ "SWEEP_FRESHNESS_EXPIRED" \in Transition
            BY DEF TypeOK, Transition
        <3> HIDE DEF L, cl, A
        <3>2. QED
            BY <2>2, <2>3, <2>4, <2>5, <3>1, RankedAudits
    <2>7. order' \in Nat /\ emitted' \subseteq Audits
        <3>1. Emit(A)
            BY <2>3
        <3> HIDE DEF A
        <3>2. QED
            BY <2>6, <3>1, EmitTyped
    <2>8. {ClusterOf(l) : l \in TickList(now)} \subseteq Cluster
        BY <2>1 DEF ClusterOf
    <2>9. QED
        BY <1>8, <2>7, <2>8 DEF Tick, TypeOK
<1>9. ASSUME CloseSession
      PROVE  TypeOK'
    <2>1. PICK rank \in Bijection(active, 1 .. Cardinality(active)) :
              Emit({Audit(c, "CLUSTER_CLOSED", order + rank[c]) : c \in active})
        BY <1>9 DEF CloseSession
    <2> DEFINE A == {Audit(c, "CLUSTER_CLOSED", order + rank[c]) : c \in active}
               cl == [c \in active |-> c]
    <2>2. cl \in [active -> Cluster] /\ IsFiniteSet(active)
        BY <1>1 DEF TypeOK
    <2>3. A = {Audit(cl[c], "CLUSTER_CLOSED", order + rank[c]) : c \in active}
        OBVIOUS
    <2>4. IsFiniteSet(A) /\ A \subseteq Audits
        <3>1. order \in Nat /\ "CLUSTER_CLOSED" \in Transition
            BY DEF TypeOK, Transition
        <3> HIDE DEF cl, A
        <3>2. QED
            BY <2>1, <2>2, <2>3, <3>1, RankedAudits
    <2>5. order' \in Nat /\ emitted' \subseteq Audits
        <3>1. Emit(A)
            BY <2>1
        <3> HIDE DEF A
        <3>2. QED
            BY <2>4, <3>1, EmitTyped
    <2>6. QED
        BY <1>9, <2>5 DEF CloseSession, TypeOK
<1>10. ASSUME ResetSession
       PROVE  TypeOK'
    <2>1. order' \in Nat /\ emitted' \subseteq Audits
        BY <1>10, EmitTyped, FS_EmptySet DEF ResetSession
    <2>2. QED
        BY <1>10, <2>1 DEF ResetSession, TypeOK
<1>11. CASE UNCHANGED vars
    BY <1>11 DEF vars, TypeOK
<1>12. QED
    BY <1>2, <1>3, <1>4, <1>5, <1>6, <1>7, <1>8, <1>9, <1>10, <1>11 DEF Next

(* A new engine has the types.                                             *)
LEMMA TypeInit == Init => TypeOK
BY DEF Init, TypeOK

(* The engine's state keeps its types: ids in `active`, `closed`, the      *)
(* flags and the totals are clusters, orders are numbers.                  *)
THEOREM SweepTypeCorrect == Spec => []TypeOK
<1>1. TypeOK /\ [Next]_vars => TypeOK'
    BY TypeStep
<1>2. QED
    BY TypeInit, <1>1, PTL DEF Spec
-----------------------------------------------------------------------------
(* The inductive invariant SweepInv.                                       *)

(* The live clusters are clusters.                                         *)
LEMMA LiveTyped == TypeOK => Live \subseteq Cluster
BY DEF TypeOK, Live

(* What recompute leaves in the clusters and the session entries.          *)
LEMMA ContentsAfter ==
    ASSUME TypeOK, NEW c \in Cluster, NEW S, Recompute(c, S)
    PROVE  \A d \in Cluster : trades'[d] = IF d = c THEN S ELSE trades[d]
BY DEF TypeOK, Recompute

(* A recomputed cluster has exactly the flag and the entry of its trades.  *)
LEMMA RecomputeTotals ==
    ASSUME TypeOK, SessionTotalsExact, NEW c \in Cluster, NEW S,
           Recompute(c, S), Live' = Live \cup {c}
    PROVE  SessionTotalsExact'
<1>1. \A d \in Cluster : trades'[d] = IF d = c THEN S ELSE trades[d]
    BY ContentsAfter
<1>2. qualifying' = {d \in Live' : Qualifies(trades'[d])}
    <2>1. qualifying = {d \in Live : Qualifies(trades[d])}
        BY DEF SessionTotalsExact
    <2>2. qualifying' = IF Qualifies(S) THEN qualifying \cup {c} ELSE qualifying \ {c}
        BY DEF Recompute
    <2>3. QED
        BY <1>1, <2>1, <2>2, LiveTyped
<1> DEFINE Entry(d) == [cluster |-> d, premium |-> Premium(trades[d])]
           NewEntry(d) == [cluster |-> d, premium |-> Premium(trades'[d])]
<1>3. session_qualifying = {Entry(d) : d \in qualifying}
    BY DEF SessionTotalsExact
<1>4. OtherEntries(c, S) = {NewEntry(d) : d \in qualifying \ {c}}
    <2>1. \A d \in qualifying \ {c} : NewEntry(d) = Entry(d)
        BY <1>1 DEF TypeOK
    <2>2. OtherEntries(c, S) = {Entry(d) : d \in qualifying \ {c}}
        BY <1>3 DEF OtherEntries
    <2>3. QED
        BY <2>1, <2>2
<1>5. SessionEntry(c, S) = {NewEntry(d) : d \in qualifying' \cap {c}}
    BY <1>1 DEF SessionEntry, Recompute
<1>6. session_qualifying' = {NewEntry(d) : d \in qualifying'}
    <2>1. qualifying' = (qualifying \ {c}) \cup (qualifying' \cap {c})
        BY DEF Recompute
    <2>2. session_qualifying' = OtherEntries(c, S) \cup SessionEntry(c, S)
        BY DEF Recompute
    <2>3. QED
        BY <1>4, <1>5, <2>1, <2>2
<1>7. QED
    BY <1>2, <1>6 DEF SessionTotalsExact

(* When cluster c comes to hold S, each with an id no other cluster holds  *)
(* and in c's window unless corrected, the content invariants persist.     *)
LEMMA ContentsInv ==
    ASSUME SweepInv, NEW c \in Cluster, NEW S, Recompute(c, S),
           Live' = Live \cup {c}, seen \subseteq seen', Ids(S) \subseteq seen',
           \A d \in Live \ {c} : Ids(S) \cap Constituents(d) = {},
           \A e, f \in S : e.id = f.id => e = f,
           \A e \in S : ~e.corrected => InWindow(c, e.at) /\ RegularSession(e.at)
    PROVE  SessionTotalsExact' /\ OneClusterPerTrade' /\ UncorrectedInWindow' /\ HeldAreSeen'
<1>1. \A d \in Cluster : trades'[d] = IF d = c THEN S ELSE trades[d]
    BY ContentsAfter DEF SweepInv
<1>2. Live' \subseteq Cluster
    BY LiveTyped DEF SweepInv
<1>3. SessionTotalsExact'
    BY RecomputeTotals DEF SweepInv
<1>4. \A d \in Cluster : Constituents(d)' = IF d = c THEN Ids(S) ELSE Constituents(d)
    BY <1>1 DEF Constituents
<1>5. OneClusterPerTrade'
    <2>1. ASSUME NEW x \in Live', NEW y \in Live', x # y
          PROVE  Constituents(x)' \cap Constituents(y)' = {}
        <3>1. CASE x = c
            BY <1>2, <1>4, <2>1, <3>1
        <3>2. CASE y = c
            BY <1>2, <1>4, <2>1, <3>2
        <3>3. CASE x # c /\ y # c
            BY <1>2, <1>4, <2>1, <3>3 DEF SweepInv, OneClusterPerTrade
        <3>4. QED
            BY <3>1, <3>2, <3>3
    <2>2. ASSUME NEW x \in Live', NEW e \in trades'[x], NEW f \in trades'[x], e.id = f.id
          PROVE  e = f
        BY <1>1, <1>2, <2>2 DEF SweepInv, OneClusterPerTrade
    <2>3. QED
        BY <2>1, <2>2 DEF OneClusterPerTrade
<1>6. UncorrectedInWindow'
    BY <1>1, <1>2 DEF SweepInv, UncorrectedInWindow, InWindow, OpenAt, CloseAt, RegularSession
<1>7. HeldAreSeen'
    BY <1>4 DEF SweepInv, HeldAreSeen
<1>8. QED
    BY <1>3, <1>5, <1>6, <1>7

(* A correction or cancellation leaves a cluster with at most its own      *)
(* trades, so it disturbs no other cluster.                                *)
LEMMA ReplaceInv ==
    ASSUME SweepInv, NEW c \in Live, NEW S \in SUBSET Event, NEW name \in Transition,
           Replace(c, S, name), Ids(S) \subseteq Constituents(c),
           \A e, f \in S : e.id = f.id => e = f,
           \A e \in S : e.corrected \/ e \in trades[c]
    PROVE  SweepInv'
<1>1. c \in Cluster
    BY LiveTyped DEF SweepInv
<1>2. /\ Recompute(c, S)
      /\ UNCHANGED <<active, closed, seen>>
    BY DEF Replace
<1>3. Live' = Live /\ Live' = Live \cup {c}
    BY <1>2 DEF Live
<1>4. \A d \in Live \ {c} : Ids(S) \cap Constituents(d) = {}
    BY DEF SweepInv, OneClusterPerTrade
<1>5. Ids(S) \subseteq seen'
    BY <1>1, <1>2 DEF SweepInv, HeldAreSeen
<1>6. \A e \in S : ~e.corrected => InWindow(c, e.at) /\ RegularSession(e.at)
    BY DEF SweepInv, UncorrectedInWindow
<1>7. SessionTotalsExact' /\ OneClusterPerTrade' /\ UncorrectedInWindow' /\ HeldAreSeen'
    BY <1>1, <1>2, <1>3, <1>4, <1>5, <1>6, ContentsInv
<1>8. TypeOK'
    BY <1>1, ReplaceTyped DEF SweepInv
<1>9. WindowsRollForward' /\ ContractsActive'
    BY <1>2, <1>3 DEF SweepInv, WindowsRollForward, ContractsActive, Live,
       OpenAt, CloseAt, KeyOf
<1>10. QED
    BY <1>7, <1>8, <1>9 DEF SweepInv

(* A trade handed over for the first time is in no cluster, so it may join *)
(* one, beside the trades already there.                                   *)
LEMMA FirstSeenInv ==
    ASSUME SweepInv, NEW t \in Trade, FirstSeen(t), NEW at \in Time, NEW p \in Payload,
           NEW c \in Cluster, NEW T, T \subseteq trades[c], c \in Live \/ T = {},
           InWindow(c, at), RegularSession(at),
           Recompute(c, T \cup {NewEvent(t, at, p)}), Live' = Live \cup {c}
    PROVE  SessionTotalsExact' /\ OneClusterPerTrade' /\ UncorrectedInWindow' /\ HeldAreSeen'
<1> DEFINE e1 == NewEvent(t, at, p)
           S == T \cup {e1}
<1>1. e1.id = t /\ e1.at = at
    BY DEF NewEvent
<1> HIDE DEF e1
<1>2. t \notin seen /\ seen' = seen \cup {t}
    BY DEF FirstSeen
<1>3. \A d \in Cluster : t \notin Constituents(d)
    BY <1>2 DEF SweepInv, HeldAreSeen
<1>4. \A e \in T : e.id # t /\ e.id \in seen
    BY <1>3 DEF Constituents, Ids, SweepInv, HeldAreSeen
<1>5. Ids(S) \subseteq seen'
    BY <1>1, <1>2, <1>4 DEF Ids
<1>6. \A d \in Live \ {c} : Ids(S) \cap Constituents(d) = {}
    <2>1. ASSUME NEW d \in Live \ {c}, NEW e \in T
          PROVE  e.id \notin Constituents(d)
        <3>1. c \in Live /\ e.id \in Constituents(c)
            BY <2>1 DEF Constituents, Ids
        <3>2. QED
            BY <2>1, <3>1 DEF SweepInv, OneClusterPerTrade
    <2>2. \A d \in Live \ {c} : t \notin Constituents(d)
        BY <1>3, LiveTyped DEF SweepInv
    <2>3. QED
        BY <1>1, <2>1, <2>2 DEF Ids
<1>7. \A e, f \in S : e.id = f.id => e = f
    <2>1. \A e, f \in T : e.id = f.id => e = f
        BY DEF SweepInv, OneClusterPerTrade
    <2>2. QED
        BY <1>1, <1>4, <2>1
<1>8. \A e \in S : ~e.corrected => InWindow(c, e.at) /\ RegularSession(e.at)
    <2>1. \A e \in T : ~e.corrected => InWindow(c, e.at) /\ RegularSession(e.at)
        BY DEF SweepInv, UncorrectedInWindow
    <2>2. QED
        BY <1>1, <2>1
<1>9. Recompute(c, S)
    BY DEF e1
<1> HIDE DEF S
<1>10. QED
    BY <1>2, <1>5, <1>6, <1>7, <1>8, <1>9, ContentsInv

(* The id of a cluster opened past the window of its contract is new.      *)
LEMMA NewClusterFresh ==
    ASSUME SweepInv, NEW k \in Key, NEW at \in Time, PastWindow(k, at)
    PROVE  \A d \in Live : KeyOf(d) = k => CloseAt(d) < at /\ d # <<k, at>>
<1>1. SUFFICES ASSUME NEW d \in Live, KeyOf(d) = k
               PROVE  CloseAt(d) < at
    <2>1. \A d \in Live : CloseAt(d) < at => d # <<k, at>>
        BY LiveTyped, TimesAreNat DEF SweepInv, CloseAt, OpenAt
    <2>2. QED
        BY <1>1, <2>1
<1>2. PICK c \in active : KeyOf(c) = k
    BY <1>1 DEF SweepInv, ContractsActive
<1>3. CloseAt(c) < at
    <2>1. c \in Cluster /\ c \in ActiveOf(k)
        BY <1>2 DEF SweepInv, TypeOK, ActiveOf
    <2>2. QED
        BY <2>1, TimesAreNat DEF PastWindow
<1>4. CASE d = c
    BY <1>3, <1>4
<1>5. CASE d # c
    <2>1. CloseAt(d) < OpenAt(c)
        BY <1>1, <1>2, <1>5 DEF SweepInv, WindowsRollForward
    <2>2. c \in Cluster /\ d \in Cluster
        BY <1>1, <1>2, LiveTyped DEF SweepInv, TypeOK
    <2>3. QED
        BY <1>3, <2>1, <2>2, TimesAreNat DEF CloseAt, OpenAt
<1>6. QED
    BY <1>4, <1>5

(* Without(S, t) drops the trade t and keeps every other event.            *)
LEMMA WithoutKeeps ==
    ASSUME NEW S, NEW t
    PROVE  Without(S, t) \subseteq S /\ t \notin Ids(Without(S, t))
BY DEF Without, Ids

(* The shape invariants depend on `active` and `closed` only.              *)
LEMMA QuietInv ==
    ASSUME SweepInv, TypeOK', UNCHANGED <<active, trades, qualifying, session_qualifying>>,
           closed \subseteq closed', closed' \subseteq Live, seen \subseteq seen'
    PROVE  SweepInv'
<1>1. Live' = Live /\ UNCHANGED <<active, trades, qualifying, session_qualifying>>
    BY DEF Live
<1>2. SessionTotalsExact'
    BY <1>1 DEF SweepInv, SessionTotalsExact
<1>3. OneClusterPerTrade' /\ UncorrectedInWindow' /\ HeldAreSeen'
    BY <1>1 DEF SweepInv, OneClusterPerTrade, UncorrectedInWindow, HeldAreSeen,
       Constituents, InWindow, OpenAt, CloseAt, RegularSession
<1>4. WindowsRollForward' /\ ContractsActive'
    BY <1>1 DEF SweepInv, WindowsRollForward, ContractsActive, OpenAt, CloseAt, KeyOf
<1>5. QED
    BY <1>2, <1>3, <1>4 DEF SweepInv

(* A new engine satisfies the invariant.                                   *)
LEMMA SweepInit == Init => SweepInv
<1> SUFFICES ASSUME Init PROVE SweepInv
    OBVIOUS
<1>1. TypeOK
    BY TypeInit
<1>2. Live = {} /\ \A c \in Cluster : trades[c] = {}
    BY DEF Init, Live
<1>3. SessionTotalsExact
    BY <1>2 DEF Init, SessionTotalsExact
<1>4. HeldAreSeen
    BY <1>2 DEF HeldAreSeen, Constituents, Ids
<1>5. QED
    BY <1>1, <1>2, <1>3, <1>4 DEF Init, SweepInv, OneClusterPerTrade, WindowsRollForward,
       UncorrectedInWindow, ContractsActive

(* A trade that joins the active cluster preserves the invariant.          *)
LEMMA JoinStep ==
    ASSUME SweepInv, TypeOK', NEW t \in Trade, NEW k \in Key, NEW at \in Time,
           NEW p \in Payload, JoinCluster(t, k, at, p)
    PROVE  SweepInv'
<1>1. PICK c \in Joinable(k, at) :
          /\ RegularSession(at) /\ FirstSeen(t)
          /\ Recompute(c, Without(trades[c], t) \cup {NewEvent(t, at, p)})
          /\ UNCHANGED <<active, closed, expired>>
    BY DEF JoinCluster
<1>2. c \in Live /\ c \in Cluster /\ InWindow(c, at)
    BY LiveTyped DEF Joinable, ActiveOf, Live, SweepInv
<1>3. Live' = Live \cup {c} /\ Live' = Live
    BY <1>1, <1>2 DEF Live
<1>4. SessionTotalsExact' /\ OneClusterPerTrade' /\ UncorrectedInWindow' /\ HeldAreSeen'
    BY <1>1, <1>2, <1>3, WithoutKeeps, FirstSeenInv
<1>5. WindowsRollForward' /\ ContractsActive'
    BY <1>1, <1>3 DEF SweepInv, WindowsRollForward, ContractsActive, OpenAt, CloseAt, KeyOf
<1>6. QED
    BY <1>4, <1>5 DEF SweepInv

(* A trade that opens a cluster preserves the invariant.                   *)
LEMMA OpenStep ==
    ASSUME SweepInv, TypeOK', NEW t \in Trade, NEW k \in Key, NEW at \in Time,
           NEW p \in Payload, OpenCluster(t, k, at, p)
    PROVE  SweepInv'
<1> DEFINE new == <<k, at>>
<1>1. /\ RegularSession(at) /\ PastWindow(k, at) /\ FirstSeen(t)
      /\ active' = (active \ ActiveOf(k)) \cup {new}
      /\ closed' = closed \cup ActiveOf(k)
      /\ Recompute(new, {NewEvent(t, at, p)})
    BY DEF OpenCluster
<1>2. new \in Cluster /\ KeyOf(new) = k /\ OpenAt(new) = at /\ InWindow(new, at)
    BY TimesAreNat DEF Cluster, KeyOf, OpenAt, CloseAt, InWindow
<1>3. Live' = Live \cup {new}
    BY <1>1 DEF Live, ActiveOf
<1>4. \A d \in Live : KeyOf(d) = k => CloseAt(d) < at /\ d # new
    BY <1>1, NewClusterFresh
<1> HIDE DEF new
<1>5. SessionTotalsExact' /\ OneClusterPerTrade' /\ UncorrectedInWindow' /\ HeldAreSeen'
    <2> DEFINE T == {}
    <2>1. T = {} /\ T \subseteq trades[new]
        OBVIOUS
    <2>2. T \cup {NewEvent(t, at, p)} = {NewEvent(t, at, p)}
        OBVIOUS
    <2> HIDE DEF T
    <2>3. Recompute(new, T \cup {NewEvent(t, at, p)})
        BY <1>1, <2>2
    <2>4. QED
        BY <1>1, <1>2, <1>3, <2>1, <2>3, FirstSeenInv
<1>6. \A d \in Live : KeyOf(d) = k => d \in closed'
    BY <1>1 DEF SweepInv, WindowsRollForward, ContractsActive, ActiveOf, Live
<1>7. \A d \in active' : d = new \/ (d \in active /\ KeyOf(d) # k)
    BY <1>1 DEF ActiveOf
<1>8. WindowsRollForward'
    <2>1. \A c, d \in active' : KeyOf(c) = KeyOf(d) => c = d
        BY <1>2, <1>7 DEF SweepInv, WindowsRollForward
    <2>2. ASSUME NEW c \in active', NEW d \in Live', KeyOf(c) = KeyOf(d), c # d
          PROVE  d \in closed' /\ CloseAt(d) < OpenAt(c)
        <3>1. CASE c = new
            BY <1>2, <1>3, <1>4, <1>6, <2>2, <3>1
        <3>2. CASE c # new
            BY <1>1, <1>2, <1>3, <1>7, <2>2, <3>2 DEF SweepInv, WindowsRollForward
        <3>3. QED
            BY <3>1, <3>2
    <2>3. ASSUME NEW c \in Live', NEW d \in Live', KeyOf(c) = KeyOf(d), c # d
          PROVE  CloseAt(c) < OpenAt(d) \/ CloseAt(d) < OpenAt(c)
        <3>1. CASE c = new \/ d = new
            BY <1>2, <1>3, <1>4, <2>3, <3>1
        <3>2. CASE c # new /\ d # new
            BY <1>3, <2>3, <3>2 DEF SweepInv, WindowsRollForward
        <3>3. QED
            BY <3>1, <3>2
    <2>4. QED
        BY <2>1, <2>2, <2>3 DEF WindowsRollForward
<1>9. ContractsActive'
    <2>1. ASSUME NEW d \in Live'
          PROVE  \E c \in active' : KeyOf(c) = KeyOf(d)
        <3>1. CASE KeyOf(d) = k
            BY <1>1, <1>2, <3>1
        <3>2. CASE KeyOf(d) # k
            BY <1>1, <1>2, <1>3, <3>2 DEF SweepInv, ContractsActive, ActiveOf
        <3>3. QED
            BY <3>1, <3>2
    <2>2. QED
        BY <2>1 DEF ContractsActive
<1>10. QED
    BY <1>5, <1>8, <1>9 DEF SweepInv

(* A correction preserves the invariant.                                   *)
LEMMA CorrectStep ==
    ASSUME SweepInv, NEW t \in Trade, NEW at \in Time, NEW p \in Payload, Correct(t, at, p)
    PROVE  SweepInv'
<1> DEFINE new == [id |-> t, at |-> at, payload |-> p, corrected |-> TRUE]
<1>1. PICK c \in Holders(t) :
          Replace(c, CorrectionBase(trades[c], t) \cup {new}, "SWEEP_CORRECTION")
    BY DEF Correct
<1>2. c \in Live /\ c \in Cluster /\ t \in Constituents(c)
    BY LiveTyped DEF Holders, SweepInv
<1>3. new \in Event /\ new.id = t /\ new.corrected
    BY DEF Event
<1> HIDE DEF new
<1> DEFINE T == CorrectionBase(trades[c], t)
           S == T \cup {new}
<1>4. T \subseteq trades[c] /\ \A e \in T : e.id # t
    BY WithoutKeeps DEF CorrectionBase, Without
<1>5. S \in SUBSET Event
    BY <1>2, <1>3, <1>4 DEF SweepInv, TypeOK
<1>6. Ids(S) \subseteq Constituents(c)
    BY <1>2, <1>3, <1>4 DEF Ids, Constituents
<1>7. \A e, f \in S : e.id = f.id => e = f
    BY <1>2, <1>3, <1>4 DEF SweepInv, OneClusterPerTrade
<1>8. \A e \in S : e.corrected \/ e \in trades[c]
    BY <1>3, <1>4
<1>9. "SWEEP_CORRECTION" \in Transition /\ Replace(c, S, "SWEEP_CORRECTION")
    BY <1>1 DEF Transition
<1> HIDE DEF S
<1>10. QED
    BY <1>2, <1>5, <1>6, <1>7, <1>8, <1>9, ReplaceInv

(* A cancellation preserves the invariant.                                 *)
LEMMA CancelStep ==
    ASSUME SweepInv, NEW t \in Trade, Cancel(t)
    PROVE  SweepInv'
<1>1. PICK c \in Holders(t) : Replace(c, Without(trades[c], t), "SWEEP_CANCELLATION")
    BY DEF Cancel
<1> DEFINE S == Without(trades[c], t)
<1>2. c \in Live /\ c \in Cluster
    BY LiveTyped DEF Holders, SweepInv
<1>3. S \subseteq trades[c]
    BY WithoutKeeps
<1>4. S \in SUBSET Event
    BY <1>2, <1>3 DEF SweepInv, TypeOK
<1>5. Ids(S) \subseteq Constituents(c)
    BY <1>3 DEF Ids, Constituents
<1>6. \A e, f \in S : e.id = f.id => e = f
    BY <1>2, <1>3 DEF SweepInv, OneClusterPerTrade
<1>7. "SWEEP_CANCELLATION" \in Transition /\ Replace(c, S, "SWEEP_CANCELLATION")
    BY <1>1 DEF Transition
<1> HIDE DEF S
<1>8. QED
    BY <1>2, <1>3, <1>4, <1>5, <1>6, <1>7, ReplaceInv

(* Every step preserves the invariant.                                     *)
LEMMA SweepStep ==
    ASSUME SweepInv, [Next]_vars
    PROVE  SweepInv'
<1>1. TypeOK'
    BY TypeStep DEF SweepInv
<1>2. ASSUME NEW t \in Trade, NEW k \in Key, NEW at \in Time,
             NEW eligible \in BOOLEAN, Ignore(t, k, at, eligible)
      PROVE  SweepInv'
    BY <1>1, <1>2, QuietInv DEF Ignore, FirstSeen, Live
<1>3. ASSUME NEW t \in Trade, NEW k \in Key, NEW at \in Time, NEW p \in Payload,
             JoinCluster(t, k, at, p)
      PROVE  SweepInv'
    BY <1>1, <1>3, JoinStep
<1>4. ASSUME NEW t \in Trade, NEW k \in Key, NEW at \in Time, NEW p \in Payload,
             OpenCluster(t, k, at, p)
      PROVE  SweepInv'
    BY <1>1, <1>4, OpenStep
<1>5. ASSUME NEW t \in Trade, NEW at \in Time, NEW p \in Payload, Correct(t, at, p)
      PROVE  SweepInv'
    BY <1>5, CorrectStep
<1>6. ASSUME NEW t \in Trade, Cancel(t)
      PROVE  SweepInv'
    BY <1>6, CancelStep
<1>7. ASSUME NEW t \in Trade, Uncorrelated(t)
      PROVE  SweepInv'
    BY <1>1, <1>7, QuietInv DEF Uncorrelated, Live
<1>8. ASSUME NEW now \in Time, Tick(now)
      PROVE  SweepInv'
    BY <1>1, <1>8, QuietInv DEF Tick, Live
<1>9. ASSUME CloseSession
      PROVE  SweepInv'
    BY <1>1, <1>9, QuietInv DEF CloseSession, Live
<1>10. ASSUME ResetSession
       PROVE  SweepInv'
    <2>1. Live' = {} /\ qualifying' = {} /\ session_qualifying' = {} /\ active' = {}
        BY <1>10 DEF ResetSession, Live
    <2>2. SessionTotalsExact'
        BY <2>1 DEF SessionTotalsExact
    <2>3. HeldAreSeen'
        BY <1>10 DEF ResetSession, HeldAreSeen, Constituents, Ids
    <2>4. QED
        BY <1>1, <2>1, <2>2, <2>3 DEF SweepInv, OneClusterPerTrade, WindowsRollForward,
           UncorrectedInWindow, ContractsActive
<1>11. CASE UNCHANGED vars
    BY <1>1, <1>11, QuietInv DEF vars, Live
<1>12. QED
    BY <1>2, <1>3, <1>4, <1>5, <1>6, <1>7, <1>8, <1>9, <1>10, <1>11 DEF Next

(* SweepInv holds in every reachable state.                                *)
THEOREM SweepInvariant == Spec => []SweepInv
<1>1. SweepInv /\ [Next]_vars => SweepInv'
    BY SweepStep
<1>2. QED
    BY SweepInit, <1>1, PTL DEF Spec

(* The session totals and the clusters' flags are those of the surviving   *)
(* trades, whatever is corrected, cancelled or closed (sweeps.py:423-431). *)
THEOREM SweepTotals == Spec => []SessionTotalsExact
<1>1. SweepInv => SessionTotalsExact
    BY DEF SweepInv
<1>2. QED
    BY <1>1, SweepInvariant, PTL

(* No trade is counted in two clusters, or twice in one.                   *)
THEOREM SweepTradesOnce == Spec => []OneClusterPerTrade
<1>1. SweepInv => OneClusterPerTrade
    BY DEF SweepInv
<1>2. QED
    BY <1>1, SweepInvariant, PTL

(* A contract's windows are disjoint, and only the last of them is open.   *)
THEOREM SweepWindows == Spec => []WindowsRollForward
<1>1. SweepInv => WindowsRollForward
    BY DEF SweepInv
<1>2. QED
    BY <1>1, SweepInvariant, PTL

(* Constituents that were not corrected are in the window and the session. *)
THEOREM SweepUncorrected == Spec => []UncorrectedInWindow
<1>1. SweepInv => UncorrectedInWindow
    BY DEF SweepInv
<1>2. QED
    BY <1>1, SweepInvariant, PTL
-----------------------------------------------------------------------------
(* Action properties.                                                      *)

(* A correction or a cancellation adds no trade to any cluster.            *)
LEMMA CorrectShrinks ==
    ASSUME TypeOK, NEW t \in Trade,
           \/ Cancel(t)
           \/ \E at \in Time, p \in Payload : Correct(t, at, p)
    PROVE  /\ UNCHANGED <<active, closed>>
           /\ \A d \in Cluster : Constituents(d)' \subseteq Constituents(d)
<1>1. PICK c, S, name :
          c \in Live /\ Replace(c, S, name) /\ Ids(S) \subseteq Constituents(c)
    <2>1. CASE Cancel(t)
        <3>1. PICK c \in Holders(t) : Replace(c, Without(trades[c], t), "SWEEP_CANCELLATION")
            BY <2>1 DEF Cancel
        <3>2. Ids(Without(trades[c], t)) \subseteq Constituents(c)
            BY WithoutKeeps DEF Ids, Constituents
        <3>3. QED
            BY <3>1, <3>2 DEF Holders
    <2>2. CASE \E at \in Time, p \in Payload : Correct(t, at, p)
        <3>1. PICK at \in Time, p \in Payload : Correct(t, at, p)
            BY <2>2
        <3> DEFINE new == [id |-> t, at |-> at, payload |-> p, corrected |-> TRUE]
        <3>2. PICK c \in Holders(t) :
                  Replace(c, CorrectionBase(trades[c], t) \cup {new}, "SWEEP_CORRECTION")
            BY <3>1 DEF Correct
        <3>3. new.id = t
            OBVIOUS
        <3> HIDE DEF new
        <3>4. Ids(CorrectionBase(trades[c], t) \cup {new}) \subseteq Constituents(c)
            BY <3>2, <3>3 DEF Ids, Constituents, CorrectionBase, Without, Holders
        <3>5. QED
            BY <3>2, <3>4 DEF Holders
    <2>3. QED
        BY <2>1, <2>2
<1>2. c \in Cluster /\ Recompute(c, S) /\ UNCHANGED <<active, closed>>
    BY <1>1, LiveTyped DEF Replace
<1>3. \A d \in Cluster : trades'[d] = IF d = c THEN S ELSE trades[d]
    BY <1>2, ContentsAfter
<1>4. QED
    BY <1>1, <1>2, <1>3 DEF Constituents

(* A trade that joins or opens a cluster is new, and changes no other one. *)
LEMMA TradeAdds ==
    ASSUME SweepInv, NEW t \in Trade, NEW k \in Key, NEW at \in Time, NEW p \in Payload,
           JoinCluster(t, k, at, p) \/ OpenCluster(t, k, at, p)
    PROVE  /\ t \notin seen
           /\ \E c \in active' :
                /\ c \in Live => c \in active
                /\ Live' = Live \cup {c}
                /\ Constituents(c)' \subseteq {t} \cup (IF c \in Live THEN Constituents(c) ELSE {})
                /\ \A d \in Cluster \ {c} : Constituents(d)' = Constituents(d)
<1>1. CASE JoinCluster(t, k, at, p)
    <2>1. PICK c \in Joinable(k, at) :
              /\ FirstSeen(t)
              /\ Recompute(c, Without(trades[c], t) \cup {NewEvent(t, at, p)})
              /\ UNCHANGED <<active, closed, expired>>
        BY <1>1 DEF JoinCluster
    <2>2. c \in active' /\ c \in Live /\ c \in Cluster /\ c \in active /\ Live' = Live \cup {c}
        BY <2>1, LiveTyped DEF Joinable, ActiveOf, Live, SweepInv
    <2> DEFINE S == Without(trades[c], t) \cup {NewEvent(t, at, p)}
    <2>3. \A d \in Cluster : trades'[d] = IF d = c THEN S ELSE trades[d]
        BY <2>1, <2>2, ContentsAfter DEF SweepInv
    <2>4. Ids(S) \subseteq {t} \cup Constituents(c)
        BY DEF Ids, Constituents, Without, NewEvent
    <2> HIDE DEF S
    <2>5. QED
        BY <2>1, <2>2, <2>3, <2>4 DEF Constituents, FirstSeen
<1>2. CASE OpenCluster(t, k, at, p)
    <2> DEFINE new == <<k, at>>
               S == {NewEvent(t, at, p)}
    <2>1. /\ FirstSeen(t) /\ PastWindow(k, at) /\ Recompute(new, S)
          /\ active' = (active \ ActiveOf(k)) \cup {new}
          /\ closed' = closed \cup ActiveOf(k)
        BY <1>2 DEF OpenCluster
    <2>2. new \in Cluster /\ KeyOf(new) = k /\ Ids(S) = {t}
        BY DEF Cluster, KeyOf, Ids, NewEvent
    <2>3. new \notin Live
        BY <2>1, <2>2, NewClusterFresh
    <2> HIDE DEF new, S
    <2>4. new \in active' /\ Live' = Live \cup {new}
        BY <2>1 DEF Live, ActiveOf
    <2>5. \A d \in Cluster : trades'[d] = IF d = new THEN S ELSE trades[d]
        BY <2>1, <2>2, ContentsAfter DEF SweepInv
    <2>6. QED
        BY <2>1, <2>2, <2>3, <2>4, <2>5 DEF Constituents, FirstSeen
<1>3. QED
    BY <1>1, <1>2

(* The cases of a step: a trade is added, one is replaced or dropped, all  *)
(* is dropped, or no cluster's contents change.                            *)
LEMMA StepCases ==
    ASSUME SweepInv, [Next]_vars
    PROVE  \/ \E t \in Trade, k \in Key, at \in Time, p \in Payload :
                 JoinCluster(t, k, at, p) \/ OpenCluster(t, k, at, p)
           \/ \E t \in Trade : \/ Cancel(t)
                               \/ \E at \in Time, p \in Payload : Correct(t, at, p)
           \/ Live' = {} /\ \A c \in Cluster : Constituents(c)' = {}
           \/ Live' = Live /\ UNCHANGED trades
<1>1. ResetSession => Live' = {} /\ \A c \in Cluster : Constituents(c)' = {}
    BY DEF ResetSession, Live, Constituents, Ids
<1>2. ASSUME NEW t, NEW k, NEW at, NEW eligible, Ignore(t, k, at, eligible)
      PROVE  Live' = Live /\ UNCHANGED trades
    BY <1>2 DEF Ignore, Live
<1>3. ASSUME NEW t, Uncorrelated(t)
      PROVE  Live' = Live /\ UNCHANGED trades
    BY <1>3 DEF Uncorrelated, Live
<1>4. ASSUME NEW now, Tick(now)
      PROVE  Live' = Live /\ UNCHANGED trades
    BY <1>4 DEF Tick, Live
<1>5. CloseSession => Live' = Live /\ UNCHANGED trades
    BY DEF CloseSession, Live
<1>6. UNCHANGED vars => Live' = Live /\ UNCHANGED trades
    BY DEF vars, Live
<1>7. QED
    BY <1>1, <1>2, <1>3, <1>4, <1>5, <1>6 DEF Next

(* A trade that left the engine's clusters, or never entered them, stays   *)
(* out: corrections reach only trades held now, trades are handed over     *)
(* once (sweeps.py:373-421, pipeline.py:156-160).                          *)
THEOREM SweepNoResurrection == Spec => NoResurrection
<1>1. ASSUME SweepInv, [Next]_vars, NEW t \in seen, \A c \in Live : t \notin Constituents(c)
      PROVE  \A c \in Live' : t \notin Constituents(c)'
    <2>1. Live \subseteq Cluster
        BY <1>1, LiveTyped DEF SweepInv
    <2>2. CASE \E u \in Trade, k \in Key, at \in Time, p \in Payload :
                 JoinCluster(u, k, at, p) \/ OpenCluster(u, k, at, p)
        <3>1. PICK u \in Trade, k \in Key, at \in Time, p \in Payload :
                  JoinCluster(u, k, at, p) \/ OpenCluster(u, k, at, p)
            BY <2>2
        <3>2. u # t
            BY <1>1, <3>1, TradeAdds
        <3>3. QED
            BY <1>1, <2>1, <3>1, <3>2, TradeAdds
    <2>3. CASE \E u \in Trade : \/ Cancel(u)
                                \/ \E at \in Time, p \in Payload : Correct(u, at, p)
        BY <1>1, <2>1, <2>3, CorrectShrinks DEF SweepInv, Live
    <2>4. CASE Live' = {} /\ \A c \in Cluster : Constituents(c)' = {}
        BY <2>4
    <2>5. CASE Live' = Live /\ UNCHANGED trades
        BY <1>1, <2>5 DEF Constituents
    <2>6. QED
        BY <1>1, <2>2, <2>3, <2>4, <2>5, StepCases
<1>2. SweepInv /\ [Next]_vars =>
          [\A t \in seen : (\A c \in Live : t \notin Constituents(c)) =>
                           (\A c \in Live' : t \notin Constituents(c)')]_vars
    BY <1>1
<1>3. QED
    BY <1>2, SweepInvariant, PTL DEF Spec, NoResurrection

(* A final cluster that is no longer its contract's active one takes no    *)
(* new trade (sweeps.py:291-314).                                          *)
THEOREM SweepRetired == Spec => RetiredNeverGrows
<1>1. ASSUME SweepInv, [Next]_vars, NEW c \in closed \ active
      PROVE  Constituents(c)' \subseteq Constituents(c)
    <2>1. c \in Cluster /\ c \in Live
        BY <1>1 DEF Live, SweepInv, TypeOK
    <2>2. CASE \E t \in Trade, k \in Key, at \in Time, p \in Payload :
                 JoinCluster(t, k, at, p) \/ OpenCluster(t, k, at, p)
        BY <1>1, <2>1, <2>2, TradeAdds
    <2>3. CASE \E t \in Trade : \/ Cancel(t)
                                \/ \E at \in Time, p \in Payload : Correct(t, at, p)
        BY <1>1, <2>1, <2>3, CorrectShrinks DEF SweepInv
    <2>4. CASE Live' = {} /\ \A d \in Cluster : Constituents(d)' = {}
        BY <2>1, <2>4
    <2>5. CASE Live' = Live /\ UNCHANGED trades
        BY <2>5 DEF Constituents
    <2>6. QED
        BY <1>1, <2>2, <2>3, <2>4, <2>5, StepCases
<1>2. SweepInv /\ [Next]_vars =>
          [\A c \in closed \ active : Constituents(c)' \subseteq Constituents(c)]_vars
    BY <1>1
<1>3. QED
    BY <1>2, SweepInvariant, PTL DEF Spec, RetiredNeverGrows
-----------------------------------------------------------------------------
(* The audit of a step: the numbering of its records, and those that tell  *)
(* of a flip.                                                              *)

Numbered(A) ==
    /\ IsFiniteSet(A)
    /\ {a.order : a \in A} = (order + 1) .. (order + Cardinality(A))

(* No audit, one, or two in a row continue the order.                      *)
LEMMA FewNumbered ==
    ASSUME order \in Nat
    PROVE  /\ Numbered({})
           /\ \A x : x.order = order + 1 => Numbered({x})
           /\ \A x, y : (x.order = order + 1 /\ y.order = order + 2) => Numbered({x, y})
<1>1. Numbered({})
    BY FS_EmptySet DEF Numbered
<1>2. ASSUME NEW x, x.order = order + 1 PROVE Numbered({x})
    <2>1. IsFiniteSet({x}) /\ Cardinality({x}) = 1
        BY FS_Singleton
    <2>2. QED
        BY <1>2, <2>1 DEF Numbered
<1>3. ASSUME NEW x, NEW y, x.order = order + 1, y.order = order + 2 PROVE Numbered({x, y})
    <2>1. x # y
        BY <1>3
    <2>2. IsFiniteSet({x}) /\ Cardinality({x}) = 1
        BY FS_Singleton
    <2>3. IsFiniteSet({x} \cup {y}) /\ Cardinality({x} \cup {y}) = 2
        BY <2>1, <2>2, FS_AddElement
    <2>4. {x, y} = {x} \cup {y}
        OBVIOUS
    <2>5. QED
        BY <1>3, <2>3, <2>4 DEF Numbered
<1>4. QED
    BY <1>1, <1>2, <1>3

(* Audits by rank continue the order.                                      *)
LEMMA RankedNumbered ==
    ASSUME order \in Nat, NEW S, IsFiniteSet(S), NEW rank \in Bijection(S, 1 .. Cardinality(S)),
           NEW cl \in [S -> Cluster], NEW name \in Transition,
           NEW A, A = {Audit(cl[x], name, order + rank[x]) : x \in S}
    PROVE  Numbered(A)
<1> DEFINE f == [x \in S |-> Audit(cl[x], name, order + rank[x])]
           n == Cardinality(S)
<1>1. n \in Nat
    BY FS_CardinalityType
<1>2. /\ \A x \in S : rank[x] \in 1 .. n
      /\ \A x, y \in S : rank[x] = rank[y] => x = y
      /\ \A i \in 1 .. n : \E x \in S : rank[x] = i
    BY DEF Bijection, Injection, IsInjective, Surjection
<1>3. \A x \in S : f[x].order = order + rank[x] /\ f[x] \in A
    BY DEF Audit
<1>4. \A a \in A : \E x \in S : a = f[x]
    OBVIOUS
<1> HIDE DEF f, n
<1>5. \A x, y \in S : f[x] = f[y] => x = y
    BY <1>1, <1>2, <1>3, SMTT(30)
<1>6. f \in Bijection(S, A)
    <2>1. f \in [S -> A]
        BY <1>3 DEF f
    <2>2. QED
        BY <2>1, <1>4, <1>5 DEF Bijection, Injection, IsInjective, Surjection
<1>7. IsFiniteSet(A) /\ Cardinality(A) = n
    BY <1>6, FS_Bijection DEF ExistsBijection, n
<1>8. \A a \in A : a.order \in (order + 1) .. (order + n)
    <2> SUFFICES ASSUME NEW a \in A PROVE a.order \in (order + 1) .. (order + n)
        OBVIOUS
    <2>1. PICK x \in S : a = f[x]
        BY <1>4
    <2>2. a.order = order + rank[x] /\ rank[x] \in 1 .. n
        BY <1>2, <1>3, <2>1
    <2>3. QED
        BY <1>1, <2>2
<1>9. \A o \in (order + 1) .. (order + n) : \E a \in A : a.order = o
    <2> SUFFICES ASSUME NEW o \in (order + 1) .. (order + n)
                 PROVE  \E a \in A : a.order = o
        OBVIOUS
    <2>1. o - order \in 1 .. n
        BY <1>1
    <2>2. PICK x \in S : rank[x] = o - order
        BY <1>2, <2>1
    <2>3. f[x].order = o /\ f[x] \in A
        BY <1>3, <2>2
    <2>4. QED
        BY <2>3
<1>10. QED
    BY <1>7, <1>8, <1>9 DEF Numbered

(* The flip of a recomputed cluster is no audit or one.                    *)
LEMMA FlipCases ==
    ASSUME NEW c, NEW S, NEW n
    PROVE  FlipAudit(c, S, n) = {} \/ \E name : FlipAudit(c, S, n) = {Audit(c, name, n)}
BY DEF FlipAudit

(* An active cluster that is finalised is the only one of its contract.    *)
LEMMA OldCases ==
    ASSUME SweepInv, NEW k
    PROVE  \/ ActiveOf(k) = {} /\ Cardinality(ActiveOf(k)) = 0
           \/ \E d \in active : ActiveOf(k) = {d} /\ Cardinality(ActiveOf(k)) = 1
<1>1. CASE ActiveOf(k) = {}
    BY <1>1, FS_EmptySet
<1>2. CASE ActiveOf(k) # {}
    <2>1. PICK d \in active : d \in ActiveOf(k)
        BY <1>2 DEF ActiveOf
    <2>2. ActiveOf(k) = {d}
        BY <2>1 DEF ActiveOf, SweepInv, WindowsRollForward
    <2>3. QED
        BY <2>2, FS_Singleton
<1>3. QED
    BY <1>1, <1>2

(* What a call emits is numbered on from the counter.                      *)
LEMMA StepNumbered ==
    ASSUME SweepInv, Next
    PROVE  \E A : Numbered(A) /\ Emit(A)
<1>1. order \in Nat /\ order + 1 \in Nat
    BY DEF SweepInv, TypeOK
<1>2. Emit({}) => \E A : Numbered(A) /\ Emit(A)
    BY <1>1, FewNumbered
<1>3. ASSUME NEW c, NEW S, Emit(FlipAudit(c, S, order + 1))
      PROVE  \E A : Numbered(A) /\ Emit(A)
    <2>1. CASE FlipAudit(c, S, order + 1) = {}
        BY <1>2, <1>3, <2>1
    <2>2. ASSUME NEW name, FlipAudit(c, S, order + 1) = {Audit(c, name, order + 1)}
          PROVE  \E A : Numbered(A) /\ Emit(A)
        <3>1. Audit(c, name, order + 1).order = order + 1
            BY DEF Audit
        <3>2. Numbered({Audit(c, name, order + 1)})
            BY <1>1, <3>1, FewNumbered
        <3>3. QED
            BY <1>3, <2>2, <3>2
    <2>3. QED
        BY <2>1, <2>2, FlipCases
<1>4. ASSUME NEW d, NEW word, NEW c, NEW S,
             Emit({Audit(d, word, order + 1)} \cup FlipAudit(c, S, order + 2))
      PROVE  \E A : Numbered(A) /\ Emit(A)
    <2>1. Audit(d, word, order + 1).order = order + 1
        BY DEF Audit
    <2>2. CASE FlipAudit(c, S, order + 2) = {}
        <3>1. {Audit(d, word, order + 1)} \cup FlipAudit(c, S, order + 2)
                  = {Audit(d, word, order + 1)}
            BY <2>2
        <3>2. Numbered({Audit(d, word, order + 1)})
            BY <1>1, <2>1, FewNumbered
        <3>3. QED
            BY <1>4, <3>1, <3>2
    <2>3. ASSUME NEW name, FlipAudit(c, S, order + 2) = {Audit(c, name, order + 2)}
          PROVE  \E A : Numbered(A) /\ Emit(A)
        <3>1. Audit(c, name, order + 2).order = order + 2
            BY DEF Audit
        <3>2. {Audit(d, word, order + 1)} \cup FlipAudit(c, S, order + 2)
                  = {Audit(d, word, order + 1), Audit(c, name, order + 2)}
            BY <2>3
        <3>3. Numbered({Audit(d, word, order + 1), Audit(c, name, order + 2)})
            BY <1>1, <2>1, <3>1, FewNumbered
        <3>4. QED
            BY <1>4, <3>2, <3>3
    <2>4. QED
        BY <2>2, <2>3, FlipCases
<1>5. ASSUME NEW t, NEW k, NEW at, NEW p, OpenCluster(t, k, at, p)
      PROVE  \E A : Numbered(A) /\ Emit(A)
    <2> DEFINE S == {NewEvent(t, at, p)}
    <2>1. Emit({Audit(c, "CLUSTER_CLOSED", order + 1) : c \in ActiveOf(k)} \cup
               FlipAudit(<<k, at>>, S, order + 1 + Cardinality(ActiveOf(k))))
        BY <1>5 DEF OpenCluster
    <2> HIDE DEF S
    <2>2. CASE ActiveOf(k) = {} /\ Cardinality(ActiveOf(k)) = 0
        <3>1. order + 1 + Cardinality(ActiveOf(k)) = order + 1
            BY <1>1, <2>2
        <3>2. {Audit(c, "CLUSTER_CLOSED", order + 1) : c \in ActiveOf(k)} = {}
            BY <2>2
        <3>3. Emit(FlipAudit(<<k, at>>, S, order + 1))
            BY <2>1, <3>1, <3>2
        <3>4. QED
            BY <1>3, <3>3
    <2>3. ASSUME NEW d \in active, ActiveOf(k) = {d} /\ Cardinality(ActiveOf(k)) = 1
          PROVE  \E A : Numbered(A) /\ Emit(A)
        <3>1. order + 1 + Cardinality(ActiveOf(k)) = order + 2
            BY <1>1, <2>3
        <3>2. {Audit(c, "CLUSTER_CLOSED", order + 1) : c \in ActiveOf(k)}
                  = {Audit(d, "CLUSTER_CLOSED", order + 1)}
            BY <2>3
        <3>3. Emit({Audit(d, "CLUSTER_CLOSED", order + 1)} \cup FlipAudit(<<k, at>>, S, order + 2))
            BY <2>1, <3>1, <3>2
        <3>4. QED
            BY <1>4, <3>3
    <2>4. QED
        BY <2>2, <2>3, OldCases
<1>6. ASSUME NEW now, Tick(now) PROVE \E A : Numbered(A) /\ Emit(A)
    <2> DEFINE L == TickList(now)
               cl == [l \in L |-> l[2]]
    <2>1. IsFiniteSet(L)
        BY TickListFinite DEF SweepInv
    <2>2. PICK rank \in Bijection(L, 1 .. Cardinality(L)) :
              Emit({Audit(l[2], "SWEEP_FRESHNESS_EXPIRED", order + rank[l]) : l \in L})
        BY <1>6 DEF Tick
    <2>3. {Audit(l[2], "SWEEP_FRESHNESS_EXPIRED", order + rank[l]) : l \in L}
              = {Audit(cl[l], "SWEEP_FRESHNESS_EXPIRED", order + rank[l]) : l \in L}
        <3> HIDE DEF L
        <3>1. \A l \in L : cl[l] = l[2]
            OBVIOUS
        <3> HIDE DEF cl
        <3>2. QED
            BY <3>1
    <2> DEFINE A == {Audit(l[2], "SWEEP_FRESHNESS_EXPIRED", order + rank[l]) : l \in L}
    <2>4. Emit(A)
        BY <2>2
    <2>5. Numbered(A)
        <3>1. A = {Audit(cl[l], "SWEEP_FRESHNESS_EXPIRED", order + rank[l]) : l \in L}
            BY <2>3
        <3>2. cl \in [L -> Cluster]
            BY DEF L, cl, TickList, SweepInv, TypeOK
        <3>3. "SWEEP_FRESHNESS_EXPIRED" \in Transition
            BY DEF Transition
        <3> HIDE DEF A, L, cl
        <3>4. QED
            BY <1>1, <2>1, <3>1, <3>2, <3>3, RankedNumbered
    <2> HIDE DEF A
    <2>6. QED
        BY <2>4, <2>5
<1>7. ASSUME CloseSession PROVE \E A : Numbered(A) /\ Emit(A)
    <2> DEFINE cl == [c \in active |-> c]
    <2>1. IsFiniteSet(active)
        BY ClusterFinite, FS_Subset DEF SweepInv, TypeOK
    <2>2. PICK rank \in Bijection(active, 1 .. Cardinality(active)) :
              Emit({Audit(c, "CLUSTER_CLOSED", order + rank[c]) : c \in active})
        BY <1>7 DEF CloseSession
    <2>3. {Audit(c, "CLUSTER_CLOSED", order + rank[c]) : c \in active}
              = {Audit(cl[c], "CLUSTER_CLOSED", order + rank[c]) : c \in active}
        OBVIOUS
    <2> DEFINE A == {Audit(c, "CLUSTER_CLOSED", order + rank[c]) : c \in active}
    <2>4. Emit(A)
        BY <2>2
    <2>5. Numbered(A)
        <3>1. A = {Audit(cl[c], "CLUSTER_CLOSED", order + rank[c]) : c \in active}
            BY <2>3
        <3>2. cl \in [active -> Cluster]
            BY DEF cl, SweepInv, TypeOK
        <3>3. "CLUSTER_CLOSED" \in Transition
            BY DEF Transition
        <3> HIDE DEF A, cl
        <3>4. QED
            BY <1>1, <2>1, <3>1, <3>2, <3>3, RankedNumbered
    <2> HIDE DEF A
    <2>6. QED
        BY <2>4, <2>5
<1>8. ASSUME NEW t, NEW k, NEW at, NEW p, JoinCluster(t, k, at, p)
      PROVE  \E A : Numbered(A) /\ Emit(A)
    BY <1>3, <1>8 DEF JoinCluster
<1>9. ASSUME NEW c, NEW S, NEW word, Replace(c, S, word)
      PROVE  \E A : Numbered(A) /\ Emit(A)
    BY <1>4, <1>9 DEF Replace
<1>10. ASSUME NEW t, NEW at, NEW p, Correct(t, at, p) PROVE \E A : Numbered(A) /\ Emit(A)
    BY <1>9, <1>10 DEF Correct
<1>11. ASSUME NEW t, Cancel(t) PROVE \E A : Numbered(A) /\ Emit(A)
    BY <1>9, <1>11 DEF Cancel
<1>12. ASSUME NEW t, NEW k, NEW at, NEW eligible,
              Ignore(t, k, at, eligible) \/ Uncorrelated(t) \/ ResetSession
       PROVE  Emit({})
    BY <1>12 DEF Ignore, Uncorrelated, ResetSession
<1>13. QED
    BY <1>2, <1>5, <1>6, <1>7, <1>8, <1>10, <1>11, <1>12 DEF Next

(* The orders of a step's audits continue the earlier ones, one each.      *)
LEMMA StepOrders ==
    ASSUME SweepInv, Next
    PROVE  /\ {a.order : a \in emitted'} = (order + 1) .. order'
           /\ Cardinality(emitted') = order' - order
           /\ order \in Nat /\ order' \in Nat /\ order <= order'
           /\ \A a, b \in emitted' : a.order = b.order => a = b
<1>1. PICK A : Numbered(A) /\ Emit(A)
    BY StepNumbered
<1>2. Cardinality(A) \in Nat /\ order \in Nat
    BY <1>1, FS_CardinalityType DEF Numbered, SweepInv, TypeOK
<1>3. emitted' = A /\ order' = order + Cardinality(A)
    BY <1>1 DEF Emit, OrdersUsed
<1>4. \A a, b \in A : a.order = b.order => a = b
    <2> DEFINE T == (order + 1) .. (order + Cardinality(A))
               f == [a \in A |-> a.order]
    <2>1. {a.order : a \in A} = T
        BY <1>1 DEF Numbered
    <2>2. f \in Surjection(A, T)
        <3>1. f \in [A -> T]
            BY <2>1
        <3>2. \A y \in T : \E a \in A : f[a] = y
            BY <2>1
        <3>3. QED
            BY <3>1, <3>2 DEF Surjection
    <2>3. Cardinality(T) = Cardinality(A)
        <3> DEFINE i == order + 1
                   j == order + Cardinality(A)
        <3>1. i \in Int /\ j \in Int
            BY <1>2
        <3> HIDE DEF i, j
        <3>2. Cardinality(i .. j) = IF i > j THEN 0 ELSE j - i + 1
            BY <3>1, FS_Interval
        <3>3. QED
            BY <1>2, <3>2 DEF i, j
    <2>4. f \in Injection(A, T)
        <3> HIDE DEF f, T
        <3>1. QED
            BY <1>1, <2>2, <2>3, FS_SurjSameCardinalityImpliesInj DEF Numbered
    <2>5. \A a, b \in A : f[a] = f[b] => a = b
        <3> HIDE DEF f, T
        <3>1. QED
            BY <2>4 DEF Injection, IsInjective
    <2>6. QED
        BY <2>5
<1>5. QED
    BY <1>1, <1>2, <1>3, <1>4 DEF Numbered

(* Audit orders have no gap and no repeat, so that no transition is lost   *)
(* to the primary key (sweeps.py:431, persistence.py:198).                 *)
THEOREM SweepOrders == Spec => OrdersContinue
<1>1. SweepInv /\ [Next]_vars =>
          [{a.order : a \in emitted'} = (order + 1) .. order'
           /\ Cardinality(emitted') = order' - order]_vars
    BY StepOrders
<1>2. QED
    BY <1>1, SweepInvariant, PTL DEF Spec, OrdersContinue
-----------------------------------------------------------------------------
FlipNames == {"NEW_QUALIFYING_SWEEP", "SWEEP_QUALIFICATION_REVOKED"}
FlipsIn(A, c) == {a \in A : a.cluster = c /\ a.transition \in FlipNames}
Quiet(A) == \A a \in A : a.transition \notin FlipNames

FlipTold(c, flips) ==
    IF c \in qualifying \/ c \notin qualifying'
    THEN IF c \in qualifying /\ c \notin qualifying'
         THEN /\ {a.transition : a \in flips} = {"SWEEP_QUALIFICATION_REVOKED"}
              /\ Cardinality(flips) = 1
         ELSE flips = {}
    ELSE {a.transition : a \in flips} = {"NEW_QUALIFYING_SWEEP"} /\ Cardinality(flips) = 1
FlipAudited(c) == FlipTold(c, FlipsIn(emitted', c))

(* One audit of the right name tells of a flip.                            *)
LEMMA OneTells ==
    ASSUME NEW c, NEW flips, Cardinality(flips) = 1
    PROVE  /\ (/\ c \notin qualifying /\ c \in qualifying'
               /\ {a.transition : a \in flips} = {"NEW_QUALIFYING_SWEEP"}) => FlipTold(c, flips)
           /\ (/\ c \in qualifying /\ c \notin qualifying'
               /\ {a.transition : a \in flips} = {"SWEEP_QUALIFICATION_REVOKED"})
                  => FlipTold(c, flips)
BY DEF FlipTold

(* A call that recomputes no cluster audits no flip.                       *)
LEMMA QuietAudited ==
    ASSUME UNCHANGED qualifying, Quiet(emitted')
    PROVE  \A c \in Cluster : FlipAudited(c)
BY DEF Quiet, FlipAudited, FlipTold, FlipsIn

(* A call that recomputes cluster c audits its flip and no other.          *)
LEMMA RecomputeAudited ==
    ASSUME NEW c, NEW S, NEW n, Recompute(c, S), NEW A, Quiet(A),
           emitted' = A \cup FlipAudit(c, S, n)
    PROVE  \A d \in Cluster : FlipAudited(d)
<1>1. qualifying' = IF Qualifies(S) THEN qualifying \cup {c} ELSE qualifying \ {c}
    BY DEF Recompute
<1>2. ASSUME NEW d \in Cluster, d # c PROVE FlipAudited(d)
    <2>1. d \in qualifying' <=> d \in qualifying
        BY <1>1, <1>2
    <2>2. \A a \in FlipAudit(c, S, n) : a.cluster = c
        BY DEF FlipAudit, Audit
    <2>3. FlipsIn(emitted', d) = {}
        BY <1>2, <2>2 DEF FlipsIn, Quiet
    <2>4. QED
        BY <2>1, <2>3 DEF FlipAudited, FlipTold
<1>3. CASE ~Flips(c, S)
    <2>1. FlipsIn(emitted', c) = {}
        BY <1>3 DEF FlipAudit, FlipsIn, Quiet
    <2>2. c \in qualifying' <=> c \in qualifying
        BY <1>1, <1>3 DEF Flips
    <2>3. FlipAudited(c)
        BY <2>1, <2>2 DEF FlipAudited, FlipTold
    <2>4. QED
        BY <1>2, <2>3
<1>4. CASE Flips(c, S)
    <2> DEFINE name == IF Qualifies(S) THEN "NEW_QUALIFYING_SWEEP"
                                       ELSE "SWEEP_QUALIFICATION_REVOKED"
    <2>1. FlipAudit(c, S, n) = {Audit(c, name, n)}
        BY <1>4 DEF FlipAudit
    <2>2. /\ Audit(c, name, n).cluster = c /\ Audit(c, name, n).transition = name
          /\ name \in FlipNames
        BY DEF Audit, FlipNames
    <2> DEFINE F == FlipsIn(emitted', c)
    <2>3. F = {Audit(c, name, n)}
        <3> HIDE DEF name
        <3>1. QED
            BY <2>1, <2>2 DEF FlipsIn, Quiet
    <2> HIDE DEF F
    <2>4. {a.transition : a \in F} = {name}
        BY <2>2, <2>3
    <2>5. Cardinality(F) = 1
        BY <2>3, FS_Singleton
    <2>6. Qualifies(S) \in BOOLEAN
        BY DEF Qualifies
    <2>7. FlipTold(c, F)
        <3>1. CASE Qualifies(S)
            <4>1. c \notin qualifying /\ c \in qualifying'
                BY <1>1, <1>4, <2>6, <3>1 DEF Flips
            <4>2. {a.transition : a \in F} = {"NEW_QUALIFYING_SWEEP"}
                BY <2>4, <3>1
            <4>3. QED
                BY <2>5, <4>1, <4>2, OneTells
        <3>2. CASE ~Qualifies(S)
            <4>1. c \in qualifying /\ c \notin qualifying'
                BY <1>1, <1>4, <2>6, <3>2 DEF Flips
            <4>2. {a.transition : a \in F} = {"SWEEP_QUALIFICATION_REVOKED"}
                BY <2>4, <3>2
            <4>3. QED
                BY <2>5, <4>1, <4>2, OneTells
        <3>3. QED
            BY <3>1, <3>2
    <2>8. FlipAudited(c)
        BY <2>7 DEF FlipAudited, F
    <2>9. QED
        BY <1>2, <2>8
<1>5. QED
    BY <1>3, <1>4

(* What one call of the engine audits of flips.                            *)
LEMMA StepAudited ==
    ASSUME Next
    PROVE  (Live' = {} /\ emitted' = {}) \/ \A c \in Cluster : FlipAudited(c)
<1>1. Quiet({})
    BY DEF Quiet
<1>2. ResetSession => Live' = {} /\ emitted' = {}
    BY DEF ResetSession, Live, Emit
<1>3. ASSUME NEW t, NEW k, NEW at, NEW eligible, Ignore(t, k, at, eligible) \/ Uncorrelated(t)
      PROVE  \A c \in Cluster : FlipAudited(c)
    BY <1>1, <1>3, QuietAudited DEF Ignore, Uncorrelated, Emit
<1>4. ASSUME NEW t, NEW k, NEW at, NEW p, JoinCluster(t, k, at, p)
      PROVE  \A c \in Cluster : FlipAudited(c)
    <2>1. PICK c, S : Recompute(c, S) /\ emitted' = {} \cup FlipAudit(c, S, order + 1)
        BY <1>4 DEF JoinCluster, Emit
    <2>2. QED
        BY <1>1, <2>1, RecomputeAudited
<1>5. ASSUME NEW t, NEW k, NEW at, NEW p, OpenCluster(t, k, at, p)
      PROVE  \A c \in Cluster : FlipAudited(c)
    <2> DEFINE A == {Audit(c, "CLUSTER_CLOSED", order + 1) : c \in ActiveOf(k)}
    <2>1. PICK c, S, n : Recompute(c, S) /\ emitted' = A \cup FlipAudit(c, S, n)
        BY <1>5 DEF OpenCluster, Emit
    <2>2. Quiet(A)
        BY DEF Quiet, Audit, FlipNames
    <2> HIDE DEF A
    <2>3. QED
        BY <2>1, <2>2, RecomputeAudited
<1>6. ASSUME NEW c, NEW S, NEW word \in {"SWEEP_CORRECTION", "SWEEP_CANCELLATION"},
             Replace(c, S, word)
      PROVE  \A d \in Cluster : FlipAudited(d)
    <2> DEFINE A == {Audit(c, word, order + 1)}
    <2>1. Recompute(c, S) /\ emitted' = A \cup FlipAudit(c, S, order + 2)
        BY <1>6 DEF Replace, Emit
    <2>2. Quiet(A)
        BY DEF Quiet, Audit, FlipNames
    <2> HIDE DEF A
    <2>3. QED
        BY <2>1, <2>2, RecomputeAudited
<1>7. ASSUME NEW t, Cancel(t) \/ \E at \in Time, p \in Payload : Correct(t, at, p)
      PROVE  \A c \in Cluster : FlipAudited(c)
    BY <1>6, <1>7 DEF Cancel, Correct
<1>8. ASSUME NEW now, Tick(now)
      PROVE  \A c \in Cluster : FlipAudited(c)
    <2>1. PICK rank : emitted' = {Audit(l[2], "SWEEP_FRESHNESS_EXPIRED", order + rank[l]) :
                                     l \in TickList(now)}
        BY <1>8 DEF Tick, Emit
    <2>2. Quiet(emitted')
        BY <2>1 DEF Quiet, Audit, FlipNames
    <2>3. QED
        BY <1>8, <2>2, QuietAudited DEF Tick
<1>9. ASSUME CloseSession
      PROVE  \A c \in Cluster : FlipAudited(c)
    <2>1. PICK rank : emitted' = {Audit(c, "CLUSTER_CLOSED", order + rank[c]) : c \in active}
        BY <1>9 DEF CloseSession, Emit
    <2>2. Quiet(emitted')
        BY <2>1 DEF Quiet, Audit, FlipNames
    <2>3. QED
        BY <1>9, <2>2, QuietAudited DEF CloseSession
<1>10. QED
    BY <1>2, <1>3, <1>4, <1>5, <1>7, <1>8, <1>9 DEF Next

(* A cluster that starts or stops qualifying is audited as such, once, in  *)
(* the call that flips it, and no call audits a flip that does not happen  *)
(* (sweeps.py:316-331, 403-421).                                           *)
THEOREM SweepFlips == Spec => FlipsAudited
<1>1. ASSUME Next
      PROVE  \/ Live' = {} /\ emitted' = {}
             \/ \A c \in Cluster :
                   LET flips == {a \in emitted' : a.cluster = c /\ a.transition \in
                                   {"NEW_QUALIFYING_SWEEP", "SWEEP_QUALIFICATION_REVOKED"}}
                   IN  IF c \in qualifying \/ c \notin qualifying'
                       THEN IF c \in qualifying /\ c \notin qualifying'
                            THEN {a.transition : a \in flips} = {"SWEEP_QUALIFICATION_REVOKED"}
                                 /\ Cardinality(flips) = 1
                            ELSE flips = {}
                       ELSE {a.transition : a \in flips} = {"NEW_QUALIFYING_SWEEP"}
                            /\ Cardinality(flips) = 1
    BY <1>1, StepAudited DEF FlipAudited, FlipTold, FlipsIn, FlipNames
<1>2. QED
    BY <1>1, PTL DEF Spec, FlipsAudited

(* A tick leaves no stale cluster fresh, whether it is listed as active,   *)
(* as closed, or as both (sweeps.py:333-345).                              *)
THEOREM SweepTickClears == Spec => TickClearsStale
<1>1. ASSUME NEW now \in Time, UNCHANGED <<trades, seen>>, Tick(now), NEW c \in Fresh',
             Stale(c, now)
      PROVE  FALSE
    <2>1. c \in Fresh
        BY <1>1 DEF Tick, Fresh, Live
    <2>2. \E l \in TickList(now) : l[2] = c
        <3>1. CASE c \in active
            <4>1. <<"active", c>> \in TickList(now)
                BY <1>1, <2>1, <3>1 DEF TickList
            <4>2. QED
                BY <4>1
        <3>2. CASE c \in closed
            <4>1. <<"closed", c>> \in TickList(now)
                BY <1>1, <2>1, <3>2 DEF TickList
            <4>2. QED
                BY <4>1
        <3>3. QED
            BY <2>1, <3>1, <3>2 DEF Fresh, Live
    <2>3. c \in expired'
        BY <1>1, <2>2 DEF Tick, ClusterOf
    <2>4. QED
        BY <1>1, <2>3 DEF Fresh
<1>2. [Next]_vars =>
          [\A now \in Time :
              (UNCHANGED <<trades, seen>> /\ Tick(now)) => \A c \in Fresh' : ~Stale(c, now)]_vars
    BY <1>1
<1>3. QED
    BY <1>2, PTL DEF Spec, TickClearsStale
-----------------------------------------------------------------------------
(* A cluster without an audit and with the same trades is as it was: the   *)
(* records a step calls for are complete.                                  *)
LEMMA UntoldUnchanged ==
    ASSUME SweepInv, Next, NEW c \in Live', c \in Cluster, trades'[c] = trades[c],
           \A a \in emitted' : a.cluster # c
    PROVE  /\ c \in Live
           /\ c \in closed' <=> c \in closed
           /\ c \in expired' <=> c \in expired
<1> DEFINE Same == /\ c \in Live
                   /\ c \in closed' <=> c \in closed
                   /\ c \in expired' <=> c \in expired
<1>1. UNCHANGED <<active, closed, expired>> => Same
    BY DEF Live
<1>2. ASSUME NEW t, NEW k, NEW at, NEW eligible, Ignore(t, k, at, eligible) PROVE Same
    BY <1>1, <1>2 DEF Ignore
<1>3. ASSUME NEW t, NEW k, NEW at, NEW p, JoinCluster(t, k, at, p) PROVE Same
    BY <1>1, <1>3 DEF JoinCluster
<1>4. ASSUME NEW t, NEW at, NEW p, Correct(t, at, p) PROVE Same
    BY <1>1, <1>4 DEF Correct, Replace
<1>5. ASSUME NEW t, Cancel(t) \/ Uncorrelated(t) PROVE Same
    BY <1>1, <1>5 DEF Cancel, Uncorrelated, Replace
<1>6. ASSUME NEW t \in Trade, NEW k \in Key, NEW at \in Time, NEW p, OpenCluster(t, k, at, p)
      PROVE  Same
    <2> DEFINE new == <<k, at>>
    <2>1. /\ t \notin seen
          /\ active' = (active \ ActiveOf(k)) \cup {new}
          /\ closed' = closed \cup ActiveOf(k)
          /\ expired' = expired
          /\ Recompute(new, {NewEvent(t, at, p)})
          /\ {Audit(d, "CLUSTER_CLOSED", order + 1) : d \in ActiveOf(k)} \subseteq emitted'
        BY <1>6 DEF OpenCluster, FirstSeen, Emit
    <2>2. c # new
        <3>1. SUFFICES ASSUME c = new PROVE FALSE
            OBVIOUS
        <3>2. trades'[c] = {NewEvent(t, at, p)}
            BY <2>1, <3>1, ContentsAfter DEF SweepInv
        <3>3. NewEvent(t, at, p).id = t
            BY DEF NewEvent
        <3>4. t \in Constituents(c)
            BY <3>2, <3>3 DEF Constituents, Ids
        <3>5. QED
            BY <2>1, <3>4 DEF SweepInv, HeldAreSeen
    <2>3. c \notin ActiveOf(k)
        <3>1. c \in ActiveOf(k) => Audit(c, "CLUSTER_CLOSED", order + 1) \in emitted'
            BY <2>1
        <3>2. Audit(c, "CLUSTER_CLOSED", order + 1).cluster = c
            BY DEF Audit
        <3>3. QED
            BY <3>1, <3>2
    <2>4. QED
        BY <2>1, <2>2, <2>3 DEF Live
<1>7. ASSUME NEW at, Tick(at) PROVE Same
    <2>1. PICK rank : emitted' = {Audit(l[2], "SWEEP_FRESHNESS_EXPIRED", order + rank[l]) :
                                     l \in TickList(at)}
        BY <1>7 DEF Tick, Emit
    <2>2. \A l \in TickList(at) : ClusterOf(l) # c
        <3>1. ASSUME NEW l \in TickList(at)
              PROVE  \E a \in emitted' : a.cluster = l[2]
            <4>1. Audit(l[2], "SWEEP_FRESHNESS_EXPIRED", order + rank[l]) \in emitted'
                BY <2>1
            <4>2. QED
                BY <4>1 DEF Audit
        <3>2. QED
            BY <3>1 DEF ClusterOf
    <2>3. QED
        BY <1>7, <2>2 DEF Tick, Live
<1>8. ASSUME CloseSession PROVE Same
    <2>1. PICK rank : emitted' = {Audit(d, "CLUSTER_CLOSED", order + rank[d]) : d \in active}
        BY <1>8 DEF CloseSession, Emit
    <2>2. c \notin active
        <3>1. c \in active => Audit(c, "CLUSTER_CLOSED", order + rank[c]) \in emitted'
            BY <2>1
        <3>2. Audit(c, "CLUSTER_CLOSED", order + rank[c]).cluster = c
            BY DEF Audit
        <3>3. QED
            BY <3>1, <3>2
    <2>3. QED
        BY <1>8, <2>2 DEF CloseSession, Live
<1>9. ~ResetSession
    BY DEF ResetSession, Live
<1>10. QED
    BY <1>2, <1>3, <1>4, <1>5, <1>6, <1>7, <1>8, <1>9 DEF Next
=============================================================================
