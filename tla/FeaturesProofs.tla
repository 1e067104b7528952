--------------------------- MODULE FeaturesProofs ---------------------------
(***************************************************************************)
(* The running totals and the decisions, for every tape of trades, history,*)
(* calendar and limits.                                                    *)
(*                                                                         *)
(* The first part is about sums: one more trade adds its own value to the  *)
(* sum over a set of trades.  TotalsInv is what a call does to the totals, *)
(* with the reference's sets growing by the one trade.  HeldInv relates    *)
(* what the synchronizer holds to the trades it came from: what an event   *)
(* says of the benchmarks and the totals was true when it was made, and    *)
(* the reference only grows.  DayInv follows the date: that of a sweep     *)
(* runs, and once its session has opened what is held is of that date.     *)
(***************************************************************************)
EXTENDS Features, SessionClockProofs, FiniteSetTheorems

(* Induction, of a set.                                                    *)
LEMMA NaturalsFrom ==
  ASSUME NEW T \in SUBSET Nat, 0 \in T, \A n \in T : n + 1 \in T
  PROVE  T = Nat
<1> DEFINE R == OpToRel(<, Nat)
<1> SUFFICES ASSUME Nat \ T # {} PROVE FALSE
  OBVIOUS
<1>1. IsWellFoundedOn(R, Nat)
  BY NatLessThanWellFounded
<1>2. PICK n \in Nat \ T : \A m \in Nat \ T : ~(<<m, n>> \in R)
  BY <1>1, WFMin
<1>3. n \in Nat /\ n # 0
  BY <1>2
<1>4. n - 1 \in T
  <2>1. n - 1 \in Nat /\ n - 1 < n
    BY <1>3
  <2>2. <<n - 1, n>> \in R
    BY <1>3, <2>1 DEF OpToRel
  <2> HIDE DEF R
  <2> QED
    BY <1>2, <2>1, <2>2
<1>5. (n - 1) + 1 = n
  BY <1>3
<1> QED
  BY <1>2, <1>4, <1>5

(* What SumFunctionOnSet goes by: the sums of all subsets.                 *)
Pick(s) == CHOOSE x \in s : TRUE
Iterates(g, fun, S) ==
    g = [s \in SUBSET S |-> IF s = {} THEN 0 ELSE fun[Pick(s)] + g[s \ {Pick(s)}]]

(* The index that is summed first is one, and its rest is smaller.         *)
LEMMA Picked ==
  ASSUME NEW s, s # {}, IsFiniteSet(s)
  PROVE  /\ Pick(s) \in s /\ IsFiniteSet(s \ {Pick(s)})
         /\ Cardinality(s) \in Nat \ {0} /\ Cardinality(s \ {Pick(s)}) = Cardinality(s) - 1
BY FS_RemoveElement, FS_CardinalityType, FS_EmptySet DEF Pick

(* The recursion has a solution: one up to a size gives one up to the next.*)
LEMMA IterationExists ==
  ASSUME NEW fun, NEW S, IsFiniteSet(S)
  PROVE  \E g : Iterates(g, fun, S)
<1> DEFINE Upto(g, n) ==
        g = [s \in SUBSET S |-> IF Cardinality(s) <= n
                                THEN IF s = {} THEN 0 ELSE fun[Pick(s)] + g[s \ {Pick(s)}]
                                ELSE 0]
           T == {n \in Nat : \E g : Upto(g, n)}
<1>1. \A s \in SUBSET S : IsFiniteSet(s) /\ Cardinality(s) \in Nat /\ Cardinality(s) <= Cardinality(S)
  BY FS_Subset, FS_CardinalityType
<1>2. Cardinality({}) = 0 /\ \A s \in SUBSET S : Cardinality(s) = 0 => s = {}
  BY <1>1, FS_EmptySet
<1>3. 0 \in T
  <2> DEFINE g == [s \in SUBSET S |-> 0]
  <2>1. Upto(g, 0)
    BY <1>1, <1>2
  <2> QED
    BY <2>1
<1>4. ASSUME NEW n \in T PROVE n + 1 \in T
  <2>1. PICK g : Upto(g, n)
    OBVIOUS
  <2> DEFINE h == [s \in SUBSET S |-> IF Cardinality(s) <= n + 1
                                THEN IF s = {} THEN 0 ELSE fun[Pick(s)] + g[s \ {Pick(s)}]
                                ELSE 0]
  <2>2. ASSUME NEW s \in SUBSET S, s # {}, Cardinality(s) <= n + 1
        PROVE  h[s \ {Pick(s)}] = g[s \ {Pick(s)}]
    <3> DEFINE t == s \ {Pick(s)}
    <3>1. t \in SUBSET S /\ Cardinality(t) <= n /\ Cardinality(t) <= n + 1
      BY <1>1, <2>2, Picked
    <3> QED
      BY <2>1, <3>1
  <2>3. Upto(h, n + 1)
    <3> HIDE DEF Upto
    <3>1. h = [s \in SUBSET S |-> IF Cardinality(s) <= n + 1
                                THEN IF s = {} THEN 0 ELSE fun[Pick(s)] + h[s \ {Pick(s)}]
                                ELSE 0]
      BY <2>2
    <3> QED
      BY <3>1 DEF Upto
  <2> HIDE DEF Upto
  <2> QED
    BY <2>3
<1>5. Cardinality(S) \in T
  <2>1. T \in SUBSET Nat
    OBVIOUS
  <2> HIDE DEF T
  <2> QED
    BY <1>1, <1>3, <1>4, <2>1, NaturalsFrom
<1>6. PICK g : Upto(g, Cardinality(S))
  BY <1>5
<1>7. Iterates(g, fun, S)
  BY <1>1, <1>6 DEF Iterates
<1> QED
  BY <1>7

(* A subset's sum does not depend on the set it is a subset of.            *)
LEMMA IterationsAgree ==
  ASSUME NEW fun, NEW S, IsFiniteSet(S), NEW g, Iterates(g, fun, S),
         NEW R \in SUBSET S, NEW h, Iterates(h, fun, R)
  PROVE  g[R] = h[R]
<1> DEFINE T == {n \in Nat : \A s \in SUBSET R : Cardinality(s) <= n => g[s] = h[s]}
<1>1. \A s \in SUBSET R : IsFiniteSet(s) /\ Cardinality(s) \in Nat
  BY FS_Subset, FS_CardinalityType
<1>2. \A s \in SUBSET R : Cardinality(s) = 0 => s = {}
  BY <1>1, FS_EmptySet
<1>3. 0 \in T
  BY <1>1, <1>2 DEF Iterates
<1>4. ASSUME NEW n \in T PROVE n + 1 \in T
  <2>1. ASSUME NEW s \in SUBSET R, Cardinality(s) <= n + 1, s # {} PROVE g[s] = h[s]
    <3>1. s \ {Pick(s)} \in SUBSET R /\ Cardinality(s \ {Pick(s)}) <= n
      BY <1>1, <2>1, Picked
    <3>2. g[s \ {Pick(s)}] = h[s \ {Pick(s)}]
      BY <3>1
    <3> QED
      BY <2>1, <3>2, ZenonT(40) DEF Iterates
  <2>2. g[{}] = h[{}]
    BY DEF Iterates
  <2> QED
    BY <2>1, <2>2
<1>5. Cardinality(R) \in T
  <2>1. T \in SUBSET Nat
    OBVIOUS
  <2> HIDE DEF T
  <2> QED
    BY <1>1, <1>3, <1>4, <2>1, NaturalsFrom
<1> QED
  BY <1>5, <1>1

(* SumFunctionOnSet is such a solution.                                    *)
LEMMA SumIterates ==
  ASSUME NEW fun, NEW S, IsFiniteSet(S)
  PROVE  \E g : Iterates(g, fun, S) /\ SumFunctionOnSet(fun, S) = g[S]
<1> DEFINE g == CHOOSE g : Iterates(g, fun, S)
<1>1. Iterates(g, fun, S)
  BY IterationExists
<1>2. SumFunctionOnSet(fun, S) = g[S]
  BY DEF SumFunctionOnSet, FoldFunctionOnSet, MapThenFoldSet, Iterates, Pick
<1> QED
  BY <1>1, <1>2

(* Nothing sums up to zero.                                                *)
LEMMA SumEmpty == ASSUME NEW fun PROVE SumFunctionOnSet(fun, {}) = 0
<1>1. PICK g : Iterates(g, fun, {}) /\ SumFunctionOnSet(fun, {}) = g[{}]
  BY SumIterates, FS_EmptySet
<1> QED
  BY <1>1 DEF Iterates

(* A sum is the first index's value and the sum of the rest.               *)
LEMMA SumPicked ==
  ASSUME NEW fun, NEW S, IsFiniteSet(S), S # {}
  PROVE  SumFunctionOnSet(fun, S) = fun[Pick(S)] + SumFunctionOnSet(fun, S \ {Pick(S)})
<1> DEFINE R == S \ {Pick(S)}
<1>1. PICK g : Iterates(g, fun, S) /\ SumFunctionOnSet(fun, S) = g[S]
  BY SumIterates
<1>2. IsFiniteSet(R) /\ R \in SUBSET S
  BY Picked
<1>3. PICK h : Iterates(h, fun, R) /\ SumFunctionOnSet(fun, R) = h[R]
  BY <1>2, SumIterates
<1>4. g[R] = h[R]
  BY <1>1, <1>2, <1>3, IterationsAgree
<1>5. g[S] = fun[Pick(S)] + g[R]
  <2>1. S \in SUBSET S
    OBVIOUS
  <2> QED
    BY <1>1, <2>1 DEF Iterates
<1> QED
  BY <1>1, <1>3, <1>4, <1>5

(* Sums of natural numbers are natural numbers.                            *)
LEMMA SumNat ==
  ASSUME NEW D, NEW fun \in [D -> Nat], NEW S \in SUBSET D, IsFiniteSet(S)
  PROVE  SumFunctionOnSet(fun, S) \in Nat
<1> DEFINE T == {n \in Nat : \A s \in SUBSET S : Cardinality(s) = n => SumFunctionOnSet(fun, s) \in Nat}
<1>1. \A s \in SUBSET S : IsFiniteSet(s) /\ Cardinality(s) \in Nat
  BY FS_Subset, FS_CardinalityType
<1>2. 0 \in T
  BY <1>1, FS_EmptySet, SumEmpty
<1>3. ASSUME NEW n \in T PROVE n + 1 \in T
  <2>1. ASSUME NEW s \in SUBSET S, Cardinality(s) = n + 1 PROVE SumFunctionOnSet(fun, s) \in Nat
    <3>1. s # {} /\ IsFiniteSet(s)
      BY <1>1, <2>1, FS_EmptySet
    <3>2. Pick(s) \in D /\ s \ {Pick(s)} \in SUBSET S /\ Cardinality(s \ {Pick(s)}) = n
      BY <2>1, <3>1, Picked
    <3>3. SumFunctionOnSet(fun, s \ {Pick(s)}) \in Nat
      BY <3>2
    <3>4. fun[Pick(s)] \in Nat
      BY <3>2
    <3> QED
      BY <3>1, <3>3, <3>4, SumPicked
  <2> QED
    BY <2>1
<1>4. Cardinality(S) \in T
  <2>1. T \in SUBSET Nat
    OBVIOUS
  <2> HIDE DEF T
  <2> QED
    BY <1>1, <1>2, <1>3, <2>1, NaturalsFrom
<1> QED
  BY <1>4

(* One more index adds its value to the sum, whichever is summed first.    *)
LEMMA SumMore ==
  ASSUME NEW D, NEW fun \in [D -> Nat], NEW S \in SUBSET D, IsFiniteSet(S), NEW y \in D \ S
  PROVE  /\ SumFunctionOnSet(fun, S \cup {y}) = SumFunctionOnSet(fun, S) + fun[y]
         /\ SumFunctionOnSet(fun, S) \in Nat
<1> DEFINE U == S \cup {y}
           T == {n \in Nat : \A s \in SUBSET U : Cardinality(s) = n =>
                    \A x \in s : SumFunctionOnSet(fun, s) = fun[x] + SumFunctionOnSet(fun, s \ {x})}
<1>1. IsFiniteSet(U) /\ U \in SUBSET D
  BY FS_AddElement
<1>2. \A s \in SUBSET U : /\ IsFiniteSet(s) /\ Cardinality(s) \in Nat
                         /\ SumFunctionOnSet(fun, s) \in Nat
  BY <1>1, FS_Subset, FS_CardinalityType, SumNat
<1>3. 0 \in T
  BY <1>2, FS_EmptySet
<1>4. ASSUME NEW n \in T PROVE n + 1 \in T
  <2>1. ASSUME NEW s \in SUBSET U, Cardinality(s) = n + 1, NEW x \in s
        PROVE  SumFunctionOnSet(fun, s) = fun[x] + SumFunctionOnSet(fun, s \ {x})
    <3> DEFINE c == Pick(s)
               t == (s \ {c}) \ {x}
    <3>1. /\ c \in s /\ IsFiniteSet(s)
          /\ SumFunctionOnSet(fun, s) = fun[c] + SumFunctionOnSet(fun, s \ {c})
      BY <1>2, SumPicked, Picked
    <3>2. Cardinality(s \ {c}) = n /\ Cardinality(s \ {x}) = n
      <4>1. IsFiniteSet(s) /\ Cardinality(s) = n + 1 /\ n \in Nat /\ c \in s /\ x \in s
        BY <1>2, <2>1, <3>1
      <4>2. Cardinality(s \ {c}) = Cardinality(s) - 1 /\ Cardinality(s \ {x}) = Cardinality(s) - 1
        BY <4>1, FS_RemoveElement
      <4> QED
        BY <4>1, <4>2
    <3>3. CASE x = c
      BY <3>1, <3>3
    <3>4. CASE x # c
      <4> HIDE DEF c, t
      <4>1. SumFunctionOnSet(fun, s \ {c}) = fun[x] + SumFunctionOnSet(fun, t)
        BY <3>2, <3>4 DEF t
      <4>2. c \in s \ {x} /\ (s \ {x}) \ {c} = t
        BY <3>1, <3>4 DEF t
      <4>3. SumFunctionOnSet(fun, s \ {x}) = fun[c] + SumFunctionOnSet(fun, t)
        BY <3>2, <4>2
      <4>4. t \in SUBSET U /\ fun[x] \in Nat /\ fun[c] \in Nat
        BY <1>1, <3>1 DEF t
      <4>5. SumFunctionOnSet(fun, t) \in Nat
        BY <1>2, <4>4
      <4> QED
        BY <3>1, <4>1, <4>3, <4>4, <4>5
    <3> QED
      BY <3>3, <3>4
  <2> QED
    BY <2>1
<1>5. Cardinality(U) \in T
  <2>1. T \in SUBSET Nat /\ Cardinality(U) \in Nat
    BY <1>2
  <2> HIDE DEF T
  <2> QED
    BY <1>3, <1>4, <2>1, NaturalsFrom
<1>6. SumFunctionOnSet(fun, U) = fun[y] + SumFunctionOnSet(fun, U \ {y})
  BY <1>5
<1>7. U \ {y} = S
  OBVIOUS
<1>8. SumFunctionOnSet(fun, S) \in Nat /\ fun[y] \in Nat
  BY <1>2
<1>9. SumFunctionOnSet(fun, U) = fun[y] + SumFunctionOnSet(fun, S)
  BY <1>6, <1>7
<1> HIDE DEF T
<1> QED
  BY <1>8, <1>9
-----------------------------------------------------------------------------
(* The totals.                                                             *)

TradeIds == DOMAIN Tape

TotalsType(totals) ==
    /\ totals = [session |-> totals.session, volume |-> totals.volume,
                 notional |-> totals.notional, minutes |-> totals.minutes]
    /\ totals.volume \in Nat /\ totals.notional \in Nat
    /\ totals.minutes \in [Minutes -> Nat]

OptionTotalsType(totals) ==
    /\ totals = [session |-> totals.session, volume |-> totals.volume, premium |-> totals.premium]
    /\ totals.volume \in Nat /\ totals.premium \in Nat

TypeInv ==
    /\ now \in Instant
    /\ coming \subseteq TradeIds /\ processed \subseteq TradeIds \ coming
    /\ \A id \in processed : Tape[id].at <= now
    /\ DOMAIN calculator = EquitySymbol
    /\ TotalsType(calculator[Stock])
    /\ OptionTotalsType(option_totals)

OfMinute(d, m) == {id \in EligibleTrades(d) : MinuteOf[Tape[id].at] = m}

(* The sums are of natural numbers over finite sets.                       *)
LEMMA TapeFacts ==
  /\ IsFiniteSet(TradeIds)
  /\ [id \in TradeIds |-> Tape[id].size] \in [TradeIds -> Nat]
  /\ [id \in TradeIds |-> Tape[id].price * Tape[id].size] \in [TradeIds -> Nat]
  /\ \A id \in TradeIds : TradeOK(id, Tape[id])
<1>1. \A id \in TradeIds : TradeOK(id, Tape[id])
  BY FeatureConstantsOK DEF TradeIds
<1>2. ASSUME NEW id \in TradeIds
      PROVE  Tape[id].size \in Nat /\ Tape[id].price * Tape[id].size \in Nat
  <2>1. Tape[id].size \in Nat /\ Tape[id].price \in Nat
    BY <1>1 DEF TradeOK
  <2>2. \A m, n \in Nat : m * n \in Nat
    OBVIOUS
  <2> QED
    BY <2>1, <2>2
<1> QED
  BY <1>1, <1>2, FeatureConstantsOK DEF TradeIds

LEMMA SizesMore ==
  ASSUME NEW S \in SUBSET TradeIds, NEW id \in TradeIds \ S
  PROVE  Sizes(S \cup {id}) = Sizes(S) + Tape[id].size /\ Sizes(S) \in Nat
<1> DEFINE f == [i \in TradeIds |-> Tape[i].size]
<1>1. IsFiniteSet(S) /\ f \in [TradeIds -> Nat] /\ f[id] = Tape[id].size
  BY TapeFacts, FS_Subset
<1>2. Sizes(S \cup {id}) = SumFunctionOnSet(f, S \cup {id}) /\ Sizes(S) = SumFunctionOnSet(f, S)
  BY DEF Sizes, TradeIds
<1> HIDE DEF f
<1>3. /\ SumFunctionOnSet(f, S \cup {id}) = SumFunctionOnSet(f, S) + f[id]
      /\ SumFunctionOnSet(f, S) \in Nat
  BY <1>1, SumMore
<1> QED
  BY <1>1, <1>2, <1>3

LEMMA ValuesMore ==
  ASSUME NEW S \in SUBSET TradeIds, NEW id \in TradeIds \ S
  PROVE  Values(S \cup {id}) = Values(S) + Tape[id].price * Tape[id].size /\ Values(S) \in Nat
<1> DEFINE f == [i \in TradeIds |-> Tape[i].price * Tape[i].size]
<1>1. IsFiniteSet(S) /\ f \in [TradeIds -> Nat] /\ f[id] = Tape[id].price * Tape[id].size
  BY TapeFacts, FS_Subset
<1>2. Values(S \cup {id}) = SumFunctionOnSet(f, S \cup {id}) /\ Values(S) = SumFunctionOnSet(f, S)
  BY DEF Values, TradeIds
<1> HIDE DEF f
<1>3. /\ SumFunctionOnSet(f, S \cup {id}) = SumFunctionOnSet(f, S) + f[id]
      /\ SumFunctionOnSet(f, S) \in Nat
  BY <1>1, SumMore
<1> QED
  BY <1>1, <1>2, <1>3

LEMMA NoneSum == Sizes({}) = 0 /\ Values({}) = 0
BY SumEmpty DEF Sizes, Values

(* A trade processed joins the sets of its date that it is eligible for.   *)
Counts(kind, id, d) == Tape[id].kind = kind /\ DateOf[Tape[id].at] = d
CountsEquity(id, d) == Counts("equity", id, d) /\ EligibleEquity(Tape[id])
CountsCall(id, d) == Counts("options", id, d) /\ EligibleOption(Tape[id])

LEMMA ProcessedMore ==
  ASSUME NEW id \in TradeIds, processed' = processed \cup {id}, NEW kind, NEW d
  PROVE  Processed(kind, d)' = IF Counts(kind, id, d) THEN Processed(kind, d) \cup {id}
                                                      ELSE Processed(kind, d)
BY DEF Processed, Counts

LEMMA TradesMore ==
  ASSUME NEW id \in TradeIds, processed' = processed \cup {id}, NEW d, CountsEquity(id, d)
  PROVE  /\ EligibleTrades(d)' = EligibleTrades(d) \cup {id}
         /\ OfMinute(d, MinuteOf[Tape[id].at])' = OfMinute(d, MinuteOf[Tape[id].at]) \cup {id}
         /\ \A m : m # MinuteOf[Tape[id].at] => OfMinute(d, m)' = OfMinute(d, m)
<1>1. EligibleTrades(d)' = EligibleTrades(d) \cup {id}
  BY ProcessedMore DEF EligibleTrades, Regular, EligibleEquity, RegularSale, RegularSession,
                       CountsEquity, Counts, Processed
<1> QED
  BY <1>1 DEF OfMinute

LEMMA TradesSame ==
  ASSUME NEW id \in TradeIds, processed' = processed \cup {id}, NEW d, ~CountsEquity(id, d)
  PROVE  EligibleTrades(d)' = EligibleTrades(d) /\ \A m : OfMinute(d, m)' = OfMinute(d, m)
<1>1. EligibleTrades(d)' = EligibleTrades(d)
  BY DEF EligibleTrades, Regular, EligibleEquity, RegularSale, RegularSession,
         CountsEquity, Counts, Processed
<1> QED
  BY <1>1 DEF OfMinute

LEMMA CallsMore ==
  ASSUME NEW id \in TradeIds, processed' = processed \cup {id}, NEW d, CountsCall(id, d)
  PROVE  /\ EligibleCalls(d)' = EligibleCalls(d) \cup {id}
         /\ AskCalls(d)' = IF Classification(Tape[id]) = "ask" THEN AskCalls(d) \cup {id}
                                                               ELSE AskCalls(d)
<1>1. Tape[id].size > 0 <=> Tape[id].size >= 1
  BY TapeFacts DEF TradeOK
<1>2. EligibleCalls(d)' = EligibleCalls(d) \cup {id}
  BY <1>1 DEF EligibleCalls, Regular, EligibleOption, RegularSession, CountsCall, Counts, Processed
<1> QED
  BY <1>2 DEF AskCalls

LEMMA CallsSame ==
  ASSUME NEW id \in TradeIds, processed' = processed \cup {id}, NEW d, ~CountsCall(id, d)
  PROVE  EligibleCalls(d)' = EligibleCalls(d) /\ AskCalls(d)' = AskCalls(d)
<1>1. Tape[id].size > 0 <=> Tape[id].size >= 1
  BY TapeFacts DEF TradeOK
<1>2. EligibleCalls(d)' = EligibleCalls(d)
  BY <1>1 DEF EligibleCalls, Regular, EligibleOption, RegularSession, CountsCall, Counts, Processed
<1> QED
  BY <1>2 DEF AskCalls

(* What is in time is of the clock's date.                                 *)
LEMMA InTimeToday ==
  ASSUME now \in Instant, NEW id \in TradeIds, InTime(Tape[id].at)
  PROVE  /\ Tape[id].at \in Instant /\ Deliverable(Tape[id].at)
         /\ Tape[id].at <= now /\ DateOf[Tape[id].at] = DateOf[now]
<1>1. MaxStaleness \in Nat
  BY SynchronizerConstantsOK
<1>2. Deliverable(Tape[id].at) /\ now - Tape[id].at <= MaxStaleness
  BY DEF InTime
<1>3. \A later \in Instant : (Tape[id].at < later /\ DateOf[Tape[id].at] # DateOf[later]) =>
            later - Tape[id].at > MaxStaleness
  BY NightOK DEF TradeIds
<1>4. DateOf[Tape[id].at] = DateOf[now]
  BY <1>1, <1>2, <1>3, SameDate
<1> QED
  BY <1>2, <1>4 DEF Deliverable

(* A trade of the stock.                                                   *)
LEMMA EquityCounted ==
  ASSUME TypeInv, EquityExact, NEW id \in coming, Tape[id].kind = "equity",
         InTime(Tape[id].at), now' = now, processed' = processed \cup {id},
         calculator' = [calculator EXCEPT ![Stock] = Calculated(@, Tape[id])]
  PROVE  EquityExact' /\ TotalsType(calculator'[Stock])
<1>a. PICK d : d = DateOf[Tape[id].at]
  OBVIOUS
<1> DEFINE e == Tape[id]
           before == calculator[Stock]
           current == IF before.session = d THEN before ELSE NoTotals(d)
           after == calculator'[Stock]
           minute == MinuteOf[e.at]
<1>1. /\ id \in TradeIds /\ id \notin processed
      /\ e.size \in Nat /\ e.price \in Nat /\ e.price * e.size \in Nat
  <2>1. id \in TradeIds /\ id \notin processed
    BY DEF TypeInv
  <2>2. e.size \in Nat /\ e.price \in Nat
    BY <2>1, TapeFacts DEF TradeOK
  <2>3. \A m, n \in Nat : m * n \in Nat
    OBVIOUS
  <2> QED
    BY <2>1, <2>2, <2>3
<1>2. e.at \in Instant /\ d = DateOf[now] /\ minute \in Minutes
  BY <1>a, <1>1, InTimeToday DEF TypeInv, Minutes
<1>3. after = Calculated(before, e)
  BY DEF TypeInv, EquitySymbol
<1>4. /\ current = [session |-> d, volume |-> current.volume,
                    notional |-> current.notional, minutes |-> current.minutes]
      /\ current.minutes \in [Minutes -> Nat]
      /\ current.volume = Sizes(EligibleTrades(d)) /\ current.notional = Values(EligibleTrades(d))
      /\ \A m \in Minutes : current.minutes[m] = Sizes(OfMinute(d, m))
  <2>1. CASE before.session = d
    BY <2>1 DEF TypeInv, TotalsType, EquityExact, OfMinute
  <2>2. CASE before.session # d
    <3>1. Processed("equity", d) = {}
      BY <1>2, <2>2 DEF EquityExact
    <3>2. EligibleTrades(d) = {} /\ \A m : OfMinute(d, m) = {}
      BY <3>1 DEF EligibleTrades, Regular, OfMinute
    <3>3. current = NoTotals(d)
      BY <2>2
    <3>4. /\ Sizes(EligibleTrades(d)) = 0 /\ Values(EligibleTrades(d)) = 0
          /\ \A m : Sizes(OfMinute(d, m)) = 0
      BY <3>2, NoneSum
    <3>5. /\ NoTotals(d).volume = 0 /\ NoTotals(d).notional = 0
          /\ NoTotals(d).minutes \in [Minutes -> Nat] /\ \A m \in Minutes : NoTotals(d).minutes[m] = 0
          /\ NoTotals(d) = [session |-> d, volume |-> NoTotals(d).volume,
                    notional |-> NoTotals(d).notional, minutes |-> NoTotals(d).minutes]
      BY DEF NoTotals
    <3> HIDE DEF current
    <3> QED
      BY <3>3, <3>4, <3>5
  <2> QED
    BY <2>1, <2>2
<1>5. /\ EligibleTrades(d) \in SUBSET TradeIds /\ id \in TradeIds \ EligibleTrades(d)
      /\ \A m : OfMinute(d, m) \in SUBSET TradeIds /\ id \in TradeIds \ OfMinute(d, m)
  BY <1>1 DEF EligibleTrades, OfMinute, Regular, Processed, TypeInv
<1>6. /\ Sizes(EligibleTrades(d)) \in Nat /\ Values(EligibleTrades(d)) \in Nat
      /\ \A m : Sizes(OfMinute(d, m)) \in Nat
  BY <1>5, SizesMore, ValuesMore
<1>7. Processed("equity", d)' # {}
  BY <1>1, <1>a DEF Processed
<1> SUFFICES /\ after.session = d
             /\ after.volume = Sizes(EligibleTrades(d)') /\ after.notional = Values(EligibleTrades(d)')
             /\ \A m \in Minutes : after.minutes[m] = Sizes(OfMinute(d, m)')
             /\ TotalsType(after)
  BY <1>2 DEF EquityExact, OfMinute
<1> HIDE DEF current, after, before
<1>8. after = IF EligibleEquity(e)
              THEN [session |-> d, volume |-> current.volume + e.size,
                    notional |-> current.notional + e.price * e.size,
                    minutes |-> [current.minutes EXCEPT ![minute] = @ + e.size]]
              ELSE current
  <2>1. after = IF EligibleEquity(e)
                THEN [current EXCEPT !.volume = @ + e.size,
                                     !.notional = @ + e.price * e.size,
                                     !.minutes[minute] = @ + e.size]
                ELSE current
    BY <1>3, <1>a DEF Calculated, current
  <2>2. ASSUME EligibleEquity(e)
        PROVE  after = [session |-> d, volume |-> current.volume + e.size,
                        notional |-> current.notional + e.price * e.size,
                        minutes |-> [current.minutes EXCEPT ![minute] = @ + e.size]]
    <3>1. PICK v, n, f : current = [session |-> d, volume |-> v, notional |-> n, minutes |-> f]
      BY <1>4
    <3>2. after = [[session |-> d, volume |-> v, notional |-> n, minutes |-> f]
                      EXCEPT !.volume = @ + e.size, !.notional = @ + e.price * e.size,
                             !.minutes[minute] = @ + e.size]
      BY <2>1, <2>2, <3>1
    <3> QED
      BY <3>1, <3>2
  <2> QED
    BY <2>1, <2>2
<1>9. CASE EligibleEquity(e)
  <2>1. /\ EligibleTrades(d)' = EligibleTrades(d) \cup {id}
        /\ OfMinute(d, minute)' = OfMinute(d, minute) \cup {id}
        /\ \A m \in Minutes : m # minute => OfMinute(d, m)' = OfMinute(d, m)
    <3>1. CountsEquity(id, d)
      BY <1>a, <1>9 DEF CountsEquity, Counts
    <3> QED
      BY <1>1, <3>1, TradesMore
  <2>2. /\ Sizes(EligibleTrades(d)') = Sizes(EligibleTrades(d)) + e.size
        /\ Values(EligibleTrades(d)') = Values(EligibleTrades(d)) + e.price * e.size
        /\ Sizes(OfMinute(d, minute)') = Sizes(OfMinute(d, minute)) + e.size
    BY <1>5, <2>1, SizesMore, ValuesMore
  <2>3. /\ after.session = d /\ after.volume = current.volume + e.size
        /\ after.notional = current.notional + e.price * e.size
        /\ after.minutes = [current.minutes EXCEPT ![minute] = @ + e.size]
        /\ after = [session |-> after.session, volume |-> after.volume,
                    notional |-> after.notional, minutes |-> after.minutes]
    BY <1>8, <1>9
  <2>4. /\ after.minutes[minute] = current.minutes[minute] + e.size
        /\ \A m \in Minutes : m # minute => after.minutes[m] = current.minutes[m]
        /\ DOMAIN after.minutes = Minutes
    BY <1>2, <1>4, <2>3
  <2>5. \A m \in Minutes : after.minutes[m] = Sizes(OfMinute(d, m)')
    BY <1>2, <1>4, <2>1, <2>2, <2>4
  <2>6. after.minutes \in [Minutes -> Nat]
    BY <1>1, <1>2, <1>4, <2>3
  <2>7. after.volume \in Nat /\ after.notional \in Nat
    BY <1>1, <1>4, <1>6, <2>3
  <2> QED
    BY <1>4, <2>2, <2>3, <2>5, <2>6, <2>7 DEF TotalsType
<1>10. CASE ~EligibleEquity(e)
  <2>1. EligibleTrades(d)' = EligibleTrades(d) /\ \A m \in Minutes : OfMinute(d, m)' = OfMinute(d, m)
    <3>1. ~CountsEquity(id, d)
      BY <1>10 DEF CountsEquity
    <3> QED
      BY <1>1, <3>1, TradesSame
  <2>2. after = current
    BY <1>8, <1>10
  <2> QED
    BY <1>4, <1>6, <2>1, <2>2 DEF TotalsType
<1> QED
  BY <1>9, <1>10

(* A trade of a benchmark or an option changes no total of the stock's.    *)
LEMMA EquityKept ==
  ASSUME TypeInv, EquityExact, NEW id \in coming, Tape[id].kind # "equity",
         now' = now, processed' = processed \cup {id}, calculator'[Stock] = calculator[Stock]
  PROVE  EquityExact'
<1>1. id \in TradeIds /\ \A d : ~CountsEquity(id, d) /\ ~Counts("equity", id, d)
  BY DEF TypeInv, CountsEquity, Counts
<1>2. PICK d : d = calculator[Stock].session
  OBVIOUS
<1>3. PICK today : today = DateOf[now]
  OBVIOUS
<1>4. EligibleTrades(d)' = EligibleTrades(d) /\ \A m : OfMinute(d, m)' = OfMinute(d, m)
  BY <1>1, TradesSame
<1>5. Processed("equity", today)' = Processed("equity", today)
  BY <1>1, ProcessedMore
<1> QED
  BY <1>2, <1>3, <1>4, <1>5 DEF EquityExact, OfMinute

(* An option trade.                                                        *)
LEMMA OptionCounted ==
  ASSUME TypeInv, OptionsExact, NEW id \in coming, Tape[id].kind = "options",
         InTime(Tape[id].at), now' = now, processed' = processed \cup {id},
         option_totals' = OptionTotals(Tape[id])
  PROVE  /\ OptionsExact' /\ OptionTotalsType(option_totals')
         /\ option_totals'.session = DateOf[now]
<1>a. PICK d : d = DateOf[Tape[id].at]
  OBVIOUS
<1> DEFINE e == Tape[id]
           current == IF option_totals.session = d THEN option_totals
                      ELSE [session |-> d, volume |-> 0, premium |-> 0]
           after == option_totals'
<1>1. /\ id \in TradeIds /\ id \notin processed
      /\ e.size \in Nat /\ e.price \in Nat /\ e.price * e.size \in Nat
  <2>1. id \in TradeIds /\ id \notin processed
    BY DEF TypeInv
  <2>2. e.size \in Nat /\ e.price \in Nat
    BY <2>1, TapeFacts DEF TradeOK
  <2>3. \A m, n \in Nat : m * n \in Nat
    OBVIOUS
  <2> QED
    BY <2>1, <2>2, <2>3
<1>2. d = DateOf[now]
  BY <1>a, <1>1, InTimeToday DEF TypeInv
<1>3. after = IF EligibleOption(e)
              THEN [current EXCEPT !.volume = @ + e.size, !.premium = @ + AskPremium(e)]
              ELSE current
  <2>1. [NoOptionTotals EXCEPT !.session = d] = [session |-> d, volume |-> 0, premium |-> 0]
    BY DEF NoOptionTotals
  <2>2. OfSession(option_totals, NoOptionTotals, d) = current
    BY <2>1 DEF OfSession
  <2> QED
    BY <1>a, <2>2 DEF OptionTotals
<1>4. /\ current = [session |-> d, volume |-> current.volume, premium |-> current.premium]
      /\ current.volume = Sizes(EligibleCalls(d)) /\ current.premium = Values(AskCalls(d))
  <2>1. CASE option_totals.session = d
    BY <2>1 DEF TypeInv, OptionTotalsType, OptionsExact
  <2>2. CASE option_totals.session # d
    <3>1. Processed("options", d) = {}
      BY <1>2, <2>2 DEF OptionsExact
    <3>2. EligibleCalls(d) = {} /\ AskCalls(d) = {}
      BY <3>1 DEF EligibleCalls, Regular, AskCalls
    <3> QED
      BY <2>2, <3>2, NoneSum
  <2> QED
    BY <2>1, <2>2
<1>5. /\ EligibleCalls(d) \in SUBSET TradeIds /\ id \in TradeIds \ EligibleCalls(d)
      /\ AskCalls(d) \in SUBSET TradeIds /\ id \in TradeIds \ AskCalls(d)
  BY <1>1 DEF EligibleCalls, AskCalls, Regular, Processed, TypeInv
<1>6. Sizes(EligibleCalls(d)) \in Nat /\ Values(AskCalls(d)) \in Nat
  BY <1>5, SizesMore, ValuesMore
<1> SUFFICES /\ after.session = d
             /\ after.volume = Sizes(EligibleCalls(d)') /\ after.premium = Values(AskCalls(d)')
             /\ OptionTotalsType(after)
  BY <1>2 DEF OptionsExact
<1> HIDE DEF current, after
<1>7. CASE EligibleOption(e)
  <2>1. PICK v, p : /\ current = [session |-> d, volume |-> v, premium |-> p]
                    /\ v = Sizes(EligibleCalls(d)) /\ p = Values(AskCalls(d))
    BY <1>4
  <2>2. after = [session |-> d, volume |-> v + e.size, premium |-> p + AskPremium(e)]
    BY <1>3, <1>7, <2>1
  <2>3. CountsCall(id, d)
    BY <1>a, <1>7 DEF CountsCall, Counts
  <2>4. Sizes(EligibleCalls(d)') = v + e.size
    BY <1>1, <1>5, <2>1, <2>3, CallsMore, SizesMore
  <2>5. Values(AskCalls(d)') = p + AskPremium(e)
    <3>1. CASE Classification(e) = "ask"
      <4>1. AskPremium(e) = e.price * e.size
        BY <3>1 DEF AskPremium, Premium
      <4>2. AskCalls(d)' = AskCalls(d) \cup {id}
        BY <1>1, <2>3, <3>1, CallsMore
      <4> QED
        BY <1>5, <2>1, <4>1, <4>2, ValuesMore
    <3>2. CASE Classification(e) # "ask"
      <4>1. AskPremium(e) = 0
        BY <3>2 DEF AskPremium
      <4>2. AskCalls(d)' = AskCalls(d)
        BY <1>1, <2>3, <3>2, CallsMore
      <4> QED
        BY <1>6, <2>1, <4>1, <4>2
    <3> QED
      BY <3>1, <3>2
  <2>6. v \in Nat /\ p \in Nat /\ AskPremium(e) \in Nat
    <3>1. v \in Nat /\ p \in Nat
      BY <1>6, <2>1
    <3> QED
      BY <1>1, <3>1 DEF AskPremium, Premium
  <2>7. v + e.size \in Nat /\ p + AskPremium(e) \in Nat
    BY <1>1, <2>6
  <2> QED
    BY <2>2, <2>4, <2>5, <2>7 DEF OptionTotalsType
<1>8. CASE ~EligibleOption(e)
  <2>1. EligibleCalls(d)' = EligibleCalls(d) /\ AskCalls(d)' = AskCalls(d)
    BY <1>1, <1>8, CallsSame DEF CountsCall
  <2>2. after = current
    BY <1>3, <1>8
  <2> QED
    BY <1>4, <1>6, <2>1, <2>2 DEF OptionTotalsType
<1> QED
  BY <1>7, <1>8

(* An equity trade changes no total of the options.                        *)
LEMMA OptionsKept ==
  ASSUME TypeInv, OptionsExact, NEW id \in coming, Tape[id].kind # "options",
         now' = now, processed' = processed \cup {id}, option_totals' = option_totals
  PROVE  OptionsExact'
<1>1. id \in TradeIds /\ \A d : ~CountsCall(id, d) /\ ~Counts("options", id, d)
  BY DEF TypeInv, CountsCall, Counts
<1>2. PICK d : d = option_totals.session
  OBVIOUS
<1>3. PICK today : today = DateOf[now]
  OBVIOUS
<1>4. EligibleCalls(d)' = EligibleCalls(d) /\ AskCalls(d)' = AskCalls(d)
  BY <1>1, CallsSame
<1>5. Processed("options", today)' = Processed("options", today)
  BY <1>1, ProcessedMore
<1> QED
  BY <1>2, <1>3, <1>4, <1>5 DEF OptionsExact

TotalsInv == TypeInv /\ TotalsExact

(* No trade has come, or the session has been opened anew.                 *)
LEMMA TotalsCleared ==
  ASSUME processed' = {}, calculator' = Untraded, option_totals' = NoOptionTotals,
         now' \in Instant, coming' \subseteq TradeIds
  PROVE  TotalsInv'
<1>1. calculator'[Stock] = NoTotals(None) /\ DOMAIN calculator' = EquitySymbol
  BY DEF Untraded, EquitySymbol
<1>2. \A d, kind : /\ Processed(kind, d)' = {} /\ EligibleTrades(d)' = {}
                   /\ EligibleCalls(d)' = {} /\ AskCalls(d)' = {}
  BY DEF Processed, EligibleTrades, EligibleCalls, AskCalls, Regular
<1>3. /\ NoTotals(None).session = None /\ NoTotals(None).volume = 0 /\ NoTotals(None).notional = 0
      /\ \A m \in Minutes : NoTotals(None).minutes[m] = 0
      /\ TotalsType(NoTotals(None))
  BY DEF NoTotals, TotalsType
<1>4. PICK today : today = DateOf[now']
  OBVIOUS
<1>5. EquityExact'
  <2>1. \A m : {id \in EligibleTrades(None)' : MinuteOf[Tape[id].at] = m} = {}
    BY <1>2
  <2> QED
    BY <1>1, <1>2, <1>3, <1>4, <2>1, NoneSum DEF EquityExact
<1>6. OptionsExact'
  BY <1>2, <1>4, NoneSum DEF OptionsExact, NoOptionTotals
<1>7. TypeInv'
  BY <1>1, <1>3 DEF TypeInv, OptionTotalsType, NoOptionTotals
<1> QED
  BY <1>5, <1>6, <1>7 DEF TotalsInv, TotalsExact

LEMMA TotalsInit == FeaturesInit => TotalsInv
<1> SUFFICES ASSUME FeaturesInit PROVE TotalsInv
  OBVIOUS
<1>1. calculator[Stock] = NoTotals(None) /\ DOMAIN calculator = EquitySymbol
  BY DEF FeaturesInit, Untraded, EquitySymbol
<1>2. processed = {} /\ option_totals = NoOptionTotals
  BY DEF FeaturesInit
<1>3. \A d, kind : /\ Processed(kind, d) = {} /\ EligibleTrades(d) = {}
                   /\ EligibleCalls(d) = {} /\ AskCalls(d) = {}
  BY <1>2 DEF Processed, EligibleTrades, EligibleCalls, AskCalls, Regular
<1>4. /\ NoTotals(None).session = None /\ NoTotals(None).volume = 0 /\ NoTotals(None).notional = 0
      /\ \A m \in Minutes : NoTotals(None).minutes[m] = 0
      /\ TotalsType(NoTotals(None))
  BY DEF NoTotals, TotalsType
<1>5. EquityExact
  <2>1. \A m : {id \in EligibleTrades(None) : MinuteOf[Tape[id].at] = m} = {}
    BY <1>3
  <2> QED
    BY <1>1, <1>3, <1>4, <2>1, NoneSum DEF EquityExact
<1>6. OptionsExact
  BY <1>2, <1>3, NoneSum DEF OptionsExact, NoOptionTotals
<1>7. TypeInv
  BY <1>1, <1>2, <1>4, FirstInstant DEF FeaturesInit, TypeInv, OptionTotalsType, NoOptionTotals, TradeIds
<1> QED
  BY <1>5, <1>6, <1>7 DEF TotalsInv, TotalsExact

(* Nothing has come of a date that begins.                                 *)
LEMMA TotalsTime ==
  ASSUME TotalsInv, TimePasses, coming' \subseteq coming,
         UNCHANGED <<calculator, option_totals, processed>>
  PROVE  TotalsInv'
<1>1. /\ now \in Instant /\ now' \in Instant /\ now < now' /\ now \in Nat /\ now' \in Nat
  BY InstantsAreNat DEF TimePasses, TotalsInv, TypeInv
<1>2. ASSUME NEW id \in processed
      PROVE  /\ Tape[id].at \in Instant /\ Tape[id].at \in Nat /\ Tape[id].at <= now'
             /\ DateOf[Tape[id].at] = DateOf[now'] => DateOf[now] = DateOf[now']
  <2>1. Tape[id].at \in Instant /\ Tape[id].at <= now
    BY TapeFacts DEF TotalsInv, TypeInv, TradeOK
  <2>2. Tape[id].at \in Nat
    BY <2>1, InstantsAreNat
  <2>3. Tape[id].at = now \/ Tape[id].at < now
    BY <1>1, <2>1, <2>2
  <2> QED
    BY <1>1, <2>1, <2>2, <2>3, CalendarOK
<1>a. PICK today : today = DateOf[now']
  OBVIOUS
<1>3. \A kind : Processed(kind, today)' # {} => /\ Processed(kind, today) # {}
                                               /\ DateOf[now] = today
  BY <1>a, <1>2 DEF Processed
<1>4. \A kind, d : /\ EligibleTrades(d)' = EligibleTrades(d)
                   /\ EligibleCalls(d)' = EligibleCalls(d) /\ AskCalls(d)' = AskCalls(d)
  BY DEF Processed, EligibleTrades, EligibleCalls, AskCalls, Regular
<1>5. EquityExact'
  <2>1. PICK d : d = calculator[Stock].session
    OBVIOUS
  <2>2. EligibleTrades(d)' = EligibleTrades(d)
    BY <1>4
  <2>3. Processed("equity", today)' # {} => d = today
    BY <1>3, <2>1 DEF TotalsInv, TotalsExact, EquityExact
  <2> QED
    BY <1>a, <2>1, <2>2, <2>3 DEF TotalsInv, TotalsExact, EquityExact
<1>6. OptionsExact'
  <2>1. PICK d : d = option_totals.session
    OBVIOUS
  <2>2. EligibleCalls(d)' = EligibleCalls(d) /\ AskCalls(d)' = AskCalls(d)
    BY <1>4
  <2>3. Processed("options", today)' # {} => d = today
    BY <1>3, <2>1 DEF TotalsInv, TotalsExact, OptionsExact
  <2> QED
    BY <1>a, <2>1, <2>2, <2>3 DEF TotalsInv, TotalsExact, OptionsExact
<1>7. TypeInv'
  BY <1>1, <1>2 DEF TotalsInv, TypeInv
<1> QED
  BY <1>5, <1>6, <1>7 DEF TotalsInv, TotalsExact

(* A call for a trade.                                                     *)
LEMMA TotalsTrade ==
  ASSUME TotalsInv, NEW id \in coming, Process(Tape[id])
  PROVE  TotalsInv'
<1>1. /\ id \in TradeIds /\ id \notin processed /\ TradeOK(id, Tape[id])
      /\ InTime(Tape[id].at) /\ now' = now
      /\ coming' = coming \ {id} /\ processed' = processed \cup {id}
  BY TapeFacts DEF Process, TotalsInv, TypeInv, TradeOK
<1>2. Tape[id].at <= now
  BY <1>1 DEF InTime, Deliverable
<1>3. /\ now' \in Instant /\ coming' \subseteq TradeIds /\ processed' \subseteq TradeIds \ coming'
      /\ \A i \in processed' : Tape[i].at <= now'
  BY <1>1, <1>2 DEF TotalsInv, TypeInv
<1>4. CASE Tape[id].kind = "options"
  <2>1. ApplyOption(Tape[id])
    BY <1>4 DEF Process
  <2>2. /\ option_totals' = OptionTotals(Tape[id]) /\ UNCHANGED calculator
    BY <2>1 DEF ApplyOption
  <2>3. OptionsExact' /\ OptionTotalsType(option_totals')
    BY <1>1, <1>4, <2>2, OptionCounted DEF TotalsInv, TotalsExact
  <2>4. EquityExact'
    BY <1>1, <1>4, <2>2, EquityKept DEF TotalsInv, TotalsExact
  <2>5. TypeInv'
    BY <1>3, <2>2, <2>3 DEF TotalsInv, TypeInv
  <2> QED
    BY <2>3, <2>4, <2>5 DEF TotalsInv, TotalsExact
<1>5. CASE Tape[id].kind # "options"
  <2>1. ApplyEquity(Tape[id])
    BY <1>5 DEF Process
  <2>2. /\ option_totals' = option_totals
        /\ calculator' = [calculator EXCEPT ![Tape[id].symbol] = Calculated(@, Tape[id])]
    BY <2>1 DEF ApplyEquity
  <2>3. OptionsExact'
    BY <1>1, <1>5, <2>2, OptionsKept DEF TotalsInv, TotalsExact
  <2>4. DOMAIN calculator' = EquitySymbol
    BY <2>2 DEF TotalsInv, TypeInv
  <2>5. EquityExact' /\ TotalsType(calculator'[Stock])
    <3>1. CASE Tape[id].kind = "equity"
      <4>1. Tape[id].symbol = Stock
        BY <1>1, <3>1 DEF TradeOK
      <4> QED
        BY <1>1, <2>2, <3>1, <4>1, EquityCounted DEF TotalsInv, TotalsExact
    <3>2. CASE Tape[id].kind # "equity"
      <4>1. Tape[id].symbol # Stock
        BY <1>1, <1>5, <3>2, FeatureConstantsOK DEF TradeOK
      <4>2. calculator'[Stock] = calculator[Stock]
        BY <2>2, <4>1 DEF TotalsInv, TypeInv, EquitySymbol
      <4> QED
        BY <1>1, <3>2, <4>2, EquityKept DEF TotalsInv, TotalsExact, TypeInv
    <3> QED
      BY <3>1, <3>2
  <2>6. TypeInv'
    BY <1>3, <2>2, <2>4, <2>5 DEF TotalsInv, TypeInv
  <2> QED
    BY <2>3, <2>5, <2>6 DEF TotalsInv, TotalsExact
<1> QED
  BY <1>4, <1>5

LEMMA TotalsStep == TotalsInv /\ [FeaturesNext]_feature_vars => TotalsInv'
<1> SUFFICES ASSUME TotalsInv, [FeaturesNext]_feature_vars PROVE TotalsInv'
  OBVIOUS
<1>1. ASSUME UNCHANGED <<now, coming, calculator, option_totals, processed>> PROVE TotalsInv'
  BY <1>1 DEF TotalsInv, TypeInv, TotalsExact, EquityExact, OptionsExact, EligibleTrades,
              EligibleCalls, AskCalls, Regular, Processed
<1>2. ASSUME NEW at, OpenSession(at) PROVE TotalsInv'
  BY <1>2, TotalsCleared DEF OpenSession, TotalsInv, TypeInv
<1>3. ASSUME NEW at, CloseOfSession(at) PROVE TotalsInv'
  BY <1>1, <1>3 DEF CloseOfSession
<1>4. ASSUME NEW id \in coming, Process(Tape[id]) PROVE TotalsInv'
  BY <1>4, TotalsTrade
<1>5. CASE Tick
  BY <1>1, <1>5 DEF Tick
<1>6. CASE Advance
  BY <1>6, TotalsTime DEF Advance
<1>7. CASE UNCHANGED feature_vars
  BY <1>1, <1>7 DEF feature_vars, features, clock
<1>8. ASSUME NEW at, PassesBy(at) PROVE TotalsInv'
  BY <1>1, <1>8 DEF PassesBy
<1> QED
  BY <1>2, <1>3, <1>4, <1>5, <1>6, <1>7, <1>8 DEF FeaturesNext

(* The totals are exact for every tape, in every order of delivery         *)
(* (indicators.py:266-268, pipeline.py:752-757, 786, 822).                 *)
THEOREM TotalsAreExact == FeaturesSpec => []TotalsExact
<1>1. TotalsInv => TotalsExact
  BY DEF TotalsInv
<1> QED
  BY TotalsInit, TotalsStep, <1>1, PTL DEF FeaturesSpec
-----------------------------------------------------------------------------
(* What is held.                                                           *)

OptionShape(h) ==
    h = [id |-> h.id, kind |-> h.kind, sequence |-> h.sequence, at |-> h.at,
         option_volume |-> h.option_volume, call_premium |-> h.call_premium, sweeps |-> h.sweeps]

HeldTrades ==
    /\ DOMAIN held = Symbol /\ DOMAIN held[Stock] = Kind
    /\ \A kind \in Kind : \A h \in held[Stock][kind] :
          /\ h.id \in processed /\ Tape[h.id].kind = kind /\ h.at = Tape[h.id].at
          /\ \A g \in held[Stock][kind] : g = h
    /\ \A h \in held[Stock]["options"] : OptionShape(h)

LastResults ==
    \A symbol \in EquitySymbol : \A id \in results[symbol] :
        id \in processed /\ Tape[id].symbol = symbol /\ Tape[id].kind # "options"

(* The stock rose more than a benchmark did, in a trade of the same minute.*)
Beats(h, benchmark) ==
    \E id \in Processed(benchmark, DateOf[h.at]) :
        /\ MinuteOf[Tape[id].at] = MinuteOf[h.at]
        /\ \E r \in Return(Tape[h.id]), s \in Return(Tape[id]) : Exceeds(r, s)

EquityEvidence ==
    \A h \in held[Stock]["equity"] :
        /\ h.above_market => Beats(h, "market")
        /\ h.above_sector => Beats(h, "sector")

OptionEvidence ==
    \A h \in held[Stock]["options"] :
        /\ \A v \in h.option_volume : v \in Nat /\ v <= Sizes(EligibleCalls(DateOf[h.at]))
        /\ \A p \in h.call_premium : p \in Nat /\ p <= Values(AskCalls(DateOf[h.at]))

HeldInv ==
    /\ DOMAIN results = EquitySymbol
    /\ HeldTrades /\ LastResults /\ EquityEvidence /\ OptionEvidence

LEMMA HeldEmpty ==
  ASSUME DOMAIN held' = Symbol, DOMAIN held'[Stock] = Kind, DOMAIN results' = EquitySymbol,
         \A kind \in Kind : held'[Stock][kind] = {},
         \A symbol \in EquitySymbol : results'[symbol] = {}
  PROVE  HeldInv'
<1>1. "equity" \in Kind /\ "options" \in Kind
  BY FeatureConstantsOK
<1> QED
  BY <1>1 DEF HeldInv, HeldTrades, LastResults, EquityEvidence, OptionEvidence

(* The synchronizer after an event of the stock's.                         *)
LEMMA Held ==
  ASSUME HeldTrades, NEW e, e.kind \in Kind, Add({Stock}, e)
  PROVE  /\ DOMAIN held' = Symbol /\ DOMAIN held'[Stock] = Kind
         /\ \/ held'[Stock] = held[Stock]
            \/ /\ held'[Stock][e.kind] = {e}
               /\ \A kind \in Kind \ {e.kind} : held'[Stock][kind] = held[Stock][kind]
<1>1. Symbol = {Stock}
  BY FeatureConstantsOK
<1>2. /\ DOMAIN held' = Symbol
      /\ held'[Stock] = IF Accepts(Stock, e) THEN [held[Stock] EXCEPT ![e.kind] = {e}] ELSE held[Stock]
  BY <1>1 DEF Add
<1> QED
  BY <1>2 DEF HeldTrades

(* The evidence grows with the trades processed.                           *)
LEMMA BeatsStill ==
  ASSUME NEW h, NEW benchmark, processed \subseteq processed', Beats(h, benchmark)
  PROVE  Beats(h, benchmark)'
BY DEF Beats, Processed

LEMMA CallsGrow ==
  ASSUME TypeInv, NEW id \in coming, processed' = processed \cup {id}, NEW d
  PROVE  /\ Sizes(EligibleCalls(d)) <= Sizes(EligibleCalls(d)')
         /\ Values(AskCalls(d)) <= Values(AskCalls(d)')
         /\ Sizes(EligibleCalls(d)) \in Nat /\ Values(AskCalls(d)) \in Nat
         /\ Sizes(EligibleCalls(d)') \in Nat /\ Values(AskCalls(d)') \in Nat
<1>1. /\ id \in TradeIds /\ id \notin processed
      /\ Tape[id].size \in Nat /\ Tape[id].price \in Nat
  BY TapeFacts DEF TypeInv, TradeOK
<1>2. Tape[id].price * Tape[id].size \in Nat
  BY <1>1
<1>3. /\ EligibleCalls(d) \in SUBSET TradeIds /\ id \in TradeIds \ EligibleCalls(d)
      /\ AskCalls(d) \in SUBSET TradeIds /\ id \in TradeIds \ AskCalls(d)
  BY <1>1 DEF EligibleCalls, AskCalls, Regular, Processed, TypeInv
<1>4. Sizes(EligibleCalls(d)) \in Nat /\ Values(AskCalls(d)) \in Nat
  BY <1>3, SizesMore, ValuesMore
<1>5. \/ EligibleCalls(d)' = EligibleCalls(d)
      \/ Sizes(EligibleCalls(d)') = Sizes(EligibleCalls(d)) + Tape[id].size
  BY <1>1, <1>3, CallsSame, CallsMore, SizesMore
<1>6. \/ AskCalls(d)' = AskCalls(d)
      \/ Values(AskCalls(d)') = Values(AskCalls(d)) + Tape[id].price * Tape[id].size
  BY <1>1, <1>3, CallsSame, CallsMore, ValuesMore
<1>7. Sizes(EligibleCalls(d)) <= Sizes(EligibleCalls(d)') /\ Sizes(EligibleCalls(d)') \in Nat
  BY <1>1, <1>4, <1>5
<1>8. Values(AskCalls(d)) <= Values(AskCalls(d)') /\ Values(AskCalls(d)') \in Nat
  BY <1>2, <1>4, <1>6
<1> QED
  BY <1>4, <1>7, <1>8

(* What was true of the held events stays true with one trade more.        *)
LEMMA HeldStill ==
  ASSUME TotalsInv, HeldInv, NEW id \in coming, processed' = processed \cup {id}
  PROVE  /\ \A kind \in Kind : \A h \in held[Stock][kind] :
               h.id \in processed' /\ Tape[h.id].kind = kind /\ h.at = Tape[h.id].at
         /\ \A h \in held[Stock]["options"] :
               /\ \A v \in h.option_volume : v \in Nat /\ v <= Sizes(EligibleCalls(DateOf[h.at])')
               /\ \A p \in h.call_premium : p \in Nat /\ p <= Values(AskCalls(DateOf[h.at])')
<1>1. \A kind \in Kind : \A h \in held[Stock][kind] :
          h.id \in processed' /\ Tape[h.id].kind = kind /\ h.at = Tape[h.id].at
  BY DEF HeldInv, HeldTrades
<1>2. ASSUME NEW h \in held[Stock]["options"]
      PROVE  /\ \A v \in h.option_volume : v \in Nat /\ v <= Sizes(EligibleCalls(DateOf[h.at])')
             /\ \A p \in h.call_premium : p \in Nat /\ p <= Values(AskCalls(DateOf[h.at])')
  <2>1. PICK d : d = DateOf[h.at]
    OBVIOUS
  <2>2. /\ Sizes(EligibleCalls(d)) <= Sizes(EligibleCalls(d)')
        /\ Values(AskCalls(d)) <= Values(AskCalls(d)')
        /\ Sizes(EligibleCalls(d)) \in Nat /\ Values(AskCalls(d)) \in Nat
        /\ Sizes(EligibleCalls(d)') \in Nat /\ Values(AskCalls(d)') \in Nat
    BY CallsGrow DEF TotalsInv
  <2>3. /\ \A v \in h.option_volume : v \in Nat /\ v <= Sizes(EligibleCalls(d))
        /\ \A p \in h.call_premium : p \in Nat /\ p <= Values(AskCalls(d))
    BY <2>1 DEF HeldInv, OptionEvidence
  <2> QED
    BY <2>1, <2>2, <2>3
<1> QED
  BY <1>1, <1>2

LEMMA HeldEquity ==
  ASSUME TotalsInv, HeldInv, NEW id \in coming, processed' = processed \cup {id},
         Tape[id].kind # "options", ApplyEquity(Tape[id])
  PROVE  HeldInv'
<1> DEFINE e == Tape[id]
           x == EquityEvent(e, calculator'[e.symbol])
<1>1. id \in TradeIds /\ TradeOK(id, e) /\ e.kind \in Kind /\ e.symbol \in EquitySymbol
  BY TapeFacts, FeatureConstantsOK DEF TotalsInv, TypeInv, TradeOK, EquitySymbol
<1>2. /\ results' = [results EXCEPT ![e.symbol] = {id}]
      /\ Add({Stock}, x)
  BY <1>1 DEF ApplyEquity, TradeOK
<1>3. /\ x.id = id /\ x.kind = e.kind /\ x.at = e.at
      /\ x.above_market = Stronger(e, Benchmark(e, MarketSymbol))
      /\ x.above_sector = Stronger(e, Benchmark(e, SectorSymbol))
  BY <1>1 DEF EquityEvent, TradeOK
<1> HIDE DEF x
<1>4. /\ DOMAIN held' = Symbol /\ DOMAIN held'[Stock] = Kind
      /\ \/ held'[Stock] = held[Stock]
         \/ /\ held'[Stock][e.kind] = {x}
            /\ \A kind \in Kind \ {e.kind} : held'[Stock][kind] = held[Stock][kind]
  BY <1>1, <1>2, <1>3, Held, SMTT(30) DEF HeldInv
<1>5. DOMAIN results' = EquitySymbol /\ LastResults'
  BY <1>1, <1>2 DEF HeldInv, LastResults
<1>6. ASSUME NEW kind \in Kind, NEW h \in held'[Stock][kind]
      PROVE  h \in held[Stock][kind] \/ (h = x /\ kind = e.kind)
  BY <1>4, <1>6
<1>7. \A kind \in Kind : \A g, h \in held'[Stock][kind] : g = h
  BY <1>4 DEF HeldInv, HeldTrades
<1>8. /\ "options" \in Kind /\ "equity" \in Kind
      /\ \A h \in held'[Stock]["options"] : h \in held[Stock]["options"]
  BY <1>6, FeatureConstantsOK
<1>9. HeldTrades'
  <2>1. \A kind \in Kind : \A h \in held'[Stock][kind] :
            h.id \in processed' /\ Tape[h.id].kind = kind /\ h.at = Tape[h.id].at
    BY <1>3, <1>6, HeldStill
  <2> QED
    BY <1>4, <1>7, <1>8, <2>1 DEF HeldInv, HeldTrades
<1>10. EquityEvidence'
  <2> SUFFICES ASSUME NEW h \in held'[Stock]["equity"]
               PROVE  /\ h.above_market => Beats(h, "market")'
                      /\ h.above_sector => Beats(h, "sector")'
    BY DEF EquityEvidence
  <2>1. CASE h \in held[Stock]["equity"]
    BY <2>1, BeatsStill DEF HeldInv, EquityEvidence
  <2>2. CASE h = x /\ e.kind = "equity"
    <3>1. e.symbol = Stock
      BY <1>1, <2>2 DEF TradeOK
    <3>2. ASSUME NEW symbol \in {MarketSymbol, SectorSymbol}, NEW kind,
                 kind = IF symbol = MarketSymbol THEN "market" ELSE "sector",
                 Stronger(e, Benchmark(e, symbol))
          PROVE  Beats(h, kind)'
      <4>1. PICK i \in results[symbol] :
                SameWindow(e, Tape[i]) /\ \E r \in Return(e), s \in Return(Tape[i]) : Exceeds(r, s)
        BY <3>1, <3>2 DEF Stronger, Benchmark
      <4>2. /\ i \in processed /\ i \in TradeIds
            /\ Tape[i].symbol = symbol /\ Tape[i].kind # "options"
        BY <3>2 DEF HeldInv, LastResults, EquitySymbol, TotalsInv, TypeInv
      <4>3. Tape[i].kind = kind
        BY <3>2, <4>2, TapeFacts, FeatureConstantsOK DEF TradeOK
      <4>4. i \in processed' /\ h.at = e.at /\ h.id = id
        BY <1>3, <2>2, <4>2
      <4> QED
        BY <4>1, <4>3, <4>4 DEF Beats, Processed, SameWindow
    <3> QED
      BY <1>3, <2>2, <3>2, FeatureConstantsOK
  <2>3. h \in held[Stock]["equity"] \/ (h = x /\ e.kind = "equity")
    BY <1>6, <1>8
  <2> QED
    BY <2>1, <2>2, <2>3
<1>11. OptionEvidence'
  BY <1>8, HeldStill DEF OptionEvidence
<1> QED
  BY <1>5, <1>9, <1>10, <1>11 DEF HeldInv

LEMMA HeldOption ==
  ASSUME TotalsInv, HeldInv, NEW id \in coming, processed' = processed \cup {id},
         Tape[id].kind = "options", ApplyOption(Tape[id]),
         OptionsExact', OptionTotalsType(option_totals'),
         option_totals'.session = DateOf[Tape[id].at]
  PROVE  HeldInv'
<1> DEFINE e == Tape[id]
           x == OptionEvent(e)
<1>1. id \in TradeIds /\ TradeOK(id, e) /\ e.kind \in Kind
  BY TapeFacts, FeatureConstantsOK DEF TotalsInv, TypeInv, TradeOK
<1>2. UNCHANGED results /\ Add({Stock}, x)
  BY DEF ApplyOption
<1>3. /\ x.id = id /\ x.kind = e.kind /\ x.at = e.at /\ OptionShape(x)
      /\ x.option_volume \in SUBSET {option_totals'.volume}
      /\ x.call_premium \in SUBSET {option_totals'.premium}
  BY <1>1 DEF OptionEvent, TradeOK, OptionShape
<1> HIDE DEF x
<1>4. /\ DOMAIN held' = Symbol /\ DOMAIN held'[Stock] = Kind
      /\ \/ held'[Stock] = held[Stock]
         \/ /\ held'[Stock][e.kind] = {x}
            /\ \A kind \in Kind \ {e.kind} : held'[Stock][kind] = held[Stock][kind]
  BY <1>1, <1>2, <1>3, Held, SMTT(30) DEF HeldInv
<1>5. DOMAIN results' = EquitySymbol /\ LastResults'
  BY <1>2 DEF HeldInv, LastResults
<1>6. ASSUME NEW kind \in Kind, NEW h \in held'[Stock][kind]
      PROVE  h \in held[Stock][kind] \/ (h = x /\ kind = e.kind)
  BY <1>4, <1>6
<1>7. \A kind \in Kind : \A g, h \in held'[Stock][kind] : g = h
  BY <1>4 DEF HeldInv, HeldTrades
<1>8. /\ "options" \in Kind /\ "equity" \in Kind
      /\ \A h \in held'[Stock]["equity"] : h \in held[Stock]["equity"]
  BY <1>6, FeatureConstantsOK
<1>9. HeldTrades'
  <2>1. \A kind \in Kind : \A h \in held'[Stock][kind] :
            h.id \in processed' /\ Tape[h.id].kind = kind /\ h.at = Tape[h.id].at
    BY <1>3, <1>6, HeldStill
  <2>2. \A h \in held'[Stock]["options"] : OptionShape(h)
    BY <1>3, <1>6, <1>8 DEF HeldInv, HeldTrades
  <2> QED
    BY <1>4, <1>7, <2>1, <2>2 DEF HeldTrades
<1>10. EquityEvidence'
  <2> SUFFICES ASSUME NEW h \in held'[Stock]["equity"]
               PROVE  /\ h.above_market => Beats(h, "market")'
                      /\ h.above_sector => Beats(h, "sector")'
    BY DEF EquityEvidence
  <2> QED
    BY <1>8, BeatsStill DEF HeldInv, EquityEvidence
<1>11. OptionEvidence'
  <2> SUFFICES ASSUME NEW h \in held'[Stock]["options"]
               PROVE  /\ \A v \in h.option_volume :
                            v \in Nat /\ v <= Sizes(EligibleCalls(DateOf[h.at])')
                      /\ \A p \in h.call_premium :
                            p \in Nat /\ p <= Values(AskCalls(DateOf[h.at])')
    BY DEF OptionEvidence
  <2>1. CASE h \in held[Stock]["options"]
    BY <2>1, HeldStill
  <2>2. CASE h = x
    <3>1. PICK d : d = DateOf[e.at]
      OBVIOUS
    <3>2. /\ option_totals'.volume = Sizes(EligibleCalls(d)') /\ option_totals'.volume \in Nat
          /\ option_totals'.premium = Values(AskCalls(d)') /\ option_totals'.premium \in Nat
      BY <3>1 DEF OptionsExact, OptionTotalsType
    <3> QED
      BY <1>3, <2>2, <3>1, <3>2
  <2> QED
    BY <1>6, <1>8, <2>1, <2>2
<1> QED
  BY <1>5, <1>9, <1>10, <1>11 DEF HeldInv

(* The timer refreshes the sweeps of the held option event.                *)
Refreshes(S) == held' = [held EXCEPT ![Stock]["options"] = {[h EXCEPT !.sweeps = S] : h \in @}]

LEMMA HeldTick ==
  ASSUME HeldTrades, NEW S, Refreshes(S)
  PROVE  /\ DOMAIN held' = Symbol /\ DOMAIN held'[Stock] = Kind
         /\ \A kind \in Kind \ {"options"} : held'[Stock][kind] = held[Stock][kind]
         /\ held[Stock]["options"] # {} => held'[Stock]["options"] # {}
         /\ \A g \in held'[Stock]["options"] : \E h \in held[Stock]["options"] :
               /\ OptionShape(g) /\ g.id = h.id /\ g.at = h.at
               /\ g.option_volume = h.option_volume /\ g.call_premium = h.call_premium
               /\ g.sweeps = S
         /\ \A g, h \in held'[Stock]["options"] : g = h
<1>1. Symbol = {Stock} /\ "options" \in Kind
  BY FeatureConstantsOK
<1>2. /\ DOMAIN held' = Symbol
      /\ held'[Stock] = [held[Stock] EXCEPT !["options"] = {[h EXCEPT !.sweeps = S] : h \in @}]
  BY <1>1 DEF HeldTrades, Refreshes
<1>3. /\ DOMAIN held'[Stock] = Kind
      /\ held'[Stock]["options"] = {[h EXCEPT !.sweeps = S] : h \in held[Stock]["options"]}
      /\ \A kind \in Kind \ {"options"} : held'[Stock][kind] = held[Stock][kind]
  BY <1>1, <1>2 DEF HeldTrades
<1>4. ASSUME NEW h \in held[Stock]["options"]
      PROVE  [h EXCEPT !.sweeps = S] =
                [id |-> h.id, kind |-> h.kind, sequence |-> h.sequence, at |-> h.at,
                 option_volume |-> h.option_volume, call_premium |-> h.call_premium, sweeps |-> S]
  <2>1. PICK i, k, n, at, v, p, w :
            h = [id |-> i, kind |-> k, sequence |-> n, at |-> at,
                 option_volume |-> v, call_premium |-> p, sweeps |-> w]
    BY DEF HeldTrades, OptionShape
  <2> QED
    BY <2>1
<1>5. ASSUME NEW g \in held'[Stock]["options"]
      PROVE  \E h \in held[Stock]["options"] :
               /\ OptionShape(g) /\ g.id = h.id /\ g.at = h.at
               /\ g.option_volume = h.option_volume /\ g.call_premium = h.call_premium
               /\ g.sweeps = S
  <2>1. PICK h \in held[Stock]["options"] : g = [h EXCEPT !.sweeps = S]
    BY <1>3
  <2>2. g = [id |-> h.id, kind |-> h.kind, sequence |-> h.sequence, at |-> h.at,
             option_volume |-> h.option_volume, call_premium |-> h.call_premium, sweeps |-> S]
    BY <1>4, <2>1
  <2> QED
    BY <2>2 DEF OptionShape
<1>6. \A g, h \in held'[Stock]["options"] : g = h
  BY <1>1, <1>3 DEF HeldTrades
<1>7. held[Stock]["options"] # {} => held'[Stock]["options"] # {}
  BY <1>3, ZenonT(40)
<1> QED
  BY <1>2, <1>3, <1>5, <1>6, <1>7

LEMMA HeldTicks ==
  ASSUME HeldInv, Tick
  PROVE  HeldInv'
<1>1. PICK S : S = sweeps'
  OBVIOUS
<1>2. Refreshes(S) /\ UNCHANGED <<results, processed>>
  BY <1>1 DEF Tick, Refreshes
<1>3. /\ DOMAIN held' = Symbol /\ DOMAIN held'[Stock] = Kind
      /\ \A kind \in Kind \ {"options"} : held'[Stock][kind] = held[Stock][kind]
      /\ \A g \in held'[Stock]["options"] : \E h \in held[Stock]["options"] :
            /\ OptionShape(g) /\ g.id = h.id /\ g.at = h.at
            /\ g.option_volume = h.option_volume /\ g.call_premium = h.call_premium
      /\ \A g, h \in held'[Stock]["options"] : g = h
  <2>1. HeldTrades
    BY DEF HeldInv
  <2> QED
    BY <1>2, <2>1, HeldTick
<1>4. "options" \in Kind /\ "equity" \in Kind \ {"options"}
  BY FeatureConstantsOK
<1>5. HeldTrades'
  <2>1. ASSUME NEW kind \in Kind, NEW h \in held'[Stock][kind]
        PROVE  /\ h.id \in processed' /\ Tape[h.id].kind = kind /\ h.at = Tape[h.id].at
               /\ \A g \in held'[Stock][kind] : g = h
    <3>1. CASE kind = "options"
      BY <1>2, <1>3, <1>4, <2>1, <3>1 DEF HeldInv, HeldTrades
    <3>2. CASE kind # "options"
      BY <1>2, <1>3, <2>1, <3>2 DEF HeldInv, HeldTrades
    <3> QED
      BY <3>1, <3>2
  <2> QED
    BY <1>3, <2>1 DEF HeldTrades
<1>6. LastResults' /\ DOMAIN results' = EquitySymbol
  BY <1>2 DEF HeldInv, LastResults
<1>7. \A kind, d : Processed(kind, d)' = Processed(kind, d)
  BY <1>2 DEF Processed
<1>8. EquityEvidence'
  <2>1. held'[Stock]["equity"] = held[Stock]["equity"]
    BY <1>3, <1>4
  <2> SUFFICES ASSUME NEW h \in held[Stock]["equity"]
               PROVE  /\ h.above_market => Beats(h, "market")'
                      /\ h.above_sector => Beats(h, "sector")'
    BY <2>1 DEF EquityEvidence
  <2> QED
    BY <1>2, BeatsStill DEF HeldInv, EquityEvidence
<1>9. OptionEvidence'
  <2>1. \A d : EligibleCalls(d)' = EligibleCalls(d) /\ AskCalls(d)' = AskCalls(d)
    BY <1>7 DEF EligibleCalls, AskCalls, Regular
  <2> SUFFICES ASSUME NEW g \in held'[Stock]["options"]
               PROVE  /\ \A v \in g.option_volume :
                            v \in Nat /\ v <= Sizes(EligibleCalls(DateOf[g.at])')
                      /\ \A p \in g.call_premium :
                            p \in Nat /\ p <= Values(AskCalls(DateOf[g.at])')
    BY DEF OptionEvidence
  <2>2. PICK h \in held[Stock]["options"] :
            /\ g.at = h.at
            /\ g.option_volume = h.option_volume /\ g.call_premium = h.call_premium
    BY <1>3
  <2>3. PICK d : d = DateOf[g.at]
    OBVIOUS
  <2> QED
    BY <2>1, <2>2, <2>3 DEF HeldInv, OptionEvidence
<1> QED
  BY <1>5, <1>6, <1>8, <1>9 DEF HeldInv

LEMMA HeldInit == FeaturesInit => HeldInv
<1>1. "equity" \in Kind /\ "options" \in Kind /\ Symbol = {Stock}
  BY FeatureConstantsOK
<1> QED
  BY <1>1 DEF FeaturesInit, SynchronizerInit, HeldInv, HeldTrades, LastResults,
              EquityEvidence, OptionEvidence

LEMMA HeldStep == TotalsInv /\ HeldInv /\ [FeaturesNext]_feature_vars => HeldInv'
<1> SUFFICES ASSUME TotalsInv, HeldInv, [FeaturesNext]_feature_vars PROVE HeldInv'
  OBVIOUS
<1>1. ASSUME UNCHANGED <<held, results, processed>> PROVE HeldInv'
  BY <1>1, SMTT(30) DEF HeldInv, HeldTrades, LastResults, EquityEvidence, OptionEvidence, Beats,
              EligibleCalls, AskCalls, Regular, Processed
<1>2. ASSUME NEW at, OpenSession(at) PROVE HeldInv'
  <2>1. /\ held' = [s \in Symbol |-> [kind \in Kind |-> {}]]
        /\ results' = [symbol \in EquitySymbol |-> {}]
    BY <1>2 DEF OpenSession, ResetSynchronizers
  <2>2. Stock \in Symbol
    BY FeatureConstantsOK
  <2> QED
    BY <2>1, <2>2, HeldEmpty
<1>3. ASSUME NEW at, CloseOfSession(at) PROVE HeldInv'
  BY <1>1, <1>3 DEF CloseOfSession, synchronizer
<1>4. ASSUME NEW id \in coming, Process(Tape[id]) PROVE HeldInv'
  <2>1. /\ id \in TradeIds /\ TradeOK(id, Tape[id])
        /\ InTime(Tape[id].at) /\ now' = now /\ processed' = processed \cup {id}
    BY <1>4, TapeFacts DEF Process, TotalsInv, TypeInv, TradeOK
  <2>2. CASE Tape[id].kind = "options"
    <3>1. ApplyOption(Tape[id])
      BY <1>4, <2>2 DEF Process
    <3>2. option_totals' = OptionTotals(Tape[id])
      BY <3>1 DEF ApplyOption
    <3>3. OptionsExact' /\ OptionTotalsType(option_totals') /\ option_totals'.session = DateOf[now]
      BY <2>1, <2>2, <3>2, OptionCounted DEF TotalsInv, TotalsExact
    <3>4. DateOf[Tape[id].at] = DateOf[now]
      BY <2>1, InTimeToday DEF TotalsInv, TypeInv
    <3> QED
      BY <2>1, <2>2, <3>1, <3>3, <3>4, HeldOption
  <2>3. CASE Tape[id].kind # "options"
    <3>1. ApplyEquity(Tape[id])
      BY <1>4, <2>3 DEF Process
    <3> QED
      BY <2>1, <2>3, <3>1, HeldEquity
  <2> QED
    BY <2>2, <2>3
<1>5. CASE Tick
  BY <1>5, HeldTicks
<1>6. CASE Advance
  BY <1>1, <1>6 DEF Advance, synchronizer
<1>7. CASE UNCHANGED feature_vars
  BY <1>1, <1>7 DEF feature_vars, features, synchronizer
<1>8. ASSUME NEW at, PassesBy(at) PROVE HeldInv'
  BY <1>1, <1>8 DEF PassesBy, synchronizer
<1> QED
  BY <1>2, <1>3, <1>4, <1>5, <1>6, <1>7, <1>8 DEF FeaturesNext

-----------------------------------------------------------------------------
(* The day.  The date of what a sweep was seen in runs, and what is held   *)
(* when the session of the present date has opened is of that date.        *)

Seen(t) == t \in Session /\ t <= now /\ (DateOf[t] = DateOf[now] => Running(DateOf[now]))

SweepShape == sweeps = [gate |-> sweeps.gate, latest |-> sweeps.latest]

SweepsSeen ==
    /\ \A t \in sweeps.latest : Seen(t)
    /\ \A h \in held[Stock]["options"] : \A t \in h.sweeps.latest : Seen(t)
    /\ \A id \in processed : Tape[id].at \in Session => Seen(Tape[id].at)

HeldToday ==
    OpenOn(now) => \A kind \in Kind : \A h \in held[Stock][kind] : DateOf[h.at] = DateOf[now]

CallInv == \A at \in entered : Deliverable(at) /\ phase = PhaseOf[at] /\ date = DateOf[at]

DayInv == TokenInv /\ CallInv /\ SweepShape /\ SweepsSeen /\ HeldToday

LEMMA SeenStill ==
  ASSUME NEW t, Seen(t), now' = now, \A d : Running(d) => Running(d)'
  PROVE  Seen(t)'
BY DEF Seen, Running

LEMMA DayInit == FeaturesInit => DayInv
<1> SUFFICES ASSUME FeaturesInit PROVE DayInv
  OBVIOUS
<1>1. Stock \in Symbol /\ "options" \in Kind
  BY FeatureConstantsOK
<1>2. /\ now \in Instant /\ \A u \in Instant : now <= u
      /\ phase = None /\ tokens = {} /\ entered = {} /\ sweeps = NoSweep /\ processed = {}
  BY FirstInstantExists DEF FeaturesInit, ClockInit
<1>3. TokenInv
  <2>1. \A t \in Instant : ~(t < now)
    BY <1>2, InstantsAreNat
  <2> QED
    BY <1>2, <2>1 DEF TokenInv, OpenOn, None
<1>4. held[Stock]["options"] = {}
  BY <1>1 DEF FeaturesInit, SynchronizerInit
<1> QED
  BY <1>2, <1>3, <1>4 DEF DayInv, CallInv, SweepShape, SweepsSeen, HeldToday, NoSweep, OpenOn

(* A call that begins with a boundary.                                     *)
LEMMA DayOpens ==
  ASSUME now \in Instant, DayInv, NEW at, OpenSession(at)
  PROVE  DayInv'
<1>1. /\ Begins(at) /\ Deliverable(at) /\ entered' = {at} /\ now' = now
      /\ sweeps' = NoSweep /\ processed' = {}
  BY DEF OpenSession, Begins
<1>2. TokenInv' /\ phase' = PhaseOf[at] /\ date' = DateOf[at]
  BY <1>1, TokenBegins DEF DayInv
<1>3. \A kind \in Kind : held'[Stock][kind] = {}
  BY FeatureConstantsOK DEF OpenSession, ResetSynchronizers
<1>4. CallInv'
  BY <1>1, <1>2 DEF CallInv, Deliverable
<1>5. "options" \in Kind
  BY FeatureConstantsOK
<1> QED
  BY <1>1, <1>2, <1>3, <1>4, <1>5 DEF DayInv, SweepShape, SweepsSeen, HeldToday, NoSweep

LEMMA DayCloses ==
  ASSUME now \in Instant, DayInv, NEW at, CloseOfSession(at)
  PROVE  DayInv'
<1>1. /\ Begins(at) /\ Deliverable(at) /\ entered' = {at} /\ now' = now
      /\ UNCHANGED <<sweeps, held, processed>>
      /\ tokens' = tokens \cup {<<date, "close">>}
  BY DEF CloseOfSession, Begins, synchronizer, PassClose, CloseToken
<1>2. TokenInv' /\ phase' = PhaseOf[at] /\ date' = DateOf[at]
  BY <1>1, TokenBegins DEF DayInv
<1>3. CallInv'
  BY <1>1, <1>2 DEF CallInv, Deliverable
<1>4. OpenOn(now)' <=> OpenOn(now)
  BY <1>1 DEF OpenOn
<1>5. SweepsSeen'
  <2>1. \A t : Seen(t) => Seen(t)'
    BY <1>1, RunsOn, SeenStill
  <2> QED
    BY <1>1, <2>1 DEF DayInv, SweepsSeen
<1>6. HeldToday'
  BY <1>1, <1>4 DEF DayInv, HeldToday
<1> QED
  BY <1>1, <1>2, <1>3, <1>5, <1>6 DEF DayInv, SweepShape

(* The rest of a call.                                                     *)
LEMMA DayEnters ==
  ASSUME now \in Instant, DayInv, NEW at, Deliverable(at), InCall(at), now' = now
  PROVE  Enters(at) /\ TokenInv' /\ tokens' = tokens /\ \A t : Seen(t) => Seen(t)'
<1>1. Enters(at)
  <2>1. CASE entered = {} /\ NoBoundary(at)
    BY <2>1 DEF Enters, NoBoundary, EnterPhase
  <2>2. CASE entered = {at} /\ UNCHANGED session
    BY <2>2 DEF DayInv, CallInv, Enters, session
  <2> QED
    BY <2>1, <2>2 DEF InCall
<1>2. TokenInv' /\ tokens' = tokens /\ missed \subseteq missed'
  BY <1>1, TokenEnters DEF DayInv
<1>3. \A d : Running(d) => Running(d)'
  BY <1>2 DEF Running
<1>4. \A t : Seen(t) => Seen(t)'
  BY <1>3, SeenStill
<1> QED
  BY <1>1, <1>2, <1>4

LEMMA DayPassesBy ==
  ASSUME now \in Instant, DayInv, NEW at, PassesBy(at)
  PROVE  DayInv'
<1>1. /\ Deliverable(at) /\ InCall(at) /\ now' = now /\ entered' = {}
      /\ UNCHANGED <<sweeps, held, processed>>
  BY DEF PassesBy, synchronizer
<1>2. TokenInv' /\ tokens' = tokens /\ \A t : Seen(t) => Seen(t)'
  BY <1>1, DayEnters
<1>3. SweepsSeen'
  BY <1>1, <1>2 DEF DayInv, SweepsSeen
<1>4. HeldToday'
  BY <1>1, <1>2 DEF DayInv, HeldToday, OpenOn
<1> QED
  BY <1>1, <1>2, <1>3, <1>4 DEF DayInv, SweepShape, CallInv

(* What a trade leaves held is what was held, or its own event.            *)
LEMMA ProcessHolds ==
  ASSUME TotalsInv, HeldInv, NEW id \in coming, Process(Tape[id])
  PROVE  /\ \A kind \in Kind : \A h \in held'[Stock][kind] :
               h \in held[Stock][kind] \/ h.at = Tape[id].at
         /\ \A h \in held'[Stock]["options"] :
               h \in held[Stock]["options"] \/ h.sweeps = sweeps'
<1> DEFINE e == Tape[id]
<1>1. TradeOK(id, e) /\ e.kind \in Kind /\ "options" \in Kind /\ "equity" \in Kind
  BY TapeFacts, FeatureConstantsOK DEF TotalsInv, TypeInv, TradeOK
<1>2. HeldTrades
  BY DEF HeldInv
<1>3. CASE e.kind = "options"
  <2> DEFINE x == OptionEvent(e)
  <2>1. x.kind = e.kind /\ x.at = e.at /\ x.sweeps = sweeps'
    BY DEF OptionEvent
  <2>2. Add({Stock}, x)
    BY <1>3 DEF Process, ApplyOption
  <2> HIDE DEF x
  <2>3. \/ held'[Stock] = held[Stock]
        \/ /\ held'[Stock][e.kind] = {x}
           /\ \A kind \in Kind \ {e.kind} : held'[Stock][kind] = held[Stock][kind]
    BY <1>1, <1>2, <2>1, <2>2, Held
  <2> QED
    BY <1>1, <1>3, <2>1, <2>3
<1>4. CASE e.kind # "options"
  <2> DEFINE x == EquityEvent(e, calculator'[e.symbol])
  <2>1. x.kind = e.kind /\ x.at = e.at
    BY DEF EquityEvent
  <2>2. Add({Stock}, x)
    BY <1>4 DEF Process, ApplyEquity
  <2> HIDE DEF x
  <2>3. \/ held'[Stock] = held[Stock]
        \/ /\ held'[Stock][e.kind] = {x}
           /\ \A kind \in Kind \ {e.kind} : held'[Stock][kind] = held[Stock][kind]
    BY <1>1, <1>2, <2>1, <2>2, Held
  <2> QED
    BY <1>1, <1>4, <2>1, <2>3
<1> QED
  BY <1>3, <1>4

LEMMA DayProcess ==
  ASSUME TotalsInv, HeldInv, DayInv, NEW id \in coming, Process(Tape[id])
  PROVE  DayInv'
<1> DEFINE e == Tape[id]
<1>1. /\ now \in Instant /\ now' = now /\ entered' = {} /\ id \in TradeIds
      /\ InTime(e.at) /\ InCall(e.at) /\ TradeOK(id, e) /\ processed' = processed \cup {id}
  BY TapeFacts DEF Process, TotalsInv, TypeInv, TradeOK
<1>3. DateOf[e.at] = DateOf[now] /\ e.at <= now /\ Deliverable(e.at)
  BY <1>1, InTimeToday
<1>2. Enters(e.at) /\ TokenInv' /\ tokens' = tokens /\ \A t : Seen(t) => Seen(t)'
  BY <1>1, <1>3, DayEnters
<1>4. \A i \in processed' : Tape[i].at \in Session => Seen(Tape[i].at)'
  <2>1. ASSUME e.at \in Session PROVE Seen(e.at)'
    <3>1. PICK open \in Instant :
              open <= e.at /\ DateOf[open] = DateOf[e.at] /\ PhaseOf[open] = "REGULAR"
      BY <2>1, SessionsApart
    <3>2. Running(DateOf[now])'
      BY <1>1, <1>2, <1>3, <3>1, SessionOpened DEF DayInv
    <3> QED
      BY <1>1, <1>3, <2>1, <3>2 DEF Seen, Running
  <2> QED
    BY <1>1, <1>2, <2>1 DEF DayInv, SweepsSeen
<1>5. /\ SweepShape'
      /\ \A t \in sweeps'.latest : Seen(t)'
  <2>1. CASE UNCHANGED sweeps
    BY <1>2, <2>1 DEF DayInv, SweepShape, SweepsSeen
  <2>2. CASE \E gate \in BOOLEAN, latest \in {{}} \cup {{t} : t \in SweepTimes} :
                sweeps' = [gate |-> gate, latest |-> latest]
    <3>1. \A t \in SweepTimes : Seen(t)'
      BY <1>4 DEF SweepTimes, EligibleOption, RegularSession
    <3>2. SweepShape'
      BY <2>2 DEF SweepShape
    <3>3. sweeps'.latest \subseteq SweepTimes
      BY <2>2
    <3> QED
      BY <3>1, <3>2, <3>3
  <2>3. CASE e.kind = "options"
    BY <2>1, <2>2, <2>3 DEF Process, ApplyOption, SweepsAfter
  <2>4. CASE e.kind # "options"
    BY <2>1, <2>4 DEF Process, ApplyEquity
  <2> QED
    BY <2>3, <2>4
<1>7. SweepsSeen'
  <2> SUFFICES ASSUME NEW h \in held'[Stock]["options"], NEW t \in h.sweeps.latest
               PROVE  Seen(t)'
    BY <1>4, <1>5 DEF SweepsSeen
  <2>1. CASE h.sweeps = sweeps'
    BY <1>5, <2>1
  <2>2. CASE h \in held[Stock]["options"]
    BY <1>2, <2>2 DEF DayInv, SweepsSeen
  <2> QED
    BY <2>1, <2>2, ProcessHolds
<1>8. HeldToday'
  <2> SUFFICES ASSUME OpenOn(now)', NEW kind \in Kind, NEW h \in held'[Stock][kind]
               PROVE  DateOf[h.at] = DateOf[now]
    BY <1>1 DEF HeldToday
  <2>1. OpenOn(now)
    BY <1>1, <1>2 DEF OpenOn
  <2> QED
    BY <1>3, <2>1, ProcessHolds DEF DayInv, HeldToday
<1> QED
  BY <1>1, <1>2, <1>5, <1>7, <1>8 DEF DayInv, CallInv

LEMMA DayTick ==
  ASSUME TotalsInv, HeldInv, DayInv, Tick
  PROVE  DayInv'
<1>1. now \in Instant /\ now' = now /\ entered' = {} /\ Deliverable(now) /\ InCall(now)
  BY NowDeliverable DEF Tick, TotalsInv, TypeInv
<1>2. TokenInv' /\ tokens' = tokens /\ \A t : Seen(t) => Seen(t)'
  BY <1>1, DayEnters
<1>3. PICK S : S = sweeps'
  OBVIOUS
<1>4. Refreshes(S) /\ HeldTrades
  BY <1>3 DEF Tick, Refreshes, HeldInv
<1>5. SweepShape' /\ sweeps'.latest \subseteq sweeps.latest
  <2>1. PICK T : sweeps' = [sweeps EXCEPT !.latest = @ \ T]
    BY DEF Tick
  <2>2. PICK gate, latest : sweeps = [gate |-> gate, latest |-> latest]
    BY DEF DayInv, SweepShape
  <2>3. sweeps' = [gate |-> gate, latest |-> latest \ T]
    BY <2>1, <2>2
  <2> QED
    BY <2>2, <2>3 DEF SweepShape
<1>6. /\ \A t \in sweeps'.latest : Seen(t)'
      /\ \A id \in processed' : Tape[id].at \in Session => Seen(Tape[id].at)'
  <2>1. processed' = processed
    BY DEF Tick
  <2> QED
    BY <1>2, <1>5, <2>1 DEF DayInv, SweepsSeen
<1>7. SweepsSeen'
  <2> SUFFICES ASSUME NEW h \in held'[Stock]["options"] PROVE h.sweeps = sweeps'
    BY <1>6 DEF SweepsSeen
  <2> QED
    BY <1>3, <1>4, HeldTick
<1>8. HeldToday'
  <2> SUFFICES ASSUME OpenOn(now)', NEW kind \in Kind, NEW h \in held'[Stock][kind]
               PROVE  DateOf[h.at] = DateOf[now]
    BY <1>1 DEF HeldToday
  <2>1. OpenOn(now)
    BY <1>1, <1>2 DEF OpenOn
  <2>2. \E g \in held[Stock][kind] : g.at = h.at
    <3>1. CASE kind = "options"
      BY <1>4, <3>1, HeldTick
    <3>2. CASE kind # "options"
      BY <1>4, <3>2, HeldTick
    <3> QED
      BY <3>1, <3>2
  <2> QED
    BY <2>1, <2>2 DEF DayInv, HeldToday
<1> QED
  BY <1>1, <1>2, <1>5, <1>7, <1>8 DEF DayInv, CallInv

LEMMA DayTime ==
  ASSUME now \in Instant, DayInv, Advance
  PROVE  DayInv'
<1>1. TimePasses /\ entered = {} /\ UNCHANGED <<held, sweeps, entered, processed>>
  BY DEF Advance, synchronizer
<1>2. TokenInv' /\ (OpenOn(now)' => DateOf[now'] = DateOf[now] /\ OpenOn(now))
  BY <1>1, TokenTime DEF DayInv
<1>3. /\ now' \in Instant /\ now < now' /\ now \in Nat /\ now' \in Nat
      /\ UNCHANGED <<tokens, missed>>
  BY <1>1, InstantsAreNat DEF TimePasses, session
<1>4. ASSUME NEW t, Seen(t) PROVE Seen(t)'
  <2>1. t \in Session /\ t \in Instant /\ t \in Nat /\ t <= now
    BY <1>4, InstantsAreNat, IndicatorConstantsOK DEF Seen
  <2>2. ASSUME DateOf[t] = DateOf[now'] PROVE Running(DateOf[now])'
    <3>1. DateOf[now] = DateOf[t]
      BY <1>3, <2>1, <2>2, CalendarOK
    <3> QED
      BY <1>3, <1>4, <2>2, <3>1 DEF Seen, Running
  <2> QED
    BY <1>3, <2>1, <2>2 DEF Seen, Running
<1>5. SweepsSeen'
  BY <1>1, <1>4 DEF DayInv, SweepsSeen
<1>6. HeldToday'
  BY <1>1, <1>2 DEF DayInv, HeldToday
<1> QED
  BY <1>1, <1>2, <1>5, <1>6 DEF DayInv, CallInv, SweepShape

LEMMA DayStep == TotalsInv /\ HeldInv /\ DayInv /\ [FeaturesNext]_feature_vars => DayInv'
<1> SUFFICES ASSUME TotalsInv, HeldInv, DayInv, [FeaturesNext]_feature_vars PROVE DayInv'
  OBVIOUS
<1>1. now \in Instant
  BY DEF TotalsInv, TypeInv
<1>2. ASSUME NEW at, OpenSession(at) \/ CloseOfSession(at) \/ PassesBy(at) PROVE DayInv'
  BY <1>1, <1>2, DayOpens, DayCloses, DayPassesBy
<1>3. ASSUME NEW id \in coming, Process(Tape[id]) PROVE DayInv'
  BY <1>3, DayProcess
<1>4. CASE Tick
  BY <1>4, DayTick
<1>5. CASE Advance
  BY <1>1, <1>5, DayTime
<1>6. CASE UNCHANGED feature_vars
  BY <1>6 DEF feature_vars, features, synchronizer, clock, session, DayInv, TokenInv, CallInv,
              SweepShape, SweepsSeen, HeldToday, Seen, OpenOn, Running, Deliverable
<1> QED
  BY <1>2, <1>3, <1>4, <1>5, <1>6 DEF FeaturesNext

-----------------------------------------------------------------------------
(* The decision of the last step is about what is held, in a call of the   *)
(* present date.                                                           *)
MadeInv ==
    made = {} \/ \E as_of : /\ Deliverable(as_of) /\ DateOf[as_of] = DateOf[now]
                            /\ Complete(Stock)
                            /\ made = Decided(Item(held[Stock], as_of))

LEMMA MadeEvaluates ==
  ASSUME NEW e, NEW reasons, Evaluate(e, reasons), Deliverable(e.at),
         DateOf[e.at] = DateOf[now], now' = now
  PROVE  MadeInv'
<1>1. CASE made' = {}
  BY <1>1 DEF MadeInv
<1>2. CASE Current(Stock, e.at)' /\ made' = Decided(Item(held'[Stock], e.at))
  <2>1. Complete(Stock)' /\ Deliverable(e.at)'
    BY <1>2 DEF Current, Deliverable
  <2> QED
    BY <1>2, <2>1 DEF MadeInv
<1> QED
  BY <1>1, <1>2 DEF Evaluate

LEMMA MadeTicks ==
  ASSUME now \in Instant, HeldInv, Tick
  PROVE  MadeInv'
<1>1. CASE made' = {}
  BY <1>1 DEF MadeInv
<1>2. CASE Complete(Stock) /\ made' = Decided(Item(held'[Stock], now))
  <2>1. PICK S : S = sweeps'
    OBVIOUS
  <2>2. Refreshes(S) /\ HeldTrades
    BY <2>1 DEF Tick, Refreshes, HeldInv
  <2>3. Complete(Stock)'
    BY <1>2, <2>2, HeldTick DEF Complete
  <2>4. now' = now /\ Deliverable(now)'
    BY NowDeliverable DEF Tick, Deliverable
  <2> QED
    BY <1>2, <2>3, <2>4 DEF MadeInv
<1> QED
  BY <1>1, <1>2 DEF Tick

LEMMA MadeStep ==
  TotalsInv /\ HeldInv /\ MadeInv /\ [FeaturesNext]_feature_vars => MadeInv'
<1> SUFFICES ASSUME TotalsInv, HeldInv, MadeInv, [FeaturesNext]_feature_vars PROVE MadeInv'
  OBVIOUS
<1>1. ASSUME NEW at, OpenSession(at) \/ CloseOfSession(at) \/ PassesBy(at) PROVE MadeInv'
  BY <1>1 DEF OpenSession, CloseOfSession, PassesBy, MadeInv
<1>2. ASSUME NEW id \in coming, Process(Tape[id]) PROVE MadeInv'
  <2>1. now \in Instant /\ id \in TradeIds /\ InTime(Tape[id].at) /\ now' = now
    BY <1>2 DEF Process, TotalsInv, TypeInv
  <2>2. Deliverable(Tape[id].at) /\ DateOf[Tape[id].at] = DateOf[now]
    BY <2>1, InTimeToday
  <2> QED
    BY <1>2, <2>1, <2>2, MadeEvaluates DEF Process
<1>3. CASE Tick
  BY <1>3, MadeTicks DEF TotalsInv, TypeInv
<1>4. CASE Advance
  BY <1>4 DEF Advance, MadeInv
<1>5. CASE UNCHANGED feature_vars
  BY <1>5 DEF feature_vars, features, synchronizer, clock, MadeInv, Deliverable, Complete
<1> QED
  BY <1>1, <1>2, <1>3, <1>4, <1>5 DEF FeaturesNext

-----------------------------------------------------------------------------
FireInv == TotalsInv /\ HeldInv /\ DayInv /\ MadeInv

LEMMA FireInvInit == FeaturesInit => FireInv
BY TotalsInit, HeldInit, DayInit DEF FireInv, MadeInv, FeaturesInit

LEMMA FireInvStep == FireInv /\ [FeaturesNext]_feature_vars => FireInv'
BY TotalsStep, HeldStep, DayStep, MadeStep DEF FireInv

(* Of each kind a single event is held, which the item is of.              *)
LEMMA ItemOf ==
  ASSUME HeldInv, NEW equity \in held[Stock]["equity"], NEW options \in held[Stock]["options"],
         NEW as_of, NEW item, item = Item(held[Stock], as_of)
  PROVE  /\ item.as_of = as_of /\ item.sweeps = options.sweeps
         /\ item.above_market = equity.above_market /\ item.above_sector = equity.above_sector
         /\ item.equity_delta = Return(Tape[equity.id])
         /\ item.option_volume = options.option_volume
         /\ item.call_premium = options.call_premium
         /\ item.open_interest = OpenInterest[Tape[options.id].contract]
<1>1. "equity" \in Kind /\ "options" \in Kind
  BY FeatureConstantsOK
<1>2. (CHOOSE h \in held[Stock]["equity"] : TRUE) = equity
  BY <1>1 DEF HeldInv, HeldTrades
<1>3. (CHOOSE h \in held[Stock]["options"] : TRUE) = options
  BY <1>1 DEF HeldInv, HeldTrades
<1> QED
  BY <1>2, <1>3 DEF Item

(* A sweep that is fresh for a call of the present date was of that date.  *)
LEMMA FreshToday ==
  ASSUME now \in Instant, NEW as_of, Deliverable(as_of), DateOf[as_of] = DateOf[now],
         NEW t, Seen(t), as_of - t < SignalFreshness
  PROVE  Running(DateOf[now])
<1>1. as_of \in Instant /\ as_of <= now /\ DateOf[as_of] = DateOf[now]
  BY DEF Deliverable
<1>2. t \in Session /\ t \in Instant /\ t <= now
  BY IndicatorConstantsOK DEF Seen
<1>3. t \in Nat /\ as_of \in Nat /\ now \in Nat /\ SignalFreshness \in Nat
  BY <1>1, <1>2, InstantsAreNat, SignalConstantsOK
<1>4. DateOf[t] = DateOf[as_of]
  <2>1. CASE t < as_of
    <3> SUFFICES ASSUME DateOf[t] # DateOf[as_of] PROVE FALSE
      OBVIOUS
    <3>1. as_of - t >= SignalFreshness
      BY <1>1, <1>2, <2>1, SessionsApart
    <3> QED
      BY <1>3, <3>1
  <2>2. CASE as_of < t /\ t < now
    BY <1>1, <1>2, <2>2, CalendarOK
  <2>3. CASE t = as_of \/ t = now
    BY <1>1, <2>3
  <2> QED
    BY <1>2, <1>3, <2>1, <2>2, <2>3
<1> QED
  BY <1>1, <1>4 DEF Seen

LEMMA SumsAreNat == \A S \in SUBSET TradeIds : Sizes(S) \in Nat /\ Values(S) \in Nat
<1> SUFFICES ASSUME NEW S \in SUBSET TradeIds PROVE Sizes(S) \in Nat /\ Values(S) \in Nat
  OBVIOUS
<1>1. IsFiniteSet(S)
  BY TapeFacts, FS_Subset
<1>2. /\ SumFunctionOnSet([id \in TradeIds |-> Tape[id].size], S) \in Nat
      /\ SumFunctionOnSet([id \in TradeIds |-> Tape[id].price * Tape[id].size], S) \in Nat
  BY <1>1, TapeFacts, SumNat
<1> QED
  BY <1>2 DEF Sizes, Values, TradeIds

(* What a decision that fires was made of.                                 *)
LEMMA FiredOn ==
  ASSUME FireInv, NEW d \in made, d.fire
  PROVE  \E as_of, item : \E equity \in held[Stock]["equity"], options \in held[Stock]["options"] :
            /\ DateOf[as_of] = DateOf[now] /\ d.as_of = as_of /\ Running(DateOf[now])
            /\ item = Item(held[Stock], as_of) /\ Options(item) /\ Equity(item)
<1>1. PICK as_of : /\ Deliverable(as_of) /\ DateOf[as_of] = DateOf[now]
                   /\ Complete(Stock) /\ made = Decided(Item(held[Stock], as_of))
  BY DEF FireInv, MadeInv
<1>2. PICK item : item = Item(held[Stock], as_of)
  OBVIOUS
<1>3. "equity" \in Kind /\ "options" \in Kind
  BY FeatureConstantsOK
<1>4. PICK equity \in held[Stock]["equity"], options \in held[Stock]["options"] : TRUE
  BY <1>1, <1>3 DEF Complete
<1>5. item.as_of = as_of /\ item.sweeps = options.sweeps
  BY <1>2, ItemOf DEF FireInv
<1>6. d.as_of = as_of /\ Executable(item)
  BY <1>1, <1>2, <1>5 DEF Decided
<1>7. Options(item) /\ Equity(item) /\ Recent(item)
  BY <1>6 DEF Executable, Fresh
<1>8. PICK t \in options.sweeps.latest : as_of - t < SignalFreshness
  BY <1>5, <1>7 DEF Recent
<1>9. Running(DateOf[now])
  <2>1. Seen(t)
    BY <1>8 DEF FireInv, DayInv, SweepsSeen
  <2> QED
    BY <1>1, <1>8, <2>1, FreshToday DEF FireInv, TotalsInv, TypeInv
<1> QED
  BY <1>1, <1>2, <1>6, <1>7, <1>9

LEMMA FireInvToday == FireInv => FiresToday
<1> SUFFICES ASSUME FireInv, NEW d \in made, d.fire, DateOf[d.as_of] \notin missed,
                    NEW kind \in Kind, NEW h \in held[Stock][kind]
             PROVE  DateOf[h.at] = DateOf[d.as_of] /\ DateOf[h.at] = BootstrapSession
  BY DEF FiresToday
<1>1. PICK as_of, item : \E equity \in held[Stock]["equity"], options \in held[Stock]["options"] :
            /\ DateOf[as_of] = DateOf[now] /\ d.as_of = as_of /\ Running(DateOf[now])
            /\ item = Item(held[Stock], as_of) /\ Options(item) /\ Equity(item)
  BY FiredOn
<1>2. PICK equity \in held[Stock]["equity"], options \in held[Stock]["options"] : TRUE
  BY <1>1
<1>3. item.equity_delta = Return(Tape[equity.id]) /\ "equity" \in Kind
  BY <1>1, <1>2, ItemOf, FeatureConstantsOK DEF FireInv
<1>4. \E close : close \in PreviousClose(Tape[equity.id].symbol, DateOf[Tape[equity.id].at])
  BY <1>1, <1>3 DEF Equity, Positive, Return
<1>5. DateOf[Tape[equity.id].at] = BootstrapSession /\ equity.at = Tape[equity.id].at
  BY <1>2, <1>3, <1>4 DEF PreviousClose, FireInv, HeldInv, HeldTrades
<1>6. OpenOn(now) /\ DateOf[d.as_of] = DateOf[now]
  BY <1>1 DEF Running, OpenOn
<1>7. DateOf[h.at] = DateOf[now] /\ DateOf[equity.at] = DateOf[now]
  BY <1>2, <1>3, <1>6 DEF FireInv, DayInv, HeldToday
<1> QED
  BY <1>5, <1>6, <1>7

LEMMA FireInvJustified == FireInv => FireJustified
<1> SUFFICES ASSUME FireInv, NEW d \in made, d.fire PROVE FireJustified
  BY DEF FireJustified, Fired
<1>1. PICK as_of, item : \E equity \in held[Stock]["equity"], options \in held[Stock]["options"] :
            /\ DateOf[as_of] = DateOf[now] /\ d.as_of = as_of /\ Running(DateOf[now])
            /\ item = Item(held[Stock], as_of) /\ Options(item) /\ Equity(item)
  BY FiredOn
<1>2. PICK equity \in held[Stock]["equity"], options \in held[Stock]["options"] : TRUE
  BY <1>1
<1>3. /\ item.above_market = equity.above_market /\ item.above_sector = equity.above_sector
      /\ item.option_volume = options.option_volume /\ item.call_premium = options.call_premium
      /\ item.open_interest = OpenInterest[Tape[options.id].contract]
  BY <1>1, <1>2, ItemOf DEF FireInv
<1>4. "equity" \in Kind /\ "options" \in Kind
  BY FeatureConstantsOK
<1>5. /\ \A h \in held[Stock]["equity"] : h = equity
      /\ \A h \in held[Stock]["options"] : h = options
  BY <1>4 DEF FireInv, HeldInv, HeldTrades
<1>6. Beats(equity, "market") /\ Beats(equity, "sector")
  BY <1>1, <1>3 DEF FireInv, HeldInv, EquityEvidence, Equity
<1>7. PICK day : day = DateOf[options.at]
  OBVIOUS
<1>8. /\ EligibleCalls(day) \in SUBSET TradeIds /\ AskCalls(day) \in SUBSET TradeIds
  BY DEF EligibleCalls, AskCalls, Regular, Processed, FireInv, TotalsInv, TypeInv
<1>9. Sizes(EligibleCalls(day)) \in Nat /\ Values(AskCalls(day)) \in Nat
  BY <1>8, SumsAreNat
<1>10. Values(AskCalls(day)) >= MinCallPremium
  <2>1. PICK p \in options.call_premium : p >= MinCallPremium
    BY <1>1, <1>3 DEF Options, AtLeast
  <2>2. p \in Nat /\ p <= Values(AskCalls(day))
    BY <1>7, <2>1 DEF FireInv, HeldInv, OptionEvidence
  <2> QED
    BY <1>9, <2>1, <2>2, SignalConstantsOK
<1>11. \E oi \in OpenInterest[Tape[options.id].contract] :
            Sizes(EligibleCalls(day)) >= MinRatio * oi
  <2>1. PICK v \in options.option_volume, oi \in OpenInterest[Tape[options.id].contract] :
            v >= MinRatio * oi
    BY <1>1, <1>3 DEF Options
  <2>2. v \in Nat /\ v <= Sizes(EligibleCalls(day))
    BY <1>7, <2>1 DEF FireInv, HeldInv, OptionEvidence
  <2>3. Tape[options.id].kind = "options" /\ options.id \in TradeIds
    BY <1>4 DEF FireInv, HeldInv, HeldTrades, TotalsInv, TypeInv
  <2>4. oi \in Nat /\ MinRatio \in Nat
    BY <2>1, <2>3, TapeFacts, SignalConstantsOK DEF TradeOK
  <2>5. MinRatio * oi \in Nat
    BY <2>4
  <2> QED
    BY <1>9, <2>1, <2>2, <2>5
<1> QED
  BY <1>5, <1>6, <1>7, <1>10, <1>11 DEF FireJustified, Beats

(* No decision fires that the day's own trades do not justify: the stock   *)
(* rose more than the market and the sector did in a trade of the same     *)
(* minute, and enough calls were bought at the ask (signals.py:29-45).     *)
THEOREM FiresJustified == FeaturesSpec => []FireJustified
BY FireInvInit, FireInvStep, FireInvJustified, PTL DEF FeaturesSpec

(* On a day whose open is not missed no decision fires on events of an     *)
(* earlier one, or without the day's history, on the timer's stale states  *)
(* too; however late the timestamps that move the phase (pipeline.py:605). *)
THEOREM FiresOnToday == FeaturesSpec => []FiresToday
BY FireInvInit, FireInvStep, FireInvToday, PTL DEF FeaturesSpec
=============================================================================
