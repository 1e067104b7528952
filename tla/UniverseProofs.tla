--------------------------- MODULE UniverseProofs ---------------------------
(***************************************************************************)
(* The plan of a universe run, for any catalog, prices and limits.         *)
(*                                                                         *)
(* The allocation is fair for any number of symbols, any ranked contracts  *)
(* and any limits.  What a symbol has taken is a function of the number of *)
(* whole rounds and of the turn (RoundsEven); what it was given is the     *)
(* same function at the step at which the capacity was used up             *)
(* (SharesEven), or at the present step if it is not (GivenWhileOpen).     *)
(*                                                                         *)
(* What the stages before it keep of the catalog follows from the sorting: *)
(* it ranks every entry once (SortsAll), so cutting the ranks at a limit   *)
(* parts the entries into two.  That a contract is decided once follows    *)
(* from the candidates being the ranked contracts of each symbol, without  *)
(* repeats, taken one by one.                                              *)
(*                                                                         *)
(* The plan itself is stated over places, a symbol and a rank within its   *)
(* limit: at every step the places taken are those the rounds come to      *)
(* first, and selected are the first Capacity of them (SelectedInOrder).   *)
(* When all are taken this is Planned, and every step brings that nearer   *)
(* (Descends).                                                             *)
(***************************************************************************)
EXTENDS Universe, SequenceTheorems, FiniteSetTheorems, FunctionTheorems, TLAPS

Least(m, n) == IF m < n THEN m ELSE n
Served(s, p) == IF s < p THEN 1 ELSE 0

AllocationTypes(Contracts) ==
    /\ candidates \in [Symbol -> Seq(Contracts)]
    /\ indices \in [Symbol -> Nat]
    /\ selected \in Seq(Contracts)
    /\ selected_per_symbol \in [Symbol -> Nat]
    /\ excluded \in Seq([symbol : Symbol, contract : Contracts, rank : Nat])
    /\ turn \in 1..(Symbols + 1)
    /\ progressed \in BOOLEAN

RoundsEven ==
    \E r \in Nat : \A s \in Symbol :
        indices[s] = Least(Len(candidates[s]), r + Served(s, turn))

SharesEven ==
    \E q \in Nat : \E p \in 1..(Symbols + 1) : \A s \in Symbol :
        selected_per_symbol[s] =
            Least(Least(Len(candidates[s]), MaxContractsPerSymbol), q + Served(s, p))

GivenWhileOpen ==
    Len(selected) < Capacity => \A s \in Symbol :
        selected_per_symbol[s] = Least(indices[s], MaxContractsPerSymbol)

GivenWasTaken == \A s \in Symbol : selected_per_symbol[s] <= indices[s]

ExcludedBehind ==
    \A i \in DOMAIN excluded :
        selected_per_symbol[excluded[i].symbol] < indices[excluded[i].symbol]

WithinLimits ==
    /\ Len(selected) <= Capacity
    /\ \A s \in Symbol : selected_per_symbol[s] <= MaxContractsPerSymbol

AllocationInv(Contracts) ==
    /\ AllocationTypes(Contracts)
    /\ RoundsEven
    /\ SharesEven
    /\ GivenWhileOpen
    /\ GivenWasTaken
    /\ ExcludedBehind
    /\ WithinLimits

-----------------------------------------------------------------------------
(* The common capacity is the smaller of two positive limits.              *)
LEMMA CapacityPositive == Capacity \in Nat \ {0}
BY LimitsPositive DEF Capacity

(* The counts are natural numbers.                                         *)
LEMMA Numbers ==
    /\ MaxContractsPerSymbol \in Nat \ {0}
    /\ 1 \in 1..(Symbols + 1)
    /\ Symbol \subseteq Nat
BY LimitsPositive DEF Symbol

(* What an exclusion record holds.                                         *)
LEMMA ExcludedTypes ==
    ASSUME NEW Contracts, AllocationTypes(Contracts), NEW i \in DOMAIN excluded
    PROVE  excluded[i].symbol \in Symbol
<1> DEFINE Record == [symbol : Symbol, contract : Contracts, rank : Nat]
<1>1. excluded \in Seq(Record)
    BY DEF AllocationTypes
<1> HIDE DEF Record
<1>2. excluded[i] \in Record
    BY <1>1, LenProperties
<1> USE DEF Record
<1> QED BY <1>2

(* What is taken in a turn.                                                *)
LEMMA TurnTypes ==
    ASSUME NEW Contracts, AllocationTypes(Contracts), NEW s \in Symbol, Remaining(s)
    PROVE  Contract(s) \in Contracts /\ Rank(s) \in Nat
BY LimitsPositive DEF AllocationTypes, Remaining, Contract, Rank

(* A taken contract keeps the rounds even.                                 *)
LEMMA TakeEven ==
    ASSUME NEW Contracts, AllocationInv(Contracts), NEW s \in Symbol, Take(s)
    PROVE  /\ turn' \in 1..(Symbols + 1)
           /\ indices' \in [Symbol -> Nat]
           /\ \E r \in Nat : /\ \A t \in Symbol :
                                 indices'[t] = Least(Len(candidates[t]), r + Served(t, s + 1))
                             /\ indices[s] = r
           /\ RoundsEven'
<1>1. turn' \in 1..(Symbols + 1) /\ turn' = s + 1
    BY LimitsPositive DEF Take, NextSymbol, Symbol
<1>2. indices' \in [Symbol -> Nat]
    BY DEF Take, AllocationInv, AllocationTypes
<1>3. PICK r \in Nat : \A t \in Symbol :
          indices[t] = Least(Len(candidates[t]), r + Served(t, turn))
    BY DEF AllocationInv, RoundsEven
<1>4. \A t \in Symbol : Len(candidates[t]) \in Nat
    BY DEF AllocationInv, AllocationTypes
<1>5. indices[s] = r
    <2>1. indices[s] = Least(Len(candidates[s]), r) /\ indices[s] < Len(candidates[s])
        BY <1>3, <1>4 DEF Take, Remaining, Served, Symbol
    <2> QED BY <2>1, <1>4 DEF Least
<1>6. \A t \in Symbol : indices'[t] = Least(Len(candidates[t]), r + Served(t, s + 1))
    <2> TAKE t \in Symbol
    <2>1. CASE t = s
        <3>1. indices'[s] = r + 1 /\ r < Len(candidates[s])
            BY <1>4, <1>5 DEF Take, Remaining, AllocationInv, AllocationTypes
        <3> QED BY <2>1, <3>1, <1>4 DEF Least, Served, Symbol
    <2>2. CASE t # s
        <3>1. indices'[t] = indices[t] /\ Served(t, s + 1) = Served(t, turn)
            BY <2>2 DEF Take, AllocationInv, AllocationTypes, Served, Symbol
        <3> QED BY <3>1, <1>3
    <2> QED BY <2>1, <2>2
<1>7. RoundsEven'
    BY <1>1, <1>6 DEF RoundsEven, Take
<1> QED BY <1>1, <1>2, <1>5, <1>6, <1>7

(* A turn that takes nothing, and a new round.                             *)
LEMMA SkipEven ==
    ASSUME NEW Contracts, AllocationInv(Contracts),
           (\E s \in Symbol : SkipSymbol(s)) \/ NextRound
    PROVE  AllocationInv(Contracts)'
<1>1. PICK r \in Nat : \A t \in Symbol :
          indices[t] = Least(Len(candidates[t]), r + Served(t, turn))
    BY DEF AllocationInv, RoundsEven
<1>2. \A t \in Symbol : Len(candidates[t]) \in Nat
    BY DEF AllocationInv, AllocationTypes
<1>3. turn' \in 1..(Symbols + 1) /\ progressed' \in BOOLEAN /\ RoundsEven'
    <2>1. ASSUME NEW s \in Symbol, SkipSymbol(s)
          PROVE  turn' \in 1..(Symbols + 1) /\ progressed' \in BOOLEAN /\ RoundsEven'
        <3>1. turn' = s + 1 /\ turn = s /\ progressed' \in BOOLEAN
            BY <2>1 DEF SkipSymbol, AllocationInv, AllocationTypes
        <3>2. indices[s] = Len(candidates[s]) /\ Len(candidates[s]) <= r
            BY <1>1, <1>2, <2>1, <3>1 DEF SkipSymbol, Remaining, Least, Served, Symbol
        <3>3. \A t \in Symbol : indices[t] = Least(Len(candidates[t]), r + Served(t, s + 1))
            BY <1>1, <1>2, <3>1, <3>2 DEF Least, Served, Symbol
        <3> QED BY <2>1, <3>1, <3>3, LimitsPositive DEF SkipSymbol, RoundsEven, Symbol
    <2>2. ASSUME NextRound
          PROVE  turn' \in 1..(Symbols + 1) /\ progressed' \in BOOLEAN /\ RoundsEven'
        <3>1. \A t \in Symbol : indices[t] = Least(Len(candidates[t]), (r + 1) + Served(t, 1))
            BY <1>1, <1>2, <2>2, LimitsPositive
            DEF NextRound, Served, Symbol, AllocationInv, AllocationTypes
        <3>2. r + 1 \in Nat
            OBVIOUS
        <3>3. RoundsEven'
            BY <2>2, <3>1, <3>2 DEF NextRound, RoundsEven
        <3>4. turn' \in 1..(Symbols + 1)
            BY <2>2, LimitsPositive DEF NextRound
        <3>5. progressed' \in BOOLEAN
            BY <2>2 DEF NextRound
        <3> QED BY <3>3, <3>4, <3>5
    <2> QED BY <2>1, <2>2
<1>4. UNCHANGED <<candidates, indices, selected, selected_per_symbol, excluded>>
    BY DEF SkipSymbol, NextRound
<1> QED BY <1>3, <1>4 DEF AllocationInv, AllocationTypes, SharesEven, GivenWhileOpen,
                         GivenWasTaken, ExcludedBehind, WithinLimits, Capacity

(* A contract is selected while there is room: everybody has got what he   *)
(* took, so the shares are those of this very step.                        *)
LEMMA SelectEven ==
    ASSUME NEW Contracts, AllocationInv(Contracts), NEW s \in Symbol, SelectContract(s)
    PROVE  AllocationInv(Contracts)'
<1>1. Take(s) /\ HasRoom(s) /\ Len(selected) < Capacity
    BY DEF SelectContract, HasRoom
<1>2. PICK r \in Nat : /\ \A t \in Symbol :
                           indices'[t] = Least(Len(candidates[t]), r + Served(t, s + 1))
                       /\ indices[s] = r
    BY <1>1, TakeEven
<1>3. /\ \A t \in Symbol : Len(candidates[t]) \in Nat
      /\ indices' \in [Symbol -> Nat]
      /\ RoundsEven'
      /\ turn' \in 1..(Symbols + 1)
    <2>1. \A t \in Symbol : Len(candidates[t]) \in Nat
        BY DEF AllocationInv, AllocationTypes
    <2> QED BY <1>1, <2>1, TakeEven
<1>4. \A t \in Symbol : selected_per_symbol'[t] = Least(indices'[t], MaxContractsPerSymbol)
    <2>1. \A t \in Symbol : selected_per_symbol[t] = Least(indices[t], MaxContractsPerSymbol)
        BY <1>1 DEF AllocationInv, GivenWhileOpen
    <2> TAKE t \in Symbol
    <2>2. CASE t = s
        <3>1. selected_per_symbol[s] < MaxContractsPerSymbol
            BY <1>1 DEF HasRoom
        <3>2. selected_per_symbol[s] = indices[s]
            BY <2>1, <3>1, Numbers DEF Least, AllocationInv, AllocationTypes
        <3>3. selected_per_symbol'[s] = indices[s] + 1 /\ indices'[s] = indices[s] + 1
            BY <3>2, <1>1 DEF SelectContract, Take, AllocationInv, AllocationTypes
        <3> QED BY <2>2, <3>1, <3>2, <3>3, LimitsPositive
                DEF Least, AllocationInv, AllocationTypes
    <2>3. CASE t # s
        BY <2>1, <2>3, <1>1 DEF SelectContract, Take, AllocationInv, AllocationTypes
    <2> QED BY <2>2, <2>3
<1>5. SharesEven'
    <2>1. s + 1 \in 1..(Symbols + 1) /\ candidates' = candidates
        BY <1>1, LimitsPositive DEF Symbol, Take
    <2>2. \A t \in Symbol : selected_per_symbol'[t] =
              Least(Least(Len(candidates[t]), MaxContractsPerSymbol), r + Served(t, s + 1))
        BY <1>2, <1>3, <1>4, LimitsPositive, SMTT(30) DEF Least, Served, Symbol
    <2> QED BY <2>1, <2>2 DEF SharesEven
<1>6. Contract(s) \in Contracts
    BY <1>1, TurnTypes DEF AllocationInv, Take
<1>7. AllocationTypes(Contracts)'
    BY <1>1, <1>3, <1>6, SMTT(30) DEF SelectContract, Take, AllocationInv, AllocationTypes
<1>8. WithinLimits'
    <2>1. Len(selected') = Len(selected) + 1
        BY <1>6 DEF SelectContract, AllocationInv, AllocationTypes
    <2>2. Len(selected') <= Capacity
        BY <2>1, <1>1, CapacityPositive DEF AllocationInv, AllocationTypes
    <2>3. \A t \in Symbol : selected_per_symbol'[t] <= MaxContractsPerSymbol
        BY <1>3, <1>4, LimitsPositive DEF Least
    <2> QED BY <2>2, <2>3 DEF WithinLimits, Capacity
<1>9. GivenWhileOpen'
    BY <1>4 DEF GivenWhileOpen
<1>10. ExcludedBehind'
    <2> SUFFICES ASSUME NEW i \in DOMAIN excluded
                 PROVE  selected_per_symbol'[excluded[i].symbol] < indices'[excluded[i].symbol]
        BY DEF SelectContract, ExcludedBehind
    <2>1. excluded[i].symbol \in Symbol
        BY ExcludedTypes DEF AllocationInv
    <2>2. selected_per_symbol[excluded[i].symbol] < indices[excluded[i].symbol]
        BY DEF AllocationInv, ExcludedBehind
    <2> QED BY <2>1, <2>2, <1>1, SMTT(30) DEF SelectContract, Take, AllocationInv, AllocationTypes
<1>11. GivenWasTaken'
    BY <1>1 DEF SelectContract, Take, GivenWasTaken, AllocationInv, AllocationTypes
<1> QED BY <1>3, <1>5, <1>7, <1>8, <1>9, <1>10, <1>11 DEF AllocationInv

(* A contract is excluded: nobody is given anything.                       *)
LEMMA ExcludeEven ==
    ASSUME NEW Contracts, AllocationInv(Contracts), NEW s \in Symbol, ExcludeContract(s)
    PROVE  AllocationInv(Contracts)'
<1>1. Take(s) /\ ~HasRoom(s)
    BY DEF ExcludeContract
<1>2. indices' \in [Symbol -> Nat] /\ RoundsEven' /\ turn' \in 1..(Symbols + 1)
    BY <1>1, TakeEven
<1>3. UNCHANGED <<candidates, selected, selected_per_symbol>>
    BY DEF ExcludeContract, Take
<1>4. Contract(s) \in Contracts /\ Rank(s) \in Nat
    BY <1>1, TurnTypes DEF AllocationInv, Take
<1>5. AllocationTypes(Contracts)'
    BY <1>1, <1>2, <1>3, <1>4 DEF ExcludeContract, Take, AllocationInv, AllocationTypes
<1>6. GivenWhileOpen'
    <2> SUFFICES ASSUME Len(selected) < Capacity, NEW t \in Symbol
                 PROVE  selected_per_symbol[t] = Least(indices'[t], MaxContractsPerSymbol)
        BY <1>3 DEF GivenWhileOpen, Capacity
    <2>1. selected_per_symbol[t] = Least(indices[t], MaxContractsPerSymbol)
        BY DEF AllocationInv, GivenWhileOpen
    <2>2. CASE t = s
        <3>1. selected_per_symbol[s] >= MaxContractsPerSymbol
            BY <1>1, LimitsPositive DEF HasRoom, AllocationInv, AllocationTypes
        <3>2. indices'[s] = indices[s] + 1
            BY <1>1 DEF Take, AllocationInv, AllocationTypes
        <3> QED BY <2>1, <2>2, <3>1, <3>2, LimitsPositive
                DEF Least, AllocationInv, AllocationTypes
    <2>3. CASE t # s
        BY <2>1, <2>3, <1>1 DEF Take, AllocationInv, AllocationTypes
    <2> QED BY <2>2, <2>3
<1>7. GivenWasTaken'
    BY <1>1, <1>3 DEF Take, GivenWasTaken, AllocationInv, AllocationTypes
<1>8. ExcludedBehind'
    <2>1. \A t \in Symbol : indices[t] <= indices'[t]
        BY <1>1 DEF Take, AllocationInv, AllocationTypes
    <2>2. selected_per_symbol[s] < indices'[s]
        BY <1>1 DEF Take, GivenWasTaken, AllocationInv, AllocationTypes
    <2> SUFFICES ASSUME NEW i \in DOMAIN excluded'
                 PROVE  selected_per_symbol[excluded'[i].symbol] < indices'[excluded'[i].symbol]
        BY <1>3 DEF ExcludedBehind
    <2>3. CASE i \in DOMAIN excluded
        <3>1. excluded[i].symbol \in Symbol
            BY <2>3, ExcludedTypes DEF AllocationInv
        <3>2. excluded'[i] = excluded[i]
            BY <1>4, <2>3 DEF ExcludeContract, AllocationInv, AllocationTypes
        <3>3. selected_per_symbol[excluded[i].symbol] < indices[excluded[i].symbol]
            BY <2>3 DEF AllocationInv, ExcludedBehind
        <3>4. /\ selected_per_symbol[excluded[i].symbol] \in Nat
              /\ indices[excluded[i].symbol] \in Nat
              /\ indices'[excluded[i].symbol] \in Nat
              /\ indices[excluded[i].symbol] <= indices'[excluded[i].symbol]
            BY <2>1, <3>1, <1>2 DEF AllocationInv, AllocationTypes
        <3> QED BY <3>2, <3>3, <3>4
    <2>4. CASE i \notin DOMAIN excluded
        <3>1. excluded'[i].symbol = s
            BY <1>4, <2>4 DEF ExcludeContract, AllocationInv, AllocationTypes
        <3> QED BY <2>2, <3>1
    <2> QED BY <2>3, <2>4
<1> QED BY <1>2, <1>3, <1>5, <1>6, <1>7, <1>8
        DEF AllocationInv, SharesEven, WithinLimits, Capacity

-----------------------------------------------------------------------------
(* The invariant holds when the allocation begins.                         *)
LEMMA AllocationStarts ==
    ASSUME NEW Contracts, AllocationInit, candidates \in [Symbol -> Seq(Contracts)]
    PROVE  AllocationInv(Contracts)
<1>1. \A s \in Symbol : Len(candidates[s]) \in Nat
    OBVIOUS
<1>2. AllocationTypes(Contracts)
    <2>1. /\ <<>> \in Seq(Contracts)
          /\ <<>> \in Seq([symbol : Symbol, contract : Contracts, rank : Nat])
        BY EmptySeq
    <2> QED BY <2>1, Numbers DEF AllocationInit, AllocationTypes
<1>3. RoundsEven /\ SharesEven
    <2>1. \A s \in Symbol : indices[s] = Least(Len(candidates[s]), 0 + Served(s, turn))
        BY <1>1 DEF AllocationInit, Least, Served, Symbol
    <2>2. \A s \in Symbol : selected_per_symbol[s] =
              Least(Least(Len(candidates[s]), MaxContractsPerSymbol), 0 + Served(s, 1))
        BY <1>1, LimitsPositive DEF AllocationInit, Least, Served, Symbol
    <2>3. 0 \in Nat /\ 1 \in 1..(Symbols + 1)
        BY Numbers
    <2>4. RoundsEven
        BY <2>1, <2>3 DEF RoundsEven
    <2>5. SharesEven
        BY <2>2, <2>3 DEF SharesEven
    <2> QED BY <2>4, <2>5
<1>4. GivenWhileOpen /\ GivenWasTaken /\ ExcludedBehind /\ WithinLimits
    BY LimitsPositive, CapacityPositive
    DEF AllocationInit, GivenWhileOpen, GivenWasTaken, ExcludedBehind, WithinLimits, Least
<1> QED BY <1>2, <1>3, <1>4 DEF AllocationInv

(* Every step preserves the invariant.                                     *)
LEMMA AllocationKeeps ==
    ASSUME NEW Contracts, AllocationInv(Contracts), [AllocationStep]_allocation
    PROVE  AllocationInv(Contracts)'
<1>1. CASE AllocationStep
    BY <1>1, SelectEven, ExcludeEven, SkipEven DEF AllocationStep
<1>2. CASE UNCHANGED allocation
    BY <1>2 DEF allocation, AllocationInv, AllocationTypes, RoundsEven, SharesEven,
        GivenWhileOpen, GivenWasTaken, ExcludedBehind, WithinLimits, Capacity
<1> QED BY <1>1, <1>2

(* The shares at the end of the capacity are even, so whoever is cut off   *)
(* had its turn as often as anyone, but for the symbols before it.         *)
LEMMA EvenIsFair ==
    ASSUME NEW Contracts, AllocationInv(Contracts)
    PROVE  FairShares
<1> SUFFICES ASSUME NEW s \in Symbol, NEW t \in Symbol, CutOff(s)
             PROVE  selected_per_symbol[t] <= selected_per_symbol[s] + (IF t < s THEN 1 ELSE 0)
    BY DEF FairShares
<1>1. \A u \in Symbol : Len(candidates[u]) \in Nat
    BY DEF AllocationInv, AllocationTypes
<1>2. PICK q \in Nat : \E p \in 1..(Symbols + 1) : \A u \in Symbol :
          selected_per_symbol[u] =
              Least(Least(Len(candidates[u]), MaxContractsPerSymbol), q + Served(u, p))
    BY DEF AllocationInv, SharesEven
<1>3. PICK p \in 1..(Symbols + 1) : \A u \in Symbol :
          selected_per_symbol[u] =
              Least(Least(Len(candidates[u]), MaxContractsPerSymbol), q + Served(u, p))
    BY <1>2
<1>4. selected_per_symbol[s] < Len(candidates[s])
    <2>1. selected_per_symbol[s] < indices[s]
        BY DEF CutOff, AllocationInv, ExcludedBehind
    <2>2. indices[s] <= Len(candidates[s])
        <3>1. PICK r \in Nat : \A u \in Symbol :
                  indices[u] = Least(Len(candidates[u]), r + Served(u, turn))
            BY DEF AllocationInv, RoundsEven
        <3>2. turn \in Int
            BY LimitsPositive DEF AllocationInv, AllocationTypes
        <3> QED BY <1>1, <3>1, <3>2, Numbers DEF Least, Served
    <2> QED BY <2>1, <2>2, <1>1 DEF AllocationInv, AllocationTypes
<1>5. selected_per_symbol[s] = q + Served(s, p)
    BY <1>1, <1>3, <1>4, LimitsPositive DEF CutOff, Least, Served, Symbol
<1>6. selected_per_symbol[t] <= q + Served(t, p)
    BY <1>1, <1>3, Numbers DEF Least, Served
<1>7. Served(t, p) <= Served(s, p) + (IF t < s THEN 1 ELSE 0)
    BY LimitsPositive DEF Served, Symbol
<1>8. Served(t, p) \in Int /\ Served(s, p) \in Int
    BY DEF Served
<1>9. selected_per_symbol[t] \in Nat
    BY DEF AllocationInv, AllocationTypes
<1> QED BY <1>5, <1>6, <1>7, <1>8, <1>9

(* A symbol cut off by the capacity has as many contracts as any other,    *)
(* but for the symbols before it, which may have one more.                 *)
THEOREM AllocationFair ==
    ASSUME NEW Contracts
    PROVE  AllocationSpec(Contracts) => []FairShares
<1>1. AllocationInit /\ candidates \in [Symbol -> Seq(Contracts)] => AllocationInv(Contracts)
    BY AllocationStarts
<1>2. AllocationInv(Contracts) /\ [AllocationStep]_allocation => AllocationInv(Contracts)'
    BY AllocationKeeps
<1>3. AllocationInv(Contracts) => FairShares
    BY EvenIsFair
<1> QED BY <1>1, <1>2, <1>3, PTL DEF AllocationSpec

(* Neither the capacity nor a symbol's limit is ever exceeded.             *)
THEOREM AllocationLimited ==
    ASSUME NEW Contracts
    PROVE  AllocationSpec(Contracts) => []WithinLimits
<1>1. AllocationInit /\ candidates \in [Symbol -> Seq(Contracts)] => AllocationInv(Contracts)
    BY AllocationStarts
<1>2. AllocationInv(Contracts) /\ [AllocationStep]_allocation => AllocationInv(Contracts)'
    BY AllocationKeeps
<1>3. AllocationInv(Contracts) => WithinLimits
    BY DEF AllocationInv
<1> QED BY <1>1, <1>2, <1>3, PTL DEF AllocationSpec
-----------------------------------------------------------------------------
(* Sorting.  A finite set in which B[x] is what comes before x, for a      *)
(* strict total order: the k-th of the sequence has k - 1 before it, and   *)
(* the sequence holds each element once.                                   *)
Orders(B, S) ==
    /\ B \in [S -> SUBSET S]
    /\ \A x \in S : x \notin B[x]
    /\ \A x, y \in S : y \in B[x] => B[y] \subseteq B[x]
    /\ \A x, y \in S : x = y \/ x \in B[y] \/ y \in B[x]

SortedBy(q, B, S) ==
    /\ q = [k \in 1 .. Cardinality(S) |-> q[k]]
    /\ \A k \in 1 .. Cardinality(S) :
          (\E x \in S : Cardinality(B[x]) = k - 1) => q[k] \in S /\ Cardinality(B[q[k]]) = k - 1

Lists(q, S) ==
    /\ q \in Seq(S) /\ Len(q) \in Nat
    /\ \A k, m \in 1 .. Len(q) : q[k] = q[m] => k = m
    /\ \A x \in S : \E k \in 1 .. Len(q) : q[k] = x

LEMMA RanksOnce ==
  ASSUME NEW S, IsFiniteSet(S), NEW B, Orders(B, S)
  PROVE  /\ Cardinality(S) \in Nat
         /\ \A x \in S : Cardinality(B[x]) + 1 \in 1 .. Cardinality(S)
         /\ \A x, y \in S : Cardinality(B[x]) = Cardinality(B[y]) => x = y
         /\ \A k \in 1 .. Cardinality(S) : \E x \in S : Cardinality(B[x]) = k - 1
<1> USE DEF Orders
<1> DEFINE M == 1 .. Cardinality(S)
           f == [x \in S |-> Cardinality(B[x]) + 1]
<1>1. Cardinality(S) \in Nat /\ IsFiniteSet(M) /\ Cardinality(M) = Cardinality(S)
  <2>1. Cardinality(S) \in Nat
    BY FS_CardinalityType
  <2> QED
    BY <2>1, FS_Interval
<1>2. ASSUME NEW x \in S
      PROVE  /\ IsFiniteSet(B[x]) /\ Cardinality(B[x]) \in Nat
             /\ Cardinality(B[x]) < Cardinality(S)
  <2>1. B[x] \in SUBSET S /\ B[x] # S
    OBVIOUS
  <2>2. IsFiniteSet(B[x]) /\ Cardinality(B[x]) <= Cardinality(S)
        /\ (Cardinality(B[x]) = Cardinality(S) => B[x] = S)
    BY <2>1, FS_Subset
  <2>3. Cardinality(B[x]) \in Nat
    BY <2>2, FS_CardinalityType
  <2> QED
    BY <1>1, <2>1, <2>2, <2>3
<1>3. \A x \in S : f[x] \in M
  BY <1>1, <1>2
<1>4. ASSUME NEW x \in S, NEW y \in S, y \in B[x] PROVE Cardinality(B[y]) # Cardinality(B[x])
  <2>1. B[y] \in SUBSET B[x] /\ B[y] # B[x]
    BY <1>4
  <2> QED
    BY <1>2, <2>1, FS_Subset
<1>5. \A x, y \in S : Cardinality(B[x]) = Cardinality(B[y]) => x = y
  BY <1>4
<1>6. \A k \in M : \E x \in S : f[x] = k
  <2>1. f \in Injection(S, M)
    <3>1. f \in [S -> M]
      BY <1>3
    <3>2. \A x, y \in S : f[x] = f[y] => x = y
      BY <1>2, <1>5
    <3> HIDE DEF f, M
    <3> QED
      BY <3>1, <3>2, Fun_IsInj
  <2> HIDE DEF f, M
  <2>2. f \in Surjection(S, M)
    BY <1>1, <2>1, FS_Injection
  <2> QED
    BY <2>2, Fun_SurjectionProperties
<1>7. \A k \in M : \E x \in S : Cardinality(B[x]) = k - 1
  <2> SUFFICES ASSUME NEW k \in M PROVE \E x \in S : Cardinality(B[x]) = k - 1
    OBVIOUS
  <2>1. PICK x \in S : f[x] = k
    BY <1>6
  <2>2. Cardinality(B[x]) + 1 = k /\ Cardinality(B[x]) \in Nat /\ k \in Int
    BY <1>1, <1>2, <2>1
  <2> QED
    BY <2>2
<1> QED
  BY <1>1, <1>3, <1>5, <1>7

LEMMA SortsAll ==
  ASSUME NEW S, IsFiniteSet(S), NEW B, Orders(B, S), NEW q, SortedBy(q, B, S)
  PROVE  /\ Lists(q, S) /\ Len(q) = Cardinality(S)
         /\ \A k \in 1 .. Len(q) : q[k] \in S /\ Cardinality(B[q[k]]) = k - 1
<1> USE DEF Orders, SortedBy, Lists
<1>1. /\ Cardinality(S) \in Nat
      /\ \A x \in S : Cardinality(B[x]) + 1 \in 1 .. Cardinality(S)
      /\ \A x, y \in S : Cardinality(B[x]) = Cardinality(B[y]) => x = y
      /\ \A k \in 1 .. Cardinality(S) : q[k] \in S /\ Cardinality(B[q[k]]) = k - 1
  BY RanksOnce
<1>2. q \in [1 .. Cardinality(S) -> S]
  BY <1>1
<1>3. q \in Seq(S) /\ Len(q) = Cardinality(S)
  BY <1>1, <1>2
<1>4. \A x \in S : \E k \in 1 .. Len(q) : q[k] = x
  <2> SUFFICES ASSUME NEW x \in S PROVE \E k \in 1 .. Len(q) : q[k] = x
    OBVIOUS
  <2>1. PICK k \in 1 .. Cardinality(S) : k = Cardinality(B[x]) + 1
    BY <1>1
  <2>2. IsFiniteSet(B[x]) /\ Cardinality(B[x]) \in Nat
    BY FS_Subset, FS_CardinalityType
  <2>3. Cardinality(B[q[k]]) = Cardinality(B[x])
    BY <1>1, <2>1, <2>2
  <2> QED
    BY <1>1, <1>3, <2>3
<1>5. \A k, m \in 1 .. Len(q) : q[k] = q[m] => k = m
  BY <1>1, <1>3
<1> QED
  BY <1>1, <1>3, <1>4, <1>5

-----------------------------------------------------------------------------
(* The entries, and the key both stages sort by.                           *)

UniverseTypes ==
    /\ discovered \subseteq DOMAIN Catalog
    /\ prices \in [Symbol -> Price]

LEMMA CatalogFacts ==
  /\ IsFiniteSet(DOMAIN Catalog) /\ DOMAIN Catalog \subseteq Nat
  /\ \A i \in DOMAIN Catalog : IdentityOf(i) \in Identity
<1> DEFINE Entry == [fields : Identity, occ : Identity, tradable : BOOLEAN]
<1>1. Catalog \in Seq(Entry)
  BY UniverseConstantsOK
<1>2. Len(Catalog) \in Nat /\ DOMAIN Catalog = 1 .. Len(Catalog)
  BY <1>1
<1>3. \A i \in DOMAIN Catalog : Catalog[i] \in Entry
  <2> HIDE DEF Entry
  <2> QED
    BY <1>1, <1>2, LenProperties
<1>4. IsFiniteSet(1 .. Len(Catalog))
  BY <1>2, FS_Interval
<1>5. \A i \in DOMAIN Catalog : Catalog[i].fields \in Identity
  BY <1>3
<1> QED
  BY <1>2, <1>4, <1>5 DEF IdentityOf

LEMMA IdentityParts ==
  ASSUME UniverseTypes, NEW c \in Identity
  PROVE  /\ c.symbol \in Symbol /\ c.expiration \in Nat /\ c.strike \in Nat /\ c.right \in {"C", "P"}
         /\ c = [symbol |-> c.symbol, expiration |-> c.expiration,
                 strike |-> c.strike, right |-> c.right]
         /\ Distance(c) \in Int
<1>1. /\ c.symbol \in Symbol /\ c.expiration \in Nat /\ c.strike \in Nat /\ c.right \in {"C", "P"}
      /\ c = [symbol |-> c.symbol, expiration |-> c.expiration,
              strike |-> c.strike, right |-> c.right]
  BY DEF Identity
<1>2. prices[c.symbol] \in Nat
  BY <1>1, UniverseConstantsOK DEF UniverseTypes
<1> QED
  BY <1>1, <1>2 DEF Distance

LEMMA KeyOrder ==
  ASSUME UniverseTypes, NEW c \in Identity, NEW d \in Identity, NEW e \in Identity
  PROVE  /\ ~Before(c, c)
         /\ Before(c, d) => ~Before(d, c)
         /\ Before(c, d) /\ Before(d, e) => Before(c, e)
         /\ ~Before(c, d) /\ ~Before(d, e) => ~Before(c, e)
         /\ (~Before(c, d) /\ ~Before(d, c)) => c.expiration = d.expiration /\ c.strike = d.strike
<1>1. /\ c.expiration \in Int /\ Distance(c) \in Int /\ c.strike \in Int
      /\ d.expiration \in Int /\ Distance(d) \in Int /\ d.strike \in Int
      /\ e.expiration \in Int /\ Distance(e) \in Int /\ e.strike \in Int
  BY IdentityParts
<1> QED
  BY <1>1 DEF Before

(* Contracts of a symbol of the same right differ in the key.              *)
LEMMA KeyNames ==
  ASSUME UniverseTypes, NEW c \in Identity, NEW d \in Identity,
         c.symbol = d.symbol, c.right = d.right, ~Before(c, d), ~Before(d, c)
  PROVE  c = d
BY IdentityParts, KeyOrder

LEMMA EntryOrder ==
  ASSUME UniverseTypes, NEW i \in DOMAIN Catalog, NEW j \in DOMAIN Catalog, NEW k \in DOMAIN Catalog
  PROVE  /\ ~EntryBefore(i, i)
         /\ EntryBefore(i, j) /\ EntryBefore(j, k) => EntryBefore(i, k)
         /\ i = j \/ EntryBefore(i, j) \/ EntryBefore(j, i)
<1>1. /\ IdentityOf(i) \in Identity /\ IdentityOf(j) \in Identity /\ IdentityOf(k) \in Identity
      /\ i \in Nat /\ j \in Nat /\ k \in Nat
  BY CatalogFacts
<1> DEFINE a == IdentityOf(i)
           b == IdentityOf(j)
           c == IdentityOf(k)
<1> HIDE DEF a, b, c
<1>2. ~Before(a, a) /\ (Before(a, b) => ~Before(b, a))
  BY <1>1, KeyOrder DEF a, b
<1>3. /\ Before(a, b) /\ Before(b, c) => Before(a, c)
      /\ ~Before(b, a) /\ Before(b, c) => Before(a, c) \/ ~Before(c, a)
      /\ ~Before(c, b) /\ ~Before(b, a) => ~Before(c, a)
  BY <1>1, KeyOrder DEF a, b, c
<1>4. /\ Before(a, b) /\ ~Before(c, b) => Before(a, c)
      /\ ~Before(b, a) /\ Before(b, c) => Before(a, c)
  BY <1>1, KeyOrder DEF a, b, c
<1>5. /\ EntryBefore(i, j) <=> (Before(a, b) \/ (~Before(b, a) /\ i < j))
      /\ EntryBefore(j, i) <=> (Before(b, a) \/ (~Before(a, b) /\ j < i))
      /\ EntryBefore(j, k) <=> (Before(b, c) \/ (~Before(c, b) /\ j < k))
      /\ EntryBefore(i, k) <=> (Before(a, c) \/ (~Before(c, a) /\ i < k))
      /\ EntryBefore(i, i) <=> (Before(a, a) \/ (~Before(a, a) /\ i < i))
  BY DEF EntryBefore, a, b, c
<1> QED
  BY <1>1, <1>2, <1>3, <1>4, <1>5

(* The entries of the nearest expiration are ranked, each once.            *)
LEMMA NearestRanked ==
  ASSUME UniverseTypes, NEW s \in Symbol
  PROVE  /\ Lists(RankedNearest(s), Nearest(s)) /\ IsFiniteSet(Nearest(s))
         /\ \A k \in 1 .. Len(RankedNearest(s)) :
               Cardinality({y \in Nearest(s) : EntryBefore(y, RankedNearest(s)[k])}) = k - 1
<1> DEFINE S == Nearest(s)
           q == RankedNearest(s)
           B == [x \in S |-> {y \in S : EntryBefore(y, x)}]
<1>1. S \subseteq DOMAIN Catalog /\ IsFiniteSet(S)
  <2>1. S \in SUBSET DOMAIN Catalog
    BY DEF Nearest, EligibleOf, UniverseTypes
  <2> QED
    BY <2>1, CatalogFacts, FS_Subset
<1>2. q = [k \in 1 .. Cardinality(S) |-> CHOOSE x \in S : Cardinality({y \in S : EntryBefore(y, x)}) = k - 1]
  BY DEF RankedNearest, Sorted
<1>3. /\ q = [k \in 1 .. Cardinality(S) |-> q[k]]
      /\ \A k \in 1 .. Cardinality(S) :
            (\E x \in S : Cardinality({y \in S : EntryBefore(y, x)}) = k - 1) =>
                q[k] \in S /\ Cardinality({y \in S : EntryBefore(y, q[k])}) = k - 1
  <2> DEFINE E(k) == CHOOSE x \in S : Cardinality({y \in S : EntryBefore(y, x)}) = k - 1
  <2>1. \A k : (\E x \in S : Cardinality({y \in S : EntryBefore(y, x)}) = k - 1) =>
                  E(k) \in S /\ Cardinality({y \in S : EntryBefore(y, E(k))}) = k - 1
    <3> HIDE DEF S
    <3> QED
      OBVIOUS
  <2>2. q = [k \in 1 .. Cardinality(S) |-> E(k)]
    BY <1>2
  <2> HIDE DEF S, q, E
  <2>3. q = [k \in 1 .. Cardinality(S) |-> q[k]]
    BY <2>2
  <2> QED
    BY <2>1, <2>2, <2>3
<1>4. Orders(B, S)
  <2> HIDE DEF S
  <2> QED
    BY <1>1, EntryOrder DEF Orders
<1>5. SortedBy(q, B, S)
  <2> HIDE DEF S, q
  <2> QED
    BY <1>3 DEF SortedBy
<1> HIDE DEF S, q
<1>6. /\ Lists(q, S)
      /\ \A k \in 1 .. Len(q) : q[k] \in S /\ Cardinality(B[q[k]]) = k - 1
  <2> HIDE DEF B
  <2> QED
    BY <1>1, <1>4, <1>5, SortsAll
<1>7. \A k \in 1 .. Len(q) : Cardinality({y \in S : EntryBefore(y, q[k])}) = k - 1
  BY <1>6
<1> QED
  BY <1>1, <1>6, <1>7 DEF S, q

-----------------------------------------------------------------------------
(* The candidates.                                                         *)

ShortlistOK ==
    /\ \A s \in Symbol : shortlist[s] \in Seq(DOMAIN Catalog)
    /\ \A s \in Symbol : \A i \in Range(shortlist[s]) :
          Eligible(i) /\ IdentityOf(i).symbol = s

(* What passes is on the shortlist.                                        *)
LEMMA LiquidListed ==
  ASSUME NEW s \in Symbol, shortlist[s] \in Seq(DOMAIN Catalog), NEW quoted
  PROVE  LET q == LiquidOf(s, quoted)
         IN  /\ IsFiniteSet(Range(q))
             /\ \A c \in Range(q) : \E i \in Range(shortlist[s]) : c = IdentityOf(i)
             /\ Range(q) = {IdentityOf(i) : i \in Range(shortlist[s])} \cap quoted
<1> DEFINE list == shortlist[s]
           S == {k \in DOMAIN list : IdentityOf(list[k]) \in quoted}
           q == Sorted(S, <)
           B == [x \in S |-> {y \in S : y < x}]
<1>1. DOMAIN list = 1 .. Len(list) /\ Len(list) \in Nat
  OBVIOUS
<1>2. IsFiniteSet(S) /\ S \subseteq Nat
  <2>1. IsFiniteSet(1 .. Len(list)) /\ S \in SUBSET (1 .. Len(list))
    BY <1>1, FS_Interval
  <2> QED
    BY <2>1, FS_Subset
<1>3. SortedBy(q, B, S)
  <2> DEFINE E(k) == CHOOSE x \in S : Cardinality({y \in S : y < x}) = k - 1
  <2>1. \A k : (\E x \in S : Cardinality({y \in S : y < x}) = k - 1) =>
                  E(k) \in S /\ Cardinality({y \in S : y < E(k)}) = k - 1
    <3> HIDE DEF S
    <3> QED
      OBVIOUS
  <2>2. q = [k \in 1 .. Cardinality(S) |-> E(k)]
    BY DEF Sorted
  <2> HIDE DEF S, q, E
  <2>3. q = [k \in 1 .. Cardinality(S) |-> q[k]]
    BY <2>2
  <2>4. \A k \in 1 .. Cardinality(S) : q[k] = E(k)
    BY <2>2
  <2>5. \A k \in 1 .. Cardinality(S) :
            (\E x \in S : Cardinality(B[x]) = k - 1) => q[k] \in S /\ Cardinality(B[q[k]]) = k - 1
    BY <2>1, <2>4
  <2> QED
    BY <2>3, <2>5 DEF SortedBy
<1>4. Orders(B, S)
  <2> HIDE DEF S
  <2>1. \A x \in S : ~(x < x)
    BY <1>2
  <2>2. \A x, y, z \in S : z < y /\ y < x => z < x
    BY <1>2
  <2>3. \A x, y \in S : x = y \/ x < y \/ y < x
    BY <1>2
  <2> QED
    BY <2>1, <2>2, <2>3 DEF Orders
<1>5. /\ LiquidOf(s, quoted) = [n \in DOMAIN q |-> IdentityOf(list[q[n]])]
      /\ \A k \in S : list[k] \in Range(list) /\ IdentityOf(list[k]) \in quoted
      /\ \A i \in Range(list) : IdentityOf(i) \in quoted => \E k \in S : list[k] = i
  BY DEF LiquidOf, Range
<1> HIDE DEF S, q, B, list
<1>6. Lists(q, S)
  BY <1>2, <1>3, <1>4, SortsAll
<1>7. q \in Seq(S) /\ DOMAIN q = 1 .. Len(q) /\ Len(q) \in Nat
  BY <1>6 DEF Lists
<1>8. ASSUME NEW c \in Range(LiquidOf(s, quoted)) PROVE \E i \in Range(list) : c = IdentityOf(i)
  <2>1. PICK n \in DOMAIN q : c = IdentityOf(list[q[n]])
    BY <1>5, <1>8 DEF Range
  <2>2. q[n] \in S
    BY <1>7, <2>1
  <2> QED
    BY <1>5, <2>1, <2>2
<1>10. Range(LiquidOf(s, quoted)) = {IdentityOf(i) : i \in Range(list)} \cap quoted
  <2>1. ASSUME NEW c \in Range(LiquidOf(s, quoted)) PROVE c \in quoted
    <3>1. PICK n \in DOMAIN q : c = IdentityOf(list[q[n]])
      BY <1>5, <2>1 DEF Range
    <3>2. q[n] \in S
      BY <1>7, <3>1
    <3> QED
      BY <1>5, <3>1, <3>2
  <2>2. ASSUME NEW i \in Range(list), IdentityOf(i) \in quoted
        PROVE  IdentityOf(i) \in Range(LiquidOf(s, quoted))
    <3>1. PICK k \in S : list[k] = i
      BY <1>5, <2>2
    <3>2. PICK n \in 1 .. Len(q) : q[n] = k
      BY <1>6 DEF Lists
    <3> QED
      BY <1>5, <1>7, <3>1, <3>2 DEF Range
  <2> QED
    BY <1>8, <2>1, <2>2
<1>9. IsFiniteSet(Range(LiquidOf(s, quoted)))
  <2>1. Range(LiquidOf(s, quoted)) = {IdentityOf(list[q[n]]) : n \in 1 .. Len(q)}
    BY <1>5, <1>7, SMTT(30) DEF Range
  <2>2. IsFiniteSet(1 .. Len(q))
    BY <1>7, FS_Interval
  <2> DEFINE g == [n \in 1 .. Len(q) |-> IdentityOf(list[q[n]])]
             T == {IdentityOf(list[q[n]]) : n \in 1 .. Len(q)}
  <2>3. IsFiniteSet(T)
    <3>1. g \in Surjection(1 .. Len(q), T)
      BY Fun_IsSurj
    <3> HIDE DEF g, T
    <3> QED
      BY <2>2, <3>1, FS_Surjection
  <2> QED
    BY <2>1, <2>3
<1> QED
  BY <1>8, <1>9, <1>10 DEF list

(* The candidates of a symbol are contracts of it, each once.              *)
CandidatesOf(s, q) ==
    /\ q \in Seq(Identity) /\ Len(q) \in Nat
    /\ \A k \in 1 .. Len(q) : q[k].symbol = s
    /\ \A k, m \in 1 .. Len(q) : q[k] = q[m] => k = m

(* They are ranked by the key.                                             *)
RankedIn(q, S) ==
    /\ Range(q) = S
    /\ \A k \in 1 .. Len(q) : Cardinality({d \in S : Before(d, q[k])}) = k - 1

LEMMA CandidatesRanked ==
  ASSUME UniverseTypes, NEW s \in Symbol, NEW accepted, IsFiniteSet(Range(accepted)),
         \A c \in Range(accepted) : c \in Identity /\ c.symbol = s /\ c.right = "C"
  PROVE  CandidatesOf(s, Ranked(accepted)) /\ RankedIn(Ranked(accepted), Range(accepted))
<1> DEFINE S == Range(accepted)
           q == Ranked(accepted)
           B == [x \in S |-> {y \in S : Before(y, x)}]
<1>1. \A c \in S : c \in Identity /\ c.symbol = s /\ c.right = "C"
  OBVIOUS
<1>2. IsFiniteSet(S)
  OBVIOUS
<1>3. SortedBy(q, B, S)
  <2> DEFINE E(k) == CHOOSE x \in S : Cardinality({y \in S : Before(y, x)}) = k - 1
  <2>1. \A k : (\E x \in S : Cardinality({y \in S : Before(y, x)}) = k - 1) =>
                  E(k) \in S /\ Cardinality({y \in S : Before(y, E(k))}) = k - 1
    <3> HIDE DEF S
    <3> QED
      OBVIOUS
  <2>2. q = [k \in 1 .. Cardinality(S) |-> E(k)]
    BY DEF Ranked, Sorted
  <2> HIDE DEF S, q, E
  <2>3. q = [k \in 1 .. Cardinality(S) |-> q[k]]
    BY <2>2
  <2>4. \A k \in 1 .. Cardinality(S) : q[k] = E(k)
    BY <2>2
  <2>5. \A k \in 1 .. Cardinality(S) :
            (\E x \in S : Cardinality(B[x]) = k - 1) => q[k] \in S /\ Cardinality(B[q[k]]) = k - 1
    BY <2>1, <2>4
  <2> QED
    BY <2>3, <2>5 DEF SortedBy
<1>4. Orders(B, S)
  <2> HIDE DEF S
  <2>1. \A x \in S : ~Before(x, x)
    BY <1>1, KeyOrder
  <2>2. \A x, y, z \in S : Before(z, y) /\ Before(y, x) => Before(z, x)
    BY <1>1, KeyOrder
  <2>3. \A x, y \in S : x = y \/ Before(x, y) \/ Before(y, x)
    BY <1>1, KeyNames
  <2> QED
    BY <2>1, <2>2, <2>3 DEF Orders
<1> HIDE DEF S, q
<1>5. /\ Lists(q, S)
      /\ \A k \in 1 .. Len(q) : q[k] \in S /\ Cardinality(B[q[k]]) = k - 1
  <2> HIDE DEF B
  <2> QED
    BY <1>2, <1>3, <1>4, SortsAll
<1>6. \A k \in 1 .. Len(q) : q[k] \in S /\ Cardinality({d \in S : Before(d, q[k])}) = k - 1
  BY <1>5
<1> HIDE DEF B
<1>7. q \in Seq(Identity)
  BY <1>1, <1>5, <1>6 DEF Lists
<1>8. Range(q) = S
  <2>1. DOMAIN q = 1 .. Len(q) /\ \A x \in S : \E k \in 1 .. Len(q) : q[k] = x
    BY <1>5 DEF Lists
  <2> QED
    BY <1>6, <2>1 DEF Range
<1> QED
  BY <1>1, <1>5, <1>6, <1>7, <1>8 DEF CandidatesOf, RankedIn, Lists, q, S

LEMMA LiquidCandidates ==
  ASSUME UniverseTypes, ShortlistOK, NEW s \in Symbol, NEW quoted
  PROVE  /\ CandidatesOf(s, Ranked(LiquidOf(s, quoted)))
         /\ RankedIn(Ranked(LiquidOf(s, quoted)), Range(LiquidOf(s, quoted)))
<1>1. shortlist[s] \in Seq(DOMAIN Catalog)
  BY DEF ShortlistOK
<1>2. ASSUME NEW c \in Range(LiquidOf(s, quoted))
      PROVE  c \in Identity /\ c.symbol = s /\ c.right = "C"
  <2>1. PICK i \in Range(shortlist[s]) : c = IdentityOf(i)
    BY <1>1, LiquidListed
  <2>2. i \in DOMAIN Catalog
    BY <1>1 DEF Range
  <2> QED
    BY <2>1, <2>2, CatalogFacts DEF ShortlistOK, Eligible
<1> QED
  BY <1>1, <1>2, LiquidListed, CandidatesRanked

-----------------------------------------------------------------------------
(* The shortlist and its exclusions.                                       *)

LEMMA MinOfTwo ==
  ASSUME NEW a \in Nat, NEW b \in Nat
  PROVE  Min({a, b}) \in {a, b} /\ Min({a, b}) <= a /\ Min({a, b}) <= b
<1>1. \E x \in {a, b} : \A y \in {a, b} : x <= y
  <2>1. CASE a <= b
    BY <2>1
  <2>2. CASE b <= a
    BY <2>2
  <2> QED
    BY <2>1, <2>2
<1> QED
  BY <1>1 DEF Min

(* The limit parts the ranked entries into the shortlist and the rest.     *)
LEMMA ShortlistCuts ==
  ASSUME UniverseTypes, NEW s \in Symbol
  PROVE  /\ Shortlist(s) \in Seq(Nearest(s))
         /\ Range(Shortlist(s)) \cup Overflow(s) = Nearest(s)
         /\ Range(Shortlist(s)) \cap Overflow(s) = {}
         /\ Range(Shortlist(s)) =
               {i \in Nearest(s) :
                   Cardinality({j \in Nearest(s) : EntryBefore(j, i)}) < MaxPerSymbol}
<1> DEFINE q == RankedNearest(s)
           S == Nearest(s)
           n == Min({MaxPerSymbol, Len(q)})
           Ahead(i) == {j \in S : EntryBefore(j, i)}
<1>1. Lists(q, S) /\ \A k \in 1 .. Len(q) : Cardinality(Ahead(q[k])) = k - 1
  BY NearestRanked
<1>2. /\ Shortlist(s) = SubSeq(q, 1, n)
      /\ Overflow(s) = {q[k] : k \in (MaxPerSymbol + 1) .. Len(q)}
  BY DEF Shortlist, Overflow
<1> HIDE DEF q, S, Ahead
<1>3. /\ q \in Seq(S) /\ Len(q) \in Nat
      /\ \A k, m \in 1 .. Len(q) : q[k] = q[m] => k = m
      /\ \A x \in S : \E k \in 1 .. Len(q) : q[k] = x
      /\ \A k \in 1 .. Len(q) : q[k] \in S
  BY <1>1 DEF Lists
<1>4. /\ MaxPerSymbol \in Nat
      /\ n \in Nat /\ n <= Len(q) /\ n <= MaxPerSymbol /\ (n = MaxPerSymbol \/ n = Len(q))
  BY <1>3, MinOfTwo, UniverseConstantsOK
<1> HIDE DEF n
<1>5. SubSeq(q, 1, n) \in Seq(S) /\ Range(SubSeq(q, 1, n)) = {q[k] : k \in 1 .. n}
  <2> DEFINE r == SubSeq(q, 1, n)
  <2>1. r \in Seq(S) /\ Len(r) = n /\ \A k \in 1 .. n : r[k] = q[k]
    BY <1>3, <1>4
  <2> HIDE DEF r
  <2>2. DOMAIN r = 1 .. n
    BY <2>1
  <2>3. Range(r) = {q[k] : k \in 1 .. n}
    BY <2>1, <2>2 DEF Range
  <2> QED
    BY <2>1, <2>3 DEF r
<1>6. {q[k] : k \in 1 .. n} \cup {q[k] : k \in (MaxPerSymbol + 1) .. Len(q)} = S
  <2>1. \A k \in 1 .. Len(q) : k \in 1 .. n \/ k \in (MaxPerSymbol + 1) .. Len(q)
    BY <1>3, <1>4
  <2>2. \A k \in 1 .. n : k \in 1 .. Len(q)
    BY <1>3, <1>4
  <2>3. \A k \in (MaxPerSymbol + 1) .. Len(q) : k \in 1 .. Len(q)
    BY <1>3, <1>4
  <2>4. \A x \in S : x \in {q[k] : k \in 1 .. n} \/ x \in {q[k] : k \in (MaxPerSymbol + 1) .. Len(q)}
    BY <1>3, <2>1
  <2>5. /\ \A x \in {q[k] : k \in 1 .. n} : x \in S
        /\ \A x \in {q[k] : k \in (MaxPerSymbol + 1) .. Len(q)} : x \in S
    BY <1>3, <2>2, <2>3, SMTT(30)
  <2> QED
    BY <2>4, <2>5
<1>7. {q[k] : k \in 1 .. n} \cap {q[k] : k \in (MaxPerSymbol + 1) .. Len(q)} = {}
  <2> SUFFICES ASSUME NEW k \in 1 .. n, NEW m \in (MaxPerSymbol + 1) .. Len(q), q[k] = q[m]
               PROVE  FALSE
    OBVIOUS
  <2>1. k \in 1 .. Len(q) /\ m \in 1 .. Len(q) /\ k # m
    BY <1>3, <1>4
  <2> QED
    BY <1>3, <2>1
<1>8. {q[k] : k \in 1 .. n} = {i \in S : Cardinality(Ahead(i)) < MaxPerSymbol}
  <2>1. ASSUME NEW k \in 1 .. n PROVE q[k] \in S /\ Cardinality(Ahead(q[k])) < MaxPerSymbol
    <3>1. k \in 1 .. Len(q) /\ k - 1 < MaxPerSymbol
      BY <1>3, <1>4
    <3> QED
      BY <1>1, <1>3, <3>1
  <2>2. ASSUME NEW i \in S, Cardinality(Ahead(i)) < MaxPerSymbol PROVE \E k \in 1 .. n : q[k] = i
    <3>1. PICK k \in 1 .. Len(q) : q[k] = i
      BY <1>3
    <3>2. k - 1 < MaxPerSymbol
      BY <1>1, <2>2, <3>1
    <3>3. k \in Nat /\ 1 <= k /\ k <= Len(q) /\ Len(q) \in Nat
      BY <1>3, <3>1
    <3>4. k \in 1 .. n
      BY <1>4, <3>2, <3>3
    <3> QED
      BY <3>1, <3>4
  <2> QED
    BY <2>1, <2>2
<1> QED
  BY <1>2, <1>5, <1>6, <1>7, <1>8 DEF S, Ahead

Parted ==
    stage \in {"enriching", "allocating", "planned"} =>
        /\ Shortlisted \cap coarse_exclusions = {}
        /\ \A i \in discovered \ (Shortlisted \cup coarse_exclusions) :
              \E j \in EligibleOf(IdentityOf(i).symbol) : Eligible(i) /\ Expires(j, i)

LEMMA NearestEligible ==
  ASSUME UniverseTypes, NEW s, NEW i \in Nearest(s)
  PROVE  i \in discovered /\ Eligible(i) /\ IdentityOf(i).symbol = s
BY DEF Nearest, EligibleOf

LEMMA EligibleStill ==
  ASSUME UNCHANGED <<discovered, prices>>
  PROVE  /\ \A i : Eligible(i)' = Eligible(i)
         /\ \A s : EligibleOf(s)' = EligibleOf(s)
<1>1. \A i : Eligible(i)' = Eligible(i)
  BY DEF Eligible, Mapped, IdentityOf, Distance
<1> QED
  BY <1>1 DEF EligibleOf, IdentityOf

LEMMA CoarseParts ==
  ASSUME UniverseTypes, CoarseSelect
  PROVE  UniverseTypes' /\ ShortlistOK' /\ Parted'
<1>1. /\ UNCHANGED <<discovered, prices>>
      /\ \A s \in Symbol : shortlist'[s] = Shortlist(s)
      /\ coarse_exclusions' =
            {i \in discovered : ~Eligible(i)} \cup UNION {Overflow(s) : s \in Symbol}
  BY DEF CoarseSelect
<1>2. UniverseTypes'
  BY <1>1 DEF UniverseTypes
<1>3. \A s \in Symbol : \A i \in Range(shortlist'[s]) : i \in Nearest(s)
  BY <1>1, ShortlistCuts
<1>4. ShortlistOK'
  <2>1. ASSUME NEW s \in Symbol PROVE shortlist'[s] \in Seq(DOMAIN Catalog)
    <3>1. Shortlist(s) \in Seq(Nearest(s)) /\ Nearest(s) \subseteq DOMAIN Catalog
      BY ShortlistCuts, NearestEligible DEF UniverseTypes
    <3> QED
      BY <1>1, <3>1
  <2>2. \A s \in Symbol : \A i \in Range(shortlist'[s]) : Eligible(i)' /\ IdentityOf(i).symbol = s
    BY <1>1, <1>3, NearestEligible, EligibleStill
  <2> QED
    BY <2>1, <2>2 DEF ShortlistOK, IdentityOf
<1>5. Shortlisted' \cap coarse_exclusions' = {}
  <2> SUFFICES ASSUME NEW s \in Symbol, NEW i \in Range(Shortlist(s)), i \in coarse_exclusions'
               PROVE  FALSE
    BY <1>1 DEF Shortlisted
  <2>1. i \in Nearest(s) /\ Eligible(i) /\ IdentityOf(i).symbol = s
    BY <1>1, <1>3, NearestEligible
  <2>2. PICK t \in Symbol : i \in Overflow(t)
    BY <1>1, <2>1
  <2>3. i \in Nearest(t)
    BY <2>2, ShortlistCuts
  <2>4. s = t
    BY <2>1, <2>3, NearestEligible
  <2> QED
    BY <2>2, <2>4, ShortlistCuts
<1>6. ASSUME NEW i \in discovered, i \notin Shortlisted', i \notin coarse_exclusions'
      PROVE  \E j \in EligibleOf(IdentityOf(i).symbol) : Eligible(i) /\ Expires(j, i)
  <2> DEFINE s == IdentityOf(i).symbol
  <2>1. Eligible(i) /\ i \in EligibleOf(s)
    BY <1>1, <1>6 DEF EligibleOf
  <2>2. i \in DOMAIN Catalog /\ s \in Symbol
    BY CatalogFacts, IdentityParts DEF UniverseTypes
  <2>3. i \notin Nearest(s)
    <3>1. i \notin Overflow(s)
      BY <1>1, <1>6, <2>2
    <3>2. i \notin Range(Shortlist(s))
      BY <1>1, <1>6, <2>2 DEF Shortlisted
    <3> QED
      BY <2>2, <3>1, <3>2, ShortlistCuts
  <2>4. PICK j \in EligibleOf(s) : ~(IdentityOf(i).expiration <= IdentityOf(j).expiration)
    BY <2>1, <2>3 DEF Nearest
  <2>5. IdentityOf(i).expiration \in Nat /\ IdentityOf(j).expiration \in Nat
    <3>1. j \in DOMAIN Catalog
      BY <2>4 DEF EligibleOf, UniverseTypes
    <3> QED
      BY <2>2, <3>1, CatalogFacts, IdentityParts
  <2>6. Expires(j, i)
    BY <2>4, <2>5 DEF Expires
  <2> QED
    BY <2>1, <2>6
<1>7. Parted'
  <2>1. \A i \in discovered : (i \notin Shortlisted' /\ i \notin coarse_exclusions') =>
            \E j \in EligibleOf(IdentityOf(i).symbol)' : Eligible(i)' /\ Expires(j, i)
    BY <1>1, <1>6, EligibleStill
  <2> QED
    BY <1>1, <1>5, <2>1 DEF Parted, IdentityOf, Expires
<1> QED
  BY <1>2, <1>4, <1>7

(* What the later stages leave alone stays as it is.                       *)
LEMMA PartsKept ==
  ASSUME UniverseTypes, ShortlistOK, Parted,
         UNCHANGED <<discovered, prices, shortlist, coarse_exclusions>>,
         stage' \in {"enriching", "allocating", "planned"} =>
             stage \in {"enriching", "allocating", "planned"}
  PROVE  UniverseTypes' /\ ShortlistOK' /\ Parted'
<1>1. UniverseTypes'
  BY DEF UniverseTypes
<1>2. ShortlistOK'
  BY EligibleStill DEF ShortlistOK, IdentityOf
<1>3. Shortlisted' = Shortlisted
  BY DEF Shortlisted
<1>4. \A s : EligibleOf(s)' = EligibleOf(s)
  BY EligibleStill
<1>5. Parted'
  BY <1>3, <1>4, EligibleStill DEF Parted, Expires, IdentityOf
<1> QED
  BY <1>1, <1>2, <1>5

-----------------------------------------------------------------------------
(* The allocation decides on each contract once.                           *)

CandidatesOnce == \A s \in Symbol : CandidatesOf(s, candidates[s])

(* What has been taken of the candidates.                                  *)
IsTaken(c) ==
    /\ c.symbol \in Symbol
    /\ \E k \in 1 .. indices[c.symbol] :
          k \in 1 .. Len(candidates[c.symbol]) /\ candidates[c.symbol][k] = c

DecidedOnce ==
    /\ \A i \in 1 .. Len(selected) : IsTaken(selected[i])
    /\ \A i \in 1 .. Len(excluded) : IsTaken(excluded[i].contract)
    /\ \A i, j \in 1 .. Len(selected) : selected[i] = selected[j] => i = j
    /\ \A i, j \in 1 .. Len(excluded) : excluded[i].contract = excluded[j].contract => i = j
    /\ \A i \in 1 .. Len(selected), j \in 1 .. Len(excluded) : selected[i] # excluded[j].contract

(* The contract whose turn it is has not been taken before.                *)
LEMMA TurnIsNew ==
  ASSUME AllocationTypes(Identity), CandidatesOnce, NEW s \in Symbol, Take(s),
         NEW next, next = Contract(s)
  PROVE  /\ ~IsTaken(next) /\ IsTaken(next)'
         /\ \A c : IsTaken(c) => IsTaken(c)'
         /\ CandidatesOnce'
<1>1. /\ indices[s] \in Nat /\ Len(candidates[s]) \in Nat /\ indices[s] < Len(candidates[s])
      /\ indices' = [indices EXCEPT ![s] = @ + 1] /\ candidates' = candidates
      /\ indices \in [Symbol -> Nat]
  BY DEF Take, Remaining, AllocationTypes
<1>2. /\ Rank(s) = indices[s] + 1 /\ Rank(s) \in 1 .. Len(candidates[s])
      /\ Contract(s) = candidates[s][Rank(s)]
  BY <1>1 DEF Rank, Contract
<1>3. CandidatesOf(s, candidates[s])
  BY DEF CandidatesOnce
<1>4. Contract(s).symbol = s
  BY <1>2, <1>3 DEF CandidatesOf
<1>5. ~IsTaken(Contract(s))
  <2> SUFFICES ASSUME NEW k \in 1 .. indices[s], k \in 1 .. Len(candidates[s]),
                      candidates[s][k] = Contract(s)
               PROVE  FALSE
    BY <1>4 DEF IsTaken
  <2>1. k = Rank(s)
    BY <1>2, <1>3 DEF CandidatesOf
  <2> QED
    BY <1>1, <1>2, <2>1
<1>6. \A t \in Symbol : indices'[t] \in Nat /\ indices[t] \in Nat /\ indices[t] <= indices'[t]
  BY <1>1
<1>7. ASSUME NEW c, IsTaken(c) PROVE IsTaken(c)'
  <2>1. PICK k \in 1 .. indices[c.symbol] :
            k \in 1 .. Len(candidates[c.symbol]) /\ candidates[c.symbol][k] = c
    BY <1>7 DEF IsTaken
  <2>2. c.symbol \in Symbol
    BY <1>7 DEF IsTaken
  <2>3. k \in 1 .. indices'[c.symbol]
    BY <1>6, <2>1, <2>2
  <2> QED
    BY <1>1, <2>1, <2>2, <2>3 DEF IsTaken
<1>8. IsTaken(next)'
  <2>1. /\ next.symbol = s /\ Rank(s) \in 1 .. indices'[s] /\ candidates'[s][Rank(s)] = next
        /\ Rank(s) \in 1 .. Len(candidates'[s])
    BY <1>1, <1>2, <1>4
  <2> QED
    BY <2>1 DEF IsTaken
<1> QED
  BY <1>1, <1>5, <1>7, <1>8 DEF CandidatesOnce

(* A contract that was not taken before is none of those decided.          *)
LEMMA SelectOnce ==
  ASSUME AllocationTypes(Identity), CandidatesOnce, DecidedOnce,
         NEW s \in Symbol, SelectContract(s)
  PROVE  CandidatesOnce' /\ DecidedOnce'
<1> DEFINE next == Contract(s)
           n == Len(selected)
<1>1. next \in Identity
  BY TurnTypes DEF SelectContract, Take
<1>2. PICK c : c = next
  OBVIOUS
<1>3. /\ ~IsTaken(c) /\ IsTaken(c)' /\ CandidatesOnce'
      /\ \A d : IsTaken(d) => IsTaken(d)'
  BY <1>2, TurnIsNew DEF SelectContract
<1>4. /\ selected \in Seq(Identity) /\ n \in Nat /\ excluded' = excluded
      /\ selected' = Append(selected, c) /\ c \in Identity
  BY <1>1, <1>2 DEF SelectContract, AllocationTypes
<1>5. /\ Len(selected') = n + 1 /\ selected'[n + 1] = c
      /\ \A i \in 1 .. n : selected'[i] = selected[i]
  BY <1>4
<1> HIDE DEF next, n
<1>6. \A i \in 1 .. Len(selected') : i \in 1 .. n \/ i = n + 1
  BY <1>4, <1>5
<1>7. /\ \A i \in 1 .. n : IsTaken(selected[i]) /\ selected[i] # c
      /\ \A i \in 1 .. Len(excluded) : IsTaken(excluded[i].contract) /\ excluded[i].contract # c
  BY <1>3 DEF DecidedOnce, n
<1>8. \A i \in 1 .. Len(selected') : \A d : d = selected'[i] => IsTaken(d)'
  BY <1>3, <1>5, <1>6, <1>7
<1>9. \A i \in 1 .. Len(excluded') : \A d : d = excluded'[i].contract => IsTaken(d)'
  BY <1>3, <1>4, <1>7
<1>10. \A i, j \in 1 .. Len(selected') : selected'[i] = selected'[j] => i = j
  BY <1>5, <1>6, <1>7 DEF DecidedOnce, n
<1>11. \A i \in 1 .. Len(selected'), j \in 1 .. Len(excluded') :
           selected'[i] # excluded'[j].contract
  BY <1>4, <1>5, <1>6, <1>7 DEF DecidedOnce, n
<1> QED
  BY <1>3, <1>4, <1>8, <1>9, <1>10, <1>11, ZenonT(40) DEF DecidedOnce, IsTaken

LEMMA ExcludeOnce ==
  ASSUME AllocationTypes(Identity), CandidatesOnce, DecidedOnce,
         NEW s \in Symbol, ExcludeContract(s)
  PROVE  CandidatesOnce' /\ DecidedOnce'
<1> DEFINE next == Contract(s)
           n == Len(excluded)
           Record == [symbol : Symbol, contract : Identity, rank : Nat]
<1>1. next \in Identity /\ Rank(s) \in Nat
  BY TurnTypes DEF ExcludeContract, Take
<1>2. PICK c : c = next
  OBVIOUS
<1>3. /\ ~IsTaken(c) /\ IsTaken(c)' /\ CandidatesOnce'
      /\ \A d : IsTaken(d) => IsTaken(d)'
  BY <1>2, TurnIsNew DEF ExcludeContract
<1>4. PICK record \in Record :
          excluded' = Append(excluded, record) /\ record.contract = c
  BY <1>1, <1>2 DEF ExcludeContract
<1>5. excluded \in Seq(Record) /\ n \in Nat /\ selected' = selected
  BY DEF ExcludeContract, AllocationTypes
<1> HIDE DEF Record
<1>6. /\ Len(excluded') = n + 1 /\ excluded'[n + 1].contract = c
      /\ \A i \in 1 .. n : excluded'[i] = excluded[i]
  BY <1>4, <1>5
<1> HIDE DEF next, n
<1>7. \A i \in 1 .. Len(excluded') : i \in 1 .. n \/ i = n + 1
  BY <1>5, <1>6
<1>8. /\ \A i \in 1 .. n : IsTaken(excluded[i].contract) /\ excluded[i].contract # c
      /\ \A i \in 1 .. Len(selected) : IsTaken(selected[i]) /\ selected[i] # c
  BY <1>3 DEF DecidedOnce, n
<1>9. \A i \in 1 .. Len(excluded') : \A d : d = excluded'[i].contract => IsTaken(d)'
  BY <1>3, <1>6, <1>7, <1>8
<1>10. \A i \in 1 .. Len(selected') : \A d : d = selected'[i] => IsTaken(d)'
  BY <1>3, <1>5, <1>8
<1>11. \A i, j \in 1 .. Len(excluded') :
           excluded'[i].contract = excluded'[j].contract => i = j
  BY <1>6, <1>7, <1>8 DEF DecidedOnce, n
<1>12. \A i \in 1 .. Len(selected'), j \in 1 .. Len(excluded') :
           selected'[i] # excluded'[j].contract
  BY <1>5, <1>6, <1>7, <1>8 DEF DecidedOnce, n
<1> QED
  BY <1>3, <1>5, <1>9, <1>10, <1>11, <1>12, ZenonT(40) DEF DecidedOnce, IsTaken

(* Nothing is decided in the other steps.                                  *)
LEMMA OnceKept ==
  ASSUME CandidatesOnce, DecidedOnce, UNCHANGED <<candidates, indices, selected, excluded>>
  PROVE  CandidatesOnce' /\ DecidedOnce'
<1>1. CandidatesOnce'
  BY DEF CandidatesOnce
<1>2. DecidedOnce'
  BY DEF DecidedOnce, IsTaken
<1> QED
  BY <1>1, <1>2

(* No two places of the plan hold the same contract.                       *)
LEMMA OnceIsOne ==
  ASSUME AllocationTypes(Identity), DecidedOnce, NEW c
  PROVE  Decided(c) <= 1
<1> DEFINE S == {i \in DOMAIN selected : selected[i] = c}
           E == {i \in DOMAIN excluded : excluded[i].contract = c}
<1>1. DOMAIN selected = 1 .. Len(selected) /\ DOMAIN excluded = 1 .. Len(excluded)
  <2>1. selected \in Seq(Identity) /\ excluded \in Seq([symbol : Symbol, contract : Identity, rank : Nat])
    BY DEF AllocationTypes
  <2> QED
    BY <2>1
<1>2. /\ \A i, j \in S : i = j
      /\ \A i, j \in E : i = j
      /\ S = {} \/ E = {}
  BY <1>1 DEF DecidedOnce
<1> HIDE DEF S, E
<1>3. ASSUME NEW T, \A i, j \in T : i = j PROVE Cardinality(T) = 0 \/ Cardinality(T) = 1
  <2>1. CASE T = {}
    BY <2>1, FS_EmptySet
  <2>2. CASE T # {}
    <3>1. PICK x : T = {x}
      BY <1>3, <2>2
    <3> QED
      BY <3>1, FS_Singleton
  <2> QED
    BY <2>1, <2>2
<1>4. Cardinality({}) = 0
  BY FS_EmptySet
<1>5. Cardinality(S) + Cardinality(E) <= 1
  <2>1. Cardinality(S) = 0 \/ Cardinality(S) = 1
    BY <1>2, <1>3
  <2>2. Cardinality(E) = 0 \/ Cardinality(E) = 1
    BY <1>2, <1>3
  <2> QED
    BY <1>2, <1>4, <2>1, <2>2
<1> QED
  BY <1>5 DEF Decided, S, E

-----------------------------------------------------------------------------
(* The whole run.                                                          *)

NothingAllocated == stage \in {"discovering", "enriching"} => AllocationInit

UniverseInv ==
    /\ UniverseTypes
    /\ ShortlistOK
    /\ Parted
    /\ AllocationInv(Identity)
    /\ NothingAllocated
    /\ CandidatesOnce
    /\ DecidedOnce

(* An allocation begins with ranked candidates and nothing decided.        *)
LEMMA NothingDecided ==
  AllocationInit /\ candidates = [s \in Symbol |-> candidates[s]] /\ CandidatesOnce
      => AllocationInv(Identity) /\ DecidedOnce
<1> SUFFICES ASSUME AllocationInit, candidates = [s \in Symbol |-> candidates[s]], CandidatesOnce
             PROVE  AllocationInv(Identity) /\ DecidedOnce
  OBVIOUS
<1>1. candidates \in [Symbol -> Seq(Identity)]
  BY DEF CandidatesOnce, CandidatesOf
<1>2. DecidedOnce
  BY DEF AllocationInit, DecidedOnce
<1> QED
  BY <1>1, <1>2, AllocationStarts

LEMMA UniverseStarts == Init => UniverseInv
<1> SUFFICES ASSUME Init PROVE UniverseInv
  OBVIOUS
<1>1. UniverseTypes /\ Parted /\ NothingAllocated
  BY DEF Init, UniverseTypes, Parted, NothingAllocated
<1>2. ShortlistOK
  <2>1. \A s \in Symbol : shortlist[s] = <<>>
    BY DEF Init
  <2>2. \A s \in Symbol : shortlist[s] \in Seq(DOMAIN Catalog) /\ Range(shortlist[s]) = {}
    <3>1. <<>> \in Seq(DOMAIN Catalog) /\ DOMAIN <<>> = {}
      BY EmptySeq
    <3> QED
      BY <2>1, <3>1 DEF Range
  <2> QED
    BY <2>2 DEF ShortlistOK
<1>3. CandidatesOnce /\ candidates = [s \in Symbol |-> candidates[s]]
  <2>1. \A s \in Symbol : candidates[s] = <<>>
    BY DEF Init
  <2>2. \A s \in Symbol : CandidatesOf(s, candidates[s])
    <3> SUFFICES ASSUME NEW s \in Symbol PROVE CandidatesOf(s, candidates[s])
      OBVIOUS
    <3> DEFINE q == candidates[s]
    <3>1. q \in Seq(Identity) /\ Len(q) = 0
      BY <2>1, EmptySeq
    <3> HIDE DEF q
    <3>2. CandidatesOf(s, q)
      BY <3>1 DEF CandidatesOf
    <3> QED
      BY <3>2 DEF q
  <2> QED
    BY <2>2 DEF CandidatesOnce, Init
<1> QED
  BY <1>1, <1>2, <1>3, NothingDecided DEF Init, UniverseInv

(* The steps before the allocation, and its end, leave what is decided.    *)
LEMMA DecidedKept ==
  ASSUME UniverseInv, UNCHANGED allocation
  PROVE  AllocationInv(Identity)' /\ CandidatesOnce' /\ DecidedOnce'
<1>1. AllocationInv(Identity)'
  BY AllocationKeeps DEF UniverseInv
<1> QED
  BY <1>1, OnceKept DEF UniverseInv, allocation

LEMMA FinalizeKeeps ==
  ASSUME UniverseInv, FinalizeLiquidity
  PROVE  UniverseInv'
<1>1. PICK quoted : candidates' = [s \in Symbol |-> Ranked(LiquidOf(s, quoted))]
  BY DEF FinalizeLiquidity
<1>2. UniverseTypes' /\ ShortlistOK' /\ Parted'
  BY PartsKept DEF UniverseInv, FinalizeLiquidity
<1>3. CandidatesOnce' /\ candidates' = [s \in Symbol |-> candidates'[s]]
  <2>1. \A s \in Symbol : CandidatesOf(s, candidates'[s])
    BY <1>1, LiquidCandidates DEF UniverseInv
  <2> QED
    BY <1>1, <2>1 DEF CandidatesOnce, CandidatesOf
<1>4. AllocationInit'
  BY DEF UniverseInv, NothingAllocated, FinalizeLiquidity, AllocationInit
<1>5. AllocationInv(Identity)' /\ DecidedOnce'
  <2>1. (AllocationInit /\ candidates = [s \in Symbol |-> candidates[s]] /\ CandidatesOnce)'
    BY <1>3, <1>4
  <2> QED
    BY <2>1, NothingDecided, PTL
<1>6. NothingAllocated'
  BY <1>4 DEF NothingAllocated
<1> QED
  BY <1>2, <1>3, <1>5, <1>6 DEF UniverseInv

LEMMA AllocateKeeps ==
  ASSUME UniverseInv, AllocateNext
  PROVE  UniverseInv'
<1>1. AllocationStep /\ stage = "allocating"
  BY DEF AllocateNext
<1>2. UniverseTypes' /\ ShortlistOK' /\ Parted'
  BY PartsKept DEF UniverseInv, AllocateNext
<1>3. AllocationInv(Identity)'
  BY <1>1, AllocationKeeps DEF UniverseInv
<1>4. AllocationTypes(Identity) /\ CandidatesOnce /\ DecidedOnce
  BY DEF UniverseInv, AllocationInv
<1>5. CandidatesOnce' /\ DecidedOnce'
  <2>1. CASE \E s \in Symbol : SelectContract(s)
    BY <1>4, <2>1, SelectOnce
  <2>2. CASE \E s \in Symbol : ExcludeContract(s)
    BY <1>4, <2>2, ExcludeOnce
  <2>3. CASE (\E s \in Symbol : SkipSymbol(s)) \/ NextRound
    <3>1. UNCHANGED <<candidates, indices, selected, excluded>>
      BY <2>3 DEF SkipSymbol, NextRound
    <3> QED
      BY <1>4, <3>1, OnceKept
  <2> QED
    BY <1>1, <2>1, <2>2, <2>3 DEF AllocationStep
<1>6. NothingAllocated'
  BY <1>1 DEF AllocateNext, NothingAllocated
<1> QED
  BY <1>2, <1>3, <1>5, <1>6 DEF UniverseInv

LEMMA UniverseKeeps == UniverseInv /\ [Next]_vars => UniverseInv'
<1> SUFFICES ASSUME UniverseInv, [Next]_vars PROVE UniverseInv'
  OBVIOUS
<1>1. ASSUME NEW i \in DOMAIN Catalog, Discover(i) PROVE UniverseInv'
  <2>1. /\ stage = "discovering" /\ stage' = stage
        /\ discovered' = discovered \cup {i} /\ UNCHANGED <<prices, shortlist>>
        /\ UNCHANGED allocation
    BY <1>1 DEF Discover
  <2>2. UniverseTypes' /\ Parted'
    BY <2>1 DEF UniverseInv, UniverseTypes, Parted
  <2>3. ShortlistOK'
    BY <2>1 DEF UniverseInv, ShortlistOK, Eligible, Mapped, IdentityOf, Distance
  <2>4. NothingAllocated'
    BY <2>1 DEF UniverseInv, NothingAllocated, AllocationInit, allocation
  <2> QED
    BY <2>1, <2>2, <2>3, <2>4, DecidedKept DEF UniverseInv
<1>2. CASE CoarseSelect
  <2>1. UniverseTypes' /\ ShortlistOK' /\ Parted'
    BY <1>2, CoarseParts DEF UniverseInv
  <2>2. stage = "discovering" /\ UNCHANGED allocation
    BY <1>2 DEF CoarseSelect
  <2>3. NothingAllocated'
    BY <2>2 DEF UniverseInv, NothingAllocated, AllocationInit, allocation
  <2> QED
    BY <2>1, <2>2, <2>3, DecidedKept DEF UniverseInv
<1>3. CASE ProviderFails
  <2>1. stage' = "blocked" /\ UNCHANGED allocation
    BY <1>3 DEF ProviderFails
  <2>2. UniverseTypes' /\ ShortlistOK' /\ Parted'
    BY <1>3, <2>1, PartsKept DEF UniverseInv, ProviderFails
  <2>3. NothingAllocated'
    BY <2>1 DEF NothingAllocated
  <2> QED
    BY <2>1, <2>2, <2>3, DecidedKept DEF UniverseInv
<1>4. CASE FinalizeLiquidity
  BY <1>4, FinalizeKeeps
<1>5. CASE AllocateNext
  BY <1>5, AllocateKeeps
<1>6. CASE Plan
  <2>1. stage = "allocating" /\ stage' \in {"blocked", "planned"} /\ UNCHANGED allocation
    BY <1>6 DEF Plan
  <2>2. UniverseTypes' /\ ShortlistOK' /\ Parted'
    BY <1>6, <2>1, PartsKept DEF UniverseInv, Plan
  <2>3. NothingAllocated'
    BY <2>1 DEF NothingAllocated
  <2> QED
    BY <2>1, <2>2, <2>3, DecidedKept DEF UniverseInv
<1>7. CASE UNCHANGED vars
  <2>1. UNCHANGED allocation /\ stage' = stage
    BY <1>7 DEF vars
  <2>2. UniverseTypes' /\ ShortlistOK' /\ Parted'
    BY <1>7, PartsKept DEF UniverseInv, vars
  <2>3. NothingAllocated'
    BY <2>1 DEF UniverseInv, NothingAllocated, AllocationInit, allocation
  <2> QED
    BY <2>1, <2>2, <2>3, DecidedKept DEF UniverseInv
<1> QED
  BY <1>1, <1>2, <1>3, <1>4, <1>5, <1>6, <1>7 DEF Next

LEMMA UniverseAlways == Spec => []UniverseInv
BY UniverseStarts, UniverseKeeps, PTL DEF Spec

(* Every discovered entry is on the shortlist, excluded with a record, or  *)
(* passed over for a nearer expiration, and no contract is decided twice   *)
(* by the allocation, whatever the catalog lists and however often.        *)
THEOREM PlanAccounted == Spec => []Accounted
<1>1. UniverseInv => Accounted
  <2> SUFFICES ASSUME UniverseInv PROVE Accounted
    OBVIOUS
  <2>1. \A i : Decided(IdentityOf(i)) <= 1
    BY OnceIsOne DEF UniverseInv, AllocationInv
  <2> QED
    BY <2>1 DEF UniverseInv, Parted, Accounted
<1> QED
  BY <1>1, UniverseAlways, PTL

(* The shares of a whole run are fair: what the allocation is given there  *)
(* are the ranked candidates its own theorem assumes.                      *)
THEOREM PlanFair == Spec => []FairShares
<1>1. UniverseInv => FairShares
  BY EvenIsFair DEF UniverseInv
<1> QED
  BY <1>1, UniverseAlways, PTL
-----------------------------------------------------------------------------
(* The plan.  A place is a rank of a symbol within its limit; the rounds   *)
(* come to the places by rank, and by symbol within a rank.                *)
Places ==
    {p \in Symbol \X (1 .. MaxContractsPerSymbol) : p[2] <= Len(candidates[p[1]])}
At(p) == candidates[p[1]][p[2]]
Comes(p, q) == p[2] < q[2] \/ (p[2] = q[2] /\ p[1] < q[1])
SoonerPlaces(q) == {p \in Places : Comes(p, q)}
TakenPlaces == {p \in Places : p[2] <= indices[p[1]]}

(* Places are selected as they come, until the capacity is used up.        *)
SelectedInOrder ==
    /\ Len(selected) = Least(Capacity, Cardinality(TakenPlaces))
    /\ Range(selected) = {At(p) : p \in {q \in TakenPlaces : Cardinality(SoonerPlaces(q)) < Capacity}}

(* What was taken was selected or excluded.                                *)
TakenDecided ==
    \A s \in Symbol : \A k \in 1 .. indices[s] :
        \/ \E i \in 1 .. Len(selected) : selected[i] = candidates[s][k]
        \/ \E i \in 1 .. Len(excluded) : excluded[i].contract = candidates[s][k]

(* A round that took nothing has passed symbols that have nothing left.    *)
RoundPassed == ~progressed => \A s \in Symbol : s < turn => ~Remaining(s)

PlanInv == SelectedInOrder /\ TakenDecided /\ RoundPassed

(* The candidates are what the plan is about.                              *)
AllRequested == \A s \in Symbol : RankedIn(candidates[s], Requested(s))
CandidatesRequested == stage \in {"allocating", "planned"} => AllRequested

(* The shortlist holds the entries that rank within its limit.             *)
Foremost(s) ==
    {i \in Nearest(s) : Cardinality({j \in Nearest(s) : EntryBefore(j, i)}) < MaxPerSymbol}
ShortlistForemost ==
    stage = "enriching" => \A s \in Symbol : Range(shortlist[s]) = Foremost(s)


LEMMA PlacesFinite ==
  ASSUME NEW T, T \subseteq Places
  PROVE  IsFiniteSet(T) /\ Cardinality(T) \in Nat
<1>1. IsFiniteSet(Symbol) /\ IsFiniteSet(1 .. MaxContractsPerSymbol)
  BY LimitsPositive, FS_Interval DEF Symbol
<1>2. IsFiniteSet(Symbol \X (1 .. MaxContractsPerSymbol))
  BY <1>1, FS_Product
<1>3. T \in SUBSET (Symbol \X (1 .. MaxContractsPerSymbol))
  BY DEF Places
<1> QED
  BY <1>2, <1>3, FS_Subset, FS_CardinalityType

LEMMA PlaceTypes ==
  ASSUME NEW Contracts, AllocationTypes(Contracts), NEW p \in Places
  PROVE  /\ p[1] \in Symbol /\ p[1] \in Nat /\ p[2] \in Nat /\ p = <<p[1], p[2]>>
         /\ 1 <= p[2] /\ p[2] <= MaxContractsPerSymbol /\ p[2] <= Len(candidates[p[1]])
         /\ p[2] \in 1 .. Len(candidates[p[1]]) /\ Len(candidates[p[1]]) \in Nat
<1>1. /\ p[1] \in Symbol /\ p[2] \in 1 .. MaxContractsPerSymbol /\ p = <<p[1], p[2]>>
      /\ p[2] <= Len(candidates[p[1]])
  BY DEF Places
<1>2. Len(candidates[p[1]]) \in Nat
  BY <1>1 DEF AllocationTypes
<1> QED
  BY <1>1, <1>2, LimitsPositive DEF Symbol

(* When a symbol has its turn, the places taken are just those that come   *)
(* before the one whose turn it is.                                        *)
LEMMA TakenSooner ==
  ASSUME NEW Contracts, AllocationInv(Contracts), NEW s \in Symbol, Take(s),
         NEW k, k = Rank(s)
  PROVE  /\ k \in Nat \ {0} /\ k = indices[s] + 1 /\ Places' = Places
         /\ \A p : At(p)' = At(p) /\ SoonerPlaces(p)' = SoonerPlaces(p)
         /\ k <= MaxContractsPerSymbol =>
               /\ <<s, k>> \in Places /\ <<s, k>> \notin TakenPlaces
               /\ TakenPlaces = SoonerPlaces(<<s, k>>)
               /\ TakenPlaces' = TakenPlaces \cup {<<s, k>>}
         /\ k > MaxContractsPerSymbol => TakenPlaces' = TakenPlaces
<1>1. /\ AllocationTypes(Contracts) /\ turn = s /\ Remaining(s) /\ candidates' = candidates
      /\ indices' = [indices EXCEPT ![s] = @ + 1]
  BY DEF AllocationInv, Take
<1>2. /\ \A t \in Symbol : indices[t] \in Nat /\ Len(candidates[t]) \in Nat /\ t \in Nat
      /\ DOMAIN indices = Symbol
      /\ k = indices[s] + 1 /\ indices[s] < Len(candidates[s])
  BY <1>1, Numbers DEF AllocationTypes, Remaining, Rank
<1>3. PICK r \in Nat : \A t \in Symbol :
          indices[t] = Least(Len(candidates[t]), r + Served(t, s))
  BY <1>1 DEF AllocationInv, RoundsEven
<1>4. r = k - 1
  <2>1. indices[s] = Least(Len(candidates[s]), r)
    BY <1>2, <1>3 DEF Served
  <2> QED
    BY <1>2, <2>1 DEF Least
<1>5. Places' = Places
  BY <1>1 DEF Places
<1>6. \A p : At(p)' = At(p) /\ SoonerPlaces(p)' = SoonerPlaces(p)
  BY <1>1, <1>5 DEF At, SoonerPlaces, Comes
<1>7. ASSUME NEW p \in Places
      PROVE  /\ p \in TakenPlaces <=> (p[2] < k \/ (p[2] = k /\ p[1] < s))
             /\ p \in TakenPlaces' <=> (p \in TakenPlaces \/ p = <<s, k>>)
  <2>1. /\ p[1] \in Symbol /\ p[1] \in Nat /\ p[2] \in Nat /\ p = <<p[1], p[2]>>
        /\ p[2] <= Len(candidates[p[1]])
    BY <1>1, PlaceTypes
  <2>2. indices[p[1]] = Least(Len(candidates[p[1]]), r + Served(p[1], s))
    BY <1>3, <2>1
  <2>3. p \in TakenPlaces <=> (p[2] < k \/ (p[2] = k /\ p[1] < s))
    <3>1. p \in TakenPlaces <=> p[2] <= indices[p[1]]
      BY DEF TakenPlaces
    <3>2. p[2] <= indices[p[1]] <=> p[2] <= r + Served(p[1], s)
      BY <1>2, <2>1, <2>2 DEF Least, Served
    <3>3. p[2] <= r + Served(p[1], s) <=> (p[2] < k \/ (p[2] = k /\ p[1] < s))
      BY <1>2, <1>4, <2>1 DEF Served
    <3> QED
      BY <3>1, <3>2, <3>3
  <2>4. p \in TakenPlaces' <=> p[2] <= indices'[p[1]]
    BY <1>5 DEF TakenPlaces
  <2>5. CASE p[1] = s
    <3>1. indices'[p[1]] = k
      BY <1>1, <1>2, <2>5
    <3>2. p = <<s, k>> <=> p[2] = k
      BY <2>1, <2>5
    <3>3. p \in TakenPlaces <=> p[2] < k
      BY <1>2, <2>1, <2>3, <2>5
    <3> QED
      BY <1>2, <2>1, <2>3, <2>4, <3>1, <3>2, <3>3
  <2>6. CASE p[1] # s
    <3>1. indices'[p[1]] = indices[p[1]] /\ p # <<s, k>>
      BY <1>1, <1>2, <2>1, <2>6
    <3> QED
      BY <2>3, <2>4, <3>1 DEF TakenPlaces
  <2> QED
    BY <2>5, <2>6
<1>8. TakenPlaces \subseteq Places /\ TakenPlaces' \subseteq Places
  BY <1>5 DEF TakenPlaces
<1>9. ASSUME k <= MaxContractsPerSymbol
      PROVE  /\ <<s, k>> \in Places /\ <<s, k>> \notin TakenPlaces
             /\ TakenPlaces = SoonerPlaces(<<s, k>>)
             /\ TakenPlaces' = TakenPlaces \cup {<<s, k>>}
  <2>1. <<s, k>> \in Places
    BY <1>2, <1>9, LimitsPositive DEF Places
  <2>2. <<s, k>> \notin TakenPlaces
    BY <1>2, <1>7, <2>1
  <2>3. TakenPlaces = SoonerPlaces(<<s, k>>)
    BY <1>7, <1>8 DEF SoonerPlaces, Comes
  <2>4. TakenPlaces' = TakenPlaces \cup {<<s, k>>}
    BY <1>7, <1>8, <2>1
  <2> QED
    BY <2>1, <2>2, <2>3, <2>4
<1>10. ASSUME k > MaxContractsPerSymbol PROVE TakenPlaces' = TakenPlaces
  <2>1. <<s, k>> \notin Places
    BY <1>2, <1>10, LimitsPositive DEF Places
  <2> QED
    BY <1>7, <1>8, <2>1
<1> QED
  BY <1>2, <1>5, <1>6, <1>9, <1>10

(* There is room for the contract whose turn it is just if its rank is     *)
(* within the limit and fewer than the capacity came before it.            *)
LEMMA RoomIsPlace ==
  ASSUME NEW Contracts, AllocationInv(Contracts), SelectedInOrder, NEW s \in Symbol, Take(s),
         NEW k, k = Rank(s)
  PROVE  HasRoom(s) <=> k <= MaxContractsPerSymbol /\ Cardinality(TakenPlaces) < Capacity
<1>1. k \in Nat /\ k = indices[s] + 1
  BY TakenSooner
<1>2. Cardinality(TakenPlaces) \in Nat
  BY PlacesFinite DEF TakenPlaces
<1>3. Len(selected) < Capacity <=> Cardinality(TakenPlaces) < Capacity
  BY <1>2, CapacityPositive DEF SelectedInOrder, Least
<1>4. Len(selected) < Capacity => selected_per_symbol[s] = Least(indices[s], MaxContractsPerSymbol)
  BY DEF AllocationInv, GivenWhileOpen
<1>5. indices[s] \in Nat /\ MaxContractsPerSymbol \in Nat
  BY Numbers DEF AllocationInv, AllocationTypes
<1>6. Least(indices[s], MaxContractsPerSymbol) < MaxContractsPerSymbol <=> k <= MaxContractsPerSymbol
  BY <1>1, <1>5 DEF Least
<1> QED
  BY <1>3, <1>4, <1>6 DEF HasRoom

(* What is selected is the next place there is.                            *)
LEMMA SelectInOrder ==
  ASSUME NEW Contracts, AllocationInv(Contracts), SelectedInOrder,
         NEW s \in Symbol, SelectContract(s)
  PROVE  SelectedInOrder'
<1>1. Take(s) /\ HasRoom(s) /\ selected' = Append(selected, Contract(s))
  BY DEF SelectContract
<1>2. PICK k : k = Rank(s)
  OBVIOUS
<1> DEFINE p == <<s, k>>
<1>3. k <= MaxContractsPerSymbol /\ Cardinality(TakenPlaces) < Capacity
  BY <1>1, <1>2, RoomIsPlace
<1>4. /\ \A q : At(q)' = At(q) /\ SoonerPlaces(q)' = SoonerPlaces(q)
      /\ p \notin TakenPlaces /\ TakenPlaces = SoonerPlaces(p)
      /\ TakenPlaces' = TakenPlaces \cup {p}
  BY <1>1, <1>2, <1>3, TakenSooner
<1>5. /\ IsFiniteSet(TakenPlaces) /\ Cardinality(TakenPlaces) \in Nat
  BY PlacesFinite DEF TakenPlaces
<1>6. Cardinality(TakenPlaces') = Cardinality(TakenPlaces) + 1
  BY <1>4, <1>5, FS_AddElement
<1>7. At(p) = Contract(s)
  BY <1>2 DEF At, Contract
<1>8. /\ selected \in Seq(Contracts) /\ Contract(s) \in Contracts
  BY <1>1, TurnTypes DEF AllocationInv, AllocationTypes, Take
<1>9. /\ Len(selected') = Len(selected) + 1 /\ Len(selected) \in Nat
      /\ Range(selected') = Range(selected) \cup {Contract(s)}
  <2> PICK c \in Contracts : c = Contract(s)
    BY <1>8
  <2>1. /\ DOMAIN selected = 1 .. Len(selected) /\ Len(selected) \in Nat
        /\ Len(selected') = Len(selected) + 1 /\ DOMAIN selected' = 1 .. Len(selected) + 1
        /\ \A i \in 1 .. Len(selected) : selected'[i] = selected[i]
        /\ selected'[Len(selected) + 1] = c
    BY <1>1, <1>8
  <2>2. \A i \in DOMAIN selected' : i \in DOMAIN selected \/ i = Len(selected) + 1
    BY <2>1
  <2>3. Len(selected) + 1 \in DOMAIN selected' /\ \A i \in DOMAIN selected : i \in DOMAIN selected'
    BY <2>1
  <2>4. Range(selected') = Range(selected) \cup {c}
    BY <2>1, <2>2, <2>3 DEF Range
  <2> QED
    BY <2>1, <2>4
<1> HIDE DEF p
<1>10. Len(selected') = Least(Capacity, Cardinality(TakenPlaces'))
  BY <1>3, <1>5, <1>6, <1>9, CapacityPositive DEF SelectedInOrder, Least
<1> DEFINE Chosen(T) == {q \in T : Cardinality(SoonerPlaces(q)) < Capacity}
<1>11. Chosen(TakenPlaces') = Chosen(TakenPlaces) \cup {p}
  BY <1>3, <1>4
<1>12. Range(selected) = {At(q) : q \in Chosen(TakenPlaces)}
  BY DEF SelectedInOrder
<1>13. Range(selected') = {At(q) : q \in Chosen(TakenPlaces')}
  <2> HIDE DEF Chosen
  <2> QED
    BY <1>7, <1>9, <1>11, <1>12
<1>14. Range(selected)' = {At(q)' : q \in {q \in TakenPlaces' : Cardinality(SoonerPlaces(q)') < Capacity}}
  BY <1>4, <1>13 DEF Range
<1> QED
  BY <1>10, <1>14 DEF SelectedInOrder, Capacity

(* What is excluded is past the limit, or comes when the capacity is used. *)
LEMMA ExcludeInOrder ==
  ASSUME NEW Contracts, AllocationInv(Contracts), SelectedInOrder,
         NEW s \in Symbol, ExcludeContract(s)
  PROVE  SelectedInOrder'
<1>1. Take(s) /\ ~HasRoom(s) /\ selected' = selected
  BY DEF ExcludeContract
<1>2. PICK k : k = Rank(s)
  OBVIOUS
<1> DEFINE p == <<s, k>>
           Chosen(T) == {q \in T : Cardinality(SoonerPlaces(q)) < Capacity}
<1>3. /\ k \in Nat /\ \A q : At(q)' = At(q) /\ SoonerPlaces(q)' = SoonerPlaces(q)
      /\ k <= MaxContractsPerSymbol =>
            /\ p \notin TakenPlaces /\ TakenPlaces = SoonerPlaces(p)
            /\ TakenPlaces' = TakenPlaces \cup {p}
      /\ k > MaxContractsPerSymbol => TakenPlaces' = TakenPlaces
  BY <1>1, <1>2, TakenSooner
<1>4. k <= MaxContractsPerSymbol => ~(Cardinality(TakenPlaces) < Capacity)
  BY <1>1, <1>2, RoomIsPlace
<1>5. IsFiniteSet(TakenPlaces) /\ Cardinality(TakenPlaces) \in Nat
  BY PlacesFinite DEF TakenPlaces
<1> HIDE DEF p
<1>6. /\ Least(Capacity, Cardinality(TakenPlaces')) = Least(Capacity, Cardinality(TakenPlaces))
      /\ Chosen(TakenPlaces') = Chosen(TakenPlaces)
  <2>1. CASE k <= MaxContractsPerSymbol
    <3>1. Cardinality(TakenPlaces') = Cardinality(TakenPlaces) + 1
      BY <1>3, <1>5, <2>1, FS_AddElement
    <3>2. Least(Capacity, Cardinality(TakenPlaces')) = Least(Capacity, Cardinality(TakenPlaces))
      BY <1>4, <1>5, <2>1, <3>1, CapacityPositive DEF Least
    <3>3. Chosen(TakenPlaces') = Chosen(TakenPlaces)
      BY <1>3, <1>4, <2>1
    <3> QED
      BY <3>2, <3>3
  <2>2. CASE k > MaxContractsPerSymbol
    BY <1>3, <2>2
  <2> QED
    BY <1>3, <2>1, <2>2, LimitsPositive
<1>7. /\ Len(selected) = Least(Capacity, Cardinality(TakenPlaces))
      /\ Range(selected) = {At(q) : q \in Chosen(TakenPlaces)}
  BY DEF SelectedInOrder
<1>8. /\ Len(selected') = Least(Capacity, Cardinality(TakenPlaces'))
      /\ Range(selected') = {At(q) : q \in Chosen(TakenPlaces')}
  <2> HIDE DEF Chosen
  <2> QED
    BY <1>1, <1>6, <1>7
<1>9. Range(selected)' = {At(q)' : q \in {q \in TakenPlaces' : Cardinality(SoonerPlaces(q)') < Capacity}}
  BY <1>3, <1>8 DEF Range
<1> QED
  BY <1>8, <1>9 DEF SelectedInOrder, Capacity

(* A contract that is taken is decided.                                    *)
LEMMA TakenIsDecided ==
  ASSUME NEW Contracts, AllocationTypes(Contracts), TakenDecided, NEW s \in Symbol,
         SelectContract(s) \/ ExcludeContract(s)
  PROVE  TakenDecided'
<1> DEFINE Record == [symbol : Symbol, contract : Contracts, rank : Nat]
<1>1. Take(s) /\ candidates' = candidates /\ indices' = [indices EXCEPT ![s] = @ + 1]
  BY DEF SelectContract, ExcludeContract, Take
<1>2. PICK c \in Contracts : c = Contract(s)
  BY <1>1, TurnTypes DEF Take
<1>3. /\ selected \in Seq(Contracts) /\ excluded \in Seq(Record)
      /\ indices \in [Symbol -> Nat] /\ Rank(s) \in Nat
      /\ [symbol |-> s, contract |-> c, rank |-> Rank(s)] \in Record
  BY <1>1, <1>2, TurnTypes DEF AllocationTypes, Take
<1>4. PICK record \in Record : record = [symbol |-> s, contract |-> c, rank |-> Rank(s)]
  BY <1>3
<1>5. record.contract = c
  BY <1>4
<1>6. \/ selected' = Append(selected, c) /\ excluded' = excluded
      \/ excluded' = Append(excluded, record) /\ selected' = selected
  BY <1>2, <1>4 DEF SelectContract, ExcludeContract
<1> HIDE DEF Record
<1>7. /\ Len(selected) \in Nat /\ Len(excluded) \in Nat
      /\ \A i \in 1 .. Len(selected) : i \in 1 .. Len(selected') /\ selected'[i] = selected[i]
      /\ \A i \in 1 .. Len(excluded) : i \in 1 .. Len(excluded') /\ excluded'[i] = excluded[i]
      /\ \/ \E i \in 1 .. Len(selected') : selected'[i] = c
         \/ \E i \in 1 .. Len(excluded') : excluded'[i].contract = c
  <2>1. CASE selected' = Append(selected, c) /\ excluded' = excluded
    <3>1. /\ Len(selected') = Len(selected) + 1 /\ selected'[Len(selected) + 1] = c
          /\ \A i \in 1 .. Len(selected) : selected'[i] = selected[i]
          /\ Len(selected) \in Nat /\ Len(excluded) \in Nat
      BY <1>3, <2>1
    <3> QED
      BY <2>1, <3>1
  <2>2. CASE excluded' = Append(excluded, record) /\ selected' = selected
    <3>1. /\ Len(excluded') = Len(excluded) + 1 /\ excluded'[Len(excluded) + 1] = record
          /\ \A i \in 1 .. Len(excluded) : excluded'[i] = excluded[i]
          /\ Len(selected) \in Nat /\ Len(excluded) \in Nat
      BY <1>3, <2>2
    <3> QED
      BY <1>5, <2>2, <3>1
  <2> QED
    BY <1>6, <2>1, <2>2
<1>8. ASSUME NEW t \in Symbol, NEW k \in 1 .. indices'[t]
      PROVE  \/ \E i \in 1 .. Len(selected') : selected'[i] = candidates[t][k]
             \/ \E i \in 1 .. Len(excluded') : excluded'[i].contract = candidates[t][k]
  <2>1. CASE k \in 1 .. indices[t]
    <3>1. \/ \E i \in 1 .. Len(selected) : selected[i] = candidates[t][k]
          \/ \E i \in 1 .. Len(excluded) : excluded[i].contract = candidates[t][k]
      BY <2>1 DEF TakenDecided
    <3> QED
      BY <1>7, <3>1
  <2>2. CASE k \notin 1 .. indices[t]
    <3>1. t = s /\ k = Rank(s)
      BY <1>1, <1>3, <2>2 DEF Rank
    <3>2. candidates[t][k] = c
      BY <1>2, <3>1 DEF Contract
    <3> QED
      BY <1>7, <3>2
  <2> QED
    BY <2>1, <2>2
<1> QED
  BY <1>1, <1>8 DEF TakenDecided

(* The steps of the allocation keep to the plan.                           *)
LEMMA PlanKept ==
  ASSUME NEW Contracts, AllocationInv(Contracts), PlanInv, AllocationStep
  PROVE  PlanInv'
<1>1. AllocationTypes(Contracts)
  BY DEF AllocationInv
<1>2. ASSUME NEW s \in Symbol, SelectContract(s) \/ ExcludeContract(s) PROVE PlanInv'
  <2>1. SelectedInOrder'
    BY <1>2, SelectInOrder, ExcludeInOrder DEF PlanInv
  <2>2. TakenDecided'
    BY <1>1, <1>2, TakenIsDecided DEF PlanInv
  <2>3. progressed' = TRUE
    BY <1>2 DEF SelectContract, ExcludeContract, Take
  <2> QED
    BY <2>1, <2>2, <2>3 DEF PlanInv, RoundPassed
<1>3. ASSUME (\E s \in Symbol : SkipSymbol(s)) \/ NextRound PROVE PlanInv'
  <2>1. UNCHANGED <<candidates, indices, selected, excluded>>
    BY <1>3 DEF SkipSymbol, NextRound
  <2>2. TakenDecided'
    BY <2>1 DEF PlanInv, TakenDecided
  <2>3. SelectedInOrder'
    <3>1. TakenPlaces' = TakenPlaces
      BY <2>1 DEF TakenPlaces, Places
    <3>2. \A q : At(q)' = At(q) /\ SoonerPlaces(q)' = SoonerPlaces(q)
      BY <2>1 DEF At, SoonerPlaces, Comes, Places
    <3>3. /\ Len(selected') = Least(Capacity, Cardinality(TakenPlaces'))
          /\ Range(selected)' = {At(q)' : q \in {q \in TakenPlaces' : Cardinality(SoonerPlaces(q)') < Capacity}}
      BY <2>1, <3>1, <3>2 DEF PlanInv, SelectedInOrder, Range
    <3> QED
      BY <3>3 DEF SelectedInOrder, Capacity
  <2>4. RoundPassed'
    <3>1. CASE NextRound
      <4>1. turn' = 1 /\ \A s \in Symbol : ~(s < 1)
        BY <3>1, LimitsPositive DEF NextRound, Symbol
      <4> QED
        BY <4>1 DEF RoundPassed
    <3>2. ASSUME NEW s \in Symbol, SkipSymbol(s) PROVE RoundPassed'
      <4>1. turn = s /\ turn' = s + 1 /\ ~Remaining(s) /\ progressed' = progressed
        BY <3>2 DEF SkipSymbol
      <4>2. \A t \in Symbol : Remaining(t)' = Remaining(t)
        BY <2>1 DEF Remaining
      <4>3. \A t \in Symbol : t < s + 1 => t < s \/ t = s
        BY LimitsPositive DEF Symbol
      <4> QED
        BY <4>1, <4>2, <4>3 DEF PlanInv, RoundPassed
    <3> QED
      BY <1>3, <3>1, <3>2
  <2> QED
    BY <2>2, <2>3, <2>4 DEF PlanInv
<1> QED
  BY <1>2, <1>3 DEF AllocationStep

LEMMA PlanStarts ==
  AllocationInit => PlanInv
<1> SUFFICES ASSUME AllocationInit PROVE PlanInv
  OBVIOUS
<1>1. /\ \A s \in Symbol : indices[s] = 0 /\ ~(s < 1)
      /\ turn = 1 /\ selected = <<>>
  BY LimitsPositive DEF AllocationInit, Symbol
<1>2. TakenPlaces = {}
  BY <1>1 DEF TakenPlaces, Places
<1>3. Len(selected) = 0 /\ Range(selected) = {}
  BY <1>1 DEF Range
<1>4. Least(Capacity, 0) = 0
  BY CapacityPositive DEF Least
<1>5. SelectedInOrder
  BY <1>2, <1>3, <1>4, FS_EmptySet DEF SelectedInOrder
<1>6. TakenDecided
  BY <1>1 DEF TakenDecided
<1> QED
  BY <1>1, <1>5, <1>6 DEF PlanInv, RoundPassed

(* When the allocation is done, every place has been taken.                *)
LEMMA AllTaken ==
  ASSUME AllocationInv(Identity), RoundPassed, AllocationDone
  PROVE  /\ \A s \in Symbol : indices[s] = Len(candidates[s])
         /\ TakenPlaces = Places
<1>1. PICK r \in Nat : \A s \in Symbol :
          indices[s] = Least(Len(candidates[s]), r + Served(s, turn))
  BY DEF AllocationInv, RoundsEven
<1>2. \A s \in Symbol : indices[s] \in Nat /\ Len(candidates[s]) \in Nat
  BY DEF AllocationInv, AllocationTypes
<1>3. \A s \in Symbol : ~(indices[s] < Len(candidates[s]))
  <2>1. \A s \in Symbol : s < turn
    BY LimitsPositive DEF AllocationInv, AllocationTypes, AllocationDone, Symbol
  <2> QED
    BY <2>1 DEF RoundPassed, AllocationDone, Remaining
<1>4. ASSUME NEW s \in Symbol PROVE indices[s] = Len(candidates[s])
  <2>1. indices[s] <= Len(candidates[s])
    BY <1>1, <1>2 DEF Least, Served
  <2> QED
    BY <1>2, <1>3, <2>1
<1>5. TakenPlaces = Places
  <2>1. \A p \in Places : p[1] \in Symbol /\ p[2] <= Len(candidates[p[1]])
    BY DEF Places
  <2> QED
    BY <1>4, <2>1 DEF TakenPlaces
<1> QED
  BY <1>4, <1>5

(* A contract's place is its own.                                          *)
LEMMA PlacesOnce ==
  ASSUME AllocationTypes(Identity), CandidatesOnce, NEW p \in Places, NEW q \in Places
  PROVE  /\ At(p) = At(q) => p = q
         /\ At(p).symbol = p[1]
<1>1. /\ p[1] \in Symbol /\ p[2] \in 1 .. Len(candidates[p[1]]) /\ p = <<p[1], p[2]>>
      /\ q[1] \in Symbol /\ q[2] \in 1 .. Len(candidates[q[1]]) /\ q = <<q[1], q[2]>>
  BY PlaceTypes
<1>2. /\ CandidatesOf(p[1], candidates[p[1]])
      /\ CandidatesOf(q[1], candidates[q[1]])
  BY <1>1 DEF CandidatesOnce
<1>3. At(p).symbol = p[1] /\ At(q).symbol = q[1]
  BY <1>1, <1>2 DEF At, CandidatesOf
<1>4. ASSUME At(p) = At(q) PROVE p = q
  <2>1. p[1] = q[1]
    BY <1>3, <1>4
  <2>2. p[2] = q[2]
    BY <1>1, <1>2, <1>4, <2>1 DEF At, CandidatesOf
  <2> QED
    BY <1>1, <2>1, <2>2
<1> QED
  BY <1>3, <1>4

(* As many contracts as places.                                            *)
LEMMA AsManyPlaces ==
  ASSUME AllocationTypes(Identity), CandidatesOnce, NEW T, T \subseteq Places
  PROVE  Cardinality({At(p) : p \in T}) = Cardinality(T)
<1> DEFINE C == {At(p) : p \in T}
           f == [p \in T |-> At(p)]
<1>1. IsFiniteSet(T)
  BY PlacesFinite
<1>2. f \in Injection(T, C)
  <2>1. f \in [T -> C]
    OBVIOUS
  <2>2. \A p, q \in T : f[p] = f[q] => p = q
    BY PlacesOnce
  <2> HIDE DEF f, C
  <2> QED
    BY <2>1, <2>2, Fun_IsInj
<1>3. f \in Surjection(T, C)
  BY Fun_IsSurj
<1> HIDE DEF f, C
<1>4. IsFiniteSet(C) /\ Cardinality(C) <= Cardinality(T)
  BY <1>1, <1>3, FS_Surjection
<1>5. Cardinality(T) <= Cardinality(C)
  BY <1>2, <1>4, FS_Injection
<1>6. Cardinality(T) \in Nat /\ Cardinality(C) \in Nat
  BY <1>1, <1>4, FS_CardinalityType
<1>7. Cardinality(C) = Cardinality(T)
  BY <1>4, <1>5, <1>6
<1> QED
  BY <1>7 DEF C

(* A contract that was taken is decided at least once, and no contract is  *)
(* decided twice.                                                          *)
LEMMA TakenIsOne ==
  ASSUME AllocationTypes(Identity), DecidedOnce, TakenDecided,
         NEW s \in Symbol, NEW k \in 1 .. indices[s], NEW c, c = candidates[s][k]
  PROVE  Decided(c) = 1
<1> DEFINE S == {i \in DOMAIN selected : selected[i] = c}
           E == {i \in DOMAIN excluded : excluded[i].contract = c}
<1>1. /\ DOMAIN selected = 1 .. Len(selected) /\ Len(selected) \in Nat
      /\ DOMAIN excluded = 1 .. Len(excluded) /\ Len(excluded) \in Nat
  <2>1. selected \in Seq(Identity) /\ excluded \in Seq([symbol : Symbol, contract : Identity, rank : Nat])
    BY DEF AllocationTypes
  <2> QED
    BY <2>1
<1>2. S # {} \/ E # {}
  BY <1>1 DEF TakenDecided
<1>3. IsFiniteSet(S) /\ IsFiniteSet(E)
  <2>1. IsFiniteSet(DOMAIN selected) /\ IsFiniteSet(DOMAIN excluded)
    BY <1>1, FS_Interval
  <2>2. S \in SUBSET DOMAIN selected /\ E \in SUBSET DOMAIN excluded
    OBVIOUS
  <2> HIDE DEF S, E
  <2> QED
    BY <2>1, <2>2, FS_Subset
<1>4. Cardinality(S) + Cardinality(E) <= 1
  BY OnceIsOne DEF Decided
<1> HIDE DEF S, E
<1>5. Cardinality(S) \in Nat /\ Cardinality(E) \in Nat
  BY <1>3, FS_CardinalityType
<1>6. Cardinality(S) # 0 \/ Cardinality(E) # 0
  BY <1>2, <1>3, FS_EmptySet
<1>7. Cardinality(S) + Cardinality(E) = 1
  BY <1>4, <1>5, <1>6
<1> QED
  BY <1>7 DEF Decided, S, E

(* The candidates of all symbols, once all are taken, are planned for.     *)
LEMMA PlanIsPlanned ==
  ASSUME AllocationInv(Identity), CandidatesOnce, DecidedOnce, PlanInv,
         AllRequested, AllocationDone
  PROVE  Planned
<1> DEFINE R == UNION {Requested(s) : s \in Symbol}
           RankOf(c) == Cardinality({d \in R : d.symbol = c.symbol /\ Before(d, c)})
           InQuota == {c \in R : RankOf(c) < MaxContractsPerSymbol}
           Sooner(c) == {d \in InQuota :
               RankOf(d) < RankOf(c) \/ (RankOf(d) = RankOf(c) /\ d.symbol < c.symbol)}
<1>1. AllocationTypes(Identity) /\ SelectedInOrder /\ TakenDecided /\ RoundPassed
  BY DEF AllocationInv, PlanInv
<1>2. (\A s \in Symbol : indices[s] = Len(candidates[s])) /\ TakenPlaces = Places
  BY <1>1, AllTaken
<1>3. ASSUME NEW s \in Symbol
      PROVE  /\ \A k \in 1 .. Len(candidates[s]) :
                   candidates[s][k] \in Requested(s) /\ candidates[s][k].symbol = s
             /\ \A c \in Requested(s) : \E k \in 1 .. Len(candidates[s]) : c = candidates[s][k]
             /\ \A k \in 1 .. Len(candidates[s]) :
                   Cardinality({d \in Requested(s) : Before(d, candidates[s][k])}) = k - 1
             /\ Len(candidates[s]) \in Nat
  <2>1. CandidatesOf(s, candidates[s]) /\ RankedIn(candidates[s], Requested(s))
    BY DEF CandidatesOnce, AllRequested
  <2>2. DOMAIN candidates[s] = 1 .. Len(candidates[s])
    BY <2>1 DEF CandidatesOf
  <2> QED
    BY <2>1, <2>2 DEF CandidatesOf, RankedIn, Range
<1>4. \A s \in Symbol : \A d \in R : d.symbol = s <=> d \in Requested(s)
  BY <1>3
<1>5. ASSUME NEW s \in Symbol, NEW k \in 1 .. Len(candidates[s]) 
      PROVE  RankOf(candidates[s][k]) = k - 1
  <2> DEFINE c == candidates[s][k]
  <2>1. c.symbol = s /\ Cardinality({d \in Requested(s) : Before(d, c)}) = k - 1
    BY <1>3
  <2> HIDE DEF c
  <2>2. {d \in R : d.symbol = s /\ Before(d, c)} = {d \in Requested(s) : Before(d, c)}
    BY <1>4
  <2>3. RankOf(c) = k - 1
    BY <2>1, <2>2
  <2> QED
    BY <2>3 DEF c
<1>6. \A c \in R : \E s \in Symbol : \E k \in 1 .. Len(candidates[s]) : c = candidates[s][k]
  BY <1>3
<1>7. \A s \in Symbol : \A k \in 1 .. Len(candidates[s]) : candidates[s][k] \in R
  BY <1>3
<1> HIDE DEF R, RankOf
(* A place's contract is requested, and its rank is the place's.           *)
<1>8. ASSUME NEW p \in Places
      PROVE  At(p) \in InQuota /\ RankOf(At(p)) = p[2] - 1 /\ At(p).symbol = p[1]
  <2>1. /\ p[1] \in Symbol /\ p[2] \in 1 .. Len(candidates[p[1]]) /\ p[2] \in Nat
        /\ 1 <= p[2] /\ p[2] <= MaxContractsPerSymbol
    BY <1>1, PlaceTypes
  <2>2. At(p) \in R /\ RankOf(At(p)) = p[2] - 1 /\ At(p).symbol = p[1]
    BY <1>3, <1>5, <1>7, <2>1 DEF At
  <2>3. RankOf(At(p)) < MaxContractsPerSymbol
    BY <2>1, <2>2, LimitsPositive
  <2> QED
    BY <2>2, <2>3
<1>9. ASSUME NEW c \in InQuota PROVE \E p \in Places : c = At(p)
  <2>1. PICK s \in Symbol : \E k \in 1 .. Len(candidates[s]) : c = candidates[s][k]
    BY <1>6
  <2>2. PICK k \in 1 .. Len(candidates[s]) : c = candidates[s][k]
    BY <2>1
  <2>3. k - 1 < MaxContractsPerSymbol /\ k \in Nat /\ 1 <= k /\ k <= Len(candidates[s])
    BY <1>3, <1>5, <2>2
  <2>4. <<s, k>> \in Places
    BY <2>3, LimitsPositive DEF Places
  <2>5. c = At(<<s, k>>)
    BY <2>2 DEF At
  <2> QED
    BY <2>4, <2>5
<1>10. ASSUME NEW p \in Places PROVE Cardinality(Sooner(At(p))) = Cardinality(SoonerPlaces(p))
  <2>1. ASSUME NEW q \in Places PROVE At(q) \in Sooner(At(p)) <=> q \in SoonerPlaces(p)
    <3>1. p[2] \in Nat /\ q[2] \in Nat
      BY <1>1, PlaceTypes
    <3>2. /\ At(q) \in InQuota
          /\ RankOf(At(p)) = p[2] - 1 /\ At(p).symbol = p[1]
          /\ RankOf(At(q)) = q[2] - 1 /\ At(q).symbol = q[1]
      BY <1>8
    <3> HIDE DEF InQuota
    <3>3. At(q) \in Sooner(At(p)) <=>
              (q[2] - 1 < p[2] - 1 \/ (q[2] - 1 = p[2] - 1 /\ q[1] < p[1]))
      BY <3>2
    <3> QED
      BY <3>1, <3>3 DEF SoonerPlaces, Comes
  <2>2. \A d \in Sooner(At(p)) : \E q \in Places : d = At(q)
    <3> HIDE DEF InQuota
    <3> QED
      BY <1>9
  <2>3. SoonerPlaces(p) \subseteq Places
    BY DEF SoonerPlaces
  <2> HIDE DEF Sooner
  <2>4. Sooner(At(p)) = {At(q) : q \in SoonerPlaces(p)}
    BY <2>1, <2>2, <2>3
  <2> QED
    BY <1>1, <2>3, <2>4, AsManyPlaces
<1>11. Range(selected) = {c \in InQuota : Cardinality(Sooner(c)) < Capacity}
  <2>1. Range(selected) = {At(p) : p \in {q \in Places : Cardinality(SoonerPlaces(q)) < Capacity}}
    BY <1>1, <1>2 DEF SelectedInOrder
  <2> HIDE DEF InQuota, Sooner
  <2> QED
    BY <1>8, <1>9, <1>10, <2>1
<1>12. ASSUME NEW c \in R PROVE Decided(c) = 1
  <2>1. PICK s \in Symbol : \E k \in 1 .. Len(candidates[s]) : c = candidates[s][k]
    BY <1>6
  <2>2. PICK k \in 1 .. indices[s] : c = candidates[s][k]
    BY <1>2, <2>1
  <2> QED
    BY <1>1, <2>2, TakenIsOne
<1> QED
  BY <1>11, <1>12 DEF Planned, R, RankOf

-----------------------------------------------------------------------------
(* The stages keep to the plan.                                            *)

UniversePlanInv ==
    /\ UniverseInv
    /\ PlanInv
    /\ CandidatesRequested
    /\ ShortlistForemost
    /\ stage = "planned" => AllocationDone

(* The ranking depends on the entries and the prices alone.                *)
LEMMA RankingStill ==
  ASSUME UNCHANGED <<discovered, prices>>
  PROVE  /\ \A c, d : Before(c, d)' = Before(c, d)
         /\ \A i, j : EntryBefore(i, j)' = EntryBefore(i, j)
         /\ \A s : Nearest(s)' = Nearest(s) /\ Foremost(s)' = Foremost(s)
<1>1. \A c, d : Before(c, d)' = Before(c, d)
  BY DEF Before, Distance
<1>2. \A i, j : EntryBefore(i, j)' = EntryBefore(i, j)
  BY <1>1 DEF EntryBefore, IdentityOf
<1>3. \A s : Nearest(s)' = Nearest(s)
  BY EligibleStill DEF Nearest, IdentityOf
<1>4. \A s, i : {j \in Nearest(s)' : EntryBefore(j, i)'} = {j \in Nearest(s) : EntryBefore(j, i)}
  BY <1>2, <1>3
<1>5. \A s : Foremost(s)' = Foremost(s)
  BY <1>3, <1>4 DEF Foremost
<1> QED
  BY <1>1, <1>2, <1>3, <1>5

LEMMA RequestedStill ==
  ASSUME UNCHANGED <<discovered, prices, liquid, candidates>>
  PROVE  AllRequested' = AllRequested
<1>1. \A s : Requested(s)' = Requested(s)
  BY RankingStill DEF Requested, Foremost, IdentityOf
<1>2. \A S, c : {d \in S : Before(d, c)'} = {d \in S : Before(d, c)}
  BY RankingStill
<1> QED
  BY <1>1, <1>2 DEF AllRequested, RankedIn, Range

(* The candidates are the liquid contracts of the shortlist, ranked.       *)
LEMMA FinalizeRequested ==
  ASSUME UniverseInv, ShortlistForemost, FinalizeLiquidity
  PROVE  AllRequested'
<1>1. PICK quoted : /\ candidates' = [s \in Symbol |-> Ranked(LiquidOf(s, quoted))]
                    /\ liquid' = quoted
  BY DEF FinalizeLiquidity
<1>2. UNCHANGED <<discovered, prices>> /\ stage = "enriching"
  BY DEF FinalizeLiquidity
<1>3. \A s : Requested(s)' = {IdentityOf(i) : i \in Foremost(s)} \cap quoted
  BY <1>1, <1>2, RankingStill DEF Requested, Foremost, IdentityOf
<1>4. ASSUME NEW s \in Symbol PROVE RankedIn(candidates'[s], Requested(s)')
  <2>1. shortlist[s] \in Seq(DOMAIN Catalog)
    BY DEF UniverseInv, ShortlistOK
  <2>2. Range(LiquidOf(s, quoted)) = {IdentityOf(i) : i \in Range(shortlist[s])} \cap quoted
    BY <2>1, LiquidListed
  <2>3. Range(LiquidOf(s, quoted)) = Requested(s)'
    BY <1>2, <1>3, <2>2 DEF ShortlistForemost
  <2>4. RankedIn(Ranked(LiquidOf(s, quoted)), Range(LiquidOf(s, quoted)))
    BY LiquidCandidates DEF UniverseInv
  <2>5. candidates'[s] = Ranked(LiquidOf(s, quoted))
    BY <1>1
  <2> QED
    BY <2>3, <2>4, <2>5
<1>5. \A S, c : {d \in S : Before(d, c)'} = {d \in S : Before(d, c)}
  BY <1>2, RankingStill
<1> QED
  BY <1>4, <1>5, ZenonT(40) DEF AllRequested, RankedIn, Range

LEMMA PlanInvKept ==
  ASSUME PlanInv, UNCHANGED allocation
  PROVE  PlanInv'
<1>1. UNCHANGED <<candidates, indices, selected, excluded, turn, progressed>>
  BY DEF allocation
<1>2. \A p : At(p)' = At(p) /\ SoonerPlaces(p)' = SoonerPlaces(p)
  BY <1>1 DEF At, SoonerPlaces, Comes, Places
<1>3. TakenPlaces' = TakenPlaces
  BY <1>1 DEF TakenPlaces, Places
<1>4. SelectedInOrder'
  <2>1. /\ Len(selected') = Least(Capacity, Cardinality(TakenPlaces'))
        /\ Range(selected)' = {At(q)' : q \in {q \in TakenPlaces' : Cardinality(SoonerPlaces(q)') < Capacity}}
    BY <1>1, <1>2, <1>3 DEF PlanInv, SelectedInOrder, Range
  <2> QED
    BY <2>1 DEF SelectedInOrder, Capacity
<1> QED
  BY <1>1, <1>4 DEF PlanInv, TakenDecided, RoundPassed, Remaining

LEMMA UniversePlanStarts == Init => UniversePlanInv
<1> SUFFICES ASSUME Init PROVE UniversePlanInv
  OBVIOUS
<1>1. stage = "discovering" /\ AllocationInit
  BY DEF Init
<1> QED
  BY <1>1, UniverseStarts, PlanStarts
  DEF UniversePlanInv, CandidatesRequested, ShortlistForemost

LEMMA UniversePlanKeeps == UniversePlanInv /\ [Next]_vars => UniversePlanInv'
<1> SUFFICES ASSUME UniversePlanInv, [Next]_vars PROVE UniversePlanInv'
  OBVIOUS
<1> USE DEF UniversePlanInv
<1>1. UniverseInv'
  BY UniverseKeeps
<1>2. ASSUME NEW i \in DOMAIN Catalog, Discover(i) PROVE UniversePlanInv'
  <2>1. stage' = "discovering" /\ UNCHANGED allocation
    BY <1>2 DEF Discover
  <2> QED
    BY <1>1, <2>1, PlanInvKept DEF CandidatesRequested, ShortlistForemost
<1>3. CASE CoarseSelect
  <2>1. /\ stage' \in {"failed", "enriching"} /\ UNCHANGED <<discovered, prices>>
        /\ UNCHANGED allocation /\ \A s \in Symbol : shortlist'[s] = Shortlist(s)
    BY <1>3 DEF CoarseSelect
  <2>2. \A s \in Symbol : Range(Shortlist(s)) = Foremost(s)
    BY ShortlistCuts DEF UniverseInv, Foremost
  <2>3. ShortlistForemost'
    BY <2>1, <2>2, RankingStill DEF ShortlistForemost, Range
  <2> QED
    BY <1>1, <2>1, <2>3, PlanInvKept DEF CandidatesRequested
<1>4. CASE ProviderFails
  <2>1. stage' = "blocked" /\ UNCHANGED allocation
    BY <1>4 DEF ProviderFails
  <2> QED
    BY <1>1, <2>1, PlanInvKept DEF CandidatesRequested, ShortlistForemost
<1>5. CASE FinalizeLiquidity
  <2>1. stage = "enriching" /\ stage' = "allocating"
    BY <1>5 DEF FinalizeLiquidity
  <2>2. AllRequested'
    BY <1>5, FinalizeRequested
  <2>3. PlanInv'
    <3>1. AllocationInit'
      BY <1>5, <2>1 DEF UniverseInv, NothingAllocated, FinalizeLiquidity, AllocationInit
    <3>2. AllocationInit' => PlanInv'
      BY PlanStarts, PTL
    <3> QED
      BY <3>1, <3>2
  <2> QED
    BY <1>1, <2>1, <2>2, <2>3 DEF CandidatesRequested, ShortlistForemost
<1>6. CASE AllocateNext
  <2>1. /\ stage = "allocating" /\ stage' = stage /\ AllocationStep
        /\ UNCHANGED <<discovered, prices, liquid>>
    BY <1>6 DEF AllocateNext
  <2>2. candidates' = candidates
    BY <2>1 DEF AllocationStep, SelectContract, ExcludeContract, SkipSymbol, NextRound, Take
  <2>3. PlanInv'
    BY <2>1, PlanKept DEF UniverseInv
  <2>4. AllRequested'
    BY <2>1, <2>2, RequestedStill DEF CandidatesRequested
  <2> QED
    BY <1>1, <2>1, <2>3, <2>4 DEF CandidatesRequested, ShortlistForemost
<1>7. CASE Plan
  <2>1. /\ stage = "allocating" /\ AllocationDone /\ stage' \in {"blocked", "planned"}
        /\ UNCHANGED <<discovered, prices, liquid>> /\ UNCHANGED allocation
    BY <1>7 DEF Plan
  <2>2. AllocationDone' /\ candidates' = candidates
    BY <2>1 DEF AllocationDone, allocation
  <2>3. AllRequested'
    BY <2>1, <2>2, RequestedStill DEF CandidatesRequested
  <2> QED
    BY <1>1, <2>1, <2>2, <2>3, PlanInvKept DEF CandidatesRequested, ShortlistForemost
<1>8. CASE UNCHANGED vars
  <2>1. /\ UNCHANGED <<stage, discovered, prices, liquid, shortlist>> /\ UNCHANGED allocation
    BY <1>8 DEF vars
  <2>2. candidates' = candidates /\ (AllocationDone' <=> AllocationDone)
    BY <2>1 DEF allocation, AllocationDone
  <2>3. AllRequested' = AllRequested
    BY <2>1, <2>2, RequestedStill
  <2>4. ShortlistForemost'
    BY <2>1, RankingStill DEF ShortlistForemost, Range
  <2> QED
    BY <1>1, <2>1, <2>2, <2>3, <2>4, PlanInvKept DEF CandidatesRequested
<1> QED
  BY <1>2, <1>3, <1>4, <1>5, <1>6, <1>7, <1>8 DEF Next

LEMMA UniversePlanAlways == Spec => []UniversePlanInv
BY UniversePlanStarts, UniversePlanKeeps, PTL DEF Spec

(* What every allocation that ends leaves.                                 *)
LEMMA DonePlanned ==
  UniverseInv /\ PlanInv /\ AllRequested /\ AllocationDone => Planned
BY PlanIsPlanned DEF UniverseInv

(* A planned run has the plan that is stated without sorting or rounds:    *)
(* of each symbol's nearest entries that are liquid the first within its   *)
(* limit, by rank and then by symbol until the capacity is used, and every *)
(* contract asked about is selected or excluded, once.  Whatever the       *)
(* catalog lists, the prices, the quotes and the limits.                   *)
THEOREM PlanStated == Spec => [](stage = "planned" => Planned)
<1>1. UniversePlanInv => (stage = "planned" => Planned)
  BY DonePlanned DEF UniversePlanInv, CandidatesRequested
<1> QED
  BY <1>1, UniversePlanAlways, PTL

(* The step that ends an allocation ends it in that plan, also when the    *)
(* plan is empty and the run is blocked by it.                             *)
THEOREM EndsAsPlanned == Spec => [][Plan => Planned']_vars
<1>1. UniversePlanInv /\ [Next]_vars => [Plan => Planned']_vars
  <2> SUFFICES ASSUME UniversePlanInv, UniversePlanInv', Plan PROVE Planned'
    BY UniversePlanKeeps
  <2>1. /\ stage = "allocating" /\ AllocationDone
        /\ UNCHANGED <<discovered, prices, liquid>> /\ UNCHANGED allocation
    BY DEF Plan
  <2>2. AllocationDone' /\ AllRequested'
    BY <2>1, RequestedStill
    DEF UniversePlanInv, CandidatesRequested, AllocationDone, allocation
  <2>3. UniverseInv' /\ PlanInv' /\ AllRequested' /\ AllocationDone' => Planned'
    BY DonePlanned, PTL
  <2> QED
    BY <2>2, <2>3 DEF UniversePlanInv
<1> QED
  BY <1>1, UniversePlanAlways, PTL DEF Spec

-----------------------------------------------------------------------------
(* The allocation comes to an end: each of its steps takes a contract, or  *)
(* ends a round that took one, or passes a symbol in the round.            *)
Untaken ==
    {p \in Symbol \X Nat : indices[p[1]] < p[2] /\ p[2] <= Len(candidates[p[1]])}

Descends ==
    /\ IsFiniteSet(Untaken)
    /\ \/ Cardinality(Untaken') < Cardinality(Untaken)
       \/ Untaken' = Untaken /\ progressed /\ ~progressed'
       \/ Untaken' = Untaken /\ progressed' = progressed /\ turn < turn' /\ turn' <= Symbols + 1

LEMMA UntakenFinite ==
  ASSUME NEW Contracts, AllocationTypes(Contracts)
  PROVE  IsFiniteSet(Untaken) /\ Cardinality(Untaken) \in Nat
<1> DEFINE Ranks(s) == {s} \X (1 .. Len(candidates[s]))
           All == {Ranks(s) : s \in Symbol}
           f == [s \in Symbol |-> Ranks(s)]
<1>1. \A s \in Symbol : Len(candidates[s]) \in Nat /\ indices[s] \in Nat
  BY DEF AllocationTypes
<1>2. \A T \in All : IsFiniteSet(T)
  <2> SUFFICES ASSUME NEW s \in Symbol PROVE IsFiniteSet({s} \X (1 .. Len(candidates[s])))
    OBVIOUS
  <2>1. IsFiniteSet({s})
    BY FS_Singleton
  <2>2. IsFiniteSet(1 .. Len(candidates[s]))
    BY <1>1, FS_Interval
  <2> QED
    BY <2>1, <2>2, FS_Product
<1>3. IsFiniteSet(All)
  <2>1. IsFiniteSet(Symbol)
    BY LimitsPositive, FS_Interval DEF Symbol
  <2>2. f \in Surjection(Symbol, All)
    BY Fun_IsSurj
  <2> HIDE DEF f, All
  <2> QED
    BY <2>1, <2>2, FS_Surjection
<1>4. IsFiniteSet(UNION All)
  <2> HIDE DEF All
  <2> QED
    BY <1>2, <1>3, FS_UNION
<1>5. Untaken \in SUBSET UNION All
  <2> SUFFICES ASSUME NEW p \in Untaken PROVE p \in UNION All
    OBVIOUS
  <2>1. /\ p[1] \in Symbol /\ p[2] \in Nat /\ p = <<p[1], p[2]>>
        /\ indices[p[1]] < p[2] /\ p[2] <= Len(candidates[p[1]])
    BY DEF Untaken
  <2>2. p \in Ranks(p[1])
    BY <1>1, <2>1
  <2> QED
    BY <2>1, <2>2
<1> HIDE DEF All
<1> QED
  BY <1>4, <1>5, FS_Subset, FS_CardinalityType

LEMMA StepDescends ==
  ASSUME NEW Contracts, AllocationTypes(Contracts), AllocationStep
  PROVE  Descends
<1>1. IsFiniteSet(Untaken) /\ Cardinality(Untaken) \in Nat
  BY UntakenFinite
<1>2. ASSUME NEW s \in Symbol, Take(s) PROVE Cardinality(Untaken') < Cardinality(Untaken)
  <2>1. /\ candidates' = candidates /\ indices' = [indices EXCEPT ![s] = @ + 1]
        /\ indices \in [Symbol -> Nat] /\ indices[s] < Len(candidates[s])
        /\ Len(candidates[s]) \in Nat
    BY <1>2 DEF Take, Remaining, AllocationTypes
  <2>2. PICK p : p = <<s, indices[s] + 1>>
    OBVIOUS
  <2>3. p \in Untaken /\ p \notin Untaken'
    BY <2>1, <2>2 DEF Untaken
  <2>4. ASSUME NEW q \in Untaken, q # p PROVE q \in Untaken'
    <3>1. /\ q[1] \in Symbol /\ q[2] \in Nat /\ q = <<q[1], q[2]>>
          /\ indices[q[1]] < q[2] /\ q[2] <= Len(candidates[q[1]])
      BY DEF Untaken
    <3>2. indices'[q[1]] < q[2]
      BY <2>1, <2>2, <2>4, <3>1
    <3> QED
      BY <2>1, <3>1, <3>2 DEF Untaken
  <2>5. ASSUME NEW q \in Untaken' PROVE q \in Untaken
    <3>1. /\ q[1] \in Symbol /\ q[2] \in Nat /\ q = <<q[1], q[2]>>
          /\ indices'[q[1]] < q[2] /\ q[2] <= Len(candidates[q[1]])
      BY <2>1 DEF Untaken
    <3>2. indices[q[1]] < q[2]
      BY <2>1, <3>1
    <3> QED
      BY <3>1, <3>2 DEF Untaken
  <2>6. Untaken' = Untaken \ {p}
    BY <2>3, <2>4, <2>5
  <2>7. Cardinality(Untaken') = Cardinality(Untaken) - 1
    BY <1>1, <2>3, <2>6, FS_RemoveElement
  <2> QED
    BY <1>1, <2>7
<1>3. ASSUME NEW s \in Symbol, SkipSymbol(s)
      PROVE  Untaken' = Untaken /\ progressed' = progressed /\ turn < turn' /\ turn' <= Symbols + 1
  BY <1>3, LimitsPositive DEF SkipSymbol, Untaken, Symbol
<1>4. CASE NextRound
  BY <1>1, <1>4 DEF NextRound, Untaken, Descends
<1> QED
  BY <1>1, <1>2, <1>3, <1>4 DEF AllocationStep, SelectContract, ExcludeContract, Descends

(* The rounds of an allocation are finitely many, for any candidates: what *)
(* is untaken, whether the round took something and the turn descend with  *)
(* every step, in this order.                                              *)
THEOREM AllocationDescends == Spec => [][AllocateNext => Descends]_vars
<1>1. UniverseInv /\ [Next]_vars => [AllocateNext => Descends]_vars
  <2> SUFFICES ASSUME UniverseInv, AllocateNext PROVE Descends
    OBVIOUS
  <2> QED
    BY StepDescends DEF UniverseInv, AllocationInv, AllocateNext
<1> QED
  BY <1>1, UniverseAlways, PTL DEF Spec
=============================================================================
