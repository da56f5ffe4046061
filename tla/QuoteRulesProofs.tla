--------------------------- MODULE QuoteRulesProofs ---------------------------
(***************************************************************************)
(* Theorems about the fair price, for any prices of the three sources and  *)
(* any outlier threshold, about the dynamic slippage, and about a tick of  *)
(* the bot, for any prices, inventories and settings that satisfy          *)
(* QuoteRulesAssumption.                                                   *)
(***************************************************************************)
EXTENDS QuoteRules, SumLemmas

(***************************************************************************)
(* Ranks.                                                                  *)
(***************************************************************************)

\* v is the price of rank k among those of S.
IsRank(S, price, k, v) ==
  /\ v \in {price[s] : s \in S}
  /\ Cardinality({s \in S : price[s] < v}) <= k
  /\ k < Cardinality({s \in S : price[s] <= v})

\* At most one price has a rank, so AtRank is the one that has it.
LEMMA RankIsUnique ==
  ASSUME NEW S, IsFiniteSet(S), NEW price, \A s \in S : price[s] \in Nat,
         NEW k \in Nat, NEW v, IsRank(S, price, k, v)
  PROVE  AtRank(S, price, k) = v
<1>1. ASSUME NEW u, NEW w, IsRank(S, price, k, u), IsRank(S, price, k, w), u < w
      PROVE  FALSE
  <2> DEFINE upToU == {s \in S : price[s] <= u}
             belowW == {s \in S : price[s] < w}
  <2>1. u \in Nat /\ w \in Nat
    BY <1>1 DEF IsRank
  <2>2. upToU \subseteq belowW
    BY <1>1, <2>1
  <2>3. IsFiniteSet(upToU) /\ IsFiniteSet(belowW)
    BY FS_Subset
  <2>4. Cardinality(upToU) <= Cardinality(belowW)
    BY <2>2, <2>3, FS_Subset
  <2>5. Cardinality(upToU) \in Nat /\ Cardinality(belowW) \in Nat
    BY <2>3, FS_CardinalityType
  <2>6. k < Cardinality(upToU) /\ Cardinality(belowW) <= k
    BY <1>1 DEF IsRank
  <2> HIDE DEF upToU, belowW
  <2> QED BY <2>4, <2>5, <2>6
<1>2. ASSUME NEW u, IsRank(S, price, k, u) PROVE u = v
  <2>1. u \in Nat /\ v \in Nat
    BY <1>2 DEF IsRank
  <2> QED BY <1>1, <1>2, <2>1
<1>3. IsRank(S, price, k, AtRank(S, price, k))
  BY DEF IsRank, AtRank
<1> QED BY <1>2, <1>3

\* The ranks of one, two and three prices.
LEMMA RankOfOne ==
  ASSUME NEW x, NEW price, price[x] \in Nat
  PROVE  AtRank({x}, price, 0) = price[x]
<1>1. {s \in {x} : price[s] < price[x]} = {} /\ {s \in {x} : price[s] <= price[x]} = {x}
  OBVIOUS
<1>2. Cardinality({}) = 0 /\ Cardinality({x}) = 1 /\ IsFiniteSet({x})
  BY FS_EmptySet, FS_Singleton
<1>3. IsRank({x}, price, 0, price[x])
  BY <1>1, <1>2 DEF IsRank
<1> QED BY <1>2, <1>3, RankIsUnique

LEMMA SizeOfTwo ==
  ASSUME NEW x, NEW y, x # y
  PROVE  IsFiniteSet({x, y}) /\ Cardinality({x, y}) = 2
<1>1. IsFiniteSet({x}) /\ Cardinality({x}) = 1
  BY FS_Singleton
<1>2. IsFiniteSet({x} \union {y}) /\ Cardinality({x} \union {y}) = Cardinality({x}) + 1
  BY <1>1, FS_AddElement
<1>3. {x, y} = {x} \union {y}
  OBVIOUS
<1> QED BY <1>1, <1>2, <1>3

LEMMA RankOfTwo ==
  ASSUME NEW x, NEW y, x # y, NEW price, price[x] \in Nat, price[y] \in Nat, price[x] <= price[y]
  PROVE  AtRank({x, y}, price, 0) = price[x] /\ AtRank({x, y}, price, 1) = price[y]
<1> DEFINE below(v) == {s \in {x, y} : price[s] < v}
           upTo(v) == {s \in {x, y} : price[s] <= v}
<1>1. /\ IsFiniteSet({x, y}) /\ Cardinality({x, y}) = 2 /\ Cardinality({x}) = 1
      /\ Cardinality({}) = 0
  BY SizeOfTwo, FS_EmptySet, FS_Singleton
<1>2. below(price[x]) = {} /\ upTo(price[y]) = {x, y}
  OBVIOUS
<1>3. upTo(price[x]) \in {{x}, {x, y}} /\ below(price[y]) \in {{}, {x}}
  OBVIOUS
<1> HIDE DEF below, upTo
<1>4. IsRank({x, y}, price, 0, price[x])
  BY <1>1, <1>2, <1>3 DEF IsRank, below, upTo
<1>5. IsRank({x, y}, price, 1, price[y])
  BY <1>1, <1>2, <1>3 DEF IsRank, below, upTo
<1> QED BY <1>1, <1>4, <1>5, RankIsUnique

LEMMA SizeOfThree ==
  ASSUME NEW x, NEW y, NEW z, x # y, y # z, x # z
  PROVE  IsFiniteSet({x, y, z}) /\ Cardinality({x, y, z}) = 3
<1>1. IsFiniteSet({x, y}) /\ Cardinality({x, y}) = 2
  BY SizeOfTwo
<1>2. {x, y, z} = {x, y} \union {z} /\ z \notin {x, y}
  OBVIOUS
<1> QED BY <1>1, <1>2, FS_AddElement

\* S is x, y and z in the order of their prices.
InOrder(S, price, x, y, z) ==
  /\ S = {x, y, z} /\ x # y /\ y # z /\ x # z
  /\ price[x] \in Nat /\ price[y] \in Nat /\ price[z] \in Nat
  /\ price[x] <= price[y] /\ price[y] <= price[z]

LEMMA RankOfThree ==
  ASSUME NEW S, NEW price, NEW x, NEW y, NEW z, InOrder(S, price, x, y, z)
  PROVE  AtRank(S, price, 1) = price[y]
<1> USE DEF InOrder
<1> DEFINE below == {s \in {x, y, z} : price[s] < price[y]}
           upTo == {s \in {x, y, z} : price[s] <= price[y]}
<1>1. IsFiniteSet({x, y}) /\ Cardinality({x, y}) = 2 /\ Cardinality({x}) = 1 /\ Cardinality({}) = 0
  BY SizeOfTwo, FS_EmptySet, FS_Singleton
<1>2. IsFiniteSet({x, y, z}) /\ Cardinality({x, y, z}) = 3
  BY SizeOfThree
<1>3. below \in {{}, {x}} /\ upTo \in {{x, y}, {x, y, z}}
  OBVIOUS
<1> HIDE DEF below, upTo
<1>4. Cardinality(below) <= 1 /\ 1 < Cardinality(upTo)
  BY <1>1, <1>2, <1>3
<1>5. IsRank({x, y, z}, price, 1, price[y])
  BY <1>4 DEF IsRank, below, upTo
<1>6. \A s \in {x, y, z} : price[s] \in Nat
  OBVIOUS
<1> HIDE DEF InOrder
<1>7. AtRank({x, y, z}, price, 1) = price[y]
  BY ONLY <1>2, <1>5, <1>6, 1 \in Nat, RankIsUnique
<1> QED BY <1>7 DEF InOrder

(***************************************************************************)
(* The fair price.                                                         *)
(***************************************************************************)

LEMMA TimesIsMonotone ==
  ASSUME NEW a \in Nat, NEW b \in Nat, a <= b, NEW c \in Nat
  PROVE  a * c <= b * c
OBVIOUS

\* Three sources in the order of their prices.
LEMMA Ordered ==
  ASSUME NEW price, \A s \in Sources : price[s] \in Nat
  PROVE  \E x, y, z \in Sources :
           /\ x # y /\ y # z /\ x # z /\ Sources = {x, y, z}
           /\ price[x] <= price[y] /\ price[y] <= price[z]
<1> DEFINE a == "chainlink"
           b == "binance"
           c == "pancake"
           ordered(x, y, z) == /\ x # y /\ y # z /\ x # z /\ Sources = {x, y, z}
                               /\ price[x] <= price[y] /\ price[y] <= price[z]
<1>1. price[a] \in Nat /\ price[b] \in Nat /\ price[c] \in Nat
  BY DEF Sources
<1>2. a \in Sources /\ b \in Sources /\ c \in Sources
  BY DEF Sources
<1>3. \/ ordered(a, b, c) \/ ordered(a, c, b) \/ ordered(b, a, c)
      \/ ordered(b, c, a) \/ ordered(c, a, b) \/ ordered(c, b, a)
  BY <1>1 DEF Sources
<1>4. \E x, y, z \in Sources : ordered(x, y, z)
  <2> HIDE DEF ordered, a, b, c
  <2> QED BY <1>2, <1>3
<1> QED BY <1>4

\* Whatever one of three sources answers, the fair price stays within half the
\* outlier threshold of what any two of them span (aggregator.py, lines 77 to
\* 97): the middle price is always kept, and what is kept beside it is near.
THEOREM MedianRobust ==
  ASSUME NEW price, \A s \in Sources : price[s] \in Nat \ {0},
         NEW s \in Sources, NEW t \in Sources, s # t, price[s] <= price[t]
  PROVE  /\ 100 * FairPrice(price) >= price[s] * (200 - PriceOutlierPct)
         /\ 100 * FairPrice(price) <= price[t] * (200 + PriceOutlierPct)
<1>1. PICK x, y, z \in Sources :
        /\ x # y /\ y # z /\ x # z /\ Sources = {x, y, z}
        /\ price[x] <= price[y] /\ price[y] <= price[z]
  BY Ordered
<1> DEFINE P == PriceOutlierPct
           mid == price[y]
           near == Near(Sources, price)
<1>2. P \in Nat /\ price[x] \in Nat /\ mid \in Nat \ {0} /\ price[z] \in Nat
      /\ price[s] \in Nat /\ price[t] \in Nat
  BY PriceAssumption
<1>3. Cardinality(Sources) = 3
  <2>1. Cardinality({x, y, z}) = 3
    BY <1>1, SizeOfThree
  <2> QED BY <1>1, <2>1
<1>4. Median(Sources, price) = 2 * mid
  <2>1. AtRank(Sources, price, 1) = mid
    <3>1. InOrder(Sources, price, x, y, z)
      BY <1>1, <1>2 DEF InOrder
    <3> QED BY <3>1, RankOfThree
  <2>2. (3 - 1) \div 2 = 1 /\ 3 \div 2 = 1
    OBVIOUS
  <2> QED BY <1>2, <1>3, <2>1, <2>2 DEF Median
<1>5. \A v \in near : 100 * price[v] <= 100 * mid + P * mid /\ 100 * mid <= 100 * price[v] + P * mid
  <2>1. ASSUME NEW v \in near
        PROVE  100 * price[v] <= 100 * mid + P * mid /\ 100 * mid <= 100 * price[v] + P * mid
    <3>1. price[v] \in Nat /\ 100 * Distance(2 * price[v], 2 * mid) <= P * (2 * mid)
      BY <1>4, <2>1 DEF Near
    <3>2. PICK m \in Nat : m = P * mid
      BY <1>2
    <3>3. P * (2 * mid) = 2 * m
      BY <1>2, <3>2
    <3> HIDE DEF mid, near, P
    <3> QED BY <1>2, <3>1, <3>2, <3>3 DEF Distance
  <2> QED BY <2>1
<1>6. y \in near /\ near \subseteq Sources
  <2>1. Distance(2 * mid, 2 * mid) = 0
    BY <1>2 DEF Distance
  <2>2. 0 <= P * (2 * mid)
    BY <1>2
  <2> QED BY <1>4, <2>1, <2>2 DEF Near
<1>7. near \in {{y}, {x, y}, {y, z}, {x, y, z}}
  BY <1>1, <1>6
<1>8. FairPrice(price) = Median(near, price)
  <2>1. Answered(price) = Sources
    BY DEF Answered, NoPrice
  <2>2. Kept(Sources, price) = near
    BY <1>6 DEF Kept
  <2> QED BY <1>1, <2>1, <2>2 DEF FairPrice
<1>9. /\ Median(near, price) \in Nat
      /\ 100 * Median(near, price) + P * mid >= 200 * mid
      /\ 100 * Median(near, price) <= 200 * mid + P * mid
  <2>0. P * mid \in Nat
    BY <1>2
  <2>1. CASE near = {y}
    <3>1. Cardinality({y}) = 1 /\ AtRank({y}, price, 0) = mid
      BY <1>2, FS_Singleton, RankOfOne
    <3>2. Median(near, price) = mid + mid
      BY <2>1, <3>1, (1 - 1) \div 2 = 0, 1 \div 2 = 0 DEF Median
    <3> HIDE DEF mid, near, P
    <3> QED BY <1>2, <2>0, <3>2
  <2>2. CASE near = {x, y}
    <3>0. x # y /\ price[x] \in Nat /\ price[y] \in Nat /\ price[x] <= price[y]
      BY <1>1, <1>2
    <3>1. Cardinality({x, y}) = 2 /\ AtRank({x, y}, price, 0) = price[x] /\ AtRank({x, y}, price, 1) = mid
      <4>1. AtRank({x, y}, price, 0) = price[x] /\ AtRank({x, y}, price, 1) = price[y]
        BY ONLY <3>0, RankOfTwo
      <4> QED BY <3>0, <4>1, SizeOfTwo
    <3>2. Median(near, price) = price[x] + mid
      BY <2>2, <3>1, (2 - 1) \div 2 = 0, 2 \div 2 = 1 DEF Median
    <3>3. 100 * mid <= 100 * price[x] + P * mid /\ price[x] <= mid
      BY <1>1, <1>5, <2>2
    <3> HIDE DEF mid, near, P
    <3> QED BY <1>2, <2>0, <3>2, <3>3
  <2>3. CASE near = {y, z}
    <3>0. y # z /\ price[y] \in Nat /\ price[z] \in Nat /\ price[y] <= price[z]
      BY <1>1, <1>2
    <3>1. Cardinality({y, z}) = 2 /\ AtRank({y, z}, price, 0) = mid /\ AtRank({y, z}, price, 1) = price[z]
      <4>1. AtRank({y, z}, price, 0) = price[y] /\ AtRank({y, z}, price, 1) = price[z]
        BY ONLY <3>0, RankOfTwo
      <4> QED BY <3>0, <4>1, SizeOfTwo
    <3>2. Median(near, price) = mid + price[z]
      BY <2>3, <3>1, (2 - 1) \div 2 = 0, 2 \div 2 = 1 DEF Median
    <3>3. 100 * price[z] <= 100 * mid + P * mid /\ mid <= price[z]
      BY <1>1, <1>5, <2>3
    <3> HIDE DEF mid, near, P
    <3> QED BY <1>2, <2>0, <3>2, <3>3
  <2>4. CASE near = {x, y, z}
    <3>1. Median(near, price) = 2 * mid
      BY <1>1, <1>4, <2>4
    <3> HIDE DEF mid, near, P
    <3> QED BY <1>2, <2>0, <3>1
  <2> QED BY <1>7, <2>1, <2>2, <2>3, <2>4
<1>10. price[s] <= mid /\ mid <= price[t]
  BY <1>1, <1>2
<1>11. PICK m \in Nat : m = Median(near, price)
  BY <1>9
<1>12. 100 * m >= price[s] * (200 - P)
  <2>1. CASE P <= 200
    <3>1. PICK c \in Nat : c = 200 - P
      BY <1>2, <2>1
    <3>2. price[s] * c <= mid * c
      BY <1>2, <1>10, <3>1, TimesIsMonotone
    <3>3. mid * c + P * mid = 200 * mid
      <4> HIDE DEF mid, P
      <4> QED BY <1>2, <3>1
    <3> HIDE DEF mid, near, P
    <3> QED BY <1>2, <1>9, <1>11, <3>1, <3>2, <3>3
  <2>2. CASE P > 200
    <3>1. PICK c \in Nat : c = P - 200
      BY <1>2, <2>2
    <3>2. price[s] * (200 - P) = -(price[s] * c) /\ price[s] * c \in Nat
      BY <1>2, <3>1
    <3> HIDE DEF mid, near, P
    <3> QED BY <1>2, <1>11, <3>2
  <2> QED BY <1>2, <2>1, <2>2
<1>13. 100 * m <= price[t] * (200 + P)
  <2>1. PICK c \in Nat : c = 200 + P
    BY <1>2
  <2>2. mid * c <= price[t] * c
    BY <1>2, <1>10, <2>1, TimesIsMonotone
  <2>3. mid * c = 200 * mid + P * mid
    BY <1>2, <2>1
  <2> HIDE DEF mid, near, P
  <2> QED BY <1>2, <1>9, <1>11, <2>1, <2>2, <2>3
<1> QED BY <1>8, <1>11, <1>12, <1>13

(***************************************************************************)
(* Slippage.                                                               *)
(***************************************************************************)

\* Whatever the price did, the slippage granted is the base or more, and never
\* beyond the hard cap (dynamic_slippage.py, lines 38 to 41).
THEOREM SlippageIsBounded ==
  ASSUME NEW prev \in Nat, NEW mid \in Nat
  PROVE  MaxSlippage(prev, mid) \in BASE_SLIPPAGE_BPS..HARD_CAP_BPS
<1>1. CASE prev = NoPrice
  BY <1>1 DEF MaxSlippage, BASE_SLIPPAGE_BPS, HARD_CAP_BPS
<1>2. CASE prev # NoPrice
  <2>1. Distance(mid, prev) \in Nat /\ prev \in Nat \ {0}
    BY <1>2 DEF Distance, NoPrice
  <2>2. PICK d \in Nat : d = 100 * BPS_PER_VOL_PCT * Distance(mid, prev)
    BY <2>1 DEF BPS_PER_VOL_PCT
  <2>3. d \div prev \in Nat
    BY <2>1, <2>2
  <2>4. AtMost(d \div prev, EXTRA_CAP_BPS) \in 0..EXTRA_CAP_BPS
    BY <2>3 DEF AtMost, EXTRA_CAP_BPS
  <2>5. MaxSlippage(prev, mid) =
          AtMost(BASE_SLIPPAGE_BPS + AtMost(d \div prev, EXTRA_CAP_BPS), HARD_CAP_BPS)
    BY <1>2, <2>2 DEF MaxSlippage
  <2> QED BY <2>4, <2>5 DEF AtMost, BASE_SLIPPAGE_BPS, EXTRA_CAP_BPS, HARD_CAP_BPS
<1> QED BY <1>1, <1>2

(***************************************************************************)
(* The limits of the inventory.                                            *)
(***************************************************************************)

Inventories == [base : Nat, quote : Nat, base0 : Nat, quote0 : Nat]

\* The limits stop both sides only when the inventory, at the same price, is
\* worth less than MinInventoryPct / MaxExposurePct of the initial one
\* (risk.py, lines 56 to 76): each side alone may be stopped for its own lack
\* or for the other's excess, but not both for the other's excess.
THEOREM SomeSideAllowed ==
  ASSUME NEW inv \in Inventories, NEW mid \in Nat \ {0}, ~CanBid(inv, mid), ~CanAsk(inv, mid)
  PROVE  MaxExposurePct * Total(inv, mid) < MinInventoryPct * InitialTotal(inv, mid)
<1> DEFINE X == MaxExposurePct
           M == MinInventoryPct
           T == Total(inv, mid)
<1>1. /\ inv.base \in Nat /\ inv.quote \in Nat /\ inv.base0 \in Nat /\ inv.quote0 \in Nat
      /\ X \in 50..100 /\ M \in Nat
  BY QuoteRulesAssumption DEF Inventories
<1>2. PICK B \in Nat : B = inv.base * mid
  BY <1>1
<1>3. PICK B0 \in Nat : B0 = inv.base0 * mid
  BY <1>1
<1>4. T = B + inv.quote /\ InitialTotal(inv, mid) = B0 + inv.quote0
  BY <1>2, <1>3 DEF Total, InitialTotal
<1>5. PICK XT \in Nat : XT = X * T
  BY <1>1, <1>4
<1>6. PICK MB \in Nat : MB = M * B0
  BY <1>1
<1>7. PICK MQ \in Nat : MQ = M * inv.quote0
  BY <1>1
<1>8. M * InitialTotal(inv, mid) = MB + MQ
  BY <1>1, <1>4, <1>6, <1>7
<1>9. XT <= 100 * T
  <2> HIDE DEF X, T
  <2> QED BY <1>1, <1>4, <1>5
<1>10. 100 * inv.base < M * inv.base0 => 100 * B < MB
  <2>1. ASSUME 100 * inv.base < M * inv.base0 PROVE 100 * B < MB
    <3>1. PICK m \in Nat : m = M * inv.base0
      BY <1>1
    <3>2. (100 * inv.base) * mid < m * mid
      <4>1. PICK a \in Nat : a = 100 * inv.base
        BY <1>1
      <4>2. a < m
        BY <2>1, <3>1, <4>1
      <4>3. a * mid < m * mid
        BY ONLY <4>2, a \in Nat, m \in Nat, mid \in Nat \ {0}
      <4> QED BY <4>1, <4>3
    <3>3. m * mid = MB
      BY <1>1, <1>3, <1>6, <3>1
    <3>4. (100 * inv.base) * mid = 100 * B
      BY <1>1, <1>2
    <3> QED BY <3>2, <3>3, <3>4
  <2> QED BY <2>1
<1>11. (100 - X) * T = 100 * T - XT
  <2> HIDE DEF X, T
  <2> QED BY <1>1, <1>4, <1>5
<1>12. 100 * inv.quote < MQ \/ ShareAbove(inv, mid, X)
  <2>1. ~(100 * inv.quote >= M * inv.quote0) \/ ShareAbove(inv, mid, X)
    BY Zenon DEF CanBid
  <2>2. 100 * inv.quote >= M * inv.quote0 \/ 100 * inv.quote < MQ
    BY <1>1, <1>7
  <2> QED BY <2>1, <2>2
<1>13. 100 * B < MB \/ ShareBelow(inv, mid, 100 - X)
  <2>1. ~(100 * inv.base >= M * inv.base0) \/ ShareBelow(inv, mid, 100 - X)
    BY Zenon DEF CanAsk
  <2>2. 100 * inv.base >= M * inv.base0 \/ 100 * inv.base < M * inv.base0
    <3>1. M * inv.base0 \in Nat
      BY <1>1
    <3> QED BY <1>1, <3>1
  <2> QED BY <1>10, <2>1, <2>2
<1>14. ShareAbove(inv, mid, X) => T > 0 /\ 100 * B > XT
  BY <1>1, <1>2, <1>4, <1>5 DEF ShareAbove
<1>15. ShareBelow(inv, mid, 100 - X) => T > 0 /\ 100 * B < 100 * T - XT
  BY <1>1, <1>2, <1>4, <1>11 DEF ShareBelow
<1>16. T > 0 => 2 * XT >= 100 * T
  <2> HIDE DEF X, T
  <2> QED BY <1>1, <1>4, <1>5
<1>17. XT < MB + MQ
  <2> HIDE DEF X, M, T
  <2> QED BY <1>1, <1>4, <1>9, <1>12, <1>13, <1>14, <1>15, <1>16
<1> QED BY <1>5, <1>8, <1>17

(***************************************************************************)
(* Quotes and the price.                                                   *)
(***************************************************************************)

\* Quotes that the skip rule leaves standing are on both sides of the new
\* price, as long as the spread they were made with is twice the refresh
\* threshold or more (bot.py, lines 237 to 256).
THEOREM SkippedQuotesStraddle ==
  ASSUME NEW q \in Nat \ {0}, NEW mid \in Nat, NEW bps \in Nat, 2 * RefreshBps <= bps,
         10000 * Distance(mid, q) < RefreshBps * q
  PROVE  BidPrice(q, bps) < 20000 * mid /\ 20000 * mid < AskPrice(q, bps)
<1>1. RefreshBps \in Nat
  BY QuoteRulesAssumption
<1>2. PICK r \in Nat : r = RefreshBps * q
  BY <1>1
<1>3. PICK w \in Nat : w = bps * q
  OBVIOUS
<1>4. 2 * r <= w
  <2>1. PICK d \in Nat : bps = 2 * RefreshBps + d
    <3>1. bps - 2 * RefreshBps \in Nat
      BY <1>1
    <3> QED BY <1>1, <3>1
  <2>2. w = 2 * r + d * q /\ d * q \in Nat
    BY <1>1, <1>2, <1>3, <2>1
  <2> QED BY <1>2, <2>2
<1>5. BidPrice(q, bps) = 20000 * q - w /\ AskPrice(q, bps) = 20000 * q + w
  BY <1>3 DEF BidPrice, AskPrice
<1> QED BY <1>2, <1>3, <1>4, <1>5 DEF Distance

(***************************************************************************)
(* The spread.                                                             *)
(***************************************************************************)

\* Prices seen: finitely many, all positive.
PricesOK(prices) == IsFiniteSet(prices) /\ \A p \in prices : p.mid \in Nat \ {0}

\* The largest and the smallest mid of a window.
LEMMA MidRange ==
  ASSUME NEW window, PricesOK(window), window # {},
         NEW mids, mids = {p.mid : p \in window}
  PROVE  Max(mids) \in Nat /\ Min(mids) \in Nat /\ Min(mids) <= Max(mids)
<1>1. mids \in SUBSET Nat /\ mids # {}
  BY DEF PricesOK
<1>2. PICK f : f = [p \in window |-> p.mid]
  OBVIOUS
<1>3. IntOn(f, window) /\ IsFiniteSet(window)
  BY <1>2 DEF IntOn, PricesOK
<1>4. PICK p \in window : \A q \in window : f[q] <= f[p]
  BY <1>3, Largest
<1>5. \E x \in mids : \A y \in mids : x >= y
  <2>1. p.mid \in mids
    OBVIOUS
  <2>2. \A y \in mids : y <= p.mid
    BY <1>2, <1>4
  <2>3. \A y \in mids : y \in Nat
    BY <1>1
  <2> QED BY <2>1, <2>2, <2>3
<1>6. \E x \in mids : \A y \in mids : x <= y
  BY <1>1, Smallest
<1>7. Max(mids) \in mids /\ \A y \in mids : Max(mids) >= y
  BY <1>5 DEF Max
<1>8. Min(mids) \in mids
  BY <1>6 DEF Min
<1> QED BY <1>1, <1>7, <1>8

LEMMA MultiplierAtLeastOne ==
  ASSUME NEW window, PricesOK(window)
  PROVE  VolMultiplier(window) \in Nat /\ VolMultiplier(window) >= 100
<1>1. VolMultMax \in Nat /\ VolMultMax >= 1
  BY QuoteRulesAssumption
<1>2. PICK n \in Nat : n = Cardinality(window)
  BY FS_CardinalityType DEF PricesOK
<1>3. CASE n < 2
  BY <1>2, <1>3 DEF VolMultiplier
<1>4. CASE n >= 2
  <2>1. window # {}
    BY <1>2, <1>4, FS_EmptySet
  <2>2. PICK mids : mids = {p.mid : p \in window}
    OBVIOUS
  <2>3. PICK high \in Nat, low \in Nat : high = Max(mids) /\ low = Min(mids) /\ low <= high
    BY <2>1, <2>2, MidRange
  <2>4. PICK total \in Nat \ {0} : total = SumFunction([p \in window |-> p.mid])
    <3>1. PICK f : f = [p \in window |-> p.mid]
      OBVIOUS
    <3>2. \A p \in window : f[p] \in Nat \ {0}
      BY <3>1 DEF PricesOK
    <3>3. PICK p \in window : TRUE
      BY <2>1
    <3>4. IsFiniteSet(window) /\ \A q \in window : f[q] \in Nat
      BY <3>2 DEF PricesOK
    <3>5. f[p] <= SumFunctionOnSet(f, window) /\ SumFunctionOnSet(f, window) \in Nat
      BY <3>4, SumTerm, SumNat
    <3>6. SumFunction(f) = SumFunctionOnSet(f, window)
      BY <3>1, SumOver
    <3>7. SumFunction(f) \in Nat \ {0}
      BY <3>2, <3>5, <3>6
    <3> QED BY <3>1, <3>7
  <2>5. PICK x \in Nat : x = (10000 * (high - low) * n) \div total
    <3>1. PICK d \in Nat : d = high - low
      BY <2>3
    <3>2. 10000 * d * n \in Nat
      OBVIOUS
    <3>3. (10000 * d * n) \div total \in Nat
      <4>1. PICK m \in Nat : m = 10000 * d * n BY <3>2
      <4>2. m \div total \in Nat OBVIOUS
      <4> QED BY <4>1, <4>2
    <3> QED BY <3>1, <3>3
  <2>6. VolMultiplier(window) = AtMost(100 + AtMost(x, 200), 100 * VolMultMax)
    <3>1. VolMultiplier(window) =
            AtMost(100 + AtMost((10000 * (Max({p.mid : p \in window}) - Min({p.mid : p \in window}))
                                   * Cardinality(window)) \div SumFunction([p \in window |-> p.mid]), 200),
                   100 * VolMultMax)
      BY <1>2, <1>4 DEF VolMultiplier
    <3> QED BY <1>2, <2>2, <2>3, <2>4, <2>5, <3>1
  <2> QED BY <1>1, <2>6 DEF AtMost
<1> QED BY <1>2, <1>3, <1>4

\* The spread is never below twice the refresh threshold, so quotes stand on
\* both sides of the price until it has moved by the threshold.
LEMMA SpreadCoversRefresh ==
  ASSUME NEW window, PricesOK(window)
  PROVE  Spread(window) \in Nat \ {0} /\ 2 * RefreshBps <= Spread(window)
<1>1. /\ BaseBps \in Nat \ {0} /\ MaxBps \in Nat \ {0} /\ RefreshBps \in Nat \ {0} /\ MinBps \in Nat
      /\ 2 * RefreshBps <= BaseBps /\ 2 * RefreshBps <= MaxBps
  BY QuoteRulesAssumption
<1>2. PICK v \in Nat : v = VolMultiplier(window) /\ v >= 100
  BY MultiplierAtLeastOne
<1>3. PICK wide \in Nat : wide = (BaseBps * v) \div 100 /\ BaseBps <= wide
  <2>1. PICK m \in Nat : m = BaseBps * v /\ BaseBps * 100 <= m
    <3>1. PICK d \in Nat : v = 100 + d
      <4>1. v - 100 \in Nat /\ v = 100 + (v - 100) BY <1>2
      <4> QED BY <4>1
    <3>2. PICK e \in Nat : e = BaseBps * d
      BY <1>1
    <3>3. BaseBps * v = BaseBps * 100 + e
      BY <1>1, <3>1, <3>2
    <3> QED BY <1>1, <3>2, <3>3
  <2>2. m \div 100 \in Nat /\ BaseBps <= m \div 100
    BY <1>1, <2>1
  <2> QED BY <2>1, <2>2
<1>4. Spread(window) = IF AtMost(wide, MaxBps) < MinBps THEN MinBps ELSE AtMost(wide, MaxBps)
  BY <1>2, <1>3 DEF Spread
<1> QED BY <1>1, <1>3, <1>4 DEF AtMost

(***************************************************************************)
(* A tick.                                                                 *)
(***************************************************************************)

SourceReplies == Nat \union {Failed}

\* What a tick may meet, as far as the theorems need it.
TickOK(tick) ==
  /\ tick.message.bid \in Nat /\ tick.message.ask \in Nat
  /\ \A s \in Sources : tick.reply[s] \in SourceReplies
  /\ tick.inv \in Inventories

WeightsOK(weights) ==
  weights.pancake \in Nat /\ weights.binance \in Nat /\ weights.pancake + weights.binance > 0

\* What a refresh that ended has listed still stands as it was recorded.
Standing(bot) == bot.listed.whole /\ bot.quoted.mid # NoPrice

\* What a tick finds: prices that are numbers, and quotes as recorded, with a
\* spread of twice the refresh threshold or more, unless the refresh that
\* listed them was cut short.
RecordOK(bot) ==
  /\ bot.cache.mid \in Nat /\ PricesOK(bot.prices) /\ bot.quoted.mid \in Nat
  /\ bot.listed.whole /\ bot.quoted.mid = NoPrice => ~bot.listed.sides.bid /\ ~bot.listed.sides.ask
  /\ Standing(bot) =>
       /\ bot.listed.mid = bot.quoted.mid /\ bot.listed.bps \in Nat /\ 2 * RefreshBps <= bot.listed.bps
       /\ bot.listed.sides.bid => bot.quoted.sides.bid
       /\ bot.listed.sides.ask => bot.quoted.sides.ask

\* Quotes that stand after a tick are on both sides of its price, and on the
\* sides that the inventory allows at that price.
BotOK(bot, inv) ==
  /\ RecordOK(bot)
  /\ Standing(bot) =>
       /\ bot.mid \in Nat \ {0} /\ bot.quoted.sides = Sides(inv, bot.mid)
       /\ BidPrice(bot.listed.mid, bot.listed.bps) < 20000 * bot.mid
       /\ 20000 * bot.mid < AskPrice(bot.listed.mid, bot.listed.bps)

\* A price of a source is a natural number.
LEMMA SourcePrices ==
  ASSUME NEW reply \in SourceReplies
  PROVE  PancakePrice(reply) \in Nat /\ BinancePrice(reply) \in Nat /\ ChainlinkPrice(reply) \in Nat
<1>1. reply \in Int /\ (reply # Failed => reply \in Nat)
  BY DEF SourceReplies, Failed
<1>2. CASE reply \in {Failed, 0}
  BY <1>1, <1>2 DEF PancakePrice, BinancePrice, ChainlinkPrice, NoPrice
<1>3. CASE reply \notin {Failed, 0}
  <2>1. PICK a \in Nat : a = PoolUnit * PoolUnit
    BY PriceAssumption
  <2>2. PICK b \in Nat \ {0} : b = reply * reply
    <3>1. reply * reply \in Nat \ {0}
      BY <1>1, <1>3
    <3> QED BY <3>1
  <2>3. a \div b \in Nat
    OBVIOUS
  <2> QED BY <1>1, <1>3, <2>1, <2>2, <2>3 DEF PancakePrice, BinancePrice, ChainlinkPrice, NoPrice
<1> QED BY <1>2, <1>3

LEMMA MidPriceType ==
  ASSUME NEW weights, WeightsOK(weights), NEW p \in Nat, NEW b \in Nat
  PROVE  MidPrice(weights, p, b) \in Nat
<1>1. weights.pancake \in Nat /\ weights.binance \in Nat /\ weights.pancake + weights.binance > 0
  BY DEF WeightsOK
<1>2. PICK n \in Nat : n = p * weights.pancake + b * weights.binance
  <2>1. p * weights.pancake + b * weights.binance \in Nat
    BY <1>1
  <2> QED BY <2>1
<1>3. n \div (weights.pancake + weights.binance) \in Nat
  <2>1. PICK d \in Nat \ {0} : d = weights.pancake + weights.binance
    BY <1>1
  <2>2. n \div d \in Nat
    OBVIOUS
  <2> QED BY <2>1, <2>2
<1>4. MidPrice(weights, p, b) \in {NoPrice, p, b, n \div (weights.pancake + weights.binance)}
  BY <1>2 DEF MidPrice
<1> QED BY <1>3, <1>4 DEF NoPrice

\* The parts of the record after a tick: either nothing is quoted any more, or
\* there is a price and no pause, and the quotes are those that Quoted and
\* Listed say.
LEMMA TickParts ==
  ASSUME NEW bot, NEW weights, NEW tick, WeightsOK(weights), TickOK(tick), RecordOK(bot)
  PROVE  LET now == bot.now + tick.sec
             after == Tick(bot, weights, tick)
         IN /\ after.cache.mid \in Nat /\ PricesOK(after.prices)
            /\ \/ after.quoted = Withdrawn(bot.quoted) /\ after.listed = NotListed
               \/ /\ after.mid \in Nat \ {0} /\ ~Paused(bot, now, after.mid)
                  /\ after.quoted = Quoted(bot, now, after.mid, tick)
                  /\ after.listed = Listed(bot, now, after.mid, tick)
                  /\ after.prices = Recorded(bot, now, after.mid)
<1> DEFINE now == bot.now + tick.sec
           cache == Cached(bot.cache, tick.message, bot.now)
           pancake == PancakePrice(tick.reply.pancake)
           binance == BinanceMid(cache, now, tick.reply)
           mid == MidPrice(weights, pancake, binance)
           after == Tick(bot, weights, tick)
<1>1. cache.mid \in Nat
  <2>1. TickerMid(tick.message) \in Nat
    <3>1. (tick.message.bid + tick.message.ask) \div 2 \in Nat
      BY DEF TickOK
    <3> QED BY <3>1 DEF TickerMid, NoPrice
  <2> QED BY <2>1 DEF Cached, RecordOK
<1>2. pancake \in Nat /\ BinancePrice(tick.reply.binance) \in Nat /\ ChainlinkPrice(tick.reply.chainlink) \in Nat
  <2>1. tick.reply.pancake \in SourceReplies /\ tick.reply.binance \in SourceReplies /\ tick.reply.chainlink \in SourceReplies
    BY DEF TickOK, Sources
  <2> QED BY <2>1, SourcePrices
<1>3. binance \in Nat
  <2>1. Latest(cache, now) \in Nat
    <3> HIDE DEF cache, now
    <3> QED BY <1>1 DEF Latest, NoPrice
  <2> QED BY <1>2, <2>1 DEF BinanceMid
<1>4. mid \in Nat
  BY <1>2, <1>3, MidPriceType
<1>5. CASE mid = NoPrice
  <2>1. /\ after.cache = cache /\ after.quoted = Withdrawn(bot.quoted) /\ after.listed = NotListed
        /\ after.prices = bot.prices
    BY <1>5 DEF Tick
  <2> QED BY <1>1, <2>1 DEF RecordOK
<1>6. CASE mid # NoPrice
  <2>1. after = [now |-> now, cache |-> cache, mid |-> mid, prices |-> Recorded(bot, now, mid),
                 pausedUntil |-> PauseEnd(bot, now, mid), quoted |-> Quoted(bot, now, mid, tick),
                 listed |-> Listed(bot, now, mid, tick)]
    BY <1>6 DEF Tick
  <2>2. /\ after.cache = cache /\ after.mid = mid /\ after.quoted = Quoted(bot, now, mid, tick)
        /\ after.listed = Listed(bot, now, mid, tick) /\ after.prices = Recorded(bot, now, mid)
    <3> HIDE DEF after, cache, mid, now
    <3> QED BY <2>1
  <2>3. PricesOK(Recorded(bot, now, mid))
    <3> HIDE DEF mid, now
    <3>1. mid \in Nat \ {0}
      BY <1>4, <1>6 DEF NoPrice
    <3>2. PricesOK(bot.prices \union {[at |-> now, mid |-> mid]})
      <4>1. IsFiniteSet(bot.prices \union {[at |-> now, mid |-> mid]})
        BY FS_AddElement DEF PricesOK, RecordOK
      <4>2. [at |-> now, mid |-> mid].mid \in Nat \ {0}
        BY <3>1
      <4> QED BY <4>1, <4>2 DEF PricesOK, RecordOK
    <3> QED BY <3>2, FS_Subset DEF Recorded, Window, PricesOK
  <2>4. mid \in Nat \ {0}
    BY <1>4, <1>6 DEF NoPrice
  <2>5. CASE Paused(bot, now, mid)
    <3>1. after.quoted = Withdrawn(bot.quoted) /\ after.listed = NotListed
      BY <2>2, <2>5, Zenon DEF Quoted, Listed
    <3>2. after.cache.mid \in Nat /\ PricesOK(after.prices)
      BY <1>1, <2>2, <2>3, Zenon
    <3> QED BY <3>1, <3>2, Zenon
  <2>6. CASE ~Paused(bot, now, mid)
    <3> HIDE DEF after, cache, mid, now
    <3>1. after.cache.mid \in Nat /\ PricesOK(after.prices)
      BY <1>1, <2>2, <2>3
    <3>2. /\ after.mid \in Nat \ {0} /\ ~Paused(bot, now, after.mid)
          /\ after.quoted = Quoted(bot, now, after.mid, tick)
          /\ after.listed = Listed(bot, now, after.mid, tick)
          /\ after.prices = Recorded(bot, now, after.mid)
      BY <2>2, <2>4, <2>6, Zenon
    <3> USE DEF after, now
    <3> QED BY <3>1, <3>2, Zenon
  <2> QED BY <2>5, <2>6
<1> QED BY <1>5, <1>6

\* A tick leaves a record that is as it should be, from any record that is,
\* whatever became of the deposits (bot.py, lines 187 to 256): as long as the
\* refresh that listed them ended, quotes that stand, new or old, are on both
\* sides of the price of the tick, and on sides that the inventory allows now.
\* A refresh cut short (lines 336 to 370) leaves the record as it was, and of
\* its quotes nothing is said until a refresh ends.
THEOREM TickKeepsBotOK ==
  ASSUME NEW bot, NEW weights, NEW tick, WeightsOK(weights), TickOK(tick), RecordOK(bot)
  PROVE  BotOK(Tick(bot, weights, tick), tick.inv)
<1>1. PICK now, after, sides, bps :
        /\ now = bot.now + tick.sec /\ after = Tick(bot, weights, tick) /\ sides = Sides(tick.inv, after.mid)
        /\ bps = Spread(Window(Recorded(bot, now, after.mid), now, VolWindowSec))
  OBVIOUS
<1>2. /\ after.cache.mid \in Nat /\ PricesOK(after.prices)
      /\ \/ after.quoted = Withdrawn(bot.quoted) /\ after.listed = NotListed
         \/ /\ after.mid \in Nat \ {0} /\ ~Paused(bot, now, after.mid)
            /\ after.quoted = Quoted(bot, now, after.mid, tick)
            /\ after.listed = Listed(bot, now, after.mid, tick)
            /\ after.prices = Recorded(bot, now, after.mid)
  BY <1>1, TickParts
<1>3. CASE after.quoted = Withdrawn(bot.quoted) /\ after.listed = NotListed
  <2>1. after.quoted.mid = NoPrice /\ ~after.listed.sides.bid /\ ~after.listed.sides.ask
    BY <1>3 DEF Withdrawn, NotListed, NoSide
  <2> QED BY <1>1, <1>2, <2>1 DEF BotOK, RecordOK, Standing, NoPrice
<1>4. CASE /\ after.mid \in Nat \ {0} /\ ~Paused(bot, now, after.mid)
           /\ after.quoted = Quoted(bot, now, after.mid, tick)
           /\ after.listed = Listed(bot, now, after.mid, tick)
           /\ after.prices = Recorded(bot, now, after.mid)
  <2>1. \/ Skip(bot, after.mid, sides) /\ after.quoted = bot.quoted /\ after.listed = bot.listed
        \/ /\ CutShort(sides, tick.deposit) /\ after.quoted = bot.quoted
           /\ after.listed = Listing(after.mid, bps, sides, tick.deposit)
        \/ /\ ~CutShort(sides, tick.deposit) /\ after.quoted = [mid |-> after.mid, sides |-> sides]
           /\ after.listed = Listing(after.mid, bps, sides, tick.deposit)
    BY <1>1, <1>4, Zenon DEF Quoted, Listed
  <2>2. PICK m \in Nat \ {0} : m = after.mid
    BY <1>4
  <2>3. CASE Skip(bot, after.mid, sides) /\ after.quoted = bot.quoted /\ after.listed = bot.listed
    <3>1. PICK q : q = bot.quoted.mid
      OBVIOUS
    <3>2. q # NoPrice /\ bot.quoted.sides = sides /\ 10000 * Distance(m, q) < RefreshBps * q
      BY <2>2, <2>3, <3>1 DEF Skip
    <3>3. q \in Nat \ {0}
      BY <3>1, <3>2 DEF RecordOK, NoPrice
    <3>4. RecordOK(after)
      <4>1. /\ bot.quoted.mid \in Nat
            /\ bot.listed.whole /\ bot.quoted.mid = NoPrice => ~bot.listed.sides.bid /\ ~bot.listed.sides.ask
            /\ Standing(bot) =>
                 /\ bot.listed.mid = bot.quoted.mid /\ bot.listed.bps \in Nat /\ 2 * RefreshBps <= bot.listed.bps
                 /\ bot.listed.sides.bid => bot.quoted.sides.bid
                 /\ bot.listed.sides.ask => bot.quoted.sides.ask
        BY DEF RecordOK
      <4> QED BY <1>2, <2>3, <4>1, Zenon DEF RecordOK, Standing
    <3>5. ASSUME Standing(after)
          PROVE  /\ after.mid \in Nat \ {0} /\ after.quoted.sides = Sides(tick.inv, after.mid)
                 /\ BidPrice(after.listed.mid, after.listed.bps) < 20000 * after.mid
                 /\ 20000 * after.mid < AskPrice(after.listed.mid, after.listed.bps)
      <4>1. PICK b : b = after.listed.bps
        OBVIOUS
      <4>2. after.listed.mid = q /\ b \in Nat /\ 2 * RefreshBps <= b
        BY <2>3, <3>1, <3>4, <3>5, <4>1 DEF RecordOK
      <4>3. BidPrice(q, b) < 20000 * m /\ 20000 * m < AskPrice(q, b)
        BY <3>2, <3>3, <4>2, SkippedQuotesStraddle
      <4> QED BY <1>1, <2>2, <2>3, <3>2, <4>1, <4>2, <4>3
    <3> QED BY <1>1, <3>4, <3>5 DEF BotOK
  <2>4. CASE /\ CutShort(sides, tick.deposit) /\ after.quoted = bot.quoted
             /\ after.listed = Listing(after.mid, bps, sides, tick.deposit)
    <3>1. ~after.listed.whole
      <4>1. Listing(after.mid, bps, sides, tick.deposit).whole = ~CutShort(sides, tick.deposit)
        BY Zenon DEF Listing
      <4> QED BY <2>4, <4>1, Zenon
    <3>2. after.quoted.mid \in Nat
      BY <2>4 DEF RecordOK
    <3> QED BY <1>1, <1>2, <3>1, <3>2 DEF BotOK, RecordOK, Standing
  <2>5. CASE /\ ~CutShort(sides, tick.deposit) /\ after.quoted = [mid |-> after.mid, sides |-> sides]
             /\ after.listed = Listing(after.mid, bps, sides, tick.deposit)
    <3>1. /\ after.quoted.sides = sides /\ after.quoted.mid = m
          /\ after.listed.mid = m /\ after.listed.bps = bps
      BY <2>2, <2>5 DEF Listing
    <3>2. bps \in Nat \ {0} /\ 2 * RefreshBps <= bps
      <4>1. PricesOK(Window(Recorded(bot, now, after.mid), now, VolWindowSec))
        BY <1>2, <1>4, FS_Subset DEF Window, PricesOK
      <4> QED BY <1>1, <4>1, SpreadCoversRefresh
    <3>3. BidPrice(m, bps) < 20000 * m /\ 20000 * m < AskPrice(m, bps)
      <4>1. PICK b \in Nat \ {0} : b = bps
        BY <3>2
      <4>2. PICK w \in Nat \ {0} : w = m * b
        OBVIOUS
      <4>3. BidPrice(m, b) = 20000 * m - w /\ AskPrice(m, b) = 20000 * m + w
        BY <4>2 DEF BidPrice, AskPrice
      <4> QED BY <4>1, <4>2, <4>3
    <3>4. (after.listed.sides.bid => sides.bid) /\ (after.listed.sides.ask => sides.ask)
      <4> DEFINE listing == Listing(after.mid, bps, sides, tick.deposit)
      <4>1. /\ listing.sides.bid = (sides.bid /\ tick.deposit.bid = "confirmed")
            /\ listing.sides.ask = (/\ sides.ask /\ tick.deposit.ask = "confirmed"
                                    /\ ~(sides.bid /\ tick.deposit.bid = "raises"))
        BY Zenon DEF Listing
      <4> HIDE DEF listing
      <4>2. after.listed = listing
        BY <2>5 DEF listing
      <4> QED BY <4>1, <4>2, Zenon
    <3>5. RecordOK(after)
      BY <1>2, <2>2, <3>1, <3>2, <3>4 DEF RecordOK, Standing, NoPrice
    <3> QED BY <1>1, <2>2, <3>1, <3>3, <3>5 DEF BotOK
  <2> QED BY <2>1, <2>3, <2>4, <2>5
<1> QED BY <1>2, <1>3, <1>4
=============================================================================
