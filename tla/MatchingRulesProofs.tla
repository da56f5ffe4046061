------------------------- MODULE MatchingRulesProofs -------------------------
(***************************************************************************)
(* Theorems about the rules of a round, for any orders, wallets and        *)
(* prices.                                                                 *)
(***************************************************************************)
EXTENDS MatchingRules, SumLemmas

(***************************************************************************)
(* The wash-trade filter.                                                  *)
(***************************************************************************)

\* The filter only removes orders.
THEOREM FilterSelects ==
  ASSUME NEW buys, NEW sells, NEW wallet
  PROVE  /\ WashFilter(buys, sells, wallet).buys \subseteq buys
         /\ WashFilter(buys, sells, wallet).sells \subseteq sells
BY DEF WashFilter

\* Whatever the book holds, no wallet stands on both sides after the filter:
\* no match of a round can be a wallet trading with itself.
THEOREM FilterSeparates ==
  ASSUME NEW buys, NEW sells, NEW wallet
  PROVE  \A b \in WashFilter(buys, sells, wallet).buys,
            s \in WashFilter(buys, sells, wallet).sells : wallet[b] # wallet[s]
<1> DEFINE duals == WalletsOf(buys, wallet) \intersect WalletsOf(sells, wallet)
           otherBuyers == WalletsOf(buys, wallet) \ duals
           otherSellers == WalletsOf(sells, wallet) \ duals
           keepBuy == {w \in duals : SortedIndex(w, duals) % 2 = 0}
           filtered == WashFilter(buys, sells, wallet)
<1>1. CASE duals = {}
  <2>1. filtered = [buys |-> buys, sells |-> sells]
    BY <1>1 DEF WashFilter
  <2> QED BY <1>1, <2>1 DEF WalletsOf
<1>2. CASE duals # {} /\ (otherBuyers # {} \/ otherSellers # {})
  <2>1. filtered = [buys |-> IF otherBuyers # {} THEN {o \in buys : wallet[o] \notin duals} ELSE buys,
                    sells |-> IF otherSellers # {} THEN {o \in sells : wallet[o] \notin duals} ELSE sells]
    BY <1>2 DEF WashFilter
  <2>2. ASSUME NEW b \in filtered.buys, NEW s \in filtered.sells, wallet[b] = wallet[s]
        PROVE  FALSE
    <3>1. b \in buys /\ s \in sells
      BY <2>1
    <3>2. wallet[b] \in duals
      BY <2>2, <3>1 DEF WalletsOf
    <3> HIDE DEF duals, otherBuyers, otherSellers, filtered
    <3> QED BY <1>2, <2>1, <2>2, <3>2
  <2> QED BY <2>2
<1>3. CASE duals # {} /\ otherBuyers = {} /\ otherSellers = {}
  <2>1. filtered = [buys |-> {o \in buys : wallet[o] \in keepBuy},
                    sells |-> {o \in sells : wallet[o] \in duals \ keepBuy}]
    BY <1>3 DEF WashFilter
  <2> HIDE DEF keepBuy
  <2> QED BY <2>1
<1> QED BY <1>1, <1>2, <1>3

\* The two smallest of several dual wallets are kept on different sides.
LEMMA FirstTwoAlternate ==
  ASSUME NEW duals \in SUBSET Nat, NEW v \in duals, NEW w \in duals, v # w
  PROVE  \E first, second \in duals :
           SortedIndex(first, duals) = 0 /\ SortedIndex(second, duals) = 1
<1>1. PICK first \in duals : \A m \in duals : first <= m
  BY Smallest
<1>2. PICK second \in duals \ {first} : \A m \in duals \ {first} : second <= m
  <2> DEFINE others == duals \ {first}
  <2>1. others \in SUBSET Nat /\ others # {}
    OBVIOUS
  <2> HIDE DEF others
  <2>2. \E n \in others : \A m \in others : n <= m
    BY <2>1, Smallest
  <2> QED BY <2>2 DEF others
<1>3. SortedIndex(first, duals) = 0
  <2>1. {u \in duals : u < first} = {}
    <3>1. ASSUME NEW u \in duals, u < first PROVE FALSE
      <4>1. u \in Nat /\ first \in Nat /\ first <= u
        BY <1>1
      <4> QED BY <3>1, <4>1
    <3> QED BY <3>1, Zenon
  <2> QED BY <2>1, FS_EmptySet DEF SortedIndex
<1>4. SortedIndex(second, duals) = 1
  <2>1. {u \in duals : u < second} = {first}
    <3>1. first \in Nat /\ second \in Nat /\ first < second
      <4>1. first \in Nat /\ second \in Nat /\ first # second /\ first <= second
        BY <1>1, <1>2
      <4> QED BY <4>1
    <3>2. ASSUME NEW u \in duals, u < second, u # first PROVE FALSE
      <4>1. u \in Nat /\ second <= u
        BY <1>2, <3>2
      <4> QED BY <3>1, <3>2, <4>1
    <3> QED BY <3>1, <3>2, Zenon
  <2> QED BY <2>1, FS_Singleton DEF SortedIndex
<1> QED BY <1>3, <1>4

\* The filter never takes the last trade away: when two different wallets
\* stand on opposite sides before it, both sides are non-empty after it.
THEOREM FilterKeeps ==
  ASSUME NEW buys, NEW sells, NEW wallet, \A o \in buys \union sells : wallet[o] \in Nat,
         NEW b \in buys, NEW s \in sells, wallet[b] # wallet[s]
  PROVE  /\ WashFilter(buys, sells, wallet).buys # {}
         /\ WashFilter(buys, sells, wallet).sells # {}
<1> DEFINE duals == WalletsOf(buys, wallet) \intersect WalletsOf(sells, wallet)
           otherBuyers == WalletsOf(buys, wallet) \ duals
           otherSellers == WalletsOf(sells, wallet) \ duals
           keepBuy == {w \in duals : SortedIndex(w, duals) % 2 = 0}
           filtered == WashFilter(buys, sells, wallet)
<1>1. CASE duals = {}
  BY <1>1 DEF WashFilter
<1>2. CASE duals # {} /\ (otherBuyers # {} \/ otherSellers # {})
  <2>1. filtered = [buys |-> IF otherBuyers # {} THEN {o \in buys : wallet[o] \notin duals} ELSE buys,
                    sells |-> IF otherSellers # {} THEN {o \in sells : wallet[o] \notin duals} ELSE sells]
    BY <1>2 DEF WashFilter
  <2>2. /\ otherBuyers # {} => \E o \in buys : wallet[o] \notin duals
        /\ otherSellers # {} => \E o \in sells : wallet[o] \notin duals
    BY DEF WalletsOf
  <2> HIDE DEF duals, otherBuyers, otherSellers, filtered
  <2>3. filtered.buys # {} /\ filtered.sells # {}
    BY <1>2, <2>1, <2>2
  <2> QED BY <2>3 DEF filtered
<1>3. CASE duals # {} /\ otherBuyers = {} /\ otherSellers = {}
  <2>1. filtered = [buys |-> {o \in buys : wallet[o] \in keepBuy},
                    sells |-> {o \in sells : wallet[o] \in duals \ keepBuy}]
    BY <1>3 DEF WashFilter
  <2>2. duals \in SUBSET Nat /\ wallet[b] \in duals /\ wallet[s] \in duals
    BY <1>3 DEF WalletsOf
  <2>3. PICK first, second \in duals :
          SortedIndex(first, duals) = 0 /\ SortedIndex(second, duals) = 1
    <3> HIDE DEF duals
    <3> QED BY <2>2, FirstTwoAlternate
  <2>4. first \in keepBuy /\ second \in duals \ keepBuy
    BY <2>3
  <2>5. (\E o \in buys : wallet[o] = first) /\ (\E o \in sells : wallet[o] = second)
    BY <2>3 DEF WalletsOf
  <2> HIDE DEF keepBuy, duals
  <2> QED BY <2>1, <2>4, <2>5
<1> QED BY <1>1, <1>2, <1>3

(***************************************************************************)
(* Prices and room.                                                        *)
(***************************************************************************)

\* The execution price of an admissible match is within both limits, whatever
\* the strategy proposed and whatever the fair price is.
THEOREM PriceWithinLimits ==
  ASSUME NEW raw, NEW snap, NEW fair \in Nat, Admissible(raw, snap), raw.price \in Nat,
         snap[raw.maker].limit \in Nat, snap[raw.taker].limit \in Nat
  PROVE  LET price == ExecPrice(raw, snap[raw.maker], snap[raw.taker], fair)
         IN snap[raw.maker].limit <= price /\ price <= snap[raw.taker].limit
BY DEF Admissible, ExecPrice, OutsideLimits

(***************************************************************************)
(* What a list of matches fills.                                           *)
(***************************************************************************)

Share(m, o) == IF o \in {m.maker, m.taker} THEN m.base ELSE 0

Shares(ms, o) == [i \in DOMAIN ms |-> Share(ms[i], o)]

LEMMA FillInIs ==
  ASSUME NEW ms, NEW o
  PROVE  FillIn(ms, o) = SumFunctionOnSet(Shares(ms, o), DOMAIN ms)
BY SumOver DEF FillIn, Shares, Share

LEMMA SharesType ==
  ASSUME NEW M, \A m \in M : m.base \in Nat, NEW ms \in Seq(M), NEW o
  PROVE  /\ DOMAIN ms = 1..Len(ms) /\ Len(ms) \in Nat /\ IsFiniteSet(1..Len(ms))
         /\ \A i \in 1..Len(ms) : Shares(ms, o)[i] = Share(ms[i], o) /\ Shares(ms, o)[i] \in Nat
         /\ IntOn(Shares(ms, o), 1..Len(ms))
<1>1. DOMAIN ms = 1..Len(ms) /\ Len(ms) \in Nat
  OBVIOUS
<1>2. IsFiniteSet(1..Len(ms))
  BY <1>1, FS_Interval
<1>3. ASSUME NEW i \in 1..Len(ms)
      PROVE  Shares(ms, o)[i] = Share(ms[i], o) /\ Shares(ms, o)[i] \in Nat
  <2>1. ms[i] \in M /\ Shares(ms, o)[i] = Share(ms[i], o)
    BY <1>1 DEF Shares
  <2>2. ms[i].base \in Nat BY <2>1
  <2> QED BY <2>1, <2>2 DEF Share
<1> QED BY <1>1, <1>2, <1>3 DEF IntOn

LEMMA FillInType ==
  ASSUME NEW M, \A m \in M : m.base \in Nat, NEW ms \in Seq(M), NEW o
  PROVE  FillIn(ms, o) \in Nat
BY FillInIs, SharesType, SumNat

LEMMA FillInEmpty ==
  ASSUME NEW o
  PROVE  FillIn(<< >>, o) = 0
BY FillInIs, SumEmpty

LEMMA FillInAppend ==
  ASSUME NEW M, \A m \in M : m.base \in Nat, NEW ms \in Seq(M), NEW m \in M, NEW o
  PROVE  FillIn(Append(ms, m), o) = FillIn(ms, o) + Share(m, o)
<1>1. PICK n \in Nat : n = Len(ms) OBVIOUS
<1>2. PICK f, h : f = Shares(ms, o) /\ h = Shares(Append(ms, m), o) OBVIOUS
<1>3. Append(ms, m) \in Seq(M) /\ Len(Append(ms, m)) = n + 1 /\ Append(ms, m)[n + 1] = m
      /\ \A i \in 1..n : Append(ms, m)[i] = ms[i]
  BY <1>1
<1>4. IsFiniteSet(1..n) /\ IntOn(f, 1..n) /\ DOMAIN ms = 1..n /\ DOMAIN Append(ms, m) = 1..(n + 1)
  BY <1>1, <1>2, <1>3, SharesType
<1>5. 1..(n + 1) = 1..n \union {n + 1} /\ n + 1 \notin 1..n
  OBVIOUS
<1>6. h[n + 1] = Share(m, o) /\ h[n + 1] \in Int /\ \A i \in 1..n : h[i] = f[i]
  <2>1. \A i \in 1..(n + 1) : h[i] = Share(Append(ms, m)[i], o) /\ h[i] \in Nat
    BY <1>2, <1>3, SharesType
  <2>2. \A i \in 1..n : f[i] = Share(ms[i], o)
    BY <1>1, <1>2, SharesType
  <2> QED BY <1>3, <1>5, <2>1, <2>2
<1>7. SumFunctionOnSet(h, 1..(n + 1)) = SumFunctionOnSet(f, 1..n) + h[n + 1]
  BY <1>4, <1>6, SumLonger
<1> QED BY <1>2, <1>4, <1>6, <1>7, FillInIs

\* es is ms followed by ns, as far as they fill o.
SharesAppended(es, ms, ns, o) ==
  /\ DOMAIN es = 1..(Len(ms) + Len(ns))
  /\ \A i \in 1..Len(ms) : Share(es[i], o) = Share(ms[i], o)
  /\ \A i \in 1..Len(ns) : Share(es[Len(ms) + i], o) = Share(ns[i], o)

\* What a round adds to the matches adds to what is filled.
LEMMA FillInAppended ==
  ASSUME NEW M, \A m \in M : m.base \in Nat, NEW ms \in Seq(M), NEW N, \A m \in N : m.base \in Nat,
         NEW ns \in Seq(N), NEW es, NEW o, SharesAppended(es, ms, ns, o)
  PROVE  FillIn(es, o) = FillIn(ms, o) + FillIn(ns, o)
<1> USE DEF SharesAppended
<1>1. PICK m \in Nat, n \in Nat : m = Len(ms) /\ n = Len(ns) OBVIOUS
<1>2. PICK f, h, e : f = Shares(ms, o) /\ h = Shares(ns, o) /\ e = Shares(es, o) OBVIOUS
<1>3. DOMAIN ms = 1..m /\ IntOn(f, 1..m) /\ \A i \in 1..m : f[i] = Share(ms[i], o)
  BY <1>1, <1>2, SharesType
<1>4. DOMAIN ns = 1..n /\ IntOn(h, 1..n) /\ \A i \in 1..n : h[i] = Share(ns[i], o)
  BY <1>1, <1>2, SharesType
<1>5. \A i \in 1..(m + n) : e[i] = Share(es[i], o)
  BY <1>1, <1>2 DEF Shares
<1>6. \A i \in 1..m : e[i] = f[i]
  <2>1. \A i \in 1..m : i \in 1..(m + n) OBVIOUS
  <2> QED BY <1>1, <1>3, <1>5, <2>1
<1>7. \A i \in 1..n : e[m + i] = h[i]
  <2>1. \A i \in 1..n : m + i \in 1..(m + n) OBVIOUS
  <2> QED BY <1>1, <1>4, <1>5, <2>1
<1>8. SumFunctionOnSet(e, 1..(m + n)) = SumFunctionOnSet(f, 1..m) + SumFunctionOnSet(h, 1..n)
  <2>1. Appended(e, f, m, h, n) BY <1>6, <1>7 DEF Appended
  <2> QED BY <1>3, <1>4, <2>1, SumAppended
<1> QED BY <1>1, <1>2, <1>3, <1>4, <1>8, FillInIs

(***************************************************************************)
(* The validator.                                                          *)
(***************************************************************************)

\* Orders with positive limits, none of them filled beyond its amount.
SnapOK(snap) ==
  \A o \in DOMAIN snap : /\ snap[o].limit \in Nat \ {0} /\ snap[o].amount \in Nat /\ snap[o].filled \in Nat
                         /\ snap[o].filled <= snap[o].amount

RawOK(raw) == raw.fill \in Nat /\ raw.price \in Nat

RawsOK(raws) == Len(raws) \in Nat /\ DOMAIN raws = 1..Len(raws) /\ \A i \in 1..Len(raws) : RawOK(raws[i])

\* A match that honours the terms of its two orders.
Honours(m, snap) ==
  /\ snap[m.maker].side = "sell" /\ snap[m.taker].side = "buy"
  /\ snap[m.maker].wallet # snap[m.taker].wallet
  /\ snap[m.maker].limit <= m.price /\ m.price <= snap[m.taker].limit
  /\ m.quote = m.base * m.price

MatchesOf(snap) ==
  {m \in [maker : DOMAIN snap, taker : DOMAIN snap, base : Nat \ {0}, quote : Nat \ {0}, price : Nat \ {0}] :
     Honours(m, snap)}

\* What the validator carries from one match to the next.
Accs(snap) == [accepted : Seq(MatchesOf(snap)), rejected : Nat, total : [DOMAIN snap -> Nat]]

NewAcc(snap) == [accepted |-> << >>, rejected |-> 0, total |-> [o \in DOMAIN snap |-> 0]]

Takes(acc, raw, snap) ==
  /\ Admissible(raw, snap)
  /\ \A o \in {raw.maker, raw.taker} : FitsRoom(raw.fill, acc.total[o] + raw.fill, snap[o])

MatchOf(raw, snap, fair) ==
  LET price == ExecPrice(raw, snap[raw.maker], snap[raw.taker], fair)
  IN [maker |-> raw.maker, taker |-> raw.taker, base |-> raw.fill, quote |-> raw.fill * price,
      price |-> price]

LEMMA StepIs ==
  ASSUME NEW acc, NEW raw, NEW snap, NEW fair
  PROVE  ValidateOne(acc, raw, snap, fair) =
           IF Takes(acc, raw, snap)
           THEN [accepted |-> Append(acc.accepted, MatchOf(raw, snap, fair)), rejected |-> acc.rejected,
                 total |-> [o \in DOMAIN snap |-> IF o \in {raw.maker, raw.taker}
                                                  THEN acc.total[o] + raw.fill ELSE acc.total[o]]]
           ELSE [acc EXCEPT !.rejected = @ + 1]
BY DEF ValidateOne, Takes, MatchOf

LEMMA MatchOfType ==
  ASSUME NEW raw, NEW snap, NEW fair \in Nat, SnapOK(snap), RawOK(raw), Admissible(raw, snap)
  PROVE  MatchOf(raw, snap, fair) \in MatchesOf(snap)
<1>1. PICK maker, taker : maker = snap[raw.maker] /\ taker = snap[raw.taker]
  OBVIOUS
<1>2. /\ raw.maker \in DOMAIN snap /\ raw.taker \in DOMAIN snap
      /\ maker.side = "sell" /\ taker.side = "buy" /\ maker.wallet # taker.wallet
      /\ raw.fill \in Nat \ {0}
  BY <1>1 DEF Admissible, RawOK
<1>3. maker.limit \in Nat \ {0} /\ taker.limit \in Nat \ {0}
  BY <1>1, <1>2 DEF SnapOK
<1>4. PICK price : price = ExecPrice(raw, maker, taker, fair)
  OBVIOUS
<1>5. maker.limit <= price /\ price <= taker.limit
  BY <1>1, <1>3, <1>4, PriceWithinLimits DEF RawOK
<1>6. price \in Nat \ {0}
  <2>1. price \in Nat
    BY <1>3, <1>4 DEF ExecPrice, RawOK
  <2> QED BY <1>3, <1>5, <2>1
<1>7. raw.fill * price \in Nat \ {0}
  <2>1. \A a, b \in Nat \ {0} : a * b \in Nat \ {0} BY SMT
  <2> QED BY <1>2, <1>6, <2>1
<1>8. MatchOf(raw, snap, fair) =
        [maker |-> raw.maker, taker |-> raw.taker, base |-> raw.fill, quote |-> raw.fill * price, price |-> price]
  BY <1>1, <1>4 DEF MatchOf
<1> QED BY <1>1, <1>2, <1>5, <1>6, <1>7, <1>8 DEF MatchesOf, Honours

LEMMA StepType ==
  ASSUME NEW snap, SnapOK(snap), NEW acc \in Accs(snap), NEW raw, RawOK(raw), NEW fair \in Nat
  PROVE  ValidateOne(acc, raw, snap, fair) \in Accs(snap)
<1>1. CASE Takes(acc, raw, snap)
  <2>1. PICK m \in MatchesOf(snap) : m = MatchOf(raw, snap, fair)
    BY <1>1, MatchOfType DEF Takes
  <2>2. PICK total \in [DOMAIN snap -> Nat] :
          total = [o \in DOMAIN snap |-> IF o \in {raw.maker, raw.taker}
                                         THEN acc.total[o] + raw.fill ELSE acc.total[o]]
    <3>1. \A o \in DOMAIN snap : acc.total[o] \in Nat BY DEF Accs
    <3>2. PICK fill \in Nat : fill = raw.fill BY DEF RawOK
    <3>3. \A o \in DOMAIN snap : acc.total[o] + fill \in Nat BY <3>1
    <3> QED BY <3>1, <3>2, <3>3
  <2>3. ValidateOne(acc, raw, snap, fair) =
          [accepted |-> Append(acc.accepted, m), rejected |-> acc.rejected, total |-> total]
    BY <1>1, <2>1, <2>2, StepIs
  <2>4. Append(acc.accepted, m) \in Seq(MatchesOf(snap)) /\ acc.rejected \in Nat
    BY DEF Accs
  <2> QED BY <2>3, <2>4 DEF Accs
<1>2. CASE ~Takes(acc, raw, snap)
  BY <1>2, StepIs DEF Accs
<1> QED BY <1>1, <1>2

\* The run of the validator over a list of matches.
ValidatorRun(after, raws, snap, fair) ==
  /\ after \in [0..Len(raws) -> Accs(snap)]
  /\ after[0] = NewAcc(snap)
  /\ \A i \in 1..Len(raws) : after[i] = ValidateOne(after[i - 1], raws[i], snap, fair)

ValidateEq(after, raws, snap, fair) ==
  after = [i \in 0..Len(raws) |->
             IF i = 0 THEN NewAcc(snap) ELSE ValidateOne(after[i - 1], raws[i], snap, fair)]

LEMMA RunExists ==
  ASSUME NEW raws, NEW snap, NEW fair \in Nat, SnapOK(snap), RawsOK(raws)
  PROVE  \E after : ValidatorRun(after, raws, snap, fair) /\ ValidateEq(after, raws, snap, fair)
<1>1. PICK n \in Nat : n = Len(raws) BY DEF RawsOK
<1>2. PICK step : step = [i \in 1..n |-> [acc \in Accs(snap) |-> ValidateOne(acc, raws[i], snap, fair)]]
  OBVIOUS
<1>3. step \in [1..n -> [Accs(snap) -> Accs(snap)]]
  <2>1. \A i \in 1..n, acc \in Accs(snap) : ValidateOne(acc, raws[i], snap, fair) \in Accs(snap)
    BY <1>1, StepType DEF RawsOK
  <2> QED BY <1>2, <2>1
<1>4. NewAcc(snap) \in Accs(snap)
  BY DEF NewAcc, Accs
<1>5. PICK g : Recurses(g, n, Accs(snap), NewAcc(snap), step)
  BY <1>3, <1>4, RecursionExists
<1> USE DEF Recurses
<1>6. \A i \in 1..n : g[i - 1] \in Accs(snap) /\ g[i] = ValidateOne(g[i - 1], raws[i], snap, fair)
  <2>1. ASSUME NEW i \in 1..n PROVE g[i - 1] \in Accs(snap)
    <3>1. i - 1 \in 0..n OBVIOUS
    <3> QED BY <1>5, <3>1
  <2> QED BY <1>2, <1>5, <2>1
<1>7. ValidatorRun(g, raws, snap, fair)
  BY <1>1, <1>5, <1>6 DEF ValidatorRun
<1>8. g = [i \in 0..n |-> IF i = 0 THEN NewAcc(snap) ELSE ValidateOne(g[i - 1], raws[i], snap, fair)]
  <2>1. \A i \in 0..n : i # 0 => i \in 1..n OBVIOUS
  <2> QED BY <1>5, <1>6, <2>1
<1> QED BY <1>1, <1>7, <1>8 DEF ValidateEq

LEMMA RunUnique ==
  ASSUME NEW raws, NEW snap, NEW fair, RawsOK(raws),
         NEW g, ValidateEq(g, raws, snap, fair), NEW h, ValidateEq(h, raws, snap, fair)
  PROVE  g = h
<1>1. PICK n \in Nat : n = Len(raws) BY DEF RawsOK
<1> DEFINE Same(i) == i <= n => g[i] = h[i]
           P == {i \in Nat : Same(i)}
           After(f, i) == IF i = 0 THEN NewAcc(snap) ELSE ValidateOne(f[i - 1], raws[i], snap, fair)
<1>2. g = [i \in 0..n |-> After(g, i)] /\ h = [i \in 0..n |-> After(h, i)]
  BY <1>1 DEF ValidateEq
<1>3. Same(0)
  BY <1>2
<1>4. ASSUME NEW i \in P PROVE Same(i + 1)
  <2>1. SUFFICES ASSUME i + 1 <= n PROVE g[i + 1] = h[i + 1]
    OBVIOUS
  <2>2. i + 1 \in 0..n /\ i + 1 # 0 /\ (i + 1) - 1 = i /\ g[i] = h[i]
    BY <2>1
  <2>3. After(g, i + 1) = After(h, i + 1)
    BY <2>2
  <2> HIDE DEF After
  <2> QED BY <1>2, <2>2, <2>3
<1>5. P = Nat
  <2>1. 0 \in P /\ \A i \in P : i + 1 \in P
    <3> HIDE DEF Same
    <3> QED BY <1>3, <1>4
  <2> HIDE DEF P
  <2> QED BY <2>1, AllNumbers DEF P
<1>6. \A i \in 0..n : g[i] = h[i]
  <2>1. \A i \in 0..n : i \in P BY <1>5
  <2> QED BY <2>1
<1> HIDE DEF After
<1> QED BY <1>2, <1>6

\* The validator's verdict in terms of its run.
Verdict(all, fair, prev) ==
  IF VolatilityHolds(fair, prev)
  THEN [accepted |-> << >>, rejected |-> all.rejected + Len(all.accepted), held |-> TRUE]
  ELSE [accepted |-> all.accepted, rejected |-> all.rejected, held |-> FALSE]

LEMMA ValidateIs ==
  ASSUME NEW raws, NEW snap, NEW fair \in Nat, SnapOK(snap), RawsOK(raws), NEW prev
  PROVE  \E after : /\ ValidatorRun(after, raws, snap, fair)
                    /\ Validate(raws, snap, fair, prev) = Verdict(after[Len(raws)], fair, prev)
<1>1. PICK g : ValidatorRun(g, raws, snap, fair) /\ ValidateEq(g, raws, snap, fair)
  BY RunExists
<1> DEFINE chosen == CHOOSE after : ValidateEq(after, raws, snap, fair)
<1>2. ValidateEq(chosen, raws, snap, fair)
  BY <1>1
<1>3. chosen = g
  <2> HIDE DEF chosen
  <2> QED BY <1>1, <1>2, RunUnique
<1>4. Validate(raws, snap, fair, prev) = Verdict(chosen[Len(raws)], fair, prev)
  BY DEF Validate, Verdict, ValidateEq, NewAcc
<1> QED BY <1>1, <1>3, <1>4

(***************************************************************************)
(* What the validator lets through.                                        *)
(***************************************************************************)

\* The totals are what the accepted matches fill, within the room.
TotalsFit(acc, snap) ==
  \A o \in DOMAIN snap : acc.total[o] = FillIn(acc.accepted, o) /\ acc.total[o] <= Room(snap[o])

LEMMA StepTotals ==
  ASSUME NEW snap, SnapOK(snap), NEW acc \in Accs(snap), TotalsFit(acc, snap),
         NEW raw, RawOK(raw), NEW fair \in Nat
  PROVE  TotalsFit(ValidateOne(acc, raw, snap, fair), snap)
<1>1. CASE Takes(acc, raw, snap)
  <2>1. PICK m \in MatchesOf(snap) : m = MatchOf(raw, snap, fair)
    BY <1>1, MatchOfType DEF Takes
  <2>2. m.maker = raw.maker /\ m.taker = raw.taker /\ m.base = raw.fill
    BY <2>1 DEF MatchOf
  <2>3. PICK next : next = ValidateOne(acc, raw, snap, fair)
    OBVIOUS
  <2>4. /\ next.accepted = Append(acc.accepted, m)
        /\ \A o \in DOMAIN snap : next.total[o] = IF o \in {raw.maker, raw.taker}
                                                  THEN acc.total[o] + raw.fill ELSE acc.total[o]
    BY <1>1, <2>1, <2>3, StepIs
  <2>5. acc.accepted \in Seq(MatchesOf(snap)) /\ \A x \in MatchesOf(snap) : x.base \in Nat
    BY DEF Accs, MatchesOf
  <2>6. ASSUME NEW o \in DOMAIN snap
        PROVE  next.total[o] = FillIn(next.accepted, o) /\ next.total[o] <= Room(snap[o])
    <3>1. FillIn(next.accepted, o) = FillIn(acc.accepted, o) + Share(m, o)
      BY <2>4, <2>5, FillInAppend
    <3>2. acc.total[o] = FillIn(acc.accepted, o) /\ acc.total[o] <= Room(snap[o]) /\ acc.total[o] \in Nat
      BY DEF TotalsFit, Accs
    <3>3. Share(m, o) = IF o \in {raw.maker, raw.taker} THEN raw.fill ELSE 0
      BY <2>2 DEF Share
    <3>4. o \in {raw.maker, raw.taker} => acc.total[o] + raw.fill <= Room(snap[o])
      BY <1>1 DEF Takes, FitsRoom
    <3> QED BY <2>4, <3>1, <3>2, <3>3, <3>4
  <2> QED BY <2>3, <2>6 DEF TotalsFit
<1>2. CASE ~Takes(acc, raw, snap)
  <2>1. /\ ValidateOne(acc, raw, snap, fair).accepted = acc.accepted
        /\ ValidateOne(acc, raw, snap, fair).total = acc.total
    BY <1>2, StepIs DEF Accs
  <2> QED BY <2>1 DEF TotalsFit
<1> QED BY <1>1, <1>2

LEMMA RunTotals ==
  ASSUME NEW raws, NEW snap, NEW fair \in Nat, SnapOK(snap), RawsOK(raws),
         NEW after, ValidatorRun(after, raws, snap, fair)
  PROVE  \A i \in 0..Len(raws) : TotalsFit(after[i], snap)
<1>1. PICK n \in Nat : n = Len(raws) BY DEF RawsOK
<1> DEFINE Fits(i) == i <= n => TotalsFit(after[i], snap)
           P == {i \in Nat : Fits(i)}
<1>2. Fits(0)
  <2>1. TotalsFit(NewAcc(snap), snap)
    <3>1. \A o \in DOMAIN snap : 0 <= Room(snap[o])
      BY DEF SnapOK, Room
    <3> QED BY <3>1, FillInEmpty DEF TotalsFit, NewAcc
  <2> QED BY <2>1 DEF ValidatorRun
<1>3. ASSUME NEW i \in P PROVE Fits(i + 1)
  <2>1. SUFFICES ASSUME i + 1 <= n PROVE TotalsFit(after[i + 1], snap)
    OBVIOUS
  <2>2. i + 1 \in 1..n /\ (i + 1) - 1 = i /\ i \in 0..n /\ TotalsFit(after[i], snap)
    BY <2>1
  <2>3. /\ after[i] \in Accs(snap) /\ RawOK(raws[i + 1])
        /\ after[i + 1] = ValidateOne(after[i], raws[i + 1], snap, fair)
    BY <1>1, <2>2 DEF ValidatorRun, RawsOK
  <2> QED BY <2>2, <2>3, StepTotals
<1>4. P = Nat
  <2>1. 0 \in P /\ \A i \in P : i + 1 \in P
    <3> HIDE DEF Fits
    <3> QED BY <1>2, <1>3
  <2> HIDE DEF P
  <2> QED BY <2>1, AllNumbers DEF P
<1>5. \A i \in 0..n : i \in P BY <1>4
<1> QED BY <1>1, <1>5

\* Whatever the strategies propose, every match the validator accepts honours
\* its two orders, and the matches it accepts for an order fit together into
\* what the order has left (validator.py, lines 96 to 163).
THEOREM AcceptedFit ==
  ASSUME NEW raws, NEW snap, NEW fair \in Nat, SnapOK(snap), RawsOK(raws), NEW prev,
         NEW accepted, accepted = Validate(raws, snap, fair, prev).accepted
  PROVE  /\ accepted \in Seq(MatchesOf(snap))
         /\ \A o \in DOMAIN snap : FillIn(accepted, o) <= Room(snap[o])
<1>1. PICK after : /\ ValidatorRun(after, raws, snap, fair)
                   /\ Validate(raws, snap, fair, prev) = Verdict(after[Len(raws)], fair, prev)
  BY ValidateIs
<1>2. Len(raws) \in 0..Len(raws)
  BY DEF RawsOK
<1>3. after[Len(raws)] \in Accs(snap) /\ TotalsFit(after[Len(raws)], snap)
  BY <1>1, <1>2, RunTotals DEF ValidatorRun
<1>4. CASE VolatilityHolds(fair, prev)
  <2>1. accepted = << >>
    BY <1>1, <1>4 DEF Verdict
  <2>2. \A o \in DOMAIN snap : 0 <= Room(snap[o])
    BY DEF SnapOK, Room
  <2> QED BY <2>1, <2>2, FillInEmpty
<1>5. CASE ~VolatilityHolds(fair, prev)
  <2>1. accepted = after[Len(raws)].accepted
    BY <1>1, <1>5 DEF Verdict
  <2> QED BY <1>3, <2>1 DEF Accs, TotalsFit
<1> QED BY <1>4, <1>5

(***************************************************************************)
(* When the validator rejects nothing.                                     *)
(***************************************************************************)

Claim(raws, o) == [i \in DOMAIN raws |-> IF o \in {raws[i].maker, raws[i].taker} THEN raws[i].fill ELSE 0]

\* The first i matches are all admissible, and counted.
AllCounted(acc, raws, snap, i) ==
  /\ acc.rejected = 0 /\ Len(acc.accepted) = i
  /\ \A j \in 1..i : Admissible(raws[j], snap)
  /\ \A o \in DOMAIN snap : acc.total[o] = SumFunctionOnSet(Claim(raws, o), 1..i)

LEMMA ClaimType ==
  ASSUME NEW raws, RawsOK(raws), NEW o
  PROVE  \A i \in 1..Len(raws) :
            /\ Claim(raws, o)[i] = IF o \in {raws[i].maker, raws[i].taker} THEN raws[i].fill ELSE 0
            /\ Claim(raws, o)[i] \in Nat
BY DEF Claim, RawsOK, RawOK

LEMMA ClaimLonger ==
  ASSUME NEW raws, RawsOK(raws), NEW o, NEW i \in Nat, i + 1 <= Len(raws)
  PROVE  SumFunctionOnSet(Claim(raws, o), 1..(i + 1))
           = SumFunctionOnSet(Claim(raws, o), 1..i) + Claim(raws, o)[i + 1]
<1>1. PICK f : f = Claim(raws, o) OBVIOUS
<1>2. \A j \in 1..(i + 1) : f[j] \in Nat
  <2>1. \A j \in 1..(i + 1) : j \in 1..Len(raws) BY DEF RawsOK
  <2> QED BY <1>1, <2>1, ClaimType
<1>3. IntOn(f, 1..i) /\ f[i + 1] \in Int /\ \A j \in 1..i : f[j] = f[j]
  BY <1>2 DEF IntOn
<1>4. SumFunctionOnSet(f, 1..(i + 1)) = SumFunctionOnSet(f, 1..i) + f[i + 1]
  BY <1>3, SumLonger
<1> QED BY <1>1, <1>4

\* A match that is taken is counted.
LEMMA TakenIsCounted ==
  ASSUME NEW snap, SnapOK(snap), NEW raws, RawsOK(raws), NEW fair \in Nat,
         NEW i \in Nat, i + 1 <= Len(raws),
         NEW acc \in Accs(snap), AllCounted(acc, raws, snap, i), Takes(acc, raws[i + 1], snap)
  PROVE  AllCounted(ValidateOne(acc, raws[i + 1], snap, fair), raws, snap, i + 1)
<1>1. PICK raw : raw = raws[i + 1] OBVIOUS
<1>2. PICK next : next = ValidateOne(acc, raw, snap, fair) OBVIOUS
<1>3. /\ next.accepted = Append(acc.accepted, MatchOf(raw, snap, fair)) /\ next.rejected = acc.rejected
      /\ \A o \in DOMAIN snap : next.total[o] = IF o \in {raw.maker, raw.taker}
                                                THEN acc.total[o] + raw.fill ELSE acc.total[o]
  BY <1>1, <1>2, StepIs
<1>4. i + 1 \in 1..Len(raws) /\ RawOK(raw)
  BY <1>1 DEF RawsOK
<1>5. Len(next.accepted) = i + 1
  <2>1. acc.accepted \in Seq(MatchesOf(snap)) /\ Len(acc.accepted) = i
    BY DEF Accs, AllCounted
  <2> QED BY <1>3, <2>1
<1>6. \A j \in 1..(i + 1) : Admissible(raws[j], snap)
  <2>1. \A j \in 1..(i + 1) : j \in 1..i \/ j = i + 1 OBVIOUS
  <2> QED BY <2>1 DEF AllCounted, Takes
<1>7. ASSUME NEW o \in DOMAIN snap
      PROVE  next.total[o] = SumFunctionOnSet(Claim(raws, o), 1..(i + 1))
  <2>1. PICK before, claim, total :
          /\ before = SumFunctionOnSet(Claim(raws, o), 1..i) /\ claim = Claim(raws, o)[i + 1]
          /\ total = SumFunctionOnSet(Claim(raws, o), 1..(i + 1))
    OBVIOUS
  <2>2. total = before + claim
    BY <2>1, ClaimLonger
  <2>3. claim = IF o \in {raw.maker, raw.taker} THEN raw.fill ELSE 0
    BY <1>1, <1>4, <2>1, ClaimType
  <2>4. acc.total[o] = before /\ acc.total[o] \in Nat /\ raw.fill \in Nat
    BY <1>4, <2>1 DEF AllCounted, Accs, RawOK
  <2>5. next.total[o] = before + claim
    BY <1>3, <2>3, <2>4
  <2> QED BY <2>1, <2>2, <2>5
<1> QED BY <1>1, <1>2, <1>3, <1>5, <1>6, <1>7 DEF AllCounted

\* A match that is not taken is rejected for good.
LEMMA RejectedStays ==
  ASSUME NEW snap, NEW acc \in Accs(snap), NEW raw, NEW fair,
         ValidateOne(acc, raw, snap, fair).rejected = 0
  PROVE  acc.rejected = 0 /\ Takes(acc, raw, snap)
<1>1. acc.rejected \in Nat BY DEF Accs
<1>2. CASE Takes(acc, raw, snap)
  BY <1>2, StepIs
<1>3. CASE ~Takes(acc, raw, snap)
  <2>1. ValidateOne(acc, raw, snap, fair).rejected = acc.rejected + 1
    BY <1>3, StepIs DEF Accs
  <2> QED BY <1>1, <2>1
<1> QED BY <1>2, <1>3

LEMMA NoneRejected ==
  ASSUME NEW raws, NEW snap, NEW fair \in Nat, SnapOK(snap), RawsOK(raws),
         NEW after, ValidatorRun(after, raws, snap, fair)
  PROVE  \A i \in 0..Len(raws) : after[i].rejected = 0 => AllCounted(after[i], raws, snap, i)
<1>1. PICK n \in Nat : n = Len(raws) BY DEF RawsOK
<1> DEFINE Counts(i) == i <= n /\ after[i].rejected = 0 => AllCounted(after[i], raws, snap, i)
           P == {i \in Nat : Counts(i)}
<1>2. Counts(0)
  <2>1. AllCounted(NewAcc(snap), raws, snap, 0)
    <3>1. 1..0 = {} OBVIOUS
    <3>2. \A o : SumFunctionOnSet(Claim(raws, o), {}) = 0 BY SumEmpty
    <3> QED BY <3>1, <3>2 DEF AllCounted, NewAcc
  <2> QED BY <2>1 DEF ValidatorRun
<1>3. ASSUME NEW i \in P PROVE Counts(i + 1)
  <2>1. SUFFICES ASSUME i + 1 <= n, after[i + 1].rejected = 0
                 PROVE  AllCounted(after[i + 1], raws, snap, i + 1)
    OBVIOUS
  <2>2. i + 1 \in 1..n /\ (i + 1) - 1 = i /\ i \in 0..n
    BY <2>1
  <2>3. after[i] \in Accs(snap) /\ after[i + 1] = ValidateOne(after[i], raws[i + 1], snap, fair)
    BY <1>1, <2>2 DEF ValidatorRun
  <2>4. after[i].rejected = 0 /\ Takes(after[i], raws[i + 1], snap)
    BY <2>1, <2>3, RejectedStays
  <2>5. AllCounted(after[i], raws, snap, i)
    BY <2>2, <2>4
  <2> QED BY <1>1, <2>1, <2>3, <2>4, <2>5, TakenIsCounted
<1>4. P = Nat
  <2>1. 0 \in P /\ \A i \in P : i + 1 \in P
    <3> HIDE DEF Counts
    <3> QED BY <1>2, <1>3
  <2> HIDE DEF P
  <2> QED BY <2>1, AllNumbers DEF P
<1>5. \A i \in 0..n : Counts(i)
  <2> HIDE DEF Counts
  <2> QED BY <1>4
<1> QED BY <1>1, <1>5

\* Every match of the round is admissible, and all that the round claims of an
\* order is within what the order has left.
Sound(raws, snap) ==
  /\ \A i \in DOMAIN raws : Admissible(raws[i], snap)
  /\ \A o \in DOMAIN snap : SumFunction(Claim(raws, o)) <= Room(snap[o])

LEMMA SoundIsTaken ==
  ASSUME NEW raws, NEW snap, NEW fair \in Nat, SnapOK(snap), RawsOK(raws), Sound(raws, snap),
         NEW after, ValidatorRun(after, raws, snap, fair)
  PROVE  \A i \in 0..Len(raws) : after[i].rejected = 0
<1>1. PICK n \in Nat : n = Len(raws) /\ DOMAIN raws = 1..n BY DEF RawsOK
<1> DEFINE Clean(i) == i <= n => after[i].rejected = 0
           P == {i \in Nat : Clean(i)}
<1>2. Clean(0)
  BY DEF ValidatorRun, NewAcc
<1>3. ASSUME NEW i \in P PROVE Clean(i + 1)
  <2>1. SUFFICES ASSUME i + 1 <= n PROVE after[i + 1].rejected = 0
    OBVIOUS
  <2>2. i + 1 \in 1..n /\ (i + 1) - 1 = i /\ i \in 0..n /\ after[i].rejected = 0
    BY <2>1
  <2>3. after[i] \in Accs(snap) /\ after[i + 1] = ValidateOne(after[i], raws[i + 1], snap, fair)
    BY <1>1, <2>2 DEF ValidatorRun
  <2>4. AllCounted(after[i], raws, snap, i)
    BY <1>1, <2>2, NoneRejected
  <2>5. PICK raw : raw = raws[i + 1]
    OBVIOUS
  <2>6. Admissible(raw, snap)
    BY <1>1, <2>2, <2>5 DEF Sound
  <2>7. ASSUME NEW o \in {raw.maker, raw.taker}
        PROVE  after[i].total[o] + raw.fill <= Room(snap[o])
    <3>1. o \in DOMAIN snap
      BY <2>6 DEF Admissible
    <3>2. PICK f : f = Claim(raws, o)
      OBVIOUS
    <3>3. \A j \in 1..n : f[j] \in Nat
      BY <1>1, <3>2, ClaimType
    <3>4. SumFunctionOnSet(f, 1..(i + 1)) <= SumFunctionOnSet(f, 1..n)
      <4>1. i + 1 \in 0..n BY <2>2
      <4> QED BY <3>3, <4>1, SumUpTo
    <3>5. SumFunctionOnSet(f, 1..(i + 1)) = SumFunctionOnSet(f, 1..i) + f[i + 1]
      BY <1>1, <2>1, <3>2, ClaimLonger
    <3>6. f[i + 1] = raw.fill /\ after[i].total[o] = SumFunctionOnSet(f, 1..i)
      <4>1. f[i + 1] = raw.fill
        BY <1>1, <2>2, <2>5, <3>2, ClaimType
      <4> QED BY <2>4, <3>1, <3>2, <4>1 DEF AllCounted
    <3>7. SumFunctionOnSet(f, 1..n) <= Room(snap[o])
      BY <1>1, <3>1, <3>2, SumOver DEF Sound, Claim
    <3>8. /\ SumFunctionOnSet(f, 1..(i + 1)) \in Int /\ SumFunctionOnSet(f, 1..n) \in Int
          /\ Room(snap[o]) \in Int
      <4>0. i \in Nat /\ 1..(i + 1) \in SUBSET (1..n)
        BY <2>1
      <4>1. IntOn(f, 1..n)
        BY <3>3 DEF IntOn
      <4>2. IsFiniteSet(1..n)
        BY FS_Interval
      <4>4. IntOn(f, 1..(i + 1)) /\ IsFiniteSet(1..(i + 1))
        BY <4>0, <4>1, <4>2, IntOnSubset
      <4>3. Room(snap[o]) \in Int
        BY <3>1 DEF SnapOK, Room
      <4> QED BY <4>1, <4>2, <4>3, <4>4, SumInt
    <3> HIDE DEF P
    <3> QED BY <3>4, <3>5, <3>6, <3>7, <3>8
  <2>8. Takes(after[i], raw, snap)
    BY <2>6, <2>7 DEF Takes, FitsRoom
  <2> QED BY <2>2, <2>3, <2>5, <2>8, StepIs
<1>4. P = Nat
  <2>1. 0 \in P /\ \A i \in P : i + 1 \in P
    <3> HIDE DEF Clean
    <3> QED BY <1>2, <1>3
  <2> HIDE DEF P
  <2> QED BY <2>1, AllNumbers DEF P
<1>5. \A i \in 0..n : Clean(i)
  <2> HIDE DEF Clean
  <2> QED BY <1>4
<1> QED BY <1>1, <1>5

\* Without a jump of the price, the engine applies a round exactly when it is
\* sound as a whole, whatever the order of its matches.
THEOREM AppliedIffSound ==
  ASSUME NEW raws, NEW snap, NEW fair \in Nat, SnapOK(snap), RawsOK(raws), NEW prev,
         ~VolatilityHolds(fair, prev)
  PROVE  (Applied(Validate(raws, snap, fair, prev)) # << >>) <=> (Sound(raws, snap) /\ Len(raws) # 0)
<1>1. PICK after : /\ ValidatorRun(after, raws, snap, fair)
                   /\ Validate(raws, snap, fair, prev) = Verdict(after[Len(raws)], fair, prev)
  BY ValidateIs
<1>2. PICK n \in Nat : n = Len(raws) /\ DOMAIN raws = 1..n BY DEF RawsOK
<1>3. PICK all \in Accs(snap) : all = after[n]
  BY <1>1, <1>2 DEF ValidatorRun
<1>4. Applied(Validate(raws, snap, fair, prev)) = IF all.rejected = 0 THEN all.accepted ELSE << >>
  BY <1>1, <1>2, <1>3 DEF Verdict, Applied
<1>5. all.rejected = 0 => AllCounted(all, raws, snap, n)
  BY <1>1, <1>2, <1>3, NoneRejected
<1>6. Sound(raws, snap) => all.rejected = 0
  BY <1>1, <1>2, <1>3, SoundIsTaken
<1>7. TotalsFit(all, snap)
  BY <1>1, <1>2, <1>3, RunTotals
<1>8. AllCounted(all, raws, snap, n) => Sound(raws, snap)
  BY <1>2, <1>7, SumOver DEF AllCounted, Sound, TotalsFit, Claim
<1>9. AllCounted(all, raws, snap, n) => (all.accepted # << >> <=> n # 0)
  BY DEF AllCounted, Accs
<1> QED BY <1>2, <1>4, <1>5, <1>6, <1>8, <1>9

(***************************************************************************)
(* The winner.                                                             *)
(***************************************************************************)

VolumesOK(results) == \A i \in DOMAIN results : ProposedVolume(results[i]) \in Nat

\* Who proposes a volume proposes a match.
LEMMA VolumeProposes ==
  ASSUME NEW result, ProposedVolume(result) \in Nat, ProposedVolume(result) > 0
  PROVE  result.matches # << >>
<1>1. SUFFICES ASSUME result.matches = << >> PROVE FALSE
  OBVIOUS
<1>2. PICK f : f = [i \in DOMAIN result.matches |-> result.matches[i].fill]
  OBVIOUS
<1>3. DOMAIN f = {}
  BY <1>1, <1>2
<1>4. ProposedVolume(result) = 0
  BY <1>2, <1>3, SumOver, SumEmpty DEF ProposedVolume
<1> QED BY <1>4

\* The largest volume is that of a candidate, and no other is larger.
LEMMA LargestVolumeIs ==
  ASSUME NEW results, VolumesOK(results), NEW candidates \in SUBSET DOMAIN results,
         candidates # {}, IsFiniteSet(candidates), DOMAIN results \subseteq Nat
  PROVE  /\ LargestVolume(results, candidates) \in candidates
         /\ \A j \in candidates :
              ProposedVolume(results[j]) <= ProposedVolume(results[LargestVolume(results, candidates)])
<1>1. PICK f : f = [i \in candidates |-> ProposedVolume(results[i])]
  OBVIOUS
<1>2. IntOn(f, candidates)
  BY <1>1 DEF IntOn, VolumesOK
<1>3. PICK x \in candidates : \A y \in candidates : f[y] <= f[x]
  BY <1>2, Largest
<1> DEFINE best == {i \in candidates : \A j \in candidates :
                      ProposedVolume(results[j]) <= ProposedVolume(results[i])}
           first == CHOOSE i \in best : \A j \in best : i <= j
<1>4. best # {} /\ best \in SUBSET Nat
  <2>1. x \in best BY <1>1, <1>3
  <2> QED BY <2>1
<1>5. \E i \in best : \A j \in best : i <= j
  <2> HIDE DEF best
  <2> QED BY <1>4, Smallest
<1>6. first \in best
  <2> HIDE DEF best
  <2> QED BY <1>5
<1>7. LargestVolume(results, candidates) = first
  BY DEF LargestVolume
<1> HIDE DEF first
<1> QED BY <1>6, <1>7

\* A round is not lost to the judge or to another strategy: when a strategy
\* succeeds with a positive volume, the winner proposes something
\* (engine.py, lines 196 to 260).
THEOREM WinnerKeepsRound ==
  ASSUME NEW results, VolumesOK(results), IsFiniteSet(DOMAIN results), DOMAIN results \subseteq Nat,
         NEW i \in DOMAIN results, ~results[i].error, ProposedVolume(results[i]) > 0, NEW verdict
  PROVE  Winner(results, verdict).matches # << >>
<1> DEFINE valid == {j \in DOMAIN results : ~results[j].error}
           proposing == {j \in valid : results[j].matches # << >>}
           chosen == IF verdict.winner \in DOMAIN results THEN verdict.winner ELSE 1
<1>0. PICK win : win = Winner(results, verdict)
  OBVIOUS
<1>1. i \in valid /\ results[i].matches # << >>
  BY VolumeProposes DEF VolumesOK
<1>2. /\ valid \in SUBSET DOMAIN results /\ IsFiniteSet(valid) /\ valid # {}
      /\ proposing \in SUBSET DOMAIN results /\ IsFiniteSet(proposing) /\ proposing # {}
  BY <1>1, FS_Subset
<1>3. \/ Cardinality(valid) = 1 /\ win = results[CHOOSE j \in valid : TRUE]
      \/ win = results[LargestVolume(results, valid)]
      \/ win = results[LargestVolume(results, proposing)]
      \/ win = results[chosen] /\ results[chosen].matches # << >>
  BY <1>0, <1>2, Zenon DEF Winner
<1> SUFFICES win.matches # << >>
  BY <1>0
<1>4. CASE Cardinality(valid) = 1 /\ win = results[CHOOSE j \in valid : TRUE]
  <2>1. valid = {i}
    <3> HIDE DEF valid
    <3> QED BY <1>1, <1>2, <1>4, FS_Singleton
  <2>2. (CHOOSE j \in valid : TRUE) = i
    <3> HIDE DEF valid
    <3> QED BY <2>1
  <2> QED BY <1>1, <1>4, <2>2
<1>5. CASE win = results[LargestVolume(results, valid)]
  <2>1. PICK j : j = LargestVolume(results, valid)
    OBVIOUS
  <2>2. j \in valid /\ ProposedVolume(results[i]) <= ProposedVolume(results[j])
    <3> HIDE DEF valid
    <3> QED BY <1>1, <1>2, <2>1, LargestVolumeIs
  <2>3. results[j].matches # << >>
    BY <2>2, VolumeProposes DEF VolumesOK
  <2> QED BY <1>5, <2>1, <2>3
<1>6. CASE win = results[LargestVolume(results, proposing)]
  <2>1. LargestVolume(results, proposing) \in proposing
    <3> HIDE DEF proposing
    <3> QED BY <1>2, LargestVolumeIs
  <2> QED BY <1>6, <2>1
<1>7. CASE win = results[chosen] /\ results[chosen].matches # << >>
  <2> HIDE DEF chosen
  <2> QED BY <1>7
<1> QED BY <1>3, <1>4, <1>5, <1>6, <1>7, Zenon

=============================================================================
