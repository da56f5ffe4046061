---------------------------- MODULE SettlementProofs ----------------------------
(***************************************************************************)
(* The invariants of matching and settlement, for any orders, prices and   *)
(* pairs and any number of cycles and restarts.                            *)
(***************************************************************************)
EXTENDS Settlement, MatchingRulesProofs, SequenceTheorems

(***************************************************************************)
(* The kinds of steps.                                                     *)
(***************************************************************************)

FairMayChange == prevFair' \in {prevFair} \union Prices

\* A cycle ends before it has locked anything.
GivesUp(c) ==
  /\ At(c, "waiting")
  /\ Leave(c)
  /\ FairMayChange
  /\ UNCHANGED <<book, lockedIds, inventory, matches, restarts, chainVars>>

\* A round is over and its orders are freed.
EndsRound(c) ==
  /\ InRound(c) /\ cycle[c].pc # "submitting" /\ HoldsPairLock(c)
  /\ LeaveUnlocking(c)
  /\ FairMayChange
  /\ UNCHANGED <<book, inventory, matches, restarts, chainVars>>

BookOnly == UNCHANGED <<lockedIds, pairQueue, cycle, prevFair, inventory, matches, restarts, chainVars>>

Lists(o) ==
  /\ book[o].status = "absent" /\ (o \in Quotes => status[o] # "none")
  /\ book' = Add(o) /\ BookOnly

Cancels(o) == IsActive(book[o]) /\ book' = Cancel(o) /\ BookOnly

Withdraws(o) ==
  /\ o \in Quotes => o \notin lockedIds /\ book[o].status \in {"cancelled", "filled"}
  /\ Chain!Close(o)
  /\ UNCHANGED <<engineVars, matches, restarts>>

IsCycle(r) == r \in {Idle} \union [pc : {"waiting"}, pair : Pairs] \/ IsRound(r)

\* What the local state of a cycle is made of.
LEMMA RoundFields ==
  ASSUME NEW r, IsRound(r)
  PROVE  /\ r.pc \in {"matching", "submitting", "reporting"} /\ r.pair \in Pairs /\ r.fair \in Prices
         /\ r.round \subseteq Nat /\ r.queue \in Seq(Nat)
BY DEF IsRound

LEMMA CycleFields ==
  ASSUME TypeOK, NEW c \in Cycles
  PROVE  /\ IsCycle(cycle[c])
         /\ cycle[c].pc = "waiting" => cycle[c].pair \in Pairs
         /\ InRound(c) <=> IsRound(cycle[c])
         /\ IsRound(cycle[c]) => cycle[c].pair \in Pairs
<1>1. PICK r : r = cycle[c]
  OBVIOUS
<1>2. IsCycle(r)
  BY <1>1 DEF TypeOK, IsCycle
<1>3. CASE r = Idle
  BY <1>1, <1>2, <1>3, RoundFields DEF Idle, InRound
<1>4. CASE r \in [pc : {"waiting"}, pair : Pairs]
  BY <1>1, <1>2, <1>4, RoundFields DEF InRound
<1>5. CASE IsRound(r)
  BY <1>1, <1>2, <1>5, RoundFields DEF InRound
<1> QED BY <1>2, <1>3, <1>4, <1>5 DEF IsCycle

LEMMA StepKinds ==
  ASSUME TypeOK, Next
  PROVE  \/ \E c \in Cycles, pair \in Pairs : StartCycle(c, pair)
         \/ \E c \in Cycles : GivesUp(c)
         \/ \E c \in Cycles : cycle[c].pc = "waiting" /\ \E fair \in FairPrices[cycle[c].pair] : LockRound(c, fair)
         \/ \E c \in Cycles : EndsRound(c)
         \/ \E c \in Cycles : \E applied \in RoundResults(c) : ApplyRound(c, applied)
         \/ \E c \in Cycles, tx \in {"pending", "refused"} : Submit(c, tx)
         \/ \E c \in Cycles : ReportOutcomes(c)
         \/ \E o \in OrderIds : Lists(o)
         \/ \E o \in OrderIds : Cancels(o)
         \/ \E o \in OrderIds : Deposit(o)
         \/ \E o \in OrderIds : Withdraws(o)
         \/ \E i \in DOMAIN matches : MineSwap(i)
         \/ \E i \in DOMAIN matches : RevertSwap(i)
         \/ Restart
<1>1. CASE \E c \in Cycles : CycleStep(c)
  <2>1. PICK c \in Cycles : CycleStep(c)
    BY <1>1
  <2>2. CASE QuoteFails(c)
    BY <2>2 DEF QuoteFails, GivesUp, FairMayChange
  <2>3. CASE /\ cycle[c].pc = "waiting"
             /\ \E fair \in FairPrices[cycle[c].pair] : HoldRound(c, fair) \/ SkipRound(c, fair) \/ LockRound(c, fair)
    <3>1. PICK fair \in FairPrices[cycle[c].pair] : HoldRound(c, fair) \/ SkipRound(c, fair) \/ LockRound(c, fair)
      BY <2>3
    <3>2. cycle[c].pair \in Pairs
      BY <2>3, CycleFields
    <3>3. fair \in Prices
      BY <3>2 DEF Prices
    <3>4. HoldRound(c, fair) => GivesUp(c)
      BY <3>3 DEF HoldRound, GivesUp, FairMayChange
    <3>5. SkipRound(c, fair) => GivesUp(c)
      BY <3>3 DEF SkipRound, GivesUp, FairMayChange
    <3> QED BY <2>3, <3>1, <3>4, <3>5
  <2>4. CASE cycle[c].pc = "matching" /\ \E applied \in RoundResults(c) : DropRound(c, applied) \/ ApplyRound(c, applied)
    <3>1. PICK applied \in RoundResults(c) : DropRound(c, applied) \/ ApplyRound(c, applied)
      BY <2>4
    <3>2. cycle[c].fair \in Prices
      BY <2>4, CycleFields, RoundFields DEF InRound
    <3>3. DropRound(c, applied) => EndsRound(c)
      BY <3>2 DEF DropRound, EndsRound, At, InRound, FairMayChange
    <3> QED BY <3>1, <3>3
  <2>5. CASE RoundFails(c)
    BY <2>5 DEF RoundFails, EndsRound, At, InRound, FairMayChange
  <2>6. CASE SendSwap(c) \/ SendFails(c)
    BY <2>6 DEF SendSwap, SendFails
  <2>7. CASE ReportOutcomes(c)
    BY <2>7
  <2>8. CASE FinishCycle(c)
    BY <2>8 DEF FinishCycle, EndsRound, At, InRound, FairMayChange
  <2> QED BY <2>1, <2>2, <2>3, <2>4, <2>5, <2>6, <2>7, <2>8 DEF CycleStep
<1>2. CASE \E o \in OrderIds : OrderStep(o)
  <2>1. PICK o \in OrderIds : OrderStep(o)
    BY <1>2
  <2>2. CASE CreateOrder(o) \/ ListQuote(o)
    BY <2>2 DEF CreateOrder, ListQuote, Lists, BookOnly
  <2>3. CASE CancelOrder(o) \/ CancelQuote(o)
    BY <2>3 DEF CancelOrder, CancelQuote, MayCancelQuote, Cancels, BookOnly
  <2>4. CASE WithdrawOrder(o) \/ WithdrawQuote(o)
    BY <2>4 DEF WithdrawOrder, WithdrawQuote, MayCancelQuote, Withdraws
  <2> QED BY <2>1, <2>2, <2>3, <2>4 DEF OrderStep
<1> QED BY <1>1, <1>2 DEF Next

(***************************************************************************)
(* What a round fills in the book.                                         *)
(***************************************************************************)

Orders == [status : BookStatus, filled : Nat]

Books == [OrderIds -> Orders]

LEMMA TermsFields ==
  ASSUME NEW o \in OrderIds
  PROVE  /\ Terms[o].pair \in Pairs /\ Terms[o].side \in {"buy", "sell"} /\ Terms[o].wallet \in Nat
         /\ Terms[o].amount \in Nat \ {0} /\ Terms[o].limit \in Nat \ {0}
BY TermsAssumption

\* An order is filled exactly when nothing of it is left, and never beyond.
OrderFits(order, amount) ==
  /\ order.filled <= amount
  /\ order.status = "filled" <=> order.filled = amount /\ order.status # "lost"

\* OrderBook.fill for one order.
FillOne(order, x, amount) ==
  IF IsActive(order) /\ order.filled + x <= amount
  THEN [status |-> IF order.filled + x = amount THEN "filled" ELSE "partial", filled |-> order.filled + x]
  ELSE order

LEMMA FillIs ==
  ASSUME NEW b \in Books, NEW o \in OrderIds, NEW x \in Nat
  PROVE  /\ Fill(b, o, x) \in Books
         /\ Fill(b, o, x)[o] = FillOne(b[o], x, Terms[o].amount)
         /\ \A y \in OrderIds \ {o} : Fill(b, o, x)[y] = b[y]
<1>1. PICK order \in Orders, amount \in Nat : order = b[o] /\ amount = Terms[o].amount
  BY TermsFields DEF Books
<1>2. FillOne(order, x, amount) \in Orders
  BY DEF FillOne, Orders, BookStatus
<1>3. Fill(b, o, x) = [b EXCEPT ![o] = FillOne(order, x, amount)]
  <2>1. CASE IsActive(order) /\ order.filled + x <= amount
    BY <1>1, <2>1 DEF Fill, FillOne
  <2>2. CASE ~(IsActive(order) /\ order.filled + x <= amount)
    BY <1>1, <2>2 DEF Fill, FillOne, Books
  <2> QED BY <2>1, <2>2
<1> HIDE DEF FillOne
<1> QED BY <1>1, <1>2, <1>3 DEF Books

\* Matches of two orders.
Crossings ==
  {m \in [maker : OrderIds, taker : OrderIds, base : Nat \ {0}, quote : Nat \ {0}, price : Nat \ {0}] :
     m.maker # m.taker}

LEMMA ApplyMatchIs ==
  ASSUME NEW b \in Books, NEW m \in Crossings
  PROVE  /\ ApplyMatch(b, m) \in Books
         /\ \A o \in OrderIds :
              ApplyMatch(b, m)[o] = IF o \in {m.maker, m.taker} THEN FillOne(b[o], m.base, Terms[o].amount)
                                    ELSE b[o]
<1>1. m.maker \in OrderIds /\ m.taker \in OrderIds /\ m.maker # m.taker /\ m.base \in Nat
  BY DEF Crossings
<1>2. PICK once \in Books : once = Fill(b, m.maker, m.base)
  BY <1>1, FillIs
<1>3. /\ once[m.maker] = FillOne(b[m.maker], m.base, Terms[m.maker].amount)
      /\ \A y \in OrderIds \ {m.maker} : once[y] = b[y]
  BY <1>1, <1>2, FillIs
<1>4. PICK twice \in Books : twice = Fill(once, m.taker, m.base)
  BY <1>1, FillIs
<1>5. /\ twice[m.taker] = FillOne(once[m.taker], m.base, Terms[m.taker].amount)
      /\ \A y \in OrderIds \ {m.taker} : twice[y] = once[y]
  BY <1>1, <1>4, FillIs
<1>6. ApplyMatch(b, m) = twice
  BY <1>2, <1>4 DEF ApplyMatch
<1> QED BY <1>1, <1>3, <1>5, <1>6

\* An order before a round, and after the part of it that fills part of the
\* whole that the round fills.
OrderShown(before, after, amount, part, whole) ==
  /\ OrderFits(after, amount)
  /\ ~IsActive(before) \/ part = 0 => after = before
  /\ IsActive(before) => after.status \in {before.status, "partial", "filled"}
  /\ IsActive(before) /\ before.filled + whole <= amount => after.filled = before.filled + part

LEMMA FillShown ==
  ASSUME NEW before \in Orders, NEW after \in Orders, NEW amount \in Nat, NEW part \in Nat, NEW whole \in Nat,
         OrderShown(before, after, amount, part, whole), NEW x \in Nat \ {0}, part + x <= whole
  PROVE  OrderShown(before, FillOne(after, x, amount), amount, part + x, whole)
<1>1. PICK bf \in Nat : before.filled = bf BY DEF Orders
<1>2. PICK af \in Nat : after.filled = af BY DEF Orders
<1>3. CASE IsActive(after) /\ after.filled + x <= amount
  <2>1. PICK next : next = FillOne(after, x, amount) OBVIOUS
  <2>2. next.filled = af + x /\ next.status = (IF af + x = amount THEN "filled" ELSE "partial")
    BY <1>2, <1>3, <2>1 DEF FillOne
  <2>3. IsActive(before)
    BY <1>3 DEF OrderShown
  <2>4. OrderFits(next, amount)
    BY <1>2, <1>3, <2>2 DEF OrderFits
  <2>5. next.status \in {before.status, "partial", "filled"}
    BY <2>2
  <2>6. bf + whole <= amount => next.filled = bf + (part + x)
    BY <1>1, <1>2, <2>2, <2>3 DEF OrderShown
  <2> QED BY <1>1, <2>1, <2>3, <2>4, <2>5, <2>6 DEF OrderShown
<1>4. CASE ~(IsActive(after) /\ after.filled + x <= amount)
  <2>1. FillOne(after, x, amount) = after
    BY <1>4 DEF FillOne
  <2>2. ~(IsActive(before) /\ before.filled + whole <= amount)
    <3>1. SUFFICES ASSUME IsActive(before), bf + whole <= amount PROVE FALSE
      BY <1>1
    <3>2. af = bf + part /\ af + x <= amount /\ af < amount
      BY <1>1, <1>2, <3>1 DEF OrderShown
    <3>3. after.status \in {"pending", "partial", "filled"} /\ after.status # "filled"
      BY <1>1, <1>2, <3>1, <3>2 DEF OrderShown, OrderFits, IsActive
    <3> QED BY <1>2, <1>4, <3>2, <3>3 DEF IsActive
  <2>3. ~IsActive(before) \/ part + x = 0 => after = before
    BY DEF OrderShown
  <2> QED BY <2>1, <2>2, <2>3 DEF OrderShown
<1> QED BY <1>3, <1>4

\* The books of a round, before it and after each of its matches.
ApplyRun(after, b, ms) ==
  /\ after \in [0..Len(ms) -> Books]
  /\ after[0] = b
  /\ \A i \in 1..Len(ms) : after[i] = ApplyMatch(after[i - 1], ms[i])

ApplyEq(after, b, ms) ==
  after = [i \in 0..Len(ms) |-> IF i = 0 THEN b ELSE ApplyMatch(after[i - 1], ms[i])]

LEMMA ApplyExists ==
  ASSUME NEW b \in Books, NEW ms \in Seq(Crossings)
  PROVE  \E after : ApplyRun(after, b, ms) /\ ApplyEq(after, b, ms)
<1>1. PICK n \in Nat : n = Len(ms) OBVIOUS
<1>2. PICK step : step = [i \in 1..n |-> [x \in Books |-> ApplyMatch(x, ms[i])]]
  OBVIOUS
<1>3. step \in [1..n -> [Books -> Books]]
  <2>1. \A i \in 1..n, x \in Books : ApplyMatch(x, ms[i]) \in Books
    BY <1>1, ApplyMatchIs
  <2> QED BY <1>2, <2>1
<1>4. PICK g : Recurses(g, n, Books, b, step)
  BY <1>3, RecursionExists
<1> USE DEF Recurses
<1>5. \A i \in 1..n : g[i] = ApplyMatch(g[i - 1], ms[i])
  <2>1. ASSUME NEW i \in 1..n PROVE g[i - 1] \in Books
    <3>1. i - 1 \in 0..n OBVIOUS
    <3> QED BY <1>4, <3>1
  <2> QED BY <1>2, <1>4, <2>1
<1>6. g = [i \in 0..n |-> IF i = 0 THEN b ELSE ApplyMatch(g[i - 1], ms[i])]
  <2>1. \A i \in 0..n : i # 0 => i \in 1..n OBVIOUS
  <2> QED BY <1>4, <1>5, <2>1
<1> QED BY <1>1, <1>4, <1>5, <1>6 DEF ApplyRun, ApplyEq

LEMMA ApplyUnique ==
  ASSUME NEW b, NEW ms, Len(ms) \in Nat, NEW g, ApplyEq(g, b, ms), NEW h, ApplyEq(h, b, ms)
  PROVE  g = h
<1>1. PICK n \in Nat : n = Len(ms) OBVIOUS
<1> DEFINE Same(i) == i <= n => g[i] = h[i]
           P == {i \in Nat : Same(i)}
           After(f, i) == IF i = 0 THEN b ELSE ApplyMatch(f[i - 1], ms[i])
<1>2. g = [i \in 0..n |-> After(g, i)] /\ h = [i \in 0..n |-> After(h, i)]
  BY <1>1 DEF ApplyEq
<1>3. Same(0)
  BY <1>2
<1>4. ASSUME NEW i \in P PROVE Same(i + 1)
  <2>1. SUFFICES ASSUME i + 1 <= n PROVE g[i + 1] = h[i + 1]
    OBVIOUS
  <2>2. i + 1 \in 0..n /\ i + 1 # 0 /\ (i + 1) - 1 = i /\ g[i] = h[i]
    BY <2>1
  <2>3. After(g, i + 1) = After(h, i + 1)
    BY <2>2
  <2> HIDE DEF After
  <2> QED BY <1>2, <2>2, <2>3
<1>5. P = Nat
  <2>1. 0 \in P /\ \A i \in P : i + 1 \in P
    <3> HIDE DEF Same
    <3> QED BY <1>3, <1>4
  <2> HIDE DEF P
  <2> QED BY <2>1, AllNumbers DEF P
<1>6. \A i \in 0..n : g[i] = h[i]
  <2>1. \A i \in 0..n : i \in P BY <1>5
  <2> QED BY <2>1
<1> HIDE DEF After
<1> QED BY <1>2, <1>6

LEMMA ApplyIs ==
  ASSUME NEW b \in Books, NEW ms \in Seq(Crossings)
  PROVE  \E after : ApplyRun(after, b, ms) /\ ApplyMatches(b, ms) = after[Len(ms)]
<1>1. PICK g : ApplyRun(g, b, ms) /\ ApplyEq(g, b, ms)
  BY ApplyExists
<1> DEFINE chosen == CHOOSE after : ApplyEq(after, b, ms)
<1>2. ApplyEq(chosen, b, ms)
  BY <1>1
<1>3. chosen = g
  <2>1. Len(ms) \in Nat OBVIOUS
  <2> HIDE DEF chosen
  <2> QED BY <1>1, <1>2, <2>1, ApplyUnique
<1>4. ApplyMatches(b, ms) = chosen[Len(ms)]
  BY DEF ApplyMatches, ApplyEq
<1> QED BY <1>1, <1>3, <1>4

\* What the first i matches fill of an order.
FilledBy(ms, o, i) == SumFunctionOnSet(Shares(ms, o), 1..i)

LEMMA FilledByIs ==
  ASSUME NEW ms \in Seq(Crossings), NEW o
  PROVE  /\ FilledBy(ms, o, 0) = 0 /\ FilledBy(ms, o, Len(ms)) = FillIn(ms, o)
         /\ \A i \in 0..Len(ms) : FilledBy(ms, o, i) \in Nat /\ FilledBy(ms, o, i) <= FillIn(ms, o)
         /\ \A i \in 0..Len(ms) : i + 1 <= Len(ms) =>
              FilledBy(ms, o, i + 1) = FilledBy(ms, o, i) + Share(ms[i + 1], o)
<1>1. PICK n \in Nat : n = Len(ms) OBVIOUS
<1>2. PICK f : f = Shares(ms, o) OBVIOUS
<1>3. \A m \in Crossings : m.base \in Nat
  BY DEF Crossings
<1>4. \A i \in 1..n : f[i] \in Nat /\ f[i] = Share(ms[i], o)
  BY <1>1, <1>2, <1>3, SharesType
<1>5. SumFunctionOnSet(f, 1..n) = FillIn(ms, o)
  BY <1>1, <1>2, FillInIs
<1>6. SumFunctionOnSet(f, 1..0) = 0
  <2>1. 1..0 = {} OBVIOUS
  <2> QED BY <2>1, SumEmpty
<1>7. ASSUME NEW i \in 0..n
      PROVE  SumFunctionOnSet(f, 1..i) \in Nat /\ SumFunctionOnSet(f, 1..i) <= SumFunctionOnSet(f, 1..n)
  <2>1. IsFiniteSet(1..i)
    BY FS_Interval
  <2>2. \A x \in 1..i : f[x] \in Nat
    <3>1. \A x \in 1..i : x \in 1..n OBVIOUS
    <3> QED BY <1>4, <3>1
  <2>3. SumFunctionOnSet(f, 1..i) \in Nat
    BY <2>1, <2>2, SumNat
  <2> QED BY <1>4, <2>3, SumUpTo
<1>8. ASSUME NEW i \in 0..n, i + 1 <= n
      PROVE  SumFunctionOnSet(f, 1..(i + 1)) = SumFunctionOnSet(f, 1..i) + Share(ms[i + 1], o)
  <2>1. i + 1 \in 1..n /\ i \in Nat /\ \A x \in 1..i : x \in 1..n
    BY <1>8
  <2>2. f[i + 1] \in Int /\ f[i + 1] = Share(ms[i + 1], o) /\ IntOn(f, 1..i)
    BY <1>4, <2>1 DEF IntOn
  <2>3. SumFunctionOnSet(f, 1..(i + 1)) = SumFunctionOnSet(f, 1..i) + f[i + 1]
    BY <2>1, <2>2, SumLonger
  <2> QED BY <2>2, <2>3
<1> QED BY <1>1, <1>2, <1>5, <1>6, <1>7, <1>8 DEF FilledBy

\* Every order shows what the first i matches fill of it.
BookShown(b, a, ms, i) ==
  \A o \in OrderIds : OrderShown(b[o], a[o], Terms[o].amount, FilledBy(ms, o, i), FillIn(ms, o))

LEMMA MatchShown ==
  ASSUME NEW b \in Books, NEW a \in Books, NEW ms \in Seq(Crossings), NEW i \in 0..Len(ms), i + 1 <= Len(ms),
         BookShown(b, a, ms, i)
  PROVE  BookShown(b, ApplyMatch(a, ms[i + 1]), ms, i + 1)
<1> SUFFICES ASSUME NEW o \in OrderIds
             PROVE  OrderShown(b[o], ApplyMatch(a, ms[i + 1])[o], Terms[o].amount, FilledBy(ms, o, i + 1),
                               FillIn(ms, o))
  BY DEF BookShown
<1>1. PICK m \in Crossings : m = ms[i + 1]
  BY i + 1 \in 1..Len(ms)
<1>2. PICK before \in Orders, after \in Orders, amount \in Nat :
        before = b[o] /\ after = a[o] /\ amount = Terms[o].amount
  BY TermsFields DEF Books
<1>3. PICK part \in Nat, next \in Nat, whole \in Nat :
        /\ part = FilledBy(ms, o, i) /\ next = FilledBy(ms, o, i + 1) /\ whole = FillIn(ms, o)
        /\ next <= whole /\ next = part + Share(m, o)
  <2>1. i + 1 \in 0..Len(ms) /\ Len(ms) \in 0..Len(ms)
    OBVIOUS
  <2>2. FillIn(ms, o) \in Nat
    BY <2>1, FilledByIs
  <2> QED BY <1>1, <2>1, <2>2, FilledByIs
<1>4. OrderShown(before, after, amount, part, whole)
  BY <1>2, <1>3 DEF BookShown
<1>5. CASE o \in {m.maker, m.taker}
  <2>1. m.base \in Nat \ {0} /\ Share(m, o) = m.base
    BY <1>5 DEF Crossings, Share
  <2>2. ApplyMatch(a, m)[o] = FillOne(after, m.base, amount)
    BY <1>2, <1>5, ApplyMatchIs
  <2>3. OrderShown(before, FillOne(after, m.base, amount), amount, part + m.base, whole)
    BY <1>3, <1>4, <2>1, FillShown
  <2> QED BY <1>1, <1>2, <1>3, <2>1, <2>2, <2>3
<1>6. CASE o \notin {m.maker, m.taker}
  <2>1. Share(m, o) = 0 /\ ApplyMatch(a, m)[o] = after
    BY <1>2, <1>6, ApplyMatchIs DEF Share
  <2> QED BY <1>1, <1>2, <1>3, <1>4, <2>1
<1> QED BY <1>5, <1>6

\* After a round every order shows what the round fills of it, if that fits
\* what the order had left, and an order that was not active is as it was.
LEMMA RoundShown ==
  ASSUME NEW b \in Books, NEW ms \in Seq(Crossings), \A o \in OrderIds : OrderFits(b[o], Terms[o].amount)
  PROVE  /\ ApplyMatches(b, ms) \in Books
         /\ \A o \in OrderIds : /\ FillIn(ms, o) \in Nat
                                /\ OrderShown(b[o], ApplyMatches(b, ms)[o], Terms[o].amount, FillIn(ms, o),
                                              FillIn(ms, o))
<1>1. PICK n \in Nat : n = Len(ms) OBVIOUS
<1>2. PICK after : ApplyRun(after, b, ms) /\ ApplyMatches(b, ms) = after[n]
  BY <1>1, ApplyIs
<1> DEFINE Shown(i) == i <= n => BookShown(b, after[i], ms, i)
           P == {i \in Nat : Shown(i)}
<1>3. Shown(0)
  <2>1. after[0] = b
    BY <1>2 DEF ApplyRun
  <2>2. ASSUME NEW o \in OrderIds
        PROVE  OrderShown(b[o], b[o], Terms[o].amount, 0, FillIn(ms, o))
    <3>1. b[o].filled + 0 = b[o].filled
      BY DEF Books, Orders
    <3> QED BY <3>1 DEF OrderShown
  <2>3. \A o \in OrderIds : FilledBy(ms, o, 0) = 0
    BY FilledByIs
  <2> QED BY <2>1, <2>2, <2>3 DEF BookShown
<1>4. ASSUME NEW i \in P PROVE Shown(i + 1)
  <2>1. SUFFICES ASSUME i + 1 <= n PROVE BookShown(b, after[i + 1], ms, i + 1)
    OBVIOUS
  <2>2. i + 1 \in 1..n /\ (i + 1) - 1 = i /\ i \in 0..n /\ BookShown(b, after[i], ms, i)
    BY <2>1
  <2>3. after[i] \in Books /\ after[i + 1] = ApplyMatch(after[i], ms[i + 1])
    BY <1>1, <1>2, <2>2 DEF ApplyRun
  <2> QED BY <1>1, <2>1, <2>2, <2>3, MatchShown
<1>5. P = Nat
  <2>1. 0 \in P /\ \A i \in P : i + 1 \in P
    <3> HIDE DEF Shown
    <3> QED BY <1>3, <1>4
  <2> HIDE DEF P
  <2> QED BY <2>1, AllNumbers DEF P
<1>6. BookShown(b, after[n], ms, n)
  BY <1>5
<1>7. after[n] \in Books
  BY <1>1, <1>2 DEF ApplyRun
<1>8. \A o \in OrderIds : FilledBy(ms, o, n) = FillIn(ms, o) /\ FilledBy(ms, o, n) \in Nat
  BY <1>1, FilledByIs
<1> QED BY <1>2, <1>6, <1>7, <1>8 DEF BookShown

(***************************************************************************)
(* Types, pair locks and copies.                                           *)
(***************************************************************************)

Waits(c) == \E i \in DOMAIN pairQueue[cycle[c].pair] : pairQueue[cycle[c].pair][i] = c

Leads(c) == pairQueue[cycle[c].pair] # << >> /\ HoldsPairLock(c)

\* Who waits is in the queue of its pair; who runs a round is first in it.
QueuesOK == \A c \in Cycles : (cycle[c].pc = "waiting" => Waits(c)) /\ (InRound(c) => Leads(c))

BookFits == \A o \in OrderIds : OrderFits(book[o], Terms[o].amount)

CopyOf(order, terms) ==
  /\ order.side = terms.side /\ order.wallet = terms.wallet
  /\ order.limit = terms.limit /\ order.amount = terms.amount
  /\ order.filled <= order.amount

\* What a round holds of an order.
CopyOK(r, o) == Terms[o].pair = r.pair /\ CopyOf(r.snap[o], Terms[o])

SnapsOK == \A c \in Cycles : InRound(c) => \A o \in DOMAIN cycle[c].snap : CopyOK(cycle[c], o)

\* A match honours the terms of its two orders.
MatchOK(m) ==
  /\ Terms[m.maker].side = "sell" /\ Terms[m.taker].side = "buy"
  /\ Terms[m.maker].pair = Terms[m.taker].pair
  /\ Terms[m.maker].wallet # Terms[m.taker].wallet
  /\ Terms[m.maker].limit <= m.price /\ m.price <= Terms[m.taker].limit
  /\ m.quote = m.base * m.price

MatchesOK == \A i \in DOMAIN matches : MatchOK(matches[i])

\* The swaps of a pair.
SwapsOf(pair) == {i \in DOMAIN matches : Terms[matches[i].maker].pair = pair}

\* The swaps of a round that is being submitted are swaps of its pair.
RoundsListed == \A c \in Cycles : cycle[c].pc = "submitting" => cycle[c].round \subseteq SwapsOf(cycle[c].pair)

Base == TypeOK /\ QueuesOK /\ BookFits /\ SnapsOK /\ MatchesOK /\ RoundsListed

\* The orders of a round are active orders of its pair.
LEMMA RoundIsActive ==
  ASSUME NEW pair
  PROVE  LET round == RoundOrders(pair)
         IN \A o \in round.buys \union round.sells :
              o \in OrderIds /\ Terms[o].pair = pair /\ IsActive(book[o])
<1>1. /\ RoundOrders(pair).buys \subseteq ActiveOrders(pair, "buy")
      /\ RoundOrders(pair).sells \subseteq ActiveOrders(pair, "sell")
  BY FilterSelects DEF RoundOrders
<1> QED BY <1>1 DEF ActiveOrders

\* A round's orders are as the validator needs them.
LEMMA SnapIsOK ==
  ASSUME Base, NEW c \in Cycles, InRound(c)
  PROVE  SnapOK(cycle[c].snap)
<1>1. IsRound(cycle[c])
  BY CycleFields DEF Base
<1>2. ASSUME NEW o \in DOMAIN cycle[c].snap
      PROVE  /\ cycle[c].snap[o].limit \in Nat \ {0} /\ cycle[c].snap[o].amount \in Nat
             /\ cycle[c].snap[o].filled \in Nat /\ cycle[c].snap[o].filled <= cycle[c].snap[o].amount
  <2>1. cycle[c].snap[o] \in SnapOrders
    BY <1>1 DEF IsRound
  <2>2. cycle[c].snap[o].filled <= cycle[c].snap[o].amount
    BY DEF Base, SnapsOK, CopyOK, CopyOf
  <2> QED BY <2>1, <2>2 DEF SnapOrders, Amounts
<1> QED BY <1>2 DEF SnapOK

\* What a round applies honours its copies and fits what they have left.
LEMMA RoundApplies ==
  ASSUME Base, NEW c \in Cycles, InRound(c), NEW applied \in RoundResults(c)
  PROVE  /\ applied \in Seq(MatchesOf(cycle[c].snap))
         /\ \A o \in DOMAIN cycle[c].snap : FillIn(applied, o) <= Room(cycle[c].snap[o])
<1>1. PICK raws \in RawRounds : applied = Applied(Validate(raws, cycle[c].snap, cycle[c].fair, prevFair))
  BY DEF RoundResults
<1>2. RawsOK(raws)
  <2>1. PICK n \in 0..MaxMatches : raws \in [1..n -> RawMatch]
    BY DEF RawRounds
  <2>2. n \in Nat /\ raws \in Seq(RawMatch)
    BY <2>1, BoundAssumption, SeqDef
  <2>3. DOMAIN raws = 1..Len(raws) /\ Len(raws) \in Nat
    BY <2>2, LenProperties
  <2>4. \A i \in 1..Len(raws) : raws[i] \in RawMatch
    BY <2>2
  <2>5. \A r \in RawMatch : r.fill \in Nat /\ r.price \in Nat
    <3>1. 1..MaxFill \subseteq Nat /\ RawPrices \subseteq Nat
      BY PriceAssumption, BoundAssumption
    <3> QED BY <3>1 DEF RawMatch
  <2> QED BY <2>3, <2>4, <2>5 DEF RawsOK, RawOK
<1>3. SnapOK(cycle[c].snap)
  BY SnapIsOK
<1>4. cycle[c].fair \in Nat
  <2>1. cycle[c].fair \in Prices
    BY CycleFields, RoundFields DEF Base
  <2> QED BY <2>1, PriceAssumption DEF Prices
<1>5. PICK accepted : accepted = Validate(raws, cycle[c].snap, cycle[c].fair, prevFair).accepted
  OBVIOUS
<1>6. /\ accepted \in Seq(MatchesOf(cycle[c].snap))
      /\ \A o \in DOMAIN cycle[c].snap : FillIn(accepted, o) <= Room(cycle[c].snap[o])
  BY <1>2, <1>3, <1>4, <1>5, AcceptedFit
<1>7. CASE applied = accepted
  BY <1>6, <1>7
<1>8. CASE applied = << >>
  <2>1. \A o \in DOMAIN cycle[c].snap : 0 <= Room(cycle[c].snap[o])
    BY <1>3 DEF SnapOK, Room
  <2> QED BY <1>8, <2>1, FillInEmpty
<1> QED BY <1>1, <1>5, <1>7, <1>8 DEF Applied

\* In terms of the book: its matches cross two of its orders.
LEMMA AppliedCross ==
  ASSUME Base, NEW c \in Cycles, InRound(c), NEW applied \in RoundResults(c)
  PROVE  applied \in Seq(Crossings)
<1>1. PICK snap : snap = cycle[c].snap
  OBVIOUS
<1>2. DOMAIN snap \subseteq OrderIds
  BY <1>1, CycleFields DEF Base, IsRound
<1>3. \A m \in MatchesOf(snap) : m \in Crossings
  <2> SUFFICES ASSUME NEW m \in MatchesOf(snap) PROVE m \in Crossings
    OBVIOUS
  <2>1. m.maker # m.taker
    BY DEF MatchesOf, Honours
  <2> QED BY <1>2, <2>1 DEF MatchesOf, Crossings
<1>4. applied \in Seq(MatchesOf(snap))
  BY <1>1, RoundApplies
<1> QED BY <1>3, <1>4

\* The matches a round adds, as the history keeps them.
Kept(ms) ==
  [i \in DOMAIN ms |-> [maker |-> ms[i].maker, taker |-> ms[i].taker, base |-> ms[i].base,
                        quote |-> ms[i].quote, price |-> ms[i].price, tx |-> "new"]]

LEMMA KeptIs ==
  ASSUME NEW ms \in Seq(Crossings), matches \in Seq(Matches), matches' = matches \o Kept(ms)
  PROVE  /\ Len(matches') = Len(matches) + Len(ms) /\ Len(matches) \in Nat /\ Len(ms) \in Nat
         /\ DOMAIN matches = 1..Len(matches) /\ DOMAIN matches' = 1..(Len(matches) + Len(ms))
         /\ DOMAIN ms = 1..Len(ms)
         /\ \A i \in 1..Len(matches) : matches'[i] = matches[i]
         /\ \A i \in 1..Len(ms) : matches'[Len(matches) + i] = Kept(ms)[i]
         /\ matches' \in Seq(Matches)
<1>1. PICK n \in Nat : n = Len(ms) /\ DOMAIN ms = 1..n
  OBVIOUS
<1>2. PICK h : h = Kept(ms)
  OBVIOUS
<1>3. \A i \in 1..n : h[i] \in Matches
  <2> SUFFICES ASSUME NEW i \in 1..n PROVE h[i] \in Matches
    OBVIOUS
  <2>1. PICK m \in Crossings : m = ms[i]
    BY <1>1
  <2>2. h[i] = [maker |-> m.maker, taker |-> m.taker, base |-> m.base, quote |-> m.quote, price |-> m.price,
                tx |-> "new"]
    BY <1>1, <1>2, <2>1 DEF Kept
  <2> QED BY <2>2 DEF Crossings, Matches, Amounts
<1>4. DOMAIN h = 1..n /\ h = [i \in 1..n |-> h[i]]
  BY <1>1, <1>2 DEF Kept
<1>5. h \in [1..n -> Matches]
  BY <1>3, <1>4
<1>6. h \in Seq(Matches)
  BY <1>5, SeqDef
<1>7. Len(h) = n
  BY <1>4, <1>6, LenProperties
<1>8. matches' = matches \o h
  BY <1>2
<1>9. /\ matches' \in Seq(Matches) /\ Len(matches') = Len(matches) + n
      /\ Len(matches) \in Nat /\ DOMAIN matches = 1..Len(matches) /\ DOMAIN matches' = 1..Len(matches')
  BY <1>6, <1>7, <1>8, ConcatProperties, LenProperties
<1>10. \A i \in 1..Len(matches) : matches'[i] = matches[i]
  BY <1>6, <1>7, <1>8, <1>9
<1>11. \A i \in 1..n : matches'[Len(matches) + i] = h[i]
  BY <1>6, <1>7, <1>8, <1>9
<1> QED BY <1>1, <1>2, <1>9, <1>10, <1>11

LEMMA BookTyped ==
  ASSUME TypeOK
  PROVE  book \in Books
BY DEF TypeOK, Books, Orders

\* The round's state after its matches are applied, sent or reported.
Moved(r, n, ids, queue) ==
  \/ n = [r EXCEPT !.pc = "submitting", !.queue = queue, !.round = ids]
  \/ n = [r EXCEPT !.queue = queue]
  \/ n = [r EXCEPT !.pc = "reporting"]

LEMMA RoundMoves ==
  ASSUME NEW r, IsRound(r), NEW ids \in SUBSET Nat, NEW queue \in Seq(Nat), NEW n, Moved(r, n, ids, queue)
  PROVE  IsRound(n) /\ n.snap = r.snap /\ n.pair = r.pair /\ n.fair = r.fair
<1>1. r \in [pc : {"matching", "submitting", "reporting"}, pair : Pairs, snap : {r.snap}, fair : Prices,
             round : SUBSET Nat, queue : Seq(Nat)]
  BY DEF IsRound
<1>2. CASE n = [r EXCEPT !.pc = "submitting", !.queue = queue, !.round = ids]
  BY <1>1, <1>2 DEF IsRound
<1>3. CASE n = [r EXCEPT !.queue = queue]
  BY <1>1, <1>3 DEF IsRound
<1>4. CASE n = [r EXCEPT !.pc = "reporting"]
  BY <1>1, <1>4 DEF IsRound
<1> QED BY <1>2, <1>3, <1>4 DEF Moved

\* A step that leaves the queues alone, and the rounds in them.
Waiting(c) == cycle[c].pc = "waiting"

LEMMA LeaveKeepsQueues ==
  ASSUME TypeOK, QueuesOK, NEW c \in Cycles, Waiting(c) \/ InRound(c), HoldsPairLock(c), Leave(c)
  PROVE  /\ pairQueue' \in [Pairs -> Seq(Cycles)]
         /\ DOMAIN cycle' = Cycles /\ \A d \in Cycles : IsCycle(cycle[d]')
         /\ QueuesOK'
<1>1. PICK pair \in Pairs : pair = cycle[c].pair
  BY CycleFields DEF Waiting
<1>2. PICK queue \in Seq(Cycles) : queue = pairQueue[pair]
  BY DEF TypeOK
<1>3. queue # << >> /\ Head(queue) = c
  BY <1>1, <1>2 DEF QueuesOK, Waiting, Waits, Leads, HoldsPairLock
<1>4. /\ Tail(queue) \in Seq(Cycles) /\ queue[1] = c
      /\ \A i \in DOMAIN queue : i # 1 => i - 1 \in DOMAIN Tail(queue) /\ Tail(queue)[i - 1] = queue[i]
  BY <1>3
<1>5. /\ pairQueue' \in [Pairs -> Seq(Cycles)] /\ pairQueue'[pair] = Tail(queue)
      /\ \A p \in Pairs \ {pair} : pairQueue'[p] = pairQueue[p]
  BY <1>1, <1>2, <1>4 DEF Leave, TypeOK
<1>6. /\ DOMAIN cycle' = Cycles /\ cycle'[c] = Idle /\ \A d \in Cycles \ {c} : cycle'[d] = cycle[d]
  BY DEF Leave, TypeOK
<1>7. \A d \in Cycles : IsCycle(cycle'[d])
  BY <1>6, CycleFields DEF IsCycle
<1>8. ASSUME NEW d \in Cycles
      PROVE  (cycle[d].pc = "waiting")' => Waits(d)'
  <2>1. SUFFICES ASSUME cycle'[d].pc = "waiting"
                 PROVE  \E i \in DOMAIN pairQueue'[cycle'[d].pair] : pairQueue'[cycle'[d].pair][i] = d
    BY DEF Waits
  <2>2. d # c /\ cycle'[d] = cycle[d]
    BY <1>6, <2>1 DEF Idle
  <2>3. cycle[d].pair \in Pairs /\ Waits(d)
    BY <2>1, <2>2, CycleFields DEF QueuesOK
  <2>4. CASE cycle[d].pair = pair
    <3>1. PICK i \in DOMAIN queue : queue[i] = d
      BY <1>2, <2>3, <2>4 DEF Waits
    <3>2. i # 1
      BY <1>4, <2>2, <3>1
    <3>3. i - 1 \in DOMAIN Tail(queue) /\ Tail(queue)[i - 1] = d
      BY <1>4, <3>1, <3>2
    <3> QED BY <1>5, <2>2, <2>4, <3>3
  <2>5. CASE cycle[d].pair # pair
    BY <1>5, <2>2, <2>3, <2>5 DEF Waits
  <2> QED BY <2>4, <2>5
<1>9. ASSUME NEW d \in Cycles
      PROVE  InRound(d)' => Leads(d)'
  <2>1. SUFFICES ASSUME InRound(d)' PROVE pairQueue'[cycle'[d].pair] # << >> /\ Head(pairQueue'[cycle'[d].pair]) = d
    BY DEF Leads, HoldsPairLock
  <2>2. d # c /\ cycle'[d] = cycle[d]
    BY <1>6, <2>1 DEF Idle, InRound
  <2>3. InRound(d)
    BY <2>1, <2>2 DEF InRound
  <2>4. cycle[d].pair \in Pairs /\ Leads(d)
    BY <2>3, CycleFields DEF QueuesOK
  <2>5. cycle[d].pair # pair
    BY <1>2, <1>3, <2>2, <2>4 DEF Leads, HoldsPairLock
  <2> QED BY <1>5, <2>2, <2>4, <2>5 DEF Leads, HoldsPairLock
<1> QED BY <1>5, <1>6, <1>7, <1>8, <1>9 DEF QueuesOK

Cycling == DOMAIN cycle = Cycles /\ \A c \in Cycles : IsCycle(cycle[c])

Rounds == pairQueue \in [Pairs -> Seq(Cycles)] /\ Cycling /\ QueuesOK /\ SnapsOK

\* A cycle stays in its round and keeps its orders.
LEMMA RoundGoesOn ==
  ASSUME Base, NEW c \in Cycles, InRound(c),
         NEW r, IsRound(r), r.snap = cycle[c].snap, r.pair = cycle[c].pair,
         cycle' = [cycle EXCEPT ![c] = r], pairQueue' = pairQueue
  PROVE  Rounds'
<1>1. DOMAIN cycle' = Cycles /\ cycle'[c] = r /\ \A d \in Cycles \ {c} : cycle'[d] = cycle[d]
  BY DEF Base, TypeOK
<1>2. Cycling'
  BY <1>1, CycleFields DEF Base, Cycling, IsCycle
<1>3. InRound(c)' /\ cycle'[c].pc # "waiting"
  BY <1>1, RoundFields DEF InRound
<1>4. \A d \in Cycles : InRound(d)' <=> InRound(d)
  BY <1>1, <1>3 DEF InRound
<1>5. \A d \in Cycles : (cycle'[d].pc = "waiting" => cycle[d].pc = "waiting") /\ cycle'[d].pair = cycle[d].pair
  BY <1>1, <1>3
<1>6. QueuesOK'
  BY <1>4, <1>5 DEF Base, QueuesOK, Waits, Leads, HoldsPairLock
<1>7. SnapsOK'
  BY <1>1, <1>4 DEF Base, SnapsOK, CopyOK
<1> QED BY <1>2, <1>6, <1>7 DEF Base, TypeOK, Rounds

\* The states of the cycles that a round's actions set.
LEMMA RoundsMove ==
  ASSUME Base, NEW c \in Cycles, InRound(c)
  PROVE  /\ \A applied \in RoundResults(c) : ApplyRound(c, applied) => Rounds'
         /\ \A tx : Submit(c, tx) => Rounds'
         /\ ReportOutcomes(c) => Rounds'
<1>1. PICK r : r = cycle[c] /\ IsRound(r)
  BY CycleFields DEF Base
<1>2. ASSUME NEW ids \in SUBSET Nat, NEW queue \in Seq(Nat), NEW n, Moved(r, n, ids, queue),
             pairQueue' = pairQueue, cycle' = [cycle EXCEPT ![c] = n]
      PROVE  Rounds'
  <2>1. IsRound(n) /\ n.snap = r.snap /\ n.pair = r.pair
    BY <1>1, <1>2, RoundMoves
  <2> QED BY <1>1, <1>2, <2>1, RoundGoesOn
<1>3. ASSUME NEW applied \in RoundResults(c), ApplyRound(c, applied) PROVE Rounds'
  <2>1. applied \in Seq(Crossings) /\ Len(matches) \in Nat
    BY AppliedCross DEF Base, TypeOK
  <2>2. PICK n \in Nat : n = Len(applied) /\ DOMAIN applied = 1..n
    BY <2>1
  <2>3. PICK queue : queue = [i \in 1..n |-> Len(matches) + i]
    OBVIOUS
  <2>4. queue \in [1..n -> Nat]
    BY <2>1, <2>3
  <2>5. queue \in Seq(Nat)
    BY <2>4, SeqDef
  <2>6. PICK ids : ids = {queue[i] : i \in 1..n}
    OBVIOUS
  <2>7. ids \in SUBSET Nat
    BY <2>4, <2>6
  <2>8. cycle' = [cycle EXCEPT ![c] = [r EXCEPT !.pc = "submitting", !.queue = queue, !.round = ids]]
    BY <1>1, <1>3, <2>2, <2>3, <2>6 DEF ApplyRound
  <2> QED BY <1>2, <1>3, <2>5, <2>7, <2>8 DEF ApplyRound, Moved
<1>4. ASSUME NEW tx, Submit(c, tx) PROVE Rounds'
  <2>1. PICK queue \in Seq(Nat) : queue = Tail(r.queue)
    <3>1. r.queue \in Seq(Nat) /\ r.queue # << >>
      BY <1>1, <1>4, RoundFields DEF Submit
    <3>2. Tail(r.queue) \in Seq(Nat)
      BY <3>1
    <3> QED BY <3>2
  <2>2. cycle' = [cycle EXCEPT ![c] = [r EXCEPT !.queue = queue]]
    BY <1>1, <1>4, <2>1 DEF Submit
  <2> QED BY <1>2, <1>4, <2>2 DEF Submit, Moved
<1>5. ASSUME ReportOutcomes(c) PROVE Rounds'
  <2>1. cycle' = [cycle EXCEPT ![c] = [r EXCEPT !.pc = "reporting"]]
    BY <1>1, <1>5 DEF ReportOutcomes
  <2>2. {} \in SUBSET Nat /\ << >> \in Seq(Nat) OBVIOUS
  <2> QED BY <1>2, <1>5, <2>1, <2>2 DEF ReportOutcomes, Moved
<1> QED BY <1>3, <1>4, <1>5

LEMMA RoundStarts ==
  ASSUME Base, NEW c \in Cycles, NEW pair \in Pairs, StartCycle(c, pair)
  PROVE  Rounds'
<1>1. PICK queue \in Seq(Cycles) : queue = pairQueue[pair]
  BY DEF Base, TypeOK
<1>2. /\ pairQueue' \in [Pairs -> Seq(Cycles)] /\ pairQueue'[pair] = Append(queue, c)
      /\ \A p \in Pairs \ {pair} : pairQueue'[p] = pairQueue[p]
  BY <1>1 DEF StartCycle, Base, TypeOK
<1>3. /\ DOMAIN cycle' = Cycles /\ cycle'[c] = [pc |-> "waiting", pair |-> pair]
      /\ \A d \in Cycles \ {c} : cycle'[d] = cycle[d]
  BY DEF StartCycle, Base, TypeOK
<1>4. Cycling'
  BY <1>3, CycleFields DEF Base, Cycling, IsCycle
<1>5. ASSUME NEW d \in Cycles PROVE (cycle[d].pc = "waiting")' => Waits(d)'
  <2>1. SUFFICES ASSUME cycle'[d].pc = "waiting"
                 PROVE  \E i \in DOMAIN pairQueue'[cycle'[d].pair] : pairQueue'[cycle'[d].pair][i] = d
    BY DEF Waits
  <2>2. CASE d = c
    <3>1. Len(queue) + 1 \in DOMAIN Append(queue, c) /\ Append(queue, c)[Len(queue) + 1] = c
      OBVIOUS
    <3> QED BY <1>2, <1>3, <2>2, <3>1
  <2>3. CASE d # c
    <3>1. cycle'[d] = cycle[d] /\ cycle[d].pair \in Pairs /\ Waits(d)
      BY <1>3, <2>1, <2>3, CycleFields DEF Base, QueuesOK
    <3>2. CASE cycle[d].pair = pair
      <4>1. PICK i \in DOMAIN queue : queue[i] = d
        BY <1>1, <3>1, <3>2 DEF Waits
      <4>2. i \in DOMAIN Append(queue, c) /\ Append(queue, c)[i] = d
        BY <4>1
      <4> QED BY <1>2, <3>1, <3>2, <4>2
    <3>3. CASE cycle[d].pair # pair
      BY <1>2, <3>1, <3>3 DEF Waits
    <3> QED BY <3>2, <3>3
  <2> QED BY <2>2, <2>3
<1>6. \A d \in Cycles : InRound(d)' => d # c /\ InRound(d) /\ cycle'[d] = cycle[d]
  BY <1>3 DEF InRound
<1>7. ASSUME NEW d \in Cycles PROVE InRound(d)' => Leads(d)'
  <2>1. SUFFICES ASSUME InRound(d)' PROVE pairQueue'[cycle'[d].pair] # << >> /\ Head(pairQueue'[cycle'[d].pair]) = d
    BY DEF Leads, HoldsPairLock
  <2>2. cycle'[d] = cycle[d] /\ cycle[d].pair \in Pairs /\ Leads(d)
    BY <1>6, <2>1, CycleFields DEF Base, QueuesOK
  <2>3. CASE cycle[d].pair = pair
    <3>1. queue # << >> /\ Head(queue) = d
      BY <1>1, <2>2, <2>3 DEF Leads, HoldsPairLock
    <3>2. Append(queue, c) # << >> /\ Head(Append(queue, c)) = d
      BY <3>1
    <3> QED BY <1>2, <2>2, <2>3, <3>2
  <2>4. CASE cycle[d].pair # pair
    BY <1>2, <2>2, <2>4 DEF Leads, HoldsPairLock
  <2> QED BY <2>3, <2>4
<1>8. SnapsOK'
  BY <1>6 DEF Base, SnapsOK, CopyOK
<1> QED BY <1>2, <1>4, <1>5, <1>7, <1>8 DEF Rounds, QueuesOK

LEMMA RoundLeaves ==
  ASSUME Base, NEW c \in Cycles, Waiting(c) \/ InRound(c), HoldsPairLock(c), Leave(c)
  PROVE  Rounds'
<1>1. \A d \in Cycles : InRound(d)' => InRound(d) /\ cycle'[d] = cycle[d]
  BY DEF Leave, Base, TypeOK, InRound, Idle
<1>2. SnapsOK'
  BY <1>1 DEF Base, SnapsOK, CopyOK
<1> QED BY <1>2, LeaveKeepsQueues DEF Base, Rounds, Cycling

\* The state of a cycle that has locked its orders.
NewRound(c, fair) ==
  LET round == RoundOrders(cycle[c].pair)
  IN [pc |-> "matching", pair |-> cycle[c].pair, snap |-> Snapshot(round.buys \union round.sells), fair |-> fair,
      round |-> {}, queue |-> << >>]

LEMMA LockIs ==
  ASSUME Base, NEW c \in Cycles, cycle[c].pc = "waiting", NEW fair \in FairPrices[cycle[c].pair],
         LockRound(c, fair)
  PROVE  /\ cycle' = [cycle EXCEPT ![c] = NewRound(c, fair)]
         /\ IsRound(NewRound(c, fair)) /\ Leads(c)
         /\ lockedIds' = lockedIds \union DOMAIN NewRound(c, fair).snap
         /\ \A o \in DOMAIN NewRound(c, fair).snap :
              /\ o \in OrderIds /\ CopyOK(NewRound(c, fair), o)
              /\ IsActive(book[o]) /\ NewRound(c, fair).snap[o].filled = book[o].filled
<1>1. PICK pair \in Pairs : pair = cycle[c].pair
  BY CycleFields DEF Base
<1>2. PICK ids : ids = RoundOrders(pair).buys \union RoundOrders(pair).sells
  OBVIOUS
<1>3. PICK r : r = NewRound(c, fair)
  OBVIOUS
<1>4. r = [pc |-> "matching", pair |-> pair, snap |-> Snapshot(ids), fair |-> fair, round |-> {}, queue |-> << >>]
  BY <1>1, <1>2, <1>3 DEF NewRound
<1>5. \A o \in ids : o \in OrderIds /\ Terms[o].pair = pair /\ IsActive(book[o])
  BY <1>2, RoundIsActive
<1>6. DOMAIN Snapshot(ids) = ids
  BY DEF Snapshot
<1>7. ASSUME NEW o \in ids
      PROVE  /\ Snapshot(ids)[o] \in SnapOrders /\ CopyOf(Snapshot(ids)[o], Terms[o])
             /\ Snapshot(ids)[o].filled = book[o].filled
  <2>1. o \in OrderIds
    BY <1>5
  <2>2. /\ Terms[o].side \in {"buy", "sell"} /\ Terms[o].wallet \in Nat
        /\ Terms[o].amount \in Nat \ {0} /\ Terms[o].limit \in Nat \ {0}
    BY <2>1, TermsFields
  <2>3. book[o].filled \in Nat /\ book[o].filled <= Terms[o].amount
    BY <2>1 DEF Base, TypeOK, BookFits, OrderFits
  <2>4. Snapshot(ids)[o] =
          [side |-> Terms[o].side, wallet |-> Terms[o].wallet, limit |-> Terms[o].limit,
           amount |-> Terms[o].amount, filled |-> book[o].filled]
    BY DEF Snapshot
  <2> QED BY <2>2, <2>3, <2>4 DEF SnapOrders, Amounts, CopyOf
<1>8. IsRound(r)
  <2>1. fair \in Prices
    BY <1>1 DEF Prices
  <2>2. Snapshot(ids) \in [ids -> SnapOrders] /\ ids \subseteq OrderIds
    <3>1. Snapshot(ids) = [o \in ids |-> Snapshot(ids)[o]]
      BY DEF Snapshot
    <3>2. \A o \in ids : Snapshot(ids)[o] \in SnapOrders
      BY <1>7
    <3> HIDE DEF Snapshot
    <3> QED BY <1>5, <3>1, <3>2
  <2>3. r.snap = Snapshot(ids)
    BY <1>4
  <2>4. r \in [pc : {"matching", "submitting", "reporting"}, pair : Pairs, snap : {r.snap}, fair : Prices,
               round : SUBSET Nat, queue : Seq(Nat)]
    BY <1>4, <2>1
  <2> QED BY <1>6, <2>2, <2>3, <2>4 DEF IsRound
<1>9. \A o \in DOMAIN r.snap : /\ o \in OrderIds /\ CopyOK(r, o)
                               /\ IsActive(book[o]) /\ r.snap[o].filled = book[o].filled
  BY <1>4, <1>5, <1>6, <1>7 DEF CopyOK
<1>10. cycle' = [cycle EXCEPT ![c] = r] /\ lockedIds' = lockedIds \union DOMAIN r.snap
  BY <1>1, <1>2, <1>3, <1>4, <1>6 DEF LockRound, NewRound
<1>11. Leads(c)
  BY <1>1 DEF LockRound, At, Base, QueuesOK, Waits, Leads
<1> QED BY <1>3, <1>8, <1>9, <1>10, <1>11

LEMMA RoundLocks ==
  ASSUME Base, NEW c \in Cycles, cycle[c].pc = "waiting", NEW fair \in FairPrices[cycle[c].pair],
         LockRound(c, fair)
  PROVE  Rounds'
<1>1. PICK r : r = NewRound(c, fair)
  OBVIOUS
<1>7. r.pair = cycle[c].pair /\ r.pc = "matching"
  BY <1>1 DEF NewRound
<1>2. /\ cycle' = [cycle EXCEPT ![c] = r] /\ IsRound(r) /\ Leads(c)
      /\ \A o \in DOMAIN r.snap : CopyOK(r, o)
  BY <1>1, LockIs
<1>3. /\ pairQueue' = pairQueue /\ DOMAIN cycle' = Cycles /\ cycle'[c] = r
      /\ \A d \in Cycles \ {c} : cycle'[d] = cycle[d]
  BY <1>2 DEF LockRound, Base, TypeOK
<1>4. Cycling'
  BY <1>2, <1>3, CycleFields DEF Base, Cycling, IsCycle
<1>5. QueuesOK'
  BY <1>7, <1>2, <1>3 DEF Base, QueuesOK, Waits, Leads, HoldsPairLock, InRound
<1>6. SnapsOK'
  BY <1>2, <1>3 DEF Base, SnapsOK, CopyOK, InRound
<1> QED BY <1>3, <1>4, <1>5, <1>6 DEF Rounds, Base, TypeOK

\* Every step leaves the queues, the cycles and the copies as they should be.
LEMMA RoundsStep ==
  ASSUME Base, [Next]_vars
  PROVE  Rounds'
<1>1. CASE UNCHANGED <<pairQueue, cycle>>
  <2>1. pairQueue' = pairQueue /\ cycle' = cycle
    BY <1>1
  <2> QED BY <2>1, CycleFields DEF Base, TypeOK, Rounds, Cycling, QueuesOK, SnapsOK, Waits, Leads, HoldsPairLock, InRound, CopyOK
<1>2. CASE \E c \in Cycles, pair \in Pairs : StartCycle(c, pair)
  BY <1>2, RoundStarts
<1>3. CASE \E c \in Cycles : GivesUp(c)
  BY <1>3, RoundLeaves DEF GivesUp, At, Waiting
<1>4. CASE \E c \in Cycles : cycle[c].pc = "waiting" /\ \E fair \in FairPrices[cycle[c].pair] : LockRound(c, fair)
  BY <1>4, RoundLocks
<1>5. CASE \E c \in Cycles : EndsRound(c)
  BY <1>5, RoundLeaves DEF EndsRound, LeaveUnlocking
<1>6. CASE \E c \in Cycles : \E applied \in RoundResults(c) : ApplyRound(c, applied)
  BY <1>6, RoundsMove DEF ApplyRound, At, InRound
<1>7. CASE \E c \in Cycles, tx \in {"pending", "refused"} : Submit(c, tx)
  BY <1>7, RoundsMove DEF Submit, At, InRound
<1>8. CASE \E c \in Cycles : ReportOutcomes(c)
  BY <1>8, RoundsMove DEF ReportOutcomes, At, InRound
<1>9. CASE Restart
  <2>1. pairQueue' = [p \in Pairs |-> << >>] /\ cycle' = [c \in Cycles |-> Idle]
    BY <1>9 DEF Restart
  <2>2. \A c \in Cycles : cycle'[c].pc = "idle" /\ cycle'[c] = Idle
    BY <2>1 DEF Idle
  <2> QED BY <2>1, <2>2 DEF Rounds, Cycling, IsCycle, QueuesOK, SnapsOK, InRound
<1>10. CASE \E o \in OrderIds : Lists(o) \/ Cancels(o) \/ Deposit(o) \/ Withdraws(o)
  BY <1>1, <1>10 DEF Lists, Cancels, BookOnly, Deposit, Withdraws, engineVars
<1>11. CASE \E i \in DOMAIN matches : MineSwap(i) \/ RevertSwap(i)
  BY <1>1, <1>11 DEF MineSwap, RevertSwap, engineVars
<1>12. CASE UNCHANGED vars
  BY <1>1, <1>12 DEF vars, engineVars
<1> QED BY <1>2, <1>3, <1>4, <1>5, <1>6, <1>7, <1>8, <1>9, <1>10, <1>11, <1>12, StepKinds DEF Base

\* Every step leaves the book's statuses and fills as they should be.
LEMMA BookStep ==
  ASSUME Base, [Next]_vars
  PROVE  book' \in Books /\ BookFits'
<1>1. book \in Books /\ BookFits
  BY BookTyped DEF Base
<1>2. CASE book' = book
  BY <1>1, <1>2 DEF BookFits
<1>3. ASSUME NEW o \in OrderIds, NEW order \in Orders, OrderFits(order, Terms[o].amount),
             book' = [book EXCEPT ![o] = order]
      PROVE  book' \in Books /\ BookFits'
  BY <1>1, <1>3 DEF Books, BookFits
<1>4. CASE \E o \in OrderIds : Lists(o)
  <2>1. PICK o \in OrderIds : Lists(o)
    BY <1>4
  <2>2. [status |-> "pending", filled |-> 0] \in Orders /\ Terms[o].amount \in Nat \ {0}
    BY TermsFields DEF Orders, BookStatus
  <2>3. OrderFits([status |-> "pending", filled |-> 0], Terms[o].amount)
    BY <2>2 DEF OrderFits
  <2> QED BY <1>3, <2>1, <2>2, <2>3 DEF Lists, Add
<1>5. CASE \E o \in OrderIds : Cancels(o)
  <2>1. PICK o \in OrderIds : Cancels(o)
    BY <1>5
  <2>2. PICK order \in Orders, amount \in Nat : order = book[o] /\ amount = Terms[o].amount
    BY <1>1, TermsFields DEF Books
  <2>3. [order EXCEPT !.status = "cancelled"] = [status |-> "cancelled", filled |-> order.filled]
    BY DEF Orders
  <2>4. [order EXCEPT !.status = "cancelled"] \in Orders
    BY <2>3 DEF Orders, BookStatus
  <2>5. OrderFits([order EXCEPT !.status = "cancelled"], amount)
    <3>1. order.filled # amount /\ order.filled <= amount
      BY <1>1, <2>1, <2>2 DEF Cancels, IsActive, BookFits, OrderFits
    <3> QED BY <2>3, <3>1 DEF OrderFits
  <2>6. book' = [book EXCEPT ![o] = [order EXCEPT !.status = "cancelled"]]
    BY <2>1, <2>2 DEF Cancels, Cancel
  <2> QED BY <1>3, <2>2, <2>4, <2>5, <2>6
<1>6. CASE \E c \in Cycles : \E applied \in RoundResults(c) : ApplyRound(c, applied)
  <2>1. PICK c \in Cycles : \E applied \in RoundResults(c) : ApplyRound(c, applied)
    BY <1>6
  <2>2. PICK applied \in RoundResults(c) : ApplyRound(c, applied)
    BY <2>1
  <2>3. applied \in Seq(Crossings)
    BY <2>2, AppliedCross DEF ApplyRound, At, InRound
  <2>4. /\ ApplyMatches(book, applied) \in Books
        /\ \A o \in OrderIds : OrderFits(ApplyMatches(book, applied)[o], Terms[o].amount)
    BY <1>1, <2>3, RoundShown DEF BookFits, OrderShown
  <2> QED BY <2>2, <2>4 DEF ApplyRound, BookFits
<1>7. CASE Restart
  <2>1. \A o \in OrderIds :
          book'[o] = IF book[o].status = "absent" THEN book[o] ELSE [book[o] EXCEPT !.status = "lost"]
    BY <1>7 DEF Restart
  <2>2. ASSUME NEW o \in OrderIds PROVE book'[o] \in Orders /\ OrderFits(book'[o], Terms[o].amount)
    <3>1. PICK order \in Orders, amount \in Nat : order = book[o] /\ amount = Terms[o].amount
      BY <1>1, TermsFields DEF Books
    <3>2. OrderFits(order, amount)
      BY <1>1, <3>1 DEF BookFits
    <3>3. [order EXCEPT !.status = "lost"] = [status |-> "lost", filled |-> order.filled]
      BY DEF Orders
    <3>4. [order EXCEPT !.status = "lost"] \in Orders /\ OrderFits([order EXCEPT !.status = "lost"], amount)
      BY <3>2, <3>3 DEF Orders, BookStatus, OrderFits
    <3> QED BY <2>1, <3>1, <3>2, <3>4
  <2>3. book' = [o \in OrderIds |-> book'[o]]
    BY <1>7 DEF Restart
  <2> QED BY <2>2, <2>3 DEF Books, BookFits
<1>8. CASE \/ \E c \in Cycles, pair \in Pairs : StartCycle(c, pair)
           \/ \E c \in Cycles : GivesUp(c) \/ EndsRound(c) \/ ReportOutcomes(c)
           \/ \E c \in Cycles : cycle[c].pc = "waiting" /\ \E fair \in FairPrices[cycle[c].pair] : LockRound(c, fair)
           \/ \E c \in Cycles, tx \in {"pending", "refused"} : Submit(c, tx)
           \/ \E o \in OrderIds : Deposit(o) \/ Withdraws(o)
           \/ \E i \in DOMAIN matches : MineSwap(i) \/ RevertSwap(i)
           \/ UNCHANGED vars
  BY <1>2, <1>8 DEF StartCycle, GivesUp, LockRound, EndsRound, Submit, ReportOutcomes, Deposit, Withdraws, MineSwap,
                    RevertSwap, vars, engineVars
<1> QED BY <1>4, <1>5, <1>6, <1>7, <1>8, StepKinds DEF Base

\* The same match, whatever has become of its transaction.
SameCrossing(m, n) ==
  /\ m.maker = n.maker /\ m.taker = n.taker
  /\ m.base = n.base /\ m.quote = n.quote /\ m.price = n.price

SameMatches ==
  /\ Len(matches') = Len(matches) /\ DOMAIN matches' = DOMAIN matches
  /\ \A i \in DOMAIN matches : SameCrossing(matches'[i], matches[i])

Txs == {"new", "pending", "executed", "reverted", "refused"}

LEMMA TxChanges ==
  ASSUME matches \in Seq(Matches), NEW tx \in [DOMAIN matches -> Txs],
         matches' = [i \in DOMAIN matches |-> [matches[i] EXCEPT !.tx = tx[i]]]
  PROVE  /\ matches' \in Seq(Matches) /\ SameMatches
         /\ \A i \in DOMAIN matches : matches'[i].tx = tx[i]
<1>1. PICK n \in Nat : n = Len(matches) /\ DOMAIN matches = 1..n
  OBVIOUS
<1>2. ASSUME NEW i \in 1..n
      PROVE  matches'[i] \in Matches /\ SameCrossing(matches'[i], matches[i]) /\ matches'[i].tx = tx[i]
  <2>1. PICK m \in Matches : m = matches[i]
    BY <1>1
  <2>2. PICK t \in Txs : t = tx[i]
    BY <1>1
  <2>3. matches'[i] = [m EXCEPT !.tx = t]
    BY <1>1, <2>1, <2>2
  <2>4. [m EXCEPT !.tx = t] \in Matches
    BY DEF Matches, Txs
  <2>5. SameCrossing([m EXCEPT !.tx = t], m) /\ [m EXCEPT !.tx = t].tx = t
    BY DEF Matches, SameCrossing
  <2> QED BY <2>1, <2>2, <2>3, <2>4, <2>5
<1>3. matches' \in [1..n -> Matches]
  BY <1>1, <1>2
<1>4. matches' \in Seq(Matches) /\ DOMAIN matches' = 1..n
  BY <1>3, SeqDef
<1>5. Len(matches') = n
  BY <1>4, LenProperties
<1> QED BY <1>1, <1>2, <1>4, <1>5 DEF SameMatches

LEMMA WithTxIs ==
  ASSUME matches \in Seq(Matches), NEW i, NEW tx \in Txs, matches' = WithTx(i, tx)
  PROVE  /\ matches' \in Seq(Matches) /\ SameMatches
         /\ \A j \in DOMAIN matches : matches'[j].tx = IF j = i THEN tx ELSE matches[j].tx
<1>1. PICK txs : txs = [j \in DOMAIN matches |-> IF j = i THEN tx ELSE matches[j].tx]
  OBVIOUS
<1>2. \A j \in DOMAIN matches : matches[j] \in Matches
  OBVIOUS
<1>3. \A j \in DOMAIN matches : matches[j].tx \in Txs
  BY <1>2 DEF Matches, Txs
<1>4. txs \in [DOMAIN matches -> Txs]
  BY <1>1, <1>3
<1>5. \A j \in DOMAIN matches : matches'[j] = [matches[j] EXCEPT !.tx = txs[j]]
  <2> SUFFICES ASSUME NEW j \in DOMAIN matches PROVE matches'[j] = [matches[j] EXCEPT !.tx = txs[j]]
    OBVIOUS
  <2>1. CASE j = i
    BY <1>1, <2>1 DEF WithTx
  <2>2. CASE j # i
    <3>1. matches'[j] = matches[j] /\ txs[j] = matches[j].tx
      BY <1>1, <2>2 DEF WithTx
    <3>2. [matches[j] EXCEPT !.tx = matches[j].tx] = matches[j]
      BY <1>2 DEF Matches
    <3> QED BY <3>1, <3>2
  <2> QED BY <2>1, <2>2
<1>6. matches' = [j \in DOMAIN matches |-> matches'[j]]
  BY DEF WithTx
<1>7. matches' = [j \in DOMAIN matches |-> [matches[j] EXCEPT !.tx = txs[j]]]
  BY <1>5, <1>6
<1>8. /\ matches' \in Seq(Matches) /\ SameMatches
      /\ \A j \in DOMAIN matches : matches'[j].tx = txs[j]
  BY <1>4, <1>7, TxChanges
<1> QED BY <1>1, <1>8

LEMMA RestartMatches ==
  ASSUME matches \in Seq(Matches), Restart
  PROVE  /\ matches' \in Seq(Matches) /\ SameMatches
         /\ \A j \in DOMAIN matches : matches'[j].tx = IF matches[j].tx = "new" THEN "refused" ELSE matches[j].tx
<1>1. PICK txs : txs = [j \in DOMAIN matches |-> IF matches[j].tx = "new" THEN "refused" ELSE matches[j].tx]
  OBVIOUS
<1>2. \A j \in DOMAIN matches : matches[j] \in Matches
  OBVIOUS
<1>3. \A j \in DOMAIN matches : matches[j].tx \in Txs
  BY <1>2 DEF Matches, Txs
<1>4. txs \in [DOMAIN matches -> Txs]
  BY <1>1, <1>3 DEF Txs
<1>5. \A j \in DOMAIN matches : matches'[j] = [matches[j] EXCEPT !.tx = txs[j]]
  <2> SUFFICES ASSUME NEW j \in DOMAIN matches PROVE matches'[j] = [matches[j] EXCEPT !.tx = txs[j]]
    OBVIOUS
  <2>1. CASE matches[j].tx = "new"
    BY <1>1, <2>1 DEF Restart
  <2>2. CASE matches[j].tx # "new"
    <3>1. matches'[j] = matches[j] /\ txs[j] = matches[j].tx
      BY <1>1, <2>2 DEF Restart
    <3>2. [matches[j] EXCEPT !.tx = matches[j].tx] = matches[j]
      BY <1>2 DEF Matches
    <3> QED BY <3>1, <3>2
  <2> QED BY <2>1, <2>2
<1>6. matches' = [j \in DOMAIN matches |-> matches'[j]]
  BY DEF Restart
<1>7. matches' = [j \in DOMAIN matches |-> [matches[j] EXCEPT !.tx = txs[j]]]
  BY <1>5, <1>6
<1>8. /\ matches' \in Seq(Matches) /\ SameMatches
      /\ \A j \in DOMAIN matches : matches'[j].tx = txs[j]
  BY <1>4, <1>7, TxChanges
<1> QED BY <1>1, <1>8

\* A step keeps the matches, or it is a round's that adds its own.
LEMMA MatchesStep ==
  ASSUME Base, [Next]_vars
  PROVE  /\ matches' \in Seq(Matches)
         /\ SameMatches \/ \E c \in Cycles : \E applied \in RoundResults(c) : ApplyRound(c, applied)
<1>1. matches \in Seq(Matches)
  BY DEF Base, TypeOK
<1>2. CASE matches' = matches
  BY <1>1, <1>2 DEF SameMatches, SameCrossing
<1>3. CASE \E c \in Cycles : \E applied \in RoundResults(c) : ApplyRound(c, applied)
  <2>1. PICK c \in Cycles : \E applied \in RoundResults(c) : ApplyRound(c, applied)
    BY <1>3
  <2>2. PICK applied \in RoundResults(c) : ApplyRound(c, applied)
    BY <2>1
  <2>3. applied \in Seq(Crossings)
    BY <2>2, AppliedCross DEF ApplyRound, At, InRound
  <2>4. matches' = matches \o Kept(applied)
    BY <2>2 DEF ApplyRound, Kept
  <2>5. matches' \in Seq(Matches)
    BY <1>1, <2>3, <2>4, KeptIs
  <2> QED BY <1>3, <2>5
<1>4. CASE \E c \in Cycles, tx \in {"pending", "refused"} : Submit(c, tx)
  BY <1>1, <1>4, WithTxIs DEF Submit, Txs
<1>5. CASE \E i \in DOMAIN matches : MineSwap(i) \/ RevertSwap(i)
  BY <1>1, <1>5, WithTxIs DEF MineSwap, RevertSwap, Txs
<1>6. CASE Restart
  BY <1>1, <1>6, RestartMatches
<1>7. CASE \/ \E c \in Cycles, pair \in Pairs : StartCycle(c, pair)
           \/ \E c \in Cycles : GivesUp(c) \/ EndsRound(c) \/ ReportOutcomes(c)
           \/ \E c \in Cycles : cycle[c].pc = "waiting" /\ \E fair \in FairPrices[cycle[c].pair] : LockRound(c, fair)
           \/ \E o \in OrderIds : Lists(o) \/ Cancels(o) \/ Deposit(o) \/ Withdraws(o)
           \/ UNCHANGED vars
  BY <1>2, <1>7 DEF StartCycle, GivesUp, LockRound, EndsRound, ReportOutcomes, Lists, Cancels, BookOnly, Deposit,
                    Withdraws, vars
<1> QED BY <1>3, <1>4, <1>5, <1>6, <1>7, StepKinds DEF Base

\* The matches a round adds honour their orders and are swaps of its pair.
LEMMA KeptOK ==
  ASSUME Base, NEW c \in Cycles, InRound(c), NEW applied \in RoundResults(c), NEW i \in DOMAIN applied
  PROVE  MatchOK(Kept(applied)[i]) /\ Terms[Kept(applied)[i].maker].pair = cycle[c].pair
<1>1. PICK snap : snap = cycle[c].snap
  OBVIOUS
<1>2. PICK m \in MatchesOf(snap) : m = applied[i]
  BY <1>1, RoundApplies
<1>3. m.maker \in DOMAIN snap /\ m.taker \in DOMAIN snap /\ Honours(m, snap)
  BY DEF MatchesOf
<1>4. CopyOK(cycle[c], m.maker) /\ CopyOK(cycle[c], m.taker)
  BY <1>1, <1>3 DEF Base, SnapsOK
<1>5. MatchOK(m) /\ Terms[m.maker].pair = cycle[c].pair
  BY <1>1, <1>3, <1>4 DEF Honours, CopyOK, CopyOf, MatchOK
<1>6. SameCrossing(Kept(applied)[i], m)
  BY <1>2 DEF Kept, SameCrossing
<1> QED BY <1>5, <1>6 DEF MatchOK, SameCrossing

LEMMA HonourStep ==
  ASSUME Base, [Next]_vars
  PROVE  MatchesOK'
<1>1. CASE SameMatches
  BY <1>1 DEF Base, MatchesOK, SameMatches, SameCrossing, MatchOK
<1>2. CASE \E c \in Cycles : \E applied \in RoundResults(c) : ApplyRound(c, applied)
  <2>1. PICK c \in Cycles : \E applied \in RoundResults(c) : ApplyRound(c, applied)
    BY <1>2
  <2>2. PICK applied \in RoundResults(c) : ApplyRound(c, applied)
    BY <2>1
  <2>3. InRound(c) /\ applied \in Seq(Crossings) /\ matches' = matches \o Kept(applied)
    BY <2>2, AppliedCross DEF ApplyRound, At, InRound, Kept
  <2>4. PICK m \in Nat, n \in Nat :
          /\ m = Len(matches) /\ n = Len(applied) /\ DOMAIN applied = 1..n /\ DOMAIN matches = 1..m
          /\ DOMAIN matches' = 1..(m + n)
          /\ \A i \in 1..m : matches'[i] = matches[i]
          /\ \A i \in 1..n : matches'[m + i] = Kept(applied)[i]
    BY <2>3, KeptIs DEF Base, TypeOK
  <2>5. ASSUME NEW i \in 1..(m + n) PROVE MatchOK(matches'[i])
    <3>1. CASE i \in 1..m
      BY <2>4, <3>1 DEF Base, MatchesOK
    <3>2. CASE i \notin 1..m
      <4>1. i - m \in 1..n /\ m + (i - m) = i
        BY <3>2
      <4> QED BY <2>2, <2>3, <2>4, <4>1, KeptOK
    <3> QED BY <3>1, <3>2
  <2> QED BY <2>4, <2>5 DEF MatchesOK, MatchOK
<1> QED BY <1>1, <1>2, MatchesStep

\* What a step does to a cycle: nothing, unless it is a step of its own or it
\* leaves the cycle without a round.
LEMMA CycleMoves ==
  ASSUME Base, [Next]_vars, NEW d \in Cycles
  PROVE  \/ cycle'[d] = cycle[d] \/ ~InRound(d)'
         \/ cycle[d].pc = "waiting" /\ \E fair \in FairPrices[cycle[d].pair] : LockRound(d, fair)
         \/ \E applied \in RoundResults(d) : ApplyRound(d, applied)
         \/ \E tx \in {"pending", "refused"} : Submit(d, tx)
         \/ ReportOutcomes(d)
<1>1. \A c \in Cycles : \A r : cycle' = [cycle EXCEPT ![c] = r] => cycle'[d] = IF d = c THEN r ELSE cycle[d]
  BY DEF Base, TypeOK
<1>2. CASE \E c \in Cycles, pair \in Pairs : StartCycle(c, pair)
  BY <1>1, <1>2 DEF StartCycle, InRound
<1>3. CASE \E c \in Cycles : GivesUp(c) \/ EndsRound(c)
  BY <1>1, <1>3 DEF GivesUp, EndsRound, LeaveUnlocking, Leave, InRound, Idle
<1>4. CASE \E c \in Cycles : cycle[c].pc = "waiting" /\ \E fair \in FairPrices[cycle[c].pair] : LockRound(c, fair)
  <2>1. PICK c \in Cycles : cycle[c].pc = "waiting" /\ \E fair \in FairPrices[cycle[c].pair] : LockRound(c, fair)
    BY <1>4
  <2>2. CASE c # d
    BY <1>1, <2>1, <2>2 DEF LockRound
  <2> QED BY <2>1, <2>2
<1>5. CASE \E c \in Cycles : \E applied \in RoundResults(c) : ApplyRound(c, applied)
  <2>1. PICK c \in Cycles : \E applied \in RoundResults(c) : ApplyRound(c, applied)
    BY <1>5
  <2>2. CASE c # d
    BY <1>1, <2>1, <2>2 DEF ApplyRound
  <2> QED BY <2>1, <2>2
<1>6. CASE \E c \in Cycles, tx \in {"pending", "refused"} : Submit(c, tx)
  <2>1. PICK c \in Cycles, tx \in {"pending", "refused"} : Submit(c, tx)
    BY <1>6
  <2>2. CASE c # d
    BY <1>1, <2>1, <2>2 DEF Submit
  <2> QED BY <2>1, <2>2
<1>7. CASE \E c \in Cycles : ReportOutcomes(c)
  <2>1. PICK c \in Cycles : ReportOutcomes(c)
    BY <1>7
  <2>2. CASE c # d
    BY <1>1, <2>1, <2>2 DEF ReportOutcomes
  <2> QED BY <2>1, <2>2
<1>8. CASE Restart
  BY <1>8 DEF Restart, InRound, Idle
<1>9. CASE \/ \E o \in OrderIds : Lists(o) \/ Cancels(o) \/ Deposit(o) \/ Withdraws(o)
           \/ \E i \in DOMAIN matches : MineSwap(i) \/ RevertSwap(i)
           \/ UNCHANGED vars
  BY <1>9 DEF Lists, Cancels, BookOnly, Deposit, Withdraws, MineSwap, RevertSwap, vars, engineVars
<1> QED BY <1>2, <1>3, <1>4, <1>5, <1>6, <1>7, <1>8, <1>9, StepKinds DEF Base

\* The state of a round whose matches are applied.
LEMMA ApplyIsMove ==
  ASSUME Base, NEW c \in Cycles, NEW applied \in RoundResults(c), ApplyRound(c, applied)
  PROVE  /\ InRound(c) /\ cycle[c].pc = "matching" /\ applied \in Seq(Crossings)
         /\ matches' = matches \o Kept(applied)
         /\ cycle'[c].pc = "submitting" /\ cycle'[c].snap = cycle[c].snap /\ cycle'[c].pair = cycle[c].pair
         /\ cycle'[c].round = {Len(matches) + i : i \in 1..Len(applied)}
         /\ \A d \in Cycles \ {c} : cycle'[d] = cycle[d]
<1>1. InRound(c) /\ cycle[c].pc = "matching"
  BY DEF ApplyRound, At, InRound
<1>2. applied \in Seq(Crossings)
  BY <1>1, AppliedCross
<1>3. PICK n \in Nat : n = Len(applied) /\ DOMAIN applied = 1..n
  BY <1>2
<1>4. PICK queue : queue = [i \in 1..n |-> Len(matches) + i]
  OBVIOUS
<1>5. PICK r : r = cycle[c] /\ IsRound(r)
  BY <1>1, CycleFields DEF Base
<1>6. cycle'[c] = [r EXCEPT !.pc = "submitting", !.queue = queue, !.round = {queue[i] : i \in 1..n}]
  BY <1>3, <1>4, <1>5 DEF ApplyRound, Base, TypeOK
<1>7. /\ cycle'[c].pc = "submitting" /\ cycle'[c].snap = r.snap /\ cycle'[c].pair = r.pair
      /\ cycle'[c].round = {queue[i] : i \in 1..n}
  BY <1>5, <1>6 DEF IsRound
<1>8. {queue[i] : i \in 1..n} = {Len(matches) + i : i \in 1..n}
  BY <1>4
<1>9. \A d \in Cycles \ {c} : cycle'[d] = cycle[d]
  BY DEF ApplyRound, Base, TypeOK
<1>10. matches' = matches \o Kept(applied)
  BY DEF ApplyRound, Kept
<1> QED BY <1>1, <1>2, <1>3, <1>5, <1>7, <1>8, <1>9, <1>10

LEMMA SubmitIsMove ==
  ASSUME Base, NEW c \in Cycles
  PROVE  /\ \A tx : Submit(c, tx) => /\ cycle'[c].pc = "submitting" /\ cycle[c].pc = "submitting"
                                     /\ cycle'[c].snap = cycle[c].snap /\ cycle'[c].pair = cycle[c].pair
                                     /\ cycle'[c].round = cycle[c].round
         /\ ReportOutcomes(c) => /\ cycle'[c].pc = "reporting" /\ cycle[c].pc = "submitting"
                                 /\ cycle'[c].snap = cycle[c].snap /\ cycle'[c].pair = cycle[c].pair
<1>1. ASSUME cycle[c].pc = "submitting" PROVE IsRound(cycle[c])
  BY <1>1, CycleFields DEF Base, InRound
<1>2. ASSUME NEW tx, Submit(c, tx)
      PROVE  /\ cycle'[c].pc = "submitting" /\ cycle[c].pc = "submitting"
             /\ cycle'[c].snap = cycle[c].snap /\ cycle'[c].pair = cycle[c].pair
             /\ cycle'[c].round = cycle[c].round
  <2>1. PICK r : r = cycle[c] /\ IsRound(r) /\ r.pc = "submitting"
    BY <1>1, <1>2 DEF Submit, At
  <2>2. cycle'[c] = [r EXCEPT !.queue = Tail(r.queue)]
    BY <1>2, <2>1 DEF Submit, Base, TypeOK
  <2> QED BY <2>1, <2>2 DEF IsRound
<1>3. ASSUME ReportOutcomes(c)
      PROVE  /\ cycle'[c].pc = "reporting" /\ cycle[c].pc = "submitting"
             /\ cycle'[c].snap = cycle[c].snap /\ cycle'[c].pair = cycle[c].pair
  <2>1. PICK r : r = cycle[c] /\ IsRound(r) /\ r.pc = "submitting"
    BY <1>1, <1>3 DEF ReportOutcomes, At
  <2>2. cycle'[c] = [r EXCEPT !.pc = "reporting"]
    BY <1>3, <2>1 DEF ReportOutcomes, Base, TypeOK
  <2> QED BY <2>1, <2>2 DEF IsRound
<1> QED BY <1>2, <1>3

LEMMA ListedStep ==
  ASSUME Base, [Next]_vars
  PROVE  RoundsListed'
<1> SUFFICES ASSUME NEW d \in Cycles, cycle'[d].pc = "submitting"
             PROVE  \A i \in cycle'[d].round : i \in DOMAIN matches' /\ Terms[matches'[i].maker].pair = cycle'[d].pair
  BY DEF RoundsListed, SwapsOf
<1>1. \A i \in DOMAIN matches : i \in DOMAIN matches' /\ matches'[i].maker = matches[i].maker
  <2>1. CASE SameMatches
    BY <2>1 DEF SameMatches, SameCrossing
  <2>2. CASE \E c \in Cycles : \E applied \in RoundResults(c) : ApplyRound(c, applied)
    <3>1. PICK c \in Cycles : \E applied \in RoundResults(c) : ApplyRound(c, applied)
      BY <2>2
    <3>2. PICK applied \in RoundResults(c) : ApplyRound(c, applied)
      BY <3>1
    <3>3. applied \in Seq(Crossings) /\ matches' = matches \o Kept(applied)
      BY <3>2, ApplyIsMove
    <3>4. DOMAIN matches \subseteq DOMAIN matches' /\ \A i \in DOMAIN matches : matches'[i] = matches[i]
      <4>1. PICK m \in Nat, n \in Nat :
              /\ DOMAIN matches = 1..m /\ DOMAIN matches' = 1..(m + n) /\ \A i \in 1..m : matches'[i] = matches[i]
        BY <3>3, KeptIs DEF Base, TypeOK
      <4> QED BY <4>1
    <3> QED BY <3>4
  <2> QED BY <2>1, <2>2, MatchesStep
<1>2. CASE cycle[d].pc = "submitting" /\ cycle'[d].round = cycle[d].round /\ cycle'[d].pair = cycle[d].pair
  BY <1>1, <1>2 DEF Base, RoundsListed, SwapsOf
<1>3. CASE \E applied \in RoundResults(d) : ApplyRound(d, applied)
  <2>1. PICK applied \in RoundResults(d) : ApplyRound(d, applied)
    BY <1>3
  <2>2. /\ InRound(d) /\ applied \in Seq(Crossings) /\ matches' = matches \o Kept(applied)
        /\ cycle'[d].pair = cycle[d].pair
        /\ cycle'[d].round = {Len(matches) + i : i \in 1..Len(applied)}
    BY <2>1, ApplyIsMove
  <2>3. ASSUME NEW i \in 1..Len(applied)
        PROVE  Len(matches) + i \in DOMAIN matches' /\ Terms[matches'[Len(matches) + i].maker].pair = cycle[d].pair
    <3>1. /\ Len(matches) + i \in DOMAIN matches' /\ i \in DOMAIN applied
          /\ matches'[Len(matches) + i] = Kept(applied)[i]
      <4>1. PICK m \in Nat, n \in Nat :
              /\ m = Len(matches) /\ n = Len(applied) /\ DOMAIN applied = 1..n /\ DOMAIN matches' = 1..(m + n)
              /\ \A j \in 1..n : matches'[m + j] = Kept(applied)[j]
        BY <2>2, KeptIs DEF Base, TypeOK
      <4>2. i \in 1..n /\ m + i \in 1..(m + n)
        BY <4>1
      <4> QED BY <4>1, <4>2
    <3> QED BY <2>2, <3>1, KeptOK
  <2> QED BY <2>2, <2>3
<1>4. ~(cycle[d].pc = "waiting" /\ \E fair \in FairPrices[cycle[d].pair] : LockRound(d, fair))
  BY DEF LockRound, Base, TypeOK
<1>5. cycle'[d] = cycle[d] => cycle[d].pc = "submitting" /\ cycle'[d].round = cycle[d].round /\ cycle'[d].pair = cycle[d].pair
  OBVIOUS
<1>6. InRound(d)'
  BY DEF InRound
<1> QED BY <1>2, <1>3, <1>4, <1>5, <1>6, CycleMoves, SubmitIsMove

\* A deposit is a number of tokens.
LEMMA DepositType ==
  ASSUME NEW o \in OrderIds
  PROVE  DepositAmount(o) \in Nat
<1>1. PICK a \in Nat, l \in Nat : a = Terms[o].amount /\ l = Terms[o].limit
  BY TermsFields
<1>2. PICK cost \in Nat : cost = a * l
  <2>1. \A x, y \in Nat : x * y \in Nat BY SMT
  <2> QED BY <2>1
<1>3. RoundToUnit(cost) \in Nat
  <2>1. PICK u \in Nat : u = DepositUnit /\ u > 0
    BY DepositUnitAssumption
  <2>2. PICK x \in Nat, y \in Nat \ {0} : x = 2 * cost + u /\ y = 2 * u
    BY <2>1
  <2>3. x \div y \in Nat
    <3>1. \A v \in Nat, w \in Nat \ {0} : v \div w \in Nat BY SMT
    <3> QED BY <3>1
  <2>4. \A v, w \in Nat : v * w \in Nat BY SMT
  <2> QED BY <2>1, <2>2, <2>3, <2>4 DEF RoundToUnit
<1> HIDE DEF RoundToUnit
<1> QED BY <1>1, <1>2, <1>3 DEF DepositAmount

LEMMA ChainTyped ==
  ASSUME Base, [Next]_vars
  PROVE  Chain!LedgerTypeOK'
<1>1. Chain!LedgerTypeOK
  BY DEF Base, TypeOK
<1>2. CASE chainVars' = chainVars
  BY <1>1, <1>2 DEF chainVars, Chain!LedgerTypeOK
<1>3. CASE \E o \in OrderIds : Deposit(o)
  <2>1. PICK o \in OrderIds : Deposit(o)
    BY <1>3
  <2>2. PICK amount \in Nat : amount = DepositAmount(o)
    BY DepositType
  <2>3. /\ status' = [status EXCEPT ![o] = "open"]
        /\ custody' = [custody EXCEPT ![o] = amount] /\ spent' = spent
    BY <2>1, <2>2 DEF Deposit, Chain!Open
  <2> QED BY <1>1, <2>3 DEF Chain!LedgerTypeOK
<1>4. CASE \E o \in OrderIds : Withdraws(o)
  <2>1. PICK o \in OrderIds : Withdraws(o)
    BY <1>4
  <2>2. /\ status' = [status EXCEPT ![o] = "closed"]
        /\ custody' = [custody EXCEPT ![o] = 0] /\ spent' = spent
    BY <2>1 DEF Withdraws, Chain!Close
  <2> QED BY <1>1, <2>2 DEF Chain!LedgerTypeOK
<1>5. CASE \E i \in DOMAIN matches : MineSwap(i)
  <2>1. PICK i \in DOMAIN matches : MineSwap(i)
    BY <1>5
  <2>2. i \in Nat /\ matches[i] \in Matches /\ MatchOK(matches[i])
    BY DEF Base, TypeOK, MatchesOK
  <2>3. PICK m \in OrderIds, t \in OrderIds, f \in Nat, g \in Nat :
          m = matches[i].maker /\ t = matches[i].taker /\ f = matches[i].base /\ g = matches[i].quote
    BY <2>2 DEF Matches, Amounts
  <2>4. m # t
    BY <2>2, <2>3 DEF MatchOK
  <2>5. /\ f <= custody[m] /\ g <= custody[t]
        /\ spent' = spent \union {i}
        /\ custody' = [custody EXCEPT ![m] = @ - f, ![t] = @ - g]
        /\ status' = [o \in OrderIds |-> IF o \in {m, t} /\ custody'[o] = 0 THEN "closed" ELSE status[o]]
    BY <2>1, <2>3 DEF MineSwap, Chain!Exchange
  <2>6. custody' \in [OrderIds -> Nat]
    BY <1>1, <2>4, <2>5 DEF Chain!LedgerTypeOK
  <2>7. status' \in [OrderIds -> {"none", "open", "closed"}]
    BY <1>1, <2>5 DEF Chain!LedgerTypeOK
  <2>8. spent' \subseteq Nat
    BY <1>1, <2>2, <2>5 DEF Chain!LedgerTypeOK, SwapIds
  <2> QED BY <2>6, <2>7, <2>8 DEF Chain!LedgerTypeOK, SwapIds
<1>6. CASE \/ \E c \in Cycles, pair \in Pairs : StartCycle(c, pair)
           \/ \E c \in Cycles : GivesUp(c) \/ EndsRound(c) \/ ReportOutcomes(c)
           \/ \E c \in Cycles : cycle[c].pc = "waiting" /\ \E fair \in FairPrices[cycle[c].pair] : LockRound(c, fair)
           \/ \E c \in Cycles : \E applied \in RoundResults(c) : ApplyRound(c, applied)
           \/ \E c \in Cycles, tx \in {"pending", "refused"} : Submit(c, tx)
           \/ \E o \in OrderIds : Lists(o) \/ Cancels(o)
           \/ \E i \in DOMAIN matches : RevertSwap(i)
           \/ Restart
           \/ UNCHANGED vars
  BY <1>2, <1>6 DEF StartCycle, GivesUp, LockRound, EndsRound, ApplyRound, Submit, ReportOutcomes, Lists, Cancels,
                    BookOnly, RevertSwap, Restart, vars
<1> QED BY <1>3, <1>4, <1>5, <1>6, StepKinds DEF Base

\* The sums that a round's report books are over its own swaps.
LEMMA SwapsFinite ==
  ASSUME matches \in Seq(Matches)
  PROVE  IsFiniteSet(DOMAIN matches)
<1>1. PICK n \in Nat : n = Len(matches) /\ DOMAIN matches = 1..n
  OBVIOUS
<1>2. IsFiniteSet(1..n)
  BY FS_Interval
<1> QED BY <1>1, <1>2

LEMMA ChangesAreInt ==
  ASSUME NEW m \in Matches
  PROVE  BaseChange(m) \in Int /\ QuoteChange(m) \in Int
<1>1. PICK b \in Nat, q \in Nat : b = m.base /\ q = m.quote
  BY DEF Matches, Amounts
<1> QED BY <1>1 DEF BaseChange, QuoteChange

LEMMA InventoryTyped ==
  ASSUME Base, [Next]_vars
  PROVE  inventory' \in [Pairs -> [base : Int, quote : Int]]
<1>1. inventory \in [Pairs -> [base : Int, quote : Int]]
  BY DEF Base, TypeOK
<1>2. CASE inventory' = inventory
  BY <1>1, <1>2
<1>3. CASE \E c \in Cycles : ReportOutcomes(c)
  <2>1. PICK c \in Cycles : ReportOutcomes(c)
    BY <1>3
  <2>2. PICK pair \in Pairs : pair = cycle[c].pair
    BY <2>1, CycleFields DEF Base, ReportOutcomes, At, InRound
  <2>3. PICK ids : ids = cycle[c].round /\ ids \subseteq DOMAIN matches
    BY <2>1 DEF Base, RoundsListed, SwapsOf, ReportOutcomes, At
  <2>4. IsFiniteSet(ids)
    BY <2>3, SwapsFinite, FS_Subset DEF Base, TypeOK
  <2>5. PICK f, h : /\ f = [i \in DOMAIN matches |-> BaseChange(matches[i])]
                    /\ h = [i \in DOMAIN matches |-> QuoteChange(matches[i])]
    OBVIOUS
  <2>6. \A i \in DOMAIN matches : matches[i] \in Matches
    BY DEF Base, TypeOK
  <2>7. IntOn(f, ids) /\ IntOn(h, ids)
    BY <2>3, <2>5, <2>6, ChangesAreInt DEF IntOn
  <2>8. PICK x \in Int, y \in Int : x = SumFunctionOnSet(f, ids) /\ y = SumFunctionOnSet(h, ids)
    BY <2>4, <2>7, SumInt
  <2>9. PICK b \in Int, q \in Int : b = inventory[pair].base /\ q = inventory[pair].quote
    BY <1>1
  <2>10. inventory' = [inventory EXCEPT ![pair] = [base |-> b + x, quote |-> q + y]]
    BY <2>1, <2>2, <2>3, <2>5, <2>8, <2>9 DEF ReportOutcomes, InventoryAfter
  <2> QED BY <1>1, <2>10
<1>4. CASE Restart
  BY <1>4 DEF Restart
<1>5. CASE \/ \E c \in Cycles, pair \in Pairs : StartCycle(c, pair)
           \/ \E c \in Cycles : GivesUp(c) \/ EndsRound(c)
           \/ \E c \in Cycles : cycle[c].pc = "waiting" /\ \E fair \in FairPrices[cycle[c].pair] : LockRound(c, fair)
           \/ \E c \in Cycles : \E applied \in RoundResults(c) : ApplyRound(c, applied)
           \/ \E c \in Cycles, tx \in {"pending", "refused"} : Submit(c, tx)
           \/ \E o \in OrderIds : Lists(o) \/ Cancels(o) \/ Deposit(o) \/ Withdraws(o)
           \/ \E i \in DOMAIN matches : MineSwap(i) \/ RevertSwap(i)
           \/ UNCHANGED vars
  BY <1>2, <1>5 DEF StartCycle, GivesUp, LockRound, EndsRound, ApplyRound, Submit, Lists, Cancels, BookOnly, Deposit,
                    Withdraws, MineSwap, RevertSwap, vars, engineVars
<1> QED BY <1>3, <1>4, <1>5, StepKinds DEF Base

\* What a step leaves of the locks, the fair price and the restarts.
LEMMA RestTyped ==
  ASSUME Base, [Next]_vars
  PROVE  lockedIds' \subseteq OrderIds /\ prevFair' \in Prices \union {NoPrice} /\ restarts' \in 0..MaxRestarts
<1>1. lockedIds \subseteq OrderIds /\ prevFair \in Prices \union {NoPrice} /\ restarts \in 0..MaxRestarts
  BY DEF Base, TypeOK
<1>2. CASE \E c \in Cycles : cycle[c].pc = "waiting" /\ \E fair \in FairPrices[cycle[c].pair] : LockRound(c, fair)
  <2>1. lockedIds' \subseteq OrderIds
    BY <1>1, <1>2, LockIs
  <2> QED BY <1>1, <1>2, <2>1 DEF LockRound
<1>3. CASE \E c \in Cycles : \E applied \in RoundResults(c) : ApplyRound(c, applied)
  <2>1. PICK c \in Cycles : \E applied \in RoundResults(c) : ApplyRound(c, applied)
    BY <1>3
  <2>2. cycle[c].fair \in Prices
    BY <2>1, CycleFields, RoundFields DEF Base, ApplyRound, At, InRound
  <2> QED BY <1>1, <2>1, <2>2 DEF ApplyRound
<1>4. CASE Restart
  BY <1>1, <1>4, BoundAssumption DEF Restart
<1>5. CASE \E c \in Cycles : GivesUp(c) \/ EndsRound(c)
  BY <1>1, <1>5 DEF GivesUp, EndsRound, LeaveUnlocking, FairMayChange
<1>6. CASE UNCHANGED <<lockedIds, prevFair, restarts>>
  BY <1>1, <1>6
<1>7. CASE \/ \E c \in Cycles, pair \in Pairs : StartCycle(c, pair)
           \/ \E c \in Cycles : ReportOutcomes(c)
           \/ \E c \in Cycles, tx \in {"pending", "refused"} : Submit(c, tx)
           \/ \E o \in OrderIds : Lists(o) \/ Cancels(o) \/ Deposit(o) \/ Withdraws(o)
           \/ \E i \in DOMAIN matches : MineSwap(i) \/ RevertSwap(i)
           \/ UNCHANGED vars
  BY <1>6, <1>7 DEF StartCycle, ReportOutcomes, Submit, Lists, Cancels, BookOnly, Deposit, Withdraws, MineSwap,
                    RevertSwap, vars, engineVars
<1> QED BY <1>2, <1>3, <1>4, <1>5, <1>7, StepKinds DEF Base

LEMMA BaseInit == Init => Base
<1> SUFFICES ASSUME Init PROVE Base
  OBVIOUS
<1>1. /\ book = [o \in OrderIds |-> [status |-> "absent", filled |-> 0]] /\ lockedIds = {}
      /\ pairQueue = [p \in Pairs |-> << >>] /\ cycle = [c \in Cycles |-> Idle] /\ prevFair = NoPrice
      /\ inventory = [p \in Pairs |-> [base |-> 0, quote |-> 0]] /\ matches = << >> /\ restarts = 0
      /\ status = [o \in OrderIds |-> "none"] /\ custody = [o \in OrderIds |-> 0] /\ spent = {}
  BY DEF Init, Chain!LedgerInit
<1>2. \A c \in Cycles : cycle[c] = Idle /\ cycle[c].pc = "idle"
  BY <1>1 DEF Idle
<1>3. book \in [OrderIds -> [status : BookStatus, filled : Nat]]
  BY <1>1 DEF BookStatus
<1>4. Chain!LedgerTypeOK
  BY <1>1 DEF Chain!LedgerTypeOK
<1>5. TypeOK
  BY <1>1, <1>2, <1>3, <1>4, BoundAssumption DEF TypeOK
<1>6. BookFits
  BY <1>1, TermsFields DEF BookFits, OrderFits
<1>7. QueuesOK /\ SnapsOK /\ RoundsListed
  BY <1>2 DEF QueuesOK, SnapsOK, RoundsListed, InRound
<1>8. MatchesOK
  BY <1>1 DEF MatchesOK
<1> QED BY <1>5, <1>6, <1>7, <1>8 DEF Base

LEMMA BaseStep == Base /\ [Next]_vars => Base'
<1> SUFFICES ASSUME Base, [Next]_vars PROVE Base'
  OBVIOUS
<1>1. Rounds' /\ book' \in Books /\ BookFits' /\ matches' \in Seq(Matches) /\ MatchesOK' /\ RoundsListed'
  BY RoundsStep, BookStep, MatchesStep, HonourStep, ListedStep
<1>2. TypeOK'
  BY <1>1, ChainTyped, InventoryTyped, RestTyped DEF TypeOK, Rounds, Cycling, IsCycle, Books, Orders
<1> QED BY <1>1, <1>2 DEF Base, Rounds

\* The types, the pair locks, the copies and the history of matches.
THEOREM BaseHolds == Spec => []Base
BY BaseInit, BaseStep, PTL DEF Spec

\* Every variable has its type.
THEOREM Typed == Spec => []TypeOK
<1>1. Base => TypeOK
  BY DEF Base
<1> QED BY <1>1, BaseHolds, PTL

\* Every match that is decided crosses a sell and a buy of one pair, of two
\* wallets, at a price that both limits allow.
THEOREM TermsHonoured == Spec => []MatchesHonourTerms
<1>1. Base => MatchesHonourTerms
  BY DEF Base, MatchesOK, MatchOK, MatchesHonourTerms
<1> QED BY <1>1, BaseHolds, PTL

(***************************************************************************)
(* The locked orders.                                                      *)
(***************************************************************************)

\* Two rounds that run are rounds of different pairs.
LEMMA RoundsApart ==
  ASSUME Base, NEW c \in Cycles, NEW d \in Cycles, c # d, InRound(c), InRound(d)
  PROVE  cycle[c].pair # cycle[d].pair /\ DOMAIN cycle[c].snap \intersect DOMAIN cycle[d].snap = {}
<1>1. cycle[c].pair # cycle[d].pair
  BY DEF Base, QueuesOK, Leads, HoldsPairLock
<1> QED BY <1>1 DEF Base, SnapsOK, CopyOK

\* A cycle that leaves, or starts, is in no round, and the others stay.
LEMMA LeaveIs ==
  ASSUME Base, NEW c \in Cycles, Leave(c)
  PROVE  cycle'[c].pc = "idle" /\ ~InRound(c)' /\ \A d \in Cycles \ {c} : cycle'[d] = cycle[d]
<1>1. cycle' = [cycle EXCEPT ![c] = Idle] /\ c \in DOMAIN cycle /\ DOMAIN cycle = Cycles
  BY DEF Leave, Base, TypeOK
<1>2. cycle'[c] = Idle /\ \A d \in Cycles \ {c} : cycle'[d] = cycle[d]
  BY <1>1
<1>3. cycle'[c].pc = "idle"
  BY <1>2 DEF Idle
<1> QED BY <1>2, <1>3 DEF InRound

LEMMA StartIs ==
  ASSUME Base, NEW c \in Cycles, NEW pair, StartCycle(c, pair)
  PROVE  ~InRound(c) /\ ~InRound(c)' /\ \A d \in Cycles \ {c} : cycle'[d] = cycle[d]
<1>1. /\ cycle' = [cycle EXCEPT ![c] = [pc |-> "waiting", pair |-> pair]]
      /\ c \in DOMAIN cycle /\ DOMAIN cycle = Cycles
  BY DEF StartCycle, Base, TypeOK
<1>2. cycle'[c] = [pc |-> "waiting", pair |-> pair] /\ \A d \in Cycles \ {c} : cycle'[d] = cycle[d]
  BY <1>1
<1>3. cycle'[c].pc = "waiting" /\ cycle[c].pc = "idle"
  BY <1>2 DEF StartCycle, Idle
<1> QED BY <1>2, <1>3 DEF InRound

RoundIds == UNION {DOMAIN cycle[c].snap : c \in {d \in Cycles : InRound(d)}}

LocksOK == lockedIds = RoundIds

\* The rounds are those that were running, with the orders they had.
LEMMA SameRounds ==
  ASSUME \A c \in Cycles : /\ InRound(c)' <=> InRound(c)
                           /\ InRound(c) => cycle'[c].snap = cycle[c].snap
  PROVE  RoundIds' = RoundIds
BY DEF RoundIds

LEMMA LocksStep ==
  ASSUME Base, LocksOK, [Next]_vars
  PROVE  LocksOK'
<1>1. \A c \in Cycles : \A r : cycle' = [cycle EXCEPT ![c] = r] =>
        cycle'[c] = r /\ \A d \in Cycles \ {c} : cycle'[d] = cycle[d]
  BY DEF Base, TypeOK
<1>2. CASE lockedIds' = lockedIds /\ cycle' = cycle
  BY <1>2 DEF LocksOK, RoundIds, InRound
<1>3. CASE \E c \in Cycles, pair \in Pairs : StartCycle(c, pair)
  <2>1. PICK c \in Cycles, pair \in Pairs : StartCycle(c, pair)
    BY <1>3
  <2>2. ~InRound(c) /\ ~InRound(c)' /\ \A d \in Cycles \ {c} : cycle'[d] = cycle[d]
    BY <2>1, StartIs
  <2>3. RoundIds' = RoundIds
    BY <2>2, SameRounds DEF InRound
  <2> QED BY <2>1, <2>3 DEF StartCycle, LocksOK
<1>4. CASE \E c \in Cycles : GivesUp(c)
  <2>1. PICK c \in Cycles : GivesUp(c)
    BY <1>4
  <2>2. ~InRound(c) /\ ~InRound(c)' /\ \A d \in Cycles \ {c} : cycle'[d] = cycle[d]
    BY <2>1, LeaveIs DEF GivesUp, At, InRound
  <2>3. RoundIds' = RoundIds
    BY <2>2, SameRounds DEF InRound
  <2> QED BY <2>1, <2>3 DEF GivesUp, LocksOK
<1>5. CASE \E c \in Cycles : cycle[c].pc = "waiting" /\ \E fair \in FairPrices[cycle[c].pair] : LockRound(c, fair)
  <2>1. PICK c \in Cycles : cycle[c].pc = "waiting" /\ \E fair \in FairPrices[cycle[c].pair] : LockRound(c, fair)
    BY <1>5
  <2>2. PICK fair \in FairPrices[cycle[c].pair] : LockRound(c, fair)
    BY <2>1
  <2>3. PICK r : r = NewRound(c, fair)
    OBVIOUS
  <2>4. r.pc = "matching"
    BY <2>3 DEF NewRound
  <2>5. cycle' = [cycle EXCEPT ![c] = r] /\ lockedIds' = lockedIds \union DOMAIN r.snap
    BY <2>1, <2>2, <2>3, LockIs
  <2>6. /\ InRound(c)' /\ ~InRound(c) /\ cycle'[c].snap = r.snap
        /\ \A d \in Cycles \ {c} : cycle'[d] = cycle[d]
    BY <1>1, <2>1, <2>4, <2>5 DEF InRound
  <2>7. RoundIds' = RoundIds \union DOMAIN r.snap
    <3>1. \A d \in Cycles \ {c} : (InRound(d)' <=> InRound(d)) /\ cycle'[d].snap = cycle[d].snap
      BY <2>6 DEF InRound
    <3> QED BY <2>6, <3>1 DEF RoundIds
  <2> QED BY <2>5, <2>7 DEF LocksOK
<1>6. CASE \E c \in Cycles : EndsRound(c)
  <2>1. PICK c \in Cycles : EndsRound(c)
    BY <1>6
  <2>2. /\ ~InRound(c)' /\ InRound(c) /\ \A d \in Cycles \ {c} : cycle'[d] = cycle[d]
    BY <2>1, LeaveIs DEF EndsRound, LeaveUnlocking
  <2>3. \A d \in Cycles \ {c} : /\ (InRound(d)' <=> InRound(d)) /\ cycle'[d].snap = cycle[d].snap
                                /\ InRound(d) => DOMAIN cycle[c].snap \intersect DOMAIN cycle[d].snap = {}
    BY <2>2, RoundsApart DEF InRound
  <2>4. RoundIds' = RoundIds \ DOMAIN cycle[c].snap
    BY <2>2, <2>3 DEF RoundIds
  <2> QED BY <2>1, <2>4 DEF EndsRound, LeaveUnlocking, LocksOK
<1>7. CASE \E c \in Cycles : \E applied \in RoundResults(c) : ApplyRound(c, applied)
  <2>1. PICK c \in Cycles : \E applied \in RoundResults(c) : ApplyRound(c, applied)
    BY <1>7
  <2>2. PICK applied \in RoundResults(c) : ApplyRound(c, applied)
    BY <2>1
  <2>3. /\ InRound(c) /\ cycle'[c].pc = "submitting" /\ cycle'[c].snap = cycle[c].snap
        /\ \A d \in Cycles \ {c} : cycle'[d] = cycle[d]
    BY <2>2, ApplyIsMove
  <2>4. RoundIds' = RoundIds
    BY <2>3, SameRounds DEF InRound
  <2> QED BY <2>2, <2>4 DEF ApplyRound, LocksOK
<1>8. CASE \/ \E c \in Cycles, tx \in {"pending", "refused"} : Submit(c, tx)
           \/ \E c \in Cycles : ReportOutcomes(c)
  <2>1. PICK c \in Cycles : ReportOutcomes(c) \/ \E tx \in {"pending", "refused"} : Submit(c, tx)
    BY <1>8
  <2>2. /\ InRound(c)' /\ InRound(c) /\ cycle'[c].snap = cycle[c].snap
    BY <2>1, SubmitIsMove DEF InRound
  <2>3. \A d \in Cycles \ {c} : cycle'[d] = cycle[d]
    BY <1>1, <2>1 DEF Submit, ReportOutcomes
  <2>4. RoundIds' = RoundIds
    BY <2>2, <2>3, SameRounds DEF InRound
  <2> QED BY <2>1, <2>4 DEF Submit, ReportOutcomes, LocksOK
<1>9. CASE Restart
  <2>1. lockedIds' = {} /\ \A c \in Cycles : ~InRound(c)'
    BY <1>9 DEF Restart, InRound, Idle
  <2> QED BY <2>1 DEF LocksOK, RoundIds
<1>10. CASE \/ \E o \in OrderIds : Lists(o) \/ Cancels(o) \/ Deposit(o) \/ Withdraws(o)
            \/ \E i \in DOMAIN matches : MineSwap(i) \/ RevertSwap(i)
            \/ UNCHANGED vars
  BY <1>2, <1>10 DEF Lists, Cancels, BookOnly, Deposit, Withdraws, MineSwap, RevertSwap, vars, engineVars
<1> QED BY <1>3, <1>4, <1>5, <1>6, <1>7, <1>8, <1>9, <1>10, StepKinds DEF Base

LEMMA LocksHold == Spec => []LocksOK
<1>1. Init => LocksOK
  BY DEF Init, LocksOK, RoundIds, InRound, Idle
<1>2. Base /\ LocksOK /\ [Next]_vars => LocksOK'
  BY LocksStep
<1> QED BY <1>1, <1>2, BaseHolds, PTL DEF Spec

\* The locked orders are those of the rounds that run, and no two rounds share
\* one (runner.py, lines 16 to 44).
THEOREM LocksAreOfRounds == Spec => []LocksAreRounds
<1>1. Base /\ LocksOK => LocksAreRounds
  <2>1. Base => \A c, d \in Cycles : c # d /\ InRound(c) /\ InRound(d) =>
                  DOMAIN cycle[c].snap \intersect DOMAIN cycle[d].snap = {}
    BY RoundsApart
  <2> QED BY <2>1 DEF LocksOK, RoundIds, LocksAreRounds
<1> QED BY <1>1, BaseHolds, LocksHold, PTL

(***************************************************************************)
(* What is matched and what the book shows.                                *)
(***************************************************************************)

\* The matches of an order agree with its entry in the book.
OrderAccounts(order, matched, amount) ==
  /\ matched <= amount /\ order.filled <= matched
  /\ order.status \in {"absent", "pending", "partial", "filled"} => order.filled = matched
  /\ order.status = "absent" => order.filled = 0

FillsOK == \A o \in OrderIds : OrderAccounts(book[o], Matched(o), Terms[o].amount)

\* Nothing has been matched of a round's orders since it copied them.
UntakenIn(r, o) == r.snap[o].filled = Matched(o) /\ book[o].status \in {"pending", "partial", "cancelled"}

Untaken ==
  \A c \in Cycles : cycle[c].pc = "matching" => \A o \in DOMAIN cycle[c].snap : UntakenIn(cycle[c], o)

Fills == FillsOK /\ Untaken

LEMMA MatchedType ==
  ASSUME Base, NEW o
  PROVE  Matched(o) \in Nat
<1>1. \A m \in Matches : m.base \in Nat
  BY DEF Matches, Amounts
<1> QED BY <1>1, FillInType DEF Base, TypeOK, Matched

LEMMA MatchedSame ==
  ASSUME SameMatches, NEW o
  PROVE  Matched(o)' = Matched(o)
<1>1. Shares(matches', o) = Shares(matches, o) /\ DOMAIN matches' = DOMAIN matches
  BY DEF SameMatches, SameCrossing, Shares, Share
<1>2. FillIn(matches', o) = FillIn(matches, o)
  BY <1>1, FillInIs
<1> QED BY <1>2 DEF Matched

\* What a round's matches do to an order.
LEMMA ApplyEffect ==
  ASSUME Base, NEW c \in Cycles, NEW applied \in RoundResults(c), ApplyRound(c, applied), NEW o \in OrderIds
  PROVE  /\ FillIn(applied, o) \in Nat /\ Matched(o)' = Matched(o) + FillIn(applied, o)
         /\ OrderShown(book[o], book'[o], Terms[o].amount, FillIn(applied, o), FillIn(applied, o))
         /\ o \in DOMAIN cycle[c].snap => FillIn(applied, o) <= Room(cycle[c].snap[o])
         /\ o \notin DOMAIN cycle[c].snap => FillIn(applied, o) = 0
<1>1. /\ InRound(c) /\ applied \in Seq(Crossings) /\ matches' = matches \o Kept(applied)
      /\ book' = ApplyMatches(book, applied)
  BY ApplyIsMove DEF ApplyRound
<1>2. /\ FillIn(applied, o) \in Nat
      /\ OrderShown(book[o], book'[o], Terms[o].amount, FillIn(applied, o), FillIn(applied, o))
  BY <1>1, RoundShown, BookTyped DEF Base, BookFits
<1>3. Matched(o)' = Matched(o) + FillIn(applied, o)
  <2>1. PICK m \in Nat, n \in Nat :
          /\ m = Len(matches) /\ n = Len(applied) /\ DOMAIN matches' = 1..(m + n) /\ DOMAIN applied = 1..n
          /\ \A i \in 1..m : matches'[i] = matches[i]
          /\ \A i \in 1..n : matches'[m + i] = Kept(applied)[i]
    BY <1>1, KeptIs DEF Base, TypeOK
  <2>2. PICK es : es = matches'
    OBVIOUS
  <2>3. \A i \in 1..m : Share(es[i], o) = Share(matches[i], o)
    BY <2>1, <2>2
  <2>4. \A i \in 1..n : Share(es[m + i], o) = Share(applied[i], o)
    <3>1. \A i \in 1..n : Share(Kept(applied)[i], o) = Share(applied[i], o)
      BY <2>1 DEF Kept, Share
    <3> QED BY <2>1, <2>2, <3>1
  <2>5. (\A x \in Matches : x.base \in Nat) /\ (\A x \in Crossings : x.base \in Nat)
    BY DEF Matches, Crossings, Amounts
  <2>6. matches \in Seq(Matches)
    BY DEF Base, TypeOK
  <2>7. SharesAppended(es, matches, applied, o)
    BY <2>1, <2>2, <2>3, <2>4 DEF SharesAppended
  <2>8. FillIn(es, o) = FillIn(matches, o) + FillIn(applied, o)
    BY <1>1, <2>5, <2>6, <2>7, FillInAppended
  <2> QED BY <2>2, <2>8 DEF Matched
<1>4. ASSUME o \notin DOMAIN cycle[c].snap PROVE FillIn(applied, o) = 0
  <2>1. PICK snap : snap = cycle[c].snap
    OBVIOUS
  <2>2. PICK n \in Nat : n = Len(applied) /\ DOMAIN applied = 1..n
    BY <1>1
  <2>3. \A i \in 1..n : applied[i].maker \in DOMAIN snap /\ applied[i].taker \in DOMAIN snap
    <3>1. applied \in Seq(MatchesOf(snap))
      BY <1>1, <2>1, RoundApplies
    <3>2. \A i \in 1..n : applied[i] \in MatchesOf(snap)
      BY <2>2, <3>1
    <3> QED BY <3>2 DEF MatchesOf
  <2>4. IsFiniteSet(1..n)
    BY FS_Interval
  <2>5. \A i \in 1..n : Shares(applied, o)[i] = 0
    BY <1>4, <2>1, <2>2, <2>3 DEF Shares, Share
  <2> QED BY <2>2, <2>4, <2>5, SumZero, FillInIs
<1>5. o \in DOMAIN cycle[c].snap => FillIn(applied, o) <= Room(cycle[c].snap[o])
  BY <1>1, RoundApplies
<1> QED BY <1>2, <1>3, <1>4, <1>5

\* An order's account after a round has filled it.
LEMMA AccountAfter ==
  ASSUME NEW before \in Orders, NEW after \in Orders, NEW amount \in Nat, NEW matched \in Nat, NEW x \in Nat,
         OrderAccounts(before, matched, amount), OrderFits(before, amount),
         OrderShown(before, after, amount, x, x),
         x = 0 \/ (matched + x <= amount /\ before.status \in {"pending", "partial", "cancelled"})
  PROVE  OrderAccounts(after, matched + x, amount)
<1>1. PICK bf \in Nat, af \in Nat : before.filled = bf /\ after.filled = af
  BY DEF Orders
<1>2. CASE x = 0
  BY <1>2 DEF OrderShown, OrderAccounts
<1>3. CASE x # 0 /\ IsActive(before)
  <2>1. bf = matched /\ matched + x <= amount
    BY <1>1, <1>3 DEF OrderAccounts, IsActive
  <2>2. af = bf + x /\ after.status \in {before.status, "partial", "filled"}
    BY <1>1, <1>3, <2>1 DEF OrderShown
  <2>3. after.status # "absent"
    BY <1>3, <2>2 DEF IsActive
  <2> QED BY <1>1, <2>1, <2>2, <2>3 DEF OrderAccounts
<1>4. CASE x # 0 /\ ~IsActive(before)
  <2>1. before.status = "cancelled" /\ after = before /\ bf <= matched /\ matched + x <= amount
    BY <1>1, <1>4 DEF IsActive, OrderShown, OrderAccounts
  <2>2. bf <= matched + x
    BY <2>1
  <2> QED BY <1>1, <2>1, <2>2 DEF OrderAccounts
<1> QED BY <1>2, <1>3, <1>4

\* The rounds that are being matched are those that were, or one that has just
\* copied its orders.
LEMMA MatchingMoves ==
  ASSUME Base, [Next]_vars, NEW d \in Cycles, cycle'[d].pc = "matching"
  PROVE  \/ cycle'[d] = cycle[d]
         \/ cycle[d].pc = "waiting" /\ \E fair \in FairPrices[cycle[d].pair] : LockRound(d, fair)
<1>1. InRound(d)'
  BY DEF InRound
<1>2. ASSUME NEW applied \in RoundResults(d), ApplyRound(d, applied) PROVE FALSE
  BY <1>2, ApplyIsMove
<1>3. ~(\E tx \in {"pending", "refused"} : Submit(d, tx)) /\ ~ReportOutcomes(d)
  BY SubmitIsMove
<1> QED BY <1>1, <1>2, <1>3, CycleMoves

LEMMA AccountsStep ==
  ASSUME Base, Fills, [Next]_vars
  PROVE  FillsOK'
<1> SUFFICES ASSUME NEW o \in OrderIds PROVE OrderAccounts(book'[o], Matched(o)', Terms[o].amount)
  BY DEF FillsOK
<1>1. book \in Books /\ book[o] \in Orders /\ OrderAccounts(book[o], Matched(o), Terms[o].amount)
      /\ OrderFits(book[o], Terms[o].amount)
  BY BookTyped DEF Base, Fills, FillsOK, BookFits, Books
<1>2. PICK filled \in Nat, amount \in Nat : filled = book[o].filled /\ amount = Terms[o].amount
  BY <1>1, TermsFields DEF Orders
<1>3. CASE \E c \in Cycles : \E applied \in RoundResults(c) : ApplyRound(c, applied)
  <2>1. PICK c \in Cycles : \E applied \in RoundResults(c) : ApplyRound(c, applied)
    BY <1>3
  <2>2. PICK applied \in RoundResults(c) : ApplyRound(c, applied)
    BY <2>1
  <2>3. PICK x \in Nat : x = FillIn(applied, o)
    BY <2>2, ApplyEffect
  <2>4. /\ Matched(o)' = Matched(o) + x /\ OrderShown(book[o], book'[o], amount, x, x)
        /\ o \in DOMAIN cycle[c].snap => x <= Room(cycle[c].snap[o])
        /\ o \notin DOMAIN cycle[c].snap => x = 0
    BY <1>2, <2>2, <2>3, ApplyEffect
  <2>5. PICK matched \in Nat : matched = Matched(o)
    BY MatchedType
  <2>6. x = 0 \/ (matched + x <= amount /\ book[o].status \in {"pending", "partial", "cancelled"})
    <3>1. CASE o \notin DOMAIN cycle[c].snap
      BY <2>4, <3>1
    <3>2. CASE o \in DOMAIN cycle[c].snap
      <4>1. cycle[c].pc = "matching" /\ InRound(c)
        BY <2>2, ApplyIsMove
      <4>2. UntakenIn(cycle[c], o) /\ CopyOK(cycle[c], o)
        BY <3>2, <4>1 DEF Fills, Untaken, Base, SnapsOK
      <4>3. Room(cycle[c].snap[o]) = amount - matched
        BY <1>2, <2>5, <4>2 DEF Room, UntakenIn, CopyOK, CopyOf
      <4> QED BY <2>4, <3>2, <4>2, <4>3 DEF UntakenIn
    <3> QED BY <3>1, <3>2
  <2>7. book'[o] \in Orders
    BY BookStep DEF Books
  <2> QED BY <1>1, <1>2, <2>4, <2>5, <2>6, <2>7, AccountAfter
<1>4. CASE SameMatches
  <2>1. Matched(o)' = Matched(o)
    BY <1>4, MatchedSame
  <2>2. PICK matched \in Nat : matched = Matched(o)
    BY MatchedType
  <2>3. CASE book'[o] = book[o]
    BY <1>1, <2>1, <2>3
  <2>4. CASE \E x \in OrderIds : Lists(x)
    <3>1. PICK x \in OrderIds : book[x].status = "absent" /\ book' = [book EXCEPT ![x] = [status |-> "pending", filled |-> 0]]
      BY <2>4 DEF Lists, Add
    <3>2. CASE x = o
      <4>1. book'[o] = [status |-> "pending", filled |-> 0] /\ book[o].status = "absent"
        BY <1>1, <3>1, <3>2 DEF Books
      <4>2. matched = 0 /\ matched <= amount
        BY <1>1, <1>2, <2>2, <4>1 DEF OrderAccounts
      <4> QED BY <1>2, <2>1, <2>2, <4>1, <4>2 DEF OrderAccounts
    <3> QED BY <1>1, <2>3, <3>1, <3>2 DEF Books
  <2>5. CASE \E x \in OrderIds : Cancels(x)
    <3>1. PICK x \in OrderIds : book' = [book EXCEPT ![x].status = "cancelled"]
      BY <2>5 DEF Cancels, Cancel
    <3>2. CASE x = o
      <4>1. book'[o].status = "cancelled" /\ book'[o].filled = filled
        BY <1>1, <1>2, <3>1, <3>2 DEF Books, Orders
      <4> QED BY <1>1, <1>2, <2>1, <2>2, <4>1 DEF OrderAccounts
    <3> QED BY <1>1, <2>3, <3>1, <3>2 DEF Books
  <2>6. CASE Restart
    <3>1. book'[o] = IF book[o].status = "absent" THEN book[o] ELSE [book[o] EXCEPT !.status = "lost"]
      BY <2>6 DEF Restart
    <3>2. CASE book[o].status # "absent"
      <4>1. book'[o].status = "lost" /\ book'[o].filled = filled
        BY <1>1, <1>2, <3>1, <3>2 DEF Orders
      <4> QED BY <1>1, <1>2, <2>1, <2>2, <4>1 DEF OrderAccounts
    <3> QED BY <2>3, <3>1, <3>2
  <2>7. CASE \/ \E c \in Cycles, pair \in Pairs : StartCycle(c, pair)
             \/ \E c \in Cycles : GivesUp(c) \/ EndsRound(c) \/ ReportOutcomes(c)
             \/ \E c \in Cycles : cycle[c].pc = "waiting" /\ \E fair \in FairPrices[cycle[c].pair] : LockRound(c, fair)
             \/ \E c \in Cycles, tx \in {"pending", "refused"} : Submit(c, tx)
             \/ \E x \in OrderIds : Deposit(x) \/ Withdraws(x)
             \/ \E i \in DOMAIN matches : MineSwap(i) \/ RevertSwap(i)
             \/ UNCHANGED vars
    <3>1. book' = book
      BY <2>7 DEF StartCycle, GivesUp, LockRound, EndsRound, Submit, ReportOutcomes, Deposit, Withdraws, MineSwap,
                  RevertSwap, vars, engineVars
    <3> QED BY <2>3, <3>1
  <2> QED BY <1>3, <2>4, <2>5, <2>6, <2>7, StepKinds DEF Base
<1> QED BY <1>3, <1>4, MatchesStep

LEMMA UntakenStep ==
  ASSUME Base, Fills, [Next]_vars
  PROVE  Untaken'
<1> SUFFICES ASSUME NEW d \in Cycles, cycle'[d].pc = "matching", NEW o \in DOMAIN cycle'[d].snap
             PROVE  /\ cycle'[d].snap[o].filled = Matched(o)'
                    /\ book'[o].status \in {"pending", "partial", "cancelled"}
  BY DEF Untaken, UntakenIn
<1>1. CASE cycle[d].pc = "waiting" /\ \E fair \in FairPrices[cycle[d].pair] : LockRound(d, fair)
  <2>1. PICK fair \in FairPrices[cycle[d].pair] : LockRound(d, fair)
    BY <1>1
  <2>2. PICK r : r = NewRound(d, fair)
    OBVIOUS
  <2>3. /\ cycle' = [cycle EXCEPT ![d] = r]
        /\ \A x \in DOMAIN r.snap : x \in OrderIds /\ IsActive(book[x]) /\ r.snap[x].filled = book[x].filled
    BY <1>1, <2>1, <2>2, LockIs
  <2>4. cycle'[d] = r
    BY <2>3 DEF Base, TypeOK
  <2>5. o \in OrderIds /\ IsActive(book[o]) /\ cycle'[d].snap[o].filled = book[o].filled
    BY <2>3, <2>4
  <2>6. book[o].filled = Matched(o)
    BY <2>5 DEF Fills, FillsOK, OrderAccounts, IsActive
  <2>7. matches' = matches /\ book' = book
    BY <2>1 DEF LockRound
  <2> QED BY <2>5, <2>6, <2>7 DEF Matched, IsActive
<1>2. CASE cycle'[d] = cycle[d]
  <2>1. InRound(d) /\ cycle[d].pc = "matching" /\ o \in DOMAIN cycle[d].snap
    BY <1>2 DEF InRound
  <2>2. o \in OrderIds
    BY <2>1, CycleFields DEF Base, IsRound
  <2>3. cycle[d].snap[o].filled = Matched(o) /\ book[o].status \in {"pending", "partial", "cancelled"}
    BY <2>1 DEF Fills, Untaken, UntakenIn
  <2>4. CASE \E c \in Cycles : \E applied \in RoundResults(c) : ApplyRound(c, applied)
    <3>1. PICK c \in Cycles : \E applied \in RoundResults(c) : ApplyRound(c, applied)
      BY <2>4
    <3>2. PICK applied \in RoundResults(c) : ApplyRound(c, applied)
      BY <3>1
    <3>3. c # d /\ InRound(c)
      BY <3>2, ApplyIsMove
    <3>4. o \notin DOMAIN cycle[c].snap
      BY <2>1, <3>3, RoundsApart
    <3>5. /\ FillIn(applied, o) = 0 /\ Matched(o)' = Matched(o) + FillIn(applied, o)
          /\ OrderShown(book[o], book'[o], Terms[o].amount, FillIn(applied, o), FillIn(applied, o))
      BY <2>2, <3>2, <3>4, ApplyEffect
    <3>6. Matched(o)' = Matched(o) /\ book'[o] = book[o]
      BY <3>5, MatchedType DEF OrderShown
    <3> QED BY <1>2, <2>3, <3>6
  <2>5. CASE SameMatches
    <3>1. Matched(o)' = Matched(o)
      BY <2>5, MatchedSame
    <3>2. CASE \E x \in OrderIds : Lists(x)
      <4>1. PICK x \in OrderIds : book[x].status = "absent" /\ book' = [book EXCEPT ![x] = [status |-> "pending", filled |-> 0]]
        BY <3>2 DEF Lists, Add
      <4> QED BY <1>2, <2>3, <3>1, <4>1
    <3>3. CASE \E x \in OrderIds : Cancels(x)
      <4>1. PICK x \in OrderIds : book' = [book EXCEPT ![x].status = "cancelled"]
        BY <3>3 DEF Cancels, Cancel
      <4>2. book'[o].status = book[o].status \/ book'[o].status = "cancelled"
        BY <2>2, <4>1, BookTyped DEF Base, Books, Orders
      <4> QED BY <1>2, <2>3, <3>1, <4>2
    <3>4. CASE Restart
      BY <3>4 DEF Restart, Idle
    <3>5. CASE \/ \E c \in Cycles, pair \in Pairs : StartCycle(c, pair)
               \/ \E c \in Cycles : GivesUp(c) \/ EndsRound(c) \/ ReportOutcomes(c)
               \/ \E c \in Cycles : cycle[c].pc = "waiting" /\ \E fair \in FairPrices[cycle[c].pair] : LockRound(c, fair)
               \/ \E c \in Cycles, tx \in {"pending", "refused"} : Submit(c, tx)
               \/ \E x \in OrderIds : Deposit(x) \/ Withdraws(x)
               \/ \E i \in DOMAIN matches : MineSwap(i) \/ RevertSwap(i)
               \/ UNCHANGED vars
      <4>1. book' = book
        BY <3>5 DEF StartCycle, GivesUp, LockRound, EndsRound, Submit, ReportOutcomes, Deposit, Withdraws, MineSwap,
                    RevertSwap, vars, engineVars
      <4> QED BY <1>2, <2>3, <3>1, <4>1
    <3> QED BY <2>4, <3>2, <3>3, <3>4, <3>5, StepKinds DEF Base
  <2> QED BY <2>4, <2>5, MatchesStep
<1> QED BY <1>1, <1>2, MatchingMoves

LEMMA FillsHold == Spec => []Fills
<1>1. Init => Fills
  <2> SUFFICES ASSUME Init PROVE Fills
    OBVIOUS
  <2>1. Untaken
    BY DEF Init, Untaken, Idle
  <2>2. matches = << >> /\ \A o \in OrderIds : book[o] = [status |-> "absent", filled |-> 0]
    BY DEF Init
  <2>3. \A o \in OrderIds : Matched(o) = 0
    BY <2>2, FillInEmpty DEF Matched
  <2> QED BY <2>1, <2>2, <2>3, TermsFields DEF Fills, FillsOK, OrderAccounts
<1>2. Base /\ Fills /\ [Next]_vars => Fills'
  BY AccountsStep, UntakenStep DEF Fills
<1> QED BY <1>1, <1>2, BaseHolds, PTL DEF Spec

\* However rounds, cancels and restarts interleave, the swaps decided for an
\* order never add up to more than its amount (runner.py, lines 16 to 18).
THEOREM OrdersNotOversold == Spec => []NeverOversold
<1>1. Fills => NeverOversold
  BY DEF Fills, FillsOK, OrderAccounts, NeverOversold
<1> QED BY <1>1, FillsHold, PTL

\* The book shows of every order what has been matched of it.
THEOREM BookIsMatches == Spec => []BookShowsMatches
<1>1. Base /\ Fills => BookShowsMatches
  <2> SUFFICES ASSUME Base, Fills, NEW o \in OrderIds
               PROVE  /\ book[o].filled <= Matched(o)
                      /\ book[o].status \in {"absent", "pending", "partial", "filled"} => book[o].filled = Matched(o)
                      /\ book[o].status = "filled" <=>
                           book[o].filled = Terms[o].amount /\ book[o].status # "lost"
    BY DEF BookShowsMatches
  <2>1. OrderAccounts(book[o], Matched(o), Terms[o].amount) /\ OrderFits(book[o], Terms[o].amount)
    BY DEF Base, Fills, FillsOK, BookFits
  <2> QED BY <2>1 DEF OrderAccounts, OrderFits
<1> QED BY <1>1, BaseHolds, FillsHold, PTL

(***************************************************************************)
(* What a step never does.                                                 *)
(***************************************************************************)

\* An order that no round has locked gets no match.
LEMMA OnlyLockedMatched ==
  ASSUME Base, LocksOK, [Next]_vars, NEW o \in OrderIds, o \notin lockedIds
  PROVE  Matched(o)' = Matched(o)
<1>1. CASE SameMatches
  BY <1>1, MatchedSame
<1>2. CASE \E c \in Cycles : \E applied \in RoundResults(c) : ApplyRound(c, applied)
  <2>1. PICK c \in Cycles : \E applied \in RoundResults(c) : ApplyRound(c, applied)
    BY <1>2
  <2>2. PICK applied \in RoundResults(c) : ApplyRound(c, applied)
    BY <2>1
  <2>3. InRound(c)
    BY <2>2, ApplyIsMove
  <2>4. o \notin DOMAIN cycle[c].snap
    BY <2>3 DEF LocksOK, RoundIds
  <2>5. FillIn(applied, o) = 0 /\ Matched(o)' = Matched(o) + FillIn(applied, o)
    BY <2>2, <2>4, ApplyEffect
  <2> QED BY <2>5, MatchedType
<1> QED BY <1>1, <1>2, MatchesStep

\* A step locks only orders that are active.
LEMMA OnlyActiveLocked ==
  ASSUME Base, [Next]_vars, NEW o \in lockedIds' \ lockedIds
  PROVE  IsActive(book[o])
<1>1. CASE \E c \in Cycles : cycle[c].pc = "waiting" /\ \E fair \in FairPrices[cycle[c].pair] : LockRound(c, fair)
  BY <1>1, LockIs
<1>2. CASE lockedIds' \subseteq lockedIds
  BY <1>2
<1>3. CASE \/ \E c \in Cycles, pair \in Pairs : StartCycle(c, pair)
           \/ \E c \in Cycles : GivesUp(c) \/ EndsRound(c) \/ ReportOutcomes(c)
           \/ \E c \in Cycles : \E applied \in RoundResults(c) : ApplyRound(c, applied)
           \/ \E c \in Cycles, tx \in {"pending", "refused"} : Submit(c, tx)
           \/ \E x \in OrderIds : Lists(x) \/ Cancels(x) \/ Deposit(x) \/ Withdraws(x)
           \/ \E i \in DOMAIN matches : MineSwap(i) \/ RevertSwap(i)
           \/ Restart
           \/ UNCHANGED vars
  BY <1>2, <1>3 DEF StartCycle, GivesUp, EndsRound, LeaveUnlocking, ReportOutcomes, ApplyRound, Submit, Lists, Cancels,
                    BookOnly, Deposit, Withdraws, MineSwap, RevertSwap, Restart, vars, engineVars
<1> QED BY <1>1, <1>3, StepKinds DEF Base

\* An order that is cancelled, filled or lost enters no later round and gets no
\* match, unless a round has already copied it (orderbook.py, lines 40 to 72; engine.py, line 148).
THEOREM InactiveStayUnmatched == Spec => InactiveNotMatched
<1>1. Base /\ LocksOK /\ [Next]_vars =>
        [\A o \in OrderIds : ~IsActive(book[o]) /\ o \notin lockedIds =>
           o \notin lockedIds' /\ Matched(o)' = Matched(o)]_vars
  BY OnlyLockedMatched, OnlyActiveLocked
<1> QED BY <1>1, BaseHolds, LocksHold, PTL DEF Spec, InactiveNotMatched

(***************************************************************************)
(* What the submission of a round does to its swaps.                       *)
(***************************************************************************)

\* The swaps a round has still to send are its own, each of them once, and
\* none of them has been sent.
FreshIn(r) ==
  \A k \in DOMAIN r.queue :
    /\ r.queue[k] \in r.round /\ matches[r.queue[k]].tx = "new"
    /\ \A l \in DOMAIN r.queue : r.queue[k] = r.queue[l] => k = l

QueuesFresh == \A c \in Cycles : cycle[c].pc = "submitting" => FreshIn(cycle[c])

\* The swaps of two rounds are different, and all of them are in the history.
LEMMA RoundsShareNoSwap ==
  ASSUME Base, NEW c \in Cycles, NEW d \in Cycles, c # d, cycle[c].pc = "submitting", cycle[d].pc = "submitting"
  PROVE  cycle[c].round \intersect cycle[d].round = {}
<1>1. cycle[c].pair # cycle[d].pair
  BY RoundsApart DEF InRound
<1> QED BY <1>1 DEF Base, RoundsListed, SwapsOf

\* The swap a cycle submits.
LEMMA SubmitsFresh ==
  ASSUME Base, QueuesFresh, NEW c \in Cycles, NEW tx \in {"pending", "refused"}, Submit(c, tx)
  PROVE  \E i \in cycle[c].round :
           /\ i \in DOMAIN matches /\ matches[i].tx = "new" /\ matches' = WithTx(i, tx)
           /\ cycle[c].pc = "submitting" /\ FreshIn(cycle[c])
           /\ i = Head(cycle[c].queue) /\ cycle[c].queue # << >> /\ cycle[c].queue \in Seq(Nat)
           /\ cycle'[c].queue = Tail(cycle[c].queue)
<1>1. cycle[c].pc = "submitting" /\ cycle[c].queue # << >> /\ matches' = WithTx(Head(cycle[c].queue), tx)
  BY DEF Submit, At
<1>2. PICK r : r = cycle[c]
  OBVIOUS
<1>3. IsRound(r) /\ r.queue \in Seq(Nat) /\ FreshIn(r)
  BY <1>1, <1>2, CycleFields, RoundFields DEF Base, InRound, QueuesFresh
<1>4. 1 \in DOMAIN r.queue /\ Head(r.queue) = r.queue[1]
  BY <1>1, <1>2, <1>3
<1>5. Head(r.queue) \in r.round /\ matches[Head(r.queue)].tx = "new"
  BY <1>3, <1>4 DEF FreshIn
<1>6. r.round \subseteq DOMAIN matches
  BY <1>1, <1>2 DEF Base, RoundsListed, SwapsOf
<1>7. cycle' = [cycle EXCEPT ![c] = [r EXCEPT !.queue = Tail(r.queue)]]
  BY <1>2 DEF Submit
<1>8. cycle'[c] = [r EXCEPT !.queue = Tail(r.queue)]
  BY <1>7 DEF Base, TypeOK
<1>9. cycle'[c].queue = Tail(r.queue)
  BY <1>3, <1>8 DEF IsRound
<1> QED BY <1>1, <1>2, <1>3, <1>5, <1>6, <1>9

\* A swap that has not been sent stays so, unless its round sends it.
LEMMA NewStays ==
  ASSUME Base, QueuesFresh, [Next]_vars, NEW d \in Cycles, cycle[d].pc = "submitting", cycle'[d] = cycle[d],
         NEW i \in cycle[d].round, matches[i].tx = "new"
  PROVE  matches'[i].tx = "new"
<1>1. i \in DOMAIN matches /\ matches \in Seq(Matches)
  BY DEF Base, RoundsListed, SwapsOf, TypeOK
<1>2. CASE matches' = matches
  BY <1>2
<1>3. CASE \E c \in Cycles, tx \in {"pending", "refused"} : Submit(c, tx)
  <2>1. PICK c \in Cycles, tx \in {"pending", "refused"} : Submit(c, tx)
    BY <1>3
  <2>2. PICK j \in cycle[c].round :
          /\ j \in DOMAIN matches /\ matches' = WithTx(j, tx) /\ cycle[c].pc = "submitting"
          /\ j = Head(cycle[c].queue) /\ cycle[c].queue # << >> /\ cycle[c].queue \in Seq(Nat)
          /\ cycle'[c].queue = Tail(cycle[c].queue)
    BY <2>1, SubmitsFresh
  <2>3. c # d
    <3>1. SUFFICES ASSUME Tail(cycle[c].queue) = cycle[c].queue PROVE FALSE
      BY <2>2
    <3>2. PICK q \in Seq(Nat) : q = cycle[c].queue /\ q # << >>
      BY <2>2
    <3>3. PICK n \in Nat : n = Len(q) /\ n - 1 = Len(Tail(q))
      BY <3>2
    <3>4. n = n - 1
      BY <3>1, <3>2, <3>3, Zenon
    <3> QED BY <3>4
  <2>4. i # j
    BY <2>2, <2>3, RoundsShareNoSwap
  <2>5. tx \in Txs
    BY DEF Txs
  <2> QED BY <1>1, <2>2, <2>4, <2>5, WithTxIs
<1>4. CASE \E j \in DOMAIN matches : MineSwap(j) \/ RevertSwap(j)
  <2>1. PICK j \in DOMAIN matches : MineSwap(j) \/ RevertSwap(j)
    BY <1>4
  <2>2. PICK tx \in Txs : matches[j].tx = "pending" /\ matches' = WithTx(j, tx)
    BY <2>1 DEF MineSwap, RevertSwap, Txs
  <2> QED BY <1>1, <2>2, WithTxIs
<1>5. CASE \E c \in Cycles : \E applied \in RoundResults(c) : ApplyRound(c, applied)
  <2>1. PICK c \in Cycles : \E applied \in RoundResults(c) : ApplyRound(c, applied)
    BY <1>5
  <2>2. PICK applied \in RoundResults(c) : ApplyRound(c, applied)
    BY <2>1
  <2>3. matches' = matches \o Kept(applied) /\ applied \in Seq(Crossings)
    BY <2>2, ApplyIsMove
  <2>4. matches'[i] = matches[i]
    BY <1>1, <2>3, KeptIs
  <2> QED BY <2>4
<1>6. CASE Restart
  BY <1>6 DEF Restart, Idle
<1>7. CASE \/ \E c \in Cycles, pair \in Pairs : StartCycle(c, pair)
           \/ \E c \in Cycles : GivesUp(c) \/ EndsRound(c) \/ ReportOutcomes(c)
           \/ \E c \in Cycles : cycle[c].pc = "waiting" /\ \E fair \in FairPrices[cycle[c].pair] : LockRound(c, fair)
           \/ \E o \in OrderIds : Lists(o) \/ Cancels(o) \/ Deposit(o) \/ Withdraws(o)
           \/ UNCHANGED vars
  BY <1>2, <1>7 DEF StartCycle, GivesUp, LockRound, EndsRound, ReportOutcomes, Lists, Cancels, BookOnly, Deposit,
                    Withdraws, vars
<1> QED BY <1>3, <1>4, <1>5, <1>6, <1>7, StepKinds DEF Base

\* A round's own swaps are fresh.
LEMMA ApplyQueues ==
  ASSUME Base, NEW c \in Cycles, NEW applied \in RoundResults(c), ApplyRound(c, applied),
         NEW k \in DOMAIN cycle'[c].queue
  PROVE  /\ cycle'[c].queue[k] \in cycle'[c].round /\ matches'[cycle'[c].queue[k]].tx = "new"
         /\ \A l \in DOMAIN cycle'[c].queue : cycle'[c].queue[k] = cycle'[c].queue[l] => k = l
<1>1. /\ InRound(c) /\ applied \in Seq(Crossings) /\ matches' = matches \o Kept(applied)
      /\ cycle'[c].round = {Len(matches) + i : i \in 1..Len(applied)}
  BY ApplyIsMove
<1>2. PICK m \in Nat, n \in Nat :
        /\ m = Len(matches) /\ n = Len(applied) /\ DOMAIN applied = 1..n
        /\ \A i \in 1..n : matches'[m + i] = Kept(applied)[i]
  BY <1>1, KeptIs DEF Base, TypeOK
<1>3. PICK queue : queue = [i \in 1..n |-> m + i]
  OBVIOUS
<1>4. PICK r : r = cycle[c] /\ IsRound(r)
  BY <1>1, CycleFields DEF Base
<1>5. cycle'[c] = [r EXCEPT !.pc = "submitting", !.queue = queue, !.round = {queue[i] : i \in 1..n}]
  BY <1>2, <1>3, <1>4 DEF ApplyRound, Base, TypeOK
<1>6. cycle'[c].queue = queue
  BY <1>4, <1>5 DEF IsRound
<1>7. k \in 1..n /\ cycle'[c].queue[k] = m + k
  BY <1>3, <1>6
<1>8. matches'[m + k].tx = "new"
  <2>1. k \in DOMAIN applied /\ matches'[m + k] = Kept(applied)[k]
    BY <1>2, <1>7
  <2>2. Kept(applied)[k].tx = "new"
    BY <2>1 DEF Kept
  <2> QED BY <2>1, <2>2
<1>9. m + k \in cycle'[c].round
  BY <1>1, <1>2, <1>7
<1>10. ASSUME NEW l \in DOMAIN queue, queue[k] = queue[l] PROVE k = l
  BY <1>3, <1>7, <1>10
<1> QED BY <1>6, <1>7, <1>8, <1>9, <1>10

LEMMA FreshStep ==
  ASSUME Base, QueuesFresh, [Next]_vars
  PROVE  QueuesFresh'
<1> SUFFICES ASSUME NEW d \in Cycles, cycle'[d].pc = "submitting", NEW k \in DOMAIN cycle'[d].queue
             PROVE  /\ cycle'[d].queue[k] \in cycle'[d].round /\ matches'[cycle'[d].queue[k]].tx = "new"
                    /\ \A l \in DOMAIN cycle'[d].queue : cycle'[d].queue[k] = cycle'[d].queue[l] => k = l
  BY DEF QueuesFresh, FreshIn
<1>1. CASE \E applied \in RoundResults(d) : ApplyRound(d, applied)
  BY <1>1, ApplyQueues
<1>2. CASE cycle'[d] = cycle[d]
  <2>1. FreshIn(cycle[d]) /\ cycle[d].pc = "submitting"
    BY <1>2 DEF QueuesFresh
  <2>2. PICK i : i = cycle[d].queue[k] /\ i \in cycle[d].round /\ matches[i].tx = "new"
    BY <1>2, <2>1 DEF FreshIn
  <2>3. matches'[i].tx = "new"
    BY <1>2, <2>1, <2>2, NewStays
  <2> QED BY <1>2, <2>1, <2>2, <2>3 DEF FreshIn
<1>3. CASE \E tx \in {"pending", "refused"} : Submit(d, tx)
  <2>1. PICK tx \in {"pending", "refused"} : Submit(d, tx)
    BY <1>3
  <2>2. PICK i \in cycle[d].round :
           /\ i \in DOMAIN matches /\ matches' = WithTx(i, tx) /\ FreshIn(cycle[d])
           /\ i = Head(cycle[d].queue) /\ cycle[d].queue # << >> /\ cycle[d].queue \in Seq(Nat)
           /\ cycle'[d].queue = Tail(cycle[d].queue)
           /\ cycle[d].pc = "submitting"
    BY <2>1, SubmitsFresh
  <2>3. cycle'[d].round = cycle[d].round /\ cycle[d].round \subseteq DOMAIN matches
    BY <2>1, <2>2, SubmitIsMove DEF Base, RoundsListed, SwapsOf
  <2>4. PICK q \in Seq(Nat), n \in Nat : q = cycle[d].queue /\ q # << >> /\ n = Len(q) /\ DOMAIN q = 1..n
    BY <2>2
  <2>5. /\ DOMAIN Tail(q) = 1..(n - 1) /\ i = q[1] /\ 1 \in DOMAIN q
        /\ \A x \in 1..(n - 1) : Tail(q)[x] = q[x + 1] /\ x + 1 \in DOMAIN q
    BY <2>2, <2>4
  <2>6. \A x \in DOMAIN q : /\ q[x] \in cycle[d].round /\ matches[q[x]].tx = "new"
                            /\ \A y \in DOMAIN q : q[x] = q[y] => x = y
    BY <2>2, <2>4 DEF FreshIn
  <2>7. k \in 1..(n - 1) /\ cycle'[d].queue[k] = q[k + 1] /\ k + 1 \in DOMAIN q
    BY <2>2, <2>4, <2>5
  <2>8. q[k + 1] # i
    <3>1. SUFFICES ASSUME q[k + 1] = q[1] PROVE FALSE
      BY <2>5
    <3>2. k + 1 = 1
      BY <2>5, <2>6, <2>7, <3>1
    <3> QED BY <2>7, <3>2
  <2>9. matches'[q[k + 1]].tx = "new"
    <3>1. q[k + 1] \in DOMAIN matches /\ matches[q[k + 1]].tx = "new"
      BY <2>3, <2>6, <2>7
    <3>2. tx \in Txs /\ matches \in Seq(Matches)
      BY DEF Txs, Base, TypeOK
    <3> QED BY <2>2, <2>8, <3>1, <3>2, WithTxIs
  <2>10. ASSUME NEW l \in DOMAIN cycle'[d].queue, cycle'[d].queue[k] = cycle'[d].queue[l] PROVE k = l
    <3>1. l \in 1..(n - 1) /\ cycle'[d].queue[l] = q[l + 1] /\ l + 1 \in DOMAIN q
      BY <2>2, <2>4, <2>5
    <3>2. q[k + 1] = q[l + 1]
      BY <2>7, <2>10, <3>1
    <3>3. k + 1 = l + 1
      BY <2>6, <2>7, <3>1, <3>2
    <3> QED BY <2>7, <3>1, <3>3
  <2> QED BY <2>3, <2>6, <2>7, <2>9, <2>10
<1>4. InRound(d)' /\ ~ReportOutcomes(d)
  BY SubmitIsMove DEF InRound
<1>5. ~(cycle[d].pc = "waiting" /\ \E fair \in FairPrices[cycle[d].pair] : LockRound(d, fair))
  BY DEF LockRound, Base, TypeOK
<1> QED BY <1>1, <1>2, <1>3, <1>4, <1>5, CycleMoves

LEMMA FreshHold == Spec => []QueuesFresh
<1>1. Init => QueuesFresh
  BY DEF Init, QueuesFresh, Idle
<1>2. Base /\ QueuesFresh /\ [Next]_vars => QueuesFresh'
  BY FreshStep
<1> QED BY <1>1, <1>2, BaseHolds, PTL DEF Spec

\* A step keeps what has been executed, unless it adds a round's matches or
\* executes one.
SameExecuted ==
  /\ SameMatches
  /\ \A i \in DOMAIN matches : matches'[i].tx = "executed" <=> matches[i].tx = "executed"

LEMMA ExecutedMoves ==
  ASSUME Base, QueuesFresh, [Next]_vars
  PROVE  \/ SameExecuted
         \/ \E c \in Cycles : \E applied \in RoundResults(c) : ApplyRound(c, applied)
         \/ \E i \in DOMAIN matches : MineSwap(i)
<1>1. matches \in Seq(Matches)
  BY DEF Base, TypeOK
<1>2. CASE matches' = matches
  BY <1>1, <1>2 DEF SameExecuted, SameMatches, SameCrossing
<1>3. CASE \E c \in Cycles, tx \in {"pending", "refused"} : Submit(c, tx)
  <2>1. PICK c \in Cycles, tx \in {"pending", "refused"} : Submit(c, tx)
    BY <1>3
  <2>2. PICK i \in DOMAIN matches : matches[i].tx = "new" /\ matches' = WithTx(i, tx)
    BY <2>1, SubmitsFresh
  <2>3. tx \in Txs /\ tx # "executed"
    BY DEF Txs
  <2>4. SameMatches /\ \A j \in DOMAIN matches : matches'[j].tx = IF j = i THEN tx ELSE matches[j].tx
    BY <1>1, <2>2, <2>3, WithTxIs
  <2> QED BY <2>2, <2>3, <2>4 DEF SameExecuted
<1>4. CASE \E i \in DOMAIN matches : RevertSwap(i)
  <2>1. PICK i \in DOMAIN matches : matches[i].tx = "pending" /\ matches' = WithTx(i, "reverted")
    BY <1>4 DEF RevertSwap
  <2>2. SameMatches /\ \A j \in DOMAIN matches : matches'[j].tx = IF j = i THEN "reverted" ELSE matches[j].tx
    BY <1>1, <2>1, WithTxIs DEF Txs
  <2> QED BY <2>1, <2>2 DEF SameExecuted
<1>5. CASE Restart
  <2>1. /\ SameMatches
        /\ \A j \in DOMAIN matches : matches'[j].tx = IF matches[j].tx = "new" THEN "refused" ELSE matches[j].tx
    BY <1>1, <1>5, RestartMatches
  <2> QED BY <2>1 DEF SameExecuted
<1>6. CASE \/ \E c \in Cycles, pair \in Pairs : StartCycle(c, pair)
           \/ \E c \in Cycles : GivesUp(c) \/ EndsRound(c) \/ ReportOutcomes(c)
           \/ \E c \in Cycles : cycle[c].pc = "waiting" /\ \E fair \in FairPrices[cycle[c].pair] : LockRound(c, fair)
           \/ \E o \in OrderIds : Lists(o) \/ Cancels(o) \/ Deposit(o) \/ Withdraws(o)
           \/ UNCHANGED vars
  BY <1>2, <1>6 DEF StartCycle, GivesUp, LockRound, EndsRound, ReportOutcomes, Lists, Cancels, BookOnly, Deposit,
                    Withdraws, vars
<1> QED BY <1>3, <1>4, <1>5, <1>6, StepKinds DEF Base

(***************************************************************************)
(* Deposits.                                                               *)
(***************************************************************************)

\* A deposit is in custody but for what has been taken from it.
DepositAccount(stat, held, paid, deposit) ==
  (stat = "open" => held + paid = deposit) /\ (stat = "none" => paid = 0)

DepositsAccount == \A o \in OrderIds : DepositAccount(status[o], custody[o], Paid(o), DepositAmount(o))

LEMMA LegType ==
  ASSUME NEW m \in Matches, NEW o
  PROVE  Leg(m, o) \in Nat
BY DEF Matches, Amounts, Leg

LEMMA TakenType ==
  ASSUME Base, NEW o
  PROVE  /\ IsFiniteSet(DOMAIN matches) /\ \A i \in DOMAIN matches : Taken(matches, o)[i] \in Nat
         /\ Paid(o) \in Nat
<1>1. IsFiniteSet(DOMAIN matches) /\ \A i \in DOMAIN matches : matches[i] \in Matches
  BY SwapsFinite DEF Base, TypeOK
<1>2. \A i \in DOMAIN matches : Leg(matches[i], o) \in Nat
  BY <1>1, LegType
<1>3. \A i \in DOMAIN matches : Taken(matches, o)[i] \in Nat
  BY <1>2 DEF Taken
<1> QED BY <1>1, <1>3, SumNat DEF Paid

LEMMA PaidSame ==
  ASSUME SameExecuted, NEW o
  PROVE  Paid(o)' = Paid(o)
<1>1. DOMAIN matches' = DOMAIN matches
  BY DEF SameExecuted, SameMatches
<1>2. \A i \in DOMAIN matches : Leg(matches'[i], o) = Leg(matches[i], o)
  BY DEF SameExecuted, SameMatches, SameCrossing, Leg
<1>3. Taken(matches', o) = Taken(matches, o)
  BY <1>1, <1>2 DEF SameExecuted, Taken
<1> QED BY <1>1, <1>3 DEF Paid

LEMMA PaidApplied ==
  ASSUME Base, NEW c \in Cycles, NEW applied \in RoundResults(c), ApplyRound(c, applied), NEW o
  PROVE  Paid(o)' = Paid(o)
<1>1. applied \in Seq(Crossings) /\ matches' = matches \o Kept(applied)
  BY ApplyIsMove
<1>2. PICK m \in Nat, n \in Nat :
        /\ m = Len(matches) /\ n = Len(applied) /\ DOMAIN applied = 1..n /\ DOMAIN matches = 1..m
        /\ DOMAIN matches' = 1..(m + n)
        /\ \A i \in 1..m : matches'[i] = matches[i]
        /\ \A i \in 1..n : matches'[m + i] = Kept(applied)[i]
  BY <1>1, KeptIs DEF Base, TypeOK
<1>3. PICK e, f, z : e = Taken(matches', o) /\ f = Taken(matches, o) /\ z = [i \in 1..n |-> 0]
  OBVIOUS
<1>4. \A i \in 1..m : e[i] = f[i]
  BY <1>2, <1>3 DEF Taken
<1>5. ASSUME NEW i \in 1..n PROVE e[m + i] = z[i]
  <2>1. m + i \in DOMAIN matches' /\ i \in DOMAIN applied /\ matches'[m + i] = Kept(applied)[i]
    BY <1>2
  <2>2. Kept(applied)[i].tx = "new"
    BY <2>1 DEF Kept
  <2> QED BY <1>3, <2>1, <2>2 DEF Taken
<1>6. Appended(e, f, m, z, n)
  BY <1>4, <1>5 DEF Appended
<1>7. IntOn(f, 1..m) /\ IntOn(z, 1..n)
  BY <1>2, <1>3, TakenType DEF IntOn
<1>8. IsFiniteSet(1..n) /\ \A i \in 1..n : z[i] = 0
  BY <1>3, FS_Interval
<1>9. SumFunctionOnSet(z, 1..n) = 0
  BY <1>8, SumZero
<1>10. SumFunctionOnSet(e, 1..(m + n)) = SumFunctionOnSet(f, 1..m) + 0
  BY <1>6, <1>7, <1>9, SumAppended
<1>11. SumFunctionOnSet(f, 1..m) \in Nat
  BY <1>2, <1>3, TakenType DEF Paid
<1> QED BY <1>2, <1>3, <1>10, <1>11 DEF Paid

LEMMA PaidMined ==
  ASSUME Base, NEW i \in DOMAIN matches, MineSwap(i), NEW o
  PROVE  Paid(o)' = Paid(o) + Leg(matches[i], o)
<1>1. matches \in Seq(Matches) /\ matches[i].tx = "pending" /\ matches' = WithTx(i, "executed")
  BY DEF Base, TypeOK, MineSwap
<1>2. /\ DOMAIN matches' = DOMAIN matches
      /\ \A j \in DOMAIN matches : SameCrossing(matches'[j], matches[j])
      /\ \A j \in DOMAIN matches : matches'[j].tx = IF j = i THEN "executed" ELSE matches[j].tx
  BY <1>1, WithTxIs DEF SameMatches, Txs
<1>3. PICK S, f, h : S = DOMAIN matches /\ f = Taken(matches, o) /\ h = Taken(matches', o)
  OBVIOUS
<1>4. \A j \in S : Leg(matches'[j], o) = Leg(matches[j], o)
  BY <1>2, <1>3 DEF SameCrossing, Leg
<1>5. \A j \in S \ {i} : h[j] = f[j]
  BY <1>2, <1>3, <1>4 DEF Taken
<1>6. h[i] = Leg(matches[i], o) /\ f[i] = 0
  BY <1>1, <1>2, <1>3, <1>4 DEF Taken
<1>7. Leg(matches[i], o) \in Nat
  BY <1>1, LegType
<1>8. IsFiniteSet(S) /\ IntOn(f, S) /\ i \in S
  BY <1>3, TakenType DEF IntOn
<1>9. SumFunctionOnSet(h, S) = SumFunctionOnSet(f, S) - f[i] + h[i]
  BY <1>5, <1>6, <1>7, <1>8, SumChange
<1>10. Paid(o)' = SumFunctionOnSet(h, S) /\ Paid(o) = SumFunctionOnSet(f, S) /\ Paid(o) \in Nat
  BY <1>2, <1>3, TakenType DEF Paid
<1> QED BY <1>6, <1>7, <1>9, <1>10

\* What a mined swap takes from an order's deposit is what its custody loses.
LEMMA MinedAccount ==
  ASSUME Base, DepositsAccount, NEW i \in DOMAIN matches, MineSwap(i), NEW o \in OrderIds
  PROVE  DepositAccount(status'[o], custody'[o], Paid(o)', DepositAmount(o))
<1>1. matches[i] \in Matches /\ MatchOK(matches[i]) /\ Chain!LedgerTypeOK
  BY DEF Base, TypeOK, MatchesOK
<1>2. PICK m \in OrderIds, t \in OrderIds, f \in Nat, g \in Nat :
        m = matches[i].maker /\ t = matches[i].taker /\ f = matches[i].base /\ g = matches[i].quote
  BY <1>1 DEF Matches, Amounts
<1>3. m # t
  BY <1>1, <1>2 DEF MatchOK
<1>4. /\ status[m] = "open" /\ status[t] = "open" /\ f <= custody[m] /\ g <= custody[t]
      /\ custody' = [custody EXCEPT ![m] = @ - f, ![t] = @ - g]
      /\ status' = [x \in OrderIds |-> IF x \in {m, t} /\ custody'[x] = 0 THEN "closed" ELSE status[x]]
  BY <1>2 DEF MineSwap, Chain!Exchange
<1>5. Leg(matches[i], o) = IF o = m THEN f ELSE IF o = t THEN g ELSE 0
  BY <1>2 DEF Leg
<1>6. PICK held \in Nat, paid \in Nat, deposit \in Nat, leg \in Nat :
        held = custody[o] /\ paid = Paid(o) /\ deposit = DepositAmount(o) /\ leg = Leg(matches[i], o)
  BY <1>1, TakenType, DepositType, LegType DEF Chain!LedgerTypeOK
<1>7. Paid(o)' = paid + leg
  BY <1>6, PaidMined
<1>8. DepositAccount(status[o], held, paid, deposit)
  BY <1>6 DEF DepositsAccount
<1>9. custody'[o] = held - leg
  BY <1>1, <1>3, <1>4, <1>5, <1>6 DEF Chain!LedgerTypeOK
<1>10. /\ status'[o] = "open" => status[o] = "open"
       /\ status'[o] = "none" => status[o] = "none" /\ leg = 0
  BY <1>1, <1>4, <1>5, <1>6 DEF Chain!LedgerTypeOK
<1> QED BY <1>6, <1>7, <1>8, <1>9, <1>10 DEF DepositAccount

LEMMA DepositsStep ==
  ASSUME Base, QueuesFresh, DepositsAccount, [Next]_vars
  PROVE  DepositsAccount'
<1> SUFFICES ASSUME NEW o \in OrderIds
             PROVE  DepositAccount(status'[o], custody'[o], Paid(o)', DepositAmount(o))
  BY DEF DepositsAccount
<1>1. DepositAccount(status[o], custody[o], Paid(o), DepositAmount(o)) /\ Chain!LedgerTypeOK
  BY DEF DepositsAccount, Base, TypeOK
<1>2. CASE \E i \in DOMAIN matches : MineSwap(i)
  BY <1>2, MinedAccount
<1>3. CASE \E c \in Cycles : \E applied \in RoundResults(c) : ApplyRound(c, applied)
  <2>1. Paid(o)' = Paid(o)
    BY <1>3, PaidApplied
  <2>2. status' = status /\ custody' = custody
    BY <1>3 DEF ApplyRound, chainVars
  <2> QED BY <1>1, <2>1, <2>2
<1>4. CASE SameExecuted
  <2>1. Paid(o)' = Paid(o)
    BY <1>4, PaidSame
  <2>2. CASE \E x \in OrderIds : Deposit(x)
    <3>1. PICK x \in OrderIds :
            /\ status[x] = "none" /\ status' = [status EXCEPT ![x] = "open"]
            /\ custody' = [custody EXCEPT ![x] = DepositAmount(x)]
      BY <2>2 DEF Deposit, Chain!Open
    <3>2. CASE x = o
      <4>1. custody'[o] = DepositAmount(o) /\ status'[o] = "open" /\ Paid(o) = 0
        BY <1>1, <3>1, <3>2 DEF Chain!LedgerTypeOK, DepositAccount
      <4> QED BY <2>1, <4>1, DepositType DEF DepositAccount
    <3>3. CASE x # o
      BY <1>1, <2>1, <3>1, <3>3 DEF Chain!LedgerTypeOK
    <3> QED BY <3>2, <3>3
  <2>3. CASE \E x \in OrderIds : Withdraws(x)
    <3>1. PICK x \in OrderIds :
            status' = [status EXCEPT ![x] = "closed"] /\ custody' = [custody EXCEPT ![x] = 0]
      BY <2>3 DEF Withdraws, Chain!Close
    <3>2. CASE x = o
      BY <1>1, <3>1, <3>2 DEF Chain!LedgerTypeOK, DepositAccount
    <3>3. CASE x # o
      BY <1>1, <2>1, <3>1, <3>3 DEF Chain!LedgerTypeOK
    <3> QED BY <3>2, <3>3
  <2>4. CASE \/ \E c \in Cycles, pair \in Pairs : StartCycle(c, pair)
             \/ \E c \in Cycles : GivesUp(c) \/ EndsRound(c) \/ ReportOutcomes(c)
             \/ \E c \in Cycles : cycle[c].pc = "waiting" /\ \E fair \in FairPrices[cycle[c].pair] : LockRound(c, fair)
             \/ \E c \in Cycles, tx \in {"pending", "refused"} : Submit(c, tx)
             \/ \E x \in OrderIds : Lists(x) \/ Cancels(x)
             \/ \E i \in DOMAIN matches : RevertSwap(i)
             \/ Restart
             \/ UNCHANGED vars
    <3>1. status' = status /\ custody' = custody
      BY <2>4 DEF StartCycle, GivesUp, LockRound, EndsRound, Submit, ReportOutcomes, Lists, Cancels,
                  BookOnly, RevertSwap, Restart, vars, chainVars
    <3> QED BY <1>1, <2>1, <3>1
  <2> QED BY <1>2, <1>3, <2>2, <2>3, <2>4, StepKinds DEF Base
<1> QED BY <1>2, <1>3, <1>4, ExecutedMoves

LEMMA DepositsHold == Spec => []DepositsAccount
<1>1. Init => DepositsAccount
  <2> SUFFICES ASSUME Init, NEW o \in OrderIds
               PROVE  DepositAccount(status[o], custody[o], Paid(o), DepositAmount(o))
    BY DEF DepositsAccount
  <2>1. status[o] = "none" /\ DOMAIN matches = {}
    BY DEF Init, Chain!LedgerInit
  <2>2. Paid(o) = 0
    BY <2>1, SumEmpty DEF Paid
  <2> QED BY <2>1, <2>2 DEF DepositAccount
<1>2. Base /\ QueuesFresh /\ DepositsAccount /\ [Next]_vars => DepositsAccount'
  BY DepositsStep
<1> QED BY <1>1, <1>2, BaseHolds, FreshHold, PTL DEF Spec

\* A sell's deposit covers its amount, and a buy's what its limit may cost: so
\* does every deposit but that of a user's buy, which the frontend rounds.
Covers(o) == Terms[o].side = "buy" => Terms[o].amount * Terms[o].limit <= DepositAmount(o)

LEMMA QuotesCover ==
  ASSUME NEW o \in OrderIds, o \in Quotes \/ Terms[o].side = "sell" \/ DepositUnit = 1
  PROVE  Covers(o)
<1>1. SUFFICES ASSUME Terms[o].side = "buy"
               PROVE  Terms[o].amount * Terms[o].limit <= DepositAmount(o)
  BY DEF Covers
<1>2. PICK a \in Nat, l \in Nat : a = Terms[o].amount /\ l = Terms[o].limit
  BY TermsFields
<1>3. PICK cost \in Nat : cost = a * l
  <2>1. \A x, y \in Nat : x * y \in Nat BY SMT
  <2> QED BY <2>1
<1>4. CASE o \in Quotes
  BY <1>1, <1>2, <1>3, <1>4 DEF DepositAmount
<1>5. CASE DepositUnit = 1
  <2>1. RoundToUnit(cost) = cost
    BY <1>5 DEF RoundToUnit
  <2> HIDE DEF RoundToUnit
  <2> QED BY <1>1, <1>2, <1>3, <2>1 DEF DepositAmount
<1> QED BY <1>1, <1>4, <1>5

\* What a swap takes from an order's deposit, for each token of base.
Price(o) == IF Terms[o].side = "sell" THEN 1 ELSE Terms[o].limit

LEMMA LegAtMost ==
  ASSUME NEW m \in Matches, MatchOK(m), NEW o \in OrderIds
  PROVE  Leg(m, o) <= Price(o) * Share(m, o)
<1>1. PICK b \in Nat, q \in Nat, p \in Nat, k \in Nat :
        b = m.base /\ q = m.quote /\ p = m.price /\ k = Price(o)
  BY TermsFields DEF Matches, Amounts, Price
<1>2. CASE o = m.maker
  <2>1. Leg(m, o) = b /\ Share(m, o) = b /\ k = 1
    BY <1>1, <1>2 DEF Leg, Share, Price, MatchOK
  <2> QED BY <1>1, <2>1
<1>3. CASE o = m.taker /\ o # m.maker
  <2>1. Leg(m, o) = q /\ Share(m, o) = b /\ q = b * p /\ p <= k
    BY <1>1, <1>3 DEF Leg, Share, Price, MatchOK
  <2>2. \A x, y, z \in Nat : y <= z => x * y <= z * x
    BY SMT
  <2> QED BY <1>1, <2>1, <2>2
<1>4. CASE o # m.taker /\ o # m.maker
  <2>1. Leg(m, o) = 0 /\ Share(m, o) = 0
    BY <1>4 DEF Leg, Share
  <2> QED BY <1>1, <2>1
<1> QED BY <1>2, <1>3, <1>4

\* What swaps have taken and may still take from a deposit is within what the
\* order's limit allows for all that has been matched of it.
LEMMA CommittedAtMost ==
  ASSUME Base, NEW o \in OrderIds
  PROVE  /\ Committed(o) \in Nat /\ Paid(o) \in Nat
         /\ Committed(o) + Paid(o) <= Price(o) * Matched(o)
<1> DEFINE promised == [i \in DOMAIN matches |->
                          IF matches[i].tx \in {"new", "pending"} THEN Leg(matches[i], o) ELSE 0]
           both == [i \in DOMAIN matches |-> promised[i] + Taken(matches, o)[i]]
<1>1. /\ IsFiniteSet(DOMAIN matches) /\ Paid(o) \in Nat
      /\ \A i \in DOMAIN matches : Taken(matches, o)[i] \in Nat
  BY TakenType
<1>2. ASSUME NEW i \in DOMAIN matches
      PROVE  /\ promised[i] \in Nat /\ both[i] \in Nat /\ Shares(matches, o)[i] \in Nat
             /\ both[i] <= Price(o) * Shares(matches, o)[i]
  <2>1. matches[i] \in Matches /\ MatchOK(matches[i])
    BY DEF Base, TypeOK, MatchesOK
  <2>2. PICK leg \in Nat, share \in Nat : leg = Leg(matches[i], o) /\ share = Share(matches[i], o)
    <3>1. matches[i].base \in Nat BY <2>1 DEF Matches, Amounts
    <3> QED BY <2>1, <3>1, LegType DEF Share
  <2>3. leg <= Price(o) * share
    BY <2>1, <2>2, LegAtMost
  <2>4. both[i] \in {0, leg} /\ promised[i] \in Nat
    BY <2>2 DEF Taken
  <2>5. Price(o) * share \in Nat
    <3>1. PICK k \in Nat : k = Price(o) BY TermsFields DEF Price
    <3>2. \A x, y \in Nat : x * y \in Nat BY SMT
    <3> QED BY <3>1, <3>2
  <2>6. Shares(matches, o)[i] = share
    BY <2>2 DEF Shares
  <2> HIDE DEF promised, both
  <2> QED BY <2>3, <2>4, <2>5, <2>6
<1>3. Committed(o) = SumFunctionOnSet(promised, DOMAIN matches)
  BY SumOver DEF Committed
<1>4. Matched(o) = SumFunctionOnSet(Shares(matches, o), DOMAIN matches)
  BY FillInIs DEF Matched
<1>5. \A i \in DOMAIN matches : both[i] = promised[i] + Taken(matches, o)[i]
  OBVIOUS
<1> HIDE DEF promised, both
<1>6. Committed(o) \in Nat
  BY <1>1, <1>2, <1>3, SumNat
<1>7. SumFunctionOnSet(both, DOMAIN matches) = Committed(o) + Paid(o)
  <2>1. IntOn(promised, DOMAIN matches) /\ IntOn(Taken(matches, o), DOMAIN matches)
    BY <1>1, <1>2 DEF IntOn
  <2> QED BY <1>1, <1>3, <1>5, <2>1, SumPlus DEF Paid
<1>8. SumFunctionOnSet(both, DOMAIN matches) <= Price(o) * Matched(o)
  <2>1. Price(o) \in Nat
    BY TermsFields DEF Price
  <2> QED BY <1>1, <1>2, <1>4, <2>1, SumAtMost
<1> QED BY <1>1, <1>6, <1>7, <1>8

LEMMA CoveredFits ==
  ASSUME Base, Fills, DepositsAccount, NEW o \in OrderIds, Covers(o), status[o] = "open"
  PROVE  Committed(o) <= custody[o]
<1>1. PICK committed \in Nat, paid \in Nat, held \in Nat, deposit \in Nat :
        committed = Committed(o) /\ paid = Paid(o) /\ held = custody[o] /\ deposit = DepositAmount(o)
  BY CommittedAtMost, DepositType DEF Base, TypeOK, Chain!LedgerTypeOK
<1>2. PICK a \in Nat, k \in Nat, matched \in Nat : a = Terms[o].amount /\ k = Price(o) /\ matched = Matched(o)
  BY TermsFields, MatchedType DEF Price
<1>3. held + paid = deposit
  BY <1>1 DEF DepositsAccount, DepositAccount
<1>4. committed + paid <= k * matched
  BY <1>1, <1>2, CommittedAtMost
<1>5. matched <= a
  BY <1>2 DEF Fills, FillsOK, OrderAccounts
<1>6. k * matched <= k * a
  <2>1. \A x, y, z \in Nat : y <= z => x * y <= x * z
    BY SMT
  <2> QED BY <1>5, <2>1
<1>7. k * a <= deposit
  <2>1. CASE Terms[o].side = "sell"
    BY <1>1, <1>2, <2>1 DEF DepositAmount, Price
  <2>2. CASE Terms[o].side # "sell"
    <3>1. a * Terms[o].limit <= deposit /\ k = Terms[o].limit
      BY <1>1, <1>2, <2>2, TermsFields DEF Covers, Price
    <3>2. \A x, y \in Nat : x * y = y * x
      BY SMT
    <3> QED BY <1>2, <3>1, <3>2
  <2> QED BY <2>1, <2>2
<1>8. k * matched \in Nat /\ k * a \in Nat
  <2>1. \A x, y \in Nat : x * y \in Nat BY SMT
  <2> QED BY <2>1
<1>9. committed + paid <= held + paid
  BY <1>3, <1>4, <1>6, <1>7, <1>8
<1> QED BY <1>1, <1>9

\* An open order's deposit covers the swaps that may still be executed on it,
\* whatever the orders, when no deposit is rounded below its cost
\* (runner.py line 17, validator.py lines 133 to 135).
THEOREM DepositsCoverSwaps ==
  ASSUME \A o \in OrderIds : Covers(o)
  PROVE  Spec => []SwapsFitDeposits
<1>1. Base /\ Fills /\ DepositsAccount => SwapsFitDeposits
  BY CoveredFits DEF SwapsFitDeposits
<1> QED BY <1>1, BaseHolds, FillsHold, DepositsHold, PTL

\* Without that condition it holds of the market maker's quotes, and of sells.
THEOREM QuotesCoverSwaps ==
  Spec => [](\A o \in OrderIds : (o \in Quotes \/ Terms[o].side = "sell") /\ status[o] = "open" =>
                                   Committed(o) <= custody[o])
<1>1. Base /\ Fills /\ DepositsAccount =>
        \A o \in OrderIds : (o \in Quotes \/ Terms[o].side = "sell") /\ status[o] = "open" => Committed(o) <= custody[o]
  BY CoveredFits, QuotesCover
<1> QED BY <1>1, BaseHolds, FillsHold, DepositsHold, PTL

(***************************************************************************)
(* The deposits of the market maker's quotes.                              *)
(***************************************************************************)

\* A quote that is deposited and not yet listed, active, or locked.
Relied(o) ==
  \/ o \in lockedIds
  \/ IsActive(book[o])
  \/ book[o].status = "absent" /\ status[o] # "none"

\* Nothing but swaps has taken from the deposit of such a quote.
QuotesFunded == \A o \in Quotes : Relied(o) => custody[o] + Paid(o) = DepositAmount(o)

\* A mined swap takes from custody what it pays.
LEMMA MinedKeeps ==
  ASSUME Base, NEW i \in DOMAIN matches, MineSwap(i), NEW o \in OrderIds
  PROVE  custody'[o] + Paid(o)' = custody[o] + Paid(o)
<1>1. matches[i] \in Matches /\ MatchOK(matches[i]) /\ Chain!LedgerTypeOK
  BY DEF Base, TypeOK, MatchesOK
<1>2. PICK m \in OrderIds, t \in OrderIds, f \in Nat, g \in Nat :
        m = matches[i].maker /\ t = matches[i].taker /\ f = matches[i].base /\ g = matches[i].quote
  BY <1>1 DEF Matches, Amounts
<1>3. m # t
  BY <1>1, <1>2 DEF MatchOK
<1>4. f <= custody[m] /\ g <= custody[t] /\ custody' = [custody EXCEPT ![m] = @ - f, ![t] = @ - g]
  BY <1>2 DEF MineSwap, Chain!Exchange
<1>5. Leg(matches[i], o) = IF o = m THEN f ELSE IF o = t THEN g ELSE 0
  BY <1>2 DEF Leg
<1>6. PICK held \in Nat, paid \in Nat, leg \in Nat :
        held = custody[o] /\ paid = Paid(o) /\ leg = Leg(matches[i], o)
  BY <1>1, TakenType, LegType DEF Chain!LedgerTypeOK
<1>7. Paid(o)' = paid + leg
  BY <1>6, PaidMined
<1>8. custody'[o] = held - leg
  BY <1>1, <1>3, <1>4, <1>5, <1>6 DEF Chain!LedgerTypeOK
<1> QED BY <1>6, <1>7, <1>8

LEMMA QuotesFundedStep ==
  ASSUME Base, QueuesFresh, DepositsAccount, QuotesFunded, [Next]_vars
  PROVE  QuotesFunded'
<1> SUFFICES ASSUME NEW o \in Quotes, Relied(o)'
             PROVE  custody'[o] + Paid(o)' = DepositAmount(o)
  BY DEF QuotesFunded
<1>1. o \in OrderIds /\ Chain!LedgerTypeOK /\ book \in Books
  BY QuotesAssumption, BookTyped DEF Base, TypeOK
<1>2. CASE \E x \in OrderIds : Deposit(x)
  <2>1. PICK x \in OrderIds :
          /\ status[x] = "none" /\ custody' = [custody EXCEPT ![x] = DepositAmount(x)]
          /\ status' = [status EXCEPT ![x] = "open"] /\ book' = book /\ lockedIds' = lockedIds /\ matches' = matches
    BY <1>2 DEF Deposit, Chain!Open, engineVars
  <2>2. Paid(o)' = Paid(o)
    BY <2>1 DEF Paid
  <2>3. CASE x = o
    <3>1. Paid(o) = 0
      BY <1>1, <2>1, <2>3 DEF DepositsAccount, DepositAccount
    <3>2. custody'[o] = DepositAmount(o)
      BY <1>1, <2>1, <2>3 DEF Chain!LedgerTypeOK
    <3> QED BY <1>1, <2>2, <3>1, <3>2, DepositType
  <2>4. CASE x # o
    <3>1. custody'[o] = custody[o] /\ Relied(o)
      BY <1>1, <2>1, <2>4 DEF Chain!LedgerTypeOK, Relied, IsActive
    <3> QED BY <2>2, <3>1 DEF QuotesFunded
  <2> QED BY <2>3, <2>4
<1>3. CASE \E x \in OrderIds : Withdraws(x)
  <2>1. PICK x \in OrderIds : Withdraws(x)
    BY <1>3
  <2>2. /\ custody' = [custody EXCEPT ![x] = 0] /\ status[x] = "open" /\ status' = [status EXCEPT ![x] = "closed"]
        /\ book' = book /\ lockedIds' = lockedIds /\ matches' = matches
        /\ x \in Quotes => x \notin lockedIds /\ book[x].status \in {"cancelled", "filled"}
    BY <2>1 DEF Withdraws, Chain!Close, engineVars
  <2>3. x # o
    BY <2>2 DEF Relied, IsActive
  <2>4. custody'[o] = custody[o] /\ Paid(o)' = Paid(o) /\ Relied(o)
    BY <1>1, <2>2, <2>3 DEF Chain!LedgerTypeOK, Relied, IsActive, Paid
  <2> QED BY <2>4 DEF QuotesFunded
<1>4. CASE \E i \in DOMAIN matches : MineSwap(i)
  <2>1. PICK i \in DOMAIN matches : MineSwap(i)
    BY <1>4
  <2>2. /\ book' = book /\ lockedIds' = lockedIds
        /\ status' = [x \in OrderIds |-> IF x \in {matches[i].maker, matches[i].taker} /\ custody'[x] = 0
                                         THEN "closed" ELSE status[x]]
        /\ status[matches[i].maker] = "open" /\ status[matches[i].taker] = "open"
    BY <2>1 DEF MineSwap, Chain!Exchange, engineVars
  <2>3. Relied(o)
    BY <1>1, <2>2 DEF Relied, IsActive
  <2> QED BY <1>1, <2>1, <2>3, MinedKeeps DEF QuotesFunded
<1>5. ASSUME custody' = custody, status' = status, Paid(o)' = Paid(o), Relied(o)
      PROVE  custody'[o] + Paid(o)' = DepositAmount(o)
  BY <1>5 DEF QuotesFunded
<1>6. CASE \E c \in Cycles : \E applied \in RoundResults(c) : ApplyRound(c, applied)
  <2>1. PICK c \in Cycles : \E applied \in RoundResults(c) : ApplyRound(c, applied)
    BY <1>6
  <2>2. PICK applied \in RoundResults(c) : ApplyRound(c, applied)
    BY <2>1
  <2>3. OrderShown(book[o], book'[o], Terms[o].amount, FillIn(applied, o), FillIn(applied, o))
    BY <1>1, <2>2, ApplyEffect
  <2>4. ~IsActive(book[o]) => book'[o] = book[o]
    BY <2>3 DEF OrderShown
  <2>5. IsActive(book[o]) => Relied(o)
    BY DEF Relied
  <2>6. custody' = custody /\ status' = status /\ lockedIds' = lockedIds
    BY <2>2 DEF ApplyRound, chainVars
  <2>7. Relied(o)
    BY <2>4, <2>5, <2>6 DEF Relied, IsActive
  <2> QED BY <1>5, <2>2, <2>6, <2>7, PaidApplied
<1>7. CASE SameExecuted
  <2>1. Paid(o)' = Paid(o)
    BY <1>7, PaidSame
  <2>2. o \in lockedIds' => o \in lockedIds \/ IsActive(book[o])
    BY OnlyActiveLocked
  <2>3. CASE \E x \in OrderIds : Lists(x)
    <3>1. PICK x \in OrderIds :
            /\ book[x].status = "absent" /\ (x \in Quotes => status[x] # "none")
            /\ book' = [book EXCEPT ![x] = [status |-> "pending", filled |-> 0]]
      BY <2>3 DEF Lists, Add
    <3>2. custody' = custody /\ status' = status /\ lockedIds' = lockedIds
      BY <2>3 DEF Lists, BookOnly, chainVars
    <3>3. CASE x = o
      BY <1>5, <2>1, <3>1, <3>2, <3>3 DEF Relied
    <3>4. CASE x # o
      <4>1. book'[o] = book[o]
        BY <1>1, <3>1, <3>4 DEF Books
      <4> QED BY <1>5, <2>1, <3>2, <4>1 DEF Relied, IsActive
    <3> QED BY <3>3, <3>4
  <2>4. CASE \E x \in OrderIds : Cancels(x)
    <3>1. PICK x \in OrderIds : book' = [book EXCEPT ![x].status = "cancelled"]
      BY <2>4 DEF Cancels, Cancel
    <3>2. custody' = custody /\ status' = status /\ lockedIds' = lockedIds
      BY <2>4 DEF Cancels, BookOnly, chainVars
    <3>3. book'[o] = book[o] \/ book'[o].status = "cancelled"
      BY <1>1, <3>1 DEF Books, Orders
    <3> QED BY <1>5, <2>1, <3>2, <3>3 DEF Relied, IsActive
  <2>5. CASE Restart
    <3>1. /\ custody' = custody /\ status' = status /\ lockedIds' = {}
          /\ book'[o] = IF book[o].status = "absent" THEN book[o] ELSE [book[o] EXCEPT !.status = "lost"]
      BY <1>1, <2>5 DEF Restart, chainVars
    <3>2. book[o].status = "absent" /\ book'[o] = book[o]
      BY <1>1, <3>1 DEF Relied, IsActive, Books, Orders
    <3> QED BY <1>5, <2>1, <3>1, <3>2 DEF Relied, IsActive
  <2>6. CASE \/ \E c \in Cycles, pair \in Pairs : StartCycle(c, pair)
             \/ \E c \in Cycles : GivesUp(c) \/ EndsRound(c) \/ ReportOutcomes(c)
             \/ \E c \in Cycles : cycle[c].pc = "waiting" /\ \E fair \in FairPrices[cycle[c].pair] : LockRound(c, fair)
             \/ \E c \in Cycles, tx \in {"pending", "refused"} : Submit(c, tx)
             \/ \E i \in DOMAIN matches : RevertSwap(i)
             \/ UNCHANGED vars
    <3>1. status' = status /\ custody' = custody /\ book' = book
      BY <2>6 DEF StartCycle, GivesUp, LockRound, EndsRound, Submit, ReportOutcomes, RevertSwap, vars, chainVars,
                  engineVars
    <3>2. Relied(o)
      BY <2>2, <3>1 DEF Relied, IsActive
    <3> QED BY <1>5, <2>1, <3>1, <3>2
  <2> QED BY <1>2, <1>3, <1>4, <1>6, <2>3, <2>4, <2>5, <2>6, StepKinds DEF Base
<1> QED BY <1>4, <1>6, <1>7, ExecutedMoves

\* While a round relies on a quote of the market maker, nothing but swaps takes
\* from its deposit, whoever cancels what in the book (bot.py, lines 283 to
\* 287): the bot deposits before it lists and withdraws what is neither active
\* nor locked.
THEOREM LockedDepositsStay == Spec => []LockedQuotesKeepDeposits
<1>1. Init => QuotesFunded
  BY QuotesAssumption DEF Init, Chain!LedgerInit, QuotesFunded, Relied, IsActive
<1>2. Base /\ QueuesFresh /\ DepositsAccount /\ QuotesFunded /\ [Next]_vars => QuotesFunded'
  BY QuotesFundedStep
<1>3. QuotesFunded => LockedQuotesKeepDeposits
  BY DEF QuotesFunded, Relied, LockedQuotesKeepDeposits
<1> QED BY <1>1, <1>2, <1>3, BaseHolds, FreshHold, DepositsHold, PTL DEF Spec

(***************************************************************************)
(* The market maker's inventory.                                           *)
(***************************************************************************)

\* A swap of a round that has not been reported yet.
Unreported(i) == \E c \in Cycles : cycle[c].pc = "submitting" /\ i \in cycle[c].round

\* What the reported swaps of a pair have changed, one by one.
Booking(p) ==
  [i \in DOMAIN matches |-> IF Terms[matches[i].maker].pair # p \/ Unreported(i) THEN 0
                            ELSE BaseChange(matches[i])]

Booked == restarts = 0 => \A p \in Pairs : inventory[p].base = SumFunctionOnSet(Booking(p), DOMAIN matches)

LEMMA BookingType ==
  ASSUME Base, NEW p
  PROVE  /\ IsFiniteSet(DOMAIN matches) /\ IntOn(Booking(p), DOMAIN matches)
         /\ SumFunctionOnSet(Booking(p), DOMAIN matches) \in Int
<1>1. IsFiniteSet(DOMAIN matches) /\ \A i \in DOMAIN matches : matches[i] \in Matches
  BY SwapsFinite DEF Base, TypeOK
<1>2. \A i \in DOMAIN matches : BaseChange(matches[i]) \in Int
  BY <1>1, ChangesAreInt
<1>3. \A i \in DOMAIN matches : Booking(p)[i] \in Int
  BY <1>2 DEF Booking
<1> QED BY <1>1, <1>3, SumInt DEF IntOn

\* Nothing changes when the matches and the rounds that are submitted stay.
LEMMA BookingSame ==
  ASSUME SameMatches,
         \A c \in Cycles : /\ cycle'[c].pc = "submitting" <=> cycle[c].pc = "submitting"
                           /\ cycle[c].pc = "submitting" => cycle'[c].round = cycle[c].round,
         NEW p
  PROVE  Booking(p)' = Booking(p) /\ DOMAIN matches' = DOMAIN matches
<1>1. DOMAIN matches' = DOMAIN matches
  BY DEF SameMatches
<1>2. \A i : Unreported(i)' <=> Unreported(i)
  BY DEF Unreported
<1>3. \A i \in DOMAIN matches : /\ matches'[i].maker = matches[i].maker
                                /\ BaseChange(matches'[i]) = BaseChange(matches[i])
  BY DEF SameMatches, SameCrossing, BaseChange
<1> QED BY <1>1, <1>2, <1>3 DEF Booking

\* The swaps a round adds are not reported yet.
LEMMA BookingApplied ==
  ASSUME Base, NEW c \in Cycles, NEW applied \in RoundResults(c), ApplyRound(c, applied), NEW p
  PROVE  SumFunctionOnSet(Booking(p)', DOMAIN matches') = SumFunctionOnSet(Booking(p), DOMAIN matches)
<1>1. /\ applied \in Seq(Crossings) /\ matches' = matches \o Kept(applied)
      /\ cycle[c].pc = "matching" /\ cycle'[c].pc = "submitting"
      /\ cycle'[c].round = {Len(matches) + i : i \in 1..Len(applied)}
      /\ \A d \in Cycles \ {c} : cycle'[d] = cycle[d]
  BY ApplyIsMove
<1>2. PICK m \in Nat, n \in Nat :
        /\ m = Len(matches) /\ n = Len(applied) /\ DOMAIN matches = 1..m /\ DOMAIN matches' = 1..(m + n)
        /\ \A i \in 1..m : matches'[i] = matches[i]
  BY <1>1, KeptIs DEF Base, TypeOK
<1>3. PICK e, f, z : e = Booking(p)' /\ f = Booking(p) /\ z = [i \in 1..n |-> 0]
  OBVIOUS
<1>4. ASSUME NEW i \in 1..m PROVE e[i] = f[i]
  <2>1. i \notin cycle'[c].round
    BY <1>1, <1>2
  <2>2. Unreported(i)' <=> Unreported(i)
    BY <1>1, <2>1 DEF Unreported
  <2>3. i \in DOMAIN matches /\ i \in DOMAIN matches' /\ matches'[i] = matches[i]
    BY <1>2
  <2>4. BaseChange(matches'[i]) = BaseChange(matches[i])
    BY <2>3
  <2> QED BY <1>3, <2>2, <2>3, <2>4 DEF Booking
<1>5. ASSUME NEW i \in 1..n PROVE e[m + i] = z[i]
  <2>1. m + i \in cycle'[c].round /\ m + i \in DOMAIN matches'
    BY <1>1, <1>2
  <2>2. Unreported(m + i)'
    BY <1>1, <2>1 DEF Unreported
  <2> QED BY <1>3, <2>1, <2>2 DEF Booking
<1>6. Appended(e, f, m, z, n)
  BY <1>4, <1>5 DEF Appended
<1>7. IntOn(f, 1..m) /\ IntOn(z, 1..n) /\ SumFunctionOnSet(f, 1..m) \in Int
  BY <1>2, <1>3, BookingType DEF IntOn
<1>8. IsFiniteSet(1..n) /\ \A i \in 1..n : z[i] = 0
  BY <1>3, FS_Interval
<1>9. SumFunctionOnSet(z, 1..n) = 0
  BY <1>8, SumZero
<1>10. SumFunctionOnSet(e, 1..(m + n)) = SumFunctionOnSet(f, 1..m) + 0
  BY <1>6, <1>7, <1>9, SumAppended
<1> QED BY <1>2, <1>3, <1>7, <1>10

\* What a round reports is what its pair gains.
Reported(c, p) == IF p = cycle[c].pair
                  THEN SumFunctionOnSet([i \in DOMAIN matches |-> BaseChange(matches[i])], cycle[c].round) ELSE 0

LEMMA BookingReported ==
  ASSUME Base, NEW c \in Cycles, ReportOutcomes(c), NEW p
  PROVE  /\ Reported(c, p) \in Int
         /\ SumFunctionOnSet(Booking(p)', DOMAIN matches')
              = SumFunctionOnSet(Booking(p), DOMAIN matches) + Reported(c, p)
<1>1. /\ cycle[c].pc = "submitting" /\ cycle'[c].pc = "reporting" /\ matches' = matches
      /\ \A d \in Cycles \ {c} : cycle'[d] = cycle[d]
  BY SubmitIsMove DEF ReportOutcomes, Base, TypeOK
<1>2. PICK S, t, q : S = DOMAIN matches /\ t = cycle[c].round /\ q = cycle[c].pair
  OBVIOUS
<1>3. t \in SUBSET S /\ \A i \in t : Terms[matches[i].maker].pair = q
  BY <1>1, <1>2 DEF Base, RoundsListed, SwapsOf
<1>4. PICK change, f, h, g :
        /\ change = [i \in DOMAIN matches |-> BaseChange(matches[i])]
        /\ f = Booking(p) /\ h = Booking(p)'
        /\ g = [i \in S |-> IF i \in t /\ p = q THEN change[i] ELSE 0]
  OBVIOUS
<1>5. /\ IsFiniteSet(S) /\ IntOn(change, S) /\ IntOn(f, S)
  <2>1. \A i \in DOMAIN matches : matches[i] \in Matches
    BY DEF Base, TypeOK
  <2> QED BY <1>2, <1>4, <2>1, BookingType, ChangesAreInt DEF IntOn
<1>6. IntOn(g, S)
  BY <1>4, <1>5 DEF IntOn
<1>7. \A i \in S : Unreported(i)' <=> Unreported(i) /\ i \notin t
  <2> SUFFICES ASSUME NEW i \in S PROVE Unreported(i)' <=> Unreported(i) /\ i \notin t
    OBVIOUS
  <2>1. ASSUME i \in t PROVE ~Unreported(i)'
    BY <1>1, <1>2, <2>1, RoundsShareNoSwap DEF Unreported
  <2>2. ASSUME i \notin t PROVE Unreported(i)' <=> Unreported(i)
    BY <1>1, <1>2, <2>2 DEF Unreported
  <2>3. Unreported(i)' => Unreported(i)
    BY <1>1 DEF Unreported
  <2> QED BY <2>1, <2>2, <2>3
<1>8. ASSUME NEW i \in S PROVE h[i] = f[i] + g[i]
  <2>1. PICK x \in Int : x = BaseChange(matches[i]) /\ x = change[i]
    BY <1>2, <1>4, <1>5 DEF IntOn
  <2>2. i \in t => Unreported(i) /\ Terms[matches[i].maker].pair = q
    BY <1>1, <1>2, <1>3 DEF Unreported
  <2>3. /\ h[i] = IF Terms[matches[i].maker].pair # p \/ Unreported(i)' THEN 0 ELSE x
        /\ f[i] = IF Terms[matches[i].maker].pair # p \/ Unreported(i) THEN 0 ELSE x
    BY <1>1, <1>2, <1>4, <2>1 DEF Booking
  <2>4. Unreported(i)' <=> Unreported(i) /\ i \notin t
    BY <1>7
  <2>5. g[i] = IF i \in t /\ p = q THEN x ELSE 0
    BY <1>4, <2>1
  <2>6. CASE i \in t
    BY <2>1, <2>2, <2>3, <2>4, <2>5, <2>6
  <2>7. CASE i \notin t
    BY <2>1, <2>3, <2>4, <2>5, <2>7
  <2> QED BY <2>6, <2>7
<1>9. SumFunctionOnSet(h, S) = SumFunctionOnSet(f, S) + SumFunctionOnSet(g, S)
  BY <1>5, <1>6, <1>8, SumPlus
<1>10. SumFunctionOnSet(g, S) = Reported(c, p)
  <2>1. CASE p = q
    <3>1. SumFunctionOnSet(g, S) = SumFunctionOnSet(g, S \ t) + SumFunctionOnSet(g, t)
      BY <1>3, <1>5, <1>6, SumUnion
    <3>2. IsFiniteSet(S \ t) /\ IsFiniteSet(t) /\ IntOn(change, t)
      BY <1>3, <1>5, IntOnSubset
    <3>3. SumFunctionOnSet(g, S \ t) = 0
      <4>1. \A i \in S \ t : g[i] = 0
        BY <1>4
      <4> QED BY <3>2, <4>1, SumZero
    <3>4. SumFunctionOnSet(g, t) = SumFunctionOnSet(change, t) /\ SumFunctionOnSet(change, t) \in Int
      <4>1. \A i \in t : g[i] = change[i]
        BY <1>3, <1>4, <2>1
      <4> QED BY <3>2, <4>1, SumSame, SumInt
    <3> QED BY <1>2, <1>4, <2>1, <3>1, <3>3, <3>4 DEF Reported
  <2>2. CASE p # q
    <3>1. \A i \in S : g[i] = 0
      BY <1>4, <2>2
    <3> QED BY <1>2, <1>5, <2>2, <3>1, SumZero DEF Reported
  <2> QED BY <2>1, <2>2
<1>11. Reported(c, p) \in Int
  BY <1>5, <1>6, <1>10, SumInt
<1> QED BY <1>1, <1>2, <1>4, <1>9, <1>10, <1>11

LEMMA BookedStep ==
  ASSUME Base, Booked, [Next]_vars
  PROVE  Booked'
<1> SUFFICES ASSUME restarts' = 0, NEW p \in Pairs
             PROVE  inventory'[p].base = SumFunctionOnSet(Booking(p)', DOMAIN matches')
  BY DEF Booked
<1>1. restarts = 0 /\ ~Restart
  <2>1. restarts \in Nat
    BY BoundAssumption DEF Base, TypeOK
  <2>2. ~Restart
    BY <2>1 DEF Restart
  <2>3. restarts' = restarts
    BY <2>2, StepKinds DEF Base, StartCycle, GivesUp, LockRound, EndsRound, ApplyRound, Submit, ReportOutcomes, Lists,
       Cancels, BookOnly, Deposit, Withdraws, MineSwap, RevertSwap, vars
  <2> QED BY <2>2, <2>3
<1>2. inventory[p].base = SumFunctionOnSet(Booking(p), DOMAIN matches)
  BY <1>1 DEF Booked
<1>3. CASE \E c \in Cycles : \E applied \in RoundResults(c) : ApplyRound(c, applied)
  <2>1. inventory' = inventory
    BY <1>3 DEF ApplyRound
  <2>2. SumFunctionOnSet(Booking(p)', DOMAIN matches') = SumFunctionOnSet(Booking(p), DOMAIN matches)
    BY <1>3, BookingApplied
  <2> QED BY <1>2, <2>1, <2>2
<1>4. CASE \E c \in Cycles : ReportOutcomes(c)
  <2>1. PICK c \in Cycles : ReportOutcomes(c)
    BY <1>4
  <2>2. /\ Reported(c, p) \in Int
        /\ SumFunctionOnSet(Booking(p)', DOMAIN matches')
             = SumFunctionOnSet(Booking(p), DOMAIN matches) + Reported(c, p)
    BY <2>1, BookingReported
  <2>3. PICK x \in Int : x = inventory[p].base
    BY DEF Base, TypeOK
  <2>4. inventory' = [inventory EXCEPT ![cycle[c].pair] = InventoryAfter(inventory[cycle[c].pair], cycle[c].round)]
    BY <2>1 DEF ReportOutcomes
  <2>5. CASE p = cycle[c].pair
    <3>1. inventory'[p] = InventoryAfter(inventory[p], cycle[c].round)
      BY <2>4, <2>5 DEF Base, TypeOK
    <3>2. inventory'[p].base = x + Reported(c, p)
      BY <2>3, <2>5, <3>1 DEF InventoryAfter, Reported
    <3> QED BY <1>2, <2>2, <2>3, <3>2
  <2>6. CASE p # cycle[c].pair
    <3>1. inventory'[p] = inventory[p] /\ Reported(c, p) = 0
      BY <2>4, <2>6 DEF Base, TypeOK, Reported
    <3> QED BY <1>2, <2>2, <2>3, <3>1
  <2> QED BY <2>5, <2>6
<1>5. ASSUME SameMatches, inventory' = inventory,
             \A c \in Cycles : /\ cycle'[c].pc = "submitting" <=> cycle[c].pc = "submitting"
                               /\ cycle[c].pc = "submitting" => cycle'[c].round = cycle[c].round
      PROVE  inventory'[p].base = SumFunctionOnSet(Booking(p)', DOMAIN matches')
  <2>1. Booking(p)' = Booking(p) /\ DOMAIN matches' = DOMAIN matches
    BY <1>5, BookingSame
  <2> QED BY <1>2, <1>5, <2>1
<1>6. SameMatches \/ \E c \in Cycles : \E applied \in RoundResults(c) : ApplyRound(c, applied)
  BY MatchesStep
<1>7. CASE \E c \in Cycles, pair \in Pairs : StartCycle(c, pair)
  <2>1. PICK c \in Cycles, pair \in Pairs : StartCycle(c, pair)
    BY <1>7
  <2>2. ~InRound(c) /\ ~InRound(c)' /\ \A d \in Cycles \ {c} : cycle'[d] = cycle[d]
    BY <2>1, StartIs
  <2>3. inventory' = inventory
    BY <2>1 DEF StartCycle
  <2> QED BY <1>3, <1>5, <1>6, <2>2, <2>3 DEF InRound
<1>8. CASE \E c \in Cycles : GivesUp(c) \/ EndsRound(c)
  <2>1. PICK c \in Cycles : GivesUp(c) \/ EndsRound(c)
    BY <1>8
  <2>2. cycle'[c].pc = "idle" /\ \A d \in Cycles \ {c} : cycle'[d] = cycle[d]
    BY <2>1, LeaveIs DEF GivesUp, EndsRound, LeaveUnlocking
  <2>3. cycle[c].pc # "submitting" /\ inventory' = inventory
    BY <2>1 DEF GivesUp, EndsRound, At
  <2> QED BY <1>3, <1>5, <1>6, <2>2, <2>3
<1>9. CASE \E c \in Cycles : cycle[c].pc = "waiting" /\ \E fair \in FairPrices[cycle[c].pair] : LockRound(c, fair)
  <2>1. PICK c \in Cycles : cycle[c].pc = "waiting" /\ \E fair \in FairPrices[cycle[c].pair] : LockRound(c, fair)
    BY <1>9
  <2>2. PICK fair \in FairPrices[cycle[c].pair] : LockRound(c, fair)
    BY <2>1
  <2>3. cycle' = [cycle EXCEPT ![c] = NewRound(c, fair)] /\ inventory' = inventory
    BY <2>1, <2>2, LockIs DEF LockRound
  <2>4. cycle'[c] = NewRound(c, fair) /\ \A d \in Cycles \ {c} : cycle'[d] = cycle[d]
    BY <2>3 DEF Base, TypeOK
  <2>5. cycle'[c].pc = "matching"
    BY <2>4 DEF NewRound
  <2> QED BY <1>3, <1>5, <1>6, <2>1, <2>3, <2>4, <2>5
<1>10. CASE \E c \in Cycles, tx \in {"pending", "refused"} : Submit(c, tx)
  <2>1. PICK c \in Cycles, tx \in {"pending", "refused"} : Submit(c, tx)
    BY <1>10
  <2>2. cycle'[c].pc = "submitting" /\ cycle[c].pc = "submitting" /\ cycle'[c].round = cycle[c].round
    BY <2>1, SubmitIsMove
  <2>3. inventory' = inventory /\ \A d \in Cycles \ {c} : cycle'[d] = cycle[d]
    BY <2>1 DEF Submit, Base, TypeOK
  <2> QED BY <1>3, <1>5, <1>6, <2>2, <2>3
<1>11. CASE \/ \E o \in OrderIds : Lists(o) \/ Cancels(o) \/ Deposit(o) \/ Withdraws(o)
            \/ \E i \in DOMAIN matches : MineSwap(i) \/ RevertSwap(i)
            \/ UNCHANGED vars
  <2>1. cycle' = cycle /\ inventory' = inventory
    BY <1>11 DEF Lists, Cancels, BookOnly, Deposit, Withdraws, MineSwap, RevertSwap, vars, engineVars
  <2> QED BY <1>3, <1>5, <1>6, <2>1
<1> QED BY <1>1, <1>3, <1>4, <1>7, <1>8, <1>9, <1>10, <1>11, StepKinds DEF Base

LEMMA BookedHold == Spec => []Booked
<1>1. Init => Booked
  BY SumEmpty DEF Init, Booked
<1>2. Base /\ Booked /\ [Next]_vars => Booked'
  BY BookedStep
<1> QED BY <1>1, <1>2, BaseHolds, PTL DEF Spec

(***************************************************************************)
(* The inventory and the orders: the sum over the swaps of a pair is the   *)
(* sum over the orders of the pair.                                        *)
(***************************************************************************)

\* What x base matched of an order changes in the market maker's inventory of
\* a pair.
Signed(p, o, x) ==
  IF ~IsMM(o) \/ Terms[o].pair # p THEN 0 ELSE IF Terms[o].side = "buy" THEN x ELSE -x

LEMMA SignedZero ==
  ASSUME NEW p, NEW o \in OrderIds
  PROVE  Signed(p, o, 0) = 0
<1>1. ASSUME NEW z \in Int, z <= 0, z >= 0 PROVE -z = 0
  <2>1. -z = 0 - z
    OBVIOUS
  <2>2. 0 - z = 0
    BY <1>1
  <2> QED BY <2>1, <2>2, Zenon
<1>2. \A y \in Int : y <= 0 /\ y >= 0 => -y = 0
  BY <1>1
<1>3. 0 \in Int /\ 0 <= 0 /\ 0 >= 0
  OBVIOUS
<1>4. -0 = 0
  BY <1>2, <1>3, Zenon
<1> QED BY <1>4, Zenon DEF Signed

\* What a match changes in that inventory.
PairChange(p, m) == IF Terms[m.maker].pair # p THEN 0 ELSE BaseChange(m)

\* A match, seen from its two orders and from the inventory.
LEMMA OneMatch ==
  ASSUME NEW m \in Matches, MatchOK(m), NEW p
  PROVE  /\ SumFunctionOnSet([o \in OrderIds |-> Signed(p, o, Share(m, o))], OrderIds) = PairChange(p, m)
         /\ PairChange(p, m) \in Int
<1>1. PICK x \in OrderIds, y \in OrderIds, b \in Nat : x = m.maker /\ y = m.taker /\ b = m.base
  BY DEF Matches, Amounts
<1>2. x # y /\ Terms[x].side = "sell" /\ Terms[y].side = "buy" /\ Terms[x].pair = Terms[y].pair
  BY <1>1 DEF MatchOK
<1>3. PICK f : f = [o \in OrderIds |-> Signed(p, o, Share(m, o))]
  OBVIOUS
<1>4. \A o \in OrderIds : Share(m, o) \in Nat
  BY <1>1 DEF Share
<1>5. IntOn(f, OrderIds)
  BY <1>3, <1>4 DEF Signed, IntOn
<1>6. ASSUME NEW o \in OrderIds \ {x, y} PROVE f[o] = 0
  <2>1. Share(m, o) = 0
    BY <1>1 DEF Share
  <2>2. f[o] = Signed(p, o, 0)
    BY <1>3, <2>1
  <2>3. Signed(p, o, 0) = 0
    BY SignedZero
  <2> QED BY <2>2, <2>3
<1>7. SumFunctionOnSet(f, OrderIds) = f[x] + f[y]
  BY <1>2, <1>5, <1>6, OrderIdAssumption, SumTwo
<1>8. Share(m, x) = b /\ Share(m, y) = b
  BY <1>1 DEF Share
<1>9. /\ f[x] = IF ~IsMM(x) \/ Terms[x].pair # p THEN 0 ELSE -b
      /\ f[y] = IF ~IsMM(y) \/ Terms[x].pair # p THEN 0 ELSE b
  BY <1>2, <1>3, <1>8 DEF Signed
<1>10. PairChange(p, m) = IF Terms[x].pair # p THEN 0 ELSE (IF IsMM(y) THEN b ELSE 0) - (IF IsMM(x) THEN b ELSE 0)
  BY <1>1 DEF PairChange, BaseChange
<1> QED BY <1>3, <1>7, <1>9, <1>10

\* Both sums over the first k matches.
SumsAgree(p, k) ==
  SumFunctionOnSet([o \in OrderIds |-> Signed(p, o, FilledBy(matches, o, k))], OrderIds)
    = SumFunctionOnSet([i \in DOMAIN matches |-> PairChange(p, matches[i])], 1..k)

LEMMA SumsAgreeNext ==
  ASSUME Base, NEW p, NEW k \in Nat, k + 1 \in DOMAIN matches, SumsAgree(p, k)
  PROVE  SumsAgree(p, k + 1)
<1>0. matches \in Seq(Matches) /\ \A i \in DOMAIN matches : MatchOK(matches[i])
  BY DEF Base, TypeOK, MatchesOK
<1>1. PICK n \in Nat : n = Len(matches) /\ DOMAIN matches = 1..n /\ k < n
  <2>1. PICK n \in Nat : n = Len(matches) /\ DOMAIN matches = 1..n
    BY <1>0
  <2> QED BY <2>1
<1>2. \A i \in 1..n : matches[i] \in Matches /\ MatchOK(matches[i])
  BY <1>0, <1>1
<1>3. PICK change : change = [i \in DOMAIN matches |-> PairChange(p, matches[i])]
  OBVIOUS
<1>4. PICK f, g, h :
        /\ f = [o \in OrderIds |-> Signed(p, o, FilledBy(matches, o, k))]
        /\ g = [o \in OrderIds |-> Signed(p, o, Share(matches[k + 1], o))]
        /\ h = [o \in OrderIds |-> Signed(p, o, FilledBy(matches, o, k + 1))]
  OBVIOUS
<1>5. ASSUME NEW o \in OrderIds
      PROVE  /\ FilledBy(matches, o, k) \in Nat /\ Share(matches[k + 1], o) \in Nat
             /\ FilledBy(matches, o, k + 1) = FilledBy(matches, o, k) + Share(matches[k + 1], o)
  <2>1. \A m \in Matches : m.base \in Nat
    BY DEF Matches, Amounts
  <2>2. PICK s : s = Shares(matches, o)
    OBVIOUS
  <2>3. \A i \in 1..n : s[i] = Share(matches[i], o) /\ s[i] \in Nat
    BY <1>1, <2>1, <2>2, SharesType DEF Base, TypeOK
  <2>4. k + 1 \in 1..n /\ \A i \in 1..k : i \in 1..n
    BY <1>1
  <2>5. IntOn(s, 1..k) /\ IsFiniteSet(1..k) /\ s[k + 1] \in Int /\ \A i \in 1..k : s[i] \in Nat
    <3>1. s[k + 1] \in Nat /\ \A i \in 1..k : s[i] \in Nat
      BY <2>3, <2>4
    <3>2. IsFiniteSet(1..k)
      BY FS_Interval
    <3> QED BY <3>1, <3>2 DEF IntOn
  <2>6. SumFunctionOnSet(s, 1..(k + 1)) = SumFunctionOnSet(s, 1..k) + s[k + 1]
    BY <2>5, SumLonger
  <2>7. SumFunctionOnSet(s, 1..k) \in Nat
    BY <2>5, SumNat
  <2> QED BY <2>2, <2>3, <2>4, <2>6, <2>7 DEF FilledBy
<1>6. ASSUME NEW o \in OrderIds
      PROVE  f[o] \in Int /\ g[o] \in Int /\ h[o] = f[o] + g[o]
  <2>1. PICK x \in Nat, y \in Nat : x = FilledBy(matches, o, k) /\ y = Share(matches[k + 1], o)
    BY <1>5
  <2>2. f[o] = Signed(p, o, x) /\ g[o] = Signed(p, o, y) /\ h[o] = Signed(p, o, x + y)
    BY <1>4, <1>5, <2>1
  <2> QED BY <2>2 DEF Signed
<1>7. SumFunctionOnSet(h, OrderIds) = SumFunctionOnSet(f, OrderIds) + SumFunctionOnSet(g, OrderIds)
  BY <1>6, OrderIdAssumption, SumPlus DEF IntOn
<1>8. SumFunctionOnSet(g, OrderIds) = change[k + 1]
  BY <1>1, <1>2, <1>3, <1>4, OneMatch
<1>9. SumFunctionOnSet(change, 1..(k + 1)) = SumFunctionOnSet(change, 1..k) + change[k + 1]
  <2>1. \A i \in 1..n : change[i] \in Int
    BY <1>1, <1>2, <1>3, OneMatch
  <2>2. IntOn(change, 1..k) /\ change[k + 1] \in Int
    BY <1>1, <2>1 DEF IntOn
  <2> QED BY <2>2, SumLonger
<1>10. SumFunctionOnSet(f, OrderIds) = SumFunctionOnSet(change, 1..k)
  BY <1>3, <1>4 DEF SumsAgree
<1> QED BY <1>3, <1>4, <1>7, <1>8, <1>9, <1>10 DEF SumsAgree

LEMMA SumsAgreeAlways ==
  ASSUME Base, NEW p
  PROVE  SumsAgree(p, Len(matches))
<1>1. PICK n \in Nat : n = Len(matches) /\ DOMAIN matches = 1..n
  BY DEF Base, TypeOK
<1> DEFINE Q(k) == k <= n => SumsAgree(p, k)
           P == {k \in Nat : Q(k)}
<1>2. Q(0)
  <2>1. 1..0 = {}
    OBVIOUS
  <2>2. \A o \in OrderIds : FilledBy(matches, o, 0) = 0
    BY <2>1, SumEmpty DEF FilledBy
  <2>3. PICK f : f = [o \in OrderIds |-> Signed(p, o, FilledBy(matches, o, 0))]
    OBVIOUS
  <2>4. \A o \in OrderIds : f[o] = 0
    BY <2>2, <2>3 DEF Signed
  <2>5. SumFunctionOnSet(f, OrderIds) = 0
    BY <2>4, OrderIdAssumption, SumZero
  <2> QED BY <2>1, <2>3, <2>5, SumEmpty DEF SumsAgree
<1>3. ASSUME NEW k \in P PROVE Q(k + 1)
  <2>1. SUFFICES ASSUME k + 1 <= n PROVE SumsAgree(p, k + 1)
    OBVIOUS
  <2>2. k \in Nat /\ SumsAgree(p, k) /\ k + 1 \in DOMAIN matches
    BY <1>1, <2>1
  <2> QED BY <2>2, SumsAgreeNext
<1>4. P = Nat
  <2>1. 0 \in P /\ \A k \in P : k + 1 \in P
    <3> HIDE DEF Q
    <3> QED BY <1>2, <1>3
  <2> HIDE DEF P
  <2> QED BY <2>1, AllNumbers DEF P
<1>5. Q(n)
  <2> HIDE DEF Q
  <2> QED BY <1>4
<1> QED BY <1>1, <1>5

\* Between rounds the inventory of a pair is what has been matched of the orders
\* of the bot's wallet: every match is booked once, none is left out because the
\* book skipped its fill (bot.py, lines 132 to 158).
THEOREM InventoryOfMatches == Spec => []InventoryIsMatched
<1>1. Base /\ Booked => InventoryIsMatched
  <2> SUFFICES ASSUME Base, Booked, restarts = 0, NEW p \in Pairs,
                      \A c \in Cycles : cycle[c].pc = "submitting" => cycle[c].pair # p
               PROVE  inventory[p].base =
                        SumFunction([o \in OrderIds |-> IF ~IsMM(o) \/ Terms[o].pair # p THEN 0
                                                        ELSE IF Terms[o].side = "buy" THEN Matched(o)
                                                        ELSE -Matched(o)])
    BY DEF InventoryIsMatched
  <2>1. PICK n \in Nat : n = Len(matches) /\ DOMAIN matches = 1..n
    BY DEF Base, TypeOK
  <2>2. PICK S, f, g, booked :
          /\ S = DOMAIN matches /\ booked = Booking(p)
          /\ f = [i \in DOMAIN matches |-> PairChange(p, matches[i])]
          /\ g = [o \in OrderIds |-> Signed(p, o, FilledBy(matches, o, n))]
    OBVIOUS
  <2>3. ASSUME NEW i \in S PROVE f[i] = booked[i]
    <3>1. Unreported(i) => Terms[matches[i].maker].pair # p
      BY DEF Unreported, Base, RoundsListed, SwapsOf
    <3> QED BY <2>2, <3>1 DEF Booking, PairChange
  <2>4. IsFiniteSet(S) /\ IntOn(booked, S)
    BY <2>2, BookingType
  <2>5. inventory[p].base = SumFunctionOnSet(f, S)
    <3>1. SumFunctionOnSet(f, S) = SumFunctionOnSet(booked, S)
      BY <2>3, <2>4, SumSame
    <3> QED BY <2>2, <3>1 DEF Booked
  <2>6. SumFunctionOnSet(f, S) = SumFunctionOnSet(g, OrderIds)
    BY <2>1, <2>2, SumsAgreeAlways DEF SumsAgree
  <2>7. PICK e : e = [o \in OrderIds |-> IF ~IsMM(o) \/ Terms[o].pair # p THEN 0
                                         ELSE IF Terms[o].side = "buy" THEN Matched(o)
                                         ELSE -Matched(o)]
    OBVIOUS
  <2>8. ASSUME NEW o \in OrderIds PROVE e[o] = g[o]
    <3>1. FilledBy(matches, o, n) = Matched(o)
      BY <2>1, FillInIs DEF FilledBy, Matched
    <3> QED BY <2>2, <2>7, <3>1 DEF Signed
  <2>9. e = g
    BY <2>2, <2>7, <2>8
  <2>10. SumFunction(e) = SumFunctionOnSet(e, OrderIds)
    BY <2>7, SumOver
  <2> QED BY <2>5, <2>6, <2>7, <2>9, <2>10
<1> QED BY <1>1, BaseHolds, BookedHold, PTL
=============================================================================
