--------------------------- MODULE MatchingRules ---------------------------
(***************************************************************************)
(* The rules one matching round applies, as operators without state:       *)
(* the volatility hold and the wash-trade filter of matching/engine.py,    *)
(* the choice of a winner among the three strategies, and the validation   *)
(* of the winner's matches in matching/validator.py.                       *)
(*                                                                         *)
(* A snapshot is a function from order ids to records with the fields      *)
(* side, wallet, amount, filled and limit.  Wallets are numbers: lower-    *)
(* cased hex addresses are compared and sorted.  Prices and amounts are    *)
(* integers; a raw match that lacks a field or does not parse is           *)
(* represented by one that names an unknown order, which is rejected at    *)
(* the same place with the same effect.                                    *)
(***************************************************************************)
EXTENDS Integers, FiniteSets, Sequences, FiniteSetsExt

(***************************************************************************)
(* Volatility.                                                             *)
(***************************************************************************)

MAX_VOLATILITY_PERCENT == 2

\* prev_fair_price before the first round: None, tested like a zero price.
NoPrice == 0

Distance(p, q) == IF p >= q THEN p - q ELSE q - p

\* The fair price moved by more than 2% since prev.
VolatilityHolds(fair, prev) ==
  prev # NoPrice /\ 100 * Distance(fair, prev) > MAX_VOLATILITY_PERCENT * prev

(***************************************************************************)
(* Wash-trade filter: buys and sells are sets of order ids.                *)
(***************************************************************************)

WalletsOf(ids, wallet) == {wallet[o] : o \in ids}

\* Position of w in sorted(duals), from 0.
SortedIndex(w, duals) == Cardinality({v \in duals : v < w})

\* Mutant: a dual wallet is dropped from the sells only.
WashFilterOneSide(buys, sells, wallet) ==
  LET duals == WalletsOf(buys, wallet) \intersect WalletsOf(sells, wallet)
      otherBuyers == WalletsOf(buys, wallet) \ duals
      single(ids) == {o \in ids : wallet[o] \notin duals}
  IN [buys |-> buys,
      sells |-> IF otherBuyers # {} THEN sells ELSE single(sells)]

\* Mutant: a dual wallet is dropped from both sides.
WashFilterBothSides(buys, sells, wallet) ==
  LET duals == WalletsOf(buys, wallet) \intersect WalletsOf(sells, wallet)
      single(ids) == {o \in ids : wallet[o] \notin duals}
  IN [buys |-> single(buys), sells |-> single(sells)]

\* A wallet on both sides leaves a side where others remain; when every
\* wallet is on both sides, they are assigned to buy and sell alternately.
WashFilter(buys, sells, wallet) ==
  LET duals == WalletsOf(buys, wallet) \intersect WalletsOf(sells, wallet)
      otherBuyers == WalletsOf(buys, wallet) \ duals
      otherSellers == WalletsOf(sells, wallet) \ duals
      single(ids) == {o \in ids : wallet[o] \notin duals}
      keepBuy == {w \in duals : SortedIndex(w, duals) % 2 = 0}
      keepSell == duals \ keepBuy
  IN IF duals = {} THEN [buys |-> buys, sells |-> sells]
     ELSE IF otherBuyers # {} \/ otherSellers # {} THEN
       [buys |-> IF otherBuyers # {} THEN single(buys) ELSE buys,
        sells |-> IF otherSellers # {} THEN single(sells) ELSE sells]
     ELSE
       [buys |-> {o \in buys : wallet[o] \in keepBuy},
        sells |-> {o \in sells : wallet[o] \in keepSell}]

(***************************************************************************)
(* Winner.  A strategy result is a record [error, matches]: matches is the *)
(* sequence it proposes, empty when it failed.  A verdict is a record      *)
(* [error, winner]; the judge's winner may be out of range.                *)
(***************************************************************************)

NoMatches == [error |-> FALSE, matches |-> << >>]

ProposedVolume(result) ==
  SumFunction([i \in DOMAIN result.matches |-> result.matches[i].fill])

\* max(..., key=volume): the first of the largest.
LargestVolume(results, candidates) ==
  LET best == {i \in candidates : \A j \in candidates :
                 ProposedVolume(results[j]) <= ProposedVolume(results[i])}
  IN CHOOSE i \in best : \A j \in best : i <= j

\* Mutant: the judge's choice stands even when it proposes nothing.
WinnerWithoutOverride(results, verdict) ==
  LET valid == {i \in DOMAIN results : ~results[i].error}
  IN IF valid = {} THEN NoMatches
     ELSE IF Cardinality(valid) = 1 THEN results[CHOOSE i \in valid : TRUE]
     ELSE IF verdict.error THEN results[LargestVolume(results, valid)]
     ELSE results[IF verdict.winner \in DOMAIN results THEN verdict.winner ELSE 1]

\* The result the round goes on with; NoMatches when all strategies failed.
\* The judge is asked only when two or more are valid.
Winner(results, verdict) ==
  LET valid == {i \in DOMAIN results : ~results[i].error}
      proposing == {i \in valid : results[i].matches # << >>}
      chosen == IF verdict.winner \in DOMAIN results THEN verdict.winner ELSE 1
  IN IF valid = {} THEN NoMatches
     ELSE IF Cardinality(valid) = 1 THEN results[CHOOSE i \in valid : TRUE]
     ELSE IF verdict.error THEN results[LargestVolume(results, valid)]
     ELSE IF results[chosen].matches = << >> /\ proposing # {}
       THEN results[LargestVolume(results, proposing)]
     ELSE results[chosen]

(***************************************************************************)
(* Validator.  A raw match is a record [maker, taker, fill, price].        *)
(***************************************************************************)

\* Mutant: the fills of earlier rounds are ignored.
RoomOfAmount(order) == order.amount

\* What is left of an order.
Room(order) == order.amount - order.filled

OutsideLimits(price, maker, taker) == price > taker.limit \/ price < maker.limit

\* Mutant: a price outside the limits becomes the fair price, unclamped.
ExecPriceUnclamped(raw, maker, taker, fair) ==
  IF OutsideLimits(raw.price, maker, taker) THEN fair ELSE raw.price

\* A price outside the limits becomes the fair price clamped to them.
ExecPrice(raw, maker, taker, fair) ==
  IF ~OutsideLimits(raw.price, maker, taker) THEN raw.price
  ELSE IF fair < maker.limit THEN maker.limit
  ELSE IF fair > taker.limit THEN taker.limit
  ELSE fair

\* The checks on a raw match that look at nothing but its two orders.
Admissible(raw, snap) ==
  /\ {raw.maker, raw.taker} \subseteq DOMAIN snap
  /\ LET maker == snap[raw.maker]
         taker == snap[raw.taker]
     IN /\ maker.side = "sell" /\ taker.side = "buy"
        /\ maker.wallet # taker.wallet
        /\ OutsideLimits(raw.price, maker, taker) => maker.limit <= taker.limit
        /\ raw.fill > 0

\* Mutant: the room ignores the fills of this round.
FitsRoomAlone(fill, total, order) == fill <= Room(order)

\* The cumulative fill of the round stays within what the order has left.
FitsRoom(fill, total, order) == total <= Room(order)

\* One raw match: accepted with its execution price, or counted as rejected.
\* total[o] is the fill accepted for o so far.
ValidateOne(acc, raw, snap, fair) ==
  IF /\ Admissible(raw, snap)
     /\ \A o \in {raw.maker, raw.taker} : FitsRoom(raw.fill, acc.total[o] + raw.fill, snap[o])
  THEN LET price == ExecPrice(raw, snap[raw.maker], snap[raw.taker], fair)
       IN [accepted |-> Append(acc.accepted, [maker |-> raw.maker, taker |-> raw.taker,
                                              base |-> raw.fill, quote |-> raw.fill * price,
                                              price |-> price]),
           rejected |-> acc.rejected,
           total |-> [o \in DOMAIN snap |-> IF o \in {raw.maker, raw.taker}
                                            THEN acc.total[o] + raw.fill ELSE acc.total[o]]]
  ELSE [acc EXCEPT !.rejected = @ + 1]

\* validate_matching_result: the matches in order, then the volatility hold,
\* which turns every accepted match into a rejected one.
Validate(raws, snap, fair, prev) ==
  LET start == [accepted |-> << >>, rejected |-> 0, total |-> [o \in DOMAIN snap |-> 0]]
      after[i \in 0..Len(raws)] ==
        IF i = 0 THEN start ELSE ValidateOne(after[i - 1], raws[i], snap, fair)
      all == after[Len(raws)]
  IN IF VolatilityHolds(fair, prev)
     THEN [accepted |-> << >>, rejected |-> all.rejected + Len(all.accepted), held |-> TRUE]
     ELSE [accepted |-> all.accepted, rejected |-> all.rejected, held |-> FALSE]

\* What a list of accepted matches fills of an order.
FillIn(ms, o) ==
  SumFunction([i \in DOMAIN ms |-> IF o \in {ms[i].maker, ms[i].taker} THEN ms[i].base ELSE 0])

\* Mutant: the accepted matches of a round with a rejected one are applied.
AppliedDespiteRejects(validated) ==
  IF ~validated.held THEN validated.accepted ELSE << >>

\* The engine applies a round only when nothing in it was rejected.
Applied(validated) ==
  IF ~validated.held /\ validated.rejected = 0 THEN validated.accepted ELSE << >>
=============================================================================
