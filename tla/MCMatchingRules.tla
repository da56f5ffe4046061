-------------------------- MODULE MCMatchingRules --------------------------
(***************************************************************************)
(* The rules of matching, pricing and quoting over bounded inputs: an      *)
(* input is drawn in the initial state, a step applies the rules to it, or *)
(* one tick after the other, and the properties relate output to input.    *)
(***************************************************************************)
EXTENDS QuoteRules, TeeRules

CONSTANTS
  FilterWallets,  \* wallets of the filter inputs, at most one order each per side
  MaxPrice,       \* prices and fair prices are 1..MaxPrice
  MaxFill         \* amounts are 1..MaxFill; a raw fill is 0..MaxFill

\* Wallets are compared and sorted as numbers.
ASSUME WalletsAssumption == FilterWallets \subseteq Nat

ASSUME BoundsAssumption == MaxPrice \in Nat \ {0} /\ MaxFill \in Nat \ {0}

VARIABLES input, output

vars == <<input, output>>

(***************************************************************************)
(* Inputs.                                                                 *)
(***************************************************************************)

\* Any wallets on either side; order <<side, w>> belongs to wallet w.
FilterInputs ==
  {[kind |-> "filter", buyers |-> b, sellers |-> s] :
     b \in SUBSET FilterWallets, s \in SUBSET FilterWallets}

\* Two sells and a buy; the first sell may share the buyer's wallet.
Snapshots ==
  {[s1 |-> [side |-> "sell", wallet |-> w, amount |-> MaxFill, filled |-> f, limit |-> l1],
    s2 |-> [side |-> "sell", wallet |-> 3, amount |-> MaxFill, filled |-> 0, limit |-> 1],
    b1 |-> [side |-> "buy", wallet |-> 2, amount |-> MaxFill, filled |-> g, limit |-> l2]] :
     w \in {1, 2}, f, g \in {0, 1}, l1, l2 \in {2, 3}}

RawMatches ==
  [maker : {"s1", "s2", "b1"}, taker : {"b1", "s2"}, fill : 0..MaxFill, price : {2, MaxPrice}]

ValidatorInputs ==
  [kind : {"validator"}, snap : Snapshots, fair : {1, 3},
   raws : {<<r>> : r \in RawMatches}
          \union {<<r1, r2>> : r1 \in [maker : {"s1"}, taker : {"b1"}, fill : 1..MaxFill, price : {2}],
                               r2 \in RawMatches}]

\* The volume of a proposal is all that the choice looks at.
Replies ==
  [outcome : Unusable, matches : {<< >>}]
    \union [outcome : {"parsed"}, matches : {<< >>} \union {<<[fill |-> f]>> : f \in 0..MaxFill}]

\* The three strategies; their models are on the allowlist or not.
WinnerInputs ==
  [kind : {"winner"}, key : BOOLEAN, anyModel : {FALSE}, allowed : {{1, 2, 3}, {1, 3}},
   replies : [1..3 -> Replies], verdict : [error : BOOLEAN, winner : 0..3]]
  \union
  [kind : {"winner"}, key : {TRUE}, anyModel : {TRUE}, allowed : {{}},
   replies : [1..3 -> Replies], verdict : {[error |-> FALSE, winner |-> 1]}]

\* Replies of the price sources, and the mid of the last quote, doubled.
PriceInputs ==
  [kind : {"price"}, last : {NoPrice, 196, 200},
   reply : [chainlink : {Failed, 0} \union 92..108, binance : {Failed, 90, 95, 100, 101, 106, 112},
            pancake : {Failed, 0, 55, 58, 59, 60, 61, 62}]]

Inventory(base, quote) == [base |-> base, quote |-> quote, base0 |-> 100, quote0 |-> 1000000]

Ticker(mid) == [bid |-> mid - 1, ask |-> mid + 1]

NoTicker == [bid |-> 0, ask |-> 0]

OnlyBinance == <<[binance |-> TRUE, weight |-> 100]>>
PancakeFirst == <<[binance |-> FALSE, weight |-> 60], [binance |-> TRUE, weight |-> 40]>>

Reply(chainlink, binance, pancake) ==
  [chainlink |-> chainlink, binance |-> binance, pancake |-> pancake]

Deposits(bid, ask) == [bid |-> bid, ask |-> ask]

BothConfirmed == {Deposits("confirmed", "confirmed")}

\* Three ticks: the stream drifts by less than the refresh threshold, falls
\* silent and goes stale, REST is away or shows a shock, fills tilt the
\* inventory.
LongTicks ==
  [sec : {5, 61}, message : {NoTicker} \union {Ticker(m) : m \in {10000, 10004, 10008}},
   reply : {Reply(Failed, r, Failed) : r \in {Failed, 10600}},
   inv : {Inventory(100, 1000000), Inventory(180, 200000)}, deposit : BothConfirmed]

\* Ticks of a refresh that raises, with its bid listed or not, or that passes
\* a side over.
BrokenTicks ==
  [sec : {5}, message : {Ticker(m) : m \in {10000, 10004, 10008}}, reply : {Reply(Failed, Failed, Failed)},
   inv : {Inventory(100, 1000000), Inventory(180, 200000)},
   deposit : {Deposits("confirmed", "raises"), Deposits("raises", "confirmed"), Deposits("none", "confirmed")}]

\* Two ticks with both feeds, the oracle behind them, and a corrupt ticker.
MixedTicks ==
  [sec : {5}, message : {NoTicker, Ticker(10000), [bid |-> 10002, ask |-> 9998]},
   reply : [chainlink : {Failed, 10003}, binance : {Failed, 10060}, pancake : {Failed, 6, 5}],
   inv : {Inventory(100, 1000000)}, deposit : BothConfirmed]

\* One tick at any inventory, small ones included.
EdgeTicks ==
  [sec : {5}, message : {Ticker(m) : m \in {5000, 10000, 20000}}, reply : {Reply(Failed, Failed, Failed)},
   inv : {Inventory(b, q) : b \in {0, 2, 4, 5, 20, 60, 100, 180},
                            q \in {0, 10000, 20000, 49999, 50000, 200000, 1000000}},
   deposit : BothConfirmed]

TickInputs ==
  [kind : {"ticks"}, sources : {OnlyBinance}, ticks : [1..3 -> LongTicks \union BrokenTicks] \union [1..1 -> EdgeTicks]]
  \union [kind : {"ticks"}, sources : {PancakeFirst, << >>}, ticks : [1..2 -> MixedTicks]]

(***************************************************************************)
(* Behaviour.                                                              *)
(***************************************************************************)

Pending == [done |-> FALSE]

Init ==
  /\ input \in UNION {FilterInputs, ValidatorInputs, WinnerInputs, PriceInputs, TickInputs}
  /\ output = Pending

Owner == [o \in {"buy", "sell"} \X FilterWallets |-> o[2]]

Filter ==
  /\ input.kind = "filter" /\ output = Pending
  /\ output' = WashFilter({"buy"} \X input.buyers, {"sell"} \X input.sellers, Owner)
  /\ UNCHANGED input

ValidateRound ==
  /\ input.kind = "validator" /\ output = Pending
  /\ output' = Validate(input.raws, input.snap, input.fair, NoPrice)
  /\ UNCHANGED input

\* What each strategy's call comes to.
StrategyResults(in) ==
  [i \in 1..3 |-> CallTee([key |-> in.key, anyModel |-> in.anyModel, allowed |-> i \in in.allowed],
                         in.replies[i])]

ChooseWinner ==
  /\ input.kind = "winner" /\ output = Pending
  /\ output' = Winner(StrategyResults(input), input.verdict)
  /\ UNCHANGED input

QuotePrice ==
  /\ input.kind = "price" /\ output = Pending
  /\ output' = PricingQuote(input.reply, input.last)
  /\ UNCHANGED input

\* The bot's record so far, and how many ticks led to it.
Bot == IF output = Pending THEN NewBot ELSE output.bot
TicksDone == IF output = Pending THEN 0 ELSE output.ticks

RunTick ==
  /\ input.kind = "ticks" /\ TicksDone < Len(input.ticks)
  /\ output' = [bot |-> Tick(Bot, FeedWeights(input.sources), input.ticks[TicksDone + 1]),
                ticks |-> TicksDone + 1]
  /\ UNCHANGED input

Next == Filter \/ ValidateRound \/ ChooseWinner \/ QuotePrice \/ RunTick

Spec == Init /\ [][Next]_vars

(***************************************************************************)
(* Properties.                                                             *)
(***************************************************************************)

Ready(kind) == input.kind = kind /\ output # Pending

\* After the filter no wallet stands on both sides, so no round can match a
\* wallet with itself (engine.py lines 102-136).
FilterSeparatesWallets ==
  Ready("filter") =>
    WalletsOf(output.buys, Owner) \intersect WalletsOf(output.sells, Owner) = {}

\* The filter never takes the last trade away: when two different wallets
\* stand on opposite sides before it, both sides are non-empty after it.
FilterKeepsTrade ==
  Ready("filter") /\ (\E b \in input.buyers, s \in input.sellers : b # s) =>
    output.buys # {} /\ output.sells # {}

\* What is accepted, even beside rejected matches, fits the orders: every
\* price within both limits, the fills of an order within its remaining
\* amount (validator.py lines 96-149).
AcceptedFits ==
  Ready("validator") =>
    LET ms == output.accepted
    IN /\ \A i \in DOMAIN ms : LET m == ms[i] IN
            /\ input.snap[m.maker].limit <= m.price /\ m.price <= input.snap[m.taker].limit
            /\ m.quote = m.base * m.price
       /\ \A o \in DOMAIN input.snap : FillIn(ms, o) <= Room(input.snap[o])

\* A round is applied exactly when it is sound as a whole, whatever the order
\* of its matches: every match admissible and, per order, all of the round's
\* fills together within what is left.
RoundAppliedIffSound ==
  Ready("validator") =>
    LET raws == input.raws
        claims(o) == SumFunction([i \in DOMAIN raws |-> IF o \in {raws[i].maker, raws[i].taker}
                                                         THEN raws[i].fill ELSE 0])
        sound == /\ \A i \in DOMAIN raws : Admissible(raws[i], input.snap)
                 /\ \A o \in DOMAIN input.snap : claims(o) <= Room(input.snap[o])
    IN (Applied(output) # << >>) <=> (sound /\ raws # << >>)

\* A round is not lost to a judge or a strategy: when some strategy succeeded
\* with a positive volume, the winner proposes something (lines 196-260).
WinnerProposes ==
  LET results == StrategyResults(input)
  IN Ready("winner") /\ (\E i \in 1..3 : ~results[i].error /\ ProposedVolume(results[i]) > 0)
       => output.matches # << >>

\* One source that is wrong, by however much, moves the fair price by at most
\* half the outlier threshold beyond what any two other answers span
\* (aggregator.py lines 77-97).
FairPriceRobust ==
  LET price == FetchAll(input.reply)
  IN Ready("price") /\ Answered(price) = Sources =>
       \A s, t \in Sources : s # t /\ price[s] <= price[t] =>
         /\ 100 * output.mid >= price[s] * (200 - PriceOutlierPct)
         /\ 100 * output.mid <= price[t] * (200 + PriceOutlierPct)

\* Whatever the feeds did before, the quotes that the last refresh listed are
\* on both sides of the price of the tick, and on sides the inventory allows
\* now: neither a slow drift, each step of it below the threshold, nor a pause
\* or a failed feed leaves them behind (bot.py lines 195-256).  Of a refresh
\* that an exception cut short this is not true, see the README.
QuotesStraddlePrice ==
  LET bot == output.bot
      listed == bot.listed
  IN Ready("ticks") /\ listed.whole =>
       /\ listed.sides.bid => BidPrice(listed.mid, listed.bps) < 20000 * bot.mid
       /\ listed.sides.ask => 20000 * bot.mid < AskPrice(listed.mid, listed.bps)
       /\ \A s \in {"bid", "ask"} :
            listed.sides[s] => Sides(input.ticks[output.ticks].inv, bot.mid)[s]

\* While it quotes, the bot may quote some side unless its inventory is worth
\* less than MinInventoryPct / MaxExposurePct of the initial one at the same
\* price: the two limits never stop both sides of a bot that has its capital
\* (risk.py lines 56-76).
SomeSideQuoted ==
  LET bot == output.bot
      inv == input.ticks[output.ticks].inv
  IN Ready("ticks") /\ bot.listed.whole /\ bot.quoted.mid # NoPrice
       /\ ~bot.quoted.sides.bid /\ ~bot.quoted.sides.ask =>
       MaxExposurePct * Total(inv, bot.mid) < MinInventoryPct * InitialTotal(inv, bot.mid)
=============================================================================
