----------------------------- MODULE QuoteRules -----------------------------
(***************************************************************************)
(* What the market-maker bot decides at a tick, as operators without       *)
(* state: the price it takes from its feeds (mm_bot/price_feed.py), the    *)
(* pause after a price shock and the limits of its inventory (risk.py),    *)
(* the spread (spread.py, order_gen.py), and whether it refreshes its      *)
(* quotes (bot.py).  MarketMaker has the transactions that follow.         *)
(*                                                                         *)
(* The constants are settings of mm_config.yaml, in percent, basis points  *)
(* and seconds.  Times are seconds; prices are integers.                   *)
(***************************************************************************)
EXTENDS PriceRules

CONSTANTS
  StaleSec, FeedOutlierPct,                \* the feeds
  ShockPct, ShockWindowSec,                \* a pause after a shock
  MaxExposurePct, MinInventoryPct,         \* limits of the inventory
  BaseBps, MinBps, MaxBps, VolMultMax, VolWindowSec,  \* the spread
  RefreshBps                               \* price_refresh_threshold_pct

\* Whatever the settings: below half, the exposure limits would stop both
\* sides of a balanced inventory, and a refresh threshold above half of the
\* spread would leave quotes on the wrong side of the price.
ASSUME QuoteRulesAssumption ==
  /\ {StaleSec, FeedOutlierPct, ShockPct, ShockWindowSec, VolWindowSec} \subseteq Nat
  /\ MaxExposurePct \in 50..100 /\ MinInventoryPct \in Nat
  /\ {BaseBps, MaxBps, RefreshBps} \subseteq Nat \ {0} /\ {MinBps, VolMultMax} \subseteq Nat
  /\ VolMultMax >= 1
  /\ 2 * RefreshBps <= BaseBps /\ 2 * RefreshBps <= MaxBps

(***************************************************************************)
(* The mid price.                                                          *)
(***************************************************************************)

\* _parse_book_ticker: a missing or unreadable side is zero; a crossed book
\* is corrupt.
TickerMid(message) ==
  IF 0 < message.bid /\ message.bid <= message.ask
  THEN (message.bid + message.ask) \div 2 ELSE NoPrice

NoMid == [mid |-> NoPrice, at |-> 0]

\* The stream keeps the last mid it could read.
Cached(cache, message, now) ==
  IF TickerMid(message) = NoPrice THEN cache ELSE [mid |-> TickerMid(message), at |-> now]

Latest(cache, now) == IF now - cache.at <= StaleSec THEN cache.mid ELSE NoPrice

\* _fetch_binance: the stream, then the REST ticker, then the oracle.
BinanceMid(cache, now, reply) ==
  IF Latest(cache, now) # NoPrice THEN Latest(cache, now)
  ELSE IF BinancePrice(reply.binance) # NoPrice THEN BinancePrice(reply.binance)
  ELSE ChainlinkPrice(reply.chainlink)

\* MMBot.__init__: weights of the first two sources of the configuration.
FeedWeights(sources) ==
  CASE Len(sources) >= 2 /\ sources[1].weight + sources[2].weight > 0 ->
         [pancake |-> sources[1].weight, binance |-> sources[2].weight]
    [] Len(sources) = 1 ->
         IF sources[1].binance THEN [pancake |-> 0, binance |-> 100]
         ELSE [pancake |-> 100, binance |-> 0]
    [] OTHER -> [pancake |-> 60, binance |-> 40]

\* get_mid_price: the weighted mean of the two feeds, Binance alone when they
\* are far apart, the one that answered otherwise.
MidPrice(weights, pancakeFeed, binanceFeed) ==
  LET pancake == IF weights.pancake > 0 THEN pancakeFeed ELSE NoPrice
      binance == IF weights.pancake <= 0 \/ weights.binance > 0 THEN binanceFeed ELSE NoPrice
  IN CASE pancake = NoPrice -> binance
       [] binance = NoPrice -> pancake
       [] OTHER ->
            IF 100 * Distance(pancake, binance) > FeedOutlierPct * AtMost(pancake, binance)
            THEN binance
            ELSE (pancake * weights.pancake + binance * weights.binance)
                   \div (weights.pancake + weights.binance)

(***************************************************************************)
(* Prices seen, as a set of records [at, mid].                             *)
(***************************************************************************)

Window(prices, now, sec) == {p \in prices : p.at >= now - sec}

Oldest(prices) == CHOOSE p \in prices : \A q \in prices : p.at <= q.at

\* record_price: the price moved too far since the oldest of the window.
Shock(window, mid) ==
  /\ Cardinality(window) >= 2
  /\ 100 * Distance(mid, Oldest(window).mid) >= ShockPct * Oldest(window).mid

\* volatility_multiplier, in hundredths: one, and as much as the range of the
\* window in percent of its mean, up to two.
VolMultiplier(window) ==
  LET mids == {p.mid : p \in window}
      total == SumFunction([p \in window |-> p.mid])
  IN IF Cardinality(window) < 2 THEN 100
     ELSE AtMost(100 + AtMost((10000 * (Max(mids) - Min(mids)) * Cardinality(window)) \div total, 200),
                 100 * VolMultMax)

\* effective_spread_bps, without fractions of a basis point.
Spread(window) ==
  LET raw == AtMost((BaseBps * VolMultiplier(window)) \div 100, MaxBps)
  IN IF raw < MinBps THEN MinBps ELSE raw

\* bid_ask_prices, times 20000.
BidPrice(mid, bps) == mid * (20000 - bps)
AskPrice(mid, bps) == mid * (20000 + bps)

(***************************************************************************)
(* Limits of the inventory, a record [base, quote, base0, quote0].         *)
(***************************************************************************)

Total(inv, mid) == inv.base * mid + inv.quote
InitialTotal(inv, mid) == inv.base0 * mid + inv.quote0

\* base_share > pct and base_share < pct: without value the share is half.
ShareAbove(inv, mid, pct) ==
  IF Total(inv, mid) <= 0 THEN 50 > pct ELSE 100 * (inv.base * mid) > pct * Total(inv, mid)
ShareBelow(inv, mid, pct) ==
  IF Total(inv, mid) <= 0 THEN 50 < pct ELSE 100 * (inv.base * mid) < pct * Total(inv, mid)

CanBid(inv, mid) ==
  \/ inv.quote0 <= 0
  \/ /\ 100 * inv.quote >= MinInventoryPct * inv.quote0
     /\ ~ShareAbove(inv, mid, MaxExposurePct)

\* Mutant: the ask side is limited at the same share as the bid side.
CanAskSameSide(inv, mid) ==
  \/ inv.base0 <= 0
  \/ /\ 100 * inv.base >= MinInventoryPct * inv.base0
     /\ ~ShareBelow(inv, mid, MaxExposurePct)

CanAsk(inv, mid) ==
  \/ inv.base0 <= 0
  \/ /\ 100 * inv.base >= MinInventoryPct * inv.base0
     /\ ~ShareBelow(inv, mid, 100 - MaxExposurePct)

Sides(inv, mid) == [bid |-> CanBid(inv, mid), ask |-> CanAsk(inv, mid)]

(***************************************************************************)
(* A tick.  The bot's record of a pair: the stream's cache, the prices     *)
(* seen, the end of a pause, what it recorded of its last refresh (quoted) *)
(* and the quotes that the last refresh listed (listed).  mid, the price   *)
(* of the last tick, and listed.whole are kept for the properties.  A      *)
(* quote that a round withholds from its cancel is left to MarketMaker.    *)
(***************************************************************************)

NoSide == [bid |-> FALSE, ask |-> FALSE]

NotQuoting == [mid |-> NoPrice, sides |-> NoSide]

NotListed == [mid |-> NoPrice, bps |-> 0, sides |-> NoSide, whole |-> TRUE]

NewBot ==
  [now |-> 0, cache |-> NoMid, prices |-> {}, pausedUntil |-> 0, quoted |-> NotQuoting,
   listed |-> NotListed, mid |-> NoPrice]

\* Mutant: the move is measured from the price of the tick before.
SkipSinceTick(bot, mid, sides) ==
  /\ bot.quoted.mid # NoPrice
  /\ bot.quoted.sides = sides
  /\ 10000 * Distance(mid, bot.mid) < RefreshBps * bot.mid

\* _should_skip_refresh.
Skip(bot, mid, sides) ==
  /\ bot.quoted.mid # NoPrice
  /\ bot.quoted.sides = sides
  /\ 10000 * Distance(mid, bot.quoted.mid) < RefreshBps * bot.quoted.mid

\* The pair's prices after record_price and record_mid at time now.
Recorded(bot, now, mid) ==
  Window(bot.prices \union {[at |-> now, mid |-> mid]}, now,
         IF ShockWindowSec > VolWindowSec THEN ShockWindowSec ELSE VolWindowSec)

PauseEnd(bot, now, mid) ==
  IF Shock(Window(Recorded(bot, now, mid), now, ShockWindowSec), mid)
  THEN now + ShockWindowSec ELSE bot.pausedUntil

\* last_quoted_mid is reset; the sides are kept.
Withdrawn(quoted) == [mid |-> NoPrice, sides |-> quoted.sides]

Paused(bot, now, mid) == now < PauseEnd(bot, now, mid)

\* What the three attempts to deposit for a side come to: "confirmed", "none"
\* without a transaction hash, or "raises", when a call of the node outside of
\* any try fails.  An exception leaves the refresh, and the tick.
CutShort(sides, deposit) == \E s \in {"bid", "ask"} : sides[s] /\ deposit[s] = "raises"

\* _refresh_quotes, for which the old quotes are cancelled: the bid, then the
\* ask, where its deposit is confirmed.
Listing(mid, bps, sides, deposit) ==
  [mid |-> mid, bps |-> bps, whole |-> ~CutShort(sides, deposit),
   sides |-> [bid |-> sides.bid /\ deposit.bid = "confirmed",
              ask |-> /\ sides.ask /\ deposit.ask = "confirmed"
                      /\ ~(sides.bid /\ deposit.bid = "raises")]]

\* The quotes in the book after a tick with a price: none during a pause, the
\* old ones when the bot may skip, new ones otherwise.
Listed(bot, now, mid, tick) ==
  IF Paused(bot, now, mid) THEN NotListed
  ELSE IF Skip(bot, mid, Sides(tick.inv, mid)) THEN bot.listed
  ELSE Listing(mid, Spread(Window(Recorded(bot, now, mid), now, VolWindowSec)),
               Sides(tick.inv, mid), tick.deposit)

\* What it records of them: a refresh that raises records nothing.
Quoted(bot, now, mid, tick) ==
  IF Paused(bot, now, mid) THEN Withdrawn(bot.quoted)
  ELSE IF Skip(bot, mid, Sides(tick.inv, mid)) \/ CutShort(Sides(tick.inv, mid), tick.deposit)
  THEN bot.quoted
  ELSE [mid |-> mid, sides |-> Sides(tick.inv, mid)]

\* _tick_pair, sec seconds after the tick before.  A message of the stream
\* arrives just after that tick.
Tick(bot, weights, tick) ==
  LET now == bot.now + tick.sec
      cache == Cached(bot.cache, tick.message, bot.now)
      mid == MidPrice(weights, PancakePrice(tick.reply.pancake), BinanceMid(cache, now, tick.reply))
  IN IF mid = NoPrice
     THEN [now |-> now, cache |-> cache, mid |-> NoPrice, prices |-> bot.prices,
           pausedUntil |-> bot.pausedUntil, quoted |-> Withdrawn(bot.quoted), listed |-> NotListed]
     ELSE [now |-> now, cache |-> cache, mid |-> mid, prices |-> Recorded(bot, now, mid),
           pausedUntil |-> PauseEnd(bot, now, mid), quoted |-> Quoted(bot, now, mid, tick),
           listed |-> Listed(bot, now, mid, tick)]
=============================================================================
