----------------------------- MODULE PriceRules -----------------------------
(***************************************************************************)
(* The fair price of a round, as operators without state: what the three   *)
(* sources answer (pricing/binance.py, chainlink.py, pancakeswap.py), the  *)
(* median without outliers of pricing/aggregator.py, and the quote with    *)
(* its dynamic slippage of pricing/quote.py.                               *)
(*                                                                         *)
(* Prices are integers and a mid price, the mean of two of them, is kept   *)
(* doubled.  The code divides floats; comparisons are multiplied out here. *)
(***************************************************************************)
EXTENDS MatchingRules

CONSTANTS
  PriceOutlierPct,  \* PRICE_OUTLIER_THRESHOLD_PCT
  PoolUnit          \* 2^96 of a pool's square-root price, scaled down

ASSUME PriceAssumption == PriceOutlierPct \in Nat /\ PoolUnit \in Nat \ {0}

(***************************************************************************)
(* Sources.  A reply is a number, or Failed when there is no feed for the  *)
(* pair, the call raised or the answer could not be read.                  *)
(***************************************************************************)

Sources == {"chainlink", "binance", "pancake"}

Failed == -1

\* An exchange quotes no zero price: the code would take one for a price.
BinancePrice(reply) == IF reply = Failed THEN NoPrice ELSE reply

\* Zero and negative oracle answers are no prices.
ChainlinkPrice(reply) == IF reply > 0 THEN reply ELSE NoPrice

\* The pool gives the square root of base per quote: its inverse squared.
PancakePrice(reply) ==
  IF reply \in {Failed, 0} THEN NoPrice ELSE (PoolUnit * PoolUnit) \div (reply * reply)

\* asyncio.gather of the three; SKIP_PANCAKESWAP counts as a failed reply.
FetchAll(reply) ==
  [s \in Sources |-> CASE s = "binance" -> BinancePrice(reply[s])
                       [] s = "chainlink" -> ChainlinkPrice(reply[s])
                       [] s = "pancake" -> PancakePrice(reply[s])]

Answered(price) == {s \in Sources : price[s] # NoPrice}

(***************************************************************************)
(* Median without outliers.                                                *)
(***************************************************************************)

\* The price of rank k, from 0, among those of the sources S.
AtRank(S, price, k) ==
  CHOOSE p \in {price[s] : s \in S} :
    /\ Cardinality({s \in S : price[s] < p}) <= k
    /\ k < Cardinality({s \in S : price[s] <= p})

\* statistics.median, doubled: the middle one twice, or the two in the middle.
Median(S, price) ==
  AtRank(S, price, (Cardinality(S) - 1) \div 2) + AtRank(S, price, Cardinality(S) \div 2)

\* Mutant: outliers are measured from the first source that answered.
NearFirst(S, price) ==
  LET first == CHOOSE s \in S : "chainlink" \in S => s = "chainlink"
  IN {s \in S : 100 * Distance(price[s], price[first]) <= PriceOutlierPct * price[first]}

\* The sources within the threshold of the median.
Near(S, price) ==
  {s \in S : 100 * Distance(2 * price[s], Median(S, price)) <= PriceOutlierPct * Median(S, price)}

\* When all are outliers, which takes two that disagree, all are used.
Kept(S, price) == IF Near(S, price) = {} THEN S ELSE Near(S, price)

\* aggregate_from_sources: the fair price, doubled.
FairPrice(price) ==
  IF Answered(price) = {} THEN NoPrice ELSE Median(Kept(Answered(price), price), price)

(***************************************************************************)
(* Dynamic slippage, in basis points, at its default settings.             *)
(***************************************************************************)

BASE_SLIPPAGE_BPS == 150
BPS_PER_VOL_PCT == 25
EXTRA_CAP_BPS == 200
HARD_CAP_BPS == 500

AtMost(x, cap) == IF x <= cap THEN x ELSE cap

\* compute_dynamic_max_slippage_bps: more after a move since the last quote;
\* the hard cap is not applied to a first quote.
MaxSlippage(prev, mid) ==
  IF prev = NoPrice THEN BASE_SLIPPAGE_BPS
  ELSE AtMost(BASE_SLIPPAGE_BPS
                + AtMost((100 * BPS_PER_VOL_PCT * Distance(mid, prev)) \div prev, EXTRA_CAP_BPS),
              HARD_CAP_BPS)

\* get_pricing_quote: an error leaves the last mid of the pair as it was.
PricingQuote(reply, last) ==
  LET mid == FairPrice(FetchAll(reply))
  IN IF mid = NoPrice THEN [error |-> TRUE, mid |-> NoPrice, slippage |-> 0, last |-> last]
     ELSE [error |-> FALSE, mid |-> mid, slippage |-> MaxSlippage(last, mid), last |-> mid]
=============================================================================
