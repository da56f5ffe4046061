# T-LAYER in TLA+

T-LAYER is a dark pool for ERC-20 pairs. Users and a market-maker bot post
limit orders to an engine (one Python process that runs inside a TEE), their
tokens wait in an escrow contract, the engine matches orders off-chain, signs
each match and submits it to the contract, which exchanges the two deposits.

This directory holds the specifications of the parts where money or orders can
go wrong, the TLC runs over small instances, and the proofs checked by TLAPS.
`PROJECT.json` maps every definition to the lines it models.

## 1. Inventory

| part | state | operations |
|---|---|---|
| **Escrow contract** `apps/contracts/contracts/DarkPoolEscrow.sol` | `teeSignerAddress`, `feeEnabled`, `orders`, `executedSwaps`, `collectedFees`; balances in the ERC-20s | `deposit`, `executeSwap`, `cancelOrder`, `updateTEESignerAddress`, `setFeeEnabled`, `withdrawFees` |
| **Matching rules** `matching/engine.py`, `matching/validator.py` | none (`prev_fair_price` is passed in) | volatility hold, wash-trade filter, choice of the winner, validator |
| **Matching engine and runner** `matching/engine.py`, `runner.py`, `state.py` | `_pair_locks`, `matching_state.prev_fair_price`, the tasks | `runner.run_matching_cycle`, `_run_matching_cycle_locked`, `MatchingEngine.run_matching_cycle` |
| **Order book** `models/orderbook.py`, `models/order.py` | `_orders`, `_locked_ids` | `add`, `cancel`, `fill`, `lock`, `unlock`, `active_orders` |
| **Signing and submission** `signer/*.py` | the account nonce, on the node | `process_match_results`, `submit_match` |
| **REST API** `routes.py` | `_ATTESTATION_CACHE`, `_ATTESTATION_LOCK` | `POST/DELETE/GET /order`, `GET /attestation` |
| **Engine process** `main.py` | the sweeper and bot tasks | start, sweep, shutdown |
| **Market-maker bot** `mm_bot/*.py` | per pair `active_buy`, `active_sell`, `last_quoted_mid`, the inventory, the prices seen | tick, refresh, list, cancel, inventory booking |
| **Pricing** `pricing/*.py`, `mm_bot/price_feed.py` | the last mid of a pair, the ticker stream's cache | three sources aggregated, dynamic slippage |
| **LLM strategies, judge** `matching/llm_engine.py`, `prompt.py`, `schema.py` | none | three strategies propose matches, the judge prefers one |
| **Attestation** `attestation/*.py` | none | fetch and verify a TEE report |
| **Notifications** `ws.py`, frontend `websocket.ts` | connections, the reconnect timer | connect, disconnect, broadcast, reconnect |
| **Frontend** `apps/frontend/src` | the execution step shown, the user's orders | create, deposit, poll, cancel |
| Test doubles, deployment, generated ABI | | |

How they interact. The frontend calls the REST API and, with the user's wallet,
the contract. Creating an order adds it to the book and starts a cycle task; the
sweeper (`main.py`) and the bot start more. A cycle takes its pair's
`asyncio.Lock`, awaits a price quote, filters and locks orders, awaits three
strategies and a judge, fills the book, awaits a thread that signs and sends the
swaps one after another, calls the bot back, awaits the broadcast, unlocks. The
bot deposits before it lists a quote and cancels first in the book, then on
chain. Nothing waits for a swap to be mined.

Hard behaviours: everything that can happen during an `await` of a cycle (API
cancel, bot cancel, another pair's cycle, a user's transaction); the
gap between sent and mined; the gap between posted and deposited; failures of
the node in the middle of a round; a restart, which forgets the book but not the
escrow; rounding at fees and deposits. `PROJECT.json` lists them under "hazards"
at their lines, each with the properties that guard it.

What makes each part correct:

- escrow: owes exactly what it holds, fills are never lost, duplicated or
  replayed, a closed order stays closed, a cancel refunds the unfilled rest;
- rules: a wallet never trades with itself, an applied match respects both
  limits and both remaining amounts, filtering never blocks a trade needlessly;
- engine and book: no order is sold twice, the book shows what was matched,
  locks belong to running rounds, every cycle ends and every lock is released;
- submission: every decided swap is resolved, and fits the deposits;
- bot: no deposit of a quote leaves the escrow while a round relies on it, what is
  listed is funded, deposits stay known, the inventory follows the matches;
- pricing: one wrong source cannot move the fair price, slippage stays between
  its bounds; quoting: quotes surround the price, some side is always allowed;
- notifications: a broadcast reaches every client that stays connected;
- frontend: success is shown only after a fill, and a fill is shown in the end
  even if its event is lost;
- attestation: an outdated answer is given only when a verification failed.

## 2. Modules

    EscrowLedger         abstract: status, custody and spent swap ids
      ^ refined by         ^ instantiated by
    DarkPoolEscrow       Settlement  --EXTENDS-->  MatchingRules    MatchingRulesProofs
      MCDarkPoolEscrow     MCSettlement              ^
      DarkPoolEscrowProofs SettlementProofs        PriceRules
                                                     ^
    MarketMaker          SumLemmas                 QuoteRules       QuoteRulesProofs
      MarketMakerProofs   (sums, recursion)          ^
                                                   MCMatchingRules  MCMatchingRulesProofs
                                                     v
    Notifications <--EXTENDS-- MCClient            TeeRules
                     |  MCClientProofs               ^
                     +-----> ClientSession ----> AttestationCache

**EscrowLedger** is what the contract promises its depositors: an order takes an
amount into custody once (`Open`), loses it by an `Exchange` with another open
order under a swap id that is spent by it, or by a `Close` that returns the rest.

**DarkPoolEscrow** has one action per external function; a failing `require` is
a disabled action, a transaction is atomic. The ERC-20s are `balance`, external
to the repository's contract, with no fee of their own. `settled` is a history
of executed swaps. Signatures are abstracted to the key they recover to; the
payload set `Swap` contains only pairs of different orders, because the engine's
validator takes one side from sells and the other from buys. Maker and taker
may belong to the same trader and have the same token: nothing in the contract
forbids it.

**MatchingRules** holds the pure operators: `VolatilityHolds`, `WashFilter`
(buys and sells are sets of order ids, `Wallet` a function), `Validate` with the
clamping of the execution price, `Applied` and the choice between the answers of three strategies.
The validator's loop is a recursive function over the list of raw matches.
Prices and amounts are integers; Python's floats and Decimals are exact at the
sizes compared, and the one place where rounding matters (below) is explicit.

**Settlement** composes the order book, the cycles, the submission thread, the
bot's quotes and the escrow (through EscrowLedger's actions). An action is the
code between two awaits. State and code correspond as follows:

| variable | code |
|---|---|
| `book`, `lockedIds` | `OrderBook._orders` (status, filled), `_locked_ids` |
| `pairQueue` | `runner._pair_locks`: holder and FIFO waiters |
| `cycle[c]` | locals of `_run_matching_cycle_locked` and `MatchingEngine.run_matching_cycle`; `pc` names the await it stands at |
| `prevFair` | `matching_state.prev_fair_price`, one value for all pairs, as in the code |
| `inventory` | the bot's booking of matches |
| `matches[i].tx` | new, pending (sent), refused (by the node), executed, reverted; the index is the swap id |
| `status`, `custody`, `spent` | the escrow |

`Quotes` are the ids that the bot draws for its quotes; they are of its wallet
(`QuotesAssumption`). An order of the API may name any wallet, the bot's
included, and is then booked in the bot's inventory like a quote, as in
`on_match_outcomes` (`IsMM` compares wallets). `CancelOrder` takes any active order
out of the book, quotes included, locked or not: the route looks at neither.
A send whose answer was lost is `SendSwap`: the hash is only shown to the user.

**MarketMaker** is the bot between its awaits: `bot` is the coroutine (asleep, or
awaiting a thread for a cancel or a deposit, with the attempt and what became of its
transaction), `active` and `quoted` are the pair's state, `pendingTx` the one
transaction its nonce allows in the mempool, which outlives the bot's patience.
`CancelNext` and `DepositNext` are the two loops of `_refresh_quotes`, up to the
next await. Rounds appear as the lock, the fill and the unlock of quotes; feed,
price shocks and risk limits as an arbitrary choice at every tick. `CancelByApi`
takes a quote out of the book behind the bot's back; a round that has it locked
may still match it (`FillQuote`). `Restart` starts a bot and a book that
know none of the old quotes, while the mempool and the escrow keep theirs;
they count as `forgotten` from then on. Approvals
are left out (a failed one is an attempt without a hash). Settlement sees the
bot as `ListQuote`, `CancelQuote` and `WithdrawQuote`; that a listed quote is
funded and that a withdrawal never meets a lock, which Settlement takes as
guards, are `ListedAreFunded` and `WithdrawalsSpareRounds` here.

**PriceRules** holds the pricing operators: what each source answers
(`BinancePrice`, `ChainlinkPrice`, `PancakePrice`; a failure is `NoPrice`), the
median with its outlier rule (`FairPrice`), the dynamic slippage and
`PricingQuote`. A price is an integer; the mean of two is kept exact by doubling.

**QuoteRules** is one tick of the bot as an operator, `Tick(bot, weights, tick)`:
stream cache and its age, fallbacks of the feed and the weighted mean
(`MidPrice`), the price shock and its pause (`PauseEnd`), the limits of the two
sides (`CanBid`, `CanAsk`), the spread with its volatility, and the skip rule
(`Skip`). `bot.quoted` holds `last_quoted_mid`, `prev_can_bid`, `prev_can_ask`, and
`bot.listed` the quotes that the last refresh listed, with their price and
spread. The deposit of a side is confirmed, comes to nothing, or raises; an
exception leaves `_refresh_quotes` after the old quotes were cancelled and
perhaps the bid was listed, and leaves `quoted` as it was (`CutShort`,
`Quoted`). `listed.whole` says that the refresh ended. Old quotes whose
cancel a lock held back or that stay unconfirmed (finding 5), and quotes that
were filled, are MarketMaker's concern.

**TeeRules** is a model call (`CallTee`: allowlist, key, errors, a parsed answer)
and the verification of a report (`Answers` for the retries,
`VerifyAttestation`). The signature of an answer is recorded by the code and
decides nothing, so it has no operator.

**AttestationCache** is the endpoint: each request looks at the cache, waits for
the lock, looks again, verifies, and stores or falls back on the old answer.
Time is whether the cached answer has passed its time to live.

**Notifications** is `ConnectionManager`: `listed` is `_connections`, `link[c]` the
socket (a peer may be "gone" before its handler notices), `broadcast[b]` a
broadcast with its copy of the list and the position it awaits at. Several
broadcasts run at once, since cycles of two pairs each await one. `got` is
history. The three ways of a send are `Send`, `SendDisconnected` (removed without
a guard, as in the code) and `SendFails`.

**ClientSession** is a user's session in the browser. `flow` is the page
(`flowStateRef`), `current` and `mine` are `currentOrderIdRef` and `myOrders`, `run[f]`
is the await at which the f-th call of `startExecutionFlow` stands, `poll` the
interval in `fallbackPollRef`, `asking` status requests under way, `timers` the
two-second timers of matched events. Continuations are not cancelled when the
page is left: `ResetFlow` clears the interval only, as the code does. The engine
appears as orders that are listed and filled and as events that come at any time
or never, which is what Notifications leaves a client with.

**MCClient** checks the session and the notifications side by side: a behaviour is
one of either. Their product would add no state that one of the properties
looks at.

Abstractions: strategies and judge may propose and prefer anything
(`RawRounds`), a superset of any LLM; quotes fail or give a price of
`FairPrices`; the order's expiry, timestamps and UI metadata are left out;
`restarts` counts engine restarts; a restart marks the orders of the old
process "lost" and abandons matches not yet sent.

## 3. Runs

| run | question | bounds, and why they are enough |
|---|---|---|
| `escrow` | accounting, history and refinement of the contract | 3 orders (one order filled by two others), 2 swaps (replay, second fill), 2 tokens, 2 traders, 2 signers (rotation), amounts 1..2 (partial and full fills), fee 1/2 so that a fill of 1 rounds to fee 0 and one of 2 does not |
| `rules` | filter, validator, winner, fair price and ticks of the bot against declarative statements | all assignments of 4 wallets to the filter; limits 2..3 with fair prices below, between and above, proposed prices 2 and 4, fills 0..2 against remaining amounts of 1 and 2, rounds of one or two matches; every combination of three strategy results and verdicts; three sources around 100 with the outlier threshold between, or failed; up to three ticks with a fresh, stale or missing stream, drifts below the refresh threshold, deposits that fail or raise, a shock, a pause that ends, balanced, tilted and nearly empty inventories |
| `settlement` | safety of interleaved cycles, cancels, bot and chain | one quote of 2, buyers of 2 and 1 who compete for it, two cycles, up to 2 matches in a round; the API may cancel all three orders |
| `settlement_live` | cycles end, locks are released, matches resolve | one quote, one buyer, two cycles, price jumps, one restart, node failures |
| `settlement_pairs` | pairs run at the same time | 2 pairs, shared lock set and nonce; a quote on one, an order posted under the bot's wallet on the other |
| `market_maker` | what the bot's retries and timeouts may do to its quotes | 3 quotes: one that is left behind and two new ones; two prices apart by more than the threshold; three attempts as in the code; any number of cancels by the API and of restarts |
| `client` | what a user is told: pages, events, polls, timers, attestation requests; broadcasts | two flows, so that an earlier one can disturb a later one; two matched events, of the user's orders or of strangers'; three attestation requests (one verifies, one waits, one comes late); three connections of two clients, one of which reconnects; two broadcasts at once |
| `quote_revert`, `undeposited`, `refused_swap`, `rounded_deposit`, `lost_quote` | the findings of section 5 | the smallest instance that shows them |

Deadlock checking is off everywhere: ids, orders and swap ids are finite, so
every instance ends with all of them used up; the engine itself may also simply have
nothing to do. Symmetry is used over cycles in the runs without liveness, and
over ids, tokens and signers in the escrow run, none of which the
specifications compare except for equality.

Fairness (`Settlement!Fairness`): a cycle that can step does (asyncio runs every
ready task; the pair lock is FIFO; the quote, the model calls and the node's RPC
have client timeouts, after which the await returns an error and the cycle goes
on), and the chain mines or reverts a pending transaction. Nothing is assumed of
users, of the bot, or of new cycles being started. Liveness therefore concerns
what was started: `CyclesEnd`, `LocksReleased`, `MatchesResolve`. That some
compatible pair of orders is eventually matched is not claimed: the LLM may
decline it for ever.

Fairness (`ClientSession!SessionFairness`): the browser fires due timers and the
interval (`PollTick`, `TimerFires`), sends the attestation request and resumes an
answered await, and the endpoint's calls end by their timeouts and retries
(`Verify`). A status request may fail; one asked again and again of a filled
order is answered in the end (`SF` of `StatusFilled`), for the engine keeps
running. Nothing is assumed of the user, of the wallet or of events.
`MatchIsShown` then says that a fill is shown even if every event is lost,
unless the await of another flow took or may take the interval over (section 5).

## 4. Proofs

Every invariant and every action property that a passing run checks is also a
theorem. What has no proof is liveness: `CyclesEnd`, `LocksReleased`,
`MatchesResolve`, `TicksEnd` and `MatchIsShown` need fairness and ENABLED, which the
prover does not treat, and stay with TLC.

`SumLemmas` is what the other modules lack to reason about loops. The library states
induction with an operator as a parameter, which the provers cannot
instantiate; here it is stated of sets: a set of naturals that holds 0 and
with i also i + 1 is Nat (`AllNumbers`, from `Smallest`), and a family of subsets closed under adding one element holds every
finite set (`AllSubsets`). From them follow that the folds and recursive
functions of the modules exist (`IterationExists`, `RecursionExists`) and what a sum does
when a term changes, is added, or is split (`SumChange`, `SumWith`,
`SumAppended`, `SumPlus`, `SumUnion`, `SumAtMost`).

`DarkPoolEscrowProofs`, for every set of orders, tokens, accounts and amounts,
assuming only that the addresses are distinct (`AddressAssumption`), amounts are
positive naturals (`AmountAssumption`) and the fee is at most the whole
(`FeeAssumption`), and, for the sums, that there are finitely many orders
(`OrderIdAssumption`):

- `TypeCorrect`, `NoOverfill`: the inductive invariant is `IInv == TypeOK /\
  OrderWithinTotal`. TypeOK alone is not inductive: that a refund is a
  natural number needs `filledAmount <= totalAmount`, and that a transfer out of
  the escrow never goes below zero is guaranteed by the ERC-20's own
  check, `CanTransfer`. `FeeWithinFill` (a rounded fee is a natural number not
  above its fill) is the arithmetic lemma; `OrderOK`/`FilledOK` treat the order
  struct; `NextIInv` has one step per transaction.
- `HistoryKept`: the action property, from IInv.
- `Implementation`: `Spec => ImplementsLedger`. The mapping sends an order to
  "none" while its trader is zero, to "open" while active, else "closed", with
  custody `getOrderRemaining`. `DepositOpens`, `CancelCloses` and
  `FillTakesCustody` with `SwapExchanges` show the three transactions to be the
  three ledger actions; the owner's functions stutter. The invariant is needed
  in `SwapExchanges`: an order that empties must be the one that closes.
- `SolvencyHolds`, `FillsAreSwaps`, `FeesAreSwapFees`, `TradersAreWhole`: the four
  balance sheets, by the invariant `Accounting`. Besides IInv it says that the
  settled swaps are finitely many and of deposited orders (`SettledOK`): without it
  a later deposit could change the token or the trader that an old swap is booked
  under. A swap adds one term to each sum (`SettledGains`; a replay would
  add none), a deposit or a cancel changes one order's term, and both legs of a swap
  may fall to the same token and the same trader (`SumChangeTwo`).

`MatchingRulesProofs`, for every finite book of any size:

- `FilterSelects`, `FilterSeparates`: the filter only removes orders and leaves
  no wallet on both sides;
- `FilterKeeps`: it leaves both sides non-empty if two different wallets stood
  on opposite sides. The proof takes the smallest wallet of each side
  (`Smallest`, from the well-foundedness of inclusion on finite sets) and shows that the alternation
  reaches both sides within the first two conflicting wallets
  (`FirstTwoAlternate`);
- `PriceWithinLimits`: the price a valid match is executed at is within both
  limits;
- `AcceptedFit`: for rounds of any length, the accepted fills of an order add up to
  no more than its room. By induction over the loop, the validator's running totals are
  the sums of what it has accepted (`RunTotals`);
- `AppliedIffSound`: without a price jump, a round is applied exactly if it is
  sound as a whole. One direction shows that a loop without a rejection has counted
  everything (`NoneRejected`), the other that nothing of a sound round can be
  rejected, in whatever order it is listed (`SoundIsTaken`);
- `WinnerKeepsRound`: the winner has matches if some strategy proposed a positive
  volume.

`SettlementProofs`, for any number of orders, cycles, pairs, prices, matches in a
round and restarts. The assumptions are those of the module: orders are finitely
many, sides, amounts and limits are what the API accepts, prices and the
bounds are naturals, the deposit unit is positive. The inductive invariant is built in
layers, each proved with the help of those before it:

- `Base` (`BaseHolds`, `Typed`, `TermsHonoured`): the types, and what every
  action needs. `QueuesOK`: who runs a round is first in its pair's queue, so rounds of
  one pair exclude each other. `SnapsOK`: a copied order keeps its terms
  and is of the round's pair, so that what the validator checks in the copy holds
  of the order (`MatchesHonourTerms`). `RoundsListed`: the swaps of a
  round are of its pair, so two rounds share none.
- `LocksOK` (`LocksAreOfRounds`): the locked set is the union of the running rounds'
  copies. Disjointness of rounds comes from QueuesOK and SnapsOK: they are of
  different pairs.
- `Fills` (`OrdersNotOversold`, `BookIsMatches`): `NeverOversold` is not inductive:
  the validator looks at the copy. `Untaken` ties the two: nothing has been
  matched of an order since the running round copied it, and a copied order
  was at most cancelled. Then the matches of an applied round fit into what
  the copy had left (`AcceptedFit`), and the book shows them unless it skips the fill.
- `QueuesFresh`: the swaps still to be sent are new and the round's own. Without
  it `Submit` could send an executed swap again.
- `DepositsAccount` (`DepositsCoverSwaps`, `QuotesCoverSwaps`): an open deposit is
  what was deposited less what executed swaps took. With NeverOversold, what
  the other swaps may still take costs no more than the rest. This needs
  that a deposit is not rounded below its cost (`Covers`), the hypothesis of
  `DepositsCoverSwaps`; it holds of every sell, of every quote of the bot, and of every
  order if the unit is 1 (`QuotesCover`), so that `QuotesCoverSwaps` is
  unconditional. For a user's rounded buy it fails, which is finding 1.
- `QuotesFunded` (`LockedDepositsStay`): what the escrow holds of a quote and what
  executed swaps took of it make up its deposit, as long as the quote is
  locked, active, or deposited and not yet listed (`Relied`). LockedQuotesKeepDeposits
  alone is not inductive: a round locks what was active before. The bot's
  withdrawal needs a quote that is none of these; an API cancel ends "active" but
  not "locked", so the deposit stays for the round.
- `Booked` (`InventoryOfMatches`): the inventory is the sum of the changes of the swaps
  reported. That this sum over swaps is the sum over the orders of the bot's wallet
  of what was matched of them is the exchange of two sums (`SumsAgree`, by
  induction over the matches).
- `InactiveStayUnmatched`: the action property, from `StepKinds`, which says what a step
  may do to the book, the locks and the matches.

`MarketMakerProofs`, for any number of quotes, any set of positive prices and any
threshold:

- `TypeCorrect`, `QuotesFunded`, `RoundsSpared`, `DepositsKnown`: the four
  invariants of the run. None is inductive but the type; `IInv` adds what a
  transaction promises while it is in the mempool. `LateCancel`: its quote is
  delisted, hence cannot be locked, however late it is mined (this gives
  `RoundsSpared`, and `QuotesFunded` because a late cancel cannot close a
  listed quote). `LateDeposit`: it is the one awaited, or its receipt was lost
  (or the process that awaited it is gone) and the quote is among the forgotten. `IdsReserved`: the ids still to be used
  by the tick are unused, so a deposit never overwrites the history of another.
  `CancelAgrees`, `DepositAgrees` and `ReceiptAgrees` tie the coroutine to the
  book and the escrow.
- The lemmas follow the code: `CancelNextResumes` and `DepositNextResumes` say
  where the two loops can stop, `ResumedAgrees` that the conjuncts about the
  coroutine hold there, and one `...Keeps` lemma per action uses them.

`QuoteRulesProofs`, with the pricing of PriceRules, for any prices:

- `MedianRobust`: with three sources, the fair price is within half the outlier
  threshold of what any two of them span. The middle price exists and is kept
  (`RankOf...`, `SizeOf...`), what else is kept is near it, and the
  median of two or three near values is near (`Ordered` splits by order).
- `SlippageIsBounded`: from the base to the hard cap, whatever the price did.

and for any inventory, spread and threshold:

- `SomeSideAllowed`: exposure and inventory limits stop both sides only of a bot
  that is worth less than MinInventoryPct / MaxExposurePct of its start, if the
  exposure limit is 50% or more (`QuoteRulesAssumption`, as configured);
- `SkippedQuotesStraddle`: quotes left by the skip rule surround the new price if
  their spread is at least twice the refresh threshold;
- `TickKeepsBotOK`: after any tick, whatever became of its deposits, the quotes of a
  refresh that ended are on both sides of the price of the tick and on the
  sides the inventory allows at it. `RecordOK` is what makes it inductive: unless
  the last refresh was cut short, the record tells the price and sides of
  what is listed, and where nothing is recorded after a whole refresh
  nothing is listed.

`MCMatchingRulesProofs` carries the operators' theorems to the run's
specification, so that its eight invariants are theorems: `WalletsSeparated`,
`TradesKept`, `RoundsFit`, `RoundsSound`, `RoundNotLost`, `OneSourceIsHarmless`,
`QuotesStraddle`, `QuotesSomeSide`. The inductive invariant is
`OutputIsRules`: an output is what the rule gives for the input, and a
bot's record is one that `TickKeepsBotOK` describes.

`MCClientProofs`, for any number of flows, events, requests, clients and
broadcasts, assuming only that each flow has a request (`RequestsAssumption`):

- `SuccessFollowsMatch`: strengthened by `EventsAgree` (an event of an order of
  the session follows its fill; a running timer is of such an event) and
  `FlowsAgree` (what polls is in the list, what is in the list is listed by the
  engine);
- `BroadcastsReach`: strengthened by `Progress` (every target that was passed and
  is still connected was reached) and `ListAgrees` (no connection that was never
  open, or whose handler ended, is listed). `UnlistedIs` says what Python's
  `list.remove` does to a list without repetitions;
- `AnswersHonest`: the action property, from `CacheAgrees` (nothing was answered
  while nothing is cached); `TypeCorrect` comes with them.

## 5. Findings

1. `rounded_deposit`: the frontend deposits `amount * limit` rounded to six
   decimals; rounded down, a swap at the limit asks for more than was deposited
   and reverts on chain.
2. `quote_revert`: orders are unlocked when the swap has been sent, not when it is
   mined, so the bot may withdraw a quote under a pending swap, which is the
   race the lock's comment promises to prevent.
3. `undeposited`: orders are matched as soon as they are posted, before
   their deposit, against the contract's "deposit BEFORE matching".
4. `refused_swap`: the nonce counts mined transactions only, so the second swap
   sent while one is pending is refused by the node although "the tx is sent in
   any case".

5. `lost_quote`: when the bot cannot cancel a quote (a round holds it, or the cancel
   was not confirmed) it keeps the id to retry, as the comment says, but the
   same refresh then deposits for a new quote and overwrites the id: the old
   deposit is forgotten, and the old quote may still be matched at its old price.

Two more were met while ClientSession was written, and are stated by the guards of
its properties rather than by runs of their own. A matched event, a timer
or a status answer of an earlier flow shows the success page to a
later flow whose own order is not filled, though the comment at App.tsx line 496
says that success is shown only when it is (`SuccessIsMatched` speaks of
some order of the session for this reason). And an earlier flow whose
attestation is still awaited replaces the later flow's interval when it is
answered (line 500), after which a match whose event is lost is not shown
(`OwnPoll` in `MatchIsShown`).

Three more are limits of the code that the properties of QuoteRules, Settlement and
MarketMaker state as conditions:

- When a deposit raises (bot.py 336 to 341 and 361 to 366 have no `try`, and the
  allowance, nonce and build steps of `deposit` have none either), the refresh is cut
  short after the old quotes were cancelled: lines 233 to 235 are not
  reached. Quoted at 100, a tick at 102 lists a bid near 102 and raises at the ask; the
  price returns to 100, `_should_skip_refresh` compares it with the old 100, and a bid
  above the price stands alone until the price moves. `QuotesStraddlePrice` speaks of
  quotes of a refresh that ended (`listed.whole`) for this reason.
- `DELETE /order/{id}` (routes.py 97 to 113) checks neither wallet nor lock. It may take a
  quote of the bot out of the book, also in the middle of a round that has
  locked it: then the book skips the fill (engine.py 285), while the swap is sent and
  the bot books it. So a locked quote need not stay in the book, and the
  inventory need not agree with the book. What does hold is that its deposit stays
  for the swap (`LockedQuotesKeepDeposits`) and that the inventory is what was
  matched (`InventoryIsMatched`). `POST /order` under the bot's wallet is
  booked in the bot's inventory as well.
- A restart's new bot knows none of the quotes that the old one had in the escrow, and
  never withdraws them: `OpenAreKnown` speaks of the deposits of one process.

In 1 to 4 the book keeps the fill: there is no compensation for a swap that is
refused or reverts. `SwapsFitDeposits` holds when no deposit is rounded below its
cost; the passing runs take `DepositUnit = 1`, the theorem only that.

## 6. Not modelled

keccak, ECDSA and ABI encoding; gas; ERC-20s that take a fee or rebase; the
contract's reentrancy guard (a transaction is one step); HTTP validation of
request fields and the answer 503 without an attestation key; logging; prompts,
which are text, and what a model does with them; parsing of attestation reports and
tokens; the delays of reconnecting (websocket.ts only postpones a connection).
In the frontend: rendering, price display, changing the wallet, reloading the page,
and cancelling from the list. Test doubles, deployment and ABI tools.

## 7. Plan

Done, in this order because money moves there: EscrowLedger, DarkPoolEscrow and
its proofs; MatchingRules and its proofs; Settlement; MarketMaker and its
proofs; then PriceRules, QuoteRules and TeeRules in the `rules` run, and the
client side, each with its proofs; SumLemmas and with it the sums of the
contract and the rounds of the validator; SettlementProofs. Next:

1. What the composition promises as an abstract specification: the decided
   swaps of an order as a ledger that only grows, which Settlement implements.
2. The previous fair price that all pairs share (`state.py` line 22): a property
   of two pairs with different prices, which needs a run with two price levels.
3. Two-sided quoting: after a fill or a failed deposit the skip rule leaves a side
   empty until the price moves; how long depends on prices alone.
4. Cancelling from the frontend's list, against rounds that hold the order.
