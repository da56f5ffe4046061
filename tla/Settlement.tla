----------------------------- MODULE Settlement -----------------------------
(***************************************************************************)
(* Matching and settlement: the engine's in-memory order book, its         *)
(* matching cycles, the signing and submission of the swaps they decide,   *)
(* and the escrow those swaps are executed on.                             *)
(*                                                                         *)
(* The engine is one asyncio process.  A handler runs without interruption *)
(* between two awaits, so an action is the code from one await to the      *)
(* next: the pricing quote, the strategies and the judge, the submission   *)
(* thread and the broadcast are the points where API calls, the market     *)
(* maker, other cycles and the chain interleave.  The escrow is the ledger *)
(* that DarkPoolEscrow implements (EscrowLedger).                          *)
(***************************************************************************)
EXTENDS MatchingRules

CONSTANTS
  OrderIds,     \* uuids of the orders that may be created
  Terms,        \* Terms[o]: the pair, side, wallet, amount and limit o gets
  Pairs,        \* token pairs
  MMWallet,     \* the wallet of the market-maker bot
  Quotes,       \* the ids the bot draws for its quotes
  Cycles,       \* tasks that run run_matching_cycle
  FairPrices,   \* FairPrices[p]: the mid prices a quote for pair p may return
  RawPrices,    \* execution prices the strategies may propose
  MaxFill,      \* bound on the fill of a proposed match
  MaxMatches,   \* bound on the matches a strategy proposes
  DepositUnit,  \* the quote a user's buy deposits is rounded to this unit
  RpcMayFail,   \* whether a submission may fail for reasons of the connection
  MaxRestarts   \* bound on engine restarts

ASSUME TermsAssumption ==
  Terms \in [OrderIds -> [pair : Pairs, side : {"buy", "sell"}, wallet : Nat,
                          amount : Nat \ {0}, limit : Nat \ {0}]]

\* An order posted to the API may name the bot's wallet, too.
ASSUME QuotesAssumption == Quotes \subseteq OrderIds /\ \A o \in Quotes : Terms[o].wallet = MMWallet

ASSUME OrderIdAssumption == IsFiniteSet(OrderIds)

ASSUME PriceAssumption == FairPrices \in [Pairs -> SUBSET Nat] /\ RawPrices \subseteq Nat

ASSUME DepositUnitAssumption == DepositUnit \in Nat \ {0}

ASSUME BoundAssumption == MaxFill \in Nat /\ MaxMatches \in Nat /\ MaxRestarts \in Nat

VARIABLES
  book,         \* OrderBook._orders: o -> [status, filled]
  lockedIds,    \* OrderBook._locked_ids
  pairQueue,    \* pair -> the cycles at its asyncio.Lock, holder first
  cycle,        \* cycle -> its local state; round: the ids of the swaps it decided
  prevFair,     \* matching_state.prev_fair_price, one for all pairs
  inventory,    \* pair -> the market maker's change in base and quote
  matches,      \* history: every match applied, by swap id, with its tx
  restarts,     \* restarts so far
  status, custody, spent   \* the escrow

engineVars == <<book, lockedIds, pairQueue, cycle, prevFair, inventory>>
chainVars == <<status, custody, spent>>
vars == <<engineVars, matches, restarts, chainVars>>

Amounts == Nat \ {0}
SwapIds == Nat

Chain == INSTANCE EscrowLedger

(***************************************************************************)
(* Orders.                                                                 *)
(***************************************************************************)

Wallet == [o \in OrderIds |-> Terms[o].wallet]
IsMM(o) == Terms[o].wallet = MMWallet

\* "absent": no such key; "lost": the process that held it was restarted.
BookStatus == {"absent", "pending", "partial", "filled", "cancelled", "lost"}

IsActive(order) == order.status \in {"pending", "partial"}

Remaining(o) == Terms[o].amount - book[o].filled

\* toFixed(6): the nearest multiple of the unit.
RoundToUnit(x) == ((2 * x + DepositUnit) \div (2 * DepositUnit)) * DepositUnit

\* A sell locks base, a buy the quote its limit may cost: the market maker all
\* of it, the frontend rounded to six decimals.
DepositAmount(o) ==
  LET cost == Terms[o].amount * Terms[o].limit
  IN IF Terms[o].side = "sell" THEN Terms[o].amount
     ELSE IF o \in Quotes THEN cost ELSE RoundToUnit(cost)

\* Mutant: cancelled orders stay in the list.
ActiveOrdersAndCancelled(pair, side) ==
  {o \in OrderIds : Terms[o].pair = pair /\ Terms[o].side = side
                      /\ book[o].status \in {"pending", "partial", "cancelled"}}

ActiveOrders(pair, side) ==
  {o \in OrderIds : Terms[o].pair = pair /\ Terms[o].side = side /\ IsActive(book[o])}

Add(o) == [book EXCEPT ![o] = [status |-> "pending", filled |-> 0]]

\* Mutant: the status is misspelt; assignments to the model are not validated.
CancelMisspelt(o) == [book EXCEPT ![o].status = "canceled"]

Cancel(o) == [book EXCEPT ![o].status = "cancelled"]

\* OrderBook.fill, or the unchanged book where it raises ValueError, which
\* the engine swallows.
Fill(b, o, amount) ==
  LET filled == b[o].filled + amount
  IN IF IsActive(b[o]) /\ filled <= Terms[o].amount
     THEN [b EXCEPT ![o] = [status |-> IF filled = Terms[o].amount THEN "filled" ELSE "partial",
                            filled |-> filled]]
     ELSE b

\* Mutant: the taker is filled by the quote amount.
ApplyMatchInQuote(b, m) == Fill(Fill(b, m.maker, m.base), m.taker, m.quote)

\* Both orders of a match are filled by its base amount.
ApplyMatch(b, m) == Fill(Fill(b, m.maker, m.base), m.taker, m.base)

\* The fills of a round, one match after the other.
ApplyMatches(b, ms) ==
  LET after[i \in 0..Len(ms)] == IF i = 0 THEN b ELSE ApplyMatch(after[i - 1], ms[i])
  IN after[Len(ms)]

\* What a match takes from an order's deposit: base from the maker, quote
\* from the taker.
Leg(m, o) == IF o = m.maker THEN m.base ELSE IF o = m.taker THEN m.quote ELSE 0

(***************************************************************************)
(* Cycles.                                                                 *)
(***************************************************************************)

Idle == [pc |-> "idle"]

\* What run_matching_cycle works on: copies of the filtered orders.
Snapshot(ids) ==
  [o \in ids |-> [side |-> Terms[o].side, wallet |-> Terms[o].wallet, limit |-> Terms[o].limit,
                  amount |-> Terms[o].amount, filled |-> book[o].filled]]

RoundOrders(pair) ==
  WashFilter(ActiveOrders(pair, "buy"), ActiveOrders(pair, "sell"), Wallet)

\* Mutant: a cycle does not wait for the pair's lock.
HoldsPairLockAlways(c) == TRUE

\* asyncio.Lock wakes its waiters first come, first served.
HoldsPairLock(c) == Head(pairQueue[cycle[c].pair]) = c

At(c, pc) == cycle[c].pc = pc /\ HoldsPairLock(c)

\* Mutant: the pair lock is not released.
LeaveKeepingPairLock(c) ==
  /\ cycle' = [cycle EXCEPT ![c] = Idle]
  /\ UNCHANGED pairQueue

\* The cycle, which holds its pair's lock, ends: the next waiter gets it.
Leave(c) ==
  /\ cycle' = [cycle EXCEPT ![c] = Idle]
  /\ pairQueue' = [pairQueue EXCEPT ![cycle[c].pair] = Tail(@)]

\* Mutant: all locks are dropped, not only those of the cycle.
LeaveUnlockingAll(c) == Leave(c) /\ lockedIds' = {}

\* The finally of the runner.
LeaveUnlocking(c) ==
  /\ Leave(c)
  /\ lockedIds' = lockedIds \ DOMAIN cycle[c].snap

Init ==
  /\ book = [o \in OrderIds |-> [status |-> "absent", filled |-> 0]]
  /\ lockedIds = {}
  /\ pairQueue = [p \in Pairs |-> << >>]
  /\ cycle = [c \in Cycles |-> Idle]
  /\ prevFair = NoPrice
  /\ inventory = [p \in Pairs |-> [base |-> 0, quote |-> 0]]
  /\ matches = << >>
  /\ restarts = 0
  /\ Chain!LedgerInit

\* create_order, the sweeper or the market maker creates a cycle task.
StartCycle(c, pair) ==
  /\ cycle[c] = Idle
  /\ cycle' = [cycle EXCEPT ![c] = [pc |-> "waiting", pair |-> pair]]
  /\ pairQueue' = [pairQueue EXCEPT ![pair] = Append(@, c)]
  /\ UNCHANGED <<book, lockedIds, prevFair, inventory, matches, restarts, chainVars>>

\* get_pricing_quote returned an error or raised.
QuoteFails(c) ==
  /\ At(c, "waiting")
  /\ Leave(c)
  /\ UNCHANGED <<book, lockedIds, prevFair, inventory, matches, restarts, chainVars>>

\* The price jumped since the last round: the new price is kept, the round is not run.
HoldRound(c, fair) ==
  /\ At(c, "waiting")
  /\ VolatilityHolds(fair, prevFair)
  /\ prevFair' = fair
  /\ Leave(c)
  /\ UNCHANGED <<book, lockedIds, inventory, matches, restarts, chainVars>>

\* One side is empty after the wash-trade filter.
SkipRound(c, fair) ==
  LET round == RoundOrders(cycle[c].pair)
  IN /\ At(c, "waiting")
     /\ ~VolatilityHolds(fair, prevFair)
     /\ round.buys = {} \/ round.sells = {}
     /\ prevFair' = fair
     /\ Leave(c)
     /\ UNCHANGED <<book, lockedIds, inventory, matches, restarts, chainVars>>

\* The orders are copied and locked, and the strategies are asked.
LockRound(c, fair) ==
  LET round == RoundOrders(cycle[c].pair)
      ids == round.buys \union round.sells
  IN /\ At(c, "waiting")
     /\ ~VolatilityHolds(fair, prevFair)
     /\ round.buys # {} /\ round.sells # {}
     /\ lockedIds' = lockedIds \union ids
     /\ cycle' = [cycle EXCEPT ![c] = [pc |-> "matching", pair |-> cycle[c].pair,
                                       snap |-> Snapshot(ids), fair |-> fair, round |-> {}, queue |-> << >>]]
     /\ UNCHANGED <<book, pairQueue, prevFair, inventory, matches, restarts, chainVars>>

\* Whatever the strategies propose and the judge prefers: what remains of it
\* after the validator, which reads prev_fair_price again.
RawMatch == [maker : OrderIds, taker : OrderIds, fill : 1..MaxFill, price : RawPrices]

RawRounds == UNION {[1..n -> RawMatch] : n \in 0..MaxMatches}

RoundResults(c) ==
  {Applied(Validate(raws, cycle[c].snap, cycle[c].fair, prevFair)) : raws \in RawRounds}

\* Nothing can be applied.
DropRound(c, applied) ==
  /\ At(c, "matching")
  /\ applied = << >>
  /\ prevFair' = cycle[c].fair
  /\ LeaveUnlocking(c)
  /\ UNCHANGED <<book, inventory, matches, restarts, chainVars>>

\* The winner's matches are filled in the book and handed to the signing
\* thread.  An order cancelled meanwhile is not filled, but its match stands.
ApplyRound(c, applied) ==
  /\ At(c, "matching")
  /\ applied # << >>
  /\ book' = ApplyMatches(book, applied)
  /\ matches' = matches \o [i \in DOMAIN applied |->
                             [maker |-> applied[i].maker, taker |-> applied[i].taker,
                              base |-> applied[i].base, quote |-> applied[i].quote,
                              price |-> applied[i].price, tx |-> "new"]]
  /\ prevFair' = cycle[c].fair
  /\ LET swapIds == [i \in DOMAIN applied |-> Len(matches) + i]
     IN cycle' = [cycle EXCEPT ![c] = [@ EXCEPT !.pc = "submitting", !.queue = swapIds,
                                                !.round = {swapIds[i] : i \in DOMAIN applied}]]
  /\ UNCHANGED <<lockedIds, pairQueue, inventory, restarts, chainVars>>

\* Mutant: no finally, the locks stay when a round raises.
RoundFailsKeepingLocks(c) ==
  /\ At(c, "matching")
  /\ Leave(c)
  /\ UNCHANGED <<book, lockedIds, prevFair, inventory, matches, restarts, chainVars>>

\* A strategy's answer raises while it is compared or validated; the runner
\* logs it, and the fair price is not recorded.
RoundFails(c) ==
  /\ At(c, "matching")
  /\ LeaveUnlocking(c)
  /\ UNCHANGED <<book, prevFair, inventory, matches, restarts, chainVars>>

(***************************************************************************)
(* Submission: process_match_results in a thread, one match at a time.     *)
(***************************************************************************)

\* The nonce is the count of mined transactions, so the node refuses a swap
\* while another one of the TEE account is pending.
NonceTaken == \E i \in DOMAIN matches : matches[i].tx = "pending"

WithTx(i, tx) == [matches EXCEPT ![i] = [@ EXCEPT !.tx = tx]]

Submit(c, outcome) ==
  /\ At(c, "submitting")
  /\ cycle[c].queue # << >>
  /\ matches' = WithTx(Head(cycle[c].queue), outcome)
  /\ cycle' = [cycle EXCEPT ![c] = [@ EXCEPT !.queue = Tail(cycle[c].queue)]]
  /\ UNCHANGED <<book, lockedIds, pairQueue, prevFair, inventory, restarts, chainVars>>

\* The transaction is sent, not awaited; also when the node's answer is lost,
\* since nothing reads the hash.
SendSwap(c) == ~NonceTaken /\ Submit(c, "pending")

\* The node or the connection refused it: the outcome has no tx hash.
SendFails(c) == (NonceTaken \/ RpcMayFail) /\ Submit(c, "refused")

\* Mutant: the market maker's buys and sells are mixed up.
BaseChangeReversed(m) == (IF IsMM(m.maker) THEN m.base ELSE 0) - (IF IsMM(m.taker) THEN m.base ELSE 0)

\* What a match does to the market maker's inventory.
BaseChange(m) == (IF IsMM(m.taker) THEN m.base ELSE 0) - (IF IsMM(m.maker) THEN m.base ELSE 0)

QuoteChange(m) == (IF IsMM(m.maker) THEN m.quote ELSE 0) - (IF IsMM(m.taker) THEN m.quote ELSE 0)

\* The inventory after the matches with these swap ids are booked.
InventoryAfter(inv, ids) ==
  [base |-> inv.base + SumFunctionOnSet([i \in DOMAIN matches |-> BaseChange(matches[i])], ids),
   quote |-> inv.quote + SumFunctionOnSet([i \in DOMAIN matches |-> QuoteChange(matches[i])], ids)]

\* Mutant: the round is reported before the thread is done.
ReportEarly(c) ==
  /\ At(c, "submitting")
  /\ cycle' = [cycle EXCEPT ![c] = [@ EXCEPT !.pc = "reporting"]]
  /\ UNCHANGED <<book, lockedIds, pairQueue, prevFair, inventory, matches, restarts, chainVars>>

\* The thread is done: on_match_outcomes books every match of the round in
\* the inventory, submitted or not; then the broadcast is awaited.
ReportOutcomes(c) ==
  /\ At(c, "submitting")
  /\ cycle[c].queue = << >>
  /\ inventory' = [inventory EXCEPT ![cycle[c].pair] = InventoryAfter(@, cycle[c].round)]
  /\ cycle' = [cycle EXCEPT ![c] = [@ EXCEPT !.pc = "reporting"]]
  /\ UNCHANGED <<book, lockedIds, pairQueue, prevFair, matches, restarts, chainVars>>

FinishCycle(c) ==
  /\ At(c, "reporting")
  /\ LeaveUnlocking(c)
  /\ UNCHANGED <<book, prevFair, inventory, matches, restarts, chainVars>>

(***************************************************************************)
(* Orders, from the API and the market maker.                              *)
(***************************************************************************)

\* POST /order, for any wallet, under a new id.  The frontend deposits after the
\* engine has given the id.
CreateOrder(o) ==
  /\ o \notin Quotes /\ book[o].status = "absent"
  /\ book' = Add(o)
  /\ UNCHANGED <<lockedIds, pairQueue, cycle, prevFair, inventory, matches, restarts, chainVars>>

\* DELETE /order/{id}, for any order, a quote of the bot included: neither its
\* wallet nor the locks are looked at.
CancelOrder(o) ==
  /\ IsActive(book[o])
  /\ book' = Cancel(o)
  /\ UNCHANGED <<lockedIds, pairQueue, cycle, prevFair, inventory, matches, restarts, chainVars>>

\* The market maker lists a quote whose deposit is confirmed.
ListQuote(o) ==
  /\ o \in Quotes /\ book[o].status = "absent" /\ status[o] # "none"
  /\ book' = Add(o)
  /\ UNCHANGED <<lockedIds, pairQueue, cycle, prevFair, inventory, matches, restarts, chainVars>>

\* Mutant: the market maker cancels without looking at the locks.
MayCancelQuoteAlways(o) == TRUE

MayCancelQuote(o) == o \notin lockedIds

\* _safe_cancel_order up to its first await: first in the book.
CancelQuote(o) ==
  /\ o \in Quotes /\ IsActive(book[o])
  /\ MayCancelQuote(o)
  /\ book' = Cancel(o)
  /\ UNCHANGED <<lockedIds, pairQueue, cycle, prevFair, inventory, matches, restarts, chainVars>>

\* Mutant: orders survive a restart, their fills do not.
RestartForgettingFills ==
  /\ restarts < MaxRestarts
  /\ restarts' = restarts + 1
  /\ book' = [o \in OrderIds |-> IF book[o].status = "absent" THEN book[o]
                                 ELSE [status |-> "pending", filled |-> 0]]
  /\ lockedIds' = {}
  /\ pairQueue' = [p \in Pairs |-> << >>]
  /\ cycle' = [c \in Cycles |-> Idle]
  /\ UNCHANGED <<prevFair, inventory, matches, chainVars>>

\* The process is restarted: book, locks, tasks and price history are gone,
\* and so are the matches not yet sent.
Restart ==
  /\ restarts < MaxRestarts
  /\ restarts' = restarts + 1
  /\ book' = [o \in OrderIds |-> IF book[o].status = "absent" THEN book[o]
                                 ELSE [book[o] EXCEPT !.status = "lost"]]
  /\ lockedIds' = {}
  /\ pairQueue' = [p \in Pairs |-> << >>]
  /\ cycle' = [c \in Cycles |-> Idle]
  /\ prevFair' = NoPrice
  /\ inventory' = [p \in Pairs |-> [base |-> 0, quote |-> 0]]
  /\ matches' = [i \in DOMAIN matches |-> IF matches[i].tx = "new"
                                          THEN [matches[i] EXCEPT !.tx = "refused"] ELSE matches[i]]
  /\ UNCHANGED chainVars

(***************************************************************************)
(* Transactions, as the chain executes them.                               *)
(***************************************************************************)

\* A user deposits for an order the engine knows, or knew; the market maker
\* deposits before it lists.
Deposit(o) ==
  /\ o \in Quotes \/ book[o].status # "absent"
  /\ DepositAmount(o) > 0
  /\ Chain!Open(o, DepositAmount(o))
  /\ UNCHANGED <<engineVars, matches, restarts>>

\* A user may cancel on chain whatever the engine says.
WithdrawOrder(o) ==
  /\ o \notin Quotes
  /\ Chain!Close(o)
  /\ UNCHANGED <<engineVars, matches, restarts>>

\* The market maker sends its cancel for a quote that is no longer active in
\* the book, because it was cancelled there or filled, and not locked.  An
\* inactive order is never locked again, so sending and mining are one step.
WithdrawQuote(o) ==
  /\ o \in Quotes /\ book[o].status \in {"cancelled", "filled"}
  /\ MayCancelQuote(o)
  /\ Chain!Close(o)
  /\ UNCHANGED <<engineVars, matches, restarts>>

\* executeSwap is mined: executed, or reverted without effect.
MineSwap(i) ==
  LET m == matches[i]
  IN /\ m.tx = "pending"
     /\ Chain!Exchange(i, m.maker, m.taker, m.base, m.quote)
     /\ matches' = WithTx(i, "executed")
     /\ UNCHANGED <<engineVars, restarts>>

RevertSwap(i) ==
  LET m == matches[i]
  IN /\ m.tx = "pending"
     /\ ~ /\ i \notin spent
          /\ status[m.maker] = "open" /\ status[m.taker] = "open"
          /\ m.base <= custody[m.maker] /\ m.quote <= custody[m.taker]
     /\ matches' = WithTx(i, "reverted")
     /\ UNCHANGED <<engineVars, restarts, chainVars>>

(***************************************************************************)
(* Specification.                                                          *)
(***************************************************************************)

CycleStep(c) ==
  \/ QuoteFails(c)
  \/ /\ cycle[c].pc = "waiting"
     /\ \E fair \in FairPrices[cycle[c].pair] :
          HoldRound(c, fair) \/ SkipRound(c, fair) \/ LockRound(c, fair)
  \/ /\ cycle[c].pc = "matching"
     /\ \E applied \in RoundResults(c) : DropRound(c, applied) \/ ApplyRound(c, applied)
  \/ RoundFails(c)
  \/ SendSwap(c)
  \/ SendFails(c)
  \/ ReportOutcomes(c)
  \/ FinishCycle(c)

OrderStep(o) ==
  \/ CreateOrder(o)
  \/ CancelOrder(o)
  \/ ListQuote(o)
  \/ CancelQuote(o)
  \/ Deposit(o)
  \/ WithdrawOrder(o)
  \/ WithdrawQuote(o)

Next ==
  \/ \E c \in Cycles, pair \in Pairs : StartCycle(c, pair)
  \/ \E c \in Cycles : CycleStep(c)
  \/ \E o \in OrderIds : OrderStep(o)
  \/ \E i \in DOMAIN matches : MineSwap(i) \/ RevertSwap(i)
  \/ Restart

Spec == Init /\ [][Next]_vars

\* Every await ends: quotes, strategies and the node have timeouts, the event
\* loop runs every task that is ready, and the chain mines what is pending.
Fairness ==
  /\ \A c \in Cycles : WF_vars(CycleStep(c))
  /\ WF_vars(\E i \in DOMAIN matches : MineSwap(i) \/ RevertSwap(i))

FairSpec == Spec /\ Fairness

(***************************************************************************)
(* Properties.                                                             *)
(***************************************************************************)

\* The base of an order that has been matched, settled or not.
Matched(o) == FillIn(matches, o)

\* What the swaps that may still be executed will take from o's deposit.
Committed(o) ==
  SumFunction([i \in DOMAIN matches |->
                 IF matches[i].tx \in {"new", "pending"} THEN Leg(matches[i], o) ELSE 0])

\* What the swaps that were executed have taken from it.
Taken(ms, o) == [i \in DOMAIN ms |-> IF ms[i].tx = "executed" THEN Leg(ms[i], o) ELSE 0]

Paid(o) == SumFunctionOnSet(Taken(matches, o), DOMAIN matches)

InRound(c) == cycle[c].pc \in {"matching", "submitting", "reporting"}

Prices == UNION {FairPrices[p] : p \in Pairs}

SnapOrders ==
  [side : {"buy", "sell"}, wallet : Nat, limit : Amounts, amount : Amounts, filled : Nat]

IsRound(r) ==
  /\ r \in [pc : {"matching", "submitting", "reporting"}, pair : Pairs, snap : {r.snap}, fair : Prices,
           round : SUBSET Nat, queue : Seq(Nat)]
  /\ DOMAIN r.snap \subseteq OrderIds
  /\ r.snap \in [DOMAIN r.snap -> SnapOrders]

Matches ==
  [maker : OrderIds, taker : OrderIds, base : Amounts, quote : Amounts, price : Amounts,
   tx : {"new", "pending", "executed", "reverted", "refused"}]

\* Every variable has its type.
TypeOK ==
  /\ book \in [OrderIds -> [status : BookStatus, filled : Nat]]
  /\ lockedIds \subseteq OrderIds
  /\ pairQueue \in [Pairs -> Seq(Cycles)]
  /\ DOMAIN cycle = Cycles
  /\ \A c \in Cycles : \/ cycle[c] \in {Idle} \union [pc : {"waiting"}, pair : Pairs]
                      \/ IsRound(cycle[c])
  /\ prevFair \in Prices \union {NoPrice}
  /\ inventory \in [Pairs -> [base : Int, quote : Int]]
  /\ matches \in Seq(Matches)
  /\ restarts \in 0..MaxRestarts
  /\ Chain!LedgerTypeOK

\* However rounds, cancels and restarts interleave, the swaps decided for an
\* order never add up to more than its amount: two rounds do not fill the same
\* order (runner.py lines 16-18), also when its fill was skipped in the book.
NeverOversold == \A o \in OrderIds : Matched(o) <= Terms[o].amount

\* The book agrees with the matches: an order that is still matched, or was
\* matched to the end, shows exactly what was matched; a cancelled one never
\* shows more.
BookShowsMatches ==
  \A o \in OrderIds :
    /\ book[o].filled <= Matched(o)
    /\ book[o].status \in {"absent", "pending", "partial", "filled"} => book[o].filled = Matched(o)
    /\ book[o].status = "filled" <=> book[o].filled = Terms[o].amount /\ book[o].status # "lost"

\* Every match crosses a sell and a buy of the same pair and of different
\* wallets at a price both limits allow.
MatchesHonourTerms ==
  \A i \in DOMAIN matches :
    LET m == matches[i]
    IN /\ Terms[m.maker].side = "sell" /\ Terms[m.taker].side = "buy"
       /\ Terms[m.maker].pair = Terms[m.taker].pair
       /\ Terms[m.maker].wallet # Terms[m.taker].wallet
       /\ Terms[m.maker].limit <= m.price /\ m.price <= Terms[m.taker].limit

\* executeSwap never reverts with "fill exceeds remaining": as long as an
\* order is open on chain, its deposit covers all the swaps that may still be
\* executed on it (runner.py line 17, validator.py lines 133-135).
SwapsFitDeposits == \A o \in OrderIds : status[o] = "open" => Committed(o) <= custody[o]

\* The locked orders are those of the rounds that are running, and no two
\* running rounds share one: no cycle frees an order another one relies on,
\* and none stays locked when its round is over.
LocksAreRounds ==
  /\ lockedIds = UNION {DOMAIN cycle[c].snap : c \in {d \in Cycles : InRound(d)}}
  /\ \A c, d \in Cycles :
       c # d /\ InRound(c) /\ InRound(d) => DOMAIN cycle[c].snap \intersect DOMAIN cycle[d].snap = {}

\* An order that is cancelled, filled or lost enters no later round and gets no
\* match: only the round that had already copied it may still match it.
InactiveNotMatched ==
  [][\A o \in OrderIds : ~IsActive(book[o]) /\ o \notin lockedIds =>
       o \notin lockedIds' /\ Matched(o)' = Matched(o)]_vars

\* While a round runs on a quote of the market maker, its deposit stays in the
\* escrow but for what swaps take of it, also when an API call has taken the
\* quote out of the book under the round (bot.py lines 283-287, routes.py 102).
LockedQuotesKeepDeposits ==
  \A o \in lockedIds \intersect Quotes : custody[o] + Paid(o) = DepositAmount(o)

\* Between rounds the market maker's inventory is what has been matched of the
\* orders of its wallet: every match is booked once, none is left out because
\* the book skipped its fill (bot.py lines 132-158).
InventoryIsMatched ==
  restarts = 0 =>
    \A p \in Pairs :
      (\A c \in Cycles : cycle[c].pc = "submitting" => cycle[c].pair # p) =>
        inventory[p].base =
          SumFunction([o \in OrderIds |-> IF ~IsMM(o) \/ Terms[o].pair # p THEN 0
                                          ELSE IF Terms[o].side = "buy" THEN Matched(o)
                                          ELSE -Matched(o)])

\* Every cycle ends, whatever its strategies and its submissions do, so the
\* next one gets the pair's lock.
CyclesEnd == \A c \in Cycles : cycle[c] # Idle ~> cycle[c] = Idle

\* No order stays locked for ever: the market maker can cancel again.
LocksReleased == \A o \in OrderIds : o \in lockedIds ~> o \notin lockedIds

\* Every match decided is refused, executed or reverted in the end.
MatchesResolve ==
  \A i \in 1..MaxMatches :
    (i \in DOMAIN matches /\ matches[i].tx \in {"new", "pending"})
      ~> (i \in DOMAIN matches /\ matches[i].tx \in {"refused", "executed", "reverted"})

(***************************************************************************)
(* What the source says and the code does not do.                          *)
(***************************************************************************)

\* "ids are locked until matching ends so that the bot cannot cancel them,
\* which would revert executeSwap" (orderbook.py lines 16-18): the quotes of a
\* swap that may still be executed are open.  The lock ends when the swap has
\* been sent, which is before it is mined.
QuotesOpenWhilePending ==
  \A i \in DOMAIN matches : matches[i].tx \in {"new", "pending"} =>
    \A o \in {matches[i].maker, matches[i].taker} : o \in Quotes => status[o] = "open"

\* "users deposit BEFORE matching" (DarkPoolEscrow.sol line 16).  The engine
\* lists and matches an order as soon as it is posted.
DepositBeforeMatching ==
  \A i \in DOMAIN matches : status[matches[i].maker] # "none" /\ status[matches[i].taker] # "none"

\* "the tx is sent in any case, so that the frontend has a link" (pipeline.py
\* line 119).  With the nonce of the mined transactions only, a second swap
\* sent while the first is pending is refused.
SwapsAreSent == \A i \in DOMAIN matches : matches[i].tx # "refused"
=============================================================================
