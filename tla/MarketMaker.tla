---------------------------- MODULE MarketMaker ----------------------------
(***************************************************************************)
(* The market-maker bot (mm_bot/bot.py, mm_bot/escrow_client.py) and its   *)
(* quotes on one pair, a buy and a sell: the tick with its skip rule, the  *)
(* refresh that cancels the old quotes and deposits for new ones, retries, *)
(* transactions that time out and are mined later, and the matching rounds *)
(* that lock and fill quotes meanwhile.                                    *)
(*                                                                         *)
(* The bot is one coroutine of the engine's process.  It awaits a thread   *)
(* for every transaction; an action is its code between two awaits.  What  *)
(* the price feed and the risk limits say is arbitrary at every tick.      *)
(***************************************************************************)
EXTENDS Integers, FiniteSetsExt

CONSTANTS
  MaxQuotes,    \* bound on the quotes the bot deposits for
  Mids,         \* mid prices the feed may give
  RefreshBps    \* price_refresh_threshold_pct, in hundredths of a percent

ASSUME QuoteAssumption ==
  /\ MaxQuotes \in Nat /\ RefreshBps \in Nat
  /\ Mids \subseteq Nat \ {0}

VARIABLES
  bot,          \* what the coroutine is doing
  active,       \* active_buy and active_sell
  quoted,       \* last_quoted_mid, prev_can_bid and prev_can_ask
  book,         \* the quotes in the engine's order book; "filled": matched in full
  locked,       \* the quotes a matching round has locked
  status,       \* the quotes in the escrow
  pendingTx,    \* the transaction of the bot's account in the mempool
  forgotten     \* history: quotes overwritten in active, whose deposit was given up on,
                \* or of an earlier process

vars == <<bot, active, quoted, book, locked, status, pendingTx, forgotten>>

Quotes == 1..MaxQuotes
NoQuote == 0
NoPrice == 0
NoTx == [kind |-> "none", quote |-> NoQuote]

\* 1 buys, 2 sells: the order in which the bot treats them.
Side == 1..2

ATTEMPTS == 3

Asleep == [pc |-> "asleep"]

\* uuid4: ids nothing has been deposited for, one for each side.
Unused == {q \in Quotes : status[q] = "none" /\ pendingTx.quote # q /\ q \notin forgotten}
FreshIds == {ids \in [Side -> Unused] : ids[1] # ids[2]}

Init ==
  /\ bot = Asleep
  /\ active = [s \in Side |-> NoQuote]
  /\ quoted = [mid |-> NoPrice, can |-> [s \in Side |-> FALSE]]
  /\ book = [q \in Quotes |-> "absent"]
  /\ locked = {}
  /\ status = [q \in Quotes |-> "none"]
  /\ pendingTx = NoTx
  /\ forgotten = {}

(***************************************************************************)
(* A tick.  Its job is what it decided: to withdraw all quotes, or to      *)
(* refresh them at a mid price on the sides it may quote, under ids that   *)
(* are reserved here so that MaxQuotes bounds ticks and not their steps.   *)
(***************************************************************************)

Withdraw ==
  [kind |-> "withdraw", mid |-> NoPrice, can |-> [s \in Side |-> FALSE], ids |-> [s \in Side |-> NoQuote]]

Refresh(mid, can, ids) == [kind |-> "refresh", mid |-> mid, can |-> can, ids |-> ids]

\* The coroutine awaits the first of ATTEMPTS transactions for quote q.
Awaiting(pc, job, side, q) ==
  [pc |-> pc, job |-> job, side |-> side, quote |-> q, attempt |-> 1, tx |-> "unsent"]

EndTick(job) ==
  /\ bot' = Asleep
  /\ quoted' = IF job.kind = "refresh" THEN [mid |-> job.mid, can |-> job.can]
               ELSE [quoted EXCEPT !.mid = NoPrice]

\* _refresh_quotes after the cancels, for the sides from "from" on.
DepositNext(job, from) ==
  LET todo == {s \in Side : s >= from /\ job.can[s]}
  IN IF todo = {} THEN EndTick(job)
     ELSE /\ bot' = Awaiting("depositing", job, Min(todo), job.ids[Min(todo)])
          /\ UNCHANGED quoted

\* Mutant: quotes a round has locked are cancelled too.
MayCancelAlways(q) == TRUE

MayCancel(q) == q \notin locked

\* Mutant: the quote stays in the book while its cancel is awaited.
DelistLater(q) == book

\* First out of the book, so that no round locks it during the cancel.
Delist(q) == IF book[q] = "active" THEN [book EXCEPT ![q] = "cancelled"] ELSE book

\* _cancel_all_mm_orders for the sides from "from" on, of the quotes act; a
\* quote that is locked counts as not cancelled and is passed over.
CancelNext(job, from, act) ==
  LET todo == {s \in Side : s >= from /\ act[s] # NoQuote /\ MayCancel(act[s])}
      side == Min(todo)
  IN IF todo = {} THEN DepositNext(job, 1) /\ UNCHANGED book
     ELSE /\ bot' = Awaiting("cancelling", job, side, act[side])
          /\ book' = Delist(act[side])
          /\ UNCHANGED quoted

\* The mid price moved less than the threshold and the sides are the same.
SkipRefresh(mid, can) ==
  /\ quoted.mid # NoPrice
  /\ quoted.can = can
  /\ 10000 * (IF mid >= quoted.mid THEN mid - quoted.mid ELSE quoted.mid - mid)
       < RefreshBps * quoted.mid

\* The feed fails, or a price shock pauses quoting.
TickWithdraws ==
  /\ bot = Asleep
  /\ CancelNext(Withdraw, 1, active)
  /\ UNCHANGED <<active, locked, status, pendingTx, forgotten>>

TickRefreshes(mid, can) ==
  /\ bot = Asleep
  /\ FreshIds # {}
  /\ ~SkipRefresh(mid, can)
  /\ CancelNext(Refresh(mid, can, CHOOSE ids \in FreshIds : TRUE), 1, active)
  /\ UNCHANGED <<active, locked, status, pendingTx, forgotten>>

(***************************************************************************)
(* Transactions.  Without a pending one, the account's nonce is free.      *)
(***************************************************************************)

Send ==
  /\ bot.pc \in {"cancelling", "depositing"} /\ bot.tx = "unsent"
  /\ pendingTx = NoTx
  /\ pendingTx' = [kind |-> bot.pc, quote |-> bot.quote]
  /\ bot' = [bot EXCEPT !.tx = "sent"]
  /\ UNCHANGED <<active, quoted, book, locked, status, forgotten>>

\* The chain executes the transaction; deposit needs a new order id,
\* cancelOrder an open order.  The bot may still be waiting for the receipt.
Mine ==
  LET q == pendingTx.quote
      succeeds == status[q] = IF pendingTx.kind = "depositing" THEN "none" ELSE "open"
  IN /\ pendingTx # NoTx
     /\ pendingTx' = NoTx
     /\ status' = IF succeeds
                  THEN [status EXCEPT ![q] = IF pendingTx.kind = "depositing" THEN "open" ELSE "closed"]
                  ELSE status
     /\ bot' = IF bot.pc # "asleep" /\ bot.tx = "sent"
               THEN [bot EXCEPT !.tx = IF succeeds THEN "mined" ELSE "reverted"] ELSE bot
     /\ UNCHANGED <<active, quoted, book, locked, forgotten>>

\* Mutant: attempts are not counted.
NextAttemptUncounted == [bot EXCEPT !.tx = "unsent"]

NextAttempt == [bot EXCEPT !.attempt = @ + 1, !.tx = "unsent"]

\* Mutant: one attempt too many.
LastAttemptLate == bot.attempt > ATTEMPTS

LastAttempt == bot.attempt = ATTEMPTS

\* Mutant: a quote whose cancel is not confirmed is forgotten.
KeptClearing == [active EXCEPT ![bot.side] = NoQuote]

\* What remains tracked when a cancel is not confirmed: the quote too.
Kept == active

\* An attempt gives no tx hash: the next one, or the side is given up.
AttemptFails ==
  IF ~LastAttempt
  THEN /\ bot' = NextAttempt
       /\ UNCHANGED <<active, quoted, book>>
  ELSE IF bot.pc = "cancelling"
  THEN /\ active' = Kept
       /\ CancelNext(bot.job, bot.side + 1, active')
  ELSE /\ DepositNext(bot.job, bot.side + 1)
       /\ UNCHANGED <<active, book>>

\* Nothing was sent, because the connection failed or the nonce is taken, or
\* the transaction reverted.
GetNoHash ==
  /\ bot.pc \in {"cancelling", "depositing"} /\ bot.tx \in {"unsent", "reverted"}
  /\ AttemptFails
  /\ UNCHANGED <<locked, status, pendingTx, forgotten>>

\* The receipt does not come in time, or its polling fails: the transaction
\* may be mined later, or be mined already.
LoseReceipt ==
  /\ bot.pc \in {"cancelling", "depositing"} /\ bot.tx \in {"sent", "mined"}
  /\ AttemptFails
  /\ forgotten' = IF bot.pc = "depositing" THEN forgotten \union {bot.quote} ELSE forgotten
  /\ UNCHANGED <<locked, status, pendingTx>>

\* Reading the allowance or the nonce for a deposit raises: the exception
\* ends the tick, and last_quoted_mid stays what it was.
DepositRaises ==
  /\ bot.pc = "depositing" /\ bot.tx = "unsent"
  /\ bot' = Asleep
  /\ UNCHANGED <<active, quoted, book, locked, status, pendingTx, forgotten>>

CancelConfirmed ==
  /\ bot.pc = "cancelling" /\ bot.tx = "mined"
  /\ active' = [active EXCEPT ![bot.side] = NoQuote]
  /\ CancelNext(bot.job, bot.side + 1, active')
  /\ UNCHANGED <<locked, status, pendingTx, forgotten>>

\* The new quote is listed and tracked, whether or not the cancel of the old
\* one was confirmed.
DepositConfirmed ==
  /\ bot.pc = "depositing" /\ bot.tx = "mined"
  /\ book' = [book EXCEPT ![bot.quote] = "active"]
  /\ active' = [active EXCEPT ![bot.side] = bot.quote]
  /\ forgotten' = forgotten \union ({active[bot.side]} \ {NoQuote})
  /\ DepositNext(bot.job, bot.side + 1)
  /\ UNCHANGED <<locked, status, pendingTx>>

(***************************************************************************)
(* The matching rounds of the pair, one at a time, and their swaps.        *)
(***************************************************************************)

\* The round may have dropped a side of the bot in the wash-trade filter.
LockRound(ids) ==
  /\ locked = {} /\ ids # {}
  /\ locked' = ids
  /\ UNCHANGED <<bot, active, quoted, book, status, pendingTx, forgotten>>

\* The round matches all of a quote.  When an API call has taken the quote out
\* of the book meanwhile, the fill is skipped there, but not the swap.
FillQuote(q) ==
  /\ book[q] \in {"active", "cancelled"}
  /\ book' = [book EXCEPT ![q] = "filled"]
  /\ UNCHANGED <<bot, active, quoted, locked, status, pendingTx, forgotten>>

UnlockRound ==
  /\ locked # {}
  /\ locked' = {}
  /\ UNCHANGED <<bot, active, quoted, book, status, pendingTx, forgotten>>

\* A swap that takes all of the quote is mined.
MineSwap(q) ==
  /\ book[q] = "filled" /\ status[q] = "open"
  /\ status' = [status EXCEPT ![q] = "closed"]
  /\ UNCHANGED <<bot, active, quoted, book, locked, pendingTx, forgotten>>

(***************************************************************************)
(* The API and the process.                                                *)
(***************************************************************************)

\* DELETE /order/{id} takes any active order out of the book, locked or not.
CancelByApi(q) ==
  /\ book[q] = "active"
  /\ book' = [book EXCEPT ![q] = "cancelled"]
  /\ UNCHANGED <<bot, active, quoted, locked, status, pendingTx, forgotten>>

\* The process is restarted: the new bot and the new book know none of the old
\* quotes.  What was sent stays in the mempool, swaps included.
Restart ==
  /\ bot' = Asleep
  /\ active' = [s \in Side |-> NoQuote]
  /\ quoted' = [mid |-> NoPrice, can |-> [s \in Side |-> FALSE]]
  /\ book' = [q \in Quotes |-> IF book[q] = "active" THEN "cancelled" ELSE book[q]]
  /\ locked' = {}
  /\ forgotten' = forgotten \union {q \in Quotes : status[q] = "open" \/ pendingTx.quote = q}
  /\ UNCHANGED <<status, pendingTx>>

BotStep ==
  \/ Send
  \/ GetNoHash
  \/ LoseReceipt
  \/ DepositRaises
  \/ CancelConfirmed
  \/ DepositConfirmed

Next ==
  \/ TickWithdraws
  \/ \E mid \in Mids, can \in [Side -> BOOLEAN] : TickRefreshes(mid, can)
  \/ BotStep
  \/ Mine
  \/ \E ids \in SUBSET {q \in Quotes : book[q] = "active"} : LockRound(ids)
  \/ \E q \in locked : FillQuote(q)
  \/ UnlockRound
  \/ \E q \in Quotes : MineSwap(q) \/ CancelByApi(q)
  \/ Restart

\* The thread ends in time: the RPC client gives up after 30 seconds and the
\* wait for a receipt after 120; the event loop resumes the coroutine.
Spec == Init /\ [][Next]_vars /\ WF_vars(BotStep)

(***************************************************************************)
(* Properties.                                                             *)
(***************************************************************************)

\* What a tick may have decided, and what it may be waiting for.
Job == {Withdraw} \union
       [kind : {"refresh"}, mid : Mids, can : [Side -> BOOLEAN], ids : [Side -> Quotes]]

Awaited ==
  [pc : {"cancelling", "depositing"}, job : Job, side : Side, quote : Quotes,
   attempt : 1..ATTEMPTS, tx : {"unsent", "sent", "mined", "reverted"}]

\* Every variable has its type; a transaction is tried at most three times.
TypeOK ==
  /\ bot \in {Asleep} \union Awaited
  /\ active \in [Side -> Quotes \union {NoQuote}]
  /\ quoted \in [mid : Mids \union {NoPrice}, can : [Side -> BOOLEAN]]
  /\ book \in [Quotes -> {"absent", "active", "cancelled", "filled"}]
  /\ locked \subseteq Quotes
  /\ status \in [Quotes -> {"none", "open", "closed"}]
  /\ pendingTx = NoTx \/ pendingTx \in [kind : {"cancelling", "depositing"}, quote : Quotes]
  /\ forgotten \subseteq Quotes

\* Whatever is retried, lost or mined late, a quote that can be matched has
\* its deposit in the escrow (bot.py lines 289-297 and 346-356): no round is
\* run on a quote whose swap could only revert.
ListedAreFunded == \A q \in Quotes : book[q] = "active" => status[q] = "open"

\* No withdrawal in the mempool, however late, is of a quote that a running
\* round has locked (bot.py lines 283-287).
WithdrawalsSpareRounds == pendingTx.kind = "cancelling" => pendingTx.quote \notin locked

\* The bot knows every deposit it has in the escrow and can withdraw it,
\* except those it has overwritten, whose receipt it lost or that an earlier
\* process made.
OpenAreKnown ==
  \A q \in Quotes : status[q] = "open" =>
    \/ \E s \in Side : active[s] = q
    \/ bot.pc = "depositing" /\ bot.quote = q
    \/ q \in forgotten

\* Every tick ends, however its transactions fail: the price is looked at
\* again, and quotes at an old price are withdrawn.
TicksEnd == bot # Asleep ~> bot = Asleep

(***************************************************************************)
(* What the source says and the code does not do.                          *)
(***************************************************************************)

\* "The state is kept, else the bot would deposit for a new order; the
\* next tick retries the cancel" (bot.py lines 268-271): a quote that is still
\* open is not replaced by another.  _refresh_quotes goes on when a cancel failed.
OpenQuotesAreKept ==
  [][\A s \in Side : active[s] # NoQuote /\ status[active[s]] = "open" => active'[s] \in {active[s], NoQuote}]_vars
=============================================================================
