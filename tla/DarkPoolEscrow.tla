--------------------------- MODULE DarkPoolEscrow ---------------------------
(***************************************************************************)
(* The escrow contract apps/contracts/contracts/DarkPoolEscrow.sol: users  *)
(* deposit ERC-20 tokens into orders, a swap signed by the TEE exchanges   *)
(* parts of two orders, an owner cancels an order for the unfilled rest,   *)
(* and the contract owner rotates the signer, switches fees and withdraws  *)
(* them.                                                                   *)
(*                                                                         *)
(* A transaction is atomic: one action per external function, and a        *)
(* require that fails is an action that is not enabled.  Anyone may relay  *)
(* any signed swap, in any order, as often as he likes.                    *)
(***************************************************************************)
EXTENDS Integers, FiniteSetsExt

CONSTANTS
  OrderIds,         \* bytes32 order ids chosen off-chain
  SwapIds,          \* bytes32 swap ids chosen by the TEE
  Tokens,           \* ERC-20 tokens (transfers take no fee of their own)
  Traders,          \* externally owned accounts that hold tokens
  Signers,          \* addresses that may be configured as TEE signer
  Treasury,         \* the account the owner withdraws fees to
  Escrow,           \* address(this)
  ZeroAddress,      \* address(0)
  Amounts,          \* the positive amounts of deposits and fills
  Endowment,        \* tokens every trader holds at the start
  FEE_BPS,
  BPS_DENOMINATOR

Accounts == Traders \union {Treasury, Escrow}

ASSUME AddressAssumption ==
  /\ ZeroAddress \notin Accounts \union Tokens \union Signers
  /\ Treasury \notin Traders /\ Escrow \notin Traders /\ Treasury # Escrow

ASSUME AmountAssumption ==
  /\ Amounts \subseteq Nat \ {0}
  /\ Endowment \in Nat

\* An id is 32 bytes long.
ASSUME OrderIdAssumption == IsFiniteSet(OrderIds)

ASSUME FeeAssumption ==
  /\ FEE_BPS \in Nat /\ BPS_DENOMINATOR \in Nat \ {0}
  /\ FEE_BPS <= BPS_DENOMINATOR

VARIABLES
  teeSignerAddress,
  feeEnabled,
  orders,           \* orderId -> Order struct; the zero struct when unset
  executedSwaps,    \* the swap ids whose mapping entry is true
  collectedFees,    \* token -> accumulated fees
  balance,          \* token -> account -> balance, kept by the ERC-20s
  settled           \* history: the swaps executed, with the fee switch then

contractVars == <<teeSignerAddress, feeEnabled, orders, executedSwaps, collectedFees>>
vars == <<contractVars, balance, settled>>

Order ==
  [trader : Traders, token : Tokens, totalAmount : Nat, filledAmount : Nat, active : BOOLEAN]

EmptyOrder ==
  [trader |-> ZeroAddress, token |-> ZeroAddress,
   totalAmount |-> 0, filledAmount |-> 0, active |-> FALSE]

\* What the TEE signs for executeSwap.  chainId and address(this), also
\* hashed, are those of this deployment.  The engine's validator takes the
\* maker from the sell side and the taker from the buy side of one book, so
\* the two ids of a signed swap differ.
Swap ==
  {s \in [swapId : SwapIds, makerOrderId : OrderIds, takerOrderId : OrderIds,
          makerFillAmount : Amounts, takerFillAmount : Amounts] :
     s.makerOrderId # s.takerOrderId}

(***************************************************************************)
(* Helpers.                                                                *)
(***************************************************************************)

\* IERC20.safeTransfer: reverts unless the sender holds the amount.
CanTransfer(ledger, token, from, amount) == ledger[token][from] >= amount

Transfer(ledger, token, from, to, amount) ==
  [ledger EXCEPT ![token][from] = @ - amount, ![token][to] = @ + amount]

\* Mutant: the ratio of the fee is upside down.
FeeInverted(fill, enabled) ==
  IF enabled THEN (fill * BPS_DENOMINATOR) \div FEE_BPS ELSE 0

\* The protocol fee on one leg of a swap, rounded down.
Fee(fill, enabled) ==
  IF enabled THEN (fill * FEE_BPS) \div BPS_DENOMINATOR ELSE 0

\* Mutant: both fees are booked under the maker's token.
AddFeesUnderMaker(maker, makerFee, taker, takerFee) ==
  [collectedFees EXCEPT ![maker.token] = @ + makerFee + takerFee]

\* The fees of a swap, each booked under the token of its leg.
AddFees(maker, makerFee, taker, takerFee) ==
  [t \in Tokens |-> collectedFees[t] + (IF t = maker.token THEN makerFee ELSE 0)
                                     + (IF t = taker.token THEN takerFee ELSE 0)]

\* Mutant: a fill never closes the order.
FilledStaysActive(order, fill) == [order EXCEPT !.filledAmount = @ + fill]

\* An order after a fill: deactivated when nothing is left.
Filled(order, fill) ==
  [order EXCEPT !.filledAmount = @ + fill,
                !.active = order.filledAmount + fill # order.totalAmount]

getOrderRemaining(o) ==
  IF orders[o].active THEN orders[o].totalAmount - orders[o].filledAmount ELSE 0

\* Mutant: an id is free again once its order is closed.
IsFreeWhenClosed(orderId) == ~orders[orderId].active

IsFree(orderId) == orders[orderId].trader = ZeroAddress

\* Mutant: a cancel refunds the whole deposit.
RefundAll(order) == order.totalAmount

Refund(order) == order.totalAmount - order.filledAmount

\* ecrecover gives the key that signed; only the configured one is accepted.
VerifyTEESignature(signer) == signer = teeSignerAddress

Init ==
  /\ teeSignerAddress \in Signers
  /\ feeEnabled = FALSE
  /\ orders = [o \in OrderIds |-> EmptyOrder]
  /\ executedSwaps = {}
  /\ collectedFees = [t \in Tokens |-> 0]
  /\ balance = [t \in Tokens |-> [a \in Accounts |-> IF a \in Traders THEN Endowment ELSE 0]]
  /\ settled = {}

(***************************************************************************)
(* Users.                                                                  *)
(***************************************************************************)

Deposit(sender, orderId, token, amount) ==
  /\ IsFree(orderId)
  /\ orders' = [orders EXCEPT ![orderId] =
                  [trader |-> sender, token |-> token, totalAmount |-> amount,
                   filledAmount |-> 0, active |-> TRUE]]
  /\ CanTransfer(balance, token, sender, amount)
  /\ balance' = Transfer(balance, token, sender, Escrow, amount)
  /\ UNCHANGED <<teeSignerAddress, feeEnabled, executedSwaps, collectedFees, settled>>

CancelOrder(sender, orderId) ==
  LET o == orders[orderId]
  IN /\ o.trader = sender
     /\ o.active
     /\ orders' = [orders EXCEPT ![orderId].active = FALSE]
     /\ CanTransfer(balance, o.token, Escrow, Refund(o))
     /\ balance' = Transfer(balance, o.token, Escrow, sender, Refund(o))
     /\ UNCHANGED <<teeSignerAddress, feeEnabled, executedSwaps, collectedFees, settled>>

(***************************************************************************)
(* Swaps: s is a payload, signer the key its signature recovers to.        *)
(***************************************************************************)

\* Mutant: no replay check.
ReplayAllowed(s, signer) ==
  LET maker == orders[s.makerOrderId]
      taker == orders[s.takerOrderId]
  IN /\ maker.active
     /\ taker.active
     /\ maker.filledAmount + s.makerFillAmount <= maker.totalAmount
     /\ taker.filledAmount + s.takerFillAmount <= taker.totalAmount
     /\ VerifyTEESignature(signer)

\* The requires of executeSwap.
SwapAllowed(s, signer) ==
  LET maker == orders[s.makerOrderId]
      taker == orders[s.takerOrderId]
  IN /\ s.swapId \notin executedSwaps
     /\ maker.active
     /\ taker.active
     /\ maker.filledAmount + s.makerFillAmount <= maker.totalAmount
     /\ taker.filledAmount + s.takerFillAmount <= taker.totalAmount
     /\ VerifyTEESignature(signer)

ExecuteSwap(s, signer) ==
  LET maker == orders[s.makerOrderId]
      taker == orders[s.takerOrderId]
      makerFee == Fee(s.makerFillAmount, feeEnabled)
      takerFee == Fee(s.takerFillAmount, feeEnabled)
      makerToTaker == s.makerFillAmount - makerFee
      takerToMaker == s.takerFillAmount - takerFee
      halfway == Transfer(balance, maker.token, Escrow, taker.trader, makerToTaker)
  IN /\ SwapAllowed(s, signer)
     /\ executedSwaps' = executedSwaps \union {s.swapId}
     /\ orders' = [orders EXCEPT ![s.makerOrderId] = Filled(@, s.makerFillAmount),
                                 ![s.takerOrderId] = Filled(@, s.takerFillAmount)]
     /\ collectedFees' = AddFees(maker, makerFee, taker, takerFee)
     /\ CanTransfer(balance, maker.token, Escrow, makerToTaker)
     /\ CanTransfer(halfway, taker.token, Escrow, takerToMaker)
     /\ balance' = Transfer(halfway, taker.token, Escrow, maker.trader, takerToMaker)
     /\ settled' = settled \union {[swap |-> s, fee |-> feeEnabled]}
     /\ UNCHANGED <<teeSignerAddress, feeEnabled>>

(***************************************************************************)
(* Owner.                                                                  *)
(***************************************************************************)

UpdateTEESignerAddress(newSigner) ==
  /\ teeSignerAddress' = newSigner
  /\ UNCHANGED <<feeEnabled, orders, executedSwaps, collectedFees, balance, settled>>

SetFeeEnabled(enabled) ==
  /\ feeEnabled' = enabled
  /\ UNCHANGED <<teeSignerAddress, orders, executedSwaps, collectedFees, balance, settled>>

\* Mutant: the accumulated fees are not reset.
WithdrawFeesNoReset(token, to) ==
  /\ collectedFees[token] > 0
  /\ CanTransfer(balance, token, Escrow, collectedFees[token])
  /\ balance' = Transfer(balance, token, Escrow, to, collectedFees[token])
  /\ UNCHANGED <<teeSignerAddress, feeEnabled, orders, executedSwaps, collectedFees, settled>>

WithdrawFees(token, to) ==
  /\ collectedFees[token] > 0
  /\ collectedFees' = [collectedFees EXCEPT ![token] = 0]
  /\ CanTransfer(balance, token, Escrow, collectedFees[token])
  /\ balance' = Transfer(balance, token, Escrow, to, collectedFees[token])
  /\ UNCHANGED <<teeSignerAddress, feeEnabled, orders, executedSwaps, settled>>

Next ==
  \/ \E sender \in Traders, orderId \in OrderIds, token \in Tokens, amount \in Amounts :
       Deposit(sender, orderId, token, amount)
  \/ \E sender \in Traders, orderId \in OrderIds : CancelOrder(sender, orderId)
  \/ \E s \in Swap, signer \in Signers : ExecuteSwap(s, signer)
  \/ \E newSigner \in Signers : UpdateTEESignerAddress(newSigner)
  \/ \E enabled \in BOOLEAN : SetFeeEnabled(enabled)
  \/ \E token \in Tokens : WithdrawFees(token, Treasury)

Spec == Init /\ [][Next]_vars

(***************************************************************************)
(* Properties.                                                             *)
(***************************************************************************)

\* Sums used by the accounting invariants.
Owed(token) ==
  SumFunction([o \in OrderIds |-> IF orders[o].token = token THEN getOrderRemaining(o) ELSE 0])

FilledIn(e, o) ==
  IF e.swap.makerOrderId = o THEN e.swap.makerFillAmount
  ELSE IF e.swap.takerOrderId = o THEN e.swap.takerFillAmount ELSE 0

FeeFrom(e, o) == Fee(FilledIn(e, o), e.fee)

\* The fees of settled swap e in the given token.
FeesOf(e, token) ==
  SumFunction([o \in OrderIds |-> IF orders[o].token = token THEN FeeFrom(e, o) ELSE 0])

\* What a trader spent from an order: all of it while open, else the fills.
Spent(o) == IF orders[o].active THEN orders[o].totalAmount ELSE orders[o].filledAmount

SpentBy(a, token) ==
  SumFunction([o \in OrderIds |->
                 IF orders[o].trader = a /\ orders[o].token = token THEN Spent(o) ELSE 0])

\* The payment of settled swap e that goes to account a in the given token:
\* each side receives the other side's fill less the fee on it.
Received(e, a, token) ==
  LET m == e.swap.makerOrderId
      t == e.swap.takerOrderId
      leg(from, to) == IF orders[to].trader = a /\ orders[from].token = token
                       THEN FilledIn(e, from) - FeeFrom(e, from) ELSE 0
  IN leg(m, t) + leg(t, m)

\* Every variable has its type, and an order that was never deposited is the
\* zero struct of the orders mapping.
TypeOK ==
  /\ teeSignerAddress \in Signers
  /\ feeEnabled \in BOOLEAN
  /\ orders \in [OrderIds -> Order \union {EmptyOrder}]
  /\ executedSwaps \subseteq SwapIds
  /\ collectedFees \in [Tokens -> Nat]
  /\ balance \in [Tokens -> [Accounts -> Nat]]
  /\ settled \subseteq [swap : Swap, fee : BOOLEAN]

\* An order is never filled beyond its deposit, and an active order still has
\* something to fill or refund: cancelOrder's refund subtraction cannot wrap
\* and no order is stuck active with nothing left (lines 215-222, 236-242).
OrderWithinTotal ==
  \A o \in OrderIds :
    /\ orders[o].filledAmount <= orders[o].totalAmount
    /\ orders[o].active => orders[o].filledAmount < orders[o].totalAmount

\* The escrow holds, in every token, exactly what it owes: the unfilled rest
\* of the active orders in that token plus the fees not yet withdrawn.
Solvency == \A t \in Tokens : balance[t][Escrow] = Owed(t) + collectedFees[t]

\* No fill is lost, counted twice or replayed: the filled amount of an order
\* is the sum of its fills in the swaps executed, one swap per swap id.
FillsAreSettledSwaps ==
  /\ \A o \in OrderIds :
       orders[o].filledAmount = SumFunction([e \in settled |-> FilledIn(e, o)])
  /\ \A e1, e2 \in settled : e1.swap.swapId = e2.swap.swapId => e1 = e2
  /\ executedSwaps = {e.swap.swapId : e \in settled}

\* Fees, withdrawn or not, are the rounded fees of the swaps executed while
\* the switch was on, each in the token of the leg it was taken from.
FeesAreFromSwaps ==
  \A t \in Tokens :
    collectedFees[t] + balance[t][Treasury] = SumFunction([e \in settled |-> FeesOf(e, t)])

\* A trader owns what he started with, less what his orders locked or sold,
\* plus the payments of the swaps his orders took part in: a cancel refunds
\* the unfilled rest and nothing else, a swap pays both sides or neither.
TraderAccounts ==
  \A a \in Traders, t \in Tokens :
    balance[t][a] + SpentBy(a, t) = Endowment + SumFunction([e \in settled |-> Received(e, a, t)])

\* One step leaves the terms and the closing of a deposited order alone.
KeepsHistory ==
  /\ \A o \in OrderIds : orders[o].trader # ZeroAddress =>
       /\ orders'[o].trader = orders[o].trader
       /\ orders'[o].token = orders[o].token
       /\ orders'[o].totalAmount = orders[o].totalAmount
       /\ orders'[o].filledAmount >= orders[o].filledAmount
       /\ ~orders[o].active => orders'[o] = orders[o]
  /\ executedSwaps \subseteq executedSwaps'

\* The terms of a deposited order never change, its fills only grow, a closed
\* order is closed for ever, and an executed swap id stays executed: an order
\* id cannot be deposited again after a fill or a cancel (line 164).
OrderHistory == [][KeepsHistory]_vars

(***************************************************************************)
(* The contract implements the ledger it promises.                         *)
(***************************************************************************)

ledgerStatus ==
  [o \in OrderIds |-> IF orders[o].trader = ZeroAddress THEN "none"
                      ELSE IF orders[o].active THEN "open" ELSE "closed"]

ledgerCustody == [o \in OrderIds |-> getOrderRemaining(o)]

Ledger == INSTANCE EscrowLedger
            WITH status <- ledgerStatus, custody <- ledgerCustody, spent <- executedSwaps

\* Every transaction of the contract is a step of the ledger or leaves it
\* alone: custody is created once per order id, leaves only by an exchange
\* under a fresh swap id or by a refund of all that is left.
ImplementsLedger == Ledger!LedgerSpec
=============================================================================
