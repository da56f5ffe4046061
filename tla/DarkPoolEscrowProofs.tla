------------------------ MODULE DarkPoolEscrowProofs ------------------------
(***************************************************************************)
(* Theorems about the escrow contract, for any finite set of orders, swap  *)
(* ids, tokens, traders and signers and any fee not above 100%.            *)
(***************************************************************************)
EXTENDS DarkPoolEscrow, SumLemmas

(***************************************************************************)
(* Operators.                                                              *)
(***************************************************************************)

Balances == [Tokens -> [Accounts -> Nat]]

\* A fee is a natural number and never more than the leg it is taken from, so
\* the subtractions of executeSwap cannot wrap.
LEMMA FeeWithinFill ==
  ASSUME NEW fill \in Nat, NEW enabled \in BOOLEAN
  PROVE  Fee(fill, enabled) \in 0..fill
<1> DEFINE product == fill * FEE_BPS
           quotient == product \div BPS_DENOMINATOR
<1>1. product \in Nat /\ product <= fill * BPS_DENOMINATOR
  BY FeeAssumption
<1>2. quotient \in Nat /\ BPS_DENOMINATOR * quotient <= product
  <2> HIDE DEF product
  <2> QED BY <1>1, FeeAssumption
<1>3. quotient <= fill
  <2> HIDE DEF product, quotient
  <2>1. ASSUME quotient > fill PROVE FALSE
    <3>1. BPS_DENOMINATOR * quotient >= BPS_DENOMINATOR * (fill + 1)
      BY <1>2, <2>1, FeeAssumption
    <3>2. BPS_DENOMINATOR * (fill + 1) = fill * BPS_DENOMINATOR + BPS_DENOMINATOR
      BY FeeAssumption
    <3> QED BY <1>1, <1>2, <3>1, <3>2, FeeAssumption
  <2> QED BY <1>2, <2>1
<1> QED BY <1>2, <1>3 DEF Fee

\* A transfer the sender can pay for keeps every balance a natural number.
LEMMA TransferType ==
  ASSUME NEW ledger \in Balances, NEW token \in Tokens, NEW from \in Accounts,
         NEW to \in Accounts, from # to, NEW amount \in Nat,
         CanTransfer(ledger, token, from, amount)
  PROVE  Transfer(ledger, token, from, to, amount) \in Balances
BY DEF Balances, CanTransfer, Transfer

\* The fields of an order after a fill.
LEMMA FilledFields ==
  ASSUME NEW order \in Order, NEW fill \in Nat
  PROVE  /\ Filled(order, fill) \in Order
         /\ Filled(order, fill).trader = order.trader
         /\ Filled(order, fill).token = order.token
         /\ Filled(order, fill).totalAmount = order.totalAmount
         /\ Filled(order, fill).filledAmount = order.filledAmount + fill
         /\ Filled(order, fill).active <=> order.filledAmount + fill # order.totalAmount
<1> DEFINE left == order.filledAmount + fill # order.totalAmount
           sum == order.filledAmount + fill
<1>1. Filled(order, fill) = [order EXCEPT !.filledAmount = sum, !.active = left]
  BY Zenon DEF Filled
<1>2. left \in BOOLEAN
  OBVIOUS
<1>3. sum \in Nat
  BY DEF Order
<1> HIDE DEF sum, left
<1>4. /\ Filled(order, fill) \in Order
      /\ Filled(order, fill).trader = order.trader
      /\ Filled(order, fill).token = order.token
      /\ Filled(order, fill).totalAmount = order.totalAmount
      /\ Filled(order, fill).filledAmount = sum
      /\ Filled(order, fill).active <=> left
  BY <1>1, <1>2, <1>3, Zenon DEF Order
<1> QED BY <1>4 DEF sum, left

\* A deposited order that is open and takes a fill within its remaining amount
\* is still a well-formed order within its total.
OrderOK(order) ==
  /\ order \in Order \union {EmptyOrder}
  /\ order.filledAmount <= order.totalAmount
  /\ order.active => order.filledAmount < order.totalAmount

LEMMA FilledOK ==
  ASSUME NEW order, OrderOK(order), order.active,
         NEW fill \in Nat, order.filledAmount + fill <= order.totalAmount
  PROVE  /\ Filled(order, fill) \in Order
         /\ OrderOK(Filled(order, fill))
         /\ Filled(order, fill).filledAmount >= order.filledAmount
<1>1. order \in Order
  BY DEF OrderOK, Order, EmptyOrder
<1>2. order.totalAmount \in Nat /\ order.filledAmount \in Nat
  BY <1>1 DEF Order
<1>3. /\ Filled(order, fill) \in Order
      /\ Filled(order, fill).totalAmount = order.totalAmount
      /\ Filled(order, fill).filledAmount = order.filledAmount + fill
      /\ Filled(order, fill).active => order.filledAmount + fill # order.totalAmount
  BY <1>1, FilledFields, Zenon
<1> QED BY <1>2, <1>3 DEF OrderOK

\* An order that is open or has a trader of its own is a deposited one.
LEMMA Deposited ==
  ASSUME NEW order \in Order \union {EmptyOrder},
         order.active \/ order.trader # ZeroAddress
  PROVE  order \in Order
BY DEF Order, EmptyOrder

(***************************************************************************)
(* The inductive invariant: types, and no order filled beyond its total.   *)
(* Neither is inductive alone: the refund of a cancel is a natural number  *)
(* because fills stay within totals, and the sums of fills are ordered     *)
(* because they are natural numbers.                                       *)
(***************************************************************************)
IInv == TypeOK /\ OrderWithinTotal

LEMMA OrdersOK ==
  ASSUME IInv
  PROVE  \A o \in OrderIds : OrderOK(orders[o])
BY DEF IInv, TypeOK, OrderWithinTotal, OrderOK

LEMMA InitIInv == Init => IInv
<1> SUFFICES ASSUME Init PROVE IInv
  OBVIOUS
<1>1. TypeOK
  BY AmountAssumption DEF Init, TypeOK, Accounts
<1>2. OrderWithinTotal
  BY DEF Init, OrderWithinTotal, EmptyOrder
<1> QED BY <1>1, <1>2 DEF IInv

LEMMA NextIInv == IInv /\ [Next]_vars => IInv'
<1> SUFFICES ASSUME IInv, [Next]_vars PROVE IInv'
  OBVIOUS
<1> USE DEF IInv
<1>1. ASSUME NEW sender \in Traders, NEW orderId \in OrderIds, NEW token \in Tokens,
             NEW amount \in Amounts, Deposit(sender, orderId, token, amount)
      PROVE  IInv'
  <2>1. amount \in Nat /\ amount > 0
    BY AmountAssumption
  <2>2. orders' \in [OrderIds -> Order \union {EmptyOrder}]
    BY <1>1, <2>1 DEF Deposit, TypeOK, Order
  <2>3. balance' \in Balances
    BY <1>1, <2>1, AddressAssumption, TransferType DEF Deposit, TypeOK, Balances, Accounts
  <2>4. TypeOK'
    BY <1>1, <2>2, <2>3 DEF Deposit, TypeOK, Balances
  <2>5. OrderWithinTotal'
    BY <1>1, <2>1 DEF Deposit, TypeOK, OrderWithinTotal
  <2> QED BY <2>4, <2>5
<1>2. ASSUME NEW sender \in Traders, NEW orderId \in OrderIds, CancelOrder(sender, orderId)
      PROVE  IInv'
  <2> DEFINE o == orders[orderId]
  <2>1. o \in Order /\ o.filledAmount <= o.totalAmount
    BY <1>2, Deposited DEF CancelOrder, TypeOK, OrderWithinTotal
  <2>2. orders' \in [OrderIds -> Order \union {EmptyOrder}]
    BY <1>2, <2>1 DEF CancelOrder, TypeOK, Order
  <2>3. Refund(o) \in Nat /\ o.token \in Tokens
    BY <2>1 DEF Refund, Order
  <2>4. balance' \in Balances
    BY <1>2, <2>3, AddressAssumption, TransferType DEF CancelOrder, TypeOK, Balances, Accounts
  <2>5. TypeOK'
    BY <1>2, <2>2, <2>4 DEF CancelOrder, TypeOK, Balances
  <2>6. OrderWithinTotal'
    BY <1>2 DEF CancelOrder, TypeOK, OrderWithinTotal, Order, EmptyOrder
  <2> QED BY <2>5, <2>6
<1>3. ASSUME NEW s \in Swap, NEW signer \in Signers, ExecuteSwap(s, signer)
      PROVE  IInv'
  <2> DEFINE maker == orders[s.makerOrderId]
             taker == orders[s.takerOrderId]
             makerFee == Fee(s.makerFillAmount, feeEnabled)
             takerFee == Fee(s.takerFillAmount, feeEnabled)
             halfway == Transfer(balance, maker.token, Escrow, taker.trader,
                                 s.makerFillAmount - makerFee)
  <2>1. /\ s.swapId \in SwapIds
        /\ s.makerOrderId \in OrderIds /\ s.takerOrderId \in OrderIds
        /\ s.makerOrderId # s.takerOrderId
        /\ s.makerFillAmount \in Nat /\ s.takerFillAmount \in Nat
    BY AmountAssumption DEF Swap
  <2>2. /\ maker.active /\ maker.filledAmount + s.makerFillAmount <= maker.totalAmount
        /\ taker.active /\ taker.filledAmount + s.takerFillAmount <= taker.totalAmount
    BY <1>3 DEF ExecuteSwap, SwapAllowed
  <2>3. maker \in Order /\ taker \in Order
    BY <2>1, <2>2, Deposited DEF TypeOK
  <2>4. /\ OrderOK(Filled(maker, s.makerFillAmount)) /\ Filled(maker, s.makerFillAmount) \in Order
        /\ OrderOK(Filled(taker, s.takerFillAmount)) /\ Filled(taker, s.takerFillAmount) \in Order
    BY <2>1, <2>2, OrdersOK, FilledOK
  <2>5. /\ makerFee \in Nat /\ s.makerFillAmount - makerFee \in Nat
        /\ takerFee \in Nat /\ s.takerFillAmount - takerFee \in Nat
    BY <2>1, FeeWithinFill DEF TypeOK
  <2>6. /\ maker.token \in Tokens /\ maker.trader \in Accounts
        /\ taker.token \in Tokens /\ taker.trader \in Accounts
        /\ Escrow \in Accounts /\ maker.trader # Escrow /\ taker.trader # Escrow
    BY <2>3, AddressAssumption DEF Order, Accounts
  <2>7. \A o \in OrderIds : orders'[o] = IF o = s.makerOrderId THEN Filled(maker, s.makerFillAmount)
                                         ELSE IF o = s.takerOrderId THEN Filled(taker, s.takerFillAmount)
                                         ELSE orders[o]
    BY <1>3, <2>1 DEF ExecuteSwap, TypeOK
  <2>8. orders' \in [OrderIds -> Order \union {EmptyOrder}]
    <3>1. DOMAIN orders' = OrderIds /\ orders' = [o \in OrderIds |-> orders'[o]]
      BY <1>3 DEF ExecuteSwap, TypeOK
    <3>2. \A o \in OrderIds : orders'[o] \in Order \union {EmptyOrder}
      BY <2>4, <2>7 DEF TypeOK
    <3> QED BY <3>1, <3>2
  <2>9. collectedFees' \in [Tokens -> Nat]
    BY <1>3, <2>5, <2>6 DEF ExecuteSwap, AddFees, TypeOK
  <2>10. halfway \in Balances
    <3>1. CanTransfer(balance, maker.token, Escrow, s.makerFillAmount - makerFee)
      BY <1>3 DEF ExecuteSwap
    <3> QED BY <2>5, <2>6, <3>1, TransferType DEF TypeOK, Balances
  <2>11. balance' \in Balances
    <3>1. /\ CanTransfer(halfway, taker.token, Escrow, s.takerFillAmount - takerFee)
          /\ balance' = Transfer(halfway, taker.token, Escrow, maker.trader,
                                 s.takerFillAmount - takerFee)
      BY <1>3 DEF ExecuteSwap
    <3> HIDE DEF halfway, makerFee, takerFee, maker, taker
    <3> QED BY <2>5, <2>6, <2>10, <3>1, TransferType
  <2>12. settled' \subseteq [swap : Swap, fee : BOOLEAN]
    BY <1>3 DEF ExecuteSwap, TypeOK
  <2>13. TypeOK'
    BY <1>3, <2>1, <2>8, <2>9, <2>11, <2>12 DEF ExecuteSwap, TypeOK, Balances
  <2>14. OrderWithinTotal'
    BY <2>4, <2>7 DEF OrderWithinTotal, OrderOK
  <2> QED BY <2>13, <2>14
<1>4. ASSUME NEW newSigner \in Signers, UpdateTEESignerAddress(newSigner)
      PROVE  IInv'
  BY <1>4 DEF UpdateTEESignerAddress, TypeOK, OrderWithinTotal
<1>5. ASSUME NEW enabled \in BOOLEAN, SetFeeEnabled(enabled)
      PROVE  IInv'
  BY <1>5 DEF SetFeeEnabled, TypeOK, OrderWithinTotal
<1>6. ASSUME NEW token \in Tokens, WithdrawFees(token, Treasury)
      PROVE  IInv'
  <2>1. balance' \in Balances
    BY <1>6, AddressAssumption, TransferType DEF WithdrawFees, TypeOK, Balances, Accounts
  <2>2. collectedFees' \in [Tokens -> Nat]
    BY <1>6 DEF WithdrawFees, TypeOK
  <2> QED BY <1>6, <2>1, <2>2 DEF WithdrawFees, TypeOK, OrderWithinTotal, Balances
<1>7. CASE UNCHANGED vars
  BY <1>7 DEF vars, contractVars, TypeOK, OrderWithinTotal
<1> QED BY <1>1, <1>2, <1>3, <1>4, <1>5, <1>6, <1>7 DEF Next

LEMMA Invariance == Spec => []IInv
BY InitIInv, NextIInv, PTL DEF Spec

\* In every reachable state every variable has its type: no balance, fee or
\* remaining amount wraps below zero.
THEOREM TypeCorrect == Spec => []TypeOK
<1>1. IInv => TypeOK
  BY DEF IInv
<1> QED BY <1>1, Invariance, PTL

\* No order is ever filled beyond its deposit, and an active order always has
\* something left to fill or refund.
THEOREM NoOverfill == Spec => []OrderWithinTotal
<1>1. IInv => OrderWithinTotal
  BY DEF IInv
<1> QED BY <1>1, Invariance, PTL

(***************************************************************************)
(* The history of an order.                                                *)
(***************************************************************************)

\* What executeSwap does to the order structs.
LEMMA SwapEffect ==
  ASSUME IInv, NEW s \in Swap, NEW signer \in Signers, ExecuteSwap(s, signer)
  PROVE  LET maker == orders[s.makerOrderId]
             taker == orders[s.takerOrderId]
         IN /\ maker \in Order /\ taker \in Order
            /\ s.makerOrderId \in OrderIds /\ s.takerOrderId \in OrderIds
            /\ s.makerOrderId # s.takerOrderId
            /\ s.makerFillAmount \in Nat \ {0} /\ s.takerFillAmount \in Nat \ {0}
            /\ maker.active /\ maker.filledAmount + s.makerFillAmount <= maker.totalAmount
            /\ taker.active /\ taker.filledAmount + s.takerFillAmount <= taker.totalAmount
            /\ \A o \in OrderIds :
                 orders'[o] = IF o = s.makerOrderId THEN Filled(maker, s.makerFillAmount)
                              ELSE IF o = s.takerOrderId THEN Filled(taker, s.takerFillAmount)
                              ELSE orders[o]
<1>1. /\ s.makerOrderId \in OrderIds /\ s.takerOrderId \in OrderIds
      /\ s.makerOrderId # s.takerOrderId
      /\ s.makerFillAmount \in Nat \ {0} /\ s.takerFillAmount \in Nat \ {0}
  BY AmountAssumption DEF Swap
<1>2. /\ orders[s.makerOrderId].active
      /\ orders[s.makerOrderId].filledAmount + s.makerFillAmount <= orders[s.makerOrderId].totalAmount
      /\ orders[s.takerOrderId].active
      /\ orders[s.takerOrderId].filledAmount + s.takerFillAmount <= orders[s.takerOrderId].totalAmount
  BY DEF ExecuteSwap, SwapAllowed
<1>3. orders[s.makerOrderId] \in Order /\ orders[s.takerOrderId] \in Order
  BY <1>1, <1>2, Deposited DEF IInv, TypeOK
<1>4. \A o \in OrderIds :
        orders'[o] = IF o = s.makerOrderId THEN Filled(orders[s.makerOrderId], s.makerFillAmount)
                     ELSE IF o = s.takerOrderId THEN Filled(orders[s.takerOrderId], s.takerFillAmount)
                     ELSE orders[o]
  BY <1>1 DEF ExecuteSwap, IInv, TypeOK
<1> QED BY <1>1, <1>2, <1>3, <1>4

LEMMA NextKeepsHistory == IInv /\ [Next]_vars => [KeepsHistory]_vars
<1> SUFFICES ASSUME IInv, Next PROVE KeepsHistory
  OBVIOUS
<1>0. \A o \in OrderIds : /\ orders[o] \in Order \union {EmptyOrder}
                          /\ orders[o].filledAmount \in Nat
  BY DEF IInv, TypeOK, Order, EmptyOrder
<1>1. ASSUME NEW sender \in Traders, NEW orderId \in OrderIds, NEW token \in Tokens,
             NEW amount \in Amounts, Deposit(sender, orderId, token, amount)
      PROVE  KeepsHistory
  BY <1>0, <1>1 DEF Deposit, IsFree, KeepsHistory, IInv, TypeOK
<1>2. ASSUME NEW sender \in Traders, NEW orderId \in OrderIds, CancelOrder(sender, orderId)
      PROVE  KeepsHistory
  <2>1. ASSUME NEW o \in OrderIds
        PROVE  /\ orders'[o].trader = orders[o].trader
               /\ orders'[o].token = orders[o].token
               /\ orders'[o].totalAmount = orders[o].totalAmount
               /\ orders'[o].filledAmount = orders[o].filledAmount
               /\ ~orders[o].active => orders'[o] = orders[o]
    <3>1. CASE o = orderId
      <4>1. orders[o] \in Order /\ orders[o].active
        BY <1>2, <3>1, <1>0, Deposited DEF CancelOrder
      <4>2. orders'[o] = [orders[o] EXCEPT !.active = FALSE]
        BY <1>2, <3>1 DEF CancelOrder, IInv, TypeOK
      <4> QED BY <4>1, <4>2 DEF Order
    <3>2. CASE o # orderId
      BY <1>2, <3>2 DEF CancelOrder, IInv, TypeOK
    <3> QED BY <3>1, <3>2
  <2> QED BY <1>0, <1>2, <2>1 DEF CancelOrder, KeepsHistory
<1>3. ASSUME NEW s \in Swap, NEW signer \in Signers, ExecuteSwap(s, signer)
      PROVE  KeepsHistory
  <2> DEFINE maker == orders[s.makerOrderId]
             taker == orders[s.takerOrderId]
  <2>1. /\ Filled(maker, s.makerFillAmount).trader = maker.trader
        /\ Filled(maker, s.makerFillAmount).token = maker.token
        /\ Filled(maker, s.makerFillAmount).totalAmount = maker.totalAmount
        /\ Filled(maker, s.makerFillAmount).filledAmount >= maker.filledAmount
        /\ Filled(taker, s.takerFillAmount).trader = taker.trader
        /\ Filled(taker, s.takerFillAmount).token = taker.token
        /\ Filled(taker, s.takerFillAmount).totalAmount = taker.totalAmount
        /\ Filled(taker, s.takerFillAmount).filledAmount >= taker.filledAmount
    <3>1. /\ maker \in Order /\ s.makerFillAmount \in Nat
          /\ taker \in Order /\ s.takerFillAmount \in Nat
      BY <1>3, SwapEffect
    <3>2. maker.filledAmount \in Nat /\ taker.filledAmount \in Nat
      BY <3>1 DEF Order
    <3> HIDE DEF maker, taker
    <3>3. /\ Filled(maker, s.makerFillAmount).trader = maker.trader
          /\ Filled(maker, s.makerFillAmount).token = maker.token
          /\ Filled(maker, s.makerFillAmount).totalAmount = maker.totalAmount
          /\ Filled(maker, s.makerFillAmount).filledAmount = maker.filledAmount + s.makerFillAmount
      BY <3>1, FilledFields, Zenon
    <3>4. /\ Filled(taker, s.takerFillAmount).trader = taker.trader
          /\ Filled(taker, s.takerFillAmount).token = taker.token
          /\ Filled(taker, s.takerFillAmount).totalAmount = taker.totalAmount
          /\ Filled(taker, s.takerFillAmount).filledAmount = taker.filledAmount + s.takerFillAmount
      BY <3>1, FilledFields, Zenon
    <3> QED BY <3>1, <3>2, <3>3, <3>4
  <2>2. executedSwaps \subseteq executedSwaps'
    BY <1>3 DEF ExecuteSwap
  <2> QED BY <1>0, <1>3, <2>1, <2>2, SwapEffect DEF KeepsHistory
<1>4. ASSUME UNCHANGED <<orders, executedSwaps>>
      PROVE  KeepsHistory
  BY <1>0, <1>4 DEF KeepsHistory
<1> QED
  BY <1>1, <1>2, <1>3, <1>4 DEF Next, UpdateTEESignerAddress, SetFeeEnabled, WithdrawFees

\* The terms of a deposited order never change, its fills only grow, and a
\* closed order and an executed swap id are never opened again.
THEOREM HistoryKept == Spec => OrderHistory
BY Invariance, NextKeepsHistory, PTL DEF Spec, OrderHistory

(***************************************************************************)
(* The contract implements EscrowLedger.                                   *)
(***************************************************************************)

LEMMA InitImplements == Init => Ledger!LedgerInit
<1> SUFFICES ASSUME Init PROVE Ledger!LedgerInit
  OBVIOUS
<1>1. \A o \in OrderIds : orders[o].trader = ZeroAddress /\ getOrderRemaining(o) = 0
  BY DEF Init, EmptyOrder, getOrderRemaining
<1> QED BY <1>1 DEF Init, Ledger!LedgerInit, ledgerStatus, ledgerCustody

\* A deposit opens the order in the ledger.
LEMMA DepositOpens ==
  ASSUME IInv, NEW sender \in Traders, NEW orderId \in OrderIds, NEW token \in Tokens,
         NEW amount \in Amounts, Deposit(sender, orderId, token, amount)
  PROVE  Ledger!Open(orderId, amount)
<1>1. /\ orders[orderId].trader = ZeroAddress
      /\ orders' = [orders EXCEPT ![orderId] =
                      [trader |-> sender, token |-> token, totalAmount |-> amount,
                       filledAmount |-> 0, active |-> TRUE]]
      /\ sender # ZeroAddress
      /\ amount \in Nat
      /\ executedSwaps' = executedSwaps
  BY AddressAssumption, AmountAssumption DEF Deposit, IsFree, Accounts
<1>2. \A o \in OrderIds : o # orderId => orders'[o] = orders[o]
  BY <1>1 DEF IInv, TypeOK
<1>3. /\ orders'[orderId].trader # ZeroAddress /\ orders'[orderId].active
      /\ orders'[orderId].totalAmount = amount /\ orders'[orderId].filledAmount = 0
  BY <1>1 DEF IInv, TypeOK
<1>4. ledgerStatus[orderId] = "none"
  BY <1>1 DEF ledgerStatus
<1>5. ledgerStatus' = [ledgerStatus EXCEPT ![orderId] = "open"]
  BY <1>2, <1>3 DEF ledgerStatus
<1>6. ledgerCustody' = [ledgerCustody EXCEPT ![orderId] = amount]
  <2>1. getOrderRemaining(orderId)' = amount
    BY <1>1, <1>3 DEF getOrderRemaining
  <2>2. \A o \in OrderIds : o # orderId => getOrderRemaining(o)' = getOrderRemaining(o)
    BY <1>2 DEF getOrderRemaining
  <2> QED BY <2>1, <2>2 DEF ledgerCustody
<1> QED BY <1>1, <1>4, <1>5, <1>6 DEF Ledger!Open

\* A cancel closes it.
LEMMA CancelCloses ==
  ASSUME IInv, NEW sender \in Traders, NEW orderId \in OrderIds, CancelOrder(sender, orderId)
  PROVE  Ledger!Close(orderId)
<1>1. /\ orders[orderId].active
      /\ orders' = [orders EXCEPT ![orderId].active = FALSE]
      /\ executedSwaps' = executedSwaps
  BY DEF CancelOrder
<1>2. orders[orderId] \in Order
  BY <1>1, Deposited DEF IInv, TypeOK
<1>3. orders[orderId].trader # ZeroAddress
  BY <1>2, AddressAssumption DEF Order, Accounts
<1>4. \A o \in OrderIds : o # orderId => orders'[o] = orders[o]
  BY <1>1 DEF IInv, TypeOK
<1>5. orders'[orderId].trader = orders[orderId].trader /\ ~orders'[orderId].active
  <2>1. orders'[orderId] = [orders[orderId] EXCEPT !.active = FALSE]
    BY <1>1 DEF IInv, TypeOK
  <2> QED BY <1>2, <2>1, Zenon DEF Order
<1>6. ledgerStatus[orderId] = "open"
  BY <1>1, <1>3 DEF ledgerStatus
<1>7. ledgerStatus' = [ledgerStatus EXCEPT ![orderId] = "closed"]
  BY <1>3, <1>4, <1>5 DEF ledgerStatus
<1>8. ledgerCustody' = [ledgerCustody EXCEPT ![orderId] = 0]
  <2>1. getOrderRemaining(orderId)' = 0
    BY <1>5 DEF getOrderRemaining
  <2>2. \A o \in OrderIds : o # orderId => getOrderRemaining(o)' = getOrderRemaining(o)
    BY <1>4 DEF getOrderRemaining
  <2> QED BY <2>1, <2>2 DEF ledgerCustody
<1> QED BY <1>1, <1>6, <1>7, <1>8 DEF Ledger!Close

\* What a fill does to the ledger's view of an order.
LEMMA FillTakesCustody ==
  ASSUME NEW order \in Order, NEW fill \in Nat, order.active,
         order.filledAmount + fill <= order.totalAmount
  PROVE  LET filled == Filled(order, fill)
             rest == order.totalAmount - order.filledAmount - fill
         IN /\ filled.trader = order.trader
            /\ (IF filled.active THEN filled.totalAmount - filled.filledAmount ELSE 0) = rest
            /\ filled.active <=> rest # 0
<1> DEFINE sum == order.filledAmount + fill
           rest == order.totalAmount - order.filledAmount - fill
<1>1. /\ Filled(order, fill).trader = order.trader
      /\ Filled(order, fill).totalAmount = order.totalAmount
      /\ Filled(order, fill).filledAmount = sum
      /\ Filled(order, fill).active <=> sum # order.totalAmount
  BY FilledFields, Zenon
<1>2. order.totalAmount \in Nat /\ order.filledAmount \in Nat
  BY DEF Order
<1>3. sum # order.totalAmount <=> rest # 0
  BY <1>2
<1>4. order.totalAmount - sum = rest
  BY <1>2
<1>5. Filled(order, fill).active <=> rest # 0
  BY <1>1, <1>3, Zenon
<1>6. (IF Filled(order, fill).active THEN Filled(order, fill).totalAmount - Filled(order, fill).filledAmount
       ELSE 0) = rest
  <2>1. CASE Filled(order, fill).active
    BY <1>1, <1>4, <2>1
  <2>2. CASE ~Filled(order, fill).active
    <3>1. rest = 0
      BY <1>5, <2>2, Zenon
    <3> QED BY <2>2, <3>1
  <2> QED BY <2>1, <2>2
<1> QED BY <1>1, <1>5, <1>6

\* A swap exchanges custody of its two orders under its swap id.
LEMMA SwapExchanges ==
  ASSUME IInv, NEW s \in Swap, NEW signer \in Signers, ExecuteSwap(s, signer)
  PROVE  Ledger!Exchange(s.swapId, s.makerOrderId, s.takerOrderId,
                         s.makerFillAmount, s.takerFillAmount)
<1> DEFINE m == s.makerOrderId
           t == s.takerOrderId
           f == s.makerFillAmount
           g == s.takerFillAmount
<1>1. /\ orders[m] \in Order /\ orders[t] \in Order
      /\ m \in OrderIds /\ t \in OrderIds /\ m # t
      /\ f \in Nat \ {0} /\ g \in Nat \ {0}
      /\ orders[m].active /\ orders[m].filledAmount + f <= orders[m].totalAmount
      /\ orders[t].active /\ orders[t].filledAmount + g <= orders[t].totalAmount
      /\ orders'[m] = Filled(orders[m], f)
      /\ orders'[t] = Filled(orders[t], g)
      /\ \A o \in OrderIds : o # m /\ o # t => orders'[o] = orders[o]
  BY SwapEffect
<1>2. s.swapId \notin executedSwaps /\ executedSwaps' = executedSwaps \union {s.swapId}
  BY DEF ExecuteSwap, SwapAllowed
<1> HIDE DEF m, t, f, g
<1>3. /\ orders[m].trader # ZeroAddress /\ orders[t].trader # ZeroAddress
      /\ orders[m].totalAmount \in Nat /\ orders[m].filledAmount \in Nat
      /\ orders[t].totalAmount \in Nat /\ orders[t].filledAmount \in Nat
  BY <1>1, AddressAssumption DEF Order, Accounts
<1>4. /\ ledgerStatus[m] = "open" /\ ledgerStatus[t] = "open"
      /\ ledgerCustody[m] = orders[m].totalAmount - orders[m].filledAmount
      /\ ledgerCustody[t] = orders[t].totalAmount - orders[t].filledAmount
  BY <1>1, <1>3 DEF ledgerStatus, ledgerCustody, getOrderRemaining
<1>5. f <= ledgerCustody[m] /\ g <= ledgerCustody[t]
  BY <1>1, <1>3, <1>4
<1>6. /\ orders'[m].trader = orders[m].trader
      /\ getOrderRemaining(m)' = ledgerCustody[m] - f
      /\ orders'[m].active <=> ledgerCustody[m] - f # 0
  <2>1. /\ Filled(orders[m], f).trader = orders[m].trader
        /\ (IF Filled(orders[m], f).active
            THEN Filled(orders[m], f).totalAmount - Filled(orders[m], f).filledAmount ELSE 0)
           = orders[m].totalAmount - orders[m].filledAmount - f
        /\ Filled(orders[m], f).active <=> orders[m].totalAmount - orders[m].filledAmount - f # 0
    BY <1>1, FillTakesCustody, Zenon
  <2> QED BY <1>1, <1>4, <2>1, Zenon DEF getOrderRemaining
<1>7. /\ orders'[t].trader = orders[t].trader
      /\ getOrderRemaining(t)' = ledgerCustody[t] - g
      /\ orders'[t].active <=> ledgerCustody[t] - g # 0
  <2>1. /\ Filled(orders[t], g).trader = orders[t].trader
        /\ (IF Filled(orders[t], g).active
            THEN Filled(orders[t], g).totalAmount - Filled(orders[t], g).filledAmount ELSE 0)
           = orders[t].totalAmount - orders[t].filledAmount - g
        /\ Filled(orders[t], g).active <=> orders[t].totalAmount - orders[t].filledAmount - g # 0
    BY <1>1, FillTakesCustody, Zenon
  <2> QED BY <1>1, <1>4, <2>1, Zenon DEF getOrderRemaining
<1>8. ledgerCustody' = [ledgerCustody EXCEPT ![m] = @ - f, ![t] = @ - g]
  <2>1. \A o \in OrderIds : o # m /\ o # t => getOrderRemaining(o)' = getOrderRemaining(o)
    BY <1>1 DEF getOrderRemaining
  <2>2. ledgerCustody' = [o \in OrderIds |-> getOrderRemaining(o)']
    BY DEF ledgerCustody
  <2>3. ledgerCustody = [o \in OrderIds |-> getOrderRemaining(o)]
    BY DEF ledgerCustody
  <2> QED BY <1>1, <1>6, <1>7, <2>1, <2>2, <2>3
<1>9. ledgerStatus' = [o \in OrderIds |-> IF o \in {m, t} /\ ledgerCustody'[o] = 0
                                          THEN "closed" ELSE ledgerStatus[o]]
  <2>1. ledgerStatus' = [o \in OrderIds |-> ledgerStatus'[o]]
    BY DEF ledgerStatus
  <2>2. ledgerStatus'[m] = IF ledgerCustody'[m] = 0 THEN "closed" ELSE ledgerStatus[m]
    BY <1>1, <1>3, <1>4, <1>6 DEF ledgerStatus, ledgerCustody
  <2>3. ledgerStatus'[t] = IF ledgerCustody'[t] = 0 THEN "closed" ELSE ledgerStatus[t]
    BY <1>1, <1>3, <1>4, <1>7 DEF ledgerStatus, ledgerCustody
  <2>4. \A o \in OrderIds : o # m /\ o # t => ledgerStatus'[o] = ledgerStatus[o]
    BY <1>1 DEF ledgerStatus
  <2> QED BY <2>1, <2>2, <2>3, <2>4
<1> QED BY <1>2, <1>4, <1>5, <1>8, <1>9 DEF Ledger!Exchange, m, t, f, g

LEMMA NextImplements == IInv /\ [Next]_vars => [Ledger!LedgerNext]_(Ledger!ledgerVars)
<1> SUFFICES ASSUME IInv, [Next]_vars PROVE [Ledger!LedgerNext]_(Ledger!ledgerVars)
  OBVIOUS
<1>1. ASSUME NEW sender \in Traders, NEW orderId \in OrderIds, NEW token \in Tokens,
             NEW amount \in Amounts, Deposit(sender, orderId, token, amount)
      PROVE  Ledger!LedgerNext
  BY <1>1, DepositOpens DEF Ledger!LedgerNext
<1>2. ASSUME NEW sender \in Traders, NEW orderId \in OrderIds, CancelOrder(sender, orderId)
      PROVE  Ledger!LedgerNext
  BY <1>2, CancelCloses DEF Ledger!LedgerNext
<1>3. ASSUME NEW s \in Swap, NEW signer \in Signers, ExecuteSwap(s, signer)
      PROVE  Ledger!LedgerNext
  <2>1. /\ s.swapId \in SwapIds
        /\ s.makerOrderId \in OrderIds /\ s.takerOrderId \in OrderIds
        /\ s.makerOrderId # s.takerOrderId
        /\ s.makerFillAmount \in Amounts /\ s.takerFillAmount \in Amounts
    BY DEF Swap
  <2> QED BY <1>3, <2>1, SwapExchanges DEF Ledger!LedgerNext
<1>4. ASSUME UNCHANGED <<orders, executedSwaps>>
      PROVE  UNCHANGED Ledger!ledgerVars
  BY <1>4 DEF Ledger!ledgerVars, ledgerStatus, ledgerCustody, getOrderRemaining
<1> QED
  BY <1>1, <1>2, <1>3, <1>4
  DEF Next, UpdateTEESignerAddress, SetFeeEnabled, WithdrawFees, vars, contractVars

\* Every behaviour of the contract is a behaviour of the ledger it promises:
\* custody is created once per order, leaves by an exchange under a fresh swap
\* id or by a refund of all that is left, and a closed order stays closed.
THEOREM Implementation == Spec => ImplementsLedger
BY InitImplements, Invariance, NextImplements, PTL DEF Spec, ImplementsLedger, Ledger!LedgerSpec

(***************************************************************************)
(* The accounts.  What one action does to the balances, the fees and the   *)
(* fields of the orders.                                                   *)
(***************************************************************************)

When(condition, n) == IF condition THEN n ELSE 0

LEMMA TransferMoves ==
  ASSUME NEW ledger \in Balances, NEW token \in Tokens, NEW from \in Accounts,
         NEW to \in Accounts, from # to, NEW amount \in Nat
  PROVE  \A t \in Tokens, a \in Accounts :
           Transfer(ledger, token, from, to, amount)[t][a]
             = ledger[t][a] - When(t = token /\ a = from, amount) + When(t = token /\ a = to, amount)
<1> DEFINE moved == Transfer(ledger, token, from, to, amount)
<1>1. \A t \in Tokens, a \in Accounts : ledger[t][a] \in Nat
  BY DEF Balances
<1>2. ASSUME NEW t \in Tokens, NEW a \in Accounts
      PROVE  moved[t][a] = IF t # token THEN ledger[t][a]
                           ELSE IF a = from THEN ledger[t][a] - amount
                           ELSE IF a = to THEN ledger[t][a] + amount ELSE ledger[t][a]
  BY DEF Transfer, Balances
<1>3. ASSUME NEW t \in Tokens, NEW a \in Accounts
      PROVE  moved[t][a] = ledger[t][a] - When(t = token /\ a = from, amount)
                             + When(t = token /\ a = to, amount)
  <2> HIDE DEF moved
  <2> QED BY <1>1, <1>2 DEF When
<1> QED BY <1>3

\* A deposit fills an empty order struct.
LEMMA DepositEffect ==
  ASSUME IInv, NEW sender \in Traders, NEW orderId \in OrderIds, NEW token \in Tokens,
         NEW amount \in Amounts, Deposit(sender, orderId, token, amount)
  PROVE  /\ amount \in Nat
         /\ orders[orderId] = EmptyOrder
         /\ orders'[orderId].trader = sender /\ orders'[orderId].token = token
         /\ orders'[orderId].totalAmount = amount /\ orders'[orderId].filledAmount = 0
         /\ orders'[orderId].active
         /\ \A o \in OrderIds : o # orderId => orders'[o] = orders[o]
         /\ \A t \in Tokens, a \in Accounts :
              balance'[t][a] = balance[t][a] - When(t = token /\ a = sender, amount)
                                             + When(t = token /\ a = Escrow, amount)
<1>1. amount \in Nat
  BY AmountAssumption
<1>2. orders[orderId] = EmptyOrder
  BY AddressAssumption DEF Deposit, IsFree, IInv, TypeOK, Order, Accounts
<1>3. orders' = [orders EXCEPT ![orderId] =
                   [trader |-> sender, token |-> token, totalAmount |-> amount,
                    filledAmount |-> 0, active |-> TRUE]]
  BY DEF Deposit
<1>4. /\ orders'[orderId].trader = sender /\ orders'[orderId].token = token
      /\ orders'[orderId].totalAmount = amount /\ orders'[orderId].filledAmount = 0
      /\ orders'[orderId].active
      /\ \A o \in OrderIds : o # orderId => orders'[o] = orders[o]
  BY <1>3 DEF IInv, TypeOK
<1>5. /\ sender \in Accounts /\ Escrow \in Accounts /\ sender # Escrow
      /\ balance \in Balances
  BY AddressAssumption DEF Accounts, IInv, TypeOK, Balances
<1>6. balance' = Transfer(balance, token, sender, Escrow, amount)
  BY DEF Deposit
<1> QED BY <1>1, <1>2, <1>4, <1>5, <1>6, TransferMoves

\* A cancel refunds the rest of an open order to its trader.
LEMMA CancelEffect ==
  ASSUME IInv, NEW sender \in Traders, NEW orderId \in OrderIds, CancelOrder(sender, orderId)
  PROVE  LET o == orders[orderId]
         IN /\ o \in Order /\ o.active /\ o.trader = sender
            /\ Refund(o) \in Nat
            /\ orders'[orderId].trader = o.trader /\ orders'[orderId].token = o.token
            /\ orders'[orderId].totalAmount = o.totalAmount
            /\ orders'[orderId].filledAmount = o.filledAmount
            /\ ~orders'[orderId].active
            /\ \A p \in OrderIds : p # orderId => orders'[p] = orders[p]
            /\ \A t \in Tokens, a \in Accounts :
                 balance'[t][a] = balance[t][a] - When(t = o.token /\ a = Escrow, Refund(o))
                                                + When(t = o.token /\ a = sender, Refund(o))
<1> DEFINE o == orders[orderId]
<1>1. o \in Order /\ o.active /\ o.trader = sender
  BY Deposited DEF CancelOrder, IInv, TypeOK
<1>2. Refund(o) \in Nat
  <2>1. o.filledAmount <= o.totalAmount /\ o.filledAmount \in Nat /\ o.totalAmount \in Nat
    BY <1>1 DEF IInv, OrderWithinTotal, Order
  <2> QED BY <2>1 DEF Refund
<1>3. orders'[orderId] = [o EXCEPT !.active = FALSE] /\ \A p \in OrderIds : p # orderId => orders'[p] = orders[p]
  BY DEF CancelOrder, IInv, TypeOK
<1>4. /\ orders'[orderId].trader = o.trader /\ orders'[orderId].token = o.token
      /\ orders'[orderId].totalAmount = o.totalAmount
      /\ orders'[orderId].filledAmount = o.filledAmount
      /\ ~orders'[orderId].active
  <2> HIDE DEF o
  <2> QED BY <1>1, <1>3 DEF Order
<1>5. /\ sender \in Accounts /\ Escrow \in Accounts /\ sender # Escrow
      /\ o.token \in Tokens /\ balance \in Balances
  BY <1>1, AddressAssumption DEF Accounts, IInv, TypeOK, Balances, Order
<1>6. balance' = Transfer(balance, o.token, Escrow, sender, Refund(o))
  BY DEF CancelOrder
<1>7. \A t \in Tokens, a \in Accounts :
        balance'[t][a] = balance[t][a] - When(t = o.token /\ a = Escrow, Refund(o))
                                       + When(t = o.token /\ a = sender, Refund(o))
  <2> HIDE DEF o
  <2> QED BY <1>2, <1>5, <1>6, TransferMoves
<1> QED BY <1>1, <1>2, <1>3, <1>4, <1>7

\* The fields of the two orders of a swap.
LEMMA SwapFields ==
  ASSUME IInv, NEW s \in Swap, NEW signer \in Signers, ExecuteSwap(s, signer)
  PROVE  /\ \A o \in {s.makerOrderId, s.takerOrderId} :
              /\ orders[o] \in Order /\ orders[o].active
              /\ orders'[o].trader = orders[o].trader
              /\ orders'[o].token = orders[o].token
              /\ orders'[o].totalAmount = orders[o].totalAmount
         /\ orders'[s.makerOrderId].filledAmount = orders[s.makerOrderId].filledAmount + s.makerFillAmount
         /\ orders'[s.takerOrderId].filledAmount = orders[s.takerOrderId].filledAmount + s.takerFillAmount
         /\ \A o \in {s.makerOrderId, s.takerOrderId} :
              orders'[o].active <=> orders'[o].filledAmount # orders'[o].totalAmount
         /\ \A o \in OrderIds \ {s.makerOrderId, s.takerOrderId} : orders'[o] = orders[o]
<1> DEFINE m == s.makerOrderId
           t == s.takerOrderId
           f == s.makerFillAmount
           g == s.takerFillAmount
<1>1. /\ orders[m] \in Order /\ orders[t] \in Order
      /\ m \in OrderIds /\ t \in OrderIds /\ m # t
      /\ f \in Nat /\ g \in Nat
      /\ orders[m].active /\ orders[t].active
      /\ orders'[m] = Filled(orders[m], f)
      /\ orders'[t] = Filled(orders[t], g)
      /\ \A o \in OrderIds : o # m /\ o # t => orders'[o] = orders[o]
  BY SwapEffect
<1> HIDE DEF m, t, f, g
<1>2. /\ orders'[m].trader = orders[m].trader
      /\ orders'[m].token = orders[m].token
      /\ orders'[m].totalAmount = orders[m].totalAmount
      /\ orders'[m].filledAmount = orders[m].filledAmount + f
      /\ orders'[m].active <=> orders[m].filledAmount + f # orders[m].totalAmount
  <2>1. /\ Filled(orders[m], f).trader = orders[m].trader
        /\ Filled(orders[m], f).token = orders[m].token
        /\ Filled(orders[m], f).totalAmount = orders[m].totalAmount
        /\ Filled(orders[m], f).filledAmount = orders[m].filledAmount + f
        /\ Filled(orders[m], f).active <=> orders[m].filledAmount + f # orders[m].totalAmount
    BY <1>1, FilledFields, Zenon
  <2> QED BY <1>1, <2>1, Zenon
<1>3. /\ orders'[t].trader = orders[t].trader
      /\ orders'[t].token = orders[t].token
      /\ orders'[t].totalAmount = orders[t].totalAmount
      /\ orders'[t].filledAmount = orders[t].filledAmount + g
      /\ orders'[t].active <=> orders[t].filledAmount + g # orders[t].totalAmount
  <2>1. /\ Filled(orders[t], g).trader = orders[t].trader
        /\ Filled(orders[t], g).token = orders[t].token
        /\ Filled(orders[t], g).totalAmount = orders[t].totalAmount
        /\ Filled(orders[t], g).filledAmount = orders[t].filledAmount + g
        /\ Filled(orders[t], g).active <=> orders[t].filledAmount + g # orders[t].totalAmount
    BY <1>1, FilledFields, Zenon
  <2> QED BY <1>1, <2>1, Zenon
<1>4. /\ orders'[m].active <=> orders'[m].filledAmount # orders'[m].totalAmount
      /\ orders'[t].active <=> orders'[t].filledAmount # orders'[t].totalAmount
  BY <1>2, <1>3, Zenon
<1> QED BY <1>1, <1>2, <1>3, <1>4, Zenon DEF m, t, f, g

\* The fees and payments of a swap.
LEMMA SwapMoves ==
  ASSUME IInv, NEW s \in Swap, NEW signer \in Signers, ExecuteSwap(s, signer)
  PROVE  LET maker == orders[s.makerOrderId]
             taker == orders[s.takerOrderId]
             makerFee == Fee(s.makerFillAmount, feeEnabled)
             takerFee == Fee(s.takerFillAmount, feeEnabled)
             makerNet == s.makerFillAmount - makerFee
             takerNet == s.takerFillAmount - takerFee
         IN /\ maker.token \in Tokens /\ maker.trader \in Traders
            /\ taker.token \in Tokens /\ taker.trader \in Traders
            /\ makerFee \in Nat /\ makerNet \in Nat /\ takerFee \in Nat /\ takerNet \in Nat
            /\ \A t \in Tokens, a \in Accounts :
                 balance'[t][a] = balance[t][a] - When(t = maker.token /\ a = Escrow, makerNet)
                                                + When(t = maker.token /\ a = taker.trader, makerNet)
                                                - When(t = taker.token /\ a = Escrow, takerNet)
                                                + When(t = taker.token /\ a = maker.trader, takerNet)
            /\ \A t \in Tokens :
                 collectedFees'[t] = collectedFees[t] + When(t = maker.token, makerFee)
                                                      + When(t = taker.token, takerFee)
<1> DEFINE maker == orders[s.makerOrderId]
           taker == orders[s.takerOrderId]
           makerFee == Fee(s.makerFillAmount, feeEnabled)
           takerFee == Fee(s.takerFillAmount, feeEnabled)
           makerNet == s.makerFillAmount - makerFee
           takerNet == s.takerFillAmount - takerFee
           halfway == Transfer(balance, maker.token, Escrow, taker.trader, makerNet)
<1>1. maker \in Order /\ taker \in Order /\ s.makerFillAmount \in Nat /\ s.takerFillAmount \in Nat
  BY SwapEffect
<1>2. /\ maker.token \in Tokens /\ maker.trader \in Traders
      /\ taker.token \in Tokens /\ taker.trader \in Traders
  BY <1>1 DEF Order
<1>3. /\ maker.trader \in Accounts /\ taker.trader \in Accounts /\ Escrow \in Accounts
      /\ maker.trader # Escrow /\ taker.trader # Escrow
  BY <1>2, AddressAssumption DEF Accounts
<1>4. makerFee \in Nat /\ makerNet \in Nat /\ takerFee \in Nat /\ takerNet \in Nat
  BY <1>1, FeeWithinFill DEF IInv, TypeOK
<1>5. /\ CanTransfer(balance, maker.token, Escrow, makerNet)
      /\ balance' = Transfer(halfway, taker.token, Escrow, maker.trader, takerNet)
      /\ collectedFees' = AddFees(maker, makerFee, taker, takerFee)
  BY DEF ExecuteSwap
<1>6. balance \in Balances /\ collectedFees \in [Tokens -> Nat]
  BY DEF IInv, TypeOK, Balances
<1> HIDE DEF maker, taker, makerFee, takerFee, makerNet, takerNet
<1>7. halfway \in Balances
  BY <1>2, <1>3, <1>4, <1>5, <1>6, TransferType
<1>8. \A t \in Tokens, a \in Accounts :
        halfway[t][a] = balance[t][a] - When(t = maker.token /\ a = Escrow, makerNet)
                                      + When(t = maker.token /\ a = taker.trader, makerNet)
  BY <1>2, <1>3, <1>4, <1>6, TransferMoves
<1>9. \A t \in Tokens, a \in Accounts :
        balance'[t][a] = halfway[t][a] - When(t = taker.token /\ a = Escrow, takerNet)
                                       + When(t = taker.token /\ a = maker.trader, takerNet)
  <2> HIDE DEF halfway
  <2> QED BY <1>2, <1>3, <1>4, <1>5, <1>7, TransferMoves
<1>10. \A t \in Tokens, a \in Accounts :
         balance'[t][a] = balance[t][a] - When(t = maker.token /\ a = Escrow, makerNet)
                                        + When(t = maker.token /\ a = taker.trader, makerNet)
                                        - When(t = taker.token /\ a = Escrow, takerNet)
                                        + When(t = taker.token /\ a = maker.trader, takerNet)
  <2> HIDE DEF halfway
  <2>1. ASSUME NEW t \in Tokens, NEW a \in Accounts
        PROVE  balance[t][a] \in Nat /\ halfway[t][a] \in Nat
    BY <1>6, <1>7 DEF Balances
  <2>2. \A c : When(c, makerNet) \in Nat /\ When(c, takerNet) \in Nat
    BY <1>4 DEF When
  <2> QED BY <1>8, <1>9, <2>1, <2>2
<1>11. \A t \in Tokens :
         collectedFees'[t] = collectedFees[t] + When(t = maker.token, makerFee)
                                              + When(t = taker.token, takerFee)
  BY <1>2, <1>4, <1>5, <1>6 DEF AddFees, When
<1> QED BY <1>2, <1>4, <1>10, <1>11, Zenon DEF maker, taker, makerFee, takerFee, makerNet, takerNet

(***************************************************************************)
(* The sums over the orders.                                               *)
(***************************************************************************)

restIn(t) == [o \in OrderIds |-> When(orders[o].token = t, getOrderRemaining(o))]

spentIn(a, t) == [o \in OrderIds |-> When(orders[o].trader = a /\ orders[o].token = t, Spent(o))]

LEMMA OrderSums ==
  /\ \A t : Owed(t) = SumFunctionOnSet(restIn(t), OrderIds)
  /\ \A a, t : SpentBy(a, t) = SumFunctionOnSet(spentIn(a, t), OrderIds)
  /\ \A t : Owed(t)' = SumFunctionOnSet(restIn(t)', OrderIds)
  /\ \A a, t : SpentBy(a, t)' = SumFunctionOnSet(spentIn(a, t)', OrderIds)
<1>1. \A t : DOMAIN restIn(t) = OrderIds /\ DOMAIN restIn(t)' = OrderIds
  BY DEF restIn
<1>2. \A a, t : DOMAIN spentIn(a, t) = OrderIds /\ DOMAIN spentIn(a, t)' = OrderIds
  BY DEF spentIn
<1>3. /\ \A t : Owed(t) = SumFunction(restIn(t))
      /\ \A t : Owed(t)' = SumFunction(restIn(t)')
  BY Zenon DEF Owed, restIn, When
<1>4. /\ \A a, t : SpentBy(a, t) = SumFunction(spentIn(a, t))
      /\ \A a, t : SpentBy(a, t)' = SumFunction(spentIn(a, t)')
  BY Zenon DEF SpentBy, spentIn, When
<1> QED BY <1>1, <1>2, <1>3, <1>4, SumOver

OrderTermsNat ==
  /\ \A o \in OrderIds : getOrderRemaining(o) \in Nat /\ Spent(o) \in Nat
  /\ \A t : IntOn(restIn(t), OrderIds)
  /\ \A a, t : IntOn(spentIn(a, t), OrderIds)

LEMMA TermsNat == IInv => OrderTermsNat
<1> SUFFICES ASSUME IInv PROVE OrderTermsNat
  OBVIOUS
<1>1. \A o \in OrderIds : /\ orders[o].totalAmount \in Nat /\ orders[o].filledAmount \in Nat
                          /\ orders[o].filledAmount <= orders[o].totalAmount
  BY DEF IInv, TypeOK, OrderWithinTotal, Order, EmptyOrder
<1>2. \A o \in OrderIds : getOrderRemaining(o) \in Nat /\ Spent(o) \in Nat
  BY <1>1 DEF getOrderRemaining, Spent
<1> QED BY <1>2 DEF OrderTermsNat, IntOn, restIn, spentIn, When

\* The sums when at most two orders change.
LEMMA TwoOrdersChange ==
  ASSUME IInv, IInv', NEW m \in OrderIds, NEW n \in OrderIds, m # n,
         \A o \in OrderIds \ {m, n} : orders'[o] = orders[o]
  PROVE  /\ \A t : Owed(t)' =
              Owed(t) - restIn(t)[m] + restIn(t)'[m] - restIn(t)[n] + restIn(t)'[n]
         /\ \A a, t : SpentBy(a, t)' =
              SpentBy(a, t) - spentIn(a, t)[m] + spentIn(a, t)'[m]
                            - spentIn(a, t)[n] + spentIn(a, t)'[n]
<1>1. OrderTermsNat /\ OrderTermsNat'
  BY TermsNat, PTL
<1>2. \A o \in OrderIds \ {m, n} : /\ getOrderRemaining(o)' = getOrderRemaining(o)
                                  /\ Spent(o)' = Spent(o)
  BY DEF getOrderRemaining, Spent
<1>3. ASSUME NEW t
      PROVE  Owed(t)' = Owed(t) - restIn(t)[m] + restIn(t)'[m] - restIn(t)[n] + restIn(t)'[n]
  <2>1. PICK F, H : F = restIn(t) /\ H = restIn(t)'
    OBVIOUS
  <2>2. IntOn(F, OrderIds) /\ IntOn(H, OrderIds)
    BY <1>1, <2>1 DEF OrderTermsNat
  <2>3. \A o \in OrderIds \ {m, n} : H[o] = F[o]
    BY <1>2, <2>1 DEF restIn
  <2>4. H[m] \in Int /\ H[n] \in Int
    BY <2>2 DEF IntOn
  <2>5. SumFunctionOnSet(H, OrderIds) = SumFunctionOnSet(F, OrderIds) - F[m] + H[m] - F[n] + H[n]
    BY <2>2, <2>3, <2>4, OrderIdAssumption, SumChangeTwo
  <2> QED BY <2>1, <2>5, OrderSums, Zenon
<1>4. ASSUME NEW a, NEW t
      PROVE  SpentBy(a, t)' = SpentBy(a, t) - spentIn(a, t)[m] + spentIn(a, t)'[m]
                                            - spentIn(a, t)[n] + spentIn(a, t)'[n]
  <2>1. PICK F, H : F = spentIn(a, t) /\ H = spentIn(a, t)'
    OBVIOUS
  <2>2. IntOn(F, OrderIds) /\ IntOn(H, OrderIds)
    BY <1>1, <2>1 DEF OrderTermsNat
  <2>3. \A o \in OrderIds \ {m, n} : H[o] = F[o]
    BY <1>2, <2>1 DEF spentIn
  <2>4. H[m] \in Int /\ H[n] \in Int
    BY <2>2 DEF IntOn
  <2>5. SumFunctionOnSet(H, OrderIds) = SumFunctionOnSet(F, OrderIds) - F[m] + H[m] - F[n] + H[n]
    BY <2>2, <2>3, <2>4, OrderIdAssumption, SumChangeTwo
  <2> QED BY <2>1, <2>5, OrderSums, Zenon
<1> QED BY <1>3, <1>4

\* The sums when one order changes.
LEMMA OneOrderChanges ==
  ASSUME IInv, IInv', NEW id \in OrderIds, \A o \in OrderIds \ {id} : orders'[o] = orders[o]
  PROVE  /\ \A t : Owed(t)' = Owed(t) - restIn(t)[id] + restIn(t)'[id]
         /\ \A a, t : SpentBy(a, t)' = SpentBy(a, t) - spentIn(a, t)[id] + spentIn(a, t)'[id]
<1>1. OrderTermsNat /\ OrderTermsNat'
  BY TermsNat, PTL
<1>2. \A o \in OrderIds \ {id} : /\ getOrderRemaining(o)' = getOrderRemaining(o)
                                /\ Spent(o)' = Spent(o)
  BY DEF getOrderRemaining, Spent
<1>3. ASSUME NEW t
      PROVE  Owed(t)' = Owed(t) - restIn(t)[id] + restIn(t)'[id]
  <2>1. PICK F, H : F = restIn(t) /\ H = restIn(t)'
    OBVIOUS
  <2>2. IntOn(F, OrderIds) /\ IntOn(H, OrderIds)
    BY <1>1, <2>1 DEF OrderTermsNat
  <2>3. \A o \in OrderIds \ {id} : H[o] = F[o]
    BY <1>2, <2>1 DEF restIn
  <2>4. H[id] \in Int
    BY <2>2 DEF IntOn
  <2>5. SumFunctionOnSet(H, OrderIds) = SumFunctionOnSet(F, OrderIds) - F[id] + H[id]
    BY <2>2, <2>3, <2>4, OrderIdAssumption, SumChange
  <2> QED BY <2>1, <2>5, OrderSums, Zenon
<1>4. ASSUME NEW a, NEW t
      PROVE  SpentBy(a, t)' = SpentBy(a, t) - spentIn(a, t)[id] + spentIn(a, t)'[id]
  <2>1. PICK F, H : F = spentIn(a, t) /\ H = spentIn(a, t)'
    OBVIOUS
  <2>2. IntOn(F, OrderIds) /\ IntOn(H, OrderIds)
    BY <1>1, <2>1 DEF OrderTermsNat
  <2>3. \A o \in OrderIds \ {id} : H[o] = F[o]
    BY <1>2, <2>1 DEF spentIn
  <2>4. H[id] \in Int
    BY <2>2 DEF IntOn
  <2>5. SumFunctionOnSet(H, OrderIds) = SumFunctionOnSet(F, OrderIds) - F[id] + H[id]
    BY <2>2, <2>3, <2>4, OrderIdAssumption, SumChange
  <2> QED BY <2>1, <2>5, OrderSums, Zenon
<1> QED BY <1>3, <1>4

\* Both sums are natural numbers.
LEMMA SumsNat ==
  ASSUME IInv
  PROVE  \A t : Owed(t) \in Nat /\ \A a : SpentBy(a, t) \in Nat
<1>1. OrderTermsNat
  BY TermsNat
<1>2. \A t : \A o \in OrderIds : restIn(t)[o] \in Nat /\ \A a : spentIn(a, t)[o] \in Nat
  BY <1>1 DEF OrderTermsNat, restIn, spentIn, When
<1>3. ASSUME NEW t PROVE SumFunctionOnSet(restIn(t), OrderIds) \in Nat
  BY <1>2, OrderIdAssumption, SumNat
<1>4. ASSUME NEW a, NEW t PROVE SumFunctionOnSet(spentIn(a, t), OrderIds) \in Nat
  BY <1>2, OrderIdAssumption, SumNat
<1> QED BY <1>3, <1>4, OrderSums

\* A fill takes its amount out of the rest of the order, which stays spent.
LEMMA FillMoves ==
  ASSUME NEW order \in Order, NEW fill \in Nat, order.active,
         order.filledAmount + fill <= order.totalAmount,
         NEW after, after.totalAmount = order.totalAmount,
         after.filledAmount = order.filledAmount + fill,
         after.active <=> after.filledAmount # after.totalAmount
  PROVE  \E a \in Nat :
           /\ order.totalAmount - order.filledAmount = a
           /\ (IF after.active THEN after.totalAmount - after.filledAmount ELSE 0) = a - fill
           /\ (IF after.active THEN after.totalAmount ELSE after.filledAmount) = order.totalAmount
<1>1. PICK n \in Nat, k \in Nat : n = order.totalAmount /\ k = order.filledAmount
  BY DEF Order
<1>2. n - k \in Nat /\ after.totalAmount = n /\ after.filledAmount = k + fill /\ k + fill <= n
  BY <1>1
<1>3. after.active <=> k + fill # n
  BY <1>2, Zenon
<1>4. (IF after.active THEN n - (k + fill) ELSE 0) = (n - k) - fill
  BY <1>2, <1>3
<1>5. (IF after.active THEN n ELSE k + fill) = n
  BY <1>2, <1>3
<1> QED BY <1>1, <1>2, <1>4, <1>5

LEMMA SwapTerms ==
  ASSUME IInv, NEW s \in Swap, NEW signer \in Signers, ExecuteSwap(s, signer)
  PROVE  /\ \E a \in Nat : /\ getOrderRemaining(s.makerOrderId) = a
                          /\ getOrderRemaining(s.makerOrderId)' = a - s.makerFillAmount
                          /\ Spent(s.makerOrderId)' = Spent(s.makerOrderId)
         /\ \E a \in Nat : /\ getOrderRemaining(s.takerOrderId) = a
                          /\ getOrderRemaining(s.takerOrderId)' = a - s.takerFillAmount
                          /\ Spent(s.takerOrderId)' = Spent(s.takerOrderId)
<1> DEFINE m == s.makerOrderId
           t == s.takerOrderId
           f == s.makerFillAmount
           g == s.takerFillAmount
<1>1. /\ orders[m] \in Order /\ f \in Nat /\ orders[m].active
      /\ orders[m].filledAmount + f <= orders[m].totalAmount
      /\ orders'[m].totalAmount = orders[m].totalAmount
      /\ orders'[m].filledAmount = orders[m].filledAmount + f
      /\ orders'[m].active <=> orders'[m].filledAmount # orders'[m].totalAmount
  BY SwapEffect, SwapFields
<1>2. /\ orders[t] \in Order /\ g \in Nat /\ orders[t].active
      /\ orders[t].filledAmount + g <= orders[t].totalAmount
      /\ orders'[t].totalAmount = orders[t].totalAmount
      /\ orders'[t].filledAmount = orders[t].filledAmount + g
      /\ orders'[t].active <=> orders'[t].filledAmount # orders'[t].totalAmount
  BY SwapEffect, SwapFields
<1> HIDE DEF m, t, f, g
<1>3. PICK a \in Nat :
        /\ orders[m].totalAmount - orders[m].filledAmount = a
        /\ (IF orders'[m].active THEN orders'[m].totalAmount - orders'[m].filledAmount ELSE 0) = a - f
        /\ (IF orders'[m].active THEN orders'[m].totalAmount ELSE orders'[m].filledAmount)
             = orders[m].totalAmount
  <2>1. PICK after : after = orders'[m] OBVIOUS
  <2> QED BY <1>1, <2>1, FillMoves
<1>4. PICK b \in Nat :
        /\ orders[t].totalAmount - orders[t].filledAmount = b
        /\ (IF orders'[t].active THEN orders'[t].totalAmount - orders'[t].filledAmount ELSE 0) = b - g
        /\ (IF orders'[t].active THEN orders'[t].totalAmount ELSE orders'[t].filledAmount)
             = orders[t].totalAmount
  <2>1. PICK after : after = orders'[t] OBVIOUS
  <2> QED BY <1>2, <2>1, FillMoves
<1>5. /\ getOrderRemaining(m) = a /\ getOrderRemaining(m)' = a - f /\ Spent(m)' = Spent(m)
      /\ getOrderRemaining(t) = b /\ getOrderRemaining(t)' = b - g /\ Spent(t)' = Spent(t)
  BY <1>1, <1>2, <1>3, <1>4 DEF getOrderRemaining, Spent
<1> QED BY <1>5 DEF m, t, f, g

(***************************************************************************)
(* The escrow holds what it owes.                                          *)
(***************************************************************************)

LEMMA NextSolvency ==
  ASSUME IInv, IInv', Solvency, [Next]_vars
  PROVE  Solvency'
<1>0. \A t \in Tokens : /\ Owed(t) \in Nat /\ collectedFees[t] \in Nat
                        /\ balance[t][Escrow] \in Nat /\ Escrow \in Accounts
                        /\ balance[t][Escrow] = Owed(t) + collectedFees[t]
  BY SumsNat DEF IInv, TypeOK, Accounts, Solvency
<1>1. ASSUME NEW sender \in Traders, NEW orderId \in OrderIds, NEW token \in Tokens,
             NEW amount \in Amounts, Deposit(sender, orderId, token, amount)
      PROVE  Solvency'
  <2>1. ASSUME NEW t \in Tokens
        PROVE  balance'[t][Escrow] = Owed(t)' + collectedFees'[t]
    <3>1. /\ amount \in Nat /\ sender # Escrow
          /\ balance'[t][Escrow] = balance[t][Escrow] - When(t = token /\ Escrow = sender, amount)
                                                     + When(t = token /\ Escrow = Escrow, amount)
      BY <1>0, <1>1, DepositEffect, AddressAssumption
    <3>2. balance'[t][Escrow] = balance[t][Escrow] + When(t = token, amount)
      BY <1>0, <3>1 DEF When
    <3>3. restIn(t)[orderId] = 0
      BY <1>1, DepositEffect DEF restIn, When, getOrderRemaining, EmptyOrder
    <3>4. restIn(t)'[orderId] = When(t = token, amount)
      <4>1. /\ orders'[orderId].token = token /\ orders'[orderId].active
            /\ orders'[orderId].totalAmount = amount /\ orders'[orderId].filledAmount = 0
        BY <1>1, DepositEffect
      <4>2. getOrderRemaining(orderId)' = amount
        BY <3>1, <4>1 DEF getOrderRemaining
      <4> QED BY <4>1, <4>2 DEF restIn, When
    <3>5. Owed(t)' = Owed(t) - restIn(t)[orderId] + restIn(t)'[orderId]
      BY <1>1, DepositEffect, OneOrderChanges
    <3>6. collectedFees' = collectedFees
      BY <1>1 DEF Deposit
    <3> QED BY <1>0, <3>1, <3>2, <3>3, <3>4, <3>5, <3>6 DEF When
  <2> QED BY <2>1 DEF Solvency
<1>2. ASSUME NEW sender \in Traders, NEW orderId \in OrderIds, CancelOrder(sender, orderId)
      PROVE  Solvency'
  <2> DEFINE o == orders[orderId]
  <2>0. o \in Order /\ o.active /\ o.trader = sender /\ Refund(o) \in Nat /\ sender # Escrow
    BY <1>2, CancelEffect, AddressAssumption
  <2>1. ASSUME NEW t \in Tokens
        PROVE  balance'[t][Escrow] = Owed(t)' + collectedFees'[t]
    <3>1. PICK n \in Nat : n = Refund(o)
      BY <2>0
    <3>2. balance'[t][Escrow] = balance[t][Escrow] - When(t = o.token /\ Escrow = Escrow, Refund(o))
                                                   + When(t = o.token /\ Escrow = sender, Refund(o))
      BY <1>0, <1>2, CancelEffect
    <3>3. balance'[t][Escrow] = balance[t][Escrow] - When(t = o.token, n)
      BY <1>0, <2>0, <3>1, <3>2 DEF When
    <3>4. restIn(t)[orderId] = When(t = o.token, n)
      <4>1. getOrderRemaining(orderId) = n
        BY <2>0, <3>1 DEF getOrderRemaining, Refund
      <4> QED BY <4>1 DEF restIn, When
    <3>5. restIn(t)'[orderId] = 0
      <4>1. ~orders'[orderId].active
        BY <1>2, CancelEffect
      <4> QED BY <4>1 DEF restIn, When, getOrderRemaining
    <3>6. Owed(t)' = Owed(t) - restIn(t)[orderId] + restIn(t)'[orderId]
      BY <1>2, CancelEffect, OneOrderChanges
    <3>7. collectedFees' = collectedFees
      BY <1>2 DEF CancelOrder
    <3> HIDE DEF o
    <3> QED BY <1>0, <3>1, <3>3, <3>4, <3>5, <3>6, <3>7 DEF When
  <2> QED BY <2>1 DEF Solvency
<1>3. ASSUME NEW s \in Swap, NEW signer \in Signers, ExecuteSwap(s, signer)
      PROVE  Solvency'
  <2> DEFINE maker == orders[s.makerOrderId]
             taker == orders[s.takerOrderId]
             makerFee == Fee(s.makerFillAmount, feeEnabled)
             takerFee == Fee(s.takerFillAmount, feeEnabled)
  <2>1. /\ s.makerOrderId \in OrderIds /\ s.takerOrderId \in OrderIds
        /\ s.makerOrderId # s.takerOrderId
    BY <1>3, SwapEffect
  <2>2. PICK f \in Nat, g \in Nat, p \in Nat, q \in Nat :
          f = s.makerFillAmount /\ g = s.takerFillAmount /\ p = makerFee /\ q = takerFee
    BY <1>3, SwapEffect, SwapMoves
  <2>3. maker.trader # Escrow /\ taker.trader # Escrow
    BY <1>3, SwapMoves, AddressAssumption
  <2>4. ASSUME NEW t \in Tokens
        PROVE  balance'[t][Escrow] = Owed(t)' + collectedFees'[t]
    <3>1. balance'[t][Escrow] = balance[t][Escrow] - When(t = maker.token, f - p)
                                                   - When(t = taker.token, g - q)
      <4>1. balance'[t][Escrow] =
              balance[t][Escrow] - When(t = maker.token /\ Escrow = Escrow, f - p)
                                 + When(t = maker.token /\ Escrow = taker.trader, f - p)
                                 - When(t = taker.token /\ Escrow = Escrow, g - q)
                                 + When(t = taker.token /\ Escrow = maker.trader, g - q)
        BY <1>0, <1>3, <2>2, SwapMoves
      <4> HIDE DEF maker, taker
      <4> QED BY <1>0, <2>2, <2>3, <4>1 DEF When
    <3>2. collectedFees'[t] = collectedFees[t] + When(t = maker.token, p) + When(t = taker.token, q)
      BY <1>3, <2>2, SwapMoves
    <3>3. Owed(t)' = Owed(t) - restIn(t)[s.makerOrderId] + restIn(t)'[s.makerOrderId]
                             - restIn(t)[s.takerOrderId] + restIn(t)'[s.takerOrderId]
      <4>1. \A o \in OrderIds \ {s.makerOrderId, s.takerOrderId} : orders'[o] = orders[o]
        BY <1>3, SwapFields
      <4> QED BY <2>1, <4>1, TwoOrdersChange
    <3>4. PICK a \in Nat : /\ restIn(t)[s.makerOrderId] = When(t = maker.token, a)
                           /\ restIn(t)'[s.makerOrderId] = When(t = maker.token, a - f)
      <4>1. PICK a \in Nat : /\ getOrderRemaining(s.makerOrderId) = a
                             /\ getOrderRemaining(s.makerOrderId)' = a - s.makerFillAmount
                             /\ Spent(s.makerOrderId)' = Spent(s.makerOrderId)
        BY <1>3, SwapTerms
      <4>2. orders'[s.makerOrderId].token = maker.token
        BY <1>3, SwapFields
      <4> QED BY <2>1, <2>2, <4>1, <4>2 DEF restIn, When
    <3>5. PICK b \in Nat : /\ restIn(t)[s.takerOrderId] = When(t = taker.token, b)
                           /\ restIn(t)'[s.takerOrderId] = When(t = taker.token, b - g)
      <4>1. PICK b \in Nat : /\ getOrderRemaining(s.takerOrderId) = b
                             /\ getOrderRemaining(s.takerOrderId)' = b - s.takerFillAmount
                             /\ Spent(s.takerOrderId)' = Spent(s.takerOrderId)
        BY <1>3, SwapTerms
      <4>2. orders'[s.takerOrderId].token = taker.token
        BY <1>3, SwapFields
      <4> QED BY <2>1, <2>2, <4>1, <4>2 DEF restIn, When
    <3> HIDE DEF maker, taker, makerFee, takerFee
    <3> QED BY <1>0, <2>2, <3>1, <3>2, <3>3, <3>4, <3>5 DEF When
  <2> QED BY <2>4 DEF Solvency
<1>4. ASSUME NEW token \in Tokens, WithdrawFees(token, Treasury)
      PROVE  Solvency'
  <2>1. /\ balance' = Transfer(balance, token, Escrow, Treasury, collectedFees[token])
        /\ collectedFees' = [collectedFees EXCEPT ![token] = 0]
        /\ orders' = orders
    BY <1>4 DEF WithdrawFees
  <2>2. /\ balance \in Balances /\ Treasury \in Accounts /\ Escrow # Treasury
        /\ collectedFees \in [Tokens -> Nat]
    BY AddressAssumption DEF Accounts, IInv, TypeOK, Balances
  <2>3. ASSUME NEW t \in Tokens
        PROVE  balance'[t][Escrow] = Owed(t)' + collectedFees'[t]
    <3>1. balance'[t][Escrow] =
            balance[t][Escrow] - When(t = token /\ Escrow = Escrow, collectedFees[token])
                               + When(t = token /\ Escrow = Treasury, collectedFees[token])
      BY <1>0, <2>1, <2>2, TransferMoves
    <3>2. Owed(t)' = Owed(t)
      BY <2>1 DEF Owed, getOrderRemaining
    <3> QED BY <1>0, <2>1, <2>2, <3>1, <3>2 DEF When
  <2> QED BY <2>3 DEF Solvency
<1>5. ASSUME UNCHANGED <<orders, balance, collectedFees>>
      PROVE  Solvency'
  BY <1>5 DEF Solvency, Owed, getOrderRemaining
<1> QED
  BY <1>1, <1>2, <1>3, <1>4, <1>5
  DEF Next, UpdateTEESignerAddress, SetFeeEnabled, vars, contractVars

(***************************************************************************)
(* The executed swaps: a finite set that gains one swap at a time, all of  *)
(* them between deposited orders.                                          *)
(***************************************************************************)

SettledOK ==
  /\ IsFiniteSet(settled)
  /\ \A e \in settled : \A o \in {e.swap.makerOrderId, e.swap.takerOrderId} :
       orders[o].trader # ZeroAddress

LEMMA SettledGains ==
  ASSUME IInv, FillsAreSettledSwaps, NEW s \in Swap, NEW signer \in Signers, ExecuteSwap(s, signer)
  PROVE  LET e == [swap |-> s, fee |-> feeEnabled]
         IN settled' = settled \union {e} /\ e \notin settled
<1>1. s.swapId \notin {e.swap.swapId : e \in settled}
  BY DEF ExecuteSwap, SwapAllowed, FillsAreSettledSwaps
<1>2. settled' = settled \union {[swap |-> s, fee |-> feeEnabled]}
  BY DEF ExecuteSwap
<1> QED BY <1>1, <1>2

\* Steps keep the trader and the token of a deposited order.
LEMMA KeepsTerms ==
  ASSUME IInv, [Next]_vars
  PROVE  \A o \in OrderIds : orders[o].trader # ZeroAddress =>
           orders'[o].trader = orders[o].trader /\ orders'[o].token = orders[o].token
<1>1. [KeepsHistory]_vars
  BY NextKeepsHistory
<1>2. CASE KeepsHistory
  BY <1>2 DEF KeepsHistory
<1>3. CASE UNCHANGED vars
  BY <1>3 DEF vars, contractVars
<1> QED BY <1>1, <1>2, <1>3

\* Every step but a swap keeps the executed swaps.
LEMMA SettledKept ==
  ASSUME [Next]_vars
  PROVE  \/ settled' = settled /\ executedSwaps' = executedSwaps
         \/ \E s \in Swap, signer \in Signers : ExecuteSwap(s, signer)
BY DEF Next, Deposit, CancelOrder, UpdateTEESignerAddress, SetFeeEnabled, WithdrawFees, vars, contractVars

LEMMA NextSettledOK ==
  ASSUME IInv, FillsAreSettledSwaps, SettledOK, [Next]_vars
  PROVE  SettledOK'
<1>1. \A e \in settled : e.swap.makerOrderId \in OrderIds /\ e.swap.takerOrderId \in OrderIds
  BY DEF IInv, TypeOK, Swap
<1>2. \A e \in settled : \A o \in {e.swap.makerOrderId, e.swap.takerOrderId} :
        orders'[o].trader # ZeroAddress
  BY <1>1, KeepsTerms DEF SettledOK
<1>3. CASE settled' = settled
  BY <1>2, <1>3 DEF SettledOK
<1>4. ASSUME NEW s \in Swap, NEW signer \in Signers, ExecuteSwap(s, signer)
      PROVE  SettledOK'
  <2>1. PICK e : e = [swap |-> s, fee |-> feeEnabled]
    OBVIOUS
  <2>2. settled' = settled \union {e} /\ e.swap = s
    BY <1>4, <2>1, SettledGains
  <2>3. IsFiniteSet(settled')
    BY <2>2, FS_AddElement DEF SettledOK
  <2>4. \A o \in {s.makerOrderId, s.takerOrderId} :
          orders[o] \in Order /\ orders'[o].trader = orders[o].trader
    BY <1>4, SwapFields
  <2>5. \A o \in {s.makerOrderId, s.takerOrderId} : orders'[o].trader # ZeroAddress
    BY <2>4, AddressAssumption DEF Order, Accounts
  <2> QED BY <1>2, <2>2, <2>3, <2>5 DEF SettledOK
<1> QED BY <1>3, <1>4, SettledKept

(***************************************************************************)
(* The fills.                                                              *)
(***************************************************************************)

LEMMA FillsNat ==
  ASSUME IInv
  PROVE  \A o : \A e \in settled : FilledIn(e, o) \in Nat
<1>1. \A e \in settled : e.swap.makerFillAmount \in Nat /\ e.swap.takerFillAmount \in Nat
  BY AmountAssumption DEF IInv, TypeOK, Swap
<1> QED BY <1>1 DEF FilledIn

LEMMA NextFills ==
  ASSUME IInv, FillsAreSettledSwaps, SettledOK, [Next]_vars
  PROVE  FillsAreSettledSwaps'
<1>0. /\ \A o \in OrderIds : orders[o].filledAmount = SumFunction([e \in settled |-> FilledIn(e, o)])
      /\ \A e1, e2 \in settled : e1.swap.swapId = e2.swap.swapId => e1 = e2
      /\ executedSwaps = {e.swap.swapId : e \in settled}
  BY DEF FillsAreSettledSwaps
<1>1. ASSUME settled' = settled, executedSwaps' = executedSwaps,
             \A o \in OrderIds : orders'[o].filledAmount = orders[o].filledAmount
      PROVE  FillsAreSettledSwaps'
  BY <1>0, <1>1 DEF FillsAreSettledSwaps
<1>2. ASSUME NEW sender \in Traders, NEW orderId \in OrderIds, NEW token \in Tokens,
             NEW amount \in Amounts, Deposit(sender, orderId, token, amount)
      PROVE  FillsAreSettledSwaps'
  <2>1. \A o \in OrderIds : orders'[o].filledAmount = orders[o].filledAmount
    BY <1>2, DepositEffect DEF EmptyOrder
  <2> QED BY <1>1, <1>2, <2>1 DEF Deposit
<1>3. ASSUME NEW sender \in Traders, NEW orderId \in OrderIds, CancelOrder(sender, orderId)
      PROVE  FillsAreSettledSwaps'
  <2>1. \A o \in OrderIds : orders'[o].filledAmount = orders[o].filledAmount
    BY <1>3, CancelEffect
  <2> QED BY <1>1, <1>3, <2>1 DEF CancelOrder
<1>4. ASSUME NEW s \in Swap, NEW signer \in Signers, ExecuteSwap(s, signer)
      PROVE  FillsAreSettledSwaps'
  <2>1. PICK e : e = [swap |-> s, fee |-> feeEnabled]
    OBVIOUS
  <2>2. settled' = settled \union {e} /\ e \notin settled /\ e.swap = s
    BY <1>4, <2>1, SettledGains
  <2>3. executedSwaps' = executedSwaps \union {s.swapId} /\ s.swapId \notin executedSwaps
    BY <1>4 DEF ExecuteSwap, SwapAllowed
  <2>4. s.makerFillAmount \in Nat /\ s.takerFillAmount \in Nat /\ s.makerOrderId # s.takerOrderId
    BY <1>4, SwapEffect
  <2>5. ASSUME NEW o \in OrderIds
        PROVE  orders'[o].filledAmount = SumFunction([x \in settled' |-> FilledIn(x, o)])
    <3>1. PICK F, H : F = [x \in settled |-> FilledIn(x, o)] /\ H = [x \in settled' |-> FilledIn(x, o)]
      OBVIOUS
    <3>2. /\ IntOn(F, settled) /\ \A x \in settled : H[x] = F[x]
          /\ H[e] = FilledIn(e, o) /\ H[e] \in Nat
          /\ DOMAIN F = settled /\ DOMAIN H = settled \union {e}
      <4>1. FilledIn(e, o) \in Nat
        BY <2>2, <2>4 DEF FilledIn
      <4>2. \A x \in settled : FilledIn(x, o) \in Nat
        BY FillsNat
      <4> QED BY <2>2, <3>1, <4>1, <4>2 DEF IntOn
    <3>3. SumFunctionOnSet(H, settled \union {e}) = SumFunctionOnSet(F, settled) + H[e]
      BY <2>2, <3>2, SumGains DEF SettledOK
    <3>4. SumFunction(H) = SumFunction(F) + FilledIn(e, o)
      BY <3>2, <3>3, SumOver
    <3>5. orders[o].filledAmount = SumFunction(F)
      BY <1>0, <3>1
    <3>6. orders'[o].filledAmount = orders[o].filledAmount + FilledIn(e, o)
      <4>1. orders[o].filledAmount \in Nat
        BY DEF IInv, TypeOK, Order, EmptyOrder
      <4>2. CASE o = s.makerOrderId
        BY <1>4, <2>2, <4>2, SwapFields DEF FilledIn
      <4>3. CASE o = s.takerOrderId
        BY <1>4, <2>2, <2>4, <4>3, SwapFields DEF FilledIn
      <4>4. CASE o \notin {s.makerOrderId, s.takerOrderId}
        BY <1>4, <2>2, <4>1, <4>4, SwapFields DEF FilledIn
      <4> QED BY <4>2, <4>3, <4>4
    <3> QED BY <3>1, <3>4, <3>5, <3>6
  <2>6. \A e1, e2 \in settled' : e1.swap.swapId = e2.swap.swapId => e1 = e2
    BY <1>0, <2>2, <2>3
  <2>7. executedSwaps' = {x.swap.swapId : x \in settled'}
    BY <1>0, <2>2, <2>3
  <2> QED BY <2>5, <2>6, <2>7 DEF FillsAreSettledSwaps
<1>5. ASSUME UNCHANGED <<orders, settled, executedSwaps>>
      PROVE  FillsAreSettledSwaps'
  BY <1>1, <1>5
<1> QED
  BY <1>2, <1>3, <1>4, <1>5
  DEF Next, UpdateTEESignerAddress, SetFeeEnabled, WithdrawFees, vars, contractVars

(***************************************************************************)
(* The fees.                                                               *)
(***************************************************************************)

LEMMA FeeOfNothing == \A enabled : Fee(0, enabled) = 0
BY FeeAssumption DEF Fee

\* The fees of a settled swap are those of its two legs.
LEMMA FeesOfSwap ==
  ASSUME NEW e \in [swap : Swap, fee : BOOLEAN], NEW t
  PROVE  LET m == e.swap.makerOrderId
             n == e.swap.takerOrderId
         IN /\ Fee(e.swap.makerFillAmount, e.fee) \in Nat /\ Fee(e.swap.takerFillAmount, e.fee) \in Nat
            /\ FeesOf(e, t) = When(orders[m].token = t, Fee(e.swap.makerFillAmount, e.fee))
                                + When(orders[n].token = t, Fee(e.swap.takerFillAmount, e.fee))
<1> DEFINE m == e.swap.makerOrderId
           n == e.swap.takerOrderId
<1>1. /\ m \in OrderIds /\ n \in OrderIds /\ m # n /\ e.fee \in BOOLEAN
      /\ e.swap.makerFillAmount \in Nat /\ e.swap.takerFillAmount \in Nat
  BY AmountAssumption DEF Swap
<1>2. PICK p \in Nat, q \in Nat :
        p = Fee(e.swap.makerFillAmount, e.fee) /\ q = Fee(e.swap.takerFillAmount, e.fee)
  BY <1>1, FeeWithinFill
<1>3. PICK F : F = [o \in OrderIds |-> IF orders[o].token = t THEN FeeFrom(e, o) ELSE 0]
  OBVIOUS
<1>4. /\ FeeFrom(e, m) = p /\ FeeFrom(e, n) = q
      /\ \A o \in OrderIds \ {m, n} : FeeFrom(e, o) = 0
  BY <1>1, <1>2, FeeOfNothing DEF FeeFrom, FilledIn
<1> HIDE DEF m, n
<1>5. /\ F[m] = When(orders[m].token = t, p) /\ F[n] = When(orders[n].token = t, q)
      /\ \A o \in OrderIds \ {m, n} : F[o] = 0
      /\ IntOn(F, OrderIds) /\ DOMAIN F = OrderIds
  BY <1>1, <1>3, <1>4 DEF When, IntOn
<1>6. SumFunctionOnSet(F, OrderIds) = F[m] + F[n]
  BY <1>1, <1>5, OrderIdAssumption, SumTwo
<1>7. FeesOf(e, t) = F[m] + F[n]
  BY <1>3, <1>5, <1>6, SumOver DEF FeesOf
<1>8. FeesOf(e, t) = When(orders[m].token = t, p) + When(orders[n].token = t, q)
  BY <1>5, <1>7
<1> QED BY <1>2, <1>8 DEF m, n

FeesAreOfLegs ==
  \A e \in [swap : Swap, fee : BOOLEAN] : \A t :
    FeesOf(e, t) = When(orders[e.swap.makerOrderId].token = t, Fee(e.swap.makerFillAmount, e.fee))
                   + When(orders[e.swap.takerOrderId].token = t, Fee(e.swap.takerFillAmount, e.fee))

LEMMA FeesOfLegs == FeesAreOfLegs
BY FeesOfSwap DEF FeesAreOfLegs

\* The fees of a settled swap are natural numbers and stay what they are.
LEMMA FeesKept ==
  ASSUME IInv, SettledOK, [Next]_vars, NEW e \in settled, NEW t
  PROVE  FeesOf(e, t) \in Nat /\ FeesOf(e, t)' = FeesOf(e, t)
<1> DEFINE m == e.swap.makerOrderId
           n == e.swap.takerOrderId
<1>1. e \in [swap : Swap, fee : BOOLEAN]
  BY DEF IInv, TypeOK
<1>2. FeesAreOfLegs /\ FeesAreOfLegs'
  BY FeesOfLegs, PTL
<1>3. m \in OrderIds /\ n \in OrderIds
  BY <1>1 DEF Swap
<1>4. orders'[m].token = orders[m].token /\ orders'[n].token = orders[n].token
  BY <1>3, KeepsTerms DEF SettledOK
<1>5. FeesOf(e, t)' = When(orders'[m].token = t, Fee(e.swap.makerFillAmount, e.fee))
                      + When(orders'[n].token = t, Fee(e.swap.takerFillAmount, e.fee))
  BY <1>1, <1>2 DEF FeesAreOfLegs
<1>6. FeesOf(e, t) = When(orders[m].token = t, Fee(e.swap.makerFillAmount, e.fee))
                     + When(orders[n].token = t, Fee(e.swap.takerFillAmount, e.fee))
  BY <1>1, <1>2 DEF FeesAreOfLegs
<1>7. FeesOf(e, t) \in Nat
  <2>1. Fee(e.swap.makerFillAmount, e.fee) \in Nat /\ Fee(e.swap.takerFillAmount, e.fee) \in Nat
    BY <1>1, FeesOfSwap
  <2> QED BY <1>6, <2>1 DEF When
<1> QED BY <1>4, <1>5, <1>6, <1>7

LEMMA NextFees ==
  ASSUME IInv, FillsAreSettledSwaps, SettledOK, FeesAreFromSwaps, [Next]_vars
  PROVE  FeesAreFromSwaps'
<1>0. /\ Treasury \in Accounts /\ Treasury # Escrow
      /\ \A t \in Tokens : collectedFees[t] \in Nat /\ balance[t][Treasury] \in Nat
  BY AddressAssumption DEF IInv, TypeOK, Accounts
<1>1. ASSUME settled' = settled,
             \A t \in Tokens : collectedFees'[t] + balance'[t][Treasury]
                              = collectedFees[t] + balance[t][Treasury]
      PROVE  FeesAreFromSwaps'
  <2>1. \A t : [e \in settled' |-> FeesOf(e, t)'] = [e \in settled |-> FeesOf(e, t)]
    BY <1>1, FeesKept
  <2> QED BY <1>1, <2>1 DEF FeesAreFromSwaps
<1>2. ASSUME NEW sender \in Traders, NEW orderId \in OrderIds, NEW token \in Tokens,
             NEW amount \in Amounts, Deposit(sender, orderId, token, amount)
      PROVE  FeesAreFromSwaps'
  <2>1. amount \in Nat /\ sender # Treasury
    BY AmountAssumption, AddressAssumption
  <2>3. ASSUME NEW t \in Tokens PROVE balance'[t][Treasury] = balance[t][Treasury]
    <3>1. balance'[t][Treasury] = balance[t][Treasury] - When(t = token /\ Treasury = sender, amount)
                                                       + When(t = token /\ Treasury = Escrow, amount)
      BY <1>0, <1>2, DepositEffect
    <3> QED BY <1>0, <2>1, <3>1 DEF When
  <2> QED BY <1>1, <1>2, <2>3 DEF Deposit
<1>3. ASSUME NEW sender \in Traders, NEW orderId \in OrderIds, CancelOrder(sender, orderId)
      PROVE  FeesAreFromSwaps'
  <2>1. PICK n \in Nat : n = Refund(orders[orderId])
    BY <1>3, CancelEffect
  <2>2. sender # Treasury
    BY AddressAssumption
  <2>4. ASSUME NEW t \in Tokens PROVE balance'[t][Treasury] = balance[t][Treasury]
    <3>1. balance'[t][Treasury] =
            balance[t][Treasury] - When(t = orders[orderId].token /\ Treasury = Escrow, n)
                                 + When(t = orders[orderId].token /\ Treasury = sender, n)
      BY <1>0, <1>3, <2>1, CancelEffect
    <3> QED BY <1>0, <2>1, <2>2, <3>1 DEF When
  <2> QED BY <1>1, <1>3, <2>4 DEF CancelOrder
<1>4. ASSUME NEW s \in Swap, NEW signer \in Signers, ExecuteSwap(s, signer)
      PROVE  FeesAreFromSwaps'
  <2> DEFINE maker == orders[s.makerOrderId]
             taker == orders[s.takerOrderId]
  <2>1. PICK e : e = [swap |-> s, fee |-> feeEnabled]
    OBVIOUS
  <2>2. /\ settled' = settled \union {e} /\ e \notin settled
        /\ e.swap = s /\ e.fee = feeEnabled /\ e \in [swap : Swap, fee : BOOLEAN]
    BY <1>4, <2>1, SettledGains DEF IInv, TypeOK
  <2>3. PICK f \in Nat, g \in Nat, p \in Nat, q \in Nat :
          /\ p = Fee(s.makerFillAmount, feeEnabled) /\ q = Fee(s.takerFillAmount, feeEnabled)
          /\ f = s.makerFillAmount - p /\ g = s.takerFillAmount - q
    BY <1>4, SwapMoves
  <2>4. maker.trader # Treasury /\ taker.trader # Treasury
    BY <1>4, SwapMoves, AddressAssumption
  <2>5. ASSUME NEW t \in Tokens
        PROVE  collectedFees'[t] + balance'[t][Treasury]
                 = SumFunction([x \in settled' |-> FeesOf(x, t)'])
    <3>1. balance'[t][Treasury] = balance[t][Treasury]
      <4>1. balance'[t][Treasury] =
              balance[t][Treasury] - When(t = maker.token /\ Treasury = Escrow, f)
                                   + When(t = maker.token /\ Treasury = taker.trader, f)
                                   - When(t = taker.token /\ Treasury = Escrow, g)
                                   + When(t = taker.token /\ Treasury = maker.trader, g)
        BY <1>0, <1>4, <2>3, SwapMoves
      <4> HIDE DEF maker, taker
      <4> QED BY <1>0, <2>3, <2>4, <4>1 DEF When
    <3>2. collectedFees'[t] = collectedFees[t] + When(t = maker.token, p) + When(t = taker.token, q)
      BY <1>4, <2>3, SwapMoves
    <3>3. FeesOf(e, t)' = When(t = maker.token, p) + When(t = taker.token, q)
      <4>1. FeesAreOfLegs'
        BY FeesOfLegs, PTL
      <4>2. FeesOf(e, t)' = When(orders'[s.makerOrderId].token = t, p)
                            + When(orders'[s.takerOrderId].token = t, q)
        BY <2>2, <2>3, <4>1 DEF FeesAreOfLegs
      <4>3. orders'[s.makerOrderId].token = maker.token /\ orders'[s.takerOrderId].token = taker.token
        BY <1>4, SwapFields
      <4> HIDE DEF maker, taker
      <4> QED BY <4>2, <4>3 DEF When
    <3>4. PICK F, H : F = [x \in settled |-> FeesOf(x, t)] /\ H = [x \in settled' |-> FeesOf(x, t)']
      OBVIOUS
    <3>5. /\ IntOn(F, settled) /\ \A x \in settled : H[x] = F[x]
          /\ H[e] = FeesOf(e, t)' /\ H[e] \in Nat
          /\ DOMAIN F = settled /\ DOMAIN H = settled \union {e}
      <4>1. FeesOf(e, t)' \in Nat
        BY <2>3, <3>3 DEF When
      <4>2. \A x \in settled : FeesOf(x, t) \in Nat /\ FeesOf(x, t)' = FeesOf(x, t)
        BY FeesKept
      <4> QED BY <2>2, <3>4, <4>1, <4>2 DEF IntOn
    <3>6. SumFunctionOnSet(H, settled \union {e}) = SumFunctionOnSet(F, settled) + H[e]
      BY <2>2, <3>5, SumGains DEF SettledOK
    <3>7. SumFunction(H) = SumFunction(F) + H[e]
      BY <3>5, <3>6, SumOver
    <3>8. SumFunction(F) = collectedFees[t] + balance[t][Treasury]
      BY <3>4 DEF FeesAreFromSwaps
    <3>9. H[e] = When(t = maker.token, p) + When(t = taker.token, q)
      BY <3>3, <3>5
    <3> HIDE DEF maker, taker
    <3>10. collectedFees'[t] + balance'[t][Treasury] = SumFunction(H)
      BY <1>0, <2>3, <3>1, <3>2, <3>7, <3>8, <3>9 DEF When
    <3> QED BY <3>4, <3>10
  <2> QED BY <2>5 DEF FeesAreFromSwaps
<1>5. ASSUME NEW token \in Tokens, WithdrawFees(token, Treasury)
      PROVE  FeesAreFromSwaps'
  <2>1. /\ balance' = Transfer(balance, token, Escrow, Treasury, collectedFees[token])
        /\ collectedFees' = [collectedFees EXCEPT ![token] = 0]
        /\ settled' = settled
    BY <1>5 DEF WithdrawFees
  <2>2. balance \in Balances /\ Escrow \in Accounts /\ collectedFees \in [Tokens -> Nat]
    BY DEF Accounts, IInv, TypeOK, Balances
  <2>4. ASSUME NEW t \in Tokens
        PROVE  collectedFees'[t] + balance'[t][Treasury] = collectedFees[t] + balance[t][Treasury]
    <3>1. balance'[t][Treasury] =
            balance[t][Treasury] - When(t = token /\ Treasury = Escrow, collectedFees[token])
                                 + When(t = token /\ Treasury = Treasury, collectedFees[token])
      BY <1>0, <2>1, <2>2, TransferMoves
    <3> QED BY <1>0, <2>1, <2>2, <3>1 DEF When
  <2> QED BY <1>1, <2>1, <2>4
<1>6. ASSUME UNCHANGED <<balance, collectedFees, settled>>
      PROVE  FeesAreFromSwaps'
  BY <1>1, <1>6
<1> QED
  BY <1>2, <1>3, <1>4, <1>5, <1>6
  DEF Next, UpdateTEESignerAddress, SetFeeEnabled, vars, contractVars

(***************************************************************************)
(* The traders.                                                            *)
(***************************************************************************)

ReceivedIsLegs ==
  \A e \in [swap : Swap, fee : BOOLEAN] : \A a, t :
    Received(e, a, t) =
      When(orders[e.swap.takerOrderId].trader = a /\ orders[e.swap.makerOrderId].token = t,
           e.swap.makerFillAmount - Fee(e.swap.makerFillAmount, e.fee))
      + When(orders[e.swap.makerOrderId].trader = a /\ orders[e.swap.takerOrderId].token = t,
             e.swap.takerFillAmount - Fee(e.swap.takerFillAmount, e.fee))

LEMMA ReceivedLegs == ReceivedIsLegs
<1> SUFFICES ASSUME NEW e \in [swap : Swap, fee : BOOLEAN], NEW a, NEW t
             PROVE  Received(e, a, t) =
                      When(orders[e.swap.takerOrderId].trader = a /\ orders[e.swap.makerOrderId].token = t,
                           e.swap.makerFillAmount - Fee(e.swap.makerFillAmount, e.fee))
                      + When(orders[e.swap.makerOrderId].trader = a /\ orders[e.swap.takerOrderId].token = t,
                             e.swap.takerFillAmount - Fee(e.swap.takerFillAmount, e.fee))
  BY DEF ReceivedIsLegs
<1>1. e.swap.makerOrderId # e.swap.takerOrderId
  BY DEF Swap
<1>2. /\ FilledIn(e, e.swap.makerOrderId) = e.swap.makerFillAmount
      /\ FilledIn(e, e.swap.takerOrderId) = e.swap.takerFillAmount
  BY <1>1 DEF FilledIn
<1>3. /\ FeeFrom(e, e.swap.makerOrderId) = Fee(e.swap.makerFillAmount, e.fee)
      /\ FeeFrom(e, e.swap.takerOrderId) = Fee(e.swap.takerFillAmount, e.fee)
  BY <1>2 DEF FeeFrom
<1> QED BY <1>2, <1>3 DEF Received, When

\* The payments of a settled swap are natural numbers and stay what they are.
LEMMA ReceivedKept ==
  ASSUME IInv, SettledOK, [Next]_vars, NEW e \in settled, NEW a, NEW t
  PROVE  Received(e, a, t) \in Nat /\ Received(e, a, t)' = Received(e, a, t)
<1> DEFINE m == e.swap.makerOrderId
           n == e.swap.takerOrderId
           f == e.swap.makerFillAmount - Fee(e.swap.makerFillAmount, e.fee)
           g == e.swap.takerFillAmount - Fee(e.swap.takerFillAmount, e.fee)
<1>1. e \in [swap : Swap, fee : BOOLEAN]
  BY DEF IInv, TypeOK
<1>2. ReceivedIsLegs /\ ReceivedIsLegs'
  BY ReceivedLegs, PTL
<1>3. m \in OrderIds /\ n \in OrderIds /\ f \in Nat /\ g \in Nat
  <2>1. /\ m \in OrderIds /\ n \in OrderIds /\ e.fee \in BOOLEAN
        /\ e.swap.makerFillAmount \in Nat /\ e.swap.takerFillAmount \in Nat
    BY <1>1, AmountAssumption DEF Swap
  <2> QED BY <2>1, FeeWithinFill
<1>4. /\ orders'[m].token = orders[m].token /\ orders'[n].token = orders[n].token
      /\ orders'[m].trader = orders[m].trader /\ orders'[n].trader = orders[n].trader
  BY <1>3, KeepsTerms DEF SettledOK
<1>5. Received(e, a, t)' = When(orders'[n].trader = a /\ orders'[m].token = t, f)
                           + When(orders'[m].trader = a /\ orders'[n].token = t, g)
  BY <1>1, <1>2 DEF ReceivedIsLegs
<1>6. Received(e, a, t) = When(orders[n].trader = a /\ orders[m].token = t, f)
                          + When(orders[m].trader = a /\ orders[n].token = t, g)
  BY <1>1, <1>2 DEF ReceivedIsLegs
<1> HIDE DEF m, n, f, g
<1>7. Received(e, a, t) \in Nat
  BY <1>3, <1>6 DEF When
<1>8. Received(e, a, t)' = Received(e, a, t)
  BY <1>4, <1>5, <1>6 DEF When
<1> QED BY <1>7, <1>8

LEMMA NextTraders ==
  ASSUME IInv, IInv', FillsAreSettledSwaps, SettledOK, TraderAccounts, [Next]_vars
  PROVE  TraderAccounts'
<1>0. /\ \A t \in Tokens : \A a \in Traders : /\ balance[t][a] \in Nat /\ SpentBy(a, t) \in Nat
                                           /\ a \in Accounts
      /\ Escrow \notin Traders /\ Treasury \notin Traders
  <2>1. \A a \in Traders : a \in Accounts /\ a # Escrow /\ a # Treasury
    BY AddressAssumption DEF Accounts
  <2>2. \A t \in Tokens : \A a \in Accounts : balance[t][a] \in Nat
    BY DEF IInv, TypeOK
  <2> QED BY <2>1, <2>2, SumsNat, AddressAssumption
<1>1. ASSUME settled' = settled,
             \A t \in Tokens, a \in Traders : balance'[t][a] + SpentBy(a, t)' = balance[t][a] + SpentBy(a, t)
      PROVE  TraderAccounts'
  <2>1. \A a, t : [e \in settled' |-> Received(e, a, t)'] = [e \in settled |-> Received(e, a, t)]
    BY <1>1, ReceivedKept
  <2> QED BY <1>1, <2>1 DEF TraderAccounts
<1>2. ASSUME NEW sender \in Traders, NEW orderId \in OrderIds, NEW token \in Tokens,
             NEW amount \in Amounts, Deposit(sender, orderId, token, amount)
      PROVE  TraderAccounts'
  <2>1. ASSUME NEW t \in Tokens, NEW a \in Traders
        PROVE  balance'[t][a] + SpentBy(a, t)' = balance[t][a] + SpentBy(a, t)
    <3>1. balance'[t][a] = balance[t][a] - When(t = token /\ a = sender, amount)
                                         + When(t = token /\ a = Escrow, amount)
      BY <1>0, <1>2, DepositEffect
    <3>2. spentIn(a, t)[orderId] = 0
      BY <1>2, DepositEffect DEF spentIn, When, Spent, EmptyOrder
    <3>3. spentIn(a, t)'[orderId] = When(t = token /\ a = sender, amount)
      <4>1. /\ orders'[orderId].token = token /\ orders'[orderId].trader = sender
            /\ Spent(orderId)' = amount
        BY <1>2, DepositEffect DEF Spent
      <4> QED BY <4>1 DEF spentIn, When
    <3>4. SpentBy(a, t)' = SpentBy(a, t) - spentIn(a, t)[orderId] + spentIn(a, t)'[orderId]
      BY <1>2, DepositEffect, OneOrderChanges
    <3>5. amount \in Nat
      BY AmountAssumption
    <3> QED BY <1>0, <3>1, <3>2, <3>3, <3>4, <3>5 DEF When
  <2> QED BY <1>1, <1>2, <2>1 DEF Deposit
<1>3. ASSUME NEW sender \in Traders, NEW orderId \in OrderIds, CancelOrder(sender, orderId)
      PROVE  TraderAccounts'
  <2> DEFINE o == orders[orderId]
  <2>0. o \in Order /\ o.active /\ o.trader = sender
    BY <1>3, CancelEffect
  <2>1. PICK n \in Nat, k \in Nat : n = o.totalAmount /\ k = o.filledAmount
    BY <2>0 DEF Order
  <2>2. Refund(o) = n - k /\ n - k \in Nat
    BY <1>3, <2>1, CancelEffect DEF Refund
  <2>3. ASSUME NEW t \in Tokens, NEW a \in Traders
        PROVE  balance'[t][a] + SpentBy(a, t)' = balance[t][a] + SpentBy(a, t)
    <3>1. balance'[t][a] = balance[t][a] - When(t = o.token /\ a = Escrow, Refund(o))
                                         + When(t = o.token /\ a = sender, Refund(o))
      BY <1>0, <1>3, CancelEffect
    <3>2. spentIn(a, t)[orderId] = When(t = o.token /\ a = sender, n)
      BY <2>0, <2>1 DEF spentIn, When, Spent
    <3>3. spentIn(a, t)'[orderId] = When(t = o.token /\ a = sender, k)
      <4>1. /\ orders'[orderId].token = o.token /\ orders'[orderId].trader = sender
            /\ Spent(orderId)' = k
        BY <1>3, <2>0, <2>1, CancelEffect DEF Spent
      <4> HIDE DEF o
      <4> QED BY <4>1 DEF spentIn, When
    <3>4. SpentBy(a, t)' = SpentBy(a, t) - spentIn(a, t)[orderId] + spentIn(a, t)'[orderId]
      BY <1>3, CancelEffect, OneOrderChanges
    <3> HIDE DEF o
    <3> QED BY <1>0, <2>1, <2>2, <3>1, <3>2, <3>3, <3>4 DEF When
  <2> QED BY <1>1, <1>3, <2>3 DEF CancelOrder
<1>4. ASSUME NEW s \in Swap, NEW signer \in Signers, ExecuteSwap(s, signer)
      PROVE  TraderAccounts'
  <2> DEFINE maker == orders[s.makerOrderId]
             taker == orders[s.takerOrderId]
  <2>1. PICK e : e = [swap |-> s, fee |-> feeEnabled]
    OBVIOUS
  <2>2. /\ settled' = settled \union {e} /\ e \notin settled
        /\ e.swap = s /\ e.fee = feeEnabled /\ e \in [swap : Swap, fee : BOOLEAN]
    BY <1>4, <2>1, SettledGains DEF IInv, TypeOK
  <2>3. PICK f \in Nat, g \in Nat :
          /\ f = s.makerFillAmount - Fee(s.makerFillAmount, feeEnabled)
          /\ g = s.takerFillAmount - Fee(s.takerFillAmount, feeEnabled)
    BY <1>4, SwapMoves
  <2>4. ASSUME NEW t \in Tokens, NEW a \in Traders
        PROVE  balance'[t][a] + SpentBy(a, t)'
                 = Endowment + SumFunction([x \in settled' |-> Received(x, a, t)'])
    <3>1. balance'[t][a] = balance[t][a] + When(t = maker.token /\ a = taker.trader, f)
                                         + When(t = taker.token /\ a = maker.trader, g)
      <4>1. balance'[t][a] = balance[t][a] - When(t = maker.token /\ a = Escrow, f)
                                           + When(t = maker.token /\ a = taker.trader, f)
                                           - When(t = taker.token /\ a = Escrow, g)
                                           + When(t = taker.token /\ a = maker.trader, g)
        BY <1>0, <1>4, <2>3, SwapMoves
      <4> HIDE DEF maker, taker
      <4> QED BY <1>0, <2>3, <4>1 DEF When
    <3>2. SpentBy(a, t)' = SpentBy(a, t)
      <4>1. \A o \in OrderIds : spentIn(a, t)'[o] = spentIn(a, t)[o]
        <5>1. ASSUME NEW o \in OrderIds
              PROVE  /\ orders'[o].trader = orders[o].trader /\ orders'[o].token = orders[o].token
                     /\ Spent(o)' = Spent(o)
          <6>1. CASE o \in {s.makerOrderId, s.takerOrderId}
            BY <1>4, <6>1, SwapFields, SwapTerms
          <6>2. CASE o \notin {s.makerOrderId, s.takerOrderId}
            BY <1>4, <6>2, SwapFields DEF Spent
          <6> QED BY <6>1, <6>2
        <5> QED BY <5>1 DEF spentIn
      <4>2. spentIn(a, t)' = spentIn(a, t)
        BY <4>1 DEF spentIn
      <4> QED BY <4>2, OrderSums
    <3>3. Received(e, a, t)' = When(t = maker.token /\ a = taker.trader, f)
                               + When(t = taker.token /\ a = maker.trader, g)
      <4>1. ReceivedIsLegs'
        BY ReceivedLegs, PTL
      <4>2. Received(e, a, t)' =
              When(orders'[s.takerOrderId].trader = a /\ orders'[s.makerOrderId].token = t, f)
              + When(orders'[s.makerOrderId].trader = a /\ orders'[s.takerOrderId].token = t, g)
        BY <2>2, <2>3, <4>1 DEF ReceivedIsLegs
      <4>3. /\ orders'[s.makerOrderId].token = maker.token /\ orders'[s.takerOrderId].token = taker.token
            /\ orders'[s.makerOrderId].trader = maker.trader /\ orders'[s.takerOrderId].trader = taker.trader
        BY <1>4, SwapFields
      <4> HIDE DEF maker, taker
      <4> QED BY <4>2, <4>3 DEF When
    <3>4. PICK F, H : F = [x \in settled |-> Received(x, a, t)] /\ H = [x \in settled' |-> Received(x, a, t)']
      OBVIOUS
    <3>5. /\ IntOn(F, settled) /\ \A x \in settled : H[x] = F[x]
          /\ H[e] = Received(e, a, t)' /\ H[e] \in Nat
          /\ DOMAIN F = settled /\ DOMAIN H = settled \union {e}
      <4>1. Received(e, a, t)' \in Nat
        BY <2>3, <3>3 DEF When
      <4>2. \A x \in settled : Received(x, a, t) \in Nat /\ Received(x, a, t)' = Received(x, a, t)
        BY ReceivedKept
      <4> QED BY <2>2, <3>4, <4>1, <4>2 DEF IntOn
    <3>6. /\ SumFunctionOnSet(H, settled \union {e}) = SumFunctionOnSet(F, settled) + H[e]
          /\ SumFunctionOnSet(F, settled) \in Int
      BY <2>2, <3>5, SumGains, SumInt DEF SettledOK
    <3>7. SumFunction(H) = SumFunction(F) + H[e] /\ SumFunction(F) \in Int
      BY <3>5, <3>6, SumOver
    <3>8. balance[t][a] + SpentBy(a, t) = Endowment + SumFunction(F)
      BY <3>4 DEF TraderAccounts
    <3>9. H[e] = When(t = maker.token /\ a = taker.trader, f) + When(t = taker.token /\ a = maker.trader, g)
      BY <3>3, <3>5
    <3> HIDE DEF maker, taker
    <3>10. balance'[t][a] + SpentBy(a, t)' = Endowment + SumFunction(H)
      BY <1>0, <2>3, <3>1, <3>2, <3>7, <3>8, <3>9, AmountAssumption DEF When
    <3> QED BY <3>4, <3>10
  <2> QED BY <2>4 DEF TraderAccounts
<1>5. ASSUME NEW token \in Tokens, WithdrawFees(token, Treasury)
      PROVE  TraderAccounts'
  <2>1. /\ balance' = Transfer(balance, token, Escrow, Treasury, collectedFees[token])
        /\ orders' = orders /\ settled' = settled
    BY <1>5 DEF WithdrawFees
  <2>2. /\ balance \in Balances /\ Escrow \in Accounts /\ Treasury \in Accounts
        /\ Escrow # Treasury /\ collectedFees[token] \in Nat
    BY AddressAssumption DEF Accounts, IInv, TypeOK, Balances
  <2>3. ASSUME NEW t \in Tokens, NEW a \in Traders
        PROVE  balance'[t][a] + SpentBy(a, t)' = balance[t][a] + SpentBy(a, t)
    <3>1. balance'[t][a] = balance[t][a] - When(t = token /\ a = Escrow, collectedFees[token])
                                         + When(t = token /\ a = Treasury, collectedFees[token])
      BY <1>0, <2>1, <2>2, TransferMoves
    <3>2. balance'[t][a] = balance[t][a]
      BY <1>0, <3>1 DEF When
    <3>3. SpentBy(a, t)' = SpentBy(a, t)
      BY <2>1 DEF SpentBy, Spent
    <3> QED BY <3>2, <3>3
  <2> QED BY <1>1, <2>1, <2>3
<1>6. ASSUME UNCHANGED <<balance, orders, settled>>
      PROVE  TraderAccounts'
  BY <1>1, <1>6 DEF SpentBy, Spent
<1> QED
  BY <1>2, <1>3, <1>4, <1>5, <1>6
  DEF Next, UpdateTEESignerAddress, SetFeeEnabled, vars, contractVars

(***************************************************************************)
(* The accounting invariant.  The four equations hold together: the swaps  *)
(* that the fees and the payments are summed over are new each time        *)
(* because the executed ids are those of the settled swaps, their terms    *)
(* stay because their orders are deposited, and the sums exist because     *)
(* the settled swaps are finitely many.                                    *)
(***************************************************************************)
Accounting ==
  /\ IInv
  /\ SettledOK
  /\ FillsAreSettledSwaps
  /\ Solvency
  /\ FeesAreFromSwaps
  /\ TraderAccounts

LEMMA InitAccounting == Init => Accounting
<1> SUFFICES ASSUME Init PROVE Accounting
  OBVIOUS
<1>1. IInv
  BY InitIInv
<1>2. /\ settled = {} /\ executedSwaps = {}
      /\ \A o \in OrderIds : orders[o] = EmptyOrder
      /\ \A t \in Tokens : /\ collectedFees[t] = 0 /\ balance[t][Escrow] = 0 /\ balance[t][Treasury] = 0
                          /\ \A a \in Traders : balance[t][a] = Endowment
  BY AddressAssumption DEF Init, Accounts
<1>3. SettledOK
  BY <1>2, FS_EmptySet DEF SettledOK
<1>4. \A f : DOMAIN f = {} => SumFunction(f) = 0
  BY SumOver, SumEmpty
<1>5. FillsAreSettledSwaps
  <2>1. ASSUME NEW o \in OrderIds PROVE SumFunction([e \in settled |-> FilledIn(e, o)]) = 0
    BY <1>2, <1>4
  <2> QED BY <1>2, <2>1 DEF FillsAreSettledSwaps, EmptyOrder
<1>6. \A t, a : Owed(t) = 0 /\ SpentBy(a, t) = 0
  <2>1. \A t, a : \A o \in OrderIds : restIn(t)[o] = 0 /\ spentIn(a, t)[o] = 0
    BY <1>2 DEF restIn, spentIn, When, getOrderRemaining, Spent, EmptyOrder
  <2>2. ASSUME NEW t, NEW a
        PROVE  SumFunctionOnSet(restIn(t), OrderIds) = 0 /\ SumFunctionOnSet(spentIn(a, t), OrderIds) = 0
    BY <2>1, OrderIdAssumption, SumZero
  <2> QED BY <2>2, OrderSums
<1>7. Solvency
  BY <1>2, <1>6 DEF Solvency
<1>8. FeesAreFromSwaps
  <2>1. ASSUME NEW t \in Tokens PROVE SumFunction([e \in settled |-> FeesOf(e, t)]) = 0
    BY <1>2, <1>4
  <2> QED BY <1>2, <2>1 DEF FeesAreFromSwaps
<1>9. TraderAccounts
  <2>1. ASSUME NEW t \in Tokens, NEW a \in Traders
        PROVE  SumFunction([e \in settled |-> Received(e, a, t)]) = 0
    BY <1>2, <1>4
  <2> QED BY <1>2, <1>6, <2>1, AmountAssumption DEF TraderAccounts
<1> QED BY <1>1, <1>3, <1>5, <1>7, <1>8, <1>9 DEF Accounting

LEMMA NextAccounting == Accounting /\ [Next]_vars => Accounting'
<1> SUFFICES ASSUME Accounting, [Next]_vars PROVE Accounting'
  OBVIOUS
<1>1. IInv /\ IInv'
  BY NextIInv DEF Accounting
<1>2. SettledOK'
  BY NextSettledOK DEF Accounting
<1>3. FillsAreSettledSwaps'
  BY NextFills DEF Accounting
<1>4. Solvency'
  BY <1>1, NextSolvency DEF Accounting
<1>5. FeesAreFromSwaps'
  BY NextFees DEF Accounting
<1>6. TraderAccounts'
  BY <1>1, NextTraders DEF Accounting
<1> QED BY <1>1, <1>2, <1>3, <1>4, <1>5, <1>6 DEF Accounting

LEMMA AccountingHolds == Spec => []Accounting
BY InitAccounting, NextAccounting, PTL DEF Spec

\* In every reachable state the contract holds, in every token, exactly the
\* rests of the open orders plus the fees not yet withdrawn: neither cancels,
\* swaps, rounded fees nor withdrawals ever take more or leave dust behind.
THEOREM SolvencyHolds == Spec => []Solvency
<1>1. Accounting => Solvency
  BY DEF Accounting
<1> QED BY <1>1, AccountingHolds, PTL

\* The filled amount of an order is always the sum of its fills in the swaps
\* executed, and each swap id has been executed at most once.
THEOREM FillsAreSwaps == Spec => []FillsAreSettledSwaps
<1>1. Accounting => FillsAreSettledSwaps
  BY DEF Accounting
<1> QED BY <1>1, AccountingHolds, PTL

\* The fees collected and withdrawn are always the rounded fees of the swaps
\* executed while the switch was on.
THEOREM FeesAreSwapFees == Spec => []FeesAreFromSwaps
<1>1. Accounting => FeesAreFromSwaps
  BY DEF Accounting
<1> QED BY <1>1, AccountingHolds, PTL

\* A trader always owns what he started with, less what his orders locked or
\* sold, plus the payments of the swaps his orders took part in.
THEOREM TradersAreWhole == Spec => []TraderAccounts
<1>1. Accounting => TraderAccounts
  BY DEF Accounting
<1> QED BY <1>1, AccountingHolds, PTL
=============================================================================
