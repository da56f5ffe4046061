\* Accounting of the contract: three orders, so that one order can be filled by
\* two others; fees, signer rotation and fee withdrawal at any point.
SPECIFICATION Spec
CONSTANTS
  OrderIds = {o1, o2, o3}
  SwapIds = {s1, s2}
  Tokens = {tokA, tokB}
  Traders = {alice, bob}
  Signers = {tee1, tee2}
  Treasury = treasury
  Escrow = escrow
  ZeroAddress = zero
  Amounts = {1, 2}
  Endowment = 2
  FEE_BPS = 1
  BPS_DENOMINATOR = 2
INVARIANTS
  TypeOK
  OrderWithinTotal
  Solvency
  FillsAreSettledSwaps
  FeesAreFromSwaps
  TraderAccounts
PROPERTIES
  OrderHistory
  ImplementsLedger
SYMMETRY MCSymmetry
CHECK_DEADLOCK FALSE
