\* One lock per pair, one set of locked orders and one account nonce for two pairs.
SPECIFICATION Spec
CONSTANTS
  p = p
  q = q
  s1 = s1
  s2 = s2
  b1 = b1
  b2 = b2
  OrderIds = {s1, b1, s2, b2}
  Terms <- MCPairTerms
  Pairs = {p, q}
  MMWallet = 9
  Quotes = {s1}
  Cycles = {c1, c2}
  FairPrices <- MCPairPrices
  RawPrices = {10, 30}
  MaxFill = 1
  MaxMatches = 1
  DepositUnit = 1
  RpcMayFail = FALSE
  MaxRestarts = 0
INVARIANTS
  LocksAreRounds
SYMMETRY MCSymmetry
CHECK_DEADLOCK FALSE
