\* The lock on a quote ends before its swap is mined.
SPECIFICATION Spec
CONSTANTS
  p = p
  q = q
  s1 = s1
  s2 = s2
  b1 = b1
  b2 = b2
  OrderIds = {s1, b1}
  Terms <- MCSmallTerms
  Pairs = {p}
  MMWallet = 9
  Quotes = {s1}
  Cycles = {c1, c2}
  FairPrices <- MCSteady
  RawPrices = {11}
  MaxFill = 1
  MaxMatches = 2
  DepositUnit = 1
  RpcMayFail = FALSE
  MaxRestarts = 0
INVARIANT
  QuotesOpenWhilePending
CHECK_DEADLOCK FALSE
