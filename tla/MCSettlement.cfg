\* Safety of matching and settlement: two buyers compete for one quote.
SPECIFICATION Spec
CONSTANTS
  p = p
  q = q
  s1 = s1
  s2 = s2
  b1 = b1
  b2 = b2
  OrderIds = {s1, b1, b2}
  Terms <- MCTerms
  Pairs = {p}
  MMWallet = 9
  Quotes = {s1}
  Cycles = {c1, c2}
  FairPrices <- MCSteady
  RawPrices = {11, 12}
  MaxFill = 2
  MaxMatches = 2
  DepositUnit = 1
  RpcMayFail = TRUE
  MaxRestarts = 0
INVARIANTS
  TypeOK
  NeverOversold
  BookShowsMatches
  MatchesHonourTerms
  SwapsFitDeposits
  LocksAreRounds
  InventoryIsMatched
  LockedQuotesKeepDeposits
PROPERTIES
  InactiveNotMatched
SYMMETRY MCSymmetry
CHECK_DEADLOCK FALSE
