\* The rules of a round and of the bot's quotes over bounded inputs, with the
\* settings of mm_config.yaml.
SPECIFICATION Spec
CONSTANTS
  FilterWallets = {1, 2, 3, 4}
  MaxPrice = 4
  MaxFill = 2
  PriceOutlierPct = 5
  PoolUnit = 600
  StaleSec = 10
  FeedOutlierPct = 2
  ShockPct = 5
  ShockWindowSec = 60
  MaxExposurePct = 70
  MinInventoryPct = 5
  BaseBps = 10
  MinBps = 5
  MaxBps = 100
  VolMultMax = 3
  VolWindowSec = 60
  RefreshBps = 5
INVARIANTS
  FilterSeparatesWallets
  FilterKeepsTrade
  AcceptedFits
  RoundAppliedIffSound
  WinnerProposes
  FairPriceRobust
  QuotesStraddlePrice
  SomeSideQuoted
CHECK_DEADLOCK FALSE
