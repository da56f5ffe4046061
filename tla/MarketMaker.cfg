\* The bot: three quotes, two prices, timeouts and matching rounds.
SPECIFICATION Spec
CONSTANTS
  MaxQuotes = 3
  Mids = {100, 101}
  RefreshBps = 5
INVARIANTS
  TypeOK
  ListedAreFunded
  WithdrawalsSpareRounds
  OpenAreKnown
PROPERTY
  TicksEnd
CHECK_DEADLOCK FALSE
