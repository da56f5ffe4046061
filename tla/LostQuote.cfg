\* A quote that could not be cancelled is replaced and forgotten.
SPECIFICATION Spec
CONSTANTS
  MaxQuotes = 3
  Mids = {100, 101}
  RefreshBps = 5
PROPERTY
  OpenQuotesAreKept
CHECK_DEADLOCK FALSE
