SPECIFICATION FairSpec
CONSTANTS
  Workers = {w1}
  Rows = {1, 2}
  Replies = 1
  MaxAttempts = 3
  MaxRowsPerRun = 1
  Backoff <- ShortBackoff
  StaleAfter = 1
  RunLimit = 1
  Delays = {0, 1}
  MoveTo = {}
  MaxUpsets = 2
PROPERTIES
  EveryRowResolves
