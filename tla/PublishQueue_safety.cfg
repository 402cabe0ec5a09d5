SPECIFICATION Spec
CONSTANTS
  Workers = {w1, w2}
  Rows = {1}
  Replies = 2
  MaxAttempts = 3
  MaxRowsPerRun = 2
  Backoff <- ShortBackoff
  StaleAfter = 1
  RunLimit = 1
  Delays = {0}
  MoveTo = {1}
  MaxUpsets = 3
INVARIANTS
  OnePublisher
  PublisherOwnsRow
  CheckpointIsLive
  LaterRepliesOnce
PROPERTIES
  SecondRootOnlyUncounted
  ImplementsThread
