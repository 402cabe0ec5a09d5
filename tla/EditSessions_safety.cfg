CONSTANTS
  Senders = {u1, u2}
  Flows = {"trendeng", "engagement"}
  Rows <- OverlappingRows
  Listing = {"engagement"}
  Times = {t1}
  Handlers = {h1, h2}
  MaxSessions = 3
  MaxFaults = 1
SPECIFICATION SessionSpec
SYMMETRY Symmetry
INVARIANTS
  TextsAreAskedFor
  ConfirmedTimeWasShown
PROPERTY
  LaterAskStays
CHECK_DEADLOCK FALSE
