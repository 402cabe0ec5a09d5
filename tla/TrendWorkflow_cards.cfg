SPECIFICATION FairSpec
CONSTANTS
  Cands = {c1, c2}
  Texts = {t1}
  NoText = NoText
  Rows = {1}
  Passes = {p1, p2}
  Taps = {}
  Found <- MCFound
  DraftLimit = 1
  Origins = {"new"}
  UpsetKinds = {"crash", "card"}
  MaxUpsets = 2
INVARIANTS
  ClaimHeld
  OneCardUnlessLost
PROPERTIES
  Attended
CHECK_DEADLOCK FALSE
