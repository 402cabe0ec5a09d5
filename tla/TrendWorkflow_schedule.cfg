SPECIFICATION Spec
CONSTANTS
  Cands = {c1}
  Texts = {t1, t2}
  NoText = NoText
  Rows = {1, 2}
  Passes = {p1}
  Taps = {a1, a2}
  Found <- MCFound
  DraftLimit = 1
  Origins = {"new", "unstamped", "linked"}
  UpsetKinds = {"crash", "card"}
  MaxUpsets = 1
INVARIANTS
  ScheduledWasSeen
  OneRowUnlessTwins
  DecisionsExclude
PROPERTY LifecycleKept
CHECK_DEADLOCK FALSE
