SPECIFICATION Spec
CONSTANTS
  Opps = {1}
  Texts = {t1, t2}
  NoText = NoText
  Watchdogs = {w1, w2}
  Taps = {p1, p2}
  Browsers = {b1, b2}
  UpsetKinds = {"crash", "page"}
  MaxUpsets = 2
  MaxBlind = 1
  MaxBusy = 3
INVARIANTS
  ApprovedWasSeen
  
  OnlyApprovedText
  ResentOnlyBlindly
  DeliveryOnRecord
PROPERTIES
  ApprovalIsFinal
  ImplementsAuthority
SYMMETRY Interchangeable
CONSTRAINT FewBusy
CHECK_DEADLOCK FALSE
