SPECIFICATION QueueSpec
CONSTANTS
  Posts = {e1, e2}
  Texts = {t1, t2}
  NoText = NoText
  Executors = {x1, x2}
  MaxFaults = 2
INVARIANTS
  RepliedOnceAsApproved
  ExecutingIsHeld
PROPERTIES
  OutcomeIsFinal
CHECK_DEADLOCK FALSE
