SPECIFICATION FairSpec
CONSTANTS
  Replies = {r1}
  Answers = {t1, t2}
  NoAnswer = NoAnswer
  Scans = {s1, s2}
  Publishers = {p1, p2}
  MaxAttempts = 2
  Kinds = {"crash", "card", "store", "api"}
  MaxFaults = 2
INVARIANTS
  PostingHeld
  AnswersAccounted
  ApprovedTextKept
  AttemptsBounded
  OneCard
PROPERTIES
  LeadNoticed
  ApprovedResolves
CHECK_DEADLOCK FALSE
