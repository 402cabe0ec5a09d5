SPECIFICATION Spec
CONSTANTS
  Candidates = {c1, c2}
  Hour = 2
  DayHours = 3
  WeekDays = 2
  YearDays = 4
  Offset = 3
  Gap = 3
  Lead = 1
  Lookahead = 3
  Fallback = {0, 1}
  MinSamples = 2
  Window = 24
  Grace = 2
  Start = 20
  MaxNow = 26
  Histories <- MCHistories
  Others <- MCOthers
  Texts <- MCTexts
INVARIANT TonightIsAccepted
CHECK_DEADLOCK FALSE
