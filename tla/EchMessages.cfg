CONSTANTS
  Messages = {m1, m2, m3}
  Services = {s1, s2}
  Transactions = {t1, t2, t3}
  MaxTime = 2
  MaxRestarts = 1
  NoMessage = NoMessage
SPECIFICATION FairEchSpec
INVARIANTS
  SkippedWasOvertaken
PROPERTIES
  EveryMessageRead
CHECK_DEADLOCK FALSE
