CONSTANTS
  N = 4
  TimeLimit <- SomeLimits
  NoLimit = noLimit
SPECIFICATION FairSpec
INVARIANTS AnswerSentOnce ShownIsRecorded FinalizedWhole
PROPERTY GoesOn
CHECK_DEADLOCK FALSE
