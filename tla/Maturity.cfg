CONSTANTS
  NoFile = NoFile
  Pillars <- OnePillar
  DimsOf <- TwoDims
  Opening <- NoOpening
  Levels <- LowHigh
  Words <- Own
  Foreign <- HandWritten
  Supplied <- Starts
  Quotas <- RunOn
  MaxDepth = 2
  Spare = 1
SPECIFICATION FairSpec
INVARIANTS
  ScoreIsHonest
  AnswersAreKept
PROPERTIES
  NobodyWaitsForEver
CHECK_DEADLOCK FALSE
