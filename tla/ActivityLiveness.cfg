\* A connector that waits for each response, one restart, and more activities
\* than the window holds.
CONSTANTS
  a1 = a1
  a2 = a2
  a3 = a3
  c1 = c1
  c2 = c2
  Activities <- Two
  Unidentified <- Nobody
  Calls <- TwoCalls
  Limit = 1
  EarlyRetry = FALSE
  MaxRestarts = 1
SPECIFICATION FairSpec
PROPERTY EveryActivityAnswered
CHECK_DEADLOCK FALSE
