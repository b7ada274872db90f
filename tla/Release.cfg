\* Two releases, the second of which may reuse the images of the first.
CONSTANTS
  Releases = 2
  Polls = 1
  Environment <- Variables
  Retired <- Secrets
SPECIFICATION FairSpec
INVARIANTS
  VerifiedStays
  ConsoleSurvives
PROPERTIES
  ReleaseEnds
CHECK_DEADLOCK FALSE
