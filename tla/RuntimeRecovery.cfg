\* Two requests that ask for an agent or leave it open, callers that may leave,
\* and one of: an edit that may withdraw the agent, an unreadable line, or before
\* either an engine that puts requests of its own again and again and leaves its
\* stdin full.  No symmetry, for the liveness property.
CONSTANTS
  r1 = r1
  r2 = r2
  general = general
  special = special
  confA = confA
  confB = confB
  None = None
  Requests <- TwoRequests
  Legacy <- NoLegacy
  Profiles <- TwoProfiles
  Default = general
  Asks <- SpecialOrNone
  Configs <- TwoConfigs
  Initially <- OneConfig
  Offers <- SpecialWithdrawn
  EagerCallers = FALSE
  Chatty = TRUE
  MaxNotes = 0
  MaxEdits = 1
  MaxGarbles = 1
  MaxTroubles = 2
SPECIFICATION FairSpec
INVARIANTS
  ThreadsAreLive
  EngineFits
  AttachmentsWhereTurnRuns
PROPERTIES
  EveryRequestFinishes
CHECK_DEADLOCK FALSE
