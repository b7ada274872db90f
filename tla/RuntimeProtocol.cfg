\* Two requests for two agents, one perhaps continuing the other's conversation
\* before it has ended, against an engine that may hang, exit, refuse calls, fail
\* turns and report before it answers, and callers that may leave at any event;
\* every line readable and one configuration.
CONSTANTS
  r1 = r1
  r2 = r2
  general = general
  special = special
  confA = confA
  confB = confB
  None = None
  Requests <- TwoRequests
  Legacy <- NoLegacy
  Profiles <- TwoProfiles
  Default = general
  Asks <- AnyAgent
  Configs <- OneConfig
  Initially <- OneConfig
  Offers <- SpecialWithdrawn
  EagerCallers = TRUE
  Chatty = FALSE
  MaxNotes = 1
  MaxEdits = 0
  MaxGarbles = 0
  MaxTroubles = 0
SPECIFICATION Spec
SYMMETRY Symmetry
INVARIANTS
  EventsReachTheirTurnOnce
PROPERTIES
  ConversationKeepsIdentity
CHECK_DEADLOCK FALSE
