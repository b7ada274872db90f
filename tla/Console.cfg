CONSTANTS
  Profiles = {"general", "special"}
  Default = "general"
  Listed = {"special"}
  MaxTurns = 3
  MaxSessions = 2
  Scopes <- Small
SPECIFICATION FairSpec
INVARIANTS
  TurnsKeepTheirConversation
  ConversationGoesOn
PROPERTIES
  AnswerIsWhole
  NothingHangs
CHECK_DEADLOCK FALSE
