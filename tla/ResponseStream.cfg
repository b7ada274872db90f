\* Four items of up to two pieces, so that two messages, reasoning and tools
\* interleave, some of them whitespace; one retry.
CONSTANTS
  MaxItems = 4
  MaxPieces = 2
  Blank <- SomeBlank
SPECIFICATION Spec
INVARIANTS
  CompletionIsWhole
  SpeechIntact
  AnswersAlike
PROPERTIES
  ItemsOnlyGrow
CHECK_DEADLOCK FALSE
