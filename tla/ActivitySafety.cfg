\* Three activities, a window of two, two handlers, early retries and one
\* restart: a reply can be evicted before its acceptance is heard of.
CONSTANTS
  a1 = a1
  a2 = a2
  a3 = a3
  c1 = c1
  c2 = c2
  Activities <- Three
  Unidentified <- Nobody
  Calls <- TwoCalls
  Limit = 2
  EarlyRetry = TRUE
  MaxRestarts = 1
SPECIFICATION Spec
SYMMETRY ThreeSymmetry
INVARIANTS
  OneHandlerPerActivity
  MemoryIsSound
  WithinWindow
PROPERTIES
  ImplementsPromise
CHECK_DEADLOCK FALSE
