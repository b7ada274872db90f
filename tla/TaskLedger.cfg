\* Seven stories of one task: recovery, rework, closing, drafts, a crash, something sent, and
\* something of which that is not known.
SPECIFICATION TaskSpec
CONSTANTS
  StepIds = {1, 2}
  Stories <- MCStories
INVARIANT RecoveryHolds
INVARIANT NextIsRunnable
INVARIANT ResultsAreOfTheStep
PROPERTY StartsAreApproved
CHECK_DEADLOCK FALSE
