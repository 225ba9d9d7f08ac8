CONSTANTS
  MaxEdits = 1
  MaxPosts = 1
  MaxTime = 2
  Grace = 0
  Extension = 1
SPECIFICATION LiveSpec
INVARIANTS
  SubmittingMeansPosted
PROPERTIES
  SavedForward
  TimeUpEndsPage
  AutosaveGoesOn
CHECK_DEADLOCK FALSE
