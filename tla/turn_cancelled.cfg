\* Two turns that show two lines of progress each.
SPECIFICATION FeedbackSpec
CONSTANTS
  MaxTurns = 2
  MaxShown = 2
PROPERTY CancelledIsSilent
CHECK_DEADLOCK FALSE
