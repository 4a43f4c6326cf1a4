\* The account may wait for a review longer than the entries' 24 hours.
SPECIFICATION Spec
CONSTANTS
  Log = 3
  Events = {}
  PageSize = 2
  MaxPages = 2
  Attempts = 2
  SlowReview = TRUE
  MaxErrors = 0
  MaxStops = 0
  MaxCrashes = 0
  Null = Null
INVARIANTS OneTurnPerMessage
CHECK_DEADLOCK FALSE
