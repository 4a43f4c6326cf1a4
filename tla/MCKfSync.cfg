\* Two pages, one stop and one crash, one write or request that goes wrong.
SPECIFICATION FairSpec
CONSTANTS
  Log = 3
  Events <- SecondIsEvent
  PageSize = 2
  MaxPages = 2
  Attempts = 2
  SlowReview = FALSE
  MaxErrors = 1
  MaxStops = 1
  MaxCrashes = 1
  Null = Null
INVARIANTS OneTurnPerMessage NothingSkipped DoubtIsOnDisk
PROPERTIES NoticeWorkedOff ImplementsInboundCustody
CHECK_DEADLOCK FALSE
