\* No write fails and nothing stops: only dispatches fail.
SPECIFICATION Spec
CONSTANTS
  Msgs = {m1, m2}
  MaxPending = 1
  MaxDead = 1
  MaxCompleted = 1
  MaxAttempts = 2
  MaxErrors = 0
  MaxFailures = 1
  MaxStops = 0
  MaxCrashes = 0
  Null = Null
INVARIANTS FailedTurnIsRetried
CHECK_DEADLOCK FALSE
