\* No commit goes wrong; events come while the service runs.
SPECIFICATION FairSpec
CONSTANTS
  Tasks = {t1, t2, t3}
  Slots = {s1, s2, s3}
  Concurrency = 2
  MaxAttempts = 2
  MaxPending = 2
  MaxDeadLetters = 1
  KeysExpire = FALSE
  LateEvents = FALSE
  CommitErrors = {}
  MaxErrors = 0
  MaxCrashes = 1
  MaxReplays = 1
  Null = Null
INVARIANTS OnePlace StopReleasesLease
PROPERTIES PendingIsSettled
