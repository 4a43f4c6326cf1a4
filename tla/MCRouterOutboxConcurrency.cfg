\* One commit fails.
SPECIFICATION Spec
CONSTANTS
  Tasks = {t1, t2}
  Slots = {s1, s2, s3}
  Concurrency = 2
  MaxAttempts = 2
  MaxPending = 2
  MaxDeadLetters = 1
  KeysExpire = FALSE
  LateEvents = FALSE
  CommitErrors = {"failed"}
  MaxErrors = 1
  MaxCrashes = 0
  MaxReplays = 0
  Null = Null
INVARIANTS BoundedConcurrency
