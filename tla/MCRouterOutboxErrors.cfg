\* Commits fail, or take effect and are reported as failed; events come late.
SPECIFICATION Spec
CONSTANTS
  Tasks = {t1, t2}
  Slots = {s1, s2, s3}
  Concurrency = 2
  MaxAttempts = 2
  MaxPending = 2
  MaxDeadLetters = 1
  KeysExpire = TRUE
  LateEvents = TRUE
  CommitErrors = {"failed", "uncertain"}
  MaxErrors = 1
  MaxCrashes = 1
  MaxReplays = 1
  Null = Null
SYMMETRY Interchangeable
INVARIANTS NothingLost
