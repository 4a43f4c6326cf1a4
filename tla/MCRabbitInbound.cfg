\* One process that may crash once and lose its connection once.
SPECIFICATION FairRabbitSpec
CONSTANTS
  Ids = {i1}
  Fingerprints = {f1}
  Hashes = {h1}
  Pids = {p1}
  Null = Null
  Calls = {c1, c2}
  MaxSends = 1
  MaxCrashes = 1
  PsMayFail = TRUE
  Messages <- AllMessages
  MaxCopies = 1
  MaxLosses = 1
  RequeueOnError = TRUE
INVARIANTS Custody
PROPERTIES EveryMessageResolved
CHECK_DEADLOCK FALSE
