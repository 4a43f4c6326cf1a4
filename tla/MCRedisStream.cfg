\* Two entries, two processes, two loops at a time, one fault.
SPECIFICATION FairRedisSpec
CONSTANTS
  Ids = {1, 2}
  Fingerprints = {f1}
  Hashes = {h1}
  Pids = {p1, p2}
  Null = Null
  Loops = {l1, l2}
  BatchSize = 2
  MaxAttempts = 2
  MaxFaults = 1
INVARIANTS OneTurnPerEntry EntryKept
PROPERTIES EveryEntryLeaves ImplementsInboundCustody
CHECK_DEADLOCK FALSE
