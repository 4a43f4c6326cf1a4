\* Two processes that crash and restart, two calls, overlapping sends, a host
\* whose `ps` may fail.
SPECIFICATION Spec
CONSTANTS
  Ids = {i1}
  Fingerprints = {f1, f2}
  Hashes = {h1, h2}
  Pids = {p1, p2}
  Null = Null
  Calls = {c1, c2}
  MaxSends = 2
  MaxCrashes = 2
  PsMayFail = TRUE
SYMMETRY Interchangeable
INVARIANTS AtMostOneTurn OneActiveCall DecidedSendsConfirmed NoStrandedClaim
PROPERTIES RetryLeavesNoTrace ImplementsInboundTurn
