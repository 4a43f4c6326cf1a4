\* A dead-letter queue of one, and one of each thing that goes wrong.
SPECIFICATION FairSpec
CONSTANTS
  Msgs = {m1, m2}
  MaxPending = 1
  MaxDead = 1
  MaxCompleted = 1
  MaxAttempts = 2
  MaxErrors = 1
  MaxFailures = 3
  MaxStops = 1
  MaxCrashes = 1
  Null = Null
INVARIANTS WithinCapacity OneTurn AckedIsStored CompletedIsSettled
PROPERTIES AckedComesToRest ImplementsInboundCustody
CHECK_DEADLOCK FALSE
