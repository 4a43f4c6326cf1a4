\* A turn may take longer than the TTL of its stream.
SPECIFICATION Spec
CONSTANTS
  MaxMessages = 3
  Null = Null
  Mishaps = {"slow"}
PROPERTIES FinishAdvancesQueue
CHECK_DEADLOCK FALSE
