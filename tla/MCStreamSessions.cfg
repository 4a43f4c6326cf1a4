\* Messages of a sender who is allowed from the start, is approved later, or never.
SPECIFICATION FairSpec
CONSTANTS
  MaxMessages = 4
  Null = Null
  Mishaps = {}
PROPERTIES ImplementsConversationTurns EveryMessageAnswered
CHECK_DEADLOCK FALSE
