\* Stores on two hosts. The first ones may start together; once one has ended, one at a time.
SPECIFICATION FairSpec
CONSTANTS
  w1 = w1
  w2 = w2
  w3 = w3
  here = here
  there = there
  Writers = {w1, w2, w3}
  Host <- TwoHosts
  Tasks = {t1, t2}
  Null = Null
  MaxEnds = 2
  Mishaps = {}
INVARIANTS OneActiveWriter NoLostCommit
PROPERTIES OnlyOwnerWrites RouterReturns
CHECK_DEADLOCK FALSE
