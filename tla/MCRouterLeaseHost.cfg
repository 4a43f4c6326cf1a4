\* Stores on one host, whose heartbeats may be late, and which may be started long after they were made.
SPECIFICATION Spec
CONSTANTS
  w1 = w1
  w2 = w2
  w3 = w3
  here = here
  there = there
  Writers = {w1, w2, w3}
  Host <- OneHost
  Tasks = {t1, t2}
  Null = Null
  MaxEnds = 2
  Mishaps = {"late", "waited"}
SYMMETRY Interchangeable
INVARIANTS OneActiveWriter NoLostCommit
PROPERTIES OnlyOwnerWrites
CHECK_DEADLOCK FALSE
