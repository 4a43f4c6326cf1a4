\* A store is started long after it was constructed, or reused after a stop.
SPECIFICATION Spec
CONSTANTS
  w1 = w1
  w2 = w2
  w3 = w3
  here = here
  there = there
  Writers = {w1, w2, w3}
  Host <- TwoHosts
  Tasks = {t1}
  Null = Null
  MaxEnds = 0
  Mishaps = {"waited"}
INVARIANTS OneActiveWriter
CHECK_DEADLOCK FALSE
