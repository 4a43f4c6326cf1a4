\* A live store may be silent for lockTimeoutMs.
SPECIFICATION Spec
CONSTANTS
  w1 = w1
  w2 = w2
  w3 = w3
  here = here
  there = there
  Writers = {w1, w2, w3}
  Host <- TwoHosts
  Tasks = {t1, t2}
  Null = Null
  MaxEnds = 0
  Mishaps = {"late"}
PROPERTIES OnlyOwnerWrites
CHECK_DEADLOCK FALSE
