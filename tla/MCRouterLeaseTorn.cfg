\* A starting store may read owner.json while a heartbeat rewrites it.
SPECIFICATION Spec
CONSTANTS
  w1 = w1
  w2 = w2
  w3 = w3
  here = here
  there = there
  Writers = {w1, w2, w3}
  Host <- OneHost
  Tasks = {t1}
  Null = Null
  MaxEnds = 0
  Mishaps = {"torn"}
INVARIANTS OneActiveWriter
CHECK_DEADLOCK FALSE
