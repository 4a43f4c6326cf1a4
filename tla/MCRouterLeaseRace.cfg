\* Two stores start after another one ended.
SPECIFICATION Spec
CONSTANTS
  w1 = w1
  w2 = w2
  w3 = w3
  here = here
  there = there
  Writers = {w1, w2, w3}
  Host <- OneHost
  Tasks = {t1, t2}
  Null = Null
  MaxEnds = 1
  Mishaps = {"overlap"}
SYMMETRY Interchangeable
INVARIANTS OneActiveWriter
CHECK_DEADLOCK FALSE
