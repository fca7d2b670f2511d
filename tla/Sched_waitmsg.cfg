SPECIFICATION Spec
CONSTANTS
  Main = m
  MainThread = m1
  Proc = {m, a, b}
  Thread = {m1, m2, c1, c2}
  Tag = {x, y}
  Spawner = {m}
  MainLeaves = FALSE
  WaitChan = TRUE
  None = None
CHECK_DEADLOCK FALSE
INVARIANT AssertionsHold
