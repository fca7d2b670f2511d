SPECIFICATION Spec
CONSTANTS
  Main = m
  MainThread = m1
  Proc = {m, a}
  Thread = {m1, c1, c2}
  Tag = {x}
  Spawner = {m, a}
  MainLeaves = FALSE
  WaitChan = FALSE
  None = None
CHECK_DEADLOCK FALSE
INVARIANT AssertionsHold
