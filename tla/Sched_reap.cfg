SPECIFICATION FairSpec
CONSTANTS
  Main = m
  MainThread = m1
  Proc = {m, a}
  Thread = {m1, m2, c1}
  Tag = {x, y}
  Spawner = {m}
  MainLeaves = FALSE
  WaitChan = FALSE
  None = None
CHECK_DEADLOCK FALSE
INVARIANTS TypeOK OnePlace AssertionsHold
PROPERTIES RunsAgain Reaping ImplementsRendezvous
