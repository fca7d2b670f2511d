SPECIFICATION Spec
CONSTANTS
  prog = prog
  a = a
  b = b
  m = m
  s = s
  u = u
  Node = {prog, a, b, m, s, u}
  Graphs <- MCGraphs
  Old = {0, 1, 2}
  Limits = {1, 2}
  Nil = Nil
CHECK_DEADLOCK FALSE
INVARIANTS TypeOK JobsInOrder SlotsBusy UpToDate
PROPERTIES Terminates
