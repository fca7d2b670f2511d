SPECIFICATION Spec
CONSTANTS
  interp = interp
  p1 = p1
  p2 = p2
  p3 = p3
  c = c
  d = d
  Proc = {interp, p1, p2, p3}
  Interpreter = interp
  Chan = {c, d}
  Lists <- MCLists
  Depth = 1
  Crowded = FALSE
  Interactive = FALSE
  None = None
CHECK_DEADLOCK FALSE
SYMMETRY Symmetry
INVARIANTS TypeOK OnePlace QueuesTell
PROPERTIES ImplementsSync
