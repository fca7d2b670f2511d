SPECIFICATION Spec
CONSTANTS
  Fids = {a, b, c}
  Size = 2
  Overtake = TRUE
  MaxMsgs = 2
  Nil = Nil
SYMMETRY Symmetry
INVARIANTS NobodyReadsYet
