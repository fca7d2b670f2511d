SPECIFICATION Spec
CONSTANTS
  Fids = {a, b, c}
  Size = 2
  Overtake = FALSE
  MaxMsgs = 2
  Nil = Nil
SYMMETRY Symmetry
INVARIANTS TypeOK QueuesAgree NoVainWait NobodyReadsYet RulesHeld
PROPERTIES ImplementsPort
