SPECIFICATION FairSpec
CONSTANTS
  Thread = {t1, t2, t3, t4}
  Qlp = {x1, x2}
  NoQlp = NoQlp
CHECK_DEADLOCK FALSE
INVARIANTS TypeOK Exclusion NoVainWait
PROPERTIES NoStarvation ImplementsFairRWLock
