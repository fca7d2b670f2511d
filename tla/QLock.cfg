SPECIFICATION FairSpec
CONSTANTS
  Thread = {t1, t2, t3, t4}
  Qlp = {x1, x2, x3}
  NoQlp = NoQlp
CHECK_DEADLOCK FALSE
INVARIANTS TypeOK MutualExclusion NoLostLock OneWaiterPerElement WakeUpMeets
PROPERTIES NoStarvation ImplementsFairMutex
