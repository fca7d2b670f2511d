SPECIFICATION Spec
CONSTANTS
  p = p
  q = q
  r = r
  un = un
  bu = bu
  Thread <- MCThread
  Chan <- MCChan
  Size <- MixedSize
  Sends <- MixedSends
  Recvs <- MixedRecvs
  Alts <- MixedAlts
  NSlot = 3
  UMod = 4
  MaxSend <- MixedMax
  None = None
CHECK_DEADLOCK FALSE
INVARIANTS TypeOK NoDuplicate NoLoss SenderOrder NoForgottenWaiter OneClaimer AltTellsTruth
