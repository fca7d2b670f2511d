SPECIFICATION Spec
CONSTANTS
  p = p
  q = q
  r = r
  un = un
  bu = bu
  Thread <- MCThread
  Chan <- MCChan
  Size <- TwoSendersSize
  Sends <- TwoSendersSends
  Recvs <- TwoSendersRecvs
  Alts <- NoAlts
  NSlot = 3
  UMod = 4
  MaxSend <- TwoSendersMax
  None = None
CHECK_DEADLOCK FALSE
INVARIANT NoDuplicate
