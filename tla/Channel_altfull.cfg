SPECIFICATION Spec
CONSTANTS
  p = p
  q = q
  r = r
  un = un
  bu = bu
  Thread <- MCThread
  Chan <- MCChan
  Size <- TwoSendersSize
  Sends <- AltFullSends
  Recvs <- AltFullRecvs
  Alts <- AltFullAlts
  NSlot = 3
  UMod = 4
  MaxSend <- AltFullMax
  None = None
CHECK_DEADLOCK FALSE
INVARIANT WithinBuffer
