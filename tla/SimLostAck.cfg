CONSTANTS
  TimeCodes = 4
  l1 = l1
  l2 = l2
  NoLink = NoLink
  Links = {l1}
  TxRing = 1
  RxRing = 1
  QMax = 1
  MaxStrays = 0
  DeviceRestarts = FALSE
  GuestWrites <- MixWrites
  DevSends <- MixSends
SPECIFICATION FairSpec
PROPERTY EveryAckContinues
