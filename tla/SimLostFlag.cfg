CONSTANTS
  TimeCodes = 4
  l1 = l1
  l2 = l2
  NoLink = NoLink
  Links = {l1}
  TxRing = 1
  RxRing = 2
  QMax = 2
  MaxStrays = 0
  DeviceRestarts = FALSE
  GuestWrites <- RxWrites
  DevSends <- RxSends
SPECIFICATION Spec
PROPERTY ClearBitsKept
