CONSTANTS
  TimeCodes = 4
  l1 = l1
  l2 = l2
  NoLink = NoLink
  Links = {l1, l2}
  TxRing = 2
  RxRing = 1
  QMax = 2
  MaxStrays = 0
  DeviceRestarts = TRUE
  GuestWrites <- TxWrites
  DevSends <- TxSends
SPECIFICATION Spec
INVARIANTS AckHandshake HeldDescriptors TxExactlyOnce
PROPERTY ImplementsStopAndWait
