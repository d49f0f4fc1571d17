CONSTANTS
  TimeCodes = 4
  Rmap = TRUE
  C_NB_TX_DESCRIPTOR = 2
  C_NB_RX_DESCRIPTOR = 2
  TxRing = 2
  RxRing = 1
  WrapBit = FALSE
  MaxArmed = 1
  Lengths = {0}
  BufferAddress = 1000
  GuestWrites <- LinkWrites
  Incoming <- LinkIncoming
SPECIFICATION Spec
INVARIANT DeviceTypeOK
CHECK_DEADLOCK FALSE
