CONSTANTS
  TimeCodes = 4
  Rmap = FALSE
  C_NB_TX_DESCRIPTOR = 4
  C_NB_RX_DESCRIPTOR = 4
  TxRing = 3
  RxRing = 3
  WrapBit = TRUE
  MaxArmed = 2
  Lengths = {0}
  BufferAddress = 1000
  GuestWrites <- ResetWrites
  Incoming <- Nothing
SPECIFICATION Spec
INVARIANT TxInOrder
