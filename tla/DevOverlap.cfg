CONSTANTS
  TimeCodes = 4
  Rmap = FALSE
  C_NB_TX_DESCRIPTOR = 64
  C_NB_RX_DESCRIPTOR = 2
  TxRing = 64
  RxRing = 1
  WrapBit = FALSE
  MaxArmed = 2
  Lengths = {8}
  BufferAddress = 1000
  GuestWrites <- TxOnly
  Incoming <- Nothing
SPECIFICATION Spec
INVARIANT TxInOrder
