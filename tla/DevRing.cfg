CONSTANTS
  TimeCodes = 4
  Rmap = FALSE
  C_NB_TX_DESCRIPTOR = 4
  C_NB_RX_DESCRIPTOR = 4
  TxRing = 3
  RxRing = 3
  WrapBit = TRUE
  MaxArmed = 2
  Lengths = {8}
  BufferAddress = 1000
  GuestWrites <- RingWrites
  Incoming <- RingIncoming
SPECIFICATION Spec
INVARIANTS TxInOrder RxInOrder CursorsAgree
PROPERTIES TxTableIsQueue RxTableIsQueue
