CONSTANTS
  TimeCodes = 4
  MaxLen = 16
  Headers <- SomeHeaders
  Payloads <- SomePayloads
  PeerPackets <- SomePackets
  PeerTimes <- SomeTimes
  HeaderRoom = 4
  DataRoom = 4
  RamSize = 36
  RxMax = 4
  Ndr = 254
  RecvAtt <- SomeFlags
  C_MAXQ_SIZE = 13
  QMax = 1
SPECIFICATION Spec
INVARIANTS WordsSwapped PacketArrives GuestGetsPacket RamKept
CHECK_DEADLOCK FALSE
