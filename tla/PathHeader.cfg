CONSTANTS
  TimeCodes = 4
  MaxLen = 16
  Headers <- TwoHeaders
  Payloads <- SomePayloads
  PeerPackets <- NoPackets
  PeerTimes <- NoPackets
  HeaderRoom = 4
  DataRoom = 4
  RamSize = 36
  RxMax = 4
  Ndr = 254
  RecvAtt <- SomeFlags
  C_MAXQ_SIZE = 13
  QMax = 1
SPECIFICATION Spec
INVARIANT HeaderArrives
CHECK_DEADLOCK FALSE
