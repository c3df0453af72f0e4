CONSTANTS
  Packet <- MCPacket
  LOOPBACK_SIZE = 11
  HeaderSize = 4
  MAX_MSGLEN = 6
  IntMax = 31
  Limit = 24
SPECIFICATION Spec
INVARIANTS TypeOK RingHoldsQueue
PROPERTY ImplementsPacketQueue
