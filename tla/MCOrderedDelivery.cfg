SPECIFICATION FairSpec
CONSTANTS
  Ordinary = {p, q}
  Malformed = {bad}
  Closing = {bye}
  IndexSpace = 8
  Window = 5
  MaxSent = 5
INVARIANTS
  TypeOK
  BufferMatchesPeer
PROPERTIES
  ImplementsChannel
  EveryPayloadDelivered
CHECK_DEADLOCK FALSE
