SPECIFICATION FairSpec
CONSTANTS
  PayloadLen = 3
  Payloads <- SomePayloads
  Hits = {1, 4, 7}
  ZeroSamples = 2
  None = None
INVARIANTS
  SriTypeOK
  CaptureIsOfOneConnection
  VerdictIsOwn
  IntactFrameDecoded
  FilterNotSmeared
PROPERTIES
  StreamRestarts
