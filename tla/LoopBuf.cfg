CONSTANTS
  m_nBufSize = 12
  INTERVAL_SPACE = 2
  LEN_INT = 2
  HEAD_LEN = 3
  CHECK_SIZE = 7
  nDataBufSize = 4
  Calls <- AllCalls
  GarbageLens <- Misread
  SyncSizes <- WithSync
  MaxFrames = 5
SPECIFICATION FairSpec
INVARIANTS TypeOK UnreadIntact NeverEmptied
PROPERTIES ImplementsPacketQueue EveryPacketHandedOut
