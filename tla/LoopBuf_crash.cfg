CONSTANTS
  m_nBufSize = 12
  INTERVAL_SPACE = 4
  LEN_INT = 2
  HEAD_LEN = 3
  CHECK_SIZE = 5
  nDataBufSize = 2
  Calls <- TwoCalls
  GarbageLens <- Misread
  SyncSizes <- WithSync
  MaxFrames = 3
SPECIFICATION CrashSpec
PROPERTIES IntactUnlessTorn
CONSTRAINT FewHandedOut
