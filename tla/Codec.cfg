SPECIFICATION CodecSpec
CONSTANTS
  Size = {0, 1, 4, 5, 6}
  kHeaderLen = 4
  MaxLen = 5
  MaxSends = 3
INVARIANTS CodecTypeOK ShutsOnlyAtOversize
PROPERTIES CodecIsQueue EveryMessageArrives
CHECK_DEADLOCK FALSE
