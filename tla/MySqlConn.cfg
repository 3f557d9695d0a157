SPECIFICATION ConnSpec
CONSTANTS
  RowLength <- Lengths
  MaxPacket = 3
  AtCall = {"null", "open"}
  MaxOutages = 2
INVARIANTS ConnTypeOK RowsWhole RepeatedOnlyIfLost
PROPERTY CallEnds
CHECK_DEADLOCK FALSE
