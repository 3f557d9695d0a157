SPECIFICATION ConnSpec
CONSTANTS
  RowLength <- Lengths
  MaxPacket = 3
  AtCall = {"open"}
  MaxOutages = 2
INVARIANT SurvivesOutage
CHECK_DEADLOCK FALSE
