SPECIFICATION IdleFairSpec
CONSTANTS
  c1 = c1  c2 = c2  c3 = c3
  base = base  io1 = io1  io2 = io2
  Conn = {c1, c2, c3}
  End = End
  Loop = {base, io1, io2}
  BaseLoop = base
  LoopChoices <- TwoLoopsOnly
  idleSeconds_ = 1
  LastOpen = 0
  MaxNow = 3
  MaxJump = 0
PROPERTY EveryConnectionEnds
CHECK_DEADLOCK FALSE
