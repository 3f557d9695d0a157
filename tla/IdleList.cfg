SPECIFICATION IdleFairSpec
CONSTANTS
  c1 = c1  c2 = c2  c3 = c3
  base = base  io1 = io1  io2 = io2
  Conn = {c1, c2, c3}
  End = End
  Loop = {base, io1, io2}
  BaseLoop = base
  LoopChoices <- EitherChoice
  idleSeconds_ = 1
  LastOpen = 1
  MaxNow = 3
  MaxJump = 1
INVARIANTS IdleTypeOK ListExact
PROPERTIES TimedOutAreCut EndsUnlessOverlapped
CHECK_DEADLOCK FALSE
