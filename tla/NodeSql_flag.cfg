SPECIFICATION NodeSpec
CONSTANTS
  Worker = {w1, w2}
  Addr = {a1, a2}
  Host = {h1, h2}
  Flag = {0, 1}
  None = None
  MaxWrites = 0
SYMMETRY Symmetry
INVARIANT FlagWasTrue
CHECK_DEADLOCK FALSE
