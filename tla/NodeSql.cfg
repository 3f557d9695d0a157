SPECIFICATION NodeSpec
CONSTANTS
  Worker = {w1, w2}
  Addr = {a1, a2}
  Host = {h1, h2}
  Flag = {0}
  None = None
  MaxWrites = 2
SYMMETRY Symmetry
INVARIANTS NodeTypeOK HostWasTrue
CHECK_DEADLOCK FALSE
