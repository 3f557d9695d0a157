SPECIFICATION ServerSpec
CONSTANTS
  Worker = {w1, w2}
  Addr = {a1}
  Host = {h1}
  Flag = {0}
  None = None
  MaxWrites = 1
  Conn = {c1, c2, c3}
  NULL = NULL
  _maxSize = 2
INVARIANTS NoLeak PoolSuffices
PROPERTY QuestEnds
CHECK_DEADLOCK FALSE
