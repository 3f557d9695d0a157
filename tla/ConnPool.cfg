CONSTANTS
  Thread = {t1, t2, t3}
  Conn = {c1, c2, c3, c4, c5}
  NULL = NULL
  _maxSize = 2
SYMMETRY Symmetry
SPECIFICATION Spec
INVARIANTS PoolTypeOK BooksBalance OneOwner
