----------------------------- MODULE MCConnPool -----------------------------
EXTENDS ConnPool, TLC
Symmetry == Permutations(Thread) \cup Permutations(Conn)
=============================================================================
