----------------------------- MODULE MCIdleList -----------------------------
(***************************************************************************)
(* IdleList for TLC: three connections with every callback in the base     *)
(* loop (nThread <= 1), or two with an I/O loop each.                      *)
(***************************************************************************)
EXTENDS IdleList

CONSTANTS c1, c2, c3, base, io1, io2

OneLoop == [c \in {c1, c2, c3} |-> base]
TwoLoops == [c \in {c1, c2} |-> IF c = c1 THEN io1 ELSE io2]
EitherChoice == {OneLoop, TwoLoops}
TwoLoopsOnly == {TwoLoops}
=============================================================================
