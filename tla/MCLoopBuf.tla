----------------------------- MODULE MCLoopBuf -----------------------------
(* Small rings for TLC: a length field of two bytes and a sync word of one. *)
EXTENDS LoopBuf

\* One-part and two-part calls, bodies of 1 to 4 bytes.
AllCalls == {<<1>>, <<4>>, <<2, 1>>}
TwoCalls == {<<1>>, <<3>>}
\* Sizes of a misread length field: too small for a header, within the ring, huge.
Misread == {0, 4, 20}
\* Of the frames, those of 6 bytes hold the sync word in their data.
WithSync == {6}

\* A misled PopOut can read the same bytes over and over: bound on the packets
\* handed out.
FewHandedOut == Len(delivered) <= 2
=============================================================================
