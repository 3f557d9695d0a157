---------------------------- MODULE PacketQueue ----------------------------
(***************************************************************************)
(* What a transport promises its two ends: a queue of packets.  A packet   *)
(* that is accepted is handed out once, whole and in its turn.  CLoopBuf   *)
(* (PushIn, PopOut) and LengthHeaderCodec (send, onMessage) implement it.  *)
(***************************************************************************)
EXTENDS Sequences, Naturals

VARIABLES queue,      \* accepted and not yet handed out
          delivered   \* handed out, oldest first

Init == queue = <<>> /\ delivered = <<>>

\* The sender's end accepts some packet.
Accept ==
  /\ Len(queue') = Len(queue) + 1
  /\ queue' = Append(queue, queue'[Len(queue) + 1])
  /\ UNCHANGED delivered

\* The receiver's end hands out the oldest one.
HandOut ==
  /\ queue # <<>>
  /\ queue' = Tail(queue)
  /\ delivered' = Append(delivered, Head(queue))

Next == Accept \/ HandOut
Spec == Init /\ [][Next]_<<queue, delivered>>
=============================================================================
