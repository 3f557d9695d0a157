-------------------------------- MODULE Codec --------------------------------
(***************************************************************************)
(* LengthHeaderCodec (ulordcenter/codec.h and unode/codec.h): one          *)
(* direction of a TCP connection.  send puts a length before each message; *)
(* the bytes arrive in pieces of any size; onMessage takes whole messages  *)
(* off the front of the receive buffer, and shuts the connection down at a *)
(* length over the limit.  A byte is modelled by what it is a part of.     *)
(***************************************************************************)
EXTENDS Naturals, Sequences

CONSTANTS
  Size,        \* lengths of messages
  kHeaderLen,  \* 4 in the code
  MaxLen,      \* 65536 in the code
  MaxSends     \* bound: how many messages are sent

ASSUME CodecAssumption ==
  /\ Size \subseteq Nat
  /\ kHeaderLen \in Nat \ {0}
  /\ MaxLen \in Nat /\ MaxSends \in Nat

VARIABLES
  sent,       \* history: the messages sent
  wire,       \* bytes sent that have not arrived
  buf,        \* bytes that arrived and were not retrieved
  busy,       \* onMessage is in its loop
  shut,       \* onMessage has called shutdown()
  delivered   \* history: what the message callback was given

codecVars == <<sent, wire, buf, busy, shut, delivered>>

\* A message is known by its place in the stream and its length.
Message == [id : 1 .. MaxSends, len : Size]
Header(m) == [k \in 1 .. kHeaderLen |-> [m |-> m, part |-> "head", k |-> k]]
Body(m) == [k \in 1 .. m.len |-> [m |-> m, part |-> "body", k |-> k]]

Packet(m) == [len |-> m.len, bytes |-> Body(m)]

CodecInit ==
  /\ sent = <<>> /\ wire = <<>> /\ buf = <<>>
  /\ busy = FALSE /\ shut = FALSE
  /\ delivered = <<>>

\* Mutant: the header is not prepended.
sendBare(n) ==
  LET m == [id |-> Len(sent) + 1, len |-> n] IN
  /\ Len(sent) < MaxSends
  /\ sent' = Append(sent, m)
  /\ wire' = wire \o Body(m)
  /\ UNCHANGED <<buf, busy, shut, delivered>>

\* The header is prepended to the message and both go to the connection at once.
send(n) ==
  LET m == [id |-> Len(sent) + 1, len |-> n] IN
  /\ Len(sent) < MaxSends
  /\ sent' = Append(sent, m)
  /\ wire' = wire \o Header(m) \o Body(m)
  /\ UNCHANGED <<buf, busy, shut, delivered>>

\* The loop reads what has arrived into the buffer and calls onMessage.
Arrive(n) ==
  /\ ~busy
  /\ n \in 1 .. Len(wire)
  /\ buf' = buf \o SubSeq(wire, 1, n)
  /\ wire' = SubSeq(wire, n + 1, Len(wire))
  /\ busy' = TRUE
  /\ UNCHANGED <<sent, shut, delivered>>

\* networkToHost32 of the first bytes: the length that was sent, when the buffer
\* begins with a header; otherwise any length at all.
Lengths ==
  IF SubSeq(buf, 1, kHeaderLen) = Header(buf[1].m) THEN {buf[1].m.len} ELSE Size

\* Mutant: the loop asks for more than a header.
EnoughForHeaderStrict == Len(buf) > kHeaderLen

EnoughForHeader == Len(buf) >= kHeaderLen

Whole(len) == Len(buf) >= len + kHeaderLen

\* Mutant: the limit itself is refused.
TooLongAtLimit(len) == len >= MaxLen

TooLong(len) == len > MaxLen

\* shutdown() and out of the loop; the buffer keeps the header.
Refuse ==
  /\ busy /\ EnoughForHeader
  /\ \E len \in Lengths : TooLong(len)
  /\ shut' = TRUE
  /\ busy' = FALSE
  /\ UNCHANGED <<sent, wire, buf, delivered>>

\* Mutant: only the message is retrieved from the buffer, not its header.
DeliverKeepsHeader ==
  /\ busy /\ EnoughForHeader
  /\ \E len \in Lengths :
       /\ ~TooLong(len) /\ Whole(len)
       /\ delivered' = Append(delivered,
            [len |-> len, bytes |-> SubSeq(buf, kHeaderLen + 1, kHeaderLen + len)])
       /\ buf' = SubSeq(buf, len + 1, Len(buf))
  /\ Len(delivered) < MaxSends
  /\ UNCHANGED <<sent, wire, busy, shut>>

\* The header is retrieved, the callback gets the message, and the message is
\* retrieved; then the loop goes round again.
Deliver ==
  /\ busy /\ EnoughForHeader
  /\ \E len \in Lengths :
       /\ ~TooLong(len) /\ Whole(len)
       /\ delivered' = Append(delivered,
            [len |-> len, bytes |-> SubSeq(buf, kHeaderLen + 1, kHeaderLen + len)])
       /\ buf' = SubSeq(buf, kHeaderLen + len + 1, Len(buf))
  /\ UNCHANGED <<sent, wire, busy, shut>>

\* Not enough for a header or for the message: wait for more.
Wait ==
  /\ busy
  /\ EnoughForHeader => \E len \in Lengths : ~TooLong(len) /\ ~Whole(len)
  /\ busy' = FALSE
  /\ UNCHANGED <<sent, wire, buf, shut, delivered>>

CodecNext ==
  \/ \E n \in Size : send(n)
  \/ \E n \in 1 .. Len(wire) : Arrive(n)
  \/ Refuse \/ Deliver \/ Wait

\* TCP delivers what was sent, and the loop runs its callbacks.
CodecSpec ==
  /\ CodecInit /\ [][CodecNext]_codecVars
  /\ WF_codecVars(\E n \in 1 .. Len(wire) : Arrive(n))
  /\ WF_codecVars(Refuse \/ Deliver \/ Wait)

-----------------------------------------------------------------------------
\* The variables have their types, and the bytes between the two ends are the
\* tail of what was sent.
CodecTypeOK ==
  /\ sent \in Seq(Message) /\ Len(sent) <= MaxSends
  /\ busy \in BOOLEAN /\ shut \in BOOLEAN
  /\ \A i \in DOMAIN delivered : delivered[i].len = Len(delivered[i].bytes)
  /\ LET stream == [i \in DOMAIN sent |-> Header(sent[i]) \o Body(sent[i])]
         rest == buf \o wire
         total[i \in 0 .. Len(sent)] ==
           IF i = 0 THEN <<>> ELSE total[i - 1] \o stream[i]
         all == total[Len(sent)]
     IN  rest = SubSeq(all, Len(all) - Len(rest) + 1, Len(all))

\* The messages sent and not yet given to the callback, as a queue.
Undelivered == [i \in 1 .. Len(sent) - Len(delivered) |->
                  Packet(sent[Len(delivered) + i])]
Queue == INSTANCE PacketQueue WITH queue <- Undelivered

\* However the bytes are cut into pieces, the callback of onMessage is given the
\* messages that were sent: each one once, whole and in order, and never a part
\* of one or two run together.
CodecIsQueue == Queue!Spec

\* onMessage shuts the connection down only for a message over the limit, never
\* because it took other bytes for a length; and what follows such a message is
\* not delivered.
ShutsOnlyAtOversize ==
  /\ shut => \E i \in DOMAIN sent : sent[i].len > MaxLen
  /\ \A i \in DOMAIN sent : sent[i].len > MaxLen => Len(delivered) < i

\* Every message sent is delivered in the end, unless the receiver has shut the
\* connection down: no boundary of the length or of a piece leaves one waiting.
EveryMessageArrives ==
  \A i \in 1 .. MaxSends : (Len(sent) >= i) ~> (Len(delivered) >= i \/ shut)
=============================================================================
