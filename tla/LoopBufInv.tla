----------------------------- MODULE LoopBufInv -----------------------------
(***************************************************************************)
(* The inductive invariant of LoopBuf, the arithmetic of the ring behind   *)
(* it, and the facts that the proofs of the single steps share.            *)
(***************************************************************************)
EXTENDS LoopBuf, TLAPS

(* The inductive invariant.  UnreadIntact alone is not inductive: it needs  *)
(* that what is still to be pushed fits in front of the stale pHead, that   *)
(* the true head lies between pHead and the tail, that the snapshot cTail   *)
(* lies between the head and the tail, and that the consumer stands at the  *)
(* start of a frame whenever it reads a length.                             *)

Wrap(k) == IF k < m_nBufSize THEN k ELSE k - m_nBufSize
Rd == wr - Avail(nHeadPos, nTailPos)
EndOf(f) == f.start + f.size
LastEnd == IF Len(frames) = 0 THEN 0 ELSE EndOf(frames[Len(frames)])
NextStart ==
  IF Len(delivered) < Len(frames) THEN frames[Len(delivered) + 1].start ELSE LastEnd

\* The head h may only have moved from p towards the tail t.
Behind(p, h, t) == IF p <= t THEN p <= h /\ h <= t ELSE p <= h \/ h <= t

\* The tail t may only have moved on from c, and has not reached the head h.
Ahead(h, c, t) == IF h <= c THEN c <= t \/ t < h ELSE c <= t /\ t < h

\* n more bytes fit behind the tail t, seen from the head h.
Room(h, t, n) ==
  IF h <= t
  THEN m_nBufSize - t >= n \/ h - INTERVAL_SPACE >= n - (m_nBufSize - t)
  ELSE h - t >= n + INTERVAL_SPACE

\* The bytes of the frame that PushInNoblock has still to publish.
RemLen ==
  IF pPart = 0 THEN HEAD_LEN + BodySize(pArgs)
  ELSE IF pPart = 1 THEN BodySize(pArgs) ELSE pArgs[2]

FramesOK ==
  /\ \A j \in 1 .. Len(frames) : \E c \in Calls : frames[j].size = BodySize(c) + HEAD_LEN
  /\ \A i, j \in 1 .. Len(frames) : i < j => EndOf(frames[i]) <= frames[j].start
  /\ \A j \in 1 .. Len(frames) - 1 : frames[j + 1].start = EndOf(frames[j])

ProdOK ==
  /\ ppc \in {"idle", "load", "check"} => wr = LastEnd /\ pPart = 0
  /\ ppc # "idle" => pArgs \in Calls
  /\ ppc \in {"check", "copy", "advance"} => Behind(pHead, nHeadPos, nTailPos)
  /\ ppc \in {"copy", "advance"} =>
       /\ Len(frames) > 0
       /\ frames[Len(frames)].size = BodySize(pArgs) + HEAD_LEN
       /\ wr + RemLen = LastEnd
       /\ Room(pHead, nTailPos, RemLen)
  /\ ppc = "advance" =>
       /\ pTail = nTailPos
       /\ \A j \in 0 .. PartLen - 1 : m_pShmBuf[Wrap(nTailPos + j)] = wr + j

\* The frame being popped, and how far PopOut is into the part it copies.
Cur == frames[Len(delivered) + 1]
Skip == IF cPart = "head" THEN 0 ELSE HEAD_LEN
Done == IF cpc = "rest" \/ (cpc = "advance" /\ cLeft > 0) THEN PopLen - cLeft ELSE 0
Popping == cpc \in {"copy", "wrap", "rest", "advance"}
Copied(n) == cBuf = [i \in 0 .. n - 1 |-> Cur.start + Skip + i]

ConsOK ==
  /\ NeverEmptied
  /\ Len(delivered) <= Len(frames)
  /\ cpc # "idle" => Ahead(nHeadPos, cTail, nTailPos)
  /\ cpc \in {"idle", "check"} => Rd = NextStart /\ cPart = "head" /\ cLeft = 0
  /\ Popping =>
       /\ Len(delivered) < Len(frames)
       /\ nFullDataSize = Cur.size
       /\ Rd = Cur.start + Skip + Done
       /\ Avail(nHeadPos, cTail) >= Cur.size - Skip - Done
       /\ EndOf(Cur) <= wr
  /\ cpc = "copy" => cLeft = 0
  /\ cpc \in {"wrap", "rest"} =>
       0 < cLeft /\ cLeft <= PopLen /\ nHeadPos > cTail /\ Copied(PopLen - cLeft)
  /\ cpc = "wrap" => nHeadPos = m_nBufSize - (PopLen - cLeft)
  /\ cpc = "rest" => nHeadPos = m_nBufSize
  /\ cpc = "advance" =>
       /\ Copied(PopLen)
       /\ cLeft > 0 => cLeft <= PopLen /\ nHeadPos > cTail /\ nHeadPos = m_nBufSize
       /\ cLeft = 0 => nHeadPos <= cTail \/ m_nBufSize - nHeadPos >= PopLen

\* PopOut has handed out the first packets that PushIn took, in their order.
InOrder == \A i \in 1 .. Len(delivered) : delivered[i] = Body(frames[i])

BodyType == UNION {[0 .. n - 1 -> Nat] : n \in Nat}
CoreInv == TypeOK /\ UnreadIntact /\ FramesOK /\ ProdOK /\ ConsOK /\ InOrder
IInv == CoreInv /\ delivered \in Seq(BodyType)

-----------------------------------------------------------------------------
(* The arithmetic of positions.                                            *)

\* What Avail counts lies between 0 and the size of the ring.
LEMMA AvailRange ==
  ASSUME NEW h \in Pos, NEW t \in Pos
  PROVE  Avail(h, t) \in 0 .. m_nBufSize
  BY RingAssumption DEF Avail, Pos

\* The consumer's snapshot never promises more than there is.
LEMMA SnapshotBound ==
  ASSUME NEW h \in Pos, NEW c \in Pos, NEW t \in Pos, Ahead(h, c, t)
  PROVE  Avail(h, c) <= Avail(h, t)
  BY RingAssumption DEF Avail, Pos, Ahead

\* PUSH_DATA of n of the r bytes that have room moves the tail by n, keeps
\* the rest in room, and both snapshots stay valid.
LEMMA PushGeometry ==
  ASSUME NEW p \in Pos, NEW h \in Pos, NEW t \in Pos, NEW r \in Nat, NEW n \in 0 .. r,
         Behind(p, h, t), Room(p, t, r),
         NEW u, u = IF PushSplit(p, t, n) THEN n - (m_nBufSize - t) ELSE t + n
  PROVE  /\ u \in Pos
         /\ Avail(h, u) = Avail(h, t) + n
         /\ Behind(p, h, u)
         /\ Room(p, u, r - n)
         /\ \A c \in Pos : Ahead(h, c, t) => Ahead(h, c, u)
         /\ \A j \in 0 .. n - 1 : Wrap(h + (Avail(h, t) + j)) = Wrap(t + j)
  BY RingAssumption DEF Avail, Pos, Ahead, Behind, Room, PushSplit, Wrap

\* The cells PUSH_DATA writes hold no unread byte ...
LEMMA PushKeeps ==
  ASSUME NEW p \in Pos, NEW h \in Pos, NEW t \in Pos, NEW r \in Nat, NEW n \in 0 .. r,
         Behind(p, h, t), Room(p, t, r), NEW i \in 0 .. Avail(h, t) - 1
  PROVE  /\ Wrap(h + i) \in 0 .. m_nBufSize - 1
         /\ ~(Wrap(h + i) >= t /\ Wrap(h + i) - t < n)
         /\ ~(PushSplit(p, t, n) /\ Wrap(h + i) < n - (m_nBufSize - t))
  BY RingAssumption DEF Avail, Pos, Behind, Room, PushSplit, Wrap

\* ... and are the n cells behind the tail, in order.
LEMMA PushFills ==
  ASSUME NEW p \in Pos, NEW t \in Pos, NEW r \in Nat, NEW n \in 0 .. r,
         Room(p, t, r), NEW j \in 0 .. n - 1
  PROVE  /\ Wrap(t + j) \in 0 .. m_nBufSize - 1
         /\ IF Wrap(t + j) >= t /\ Wrap(t + j) - t < n
            THEN Wrap(t + j) - t = j
            ELSE /\ PushSplit(p, t, n) /\ Wrap(t + j) < n - (m_nBufSize - t)
                 /\ (m_nBufSize - t) + Wrap(t + j) = j
  BY RingAssumption DEF Pos, Room, PushSplit, Wrap

\* POP_DATA of m bytes the snapshot promises moves the head by m.
LEMMA PopGeometry ==
  ASSUME NEW h \in Pos, NEW c \in Pos, NEW t \in Pos, NEW m \in Nat,
         Ahead(h, c, t), m <= Avail(h, c),
         NEW u, u = IF h > c /\ m_nBufSize - h < m THEN m - (m_nBufSize - h) ELSE h + m
  PROVE  /\ u \in Pos
         /\ Avail(u, t) = Avail(h, t) - m
         /\ Avail(u, c) = Avail(h, c) - m
         /\ Ahead(u, c, t)
         /\ \A p \in Pos : Behind(p, h, t) => Behind(p, u, t)
         /\ \A i \in 0 .. Avail(h, t) - m - 1 : Wrap(u + i) = Wrap(h + (m + i))
  BY RingAssumption DEF Avail, Pos, Ahead, Behind, Wrap

\* RingByteAt of an unread byte is a cell of the ring.
LEMMA UnreadCell ==
  ASSUME NEW h \in Pos, NEW t \in Pos, NEW i \in 0 .. Avail(h, t) - 1
  PROVE  Wrap(h + i) \in 0 .. m_nBufSize - 1 /\ RingByteAt(h + i) = m_pShmBuf[Wrap(h + i)]
  BY RingAssumption DEF Avail, Pos, Wrap, RingByteAt, ByteAt

-----------------------------------------------------------------------------
(* Facts used by every action.                                             *)

\* The argument lengths of a call.
LEMMA CallFacts ==
  ASSUME NEW c \in Calls
  PROVE  /\ Len(c) \in {1, 2} /\ c[1] \in Nat
         /\ Len(c) = 2 => c[2] \in Nat /\ BodySize(c) = c[1] + c[2]
         /\ Len(c) = 1 => BodySize(c) = c[1]
         /\ BodySize(c) \in Nat
<1>1. c \in Seq(Nat) /\ Len(c) \in {1, 2}
  BY RingAssumption
<1> QED
  BY <1>1 DEF BodySize

\* An element of a sequence over S is in S.
LEMMA ElementOf ==
  ASSUME NEW S, NEW s \in Seq(S), NEW j \in 1 .. Len(s)
  PROVE  s[j] \in S
  OBVIOUS

\* frames is a sequence of records of naturals.
LEMMA FrameFacts ==
  ASSUME TypeOK
  PROVE  /\ Len(frames) \in Nat /\ DOMAIN frames = 1 .. Len(frames)
         /\ \A j \in 1 .. Len(frames) : frames[j].start \in Nat /\ frames[j].size \in Nat
<1>1. frames \in Seq([start : Nat, size : Nat])
  BY DEF TypeOK
<1>2. Len(frames) \in Nat /\ DOMAIN frames = 1 .. Len(frames)
  BY <1>1
<1>3. \A j \in 1 .. Len(frames) : frames[j] \in [start : Nat, size : Nat]
  BY <1>1, ElementOf
<1>4. \A r \in [start : Nat, size : Nat] : r.start \in Nat /\ r.size \in Nat
  OBVIOUS
<1> QED
  BY <1>2, <1>3, <1>4

\* delivered is a sequence.
LEMMA DeliveredFacts ==
  ASSUME delivered \in Seq(BodyType)
  PROVE  Len(delivered) \in Nat
  OBVIOUS

\* UnreadIntact, cell by cell.
LEMMA UnreadCells ==
  ASSUME TypeOK
  PROVE  UnreadIntact <=>
           \A i \in 0 .. Avail(nHeadPos, nTailPos) - 1 : m_pShmBuf[Wrap(nHeadPos + i)] = Rd + i
<1>1. nHeadPos \in Pos /\ nTailPos \in Pos
  BY DEF TypeOK
<1>2. \A i \in 0 .. Avail(nHeadPos, nTailPos) - 1 :
        RingByteAt(nHeadPos + i) = m_pShmBuf[Wrap(nHeadPos + i)]
  BY <1>1, UnreadCell
<1> QED
  BY <1>2 DEF UnreadIntact, Rd

\* The same for the next state.
LEMMA UnreadCellsNext ==
  ASSUME nHeadPos' \in Pos, nTailPos' \in Pos,
         \A i \in 0 .. Avail(nHeadPos', nTailPos') - 1 :
           m_pShmBuf'[Wrap(nHeadPos' + i)] = Rd' + i
  PROVE  UnreadIntact'
<1>1. nHeadPos' \in Pos /\ nTailPos' \in Pos
  OBVIOUS
<1>2. ASSUME NEW i \in 0 .. Avail(nHeadPos', nTailPos') - 1
      PROVE  RingByteAt(nHeadPos + i)' = m_pShmBuf'[Wrap(nHeadPos' + i)]
  <2>1. PICK h \in Pos, t \in Pos : h = nHeadPos' /\ t = nTailPos'
    BY <1>1
  <2>2. i \in 0 .. Avail(h, t) - 1
    BY <2>1
  <2>3. Wrap(h + i) < m_nBufSize
    BY <2>2, RingAssumption DEF Avail, Pos, Wrap
  <2> QED
    BY <2>1, <2>3 DEF RingByteAt, ByteAt, Wrap
<1> QED
  BY <1>2 DEF UnreadIntact, Rd, Avail

\* Steps that leave the ring and the stream alone keep UnreadIntact.
LEMMA UnreadStays ==
  ASSUME UnreadIntact, shared' = shared, wr' = wr
  PROVE  UnreadIntact'
<1>1. m_pShmBuf' = m_pShmBuf /\ nHeadPos' = nHeadPos /\ nTailPos' = nTailPos
  BY DEF shared
<1> QED
  BY <1>1 DEF UnreadIntact, RingByteAt, ByteAt, Avail

\* Steps of the producer that publish nothing keep the consumer's part.
LEMMA ConsStays ==
  ASSUME ConsOK, UNCHANGED <<nHeadPos, nTailPos, cvars, wr, frames, delivered>>
  PROVE  ConsOK'
<1>1. /\ cpc' = cpc /\ cPart' = cPart /\ cTail' = cTail /\ nFullDataSize' = nFullDataSize
      /\ cLeft' = cLeft /\ cBuf' = cBuf
  BY DEF cvars
<1>2. Rd' = Rd /\ NextStart' = NextStart /\ Cur' = Cur /\ Skip' = Skip /\ PopLen' = PopLen
  BY <1>1 DEF Rd, NextStart, LastEnd, EndOf, Cur, Skip, PopLen, Avail
<1>3. Done' = Done /\ (Popping' <=> Popping)
  BY <1>1, <1>2 DEF Done, Popping
<1>4. Copied(PopLen)' = Copied(PopLen) /\ Copied(PopLen - cLeft)' = Copied(PopLen - cLeft)
  BY <1>1, <1>2 DEF Copied
<1> QED
  BY <1>1, <1>2, <1>3, <1>4 DEF ConsOK, NeverEmptied, Avail, Ahead, EndOf

\* Steps of the consumer that leave the head alone keep the producer's part.
LEMMA ProdStays ==
  ASSUME ProdOK, UNCHANGED <<shared, pvars, wr, frames>>
  PROVE  ProdOK'
<1>1. /\ ppc' = ppc /\ pArgs' = pArgs /\ pPart' = pPart /\ pHead' = pHead /\ pTail' = pTail
      /\ m_pShmBuf' = m_pShmBuf /\ nHeadPos' = nHeadPos /\ nTailPos' = nTailPos
  BY DEF pvars, shared
<1>2. LastEnd' = LastEnd /\ RemLen' = RemLen /\ PartLen' = PartLen
  BY <1>1 DEF LastEnd, EndOf, RemLen, PartLen
<1> QED
  BY <1>1, <1>2 DEF ProdOK, Behind, Room

-----------------------------------------------------------------------------
(* The initial state.                                                      *)

\* Init leaves a ring that satisfies the invariant.
LEMMA InitInv == Init => IInv
<1> SUFFICES ASSUME Init PROVE IInv
  OBVIOUS
<1>1. Len(frames) = 0 /\ Len(delivered) = 0 /\ frames = <<>> /\ delivered = <<>>
  BY DEF Init
<1>2. TypeOK
  <2>1. m_pShmBuf \in [0 .. m_nBufSize - 1 -> Nat \cup {NoByte}]
    BY DEF Init
  <2>2. 0 \in Pos
    BY RingAssumption DEF Pos
  <2>3. pArgs \in Calls \cup {<<0>>} /\ pPart \in 0 .. Len(pArgs)
    BY DEF Init
  <2>4. frames \in Seq([start : Nat, size : Nat])
    BY <1>1
  <2>5. torn \in BOOLEAN /\ astray \in {"no", "inside", "misled"}
    BY DEF Init
  <2> QED
    BY <2>1, <2>2, <2>3, <2>4, <2>5 DEF Init, TypeOK
<1>3. UnreadIntact
  BY DEF Init, UnreadIntact, Avail
<1>4. FramesOK
  BY <1>1 DEF FramesOK
<1>5. ProdOK
  BY <1>1 DEF Init, ProdOK, LastEnd
<1>6. ConsOK
  BY <1>1 DEF Init, ConsOK, NeverEmptied, Rd, NextStart, LastEnd, Popping, Avail
<1>7. InOrder /\ delivered \in Seq(BodyType)
  BY <1>1 DEF InOrder
<1> QED
  BY <1>2, <1>3, <1>4, <1>5, <1>6, <1>7 DEF IInv, CoreInv

\* The part being pushed is one of those still to push.
LEMMA PartFacts ==
  ASSUME TypeOK, pArgs \in Calls
  PROVE  /\ PartLen \in 0 .. RemLen /\ RemLen \in Nat
         /\ pPart < Len(pArgs) =>
              RemLen - PartLen =
                (IF pPart + 1 = 1 THEN BodySize(pArgs) ELSE pArgs[2])
         /\ ~(pPart < Len(pArgs)) => RemLen - PartLen = 0
<1>1. /\ Len(pArgs) \in {1, 2} /\ pArgs[1] \in Nat
      /\ Len(pArgs) = 2 => pArgs[2] \in Nat /\ BodySize(pArgs) = pArgs[1] + pArgs[2]
      /\ Len(pArgs) = 1 => BodySize(pArgs) = pArgs[1]
      /\ BodySize(pArgs) \in Nat
  BY CallFacts
<1>2. pPart \in 0 .. Len(pArgs)
  BY DEF TypeOK
<1>3. CASE pPart = 0
  BY <1>1, <1>3, RingAssumption, SMTT(30) DEF PartLen, RemLen
<1>4. CASE pPart = 1
  <2>1. PartLen = pArgs[1] /\ RemLen = BodySize(pArgs)
    BY <1>4 DEF PartLen, RemLen
  <2>2. CASE Len(pArgs) = 1
    BY <1>1, <1>4, <2>1, <2>2
  <2>3. CASE Len(pArgs) = 2
    BY <1>1, <1>4, <2>1, <2>3
  <2> QED
    BY <1>1, <2>2, <2>3
<1>5. CASE pPart = 2
  <2>1. PartLen = pArgs[2] /\ RemLen = pArgs[2]
    BY <1>5 DEF PartLen, RemLen
  <2>2. Len(pArgs) = 2
    <3>1. ASSUME Len(pArgs) = 1 PROVE FALSE
      <4>1. pPart \in 0 .. 1
        BY <1>2, <3>1
      <4> QED
        BY <1>5, <4>1
    <3> QED
      BY <3>1, <1>1
  <2> QED
    BY <1>1, <1>5, <2>1, <2>2
<1>6. pPart \in {0, 1, 2}
  <2>1. CASE Len(pArgs) = 1
    BY <1>2, <2>1
  <2>2. CASE Len(pArgs) = 2
    BY <1>2, <2>2
  <2> QED
    BY <1>1, <2>1, <2>2
<1> QED
  BY <1>6, <1>3, <1>4, <1>5
=============================================================================
