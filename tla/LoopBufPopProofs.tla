-------------------------- MODULE LoopBufPopProofs --------------------------
(***************************************************************************)
(* The consumer's steps keep the inductive invariant of LoopBufInv, if     *)
(* every packet fits the consumer's buffer (ConfigFits).                   *)
(***************************************************************************)
EXTENDS LoopBufInv, TLAPS


\* While a frame is popped it is in frames, it has a body that fits the
\* caller's buffer, and the part being copied is within it.
LEMMA PopFacts ==
  ASSUME ConfigFits, IInv, Popping
  PROVE  /\ Len(delivered) + 1 \in 1 .. Len(frames) /\ Len(delivered) \in Nat
         /\ Cur.start \in Nat /\ Cur.size \in Nat
         /\ HEAD_LEN < Cur.size /\ Cur.size - HEAD_LEN <= nDataBufSize
         /\ PopLen \in Nat /\ Skip \in Nat /\ Skip + PopLen <= Cur.size
         /\ cPart = "data" => Skip + PopLen = Cur.size
<1>1. TypeOK /\ FramesOK /\ ConsOK /\ delivered \in Seq(BodyType)
  BY DEF IInv, CoreInv
<1>2. Len(delivered) + 1 \in 1 .. Len(frames) /\ Len(delivered) \in Nat
  BY <1>1, FrameFacts, DeliveredFacts DEF ConsOK
<1>3. Cur.start \in Nat /\ Cur.size \in Nat /\ nFullDataSize = Cur.size
  BY <1>1, <1>2, FrameFacts DEF Cur, ConsOK
<1>4. PICK c \in Calls : Cur.size = BodySize(c) + HEAD_LEN
  BY <1>1, <1>2 DEF FramesOK, Cur
<1>5. BodySize(c) \in Nat /\ BodySize(c) > 0 /\ BodySize(c) <= nDataBufSize
  BY CallFacts DEF ConfigFits
<1>6. HEAD_LEN < Cur.size /\ Cur.size - HEAD_LEN <= nDataBufSize /\ HEAD_LEN \in Nat
  BY <1>3, <1>4, <1>5, RingAssumption
<1>7. cPart \in {"head", "data"}
  BY <1>1 DEF TypeOK
<1>8. CASE cPart = "head"
  <2>1. PopLen = HEAD_LEN /\ Skip = 0
    BY <1>8 DEF PopLen, Skip
  <2> QED
    BY <1>2, <1>3, <1>6, <1>8, <2>1
<1>9. CASE cPart = "data"
  <2>1. PopLen = Cur.size - HEAD_LEN /\ Skip = HEAD_LEN
    BY <1>3, <1>9 DEF PopLen, Skip
  <2> QED
    BY <1>2, <1>3, <1>6, <2>1, SMTT(30)
<1> QED
  BY <1>7, <1>8, <1>9

\* POP_DATA frees m bytes that the snapshot promised: the unread bytes are
\* what remains, and the producer's stale view of the head stays safe.
LEMMA HeadMoves ==
  ASSUME TypeOK, UnreadIntact, ProdOK, Ahead(nHeadPos, cTail, nTailPos),
         NEW m \in Nat, m <= Avail(nHeadPos, cTail),
         nHeadPos' = IF nHeadPos > cTail /\ m_nBufSize - nHeadPos < m
                     THEN m - (m_nBufSize - nHeadPos) ELSE nHeadPos + m,
         UNCHANGED <<m_pShmBuf, nTailPos, pvars, wr, frames>>
  PROVE  /\ nHeadPos' \in Pos /\ UnreadIntact' /\ ProdOK' /\ Rd' = Rd + m
         /\ Avail(nHeadPos', cTail) = Avail(nHeadPos, cTail) - m
         /\ Ahead(nHeadPos', cTail, nTailPos)
<1>1. nHeadPos \in Pos /\ cTail \in Pos /\ nTailPos \in Pos /\ wr \in Nat /\ pHead \in Pos
  BY DEF TypeOK
<1>2. PICK u : u = nHeadPos'
  OBVIOUS
<1>3. /\ u \in Pos
      /\ Avail(u, nTailPos) = Avail(nHeadPos, nTailPos) - m
      /\ Avail(u, cTail) = Avail(nHeadPos, cTail) - m
      /\ Ahead(u, cTail, nTailPos)
      /\ \A p \in Pos : Behind(p, nHeadPos, nTailPos) => Behind(p, u, nTailPos)
      /\ \A i \in 0 .. Avail(nHeadPos, nTailPos) - m - 1 :
           Wrap(u + i) = Wrap(nHeadPos + (m + i))
  BY <1>1, <1>2, PopGeometry
<1>4. PICK a \in Nat : a = Avail(nHeadPos, nTailPos) /\ m <= a
  <2>1. Avail(nHeadPos, nTailPos) \in 0 .. m_nBufSize /\ Avail(nHeadPos, cTail) \in 0 .. m_nBufSize
    BY <1>1, AvailRange
  <2>2. Avail(nHeadPos, cTail) <= Avail(nHeadPos, nTailPos)
    BY <1>1, SnapshotBound
  <2> QED
    BY <2>1, <2>2, RingAssumption
<1>5. Rd' = Rd + m
  <2>1. Rd = wr - a /\ Rd' = wr - (a - m)
    BY <1>2, <1>3, <1>4 DEF Rd
  <2> QED
    BY <1>1, <1>4, <2>1
<1>6. UnreadIntact'
  <2>1. \A i \in 0 .. a - 1 : m_pShmBuf[Wrap(nHeadPos + i)] = Rd + i
    BY <1>4, UnreadCells
  <2>2. ASSUME NEW i \in 0 .. (a - m) - 1
        PROVE  m_pShmBuf[Wrap(u + i)] = Rd + m + i
    <3>1. m + i \in 0 .. a - 1
      BY <1>4
    <3>2. m_pShmBuf[Wrap(nHeadPos + (m + i))] = Rd + (m + i)
      BY <2>1, <3>1
    <3>3. Wrap(u + i) = Wrap(nHeadPos + (m + i))
      BY <1>3, <1>4
    <3>4. Rd \in Int
      BY <1>1, <1>4 DEF Rd
    <3>5. Rd + (m + i) = Rd + m + i
      BY <3>4
    <3> QED
      BY <3>2, <3>3, <3>5
  <2>3. m_pShmBuf' = m_pShmBuf /\ nTailPos' = nTailPos /\ Avail(nHeadPos', nTailPos') = a - m
    BY <1>2, <1>3, <1>4
  <2>4. \A i \in 0 .. Avail(nHeadPos', nTailPos') - 1 : m_pShmBuf'[Wrap(nHeadPos' + i)] = Rd' + i
    BY <1>2, <1>5, <2>2, <2>3
  <2> QED
    BY <1>1, <1>2, <1>3, <2>3, <2>4, UnreadCellsNext
<1>7. ProdOK'
  <2>1. /\ ppc' = ppc /\ pArgs' = pArgs /\ pPart' = pPart /\ pHead' = pHead /\ pTail' = pTail
    BY DEF pvars
  <2>2. LastEnd' = LastEnd /\ RemLen' = RemLen /\ PartLen' = PartLen
    BY <2>1 DEF LastEnd, EndOf, RemLen, PartLen
  <2>3. Behind(pHead, nHeadPos, nTailPos) => Behind(pHead, nHeadPos, nTailPos)'
    <3>1. Behind(pHead, nHeadPos, nTailPos) => Behind(pHead, u, nTailPos)
      BY <1>1, <1>3
    <3> QED
      BY <1>2, <2>1, <3>1 DEF Behind
  <2> QED
    BY <2>1, <2>2, <2>3 DEF ProdOK, Room
<1> QED
  BY <1>2, <1>3, <1>5, <1>6, <1>7

\* PopOut takes its snapshot of the tail.
LEMMA PopOutInv ==
  ASSUME IInv, PopOut
  PROVE  IInv'
<1>1. /\ cpc = "idle" /\ cpc' = "check" /\ cTail' = nTailPos
      /\ UNCHANGED <<shared, pvars, cPart, nFullDataSize, cLeft, cBuf, wr, frames, delivered, torn, astray>>
  BY DEF PopOut, hist
<1>2. UNCHANGED <<m_pShmBuf, nHeadPos, nTailPos>>
  BY <1>1 DEF shared
<1>3. UnreadIntact' /\ ProdOK' /\ FramesOK' /\ InOrder'
  BY <1>1, UnreadStays, ProdStays DEF IInv, CoreInv, FramesOK, InOrder, EndOf, Body
<1>4. TypeOK'
  BY <1>1, <1>2 DEF IInv, CoreInv, TypeOK, pvars
<1>5. Ahead(nHeadPos, cTail, nTailPos)'
  BY <1>1, <1>2 DEF IInv, CoreInv, TypeOK, Pos, Ahead
<1>6. Rd' = Rd /\ NextStart' = NextStart
  BY <1>1, <1>2 DEF Rd, NextStart, LastEnd, EndOf, Avail
<1>7. ConsOK'
  BY <1>1, <1>2, <1>5, <1>6 DEF IInv, CoreInv, ConsOK, NeverEmptied, Popping
<1> QED
  BY <1>1, <1>3, <1>4, <1>7 DEF IInv, CoreInv

\* The producer never publishes past the end of the last frame it began.
LEMMA WrittenBound ==
  ASSUME IInv
  PROVE  wr <= LastEnd /\ LastEnd \in Nat /\ wr \in Nat
<1>1. TypeOK /\ ProdOK
  BY DEF IInv, CoreInv
<1>2. wr \in Nat /\ ppc \in {"idle", "load", "check", "copy", "advance"}
  BY <1>1 DEF TypeOK
<1>3. LastEnd \in Nat
  BY <1>1, FrameFacts DEF LastEnd, EndOf
<1>4. CASE ppc \in {"idle", "load", "check"}
  BY <1>1, <1>2, <1>3, <1>4 DEF ProdOK
<1>5. CASE ppc \in {"copy", "advance"}
  <2>1. pArgs \in Calls /\ wr + RemLen = LastEnd
    BY <1>1, <1>5 DEF ProdOK
  <2>2. RemLen \in Nat
    BY <1>1, <2>1, PartFacts
  <2> QED
    BY <1>2, <1>3, <2>1, <2>2
<1> QED
  BY <1>2, <1>4, <1>5

\* The length field PopOut reads at the head is that of the next frame.
LEMMA LenAtHead ==
  ASSUME ConfigFits, IInv, cpc = "check", Avail(nHeadPos, cTail) >= LEN_INT
  PROVE  /\ Len(delivered) + 1 \in 1 .. Len(frames)
         /\ Cur.start = Rd /\ Cur.size \in Nat
         /\ LenAt(nHeadPos) = {Cur.size}
<1>1. TypeOK /\ UnreadIntact /\ FramesOK /\ ConsOK /\ delivered \in Seq(BodyType)
  BY DEF IInv, CoreInv
<1>2. nHeadPos \in Pos /\ cTail \in Pos /\ nTailPos \in Pos /\ wr \in Nat
  BY <1>1 DEF TypeOK
<1>3. Rd = NextStart /\ Ahead(nHeadPos, cTail, nTailPos) /\ Len(delivered) <= Len(frames)
  BY <1>1 DEF ConsOK
<1>4. PICK a \in Nat : a = Avail(nHeadPos, nTailPos) /\ a >= LEN_INT
  <2>1. Avail(nHeadPos, nTailPos) \in 0 .. m_nBufSize /\ Avail(nHeadPos, cTail) \in 0 .. m_nBufSize
    BY <1>2, AvailRange
  <2>2. Avail(nHeadPos, cTail) <= Avail(nHeadPos, nTailPos)
    BY <1>2, <1>3, SnapshotBound
  <2> QED
    BY <2>1, <2>2, RingAssumption
<1>5. Rd = wr - a /\ Rd \in Int
  BY <1>2, <1>4 DEF Rd
<1>6. Len(delivered) + 1 \in 1 .. Len(frames)
  <2>1. Len(delivered) \in Nat /\ Len(frames) \in Nat
    BY <1>1, FrameFacts, DeliveredFacts
  <2>2. wr <= LastEnd /\ LastEnd \in Nat
    BY WrittenBound
  <2>3. Rd < LastEnd
    BY <1>2, <1>4, <1>5, <2>2, RingAssumption
  <2>4. Len(delivered) < Len(frames)
    BY <1>3, <2>1, <2>2, <2>3 DEF NextStart
  <2> QED
    BY <2>1, <2>4
<1>7. Cur.start = Rd /\ Cur.size \in Nat /\ Cur.start \in Nat
  <2>1. Len(delivered) < Len(frames)
    BY <1>1, <1>6, FrameFacts, DeliveredFacts
  <2> QED
    BY <1>1, <1>3, <1>6, <2>1, FrameFacts DEF NextStart, Cur
<1>8. \A i \in 0 .. LEN_INT - 1 : RingByteAt(nHeadPos + i) = Cur.start + i
  <2>1. \A i \in 0 .. a - 1 : RingByteAt(nHeadPos + i) = wr - a + i
    BY <1>1, <1>4 DEF UnreadIntact
  <2> QED
    BY <1>4, <1>5, <1>7, <2>1, RingAssumption
<1>9. ASSUME NEW k \in 1 .. Len(frames),
             \A i \in 0 .. LEN_INT - 1 : RingByteAt(nHeadPos + i) = frames[k].start + i
      PROVE  frames[k].size = Cur.size
  <2>1. 0 \in 0 .. LEN_INT - 1
    BY RingAssumption
  <2>2. frames[k].start + 0 = Cur.start + 0
    BY <1>8, <1>9, <2>1
  <2>3. frames[k].start \in Nat /\ frames[k].size \in Nat
    BY <1>1, FrameFacts
  <2>4. frames[k].start = Cur.start
    BY <1>7, <2>2, <2>3
  <2>5. frames[k].size > 0 /\ Cur.size > 0
    <3>1. \A j \in 1 .. Len(frames) : frames[j].size > 0
      <4> TAKE j \in 1 .. Len(frames)
      <4>1. PICK c \in Calls : frames[j].size = BodySize(c) + HEAD_LEN
        BY <1>1 DEF FramesOK
      <4> QED
        BY <4>1, CallFacts, RingAssumption
    <3> QED
      BY <1>6, <3>1 DEF Cur
  <2>6. k = Len(delivered) + 1
    <3>1. k < Len(delivered) + 1 => EndOf(frames[k]) <= Cur.start
      BY <1>1, <1>6 DEF FramesOK, Cur
    <3>2. Len(delivered) + 1 < k => EndOf(Cur) <= frames[k].start
      BY <1>1, <1>6 DEF FramesOK, Cur
    <3>3. ~(k < Len(delivered) + 1) /\ ~(Len(delivered) + 1 < k)
      BY <1>7, <2>3, <2>4, <2>5, <3>1, <3>2 DEF EndOf
    <3> QED
      BY <1>6, <3>3, FrameFacts, <1>1
  <2> QED
    BY <2>6 DEF Cur
<1>10. DOMAIN frames = 1 .. Len(frames)
  BY <1>1, FrameFacts
<1>11. LenAt(nHeadPos) = {Cur.size}
  <2> DEFINE IsLen(k) == \A i \in 0 .. LEN_INT - 1 : RingByteAt(nHeadPos + i) = frames[k].start + i
  <2>1. IsLen(Len(delivered) + 1)
    BY <1>8 DEF Cur
  <2>2. \A k \in 1 .. Len(frames) : IsLen(k) => frames[k].size = Cur.size
    BY <1>9
  <2>3. LenAt(nHeadPos) = {frames[j].size : j \in {k \in 1 .. Len(frames) : IsLen(k)}}
    BY <1>6, <1>10, <2>1 DEF LenAt
  <2> HIDE DEF IsLen
  <2> QED
    BY <1>6, <2>1, <2>2, <2>3 DEF Cur
<1> QED
  BY <1>6, <1>7, <1>11

\* IS_POP_SIZE_ENOUGH accepts a frame only when all of it is published, and
\* the length check behind it never fires.
LEMMA PopCheckInv ==
  ASSUME ConfigFits, IInv, PopCheck
  PROVE  IInv'
<1>1. TypeOK /\ UnreadIntact /\ FramesOK /\ ProdOK /\ ConsOK /\ InOrder
      /\ delivered \in Seq(BodyType)
  BY DEF IInv, CoreInv
<1>2. /\ cpc = "check" /\ UNCHANGED <<shared, pvars, wr, frames, delivered, torn, astray>>
  BY DEF PopCheck, hist
<1>3. UNCHANGED <<m_pShmBuf, nHeadPos, nTailPos>>
  BY <1>2 DEF shared
<1>4. nHeadPos \in Pos /\ cTail \in Pos /\ nTailPos \in Pos /\ wr \in Nat
      /\ cPart = "head" /\ cLeft = 0 /\ Rd = NextStart
      /\ Ahead(nHeadPos, cTail, nTailPos)
  BY <1>1, <1>2 DEF TypeOK, ConsOK
<1>5. PICK n \in FullDataSizes(nHeadPos, cTail) :
        IF PopSizeEnough(nHeadPos, cTail, n)
        THEN /\ nFullDataSize' = n /\ cpc' = "copy"
             /\ UNCHANGED <<cPart, cTail, cLeft, cBuf>>
        ELSE IF n > CHECK_SIZE /\ n > nDataBufSize
        THEN /\ cpc' = "zero"
             /\ UNCHANGED <<cPart, cTail, nFullDataSize, cLeft, cBuf>>
        ELSE PopReturn
  BY DEF PopCheck
<1>6. UnreadIntact' /\ ProdOK' /\ FramesOK' /\ InOrder' /\ delivered' \in Seq(BodyType)
  BY <1>1, <1>2, UnreadStays, ProdStays DEF FramesOK, InOrder, EndOf, Body
<1>7. Rd' = Rd /\ NextStart' = NextStart
  BY <1>2, <1>3 DEF Rd, NextStart, LastEnd, EndOf, Avail
<1>8. PopReturn => TypeOK' /\ ConsOK'
  <2>1. 0 \in Pos
    BY RingAssumption DEF Pos
  <2>2. PopReturn => TypeOK'
    BY <1>1, <1>2, <1>3, <2>1 DEF PopReturn, TypeOK, pvars
  <2>3. PopReturn => ConsOK'
    BY <1>1, <1>2, <1>4, <1>7 DEF PopReturn, ConsOK, NeverEmptied, Popping
  <2> QED
    BY <2>2, <2>3
<1>9. CASE Avail(nHeadPos, cTail) < LEN_INT
  <2>1. n = 0
    BY <1>4, <1>9, RingAssumption DEF FullDataSizes, Avail, Pos
  <2>2. ~PopSizeEnough(nHeadPos, cTail, n)
    BY <1>4, <1>9, <2>1, RingAssumption DEF PopSizeEnough, Avail, Pos
  <2>3. PopReturn
    BY <1>5, <2>1, <2>2, RingAssumption
  <2> QED
    BY <1>6, <1>8, <2>3 DEF IInv, CoreInv
<1>10. CASE ~(Avail(nHeadPos, cTail) < LEN_INT)
  <2>1. Avail(nHeadPos, cTail) \in Nat /\ Avail(nHeadPos, cTail) >= LEN_INT
    BY <1>4, <1>10, AvailRange, RingAssumption
  <2>2. /\ Len(delivered) + 1 \in 1 .. Len(frames)
        /\ Cur.start = Rd /\ Cur.size \in Nat /\ LenAt(nHeadPos) = {Cur.size}
    BY <1>2, <2>1, LenAtHead
  <2>3. n = Cur.size
    <3>1. FullDataSizes(nHeadPos, cTail) = LenAt(nHeadPos)
      BY <1>10 DEF FullDataSizes
    <3> QED
      BY <2>2, <3>1
  <2>4. PICK c \in Calls : Cur.size = BodySize(c) + HEAD_LEN
    BY <1>1, <2>2 DEF FramesOK, Cur
  <2>5. ~(n > CHECK_SIZE /\ n > nDataBufSize)
    <3>1. BodySize(c) + HEAD_LEN <= CHECK_SIZE \/ BodySize(c) + HEAD_LEN <= nDataBufSize
      BY DEF ConfigFits
    <3> QED
      BY <2>2, <2>3, <2>4, <3>1, RingAssumption
  <2>6. CASE PopSizeEnough(nHeadPos, cTail, n)
    <3>1. /\ nFullDataSize' = n /\ cpc' = "copy" /\ UNCHANGED <<cPart, cTail, cLeft, cBuf>>
      BY <1>5, <2>6
    <3>2. TypeOK'
      BY <1>1, <1>2, <1>3, <2>2, <2>3, <3>1 DEF TypeOK, pvars
    <3>3. Avail(nHeadPos, cTail) >= Cur.size
      BY <2>2, <2>3, <2>6, <1>4 DEF PopSizeEnough, Avail
    <3>4. EndOf(Cur) <= wr
      <4>1. Avail(nHeadPos, cTail) <= Avail(nHeadPos, nTailPos) /\ Avail(nHeadPos, nTailPos) \in Nat
        BY <1>4, SnapshotBound, AvailRange
      <4>2. Rd = wr - Avail(nHeadPos, nTailPos)
        BY DEF Rd
      <4>3. Cur.size <= Avail(nHeadPos, nTailPos)
        BY <2>1, <2>2, <3>3, <4>1
      <4> QED
        BY <1>4, <2>2, <4>1, <4>2, <4>3 DEF EndOf
    <3>5. Cur' = Cur /\ EndOf(Cur)' = EndOf(Cur)
      BY <1>2 DEF Cur, EndOf
    <3>6. Skip' = 0 /\ Done' = 0
      BY <1>4, <3>1 DEF Skip, Done
    <3>7. Rd' = Cur'.start + Skip' + Done'
      <4>1. Cur.start \in Nat
        BY <1>1, <2>2, FrameFacts DEF Cur
      <4> QED
        BY <1>7, <2>2, <3>5, <3>6, <4>1
    <3>8. Avail(nHeadPos, cTail)' >= Cur'.size - Skip' - Done'
      <4>1. Avail(nHeadPos, cTail)' = Avail(nHeadPos, cTail)
        BY <1>3, <3>1 DEF Avail
      <4>2. Cur.size - 0 - 0 = Cur.size
        BY <2>2
      <4> QED
        BY <3>3, <3>5, <3>6, <4>1, <4>2
    <3>9. Len(delivered) < Len(frames)
      BY <1>1, <2>2, FrameFacts, DeliveredFacts
    <3>10. Ahead(nHeadPos, cTail, nTailPos)'
      BY <1>3, <1>4, <3>1 DEF Ahead
    <3>11. ConsOK'
      BY <1>1, <1>2, <1>4, <2>3, <3>1, <3>4, <3>5, <3>7, <3>8, <3>9, <3>10
      DEF ConsOK, NeverEmptied
    <3> QED
      BY <1>6, <3>2, <3>11 DEF IInv, CoreInv
  <2>7. CASE ~PopSizeEnough(nHeadPos, cTail, n)
    BY <1>5, <1>6, <1>8, <2>5, <2>7 DEF IInv, CoreInv
  <2> QED
    BY <2>6, <2>7
<1> QED
  BY <1>9, <1>10

\* POP_DATA copies bytes of the frame, and only those.
LEMMA PopCopyInv ==
  ASSUME ConfigFits, IInv, PopCopy
  PROVE  IInv'
<1>1. TypeOK /\ UnreadIntact /\ FramesOK /\ ProdOK /\ ConsOK /\ InOrder
      /\ delivered \in Seq(BodyType)
  BY DEF IInv, CoreInv
<1> DEFINE split == nHeadPos > cTail /\ m_nBufSize - nHeadPos < PopLen
           n == IF split THEN m_nBufSize - nHeadPos ELSE PopLen
<1>2. /\ cpc = "copy" /\ UNCHANGED <<shared, pvars, cPart, cTail, nFullDataSize, wr, frames, delivered, torn, astray>>
      /\ cBuf' = [i \in 0 .. n - 1 |-> ByteAt(nHeadPos + i)]
      /\ cLeft' = IF split THEN PopLen - n ELSE 0
      /\ cpc' = IF split THEN "wrap" ELSE "advance"
  BY DEF PopCopy, hist
<1>3. UNCHANGED <<m_pShmBuf, nHeadPos, nTailPos>>
  BY <1>2 DEF shared
<1>4. Popping
  BY <1>2 DEF Popping
<1>5. /\ Cur.start \in Nat /\ Cur.size \in Nat /\ PopLen \in Nat /\ Skip \in Nat
      /\ Skip + PopLen <= Cur.size
  BY <1>4, PopFacts
<1>6. /\ nHeadPos \in Pos /\ cTail \in Pos /\ nTailPos \in Pos /\ wr \in Nat
      /\ Ahead(nHeadPos, cTail, nTailPos) /\ cLeft = 0
  BY <1>1, <1>2 DEF TypeOK, ConsOK
<1>7. Done = 0
  BY <1>2 DEF Done
<1>8. Rd = Cur.start + Skip
  BY <1>1, <1>4, <1>5, <1>7 DEF ConsOK
<1>9. PICK b \in Nat : b = Avail(nHeadPos, cTail) /\ b >= PopLen
  <2>1. Avail(nHeadPos, cTail) >= Cur.size - Skip - 0 /\ Avail(nHeadPos, cTail) \in Nat
    BY <1>1, <1>4, <1>6, <1>7, AvailRange DEF ConsOK
  <2> QED
    BY <1>5, <2>1
<1>10. /\ n \in 0 .. PopLen
       /\ \A i \in 0 .. n - 1 : nHeadPos + i < m_nBufSize
  BY <1>5, <1>6, <1>9, RingAssumption DEF Pos, Avail
<1>11. \A i \in 0 .. n - 1 : ByteAt(nHeadPos + i) = Cur.start + Skip + i
  <2>1. PICK a \in Nat : a = Avail(nHeadPos, nTailPos) /\ b <= a
    BY <1>6, <1>9, SnapshotBound, AvailRange
  <2>2. \A i \in 0 .. a - 1 : m_pShmBuf[Wrap(nHeadPos + i)] = Rd + i
    BY <1>1, <2>1, UnreadCells
  <2> TAKE i \in 0 .. n - 1
  <2>3. nHeadPos + i < m_nBufSize /\ i \in 0 .. a - 1
    BY <1>5, <1>9, <1>10, <2>1
  <2> QED
    BY <1>8, <2>2, <2>3 DEF ByteAt, Wrap
<1>12. cBuf' = [i \in 0 .. n - 1 |-> Cur.start + Skip + i]
  BY <1>2, <1>11
<1>13. cLeft' \in Nat /\ cLeft' <= PopLen /\ n = PopLen - cLeft' /\ (split => 0 < cLeft')
  BY <1>2, <1>5, <1>10, <1>6, RingAssumption DEF Pos
<1>14. split => nHeadPos = m_nBufSize - n /\ nHeadPos > cTail
  BY <1>6, RingAssumption DEF Pos
<1>15. ~split => cLeft' = 0 /\ n = PopLen /\ (nHeadPos <= cTail \/ m_nBufSize - nHeadPos >= PopLen)
  BY <1>2, <1>5, <1>6, RingAssumption DEF Pos
<1> HIDE DEF split, n
<1>16. UnreadIntact' /\ ProdOK' /\ FramesOK' /\ InOrder' /\ delivered' \in Seq(BodyType)
  BY <1>1, <1>2, UnreadStays, ProdStays DEF FramesOK, InOrder, EndOf, Body
<1>17. TypeOK'
  BY <1>1, <1>2, <1>3, <1>13 DEF TypeOK, pvars
<1>18. ConsOK'
  <2>1. Rd' = Rd /\ Cur' = Cur /\ Skip' = Skip /\ PopLen' = PopLen /\ EndOf(Cur)' = EndOf(Cur)
        /\ Avail(nHeadPos, cTail)' = Avail(nHeadPos, cTail)
    BY <1>2, <1>3 DEF Rd, Cur, Skip, PopLen, EndOf, Avail
  <2>2. Done' = 0
    BY <1>2, <1>13, <1>15 DEF Done
  <2>3. Copied(PopLen - cLeft)'
    BY <1>12, <1>13, <2>1 DEF Copied
  <2>4. ~split => Copied(PopLen)'
    BY <1>12, <1>15, <2>1 DEF Copied
  <2>5. Ahead(nHeadPos, cTail, nTailPos)'
    BY <1>2, <1>3, <1>6 DEF Ahead
  <2>6. cpc' = "wrap" => split
    BY <1>2
  <2>7. cpc' = "advance" => ~split
    BY <1>2
  <2>8. cpc' \in {"wrap", "advance"}
    BY <1>2
  <2>9. /\ Len(delivered') < Len(frames') /\ nFullDataSize' = Cur'.size
        /\ Rd' = Cur'.start + Skip' + Done'
        /\ Avail(nHeadPos, cTail)' >= Cur'.size - Skip' - Done'
        /\ EndOf(Cur)' <= wr'
    BY <1>1, <1>2, <1>4, <1>7, <2>1, <2>2 DEF ConsOK
  <2>10. cpc' = "wrap" =>
           /\ 0 < cLeft' /\ cLeft' <= PopLen' /\ nHeadPos' > cTail' /\ Copied(PopLen - cLeft)'
           /\ nHeadPos' = m_nBufSize - (PopLen' - cLeft')
    BY <1>2, <1>3, <1>13, <1>14, <2>1, <2>3, <2>6
  <2>11. cpc' = "advance" =>
           /\ Copied(PopLen)' /\ cLeft' = 0
           /\ nHeadPos' <= cTail' \/ m_nBufSize - nHeadPos' >= PopLen'
    BY <1>2, <1>3, <1>15, <2>1, <2>4, <2>7
  <2> QED
    BY <1>1, <1>2, <2>5, <2>8, <2>9, <2>10, <2>11 DEF ConsOK, NeverEmptied
<1> QED
  BY <1>16, <1>17, <1>18 DEF IInv, CoreInv

\* A split POP_DATA parks the head at the end of the ring: the bytes up to
\* there are released, and the rest of the frame lies at the ring's start.
LEMMA PopWrapInv ==
  ASSUME ConfigFits, IInv, PopWrap
  PROVE  IInv'
<1>1. TypeOK /\ UnreadIntact /\ FramesOK /\ ProdOK /\ ConsOK /\ InOrder
      /\ delivered \in Seq(BodyType)
  BY DEF IInv, CoreInv
<1>2. /\ cpc = "wrap" /\ cpc' = "rest" /\ nHeadPos' = m_nBufSize
      /\ UNCHANGED <<m_pShmBuf, nTailPos, pvars, cPart, cTail, nFullDataSize, cLeft, cBuf,
                     wr, frames, delivered, torn, astray>>
  BY DEF PopWrap, hist
<1>3. Popping
  BY <1>2 DEF Popping
<1>4. /\ Cur.start \in Nat /\ Cur.size \in Nat /\ PopLen \in Nat /\ Skip \in Nat
      /\ Skip + PopLen <= Cur.size
  BY <1>3, PopFacts
<1>5. /\ nHeadPos \in Pos /\ cTail \in Pos /\ nTailPos \in Pos /\ wr \in Nat /\ cLeft \in Nat
      /\ Ahead(nHeadPos, cTail, nTailPos)
      /\ 0 < cLeft /\ cLeft <= PopLen /\ nHeadPos > cTail /\ Copied(PopLen - cLeft)
      /\ nHeadPos = m_nBufSize - (PopLen - cLeft)
  BY <1>1, <1>2 DEF TypeOK, ConsOK
<1>6. Done = 0
  BY <1>2 DEF Done
<1>7. /\ Rd = Cur.start + Skip + 0 /\ Avail(nHeadPos, cTail) >= Cur.size - Skip - 0
      /\ Avail(nHeadPos, cTail) \in Nat
  BY <1>1, <1>3, <1>5, <1>6, AvailRange DEF ConsOK
<1>8. PICK m \in Nat : m = PopLen - cLeft
  BY <1>4, <1>5
<1>9. m <= Avail(nHeadPos, cTail)
  BY <1>4, <1>5, <1>7, <1>8
<1>10. nHeadPos' = IF nHeadPos > cTail /\ m_nBufSize - nHeadPos < m
                   THEN m - (m_nBufSize - nHeadPos) ELSE nHeadPos + m
  BY <1>2, <1>5, <1>8, RingAssumption DEF Pos
<1>11. /\ nHeadPos' \in Pos /\ UnreadIntact' /\ ProdOK' /\ Rd' = Rd + m
       /\ Avail(nHeadPos', cTail) = Avail(nHeadPos, cTail) - m
       /\ Ahead(nHeadPos', cTail, nTailPos)
  BY <1>1, <1>2, <1>5, <1>9, <1>10, HeadMoves
<1>12. FramesOK' /\ InOrder' /\ delivered' \in Seq(BodyType)
  BY <1>1, <1>2 DEF FramesOK, InOrder, EndOf, Body
<1>13. TypeOK'
  BY <1>1, <1>2, <1>11 DEF TypeOK, pvars
<1>14. ConsOK'
  <2>1. Cur' = Cur /\ Skip' = Skip /\ PopLen' = PopLen /\ EndOf(Cur)' = EndOf(Cur)
    BY <1>2 DEF Cur, Skip, PopLen, EndOf
  <2>2. Done' = m
    BY <1>2, <1>8, <2>1 DEF Done
  <2>3. Copied(PopLen - cLeft)'
    BY <1>2, <1>5, <2>1 DEF Copied
  <2>4. Ahead(nHeadPos, cTail, nTailPos)'
    BY <1>2, <1>11 DEF Ahead
  <2>5. Avail(nHeadPos, cTail)' = Avail(nHeadPos, cTail) - m
    BY <1>2, <1>11 DEF Avail
  <2>6. Rd' = Cur'.start + Skip' + Done'
    BY <1>4, <1>7, <1>11, <2>1, <2>2
  <2>7. Avail(nHeadPos, cTail)' >= Cur'.size - Skip' - Done'
    BY <1>4, <1>7, <2>1, <2>2, <2>5
  <2>8. nHeadPos' > cTail'
    BY <1>2, <1>5, RingAssumption DEF Pos
  <2> QED
    BY <1>1, <1>2, <1>3, <1>5, <2>1, <2>3, <2>4, <2>6, <2>7, <2>8
    DEF ConsOK, NeverEmptied, Popping
<1> QED
  BY <1>11, <1>12, <1>13, <1>14 DEF IInv, CoreInv

\* A split POP_DATA completes the part from the start of the ring.
LEMMA PopRestInv ==
  ASSUME ConfigFits, IInv, PopRest
  PROVE  IInv'
<1>1. TypeOK /\ UnreadIntact /\ FramesOK /\ ProdOK /\ ConsOK /\ InOrder
      /\ delivered \in Seq(BodyType)
  BY DEF IInv, CoreInv
<1>2. /\ cpc = "rest" /\ cpc' = "advance"
      /\ cBuf' = [i \in 0 .. PopLen - 1 |->
                    IF i < PopLen - cLeft THEN cBuf[i] ELSE ByteAt(i - (PopLen - cLeft))]
      /\ UNCHANGED <<shared, pvars, cPart, cTail, nFullDataSize, cLeft, wr, frames, delivered, torn, astray>>
  BY DEF PopRest, hist
<1>3. UNCHANGED <<m_pShmBuf, nHeadPos, nTailPos>>
  BY <1>2 DEF shared
<1>4. Popping
  BY <1>2 DEF Popping
<1>5. /\ Cur.start \in Nat /\ Cur.size \in Nat /\ PopLen \in Nat /\ Skip \in Nat
      /\ Skip + PopLen <= Cur.size
  BY <1>4, PopFacts
<1>6. /\ nHeadPos \in Pos /\ cTail \in Pos /\ nTailPos \in Pos /\ wr \in Nat /\ cLeft \in Nat
      /\ Ahead(nHeadPos, cTail, nTailPos)
      /\ 0 < cLeft /\ cLeft <= PopLen /\ nHeadPos > cTail /\ Copied(PopLen - cLeft)
      /\ nHeadPos = m_nBufSize
  BY <1>1, <1>2 DEF TypeOK, ConsOK
<1>7. PICK m \in Nat : m = PopLen - cLeft
  BY <1>5, <1>6
<1>8. Done = m
  BY <1>2, <1>7 DEF Done
<1>9. Rd = Cur.start + Skip + m /\ Avail(nHeadPos, cTail) >= cLeft
  <2>1. Rd = Cur.start + Skip + m /\ Avail(nHeadPos, cTail) >= Cur.size - Skip - m
        /\ Avail(nHeadPos, cTail) \in Nat
    BY <1>1, <1>4, <1>6, <1>8, AvailRange DEF ConsOK
  <2> QED
    BY <1>5, <1>6, <1>7, <2>1
<1>10. PICK a \in Nat : a = Avail(nHeadPos, nTailPos) /\ cLeft <= a
  <2>1. Avail(nHeadPos, cTail) <= Avail(nHeadPos, nTailPos)
        /\ Avail(nHeadPos, cTail) \in Nat /\ Avail(nHeadPos, nTailPos) \in Nat
    BY <1>6, SnapshotBound, AvailRange
  <2> QED
    BY <1>6, <1>9, <2>1
<1>11. ASSUME NEW i \in 0 .. PopLen - 1
       PROVE  (IF i < PopLen - cLeft THEN cBuf[i] ELSE ByteAt(i - (PopLen - cLeft)))
                = Cur.start + Skip + i
  <2>1. CASE i < m
    <3>1. i \in 0 .. m - 1
      BY <1>5, <1>7, <2>1
    <3>2. cBuf[i] = Cur.start + Skip + i
      BY <1>6, <1>7, <3>1 DEF Copied
    <3> QED
      BY <1>7, <2>1, <3>2
  <2>2. CASE ~(i < m)
    <3>1. PICK j \in 0 .. cLeft - 1 : j = i - m
      <4>1. i - m \in 0 .. cLeft - 1
        BY <1>5, <1>6, <1>7, <2>2
      <4> QED
        BY <4>1
    <3>2. \A k \in 0 .. a - 1 : m_pShmBuf[Wrap(nHeadPos + k)] = Rd + k
      BY <1>1, <1>10, UnreadCells
    <3>3. j \in 0 .. a - 1 /\ j < m_nBufSize /\ Wrap(nHeadPos + j) = j
      <4>1. a <= m_nBufSize
        BY <1>6, <1>10, AvailRange
      <4>2. j \in 0 .. a - 1 /\ j < m_nBufSize
        BY <1>6, <1>10, <4>1, RingAssumption
      <4> QED
        BY <1>6, <4>2, RingAssumption DEF Wrap
    <3>4. ByteAt(j) = Rd + j
      BY <3>2, <3>3 DEF ByteAt
    <3>5. Rd + j = Cur.start + Skip + i
      BY <1>5, <1>9, <3>1
    <3> QED
      BY <1>7, <2>2, <3>1, <3>4, <3>5
  <2> QED
    BY <2>1, <2>2
<1>12. cBuf' = [i \in 0 .. PopLen - 1 |-> Cur.start + Skip + i]
  BY <1>2, <1>11
<1>13. UnreadIntact' /\ ProdOK' /\ FramesOK' /\ InOrder' /\ delivered' \in Seq(BodyType)
  BY <1>1, <1>2, UnreadStays, ProdStays DEF FramesOK, InOrder, EndOf, Body
<1>14. TypeOK'
  BY <1>1, <1>2, <1>3 DEF TypeOK, pvars
<1>15. ConsOK'
  <2>1. Rd' = Rd /\ Cur' = Cur /\ Skip' = Skip /\ PopLen' = PopLen /\ EndOf(Cur)' = EndOf(Cur)
        /\ Avail(nHeadPos, cTail)' = Avail(nHeadPos, cTail)
    BY <1>2, <1>3 DEF Rd, Cur, Skip, PopLen, EndOf, Avail
  <2>2. Done' = Done
    BY <1>2, <1>6, <2>1 DEF Done
  <2>3. Copied(PopLen)'
    BY <1>12, <2>1 DEF Copied
  <2>4. Ahead(nHeadPos, cTail, nTailPos)'
    BY <1>2, <1>3, <1>6 DEF Ahead
  <2> QED
    BY <1>1, <1>2, <1>3, <1>4, <1>6, <2>1, <2>2, <2>3, <2>4 DEF ConsOK, NeverEmptied, Popping
<1> QED
  BY <1>13, <1>14, <1>15 DEF IInv, CoreInv

\* POP_DATA stores the head.  Behind a header the sync word is found and the
\* body fits the caller's buffer; behind a body the whole packet is handed out.
LEMMA PopAdvanceInv ==
  ASSUME ConfigFits, IInv, PopAdvance
  PROVE  IInv'
<1>1. TypeOK /\ UnreadIntact /\ FramesOK /\ ProdOK /\ ConsOK /\ InOrder
      /\ delivered \in Seq(BodyType)
  BY DEF IInv, CoreInv
<1>2. /\ cpc = "advance" /\ nHeadPos' = IF cLeft = 0 THEN nHeadPos + PopLen ELSE cLeft
      /\ UNCHANGED <<m_pShmBuf, nTailPos, pvars, wr, frames, torn>>
  BY DEF PopAdvance
<1>3. Popping
  BY <1>2 DEF Popping
<1>4. /\ Len(delivered) + 1 \in 1 .. Len(frames) /\ Len(delivered) \in Nat
      /\ Cur.start \in Nat /\ Cur.size \in Nat /\ PopLen \in Nat /\ Skip \in Nat
      /\ Skip + PopLen <= Cur.size
      /\ HEAD_LEN < Cur.size /\ Cur.size - HEAD_LEN <= nDataBufSize
      /\ cPart = "data" => Skip + PopLen = Cur.size
  BY <1>3, PopFacts
<1>5. /\ nHeadPos \in Pos /\ cTail \in Pos /\ nTailPos \in Pos /\ wr \in Nat /\ cLeft \in Nat
      /\ Ahead(nHeadPos, cTail, nTailPos)
      /\ Copied(PopLen)
      /\ cLeft > 0 => cLeft <= PopLen /\ nHeadPos > cTail /\ nHeadPos = m_nBufSize
      /\ cLeft = 0 => nHeadPos <= cTail \/ m_nBufSize - nHeadPos >= PopLen
      /\ nFullDataSize = Cur.size /\ EndOf(Cur) <= wr
  BY <1>1, <1>2, <1>3 DEF TypeOK, ConsOK
<1>6. PICK m \in Nat : m = PopLen - Done /\ m = (IF cLeft = 0 THEN PopLen ELSE cLeft)
  <2>1. CASE cLeft = 0
    BY <1>2, <1>4, <2>1 DEF Done
  <2>2. CASE cLeft # 0
    <3>1. cLeft > 0
      BY <1>5, <2>2
    <3>2. Done = PopLen - cLeft
      BY <1>2, <3>1 DEF Done
    <3> QED
      BY <1>4, <1>5, <2>2, <3>2
  <2> QED
    BY <2>1, <2>2
<1>7. /\ Rd = Cur.start + Skip + Done /\ Avail(nHeadPos, cTail) >= Cur.size - Skip - Done
      /\ Avail(nHeadPos, cTail) \in Nat /\ Done \in Nat
  <2>1. Done \in Nat
    BY <1>2, <1>4, <1>5 DEF Done
  <2> QED
    BY <1>1, <1>3, <1>5, <2>1, AvailRange DEF ConsOK
<1>8. m <= Avail(nHeadPos, cTail)
  BY <1>4, <1>6, <1>7
<1>9. nHeadPos' = IF nHeadPos > cTail /\ m_nBufSize - nHeadPos < m
                  THEN m - (m_nBufSize - nHeadPos) ELSE nHeadPos + m
  BY <1>2, <1>4, <1>5, <1>6, RingAssumption, SMTT(30) DEF Pos
<1>10. /\ nHeadPos' \in Pos /\ UnreadIntact' /\ ProdOK' /\ Rd' = Rd + m
       /\ Avail(nHeadPos', cTail) = Avail(nHeadPos, cTail) - m
       /\ Ahead(nHeadPos', cTail, nTailPos)
  BY <1>1, <1>2, <1>5, <1>8, <1>9, HeadMoves
<1>11. Rd' = Cur.start + Skip + PopLen
  <2>1. m = PopLen - Done
    BY <1>6
  <2>2. Cur.start + Skip + Done + m = Cur.start + Skip + PopLen
    BY <1>4, <1>7, <2>1
  <2>3. Rd' = Cur.start + Skip + Done + m
    BY <1>7, <1>10
  <2> QED
    BY <2>2, <2>3
<1>12. FramesOK'
  BY <1>1, <1>2 DEF FramesOK, EndOf
<1>13. CASE cPart = "data"
  <2>1. delivered' = Append(delivered, cBuf) /\ PopReturn /\ UNCHANGED astray
    BY <1>13 DEF PopAdvance
  <2>2. Skip = HEAD_LEN /\ PopLen = Cur.size - HEAD_LEN
    BY <1>5, <1>13 DEF Skip, PopLen
  <2>3. cBuf = Body(Cur)
    BY <1>5, <2>2 DEF Copied, Body
  <2>4. cBuf \in BodyType
    <3>1. PopLen \in Nat /\ cBuf = [i \in 0 .. PopLen - 1 |-> Cur.start + Skip + i]
      BY <1>4, <1>5 DEF Copied
    <3>2. cBuf \in [0 .. PopLen - 1 -> Nat]
      BY <1>4, <3>1
    <3>3. [0 .. PopLen - 1 -> Nat] \in {[0 .. n - 1 -> Nat] : n \in Nat}
      BY <3>1
    <3> QED
      BY <3>2, <3>3, Zenon DEF BodyType
  <2>5. /\ delivered' \in Seq(BodyType) /\ Len(delivered') = Len(delivered) + 1
        /\ delivered'[Len(delivered) + 1] = cBuf
        /\ \A i \in 1 .. Len(delivered) : delivered'[i] = delivered[i]
    BY <1>1, <2>1, <2>4
  <2>6. InOrder'
    <3>1. ASSUME NEW i \in 1 .. Len(delivered')
          PROVE  delivered'[i] = Body(frames[i])
      <4>1. CASE i = Len(delivered) + 1
        BY <2>3, <2>5, <4>1 DEF Cur
      <4>2. CASE i # Len(delivered) + 1
        <5>1. i \in 1 .. Len(delivered)
          BY <1>4, <2>5, <4>2
        <5> QED
          BY <1>1, <2>5, <5>1 DEF InOrder
      <4> QED
        BY <4>1, <4>2
    <3> QED
      BY <1>2, <3>1 DEF InOrder, Body
  <2>7. TypeOK'
    <3>1. 0 \in Pos
      BY RingAssumption DEF Pos
    <3> QED
      BY <1>1, <1>2, <1>10, <2>1, <3>1 DEF TypeOK, PopReturn, pvars
  <2>8. Rd' = EndOf(Cur)
    BY <1>4, <1>11, <1>13 DEF EndOf
  <2>9. NextStart' = EndOf(Cur)
    <3>1. Len(frames) \in Nat
      BY <1>1, FrameFacts
    <3>2. LastEnd' = LastEnd
      BY <1>2 DEF LastEnd, EndOf
    <3>3. CASE Len(delivered) + 1 < Len(frames)
      <4>1. NextStart' = frames[Len(delivered) + 1 + 1].start
        BY <1>2, <2>5, <3>3 DEF NextStart
      <4>2. Len(delivered) + 1 \in 1 .. Len(frames) - 1
        BY <1>4, <3>1, <3>3
      <4> QED
        BY <1>1, <4>1, <4>2 DEF FramesOK, Cur
    <3>4. CASE ~(Len(delivered) + 1 < Len(frames))
      <4>1. Len(delivered) + 1 = Len(frames) /\ Len(frames) # 0
        BY <1>4, <3>1, <3>4
      <4>2. NextStart' = LastEnd
        BY <1>2, <2>5, <3>2, <3>4 DEF NextStart
      <4> QED
        BY <4>1, <4>2 DEF LastEnd, Cur
    <3> QED
      BY <3>3, <3>4
  <2>10. Len(delivered') <= Len(frames')
    BY <1>2, <1>4, <2>5
  <2>11. ConsOK'
    BY <2>1, <2>8, <2>9, <2>10 DEF PopReturn, ConsOK, NeverEmptied, Popping
  <2> QED
    BY <1>10, <1>12, <2>5, <2>6, <2>7, <2>11 DEF IInv, CoreInv
<1>14. CASE cPart = "head"
  <2>1. Skip = 0 /\ PopLen = HEAD_LEN
    BY <1>14 DEF Skip, PopLen
  <2>2. SyncWord(cBuf)
    <3>1. cBuf = [i \in 0 .. HEAD_LEN - 1 |-> Cur.start + 0 + i]
      BY <1>5, <2>1 DEF Copied
    <3>2. \A i \in LEN_INT .. HEAD_LEN - 1 : cBuf[i] = Cur.start + i
      BY <1>4, <3>1, RingAssumption
    <3>3. Len(delivered) + 1 \in DOMAIN frames
      BY <1>1, <1>4, FrameFacts
    <3> QED
      BY <3>2, <3>3 DEF SyncWord, Cur
  <2>3. nFullDataSize - HEAD_LEN \in 0 .. nDataBufSize
    BY <1>4, <1>5, RingAssumption
  <2>4. /\ cpc' = "copy" /\ cPart' = "data" /\ cLeft' = 0 /\ cBuf' = <<>>
        /\ UNCHANGED <<cTail, nFullDataSize, delivered, astray>>
    <3>1. SyncWordReads(cBuf) = {TRUE}
      BY <2>2 DEF SyncWordReads
    <3> QED
      BY <1>14, <2>2, <2>3, <3>1 DEF PopAdvance
  <2>5. TypeOK'
    BY <1>1, <1>2, <1>10, <2>4 DEF TypeOK, pvars
  <2>6. InOrder' /\ delivered' \in Seq(BodyType)
    BY <1>1, <1>2, <2>4 DEF InOrder, Body
  <2>7. Cur' = Cur /\ EndOf(Cur)' = EndOf(Cur) /\ Skip' = HEAD_LEN /\ Done' = 0
    BY <1>2, <2>4 DEF Cur, EndOf, Skip, Done
  <2>8. Rd' = Cur'.start + Skip' + Done'
    BY <1>4, <1>11, <2>1, <2>7
  <2>9. Avail(nHeadPos, cTail)' >= Cur'.size - Skip' - Done'
    <3>1. Avail(nHeadPos, cTail)' = Avail(nHeadPos, cTail) - m
      BY <1>10, <2>4 DEF Avail
    <3>2. Avail(nHeadPos, cTail) - m >= Cur.size - HEAD_LEN - 0
      BY <1>4, <1>6, <1>7, <2>1
    <3> QED
      BY <2>7, <3>1, <3>2
  <2>10. Ahead(nHeadPos, cTail, nTailPos)'
    BY <1>2, <1>10, <2>4 DEF Ahead
  <2>11. ConsOK'
    BY <1>1, <1>2, <1>3, <1>5, <2>4, <2>7, <2>8, <2>9, <2>10 DEF ConsOK, NeverEmptied
  <2> QED
    BY <1>10, <1>12, <2>5, <2>6, <2>11 DEF IInv, CoreInv
<1> QED
  BY <1>1, <1>13, <1>14 DEF TypeOK
=============================================================================
