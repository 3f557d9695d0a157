------------------------- MODULE LoopBufPushProofs --------------------------
(***************************************************************************)
(* The producer's steps keep the inductive invariant of LoopBufInv.        *)
(***************************************************************************)
EXTENDS LoopBufInv, TLAPS

\* The call of PushIn keeps the invariant.
LEMMA PushInInv ==
  ASSUME IInv, NEW args \in Calls, PushIn(args)
  PROVE  IInv'
<1>1. /\ ppc = "idle" /\ ppc' = "load" /\ pArgs' = args /\ pTry' = 1
      /\ UNCHANGED <<shared, pPart, pHead, pTail, cvars, hist>>
  BY DEF PushIn
<1>2. UNCHANGED <<m_pShmBuf, nHeadPos, nTailPos, wr, frames, delivered, torn, astray>>
  BY <1>1 DEF shared, hist
<1>3. UnreadIntact' /\ ConsOK' /\ FramesOK' /\ InOrder'
  BY <1>1, <1>2, UnreadStays, ConsStays DEF IInv, CoreInv, FramesOK, InOrder, EndOf, Body
<1>4. pPart = 0
  BY <1>1 DEF IInv, CoreInv, ProdOK
<1>5. TypeOK'
  BY <1>1, <1>2, <1>4, CallFacts DEF IInv, CoreInv, TypeOK, cvars
<1>6. ProdOK'
  BY <1>1, <1>2 DEF IInv, CoreInv, ProdOK, LastEnd, EndOf
<1> QED
  BY <1>2, <1>3, <1>5, <1>6 DEF IInv, CoreInv

\* PushInNoblock loads the head: the snapshot is exact for the moment.
LEMMA PushLoadInv ==
  ASSUME IInv, PushLoad
  PROVE  IInv'
<1>1. /\ ppc = "load" /\ ppc' = "check" /\ pHead' = nHeadPos
      /\ UNCHANGED <<shared, pArgs, pPart, pTry, pTail, cvars, hist>>
  BY DEF PushLoad
<1>2. UNCHANGED <<m_pShmBuf, nHeadPos, nTailPos, wr, frames, delivered, torn, astray>>
  BY <1>1 DEF shared, hist
<1>3. UnreadIntact' /\ ConsOK' /\ FramesOK' /\ InOrder'
  BY <1>1, <1>2, UnreadStays, ConsStays DEF IInv, CoreInv, FramesOK, InOrder, EndOf, Body
<1>4. TypeOK'
  BY <1>1, <1>2 DEF IInv, CoreInv, TypeOK, cvars
<1>5. Behind(pHead, nHeadPos, nTailPos)'
  BY <1>1, <1>2 DEF IInv, CoreInv, TypeOK, Pos, Behind
<1>6. ProdOK'
  BY <1>1, <1>2, <1>5 DEF IInv, CoreInv, ProdOK, LastEnd, EndOf
<1> QED
  BY <1>2, <1>3, <1>4, <1>6 DEF IInv, CoreInv

\* PushInNoblock returns: nothing of the frame is left to push.
LEMMA PushReturnFacts ==
  ASSUME TypeOK, pArgs \in Calls, NEW n, PushReturn(n)
  PROVE  /\ ppc' \in {"idle", "load"} /\ (ppc' # "idle" => pArgs' \in Calls)
         /\ pArgs' \in Calls \cup {<<0>>} /\ pPart' = 0 /\ pTry' \in 0 .. 3
         /\ pPart' \in 0 .. Len(pArgs') /\ pHead' = 0 /\ pTail' = 0
<1>1. Len(pArgs') \in Nat /\ pArgs' \in Calls \cup {<<0>>}
  BY CallFacts DEF PushReturn
<1> QED
  BY <1>1 DEF PushReturn, TypeOK

\* The header is built: a frame is begun at wr.
LEMMA PushBeginInv ==
  ASSUME IInv, ppc = "check", PushSizeEnough(pHead, nTailPos, BodySize(pArgs) + HEAD_LEN),
         frames' = Append(frames, [start |-> wr, size |-> BodySize(pArgs) + HEAD_LEN]),
         ppc' = "copy", pPart' = 0,
         UNCHANGED <<shared, pArgs, pTry, pHead, pTail, cvars, wr, delivered, torn, astray>>
  PROVE  IInv'
<1> DEFINE f == [start |-> wr, size |-> BodySize(pArgs) + HEAD_LEN]
<1>1. TypeOK /\ UnreadIntact /\ FramesOK /\ ProdOK /\ ConsOK /\ InOrder /\ delivered \in Seq(BodyType)
  BY DEF IInv, CoreInv
<1>2. UNCHANGED <<m_pShmBuf, nHeadPos, nTailPos>>
  BY DEF shared
<1>3. pArgs \in Calls /\ wr = LastEnd /\ wr \in Nat /\ Behind(pHead, nHeadPos, nTailPos)
  BY <1>1 DEF ProdOK, TypeOK
<1>4. BodySize(pArgs) \in Nat /\ f \in [start : Nat, size : Nat]
  BY <1>3, CallFacts, RingAssumption
<1>5. /\ frames \in Seq([start : Nat, size : Nat]) /\ Len(frames) \in Nat
      /\ \A j \in 1 .. Len(frames) : frames[j].start \in Nat /\ frames[j].size \in Nat
  BY <1>1, FrameFacts DEF TypeOK
<1>6. /\ frames' \in Seq([start : Nat, size : Nat]) /\ Len(frames') = Len(frames) + 1
      /\ \A j \in 1 .. Len(frames) : frames'[j] = frames[j]
      /\ frames'[Len(frames) + 1] = f
  BY <1>4, <1>5
<1>7. f.start = wr /\ f.size = BodySize(pArgs) + HEAD_LEN
  OBVIOUS
<1> HIDE DEF f
<1>8. TypeOK'
  BY <1>1, <1>2, <1>6, CallFacts, <1>3 DEF TypeOK, cvars
<1>9. UnreadIntact'
  BY <1>1, UnreadStays
<1>10. FramesOK'
  <2>0. /\ \A j \in 1 .. Len(frames) : \E c \in Calls : frames[j].size = BodySize(c) + HEAD_LEN
        /\ \A i, j \in 1 .. Len(frames) : i < j => EndOf(frames[i]) <= frames[j].start
        /\ \A j \in 1 .. Len(frames) - 1 : frames[j + 1].start = EndOf(frames[j])
    BY <1>1 DEF FramesOK
  <2>1. ASSUME NEW j \in 1 .. Len(frames) PROVE EndOf(frames[j]) <= LastEnd
    <3>1. CASE j = Len(frames)
      BY <3>1, <1>5 DEF LastEnd, EndOf
    <3>2. CASE j < Len(frames)
      <4>1. Len(frames) \in 1 .. Len(frames) /\ LastEnd = EndOf(frames[Len(frames)])
        BY <1>5 DEF LastEnd
      <4>2. EndOf(frames[j]) <= frames[Len(frames)].start
        BY <2>0, <3>2, <4>1
      <4>3. /\ frames[j].start \in Nat /\ frames[j].size \in Nat
            /\ frames[Len(frames)].start \in Nat /\ frames[Len(frames)].size \in Nat
        BY <1>5, <4>1
      <4> QED
        BY <4>1, <4>2, <4>3, SMTT(30) DEF EndOf
    <3> QED
      BY <1>5, <3>1, <3>2
  <2>2. ASSUME NEW j \in 1 .. Len(frames')
        PROVE  \E c \in Calls : frames'[j].size = BodySize(c) + HEAD_LEN
    <3>1. CASE j \in 1 .. Len(frames)
      BY <2>0, <3>1, <1>6
    <3>2. CASE j = Len(frames) + 1
      BY <3>2, <1>3, <1>6, <1>7
    <3> QED
      BY <1>5, <1>6, <3>1, <3>2, SMTT(30)
  <2>3. ASSUME NEW i \in 1 .. Len(frames'), NEW j \in 1 .. Len(frames'), i < j
        PROVE  EndOf(frames'[i]) <= frames'[j].start
    <3>0. i \in 1 .. Len(frames) /\ frames'[i] = frames[i]
      BY <1>5, <1>6, <2>3
    <3>1. CASE j \in 1 .. Len(frames)
      BY <2>0, <2>3, <3>0, <3>1, <1>6
    <3>2. CASE j = Len(frames) + 1
      BY <2>1, <3>0, <3>2, <1>3, <1>6, <1>7
    <3> QED
      BY <1>5, <1>6, <3>1, <3>2
  <2>4. ASSUME NEW j \in 1 .. Len(frames') - 1
        PROVE  frames'[j + 1].start = EndOf(frames'[j])
    <3>0. j \in 1 .. Len(frames) /\ frames'[j] = frames[j]
      BY <1>5, <1>6
    <3>1. CASE j < Len(frames)
      <4>1. j \in 1 .. Len(frames) - 1 /\ j + 1 \in 1 .. Len(frames)
        BY <1>5, <3>0, <3>1
      <4> QED
        BY <2>0, <3>0, <4>1, <1>6
    <3>2. CASE j = Len(frames)
      BY <3>0, <3>2, <1>3, <1>5, <1>6, <1>7 DEF LastEnd
    <3> QED
      BY <1>5, <3>0, <3>1, <3>2, SMTT(30)
  <2> QED
    BY <2>2, <2>3, <2>4 DEF FramesOK, EndOf
<1>11. LastEnd' = wr + BodySize(pArgs) + HEAD_LEN
  BY <1>3, <1>4, <1>5, <1>6, <1>7, RingAssumption, SMTT(30) DEF LastEnd, EndOf
<1>12. ProdOK'
  <2>1. RemLen' = HEAD_LEN + BodySize(pArgs)
    BY DEF RemLen
  <2>2. Room(pHead, nTailPos, HEAD_LEN + BodySize(pArgs))
    BY <1>1, <1>4, RingAssumption, SMTT(30) DEF TypeOK, Pos, Room, PushSizeEnough
  <2>3. Room(pHead, nTailPos, RemLen)'
    BY <1>2, <2>1, <2>2 DEF Room
  <2>4. wr' + RemLen' = LastEnd'
    BY <1>3, <1>4, <1>11, <2>1, RingAssumption
  <2>5. Behind(pHead, nHeadPos, nTailPos)'
    BY <1>2, <1>3 DEF Behind
  <2>6. Len(frames') > 0 /\ frames'[Len(frames')].size = BodySize(pArgs') + HEAD_LEN
    BY <1>5, <1>6, <1>7
  <2> QED
    BY <1>3, <2>3, <2>4, <2>5, <2>6 DEF ProdOK
<1>13. Len(delivered) \in Nat /\ Len(delivered) <= Len(frames)
  BY <1>1, DeliveredFacts DEF ConsOK
<1>14. ConsOK'
  <2>1. /\ cpc' = cpc /\ cPart' = cPart /\ cTail' = cTail /\ nFullDataSize' = nFullDataSize
        /\ cLeft' = cLeft /\ cBuf' = cBuf
    BY DEF cvars
  <2>2. Rd' = Rd /\ Skip' = Skip /\ PopLen' = PopLen
    BY <1>2, <2>1 DEF Rd, Skip, PopLen, Avail
  <2>3. Done' = Done /\ (Popping' <=> Popping)
    BY <2>1, <2>2 DEF Done, Popping
  <2>4. NextStart' = NextStart
    BY <1>3, <1>5, <1>6, <1>7, <1>13 DEF NextStart
  <2>5. Popping => Cur' = Cur
    BY <1>1, <1>5, <1>6, <1>13 DEF ConsOK, Cur
  <2>6. /\ Popping => Len(delivered') < Len(frames')
        /\ Len(delivered') <= Len(frames')
    BY <1>5, <1>6, <1>13
  <2>7. Popping => /\ Copied(PopLen)' = Copied(PopLen)
                   /\ Copied(PopLen - cLeft)' = Copied(PopLen - cLeft)
    BY <2>1, <2>2, <2>5 DEF Copied
  <2> QED
    BY <1>1, <1>2, <2>1, <2>2, <2>3, <2>4, <2>5, <2>6, <2>7
    DEF ConsOK, NeverEmptied, Avail, Ahead, EndOf, Popping
<1>15. InOrder'
  BY <1>1, <1>5, <1>6, <1>13, SMTT(30) DEF InOrder, Body
<1> QED
  BY <1>1, <1>8, <1>9, <1>10, <1>12, <1>14, <1>15 DEF IInv, CoreInv

\* IS_PUSH_SIZE_ENOUGH accepts a frame only where it has room.
LEMMA PushCheckInv ==
  ASSUME IInv, PushCheck
  PROVE  IInv'
<1>1. TypeOK /\ UnreadIntact /\ FramesOK /\ ProdOK /\ ConsOK /\ InOrder
  BY DEF IInv, CoreInv
<1>2. CASE PushSizeEnough(pHead, nTailPos, BodySize(pArgs) + HEAD_LEN)
  BY <1>2, PushBeginInv DEF PushCheck
<1>3. CASE ~PushSizeEnough(pHead, nTailPos, BodySize(pArgs) + HEAD_LEN)
  <2>1. /\ ppc = "check" /\ PushReturn(0)
        /\ UNCHANGED <<shared, cvars, wr, delivered, torn, astray, frames>>
    BY <1>3 DEF PushCheck
  <2>2. UNCHANGED <<m_pShmBuf, nHeadPos, nTailPos>>
    BY <2>1 DEF shared
  <2>3. UnreadIntact' /\ ConsOK' /\ FramesOK' /\ InOrder'
    BY <1>1, <2>1, <2>2, UnreadStays, ConsStays DEF FramesOK, InOrder, EndOf, Body
  <2>4. pArgs \in Calls
    BY <1>1, <2>1 DEF ProdOK
  <2>5. TypeOK'
    BY <1>1, <2>1, <2>2, <2>4, PushReturnFacts, RingAssumption DEF TypeOK, cvars, Pos
  <2>6. ProdOK'
    BY <1>1, <2>1, <2>2, <2>4, PushReturnFacts DEF ProdOK, LastEnd, EndOf
  <2> QED
    BY <2>1, <2>3, <2>5, <2>6 DEF IInv, CoreInv
<1> QED
  BY <1>2, <1>3

\* PUSH_DATA writes the part behind the tail and no unread cell.
LEMMA PushCopyInv ==
  ASSUME IInv, PushCopy
  PROVE  IInv'
<1>1. TypeOK /\ UnreadIntact /\ FramesOK /\ ProdOK /\ ConsOK /\ InOrder
  BY DEF IInv, CoreInv
<1>2. /\ ppc = "copy" /\ ppc' = "advance" /\ pTail' = nTailPos
      /\ m_pShmBuf' = Written(m_pShmBuf, pHead, nTailPos, PartLen, wr)
      /\ UNCHANGED <<nHeadPos, nTailPos, pArgs, pPart, pTry, pHead, cvars, wr, frames, delivered, torn, astray>>
  BY DEF PushCopy, hist
<1>3. /\ pArgs \in Calls /\ Behind(pHead, nHeadPos, nTailPos) /\ Room(pHead, nTailPos, RemLen)
  BY <1>1, <1>2 DEF ProdOK
<1>4. /\ pHead \in Pos /\ nHeadPos \in Pos /\ nTailPos \in Pos /\ wr \in Nat
      /\ m_pShmBuf \in [0 .. m_nBufSize - 1 -> Nat \cup {NoByte}]
      /\ PartLen \in 0 .. RemLen /\ RemLen \in Nat
  BY <1>1, <1>3, PartFacts DEF TypeOK
<1>5. /\ m_pShmBuf' \in [0 .. m_nBufSize - 1 -> Nat \cup {NoByte}]
      /\ \A i \in 0 .. Avail(nHeadPos, nTailPos) - 1 :
           m_pShmBuf'[Wrap(nHeadPos + i)] = m_pShmBuf[Wrap(nHeadPos + i)]
      /\ \A j \in 0 .. PartLen - 1 : m_pShmBuf'[Wrap(nTailPos + j)] = wr + j
  <2>1. \A k \in 0 .. m_nBufSize - 1 :
          m_pShmBuf'[k] = IF k >= nTailPos /\ k - nTailPos < PartLen
                          THEN wr + (k - nTailPos)
                          ELSE IF PushSplit(pHead, nTailPos, PartLen)
                                  /\ k < PartLen - (m_nBufSize - nTailPos)
                          THEN wr + (m_nBufSize - nTailPos) + k
                          ELSE m_pShmBuf[k]
    BY <1>2 DEF Written
  <2>2. m_pShmBuf' \in [0 .. m_nBufSize - 1 -> Nat \cup {NoByte}]
    BY <1>2, <1>4, RingAssumption DEF Written, Pos
  <2>3. ASSUME NEW i \in 0 .. Avail(nHeadPos, nTailPos) - 1
        PROVE  m_pShmBuf'[Wrap(nHeadPos + i)] = m_pShmBuf[Wrap(nHeadPos + i)]
    <3>1. PICK k : k = Wrap(nHeadPos + i)
      OBVIOUS
    <3>2. /\ k \in 0 .. m_nBufSize - 1
          /\ ~(k >= nTailPos /\ k - nTailPos < PartLen)
          /\ ~(PushSplit(pHead, nTailPos, PartLen) /\ k < PartLen - (m_nBufSize - nTailPos))
      BY <1>3, <1>4, <3>1, PushKeeps
    <3>3. m_pShmBuf'[k] = m_pShmBuf[k]
      BY <2>1, <3>2
    <3> QED
      BY <3>1, <3>3
  <2>4. ASSUME NEW j \in 0 .. PartLen - 1
        PROVE  m_pShmBuf'[Wrap(nTailPos + j)] = wr + j
    <3>1. PICK k : k = Wrap(nTailPos + j)
      OBVIOUS
    <3>2. /\ k \in 0 .. m_nBufSize - 1
          /\ IF k >= nTailPos /\ k - nTailPos < PartLen
             THEN k - nTailPos = j
             ELSE /\ PushSplit(pHead, nTailPos, PartLen)
                  /\ k < PartLen - (m_nBufSize - nTailPos)
                  /\ (m_nBufSize - nTailPos) + k = j
      BY <1>3, <1>4, <3>1, PushFills
    <3>3. wr + (m_nBufSize - nTailPos) + k = wr + ((m_nBufSize - nTailPos) + k)
      BY <1>4, <3>2, RingAssumption DEF Pos
    <3>4. m_pShmBuf'[k] = wr + j
      BY <2>1, <3>2, <3>3
    <3> QED
      BY <3>1, <3>4
  <2> QED
    BY <2>2, <2>3, <2>4
<1>6. TypeOK'
  BY <1>1, <1>2, <1>4, <1>5 DEF TypeOK, cvars
<1>7. UnreadIntact'
  <2>1. \A i \in 0 .. Avail(nHeadPos, nTailPos) - 1 : m_pShmBuf[Wrap(nHeadPos + i)] = Rd + i
    BY <1>1, UnreadCells
  <2>2. Rd' = Rd
    BY <1>2 DEF Rd, Avail
  <2> QED
    BY <1>2, <1>4, <1>5, <1>6, <2>1, <2>2, UnreadCellsNext
<1>8. ProdOK'
  <2>1. RemLen' = RemLen /\ PartLen' = PartLen /\ LastEnd' = LastEnd
    BY <1>2 DEF RemLen, PartLen, LastEnd, EndOf
  <2> QED
    BY <1>1, <1>2, <1>5, <2>1 DEF ProdOK, Behind, Room
<1>9. ConsOK' /\ FramesOK' /\ InOrder'
  BY <1>1, <1>2, ConsStays DEF FramesOK, InOrder, EndOf, Body
<1> QED
  BY <1>2, <1>6, <1>7, <1>8, <1>9 DEF IInv, CoreInv

\* PUSH_DATA stores the tail: what it wrote becomes unread, in order.
LEMMA PushAdvanceInv ==
  ASSUME IInv, PushAdvance
  PROVE  IInv'
<1>1. /\ TypeOK /\ UnreadIntact /\ FramesOK /\ ProdOK /\ ConsOK /\ InOrder
      /\ delivered \in Seq(BodyType)
  BY DEF IInv, CoreInv
<1>2. /\ ppc = "advance" /\ wr' = wr + PartLen
      /\ UNCHANGED <<m_pShmBuf, nHeadPos, cvars, delivered, torn, astray, frames>>
  BY DEF PushAdvance
<1>3. /\ pArgs \in Calls /\ Behind(pHead, nHeadPos, nTailPos) /\ Room(pHead, nTailPos, RemLen)
      /\ pTail = nTailPos /\ wr + RemLen = LastEnd
      /\ \A j \in 0 .. PartLen - 1 : m_pShmBuf[Wrap(nTailPos + j)] = wr + j
  BY <1>1, <1>2 DEF ProdOK
<1>4. /\ pHead \in Pos /\ nHeadPos \in Pos /\ nTailPos \in Pos /\ wr \in Nat
      /\ PartLen \in 0 .. RemLen /\ RemLen \in Nat
  BY <1>1, <1>3, PartFacts DEF TypeOK
<1>5. nTailPos' = IF PushSplit(pHead, nTailPos, PartLen)
                  THEN PartLen - (m_nBufSize - nTailPos) ELSE nTailPos + PartLen
  BY <1>3 DEF PushAdvance
<1>6. /\ nTailPos' \in Pos
      /\ Avail(nHeadPos, nTailPos') = Avail(nHeadPos, nTailPos) + PartLen
      /\ Behind(pHead, nHeadPos, nTailPos')
      /\ Room(pHead, nTailPos', RemLen - PartLen)
      /\ \A c \in Pos : Ahead(nHeadPos, c, nTailPos) => Ahead(nHeadPos, c, nTailPos')
      /\ \A j \in 0 .. PartLen - 1 :
           Wrap(nHeadPos + (Avail(nHeadPos, nTailPos) + j)) = Wrap(nTailPos + j)
  BY <1>3, <1>4, <1>5, PushGeometry
<1>7. Avail(nHeadPos, nTailPos) \in Nat
  BY <1>4, AvailRange
<1>8. Rd' = Rd
  BY <1>2, <1>4, <1>6, <1>7 DEF Rd
<1>9. /\ ppc' \in {"copy", "idle", "load"} /\ pArgs' \in Calls \cup {<<0>>}
      /\ pPart' \in 0 .. Len(pArgs') /\ pTry' \in 0 .. 3 /\ pHead' \in Pos /\ pTail' \in Pos
  <2>1. 0 \in Pos
    BY RingAssumption DEF Pos
  <2>2. CASE pPart < Len(pArgs)
    <3>1. pPart \in 0 .. Len(pArgs) /\ Len(pArgs) \in Nat
      BY <1>1, <1>3, CallFacts DEF TypeOK
    <3>2. pPart + 1 \in 0 .. Len(pArgs)
      BY <2>2, <3>1
    <3> QED
      BY <1>1, <2>1, <2>2, <3>2 DEF PushAdvance, TypeOK
  <2>3. CASE ~(pPart < Len(pArgs))
    BY <1>1, <1>3, <2>1, <2>3, PushReturnFacts DEF PushAdvance
  <2> QED
    BY <2>2, <2>3
<1>10. TypeOK'
  BY <1>1, <1>2, <1>4, <1>6, <1>9 DEF TypeOK, cvars
<1>11. UnreadIntact'
  <2>1. \A i \in 0 .. Avail(nHeadPos, nTailPos) - 1 : m_pShmBuf[Wrap(nHeadPos + i)] = Rd + i
    BY <1>1, UnreadCells
  <2>2. PICK a \in Nat : a = Avail(nHeadPos, nTailPos)
    BY <1>7
  <2>3. Rd = wr - a
    BY <2>2 DEF Rd
  <2>4. ASSUME NEW i \in 0 .. a + PartLen - 1
        PROVE  m_pShmBuf[Wrap(nHeadPos + i)] = Rd + i
    <3>1. CASE i < a
      BY <2>1, <2>2, <3>1
    <3>2. CASE i >= a
      <4>1. PICK j \in 0 .. PartLen - 1 : i = a + j
        <5>1. i - a \in 0 .. PartLen - 1 /\ i = a + (i - a)
          BY <1>4, <2>2, <3>2
        <5> QED
          BY <5>1
      <4>2. m_pShmBuf[Wrap(nHeadPos + (a + j))] = wr + j
        BY <1>3, <1>6, <2>2
      <4>3. Rd + i = wr + j
        BY <1>4, <2>3, <4>1
      <4> QED
        BY <4>1, <4>2, <4>3
    <3> QED
      BY <2>2, <1>4, <3>1, <3>2
  <2>5. m_pShmBuf' = m_pShmBuf /\ nHeadPos' = nHeadPos
    BY <1>2
  <2>6. PICK b \in Nat : b = a + PartLen
    BY <1>4
  <2>7. Avail(nHeadPos', nTailPos') = b
    BY <1>6, <2>2, <2>5, <2>6
  <2>8. ASSUME NEW i \in 0 .. b - 1
        PROVE  m_pShmBuf'[Wrap(nHeadPos' + i)] = Rd' + i
    <3>1. i \in 0 .. a + PartLen - 1
      BY <1>4, <2>6
    <3>2. m_pShmBuf[Wrap(nHeadPos + i)] = Rd + i
      BY <2>4, <3>1
    <3> QED
      BY <1>8, <2>5, <3>2
  <2>9. \A i \in 0 .. b - 1 : m_pShmBuf'[Wrap(nHeadPos' + i)] = Rd' + i
    BY <2>8
  <2>10. \A i \in 0 .. Avail(nHeadPos', nTailPos') - 1 : m_pShmBuf'[Wrap(nHeadPos' + i)] = Rd' + i
    BY <2>7, <2>9, Zenon
  <2> QED
    BY <1>10, <2>10, UnreadCellsNext DEF TypeOK
<1>12. ProdOK'
  <2>1. LastEnd' = LastEnd
    BY <1>2 DEF LastEnd, EndOf
  <2>2. CASE pPart < Len(pArgs)
    <3>1. /\ ppc' = "copy" /\ pPart' = pPart + 1 /\ pArgs' = pArgs /\ pHead' = pHead
      BY <2>2 DEF PushAdvance
    <3>2. pPart \in Nat
      BY <1>1, <1>3, CallFacts DEF TypeOK
    <3>3. RemLen' = RemLen - PartLen
      BY <1>1, <1>3, <2>2, <3>1, <3>2, PartFacts DEF RemLen
    <3>4. wr' + RemLen' = LastEnd'
      BY <1>2, <1>3, <1>4, <2>1, <3>3
    <3>5. Room(pHead, nTailPos, RemLen)' /\ Behind(pHead, nHeadPos, nTailPos)'
      BY <1>2, <1>6, <3>1, <3>3 DEF Room, Behind
    <3> QED
      BY <1>1, <1>2, <1>3, <3>1, <3>4, <3>5 DEF ProdOK
  <2>3. CASE ~(pPart < Len(pArgs))
    <3>1. ppc' \in {"idle", "load"} /\ (ppc' # "idle" => pArgs' \in Calls) /\ pPart' = 0
      BY <1>1, <1>3, <2>3, PushReturnFacts DEF PushAdvance
    <3>2. wr' = LastEnd'
      BY <1>1, <1>2, <1>3, <1>4, <2>1, <2>3, PartFacts
    <3> QED
      BY <3>1, <3>2 DEF ProdOK
  <2> QED
    BY <2>2, <2>3
<1>13. ConsOK'
  <2>1. /\ cpc' = cpc /\ cPart' = cPart /\ cTail' = cTail /\ nFullDataSize' = nFullDataSize
        /\ cLeft' = cLeft /\ cBuf' = cBuf
    BY <1>2 DEF cvars
  <2>2. NextStart' = NextStart /\ Cur' = Cur /\ Skip' = Skip /\ PopLen' = PopLen
    BY <1>2, <2>1 DEF NextStart, LastEnd, EndOf, Cur, Skip, PopLen
  <2>3. Done' = Done /\ (Popping' <=> Popping)
    BY <2>1, <2>2 DEF Done, Popping
  <2>4. Copied(PopLen)' = Copied(PopLen) /\ Copied(PopLen - cLeft)' = Copied(PopLen - cLeft)
    BY <2>1, <2>2 DEF Copied
  <2>5. cpc # "idle" => Ahead(nHeadPos, cTail, nTailPos)'
    <3>1. cpc # "idle" => Ahead(nHeadPos, cTail, nTailPos')
      BY <1>1, <1>6 DEF ConsOK, TypeOK
    <3> QED
      BY <1>2, <2>1, <3>1 DEF Ahead
  <2>6. Popping => EndOf(Cur)' <= wr'
    <3>1. Popping => EndOf(Cur) \in Nat /\ EndOf(Cur) <= wr
      <4>1. Popping => Len(delivered) + 1 \in 1 .. Len(frames)
        BY <1>1, FrameFacts, DeliveredFacts DEF ConsOK
      <4> QED
        BY <1>1, <4>1, FrameFacts DEF ConsOK, EndOf, Cur
    <3>2. EndOf(Cur)' = EndOf(Cur)
      BY <2>2 DEF EndOf
    <3> QED
      BY <1>2, <1>4, <3>1, <3>2
  <2> QED
    BY <1>1, <1>2, <1>8, <2>1, <2>2, <2>3, <2>4, <2>5, <2>6 DEF ConsOK, NeverEmptied, Avail
<1>14. FramesOK' /\ InOrder'
  BY <1>1, <1>2 DEF FramesOK, InOrder, EndOf, Body
<1> QED
  BY <1>1, <1>2, <1>10, <1>11, <1>12, <1>13, <1>14 DEF IInv, CoreInv
=============================================================================
