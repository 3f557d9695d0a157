--------------------------- MODULE LoopBufProofs ----------------------------
(***************************************************************************)
(* The theorems about LoopBuf, for a ring, header, gap and packets of any  *)
(* size, under ConfigFits.                                                 *)
(***************************************************************************)
EXTENDS LoopBufPushProofs, LoopBufPopProofs, TLAPS


\* Steps that change nothing keep the invariant.
LEMMA StutterInv ==
  ASSUME IInv, UNCHANGED vars
  PROVE  IInv'
<1>1. /\ UNCHANGED <<shared, pvars, cvars, wr, frames, delivered, torn, astray>>
      /\ UNCHANGED <<m_pShmBuf, nHeadPos, nTailPos>>
  BY DEF vars, shared, hist
<1>2. UnreadIntact' /\ ProdOK' /\ ConsOK'
  BY <1>1, UnreadStays, ProdStays, ConsStays DEF IInv, CoreInv
<1>3. FramesOK' /\ InOrder' /\ delivered' \in Seq(BodyType)
  BY <1>1 DEF IInv, CoreInv, FramesOK, InOrder, EndOf, Body
<1>4. TypeOK'
  BY <1>1 DEF IInv, CoreInv, TypeOK, pvars, cvars
<1> QED
  BY <1>2, <1>3, <1>4 DEF IInv, CoreInv

\* Every step of PushIn and PopOut, in any interleaving, keeps the inductive
\* invariant, if every packet fits the consumer's buffer.
THEOREM RingInvariant ==
  ASSUME ConfigFits
  PROVE  Spec => []IInv
<1>1. Init => IInv
  BY InitInv
<1>2. IInv /\ [Next]_vars => IInv'
  <2> SUFFICES ASSUME IInv, [Next]_vars PROVE IInv'
    OBVIOUS
  <2>1. CASE \E args \in Calls : PushIn(args)
    BY <2>1, PushInInv
  <2>2. CASE PushLoad
    BY <2>2, PushLoadInv
  <2>3. CASE PushCheck
    BY <2>3, PushCheckInv
  <2>4. CASE PushCopy
    BY <2>4, PushCopyInv
  <2>5. CASE PushAdvance
    BY <2>5, PushAdvanceInv
  <2>6. CASE PopOut
    BY <2>6, PopOutInv
  <2>7. CASE PopCheck
    BY <2>7, PopCheckInv
  <2>8. CASE PopCopy
    BY <2>8, PopCopyInv
  <2>9. CASE PopWrap
    BY <2>9, PopWrapInv
  <2>10. CASE PopRest
    BY <2>10, PopRestInv
  <2>11. CASE PopAdvance
    BY <2>11, PopAdvanceInv
  <2>12. CASE PopZeroHead \/ PopZeroTail
    BY <2>12 DEF PopZeroHead, PopZeroTail, IInv, CoreInv, ConsOK, NeverEmptied
  <2>13. CASE UNCHANGED vars
    BY <2>13, StutterInv
  <2> QED
    BY <2>1, <2>2, <2>3, <2>4, <2>5, <2>6, <2>7, <2>8, <2>9, <2>10, <2>11, <2>12, <2>13
    DEF Next, Producer, Consumer
<1> QED
  BY <1>1, <1>2, PTL DEF Spec

\* The positions of the ring and the locals of PushIn and PopOut keep their
\* types: nHeadPos and nTailPos stay inside the mapping.
THEOREM RingTypes ==
  ASSUME ConfigFits
  PROVE  Spec => []TypeOK
<1>1. IInv => TypeOK
  BY DEF IInv, CoreInv
<1> QED
  BY <1>1, RingInvariant, PTL

\* PUSH_DATA never overwrites a byte that POP_DATA has not released.
THEOREM RingUnreadIntact ==
  ASSUME ConfigFits
  PROVE  Spec => []UnreadIntact
<1>1. IInv => UnreadIntact
  BY DEF IInv, CoreInv
<1> QED
  BY <1>1, RingInvariant, PTL

\* PopOut never empties the ring by SetZero or RUN_CHECK_SYNCWORD.
THEOREM RingNeverEmptied ==
  ASSUME ConfigFits
  PROVE  Spec => []NeverEmptied
<1>1. IInv => NeverEmptied
  BY DEF IInv, CoreInv, ConsOK
<1> QED
  BY <1>1, RingInvariant, PTL

\* What PopOut has handed out is the bodies of the first packets PushIn took,
\* whole, in their order, none lost and none twice.
THEOREM RingInOrder ==
  ASSUME ConfigFits
  PROVE  Spec => []InOrder
<1>1. IInv => InOrder
  BY DEF IInv, CoreInv
<1> QED
  BY <1>1, RingInvariant, PTL
=============================================================================
