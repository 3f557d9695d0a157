------------------------------ MODULE LoopBuf ------------------------------
(***************************************************************************)
(* CLoopBuf (libqtutils/loopbuf.cpp): a byte ring in shared memory, one    *)
(* process pushing framed packets and one popping them, with no lock.      *)
(*                                                                         *)
(* A frame is a header (LEN_INT length bytes, then the sync word) followed *)
(* by the body.  The two processes share m_pShmBuf, nHeadPos (written by   *)
(* PopOut) and nTailPos (written by PushIn); every load or store of a      *)
(* shared field by one side that the other side can tell apart is a step.  *)
(*                                                                         *)
(* A byte is identified by its index in the stream of all bytes ever       *)
(* pushed, so a byte that is lost, overwritten, repeated or misplaced is   *)
(* visible.  wr, frames, delivered, torn and astray are history variables. *)
(***************************************************************************)
EXTENDS Integers, Sequences, FiniteSets

CONSTANTS
  m_nBufSize,      \* bytes of the ring (nSize - sizeof(MemQueueHeader))
  INTERVAL_SPACE,  \* 16 in the code
  LEN_INT,         \* bytes of the length field, 4 in the code
  HEAD_LEN,        \* LOOP_PKT_HEAD_LEN: length field and sync word, 8
  CHECK_SIZE,      \* the 1024 of PopOut's length check
  nDataBufSize,    \* the buffer the consumer passes to PopOut
  Calls,           \* the argument lengths PushIn is called with: <<nDataSize>>
                   \* or <<nDataSize, nPkgLen>>
  GarbageLens,     \* what a length field that is no header may read as
  SyncSizes,       \* the frames of these sizes hold "@@@@" in their data
  MaxFrames        \* bound: frames begun in a behaviour

ASSUME RingAssumption ==
  /\ INTERVAL_SPACE \in Nat \ {0}
  /\ LEN_INT \in Nat \ {0}
  /\ HEAD_LEN \in Nat /\ LEN_INT < HEAD_LEN
  /\ m_nBufSize \in Nat /\ m_nBufSize >= INTERVAL_SPACE
  /\ CHECK_SIZE \in Nat
  /\ nDataBufSize \in Nat
  /\ Calls \subseteq Seq(Nat)
  /\ \A c \in Calls : Len(c) \in {1, 2}
  /\ GarbageLens \subseteq Int
  /\ MaxFrames \in Nat

VARIABLES
  m_pShmBuf, nHeadPos, nTailPos,      \* the shared mapping
  ppc, pArgs, pPart, pTry, pHead, pTail,   \* the process inside PushIn
  cpc, cPart, cTail, nFullDataSize, cLeft, cBuf, \* the process inside PopOut
  wr,         \* stream index of the next byte to be published
  frames,     \* the frames begun, in order: stream index and full size
  delivered,  \* the bodies PopOut returned, in order
  torn,       \* a push was cut by a reset or a crash, or a reset by a crash,
              \* and the ring has not been emptied between two pushes since
  astray      \* the head was left inside a frame ("inside"), and then data was
              \* taken for a header ("misled"); "no" once the ring is emptied

shared == <<m_pShmBuf, nHeadPos, nTailPos>>
pvars == <<ppc, pArgs, pPart, pTry, pHead, pTail>>
cvars == <<cpc, cPart, cTail, nFullDataSize, cLeft, cBuf>>
hist == <<wr, frames, delivered, torn, astray>>
vars == <<shared, pvars, cvars, hist>>

NoByte == -1
Pos == 0 .. m_nBufSize

-----------------------------------------------------------------------------
(* The arithmetic of the ring.                                             *)

\* CLoopBuf::GetSize for any pair of positions.
Avail(head, tail) ==
  IF head <= tail THEN tail - head ELSE m_nBufSize - head + tail

\* Mutant: the gap is added instead of kept.
PushSizeEnoughNoGap(head, tail, n) ==
  IF head <= tail
  THEN m_nBufSize - tail >= n \/ head + INTERVAL_SPACE >= n - (m_nBufSize - tail)
  ELSE head - tail > n + INTERVAL_SPACE

\* IS_PUSH_SIZE_ENOUGH, on the snapshot of the head the call took.
PushSizeEnough(head, tail, n) ==
  IF head <= tail
  THEN \/ m_nBufSize - tail >= n
       \/ head - INTERVAL_SPACE >= n - (m_nBufSize - tail)
  ELSE head - tail > n + INTERVAL_SPACE

\* Mutant: the end of the ring is taken one byte too far.
PushSplitLate(head, tail, n) == head <= tail /\ m_nBufSize - tail + 1 < n

\* PUSH_DATA wraps when the bytes do not fit between the tail and the end.
PushSplit(head, tail, n) == head <= tail /\ m_nBufSize - tail < n

\* PUSH_DATA's memcpy: the bytes wr, wr + 1 ... go to the tail and, when the
\* copy is split, on to the start of the ring.
Written(buf, head, tail, n, first) ==
  [k \in 0 .. m_nBufSize - 1 |->
     IF k >= tail /\ k - tail < n THEN first + (k - tail)
     ELSE IF PushSplit(head, tail, n) /\ k < n - (m_nBufSize - tail)
     THEN first + (m_nBufSize - tail) + k
     ELSE buf[k]]

\* A byte of the mapping; behind its end there is nothing of the ring.
ByteAt(k) == IF k < m_nBufSize THEN m_pShmBuf[k] ELSE NoByte
RingByteAt(k) == ByteAt(IF k < m_nBufSize THEN k ELSE k - m_nBufSize)

\* The values the length field at the head may have.  Bytes that are not the
\* length field of a frame are data and read as anything.
LenAt(head) ==
  LET IsLenOf(f) == \A i \in 0 .. LEN_INT - 1 : RingByteAt(head + i) = f.start + i
  IN  IF \E j \in DOMAIN frames : IsLenOf(frames[j])
      THEN {frames[j].size : j \in {k \in DOMAIN frames : IsLenOf(frames[k])}}
      ELSE GarbageLens

\* Mutant: the length field is read without asking whether it is there.
FullDataSizesUnasked(head, tail) == LenAt(head)

\* IS_POP_SIZE_ENOUGH: what nFullDataSize may become ...
FullDataSizes(head, tail) ==
  IF Avail(head, tail) < LEN_INT /\ (head <= tail \/ m_nBufSize - head < LEN_INT)
  THEN {0}
  ELSE LenAt(head)

\* Mutants: a frame is taken as soon as its length is there, or only when
\* more than the frame is.
PopSizeEnoughEarly(head, tail, n) ==
  IF head <= tail THEN head + LEN_INT <= tail ELSE n > 0
PopSizeEnoughStrict(head, tail, n) ==
  IF head <= tail
  THEN head + LEN_INT <= tail /\ tail - head > n
  ELSE n > 0 /\ m_nBufSize - head + tail > n

\* ... and whether the frame it announces is all there.
PopSizeEnough(head, tail, n) ==
  IF head <= tail
  THEN head + LEN_INT <= tail /\ tail - head >= n
  ELSE n > 0 /\ m_nBufSize - head + tail >= n

\* The bytes after the length field are the sync word of some frame.
SyncWord(head) ==
  \E j \in DOMAIN frames :
    \A i \in LEN_INT .. HEAD_LEN - 1 : head[i] = frames[j].start + i

\* They are, in part at least, data of a frame that holds "@@@@" in its data.
SyncInData(head) ==
  \E j \in DOMAIN frames :
    /\ frames[j].size \in SyncSizes
    /\ \E i \in LEN_INT .. HEAD_LEN - 1 :
         head[i] - frames[j].start \in HEAD_LEN .. frames[j].size - 1

\* Mutant: the sync word is not compared.
SyncWordReadsUncompared(head) == {TRUE}

\* What RUN_CHECK_SYNCWORD may find: it compares the bytes with "@@@@", whoever
\* put them there.
SyncWordReads(head) ==
  IF SyncWord(head) THEN {TRUE} ELSE IF SyncInData(head) THEN BOOLEAN ELSE {FALSE}

\* The body of a frame, as the bytes PopOut should hand out.
Body(f) == [i \in 0 .. f.size - HEAD_LEN - 1 |-> f.start + HEAD_LEN + i]

BodySize(args) == IF Len(args) = 1 THEN args[1] ELSE args[1] + args[2]

\* Every packet fits the consumer's buffer, and the length check of PopOut,
\* which compares the size of the whole frame, lets it pass.
ConfigFits ==
  \A c \in Calls :
    /\ BodySize(c) > 0
    /\ BodySize(c) <= nDataBufSize
    /\ BodySize(c) + HEAD_LEN <= CHECK_SIZE \/ BodySize(c) + HEAD_LEN <= nDataBufSize

-----------------------------------------------------------------------------
(* Init with bSetZero = true: the mapping is created empty and zeroed.     *)
Init ==
  /\ m_pShmBuf = [k \in 0 .. m_nBufSize - 1 |-> NoByte]
  /\ nHeadPos = 0 /\ nTailPos = 0
  /\ ppc = "idle" /\ pArgs = <<0>> /\ pPart = 0 /\ pTry = 0 /\ pHead = 0 /\ pTail = 0
  /\ cpc = "idle" /\ cPart = "head" /\ cTail = 0 /\ nFullDataSize = 0
  /\ cLeft = 0 /\ cBuf = <<>>
  /\ wr = 0 /\ frames = <<>> /\ delivered = <<>> /\ torn = FALSE /\ astray = "no"

-----------------------------------------------------------------------------
(* The producer.                                                           *)

\* PushIn is called: up to three attempts of PushInNoblock follow.
PushIn(args) ==
  /\ ppc = "idle"
  /\ Len(frames) < MaxFrames
  /\ ppc' = "load" /\ pArgs' = args /\ pTry' = 1
  /\ UNCHANGED <<shared, pPart, pHead, pTail, cvars, hist>>

\* PushInNoblock takes its snapshot of the consumer's position.
PushLoad ==
  /\ ppc = "load"
  /\ pHead' = nHeadPos
  /\ ppc' = "check"
  /\ UNCHANGED <<shared, pArgs, pPart, pTry, pTail, cvars, hist>>

\* Back to PushIn with the length PushInNoblock returned: 0 is tried again,
\* twice, and then given up.
PushReturn(nLen) ==
  /\ IF nLen = 0 /\ pTry < 3 /\ Len(frames) < MaxFrames
     THEN ppc' = "load" /\ pTry' = pTry + 1 /\ UNCHANGED pArgs
     ELSE ppc' = "idle" /\ pTry' = 0 /\ pArgs' = <<0>>
  /\ pPart' = 0 /\ pHead' = 0 /\ pTail' = 0

\* The space check, and the header built for the frame.
PushCheck ==
  LET nFull == BodySize(pArgs) + HEAD_LEN IN
  /\ ppc = "check"
  /\ IF PushSizeEnough(pHead, nTailPos, nFull)
     THEN /\ frames' = Append(frames, [start |-> wr, size |-> nFull])
          /\ ppc' = "copy" /\ pPart' = 0
          /\ UNCHANGED <<pArgs, pTry, pHead, pTail>>
     ELSE PushReturn(0) /\ UNCHANGED frames
  /\ UNCHANGED <<shared, cvars, wr, delivered, torn, astray>>

\* The length of the part being pushed: the header, then each argument.
PartLen == IF pPart = 0 THEN HEAD_LEN ELSE pArgs[pPart]

\* PUSH_DATA, first half: the bytes are copied behind the tail.
PushCopy ==
  /\ ppc = "copy"
  /\ m_pShmBuf' = Written(m_pShmBuf, pHead, nTailPos, PartLen, wr)
  /\ pTail' = nTailPos
  /\ ppc' = "advance"
  /\ UNCHANGED <<nHeadPos, nTailPos, pArgs, pPart, pTry, pHead, cvars, hist>>

\* PUSH_DATA, second half: the tail is published.  The unsplit case loads the
\* tail again to add to it, and that load may be older or newer than a reset.
PushAdvance ==
  /\ ppc = "advance"
  /\ IF PushSplit(pHead, pTail, PartLen)
     THEN nTailPos' = PartLen - (m_nBufSize - pTail)
     ELSE \E t \in {nTailPos, pTail} : nTailPos' = t + PartLen
  /\ wr' = wr + PartLen
  /\ IF pPart < Len(pArgs)
     THEN /\ ppc' = "copy" /\ pPart' = pPart + 1 /\ pTail' = 0
          /\ UNCHANGED <<pArgs, pTry, pHead, frames>>
     ELSE PushReturn(BodySize(pArgs)) /\ UNCHANGED frames
  /\ UNCHANGED <<m_pShmBuf, nHeadPos, cvars, delivered, torn, astray>>

-----------------------------------------------------------------------------
(* The consumer.                                                           *)

\* PopOut returns, with a packet or without.
PopReturn ==
  /\ cpc' = "idle" /\ cPart' = "head" /\ cTail' = 0
  /\ nFullDataSize' = 0 /\ cLeft' = 0 /\ cBuf' = <<>>

\* PopOut takes its snapshot of the producer's position.
PopOut ==
  /\ cpc = "idle"
  /\ cTail' = nTailPos
  /\ cpc' = "check"
  /\ UNCHANGED <<shared, pvars, cPart, nFullDataSize, cLeft, cBuf, hist>>

\* IS_POP_SIZE_ENOUGH and the length check behind it.
PopCheck ==
  /\ cpc = "check"
  /\ \E n \in FullDataSizes(nHeadPos, cTail) :
       IF PopSizeEnough(nHeadPos, cTail, n)
       THEN /\ nFullDataSize' = n /\ cpc' = "copy"
            /\ UNCHANGED <<cPart, cTail, cLeft, cBuf>>
       ELSE IF n > CHECK_SIZE /\ n > nDataBufSize
       THEN /\ cpc' = "zero"
            /\ UNCHANGED <<cPart, cTail, nFullDataSize, cLeft, cBuf>>
       ELSE PopReturn
  /\ UNCHANGED <<shared, pvars, hist>>

\* What POP_DATA is asked for: the header, or the rest of the frame.
PopLen == IF cPart = "head" THEN HEAD_LEN ELSE nFullDataSize - HEAD_LEN

\* POP_DATA, the copy.  A read that wraps copies up to the end first.
PopCopy ==
  LET split == nHeadPos > cTail /\ m_nBufSize - nHeadPos < PopLen
      n == IF split THEN m_nBufSize - nHeadPos ELSE PopLen
  IN
  /\ cpc = "copy"
  /\ cBuf' = [i \in 0 .. n - 1 |-> ByteAt(nHeadPos + i)]
  /\ cLeft' = IF split THEN PopLen - n ELSE 0
  /\ cpc' = IF split THEN "wrap" ELSE "advance"
  /\ UNCHANGED <<shared, pvars, cPart, cTail, nFullDataSize, hist>>

\* A read that wraps parks the head at the end of the ring ...
PopWrap ==
  /\ cpc = "wrap"
  /\ nHeadPos' = m_nBufSize
  /\ cpc' = "rest"
  /\ UNCHANGED <<m_pShmBuf, nTailPos, pvars, cPart, cTail, nFullDataSize, cLeft, cBuf, hist>>

\* ... and copies the rest from its start.
PopRest ==
  /\ cpc = "rest"
  /\ cBuf' = [i \in 0 .. PopLen - 1 |->
                IF i < PopLen - cLeft THEN cBuf[i] ELSE ByteAt(i - (PopLen - cLeft))]
  /\ cpc' = "advance"
  /\ UNCHANGED <<shared, pvars, cPart, cTail, nFullDataSize, cLeft, hist>>

\* POP_DATA stores the head.  After the header PopOut checks the sync word,
\* resets the ring if it is not there, and returns -1, the header gone, if the
\* caller's buffer is too small.  A negative size passes that test and kills
\* the process in memcpy; it starts again with a new PopOut.
PopAdvance ==
  LET here == IF SyncWord(cBuf) THEN astray ELSE "misled" IN
  /\ cpc = "advance"
  /\ nHeadPos' = IF cLeft = 0 THEN nHeadPos + PopLen ELSE cLeft
  /\ IF cPart = "data"
     THEN delivered' = Append(delivered, cBuf) /\ PopReturn /\ UNCHANGED astray
     ELSE \E bSync \in SyncWordReads(cBuf) :
          /\ UNCHANGED delivered
          /\ IF ~bSync
             THEN /\ cpc' = "zero"
                  /\ UNCHANGED <<cPart, cTail, nFullDataSize, cLeft, cBuf, astray>>
             ELSE IF nFullDataSize - HEAD_LEN \in 0 .. nDataBufSize
             THEN /\ cpc' = "copy" /\ cPart' = "data" /\ cLeft' = 0 /\ cBuf' = <<>>
                  /\ astray' = here
                  /\ UNCHANGED <<cTail, nFullDataSize>>
             ELSE PopReturn /\ astray' = IF here = "no" THEN "inside" ELSE here
  /\ UNCHANGED <<m_pShmBuf, nTailPos, pvars, wr, frames, torn>>

\* PUSH_DATA has begun: something of the frame is copied or published.
InPushData == ppc = "advance" \/ (ppc = "copy" /\ pPart > 0)

\* SetZero and RUN_CHECK_SYNCWORD empty the ring with two stores, the head
\* first, whatever the producer is doing.
PopZeroHead ==
  /\ cpc = "zero"
  /\ nHeadPos' = 0
  /\ cpc' = "zeroTail"
  /\ UNCHANGED <<m_pShmBuf, nTailPos, pvars, cPart, cTail, nFullDataSize, cLeft, cBuf, hist>>

PopZeroTail ==
  /\ cpc = "zeroTail"
  /\ nTailPos' = 0
  /\ torn' = InPushData
  /\ astray' = "no"
  /\ PopReturn
  /\ UNCHANGED <<m_pShmBuf, nHeadPos, pvars, wr, frames, delivered>>

-----------------------------------------------------------------------------
(* A process dies inside a call and attaches again (Init with bSetZero =   *)
(* false); the mapping keeps its content.                                  *)

ProducerCrash ==
  /\ ppc # "idle"
  /\ ppc' = "idle" /\ pArgs' = <<0>> /\ pPart' = 0 /\ pTry' = 0 /\ pHead' = 0 /\ pTail' = 0
  /\ torn' = (torn \/ (ppc \in {"copy", "advance"} /\ pPart > 0))
  /\ wr' = IF ppc \in {"copy", "advance"}
           THEN frames[Len(frames)].start + frames[Len(frames)].size ELSE wr
  /\ UNCHANGED <<shared, cvars, frames, delivered, astray>>

\* The consumer loses its place when the header is taken and the body is not,
\* or when the head is parked in the middle of a header.
ConsumerCrash ==
  LET inside == cPart = "data" \/ (cpc \in {"rest", "advance"} /\ cLeft \in 1 .. PopLen - 1)
  IN
  /\ cpc # "idle"
  /\ PopReturn
  /\ torn' = (torn \/ cpc \in {"zero", "zeroTail"})
  /\ astray' = IF inside /\ astray = "no" THEN "inside" ELSE astray
  /\ UNCHANGED <<shared, pvars, wr, frames, delivered>>

-----------------------------------------------------------------------------
Producer == (\E args \in Calls : PushIn(args)) \/ PushLoad \/ PushCheck \/ PushCopy \/ PushAdvance
Consumer ==
  \/ PopOut \/ PopCheck \/ PopCopy \/ PopWrap \/ PopRest \/ PopAdvance
  \/ PopZeroHead \/ PopZeroTail

Next == Producer \/ Consumer
Spec == Init /\ [][Next]_vars

\* Both sides keep running: PopOut is polled in a loop, and a PushIn that
\* was called runs on.
FairSpec ==
  Spec /\ WF_vars(Consumer) /\ WF_vars(PushLoad \/ PushCheck \/ PushCopy \/ PushAdvance)

CrashNext == Next \/ ProducerCrash \/ ConsumerCrash
CrashSpec == Init /\ [][CrashNext]_vars

-----------------------------------------------------------------------------
(* Properties.                                                             *)

\* The variables have their types, and the positions stay inside the ring.
TypeOK ==
  /\ m_pShmBuf \in [0 .. m_nBufSize - 1 -> Nat \cup {NoByte}]
  /\ nHeadPos \in Pos /\ nTailPos \in Pos
  /\ ppc \in {"idle", "load", "check", "copy", "advance"}
  /\ pArgs \in Calls \cup {<<0>>} /\ pPart \in 0 .. Len(pArgs) /\ pTry \in 0 .. 3
  /\ pHead \in Pos /\ pTail \in Pos
  /\ cpc \in {"idle", "check", "copy", "wrap", "rest", "advance", "zero", "zeroTail"}
  /\ cPart \in {"head", "data"} /\ cTail \in Pos
  /\ nFullDataSize \in Int /\ cLeft \in Nat
  /\ wr \in Nat /\ frames \in Seq([start : Nat, size : Nat])
  /\ torn \in BOOLEAN /\ astray \in {"no", "inside", "misled"}

\* The bytes between the head and the tail are, at every moment, the last
\* bytes pushed, in order: PUSH_DATA never overwrites a byte POP_DATA has not
\* released, although both work on stale snapshots of the other's position.
UnreadIntact ==
  LET n == Avail(nHeadPos, nTailPos) IN
  \A i \in 0 .. n - 1 : RingByteAt(nHeadPos + i) = wr - n + i

\* PopOut never empties the ring: with a buffer that takes every packet, the
\* length check and RUN_CHECK_SYNCWORD never fire.
NeverEmptied == cpc \notin {"zero", "zeroTail"}

\* The packets of the ring: published to the last byte and not handed out.
Published == Cardinality({j \in DOMAIN frames : frames[j].start + frames[j].size <= wr})
Queued == [i \in 1 .. Published - Len(delivered) |-> Body(frames[Len(delivered) + i])]

Abstract == INSTANCE PacketQueue WITH queue <- Queued

\* PushIn and PopOut, with all their steps, implement a queue of packets: each
\* packet is handed out once, whole, and in the order it was pushed.
ImplementsPacketQueue == Abstract!Spec

\* A packet that PushIn has accepted is handed out, if both sides run on.
EveryPacketHandedOut ==
  \A k \in 1 .. MaxFrames : Published >= k ~> Len(delivered) >= k

\* The packet a step hands out is the whole body of a packet that was pushed,
\* and newer than every byte handed out before.
HandsOutWhole ==
  \E j \in DOMAIN frames :
    /\ delivered' = Append(delivered, Body(frames[j]))
    /\ \A i \in DOMAIN delivered : \A k \in DOMAIN delivered[i] :
         delivered[i][k] < frames[j].start

\* After crashes of either side, returns of -1 and resets of the ring, what
\* PopOut hands out is still the whole body of a packet that was pushed, none
\* twice and none after a later one, unless the ring is torn or PopOut was
\* misled.  Torn: a reset or a crash fell into the middle of a push, or a crash
\* into a reset.  Misled: data was taken for a header, which happens only if it
\* holds the sync word, and after a return of -1 or a crash left the head inside
\* a frame.  Either lasts no longer than to the next reset that finds no push
\* under way: what is pushed after it is handed out whole again.
IntactUnlessTorn ==
  [][~torn =>
       /\ delivered' # delivered /\ astray # "misled" => HandsOutWhole
       /\ astray' = "misled" /\ astray # "misled" => astray = "inside" /\ SyncInData(cBuf)]_vars
=============================================================================
