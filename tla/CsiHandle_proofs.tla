-------------------------- MODULE CsiHandle_proofs --------------------------
(***************************************************************************)
(* What each operation of fsl_csi.c on its handle does to the handle's     *)
(* fields, for every queue size.  The proofs about the modules that own a  *)
(* handle cite these lemmas and never expand the operators.                *)
(***************************************************************************)
EXTENDS CsiHandle, TLAPS

\* The slots of both arrays, and that there are at least two of them.
LEMMA SlotFacts ==
  /\ CSI_DRIVER_ACTUAL_QUEUE_SIZE \in Nat
  /\ CSI_DRIVER_ACTUAL_QUEUE_SIZE >= 2
  /\ CSI_DRIVER_QUEUE_SIZE > 0 /\ CSI_DRIVER_QUEUE_SIZE \in Nat
  /\ Slot \subseteq Nat /\ 0 \in Slot /\ 1 \in Slot
  /\ \A s \in Slot : s + 1 \in 0 .. CSI_DRIVER_ACTUAL_QUEUE_SIZE
  BY QueueAssumption DEF Slot, CSI_DRIVER_ACTUAL_QUEUE_SIZE

\* The next queue slot is a slot and another one: CSI_TransferIncreaseQueueIdx
\* walks a ring of at least two slots.
LEMMA NextSlot ==
  ASSUME NEW idx \in Slot
  PROVE  IncreaseQueueIdx(idx) \in Slot /\ IncreaseQueueIdx(idx) # idx
  BY QueueAssumption
     DEF Slot, CSI_DRIVER_ACTUAL_QUEUE_SIZE, IncreaseQueueIdx

\* CSI_TransferPutEmptyBuffer, while there is room in the array.
LEMMA PutEmptyBufferFields ==
  ASSUME NEW h \in Handle, NEW b \in Address, h.emptyBufferCnt \in Slot
  PROVE  LET p == PutEmptyBuffer(h, b)
         IN  /\ p \in Handle
             /\ p.frameBufferAddr =
                  [h.frameBufferAddr EXCEPT ![h.emptyBufferCnt] = b]
             /\ p.frameBufferAddr[h.emptyBufferCnt] = b
             /\ p.frameBufferQueue = h.frameBufferQueue
             /\ p.emptyBufferCnt = h.emptyBufferCnt + 1
             /\ p.queueReadIdx = h.queueReadIdx
             /\ p.queueWriteIdx = h.queueWriteIdx
             /\ p.activeBufferNum = h.activeBufferNum
             /\ p.transferStarted = h.transferStarted
<1>1. /\ h.frameBufferAddr \in [Slot -> Address]
      /\ h.emptyBufferCnt + 1 \in 0 .. CSI_DRIVER_ACTUAL_QUEUE_SIZE
  BY SlotFacts DEF Handle
<1>2. [h.frameBufferAddr EXCEPT ![h.emptyBufferCnt] = b] \in [Slot -> Address]
  BY <1>1
<1>3. PutEmptyBuffer(h, b) =
        [h EXCEPT !.frameBufferAddr =
                     [h.frameBufferAddr EXCEPT ![h.emptyBufferCnt] = b],
                  !.emptyBufferCnt = h.emptyBufferCnt + 1]
  BY DEF PutEmptyBuffer, StoreEmptyBuffer, CountEmptyBuffer, Handle
<1> QED
  BY <1>1, <1>2, <1>3 DEF Handle

\* CSI_TransferGetEmptyBuffer, when there is an empty buffer.
LEMMA DropEmptyBufferFields ==
  ASSUME NEW h \in Handle, h.emptyBufferCnt > 0
  PROVE  LET d == DropEmptyBuffer(h)
         IN  /\ d \in Handle
             /\ d.frameBufferAddr = h.frameBufferAddr
             /\ d.frameBufferQueue = h.frameBufferQueue
             /\ d.emptyBufferCnt = h.emptyBufferCnt - 1
             /\ d.queueReadIdx = h.queueReadIdx
             /\ d.queueWriteIdx = h.queueWriteIdx
             /\ d.activeBufferNum = h.activeBufferNum
             /\ d.transferStarted = h.transferStarted
<1>1. h.emptyBufferCnt - 1 \in 0 .. CSI_DRIVER_ACTUAL_QUEUE_SIZE
  BY SlotFacts DEF Handle
<1> QED
  BY <1>1 DEF DropEmptyBuffer, Handle

\* The full-buffer half of CSI_TransferHandleIRQ.
LEMMA PutFullBufferFields ==
  ASSUME NEW h \in Handle, NEW b \in Address, h.activeBufferNum > 0
  PROVE  LET p == PutFullBuffer(h, b)
         IN  /\ p \in Handle
             /\ p.frameBufferQueue =
                  [h.frameBufferQueue EXCEPT ![h.queueWriteIdx] = b]
             /\ p.frameBufferQueue[h.queueWriteIdx] = b
             /\ p.frameBufferAddr = h.frameBufferAddr
             /\ p.emptyBufferCnt = h.emptyBufferCnt
             /\ p.queueReadIdx = h.queueReadIdx
             /\ p.queueWriteIdx = IncreaseQueueIdx(h.queueWriteIdx)
             /\ p.activeBufferNum = h.activeBufferNum - 1
             /\ p.transferStarted = h.transferStarted
<1>1. /\ h.queueWriteIdx \in Slot
      /\ h.frameBufferQueue \in [Slot -> Address]
      /\ h.activeBufferNum - 1 \in 0 .. CSI_MAX_ACTIVE_FRAME_NUM
  BY DEF Handle, CSI_MAX_ACTIVE_FRAME_NUM
<1>2. IncreaseQueueIdx(h.queueWriteIdx) \in Slot
  BY <1>1, NextSlot
<1>3. [h.frameBufferQueue EXCEPT ![h.queueWriteIdx] = b] \in [Slot -> Address]
  BY <1>1
<1>4. PutFullBuffer(h, b) =
        [h EXCEPT !.frameBufferQueue =
                     [h.frameBufferQueue EXCEPT ![h.queueWriteIdx] = b],
                  !.queueWriteIdx = IncreaseQueueIdx(h.queueWriteIdx),
                  !.activeBufferNum = h.activeBufferNum - 1]
  BY DEF PutFullBuffer, Handle
<1> DEFINE q == [h.frameBufferQueue EXCEPT ![h.queueWriteIdx] = b]
           i == IncreaseQueueIdx(h.queueWriteIdx)
<1>5. q[h.queueWriteIdx] = b
  BY <1>1
<1>6. PutFullBuffer(h, b) =
        [h EXCEPT !.frameBufferQueue = q, !.queueWriteIdx = i,
                  !.activeBufferNum = h.activeBufferNum - 1]
  BY <1>4
<1>7. q \in [Slot -> Address] /\ i \in Slot
  BY <1>2, <1>3
<1> QED
  <2> HIDE DEF q, i
  <2>1. /\ PutFullBuffer(h, b) \in Handle
        /\ PutFullBuffer(h, b).frameBufferQueue = q
        /\ PutFullBuffer(h, b).frameBufferAddr = h.frameBufferAddr
        /\ PutFullBuffer(h, b).emptyBufferCnt = h.emptyBufferCnt
        /\ PutFullBuffer(h, b).queueReadIdx = h.queueReadIdx
        /\ PutFullBuffer(h, b).queueWriteIdx = i
        /\ PutFullBuffer(h, b).activeBufferNum = h.activeBufferNum - 1
        /\ PutFullBuffer(h, b).transferStarted = h.transferStarted
    BY <1>1, <1>6, <1>7 DEF Handle
  <2> QED BY <1>5, <2>1 DEF q, i

\* CSI_TransferGetFullBuffer's step of the read index.
LEMMA DropFullBufferFields ==
  ASSUME NEW h \in Handle
  PROVE  LET d == DropFullBuffer(h)
         IN  /\ d \in Handle
             /\ d.frameBufferAddr = h.frameBufferAddr
             /\ d.frameBufferQueue = h.frameBufferQueue
             /\ d.emptyBufferCnt = h.emptyBufferCnt
             /\ d.queueReadIdx = IncreaseQueueIdx(h.queueReadIdx)
             /\ d.queueWriteIdx = h.queueWriteIdx
             /\ d.activeBufferNum = h.activeBufferNum
             /\ d.transferStarted = h.transferStarted
<1>1. IncreaseQueueIdx(h.queueReadIdx) \in Slot
  BY NextSlot DEF Handle
<1> QED
  BY <1>1 DEF DropFullBuffer, Handle

\* The rearming half of CSI_TransferHandleIRQ, when it has an empty buffer.
LEMMA RearmHandleFields ==
  ASSUME NEW h \in Handle, CanRearm(h)
  PROVE  LET r == RearmHandle(h)
         IN  /\ r \in Handle
             /\ r.frameBufferAddr = h.frameBufferAddr
             /\ r.frameBufferQueue = h.frameBufferQueue
             /\ r.emptyBufferCnt = h.emptyBufferCnt - 1
             /\ r.queueReadIdx = h.queueReadIdx
             /\ r.queueWriteIdx = h.queueWriteIdx
             /\ r.activeBufferNum = h.activeBufferNum + 1
             /\ r.transferStarted = h.transferStarted
<1> DEFINE d == DropEmptyBuffer(h)
<1>1. /\ d \in Handle
      /\ d.frameBufferAddr = h.frameBufferAddr
      /\ d.frameBufferQueue = h.frameBufferQueue
      /\ d.emptyBufferCnt = h.emptyBufferCnt - 1
      /\ d.queueReadIdx = h.queueReadIdx
      /\ d.queueWriteIdx = h.queueWriteIdx
      /\ d.activeBufferNum = h.activeBufferNum
      /\ d.transferStarted = h.transferStarted
  BY DropEmptyBufferFields DEF CanRearm
<1>2. d.activeBufferNum + 1 \in 0 .. CSI_MAX_ACTIVE_FRAME_NUM
  BY <1>1 DEF CanRearm, Handle, CSI_MAX_ACTIVE_FRAME_NUM
<1>3. RearmHandle(h) = [d EXCEPT !.activeBufferNum = d.activeBufferNum + 1]
  BY DEF RearmHandle
<1> HIDE DEF d
<1> QED
  BY <1>1, <1>2, <1>3 DEF Handle

\* CSI_TransferStart, with at least two empty buffers.
LEMMA StartHandleFields ==
  ASSUME NEW h \in Handle, h.emptyBufferCnt >= 2
  PROVE  LET s == StartHandle(h)
         IN  /\ s \in Handle
             /\ s.frameBufferAddr = h.frameBufferAddr
             /\ s.frameBufferQueue = h.frameBufferQueue
             /\ s.emptyBufferCnt = h.emptyBufferCnt - 2
             /\ s.queueReadIdx = h.queueReadIdx
             /\ s.queueWriteIdx = h.queueWriteIdx
             /\ s.activeBufferNum = CSI_MAX_ACTIVE_FRAME_NUM
             /\ s.transferStarted
<1> DEFINE one == DropEmptyBuffer(h)
           d == DropEmptyBuffer(one)
<1>1. h.emptyBufferCnt \in Nat
  BY SlotFacts DEF Handle
<1>2. /\ one \in Handle
      /\ one.emptyBufferCnt > 0
      /\ one.frameBufferAddr = h.frameBufferAddr
      /\ one.frameBufferQueue = h.frameBufferQueue
      /\ one.emptyBufferCnt = h.emptyBufferCnt - 1
      /\ one.queueReadIdx = h.queueReadIdx
      /\ one.queueWriteIdx = h.queueWriteIdx
  BY <1>1, DropEmptyBufferFields
<1>3. StartHandle(h) = [d EXCEPT !.activeBufferNum = CSI_MAX_ACTIVE_FRAME_NUM,
                                 !.transferStarted = TRUE]
  BY DEF StartHandle
<1> HIDE DEF one
<1>4. /\ d \in Handle
      /\ d.frameBufferAddr = h.frameBufferAddr
      /\ d.frameBufferQueue = h.frameBufferQueue
      /\ d.emptyBufferCnt = h.emptyBufferCnt - 2
      /\ d.queueReadIdx = h.queueReadIdx
      /\ d.queueWriteIdx = h.queueWriteIdx
  <2>1. d.emptyBufferCnt = one.emptyBufferCnt - 1
    BY <1>2, DropEmptyBufferFields
  <2>2. /\ d \in Handle
        /\ d.frameBufferAddr = one.frameBufferAddr
        /\ d.frameBufferQueue = one.frameBufferQueue
        /\ d.queueReadIdx = one.queueReadIdx
        /\ d.queueWriteIdx = one.queueWriteIdx
    BY <1>2, DropEmptyBufferFields
  <2> HIDE DEF d
  <2> QED BY <1>1, <1>2, <2>1, <2>2
<1> HIDE DEF d
<1>5. StartHandle(h) \in Handle
  <2> DEFINE e == [d EXCEPT !.activeBufferNum = CSI_MAX_ACTIVE_FRAME_NUM]
  <2>1. e \in Handle
    BY <1>4 DEF Handle, CSI_MAX_ACTIVE_FRAME_NUM
  <2>2. StartHandle(h) = [e EXCEPT !.transferStarted = TRUE]
    BY <1>3
  <2> HIDE DEF e
  <2> QED BY <2>1, <2>2 DEF Handle
<1>6. /\ StartHandle(h).frameBufferAddr = d.frameBufferAddr
      /\ StartHandle(h).frameBufferQueue = d.frameBufferQueue
      /\ StartHandle(h).emptyBufferCnt = d.emptyBufferCnt
      /\ StartHandle(h).queueReadIdx = d.queueReadIdx
      /\ StartHandle(h).queueWriteIdx = d.queueWriteIdx
  BY <1>3, <1>4 DEF Handle
<1>7. /\ StartHandle(h).activeBufferNum = CSI_MAX_ACTIVE_FRAME_NUM
      /\ StartHandle(h).transferStarted
  BY <1>3, <1>4 DEF Handle
<1> QED
  BY <1>4, <1>5, <1>6, <1>7
=============================================================================
