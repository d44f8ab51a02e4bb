------------------------------ MODULE CsiHandle ------------------------------
(***************************************************************************)
(* The handle of the CSI camera driver (fsl_csi.c): the list of empty      *)
(* frame buffers, kept as a stack in frameBufferAddr, and the circular     *)
(* queue of full frame buffers, kept in frameBufferQueue.  Pure operators  *)
(* on a handle record; the modules that own a handle make them actions.    *)
(* A frame buffer address is a member of Buffer; NoBuffer is the 0 that    *)
(* memset leaves in both arrays.                                           *)
(***************************************************************************)
EXTENDS Integers

CONSTANTS Buffer,                \* the frame buffers the application owns
          NoBuffer,              \* no address
          CSI_DRIVER_QUEUE_SIZE  \* full buffers the queue has room for

ASSUME QueueAssumption == CSI_DRIVER_QUEUE_SIZE \in Nat \ {0}
ASSUME BufferAssumption == NoBuffer \notin Buffer

CSI_MAX_ACTIVE_FRAME_NUM == 2

\* One slot of both arrays stays unused by the queue, to tell full from empty.
CSI_DRIVER_ACTUAL_QUEUE_SIZE == CSI_DRIVER_QUEUE_SIZE + 1

Slot == 0 .. CSI_DRIVER_ACTUAL_QUEUE_SIZE - 1

Address == Buffer \cup {NoBuffer}

Handle ==
  [frameBufferQueue : [Slot -> Address],
   frameBufferAddr  : [Slot -> Address],
   queueWriteIdx    : Slot,
   queueReadIdx     : Slot,
   emptyBufferCnt   : 0 .. CSI_DRIVER_ACTUAL_QUEUE_SIZE,
   activeBufferNum  : 0 .. CSI_MAX_ACTIVE_FRAME_NUM,
   transferStarted  : BOOLEAN]

\* CSI_TransferCreateHandle: every field is cleared.
CreateHandle ==
  [frameBufferQueue |-> [s \in Slot |-> NoBuffer],
   frameBufferAddr  |-> [s \in Slot |-> NoBuffer],
   queueWriteIdx    |-> 0,
   queueReadIdx     |-> 0,
   emptyBufferCnt   |-> 0,
   activeBufferNum  |-> 0,
   transferStarted  |-> FALSE]

\* Mutant: the index wraps one slot too late.
IncreaseQueueIdxLate(idx) ==
  IF idx + 1 > CSI_DRIVER_ACTUAL_QUEUE_SIZE THEN 0 ELSE idx + 1

IncreaseQueueIdx(idx) ==
  IF idx + 1 >= CSI_DRIVER_ACTUAL_QUEUE_SIZE THEN 0 ELSE idx + 1

\* Full buffers between two queue indices.
GetQueueDelta(startIdx, endIdx) ==
  IF endIdx >= startIdx
    THEN endIdx - startIdx
    ELSE endIdx + CSI_DRIVER_ACTUAL_QUEUE_SIZE - startIdx

\* The two halves of CSI_TransferPutEmptyBuffer: the store, then the count.
\* A store past the array is not represented; the count still goes up.
StoreEmptyBuffer(h, buffer) ==
  [h EXCEPT !.frameBufferAddr[h.emptyBufferCnt] = buffer]

CountEmptyBuffer(h) == [h EXCEPT !.emptyBufferCnt = @ + 1]

PutEmptyBuffer(h, buffer) == CountEmptyBuffer(StoreEmptyBuffer(h, buffer))

\* CSI_TransferGetEmptyBuffer: the most recently submitted buffer comes out.
TopEmptyBuffer(h) == h.frameBufferAddr[h.emptyBufferCnt - 1]
DropEmptyBuffer(h) == [h EXCEPT !.emptyBufferCnt = @ - 1]

HasFullBuffer(h) == h.queueReadIdx # h.queueWriteIdx
FullBuffer(h) == h.frameBufferQueue[h.queueReadIdx]
DropFullBuffer(h) == [h EXCEPT !.queueReadIdx = IncreaseQueueIdx(@)]

\* The full-buffer half of CSI_TransferHandleIRQ.
HasQueueRoom(h) ==
  GetQueueDelta(h.queueReadIdx, h.queueWriteIdx) < CSI_DRIVER_QUEUE_SIZE

PutFullBuffer(h, buffer) ==
  [h EXCEPT !.frameBufferQueue[h.queueWriteIdx] = buffer,
            !.queueWriteIdx = IncreaseQueueIdx(@),
            !.activeBufferNum = @ - 1]

\* Mutant: the number of active buffers is not looked at.
HasRoomOnly(h) == HasQueueRoom(h)

CanQueueFrame(h) ==
  h.activeBufferNum = CSI_MAX_ACTIVE_FRAME_NUM /\ HasQueueRoom(h)

\* The second half of CSI_TransferHandleIRQ: with one active buffer left, the
\* register of the frame just done gets an empty buffer, or, when there is
\* none, the address in the other register.
CanRearm(h) ==
  h.activeBufferNum < CSI_MAX_ACTIVE_FRAME_NUM /\ h.emptyBufferCnt > 0

RearmHandle(h) ==
  IF CanRearm(h)
    THEN [DropEmptyBuffer(h) EXCEPT !.activeBufferNum = @ + 1]
    ELSE h

\* Mutant: with no empty buffer the register keeps the address it had.
RearmRegistersOnlyWhenEmpty(h, fb, idx) ==
  IF CanRearm(h) THEN [fb EXCEPT ![idx] = TopEmptyBuffer(h)] ELSE fb

RearmRegisters(h, fb, idx) ==
  [fb EXCEPT ![idx] =
     IF CanRearm(h) THEN TopEmptyBuffer(h)
     ELSE IF h.activeBufferNum < CSI_MAX_ACTIVE_FRAME_NUM THEN fb[1 - idx]
     ELSE @]

\* The buffers a handle holds, as sets of slots.
EmptySlots(h) == {s \in Slot : s < h.emptyBufferCnt}

FullSlots(h) ==
  {s \in Slot : GetQueueDelta(h.queueReadIdx, s)
                  < GetQueueDelta(h.queueReadIdx, h.queueWriteIdx)}

\* The handle after CSI_TransferStart with the given buffers registered, and
\* the addresses it loads into FB1 (index 0) and FB2 (index 1).
StartHandle(h) ==
  [DropEmptyBuffer(DropEmptyBuffer(h)) EXCEPT
     !.activeBufferNum = CSI_MAX_ACTIVE_FRAME_NUM,
     !.transferStarted = TRUE]

StartRegisters(h) ==
  [i \in 0 .. 1 |-> IF i = 0 THEN TopEmptyBuffer(h)
                             ELSE TopEmptyBuffer(DropEmptyBuffer(h))]
=============================================================================
