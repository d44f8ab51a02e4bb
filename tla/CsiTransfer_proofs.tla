------------------------- MODULE CsiTransfer_proofs -------------------------
(***************************************************************************)
(* Theorems about CsiTransfer, for any queue size, number of lines and     *)
(* frames and both timings of the interrupt, under one assumption: the     *)
(* application has no more buffers than the driver's arrays have slots.    *)
(* The inductive invariant says where the application is in a call, in     *)
(* which place each buffer is, and what the frames hold.                   *)
(***************************************************************************)
EXTENDS CsiTransfer, CsiHandle_proofs, FiniteSetTheorems

BuffersFit ==
  IsFiniteSet(Buffer) /\ Cardinality(Buffer) <= CSI_DRIVER_ACTUAL_QUEUE_SIZE

EmptyOf(h) == {h.frameBufferAddr[s] : s \in EmptySlots(h)}
FullOf(h) == {h.frameBufferQueue[s] : s \in FullSlots(h)}

\* No buffer is twice in the empty list, or twice in the full queue.
EmptyOnce(h) ==
  \A s \in EmptySlots(h) :
    /\ h.frameBufferAddr[s] \in Buffer
    /\ \A t \in EmptySlots(h) :
         h.frameBufferAddr[t] = h.frameBufferAddr[s] => t = s

FullOnce(h) ==
  \A s \in FullSlots(h) :
    /\ h.frameBufferQueue[s] \in Buffer
    /\ \A t \in FullSlots(h) :
         h.frameBufferQueue[t] = h.frameBufferQueue[s] => t = s

\* The interrupt is on while a transfer runs, except in critical sections; the
\* submitted buffer is still counted as the application's until it is counted
\* in the list; a full buffer that was found is still there.
PhaseInv ==
  /\ pc \in {"idle", "get"} => irqOn = handle.transferStarted
  /\ pc \in {"store", "count", "take"} =>
       ~irqOn /\ csicr1 = handle.transferStarted
  /\ pc \in {"store", "count"} => buffer \in owned
  /\ pc = "count" => /\ handle.emptyBufferCnt \in Slot
                     /\ handle.frameBufferAddr[handle.emptyBufferCnt] = buffer
  /\ pc \in {"get", "take"} => HasFullBuffer(handle)

\* While a transfer runs both registers name a frame buffer, the same one when
\* a single buffer is active.
ActiveInv ==
  IF handle.transferStarted
    THEN /\ fb[0] \in Buffer /\ fb[1] \in Buffer
         /\ handle.activeBufferNum = IF fb[0] = fb[1] THEN 1 ELSE 2
    ELSE handle.activeBufferNum = 0

\* Four places that share no buffer.
Disjoint(E, A, F, O) ==
  /\ E \cup A \cup F \cup O = Buffer
  /\ E \cap A = {} /\ E \cap F = {} /\ E \cap O = {}
  /\ A \cap F = {} /\ A \cap O = {} /\ F \cap O = {}

PlacesInv ==
  /\ EmptyOnce(handle) /\ FullOnce(handle) /\ ActiveInv
  /\ Disjoint(EmptyOf(handle), ActiveBuffers, FullOf(handle), owned)

\* A single done flag belongs to the register the DMA does not use, the frame
\* under way goes into the buffer its register still names, and the one that
\* waits for the interrupt is whole unless both registers name one buffer.
FrameInv ==
  /\ \A i \in Register : sr = {i} => dmaIdx = 1 - i
  /\ ~handle.transferStarted => sr = {} /\ line = 0
  /\ completed <= frame
  /\ line > 0 => /\ dmaBuf = fb[dmaIdx]
                 /\ completed < frame
                 /\ \A l \in Line : l <= line => mem[dmaBuf][l] = frame
  /\ \A i \in Register :
       sr = {i} /\ fb[0] # fb[1] => \A l \in Line : mem[fb[i]][l] = completed

\* Full buffers are whole, in order, newer than what was taken and older than
\* what waits for the interrupt.
QueueInv ==
  LET Holds(s) == mem[handle.frameBufferQueue[s]][1]
      Place(s) == GetQueueDelta(handle.queueReadIdx, s)
  IN  /\ lastGot <= completed
      /\ sr # {} => lastGot < completed
      /\ \A s \in FullSlots(handle) :
           /\ \A l \in Line : mem[handle.frameBufferQueue[s]][l] = Holds(s)
           /\ lastGot < Holds(s) /\ Holds(s) <= completed
           /\ sr # {} => Holds(s) < completed
           /\ \A t \in FullSlots(handle) :
                Place(s) < Place(t) => Holds(s) < Holds(t)

IInv == TypeOK /\ PhaseInv /\ PlacesInv /\ FrameInv /\ QueueInv

-----------------------------------------------------------------------------
(* The list of empty buffers and the queue of full ones, as sets. *)

\* The slot after the newest full buffer is free while the queue has room; when
\* it is filled, it is the last.
LEMMA QueueGrows ==
  ASSUME NEW r \in Slot, NEW w \in Slot,
         GetQueueDelta(r, w) < CSI_DRIVER_QUEUE_SIZE
  PROVE  /\ r # IncreaseQueueIdx(w)
         /\ \A s \in Slot : GetQueueDelta(r, s) < GetQueueDelta(r, IncreaseQueueIdx(w))
                            <=> GetQueueDelta(r, s) < GetQueueDelta(r, w) \/ s = w
         /\ \A s \in Slot : GetQueueDelta(r, s) < GetQueueDelta(r, w) => s # w
  BY QueueAssumption
     DEF Slot, CSI_DRIVER_ACTUAL_QUEUE_SIZE, GetQueueDelta, IncreaseQueueIdx

\* Taking the oldest full buffer leaves the others, in their order.
LEMMA QueueShrinks ==
  ASSUME NEW r \in Slot, NEW w \in Slot, r # w
  PROVE  LET n == IncreaseQueueIdx(r)
         IN  /\ GetQueueDelta(r, r) < GetQueueDelta(r, w)
             /\ \A s \in Slot : GetQueueDelta(n, s) < GetQueueDelta(n, w)
                                <=> GetQueueDelta(r, s) < GetQueueDelta(r, w) /\ s # r
             /\ \A s \in Slot : s # r => GetQueueDelta(r, r) < GetQueueDelta(r, s)
             /\ \A s, t \in Slot :
                  s # r /\ t # r =>
                    (GetQueueDelta(n, s) < GetQueueDelta(n, t)
                       <=> GetQueueDelta(r, s) < GetQueueDelta(r, t))
  BY QueueAssumption
     DEF Slot, CSI_DRIVER_ACTUAL_QUEUE_SIZE, GetQueueDelta, IncreaseQueueIdx

\* A buffer stored in the first free slot and counted joins the empty ones.
LEMMA EmptyGrows ==
  ASSUME NEW h \in Handle, NEW p \in Handle, NEW b \in Buffer,
         EmptyOnce(h), b \notin EmptyOf(h), h.emptyBufferCnt \in Slot,
         p.emptyBufferCnt = h.emptyBufferCnt + 1,
         p.frameBufferAddr[h.emptyBufferCnt] = b,
         \A s \in EmptySlots(h) : p.frameBufferAddr[s] = h.frameBufferAddr[s]
  PROVE  EmptyOnce(p) /\ EmptyOf(p) = EmptyOf(h) \cup {b}
<1>1. EmptySlots(p) = EmptySlots(h) \cup {h.emptyBufferCnt}
  BY SlotFacts DEF EmptySlots, Handle, Slot
<1>2. \A s \in EmptySlots(h) : h.frameBufferAddr[s] # b
  BY DEF EmptyOf
<1> QED
  BY <1>1, <1>2 DEF EmptyOnce, EmptyOf

\* The last of the empty buffers leaves.
LEMMA EmptyShrinks ==
  ASSUME NEW h \in Handle, NEW p \in Handle,
         EmptyOnce(h), h.emptyBufferCnt > 0,
         p.emptyBufferCnt = h.emptyBufferCnt - 1,
         p.frameBufferAddr = h.frameBufferAddr
  PROVE  /\ TopEmptyBuffer(h) \in EmptyOf(h) /\ TopEmptyBuffer(h) \in Buffer
         /\ EmptyOnce(p) /\ EmptyOf(p) = EmptyOf(h) \ {TopEmptyBuffer(h)}
<1> DEFINE last == h.emptyBufferCnt - 1
<1>1. /\ last \in EmptySlots(h)
      /\ EmptySlots(p) = EmptySlots(h) \ {last}
  BY SlotFacts DEF EmptySlots, Handle, Slot
<1>2. TopEmptyBuffer(h) = h.frameBufferAddr[last]
  BY DEF TopEmptyBuffer
<1> HIDE DEF last
<1> QED
  BY <1>1, <1>2 DEF EmptyOnce, EmptyOf

\* A buffer joins the full queue.
LEMMA FullGrows ==
  ASSUME NEW h \in Handle, NEW p \in Handle, NEW b \in Buffer,
         FullOnce(h), b \notin FullOf(h), HasQueueRoom(h),
         p.queueReadIdx = h.queueReadIdx,
         p.queueWriteIdx = IncreaseQueueIdx(h.queueWriteIdx),
         p.frameBufferQueue = [h.frameBufferQueue EXCEPT ![h.queueWriteIdx] = b]
  PROVE  /\ FullOnce(p) /\ FullOf(p) = FullOf(h) \cup {b}
         /\ HasFullBuffer(p)
         /\ h.queueWriteIdx \in Slot /\ h.queueWriteIdx \notin FullSlots(h)
         /\ FullSlots(p) = FullSlots(h) \cup {h.queueWriteIdx}
<1> DEFINE w == h.queueWriteIdx
<1>1. /\ w \in Slot /\ h.queueReadIdx \in Slot
      /\ h.frameBufferQueue \in [Slot -> Address]
  BY DEF Handle
<1>2. /\ FullSlots(p) = FullSlots(h) \cup {w}
      /\ w \notin FullSlots(h)
      /\ p.queueReadIdx # p.queueWriteIdx
  BY <1>1, QueueGrows DEF FullSlots, HasQueueRoom
<1>3. /\ p.frameBufferQueue[w] = b
      /\ \A s \in FullSlots(h) : p.frameBufferQueue[s] = h.frameBufferQueue[s]
  BY <1>1, <1>2 DEF FullSlots
<1>4. \A s \in FullSlots(h) : h.frameBufferQueue[s] # b
  BY DEF FullOf
<1> HIDE DEF w
<1>5. FullOnce(p) /\ FullOf(p) = FullOf(h) \cup {b}
  BY <1>2, <1>3, <1>4 DEF FullOnce, FullOf
<1> QED
  BY <1>1, <1>2, <1>5 DEF HasFullBuffer, w

\* The oldest full buffer leaves.
LEMMA FullShrinks ==
  ASSUME NEW h \in Handle, NEW p \in Handle,
         FullOnce(h), HasFullBuffer(h),
         p.queueReadIdx = IncreaseQueueIdx(h.queueReadIdx),
         p.queueWriteIdx = h.queueWriteIdx,
         p.frameBufferQueue = h.frameBufferQueue
  PROVE  /\ FullBuffer(h) \in FullOf(h) /\ FullBuffer(h) \in Buffer
         /\ FullOnce(p) /\ FullOf(p) = FullOf(h) \ {FullBuffer(h)}
         /\ h.queueReadIdx \in FullSlots(h)
         /\ FullSlots(p) = FullSlots(h) \ {h.queueReadIdx}
<1> DEFINE r == h.queueReadIdx
<1>1. r \in Slot /\ h.queueWriteIdx \in Slot
  BY DEF Handle
<1>2. /\ r \in FullSlots(h)
      /\ FullSlots(p) = FullSlots(h) \ {r}
  BY <1>1, QueueShrinks DEF FullSlots, HasFullBuffer
<1>3. FullBuffer(h) = h.frameBufferQueue[r]
  BY DEF FullBuffer
<1> HIDE DEF r
<1>4. /\ FullBuffer(h) \in FullOf(h) /\ FullBuffer(h) \in Buffer
      /\ FullOnce(p) /\ FullOf(p) = FullOf(h) \ {FullBuffer(h)}
  BY <1>2, <1>3 DEF FullOnce, FullOf
<1> QED BY <1>2, <1>4 DEF r

\* While a buffer is elsewhere, the empty list has room for it.
LEMMA EmptyHasRoom ==
  ASSUME BuffersFit, NEW h \in Handle, EmptyOnce(h),
         NEW b \in Buffer, b \notin EmptyOf(h)
  PROVE  h.emptyBufferCnt \in Slot
<1> DEFINE f == [s \in EmptySlots(h) |-> h.frameBufferAddr[s]]
           n == h.emptyBufferCnt
<1>1. n \in Nat /\ n <= CSI_DRIVER_ACTUAL_QUEUE_SIZE
  BY SlotFacts DEF Handle
<1>2. EmptySlots(h) = 0 .. n - 1
  BY <1>1, SlotFacts DEF EmptySlots, Slot
<1>3. /\ IsFiniteSet(Buffer \ {b})
      /\ Cardinality(Buffer \ {b}) = Cardinality(Buffer) - 1
  BY FS_RemoveElement DEF BuffersFit
<1>4. f \in Injection(EmptySlots(h), Buffer \ {b})
  <2>1. f \in [EmptySlots(h) -> Buffer \ {b}]
    BY DEF EmptyOnce, EmptyOf
  <2>2. \A s, t \in EmptySlots(h) : f[s] = f[t] => s = t
    BY DEF EmptyOnce
  <2> QED BY <2>1, <2>2 DEF Injection, IsInjective
<1>5. Cardinality(EmptySlots(h)) <= Cardinality(Buffer \ {b})
  BY <1>3, <1>4, FS_Injection
<1>6. Cardinality(EmptySlots(h)) = n
  BY <1>1, <1>2, FS_Interval
<1>7. Cardinality(Buffer) \in Nat
  BY FS_CardinalityType DEF BuffersFit
<1> QED
  BY <1>1, <1>3, <1>5, <1>6, <1>7, SlotFacts DEF BuffersFit, Slot

-----------------------------------------------------------------------------
(* What does not touch a part of the invariant keeps it. *)

LEMMA Types ==
  ASSUME TypeOK
  PROVE  /\ handle \in Handle /\ owned \subseteq Buffer
         /\ handle.emptyBufferCnt \in Nat
         /\ frame \in Nat /\ completed \in Nat /\ lastGot \in Nat
         /\ line \in Nat /\ line + 1 \in Line /\ Line \subseteq Nat /\ 1 \in Line
         /\ Lines \in Nat /\ MaxFrame \in Nat /\ Frame \subseteq Nat
         /\ \A b \in Buffer, l \in Line : mem[b][l] \in Nat
         /\ dmaIdx \in Register /\ 1 - dmaIdx \in Register
         /\ Buffer \subseteq Address
  BY SlotFacts, ControllerAssumption
     DEF TypeOK, CsiTypeOK, Frame, Line, Register, Handle, Address

LEMMA PlacesSame ==
  ASSUME PlacesInv, UNCHANGED <<handle, fb, owned>>
  PROVE  PlacesInv'
  BY DEF PlacesInv, ActiveInv, ActiveBuffers

LEMMA FramesSame ==
  ASSUME FrameInv, handle'.transferStarted = handle.transferStarted,
         UNCHANGED <<fb, sr, dmaIdx, dmaBuf, line, frame, completed, mem>>
  PROVE  FrameInv'
  BY DEF FrameInv

LEMMA QueueSame ==
  ASSUME QueueInv, UNCHANGED <<sr, completed, mem, lastGot>>,
         handle'.frameBufferQueue = handle.frameBufferQueue,
         handle'.queueReadIdx = handle.queueReadIdx,
         handle'.queueWriteIdx = handle.queueWriteIdx
  PROVE  QueueInv'
  BY DEF QueueInv, FullSlots

\* A full queue's set and its once-ness depend on these fields only.
LEMMA FullSame ==
  ASSUME NEW h, NEW p, FullOnce(h),
         p.frameBufferQueue = h.frameBufferQueue,
         p.queueReadIdx = h.queueReadIdx,
         p.queueWriteIdx = h.queueWriteIdx
  PROVE  /\ FullOnce(p) /\ FullOf(p) = FullOf(h)
         /\ HasFullBuffer(p) = HasFullBuffer(h)
  BY DEF FullOnce, FullOf, FullSlots, HasFullBuffer

\* And the empty list's on these.
LEMMA EmptySame ==
  ASSUME NEW h, NEW p, EmptyOnce(h),
         p.frameBufferAddr = h.frameBufferAddr,
         p.emptyBufferCnt = h.emptyBufferCnt
  PROVE  EmptyOnce(p) /\ EmptyOf(p) = EmptyOf(h)
  BY DEF EmptyOnce, EmptyOf, EmptySlots

-----------------------------------------------------------------------------
(* The application's calls. *)

LEMMA InitIInv == Init => IInv
<1> SUFFICES ASSUME Init PROVE IInv
  OBVIOUS
<1>1. CreateHandle \in Handle
  BY SlotFacts DEF CreateHandle, Handle, Address, CSI_MAX_ACTIVE_FRAME_NUM
<1>2. /\ handle.emptyBufferCnt = 0 /\ handle.activeBufferNum = 0
      /\ handle.transferStarted = FALSE
      /\ handle.queueReadIdx = 0 /\ handle.queueWriteIdx = 0
  BY DEF Init, CreateHandle
<1>3. TypeOK
  <2>1. /\ 0 \in Frame /\ 0 \in 0 .. Lines - 1 /\ 0 \in Register
        /\ NoBuffer \in Address
    BY ControllerAssumption DEF Frame, Register, Address
  <2>2. fb \in [Register -> Address] /\ mem \in [Buffer -> [Line -> Frame]]
    BY <2>1 DEF Init, HardwareInit
  <2> QED BY <1>1, <2>1, <2>2 DEF Init, HardwareInit, TypeOK, CsiTypeOK
<1>4. EmptySlots(handle) = {} /\ FullSlots(handle) = {}
  BY <1>2 DEF EmptySlots, FullSlots, GetQueueDelta, Slot
<1>5. PhaseInv
  BY <1>2 DEF Init, PhaseInv
<1>6. PlacesInv
  BY <1>2, <1>4 DEF Init, PlacesInv, EmptyOnce, FullOnce, ActiveInv, Disjoint,
                    ActiveBuffers, EmptyOf, FullOf
<1>7. FrameInv /\ QueueInv
  BY <1>4 DEF Init, HardwareInit, FrameInv, QueueInv, Register
<1> QED BY <1>3, <1>5, <1>6, <1>7 DEF IInv

LEMMA SubmitKeepsIInv ==
  ASSUME IInv, NEW b \in Buffer, SubmitEmptyBuffer(b)
  PROVE  IInv'
<1> USE DEF IInv, SubmitEmptyBuffer, csiVars
<1>1. TypeOK'
  BY Types DEF TypeOK, CsiTypeOK, Disable
<1>2. PhaseInv'
  BY DEF PhaseInv, Disable, TypeOK
<1> QED BY <1>1, <1>2, PlacesSame, FramesSame, QueueSame

LEMMA SubmitStoreKeepsIInv ==
  ASSUME BuffersFit, IInv, SubmitStore
  PROVE  /\ IInv'
         /\ EmptyOf(handle') = EmptyOf(handle)
         /\ FullOf(handle') = FullOf(handle)
<1> DEFINE h == handle
           p == StoreEmptyBuffer(handle, buffer)
<1>1. buffer \in owned /\ buffer \in Buffer /\ buffer \notin EmptyOf(h)
  BY Types DEF IInv, PhaseInv, SubmitStore, PlacesInv, Disjoint
<1>2. h.emptyBufferCnt \in Slot
  BY <1>1, Types, EmptyHasRoom DEF IInv, PlacesInv
<1>3. /\ p \in Handle
      /\ p.frameBufferAddr[h.emptyBufferCnt] = buffer
      /\ \A s \in EmptySlots(h) : p.frameBufferAddr[s] = h.frameBufferAddr[s]
      /\ p.emptyBufferCnt = h.emptyBufferCnt
      /\ p.frameBufferQueue = h.frameBufferQueue
      /\ p.queueReadIdx = h.queueReadIdx
      /\ p.queueWriteIdx = h.queueWriteIdx
      /\ p.activeBufferNum = h.activeBufferNum
      /\ p.transferStarted = h.transferStarted
  <2> DEFINE a == [h.frameBufferAddr EXCEPT ![h.emptyBufferCnt] = buffer]
  <2>1. h \in Handle /\ h.frameBufferAddr \in [Slot -> Address]
    BY Types DEF IInv, Handle
  <2>2. /\ a \in [Slot -> Address]
        /\ a[h.emptyBufferCnt] = buffer
        /\ \A s \in EmptySlots(h) : a[s] = h.frameBufferAddr[s]
    <3>1. \A s \in EmptySlots(h) : s \in Slot /\ s # h.emptyBufferCnt
      BY <1>2, SlotFacts DEF EmptySlots
    <3>2. buffer \in Address
      BY <1>1 DEF Address
    <3> QED BY <1>2, <2>1, <3>1, <3>2
  <2>3. p = [h EXCEPT !.frameBufferAddr = a]
    BY <2>1 DEF StoreEmptyBuffer, Handle
  <2> HIDE DEF a
  <2> QED BY <2>1, <2>2, <2>3 DEF Handle
<1>4. handle' = p /\ UNCHANGED <<fb, owned>>
  BY DEF SubmitStore, hardwareVars
<1> HIDE DEF p
<1>5. TypeOK'
  BY <1>3, <1>4 DEF IInv, TypeOK, CsiTypeOK, SubmitStore, hardwareVars
<1>6. PhaseInv'
  BY <1>1, <1>2, <1>3, <1>4 DEF IInv, PhaseInv, SubmitStore
<1>7. EmptyOnce(p) /\ EmptyOf(p) = EmptyOf(h)
  <2>1. EmptySlots(p) = EmptySlots(h)
    BY <1>3 DEF EmptySlots
  <2> QED BY <1>3, <2>1 DEF IInv, PlacesInv, EmptyOnce, EmptyOf
<1>8. FullOnce(p) /\ FullOf(p) = FullOf(h)
  BY <1>3, FullSame DEF IInv, PlacesInv
<1>9. PlacesInv'
  BY <1>3, <1>4, <1>7, <1>8 DEF IInv, PlacesInv, ActiveInv, ActiveBuffers
<1>10. FrameInv' /\ QueueInv'
  BY <1>3, <1>4, FramesSame, QueueSame DEF IInv, SubmitStore, hardwareVars
<1> QED BY <1>4, <1>5, <1>6, <1>7, <1>8, <1>9, <1>10 DEF IInv

LEMMA SubmitCountKeepsIInv ==
  ASSUME IInv, SubmitCount
  PROVE  /\ IInv'
         /\ EmptyOf(handle') = EmptyOf(handle) \cup {buffer}
         /\ FullOf(handle') = FullOf(handle)
         /\ buffer \in owned
<1> DEFINE h == handle
           p == CountEmptyBuffer(handle)
<1>1. /\ buffer \in owned /\ buffer \in Buffer /\ buffer \notin EmptyOf(h)
      /\ h.emptyBufferCnt \in Slot
      /\ h.frameBufferAddr[h.emptyBufferCnt] = buffer
      /\ h \in Handle
  BY Types DEF IInv, PhaseInv, SubmitCount, PlacesInv, Disjoint
<1>2. /\ p \in Handle
      /\ p.frameBufferAddr = h.frameBufferAddr
      /\ p.emptyBufferCnt = h.emptyBufferCnt + 1
      /\ p.frameBufferQueue = h.frameBufferQueue
      /\ p.queueReadIdx = h.queueReadIdx
      /\ p.queueWriteIdx = h.queueWriteIdx
      /\ p.activeBufferNum = h.activeBufferNum
      /\ p.transferStarted = h.transferStarted
  BY <1>1, SlotFacts DEF CountEmptyBuffer, Handle
<1>3. handle' = p /\ fb' = fb /\ owned' = owned \ {buffer}
  BY DEF SubmitCount, hardwareVars
<1> HIDE DEF p
<1>4. TypeOK'
  BY <1>2, <1>3
     DEF IInv, TypeOK, CsiTypeOK, SubmitCount, hardwareVars, Restore
<1>5. PhaseInv'
  BY <1>2, <1>3 DEF IInv, PhaseInv, SubmitCount, Restore
<1>6. EmptyOnce(p) /\ EmptyOf(p) = EmptyOf(h) \cup {buffer}
  BY <1>1, <1>2, EmptyGrows DEF IInv, PlacesInv
<1>7. FullOnce(p) /\ FullOf(p) = FullOf(h)
  BY <1>2, FullSame DEF IInv, PlacesInv
<1>8. Disjoint(EmptyOf(p), ActiveBuffers, FullOf(p), owned')
  BY <1>1, <1>3, <1>6, <1>7 DEF IInv, PlacesInv, Disjoint
<1>9. PlacesInv'
  BY <1>2, <1>3, <1>6, <1>7, <1>8 DEF IInv, PlacesInv, ActiveInv, ActiveBuffers
<1>10. FrameInv' /\ QueueInv'
  BY <1>2, <1>3, FramesSame, QueueSame DEF IInv, SubmitCount, hardwareVars
<1> QED BY <1>1, <1>3, <1>4, <1>5, <1>6, <1>7, <1>9, <1>10 DEF IInv

LEMMA GetKeepsIInv ==
  ASSUME IInv, GetFullBuffer \/ GetDisable
  PROVE  IInv'
<1> USE DEF IInv, csiVars, GetFullBuffer, GetDisable
<1>1. TypeOK'
  BY DEF TypeOK, CsiTypeOK, Disable
<1>2. PhaseInv'
  BY DEF PhaseInv, Disable, HasFullBuffer
<1> QED BY <1>1, <1>2, PlacesSame, FramesSame, QueueSame

\* The frame taken was the oldest in the queue: what is left is newer.
LEMMA GetTakeKeepsIInv ==
  ASSUME IInv, GetTake
  PROVE  /\ IInv'
         /\ EmptyOf(handle') = EmptyOf(handle)
         /\ FullOf(handle') = FullOf(handle) \ {buffer'}
         /\ handle.queueReadIdx \in FullSlots(handle)
         /\ buffer' = handle.frameBufferQueue[handle.queueReadIdx]
         /\ owned' = owned \cup {buffer'}
         /\ lastGot' = mem[buffer'][1]
<1> DEFINE h == handle
           p == DropFullBuffer(handle)
           r == handle.queueReadIdx
           b == FullBuffer(handle)
<1>1. /\ h \in Handle /\ HasFullBuffer(h) /\ FullOnce(h)
      /\ r \in Slot /\ h.queueWriteIdx \in Slot
  BY Types DEF IInv, PhaseInv, GetTake, PlacesInv, Handle
<1>2. /\ p \in Handle
      /\ p.frameBufferAddr = h.frameBufferAddr
      /\ p.frameBufferQueue = h.frameBufferQueue
      /\ p.emptyBufferCnt = h.emptyBufferCnt
      /\ p.queueReadIdx = IncreaseQueueIdx(r)
      /\ p.queueWriteIdx = h.queueWriteIdx
      /\ p.activeBufferNum = h.activeBufferNum
      /\ p.transferStarted = h.transferStarted
  BY <1>1, DropFullBufferFields
<1>3. /\ b \in FullOf(h) /\ b \in Buffer
      /\ FullOnce(p) /\ FullOf(p) = FullOf(h) \ {b}
      /\ r \in FullSlots(h)
      /\ FullSlots(p) = FullSlots(h) \ {r}
  BY <1>1, <1>2, FullShrinks
<1>4. b = h.frameBufferQueue[r]
  BY DEF FullBuffer
<1>5. /\ handle' = p /\ buffer' = b /\ owned' = owned \cup {b}
      /\ lastGot' = mem[b][Lines]
      /\ UNCHANGED <<fb, sr, dmaIdx, dmaBuf, line, frame, completed, mem>>
  BY DEF GetTake, hardwareVars
<1> HIDE DEF p, b
<1>6. lastGot' = mem[b][1] /\ lastGot' \in Frame
  <2>1. Lines \in Line /\ 1 \in Line
    BY ControllerAssumption DEF Line
  <2>2. mem[b][Lines] = mem[b][1]
    BY <1>3, <1>4, <2>1 DEF IInv, QueueInv
  <2> QED BY <1>3, <1>5, <2>1, <2>2 DEF IInv, TypeOK, CsiTypeOK
<1>7. TypeOK'
  BY <1>2, <1>3, <1>5, <1>6, Types
     DEF IInv, TypeOK, CsiTypeOK, GetTake, Restore, Address
<1>8. PhaseInv'
  BY <1>2, <1>5 DEF IInv, PhaseInv, GetTake, Restore
<1>9. PlacesInv' /\ EmptyOf(p) = EmptyOf(h)
  <2>1. EmptyOnce(p) /\ EmptyOf(p) = EmptyOf(h)
    BY <1>2, EmptySame DEF IInv, PlacesInv
  <2>2. Disjoint(EmptyOf(p), ActiveBuffers, FullOf(p), owned')
    BY <1>3, <1>5, <2>1 DEF IInv, PlacesInv, Disjoint
  <2> QED
    BY <1>2, <1>3, <1>5, <2>1, <2>2
       DEF IInv, PlacesInv, ActiveInv, ActiveBuffers
<1>10. FrameInv'
  BY <1>2, <1>5, FramesSame DEF IInv
<1>11. QueueInv'
  <2>1. \A s, t \in FullSlots(p) :
          /\ s \in FullSlots(h) /\ s \in Slot /\ s # r
          /\ GetQueueDelta(r, r) < GetQueueDelta(r, s)
          /\ GetQueueDelta(p.queueReadIdx, s) < GetQueueDelta(p.queueReadIdx, t)
               <=> GetQueueDelta(r, s) < GetQueueDelta(r, t)
    BY <1>1, <1>2, <1>3, QueueShrinks DEF HasFullBuffer, FullSlots
  <2>2. /\ lastGot' <= completed
        /\ sr # {} => lastGot' < completed
    BY <1>3, <1>4, <1>6 DEF IInv, QueueInv
  <2>3. \A s \in FullSlots(p) : lastGot' < mem[h.frameBufferQueue[s]][1]
    BY <1>3, <1>4, <1>6, <2>1 DEF IInv, QueueInv
  <2> QED BY <1>2, <1>5, <2>1, <2>2, <2>3 DEF IInv, QueueInv
<1> QED
  BY <1>3, <1>4, <1>5, <1>6, <1>7, <1>8, <1>9, <1>10, <1>11 DEF IInv

\* The two buffers submitted last become active.
LEMMA StartKeepsIInv ==
  ASSUME IInv, Start
  PROVE  /\ IInv'
         /\ fb'[0] \in EmptyOf(handle) /\ fb'[1] \in EmptyOf(handle)
         /\ fb'[0] # fb'[1]
         /\ EmptyOf(handle') = EmptyOf(handle) \ {fb'[0], fb'[1]}
         /\ FullOf(handle') = FullOf(handle)
         /\ ~handle.transferStarted /\ handle'.transferStarted
<1> DEFINE h == handle
           one == DropEmptyBuffer(h)
           two == DropEmptyBuffer(one)
           p == StartHandle(h)
           top == TopEmptyBuffer(h)
           next == TopEmptyBuffer(one)
<1>1. /\ h \in Handle /\ EmptyOnce(h) /\ FullOnce(h)
      /\ h.emptyBufferCnt \in Nat /\ h.emptyBufferCnt >= 2
      /\ ~h.transferStarted /\ sr = {} /\ line = 0
      /\ Disjoint(EmptyOf(h), {}, FullOf(h), owned)
  BY Types DEF IInv, PlacesInv, FrameInv, Start, ActiveBuffers
<1>2. /\ one \in Handle
      /\ one.frameBufferAddr = h.frameBufferAddr
      /\ one.emptyBufferCnt = h.emptyBufferCnt - 1
      /\ one.emptyBufferCnt > 0
  BY <1>1, DropEmptyBufferFields
<1>3. /\ top \in EmptyOf(h) /\ top \in Buffer
      /\ EmptyOnce(one) /\ EmptyOf(one) = EmptyOf(h) \ {top}
  BY <1>1, <1>2, EmptyShrinks
<1>4. /\ p \in Handle
      /\ p.frameBufferAddr = h.frameBufferAddr
      /\ p.frameBufferQueue = h.frameBufferQueue
      /\ p.emptyBufferCnt = h.emptyBufferCnt - 2
      /\ p.queueReadIdx = h.queueReadIdx
      /\ p.queueWriteIdx = h.queueWriteIdx
      /\ p.activeBufferNum = 2
      /\ p.transferStarted = TRUE
  <2>1. p \in Handle /\ p.transferStarted
    BY <1>1, StartHandleFields
  <2> HIDE DEF p
  <2>2. p.transferStarted = TRUE
    BY <2>1 DEF Handle
  <2> QED
    BY <1>1, <2>1, <2>2, StartHandleFields DEF CSI_MAX_ACTIVE_FRAME_NUM, p
<1>5. /\ handle' = p /\ owned' = owned
      /\ fb' = [i \in 0 .. 1 |-> IF i = 0 THEN top ELSE next]
      /\ irqOn' = TRUE /\ line' = 0 /\ dmaIdx' = 0
      /\ UNCHANGED <<sr, dmaBuf, frame, completed, mem, csicr1, pc, buffer,
                     lastGot>>
  BY DEF Start, StartRegisters
<1> HIDE DEF p, one, top
<1>6. /\ next \in EmptyOf(one) /\ next \in Buffer
      /\ EmptyOnce(p) /\ EmptyOf(p) = EmptyOf(one) \ {next}
  BY <1>1, <1>2, <1>3, <1>4, EmptyShrinks
<1> HIDE DEF next
<1>7. fb'[0] = top /\ fb'[1] = next /\ top # next
  BY <1>3, <1>5, <1>6
<1>8. FullOnce(p) /\ FullOf(p) = FullOf(h)
  BY <1>1, <1>4, FullSame
<1>9. TypeOK'
  BY <1>3, <1>4, <1>5, <1>6, Types
     DEF IInv, TypeOK, CsiTypeOK, Register, Address
<1>10. PhaseInv'
  BY <1>4, <1>5 DEF IInv, PhaseInv, Start
<1>11. PlacesInv'
  <2>1. ActiveBuffers' = {top, next}
    BY <1>4, <1>5, <1>7 DEF ActiveBuffers
  <2>2. Disjoint(EmptyOf(p), {top, next}, FullOf(p), owned')
    BY <1>1, <1>3, <1>5, <1>6, <1>8 DEF Disjoint
  <2>3. ActiveInv'
    BY <1>3, <1>4, <1>5, <1>6, <1>7 DEF ActiveInv
  <2> QED BY <1>5, <1>6, <1>8, <2>1, <2>2, <2>3 DEF PlacesInv
<1>12. FrameInv'
  BY <1>1, <1>4, <1>5 DEF IInv, FrameInv, Register
<1>13. QueueInv'
  BY <1>4, <1>5, QueueSame DEF IInv
<1>14. /\ fb'[0] \in EmptyOf(h) /\ fb'[1] \in EmptyOf(h)
       /\ EmptyOf(p) = EmptyOf(h) \ {fb'[0], fb'[1]}
  BY <1>3, <1>6, <1>7
<1> QED
  BY <1>1, <1>4, <1>5, <1>7, <1>8, <1>9, <1>10, <1>11, <1>12, <1>13, <1>14 DEF IInv

\* A buffer in none of the handle's lists goes to the empty ones.
LEMMA PutBack ==
  ASSUME BuffersFit, NEW h \in Handle, EmptyOnce(h), FullOnce(h),
         NEW b \in Buffer, b \notin EmptyOf(h)
  PROVE  LET p == PutEmptyBuffer(h, b)
         IN  /\ p \in Handle
             /\ EmptyOnce(p) /\ EmptyOf(p) = EmptyOf(h) \cup {b}
             /\ FullOnce(p) /\ FullOf(p) = FullOf(h)
             /\ p.frameBufferQueue = h.frameBufferQueue
             /\ p.queueReadIdx = h.queueReadIdx
             /\ p.queueWriteIdx = h.queueWriteIdx
             /\ p.activeBufferNum = h.activeBufferNum
             /\ p.transferStarted = h.transferStarted
<1> DEFINE p == PutEmptyBuffer(h, b)
<1>1. h.emptyBufferCnt \in Slot
  BY EmptyHasRoom
<1>2. /\ p \in Handle
      /\ p.frameBufferAddr = [h.frameBufferAddr EXCEPT ![h.emptyBufferCnt] = b]
      /\ p.frameBufferAddr[h.emptyBufferCnt] = b
      /\ p.frameBufferQueue = h.frameBufferQueue
      /\ p.emptyBufferCnt = h.emptyBufferCnt + 1
      /\ p.queueReadIdx = h.queueReadIdx
      /\ p.queueWriteIdx = h.queueWriteIdx
      /\ p.activeBufferNum = h.activeBufferNum
      /\ p.transferStarted = h.transferStarted
  BY <1>1, PutEmptyBufferFields DEF Address
<1> HIDE DEF p
<1>3. \A s \in EmptySlots(h) : p.frameBufferAddr[s] = h.frameBufferAddr[s]
  <2>1. \A s \in EmptySlots(h) : s \in Slot /\ s # h.emptyBufferCnt
    BY <1>1, SlotFacts DEF EmptySlots
  <2>2. h.frameBufferAddr \in [Slot -> Address]
    BY DEF Handle
  <2> QED BY <1>1, <1>2, <2>1, <2>2
<1>4. EmptyOnce(p) /\ EmptyOf(p) = EmptyOf(h) \cup {b}
  <2>1. /\ p \in Handle /\ p.emptyBufferCnt = h.emptyBufferCnt + 1
        /\ p.frameBufferAddr[h.emptyBufferCnt] = b
    BY <1>2
  <2> QED BY <1>1, <1>3, <2>1, EmptyGrows
<1>5. FullOnce(p) /\ FullOf(p) = FullOf(h)
  BY <1>2, FullSame
<1> QED BY <1>2, <1>4, <1>5 DEF p

\* One or two active buffers go back to the empty list.
LEMMA StopKeepsIInv ==
  ASSUME BuffersFit, IInv, Stop
  PROVE  /\ IInv'
         /\ EmptyOf(handle') = EmptyOf(handle) \cup {fb[0], fb[1]}
         /\ FullOf(handle') = FullOf(handle)
         /\ handle.transferStarted /\ ~handle'.transferStarted
<1> DEFINE h == handle
           idle == [h EXCEPT !.transferStarted = FALSE, !.activeBufferNum = 0]
           one == PutEmptyBuffer(idle, fb[0])
           both == PutEmptyBuffer(one, fb[1])
           p == handle'
<1>1. /\ h \in Handle /\ EmptyOnce(h) /\ FullOnce(h)
      /\ h.transferStarted = TRUE /\ irqOn = TRUE /\ sr = {}
      /\ fb[0] \in Buffer /\ fb[1] \in Buffer
      /\ h.activeBufferNum = IF fb[0] = fb[1] THEN 1 ELSE 2
      /\ Disjoint(EmptyOf(h), {fb[0], fb[1]}, FullOf(h), owned)
  BY Types DEF IInv, PlacesInv, ActiveInv, ActiveBuffers, PhaseInv, Stop, AppRuns,
               TypeOK, Handle
<1>2. /\ idle \in Handle
      /\ idle.frameBufferAddr = h.frameBufferAddr
      /\ idle.frameBufferQueue = h.frameBufferQueue
      /\ idle.emptyBufferCnt = h.emptyBufferCnt
      /\ idle.queueReadIdx = h.queueReadIdx
      /\ idle.queueWriteIdx = h.queueWriteIdx
      /\ idle.activeBufferNum = 0
      /\ idle.transferStarted = FALSE
  <2> DEFINE e == [h EXCEPT !.transferStarted = FALSE]
  <2>1. e \in Handle
    BY <1>1 DEF Handle
  <2>2. idle = [e EXCEPT !.activeBufferNum = 0] /\ e.transferStarted = FALSE
    BY <1>1 DEF Handle
  <2>3. /\ e.frameBufferAddr = h.frameBufferAddr
        /\ e.frameBufferQueue = h.frameBufferQueue
        /\ e.emptyBufferCnt = h.emptyBufferCnt
        /\ e.queueReadIdx = h.queueReadIdx
        /\ e.queueWriteIdx = h.queueWriteIdx
    BY <1>1 DEF Handle
  <2> HIDE DEF e, idle
  <2>4. 0 \in 0 .. CSI_MAX_ACTIVE_FRAME_NUM
    BY DEF CSI_MAX_ACTIVE_FRAME_NUM
  <2>5. idle \in Handle
    BY <2>1, <2>2, <2>4 DEF Handle
  <2>6. /\ idle.frameBufferAddr = e.frameBufferAddr
        /\ idle.frameBufferQueue = e.frameBufferQueue
        /\ idle.emptyBufferCnt = e.emptyBufferCnt
        /\ idle.queueReadIdx = e.queueReadIdx
        /\ idle.queueWriteIdx = e.queueWriteIdx
        /\ idle.transferStarted = e.transferStarted
        /\ idle.activeBufferNum = 0
    BY <2>1, <2>2 DEF Handle
  <2> QED BY <2>2, <2>3, <2>5, <2>6
<1>3. /\ handle' = IF h.activeBufferNum = 2 THEN both ELSE one
      /\ irqOn' = FALSE /\ line' = 0
      /\ UNCHANGED <<fb, sr, dmaIdx, dmaBuf, frame, completed, mem, owned,
                     csicr1, pc, buffer, lastGot>>
  BY DEF Stop
<1> HIDE DEF idle
<1>4. /\ EmptyOnce(idle) /\ EmptyOf(idle) = EmptyOf(h)
      /\ FullOnce(idle) /\ FullOf(idle) = FullOf(h)
  BY <1>1, <1>2, FullSame DEF EmptyOnce, EmptyOf, EmptySlots
<1>5. fb[0] \notin EmptyOf(h) /\ fb[1] \notin EmptyOf(h)
  BY <1>1 DEF Disjoint
<1>6. /\ one \in Handle
      /\ EmptyOnce(one) /\ EmptyOf(one) = EmptyOf(h) \cup {fb[0]}
      /\ FullOnce(one) /\ FullOf(one) = FullOf(h)
      /\ one.frameBufferQueue = h.frameBufferQueue
      /\ one.queueReadIdx = h.queueReadIdx
      /\ one.queueWriteIdx = h.queueWriteIdx
      /\ one.activeBufferNum = 0
      /\ one.transferStarted = FALSE
  BY <1>1, <1>2, <1>4, <1>5, PutBack
<1> HIDE DEF one
<1>7. /\ p \in Handle
      /\ EmptyOnce(p) /\ EmptyOf(p) = EmptyOf(h) \cup {fb[0], fb[1]}
      /\ FullOnce(p) /\ FullOf(p) = FullOf(h)
      /\ p.frameBufferQueue = h.frameBufferQueue
      /\ p.queueReadIdx = h.queueReadIdx
      /\ p.queueWriteIdx = h.queueWriteIdx
      /\ p.activeBufferNum = 0
      /\ p.transferStarted = FALSE
  <2>1. CASE fb[0] = fb[1]
    BY <1>1, <1>3, <1>6, <2>1
  <2>2. CASE fb[0] # fb[1]
    <3>1. fb[1] \notin EmptyOf(one)
      BY <1>5, <1>6, <2>2
    <3>2. p = both
      BY <1>1, <1>3, <2>2
    <3>3. /\ both \in Handle
          /\ EmptyOnce(both) /\ EmptyOf(both) = EmptyOf(one) \cup {fb[1]}
          /\ FullOnce(both) /\ FullOf(both) = FullOf(one)
          /\ both.frameBufferQueue = one.frameBufferQueue
          /\ both.queueReadIdx = one.queueReadIdx
          /\ both.queueWriteIdx = one.queueWriteIdx
          /\ both.activeBufferNum = one.activeBufferNum
          /\ both.transferStarted = one.transferStarted
      BY <1>1, <1>6, <3>1, PutBack
    <3> HIDE DEF both
    <3> QED BY <1>6, <3>2, <3>3
  <2> QED BY <2>1, <2>2
<1>8. TypeOK'
  <2>1. 0 \in 0 .. Lines - 1
    BY ControllerAssumption
  <2> QED BY <1>3, <1>7, <2>1 DEF IInv, TypeOK, CsiTypeOK
<1>9. PhaseInv'
  BY <1>3, <1>7 DEF IInv, PhaseInv, Stop
<1>10. PlacesInv'
  <2>1. Disjoint(EmptyOf(p), {}, FullOf(p), owned')
    BY <1>1, <1>3, <1>7 DEF Disjoint
  <2> QED BY <1>7, <2>1 DEF PlacesInv, ActiveInv, ActiveBuffers
<1>11. FrameInv'
  BY <1>1, <1>3, <1>7 DEF IInv, FrameInv
<1>12. QueueInv'
  BY <1>3, <1>7, QueueSame DEF IInv
<1> QED BY <1>1, <1>7, <1>8, <1>9, <1>10, <1>11, <1>12 DEF IInv

-----------------------------------------------------------------------------
(* The camera. *)

LEMMA FrameBeginsKeepsIInv ==
  ASSUME IInv, FrameBegins, UNCHANGED appVars
  PROVE  /\ IInv'
         /\ \A b \in FullOf(handle) : mem'[b] = mem[b]
<1> DEFINE b == fb[dmaIdx]
<1> USE DEF appVars
<1>1. /\ b \in Buffer /\ b \notin FullOf(handle)
      /\ dmaIdx = 0 \/ dmaIdx = 1
  BY Types DEF IInv, PlacesInv, ActiveInv, ActiveBuffers, Disjoint, FrameBegins,
               Register
<1>2. /\ frame' = frame + 1 /\ line' = 1 /\ dmaBuf' = b
      /\ mem' = [mem EXCEPT ![b][1] = frame + 1]
      /\ UNCHANGED <<handle, fb, sr, dmaIdx, completed>>
      /\ frame + 1 \in Frame /\ 1 \in 0 .. Lines - 1
  BY Types, ControllerAssumption
     DEF IInv, TypeOK, CsiTypeOK, FrameBegins, Frame
<1> HIDE DEF b
<1>3. /\ mem' \in [Buffer -> [Line -> Frame]]
      /\ mem'[b][1] = frame + 1
      /\ \A c \in Buffer : c # b => mem'[c] = mem[c]
  <2>1. mem \in [Buffer -> [Line -> Frame]] /\ 1 \in Line
    BY Types DEF IInv, TypeOK, CsiTypeOK
  <2> QED BY <1>1, <1>2, <2>1
<1>4. TypeOK'
  BY <1>1, <1>2, <1>3 DEF IInv, TypeOK, CsiTypeOK, Address
<1>5. PhaseInv' /\ PlacesInv'
  BY <1>2, PlacesSame DEF IInv, PhaseInv
<1>6. FrameInv'
  <2>1. /\ handle.transferStarted
        /\ fb[0] \in Buffer /\ fb[1] \in Buffer
    BY DEF IInv, PlacesInv, ActiveInv, FrameBegins
  <2>2. \A l \in Line : l <= 1 => mem'[b][l] = frame + 1
    BY <1>3, ControllerAssumption DEF Line
  <2>3. ASSUME NEW i \in Register, sr = {i}, fb[0] # fb[1], NEW l \in Line
        PROVE  mem'[fb[i]][l] = completed
    <3>1. dmaIdx = 1 - i /\ mem[fb[i]][l] = completed
      BY <2>3 DEF IInv, FrameInv
    <3>2. fb[i] # b /\ fb[i] \in Buffer
      BY <2>1, <2>3, <3>1 DEF Register, b
    <3> QED BY <1>3, <3>1, <3>2
  <2>4. completed <= frame' /\ completed < frame'
    BY <1>2, Types DEF IInv, FrameInv
  <2> QED BY <1>2, <2>1, <2>2, <2>3, <2>4 DEF IInv, FrameInv, b
<1>7. QueueInv'
  <2>1. \A s \in FullSlots(handle) :
          mem'[handle.frameBufferQueue[s]] = mem[handle.frameBufferQueue[s]]
    BY <1>1, <1>3 DEF IInv, PlacesInv, FullOnce, FullOf
  <2> QED BY <1>2, <2>1 DEF IInv, QueueInv
<1>8. \A c \in FullOf(handle) : mem'[c] = mem[c]
  BY <1>1, <1>3 DEF IInv, PlacesInv, FullOnce, FullOf
<1> QED BY <1>4, <1>5, <1>6, <1>7, <1>8 DEF IInv

LEMMA LineArrivesKeepsIInv ==
  ASSUME IInv, LineArrives, UNCHANGED appVars
  PROVE  /\ IInv'
         /\ \A b \in FullOf(handle) : mem'[b] = mem[b]
<1> DEFINE b == dmaBuf
           last == ~(line + 1 < Lines)
<1> USE DEF appVars
<1>1. /\ b = fb[dmaIdx] /\ b \in Buffer /\ b \notin FullOf(handle)
      /\ handle.transferStarted
      /\ fb[0] \in Buffer /\ fb[1] \in Buffer
      /\ dmaIdx = 0 \/ dmaIdx = 1
      /\ completed < frame
      /\ \A l \in Line : l <= line => mem[b][l] = frame
  BY Types DEF IInv, PlacesInv, ActiveInv, ActiveBuffers, Disjoint, LineArrives,
               Register, FrameInv
<1>2. /\ mem' = [mem EXCEPT ![b][line + 1] = frame]
      /\ UNCHANGED <<handle, fb, dmaBuf, frame>>
      /\ ~last => line' = line + 1 /\ UNCHANGED <<sr, dmaIdx, completed>>
      /\ last => /\ line' = 0 /\ sr' = sr \cup {dmaIdx}
                 /\ dmaIdx' = 1 - dmaIdx /\ completed' = frame
  BY DEF LineArrives
<1> HIDE DEF b
<1>3. /\ mem' \in [Buffer -> [Line -> Frame]]
      /\ \A l \in Line : l <= line + 1 => mem'[b][l] = frame
      /\ \A c \in Buffer : c # b => mem'[c] = mem[c]
  <2>1. /\ mem \in [Buffer -> [Line -> Frame]] /\ line + 1 \in Line
        /\ frame \in Frame
    BY Types DEF IInv, TypeOK, CsiTypeOK
  <2>2. \A l \in Line : mem'[b][l] = IF l = line + 1 THEN frame ELSE mem[b][l]
    BY <1>1, <1>2, <2>1
  <2>3. \A l \in Line : l <= line + 1 => l <= line \/ l = line + 1
    BY Types DEF IInv
  <2>4. mem' \in [Buffer -> [Line -> Frame]]
    BY <1>1, <1>2, <2>1
  <2> QED BY <1>1, <1>2, <2>1, <2>2, <2>3, <2>4
<1>4. last => \A l \in Line : mem'[b][l] = frame
  <2>1. last => \A l \in Line : l <= line + 1
    BY Types DEF IInv, TypeOK, CsiTypeOK, Line
  <2> QED BY <1>3, <2>1
<1>5. TypeOK'
  <2>1. line' \in 0 .. Lines - 1 /\ dmaIdx' \in Register
        /\ sr' \in SUBSET Register /\ completed' \in Frame
    BY <1>2, Types DEF IInv, TypeOK, CsiTypeOK
  <2> QED BY <1>2, <1>3, <2>1 DEF IInv, TypeOK, CsiTypeOK
<1>6. PhaseInv' /\ PlacesInv'
  BY <1>2, PlacesSame DEF IInv, PhaseInv
<1>7. FrameInv'
  <2>1. ASSUME NEW i \in Register, sr' = {i}
        PROVE  /\ dmaIdx' = 1 - i
               /\ fb[0] # fb[1] => \A l \in Line : mem'[fb[i]][l] = completed'
    <3>1. CASE last
      <4>1. i = dmaIdx
        BY <1>2, <2>1, <3>1
      <4> QED BY <1>1, <1>2, <1>4, <3>1, <4>1
    <3>2. CASE ~last
      <4>1. /\ sr = {i} /\ dmaIdx = 1 - i /\ dmaIdx' = 1 - i
            /\ fb[0] # fb[1] => \A l \in Line : mem[fb[i]][l] = completed'
        BY <1>2, <2>1, <3>2 DEF IInv, FrameInv
      <4>2. fb[0] # fb[1] => fb[i] # b /\ fb[i] \in Buffer
        BY <1>1, <4>1 DEF Register
      <4> QED BY <1>3, <4>1, <4>2
    <3> QED BY <3>1, <3>2
  <2>2. completed' <= frame' /\ (line' > 0 => completed' < frame')
    BY <1>1, <1>2, Types DEF IInv, FrameInv
  <2>3. line' > 0 => /\ dmaBuf' = fb'[dmaIdx']
                     /\ \A l \in Line : l <= line' => mem'[dmaBuf'][l] = frame'
    BY <1>1, <1>2, <1>3 DEF b
  <2> QED BY <1>1, <1>2, <2>1, <2>2, <2>3 DEF FrameInv
<1>8. QueueInv'
  <2>1. \A s \in FullSlots(handle) :
          mem'[handle.frameBufferQueue[s]] = mem[handle.frameBufferQueue[s]]
    BY <1>1, <1>3 DEF IInv, PlacesInv, FullOnce, FullOf
  <2>2. /\ completed <= completed'
        /\ sr' # sr => completed < completed'
        /\ completed \in Int /\ completed' \in Int /\ lastGot \in Int
    BY <1>1, <1>2, Types DEF IInv
  <2>3. \A s \in FullSlots(handle) : mem[handle.frameBufferQueue[s]][1] \in Int
    BY Types DEF IInv, PlacesInv, FullOnce
  <2> QED BY <1>2, <2>1, <2>2, <2>3 DEF IInv, QueueInv
<1>9. \A c \in FullOf(handle) : mem'[c] = mem[c]
  BY <1>1, <1>3 DEF IInv, PlacesInv, FullOnce, FullOf
<1> QED BY <1>5, <1>6, <1>7, <1>8, <1>9 DEF IInv
-----------------------------------------------------------------------------
(* The interrupt handler. *)

\* The full queue of a handle holds whole frames, in order, newer than what the
\* application took.
Ordered(h) ==
  LET Holds(s) == mem[h.frameBufferQueue[s]][1]
      Place(s) == GetQueueDelta(h.queueReadIdx, s)
  IN  \A s \in FullSlots(h) :
        /\ \A l \in Line : mem[h.frameBufferQueue[s]][l] = Holds(s)
        /\ lastGot < Holds(s) /\ Holds(s) <= completed
        /\ \A t \in FullSlots(h) : Place(s) < Place(t) => Holds(s) < Holds(t)

\* The handle between the handler's two halves.
Queued(idx) ==
  IF CanQueueFrame(handle) THEN PutFullBuffer(handle, fb[idx]) ELSE handle

\* The buffers the DMA still needs then.
StillActive(idx) ==
  IF Queued(idx).activeBufferNum = 2 THEN {fb[0], fb[1]} ELSE {fb[1 - idx]}

LEMMA SkipKeepsIInv ==
  ASSUME IInv, SkipFrames
  PROVE  IInv'
<1> USE DEF SkipFrames, appVars
<1>1. TypeOK' /\ PhaseInv'
  BY DEF IInv, TypeOK, CsiTypeOK, PhaseInv
<1>2. PlacesInv'
  BY PlacesSame DEF IInv
<1>3. FrameInv'
  BY DEF IInv, FrameInv
<1>4. QueueInv'
  BY DEF IInv, QueueInv
<1> QED BY <1>1, <1>2, <1>3, <1>4 DEF IInv

\* What holds when the handler runs for one flag.
LEMMA AtFrameDone ==
  ASSUME IInv, NEW idx \in Register, FrameDone(idx)
  PROVE  /\ handle \in Handle /\ handle.transferStarted /\ irqOn
         /\ idx = 0 \/ idx = 1
         /\ dmaIdx = 1 - idx /\ sr # {}
         /\ EmptyOnce(handle) /\ FullOnce(handle)
         /\ fb[0] \in Buffer /\ fb[1] \in Buffer
         /\ handle.activeBufferNum = IF fb[0] = fb[1] THEN 1 ELSE 2
         /\ Disjoint(EmptyOf(handle), {fb[0], fb[1]}, FullOf(handle), owned)
<1>1. /\ handle \in Handle /\ handle.transferStarted /\ irqOn
      /\ idx = 0 \/ idx = 1
  <2>1. irqOn /\ pc \in {"idle", "get"}
    BY DEF IInv, TypeOK, PhaseInv, FrameDone
  <2>2. handle \in Handle /\ irqOn = handle.transferStarted
    BY <2>1, Types DEF IInv, PhaseInv
  <2>3. handle.transferStarted
    BY <2>1, <2>2
  <2> QED BY <2>1, <2>2, <2>3 DEF Register
<1>2. dmaIdx = 1 - idx /\ sr # {}
  BY DEF IInv, FrameInv, FrameDone
<1> QED
  BY <1>1, <1>2 DEF IInv, PlacesInv, ActiveInv, ActiveBuffers

LEMMA QueuedPlaces ==
  ASSUME IInv, NEW idx \in Register, FrameDone(idx)
  PROVE  LET h == Queued(idx)
         IN  /\ h \in Handle /\ h.transferStarted
             /\ EmptyOnce(h) /\ FullOnce(h) /\ Ordered(h)
             /\ h.activeBufferNum \in {1, 2}
             /\ h.activeBufferNum = 2 => fb[0] # fb[1]
             /\ HasFullBuffer(handle) => HasFullBuffer(h)
             /\ Disjoint(EmptyOf(h), StillActive(idx), FullOf(h), owned)
             /\ EmptyOf(h) = EmptyOf(handle)
             /\ CanQueueFrame(handle) =>
                  FullOf(h) = FullOf(handle) \cup {fb[idx]}
             /\ ~CanQueueFrame(handle) => h = handle
<1> DEFINE h == Queued(idx)
           b == fb[idx]
           w == handle.queueWriteIdx
<1>1. CASE ~CanQueueFrame(handle)
  <2>1. h = handle
    BY <1>1 DEF Queued
  <2>2. StillActive(idx) = {fb[0], fb[1]}
    BY <2>1, AtFrameDone DEF StillActive
  <2>3. Ordered(handle)
    BY DEF IInv, QueueInv, Ordered
  <2> HIDE DEF h
  <2> QED BY <1>1, <2>1, <2>2, <2>3, AtFrameDone DEF h
<1>2. CASE CanQueueFrame(handle)
  <2>1. /\ fb[0] # fb[1] /\ b \in Buffer /\ b \notin FullOf(handle)
        /\ handle.activeBufferNum = 2 /\ HasQueueRoom(handle)
    BY <1>2, AtFrameDone
       DEF CanQueueFrame, CSI_MAX_ACTIVE_FRAME_NUM, Disjoint
  <2>2. h = PutFullBuffer(handle, b)
    BY <1>2 DEF Queued
  <2>3. /\ h \in Handle
        /\ h.frameBufferQueue = [handle.frameBufferQueue EXCEPT ![w] = b]
        /\ h.frameBufferQueue[w] = b
        /\ h.frameBufferAddr = handle.frameBufferAddr
        /\ h.emptyBufferCnt = handle.emptyBufferCnt
        /\ h.queueReadIdx = handle.queueReadIdx
        /\ h.queueWriteIdx = IncreaseQueueIdx(w)
        /\ h.activeBufferNum = 1
        /\ h.transferStarted = handle.transferStarted
    <3>1. handle \in Handle /\ b \in Address
      BY <2>1, AtFrameDone DEF Address
    <3> QED BY <2>1, <2>2, <3>1, PutFullBufferFields
  <2> HIDE DEF h
  <2>4. /\ FullOnce(h) /\ FullOf(h) = FullOf(handle) \cup {b}
        /\ HasFullBuffer(h)
        /\ w \in Slot /\ w \notin FullSlots(handle)
        /\ FullSlots(h) = FullSlots(handle) \cup {w}
    BY <2>1, <2>3, AtFrameDone, FullGrows
  <2>5. EmptyOnce(h) /\ EmptyOf(h) = EmptyOf(handle)
    BY <2>3, AtFrameDone, EmptySame
  <2>6. StillActive(idx) = {fb[1 - idx]}
    BY <2>3 DEF StillActive, h
  <2>7. Disjoint(EmptyOf(h), {fb[1 - idx]}, FullOf(h), owned)
    BY <2>1, <2>4, <2>5, AtFrameDone DEF Disjoint
  <2>8. Ordered(h)
    <3> DEFINE Old(s) == mem[handle.frameBufferQueue[s]]
               New(s) == mem[h.frameBufferQueue[s]]
               Place(s) == GetQueueDelta(handle.queueReadIdx, s)
    <3>1. /\ \A s \in FullSlots(handle) : s # w /\ New(s) = Old(s)
          /\ New(w) = mem[b]
      <4>1. handle.frameBufferQueue \in [Slot -> Address]
        BY AtFrameDone DEF Handle
      <4> QED BY <2>3, <2>4, <4>1 DEF FullSlots
    <3>2. /\ \A l \in Line : mem[b][l] = completed
          /\ 1 \in Line
      BY <2>1, Types DEF IInv, FrameInv, FrameDone
    <3>3. /\ lastGot < completed
          /\ \A s \in FullSlots(handle) :
               /\ \A l \in Line : Old(s)[l] = Old(s)[1]
               /\ lastGot < Old(s)[1] /\ Old(s)[1] < completed
               /\ \A t \in FullSlots(handle) :
                    Place(s) < Place(t) => Old(s)[1] < Old(t)[1]
      BY AtFrameDone DEF IInv, QueueInv
    <3>4. \A s \in FullSlots(handle) : Place(s) < Place(w)
      BY DEF FullSlots
    <3>5. \A s \in Slot : Place(s) \in Int
      BY SlotFacts, AtFrameDone DEF Handle, GetQueueDelta, Slot
    <3>6. /\ completed \in Int /\ lastGot \in Int
          /\ \A s \in FullSlots(handle) : Old(s)[1] \in Int
      BY <3>2, Types DEF IInv, PlacesInv, FullOnce
    <3> HIDE DEF Old, New, Place
    <3>7. \A s \in FullSlots(h) :
            /\ \A l \in Line : New(s)[l] = New(s)[1]
            /\ lastGot < New(s)[1] /\ New(s)[1] <= completed
      BY <2>4, <3>1, <3>2, <3>3, <3>6
    <3>8. ASSUME NEW s \in FullSlots(h), NEW t \in FullSlots(h),
                 Place(s) < Place(t)
          PROVE  New(s)[1] < New(t)[1]
      <4>1. s \in FullSlots(handle)
        <5>1. ASSUME s = w PROVE FALSE
          <6>1. t = w \/ Place(t) < Place(w)
            BY <2>4, <3>4
          <6>2. Place(w) \in Int /\ Place(t) \in Int
            BY <2>4, <3>5 DEF FullSlots
          <6> QED BY <3>8, <5>1, <6>1, <6>2
        <5> QED BY <2>4, <5>1
      <4> QED BY <2>4, <3>1, <3>2, <3>3, <3>8, <4>1
    <3> QED BY <2>3, <3>7, <3>8 DEF Ordered, New, Place
  <2> QED BY <1>2, <2>3, <2>4, <2>5, <2>6, <2>7, <2>8, AtFrameDone DEF h
<1> QED BY <1>1, <1>2

\* With one buffer active the register of the done frame gets an empty one or
\* the other register's; the register the DMA uses next keeps its own.
LEMMA FrameDoneKeepsIInv ==
  ASSUME IInv, NEW idx \in Register, FrameDone(idx)
  PROVE  LET h == Queued(idx)
         IN  /\ IInv'
             /\ FullOf(handle') = FullOf(h)
             /\ handle'.transferStarted
             /\ \/ /\ EmptyOf(handle') = EmptyOf(h)
                   /\ {fb'[0], fb'[1]} = StillActive(idx)
                   /\ h.activeBufferNum = 1 => EmptyOf(h) = {}
                \/ /\ h.activeBufferNum = 1
                   /\ \E top \in EmptyOf(h) :
                        /\ EmptyOf(handle') = EmptyOf(h) \ {top}
                        /\ {fb'[0], fb'[1]} = StillActive(idx) \cup {top}
<1> DEFINE h == Queued(idx)
           top == TopEmptyBuffer(h)
           r == handle'
           A == IF h.activeBufferNum = 2 THEN {fb[0], fb[1]} ELSE {fb[1 - idx]}
<1>1. /\ h \in Handle /\ h.transferStarted
      /\ EmptyOnce(h) /\ FullOnce(h) /\ Ordered(h)
      /\ h.activeBufferNum \in {1, 2}
      /\ h.activeBufferNum = 2 => fb[0] # fb[1]
      /\ HasFullBuffer(handle) => HasFullBuffer(h)
      /\ Disjoint(EmptyOf(h), IF h.activeBufferNum = 2 THEN {fb[0], fb[1]}
                                                       ELSE {fb[1 - idx]},
                  FullOf(h), owned)
  BY QueuedPlaces DEF StillActive
<1>2. /\ handle' = RearmHandle(h) /\ fb' = RearmRegisters(h, fb, idx)
      /\ sr' = {}
      /\ UNCHANGED <<dmaIdx, dmaBuf, line, frame, completed, mem, owned, irqOn,
                     csicr1, pc, buffer, lastGot>>
  BY DEF FrameDone, QueueAndRearm, Queued, appVars
<1>3. /\ idx = 0 \/ idx = 1
      /\ dmaIdx = 1 - idx
      /\ fb[0] \in Buffer /\ fb[1] \in Buffer
      /\ handle.transferStarted
  BY AtFrameDone
<1>4. fb \in [0 .. 1 -> Address]
  BY DEF IInv, TypeOK, CsiTypeOK, Register
<1> HIDE DEF h
<1>5. /\ r \in Handle /\ r.transferStarted
      /\ EmptyOnce(r)
      /\ r.frameBufferQueue = h.frameBufferQueue
      /\ r.queueReadIdx = h.queueReadIdx /\ r.queueWriteIdx = h.queueWriteIdx
      /\ fb' \in [0 .. 1 -> Address]
      /\ fb'[0] \in Buffer /\ fb'[1] \in Buffer
      /\ fb'[1 - idx] = fb[1 - idx]
      /\ r.activeBufferNum = IF fb'[0] = fb'[1] THEN 1 ELSE 2
      /\ Disjoint(EmptyOf(r), {fb'[0], fb'[1]}, FullOf(h), owned)
      /\ \/ /\ EmptyOf(r) = EmptyOf(h)
            /\ {fb'[0], fb'[1]} = A
            /\ h.activeBufferNum = 1 => EmptyOf(h) = {}
         \/ /\ h.activeBufferNum = 1
            /\ \E b \in EmptyOf(h) : /\ EmptyOf(r) = EmptyOf(h) \ {b}
                                     /\ {fb'[0], fb'[1]} = A \cup {b}
  <2>1. CASE CanRearm(h)
    <3>1. /\ r \in Handle
          /\ r.frameBufferAddr = h.frameBufferAddr
          /\ r.frameBufferQueue = h.frameBufferQueue
          /\ r.emptyBufferCnt = h.emptyBufferCnt - 1
          /\ r.queueReadIdx = h.queueReadIdx
          /\ r.queueWriteIdx = h.queueWriteIdx
          /\ r.activeBufferNum = h.activeBufferNum + 1
          /\ r.transferStarted = h.transferStarted
      BY <1>1, <1>2, <2>1, RearmHandleFields
    <3>2. h.activeBufferNum = 1 /\ h.emptyBufferCnt > 0
      BY <1>1, <2>1 DEF CanRearm, CSI_MAX_ACTIVE_FRAME_NUM
    <3>3. /\ top \in EmptyOf(h) /\ top \in Buffer
          /\ EmptyOnce(r) /\ EmptyOf(r) = EmptyOf(h) \ {top}
      BY <1>1, <3>1, <3>2, EmptyShrinks
    <3>4. fb' = [fb EXCEPT ![idx] = top]
      BY <1>2, <2>1 DEF RearmRegisters
    <3> HIDE DEF top
    <3>5. /\ fb'[idx] = top /\ fb'[1 - idx] = fb[1 - idx]
          /\ fb' \in [0 .. 1 -> Address]
          /\ fb[1 - idx] \in Buffer
      BY <1>3, <1>4, <3>3, <3>4 DEF Address
    <3>6. {fb'[0], fb'[1]} = {fb[1 - idx], top}
      BY <1>3, <3>5
    <3>7. top # fb[1 - idx]
      BY <1>1, <3>2, <3>3 DEF Disjoint
    <3>8. fb'[0] # fb'[1] /\ fb'[0] \in Buffer /\ fb'[1] \in Buffer
      BY <1>3, <3>3, <3>5, <3>7
    <3>9. Disjoint(EmptyOf(r), {fb[1 - idx], top}, FullOf(h), owned)
      BY <1>1, <3>2, <3>3 DEF Disjoint
    <3>10. A = {fb[1 - idx]} /\ {fb[1 - idx], top} = A \cup {top}
      BY <3>2
    <3> HIDE DEF A
    <3> QED BY <1>1, <3>1, <3>2, <3>3, <3>5, <3>6, <3>8, <3>9, <3>10
  <2>2. CASE ~CanRearm(h) /\ h.activeBufferNum = 1
    <3>1. r = h
      BY <1>2, <2>2 DEF RearmHandle
    <3>2. fb' = [fb EXCEPT ![idx] = fb[1 - idx]]
      BY <1>2, <2>2 DEF RearmRegisters, CSI_MAX_ACTIVE_FRAME_NUM
    <3>3. /\ fb'[0] = fb[1 - idx] /\ fb'[1] = fb[1 - idx]
          /\ fb' \in [0 .. 1 -> Address]
          /\ fb[1 - idx] \in Buffer
      BY <1>3, <1>4, <3>2
    <3>4. EmptyOf(h) = {}
      <4>1. h.emptyBufferCnt = 0
        BY <1>1, <2>2, SlotFacts
           DEF CanRearm, CSI_MAX_ACTIVE_FRAME_NUM, Handle
      <4>2. EmptySlots(h) = {}
        BY <4>1 DEF EmptySlots, Slot
      <4> QED BY <4>2 DEF EmptyOf
    <3>5. A = {fb[1 - idx]} /\ {fb'[0], fb'[1]} = A
      BY <2>2, <3>3
    <3>6. Disjoint(EmptyOf(r), {fb'[0], fb'[1]}, FullOf(h), owned)
      BY <1>1, <3>1, <3>5
    <3>7. fb'[1 - idx] = fb[1 - idx] /\ fb'[0] = fb'[1]
      BY <1>3, <3>3
    <3> HIDE DEF A
    <3> QED BY <1>1, <2>2, <3>1, <3>3, <3>4, <3>5, <3>6, <3>7
  <2>3. CASE h.activeBufferNum = 2
    <3>1. ~CanRearm(h)
      BY <2>3 DEF CanRearm, CSI_MAX_ACTIVE_FRAME_NUM
    <3>2. r = h /\ fb' = fb
      BY <1>2, <1>3, <1>4, <2>3, <3>1
         DEF RearmHandle, RearmRegisters, CSI_MAX_ACTIVE_FRAME_NUM
    <3> QED BY <1>1, <1>3, <1>4, <2>3, <3>2
  <2> QED BY <1>1, <2>1, <2>2, <2>3
<1>6. /\ FullOnce(r) /\ FullOf(r) = FullOf(h)
      /\ HasFullBuffer(r) = HasFullBuffer(h)
  BY <1>1, <1>5, FullSame
<1>7. TypeOK'
  BY <1>2, <1>5 DEF IInv, TypeOK, CsiTypeOK, Register
<1>8. PhaseInv'
  <2>1. pc \in {"idle", "get"}
    BY AtFrameDone DEF IInv, TypeOK, PhaseInv
  <2>2. r.transferStarted = handle.transferStarted
    BY <1>1, <1>3, <1>5, Types DEF IInv, Handle
  <2> QED BY <1>1, <1>2, <1>6, <2>1, <2>2 DEF IInv, PhaseInv
<1>9. PlacesInv'
  BY <1>2, <1>5, <1>6 DEF PlacesInv, ActiveInv, ActiveBuffers
<1>10. FrameInv'
  BY <1>2, <1>3, <1>5 DEF IInv, FrameInv
<1>11. QueueInv'
  <2>1. FullSlots(r) = FullSlots(h)
    BY <1>5 DEF FullSlots
  <2>2. lastGot <= completed
    BY DEF IInv, QueueInv
  <2> QED BY <1>1, <1>2, <1>5, <2>1, <2>2 DEF Ordered, QueueInv
<1> QED
  BY <1>5, <1>6, <1>7, <1>8, <1>9, <1>10, <1>11 DEF IInv, StillActive, h
-----------------------------------------------------------------------------
(* The theorems. *)

LEMMA NextKeepsIInv ==
  ASSUME BuffersFit
  PROVE  IInv /\ [Next]_vars => IInv'
<1> SUFFICES ASSUME IInv, [Next]_vars PROVE IInv'
  OBVIOUS
<1>1. CASE App
  BY <1>1, SubmitKeepsIInv, SubmitStoreKeepsIInv, SubmitCountKeepsIInv,
     GetKeepsIInv, GetTakeKeepsIInv, StartKeepsIInv, StopKeepsIInv DEF App
<1>2. CASE Camera
  BY <1>2, FrameBeginsKeepsIInv, LineArrivesKeepsIInv DEF Camera
<1>3. CASE Interrupt
  BY <1>3, SkipKeepsIInv, FrameDoneKeepsIInv DEF Interrupt
<1>4. CASE UNCHANGED vars
  <2> USE <1>4 DEF vars, csiVars, appVars
  <2>1. TypeOK' /\ PhaseInv'
    BY DEF IInv, TypeOK, CsiTypeOK, PhaseInv
  <2> QED BY <2>1, PlacesSame, FramesSame, QueueSame DEF IInv
<1> QED BY <1>1, <1>2, <1>3, <1>4 DEF Next

LEMMA Invariance ==
  ASSUME BuffersFit
  PROVE  Spec => []IInv
<1> QED BY InitIInv, NextKeepsIInv, PTL DEF Spec

\* The handle's indices and counts stay in their arrays: in particular the
\* unchecked store of CSI_TransferPutEmptyBuffer is never past the end of
\* frameBufferAddr, from the application or from CSI_TransferStop.
THEOREM TypeCorrect ==
  ASSUME BuffersFit
  PROVE  Spec => []TypeOK
<1>1. IInv => TypeOK
  BY DEF IInv
<1> QED BY <1>1, Invariance, PTL

\* The DMA never writes a buffer that waits in the full queue or that the
\* application has taken, however late the interrupt handler runs.
THEOREM DmaStaysOut ==
  ASSUME BuffersFit
  PROVE  Spec => []DmaKeepsOut
<1>1. IInv => DmaKeepsOut
  <2> SUFFICES ASSUME IInv, handle.transferStarted, line > 0
               PROVE  dmaBuf \notin FullBuffers \cup owned
    BY DEF DmaKeepsOut
  <2>1. dmaBuf = fb[dmaIdx] /\ (dmaIdx = 0 \/ dmaIdx = 1)
    BY Types DEF IInv, FrameInv, Register
  <2>2. dmaBuf \in ActiveBuffers
    BY <2>1 DEF ActiveBuffers
  <2> QED
    BY <2>2 DEF IInv, PlacesInv, Disjoint, FullBuffers, FullOf
<1> QED BY <1>1, Invariance, PTL

\* Every buffer in the full queue is one whole frame, newer than the one before
\* it and than what the application took last.
THEOREM FramesInOrder ==
  ASSUME BuffersFit
  PROVE  Spec => []QueueInOrder
<1>1. IInv => QueueInOrder
  <2> SUFFICES ASSUME IInv, NEW s \in FullSlots(handle)
               PROVE  LET full == handle.frameBufferQueue[s]
                          later == {t \in FullSlots(handle) :
                                      GetQueueDelta(handle.queueReadIdx, t)
                                        > GetQueueDelta(handle.queueReadIdx, s)}
                      IN  /\ \A l \in Line : mem[full][l] = mem[full][1]
                          /\ mem[full][1] > lastGot
                          /\ \A t \in later :
                               mem[handle.frameBufferQueue[t]][1] > mem[full][1]
    BY DEF QueueInOrder
  <2>1. \A t \in FullSlots(handle) : mem[handle.frameBufferQueue[t]][1] \in Nat
    BY Types DEF IInv, PlacesInv, FullOnce
  <2>2. lastGot \in Nat
    BY Types DEF IInv
  <2>3. \A t \in FullSlots(handle) : GetQueueDelta(handle.queueReadIdx, t) \in Int
    BY SMTT(20), SlotFacts, Types
       DEF IInv, Handle, GetQueueDelta, FullSlots, Slot
  <2> QED BY <2>1, <2>2, <2>3 DEF IInv, QueueInv
<1> QED BY <1>1, Invariance, PTL

\* The images of the empty and of the full slots are as many as the slots.
LEMMA ImageSize ==
  ASSUME BuffersFit, NEW S, NEW f,
         \A s \in S : f[s] \in Buffer,
         \A s, t \in S : f[s] = f[t] => s = t
  PROVE  LET T == {f[s] : s \in S}
         IN  /\ IsFiniteSet(T)
             /\ Cardinality(T) = Cardinality(S)
<1> DEFINE T == {f[s] : s \in S}
           g == [s \in S |-> f[s]]
<1>1. IsFiniteSet(T)
  <2>1. T \in SUBSET Buffer
    OBVIOUS
  <2> HIDE DEF T
  <2> QED BY <2>1, FS_Subset DEF BuffersFit
<1>2. g \in Injection(S, T)
  BY DEF Injection, IsInjective
<1>3. g \in Surjection(S, T)
  BY DEF Surjection
<1> HIDE DEF T, g
<1>4. Cardinality(S) = Cardinality(T)
  BY <1>1, <1>2, <1>3, FS_Injection
<1> QED BY <1>1, <1>4 DEF T

LEMMA UnionSize ==
  ASSUME NEW S, NEW T, IsFiniteSet(S), IsFiniteSet(T), S \cap T = {}
  PROVE  /\ IsFiniteSet(S \cup T)
         /\ Cardinality(S \cup T) = Cardinality(S) + Cardinality(T)
<1>1. Cardinality(S) \in Nat /\ Cardinality(T) \in Nat
  BY FS_CardinalityType
<1>2. Cardinality(S \cup T) = Cardinality(S) + Cardinality(T) - 0
  BY FS_Union, FS_EmptySet
<1>3. IsFiniteSet(S \cup T)
  BY FS_Union
<1>4. \A m, n, k \in Nat : m + n - 0 = m + n
  OBVIOUS
<1> QED BY <1>1, <1>2, <1>3, <1>4

\* The sizes of four places that share no buffer add up.
LEMMA SumOfPlaces ==
  ASSUME BuffersFit, NEW E, NEW A, NEW F, NEW O, Disjoint(E, A, F, O)
  PROVE  Cardinality(E) + Cardinality(F) + Cardinality(A) + Cardinality(O)
           = Cardinality(Buffer)
<1>1. /\ IsFiniteSet(E) /\ IsFiniteSet(A) /\ IsFiniteSet(F) /\ IsFiniteSet(O)
  <2>1. /\ E \in SUBSET Buffer /\ A \in SUBSET Buffer
        /\ F \in SUBSET Buffer /\ O \in SUBSET Buffer
    BY DEF Disjoint
  <2> QED BY <2>1, FS_Subset DEF BuffersFit
<1>2. /\ E \cap F = {} /\ (E \cup F) \cap A = {}
      /\ (E \cup F \cup A) \cap O = {}
      /\ E \cup F \cup A \cup O = Buffer
  BY DEF Disjoint
<1>3. /\ IsFiniteSet(E \cup F)
      /\ Cardinality(E \cup F) = Cardinality(E) + Cardinality(F)
  BY <1>1, <1>2, UnionSize
<1>4. /\ IsFiniteSet(E \cup F \cup A)
      /\ Cardinality(E \cup F \cup A) = Cardinality(E \cup F) + Cardinality(A)
  BY <1>1, <1>2, <1>3, UnionSize
<1>5. Cardinality(E \cup F \cup A \cup O)
        = Cardinality(E \cup F \cup A) + Cardinality(O)
  BY <1>1, <1>2, <1>4, UnionSize
<1> QED BY <1>2, <1>3, <1>4, <1>5

\* Every buffer the application registered is in exactly one place, and the
\* counts of the handle tell how many are in each.
THEOREM NoBufferIsLost ==
  ASSUME BuffersFit
  PROVE  Spec => []BuffersConserved
<1>1. IInv => BuffersConserved
  <2> SUFFICES ASSUME IInv PROVE BuffersConserved
    OBVIOUS
  <2> DEFINE E == EmptyOf(handle)
             F == FullOf(handle)
  <2>1. /\ Disjoint(E, ActiveBuffers, F, owned)
        /\ EmptyOnce(handle) /\ FullOnce(handle) /\ ActiveInv
    BY DEF IInv, PlacesInv
  <2>2. Cardinality(E) = handle.emptyBufferCnt
    <3>1. Cardinality(E) = Cardinality(EmptySlots(handle))
      <4> DEFINE f == handle.frameBufferAddr
                 S == EmptySlots(handle)
      <4>1. /\ \A s \in S : f[s] \in Buffer
            /\ \A s, t \in S : f[s] = f[t] => s = t
        BY <2>1 DEF EmptyOnce
      <4>2. E = {f[s] : s \in S}
        BY DEF EmptyOf
      <4> HIDE DEF f, S, E
      <4>3. Cardinality(E) = Cardinality(S)
        BY <4>1, <4>2, ImageSize
      <4> QED BY <4>3 DEF S
    <3>2. /\ handle.emptyBufferCnt \in Nat
          /\ EmptySlots(handle) = 0 .. handle.emptyBufferCnt - 1
      BY Types, SlotFacts DEF IInv, EmptySlots, Slot, Handle
    <3>3. Cardinality(EmptySlots(handle)) = handle.emptyBufferCnt
      BY <3>2, FS_Interval
    <3> QED BY <3>1, <3>3
  <2>3. Cardinality(F) = Cardinality(FullSlots(handle))
    <3> DEFINE f == handle.frameBufferQueue
               S == FullSlots(handle)
    <3>1. /\ \A s \in S : f[s] \in Buffer
          /\ \A s, t \in S : f[s] = f[t] => s = t
      BY <2>1 DEF FullOnce
    <3>2. F = {f[s] : s \in S}
      BY DEF FullOf
    <3> HIDE DEF f, S, F
    <3>3. Cardinality(F) = Cardinality(S)
      BY <3>1, <3>2, ImageSize
    <3> QED BY <3>3 DEF S
  <2>4. Cardinality(ActiveBuffers) = handle.activeBufferNum
    <3>1. CASE ~handle.transferStarted
      BY <2>1, <3>1, FS_EmptySet DEF ActiveInv, ActiveBuffers
    <3>2. CASE handle.transferStarted
      <4>1. ActiveBuffers = {fb[0]} \cup {fb[1]}
        BY <3>2 DEF ActiveBuffers
      <4>2. IsFiniteSet({fb[0]}) /\ Cardinality({fb[0]}) = 1
        BY FS_Singleton
      <4>3. Cardinality({fb[0]} \cup {fb[1]})
              = IF fb[1] \in {fb[0]} THEN 1 ELSE 1 + 1
        BY <4>2, FS_AddElement
      <4> QED BY <2>1, <3>2, <4>1, <4>3 DEF ActiveInv
    <3> QED BY <3>1, <3>2
  <2>5. E = EmptyBuffers /\ F = FullBuffers
    BY DEF EmptyOf, FullOf, EmptyBuffers, FullBuffers
  <2> HIDE DEF E, F
  <2>6. Cardinality(E) + Cardinality(F) + Cardinality(ActiveBuffers)
          + Cardinality(owned) = Cardinality(Buffer)
    BY <2>1, SumOfPlaces
  <2>7. E \cup ActiveBuffers \cup F \cup owned = Buffer
    BY <2>1 DEF Disjoint
  <2> QED BY <2>2, <2>3, <2>4, <2>5, <2>6, <2>7 DEF BuffersConserved
<1> QED BY <1>1, Invariance, PTL

-----------------------------------------------------------------------------
(* The driver implements the frame queue. *)

FrameIn(b) == [buffer |-> b, frame |-> mem[b][1]]

\* The mapped variables, from the handle's sets; with the full buffers not
\* written to, the full frames follow them.
LEMMA MappedQueue ==
  /\ EmptyBuffers = EmptyOf(handle) /\ EmptyBuffers' = EmptyOf(handle')
  /\ FullFrames = {FrameIn(b) : b \in FullOf(handle)}
  /\ FullFrames' = {[buffer |-> b, frame |-> mem'[b][1]] : b \in FullOf(handle')}
  BY DEF EmptyBuffers, EmptyOf, FullFrames, FullBuffers, FullOf, FrameIn

LEMMA FullFramesSame ==
  ASSUME FullOf(handle') = FullOf(handle),
         \A b \in FullOf(handle) : mem'[b] = mem[b]
  PROVE  FullFrames' = FullFrames
  BY MappedQueue DEF FrameIn

\* No more frames are kept than the queue's indices are apart.
LEMMA FullFramesCount ==
  ASSUME IInv, HasQueueRoom(handle)
  PROVE  Cardinality(FullFrames) < CSI_DRIVER_QUEUE_SIZE
<1> DEFINE r == handle.queueReadIdx
           d == GetQueueDelta(r, handle.queueWriteIdx)
           S == FullSlots(handle)
           place == [s \in S |-> GetQueueDelta(r, s)]
           q == handle.frameBufferQueue
           held == [s \in S |-> FrameIn(q[s])]
<1>1. /\ handle \in Handle /\ r \in Slot /\ handle.queueWriteIdx \in Slot
      /\ S \subseteq Slot
  BY Types DEF IInv, Handle, FullSlots
<1>2. d \in Nat /\ d < CSI_DRIVER_QUEUE_SIZE
  BY <1>1, SlotFacts, QueueAssumption DEF HasQueueRoom, GetQueueDelta, Slot
<1>3. place \in Injection(S, 0 .. d - 1)
  <2>1. \A s \in S : GetQueueDelta(r, s) \in 0 .. d - 1
    BY <1>1, <1>2, SlotFacts DEF FullSlots, GetQueueDelta, Slot
  <2>2. \A s, t \in S : GetQueueDelta(r, s) = GetQueueDelta(r, t) => s = t
    BY <1>1, SlotFacts DEF GetQueueDelta, Slot
  <2> QED BY <2>1, <2>2 DEF Injection, IsInjective
<1>4. held \in Surjection(S, FullFrames)
  <2>1. FullFrames = {FrameIn(q[s]) : s \in S}
    BY MappedQueue DEF FullOf
  <2> HIDE DEF S
  <2> QED BY <2>1 DEF Surjection
<1> HIDE DEF d, place, held, S
<1>5. IsFiniteSet(0 .. d - 1) /\ Cardinality(0 .. d - 1) = d
  BY <1>2, FS_Interval
<1>6. IsFiniteSet(S) /\ Cardinality(S) <= d
  BY <1>3, <1>5, FS_Injection
<1>7. IsFiniteSet(FullFrames) /\ Cardinality(FullFrames) <= Cardinality(S)
  BY <1>4, <1>6, FS_Surjection
<1>8. Cardinality(S) \in Nat /\ Cardinality(FullFrames) \in Nat
  BY <1>6, <1>7, FS_CardinalityType
<1> QED BY <1>2, <1>6, <1>7, <1>8, QueueAssumption

\* GetTake takes the oldest frame.
LEMMA GetTakeIsTake ==
  ASSUME IInv, GetTake
  PROVE  /\ FrameIn(buffer') \in FullFrames
         /\ Queue!Take(FrameIn(buffer'))
<1> DEFINE r == handle.queueReadIdx
           q == handle.frameBufferQueue
           b == buffer'
<1>1. /\ FullOf(handle') = FullOf(handle) \ {b}
      /\ EmptyOf(handle') = EmptyOf(handle)
      /\ r \in FullSlots(handle) /\ b = q[r]
      /\ owned' = owned \cup {b} /\ lastGot' = mem[b][1]
  BY GetTakeKeepsIInv
<1>2. UNCHANGED <<fb, mem>> /\ handle'.transferStarted = handle.transferStarted
  BY DropFullBufferFields, Types
     DEF IInv, GetTake, hardwareVars, PhaseInv
<1>3. r \in Slot /\ handle.queueWriteIdx \in Slot /\ r # handle.queueWriteIdx
  BY Types DEF IInv, Handle, PhaseInv, HasFullBuffer, GetTake
<1>4. lastGot < mem[b][1]
  BY <1>1 DEF IInv, QueueInv
<1>5. \A s \in FullSlots(handle) : q[s] # b => mem[b][1] < mem[q[s]][1]
  <2> SUFFICES ASSUME NEW s \in FullSlots(handle), s # r
               PROVE  mem[b][1] < mem[q[s]][1]
    BY <1>1
  <2>1. GetQueueDelta(r, r) < GetQueueDelta(r, s)
    BY <1>3, QueueShrinks DEF FullSlots
  <2> QED BY <1>1, <2>1 DEF IInv, QueueInv
<1> HIDE DEF b
<1>6. FrameIn(b) \in FullFrames
  BY <1>1, MappedQueue DEF FullOf
<1>7. \A g \in FullFrames : g # FrameIn(b) => FrameIn(b).frame < g.frame
  BY <1>5, MappedQueue DEF FrameIn, FullOf
<1>8. FullFrames' = FullFrames \ {FrameIn(b)}
  BY <1>1, <1>2, MappedQueue DEF FrameIn
<1>9. FrameIn(b).buffer = b /\ FrameIn(b).frame = mem[b][1]
  BY DEF FrameIn
<1>10. EmptyBuffers' = EmptyBuffers /\ ActiveBuffers' = ActiveBuffers
  BY <1>1, <1>2, MappedQueue DEF ActiveBuffers
<1> QED
  BY <1>1, <1>4, <1>6, <1>7, <1>8, <1>9, <1>10 DEF Queue!Take, Queue!Oldest, b

\* A frame that can be queued is delivered; without room, or with one active
\* buffer, the handler looks for a second buffer or does nothing.
LEMMA FrameDoneIsDeliver ==
  ASSUME IInv, NEW idx \in Register, FrameDone(idx), CanQueueFrame(handle)
  PROVE  Queue!Deliver(fb[idx], completed)
<1> DEFINE h == Queued(idx)
           b == fb[idx]
<1>1. /\ handle.activeBufferNum = 2 /\ HasQueueRoom(handle)
      /\ handle.transferStarted
      /\ idx = 0 \/ idx = 1
      /\ fb[0] # fb[1] /\ fb[0] \in Buffer /\ fb[1] \in Buffer
      /\ sr = {idx} /\ UNCHANGED <<mem, owned, lastGot>>
  BY AtFrameDone
     DEF CanQueueFrame, CSI_MAX_ACTIVE_FRAME_NUM, FrameDone, QueueAndRearm, appVars
<1>2. /\ EmptyOf(h) = EmptyOf(handle)
      /\ FullOf(h) = FullOf(handle) \cup {b}
      /\ h.activeBufferNum = 1
  <2>1. h.activeBufferNum = handle.activeBufferNum - 1
    BY Types, PutFullBufferFields DEF IInv, Queued, PutFullBuffer, Handle
  <2> QED BY <1>1, <2>1, QueuedPlaces
<1>3. StillActive(idx) = {fb[1 - idx]}
  BY <1>2 DEF StillActive
<1> HIDE DEF h
<1>4. /\ FullOf(handle') = FullOf(handle) \cup {b}
      /\ handle'.transferStarted
      /\ \/ /\ EmptyOf(handle) = {} /\ EmptyOf(handle') = EmptyOf(handle)
            /\ {fb'[0], fb'[1]} = {fb[1 - idx]}
         \/ \E top \in EmptyOf(handle) :
              /\ EmptyOf(handle') = EmptyOf(handle) \ {top}
              /\ {fb'[0], fb'[1]} = {fb[1 - idx]} \cup {top}
  BY <1>2, <1>3, FrameDoneKeepsIInv DEF h
<1>5. /\ ActiveBuffers = {fb[0], fb[1]} /\ ActiveBuffers' = {fb'[0], fb'[1]}
      /\ ActiveBuffers \ {b} = {fb[1 - idx]}
      /\ b \in ActiveBuffers /\ ActiveBuffers # {b}
  BY <1>1, <1>4 DEF ActiveBuffers
<1>6. Queue!FillUp(ActiveBuffers \ {b})
  BY <1>4, <1>5, MappedQueue DEF Queue!FillUp
<1>7. Queue!Cardinality(FullFrames) < CSI_DRIVER_QUEUE_SIZE
  <2>1. Queue!Cardinality(FullFrames) = Cardinality(FullFrames)
    BY DEF Queue!Cardinality, Cardinality
  <2> QED BY <1>1, <2>1, FullFramesCount
<1>8. mem[b][1] = completed
  BY <1>1, Types DEF IInv, FrameInv
<1>9. lastGot < completed /\ \A g \in FullFrames : g.frame < completed
  <2>1. \A s \in FullSlots(handle) : mem[handle.frameBufferQueue[s]][1] < completed
    BY <1>1 DEF IInv, QueueInv
  <2>2. lastGot < completed
    BY <1>1 DEF IInv, QueueInv
  <2> QED BY <2>1, <2>2, MappedQueue DEF FrameIn, FullOf
<1>10. FullFrames' = FullFrames \cup {[buffer |-> b, frame |-> completed]}
  BY <1>1, <1>4, <1>8, MappedQueue DEF FrameIn
<1> HIDE DEF b
<1> QED
  BY <1>1, <1>5, <1>6, <1>7, <1>9, <1>10 DEF Queue!Deliver, b

LEMMA FrameDoneIsRefill ==
  ASSUME IInv, NEW idx \in Register, FrameDone(idx), ~CanQueueFrame(handle)
  PROVE  \/ fb[1 - idx] \in Buffer /\ Queue!Refill(fb[1 - idx])
         \/ UNCHANGED Queue!frameQueue
<1>1. /\ handle.transferStarted /\ handle'.transferStarted
      /\ idx = 0 \/ idx = 1
      /\ fb[0] \in Buffer /\ fb[1] \in Buffer
      /\ handle.activeBufferNum = IF fb[0] = fb[1] THEN 1 ELSE 2
      /\ UNCHANGED <<mem, owned, lastGot>>
  BY AtFrameDone, FrameDoneKeepsIInv DEF FrameDone, QueueAndRearm, appVars
<1>2. Queued(idx) = handle
  BY DEF Queued
<1>3. /\ FullOf(handle') = FullOf(handle)
      /\ \/ /\ EmptyOf(handle') = EmptyOf(handle)
            /\ {fb'[0], fb'[1]} = StillActive(idx)
         \/ /\ handle.activeBufferNum = 1
            /\ \E top \in EmptyOf(handle) :
                 /\ EmptyOf(handle') = EmptyOf(handle) \ {top}
                 /\ {fb'[0], fb'[1]} = StillActive(idx) \cup {top}
  BY <1>2, FrameDoneKeepsIInv
<1>4. FullFrames' = FullFrames
  BY <1>1, <1>3, FullFramesSame
<1>5. ActiveBuffers = {fb[0], fb[1]} /\ ActiveBuffers' = {fb'[0], fb'[1]}
  BY <1>1 DEF ActiveBuffers
<1>6. StillActive(idx) = ActiveBuffers
  BY <1>1, <1>2, <1>5 DEF StillActive
<1>7. handle.activeBufferNum = 1 => ActiveBuffers = {fb[1 - idx]}
  BY <1>1, <1>5
<1>8. CASE EmptyOf(handle') = EmptyOf(handle) /\ ActiveBuffers' = ActiveBuffers
  BY <1>1, <1>4, <1>8, MappedQueue DEF Queue!frameQueue
<1>9. CASE /\ handle.activeBufferNum = 1
           /\ \E top \in EmptyOf(handle) :
                /\ EmptyOf(handle') = EmptyOf(handle) \ {top}
                /\ ActiveBuffers' = ActiveBuffers \cup {top}
  BY <1>1, <1>4, <1>7, <1>9, MappedQueue DEF Queue!Refill, Queue!FillUp
<1> QED BY <1>3, <1>5, <1>6, <1>8, <1>9

\* With its slots, indices, counts and registers the driver does what the frame
\* queue promises: buffers go round, one place at a time, and frames come out
\* in order and once, under every interleaving with the interrupt.
THEOREM ImplementsFrameQueue ==
  ASSUME BuffersFit
  PROVE  Spec => FrameQueueSpec
<1>1. Init => Queue!Init
  <2> SUFFICES ASSUME Init PROVE Queue!Init
    OBVIOUS
  <2>1. /\ handle.emptyBufferCnt = 0 /\ ~handle.transferStarted
        /\ handle.queueReadIdx = 0 /\ handle.queueWriteIdx = 0
    BY DEF Init, CreateHandle
  <2>2. EmptySlots(handle) = {} /\ FullSlots(handle) = {}
    BY <2>1, SlotFacts DEF EmptySlots, FullSlots, GetQueueDelta, Slot
  <2>3. EmptyBuffers = {} /\ ActiveBuffers = {} /\ FullFrames = {}
    BY <2>1, <2>2 DEF EmptyBuffers, ActiveBuffers, FullFrames, FullBuffers
  <2> QED BY <2>3 DEF Init, Queue!Init
<1>2. IInv /\ [Next]_vars => [Queue!Next]_(Queue!frameQueue)
  <2> SUFFICES ASSUME IInv, [Next]_vars
               PROVE  Queue!Next \/ UNCHANGED Queue!frameQueue
    OBVIOUS
  <2>1. ASSUME UNCHANGED <<handle, fb, mem, owned, lastGot>>
        PROVE  UNCHANGED Queue!frameQueue
    BY <2>1 DEF Queue!frameQueue, EmptyBuffers, ActiveBuffers, FullFrames,
                FullBuffers
  <2>2. CASE \/ \E b \in Buffer : SubmitEmptyBuffer(b)
             \/ GetFullBuffer \/ GetDisable \/ SkipFrames \/ UNCHANGED vars
    BY <2>1, <2>2 DEF SubmitEmptyBuffer, GetFullBuffer, GetDisable, SkipFrames,
                      vars, csiVars, appVars
  <2>3. CASE SubmitStore
    <3>1. EmptyOf(handle') = EmptyOf(handle) /\ FullOf(handle') = FullOf(handle)
      BY <2>3, SubmitStoreKeepsIInv
    <3>2. /\ UNCHANGED <<fb, mem, owned, lastGot>>
          /\ handle'.transferStarted = handle.transferStarted
      BY <2>3, Types DEF IInv, SubmitStore, hardwareVars, StoreEmptyBuffer, Handle
    <3> QED
      BY <3>1, <3>2, MappedQueue, FullFramesSame
         DEF Queue!frameQueue, ActiveBuffers
  <2>4. CASE SubmitCount
    <3>1. /\ EmptyOf(handle') = EmptyOf(handle) \cup {buffer}
          /\ FullOf(handle') = FullOf(handle)
          /\ buffer \in owned /\ buffer \in Buffer
      BY <2>4, SubmitCountKeepsIInv, Types DEF IInv
    <3>2. /\ UNCHANGED <<fb, mem, lastGot>> /\ owned' = owned \ {buffer}
          /\ handle'.transferStarted = handle.transferStarted
      BY <2>4, Types DEF IInv, SubmitCount, hardwareVars, CountEmptyBuffer, Handle
    <3>3. FullFrames' = FullFrames /\ ActiveBuffers' = ActiveBuffers
      BY <3>1, <3>2, FullFramesSame DEF ActiveBuffers
    <3>4. Queue!Submit(buffer)
      BY <3>1, <3>2, <3>3, MappedQueue DEF Queue!Submit
    <3> QED BY <3>1, <3>4 DEF Queue!Next
  <2>5. CASE GetTake
    BY <2>5, GetTakeIsTake DEF Queue!Next
  <2>6. CASE Start
    <3>1. /\ fb'[0] \in EmptyOf(handle) /\ fb'[1] \in EmptyOf(handle)
          /\ fb'[0] # fb'[1]
          /\ EmptyOf(handle') = EmptyOf(handle) \ {fb'[0], fb'[1]}
          /\ FullOf(handle') = FullOf(handle)
          /\ ~handle.transferStarted /\ handle'.transferStarted
      BY <2>6, StartKeepsIInv
    <3>2. UNCHANGED <<mem, owned, lastGot>>
      BY <2>6 DEF Start
    <3>3. /\ ActiveBuffers = {} /\ ActiveBuffers' = {fb'[0], fb'[1]}
          /\ FullFrames' = FullFrames
      BY <3>1, <3>2, FullFramesSame DEF ActiveBuffers
    <3>4. fb'[0] \in Buffer /\ fb'[1] \in Buffer
      BY <3>1 DEF IInv, PlacesInv, Disjoint
    <3>5. Queue!Start(fb'[0], fb'[1])
      BY <3>1, <3>2, <3>3, MappedQueue DEF Queue!Start
    <3> QED BY <3>4, <3>5 DEF Queue!Next
  <2>7. CASE Stop
    <3>1. /\ EmptyOf(handle') = EmptyOf(handle) \cup {fb[0], fb[1]}
          /\ FullOf(handle') = FullOf(handle)
          /\ handle.transferStarted /\ ~handle'.transferStarted
      BY <2>7, StopKeepsIInv
    <3>2. UNCHANGED <<mem, owned, lastGot>>
      BY <2>7 DEF Stop
    <3>3. /\ ActiveBuffers = {fb[0], fb[1]} /\ ActiveBuffers' = {}
          /\ FullFrames' = FullFrames
      BY <3>1, <3>2, FullFramesSame DEF ActiveBuffers
    <3> QED
      BY <3>1, <3>2, <3>3, MappedQueue DEF Queue!Stop, Queue!Next
  <2>8. CASE Camera
    <3>1. \A b \in FullOf(handle) : mem'[b] = mem[b]
      BY <2>8, FrameBeginsKeepsIInv, LineArrivesKeepsIInv DEF Camera
    <3>2. UNCHANGED <<handle, fb, owned, lastGot>>
      BY <2>8 DEF Camera, FrameBegins, LineArrives, appVars
    <3>3. FullFrames' = FullFrames
      BY <3>1, <3>2, FullFramesSame
    <3> QED
      BY <3>2, <3>3 DEF Queue!frameQueue, EmptyBuffers, ActiveBuffers
  <2>9. ASSUME NEW idx \in Register, FrameDone(idx)
        PROVE  Queue!Next \/ UNCHANGED Queue!frameQueue
    <3>1. fb[idx] \in Buffer /\ completed \in Frame
      BY <2>9, AtFrameDone DEF IInv, TypeOK, CsiTypeOK
    <3> QED
      BY <2>9, <3>1, FrameDoneIsDeliver, FrameDoneIsRefill DEF Queue!Next
  <2> QED
    BY <2>2, <2>3, <2>4, <2>5, <2>6, <2>7, <2>8, <2>9
       DEF Next, App, Interrupt
<1> QED
  BY <1>1, <1>2, Invariance, PTL DEF Spec, FrameQueueSpec, Queue!Spec
=============================================================================
