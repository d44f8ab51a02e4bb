----------------------------- MODULE CsiTransfer -----------------------------
(***************************************************************************)
(* The CSI driver's transactional interface used by an application that    *)
(* polls: it submits empty buffers, starts and stops the transfer, takes   *)
(* full buffers and hands them back, with no callback.  The interrupt      *)
(* handler preempts it wherever the DMA-done interrupts are enabled, which *)
(* the driver's critical sections turn off in CSICR1.                      *)
(***************************************************************************)
EXTENDS CsiController, FiniteSets

VARIABLES
  owned,   \* the buffers in the application's hands
  irqOn,   \* the DMA-done interrupt enables of CSICR1
  csicr1,  \* their value saved by a critical section
  pc,      \* where the application is in a driver call
  buffer,  \* the argument or the result of that call
  lastGot  \* number of the frame the application took last

appVars == <<owned, irqOn, csicr1, pc, buffer, lastGot>>
vars == <<csiVars, appVars>>

Init ==
  /\ HardwareInit
  /\ handle = CreateHandle
  /\ fb = [i \in Register |-> NoBuffer]
  /\ owned = Buffer
  /\ irqOn = FALSE
  /\ csicr1 = FALSE
  /\ pc = "idle"
  /\ buffer = NoBuffer
  /\ lastGot = 0

hardwareVars == <<fb, sr, dmaIdx, dmaBuf, line, frame, completed, mem>>

\* The application runs unless an enabled interrupt is pending.
AppRuns == irqOn => sr = {}

Disable == csicr1' = irqOn /\ irqOn' = FALSE
Restore == irqOn' = csicr1 /\ UNCHANGED csicr1

-----------------------------------------------------------------------------
(* CSI_TransferSubmitEmptyBuffer. *)

\* Mutant: the critical section is missing.
SubmitEmptyBufferUnprotected(b) ==
  /\ AppRuns /\ pc = "idle" /\ b \in owned
  /\ pc' = "store"
  /\ buffer' = b
  /\ csicr1' = irqOn
  /\ UNCHANGED <<csiVars, owned, irqOn, lastGot>>

SubmitEmptyBuffer(b) ==
  /\ AppRuns /\ pc = "idle" /\ b \in owned
  /\ Disable
  /\ pc' = "store"
  /\ buffer' = b
  /\ UNCHANGED <<csiVars, owned, lastGot>>

SubmitStore ==
  /\ AppRuns /\ pc = "store"
  /\ handle' = StoreEmptyBuffer(handle, buffer)
  /\ pc' = "count"
  /\ UNCHANGED <<hardwareVars, owned, irqOn, csicr1, buffer, lastGot>>

SubmitCount ==
  /\ AppRuns /\ pc = "count"
  /\ handle' = CountEmptyBuffer(handle)
  /\ owned' = owned \ {buffer}
  /\ Restore
  /\ pc' = "idle"
  /\ UNCHANGED <<hardwareVars, buffer, lastGot>>

-----------------------------------------------------------------------------
(* CSI_TransferGetFullBuffer: the emptiness test is outside the critical   *)
(* section.                                                                *)

GetFullBuffer ==
  /\ AppRuns /\ pc = "idle"
  /\ HasFullBuffer(handle)
  /\ pc' = "get"
  /\ UNCHANGED <<csiVars, owned, irqOn, csicr1, buffer, lastGot>>

GetDisable ==
  /\ AppRuns /\ pc = "get"
  /\ Disable
  /\ pc' = "take"
  /\ UNCHANGED <<csiVars, owned, buffer, lastGot>>

GetTake ==
  /\ AppRuns /\ pc = "take"
  /\ buffer' = FullBuffer(handle)
  /\ owned' = owned \cup {buffer'}
  /\ lastGot' = mem[buffer'][Lines]
  /\ handle' = DropFullBuffer(handle)
  /\ Restore
  /\ pc' = "idle"
  /\ UNCHANGED hardwareVars

-----------------------------------------------------------------------------
(* CSI_TransferStart and CSI_TransferStop. *)

Start ==
  /\ AppRuns /\ pc = "idle" /\ ~handle.transferStarted
  /\ handle.emptyBufferCnt >= 2
  /\ handle' = StartHandle(handle)
  /\ fb' = StartRegisters(handle)
  /\ dmaIdx' = 0
  /\ line' = 0
  /\ irqOn' = TRUE
  /\ UNCHANGED <<sr, dmaBuf, frame, completed, mem, owned, csicr1, pc, buffer,
                 lastGot>>

\* The active buffers go back to the empty list; the frame under way is lost.
Stop ==
  LET idle == [handle EXCEPT !.transferStarted = FALSE, !.activeBufferNum = 0]
      one == PutEmptyBuffer(idle, fb[0])
  IN  /\ AppRuns /\ pc = "idle" /\ handle.transferStarted
      /\ handle' = IF handle.activeBufferNum = 2
                     THEN PutEmptyBuffer(one, fb[1]) ELSE one
      /\ irqOn' = FALSE
      /\ line' = 0
      /\ UNCHANGED <<fb, sr, dmaIdx, dmaBuf, frame, completed, mem, owned,
                     csicr1, pc, buffer, lastGot>>

-----------------------------------------------------------------------------
(* CSI_TransferHandleIRQ without a callback. *)

SkipFrames ==
  /\ irqOn /\ sr = Register
  /\ sr' = {}
  /\ UNCHANGED <<handle, fb, dmaIdx, dmaBuf, line, frame, completed, mem,
                 appVars>>

QueueAndRearm(idx) ==
  LET h == IF CanQueueFrame(handle) THEN PutFullBuffer(handle, fb[idx])
                                    ELSE handle
  IN  /\ handle' = RearmHandle(h)
      /\ fb' = RearmRegisters(h, fb, idx)
      /\ UNCHANGED <<dmaIdx, dmaBuf, line, frame, completed, mem, appVars>>

\* Mutant: with both flags set the handler takes the second for the frame done.
FrameDoneNoSkip(idx) ==
  /\ irqOn
  /\ sr = {idx} \/ (sr = Register /\ idx = 1)
  /\ sr' = {}
  /\ QueueAndRearm(idx)

FrameDone(idx) ==
  /\ irqOn /\ sr = {idx}
  /\ sr' = {}
  /\ QueueAndRearm(idx)

-----------------------------------------------------------------------------
App ==
  \/ \E b \in Buffer : SubmitEmptyBuffer(b)
  \/ SubmitStore \/ SubmitCount
  \/ GetFullBuffer \/ GetDisable \/ GetTake
  \/ Start \/ Stop

Camera == (FrameBegins \/ LineArrives) /\ UNCHANGED appVars

Interrupt == SkipFrames \/ \E idx \in Register : FrameDone(idx)

Next == App \/ Camera \/ Interrupt

Spec == Init /\ [][Next]_vars

-----------------------------------------------------------------------------
(* Properties. *)

TypeOK ==
  /\ CsiTypeOK
  /\ owned \in SUBSET Buffer
  /\ irqOn \in BOOLEAN
  /\ csicr1 \in BOOLEAN
  /\ pc \in {"idle", "store", "count", "get", "take"}
  /\ buffer \in Address
  /\ lastGot \in Frame

EmptyBuffers == {handle.frameBufferAddr[s] : s \in EmptySlots(handle)}
FullBuffers == {handle.frameBufferQueue[s] : s \in FullSlots(handle)}
ActiveBuffers ==
  IF handle.transferStarted THEN {fb[0], fb[1]} ELSE {}

\* Every frame buffer is in exactly one place: in the empty list, active in a
\* register, in the full queue or with the application.  None is lost or held
\* twice by interrupts in the middle of a call, by completions without an empty
\* buffer to rearm with, by skipped frames or by stopping and starting.
BuffersConserved ==
  /\ EmptyBuffers \cup ActiveBuffers \cup FullBuffers \cup owned = Buffer
  /\ handle.emptyBufferCnt + Cardinality(FullSlots(handle))
       + handle.activeBufferNum + Cardinality(owned) = Cardinality(Buffer)

\* The DMA never writes a buffer that is waiting in the full queue or that the
\* application has taken, however late the interrupt is.
DmaKeepsOut ==
  handle.transferStarted /\ line > 0 => dmaBuf \notin FullBuffers \cup owned

\* Every buffer in the full queue holds one whole frame, newer than the frame
\* before it in the queue and newer than the last one the application took.
QueueInOrder ==
  \A s \in FullSlots(handle) :
    LET full == handle.frameBufferQueue[s]
        later == {t \in FullSlots(handle) :
                    GetQueueDelta(handle.queueReadIdx, t)
                      > GetQueueDelta(handle.queueReadIdx, s)}
    IN  /\ \A l \in Line : mem[full][l] = mem[full][1]
        /\ mem[full][1] > lastGot
        /\ \A t \in later : mem[handle.frameBufferQueue[t]][1] > mem[full][1]

\* What the code keeps in slots, indices, counts and registers is the frame queue
\* of FrameQueue: each call and interrupt is one of its steps or none.
FullFrames == {[buffer |-> b, frame |-> mem[b][1]] : b \in FullBuffers}

Queue == INSTANCE FrameQueue
  WITH Size <- CSI_DRIVER_QUEUE_SIZE, empty <- EmptyBuffers,
       active <- ActiveBuffers, full <- FullFrames, last <- lastGot

FrameQueueSpec == Queue!Spec

\* CSI_TransferSubmitEmptyBuffer promises an error "if there is no room in
\* queue": the empty list would then never outgrow its array.
EmptyListFits == handle.emptyBufferCnt <= CSI_DRIVER_ACTUAL_QUEUE_SIZE
=============================================================================
