------------------------ MODULE FramePipeline_proofs ------------------------
(***************************************************************************)
(* Theorems about FramePipeline, for any number of lines and frames, any   *)
(* queue size and both timings of the interrupt.  The inductive invariant  *)
(* is a conjunction of three parts: the driver's handle, the controller's  *)
(* registers and memory, and what the two contexts know of each other.     *)
(***************************************************************************)
EXTENDS FramePipeline, CsiHandle_proofs

\* The handle between two interrupts: everything is active, nothing queued.
HandleInv ==
  /\ handle \in Handle
  /\ handle.activeBufferNum = CSI_MAX_ACTIVE_FRAME_NUM
  /\ handle.emptyBufferCnt = 0
  /\ handle.queueReadIdx = handle.queueWriteIdx
  /\ handle.transferStarted
  /\ fb \in [Register -> Buffer]

\* A single done flag belongs to the register the DMA does not use; the frame
\* under way is in the buffer its register still names; memory never runs
\* ahead of the camera; a completed frame that waits for the interrupt is
\* whole, or overwritten by later ones.
ControllerInv ==
  /\ line > 0 => dmaBuf = fb[dmaIdx] /\ completed < frame
  /\ completed <= frame
  /\ \A b \in Buffer, l \in Line : mem[b][l] <= frame
  /\ \A l \in Line : l <= line => mem[dmaBuf][l] = frame
  /\ \A i \in Register : sr = {i} =>
       /\ dmaIdx = 1 - i
       /\ \A l \in Line : mem[fb[i]][l] >= completed

\* An image about to be copied is newer than every line of the last copy; an
\* image being copied is at least as new; a frame that waits for the interrupt
\* is newer than anything the main loop has seen.
ImageInv ==
  /\ published <= completed
  /\ taken <= published
  /\ sr # {} => published < completed
  /\ pc = "load" => mt9v03x_finish_flag
  /\ pc \in {"wait", "load"} /\ mt9v03x_finish_flag => taken < published
  /\ \A l \in Line :
       /\ mem[mt9v03x_image][l] >= published
       /\ image[l] <= frame
       /\ sr # {} => image[l] <= completed
       /\ pc \in {"wait", "load"} /\ mt9v03x_finish_flag
            => image[l] <= published
       /\ pc = "copy" => image[l] <= mem[source][l]
  /\ pc = "copy" => copied < Lines

IInv == TypeOK /\ HandleInv /\ ControllerInv /\ ImageInv

-----------------------------------------------------------------------------
(* The driver's handle. *)

\* The callback always has the other frame buffer to hand back.
LEMMA OtherImageIsBuffer ==
  ASSUME NEW b \in Buffer
  PROVE  OtherImage(b) \in Buffer
  BY PipelineAssumption DEF OtherImage

\* CSI_TransferStart leaves both buffers active and nothing in the queue.
LEMMA StartIsReady ==
  /\ StartHandle(SubmittedHandle) \in Handle
  /\ StartHandle(SubmittedHandle).activeBufferNum = CSI_MAX_ACTIVE_FRAME_NUM
  /\ StartHandle(SubmittedHandle).emptyBufferCnt = 0
  /\ StartHandle(SubmittedHandle).queueReadIdx
       = StartHandle(SubmittedHandle).queueWriteIdx
  /\ StartHandle(SubmittedHandle).transferStarted
  /\ StartRegisters(SubmittedHandle) \in [Register -> Buffer]
<1> DEFINE h0 == CreateHandle
           h1 == PutEmptyBuffer(h0, mt9v03x_image1)
           h2 == PutEmptyBuffer(h1, mt9v03x_image2)
<1>1. /\ mt9v03x_image1 \in Buffer /\ mt9v03x_image2 \in Buffer
      /\ Buffer \subseteq Address /\ NoBuffer \in Address
  BY PipelineAssumption DEF Address
<1>2. /\ h0 \in Handle
      /\ h0.emptyBufferCnt = 0 /\ h0.emptyBufferCnt \in Slot
      /\ h0.queueReadIdx = h0.queueWriteIdx
  BY SlotFacts, <1>1 DEF CreateHandle, Handle, CSI_MAX_ACTIVE_FRAME_NUM
<1> HIDE DEF h0
<1>3. /\ h1 \in Handle
      /\ h1.emptyBufferCnt = 1
      /\ h1.frameBufferAddr[0] = mt9v03x_image1
      /\ h1.queueReadIdx = h1.queueWriteIdx
  <2>1. /\ h1 \in Handle
        /\ h1.emptyBufferCnt = h0.emptyBufferCnt + 1
        /\ h1.queueReadIdx = h0.queueReadIdx
        /\ h1.queueWriteIdx = h0.queueWriteIdx
        /\ h1.frameBufferAddr[h0.emptyBufferCnt] = mt9v03x_image1
    BY <1>1, <1>2, PutEmptyBufferFields
  <2> HIDE DEF h1
  <2> QED BY <1>2, <2>1
<1> HIDE DEF h1
<1>4. /\ h1.frameBufferAddr \in [Slot -> Address]
      /\ h2 \in Handle
      /\ h2.emptyBufferCnt = 2
      /\ h2.frameBufferAddr = [h1.frameBufferAddr EXCEPT ![1] = mt9v03x_image2]
      /\ h2.queueReadIdx = h2.queueWriteIdx
  BY SlotFacts, <1>1, <1>3, PutEmptyBufferFields DEF Handle
<1>5. SubmittedHandle = h2
  BY DEF SubmittedHandle, h0, h1
<1> HIDE DEF h2
<1>6. /\ DropEmptyBuffer(h2).emptyBufferCnt = 1
      /\ DropEmptyBuffer(h2).frameBufferAddr = h2.frameBufferAddr
  BY <1>4, DropEmptyBufferFields
<1>7. /\ TopEmptyBuffer(h2) = mt9v03x_image2
      /\ TopEmptyBuffer(DropEmptyBuffer(h2)) = mt9v03x_image1
  BY SlotFacts, <1>3, <1>4, <1>6 DEF TopEmptyBuffer
<1>8. StartRegisters(h2) \in [Register -> Buffer]
  BY <1>1, <1>7 DEF StartRegisters, Register
<1> QED
  BY <1>4, <1>5, <1>8, StartHandleFields

\* What one call of CSI_TransferHandleIRQ does when it finds one done flag: the
\* frame is always queued and the callback always called; the buffer that is
\* published is the one just done, its register gets the other buffer, and the
\* handle is again as it was but for the queue's two indices.
LEMMA FrameDoneEffect ==
  ASSUME HandleInv, NEW idx \in Register, FrameDone(idx)
  PROVE  /\ handle' \in Handle
         /\ handle'.activeBufferNum = CSI_MAX_ACTIVE_FRAME_NUM
         /\ handle'.emptyBufferCnt = 0
         /\ handle'.queueReadIdx = handle'.queueWriteIdx
         /\ handle'.transferStarted
         /\ fb' = [fb EXCEPT ![idx] = OtherImage(fb[idx])]
         /\ mt9v03x_image' = fb[idx]
         /\ mt9v03x_finish_flag' = TRUE
         /\ published' = completed
<1> DEFINE h1 == PutFullBuffer(handle, fb[idx])
           h2 == DropFullBuffer(h1)
           h3 == PutEmptyBuffer(h2, OtherImage(fb[idx]))
<1>1. /\ fb[idx] \in Buffer /\ fb[idx] \in Address
      /\ OtherImage(fb[idx]) \in Buffer /\ OtherImage(fb[idx]) \in Address
  BY OtherImageIsBuffer DEF HandleInv, Address
<1>2. /\ handle \in Handle
      /\ handle.activeBufferNum = 2
      /\ handle.emptyBufferCnt = 0
      /\ handle.queueReadIdx = handle.queueWriteIdx
      /\ handle.transferStarted
      /\ handle.queueWriteIdx \in Slot
  BY DEF HandleInv, Handle, CSI_MAX_ACTIVE_FRAME_NUM
<1>3. CanQueueFrame(handle)
  <2>1. handle.queueWriteIdx \in Nat
    BY SlotFacts, <1>2
  <2>2. GetQueueDelta(handle.queueReadIdx, handle.queueWriteIdx) = 0
    BY <1>2, <2>1 DEF GetQueueDelta
  <2> QED
    BY SlotFacts, <1>2, <2>2
       DEF CanQueueFrame, HasQueueRoom, CSI_MAX_ACTIVE_FRAME_NUM
<1>4. /\ IncreaseQueueIdx(handle.queueWriteIdx) \in Slot
      /\ IncreaseQueueIdx(handle.queueWriteIdx) # handle.queueWriteIdx
  BY <1>2, NextSlot
<1>5. /\ h1 \in Handle
      /\ h1.activeBufferNum = 1
      /\ h1.emptyBufferCnt = 0
      /\ h1.queueReadIdx = handle.queueWriteIdx
      /\ h1.queueWriteIdx = IncreaseQueueIdx(handle.queueWriteIdx)
      /\ h1.frameBufferQueue[handle.queueWriteIdx] = fb[idx]
      /\ h1.transferStarted
  <2>1. handle.activeBufferNum > 0
    BY <1>2
  <2>2. /\ h1 \in Handle
        /\ h1.activeBufferNum = handle.activeBufferNum - 1
        /\ h1.emptyBufferCnt = handle.emptyBufferCnt
        /\ h1.queueReadIdx = handle.queueReadIdx
        /\ h1.queueWriteIdx = IncreaseQueueIdx(handle.queueWriteIdx)
        /\ h1.frameBufferQueue[handle.queueWriteIdx] = fb[idx]
        /\ h1.transferStarted = handle.transferStarted
    BY <1>1, <1>2, <2>1, PutFullBufferFields
  <2> HIDE DEF h1
  <2> QED BY <1>2, <2>2
<1>6. QueuedHandle(idx) = h1
  BY <1>3 DEF QueuedHandle
<1> HIDE DEF h1
<1>7. HasFullBuffer(h1) /\ FullBuffer(h1) = fb[idx]
  BY <1>4, <1>5 DEF HasFullBuffer, FullBuffer
<1>8. Notifies(idx)
  BY <1>3, <1>6, <1>7 DEF Notifies
<1>9. /\ h2 \in Handle
      /\ h2.activeBufferNum = 1
      /\ h2.emptyBufferCnt = 0 /\ h2.emptyBufferCnt \in Slot
      /\ h2.queueReadIdx = h2.queueWriteIdx
      /\ h2.transferStarted
  BY SlotFacts, <1>5, DropFullBufferFields
<1>10. CallbackHandle(idx) = h3
  BY <1>6, <1>7, <1>8 DEF CallbackHandle
<1> HIDE DEF h2
<1>11. /\ h3 \in Handle
       /\ h3.activeBufferNum = 1
       /\ h3.emptyBufferCnt = 1
       /\ h3.queueReadIdx = h3.queueWriteIdx
       /\ h3.frameBufferAddr[0] = OtherImage(fb[idx])
       /\ h3.transferStarted
  <2>1. /\ h3 \in Handle
        /\ h3.activeBufferNum = h2.activeBufferNum
        /\ h3.emptyBufferCnt = h2.emptyBufferCnt + 1
        /\ h3.queueReadIdx = h2.queueReadIdx
        /\ h3.queueWriteIdx = h2.queueWriteIdx
        /\ h3.frameBufferAddr[h2.emptyBufferCnt] = OtherImage(fb[idx])
        /\ h3.transferStarted = h2.transferStarted
    BY <1>1, <1>9, PutEmptyBufferFields
  <2> HIDE DEF h3
  <2> QED BY <1>9, <2>1
<1> HIDE DEF h3
<1>12. CanRearm(h3) /\ TopEmptyBuffer(h3) = OtherImage(fb[idx])
  BY <1>11 DEF CanRearm, TopEmptyBuffer, CSI_MAX_ACTIVE_FRAME_NUM
<1>13. RearmRegisters(h3, fb, idx) = [fb EXCEPT ![idx] = OtherImage(fb[idx])]
  BY <1>12 DEF RearmRegisters
<1>14. /\ RearmHandle(h3) \in Handle
       /\ RearmHandle(h3).activeBufferNum = CSI_MAX_ACTIVE_FRAME_NUM
       /\ RearmHandle(h3).emptyBufferCnt = 0
       /\ RearmHandle(h3).queueReadIdx = RearmHandle(h3).queueWriteIdx
       /\ RearmHandle(h3).transferStarted
  BY <1>11, <1>12, RearmHandleFields DEF CSI_MAX_ACTIVE_FRAME_NUM
<1> QED
  BY <1>6, <1>7, <1>8, <1>10, <1>13, <1>14 DEF FrameDone, Publish

-----------------------------------------------------------------------------
(* The invariant holds initially, and each action preserves it. *)

\* The bounds the arithmetic on lines and frames needs.
LEMMA Bounds ==
  /\ Lines \in Nat /\ Lines >= 2 /\ 1 \in Line
  /\ MaxFrame \in Nat /\ 0 \in Frame
  BY ControllerAssumption DEF Line, Frame

LEMMA InitInv == Init => IInv
<1> SUFFICES ASSUME Init PROVE IInv
  OBVIOUS
<1>1. HandleInv
  BY StartIsReady DEF Init, HandleInv
<1>2. /\ mt9v03x_image1 \in Buffer
      /\ NoBuffer \in Address
  BY PipelineAssumption DEF Address
<1>3. TypeOK
  <2>1. handle \in Handle /\ fb \in [Register -> Address]
    BY <1>1 DEF HandleInv, Address
  <2>2. mem \in [Buffer -> [Line -> Frame]] /\ image \in [Line -> Frame]
    BY Bounds DEF Init, HardwareInit
  <2>3. CsiTypeOK
    BY <1>2, <2>1, <2>2, Bounds DEF Init, HardwareInit, CsiTypeOK, Register
  <2>4. /\ mt9v03x_image \in Buffer /\ source \in Buffer
        /\ published \in Frame /\ taken \in Frame
        /\ copied \in 0 .. Lines
    BY <1>2, Bounds DEF Init
  <2>5. /\ mt9v03x_finish_flag \in BOOLEAN
        /\ pc \in {"wait", "load", "copy", "process"}
    BY DEF Init
  <2> QED
    BY <2>2, <2>3, <2>4, <2>5 DEF TypeOK
<1>4. ControllerInv
  BY Bounds DEF Init, HardwareInit, ControllerInv, Line, Register
<1>5. ImageInv
  BY <1>2, Bounds DEF Init, HardwareInit, ImageInv
<1> QED BY <1>1, <1>3, <1>4, <1>5 DEF IInv

\* Writing one line of one buffer with the number of the frame under way.
LEMMA WriteLine ==
  ASSUME TypeOK, NEW b \in Buffer, NEW n \in Line, NEW f \in Frame,
         mem' = [mem EXCEPT ![b][n] = f]
  PROVE  /\ mem' \in [Buffer -> [Line -> Frame]]
         /\ \A c \in Buffer, l \in Line :
              mem'[c][l] = IF c = b /\ l = n THEN f ELSE mem[c][l]
  BY DEF TypeOK, CsiTypeOK

\* The numbers memory holds are naturals, for the arithmetic.
LEMMA Numbers ==
  ASSUME TypeOK
  PROVE  /\ frame \in Nat /\ completed \in Nat /\ published \in Nat
         /\ taken \in Nat /\ line \in Nat /\ copied \in Nat
         /\ \A b \in Buffer, l \in Line : mem[b][l] \in Nat
         /\ \A l \in Line : image[l] \in Nat
         /\ Line \subseteq Nat
  BY Bounds DEF TypeOK, CsiTypeOK, Frame, Line

LEMMA CameraFrameInv == IInv /\ CameraFrame => IInv'
<1> SUFFICES ASSUME IInv, CameraFrame PROVE IInv'
  OBVIOUS
<1> DEFINE b == fb[dmaIdx]
<1>1. /\ TypeOK /\ HandleInv /\ ControllerInv /\ ImageInv
      /\ b \in Buffer /\ b \in Address
      /\ frame + 1 \in Frame
      /\ line = 0 /\ line' = 1 /\ dmaBuf' = b /\ frame' = frame + 1
      /\ mem' = [mem EXCEPT ![b][1] = frame + 1]
      /\ UNCHANGED <<handle, fb, sr, dmaIdx, completed>>
      /\ UNCHANGED <<isrVars, mt9v03x_finish_flag, mainVars>>
  BY Bounds DEF IInv, TypeOK, CsiTypeOK, HandleInv, Address, CameraFrame,
                FrameBegins, Frame
<1> HIDE DEF b
<1>2. /\ mem' \in [Buffer -> [Line -> Frame]]
      /\ \A c \in Buffer, l \in Line :
           mem'[c][l] = IF c = b /\ l = 1 THEN frame + 1 ELSE mem[c][l]
  <2>1. /\ TypeOK /\ b \in Buffer /\ 1 \in Line /\ frame + 1 \in Frame
        /\ mem' = [mem EXCEPT ![b][1] = frame + 1]
    BY <1>1, Bounds
  <2>2. \A n \in Line, f \in Frame :
          mem' = [mem EXCEPT ![b][n] = f] =>
            /\ mem' \in [Buffer -> [Line -> Frame]]
            /\ \A c \in Buffer, l \in Line :
                 mem'[c][l] = IF c = b /\ l = n THEN f ELSE mem[c][l]
    BY <2>1, WriteLine, Zenon
  <2> QED BY <2>1, <2>2, Zenon
<1>3. TypeOK'
  BY <1>1, <1>2, Bounds DEF TypeOK, CsiTypeOK, isrVars, mainVars
<1>4. HandleInv'
  BY <1>1 DEF HandleInv
<1>5. \A c \in Buffer, l \in Line : mem'[c][l] >= mem[c][l]
  BY <1>1, <1>2, Numbers DEF ControllerInv
<1>6. ControllerInv'
  <2>1. line' > 0 => dmaBuf' = fb'[dmaIdx'] /\ completed' < frame'
    BY <1>1, Numbers DEF ControllerInv, b
  <2>2. completed' <= frame'
    BY <1>1, Numbers DEF ControllerInv
  <2>3. \A c \in Buffer, l \in Line : mem'[c][l] <= frame'
    BY <1>1, <1>2, Numbers DEF ControllerInv
  <2>4. \A l \in Line : l <= line' => mem'[dmaBuf'][l] = frame'
    BY <1>1, <1>2, Numbers, Bounds DEF Line
  <2>5. ASSUME NEW i \in Register, sr' = {i}
        PROVE  dmaIdx' = 1 - i /\ \A l \in Line : mem'[fb'[i]][l] >= completed'
    BY <1>1, <1>2, <1>5, <2>5, Numbers DEF ControllerInv, HandleInv
  <2> QED BY <2>1, <2>2, <2>3, <2>4, <2>5 DEF ControllerInv
<1>7. ImageInv'
  BY <1>1, <1>2, <1>5, Numbers DEF ImageInv, TypeOK, isrVars, mainVars
<1> QED BY <1>3, <1>4, <1>6, <1>7 DEF IInv

LEMMA CameraLineInv == IInv /\ CameraLine => IInv'
<1> SUFFICES ASSUME IInv, CameraLine PROVE IInv'
  OBVIOUS
<1>1. /\ TypeOK /\ HandleInv /\ ControllerInv /\ ImageInv
      /\ line > 0
      /\ dmaBuf = fb[dmaIdx] /\ dmaBuf \in Buffer /\ dmaIdx \in Register
      /\ frame \in Frame /\ line + 1 \in Line
      /\ mem' = [mem EXCEPT ![dmaBuf][line + 1] = frame]
      /\ UNCHANGED <<handle, fb, dmaBuf, frame>>
      /\ UNCHANGED <<isrVars, mt9v03x_finish_flag, mainVars>>
  BY Bounds DEF IInv, TypeOK, CsiTypeOK, HandleInv, ControllerInv, CameraLine,
                LineArrives, Line
<1>2. /\ mem' \in [Buffer -> [Line -> Frame]]
      /\ \A c \in Buffer, l \in Line :
           mem'[c][l] = IF c = dmaBuf /\ l = line + 1 THEN frame ELSE mem[c][l]
  BY <1>1 DEF TypeOK, CsiTypeOK
<1>3. \A c \in Buffer, l \in Line : mem'[c][l] >= mem[c][l]
  BY <1>1, <1>2, Numbers DEF ControllerInv
<1>4. /\ \A c \in Buffer, l \in Line : mem'[c][l] <= frame
      /\ \A l \in Line : l <= line + 1 => mem'[dmaBuf][l] = frame
  <2>1. \A c \in Buffer, l \in Line : mem'[c][l] <= frame
    BY <1>1, <1>2, Numbers DEF ControllerInv
  <2>2. ASSUME NEW l \in Line, l <= line + 1
        PROVE  mem'[dmaBuf][l] = frame
    <3>1. CASE l = line + 1
      BY <1>1, <1>2, <3>1
    <3>2. CASE l # line + 1
      <4>1. l <= line
        BY <1>1, <2>2, <3>2, Numbers
      <4> QED BY <1>1, <1>2, <3>2, <4>1 DEF ControllerInv
    <3> QED BY <3>1, <3>2
  <2> QED BY <2>1, <2>2
<1>5. HandleInv'
  BY <1>1 DEF HandleInv
<1>6. CASE line + 1 < Lines
  <2>1. line' = line + 1 /\ UNCHANGED <<sr, dmaIdx, completed>>
    BY <1>6 DEF CameraLine, LineArrives
  <2>2. TypeOK'
    BY <1>1, <1>2, <1>6, <2>1, Bounds
       DEF TypeOK, CsiTypeOK, isrVars, mainVars
  <2>3. ControllerInv'
    <3>1. ASSUME NEW i \in Register, sr = {i}
          PROVE  dmaIdx = 1 - i /\ \A l \in Line : mem'[fb[i]][l] >= completed
      BY <1>1, <1>2, <1>3, <3>1, Numbers DEF ControllerInv, HandleInv
    <3> QED BY <1>1, <1>4, <2>1, <3>1, Numbers DEF ControllerInv
  <2>4. ImageInv'
    BY <1>1, <1>2, <1>3, <2>1, Numbers DEF ImageInv, TypeOK, isrVars, mainVars
  <2> QED BY <1>5, <2>2, <2>3, <2>4 DEF IInv
<1>7. CASE ~(line + 1 < Lines)
  <2>1. /\ line' = 0
        /\ sr' = sr \cup {dmaIdx}
        /\ dmaIdx' = 1 - dmaIdx
        /\ completed' = frame
    BY <1>7 DEF CameraLine, LineArrives
  <2>2. TypeOK'
    <3>1. dmaIdx' \in Register /\ sr' \in SUBSET Register /\ line' \in 0 .. Lines - 1
      BY <1>1, <2>1, Bounds DEF TypeOK, CsiTypeOK, Register
    <3> QED
      BY <1>1, <1>2, <2>1, <3>1, Bounds DEF TypeOK, CsiTypeOK, isrVars, mainVars
  <2>3. \A l \in Line : mem'[dmaBuf][l] = frame
    BY <1>1, <1>4, <1>7, Numbers, Bounds DEF Line
  <2>4. ControllerInv'
    <3>1. ASSUME NEW i \in Register, sr' = {i}
          PROVE  dmaIdx' = 1 - i /\ \A l \in Line : mem'[fb[i]][l] >= frame
      <4>1. i = dmaIdx
        BY <2>1, <3>1
      <4> QED BY <1>1, <2>1, <2>3, <4>1, Numbers
    <3>2. \A l \in Line : ~(l <= line')
      BY <2>1, Bounds DEF Line
    <3> QED BY <1>1, <1>4, <2>1, <3>1, <3>2, Numbers DEF ControllerInv
  <2>5. published < frame
    BY <1>1, Numbers DEF ControllerInv, ImageInv
  <2>6. ImageInv'
    BY <1>1, <1>2, <1>3, <2>1, <2>5, Numbers
       DEF ImageInv, TypeOK, isrVars, mainVars
  <2> QED BY <1>5, <2>2, <2>4, <2>6 DEF IInv
<1> QED BY <1>6, <1>7

LEMMA SkipFramesInv == IInv /\ SkipFrames => IInv'
<1> SUFFICES ASSUME IInv, SkipFrames PROVE IInv'
  OBVIOUS
<1>1. TypeOK'
  BY DEF IInv, SkipFrames, TypeOK, CsiTypeOK, isrVars, mainVars
<1>2. HandleInv'
  BY DEF IInv, SkipFrames, HandleInv
<1>3. ControllerInv'
  BY DEF IInv, SkipFrames, ControllerInv
<1>4. ImageInv'
  BY DEF IInv, SkipFrames, ImageInv, isrVars, mainVars
<1> QED BY <1>1, <1>2, <1>3, <1>4 DEF IInv

LEMMA FrameDoneInv ==
  ASSUME IInv, NEW idx \in Register, FrameDone(idx)
  PROVE  IInv'
<1>1. /\ TypeOK /\ HandleInv /\ ControllerInv /\ ImageInv
      /\ sr = {idx} /\ sr' = {}
      /\ dmaIdx = 1 - idx
      /\ UNCHANGED <<dmaIdx, dmaBuf, line, frame, completed, mem, mainVars>>
  BY DEF IInv, FrameDone, Publish, ControllerInv
<1>2. /\ handle' \in Handle
      /\ handle'.activeBufferNum = CSI_MAX_ACTIVE_FRAME_NUM
      /\ handle'.emptyBufferCnt = 0
      /\ handle'.queueReadIdx = handle'.queueWriteIdx
      /\ handle'.transferStarted
      /\ fb' = [fb EXCEPT ![idx] = OtherImage(fb[idx])]
      /\ mt9v03x_image' = fb[idx]
      /\ mt9v03x_finish_flag' = TRUE
      /\ published' = completed
  BY <1>1, FrameDoneEffect
<1>3. /\ fb[idx] \in Buffer /\ OtherImage(fb[idx]) \in Buffer
      /\ fb' \in [Register -> Buffer]
      /\ fb'[dmaIdx] = fb[dmaIdx]
  BY <1>1, <1>2, OtherImageIsBuffer DEF HandleInv, Register
<1>4. HandleInv'
  BY <1>2, <1>3 DEF HandleInv
<1>5. TypeOK'
  <2>1. fb' \in [Register -> Address]
    BY <1>3 DEF Address
  <2> QED
    BY <1>1, <1>2, <1>3, <2>1 DEF TypeOK, CsiTypeOK, mainVars
<1>6. ControllerInv'
  BY <1>1, <1>3 DEF ControllerInv
<1>7. \A l \in Line : mem[fb[idx]][l] >= completed
  BY <1>1 DEF ControllerInv
<1>8. ImageInv'
  BY <1>1, <1>2, <1>7, Numbers DEF ImageInv, mainVars
<1> QED BY <1>4, <1>5, <1>6, <1>8 DEF IInv

LEMMA SeeFlagInv == IInv /\ SeeFlag => IInv'
<1> SUFFICES ASSUME IInv, SeeFlag PROVE IInv'
  OBVIOUS
<1>1. /\ TypeOK /\ HandleInv /\ ControllerInv /\ ImageInv
      /\ sr = {} /\ pc = "wait" /\ pc' = "load" /\ mt9v03x_finish_flag
      /\ UNCHANGED <<csiVars, isrVars, mt9v03x_finish_flag>>
      /\ UNCHANGED <<source, copied, image, taken>>
  BY DEF IInv, SeeFlag, MainStep
<1>2. TypeOK'
  BY <1>1 DEF TypeOK, CsiTypeOK, csiVars, isrVars
<1>3. HandleInv' /\ ControllerInv'
  BY <1>1 DEF HandleInv, ControllerInv, csiVars
<1>4. ImageInv'
  BY <1>1 DEF ImageInv, csiVars, isrVars
<1> QED BY <1>2, <1>3, <1>4 DEF IInv

LEMMA LoadPointerInv == IInv /\ LoadPointer => IInv'
<1> SUFFICES ASSUME IInv, LoadPointer PROVE IInv'
  OBVIOUS
<1>1. /\ TypeOK /\ HandleInv /\ ControllerInv /\ ImageInv
      /\ sr = {} /\ pc = "load" /\ pc' = "copy"
      /\ source' = mt9v03x_image /\ copied' = 0 /\ taken' = published
      /\ UNCHANGED <<csiVars, isrVars, mt9v03x_finish_flag, image>>
  BY DEF IInv, LoadPointer, MainStep
<1>2. TypeOK'
  BY <1>1, Bounds DEF TypeOK, CsiTypeOK, csiVars, isrVars
<1>3. HandleInv' /\ ControllerInv'
  BY <1>1 DEF HandleInv, ControllerInv, csiVars
<1>4. mt9v03x_image \in Buffer
  BY <1>1 DEF TypeOK
<1>5. \A l \in Line : image[l] <= mem[mt9v03x_image][l]
  BY <1>1, <1>4, Numbers DEF ImageInv
<1>6. ImageInv'
  BY <1>1, <1>5, Numbers, Bounds DEF ImageInv, csiVars, isrVars
<1> QED BY <1>2, <1>3, <1>6 DEF IInv

LEMMA CopyLineInv == IInv /\ CopyLine => IInv'
<1> SUFFICES ASSUME IInv, CopyLine PROVE IInv'
  OBVIOUS
<1> DEFINE n == copied + 1
<1>1. /\ TypeOK /\ HandleInv /\ ControllerInv /\ ImageInv
      /\ sr = {} /\ pc = "copy"
      /\ pc' = IF n = Lines THEN "process" ELSE "copy"
      /\ image' = [image EXCEPT ![n] = mem[source][n]]
      /\ copied' = n
      /\ UNCHANGED <<csiVars, isrVars, mt9v03x_finish_flag, source, taken>>
  BY DEF IInv, CopyLine, MainStep
<1>2. /\ n \in Line /\ n \in 0 .. Lines
      /\ source \in Buffer
      /\ image \in [Line -> Frame] /\ mem[source][n] \in Frame
  BY <1>1, Bounds DEF TypeOK, CsiTypeOK, ImageInv, Line
<1> HIDE DEF n
<1>3. /\ image' \in [Line -> Frame]
      /\ \A l \in Line :
           image'[l] = IF l = n THEN mem[source][n] ELSE image[l]
  BY <1>1, <1>2
<1>4. TypeOK'
  BY <1>1, <1>2, <1>3 DEF TypeOK, CsiTypeOK, csiVars, isrVars
<1>5. HandleInv' /\ ControllerInv'
  BY <1>1 DEF HandleInv, ControllerInv, csiVars
<1>6. \A l \in Line : image'[l] <= frame /\ image'[l] <= mem[source][l]
  BY <1>1, <1>2, <1>3, Numbers DEF ImageInv, ControllerInv
<1>7. n # Lines => n < Lines
  BY <1>2, Bounds
<1>8. ImageInv'
  BY <1>1, <1>2, <1>6, <1>7 DEF ImageInv, csiVars, isrVars
<1> QED BY <1>4, <1>5, <1>8 DEF IInv

LEMMA FinishImageInv == IInv /\ FinishImage => IInv'
<1> SUFFICES ASSUME IInv, FinishImage PROVE IInv'
  OBVIOUS
<1>1. /\ TypeOK /\ HandleInv /\ ControllerInv /\ ImageInv
      /\ sr = {} /\ pc = "process" /\ pc' = "wait"
      /\ mt9v03x_finish_flag' = FALSE
      /\ UNCHANGED <<csiVars, isrVars, source, copied, image, taken>>
  BY DEF IInv, FinishImage, MainStep
<1>2. TypeOK'
  BY <1>1 DEF TypeOK, CsiTypeOK, csiVars, isrVars
<1>3. HandleInv' /\ ControllerInv'
  BY <1>1 DEF HandleInv, ControllerInv, csiVars
<1>4. ImageInv'
  BY <1>1 DEF ImageInv, csiVars, isrVars
<1> QED BY <1>2, <1>3, <1>4 DEF IInv

LEMMA StutterInv == IInv /\ UNCHANGED vars => IInv'
<1> SUFFICES ASSUME IInv, UNCHANGED vars PROVE IInv'
  OBVIOUS
<1>1. UNCHANGED csiVars /\ UNCHANGED isrVars /\ UNCHANGED mainVars
      /\ UNCHANGED mt9v03x_finish_flag
  BY DEF vars
<1>2. TypeOK'
  BY <1>1 DEF IInv, TypeOK, CsiTypeOK, csiVars, isrVars, mainVars
<1>3. HandleInv' /\ ControllerInv'
  BY <1>1 DEF IInv, HandleInv, ControllerInv, csiVars
<1>4. ImageInv'
  BY <1>1 DEF IInv, ImageInv, csiVars, isrVars, mainVars
<1> QED BY <1>2, <1>3, <1>4 DEF IInv

LEMMA NextInv == IInv /\ [Next]_vars => IInv'
<1> SUFFICES ASSUME IInv, [Next]_vars PROVE IInv'
  OBVIOUS
<1>1. CASE Camera
  BY <1>1, CameraFrameInv, CameraLineInv DEF Camera
<1>2. CASE Interrupt
  BY <1>2, SkipFramesInv, FrameDoneInv DEF Interrupt
<1>3. CASE Main
  BY <1>3, SeeFlagInv, LoadPointerInv, CopyLineInv, FinishImageInv DEF Main
<1>4. CASE UNCHANGED vars
  BY <1>4, StutterInv
<1> QED BY <1>1, <1>2, <1>3, <1>4 DEF Next

LEMMA Invariance == Spec => []IInv
<1> QED BY InitInv, NextInv, PTL DEF Spec

-----------------------------------------------------------------------------
(* The theorems. *)

\* Every variable keeps its type, for any number of lines and frames, any
\* queue size and either timing of the interrupt.
THEOREM TypeCorrect == Spec => []TypeOK
<1>1. IInv => TypeOK
  BY DEF IInv
<1> QED BY <1>1, Invariance, PTL

\* The swap of buffers in mt9v03x_finished_callback always leaves the driver two
\* active buffers, an empty queue and nothing in reserve.
THEOREM NeverStarves == Spec => []DriverNeverStarves
<1>1. IInv => DriverNeverStarves
  BY DEF IInv, HandleInv, DriverNeverStarves, HasFullBuffer
<1> QED BY <1>1, Invariance, PTL

\* What mt9v03x_image points to is never older than the frame it was published
\* for.
THEOREM PublishedKept == Spec => []PublishedFrameKept
<1>1. IInv => PublishedFrameKept
  BY Numbers DEF IInv, ImageInv, PublishedFrameKept
<1> QED BY <1>1, Invariance, PTL

\* No line of the main loop's copy is ever replaced by an older one.
THEOREM NeverGoesBack == Spec => ImageNeverGoesBack
<1>1. IInv /\ [Next]_vars => [\A l \in Line : image'[l] >= image[l]]_image
  <2> SUFFICES ASSUME IInv, Next, image' # image, NEW l \in Line
               PROVE  image'[l] >= image[l]
    BY DEF vars, mainVars
  <2>1. CopyLine
    BY DEF Next, Camera, CameraFrame, CameraLine, Interrupt, SkipFrames,
           FrameDone, Publish, Main, SeeFlag, LoadPointer, FinishImage, mainVars
  <2>2. /\ image \in [Line -> Frame]
        /\ image[l] \in Nat /\ mem[source][l] \in Nat
        /\ image[l] <= mem[source][l]
    BY <2>1, Numbers DEF IInv, TypeOK, ImageInv, CopyLine, MainStep
  <2>3. image'[l] = image[l] \/ image'[l] = mem[source][l]
    BY <2>1, <2>2 DEF CopyLine
  <2> QED BY <2>2, <2>3
<1> QED BY <1>1, Invariance, PTL DEF Spec, ImageNeverGoesBack

\* The interrupt, the shared flag and the main loop together implement the
\* one-frame mailbox: a completed frame is a delivery of a newer frame, loading
\* the pointer takes the newest frame delivered, and it is never one taken
\* before.
THEOREM ImplementsMailbox == Spec => MailboxSpec
<1>1. Init => Mailbox!Init
  BY DEF Init, Mailbox!Init
<1>2. IInv /\ [Next]_vars => [Mailbox!Next]_(Mailbox!mailbox)
  <2> SUFFICES ASSUME IInv, [Next]_vars
               PROVE  Mailbox!Next \/ UNCHANGED Mailbox!mailbox
    OBVIOUS
  <2> USE DEF Mailbox!mailbox
  <2>1. CASE CameraFrame \/ CameraLine \/ SkipFrames
    BY <2>1 DEF CameraFrame, CameraLine, SkipFrames, isrVars, mainVars
  <2>2. ASSUME NEW idx \in Register, FrameDone(idx)
        PROVE  Mailbox!Deliver
    <3>1. published' = completed /\ mt9v03x_finish_flag' = TRUE
      BY <2>2, FrameDoneEffect DEF IInv
    <3>2. UNCHANGED mainVars /\ sr # {}
      BY <2>2 DEF FrameDone, Publish
    <3>3. completed \in Frame /\ completed > published
      BY <3>2, Numbers DEF IInv, TypeOK, CsiTypeOK, ImageInv
    <3> QED BY <3>1, <3>2, <3>3 DEF Mailbox!Deliver, mainVars
  <2>3. CASE SeeFlag
    BY <2>3 DEF SeeFlag, MainStep, isrVars
  <2>4. CASE LoadPointer
    BY <2>4 DEF IInv, ImageInv, LoadPointer, MainStep, isrVars, Mailbox!Take,
                Mailbox!Next
  <2>5. CASE CopyLine
    BY <2>5 DEF CopyLine, MainStep, isrVars
  <2>6. CASE FinishImage
    BY <2>6 DEF FinishImage, MainStep, isrVars, Mailbox!Release, Mailbox!Next
  <2>7. CASE UNCHANGED vars
    BY <2>7 DEF vars, isrVars, mainVars
  <2> QED
    BY <2>1, <2>2, <2>3, <2>4, <2>5, <2>6, <2>7
       DEF Next, Camera, Interrupt, Main, Mailbox!Next
<1> QED
  BY <1>1, <1>2, Invariance, PTL DEF Spec, MailboxSpec, Mailbox!Spec

-----------------------------------------------------------------------------
(* When the blanking interval covers the interrupt and the copy. *)

Whole(lines) == \A l \in Line : lines[l] = lines[1]

\* No frame begins while a done flag or a copy is pending, so that a finished
\* frame stays as it is until it has been copied.
BlankingInv ==
  /\ sr # {} => line = 0
  /\ \A i \in Register : sr = {i} => Whole(mem[fb[i]])
  /\ CopyUnderway => sr = {} /\ line = 0 /\ Whole(mem[mt9v03x_image])
  /\ pc = "copy" =>
       /\ source = mt9v03x_image
       /\ \A l \in Line : l <= copied => image[l] = mem[source][1]
  /\ pc = "process" => Whole(image)

LEMMA InitBlanking == Init => BlankingInv
  BY Bounds DEF Init, HardwareInit, BlankingInv, CopyUnderway, Whole

LEMMA CameraBlanking ==
  ASSUME BlankingCoversCopy, IInv, BlankingInv, Camera
  PROVE  BlankingInv'
<1>1. UNCHANGED <<isrVars, mt9v03x_finish_flag, mainVars>> /\ UNCHANGED fb
  BY DEF Camera, CameraFrame, CameraLine, FrameBegins, LineArrives
<1>2. sr = {} /\ ~CopyUnderway
  BY DEF Camera, CameraFrame, CameraLine, LineArrives, BlankingInv, IInv,
         TypeOK, CsiTypeOK
<1>3. ~CopyUnderway' /\ pc' # "copy"
  BY <1>1, <1>2 DEF CopyUnderway, mainVars
<1>4. pc' = "process" => Whole(image')
  BY <1>1 DEF BlankingInv, mainVars, Whole
<1>5. CASE sr' = {}
  BY <1>3, <1>4, <1>5 DEF BlankingInv
<1>6. CASE sr' # {}
  <2>1. CameraLine /\ ~(line + 1 < Lines)
    BY <1>2, <1>6
       DEF Camera, CameraFrame, CameraLine, FrameBegins, LineArrives
  <2>2. line' = 0 /\ sr' = {dmaIdx} /\ dmaIdx \in Register
    BY <1>2, <2>1 DEF CameraLine, LineArrives, IInv, TypeOK, CsiTypeOK
  <2>3. /\ dmaBuf = fb[dmaIdx] /\ dmaBuf \in Buffer
        /\ line + 1 \in Line
        /\ mem' = [mem EXCEPT ![dmaBuf][line + 1] = frame]
    BY <2>1, Bounds DEF IInv, TypeOK, CsiTypeOK, HandleInv, ControllerInv,
                        CameraLine, LineArrives, Line
  <2>4. \A l \in Line : mem'[dmaBuf][l] = frame
    <3> SUFFICES ASSUME NEW l \in Line PROVE mem'[dmaBuf][l] = frame
      OBVIOUS
    <3>1. mem'[dmaBuf][l] = IF l = line + 1 THEN frame ELSE mem[dmaBuf][l]
      BY <2>3 DEF IInv, TypeOK, CsiTypeOK
    <3>2. l # line + 1 => l <= line
      BY <2>1, Bounds DEF IInv, TypeOK, CsiTypeOK, Line
    <3> QED BY <3>1, <3>2 DEF IInv, ControllerInv
  <2>5. ASSUME NEW i \in Register, sr' = {i}
        PROVE  Whole(mem'[fb'[i]])
    <3>1. i = dmaIdx
      BY <2>2, <2>5
    <3> QED BY <1>1, <2>3, <2>4, <3>1, Bounds DEF Whole
  <2> QED BY <1>3, <1>4, <2>2, <2>5 DEF BlankingInv
<1> QED BY <1>5, <1>6

LEMMA InterruptBlanking ==
  ASSUME IInv, BlankingInv, Interrupt
  PROVE  BlankingInv'
<1>1. CASE SkipFrames
  BY <1>1 DEF SkipFrames, BlankingInv, CopyUnderway, isrVars, mainVars, Whole
<1>2. ASSUME NEW idx \in Register, FrameDone(idx)
      PROVE  BlankingInv'
  <2>1. mt9v03x_image' = fb[idx]
    BY <1>2, FrameDoneEffect DEF IInv
  <2>2. /\ sr = {idx} /\ sr' = {} /\ UNCHANGED <<line, mem, mainVars>>
    BY <1>2 DEF FrameDone, Publish
  <2>3. line = 0 /\ Whole(mem[fb[idx]]) /\ ~CopyUnderway
    BY <2>2 DEF BlankingInv
  <2>4. pc' # "copy" /\ (pc' = "process" => Whole(image'))
    BY <2>2, <2>3 DEF CopyUnderway, BlankingInv, mainVars, Whole
  <2> QED BY <2>1, <2>2, <2>3, <2>4 DEF BlankingInv, Whole
<1> QED BY <1>1, <1>2 DEF Interrupt

LEMMA MainBlanking ==
  ASSUME IInv, BlankingInv, Main
  PROVE  BlankingInv'
<1>1. sr = {} /\ UNCHANGED csiVars /\ UNCHANGED isrVars
  BY DEF Main, SeeFlag, LoadPointer, CopyLine, FinishImage, MainStep
<1>2. CASE SeeFlag
  BY <1>1, <1>2 DEF SeeFlag, MainStep, BlankingInv, CopyUnderway, Whole,
                    csiVars, isrVars
<1>3. CASE LoadPointer
  <2>1. \A l \in Line : ~(l <= 0)
    BY Bounds DEF Line
  <2> QED
    BY <1>1, <1>3, <2>1 DEF LoadPointer, MainStep, BlankingInv, CopyUnderway,
                            Whole, csiVars, isrVars
<1>4. CASE CopyLine
  <2>1. /\ pc = "copy" /\ source = mt9v03x_image /\ UNCHANGED source
        /\ line = 0 /\ Whole(mem[source])
        /\ copied' = copied + 1 /\ copied + 1 \in Line
        /\ pc' = IF copied + 1 = Lines THEN "process" ELSE "copy"
        /\ image \in [Line -> Frame]
        /\ image' = [image EXCEPT ![copied + 1] = mem[source][copied + 1]]
    BY <1>4, Bounds DEF CopyLine, MainStep, BlankingInv, CopyUnderway, IInv,
                        TypeOK, ImageInv, Line
  <2>2. ASSUME NEW l \in Line, l <= copied + 1
        PROVE  image'[l] = mem[source][1]
    <3>1. CASE l = copied + 1
      BY <2>1, <3>1 DEF Whole
    <3>2. CASE l # copied + 1
      <4>1. l <= copied
        BY <2>2, <3>2, Numbers DEF IInv
      <4> QED BY <2>1, <3>2, <4>1 DEF BlankingInv
    <3> QED BY <3>1, <3>2
  <2>3. pc' = "process" => Whole(image')
    <3> SUFFICES ASSUME copied + 1 = Lines, NEW l \in Line
                 PROVE  image'[l] = image'[1]
      BY <2>1 DEF Whole
    <3>1. l <= copied + 1 /\ 1 <= copied + 1
      BY <2>1, Bounds DEF Line
    <3> QED BY <2>2, <3>1, Bounds
  <2> QED
    BY <1>1, <2>1, <2>2, <2>3 DEF BlankingInv, CopyUnderway, csiVars, isrVars
<1>5. CASE FinishImage
  BY <1>1, <1>5 DEF FinishImage, MainStep, BlankingInv, CopyUnderway, csiVars
<1> QED BY <1>2, <1>3, <1>4, <1>5 DEF Main

\* While the blanking interval is long enough, the image main.c works on is one
\* frame: the flag it clears after the processing makes every copy begin right
\* after an interrupt.
THEOREM CopyIsWhole ==
  ASSUME BlankingCoversCopy
  PROVE  Spec => []CopiedFrameIsWhole
<1>1. IInv /\ BlankingInv /\ [Next]_vars => BlankingInv'
  <2>1. BlankingInv /\ UNCHANGED vars => BlankingInv'
    BY DEF BlankingInv, CopyUnderway, Whole, vars, csiVars, isrVars, mainVars
  <2> QED
    BY <2>1, CameraBlanking, InterruptBlanking, MainBlanking DEF Next
<1>2. BlankingInv => CopiedFrameIsWhole
  BY DEF BlankingInv, CopiedFrameIsWhole, Whole
<1> QED BY <1>1, <1>2, InitBlanking, Invariance, PTL DEF Spec
=============================================================================
