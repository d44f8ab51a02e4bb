---------------------------- MODULE FramePipeline ----------------------------
(***************************************************************************)
(* One image from the sensor to the steering decision: the CSI interrupt   *)
(* with the camera callback mt9v03x_finished_callback, and the main loop   *)
(* of main.c that copies a published image and processes the copy.         *)
(*                                                                         *)
(* The two contexts share mt9v03x_image and mt9v03x_finish_flag.  The main *)
(* loop runs with interrupts enabled, so it takes no step while a done     *)
(* flag waits for the handler; the DMA writes memory at any time.          *)
(***************************************************************************)
EXTENDS CsiController

CONSTANTS mt9v03x_image1,     \* the two frame buffers of the camera
          mt9v03x_image2,
          BlankingCoversCopy  \* whether an interrupt, the flag test and the
                              \* memcpy that follow it fit between two frames

ASSUME PipelineAssumption ==
  /\ mt9v03x_image1 # mt9v03x_image2
  /\ Buffer = {mt9v03x_image1, mt9v03x_image2}
  /\ BlankingCoversCopy \in BOOLEAN

VARIABLES
  mt9v03x_image,        \* the published buffer
  mt9v03x_finish_flag,  \* a frame is waiting
  published,            \* number of the frame last published
  pc,                   \* where the main loop is
  source,               \* the buffer memcpy reads
  copied,               \* lines memcpy has copied
  image,                \* image[l]: the frame line l of the copy comes from
  taken                 \* number of the frame published when memcpy began

isrVars == <<mt9v03x_image, published>>
mainVars == <<pc, source, copied, image, taken>>
vars == <<csiVars, isrVars, mt9v03x_finish_flag, mainVars>>

OtherImage(buffer) ==
  IF buffer = mt9v03x_image1 THEN mt9v03x_image2 ELSE mt9v03x_image1

\* Both buffers submitted by mt9v03x_init.
SubmittedHandle ==
  PutEmptyBuffer(PutEmptyBuffer(CreateHandle, mt9v03x_image1), mt9v03x_image2)

Init ==
  /\ HardwareInit
  /\ handle = StartHandle(SubmittedHandle)
  /\ fb = StartRegisters(SubmittedHandle)
  /\ mt9v03x_image = mt9v03x_image1
  /\ mt9v03x_finish_flag = FALSE
  /\ published = 0
  /\ pc = "wait"
  /\ source = mt9v03x_image1
  /\ copied = 0
  /\ image = [l \in Line |-> 0]
  /\ taken = 0

-----------------------------------------------------------------------------
(* The camera. *)

CopyUnderway ==
  \/ pc \in {"load", "copy"}
  \/ pc = "wait" /\ mt9v03x_finish_flag

CameraFrame ==
  /\ BlankingCoversCopy => sr = {} /\ ~CopyUnderway
  /\ FrameBegins
  /\ UNCHANGED <<isrVars, mt9v03x_finish_flag, mainVars>>

CameraLine ==
  /\ LineArrives
  /\ UNCHANGED <<isrVars, mt9v03x_finish_flag, mainVars>>

-----------------------------------------------------------------------------
(* CSI_TransferHandleIRQ, with mt9v03x_finished_callback called inside it. *)

\* Both flags: the driver cannot tell which frame is the newer, and drops both.
SkipFrames ==
  /\ sr = Register
  /\ sr' = {}
  /\ UNCHANGED <<handle, fb, dmaIdx, dmaBuf, line, frame, completed, mem>>
  /\ UNCHANGED <<isrVars, mt9v03x_finish_flag, mainVars>>

\* The handle when the callback is called, and the buffer it then gets.
QueuedHandle(idx) ==
  IF CanQueueFrame(handle) THEN PutFullBuffer(handle, fb[idx]) ELSE handle

Notifies(idx) == CanQueueFrame(handle) /\ HasFullBuffer(QueuedHandle(idx))

\* Mutant: the callback does not submit a buffer.
CallbackHandleKeepsBuffer(idx) ==
  IF Notifies(idx) THEN DropFullBuffer(QueuedHandle(idx)) ELSE QueuedHandle(idx)

\* The callback takes the full buffer and submits the other one.
CallbackHandle(idx) ==
  LET h == QueuedHandle(idx)
  IN  IF Notifies(idx)
        THEN PutEmptyBuffer(DropFullBuffer(h), OtherImage(FullBuffer(h)))
        ELSE h

Publish(idx) ==
  /\ handle' = RearmHandle(CallbackHandle(idx))
  /\ fb' = RearmRegisters(CallbackHandle(idx), fb, idx)
  /\ IF Notifies(idx)
       THEN /\ mt9v03x_image' = FullBuffer(QueuedHandle(idx))
            /\ mt9v03x_finish_flag' = TRUE
            /\ published' = completed
       ELSE UNCHANGED <<isrVars, mt9v03x_finish_flag>>
  /\ UNCHANGED <<dmaIdx, dmaBuf, line, frame, completed, mem, mainVars>>

\* Mutant: with both flags set the handler takes the second for the frame done.
FrameDoneNoSkip(idx) ==
  /\ sr = {idx} \/ (sr = Register /\ idx = 1)
  /\ sr' = {}
  /\ Publish(idx)

FrameDone(idx) ==
  /\ sr = {idx}
  /\ sr' = {}
  /\ Publish(idx)

-----------------------------------------------------------------------------
(* The main loop. *)

MainStep(from, to) ==
  /\ sr = {}
  /\ pc = from
  /\ pc' = to
  /\ UNCHANGED <<csiVars, isrVars>>

SeeFlag ==
  /\ MainStep("wait", "load")
  /\ mt9v03x_finish_flag
  /\ UNCHANGED <<mt9v03x_finish_flag, source, copied, image, taken>>

\* memcpy is called with the pointer as it is now.
LoadPointer ==
  /\ MainStep("load", "copy")
  /\ source' = mt9v03x_image
  /\ copied' = 0
  /\ taken' = published
  /\ UNCHANGED <<mt9v03x_finish_flag, image>>

CopyLine ==
  /\ MainStep("copy", IF copied + 1 = Lines THEN "process" ELSE "copy")
  /\ image' = [image EXCEPT ![copied + 1] = mem[source][copied + 1]]
  /\ copied' = copied + 1
  /\ UNCHANGED <<mt9v03x_finish_flag, source, taken>>

\* Mutant: the flag stays set after the processing.
FinishImageKeepsFlag ==
  /\ MainStep("process", "wait")
  /\ UNCHANGED <<mt9v03x_finish_flag, source, copied, image, taken>>

\* Histogram, threshold, borders, display and steering work on the copy; then
\* the flag is cleared, whatever the interrupt did to it meanwhile.
FinishImage ==
  /\ MainStep("process", "wait")
  /\ mt9v03x_finish_flag' = FALSE
  /\ UNCHANGED <<source, copied, image, taken>>

-----------------------------------------------------------------------------
Camera == CameraFrame \/ CameraLine
Interrupt == SkipFrames \/ \E idx \in Register : FrameDone(idx)
Main == SeeFlag \/ LoadPointer \/ CopyLine \/ FinishImage

Next == Camera \/ Interrupt \/ Main

Spec == Init /\ [][Next]_vars

-----------------------------------------------------------------------------
(* Properties. *)

TypeOK ==
  /\ CsiTypeOK
  /\ mt9v03x_image \in Buffer
  /\ mt9v03x_finish_flag \in BOOLEAN
  /\ published \in Frame
  /\ pc \in {"wait", "load", "copy", "process"}
  /\ source \in Buffer
  /\ copied \in 0 .. Lines
  /\ image \in [Line -> Frame]
  /\ taken \in Frame

\* Between interrupts the driver always has two active buffers, no full buffer
\* left in its queue and no empty one in reserve: the swap in
\* mt9v03x_finished_callback keeps CSI_TransferHandleIRQ from ever refusing a
\* completed frame for want of a buffer or of queue room.
DriverNeverStarves ==
  /\ handle.activeBufferNum = CSI_MAX_ACTIVE_FRAME_NUM
  /\ handle.emptyBufferCnt = 0
  /\ ~HasFullBuffer(handle)

\* The buffer mt9v03x_image points to holds the frame it was published for or
\* lines of a later one, although the callback hands the other buffer back to
\* a driver whose DMA is already filling it.
PublishedFrameKept ==
  \A l \in Line : mem[mt9v03x_image][l] >= published

\* The picture the main loop works on never goes back in time: no line of the
\* copy is ever replaced by the same line of an earlier frame, even when the
\* DMA overtakes memcpy, frames are skipped and the pointer moves under it.
ImageNeverGoesBack ==
  [][\A l \in Line : image'[l] >= image[l]]_image

\* When the blanking interval covers the interrupt, the flag test and memcpy,
\* the copy main.c works on is one frame, as "save the image elsewhere, so
\* that no read and write conflict arises" wants.  It holds because the flag
\* is cleared after the processing: a frame that completes while the loop is
\* busy is forgotten, so a copy always begins right after an interrupt.
CopiedFrameIsWhole ==
  pc = "process" => \A l \in Line : image[l] = image[1]

\* The pipeline implements the one-frame mailbox: the main loop takes the
\* newest frame delivered, never the same frame twice, although the flag is
\* shared with the interrupt and cleared without looking.
Mailbox == INSTANCE FrameMailbox
             WITH latest <- published,
                  unread <- mt9v03x_finish_flag,
                  held <- taken,
                  busy <- pc \in {"copy", "process"}

MailboxSpec == Mailbox!Spec
=============================================================================
