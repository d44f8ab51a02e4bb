---------------------------- MODULE CsiController ----------------------------
(***************************************************************************)
(* The CSI peripheral as fsl_csi.c programs it: two frame buffer address   *)
(* registers used by turns, a DMA that writes an incoming frame line by    *)
(* line, and one done flag per register.  TransferStart selects "DMA base  *)
(* addr switch at the edge of the first data of each frame", so the        *)
(* register is read when a frame begins and not again.                     *)
(*                                                                         *)
(* Frames are numbered from 1 as they begin.  A line of memory holds the   *)
(* number of the frame it was last written by, 0 before that.              *)
(***************************************************************************)
EXTENDS CsiHandle

CONSTANTS Lines,     \* lines in a frame
          MaxFrame,  \* bound: frames the camera sends
          IrqLate    \* whether a frame may complete while the done flag of an
                     \* earlier one still waits for the interrupt handler

ASSUME ControllerAssumption ==
  /\ Lines \in Nat /\ Lines >= 2
  /\ MaxFrame \in Nat
  /\ IrqLate \in BOOLEAN

VARIABLES
  handle,     \* the driver's csi_handle_t
  fb,         \* DMASA_FB1 and DMASA_FB2, indexed 0 and 1 as in the driver
  sr,         \* the registers whose done flag is set in the status register
  dmaIdx,     \* the register the current or the next frame uses
  dmaBuf,     \* the buffer latched for the current frame
  line,       \* lines of the current frame written, 0 between two frames
  frame,      \* number of the last frame that began
  completed,  \* number of the last frame that completed
  mem         \* mem[b][l]: the frame that line l of buffer b comes from

csiVars == <<handle, fb, sr, dmaIdx, dmaBuf, line, frame, completed, mem>>

Line == 1 .. Lines
Frame == 0 .. MaxFrame
Register == 0 .. 1

CsiTypeOK ==
  /\ handle \in Handle
  /\ fb \in [Register -> Address]
  /\ sr \in SUBSET Register
  /\ dmaIdx \in Register
  /\ dmaBuf \in Address
  /\ line \in 0 .. Lines - 1
  /\ frame \in Frame
  /\ completed \in Frame
  /\ mem \in [Buffer -> [Line -> Frame]]

\* The peripheral and the memory before the first frame.
HardwareInit ==
  /\ sr = {}
  /\ dmaIdx = 0
  /\ dmaBuf = NoBuffer
  /\ line = 0
  /\ frame = 0
  /\ completed = 0
  /\ mem = [b \in Buffer |-> [l \in Line |-> 0]]

\* The first data of a frame: the DMA latches the address and writes a line.
FrameBegins ==
  /\ handle.transferStarted
  /\ line = 0
  /\ frame < MaxFrame
  /\ dmaBuf' = fb[dmaIdx]
  /\ frame' = frame + 1
  /\ line' = 1
  /\ mem' = [mem EXCEPT ![fb[dmaIdx]][1] = frame + 1]
  /\ UNCHANGED <<handle, fb, sr, dmaIdx, completed>>

\* Another line; the last one sets the done flag and turns to the other
\* register for the next frame.
LineArrives ==
  /\ line > 0
  /\ mem' = [mem EXCEPT ![dmaBuf][line + 1] = frame]
  /\ IF line + 1 < Lines
       THEN /\ line' = line + 1
            /\ UNCHANGED <<sr, dmaIdx, completed>>
       ELSE /\ IrqLate \/ sr = {}
            /\ line' = 0
            /\ sr' = sr \cup {dmaIdx}
            /\ dmaIdx' = 1 - dmaIdx
            /\ completed' = frame
  /\ UNCHANGED <<handle, fb, dmaBuf, frame>>
=============================================================================
