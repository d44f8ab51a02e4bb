--------------------------- MODULE MCFramePipeline ---------------------------
(***************************************************************************)
(* Model checking FramePipeline.  MaxFrame bounds the frame numbers; for   *)
(* liveness the camera must go on for ever, so Renumber takes Shift off    *)
(* every number once the bound is reached.  Only numbers change, and no    *)
(* action but the bound in FrameBegins looks at them.                      *)
(***************************************************************************)
EXTENDS FramePipeline

CONSTANT Shift

Earlier(n) == IF n > Shift THEN n - Shift ELSE 0

Renumber ==
  /\ frame = MaxFrame
  /\ frame' = Earlier(frame)
  /\ completed' = Earlier(completed)
  /\ mem' = [b \in Buffer |-> [l \in Line |-> Earlier(mem[b][l])]]
  /\ published' = Earlier(published)
  /\ image' = [l \in Line |-> Earlier(image[l])]
  /\ taken' = Earlier(taken)
  /\ UNCHANGED <<handle, fb, sr, dmaIdx, dmaBuf, line, mt9v03x_image,
                 mt9v03x_finish_flag, pc, source, copied>>

\* The sensor keeps sending and a pending interrupt is taken.  Interrupts come
\* and go for ever and hold the main loop up each time, but between any two of
\* them the processor executes main-loop code: strong fairness.
Fairness ==
  /\ WF_vars(Camera)
  /\ WF_vars(Renumber)
  /\ WF_vars(Interrupt)
  /\ SF_vars(Main)

LiveSpec == Init /\ [][Next \/ Renumber]_vars /\ Fairness

\* The main loop goes on taking new frames for ever: neither the driver's
\* buffers nor a flag erased by main.c can stop the flow of images.
CameraKeepsServed == []<><<LoadPointer>>_vars
=============================================================================
