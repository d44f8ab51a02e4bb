---------------------------- MODULE MCCsiTransfer ----------------------------
(* Model checking CsiTransfer: the frame buffers are interchangeable. *)
EXTENDS CsiTransfer, TLC

BufferSymmetry == Permutations(Buffer)
=============================================================================
