\* As many buffers as the driver's arrays have slots.
SPECIFICATION Spec
CONSTANTS
  NoBuffer = NoBuffer
  Buffer = {b1, b2, b3}
  CSI_DRIVER_QUEUE_SIZE = 2
  Lines = 2
  MaxFrame = 5
  IrqLate = TRUE
SYMMETRY BufferSymmetry
INVARIANTS
  TypeOK
  BuffersConserved
  DmaKeepsOut
  QueueInOrder
PROPERTIES
  FrameQueueSpec
CHECK_DEADLOCK FALSE
