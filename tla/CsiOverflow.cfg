\* One buffer more than the arrays of the driver as built have slots.
SPECIFICATION Spec
CONSTANTS
  NoBuffer = NoBuffer
  Buffer = {b1, b2, b3, b4, b5, b6}
  CSI_DRIVER_QUEUE_SIZE = 4
  Lines = 2
  MaxFrame = 1
  IrqLate = FALSE
SYMMETRY BufferSymmetry
INVARIANTS
  EmptyListFits
