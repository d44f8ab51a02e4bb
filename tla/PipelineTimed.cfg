\* Interrupts are served within a frame and the copy fits in the blanking.
SPECIFICATION LiveSpec
CONSTANTS
  NoBuffer = NoBuffer
  Buffer = {image1, image2}
  mt9v03x_image1 = image1
  mt9v03x_image2 = image2
  CSI_DRIVER_QUEUE_SIZE = 4
  Lines = 3
  MaxFrame = 8
  Shift = 4
  IrqLate = FALSE
  BlankingCoversCopy = TRUE
INVARIANTS
  CopiedFrameIsWhole
PROPERTIES
  CameraKeepsServed
