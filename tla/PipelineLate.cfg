\* Interrupts may be served a whole frame late; memcpy may take any time.
SPECIFICATION Spec
CONSTANTS
  NoBuffer = NoBuffer
  Buffer = {image1, image2}
  mt9v03x_image1 = image1
  mt9v03x_image2 = image2
  CSI_DRIVER_QUEUE_SIZE = 4
  Lines = 3
  MaxFrame = 9
  IrqLate = TRUE
  BlankingCoversCopy = FALSE
INVARIANTS
  TypeOK
  DriverNeverStarves
  PublishedFrameKept
PROPERTIES
  ImageNeverGoesBack
  MailboxSpec
CHECK_DEADLOCK FALSE
