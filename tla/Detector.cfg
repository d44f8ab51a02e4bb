\* Of the two values of a byte, 1 is the channel that has a parameter and 0 one
\* that has none: a packet for 0 is stored outside detector_parameter, and the
\* behaviour ends there.
SPECIFICATION Spec
CONSTANTS
  Base = 2
  ReceiveHead = 1
  PacketSize = 5
  DETECTOR_SET_PARAMETR_COUNT = 1
  BufferSize = 8
  BurstSize = 2
  MaxBytes = 12
INVARIANTS
  TypeOK
  ParametersFollowStream
  SmallChunkFits
CHECK_DEADLOCK FALSE
