\* A careful caller, with lengths up to one more than the fifo holds.
SPECIFICATION CheckedSpec
CONSTANTS
  Max = 3
  Data = {0, 1}
  Blank = 0
  Outside = Outside
  Word = 256
  Lengths = {0, 1, 2, 3, 4}
INVARIANTS
  TypeOK
  IndicesAgree
PROPERTIES
  QueueSpec
