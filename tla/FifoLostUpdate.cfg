\* The interrupt between the load and the store of size.
SPECIFICATION Spec
CONSTANTS
  Max = 3
  Data = {0, 1}
  Blank = 0
  Outside = Outside
  Word = 256
  Lengths = {1, 2, 3, 4}
  MaxBytes = 8
INVARIANTS
  SizeIsRemainingRoom
