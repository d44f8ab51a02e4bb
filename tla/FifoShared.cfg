\* A receive interrupt and a reader.
SPECIFICATION Spec
CONSTANTS
  Max = 3
  Data = {0, 1}
  Blank = 0
  Outside = Outside
  Word = 256
  Lengths = {1, 2, 3, 4}
  MaxBytes = 8
INVARIANTS
  TypeOK
  NeverInventsData
