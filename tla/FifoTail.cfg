\* Any caller that reads the tail of a fifo that has wrapped.
SPECIFICATION TailSpec
CONSTANTS
  Max = 3
  Data = {0, 1}
  Blank = 0
  Outside = Outside
  Word = 256
  Lengths = {1, 2, 3}
PROPERTIES
  TailReadReturnsNewest
