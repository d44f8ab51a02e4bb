SPECIFICATION FairSpec
CONSTANTS
  MT9V03X_INIT_TIMEOUT = 2
  Size = 8
  GetItems = 2
  Value = {1, 2}
  MaxUser = 0
  Word = 256
  Late = {"version", "config"}
PROPERTIES
  InitIsRetried
CHECK_DEADLOCK FALSE
