SPECIFICATION FairSpec
CONSTANTS
  Content = {c1, c2}
  Blank = blank
  NoFixYet = {c2}
INVARIANTS
  TypeOK
  InfoIsOneSentence
  ExtractsChecked
PROPERTIES
  WaitingIsParsed
  NeverStuckParsing
CHECK_DEADLOCK TRUE
