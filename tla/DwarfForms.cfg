SPECIFICATION Spec
CONSTANTS
  Garbage = {"none"}
  Group = 7
  Width = 28
  Overshift <- MaskedShift
  InfoAddress = 1000
  StrAddress = 2000
  MaxDies = 9
  Sections <- MCSections
INVARIANT TypeOK
PROPERTIES
  WalksItsDies
  EveryDieRead
CHECK_DEADLOCK FALSE
