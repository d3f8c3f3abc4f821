\* A byte of three bits in place of eight, five bits in place of 32: as in the
\* code, the last byte that counts is cut off by the width of the result.
SPECIFICATION Spec
CONSTANTS
  Group = 2
  Width = 5
  Overshift <- MaskedShift
  MaxLength = 4
INVARIANTS
  ReadsBack
  StopsInTime
CHECK_DEADLOCK FALSE
