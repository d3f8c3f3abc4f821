CONSTANTS
  Garbage <- MCGarbage
  Text <- MCText
  Trees <- MCTrees
  class_size = 16
SPECIFICATION Spec
INVARIANTS
  TypeOK
  OffsetsExactOnce
  FindsItsClasses
  EndsOnUnnamed
PROPERTIES
  Ends
CHECK_DEADLOCK FALSE
