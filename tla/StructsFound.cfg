CONSTANTS
  Garbage <- MCGarbage
  Text <- MCText
  Trees <- MCTrees
  class_size = 16
SPECIFICATION Spec
INVARIANTS
  StructsFound
CHECK_DEADLOCK FALSE
