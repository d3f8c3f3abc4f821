CONSTANTS
  Tags = {"DW_TAG_compile_unit", "DW_TAG_enumeration_type", "DW_TAG_enumerator"}
  Nesting <- MCNesting
  Attributes = {"name"}
  Offset <- MCOffset
  Datum <- MCDatum
  Garbage = {"class_type"}
  MaxDies = 4
  MaxAttrs = 2
  Padding = FALSE
SPECIFICATION Spec
INVARIANT EveryTypeExact
CHECK_DEADLOCK FALSE
