CONSTANTS
  Tags = {"DW_TAG_compile_unit", "DW_TAG_array_type", "DW_TAG_subrange_type"}
  Nesting <- MCNesting
  Attributes = {"type", "count"}
  Offset <- MCOffset
  Datum <- MCDatum
  Garbage = {"class_type"}
  MaxDies = 4
  MaxAttrs = 2
  Padding = FALSE
SPECIFICATION Spec
INVARIANT SubrangeBoundsArray
CHECK_DEADLOCK FALSE
