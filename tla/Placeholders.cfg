CONSTANTS
  Tags = {"DW_TAG_compile_unit", "DW_TAG_class_type", "DW_TAG_subprogram"}
  Nesting <- MCNesting
  Attributes = {"name", "linkage_name"}
  Offset <- MCOffset
  Datum <- MCDatum
  Garbage = {"none"}
  MaxDies = 4
  MaxAttrs = 2
  Padding = FALSE
SPECIFICATION Spec
INVARIANT PlaceholdersIdle
CHECK_DEADLOCK FALSE
