CONSTANTS
  Tags = {"DW_TAG_compile_unit", "DW_TAG_subprogram", "DW_TAG_class_type",
          "DW_TAG_member", "DW_TAG_inheritance", "DW_TAG_array_type", "DW_TAG_subrange_type"}
  Nesting <- MCNesting
  Attributes = {"name", "linkage_name", "byte_size", "data_member_location", "type", "count"}
  Offset <- MCOffset
  Datum <- MCDatum
  Garbage = {"none", "member", "class_type"}
  MaxDies = 4
  MaxAttrs = 2
  Padding = FALSE
SPECIFICATION Spec
INVARIANTS CurrentDieExact ExactWithoutStrays
CHECK_DEADLOCK FALSE
