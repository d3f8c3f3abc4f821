CONSTANTS
  Tags = {"DW_TAG_compile_unit", "DW_TAG_subprogram", "DW_TAG_class_type",
          "DW_TAG_member", "DW_TAG_inheritance", "DW_TAG_variant_part"}
  Nesting <- MCNesting
  Attributes = {"name"}
  Offset <- MCOffset
  Datum <- MCDatum
  Garbage = {"none", "member", "inheritance", "subrange_type", "class_type"}
  MaxDies = 6
  MaxAttrs = 0
  Padding = TRUE
SPECIFICATION Spec
INVARIANTS TypeOK StackMirrorsOpen TypesInOrder ChildrenFiled
CHECK_DEADLOCK FALSE
