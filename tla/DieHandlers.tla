------------------------------ MODULE DieHandlers ------------------------------
(***************************************************************************)
(* DwarfFile::RegisterNewTag and DwarfFile::LogDwarfInfo: what a tag and an*)
(* attribute of a DIE do to the TreeBuilder.  The walk calls the first once*)
(* per DIE and the second once per attribute.                              *)
(***************************************************************************)
EXTENDS TreeBuilder

\* RegisterNewTag: the tags that are registered, and as what.
TagElement ==
  [DW_TAG_array_type |-> "array_type", DW_TAG_class_type |-> "class_type",
   DW_TAG_enumeration_type |-> "enumerator_type", DW_TAG_member |-> "member",
   DW_TAG_pointer_type |-> "pointer_type", DW_TAG_structure_type |-> "structure_type",
   DW_TAG_typedef |-> "typedef2", DW_TAG_union_type |-> "union_type",
   DW_TAG_inheritance |-> "inheritance", DW_TAG_subrange_type |-> "subrange_type",
   DW_TAG_base_type |-> "base_type", DW_TAG_const_type |-> "const_type"]

ElementOf(tag) == IF tag \in DOMAIN TagElement THEN TagElement[tag] ELSE "none"

RegisterNewTag(tag, tag_id, has_children) ==
  AddElement(ElementOf(tag), IF ElementOf(tag) = "none" THEN 0 ELSE tag_id, has_children)

\* LogDwarfInfo: the attributes that reach the builder; PassData skips the others.
Attribute == {"name", "linkage_name", "byte_size", "data_member_location",
              "type", "count"}

LogDwarfInfo(a, v) ==
  CASE a \in {"name", "linkage_name"} -> SetElementName(v)
    [] a = "byte_size" -> SetElementSize(v)
    [] a = "data_member_location" -> SetElementOffset(v)
    [] a = "type" -> SetElementType(v)
    [] a = "count" -> SetElementCount(v)

================================================================================
