------------------------------- MODULE MCDieWalk -------------------------------
EXTENDS DieWalk

\* Which DIEs own which: the tree structure compilers emit (DWARF 4, appendix A).
Scopes == {"DW_TAG_compile_unit", "DW_TAG_namespace", "DW_TAG_subprogram"}
Aggregates == {"DW_TAG_class_type", "DW_TAG_structure_type", "DW_TAG_union_type"}
Owned == {"DW_TAG_member", "DW_TAG_inheritance", "DW_TAG_subrange_type", "DW_TAG_enumerator"}
MCNesting ==
  (Scopes \X (Tags \ (Owned \union Roots)))
    \union (Aggregates \X (Tags \ (Roots \union {"DW_TAG_subrange_type", "DW_TAG_enumerator"})))
    \union {<<"DW_TAG_array_type", "DW_TAG_subrange_type">>,
            <<"DW_TAG_enumeration_type", "DW_TAG_enumerator">>}
    \union ({"DW_TAG_variant_part"} \X {"DW_TAG_member"})

\* A DIE is at its rank; distinct values, so that a misplaced one shows.
MCOffset == [d \in 1 .. MaxDies |-> {d}]
Code == [name |-> 1, linkage_name |-> 2, byte_size |-> 3,
         data_member_location |-> 4, type |-> 5, count |-> 6]
MCDatum == [a \in Attribute |-> [d \in 1 .. MaxDies |-> {10 * d + Code[a]}]]
================================================================================
