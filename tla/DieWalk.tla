-------------------------------- MODULE DieWalk --------------------------------
(***************************************************************************)
(* DwarfFile::GetAllClasses at the granularity of its calls to TreeBuilder:*)
(* the walk over the compilation units of .debug_info, DIE by DIE and      *)
(* attribute by attribute.  Bytes, forms and abbreviation tables are left  *)
(* out here: a DIE is its offset (tag_id), its tag, its has_children flag  *)
(* and the values of the attributes that reach the builder.                *)
(*                                                                         *)
(* The section is chosen while it is read: dies and open are the history   *)
(* of what has been read, the yardstick of the properties; the code keeps  *)
(* neither.                                                                *)
(***************************************************************************)
EXTENDS DieHandlers, FiniteSets

CONSTANTS
  Tags,      \* the DIE tags that occur
  Nesting,   \* <<parent, child>>: the tags that occur as children of a tag
  Attributes,\* the attributes that occur
  Offset,    \* Offset[d]: where DIE number d may be in the section
  Datum,     \* Datum[a][d]: what attribute a of DIE number d may hold
  MaxDies,   \* bound: DIEs in the section
  MaxAttrs,  \* bound: attributes in the section
  Padding    \* whether null entries may follow the last DIE of a unit

VARIABLES
  pc,    \* "unit" | "root" | "die" | "attr" | "returned": where the loops are
  dies,  \* history: the DIEs read so far
  open   \* history: the DIEs whose list of children is not over

vars == <<elements_, nested_elements_, last_parsed_type_, pc, dies, open>>

--------------------------------------------------------------------------------
\* What compilers put in a DIE (DWARF 4, appendix A): a unit has one root, and
\* members and base classes have neither children nor the one an own name.
Roots == {"DW_TAG_compile_unit"}
Leaves == {"DW_TAG_member", "DW_TAG_inheritance", "DW_TAG_subrange_type"}
MayCarry(tag, a) ==
  tag = "DW_TAG_inheritance" => a \in {"data_member_location", "type"}

TypeTag(tag) ==
  ElementOf(tag) \notin {"none", "member", "inheritance", "subrange_type"}

ASSUME BoundsAssumption == MaxDies \in Nat /\ MaxAttrs \in Nat /\ Padding \in BOOLEAN
ASSUME DatumAssumption ==
  /\ Attributes \subseteq Attribute
  /\ Offset \in [1 .. MaxDies -> SUBSET Nat]
  /\ Datum \in [Attribute -> [1 .. MaxDies -> SUBSET Nat]]

\* attrs holds the value of every attribute read, {} where there is none.
Die == [id : Nat, tag : Tags, children : BOOLEAN, parent : Nat,
        attrs : [Attribute -> SUBSET Nat]]
Current == Len(dies)
Has(d, a) == dies[d].attrs[a] # {}
AttrsRead == {x \in (DOMAIN dies) \X Attribute : Has(x[1], x[2])}

--------------------------------------------------------------------------------
Init ==
  /\ BuilderInit
  /\ pc = "unit"
  /\ dies = <<>>
  /\ open = <<>>

\* while (info_bytes > 0): the header and the abbreviations of the next unit.
ReadUnit ==
  /\ pc = "unit"
  /\ pc' = "root"
  /\ UNCHANGED <<builder, dies, open>>

\* The section is over, LoadAbbrevTags fails, an abbreviation is unknown, or a
\* value has a form FormDataValue does not know.  Every return gives false, which
\* main ignores; the last case is an exit(1).
Return ==
  /\ pc # "returned"
  /\ pc' = "returned"
  /\ UNCHANGED <<builder, dies, open>>

ReadDie(tag_id, tag, has_children) ==
  /\ pc = (IF tag \in Roots THEN "root" ELSE "die")
  /\ pc = "die" => open # <<>> /\ <<dies[Last(open)].tag, tag>> \in Nesting
  /\ tag \in Leaves => ~has_children
  /\ \A d \in DOMAIN dies : dies[d].id < tag_id
  /\ RegisterNewTag(tag, tag_id, has_children)
  /\ dies' = Append(dies, [id |-> tag_id, tag |-> tag, children |-> has_children,
                           parent |-> IF open = <<>> THEN 0 ELSE Last(open),
                           attrs |-> [a \in Attribute |-> {}]])
  /\ open' = IF has_children THEN Append(open, Len(dies')) ELSE open
  /\ pc' = "attr"

\* One turn of the attribute loop.
ReadAttribute(a, v) ==
  /\ pc = "attr"
  /\ ~Has(Current, a)
  /\ MayCarry(dies[Current].tag, a)
  /\ Cardinality(AttrsRead) < MaxAttrs
  /\ LogDwarfInfo(a, v)
  /\ dies' = [dies EXCEPT ![Current].attrs[a] = {v}]
  /\ UNCHANGED <<pc, open>>

EndOfAttributes ==
  /\ pc = "attr"
  /\ pc' = "die"
  /\ UNCHANGED <<builder, dies, open>>

\* abbrev_num = 0: the end of a list of children, or padding.
ReadNull ==
  /\ pc = "die"
  /\ open # <<>> \/ Padding
  /\ EndOfChildren
  /\ open' = IF open = <<>> THEN <<>> ELSE Front(open)
  /\ UNCHANGED <<pc, dies>>

\* info reaches info_end.
EndUnit ==
  /\ pc = "die"
  /\ open = <<>>
  /\ pc' = "unit"
  /\ UNCHANGED <<builder, dies, open>>

Next ==
  \/ ReadUnit
  \/ Return
  \/ /\ Len(dies) < MaxDies
     /\ \E tag_id \in Offset[Len(dies) + 1], tag \in Tags, has_children \in BOOLEAN :
          ReadDie(tag_id, tag, has_children)
  \/ /\ pc = "attr"
     /\ \E a \in Attributes : \E v \in Datum[a][Current] : ReadAttribute(a, v)
  \/ EndOfAttributes
  \/ ReadNull
  \/ EndUnit

Spec == Init /\ [][Next]_vars

--------------------------------------------------------------------------------
Types == {k \in DOMAIN elements_ : elements_[k].type_ # "none"}

\* The shape of the state: the builder's, and that of the history.
TypeOK ==
  /\ BuilderTypeOK
  /\ pc \in {"unit", "root", "die", "attr", "returned"}
  /\ dies \in Seq(Die) /\ Len(dies) <= MaxDies
  /\ open \in Seq(1 .. Len(dies))
  /\ \A d \in 1 .. Len(dies) : dies[d].parent < d
  /\ \A c, d \in 1 .. Len(dies) : c < d => dies[c].id < dies[d].id
  /\ pc = "attr" => dies # <<>>

\* Element e is the record of DIE d, or its placeholder.
Mirrors(e, d) ==
  IF TypeTag(dies[d].tag) THEN e.type_ = ElementOf(dies[d].tag) /\ e.id_ = dies[d].id
  ELSE e.type_ = "none"

\* The builder's stack is the stack of open DIEs: children always go to the
\* record of their own parent, or to its placeholder.
StackMirrorsOpen ==
  /\ Len(nested_elements_) = Len(open)
  /\ \A i \in DOMAIN open : Mirrors(elements_[nested_elements_[i]], open[i])

\* Every type DIE has one element, in the order of the section.
TypesInOrder ==
  /\ {elements_[k].id_ : k \in Types}
       = {dies[d].id : d \in {c \in DOMAIN dies : TypeTag(dies[c].tag)}}
  /\ \A j, k \in Types : j < k => elements_[j].id_ < elements_[k].id_

\* Every member and base class of a type is filed in its record, in order, and
\* nothing else is; a placeholder holds none.
DieAt(id) == CHOOSE d \in DOMAIN dies : dies[d].id = id
ChildrenOf(d, tag) == {c \in DOMAIN dies : dies[c].parent = d /\ dies[c].tag = tag}

ChildrenFiled ==
  \A k \in DOMAIN elements_ :
    LET e == elements_[k] IN
    IF k \in Types
    THEN /\ {e.members_[i].id_ : i \in DOMAIN e.members_}
              = {dies[c].id : c \in ChildrenOf(DieAt(e.id_), "DW_TAG_member")}
         /\ \A i, j \in DOMAIN e.members_ : i < j => e.members_[i].id_ < e.members_[j].id_
         /\ Len(e.parents_) = Cardinality(ChildrenOf(DieAt(e.id_), "DW_TAG_inheritance"))
    ELSE e.members_ = <<>> /\ e.parents_ = <<>>

\* A DIE is recorded when it is a type, or a member or base class of a type.
Recorded(d) ==
  \/ TypeTag(dies[d].tag)
  \/ /\ dies[d].tag \in {"DW_TAG_member", "DW_TAG_inheritance"}
     /\ dies[d].parent # 0 /\ TypeTag(dies[dies[d].parent].tag)

\* The value of a field that the attributes in kinds of DIE d set.
Holds(value, kinds, d) ==
  LET present == UNION {dies[d].attrs[a] : a \in kinds} IN
  IF present = {} THEN value = 0 ELSE value \in present

\* The record of a type or a member, or of a base class, says what DIE d says.
ElementExact(e, d) ==
  /\ Holds(e.name_, {"name", "linkage_name"}, d)
  /\ Holds(e.size_, {"byte_size"}, d)
  /\ Holds(e.type_id_, {"type"}, d)
  /\ Holds(e.offset_, IF e.type_ = "member" THEN {"data_member_location"} ELSE {}, d)
  /\ e.count_ = 0

ParentExact(p, d) ==
  /\ IF Has(d, "type") THEN Holds(p.id, {"type"}, d) ELSE p.id = dies[d].id
  /\ Holds(p.offset, {"data_member_location"}, d)

\* The base classes of DIE d up to the one at c: how many, and so where c is filed.
BasesUpTo(d, c) == {b \in ChildrenOf(d, "DW_TAG_inheritance") : b <= c}

TypeExact(e) ==
  LET d == DieAt(e.id_) IN
  /\ ElementExact(e, d)
  /\ \A i \in DOMAIN e.members_ : ElementExact(e.members_[i], DieAt(e.members_[i].id_))
  /\ \A c \in ChildrenOf(d, "DW_TAG_inheritance") :
       LET i == Cardinality(BasesUpTo(d, c))
       IN  i \in DOMAIN e.parents_ /\ ParentExact(e.parents_[i], c)

\* While the attributes of a recorded DIE are read they all reach its record,
\* whatever has been read before.
CurrentDieExact ==
  pc = "attr" /\ Recorded(Current) =>
    CASE dies[Current].tag = "DW_TAG_member" ->
           LET m == Last(elements_[Innermost].members_)
           IN  m.id_ = dies[Current].id /\ ElementExact(m, Current)
      [] dies[Current].tag = "DW_TAG_inheritance" ->
           ParentExact(Last(elements_[Innermost].parents_), Current)
      [] OTHER ->
           elements_[Newest].id_ = dies[Current].id /\ ElementExact(elements_[Newest], Current)

\* The DIEs that leave a trace they should not: childless ones that are not
\* recorded, yet carry attributes that reach the builder.
Stray(d) == ~Recorded(d) /\ ~dies[d].children /\ \E a \in Attribute : Has(d, a)

\* Without them the records say what the DIEs say.
ExactWithoutStrays ==
  (\A d \in DOMAIN dies : ~Stray(d)) => \A k \in Types : TypeExact(elements_[k])

--------------------------------------------------------------------------------
(* What the repository says, and the code does not do. *)

\* The dump gives every type and member the name, size and type of its own DIE.
EveryTypeExact == \A k \in Types : TypeExact(elements_[k])

\* A subrange "just updates the current element type": its count goes to the
\* array it bounds, and its own type changes nothing.
SubrangeBoundsArray ==
  \A k \in Types : elements_[k].type_ = "array_type" =>
    LET d == DieAt(elements_[k].id_)
        counts == UNION {dies[c].attrs["count"] : c \in ChildrenOf(d, "DW_TAG_subrange_type")}
    IN  /\ Holds(elements_[k].type_id_, {"type"}, d)
        /\ counts # {} => elements_[k].count_ \in counts

\* A placeholder is a "useless element" that nothing updates.
PlaceholdersIdle ==
  \A k \in DOMAIN elements_ \ Types : elements_[k] = Element("none", 0)

================================================================================
