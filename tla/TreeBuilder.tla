------------------------------ MODULE TreeBuilder ------------------------------
(***************************************************************************)
(* class TreeBuilder: the tree of types that DwarfFile fills, one call per *)
(* debugging information entry (DIE) and one per interesting attribute.    *)
(*                                                                         *)
(* The variables are the class's three data members; every operation is a  *)
(* method.  C++ indices become TLA+ indices, so elements_.size()-1 is      *)
(* Len(elements_).  A value 0 is "not set" (nullptr for a name).           *)
(***************************************************************************)
EXTENDS Naturals, Sequences, SequencesExt

CONSTANT Garbage  \* what the uninitialized last_parsed_type_ may hold

VARIABLES
  elements_,         \* every type seen so far, and the placeholders
  nested_elements_,  \* stack of indices in elements_: who receives children
  last_parsed_type_  \* kind of the record the setters write to

builder == <<elements_, nested_elements_, last_parsed_type_>>

ElementType ==
  {"none", "array_type", "class_type", "enumerator_type", "member",
   "pointer_type", "structure_type", "typedef2", "union_type", "inheritance",
   "subrange_type", "base_type", "const_type"}

Element(type, id) ==
  [type_ |-> type, id_ |-> id, name_ |-> 0, size_ |-> 0, type_id_ |-> 0,
   offset_ |-> 0, count_ |-> 0, members_ |-> <<>>, parents_ |-> <<>>]

\* A base class: its id is the DIE's own until the type it names is known.
Parent == [id : Nat, offset : Nat]

MemberRecord ==
  [type_ : {"member"}, id_ : Nat, name_ : Nat, size_ : Nat, type_id_ : Nat,
   offset_ : Nat, count_ : Nat, members_ : {<<>>}, parents_ : {<<>>}]

ElementRecord ==
  [type_ : ElementType \ {"member", "inheritance", "subrange_type"},
   id_ : Nat, name_ : Nat, size_ : Nat, type_id_ : Nat, offset_ : Nat,
   count_ : Nat, members_ : Seq(MemberRecord), parents_ : Seq(Parent)]

\* GenerateJson relies on the shape: members are flat, and every index on the
\* stack is that of an element.
BuilderTypeOK ==
  /\ elements_ \in Seq(ElementRecord)
  /\ nested_elements_ \in Seq(1 .. Len(elements_))
  /\ last_parsed_type_ \in ElementType

\* A tree as a walk leaves it: types in the order of the section, and placeholders, which
\* have no id and hold nothing.
WalkedTree(tree) ==
  LET types == {k \in DOMAIN tree : tree[k].type_ # "none"} IN
  /\ tree \in Seq(ElementRecord)
  /\ \A k \in types : tree[k].id_ # 0
  /\ \A j, k \in types : j < k => tree[j].id_ < tree[k].id_
  /\ \A k \in DOMAIN tree \ types : tree[k].id_ = 0 /\ tree[k].members_ = <<>>

ASSUME GarbageAssumption == Garbage \subseteq ElementType

\* The constructor leaves last_parsed_type_ uninitialized.  (A value outside the
\* enumeration behaves like one of its ordinary types.)
BuilderInit ==
  /\ elements_ = <<>>
  /\ nested_elements_ = <<>>
  /\ last_parsed_type_ \in Garbage

--------------------------------------------------------------------------------
Innermost == Last(nested_elements_)

CurrentElementType ==
  IF nested_elements_ = <<>> THEN "none" ELSE elements_[Innermost].type_

EndOfChildren ==
  \/ nested_elements_ = <<>> /\ UNCHANGED builder
  \/ /\ nested_elements_ # <<>>
     /\ nested_elements_' = Front(nested_elements_)
     /\ last_parsed_type_' = IF nested_elements_' = <<>> THEN last_parsed_type_
                             ELSE elements_[Last(nested_elements_')].type_
     /\ UNCHANGED elements_

\* A slip: types are dropped, like members, where nothing is recorded.
AddedToTypesOnly(type) ==
  type \notin {"none", "subrange_type"} /\ CurrentElementType # "none"

\* element_added at the end of AddElement's switch.
Added(type) ==
  CASE type \in {"none", "subrange_type"} -> FALSE
    [] type \in {"member", "inheritance"} -> CurrentElementType # "none"
    [] OTHER -> TRUE

\* A slip: elements_.back() where nested_elements_.back() is meant.
InsertedInNewest(type, id) ==
  CASE ~Added(type) -> elements_
    [] Added(type) /\ type = "member" ->
         [elements_ EXCEPT ![Len(elements_)].members_ = Append(@, Element(type, id))]
    [] Added(type) /\ type = "inheritance" ->
         [elements_ EXCEPT ![Len(elements_)].parents_ = Append(@, [id |-> id, offset |-> 0])]
    [] OTHER -> Append(elements_, Element(type, id))

\* elements_ at the end of AddElement's switch.
Inserted(type, id) ==
  CASE ~Added(type) -> elements_
    [] Added(type) /\ type = "member" ->
         [elements_ EXCEPT ![Innermost].members_ = Append(@, Element(type, id))]
    [] Added(type) /\ type = "inheritance" ->
         [elements_ EXCEPT ![Innermost].parents_ = Append(@, [id |-> id, offset |-> 0])]
    [] OTHER -> Append(elements_, Element(type, id))

\* Slips: the placeholder is forgotten, or the push; a member is no context.
AddElementWithoutPlaceholder(type, id, has_children) ==
  /\ elements_' = Inserted(type, id)
  /\ last_parsed_type_' = IF Added(type) THEN type ELSE last_parsed_type_
  /\ nested_elements_' = IF has_children THEN Append(nested_elements_, Len(elements_'))
                         ELSE nested_elements_

AddElementSkippingScopes(type, id, has_children) ==
  /\ elements_' = Inserted(type, id)
  /\ last_parsed_type_' = IF Added(type) THEN type ELSE last_parsed_type_
  /\ nested_elements_' = IF has_children /\ Added(type)
                         THEN Append(nested_elements_, Len(elements_'))
                         ELSE nested_elements_

AddElementForgettingMembers(type, id, has_children) ==
  /\ elements_' = IF has_children /\ ~Added(type)
                  THEN Append(Inserted(type, id), Element("none", 0))
                  ELSE Inserted(type, id)
  /\ last_parsed_type_' = IF Added(type) /\ type # "member" THEN type ELSE last_parsed_type_
  /\ nested_elements_' = IF has_children
                         THEN Append(nested_elements_, Len(elements_'))
                         ELSE nested_elements_

AddElement(type, id, has_children) ==
  /\ elements_' = IF has_children /\ ~Added(type)
                  THEN Append(Inserted(type, id), Element("none", 0))
                  ELSE Inserted(type, id)
  /\ last_parsed_type_' = IF Added(type) THEN type ELSE last_parsed_type_
  /\ nested_elements_' = IF has_children
                         THEN Append(nested_elements_, Len(elements_'))
                         ELSE nested_elements_

--------------------------------------------------------------------------------
(* The setters: where the value of an attribute lands. *)

Ready == elements_ # <<>> /\ last_parsed_type_ # "none"

\* The setter writes the newest member of the innermost open element ...
ToMember ==
  /\ Ready
  /\ last_parsed_type_ = "member"
  /\ CurrentElementType # "none"
  /\ elements_[Innermost].members_ # <<>>

\* ... or its newest base class ...
ToParent ==
  /\ Ready
  /\ last_parsed_type_ = "inheritance"
  /\ CurrentElementType # "none"
  /\ elements_[Innermost].parents_ # <<>>

\* ... or the newest element, whoever that is.
Newest == Len(elements_)
NewestMember == Len(elements_[Innermost].members_)

\* A slip: front() instead of back().
OldestParent == 1
NewestParent == Len(elements_[Innermost].parents_)

SetElementName(name) ==
  /\ elements_' =
       CASE ToMember ->
              [elements_ EXCEPT ![Innermost].members_[NewestMember].name_ = name]
         [] Ready /\ last_parsed_type_ # "member" ->
              [elements_ EXCEPT ![Newest].name_ = name]
         [] OTHER -> elements_
  /\ UNCHANGED <<nested_elements_, last_parsed_type_>>

SetElementSize(size) ==
  /\ elements_' =
       CASE ToMember ->
              [elements_ EXCEPT ![Innermost].members_[NewestMember].size_ = size]
         [] Ready /\ last_parsed_type_ # "member" ->
              [elements_ EXCEPT ![Newest].size_ = size]
         [] OTHER -> elements_
  /\ UNCHANGED <<nested_elements_, last_parsed_type_>>

SetElementOffset(offset) ==
  /\ elements_' =
       CASE ToMember ->
              [elements_ EXCEPT ![Innermost].members_[NewestMember].offset_ = offset]
         [] ToParent ->
              [elements_ EXCEPT ![Innermost].parents_[NewestParent].offset = offset]
         [] OTHER -> elements_
  /\ UNCHANGED <<nested_elements_, last_parsed_type_>>

SetElementType(type_id) ==
  /\ elements_' =
       CASE ToMember ->
              [elements_ EXCEPT ![Innermost].members_[NewestMember].type_id_ = type_id]
         [] ToParent ->
              [elements_ EXCEPT ![Innermost].parents_[NewestParent].id = type_id]
         [] Ready /\ last_parsed_type_ \notin {"member", "inheritance", "subrange_type"} ->
              [elements_ EXCEPT ![Newest].type_id_ = type_id]
         [] OTHER -> elements_
  /\ UNCHANGED <<nested_elements_, last_parsed_type_>>

SetElementCount(count) ==
  /\ elements_' =
       IF Ready /\ last_parsed_type_ = "subrange_type"
       THEN [elements_ EXCEPT ![Newest].count_ = count]
       ELSE elements_
  /\ UNCHANGED <<nested_elements_, last_parsed_type_>>

================================================================================
