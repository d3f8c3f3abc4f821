------------------------------ MODULE RecordProofs -----------------------------
(***************************************************************************)
(* That the records of the dump say what the DIEs say, as long as no DIE   *)
(* leaves a stray attribute: what a setter leaves alone, where the DIE that*)
(* is read stands, and why no attribute of one DIE lands in the record of  *)
(* another.  It rests on the theorems of DieWalkProofs.                    *)
(***************************************************************************)
EXTENDS DieWalkProofs

(***************************************************************************)
(* What the setters leave alone.                                           *)
(***************************************************************************)

\* Everything of an element but its members and its base classes.
SameFields(f, e) ==
  /\ f.type_ = e.type_ /\ f.id_ = e.id_ /\ f.name_ = e.name_ /\ f.size_ = e.size_
  /\ f.type_id_ = e.type_id_ /\ f.offset_ = e.offset_ /\ f.count_ = e.count_

\* After a member, they write the newest member of the innermost element only.
LEMMA MemberFrame ==
  ASSUME BuilderTypeOK, NEW a \in Attribute, NEW v \in Nat, LogDwarfInfo(a, v),
         last_parsed_type_ = "member", CurrentElementType # "none",
         elements_[Innermost].members_ # <<>>,
         NEW i, i = Innermost, NEW n, n = NewestMember
  PROVE  /\ i \in 1 .. Len(elements_) /\ n \in 1 .. Len(elements_[i].members_)
         /\ \A k \in 1 .. Len(elements_) : k # i => elements_'[k] = elements_[k]
         /\ SameFields(elements_'[i], elements_[i])
         /\ elements_'[i].parents_ = elements_[i].parents_
         /\ \A j \in 1 .. Len(elements_[i].members_) : j # n =>
              elements_'[i].members_[j] = elements_[i].members_[j]
<1> DEFINE ms == elements_[i].members_
<1>1. /\ i \in 1 .. Len(elements_) /\ elements_[i] \in ElementRecord /\ ms \in Seq(MemberRecord)
      /\ DOMAIN elements_ = 1 .. Len(elements_)
  BY InnermostTyped, LenProperties DEF BuilderTypeOK
<1>2. n \in 1 .. Len(ms) /\ DOMAIN ms = 1 .. Len(ms) /\ n = NewestMember
  BY <1>1, EmptySeq, LenProperties DEF NewestMember
<1>3. ToMember /\ ~ToParent
  BY <1>1, EmptySeq DEF ToMember, ToParent, Ready
<1>4. ASSUME NEW r, elements_' = [elements_ EXCEPT ![i] =
                         [elements_[i] EXCEPT !.members_ = [ms EXCEPT ![n] = r]]]
      PROVE  /\ \A k \in 1 .. Len(elements_) : k # i => elements_'[k] = elements_[k]
             /\ SameFields(elements_'[i], elements_[i])
             /\ elements_'[i].parents_ = elements_[i].parents_
             /\ \A j \in 1 .. Len(ms) : j # n => elements_'[i].members_[j] = ms[j]
  <2> DEFINE ns == [ms EXCEPT ![n] = r]
             e == [elements_[i] EXCEPT !.members_ = ns]
  <2>1. elements_'[i] = e /\ \A k \in 1 .. Len(elements_) : k # i => elements_'[k] = elements_[k]
    BY <1>1, <1>4
  <2>2. \A j \in 1 .. Len(ms) : j # n => ns[j] = ms[j]
    BY <1>2
  <2> HIDE DEF ns
  <2>3. e.members_ = ns /\ e.parents_ = elements_[i].parents_ /\ SameFields(e, elements_[i])
    BY <1>1 DEF ElementRecord, SameFields
  <2> QED BY <2>1, <2>2, <2>3
<1>5. ASSUME elements_' = elements_
      PROVE  /\ \A k \in 1 .. Len(elements_) : k # i => elements_'[k] = elements_[k]
             /\ SameFields(elements_'[i], elements_[i])
             /\ elements_'[i].parents_ = elements_[i].parents_
             /\ \A j \in 1 .. Len(ms) : j # n => elements_'[i].members_[j] = ms[j]
  BY <1>5 DEF SameFields
<1>6. \/ elements_' = elements_
      \/ \E r : elements_' = [elements_ EXCEPT ![i] =
                                [elements_[i] EXCEPT !.members_ = [ms EXCEPT ![n] = r]]]
  <2>1. CASE a \in {"name", "linkage_name"}
    <3>1. elements_' = [elements_ EXCEPT ![i] =
            [elements_[i] EXCEPT !.members_ = [ms EXCEPT ![n] = [ms[n] EXCEPT !.name_ = v]]]]
      BY <1>2, <1>3, <2>1 DEF LogDwarfInfo, SetElementName
    <3> QED BY <3>1
  <2>2. CASE a = "byte_size"
    <3>1. elements_' = [elements_ EXCEPT ![i] =
            [elements_[i] EXCEPT !.members_ = [ms EXCEPT ![n] = [ms[n] EXCEPT !.size_ = v]]]]
      BY <1>2, <1>3, <2>2 DEF LogDwarfInfo, SetElementSize
    <3> QED BY <3>1
  <2>3. CASE a = "data_member_location"
    <3>1. elements_' = [elements_ EXCEPT ![i] =
            [elements_[i] EXCEPT !.members_ = [ms EXCEPT ![n] = [ms[n] EXCEPT !.offset_ = v]]]]
      BY <1>2, <1>3, <2>3 DEF LogDwarfInfo, SetElementOffset
    <3> QED BY <3>1
  <2>4. CASE a = "type"
    <3>1. elements_' = [elements_ EXCEPT ![i] =
            [elements_[i] EXCEPT !.members_ = [ms EXCEPT ![n] = [ms[n] EXCEPT !.type_id_ = v]]]]
      BY <1>2, <1>3, <2>4 DEF LogDwarfInfo, SetElementType
    <3> QED BY <3>1
  <2>5. CASE a = "count"
    BY <2>5 DEF LogDwarfInfo, SetElementCount
  <2> QED BY <2>1, <2>2, <2>3, <2>4, <2>5 DEF Attribute
<1> QED BY <1>1, <1>2, <1>4, <1>5, <1>6

\* After a base class, they write the newest base class of the innermost element only.
LEMMA ParentFrame ==
  ASSUME BuilderTypeOK, NEW a \in {"data_member_location", "type"}, NEW v \in Nat,
         LogDwarfInfo(a, v),
         last_parsed_type_ = "inheritance", CurrentElementType # "none",
         elements_[Innermost].parents_ # <<>>,
         NEW i, i = Innermost, NEW n, n = NewestParent
  PROVE  /\ i \in 1 .. Len(elements_) /\ n \in 1 .. Len(elements_[i].parents_)
         /\ \A k \in 1 .. Len(elements_) : k # i => elements_'[k] = elements_[k]
         /\ SameFields(elements_'[i], elements_[i])
         /\ elements_'[i].members_ = elements_[i].members_
         /\ \A j \in 1 .. Len(elements_[i].parents_) : j # n =>
              elements_'[i].parents_[j] = elements_[i].parents_[j]
<1> DEFINE ps == elements_[i].parents_
<1>1. /\ i \in 1 .. Len(elements_) /\ elements_[i] \in ElementRecord /\ ps \in Seq(Parent)
      /\ DOMAIN elements_ = 1 .. Len(elements_)
  BY InnermostTyped, LenProperties DEF BuilderTypeOK
<1>2. n \in 1 .. Len(ps) /\ DOMAIN ps = 1 .. Len(ps) /\ n = NewestParent
  BY <1>1, EmptySeq, LenProperties DEF NewestParent
<1>3. ToParent /\ ~ToMember
  BY <1>1, EmptySeq DEF ToMember, ToParent, Ready
<1>4. ASSUME NEW r, elements_' = [elements_ EXCEPT ![i] =
                         [elements_[i] EXCEPT !.parents_ = [ps EXCEPT ![n] = r]]]
      PROVE  /\ \A k \in 1 .. Len(elements_) : k # i => elements_'[k] = elements_[k]
             /\ SameFields(elements_'[i], elements_[i])
             /\ elements_'[i].members_ = elements_[i].members_
             /\ \A j \in 1 .. Len(ps) : j # n => elements_'[i].parents_[j] = ps[j]
  <2> DEFINE qs == [ps EXCEPT ![n] = r]
             e == [elements_[i] EXCEPT !.parents_ = qs]
  <2>1. elements_'[i] = e /\ \A k \in 1 .. Len(elements_) : k # i => elements_'[k] = elements_[k]
    BY <1>1, <1>4
  <2>2. \A j \in 1 .. Len(ps) : j # n => qs[j] = ps[j]
    BY <1>2
  <2> HIDE DEF qs
  <2>3. e.parents_ = qs /\ e.members_ = elements_[i].members_ /\ SameFields(e, elements_[i])
    BY <1>1 DEF ElementRecord, SameFields
  <2> QED BY <2>1, <2>2, <2>3
<1>5. CASE a = "data_member_location"
  <2>1. elements_' = [elements_ EXCEPT ![i] =
          [elements_[i] EXCEPT !.parents_ = [ps EXCEPT ![n] = [ps[n] EXCEPT !.offset = v]]]]
    BY <1>2, <1>3, <1>5 DEF LogDwarfInfo, SetElementOffset
  <2> QED BY <1>1, <1>2, <1>4, <2>1
<1>6. CASE a = "type"
  <2>1. elements_' = [elements_ EXCEPT ![i] =
          [elements_[i] EXCEPT !.parents_ = [ps EXCEPT ![n] = [ps[n] EXCEPT !.id = v]]]]
    BY <1>2, <1>3, <1>6 DEF LogDwarfInfo, SetElementType
  <2> QED BY <1>1, <1>2, <1>4, <2>1
<1> QED BY <1>5, <1>6

\* Otherwise they write fields of the newest element only.
LEMMA NewestFrame ==
  ASSUME BuilderTypeOK, NEW a \in Attribute, NEW v \in Nat, LogDwarfInfo(a, v),
         ~ToMember, ~ToParent, NEW n, n = Newest
  PROVE  /\ \A k \in 1 .. Len(elements_) : k # n => elements_'[k] = elements_[k]
         /\ n \in 1 .. Len(elements_) => /\ elements_'[n].type_ = elements_[n].type_
                                         /\ elements_'[n].members_ = elements_[n].members_
                                         /\ elements_'[n].parents_ = elements_[n].parents_
<1>1. /\ DOMAIN elements_ = 1 .. Len(elements_)
      /\ \A k \in 1 .. Len(elements_) : elements_[k] \in ElementRecord
  BY LenProperties, ElementOfSeq DEF BuilderTypeOK
<1>2. CASE elements_' = elements_
  BY <1>2
<1>3. ASSUME NEW e, elements_' = [elements_ EXCEPT ![n] = e],
             n \in 1 .. Len(elements_) => /\ e.type_ = elements_[n].type_
                                          /\ e.members_ = elements_[n].members_
                                          /\ e.parents_ = elements_[n].parents_
      PROVE  /\ \A k \in 1 .. Len(elements_) : k # n => elements_'[k] = elements_[k]
             /\ n \in 1 .. Len(elements_) => /\ elements_'[n].type_ = elements_[n].type_
                                             /\ elements_'[n].members_ = elements_[n].members_
                                             /\ elements_'[n].parents_ = elements_[n].parents_
  BY <1>1, <1>3
<1>4. CASE a \in {"name", "linkage_name"}
  <2> DEFINE e == [elements_[n] EXCEPT !.name_ = v]
  <2>1. elements_' = [elements_ EXCEPT ![n] = e] \/ elements_' = elements_
    BY <1>4 DEF LogDwarfInfo, SetElementName
  <2>2. n \in 1 .. Len(elements_) => /\ e.type_ = elements_[n].type_
                                     /\ e.members_ = elements_[n].members_
                                     /\ e.parents_ = elements_[n].parents_
    BY <1>1 DEF ElementRecord
  <2> HIDE DEF e
  <2> QED BY <1>2, <1>3, <2>1, <2>2
<1>5. CASE a = "byte_size"
  <2> DEFINE e == [elements_[n] EXCEPT !.size_ = v]
  <2>1. elements_' = [elements_ EXCEPT ![n] = e] \/ elements_' = elements_
    BY <1>5 DEF LogDwarfInfo, SetElementSize
  <2>2. n \in 1 .. Len(elements_) => /\ e.type_ = elements_[n].type_
                                     /\ e.members_ = elements_[n].members_
                                     /\ e.parents_ = elements_[n].parents_
    BY <1>1 DEF ElementRecord
  <2> HIDE DEF e
  <2> QED BY <1>2, <1>3, <2>1, <2>2
<1>6. CASE a = "data_member_location"
  BY <1>2, <1>6 DEF LogDwarfInfo, SetElementOffset
<1>7. CASE a = "type"
  <2> DEFINE e == [elements_[n] EXCEPT !.type_id_ = v]
  <2>1. elements_' = [elements_ EXCEPT ![n] = e] \/ elements_' = elements_
    BY <1>7 DEF LogDwarfInfo, SetElementType
  <2>2. n \in 1 .. Len(elements_) => /\ e.type_ = elements_[n].type_
                                     /\ e.members_ = elements_[n].members_
                                     /\ e.parents_ = elements_[n].parents_
    BY <1>1 DEF ElementRecord
  <2> HIDE DEF e
  <2> QED BY <1>2, <1>3, <2>1, <2>2
<1>8. CASE a = "count"
  <2> DEFINE e == [elements_[n] EXCEPT !.count_ = v]
  <2>1. elements_' = [elements_ EXCEPT ![n] = e] \/ elements_' = elements_
    BY <1>8 DEF LogDwarfInfo, SetElementCount
  <2>2. n \in 1 .. Len(elements_) => /\ e.type_ = elements_[n].type_
                                     /\ e.members_ = elements_[n].members_
                                     /\ e.parents_ = elements_[n].parents_
    BY <1>1 DEF ElementRecord
  <2> HIDE DEF e
  <2> QED BY <1>2, <1>3, <2>1, <2>2
<1> QED BY <1>4, <1>5, <1>6, <1>7, <1>8 DEF Attribute

(***************************************************************************)
(* Base classes have no id in their record: they are told by their rank.   *)
(***************************************************************************)

\* The base classes of DIE d in the section ds, and the rank of the one at c.
BasesIn(ds, d) == {c \in 1 .. Len(ds) : ds[c].parent = d /\ ds[c].tag = "DW_TAG_inheritance"}
RankIn(ds, d, c) == Cardinality({b \in BasesIn(ds, d) : b <= c})

LEMMA Ranks ==
  ASSUME NEW ds, Len(ds) \in Nat, NEW d, NEW c \in BasesIn(ds, d)
  PROVE  /\ RankIn(ds, d, c) \in 1 .. Cardinality(BasesIn(ds, d))
         /\ \A b \in BasesIn(ds, d) : b < c => RankIn(ds, d, b) < RankIn(ds, d, c)
         /\ (\A b \in BasesIn(ds, d) : b <= c) => RankIn(ds, d, c) = Cardinality(BasesIn(ds, d))
<1> DEFINE B == BasesIn(ds, d)
           UpTo(b) == {x \in B : x <= b}
<1>1. IsFiniteSet(B) /\ B \subseteq Nat
  <2>1. IsFiniteSet(1 .. Len(ds))
    BY FS_Interval
  <2>2. B \subseteq 1 .. Len(ds)
    BY DEF BasesIn
  <2> QED BY <2>1, <2>2, FS_Subset
<1> HIDE DEF B
<1>2. c \in B /\ RankIn(ds, d, c) = Cardinality(UpTo(c))
  BY DEF B, RankIn
<1>3. ASSUME NEW b \in B
      PROVE  /\ IsFiniteSet(UpTo(b)) /\ Cardinality(UpTo(b)) \in Nat
             /\ Cardinality(UpTo(b)) <= Cardinality(B)
  <2>1. UpTo(b) \subseteq B
    OBVIOUS
  <2>2. IsFiniteSet(UpTo(b)) /\ Cardinality(UpTo(b)) <= Cardinality(B)
    BY <1>1, <2>1, FS_Subset
  <2> QED BY <2>2, FS_CardinalityType
<1>4. Cardinality(UpTo(c)) # 0
  <2>1. c \in UpTo(c)
    BY <1>1, <1>2
  <2> QED BY <1>2, <1>3, <2>1, FS_EmptySet
<1>5. ASSUME NEW b \in B, b < c
      PROVE  Cardinality(UpTo(b)) < Cardinality(UpTo(c))
  <2>1. b \in Nat /\ c \in Nat /\ c \in B /\ B \subseteq Nat
    BY <1>1, <1>2
  <2>2. UpTo(b) \subseteq UpTo(c) /\ c \in UpTo(c) /\ c \notin UpTo(b)
    <3>1. \A x \in B : x <= b => x <= c
      BY <1>5, <2>1
    <3>2. c <= c /\ ~(c <= b)
      BY <1>5, <2>1
    <3> QED BY <2>1, <3>1, <3>2
  <2>3. UpTo(b) # UpTo(c)
    BY <2>2
  <2>4. Cardinality(UpTo(b)) <= Cardinality(UpTo(c))
    BY <1>2, <1>3, <2>2, FS_Subset
  <2>5. Cardinality(UpTo(b)) # Cardinality(UpTo(c))
    BY <1>2, <1>3, <2>2, <2>3, FS_Subset
  <2>6. Cardinality(UpTo(b)) \in Nat /\ Cardinality(UpTo(c)) \in Nat
    BY <1>2, <1>3
  <2> QED BY <2>4, <2>5, <2>6
<1>6. ASSUME \A b \in B : b <= c PROVE UpTo(c) = B
  BY <1>6
<1>7. Cardinality(B) \in Nat
  BY <1>1, FS_CardinalityType
<1>8. RankIn(ds, d, c) \in 1 .. Cardinality(B)
  <2> DEFINE r == RankIn(ds, d, c)
  <2>1. r \in Nat /\ r <= Cardinality(B) /\ r # 0
    BY <1>2, <1>3, <1>4
  <2> HIDE DEF r
  <2>2. r \in 1 .. Cardinality(B)
    BY <1>7, <2>1
  <2> QED BY <2>2 DEF r
<1>9. \A b \in B : b < c => RankIn(ds, d, b) < RankIn(ds, d, c)
  BY <1>2, <1>5 DEF RankIn, B
<1> QED BY <1>2, <1>6, <1>8, <1>9 DEF B

\* The model's own names for them.
LEMMA RanksAre ==
  ASSUME TypeOK, NEW d, NEW c
  PROVE  /\ BasesIn(dies, d) = ChildrenOf(d, "DW_TAG_inheritance")
         /\ RankIn(dies, d, c) = Cardinality(BasesUpTo(d, c))
         /\ Cardinality(BasesIn(dies, d)) = BaseCount(d)
<1>1. DOMAIN dies = 1 .. Len(dies)
  BY LenProperties DEF TypeOK
<1>2. BasesIn(dies, d) = ChildrenOf(d, "DW_TAG_inheritance")
  BY <1>1 DEF BasesIn, ChildrenOf
<1> QED BY <1>2 DEF RankIn, BasesUpTo, BaseCount

(***************************************************************************)
(* The invariant.                                                          *)
(***************************************************************************)

NoStray == \A d \in 1 .. Len(dies) : ~Stray(d)

\* Element e, its members and its base classes say what DIE d of the section ds and its
\* children say.
RecordExact(e, ds, d) ==
  /\ ElementExactIn(e, ds[d].attrs)
  /\ \A i \in 1 .. Len(e.members_) : \A c \in 1 .. Len(ds) :
       ds[c].id = e.members_[i].id_ => ElementExactIn(e.members_[i], ds[c].attrs)
  /\ \A c \in BasesIn(ds, d) :
       ParentExactIn(e.parents_[RankIn(ds, d, c)], ds[c].id, ds[c].attrs)

Records ==
  NoStray =>
    \A k \in 1 .. Len(elements_) : elements_[k].type_ # "none" =>
      \A d \in 1 .. Len(dies) : dies[d].id = elements_[k].id_ =>
        RecordExact(elements_[k], dies, d)

\* Where the DIE stands whose attributes are read.  One with children, or a type, has the
\* newest element; one with children is itself the innermost open DIE, and one without is
\* a child of it.
CurrentPlace ==
  pc = "attr" =>
    /\ TypeTag(dies[Current].tag) \/ dies[Current].children =>
         elements_ # <<>> /\ Mirrors(elements_[Newest], Current)
    /\ dies[Current].children => open # <<>> /\ Last(open) = Current
    /\ ~dies[Current].children => dies[Current].parent = IF open = <<>> THEN 0 ELSE Last(open)
    /\ dies[Current].tag \in Leaves => ~dies[Current].children

LEMMA RecordsMean ==
  ASSUME TypeOK, TypesInOrder, Filed, Records
  PROVE  ExactWithoutStrays
<1>1. /\ DOMAIN elements_ = 1 .. Len(elements_) /\ DOMAIN dies = 1 .. Len(dies)
      /\ \A k \in 1 .. Len(elements_) : elements_[k] \in ElementRecord
      /\ Len(dies) \in Nat
  BY LenProperties, ElementOfSeq DEF TypeOK, BuilderTypeOK
<1>2. SUFFICES ASSUME NoStray, NEW k \in Types PROVE TypeExact(elements_[k])
  BY <1>1 DEF ExactWithoutStrays, NoStray
<1>3. PICK d \in 1 .. Len(dies) : dies[d].id = elements_[k].id_ /\ DieAt(elements_[k].id_) = d
  BY DieOfType
<1>4. /\ k \in 1 .. Len(elements_) /\ elements_[k].type_ # "none"
      /\ elements_[k].members_ \in Seq(MemberRecord) /\ elements_[k].parents_ \in Seq(Parent)
  BY <1>1 DEF Types, ElementRecord
<1>5. /\ DOMAIN elements_[k].members_ = 1 .. Len(elements_[k].members_)
      /\ DOMAIN elements_[k].parents_ = 1 .. Len(elements_[k].parents_)
  BY <1>4, LenProperties
<1>6. RecordExact(elements_[k], dies, d) /\ Lists(elements_[k], MemberIds(d), BaseCount(d))
  BY <1>2, <1>3, <1>4 DEF Records, Filed
<1>7. ElementExact(elements_[k], d)
  BY <1>6, ExactIn DEF RecordExact
<1>8. ASSUME NEW i \in 1 .. Len(elements_[k].members_)
      PROVE  ElementExact(elements_[k].members_[i], DieAt(elements_[k].members_[i].id_))
  <2>1. PICK c \in ChildrenOf(d, "DW_TAG_member") : dies[c].id = elements_[k].members_[i].id_
    BY <1>6 DEF Lists, MemberIds
  <2>2. c \in 1 .. Len(dies)
    BY <1>1, <2>1 DEF ChildrenOf
  <2>3. DieAt(elements_[k].members_[i].id_) \in 1 .. Len(dies)
        /\ dies[DieAt(elements_[k].members_[i].id_)].id = elements_[k].members_[i].id_
    BY <1>1, <2>1, <2>2 DEF DieAt
  <2> QED BY <1>6, <2>3, ExactIn DEF RecordExact
<1>9. ASSUME NEW c \in ChildrenOf(d, "DW_TAG_inheritance")
      PROVE  /\ Cardinality(BasesUpTo(d, c)) \in 1 .. Len(elements_[k].parents_)
             /\ ParentExact(elements_[k].parents_[Cardinality(BasesUpTo(d, c))], c)
  <2>1. /\ c \in BasesIn(dies, d) /\ RankIn(dies, d, c) = Cardinality(BasesUpTo(d, c))
        /\ Cardinality(BasesIn(dies, d)) = BaseCount(d)
    BY <1>9, RanksAre
  <2>2. RankIn(dies, d, c) \in 1 .. Len(elements_[k].parents_)
    BY <1>1, <1>6, <2>1, Ranks DEF Lists
  <2>3. ParentExactIn(elements_[k].parents_[RankIn(dies, d, c)], dies[c].id, dies[c].attrs)
    BY <1>6, <2>1 DEF RecordExact
  <2> QED BY <2>1, <2>2, <2>3, ExactIn
<1> QED BY <1>3, <1>5, <1>7, <1>8, <1>9 DEF TypeExact

\* Which DIE a member of a type's record stands for.
LEMMA DieOfMember ==
  ASSUME TypeOK, TypesInOrder, Filed, NEW k \in 1 .. Len(elements_), elements_[k].type_ # "none",
         NEW d \in 1 .. Len(dies), dies[d].id = elements_[k].id_,
         NEW i \in 1 .. Len(elements_[k].members_),
         NEW c \in 1 .. Len(dies), dies[c].id = elements_[k].members_[i].id_
  PROVE  dies[c].tag = "DW_TAG_member" /\ dies[c].parent = d /\ TypeTag(dies[d].tag)
<1>1. Lists(elements_[k], MemberIds(d), BaseCount(d))
  BY DEF Filed
<1>2. PICK b \in ChildrenOf(d, "DW_TAG_member") : dies[b].id = elements_[k].members_[i].id_
  BY <1>1 DEF Lists, MemberIds
<1>3. DOMAIN dies = 1 .. Len(dies) /\ DOMAIN elements_ = 1 .. Len(elements_)
  BY LenProperties DEF TypeOK, BuilderTypeOK
<1>4. b \in 1 .. Len(dies) /\ dies[b].tag = "DW_TAG_member" /\ dies[b].parent = d
  BY <1>2, <1>3 DEF ChildrenOf
<1>5. b = c
  BY <1>2, <1>4, SameDie
<1>6. k \in Types
  BY <1>3 DEF Types
<1> QED BY <1>4, <1>5, <1>6, DieOfType

(***************************************************************************)
(* Reading a DIE.                                                          *)
(***************************************************************************)

\* What reading a DIE adds to the history.
LEMMA NewDie ==
  ASSUME TypeOK, Len(dies) < MaxDies, NEW tag_id \in Offset[Len(dies) + 1],
         NEW tag \in Tags, NEW c \in BOOLEAN, ReadDie(tag_id, tag, c),
         NEW D, D = Len(dies) + 1
  PROVE  /\ Current' = D /\ D \in Nat /\ tag_id \in Nat
         /\ dies'[D] = [id |-> tag_id, tag |-> tag, children |-> c,
                        parent |-> IF open = <<>> THEN 0 ELSE Last(open),
                        attrs |-> [a \in Attribute |-> {}]]
         /\ dies'[D].parent \in 0 .. Len(dies)
<1> DEFINE p == IF open = <<>> THEN 0 ELSE Last(open)
           e == [id |-> tag_id, tag |-> tag, children |-> c, parent |-> p,
                 attrs |-> [a \in Attribute |-> {}]]
<1>1. Len(dies) \in Nat /\ dies \in Seq(Die) /\ open \in Seq(1 .. Len(dies))
  BY LenProperties DEF TypeOK
<1>2. tag_id \in Nat
  <2>1. Len(dies) + 1 \in 1 .. MaxDies
    BY <1>1, BoundsAssumption
  <2> QED BY <2>1, DatumAssumption
<1>3. p \in 0 .. Len(dies)
  <2>1. open # <<>> => Last(open) \in 1 .. Len(dies)
    BY <1>1, FrontLast
  <2> QED BY <1>1, <2>1
<1>4. dies' = Append(dies, e)
  BY DEF ReadDie
<1>5. e \in Die
  <2>1. [a \in Attribute |-> {}] \in [Attribute -> SUBSET Nat]
    OBVIOUS
  <2> QED BY <1>1, <1>2, <1>3, <2>1 DEF Die
<1>6. dies'[D] = e /\ Len(dies') = D
  BY <1>1, <1>4, <1>5, AppendProperties
<1> QED BY <1>1, <1>2, <1>3, <1>4, <1>6 DEF Current

LEMMA ReadDiePlace ==
  ASSUME TypeOK, Len(dies) < MaxDies, NEW tag_id \in Offset[Len(dies) + 1],
         NEW tag \in Tags, NEW c \in BOOLEAN, ReadDie(tag_id, tag, c)
  PROVE  CurrentPlace'
<1>D. PICK D : D = Len(dies) + 1
  OBVIOUS
<1>1. /\ Len(dies) \in Nat /\ Len(elements_) \in Nat /\ dies \in Seq(Die)
      /\ open \in Seq(1 .. Len(dies)) /\ elements_ \in Seq(ElementRecord)
  BY LenProperties DEF TypeOK, BuilderTypeOK
<1>2. /\ Current' = D /\ D \in Nat /\ dies'[D].tag = tag /\ dies'[D].id = tag_id
      /\ dies'[D].children = c
      /\ dies'[D].parent = IF open = <<>> THEN 0 ELSE Last(open)
      /\ ~(tag \in Leaves /\ c)
  <2>1. dies'[D] = [id |-> tag_id, tag |-> tag, children |-> c,
                    parent |-> IF open = <<>> THEN 0 ELSE Last(open),
                    attrs |-> [a \in Attribute |-> {}]]
    BY <1>D, NewDie
  <2>2. Current' = D /\ D \in Nat
    BY <1>1, <1>D, ReadDieStep DEF Current
  <2>3. ~(tag \in Leaves /\ c)
    BY DEF ReadDie
  <2> QED BY <2>1, <2>2, <2>3
<1>3. /\ TypeOK' /\ Len(dies') = D
      /\ Len(elements_') = IF c \/ TypeTag(tag) THEN Len(elements_) + 1 ELSE Len(elements_)
      /\ TypeTag(tag) => elements_'[Len(elements_) + 1] = Element(ElementOf(tag), tag_id)
      /\ c /\ ~TypeTag(tag) => elements_'[Len(elements_) + 1] = Element("none", 0)
      /\ open' = IF c THEN Append(open, Len(dies')) ELSE open
  BY <1>D, ReadDieStep
<1>k. PICK k : k = Len(elements_) + 1
  OBVIOUS
<1>4. ASSUME TypeTag(tag) \/ c
      PROVE  elements_' # <<>> /\ Newest' = k /\ Mirrors(elements_[k], D)'
  <2>1. Newest' = k /\ elements_' # <<>>
    BY <1>1, <1>3, <1>4, <1>k, EmptySeq DEF Newest
  <2>2. CASE TypeTag(tag)
    <3>1. elements_'[k].type_ = ElementOf(tag) /\ elements_'[k].id_ = tag_id
      BY <1>3, <1>k, <2>2 DEF Element
    <3> QED BY <1>2, <2>1, <2>2, <3>1 DEF Mirrors
  <2>3. CASE ~TypeTag(tag)
    <3>1. elements_'[k].type_ = "none"
      BY <1>3, <1>4, <1>k, <2>3 DEF Element
    <3> QED BY <1>2, <2>1, <2>3, <3>1 DEF Mirrors
  <2> QED BY <2>1, <2>2, <2>3
<1>5. c => open' # <<>> /\ Last(open') = D
  <2>1. ASSUME c PROVE open' # <<>> /\ Last(open') = D
    <3>1. open' = Append(open, D) /\ open \in Seq(1 .. D) /\ D \in 1 .. D
      <4>1. 1 .. Len(dies) \subseteq 1 .. D /\ D \in 1 .. D
        BY <1>1, <1>D
      <4>2. open' = Append(open, D)
        BY <1>3, <2>1
      <4>3. open \in Seq(1 .. D)
        BY <1>1, <4>1, SeqMonotonic
      <4> QED BY <4>1, <4>2, <4>3
    <3>2. Len(open') = Len(open) + 1 /\ open'[Len(open) + 1] = D /\ Len(open) \in Nat
          /\ open' \in Seq(1 .. D)
      BY <3>1, AppendProperties, LenProperties
    <3>3. open' # <<>>
      BY <3>2, EmptySeq
    <3> QED BY <3>2, <3>3, FrontLast
  <2> QED BY <2>1
<1>6. ~c => open' = open
  BY <1>3
<1> QED BY <1>2, <1>4, <1>5, <1>6 DEF CurrentPlace

\* The element of DIE d turns from e into f when a child of DIE p is read.
Takes(f, e, p, d, tag, tag_id) ==
  \/ /\ p = d /\ tag = "DW_TAG_member"
     /\ f = [e EXCEPT !.members_ = Append(e.members_, Element("member", tag_id))]
  \/ /\ p = d /\ tag = "DW_TAG_inheritance"
     /\ f = [e EXCEPT !.parents_ = Append(e.parents_, [id |-> tag_id, offset |-> 0])]
  \/ ~(p = d /\ tag \in {"DW_TAG_member", "DW_TAG_inheritance"}) /\ f = e

\* A type that was there gets the DIE if it is its member or base class, and nothing else.
LEMMA ReadDieElement ==
  ASSUME TypeOK, StackMirrorsOpen, TypesInOrder,
         Len(dies) < MaxDies, NEW tag_id \in Offset[Len(dies) + 1],
         NEW tag \in Tags, NEW c \in BOOLEAN, ReadDie(tag_id, tag, c),
         NEW p, p = IF open = <<>> THEN 0 ELSE Last(open),
         NEW k \in 1 .. Len(elements_), elements_[k].type_ # "none",
         NEW d \in 1 .. Len(dies), dies[d].id = elements_[k].id_
  PROVE  Takes(elements_'[k], elements_[k], p, d, tag, tag_id)
<1> DEFINE t == ElementOf(tag)
           id == IF t = "none" THEN 0 ELSE tag_id
<1>1. Len(dies) \in Nat /\ BuilderTypeOK /\ DOMAIN elements_ = 1 .. Len(elements_)
  BY LenProperties DEF TypeOK, BuilderTypeOK
<1>2. tag_id \in Nat /\ (t \in {"member", "inheritance"} => ~c) /\ AddElement(t, id, c)
  <2>D. PICK D : D = Len(dies) + 1
    OBVIOUS
  <2> QED BY <2>D, ReadDieHistory
<1>3. /\ t \in ElementType /\ id \in Nat
      /\ t = "member" <=> tag = "DW_TAG_member"
      /\ t = "inheritance" <=> tag = "DW_TAG_inheritance"
      /\ t \in {"member", "inheritance"} => id = tag_id
      /\ Added(t) /\ t \in {"member", "inheritance"} <=>
           t \in {"member", "inheritance"} /\ CurrentElementType # "none"
  BY <1>2, ElementOfTyped, ElementOfMember DEF Added
<1>4. /\ Added(t) /\ t = "member" /\ k = Innermost =>
           elements_'[k] = [elements_[k] EXCEPT !.members_ = Append(@, Element(t, id))]
      /\ Added(t) /\ t = "inheritance" /\ k = Innermost =>
           elements_'[k] = [elements_[k] EXCEPT !.parents_ = Append(@, [id |-> id, offset |-> 0])]
      /\ t \notin {"member", "inheritance"} \/ ~Added(t) \/ k # Innermost =>
           elements_'[k] = elements_[k]
  BY <1>1, <1>2, <1>3, AddElementFiles
<1> HIDE DEF t, id
<1>5. k \in Types
  BY <1>1 DEF Types
<1>6. CASE p = d /\ t \in {"member", "inheritance"}
  <2>1. open # <<>>
    BY <1>1, <1>6
  <2>2. k = Innermost /\ CurrentElementType # "none"
    BY <1>5, <1>6, <2>1, Owner
  <2>3. CASE t = "member"
    <3>1. elements_'[k] = [elements_[k] EXCEPT !.members_ = Append(@, Element(t, id))]
      BY <1>3, <1>4, <2>2, <2>3
    <3> QED BY <1>3, <1>6, <2>3, <3>1 DEF Takes
  <2>4. CASE t = "inheritance"
    <3>1. elements_'[k] = [elements_[k] EXCEPT !.parents_ = Append(@, [id |-> id, offset |-> 0])]
      BY <1>3, <1>4, <2>2, <2>4
    <3> QED BY <1>3, <1>6, <2>4, <3>1 DEF Takes
  <2> QED BY <1>6, <2>3, <2>4
<1>7. CASE ~(p = d /\ t \in {"member", "inheritance"})
  <2>1. t \notin {"member", "inheritance"} \/ ~Added(t) \/ k # Innermost
    <3>1. SUFFICES ASSUME t \in {"member", "inheritance"}, Added(t), k = Innermost
                   PROVE  p = d
      BY <1>7
    <3>2. open # <<>> /\ CurrentElementType # "none"
      BY <1>3, <3>1, Owner
    <3>3. p \in 1 .. Len(dies) /\ dies[p].id = dies[d].id
      BY <1>5, <3>1, <3>2, Owner
    <3> QED BY <3>3, SameDie
  <2> QED BY <1>3, <1>4, <1>7, <2>1 DEF Takes
<1> QED BY <1>6, <1>7

\* The base classes of a DIE after another is read.
LEMMA BasesAfter ==
  ASSUME NEW ds, NEW es, Len(ds) \in Nat, Len(es) = Len(ds) + 1,
         \A x \in 1 .. Len(ds) : es[x] = ds[x],
         NEW D, D = Len(ds) + 1, NEW d
  PROVE  /\ es[D].parent = d /\ es[D].tag = "DW_TAG_inheritance" =>
              BasesIn(es, d) = BasesIn(ds, d) \union {D}
         /\ ~(es[D].parent = d /\ es[D].tag = "DW_TAG_inheritance") =>
              BasesIn(es, d) = BasesIn(ds, d)
         /\ D \notin BasesIn(ds, d)
         /\ \A c \in 1 .. Len(ds) : RankIn(es, d, c) = RankIn(ds, d, c)
<1>1. 1 .. Len(es) = 1 .. Len(ds) \union {D} /\ D \notin 1 .. Len(ds)
  OBVIOUS
<1>2. /\ es[D].parent = d /\ es[D].tag = "DW_TAG_inheritance" =>
           BasesIn(es, d) = BasesIn(ds, d) \union {D}
      /\ ~(es[D].parent = d /\ es[D].tag = "DW_TAG_inheritance") =>
           BasesIn(es, d) = BasesIn(ds, d)
      /\ D \notin BasesIn(ds, d)
  BY <1>1 DEF BasesIn
<1>3. ASSUME NEW c \in 1 .. Len(ds)
      PROVE  {b \in BasesIn(es, d) : b <= c} = {b \in BasesIn(ds, d) : b <= c}
  <2>1. ~(D <= c)
    BY <1>3
  <2> QED BY <1>2, <2>1
<1> QED BY <1>2, <1>3 DEF RankIn

\* A record stays exact, and what is filed in it starts exact.
LEMMA ReadDieExact ==
  ASSUME TypeOK, StackMirrorsOpen, TypesInOrder, Filed, Records,
         Len(dies) < MaxDies, NEW tag_id \in Offset[Len(dies) + 1],
         NEW tag \in Tags, NEW c \in BOOLEAN, ReadDie(tag_id, tag, c)
  PROVE  Records'
<1>p. PICK p : p = IF open = <<>> THEN 0 ELSE Last(open)
  OBVIOUS
<1>D. PICK D : D = Len(dies) + 1
  OBVIOUS
<1>z. PICK none : none = [a \in Attribute |-> {}]
  OBVIOUS
<1>1. /\ Len(dies) \in Nat /\ Len(elements_) \in Nat
      /\ \A k \in 1 .. Len(elements_) : elements_[k] \in ElementRecord
      /\ \A d \in 1 .. Len(dies) : dies[d] \in Die
  BY LenProperties, ElementOfSeq DEF TypeOK, BuilderTypeOK
<1>2. /\ dies'[D] = [id |-> tag_id, tag |-> tag, children |-> c, parent |-> p, attrs |-> none]
      /\ dies'[D].parent \in 0 .. Len(dies)
      /\ tag_id \in Nat
  BY <1>D, <1>p, <1>z, NewDie
<1>3. /\ Len(dies') = Len(dies) + 1
      /\ \A d \in 1 .. Len(dies) : dies'[d] = dies[d] /\ dies[d].id < tag_id
      /\ Len(elements_') = IF c \/ TypeTag(tag) THEN Len(elements_) + 1 ELSE Len(elements_)
      /\ \A k \in 1 .. Len(elements_) : /\ elements_'[k].type_ = elements_[k].type_
                                        /\ elements_'[k].id_ = elements_[k].id_
      /\ TypeTag(tag) => elements_'[Len(elements_) + 1] = Element(ElementOf(tag), tag_id)
      /\ c /\ ~TypeTag(tag) => elements_'[Len(elements_) + 1] = Element("none", 0)
      /\ TypeOK'
  BY <1>D, ReadDieStep
<1>4. /\ dies'[D].id = tag_id /\ dies'[D].tag = tag /\ dies'[D].parent = p /\ dies'[D].attrs = none
      /\ p \in 0 .. Len(dies)
  BY <1>2
<1>5. SUFFICES ASSUME NoStray',
                      NEW k \in 1 .. Len(elements_'), elements_'[k].type_ # "none",
                      NEW d \in 1 .. Len(dies'), dies'[d].id = elements_'[k].id_
               PROVE  RecordExact(elements_'[k], dies', d)
  BY DEF Records
<1>6. NoStray
  <2>1. SUFFICES ASSUME NEW b \in 1 .. Len(dies), Stray(b) PROVE FALSE
    BY DEF NoStray
  <2>2. b \in 1 .. Len(dies') /\ dies'[b] = dies[b]
    BY <1>1, <1>3
  <2>3. dies[b].parent \in Nat /\ dies[b].parent < b
    BY <1>1 DEF Die, TypeOK
  <2>4. dies[b].parent # 0 => dies'[dies[b].parent] = dies[dies[b].parent]
    BY <1>1, <1>3, <2>3
  <2>5. Stray(b)'
    BY <2>1, <2>2, <2>4 DEF Stray, Recorded, Has
  <2> QED BY <1>5, <2>2, <2>5 DEF NoStray
\* Only the new DIE has the new offset.
<1>7. \A x \in 1 .. Len(dies') : dies'[x].id = tag_id => x = D
  <2>1. SUFFICES ASSUME NEW x \in 1 .. Len(dies), dies'[x].id = tag_id PROVE FALSE
    BY <1>1, <1>3, <1>D
  <2>2. dies[x].id = tag_id /\ dies[x].id < tag_id
    BY <1>3, <2>1
  <2> QED BY <1>2, <2>2
<1>8. CASE k \in 1 .. Len(elements_)
  <2>1. k \in Types /\ elements_[k].type_ # "none" /\ elements_'[k].id_ = elements_[k].id_
    BY <1>3, <1>5, <1>8, LenProperties DEF Types, TypeOK, BuilderTypeOK
  <2>2. d \in 1 .. Len(dies) /\ dies[d].id = elements_[k].id_ /\ dies'[d] = dies[d]
    <3>1. PICK b \in 1 .. Len(dies) : dies[b].id = elements_[k].id_
      BY <2>1, DieOfType
    <3>2. b \in 1 .. Len(dies') /\ dies'[b] = dies[b]
      BY <1>1, <1>3
    <3>3. dies'[b].id = dies'[d].id
      BY <1>5, <2>1, <3>1, <3>2
    <3>4. b = d
      <4>1. dies[b].id < tag_id /\ elements_[k].id_ \in Nat
        BY <1>1, <1>3, <1>8 DEF ElementRecord
      <4>2. d # D
        BY <1>2, <1>4, <1>5, <2>1, <3>1, <4>1
      <4>3. d \in 1 .. Len(dies)
        BY <1>1, <1>3, <1>5, <1>D, <4>2
      <4>4. dies[d].id = dies[b].id
        BY <1>3, <3>2, <3>3, <4>3
      <4> QED BY <4>3, <4>4, SameDie
    <3> QED BY <3>1, <3>2, <3>4
  <2>3. /\ RecordExact(elements_[k], dies, d)
        /\ Lists(elements_[k], MemberIds(d), BaseCount(d))
    BY <1>6, <1>8, <2>1, <2>2 DEF Records, Filed
  <2>4. /\ MemberIds(d) \in SUBSET Nat /\ \A x \in MemberIds(d) : x < tag_id
        /\ BaseCount(d) \in Nat
    BY <1>D, <1>p, <2>2, ReadDieHistory
  <2>5. Takes(elements_'[k], elements_[k], p, d, tag, tag_id)
    BY <1>8, <1>p, <2>1, <2>2, ReadDieElement
  <2> DEFINE e == elements_[k]
             f == elements_'[k]
             m == Element("member", tag_id)
             q == [id |-> tag_id, offset |-> 0]
  <2>6. /\ e \in ElementRecord /\ e.members_ \in Seq(MemberRecord) /\ e.parents_ \in Seq(Parent)
        /\ Len(e.members_) \in Nat /\ Len(e.parents_) \in Nat
    BY <1>1, <1>8, LenProperties DEF ElementRecord
  <2>7. m \in MemberRecord /\ m.id_ = tag_id /\ q \in Parent
    BY <1>2 DEF Element, MemberRecord, Parent
  <2>8. ElementExactIn(m, none) /\ ParentExactIn(q, tag_id, none)
    BY <1>z, ExactAtFirst
  <2>9. /\ \A b \in 1 .. Len(dies) : RankIn(dies', d, b) = RankIn(dies, d, b)
        /\ p = d /\ tag = "DW_TAG_inheritance" => BasesIn(dies', d) = BasesIn(dies, d) \union {D}
        /\ ~(p = d /\ tag = "DW_TAG_inheritance") => BasesIn(dies', d) = BasesIn(dies, d)
        /\ BasesIn(dies, d) \subseteq 1 .. Len(dies)
    <3>1. BasesIn(dies, d) \subseteq 1 .. Len(dies)
      BY DEF BasesIn
    <3> QED BY <1>1, <1>3, <1>4, <1>D, <3>1, BasesAfter
  <2>10. /\ \A i \in 1 .. Len(e.members_) : e.members_[i].id_ \in MemberIds(d)
         /\ Len(e.parents_) = BaseCount(d)
    BY <2>3 DEF Lists
  <2>11. ASSUME NEW i \in 1 .. Len(e.members_), NEW x \in 1 .. Len(dies'),
                dies'[x].id = e.members_[i].id_
         PROVE  ElementExactIn(e.members_[i], dies'[x].attrs)
    <3>1. e.members_[i].id_ < tag_id
      BY <2>4, <2>10
    <3>2. x # D
      BY <1>2, <1>4, <2>11, <3>1
    <3>3. x \in 1 .. Len(dies) /\ dies'[x] = dies[x]
      BY <1>1, <1>3, <1>D, <2>11, <3>2
    <3> QED BY <2>3, <2>11, <3>3 DEF RecordExact
  <2>12. ASSUME NEW b \in BasesIn(dies, d)
         PROVE  /\ RankIn(dies', d, b) \in 1 .. Len(e.parents_)
                /\ ParentExactIn(e.parents_[RankIn(dies', d, b)], dies'[b].id, dies'[b].attrs)
    <3>1. b \in 1 .. Len(dies) /\ RankIn(dies', d, b) = RankIn(dies, d, b) /\ dies'[b] = dies[b]
      BY <1>3, <2>9, <2>12
    <3>2. RankIn(dies, d, b) \in 1 .. BaseCount(d)
      <4>1. Cardinality(BasesIn(dies, d)) = BaseCount(d)
        BY RanksAre
      <4> QED BY <1>1, <2>12, <4>1, Ranks
    <3>3. ParentExactIn(e.parents_[RankIn(dies, d, b)], dies[b].id, dies[b].attrs)
      BY <2>3, <2>12 DEF RecordExact
    <3> QED BY <2>10, <3>1, <3>2, <3>3
  <2>13. ElementExactIn(e, dies'[d].attrs)
    BY <2>2, <2>3 DEF RecordExact
  <2> HIDE DEF e, m, q
  <2>14. CASE p = d /\ tag = "DW_TAG_member" /\ f = [e EXCEPT !.members_ = Append(e.members_, m)]
    <3>1. f.members_ = Append(e.members_, m) /\ f.parents_ = e.parents_ /\ SameFields(f, e)
      BY <2>6, <2>14 DEF ElementRecord, SameFields
    <3> HIDE DEF f
    <3>2. /\ Len(f.members_) = Len(e.members_) + 1 /\ f.members_[Len(e.members_) + 1] = m
          /\ \A i \in 1 .. Len(e.members_) : f.members_[i] = e.members_[i]
      BY <2>6, <2>7, <3>1, AppendProperties
    <3>3. ASSUME NEW i \in 1 .. Len(f.members_), NEW x \in 1 .. Len(dies'),
                 dies'[x].id = f.members_[i].id_
          PROVE  ElementExactIn(f.members_[i], dies'[x].attrs)
      <4>1. CASE i \in 1 .. Len(e.members_)
        BY <2>11, <3>2, <3>3, <4>1
      <4>2. CASE i = Len(e.members_) + 1
        <5>1. f.members_[i] = m /\ dies'[x].id = tag_id
          BY <2>7, <3>2, <3>3, <4>2
        <5>2. x = D
          BY <1>7, <5>1
        <5> QED BY <1>4, <2>8, <5>1, <5>2
      <4> QED BY <2>6, <3>2, <3>3, <4>1, <4>2
    <3>4. BasesIn(dies', d) = BasesIn(dies, d)
      BY <2>9, <2>14
    <3>5. ElementExactIn(f, dies'[d].attrs)
      BY <2>13, <3>1 DEF SameFields, ElementExactIn
    <3> QED BY <2>12, <3>1, <3>3, <3>4, <3>5 DEF RecordExact, f
  <2>15. CASE p = d /\ tag = "DW_TAG_inheritance" /\ f = [e EXCEPT !.parents_ = Append(e.parents_, q)]
    <3>1. f.parents_ = Append(e.parents_, q) /\ f.members_ = e.members_ /\ SameFields(f, e)
      BY <2>6, <2>15 DEF ElementRecord, SameFields
    <3> HIDE DEF f
    <3>2. /\ f.parents_[Len(e.parents_) + 1] = q
          /\ \A i \in 1 .. Len(e.parents_) : f.parents_[i] = e.parents_[i]
      BY <2>6, <2>7, <3>1, AppendProperties
    <3>3. BasesIn(dies', d) = BasesIn(dies, d) \union {D}
      BY <2>9, <2>15
    <3>4. RankIn(dies', d, D) = Len(e.parents_) + 1
      <4>1. Cardinality(BasesIn(dies', d)) = BaseCount(d) + 1
        <5>1. BaseCount(d)' = BaseCount(d) + 1
          BY <1>D, <1>p, <2>2, <2>15, ReadDieHistory
        <5>2. BaseCount(d)' = Cardinality(BasesIn(dies', d))
          <6>1. DOMAIN dies' = 1 .. Len(dies')
            BY <1>3, LenProperties DEF TypeOK
          <6> QED BY <6>1 DEF BaseCount, BasesIn, ChildrenOf
        <5> QED BY <5>1, <5>2
      <4>2. Len(dies') \in Nat /\ D \in BasesIn(dies', d)
        BY <1>1, <1>3, <3>3
      <4>3. \A b \in BasesIn(dies', d) : b <= D
        BY <1>1, <1>D, <2>9, <3>3
      <4> QED BY <2>10, <4>1, <4>2, <4>3, Ranks
    <3>5. ASSUME NEW b \in BasesIn(dies', d)
          PROVE  ParentExactIn(f.parents_[RankIn(dies', d, b)], dies'[b].id, dies'[b].attrs)
      <4>1. CASE b = D
        BY <1>4, <2>8, <3>2, <3>4, <4>1
      <4>2. CASE b \in BasesIn(dies, d)
        BY <2>12, <3>2, <4>2
      <4> QED BY <3>3, <3>5, <4>1, <4>2
    <3>6. ElementExactIn(f, dies'[d].attrs)
      BY <2>13, <3>1 DEF SameFields, ElementExactIn
    <3> QED BY <2>11, <3>1, <3>5, <3>6 DEF RecordExact, f
  <2>16. CASE ~(p = d /\ tag \in {"DW_TAG_member", "DW_TAG_inheritance"}) /\ f = e
    <3>1. BasesIn(dies', d) = BasesIn(dies, d)
      BY <2>9, <2>16
    <3> QED BY <2>11, <2>12, <2>13, <2>16, <3>1 DEF RecordExact
  <2> QED BY <2>5, <2>14, <2>15, <2>16 DEF Takes, e, f, m, q
<1>9. CASE k \notin 1 .. Len(elements_)
  <2>1. k = Len(elements_) + 1 /\ (c \/ TypeTag(tag))
    BY <1>1, <1>3, <1>5, <1>9
  <2>2. TypeTag(tag)
    <3>1. ASSUME ~TypeTag(tag) PROVE FALSE
      <4>1. elements_'[k].type_ = "none"
        BY <1>3, <2>1, <3>1 DEF Element
      <4> QED BY <1>5, <4>1
    <3> QED BY <3>1
  <2>3. elements_'[k] = Element(ElementOf(tag), tag_id)
    BY <1>3, <2>1, <2>2
  <2>4. elements_'[k].id_ = tag_id /\ elements_'[k].members_ = <<>>
    BY <2>3 DEF Element
  <2>5. d = D
    BY <1>5, <1>7, <2>4
  <2>6. ElementExactIn(elements_'[k], dies'[d].attrs)
    <3>1. ElementExactIn(Element(ElementOf(tag), tag_id), none)
      BY <1>z, ExactAtFirst
    <3> QED BY <1>4, <2>3, <2>5, <3>1
  <2>7. BasesIn(dies', d) = {}
    <3>1. SUFFICES ASSUME NEW x \in 1 .. Len(dies'), dies'[x].parent = D PROVE FALSE
      BY <2>5 DEF BasesIn
    <3>2. CASE x = D
      BY <1>1, <1>4, <1>D, <3>1, <3>2
    <3>3. CASE x # D
      <4>1. x \in 1 .. Len(dies)
        BY <1>1, <1>3, <1>D, <3>3
      <4>2. dies[x].parent = D /\ dies[x].parent < x /\ dies[x].parent \in Nat
        BY <1>1, <1>3, <3>1, <4>1 DEF TypeOK, Die
      <4> QED BY <1>1, <1>D, <4>1, <4>2
    <3> QED BY <3>2, <3>3
  <2>8. 1 .. Len(elements_'[k].members_) = {}
    BY <2>4, EmptySeq
  <2> QED BY <2>6, <2>7, <2>8 DEF RecordExact
<1> QED BY <1>8, <1>9

(***************************************************************************)
(* Reading an attribute.                                                   *)
(***************************************************************************)

\* What an attribute changes in the history.
LEMMA AttributeHistory ==
  ASSUME TypeOK, pc = "attr",
         NEW a \in Attributes, NEW v \in Datum[a][Current], ReadAttribute(a, v),
         NEW D, D = Current
  PROVE  /\ Len(dies) \in Nat /\ D = Len(dies) /\ D \in 1 .. Len(dies) /\ dies[D] \in Die
         /\ Current' = D /\ UNCHANGED <<pc, open>> /\ Len(dies') = Len(dies)
         /\ \A d \in 1 .. Len(dies) :
              /\ dies'[d].id = dies[d].id /\ dies'[d].tag = dies[d].tag
              /\ dies'[d].parent = dies[d].parent /\ dies'[d].children = dies[d].children
              /\ d # D => dies'[d].attrs = dies[d].attrs
         /\ dies'[D].attrs = [dies[D].attrs EXCEPT ![a] = {v}]
         /\ a \in Attribute /\ v \in Nat /\ LogDwarfInfo(a, v) /\ MayCarry(dies[D].tag, a)
<1>1. /\ Len(dies) \in Nat /\ D = Len(dies) /\ D \in 1 .. Len(dies) /\ dies[D] \in Die
      /\ D \in 1 .. MaxDies /\ a \in Attribute /\ DOMAIN dies = 1 .. Len(dies)
      /\ \A d \in 1 .. Len(dies) : dies[d] \in Die
  BY LenProperties, ElementOfSeq, EmptySeq, BoundsAssumption, DatumAssumption DEF TypeOK, Current
<1>2. v \in Nat /\ LogDwarfInfo(a, v) /\ MayCarry(dies[D].tag, a)
  BY <1>1, DatumAssumption DEF ReadAttribute
<1> DEFINE attrs == [dies[D].attrs EXCEPT ![a] = {v}]
<1>3. dies' = [dies EXCEPT ![D] = [dies[D] EXCEPT !.attrs = attrs]] /\ UNCHANGED <<pc, open>>
  BY DEF ReadAttribute
<1> HIDE DEF attrs
<1>4. /\ dies'[D] = [dies[D] EXCEPT !.attrs = attrs]
      /\ \A d \in 1 .. Len(dies) : d # D => dies'[d] = dies[d]
  BY <1>1, <1>3
<1>5. /\ dies'[D].attrs = attrs /\ dies'[D].id = dies[D].id /\ dies'[D].tag = dies[D].tag
      /\ dies'[D].parent = dies[D].parent /\ dies'[D].children = dies[D].children
  BY <1>1, <1>4 DEF Die
<1>6. Len(dies') = Len(dies) /\ Current' = D
  <2>1. Len(dies') = Len(dies)
    BY <1>1, QuietSteps DEF Quiet
  <2> QED BY <1>1, <2>1 DEF Current
<1> QED BY <1>1, <1>2, <1>3, <1>4, <1>5, <1>6 DEF attrs

LEMMA ReadAttributePlace ==
  ASSUME TypeOK, CurrentPlace, pc = "attr",
         NEW a \in Attributes, NEW v \in Datum[a][Current], ReadAttribute(a, v)
  PROVE  CurrentPlace'
<1>D. PICK D : D = Current
  OBVIOUS
<1>n. PICK n : n = Newest
  OBVIOUS
<1>1. /\ D \in 1 .. Len(dies) /\ Current' = D /\ UNCHANGED <<pc, open>>
      /\ dies'[D].id = dies[D].id /\ dies'[D].tag = dies[D].tag
      /\ dies'[D].parent = dies[D].parent /\ dies'[D].children = dies[D].children
  <2>1. /\ D \in 1 .. Len(dies) /\ Current' = D
        /\ \A d \in 1 .. Len(dies) :
             /\ dies'[d].id = dies[d].id /\ dies'[d].tag = dies[d].tag
             /\ dies'[d].parent = dies[d].parent /\ dies'[d].children = dies[d].children
        /\ dies'[D].attrs = [dies[D].attrs EXCEPT ![a] = {v}]
    BY <1>D, AttributeHistory
  <2>2. UNCHANGED <<pc, open>>
    BY DEF ReadAttribute
  <2> QED BY <2>1, <2>2
<1>2. KindsKept /\ TypeOK'
  BY QuietSteps DEF Quiet
<1>3. ASSUME elements_ # <<>>, Mirrors(elements_[n], D)
      PROVE  elements_' # <<>> /\ Newest' = n /\ Mirrors(elements_[n], D)'
  <2>1. /\ n \in 1 .. Len(elements_) /\ Len(elements_') = Len(elements_) /\ elements_' # <<>>
        /\ elements_'[n].type_ = elements_[n].type_ /\ elements_'[n].id_ = elements_[n].id_
    <3>1. n \in 1 .. Len(elements_)
      BY <1>3, <1>n, EmptySeq, LenProperties DEF Newest, TypeOK, BuilderTypeOK
    <3> QED BY <1>2, <3>1, EmptySeq, LenProperties DEF KindsKept, TypeOK, BuilderTypeOK
  <2>2. Newest' = n
    BY <1>n, <2>1 DEF Newest
  <2> QED BY <1>1, <1>3, <2>1, <2>2 DEF Mirrors
<1> QED BY <1>1, <1>3, <1>D, <1>n DEF CurrentPlace

\* A DIE that is not recorded writes to its own placeholder, or leaves a stray.
LEMMA UnrecordedWritesNothing ==
  ASSUME TypeOK, StackMirrorsOpen, TypesInOrder, CurrentPlace, pc = "attr",
         NEW a \in Attributes, NEW v \in Datum[a][Current], ReadAttribute(a, v),
         ~Recorded(Current), NoStray'
  PROVE  \A k \in 1 .. Len(elements_) : elements_[k].type_ # "none" => elements_'[k] = elements_[k]
<1>D. PICK D : D = Current
  OBVIOUS
<1>1. /\ Len(dies) \in Nat /\ D \in 1 .. Len(dies) /\ dies[D] \in Die
      /\ Len(dies') = Len(dies)
      /\ \A d \in 1 .. Len(dies) :
           /\ dies'[d].tag = dies[d].tag /\ dies'[d].parent = dies[d].parent
           /\ dies'[d].children = dies[d].children
      /\ dies'[D].attrs = [dies[D].attrs EXCEPT ![a] = {v}]
      /\ a \in Attribute /\ v \in Nat /\ LogDwarfInfo(a, v)
  BY <1>D, AttributeHistory
<1>2. dies[D].children
  <2>1. Has(D, a)'
    <3>1. dies[D].attrs \in [Attribute -> SUBSET Nat]
      BY <1>1 DEF Die
    <3>2. dies'[D].attrs[a] = {v}
      BY <1>1, <3>1
    <3> QED BY <3>2 DEF Has
  <2>2. ~Recorded(D)'
    <3>1. dies[D].parent \in Nat /\ dies[D].parent < D
      BY <1>1 DEF Die, TypeOK
    <3>2. dies[D].parent # 0 => dies'[dies[D].parent].tag = dies[dies[D].parent].tag
      BY <1>1, <3>1
    <3> QED BY <1>1, <1>D, <3>2 DEF Recorded
  <2>3. ~Stray(D)'
    BY <1>1 DEF NoStray
  <2>4. dies'[D].children
    BY <1>1, <2>1, <2>2, <2>3 DEF Stray
  <2> QED BY <1>1, <2>4
<1>3. /\ elements_ # <<>> /\ Mirrors(elements_[Newest], D) /\ open # <<>> /\ Last(open) = D
      /\ ~TypeTag(dies[D].tag)
  BY <1>2, <1>D DEF CurrentPlace, Recorded
<1>4. CurrentElementType = "none"
  BY <1>3, Owner
<1>5. ~ToMember /\ ~ToParent
  BY <1>4 DEF ToMember, ToParent
<1>6. \A k \in 1 .. Len(elements_) : k # Newest => elements_'[k] = elements_[k]
  BY <1>1, <1>5, NewestFrame DEF TypeOK
<1>7. elements_[Newest].type_ = "none"
  BY <1>3 DEF Mirrors
<1> QED BY <1>6, <1>7

\* The record of another DIE keeps what it says, and that of this one says it too.
LEMMA ReadAttributeExact ==
  ASSUME TypeOK, StackMirrorsOpen, TypesInOrder, Filed, CurrentRecord, CurrentPlace, Records,
         pc = "attr", NEW a \in Attributes, NEW v \in Datum[a][Current], ReadAttribute(a, v)
  PROVE  Records'
<1>D. PICK D : D = Current
  OBVIOUS
<1>i. PICK i : i = Innermost
  OBVIOUS
<1>n. PICK n : n = Newest
  OBVIOUS
<1>1. /\ Len(dies) \in Nat /\ D = Len(dies) /\ D \in 1 .. Len(dies) /\ dies[D] \in Die
      /\ Current' = D /\ UNCHANGED <<pc, open>> /\ Len(dies') = Len(dies)
      /\ \A d \in 1 .. Len(dies) :
           /\ dies'[d].id = dies[d].id /\ dies'[d].tag = dies[d].tag
           /\ dies'[d].parent = dies[d].parent /\ dies'[d].children = dies[d].children
           /\ d # D => dies'[d].attrs = dies[d].attrs
      /\ dies'[D].attrs = [dies[D].attrs EXCEPT ![a] = {v}]
      /\ a \in Attribute /\ v \in Nat /\ LogDwarfInfo(a, v) /\ MayCarry(dies[D].tag, a)
  BY <1>D, AttributeHistory
<1>2. BuilderTypeOK /\ KindsKept /\ TypeOK' /\ CurrentRecord'
  BY QuietSteps, ReadAttributeRecords DEF Quiet, TypeOK
<1>3. Recorded(D)' <=> Recorded(D)
  <2>1. dies[D].parent \in Nat /\ dies[D].parent < D
    BY <1>1 DEF Die, TypeOK
  <2>2. dies[D].parent # 0 => dies'[dies[D].parent].tag = dies[dies[D].parent].tag
    BY <1>1, <2>1
  <2> QED BY <1>1, <2>2 DEF Recorded
<1>4. SUFFICES ASSUME NoStray',
                      NEW k \in 1 .. Len(elements_'), elements_'[k].type_ # "none",
                      NEW d \in 1 .. Len(dies'), dies'[d].id = elements_'[k].id_
               PROVE  RecordExact(elements_'[k], dies', d)
  BY DEF Records
<1>5. NoStray
  <2>1. SUFFICES ASSUME NEW b \in 1 .. Len(dies), Stray(b) PROVE Stray(b)'
    BY <1>1, <1>4 DEF NoStray
  <2>2. dies[b].parent \in Nat /\ dies[b].parent < b
    <3>1. dies[b] \in Die
      BY ElementOfSeq DEF TypeOK
    <3> QED BY <3>1 DEF Die, TypeOK
  <2>3. dies[b].parent # 0 => dies'[dies[b].parent].tag = dies[dies[b].parent].tag
    BY <1>1, <2>2
  <2>4. ~Recorded(b)' /\ ~dies'[b].children
    BY <1>1, <2>1, <2>3 DEF Stray, Recorded
  <2>5. PICK x \in Attribute : Has(b, x)
    BY <2>1 DEF Stray
  <2>6. Has(b, x)'
    <3>1. dies[D].attrs \in [Attribute -> SUBSET Nat]
      BY <1>1 DEF Die
    <3>2. dies'[D].attrs[x] = IF x = a THEN {v} ELSE dies[D].attrs[x]
      BY <1>1, <3>1
    <3> QED BY <1>1, <2>5, <3>2 DEF Has
  <2> QED BY <2>4, <2>6 DEF Stray
<1>6. /\ k \in 1 .. Len(elements_) /\ elements_[k].type_ # "none" /\ k \in Types
      /\ d \in 1 .. Len(dies) /\ dies[d].id = elements_[k].id_ /\ d \in Nat
      /\ elements_'[k].type_ = elements_[k].type_ /\ elements_'[k].id_ = elements_[k].id_
      /\ SameFiling(elements_'[k], elements_[k])
  BY <1>1, <1>2, <1>4, LenProperties DEF KindsKept, Types, BuilderTypeOK
<1> DEFINE e == elements_[k]
           f == elements_'[k]
<1>7. /\ RecordExact(e, dies, d) /\ Lists(e, MemberIds(d), BaseCount(d))
      /\ TypeTag(dies[d].tag)
  BY <1>5, <1>6, DieOfType DEF Records, Filed
<1>8. /\ Len(f.members_) = Len(e.members_) /\ Len(f.parents_) = Len(e.parents_)
      /\ \A j \in 1 .. Len(e.members_) : f.members_[j].id_ = e.members_[j].id_
  BY <1>6 DEF SameFiling
\* What holds of a DIE that is not the current one.
<1>9. /\ d # D => ElementExactIn(e, dies'[d].attrs)
      /\ \A j \in 1 .. Len(e.members_) : \A c \in 1 .. Len(dies) :
           dies[c].id = e.members_[j].id_ /\ c # D => ElementExactIn(e.members_[j], dies'[c].attrs)
      /\ BasesIn(dies', d) = BasesIn(dies, d)
      /\ \A c : RankIn(dies', d, c) = RankIn(dies, d, c)
      /\ \A c \in BasesIn(dies, d) : c # D =>
           ParentExactIn(e.parents_[RankIn(dies, d, c)], dies'[c].id, dies'[c].attrs)
  <2>1. BasesIn(dies', d) = BasesIn(dies, d) /\ BasesIn(dies, d) \subseteq 1 .. Len(dies)
    BY <1>1 DEF BasesIn
  <2>2. \A c : RankIn(dies', d, c) = RankIn(dies, d, c)
    BY <2>1 DEF RankIn
  <2> QED BY <1>1, <1>6, <1>7, <2>1, <2>2 DEF RecordExact
\* Which record may be that of the current DIE.
<1>10. /\ \A j \in 1 .. Len(e.members_) : \A c \in 1 .. Len(dies) :
            dies[c].id = e.members_[j].id_ =>
              dies[c].tag = "DW_TAG_member" /\ dies[c].parent = d
       /\ \A c \in BasesIn(dies, d) : dies[c].tag = "DW_TAG_inheritance" /\ dies[c].parent = d
  BY <1>6, DieOfMember DEF BasesIn
<1>11. ASSUME NEW b \in 1 .. Len(elements_), elements_[b].type_ # "none",
              elements_[b].id_ = dies[d].id
       PROVE  b = k
  <2>1. b \in Types
    BY <1>2, <1>11, LenProperties DEF Types, BuilderTypeOK
  <2> QED BY <1>6, <1>11, <2>1, SameElement
\* What is to be shown, in terms of the old history.
<1>12. ASSUME ElementExactIn(f, dies'[d].attrs),
             \A j \in 1 .. Len(e.members_) : \A c \in 1 .. Len(dies) :
               dies[c].id = e.members_[j].id_ => ElementExactIn(f.members_[j], dies'[c].attrs),
             \A c \in BasesIn(dies, d) :
               ParentExactIn(f.parents_[RankIn(dies, d, c)], dies'[c].id, dies'[c].attrs)
      PROVE  RecordExact(f, dies', d)
  <2>1. ASSUME NEW j \in 1 .. Len(f.members_), NEW c \in 1 .. Len(dies'),
               dies'[c].id = f.members_[j].id_
        PROVE  ElementExactIn(f.members_[j], dies'[c].attrs)
    <3>1. j \in 1 .. Len(e.members_) /\ c \in 1 .. Len(dies)
      BY <1>1, <1>8, <2>1
    <3>2. dies[c].id = e.members_[j].id_
      BY <1>1, <1>8, <2>1, <3>1
    <3> QED BY <1>12, <3>1, <3>2
  <2>2. ASSUME NEW c \in BasesIn(dies', d)
        PROVE  ParentExactIn(f.parents_[RankIn(dies', d, c)], dies'[c].id, dies'[c].attrs)
    <3>1. c \in BasesIn(dies, d) /\ RankIn(dies', d, c) = RankIn(dies, d, c)
      BY <1>9, <2>2
    <3> QED BY <1>12, <3>1
  <2> QED BY <1>12, <2>1, <2>2 DEF RecordExact
<1> HIDE DEF e, f
<1>13. SUFFICES RecordExact(f, dies', d)
  BY DEF f
<1>14. CASE ~Recorded(D)
  <2>1. f = e
    BY <1>6, <1>14, <1>4, <1>D, UnrecordedWritesNothing DEF e, f
  <2>2. d # D
    BY <1>7, <1>14 DEF Recorded
  <2>3. \A j \in 1 .. Len(e.members_) : \A c \in 1 .. Len(dies) :
          dies[c].id = e.members_[j].id_ => c # D
    BY <1>6, <1>7, <1>10, <1>14 DEF Recorded
  <2>4. \A c \in BasesIn(dies, d) : c # D
    BY <1>6, <1>7, <1>10, <1>14 DEF Recorded
  <2> QED BY <1>12, <1>9, <2>1, <2>2, <2>3, <2>4
<1>15. CASE TypeTag(dies[D].tag)
  <2>1. /\ last_parsed_type_ = ElementOf(dies[D].tag) /\ elements_ # <<>>
        /\ elements_[n].id_ = dies[D].id /\ elements_[n].type_ # "none"
        /\ n \in 1 .. Len(elements_)
    <3>1. /\ last_parsed_type_ = ElementOf(dies[D].tag) /\ elements_ # <<>>
          /\ elements_[n].id_ = dies[D].id
      BY <1>15, <1>D, <1>n DEF CurrentRecord, Recorded
    <3>2. Mirrors(elements_[n], D)
      BY <1>15, <1>D, <1>n DEF CurrentPlace
    <3>3. n \in 1 .. Len(elements_)
      BY <1>2, <1>n, <3>1, EmptySeq, LenProperties DEF Newest, BuilderTypeOK
    <3> QED BY <1>15, <3>1, <3>2, <3>3 DEF Mirrors, TypeTag
  <2>2. ~ToMember /\ ~ToParent
    <3>1. last_parsed_type_ \in TypeKind
      BY <1>15, <2>1, ElementOfTyped
    <3> QED BY <3>1 DEF ToMember, ToParent, TypeKind
  <2>3. /\ \A b \in 1 .. Len(elements_) : b # n => elements_'[b] = elements_[b]
        /\ elements_'[n].members_ = elements_[n].members_
        /\ elements_'[n].parents_ = elements_[n].parents_
    BY <1>1, <1>2, <1>n, <2>1, <2>2, NewestFrame
  <2>4. f.members_ = e.members_ /\ f.parents_ = e.parents_ /\ (k # n => f = e)
    BY <1>6, <2>3 DEF e, f
  <2>5. ElementExactIn(f, dies'[d].attrs)
    <3>1. CASE d = D
      <4>1. k = n
        BY <1>11, <2>1, <3>1
      <4>2. ElementExact(elements_[Newest], Current)'
        BY <1>1, <1>2, <1>15 DEF CurrentRecord, Recorded
      <4>3. Newest' = n /\ Current' = d
        BY <1>1, <1>2, <1>n, <3>1 DEF Newest, KindsKept
      <4> QED BY <4>1, <4>2, <4>3 DEF ElementExact, ElementExactIn, Holds, HoldsIn, f
    <3>2. CASE d # D
      <4>1. k # n
        <5>1. ASSUME k = n PROVE FALSE
          <6>1. dies[d].id = dies[D].id
            BY <1>6, <2>1, <5>1 DEF e
          <6> QED BY <1>1, <1>6, <3>2, <6>1, SameDie
        <5> QED BY <5>1
      <4> QED BY <1>9, <2>4, <3>2, <4>1
    <3> QED BY <3>1, <3>2
  <2>6. dies[D].tag \notin {"DW_TAG_member", "DW_TAG_inheritance"}
    BY <1>15, ElementOfMember
  <2>7. /\ \A j \in 1 .. Len(e.members_) : \A c \in 1 .. Len(dies) :
             dies[c].id = e.members_[j].id_ => c # D
        /\ \A c \in BasesIn(dies, d) : c # D
    BY <1>10, <2>6
  <2>8. /\ \A j \in 1 .. Len(e.members_) : \A c \in 1 .. Len(dies) :
             dies[c].id = e.members_[j].id_ => ElementExactIn(f.members_[j], dies'[c].attrs)
        /\ \A c \in BasesIn(dies, d) :
             ParentExactIn(f.parents_[RankIn(dies, d, c)], dies'[c].id, dies'[c].attrs)
    BY <1>9, <2>4, <2>7
  <2> QED BY <1>12, <2>5, <2>8
<1>16. CASE ~TypeTag(dies[D].tag) /\ Recorded(D)
  <2>1. /\ dies[D].tag \in {"DW_TAG_member", "DW_TAG_inheritance"}
        /\ d # D
        /\ ElementOf(dies[D].tag) = "member" <=> dies[D].tag = "DW_TAG_member"
        /\ ElementOf(dies[D].tag) = "inheritance" <=> dies[D].tag = "DW_TAG_inheritance"
        /\ last_parsed_type_ = ElementOf(dies[D].tag) /\ CurrentElementType # "none"
        /\ pc' = "attr" /\ Recorded(Current)'
    <3>1. /\ dies[D].tag \in {"DW_TAG_member", "DW_TAG_inheritance"} /\ d # D
          /\ pc' = "attr" /\ Recorded(Current)'
      BY <1>1, <1>3, <1>7, <1>16 DEF Recorded
    <3>2. last_parsed_type_ = ElementOf(dies[D].tag) /\ CurrentElementType # "none"
      BY <1>16, <1>D, <3>1 DEF CurrentRecord
    <3> QED BY <3>1, <3>2, ElementOfMember
  <2>2. /\ open # <<>> /\ i \in 1 .. Len(elements_) /\ elements_[i].type_ # "none"
        /\ Last(open) \in 1 .. Len(dies) /\ elements_[i].id_ = dies[Last(open)].id
    BY <1>i, <2>1, Owner
  <2>3. dies[D].parent = Last(open)
    <3>1. dies[D].tag \in Leaves
      BY <2>1 DEF Leaves
    <3> QED BY <1>D, <2>2, <3>1 DEF CurrentPlace
  <2>4. d = dies[D].parent => k = i
    BY <1>11, <2>2, <2>3
  <2>5. k = i => d = dies[D].parent
    <3>1. ASSUME k = i PROVE dies[d].id = dies[Last(open)].id
      BY <1>6, <2>2, <3>1
    <3> QED BY <1>6, <2>2, <2>3, <3>1, SameDie
  <2>6. Innermost' = i
    BY <1>2, <1>i DEF Innermost, KindsKept
  <2>7. CASE dies[D].tag = "DW_TAG_member"
    <3>m. PICK m : m = NewestMember
      OBVIOUS
    <3>1. last_parsed_type_ = "member" /\ elements_[i].members_ # <<>>
          /\ elements_[i].members_[m].id_ = dies[D].id
      BY <1>16, <1>D, <1>i, <2>1, <2>7, <3>m DEF CurrentRecord
    <3>2. /\ m \in 1 .. Len(elements_[i].members_)
          /\ \A b \in 1 .. Len(elements_) : b # i => elements_'[b] = elements_[b]
          /\ SameFields(elements_'[i], elements_[i])
          /\ elements_'[i].parents_ = elements_[i].parents_
          /\ \A j \in 1 .. Len(elements_[i].members_) : j # m =>
               elements_'[i].members_[j] = elements_[i].members_[j]
      BY <1>1, <1>2, <1>i, <2>1, <3>1, <3>m, MemberFrame
    <3>3. SameFields(f, e) /\ f.parents_ = e.parents_
      BY <1>6, <3>2 DEF SameFields, e, f
    <3>4. \A c \in BasesIn(dies, d) : c # D
      BY <1>10, <2>7
    <3>5. ElementExactIn(f, dies'[d].attrs)
      BY <1>9, <2>1, <3>3 DEF SameFields, ElementExactIn
    <3>6. ASSUME NEW j \in 1 .. Len(e.members_), NEW c \in 1 .. Len(dies),
                 dies[c].id = e.members_[j].id_
          PROVE  ElementExactIn(f.members_[j], dies'[c].attrs)
      <4>1. CASE c # D
        <5>1. f.members_[j] = e.members_[j]
          <6>1. CASE k # i
            BY <1>6, <3>2, <6>1 DEF e, f
          <6>2. CASE k = i
            <7>1. j # m
              <8>1. ASSUME j = m PROVE FALSE
                <9>1. dies[c].id = dies[D].id
                  BY <3>1, <3>6, <6>2, <8>1 DEF e
                <9> QED BY <1>1, <4>1, <9>1, SameDie
              <8> QED BY <8>1
            <7> QED BY <3>2, <3>6, <6>2, <7>1 DEF e, f
          <6> QED BY <6>1, <6>2
        <5> QED BY <1>9, <3>6, <4>1, <5>1
      <4>2. CASE c = D
        <5>1. k = i
          BY <1>10, <2>4, <3>6, <4>2
        <5>2. j = m
          <6>1. m \in 1 .. Len(e.members_) /\ e.members_[m].id_ = dies[D].id
            BY <3>1, <3>2, <5>1 DEF e
          <6>2. dies[D].id \in Nat /\ Len(e.members_) \in Nat
            <7>1. e \in ElementRecord
              BY <1>2, <1>6, ElementOfSeq DEF BuilderTypeOK, e
            <7>2. e.members_ \in Seq(MemberRecord)
              BY <7>1 DEF ElementRecord
            <7> QED BY <1>1, <7>2, LenProperties DEF Die
          <6>3. \A x, y \in 1 .. Len(e.members_) : x < y => e.members_[x].id_ < e.members_[y].id_
            BY <1>7 DEF Lists
          <6>4. e.members_[j].id_ = dies[D].id /\ j \in 1 .. Len(e.members_)
            BY <3>6, <4>2
          <6>5. ~(j < m) /\ ~(m < j)
            <7>1. j < m => e.members_[j].id_ < e.members_[m].id_
              BY <6>1, <6>3, <6>4
            <7>2. m < j => e.members_[m].id_ < e.members_[j].id_
              BY <6>1, <6>3, <6>4
            <7> QED BY <6>1, <6>2, <6>4, <7>1, <7>2
          <6> QED BY <6>1, <6>2, <6>4, <6>5
        <5>3. ElementExact(elements_[Innermost].members_[NewestMember], Current)'
          BY <1>1, <1>2, <2>1, <2>7 DEF CurrentRecord
        <5>4. NewestMember' = m
          BY <1>8, <1>i, <2>6, <3>m, <5>1 DEF NewestMember, e, f
        <5>5. ElementExact(elements_[i].members_[m], D)'
          BY <1>1, <2>6, <5>3, <5>4
        <5>6. ElementExactIn(elements_'[i].members_[m], dies'[D].attrs)
          BY <5>5 DEF ElementExact, ElementExactIn, Holds, HoldsIn
        <5> QED BY <4>2, <5>1, <5>2, <5>6 DEF f
      <4> QED BY <4>1, <4>2
    <3>7. \A c \in BasesIn(dies, d) :
            ParentExactIn(f.parents_[RankIn(dies, d, c)], dies'[c].id, dies'[c].attrs)
      BY <1>9, <3>3, <3>4
    <3> QED BY <1>12, <3>5, <3>6, <3>7
  <2>8. CASE dies[D].tag = "DW_TAG_inheritance"
    <3>m. PICK m : m = NewestParent
      OBVIOUS
    <3>1. last_parsed_type_ = "inheritance" /\ elements_[i].parents_ # <<>>
      BY <1>16, <1>D, <1>i, <2>1, <2>8 DEF CurrentRecord
    <3>2. /\ \A b \in 1 .. Len(elements_) : b # i => elements_'[b] = elements_[b]
          /\ SameFields(elements_'[i], elements_[i])
          /\ elements_'[i].members_ = elements_[i].members_
          /\ \A j \in 1 .. Len(elements_[i].parents_) : j # m =>
               elements_'[i].parents_[j] = elements_[i].parents_[j]
      <4>1. a \in {"data_member_location", "type"}
        BY <1>1, <2>8 DEF MayCarry
      <4>2. /\ BuilderTypeOK /\ v \in Nat /\ LogDwarfInfo(a, v)
            /\ last_parsed_type_ = "inheritance" /\ CurrentElementType # "none"
            /\ elements_[Innermost].parents_ # <<>>
        BY <1>1, <1>2, <1>i, <2>1, <3>1
      <4>3. /\ \A b \in 1 .. Len(elements_) : b # i => elements_'[b] = elements_[b]
            /\ SameFields(elements_'[i], elements_[i])
            /\ elements_'[i].members_ = elements_[i].members_
            /\ \A j \in 1 .. Len(elements_[i].parents_) : j # m =>
                 elements_'[i].parents_[j] = elements_[i].parents_[j]
        BY <1>i, <3>m, <4>1, <4>2, ParentFrame
      <4> QED BY <4>3
    <3>3. SameFields(f, e) /\ f.members_ = e.members_
      BY <1>6, <3>2 DEF SameFields, e, f
    <3>4. \A j \in 1 .. Len(e.members_) : \A c \in 1 .. Len(dies) :
            dies[c].id = e.members_[j].id_ => c # D
      BY <1>10, <2>8
    <3>5. ElementExactIn(f, dies'[d].attrs)
      BY <1>9, <2>1, <3>3 DEF SameFields, ElementExactIn
    <3>6. ASSUME NEW c \in BasesIn(dies, d)
          PROVE  ParentExactIn(f.parents_[RankIn(dies, d, c)], dies'[c].id, dies'[c].attrs)
      <4>1. /\ BasesIn(dies, d) \subseteq 1 .. Len(dies)
            /\ RankIn(dies, d, c) \in 1 .. Len(e.parents_)
            /\ Cardinality(BasesIn(dies, d)) = Len(e.parents_)
        <5>1. Cardinality(BasesIn(dies, d)) = Len(e.parents_)
          BY <1>7, RanksAre DEF Lists
        <5>2. RankIn(dies, d, c) \in 1 .. Cardinality(BasesIn(dies, d))
          BY <1>1, <3>6, Ranks
        <5>3. BasesIn(dies, d) \subseteq 1 .. Len(dies)
          BY DEF BasesIn
        <5> QED BY <5>1, <5>2, <5>3
      <4>2. CASE k # i
        <5>1. f = e
          BY <1>6, <3>2, <4>2 DEF e, f
        <5>2. c # D
          BY <1>10, <2>4, <3>6, <4>2
        <5> QED BY <1>9, <3>6, <5>1, <5>2
      <4>3. CASE k = i
        <5>1. m = Len(e.parents_)
          BY <1>i, <3>m, <4>3 DEF NewestParent, e
        <5>2. D \in BasesIn(dies, d) /\ RankIn(dies, d, D) = m
          <6>1. D \in BasesIn(dies, d)
            BY <1>1, <2>5, <2>8, <4>3 DEF BasesIn
          <6>2. \A b \in BasesIn(dies, d) : b <= D
            BY <1>1, <4>1
          <6>3. RankIn(dies, d, D) = Cardinality(BasesIn(dies, d))
            BY <1>1, <6>1, <6>2, Ranks
          <6> QED BY <4>1, <5>1, <6>1, <6>3
        <5>3. CASE c = D
          <6>1. ParentExact(elements_[Innermost].parents_[NewestParent], Current)'
            BY <1>1, <1>2, <2>1, <2>8 DEF CurrentRecord
          <6>2. NewestParent' = m
            BY <1>8, <1>i, <2>6, <3>m, <4>3 DEF NewestParent, e, f
          <6>3. ParentExact(elements_[i].parents_[m], D)'
            BY <1>1, <2>6, <6>1, <6>2
          <6> QED BY <4>3, <5>2, <5>3, <6>3
                  DEF ParentExact, ParentExactIn, Holds, HoldsIn, Has, f
        <5>4. CASE c # D
          <6>1. c < D /\ RankIn(dies, d, c) < RankIn(dies, d, D)
            <7>1. c < D
              BY <1>1, <3>6, <4>1, <5>4
            <7> QED BY <1>1, <3>6, <5>2, <7>1, Ranks
          <6>2. RankIn(dies, d, c) # m
            BY <4>1, <5>1, <5>2, <6>1
          <6>3. f.parents_[RankIn(dies, d, c)] = e.parents_[RankIn(dies, d, c)]
            BY <3>2, <4>1, <4>3, <6>2 DEF e, f
          <6> QED BY <1>9, <3>6, <5>4, <6>3
        <5> QED BY <5>3, <5>4
      <4> QED BY <4>2, <4>3
    <3>7. \A j \in 1 .. Len(e.members_) : \A c \in 1 .. Len(dies) :
            dies[c].id = e.members_[j].id_ => ElementExactIn(f.members_[j], dies'[c].attrs)
      BY <1>9, <3>3, <3>4
    <3> QED BY <1>12, <3>5, <3>6, <3>7
  <2> QED BY <2>1, <2>7, <2>8
<1> QED BY <1>14, <1>15, <1>16

(***************************************************************************)
(* The theorem.                                                            *)
(***************************************************************************)

\* Steps that neither read a DIE nor an attribute.
LEMMA NothingRead ==
  ASSUME CurrentPlace, Records, UNCHANGED <<elements_, dies>>,
         \/ pc' # "attr"
         \/ UNCHANGED <<pc, open>>
  PROVE  CurrentPlace' /\ Records'
<1>1. NoStray' <=> NoStray
  BY DEF NoStray, Stray, Recorded, Has
<1>2. Records'
  BY <1>1 DEF Records
<1>3. CASE pc' # "attr"
  BY <1>2, <1>3 DEF CurrentPlace
<1>4. CASE UNCHANGED <<pc, open>>
  <2>1. /\ Current' = Current /\ Newest' = Newest
        /\ Mirrors(elements_[Newest], Current)' <=> Mirrors(elements_[Newest], Current)
    BY DEF Current, Newest, Mirrors
  <2> QED BY <1>2, <1>4, <2>1 DEF CurrentPlace
<1> QED BY <1>3, <1>4

\* As long as no childless DIE that is not recorded carries an attribute, every record of the
\* dump says what its own DIE says, down to the members and the base classes: whatever scopes
\* and unknown tags are between them, and wherever the walk is stopped.
THEOREM RecordsFaithful == Spec => []ExactWithoutStrays
<1>1. Init => CurrentPlace /\ Records
  BY EmptySeq DEF Init, BuilderInit, CurrentPlace, Records
<1>2. /\ TypeOK /\ StackMirrorsOpen /\ TypesInOrder /\ Filed /\ CurrentRecord
      /\ CurrentPlace /\ Records /\ [Next]_vars
      => CurrentPlace' /\ Records'
  <2> SUFFICES ASSUME TypeOK, StackMirrorsOpen, TypesInOrder, Filed, CurrentRecord,
                      CurrentPlace, Records, [Next]_vars
               PROVE  CurrentPlace' /\ Records'
    OBVIOUS
  <2>1. CASE ReadUnit \/ Return \/ EndOfAttributes \/ EndUnit \/ ReadNull \/ UNCHANGED vars
    <3>1. UNCHANGED <<elements_, dies>>
      BY <2>1, ReadNullStep DEF ReadUnit, Return, EndOfAttributes, EndUnit, vars, builder
    <3>2. pc' # "attr" \/ UNCHANGED <<pc, open>>
      BY <2>1 DEF ReadUnit, Return, EndOfAttributes, EndUnit, ReadNull, vars
    <3> QED BY <3>1, <3>2, NothingRead
  <2>2. ASSUME Len(dies) < MaxDies, NEW tag_id \in Offset[Len(dies) + 1],
               NEW tag \in Tags, NEW c \in BOOLEAN, ReadDie(tag_id, tag, c)
        PROVE  CurrentPlace' /\ Records'
    BY <2>2, ReadDiePlace, ReadDieExact
  <2>3. ASSUME pc = "attr", NEW a \in Attributes, NEW v \in Datum[a][Current], ReadAttribute(a, v)
        PROVE  CurrentPlace' /\ Records'
    BY <2>3, ReadAttributePlace, ReadAttributeExact
  <2> QED BY <2>1, <2>2, <2>3 DEF Next
<1>3. TypeOK /\ TypesInOrder /\ Filed /\ Records => ExactWithoutStrays
  BY RecordsMean
<1>4. Spec => []Filed
  BY FiledAlways
<1>5. Spec => []CurrentRecord
  BY CurrentRecordAlways
<1> QED BY <1>1, <1>2, <1>3, <1>4, <1>5, TypeCorrect, StackFaithful, TypesComplete, PTL DEF Spec

================================================================================
