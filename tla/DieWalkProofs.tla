----------------------------- MODULE DieWalkProofs -----------------------------
(***************************************************************************)
(* What holds of DieWalk for every section, every value of the attributes  *)
(* and every value the uninitialized last_parsed_type_ may have: the stack *)
(* is that of the open DIEs; every member and base class is filed under its*)
(* own type, and every attribute of a recorded DIE in its own record, which*)
(* is what the stack and last_parsed_type_ are for.                        *)
(***************************************************************************)
EXTENDS DieWalk, SequenceTheorems, FiniteSetTheorems, TLAPS

(***************************************************************************)
(* Sequences.                                                              *)
(***************************************************************************)

\* What popping a stack leaves.
LEMMA FrontLast ==
  ASSUME NEW S, NEW s \in Seq(S), s # <<>>
  PROVE  /\ Front(s) \in Seq(S)
         /\ Len(Front(s)) = Len(s) - 1
         /\ \A i \in 1 .. Len(s) - 1 : Front(s)[i] = s[i]
         /\ Last(s) = s[Len(s)]
         /\ Last(s) \in S
         /\ Len(s) \in Nat \ {0}
<1>1. Len(s) \in Nat \ {0} /\ \A i \in 1 .. Len(s) : s[i] \in S
  BY EmptySeq, ElementOfSeq
<1>2. /\ Front(s) \in Seq(S)
      /\ Len(Front(s)) = Len(s) - 1
      /\ \A i \in 1 .. Len(s) - 1 : Front(s)[i] = s[i]
  <2>1. 1 \in Int /\ Len(s) - 1 \in Int /\ \A i \in 1 .. Len(s) - 1 : s[i] \in S
    BY <1>1
  <2> DEFINE f == SubSeq(s, 1, Len(s) - 1)
  <2>2. /\ f \in Seq(S)
        /\ Len(f) = IF 1 <= Len(s) - 1 THEN Len(s) - 1 - 1 + 1 ELSE 0
        /\ \A i \in 1 .. Len(s) - 1 - 1 + 1 : f[i] = s[1 + i - 1]
    BY ONLY <2>1, SubSeqProperties
  <2>3. Front(s) = f
    BY DEF Front
  <2> HIDE DEF f
  <2>4. Len(f) = Len(s) - 1
    <3> DEFINE n == Len(s)
    <3>1. n \in Nat \ {0} /\ Len(f) = IF 1 <= n - 1 THEN n - 1 - 1 + 1 ELSE 0
      BY <1>1, <2>2
    <3> HIDE DEF n
    <3>2. Len(f) = n - 1
      BY <3>1
    <3> QED BY <3>2 DEF n
  <2>5. ASSUME NEW i \in 1 .. Len(s) - 1 PROVE f[i] = s[i]
    <3>1. i \in 1 .. Len(s) - 1 - 1 + 1 /\ 1 + i - 1 = i
      BY <1>1
    <3> QED BY ONLY <2>2, <3>1
  <2> QED BY <2>2, <2>3, <2>4, <2>5
<1> QED BY <1>1, <1>2 DEF Last

(***************************************************************************)
(* The builder keeps its shape: one lemma per operation.                   *)
(***************************************************************************)

\* Element e has as many members and base classes as f, the members with its ids.
SameFiling(e, f) ==
  /\ Len(e.members_) = Len(f.members_) /\ Len(e.parents_) = Len(f.parents_)
  /\ \A i \in 1 .. Len(f.members_) : e.members_[i].id_ = f.members_[i].id_

\* An operation that keeps the kind and the id of every element, what is filed in it,
\* and the stack.
KindsKept ==
  /\ \A k \in 1 .. Len(elements_) : SameFiling(elements_'[k], elements_[k])
  /\ Len(elements_') = Len(elements_)
  /\ \A k \in 1 .. Len(elements_) : /\ elements_'[k].type_ = elements_[k].type_
                                    /\ elements_'[k].id_ = elements_[k].id_
  /\ UNCHANGED <<nested_elements_, last_parsed_type_>>

\* What a builder with an innermost open element holds there.
LEMMA InnermostTyped ==
  ASSUME BuilderTypeOK, CurrentElementType # "none"
  PROVE  /\ Innermost \in 1 .. Len(elements_)
         /\ elements_[Innermost] \in ElementRecord
         /\ elements_[Innermost].members_ \in Seq(MemberRecord)
         /\ elements_[Innermost].parents_ \in Seq(Parent)
<1>1. Innermost \in 1 .. Len(elements_)
  BY FrontLast DEF CurrentElementType, Innermost, BuilderTypeOK
<1>2. elements_[Innermost] \in ElementRecord
  BY <1>1, ElementOfSeq DEF BuilderTypeOK
<1> QED BY <1>1, <1>2 DEF ElementRecord

\* Replacing one element by another of its kind keeps the shape.
LEMMA ReplaceKeeps ==
  ASSUME BuilderTypeOK, NEW k \in 1 .. Len(elements_), NEW e \in ElementRecord,
         e.type_ = elements_[k].type_, e.id_ = elements_[k].id_,
         SameFiling(e, elements_[k]),
         elements_' = [elements_ EXCEPT ![k] = e],
         UNCHANGED <<nested_elements_, last_parsed_type_>>
  PROVE  BuilderTypeOK' /\ KindsKept
<1>1. /\ elements_' \in Seq(ElementRecord)
      /\ Len(elements_') = Len(elements_)
      /\ \A j \in 1 .. Len(elements_) : elements_'[j] = IF j = k THEN e ELSE elements_[j]
  BY ExceptSeq DEF BuilderTypeOK
<1>2. \A j \in 1 .. Len(elements_) : SameFiling(elements_'[j], elements_[j])
  BY <1>1 DEF SameFiling
<1> QED BY <1>1, <1>2 DEF BuilderTypeOK, KindsKept

\* A call that returns early keeps everything.
LEMMA StutterKeeps ==
  ASSUME BuilderTypeOK, UNCHANGED <<elements_, nested_elements_, last_parsed_type_>>
  PROVE  BuilderTypeOK' /\ KindsKept
BY DEF BuilderTypeOK, KindsKept, SameFiling

\* Replacing the newest member of the innermost element.
LEMMA MemberKeeps ==
  ASSUME BuilderTypeOK, ToMember, NEW m \in MemberRecord,
         m.id_ = elements_[Innermost].members_[NewestMember].id_,
         elements_' = [elements_ EXCEPT ![Innermost] =
           [elements_[Innermost] EXCEPT !.members_ =
             [elements_[Innermost].members_ EXCEPT ![NewestMember] = m]]],
         UNCHANGED <<nested_elements_, last_parsed_type_>>
  PROVE  BuilderTypeOK' /\ KindsKept
<1> DEFINE ms == elements_[Innermost].members_
           e == [elements_[Innermost] EXCEPT !.members_ = [ms EXCEPT ![NewestMember] = m]]
<1>1. /\ Innermost \in 1 .. Len(elements_)
      /\ elements_[Innermost] \in ElementRecord
      /\ ms \in Seq(MemberRecord)
      /\ ms # <<>>
  BY InnermostTyped DEF ToMember
<1>2. NewestMember \in 1 .. Len(ms)
  BY <1>1, EmptySeq DEF NewestMember
<1>3. [ms EXCEPT ![NewestMember] = m] \in Seq(MemberRecord)
  BY <1>1, <1>2, ExceptSeq
<1>4. e \in ElementRecord /\ e.type_ = elements_[Innermost].type_ /\ e.id_ = elements_[Innermost].id_
  BY <1>1, <1>3 DEF ElementRecord
<1>5. SameFiling(e, elements_[Innermost])
  <2>1. /\ Len([ms EXCEPT ![NewestMember] = m]) = Len(ms)
        /\ \A i \in 1 .. Len(ms) :
             [ms EXCEPT ![NewestMember] = m][i] = IF i = NewestMember THEN m ELSE ms[i]
    BY <1>1, <1>2, ExceptSeq
  <2>2. e.members_ = [ms EXCEPT ![NewestMember] = m] /\ e.parents_ = elements_[Innermost].parents_
    BY <1>1 DEF ElementRecord
  <2> QED BY <2>1, <2>2 DEF SameFiling
<1> QED BY <1>1, <1>4, <1>5, ReplaceKeeps

\* Replacing the newest base class of the innermost element.
LEMMA ParentKeeps ==
  ASSUME BuilderTypeOK, ToParent, NEW p \in Parent,
         elements_' = [elements_ EXCEPT ![Innermost] =
           [elements_[Innermost] EXCEPT !.parents_ =
             [elements_[Innermost].parents_ EXCEPT ![NewestParent] = p]]],
         UNCHANGED <<nested_elements_, last_parsed_type_>>
  PROVE  BuilderTypeOK' /\ KindsKept
<1> DEFINE ps == elements_[Innermost].parents_
           e == [elements_[Innermost] EXCEPT !.parents_ = [ps EXCEPT ![NewestParent] = p]]
<1>1. /\ Innermost \in 1 .. Len(elements_)
      /\ elements_[Innermost] \in ElementRecord
      /\ ps \in Seq(Parent)
      /\ ps # <<>>
  BY InnermostTyped DEF ToParent
<1>2. NewestParent \in 1 .. Len(ps)
  BY <1>1, EmptySeq DEF NewestParent
<1>3. [ps EXCEPT ![NewestParent] = p] \in Seq(Parent)
  BY <1>1, <1>2, ExceptSeq
<1>4. e \in ElementRecord /\ e.type_ = elements_[Innermost].type_ /\ e.id_ = elements_[Innermost].id_
  BY <1>1, <1>3 DEF ElementRecord
<1>5. SameFiling(e, elements_[Innermost])
  <2>1. Len([ps EXCEPT ![NewestParent] = p]) = Len(ps)
    BY <1>1, <1>2, ExceptSeq
  <2>2. e.members_ = elements_[Innermost].members_ /\ e.parents_ = [ps EXCEPT ![NewestParent] = p]
    BY <1>1 DEF ElementRecord
  <2> QED BY <2>1, <2>2 DEF SameFiling
<1> QED BY <1>1, <1>4, <1>5, ReplaceKeeps

\* The newest member, base class and element that the setters start from.
LEMMA NewestMemberTyped ==
  ASSUME BuilderTypeOK, ToMember
  PROVE  elements_[Innermost].members_[NewestMember] \in MemberRecord
<1>1. elements_[Innermost].members_ \in Seq(MemberRecord) /\ elements_[Innermost].members_ # <<>>
  BY InnermostTyped DEF ToMember
<1> QED BY <1>1, EmptySeq, ElementOfSeq DEF NewestMember

LEMMA NewestParentTyped ==
  ASSUME BuilderTypeOK, ToParent
  PROVE  elements_[Innermost].parents_[NewestParent] \in Parent
<1>1. elements_[Innermost].parents_ \in Seq(Parent) /\ elements_[Innermost].parents_ # <<>>
  BY InnermostTyped DEF ToParent
<1> QED BY <1>1, EmptySeq, ElementOfSeq DEF NewestParent

LEMMA NewestTyped ==
  ASSUME BuilderTypeOK, Ready
  PROVE  Newest \in 1 .. Len(elements_) /\ elements_[Newest] \in ElementRecord
BY EmptySeq, ElementOfSeq DEF Newest, Ready, BuilderTypeOK

LEMMA SetElementNameKeeps ==
  ASSUME BuilderTypeOK, NEW name \in Nat, SetElementName(name)
  PROVE  BuilderTypeOK' /\ KindsKept
<1>1. CASE ToMember
  <2> DEFINE m == [elements_[Innermost].members_[NewestMember] EXCEPT !.name_ = name]
  <2>1. m \in MemberRecord /\ m.id_ = elements_[Innermost].members_[NewestMember].id_
    BY <1>1, NewestMemberTyped DEF MemberRecord
  <2>2. elements_' = [elements_ EXCEPT ![Innermost] =
          [elements_[Innermost] EXCEPT !.members_ =
            [elements_[Innermost].members_ EXCEPT ![NewestMember] = m]]]
    BY <1>1 DEF SetElementName, ToMember, ToParent
  <2> QED BY <1>1, <2>1, <2>2, MemberKeeps DEF SetElementName
<1>2. CASE Ready /\ last_parsed_type_ # "member"
  <2> DEFINE e == [elements_[Newest] EXCEPT !.name_ = name]
  <2>1. Newest \in 1 .. Len(elements_) /\ elements_[Newest] \in ElementRecord
    BY <1>2, NewestTyped
  <2>2. /\ e \in ElementRecord /\ e.type_ = elements_[Newest].type_ /\ e.id_ = elements_[Newest].id_
        /\ SameFiling(e, elements_[Newest])
    BY <2>1 DEF ElementRecord, SameFiling
  <2>3. elements_' = [elements_ EXCEPT ![Newest] = e]
    BY <1>2 DEF SetElementName, ToMember, ToParent
  <2> QED BY <2>1, <2>2, <2>3, ReplaceKeeps DEF SetElementName
<1>3. CASE ~ToMember /\ ~(Ready /\ last_parsed_type_ # "member")
  <2>1. elements_' = elements_
    BY <1>3 DEF SetElementName
  <2> QED BY <2>1, StutterKeeps DEF SetElementName
<1> QED BY <1>1, <1>2, <1>3

LEMMA SetElementSizeKeeps ==
  ASSUME BuilderTypeOK, NEW size \in Nat, SetElementSize(size)
  PROVE  BuilderTypeOK' /\ KindsKept
<1>1. CASE ToMember
  <2> DEFINE m == [elements_[Innermost].members_[NewestMember] EXCEPT !.size_ = size]
  <2>1. m \in MemberRecord /\ m.id_ = elements_[Innermost].members_[NewestMember].id_
    BY <1>1, NewestMemberTyped DEF MemberRecord
  <2>2. elements_' = [elements_ EXCEPT ![Innermost] =
          [elements_[Innermost] EXCEPT !.members_ =
            [elements_[Innermost].members_ EXCEPT ![NewestMember] = m]]]
    BY <1>1 DEF SetElementSize, ToMember, ToParent
  <2> QED BY <1>1, <2>1, <2>2, MemberKeeps DEF SetElementSize
<1>2. CASE Ready /\ last_parsed_type_ # "member"
  <2> DEFINE e == [elements_[Newest] EXCEPT !.size_ = size]
  <2>1. Newest \in 1 .. Len(elements_) /\ elements_[Newest] \in ElementRecord
    BY <1>2, NewestTyped
  <2>2. /\ e \in ElementRecord /\ e.type_ = elements_[Newest].type_ /\ e.id_ = elements_[Newest].id_
        /\ SameFiling(e, elements_[Newest])
    BY <2>1 DEF ElementRecord, SameFiling
  <2>3. elements_' = [elements_ EXCEPT ![Newest] = e]
    BY <1>2 DEF SetElementSize, ToMember, ToParent
  <2> QED BY <2>1, <2>2, <2>3, ReplaceKeeps DEF SetElementSize
<1>3. CASE ~ToMember /\ ~(Ready /\ last_parsed_type_ # "member")
  <2>1. elements_' = elements_
    BY <1>3 DEF SetElementSize
  <2> QED BY <2>1, StutterKeeps DEF SetElementSize
<1> QED BY <1>1, <1>2, <1>3

LEMMA SetElementOffsetKeeps ==
  ASSUME BuilderTypeOK, NEW offset \in Nat, SetElementOffset(offset)
  PROVE  BuilderTypeOK' /\ KindsKept
<1>1. CASE ToMember
  <2> DEFINE m == [elements_[Innermost].members_[NewestMember] EXCEPT !.offset_ = offset]
  <2>1. m \in MemberRecord /\ m.id_ = elements_[Innermost].members_[NewestMember].id_
    BY <1>1, NewestMemberTyped DEF MemberRecord
  <2>2. elements_' = [elements_ EXCEPT ![Innermost] =
          [elements_[Innermost] EXCEPT !.members_ =
            [elements_[Innermost].members_ EXCEPT ![NewestMember] = m]]]
    BY <1>1 DEF SetElementOffset, ToMember, ToParent
  <2> QED BY <1>1, <2>1, <2>2, MemberKeeps DEF SetElementOffset
<1>2. CASE ToParent
  <2> DEFINE p == [elements_[Innermost].parents_[NewestParent] EXCEPT !.offset = offset]
  <2>1. p \in Parent
    BY <1>2, NewestParentTyped DEF Parent
  <2>2. elements_' = [elements_ EXCEPT ![Innermost] =
          [elements_[Innermost] EXCEPT !.parents_ =
            [elements_[Innermost].parents_ EXCEPT ![NewestParent] = p]]]
    BY <1>2 DEF SetElementOffset, ToMember, ToParent
  <2> QED BY <1>2, <2>1, <2>2, ParentKeeps DEF SetElementOffset
<1>3. CASE ~ToMember /\ ~ToParent
  <2>1. elements_' = elements_
    BY <1>3 DEF SetElementOffset
  <2> QED BY <2>1, StutterKeeps DEF SetElementOffset
<1> QED BY <1>1, <1>2, <1>3

LEMMA SetElementTypeKeeps ==
  ASSUME BuilderTypeOK, NEW type_id \in Nat, SetElementType(type_id)
  PROVE  BuilderTypeOK' /\ KindsKept
<1>1. CASE ToMember
  <2> DEFINE m == [elements_[Innermost].members_[NewestMember] EXCEPT !.type_id_ = type_id]
  <2>1. m \in MemberRecord /\ m.id_ = elements_[Innermost].members_[NewestMember].id_
    BY <1>1, NewestMemberTyped DEF MemberRecord
  <2>2. elements_' = [elements_ EXCEPT ![Innermost] =
          [elements_[Innermost] EXCEPT !.members_ =
            [elements_[Innermost].members_ EXCEPT ![NewestMember] = m]]]
    BY <1>1 DEF SetElementType, ToMember, ToParent
  <2> QED BY <1>1, <2>1, <2>2, MemberKeeps DEF SetElementType
<1>2. CASE ToParent
  <2> DEFINE p == [elements_[Innermost].parents_[NewestParent] EXCEPT !.id = type_id]
  <2>1. p \in Parent
    BY <1>2, NewestParentTyped DEF Parent
  <2>2. elements_' = [elements_ EXCEPT ![Innermost] =
          [elements_[Innermost] EXCEPT !.parents_ =
            [elements_[Innermost].parents_ EXCEPT ![NewestParent] = p]]]
    BY <1>2 DEF SetElementType, ToMember, ToParent
  <2> QED BY <1>2, <2>1, <2>2, ParentKeeps DEF SetElementType
<1>3. CASE Ready /\ last_parsed_type_ \notin {"member", "inheritance", "subrange_type"}
  <2> DEFINE e == [elements_[Newest] EXCEPT !.type_id_ = type_id]
  <2>1. Newest \in 1 .. Len(elements_) /\ elements_[Newest] \in ElementRecord
    BY <1>3, NewestTyped
  <2>2. /\ e \in ElementRecord /\ e.type_ = elements_[Newest].type_ /\ e.id_ = elements_[Newest].id_
        /\ SameFiling(e, elements_[Newest])
    BY <2>1 DEF ElementRecord, SameFiling
  <2>3. elements_' = [elements_ EXCEPT ![Newest] = e]
    BY <1>3 DEF SetElementType, ToMember, ToParent
  <2> QED BY <2>1, <2>2, <2>3, ReplaceKeeps DEF SetElementType
<1>4. CASE ~ToMember /\ ~ToParent /\ ~(Ready /\ last_parsed_type_ \notin {"member", "inheritance", "subrange_type"})
  <2>1. elements_' = elements_
    BY <1>4 DEF SetElementType
  <2> QED BY <2>1, StutterKeeps DEF SetElementType
<1> QED BY <1>1, <1>2, <1>3, <1>4

LEMMA SetElementCountKeeps ==
  ASSUME BuilderTypeOK, NEW count \in Nat, SetElementCount(count)
  PROVE  BuilderTypeOK' /\ KindsKept
<1>1. CASE Ready /\ last_parsed_type_ = "subrange_type"
  <2> DEFINE e == [elements_[Newest] EXCEPT !.count_ = count]
  <2>1. Newest \in 1 .. Len(elements_) /\ elements_[Newest] \in ElementRecord
    BY <1>1, NewestTyped
  <2>2. /\ e \in ElementRecord /\ e.type_ = elements_[Newest].type_ /\ e.id_ = elements_[Newest].id_
        /\ SameFiling(e, elements_[Newest])
    BY <2>1 DEF ElementRecord, SameFiling
  <2>3. elements_' = [elements_ EXCEPT ![Newest] = e]
    BY <1>1 DEF SetElementCount, ToMember, ToParent
  <2> QED BY <2>1, <2>2, <2>3, ReplaceKeeps DEF SetElementCount
<1>2. CASE ~(Ready /\ last_parsed_type_ = "subrange_type")
  <2>1. elements_' = elements_
    BY <1>2 DEF SetElementCount
  <2> QED BY <2>1, StutterKeeps DEF SetElementCount
<1> QED BY <1>1, <1>2

LEMMA BuilderInitTyped == BuilderInit => BuilderTypeOK
  BY GarbageAssumption DEF BuilderInit, BuilderTypeOK

LEMMA EndOfChildrenTyped ==
  ASSUME BuilderTypeOK, EndOfChildren
  PROVE  BuilderTypeOK'
<1>1. CASE UNCHANGED builder
  BY <1>1 DEF builder, BuilderTypeOK
<1>2. CASE nested_elements_ # <<>> /\ EndOfChildren
  <2>1. /\ nested_elements_' \in Seq(1 .. Len(elements_))
        /\ elements_' = elements_
    BY <1>2, FrontLast DEF BuilderTypeOK, EndOfChildren, builder
  <2>2. last_parsed_type_' \in ElementType
    <3>1. CASE nested_elements_' = <<>>
      BY <3>1, <1>2 DEF BuilderTypeOK, EndOfChildren, builder
    <3>2. CASE nested_elements_' # <<>>
      <4> DEFINE k == Last(nested_elements_')
      <4>1. k \in 1 .. Len(elements_)
        BY <3>2, <2>1, FrontLast
      <4>2. last_parsed_type_' = elements_[k].type_
        BY <3>2, <1>2 DEF EndOfChildren, builder
      <4> HIDE DEF k
      <4>3. elements_[k] \in ElementRecord
        BY <4>1, ElementOfSeq DEF BuilderTypeOK
      <4>4. elements_[k].type_ \in ElementType
        BY <4>3 DEF ElementRecord
      <4> QED BY <4>2, <4>4
    <3> QED BY <3>1, <3>2
  <2> QED BY <2>1, <2>2 DEF BuilderTypeOK
<1> QED BY <1>1, <1>2 DEF EndOfChildren

\* What the switch of AddElement does to the elements that were there, and where
\* it puts the new one.
LEMMA InsertedKeeps ==
  ASSUME BuilderTypeOK, NEW t \in ElementType, NEW id \in Nat
  PROVE  /\ Inserted(t, id) \in Seq(ElementRecord)
         /\ Len(Inserted(t, id)) =
              IF Added(t) /\ t \notin {"member", "inheritance"} THEN Len(elements_) + 1
              ELSE Len(elements_)
         /\ \A k \in 1 .. Len(elements_) : /\ Inserted(t, id)[k].type_ = elements_[k].type_
                                           /\ Inserted(t, id)[k].id_ = elements_[k].id_
         /\ Added(t) /\ t \notin {"member", "inheritance"} =>
              Inserted(t, id)[Len(elements_) + 1] = Element(t, id)
<1>1. CASE ~Added(t)
  BY <1>1 DEF BuilderTypeOK, Inserted
<1>2. CASE Added(t) /\ t = "member"
  <2> DEFINE e == [elements_[Innermost] EXCEPT !.members_ = Append(@, Element(t, id))]
  <2>1. /\ Innermost \in 1 .. Len(elements_)
        /\ elements_[Innermost] \in ElementRecord
        /\ elements_[Innermost].members_ \in Seq(MemberRecord)
    BY <1>2, InnermostTyped DEF Added
  <2>2. Element(t, id) \in MemberRecord
    BY <1>2 DEF Element, MemberRecord
  <2>3. Append(elements_[Innermost].members_, Element(t, id)) \in Seq(MemberRecord)
    BY <2>1, <2>2, AppendProperties
  <2>4. e \in ElementRecord /\ e.type_ = elements_[Innermost].type_ /\ e.id_ = elements_[Innermost].id_
    BY <2>1, <2>3 DEF ElementRecord
  <2>5. Inserted(t, id) = [elements_ EXCEPT ![Innermost] = e]
    BY <1>2 DEF Inserted
  <2> HIDE DEF e
  <2>6. /\ [elements_ EXCEPT ![Innermost] = e] \in Seq(ElementRecord)
        /\ Len([elements_ EXCEPT ![Innermost] = e]) = Len(elements_)
        /\ \A j \in 1 .. Len(elements_) :
             [elements_ EXCEPT ![Innermost] = e][j] = IF j = Innermost THEN e ELSE elements_[j]
    BY <2>1, <2>4, ExceptSeq DEF BuilderTypeOK
  <2> QED BY <1>2, <2>4, <2>5, <2>6
<1>3. CASE Added(t) /\ t = "inheritance"
  <2> DEFINE p == [id |-> id, offset |-> 0]
             e == [elements_[Innermost] EXCEPT !.parents_ = Append(@, p)]
  <2>1. /\ Innermost \in 1 .. Len(elements_)
        /\ elements_[Innermost] \in ElementRecord
        /\ elements_[Innermost].parents_ \in Seq(Parent)
    BY <1>3, InnermostTyped DEF Added
  <2>2. p \in Parent
    BY DEF Parent
  <2>3. Append(elements_[Innermost].parents_, p) \in Seq(Parent)
    BY <2>1, <2>2, AppendProperties
  <2>4. e \in ElementRecord /\ e.type_ = elements_[Innermost].type_ /\ e.id_ = elements_[Innermost].id_
    BY <2>1, <2>3 DEF ElementRecord
  <2>5. Inserted(t, id) = [elements_ EXCEPT ![Innermost] = e]
    BY <1>3 DEF Inserted
  <2> HIDE DEF e
  <2>6. /\ [elements_ EXCEPT ![Innermost] = e] \in Seq(ElementRecord)
        /\ Len([elements_ EXCEPT ![Innermost] = e]) = Len(elements_)
        /\ \A j \in 1 .. Len(elements_) :
             [elements_ EXCEPT ![Innermost] = e][j] = IF j = Innermost THEN e ELSE elements_[j]
    BY <2>1, <2>4, ExceptSeq DEF BuilderTypeOK
  <2> QED BY <1>3, <2>4, <2>5, <2>6
<1>4. CASE Added(t) /\ t \notin {"member", "inheritance"}
  <2>1. t \in ElementType \ {"member", "inheritance", "subrange_type"}
    BY <1>4 DEF Added
  <2>2. Element(t, id) \in ElementRecord
    <3>1. <<>> \in Seq(MemberRecord) /\ <<>> \in Seq(Parent)
      BY EmptySeq
    <3> QED BY <2>1, <3>1 DEF Element, ElementRecord
  <2>3. Inserted(t, id) = Append(elements_, Element(t, id))
    BY <1>4 DEF Inserted
  <2> QED BY <1>4, <2>2, <2>3, AppendProperties DEF BuilderTypeOK
<1> QED BY <1>1, <1>2, <1>3, <1>4

\* The kinds that have an element of their own.
TypeKind == ElementType \ {"none", "member", "inheritance", "subrange_type"}

\* AddElement: the elements that were there keep their kind and id; a new type is
\* the newest element; the stack gains the newest element, a placeholder if the
\* entry is not recorded.
LEMMA AddElementKeeps ==
  ASSUME BuilderTypeOK, NEW t \in ElementType, NEW id \in Nat, NEW c \in BOOLEAN,
         t \in {"member", "inheritance"} => ~c,
         AddElement(t, id, c)
  PROVE  /\ BuilderTypeOK'
         /\ Len(elements_') = IF c \/ t \in TypeKind THEN Len(elements_) + 1 ELSE Len(elements_)
         /\ \A k \in 1 .. Len(elements_) : /\ elements_'[k].type_ = elements_[k].type_
                                           /\ elements_'[k].id_ = elements_[k].id_
         /\ t \in TypeKind => elements_'[Len(elements_) + 1] = Element(t, id)
         /\ c /\ t \notin TypeKind => elements_'[Len(elements_) + 1] = Element("none", 0)
<1> DEFINE ins == Inserted(t, id)
<1>1. /\ ins \in Seq(ElementRecord)
      /\ Len(ins) = IF Added(t) /\ t \notin {"member", "inheritance"} THEN Len(elements_) + 1
                    ELSE Len(elements_)
      /\ \A k \in 1 .. Len(elements_) : /\ ins[k].type_ = elements_[k].type_
                                        /\ ins[k].id_ = elements_[k].id_
      /\ Added(t) /\ t \notin {"member", "inheritance"} => ins[Len(elements_) + 1] = Element(t, id)
  BY InsertedKeeps
<1>2. Len(elements_) \in Nat /\ nested_elements_ \in Seq(1 .. Len(elements_))
  BY LenProperties DEF BuilderTypeOK
<1>3. t \in TypeKind <=> Added(t) /\ t \notin {"member", "inheritance"}
  BY DEF Added, TypeKind
<1>4. last_parsed_type_' \in ElementType
  BY DEF AddElement, BuilderTypeOK
<1>5. /\ elements_' = IF c /\ ~Added(t) THEN Append(ins, Element("none", 0)) ELSE ins
      /\ nested_elements_' = IF c THEN Append(nested_elements_, Len(elements_')) ELSE nested_elements_
  BY DEF AddElement
<1> HIDE DEF ins
<1>6. CASE c /\ t \notin TypeKind
  <2>1. ~Added(t)
    BY <1>6, <1>3
  <2>2. Element("none", 0) \in ElementRecord
    BY EmptySeq DEF Element, ElementRecord, ElementType
  <2>3. /\ elements_' \in Seq(ElementRecord)
        /\ Len(elements_') = Len(elements_) + 1
        /\ \A k \in 1 .. Len(elements_) : elements_'[k] = ins[k]
        /\ elements_'[Len(elements_) + 1] = Element("none", 0)
    BY <1>1, <1>5, <1>6, <2>1, <2>2, AppendProperties
  <2>4. nested_elements_' \in Seq(1 .. Len(elements_'))
    <3>1. nested_elements_ \in Seq(1 .. Len(elements_'))
      BY <1>2, <2>3, SeqMonotonic
    <3> QED BY <3>1, <1>2, <1>5, <1>6, <2>3, AppendProperties
  <2> QED BY <1>1, <1>2, <1>4, <1>6, <2>3, <2>4 DEF BuilderTypeOK
<1>7. CASE t \in TypeKind
  <2>1. /\ elements_' = ins
        /\ Len(elements_') = Len(elements_) + 1
        /\ t \in TypeKind => elements_'[Len(elements_) + 1] = Element(t, id)
    BY <1>1, <1>3, <1>5, <1>7
  <2>2. nested_elements_' \in Seq(1 .. Len(elements_'))
    <3>1. nested_elements_ \in Seq(1 .. Len(elements_'))
      BY <1>2, <2>1, SeqMonotonic
    <3>2. Len(elements_') \in 1 .. Len(elements_')
      BY <1>2, <2>1
    <3>3. CASE c
      BY <3>1, <3>2, <3>3, <1>5, AppendProperties
    <3> QED BY <3>1, <3>3, <1>5
  <2> QED BY <1>1, <1>2, <1>4, <1>7, <2>1, <2>2 DEF BuilderTypeOK
<1>8. CASE ~c /\ t \notin TypeKind
  BY <1>1, <1>2, <1>3, <1>4, <1>5, <1>8 DEF BuilderTypeOK
<1> QED BY <1>6, <1>7, <1>8

(***************************************************************************)
(* The walk: what each step does to the builder and to the history.        *)
(***************************************************************************)

LEMMA ElementOfTyped ==
  ASSUME NEW tag
  PROVE  /\ ElementOf(tag) \in ElementType
         /\ TypeTag(tag) <=> ElementOf(tag) \in TypeKind
         /\ ElementOf(tag) \in {"member", "inheritance"} => tag \in Leaves
BY DEF ElementOf, TagElement, ElementType, TypeTag, TypeKind, Leaves

\* Steps that open and close nothing.
Quiet ==
  /\ KindsKept
  /\ open' = open
  /\ Len(dies') = Len(dies)
  /\ \A d \in 1 .. Len(dies) : /\ dies'[d].tag = dies[d].tag
                               /\ dies'[d].id = dies[d].id
                               /\ dies'[d].parent = dies[d].parent

LEMMA LogDwarfInfoKeeps ==
  ASSUME BuilderTypeOK, NEW a \in Attribute, NEW v \in Nat, LogDwarfInfo(a, v)
  PROVE  BuilderTypeOK' /\ KindsKept
<1>1. CASE a \in {"name", "linkage_name"}
  BY <1>1, SetElementNameKeeps DEF LogDwarfInfo
<1>2. CASE a = "byte_size"
  BY <1>2, SetElementSizeKeeps DEF LogDwarfInfo
<1>3. CASE a = "data_member_location"
  BY <1>3, SetElementOffsetKeeps DEF LogDwarfInfo
<1>4. CASE a = "type"
  BY <1>4, SetElementTypeKeeps DEF LogDwarfInfo
<1>5. CASE a = "count"
  BY <1>5, SetElementCountKeeps DEF LogDwarfInfo
<1> QED BY <1>1, <1>2, <1>3, <1>4, <1>5 DEF Attribute

LEMMA QuietSteps ==
  ASSUME TypeOK,
         \/ ReadUnit \/ Return \/ EndOfAttributes \/ EndUnit \/ UNCHANGED vars
         \/ /\ pc = "attr"
            /\ \E a \in Attributes : \E v \in Datum[a][Current] : ReadAttribute(a, v)
  PROVE  Quiet /\ TypeOK'
<1>1. Len(dies) \in Nat /\ \A d \in 1 .. Len(dies) : dies[d] \in Die
  BY LenProperties, ElementOfSeq DEF TypeOK
<1>2. CASE ReadUnit \/ Return \/ EndOfAttributes \/ EndUnit \/ UNCHANGED vars
  <2>1. /\ UNCHANGED <<builder, dies, open>>
        /\ pc' \in {"unit", "root", "die", "attr", "returned"}
        /\ pc' = "attr" => dies # <<>>
    BY <1>2 DEF ReadUnit, Return, EndOfAttributes, EndUnit, vars, TypeOK, builder
  <2>2. BuilderTypeOK' /\ KindsKept
    BY <2>1, StutterKeeps DEF builder, TypeOK
  <2> QED BY <2>1, <2>2 DEF Quiet, TypeOK
<1>3. ASSUME pc = "attr", NEW a \in Attributes, NEW v \in Datum[a][Current], ReadAttribute(a, v)
      PROVE  Quiet /\ TypeOK'
  <2> DEFINE e == [dies[Current] EXCEPT !.attrs = [@ EXCEPT ![a] = {v}]]
  <2>1. Current \in 1 .. Len(dies) /\ a \in Attribute
    BY <1>1, <1>3, EmptySeq, DatumAssumption DEF ReadAttribute, TypeOK, Current
  <2>2. v \in Nat
    <3>1. Current \in 1 .. MaxDies
      BY <1>1, <2>1, BoundsAssumption DEF TypeOK, Current
    <3> QED BY <1>3, <2>1, <3>1, DatumAssumption
  <2>3. BuilderTypeOK' /\ KindsKept
    BY <1>3, <2>1, <2>2, LogDwarfInfoKeeps DEF ReadAttribute, TypeOK
  <2>4. /\ e \in Die
        /\ e.tag = dies[Current].tag /\ e.id = dies[Current].id /\ e.parent = dies[Current].parent
    <3>1. dies[Current] \in Die /\ dies[Current].attrs \in [Attribute -> SUBSET Nat]
      BY <1>1, <2>1 DEF Die
    <3>2. [dies[Current].attrs EXCEPT ![a] = {v}] \in [Attribute -> SUBSET Nat]
      BY <2>2, <3>1
    <3> QED BY <3>1, <3>2 DEF Die
  <2>5. dies' = [dies EXCEPT ![Current] = e] /\ UNCHANGED <<pc, open>>
    BY <1>3 DEF ReadAttribute
  <2> HIDE DEF e
  <2>6. /\ dies' \in Seq(Die)
        /\ Len(dies') = Len(dies)
        /\ \A d \in 1 .. Len(dies) : dies'[d] = IF d = Current THEN e ELSE dies[d]
    BY <2>1, <2>4, <2>5, ExceptSeq DEF TypeOK
  <2>7. \A d \in 1 .. Len(dies) : /\ dies'[d].tag = dies[d].tag
                                  /\ dies'[d].id = dies[d].id
                                  /\ dies'[d].parent = dies[d].parent
    BY <2>4, <2>6
  <2>8. dies' # <<>>
    BY <1>1, <2>1, <2>6, EmptySeq
  <2> QED BY <1>1, <2>3, <2>5, <2>6, <2>7, <2>8 DEF Quiet, TypeOK
<1> QED BY <1>2, <1>3

\* Reading a DIE: a type becomes the newest element, under the DIE's offset; a DIE
\* that opens a list of children opens its own element, or its placeholder.
LEMMA ReadDieStep ==
  ASSUME TypeOK, Len(dies) < MaxDies, NEW tag_id \in Offset[Len(dies) + 1],
         NEW tag \in Tags, NEW c \in BOOLEAN, ReadDie(tag_id, tag, c)
  PROVE  /\ TypeOK'
         /\ Len(dies') = Len(dies) + 1
         /\ dies'[Len(dies) + 1].tag = tag
         /\ dies'[Len(dies) + 1].id = tag_id
         /\ \A d \in 1 .. Len(dies) : dies[d].id < tag_id
         /\ \A d \in 1 .. Len(dies) : dies'[d] = dies[d]
         /\ Len(elements_') = IF c \/ TypeTag(tag) THEN Len(elements_) + 1 ELSE Len(elements_)
         /\ \A k \in 1 .. Len(elements_) : /\ elements_'[k].type_ = elements_[k].type_
                                           /\ elements_'[k].id_ = elements_[k].id_
         /\ TypeTag(tag) => elements_'[Len(elements_) + 1] = Element(ElementOf(tag), tag_id)
         /\ c /\ ~TypeTag(tag) => elements_'[Len(elements_) + 1] = Element("none", 0)
         /\ nested_elements_' = IF c THEN Append(nested_elements_, Len(elements_')) ELSE nested_elements_
         /\ open' = IF c THEN Append(open, Len(dies')) ELSE open
<1> DEFINE t == ElementOf(tag)
           id == IF t = "none" THEN 0 ELSE tag_id
           p == IF open = <<>> THEN 0 ELSE Last(open)
           e == [id |-> tag_id, tag |-> tag, children |-> c, parent |-> p,
                 attrs |-> [a \in Attribute |-> {}]]
<1>1. /\ Len(dies) \in Nat
      /\ dies \in Seq(Die)
      /\ \A d \in 1 .. Len(dies) : dies[d] \in Die /\ dies[d].parent < d
      /\ open \in Seq(1 .. Len(dies))
      /\ BuilderTypeOK
  BY LenProperties, ElementOfSeq DEF TypeOK
<1>2. /\ AddElement(t, id, c)
      /\ dies' = Append(dies, e)
      /\ open' = IF c THEN Append(open, Len(dies')) ELSE open
      /\ pc' = "attr"
      /\ \A d \in 1 .. Len(dies) : dies[d].id < tag_id
      /\ tag_id \in Nat
      /\ t \in {"member", "inheritance"} => ~c
  <2>1. DOMAIN dies = 1 .. Len(dies)
    BY <1>1, LenProperties
  <2>2. tag_id \in Nat
    <3>1. Len(dies) + 1 \in 1 .. MaxDies
      BY <1>1, BoundsAssumption
    <3> QED BY <3>1, DatumAssumption
  <2> QED BY <2>1, <2>2, ElementOfTyped DEF ReadDie, RegisterNewTag
<1>3. t \in ElementType /\ id \in Nat /\ (TypeTag(tag) <=> t \in TypeKind)
  BY <1>1, <1>2, ElementOfTyped
<1>4. p \in 0 .. Len(dies)
  <2>1. CASE open # <<>>
    <3>1. Last(open) \in 1 .. Len(dies)
      BY <1>1, <2>1, FrontLast
    <3> QED BY <1>1, <2>1, <3>1
  <2> QED BY <1>1, <2>1
<1> HIDE DEF p
<1>5. e \in Die
  <2>1. [a \in Attribute |-> {}] \in [Attribute -> SUBSET Nat]
    OBVIOUS
  <2> QED BY <1>1, <1>2, <1>4, <2>1 DEF Die
<1>6. /\ dies' \in Seq(Die)
      /\ dies' # <<>>
      /\ Len(dies') = Len(dies) + 1
      /\ \A d \in 1 .. Len(dies) : dies'[d] = dies[d]
      /\ dies'[Len(dies) + 1] = e
  BY <1>1, <1>2, <1>5, AppendProperties
<1>7. TypeTag(tag) => id = tag_id
  BY <1>3 DEF TypeKind
<1>8. nested_elements_' = IF c THEN Append(nested_elements_, Len(elements_')) ELSE nested_elements_
  BY <1>2 DEF AddElement
<1>9. open' \in Seq(1 .. Len(dies'))
  <2>1. open \in Seq(1 .. Len(dies'))
    BY <1>1, <1>6, SeqMonotonic
  <2>2. Len(dies') \in 1 .. Len(dies')
    BY <1>1, <1>6
  <2>3. CASE c
    BY <2>1, <2>2, <2>3, <1>2, AppendProperties
  <2> QED BY <2>1, <2>3, <1>2
<1>10. /\ \A d \in 1 .. Len(dies') : dies'[d].parent < d
       /\ \A b, d \in 1 .. Len(dies') : b < d => dies'[b].id < dies'[d].id
  <2>1. \A d \in 1 .. Len(dies') : dies'[d].parent < d
    BY <1>1, <1>4, <1>6
  <2>2. e.id = tag_id /\ \A b, d \in 1 .. Len(dies) : b < d => dies[b].id < dies[d].id
    BY DEF TypeOK
  <2> HIDE DEF e
  <2>3. ASSUME NEW b \in 1 .. Len(dies'), NEW d \in 1 .. Len(dies'), b < d
        PROVE  dies'[b].id < dies'[d].id
    <3>1. b \in 1 .. Len(dies)
      BY <1>1, <1>6, <2>3
    <3>2. dies'[b].id = dies[b].id /\ dies[b].id < tag_id
      BY <1>2, <1>6, <3>1
    <3>3. CASE d = Len(dies) + 1
      <4>1. dies'[d].id = tag_id
        BY <1>6, <2>2, <3>3
      <4> QED BY <3>2, <4>1
    <3>4. CASE d # Len(dies) + 1
      <4>1. d \in 1 .. Len(dies)
        BY <1>1, <1>6, <3>4
      <4>2. dies'[d] = dies[d]
        BY <1>6, <4>1
      <4>3. dies[b].id < dies[d].id
        BY <2>2, <2>3, <3>1, <4>1
      <4> QED BY <3>2, <4>2, <4>3
    <3> QED BY <3>3, <3>4
  <2> QED BY <2>1, <2>3
<1>11. Len(dies') <= MaxDies
  BY <1>1, <1>2, <1>6, BoundsAssumption
<1> HIDE DEF t, id, e
<1>12. /\ BuilderTypeOK'
       /\ Len(elements_') = IF c \/ t \in TypeKind THEN Len(elements_) + 1 ELSE Len(elements_)
       /\ \A k \in 1 .. Len(elements_) : /\ elements_'[k].type_ = elements_[k].type_
                                         /\ elements_'[k].id_ = elements_[k].id_
       /\ t \in TypeKind => elements_'[Len(elements_) + 1] = Element(t, id)
       /\ c /\ t \notin TypeKind => elements_'[Len(elements_) + 1] = Element("none", 0)
  BY <1>1, <1>2, <1>3, AddElementKeeps
<1>13. TypeOK'
  BY <1>2, <1>6, <1>9, <1>10, <1>11, <1>12 DEF TypeOK
<1>14. dies'[Len(dies) + 1].tag = tag /\ dies'[Len(dies) + 1].id = tag_id
  BY <1>6 DEF e
<1> QED BY <1>2, <1>3, <1>6, <1>7, <1>8, <1>12, <1>13, <1>14 DEF t

LEMMA ReadNullStep ==
  ASSUME TypeOK, ReadNull
  PROVE  /\ TypeOK'
         /\ UNCHANGED <<elements_, dies>>
         /\ nested_elements_' = IF nested_elements_ = <<>> THEN <<>> ELSE Front(nested_elements_)
         /\ open' = IF open = <<>> THEN <<>> ELSE Front(open)
<1>1. /\ EndOfChildren
      /\ open' = IF open = <<>> THEN <<>> ELSE Front(open)
      /\ UNCHANGED <<pc, dies>>
  BY DEF ReadNull
<1>2. BuilderTypeOK'
  BY <1>1, EndOfChildrenTyped DEF TypeOK
<1>3. /\ UNCHANGED elements_
      /\ nested_elements_' = IF nested_elements_ = <<>> THEN <<>> ELSE Front(nested_elements_)
  BY <1>1 DEF EndOfChildren, builder
<1>4. open' \in Seq(1 .. Len(dies))
  BY <1>1, FrontLast, EmptySeq DEF TypeOK
<1> QED BY <1>1, <1>2, <1>3, <1>4 DEF TypeOK

(***************************************************************************)
(* The theorems.                                                           *)
(***************************************************************************)

\* The builder's records keep the shape GenerateJson relies on: members are flat,
\* nothing but a type or a placeholder is an element, and every index on the
\* stack is that of an element.
THEOREM TypeCorrect == Spec => []TypeOK
<1>1. Init => TypeOK
  BY BuilderInitTyped, BoundsAssumption, EmptySeq DEF Init, TypeOK
<1>2. TypeOK /\ [Next]_vars => TypeOK'
  <2> SUFFICES ASSUME TypeOK, [Next]_vars PROVE TypeOK'
    OBVIOUS
  <2>1. ASSUME Len(dies) < MaxDies, NEW tag_id \in Offset[Len(dies) + 1],
               NEW tag \in Tags, NEW c \in BOOLEAN, ReadDie(tag_id, tag, c)
        PROVE  TypeOK'
    BY <2>1, ReadDieStep
  <2>2. CASE ReadNull
    BY <2>2, ReadNullStep
  <2> QED BY <2>1, <2>2, QuietSteps DEF Next
<1> QED BY <1>1, <1>2, PTL DEF Spec

\* The stack discipline of AddElement and EndOfChildren, placeholders included:
\* whatever mix of recorded and skipped DIEs a section holds, nested_elements_ is
\* the stack of the DIEs whose list of children is open.
THEOREM StackFaithful == Spec => []StackMirrorsOpen
<1>1. Init => StackMirrorsOpen
  BY EmptySeq DEF Init, BuilderInit, StackMirrorsOpen
<1>2. TypeOK /\ StackMirrorsOpen /\ [Next]_vars => StackMirrorsOpen'
  <2> SUFFICES ASSUME TypeOK, StackMirrorsOpen, [Next]_vars PROVE StackMirrorsOpen'
    OBVIOUS
  <2>1. /\ Len(open) \in Nat /\ DOMAIN open = 1 .. Len(open)
        /\ Len(dies) \in Nat /\ Len(elements_) \in Nat
        /\ open \in Seq(1 .. Len(dies)) /\ nested_elements_ \in Seq(1 .. Len(elements_))
        /\ \A i \in 1 .. Len(open) : open[i] \in 1 .. Len(dies)
        /\ \A i \in 1 .. Len(nested_elements_) : nested_elements_[i] \in 1 .. Len(elements_)
    BY LenProperties, ElementOfSeq DEF TypeOK, BuilderTypeOK
  <2> DEFINE Ok(i) == Mirrors(elements_[nested_elements_[i]], open[i])
  <2>2. Len(nested_elements_) = Len(open) /\ \A i \in 1 .. Len(open) : Ok(i)
    BY <2>1 DEF StackMirrorsOpen
  \* The part of the stack that a step leaves alone.
  <2>3. ASSUME NEW i \in 1 .. Len(open),
               nested_elements_'[i] = nested_elements_[i], open'[i] = open[i],
               \A k \in 1 .. Len(elements_) : /\ elements_'[k].type_ = elements_[k].type_
                                              /\ elements_'[k].id_ = elements_[k].id_,
               \A d \in 1 .. Len(dies) : dies'[d].tag = dies[d].tag /\ dies'[d].id = dies[d].id
        PROVE  Ok(i)'
    <3> DEFINE k == nested_elements_[i]
               d == open[i]
    <3>1. k \in 1 .. Len(elements_) /\ d \in 1 .. Len(dies)
      BY <2>1, <2>2, <2>3
    <3>2. Mirrors(elements_[k], d)
      BY <2>2, <2>3
    <3>3. nested_elements_'[i] = k /\ open'[i] = d
      BY <2>3
    <3> HIDE DEF k, d
    <3>4. /\ elements_'[k].type_ = elements_[k].type_ /\ elements_'[k].id_ = elements_[k].id_
          /\ dies'[d].tag = dies[d].tag /\ dies'[d].id = dies[d].id
      BY <2>3, <3>1
    <3> QED BY <3>2, <3>3, <3>4 DEF Mirrors
  <2>4. SUFFICES /\ Len(nested_elements_') = Len(open')
                 /\ \A i \in 1 .. Len(open') : Ok(i)'
    <3>1. DOMAIN open' = 1 .. Len(open')
      BY QuietSteps, ReadDieStep, ReadNullStep, LenProperties DEF Next, TypeOK
    <3> QED BY <3>1 DEF StackMirrorsOpen
  <2>5. CASE Quiet
    BY <2>1, <2>2, <2>3, <2>5 DEF Quiet, KindsKept
  <2>6. ASSUME Len(dies) < MaxDies, NEW tag_id \in Offset[Len(dies) + 1],
               NEW tag \in Tags, NEW c \in BOOLEAN, ReadDie(tag_id, tag, c)
        PROVE  /\ Len(nested_elements_') = Len(open')
               /\ \A i \in 1 .. Len(open') : Ok(i)'
    <3>1. CASE ~c
      <4>1. nested_elements_' = nested_elements_ /\ open' = open
        BY <2>6, <3>1, ReadDieStep
      <4> QED BY <2>1, <2>2, <2>3, <2>6, <4>1, ReadDieStep
    <3>2. CASE c
      <4> DEFINE n == Len(open) + 1
      <4>1. /\ Len(open') = n /\ open'[n] = Len(dies) + 1
            /\ \A i \in 1 .. Len(open) : open'[i] = open[i]
        <5>1. open \in Seq(1 .. Len(dies')) /\ Len(dies') \in 1 .. Len(dies')
          BY <2>1, <2>6, ReadDieStep, SeqMonotonic
        <5>2. open' = Append(open, Len(dies')) /\ Len(dies') = Len(dies) + 1
          BY <2>6, <3>2, ReadDieStep
        <5> QED BY <5>1, <5>2, AppendProperties
      <4>2. /\ Len(nested_elements_') = n /\ nested_elements_'[n] = Len(elements_) + 1
            /\ \A i \in 1 .. Len(open) : nested_elements_'[i] = nested_elements_[i]
        <5>1. nested_elements_' = Append(nested_elements_, Len(elements_')) /\ Len(elements_') = Len(elements_) + 1
          BY <2>6, <3>2, ReadDieStep
        <5>2. Len(elements_') \in 1 .. Len(elements_')
          BY <2>1, <5>1
        <5>3. nested_elements_ \in Seq(1 .. Len(elements_'))
          BY <2>1, <5>1, SeqMonotonic
        <5> QED BY <5>1, <5>2, <5>3, <2>2, AppendProperties
      <4>3. ASSUME NEW i \in 1 .. Len(open)
            PROVE  Ok(i)'
        BY <2>3, <2>6, <4>1, <4>2, ReadDieStep
      <4>4. ASSUME NEW i, i = n
            PROVE  Ok(i)'
        <5>1. dies'[open'[i]].tag = tag /\ dies'[open'[i]].id = tag_id
          BY <2>6, <4>1, <4>4, ReadDieStep
        <5>2. CASE TypeTag(tag)
          <6>1. elements_'[nested_elements_'[i]] = Element(ElementOf(tag), tag_id)
            BY <2>6, <4>2, <4>4, <5>2, ReadDieStep
          <6> QED BY <5>1, <5>2, <6>1 DEF Mirrors, Element
        <5>3. CASE ~TypeTag(tag)
          <6>1. elements_'[nested_elements_'[i]] = Element("none", 0)
            BY <2>6, <3>2, <4>2, <4>4, <5>3, ReadDieStep
          <6> QED BY <5>1, <5>3, <6>1 DEF Mirrors, Element
        <5> QED BY <5>2, <5>3
      <4>5. 1 .. n = 1 .. Len(open) \union {n}
        BY <2>1
      <4> HIDE DEF Ok, n
      <4> QED BY <4>1, <4>2, <4>3, <4>4, <4>5
    <3> QED BY <3>1, <3>2
  <2>7. CASE ReadNull
    <3>1. CASE open = <<>>
      <4>1. nested_elements_ = <<>>
        BY <2>1, <2>2, <3>1, EmptySeq
      <4> QED BY <2>7, <3>1, <4>1, ReadNullStep, EmptySeq
    <3>2. CASE open # <<>>
      <4>1. nested_elements_ # <<>>
        BY <2>1, <2>2, <3>2, EmptySeq
      <4>2. /\ Len(open') = Len(open) - 1
            /\ \A i \in 1 .. Len(open) - 1 : open'[i] = open[i]
        BY <2>1, <2>7, <3>2, ReadNullStep, FrontLast
      <4>3. /\ Len(nested_elements_') = Len(open) - 1
            /\ \A i \in 1 .. Len(open) - 1 : nested_elements_'[i] = nested_elements_[i]
        BY <2>1, <2>2, <2>7, <4>1, ReadNullStep, FrontLast
      <4>4. UNCHANGED <<elements_, dies>>
        BY <2>7, ReadNullStep
      <4> QED BY <2>1, <2>3, <4>2, <4>3, <4>4
    <3> QED BY <3>1, <3>2
  <2> QED BY <2>5, <2>6, <2>7, QuietSteps DEF Next
<1> QED BY <1>1, <1>2, TypeCorrect, PTL DEF Spec

\* A dump lists every type DIE exactly once, in the order of the section: no type
\* is lost under a skipped scope or listed twice because of a placeholder.
THEOREM TypesComplete == Spec => []TypesInOrder
<1>1. Init => TypesInOrder
  BY EmptySeq DEF Init, BuilderInit, TypesInOrder, Types
<1>2. TypeOK /\ TypesInOrder /\ [Next]_vars => TypesInOrder'
  <2> SUFFICES ASSUME TypeOK, TypesInOrder, [Next]_vars PROVE TypesInOrder'
    OBVIOUS
  <2>1. /\ Len(dies) \in Nat /\ DOMAIN dies = 1 .. Len(dies)
        /\ Len(elements_) \in Nat /\ DOMAIN elements_ = 1 .. Len(elements_)
        /\ DOMAIN dies' = 1 .. Len(dies') /\ DOMAIN elements_' = 1 .. Len(elements_')
        /\ TypeOK'
    <3>1. TypeOK'
      BY QuietSteps, ReadDieStep, ReadNullStep DEF Next
    <3> QED BY <3>1, LenProperties DEF TypeOK, BuilderTypeOK
  <2>2. /\ \A k \in Types : \E d \in 1 .. Len(dies) :
              TypeTag(dies[d].tag) /\ elements_[k].id_ = dies[d].id
        /\ \A d \in 1 .. Len(dies) : TypeTag(dies[d].tag) =>
             \E k \in Types : elements_[k].id_ = dies[d].id
        /\ \A j, k \in Types : j < k => elements_[j].id_ < elements_[k].id_
    BY <2>1 DEF TypesInOrder
  <2>3. SUFFICES /\ \A k \in Types' : \E d \in 1 .. Len(dies') :
                      TypeTag(dies'[d].tag) /\ elements_'[k].id_ = dies'[d].id
                 /\ \A d \in 1 .. Len(dies') : TypeTag(dies'[d].tag) =>
                      \E k \in Types' : elements_'[k].id_ = dies'[d].id
                 /\ \A j, k \in Types' : j < k => elements_'[j].id_ < elements_'[k].id_
    <3> DEFINE S == {elements_[k].id_ : k \in Types}
               R == {c \in DOMAIN dies : TypeTag(dies[c].tag)}
               T == {dies[d].id : d \in R}
    <3>1. S' \subseteq T'
      BY <2>1, <2>3
    <3>2. T' \subseteq S'
      BY <2>1, <2>3
    <3>3. S' = T'
      BY <3>1, <3>2
    <3> QED BY <2>3, <3>3 DEF TypesInOrder
  <2>4. CASE Quiet \/ ReadNull
    <3>1. /\ Len(dies') = Len(dies)
          /\ \A d \in 1 .. Len(dies) : dies'[d].tag = dies[d].tag /\ dies'[d].id = dies[d].id
          /\ Len(elements_') = Len(elements_)
          /\ \A k \in 1 .. Len(elements_) : /\ elements_'[k].type_ = elements_[k].type_
                                            /\ elements_'[k].id_ = elements_[k].id_
      BY <2>4, ReadNullStep DEF Quiet, KindsKept
    <3>2. Types' = Types /\ Types \subseteq 1 .. Len(elements_)
      BY <2>1, <3>1 DEF Types
    <3>3. \A k \in Types : elements_'[k].id_ = elements_[k].id_
      BY <3>1, <3>2
    <3>4. ASSUME NEW k \in Types
          PROVE  \E d \in 1 .. Len(dies') : TypeTag(dies'[d].tag) /\ elements_'[k].id_ = dies'[d].id
      BY <2>2, <3>1, <3>3
    <3>5. ASSUME NEW d \in 1 .. Len(dies'), TypeTag(dies'[d].tag)
          PROVE  \E k \in Types : elements_'[k].id_ = dies'[d].id
      <4>1. PICK k \in Types : elements_[k].id_ = dies[d].id
        BY <2>2, <3>1, <3>5
      <4> QED BY <3>1, <3>3, <4>1
    <3>6. \A j, k \in Types : j < k => elements_'[j].id_ < elements_'[k].id_
      BY <2>2, <3>3
    <3> QED BY <3>2, <3>4, <3>5, <3>6
  <2>5. ASSUME Len(dies) < MaxDies, NEW tag_id \in Offset[Len(dies) + 1],
               NEW tag \in Tags, NEW c \in BOOLEAN, ReadDie(tag_id, tag, c)
        PROVE  /\ \A k \in Types' : \E d \in 1 .. Len(dies') :
                    TypeTag(dies'[d].tag) /\ elements_'[k].id_ = dies'[d].id
               /\ \A d \in 1 .. Len(dies') : TypeTag(dies'[d].tag) =>
                    \E k \in Types' : elements_'[k].id_ = dies'[d].id
               /\ \A j, k \in Types' : j < k => elements_'[j].id_ < elements_'[k].id_
    <3>1. /\ Len(dies') = Len(dies) + 1
          /\ dies'[Len(dies) + 1].tag = tag /\ dies'[Len(dies) + 1].id = tag_id
          /\ \A d \in 1 .. Len(dies) : dies'[d] = dies[d]
          /\ \A k \in 1 .. Len(elements_) : /\ elements_'[k].type_ = elements_[k].type_
                                            /\ elements_'[k].id_ = elements_[k].id_
      BY <2>5, ReadDieStep
    <3>2. Types \subseteq 1 .. Len(elements_) /\ \A k \in Types : elements_'[k].id_ = elements_[k].id_
      BY <2>1, <3>1 DEF Types
    <3> DEFINE D == Len(dies) + 1
    <3>3. 1 .. Len(dies') = 1 .. Len(dies) \union {D}
      BY <2>1, <3>1
    <3>4. ASSUME NEW k \in Types
          PROVE  /\ \E d \in 1 .. Len(dies) : TypeTag(dies'[d].tag) /\ elements_'[k].id_ = dies'[d].id
                 /\ elements_'[k].id_ < tag_id
      <4>1. PICK d \in 1 .. Len(dies) : TypeTag(dies[d].tag) /\ elements_[k].id_ = dies[d].id
        BY <2>2
      <4>2. dies'[d] = dies[d] /\ elements_'[k].id_ = dies[d].id
        BY <3>1, <3>2, <4>1
      <4>3. dies[d].id < tag_id
        BY <2>1, <2>5 DEF ReadDie
      <4> QED BY <4>1, <4>2, <4>3
    <3>5. ASSUME NEW d \in 1 .. Len(dies), TypeTag(dies'[d].tag)
          PROVE  \E k \in Types : elements_'[k].id_ = dies'[d].id
      <4>1. dies'[d] = dies[d]
        BY <3>1
      <4>2. PICK k \in Types : elements_[k].id_ = dies[d].id
        BY <2>2, <3>5, <4>1
      <4> QED BY <3>2, <4>1, <4>2
    <3>6. \A j, k \in Types : j < k => elements_'[j].id_ < elements_'[k].id_
      BY <2>2, <3>2
    <3> HIDE DEF D
    <3>7. CASE TypeTag(tag)
      <4> DEFINE K == Len(elements_) + 1
      <4>1. /\ Len(elements_') = K
            /\ elements_'[K].id_ = tag_id
            /\ elements_'[K].type_ # "none"
        <5>1. /\ Len(elements_') = K
              /\ elements_'[K] = Element(ElementOf(tag), tag_id)
          BY <2>5, <3>7, ReadDieStep
        <5> QED BY <5>1, <3>7 DEF Element, TypeTag
      <4>2. Types' = Types \union {K} /\ \A k \in Types : k < K
        BY <2>1, <3>1, <3>2, <4>1 DEF Types
      <4>3. dies'[D].tag = tag /\ dies'[D].id = tag_id
        BY <3>1 DEF D
      <4> HIDE DEF K
      <4>4. ASSUME NEW k \in Types'
            PROVE  \E d \in 1 .. Len(dies') : TypeTag(dies'[d].tag) /\ elements_'[k].id_ = dies'[d].id
        <5>1. CASE k = K
          BY <3>7, <3>3, <4>1, <4>3, <5>1
        <5>2. CASE k \in Types
          BY <3>3, <3>4, <5>2
        <5> QED BY <4>2, <5>1, <5>2
      <4>5. ASSUME NEW d \in 1 .. Len(dies'), TypeTag(dies'[d].tag)
            PROVE  \E k \in Types' : elements_'[k].id_ = dies'[d].id
        <5>1. CASE d = D
          BY <4>1, <4>2, <4>3, <5>1
        <5>2. CASE d \in 1 .. Len(dies)
          BY <3>5, <4>2, <4>5, <5>2
        <5> QED BY <3>3, <5>1, <5>2
      <4>6. ASSUME NEW j \in Types', NEW k \in Types', j < k
            PROVE  elements_'[j].id_ < elements_'[k].id_
        <5>1. j \in Types
          BY <2>1, <3>2, <4>2, <4>6 DEF K
        <5>2. CASE k = K
          BY <3>4, <4>1, <5>1, <5>2
        <5>3. CASE k \in Types
          BY <3>6, <4>6, <5>1, <5>3
        <5> QED BY <4>2, <5>2, <5>3
      <4> QED BY <4>4, <4>5, <4>6
    <3>8. CASE ~TypeTag(tag)
      <4>1. Types' = Types
        <5>1. CASE c
          <6>1. /\ Len(elements_') = Len(elements_) + 1
                /\ elements_'[Len(elements_) + 1] = Element("none", 0)
            BY <2>5, <3>8, <5>1, ReadDieStep
          <6>2. elements_'[Len(elements_) + 1].type_ = "none"
            BY <6>1 DEF Element
          <6> QED BY <2>1, <3>1, <6>1, <6>2 DEF Types
        <5>2. CASE ~c
          <6>1. Len(elements_') = Len(elements_)
            BY <2>5, <3>8, <5>2, ReadDieStep
          <6> QED BY <2>1, <3>1, <6>1 DEF Types
        <5> QED BY <5>1, <5>2
      <4>2. \A d \in 1 .. Len(dies') : TypeTag(dies'[d].tag) => d \in 1 .. Len(dies)
        BY <3>1, <3>8, <3>3 DEF D
      <4>3. \A k \in Types : \E d \in 1 .. Len(dies') :
              TypeTag(dies'[d].tag) /\ elements_'[k].id_ = dies'[d].id
        BY <3>3, <3>4
      <4> QED BY <3>5, <3>6, <4>1, <4>2, <4>3
    <3> QED BY <3>7, <3>8
  <2> QED BY <2>4, <2>5, QuietSteps DEF Next
<1> QED BY <1>1, <1>2, TypeCorrect, PTL DEF Spec

(***************************************************************************)
(* What is filed in an element.                                            *)
(***************************************************************************)

\* Element e has the members with these ids, in order, and n base classes.
Lists(e, ids, n) ==
  /\ {e.members_[i].id_ : i \in 1 .. Len(e.members_)} = ids
  /\ \A i, j \in 1 .. Len(e.members_) : i < j => e.members_[i].id_ < e.members_[j].id_
  /\ Len(e.parents_) = n

LEMMA ListsKept ==
  ASSUME NEW e, NEW f, NEW ids, NEW n, Lists(f, ids, n), SameFiling(e, f)
  PROVE  Lists(e, ids, n)
BY DEF Lists, SameFiling

\* A member with the largest id so far is appended.
LEMMA ListsMember ==
  ASSUME NEW f \in ElementRecord, NEW ids \in SUBSET Nat, NEW n, NEW id \in Nat,
         Lists(f, ids, n), \A x \in ids : x < id
  PROVE  Lists([f EXCEPT !.members_ = Append(@, Element("member", id))], ids \union {id}, n)
<1> DEFINE m == Element("member", id)
           ms == f.members_
           ns == Append(ms, m)
           e == [f EXCEPT !.members_ = ns]
<1>1. ms \in Seq(MemberRecord) /\ Len(ms) \in Nat
  BY LenProperties DEF ElementRecord
<1>2. m \in MemberRecord /\ m.id_ = id
  BY DEF Element, MemberRecord
<1> HIDE DEF m
<1>3. /\ Len(ns) = Len(ms) + 1 /\ ns[Len(ms) + 1] = m
      /\ \A i \in 1 .. Len(ms) : ns[i] = ms[i]
  BY <1>1, <1>2, AppendProperties
<1>4. e.members_ = ns /\ e.parents_ = f.parents_
  BY DEF ElementRecord
<1> HIDE DEF ns, e
<1>5. 1 .. Len(ns) = 1 .. Len(ms) \union {Len(ms) + 1}
  BY <1>1, <1>3
<1>6. /\ {ms[i].id_ : i \in 1 .. Len(ms)} = ids
      /\ \A i, j \in 1 .. Len(ms) : i < j => ms[i].id_ < ms[j].id_
  BY DEF Lists
<1>7. {ns[i].id_ : i \in 1 .. Len(ns)} = ids \union {id}
  BY <1>2, <1>3, <1>5, <1>6
<1>8. ASSUME NEW i \in 1 .. Len(ns), NEW j \in 1 .. Len(ns), i < j
      PROVE  ns[i].id_ < ns[j].id_
  <2>1. i \in 1 .. Len(ms)
    BY <1>1, <1>3, <1>8
  <2>2. ns[i].id_ = ms[i].id_ /\ ms[i].id_ \in ids
    BY <1>3, <1>6, <2>1
  <2>3. CASE j = Len(ms) + 1
    BY <1>2, <1>3, <2>2, <2>3
  <2>4. CASE j \in 1 .. Len(ms)
    BY <1>3, <1>6, <1>8, <2>1, <2>4
  <2> QED BY <1>5, <2>3, <2>4
<1>9. Len(e.parents_) = n
  BY <1>4 DEF Lists
<1> QED BY <1>4, <1>7, <1>8, <1>9 DEF Lists, e, ns, m

\* A base class is appended.
LEMMA ListsParent ==
  ASSUME NEW f \in ElementRecord, NEW ids, NEW n \in Nat, NEW p \in Parent, Lists(f, ids, n)
  PROVE  Lists([f EXCEPT !.parents_ = Append(@, p)], ids, n + 1)
<1> DEFINE e == [f EXCEPT !.parents_ = Append(@, p)]
<1>1. e.members_ = f.members_ /\ e.parents_ = Append(f.parents_, p)
  BY DEF ElementRecord
<1>2. f.parents_ \in Seq(Parent)
  BY DEF ElementRecord
<1>3. Len(Append(f.parents_, p)) = Len(f.parents_) + 1
  BY <1>2, AppendProperties
<1> HIDE DEF e
<1> QED BY <1>1, <1>3 DEF Lists, e

LEMMA ListsNothing ==
  ASSUME NEW type, NEW id
  PROVE  Lists(Element(type, id), {}, 0)
BY EmptySeq DEF Lists, Element

\* AddElement files a member or a base class in the innermost open element, if that
\* is one, and leaves every other element as it is.
LEMMA AddElementFiles ==
  ASSUME BuilderTypeOK, NEW t \in ElementType, NEW id \in Nat, NEW c \in BOOLEAN,
         t \in {"member", "inheritance"} => ~c,
         AddElement(t, id, c),
         NEW k \in 1 .. Len(elements_)
  PROVE  /\ Added(t) /\ t = "member" /\ k = Innermost =>
              elements_'[k] = [elements_[k] EXCEPT !.members_ = Append(@, Element(t, id))]
         /\ Added(t) /\ t = "inheritance" /\ k = Innermost =>
              elements_'[k] = [elements_[k] EXCEPT !.parents_ = Append(@, [id |-> id, offset |-> 0])]
         /\ t \notin {"member", "inheritance"} \/ ~Added(t) \/ k # Innermost =>
              elements_'[k] = elements_[k]
<1> DEFINE ins == Inserted(t, id)
<1>1. elements_ \in Seq(ElementRecord) /\ DOMAIN elements_ = 1 .. Len(elements_)
  BY LenProperties DEF BuilderTypeOK
<1>2. CASE Added(t) /\ t = "member"
  <2>1. elements_' = [elements_ EXCEPT ![Innermost] =
                       [elements_[Innermost] EXCEPT !.members_ = Append(@, Element(t, id))]]
    BY <1>2 DEF AddElement, Inserted
  <2> QED BY <1>1, <1>2, <2>1
<1>3. CASE Added(t) /\ t = "inheritance"
  <2>1. elements_' = [elements_ EXCEPT ![Innermost] =
           [elements_[Innermost] EXCEPT !.parents_ = Append(@, [id |-> id, offset |-> 0])]]
    BY <1>3 DEF AddElement, Inserted
  <2> QED BY <1>1, <1>3, <2>1
<1>4. CASE Added(t) /\ t \notin {"member", "inheritance"}
  <2>1. elements_' = Append(elements_, Element(t, id))
    BY <1>4 DEF AddElement, Inserted
  <2>2. Element(t, id) \in ElementRecord
    BY <1>4, EmptySeq DEF Added, Element, ElementRecord
  <2> QED BY <1>1, <1>4, <2>1, <2>2, AppendProperties
<1>5. CASE ~Added(t)
  <2>1. elements_' = IF c THEN Append(elements_, Element("none", 0)) ELSE elements_
    BY <1>5 DEF AddElement, Inserted
  <2>2. Element("none", 0) \in ElementRecord
    BY EmptySeq DEF Element, ElementRecord, ElementType
  <2> QED BY <1>1, <1>5, <2>1, <2>2, AppendProperties
<1> QED BY <1>2, <1>3, <1>4, <1>5

(***************************************************************************)
(* DIEs and elements.                                                      *)
(***************************************************************************)

\* Offsets tell DIEs apart, and the elements of types.
LEMMA SameDie ==
  ASSUME TypeOK, NEW c \in 1 .. Len(dies), NEW d \in 1 .. Len(dies), dies[c].id = dies[d].id
  PROVE  c = d
<1>1. Len(dies) \in Nat /\ dies[c] \in Die /\ dies[d] \in Die
  BY LenProperties, ElementOfSeq DEF TypeOK
<1>2. dies[c].id \in Nat /\ dies[d].id \in Nat
  BY <1>1 DEF Die
<1> QED BY <1>1, <1>2 DEF TypeOK

LEMMA SameElement ==
  ASSUME TypeOK, TypesInOrder, NEW j \in Types, NEW k \in Types,
         elements_[j].id_ = elements_[k].id_
  PROVE  j = k
<1>1. /\ j \in 1 .. Len(elements_) /\ k \in 1 .. Len(elements_) /\ Len(elements_) \in Nat
      /\ elements_[j] \in ElementRecord /\ elements_[k] \in ElementRecord
  BY LenProperties, ElementOfSeq DEF Types, TypeOK, BuilderTypeOK
<1>2. elements_[j].id_ \in Nat
  BY <1>1 DEF ElementRecord
<1> QED BY <1>1, <1>2 DEF TypesInOrder

\* The DIE of a type element.
LEMMA DieOfType ==
  ASSUME TypeOK, TypesInOrder, NEW k \in Types
  PROVE  /\ \E d \in 1 .. Len(dies) : TypeTag(dies[d].tag) /\ dies[d].id = elements_[k].id_
         /\ \A d \in 1 .. Len(dies) : dies[d].id = elements_[k].id_ =>
              TypeTag(dies[d].tag) /\ DieAt(elements_[k].id_) = d
<1>1. DOMAIN dies = 1 .. Len(dies)
  BY LenProperties DEF TypeOK
<1>2. PICK d \in 1 .. Len(dies) : TypeTag(dies[d].tag) /\ dies[d].id = elements_[k].id_
  BY <1>1 DEF TypesInOrder
<1>3. \A c \in 1 .. Len(dies) : dies[c].id = elements_[k].id_ => c = d
  BY <1>2, SameDie
<1>4. DieAt(elements_[k].id_) = d
  BY <1>1, <1>2, <1>3 DEF DieAt
<1> QED BY <1>2, <1>3, <1>4

\* The innermost element is that of the innermost open DIE: it takes a member exactly
\* when that DIE is a type, and it is then the only element with that DIE's id.
LEMMA Owner ==
  ASSUME TypeOK, StackMirrorsOpen, TypesInOrder
  PROVE  /\ open = <<>> <=> nested_elements_ = <<>>
         /\ open = <<>> => CurrentElementType = "none"
         /\ open # <<>> =>
              /\ Last(open) \in 1 .. Len(dies)
              /\ Innermost \in 1 .. Len(elements_)
              /\ CurrentElementType = elements_[Innermost].type_
              /\ CurrentElementType # "none" <=> TypeTag(dies[Last(open)].tag)
              /\ TypeTag(dies[Last(open)].tag) => elements_[Innermost].id_ = dies[Last(open)].id
              /\ \A k \in Types : elements_[k].id_ = dies[Last(open)].id =>
                   k = Innermost /\ TypeTag(dies[Last(open)].tag)
<1>1. /\ open \in Seq(1 .. Len(dies)) /\ nested_elements_ \in Seq(1 .. Len(elements_))
      /\ Len(open) \in Nat /\ DOMAIN open = 1 .. Len(open)
      /\ Len(nested_elements_) = Len(open)
      /\ DOMAIN elements_ = 1 .. Len(elements_)
  BY LenProperties DEF TypeOK, BuilderTypeOK, StackMirrorsOpen
<1>2. open = <<>> <=> nested_elements_ = <<>>
  BY <1>1, EmptySeq
<1>3. ASSUME open # <<>>
      PROVE  /\ Last(open) \in 1 .. Len(dies)
             /\ Innermost \in 1 .. Len(elements_)
             /\ CurrentElementType = elements_[Innermost].type_
             /\ CurrentElementType # "none" <=> TypeTag(dies[Last(open)].tag)
             /\ TypeTag(dies[Last(open)].tag) => elements_[Innermost].id_ = dies[Last(open)].id
             /\ \A k \in Types : elements_[k].id_ = dies[Last(open)].id =>
                  k = Innermost /\ TypeTag(dies[Last(open)].tag)
  <2>1. /\ Last(open) = open[Len(open)] /\ Last(open) \in 1 .. Len(dies)
        /\ Innermost = nested_elements_[Len(open)] /\ Innermost \in 1 .. Len(elements_)
        /\ Len(open) \in 1 .. Len(open)
    <3>1. Last(open) = open[Len(open)] /\ Last(open) \in 1 .. Len(dies)
      BY <1>1, <1>3, FrontLast
    <3>2. /\ Innermost = nested_elements_[Len(nested_elements_)]
          /\ Innermost \in 1 .. Len(elements_)
      BY <1>1, <1>2, <1>3, FrontLast DEF Innermost
    <3>3. Len(open) \in 1 .. Len(open)
      BY <1>1, <1>3, EmptySeq
    <3> QED BY <1>1, <3>1, <3>2, <3>3
  <2>2. Mirrors(elements_[Innermost], Last(open))
    BY <1>1, <2>1 DEF StackMirrorsOpen
  <2>3. CurrentElementType = elements_[Innermost].type_
    BY <1>2, <1>3 DEF CurrentElementType
  <2>4. CurrentElementType # "none" <=> TypeTag(dies[Last(open)].tag)
    BY <2>2, <2>3 DEF Mirrors, TypeTag
  <2>5. TypeTag(dies[Last(open)].tag) => elements_[Innermost].id_ = dies[Last(open)].id
    BY <2>2 DEF Mirrors
  <2>6. ASSUME NEW k \in Types, elements_[k].id_ = dies[Last(open)].id
        PROVE  k = Innermost /\ TypeTag(dies[Last(open)].tag)
    <3>1. TypeTag(dies[Last(open)].tag)
      BY <2>1, <2>6, DieOfType
    <3>2. Innermost \in Types /\ elements_[Innermost].id_ = elements_[k].id_
      BY <1>1, <2>1, <2>3, <2>4, <2>5, <2>6, <3>1 DEF Types
    <3> QED BY <3>1, <3>2, SameElement
  <2> QED BY <2>1, <2>3, <2>4, <2>5, <2>6
<1>4. open = <<>> => CurrentElementType = "none"
  BY <1>2 DEF CurrentElementType
<1> QED BY <1>2, <1>3, <1>4

LEMMA ElementOfMember ==
  ASSUME NEW tag
  PROVE  /\ ElementOf(tag) = "member" <=> tag = "DW_TAG_member"
         /\ ElementOf(tag) = "inheritance" <=> tag = "DW_TAG_inheritance"
         /\ TypeTag(tag) => tag \notin {"DW_TAG_member", "DW_TAG_inheritance"}
BY DEF ElementOf, TagElement, TypeTag

\* The children of a DIE before and after another is read.
LEMMA ChildrenAfter ==
  ASSUME TypeOK, NEW e, dies' = Append(dies, e), e \in Die, NEW d \in 1 .. Len(dies) + 1,
         e.parent <= Len(dies), NEW tag
  PROVE  /\ ChildrenOf(d, tag) \subseteq 1 .. Len(dies)
         /\ ChildrenOf(d, tag)' = IF e.parent = d /\ e.tag = tag
                                  THEN ChildrenOf(d, tag) \union {Len(dies) + 1}
                                  ELSE ChildrenOf(d, tag)
         /\ d = Len(dies) + 1 => ChildrenOf(d, tag)' = {}
<1>1. /\ Len(dies) \in Nat /\ DOMAIN dies = 1 .. Len(dies)
      /\ \A c \in 1 .. Len(dies) : dies[c] \in Die /\ dies[c].parent < c
  BY LenProperties, ElementOfSeq DEF TypeOK
<1>2. /\ DOMAIN dies' = 1 .. Len(dies) + 1
      /\ \A c \in 1 .. Len(dies) : dies'[c] = dies[c]
      /\ dies'[Len(dies) + 1] = e
  <2>1. dies' \in Seq(Die) /\ Len(dies') = Len(dies) + 1
    BY AppendProperties DEF TypeOK
  <2> QED BY <2>1, LenProperties, AppendProperties DEF TypeOK
<1>3. 1 .. Len(dies) + 1 = 1 .. Len(dies) \union {Len(dies) + 1}
  BY <1>1
<1>4. ChildrenOf(d, tag)' = IF e.parent = d /\ e.tag = tag
                            THEN ChildrenOf(d, tag) \union {Len(dies) + 1}
                            ELSE ChildrenOf(d, tag)
  BY <1>1, <1>2, <1>3 DEF ChildrenOf
<1>5. ASSUME d = Len(dies) + 1 PROVE ChildrenOf(d, tag)' = {}
  <2>1. ASSUME NEW c \in 1 .. Len(dies) PROVE dies[c].parent # d
    <3>1. dies[c].parent \in Nat /\ dies[c].parent < c
      BY <1>1 DEF Die
    <3> QED BY <1>1, <1>5, <3>1
  <2>2. e.parent # d
    BY <1>1, <1>5 DEF Die
  <2> QED BY <1>1, <1>4, <2>1, <2>2 DEF ChildrenOf
<1> QED BY <1>1, <1>4, <1>5 DEF ChildrenOf

(***************************************************************************)
(* Members and base classes.                                               *)
(***************************************************************************)

MemberIds(d) == {dies[c].id : c \in ChildrenOf(d, "DW_TAG_member")}
BaseCount(d) == Cardinality(ChildrenOf(d, "DW_TAG_inheritance"))

\* ChildrenFiled, with the DIE of an element named by its id instead of chosen.
Filed ==
  \A k \in 1 .. Len(elements_) :
    /\ elements_[k].type_ = "none" => elements_[k].members_ = <<>> /\ elements_[k].parents_ = <<>>
    /\ elements_[k].type_ # "none" =>
         \A d \in 1 .. Len(dies) : dies[d].id = elements_[k].id_ =>
           Lists(elements_[k], MemberIds(d), BaseCount(d))

LEMMA FiledMeans ==
  ASSUME TypeOK, TypesInOrder, Filed
  PROVE  ChildrenFiled
<1>1. DOMAIN elements_ = 1 .. Len(elements_)
  BY LenProperties DEF TypeOK, BuilderTypeOK
<1>2. ASSUME NEW k \in Types
      PROVE  /\ {elements_[k].members_[i].id_ : i \in DOMAIN elements_[k].members_}
                  = {dies[c].id : c \in ChildrenOf(DieAt(elements_[k].id_), "DW_TAG_member")}
             /\ \A i, j \in DOMAIN elements_[k].members_ :
                  i < j => elements_[k].members_[i].id_ < elements_[k].members_[j].id_
             /\ Len(elements_[k].parents_)
                  = Cardinality(ChildrenOf(DieAt(elements_[k].id_), "DW_TAG_inheritance"))
  <2>1. PICK d \in 1 .. Len(dies) : dies[d].id = elements_[k].id_ /\ DieAt(elements_[k].id_) = d
    BY DieOfType
  <2>2. k \in 1 .. Len(elements_) /\ elements_[k].type_ # "none"
    BY <1>1 DEF Types
  <2>3. Lists(elements_[k], MemberIds(d), BaseCount(d))
    BY <2>1, <2>2 DEF Filed
  <2>4. DOMAIN elements_[k].members_ = 1 .. Len(elements_[k].members_)
    <3>1. elements_[k] \in ElementRecord
      BY <2>2, ElementOfSeq DEF TypeOK, BuilderTypeOK
    <3>2. elements_[k].members_ \in Seq(MemberRecord)
      BY <3>1 DEF ElementRecord
    <3> QED BY <3>2, LenProperties
  <2> QED BY <2>1, <2>3, <2>4 DEF Lists, MemberIds, BaseCount
<1>3. \A k \in DOMAIN elements_ \ Types : elements_[k].members_ = <<>> /\ elements_[k].parents_ = <<>>
  BY <1>1 DEF Filed, Types
<1> QED BY <1>2, <1>3 DEF ChildrenFiled

\* What reading a DIE changes in the history.
LEMMA ReadDieHistory ==
  ASSUME TypeOK, Len(dies) < MaxDies, NEW tag_id \in Offset[Len(dies) + 1],
         NEW tag \in Tags, NEW c \in BOOLEAN, ReadDie(tag_id, tag, c),
         NEW p, p = IF open = <<>> THEN 0 ELSE Last(open),
         NEW D, D = Len(dies) + 1
  PROVE  /\ tag_id \in Nat
         /\ ElementOf(tag) \in {"member", "inheritance"} => ~c
         /\ AddElement(ElementOf(tag), IF ElementOf(tag) = "none" THEN 0 ELSE tag_id, c)
         /\ \A d \in 1 .. Len(dies) :
              /\ MemberIds(d) \in SUBSET Nat /\ \A x \in MemberIds(d) : x < tag_id
              /\ MemberIds(d)' = IF p = d /\ tag = "DW_TAG_member"
                                 THEN MemberIds(d) \union {tag_id} ELSE MemberIds(d)
              /\ BaseCount(d) \in Nat
              /\ BaseCount(d)' = IF p = d /\ tag = "DW_TAG_inheritance"
                                 THEN BaseCount(d) + 1 ELSE BaseCount(d)
         /\ MemberIds(D)' = {} /\ BaseCount(D)' = 0
<1> DEFINE e == [id |-> tag_id, tag |-> tag, children |-> c, parent |-> p,
                 attrs |-> [a \in Attribute |-> {}]]
<1>1. /\ Len(dies) \in Nat
      /\ dies \in Seq(Die)
      /\ \A d \in 1 .. Len(dies) : dies[d] \in Die
      /\ open \in Seq(1 .. Len(dies))
      /\ DOMAIN dies = 1 .. Len(dies)
  BY LenProperties, ElementOfSeq DEF TypeOK
<1>2. tag_id \in Nat
  <2>1. Len(dies) + 1 \in 1 .. MaxDies
    BY <1>1, BoundsAssumption
  <2> QED BY <2>1, DatumAssumption
<1>3. p \in 0 .. Len(dies)
  <2>1. CASE open # <<>>
    <3>1. Last(open) \in 1 .. Len(dies)
      BY <1>1, <2>1, FrontLast
    <3> QED BY <1>1, <2>1, <3>1
  <2> QED BY <1>1, <2>1
<1>4. /\ ElementOf(tag) \in {"member", "inheritance"} => ~c
      /\ AddElement(ElementOf(tag), IF ElementOf(tag) = "none" THEN 0 ELSE tag_id, c)
      /\ dies' = Append(dies, e)
      /\ \A d \in 1 .. Len(dies) : dies[d].id < tag_id
  BY <1>1, ElementOfTyped DEF ReadDie, RegisterNewTag
<1>5. e \in Die /\ e.parent <= Len(dies) /\ e.parent = p /\ e.tag = tag /\ e.id = tag_id
  <2>1. [a \in Attribute |-> {}] \in [Attribute -> SUBSET Nat]
    OBVIOUS
  <2> QED BY <1>1, <1>2, <1>3, <2>1 DEF Die
<1> HIDE DEF e
<1>6. (\A d \in 1 .. Len(dies) : dies'[d] = dies[d]) /\ dies'[D] = e
  BY <1>1, <1>4, <1>5, AppendProperties
<1>7. ASSUME NEW d \in 1 .. Len(dies), NEW t
      PROVE  /\ ChildrenOf(d, t) \subseteq 1 .. Len(dies)
             /\ ChildrenOf(d, t)' = IF p = d /\ tag = t
                                    THEN ChildrenOf(d, t) \union {D} ELSE ChildrenOf(d, t)
  <2>1. d \in 1 .. Len(dies) + 1
    BY <1>1
  <2> QED BY <1>4, <1>5, <2>1, ChildrenAfter
<1>8. ASSUME NEW t PROVE ChildrenOf(D, t)' = {}
  <2>1. D \in 1 .. Len(dies) + 1
    BY <1>1
  <2> QED BY <1>4, <1>5, <2>1, ChildrenAfter
<1>9. ASSUME NEW d \in 1 .. Len(dies)
      PROVE  /\ MemberIds(d) \in SUBSET Nat /\ \A x \in MemberIds(d) : x < tag_id
             /\ MemberIds(d)' = IF p = d /\ tag = "DW_TAG_member"
                                THEN MemberIds(d) \union {tag_id} ELSE MemberIds(d)
  <2> DEFINE S == ChildrenOf(d, "DW_TAG_member")
  <2>1. S \subseteq 1 .. Len(dies)
    BY <1>7
  <2>2. S' = IF p = d /\ tag = "DW_TAG_member" THEN S \union {D} ELSE S
    BY <1>7
  <2>3. MemberIds(d) = {dies[x].id : x \in S} /\ MemberIds(d)' = {dies'[x].id : x \in S'}
    BY DEF MemberIds
  <2>4. dies'[D].id = tag_id /\ \A x \in S : /\ dies'[x].id = dies[x].id
                                             /\ dies[x].id \in Nat /\ dies[x].id < tag_id
    BY <1>1, <1>4, <1>5, <1>6, <2>1 DEF Die
  <2> HIDE DEF S
  <2> QED BY <2>2, <2>3, <2>4
<1>10. ASSUME NEW d \in 1 .. Len(dies)
       PROVE  /\ BaseCount(d) \in Nat
              /\ BaseCount(d)' = IF p = d /\ tag = "DW_TAG_inheritance"
                                 THEN BaseCount(d) + 1 ELSE BaseCount(d)
  <2> DEFINE S == ChildrenOf(d, "DW_TAG_inheritance")
  <2>1. S \subseteq 1 .. Len(dies) /\ D \notin S
    <3>1. S \subseteq 1 .. Len(dies)
      BY <1>7
    <3> QED BY <1>1, <3>1
  <2>2. S' = IF p = d /\ tag = "DW_TAG_inheritance" THEN S \union {D} ELSE S
    BY <1>7
  <2>3. BaseCount(d) = Cardinality(S) /\ BaseCount(d)' = Cardinality(S')
    BY DEF BaseCount
  <2> HIDE DEF S
  <2>4. IsFiniteSet(S) /\ Cardinality(S) \in Nat
    <3>1. IsFiniteSet(1 .. Len(dies))
      BY <1>1, FS_Interval
    <3>2. IsFiniteSet(S)
      BY <2>1, <3>1, FS_Subset
    <3> QED BY <3>2, FS_CardinalityType
  <2>5. Cardinality(S \union {D}) = Cardinality(S) + 1
    BY <2>1, <2>4, FS_AddElement
  <2> QED BY <2>2, <2>3, <2>4, <2>5
<1>11. MemberIds(D)' = {} /\ BaseCount(D)' = 0
  BY <1>8, FS_EmptySet DEF MemberIds, BaseCount
<1> QED BY <1>2, <1>4, <1>9, <1>10, <1>11

\* One step of the invariant: a member or base class that is read is filed in the one
\* element that stands for its parent, and if its parent has none, nowhere.
LEMMA ReadDieFiles ==
  ASSUME TypeOK, StackMirrorsOpen, TypesInOrder, Filed,
         Len(dies) < MaxDies, NEW tag_id \in Offset[Len(dies) + 1],
         NEW tag \in Tags, NEW c \in BOOLEAN, ReadDie(tag_id, tag, c)
  PROVE  Filed'
<1>p. PICK p : p = IF open = <<>> THEN 0 ELSE Last(open)
  OBVIOUS
<1>D. PICK D : D = Len(dies) + 1
  OBVIOUS
<1> DEFINE t == ElementOf(tag)
           id == IF t = "none" THEN 0 ELSE tag_id
<1>1. /\ Len(dies) \in Nat /\ Len(elements_) \in Nat
      /\ \A k \in 1 .. Len(elements_) : elements_[k] \in ElementRecord
      /\ BuilderTypeOK
  BY LenProperties, ElementOfSeq DEF TypeOK, BuilderTypeOK
<1>2. /\ tag_id \in Nat
      /\ t \in {"member", "inheritance"} => ~c
      /\ AddElement(t, id, c)
      /\ \A d \in 1 .. Len(dies) :
           /\ MemberIds(d) \in SUBSET Nat /\ \A x \in MemberIds(d) : x < tag_id
           /\ MemberIds(d)' = IF p = d /\ tag = "DW_TAG_member"
                              THEN MemberIds(d) \union {tag_id} ELSE MemberIds(d)
           /\ BaseCount(d) \in Nat
           /\ BaseCount(d)' = IF p = d /\ tag = "DW_TAG_inheritance"
                              THEN BaseCount(d) + 1 ELSE BaseCount(d)
      /\ MemberIds(D)' = {} /\ BaseCount(D)' = 0
  BY <1>p, <1>D, ReadDieHistory
<1>3. /\ Len(dies') = D
      /\ dies'[D].id = tag_id
      /\ \A d \in 1 .. Len(dies) : dies'[d] = dies[d] /\ dies[d].id < tag_id
      /\ Len(elements_') = IF c \/ TypeTag(tag) THEN Len(elements_) + 1 ELSE Len(elements_)
      /\ \A k \in 1 .. Len(elements_) : /\ elements_'[k].type_ = elements_[k].type_
                                        /\ elements_'[k].id_ = elements_[k].id_
      /\ TypeTag(tag) => elements_'[Len(elements_) + 1] = Element(t, tag_id)
      /\ c /\ ~TypeTag(tag) => elements_'[Len(elements_) + 1] = Element("none", 0)
  BY <1>D, ReadDieStep
<1>4. /\ t \in ElementType /\ id \in Nat
      /\ t = "member" <=> tag = "DW_TAG_member"
      /\ t = "inheritance" <=> tag = "DW_TAG_inheritance"
      /\ t \in {"member", "inheritance"} => id = tag_id
      /\ Added(t) /\ t \in {"member", "inheritance"} <=>
           t \in {"member", "inheritance"} /\ CurrentElementType # "none"
  BY <1>2, ElementOfTyped, ElementOfMember DEF Added
<1>5. ASSUME NEW k \in 1 .. Len(elements_)
      PROVE  /\ Added(t) /\ t = "member" /\ k = Innermost =>
                  elements_'[k] = [elements_[k] EXCEPT !.members_ = Append(@, Element(t, id))]
             /\ Added(t) /\ t = "inheritance" /\ k = Innermost =>
                  elements_'[k] = [elements_[k] EXCEPT !.parents_ = Append(@, [id |-> id, offset |-> 0])]
             /\ t \notin {"member", "inheritance"} \/ ~Added(t) \/ k # Innermost =>
                  elements_'[k] = elements_[k]
  BY <1>1, <1>2, <1>4, AddElementFiles
<1> HIDE DEF t, id
\* A placeholder stays empty.
<1>6. ASSUME NEW k \in 1 .. Len(elements_), elements_[k].type_ = "none"
      PROVE  elements_'[k].members_ = <<>> /\ elements_'[k].parents_ = <<>>
  <2>1. t \notin {"member", "inheritance"} \/ ~Added(t) \/ k # Innermost
    BY <1>4, <1>6, Owner
  <2> QED BY <1>5, <1>6, <2>1 DEF Filed
\* A type that was there gets what is its own.
<1>7. ASSUME NEW k \in 1 .. Len(elements_), elements_[k].type_ # "none",
             NEW d \in 1 .. D, dies'[d].id = elements_[k].id_
      PROVE  Lists(elements_'[k], MemberIds(d)', BaseCount(d)')
  <2>1. k \in Types
    BY <1>1, <1>7, LenProperties DEF Types, TypeOK, BuilderTypeOK
  <2>2. d \in 1 .. Len(dies) /\ dies[d].id = elements_[k].id_
    <3>1. PICK b \in 1 .. Len(dies) : dies[b].id = elements_[k].id_
      BY <2>1, DieOfType
    <3>2. elements_[k].id_ < tag_id /\ elements_[k].id_ \in Nat
      BY <1>1, <1>3, <3>1 DEF ElementRecord
    <3>3. d # D
      BY <1>2, <1>3, <1>7, <3>2
    <3>4. d \in 1 .. Len(dies)
      BY <1>1, <1>7, <1>D, <3>3
    <3>5. dies'[d] = dies[d]
      BY <1>3, <3>4
    <3> QED BY <1>7, <3>4, <3>5
  <2>3. Lists(elements_[k], MemberIds(d), BaseCount(d))
    BY <1>7, <2>2 DEF Filed
  <2>4. CASE p = d /\ t \in {"member", "inheritance"}
    <3>1. open # <<>>
      BY <1>p, <1>1, <2>2, <2>4
    <3>2. k = Innermost /\ CurrentElementType # "none"
      BY <1>p, <2>1, <2>2, <2>4, <3>1, Owner
    <3>3. CASE t = "member"
      <4>1. elements_'[k] = [elements_[k] EXCEPT !.members_ = Append(@, Element("member", tag_id))]
        BY <1>4, <1>5, <3>2, <3>3
      <4>2. MemberIds(d)' = MemberIds(d) \union {tag_id} /\ BaseCount(d)' = BaseCount(d)
        BY <1>2, <1>4, <2>2, <2>4, <3>3
      <4>3. /\ elements_[k] \in ElementRecord /\ tag_id \in Nat
            /\ MemberIds(d) \in SUBSET Nat /\ \A x \in MemberIds(d) : x < tag_id
        BY <1>1, <1>2, <2>2
      <4> QED BY <2>3, <4>1, <4>2, <4>3, ListsMember
    <3>4. CASE t = "inheritance"
      <4>1. elements_'[k] =
              [elements_[k] EXCEPT !.parents_ = Append(@, [id |-> tag_id, offset |-> 0])]
        BY <1>4, <1>5, <3>2, <3>4
      <4>2. MemberIds(d)' = MemberIds(d) /\ BaseCount(d)' = BaseCount(d) + 1
        BY <1>2, <1>4, <2>2, <2>4, <3>4
      <4>3. [id |-> tag_id, offset |-> 0] \in Parent /\ BaseCount(d) \in Nat
        BY <1>2, <2>2 DEF Parent
      <4> DEFINE q == [id |-> tag_id, offset |-> 0]
      <4>4. elements_[k] \in ElementRecord /\ q \in Parent
        BY <1>1, <4>3
      <4>5. elements_'[k] = [elements_[k] EXCEPT !.parents_ = Append(@, q)]
        BY <4>1
      <4> HIDE DEF q
      <4>6. Lists([elements_[k] EXCEPT !.parents_ = Append(@, q)], MemberIds(d), BaseCount(d) + 1)
        BY <2>3, <4>3, <4>4, ListsParent
      <4> QED BY <4>2, <4>5, <4>6
    <3> QED BY <2>4, <3>3, <3>4
  <2>5. CASE ~(p = d /\ t \in {"member", "inheritance"})
    <3>1. MemberIds(d)' = MemberIds(d) /\ BaseCount(d)' = BaseCount(d)
      BY <1>2, <1>4, <2>2, <2>5
    <3>2. t \notin {"member", "inheritance"} \/ ~Added(t) \/ k # Innermost
      <4>1. SUFFICES ASSUME t \in {"member", "inheritance"}, Added(t), k = Innermost
                     PROVE  p = d
        BY <2>5
      <4>2. open # <<>> /\ CurrentElementType # "none"
        BY <1>4, <4>1, Owner
      <4>3. p \in 1 .. Len(dies) /\ dies[p].id = dies[d].id
        BY <1>p, <1>4, <2>1, <2>2, <4>1, <4>2, Owner
      <4> QED BY <2>2, <4>3, SameDie
    <3> QED BY <1>5, <2>3, <3>1, <3>2
  <2> QED BY <2>4, <2>5
\* The new element, if there is one, has nothing yet.
<1>8. ASSUME Len(elements_') = Len(elements_) + 1, NEW k, k = Len(elements_) + 1
      PROVE  /\ elements_'[k].type_ = "none" =>
                  elements_'[k].members_ = <<>> /\ elements_'[k].parents_ = <<>>
             /\ elements_'[k].type_ # "none" => \A d \in 1 .. D : dies'[d].id = elements_'[k].id_ =>
                  Lists(elements_'[k], MemberIds(d)', BaseCount(d)')
  <2>1. CASE TypeTag(tag)
    <3>1. elements_'[k] = Element(t, tag_id) /\ elements_'[k].id_ = tag_id
      BY <1>3, <1>8, <2>1 DEF Element
    <3>2. ASSUME NEW d \in 1 .. D, dies'[d].id = tag_id
          PROVE  d = D
      <4>1. ASSUME d \in 1 .. Len(dies) PROVE FALSE
        <5>1. dies[d].id = tag_id /\ dies[d].id < tag_id
          BY <1>3, <3>2, <4>1
        <5> QED BY <1>2, <5>1
      <4> QED BY <1>1, <1>D, <4>1
    <3>3. Lists(elements_'[k], MemberIds(D)', BaseCount(D)')
      BY <1>2, <3>1, ListsNothing
    <3>4. elements_'[k].members_ = <<>> /\ elements_'[k].parents_ = <<>>
      BY <3>1 DEF Element
    <3> QED BY <3>1, <3>2, <3>3, <3>4
  <2>2. CASE ~TypeTag(tag)
    <3>1. elements_'[k] = Element("none", 0)
      BY <1>1, <1>3, <1>8, <2>2
    <3> QED BY <3>1 DEF Element
  <2> QED BY <2>1, <2>2
<1>9. ASSUME NEW k \in 1 .. Len(elements_')
      PROVE  k \in 1 .. Len(elements_) \/ (Len(elements_') = Len(elements_) + 1 /\ k = Len(elements_) + 1)
  BY <1>1, <1>3
<1> QED BY <1>3, <1>6, <1>7, <1>8, <1>9 DEF Filed

\* The invariant behind the theorem: it is kept together with what it rests on.
LEMMA FiledAlways == Spec => []Filed
<1>1. Init => Filed
  BY EmptySeq DEF Init, BuilderInit, Filed
<1>2. TypeOK /\ StackMirrorsOpen /\ TypesInOrder /\ Filed /\ [Next]_vars => Filed'
  <2> SUFFICES ASSUME TypeOK, StackMirrorsOpen, TypesInOrder, Filed, [Next]_vars PROVE Filed'
    OBVIOUS
  <2>1. CASE Quiet \/ ReadNull
    <3>1. /\ Len(dies) \in Nat /\ DOMAIN dies = 1 .. Len(dies)
          /\ DOMAIN dies' = 1 .. Len(dies') /\ Len(elements_) \in Nat
          /\ \A d \in 1 .. Len(dies) : dies[d] \in Die
      <4>1. TypeOK'
        BY QuietSteps, ReadDieStep, ReadNullStep DEF Next
      <4> QED BY <4>1, LenProperties, ElementOfSeq DEF TypeOK, BuilderTypeOK
    <3>2. /\ Len(dies') = Len(dies)
          /\ \A d \in 1 .. Len(dies) : /\ dies'[d].tag = dies[d].tag /\ dies'[d].id = dies[d].id
                                       /\ dies'[d].parent = dies[d].parent
          /\ Len(elements_') = Len(elements_)
          /\ \A k \in 1 .. Len(elements_) : /\ elements_'[k].type_ = elements_[k].type_
                                            /\ elements_'[k].id_ = elements_[k].id_
                                            /\ SameFiling(elements_'[k], elements_[k])
      BY <2>1, ReadNullStep DEF Quiet, KindsKept, SameFiling
    <3>3. ASSUME NEW d, NEW t
          PROVE  ChildrenOf(d, t)' = ChildrenOf(d, t)
      BY <3>1, <3>2 DEF ChildrenOf
    <3>4. ASSUME NEW d \in 1 .. Len(dies)
          PROVE  MemberIds(d)' = MemberIds(d) /\ BaseCount(d)' = BaseCount(d)
      <4>1. ChildrenOf(d, "DW_TAG_member") \subseteq 1 .. Len(dies)
        BY <3>1 DEF ChildrenOf
      <4> QED BY <3>2, <3>3, <4>1 DEF MemberIds, BaseCount
    <3>5. ASSUME NEW k \in 1 .. Len(elements_), elements_[k].type_ = "none"
          PROVE  elements_'[k].members_ = <<>> /\ elements_'[k].parents_ = <<>>
      <4>1. elements_[k].members_ = <<>> /\ elements_[k].parents_ = <<>>
        BY <3>5 DEF Filed
      <4>2. /\ elements_'[k].members_ \in Seq(MemberRecord) /\ elements_'[k].parents_ \in Seq(Parent)
        <5>1. TypeOK'
          BY QuietSteps, ReadDieStep, ReadNullStep DEF Next
        <5>2. elements_'[k] \in ElementRecord
          BY <3>2, <5>1, ElementOfSeq DEF TypeOK, BuilderTypeOK
        <5> QED BY <5>2 DEF ElementRecord
      <4>3. Len(elements_'[k].members_) = 0 /\ Len(elements_'[k].parents_) = 0
        BY <3>2, <4>1, EmptySeq DEF SameFiling
      <4> QED BY <4>2, <4>3, EmptySeq
    <3>6. ASSUME NEW k \in 1 .. Len(elements_), elements_[k].type_ # "none",
                 NEW d \in 1 .. Len(dies), dies[d].id = elements_[k].id_
          PROVE  Lists(elements_'[k], MemberIds(d)', BaseCount(d)')
      BY <3>2, <3>4, <3>6, ListsKept DEF Filed
    <3> QED BY <3>2, <3>5, <3>6 DEF Filed
  <2>2. ASSUME Len(dies) < MaxDies, NEW tag_id \in Offset[Len(dies) + 1],
               NEW tag \in Tags, NEW c \in BOOLEAN, ReadDie(tag_id, tag, c)
        PROVE  Filed'
    BY <2>2, ReadDieFiles
  <2> QED BY <2>1, <2>2, QuietSteps DEF Next
<1> QED BY <1>1, <1>2, TypeCorrect, StackFaithful, TypesComplete, PTL DEF Spec

\* Members and base classes although types nest, although scopes and parts of types are
\* skipped, and although lists of children are closed by the same null entries: each is
\* filed under its own type, in the order of the section, and none is lost.
THEOREM ChildrenComplete == Spec => []ChildrenFiled
<1>1. TypeOK /\ TypesInOrder /\ Filed => ChildrenFiled
  BY FiledMeans
<1> QED BY <1>1, FiledAlways, TypeCorrect, TypesComplete, PTL

(***************************************************************************)
(* The trees that a walk hands on.                                         *)
(***************************************************************************)

\* No DIE is at offset 0, where the header of a unit is, and no placeholder has an id.
IdsSet ==
  /\ \A d \in 1 .. Len(dies) : dies[d].id # 0
  /\ \A k \in 1 .. Len(elements_) : elements_[k].type_ = "none" => elements_[k].id_ = 0

\* GetAllClasses leaves the trees that the script's model starts from: types that differ and
\* increase in their ids, none of them 0, and placeholders, which all have the id 0 and hold
\* nothing.
THEOREM TreesWalked ==
  ASSUME \A d \in 1 .. MaxDies : 0 \notin Offset[d]
  PROVE  Spec => []WalkedTree(elements_)
<1>1. Init => IdsSet
  BY EmptySeq DEF Init, BuilderInit, IdsSet
<1>2. TypeOK /\ IdsSet /\ [Next]_vars => IdsSet'
  <2> SUFFICES ASSUME TypeOK, IdsSet, [Next]_vars PROVE IdsSet'
    OBVIOUS
  <2>1. CASE Quiet \/ ReadNull
    <3>1. /\ Len(dies') = Len(dies) /\ Len(elements_') = Len(elements_)
          /\ \A d \in 1 .. Len(dies) : dies'[d].id = dies[d].id
          /\ \A k \in 1 .. Len(elements_) : /\ elements_'[k].type_ = elements_[k].type_
                                            /\ elements_'[k].id_ = elements_[k].id_
      BY <2>1, ReadNullStep DEF Quiet, KindsKept
    <3> QED BY <3>1 DEF IdsSet
  <2>2. ASSUME Len(dies) < MaxDies, NEW tag_id \in Offset[Len(dies) + 1],
               NEW tag \in Tags, NEW c \in BOOLEAN, ReadDie(tag_id, tag, c)
        PROVE  IdsSet'
    <3> DEFINE D == Len(dies) + 1
               K == Len(elements_) + 1
    <3>1. /\ Len(dies') = D /\ dies'[D].id = tag_id
          /\ \A d \in 1 .. Len(dies) : dies'[d] = dies[d]
          /\ \A k \in 1 .. Len(elements_) : /\ elements_'[k].type_ = elements_[k].type_
                                            /\ elements_'[k].id_ = elements_[k].id_
      BY <2>2, ReadDieStep
    <3>2. \/ Len(elements_') = Len(elements_)
          \/ Len(elements_') = K /\ (elements_'[K].type_ = "none" => elements_'[K].id_ = 0)
      <4>1. CASE TypeTag(tag)
        <5>1. Len(elements_') = K /\ elements_'[K] = Element(ElementOf(tag), tag_id)
          BY <2>2, <4>1, ReadDieStep
        <5> QED BY <4>1, <5>1 DEF Element, TypeTag
      <4>2. CASE ~TypeTag(tag) /\ c
        <5>1. Len(elements_') = K /\ elements_'[K] = Element("none", 0)
          BY <2>2, <4>2, ReadDieStep
        <5> QED BY <5>1 DEF Element
      <4>3. CASE ~TypeTag(tag) /\ ~c
        BY <2>2, <4>3, ReadDieStep
      <4> QED BY <4>1, <4>2, <4>3
    <3>3. Len(dies) \in Nat /\ Len(elements_) \in Nat
      BY LenProperties DEF TypeOK, BuilderTypeOK
    <3>4. tag_id # 0
      BY <2>2, <3>3, BoundsAssumption DEF TypeOK
    <3> HIDE DEF D, K
    <3>5. \A d \in 1 .. Len(dies') : d \in 1 .. Len(dies) \/ d = D
      BY <3>1, <3>3 DEF D
    <3>6. \A k \in 1 .. Len(elements_') :
            k \in 1 .. Len(elements_) \/ (Len(elements_') = K /\ k = K)
      BY <3>2, <3>3 DEF K
    <3>7. \A d \in 1 .. Len(dies') : dies'[d].id # 0
      BY <3>1, <3>4, <3>5 DEF IdsSet
    <3>8. \A k \in 1 .. Len(elements_') : elements_'[k].type_ = "none" => elements_'[k].id_ = 0
      <4> TAKE k \in 1 .. Len(elements_')
      <4>1. CASE k \in 1 .. Len(elements_)
        BY <3>1, <4>1 DEF IdsSet
      <4>2. CASE Len(elements_') = K /\ k = K
        BY <3>2, <3>3, <4>2 DEF K
      <4> QED BY <3>6, <4>1, <4>2
    <3> QED BY <3>7, <3>8 DEF IdsSet
  <2> QED BY <2>1, <2>2, QuietSteps DEF Next
<1>3. TypeOK /\ TypesInOrder /\ ChildrenFiled /\ IdsSet => WalkedTree(elements_)
  <2> SUFFICES ASSUME TypeOK, TypesInOrder, ChildrenFiled, IdsSet PROVE WalkedTree(elements_)
    OBVIOUS
  <2>1. elements_ \in Seq(ElementRecord) /\ DOMAIN elements_ = 1 .. Len(elements_)
        /\ DOMAIN dies = 1 .. Len(dies)
    BY LenProperties DEF TypeOK, BuilderTypeOK
  <2>2. ASSUME NEW k \in Types PROVE elements_[k].id_ # 0
    BY <2>1 DEF TypesInOrder, IdsSet
  <2>3. ASSUME NEW k \in DOMAIN elements_ \ Types
        PROVE  elements_[k].id_ = 0 /\ elements_[k].members_ = <<>>
    BY <2>1, <2>3 DEF Types, ChildrenFiled, IdsSet
  <2> QED BY <2>1, <2>2, <2>3 DEF WalkedTree, Types, TypesInOrder
<1> QED BY <1>1, <1>2, <1>3, TypeCorrect, TypesComplete, ChildrenComplete, PTL DEF Spec

(***************************************************************************)
(* The record of the DIE whose attributes are read.                        *)
(***************************************************************************)

\* Holds, ElementExact and ParentExact for the attributes themselves.
HoldsIn(value, kinds, attrs) ==
  LET present == UNION {attrs[a] : a \in kinds} IN
  IF present = {} THEN value = 0 ELSE value \in present

ElementExactIn(e, attrs) ==
  /\ HoldsIn(e.name_, {"name", "linkage_name"}, attrs)
  /\ HoldsIn(e.size_, {"byte_size"}, attrs)
  /\ HoldsIn(e.type_id_, {"type"}, attrs)
  /\ HoldsIn(e.offset_, IF e.type_ = "member" THEN {"data_member_location"} ELSE {}, attrs)
  /\ e.count_ = 0

ParentExactIn(p, id, attrs) ==
  /\ IF attrs["type"] # {} THEN HoldsIn(p.id, {"type"}, attrs) ELSE p.id = id
  /\ HoldsIn(p.offset, {"data_member_location"}, attrs)

LEMMA ExactIn ==
  ASSUME NEW e, NEW p, NEW d
  PROVE  /\ ElementExact(e, d) <=> ElementExactIn(e, dies[d].attrs)
         /\ ParentExact(p, d) <=> ParentExactIn(p, dies[d].id, dies[d].attrs)
BY DEF ElementExact, ElementExactIn, ParentExact, ParentExactIn, Holds, HoldsIn, Has

\* One attribute more, and the field it sets.
LEMMA HoldsMore ==
  ASSUME NEW attrs \in [Attribute -> SUBSET Nat], NEW kinds \in SUBSET Attribute,
         NEW a \in Attribute, NEW v \in Nat, NEW value, HoldsIn(value, kinds, attrs),
         NEW more, more = [attrs EXCEPT ![a] = {v}],
         NEW set, set = IF a \in kinds THEN v ELSE value
  PROVE  HoldsIn(set, kinds, more)
<1>1. \A x \in kinds : more[x] = IF x = a THEN {v} ELSE attrs[x]
  OBVIOUS
<1>2. CASE a \in kinds
  <2>1. v \in UNION {more[x] : x \in kinds}
    BY <1>1, <1>2
  <2> QED BY <1>2, <2>1 DEF HoldsIn
<1>3. CASE a \notin kinds
  <2>1. UNION {more[x] : x \in kinds} = UNION {attrs[x] : x \in kinds}
    BY <1>1, <1>3
  <2> QED BY <1>3, <2>1 DEF HoldsIn
<1> QED BY <1>2, <1>3

\* What a setter should do to a record e, of a type or a member: the field of its
\* attribute and no other.
Sets(f, e, a, v) ==
  /\ f.type_ = e.type_ /\ f.id_ = e.id_ /\ f.count_ = e.count_
  /\ f.name_ = IF a \in {"name", "linkage_name"} THEN v ELSE e.name_
  /\ f.size_ = IF a \in {"byte_size"} THEN v ELSE e.size_
  /\ f.type_id_ = IF a \in {"type"} THEN v ELSE e.type_id_
  /\ f.offset_ = IF a \in (IF e.type_ = "member" THEN {"data_member_location"} ELSE {})
                 THEN v ELSE e.offset_

SetsParent(q, p, a, v) ==
  /\ q.id = IF a \in {"type"} THEN v ELSE p.id
  /\ q.offset = IF a \in {"data_member_location"} THEN v ELSE p.offset

LEMMA SetsExactly ==
  ASSUME NEW attrs \in [Attribute -> SUBSET Nat], NEW a \in Attribute, NEW v \in Nat,
         NEW e, NEW f, Sets(f, e, a, v), ElementExactIn(e, attrs)
  PROVE  ElementExactIn(f, [attrs EXCEPT ![a] = {v}])
<1>a. PICK more : more = [attrs EXCEPT ![a] = {v}]
  OBVIOUS
<1>b. /\ {"name", "linkage_name"} \in SUBSET Attribute
      /\ {"byte_size"} \in SUBSET Attribute /\ {"type"} \in SUBSET Attribute
  BY DEF Attribute
<1>1. HoldsIn(f.name_, {"name", "linkage_name"}, more)
  <2>1. HoldsIn(e.name_, {"name", "linkage_name"}, attrs)
    BY DEF ElementExactIn
  <2>2. f.name_ = IF a \in {"name", "linkage_name"} THEN v ELSE e.name_
    BY DEF Sets
  <2> QED BY <1>a, <1>b, <2>1, <2>2, HoldsMore
<1>2. HoldsIn(f.size_, {"byte_size"}, more)
  <2>1. HoldsIn(e.size_, {"byte_size"}, attrs)
    BY DEF ElementExactIn
  <2>2. f.size_ = IF a \in {"byte_size"} THEN v ELSE e.size_
    BY DEF Sets
  <2> QED BY <1>a, <1>b, <2>1, <2>2, HoldsMore
<1>3. HoldsIn(f.type_id_, {"type"}, more)
  <2>1. HoldsIn(e.type_id_, {"type"}, attrs)
    BY DEF ElementExactIn
  <2>2. f.type_id_ = IF a \in {"type"} THEN v ELSE e.type_id_
    BY DEF Sets
  <2> QED BY <1>a, <1>b, <2>1, <2>2, HoldsMore
<1> DEFINE offsets == IF e.type_ = "member" THEN {"data_member_location"} ELSE {}
<1>4. HoldsIn(f.offset_, offsets, more)
  <2>1. offsets \in SUBSET Attribute /\ HoldsIn(e.offset_, offsets, attrs)
    BY DEF Attribute, ElementExactIn
  <2>2. f.offset_ = IF a \in offsets THEN v ELSE e.offset_
    BY DEF Sets
  <2> HIDE DEF offsets
  <2> QED BY <1>a, <2>1, <2>2, HoldsMore
<1>5. f.type_ = e.type_ /\ f.count_ = 0
  BY DEF Sets, ElementExactIn
<1> QED BY <1>a, <1>1, <1>2, <1>3, <1>4, <1>5 DEF ElementExactIn

LEMMA SetsParentExactly ==
  ASSUME NEW attrs \in [Attribute -> SUBSET Nat], NEW a \in Attribute, NEW v \in Nat,
         NEW p, NEW q, NEW id, SetsParent(q, p, a, v), ParentExactIn(p, id, attrs)
  PROVE  ParentExactIn(q, id, [attrs EXCEPT ![a] = {v}])
<1> DEFINE more == [attrs EXCEPT ![a] = {v}]
<1>1. HoldsIn(q.offset, {"data_member_location"}, more)
  BY HoldsMore DEF Attribute, SetsParent, ParentExactIn
<1>2. IF more["type"] # {} THEN HoldsIn(q.id, {"type"}, more) ELSE q.id = id
  <2>1. "type" \in Attribute /\ {"type"} \in SUBSET Attribute
    BY DEF Attribute
  <2>2. CASE a = "type"
    <3>1. more["type"] = {v} /\ q.id = v
      BY <2>1, <2>2 DEF SetsParent
    <3> HIDE DEF more
    <3>2. UNION {more[x] : x \in {"type"}} = {v}
      BY <3>1
    <3> QED BY <3>1, <3>2 DEF HoldsIn
  <2>3. CASE a # "type"
    <3>1. more["type"] = attrs["type"] /\ q.id = p.id
      BY <2>1, <2>3 DEF SetsParent
    <3> HIDE DEF more
    <3>2. UNION {more[x] : x \in {"type"}} = UNION {attrs[x] : x \in {"type"}}
      BY <3>1
    <3> QED BY <3>1, <3>2 DEF HoldsIn, ParentExactIn
  <2> QED BY <2>2, <2>3
<1> HIDE DEF more
<1> QED BY <1>1, <1>2 DEF ParentExactIn, more

\* The setters, while a member, a base class or a type is the record they write to.
LEMMA MemberSet ==
  ASSUME BuilderTypeOK, NEW a \in Attribute, NEW v \in Nat, LogDwarfInfo(a, v),
         last_parsed_type_ = "member", CurrentElementType # "none",
         elements_[Innermost].members_ # <<>>,
         NEW i, i = Innermost, NEW n, n = NewestMember
  PROVE  Sets(elements_'[i].members_[n], elements_[i].members_[n], a, v)
<1> DEFINE ms == elements_[i].members_
           m == ms[n]
<1>1. /\ i \in 1 .. Len(elements_) /\ elements_[i] \in ElementRecord /\ ms \in Seq(MemberRecord)
      /\ DOMAIN elements_ = 1 .. Len(elements_)
  BY InnermostTyped, LenProperties DEF BuilderTypeOK
<1>2. n \in 1 .. Len(ms) /\ DOMAIN ms = 1 .. Len(ms) /\ n = NewestMember
  BY <1>1, EmptySeq, LenProperties DEF NewestMember
<1>3. m \in MemberRecord
  BY <1>1, <1>2, ElementOfSeq
<1>4. ToMember /\ ~ToParent
  BY <1>1, EmptySeq DEF ToMember, ToParent, Ready
<1>5. ASSUME NEW r, elements_' = [elements_ EXCEPT ![i] =
                         [elements_[i] EXCEPT !.members_ = [ms EXCEPT ![n] = r]]]
      PROVE  elements_'[i].members_[n] = r
  <2> DEFINE e == [elements_[i] EXCEPT !.members_ = [ms EXCEPT ![n] = r]]
  <2>1. elements_'[i] = e
    BY <1>1, <1>5
  <2>2. e.members_ = [ms EXCEPT ![n] = r]
    BY <1>1 DEF ElementRecord
  <2> QED BY <1>2, <2>1, <2>2
<1>6. CASE a \in {"name", "linkage_name"}
  <2>1. elements_' = [elements_ EXCEPT ![i] =
          [elements_[i] EXCEPT !.members_ = [ms EXCEPT ![n] = [m EXCEPT !.name_ = v]]]]
    BY <1>4, <1>6 DEF LogDwarfInfo, SetElementName
  <2>2. elements_'[i].members_[n] = [m EXCEPT !.name_ = v]
    BY <1>5, <2>1
  <2> QED BY <1>3, <1>6, <2>2 DEF Sets, MemberRecord
<1>7. CASE a = "byte_size"
  <2>1. elements_' = [elements_ EXCEPT ![i] =
          [elements_[i] EXCEPT !.members_ = [ms EXCEPT ![n] = [m EXCEPT !.size_ = v]]]]
    BY <1>4, <1>7 DEF LogDwarfInfo, SetElementSize
  <2>2. elements_'[i].members_[n] = [m EXCEPT !.size_ = v]
    BY <1>5, <2>1
  <2> QED BY <1>3, <1>7, <2>2 DEF Sets, MemberRecord
<1>8. CASE a = "data_member_location"
  <2>1. elements_' = [elements_ EXCEPT ![i] =
          [elements_[i] EXCEPT !.members_ = [ms EXCEPT ![n] = [m EXCEPT !.offset_ = v]]]]
    BY <1>4, <1>8 DEF LogDwarfInfo, SetElementOffset
  <2>2. elements_'[i].members_[n] = [m EXCEPT !.offset_ = v]
    BY <1>5, <2>1
  <2> QED BY <1>3, <1>8, <2>2 DEF Sets, MemberRecord
<1>9. CASE a = "type"
  <2>1. elements_' = [elements_ EXCEPT ![i] =
          [elements_[i] EXCEPT !.members_ = [ms EXCEPT ![n] = [m EXCEPT !.type_id_ = v]]]]
    BY <1>4, <1>9 DEF LogDwarfInfo, SetElementType
  <2>2. elements_'[i].members_[n] = [m EXCEPT !.type_id_ = v]
    BY <1>5, <2>1
  <2> QED BY <1>3, <1>9, <2>2 DEF Sets, MemberRecord
<1>10. CASE a = "count"
  <2>1. elements_' = elements_
    BY <1>10 DEF LogDwarfInfo, SetElementCount
  <2> QED BY <1>3, <1>10, <2>1 DEF Sets, MemberRecord
<1> QED BY <1>6, <1>7, <1>8, <1>9, <1>10 DEF Attribute

LEMMA ParentSet ==
  ASSUME BuilderTypeOK, NEW a \in {"data_member_location", "type"}, NEW v \in Nat,
         LogDwarfInfo(a, v),
         last_parsed_type_ = "inheritance", CurrentElementType # "none",
         elements_[Innermost].parents_ # <<>>,
         NEW i, i = Innermost, NEW n, n = NewestParent
  PROVE  SetsParent(elements_'[i].parents_[n], elements_[i].parents_[n], a, v)
<1> DEFINE ps == elements_[i].parents_
           p == ps[n]
<1>1. /\ i \in 1 .. Len(elements_) /\ elements_[i] \in ElementRecord /\ ps \in Seq(Parent)
      /\ DOMAIN elements_ = 1 .. Len(elements_)
  BY InnermostTyped, LenProperties DEF BuilderTypeOK
<1>2. n \in 1 .. Len(ps) /\ DOMAIN ps = 1 .. Len(ps) /\ n = NewestParent
  BY <1>1, EmptySeq, LenProperties DEF NewestParent
<1>3. p \in Parent
  BY <1>1, <1>2, ElementOfSeq
<1>4. ToParent /\ ~ToMember
  BY <1>1, EmptySeq DEF ToMember, ToParent, Ready
<1>5. ASSUME NEW r, elements_' = [elements_ EXCEPT ![i] =
                         [elements_[i] EXCEPT !.parents_ = [ps EXCEPT ![n] = r]]]
      PROVE  elements_'[i].parents_[n] = r
  <2> DEFINE e == [elements_[i] EXCEPT !.parents_ = [ps EXCEPT ![n] = r]]
  <2>1. elements_'[i] = e
    BY <1>1, <1>5
  <2>2. e.parents_ = [ps EXCEPT ![n] = r]
    BY <1>1 DEF ElementRecord
  <2> QED BY <1>2, <2>1, <2>2
<1>6. CASE a = "data_member_location"
  <2>1. elements_' = [elements_ EXCEPT ![i] =
          [elements_[i] EXCEPT !.parents_ = [ps EXCEPT ![n] = [p EXCEPT !.offset = v]]]]
    BY <1>4, <1>6 DEF LogDwarfInfo, SetElementOffset
  <2>2. elements_'[i].parents_[n] = [p EXCEPT !.offset = v]
    BY <1>5, <2>1
  <2> QED BY <1>3, <1>6, <2>2 DEF SetsParent, Parent
<1>7. CASE a = "type"
  <2>1. elements_' = [elements_ EXCEPT ![i] =
          [elements_[i] EXCEPT !.parents_ = [ps EXCEPT ![n] = [p EXCEPT !.id = v]]]]
    BY <1>4, <1>7 DEF LogDwarfInfo, SetElementType
  <2>2. elements_'[i].parents_[n] = [p EXCEPT !.id = v]
    BY <1>5, <2>1
  <2> QED BY <1>3, <1>7, <2>2 DEF SetsParent, Parent
<1> QED BY <1>6, <1>7

LEMMA TypeSet ==
  ASSUME BuilderTypeOK, NEW a \in Attribute, NEW v \in Nat, LogDwarfInfo(a, v),
         last_parsed_type_ \in TypeKind, elements_ # <<>>,
         NEW k, k = Newest, elements_[k].type_ # "member"
  PROVE  Sets(elements_'[k], elements_[k], a, v)
<1>1. /\ k \in 1 .. Len(elements_) /\ elements_[k] \in ElementRecord
      /\ DOMAIN elements_ = 1 .. Len(elements_) /\ k = Newest
  BY EmptySeq, ElementOfSeq, LenProperties DEF BuilderTypeOK, Newest
<1>2. ~ToMember /\ ~ToParent /\ Ready /\ last_parsed_type_ \notin {"member", "inheritance", "subrange_type"}
  BY DEF ToMember, ToParent, Ready, TypeKind
<1>3. CASE a \in {"name", "linkage_name"}
  <2>1. elements_' = [elements_ EXCEPT ![k] = [elements_[k] EXCEPT !.name_ = v]]
    BY <1>1, <1>2, <1>3 DEF LogDwarfInfo, SetElementName
  <2>2. elements_'[k] = [elements_[k] EXCEPT !.name_ = v]
    BY <1>1, <2>1
  <2> QED BY <1>1, <1>3, <2>2 DEF Sets, ElementRecord
<1>4. CASE a = "byte_size"
  <2>1. elements_' = [elements_ EXCEPT ![k] = [elements_[k] EXCEPT !.size_ = v]]
    BY <1>1, <1>2, <1>4 DEF LogDwarfInfo, SetElementSize
  <2>2. elements_'[k] = [elements_[k] EXCEPT !.size_ = v]
    BY <1>1, <2>1
  <2> QED BY <1>1, <1>4, <2>2 DEF Sets, ElementRecord
<1>5. CASE a = "type"
  <2>1. elements_' = [elements_ EXCEPT ![k] = [elements_[k] EXCEPT !.type_id_ = v]]
    BY <1>1, <1>2, <1>5 DEF LogDwarfInfo, SetElementType
  <2>2. elements_'[k] = [elements_[k] EXCEPT !.type_id_ = v]
    BY <1>1, <2>1
  <2> QED BY <1>1, <1>5, <2>2 DEF Sets, ElementRecord
<1>6. CASE a \in {"data_member_location", "count"}
  <2>1. elements_' = elements_
    BY <1>2, <1>6 DEF LogDwarfInfo, SetElementOffset, SetElementCount
  <2> QED BY <1>1, <1>6, <2>1 DEF Sets, ElementRecord
<1> QED BY <1>3, <1>4, <1>5, <1>6 DEF Attribute

\* CurrentDieExact, with what makes the setters find the record: last_parsed_type_ is
\* the kind of the DIE, and the record is the one that they write to for this kind.
CurrentRecord ==
  pc = "attr" /\ Recorded(Current) =>
    /\ last_parsed_type_ = ElementOf(dies[Current].tag)
    /\ dies[Current].tag = "DW_TAG_member" =>
         /\ CurrentElementType # "none"
         /\ elements_[Innermost].members_ # <<>>
         /\ elements_[Innermost].members_[NewestMember].id_ = dies[Current].id
         /\ ElementExact(elements_[Innermost].members_[NewestMember], Current)
    /\ dies[Current].tag = "DW_TAG_inheritance" =>
         /\ CurrentElementType # "none"
         /\ elements_[Innermost].parents_ # <<>>
         /\ ParentExact(elements_[Innermost].parents_[NewestParent], Current)
    /\ TypeTag(dies[Current].tag) =>
         /\ elements_ # <<>>
         /\ elements_[Newest].id_ = dies[Current].id
         /\ ElementExact(elements_[Newest], Current)

LEMMA CurrentRecordMeans ==
  ASSUME CurrentRecord
  PROVE  CurrentDieExact
<1> SUFFICES ASSUME pc = "attr", Recorded(Current)
             PROVE  CASE dies[Current].tag = "DW_TAG_member" ->
                           LET m == Last(elements_[Innermost].members_)
                           IN  m.id_ = dies[Current].id /\ ElementExact(m, Current)
                      [] dies[Current].tag = "DW_TAG_inheritance" ->
                           ParentExact(Last(elements_[Innermost].parents_), Current)
                      [] OTHER ->
                           /\ elements_[Newest].id_ = dies[Current].id
                           /\ ElementExact(elements_[Newest], Current)
  BY DEF CurrentDieExact
<1>1. /\ Last(elements_[Innermost].members_) = elements_[Innermost].members_[NewestMember]
      /\ Last(elements_[Innermost].parents_) = elements_[Innermost].parents_[NewestParent]
  BY DEF Last, NewestMember, NewestParent
<1>2. TypeTag(dies[Current].tag) \/ dies[Current].tag \in {"DW_TAG_member", "DW_TAG_inheritance"}
  BY DEF Recorded
<1>3. CASE dies[Current].tag = "DW_TAG_member"
  BY <1>1, <1>3 DEF CurrentRecord
<1>4. CASE dies[Current].tag = "DW_TAG_inheritance"
  BY <1>1, <1>4 DEF CurrentRecord
<1>5. CASE dies[Current].tag \notin {"DW_TAG_member", "DW_TAG_inheritance"}
  BY <1>2, <1>5 DEF CurrentRecord
<1> QED BY <1>3, <1>4, <1>5

\* Every attribute goes to the record of the current DIE.
LEMMA ReadAttributeRecords ==
  ASSUME TypeOK, CurrentRecord, pc = "attr",
         NEW a \in Attributes, NEW v \in Datum[a][Current], ReadAttribute(a, v)
  PROVE  CurrentRecord'
<1>D. PICK D : D = Current
  OBVIOUS
<1>1. /\ Len(dies) \in Nat /\ D \in 1 .. Len(dies) /\ dies[D] \in Die
      /\ D \in 1 .. MaxDies /\ BuilderTypeOK /\ a \in Attribute
      /\ DOMAIN dies = 1 .. Len(dies)
  BY <1>D, LenProperties, ElementOfSeq, EmptySeq, BoundsAssumption, DatumAssumption
     DEF TypeOK, Current
<1>2. v \in Nat /\ LogDwarfInfo(a, v) /\ MayCarry(dies[D].tag, a)
  BY <1>1, <1>D, DatumAssumption DEF ReadAttribute
<1> DEFINE attrs == dies[D].attrs
<1>3. attrs \in [Attribute -> SUBSET Nat]
  BY <1>1 DEF Die
<1>4. BuilderTypeOK' /\ KindsKept /\ Quiet /\ TypeOK'
  BY <1>1, <1>2, LogDwarfInfoKeeps, QuietSteps
<1>5. /\ Current' = D
      /\ dies'[D].attrs = [attrs EXCEPT ![a] = {v}]
      /\ dies'[D].tag = dies[D].tag /\ dies'[D].id = dies[D].id
      /\ UNCHANGED pc
  <2>1. /\ dies' = [dies EXCEPT ![D].attrs[a] = {v}] /\ UNCHANGED pc
    BY <1>D DEF ReadAttribute
  <2>2. dies'[D] = [dies[D] EXCEPT !.attrs = [attrs EXCEPT ![a] = {v}]]
    BY <1>1, <2>1
  <2>3. dies'[D].attrs = [attrs EXCEPT ![a] = {v}]
    BY <1>1, <2>2 DEF Die
  <2> QED BY <1>1, <1>4, <1>D, <2>1, <2>3 DEF Quiet, Current
<1> HIDE DEF attrs
<1>6. SUFFICES ASSUME Recorded(Current)' PROVE CurrentRecord'
  BY DEF CurrentRecord
<1>7. Recorded(D)
  <2>1. dies[D].parent \in Nat /\ dies[D].parent < D
    BY <1>1 DEF Die, TypeOK
  <2>2. \A d \in 1 .. Len(dies) : dies'[d].tag = dies[d].tag /\ dies'[d].parent = dies[d].parent
    BY <1>4 DEF Quiet
  <2>3. Recorded(Current)' <=>
          \/ TypeTag(dies'[D].tag)
          \/ /\ dies'[D].tag \in {"DW_TAG_member", "DW_TAG_inheritance"}
             /\ dies'[D].parent # 0 /\ TypeTag(dies'[dies'[D].parent].tag)
    BY <1>5 DEF Recorded
  <2> QED BY <1>1, <1>6, <2>1, <2>2, <2>3 DEF Recorded
<1>8. /\ last_parsed_type_' = last_parsed_type_ /\ nested_elements_' = nested_elements_
      /\ last_parsed_type_ = ElementOf(dies[D].tag)
      /\ Innermost' = Innermost /\ Newest' = Newest
  BY <1>4, <1>7, <1>D DEF KindsKept, CurrentRecord, Innermost, Newest
<1>i. PICK i : i = Innermost
  OBVIOUS
<1>9. CASE dies[D].tag = "DW_TAG_member"
  <2>1. /\ CurrentElementType # "none" /\ elements_[i].members_ # <<>>
        /\ elements_[i].members_[NewestMember].id_ = dies[D].id
        /\ ElementExactIn(elements_[i].members_[NewestMember], attrs)
        /\ last_parsed_type_ = "member"
    BY <1>7, <1>8, <1>9, <1>D, <1>i, ExactIn, ElementOfMember DEF CurrentRecord, attrs
  <2>2. i \in 1 .. Len(elements_)
    BY <1>1, <1>i, <2>1, InnermostTyped
  <2>3. CurrentElementType' # "none"
    BY <1>4, <1>8, <1>i, <2>1, <2>2 DEF CurrentElementType, KindsKept
  <2>n. PICK n : n = NewestMember
    OBVIOUS
  <2>4. /\ elements_[i].members_ \in Seq(MemberRecord) /\ elements_'[i].members_ \in Seq(MemberRecord)
        /\ Len(elements_'[i].members_) = Len(elements_[i].members_)
    <3>1. Len(elements_') = Len(elements_) /\ SameFiling(elements_'[i], elements_[i])
      BY <1>4, <2>2 DEF KindsKept
    <3>2. elements_[i] \in ElementRecord /\ elements_'[i] \in ElementRecord
      BY <1>1, <1>4, <2>2, <3>1, ElementOfSeq DEF BuilderTypeOK
    <3> QED BY <3>1, <3>2 DEF SameFiling, ElementRecord
  <2>5. n = NewestMember' /\ elements_'[i].members_ # <<>>
    BY <1>8, <1>i, <2>1, <2>n, <2>4, EmptySeq DEF NewestMember
  <2>6. Sets(elements_'[i].members_[n], elements_[i].members_[n], a, v)
    BY <1>1, <1>2, <1>i, <2>1, <2>n, MemberSet
  <2>7. ElementExactIn(elements_'[i].members_[n], dies'[D].attrs)
    <3> DEFINE e == elements_[i].members_[n]
               f == elements_'[i].members_[n]
    <3>1. Sets(f, e, a, v) /\ ElementExactIn(e, attrs)
      BY <2>1, <2>n, <2>6
    <3> HIDE DEF e, f
    <3>2. ElementExactIn(f, [attrs EXCEPT ![a] = {v}])
      BY <1>1, <1>2, <1>3, <3>1, SetsExactly
    <3> QED BY <1>5, <3>2 DEF f
  <2>8. ElementExact(elements_[i].members_[n], D)'
    BY <2>7 DEF ElementExact, ElementExactIn, Holds, HoldsIn
  <2>9. elements_'[i].members_[n].id_ = dies'[D].id
    BY <1>5, <2>1, <2>n, <2>6 DEF Sets
  <2>10. ~TypeTag(dies'[D].tag) /\ dies'[D].tag = "DW_TAG_member"
    BY <1>5, <1>9, ElementOfMember
  <2> QED BY <1>5, <1>8, <1>i, <2>3, <2>5, <2>8, <2>9, <2>10 DEF CurrentRecord
<1>10. CASE dies[D].tag = "DW_TAG_inheritance"
  <2>1. /\ CurrentElementType # "none" /\ elements_[i].parents_ # <<>>
        /\ ParentExactIn(elements_[i].parents_[NewestParent], dies[D].id, attrs)
        /\ last_parsed_type_ = "inheritance"
    BY <1>7, <1>8, <1>10, <1>D, <1>i, ExactIn, ElementOfMember DEF CurrentRecord, attrs
  <2>2. i \in 1 .. Len(elements_)
    BY <1>1, <1>i, <2>1, InnermostTyped
  <2>3. CurrentElementType' # "none"
    BY <1>4, <1>8, <1>i, <2>1, <2>2 DEF CurrentElementType, KindsKept
  <2>n. PICK n : n = NewestParent
    OBVIOUS
  <2>4. /\ elements_[i].parents_ \in Seq(Parent) /\ elements_'[i].parents_ \in Seq(Parent)
        /\ Len(elements_'[i].parents_) = Len(elements_[i].parents_)
    <3>1. Len(elements_') = Len(elements_) /\ SameFiling(elements_'[i], elements_[i])
      BY <1>4, <2>2 DEF KindsKept
    <3>2. elements_[i] \in ElementRecord /\ elements_'[i] \in ElementRecord
      BY <1>1, <1>4, <2>2, <3>1, ElementOfSeq DEF BuilderTypeOK
    <3> QED BY <3>1, <3>2 DEF SameFiling, ElementRecord
  <2>5. n = NewestParent' /\ elements_'[i].parents_ # <<>>
    BY <1>8, <1>i, <2>1, <2>n, <2>4, EmptySeq DEF NewestParent
  <2>6. SetsParent(elements_'[i].parents_[n], elements_[i].parents_[n], a, v)
    <3>1. a \in {"data_member_location", "type"}
      BY <1>2, <1>10 DEF MayCarry
    <3> QED BY <1>1, <1>2, <1>i, <2>1, <2>n, <3>1, ParentSet
  <2>7. ParentExactIn(elements_'[i].parents_[n], dies'[D].id, dies'[D].attrs)
    <3> DEFINE p == elements_[i].parents_[n]
               q == elements_'[i].parents_[n]
    <3>1. SetsParent(q, p, a, v) /\ ParentExactIn(p, dies[D].id, attrs)
      BY <2>1, <2>n, <2>6
    <3> HIDE DEF p, q
    <3>2. ParentExactIn(q, dies[D].id, [attrs EXCEPT ![a] = {v}])
      BY <1>1, <1>2, <1>3, <3>1, SetsParentExactly
    <3> QED BY <1>5, <3>2 DEF q
  <2>8. ParentExact(elements_[i].parents_[n], D)'
    BY <2>7 DEF ParentExact, ParentExactIn, Holds, HoldsIn, Has
  <2>9. ~TypeTag(dies'[D].tag) /\ dies'[D].tag = "DW_TAG_inheritance"
    BY <1>5, <1>10, ElementOfMember
  <2> QED BY <1>5, <1>8, <1>i, <2>3, <2>5, <2>8, <2>9 DEF CurrentRecord
<1>11. CASE TypeTag(dies[D].tag)
  <2>k. PICK k : k = Newest
    OBVIOUS
  <2>1. /\ elements_ # <<>> /\ elements_[k].id_ = dies[D].id
        /\ ElementExactIn(elements_[k], attrs)
        /\ last_parsed_type_ \in TypeKind
    BY <1>7, <1>8, <1>11, <1>D, <2>k, ExactIn, ElementOfTyped DEF CurrentRecord, attrs
  <2>2. elements_[k].type_ # "member" /\ k \in 1 .. Len(elements_)
    <3>1. k \in 1 .. Len(elements_) /\ elements_[k] \in ElementRecord
      BY <1>1, <2>1, <2>k, EmptySeq, ElementOfSeq DEF BuilderTypeOK, Newest
    <3> QED BY <3>1 DEF ElementRecord
  <2>3. Sets(elements_'[k], elements_[k], a, v)
    BY <1>1, <1>2, <2>k, <2>1, <2>2, TypeSet
  <2>4. ElementExactIn(elements_'[k], dies'[D].attrs)
    <3> DEFINE e == elements_[k]
               f == elements_'[k]
    <3>1. Sets(f, e, a, v) /\ ElementExactIn(e, attrs)
      BY <2>1, <2>3
    <3> HIDE DEF e, f
    <3>2. ElementExactIn(f, [attrs EXCEPT ![a] = {v}])
      BY <1>1, <1>2, <1>3, <3>1, SetsExactly
    <3> QED BY <1>5, <3>2 DEF f
  <2>5. ElementExact(elements_[k], D)'
    BY <2>4 DEF ElementExact, ElementExactIn, Holds, HoldsIn
  <2>6. elements_' # <<>>
    BY <1>1, <1>4, <2>1, EmptySeq DEF KindsKept, BuilderTypeOK
  <2>7. elements_'[k].id_ = dies'[D].id
    BY <1>5, <2>1, <2>3 DEF Sets
  <2>8. dies'[D].tag \notin {"DW_TAG_member", "DW_TAG_inheritance"}
    BY <1>5, <1>11, ElementOfMember
  <2> QED BY <1>5, <1>8, <2>k, <2>5, <2>6, <2>7, <2>8 DEF CurrentRecord
<1> QED BY <1>7, <1>9, <1>10, <1>11 DEF Recorded

\* With no attribute read, a field is exact when it is not set.
LEMMA ExactAtFirst ==
  ASSUME NEW attrs, attrs = [x \in Attribute |-> {}], NEW type, NEW id
  PROVE  /\ ElementExactIn(Element(type, id), attrs)
         /\ ParentExactIn([id |-> id, offset |-> 0], id, attrs)
<1>1. ASSUME NEW kinds \in SUBSET Attribute PROVE HoldsIn(0, kinds, attrs)
  BY DEF HoldsIn
<1>2. /\ {"name", "linkage_name"} \in SUBSET Attribute /\ {"byte_size"} \in SUBSET Attribute
      /\ {"type"} \in SUBSET Attribute /\ {"data_member_location"} \in SUBSET Attribute
      /\ {} \in SUBSET Attribute /\ attrs["type"] = {}
  BY DEF Attribute
<1> QED BY <1>1, <1>2 DEF ElementExactIn, ParentExactIn, Element

\* A recorded DIE has a record of its own from the start, and the setters find it.
LEMMA ReadDieRecords ==
  ASSUME TypeOK, StackMirrorsOpen, TypesInOrder,
         Len(dies) < MaxDies, NEW tag_id \in Offset[Len(dies) + 1],
         NEW tag \in Tags, NEW c \in BOOLEAN, ReadDie(tag_id, tag, c)
  PROVE  CurrentRecord'
<1>p. PICK p : p = IF open = <<>> THEN 0 ELSE Last(open)
  OBVIOUS
<1>D. PICK D : D = Len(dies) + 1
  OBVIOUS
<1> DEFINE t == ElementOf(tag)
           id == IF t = "none" THEN 0 ELSE tag_id
           none == [a \in Attribute |-> {}]
<1>1. /\ Len(dies) \in Nat /\ Len(elements_) \in Nat /\ dies \in Seq(Die)
      /\ open \in Seq(1 .. Len(dies)) /\ BuilderTypeOK
  BY LenProperties DEF TypeOK, BuilderTypeOK
<1>2. /\ tag_id \in Nat
      /\ t \in {"member", "inheritance"} => ~c
      /\ AddElement(t, id, c)
  BY <1>p, <1>D, ReadDieHistory
<1>3. /\ Current' = D
      /\ TypeOK'
      /\ \A d \in 1 .. Len(dies) : dies'[d] = dies[d]
      /\ Len(elements_') = IF c \/ TypeTag(tag) THEN Len(elements_) + 1 ELSE Len(elements_)
      /\ \A k \in 1 .. Len(elements_) : elements_'[k].type_ = elements_[k].type_
      /\ TypeTag(tag) => elements_'[Len(elements_) + 1] = Element(t, tag_id)
      /\ nested_elements_' = IF c THEN Append(nested_elements_, Len(elements_')) ELSE nested_elements_
  BY <1>D, ReadDieStep DEF Current
<1>4. /\ dies'[D].tag = tag /\ dies'[D].id = tag_id /\ dies'[D].parent = p
      /\ dies'[D].attrs = none
  <2> DEFINE e == [id |-> tag_id, tag |-> tag, children |-> c, parent |-> p, attrs |-> none]
  <2>1. dies' = Append(dies, e)
    BY <1>p DEF ReadDie
  <2>2. p \in Nat
    <3>1. open # <<>> => Last(open) \in 1 .. Len(dies)
      BY <1>1, FrontLast
    <3> QED BY <1>1, <1>p, <3>1
  <2>3. e \in Die
    BY <1>1, <1>2, <2>2 DEF Die
  <2>4. dies'[D] = e
    BY <1>1, <1>D, <2>1, <2>3, AppendProperties
  <2> QED BY <2>4
<1>5. /\ t \in ElementType /\ id \in Nat
      /\ t = "member" <=> tag = "DW_TAG_member"
      /\ t = "inheritance" <=> tag = "DW_TAG_inheritance"
      /\ TypeTag(tag) <=> t \in TypeKind
      /\ t \in {"member", "inheritance"} => id = tag_id
  BY <1>2, ElementOfTyped, ElementOfMember
<1>6. SUFFICES ASSUME Recorded(Current)' PROVE CurrentRecord'
  BY DEF CurrentRecord
<1>7. /\ tag \in {"DW_TAG_member", "DW_TAG_inheritance"} \/ TypeTag(tag)
      /\ tag \in {"DW_TAG_member", "DW_TAG_inheritance"} =>
           TypeTag(tag) \/ (p # 0 /\ TypeTag(dies'[p].tag))
  BY <1>3, <1>4, <1>6 DEF Recorded
<1>8. tag \in {"DW_TAG_member", "DW_TAG_inheritance"} => open # <<>> /\ CurrentElementType # "none"
  <2>1. SUFFICES ASSUME tag \in {"DW_TAG_member", "DW_TAG_inheritance"}
                 PROVE  open # <<>> /\ CurrentElementType # "none"
    OBVIOUS
  <2>2. ~TypeTag(tag) /\ open # <<>>
    BY <1>p, <1>7, <2>1, ElementOfMember
  <2>3. p \in 1 .. Len(dies) /\ (CurrentElementType # "none" <=> TypeTag(dies[p].tag))
    BY <1>p, <2>2, Owner
  <2> QED BY <1>3, <1>7, <2>1, <2>2, <2>3
<1>9. Added(t) /\ last_parsed_type_' = t
  <2>1. Added(t)
    BY <1>5, <1>7, <1>8 DEF Added, TypeKind
  <2> QED BY <1>2, <2>1 DEF AddElement
<1>a. ASSUME NEW k \in 1 .. Len(elements_)
      PROVE  /\ Added(t) /\ t = "member" /\ k = Innermost =>
                  elements_'[k] = [elements_[k] EXCEPT !.members_ = Append(@, Element(t, id))]
             /\ Added(t) /\ t = "inheritance" /\ k = Innermost =>
                  elements_'[k] = [elements_[k] EXCEPT !.parents_ = Append(@, [id |-> id, offset |-> 0])]
  BY <1>1, <1>2, <1>5, AddElementFiles
<1> HIDE DEF t, id, none
<1>i. PICK i : i = Innermost
  OBVIOUS
<1>10. ASSUME t \in {"member", "inheritance"}
       PROVE  /\ i \in 1 .. Len(elements_) /\ elements_[i] \in ElementRecord
              /\ elements_[i].members_ \in Seq(MemberRecord) /\ elements_[i].parents_ \in Seq(Parent)
              /\ Innermost' = i /\ CurrentElementType' # "none"
              /\ ~TypeTag(tag)
  <2>1. /\ i \in 1 .. Len(elements_) /\ elements_[i] \in ElementRecord
        /\ elements_[i].members_ \in Seq(MemberRecord) /\ elements_[i].parents_ \in Seq(Parent)
        /\ CurrentElementType # "none"
    BY <1>1, <1>5, <1>8, <1>10, <1>i, InnermostTyped
  <2>2. nested_elements_' = nested_elements_ /\ Innermost' = i
    BY <1>2, <1>3, <1>10, <1>i DEF Innermost
  <2>3. CurrentElementType' # "none"
    BY <1>3, <1>i, <2>1, <2>2 DEF CurrentElementType
  <2> QED BY <1>5, <1>10, <2>1, <2>2, <2>3, ElementOfMember
\* What AddElement files there.
<1>f. ASSUME t \in {"member", "inheritance"}
      PROVE  /\ t = "member" =>
                  elements_'[i] = [elements_[i] EXCEPT !.members_ = Append(@, Element(t, tag_id))]
             /\ t = "inheritance" => elements_'[i] =
                  [elements_[i] EXCEPT !.parents_ = Append(@, [id |-> tag_id, offset |-> 0])]
  <2>1. i \in 1 .. Len(elements_) /\ id = tag_id
    BY <1>5, <1>f, <1>10
  <2>2. Added(t) /\ i = Innermost
    BY <1>9, <1>i
  <2> QED BY <1>a, <2>1, <2>2
<1>11. CASE t = "member"
  <2> DEFINE m == Element("member", tag_id)
             ms == Append(elements_[i].members_, m)
  <2>1. elements_'[i] = [elements_[i] EXCEPT !.members_ = ms]
    BY <1>f, <1>11
  <2>2. elements_'[i].members_ = ms
    BY <1>10, <1>11, <2>1 DEF ElementRecord
  <2>3. m \in MemberRecord /\ m.id_ = tag_id
    BY <1>2 DEF Element, MemberRecord
  <2>4. ElementExactIn(m, none)
    BY ExactAtFirst DEF none
  <2> HIDE DEF m
  <2>5. ms # <<>> /\ ms[Len(ms)] = m
    BY <1>10, <1>11, <2>3, AppendProperties, EmptySeq
  <2>6. NewestMember' = Len(ms)
    BY <1>10, <1>11, <2>2 DEF NewestMember
  <2>7. ElementExact(elements_[Innermost].members_[NewestMember], Current)'
    <3>n. PICK n : n = Len(ms)
      OBVIOUS
    <3>1. ElementExactIn(elements_'[i].members_[n], dies'[D].attrs)
      BY <1>4, <2>2, <2>4, <2>5, <3>n
    <3>2. ElementExact(elements_[i].members_[n], D)'
      BY <3>1 DEF ElementExact, ElementExactIn, Holds, HoldsIn
    <3> QED BY <1>3, <1>10, <1>11, <2>6, <3>n, <3>2
  <2>8. tag = "DW_TAG_member"
    BY <1>5, <1>11
  <2> HIDE DEF ms
  <2> QED BY <1>3, <1>4, <1>9, <1>10, <1>11, <2>2, <2>3, <2>5, <2>6, <2>7, <2>8
          DEF CurrentRecord, t
<1>12. CASE t = "inheritance"
  <2> DEFINE q == [id |-> tag_id, offset |-> 0]
             ps == Append(elements_[i].parents_, q)
  <2>1. elements_'[i] = [elements_[i] EXCEPT !.parents_ = ps]
    BY <1>f, <1>12
  <2>2. elements_'[i].parents_ = ps
    BY <1>10, <1>12, <2>1 DEF ElementRecord
  <2>3. q \in Parent
    BY <1>2 DEF Parent
  <2>4. ParentExactIn(q, tag_id, none)
    BY ExactAtFirst DEF none
  <2> HIDE DEF q
  <2>5. ps # <<>> /\ ps[Len(ps)] = q
    BY <1>10, <1>12, <2>3, AppendProperties, EmptySeq
  <2>6. NewestParent' = Len(ps)
    BY <1>10, <1>12, <2>2 DEF NewestParent
  <2>7. ParentExact(elements_[Innermost].parents_[NewestParent], Current)'
    BY <1>3, <1>4, <1>10, <1>12, <2>2, <2>4, <2>5, <2>6
       DEF ParentExact, ParentExactIn, Holds, HoldsIn, Has
  <2>8. tag = "DW_TAG_inheritance"
    BY <1>5, <1>12
  <2> HIDE DEF ps
  <2> QED BY <1>3, <1>4, <1>9, <1>10, <1>12, <2>2, <2>5, <2>7, <2>8 DEF CurrentRecord, t
<1>13. CASE TypeTag(tag)
  <2>k. PICK k : k = Len(elements_) + 1
    OBVIOUS
  <2>1. Newest' = k /\ elements_'[k] = Element(t, tag_id) /\ elements_' # <<>>
    BY <1>1, <1>3, <1>13, <2>k, EmptySeq DEF Newest
  <2>2. elements_'[k].id_ = tag_id
    BY <2>1 DEF Element
  <2>3. ElementExactIn(elements_'[k], none)
    BY <2>1, ExactAtFirst DEF none
  <2>4. ElementExact(elements_[Newest], Current)'
    BY <1>3, <1>4, <2>1, <2>3 DEF ElementExact, ElementExactIn, Holds, HoldsIn
  <2>5. tag \notin {"DW_TAG_member", "DW_TAG_inheritance"}
    BY <1>13, ElementOfMember
  <2> QED BY <1>3, <1>4, <1>9, <2>1, <2>2, <2>4, <2>5 DEF CurrentRecord, t
<1> QED BY <1>5, <1>7, <1>11, <1>12, <1>13

LEMMA CurrentRecordAlways == Spec => []CurrentRecord
<1>1. Init => CurrentRecord
  BY DEF Init, CurrentRecord
<1>2. TypeOK /\ StackMirrorsOpen /\ TypesInOrder /\ CurrentRecord /\ [Next]_vars => CurrentRecord'
  <2> SUFFICES ASSUME TypeOK, StackMirrorsOpen, TypesInOrder, CurrentRecord, [Next]_vars
               PROVE  CurrentRecord'
    OBVIOUS
  <2>1. CASE ReadUnit \/ Return \/ EndOfAttributes \/ EndUnit \/ ReadNull
    <3>1. pc' # "attr"
      BY <2>1 DEF ReadUnit, Return, EndOfAttributes, EndUnit, ReadNull
    <3> QED BY <3>1 DEF CurrentRecord
  <2>2. CASE UNCHANGED vars
    <3>1. /\ Current' = Current /\ Innermost' = Innermost /\ Newest' = Newest
          /\ NewestMember' = NewestMember /\ NewestParent' = NewestParent
          /\ CurrentElementType' = CurrentElementType
      BY <2>2 DEF vars, Current, Innermost, Newest, NewestMember, NewestParent,
                  CurrentElementType
    <3>2. /\ pc' = pc /\ dies' = dies /\ elements_' = elements_
          /\ last_parsed_type_' = last_parsed_type_
      BY <2>2 DEF vars
    <3>3. /\ ElementExact(elements_[Newest], Current)' <=> ElementExact(elements_[Newest], Current)
          /\ ElementExact(elements_[Innermost].members_[NewestMember], Current)'
               <=> ElementExact(elements_[Innermost].members_[NewestMember], Current)
          /\ ParentExact(elements_[Innermost].parents_[NewestParent], Current)'
               <=> ParentExact(elements_[Innermost].parents_[NewestParent], Current)
          /\ Recorded(Current)' <=> Recorded(Current)
      BY <3>1, <3>2 DEF ElementExact, ParentExact, Holds, Has, Recorded
    <3> QED BY <3>1, <3>2, <3>3 DEF CurrentRecord
  <2>3. ASSUME Len(dies) < MaxDies, NEW tag_id \in Offset[Len(dies) + 1],
               NEW tag \in Tags, NEW c \in BOOLEAN, ReadDie(tag_id, tag, c)
        PROVE  CurrentRecord'
    BY <2>3, ReadDieRecords
  <2>4. ASSUME pc = "attr", NEW a \in Attributes, NEW v \in Datum[a][Current], ReadAttribute(a, v)
        PROVE  CurrentRecord'
    BY <2>4, ReadAttributeRecords
  <2> QED BY <2>1, <2>2, <2>3, <2>4 DEF Next
<1> QED BY <1>1, <1>2, TypeCorrect, StackFaithful, TypesComplete, PTL DEF Spec

\* Whatever was read before, and whatever the uninitialized last_parsed_type_ held: every
\* attribute of a type, member or base class that is recorded lands in its own record.
THEOREM AttributesLand == Spec => []CurrentDieExact
<1>1. CurrentRecord => CurrentDieExact
  BY CurrentRecordMeans
<1> QED BY <1>1, CurrentRecordAlways, PTL

================================================================================
