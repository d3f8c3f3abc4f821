----------------------------- MODULE MCObjectSize ------------------------------
(***************************************************************************)
(* Trees as a walk leaves them: types in the order of their ids, with      *)
(* placeholders in between; classes inside classes, used once and twice,   *)
(* members without a name, and static members of the class they are in.    *)
(***************************************************************************)
EXTENDS ObjectSize

\* Every string of three characters that a reader accepts, and some that it may refuse.
Chars == <<"other", "backslash", "quote">>
MCText ==
  [n \in 1 .. 27 |-> [k \in 1 .. 3 |-> Chars[(((n - 1) \div (3 ^ (k - 1))) % 3) + 1]]]
  \o << <<"other", "control">>, <<"control", "quote">>, <<"broken">>,
        <<"backslash", "broken", "control">> >>

Typed(type, id, name, size, members) ==
  [Element(type, id) EXCEPT !.name_ = name, !.size_ = size, !.members_ = members]
Member(type_id, offset, name) ==
  [Element("member", 1) EXCEPT !.type_id_ = type_id, !.offset_ = offset, !.name_ = name]

None(name) == [Element("none", 0) EXCEPT !.name_ = name]
Integer == Typed("base_type", 5, 1, 4, <<>>)
Pointer == [Typed("pointer_type", 6, 0, 8, <<>>) EXCEPT !.type_id_ = 10]
X == Member(5, 8, 1)

\* The three types 10, 20 and 30, where 20 and 30 may use those before them.
Outer ==
  {<<X>>, <<X, Member(6, 16, 2)>>, <<Member(99, 0, 1)>>, <<Member(5, 0, 0)>>,
   <<X, Member(10, 0, 1)>>}
Middle ==
  {<<Member(10, offset, name)>> : offset \in {0, 8}, name \in {0, 1}}
  \union {<<Member(10, 0, 1), Member(10, 16, 1)>>, <<X>>, <<>>}
Inner ==
  {<<Member(type, offset, 1)>> : type \in {10, 20}, offset \in {0, 8}}
  \union {<<Member(20, 0, 1), Member(10, 32, 1)>>, <<>>,
          <<Member(20, 8, 1), Member(30, 0, 1)>>}

MCTrees ==
  {<<Typed("class_type", 10, name, 16, <<Member(5, 0, name)>>)>> : name \in DOMAIN MCText}
  \union
  {<<None(name), Integer, Typed("class_type", 10, 2, 16, <<X, Member(6, 8, member)>>)>> :
     name \in 26 .. 31, member \in {1, 29, 31}}
  \union
  {<<Integer, Pointer, Typed("class_type", 10, 1, 16, a), None(0), Typed(type, 20, 2, 16, b),
     None(3), Typed("class_type", 30, 3, size, c)>> :
     a \in Outer, b \in Middle, c \in Inner,
     type \in {"class_type", "structure_type"}, size \in {16, 24}}

MCGarbage == {"none"}

================================================================================
