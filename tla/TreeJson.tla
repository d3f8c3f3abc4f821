-------------------------------- MODULE TreeJson -------------------------------
(***************************************************************************)
(* TreeBuilder::GenerateJson.  A document is the sequence of the members   *)
(* of the JSON object it writes, each a key and an object; an object is a  *)
(* function on the keys that are written.  Commas and brackets are left    *)
(* out; strings are escaped as the code does.                              *)
(*                                                                         *)
(* name_ is a pointer: Text has the characters it points at.               *)
(***************************************************************************)
EXTENDS TreeBuilder

CONSTANT Text

\* A byte of a name, as a reader of JSON takes it: "control" is one below the space, which
\* JSON forbids in a string, and "broken" one that is no part of a UTF-8 character.
Char == {"backslash", "quote", "control", "broken", "other"}

ASSUME TextAssumption == DOMAIN Text \subseteq Nat \ {0} /\ Range(Text) \subseteq Seq(Char)

\* A slip: only quotes are escaped.
EscapeQuotes(c) == IF c = "quote" THEN <<"backslash", c>> ELSE <<c>>

\* Control characters and broken ones are written as they are.
Escape(c) == IF c \in {"backslash", "quote"} THEN <<"backslash", c>> ELSE <<c>>

EscapeJsonString(str) ==
  LET escaped[k \in 0 .. Len(str)] ==
        IF k = 0 THEN <<>> ELSE escaped[k - 1] \o Escape(str[k])
  IN  escaped[Len(str)]

\* "none" and "unk" are written for what is not a type.
TypeName(type) ==
  CASE type = "none" -> "none"
    [] type = "array_type" -> "array"
    [] type = "class_type" -> "class"
    [] type = "enumerator_type" -> "enumerator"
    [] type = "member" -> "member"
    [] type = "pointer_type" -> "pointer"
    [] type = "structure_type" -> "structure"
    [] type = "typedef2" -> "typedef"
    [] type = "union_type" -> "union"
    [] type = "inheritance" -> "inheritance"
    [] type = "base_type" -> "base"
    [] type = "const_type" -> "const"
    [] OTHER -> "unk"

NameJson(name) == IF name = 0 THEN <<>> ELSE EscapeJsonString(Text[name])

\* What is zero, null or empty is not written.
NotZero(fields) == {key \in DOMAIN fields : fields[key] # 0}

\* A slip: a member is written like the rest, its offset only when it has one.
MemberJsonGeneric(m) ==
  Restrict([type_id |-> m.type_id_, name |-> NameJson(m.name_), offset |-> m.offset_],
           NotZero([type_id |-> m.type_id_, name |-> m.name_, offset |-> m.offset_]))

\* A slip: name_ is taken to be there.
MemberJsonNamed(m) ==
  Restrict([type_id |-> m.type_id_, name |-> NameJson(m.name_), offset |-> m.offset_],
           {"name", "offset"} \union NotZero([type_id |-> m.type_id_]))

\* Of a member; its offset is always written.
MemberJson(m) ==
  Restrict([type_id |-> m.type_id_, name |-> NameJson(m.name_), offset |-> m.offset_],
           {"offset"} \union NotZero([type_id |-> m.type_id_, name |-> m.name_]))

ElementJson(e) ==
  Restrict([type |-> TypeName(e.type_), type_id |-> e.type_id_, name |-> NameJson(e.name_),
            size |-> e.size_, count |-> e.count_, parents |-> e.parents_,
            members |-> [k \in DOMAIN e.members_ |-> MemberJson(e.members_[k])]],
           {"type"} \union
           NotZero([type_id |-> e.type_id_, name |-> e.name_, size |-> e.size_,
                    count |-> e.count_, parents |-> Len(e.parents_),
                    members |-> Len(e.members_)]))

GenerateJson ==
  [k \in 1 .. Len(elements_) |-> <<elements_[k].id_, ElementJson(elements_[k])>>]

================================================================================
