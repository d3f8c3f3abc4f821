------------------------------- MODULE ObjectSize ------------------------------
(***************************************************************************)
(* utils/find_object_size.py, which reads the JSON and prints the classes  *)
(* of one size with their members, down to the fourth level.  Its calls of *)
(* dump_members are a stack, because they change the members in place.     *)
(***************************************************************************)
EXTENDS TreeJson

CONSTANTS
  Trees,      \* what GetAllClasses may have left in elements_
  class_size  \* the second argument

\* A name is null, or points to characters.
NamesHaveText(tree) ==
  \A k \in DOMAIN tree :
    {tree[k].name_} \union {m.name_ : m \in Range(tree[k].members_)} \subseteq {0} \union DOMAIN Text

ASSUME TreesAssumption == \A tree \in Trees : WalkedTree(tree) /\ NamesHaveText(tree)

VARIABLES
  data,     \* the dictionary, by key
  todo,     \* the keys that data.values() has not come to yet, in any order
  stack,    \* the calls of dump_members, the innermost last
  printed,  \* the classes printed, each a key and a name
  line,     \* the line printed last for a member, or NoLine
  moved,    \* history: the members that have been moved from their own offset
  status    \* "running", "done", or how it ended: "unparsable", "KeyError"

script == <<data, todo, stack, printed, line, moved, status>>
vars == <<builder, script>>

NoLine == [offset |-> 0, place |-> 0, fresh |-> TRUE, type_name |-> <<>>]

--------------------------------------------------------------------------------
(* ujson.loads. *)

\* What a reader of JSON makes of the characters between two quotes: after a backslash a
\* quote or a backslash means itself, and anything else another character.  stop is set
\* where the string ends.
ReadChar(r, c) ==
  CASE r.stop -> [r EXCEPT !.rest = TRUE]
    [] ~r.stop /\ r.escaped ->
         [r EXCEPT !.escaped = FALSE,
                   !.text = Append(@, IF c \in {"backslash", "quote"} THEN c ELSE "escape")]
    [] ~r.stop /\ ~r.escaped /\ c = "backslash" -> [r EXCEPT !.escaped = TRUE]
    [] ~r.stop /\ ~r.escaped /\ c = "quote" -> [r EXCEPT !.stop = TRUE]
    [] OTHER -> [r EXCEPT !.text = Append(@, c)]

NothingRead == [text |-> <<>>, escaped |-> FALSE, stop |-> FALSE, rest |-> FALSE]

ReadString(escaped) ==
  LET characters == Append(escaped, "quote")
      read[k \in 0 .. Len(characters)] ==
        IF k = 0 THEN NothingRead ELSE ReadChar(read[k - 1], characters[k])
  IN  read[Len(characters)]

Named(o) == "name" \in DOMAIN o
Has(o, key) == key \in DOMAIN o

ReadObject(o) == IF Named(o) THEN [o EXCEPT !["name"] = ReadString(@).text] ELSE o

\* The characters a reader does not accept: broken ones always, and those that JSON forbids
\* if it is strict.
Refusals == {{"broken"}, {"broken", "control"}}

WholeString(read, refused) == read.stop /\ ~read.rest /\ Range(read.text) \cap refused = {}
WholeObject(o, refused) == Named(o) => WholeString(ReadString(o["name"]), refused)

Members(o) == IF Has(o, "members") THEN o["members"] ELSE <<>>

Parsable(document, refused) ==
  \A k \in DOMAIN document :
    LET o == document[k][2] IN
    /\ WholeObject(o, refused)
    /\ \A j \in DOMAIN Members(o) : WholeObject(Members(o)[j], refused)

\* The last of several objects with one key counts.
Loads(document) ==
  LET keys == {document[k][1] : k \in DOMAIN document}
      Object(key) ==
        document[CHOOSE k \in DOMAIN document :
                   /\ document[k][1] = key
                   /\ \A j \in DOMAIN document : document[j][1] = key => j <= k][2]
      Read(o) ==
        IF Has(o, "members")
        THEN [ReadObject(o) EXCEPT !["members"] =
                [j \in DOMAIN @ |-> ReadObject(@[j])]]
        ELSE ReadObject(o)
  IN  [key \in keys |-> Read(Object(key))]

Init ==
  /\ elements_ \in Trees /\ nested_elements_ = <<>> /\ last_parsed_type_ \in Garbage
  /\ \E refused \in Refusals :
       \/ /\ Parsable(GenerateJson, refused)
          /\ data = Loads(GenerateJson) /\ status = "running"
       \/ ~Parsable(GenerateJson, refused) /\ data = <<>> /\ status = "unparsable"
  /\ todo = DOMAIN data
  /\ stack = <<>>
  /\ printed = {} /\ line = NoLine /\ moved = {}

--------------------------------------------------------------------------------
\* The name of a type, or its number.  (No type is written as "pointer_type".)
get_type_name(id) ==
  CASE id \in DOMAIN data /\ Named(data[id]) -> data[id]["name"]
    [] id \in DOMAIN data /\ ~Named(data[id]) /\ data[id]["type"] = "pointer_type" ->
         Append(data[data[id]["type_id"]]["name"], "*")
    [] OTHER -> <<"#", id>>

get_members(id) == IF id \in DOMAIN data THEN Members(data[id]) ELSE <<>>

Wanted(o) ==
  /\ o["type"] \in {"class", "struct"}
  /\ Has(o, "size") /\ o["size"] = class_size
  /\ Named(o)

\* dump_members; place and fresh are histories: the sum of the offsets as they were
\* written, and whether no member on the way had been moved before.
Call(key, base, place, fresh) ==
  [type |-> key, next |-> 1, base |-> base, place |-> place, fresh |-> fresh]

NextClass ==
  /\ status = "running" /\ stack = <<>>
  /\ \E key \in todo :
       /\ todo' = todo \ {key}
       /\ \/ ~Wanted(data[key]) /\ UNCHANGED <<stack, printed>>
          \/ /\ Wanted(data[key])
             /\ printed' = printed \union {<<key, data[key]["name"]>>}
             /\ stack' = IF Has(data[key], "members") THEN <<Call(key, 0, 0, TRUE)>> ELSE <<>>
  /\ UNCHANGED <<builder, data, line, moved, status>>

\* The test of deep_size.
MaxLevel == 4

Frame == stack[Len(stack)]
FrameMembers == data[Frame.type]["members"]

\* A slip: base_offset is forgotten.
MovedByNothing(o, base) == o

MovedBy(o, base) == [o EXCEPT !["offset"] = @ + base]

\* The offset as the dump has it.
Written(key, k) ==
  CHOOSE n \in {elements_[e].members_[k].offset_ :
                  e \in {j \in DOMAIN elements_ : elements_[j].id_ = key}} : TRUE

\* One turn of the loop over the members.
NextMember ==
  /\ status = "running" /\ stack # <<>> /\ Frame.next <= Len(FrameMembers)
  /\ LET k == Frame.next
         member == MovedBy(FrameMembers[k], Frame.base)
         inner == IF Has(member, "type_id") THEN get_members(member["type_id"]) ELSE <<>>
         place == Frame.place + Written(Frame.type, k)
         fresh == Frame.fresh /\ <<Frame.type, k>> \notin moved
         after == [stack EXCEPT ![Len(stack)].next = k + 1]
     IN
     /\ data' = [data EXCEPT ![Frame.type]["members"][k] = member]
     /\ moved' = IF Frame.base = 0 THEN moved ELSE moved \union {<<Frame.type, k>>}
     /\ \/ ~Named(member) /\ status' = "KeyError" /\ UNCHANGED <<stack, line>>
        \/ /\ Named(member)
           /\ line' = [offset |-> member["offset"], place |-> place, fresh |-> fresh,
                       type_name |-> IF Has(member, "type_id")
                                     THEN get_type_name(member["type_id"]) ELSE <<"unk">>]
           /\ stack' = IF inner # <<>> /\ Len(stack) < MaxLevel
                       THEN Append(after, Call(member["type_id"], member["offset"], place, fresh))
                       ELSE after
           /\ UNCHANGED status
  /\ UNCHANGED <<builder, todo, printed>>

\* A slip: the call that main made is never left.
EndOfMembersInner ==
  /\ status = "running" /\ Len(stack) > 1 /\ Frame.next > Len(FrameMembers)
  /\ stack' = Front(stack)
  /\ UNCHANGED <<builder, data, todo, printed, line, moved, status>>

EndOfMembers ==
  /\ status = "running" /\ stack # <<>> /\ Frame.next > Len(FrameMembers)
  /\ stack' = Front(stack)
  /\ UNCHANGED <<builder, data, todo, printed, line, moved, status>>

EndOfData ==
  /\ status = "running" /\ stack = <<>> /\ todo = {}
  /\ status' = "done"
  /\ UNCHANGED <<builder, data, todo, stack, printed, line, moved>>

Next == NextClass \/ NextMember \/ EndOfMembers \/ EndOfData

Spec == Init /\ [][Next]_vars /\ WF_vars(Next)

--------------------------------------------------------------------------------
\* Whatever the script changes, every member keeps an offset to add to.
TypeOK ==
  /\ BuilderTypeOK
  /\ \A key \in DOMAIN data : \A k \in DOMAIN Members(data[key]) :
       Has(Members(data[key])[k], "offset")
  /\ todo \subseteq DOMAIN data /\ Len(stack) <= MaxLevel
  /\ \A n \in DOMAIN stack : stack[n].type \in DOMAIN data
  /\ status \in {"running", "done", "unparsable", "KeyError"}

\* An offset is the member's own added to those of the members it is in exactly when none
\* of them, nor the member, had been moved before, printed below a base other than 0: the
\* script adds in place, so a type used twice away from 0 is shown ever further away.
OffsetsExactOnce == line.fresh <=> line.offset = line.place

\* The types with a known size (0 is not) and a name.
Sized(types) ==
  {<<e.id_, Text[e.name_]>> :
     e \in {x \in Range(elements_) :
             x.type_ \in types /\ x.size_ = class_size /\ x.size_ # 0 /\ x.name_ # 0}}

\* Some name of the dump, be it a placeholder's, has one of the characters.
NamesHave(chars) ==
  \E e \in Range(elements_) :
    \E name \in ({e.name_} \union {m.name_ : m \in Range(e.members_)}) \ {0} :
      Range(Text[name]) \cap chars # {}

\* Quotes and backslashes never cost the dump, control characters may and broken ones do,
\* in any name, one that the script never looks at too.  A dump that is read gives, in
\* whatever order the dictionary is gone through and however many placeholders share the
\* key 0, the classes of the tree.
FindsItsClasses ==
  /\ status = "unparsable" => NamesHave({"control", "broken"})
  /\ NamesHave({"broken"}) => status = "unparsable"
  /\ status = "done" => printed = Sized({"class_type"})

\* The types whose members are shown: those of the classes found, and inside.
Inside(ids) ==
  {m.type_id_ : m \in UNION {Range(e.members_) : e \in {x \in Range(elements_) : x.id_ \in ids}}}
Shown ==
  LET found == {c[1] : c \in Sized({"class_type"})} IN
  found \union Inside(found) \union Inside(Inside(found)) \union Inside(Inside(Inside(found)))
AllNamed ==
  \A e \in Range(elements_) : e.id_ \in Shown => \A m \in Range(e.members_) : m.name_ # 0

\* The script ends with all printed when every member it comes to has a name; one
\* anonymous union within four levels of a class found ends it with a KeyError.
EndsOnUnnamed ==
  /\ status = "done" => AllNamed
  /\ status = "KeyError" => ~AllNamed

\* It ends, although the members of a type may be of that type again.
Ends == <>(status # "running")

\* What the script asks for: "struct" is a type of the dump.
StructsFound == status = "done" => Sized({"structure_type"}) \subseteq printed

================================================================================
