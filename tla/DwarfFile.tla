------------------------------- MODULE DwarfFile -------------------------------
(***************************************************************************)
(* class DwarfFile, byte by byte: how GetAllClasses finds the units, the   *)
(* abbreviation tables, the DIEs and their attributes in .debug_info and   *)
(* .debug_abbrev.  The loops of GetAllClasses and LoadAbbrevTags are the   *)
(* actions; pc says which one is running.                                  *)
(*                                                                         *)
(* Pointers are offsets in their section, from 0; a name is the address it *)
(* points to.  Nothing here checks a bound (the code has a TODO for that), *)
(* so the sections are those a compiler writes, or such sections cut off   *)
(* by what the code does detect.                                           *)
(***************************************************************************)
EXTENDS DieHandlers, Uleb128, FiniteSets

CONSTANTS
  Sections,     \* the files: their bytes, and in dies and complete what they say
  InfoAddress,  \* debug_info_ and debug_str_ in memory
  StrAddress,
  MaxDies       \* bound: DIEs in a file

VARIABLES
  file,               \* the file that is dumped
  pc,                 \* "unit" | "abbrevs" | "die" | "attr" | "returned" | "exited"
  info, info_bytes,   \* where the walk is in .debug_info, and what is left of it
  unit_hdr,           \* the header of the current unit
  compilation_unit_,  \* its abbreviations
  abbrev, abbrev_bytes  \* the same for .debug_abbrev

ASSUME SectionsAssumption ==
  Group = 7 /\ InfoAddress \in Nat /\ StrAddress \in Nat /\ MaxDies \in Nat

vars == <<elements_, nested_elements_, last_parsed_type_, file, pc, info, info_bytes,
          unit_hdr, compilation_unit_, abbrev, abbrev_bytes>>

--------------------------------------------------------------------------------
(* Dwarf32: the codes.  All tags that are not registered are alike here but the *)
(* root's, and all attributes that do not reach the builder.                    *)

Tag ==
  [DW_TAG_array_type |-> 1, DW_TAG_class_type |-> 2, DW_TAG_enumeration_type |-> 4,
   DW_TAG_member |-> 13, DW_TAG_pointer_type |-> 15, DW_TAG_compile_unit |-> 17,
   DW_TAG_structure_type |-> 19, DW_TAG_typedef |-> 22, DW_TAG_union_type |-> 23,
   DW_TAG_inheritance |-> 28, DW_TAG_subrange_type |-> 33, DW_TAG_base_type |-> 36,
   DW_TAG_const_type |-> 38]

AttributeCode ==
  [name |-> 3, byte_size |-> 11, count |-> 55, data_member_location |-> 56,
   type |-> 73, linkage_name |-> 110]

Form ==
  <<"addr", "", "block2", "block4", "data2", "data4", "data8", "string", "block",
    "block1", "data1", "flag", "sdata", "strp", "udata", "ref_addr", "ref1", "ref2",
    "ref4", "ref8", "ref_udata", "indirect", "sec_offset", "exprloc",
    "flag_present", "ref_sig8">>

Named(code, codes) ==
  IF \E name \in DOMAIN codes : codes[name] = code
  THEN CHOOSE name \in DOMAIN codes : codes[name] = code ELSE "other"

FormOf(code) == IF code \in DOMAIN Form THEN Form[code] ELSE "other"

--------------------------------------------------------------------------------
(* Reading memory. *)

\* size_t, scaled down: a count that drops below zero is a huge one.
SizeBound == 1073741824  \* 2 ^ 30
Minus(count, n) == ((count + SizeBound) - n) % SizeBound

\* *reinterpret_cast<uintN_t*>(at), N = 8 * size, on a little-endian machine
Unsigned(at, size) ==
  LET word[i \in at .. at + size] ==
        IF i = at + size THEN 0 ELSE file.info[i + 1] + 256 * word[i + 1]
  IN  word[at]

\* while (*data) data++
ZeroFrom(bytes, at) == Min({z \in at .. Len(bytes) - 1 : bytes[z + 1] = 0})

Bytes ==
  [addr |-> 8, data1 |-> 1, data2 |-> 2, data4 |-> 4, data8 |-> 8, flag |-> 1,
   flag_present |-> 0, sec_offset |-> 4, ref1 |-> 1, ref2 |-> 2, ref4 |-> 4,
   ref8 |-> 8, ref_addr |-> 4, ref_sig8 |-> 8, strp |-> 4]

BlockBytes == [block1 |-> 1, block2 |-> 2, block4 |-> 4]

Number == ULEB128(file.info, info, info_bytes)

\* How far PassData moves info; it reports a form it does not know and stays.
PassData(form) ==
  CASE form \in DOMAIN Bytes -> Bytes[form]
    [] form \in DOMAIN BlockBytes -> BlockBytes[form] + Unsigned(info, BlockBytes[form])
    [] form \in {"block", "exprloc"} -> Number.length + Number.result
    [] form \in {"sdata", "udata", "ref_udata"} -> Number.length
    [] form = "string" -> ZeroFrom(file.info, info) - info + 1
    [] OTHER -> 0

\* The value of an attribute and how far info moves.  Here a flag_present has a
\* byte, and an expression is its length.
DataBytes ==
  [data1 |-> 1, ref1 |-> 1, flag_present |-> 1, data2 |-> 2, ref2 |-> 2,
   data4 |-> 4, ref4 |-> 4, ref_addr |-> 4, sec_offset |-> 4,
   data8 |-> 8, ref8 |-> 8, ref_sig8 |-> 8]
DataForms == DOMAIN DataBytes \union {"sdata", "udata", "ref_udata", "indirect", "exprloc"}

FormDataValue(form) ==
  CASE form \in DOMAIN DataBytes ->
         [value |-> Unsigned(info, DataBytes[form]), length |-> DataBytes[form]]
    [] form = "exprloc" ->
         [value |-> Number.result, length |-> Number.length + Number.result]
    [] OTHER -> [value |-> Number.result, length |-> Number.length]

FormStringValue(form) ==
  CASE form = "strp" -> [value |-> StrAddress + Unsigned(info, 4), length |-> 4]
    [] form = "string" -> [value |-> InfoAddress + info,
                           length |-> ZeroFrom(file.info, info) - info + 1]
    [] OTHER -> [value |-> 0, length |-> 0]

Names == {"name", "linkage_name"}

\* A slip: references stay relative to their unit.
AttributeValueInUnit(a, form) ==
  IF a \in Names THEN FormStringValue(form) ELSE FormDataValue(form)

\* References are made absolute.
AttributeValue(a, form) ==
  IF a \in Names THEN FormStringValue(form)
  ELSE LET datum == FormDataValue(form) IN
       IF a = "type" /\ form # "ref_addr"
       THEN [datum EXCEPT !.value = @ + unit_hdr] ELSE datum

--------------------------------------------------------------------------------
Advance(n) ==
  /\ info' = info + n
  /\ info_bytes' = Minus(info_bytes, n)

(* The packed header: unit_length, version, abbrev_offset, address_size. *)
HeaderBytes == 11
info_end == unit_hdr + Unsigned(unit_hdr, 4) + 4
\* A slip: the header is not packed, abbrev_offset is aligned.
abbrev_offset_aligned == Unsigned(info + 8, 4)
abbrev_offset == Unsigned(info + 6, 4)

Init ==
  /\ BuilderInit
  /\ file \in Sections
  /\ pc = "unit"
  /\ info = 0 /\ info_bytes = Len(file.info)
  /\ unit_hdr = 0
  /\ compilation_unit_ = <<>>
  /\ abbrev = 0 /\ abbrev_bytes = 0

Stop(how) ==
  /\ pc' = how
  /\ UNCHANGED <<builder, file, info, info_bytes, unit_hdr, abbrev, abbrev_bytes>>

\* while (info_bytes > 0)
EndOfInfo ==
  /\ pc = "unit" /\ info_bytes = 0
  /\ Stop("returned")
  /\ UNCHANGED compilation_unit_

StartUnit ==
  /\ pc = "unit" /\ info_bytes # 0
  /\ unit_hdr' = info
  /\ Advance(HeaderBytes)
  /\ abbrev' = abbrev_offset
  /\ abbrev_bytes' = Minus(Len(file.abbrev), abbrev_offset)
  /\ pc' = "abbrevs"
  /\ UNCHANGED <<builder, file>>

\* A slip: compilation_unit_ keeps the abbreviations of the last unit.
ReadUnitKeepingAbbrevs == StartUnit /\ UNCHANGED compilation_unit_

ReadUnit == StartUnit /\ compilation_unit_' = <<>>

\* One turn of LoadAbbrevTags.  The bytes of the attribute list are not counted off
\* abbrev_bytes: up to its first zero byte they are skipped one by one.
Abbreviation == ULEB128(file.abbrev, abbrev, abbrev_bytes)

LoadAbbrevTag ==
  /\ pc = "abbrevs" /\ abbrev_bytes # 0
  /\ Abbreviation.result \notin DOMAIN compilation_unit_ \union {0}
  /\ LET left == Minus(abbrev_bytes, Abbreviation.length)
         type == ULEB128(file.abbrev, abbrev + Abbreviation.length, left)
         has_children == abbrev + Abbreviation.length + type.length
         list_bytes == Minus(left, type.length + 1)
         ptr == has_children + 1
         section == [type |-> Named(type.result, Tag),
                     has_children |-> file.abbrev[has_children + 1] # 0, ptr |-> ptr]
     IN  /\ compilation_unit_' =
              [n \in DOMAIN compilation_unit_ \union {Abbreviation.result} |->
                IF n = Abbreviation.result THEN section ELSE compilation_unit_[n]]
         /\ abbrev' = 2 + IF list_bytes = 0 THEN ptr ELSE ZeroFrom(file.abbrev, ptr)
         /\ abbrev_bytes' = Minus(list_bytes, 2)
  /\ UNCHANGED <<builder, file, pc, info, info_bytes, unit_hdr>>

EndOfAbbrevs ==
  /\ pc = "abbrevs"
  /\ abbrev_bytes = 0 \/ Abbreviation.result = 0
  /\ pc' = "die"
  /\ UNCHANGED <<builder, file, info, info_bytes, unit_hdr, compilation_unit_,
                 abbrev, abbrev_bytes>>

DuplicateAbbrev ==
  /\ pc = "abbrevs" /\ abbrev_bytes # 0
  /\ Abbreviation.result \in DOMAIN compilation_unit_
  /\ compilation_unit_' = <<>>
  /\ Stop("returned")

\* while (info < info_end)
EndUnit ==
  /\ pc = "die" /\ info >= info_end
  /\ pc' = "unit"
  /\ UNCHANGED <<builder, file, info, info_bytes, unit_hdr, compilation_unit_,
                 abbrev, abbrev_bytes>>

ReadNull ==
  /\ pc = "die" /\ info < info_end
  /\ Number.result = 0
  /\ EndOfChildren
  /\ Advance(Number.length)
  /\ UNCHANGED <<file, pc, unit_hdr, compilation_unit_, abbrev, abbrev_bytes>>

ReadDie ==
  /\ pc = "die" /\ info < info_end
  /\ Number.result \in DOMAIN compilation_unit_
  /\ LET section == compilation_unit_[Number.result] IN
     /\ RegisterNewTag(section.type, info, section.has_children)
     /\ abbrev' = section.ptr
     /\ abbrev_bytes' = Minus(Len(file.abbrev), section.ptr)
  /\ Advance(Number.length)
  /\ pc' = "attr"
  /\ UNCHANGED <<file, unit_hdr, compilation_unit_>>

UnknownAbbrev ==
  /\ pc = "die" /\ info < info_end
  /\ Number.result \notin DOMAIN compilation_unit_ \union {0}
  /\ pc' = "returned"
  /\ Advance(Number.length)
  /\ UNCHANGED <<builder, file, unit_hdr, compilation_unit_, abbrev, abbrev_bytes>>

\* The attribute and form codes at abbrev.
Attr == ULEB128(file.abbrev, abbrev, abbrev_bytes)
AttrForm == ULEB128(file.abbrev, abbrev + Attr.length, Minus(abbrev_bytes, Attr.length))
EndOfList == Attr.result = 0 /\ AttrForm.result = 0
AttrName == Named(Attr.result, AttributeCode)

NextAttribute ==
  /\ abbrev' = abbrev + Attr.length + AttrForm.length
  /\ abbrev_bytes' = Minus(abbrev_bytes, Attr.length + AttrForm.length)
  /\ UNCHANGED <<file, unit_hdr, compilation_unit_>>

ReadAttribute ==
  /\ pc = "attr" /\ ~EndOfList
  /\ AttrName \in Attribute
  /\ AttrName \in Names \/ FormOf(AttrForm.result) \in DataForms
  /\ LET datum == AttributeValue(AttrName, FormOf(AttrForm.result)) IN
     /\ LogDwarfInfo(AttrName, datum.value)
     /\ Advance(datum.length)
  /\ NextAttribute
  /\ UNCHANGED pc

SkipAttribute ==
  /\ pc = "attr" /\ ~EndOfList
  /\ AttrName \notin Attribute
  /\ Advance(PassData(FormOf(AttrForm.result)))
  /\ NextAttribute
  /\ UNCHANGED <<builder, pc>>

\* exit(1): FormDataValue has no use for the form.
BadForm ==
  /\ pc = "attr" /\ ~EndOfList
  /\ AttrName \in Attribute \ Names /\ FormOf(AttrForm.result) \notin DataForms
  /\ Stop("exited")
  /\ UNCHANGED compilation_unit_

EndOfAttributes ==
  /\ pc = "attr" /\ EndOfList
  /\ pc' = "die"
  /\ NextAttribute
  /\ UNCHANGED <<builder, info, info_bytes>>

Next ==
  \/ EndOfInfo \/ ReadUnit
  \/ LoadAbbrevTag \/ EndOfAbbrevs \/ DuplicateAbbrev
  \/ EndUnit \/ ReadNull \/ ReadDie \/ UnknownAbbrev
  \/ ReadAttribute \/ SkipAttribute \/ BadForm \/ EndOfAttributes

\* One thread that waits for nothing: it takes its next step.
Spec == Init /\ [][Next]_vars /\ WF_vars(Next)

--------------------------------------------------------------------------------
Done == pc \in {"returned", "exited"}

TypeOK ==
  /\ BuilderTypeOK
  /\ file \in Sections
  /\ pc \in {"unit", "abbrevs", "die", "attr", "returned", "exited"}
  /\ info \in 0 .. Len(file.info) /\ unit_hdr \in 0 .. Len(file.info)
  /\ abbrev \in 0 .. Len(file.abbrev) /\ abbrev_bytes \in 0 .. Len(file.abbrev)
  /\ DOMAIN compilation_unit_ \subseteq Nat
  /\ \A n \in DOMAIN compilation_unit_ :
       compilation_unit_[n] \in [type : DOMAIN Tag \union {"other"}, has_children : BOOLEAN,
                                 ptr : 1 .. Len(file.abbrev)]

\* Every DIE of a complete section is read and the program comes to its end.
EveryDieRead ==
  file.complete => <>(pc = "returned" /\ info = Len(file.info))

(***************************************************************************)
(* The walk over the DIEs the section says it has: what of it lies before  *)
(* info has been read.                                                     *)
(***************************************************************************)
ReadAt(f, place) == {d \in DOMAIN f.dies : f.dies[d].id < place}
OpenAt(f, place) ==
  {d \in ReadAt(f, place) : f.dies[d].children /\ place < f.dies[d].close}

DiesAt(f, place) ==
  [d \in 1 .. Cardinality(ReadAt(f, place)) |->
    LET die == f.dies[d] IN
    [id |-> die.id, tag |-> die.tag, children |-> die.children, parent |-> die.parent,
     attrs |-> [a \in Attribute |-> IF die.ends[a] <= place THEN die.attrs[a] ELSE {}]]]

\* The members of a set of numbers, the least one first.
UpTo(S, d) == {c \in S : c <= d}
Ordered(S) ==
  [k \in 1 .. Cardinality(S) |-> CHOOSE d \in S : Cardinality(UpTo(S, d)) = k]

walk_dies == DiesAt(file, info)
walk_open == Ordered(OpenAt(file, info))
walk_pc ==
  CASE pc = "abbrevs" \/ (pc = "die" /\ info = unit_hdr + HeaderBytes) -> "root"
    [] pc = "exited" -> "returned"
    [] OTHER -> pc

AllTags == DOMAIN Tag \union {"other"}
Having(d) == {f \in Sections : d <= Len(f.dies)}
DieOffsets == [d \in 1 .. MaxDies |-> {f.dies[d].id : f \in Having(d)}]
AllData ==
  [a \in Attribute |-> [d \in 1 .. MaxDies |-> UNION {f.dies[d].attrs[a] : f \in Having(d)}]]

Walk == INSTANCE DieWalk WITH
  Tags <- AllTags, Nesting <- AllTags \X AllTags, Attributes <- Attribute,
  Offset <- DieOffsets, Datum <- AllData,
  MaxAttrs <- MaxDies * Cardinality(Attribute), Padding <- TRUE,
  pc <- walk_pc, dies <- walk_dies, open <- walk_open

\* Whatever the forms, the sizes and the tables, the calls to the builder are those
\* of a walk over exactly the DIEs that the section encodes, with the values it
\* encodes: references absolute, numbers of every width, the abbreviations of the
\* DIE's own unit.
WalksItsDies == Walk!Spec

================================================================================
