------------------------------ MODULE DwarfFormat ------------------------------
(***************************************************************************)
(* What DWARF 4 (doc/DWARF4.pdf, chapter 7) says a section looks like.     *)
(* Encoded(f): the bytes f.info and f.abbrev encode the DIEs f.dies.  It   *)
(* is stated about the places where things are:                            *)
(*                                                                         *)
(*   f.tables  tables of abbreviations, each a sequence of declarations,   *)
(*             and places, where each begins and where the last ends       *)
(*   declaration: [code, tag, children, specs, places], specs a sequence   *)
(*             of <<attribute, form>>, places of them                      *)
(*   f.units   [at, end, table, entries, places]                           *)
(*   entry:    [declaration, places]: where its number ends, and where     *)
(*             each value does; declaration is 0 for a null entry, and     *)
(*             none of the table for a number that is not in it            *)
(*   f.dies    [id, tag, children, parent, close, attrs, ends]: by offset, *)
(*             with the value of each attribute, where that value ends,    *)
(*             and where the list of children is closed                    *)
(*                                                                         *)
(* Places count from 0, as offsets do.                                     *)
(***************************************************************************)
EXTENDS Naturals, Sequences

CONSTANTS InfoAddress, StrAddress  \* where the sections are in memory

\* Figures 18, 20 and 21: what is not among these is "other".
TagCode ==
  [DW_TAG_array_type |-> 1, DW_TAG_class_type |-> 2, DW_TAG_enumeration_type |-> 4,
   DW_TAG_member |-> 13, DW_TAG_pointer_type |-> 15, DW_TAG_compile_unit |-> 17,
   DW_TAG_structure_type |-> 19, DW_TAG_typedef |-> 22, DW_TAG_union_type |-> 23,
   DW_TAG_inheritance |-> 28, DW_TAG_subrange_type |-> 33, DW_TAG_base_type |-> 36,
   DW_TAG_const_type |-> 38]
CodeOfAttribute ==
  [name |-> 3, byte_size |-> 11, count |-> 55, data_member_location |-> 56,
   type |-> 73, linkage_name |-> 110]
FormCode ==
  [addr |-> 1, block2 |-> 3, block4 |-> 4, data2 |-> 5, data4 |-> 6, data8 |-> 7,
   string |-> 8, block |-> 9, block1 |-> 10, data1 |-> 11, flag |-> 12, sdata |-> 13,
   strp |-> 14, udata |-> 15, ref_addr |-> 16, ref1 |-> 17, ref2 |-> 18, ref4 |-> 19,
   ref8 |-> 20, ref_udata |-> 21, sec_offset |-> 23, exprloc |-> 24,
   flag_present |-> 25, ref_sig8 |-> 32]
Octets ==
  [addr |-> 8, data1 |-> 1, data2 |-> 2, data4 |-> 4, data8 |-> 8, flag |-> 1,
   flag_present |-> 0, sec_offset |-> 4, ref1 |-> 1, ref2 |-> 2, ref4 |-> 4, ref8 |-> 8,
   ref_addr |-> 4, ref_sig8 |-> 8, strp |-> 4]
SizeOctets == [block1 |-> 1, block2 |-> 2, block4 |-> 4]
LebForms == {"udata", "sdata", "ref_udata"}
\* The forms of two classes; ref_addr is a reference from the beginning of the section.
ConstantForms == {"data1", "data2", "data4", "data8", "udata", "sdata"}
UnitReferenceForms == {"ref1", "ref2", "ref4", "ref8", "ref_udata"}

NameOf(code, codes) ==
  IF \E name \in DOMAIN codes : codes[name] = code
  THEN CHOOSE name \in DOMAIN codes : codes[name] = code ELSE "other"

Byte == 0 .. 255
Tags == DOMAIN TagCode \union {"other"}
Attributes == DOMAIN CodeOfAttribute
Forms == DOMAIN FormCode \union {"other"}

DeclarationLayout ==
  [code : Nat \ {0}, tag : Tags, children : BOOLEAN,
   specs : Seq((Attributes \union {"other"}) \X Forms), places : Seq(Nat)]
TableLayout == [declarations : Seq(DeclarationLayout), places : Seq(Nat)]
EntryLayout == [declaration : Nat, places : Seq(Nat)]
UnitLayout == [at : Nat, end : Nat, table : Nat, entries : Seq(EntryLayout), places : Seq(Nat)]
DieLayout ==
  [id : Nat, tag : Tags, children : BOOLEAN, parent : Nat, close : Nat,
   attrs : [Attributes -> SUBSET Nat], ends : [Attributes -> Nat]]

\* The places of n things one behind the other.
Laid(places, n, from, to) == Len(places) = n + 1 /\ \A i \in 1 .. n + 1 : places[i] \in from .. to

--------------------------------------------------------------------------------
(* Numbers. *)

LebAt(bytes, from, to) ==
  /\ from < to /\ to <= Len(bytes)
  /\ \A i \in from + 1 .. to - 1 : bytes[i] >= 128
  /\ bytes[to] < 128

LebValue(bytes, from, to) ==
  LET value[i \in from .. to] ==
        IF i = to THEN 0 ELSE (bytes[i + 1] % 128) + 128 * value[i + 1]
  IN  value[from]

LittleEndian(bytes, from, to) ==
  LET value[i \in from .. to] == IF i = to THEN 0 ELSE bytes[i + 1] + 256 * value[i + 1]
  IN  value[from]

--------------------------------------------------------------------------------
(* .debug_abbrev *)

SpecEncoded(bytes, spec, from, to) ==
  \E form_at \in from .. to :
    /\ LebAt(bytes, from, form_at) /\ LebValue(bytes, from, form_at) # 0
    /\ spec[1] = NameOf(LebValue(bytes, from, form_at), CodeOfAttribute)
    /\ LebAt(bytes, form_at, to)
    /\ spec[2] = NameOf(LebValue(bytes, form_at, to), FormCode)

HeadEncoded(bytes, d, from) ==
  \E tag_at, flag_at \in from .. d.places[1] :
    /\ LebAt(bytes, from, tag_at) /\ d.code = LebValue(bytes, from, tag_at)
    /\ LebAt(bytes, tag_at, flag_at)
    /\ d.tag = NameOf(LebValue(bytes, tag_at, flag_at), TagCode)
    /\ d.places[1] = flag_at + 1
    /\ bytes[flag_at + 1] = IF d.children THEN 1 ELSE 0

DeclarationEncoded(bytes, d, from, to) ==
  LET last == d.places[Len(d.specs) + 1] IN
  /\ Laid(d.places, Len(d.specs), from, to)
  /\ HeadEncoded(bytes, d, from)
  /\ \A j \in 1 .. Len(d.specs) :
       SpecEncoded(bytes, d.specs[j], d.places[j], d.places[j + 1])
  /\ to = last + 2 /\ bytes[last + 1] = 0 /\ bytes[last + 2] = 0

\* Members and base classes have no children, a base class has no name, and no
\* attribute occurs twice.
DeclarationSound(d) ==
  /\ d.tag \in {"DW_TAG_member", "DW_TAG_inheritance", "DW_TAG_subrange_type"} => ~d.children
  /\ \A j \in 1 .. Len(d.specs) :
       /\ d.tag = "DW_TAG_inheritance" =>
            d.specs[j][1] \in {"data_member_location", "type", "other"}
       /\ \A i \in 1 .. Len(d.specs) :
            (d.specs[i][1] = d.specs[j][1] /\ d.specs[i][1] # "other") => i = j

TableEncoded(bytes, table) ==
  LET count == Len(table.declarations) IN
  /\ Laid(table.places, count, 0, Len(bytes) - 1)
  /\ \A i \in 1 .. count :
       /\ DeclarationEncoded(bytes, table.declarations[i], table.places[i], table.places[i + 1])
       /\ DeclarationSound(table.declarations[i])
  /\ bytes[table.places[count + 1] + 1] = 0

--------------------------------------------------------------------------------
(* .debug_info *)

ValueAt(bytes, form, from, to) ==
  CASE form \in DOMAIN Octets -> to = from + Octets[form]
    [] form \in DOMAIN SizeOctets ->
         LET data == from + SizeOctets[form]
         IN  data <= to /\ to = data + LittleEndian(bytes, from, data)
    [] form \in {"block", "exprloc"} ->
         \E data \in from .. to :
           LebAt(bytes, from, data) /\ to = data + LebValue(bytes, from, data)
    [] form \in LebForms -> LebAt(bytes, from, to)
    [] form = "string" ->
         from < to /\ bytes[to] = 0 /\ \A i \in from + 1 .. to - 1 : bytes[i] # 0
    [] OTHER -> FALSE

\* The number that a value is, if it is one: no block, no expression, no signature,
\* nothing negative, and not the place of a list in another section.
NumberIn(bytes, form, from, to) ==
  CASE form \in LebForms ->
         IF form = "sdata" /\ bytes[to] >= 64 THEN {} ELSE {LebValue(bytes, from, to)}
    [] form \in (ConstantForms \union UnitReferenceForms \union {"ref_addr", "strp"})
                 \ LebForms ->
         {LittleEndian(bytes, from, to)}
    [] OTHER -> {}

\* Figure 20: a type is a reference, and a size, a count or an offset is a constant.
Meaning(bytes, a, form, from, to, unit) ==
  LET From(base) == {base + n : n \in NumberIn(bytes, form, from, to)}
      name == a \in {"name", "linkage_name"}
  IN
  CASE name /\ form = "string" -> {InfoAddress + from}
    [] name /\ form = "strp" -> From(StrAddress)
    [] a = "type" /\ form \in UnitReferenceForms -> From(unit)
    [] a = "type" /\ form = "ref_addr" -> From(0)
    [] a \in {"byte_size", "count", "data_member_location"} /\ form \in ConstantForms ->
         From(0)
    [] OTHER -> {}

\* What begins, what is open and what is closed: DIEs, and their lists of children.
DiesOf(f) == 1 .. Len(f.dies)
Begun(f, from, to) == {d \in DiesOf(f) : f.dies[d].id \in from .. to - 1}
Closed(f, from, to) == {d \in DiesOf(f) : f.dies[d].close \in from + 1 .. to}
OpenAt(f, place) ==
  {d \in DiesOf(f) : f.dies[d].children /\ f.dies[d].id < place /\ place < f.dies[d].close}
Innermost(opened) == {d \in opened : \A c \in opened : c <= d}

\* DIE d is what entry e says, which begins at from in unit u.
DieEncoded(f, u, e, declared, d, from) ==
  LET die == f.dies[d] IN
  /\ die.id = from /\ die.tag = declared.tag /\ die.children = declared.children
  /\ Innermost(OpenAt(f, from)) = IF die.parent = 0 THEN {} ELSE {die.parent}
  /\ from = u.places[1] <=> OpenAt(f, from) = {}
  /\ from = u.places[1] <=> die.tag = "DW_TAG_compile_unit"
  /\ \A j \in 1 .. Len(declared.specs) :
       LET a == declared.specs[j][1]
           form == declared.specs[j][2]
       IN  /\ ValueAt(f.info, form, e.places[j], e.places[j + 1])
           /\ a \in Attributes =>
                /\ die.attrs[a] = Meaning(f.info, a, form, e.places[j], e.places[j + 1], u.at)
                /\ die.ends[a] = e.places[j + 1]
  /\ \A a \in Attributes :
       (\A j \in 1 .. Len(declared.specs) : declared.specs[j][1] # a) =>
         die.attrs[a] = {} /\ die.ends[a] = 0

\* A null entry ends the innermost list of children, if one is open.
NullEncoded(f, u, e, from, to) ==
  /\ e.declaration = 0
  /\ Laid(e.places, 0, from, to) /\ to = e.places[1]
  /\ LebValue(f.info, from, to) = 0
  /\ from # u.places[1]
  /\ Begun(f, from, to) = {} /\ Closed(f, from, to) = Innermost(OpenAt(f, from))

DieEntryEncoded(f, u, e, from, to) ==
  LET declared == f.tables[u.table].declarations[e.declaration] IN
  /\ e.declaration \in 1 .. Len(f.tables[u.table].declarations)
  /\ Laid(e.places, Len(declared.specs), from, to) /\ to = e.places[Len(declared.specs) + 1]
  /\ LebValue(f.info, from, e.places[1]) = declared.code
  /\ Closed(f, from, to) = {}
  /\ \E d \in DiesOf(f) : Begun(f, from, to) = {d} /\ DieEncoded(f, u, e, declared, d, from)

\* Behind a number that stands for nothing, nothing is known.
UnknownEncoded(f, u, e, from, to) ==
  LET declarations == f.tables[u.table].declarations
      number == LebValue(f.info, from, e.places[1])
  IN
  /\ e.declaration > Len(declarations) /\ e.places[1] \in from .. to
  /\ number # 0 /\ \A i \in 1 .. Len(declarations) : declarations[i].code # number
  /\ Begun(f, from, to) = {} /\ Closed(f, from, to) = {}

EntryEncoded(f, u, e, from, to) ==
  /\ LebAt(f.info, from, e.places[1])
  /\ \/ NullEncoded(f, u, e, from, to)
     \/ DieEntryEncoded(f, u, e, from, to)
     \/ UnknownEncoded(f, u, e, from, to)

HeaderBytes == 11
HeaderEncoded(f, u) ==
  /\ u.end = u.at + LittleEndian(f.info, u.at, u.at + 4) + 4
  /\ LittleEndian(f.info, u.at + 4, u.at + 6) = 4
  /\ f.tables[u.table].places[1] = LittleEndian(f.info, u.at + 6, u.at + 10)
  /\ u.places[1] = u.at + HeaderBytes
  /\ Begun(f, u.at, u.places[1]) = {} /\ Closed(f, u.at, u.places[1]) = {}

UnitEncoded(f, u) ==
  LET count == Len(u.entries) IN
  /\ u.end <= Len(f.info) /\ u.table \in 1 .. Len(f.tables)
  /\ count > 0 /\ Laid(u.places, count, u.at + HeaderBytes, u.end)
  /\ HeaderEncoded(f, u)
  /\ \A k \in 1 .. count : EntryEncoded(f, u, u.entries[k], u.places[k], u.places[k + 1])
  /\ \A k \in 1 .. count : u.entries[k].declaration > Len(f.tables[u.table].declarations)
       => k = count
  /\ u.entries[count].declaration <= Len(f.tables[u.table].declarations)
       => u.places[count + 1] = u.end /\ OpenAt(f, u.end) = {}

Encoded(f) ==
  /\ f.info \in Seq(Byte) /\ f.abbrev \in Seq(Byte)
  /\ f.tables \in Seq(TableLayout) /\ f.units \in Seq(UnitLayout) /\ f.dies \in Seq(DieLayout)
  /\ \A c, d \in DiesOf(f) : c < d => f.dies[c].id < f.dies[d].id
  /\ \A d \in DiesOf(f) : HeaderBytes <= f.dies[d].id /\ f.dies[d].id < f.dies[d].close
  /\ \A t \in 1 .. Len(f.tables) : TableEncoded(f.abbrev, f.tables[t])
  /\ \A k \in 1 .. Len(f.units) :
       /\ UnitEncoded(f, f.units[k])
       /\ f.units[k].at = IF k = 1 THEN 0 ELSE f.units[k - 1].end
  /\ Len(f.info) = IF Len(f.units) = 0 THEN 0 ELSE f.units[Len(f.units)].end

================================================================================
