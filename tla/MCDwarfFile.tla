------------------------------ MODULE MCDwarfFile ------------------------------
(***************************************************************************)
(* Files for DwarfFile: every form where a compiler may use it, the shapes *)
(* of units and tables, and the ways in which the walk ends early.         *)
(***************************************************************************)
EXTENDS DwarfSections, TLC

Encoding == INSTANCE DwarfEncoding
File(tables, units) == Encoding!File(tables, units)
Null == Encoding!Null

MaskedShift(byte, shift) == byte * 2 ^ ((shift * Group) % Width)

NameForms == {"string", "strp"}
NumberForms == {"data1", "data2", "data4", "data8", "udata", "sdata"}
ReferenceForms == {"ref1", "ref2", "ref4", "ref8", "ref_udata", "ref_addr"}
SkippedForms == NameForms \union NumberForms \union ReferenceForms \union
  {"addr", "block", "block1", "block2", "block4", "exprloc", "sec_offset", "flag",
   "flag_present"}

Declares(code, tag, children, specs) ==
  [code |-> code, tag |-> tag, children |-> children, specs |-> specs]
Die(abbreviation, values) == [abbreviation |-> abbreviation, values |-> values]

Root(name, skipped) ==
  Declares(1, "DW_TAG_compile_unit", TRUE, <<<<"name", name>>, <<"other", skipped>>>>)
Struct(name, size) ==
  Declares(2, "DW_TAG_structure_type", TRUE, <<<<"name", name>>, <<"byte_size", size>>>>)
Base(size, name) ==
  Declares(3, "DW_TAG_base_type", FALSE, <<<<"byte_size", size>>, <<"name", name>>>>)
Scope == Declares(4, "other", TRUE, <<<<"linkage_name", "strp">>>>)
\* Two bytes in a ULEB128, as are the numbers above 127 below.
Member(reference, skipped, location) ==
  Declares(130, "DW_TAG_member", FALSE,
    <<<<"type", reference>>, <<"other", skipped>>,
      <<"data_member_location", location>>, <<"name", "string">>>>)
Inheritance(location) ==
  Declares(131, "DW_TAG_inheritance", FALSE,
    <<<<"type", "ref4">>, <<"data_member_location", location>>>>)

\* struct { member }; base
OneUnit(name, size, reference, location, skipped) ==
  LET root == Root(name, skipped)
      struct == Struct(name, size)
      member == Member(reference, skipped, location)
      base == Base(size, name)
  IN  File(<<<<root, struct, member, base>>>>,
           <<<<1, <<Die(root, <<3, 2>>), Die(struct, <<2, 144>>),
                    Die(member, <<200, 2, 136, 2>>), Null, Die(base, <<8, 0>>), Null>>>>>>)

AllForms ==
  {OneUnit(n, s, r, l, "flag") :
     n \in NameForms, s \in NumberForms, r \in ReferenceForms, l \in NumberForms}
  \union {OneUnit(n, "udata", "ref_udata", "data1", k) : n \in NameForms, k \in SkippedForms}

\* struct { struct { member } : struct; member } in a scope, null entries as padding
Nested ==
  LET root == Root("strp", "flag_present")
      struct == Struct("string", "data2")
      member == Member("ref4", "block1", "udata")
      inheritance == Inheritance("data1")
  IN  File(<<<<root, struct, member, inheritance, Scope>>>>,
           <<<<1, <<Die(root, <<3, 1>>), Die(Scope, <<7>>), Die(struct, <<1, 300>>),
                    Die(inheritance, <<11, 4>>), Die(struct, <<1, 8>>),
                    Die(member, <<40, 1, 0, 1>>), Null, Die(member, <<50, 3, 130, 1>>),
                    Null, Null, Null, Null, Null>>>>>>)

\* The same numbers stand for other things in the second table; the third unit has
\* the first table again, and refers into the first unit.
ThreeUnits ==
  LET root == Root("strp", "sec_offset")
      struct == Struct("strp", "data1")
      plain == Declares(1, "DW_TAG_compile_unit", TRUE, <<>>)
      class == Declares(2, "DW_TAG_class_type", FALSE, <<<<"byte_size", "udata">>>>)
      const == Declares(3, "DW_TAG_const_type", FALSE, <<<<"type", "ref_addr">>>>)
      pointer == Declares(5, "DW_TAG_pointer_type", FALSE, <<<<"type", "ref4">>>>)
      base == Base("data1", "string")
  IN  File(<<<<root, struct, base, pointer>>, <<plain, const, class>>>>,
           <<<<1, <<Die(root, <<3, 9>>), Die(base, <<4, 1>>), Die(pointer, <<21>>), Null>>>>,
             <<2, <<Die(plain, <<>>), Die(const, <<21>>), Die(class, <<200>>), Null>>>>,
             <<1, <<Die(root, <<3, 9>>), Die(struct, <<5, 1>>), Null, Die(pointer, <<21>>),
                    Null>>>>>>)

\* A number twice in a table, a number that is in no table, a location in a form of
\* DWARF 2.
Duplicate ==
  LET root == Root("strp", "flag") IN
  [File(<<<<root, Struct("strp", "data1"), Struct("string", "data1")>>>>,
        <<<<1, <<Die(root, <<3, 1>>), Null>>>>>>) EXCEPT !.complete = FALSE]
Unknown ==
  LET root == Root("strp", "flag") IN
  [File(<<<<root>>>>, <<<<1, <<Die(root, <<3, 1>>), Die(Scope, <<2>>)>>>>>>)
     EXCEPT !.complete = FALSE]
OldLocation ==
  [OneUnit("strp", "data1", "ref4", "block1", "flag") EXCEPT !.complete = FALSE]

MCSections ==
  AllForms \union {Nested, ThreeUnits, Duplicate, Unknown, OldLocation}

\* A type identified by its signature; a member whose place in the object is given by a
\* list of locations; a virtual base, whose place is computed by an expression.
MCSignature == {OneUnit("strp", "data1", "ref4", "data1", "ref_sig8")}
MCLocationList == {OneUnit("strp", "data1", "ref4", "sec_offset", "flag")}

VirtualBase ==
  LET root == Root("strp", "flag")
      struct == Struct("strp", "data1")
      inheritance == Inheritance("exprloc")
  IN  File(<<<<root, struct, inheritance>>>>,
           <<<<1, <<Die(root, <<3, 1>>), Die(struct, <<2, 32>>), Die(inheritance, <<11, 6>>),
                    Null, Null>>>>>>)

\* What is given by no number.
MCLocations == MCLocationList \union {VirtualBase}

\* What the writer writes is well encoded, and but for those three it is what the
\* theorems about DwarfFile are about.
Misread == MCSignature \union MCLocations
ASSUME SectionsEncoded == \A f \in MCSections \union Misread : Format!Encoded(f)
ASSUME SectionsReadable ==
  /\ \A f \in MCSections : Readable(f)
  /\ \A f \in Misread : ~Readable(f)

================================================================================
