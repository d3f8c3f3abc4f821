----------------------------- MODULE DwarfSections -----------------------------
(***************************************************************************)
(* The files that DwarfFile can read.  The code checks nothing of what it  *)
(* reads, so they have to be DWARF 4, and to keep to what PassData,        *)
(* FormDataValue, FormStringValue and ULEB128 know of it.                  *)
(***************************************************************************)
EXTENDS DwarfFile

Format == INSTANCE DwarfFormat

\* No shift of ULEB128 goes beyond the result, and nothing is cut off it.
NumberFits(bytes, from, to) ==
  (to - from - 1) * Group < Width /\ Format!LebValue(bytes, from, to) < Modulus
NumbersFit(bytes, from) ==
  \A to \in from .. Len(bytes) :
    Format!LebAt(bytes, from, to) => NumberFits(bytes, from, to)

\* LoadAbbrevTags takes the first zero byte for the end of an attribute list: no code is
\* padded.
DeclarationReadable(bytes, d) ==
  \A i \in d.places[1] + 1 .. d.places[Len(d.specs) + 1] : bytes[i] # 0

\* FormStringValue knows two forms.  FormDataValue takes whatever it reads for a number:
\* one that is negative, the length of an expression, the place of a list, a reference
\* where a size belongs.  The forms that it does not know end the walk.  PassData has a
\* wrong code for ref_sig8.
ValueReadable(f, u, spec, from, to) ==
  LET a == spec[1]
      form == spec[2]
  IN
  /\ a \in Names => form \in {"string", "strp"}
  /\ a \in Attribute \ Names /\ form \in DataForms \ {"ref_sig8"} =>
       Format!Meaning(f.info, a, form, from, to, u.at) # {}
  /\ a \notin Attribute => form # "ref_sig8"
  /\ a \in Attribute \/ form \in {"block", "exprloc"} => NumbersFit(f.info, from)

EntryReadable(f, u, e, from) ==
  LET declarations == f.tables[u.table].declarations IN
  /\ NumberFits(f.info, from, e.places[1])
  /\ e.declaration \in 1 .. Len(declarations) =>
       LET specs == declarations[e.declaration].specs IN
       \A j \in 1 .. Len(specs) : ValueReadable(f, u, specs[j], e.places[j], e.places[j + 1])

Readable(f) ==
  /\ Len(f.info) < SizeBound /\ Len(f.abbrev) < SizeBound
  /\ \A at \in 0 .. Len(f.abbrev) : NumbersFit(f.abbrev, at)
  /\ \A t \in 1 .. Len(f.tables) : \A i \in 1 .. Len(f.tables[t].declarations) :
       DeclarationReadable(f.abbrev, f.tables[t].declarations[i])
  /\ \A n \in 1 .. Len(f.units) :
       LET u == f.units[n] IN
       \A k \in 1 .. Len(u.entries) : EntryReadable(f, u, u.entries[k], u.places[k])

WellEncoded ==
  \A f \in Sections : Format!Encoded(f) /\ Readable(f) /\ Len(f.dies) <= MaxDies

================================================================================
