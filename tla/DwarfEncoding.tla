----------------------------- MODULE DwarfEncoding -----------------------------
(***************************************************************************)
(* A writer of DWARF 4, for sections that DwarfFile can be checked on.  A  *)
(* file is a sequence of units; a unit has a table of abbreviations and a  *)
(* sequence of entries, each a DIE of one of the abbreviations or Null.    *)
(*                                                                         *)
(*   abbreviation: [code, tag, children, specs], specs a sequence of       *)
(*                 <<attribute, form>>                                     *)
(*   entry:        [abbreviation, values], a value for each of specs       *)
(*                                                                         *)
(* The file also holds the layout that DwarfFormat speaks about, and the   *)
(* DIEs with the values that were written.                                 *)
(***************************************************************************)
EXTENDS DwarfFormat, SequencesExt, TLC

\* What stands for the tags that are not registered and the attributes that are skipped.
WrittenTag(tag) == IF tag = "other" THEN 46 ELSE TagCode[tag]
WrittenAttribute(a) == IF a = "other" THEN 60 ELSE CodeOfAttribute[a]

Leb[n \in Nat] == IF n < 128 THEN <<n>> ELSE <<128 + (n % 128)>> \o Leb[n \div 128]
Fixed(size, n) == [i \in 1 .. size |-> IF i > 3 THEN 0 ELSE (n \div 256 ^ (i - 1)) % 256]

\* v is the number, or the length of the block or string.  A block holds ones, which
\* a reader that has lost its place takes for DIEs of the first abbreviation.
Encode(form, v) ==
  CASE form \in DOMAIN Octets -> Fixed(Octets[form], v)
    [] form \in DOMAIN SizeOctets -> Fixed(SizeOctets[form], v) \o [i \in 1 .. v |-> 1]
    [] form \in {"block", "exprloc"} -> Leb[v] \o [i \in 1 .. v |-> 1]
    [] form \in LebForms -> Leb[v]
    [] form = "string" -> [i \in 1 .. v |-> 65] \o <<0>>

\* What v says at a place; an expression, a block or the place of a list is no constant.
Said(a, form, v, place, unit) ==
  CASE a \in {"name", "linkage_name"} ->
         {IF form = "string" THEN InfoAddress + place ELSE StrAddress + v}
    [] form \in {"exprloc", "block1", "sec_offset"} -> {}
    [] a = "type" /\ form # "ref_addr" -> {unit + v}
    [] OTHER -> {v}

\* Where pieces begin that are written one behind the other, and where the last one ends.
Places(at, pieces) ==
  FoldLeft(LAMBDA places, piece : Append(places, Last(places) + Len(piece)), <<at>>, pieces)
Joined(pieces) == FoldLeft(LAMBDA bytes, piece : bytes \o piece, <<>>, pieces)

\* The same sequence, which TLC then computes once.
Once(seq) == <<>> \o seq

--------------------------------------------------------------------------------
HeadBytes(declared) ==
  Leb[declared.code] \o Leb[WrittenTag(declared.tag)]
    \o <<IF declared.children THEN 1 ELSE 0>>
SpecPieces(declared) ==
  Once([j \in DOMAIN declared.specs |->
    Leb[WrittenAttribute(declared.specs[j][1])] \o Leb[FormCode[declared.specs[j][2]]]])
TablePieces(table) ==
  Once([i \in DOMAIN table |->
    HeadBytes(table[i]) \o Joined(SpecPieces(table[i])) \o <<0, 0>>])
TableBytes(table) == Joined(TablePieces(table)) \o <<0>>

TableWritten(at, table) ==
  LET places == Places(at, TablePieces(table))
      DeclarationAt(i) ==
        [code |-> table[i].code, tag |-> table[i].tag, children |-> table[i].children,
         specs |-> table[i].specs,
         places |-> Places(places[i] + Len(HeadBytes(table[i])), SpecPieces(table[i]))]
  IN  [declarations |-> [i \in DOMAIN table |-> DeclarationAt(i)], places |-> places]

--------------------------------------------------------------------------------
Null == [values |-> <<>>, abbreviation |-> [code |-> 0, specs |-> <<>>, children |-> FALSE]]

EntryPieces(entry) ==
  <<Leb[entry.abbreviation.code]>> \o
    [n \in DOMAIN entry.values |-> Encode(entry.abbreviation.specs[n][2], entry.values[n])]
EntriesPieces(entries) == Once([k \in DOMAIN entries |-> Joined(EntryPieces(entries[k]))])

UnitBytes(entries, abbrev_offset) ==
  LET body == Joined(EntriesPieces(entries)) IN
  Fixed(4, Len(body) + HeaderBytes - 4) \o Fixed(2, 4) \o Fixed(4, abbrev_offset) \o <<8>> \o body

UnitWritten(at, entries, tables, t) ==
  LET places == Places(at + HeaderBytes, EntriesPieces(entries))
      Number(e) ==
        IF e = Null THEN 0
        ELSE IF \E i \in DOMAIN tables[t] : tables[t][i] = e.abbreviation
        THEN CHOOSE i \in DOMAIN tables[t] : tables[t][i] = e.abbreviation
        ELSE Len(tables[t]) + 1
  IN  [at |-> at, end |-> places[Len(places)], table |-> t, places |-> places,
       entries |-> Once([k \in DOMAIN entries |->
         [declaration |-> Number(entries[k]),
          places |-> Tail(Places(places[k], EntryPieces(entries[k])))]])]

\* Notes the DIE that entry k of a unit is, behind those of acc.  A list of children that
\* is not closed ends behind the section.
Never == 2 ^ 20

DieWritten(acc, unit, entries, k) ==
  LET abbreviation == entries[k].abbreviation
      places == unit.entries[k].places
      Specs(a) == {n \in DOMAIN abbreviation.specs : abbreviation.specs[n][1] = a}
  IN
  [open |-> IF abbreviation.children THEN Append(acc.open, Len(acc.dies) + 1) ELSE acc.open,
   dies |-> Append(acc.dies,
     [id |-> unit.places[k], tag |-> abbreviation.tag, children |-> abbreviation.children,
      parent |-> IF acc.open = <<>> THEN 0 ELSE Last(acc.open), close |-> Never,
      attrs |-> [a \in Attributes |->
        UNION {Said(a, abbreviation.specs[n][2], entries[k].values[n], places[n], unit.at) :
                 n \in Specs(a)}],
      ends |-> [a \in Attributes |->
        IF Specs(a) = {} THEN 0 ELSE places[1 + CHOOSE n \in Specs(a) : TRUE]]])]

EntryWritten(acc, unit, entries, k) ==
  IF entries[k] = Null
  THEN [open |-> IF acc.open = <<>> THEN <<>> ELSE Front(acc.open),
        dies |-> IF acc.open = <<>> THEN acc.dies
                 ELSE [acc.dies EXCEPT ![Last(acc.open)].close = unit.places[k + 1]]]
  ELSE DieWritten(acc, unit, entries, k)

\* Without the numbers that are in no table.
UnitDies(acc, unit, entries, table) ==
  FoldLeftDomain(LAMBDA a, k : IF unit.entries[k].declaration > Len(table) THEN a
                               ELSE EntryWritten(a, unit, entries, k), acc, entries)

\* A file with the given tables of abbreviations; a unit is <<table, entries>>.
File(tables, units) ==
  LET tables_bytes == Once([t \in DOMAIN tables |-> TableBytes(tables[t])])
      offset == Places(0, tables_bytes)
      units_bytes ==
        Once([u \in DOMAIN units |-> UnitBytes(units[u][2], offset[units[u][1]])])
      at == Places(0, units_bytes)
      layout ==
        Once([u \in DOMAIN units |-> UnitWritten(at[u], units[u][2], tables, units[u][1])])
      written == FoldLeftDomain(
        LAMBDA a, u : UnitDies(a, layout[u], units[u][2], tables[units[u][1]]),
        [open |-> <<>>, dies |-> <<>>], units)
  IN  [info |-> Joined(units_bytes), abbrev |-> Joined(tables_bytes),
       tables |-> [t \in DOMAIN tables |-> TableWritten(offset[t], tables[t])],
       units |-> layout, dies |-> written.dies, complete |-> TRUE]

================================================================================
