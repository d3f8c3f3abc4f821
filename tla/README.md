# dwarf_dumper: a TLA+ development

`dwarf_dumper` reads the DWARF debug information of an ELF (or Mach-O) file and
prints the types it describes as JSON.  It is one thread and no input/output
besides reading one file and printing: its difficulty is not concurrency but
state carried along a long walk over untyped bytes.  Four things go wrong in
such a program without any test noticing: a value is written to the wrong record,
a record is filed under the wrong parent, the walk loses its place in the bytes,
and a pointer outlives the file it points into or leaves it.  The modules here
are about these four, and about what a reader of the JSON can rely on.

## 1. The system

| part | state | operations | used by |
| --- | --- | --- | --- |
| `TreeBuilder` | `elements_` (every type, in order), `nested_elements_` (stack of indices: who receives children), `last_parsed_type_` (what the setters write to; uninitialized at first) | `AddElement`, `EndOfChildren`, `SetElementName/Size/Offset/Type/Count`, `GenerateJson` | `DwarfFile` |
| `DwarfFile` | pointers to `.debug_info`, `.debug_abbrev`, `.debug_str` in the file image, `compilation_unit_` (abbreviations of the current unit), `tree_builder_`, `is_loaded_`; in `GetAllClasses` two cursors, `info`/`info_bytes` and `info_end` | `SetDebugPointers`, `GetAllClasses`, `json` | `main`, the loaders (base class) |
| `ElfFile`, `MachOFile` | `memfile_`, `filesize_` (the file in memory) | `Load`: copy the file, find the sections, check them with `IsValidFilePtr`, call `SetDebugPointers`; the destructor frees | `main` uses `ElfFile`; `MachOFile` is for other programs |
| `main` | none | `Load`, `GetAllClasses`, `json`, print; exit codes 0, 1, 2 | |
| `utils/find_object_size.py` | the parsed JSON, whose offsets it changes in place | prints the classes of one size with their members, four levels deep | reads the dump |

Interactions: `GetAllClasses` walks over the units of `.debug_info`; per unit it
loads the abbreviation table at the offset in the unit's header; per entry (DIE) it
calls `RegisterNewTag`, which calls `AddElement` once whatever the tag is; per
attribute it calls `LogDwarfInfo`, which reads the value (`FormDataValue`,
`FormStringValue`) and calls one setter, or else `PassData`, which skips it; per
null entry it calls `EndOfChildren`.  The setters do not say which DIE they are
for: that is `last_parsed_type_` and the end of `elements_`.  Names are pointers
into the file image, so the loader's memory must outlive the builder's elements.
Nothing but `is_loaded_` keeps a user from calling `GetAllClasses` before a `Load`,
after a failed one, or `Load` twice.

What is hard, with the properties that make each part correct:

- *TreeBuilder*: every `AddElement` with children is matched by one `EndOfChildren`, also
  for tags that are not recorded (placeholders); members and base classes are filed under
  their own parent although types nest; a value goes to the record of its own DIE although
  unrecorded DIEs come in between.
- *DwarfFile*: two tables of forms move one pointer; tables of abbreviations are swapped
  between units; references are relative to a unit; two counts end two loops; the walk
  must get through every form that compilers write.
- *Loaders*: a `Load` that fails after the copy was made, or is repeated; sums of
  addresses and sizes that wrap around, sections that end at the last byte of the file or
  one behind it; headers that are cut off; which slice of a fat file is chosen, in which
  order of its architectures.
- *Consumer*: which names may be missing, names with quotes, control characters or broken
  UTF-8 in them, several objects with one key, recursion over types, and what adding
  offsets in place does to a type that is used twice.

`PROJECT.json` lists these at their lines, as hazards.

## 2. The modules

    TreeBuilder      class TreeBuilder: variables and methods
      |   \
      |    TreeJson -- ObjectSize -- MCObjectSize
      |    GenerateJson  find_object_size.py
      |
    DieHandlers      RegisterNewTag, LogDwarfInfo: a tag, an attribute -> builder
      |        \
    DieWalk     \    GetAllClasses per DIE and attribute, any DIEs
      |     \    \
      |      \  DwarfFile   the same byte by byte; implements DieWalk
      |       \   |   \
      |        \  |  Uleb128        the variable-length numbers
      |         \ |
      |   DwarfSections -- DwarfFormat      what DWARF 4 says of a section
      |        /     \          \
      |  DwarfProofs  MCDwarfFile -- DwarfEncoding     a writer of sections
    MCDieWalk                       MCUleb128
    DieWalkProofs -- RecordProofs

    LoadedFile       the copy of the file: who owns it, what points into it
      |      \
      |       Loader     what the two kinds of Load have in common
      |       /     \
      |   ElfFile  MachOFile     Load of each, step by step
      |       \     /
    DebugFile  Dumper    main and other users; implements DebugFile
    the promise   |
               MCDumper, LoadingProofs -- TableProofs

Proofs: beside the five above, `ObjectSizeProofs` extends `ObjectSize`,
`Uleb128Proofs` extends `MCUleb128`, and these two, `TableProofs` and `DwarfProofs`
extend `Induction`.  `DwarfProofs` instantiates `Uleb128Proofs` for the numbers in the
bytes and `RecordProofs` for the walk that it shows `DwarfFile` to be.

**TreeBuilder** has the class's three data members as variables and each method as an
action.  C++ indices become TLA+ indices.  `last_parsed_type_` starts as any member of
`Garbage` (`attributes` starts from none, a member and a class), because the constructor
does not set it.  A slip (an operator such as `OldestParent`) is a plausible error of the
code; nothing uses the slips but the mutants of `PROJECT.json`, which show that each
property can fail.

**DieWalk** is the walk at the granularity of the calls to the builder.  A DIE is
its offset, tag, has_children flag and attributes; which DIE comes next is chosen
nondeterministically among what compilers write (`Nesting`, `Leaves`, `MayCarry`:
roots are compile units, members and base classes have no children, a base
class has no name).  `dies` and `open` are histories: what has been read, and
which lists of children are open.  They are the yardstick of the properties; the
code keeps neither.  The walk may return at any point, since an unknown
abbreviation or form ends it anywhere.

**DwarfFile** has the bytes.  `pc` says which of the loops of `GetAllClasses` and
`LoadAbbrevTags` is running, and every turn of a loop is one action.  It has no
history: `walk_dies` and `walk_open` compute, from what the file is known to say
and from how far `info` has come, what `DieWalk` would have read.  The property
`WalksItsDies` is `DieWalk`'s specification under that mapping: every call to the
builder must be the one that the DIE and attribute at this place call for, with
its value.  A reader that loses its place, reads a value in the wrong width, uses
the abbreviation of another unit or leaves a reference relative makes a call that
`DieWalk` cannot explain.

**DwarfFormat** is not a model of the code but of the standard it reads
(`doc/DWARF4.pdf`, chapter 7), with its own copy of the codes: `Encoded(f)` says that
the bytes of `f` encode its DIEs.  It is stated about places: where each table,
declaration, unit, entry and value begins and ends, which DIE begins at an entry, which
list of children a null entry closes, and what each value means: the classes of forms
are those of Figures 20 and 21, so that a size, a count or an offset is a number only in
a constant form, a type only in a reference form, and the place of a list of locations
(`DW_FORM_sec_offset`) is neither.  **DwarfSections** says
which of these files the code can read, `Readable`: what `ULEB128`, `PassData`,
`FormDataValue` and `FormStringValue` cannot do is listed there, restriction by
restriction (numbers that overflow, codes padded with zero groups in an attribute list,
names in other forms, and values that `FormDataValue` takes for numbers although they
are none: negative numbers, expressions, lists of locations, signatures, references where
a constant is wanted).  A form that `FormDataValue` refuses is readable:
it ends the walk.  `WellEncoded` is both, for all of `Sections`.  **DwarfEncoding**
writes such files for the runs from abbreviation tables and DIEs.

**Uleb128** is the function `ULEB128` as a recursive function;
`MCUleb128` compares it with the encoding of the standard, byte number `i` of which
holds digit number `i` of the number and whether another byte follows.  Powers of
two are a recursive function too (`TwoTo`), because the prover knows nothing of `^`.

**LoadedFile** is the part of a `DwarfFile` object that is about memory: the block
`memfile_` points to, the three sections in it, `is_loaded_`, and where the names of
the elements point.  Its operations are the first lines of `Load`, the copy of the
file, `SetDebugPointers`, `GetAllClasses` for the pointers it keeps, and the
destructor.  Addresses are numbers below `Top`, and `Plus` wraps around, since the
check in `IsValidFilePtr` is about exactly that.  `heap`, `loads` and `accepted`
are histories: the blocks nobody freed, and which `Load` they and the names belong
to.  A name may be said to be at any place `NamesAt` of its section, beyond the end of it
too: `FormStringValue` adds the place it reads to `debug_str_` and compares it with
nothing, and so the pointer of a name may leave the file.  `NamesInFile` is about the
names that begin inside their section.

**DebugFile** is the abstract specification: whoever calls `Load`, `GetAllClasses`
and the destructor in whatever order, a `Load` copies a file and either fails or
ends with three sections inside the copy.  It does not say which files are refused.

**Loader**, **ElfFile** and **MachOFile** are `Load`: one action per check or turn
of a loop, and each `return false` a disjunct of its own.  `fread` fails on an empty
file, and on any other that cannot be read or has become shorter since its size was
asked (`reads`).  An ELF file is the fields
that `Load` reads and its section headers; headers that `Load` does not check to be
inside the file are any of `Junk` when they are not.  A Mach-O file is its list of
architectures, the header at each offset, and the load commands with their sections;
`fat_arch` fields are big-endian, so the subtype is a tuple of four bytes and the
mask is applied to the one the code applies it to.  What `Load` should accept
(`ElfComplete`, `MachOComplete`) is written beside it without its loops.

**Dumper** composes the two with their users.  `main` is its sequence of calls with
its exit codes, the `exit(1)` inside the walk included; other users of the classes
(`user = "elf"` or `"macho"`) call `Load` up to `MaxLoads` times, `GetAllClasses`
and the destructor in any order.

**TreeJson** is `GenerateJson`: which fields are written, under which key and with which
words, and how strings are escaped.  A byte of a name is a quote, a backslash, a control
character, a byte that is no part of a UTF-8 character, or another: what a reader of JSON
tells apart.  The writer escapes the first two and writes the rest as it is.
**ObjectSize** reads that document (the reading of strings and of repeated keys, `ujson`,
is external; a reader refuses what is not UTF-8, and either refuses control characters,
which JSON forbids, or does not) and runs `find_object_size.py` with its recursion as a
stack, because it changes the members while it is inside them.  The elements it starts
from are of the shape the walk leaves (`WalkedTree`: ids increase, only placeholders have
the id 0), which is an assumption here and a theorem about `DieWalk` (`TreesWalked`) and
about `DwarfFile` (`SectionsMakeTrees`).

## 3. The runs

| run | question | instance |
| --- | --- | --- |
| `structure` | Are the stack, the list of types and the owners of members and base classes those of the section? | six DIEs in every nesting of a unit, a skipped scope, classes, a skipped part of a class, members and base classes; padding anywhere; five values of the uninitialized member; no attributes; 1.2 million states |
| `attributes` | Do attributes reach the record of their own DIE? | four DIEs, two attributes of the six kinds, arrays and subranges too; three values of the uninitialized member; 3.3 million states |
| `forms` | Does the byte-level reader implement the walk, and does it get to the end? | 481 files: a structure with a member and a base type in every combination of forms for names, numbers, references and offsets; every form for a skipped attribute; nested types in a skipped scope with padding; three units with two tables that give the same numbers other meanings; a table with a number twice, a number in no table, a location in a form of DWARF 2 |
| `uleb128` | Does ULEB128 invert the encoding? | every number of five bits from groups of two, in every length it can be padded to, every surrounding of up to four bytes |
| `loading` | Does `Load` accept exactly the complete files, with the right sections of the right slice, is memory owned and returned, and is every loader a `DebugFile`? | ELF and Mach-O files that are whole, cannot be read, are cut off at every place, with sections at the last byte and behind it, with sizes and offsets that wrap around, with names that occur twice or not at all; five fat files in both orders; names inside and behind their section; `main`, or two `Load`s by another user; 292 thousand states |
| `object_size` | Which classes does the script find, when are its offsets right, and does it end? | about a thousand trees of three types that use one another once, twice, without a name or as a static member, with placeholders between, every name of three characters that a reader accepts and some that it may refuse, in types, members and placeholders; a strict and a lenient reader; every order of the dictionary; 321 thousand states |
| `struct_types` | a disagreement, see section 6 | the same trees |
| `enumerator_names`, `array_bounds`, `placeholders`, `type_signatures`, `locations` | disagreements, see section 6 | |

Why the bounds are enough.  In `structure` six DIEs hold a root, a scope, a type nested in
a type and a member behind it: the smallest section in which the newest element, the
innermost open one and the owner of the next member are three different elements.  In
`attributes` two attributes suffice because each setter writes one field: an error shows
with the DIE that leaves `last_parsed_type_` or `elements_.back()` behind and one
attribute of a later DIE; values are unique per DIE and attribute, so a value in the wrong
record is seen.  In `forms` numbers above 127 and a two-byte abbreviation number make each
ULEB128 longer than a byte, and the bytes of blocks are those of valid abbreviation
numbers, so that a reader that steps into a block goes on reading.  `MaxDies` is the
number of DIEs of the largest file; it bounds nothing in `DwarfFile` but the sets of the
walk it is mapped to.  In `uleb128` the width is no multiple of the group, as 32 is none
of 7: the last byte that counts is cut in both.

In `loading` addresses go up to 255 and blocks lie at two places, so that a sum of
an address in the file and an offset from it can end in the file, behind it, at the
very top or, wrapped around, below the file or in it again: all that
`IsValidFilePtr` compares.  A unit of space stands for several bytes, which keeps
the order of the structures in a file but not their sizes: `Load` only compares
places.  Two `Load`s are enough for a failed one before and after a successful one:
what a third finds (`memfile_` null, owned and loaded, or owned and not loaded) the
second has found.  Fields of 32 bits stay below `MaxU32`; a sum of an address with
such a field cannot wrap around in the program either, only an ELF offset or size of
64 bits can.  In `object_size` three types nest to three levels without a cycle and,
with the static member, to the script's limit of four.

TLC's integers have 32 bits, so `size_t` counts modulo 2^30 in `DwarfFile`
(`Minus`) and `ULEB128` has a width of 28 there; no number in the files needs more.
`CHECK_DEADLOCK FALSE` is set because the program ends.

Fairness.  `DwarfFile` states `WF_vars(Next)`: one thread, no lock, no input to
wait for, so the program takes its next step whenever it has one.  `EveryDieRead`
then says that a complete section is read to its last byte.  `ObjectSize` states it
for the same reason, and `Ends` says that the script ends.  `Dumper` states
`WF_vars(LoadStep)` and `WF_vars(Main)`: a `Load` that was called and `main` go on,
while other users need not call anything; `LoadReturns` says that every `Load`
returns.  `DieWalk` and `DebugFile` have safety properties only and state no
fairness.

## 4. The properties

`StackMirrorsOpen`: `nested_elements_` is, entry by entry, the list of DIEs whose
children are being read, each under its own element or a placeholder.
`TypesInOrder`: every type DIE has exactly one element, in section order.
`ChildrenFiled`: the members and base classes of an element are those of its DIE,
none missing, doubled, foreign or out of order.  `CurrentDieExact`: while a
recorded DIE is read its record says exactly what has been read of it.
`ExactWithoutStrays`: records stay exact unless the section has a `Stray`, a
childless DIE that is not recorded and yet has attributes that reach the builder
(an enumerator, a variable, a reference type).  This is
a precondition under which the dump is right; section 6 shows how it fails in
ordinary programs.
`WalksItsDies`, `EveryDieRead`, `ReadsBack`, `StopsInTime`: see section 2 and the
comments in the modules.

Of the loaders: `OwnsItsBlock`: `memfile_` is null or a block of the object's own, so
nothing is freed twice, through any sequence of failed and repeated `Load`s.
`LoadedInFile`: while `is_loaded_` is set the three sections lie in the copy of the file
that is loaded now.  `LoadedFilesReturned`, `NothingLost`: the memory of every accepted
file is returned, and `main` returns all it took.  `NamesInFile`: the names found since
the last `Load` that begin inside their section point into memory that is still there.
`LoadsExactly`: what `Load` accepts are the complete files that can be read and no others;
of an ELF file whose table of section headers is cut off it says nothing.
`TakesItsSections`, `RightSlice`: the sections are those of the slice asked for, counted
from its beginning, of several with one name the last.  `ExitCodeTells`: `main` prints
only what it loaded, and its exit code says whether it did.  `KeepsPromise`: every loader
and user implements `DebugFile`.

Of the dump and its reader: `FindsItsClasses`: quotes and backslashes in names never make
the dump unparsable, control characters may, and a byte that is not UTF-8 does, in any
name; the classes found in a dump that is read are those of the tree, however many
placeholders share the key 0, in every order.  `OffsetsExactOnce`: an offset is right
exactly when no member on the way had been moved before, printed below a base other than
0; that the script adds in place makes the second half happen, though not for the second
use of a type whose first was at offset 0.  `EndsOnUnnamed`: it ends with a `KeyError`
exactly when it comes to a member without a name.

## 5. The proofs

`DieWalkProofs` proves, for every set of tags, every nesting, any offsets, any
values and any bounds (assumptions `GarbageAssumption`, `BoundsAssumption`,
`DatumAssumption`: the types of the constants):

- `TypeCorrect`: `Spec => []TypeOK`.  `TypeOK` is inductive.  The point is
  `nested_elements_ \in Seq(1 .. Len(elements_))`: `AddElement` pushes
  `elements_.size()-1`, which is an index only because a placeholder is pushed
  first when the tag adds no element.
- `StackFaithful`: `Spec => []StackMirrorsOpen`.  Inductive together with `TypeOK`.
  The setters may change any element of the stack, but never its `type_` and `id_`
  (`KindsKept`), which is all that `Mirrors` reads; `AddElement` pushes exactly
  when the DIE has children, and what it pushes is the element just appended.
- `TypesComplete`: `Spec => []TypesInOrder`, inductive together with `TypeOK`: the
  offsets of DIEs increase, so a new type's id is larger than all before it, and
  no other step touches an id.

The layout: lemmas about sequences; one lemma per method (`AddElementKeeps`,
`EndOfChildrenTyped`, one per setter) that says what it keeps; one lemma per kind
of step (`QuietSteps`, `ReadDieStep`, `ReadNullStep`); then the theorems, each with
one case per kind of step.

Two more rest on these three, for the same constants:

- `ChildrenComplete`: `Spec => []ChildrenFiled`.  `ChildrenFiled` finds the DIE of an
  element with a CHOOSE; the invariant `Filed` names it by its id instead, and
  `FiledMeans` shows that offsets tell DIEs apart.  The heart is the lemma `Owner`:
  with `StackMirrorsOpen` and `TypesInOrder` the innermost element is the only one
  whose id is that of the innermost open DIE, so what `AddElement` files there
  (`AddElementFiles`) is what the history gains (`ReadDieHistory`), and if the
  parent has no element nothing is filed.
- `AttributesLand`: `Spec => []CurrentDieExact`.  `CurrentDieExact` is not inductive:
  that the next setter finds the record needs `last_parsed_type_` to be its kind,
  and a member to be there.  `CurrentRecord` adds both.  `MemberSet`, `ParentSet` and
  `TypeSet` say that a setter then changes the field of its attribute in that record
  and nothing else (`SetsExactly`).

`LoadingProofs` proves, for all sets of files, all junk behind them, any top of the
address space, any places malloc may choose, any sizes of the structures and any
number of `Load`s (assumptions `MemoryAssumption`, `UnsetAssumption`, `ElfAssumption`
`MachOAssumption` and `NamesAssumption`: types of the constants, no block at null, and no
block so high that an offset of 32 bits behind it wraps around):

- `TypesCorrect`: `Spec => []TypeOK` for `Dumper`.  `TypeOK` has beside the types
  `TurnOK`: the index of each loop is at most the length of the list it goes through, and
  the segment whose sections are read is one of the load commands.  It is inductive with the
  addition that the file being loaded is of the user's kind, so that its fields exist
  (`ElfTurns`, `MachOTurns`, `TurnsPreserved`).
- `LoadersKeepPromise`: `Spec => KeepsPromise`.  The initial states are initial, and
  each kind of step is a step of `DebugFile` or changes nothing of it (`PromiseStep`).
  The point is `ValidMeansInside`: whatever wraps around, a pointer and size that
  `IsValidFilePtr` accepts lie inside the copy.
- `BlockOwned`, `SectionsInside`, `LoadedReturned`, `NamesLive`: the four memory
  properties are inductive together with `LoadInProgress` (during a `Load`
  `is_loaded_` is off), and since every step is one of `DebugFile`, only
  `DebugFile`'s six actions have to be looked at.  `NamesLive` is for any places that
  names may be said to be at (`NamesAt`); of a name beyond its section it says nothing.
- `ExitCodeCorrect`, `MainReturnsMemory`: with an invariant that says for each line
  of `main` what its `Load` has returned and which block there is.

`RecordProofs` rests on `DieWalkProofs`:

- `RecordsFaithful`: `Spec => []ExactWithoutStrays`, the property a user of the dump
  asks for.  The invariant `Records` compares every element, its members and its base
  classes with their DIEs (a base class has no id, so it is found by its rank among
  the bases of its DIE).  It is inductive only with `CurrentPlace`, which says where
  the DIE being read stands: one with children is the innermost open one, one without
  is a child of it, and a type or a DIE with children has the newest element.  From
  it `ReadAttributeExact` concludes that a setter writes the record of the current
  DIE or none: `UnrecordedWritesNothing` is the case of a DIE that is not recorded,
  whose attributes land in the placeholder it has just added or, without children, are
  strays.  `Ranks` constructs the order of the base classes, which the property picks
  with a CHOOSE.

`TableProofs` rests on `LoadingProofs`:

- `LoadsExactlyTheComplete`, `SectionsTaken`, `SliceTakenIsRight`:
  `Spec => []LoadsExactly`, `[]TakesItsSections`, `[]RightSlice`.  The last does not say
  that the order of the slices is irrelevant, which it is not: only `arm64e` is always
  given what it asks for.  `Progress` says for
  each loop of the two `Load`s what its first turns have established: the last header
  of each name so far (`ShdrNoted`, `SectionNoted`), that no architecture so far serves
  (`ArchsPassed`), that the slice is the one that should be chosen (`SliceChosen`),
  that the commands so far lie in the file and are no `__DWARF` segment
  (`CommandsPassed`).  `Outcome` is the three properties.  Each step then either fails
  on a file that is incomplete for the reason it found (`RefusesRightly`) or passes
  one more turn; `ChecksRightly` is the last check.  The places of the load commands
  are partial sums of their sizes (`CommandPlaces`), a recursive function whose values
  `PartialSums` gives.  `MachOAssumption` says that a segment command is no shorter than the
  command header it begins with (72 bytes against 8 in `macho.h`).

`ObjectSizeProofs`, for all trees of the shape `WalkedTree`, every text of the names
and every size asked for (`TreesAssumption`, `TextAssumption`):

- `ClassesFound`: `Spec => []FindsItsClasses`.  Its first half, which names make a dump
  unparsable, rests on `ReadAsWritten`: what `EscapeJsonString` writes is read back, for
  every string, by induction on how much of it has been read, so that only a character a
  reader refuses can stop it.  `DumpLoads` is the document as a whole: it is parsed
  exactly if no name has such a character (`AllAccepted`), and of all objects with the key
  0 one is kept, which is a placeholder's.
- `ScriptTyped`, `OffsetsExactJustOnce`, `UnnamedEnds`: `TypeOK`, `OffsetsExactOnce`
  and `EndsOnUnnamed`.  All four follow from one invariant: the dump is `Refused`, and
  nothing happens, or it is `Accepted` and `Inv` holds.  `DataSays`: the
  dictionary goes on saying what the tree says, but for the offsets.  `OffsetsGrow`: an
  offset is the one written exactly if its member was never moved, since the bases added
  are sums of offsets and a member is marked as moved when its base is not zero.
  `Calls`: each call on the stack was made for the member before the next of its caller,
  and its base is the sum of the offsets as written exactly if it is fresh.
  `FoundSoFar`: the classes printed are the wanted ones that are done or begun.
  `NamedSoFar`: whatever has been left behind had names, down to the level to which
  it was shown.

`TreesWalked` (in `DieWalkProofs`) closes the gap between the two models: wherever a walk
returns, its tree is a `WalkedTree`, provided no DIE is at offset 0, where the header of
the first unit is.

`DwarfProofs` goes from the bytes to the records.  Its theorems assume `WellEncoded`: the
files, of any number, length and content, are DWARF 4 and readable.  That files satisfy
it TLC evaluates: `MCDwarfFile` assumes `Encoded` of every file of its runs and
`Readable` of those of `forms`, and the three kinds of file that are not readable are
those of `type_signatures` and `locations`, where the code fails (section 6).

- `PlaceKept`: `Spec => []InPlace`, the inductive invariant.  It says for each `pc` where
  the walk is: before a unit, before declaration `i` of the table of unit `n`, before
  entry `k` of unit `n`, before value `j` of an entry that is a DIE; that `abbrev` is at
  the same declaration or attribute; that exactly the declarations of the current unit,
  up to `i`, are loaded; and that the DIEs that began before have all their values
  (`Settled`).  None of this can be left out: a walk that has its place in
  `.debug_info` but not in `.debug_abbrev`, or the right place and another unit's
  abbreviations, loses it with the next step.
- `SectionsWalked`: `Spec => WalksItsDies`, that `DwarfFile` implements `DieWalk`.  There
  is one lemma per action (`StepReadUnit` to `StepEndOfAttributes`), which shows that it
  keeps `InPlace` and is, under the mapping, a step of `DieWalk` or none.  They rest on
  four groups of lemmas: what `ULEB128` and `Unsigned` return is what the format means
  (`NumberUnderstood`, from `Uleb128Proofs`); what a value is and how far it goes, form
  by form and once for each of the two tables of forms (`ValuePassed`,
  `AttributeValueIs`); what of an abbreviation is read, and that skipping to the first
  zero byte ends behind its list (`DeclarationRead`, `SpecRead`, `ListRead`); and what
  the mapped history gains when a DIE begins, an attribute ends or a list is closed
  (`DieAppears`, `AttributeAdded`, `NothingAppears`, `OrderedGrows`, `OrderedShrinks`).
- `StaysInSections`: `Spec => []TypeOK`.  The code checks no bound, and needs none for
  such files: the places come from `InPlace`, the builder's part from `TypeCorrect`
  through the refinement.
- `SectionsRecorded`, `SectionsFiled`, `SectionsMakeTrees`: what `DieWalk`'s theorems say
  holds of `DwarfFile`: its records say what the DIEs say that the bytes encode, its
  members and base classes are filed under their types, and its tree is a `WalkedTree`.
  Nothing is proved twice: `Proved` is `RecordProofs` under the refinement mapping, and
  `SameWalk` shows that it is the same walk.

`Uleb128Proofs`, for every width of a byte and of the result and every sequence of
bytes (`WidthAssumption`):

- `NumbersEnd`: `Spec => []StopsInTime`.  `NumberRead` goes through the turns of the loop
  from the last to the first: each result is the sum of what is left, modulo `2^Width`.
  `Overshift`, what a shift by the width or more is compiled to, is left open: a number
  that ends before such a shift never uses it, and nothing is said of the others but
  where they end.
- `NumbersReadBack`: `Spec => []ReadsBack`.  The sum of the digits of a number that
  `length` groups can hold is the number (`NextDigit`), so by `NumberRead` it is read
  back from each of its encodings.

`Induction` has what these need of the natural numbers.  The library's induction
theorems take an operator as a parameter, which the provers cannot instantiate;
`StepByStep` takes a set instead and follows from well-foundedness, and `Iteration`
gives the function that a recursive definition chooses.

Only model-checked, and why:

- Liveness: `EveryDieRead`, `LoadReturns`, `Ends`.  The prover has no rule for fairness.
- The properties of the runs that expect a violation, of course.

## 6. Where code and documents disagree

- An enumeration is dumped under the name of its last enumerator
  (`enumerator_names`): enumerators are not recorded, and their names go to the
  newest element.
- An array loses the type of its elements to its subrange, and the count of the
  subrange is dropped (`array_bounds`), although the code says the subrange
  updates the array.
- A placeholder gets the name of the scope it stands for and is dumped with it
  (`placeholders`).
- `DW_FORM_ref_sig8` has the wrong code (`type_signatures`): programs compiled with
  `-fdebug-types-section` are dumped up to the first use of it.
- A virtual base is dumped at an offset that is the length of an expression
  and a member whose place is given by a list of locations at the place of the list in
  `.debug_loc` (`locations`, which has a file of each).  Compilers write the first for
  every virtual base and the second hardly ever.
- The script asks for types of kind `struct`, which the dump calls `structure`
  (`struct_types`): only classes are ever found.

What the properties say because the code does so, though no document promises
otherwise:

- A region that ends exactly at the end of the file is refused
  (`LoadsExactly`), so a file whose last section is a debug section is not loaded.
- A `Load` after one that failed behind the copy overwrites `memfile_`; the block is
  lost (`LoadedFilesReturned` is about accepted files only).  `main` loads once.
- A name that is said to be behind the end of `.debug_str` is printed from wherever that
  is, since the place is not compared with the size (`NamesInFile` says nothing of it).
- After a second `Load` the elements of the first file stay, with names that point
  into its freed copy; `NamesInFile` ends its promise at the next `Load`.
- Asked for `arm64` the Mach-O loader takes the first slice for the processor, an
  `arm64e` one too (`RightSlice`).
- `EscapeJsonString` writes a control character as it is, and a byte that is no part of a
  UTF-8 character: the dump is no JSON then, and a reader may refuse all of it
  (`FindsItsClasses` says for which names).  It takes one such byte anywhere, in the path
  of a source file too, which is the name of a placeholder.
- The script adds offsets in place (`OffsetsExactOnce`) and ends with a `KeyError`
  at the first member without a name, which C++ has in every anonymous union
  (`EndsOnUnnamed`).

## 7. Not modelled, and the plan

Not modelled: reads outside the sections during the walk (the code has a TODO for bounds
checks), the characters of a name beyond the end of `.debug_str` among them;
`DW_FORM_indirect`, 64-bit DWARF and DWARF 5, which the code does not handle; a `malloc`
that returns null, which `Load` does not check; logging; commas and brackets of the JSON;
the architecture that `main` takes from its arguments and does not use; of `elf.h`
everything but the structures that `Load` reads; the test program and the build files,
which have no behaviour of their own.  Tags that are not registered are alike, but the
compile unit's.

What remains:

1. For any bytes whatever, as long as no read leaves the sections: that `DwarfFile` calls
   the builder only as the builder allows, which `AddElementKeeps` and the lemmas on the
   setters almost say.
2. An abstract specification of the builder, a map from offsets to records that the
   DIEs define, with `DieWalk` shown to implement it on sections without strays.
3. That the dump does not depend on the uninitialized member once a type has been
   read.
4. One file from the first byte to the last: `LoadedFile` hands `DwarfFile` three regions
   (`SectionsTaken`), but the two models are not composed.
