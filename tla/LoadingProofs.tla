----------------------------- MODULE LoadingProofs -----------------------------
(***************************************************************************)
(* What holds of every ElfFile, every MachOFile and main, for all files    *)
(* and all calls, wherever malloc puts the blocks.                         *)
(***************************************************************************)
EXTENDS Dumper, TLAPS

(***************************************************************************)
(* Addresses.                                                              *)
(***************************************************************************)

LEMMA PlusIsAddress ==
  ASSUME NEW ptr \in Addr, NEW n \in Addr
  PROVE  Plus(ptr, n) \in Addr
BY MemoryAssumption DEF Plus, Addr

LEMMA NullIsAddress == Nullptr \in Addr
BY MemoryAssumption DEF Nullptr, Addr

\* The check of a region is exact, although the sum it compares may wrap around.
LEMMA ValidMeansInside ==
  ASSUME NEW ptr \in Addr, NEW size \in Addr, memfile_ \in Addr, filesize_ \in Addr
  PROVE  IsValidFilePtr(ptr, size) <=>
           memfile_ <= ptr /\ ptr + size < memfile_ + filesize_ /\ ptr + size < Top
BY MemoryAssumption DEF IsValidFilePtr, Plus, Addr

(***************************************************************************)
(* Types.                                                                  *)
(***************************************************************************)

MachOFiles == {call.file : call \in MachOCalls}

\* A Load that is called has a file of its kind, the segment found is there, and main
\* waits for it.
FileOfItsKind ==
  /\ user = "main" => at = "load"
  /\ user # "macho" => user \in {"main", "elf"} /\ file \in ElfFiles
  /\ user = "macho" => file \in MachOFiles
  /\ user = "macho" /\ pc = "sections" => dwarf_seg \in 1 .. Len(Header.commands)

TypeInv == VariablesOK /\ (pc # "idle" => FileOfItsKind)

LEMMA FileSize ==
  ASSUME TypeInv, pc # "idle"
  PROVE  file.size \in Addr
<1>1. CASE user # "macho"
  BY <1>1, ElfAssumption DEF TypeInv, FileOfItsKind, Elf64_Ehdr
<1>2. CASE user = "macho"
  <2>1. PICK call \in MachOCalls : file = call.file
    BY <1>2 DEF TypeInv, FileOfItsKind, MachOFiles
  <2> QED BY <2>1, MachOAssumption
<1> QED BY <1>1, <1>2

LEMMA HeadersAreShdrs ==
  ASSUME TypeInv, pc # "idle", user # "macho", NEW n \in Nat
  PROVE  HeadersAt(n) \subseteq Elf64_Shdr
<1>1. file \in Elf64_Ehdr
  BY ElfAssumption DEF TypeInv, FileOfItsKind
<1>2. file.sections \in Seq(Elf64_Shdr)
  BY <1>1 DEF Elf64_Ehdr
<1>3. ASSUME InTable(n) PROVE file.sections[n + 1] \in Elf64_Shdr
  BY <1>2, <1>3 DEF InTable
<1> QED BY <1>3, ElfAssumption DEF HeadersAt

LEMMA HeaderAtPlace ==
  ASSUME TypeInv, pc # "idle", user = "macho", NEW offset
  PROVE  HeaderAt(offset) \in mach_header_64
<1>1. PICK call \in MachOCalls : file = call.file
  BY DEF TypeInv, FileOfItsKind, MachOFiles
<1>2. CASE offset \in DOMAIN file.headers
  BY <1>1, <1>2, MachOAssumption DEF HeaderAt
<1>3. CASE offset \notin DOMAIN file.headers
  <2>1. HeaderAt(offset) = [magic |-> "other", commands |-> <<>>]
    BY <1>3 DEF HeaderAt
  <2>2. <<>> \in Seq(load_command)
    OBVIOUS
  <2> QED BY <2>1, <2>2 DEF mach_header_64
<1> QED BY <1>2, <1>3

LEMMA NoteIsFound ==
  ASSUME found \in [Section -> Region],
         NEW name, NEW base \in Addr, NEW offset \in Addr, NEW size \in Addr
  PROVE  Note(name, base, offset, size) \in [Section -> Region]
<1>1. [ptr |-> Plus(base, offset), size |-> size] \in Region
  BY PlusIsAddress DEF Region
<1> QED BY <1>1 DEF Note

LEMMA NothingFoundIsFound == NothingFound \in [Section -> Region]
BY NullIsAddress, MemoryAssumption DEF NothingFound, Region, Addr

LEMMA InitialTypes == Init => TypeInv
<1> SUFFICES ASSUME Init PROVE TypeInv
  OBVIOUS
<1>1. pc = "idle" /\ file = NoFile
  BY DEF Init, LoaderInit
<1>2. ObjectTypeOK
  BY NullIsAddress, UnsetAssumption DEF Init, LoaderInit, ObjectInit, ObjectTypeOK
<1>3. LoaderTypeOK
  BY <1>1, <1>2, NothingFoundIsFound DEF Init, LoaderInit, LoaderTypeOK
<1>4. argc \in 0 .. 3
  BY DEF Init
<1> QED BY <1>1, <1>3, <1>4, NullIsAddress DEF Init, MachOInit, TypeInv, VariablesOK, Files

\* The operations of the object keep its types.
LEMMA BeginLoadTypes ==
  ASSUME ObjectTypeOK, BeginLoad
  PROVE  ObjectTypeOK'
<1>1. memfile_' \in Addr /\ heap' \subseteq Block
  BY NullIsAddress DEF BeginLoad, ObjectTypeOK, Freed
<1>2. loads' \in Nat /\ accepted' \subseteq 0 .. loads'
  BY DEF BeginLoad, ObjectTypeOK
<1> QED BY <1>1, <1>2 DEF BeginLoad, ObjectTypeOK

LEMMA AllocateTypes ==
  ASSUME ObjectTypeOK, NEW size \in Addr, Allocate(size)
  PROVE  ObjectTypeOK'
<1>1. PICK a \in Places :
        memfile_' = a /\ heap' = heap \union {[at |-> a, size |-> size, load |-> loads]}
  BY DEF Allocate
<1>2. a \in Addr
  BY MemoryAssumption
<1>3. [at |-> a, size |-> size, load |-> loads] \in Block
  BY <1>2 DEF Block, ObjectTypeOK
<1> QED BY <1>1, <1>2, <1>3 DEF Allocate, ObjectTypeOK

LEMMA SetDebugTypes ==
  ASSUME ObjectTypeOK, NEW debug \in [Section -> Region], SetDebugPointers(debug)
  PROVE  ObjectTypeOK'
<1>1. accepted' \subseteq 0 .. loads
  BY DEF SetDebugPointers, ObjectTypeOK
<1> QED BY <1>1 DEF SetDebugPointers, ObjectTypeOK

LEMMA NamesAreNames ==
  ASSUME ObjectTypeOK
  PROVE  NamePlaces \subseteq Name
<1>1. ASSUME NEW s \in NameSection, NEW place \in NamesAt[s] PROVE NameIn(s, place) \in Name
  <2>1. place \in Addr /\ debug_[s].ptr \in Addr /\ loads \in Nat
    BY <1>1, NamesAssumption DEF ObjectTypeOK, NameSection, Section, Region
  <2> QED BY <1>1, <2>1, PlusIsAddress DEF NameIn, Name
<1> QED BY <1>1 DEF NamePlaces

LEMMA GetAllClassesTypes ==
  ASSUME ObjectTypeOK, GetAllClasses
  PROVE  ObjectTypeOK'
<1>1. CASE AddNames
  <2>1. PICK found_names \in SUBSET NamePlaces : names' = names \union found_names
    BY <1>1 DEF AddNames
  <2>2. NamePlaces \subseteq Name
    BY NamesAreNames
  <2> QED BY <1>1, <2>1, <2>2 DEF AddNames, ObjectTypeOK
<1>2. CASE UNCHANGED object
  BY <1>2 DEF object, ObjectTypeOK
<1> QED BY <1>1, <1>2 DEF GetAllClasses

LEMMA DestroyTypes ==
  ASSUME ObjectTypeOK, Destroy
  PROVE  ObjectTypeOK'
BY DEF Destroy, Freed, ObjectTypeOK

\* The steps that both kinds of Load have.
LEMMA CallLoadTypes ==
  ASSUME TypeInv, NEW f \in Files, CallLoad(f)
  PROVE  LoaderTypeOK' /\ file' \in Files
<1>1. ObjectTypeOK'
  BY BeginLoadTypes DEF TypeInv, VariablesOK, LoaderTypeOK, CallLoad
<1> QED BY <1>1 DEF TypeInv, VariablesOK, LoaderTypeOK, CallLoad

LEMMA RefuseTypes ==
  ASSUME TypeInv, Refuse
  PROVE  LoaderTypeOK' /\ file' \in Files /\ pc' = "idle"
<1>1. ObjectTypeOK'
  BY DEF Refuse, TypeInv, VariablesOK, LoaderTypeOK, object, ObjectTypeOK
<1> QED BY <1>1, NothingFoundIsFound DEF TypeInv, VariablesOK, LoaderTypeOK, Refuse, Return

LEMMA CheckFoundTypes ==
  ASSUME TypeInv, CheckFound
  PROVE  LoaderTypeOK' /\ file' \in Files /\ pc' = "idle"
<1>1. CASE SetDebugPointers(found) /\ Return("loaded")
  <2>1. ObjectTypeOK'
    BY <1>1, SetDebugTypes DEF TypeInv, VariablesOK, LoaderTypeOK
  <2> QED BY <1>1, <2>1, NothingFoundIsFound DEF TypeInv, VariablesOK, LoaderTypeOK, Return
<1>2. CASE Refuse
  BY <1>2, RefuseTypes
<1> QED BY <1>1, <1>2 DEF CheckFound

LEMMA ReadFileTypes ==
  ASSUME TypeInv, ReadFile
  PROVE  LoaderTypeOK' /\ file' \in Files /\ pc' = "headers"
<1>1. file.size \in Addr
  BY FileSize DEF ReadFile
<1>2. ObjectTypeOK'
  BY <1>1, AllocateTypes DEF ReadFile, TypeInv, VariablesOK, LoaderTypeOK
<1> QED BY <1>2 DEF ReadFile, TypeInv, VariablesOK, LoaderTypeOK

LEMMA QuietLoaderTypes ==
  ASSUME TypeInv, UNCHANGED <<object, file, returned>>,
         pc' \in {"headers", "archs", "magic", "commands", "sections"}, i' \in Nat,
         found' \in [Section -> Region]
  PROVE  LoaderTypeOK' /\ file' \in Files
<1>1. ObjectTypeOK'
  BY DEF TypeInv, VariablesOK, LoaderTypeOK, object, ObjectTypeOK
<1> QED BY <1>1 DEF TypeInv, VariablesOK, LoaderTypeOK

LEMMA ElfLoadTypes ==
  ASSUME TypeInv, pc # "idle", user # "macho", ElfLoad, UNCHANGED <<macho, program>>
  PROVE  TypeInv'
<1> USE DEF macho, program
<1>1. SUFFICES LoaderTypeOK' /\ file' \in Files /\ file' = file
  BY DEF TypeInv, VariablesOK, FileOfItsKind
<1>2. file' = file
  BY DEF ElfLoad, CantOpen, ReadFile, CantRead, CheckHeaders, ReadShdr, EndOfShdrs,
         CheckFound, Refuse, Return
<1>3. CASE CantOpen \/ CantRead
  BY <1>2, <1>3, RefuseTypes DEF CantOpen, CantRead
<1>4. CASE ReadFile
  BY <1>2, <1>4, ReadFileTypes
<1>5. CASE CheckHeaders
  <2>1. CASE Refuse
    BY <1>2, <2>1, RefuseTypes
  <2>2. CASE pc' = "sections" /\ UNCHANGED <<object, file, i, found, returned>>
    BY <1>2, <2>2, QuietLoaderTypes DEF TypeInv, VariablesOK, LoaderTypeOK
  <2> QED BY <1>5, <2>1, <2>2 DEF CheckHeaders
<1>6. CASE ReadShdr
  <2>1. i \in Nat /\ i' \in Nat /\ found \in [Section -> Region] /\ memfile_ \in Addr
    BY <1>6 DEF ReadShdr, TypeInv, VariablesOK, LoaderTypeOK, ObjectTypeOK
  <2>2. PICK shdr \in HeadersAt(i) :
          found' = Note(shdr.sh_name, memfile_, shdr.sh_offset, shdr.sh_size)
    BY <1>6 DEF ReadShdr
  <2>3. shdr.sh_offset \in Addr /\ shdr.sh_size \in Addr
    BY <2>1, <2>2, HeadersAreShdrs DEF Elf64_Shdr
  <2>4. found' \in [Section -> Region]
    BY <2>1, <2>2, <2>3, NoteIsFound
  <2> QED BY <1>2, <1>6, <2>1, <2>4, QuietLoaderTypes DEF ReadShdr
<1>7. CASE EndOfShdrs
  BY <1>2, <1>7, CheckFoundTypes DEF EndOfShdrs
<1> QED BY <1>3, <1>4, <1>5, <1>6, <1>7 DEF ElfLoad

LEMMA U32IsAddress == U32 \subseteq Addr
<1>1. MaxU32 \in Addr
  BY MachOAssumption
<1> QED BY <1>1, MemoryAssumption DEF U32, Addr

\* A fat_arch and a load command of the file, and a section of the segment found.
LEMMA ArchFields ==
  ASSUME TypeInv, pc # "idle", user = "macho", i < Len(file.archs)
  PROVE  file.archs[i + 1].offset \in Addr
<1>1. PICK call \in MachOCalls : file = call.file
  BY DEF TypeInv, FileOfItsKind, MachOFiles
<1>2. file.archs \in Seq(fat_arch)
  BY <1>1, MachOAssumption
<1>3. i + 1 \in 1 .. Len(file.archs)
  BY <1>2 DEF TypeInv, VariablesOK, LoaderTypeOK
<1>4. file.archs[i + 1] \in fat_arch
  BY <1>2, <1>3
<1>5. file.archs[i + 1].offset \in U32
  BY <1>4 DEF fat_arch
<1> QED BY <1>5, U32IsAddress

LEMMA CommandFields ==
  ASSUME TypeInv, pc # "idle", user = "macho", NEW n \in 1 .. Len(Header.commands)
  PROVE  /\ Header.commands[n].cmdsize \in Addr
         /\ Header.commands[n].sections \in Seq(section_64)
<1>1. Header.commands \in Seq(load_command)
  BY HeaderAtPlace DEF Header, mach_header_64
<1>2. Header.commands[n] \in load_command
  BY <1>1
<1> QED BY <1>2, U32IsAddress DEF load_command

LEMMA SectionFields ==
  ASSUME TypeInv, pc = "sections", user = "macho", i < Len(Sections)
  PROVE  Sections[i + 1].offset \in Addr /\ Sections[i + 1].size \in Addr
<1>1. Sections \in Seq(section_64)
  BY CommandFields DEF Sections, TypeInv, FileOfItsKind
<1>2. i + 1 \in 1 .. Len(Sections)
  BY <1>1 DEF TypeInv, VariablesOK, LoaderTypeOK
<1>3. Sections[i + 1] \in section_64
  BY <1>1, <1>2
<1> QED BY <1>3, U32IsAddress DEF section_64

LEMMA SizeIsAddress ==
  ASSUME NEW s \in Structure
  PROVE  SizeOf[s] \in Addr
BY MachOAssumption, U32IsAddress

\* A step of MachOFile that only moves on.
LEMMA QuietMachOTypes ==
  ASSUME TypeInv, pc # "idle", user = "macho", UNCHANGED <<object, file, returned, program>>,
         pc' \in {"headers", "archs", "magic", "commands", "sections"}, i' \in Nat,
         found' \in [Section -> Region],
         target_arch' = target_arch, header' \in Addr, command' \in Addr, dwarf_seg' \in Nat,
         pc' = "sections" => dwarf_seg' \in 1 .. Len(Header'.commands)
  PROVE  TypeInv'
<1>1. LoaderTypeOK' /\ file' \in Files
  BY QuietLoaderTypes
<1>2. FileOfItsKind'
  BY DEF TypeInv, FileOfItsKind, program
<1> QED BY <1>1, <1>2 DEF TypeInv, VariablesOK, program

\* The end of a Load.
LEMMA EndOfLoadTypes ==
  ASSUME TypeInv, LoaderTypeOK', file' \in Files, pc' = "idle", UNCHANGED <<macho, program>>
  PROVE  TypeInv'
BY DEF TypeInv, VariablesOK, macho, program

LEMMA MachOLoadTypes ==
  ASSUME TypeInv, pc # "idle", user = "macho", MachOLoad, UNCHANGED program
  PROVE  TypeInv'
<1>1. /\ i \in Nat /\ found \in [Section -> Region] /\ memfile_ \in Addr
      /\ header \in Addr /\ command \in Addr /\ dwarf_seg \in Nat
  BY DEF TypeInv, VariablesOK, LoaderTypeOK, ObjectTypeOK
<1>2. CASE Fails
  BY <1>2, RefuseTypes, EndOfLoadTypes DEF Fails
<1>3. CASE (CantOpen \/ CantRead) /\ UNCHANGED macho
  BY <1>3, RefuseTypes, EndOfLoadTypes DEF CantOpen, CantRead
<1>4. CASE ReadFile /\ UNCHANGED macho
  <2>1. LoaderTypeOK' /\ file' \in Files /\ pc' = "headers" /\ file' = file
    BY <1>4, ReadFileTypes DEF ReadFile
  <2> QED BY <1>4, <2>1 DEF TypeInv, VariablesOK, FileOfItsKind, macho, program
<1>5. CASE CheckMachHeader /\ ~Fails
  <2>1. UNCHANGED <<object, file, found, returned, target_arch, command, dwarf_seg>>
    BY <1>5 DEF CheckMachHeader, GoTo, macho
  <2>2. pc' \in {"magic", "archs"} /\ i' = 0 /\ header' \in {header, memfile_}
    BY <1>5 DEF CheckMachHeader, GoTo, macho
  <2> QED BY <1>1, <2>1, <2>2, QuietMachOTypes
<1>6. CASE ReadArch /\ ~Fails
  <2>1. UNCHANGED <<object, file, found, returned, target_arch, command, dwarf_seg>>
    BY <1>6 DEF ReadArch, GoTo, NextTurn, macho
  <2>2. Plus(memfile_, file.archs[i + 1].offset) \in Addr
    BY <1>1, <1>6, ArchFields, PlusIsAddress DEF ReadArch
  <2>3. /\ pc' \in {"archs", "magic"} /\ i' \in Nat
        /\ header' \in {header, Plus(memfile_, file.archs[i + 1].offset)}
    BY <1>1, <1>6 DEF ReadArch, GoTo, NextTurn, macho
  <2> QED BY <1>1, <2>1, <2>2, <2>3, QuietMachOTypes
<1>7. CASE CheckMagic /\ ~Fails
  <2>1. UNCHANGED <<object, file, found, returned, target_arch, header, dwarf_seg>>
    BY <1>7 DEF CheckMagic, GoTo
  <2>2. pc' = "commands" /\ i' = 0 /\ command' = Plus(header, SizeOf["mach_header_64"])
    BY <1>7 DEF CheckMagic, GoTo
  <2>3. command' \in Addr
    BY <1>1, <2>2, PlusIsAddress, SizeIsAddress DEF Structure
  <2> QED BY <1>1, <2>1, <2>2, <2>3, QuietMachOTypes
<1>8. CASE ReadCommand /\ ~Fails
  <2>1. UNCHANGED <<object, file, found, returned, target_arch, header>>
    BY <1>8 DEF ReadCommand, GoTo, NextTurn
  <2>2. Header' = Header
    BY <2>1 DEF Header, HeaderAt, object
  <2>3. i + 1 \in 1 .. Len(Header.commands)
    <3>1. Header.commands \in Seq(load_command)
      BY HeaderAtPlace DEF Header, mach_header_64
    <3> QED BY <1>1, <1>8, <3>1 DEF ReadCommand
  <2>4. /\ Plus(command, SizeOf["segment_command_64"]) \in Addr
        /\ Plus(command, Header.commands[i + 1].cmdsize) \in Addr
    BY <1>1, <2>3, CommandFields, PlusIsAddress, SizeIsAddress DEF Structure
  <2>5. /\ pc' \in {"commands", "sections"} /\ i' \in Nat
        /\ command' \in {Plus(command, SizeOf["segment_command_64"]),
                        Plus(command, Header.commands[i + 1].cmdsize)}
        /\ dwarf_seg' \in {dwarf_seg, i + 1}
        /\ pc' = "sections" => dwarf_seg' = i + 1
    BY <1>1, <1>8 DEF ReadCommand, GoTo, NextTurn
  <2> QED BY <1>1, <2>1, <2>2, <2>3, <2>4, <2>5, QuietMachOTypes
<1>9. CASE ReadSection64 /\ ~Fails
  <2>1. /\ UNCHANGED <<object, file, returned, target_arch, header, dwarf_seg>>
        /\ pc = "sections" /\ i < Len(Sections)
        /\ pc' = "sections" /\ i' \in Nat
        /\ command' = Plus(command, SizeOf["section_64"])
        /\ found' = Note(Sections[i + 1].sectname, header, Sections[i + 1].offset,
                        Sections[i + 1].size)
    BY <1>1, <1>9 DEF ReadSection64, NextTurn
  <2>2. Header' = Header
    BY <2>1 DEF Header, HeaderAt, object
  <2>3. command' \in Addr
    BY <1>1, <2>1, PlusIsAddress, SizeIsAddress DEF Structure
  <2>4. found' \in [Section -> Region]
    BY <1>1, <2>1, SectionFields, NoteIsFound
  <2>5. dwarf_seg' \in 1 .. Len(Header'.commands)
    BY <2>1, <2>2 DEF TypeInv, FileOfItsKind
  <2> QED BY <1>1, <2>1, <2>3, <2>4, <2>5, QuietMachOTypes
<1>10. CASE EndOfSections
  BY <1>10, CheckFoundTypes, EndOfLoadTypes DEF EndOfSections
<1>11. NoArch => Fails
  BY DEF NoArch
<1>12. NoDwarf => Fails
  BY DEF NoDwarf
<1> QED BY <1>2, <1>3, <1>4, <1>5, <1>6, <1>7, <1>8, <1>9, <1>10, <1>11, <1>12 DEF MachOLoad

LEMMA LoadStepTypes ==
  ASSUME TypeInv, LoadStep
  PROVE  TypeInv'
<1>1. pc # "idle"
  BY DEF LoadStep, ElfLoad, MachOLoad, CantOpen, ReadFile, CantRead, CheckHeaders, ReadShdr,
         EndOfShdrs, CheckMachHeader, ReadArch, NoArch, CheckMagic, ReadCommand, NoDwarf,
         ReadSection64, EndOfSections
<1> QED BY <1>1, ElfLoadTypes, MachOLoadTypes DEF LoadStep

\* The calls of other users.
LEMMA CallElfLoadTypes ==
  ASSUME TypeInv, CallElfLoad
  PROVE  /\ LoaderTypeOK' /\ file' \in ElfFiles /\ file' \in Files
         /\ UNCHANGED macho
BY CallLoadTypes DEF CallElfLoad, CallLoad, Files

LEMMA ObjectCallTypes ==
  ASSUME TypeInv, pc = "idle", GetAllClasses \/ Destroy, UNCHANGED <<loader, macho>>
  PROVE  LoaderTypeOK' /\ file' \in Files /\ pc' = "idle"
<1>1. ObjectTypeOK'
  BY GetAllClassesTypes, DestroyTypes DEF TypeInv, VariablesOK, LoaderTypeOK
<1> QED BY <1>1 DEF TypeInv, VariablesOK, LoaderTypeOK, loader

LEMMA UserCallsTypes ==
  ASSUME TypeInv, UserCalls
  PROVE  TypeInv'
<1> USE DEF program
<1>1. UNCHANGED program /\ pc = "idle" /\ user # "main"
  BY DEF UserCalls
<1>2. CASE user = "elf" /\ CallElfLoad
  <2>1. LoaderTypeOK' /\ file' \in ElfFiles /\ file' \in Files /\ UNCHANGED macho
    BY <1>2, CallElfLoadTypes
  <2> QED BY <1>1, <1>2, <2>1 DEF TypeInv, VariablesOK, FileOfItsKind, macho
<1>3. CASE user = "macho" /\ \E call \in MachOCalls : CallMachOLoad(call)
  <2>1. PICK call \in MachOCalls : CallMachOLoad(call)
    BY <1>3
  <2>2. call.file \in Files /\ call.file \in MachOFiles
    BY DEF Files, MachOFiles
  <2>3. LoaderTypeOK' /\ file' \in Files /\ file' \in MachOFiles /\ pc' = "open"
    BY <2>1, <2>2, CallLoadTypes DEF CallMachOLoad, CallLoad
  <2>4. target_arch' = call.arch /\ header' = Nullptr /\ command' = Nullptr /\ dwarf_seg' = 0
    BY <2>1 DEF CallMachOLoad
  <2> QED BY <1>1, <1>3, <2>3, <2>4, NullIsAddress DEF TypeInv, VariablesOK, FileOfItsKind
<1>4. CASE (GetAllClasses \/ Destroy) /\ UNCHANGED <<loader, macho>>
  BY <1>1, <1>4, ObjectCallTypes, EndOfLoadTypes
<1> QED BY <1>1, <1>2, <1>3, <1>4 DEF UserCalls

\* The calls of main.
LEMMA MainTypes ==
  ASSUME TypeInv, Main
  PROVE  TypeInv'
<1> USE DEF Finish, GoOn
<1> DEFINE ProgramTypes == /\ user \in {"main", "elf", "macho"} /\ argc \in 0 .. 3
                           /\ at \in {"start", "load", "walk", "print", "return", "end"}
                           /\ printed \subseteq Name /\ rc \in 0 .. 2
<1>1. ProgramTypes' /\ user' = "main"
  <2>1. ProgramTypes /\ names \subseteq Name /\ user = "main"
    BY DEF Main, TypeInv, VariablesOK, LoaderTypeOK, ObjectTypeOK
  <2> QED BY <2>1 DEF Main, MainWithoutPath, MainLoads, MainFails, MainLoaded, MainWalks, WalkExits,
                      MainPrints, MainReturns
<1> HIDE DEF ProgramTypes
<1>2. CASE MainLoads
  <2>1. LoaderTypeOK' /\ file' \in ElfFiles /\ file' \in Files /\ UNCHANGED macho
    BY <1>2, CallElfLoadTypes DEF MainLoads
  <2>2. at' = "load"
    BY <1>2 DEF MainLoads
  <2> QED BY <1>1, <2>1, <2>2 DEF TypeInv, VariablesOK, FileOfItsKind, macho, ProgramTypes
<1>3. ASSUME pc = "idle", UNCHANGED <<object, loader, macho>>
      PROVE  TypeInv'
  <2>1. LoaderTypeOK' /\ file' \in Files /\ pc' = "idle"
    BY <1>3 DEF TypeInv, VariablesOK, LoaderTypeOK, ObjectTypeOK, object, loader
  <2> QED BY <1>1, <1>3, <2>1 DEF TypeInv, VariablesOK, macho, ProgramTypes
<1>4. ASSUME pc = "idle", GetAllClasses \/ Destroy, UNCHANGED <<loader, macho>>
      PROVE  TypeInv'
  <2>1. LoaderTypeOK' /\ file' \in Files /\ pc' = "idle"
    BY <1>4, ObjectCallTypes
  <2> QED BY <1>1, <1>4, <2>1 DEF TypeInv, VariablesOK, macho, ProgramTypes
<1>5. ~MainLoads => pc = "idle"
  BY DEF Main, MainWithoutPath, MainFails, MainLoaded, MainWalks, WalkExits, MainPrints, MainReturns,
         TypeInv, FileOfItsKind
<1>6. \/ MainLoads
      \/ UNCHANGED <<object, loader, macho>>
      \/ (GetAllClasses \/ Destroy) /\ UNCHANGED <<loader, macho>>
  BY DEF Main, MainWithoutPath, MainFails, MainLoaded, MainWalks, WalkExits, MainPrints, MainReturns
<1> QED BY <1>2, <1>3, <1>4, <1>5, <1>6

LEMMA TypesPreserved ==
  ASSUME TypeInv, [Next]_vars
  PROVE  TypeInv'
<1>1. CASE UNCHANGED vars
  <2>1. Header' = Header
    BY <1>1 DEF Header, HeaderAt, vars, object, loader, macho
  <2> QED BY <1>1, <2>1 DEF TypeInv, VariablesOK, LoaderTypeOK, ObjectTypeOK, FileOfItsKind, vars, object,
                            loader, macho, program
<1> QED BY <1>1, LoadStepTypes, UserCallsTypes, MainTypes DEF Next

\* A loop begins with its first entry, and goes on while there is one.
LEMMA ElfTurns ==
  ASSUME TypeInv, TurnOK, user # "macho", ElfLoad, UNCHANGED program
  PROVE  TurnOK'
<1>1. i \in Nat /\ user' = user
  BY DEF TypeInv, VariablesOK, LoaderTypeOK, program
<1>2. ASSUME Refuse PROVE TurnOK'
  BY <1>2 DEF Refuse, Return, TurnOK
<1>3. CASE CantOpen \/ CantRead
  BY <1>2, <1>3 DEF CantOpen, CantRead
<1>4. CASE ReadFile
  BY <1>4 DEF ReadFile, TurnOK
<1>5. file.sections \in Seq(Elf64_Shdr)
  <2>1. pc # "idle"
    BY DEF ElfLoad, CantOpen, ReadFile, CantRead, CheckHeaders, ReadShdr, EndOfShdrs
  <2> QED BY <2>1, ElfAssumption DEF TypeInv, FileOfItsKind, Elf64_Ehdr
<1>6. Len(file.sections) \in Nat
  BY <1>5
<1>7. CASE CheckHeaders
  <2>1. CASE pc' = "sections" /\ UNCHANGED <<object, file, i, found, returned>>
    <3>1. i = 0
      BY <1>7 DEF CheckHeaders, TurnOK
    <3> QED BY <1>1, <1>6, <2>1, <3>1 DEF TurnOK
  <2> QED BY <1>2, <1>7, <2>1 DEF CheckHeaders
<1>8. CASE ReadShdr
  <2>1. pc' = "sections" /\ i' <= Len(file.sections) /\ file' = file
    BY <1>1, <1>6, <1>8 DEF ReadShdr
  <2> QED BY <1>1, <2>1 DEF TurnOK
<1>9. CASE EndOfShdrs
  BY <1>2, <1>9 DEF EndOfShdrs, CheckFound, Return, TurnOK
<1> QED BY <1>3, <1>4, <1>7, <1>8, <1>9 DEF ElfLoad

LEMMA MachOTurns ==
  ASSUME TypeInv, TurnOK, user = "macho", MachOLoad, UNCHANGED program
  PROVE  TurnOK'
<1>1. i \in Nat /\ user' = user
  BY DEF TypeInv, VariablesOK, LoaderTypeOK, program
<1>2. pc # "idle"
  BY DEF MachOLoad, CantOpen, ReadFile, CantRead, CheckMachHeader, ReadArch, NoArch, CheckMagic,
         ReadCommand, NoDwarf, ReadSection64, EndOfSections
<1>3. ASSUME Refuse PROVE TurnOK'
  BY <1>3 DEF Refuse, Return, TurnOK
<1>4. CASE CantOpen \/ CantRead
  BY <1>3, <1>4 DEF CantOpen, CantRead
<1>5. CASE Fails \/ NoArch \/ NoDwarf
  BY <1>3, <1>5 DEF Fails, NoArch, NoDwarf
<1>6. CASE ReadFile
  BY <1>6 DEF ReadFile, TurnOK
<1>7. Len(file.archs) \in Nat
  <2>1. PICK call \in MachOCalls : file = call.file
    BY <1>2 DEF TypeInv, FileOfItsKind, MachOFiles
  <2> QED BY <2>1, MachOAssumption
<1>8. ASSUME NEW offset PROVE Len(HeaderAt(offset).commands) \in Nat
  BY <1>2, HeaderAtPlace DEF mach_header_64
<1>9. CASE CheckMachHeader /\ ~Fails
  <2>1. pc' \in {"magic", "archs"} /\ i' = 0 /\ file' = file
    BY <1>9 DEF CheckMachHeader, GoTo
  <2> QED BY <1>1, <1>7, <2>1 DEF TurnOK
<1>10. CASE ReadArch /\ ~Fails
  <2>1. /\ file' = file
        /\ \/ pc' = "magic" /\ i' = 0
           \/ pc' = "archs" /\ i' = i + 1 /\ i < Len(file.archs)
    BY <1>10 DEF ReadArch, GoTo, NextTurn
  <2> QED BY <1>1, <1>7, <2>1 DEF TurnOK
<1>11. CASE CheckMagic /\ ~Fails
  <2>1. pc' = "commands" /\ i' = 0 /\ UNCHANGED <<file, memfile_, header>>
    BY <1>11 DEF CheckMagic, GoTo, object
  <2>2. Header' = Header
    BY <2>1 DEF Header, HeaderAt
  <2> QED BY <1>1, <1>8, <2>1, <2>2 DEF TurnOK, Header
<1>12. CASE ReadCommand /\ ~Fails
  <2>1. UNCHANGED <<file, memfile_, header>> /\ i < Len(Header.commands)
    BY <1>12 DEF ReadCommand, GoTo, NextTurn, object
  <2>2. Header' = Header /\ Len(Header.commands) \in Nat
    BY <1>8, <2>1 DEF Header, HeaderAt
  <2>3. \/ pc' = "sections" /\ i' = 0 /\ dwarf_seg' = i + 1
        \/ pc' = "commands" /\ i' = i + 1
    BY <1>12 DEF ReadCommand, GoTo, NextTurn
  <2>4. CASE pc' = "commands" /\ i' = i + 1
    BY <1>1, <2>1, <2>2, <2>4 DEF TurnOK
  <2>5. CASE pc' = "sections" /\ i' = 0 /\ dwarf_seg' = i + 1
    <3>1. Header.commands \in Seq(load_command)
      BY <1>2, HeaderAtPlace DEF Header, mach_header_64
    <3>2. dwarf_seg' \in DOMAIN Header.commands
      BY <1>1, <2>1, <2>2, <2>5, <3>1
    <3>3. Header.commands[dwarf_seg'].sections \in Seq(section_64)
      <4>1. Header.commands[dwarf_seg'] \in load_command
        BY <3>1, <3>2
      <4> QED BY <4>1 DEF load_command
    <3>4. 0 <= Len(Header.commands[dwarf_seg'].sections)
      BY <3>3
    <3> QED BY <1>1, <2>2, <2>5, <3>2, <3>4 DEF TurnOK, Sections
  <2> QED BY <2>3, <2>4, <2>5
<1>13. CASE ReadSection64 /\ ~Fails
  <2>1. /\ UNCHANGED <<file, memfile_, header, dwarf_seg>> /\ pc = "sections" /\ pc' = "sections"
        /\ i < Len(Sections) /\ i' = i + 1
    BY <1>13 DEF ReadSection64, NextTurn, object
  <2>2. Header' = Header
    BY <2>1 DEF Header, HeaderAt
  <2>3. Sections' = Sections
    BY <2>1, <2>2 DEF Sections
  <2>4. dwarf_seg \in DOMAIN Header.commands
    BY <2>1 DEF TurnOK
  <2>5. Len(Sections) \in Nat
    <3>1. Header.commands \in Seq(load_command)
      BY <1>2, HeaderAtPlace DEF Header, mach_header_64
    <3>2. Header.commands[dwarf_seg] \in load_command
      BY <2>4, <3>1
    <3>3. Sections \in Seq(section_64)
      BY <3>2 DEF Sections, load_command
    <3> QED BY <3>3
  <2> QED BY <1>1, <2>1, <2>2, <2>3, <2>4, <2>5 DEF TurnOK
<1>14. CASE EndOfSections
  BY <1>3, <1>14 DEF EndOfSections, CheckFound, Return, TurnOK
<1> QED BY <1>4, <1>5, <1>6, <1>9, <1>10, <1>11, <1>12, <1>13, <1>14 DEF MachOLoad

LEMMA TurnsPreserved ==
  ASSUME TypeInv, TurnOK, [Next]_vars
  PROVE  TurnOK'
<1>1. ASSUME UNCHANGED <<object, loader, macho, user>> PROVE TurnOK'
  <2>1. UNCHANGED <<pc, i, file, memfile_, header, dwarf_seg, user>>
    BY <1>1 DEF object, loader, macho
  <2>2. Header' = Header
    BY <2>1 DEF Header, HeaderAt
  <2>3. Sections' = Sections
    BY <2>1, <2>2 DEF Sections
  <2> QED BY <2>1, <2>2, <2>3 DEF TurnOK
<1>2. CASE LoadStep
  BY <1>2, ElfTurns, MachOTurns DEF LoadStep
<1>3. ASSUME NEW f, CallLoad(f) PROVE TurnOK'
  BY <1>3 DEF CallLoad, TurnOK
<1>4. ASSUME pc = "idle", UNCHANGED loader PROVE TurnOK'
  BY <1>4 DEF loader, TurnOK
<1>5. CASE UserCalls
  BY <1>3, <1>4, <1>5 DEF UserCalls, CallElfLoad, CallMachOLoad
<1>6. CASE MainLoads
  BY <1>3, <1>6 DEF MainLoads, CallElfLoad
<1>7. CASE Main /\ ~MainLoads
  <2>1. pc = "idle"
    BY <1>7 DEF Main, MainWithoutPath, MainFails, MainLoaded, MainWalks, WalkExits, MainPrints,
                MainReturns, TypeInv, FileOfItsKind
  <2>2. UNCHANGED loader
    BY <1>7 DEF Main, MainWithoutPath, MainFails, MainLoaded, MainWalks, WalkExits, MainPrints,
                MainReturns, Finish
  <2> QED BY <1>4, <2>1, <2>2
<1>8. CASE UNCHANGED vars
  BY <1>1, <1>8 DEF vars, program
<1> QED BY <1>2, <1>5, <1>6, <1>7, <1>8 DEF Next, Main

\* Whatever is loaded, every variable has its type, and the loop of a Load is at an entry
\* of its list or behind the last one: no section header, architecture, load command or
\* section is read that is not counted.
THEOREM TypesCorrect == Spec => []TypeOK
<1>1. TypeInv /\ [Next]_vars => TypeInv'
  BY TypesPreserved
<1>2. TypeInv /\ TurnOK /\ [Next]_vars => TurnOK'
  BY TurnsPreserved
<1>3. Init => TurnOK
  BY DEF Init, LoaderInit, TurnOK
<1>4. TypeInv /\ TurnOK => TypeOK
  BY DEF TypeInv, TypeOK
<1> QED BY <1>1, <1>2, <1>3, <1>4, InitialTypes, PTL DEF Spec

(***************************************************************************)
(* Every Load, and main, is a DebugFile.                                   *)
(***************************************************************************)

\* The operations on the object are the same in both.
LEMMA SameOperations ==
  /\ BeginLoad <=> Promise!BeginLoad
  /\ \A size : Allocate(size) <=> Promise!Allocate(size)
  /\ \A debug : SetDebugPointers(debug) <=> Promise!SetDebugPointers(debug)
  /\ GetAllClasses <=> Promise!GetAllClasses
  /\ Destroy <=> Promise!Destroy
  /\ Promise!object = object
<1>1. BeginLoad <=> Promise!BeginLoad
  BY DEF BeginLoad, Promise!BeginLoad, Freed, Promise!Freed, Nullptr, Promise!Nullptr
<1>2. ASSUME NEW size PROVE Allocate(size) <=> Promise!Allocate(size)
  BY DEF Allocate, Promise!Allocate, Fits, Promise!Fits
<1>3. ASSUME NEW debug PROVE SetDebugPointers(debug) <=> Promise!SetDebugPointers(debug)
  BY DEF SetDebugPointers, Promise!SetDebugPointers
<1>4. GetAllClasses <=> Promise!GetAllClasses
  BY DEF GetAllClasses, Promise!GetAllClasses, AddNames, Promise!AddNames, NamePlaces,
         Promise!NamePlaces, NameIn, Promise!NameIn, NameSection, Promise!NameSection, Plus,
         Promise!Plus, object, Promise!object
<1>5. Destroy <=> Promise!Destroy
  BY DEF Destroy, Promise!Destroy, Freed, Promise!Freed, Nullptr, Promise!Nullptr
<1>6. Promise!object = object
  BY DEF object, Promise!object
<1> QED BY <1>1, <1>2, <1>3, <1>4, <1>5, <1>6

\* The sections that the check at the end lets pass lie in the copy of the file.
LEMMA CheckedSectionsInFile ==
  ASSUME TypeInv, AllValid
  PROVE  /\ SectionsInFile(found)
         /\ found \in [Section -> Promise!RegionsOfFile]
<1>1. memfile_ \in Addr /\ filesize_ \in Addr /\ found \in [Section -> Region]
  BY DEF TypeInv, VariablesOK, LoaderTypeOK, ObjectTypeOK
<1>2. ASSUME NEW s \in Section
      PROVE  /\ memfile_ <= found[s].ptr
             /\ found[s].ptr + found[s].size < memfile_ + filesize_
             /\ found[s] \in Promise!RegionsOfFile
  <2>1. found[s] \in Region
    BY <1>1
  <2>2. PICK ptr \in Addr, size \in Addr : found[s] = [ptr |-> ptr, size |-> size]
    BY <2>1 DEF Region
  <2>3. memfile_ <= ptr /\ ptr + size < memfile_ + filesize_
    BY <1>1, <2>2, ValidMeansInside DEF AllValid
  <2>4. ptr \in memfile_ .. memfile_ + filesize_ /\ size \in 0 .. filesize_
    BY <1>1, <2>3, MemoryAssumption DEF Addr
  <2> QED BY <2>2, <2>3, <2>4 DEF Promise!RegionsOfFile
<1> QED BY <1>1, <1>2 DEF SectionsInFile

LEMMA RefuseRefines ==
  ASSUME Refuse, pc # "idle"
  PROVE  Promise!Next
<1>1. pc' = "idle" /\ UNCHANGED object
  BY DEF Refuse, Return
<1> QED BY <1>1, SameOperations DEF phase, Promise!Next, Promise!Refuse, Promise!object, object

LEMMA CheckFoundRefines ==
  ASSUME TypeInv, CheckFound, pc = "sections"
  PROVE  Promise!Next
<1>1. CASE Refuse
  BY <1>1, RefuseRefines
<1>2. CASE AllValid /\ SetDebugPointers(found) /\ Return("loaded")
  <2>1. debug_' = found /\ pc' = "idle" /\ SetDebugPointers(debug_')
    BY <1>2 DEF SetDebugPointers, Return
  <2>2. debug_' \in [Promise!Section -> Promise!RegionsOfFile]
    BY <1>2, <2>1, CheckedSectionsInFile DEF Section, Promise!Section
  <2> QED BY <1>2, <2>1, <2>2, SameOperations DEF phase, Promise!Next, Promise!Accept
<1> QED BY <1>1, <1>2 DEF CheckFound

LEMMA ReadFileRefines ==
  ASSUME TypeInv, ReadFile
  PROVE  Promise!Next
<1>1. file.size \in Addr /\ filesize_' = file.size
  BY FileSize DEF ReadFile, Allocate
<1>2. filesize_' \in Promise!Addr /\ Promise!Allocate(filesize_')
  BY <1>1, SameOperations DEF ReadFile, Addr, Promise!Addr
<1> QED BY <1>2 DEF ReadFile, phase, Promise!Next, Promise!CopyFile

\* The steps inside a Load that end nothing leave the object alone.
LEMMA QuietRefines ==
  ASSUME pc \notin {"idle", "open"}, pc' \notin {"idle", "open"}, UNCHANGED object
  PROVE  UNCHANGED Promise!vars
BY DEF phase, Promise!vars, Promise!object, object

LEMMA LoadStepRefines ==
  ASSUME TypeInv, LoadStep
  PROVE  Promise!Next \/ UNCHANGED Promise!vars
<1>1. CASE CantOpen \/ CantRead
  BY <1>1, RefuseRefines DEF CantOpen, CantRead
<1>2. CASE ReadFile
  BY <1>2, ReadFileRefines
<1>3. CASE CheckHeaders \/ ReadShdr
  BY <1>3, RefuseRefines, QuietRefines DEF CheckHeaders, ReadShdr
<1>4. CASE EndOfShdrs \/ EndOfSections
  BY <1>4, CheckFoundRefines DEF EndOfShdrs, EndOfSections
<1>5. CASE \/ CheckMachHeader \/ ReadArch \/ NoArch \/ CheckMagic \/ ReadCommand \/ NoDwarf
           \/ ReadSection64
  <2>1. pc \notin {"idle", "open"}
    BY <1>5 DEF CheckMachHeader, ReadArch, NoArch, CheckMagic, ReadCommand, NoDwarf, ReadSection64
  <2>2. Refuse \/ (pc' \notin {"idle", "open"} /\ UNCHANGED object)
    BY <1>5 DEF CheckMachHeader, ReadArch, NoArch, CheckMagic, ReadCommand, NoDwarf, ReadSection64,
                Fails, GoTo, NextTurn
  <2> QED BY <2>1, <2>2, RefuseRefines, QuietRefines
<1> QED BY <1>1, <1>2, <1>3, <1>4, <1>5 DEF LoadStep, ElfLoad, MachOLoad

LEMMA CallRefines ==
  ASSUME NEW f, CallLoad(f)
  PROVE  Promise!Next
BY SameOperations DEF CallLoad, phase, Promise!Next, Promise!CallLoad

LEMMA ObjectCallRefines ==
  ASSUME pc = "idle", GetAllClasses \/ Destroy, UNCHANGED loader
  PROVE  Promise!Next
BY SameOperations DEF loader, phase, Promise!Next, Promise!CallGetAllClasses, Promise!CallDestructor

LEMMA UserCallsRefine ==
  ASSUME UserCalls
  PROVE  Promise!Next
BY CallRefines, ObjectCallRefines DEF UserCalls, CallElfLoad, CallMachOLoad

LEMMA MainRefines ==
  ASSUME TypeInv, Main
  PROVE  Promise!Next \/ UNCHANGED Promise!vars
<1>1. CASE MainLoads
  BY <1>1, CallRefines DEF MainLoads, CallElfLoad
<1>2. ~MainLoads => pc = "idle"
  BY DEF Main, MainWithoutPath, MainFails, MainLoaded, MainWalks, WalkExits, MainPrints, MainReturns,
         TypeInv, FileOfItsKind, Finish, GoOn
<1>3. \/ MainLoads
      \/ UNCHANGED <<object, loader>>
      \/ (GetAllClasses \/ Destroy) /\ UNCHANGED loader
  BY DEF Main, MainWithoutPath, MainFails, MainLoaded, MainWalks, WalkExits, MainPrints, MainReturns,
         Finish, GoOn
<1>4. UNCHANGED <<object, loader>> => UNCHANGED Promise!vars
  BY DEF object, loader, phase, Promise!vars, Promise!object
<1> QED BY <1>1, <1>2, <1>3, <1>4, ObjectCallRefines

LEMMA PromiseStep ==
  ASSUME TypeInv, [Next]_vars
  PROVE  [Promise!Next]_Promise!vars
<1>1. CASE UNCHANGED vars
  BY <1>1 DEF vars, object, loader, phase, Promise!vars, Promise!object
<1> QED BY <1>1, LoadStepRefines, UserCallsRefine, MainRefines DEF Next

\* Whatever the format and whatever the file, an object that Load, GetAllClasses and the
\* destructor are called on does what DebugFile promises.
THEOREM LoadersKeepPromise == Spec => KeepsPromise
<1>1. Init => Promise!Init
  BY DEF Init, LoaderInit, ObjectInit, phase, Promise!Init, Promise!ObjectInit, Nullptr, Promise!Nullptr
<1>2. TypeInv /\ [Next]_vars => TypeInv'
  BY TypesPreserved
<1>3. TypeInv /\ [Next]_vars => [Promise!Next]_Promise!vars
  BY PromiseStep
<1> QED BY <1>1, <1>2, <1>3, InitialTypes, PTL DEF Spec, KeepsPromise, Promise!Spec

(***************************************************************************)
(* Memory.  From here on the steps of DebugFile are enough.                *)
(***************************************************************************)

\* What a Load in progress has done to the object, and how blocks and names are marked.
LoadInProgress ==
  /\ phase \in {"idle", "opening", "holding"}
  /\ phase # "idle" => alive /\ ~is_loaded_ /\ loads \notin accepted
                        /\ \A n \in names : n.load # loads
  /\ phase = "opening" => \A b \in heap : b.load # loads
  /\ phase = "holding" => memfile_ # Nullptr /\ \A b \in heap : b.load = loads => b.at = memfile_
  /\ \A b \in heap : b.load <= loads /\ b.at + b.size < Top
  /\ \A n \in names : n.load <= loads

MemoryInv == OwnsItsBlock /\ LoadedInFile /\ LoadedFilesReturned /\ NamesInFile /\ LoadInProgress

LEMMA InitialMemory == Init => MemoryInv
BY DEF Init, LoaderInit, ObjectInit, MemoryInv, OwnsItsBlock, LoadedInFile, LoadedFilesReturned,
       NamesInFile, LoadInProgress, phase

LEMMA BeginLoadKeepsMemory ==
  ASSUME ObjectTypeOK, MemoryInv, phase = "idle", BeginLoad, phase' = "opening"
  PROVE  MemoryInv'
<1>1. /\ alive /\ alive' /\ ~is_loaded_' /\ loads \in Nat /\ loads' = loads + 1
      /\ UNCHANGED <<filesize_, debug_, names, accepted>>
      /\ heap' \subseteq heap
  BY DEF ObjectTypeOK, BeginLoad, Freed
<1>2. OwnsItsBlock'
  <2>1. CASE is_loaded_
    BY <2>1 DEF BeginLoad, OwnsItsBlock
  <2>2. CASE ~is_loaded_
    BY <2>2 DEF BeginLoad, MemoryInv, OwnsItsBlock
  <2> QED BY <2>1, <2>2
<1>3. LoadedInFile'
  BY <1>1 DEF LoadedInFile
<1>4. LoadedFilesReturned'
  <2>1. ASSUME NEW b \in heap' PROVE b.load \notin accepted
    <3>1. b \in heap /\ (is_loaded_ => b.at # memfile_)
      BY <2>1 DEF BeginLoad, Freed
    <3> QED BY <3>1 DEF MemoryInv, LoadedFilesReturned
  <2> QED BY <1>1, <2>1 DEF LoadedFilesReturned
<1>5. NamesInFile'
  <2>1. \A n \in names : n.load \in Nat /\ n.load <= loads
    BY DEF ObjectTypeOK, Name, MemoryInv, LoadInProgress
  <2> QED BY <1>1, <2>1 DEF NamesInFile
<1>6. LoadInProgress'
  <2>1. /\ \A b \in heap : b.load \in Nat /\ b.load <= loads /\ b.at + b.size < Top
        /\ \A n \in names : n.load \in Nat /\ n.load <= loads
    BY DEF ObjectTypeOK, Block, Name, MemoryInv, LoadInProgress
  <2>2. loads' \notin accepted'
    BY <1>1 DEF ObjectTypeOK
  <2> QED BY <1>1, <2>1, <2>2 DEF LoadInProgress
<1> QED BY <1>2, <1>3, <1>4, <1>5, <1>6 DEF MemoryInv

LEMMA AllocateKeepsMemory ==
  ASSUME ObjectTypeOK, MemoryInv, phase = "opening", NEW size, Allocate(size), phase' = "holding"
  PROVE  MemoryInv'
<1>1. /\ filesize_' = size /\ ~is_loaded_ /\ loads \notin accepted
      /\ UNCHANGED <<is_loaded_, debug_, alive, names, loads, accepted>>
  BY DEF Allocate, MemoryInv, LoadInProgress
<1>2. PICK a \in Places :
        /\ memfile_' = a /\ heap' = heap \union {[at |-> a, size |-> size, load |-> loads]}
        /\ a + size < Top
  BY DEF Allocate, Fits
<1>3. OwnsItsBlock'
  <2> DEFINE b == [at |-> a, size |-> size, load |-> loads]
  <2>1. b \in heap' /\ b.at = memfile_' /\ b.size = filesize_'
    BY <1>1, <1>2
  <2> QED BY <2>1 DEF OwnsItsBlock
<1>4. LoadedInFile'
  BY <1>1 DEF LoadedInFile
<1>5. LoadedFilesReturned'
  BY <1>1, <1>2 DEF MemoryInv, LoadedFilesReturned
<1>6. NamesInFile'
  BY <1>1 DEF MemoryInv, LoadInProgress, NamesInFile
<1>7. LoadInProgress'
  <2>1. memfile_' # Nullptr
    BY <1>2, MemoryAssumption
  <2>2. \A b \in heap' : b.load <= loads /\ b.at + b.size < Top
    BY <1>2 DEF ObjectTypeOK, MemoryInv, LoadInProgress
  <2>3. \A b \in heap' : b.load = loads => b.at = memfile_'
    BY <1>2 DEF MemoryInv, LoadInProgress
  <2> QED BY <1>1, <2>1, <2>2, <2>3 DEF MemoryInv, LoadInProgress
<1> QED BY <1>3, <1>4, <1>5, <1>6, <1>7 DEF MemoryInv

LEMMA AcceptKeepsMemory ==
  ASSUME ObjectTypeOK, MemoryInv, phase = "holding", phase' = "idle",
         SetDebugPointers(debug_'), debug_' \in [Section -> Promise!RegionsOfFile]
  PROVE  MemoryInv'
<1>1. /\ is_loaded_' /\ ~is_loaded_ /\ accepted' = accepted \union {loads} /\ memfile_ # Nullptr
      /\ UNCHANGED <<memfile_, filesize_, alive, heap, names, loads>>
  BY DEF SetDebugPointers, MemoryInv, LoadInProgress
<1>2. SectionsInFile(debug_')
  BY DEF ObjectTypeOK, Addr, SectionsInFile, Promise!RegionsOfFile
<1>3. OwnsItsBlock'
  BY <1>1 DEF MemoryInv, OwnsItsBlock
<1>4. LoadedInFile'
  BY <1>1, <1>2, <1>3 DEF LoadedInFile, SectionsInFile
<1>5. LoadedFilesReturned'
  BY <1>1 DEF MemoryInv, LoadedFilesReturned, LoadInProgress
<1>6. NamesInFile'
  BY <1>1 DEF MemoryInv, LoadInProgress, NamesInFile
<1>7. LoadInProgress'
  BY <1>1 DEF MemoryInv, LoadInProgress
<1> QED BY <1>3, <1>4, <1>5, <1>6, <1>7 DEF MemoryInv

LEMMA QuietKeepsMemory ==
  ASSUME MemoryInv, UNCHANGED object, phase' \in {phase, "idle"}
  PROVE  MemoryInv'
<1>1. UNCHANGED <<memfile_, filesize_, is_loaded_, debug_, alive, heap, names, loads, accepted>>
  BY DEF object
<1>2. OwnsItsBlock' /\ LoadedInFile' /\ LoadedFilesReturned' /\ NamesInFile'
  BY <1>1 DEF MemoryInv, OwnsItsBlock, LoadedInFile, SectionsInFile, LoadedFilesReturned, NamesInFile,
              NameLive
<1>3. LoadInProgress'
  BY <1>1 DEF MemoryInv, LoadInProgress
<1> QED BY <1>2, <1>3 DEF MemoryInv

LEMMA GetAllClassesKeepsMemory ==
  ASSUME ObjectTypeOK, MemoryInv, GetAllClasses, UNCHANGED phase
  PROVE  MemoryInv'
<1>1. CASE UNCHANGED object
  BY <1>1, QuietKeepsMemory
<1>2. CASE is_loaded_ /\ alive /\ AddNames
  <2>1. PICK found_names \in SUBSET NamePlaces : names' = names \union found_names
    BY <1>2 DEF AddNames
  <2>2. UNCHANGED <<memfile_, filesize_, is_loaded_, debug_, alive, heap, loads, accepted>>
    BY <1>2 DEF AddNames
  <2>3. PICK block \in heap : block.at = memfile_ /\ block.size = filesize_
    BY <1>2 DEF MemoryInv, LoadedInFile, OwnsItsBlock
  <2>4. ASSUME NEW s \in NameSection, NEW place \in NamesAt[s], place < debug_[s].size
        PROVE  LET a == NameIn(s, place).at IN block.at <= a /\ a < block.at + block.size
    <3> DEFINE p == debug_[s].ptr
               z == debug_[s].size
    <3>1. place \in Nat /\ p \in Nat /\ z \in Nat /\ memfile_ \in Nat /\ filesize_ \in Nat
      BY NamesAssumption DEF ObjectTypeOK, NameSection, Section, Region, Addr
    <3>2. block.at + block.size < Top
      BY DEF MemoryInv, LoadInProgress
    <3>3. place < z /\ memfile_ <= p /\ p + z < memfile_ + filesize_
      BY <1>2, <2>4 DEF MemoryInv, LoadedInFile, SectionsInFile, NameSection, Section
    <3>4. NameIn(s, place).at = Plus(p, place)
      BY DEF NameIn
    <3> HIDE DEF p, z
    <3>5. Plus(p, place) = p + place
      BY <3>1, <3>2, <3>3, <2>3, MemoryAssumption DEF Plus
    <3>6. memfile_ <= p + place /\ p + place < memfile_ + filesize_
      BY <3>1, <3>3
    <3> QED BY <2>3, <3>4, <3>5, <3>6
  <2>5. NamesInFile'
    <3>1. ASSUME NEW n \in names', n.load = loads, n.place < debug_[n.section].size
          PROVE  NameLive(n)'
      <4>1. CASE n \in names
        BY <2>2, <3>1, <4>1 DEF MemoryInv, NamesInFile, NameLive
      <4>2. CASE n \in NamePlaces
        <5>1. PICK s \in NameSection : \E place \in NamesAt[s] : n = NameIn(s, place)
          BY <4>2 DEF NamePlaces
        <5>2. PICK place \in NamesAt[s] : n = NameIn(s, place)
          BY <5>1
        <5>3. n.place = place /\ n.section = s
          BY <5>2 DEF NameIn
        <5>4. block.at <= n.at /\ n.at < block.at + block.size
          BY <2>2, <2>4, <3>1, <5>2, <5>3
        <5> QED BY <2>2, <2>3, <5>4 DEF NameLive
      <4> QED BY <2>1, <4>1, <4>2
    <3> QED BY <2>2, <3>1 DEF NamesInFile
  <2>6. LoadInProgress'
    <3>1. \A n \in NamePlaces : n.load = loads
      BY DEF NamePlaces, NameIn
    <3>2. \A n \in names' : n.load <= loads
      BY <2>1, <3>1 DEF ObjectTypeOK, MemoryInv, LoadInProgress
    <3>3. phase = "idle" /\ phase' = "idle"
      BY <1>2 DEF MemoryInv, LoadInProgress
    <3> QED BY <2>2, <3>2, <3>3 DEF MemoryInv, LoadInProgress
  <2>7. OwnsItsBlock' /\ LoadedInFile' /\ LoadedFilesReturned'
    BY <2>2 DEF MemoryInv, OwnsItsBlock, LoadedInFile, SectionsInFile, LoadedFilesReturned
  <2> QED BY <2>5, <2>6, <2>7 DEF MemoryInv
<1> QED BY <1>1, <1>2 DEF GetAllClasses

LEMMA DestroyKeepsMemory ==
  ASSUME MemoryInv, Destroy, phase = "idle", phase' = "idle"
  PROVE  MemoryInv'
<1>1. ~alive' /\ names' = {} /\ UNCHANGED <<is_loaded_, loads, accepted>> /\ heap' \subseteq heap
  BY DEF Destroy, Freed
<1>2. ASSUME NEW b \in heap' PROVE b.load \notin accepted
  <2>1. b \in heap /\ (memfile_ # Nullptr => b.at # memfile_)
    BY <1>2 DEF Destroy, Freed
  <2>2. b.load \in accepted => alive /\ is_loaded_ /\ b.at = memfile_
    BY <2>1 DEF MemoryInv, LoadedFilesReturned
  <2> QED BY <2>1, <2>2 DEF MemoryInv, LoadedInFile
<1>3. LoadInProgress'
  BY <1>1 DEF MemoryInv, LoadInProgress
<1> QED BY <1>1, <1>2, <1>3 DEF MemoryInv, OwnsItsBlock, LoadedInFile, LoadedFilesReturned, NamesInFile

LEMMA PromiseKeepsMemory ==
  ASSUME ObjectTypeOK, MemoryInv, [Promise!Next]_Promise!vars
  PROVE  MemoryInv'
<1>1. CASE UNCHANGED Promise!vars
  <2>1. UNCHANGED object /\ UNCHANGED phase
    BY <1>1 DEF Promise!vars, Promise!object, object
  <2> QED BY <2>1, QuietKeepsMemory
<1>2. CASE Promise!CallLoad
  BY <1>2, SameOperations, BeginLoadKeepsMemory DEF Promise!CallLoad
<1>3. CASE Promise!CopyFile
  BY <1>3, SameOperations, AllocateKeepsMemory DEF Promise!CopyFile
<1>4. CASE Promise!Refuse
  <2>1. UNCHANGED object /\ phase' = "idle"
    BY <1>4 DEF Promise!Refuse, Promise!object, object
  <2> QED BY <2>1, QuietKeepsMemory
<1>5. CASE Promise!Accept
  BY <1>5, SameOperations, AcceptKeepsMemory DEF Promise!Accept, Section, Promise!Section
<1>6. CASE Promise!CallGetAllClasses
  BY <1>6, SameOperations, GetAllClassesKeepsMemory DEF Promise!CallGetAllClasses
<1>7. CASE Promise!CallDestructor
  BY <1>7, SameOperations, DestroyKeepsMemory DEF Promise!CallDestructor
<1> QED BY <1>1, <1>2, <1>3, <1>4, <1>5, <1>6, <1>7 DEF Promise!Next

LEMMA MemoryCorrect == Spec => []MemoryInv
<1>1. TypeInv /\ [Next]_vars => TypeInv'
  BY TypesPreserved
<1>2. TypeInv /\ MemoryInv /\ [Next]_vars => MemoryInv'
  <2> SUFFICES ASSUME TypeInv, MemoryInv, [Next]_vars PROVE MemoryInv'
    OBVIOUS
  <2>1. ObjectTypeOK
    BY DEF TypeInv, VariablesOK, LoaderTypeOK
  <2> QED BY <2>1, PromiseStep, PromiseKeepsMemory
<1> QED BY <1>1, <1>2, InitialTypes, InitialMemory, PTL DEF Spec

\* memfile_ is null or the object's own block, so that nothing is freed twice, whatever
\* Loads fail in between.
THEOREM BlockOwned == Spec => []OwnsItsBlock
<1>1. MemoryInv => OwnsItsBlock
  BY DEF MemoryInv
<1> QED BY <1>1, MemoryCorrect, PTL

\* What the walk over a loaded file reads lies in the copy of that file.
THEOREM SectionsInside == Spec => []LoadedInFile
<1>1. MemoryInv => LoadedInFile
  BY DEF MemoryInv
<1> QED BY <1>1, MemoryCorrect, PTL

\* Only the copy of a file that Load refused can be lost.
THEOREM LoadedReturned == Spec => []LoadedFilesReturned
<1>1. MemoryInv => LoadedFilesReturned
  BY DEF MemoryInv
<1> QED BY <1>1, MemoryCorrect, PTL

\* Until the next Load a name that begins inside its section points into memory that is
\* there, however the file was given up; nothing is said of a name beyond its section.
THEOREM NamesLive == Spec => []NamesInFile
<1>1. MemoryInv => NamesInFile
  BY DEF MemoryInv
<1> QED BY <1>1, MemoryCorrect, PTL

(***************************************************************************)
(* main.                                                                   *)
(***************************************************************************)

MainInv ==
  user = "main" =>
    /\ at \in {"walk", "print", "return"} => returned = "loaded"
    /\ at \in {"start", "load", "walk", "print"} => printed = {}
    /\ ExitCodeTells
    /\ at # "end" => alive
    /\ at = "start" \/ pc = "open" => heap = {}
    /\ \A b \in heap : alive /\ b.at = memfile_ /\ memfile_ # Nullptr

LEMMA InitialMain == Init => MainInv
BY DEF Init, LoaderInit, ObjectInit, MainInv, ExitCodeTells

\* A step of the one Load that main calls.
LEMMA LoadStepObject ==
  ASSUME LoadStep
  PROVE  /\ pc # "idle" /\ pc' # "open" /\ UNCHANGED program
         /\ \/ pc = "open" /\ \E size : Allocate(size)
            \/ UNCHANGED <<alive, heap, memfile_>>
<1>1. pc # "idle" /\ UNCHANGED program
  BY DEF LoadStep, ElfLoad, MachOLoad, CantOpen, ReadFile, CantRead, CheckHeaders, ReadShdr,
         EndOfShdrs, CheckMachHeader, ReadArch, NoArch, CheckMagic, ReadCommand, NoDwarf,
         ReadSection64, EndOfSections
<1>2. Refuse => pc' # "open" /\ UNCHANGED <<alive, heap, memfile_>>
  BY DEF Refuse, Return, object
<1>3. CheckFound => pc' # "open" /\ UNCHANGED <<alive, heap, memfile_>>
  BY <1>2 DEF CheckFound, SetDebugPointers, Return
<1>4. ReadFile => pc = "open" /\ pc' # "open" /\ \E size : Allocate(size)
  BY DEF ReadFile
<1>5. CASE CantOpen \/ CantRead \/ ReadFile
  BY <1>1, <1>2, <1>4, <1>5 DEF CantOpen, CantRead
<1>6. CASE CheckHeaders \/ ReadShdr \/ EndOfShdrs
  BY <1>1, <1>2, <1>3, <1>6 DEF CheckHeaders, ReadShdr, EndOfShdrs, object
<1>7. CASE \/ CheckMachHeader \/ ReadArch \/ NoArch \/ CheckMagic \/ ReadCommand \/ NoDwarf
           \/ ReadSection64 \/ EndOfSections
  BY <1>1, <1>2, <1>3, <1>7 DEF CheckMachHeader, ReadArch, NoArch, CheckMagic, ReadCommand, NoDwarf,
     ReadSection64, EndOfSections, Fails, GoTo, NextTurn, object
<1> QED BY <1>5, <1>6, <1>7 DEF LoadStep, ElfLoad, MachOLoad

LEMMA LoadStepKeepsMain ==
  ASSUME TypeInv, MainInv, LoadStep
  PROVE  MainInv'
<1>1. /\ pc # "idle" /\ pc' # "open" /\ UNCHANGED <<user, argc, at, printed, rc>>
      /\ \/ pc = "open" /\ \E size : Allocate(size)
         \/ UNCHANGED <<alive, heap, memfile_>>
  BY LoadStepObject DEF program
<1>2. user = "main" => at = "load"
  BY <1>1 DEF TypeInv, FileOfItsKind
<1>3. ASSUME user = "main", pc = "open", NEW size, Allocate(size)
      PROVE  \A b \in heap' : alive' /\ b.at = memfile_' /\ memfile_' # Nullptr
  <2>1. PICK a \in Places :
          memfile_' = a /\ heap' = heap \union {[at |-> a, size |-> size, load |-> loads]}
    BY <1>3 DEF Allocate
  <2>2. heap = {} /\ alive' = alive /\ a # Nullptr
    BY <1>3, MemoryAssumption DEF MainInv, Allocate
  <2>3. alive
    BY <1>2, <1>3 DEF MainInv
  <2> QED BY <2>1, <2>2, <2>3
<1>4. user = "main" => \A b \in heap' : alive' /\ b.at = memfile_' /\ memfile_' # Nullptr
  BY <1>1, <1>3 DEF MainInv
<1>5. UNCHANGED alive
  BY <1>1 DEF Allocate
<1> QED BY <1>1, <1>2, <1>4, <1>5 DEF MainInv, ExitCodeTells

LEMMA MainKeepsMain ==
  ASSUME TypeInv, MainInv, Main
  PROVE  MainInv'
<1> USE DEF MainInv, ExitCodeTells, Finish, GoOn
<1>1. user = "main"
  BY DEF Main
<1>2. CASE MainWithoutPath
  <2>1. argc \in 0 .. 3 /\ (pc # "idle" => at = "load")
    BY <1>1 DEF TypeInv, VariablesOK, FileOfItsKind
  <2> QED BY <1>1, <1>2, <2>1 DEF MainWithoutPath, object, loader
<1>3. CASE MainLoads
  BY <1>1, <1>3 DEF MainLoads, CallElfLoad, CallLoad, BeginLoad, Freed
<1>4. ASSUME Destroy PROVE heap' = {}
  BY <1>1, <1>4 DEF Destroy, Freed
<1>5. CASE MainFails \/ MainReturns
  BY <1>1, <1>4, <1>5 DEF MainFails, MainReturns, loader
<1>6. CASE MainLoaded \/ MainPrints
  BY <1>1, <1>6 DEF MainLoaded, MainPrints, object, loader
<1>7. GetAllClasses => UNCHANGED <<alive, heap, memfile_>>
  BY DEF GetAllClasses, AddNames, object
<1>8. CASE MainWalks \/ WalkExits
  BY <1>1, <1>7, <1>8 DEF MainWalks, WalkExits, loader
<1> QED BY <1>2, <1>3, <1>5, <1>6, <1>8 DEF Main

LEMMA MainCorrect == Spec => []MainInv
<1>1. TypeInv /\ [Next]_vars => TypeInv'
  BY TypesPreserved
<1>2. TypeInv /\ MainInv /\ [Next]_vars => MainInv'
  <2> SUFFICES ASSUME TypeInv, MainInv, [Next]_vars PROVE MainInv'
    OBVIOUS
  <2>1. CASE UNCHANGED vars
    BY <2>1 DEF vars, object, loader, program, MainInv, ExitCodeTells
  <2>2. CASE UserCalls
    BY <2>2 DEF UserCalls, program, MainInv
  <2> QED BY <2>1, <2>2, LoadStepKeepsMain, MainKeepsMain DEF Next
<1> QED BY <1>1, <1>2, InitialTypes, InitialMain, PTL DEF Spec

\* What main returns tells whether a file was loaded, and it prints of no other.
THEOREM ExitCodeCorrect == Spec => []ExitCodeTells
<1>1. MainInv => ExitCodeTells
  BY DEF MainInv, ExitCodeTells
<1> QED BY <1>1, MainCorrect, PTL

\* main loses no block, wherever its Load fails.
THEOREM MainReturnsMemory == Spec => []NothingLost
<1>1. MainInv => NothingLost
  BY DEF MainInv, NothingLost
<1> QED BY <1>1, MainCorrect, PTL

================================================================================
