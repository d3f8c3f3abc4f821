------------------------------ MODULE TableProofs -----------------------------
(***************************************************************************)
(* What ElfFile::Load and MachOFile::Load make of the tables of a file:    *)
(* which files they accept, which slice and which sections they take.  The *)
(* loops are compared with the promise that is stated without them.        *)
(***************************************************************************)
EXTENDS LoadingProofs, Induction, SequenceTheorems

(***************************************************************************)
(* How far a Load is.                                                      *)
(***************************************************************************)

\* From the copy on, memfile_ is the place of the whole file.
Copied ==
  pc \notin {"idle", "open"} =>
    /\ memfile_ \in Places /\ filesize_ = file.size /\ memfile_ + filesize_ < Top
    /\ file.opens /\ (pc # "headers" => file.reads)

\* The last of the first n headers that is named s; null as long as there is none.
ShdrNoted(s, n) ==
  \/ /\ \A k \in 1 .. n : file.sections[k].sh_name # s
     /\ found[s].ptr = Nullptr
  \/ \E k \in 1 .. n :
       /\ file.sections[k].sh_name = s
       /\ \A m \in 1 .. n : file.sections[m].sh_name = s => m <= k
       /\ found[s] = [ptr |-> Plus(memfile_, file.sections[k].sh_offset),
                      size |-> file.sections[k].sh_size]

\* ElfFile::Load has checked the headers and read the first i sections.
ElfProgress ==
  user # "macho" /\ pc = "sections" /\ TableWhole(file) =>
    /\ file.e_phoff < file.size /\ file.e_shoff < file.size
    /\ file.sections[file.e_shstrndx + 1].sh_offset < file.size
    /\ i <= Len(file.sections)
    /\ \A s \in Section : ShdrNoted(s, i)

\* MachOFile::Load has read the first i architectures, none of which serves.
ArchsPassed ==
  user = "macho" /\ pc = "archs" =>
    /\ file.headers[0].magic = "fat" /\ target_arch \in Supported
    /\ SizeOf["mach_header_64"] < file.size
    /\ i <= Len(file.archs)
    /\ \A j \in 1 .. i : ~Serves(file.archs[j], target_arch)
    /\ i > 0 => SizeOf["fat_header"] + i * SizeOf["fat_arch"] < file.size

\* The slice it has chosen.
Base == header - memfile_

SliceChosen ==
  user = "macho" /\ pc \in {"magic", "commands", "sections"} =>
    /\ memfile_ <= header /\ Bases(file, target_arch) = {Base}
    /\ SizeOf["mach_header_64"] < file.size
    /\ Base + SizeOf["mach_header_64"] < file.size

SliceBegins == Base \in DOMAIN file.headers /\ file.headers[Base].magic = "64"

\* The first i load commands are no __DWARF segment.
CommandsPassed ==
  user = "macho" /\ pc = "commands" =>
    /\ SliceBegins
    /\ i <= Len(Header.commands)
    /\ command = memfile_ + CommandPlaces(file, Base)[i]
    /\ \A k \in 1 .. i : ~IsDwarf(Header.commands[k])
    /\ CommandsWhole(file, Base, i)

\* The last of the first n sections of the segment that is named s.
SectionNoted(s, n) ==
  \/ /\ \A k \in 1 .. n : Sections[k].sectname # s
     /\ found[s].ptr = Nullptr
  \/ \E k \in 1 .. n :
       /\ Sections[k].sectname = s
       /\ \A m \in 1 .. n : Sections[m].sectname = s => m <= k
       /\ found[s] = [ptr |-> Plus(header, Sections[k].offset), size |-> Sections[k].size]

\* The segment it has found, and the first i sections of it.
SegmentPlace == CommandPlaces(file, Base)[dwarf_seg - 1]

SectionsPassed ==
  user = "macho" /\ pc = "sections" =>
    /\ SliceBegins
    /\ Segments(file, Base) = {[at |-> SegmentPlace, sections |-> Sections]}
    /\ i <= Len(Sections)
    /\ command = memfile_ + SegmentPlace + SizeOf["segment_command_64"]
                   + i * SizeOf["section_64"]
    /\ command < memfile_ + file.size
    /\ \A s \in Section : SectionNoted(s, i)

Progress ==
  /\ Copied /\ ElfProgress
  /\ ArchsPassed /\ SliceChosen /\ CommandsPassed /\ SectionsPassed
  /\ pc \in {"idle", "open", "headers"} => i = 0
  /\ pc # "sections" => found = NothingFound

\* What it makes of the file.
Outcome == LoadsExactly /\ TakesItsSections /\ RightSlice

TableInv == Progress /\ Outcome

(***************************************************************************)
(* Numbers.                                                                *)
(***************************************************************************)

LEMMA TimesNext ==
  ASSUME NEW a \in Nat, NEW c \in Nat
  PROVE  a * c \in Nat /\ (a + 1) * c = a * c + c
OBVIOUS

\* The recursive function of the places of load commands is one.
LEMMA PartialSums ==
  ASSUME NEW x \in Nat, NEW N \in Nat, NEW size \in [1 .. N -> Nat]
  PROVE  \E p \in [0 .. N -> Nat] :
           p[0] = x /\ \A n \in 1 .. N : p[n] = p[n - 1] + size[n]
<1> DEFINE step == [n \in 1 .. N |-> [sum \in Nat |-> sum + size[n]]]
<1>1. step \in StepsOn(Nat, N)
  BY DEF StepsOn
<1>2. \A n \in 1 .. N : \A sum \in Nat : step[n][sum] = sum + size[n]
  OBVIOUS
<1> HIDE DEF step
<1>3. PICK p : Iterates(p, Nat, N, x, step)
  BY <1>1, Iteration
<1>4. p \in [0 .. N -> Nat] /\ p[0] = x /\ \A n \in 1 .. N : p[n] = step[n][p[n - 1]]
  BY <1>3 DEF Iterates
<1>5. ASSUME NEW n \in 1 .. N PROVE p[n] = p[n - 1] + size[n]
  <2>1. p[n - 1] \in Nat
    BY <1>4
  <2> QED BY <1>2, <1>4, <2>1
<1> QED BY <1>4, <1>5

LEMMA CommandPlacesAre ==
  ASSUME NEW f, NEW base \in Nat, f.headers[base].commands \in Seq(load_command)
  PROVE  LET commands == f.headers[base].commands
             place == CommandPlaces(f, base)
         IN  /\ place \in [0 .. Len(commands) -> Nat]
             /\ place[0] = base + SizeOf["mach_header_64"]
             /\ \A n \in 1 .. Len(commands) :
                  place[n] = place[n - 1] + commands[n].cmdsize
<1> DEFINE commands == f.headers[base].commands
           N == Len(commands)
           x == base + SizeOf["mach_header_64"]
           Is(p) == p = [n \in 0 .. N |-> IF n = 0 THEN x ELSE p[n - 1] + commands[n].cmdsize]
<1>1. N \in Nat /\ x \in Nat
  BY SizeIsAddress DEF Structure, Addr
<1>2. PICK size : size = [n \in 1 .. N |-> commands[n].cmdsize]
  OBVIOUS
<1>3. ASSUME NEW n \in 1 .. N PROVE size[n] = commands[n].cmdsize /\ size[n] \in Nat
  <2>1. commands[n] \in load_command
    OBVIOUS
  <2>2. commands[n].cmdsize \in Addr
    <3> HIDE DEF commands
    <3> QED BY <2>1, U32IsAddress DEF load_command
  <2>3. size[n] = commands[n].cmdsize
    BY <1>2
  <2> QED BY <2>2, <2>3 DEF Addr
<1> HIDE DEF commands, N, x
<1>4. PICK p \in [0 .. N -> Nat] :
        p[0] = x /\ \A n \in 1 .. N : p[n] = p[n - 1] + size[n]
  <2>1. size \in [1 .. N -> Nat]
    BY <1>2, <1>3
  <2> QED BY <1>1, <2>1, PartialSums
<1>5. p = [n \in 0 .. N |-> IF n = 0 THEN x ELSE p[n - 1] + commands[n].cmdsize]
  <2>1. ASSUME NEW n \in 0 .. N
        PROVE  p[n] = IF n = 0 THEN x ELSE p[n - 1] + commands[n].cmdsize
    <3>1. n # 0 => n \in 1 .. N
      BY <1>1
    <3> QED BY <1>3, <1>4, <3>1
  <2> QED BY <1>4, <2>1
<1>6. Is(p)
  BY <1>5
<1>7. CommandPlaces(f, base) = CHOOSE q : Is(q)
  BY DEF CommandPlaces, N, x, commands
<1>8. Is(CHOOSE q : Is(q))
  <2> HIDE DEF Is
  <2> QED BY <1>6
<1>9. PICK q : q = CommandPlaces(f, base) /\ Is(q)
  BY <1>7, <1>8
<1>10. /\ DOMAIN q = 0 .. N /\ q[0] = x
       /\ \A n \in 1 .. N : q[n] = q[n - 1] + size[n]
  BY <1>1, <1>3, <1>9
<1>11. \A n \in 0 .. N : q[n] \in Nat
  <2> DEFINE T == {n \in 0 .. N : q[n] \notin Nat}
  <2>1. SUFFICES ASSUME T # {} PROVE FALSE
    OBVIOUS
  <2>2. T \in SUBSET Nat
    BY <1>1
  <2>3. PICK m \in T : \A k \in T : m <= k
    <3> HIDE DEF T
    <3> QED BY <2>1, <2>2, LeastNatural
  <2>4. m \in 1 .. N /\ m - 1 \in 0 .. N /\ ~(m <= m - 1)
    BY <1>1, <1>10
  <2>5. q[m - 1] \in Nat
    BY <2>3, <2>4
  <2> QED BY <1>3, <1>10, <2>4, <2>5
<1> QED BY <1>3, <1>9, <1>10, <1>11 DEF N, x, commands

\* The check of a part of the copy compares its place in the file with the file's size.
LEMMA InsideMeansInFile ==
  ASSUME memfile_ \in Addr, filesize_ \in Addr, memfile_ + filesize_ < Top,
         NEW offset \in Addr, NEW size \in Addr
  PROVE  IsValidFilePtr(Plus(memfile_, offset), size) <=> offset + size < filesize_
<1> DEFINE ptr == Plus(memfile_, offset)
<1>1. ptr \in Addr
  BY PlusIsAddress
<1>2. IsValidFilePtr(ptr, size) <=>
        memfile_ <= ptr /\ ptr + size < memfile_ + filesize_ /\ ptr + size < Top
  <2> HIDE DEF ptr
  <2> QED BY <1>1, ValidMeansInside
<1>3. ptr = IF memfile_ + offset < Top THEN memfile_ + offset ELSE memfile_ + offset - Top
  BY DEF Plus
<1> HIDE DEF ptr
<1>4. Top \in Nat /\ memfile_ \in Nat /\ filesize_ \in Nat /\ offset \in Nat /\ size \in Nat
      /\ offset < Top /\ ptr \in Nat
  BY <1>1, MemoryAssumption DEF Addr
<1>5. IsValidFilePtr(ptr, size) <=> offset + size < filesize_
  BY <1>2, <1>3, <1>4
<1> QED BY <1>5 DEF ptr

LEMMA NullIsOutside ==
  ASSUME memfile_ \in Places, filesize_ \in Addr, NEW size \in Addr
  PROVE  ~IsValidFilePtr(Nullptr, size)
<1>1. memfile_ \in Addr /\ memfile_ # 0
  BY MemoryAssumption DEF Nullptr
<1>2. ~(memfile_ <= 0)
  BY <1>1 DEF Addr
<1> QED BY <1>1, <1>2, NullIsAddress, ValidMeansInside DEF Nullptr

LEMMA NoteStep ==
  ASSUME found \in [Section -> Region], NEW name, NEW base, NEW offset, NEW size,
         found' = Note(name, base, offset, size), NEW s \in Section
  PROVE  found'[s] = IF name = s THEN [ptr |-> Plus(base, offset), size |-> size] ELSE found[s]
BY DEF Note

(***************************************************************************)
(* The steps both kinds of Load have.                                      *)
(***************************************************************************)

\* A call that has not returned, or has just begun, says nothing of its file.
LEMMA StillRunning ==
  ASSUME pc' # "idle"
  PROVE  Outcome'
BY DEF Outcome, LoadsExactly, TakesItsSections, RightSlice, Returned

LEMMA BeginsCopied ==
  ASSUME pc' \in {"open", "idle"}, i' = 0, found' = NothingFound
  PROVE  Progress'
BY DEF Progress, Copied, ElfProgress, ArchsPassed, SliceChosen, CommandsPassed, SectionsPassed

LEMMA ReadFileProgress ==
  ASSUME TypeInv, Progress, ReadFile
  PROVE  TableInv'
<1>1. PICK a \in Places : Fits(a, file.size) /\ memfile_' = a
  BY DEF ReadFile, Allocate
<1>2. /\ pc = "open" /\ pc' = "headers" /\ file.opens /\ filesize_' = file.size
      /\ file' = file /\ i' = i /\ found' = found
  BY DEF ReadFile, Allocate
<1>3. Copied'
  BY <1>1, <1>2 DEF Copied, Fits
<1>4. i' = 0 /\ found' = NothingFound
  BY <1>2 DEF Progress
<1>5. Progress'
  BY <1>2, <1>3, <1>4 DEF Progress, ElfProgress, ArchsPassed, SliceChosen, CommandsPassed,
                          SectionsPassed
<1> QED BY <1>2, <1>5, StillRunning DEF TableInv

\* A refusal is right when the file is not complete.
LEMMA RefusesRightly ==
  ASSUME Refuse, UNCHANGED <<user, target_arch>>,
         OfElf => ~ElfComplete(file),
         OfMachO => ~MachOComplete(file, target_arch)
  PROVE  TableInv'
<1>1. pc' = "idle" /\ returned' = "refused" /\ file' = file /\ i' = 0 /\ found' = NothingFound
  BY DEF Refuse, Return
<1>2. Outcome'
  BY <1>1 DEF Outcome, LoadsExactly, TakesItsSections, RightSlice, OfElf, OfMachO
<1> QED BY <1>1, <1>2, BeginsCopied DEF TableInv

\* The check at the end is right when it accepts the complete files and no others.
LEMMA ChecksRightly ==
  ASSUME TypeInv, CheckFound, UNCHANGED <<user, target_arch, header>>,
         OfElf => /\ AllValid <=> ElfComplete(file)
                  /\ AllValid => \A s \in Section : found[s] \in ElfRegions(file, s),
         OfMachO => /\ AllValid <=> MachOComplete(file, target_arch)
                    /\ AllValid => \A s \in Section : found[s] \in MachORegions(file, target_arch, s),
         OfMachO /\ file.headers[0].magic = "fat" =>
           \E k \in DOMAIN file.archs :
             /\ header = memfile_ + file.archs[k].offset
             /\ \/ ArchName(file.archs[k]) = target_arch
                \/ /\ target_arch # "arm64e"
                   /\ file.archs[k].cputype = TargetCpuType
                   /\ \A j \in 1 .. k - 1 : ArchName(file.archs[j]) # target_arch
  PROVE  TableInv'
<1>1. CASE ~AllValid
  <2>1. Refuse
    BY <1>1 DEF CheckFound
  <2> QED BY <1>1, <2>1, RefusesRightly
<1>2. CASE AllValid
  <2>1. /\ pc' = "idle" /\ returned' = "loaded" /\ file' = file /\ i' = 0 /\ found' = NothingFound
        /\ debug_' = found /\ memfile_' = memfile_
    BY <1>2 DEF CheckFound, Return, SetDebugPointers
  <2>2. LoadsExactly'
    BY <1>2, <2>1 DEF LoadsExactly, OfElf, OfMachO
  <2>3. TakesItsSections'
    <3>1. ASSUME OfElf, NEW s \in Section PROVE debug_'[s] \in ElfRegions(file, s)'
      BY <1>2, <2>1, <3>1 DEF ElfRegions
    <3>2. ASSUME OfMachO, NEW s \in Section PROVE debug_'[s] \in MachORegions(file, target_arch, s)'
      BY <1>2, <2>1, <3>2 DEF MachORegions
    <3>3. OfElf' = OfElf /\ OfMachO' = OfMachO
      BY <2>1 DEF OfElf, OfMachO
    <3> QED BY <3>1, <3>2, <3>3 DEF TakesItsSections
  <2>4. RightSlice'
    BY <2>1 DEF RightSlice, OfMachO, TargetCpuType
  <2> QED BY <2>1, <2>2, <2>3, <2>4, BeginsCopied DEF TableInv, Outcome
<1> QED BY <1>1, <1>2

(***************************************************************************)
(* ElfFile::Load.                                                          *)
(***************************************************************************)

LEMMA ElfFileFields ==
  ASSUME TypeInv, pc # "idle", user # "macho"
  PROVE  /\ file.size \in Addr /\ file.e_phoff \in Addr /\ file.e_shoff \in Addr
         /\ file.e_shstrndx \in Nat /\ file.sections \in Seq(Elf64_Shdr)
         /\ Len(file.sections) \in Nat /\ DOMAIN file.sections = 1 .. Len(file.sections)
         /\ \A n \in 1 .. Len(file.sections) :
              file.sections[n].sh_offset \in Addr /\ file.sections[n].sh_size \in Addr
<1>1. file \in Elf64_Ehdr
  BY ElfAssumption DEF TypeInv, FileOfItsKind
<1>2. file.sections \in Seq(Elf64_Shdr)
  BY <1>1 DEF Elf64_Ehdr
<1>3. ASSUME NEW n \in 1 .. Len(file.sections)
      PROVE  file.sections[n].sh_offset \in Addr /\ file.sections[n].sh_size \in Addr
  <2>1. file.sections[n] \in Elf64_Shdr
    BY <1>2
  <2> QED BY <2>1 DEF Elf64_Shdr
<1>4. /\ file.size \in Addr /\ file.e_phoff \in Addr /\ file.e_shoff \in Addr
      /\ file.e_shstrndx \in Nat
  BY <1>1 DEF Elf64_Ehdr
<1> QED BY <1>2, <1>3, <1>4, LenProperties

\* No header of a whole table is read from behind the file.
LEMMA ShdrsInTable ==
  ASSUME TypeInv, pc # "idle", user # "macho", TableWhole(file),
         NEW n \in Nat, n < Len(file.sections)
  PROVE  HeadersAt(n) = {file.sections[n + 1]} /\ n + 1 \in 1 .. Len(file.sections)
<1>1. file.e_shoff \in Nat /\ Len(file.sections) \in Nat /\ ShdrSize \in Nat /\ file.size \in Nat
  BY ElfFileFields, ElfAssumption DEF Addr
<1>2. n + 1 \in Nat /\ n + 1 <= Len(file.sections)
  BY <1>1
<1>3. (n + 1) * ShdrSize <= Len(file.sections) * ShdrSize
  BY <1>1, <1>2, TimesMonotonic
<1>4. (n + 1) * ShdrSize \in Nat /\ Len(file.sections) * ShdrSize \in Nat
  BY <1>1, <1>2, TimesMonotonic
<1>5. file.e_shoff + (n + 1) * ShdrSize <= file.size
  BY <1>1, <1>3, <1>4 DEF TableWhole
<1> QED BY <1>1, <1>2, <1>5 DEF HeadersAt, InTable

LEMMA BeginsMeansInFile ==
  ASSUME TypeInv, Copied, pc \notin {"idle", "open"}, NEW offset \in Addr
  PROVE  Begins(offset) <=> offset < file.size
<1>1. memfile_ \in Addr /\ filesize_ \in Addr /\ filesize_ = file.size
  BY DEF TypeInv, VariablesOK, LoaderTypeOK, ObjectTypeOK, Copied
<1>2. 0 \in Addr
  BY NullIsAddress DEF Nullptr
<1>3. Begins(offset) <=> offset + 0 < filesize_
  BY <1>1, <1>2, InsideMeansInFile DEF Begins, Copied
<1> QED BY <1>1, <1>3 DEF Addr

LEMMA CheckHeadersProgress ==
  ASSUME TypeInv, Progress, user # "macho", CheckHeaders, UNCHANGED <<macho, program>>
  PROVE  TableInv'
<1>1. /\ pc = "headers" /\ file.reads /\ file.size > 0 /\ Copied
      /\ i = 0 /\ found = NothingFound
  BY DEF CheckHeaders, WholeRead, Progress
<1>2. UNCHANGED <<user, target_arch>>
  BY DEF macho, program
<1>3. PICK shdr \in HeadersAt(file.e_shstrndx) :
        \/ ~GoodHeaders(shdr) /\ Refuse
        \/ /\ GoodHeaders(shdr)
           /\ pc' = "sections"
           /\ UNCHANGED <<object, file, i, found, returned>>
  BY DEF CheckHeaders
<1>4. ASSUME TableWhole(file)
      PROVE  GoodHeaders(shdr) <=>
               /\ file.e_phoff < file.size /\ file.e_shoff < file.size
               /\ file.sections[file.e_shstrndx + 1].sh_offset < file.size
  <2>1. file.e_shstrndx \in Nat /\ file.e_shstrndx < Len(file.sections)
    BY <1>1, <1>4, ElfFileFields DEF TableWhole
  <2>2. /\ shdr = file.sections[file.e_shstrndx + 1]
        /\ file.e_shstrndx + 1 \in 1 .. Len(file.sections)
    BY <1>1, <1>3, <1>4, <2>1, ShdrsInTable
  <2>3. shdr.sh_offset \in Addr /\ file.e_phoff \in Addr /\ file.e_shoff \in Addr /\ 0 \in Addr
    BY <1>1, <2>2, ElfFileFields, NullIsAddress DEF Nullptr
  <2>4. /\ Begins(0)
        /\ Begins(file.e_phoff) <=> file.e_phoff < file.size
        /\ Begins(file.e_shoff) <=> file.e_shoff < file.size
        /\ Begins(shdr.sh_offset) <=> shdr.sh_offset < file.size
    BY <1>1, <2>3, BeginsMeansInFile
  <2> QED BY <2>2, <2>4 DEF GoodHeaders
<1>5. CASE ~GoodHeaders(shdr) /\ Refuse
  <2>1. OfElf => ~ElfComplete(file)
    BY <1>4, <1>5 DEF OfElf, ElfComplete
  <2> QED BY <1>2, <1>5, <2>1, RefusesRightly DEF OfMachO
<1>6. CASE /\ GoodHeaders(shdr)
           /\ pc' = "sections"
           /\ UNCHANGED <<object, file, i, found, returned>>
  <2>1. Copied'
    BY <1>1, <1>6 DEF Copied, object
  <2>2. ElfProgress'
    <3>1. ASSUME TableWhole(file)
          PROVE  /\ i' <= Len(file.sections)
                 /\ \A s \in Section : ShdrNoted(s, i)'
      <4>1. Len(file.sections) \in Nat
        BY <1>1, ElfFileFields
      <4>2. \A k \in 1 .. i' : FALSE
        BY <1>1, <1>6
      <4>3. \A s \in Section : found'[s].ptr = Nullptr
        BY <1>1, <1>6 DEF NothingFound
      <4> QED BY <1>1, <1>6, <4>1, <4>2, <4>3 DEF ShdrNoted
    <3> QED BY <1>4, <1>6, <3>1 DEF ElfProgress
  <2>3. Progress'
    BY <1>2, <1>6, <2>1, <2>2
    DEF Progress, ArchsPassed, SliceChosen, CommandsPassed, SectionsPassed
  <2> QED BY <1>6, <2>3, StillRunning DEF TableInv
<1> QED BY <1>3, <1>5, <1>6

LEMMA ReadShdrProgress ==
  ASSUME TypeInv, Progress, user # "macho", ReadShdr, UNCHANGED <<macho, program>>
  PROVE  TableInv'
<1>1. /\ pc = "sections" /\ i \in Nat /\ i < Len(file.sections) /\ i' = i + 1
      /\ UNCHANGED <<object, pc, file, returned, user>>
      /\ found \in [Section -> Region]
  BY DEF ReadShdr, TypeInv, VariablesOK, LoaderTypeOK, program
<1>2. Copied'
  BY <1>1 DEF Progress, Copied, object
<1>3. ElfProgress'
  <2> SUFFICES ASSUME TableWhole(file) PROVE ElfProgress'
    BY <1>1 DEF ElfProgress
  <2>1. HeadersAt(i) = {file.sections[i + 1]}
    BY <1>1, ShdrsInTable
  <2> DEFINE shdr == file.sections[i + 1]
  <2>2. found' = Note(shdr.sh_name, memfile_, shdr.sh_offset, shdr.sh_size)
    BY <2>1 DEF ReadShdr
  <2>3. /\ file.e_phoff < file.size /\ file.e_shoff < file.size
        /\ file.sections[file.e_shstrndx + 1].sh_offset < file.size
        /\ \A s \in Section : ShdrNoted(s, i)
    BY <1>1 DEF Progress, ElfProgress
  <2>4. i' <= Len(file.sections)
    BY <1>1, ElfFileFields
  <2>5. ASSUME NEW s \in Section PROVE ShdrNoted(s, i)'
    <3>1. found'[s] = IF shdr.sh_name = s
                      THEN [ptr |-> Plus(memfile_, shdr.sh_offset), size |-> shdr.sh_size]
                      ELSE found[s]
      BY <1>1, <2>2, NoteStep
    <3>2. \A k \in 1 .. i + 1 : k \in 1 .. i \/ k = i + 1
      BY <1>1
    <3>3. i + 1 \in 1 .. i + 1 /\ \A k \in 1 .. i : k \in 1 .. i + 1 /\ k <= i + 1
      BY <1>1
    <3>4. UNCHANGED <<memfile_, file>>
      BY <1>1 DEF object
    <3>5. CASE shdr.sh_name = s
      <4>1. found'[s] = [ptr |-> Plus(memfile_, file.sections[i + 1].sh_offset),
                        size |-> file.sections[i + 1].sh_size]
        BY <3>1, <3>5
      <4>2. \A m \in 1 .. i + 1 : file.sections[m].sh_name = s => m <= i + 1
        BY <1>1
      <4> QED BY <1>1, <3>3, <3>4, <3>5, <4>1, <4>2 DEF ShdrNoted, Plus
    <3>6. CASE shdr.sh_name # s
      <4>1. found'[s] = found[s]
        BY <3>1, <3>6
      <4>2. ShdrNoted(s, i)
        BY <2>3
      <4>3. CASE (\A k \in 1 .. i : file.sections[k].sh_name # s) /\ found[s].ptr = Nullptr
        BY <1>1, <3>2, <3>4, <3>6, <4>1, <4>3 DEF ShdrNoted
      <4>4. CASE \E k \in 1 .. i :
                   /\ file.sections[k].sh_name = s
                   /\ \A m \in 1 .. i : file.sections[m].sh_name = s => m <= k
                   /\ found[s] = [ptr |-> Plus(memfile_, file.sections[k].sh_offset),
                                  size |-> file.sections[k].sh_size]
        <5>1. PICK k \in 1 .. i :
                /\ file.sections[k].sh_name = s
                /\ \A m \in 1 .. i : file.sections[m].sh_name = s => m <= k
                /\ found[s] = [ptr |-> Plus(memfile_, file.sections[k].sh_offset),
                               size |-> file.sections[k].sh_size]
          BY <4>4
        <5>2. \A m \in 1 .. i + 1 : file.sections[m].sh_name = s => m <= k
          BY <3>2, <3>6, <5>1
        <5> QED BY <1>1, <3>3, <3>4, <4>1, <5>1, <5>2 DEF ShdrNoted, Plus
      <4> QED BY <4>2, <4>3, <4>4 DEF ShdrNoted
    <3> QED BY <3>5, <3>6
  <2> QED BY <1>1, <2>3, <2>4, <2>5 DEF ElfProgress
<1>4. Progress'
  BY <1>1, <1>2, <1>3 DEF Progress, ArchsPassed, SliceChosen, CommandsPassed, SectionsPassed
<1> QED BY <1>1, <1>4, StillRunning DEF TableInv

LEMMA EndOfShdrsProgress ==
  ASSUME TypeInv, Progress, user # "macho", EndOfShdrs, UNCHANGED <<macho, program>>
  PROVE  TableInv'
<1>1. pc = "sections" /\ i = Len(file.sections) /\ CheckFound /\ Copied
  BY DEF EndOfShdrs, Progress
<1>2. /\ memfile_ \in Addr /\ filesize_ \in Addr /\ memfile_ \in Places
      /\ filesize_ = file.size /\ memfile_ + filesize_ < Top /\ file.opens /\ file.reads
      /\ found \in [Section -> Region]
  BY <1>1 DEF Copied, TypeInv, VariablesOK, LoaderTypeOK, ObjectTypeOK
<1>3. ASSUME TableWhole(file)
      PROVE  /\ AllValid <=> ElfComplete(file)
             /\ AllValid => \A s \in Section : found[s] \in ElfRegions(file, s)
  <2>1. /\ file.e_phoff < file.size /\ file.e_shoff < file.size
        /\ file.sections[file.e_shstrndx + 1].sh_offset < file.size
        /\ \A s \in Section : ShdrNoted(s, i)
    BY <1>1, <1>3 DEF Progress, ElfProgress
  <2> DEFINE Ends(s) == \E n \in LastShdr(file, s) :
               file.sections[n].sh_offset + file.sections[n].sh_size < file.size
  <2>2. ASSUME NEW s \in Section
        PROVE  /\ IsValidFilePtr(found[s].ptr, found[s].size) <=> Ends(s)
               /\ Ends(s) => found[s] \in ElfRegions(file, s)
    <3>1. DOMAIN file.sections = 1 .. i /\ i \in Nat
      BY <1>1, ElfFileFields
    <3>2. CASE (\A k \in 1 .. i : file.sections[k].sh_name # s) /\ found[s].ptr = Nullptr
      <4>1. ~Ends(s)
        BY <3>1, <3>2 DEF LastShdr
      <4>2. found[s].size \in Addr
        BY <1>2 DEF Region
      <4>3. ~IsValidFilePtr(found[s].ptr, found[s].size)
        BY <1>2, <3>2, <4>2, NullIsOutside
      <4> QED BY <4>1, <4>3
    <3>3. CASE \E k \in 1 .. i :
                 /\ file.sections[k].sh_name = s
                 /\ \A m \in 1 .. i : file.sections[m].sh_name = s => m <= k
                 /\ found[s] = [ptr |-> Plus(memfile_, file.sections[k].sh_offset),
                                size |-> file.sections[k].sh_size]
      <4>1. PICK k \in 1 .. i :
              /\ file.sections[k].sh_name = s
              /\ \A m \in 1 .. i : file.sections[m].sh_name = s => m <= k
              /\ found[s] = [ptr |-> Plus(memfile_, file.sections[k].sh_offset),
                             size |-> file.sections[k].sh_size]
        BY <3>3
      <4>2. LastShdr(file, s) = {k}
        <5>1. \A n \in LastShdr(file, s) : n \in Nat /\ n <= k /\ k <= n
          BY <3>1, <4>1 DEF LastShdr
        <5>2. k \in LastShdr(file, s)
          BY <3>1, <4>1 DEF LastShdr
        <5> QED BY <3>1, <5>1, <5>2
      <4> DEFINE o == file.sections[k].sh_offset
                 z == file.sections[k].sh_size
      <4>3. o \in Addr /\ z \in Addr
        BY <1>1, <4>1, ElfFileFields
      <4>4. found[s].ptr = Plus(memfile_, o) /\ found[s].size = z
        BY <4>1
      <4>5. Ends(s) <=> o + z < file.size
        BY <4>2
      <4>6. Ends(s) => found[s] \in ElfRegions(file, s)
        <5>1. ASSUME o + z < file.size PROVE Plus(memfile_, o) = memfile_ + o
          <6> HIDE DEF o, z
          <6> QED BY <1>2, <4>3, <5>1, MemoryAssumption DEF Plus, Addr
        <5> QED BY <4>1, <4>2, <4>5, <5>1 DEF ElfRegions
      <4>7. IsValidFilePtr(Plus(memfile_, o), z) <=> o + z < filesize_
        <5> HIDE DEF o, z
        <5> QED BY <1>2, <4>3, InsideMeansInFile
      <4> HIDE DEF o, z, Ends
      <4> QED BY <1>2, <4>4, <4>5, <4>6, <4>7
    <3> QED BY <2>1, <3>2, <3>3 DEF ShdrNoted
  <2>3. ElfComplete(file) <=> \A s \in Section : Ends(s)
    BY <1>2, <2>1 DEF ElfComplete
  <2> HIDE DEF Ends
  <2> QED BY <2>2, <2>3 DEF AllValid
<1>4. UNCHANGED <<user, target_arch, header>>
  BY DEF macho, program
<1> QED BY <1>1, <1>3, <1>4, ChecksRightly DEF OfElf, OfMachO

LEMMA ElfLoadProgress ==
  ASSUME TypeInv, Progress, user # "macho", ElfLoad, UNCHANGED <<macho, program>>
  PROVE  TableInv'
<1>1. ASSUME CantOpen \/ CantRead PROVE TableInv'
  <2>1. Refuse /\ pc # "idle"
    BY <1>1 DEF CantOpen, CantRead
  <2>2. ~ElfComplete(file)
    <3>1. CASE ~file.opens
      BY <3>1 DEF ElfComplete
    <3>2. CASE ~WholeRead
      BY <2>1, <3>2, ElfFileFields DEF ElfComplete, WholeRead, Addr
    <3> QED BY <1>1, <3>1, <3>2 DEF CantOpen, CantRead
  <2> QED BY <2>1, <2>2, RefusesRightly DEF OfMachO, macho, program
<1> QED BY <1>1, ReadFileProgress, CheckHeadersProgress, ReadShdrProgress, EndOfShdrsProgress
        DEF ElfLoad

(***************************************************************************)
(* MachOFile::Load: the slice.                                             *)
(***************************************************************************)

LEMMA Sizes ==
  ASSUME NEW s \in Structure
  PROVE  SizeOf[s] \in Nat /\ SizeOf[s] <= MaxU32 /\ SizeOf[s] \in Addr /\ MaxU32 \in Nat
<1>1. SizeOf[s] \in U32 /\ MaxU32 \in Addr
  BY MachOAssumption
<1> QED BY <1>1, SizeIsAddress DEF U32, Addr

LEMMA MachOFileFields ==
  ASSUME TypeInv, pc # "idle", user = "macho"
  PROVE  /\ file.size \in Addr /\ file.size \in Nat
         /\ Len(file.archs) \in Nat /\ DOMAIN file.archs = 1 .. Len(file.archs)
         /\ \A n \in 1 .. Len(file.archs) :
              file.archs[n] \in fat_arch /\ file.archs[n].offset \in U32
         /\ 0 \in DOMAIN file.headers /\ DOMAIN file.headers \subseteq Addr
         /\ \A offset \in DOMAIN file.headers : file.headers[offset] \in mach_header_64
         /\ \A a \in Places : a + file.size + MaxU32 < Top
<1>1. PICK call \in MachOCalls : file = call.file
  BY DEF TypeInv, FileOfItsKind, MachOFiles
<1>2. /\ file.size \in Addr /\ file.archs \in Seq(fat_arch)
      /\ 0 \in DOMAIN file.headers /\ DOMAIN file.headers \subseteq Addr
      /\ \A offset \in DOMAIN file.headers : file.headers[offset] \in mach_header_64
      /\ \A a \in Places : a + file.size + MaxU32 < Top
  BY <1>1, MachOAssumption
<1>3. /\ Len(file.archs) \in Nat /\ DOMAIN file.archs = 1 .. Len(file.archs)
      /\ \A n \in 1 .. Len(file.archs) : file.archs[n] \in fat_arch
  BY <1>2, LenProperties
<1>4. ASSUME NEW n \in 1 .. Len(file.archs) PROVE file.archs[n].offset \in U32
  BY <1>3 DEF fat_arch
<1> QED BY <1>2, <1>3, <1>4 DEF Addr

\* Pointers into the copy, as places in the file.
LEMMA PlacesInCopy ==
  ASSUME TypeInv, Copied, pc \notin {"idle", "open"}, user = "macho",
         NEW offset \in Nat, offset <= file.size + MaxU32
  PROVE  /\ memfile_ \in Nat /\ memfile_ + offset \in Addr /\ offset \in Addr
         /\ Plus(memfile_, offset) = memfile_ + offset
         /\ \A s \in Structure :
              Valid(memfile_ + offset, s) <=> offset + SizeOf[s] < file.size
<1>1. /\ memfile_ \in Addr /\ filesize_ \in Addr /\ filesize_ = file.size
      /\ memfile_ \in Places /\ memfile_ + filesize_ < Top
  BY DEF TypeInv, VariablesOK, LoaderTypeOK, ObjectTypeOK, Copied
<1>2. /\ memfile_ \in Nat /\ file.size \in Nat /\ MaxU32 \in Nat /\ Top \in Nat
      /\ memfile_ + file.size + MaxU32 < Top
  BY <1>1, MachOFileFields, MemoryAssumption, MachOAssumption DEF Addr
<1>3. memfile_ + offset < Top
  BY <1>2
<1>4. memfile_ + offset \in Addr /\ offset \in Addr /\ Plus(memfile_, offset) = memfile_ + offset
  BY <1>2, <1>3 DEF Addr, Plus
<1>5. ASSUME NEW s \in Structure
      PROVE  Valid(memfile_ + offset, s) <=> offset + SizeOf[s] < file.size
  <2>1. SizeOf[s] \in Addr /\ SizeOf[s] \in Nat
    BY Sizes
  <2>2. Valid(memfile_ + offset, s) <=>
          /\ memfile_ <= memfile_ + offset
          /\ memfile_ + offset + SizeOf[s] < memfile_ + filesize_
          /\ memfile_ + offset + SizeOf[s] < Top
    BY <1>1, <1>4, <2>1, ValidMeansInside DEF Valid
  <2>3. offset + SizeOf[s] < file.size => memfile_ + offset + SizeOf[s] < Top
    BY <1>2, <2>1
  <2> QED BY <1>1, <1>2, <2>1, <2>2, <2>3
<1> QED BY <1>2, <1>4, <1>5

LEMMA ServesMeansMatches ==
  ASSUME target_arch \in Supported, NEW arch
  PROVE  Serves(arch, target_arch) <=> Matches(arch)
<1>1. ArchName(arch) = "arm64" => arch.cputype = "ARM64"
  BY DEF ArchName
<1>2. ArchName(arch) = "arm64e" <=> arch.cputype = "ARM64" /\ arch.cpusubtype[4] = 2
  BY DEF ArchName
<1>3. ArchName(arch) = "x86_64" => arch.cputype = "X86_64"
  BY DEF ArchName
<1>4. CASE target_arch = "arm64"
  BY <1>1, <1>4 DEF Serves, Matches, TargetCpuType, TargetCpuSubtype
<1>5. CASE target_arch = "arm64e"
  BY <1>2, <1>5 DEF Serves, Matches, TargetCpuType, TargetCpuSubtype, CpuSubtype
<1>6. CASE target_arch = "x86_64"
  BY <1>3, <1>6 DEF Serves, Matches, TargetCpuType, TargetCpuSubtype
<1> QED BY <1>4, <1>5, <1>6 DEF Supported

\* At most one slice is the first that serves.
LEMMA FirstServingUnique ==
  ASSUME NEW f, NEW name, DOMAIN f.archs \subseteq Nat \ {0},
         NEW k \in FirstServing(f, name)
  PROVE  FirstServing(f, name) = {k}
<1>1. ASSUME NEW j \in FirstServing(f, name) PROVE j = k
  <2>1. j \in Nat \ {0} /\ k \in Nat \ {0} /\ Serves(f.archs[j], name) /\ Serves(f.archs[k], name)
    BY DEF FirstServing
  <2>2. ~(j < k)
    <3>1. ASSUME j < k PROVE FALSE
      <4>1. j \in 1 .. k - 1
        BY <2>1, <3>1
      <4> QED BY <2>1, <4>1 DEF FirstServing
    <3> QED BY <3>1
  <2>3. ~(k < j)
    <3>1. ASSUME k < j PROVE FALSE
      <4>1. k \in 1 .. j - 1
        BY <2>1, <3>1
      <4> QED BY <2>1, <4>1 DEF FirstServing
    <3> QED BY <3>1
  <2> QED BY <2>1, <2>2, <2>3
<1> QED BY <1>1

LEMMA FailsRightly ==
  ASSUME user = "macho", Fails, UNCHANGED program, ~MachOComplete(file, target_arch)
  PROVE  TableInv'
BY RefusesRightly DEF Fails, macho, program, OfElf

LEMMA SliceTaken ==
  ASSUME TypeInv, Progress, pc \in {"headers", "archs"}, user = "macho",
         file.reads, NEW base \in Nat, Bases(file, target_arch) = {base},
         SizeOf["mach_header_64"] < file.size, base + SizeOf["mach_header_64"] < file.size,
         GoTo("magic"), header' = memfile_ + base, UNCHANGED <<target_arch, user>>
  PROVE  TableInv'
<1>1. UNCHANGED <<memfile_, filesize_, file, found>> /\ pc' = "magic"
  BY DEF GoTo, object
<1>2. Copied'
  BY <1>1 DEF Progress, Copied
<1>3. memfile_ \in Nat
  BY DEF TypeInv, VariablesOK, LoaderTypeOK, ObjectTypeOK, Addr
<1>4. SliceChosen'
  <2>1. Base' = base /\ memfile_ <= header'
    BY <1>1, <1>3 DEF Base
  <2> QED BY <1>1, <2>1 DEF SliceChosen
<1>5. Progress'
  BY <1>1, <1>2, <1>4 DEF Progress, ElfProgress, ArchsPassed, CommandsPassed, SectionsPassed
<1> QED BY <1>1, <1>5, StillRunning DEF TableInv

LEMMA CheckMachHeaderProgress ==
  ASSUME TypeInv, Progress, user = "macho", CheckMachHeader, UNCHANGED program
  PROVE  TableInv'
<1>1. /\ pc = "headers" /\ file.reads /\ Copied /\ found = NothingFound /\ user' = user
  BY DEF CheckMachHeader, WholeRead, Progress, program
<1>2. /\ file.size \in Nat /\ 0 \in DOMAIN file.headers /\ "mach_header_64" \in Structure
      /\ MaxU32 \in Nat /\ Len(file.archs) \in Nat
  BY <1>1, MachOFileFields, MachOAssumption DEF Structure, Addr
<1>3. HeaderAt(0) = file.headers[0]
  BY <1>2 DEF HeaderAt
<1>4. /\ memfile_ \in Nat
      /\ Valid(memfile_, "mach_header_64") <=> SizeOf["mach_header_64"] < file.size
  <2>1. 0 \in Nat /\ 0 <= file.size + MaxU32
    BY <1>2
  <2>2. /\ memfile_ \in Nat
        /\ Valid(memfile_ + 0, "mach_header_64") <=> 0 + SizeOf["mach_header_64"] < file.size
    BY <1>1, <1>2, <2>1, PlacesInCopy
  <2>3. memfile_ + 0 = memfile_ /\ 0 + SizeOf["mach_header_64"] = SizeOf["mach_header_64"]
    BY <1>2, <2>2, Sizes
  <2> QED BY <2>2, <2>3
<1>5. CASE /\ Valid(memfile_, "mach_header_64") /\ HeaderAt(0).magic # "fat"
           /\ GoTo("magic") /\ header' = memfile_
           /\ UNCHANGED <<target_arch, command, dwarf_seg>>
  <2>1. Bases(file, target_arch) = {0}
    BY <1>3, <1>5 DEF Bases
  <2>2. header' = memfile_ + 0 /\ 0 + SizeOf["mach_header_64"] < file.size
    BY <1>2, <1>4, <1>5, Sizes
  <2> QED BY <1>1, <1>4, <1>5, <2>1, <2>2, SliceTaken
<1>6. CASE /\ Valid(memfile_, "mach_header_64") /\ HeaderAt(0).magic = "fat"
           /\ target_arch \in Supported
           /\ GoTo("archs") /\ UNCHANGED macho
  <2>1. /\ UNCHANGED <<memfile_, filesize_, file, found, target_arch, user>>
        /\ pc' = "archs" /\ i' = 0
    BY <1>1, <1>6 DEF GoTo, object, macho
  <2>2. Copied'
    BY <1>1, <2>1 DEF Copied
  <2>3. ArchsPassed'
    <3>1. \A j \in 1 .. i' : FALSE
      BY <2>1
    <3>2. i' <= Len(file.archs)
      BY <1>2, <2>1
    <3> QED BY <1>3, <1>4, <1>6, <2>1, <3>1, <3>2 DEF ArchsPassed
  <2>4. Progress'
    BY <1>1, <2>1, <2>2, <2>3
    DEF Progress, ElfProgress, SliceChosen, CommandsPassed, SectionsPassed
  <2> QED BY <2>1, <2>4, StillRunning DEF TableInv
<1>7. CASE /\ Valid(memfile_, "mach_header_64") =>
                HeaderAt(0).magic = "fat" /\ target_arch \notin Supported
           /\ Fails
  <2>1. ~MachOComplete(file, target_arch)
    <3>1. CASE ~Valid(memfile_, "mach_header_64")
      BY <1>4, <3>1 DEF MachOComplete
    <3>2. CASE HeaderAt(0).magic = "fat" /\ target_arch \notin Supported
      <4>1. Bases(file, target_arch) = {}
        BY <1>3, <3>2 DEF Bases
      <4> QED BY <4>1 DEF MachOComplete
    <3> QED BY <1>7, <3>1, <3>2
  <2> QED BY <1>7, <2>1, FailsRightly
<1> QED BY <1>5, <1>6, <1>7 DEF CheckMachHeader

LEMMA ReadArchProgress ==
  ASSUME TypeInv, Progress, user = "macho", ReadArch, UNCHANGED program
  PROVE  TableInv'
<1> DEFINE arch == file.archs[i + 1]
           fh == SizeOf["fat_header"]
           fa == SizeOf["fat_arch"]
           mh == SizeOf["mach_header_64"]
           entry == Plus(memfile_, fh + i * fa)
           slice == Plus(memfile_, arch.offset)
<1>1. /\ pc = "archs" /\ Copied /\ found = NothingFound /\ user' = user /\ ArchsPassed
      /\ i < Len(file.archs) /\ i \in Nat
  BY DEF ReadArch, Progress, program, TypeInv, VariablesOK, LoaderTypeOK
<1>2. /\ file.headers[0].magic = "fat" /\ target_arch \in Supported /\ mh < file.size
      /\ \A j \in 1 .. i : ~Serves(file.archs[j], target_arch)
      /\ i > 0 => fh + i * fa < file.size
  BY <1>1 DEF ArchsPassed
<1>3. /\ file.size \in Nat /\ MaxU32 \in Nat /\ Len(file.archs) \in Nat
      /\ DOMAIN file.archs = 1 .. Len(file.archs)
      /\ fh \in Nat /\ fa \in Nat /\ mh \in Nat /\ fh <= MaxU32
      /\ "fat_arch" \in Structure /\ "mach_header_64" \in Structure
  BY <1>1, MachOFileFields, Sizes DEF Structure
<1>4. /\ i + 1 \in 1 .. Len(file.archs) /\ arch.offset \in U32
      /\ i * fa \in Nat /\ (i + 1) * fa \in Nat /\ (i + 1) * fa = i * fa + fa
      /\ i = 0 => i * fa = 0
  <2>1. i + 1 \in 1 .. Len(file.archs)
    BY <1>1, <1>3
  <2>2. i * fa \in Nat /\ (i + 1) * fa = i * fa + fa
    BY <1>1, <1>3, TimesNext
  <2> HIDE DEF fa
  <2> QED BY <1>1, <1>3, <2>1, <2>2, MachOFileFields
<1>5. Valid(entry, "fat_arch") <=> fh + (i + 1) * fa < file.size
  <2> DEFINE o == fh + i * fa
  <2>1. o \in Nat /\ o <= file.size + MaxU32
    <3> HIDE DEF fh, fa
    <3> QED BY <1>1, <1>2, <1>3, <1>4
  <2>2. o + fa = fh + (i + 1) * fa
    <3> HIDE DEF fh, fa
    <3> QED BY <1>3, <1>4
  <2> HIDE DEF o
  <2>3. Plus(memfile_, o) = memfile_ + o /\ (Valid(memfile_ + o, "fat_arch") <=> o + fa < file.size)
    BY <1>1, <1>3, <2>1, PlacesInCopy
  <2> QED BY <2>2, <2>3 DEF o
<1>6. /\ slice = memfile_ + arch.offset /\ arch.offset \in Nat
      /\ Valid(slice, "mach_header_64") <=> arch.offset + mh < file.size
  <2>1. arch.offset \in Nat /\ arch.offset <= file.size + MaxU32
    BY <1>3, <1>4 DEF U32
  <2> QED BY <1>1, <1>3, <2>1, PlacesInCopy
<1>7. Serves(arch, target_arch) <=> Matches(arch)
  BY <1>2, ServesMeansMatches
<1>8. \A j \in 1 .. i + 1 : j \in 1 .. i \/ j = i + 1
  BY <1>1
<1> HIDE DEF arch, fh, fa, mh, entry, slice
<1>9. CASE ~Valid(entry, "fat_arch") /\ Fails
  <2>1. ASSUME NEW k \in FirstServing(file, target_arch), fh + k * fa < file.size PROVE FALSE
    <3>1. k \in 1 .. Len(file.archs) /\ Serves(file.archs[k], target_arch)
      BY <1>3 DEF FirstServing
    <3>2. i + 1 <= k
      BY <1>1, <1>2, <1>3, <3>1
    <3>3. (i + 1) * fa <= k * fa /\ k * fa \in Nat
      BY <1>1, <1>3, <3>1, <3>2, TimesMonotonic
    <3> QED BY <1>3, <1>4, <1>5, <1>9, <2>1, <3>3
  <2>2. Bases(file, target_arch) = {}
    BY <1>2, <2>1 DEF Bases, fh, fa
  <2>3. ~MachOComplete(file, target_arch)
    BY <2>2 DEF MachOComplete
  <2> QED BY <1>9, <2>3, FailsRightly
<1>10. CASE /\ Valid(entry, "fat_arch") /\ ~Matches(arch)
            /\ NextTurn /\ UNCHANGED <<found, macho>>
  <2>1. /\ UNCHANGED <<memfile_, filesize_, file, found, target_arch, user>>
        /\ pc' = "archs" /\ i' = i + 1
    BY <1>1, <1>10 DEF NextTurn, object, macho
  <2>2. Copied'
    BY <1>1, <2>1 DEF Copied
  <2>3. ArchsPassed'
    <3>1. \A j \in 1 .. i + 1 : ~Serves(file.archs[j], target_arch)
      BY <1>2, <1>7, <1>8, <1>10 DEF arch
    <3>2. i + 1 <= Len(file.archs)
      BY <1>1, <1>3
    <3>3. fh + (i + 1) * fa < file.size
      BY <1>5, <1>10
    <3> QED BY <1>2, <2>1, <3>1, <3>2, <3>3 DEF ArchsPassed, fh, fa, mh
  <2>4. Progress'
    BY <1>1, <2>1, <2>2, <2>3
    DEF Progress, ElfProgress, SliceChosen, CommandsPassed, SectionsPassed
  <2> QED BY <2>1, <2>4, StillRunning DEF TableInv
<1>11. CASE Valid(entry, "fat_arch") /\ Matches(arch)
  <2>1. i + 1 \in FirstServing(file, target_arch)
    <3>1. PICK k : k = i + 1
      OBVIOUS
    <3>2. 1 .. k - 1 = 1 .. i
      BY <1>1, <3>1
    <3>3. k \in DOMAIN file.archs /\ Serves(file.archs[k], target_arch)
      BY <1>3, <1>4, <1>7, <1>11, <3>1 DEF arch
    <3>4. \A j \in 1 .. k - 1 : ~Serves(file.archs[j], target_arch)
      BY <1>2, <3>2
    <3>5. k \in FirstServing(file, target_arch)
      BY <3>3, <3>4 DEF FirstServing
    <3> QED BY <3>1, <3>5
  <2>2. FirstServing(file, target_arch) = {i + 1}
    <3>1. DOMAIN file.archs \subseteq Nat \ {0}
      BY <1>3
    <3> QED BY <2>1, <3>1, FirstServingUnique
  <2>3. Bases(file, target_arch) = {arch.offset}
    BY <1>2, <1>5, <1>11, <2>2 DEF Bases, arch, fh, fa
  <2>4. CASE ~Valid(slice, "mach_header_64") /\ Fails
    <3>1. ~MachOComplete(file, target_arch)
      BY <1>6, <2>3, <2>4 DEF MachOComplete, mh
    <3> QED BY <2>4, <3>1, FailsRightly
  <2>5. CASE /\ Valid(slice, "mach_header_64")
             /\ GoTo("magic") /\ header' = slice
             /\ UNCHANGED <<target_arch, command, dwarf_seg>>
    <3>1. file.reads
      BY <1>1 DEF Progress, Copied
    <3> QED BY <1>1, <1>2, <1>6, <2>3, <2>5, <3>1, SliceTaken DEF mh
  <2>6. \/ ~Valid(slice, "mach_header_64") /\ Fails
        \/ /\ Valid(slice, "mach_header_64")
           /\ GoTo("magic") /\ header' = slice
           /\ UNCHANGED <<target_arch, command, dwarf_seg>>
    BY <1>11 DEF ReadArch, arch, entry, slice, fh, fa
  <2> QED BY <2>4, <2>5, <2>6
<1> QED BY <1>9, <1>10, <1>11 DEF ReadArch, arch, entry, slice, fh, fa

LEMMA NoArchProgress ==
  ASSUME TypeInv, Progress, user = "macho", NoArch, UNCHANGED program
  PROVE  TableInv'
<1>1. pc = "archs" /\ i = Len(file.archs) /\ Fails /\ ArchsPassed
  BY DEF NoArch, Progress
<1>2. DOMAIN file.archs = 1 .. i
  BY <1>1, MachOFileFields
<1>3. Bases(file, target_arch) = {}
  BY <1>1, <1>2 DEF ArchsPassed, Bases, FirstServing
<1>4. ~MachOComplete(file, target_arch)
  BY <1>3 DEF MachOComplete
<1> QED BY <1>1, <1>4, FailsRightly

(***************************************************************************)
(* MachOFile::Load: the load commands.                                     *)
(***************************************************************************)

InSlice == user = "macho" /\ pc \in {"magic", "commands", "sections"}

LEMMA SliceFacts ==
  ASSUME TypeInv, Progress, InSlice
  PROVE  /\ memfile_ \in Nat /\ Base \in Nat /\ header = memfile_ + Base
         /\ file.size \in Nat /\ MaxU32 \in Nat /\ SizeOf["mach_header_64"] \in Nat
         /\ SizeOf["mach_header_64"] < file.size /\ Base + SizeOf["mach_header_64"] < file.size
         /\ Bases(file, target_arch) = {Base} /\ Copied
<1>1. /\ memfile_ <= header /\ Bases(file, target_arch) = {Base}
      /\ SizeOf["mach_header_64"] < file.size
      /\ Base + SizeOf["mach_header_64"] < file.size
      /\ Copied
  BY DEF Progress, SliceChosen, InSlice
<1>2. header \in Nat /\ memfile_ \in Nat
  BY DEF TypeInv, VariablesOK, LoaderTypeOK, ObjectTypeOK, Addr
<1>3. file.size \in Nat /\ MaxU32 \in Nat /\ SizeOf["mach_header_64"] \in Nat
  BY MachOFileFields, Sizes DEF InSlice, Structure
<1> QED BY <1>1, <1>2, <1>3 DEF Base

\* The slice is the one asked for.
LEMMA ChosenSliceServes ==
  ASSUME TypeInv, Progress, InSlice, file.headers[0].magic = "fat"
  PROVE  \E k \in DOMAIN file.archs :
           /\ header = memfile_ + file.archs[k].offset
           /\ \/ ArchName(file.archs[k]) = target_arch
              \/ /\ target_arch # "arm64e"
                 /\ file.archs[k].cputype = TargetCpuType
                 /\ \A j \in 1 .. k - 1 : ArchName(file.archs[j]) # target_arch
<1>1. Base \in Bases(file, target_arch) /\ header = memfile_ + Base
  BY SliceFacts
<1>2. PICK k \in FirstServing(file, target_arch) : file.archs[k].offset = Base
  BY <1>1 DEF Bases
<1>3. /\ k \in DOMAIN file.archs /\ Serves(file.archs[k], target_arch)
      /\ \A j \in 1 .. k - 1 : ~Serves(file.archs[j], target_arch)
  BY DEF FirstServing
<1>4. \A j \in 1 .. k - 1 : ArchName(file.archs[j]) # target_arch
  BY <1>3 DEF Serves
<1>5. \/ ArchName(file.archs[k]) = target_arch
      \/ target_arch # "arm64e" /\ file.archs[k].cputype = TargetCpuType
  BY <1>3 DEF Serves, TargetCpuType
<1> QED BY <1>1, <1>2, <1>3, <1>4, <1>5

\* The load commands of the slice, and where they begin.
LEMMA CommandFacts ==
  ASSUME TypeInv, Progress, InSlice, SliceBegins
  PROVE  LET commands == file.headers[Base].commands
             place == CommandPlaces(file, Base)
         IN  /\ Header = file.headers[Base] /\ Header.commands = commands
             /\ Len(commands) \in Nat /\ DOMAIN commands = 1 .. Len(commands)
             /\ \A n \in 1 .. Len(commands) :
                  commands[n] \in load_command /\ commands[n].cmdsize \in U32
             /\ place \in [0 .. Len(commands) -> Nat]
             /\ place[0] = Base + SizeOf["mach_header_64"]
             /\ \A n \in 1 .. Len(commands) :
                  place[n] = place[n - 1] + commands[n].cmdsize
<1> DEFINE commands == file.headers[Base].commands
<1>1. Base \in Nat /\ Base \in DOMAIN file.headers
  BY SliceFacts DEF SliceBegins
<1>2. Header = file.headers[Base]
  BY <1>1 DEF Header, HeaderAt, Base
<1>3. commands \in Seq(load_command)
  BY <1>1, MachOFileFields DEF InSlice, mach_header_64
<1>4. /\ Len(commands) \in Nat /\ DOMAIN commands = 1 .. Len(commands)
      /\ \A n \in 1 .. Len(commands) : commands[n] \in load_command
  BY <1>3, LenProperties
<1>5. \A n \in 1 .. Len(commands) : commands[n].cmdsize \in U32
  BY <1>4 DEF load_command
<1> QED BY <1>1, <1>2, <1>3, <1>4, <1>5, CommandPlacesAre

\* The next load command is read where it is: its place is no more than 32 bits beyond
\* the end of the file.
LEMMA NextCommandPlace ==
  ASSUME TypeInv, Progress, InSlice, SliceBegins,
         NEW n \in 0 .. Len(Header.commands), CommandsWhole(file, Base, n)
  PROVE  CommandPlaces(file, Base)[n] <= file.size + MaxU32
<1> DEFINE commands == file.headers[Base].commands
           place == CommandPlaces(file, Base)
<1>1. /\ file.size \in Nat /\ MaxU32 \in Nat /\ Base \in Nat /\ SizeOf["mach_header_64"] \in Nat
      /\ Base + SizeOf["mach_header_64"] < file.size
      /\ place[0] = Base + SizeOf["mach_header_64"] /\ place \in [0 .. Len(commands) -> Nat]
      /\ Len(commands) \in Nat /\ n \in 0 .. Len(commands)
      /\ \A k \in 1 .. Len(commands) : place[k] = place[k - 1] + commands[k].cmdsize
      /\ \A k \in 1 .. Len(commands) : commands[k].cmdsize \in U32
  BY SliceFacts, CommandFacts
<1>2. SUFFICES place[n] <= file.size + MaxU32
  OBVIOUS
<1> HIDE DEF place, commands
<1>3. CASE n = 0
  BY <1>1, <1>3
<1>4. CASE n # 0
  <2>1. n \in 1 .. Len(commands) /\ n - 1 \in 0 .. Len(commands) /\ n \in 1 .. n
    BY <1>1, <1>4
  <2>2. place[n - 1] + CommandSize(commands[n]) < file.size
    BY <2>1 DEF CommandsWhole, place, commands
  <2>3. CommandSize(commands[n]) \in Nat
    BY Sizes DEF CommandSize, Structure
  <2>4. commands[n].cmdsize \in Nat /\ commands[n].cmdsize <= MaxU32
    BY <1>1, <2>1 DEF U32
  <2>5. place[n] = place[n - 1] + commands[n].cmdsize /\ place[n - 1] \in Nat
    BY <1>1, <2>1
  <2> QED BY <1>1, <2>2, <2>3, <2>4, <2>5
<1> QED BY <1>3, <1>4

LEMMA CheckMagicProgress ==
  ASSUME TypeInv, Progress, user = "macho", CheckMagic, UNCHANGED program
  PROVE  TableInv'
<1>1. pc = "magic" /\ InSlice /\ user' = user /\ found = NothingFound
  BY DEF CheckMagic, InSlice, program, Progress
<1>2. /\ memfile_ \in Nat /\ Base \in Nat /\ header = memfile_ + Base
      /\ file.size \in Nat /\ MaxU32 \in Nat /\ SizeOf["mach_header_64"] \in Nat
      /\ Base + SizeOf["mach_header_64"] < file.size
      /\ Bases(file, target_arch) = {Base} /\ Copied
  BY <1>1, SliceFacts
<1>3. SliceBegins <=> Header.magic = "64"
  BY DEF SliceBegins, Header, HeaderAt, Base
<1>4. CASE Header.magic # "64" /\ Fails
  <2>1. ~MachOComplete(file, target_arch)
    BY <1>2, <1>3, <1>4 DEF MachOComplete, SliceBegins
  <2> QED BY <1>4, <2>1, FailsRightly
<1>5. CASE /\ Header.magic = "64"
           /\ GoTo("commands")
           /\ command' = Plus(header, SizeOf["mach_header_64"])
           /\ UNCHANGED <<target_arch, header, dwarf_seg>>
  <2>1. /\ UNCHANGED <<memfile_, filesize_, file, found, target_arch, header, user>>
        /\ pc' = "commands" /\ i' = 0
    BY <1>1, <1>5 DEF GoTo, object
  <2>2. Copied' /\ Base' = Base /\ Header' = Header
    <3>1. Copied'
      BY <1>1, <1>2, <2>1 DEF Copied
    <3>2. Base' = Base /\ Header' = Header
      BY <2>1 DEF Base, Header, HeaderAt
    <3> QED BY <3>1, <3>2
  <2>3. SliceChosen'
    BY <1>1, <2>1, <2>2 DEF Progress, SliceChosen, InSlice
  <2>4. command' = memfile_ + (Base + SizeOf["mach_header_64"])
    <3>1. /\ Base + SizeOf["mach_header_64"] \in Nat
          /\ Base + SizeOf["mach_header_64"] <= file.size + MaxU32
      BY <1>2
    <3>2. memfile_ + (Base + SizeOf["mach_header_64"]) \in Addr
      BY <1>1, <1>2, <3>1, PlacesInCopy
    <3>3. memfile_ + Base + SizeOf["mach_header_64"] < Top
      BY <1>2, <3>2, MemoryAssumption DEF Addr
    <3> QED BY <1>2, <1>5, <3>3 DEF Plus
  <2>5. CommandPlaces(file, Base)[0] = Base + SizeOf["mach_header_64"]
        /\ Len(Header.commands) \in Nat
    BY <1>1, <1>3, <1>5, CommandFacts
  <2>6. CommandsPassed'
    <3>1. \A k \in 1 .. i' : FALSE
      BY <2>1
    <3>2. i' <= Len(Header.commands)
      BY <2>1, <2>5
    <3>3. SliceBegins'
      BY <1>3, <1>5, <2>1, <2>2 DEF SliceBegins
    <3>4. CommandsWhole(file, Base, i)'
      BY <3>1 DEF CommandsWhole
    <3> QED BY <2>1, <2>2, <2>4, <2>5, <3>1, <3>2, <3>3, <3>4 DEF CommandsPassed
  <2>7. Progress'
    BY <1>1, <2>1, <2>2, <2>3, <2>6
    DEF Progress, ElfProgress, ArchsPassed, SectionsPassed
  <2> QED BY <2>1, <2>7, StillRunning DEF TableInv
<1> QED BY <1>4, <1>5 DEF CheckMagic

\* Whether a load command is in the file, one command further.
LEMMA OneMoreWhole ==
  ASSUME NEW f, NEW base, NEW n \in Nat, CommandsWhole(f, base, n)
  PROVE  CommandsWhole(f, base, n + 1) <=>
           CommandPlaces(f, base)[n] + CommandSize(f.headers[base].commands[n + 1]) < f.size
<1> DEFINE In(k) == CommandPlaces(f, base)[k - 1] + CommandSize(f.headers[base].commands[k]) < f.size
<1>1. \A k \in 1 .. n : In(k)
  BY DEF CommandsWhole
<1>2. CommandsWhole(f, base, n + 1) <=> \A k \in 1 .. n + 1 : In(k)
  BY DEF CommandsWhole
<1>3. In(n + 1) <=>
        CommandPlaces(f, base)[n] + CommandSize(f.headers[base].commands[n + 1]) < f.size
  <2>1. n + 1 - 1 = n
    OBVIOUS
  <2> QED BY <2>1
<1> HIDE DEF In
<1>4. \A k \in 1 .. n + 1 : k \in 1 .. n \/ k = n + 1
  OBVIOUS
<1>5. n + 1 \in 1 .. n + 1
  OBVIOUS
<1> QED BY <1>1, <1>2, <1>3, <1>4, <1>5

\* What the turn of ReadCommand sees.
LEMMA CommandInFile ==
  ASSUME TypeInv, Progress, user = "macho", pc = "commands", i < Len(Header.commands)
  PROVE  LET c == Header.commands[i + 1]
             place == CommandPlaces(file, Base)[i]
             whole == /\ Valid(command, "command_header")
                      /\ c.cmd = "LC_SEGMENT_64" => Valid(command, "segment_command_64")
         IN  /\ place \in Nat /\ place <= file.size + MaxU32 /\ command = memfile_ + place
             /\ whole <=> place + CommandSize(c) < file.size
             /\ whole <=> CommandsWhole(file, Base, i + 1)
             /\ i \in Nat /\ i + 1 \in 1 .. Len(Header.commands)
             /\ CommandPlaces(file, Base)[i + 1] = place + c.cmdsize /\ c.cmdsize \in U32
<1> DEFINE c == Header.commands[i + 1]
           place == CommandPlaces(file, Base)[i]
<1>1. InSlice /\ SliceBegins /\ CommandsWhole(file, Base, i) /\ command = memfile_ + place
      /\ i \in Nat
  BY DEF InSlice, Progress, CommandsPassed, TypeInv, VariablesOK, LoaderTypeOK
<1>2. /\ Header.commands = file.headers[Base].commands
      /\ Len(Header.commands) \in Nat
      /\ \A n \in 1 .. Len(Header.commands) : Header.commands[n].cmdsize \in U32
      /\ CommandPlaces(file, Base) \in [0 .. Len(Header.commands) -> Nat]
      /\ \A n \in 1 .. Len(Header.commands) :
           CommandPlaces(file, Base)[n] = CommandPlaces(file, Base)[n - 1] + Header.commands[n].cmdsize
  BY <1>1, CommandFacts
<1>3. i + 1 \in 1 .. Len(Header.commands) /\ i \in 0 .. Len(Header.commands) /\ i + 1 - 1 = i
  BY <1>1, <1>2
<1>4. place \in Nat /\ place <= file.size + MaxU32
  BY <1>1, <1>2, <1>3, NextCommandPlace
<1>5. /\ CommandPlaces(file, Base)[i + 1] = place + c.cmdsize /\ c.cmdsize \in U32
  BY <1>2, <1>3
<1>6. CommandsWhole(file, Base, i + 1) <=> place + CommandSize(c) < file.size
  BY <1>1, <1>2, OneMoreWhole
<1> HIDE DEF place, c
<1>7. \A s \in Structure : Valid(command, s) <=> place + SizeOf[s] < file.size
  BY <1>1, <1>4, PlacesInCopy DEF Progress
<1>8. /\ "command_header" \in Structure /\ "segment_command_64" \in Structure
      /\ SizeOf["command_header"] \in Nat /\ SizeOf["segment_command_64"] \in Nat
      /\ SizeOf["command_header"] <= SizeOf["segment_command_64"] /\ file.size \in Nat
  BY <1>1, Sizes, MachOAssumption, SliceFacts DEF Structure
<1>9. /\ Valid(command, "command_header")
      /\ c.cmd = "LC_SEGMENT_64" => Valid(command, "segment_command_64")
      <=> place + CommandSize(c) < file.size
  <2>1. CASE c.cmd = "LC_SEGMENT_64"
    BY <1>4, <1>7, <1>8, <2>1 DEF CommandSize
  <2>2. CASE c.cmd # "LC_SEGMENT_64"
    BY <1>7, <1>8, <2>2 DEF CommandSize
  <2> QED BY <2>1, <2>2
<1> QED BY <1>1, <1>3, <1>4, <1>5, <1>6, <1>9 DEF place, c

\* The places of the first __DWARF segment, when it is in the file.
DwarfSegments(f, base) ==
  {m \in DOMAIN f.headers[base].commands :
     /\ IsDwarf(f.headers[base].commands[m])
     /\ \A k \in 1 .. m - 1 : ~IsDwarf(f.headers[base].commands[k])
     /\ CommandsWhole(f, base, m)}

LEMMA SegmentsAre ==
  ASSUME NEW f, NEW base
  PROVE  Segments(f, base) =
           {[at |-> CommandPlaces(f, base)[n - 1], sections |-> f.headers[base].commands[n].sections] :
              n \in DwarfSegments(f, base)}
BY DEF Segments, DwarfSegments

\* A slice without a __DWARF segment is not complete.
LEMMA NoSegmentIncomplete ==
  ASSUME TypeInv, Progress, InSlice, DwarfSegments(file, Base) = {}
  PROVE  ~MachOComplete(file, target_arch)
<1>1. Bases(file, target_arch) = {Base}
  BY SliceFacts
<1>2. Segments(file, Base) = {}
  BY SegmentsAre
<1> QED BY <1>1, <1>2 DEF MachOComplete

LEMMA ReadCommandProgress ==
  ASSUME TypeInv, Progress, user = "macho", ReadCommand, UNCHANGED program
  PROVE  TableInv'
<1> DEFINE n == i + 1
           c == Header.commands[n]
           place == CommandPlaces(file, Base)[i]
           whole == /\ Valid(command, "command_header")
                    /\ c.cmd = "LC_SEGMENT_64" => Valid(command, "segment_command_64")
           dwarf == c.cmd = "LC_SEGMENT_64" /\ c.segname = "__DWARF"
<1>1. /\ pc = "commands" /\ i < Len(Header.commands) /\ InSlice /\ found = NothingFound
      /\ user' = user
  BY DEF ReadCommand, Progress, InSlice, program
<1>2. /\ SliceBegins /\ Copied
      /\ \A k \in 1 .. i : ~IsDwarf(Header.commands[k])
  BY <1>1 DEF Progress, CommandsPassed
<1>3. /\ place \in Nat /\ place <= file.size + MaxU32 /\ command = memfile_ + place
      /\ whole <=> place + CommandSize(c) < file.size
      /\ whole <=> CommandsWhole(file, Base, n)
      /\ i \in Nat /\ n \in 1 .. Len(Header.commands)
      /\ CommandPlaces(file, Base)[n] = place + c.cmdsize /\ c.cmdsize \in U32
  BY <1>1, CommandInFile
<1>4. /\ Header.commands = file.headers[Base].commands
      /\ Len(Header.commands) \in Nat /\ DOMAIN Header.commands = 1 .. Len(Header.commands)
  BY <1>1, <1>2, CommandFacts
<1>5. dwarf <=> IsDwarf(c)
  BY DEF IsDwarf
<1>6. /\ memfile_ \in Nat /\ Base \in Nat /\ file.size \in Nat /\ MaxU32 \in Nat
  BY <1>1, SliceFacts
<1>7. \/ ~whole /\ Fails
      \/ /\ whole /\ dwarf
         /\ GoTo("sections")
         /\ dwarf_seg' = i + 1
         /\ command' = Plus(command, SizeOf["segment_command_64"])
         /\ UNCHANGED <<target_arch, header>>
      \/ /\ whole /\ ~dwarf
         /\ NextTurn /\ command' = Plus(command, c.cmdsize)
         /\ UNCHANGED <<found, target_arch, header, dwarf_seg>>
  BY DEF ReadCommand
<1>8. n = i + 1 /\ \A k \in Nat : k \in 1 .. n <=> k \in 1 .. i \/ k = n
  BY <1>3
<1> HIDE DEF n, c, place, whole, dwarf
\* No segment before this one, and this one only when it is a whole __DWARF segment.
<1>9. DwarfSegments(file, Base) \subseteq {m \in 1 .. Len(Header.commands) : n <= m}
  <2>1. ASSUME NEW m \in DwarfSegments(file, Base) PROVE m \in 1 .. Len(Header.commands) /\ n <= m
    <3>1. m \in 1 .. Len(Header.commands) /\ IsDwarf(Header.commands[m])
      BY <1>4 DEF DwarfSegments
    <3>2. m \notin 1 .. i
      BY <1>2, <3>1
    <3> QED BY <1>3, <1>8, <3>1, <3>2
  <2> QED BY <2>1
<1>10. CASE ~whole /\ Fails
  <2>1. ASSUME NEW m \in DwarfSegments(file, Base) PROVE FALSE
    <3>1. m \in Nat /\ n <= m /\ CommandsWhole(file, Base, m)
      BY <1>9 DEF DwarfSegments
    <3>2. \A k \in 1 .. n : k \in 1 .. m
      BY <1>3, <3>1
    <3>3. CommandsWhole(file, Base, n)
      BY <3>1, <3>2 DEF CommandsWhole
    <3> QED BY <1>3, <1>10, <3>3
  <2> QED BY <1>1, <1>10, <2>1, NoSegmentIncomplete, FailsRightly
<1>11. CASE /\ whole /\ dwarf
            /\ GoTo("sections")
            /\ dwarf_seg' = i + 1
            /\ command' = Plus(command, SizeOf["segment_command_64"])
            /\ UNCHANGED <<target_arch, header>>
  <2>1. /\ UNCHANGED <<memfile_, filesize_, file, found, target_arch, header, user>>
        /\ pc' = "sections" /\ i' = 0
    BY <1>1, <1>11 DEF GoTo, object
  <2>2. Copied' /\ Base' = Base /\ Header' = Header
    <3>1. Copied'
      BY <1>1, <1>2, <2>1 DEF Copied
    <3>2. Base' = Base /\ Header' = Header
      BY <2>1 DEF Base, Header, HeaderAt
    <3> QED BY <3>1, <3>2
  <2>3. SliceChosen'
    BY <1>1, <2>1, <2>2 DEF Progress, SliceChosen, InSlice
  <2>4. DwarfSegments(file, Base) = {n}
    <3>1. n \in DwarfSegments(file, Base)
      <4>1. \A k \in 1 .. n - 1 : k \in 1 .. i
        BY <1>3, <1>8
      <4>2. \A k \in 1 .. n - 1 : ~IsDwarf(file.headers[Base].commands[k])
        BY <1>2, <1>4, <4>1
      <4>3. IsDwarf(file.headers[Base].commands[n])
        BY <1>4, <1>5, <1>11 DEF c
      <4> QED BY <1>3, <1>4, <1>11, <4>2, <4>3 DEF DwarfSegments
    <3>2. ASSUME NEW m \in DwarfSegments(file, Base), m # n PROVE FALSE
      <4>1. m \in Nat /\ n <= m
        BY <1>9
      <4>2. n \in 1 .. m - 1
        BY <1>3, <3>2, <4>1
      <4> QED BY <3>1, <4>2 DEF DwarfSegments
    <3> QED BY <3>1, <3>2
  <2>5. Segments(file, Base) = {[at |-> place, sections |-> c.sections]}
    <3>1. n - 1 = i
      BY <1>3, <1>8
    <3> QED BY <1>4, <2>4, <3>1, SegmentsAre DEF place, c
  <2>6. Sections' = c.sections /\ SegmentPlace' = place
    <3>1. n - 1 = i
      BY <1>3, <1>8
    <3> QED BY <1>8, <1>11, <2>1, <2>2, <3>1 DEF Sections, SegmentPlace, place, c
  <2>7. Len(c.sections) \in Nat
    <3>1. c \in load_command
      BY <1>1, <1>2, <1>3, <1>4, CommandFacts DEF c
    <3>2. c.sections \in Seq(section_64)
      BY <3>1 DEF load_command
    <3> QED BY <3>2, LenProperties
  <2> DEFINE seg == SizeOf["segment_command_64"]
             sec == SizeOf["section_64"]
  <2>8. seg \in Nat /\ sec \in Nat /\ CommandSize(c) = seg
    BY <1>11, Sizes DEF Structure, CommandSize, dwarf
  <2> HIDE DEF seg, sec
  <2>9. place + seg < file.size
    BY <1>3, <1>11, <2>8
  <2>10. command' = memfile_ + (place + seg)
    <3>1. place + seg \in Nat /\ place + seg <= file.size + MaxU32
      BY <1>3, <1>6, <2>8, <2>9
    <3>2. memfile_ + (place + seg) \in Addr
      BY <1>1, <1>2, <3>1, PlacesInCopy
    <3>3. memfile_ + place + seg < Top
      BY <1>3, <1>6, <2>8, <3>2, MemoryAssumption DEF Addr
    <3>4. command' = Plus(command, seg)
      BY <1>11 DEF seg
    <3> QED BY <1>3, <1>6, <2>8, <3>3, <3>4 DEF Plus
  <2>11. /\ command' = memfile_ + place + seg + i' * sec
         /\ command' < memfile_ + file.size
    <3>1. i' * sec = 0
      BY <2>1, <2>8
    <3> QED BY <1>3, <1>6, <2>8, <2>9, <2>10, <3>1
  <2>12. SectionsPassed'
    <3>1. \A k \in 1 .. i' : FALSE
      BY <2>1
    <3>2. i' <= Len(Sections')
      BY <2>1, <2>6, <2>7
    <3>3. SliceBegins'
      BY <1>2, <2>1, <2>2 DEF SliceBegins
    <3>4. \A s \in Section : SectionNoted(s, i)'
      BY <1>1, <2>1, <3>1 DEF SectionNoted, NothingFound
    <3>5. Segments(file, Base)' = {[at |-> SegmentPlace', sections |-> Sections']}
      BY <2>1, <2>2, <2>5, <2>6 DEF Segments
    <3> QED BY <2>1, <2>6, <2>11, <3>2, <3>3, <3>4, <3>5 DEF SectionsPassed, seg, sec
  <2>13. Progress'
    BY <1>1, <2>1, <2>2, <2>3, <2>12
    DEF Progress, ElfProgress, ArchsPassed, CommandsPassed
  <2> QED BY <2>1, <2>13, StillRunning DEF TableInv
<1>12. CASE /\ whole /\ ~dwarf
            /\ NextTurn /\ command' = Plus(command, c.cmdsize)
            /\ UNCHANGED <<found, target_arch, header, dwarf_seg>>
  <2>1. /\ UNCHANGED <<memfile_, filesize_, file, found, target_arch, header, user>>
        /\ pc' = "commands" /\ i' = n
    BY <1>1, <1>8, <1>12 DEF NextTurn, object
  <2>2. Copied' /\ Base' = Base /\ Header' = Header
    <3>1. Copied'
      BY <1>1, <1>2, <2>1 DEF Copied
    <3>2. Base' = Base /\ Header' = Header
      BY <2>1 DEF Base, Header, HeaderAt
    <3> QED BY <3>1, <3>2
  <2>3. SliceChosen'
    BY <1>1, <2>1, <2>2 DEF Progress, SliceChosen, InSlice
  <2>4. command' = memfile_ + CommandPlaces(file, Base)[n]
    <3>1. CommandPlaces(file, Base)[n] \in Nat /\ CommandPlaces(file, Base)[n] <= file.size + MaxU32
      <4>1. n \in 0 .. Len(Header.commands) /\ CommandsWhole(file, Base, n)
        BY <1>3, <1>12
      <4>2. CommandPlaces(file, Base)[n] \in Nat
        BY <1>1, <1>2, <1>4, <4>1, CommandFacts
      <4> QED BY <1>1, <1>2, <4>1, <4>2, NextCommandPlace
    <3>2. memfile_ + CommandPlaces(file, Base)[n] \in Addr
      BY <1>1, <1>2, <3>1, PlacesInCopy
    <3>3. c.cmdsize \in Nat
      BY <1>3 DEF U32
    <3>4. memfile_ + (place + c.cmdsize) < Top
      BY <1>3, <3>2, MemoryAssumption DEF Addr
    <3>5. command + c.cmdsize = memfile_ + (place + c.cmdsize)
      BY <1>3, <1>6, <3>3
    <3> QED BY <1>3, <1>12, <3>4, <3>5 DEF Plus
  <2>5. CommandsPassed'
    <3>1. \A k \in 1 .. n : ~IsDwarf(Header.commands[k])
      <4>1. ASSUME NEW k \in 1 .. n PROVE ~IsDwarf(Header.commands[k])
        <5>1. k \in 1 .. i \/ k = n
          BY <1>3, <1>8
        <5> QED BY <1>2, <1>5, <1>12, <5>1 DEF c
      <4> QED BY <4>1
    <3>2. n <= Len(Header.commands)
      BY <1>3
    <3>3. SliceBegins'
      BY <1>2, <2>1, <2>2 DEF SliceBegins
    <3>4. CommandsWhole(file, Base, i)'
      BY <1>3, <1>12, <2>1, <2>2 DEF CommandsWhole
    <3> QED BY <2>1, <2>2, <2>4, <3>1, <3>2, <3>3, <3>4 DEF CommandsPassed
  <2>6. Progress'
    BY <1>1, <2>1, <2>2, <2>3, <2>5
    DEF Progress, ElfProgress, ArchsPassed, SectionsPassed
  <2> QED BY <2>1, <2>6, StillRunning DEF TableInv
<1> QED BY <1>7, <1>10, <1>11, <1>12

LEMMA NoDwarfProgress ==
  ASSUME TypeInv, Progress, user = "macho", NoDwarf, UNCHANGED program
  PROVE  TableInv'
<1>1. pc = "commands" /\ i = Len(Header.commands) /\ Fails /\ InSlice
  BY DEF NoDwarf, InSlice
<1>2. SliceBegins /\ \A k \in 1 .. i : ~IsDwarf(Header.commands[k])
  BY <1>1 DEF Progress, CommandsPassed
<1>3. /\ Header.commands = file.headers[Base].commands
      /\ DOMAIN Header.commands = 1 .. Len(Header.commands)
  BY <1>1, <1>2, CommandFacts
<1>4. DwarfSegments(file, Base) = {}
  BY <1>1, <1>2, <1>3 DEF DwarfSegments
<1> QED BY <1>1, <1>4, NoSegmentIncomplete, FailsRightly

(***************************************************************************)
(* MachOFile::Load: the sections of the segment.                           *)
(***************************************************************************)

LEMMA SectionsFacts ==
  ASSUME TypeInv, Progress, user = "macho", pc = "sections"
  PROVE  /\ InSlice /\ SliceBegins /\ Len(Sections) \in Nat
         /\ DOMAIN Sections = 1 .. Len(Sections)
         /\ \A n \in 1 .. Len(Sections) :
              Sections[n].offset \in U32 /\ Sections[n].size \in Addr
         /\ SegmentPlace \in Nat
<1>1. InSlice /\ SliceBegins /\ dwarf_seg \in 1 .. Len(Header.commands)
  BY DEF InSlice, Progress, SectionsPassed, TypeInv, FileOfItsKind
<1>2. Sections \in Seq(section_64)
  BY <1>1, CommandFields DEF Sections
<1>3. ASSUME NEW n \in 1 .. Len(Sections)
      PROVE  Sections[n].offset \in U32 /\ Sections[n].size \in Addr
  <2>1. Sections[n] \in section_64
    BY <1>2
  <2> QED BY <2>1 DEF section_64
<1>4. dwarf_seg - 1 \in 0 .. Len(Header.commands)
  <2>1. Len(Header.commands) \in Nat
    BY <1>1, CommandFacts
  <2> QED BY <1>1, <2>1
<1>5. SegmentPlace \in Nat
  BY <1>1, <1>4, CommandFacts DEF SegmentPlace
<1> QED BY <1>1, <1>2, <1>3, <1>5, LenProperties

LEMMA ReadSection64Progress ==
  ASSUME TypeInv, Progress, user = "macho", ReadSection64, UNCHANGED program
  PROVE  TableInv'
<1> DEFINE n == i + 1
           section == Sections[n]
           seg == SizeOf["segment_command_64"]
           sec == SizeOf["section_64"]
           place == SegmentPlace + seg + i * sec
<1>1. /\ pc = "sections" /\ i < Len(Sections) /\ i \in Nat /\ user' = user
      /\ found \in [Section -> Region] /\ command \in Nat
  BY DEF ReadSection64, program, TypeInv, VariablesOK, LoaderTypeOK, Addr
<1>2. /\ InSlice /\ SliceBegins /\ Len(Sections) \in Nat /\ SegmentPlace \in Nat
      /\ DOMAIN Sections = 1 .. Len(Sections)
  BY <1>1, SectionsFacts
<1>3. /\ Segments(file, Base) = {[at |-> SegmentPlace, sections |-> Sections]}
      /\ command = memfile_ + SegmentPlace + seg + i * sec
      /\ command < memfile_ + file.size
      /\ \A s \in Section : SectionNoted(s, i)
      /\ Copied
  BY <1>1 DEF Progress, SectionsPassed
<1>4. /\ memfile_ \in Nat /\ Base \in Nat /\ file.size \in Nat /\ MaxU32 \in Nat
      /\ Bases(file, target_arch) = {Base}
  BY <1>2, SliceFacts
<1>5. /\ seg \in Nat /\ sec \in Nat /\ sec <= MaxU32 /\ "section_64" \in Structure
  BY Sizes DEF Structure
<1> HIDE DEF seg, sec
<1>6. /\ i * sec \in Nat /\ n * sec \in Nat /\ n * sec = i * sec + sec
  BY <1>1, <1>5, TimesNext
<1>7. /\ n \in 1 .. Len(Sections) /\ \A k \in Nat : k \in 1 .. n <=> k \in 1 .. i \/ k = n
      /\ n = i + 1 /\ n \in Nat
  BY <1>1, <1>2
<1>8. /\ place \in Nat /\ place < file.size /\ command = memfile_ + place
  BY <1>2, <1>3, <1>4, <1>5, <1>6
<1>9. place + sec = SegmentPlace + seg + n * sec
  BY <1>2, <1>5, <1>6
<1> HIDE DEF place, n
<1>10. Valid(command, "section_64") <=> place + sec < file.size
  <2>1. place <= file.size + MaxU32
    BY <1>4, <1>8
  <2>2. Valid(memfile_ + place, "section_64") <=> place + SizeOf["section_64"] < file.size
    BY <1>1, <1>2, <1>3, <1>5, <1>8, <2>1, PlacesInCopy
  <2> QED BY <1>8, <2>2 DEF sec
<1>11. CASE ~Valid(command, "section_64") /\ Fails
  <2>1. ~(SegmentPlace + seg + Len(Sections) * sec < file.size)
    <3>1. n * sec <= Len(Sections) * sec /\ Len(Sections) * sec \in Nat
      BY <1>2, <1>5, <1>7, TimesMonotonic
    <3>2. ~(place + sec < file.size)
      BY <1>10, <1>11
    <3> QED BY <1>2, <1>4, <1>5, <1>6, <1>8, <1>9, <3>1, <3>2
  <2>2. ~MachOComplete(file, target_arch)
    BY <1>3, <1>4, <2>1 DEF MachOComplete, seg, sec
  <2> QED BY <1>11, <2>2, FailsRightly
<1>12. CASE Valid(command, "section_64")
  <2>1. /\ UNCHANGED <<memfile_, filesize_, file, target_arch, header, dwarf_seg, user>>
        /\ pc' = "sections" /\ i' = n
        /\ found' = Note(section.sectname, header, section.offset, section.size)
        /\ command' = Plus(command, sec)
    BY <1>1, <1>7, <1>12 DEF ReadSection64, NextTurn, object, sec, section
  <2>2. Copied'
    BY <1>1, <1>3, <2>1 DEF Copied
  <2>3. Base' = Base /\ Header' = Header
    BY <2>1 DEF Base, Header, HeaderAt
  <2>4. SliceChosen'
    BY <1>2, <2>1, <2>3 DEF Progress, SliceChosen, InSlice
  <2>5. Sections' = Sections /\ SegmentPlace' = SegmentPlace
    BY <2>1, <2>3 DEF Sections, SegmentPlace
  <2>6. command' = memfile_ + (place + sec) /\ place + sec < file.size
    <3>1. place + sec \in Nat /\ place + sec <= file.size + MaxU32 /\ place + sec < file.size
      BY <1>4, <1>5, <1>8, <1>10, <1>12
    <3>2. memfile_ + (place + sec) \in Addr
      BY <1>1, <1>2, <1>3, <3>1, PlacesInCopy
    <3>3. command + sec = memfile_ + (place + sec)
      BY <1>4, <1>5, <1>8
    <3>4. memfile_ + (place + sec) < Top
      BY <3>2, MemoryAssumption DEF Addr
    <3> QED BY <2>1, <3>1, <3>3, <3>4 DEF Plus
  <2>7. /\ command' = memfile_ + SegmentPlace + seg + n * sec
        /\ command' < memfile_ + file.size
    BY <1>2, <1>4, <1>5, <1>6, <1>8, <1>9, <2>6
  <2>8. ASSUME NEW s \in Section PROVE SectionNoted(s, i)'
    <3>1. found'[s] = IF section.sectname = s
                      THEN [ptr |-> Plus(header, section.offset), size |-> section.size]
                      ELSE found[s]
      <4> HIDE DEF section
      <4> QED BY <1>1, <2>1, NoteStep
    <3>2. UNCHANGED <<header, Sections>> /\ i' = n
      BY <2>1, <2>5
    <3>3. CASE section.sectname = s
      <4>1. found'[s] = [ptr |-> Plus(header, Sections[n].offset), size |-> Sections[n].size]
        BY <3>1, <3>3
      <4>2. \A m \in 1 .. n : Sections[m].sectname = s => m <= n
        BY <1>7
      <4>3. n \in 1 .. n
        BY <1>7
      <4> QED BY <3>2, <3>3, <4>1, <4>2, <4>3 DEF SectionNoted, Plus
    <3>4. CASE section.sectname # s
      <4>1. found'[s] = found[s]
        BY <3>1, <3>4
      <4>2. CASE (\A k \in 1 .. i : Sections[k].sectname # s) /\ found[s].ptr = Nullptr
        <5>1. \A k \in 1 .. n : Sections[k].sectname # s
          BY <1>7, <3>4, <4>2
        <5> QED BY <3>2, <4>1, <4>2, <5>1 DEF SectionNoted
      <4>3. CASE \E k \in 1 .. i :
                   /\ Sections[k].sectname = s
                   /\ \A m \in 1 .. i : Sections[m].sectname = s => m <= k
                   /\ found[s] = [ptr |-> Plus(header, Sections[k].offset),
                                  size |-> Sections[k].size]
        <5>1. PICK k \in 1 .. i :
                /\ Sections[k].sectname = s
                /\ \A m \in 1 .. i : Sections[m].sectname = s => m <= k
                /\ found[s] = [ptr |-> Plus(header, Sections[k].offset),
                               size |-> Sections[k].size]
          BY <4>3
        <5>2. \A m \in 1 .. n : Sections[m].sectname = s => m <= k
          BY <1>7, <3>4, <5>1
        <5>3. k \in 1 .. n
          BY <1>7
        <5> QED BY <3>2, <4>1, <5>1, <5>2, <5>3 DEF SectionNoted, Plus
      <4>4. SectionNoted(s, i)
        BY <1>3
      <4> QED BY <4>2, <4>3, <4>4 DEF SectionNoted
    <3> QED BY <3>3, <3>4
  <2>9. SectionsPassed'
    <3>1. SliceBegins'
      BY <1>2, <2>1, <2>3 DEF SliceBegins
    <3>2. Segments(file, Base)' = {[at |-> SegmentPlace', sections |-> Sections']}
      BY <1>3, <2>1, <2>3, <2>5 DEF Segments
    <3>3. i' <= Len(Sections')
      BY <1>2, <1>7, <2>1, <2>5
    <3> QED BY <2>1, <2>5, <2>7, <2>8, <3>1, <3>2, <3>3 DEF SectionsPassed, seg, sec
  <2>10. Progress'
    BY <1>2, <2>1, <2>2, <2>4, <2>9
    DEF Progress, ElfProgress, ArchsPassed, CommandsPassed
  <2> QED BY <2>1, <2>10, StillRunning DEF TableInv
<1> QED BY <1>11, <1>12 DEF ReadSection64

LEMMA EndOfSectionsProgress ==
  ASSUME TypeInv, Progress, user = "macho", EndOfSections, UNCHANGED program
  PROVE  TableInv'
<1> DEFINE seg == SizeOf["segment_command_64"]
           sec == SizeOf["section_64"]
           segment == [at |-> SegmentPlace, sections |-> Sections]
<1>1. /\ pc = "sections" /\ i = Len(Sections) /\ CheckFound /\ UNCHANGED macho
  BY DEF EndOfSections
<1>2. /\ InSlice /\ SliceBegins /\ Len(Sections) \in Nat /\ SegmentPlace \in Nat
      /\ DOMAIN Sections = 1 .. i
      /\ \A n \in 1 .. i : Sections[n].offset \in U32 /\ Sections[n].size \in Addr
  BY <1>1, SectionsFacts
<1>3. /\ Segments(file, Base) = {segment}
      /\ command = memfile_ + SegmentPlace + seg + i * sec
      /\ command < memfile_ + file.size
      /\ \A s \in Section : SectionNoted(s, i)
      /\ Copied
  BY <1>1 DEF Progress, SectionsPassed
<1>4. /\ memfile_ \in Nat /\ Base \in Nat /\ file.size \in Nat /\ MaxU32 \in Nat
      /\ header = memfile_ + Base /\ Bases(file, target_arch) = {Base}
      /\ SizeOf["mach_header_64"] \in Nat
      /\ SizeOf["mach_header_64"] < file.size /\ Base + SizeOf["mach_header_64"] < file.size
  BY <1>2, SliceFacts
<1>5. /\ memfile_ \in Addr /\ filesize_ \in Addr /\ memfile_ \in Places
      /\ filesize_ = file.size /\ memfile_ + filesize_ < Top /\ file.opens /\ file.reads
      /\ found \in [Section -> Region]
  BY <1>1, <1>3 DEF Copied, TypeInv, VariablesOK, LoaderTypeOK, ObjectTypeOK
<1> DEFINE Ends(s) == \E n \in LastSection(Sections, s) :
             Base + Sections[n].offset + Sections[n].size < file.size
<1>6. ASSUME NEW s \in Section
      PROVE  /\ IsValidFilePtr(found[s].ptr, found[s].size) <=> Ends(s)
             /\ Ends(s) => found[s] \in MachORegions(file, target_arch, s)
  <2>1. CASE (\A k \in 1 .. i : Sections[k].sectname # s) /\ found[s].ptr = Nullptr
    <3>1. ~Ends(s)
      BY <1>2, <2>1 DEF LastSection
    <3>2. found[s].size \in Addr
      BY <1>5 DEF Region
    <3>3. ~IsValidFilePtr(found[s].ptr, found[s].size)
      BY <1>5, <2>1, <3>2, NullIsOutside
    <3> QED BY <3>1, <3>3
  <2>2. CASE \E k \in 1 .. i :
               /\ Sections[k].sectname = s
               /\ \A m \in 1 .. i : Sections[m].sectname = s => m <= k
               /\ found[s] = [ptr |-> Plus(header, Sections[k].offset), size |-> Sections[k].size]
    <3>1. PICK k \in 1 .. i :
            /\ Sections[k].sectname = s
            /\ \A m \in 1 .. i : Sections[m].sectname = s => m <= k
            /\ found[s] = [ptr |-> Plus(header, Sections[k].offset), size |-> Sections[k].size]
      BY <2>2
    <3>2. LastSection(Sections, s) = {k}
      <4>1. ASSUME NEW n \in LastSection(Sections, s) PROVE n = k
        <5>1. n \in 1 .. i /\ n <= k /\ k <= n
          BY <1>2, <3>1 DEF LastSection
        <5> QED BY <1>1, <1>2, <5>1
      <4>2. k \in LastSection(Sections, s)
        BY <1>2, <3>1 DEF LastSection
      <4> QED BY <4>1, <4>2
    <3> DEFINE o == Sections[k].offset
               z == Sections[k].size
    <3>3. o \in U32 /\ z \in Addr
      BY <1>2
    <3>4. found[s] = [ptr |-> Plus(header, o), size |-> z]
      BY <3>1
    <3>5. Ends(s) <=> Base + o + z < file.size
      BY <3>2
    <3>6. [ptr |-> memfile_ + Base + o, size |-> z] \in MachORegions(file, target_arch, s)
      <4>1. segment \in Segments(file, Base) /\ Base \in Bases(file, target_arch)
        BY <1>3, <1>4
      <4>2. segment.sections = Sections /\ k \in LastSection(segment.sections, s)
        BY <3>2
      <4> HIDE DEF segment
      <4>3. \E b \in Bases(file, target_arch) : \E g \in Segments(file, b) :
              \E n \in LastSection(g.sections, s) :
                [ptr |-> memfile_ + Base + o, size |-> z]
                  = [ptr |-> memfile_ + b + g.sections[n].offset, size |-> g.sections[n].size]
        BY <4>1, <4>2
      <4> HIDE DEF o, z
      <4> QED BY <4>3 DEF MachORegions
    <3> HIDE DEF o, z, Ends
    <3>7. /\ o \in Nat /\ Base + o \in Nat /\ Base + o <= file.size + MaxU32
      BY <1>4, <3>3 DEF U32
    <3>8. /\ memfile_ + (Base + o) \in Addr /\ Base + o \in Addr
          /\ Plus(memfile_, Base + o) = memfile_ + (Base + o)
      BY <1>1, <1>2, <1>3, <3>7, PlacesInCopy DEF InSlice
    <3>9. Plus(header, o) = memfile_ + Base + o /\ memfile_ + Base + o = memfile_ + (Base + o)
      <4>1. header + o = memfile_ + (Base + o) /\ memfile_ + Base + o = memfile_ + (Base + o)
        BY <1>4, <3>7
      <4>2. memfile_ + (Base + o) < Top
        BY <3>8, MemoryAssumption DEF Addr
      <4> QED BY <4>1, <4>2 DEF Plus
    <3>10. IsValidFilePtr(Plus(memfile_, Base + o), z) <=> Base + o + z < filesize_
      BY <1>5, <3>3, <3>8, InsideMeansInFile
    <3>11. found[s].ptr = memfile_ + (Base + o) /\ found[s].size = z
           /\ found[s] = [ptr |-> memfile_ + Base + o, size |-> z]
      BY <3>4, <3>9
    <3> QED BY <1>5, <3>5, <3>6, <3>8, <3>10, <3>11
  <2>3. SectionNoted(s, i)
    BY <1>3
  <2> QED BY <2>1, <2>2, <2>3 DEF SectionNoted
<1>7. SegmentPlace + seg + Len(Sections) * sec < file.size
  <2>1. seg \in Nat /\ sec \in Nat
    BY Sizes DEF Structure
  <2> HIDE DEF seg, sec
  <2>2. i * sec \in Nat
    BY <1>1, <1>2, <2>1, TimesNext
  <2> QED BY <1>1, <1>2, <1>3, <1>4, <2>1, <2>2
<1>8. MachOComplete(file, target_arch) <=> \A s \in Section : Ends(s)
  <2>1. segment.at = SegmentPlace /\ segment.sections = Sections
    OBVIOUS
  <2> HIDE DEF segment
  <2> QED BY <1>2, <1>3, <1>4, <1>5, <1>7, <2>1 DEF MachOComplete, SliceBegins
<1> HIDE DEF Ends
<1>9. /\ AllValid <=> MachOComplete(file, target_arch)
      /\ AllValid => \A s \in Section : found[s] \in MachORegions(file, target_arch, s)
  BY <1>6, <1>8 DEF AllValid
<1>10. UNCHANGED <<user, target_arch, header>>
  BY <1>1 DEF macho, program
<1>11. file.headers[0].magic = "fat" =>
         \E k \in DOMAIN file.archs :
           /\ header = memfile_ + file.archs[k].offset
           /\ \/ ArchName(file.archs[k]) = target_arch
              \/ /\ target_arch # "arm64e"
                 /\ file.archs[k].cputype = TargetCpuType
                 /\ \A j \in 1 .. k - 1 : ArchName(file.archs[j]) # target_arch
  BY <1>2, ChosenSliceServes
<1> QED BY <1>1, <1>9, <1>10, <1>11, ChecksRightly DEF OfElf

LEMMA MachOLoadProgress ==
  ASSUME TypeInv, Progress, user = "macho", MachOLoad, UNCHANGED program
  PROVE  TableInv'
<1>1. ASSUME CantOpen \/ CantRead, UNCHANGED macho PROVE TableInv'
  <2>1. Refuse /\ pc # "idle"
    BY <1>1 DEF CantOpen, CantRead
  <2>2. ~MachOComplete(file, target_arch)
    <3>1. CASE ~file.opens
      BY <3>1 DEF MachOComplete
    <3>2. CASE ~WholeRead
      <4>1. SizeOf["mach_header_64"] \in Nat /\ file.size \in Nat
        BY <2>1, MachOFileFields, Sizes DEF Structure, Addr
      <4> QED BY <3>2, <4>1 DEF MachOComplete, WholeRead
    <3> QED BY <1>1, <3>1, <3>2 DEF CantOpen, CantRead
  <2> QED BY <1>1, <2>1, <2>2, FailsRightly DEF Fails
<1> QED BY <1>1, ReadFileProgress, CheckMachHeaderProgress, ReadArchProgress, NoArchProgress,
           CheckMagicProgress, ReadCommandProgress, NoDwarfProgress, ReadSection64Progress,
           EndOfSectionsProgress
        DEF MachOLoad

(***************************************************************************)
(* Every step.                                                             *)
(***************************************************************************)

LEMMA LoadStepTables ==
  ASSUME TypeInv, TableInv, LoadStep
  PROVE  TableInv'
BY ElfLoadProgress, MachOLoadProgress DEF LoadStep, TableInv

\* A call of Load begins as every other.
LEMMA CallLoadTables ==
  ASSUME TableInv, NEW f, CallLoad(f)
  PROVE  TableInv'
<1>1. pc = "idle" /\ pc' = "open" /\ i' = i /\ found' = found
  BY DEF CallLoad
<1>2. i' = 0 /\ found' = NothingFound
  BY <1>1 DEF TableInv, Progress
<1> QED BY <1>1, <1>2, BeginsCopied, StillRunning DEF TableInv

\* What has been found stays while no Load is called.
LEMMA QuietTables ==
  ASSUME TableInv, pc = "idle",
         UNCHANGED <<loader, macho, user, memfile_, debug_>>
  PROVE  TableInv'
<1>1. pc' = "idle" /\ i' = 0 /\ found' = NothingFound
  BY DEF TableInv, Progress, loader
<1>2. LoadsExactly'
  BY DEF TableInv, Outcome, LoadsExactly, Returned, OfElf, OfMachO, loader, macho
<1>3. TakesItsSections'
  <2>1. \A s \in Section : /\ ElfRegions(file, s)' = ElfRegions(file, s)
                          /\ MachORegions(file, target_arch, s)' = MachORegions(file, target_arch, s)
    BY DEF ElfRegions, MachORegions, loader, macho
  <2>2. OfElf' = OfElf /\ OfMachO' = OfMachO /\ Returned' = Returned /\ returned' = returned
    BY DEF OfElf, OfMachO, Returned, loader
  <2> QED BY <2>1, <2>2 DEF TableInv, Outcome, TakesItsSections
<1>4. RightSlice'
  BY DEF TableInv, Outcome, RightSlice, Returned, OfMachO, TargetCpuType, loader, macho
<1> QED BY <1>1, <1>2, <1>3, <1>4, BeginsCopied DEF TableInv, Outcome

LEMMA ObjectCallTables ==
  ASSUME TableInv, pc = "idle", GetAllClasses \/ Destroy \/ UNCHANGED object,
         UNCHANGED <<loader, macho, user>>
  PROVE  TableInv'
<1>1. UNCHANGED <<memfile_, debug_>>
  BY DEF GetAllClasses, AddNames, Destroy, object
<1> QED BY <1>1, QuietTables

LEMMA UserCallsTables ==
  ASSUME TableInv, UserCalls
  PROVE  TableInv'
<1>1. pc = "idle" /\ UNCHANGED user
  BY DEF UserCalls, program
<1>2. CASE user = "elf" /\ CallElfLoad
  BY <1>2, CallLoadTables DEF CallElfLoad
<1>3. CASE user = "macho" /\ \E call \in MachOCalls : CallMachOLoad(call)
  BY <1>3, CallLoadTables DEF CallMachOLoad
<1>4. CASE (GetAllClasses \/ Destroy) /\ UNCHANGED <<loader, macho>>
  BY <1>1, <1>4, ObjectCallTables
<1> QED BY <1>2, <1>3, <1>4 DEF UserCalls

LEMMA MainTables ==
  ASSUME TypeInv, TableInv, Main
  PROVE  TableInv'
<1> USE DEF Finish, GoOn
<1>1. CASE MainLoads
  BY <1>1, CallLoadTables DEF MainLoads, CallElfLoad
<1>2. CASE ~MainLoads
  <2>1. pc = "idle"
    BY <1>2 DEF Main, MainWithoutPath, MainFails, MainLoaded, MainWalks, WalkExits, MainPrints,
               MainReturns, TypeInv, FileOfItsKind
  <2>2. /\ GetAllClasses \/ Destroy \/ UNCHANGED object
        /\ UNCHANGED <<loader, macho, user>>
    BY <1>2 DEF Main, MainWithoutPath, MainFails, MainLoaded, MainWalks, WalkExits, MainPrints,
               MainReturns
  <2> QED BY <2>1, <2>2, ObjectCallTables
<1> QED BY <1>1, <1>2

LEMMA InitialTables == Init => TableInv
<1> SUFFICES ASSUME Init PROVE TableInv
  OBVIOUS
<1>1. pc = "idle" /\ i = 0 /\ found = NothingFound /\ returned = "none"
  BY DEF Init, LoaderInit
<1>2. Progress
  BY <1>1 DEF Progress, Copied, ElfProgress, ArchsPassed, SliceChosen, CommandsPassed, SectionsPassed
<1>3. Outcome
  BY <1>1 DEF Outcome, LoadsExactly, TakesItsSections, RightSlice, Returned
<1> QED BY <1>2, <1>3 DEF TableInv

LEMMA UnchangedTables ==
  ASSUME TableInv, UNCHANGED vars
  PROVE  TableInv'
<1>1. /\ Base' = Base /\ Header' = Header /\ Sections' = Sections /\ SegmentPlace' = SegmentPlace
      /\ UNCHANGED <<object, loader, macho, program>>
  BY DEF vars, object, loader, macho, program, Base, Header, HeaderAt, Sections, SegmentPlace
<1>2. Copied' /\ ArchsPassed' /\ SliceChosen'
  BY <1>1 DEF TableInv, Progress, Copied, ArchsPassed, SliceChosen, object, loader, macho, program
<1>3. ElfProgress'
  BY <1>1 DEF TableInv, Progress, ElfProgress, ShdrNoted, Plus, object, loader, program
<1>4. CommandsPassed'
  BY <1>1 DEF TableInv, Progress, CommandsPassed, SliceBegins, CommandsWhole, object, loader, macho,
              program
<1>5. SectionsPassed'
  BY <1>1 DEF TableInv, Progress, SectionsPassed, SliceBegins, SectionNoted, Segments, Plus, object,
              loader, macho, program
<1>6. Progress'
  BY <1>1, <1>2, <1>3, <1>4, <1>5 DEF TableInv, Progress, loader
<1>7. CASE pc = "idle"
  BY <1>1, <1>7, QuietTables DEF object, program
<1>8. CASE pc # "idle"
  BY <1>1, <1>6, <1>8, StillRunning DEF TableInv, loader
<1> QED BY <1>7, <1>8

LEMMA TablesAlways == Spec => []TableInv
<1>1. TypeInv /\ [Next]_vars => TypeInv'
  BY TypesPreserved
<1>2. TypeInv /\ TableInv /\ [Next]_vars => TableInv'
  BY LoadStepTables, UserCallsTables, MainTables, UnchangedTables DEF Next
<1> QED BY <1>1, <1>2, InitialTypes, InitialTables, PTL DEF Spec

\* Load accepts the files that can be read, whose tables are in the file and that have the
\* three debug sections, and no others, whatever numbers they hold and wherever their copy
\* lies; but nothing is said of an ELF file whose table of section headers is cut off.
THEOREM LoadsExactlyTheComplete == Spec => []LoadsExactly
<1>1. TableInv => LoadsExactly
  BY DEF TableInv, Outcome
<1> QED BY <1>1, TablesAlways, PTL

\* Of several sections with one name it takes the last one of the segment or table, at
\* its place in the slice.
THEOREM SectionsTaken == Spec => []TakesItsSections
<1>1. TableInv => TakesItsSections
  BY DEF TableInv, Outcome
<1> QED BY <1>1, TablesAlways, PTL

\* Of a fat file it takes no slice but arm64e when that is asked for; asked for arm64 or
\* x86_64, a slice of that processor, and another than the one asked for only when none
\* of that comes before: the order of the slices matters.
THEOREM SliceTakenIsRight == Spec => []RightSlice
<1>1. TableInv => RightSlice
  BY DEF TableInv, Outcome
<1> QED BY <1>1, TablesAlways, PTL

================================================================================
