------------------------------- MODULE MachOFile -------------------------------
(***************************************************************************)
(* MachOFile::Load.  A file is its size, whether it opens and can be read, *)
(* the list of architectures a fat file begins with and the Mach-O headers *)
(* in it, each with its load commands.  Every structure is checked to end inside the   *)
(* file before it is read.                                                 *)
(***************************************************************************)
EXTENDS Loader

CONSTANTS
  MachOCalls,  \* what Load may be called with: a file and an architecture
  MaxU32,      \* the largest value of a field of 32 bits
  SizeOf       \* the sizes of the structures

VARIABLES
  target_arch,  \* the second argument of Load
  header,       \* where the slice begins; null while none is chosen
  command,      \* the address of cmd, then of the section header
  dwarf_seg     \* which load command is the segment found, from 1

macho == <<target_arch, header, command, dwarf_seg>>

Structure ==
  {"mach_header_64", "fat_header", "fat_arch", "command_header", "segment_command_64",
   "section_64"}

U32 == 0 .. MaxU32
section_64 == [sectname : Section \union {"other"}, offset : U32, size : Addr]
load_command ==
  [cmd : {"LC_SEGMENT_64", "other"}, cmdsize : U32, segname : {"__DWARF", "other"},
   sections : Seq(section_64)]
mach_header_64 == [magic : {"fat", "64", "other"}, commands : Seq(load_command)]
\* cpusubtype as the four bytes of the file: the first holds the capabilities.
fat_arch == [cputype : {"ARM64", "X86_64", "other"}, cpusubtype : [1 .. 4 -> 0 .. 255],
             offset : U32, size : U32]

\* A segment begins with a command header.  No file lies so high that an offset of 32
\* bits could wrap around.
ASSUME MachOAssumption ==
  /\ MaxU32 \in Addr /\ SizeOf \in [Structure -> U32]
  /\ SizeOf["command_header"] <= SizeOf["segment_command_64"]
  /\ \A call \in MachOCalls :
       LET f == call.file IN
       /\ f.opens \in BOOLEAN /\ f.reads \in BOOLEAN /\ f.size \in Addr /\ f.archs \in Seq(fat_arch)
       /\ \A at \in Places : at + f.size + MaxU32 < Top
       /\ DOMAIN f.headers \subseteq Addr /\ 0 \in DOMAIN f.headers
       /\ \A offset \in DOMAIN f.headers : f.headers[offset] \in mach_header_64

MachOInit ==
  /\ target_arch = "none"
  /\ header = Nullptr /\ command = Nullptr /\ dwarf_seg = 0

CallMachOLoad(call) ==
  /\ CallLoad(call.file)
  /\ target_arch' = call.arch
  /\ header' = Nullptr /\ command' = Nullptr /\ dwarf_seg' = 0

--------------------------------------------------------------------------------
Fails == Refuse /\ UNCHANGED macho

Valid(ptr, structure) == IsValidFilePtr(ptr, SizeOf[structure])

\* What is at a place where no Mach-O file begins has another magic.
HeaderAt(offset) ==
  IF offset \in DOMAIN file.headers THEN file.headers[offset]
  ELSE [magic |-> "other", commands |-> <<>>]

GoTo(place) == pc' = place /\ i' = 0 /\ UNCHANGED <<object, file, found, returned>>
NextTurn == i' = i + 1 /\ UNCHANGED <<object, pc, file, returned>>

Supported == {"arm64", "arm64e", "x86_64"}

CheckMachHeader ==
  /\ pc = "headers" /\ WholeRead
  /\ \/ /\ Valid(memfile_, "mach_header_64") /\ HeaderAt(0).magic # "fat"
        /\ GoTo("magic") /\ header' = memfile_
        /\ UNCHANGED <<target_arch, command, dwarf_seg>>
     \/ /\ Valid(memfile_, "mach_header_64") /\ HeaderAt(0).magic = "fat"
        /\ target_arch \in Supported
        /\ GoTo("archs") /\ UNCHANGED macho
     \/ /\ Valid(memfile_, "mach_header_64") =>
             HeaderAt(0).magic = "fat" /\ target_arch \notin Supported
        /\ Fails

\* ntohl(cpusubtype & CPU_SUBTYPE_MASK): the mask is applied before the swap and keeps
\* the last byte.  (A slip: it keeps the first, the capabilities.)
CpuSubtypeFirst(arch) == arch.cpusubtype[1]
CpuSubtype(arch) == arch.cpusubtype[4]

TargetCpuType == IF target_arch = "x86_64" THEN "X86_64" ELSE "ARM64"
TargetCpuSubtype == IF target_arch = "arm64e" THEN 2 ELSE 0

\* A slip: the processor is enough.
MatchesProcessor(arch) == arch.cputype = TargetCpuType

Matches(arch) ==
  /\ arch.cputype = TargetCpuType
  /\ TargetCpuSubtype = 0 \/ CpuSubtype(arch) = TargetCpuSubtype

\* One turn of the loop over the architectures.
ReadArch ==
  /\ pc = "archs" /\ i < Len(file.archs)
  /\ LET arch == file.archs[i + 1]
         entry == Plus(memfile_, SizeOf["fat_header"] + i * SizeOf["fat_arch"])
         slice == Plus(memfile_, arch.offset)
     IN
     \/ ~Valid(entry, "fat_arch") /\ Fails
     \/ /\ Valid(entry, "fat_arch") /\ ~Matches(arch)
        /\ NextTurn /\ UNCHANGED <<found, macho>>
     \/ /\ Valid(entry, "fat_arch") /\ Matches(arch)
        /\ ~Valid(slice, "mach_header_64") /\ Fails
     \/ /\ Valid(entry, "fat_arch") /\ Matches(arch)
        /\ Valid(slice, "mach_header_64")
        /\ GoTo("magic") /\ header' = slice
        /\ UNCHANGED <<target_arch, command, dwarf_seg>>

\* A slip: a fat file with no architectures is not thought of.
NoArchOfSome == pc = "archs" /\ i = Len(file.archs) /\ i > 0 /\ Fails

NoArch == pc = "archs" /\ i = Len(file.archs) /\ Fails

Header == HeaderAt(header - memfile_)

CheckMagic ==
  /\ pc = "magic"
  /\ \/ Header.magic # "64" /\ Fails
     \/ /\ Header.magic = "64"
        /\ GoTo("commands")
        /\ command' = Plus(header, SizeOf["mach_header_64"])
        /\ UNCHANGED <<target_arch, header, dwarf_seg>>

\* One turn of the loop over the load commands.
ReadCommand ==
  /\ pc = "commands" /\ i < Len(Header.commands)
  /\ LET cmd == Header.commands[i + 1]
         whole == /\ Valid(command, "command_header")
                  /\ cmd.cmd = "LC_SEGMENT_64" => Valid(command, "segment_command_64")
         dwarf == cmd.cmd = "LC_SEGMENT_64" /\ cmd.segname = "__DWARF"
     IN
     \/ ~whole /\ Fails
     \/ /\ whole /\ dwarf
        /\ GoTo("sections")
        /\ dwarf_seg' = i + 1
        /\ command' = Plus(command, SizeOf["segment_command_64"])
        /\ UNCHANGED <<target_arch, header>>
     \/ /\ whole /\ ~dwarf
        /\ NextTurn /\ command' = Plus(command, cmd.cmdsize)
        /\ UNCHANGED <<found, target_arch, header, dwarf_seg>>

NoDwarf == pc = "commands" /\ i = Len(Header.commands) /\ Fails

Sections == Header.commands[dwarf_seg].sections

\* One turn of the loop over the sections of the segment.
ReadSection64 ==
  /\ pc = "sections" /\ i < Len(Sections)
  /\ \/ ~Valid(command, "section_64") /\ Fails
     \/ /\ Valid(command, "section_64")
        /\ LET section == Sections[i + 1] IN
           found' = Note(section.sectname, header, section.offset, section.size)
        /\ NextTurn /\ command' = Plus(command, SizeOf["section_64"])
        /\ UNCHANGED <<target_arch, header, dwarf_seg>>

EndOfSections ==
  /\ pc = "sections" /\ i = Len(Sections)
  /\ CheckFound /\ UNCHANGED macho

MachOLoad ==
  \/ (CantOpen \/ ReadFile \/ CantRead) /\ UNCHANGED macho
  \/ CheckMachHeader \/ ReadArch \/ NoArch \/ CheckMagic
  \/ ReadCommand \/ NoDwarf \/ ReadSection64 \/ EndOfSections

--------------------------------------------------------------------------------
(* What Load should make of a file, stated without its loops. *)

\* The architecture by which a user knows a slice.
ArchName(arch) ==
  CASE arch.cputype = "ARM64" /\ arch.cpusubtype[4] = 0 -> "arm64"
    [] arch.cputype = "ARM64" /\ arch.cpusubtype[4] = 2 -> "arm64e"
    [] arch.cputype = "X86_64" /\ arch.cpusubtype[4] = 3 -> "x86_64"
    [] OTHER -> "other"

\* The slice that is taken: that of the architecture asked for, but that any slice of
\* the processor does when arm64 or x86_64 is asked for.
Serves(arch, name) ==
  \/ ArchName(arch) = name
  \/ name = "arm64" /\ arch.cputype = "ARM64"
  \/ name = "x86_64" /\ arch.cputype = "X86_64"

FirstServing(f, name) ==
  {k \in DOMAIN f.archs :
     /\ Serves(f.archs[k], name)
     /\ \A j \in 1 .. k - 1 : ~Serves(f.archs[j], name)}

\* Where in the file its slice begins; none, when its architecture is not there.
Bases(f, name) ==
  IF f.headers[0].magic # "fat" THEN {0}
  ELSE {f.archs[k].offset : k \in
          {j \in FirstServing(f, name) :
             name \in Supported /\
             SizeOf["fat_header"] + j * SizeOf["fat_arch"] < f.size}}

IsDwarf(c) == c.cmd = "LC_SEGMENT_64" /\ c.segname = "__DWARF"

\* Where in the file the load commands of a slice begin: command n at n - 1.
CommandPlaces(f, base) ==
  LET commands == f.headers[base].commands
      place[n \in 0 .. Len(commands)] ==
        IF n = 0 THEN base + SizeOf["mach_header_64"] ELSE place[n - 1] + commands[n].cmdsize
  IN  place

CommandSize(c) ==
  SizeOf[IF c.cmd = "LC_SEGMENT_64" THEN "segment_command_64" ELSE "command_header"]

\* The load commands up to number n are in the file, as far as Load reads them.
CommandsWhole(f, base, n) ==
  \A k \in 1 .. n :
    CommandPlaces(f, base)[k - 1] + CommandSize(f.headers[base].commands[k]) < f.size

\* The first __DWARF segment of a slice, its place and its sections.
Segments(f, base) ==
  LET commands == f.headers[base].commands
  IN  {[at |-> CommandPlaces(f, base)[n - 1], sections |-> commands[n].sections] :
         n \in {m \in DOMAIN commands :
                 /\ IsDwarf(commands[m])
                 /\ \A k \in 1 .. m - 1 : ~IsDwarf(commands[k])
                 /\ CommandsWhole(f, base, m)}}

LastSection(sections, s) ==
  {n \in DOMAIN sections :
     /\ sections[n].sectname = s
     /\ \A m \in DOMAIN sections : sections[m].sectname = s => m <= n}

MachOComplete(f, name) ==
  /\ f.opens /\ f.reads
  /\ SizeOf["mach_header_64"] < f.size
  /\ \E base \in Bases(f, name) :
       /\ base \in DOMAIN f.headers /\ f.headers[base].magic = "64"
       /\ base + SizeOf["mach_header_64"] < f.size
       /\ \E segment \in Segments(f, base) :
            /\ segment.at + SizeOf["segment_command_64"]
                 + Len(segment.sections) * SizeOf["section_64"] < f.size
            /\ \A s \in Section : \E n \in LastSection(segment.sections, s) :
                 base + segment.sections[n].offset + segment.sections[n].size < f.size

MachORegions(f, name, s) ==
  UNION {UNION {
    {[ptr |-> memfile_ + base + segment.sections[n].offset, size |-> segment.sections[n].size] :
       n \in LastSection(segment.sections, s)} :
    segment \in Segments(f, base)} : base \in Bases(f, name)}

================================================================================
