------------------------------- MODULE MCDumper --------------------------------
(***************************************************************************)
(* Files for the two kinds of Load: whole ones, cut off at every place,    *)
(* and with numbers that point beyond the end or wrap around.  A unit of   *)
(* space is 16 bytes, or what the tables need to keep their order.         *)
(***************************************************************************)
EXTENDS Dumper, TLC

End == Top - 1
CutOff(f) == {[f EXCEPT !.size = size] : size \in 0 .. f.size - 1}

MCUnset ==
  {[filesize |-> 7, debug |-> [s \in Section |-> [ptr |-> 40, size |-> 1]]]}

\* At the beginning of a section, and far behind it.
MCNamesAt == [s \in NameSection |-> IF s = "debug_str" THEN {0, 60} ELSE {0}]

--------------------------------------------------------------------------------
\* ELF: the header in 0 .. 3, the program header in 4, data, then the table.
Shdr(name, offset, size) == [sh_name |-> name, sh_offset |-> offset, sh_size |-> size]
Elf(size, shoff, sections) ==
  [opens |-> TRUE, reads |-> TRUE, size |-> size, e_phoff |-> 4, e_shoff |-> shoff, e_shstrndx |-> 0,
   sections |-> sections]

Info == Shdr("debug_info", 4, 1)
Abbrev == Shdr("debug_abbrev", 5, 1)
Str == Shdr("debug_str", 6, 1)
Names == Shdr("other", 7, 1)

Linked(sections) == Elf(8 + ShdrSize * Len(sections), 8, sections)
Whole == Linked(<<Names, Info, Abbrev, Str>>)

MCElfFiles ==
  CutOff(Whole)
  \union {Whole,
          Linked(<<Names, Str, Info, Abbrev>>),
          Linked(<<Names, Info, Str>>),
          Linked(<<Names>>),
          Linked(<<Names, Info, Shdr("debug_info", 1, 1), Abbrev, Str>>),
          Linked(<<Names, Info, Abbrev, Shdr("debug_str", 0, 0)>>),
          Elf(8, 0, <<>>),
          [Whole EXCEPT !.opens = FALSE],
          [Whole EXCEPT !.reads = FALSE],
          [Whole EXCEPT !.e_phoff = End],
          [Whole EXCEPT !.size = 3, !.e_phoff = 1, !.e_shoff = 2],
          [Whole EXCEPT !.e_shstrndx = 4]}
  \union {Elf(24, 4, <<Shdr("other", 20, 1), Shdr("debug_info", 21, 1),
                       Shdr("debug_abbrev", 22, 1), Shdr("debug_str", 23, size)>>) :
            size \in 0 .. 2}
  \union {Linked(<<Names, Info, Shdr("debug_abbrev", offset, size), Str>>) :
            offset \in {0, 24, End}, size \in {0, 1, 40, Top - 24, End}}

MCJunk ==
  {Shdr("other", 0, 0), Shdr("debug_info", 2, End), Shdr("debug_str", End, 3)}

--------------------------------------------------------------------------------
\* Mach-O: the structures, then the data.
MCSizeOf ==
  [s \in Structure |-> IF s \in {"mach_header_64", "segment_command_64"} THEN 2 ELSE 1]

Section64(name, offset, size) == [sectname |-> name, offset |-> offset, size |-> size]
Segment(name, sections) ==
  [cmd |-> "LC_SEGMENT_64", cmdsize |-> 2 + Len(sections), segname |-> name,
   sections |-> sections]
Uuid == [cmd |-> "other", cmdsize |-> 1, segname |-> "other", sections |-> <<>>]
Mach(commands) == [magic |-> "64", commands |-> commands]
Fat == [magic |-> "fat", commands |-> <<>>]

Three(n) ==
  <<Section64("debug_info", n, 1), Section64("debug_abbrev", n + 1, 1),
    Section64("debug_str", n + 2, 1)>>
\* A slice of twelve units, whose debug sections are at 8 of it.
Slice == Mach(<<Uuid, Segment("__DWARF", Three(8))>>)

Arch(type, subtype, offset) ==
  [cputype |-> type, cpusubtype |-> subtype, offset |-> offset, size |-> 12]
Arm64(offset) == Arch("ARM64", <<0, 0, 0, 0>>, offset)
Arm64e(offset) == Arch("ARM64", <<128, 0, 0, 2>>, offset)
X86(offset) == Arch("X86_64", <<0, 0, 0, 3>>, offset)
X86h(offset) == Arch("X86_64", <<0, 0, 0, 8>>, offset)
Other(offset) == Arch("other", <<0, 0, 0, 0>>, offset)

MachO(size, archs, headers) ==
  [opens |-> TRUE, reads |-> TRUE, size |-> size, archs |-> archs, headers |-> headers]
Thin(size, header_) == MachO(size, <<>>, 0 :> header_)
FatOf(archs, first, second) ==
  MachO(28, archs, 0 :> Fat @@ 4 :> first @@ 16 :> second)

Pairs ==
  {<<Arm64(4), Arm64e(16)>>, <<Arm64e(4), Arm64(16)>>, <<X86(4), Arm64e(16)>>,
   <<X86h(4), X86(16)>>, <<Other(4), Arm64(16)>>}

Asked(file_, arch) == [file |-> file_, arch |-> arch]

MCMachOCalls ==
  {Asked(FatOf(archs, Slice, Slice), name) :
     archs \in Pairs, name \in Supported \union {"armv7"}}
  \union {Asked(f, "arm64e") :
            f \in CutOff(FatOf(<<Arm64(4), Arm64e(16)>>, Slice, Slice))}
  \union {Asked(f, "arm64e") : f \in CutOff(Thin(12, Slice))}
  \union
  {Asked(f, "arm64e") : f \in
     {Thin(12, Slice), MachO(28, <<>>, 0 :> Fat), [Thin(12, Slice) EXCEPT !.opens = FALSE],
      [Thin(12, Slice) EXCEPT !.reads = FALSE],
      FatOf(<<Arm64(4), Arm64e(16)>>, Slice, Mach(<<Uuid>>)),
      FatOf(<<Arm64(4), Arm64e(16)>>, Slice, Fat),
      FatOf(<<Arm64(4), Arm64e(MaxU32)>>, Slice, Slice),
      Thin(20, Mach(<<Segment("other", Three(17)), Segment("__DWARF", Three(14)),
                      Segment("__DWARF", Three(17))>>)),
      Thin(14, Mach(<<Segment("__DWARF", Three(8) \o <<Section64("debug_str", 12, 1)>>)>>)),
      Thin(12, Mach(<<Segment("__DWARF", <<Section64("debug_info", 8, 1)>>)>>)),
      Thin(12, Mach(<<[Uuid EXCEPT !.cmdsize = MaxU32], Segment("__DWARF", Three(8))>>))}}
  \union
  {Asked(Thin(13, Mach(<<Segment("__DWARF", Three(8) \o <<Section64("debug_str", offset, size)>>)>>)),
         "x86_64") :
     offset \in {11, MaxU32}, size \in {1, 2, 40, Top - 24, End}}

================================================================================
