-------------------------------- MODULE ElfFile --------------------------------
(***************************************************************************)
(* ElfFile::Load.  A file is its size, whether it opens and can be read,   *)
(* the fields of its header as Load reads them and its section headers; a  *)
(* name in the string table is the section it names.                       *)
(*                                                                         *)
(* The headers are only checked to begin inside the file.  Of a file       *)
(* shorter than its header the last fields are what memory behind it       *)
(* holds; what is read of a section header that is cut off is any of Junk. *)
(***************************************************************************)
EXTENDS Loader

CONSTANTS
  ElfFiles,  \* the files, as they are on disk
  Junk,      \* the section headers that memory behind a file may resemble
  ShdrSize   \* sizeof(Elf64_Shdr)

\* The fields of Elf64_Shdr and Elf64_Ehdr that Load reads; sections stands for the
\* e_shnum headers at e_shoff.
Elf64_Shdr == [sh_name : Section \union {"other"}, sh_offset : Addr, sh_size : Addr]
Elf64_Ehdr ==
  [opens : BOOLEAN, reads : BOOLEAN, size : Addr, e_phoff : Addr, e_shoff : Addr, e_shstrndx : Nat,
   sections : Seq(Elf64_Shdr)]

ASSUME ElfAssumption ==
  ElfFiles \subseteq Elf64_Ehdr /\ Junk \subseteq Elf64_Shdr /\ ShdrSize \in Nat

--------------------------------------------------------------------------------
\* section_header_[n], when it is in the file.
InTable(n) ==
  /\ n < Len(file.sections)
  /\ file.e_shoff + (n + 1) * ShdrSize <= file.size

HeadersAt(n) == IF InTable(n) THEN {file.sections[n + 1]} ELSE Junk

\* The part of the file at an offset begins inside it.
Begins(offset) == IsValidFilePtr(Plus(memfile_, offset), 0)

GoodHeaders(names_header) ==
  /\ Begins(0) /\ Begins(file.e_phoff) /\ Begins(file.e_shoff)
  /\ Begins(names_header.sh_offset)

CheckHeaders ==
  /\ pc = "headers" /\ WholeRead
  /\ \E names_header \in HeadersAt(file.e_shstrndx) :
       \/ ~GoodHeaders(names_header) /\ Refuse
       \/ /\ GoodHeaders(names_header)
          /\ pc' = "sections"
          /\ UNCHANGED <<object, file, i, found, returned>>

\* A slip: the loop does not stop at e_shnum.
ReadShdrBeyond ==
  /\ pc = "sections" /\ i <= Len(file.sections)
  /\ \E header \in HeadersAt(i) :
       found' = Note(header.sh_name, memfile_, header.sh_offset, header.sh_size)
  /\ i' = i + 1
  /\ UNCHANGED <<object, pc, file, returned>>

ReadShdr ==
  /\ pc = "sections" /\ i < Len(file.sections)
  /\ \E header \in HeadersAt(i) :
       found' = Note(header.sh_name, memfile_, header.sh_offset, header.sh_size)
  /\ i' = i + 1
  /\ UNCHANGED <<object, pc, file, returned>>

EndOfShdrs == pc = "sections" /\ i = Len(file.sections) /\ CheckFound

ElfLoad == CantOpen \/ ReadFile \/ CantRead \/ CheckHeaders \/ ReadShdr \/ EndOfShdrs

--------------------------------------------------------------------------------
\* A file that Load can make sense of: its tables are not cut off and it has the three
\* sections, each of which ends before the last byte.
LastShdr(f, s) ==
  {n \in DOMAIN f.sections :
     /\ f.sections[n].sh_name = s
     /\ \A m \in DOMAIN f.sections : f.sections[m].sh_name = s => m <= n}

TableWhole(f) ==
  f.e_shoff + Len(f.sections) * ShdrSize <= f.size /\ f.e_shstrndx < Len(f.sections)

ElfComplete(f) ==
  /\ f.opens /\ f.reads
  /\ f.e_phoff < f.size /\ f.e_shoff < f.size
  /\ f.sections[f.e_shstrndx + 1].sh_offset < f.size
  /\ \A s \in Section : \E n \in LastShdr(f, s) :
       f.sections[n].sh_offset + f.sections[n].sh_size < f.size

ElfRegions(f, s) ==
  {[ptr |-> memfile_ + f.sections[n].sh_offset, size |-> f.sections[n].sh_size] :
     n \in LastShdr(f, s)}

================================================================================
