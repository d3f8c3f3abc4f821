--------------------------------- MODULE Loader --------------------------------
(***************************************************************************)
(* What ElfFile::Load and MachOFile::Load have in common: the copy of the  *)
(* file at the beginning, the loop over section headers that notes the     *)
(* debug sections, and the check of what it found at the end.  ElfFile and *)
(* MachOFile have the steps in between.                                    *)
(***************************************************************************)
EXTENDS LoadedFile, Sequences

VARIABLES
  pc,        \* "idle" or where Load is: "open", "headers", ..., "sections"
  file,      \* its argument
  i, found,  \* its locals: the turn of the loop, the sections found so far
  returned   \* what the last Load returned: "none" | "loaded" | "refused"

loader == <<pc, file, i, found, returned>>

\* debug_info = 0 and so on.
NothingFound == [s \in Section |-> [ptr |-> Nullptr, size |-> 0]]

LoaderInit ==
  /\ ObjectInit
  /\ pc = "idle"
  /\ i = 0 /\ found = NothingFound
  /\ returned = "none"

CallLoad(f) ==
  /\ pc = "idle"
  /\ BeginLoad
  /\ file' = f
  /\ pc' = "open"
  /\ UNCHANGED <<i, found, returned>>

\* The locals end with the call.
Return(result) ==
  /\ pc' = "idle" /\ returned' = result
  /\ i' = 0 /\ found' = NothingFound
  /\ UNCHANGED file

Refuse == Return("refused") /\ UNCHANGED object

CantOpen == pc = "open" /\ ~file.opens /\ Refuse

ReadFile ==
  /\ pc = "open" /\ file.opens
  /\ Allocate(file.size)
  /\ pc' = "headers"
  /\ UNCHANGED <<file, i, found, returned>>

\* fread gets all of the file: not of an empty one, nor of one that cannot be read or has
\* become shorter since its size was asked.
WholeRead == file.reads /\ file.size > 0

CantRead == pc = "headers" /\ ~WholeRead /\ Refuse

\* A slip: the first section of a name counts.
NoteFirst(name, base, offset, size) ==
  IF name \in Section /\ found[name].ptr = Nullptr
  THEN [found EXCEPT ![name] = [ptr |-> Plus(base, offset), size |-> size]]
  ELSE found

\* A slip: offsets are taken from the beginning of the file.
NoteInFile(name, base, offset, size) ==
  IF name \in Section
  THEN [found EXCEPT ![name] = [ptr |-> Plus(memfile_, offset), size |-> size]]
  ELSE found

Note(name, base, offset, size) ==
  IF name \in Section
  THEN [found EXCEPT ![name] = [ptr |-> Plus(base, offset), size |-> size]]
  ELSE found

AllValid == \A s \in Section : IsValidFilePtr(found[s].ptr, found[s].size)

\* A slip: the pointers are set before they are checked.
CheckFoundLate == SetDebugPointers(found) /\ Return(IF AllValid THEN "loaded" ELSE "refused")

CheckFound ==
  \/ AllValid /\ SetDebugPointers(found) /\ Return("loaded")
  \/ ~AllValid /\ Refuse

LoaderTypeOK ==
  /\ ObjectTypeOK
  /\ pc \in {"idle", "open", "headers", "archs", "magic", "commands", "sections"}
  /\ i \in Nat
  /\ found \in [Section -> Region]
  /\ returned \in {"none", "loaded", "refused"}

\* How far the Load of a DwarfFile is.
phase == CASE pc = "idle" -> "idle" [] pc = "open" -> "opening" [] OTHER -> "holding"

================================================================================
