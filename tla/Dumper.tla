--------------------------------- MODULE Dumper --------------------------------
(***************************************************************************)
(* main, and everybody else who uses an ElfFile or a MachOFile: the calls  *)
(* Load, GetAllClasses, json and the destructor, on one object.            *)
(*                                                                         *)
(* main is one sequence of calls; other users of the classes may call them *)
(* in any order.  user says which of the three this is.                    *)
(***************************************************************************)
EXTENDS ElfFile, MachOFile

VARIABLES
  user,     \* "main", or who calls an ElfFile ("elf") or a MachOFile ("macho")
  argc,     \* of main; 0 where there is none
  at,       \* where main is: "start", "load", "walk", "print", "return", "end"
  printed,  \* the names in the JSON that main printed; {} before it does
  rc        \* what main returned, or its exit code; 0 before it does

program == <<user, argc, at, printed, rc>>
vars == <<object, loader, macho, program>>

NoFile == [opens |-> FALSE]

Init ==
  /\ LoaderInit /\ MachOInit
  /\ file = NoFile
  /\ user \in {"main", "elf", "macho"}
  /\ argc \in IF user = "main" THEN 1 .. 3 ELSE {0}
  /\ at = "start" /\ printed = {} /\ rc = 0

CallElfLoad == \E f \in ElfFiles : CallLoad(f) /\ UNCHANGED macho

\* The next step of a Load that has been called.
LoadStep ==
  /\ \/ user # "macho" /\ ElfLoad /\ UNCHANGED macho
     \/ user = "macho" /\ MachOLoad
  /\ UNCHANGED program

UserCalls ==
  /\ user # "main" /\ pc = "idle"
  /\ \/ user = "elf" /\ CallElfLoad
     \/ user = "macho" /\ \E call \in MachOCalls : CallMachOLoad(call)
     \/ GetAllClasses /\ UNCHANGED <<loader, macho>>
     \/ Destroy /\ UNCHANGED <<loader, macho>>
  /\ UNCHANGED program

--------------------------------------------------------------------------------
(* main.  The architecture it takes from its arguments is not used. *)

GoOn(place) == at' = place /\ UNCHANGED <<user, argc, printed, rc>>
Finish(code) ==
  /\ at' = "end" /\ rc' = code
  /\ UNCHANGED <<loader, macho, user, argc, printed>>

MainWithoutPath == at = "start" /\ argc < 2 /\ Finish(1) /\ UNCHANGED object

MainLoads == at = "start" /\ argc >= 2 /\ CallElfLoad /\ GoOn("load")

MainFails == at = "load" /\ pc = "idle" /\ returned = "refused" /\ Finish(2) /\ Destroy

\* A slip: the result of Load is ignored, like that of GetAllClasses.
MainLoadedAnyhow ==
  /\ at = "load" /\ pc = "idle"
  /\ GoOn("walk")
  /\ UNCHANGED <<object, loader, macho>>

MainLoaded ==
  /\ at = "load" /\ pc = "idle" /\ returned = "loaded"
  /\ GoOn("walk")
  /\ UNCHANGED <<object, loader, macho>>

\* What GetAllClasses returns is ignored: however far it came, main goes on.
MainWalks ==
  /\ at = "walk"
  /\ GetAllClasses
  /\ GoOn("print")
  /\ UNCHANGED <<loader, macho>>

\* exit(1) in FormDataValue: nothing is printed and no destructor runs.
WalkExits == at = "walk" /\ is_loaded_ /\ GetAllClasses /\ Finish(1)

MainPrints ==
  /\ at = "print"
  /\ printed' = names
  /\ at' = "return"
  /\ UNCHANGED <<object, loader, macho, user, argc, rc>>

MainReturns == at = "return" /\ Finish(0) /\ Destroy

Main ==
  /\ user = "main"
  /\ \/ MainWithoutPath \/ MainLoads \/ MainFails \/ MainLoaded
     \/ MainWalks \/ WalkExits \/ MainPrints \/ MainReturns

Next == LoadStep \/ UserCalls \/ Main

\* A Load that is called runs until it returns, and so does main; other users need
\* not call anything.
Spec == Init /\ [][Next]_vars /\ WF_vars(LoadStep) /\ WF_vars(Main)

--------------------------------------------------------------------------------
Files == {NoFile} \union ElfFiles \union {call.file : call \in MachOCalls}

\* Where the loop of a Load is in the list it goes through: at an entry or behind the last.
TurnOK ==
  /\ pc \in {"idle", "open", "headers", "magic"} => i = 0
  /\ pc = "archs" => i <= Len(file.archs)
  /\ pc = "commands" => i <= Len(Header.commands)
  /\ pc = "sections" /\ user # "macho" => i <= Len(file.sections)
  /\ pc = "sections" /\ user = "macho" =>
       dwarf_seg \in DOMAIN Header.commands /\ i <= Len(Sections)

VariablesOK ==
  /\ LoaderTypeOK
  /\ file \in Files
  /\ header \in Addr /\ command \in Addr /\ dwarf_seg \in Nat
  /\ target_arch \in {"none"} \union {call.arch : call \in MachOCalls}
  /\ user \in {"main", "elf", "macho"} /\ argc \in 0 .. 3
  /\ at \in {"start", "load", "walk", "print", "return", "end"}
  /\ printed \subseteq Name /\ rc \in 0 .. 2

TypeOK == VariablesOK /\ TurnOK

Returned == pc = "idle" /\ returned # "none"
OfElf == user # "macho" /\ TableWhole(file)
OfMachO == user = "macho"

\* Load accepts the files that can be opened and read and have, at the places their
\* tables say and in full, what it looks for, and no others.  (Of an ELF file whose table
\* of sections is cut off it may say either: it reads on in the memory behind.)
LoadsExactly ==
  /\ Returned /\ OfElf => (returned = "loaded" <=> ElfComplete(file))
  /\ Returned /\ OfMachO => (returned = "loaded" <=> MachOComplete(file, target_arch))

\* The sections that are walked are those of the file and of the slice asked for: of
\* several with one name the last, counted from the beginning of the slice.
TakesItsSections ==
  Returned /\ returned = "loaded" =>
    \A s \in Section :
      /\ OfElf => debug_[s] \in ElfRegions(file, s)
      /\ OfMachO => debug_[s] \in MachORegions(file, target_arch, s)

\* Who asks for an architecture gets no other when it is arm64e, and the one asked for
\* when the file has no second slice for its processor.  (Asked for arm64, Load also
\* takes an arm64e slice that comes first.)
RightSlice ==
  Returned /\ OfMachO /\ returned = "loaded" /\ file.headers[0].magic = "fat" =>
    \E k \in DOMAIN file.archs :
      /\ header = memfile_ + file.archs[k].offset
      /\ \/ ArchName(file.archs[k]) = target_arch
         \/ /\ target_arch # "arm64e"
            /\ file.archs[k].cputype = TargetCpuType
            /\ \A j \in 1 .. k - 1 : ArchName(file.archs[j]) # target_arch

\* What main returns tells whether a file was loaded, and nothing is printed of one
\* that was not.
ExitCodeTells ==
  user = "main" =>
    /\ at = "end" /\ rc = 0 => returned = "loaded"
    /\ printed # {} => returned = "loaded" /\ (at = "end" => rc = 0)
    /\ at = "end" /\ argc >= 2 /\ returned = "refused" => rc = 2

\* When main returns, after one Load that failed at whatever point, no block is left.
NothingLost == user = "main" /\ ~alive => heap = {}

\* Every Load returns.
LoadReturns == pc # "idle" ~> pc = "idle"

\* Whatever the format and whatever the file, the object is a DebugFile.
Promise == INSTANCE DebugFile
KeepsPromise == Promise!Spec

================================================================================
