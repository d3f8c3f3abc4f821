------------------------------ MODULE LoadedFile ------------------------------
(***************************************************************************)
(* The file image that a DwarfFile object holds: who owns memfile_, where  *)
(* the debug sections lie in it, and what points into it.  ElfFile::Load   *)
(* and MachOFile::Load begin and end alike; their common steps are here,   *)
(* with the destructor and what GetAllClasses keeps of the image.          *)
(*                                                                         *)
(* An address is a number below Top and pointers wrap around, as the check *)
(* of IsValidFilePtr for an overflow expects.                              *)
(***************************************************************************)
EXTENDS Naturals

CONSTANTS
  Top,       \* addresses are 0 .. Top - 1 (2^64 in the code)
  Places,    \* where malloc may put a block
  MaxLoads,  \* bound: calls of Load on the object
  Unset,     \* what filesize_ and the debug_ members may hold at first
  NamesAt    \* how far from the beginning of its section a name may be said to be

VARIABLES
  memfile_, filesize_, is_loaded_,
  debug_,    \* debug_info_, debug_abbrev_, debug_str_ with their sizes
  alive,     \* the destructor has not run
  heap,      \* the blocks malloc gave and nobody freed
  names,     \* where the name_ members of the elements point
  loads,     \* history: calls of Load; blocks and names carry its value
  accepted   \* history: the loads that succeeded

object == <<memfile_, filesize_, is_loaded_, debug_, alive, heap, names, loads, accepted>>

Section == {"debug_info", "debug_abbrev", "debug_str"}
Addr == 0 .. Top - 1
Nullptr == 0
Region == [ptr : Addr, size : Addr]
Block == [at : Addr, size : Addr, load : Nat]
NameSection == {"debug_info", "debug_str"}
Name == [at : Addr, load : Nat, section : NameSection, place : Addr]

ASSUME MemoryAssumption ==
  Top \in Nat \ {0} /\ Places \subseteq Addr \ {Nullptr} /\ MaxLoads \in Nat
ASSUME UnsetAssumption == Unset \subseteq [filesize : Addr, debug : [Section -> Region]]
ASSUME NamesAssumption == NamesAt \in [NameSection -> SUBSET Addr]

ObjectInit ==
  /\ memfile_ = Nullptr /\ is_loaded_ = FALSE
  /\ \E u \in Unset : filesize_ = u.filesize /\ debug_ = u.debug
  /\ alive = TRUE
  /\ heap = {} /\ names = {}
  /\ loads = 0 /\ accepted = {}

--------------------------------------------------------------------------------
Plus(ptr, n) == IF ptr + n < Top THEN ptr + n ELSE ptr + n - Top

\* Slips: the end is not compared, or compared without the overflow.
IsValidFilePtrStart(ptr, size) == ptr >= memfile_ /\ ptr < memfile_ + filesize_
IsValidFilePtrWrapping(ptr, size) ==
  ptr >= memfile_ /\ Plus(ptr, size) < memfile_ + filesize_

IsValidFilePtr(ptr, size) ==
  /\ Plus(ptr, size) >= ptr
  /\ ptr >= memfile_
  /\ Plus(ptr, size) < memfile_ + filesize_

\* malloc and free: a block lies apart from the others and below Top.
Fits(at, size) ==
  /\ at + size < Top
  /\ \A b \in heap : at + size < b.at \/ b.at + b.size < at

Freed(ptr) == {b \in heap : b.at # ptr}

--------------------------------------------------------------------------------
\* Slips: memfile_ is left dangling; the block is forgotten; is_loaded_ stays.
BeginLoadDangling ==
  /\ alive /\ loads < MaxLoads
  /\ heap' = IF is_loaded_ THEN Freed(memfile_) ELSE heap
  /\ is_loaded_' = FALSE
  /\ loads' = loads + 1
  /\ UNCHANGED <<memfile_, filesize_, debug_, alive, names, accepted>>

BeginLoadKeeping ==
  /\ alive /\ loads < MaxLoads
  /\ memfile_' = IF is_loaded_ THEN Nullptr ELSE memfile_
  /\ is_loaded_' = FALSE
  /\ loads' = loads + 1
  /\ UNCHANGED <<heap, filesize_, debug_, alive, names, accepted>>

BeginLoadStillLoaded ==
  /\ alive /\ loads < MaxLoads
  /\ heap' = IF is_loaded_ THEN Freed(memfile_) ELSE heap
  /\ memfile_' = IF is_loaded_ THEN Nullptr ELSE memfile_
  /\ loads' = loads + 1
  /\ UNCHANGED <<is_loaded_, filesize_, debug_, alive, names, accepted>>

\* The first lines of Load.  Elements that are there stay, with their names.
BeginLoad ==
  /\ alive /\ loads < MaxLoads
  /\ heap' = IF is_loaded_ THEN Freed(memfile_) ELSE heap
  /\ memfile_' = IF is_loaded_ THEN Nullptr ELSE memfile_
  /\ is_loaded_' = FALSE
  /\ loads' = loads + 1
  /\ UNCHANGED <<filesize_, debug_, alive, names, accepted>>

\* The file is open: its size, and memory for it.  A copy that a failed Load left
\* in memfile_ is overwritten.
Allocate(size) ==
  /\ \E at \in Places :
       /\ Fits(at, size)
       /\ memfile_' = at
       /\ heap' = heap \union {[at |-> at, size |-> size, load |-> loads]}
  /\ filesize_' = size
  /\ UNCHANGED <<is_loaded_, debug_, alive, names, loads, accepted>>

SetDebugPointers(debug) ==
  /\ debug_' = debug
  /\ is_loaded_' = TRUE
  /\ accepted' = accepted \union {loads}
  /\ UNCHANGED <<memfile_, filesize_, alive, heap, names, loads>>

\* GetAllClasses, for what it keeps of the image: any names, in either form.  Neither the
\* place in debug_str that a file gives nor how far the walk has come is compared with
\* the size of the section.
NameIn(s, place) ==
  [at |-> Plus(debug_[s].ptr, place), load |-> loads, section |-> s, place |-> place]
NamePlaces == UNION {{NameIn(s, place) : place \in NamesAt[s]} : s \in NameSection}

AddNames ==
  /\ \E found_names \in SUBSET NamePlaces : names' = names \union found_names
  /\ UNCHANGED <<memfile_, filesize_, is_loaded_, debug_, alive, heap, loads, accepted>>

\* A slip: is_loaded_ is not asked.
GetAllClassesUnasked == alive /\ AddNames

GetAllClasses ==
  /\ alive
  /\ \/ is_loaded_ /\ AddNames
     \/ ~is_loaded_ /\ UNCHANGED object

\* A slip: only the copy of a file that was loaded is freed.
DestroyLoaded ==
  /\ alive
  /\ alive' = FALSE
  /\ heap' = IF is_loaded_ THEN Freed(memfile_) ELSE heap
  /\ names' = {}
  /\ UNCHANGED <<memfile_, filesize_, is_loaded_, debug_, loads, accepted>>

\* ~ElfFile and ~MachOFile; the elements go with the object.
Destroy ==
  /\ alive
  /\ alive' = FALSE
  /\ heap' = IF memfile_ # Nullptr THEN Freed(memfile_) ELSE heap
  /\ names' = {}
  /\ UNCHANGED <<memfile_, filesize_, is_loaded_, debug_, loads, accepted>>

--------------------------------------------------------------------------------
ObjectTypeOK ==
  /\ memfile_ \in Addr /\ filesize_ \in Addr
  /\ is_loaded_ \in BOOLEAN /\ alive \in BOOLEAN
  /\ debug_ \in [Section -> Region]
  /\ heap \subseteq Block /\ names \subseteq Name
  /\ loads \in Nat /\ accepted \subseteq 0 .. loads

\* memfile_ is null or a block of the object's own, of filesize_ bytes, so that
\* neither Load nor the destructor frees what is free already.
OwnsItsBlock ==
  alive /\ memfile_ # Nullptr =>
    \E b \in heap : b.at = memfile_ /\ b.size = filesize_

\* What the walk over a loaded file reads lies in the copy of that file: no pointer
\* is left from an earlier file, none is beyond the end, no sum has wrapped around.
SectionsInFile(debug) ==
  \A s \in Section :
    /\ memfile_ <= debug[s].ptr
    /\ debug[s].ptr + debug[s].size < memfile_ + filesize_

LoadedInFile ==
  alive /\ is_loaded_ => OwnsItsBlock /\ memfile_ # Nullptr /\ SectionsInFile(debug_)

\* The memory of a file that was loaded is returned by the next Load or the
\* destructor: only what a failed Load left can be lost.
LoadedFilesReturned ==
  \A b \in heap : b.load \in accepted => alive /\ is_loaded_ /\ b.at = memfile_

\* Until the next Load a name that begins inside its section points into the copy of the
\* file it was found in, whatever failed before.  (A place beyond the end of debug_str is
\* followed all the same.)
NameLive(n) == \E b \in heap : b.at <= n.at /\ n.at < b.at + b.size
NamesInFile ==
  \A n \in names : n.load = loads /\ n.place < debug_[n.section].size => NameLive(n)

================================================================================
