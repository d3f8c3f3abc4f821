------------------------------- MODULE DebugFile -------------------------------
(***************************************************************************)
(* What every kind of DwarfFile promises its user, who may call Load,      *)
(* GetAllClasses and the destructor in any order: a Load tries to copy a   *)
(* file and either fails or finds three sections inside the copy.  Which   *)
(* files are refused is left open.                                         *)
(***************************************************************************)
EXTENDS LoadedFile

VARIABLE phase  \* "idle", or how far a Load is: "opening", "holding" the copy

vars == <<object, phase>>

Init == ObjectInit /\ phase = "idle"

CallLoad == phase = "idle" /\ BeginLoad /\ phase' = "opening"

CopyFile ==
  /\ phase = "opening"
  /\ filesize_' \in Addr
  /\ Allocate(filesize_')
  /\ phase' = "holding"

\* Every return of false.
Refuse == phase # "idle" /\ phase' = "idle" /\ UNCHANGED object

RegionsOfFile ==
  {r \in [ptr : memfile_ .. memfile_ + filesize_, size : 0 .. filesize_] :
     r.ptr + r.size < memfile_ + filesize_}

Accept ==
  /\ phase = "holding"
  /\ debug_' \in [Section -> RegionsOfFile]
  /\ SetDebugPointers(debug_')
  /\ phase' = "idle"

CallGetAllClasses == phase = "idle" /\ GetAllClasses /\ UNCHANGED phase

CallDestructor == phase = "idle" /\ Destroy /\ UNCHANGED phase

Next ==
  CallLoad \/ CopyFile \/ Refuse \/ Accept \/ CallGetAllClasses \/ CallDestructor

Spec == Init /\ [][Next]_vars

TypeOK == ObjectTypeOK /\ phase \in {"idle", "opening", "holding"}

================================================================================
