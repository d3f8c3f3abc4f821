CONSTANTS
  Top = 256
  Places = {38, 150}
  MaxLoads = 2
  ShdrSize = 4
  MaxU32 = 60
  Unset <- MCUnset
  NamesAt <- MCNamesAt
  ElfFiles <- MCElfFiles
  Junk <- MCJunk
  MachOCalls <- MCMachOCalls
  SizeOf <- MCSizeOf
SPECIFICATION Spec
INVARIANTS
  TypeOK
  OwnsItsBlock
  LoadedInFile
  LoadedFilesReturned
  NamesInFile
  LoadsExactly
  TakesItsSections
  RightSlice
  ExitCodeTells
  NothingLost
PROPERTIES
  LoadReturns
  KeepsPromise
CHECK_DEADLOCK FALSE
