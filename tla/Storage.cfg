SPECIFICATION Spec
CONSTANTS
  Unit = {0,1,2,3,4,5}
  Byte = {0,1}
  ChunkSize = 2
  AdjLimit = 4
  DoubleThreshold = 3
  Images <- TheImages
  Words <- TheWords
  MaxStores = 4
  TableSize = 5
  HostFDs = {0,1,2,3,4,5}
  Files = {100}
  Cells <- TheCells
  ArgAddr = 20
  Argvs <- TheArgvs
  StackTop = 104
  FileCalls <- TheFileCalls
  OtherCalls <- TheOtherCalls
  MaxFile = 3
  MaxCalls = 4
  MaxOthers = 2
  MaxNode = 16
  RefMax = 9
  MaxVar = 3
  Substs <- TheSubsts
  Quants <- TheQuants
  Menus <- TheMenus
  MaxBddCalls = 4
  MaxHeld = 4
INVARIANTS RowsOrdered Descriptors DiagramsCanonical CountsExact
PROPERTIES PlainMemory FilesAsPromised CallFrame
CHECK_DEADLOCK FALSE
