CONSTANTS
  Entries = 10
  Levels = 2
  PageSize = 2
  Images <- MCAdjacent
  MemoryMaps <- MCMaps
  PAGE_TABLE_OFFSET = 20
  StackLow = 120
  StackHigh = 121
  KStackLow = 10
  KStackHigh = 10
  ApicPage = 111
  HeapStartPage = 300
  HeapPages = 3
  IoApicPage = 130
SPECIFICATION Spec
INVARIANTS
  FileBytesLoaded
