CONSTANTS
  Bottom = 8
  HeapSize = 16
  MinSize = 4
  HoleAlign = 2
  Layouts <- MCLayouts
  Extensions = {4}
  MaxTop = 28
SPECIFICATION Spec
INVARIANTS
  NothingOverlaps
  HolesHoldTheirNode
  CountersTrue
  NoFalseDoubleFree
