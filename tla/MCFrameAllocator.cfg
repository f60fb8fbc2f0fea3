CONSTANTS
  Maps <- MCMaps
  PageSize = 2
  MaxRequest = 7
  MaxRegions = 3
  MaxFrame = 5
SPECIFICATION Spec
INVARIANTS
  TypeOK
  NoFrameIssuedTwice
  IssuedFramesUsable
  NothingLostBeforeSwap
PROPERTIES
  SwapLossBounded
  ImplementsPool
