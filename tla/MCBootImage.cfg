CONSTANTS
  Entries = 4
  Levels = 3
  PageSize = 2
  Addresses = {0, 5, 100}
  Sizes = {0, 3, 9}
  FirstFrame = 70
  MaxFrames = 7
  MaxCalls = 2
  BOOT_IMAGE = 64
  ImageAddresses = {0, 1, 6, 7, 8, 13}
  ImageSizes = {0, 1, 8, 9, 15}
SPECIFICATION ImageSpec
INVARIANTS
  OkMeansVisible
  ErrLeavesPrefix
  ImageReadable
PROPERTIES
  MappingsStay
