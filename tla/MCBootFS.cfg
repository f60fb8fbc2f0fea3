SPECIFICATION Spec
CONSTANTS
  KERNELS <- MCKERNELS
  DRIVERS <- MCDRIVERS
  Lengths = {0, 1, 3}
  HeaderSize = 3
  MAX_FILES = 3
  MaxRebuilds = 1
INVARIANTS
  FilesReadBack
  HeadersReadBack
  KernelFirst
