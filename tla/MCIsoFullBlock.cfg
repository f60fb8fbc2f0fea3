SPECIFICATION Spec
CONSTANTS
  LOGIC_SIZE = 2048
  Jobs <- MCFullBlock
INVARIANTS
  ContinuationAfterEntries
