SPECIFICATION Spec
CONSTANTS
  LOGIC_SIZE = 2048
  Jobs <- MCJobs
INVARIANTS
  OneOwnerPerBlock
  DirectoriesReadBack
  NoFileLost
  PathTableParents
  AssertionsHold
