CONSTANTS
  Tables <- MCTables
  Segments = 2
  Buses = 2
  Devices = 2
  Functions = 2
  CONFIG_SPACE = 32
  Space = 16
  Ports = 8
  LowBits = 4
  Pools <- MCPools
  Configs <- MCConfigs
  Routed = {1, 2, 3}
  Entries = 4
  Levels = 2
SPECIFICATION Spec
INVARIANT
  OwnConfigPage
