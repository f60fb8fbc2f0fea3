CONSTANTS
  Vectors = {60, 69}
  TimerVector = 60
  Spurious = 255
  MaxInterrupts = 4
  MaxProcesses = 2
SPECIFICATION Spec
INVARIANTS
  FrameLostOnlyInWindow
  RestoresOwnStack
  StackReady
  EoiRetiresOwn
  LockHolderNotInterrupted
PROPERTIES
  InterruptsServed
