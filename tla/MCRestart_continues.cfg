SPECIFICATION RSpec
CONSTANTS
  m1 = m1
  m2 = m2
  b1 = b1
  b2 = b2
  f1 = f1
  f2 = f2
  Machine = {m1}
  NoMachine = NoMachine
  Board = {b1}
  Tag = {}
  NoConfig = NoConfig
  Frame = {f1}
  FrameOf <- MCOneFrame
  Generation = {1, 2}
  Request <- MCTheBoard
  Config <- MCSingle
  MaxJob = 2
  MaxRetired = 2
  MaxPending = 1
INVARIANTS
  OperationContinues
CHECK_DEADLOCK FALSE
