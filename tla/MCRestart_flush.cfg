SPECIFICATION RSpec
CONSTANTS
  m1 = m1
  m2 = m2
  b1 = b1
  b2 = b2
  f1 = f1
  f2 = f2
  Machine = {m1}
  NoMachine = NoMachine
  Board = {b1, b2}
  Tag = {}
  NoConfig = NoConfig
  Frame = {f1, f2}
  FrameOf <- MCFrameOf
  Generation = {1, 2}
  Request <- MCRequest
  Config <- MCOnlyM1
  MaxJob = 2
  MaxRetired = 2
  MaxPending = 2
INVARIANTS
  FlushLosesNothing
  RestartIsSafe
  OwnerHasLastWord
CHECK_DEADLOCK FALSE
