SPECIFICATION QSpec
CONSTANTS
  m1 = m1
  m2 = m2
  b1 = b1
  b2 = b2
  b3 = b3
  b4 = b4
  common = common
  big = big
  Machine = {m1, m2}
  NoMachine = NoMachine
  Board = {b1, b2, b3, b4}
  Tag = {common, big}
  NoConfig = NoConfig
  Request <- MCRequest
  Config <- MCConfigs
  MaxJob = 3
INVARIANTS
  UpdateRequeuesAll
CHECK_DEADLOCK FALSE
