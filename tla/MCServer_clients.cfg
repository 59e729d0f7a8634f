SPECIFICATION SSpec
CONSTANTS
  c1 = c1
  c2 = c2
  j1 = j1
  m1 = m1
  Client = {c1, c2}
  NoClient = NoClient
  Item = {j1}
  KindOf <- MCJobs
  All = All
  Line <- MCSessions
  NoLine = NoLine
  Listener = Listener
  Notify = Notify
  MaxLines = 2
  MaxChanges = 1
  MaxSignals = 1
SYMMETRY AnyClient
INVARIANTS
  STypeOK
  NoGhosts
  NothingForgotten
  LinesInOrder
CHECK_DEADLOCK FALSE
