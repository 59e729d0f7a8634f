SPECIFICATION SSpec
CONSTANTS
  c1 = c1
  c2 = c2
  j1 = j1
  m1 = m1
  Client = {c1}
  NoClient = NoClient
  Item = {j1, m1}
  KindOf <- MCKindOf
  All = All
  Line <- MCWatches
  NoLine = NoLine
  Listener = Listener
  Notify = Notify
  MaxLines = 1
  MaxChanges = 2
  MaxSignals = 2
INVARIANTS
  ServerSurvives
CHECK_DEADLOCK FALSE
