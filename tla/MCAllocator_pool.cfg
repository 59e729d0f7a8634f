SPECIFICATION Spec
CONSTANTS
  i1 = i1
  i2 = i2
  Width = 2
  Height = 2
  Request <- MCRequest
  Fault <- MCFault
  Id = {i1, i2}
  MaxCooling = 2
SYMMETRY AnyId
INVARIANTS
  ATypeOK
  WellPacked
  LeavesOwned
  SinglesAccounted
  AllGivenBack
PROPERTIES
  ImplementsPool
CHECK_DEADLOCK FALSE
